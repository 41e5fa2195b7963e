--------------------------- MODULE MCRfidNotifications ---------------------------
(***************************************************************************)
(* Instances of RfidNotifications for TLC: the reader of a carousel, which *)
(* the balloons pass one by one, and the reader of a ramp, with an optical *)
(* sensor and two balloons at once.                                        *)
(***************************************************************************)
EXTENDS RfidNotifications, TLC

CONSTANTS carousel, ramp

OneAndTwo == (carousel :> 1) @@ (ramp :> 2)
OneAndThree == (carousel :> 1) @@ (ramp :> 3)

Case(first, second, fires, crashes, gone) ==
    [balloons |-> (carousel :> first) @@ (ramp :> second),
     firings |-> (carousel :> 0) @@ (ramp :> fires),
     restarts |-> crashes, removals |-> gone]

Cases == {Case(2, 0, 1, 0, {}), Case(2, 0, 0, 1, {}), Case(0, 2, 1, 1, {}), Case(1, 1, 0, 1, {}),
          Case(0, 2, 0, 0, {ramp})}
=============================================================================
