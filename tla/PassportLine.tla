------------------------------ MODULE PassportLine ------------------------------
(***************************************************************************)
(* What the queue of passports between an RFID reader and its carousels    *)
(* promises: the balloons that pass a reader are numbered as they pass;    *)
(* the passports waiting are given out oldest first, each to one balloon   *)
(* on a post.  A passport may be missing, be lost on the way out, or       *)
(* expire with the others; it never comes back.                            *)
(***************************************************************************)
EXTENDS Integers

CONSTANTS
    Readers,
    Who          \* who is given a passport

VARIABLES
    passed,   \* the last balloon that passed each reader
    waiting,  \* the passports in the list of a reader
    given     \* <<reader, who was given it, passport>>

line == <<passed, waiting, given>>

\* processing_request_with_nfc: a reading that fails leaves no passport
Pass(r) ==
    /\ passed' = [passed EXCEPT ![r] = @ + 1]
    /\ waiting' \in {waiting, [waiting EXCEPT ![r] = @ \union {passed'[r]}]}
    /\ UNCHANGED given

IsOldest(n, r) == n \in waiting[r] /\ \A m \in waiting[r] : n <= m

Remove(n, r) == waiting' = [waiting EXCEPT ![r] = @ \ {n}]

\* pop_json_from_queue
Give(r, who) ==
    \E n \in waiting[r] :
        /\ IsOldest(n, r)
        /\ Remove(n, r)
        /\ given' = given \union {<<r, who, n>>}
        /\ UNCHANGED passed

\* Popped, and the answer of Redis is lost
Lose(r) ==
    \E n \in waiting[r] :
        /\ IsOldest(n, r)
        /\ Remove(n, r)
        /\ UNCHANGED <<passed, given>>

Expire(r) ==
    /\ waiting' = [waiting EXCEPT ![r] = {}]
    /\ UNCHANGED <<passed, given>>

Init ==
    /\ passed = [r \in Readers |-> 0]
    /\ waiting = [r \in Readers |-> {}]
    /\ given = {}

Next == \E r \in Readers : Pass(r) \/ Lose(r) \/ Expire(r) \/ \E who \in Who : Give(r, who)

Spec == Init /\ [][Next]_line
=============================================================================
