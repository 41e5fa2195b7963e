---------------------------- MODULE MCBalloonsBatch ----------------------------
(***************************************************************************)
(* Instances of BalloonsBatch for TLC: the request bodies each run sends.  *)
(***************************************************************************)
EXTENDS BalloonsBatch, TLC

CONSTANT r1   \* a reader

Fields(status, is_active, ttn, rfid) ==
    [status |-> status, is_active |-> is_active,
     amount_of_ttn |-> ttn, amount_of_rfid |-> rfid]

\* Tags are told apart by nothing but their identity
SameBalloons == Permutations(Balloons)

\* Two states that differ only in what no later statement reads are one: the instance is
\* read until the decision to send the statuses, the tags until they are written or sent.
LiveCopy(t) ==
    IF pc[t] \in {"save", "update", "exists", "insert", "get", "erase", "presave", "count"}
    THEN copy[t] ELSE BlankRow
LiveTags(t) ==
    IF pc[t] \in {"exists", "insert", "get", "erase", "send"} THEN tags[t] ELSE {}
LiveState == <<db, history, pc, on, victims,
               [t \in Threads |-> <<LiveCopy(t), LiveTags(t)>>]>>

\* Creation with the amount of the waybill, and the close request
DocumentedBodies == {Fields(Keep, TRUE, 1, Keep), Fields(Keep, FALSE, Keep, Keep)}

\* The same, and a PATCH that names a status
StatusBodies == DocumentedBodies \union {Fields("active", TRUE, Keep, Keep)}

\* The close request carries the client's own count of tags
CountingBodies == {Fields(Keep, TRUE, 1, Keep), Fields(Keep, FALSE, Keep, 1)}

\* The close request by status
CloseByStatus == {Fields(Keep, TRUE, 1, Keep), Fields("completed", TRUE, Keep, Keep)}
=============================================================================
