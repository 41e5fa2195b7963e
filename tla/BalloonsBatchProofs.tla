--------------------------- MODULE BalloonsBatchProofs ---------------------------
(***************************************************************************)
(* Theorems about BalloonsBatch for any number of handlers, readers,       *)
(* balloons and batches, and any request bodies.                           *)
(***************************************************************************)
EXTENDS BalloonsBatch, TLAPS

USE ThreadsAssumption, BodiesAssumption, KeepAssumption, BoundsAssumption, ReadersAssumption

----------------------------------------------------------------------------
(* The operators on columns *)

\* The whole-row save writes a row whose flag agrees with its status.
LEMMA SyncedRow ==
    ASSUME NEW r \in Row
    PROVE  /\ Synced(r) \in Row
           /\ Synced(r).status = r.status
           /\ r.status = "miriada_error" => Synced(r).miriada_close_failed
           /\ r.status = "completed" => ~Synced(r).miriada_close_failed
BY DEF Synced, Row

\* A partial body leaves a well-formed row, and its status is the old one or the body's.
LEMMA AppliedRow ==
    ASSUME NEW r \in Row, NEW body \in Body
    PROVE  /\ Apply(r, body) \in Row
           /\ Apply(r, body).status = Merge(r.status, body.status)
BY DEF Apply, Merge, Row, Body

\* The fields of the close request are a body without a status.
LEMMA PayloadBody ==
    ASSUME NEW body \in Body
    PROVE  ClosePayload(body) \in Body /\ ClosePayload(body).status = Keep
BY DEF ClosePayload, Body

LEMMA BlankIsRow == BlankRow \in Row /\ BlankRow.status = "paused"
BY DEF BlankRow, Row, BatchStatus

----------------------------------------------------------------------------
(* The moves of a handler keep the types *)

LEMMA DoneOK ==
    ASSUME TypeOK, NEW t \in Threads, Done(t), last' = last
    PROVE  HandlersOK'
<1>1. 0 \in 0 .. last
  BY DEF TypeOK, DatabaseOK
<1>2. QED
  BY <1>1, BlankIsRow DEF TypeOK, HandlersOK, Done, Goto, Steps

LEMMA GotoOK ==
    ASSUME TypeOK, NEW t \in Threads, NEW step \in Steps \ {"idle"},
           pc[t] # "idle", Goto(t, step), UNCHANGED <<on, last>>,
           copy' \in [Threads -> Row],
           tags' \in [Threads -> SUBSET Balloons],
           victims' \in [Threads -> SUBSET Ids]
    PROVE  HandlersOK'
BY DEF TypeOK, HandlersOK, Goto

LEMMA LoadOK ==
    ASSUME TypeOK, NEW t \in Threads, NEW b, NEW step \in Steps \ {"idle"},
           NEW r \in Row, NEW nfc \in SUBSET Balloons, Load(t, b, step, r, nfc)
    PROVE  TypeOK'
<1>1. DatabaseOK' /\ HistoryOK'
  BY DEF TypeOK, DatabaseOK, HistoryOK, Load, db, history
<1>2. b \in 1 .. last /\ b # 0
  BY DEF Load, TypeOK, DatabaseOK
<1>3. HandlersOK'
  BY <1>2 DEF TypeOK, DatabaseOK, HandlersOK, Load, Goto, db
<1>4. QED
  BY <1>1, <1>3 DEF TypeOK

\* The batch of a handler in progress has been in the table.
LEMMA OnBatch ==
    ASSUME TypeOK, NEW t \in Threads, pc[t] # "idle"
    PROVE  on[t] \in 1 .. last /\ on[t] \in Ids /\ copy[t] \in Row
BY DEF TypeOK, DatabaseOK, HandlersOK, Ids

LEMMA FullSaveOK ==
    ASSUME TypeOK, NEW t \in Threads, pc[t] # "idle", NEW r \in Row, FullSave(t, r)
    PROVE  DatabaseOK'
<1>1. Synced(r) \in Row
  BY SyncedRow
<1>2. row' \in [Ids -> Row]
  BY <1>1 DEF FullSave, TypeOK, DatabaseOK
<1>3. QED
  BY <1>2, OnBatch DEF FullSave, TypeOK, DatabaseOK

LEMMA UpdateColumnsOK ==
    ASSUME TypeOK, NEW t \in Threads, NEW r \in Row, UpdateColumns(t, r)
    PROVE  DatabaseOK'
BY DEF UpdateColumns, TypeOK, DatabaseOK

\* Pausing some rows keeps them rows.
LEMMA PausedRows ==
    ASSUME TypeOK, NEW t \in Threads, NEW b \in Ids
    PROVE  Paused(t, b) \in Row
BY DEF Paused, TypeOK, DatabaseOK, Row, BatchStatus

LEMMA StatusRow ==
    ASSUME NEW r \in Row, NEW s \in BatchStatus
    PROVE  [r EXCEPT !.status = s] \in Row /\ [r EXCEPT !.status = s].status = s
BY DEF Row

----------------------------------------------------------------------------
(* Type correctness, one lemma per group of actions *)

LEMMA CreateOK ==
    ASSUME TypeOK, NEW t \in Threads, NEW r \in Readers, NEW ttn \in BOOLEAN,
           NEW body \in Bodies, CreateBatch(t, r, ttn, body)
    PROVE  TypeOK'
<1> DEFINE b == last + 1
           fresh == [BlankRow EXCEPT !.status = "active"]
           new == Synced(Apply(fresh, body))
<1>1. b \in Ids /\ last \in Nat /\ body \in Body
  BY DEF CreateBatch, TypeOK, DatabaseOK, Ids
<1>2. new \in Row
  <2>1. fresh \in Row
    BY StatusRow, BlankIsRow DEF BatchStatus
  <2>2. Apply(fresh, body) \in Row
    BY <1>1, <2>1, AppliedRow
  <2>3. QED
    BY <2>2, SyncedRow
<1> HIDE DEF new
<1>3. /\ last' = b /\ live' = live \union {b} /\ today' = today \union {b}
      /\ row' = [row EXCEPT ![b] = new] /\ reader' = [reader EXCEPT ![b] = r]
      /\ waybill' = IF ttn THEN waybill \union {b} ELSE waybill
      /\ UNCHANGED <<members, history>>
  BY DEF CreateBatch, new
<1>4. DatabaseOK'
  BY <1>1, <1>2, <1>3 DEF TypeOK, DatabaseOK, Ids
<1>5. HistoryOK'
  BY <1>1, <1>3 DEF TypeOK, HistoryOK, history
<1>6. HandlersOK'
  <2>1. CASE UNCHANGED local
    BY <1>1, <1>3, <2>1 DEF TypeOK, DatabaseOK, HandlersOK, local
  <2>2. CASE /\ Goto(t, "created") /\ on' = [on EXCEPT ![t] = b]
             /\ copy' = [copy EXCEPT ![t] = new] /\ UNCHANGED <<tags, victims>>
    BY <1>1, <1>2, <1>3, <2>2 DEF TypeOK, DatabaseOK, HandlersOK, Goto, Steps
  <2>3. QED
    BY <2>1, <2>2 DEF CreateBatch, new
<1>7. QED
  BY <1>4, <1>5, <1>6 DEF TypeOK

LEMMA RequestOK ==
    ASSUME TypeOK, NEW t \in Threads, Request(t)
    PROVE  TypeOK'
<1>1. \A b \in live : b \in Ids /\ row[b] \in Row
  BY DEF TypeOK, DatabaseOK, Ids
<1>2. \A body \in Bodies : body \in Body /\ ClosePayload(body) \in Body
  BY PayloadBody
<1>3. ASSUME NEW b \in live, NEW body \in Bodies, SaveAndClose(t, b, body)
      PROVE  TypeOK'
  <2>1. Apply(row[b], ClosePayload(body)) \in Row
    BY <1>1, <1>2, AppliedRow
  <2>2. (IF HasPayload(body) THEN "presave" ELSE "count") \in Steps \ {"idle"}
    BY DEF Steps
  <2>3. QED
    BY <1>3, <2>1, <2>2, LoadOK DEF SaveAndClose
<1>4. ASSUME NEW r \in Readers, NEW ttn \in BOOLEAN, NEW body \in Bodies,
             CreateBatch(t, r, ttn, body)
      PROVE  TypeOK'
  BY <1>4, CreateOK
<1>5. ASSUME NEW b \in live, NEW body \in Bodies, PatchBatch(t, b, body)
      PROVE  TypeOK'
  <2>1. Apply(row[b], body) \in Row
    BY <1>1, <1>2, AppliedRow
  <2>2. {"save", "update"} \subseteq Steps \ {"idle"}
    BY DEF Steps
  <2>3. QED
    BY <1>5, <2>1, <2>2, LoadOK DEF PatchBatch
<1>6. ASSUME NEW b \in live, NEW body \in Bodies, CloseBatch(t, b, body)
      PROVE  TypeOK'
  BY <1>3, <1>6 DEF CloseBatch
<1>7. ASSUME NEW b \in live, NEW body \in Bodies, RetryClose(t, b, body)
      PROVE  TypeOK'
  BY <1>3, <1>7 DEF RetryClose
<1>8. ASSUME NEW b \in live, PauseBatch(t, b)
      PROVE  TypeOK'
  BY <1>1, <1>8, LoadOK DEF PauseBatch, Steps
<1>9. ASSUME NEW b \in live, ResumeBatch(t, b)
      PROVE  TypeOK'
  BY <1>1, <1>9, LoadOK DEF ResumeBatch, Steps
<1>10. ASSUME NEW b \in live, DeleteBatch(t, b)
       PROVE  TypeOK'
  <2>1. DatabaseOK'
    BY <1>10, BlankIsRow DEF DeleteBatch, TypeOK, DatabaseOK
  <2>2. HistoryOK' /\ HandlersOK'
    BY <1>10 DEF DeleteBatch, TypeOK, HistoryOK, HandlersOK, history, local
  <2>3. QED
    BY <2>1, <2>2 DEF TypeOK
<1>11. ASSUME NEW b \in live, NEW nfc \in Balloons, AddBalloon(t, b, nfc)
       PROVE  TypeOK'
  BY <1>1, <1>11, LoadOK DEF AddBalloon, StartAdd, Steps
<1>12. ASSUME NEW b \in live, NEW nfc \in Balloons, RemoveBalloon(t, b, nfc)
       PROVE  TypeOK'
  BY <1>1, <1>12, LoadOK DEF RemoveBalloon, Steps
<1>13. QED
  BY <1>4, <1>5, <1>6, <1>7, <1>8, <1>9, <1>10, <1>11, <1>12 DEF Request

LEMMA ReaderEventOK ==
    ASSUME TypeOK, NEW t \in Threads, ReaderEvent(t)
    PROVE  TypeOK'
<1>1. \A b \in live : b \in Ids /\ row[b] \in Row
  BY DEF TypeOK, DatabaseOK, Ids
<1>2. ASSUME NEW r \in Readers, SensorPass(t, r)
      PROVE  TypeOK'
  <2>1. PICK b \in live :
            Load(t, b, "save", [row[b] EXCEPT !.amount_of_sensor = @ + 1], {})
    BY <1>2 DEF SensorPass
  <2>2. [row[b] EXCEPT !.amount_of_sensor = @ + 1] \in Row
    BY <1>1 DEF Row
  <2>3. QED
    BY <2>1, <2>2, LoadOK DEF Steps
<1>3. ASSUME NEW r \in Readers, NEW nfc \in Balloons, RfidBalloon(t, r, nfc)
      PROVE  TypeOK'
  BY <1>1, <1>3, LoadOK DEF RfidBalloon, StartAdd, Steps
<1>4. QED
  BY <1>2, <1>3 DEF ReaderEvent

LEMMA StatementOK ==
    ASSUME TypeOK, NEW t \in Threads, Statement(t)
    PROVE  TypeOK'
<1> USE DEF history
<1>1. CASE SaveInstance(t)
  <2>1. DatabaseOK'
    BY <1>1, FullSaveOK, OnBatch DEF SaveInstance
  <2>2. HandlersOK' /\ HistoryOK'
    BY <1>1, DoneOK DEF SaveInstance, FullSave, TypeOK, HistoryOK
  <2>3. QED
    BY <2>1, <2>2 DEF TypeOK
<1>2. CASE CheckNotListed(t)
  <2>1. DatabaseOK' /\ HistoryOK'
    BY <1>2 DEF CheckNotListed, TypeOK, DatabaseOK, HistoryOK, db
  <2>2. HandlersOK'
    BY <1>2, DoneOK, GotoOK DEF CheckNotListed, TypeOK, HandlersOK, db, Steps
  <2>3. QED
    BY <2>1, <2>2 DEF TypeOK
<1>3. CASE InsertBalloon(t)
  <2>1. on[t] \in Ids /\ copy[t] \in Row
    BY <1>3, OnBatch DEF InsertBalloon
  <2>2. members' \in [Ids -> SUBSET Balloons]
    BY <1>3, <2>1 DEF InsertBalloon, TypeOK, DatabaseOK, HandlersOK
  <2>3. DatabaseOK' /\ HistoryOK'
    BY <1>3, <2>2 DEF InsertBalloon, TypeOK, DatabaseOK, HistoryOK
  <2>4. CASE on[t] \in live
    <3>1. [copy[t] EXCEPT !.amount_of_rfid = @ + 1] \in Row
      BY <2>1 DEF Row
    <3>2. copy' \in [Threads -> Row]
      BY <1>3, <2>4, <3>1 DEF InsertBalloon, TypeOK, HandlersOK
    <3>3. HandlersOK'
      BY <1>3, <2>4, <3>2, GotoOK DEF InsertBalloon, TypeOK, HandlersOK, Steps
    <3>4. QED
      BY <2>3, <3>3 DEF TypeOK
  <2>5. CASE on[t] \notin live
    BY <1>3, <2>3, <2>5, DoneOK DEF InsertBalloon, TypeOK
  <2>6. QED
    BY <2>4, <2>5
<1>4. CASE GetListed(t)
  <2>1. DatabaseOK' /\ HistoryOK'
    BY <1>4 DEF GetListed, TypeOK, DatabaseOK, HistoryOK, db
  <2>2. HandlersOK'
    BY <1>4, DoneOK, GotoOK DEF GetListed, TypeOK, HandlersOK, db, Steps
  <2>3. QED
    BY <2>1, <2>2 DEF TypeOK
<1>5. CASE EraseBalloon(t)
  <2>1. on[t] \in Ids /\ copy[t] \in Row
    BY <1>5, OnBatch DEF EraseBalloon
  <2>2. members' \in [Ids -> SUBSET Balloons]
    BY <1>5, <2>1 DEF EraseBalloon, TypeOK, DatabaseOK
  <2>3. DatabaseOK' /\ HistoryOK'
    BY <1>5, <2>2 DEF EraseBalloon, TypeOK, DatabaseOK, HistoryOK
  <2>4. [copy[t] EXCEPT !.amount_of_rfid = IF @ > 0 THEN @ - 1 ELSE 0] \in Row
    BY <2>1 DEF Row
  <2>5. copy' \in [Threads -> Row]
    BY <1>5, <2>4 DEF EraseBalloon, TypeOK, HandlersOK
  <2>6. HandlersOK'
    BY <1>5, <2>5, GotoOK DEF EraseBalloon, TypeOK, HandlersOK, Steps
  <2>7. QED
    BY <2>3, <2>6 DEF TypeOK
<1>6. CASE PauseStatus(t)
  <2>1. [row[on[t]] EXCEPT !.status = "paused"] \in Row
    BY <1>6, OnBatch, StatusRow DEF PauseStatus, TypeOK, DatabaseOK, BatchStatus
  <2>2. DatabaseOK'
    BY <1>6, <2>1, UpdateColumnsOK DEF PauseStatus
  <2>3. HandlersOK' /\ HistoryOK'
    BY <1>6, DoneOK DEF PauseStatus, UpdateColumns, TypeOK, HistoryOK
  <2>4. QED
    BY <2>2, <2>3 DEF TypeOK
<1>7. CASE SelectOthers(t)
  <2>1. DatabaseOK' /\ HistoryOK'
    BY <1>7 DEF SelectOthers, TypeOK, DatabaseOK, HistoryOK, db
  <2>2. victims' \in [Threads -> SUBSET Ids]
    <3>1. live \subseteq Ids
      BY DEF TypeOK, DatabaseOK, Ids
    <3>2. ActiveToday(reader[on[t]]) \ {on[t]} \in SUBSET Ids
      BY <3>1 DEF ActiveToday
    <3>3. QED
      BY <1>7, <3>2 DEF SelectOthers, TypeOK, HandlersOK
  <2>3. HandlersOK'
    BY <1>7, <2>2, GotoOK DEF SelectOthers, TypeOK, HandlersOK, db, Steps
  <2>4. QED
    BY <2>1, <2>3 DEF TypeOK
<1>8. CASE PauseOthers(t)
  <2>1. row' \in [Ids -> Row]
    BY <1>8, PausedRows DEF PauseOthers
  <2>2. DatabaseOK'
    BY <1>8, <2>1 DEF PauseOthers, TypeOK, DatabaseOK
  <2>3. HandlersOK' /\ HistoryOK'
    BY <1>8, DoneOK DEF PauseOthers, TypeOK, HistoryOK
  <2>4. QED
    BY <2>2, <2>3 DEF TypeOK
<1>9. CASE CommitResume(t)
  <2>1. \A b \in Ids : [row[b] EXCEPT !.status = "active"] \in Row
    BY StatusRow DEF TypeOK, DatabaseOK, BatchStatus
  <2>2. row' \in [Ids -> Row]
    <3>1. CASE on[t] \in live
      BY <1>9, <2>1, <3>1, PausedRows DEF CommitResume
    <3>2. CASE on[t] \notin live
      BY <1>9, <3>2 DEF CommitResume, TypeOK, DatabaseOK
    <3>3. QED
      BY <3>1, <3>2
  <2>3. DatabaseOK'
    BY <1>9, <2>2 DEF CommitResume, TypeOK, DatabaseOK
  <2>4. HandlersOK' /\ HistoryOK'
    BY <1>9, DoneOK DEF CommitResume, TypeOK, HistoryOK
  <2>5. QED
    BY <2>3, <2>4 DEF TypeOK
<1>10. CASE UpdateStatus(t)
  <2>1. DatabaseOK'
    BY <1>10, FullSaveOK, OnBatch DEF UpdateStatus
  <2>2. on[t] \in 1 .. last
    BY <1>10, OnBatch DEF UpdateStatus
  <2>3. HandlersOK' /\ HistoryOK'
    BY <1>10, <2>2, DoneOK DEF UpdateStatus, FullSave, TypeOK, HistoryOK
  <2>4. QED
    BY <2>1, <2>3 DEF TypeOK
<1>11. QED
  BY <1>1, <1>2, <1>3, <1>4, <1>5, <1>6, <1>7, <1>8, <1>9, <1>10 DEF Statement

LEMMA CloseStatementOK ==
    ASSUME TypeOK, NEW t \in Threads, CloseStatement(t)
    PROVE  TypeOK'
<1> USE DEF history
<1>1. CASE SavePayload(t)
  <2>1. DatabaseOK'
    BY <1>1, FullSaveOK, OnBatch DEF SavePayload
  <2>2. HandlersOK' /\ HistoryOK'
    BY <1>1, GotoOK DEF SavePayload, FullSave, TypeOK, HistoryOK, HandlersOK, Steps
  <2>3. QED
    BY <2>1, <2>2 DEF TypeOK
<1>2. CASE RefreshFromDb(t)
  <2>1. DatabaseOK' /\ HistoryOK'
    BY <1>2 DEF RefreshFromDb, TypeOK, DatabaseOK, HistoryOK, db
  <2>2. CASE on[t] \in live
    <3>1. row[on[t]] \in Row
      BY <1>2, OnBatch DEF RefreshFromDb, TypeOK, DatabaseOK
    <3>2. copy' \in [Threads -> Row]
      BY <1>2, <2>2, <3>1 DEF RefreshFromDb, TypeOK, HandlersOK
    <3>3. HandlersOK'
      BY <1>2, <2>2, <3>2, GotoOK DEF RefreshFromDb, TypeOK, HandlersOK, db, Steps
    <3>4. QED
      BY <2>1, <3>3 DEF TypeOK
  <2>3. CASE on[t] \notin live
    BY <1>2, <2>1, <2>3, DoneOK DEF RefreshFromDb, TypeOK, db
  <2>4. QED
    BY <2>2, <2>3
<1>3. CASE RejectMismatch(t)
  <2>1. DatabaseOK' /\ HistoryOK'
    BY <1>3 DEF RejectMismatch, TypeOK, DatabaseOK, HistoryOK, db
  <2>2. QED
    BY <1>3, <2>1, DoneOK DEF RejectMismatch, TypeOK, db
<1>4. CASE SkipSending(t)
  <2>1. DatabaseOK' /\ HistoryOK'
    BY <1>4 DEF SkipSending, TypeOK, DatabaseOK, HistoryOK, db
  <2>2. HandlersOK'
    BY <1>4, GotoOK DEF SkipSending, TypeOK, HandlersOK, db, Steps
  <2>3. QED
    BY <2>1, <2>2 DEF TypeOK
<1>5. CASE ReadBalloonList(t)
  <2>1. DatabaseOK' /\ HistoryOK'
    BY <1>5 DEF ReadBalloonList, TypeOK, DatabaseOK, HistoryOK, db
  <2>2. CASE on[t] \in live
    <3>1. members[on[t]] \in SUBSET Balloons
      BY <1>5, OnBatch DEF ReadBalloonList, TypeOK, DatabaseOK
    <3>2. tags' \in [Threads -> SUBSET Balloons]
      BY <1>5, <2>2, <3>1 DEF ReadBalloonList, TypeOK, HandlersOK
    <3>3. HandlersOK'
      BY <1>5, <2>2, <3>2, GotoOK DEF ReadBalloonList, TypeOK, HandlersOK, db, Steps
    <3>4. QED
      BY <2>1, <3>3 DEF TypeOK
  <2>3. CASE on[t] \notin live
    BY <1>5, <2>1, <2>3, DoneOK DEF ReadBalloonList, TypeOK, db
  <2>4. QED
    BY <2>2, <2>3
<1>6. CASE SendStatuses(t)
  <2>1. PICK taken \in SUBSET tags[t] :
            /\ accepted' = [accepted EXCEPT ![on[t]] = @ \union taken]
            /\ Goto(t, "fail") \/ Goto(t, "flag")
    BY <1>6 DEF SendStatuses
  <2>2. taken \subseteq Balloons /\ on[t] \in Ids
    BY <1>6, OnBatch DEF SendStatuses, TypeOK, HandlersOK
  <2>3. accepted' \in [Ids -> SUBSET Balloons]
    BY <2>1, <2>2 DEF TypeOK, HistoryOK
  <2>4. DatabaseOK' /\ HistoryOK'
    BY <1>6, <2>3 DEF SendStatuses, TypeOK, DatabaseOK, HistoryOK, db
  <2>5. HandlersOK'
    BY <1>6, <2>1, GotoOK DEF SendStatuses, TypeOK, HandlersOK, db, Steps
  <2>6. QED
    BY <2>4, <2>5 DEF TypeOK
<1>7. CASE SetSentFlag(t)
  <2>1. on[t] \in Ids /\ copy[t] \in Row /\ row[on[t]] \in Row
    BY <1>7, OnBatch DEF SetSentFlag, TypeOK, DatabaseOK
  <2>2. [row[on[t]] EXCEPT !.miriada_balloons_sent = TRUE] \in Row
    BY <2>1 DEF Row
  <2>3. DatabaseOK' /\ HistoryOK'
    BY <1>7, <2>2, UpdateColumnsOK DEF SetSentFlag, UpdateColumns, TypeOK, HistoryOK
  <2>4. CASE on[t] \in live
    <3>1. [copy[t] EXCEPT !.miriada_balloons_sent = TRUE] \in Row
      BY <2>1 DEF Row
    <3>2. copy' \in [Threads -> Row]
      BY <1>7, <2>4, <3>1 DEF SetSentFlag, TypeOK, HandlersOK
    <3>3. HandlersOK'
      BY <1>7, <2>4, <3>2, GotoOK DEF SetSentFlag, UpdateColumns, TypeOK, HandlersOK, Steps
    <3>4. QED
      BY <2>3, <3>3 DEF TypeOK
  <2>5. CASE on[t] \notin live
    BY <1>7, <2>3, <2>5, DoneOK DEF SetSentFlag, UpdateColumns, TypeOK
  <2>6. QED
    BY <2>4, <2>5
<1>8. CASE CloseTtn(t)
  <2>1. DatabaseOK' /\ HistoryOK'
    BY <1>8 DEF CloseTtn, TypeOK, DatabaseOK, HistoryOK, db
  <2>2. Goto(t, "complete") \/ Goto(t, "fail")
    BY <1>8 DEF CloseTtn
  <2>3. HandlersOK'
    BY <1>8, <2>2, GotoOK DEF CloseTtn, TypeOK, HandlersOK, db, Steps
  <2>4. QED
    BY <2>1, <2>3 DEF TypeOK
<1>9. CASE FinishClose(t)
  <2> DEFINE final == IF pc[t] = "complete" THEN "completed" ELSE "miriada_error"
             r == [row[on[t]] EXCEPT !.status = final]
  <2>1. r \in Row
    BY <1>9, OnBatch, StatusRow DEF FinishClose, TypeOK, DatabaseOK, BatchStatus
  <2> HIDE DEF r
  <2>2. Synced(r) \in Row
    BY <2>1, SyncedRow
  <2>3. UpdateColumns(t, Synced(r))
    BY <1>9 DEF FinishClose, r
  <2>4. DatabaseOK'
    BY <2>2, <2>3, UpdateColumnsOK
  <2>5. HandlersOK' /\ HistoryOK'
    BY <1>9, <2>3, DoneOK DEF FinishClose, UpdateColumns, TypeOK, HistoryOK
  <2>6. QED
    BY <2>4, <2>5 DEF TypeOK
<1>10. QED
  BY <1>1, <1>2, <1>3, <1>4, <1>5, <1>6, <1>7, <1>8, <1>9 DEF CloseStatement

LEMMA AbortOK ==
    ASSUME TypeOK, NEW t \in Threads, Abort(t)
    PROVE  TypeOK'
<1>1. DatabaseOK' /\ HistoryOK'
  BY DEF Abort, TypeOK, DatabaseOK, HistoryOK, db, history
<1>2. QED
  BY <1>1, DoneOK DEF Abort, TypeOK, db

LEMMA DeleteBalloonOK ==
    ASSUME TypeOK, NEW nfc \in Balloons, DeleteBalloon(nfc)
    PROVE  TypeOK'
<1> DEFINE listing == {b \in live : nfc \in members[b]}
<1>1. /\ members' = [b \in Ids |-> members[b] \ {nfc}]
      /\ orphans' = [b \in Ids |-> IF b \in listing THEN orphans[b] + 1 ELSE orphans[b]]
      /\ UNCHANGED <<last, live, row, reader, waybill, today, accepted, ttnClosed, forced, local>>
  BY DEF DeleteBalloon
<1> HIDE DEF listing
<1>2. members' \in [Ids -> SUBSET Balloons]
  BY <1>1 DEF TypeOK, DatabaseOK
<1>3. orphans' \in [Ids -> Nat]
  BY <1>1 DEF TypeOK, HistoryOK
<1>4. DatabaseOK'
  BY <1>1, <1>2 DEF TypeOK, DatabaseOK
<1>5. HistoryOK' /\ HandlersOK'
  BY <1>1, <1>3 DEF TypeOK, HistoryOK, HandlersOK, local
<1>6. QED
  BY <1>4, <1>5 DEF TypeOK

LEMMA MidnightOK ==
    ASSUME TypeOK, Midnight
    PROVE  TypeOK'
BY DEF Midnight, TypeOK, DatabaseOK, HistoryOK, HandlersOK, history, local

LEMMA StutterOK ==
    ASSUME TypeOK, UNCHANGED vars
    PROVE  TypeOK'
BY DEF vars, db, history, local, TypeOK, DatabaseOK, HistoryOK, HandlersOK

LEMMA InitOK == Init => TypeOK
<1> SUFFICES ASSUME Init PROVE TypeOK
  OBVIOUS
<1>1. DatabaseOK
  BY BlankIsRow DEF Init, DatabaseOK, Ids
<1>2. HistoryOK
  BY DEF Init, HistoryOK
<1>3. HandlersOK
  BY BlankIsRow DEF Init, HandlersOK, Steps
<1>4. QED
  BY <1>1, <1>2, <1>3 DEF TypeOK

\* Every variable keeps its type: no interleaving of handlers, no deletion under a running
\* handler and no interruption leaves a counter that is no number, a handler without its
\* batch or a batch of today that is not in the table.
THEOREM TypeCorrect == Spec => []TypeOK
<1>1. TypeOK /\ [Next]_vars => TypeOK'
  BY RequestOK, ReaderEventOK, StatementOK, CloseStatementOK, AbortOK, MidnightOK,
     DeleteBalloonOK, StutterOK DEF Next
<1>2. QED
  BY InitOK, <1>1, PTL DEF Spec

\* However many handlers overlap and whatever count a client has set, a decrement in
\* memory that is saved later never makes the counter of tags negative (remove_balloon).
THEOREM CounterStaysNatural == Spec => []CounterNotNegative
<1>1. TypeOK => CounterNotNegative
  BY DEF TypeOK, DatabaseOK, Row, CounterNotNegative
<1>2. QED
  BY <1>1, TypeCorrect, PTL

----------------------------------------------------------------------------
(* The failure flag *)

LEMMA FullSaveFlag ==
    ASSUME TypeOK, StatusFlagAgree, NEW t \in Threads, pc[t] # "idle", NEW r \in Row,
           FullSave(t, r)
    PROVE  StatusFlagAgree'
<1>1. FlagFollowsStatus(Synced(r))
  BY SyncedRow DEF FlagFollowsStatus
<1>2. row' = [row EXCEPT ![on[t]] = Synced(r)]
  BY DEF FullSave
<1>3. \A b \in Ids : row'[b] = row[b] \/ row'[b] = Synced(r)
  BY <1>2 DEF TypeOK, DatabaseOK
<1>4. QED
  BY <1>1, <1>3 DEF StatusFlagAgree, FlagFollowsStatus

LEMMA UpdateColumnsFlag ==
    ASSUME TypeOK, StatusFlagAgree, NEW t \in Threads, NEW r, FlagFollowsStatus(r),
           UpdateColumns(t, r)
    PROVE  StatusFlagAgree'
<1>1. \A b \in Ids : row'[b] = row[b] \/ row'[b] = r
  BY DEF UpdateColumns, TypeOK, DatabaseOK
<1>2. QED
  BY <1>1 DEF StatusFlagAgree, FlagFollowsStatus

LEMMA PausedFlag ==
    ASSUME TypeOK, StatusFlagAgree, NEW t \in Threads, NEW b \in Ids
    PROVE  FlagFollowsStatus(Paused(t, b))
<1>1. row[b] \in Row /\ FlagFollowsStatus(row[b])
  BY DEF TypeOK, DatabaseOK, StatusFlagAgree
<1>2. [row[b] EXCEPT !.status = "paused"].status = "paused"
  BY <1>1, StatusRow DEF BatchStatus
<1>3. QED
  BY <1>1, <1>2 DEF Paused, FlagFollowsStatus

LEMMA CreateFlag ==
    ASSUME TypeOK, StatusFlagAgree, NEW t \in Threads, NEW r \in Readers,
           NEW ttn \in BOOLEAN, NEW body \in Bodies, CreateBatch(t, r, ttn, body)
    PROVE  StatusFlagAgree'
<1> DEFINE applied == Apply([BlankRow EXCEPT !.status = "active"], body)
<1>1. applied \in Row
  BY StatusRow, BlankIsRow, AppliedRow DEF BatchStatus
<1> HIDE DEF applied
<1>2. FlagFollowsStatus(Synced(applied))
  BY <1>1, SyncedRow DEF FlagFollowsStatus
<1>3. row' = [row EXCEPT ![last + 1] = Synced(applied)]
  BY DEF CreateBatch, applied
<1>4. \A b \in Ids : row'[b] = row[b] \/ row'[b] = Synced(applied)
  BY <1>3 DEF TypeOK, DatabaseOK
<1>5. QED
  BY <1>2, <1>4 DEF StatusFlagAgree, FlagFollowsStatus

LEMMA FlagStep ==
    ASSUME TypeOK, StatusFlagAgree, [Next]_vars
    PROVE  StatusFlagAgree'
<1>1. ASSUME UNCHANGED row
      PROVE  StatusFlagAgree'
  BY <1>1 DEF StatusFlagAgree, FlagFollowsStatus
<1>2. ASSUME NEW t \in Threads, Request(t)
      PROVE  StatusFlagAgree'
  <2>1. ASSUME NEW b \in live, DeleteBatch(t, b)
        PROVE  StatusFlagAgree'
    <3>1. \A c \in Ids : row'[c] = row[c] \/ row'[c] = BlankRow
      BY <2>1 DEF DeleteBatch, TypeOK, DatabaseOK
    <3>2. QED
      BY <3>1, BlankIsRow DEF StatusFlagAgree, FlagFollowsStatus
  <2>2. (\E r \in Readers, ttn \in BOOLEAN, body \in Bodies : CreateBatch(t, r, ttn, body))
            => StatusFlagAgree'
    BY CreateFlag
  <2>3. QED
    BY <1>1, <1>2, <2>1, <2>2
       DEF Request, PatchBatch, CloseBatch, RetryClose, SaveAndClose, PauseBatch,
           ResumeBatch, AddBalloon, StartAdd, RemoveBalloon, Load, db
<1>3. ASSUME NEW t \in Threads, ReaderEvent(t)
      PROVE  StatusFlagAgree'
  BY <1>1, <1>3 DEF ReaderEvent, SensorPass, RfidBalloon, StartAdd, Load, db
<1>4. ASSUME NEW t \in Threads, Statement(t)
      PROVE  StatusFlagAgree'
  <2>1. CASE SaveInstance(t) \/ UpdateStatus(t)
    BY <2>1, FullSaveFlag, OnBatch DEF SaveInstance, UpdateStatus
  <2>2. CASE PauseStatus(t)
    <3>1. FlagFollowsStatus([row[on[t]] EXCEPT !.status = "paused"])
      BY <2>2, OnBatch, StatusRow
         DEF PauseStatus, FlagFollowsStatus, TypeOK, DatabaseOK, BatchStatus
    <3>2. QED
      BY <2>2, <3>1, UpdateColumnsFlag DEF PauseStatus
  <2>3. CASE PauseOthers(t)
    BY <2>3, PausedFlag DEF PauseOthers, StatusFlagAgree
  <2>4. CASE CommitResume(t)
    <3>1. \A b \in Ids : FlagFollowsStatus([row[b] EXCEPT !.status = "active"])
      BY StatusRow DEF FlagFollowsStatus, TypeOK, DatabaseOK, BatchStatus
    <3>2. CASE on[t] \in live
      BY <2>4, <3>1, <3>2, PausedFlag DEF CommitResume, StatusFlagAgree
    <3>3. CASE on[t] \notin live
      BY <1>1, <2>4, <3>3 DEF CommitResume
    <3>4. QED
      BY <3>2, <3>3
  <2>5. QED
    BY <1>1, <1>4, <2>1, <2>2, <2>3, <2>4
       DEF Statement, CheckNotListed, InsertBalloon, GetListed, EraseBalloon,
           SelectOthers, db
<1>5. ASSUME NEW t \in Threads, CloseStatement(t)
      PROVE  StatusFlagAgree'
  <2>1. CASE SavePayload(t)
    BY <2>1, FullSaveFlag, OnBatch DEF SavePayload
  <2>2. CASE SetSentFlag(t)
    <3>1. row[on[t]] \in Row /\ FlagFollowsStatus(row[on[t]])
      BY <2>2, OnBatch DEF SetSentFlag, StatusFlagAgree, TypeOK, DatabaseOK
    <3>2. FlagFollowsStatus([row[on[t]] EXCEPT !.miriada_balloons_sent = TRUE])
      BY <3>1 DEF FlagFollowsStatus, Row
    <3>3. QED
      BY <2>2, <3>2, UpdateColumnsFlag DEF SetSentFlag
  <2>3. CASE FinishClose(t)
    <3> DEFINE final == IF pc[t] = "complete" THEN "completed" ELSE "miriada_error"
               r == [row[on[t]] EXCEPT !.status = final]
    <3>1. r \in Row
      BY <2>3, OnBatch, StatusRow DEF FinishClose, TypeOK, DatabaseOK, BatchStatus
    <3> HIDE DEF r
    <3>2. FlagFollowsStatus(Synced(r))
      BY <3>1, SyncedRow DEF FlagFollowsStatus
    <3>3. QED
      BY <2>3, <3>2, UpdateColumnsFlag DEF FinishClose, r
  <2>4. QED
    BY <1>1, <1>5, <2>1, <2>2, <2>3
       DEF CloseStatement, RefreshFromDb, RejectMismatch, SkipSending, ReadBalloonList,
           SendStatuses, CloseTtn, db
<1>6. QED
  BY <1>1, <1>2, <1>3, <1>4, <1>5 DEF Next, Abort, DeleteBalloon, Midnight, vars, db

\* miriada_close_failed agrees with the final statuses in every reachable state, although
\* four different kinds of writes set the two columns together or one of them alone.
THEOREM FlagAgreement == Spec => []StatusFlagAgree
<1>1. Init => StatusFlagAgree
  BY BlankIsRow DEF Init, StatusFlagAgree, FlagFollowsStatus
<1>2. QED
  BY <1>1, TypeCorrect, FlagStep, PTL DEF Spec

----------------------------------------------------------------------------
(* Completed batches and their waybills *)

CompletionInv == CompletedMeansTtnClosed /\ ClosersHaveClosed

\* An instance of batch b that may be kept or written
Completable(r, b) == (b \in waybill /\ r.status = "completed") => b \in ttnClosed

LEMMA LoadCompletion ==
    ASSUME TypeOK, CompletionInv, NEW t \in Threads, NEW b, NEW step \in Steps \ {"complete"},
           NEW r, NEW nfc, Completable(r, b), Load(t, b, step, r, nfc)
    PROVE  CompletionInv'
BY DEF CompletionInv, CompletedMeansTtnClosed, ClosersHaveClosed, Completable, Load, Goto,
       TypeOK, HandlersOK, db, history

\* What a handler that keeps its batch, its instance and the rows unchanged has to show.
LEMMA KeepsCompletion ==
    ASSUME TypeOK, CompletionInv, UNCHANGED <<row, waybill>>, ttnClosed \subseteq ttnClosed',
           \A t \in Threads :
               \/ on'[t] = 0
               \/ /\ on'[t] = on[t]
                  /\ copy'[t].status = "completed" => Completable(copy'[t], on[t])
                  /\ pc'[t] = "complete" => (pc[t] = "complete" \/ on[t] \notin waybill
                                                              \/ on[t] \in ttnClosed')
    PROVE  CompletionInv'
<1>1. 0 \notin waybill
  BY DEF TypeOK, DatabaseOK
<1>2. QED
  BY <1>1 DEF CompletionInv, CompletedMeansTtnClosed, ClosersHaveClosed, Completable

\* When handlers only end, or move on without completing, the rows decide.
LEMMA RowsDecide ==
    ASSUME TypeOK, CompletionInv, UNCHANGED <<waybill, ttnClosed>>,
           \A b \in Ids : row'[b].status = "completed" =>
               \/ row[b].status = "completed"
               \/ b \in waybill => b \in ttnClosed,
           \A t \in Threads :
               \/ on'[t] = 0
               \/ /\ on'[t] = on[t] /\ copy'[t].status = copy[t].status
                  /\ pc'[t] = "complete" => pc[t] = "complete"
    PROVE  CompletionInv'
<1>1. 0 \notin waybill
  BY DEF TypeOK, DatabaseOK
<1>2. QED
  BY <1>1 DEF CompletionInv, CompletedMeansTtnClosed, ClosersHaveClosed

LEMMA DoneIsIdle ==
    ASSUME TypeOK, NEW t \in Threads, Done(t)
    PROVE  /\ on'[t] = 0
           /\ \A u \in Threads \ {t} :
                 on'[u] = on[u] /\ copy'[u] = copy[u] /\ pc'[u] = pc[u]
BY DEF Done, Goto, TypeOK, HandlersOK

LEMMA CreateCompletion ==
    ASSUME NoBlindCompletion, TypeOK, CompletionInv, NEW t \in Threads, NEW r \in Readers,
           NEW ttn \in BOOLEAN, NEW body \in Bodies, CreateBatch(t, r, ttn, body)
    PROVE  CompletionInv'
<1> DEFINE b == last + 1
           fresh == [BlankRow EXCEPT !.status = "active"]
           new == Synced(Apply(fresh, body))
<1>1. new.status # "completed"
  <2>1. fresh \in Row /\ fresh.status = "active"
    BY StatusRow, BlankIsRow DEF BatchStatus
  <2>2. Apply(fresh, body) \in Row /\ Apply(fresh, body).status # "completed"
    BY <2>1, AppliedRow DEF Merge, NoBlindCompletion
  <2>3. QED
    BY <2>2, SyncedRow
<1> HIDE DEF new
<1>2. /\ row' = [row EXCEPT ![b] = new]
      /\ waybill' \subseteq waybill \union {b}
      /\ ttnClosed' = ttnClosed
      /\ \/ UNCHANGED local
         \/ /\ Goto(t, "created") /\ on' = [on EXCEPT ![t] = b]
            /\ copy' = [copy EXCEPT ![t] = new]
  BY DEF CreateBatch, new, history
<1>3. CompletedMeansTtnClosed'
  BY <1>1, <1>2 DEF CompletionInv, CompletedMeansTtnClosed, TypeOK, DatabaseOK
<1>4. \A u \in Threads : on[u] # b
  BY DEF TypeOK, DatabaseOK, HandlersOK
<1>5. ClosersHaveClosed'
  <2>1. CASE UNCHANGED local
    BY <1>2, <1>4, <2>1 DEF CompletionInv, ClosersHaveClosed, local
  <2>2. CASE /\ Goto(t, "created") /\ on' = [on EXCEPT ![t] = b]
             /\ copy' = [copy EXCEPT ![t] = new]
    BY <1>1, <1>2, <1>4, <2>2
       DEF CompletionInv, ClosersHaveClosed, Goto, TypeOK, HandlersOK
  <2>3. QED
    BY <1>2, <2>1, <2>2
<1>6. QED
  BY <1>3, <1>5 DEF CompletionInv

LEMMA RequestCompletion ==
    ASSUME NoBlindCompletion, TypeOK, CompletionInv, NEW t \in Threads, Request(t)
    PROVE  CompletionInv'
<1>1. \A b \in live : b \in Ids /\ row[b] \in Row /\ Completable(row[b], b)
  BY DEF TypeOK, DatabaseOK, Ids, CompletionInv, CompletedMeansTtnClosed, Completable
<1>2. \A body \in Bodies : body \in Body /\ ClosePayload(body) \in Body
                          /\ body.status # "completed" /\ ClosePayload(body).status = Keep
  BY PayloadBody DEF NoBlindCompletion
<1>3. ASSUME NEW b \in live, NEW body \in Bodies, SaveAndClose(t, b, body)
      PROVE  CompletionInv'
  <2>1. Apply(row[b], ClosePayload(body)).status = row[b].status
    BY <1>1, <1>2, AppliedRow DEF Merge
  <2>2. Completable(Apply(row[b], ClosePayload(body)), b)
    BY <1>1, <2>1 DEF Completable
  <2>3. (IF HasPayload(body) THEN "presave" ELSE "count") \in Steps \ {"complete"}
    BY DEF Steps
  <2>4. QED
    BY <1>3, <2>2, <2>3, LoadCompletion DEF SaveAndClose
<1>4. ASSUME NEW b \in live, NEW body \in Bodies, PatchBatch(t, b, body)
      PROVE  CompletionInv'
  <2>1. Apply(row[b], body).status = Merge(row[b].status, body.status)
    BY <1>1, <1>2, AppliedRow
  <2>2. Completable(Apply(row[b], body), b)
    BY <1>1, <1>2, <2>1 DEF Completable, Merge
  <2>3. {"save", "update"} \subseteq Steps \ {"complete"}
    BY DEF Steps
  <2>4. QED
    BY <1>4, <2>2, <2>3, LoadCompletion DEF PatchBatch
<1>5. ASSUME NEW b \in live, DeleteBatch(t, b)
      PROVE  CompletionInv'
  <2>1. \A c \in Ids : row'[c] = row[c] \/ row'[c] = BlankRow
    BY <1>5 DEF DeleteBatch, TypeOK, DatabaseOK
  <2>2. QED
    BY <1>5, <2>1, BlankIsRow, RowsDecide DEF DeleteBatch, history, local
<1>6. ASSUME NEW b \in live, NEW nfc, NEW step \in Steps \ {"complete"},
             Load(t, b, step, row[b], nfc)
      PROVE  CompletionInv'
  BY <1>1, <1>6, LoadCompletion
<1>7. {"pausing", "resuming", "exists", "get"} \subseteq Steps \ {"complete"}
  BY DEF Steps
<1>8. ASSUME NEW b \in live, PauseBatch(t, b) \/ ResumeBatch(t, b)
      PROVE  CompletionInv'
  BY <1>6, <1>7, <1>8 DEF PauseBatch, ResumeBatch
<1>9. ASSUME NEW b \in live, NEW nfc \in Balloons,
             AddBalloon(t, b, nfc) \/ RemoveBalloon(t, b, nfc)
      PROVE  CompletionInv'
  BY <1>6, <1>7, <1>9 DEF AddBalloon, StartAdd, RemoveBalloon
<1>10. QED
  BY <1>3, <1>4, <1>5, <1>8, <1>9, CreateCompletion DEF Request, CloseBatch, RetryClose

LEMMA ReaderEventCompletion ==
    ASSUME TypeOK, CompletionInv, NEW t \in Threads, ReaderEvent(t)
    PROVE  CompletionInv'
<1>1. \A b \in live : row[b] \in Row /\ Completable(row[b], b)
  BY DEF TypeOK, DatabaseOK, Ids, CompletionInv, CompletedMeansTtnClosed, Completable
<1>2. ASSUME NEW r \in Readers, SensorPass(t, r)
      PROVE  CompletionInv'
  <2>1. PICK b \in live :
            Load(t, b, "save", [row[b] EXCEPT !.amount_of_sensor = @ + 1], {})
    BY <1>2 DEF SensorPass
  <2>2. Completable([row[b] EXCEPT !.amount_of_sensor = @ + 1], b)
    BY <1>1 DEF Completable, Row
  <2>3. QED
    BY <2>1, <2>2, LoadCompletion DEF Steps
<1>3. ASSUME NEW r \in Readers, NEW nfc \in Balloons, RfidBalloon(t, r, nfc)
      PROVE  CompletionInv'
  BY <1>1, <1>3, LoadCompletion DEF RfidBalloon, StartAdd, Steps
<1>4. QED
  BY <1>2, <1>3 DEF ReaderEvent

\* Writing the instance of a handler back is as safe as keeping it.
LEMMA FullSaveRows ==
    ASSUME TypeOK, CompletionInv, NEW t \in Threads, pc[t] # "idle", FullSave(t, copy[t])
    PROVE  /\ waybill' = waybill
           /\ \A b \in Ids : row'[b].status = "completed" =>
                 \/ row[b].status = "completed"
                 \/ b \in waybill => b \in ttnClosed
<1>1. Synced(copy[t]).status = copy[t].status
  BY OnBatch, SyncedRow
<1>2. row' = [row EXCEPT ![on[t]] = Synced(copy[t])] /\ waybill' = waybill
  BY DEF FullSave
<1>3. \A b \in Ids : row'[b] = row[b] \/ (b = on[t] /\ row'[b] = Synced(copy[t]))
  BY <1>2 DEF TypeOK, DatabaseOK
<1>4. QED
  BY <1>1, <1>2, <1>3 DEF CompletionInv, ClosersHaveClosed

\* An UPDATE of some columns changes the status of no other batch.
LEMMA UpdateColumnsRows ==
    ASSUME TypeOK, NEW t \in Threads, NEW r, UpdateColumns(t, r)
    PROVE  /\ waybill' = waybill
           /\ \A b \in Ids : row'[b] = row[b] \/ (b = on[t] /\ row'[b] = r)
BY DEF UpdateColumns, TypeOK, DatabaseOK

LEMMA StatementCompletion ==
    ASSUME TypeOK, CompletionInv, NEW t \in Threads, Statement(t)
    PROVE  CompletionInv'
<1> USE DEF history
<1>1. CASE SaveInstance(t)
  BY <1>1, FullSaveRows, RowsDecide, DoneIsIdle DEF SaveInstance
<1>2. CASE CheckNotListed(t)
  BY <1>2, RowsDecide, DoneIsIdle
     DEF CheckNotListed, db, Goto, TypeOK, HandlersOK
<1>3. CASE InsertBalloon(t)
  <2>1. CASE on[t] \in live
    <3>1. [copy[t] EXCEPT !.amount_of_rfid = @ + 1].status = copy[t].status
      BY <1>3, OnBatch DEF InsertBalloon, Row
    <3>2. \A u \in Threads : copy'[u].status = copy[u].status
      BY <1>3, <2>1, <3>1 DEF InsertBalloon, TypeOK, HandlersOK
    <3>3. QED
      BY <1>3, <2>1, <3>2, RowsDecide DEF InsertBalloon, Goto, TypeOK, HandlersOK
  <2>2. CASE on[t] \notin live
    BY <1>3, <2>2, RowsDecide, DoneIsIdle DEF InsertBalloon
  <2>3. QED
    BY <2>1, <2>2
<1>4. CASE GetListed(t)
  BY <1>4, RowsDecide, DoneIsIdle DEF GetListed, db, Goto, TypeOK, HandlersOK
<1>5. CASE EraseBalloon(t)
  <2>1. [copy[t] EXCEPT !.amount_of_rfid = IF @ > 0 THEN @ - 1 ELSE 0].status
            = copy[t].status
    BY <1>5, OnBatch DEF EraseBalloon, Row
  <2>2. \A u \in Threads : copy'[u].status = copy[u].status
    BY <1>5, <2>1 DEF EraseBalloon, TypeOK, HandlersOK
  <2>3. QED
    BY <1>5, <2>2, RowsDecide DEF EraseBalloon, Goto, TypeOK, HandlersOK
<1>6. CASE PauseStatus(t)
  <2> DEFINE r == [row[on[t]] EXCEPT !.status = "paused"]
  <2>1. r.status = "paused"
    BY <1>6, OnBatch, StatusRow DEF PauseStatus, TypeOK, DatabaseOK, BatchStatus
  <2>2. UpdateColumns(t, r) /\ Done(t) /\ ttnClosed' = ttnClosed
    BY <1>6 DEF PauseStatus
  <2> HIDE DEF r
  <2>3. QED
    BY <2>1, <2>2, UpdateColumnsRows, RowsDecide, DoneIsIdle
<1>7. CASE SelectOthers(t)
  BY <1>7, RowsDecide DEF SelectOthers, db, Goto, TypeOK, HandlersOK
<1>8. \A b \in Ids : Paused(t, b).status = "completed" => row[b].status = "completed"
  BY StatusRow DEF Paused, TypeOK, DatabaseOK, BatchStatus
<1>9. CASE PauseOthers(t)
  BY <1>8, <1>9, RowsDecide, DoneIsIdle DEF PauseOthers
<1>10. CASE CommitResume(t)
  <2>1. \A b \in Ids : [row[b] EXCEPT !.status = "active"].status = "active"
    BY StatusRow DEF TypeOK, DatabaseOK, BatchStatus
  <2>2. \A b \in Ids : row'[b].status = "completed" => row[b].status = "completed"
    BY <1>8, <1>10, <2>1 DEF CommitResume
  <2>3. QED
    BY <1>10, <2>2, RowsDecide, DoneIsIdle DEF CommitResume
<1>11. CASE UpdateStatus(t)
  BY <1>11, FullSaveRows, RowsDecide, DoneIsIdle DEF UpdateStatus
<1>12. QED
  BY <1>1, <1>2, <1>3, <1>4, <1>5, <1>6, <1>7, <1>9, <1>10, <1>11 DEF Statement

LEMMA CloseStatementCompletion ==
    ASSUME TypeOK, CompletionInv, NEW t \in Threads, CloseStatement(t)
    PROVE  CompletionInv'
<1> USE DEF history
<1>1. CASE SavePayload(t)
  BY <1>1, FullSaveRows, RowsDecide DEF SavePayload, Goto, TypeOK, HandlersOK
<1>2. CASE RefreshFromDb(t)
  <2>1. on[t] \in Ids /\ Completable(row[on[t]], on[t])
    BY <1>2, OnBatch
       DEF RefreshFromDb, CompletionInv, CompletedMeansTtnClosed, Completable
  <2>2. CASE on[t] \in live
    BY <1>2, <2>1, <2>2
       DEF RefreshFromDb, CompletionInv, CompletedMeansTtnClosed, ClosersHaveClosed,
           Completable, db, Goto, TypeOK, HandlersOK
  <2>3. CASE on[t] \notin live
    BY <1>2, <2>3, RowsDecide, DoneIsIdle DEF RefreshFromDb, db
  <2>4. QED
    BY <2>2, <2>3
<1>3. CASE RejectMismatch(t)
  BY <1>3, RowsDecide, DoneIsIdle DEF RejectMismatch, db
<1>4. CASE SkipSending(t)
  BY <1>4, RowsDecide DEF SkipSending, db, Goto, TypeOK, HandlersOK
<1>5. CASE ReadBalloonList(t)
  BY <1>5, RowsDecide, DoneIsIdle DEF ReadBalloonList, db, Goto, TypeOK, HandlersOK
<1>6. CASE SendStatuses(t)
  BY <1>6, RowsDecide DEF SendStatuses, db, Goto, TypeOK, HandlersOK
<1>7. CASE SetSentFlag(t)
  <2> DEFINE r == [row[on[t]] EXCEPT !.miriada_balloons_sent = TRUE]
  <2>1. on[t] \in Ids /\ row[on[t]] \in Row /\ copy[t] \in Row
    BY <1>7, OnBatch DEF SetSentFlag, TypeOK, DatabaseOK
  <2>2. /\ r.status = row[on[t]].status
        /\ [copy[t] EXCEPT !.miriada_balloons_sent = TRUE].status = copy[t].status
    BY <2>1 DEF Row
  <2>3. UpdateColumns(t, r) /\ ttnClosed' = ttnClosed
    BY <1>7 DEF SetSentFlag
  <2> HIDE DEF r
  <2>4. waybill' = waybill /\ \A b \in Ids : row'[b].status = row[b].status
    BY <2>2, <2>3, UpdateColumnsRows
  <2>5. CASE on[t] \in live
    BY <1>7, <2>2, <2>3, <2>4, <2>5, RowsDecide
       DEF SetSentFlag, Goto, TypeOK, HandlersOK
  <2>6. CASE on[t] \notin live
    BY <1>7, <2>3, <2>4, <2>6, RowsDecide, DoneIsIdle DEF SetSentFlag
  <2>7. QED
    BY <2>5, <2>6
<1>8. CASE CloseTtn(t)
  BY <1>8, KeepsCompletion
     DEF CloseTtn, CompletionInv, ClosersHaveClosed, Completable, db, Goto, TypeOK,
         HandlersOK
<1>9. CASE FinishClose(t)
  <2> DEFINE final == IF pc[t] = "complete" THEN "completed" ELSE "miriada_error"
             r == [row[on[t]] EXCEPT !.status = final]
  <2>1. r \in Row /\ r.status = final
    <3>1. row[on[t]] \in Row /\ final \in BatchStatus
      BY <1>9, OnBatch DEF FinishClose, TypeOK, DatabaseOK, BatchStatus
    <3> HIDE DEF final
    <3>2. QED
      BY <3>1, StatusRow
  <2>2. r.status = "completed" => (on[t] \in waybill => on[t] \in ttnClosed)
    BY <2>1 DEF CompletionInv, ClosersHaveClosed
  <2> HIDE DEF r
  <2>3. Synced(r).status = r.status
    BY <2>1, SyncedRow
  <2>4. UpdateColumns(t, Synced(r))
    BY <1>9 DEF FinishClose, r
  <2>5. QED
    BY <1>9, <2>2, <2>3, <2>4, UpdateColumnsRows, RowsDecide, DoneIsIdle DEF FinishClose
<1>10. QED
  BY <1>1, <1>2, <1>3, <1>4, <1>5, <1>6, <1>7, <1>8, <1>9 DEF CloseStatement

LEMMA CompletionStep ==
    ASSUME NoBlindCompletion, TypeOK, CompletionInv, [Next]_vars
    PROVE  CompletionInv'
<1>1. ASSUME NEW t \in Threads, Abort(t)
      PROVE  CompletionInv'
  BY <1>1, RowsDecide, DoneIsIdle DEF Abort, db, history
<1>2. CASE Midnight
  BY <1>2, RowsDecide DEF Midnight, history, local
<1>3. CASE UNCHANGED vars
  BY <1>3, RowsDecide DEF vars, db, history, local
<1>4. ASSUME NEW nfc \in Balloons, DeleteBalloon(nfc)
      PROVE  CompletionInv'
  BY <1>4, RowsDecide DEF DeleteBalloon, local
<1>5. QED
  BY <1>1, <1>2, <1>3, <1>4, RequestCompletion, ReaderEventCompletion, StatementCompletion,
     CloseStatementCompletion DEF Next

\* Unless a client writes the status "completed" as a plain field, a batch is shown as
\* completed only if Miriada closed its waybill, whatever is interleaved or interrupted.
THEOREM CompletionIsEarned ==
    ASSUME NoBlindCompletion
    PROVE  Spec => []CompletedMeansTtnClosed
<1>1. Init => CompletionInv
  BY BlankIsRow
     DEF Init, CompletionInv, CompletedMeansTtnClosed, ClosersHaveClosed
<1>2. TypeOK /\ CompletionInv /\ [Next]_vars => CompletionInv'
  BY CompletionStep
<1>3. CompletionInv => CompletedMeansTtnClosed
  BY DEF CompletionInv
<1>4. QED
  BY <1>1, <1>2, <1>3, TypeCorrect, PTL DEF Spec
=============================================================================
