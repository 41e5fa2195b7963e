------------------------------ MODULE BalloonsBatch ------------------------------
(***************************************************************************)
(* The life of balloon batches (filling_station.models.BalloonsBatch): the *)
(* rows of the table, the many-to-many list of balloons, and the handlers  *)
(* that work on them at the same time - API requests, the web pages and    *)
(* the RFID notification process.                                          *)
(*                                                                         *)
(* The database commits every statement by itself (no ATOMIC_REQUESTS;     *)
(* pause and resume are the only transactions), and a handler works on the *)
(* model instance it loaded.  So a handler here is a thread that walks     *)
(* through its statements one action at a time with its own copy of the    *)
(* row: Model.save() writes the WHOLE copy back, save(update_fields=...)   *)
(* only the named columns.                                                 *)
(*                                                                         *)
(* Miriada, the external system that is told the status of every balloon   *)
(* and closes the electronic waybill (TTN), is two history variables: what *)
(* it accepted.  Two more tell what happened before: balloons deleted      *)
(* while they were listed, batches whose status a client has changed.      *)
(***************************************************************************)
EXTENDS Integers, FiniteSets

CONSTANTS
    Threads,             \* handlers that can be in progress at the same time
    RfidThread,          \* the one that also handles reader events, one after another
    Readers,             \* (batch_type, reader_number) pairs a batch is created for
    BATCH_STATUS_READERS,\* those whose statuses go to Miriada at close (readers 1-4)
    Balloons,            \* NFC tags
    Bodies,              \* partial request bodies of POST, PATCH and retry-close
    Keep,                \* an absent field of a body
    MayFail,             \* whether a handler may die between two statements
    MaxBatches,          \* bound: primary keys handed out
    MaxCount,            \* bound: no handler increments amount_of_rfid from here on
    MaxOrphans,          \* bound: deleted balloons that a batch still counts
    MaxSensor,           \* bound: the same of amount_of_sensor
    MaxForced            \* bound: batches whose status a PATCH changes as a plain field

BatchStatus == {"active", "paused", "completed", "miriada_error"}

Body == [status: BatchStatus \union {Keep}, is_active: BOOLEAN,
         amount_of_ttn: Nat \union {Keep}, amount_of_rfid: Nat \union {Keep}]

ASSUME ThreadsAssumption == RfidThread \in Threads
ASSUME ReadersAssumption == Readers # {} /\ BATCH_STATUS_READERS \subseteq Readers
ASSUME BodiesAssumption == Bodies \subseteq Body
ASSUME KeepAssumption == Keep \notin BatchStatus \union Nat
ASSUME BoundsAssumption == MaxBatches \in Nat /\ MaxCount \in Nat /\ MaxSensor \in Nat
                           /\ MaxOrphans \in Nat /\ MaxForced \in Nat /\ MayFail \in BOOLEAN

Ids == 1 .. MaxBatches

VARIABLES
    \* The database
    last,       \* the last primary key handed out
    live,       \* keys of the rows in the table
    row,        \* their mutable columns
    reader,     \* their reader (fixed at creation)
    waybill,    \* the batches with a TTN that Miriada has to close
    today,      \* the batches with started_at__date = current_date()
    members,    \* balloon_list
    \* Miriada
    accepted,   \* balloon statuses it has taken, per batch
    ttnClosed,  \* batches whose TTN it has closed
    \* History
    orphans,    \* per batch, how many listed balloons were deleted altogether
    forced,     \* batches whose status a client has changed as a plain field
    \* The handlers
    pc,         \* the statement a thread is about to execute
    on,         \* the batch its instance stands for
    copy,       \* the columns of that instance
    tags,       \* the tag it adds or removes, or the list it reports at close
    victims     \* the batches its UPDATE ... SET status = 'paused' has selected

db == <<last, live, row, reader, waybill, today, members>>
history == <<accepted, ttnClosed, orphans, forced>>
local == <<pc, on, copy, tags, victims>>
vars == <<db, history, local>>

Row == [status: BatchStatus, amount_of_ttn: Nat, amount_of_rfid: Nat,
        amount_of_sensor: Nat, miriada_balloons_sent: BOOLEAN,
        miriada_close_failed: BOOLEAN]

BlankRow == [status |-> "paused", amount_of_ttn |-> 0, amount_of_rfid |-> 0,
             amount_of_sensor |-> 0, miriada_balloons_sent |-> FALSE,
             miriada_close_failed |-> FALSE]

Steps == {"idle", "save", "update", "exists", "insert", "get", "erase", "pausing",
          "created", "created_pause", "resuming", "resuming_pause",
          "presave", "refresh", "count", "send", "flag", "ttn", "complete", "fail"}

DatabaseOK ==
    /\ last \in 0 .. MaxBatches
    /\ live \subseteq 1 .. last
    /\ today \subseteq live
    /\ waybill \subseteq 1 .. last
    /\ row \in [Ids -> Row]
    /\ reader \in [Ids -> Readers]
    /\ members \in [Ids -> SUBSET Balloons]

HistoryOK ==
    /\ accepted \in [Ids -> SUBSET Balloons]
    /\ ttnClosed \subseteq waybill
    /\ orphans \in [Ids -> Nat]
    /\ forced \subseteq 1 .. last

HandlersOK ==
    /\ pc \in [Threads -> Steps]
    /\ on \in [Threads -> 0 .. last]
    /\ copy \in [Threads -> Row]
    /\ tags \in [Threads -> SUBSET Balloons]
    /\ victims \in [Threads -> SUBSET Ids]
    /\ \A t \in Threads : pc[t] = "idle" <=> on[t] = 0

\* The types of the columns, of what Miriada holds and of the handlers' variables; a
\* handler in progress has a batch, one that exists or has existed.
TypeOK == DatabaseOK /\ HistoryOK /\ HandlersOK

----------------------------------------------------------------------------
(* The columns of an instance *)

\* Mutant: a failed close leaves the list open to edits
AcceptsEditsAfterFailure(r) == r.status # "completed"

AcceptsManualEdits(r) == r.status \in {"active", "paused"}

\* Mutant: a field the body leaves out overwrites the column
MergeAbsent(old, new) == new

Merge(old, new) == IF new = Keep THEN old ELSE new

\* Mutant: a partial update falls back on the default of the status field
ApplyDefaultStatus(r, body) ==
    [r EXCEPT !.status = Merge("active", body.status),
              !.amount_of_ttn = Merge(@, body.amount_of_ttn),
              !.amount_of_rfid = Merge(@, body.amount_of_rfid)]

\* setattr of the validated fields of a partial body
Apply(r, body) ==
    [r EXCEPT !.status = Merge(@, body.status),
              !.amount_of_ttn = Merge(@, body.amount_of_ttn),
              !.amount_of_rfid = Merge(@, body.amount_of_rfid)]

\* The fields of BATCH_CLOSE_WRITABLE_FIELDS: all but the status
ClosePayload(body) == [body EXCEPT !.status = Keep]
HasPayload(body) == body.amount_of_ttn # Keep \/ body.amount_of_rfid # Keep

CloseRequest(body) == body.status = "completed" \/ ~body.is_active

\* BalloonsBatch.save(): the failure flag follows the final statuses
Synced(r) ==
    [r EXCEPT !.miriada_close_failed =
        r.status = "miriada_error" \/ (@ /\ r.status # "completed")]

CountMismatch(r) == r.amount_of_ttn # 0 /\ r.amount_of_rfid # r.amount_of_ttn

----------------------------------------------------------------------------
(* Moves of a thread *)

Goto(t, step) == pc' = [pc EXCEPT ![t] = step]

Done(t) ==
    /\ Goto(t, "idle")
    /\ on' = [on EXCEPT ![t] = 0]
    /\ copy' = [copy EXCEPT ![t] = BlankRow]
    /\ tags' = [tags EXCEPT ![t] = {}]
    /\ victims' = [victims EXCEPT ![t] = {}]

\* SELECT the batch into instance r and go on at the given step
Load(t, b, step, r, nfc) ==
    /\ pc[t] = "idle"
    /\ b \in live
    /\ Goto(t, step)
    /\ on' = [on EXCEPT ![t] = b]
    /\ copy' = [copy EXCEPT ![t] = r]
    /\ tags' = [tags EXCEPT ![t] = nfc]
    /\ UNCHANGED <<victims, db, history>>

\* UPDATE of every column; Django INSERTs the row again when it is gone
FullSave(t, r) ==
    /\ row' = [row EXCEPT ![on[t]] = Synced(r)]
    /\ live' = live \union {on[t]}
    /\ today' = IF on[t] \in live THEN today ELSE today \union {on[t]}
    /\ UNCHANGED <<last, reader, waybill, members>>

\* save(update_fields=...): the named columns only; without a row to update it
\* raises DatabaseError and the request ends
UpdateColumns(t, r) ==
    /\ row' = IF on[t] \in live THEN [row EXCEPT ![on[t]] = r] ELSE row
    /\ UNCHANGED <<last, live, reader, waybill, today, members>>

----------------------------------------------------------------------------
(* Requests and events: the first statement of each handler *)

CreateBatch(t, r, ttn, body) ==
    LET b == last + 1
        new == Synced(Apply([BlankRow EXCEPT !.status = "active"], body))
    IN  /\ pc[t] = "idle"
        /\ last < MaxBatches
        /\ body.amount_of_ttn # Keep
        /\ last' = b
        /\ live' = live \union {b}
        /\ today' = today \union {b}
        /\ row' = [row EXCEPT ![b] = new]
        /\ reader' = [reader EXCEPT ![b] = r]
        /\ waybill' = IF ttn THEN waybill \union {b} ELSE waybill
        /\ IF new.status = "active"
           THEN /\ Goto(t, "created")
                /\ on' = [on EXCEPT ![t] = b]
                /\ copy' = [copy EXCEPT ![t] = new]
                /\ UNCHANGED <<tags, victims>>
           ELSE UNCHANGED local
        /\ UNCHANGED <<members, history>>

IsClosing(b, body) == AcceptsManualEdits(row[b]) /\ CloseRequest(body)

\* A status in the body is written like any other field, whatever the status of the row
\* is.  Bounded by MaxForced.
PatchBatch(t, b, body) ==
    /\ ~IsClosing(b, body)
    /\ body.status # Keep => Cardinality(forced \union {b}) <= MaxForced
    /\ Load(t, b, IF body.status = Keep THEN "save" ELSE "update", Apply(row[b], body), {})

SaveAndClose(t, b, body) ==
    Load(t, b, IF HasPayload(body) THEN "presave" ELSE "count",
         Apply(row[b], ClosePayload(body)), {})

CloseBatch(t, b, body) ==
    /\ IsClosing(b, body)
    /\ SaveAndClose(t, b, body)

\* Mutant: without the check of the status
RetryCloseAny(t, b, body) == SaveAndClose(t, b, body)

RetryClose(t, b, body) ==
    /\ row[b].status \in {"active", "paused", "miriada_error"}
    /\ SaveAndClose(t, b, body)

PauseBatch(t, b) ==
    /\ row[b].status = "active"
    /\ Load(t, b, "pausing", row[b], {})

ResumeBatch(t, b) ==
    /\ row[b].status = "paused"
    /\ Load(t, b, "resuming", row[b], {})

\* The API and the RFID handler share add_balloon
StartAdd(t, b, nfc) ==
    /\ AcceptsManualEdits(row[b])
    /\ row[b].amount_of_rfid < MaxCount
    /\ Load(t, b, "exists", row[b], {nfc})

AddBalloon(t, b, nfc) == StartAdd(t, b, nfc)

RemoveBalloon(t, b, nfc) ==
    /\ AcceptsManualEdits(row[b])
    /\ Load(t, b, "get", row[b], {nfc})

ActiveToday(r) == {b \in live \intersect today : reader[b] = r /\ row[b].status = "active"}

\* get_active_batch_for_reader: the newest of them
IsActiveBatchForReader(b, r) ==
    /\ b \in ActiveToday(r)
    /\ \A c \in ActiveToday(r) : c <= b

RfidBalloon(t, r, nfc) ==
    \E b \in live : IsActiveBatchForReader(b, r) /\ StartAdd(t, b, nfc)

\* The light barrier: add_balloon() without a tag
SensorPass(t, r) ==
    \E b \in live :
        /\ IsActiveBatchForReader(b, r)
        /\ row[b].amount_of_sensor < MaxSensor
        /\ Load(t, b, "save", [row[b] EXCEPT !.amount_of_sensor = @ + 1], {})

\* The delete page: the row and, by cascade, its list
DeleteBatch(t, b) ==
    /\ pc[t] = "idle"
    /\ b \in live
    /\ live' = live \ {b}
    /\ today' = today \ {b}
    /\ row' = [row EXCEPT ![b] = BlankRow]
    /\ members' = [members EXCEPT ![b] = {}]
    /\ orphans' = [orphans EXCEPT ![b] = 0]
    /\ UNCHANGED <<last, reader, waybill, accepted, ttnClosed, forced, local>>

\* The delete page of a balloon, or a change of its tag by the API: the row and, by
\* cascade, its place in every list.  No batch is told.  Bounded by MaxOrphans; not while
\* a handler is between looking the tag up in a list and writing it.
DeleteBalloon(nfc) ==
    LET listing == {b \in live : nfc \in members[b]}
    IN  /\ listing # {}
        /\ \A b \in listing : orphans[b] < MaxOrphans
        /\ \A t \in Threads :
            nfc \in tags[t] => pc[t] \notin {"exists", "insert", "get", "erase"}
        /\ members' = [b \in Ids |-> members[b] \ {nfc}]
        /\ orphans' = [b \in Ids |-> IF b \in listing THEN orphans[b] + 1 ELSE orphans[b]]
        /\ UNCHANGED <<last, live, row, reader, waybill, today, accepted, ttnClosed, forced, local>>

Midnight ==
    /\ today # {}
    /\ today' = {}
    /\ UNCHANGED <<last, live, row, reader, waybill, members, history, local>>

----------------------------------------------------------------------------
(* Statements of add_balloon, remove_balloon and the plain save *)

SaveInstance(t) ==
    /\ pc[t] = "save"
    /\ FullSave(t, copy[t])
    /\ Done(t)
    /\ UNCHANGED history

\* serializer.save() of a PATCH that names a status
UpdateStatus(t) ==
    /\ pc[t] = "update"
    /\ FullSave(t, copy[t])
    /\ forced' = IF copy[t].status = row[on[t]].status THEN forced ELSE forced \union {on[t]}
    /\ Done(t)
    /\ UNCHANGED <<accepted, ttnClosed, orphans>>

\* Mutant: the tag is not looked up in the list
CheckNothing(t) ==
    /\ pc[t] = "exists"
    /\ Goto(t, "insert")
    /\ UNCHANGED <<on, copy, tags, victims, db, history>>

CheckNotListed(t) ==
    /\ pc[t] = "exists"
    /\ IF tags[t] \subseteq members[on[t]]
       THEN Done(t)
       ELSE Goto(t, "insert") /\ UNCHANGED <<on, copy, tags, victims>>
    /\ UNCHANGED <<db, history>>

\* balloon_list.add; a deleted batch violates the foreign key, which is caught
InsertBalloon(t) ==
    /\ pc[t] = "insert"
    /\ IF on[t] \in live
       THEN /\ members' = [members EXCEPT ![on[t]] = @ \union tags[t]]
            /\ copy' = [copy EXCEPT ![t].amount_of_rfid = @ + 1]
            /\ Goto(t, "save")
            /\ UNCHANGED <<on, tags, victims>>
       ELSE Done(t) /\ UNCHANGED members
    /\ UNCHANGED <<last, live, row, reader, waybill, today, history>>

GetListed(t) ==
    /\ pc[t] = "get"
    /\ IF tags[t] \subseteq members[on[t]]
       THEN Goto(t, "erase") /\ UNCHANGED <<on, copy, tags, victims>>
       ELSE Done(t)
    /\ UNCHANGED <<db, history>>

\* Mutant: without max(..., 0)
EraseUnchecked(t) ==
    /\ pc[t] = "erase"
    /\ members' = [members EXCEPT ![on[t]] = @ \ tags[t]]
    /\ copy' = [copy EXCEPT ![t].amount_of_rfid = @ - 1]
    /\ Goto(t, "save")
    /\ UNCHANGED <<last, live, row, reader, waybill, today, history, on, tags, victims>>

EraseBalloon(t) ==
    /\ pc[t] = "erase"
    /\ members' = [members EXCEPT ![on[t]] = @ \ tags[t]]
    /\ copy' = [copy EXCEPT ![t].amount_of_rfid = IF @ > 0 THEN @ - 1 ELSE 0]
    /\ Goto(t, "save")
    /\ UNCHANGED <<last, live, row, reader, waybill, today, history, on, tags, victims>>

----------------------------------------------------------------------------
(* Statements of pause, resume and the creation of an active batch *)

PauseStatus(t) ==
    /\ pc[t] = "pausing"
    /\ UpdateColumns(t, [row[on[t]] EXCEPT !.status = "paused"])
    /\ Done(t)
    /\ UNCHANGED history

\* pause_other_active_batches_on_reader: one UPDATE ... WHERE.  At READ COMMITTED
\* its rows are chosen by the snapshot the statement starts with ...
SelectOthers(t) ==
    /\ \/ pc[t] = "created" /\ Goto(t, "created_pause")
       \/ pc[t] = "resuming" /\ Goto(t, "resuming_pause")
    /\ victims' = [victims EXCEPT ![t] = ActiveToday(reader[on[t]]) \ {on[t]}]
    /\ UNCHANGED <<on, copy, tags, db, history>>

\* ... and the WHERE is evaluated again on each of them once it is locked
StillActive(t) == {v \in victims[t] \intersect live : row[v].status = "active"}

Paused(t, b) == IF b \in StillActive(t) THEN [row[b] EXCEPT !.status = "paused"] ELSE row[b]

PauseOthers(t) ==
    /\ pc[t] = "created_pause"
    /\ row' = [b \in Ids |-> Paused(t, b)]
    /\ Done(t)
    /\ UNCHANGED <<last, live, reader, waybill, today, members, history>>

\* Mutant: the other active batches are left alone
ResumeAlone(t) ==
    /\ pc[t] = "resuming_pause"
    /\ UpdateColumns(t, [row[on[t]] EXCEPT !.status = "active"])
    /\ Done(t)
    /\ UNCHANGED history

\* The commit of resume_balloons_batch; it rolls back when the batch is gone
CommitResume(t) ==
    /\ pc[t] = "resuming_pause"
    /\ row' = IF on[t] \in live
              THEN [b \in Ids |-> IF b = on[t] THEN [row[b] EXCEPT !.status = "active"]
                                               ELSE Paused(t, b)]
              ELSE row
    /\ Done(t)
    /\ UNCHANGED <<last, live, reader, waybill, today, members, history>>

----------------------------------------------------------------------------
(* save_and_close_balloons_batch *)

SavePayload(t) ==
    /\ pc[t] = "presave"
    /\ FullSave(t, copy[t])
    /\ Goto(t, "refresh")
    /\ UNCHANGED <<on, copy, tags, victims, history>>

RefreshFromDb(t) ==
    /\ pc[t] = "refresh"
    /\ IF on[t] \in live
       THEN /\ copy' = [copy EXCEPT ![t] = row[on[t]]]
            /\ Goto(t, "count")
            /\ UNCHANGED <<on, tags, victims>>
       ELSE Done(t)
    /\ UNCHANGED <<db, history>>

RejectMismatch(t) ==
    /\ pc[t] = "count"
    /\ CountMismatch(copy[t])
    /\ Done(t)
    /\ UNCHANGED <<db, history>>

NothingToSend(t) ==
    copy[t].miriada_balloons_sent \/ reader[on[t]] \notin BATCH_STATUS_READERS

SkipSending(t) ==
    /\ pc[t] = "count"
    /\ ~CountMismatch(copy[t])
    /\ NothingToSend(t)
    /\ Goto(t, "ttn")
    /\ UNCHANGED <<on, copy, tags, victims, db, history>>

ReadBalloonList(t) ==
    /\ pc[t] = "count"
    /\ ~CountMismatch(copy[t])
    /\ ~NothingToSend(t)
    /\ IF on[t] \in live
       THEN /\ tags' = [tags EXCEPT ![t] = members[on[t]]]
            /\ Goto(t, IF members[on[t]] = {} THEN "flag" ELSE "send")
            /\ UNCHANGED <<on, copy, victims>>
       ELSE Done(t)
    /\ UNCHANGED <<db, history>>

\* The thread pool: Miriada takes some of the statuses; when it takes them all the
\* answer may still be lost
SendStatuses(t) ==
    /\ pc[t] = "send"
    /\ \E taken \in SUBSET tags[t] :
        /\ accepted' = [accepted EXCEPT ![on[t]] = @ \union taken]
        /\ Goto(t, "fail") \/ (taken = tags[t] /\ Goto(t, "flag"))
    /\ UNCHANGED <<on, copy, tags, victims, db, ttnClosed, orphans, forced>>

SetSentFlag(t) ==
    /\ pc[t] = "flag"
    /\ UpdateColumns(t, [row[on[t]] EXCEPT !.miriada_balloons_sent = TRUE])
    /\ IF on[t] \in live
       THEN /\ copy' = [copy EXCEPT ![t].miriada_balloons_sent = TRUE]
            /\ Goto(t, "ttn")
            /\ UNCHANGED <<on, tags, victims>>
       ELSE Done(t)
    /\ UNCHANGED history

\* Mutant: the answer of Miriada is ignored
CloseTtnUnchecked(t) ==
    /\ pc[t] = "ttn"
    /\ ttnClosed' \in {ttnClosed, ttnClosed \union ({on[t]} \intersect waybill)}
    /\ Goto(t, "complete")
    /\ UNCHANGED <<on, copy, tags, victims, db, accepted, orphans, forced>>

\* close_ttn_in_miriada: closed, refused, or closed with the answer lost
CloseTtn(t) ==
    /\ pc[t] = "ttn"
    /\ \/ on[t] \notin waybill /\ Goto(t, "complete") /\ UNCHANGED ttnClosed
       \/ on[t] \in waybill /\ Goto(t, "fail") /\ UNCHANGED ttnClosed
       \/ /\ on[t] \in waybill
          /\ ttnClosed' = ttnClosed \union {on[t]}
          /\ Goto(t, "complete") \/ Goto(t, "fail")
    /\ UNCHANGED <<on, copy, tags, victims, db, accepted, orphans, forced>>

\* Mutant: miriada_close_failed missing from update_fields
FinishWithoutFlag(t) ==
    /\ pc[t] \in {"complete", "fail"}
    /\ LET final == IF pc[t] = "complete" THEN "completed" ELSE "miriada_error"
       IN  UpdateColumns(t, [row[on[t]] EXCEPT !.status = final])
    /\ Done(t)
    /\ UNCHANGED history

\* The last write of attempt_close_balloons_batch and of _mark_batch_close_failed
FinishClose(t) ==
    /\ pc[t] \in {"complete", "fail"}
    /\ LET final == IF pc[t] = "complete" THEN "completed" ELSE "miriada_error"
       IN  UpdateColumns(t, Synced([row[on[t]] EXCEPT !.status = final]))
    /\ Done(t)
    /\ UNCHANGED history

\* The process dies, the connection to the database breaks or an exception escapes
Abort(t) ==
    /\ MayFail
    /\ pc[t] # "idle"
    /\ Done(t)
    /\ UNCHANGED <<db, history>>

----------------------------------------------------------------------------

Init ==
    /\ last = 0
    /\ live = {}
    /\ row = [b \in Ids |-> BlankRow]
    /\ reader = [b \in Ids |-> CHOOSE r \in Readers : TRUE]
    /\ waybill = {}
    /\ today = {}
    /\ members = [b \in Ids |-> {}]
    /\ accepted = [b \in Ids |-> {}]
    /\ ttnClosed = {}
    /\ orphans = [b \in Ids |-> 0]
    /\ forced = {}
    /\ pc = [t \in Threads |-> "idle"]
    /\ on = [t \in Threads |-> 0]
    /\ copy = [t \in Threads |-> BlankRow]
    /\ tags = [t \in Threads |-> {}]
    /\ victims = [t \in Threads |-> {}]

Request(t) ==
    /\ pc[t] = "idle"
    /\ \/ \E r \in Readers, ttn \in BOOLEAN, body \in Bodies : CreateBatch(t, r, ttn, body)
       \/ \E b \in live, body \in Bodies :
            PatchBatch(t, b, body) \/ CloseBatch(t, b, body) \/ RetryClose(t, b, body)
       \/ \E b \in live : PauseBatch(t, b) \/ ResumeBatch(t, b) \/ DeleteBatch(t, b)
       \/ \E b \in live, nfc \in Balloons : AddBalloon(t, b, nfc) \/ RemoveBalloon(t, b, nfc)

ReaderEvent(t) ==
    /\ pc[t] = "idle"
    /\ \E r \in Readers : SensorPass(t, r) \/ \E nfc \in Balloons : RfidBalloon(t, r, nfc)

Statement(t) ==
    \/ SaveInstance(t) \/ UpdateStatus(t) \/ CheckNotListed(t) \/ InsertBalloon(t) \/ GetListed(t)
    \/ EraseBalloon(t) \/ PauseStatus(t) \/ SelectOthers(t) \/ PauseOthers(t)
    \/ CommitResume(t)

CloseStatement(t) ==
    \/ SavePayload(t) \/ RefreshFromDb(t) \/ RejectMismatch(t) \/ SkipSending(t)
    \/ ReadBalloonList(t) \/ SendStatuses(t) \/ SetSentFlag(t) \/ CloseTtn(t)
    \/ FinishClose(t)

Next ==
    \/ \E t \in Threads :
        Request(t) \/ Statement(t) \/ CloseStatement(t) \/ Abort(t)
    \/ ReaderEvent(RfidThread)
    \/ \E nfc \in Balloons : DeleteBalloon(nfc)
    \/ Midnight

Spec == Init /\ [][Next]_vars

----------------------------------------------------------------------------
(* Properties *)

AllIdle == \A t \in Threads : pc[t] = "idle"

\* miriada_close_failed always agrees with the two final statuses, whichever of the
\* partial saves (update_fields, queryset.update, whole stale rows) came last.
FlagFollowsStatus(r) ==
    /\ r.status = "miriada_error" => r.miriada_close_failed
    /\ r.status = "completed" => ~r.miriada_close_failed

StatusFlagAgree == \A b \in Ids : FlagFollowsStatus(row[b])

\* A batch is shown as completed only if Miriada has closed its waybill: however the
\* requests interleave, whatever stale row is written back and wherever they die.
CompletedMeansTtnClosed ==
    \A b \in Ids \intersect waybill : row[b].status = "completed" => b \in ttnClosed

\* What makes it inductive: an instance that says "completed", or a handler about to write
\* it, belongs to a batch whose waybill is closed already.
ClosersHaveClosed ==
    \A t \in Threads :
        (on[t] \in waybill /\ (copy[t].status = "completed" \/ pc[t] = "complete"))
            => on[t] \in ttnClosed

\* No client writes "completed" as a plain field (the close request by is_active does not)
NoBlindCompletion == \A body \in Bodies : body.status # "completed"

\* However many handlers overlap and whatever count a client has set: an increment or
\* decrement in memory, saved later, never makes the counter negative (remove_balloon).
CounterNotNegative == \A b \in Ids : row[b].amount_of_rfid >= 0

\* Of today's batches of a reader at most one is active once the requests have ended, so
\* that a tag has one batch to go to (serializers.py create, batches.py resume) - beside
\* those whose status a client has changed by a PATCH, which pauses no other.
OneActivePerReader ==
    AllIdle => \A r \in Readers : Cardinality(ActiveToday(r) \ forced) <= 1

\* amount_of_rfid, which decides whether a batch may be closed, is the size of the list
\* it counts, although the two are written by different statements - except for balloons
\* deleted while listed: these stay counted for good.
CounterMatchesList ==
    AllIdle => \A b \in live : row[b].amount_of_rfid = Cardinality(members[b]) + orphans[b]

\* When Miriada closes a waybill it has been told the status of every balloon of the
\* batch (attempt_close_balloons_batch: first the statuses, then the TTN).  A PATCH that
\* names a status may reopen a batch whose statuses count as sent: such a batch is left out.
AllStatusesBeforeTtn ==
    [][\A b \in ttnClosed' \ (ttnClosed \union forced) :
        reader[b] \in BATCH_STATUS_READERS => members[b] \subseteq accepted[b]]_vars

\* The PATCH of a thread writes the status its body names.
WritesStatus(t, b, status) == pc[t] = "update" /\ on[t] = b /\ copy[t].status = status

\* The states a batch moves between when nobody names one: a completed batch stays
\* completed, and one that failed to close can only be closed again.
Transitions ==
    {<<"active", "paused">>, <<"paused", "active">>,
     <<"active", "completed">>, <<"paused", "completed">>,
     <<"active", "miriada_error">>, <<"paused", "miriada_error">>,
     <<"miriada_error", "completed">>}

\* Any other change is the work of a PATCH that names that very status: no edit, tag, pause,
\* failed close or retry leaves the transitions (balloon_batches.py 472-500).
LegalTransitions ==
    [][\A b \in live \intersect live' :
        \/ row'[b].status = row[b].status
        \/ <<row[b].status, row'[b].status>> \in Transitions
        \/ \E t \in Threads : WritesStatus(t, b, row'[b].status)]_vars

\* A paused batch takes part in scanning again only when somebody asks for it, by a resume
\* request or by a PATCH that names the status: no other edit of the batch, and no tag.
ReactivatedOnRequest ==
    [][\A b \in live \intersect live' :
        (row[b].status = "paused" /\ row'[b].status = "active") =>
            \E t \in Threads :
                \/ on[t] = b /\ pc[t] = "resuming_pause"
                \/ WritesStatus(t, b, "active")]_vars
=============================================================================
