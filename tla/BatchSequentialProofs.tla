-------------------------- MODULE BatchSequentialProofs --------------------------
(***************************************************************************)
(* What the batches promise while handlers do not overlap: the transitions *)
(* of the status, one active batch to a reader, the counter of the list    *)
(* and the statuses told before the waybill is closed.  Theorems for any   *)
(* number of readers, balloons and batches; the runs of BalloonsBatch with *)
(* two handlers show what becomes of these promises when handlers overlap. *)
(***************************************************************************)
EXTENDS BalloonsBatchProofs, FiniteSetTheorems

USE ThreadsAssumption, BodiesAssumption, KeepAssumption, BoundsAssumption, ReadersAssumption

\* A request or event begins when the one before it has ended.
OneAtATime == Threads = {RfidThread}

\* Clients do not send a count of tags of their own.
PlainCounts == \A body \in Bodies : body.amount_of_rfid = Keep

----------------------------------------------------------------------------
(* The handler in progress, and the invariant *)

At == pc[RfidThread]
Held == on[RfidThread]
Mine == copy[RfidThread]
Tags == tags[RfidThread]
Chosen == victims[RfidThread]

Editing == {"exists", "insert", "get", "erase"}
Closing == {"presave", "refresh", "count", "send", "flag", "ttn", "complete", "fail"}

\* The batch of the handler exists, its instance is not stale, and the status is the one
\* the handler was started for - unless the client has named another in the body.
Holding ==
    At # "idle" =>
        /\ Held \in live
        /\ At # "update" => Mine.status = row[Held].status
        /\ Mine.miriada_balloons_sent = row[Held].miriada_balloons_sent
        /\ At \in Editing => row[Held].status \in {"active", "paused"}
        /\ At \in {"pausing", "created", "created_pause"} => row[Held].status = "active"
        /\ At \in {"resuming", "resuming_pause"} => row[Held].status = "paused"
        /\ At \in Closing => row[Held].status # "completed"

SequentialInv == TypeOK /\ Holding

\* The balloons a batch counts
Total(b) == Cardinality(members[b]) + orphans[b]

\* The instance counts the list as it is; the row does too, but for the batch whose changed
\* instance is about to be saved.
Counted ==
    /\ \A b \in Ids : IsFiniteSet(members[b])
    /\ \A b \in Ids \ live : members[b] = {} /\ orphans[b] = 0
    /\ \A b \in live : row[b].amount_of_rfid = Total(b) \/ (b = Held /\ At = "save")
    /\ At # "idle" => Mine.amount_of_rfid = Total(Held)
    /\ At \in Editing => \E n \in Balloons : Tags = {n}
    /\ At = "insert" => Tags \intersect members[Held] = {}
    /\ At = "erase" => Tags \subseteq members[Held]

\* Two batches of a reader whose status no client has changed are active only while the
\* handler that created one of them has not paused the other, which it has chosen by then.
Single ==
    /\ \A r \in Readers : \A a, b \in ActiveToday(r) \ forced :
          a = b \/ (At \in {"created", "created_pause"} /\ Held \in {a, b})
    /\ At \in {"created_pause", "resuming_pause"} =>
          ActiveToday(reader[Held]) \ {Held} \subseteq Chosen

Told(b) == members[b] \subseteq accepted[b]

\* The flag that the statuses were sent is true of the list as it is: a batch that has the
\* flag can no longer be edited, unless a client has changed its status.
Reported ==
    /\ \A b \in live \ forced : row[b].miriada_balloons_sent =>
          /\ Told(b)
          /\ \/ row[b].status \in {"miriada_error", "completed"}
             \/ b = Held /\ At \in {"ttn", "complete", "fail"}
    /\ At = "send" => members[Held] \subseteq Tags
    /\ At = "flag" => Told(Held)
    /\ At = "ttn" /\ reader[Held] \in BATCH_STATUS_READERS /\ Held \notin forced => Told(Held)

----------------------------------------------------------------------------
(* The moves of the only handler *)

Quiet == UNCHANGED <<live, row, reader, today, members, accepted, ttnClosed, orphans, forced>>

\* An instance of batch b that differs from the row in what clients may set only
Alike(r, b) ==
    /\ r.miriada_balloons_sent = row[b].miriada_balloons_sent
    /\ PlainCounts => r.amount_of_rfid = row[b].amount_of_rfid

Begins(b) ==
    /\ At = "idle" /\ b \in live /\ Quiet
    /\ Held' = b /\ Alike(Mine', b)
    /\ At' # "update" => Mine'.status = row[b].status
    /\ \/ At' \in {"save", "update"}
       \/ At' \in {"presave", "count"} /\ row[b].status # "completed"
       \/ At' = "pausing" /\ row[b].status = "active"
       \/ At' = "resuming" /\ row[b].status = "paused"
       \/ /\ At' \in {"exists", "get"} /\ row[b].status \in {"active", "paused"}
          /\ \E n \in Balloons : Tags' = {n}

Creates(b) ==
    /\ At = "idle"
    /\ \/ At' = "created" /\ Held' = b /\ Mine' = row'[b] /\ row'[b].status = "active"
       \/ At' = "idle" /\ row'[b].status # "active"
    /\ b \in Ids \ live /\ live' = live \union {b} /\ today' = today \union {b}
    /\ ~row'[b].miriada_balloons_sent
    /\ PlainCounts => row'[b].amount_of_rfid = 0
    /\ \A c \in Ids \ {b} : row'[c] = row[c] /\ reader'[c] = reader[c]
    /\ UNCHANGED <<members, accepted, ttnClosed, orphans, forced>>

Deletes(b) ==
    /\ At = "idle" /\ At' = "idle"
    /\ b \in live /\ live' = live \ {b} /\ today' = today \ {b}
    /\ members'[b] = {} /\ orphans'[b] = 0
    /\ \A c \in Ids \ {b} : row'[c] = row[c] /\ members'[c] = members[c] /\ orphans'[c] = orphans[c]
    /\ UNCHANGED <<reader, accepted, ttnClosed, forced>>

\* A balloon is deleted, or the date changes, beside the handler.
Loses(n) ==
    /\ At \in Editing => n \notin Tags
    /\ \A b \in Ids :
          /\ members'[b] = members[b] \ {n}
          /\ orphans'[b] = IF b \in live /\ n \in members[b] THEN orphans[b] + 1 ELSE orphans[b]
    /\ UNCHANGED <<live, row, reader, today, accepted, ttnClosed, forced, local>>

DayEnds ==
    /\ today' = {}
    /\ UNCHANGED <<live, row, reader, members, accepted, ttnClosed, orphans, forced, local>>

Stops ==
    /\ At \in {"exists", "get", "count"} \/ MayFail
    /\ At' = "idle" /\ Quiet

GoesOn ==
    /\ At # "idle" /\ Held' = Held /\ Quiet
    /\ \/ /\ Mine' = Mine
          /\ \/ At = "exists" /\ At' = "insert" /\ Tags' = Tags /\ ~(Tags \subseteq members[Held])
             \/ At = "get" /\ At' = "erase" /\ Tags' = Tags /\ Tags \subseteq members[Held]
             \/ /\ \/ At = "created" /\ At' = "created_pause"
                   \/ At = "resuming" /\ At' = "resuming_pause"
                /\ Chosen' = ActiveToday(reader[Held]) \ {Held}
             \/ /\ At = "count" /\ At' = "ttn"
                /\ Mine.miriada_balloons_sent \/ reader[Held] \notin BATCH_STATUS_READERS
             \/ At = "count" /\ At' = "send" /\ Tags' = members[Held]
             \/ At = "count" /\ At' = "flag" /\ members[Held] = {}
       \/ Mine' = row[Held] /\ At = "refresh" /\ At' = "count"

Sends ==
    /\ At = "send" /\ Held' = Held /\ Mine' = Mine
    /\ accepted[Held] \subseteq accepted'[Held]
    /\ \A b \in Ids \ {Held} : accepted'[b] = accepted[b]
    /\ At' = "fail" \/ (At' = "flag" /\ Tags \subseteq accepted'[Held])
    /\ UNCHANGED <<live, row, reader, today, members, ttnClosed, orphans, forced>>

ClosesTtn ==
    /\ At = "ttn" /\ At' \in {"complete", "fail"} /\ Held' = Held /\ Mine' = Mine
    /\ ttnClosed' \subseteq ttnClosed \union {Held}
    /\ UNCHANGED <<live, row, reader, today, members, accepted, orphans, forced>>

\* The list is changed, and with it the count of the instance.
Lists ==
    /\ At \in {"insert", "erase"} /\ At' = "save" /\ Held' = Held
    /\ Mine'.status = Mine.status /\ Mine'.miriada_balloons_sent = Mine.miriada_balloons_sent
    /\ \A b \in Ids \ {Held} : members'[b] = members[b]
    /\ \/ /\ At = "insert" /\ members'[Held] = members[Held] \union Tags
          /\ Mine'.amount_of_rfid = Mine.amount_of_rfid + 1
       \/ /\ At = "erase" /\ members'[Held] = members[Held] \ Tags
          /\ Mine'.amount_of_rfid = IF Mine.amount_of_rfid > 0 THEN Mine.amount_of_rfid - 1 ELSE 0
    /\ UNCHANGED <<live, row, reader, today, accepted, ttnClosed, orphans, forced>>

\* The row of the batch is written.
Writes ==
    /\ \A b \in Ids \ {Held} : row'[b] = row[b]
    /\ \/ /\ \/ At = "save" /\ At' = "idle"
             \/ At = "presave" /\ At' = "refresh" /\ Held' = Held /\ Mine' = Mine
          /\ row'[Held].status = Mine.status
          /\ row'[Held].miriada_balloons_sent = Mine.miriada_balloons_sent
          /\ row'[Held].amount_of_rfid = Mine.amount_of_rfid
       \/ /\ At = "pausing" /\ At' = "idle" /\ row'[Held].status = "paused"
          /\ row'[Held].miriada_balloons_sent = row[Held].miriada_balloons_sent
          /\ row'[Held].amount_of_rfid = row[Held].amount_of_rfid
       \/ /\ At = "flag" /\ At' = "ttn" /\ Held' = Held
          /\ row'[Held].status = row[Held].status /\ row'[Held].miriada_balloons_sent
          /\ row'[Held].amount_of_rfid = row[Held].amount_of_rfid
          /\ Mine'.status = Mine.status /\ Mine'.miriada_balloons_sent
          /\ Mine'.amount_of_rfid = Mine.amount_of_rfid
       \/ /\ At \in {"complete", "fail"} /\ At' = "idle"
          /\ row'[Held].status \in {"completed", "miriada_error"}
          /\ row'[Held].miriada_balloons_sent = row[Held].miriada_balloons_sent
          /\ row'[Held].amount_of_rfid = row[Held].amount_of_rfid
    /\ UNCHANGED <<live, reader, today, members, accepted, ttnClosed, orphans, forced>>

\* A PATCH that names a status writes the instance.
Updates ==
    /\ At = "update" /\ At' = "idle"
    /\ \A b \in Ids \ {Held} : row'[b] = row[b]
    /\ row'[Held].status = Mine.status
    /\ row'[Held].miriada_balloons_sent = Mine.miriada_balloons_sent
    /\ row'[Held].amount_of_rfid = Mine.amount_of_rfid
    /\ forced \subseteq forced'
    /\ row'[Held].status = row[Held].status \/ Held \in forced'
    /\ UNCHANGED <<live, reader, today, members, accepted, ttnClosed, orphans>>

\* The batches chosen are paused, and the batch itself is resumed.
PausesChosen ==
    /\ At \in {"created_pause", "resuming_pause"} /\ At' = "idle"
    /\ \A b \in Ids :
          /\ row'[b].miriada_balloons_sent = row[b].miriada_balloons_sent
          /\ row'[b].amount_of_rfid = row[b].amount_of_rfid
          /\ \/ /\ row'[b].status = row[b].status
                /\ b \in Chosen \intersect live => row[b].status # "active"
             \/ row'[b].status = "paused" /\ row[b].status = "active"
             \/ row'[b].status = "active" /\ b = Held /\ At = "resuming_pause"
    /\ UNCHANGED <<live, reader, today, members, accepted, ttnClosed, orphans, forced>>

----------------------------------------------------------------------------
(* Every step is one of the moves *)

\* The columns of a row that the invariant speaks about
LEMMA Columns ==
    ASSUME NEW r \in Row
    PROVE  /\ r.status \in BatchStatus /\ r.miriada_balloons_sent \in BOOLEAN
           /\ r.amount_of_rfid \in Nat
           /\ \A s \in BatchStatus :
                 /\ [r EXCEPT !.status = s] \in Row
                 /\ [r EXCEPT !.status = s].status = s
                 /\ [r EXCEPT !.status = s].miriada_balloons_sent = r.miriada_balloons_sent
                 /\ [r EXCEPT !.status = s].amount_of_rfid = r.amount_of_rfid
           /\ [r EXCEPT !.miriada_balloons_sent = TRUE].status = r.status
           /\ [r EXCEPT !.miriada_balloons_sent = TRUE].miriada_balloons_sent
           /\ [r EXCEPT !.miriada_balloons_sent = TRUE].amount_of_rfid = r.amount_of_rfid
           /\ Synced(r).status = r.status
           /\ Synced(r).miriada_balloons_sent = r.miriada_balloons_sent
           /\ Synced(r).amount_of_rfid = r.amount_of_rfid
BY DEF Row, Synced

LEMMA PlainApply ==
    ASSUME NEW r \in Row, NEW body \in Body
    PROVE  /\ Apply(r, body) \in Row
           /\ body.status = Keep => Apply(r, body).status = r.status
           /\ Apply(r, body).miriada_balloons_sent = r.miriada_balloons_sent
           /\ body.amount_of_rfid = Keep => Apply(r, body).amount_of_rfid = r.amount_of_rfid
<1>1. /\ Apply(r, body) \in Row
      /\ body.status = Keep => Apply(r, body).status = r.status
  BY AppliedRow DEF Merge
<1>2. /\ Apply(r, body).miriada_balloons_sent = r.miriada_balloons_sent
      /\ body.amount_of_rfid = Keep => Apply(r, body).amount_of_rfid = r.amount_of_rfid
  BY DEF Apply, Merge, Row
<1>3. QED
  BY <1>1, <1>2

\* What a body leaves of the row.
LEMMA AppliedAlike ==
    ASSUME TypeOK, NEW b \in live, NEW body \in Bodies
    PROVE  /\ Alike(Apply(row[b], body), b)
           /\ body.status = Keep => Apply(row[b], body).status = row[b].status
           /\ Alike(Apply(row[b], ClosePayload(body)), b)
           /\ Apply(row[b], ClosePayload(body)).status = row[b].status
           /\ Alike(row[b], b)
<1>1. row[b] \in Row
  BY DEF TypeOK, DatabaseOK, Ids
<1>2. /\ body \in Body
      /\ ClosePayload(body) \in Body /\ ClosePayload(body).status = Keep
      /\ ClosePayload(body).amount_of_rfid = body.amount_of_rfid
  BY PayloadBody DEF ClosePayload, Body
<1>3. /\ Alike(Apply(row[b], body), b)
      /\ body.status = Keep => Apply(row[b], body).status = row[b].status
  BY <1>1, <1>2, PlainApply DEF Alike, PlainCounts
<1>4. /\ Alike(Apply(row[b], ClosePayload(body)), b)
      /\ Apply(row[b], ClosePayload(body)).status = row[b].status
  BY <1>1, <1>2, PlainApply DEF Alike, PlainCounts
<1>5. QED
  BY <1>3, <1>4 DEF Alike

\* The types of the only handler.
LEMMA HandlerTypes ==
    ASSUME OneAtATime, TypeOK
    PROVE  /\ pc \in [{RfidThread} -> Steps] /\ on \in [{RfidThread} -> 0 .. last]
           /\ copy \in [{RfidThread} -> Row] /\ tags \in [{RfidThread} -> SUBSET Balloons]
           /\ victims \in [{RfidThread} -> SUBSET Ids]
           /\ live \subseteq Ids /\ row \in [Ids -> Row] /\ today \subseteq live
           /\ members \in [Ids -> SUBSET Balloons] /\ orphans \in [Ids -> Nat]
           /\ accepted \in [Ids -> SUBSET Balloons]
           /\ Mine \in Row /\ \A b \in Ids : row[b] \in Row
<1>1. live \subseteq Ids
  BY DEF TypeOK, DatabaseOK, Ids
<1>2. QED
  BY <1>1 DEF TypeOK, DatabaseOK, HistoryOK, HandlersOK, OneAtATime, Mine

\* A handler begins.
LEMMA LoadMove ==
    ASSUME OneAtATime, TypeOK, NEW t \in Threads, NEW b \in live, NEW step \in Steps, NEW r \in Row,
           NEW nfc \in SUBSET Balloons, Load(t, b, step, r, nfc)
    PROVE  /\ At = "idle" /\ At' = step /\ Held' = b /\ Mine' = r /\ Tags' = nfc /\ Quiet
<1>1. t = RfidThread
  BY DEF OneAtATime
<1>2. QED
  BY <1>1, HandlerTypes DEF Load, Goto, At, Held, Mine, Tags, Quiet, db, history

LEMMA CreateMove ==
    ASSUME OneAtATime, TypeOK, NEW t \in Threads, NEW r \in Readers,
           NEW ttn \in BOOLEAN, NEW body \in Bodies, CreateBatch(t, r, ttn, body)
    PROVE  \E b \in Ids : Creates(b)
<1> DEFINE fresh == [BlankRow EXCEPT !.status = "active"]
           new == Synced(Apply(fresh, body))
<1>1. PICK b : b = last + 1
  OBVIOUS
<1>2. t = RfidThread /\ body \in Body
  BY DEF OneAtATime
<1>3. b \in Ids \ live
  BY <1>1 DEF CreateBatch, TypeOK, DatabaseOK, Ids
<1>4. /\ new \in Row /\ ~new.miriada_balloons_sent
      /\ PlainCounts => new.amount_of_rfid = 0
  <2>1. fresh \in Row /\ fresh.status = "active"
    BY StatusRow, BlankIsRow DEF BatchStatus
  <2>2. ~fresh.miriada_balloons_sent /\ fresh.amount_of_rfid = 0
    BY DEF BlankRow
  <2> HIDE DEF fresh
  <2>3. /\ Apply(fresh, body) \in Row
        /\ ~Apply(fresh, body).miriada_balloons_sent
        /\ PlainCounts => Apply(fresh, body).amount_of_rfid = 0
    BY <1>2, <2>1, <2>2, PlainApply DEF PlainCounts
  <2>4. QED
    BY <2>3, SyncedRow, Columns
<1> HIDE DEF new
<1>5. /\ At = "idle"
      /\ \/ At' = "created" /\ Held' = b /\ Mine' = new /\ new.status = "active"
         \/ At' = "idle" /\ new.status # "active"
  <2>1. CASE new.status = "active"
    BY <1>1, <1>2, <2>1, HandlerTypes DEF CreateBatch, Goto, At, Held, Mine, new
  <2>2. CASE new.status # "active"
    BY <1>1, <1>2, <2>2 DEF CreateBatch, At, local, new
  <2>3. QED
    BY <2>1, <2>2
<1>6. /\ live' = live \union {b} /\ today' = today \union {b}
      /\ row' = [row EXCEPT ![b] = new] /\ reader' = [reader EXCEPT ![b] = r]
      /\ UNCHANGED <<members, accepted, ttnClosed, orphans, forced>>
  BY <1>1 DEF CreateBatch, new, history
<1>7. /\ row'[b] = new
      /\ \A c \in Ids \ {b} : row'[c] = row[c] /\ reader'[c] = reader[c]
  BY <1>3, <1>6 DEF TypeOK, DatabaseOK
<1>8. QED
  BY <1>3, <1>4, <1>5, <1>6, <1>7 DEF Creates

LEMMA DeleteMove ==
    ASSUME OneAtATime, TypeOK, NEW t \in Threads, NEW b \in live, DeleteBatch(t, b)
    PROVE  Deletes(b)
<1>1. t = RfidThread
  BY DEF OneAtATime
<1>2. b \in Ids
  BY HandlerTypes
<1>3. At = "idle" /\ At' = "idle" /\ UNCHANGED <<reader, accepted, ttnClosed, forced>>
  BY <1>1 DEF DeleteBatch, At, local
<1>4. /\ members'[b] = {} /\ orphans'[b] = 0
      /\ \A c \in Ids \ {b} : row'[c] = row[c] /\ members'[c] = members[c] /\ orphans'[c] = orphans[c]
  BY <1>2, HandlerTypes DEF DeleteBatch
<1>5. QED
  BY <1>3, <1>4 DEF Deletes, DeleteBatch

LEMMA RequestMove ==
    ASSUME OneAtATime, TypeOK, NEW t \in Threads, Request(t)
    PROVE  \E b \in Ids : Begins(b) \/ Creates(b) \/ Deletes(b)
<1>1. \A b \in live : b \in Ids /\ row[b] \in Row
  BY HandlerTypes
<1>2. ASSUME NEW b \in live, NEW body \in Bodies, SaveAndClose(t, b, body),
             row[b].status # "completed"
      PROVE  Begins(b)
  <2>1. Apply(row[b], ClosePayload(body)) \in Row
    BY <1>1, PayloadBody, AppliedRow
  <2>2. PICK step \in Steps \intersect {"presave", "count"} :
            Load(t, b, step, Apply(row[b], ClosePayload(body)), {})
    BY <1>2 DEF SaveAndClose, Steps
  <2>3. /\ At = "idle" /\ At' \in {"presave", "count"} /\ Held' = b /\ Quiet
        /\ Mine' = Apply(row[b], ClosePayload(body))
    BY <2>1, <2>2, LoadMove
  <2>4. Alike(Mine', b) /\ Mine'.status = row[b].status
    BY <2>3, AppliedAlike
  <2>5. QED
    BY <1>2, <2>3, <2>4 DEF Begins
<1>3. ASSUME NEW b \in live, NEW body \in Bodies, PatchBatch(t, b, body)
      PROVE  Begins(b)
  <2>1. Apply(row[b], body) \in Row /\ {"save", "update"} \subseteq Steps
    BY <1>1, AppliedRow DEF Steps
  <2>2. /\ At = "idle" /\ At' = (IF body.status = Keep THEN "save" ELSE "update")
        /\ Held' = b /\ Quiet /\ Mine' = Apply(row[b], body)
    BY <1>3, <2>1, LoadMove DEF PatchBatch
  <2>3. /\ Alike(Mine', b)
        /\ At' # "update" => Mine'.status = row[b].status
    BY <2>2, AppliedAlike
  <2>4. QED
    BY <2>2, <2>3 DEF Begins
<1>4. ASSUME NEW b \in live, NEW body \in Bodies, CloseBatch(t, b, body) \/ RetryClose(t, b, body)
      PROVE  Begins(b)
  BY <1>2, <1>4 DEF CloseBatch, IsClosing, AcceptsManualEdits, RetryClose
<1>5. ASSUME NEW b \in live, NEW step \in Steps, NEW nfc \in SUBSET Balloons,
             Load(t, b, step, row[b], nfc)
      PROVE  /\ At = "idle" /\ At' = step /\ Held' = b /\ Alike(Mine', b) /\ Tags' = nfc /\ Quiet
             /\ Mine'.status = row[b].status
  <2>1. At = "idle" /\ At' = step /\ Held' = b /\ Mine' = row[b] /\ Tags' = nfc /\ Quiet
    BY <1>1, <1>5, LoadMove
  <2>2. Alike(row[b], b)
    BY DEF Alike
  <2>3. QED
    BY <2>1, <2>2
<1>6. {"pausing", "resuming", "exists", "get"} \subseteq Steps
  BY DEF Steps
<1>7. ASSUME NEW b \in live, PauseBatch(t, b) PROVE Begins(b)
  BY <1>5, <1>6, <1>7 DEF PauseBatch, Begins
<1>8. ASSUME NEW b \in live, ResumeBatch(t, b) PROVE Begins(b)
  BY <1>5, <1>6, <1>8 DEF ResumeBatch, Begins
<1>9. ASSUME NEW b \in live, NEW nfc \in Balloons, AddBalloon(t, b, nfc) \/ RemoveBalloon(t, b, nfc)
      PROVE  Begins(b)
  <2>1. PICK step \in {"exists", "get"} : Load(t, b, step, row[b], {nfc})
    BY <1>9 DEF AddBalloon, StartAdd, RemoveBalloon
  <2>2. row[b].status \in {"active", "paused"}
    BY <1>9 DEF AddBalloon, StartAdd, RemoveBalloon, AcceptsManualEdits
  <2>3. /\ At = "idle" /\ At' = step /\ Held' = b /\ Alike(Mine', b) /\ Tags' = {nfc} /\ Quiet
        /\ Mine'.status = row[b].status
    <3>1. step \in Steps /\ {nfc} \in SUBSET Balloons
      BY <1>6
    <3>2. QED
      BY <1>5, <2>1, <3>1
  <2>4. QED
    BY <2>2, <2>3 DEF Begins
<1>10. QED
  BY <1>1, <1>3, <1>4, <1>7, <1>8, <1>9, CreateMove, DeleteMove DEF Request

LEMMA ReaderEventMove ==
    ASSUME OneAtATime, TypeOK, NEW t \in Threads, ReaderEvent(t)
    PROVE  \E b \in Ids : Begins(b)
<1>1. \A b \in live : b \in Ids /\ row[b] \in Row
  BY HandlerTypes
<1>2. {"save", "exists"} \subseteq Steps
  BY DEF Steps
<1>3. ASSUME NEW r \in Readers, SensorPass(t, r) PROVE \E b \in Ids : Begins(b)
  <2>1. PICK b \in live : Load(t, b, "save", [row[b] EXCEPT !.amount_of_sensor = @ + 1], {})
    BY <1>3 DEF SensorPass
  <2> DEFINE r2 == [row[b] EXCEPT !.amount_of_sensor = @ + 1]
  <2>2. r2 \in Row /\ Alike(r2, b) /\ r2.status = row[b].status
    BY <1>1 DEF Row, Alike
  <2> HIDE DEF r2
  <2>3. At = "idle" /\ At' = "save" /\ Held' = b /\ Mine' = r2 /\ Quiet
    BY <1>2, <2>1, <2>2, LoadMove DEF r2
  <2>4. QED
    BY <1>1, <2>2, <2>3 DEF Begins
<1>4. ASSUME NEW r \in Readers, NEW nfc \in Balloons, RfidBalloon(t, r, nfc)
      PROVE  \E b \in Ids : Begins(b)
  <2>1. PICK b \in live : StartAdd(t, b, nfc)
    BY <1>4 DEF RfidBalloon
  <2>2. Load(t, b, "exists", row[b], {nfc}) /\ row[b].status \in {"active", "paused"}
    BY <2>1 DEF StartAdd, AcceptsManualEdits
  <2>3. At = "idle" /\ At' = "exists" /\ Held' = b /\ Mine' = row[b] /\ Tags' = {nfc} /\ Quiet
    BY <1>1, <1>2, <2>2, LoadMove
  <2>4. Alike(row[b], b)
    BY DEF Alike
  <2>5. QED
    BY <1>1, <2>2, <2>3, <2>4 DEF Begins
<1>5. QED
  BY <1>3, <1>4 DEF ReaderEvent

\* The end of a handler, and a row written back whole or in part.
LEMMA DoneMove ==
    ASSUME OneAtATime, TypeOK, NEW t \in Threads, Done(t)
    PROVE  At' = "idle"
<1>1. t = RfidThread
  BY DEF OneAtATime
<1>2. QED
  BY <1>1, HandlerTypes DEF Done, Goto, At

LEMMA FullSaveMove ==
    ASSUME OneAtATime, SequentialInv, At # "idle", FullSave(RfidThread, Mine)
    PROVE  /\ row'[Held].status = Mine.status
           /\ row'[Held].miriada_balloons_sent = Mine.miriada_balloons_sent
           /\ row'[Held].amount_of_rfid = Mine.amount_of_rfid
           /\ \A b \in Ids \ {Held} : row'[b] = row[b]
           /\ UNCHANGED <<live, reader, today, members>>
<1>1. Held \in live /\ TypeOK
  BY DEF SequentialInv, Holding
<1>2. Held \in Ids /\ Mine \in Row
  BY <1>1, HandlerTypes
<1>3. row' = [row EXCEPT ![Held] = Synced(Mine)] /\ UNCHANGED <<live, reader, today, members>>
  BY <1>1 DEF FullSave, Held
<1>4. row'[Held] = Synced(Mine) /\ \A b \in Ids \ {Held} : row'[b] = row[b]
  BY <1>1, <1>2, <1>3, HandlerTypes
<1>5. QED
  BY <1>2, <1>3, <1>4, Columns

LEMMA UpdateMove ==
    ASSUME OneAtATime, SequentialInv, At # "idle", NEW r, UpdateColumns(RfidThread, r)
    PROVE  /\ row'[Held] = r
           /\ \A b \in Ids \ {Held} : row'[b] = row[b]
           /\ UNCHANGED <<live, reader, today, members>>
<1>1. Held \in live /\ TypeOK
  BY DEF SequentialInv, Holding
<1>2. Held \in Ids
  BY <1>1, HandlerTypes
<1>3. row' = [row EXCEPT ![Held] = r] /\ UNCHANGED <<live, reader, today, members>>
  BY <1>1 DEF UpdateColumns, Held
<1>4. QED
  BY <1>1, <1>2, <1>3, HandlerTypes

LEMMA StatementMove ==
    ASSUME OneAtATime, SequentialInv, NEW t \in Threads, Statement(t)
    PROVE  Stops \/ GoesOn \/ Lists \/ Writes \/ Updates \/ PausesChosen
<1>1. t = RfidThread
  BY DEF OneAtATime
<1>2. TypeOK
  BY DEF SequentialInv
<1>3. At # "idle" => Held \in live /\ Held \in Ids /\ row[Held] \in Row
  BY <1>2, HandlerTypes DEF SequentialInv, Holding
<1>4. Mine \in Row
  BY <1>2, HandlerTypes
<1>5. CASE SaveInstance(t)
  <2>1. At = "save" /\ At' = "idle" /\ UNCHANGED <<accepted, ttnClosed, orphans, forced>>
    BY <1>1, <1>2, <1>5, DoneMove DEF SaveInstance, At, history
  <2>2. FullSave(RfidThread, Mine)
    BY <1>1, <1>5 DEF SaveInstance, Mine
  <2>3. QED
    BY <2>1, <2>2, FullSaveMove DEF Writes
<1>6. CASE CheckNotListed(t)
  <2>1. At = "exists" /\ Quiet
    BY <1>1, <1>6 DEF CheckNotListed, At, Quiet, db, history
  <2>2. CASE Done(t)
    BY <1>2, <2>1, <2>2, DoneMove DEF Stops
  <2>3. CASE ~(tags[t] \subseteq members[on[t]]) /\ Goto(t, "insert") /\ UNCHANGED <<on, copy, tags>>
    BY <1>1, <1>2, <2>1, <2>3, HandlerTypes DEF GoesOn, Goto, At, Held, Mine, Tags
  <2>4. QED
    BY <1>6, <2>2, <2>3 DEF CheckNotListed
<1>7. CASE InsertBalloon(t)
  <2>1. At = "insert" /\ UNCHANGED <<live, row, reader, today, accepted, ttnClosed, orphans, forced>>
    BY <1>1, <1>7 DEF InsertBalloon, At, history
  <2>2. /\ members' = [members EXCEPT ![Held] = @ \union Tags]
        /\ copy' = [copy EXCEPT ![RfidThread].amount_of_rfid = @ + 1]
        /\ At' = "save" /\ Held' = Held
    BY <1>1, <1>2, <1>3, <1>7, <2>1, HandlerTypes DEF InsertBalloon, Goto, At, Held, Tags
  <2>3. /\ members'[Held] = members[Held] \union Tags
        /\ \A b \in Ids \ {Held} : members'[b] = members[b]
    BY <1>2, <1>3, <2>1, <2>2, HandlerTypes
  <2>4. Mine' = [Mine EXCEPT !.amount_of_rfid = @ + 1]
    BY <1>2, <2>2, HandlerTypes DEF Mine
  <2>5. /\ Mine'.status = Mine.status /\ Mine'.miriada_balloons_sent = Mine.miriada_balloons_sent
        /\ Mine'.amount_of_rfid = Mine.amount_of_rfid + 1
    BY <1>4, <2>4 DEF Row
  <2>6. QED
    BY <2>1, <2>2, <2>3, <2>5 DEF Lists
<1>8. CASE GetListed(t)
  <2>1. At = "get" /\ Quiet
    BY <1>1, <1>8 DEF GetListed, At, Quiet, db, history
  <2>2. CASE Done(t)
    BY <1>2, <2>1, <2>2, DoneMove DEF Stops
  <2>3. CASE tags[t] \subseteq members[on[t]] /\ Goto(t, "erase") /\ UNCHANGED <<on, copy, tags>>
    BY <1>1, <1>2, <2>1, <2>3, HandlerTypes DEF GoesOn, Goto, At, Held, Mine, Tags
  <2>4. QED
    BY <1>8, <2>2, <2>3 DEF GetListed
<1>9. CASE EraseBalloon(t)
  <2>1. At = "erase" /\ UNCHANGED <<live, row, reader, today, accepted, ttnClosed, orphans, forced>>
    BY <1>1, <1>9 DEF EraseBalloon, At, history
  <2>2. /\ members' = [members EXCEPT ![Held] = @ \ Tags]
        /\ copy' = [copy EXCEPT ![RfidThread].amount_of_rfid = IF @ > 0 THEN @ - 1 ELSE 0]
        /\ At' = "save" /\ Held' = Held
    BY <1>1, <1>2, <1>9, <2>1, HandlerTypes DEF EraseBalloon, Goto, At, Held, Tags
  <2>3. /\ members'[Held] = members[Held] \ Tags
        /\ \A b \in Ids \ {Held} : members'[b] = members[b]
    BY <1>2, <1>3, <2>1, <2>2, HandlerTypes
  <2>4. Mine' = [Mine EXCEPT !.amount_of_rfid = IF @ > 0 THEN @ - 1 ELSE 0]
    BY <1>2, <2>2, HandlerTypes DEF Mine
  <2>5. /\ Mine'.status = Mine.status /\ Mine'.miriada_balloons_sent = Mine.miriada_balloons_sent
        /\ Mine'.amount_of_rfid = IF Mine.amount_of_rfid > 0 THEN Mine.amount_of_rfid - 1 ELSE 0
    BY <1>4, <2>4 DEF Row
  <2>6. QED
    BY <2>1, <2>2, <2>3, <2>5 DEF Lists
<1>10. CASE PauseStatus(t)
  <2> DEFINE r == [row[Held] EXCEPT !.status = "paused"]
  <2>1. At = "pausing" /\ At' = "idle" /\ UNCHANGED <<accepted, ttnClosed, orphans, forced>>
    BY <1>1, <1>2, <1>10, DoneMove DEF PauseStatus, At, history
  <2>2. UpdateColumns(RfidThread, r)
    BY <1>1, <1>10 DEF PauseStatus, Held
  <2>3. /\ r.status = "paused" /\ r.miriada_balloons_sent = row[Held].miriada_balloons_sent
        /\ r.amount_of_rfid = row[Held].amount_of_rfid
    BY <1>3, <2>1, Columns DEF BatchStatus
  <2> HIDE DEF r
  <2>4. /\ row'[Held] = r /\ \A b \in Ids \ {Held} : row'[b] = row[b]
        /\ UNCHANGED <<live, reader, today, members>>
    BY <2>1, <2>2, UpdateMove
  <2>5. QED
    BY <2>1, <2>3, <2>4 DEF Writes
<1>11. CASE SelectOthers(t)
  <2>1. /\ At \in {"created", "resuming"} /\ Quiet /\ Held' = Held /\ Mine' = Mine
    BY <1>1, <1>11 DEF SelectOthers, At, Held, Mine, Quiet, db, history
  <2>2. /\ \/ At = "created" /\ At' = "created_pause"
           \/ At = "resuming" /\ At' = "resuming_pause"
    BY <1>1, <1>2, <1>11, HandlerTypes DEF SelectOthers, Goto, At
  <2>3. Chosen' = ActiveToday(reader[Held]) \ {Held}
    BY <1>1, <1>2, <1>11, HandlerTypes DEF SelectOthers, Chosen, Held
  <2>4. QED
    BY <2>1, <2>2, <2>3 DEF GoesOn
<1>12. ASSUME NEW b \in Ids
       PROVE  /\ Paused(t, b).miriada_balloons_sent = row[b].miriada_balloons_sent
              /\ Paused(t, b).amount_of_rfid = row[b].amount_of_rfid
              /\ \/ /\ Paused(t, b).status = row[b].status
                    /\ b \in Chosen \intersect live => row[b].status # "active"
                 \/ Paused(t, b).status = "paused" /\ row[b].status = "active"
  <2>1. row[b] \in Row
    BY <1>2, HandlerTypes
  <2>2. CASE b \in StillActive(t)
    <3>1. Paused(t, b) = [row[b] EXCEPT !.status = "paused"] /\ row[b].status = "active"
      BY <2>2 DEF Paused, StillActive
    <3>2. QED
      BY <2>1, <3>1, Columns DEF BatchStatus
  <2>3. CASE b \notin StillActive(t)
    BY <1>1, <2>3 DEF Paused, StillActive, Chosen
  <2>4. QED
    BY <2>2, <2>3
<1>13. CASE PauseOthers(t)
  <2>1. /\ At = "created_pause" /\ At' = "idle" /\ \A b \in Ids : row'[b] = Paused(t, b)
        /\ UNCHANGED <<live, reader, today, members, accepted, ttnClosed, orphans, forced>>
    BY <1>1, <1>2, <1>13, DoneMove DEF PauseOthers, At, history
  <2>2. QED
    BY <1>12, <2>1 DEF PausesChosen
<1>14. CASE CommitResume(t)
  <2>1. /\ At = "resuming_pause" /\ At' = "idle"
        /\ UNCHANGED <<live, reader, today, members, accepted, ttnClosed, orphans, forced>>
    BY <1>1, <1>2, <1>14, DoneMove DEF CommitResume, At, history
  <2>2. /\ \A b \in Ids \ {Held} : row'[b] = Paused(t, b)
        /\ row'[Held] = [row[Held] EXCEPT !.status = "active"]
    BY <1>1, <1>3, <1>14, <2>1 DEF CommitResume, Held
  <2>3. /\ row'[Held].status = "active"
        /\ row'[Held].miriada_balloons_sent = row[Held].miriada_balloons_sent
        /\ row'[Held].amount_of_rfid = row[Held].amount_of_rfid
    BY <1>3, <2>1, <2>2, Columns DEF BatchStatus
  <2>4. ASSUME NEW b \in Ids
        PROVE  /\ row'[b].miriada_balloons_sent = row[b].miriada_balloons_sent
               /\ row'[b].amount_of_rfid = row[b].amount_of_rfid
               /\ \/ /\ row'[b].status = row[b].status
                     /\ b \in Chosen \intersect live => row[b].status # "active"
                  \/ row'[b].status = "paused" /\ row[b].status = "active"
                  \/ row'[b].status = "active" /\ b = Held /\ At = "resuming_pause"
    <3>1. CASE b = Held
      BY <2>1, <2>3, <3>1
    <3>2. CASE b # Held
      BY <1>12, <2>2, <3>2
    <3>3. QED
      BY <3>1, <3>2
  <2>5. QED
    BY <2>1, <2>4 DEF PausesChosen
<1>15. CASE UpdateStatus(t)
  <2>1. /\ At = "update" /\ At' = "idle" /\ UNCHANGED <<accepted, ttnClosed, orphans>>
        /\ forced' = IF Mine.status = row[Held].status THEN forced ELSE forced \union {Held}
    BY <1>1, <1>2, <1>15, DoneMove DEF UpdateStatus, At, Held, Mine
  <2>2. FullSave(RfidThread, Mine)
    BY <1>1, <1>15 DEF UpdateStatus, Mine
  <2>3. QED
    BY <2>1, <2>2, FullSaveMove DEF Updates
<1>16. QED
  BY <1>5, <1>6, <1>7, <1>8, <1>9, <1>10, <1>11, <1>13, <1>14, <1>15 DEF Statement

LEMMA CloseStatementMove ==
    ASSUME OneAtATime, SequentialInv, NEW t \in Threads, CloseStatement(t)
    PROVE  Stops \/ GoesOn \/ Sends \/ ClosesTtn \/ Writes
<1>1. t = RfidThread
  BY DEF OneAtATime
<1>2. TypeOK
  BY DEF SequentialInv
<1>3. At # "idle" => Held \in live /\ Held \in Ids /\ row[Held] \in Row
  BY <1>2, HandlerTypes DEF SequentialInv, Holding
<1>4. Mine \in Row
  BY <1>2, HandlerTypes
<1>5. CASE SavePayload(t)
  <2>1. /\ At = "presave" /\ At' = "refresh" /\ Held' = Held /\ Mine' = Mine
        /\ UNCHANGED <<accepted, ttnClosed, orphans, forced>>
    BY <1>1, <1>2, <1>5, HandlerTypes DEF SavePayload, Goto, At, Held, Mine, history
  <2>2. FullSave(RfidThread, Mine)
    BY <1>1, <1>5 DEF SavePayload, Mine
  <2>3. QED
    BY <2>1, <2>2, FullSaveMove DEF Writes
<1>6. CASE RefreshFromDb(t)
  <2>1. At = "refresh" /\ Quiet
    BY <1>1, <1>6 DEF RefreshFromDb, At, Quiet, db, history
  <2>2. At' = "count" /\ Held' = Held /\ copy' = [copy EXCEPT ![RfidThread] = row[Held]]
    BY <1>1, <1>2, <1>3, <1>6, <2>1, HandlerTypes DEF RefreshFromDb, Goto, At, Held
  <2>3. Mine' = row[Held]
    BY <1>2, <2>2, HandlerTypes DEF Mine
  <2>4. QED
    BY <2>1, <2>2, <2>3 DEF GoesOn
<1>7. CASE RejectMismatch(t)
  BY <1>1, <1>2, <1>7, DoneMove DEF RejectMismatch, Stops, At, Quiet, db, history
<1>8. CASE SkipSending(t)
  <2>1. /\ At = "count" /\ At' = "ttn" /\ Held' = Held /\ Mine' = Mine /\ Quiet
    BY <1>1, <1>2, <1>8, HandlerTypes DEF SkipSending, Goto, At, Held, Mine, Quiet, db, history
  <2>2. Mine.miriada_balloons_sent \/ reader[Held] \notin BATCH_STATUS_READERS
    BY <1>1, <1>8 DEF SkipSending, NothingToSend, Mine, Held
  <2>3. QED
    BY <2>1, <2>2 DEF GoesOn
<1>9. CASE ReadBalloonList(t)
  <2>1. /\ At = "count" /\ Held' = Held /\ Mine' = Mine /\ Quiet
        /\ Goto(t, IF members[Held] = {} THEN "flag" ELSE "send")
        /\ tags' = [tags EXCEPT ![t] = members[Held]]
    BY <1>1, <1>3, <1>9 DEF ReadBalloonList, At, Held, Mine, Quiet, db, history
  <2>2. Tags' = members[Held] /\ At' = IF members[Held] = {} THEN "flag" ELSE "send"
    BY <1>1, <1>2, <2>1, HandlerTypes DEF Goto, At, Tags
  <2>3. QED
    BY <2>1, <2>2 DEF GoesOn
<1>10. CASE SendStatuses(t)
  <2>1. /\ At = "send" /\ Held' = Held /\ Mine' = Mine
        /\ UNCHANGED <<live, row, reader, today, members, ttnClosed, orphans, forced>>
    BY <1>1, <1>10 DEF SendStatuses, At, Held, Mine, db
  <2>2. PICK taken \in SUBSET Tags :
            /\ accepted' = [accepted EXCEPT ![Held] = @ \union taken]
            /\ Goto(RfidThread, "fail") \/ (taken = Tags /\ Goto(RfidThread, "flag"))
    BY <1>1, <1>10 DEF SendStatuses, Tags, Held
  <2>3. /\ accepted'[Held] = accepted[Held] \union taken
        /\ \A b \in Ids \ {Held} : accepted'[b] = accepted[b]
    BY <1>2, <1>3, <2>1, <2>2, HandlerTypes
  <2>4. At' = "fail" \/ (taken = Tags /\ At' = "flag")
    BY <1>2, <2>2, HandlerTypes DEF Goto, At
  <2>5. QED
    BY <2>1, <2>3, <2>4 DEF Sends
<1>11. CASE SetSentFlag(t)
  <2> DEFINE r == [row[Held] EXCEPT !.miriada_balloons_sent = TRUE]
  <2>1. At = "flag" /\ UNCHANGED <<accepted, ttnClosed, orphans, forced>>
    BY <1>1, <1>11 DEF SetSentFlag, At, history
  <2>2. UpdateColumns(RfidThread, r)
    BY <1>1, <1>11 DEF SetSentFlag, Held
  <2>3. /\ r.status = row[Held].status /\ r.miriada_balloons_sent
        /\ r.amount_of_rfid = row[Held].amount_of_rfid
    BY <1>3, <2>1, Columns
  <2> HIDE DEF r
  <2>4. /\ row'[Held] = r /\ \A b \in Ids \ {Held} : row'[b] = row[b]
        /\ UNCHANGED <<live, reader, today, members>>
    BY <2>1, <2>2, UpdateMove
  <2>5. /\ At' = "ttn" /\ Held' = Held
        /\ copy' = [copy EXCEPT ![RfidThread].miriada_balloons_sent = TRUE]
    BY <1>1, <1>2, <1>3, <1>11, <2>1, HandlerTypes DEF SetSentFlag, Goto, At, Held
  <2>6. Mine' = [Mine EXCEPT !.miriada_balloons_sent = TRUE]
    BY <1>2, <2>5, HandlerTypes DEF Mine
  <2>7. /\ Mine'.status = Mine.status /\ Mine'.miriada_balloons_sent
        /\ Mine'.amount_of_rfid = Mine.amount_of_rfid
    BY <1>4, <2>6, Columns
  <2>8. QED
    BY <2>1, <2>3, <2>4, <2>5, <2>7 DEF Writes
<1>12. CASE CloseTtn(t)
  <2>1. /\ At = "ttn" /\ Held' = Held /\ Mine' = Mine
        /\ UNCHANGED <<live, row, reader, today, members, accepted, orphans, forced>>
        /\ ttnClosed' \subseteq ttnClosed \union {Held}
        /\ Goto(t, "complete") \/ Goto(t, "fail")
    BY <1>1, <1>12 DEF CloseTtn, At, Held, Mine, db
  <2>2. At' \in {"complete", "fail"}
    BY <1>1, <1>2, <2>1, HandlerTypes DEF Goto, At
  <2>3. QED
    BY <2>1, <2>2 DEF ClosesTtn
<1>13. CASE FinishClose(t)
  <2>1. /\ At \in {"complete", "fail"} /\ At' = "idle" /\ UNCHANGED <<accepted, ttnClosed, orphans, forced>>
    BY <1>1, <1>2, <1>13, DoneMove DEF FinishClose, At, history
  <2>2. PICK final \in {"completed", "miriada_error"} :
            UpdateColumns(RfidThread, Synced([row[Held] EXCEPT !.status = final]))
    BY <1>1, <1>13 DEF FinishClose, Held
  <2> DEFINE r == [row[Held] EXCEPT !.status = final]
  <2>3. /\ r \in Row /\ r.status = final
        /\ r.miriada_balloons_sent = row[Held].miriada_balloons_sent
        /\ r.amount_of_rfid = row[Held].amount_of_rfid
    <3>1. row[Held] \in Row /\ final \in BatchStatus
      BY <1>3, <2>1 DEF BatchStatus
    <3>2. QED
      BY <3>1, Columns
  <2> HIDE DEF r
  <2>4. /\ row'[Held] = Synced(r) /\ \A b \in Ids \ {Held} : row'[b] = row[b]
        /\ UNCHANGED <<live, reader, today, members>>
    BY <2>1, <2>2, UpdateMove DEF r
  <2>5. QED
    BY <2>1, <2>3, <2>4, Columns DEF Writes
<1>14. QED
  BY <1>5, <1>6, <1>7, <1>8, <1>9, <1>10, <1>11, <1>12, <1>13 DEF CloseStatement

Rests == UNCHANGED <<live, row, reader, today, members, accepted, ttnClosed, orphans, forced, local>>

\* Every step is one of the moves.
LEMMA Moves ==
    ASSUME OneAtATime, SequentialInv, [Next]_vars
    PROVE  \/ \E b \in Ids : Begins(b) \/ Creates(b) \/ Deletes(b)
           \/ \E n \in Balloons : Loses(n)
           \/ DayEnds \/ Stops \/ GoesOn \/ Sends \/ ClosesTtn \/ Lists \/ Writes
           \/ Updates \/ PausesChosen \/ Rests
<1>1. TypeOK
  BY DEF SequentialInv
<1>2. ASSUME NEW t \in Threads, Abort(t) PROVE Stops
  BY <1>1, <1>2, DoneMove DEF Abort, Stops, Quiet, db, history
<1>3. ASSUME NEW n \in Balloons, DeleteBalloon(n) PROVE Loses(n)
  <2>1. At \in Editing => n \notin Tags
    BY <1>3 DEF DeleteBalloon, At, Tags, Editing
  <2>2. UNCHANGED <<live, row, reader, today, accepted, ttnClosed, forced, local>>
    BY <1>3 DEF DeleteBalloon
  <2>3. \A b \in Ids :
           /\ members'[b] = members[b] \ {n}
           /\ orphans'[b] = IF b \in live /\ n \in members[b] THEN orphans[b] + 1 ELSE orphans[b]
    BY <1>3 DEF DeleteBalloon
  <2>4. QED
    BY <2>1, <2>2, <2>3 DEF Loses
<1>4. CASE Midnight
  BY <1>4 DEF Midnight, DayEnds, history
<1>5. CASE UNCHANGED vars
  BY <1>5 DEF vars, db, history, Rests
<1>6. QED
  BY <1>1, <1>2, <1>3, <1>4, <1>5, RequestMove, ReaderEventMove, StatementMove, CloseStatementMove
     DEF Next

----------------------------------------------------------------------------
(* The transitions of the status *)

LEMMA HoldingSteps ==
    ASSUME OneAtATime, SequentialInv, [Next]_vars
    PROVE  Holding'
<1>1. TypeOK /\ Holding /\ live \subseteq Ids
  BY HandlerTypes DEF SequentialInv
<1>2. ASSUME NEW b \in Ids, Begins(b) PROVE Holding'
  BY <1>2 DEF Begins, Alike, Quiet, Holding, Editing, Closing
<1>3. ASSUME NEW b \in Ids, Creates(b) PROVE Holding'
  BY <1>3 DEF Creates, Holding, Editing, Closing
<1>4. ASSUME NEW b \in Ids, Deletes(b) PROVE Holding'
  BY <1>4 DEF Deletes, Holding
<1>5. ASSUME UNCHANGED <<live, row, local>> PROVE Holding'
  BY <1>1, <1>5 DEF Holding, local, At, Held, Mine
<1>6. CASE Stops \/ Updates \/ PausesChosen
  BY <1>6 DEF Stops, Updates, PausesChosen, Holding
<1>7. CASE GoesOn
  BY <1>1, <1>7 DEF GoesOn, Quiet, Holding, Editing, Closing
<1>8. CASE Sends \/ ClosesTtn
  BY <1>1, <1>8 DEF Sends, ClosesTtn, Holding, Editing, Closing
<1>9. CASE Lists
  BY <1>1, <1>9 DEF Lists, Holding, Editing, Closing
<1>10. CASE Writes
  <2>1. CASE At' = "idle"
    BY <2>1 DEF Holding
  <2>2. /\ At' # "idle" => At # "idle" /\ Held' = Held /\ At \in {"presave", "flag"}
        /\ At' # "idle" => At' \in {"refresh", "ttn"}
        /\ live' = live
    BY <1>10 DEF Writes
  <2>3. CASE At' # "idle"
    <3>1. /\ row'[Held].status = Mine'.status
          /\ row'[Held].miriada_balloons_sent = Mine'.miriada_balloons_sent
          /\ row'[Held].status = row[Held].status
      BY <1>1, <1>10, <2>2, <2>3, HandlerTypes, Columns DEF Writes, Holding
    <3>2. Held' \in live' /\ row[Held].status # "completed"
      BY <1>1, <2>2, <2>3 DEF Holding, Closing
    <3>3. row'[Held'] = row'[Held]
      BY <2>2, <2>3
    <3>4. QED
      BY <2>2, <2>3, <3>1, <3>2, <3>3 DEF Holding, Editing, Closing
  <2>4. QED
    BY <2>1, <2>3
<1>11. QED
  BY <1>2, <1>3, <1>4, <1>5, <1>6, <1>7, <1>8, <1>9, <1>10, Moves
     DEF SequentialInv, Loses, DayEnds, Rests

LEMMA SequentialSteps ==
    ASSUME OneAtATime
    PROVE  Spec => []SequentialInv
<1>1. Init => Holding
  BY DEF Init, Holding, At
<1>2. TypeOK /\ Holding /\ [Next]_vars => Holding'
  BY HoldingSteps DEF SequentialInv
<1>3. QED
  BY <1>1, <1>2, TypeCorrect, PTL DEF Spec, SequentialInv

\* The status of a row changes by the handler of that batch, or the row is paused.
LEMMA StatusSteps ==
    ASSUME OneAtATime, SequentialInv, [Next]_vars, NEW b \in live \intersect live',
           row'[b].status # row[b].status
    PROVE  \/ row[b].status = "active" /\ row'[b].status = "paused"
           \/ /\ row[b].status = "paused" /\ row'[b].status = "active"
              /\ Held = b /\ At = "resuming_pause"
           \/ /\ row[b].status # "completed" /\ row'[b].status \in {"completed", "miriada_error"}
           \/ Held = b /\ At = "update" /\ row'[b].status = Mine.status
<1>1. TypeOK /\ Holding /\ live \subseteq Ids /\ b \in Ids
  BY HandlerTypes DEF SequentialInv
<1>2. ASSUME NEW c \in Ids, Begins(c) \/ Creates(c) \/ Deletes(c) PROVE FALSE
  BY <1>1, <1>2 DEF Begins, Quiet, Creates, Deletes
<1>3. ASSUME row' = row PROVE FALSE
  BY <1>3
<1>4. CASE Writes
  BY <1>1, <1>4 DEF Writes, Holding, Closing
<1>5. CASE PausesChosen
  BY <1>1, <1>5 DEF PausesChosen, Holding
<1>6. CASE Updates
  BY <1>1, <1>6 DEF Updates
<1>7. QED
  BY <1>2, <1>3, <1>4, <1>5, <1>6, Moves
     DEF Loses, DayEnds, Stops, Quiet, GoesOn, Sends, ClosesTtn, Lists, Rests

\* While handlers do not overlap a batch moves only between the states it may, or to the one
\* a PATCH of this batch names, wherever they die: no row is written back stale (save() of
\* the whole row, balloon_batches.py 472-500).
THEOREM TransitionsLegal ==
    ASSUME OneAtATime
    PROVE  Spec => LegalTransitions
<1>1. ASSUME SequentialInv, [Next]_vars, NEW b \in live \intersect live'
      PROVE  \/ row'[b].status = row[b].status
             \/ <<row[b].status, row'[b].status>> \in Transitions
             \/ \E t \in Threads : WritesStatus(t, b, row'[b].status)
  <2>1. row[b].status \in BatchStatus
    BY <1>1, HandlerTypes, Columns DEF SequentialInv
  <2>2. SUFFICES ASSUME row'[b].status # row[b].status
                 PROVE  \/ <<row[b].status, row'[b].status>> \in Transitions
                        \/ \E t \in Threads : WritesStatus(t, b, row'[b].status)
    OBVIOUS
  <2>3. CASE Held = b /\ At = "update" /\ row'[b].status = Mine.status
    BY <2>3 DEF WritesStatus, Held, At, Mine
  <2>4. CASE ~(Held = b /\ At = "update" /\ row'[b].status = Mine.status)
    <3>1. CASE row[b].status = "miriada_error" /\ row'[b].status # "completed"
      BY <1>1, <2>2, <2>4, <3>1, StatusSteps
    <3>2. CASE ~(row[b].status = "miriada_error" /\ row'[b].status # "completed")
      BY <1>1, <2>1, <2>2, <2>4, <3>2, StatusSteps DEF Transitions, BatchStatus
    <3>3. QED
      BY <3>1, <3>2
  <2>5. QED
    BY <2>3, <2>4
<1>2. SequentialInv /\ [Next]_vars =>
          [\A b \in live \intersect live' :
              \/ row'[b].status = row[b].status
              \/ <<row[b].status, row'[b].status>> \in Transitions
              \/ \E t \in Threads : WritesStatus(t, b, row'[b].status)]_vars
  BY <1>1
<1>3. QED
  BY <1>2, SequentialSteps, PTL DEF Spec, LegalTransitions

\* While handlers do not overlap a paused batch becomes active only by its resume request or
\* by a PATCH that writes this status to it, wherever they die.
THEOREM ReactivatedByRequest ==
    ASSUME OneAtATime
    PROVE  Spec => ReactivatedOnRequest
<1>1. ASSUME SequentialInv, [Next]_vars, NEW b \in live \intersect live',
             row[b].status = "paused", row'[b].status = "active"
      PROVE  \E t \in Threads :
                \/ on[t] = b /\ pc[t] = "resuming_pause"
                \/ WritesStatus(t, b, "active")
  <2>1. Held = b /\ (At = "resuming_pause" \/ (At = "update" /\ Mine.status = "active"))
    BY <1>1, StatusSteps
  <2>2. QED
    BY <2>1 DEF Held, At, Mine, WritesStatus
<1>2. SequentialInv /\ [Next]_vars =>
          [\A b \in live \intersect live' :
              (row[b].status = "paused" /\ row'[b].status = "active") =>
                  \E t \in Threads :
                      \/ on[t] = b /\ pc[t] = "resuming_pause"
                      \/ WritesStatus(t, b, "active")]_vars
  BY <1>1
<1>3. QED
  BY <1>2, SequentialSteps, PTL DEF Spec, ReactivatedOnRequest

----------------------------------------------------------------------------
(* One active batch to a reader *)

\* No batch of today becomes active, and none comes to a reader.
Calms ==
    /\ live' \subseteq live /\ today' \subseteq today
    /\ \A b \in live' :
          /\ reader'[b] = reader[b]
          /\ row'[b].status = "active" => row[b].status = "active"

LEMMA CalmFewer ==
    ASSUME Calms, NEW r
    PROVE  ActiveToday(r)' \subseteq ActiveToday(r)
BY DEF Calms, ActiveToday

\* A calm step of a handler that is not about to pause the other batches.
LEMMA CalmSingle ==
    ASSUME Single, Calms, forced \subseteq forced', At \notin {"created", "created_pause"},
           At' \notin {"created_pause", "resuming_pause"}
    PROVE  Single'
<1>1. \A r \in Readers : \A a, b \in ActiveToday(r)' \ forced' : a = b
  BY CalmFewer DEF Single
<1>2. QED
  BY <1>1 DEF Single

LEMMA SinglePause ==
    ASSUME OneAtATime, SequentialInv, Single, PausesChosen, NEW r \in Readers,
           NEW a \in ActiveToday(r)' \ forced, NEW b \in ActiveToday(r)' \ forced
    PROVE  a = b
<1>1. live \subseteq Ids /\ Held \in live
  BY HandlerTypes DEF SequentialInv, Holding, PausesChosen
<1>2. ASSUME NEW c \in ActiveToday(r)'
      PROVE  /\ reader[c] = r
             /\ \/ c \in ActiveToday(r) /\ c \notin Chosen
                \/ c = Held /\ At = "resuming_pause"
  <2>1. c \in live /\ c \in today /\ reader[c] = r /\ row'[c].status = "active"
    BY <1>2 DEF PausesChosen, ActiveToday
  <2>2. \/ /\ row[c].status = "active"
           /\ c \in Chosen \intersect live => row[c].status # "active"
        \/ c = Held /\ At = "resuming_pause"
    BY <1>1, <2>1 DEF PausesChosen
  <2>3. QED
    BY <2>1, <2>2 DEF ActiveToday
<1>3. At \in {"created_pause", "resuming_pause"}
  BY DEF PausesChosen
<1>4. SUFFICES ASSUME a # b PROVE FALSE
  OBVIOUS
<1>5. Held \in {a, b}
  BY <1>2, <1>4 DEF Single
<1>6. reader[Held] = r
  BY <1>2, <1>5
<1>7. ActiveToday(r) \ {Held} \subseteq Chosen
  BY <1>3, <1>6 DEF Single
<1>8. QED
  BY <1>2, <1>4, <1>5, <1>7

LEMMA SingleSteps ==
    ASSUME OneAtATime, ~MayFail, SequentialInv, Single, [Next]_vars
    PROVE  Single'
<1>1. Holding /\ live \subseteq Ids
  BY HandlerTypes DEF SequentialInv
<1>2. ASSUME NEW b \in Ids, Begins(b) \/ Deletes(b) PROVE Single'
  <2>1. Calms
    BY <1>1, <1>2 DEF Begins, Quiet, Deletes, Calms
  <2>2. QED
    BY <1>2, <2>1, CalmSingle DEF Begins, Quiet, Deletes
<1>3. ASSUME NEW b \in Ids, Creates(b) PROVE Single'
  <2>1. forced' = forced /\ At = "idle"
    BY <1>3 DEF Creates
  <2>2. CASE At' = "created" /\ Held' = b
    <3>1. \A r \in Readers : ActiveToday(r)' \subseteq ActiveToday(r) \union {b}
      BY <1>1, <1>3 DEF Creates, ActiveToday
    <3>2. \A r \in Readers : \A c, d \in ActiveToday(r)' \ forced : c = d \/ Held' \in {c, d}
      BY <2>1, <2>2, <3>1 DEF Single
    <3>3. QED
      BY <2>1, <2>2, <3>2 DEF Single
  <2>3. CASE At' = "idle" /\ row'[b].status # "active"
    <3>1. \A r \in Readers : ActiveToday(r)' \subseteq ActiveToday(r)
      BY <1>1, <1>3, <2>3 DEF Creates, ActiveToday
    <3>2. QED
      BY <2>1, <2>3, <3>1 DEF Single
  <2>4. QED
    BY <1>3, <2>2, <2>3 DEF Creates
<1>4. ASSUME UNCHANGED <<live, row, reader, today>>
      PROVE  /\ \A r \in Readers : ActiveToday(r)' = ActiveToday(r)
             /\ ActiveToday(reader[Held])' = ActiveToday(reader'[Held'])
             /\ Calms
  BY <1>4 DEF ActiveToday, Calms
<1>5. ASSUME UNCHANGED <<live, row, reader, today, forced, local>> PROVE Single'
  <2>1. At' = At /\ Held' = Held /\ Chosen' = Chosen /\ reader' = reader
    BY <1>5 DEF local, At, Held, Chosen
  <2>2. QED
    BY <1>4, <1>5, <2>1 DEF Single
<1>6. CASE DayEnds
  <2>1. At' = At /\ Held' = Held
    BY <1>6 DEF DayEnds, local, At, Held
  <2>2. \A r : ActiveToday(r)' = {}
    BY <1>6 DEF DayEnds, ActiveToday
  <2>3. QED
    BY <2>1, <2>2 DEF Single
<1>7. CASE Stops \/ Sends \/ ClosesTtn \/ Lists
  <2>1. Calms
    BY <1>4, <1>7 DEF Stops, Quiet, Sends, ClosesTtn, Lists
  <2>2. QED
    BY <1>7, <2>1, CalmSingle DEF Stops, Quiet, Sends, ClosesTtn, Lists
<1>8. CASE GoesOn
  <2>1. CASE At' \in {"created_pause", "resuming_pause"}
    <3>1. /\ Held' = Held /\ reader' = reader /\ At \in {"created", "resuming"}
          /\ At' = "created_pause" \/ At = "resuming"
          /\ Chosen' = ActiveToday(reader[Held]) \ {Held}
      BY <1>8, <2>1 DEF GoesOn, Quiet
    <3>2. \A r \in Readers : \A a, b \in ActiveToday(r)' \ forced' :
              a = b \/ (At' = "created_pause" /\ Held' \in {a, b})
      BY <1>4, <1>8, <3>1 DEF Single, GoesOn, Quiet
    <3>3. ActiveToday(reader[Held])' = ActiveToday(reader[Held])
      BY <1>8, <3>1 DEF ActiveToday, GoesOn, Quiet
    <3>4. ActiveToday(reader[Held])' \ {Held'} \subseteq Chosen'
      BY <3>1, <3>3
    <3>5. QED
      BY <3>2, <3>4 DEF Single
  <2>2. CASE At' \notin {"created_pause", "resuming_pause"}
    <3>1. At \notin {"created", "created_pause"}
      BY <1>8, <2>2 DEF GoesOn
    <3>2. QED
      BY <1>4, <1>8, <2>2, <3>1, CalmSingle DEF GoesOn, Quiet
  <2>3. QED
    BY <2>1, <2>2
<1>9. CASE Writes
  <2>1. At # "idle" /\ row'[Held].status = "active" => row[Held].status = "active"
    BY <1>1, <1>9 DEF Writes, Holding
  <2>2. Calms
    BY <1>1, <1>9, <2>1 DEF Writes, Calms
  <2>3. QED
    BY <1>9, <2>2, CalmSingle DEF Writes
<1>10. CASE PausesChosen
  BY <1>10, SinglePause DEF PausesChosen, Single
<1>11. CASE Updates
  <2>1. \A r \in Readers : ActiveToday(r)' \ forced' \subseteq ActiveToday(r) \ forced
    BY <1>1, <1>11 DEF Updates, ActiveToday
  <2>2. At = "update" /\ At' = "idle"
    BY <1>11 DEF Updates
  <2>3. QED
    BY <2>1, <2>2 DEF Single
<1>12. QED
  BY <1>2, <1>3, <1>5, <1>6, <1>7, <1>8, <1>9, <1>10, <1>11, Moves DEF Loses, Rests

\* While handlers neither overlap nor die a reader has at most one active batch of today,
\* beside those whose status a client has changed by a PATCH: to create or resume one pauses
\* all the others (create, batches.py resume), a PATCH pauses none.
THEOREM OneActive ==
    ASSUME OneAtATime, ~MayFail
    PROVE  Spec => []OneActivePerReader
<1>1. Init => Single
  BY DEF Init, Single, ActiveToday, At
<1>2. SequentialInv /\ Single /\ [Next]_vars => Single'
  BY SingleSteps
<1>3. SequentialInv /\ Single => OneActivePerReader
  <2>1. SUFFICES ASSUME SequentialInv, Single, AllIdle, NEW r \in Readers
                 PROVE  Cardinality(ActiveToday(r) \ forced) <= 1
    BY DEF OneActivePerReader
  <2>2. At = "idle"
    BY <2>1 DEF AllIdle, OneAtATime, At
  <2>3. \A a, b \in ActiveToday(r) \ forced : a = b
    BY <2>1, <2>2 DEF Single
  <2>4. CASE ActiveToday(r) \ forced = {}
    BY <2>4, FS_EmptySet
  <2>5. CASE ActiveToday(r) \ forced # {}
    <3>1. PICK a : ActiveToday(r) \ forced = {a}
      BY <2>3, <2>5
    <3>2. Cardinality({a}) = 1
      BY FS_Singleton
    <3>3. QED
      BY <3>1, <3>2
  <2>6. QED
    BY <2>4, <2>5
<1>4. QED
  BY <1>1, <1>2, <1>3, SequentialSteps, PTL DEF Spec

----------------------------------------------------------------------------
(* The counter of the list *)

LEMMA TotalIsNat ==
    ASSUME OneAtATime, TypeOK, NEW b \in Ids, IsFiniteSet(members[b])
    PROVE  Cardinality(members[b]) \in Nat /\ orphans[b] \in Nat /\ Total(b) \in Nat
<1>1. Cardinality(members[b]) \in Nat
  BY FS_CardinalityType
<1>2. orphans[b] \in Nat
  BY HandlerTypes
<1>3. QED
  BY <1>1, <1>2 DEF Total

\* A balloon that is deleted moves from the list to those counted for good.
LEMMA LoseTotal ==
    ASSUME OneAtATime, TypeOK, Counted, NEW n \in Balloons, Loses(n), NEW b \in Ids
    PROVE  /\ IsFiniteSet(members'[b])
           /\ b \in live => Total(b)' = Total(b)
<1>1. IsFiniteSet(members[b])
  BY DEF Counted
<1>2. members'[b] = members[b] \ {n}
      /\ orphans'[b] = IF b \in live /\ n \in members[b] THEN orphans[b] + 1 ELSE orphans[b]
  BY DEF Loses
<1>3. /\ IsFiniteSet(members[b] \ {n})
      /\ Cardinality(members[b] \ {n}) =
            IF n \in members[b] THEN Cardinality(members[b]) - 1 ELSE Cardinality(members[b])
  BY <1>1, FS_RemoveElement
<1>4. Cardinality(members[b]) \in Nat /\ orphans[b] \in Nat
  BY <1>1, TotalIsNat
<1>5. QED
  BY <1>2, <1>3, <1>4 DEF Total

LEMMA CountedLoss ==
    ASSUME OneAtATime, SequentialInv, Counted, NEW n \in Balloons, Loses(n)
    PROVE  Counted'
<1>1. TypeOK /\ Holding /\ live \subseteq Ids
  BY HandlerTypes DEF SequentialInv
<1>2. /\ At' = At /\ Held' = Held /\ Mine' = Mine /\ Tags' = Tags /\ live' = live /\ row' = row
      /\ At \in Editing => n \notin Tags
  BY DEF Loses, local, At, Held, Mine, Tags
<1>3. \A b \in Ids : /\ IsFiniteSet(members'[b])
                     /\ b \in live => Total(b)' = Total(b)
  BY <1>1, LoseTotal
<1>4. \A b \in Ids \ live : members'[b] = {} /\ orphans'[b] = 0
  BY DEF Loses, Counted
<1>5. \A b \in live' : row'[b].amount_of_rfid = Total(b)' \/ (b = Held' /\ At' = "save")
  BY <1>1, <1>2, <1>3 DEF Counted
<1>6. At # "idle" => /\ Held \in live /\ Held \in Ids
                     /\ Total(Held)' = Total(Held)
                     /\ members'[Held] = members[Held] \ {n}
  <2>1. SUFFICES ASSUME At # "idle"
                 PROVE  /\ Held \in live /\ Held \in Ids
                        /\ Total(Held)' = Total(Held)
                        /\ members'[Held] = members[Held] \ {n}
    OBVIOUS
  <2>2. PICK h : h = Held
    OBVIOUS
  <2>3. h \in live /\ h \in Ids
    BY <1>1, <2>1, <2>2 DEF Holding
  <2>4. Total(h)' = Total(h) /\ members'[h] = members[h] \ {n}
    BY <1>3, <2>3 DEF Loses
  <2>5. Held' = h
    BY <1>2, <2>2
  <2>6. Total(Held)' = Total(h)'
    BY <2>5 DEF Total
  <2>7. QED
    BY <2>2, <2>3, <2>4, <2>6
<1>7. At' # "idle" => Mine'.amount_of_rfid = Total(Held)'
  BY <1>2, <1>6 DEF Counted
<1>8. /\ At' \in Editing => \E m \in Balloons : Tags' = {m}
      /\ At' = "insert" => Tags' \intersect members'[Held'] = {}
      /\ At' = "erase" => Tags' \subseteq members'[Held']
  BY <1>2, <1>6 DEF Counted, Editing
<1>9. QED
  BY <1>2, <1>3, <1>4, <1>5, <1>7, <1>8 DEF Counted

\* The list and the count of the instance change together.
LEMMA ListTotal ==
    ASSUME OneAtATime, SequentialInv, Counted, Lists
    PROVE  /\ IsFiniteSet(members'[Held])
           /\ Mine'.amount_of_rfid = Cardinality(members'[Held]) + orphans[Held]
<1>1. TypeOK /\ Held \in live /\ Held \in Ids /\ At # "idle"
  BY HandlerTypes DEF SequentialInv, Holding, Lists
<1>2. At \in Editing /\ Mine.amount_of_rfid = Total(Held) /\ IsFiniteSet(members[Held])
  BY <1>1 DEF Lists, Editing, Counted
<1>3. PICK n \in Balloons : Tags = {n}
  BY <1>2 DEF Counted
<1>4. Cardinality(members[Held]) \in Nat /\ orphans[Held] \in Nat
  BY <1>1, <1>2, TotalIsNat
<1>5. CASE At = "insert"
  <2>1. /\ members'[Held] = members[Held] \union {n}
        /\ Mine'.amount_of_rfid = Mine.amount_of_rfid + 1
    BY <1>3, <1>5 DEF Lists
  <2>2. n \notin members[Held]
    BY <1>3, <1>5 DEF Counted
  <2>3. /\ IsFiniteSet(members[Held] \union {n})
        /\ Cardinality(members[Held] \union {n}) = Cardinality(members[Held]) + 1
    BY <1>2, <2>2, FS_AddElement
  <2>4. QED
    BY <1>2, <1>4, <2>1, <2>3 DEF Total
<1>6. CASE At = "erase"
  <2>1. /\ members'[Held] = members[Held] \ {n}
        /\ Mine'.amount_of_rfid = IF Mine.amount_of_rfid > 0 THEN Mine.amount_of_rfid - 1 ELSE 0
    BY <1>3, <1>6 DEF Lists
  <2>2. n \in members[Held]
    BY <1>3, <1>6 DEF Counted
  <2>3. /\ IsFiniteSet(members[Held] \ {n})
        /\ Cardinality(members[Held] \ {n}) = Cardinality(members[Held]) - 1
    BY <1>2, <2>2, FS_RemoveElement
  <2>4. Cardinality(members[Held] \ {n}) \in Nat
    BY <2>3, FS_CardinalityType
  <2>5. QED
    BY <1>2, <1>4, <2>1, <2>3, <2>4 DEF Total
<1>7. QED
  BY <1>5, <1>6 DEF Lists

LEMMA CountedLists ==
    ASSUME OneAtATime, SequentialInv, Counted, Lists
    PROVE  Counted'
<1>1. TypeOK /\ Held \in live /\ Held \in Ids /\ live \subseteq Ids
  BY HandlerTypes DEF SequentialInv, Holding, Lists
<1>2. /\ At \in {"insert", "erase"} /\ At' = "save" /\ Held' = Held /\ live' = live /\ row' = row
      /\ orphans' = orphans /\ \A b \in Ids \ {Held} : members'[b] = members[b]
  BY DEF Lists
<1>3. IsFiniteSet(members'[Held])
      /\ Mine'.amount_of_rfid = Cardinality(members'[Held]) + orphans[Held]
  BY ListTotal
<1>4. \A b \in Ids : IsFiniteSet(members'[b])
  BY <1>2, <1>3 DEF Counted
<1>5. \A b \in Ids \ live' : members'[b] = {} /\ orphans'[b] = 0
  BY <1>1, <1>2 DEF Counted
<1>6. \A b \in live' : row'[b].amount_of_rfid = Total(b)' \/ (b = Held' /\ At' = "save")
  BY <1>1, <1>2 DEF Counted, Total
<1>7. Mine'.amount_of_rfid = Total(Held)'
  BY <1>2, <1>3 DEF Total
<1>8. QED
  BY <1>2, <1>4, <1>5, <1>6, <1>7 DEF Counted, Editing

\* Steps that leave the lists alone: what remains to be shown of the counters.
LEMMA CountedSameLists ==
    ASSUME Counted, live \subseteq Ids, UNCHANGED <<live, members, orphans>>,
           \A b \in live : row'[b].amount_of_rfid = Total(b),
           At' # "idle" => Held' \in live /\ Mine'.amount_of_rfid = Total(Held'),
           At' \in Editing => \E n \in Balloons : Tags' = {n},
           At' = "insert" => Tags' \intersect members[Held'] = {},
           At' = "erase" => Tags' \subseteq members[Held']
    PROVE  Counted'
<1>1. \A b : Total(b)' = Total(b)
  BY DEF Total
<1>2. Total(Held)' = Cardinality(members[Held']) + orphans[Held']
  BY DEF Total
<1>3. /\ \A b \in Ids : IsFiniteSet(members'[b])
      /\ \A b \in Ids \ live' : members'[b] = {} /\ orphans'[b] = 0
  BY DEF Counted
<1>4. At' # "idle" => Mine'.amount_of_rfid = Total(Held)'
  BY <1>2 DEF Total
<1>5. \A b \in live' : row'[b].amount_of_rfid = Total(b)' \/ (b = Held' /\ At' = "save")
  BY <1>1
<1>6. QED
  BY <1>3, <1>4, <1>5 DEF Counted

LEMMA CountedSteps ==
    ASSUME OneAtATime, PlainCounts, ~MayFail, SequentialInv, Counted, [Next]_vars
    PROVE  Counted'
<1>1. TypeOK /\ Holding /\ live \subseteq Ids
  BY HandlerTypes DEF SequentialInv
<1>2. At # "idle" => /\ Held \in live /\ Held \in Ids
                     /\ Mine.amount_of_rfid = Total(Held)
  BY <1>1 DEF Holding, Counted
<1>3. At # "save" => \A b \in live : row[b].amount_of_rfid = Total(b)
  BY DEF Counted
<1>4. ASSUME NEW b \in Ids, Begins(b) PROVE Counted'
  <2>1. /\ b \in live /\ Held' = b /\ At = "idle" /\ UNCHANGED <<live, row, members, orphans>>
        /\ Mine'.amount_of_rfid = row[b].amount_of_rfid
        /\ At' \in Editing => \E n \in Balloons : Tags' = {n}
        /\ At' \notin {"insert", "erase"}
    BY <1>4 DEF Begins, Alike, Quiet, Editing
  <2>2. QED
    BY <1>1, <1>3, <2>1, CountedSameLists
<1>5. ASSUME NEW b \in Ids, Creates(b) PROVE Counted'
  <2>1. /\ b \in Ids \ live /\ live' = live \union {b}
        /\ members' = members /\ orphans' = orphans
        /\ At = "idle" /\ row'[b].amount_of_rfid = 0
        /\ At' = "idle" \/ (At' = "created" /\ Held' = b /\ Mine' = row'[b])
        /\ \A c \in live : row'[c] = row[c]
    BY <1>1, <1>5 DEF Creates
  <2>2. \A c : Total(c)' = Total(c)
    BY <2>1 DEF Total
  <2>3. Total(b) = 0
    <3>1. members[b] = {} /\ orphans[b] = 0
      BY <2>1 DEF Counted
    <3>2. Cardinality(members[b]) = 0
      BY <3>1, FS_EmptySet
    <3>3. QED
      BY <3>1, <3>2 DEF Total
  <2>4. \A c \in live' : row'[c].amount_of_rfid = Total(c)'
    BY <1>3, <2>1, <2>2, <2>3
  <2>5. At' # "idle" => Total(Held)' = 0
    BY <2>1, <2>3 DEF Total
  <2>6. QED
    BY <2>1, <2>4, <2>5 DEF Counted, Editing
<1>6. ASSUME NEW b \in Ids, Deletes(b) PROVE Counted'
  <2>1. /\ live' = live \ {b} /\ members'[b] = {} /\ orphans'[b] = 0
        /\ At = "idle" /\ At' = "idle"
        /\ \A c \in Ids \ {b} : row'[c] = row[c] /\ members'[c] = members[c] /\ orphans'[c] = orphans[c]
    BY <1>6 DEF Deletes
  <2>2. \A c \in live' : row'[c].amount_of_rfid = Total(c)'
    BY <1>1, <1>3, <2>1 DEF Total
  <2>3. \A c \in Ids : IsFiniteSet(members'[c])
    BY <2>1, FS_EmptySet DEF Counted
  <2>4. \A c \in Ids \ live' : members'[c] = {} /\ orphans'[c] = 0
    BY <2>1 DEF Counted
  <2>5. QED
    BY <2>1, <2>2, <2>3, <2>4 DEF Counted, Editing
<1>7. ASSUME UNCHANGED <<live, row, members, orphans, local>> PROVE Counted'
  <2>1. At' = At /\ Held' = Held /\ Mine' = Mine /\ Tags' = Tags
    BY <1>7 DEF local, At, Held, Mine, Tags
  <2>2. \A b : Total(b)' = Total(b)
    BY <1>7 DEF Total
  <2>3. Total(Held)' = Total(Held)
    BY <1>7, <2>1 DEF Total
  <2>4. QED
    BY <1>7, <2>1, <2>2, <2>3 DEF Counted
<1>8. CASE Stops
  BY <1>1, <1>3, <1>8, CountedSameLists DEF Stops, Quiet, Editing
<1>9. CASE GoesOn
  <2>1. /\ At # "idle" /\ At # "save" /\ Held' = Held
        /\ UNCHANGED <<live, row, members, orphans>>
    BY <1>9 DEF GoesOn, Quiet
  <2>2. Mine'.amount_of_rfid = Total(Held)
    BY <1>2, <1>3, <1>9, <2>1 DEF GoesOn
  <2>3. At' \in Editing => /\ At \in Editing /\ Tags' = Tags
                           /\ \/ At' = "insert" /\ ~(Tags \subseteq members[Held])
                              \/ At' = "erase" /\ Tags \subseteq members[Held]
    BY <1>9 DEF GoesOn, Editing
  <2>4. At' \in Editing => \E n \in Balloons : Tags' = {n}
    BY <2>3 DEF Counted
  <2>5. /\ At' = "insert" => Tags' \intersect members[Held'] = {}
        /\ At' = "erase" => Tags' \subseteq members[Held']
    BY <2>1, <2>3, <2>4 DEF Editing
  <2>6. QED
    BY <1>1, <1>2, <1>3, <2>1, <2>2, <2>4, <2>5, CountedSameLists
<1>10. CASE Sends \/ ClosesTtn
  <2>1. /\ At \notin {"idle", "save"} /\ Held' = Held /\ Mine' = Mine
        /\ UNCHANGED <<live, row, members, orphans>>
        /\ At' \notin Editing
    BY <1>10 DEF Sends, ClosesTtn, Editing
  <2>2. QED
    BY <1>1, <1>2, <1>3, <2>1, CountedSameLists DEF Editing
<1>11. CASE Writes
  <2>1. /\ At # "idle" /\ At' \notin Editing /\ UNCHANGED <<live, members, orphans>>
        /\ At' # "idle" => Held' = Held /\ Mine'.amount_of_rfid = Mine.amount_of_rfid
        /\ \A b \in Ids \ {Held} : row'[b] = row[b]
    BY <1>11 DEF Writes, Editing
  <2>2. row'[Held].amount_of_rfid = Total(Held)
    BY <1>2, <1>3, <1>11, <2>1 DEF Writes
  <2>3. \A b \in live : row'[b].amount_of_rfid = Total(b)
    BY <1>1, <2>1, <2>2 DEF Counted
  <2>4. QED
    BY <1>1, <1>2, <2>1, <2>3, CountedSameLists DEF Editing
<1>12. CASE PausesChosen
  BY <1>1, <1>3, <1>12, CountedSameLists DEF PausesChosen, Editing
<1>13. CASE Updates
  <2>1. /\ At = "update" /\ At' = "idle" /\ UNCHANGED <<live, members, orphans>>
        /\ \A b \in Ids \ {Held} : row'[b] = row[b]
        /\ row'[Held].amount_of_rfid = Mine.amount_of_rfid
    BY <1>13 DEF Updates
  <2>2. \A b \in live : row'[b].amount_of_rfid = Total(b)
    BY <1>1, <1>2, <1>3, <2>1
  <2>3. QED
    BY <1>1, <2>1, <2>2, CountedSameLists DEF Editing
<1>14. QED
  BY <1>4, <1>5, <1>6, <1>7, <1>8, <1>9, <1>10, <1>11, <1>12, <1>13, CountedLoss, CountedLists, Moves
     DEF DayEnds, Rests

\* While handlers neither overlap nor die the counter that decides whether a batch may be
\* closed is the size of its list and the balloons deleted from it (add_balloon,
\* remove_balloon: the list first, the counter by a later save).
THEOREM CounterMatches ==
    ASSUME OneAtATime, PlainCounts, ~MayFail
    PROVE  Spec => []CounterMatchesList
<1>1. Init => Counted
  <2>1. SUFFICES ASSUME Init PROVE Counted
    OBVIOUS
  <2>2. IsFiniteSet({})
    BY FS_EmptySet
  <2>3. \A b \in Ids : members[b] = {} /\ orphans[b] = 0
    BY <2>1 DEF Init
  <2>4. At = "idle" /\ live = {}
    BY <2>1 DEF Init, At
  <2>5. QED
    BY <2>2, <2>3, <2>4 DEF Counted, Editing
<1>2. SequentialInv /\ Counted /\ [Next]_vars => Counted'
  BY CountedSteps
<1>3. Counted => CounterMatchesList
  <2>1. SUFFICES ASSUME Counted, AllIdle, NEW b \in live
                 PROVE  row[b].amount_of_rfid = Total(b)
    BY DEF CounterMatchesList, Total
  <2>2. At = "idle"
    BY <2>1 DEF AllIdle, OneAtATime, At
  <2>3. QED
    BY <2>1, <2>2 DEF Counted
<1>4. QED
  BY <1>1, <1>2, <1>3, SequentialSteps, PTL DEF Spec

----------------------------------------------------------------------------
(* The statuses are told before the waybill is closed *)

\* Steps that leave the lists and what was told alone: what remains to be shown.
LEMMA ReportedSame ==
    ASSUME Reported, live' \subseteq live, UNCHANGED <<members, accepted, reader>>,
           forced \subseteq forced',
           \A b \in live' \ forced' : row'[b].miriada_balloons_sent =>
              /\ Told(b)
              /\ \/ row'[b].status \in {"miriada_error", "completed"}
                 \/ b = Held' /\ At' \in {"ttn", "complete", "fail"},
           At' = "send" => members[Held'] \subseteq Tags',
           At' = "flag" => Told(Held'),
           At' = "ttn" /\ reader[Held'] \in BATCH_STATUS_READERS /\ Held' \notin forced =>
              Told(Held')
    PROVE  Reported'
<1>1. \A b : Told(b)' = Told(b)
  BY DEF Told
<1>2. Told(Held)' = (members[Held'] \subseteq accepted[Held'])
  BY DEF Told
<1>3. /\ At' = "flag" => Told(Held)'
      /\ At' = "ttn" /\ reader'[Held'] \in BATCH_STATUS_READERS /\ Held' \notin forced' => Told(Held)'
  BY <1>2 DEF Told
<1>4. QED
  BY <1>1, <1>3 DEF Reported

\* Of the batches that have the flag, the one in progress is past editing.
LEMMA SentEarlier ==
    ASSUME Reported, NEW b \in live \ forced, row[b].miriada_balloons_sent,
           b # Held \/ At \notin {"ttn", "complete", "fail"}
    PROVE  Told(b) /\ row[b].status \in {"miriada_error", "completed"}
BY DEF Reported

LEMMA ReportedWrites ==
    ASSUME OneAtATime, SequentialInv, Reported, Writes
    PROVE  Reported'
<1>1. Holding /\ Held \in live /\ live \subseteq Ids /\ At # "idle"
  BY HandlerTypes DEF SequentialInv, Holding, Writes
<1>2. /\ live' = live /\ UNCHANGED <<members, accepted, reader>>
      /\ forced' = forced /\ At' \notin {"send", "flag"} /\ \A b \in Ids \ {Held} : row'[b] = row[b]
  BY DEF Writes
<1>3. At' = "ttn" => Held' = Held /\ Told(Held)
  BY DEF Writes, Reported
<1>4. ASSUME NEW b \in live \ forced, b # Held, row'[b].miriada_balloons_sent
      PROVE  Told(b) /\ row'[b].status \in {"miriada_error", "completed"}
  BY <1>1, <1>2, <1>4, SentEarlier
<1>5. ASSUME Held \notin forced, row'[Held].miriada_balloons_sent
      PROVE  /\ Told(Held)
             /\ \/ row'[Held].status \in {"miriada_error", "completed"}
                \/ Held = Held' /\ At' \in {"ttn", "complete", "fail"}
  <2>1. CASE At = "flag"
    BY <1>3, <2>1 DEF Writes
  <2>2. CASE At \in {"save", "presave"}
    <3>1. row[Held].miriada_balloons_sent /\ row'[Held].status = row[Held].status
      BY <1>1, <1>5, <2>2 DEF Writes, Holding
    <3>2. QED
      BY <1>1, <1>5, <2>2, <3>1, SentEarlier
  <2>3. CASE At = "pausing"
    <3>1. row[Held].miriada_balloons_sent /\ row[Held].status = "active"
      BY <1>1, <1>5, <2>3 DEF Writes, Holding
    <3>2. QED
      BY <1>1, <1>5, <2>3, <3>1, SentEarlier
  <2>4. CASE At \in {"complete", "fail"}
    <3>1. row[Held].miriada_balloons_sent /\ row'[Held].status \in {"miriada_error", "completed"}
      BY <1>5, <2>4 DEF Writes
    <3>2. QED
      BY <1>1, <1>5, <3>1 DEF Reported
  <2>5. QED
    BY <2>1, <2>2, <2>3, <2>4 DEF Writes
<1>6. \A b \in live' \ forced' : row'[b].miriada_balloons_sent =>
         /\ Told(b)
         /\ \/ row'[b].status \in {"miriada_error", "completed"}
            \/ b = Held' /\ At' \in {"ttn", "complete", "fail"}
  BY <1>2, <1>4, <1>5
<1>7. QED
  BY <1>2, <1>3, <1>6, ReportedSame

\* The list of a batch may change, or get shorter, while nothing is being told.
LEMMA ReportedLists ==
    ASSUME OneAtATime, SequentialInv, Reported, Lists
    PROVE  Reported'
<1>1. /\ Held \in live /\ row[Held].status \in {"active", "paused"} /\ live \subseteq Ids
      /\ At \notin {"ttn", "complete", "fail"}
  BY HandlerTypes DEF SequentialInv, Holding, Lists, Editing
<1>2. /\ At' = "save" /\ live' = live /\ row' = row /\ accepted' = accepted /\ forced' = forced
      /\ \A b \in Ids \ {Held} : members'[b] = members[b]
  BY DEF Lists
<1>3. ASSUME NEW b \in live' \ forced', row'[b].miriada_balloons_sent
      PROVE  Told(b)' /\ row'[b].status \in {"miriada_error", "completed"}
  <2>1. Told(b) /\ row[b].status \in {"miriada_error", "completed"}
    BY <1>1, <1>2, <1>3, SentEarlier
  <2>2. b \in Ids \ {Held}
    BY <1>1, <1>2, <2>1
  <2>3. QED
    BY <1>2, <2>1, <2>2 DEF Told
<1>4. QED
  BY <1>2, <1>3 DEF Reported

LEMMA ReportedLoss ==
    ASSUME OneAtATime, SequentialInv, Reported, NEW n \in Balloons, Loses(n)
    PROVE  Reported'
<1>1. Holding /\ live \subseteq Ids
  BY HandlerTypes DEF SequentialInv
<1>2. /\ At' = At /\ Held' = Held /\ Tags' = Tags
      /\ live' = live /\ row' = row /\ accepted' = accepted /\ reader' = reader /\ forced' = forced
      /\ \A b \in Ids : members'[b] \subseteq members[b]
  BY DEF Loses, local, At, Held, Tags
<1>3. \A b \in Ids : Told(b) => Told(b)'
  BY <1>2 DEF Told
<1>4. At # "idle" => Held \in Ids
  BY <1>1 DEF Holding
<1>5. At # "idle" /\ Told(Held) => members'[Held'] \subseteq accepted'[Held']
  BY <1>2, <1>4 DEF Told
<1>6. At' = "send" => members'[Held'] \subseteq Tags'
  BY <1>2, <1>4 DEF Reported
<1>7. /\ At' = "flag" => Told(Held)'
      /\ At' = "ttn" /\ reader'[Held'] \in BATCH_STATUS_READERS /\ Held' \notin forced' => Told(Held)'
  BY <1>2, <1>5 DEF Reported, Told
<1>8. \A b \in live' \ forced' : row'[b].miriada_balloons_sent =>
          /\ Told(b)'
          /\ \/ row'[b].status \in {"miriada_error", "completed"}
             \/ b = Held' /\ At' \in {"ttn", "complete", "fail"}
  BY <1>1, <1>2, <1>3 DEF Reported
<1>9. QED
  BY <1>6, <1>7, <1>8 DEF Reported

LEMMA ReportedSends ==
    ASSUME OneAtATime, SequentialInv, Reported, Sends
    PROVE  Reported'
<1>1. Held \in live /\ live \subseteq Ids
  BY HandlerTypes DEF SequentialInv, Holding, Sends
<1>2. /\ At = "send" /\ Held' = Held /\ At' \in {"flag", "fail"}
      /\ UNCHANGED <<live, row, members, forced>>
      /\ accepted[Held] \subseteq accepted'[Held]
      /\ \A b \in Ids \ {Held} : accepted'[b] = accepted[b]
      /\ At' = "flag" => Tags \subseteq accepted'[Held]
  BY DEF Sends
<1>3. \A b \in live : Told(b) => Told(b)'
  BY <1>1, <1>2 DEF Told
<1>4. \A b \in live' \ forced' : row'[b].miriada_balloons_sent =>
          Told(b)' /\ row'[b].status \in {"miriada_error", "completed"}
  BY <1>2, <1>3 DEF Reported
<1>5. At' = "flag" => Told(Held)'
  BY <1>2 DEF Reported, Told
<1>6. QED
  BY <1>2, <1>4, <1>5 DEF Reported

LEMMA ReportedSteps ==
    ASSUME OneAtATime, ~MayFail, SequentialInv, Reported, [Next]_vars
    PROVE  Reported'
<1>1. Holding /\ live \subseteq Ids
  BY HandlerTypes DEF SequentialInv
<1>2. ASSUME NEW b \in Ids, Begins(b) PROVE Reported'
  BY <1>2, SentEarlier, ReportedSame DEF Begins, Quiet
<1>3. ASSUME NEW b \in Ids, Creates(b) PROVE Reported'
  <2>1. /\ live' = live \union {b} /\ UNCHANGED <<members, accepted, forced>>
        /\ At = "idle" /\ At' \in {"created", "idle"} /\ ~row'[b].miriada_balloons_sent
        /\ \A c \in live : row'[c] = row[c]
    BY <1>1, <1>3 DEF Creates
  <2>2. \A c \in live' \ forced' : row'[c].miriada_balloons_sent =>
            Told(c)' /\ row'[c].status \in {"miriada_error", "completed"}
    BY <2>1 DEF Reported, Told
  <2>3. QED
    BY <2>1, <2>2 DEF Reported
<1>4. ASSUME NEW b \in Ids, Deletes(b) PROVE Reported'
  <2>1. /\ live' = live \ {b} /\ UNCHANGED <<accepted, forced>> /\ At = "idle" /\ At' = "idle"
        /\ \A c \in live' : c \in live /\ row'[c] = row[c] /\ members'[c] = members[c]
    BY <1>1, <1>4 DEF Deletes
  <2>2. \A c \in live' \ forced' : row'[c].miriada_balloons_sent =>
            Told(c)' /\ row'[c].status \in {"miriada_error", "completed"}
    BY <2>1 DEF Reported, Told
  <2>3. QED
    BY <2>1, <2>2 DEF Reported
<1>5. ASSUME UNCHANGED <<live, row, reader, members, accepted, forced, local>> PROVE Reported'
  <2>1. At' = At /\ Held' = Held /\ Tags' = Tags
    BY <1>5 DEF local, At, Held, Tags
  <2>2. QED
    BY <1>5, <2>1, ReportedSame DEF Reported
<1>6. CASE Stops
  BY <1>6, SentEarlier, ReportedSame DEF Stops, Quiet
<1>7. CASE GoesOn
  <2>1. /\ Held \in live /\ Held' = Held /\ At \notin {"send", "flag", "ttn", "complete", "fail"}
        /\ UNCHANGED <<live, row, reader, members, accepted, forced>>
    BY <1>1, <1>7 DEF GoesOn, Quiet, Holding
  <2>2. \A b \in live \ forced : row[b].miriada_balloons_sent =>
            Told(b) /\ row[b].status \in {"miriada_error", "completed"}
    BY <2>1, SentEarlier
  <2>3. At' = "ttn" => row[Held].miriada_balloons_sent \/ reader[Held] \notin BATCH_STATUS_READERS
    BY <1>1, <1>7 DEF GoesOn, Holding
  <2>4. At' = "send" => members[Held] \subseteq Tags'
    BY <1>7 DEF GoesOn
  <2>5. At' = "flag" => Told(Held)
    BY <1>7 DEF GoesOn, Told
  <2>6. QED
    BY <2>1, <2>2, <2>3, <2>4, <2>5, ReportedSame
<1>8. CASE ClosesTtn
  BY <1>8, ReportedSame DEF ClosesTtn, Reported
<1>9. CASE PausesChosen
  <2>1. /\ At' = "idle" /\ At \notin {"ttn", "complete", "fail"}
        /\ UNCHANGED <<live, members, accepted, reader, forced>>
    BY <1>9 DEF PausesChosen
  <2>2. \A b \in live \ forced : row'[b].miriada_balloons_sent =>
            Told(b) /\ row'[b].status \in {"miriada_error", "completed"}
    <3>1. SUFFICES ASSUME NEW b \in live \ forced, row'[b].miriada_balloons_sent
                   PROVE  Told(b) /\ row'[b].status \in {"miriada_error", "completed"}
      OBVIOUS
    <3>2. row[b].miriada_balloons_sent
      BY <1>1, <1>9, <3>1 DEF PausesChosen
    <3>3. Told(b) /\ row[b].status \in {"miriada_error", "completed"}
      BY <2>1, <3>2, SentEarlier
    <3>4. QED
      BY <1>1, <1>9, <3>3 DEF PausesChosen, Holding
  <2>3. QED
    BY <2>1, <2>2, ReportedSame
<1>10. CASE Updates
  <2>1. /\ At = "update" /\ At' = "idle" /\ UNCHANGED <<live, members, accepted, reader>>
        /\ \A b \in Ids \ {Held} : row'[b] = row[b]
        /\ forced \subseteq forced'
    BY <1>10 DEF Updates
  <2>2. row'[Held].miriada_balloons_sent = row[Held].miriada_balloons_sent
        /\ (row'[Held].status = row[Held].status \/ Held \in forced')
    BY <1>1, <1>10, <2>1 DEF Updates, Holding
  <2>3. \A b \in live \ forced' : row'[b].miriada_balloons_sent =>
            Told(b) /\ row'[b].status \in {"miriada_error", "completed"}
    <3>1. SUFFICES ASSUME NEW b \in live \ forced', row'[b].miriada_balloons_sent
                   PROVE  Told(b) /\ row'[b].status \in {"miriada_error", "completed"}
      OBVIOUS
    <3>2. row[b].miriada_balloons_sent /\ row'[b].status = row[b].status /\ b \notin forced
      BY <1>1, <2>1, <2>2, <3>1
    <3>3. QED
      BY <2>1, <3>2, SentEarlier
  <2>4. QED
    BY <2>1, <2>3, ReportedSame
<1>11. QED
  BY <1>2, <1>3, <1>4, <1>5, <1>6, <1>7, <1>8, <1>9, <1>10,
     ReportedSends, ReportedLists, ReportedWrites, ReportedLoss, Moves
     DEF Rests, DayEnds

\* While handlers neither overlap nor die Miriada is told the status of every balloon of a
\* batch before it closes the waybill (attempt_close_balloons_batch): the flag that spares
\* the sending is never older than the list, unless a client has changed the status by a PATCH.
THEOREM StatusesBeforeTtn ==
    ASSUME OneAtATime, ~MayFail
    PROVE  Spec => AllStatusesBeforeTtn
<1>1. Init => Reported
  BY DEF Init, Reported, At
<1>2. SequentialInv /\ Reported /\ [Next]_vars => Reported'
  BY ReportedSteps
<1>3. ASSUME SequentialInv, Reported, [Next]_vars, NEW b \in ttnClosed' \ (ttnClosed \union forced),
             reader[b] \in BATCH_STATUS_READERS
      PROVE  members[b] \subseteq accepted[b]
  <2>1. ClosesTtn
    BY <1>3, Moves DEF Begins, Creates, Deletes, Loses, DayEnds, Stops, GoesOn, Quiet, Sends,
                       Lists, Writes, Updates, PausesChosen, Rests
  <2>2. b = Held /\ At = "ttn"
    BY <1>3, <2>1 DEF ClosesTtn
  <2>3. Told(Held)
    BY <1>3, <2>2 DEF Reported
  <2>4. QED
    BY <2>2, <2>3 DEF Told
<1>4. SequentialInv /\ Reported /\ [Next]_vars =>
          [\A b \in ttnClosed' \ (ttnClosed \union forced) :
              reader[b] \in BATCH_STATUS_READERS => members[b] \subseteq accepted[b]]_vars
  BY <1>3
<1>5. QED
  BY <1>1, <1>2, <1>4, SequentialSteps, PTL DEF Spec, AllStatusesBeforeTtn
=============================================================================
