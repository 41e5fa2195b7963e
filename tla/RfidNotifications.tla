---------------------------- MODULE RfidNotifications ----------------------------
(***************************************************************************)
(* The server the RFID readers send their events to.  A reader keeps a     *)
(* connection, sends one event - the tags in its field, or the optical     *)
(* sensor - and waits for the acknowledgement; when none comes, it sends   *)
(* the event again on a new connection, while the handler of the old one   *)
(* goes on with its work.  The handlers of all readers give their work,    *)
(* one tag at a time, to the one thread of sync_to_async.                  *)
(***************************************************************************)
EXTENDS Integers, Sequences, FiniteSets, Functions, SequencesExt

CONSTANTS
    Readers,
    FieldSize,    \* balloons that stand in the field of a reader at once
    Traffic,      \* bound: how many balloons, firings of the optical sensor and restarts come,
                  \* and which readers lose their row
    MaxBalloons,  \* bound: balloons that pass a reader
    NeedCache,    \* readers whose passports a carousel waits for (need_cache)
    Immediate,    \* readers whose status Miriada is told at once
    MayFail,      \* TRUE: Miriada, Redis, the database and the lamp may fail
    WINDOW,       \* deque(maxlen=5): of a reader, so that a small one can be checked too
    ATTEMPTS,     \* MIRIADA_REQUEST_RETRIES + 1
    Slots         \* bound: connections of a reader with a handler at work

ASSUME ReaderAssumption ==
    /\ FieldSize \in [Readers -> Nat \ {0}]
    /\ NeedCache \union Immediate \subseteq Readers
ASSUME BoundAssumption ==
    /\ MayFail \in BOOLEAN
    /\ WINDOW \in [Readers -> Nat \ {0}]
    /\ ATTEMPTS \in Nat \ {0}
    /\ MaxBalloons \in Nat
    /\ Traffic \subseteq [balloons : [Readers -> 0 .. MaxBalloons],
                          firings : [Readers -> 0 .. MaxBalloons], restarts : Nat,
                          removals : SUBSET Readers]
    \* A process that starts without the row does not know the reader at all
    /\ \A case \in Traffic : case.restarts = 0 \/ case.removals = {}
    /\ Slots \subseteq Nat \ {0}

VARIABLES
    \* The readers
    passed,    \* the last balloon that entered the field of a reader
    coming,    \* what is still to come
    event,     \* the event a reader has to get acknowledged
    link,      \* its connection: the handler's slot, or NoLink
    sent,      \* the event went out on that connection
    \* The process
    task,      \* where the handler of a connection is
    recent,    \* previous_nfc_tags
    jobs,      \* the work given to the thread, the first in execution
    stage,     \* how far that is
    \* The database, Redis and Miriada
    counted,   \* DailyReaderCounter.add_rfid: how often for each balloon
    queue,     \* reader_<n>_balloon_queue
    informed,  \* balloons whose status reached Miriada
    sensed,    \* firings of the sensor that were counted
    listed,    \* readers that have a row of ReaderSettings
    \* History
    settled,   \* firings of the sensor acknowledged as OK
    restarts

plant == <<passed, coming>>
device == <<event, link, sent>>
process == <<task, recent, jobs, stage>>
data == <<counted, queue, informed, sensed, listed>>
vars == <<plant, device, process, data, settled, restarts>>

NoLink == 0
Handlers == Readers \X Slots
Numbers == 1 .. MaxBalloons
Balloons == Readers \X Numbers
Firings == Readers \X Numbers

NoEvent == [kind |-> "none"]
TagRead(s) == [kind |-> "tags", tags |-> s]
Input(n) == [kind |-> "input", firing |-> n]

Closed == [step |-> "closed"]
Reading == [step |-> "read"]

\* A tag or a firing of a reader, and the handler that waits for it
Job == [kind : {"tag", "input"}, by : Handlers, item : Numbers]
\* How far the thread is; a status goes out in several attempts
Recording == [step |-> "record"]
Pushing == [step |-> "push"]
Attempt(n) == [step |-> "post", attempt |-> n]
Stages == {Recording, Pushing} \union {Attempt(n) : n \in 1 .. ATTEMPTS}

----------------------------------------------------------------------------
(* The readers *)

\* The balloons that passed last; which of them are read, and how often, is open
Field(r) == {n \in 1 .. passed[r] : n + FieldSize[r] > passed[r]}

Enter(r) ==
    /\ coming.balloons[r] > 0
    /\ coming' = [coming EXCEPT !.balloons[r] = @ - 1]
    /\ passed' = [passed EXCEPT ![r] = @ + 1]
    /\ UNCHANGED <<device, process, data, settled, restarts>>

\* The tags of a reading, in any order
Readings(r) ==
    UNION {{s \in [1 .. Cardinality(S) -> S] : IsInjective(s)} : S \in SUBSET Field(r) \ {{}}}

ReadTags(r) ==
    /\ event[r] = NoEvent
    /\ \E s \in Readings(r) : event' = [event EXCEPT ![r] = TagRead(s)]
    /\ UNCHANGED <<plant, link, sent, process, data, settled, restarts>>

Fire(r) ==
    /\ event[r] = NoEvent
    /\ coming.firings[r] > 0
    /\ coming' = [coming EXCEPT !.firings[r] = @ - 1]
    /\ event' = [event EXCEPT ![r] = Input(coming.firings[r])]
    /\ UNCHANGED <<passed, link, sent, process, data, settled, restarts>>

\* The row of a reader is deleted, which the process loaded when it started
Unlist(r) ==
    /\ r \in coming.removals
    /\ coming' = [coming EXCEPT !.removals = @ \ {r}]
    /\ listed' = listed \ {r}
    /\ UNCHANGED <<passed, device, process, counted, queue, informed, sensed, settled, restarts>>

\* start_server runs a handler for every connection.  A reader opens one at first, and
\* another when it waited too long for the acknowledgement or the line broke: of which the
\* handler at work knows nothing
Connect(r) ==
    /\ sent[r] \/ link[r] = NoLink
    /\ \E s \in Slots :
        /\ task[<<r, s>>] = Closed
        /\ \A t \in Slots : t < s => task[<<r, t>>] # Closed
        /\ link' = [link EXCEPT ![r] = s]
        /\ task' = [task EXCEPT ![<<r, s>>] = Reading]
    /\ sent' = [sent EXCEPT ![r] = FALSE]
    /\ UNCHANGED <<plant, event, recent, jobs, stage, data, settled, restarts>>

----------------------------------------------------------------------------
(* handle_notification_connection *)

\* Mutant: more than one thread, the last work is begun first
SubmitFirst(kind, h, item) ==
    jobs' = LET job == [kind |-> kind, by |-> h, item |-> item]
            IN  IF jobs = <<>> THEN <<job>> ELSE <<Head(jobs), job>> \o Tail(jobs)

Submit(kind, h, item) == jobs' = Append(jobs, [kind |-> kind, by |-> h, item |-> item])

\* Mutant: a tag is remembered when its processing has ended
RememberLater(r, s, tag) == s

\* Mutant: the deque has no bound
RememberForever(r, s, tag) == Append(s, tag)

\* An append to a deque of bounded length
Remembered(r, s, tag) == IF Len(s) < WINDOW[r] THEN Append(s, tag) ELSE Append(Tail(s), tag)

\* filter_duplicate_tag
Filter(r, acc, tag) ==
    IF Contains(acc.known, tag) THEN acc
    ELSE [known |-> Remembered(r, acc.known, tag), new |-> Append(acc.new, tag)]

\* The tags of an event, one after the other
FilterDuplicates(r, tags) ==
    LET after[i \in 0 .. Len(tags)] ==
            IF i = 0 THEN [known |-> recent[r], new |-> <<>>]
            ELSE Filter(r, after[i - 1], tags[i])
    IN  after[Len(tags)]

Acknowledging(status) == [step |-> "ack", status |-> status]

\* indicate_tag_read: the command connection may refuse, the exception ends the event
Lamp(h) ==
    \E status \in {"ok", "error"} :
        /\ status = "ok" \/ MayFail
        /\ task' = [task EXCEPT ![h] = Acknowledging(status)]

\* The handler submits the next of the tags it has, or sees to the lamp
Proceed(h, tags) ==
    IF tags = <<>>
    THEN Lamp(h) /\ UNCHANGED jobs
    ELSE /\ task' = [task EXCEPT ![h] = [step |-> "await", todo |-> Tail(tags)]]
         /\ Submit("tag", h, Head(tags))

Deliver(r) ==
    /\ link[r] # NoLink
    /\ ~sent[r]
    /\ task[<<r, link[r]>>] = Reading
    /\ sent' = [sent EXCEPT ![r] = TRUE]
    /\ UNCHANGED <<plant, event, link, stage, data, settled, restarts>>

\* process_tag_event up to the first await
DeliverTags(r) ==
    /\ event[r].kind = "tags"
    /\ Deliver(r)
    /\ LET filtered == FilterDuplicates(r, event[r].tags)
       IN  /\ recent' = [recent EXCEPT ![r] = filtered.known]
           /\ Proceed(<<r, link[r]>>, filtered.new)

DeliverInput(r) ==
    /\ event[r].kind = "input"
    /\ Deliver(r)
    /\ task' = [task EXCEPT ![<<r, link[r]>>] = [step |-> "await", todo |-> <<>>]]
    /\ Submit("input", <<r, link[r]>>, event[r].firing)
    /\ UNCHANGED recent

NextTag(h) ==
    /\ task[h].step = "next"
    /\ Proceed(h, task[h].todo)
    /\ UNCHANGED <<plant, device, recent, stage, data, settled, restarts>>

\* The reader gives up an event that was refused, or sends it again
Acknowledge(h) ==
    LET r == h[1]
    IN  /\ task[h].step = "ack"
        /\ link[r] = h[2]
        /\ task' = [task EXCEPT ![h] = Reading]
        /\ sent' = [sent EXCEPT ![r] = FALSE]
        /\ \/ event' = [event EXCEPT ![r] = NoEvent]
           \/ task[h].status = "error" /\ UNCHANGED event
        /\ settled' = IF event[r].kind = "input" /\ task[h].status = "ok"
                      THEN settled \union {<<r, event[r].firing>>} ELSE settled
        /\ UNCHANGED <<plant, link, recent, jobs, stage, data, restarts>>

\* Mutant: writing to a connection that is closed goes unnoticed
WaitForEver(h) == FALSE

\* The handler finds its connection closed when it writes
Hangup(h) ==
    /\ task[h].step = "ack"
    /\ link[h[1]] # h[2]
    /\ task' = [task EXCEPT ![h] = Closed]
    /\ UNCHANGED <<plant, device, recent, jobs, stage, data, settled, restarts>>

----------------------------------------------------------------------------
(* process_balloon_data_sync, in the thread *)

Now(kind, step) == jobs # <<>> /\ Head(jobs).kind = kind /\ stage.step = step

Current == <<Head(jobs).by[1], Head(jobs).item>>
CurrentReader == Head(jobs).by[1]

\* The handler gets the result and goes on with the next tag; after the last one it only
\* sees to the lamp, which needs no step of its own
Return ==
    LET h == Head(jobs).by
    IN  /\ jobs' = Tail(jobs)
        /\ stage' = Recording
        /\ IF task[h].todo = <<>> THEN Lamp(h)
           ELSE task' = [task EXCEPT ![h] = [step |-> "next", todo |-> @.todo]]

\* The event ends with the job
EndEvent(status) ==
    /\ jobs' = Tail(jobs)
    /\ stage' = Recording
    /\ task' = [task EXCEPT ![Head(jobs).by] = Acknowledging(status)]

Advance(step) == stage' = step /\ UNCHANGED <<task, jobs>>

\* should_send_balloon_status_immediately
TellOrReturn ==
    IF CurrentReader \in Immediate THEN Advance(Attempt(1)) ELSE Return

\* Mutant: a tag that could not be processed raises
RaiseError == EndEvent("error")

\* Mutant: the result of processing_request_with_nfc is not looked at
TellAnyway == TellOrReturn

\* processing_request_with_nfc returns None
ReturnError == Return

\* ReaderNotFoundError ends the event: the tags that wait in it stay among the recent ones
MissingReader == EndEvent("error")

\* The row of the reader, then the counters, the passport, the batch - whose errors are
\* swallowed - and the row of the reader table
Record ==
    /\ Now("tag", "record")
    /\ \/ MayFail /\ UNCHANGED counted /\ ReturnError
       \/ CurrentReader \notin listed /\ UNCHANGED counted /\ MissingReader
       \/ /\ CurrentReader \in listed
          /\ counted' = [counted EXCEPT ![Current] = @ + 1]
          /\ \/ IF CurrentReader \in NeedCache THEN Advance(Pushing) ELSE TellOrReturn
             \/ MayFail /\ ReturnError
    /\ UNCHANGED <<plant, device, recent, queue, informed, sensed, listed, settled, restarts>>

\* Redis may have executed a push whose answer is lost
Push ==
    LET pushed == [queue EXCEPT ![CurrentReader] = Append(@, Current[2])]
    IN  /\ Now("tag", "push")
        /\ \/ queue' = pushed /\ TellOrReturn
           \/ MayFail /\ queue' \in {queue, pushed} /\ ReturnError
        /\ UNCHANGED <<plant, device, recent, counted, informed, sensed, listed, settled, restarts>>

\* send_status_to_miriada: so many attempts, each of which may arrive although it fails
Post ==
    /\ Now("tag", "post")
    /\ \/ informed' = informed \union {Current} /\ Return
       \/ /\ MayFail
          /\ informed' \in {informed, informed \union {Current}}
          /\ IF stage.attempt < ATTEMPTS THEN Advance(Attempt(stage.attempt + 1))
             ELSE EndEvent("error")
    /\ UNCHANGED <<plant, device, recent, counted, queue, sensed, listed, settled, restarts>>

\* Mutant: the exception of the sensor is logged and swallowed
SwallowError == EndEvent("ok")

FailedSensor == EndEvent("error")

\* processing_request_without_nfc: the batch may fail after the counter
Sense ==
    /\ Now("input", "record")
    /\ \/ (MayFail \/ CurrentReader \notin listed) /\ UNCHANGED sensed /\ FailedSensor
       \/ /\ CurrentReader \in listed
          /\ sensed' = sensed \union {Current}
          /\ EndEvent("ok") \/ (MayFail /\ FailedSensor)
    /\ UNCHANGED <<plant, device, recent, counted, queue, informed, listed, settled, restarts>>

----------------------------------------------------------------------------

\* The process loses its memory, and every connection
Restart ==
    /\ coming.restarts > 0
    /\ coming' = [coming EXCEPT !.restarts = @ - 1]
    /\ restarts' = restarts + 1
    /\ link' = [r \in Readers |-> NoLink]
    /\ sent' = [r \in Readers |-> FALSE]
    /\ task' = [h \in Handlers |-> Closed]
    /\ recent' = [r \in Readers |-> <<>>]
    /\ jobs' = <<>>
    /\ stage' = Recording
    /\ UNCHANGED <<passed, event, data, settled>>

Init ==
    /\ passed = [r \in Readers |-> 0]
    /\ coming \in Traffic
    /\ event = [r \in Readers |-> NoEvent]
    /\ link = [r \in Readers |-> NoLink]
    /\ sent = [r \in Readers |-> FALSE]
    /\ task = [h \in Handlers |-> Closed]
    /\ recent = [r \in Readers |-> <<>>]
    /\ jobs = <<>>
    /\ stage = Recording
    /\ counted = [b \in Balloons |-> 0]
    /\ queue = [r \in Readers |-> <<>>]
    /\ informed = {}
    /\ sensed = {}
    /\ listed = Readers
    /\ settled = {}
    /\ restarts = 0

Reader(r) ==
    \/ Enter(r) \/ ReadTags(r) \/ Fire(r) \/ Unlist(r) \/ Connect(r)
    \/ DeliverTags(r) \/ DeliverInput(r)

Handler(h) == NextTag(h) \/ Acknowledge(h) \/ Hangup(h)

Worker == Record \/ Push \/ Post \/ Sense

Next ==
    \/ \E r \in Readers : Reader(r)
    \/ \E h \in Handlers : Handler(h)
    \/ Worker \/ Restart

\* The event loop runs a handler that is ready.  The thread goes on: the calls of Miriada have
\* a timeout, and the database and Redis, whose calls have none, answer or fail
Fairness == WF_vars(Worker) /\ \A h \in Handlers : WF_vars(Handler(h))

Spec == Init /\ [][Next]_vars /\ Fairness

----------------------------------------------------------------------------
(* Properties *)

\* The types of the state; a connection belongs to a handler that is not closed, and a
\* handler that waits has one job with the thread.
TypeOK ==
    /\ passed \in [Readers -> 0 .. MaxBalloons]
    /\ \A r \in Readers : passed[r] + coming.balloons[r] <= MaxBalloons
    /\ \A r \in Readers :
        link[r] # NoLink => link[r] \in Slots /\ task[<<r, link[r]>>] # Closed
    /\ sent \in [Readers -> BOOLEAN]
    /\ \A r \in Readers : Len(recent[r]) <= WINDOW[r]
    /\ jobs \in Seq(Job)
    /\ stage \in Stages
    /\ \A h \in Handlers :
        Cardinality({i \in DOMAIN jobs : jobs[i].by = h}) =
            IF task[h].step = "await" THEN 1 ELSE 0
    /\ counted \in [Balloons -> Nat]
    /\ informed \subseteq Balloons
    /\ sensed \union settled \subseteq Firings
    /\ listed \subseteq Readers

\* However often a reader reads or sends the tag of a balloon that stands in its field, the
\* balloon is counted once, and once more for each restart, which forgets the recent tags
\* (filter_duplicate_tag).  While a balloon is in the field, those before it and those
\* behind it must fit in the deque.
CountedOnce ==
    \A b \in Balloons :
        2 * (FieldSize[b[1]] - 1) < WINDOW[b[1]] => counted[b] <= 1 + restarts

\* Where the balloons pass one by one, their passports join the list in the order of the
\* balloons, each once; only a restart may leave the last one there twice.
PassportsInOrder ==
    \A r \in NeedCache : FieldSize[r] = 1 =>
        \A i, j \in 1 .. Len(queue[r]) : i < j =>
            \/ queue[r][i] < queue[r][j]
            \/ queue[r][i] = queue[r][j] /\ restarts > 0

\* Miriada is told that a balloon is being filled only when the carousel has its passport
\* to fill it by (process_balloon_data_sync).
StatusAfterPassport ==
    \A b \in informed : b[1] \in NeedCache => Contains(queue[b[1]], b[2])

\* A firing of the sensor that was acknowledged as OK was counted (process_input_event).
AcknowledgedIsCounted == settled \subseteq sensed

\* Whatever fails, a handler always comes back to reading or ends: no event is stuck behind
\* the work of the other readers, which share the thread.
AlwaysReadsAgain ==
    \A h \in Handlers : []<>(task[h].step \in {"read", "closed"})

\* Every new tag of an event comes to be processed, although tags before it in the event
\* fail (process_tag_event), unless the process restarts or the reader loses its row: it must
\* not stay behind, among the recent tags.  Readers whose statuses are sent at once are left
\* out: there a status that Miriada refuses ends the event.
TagsAreProcessed ==
    \A h \in (Readers \ Immediate) \X Slots : \A n \in Numbers :
        (task[h].step \in {"await", "next"} /\ Contains(task[h].todo, n)) ~>
            \/ restarts > 0 \/ h[1] \notin listed
            \/ jobs # <<>> /\ Head(jobs).by = h /\ Head(jobs).item = n
=============================================================================
