# LidaGNS: a verification project

TLA+ models of the control logic of LidaGNS (`src/GNS`), a Django application that
runs a gas-balloon filling station: RFID readers report balloons that pass, filling
carousels ask what weight to fill to, operators load and unload batches of balloons, and
an external registry (Miriada) is told the status of every balloon and closes the
electronic waybill (TTN) of a batch.

`PROJECT.json` lists the components, the runs with their properties, one mutant of the
model per property, the lines of the source every definition stands for, the hazards and
the theorems. To repeat a run: `tlc -config X.cfg M`; a proof: `tlapm M.tla`.

## The system

| component | state | operations | works with |
|---|---|---|---|
| batches (`filling_station/models.py`, `services/batches.py`, `api/balloon_batches.py`, `views.py`) | table of batches, list of balloons per batch | create, update, add / remove balloon, pause, resume, close, retry, delete; tag and light barrier of a reader | web requests, the RFID process, Miriada |
| RFID services (`services/rfid.py`) | balloons, daily counters, reader table, queue of passports | tag read, balloon without a tag | batches, Miriada, Redis |
| RFID notification server (`rfid_utils/feig_protocol.py`, `models.py`, `feig_frames.py`) | per reader: the last five tags, a command connection | tag event, input event, acknowledgement, lamp | readers, RFID services |
| Miriada client (`services/miriada.py`, `ttn/services.py`) | none (a thread pool while a batch is closed) | read a passport, send a status, close a TTN; three attempts | batches, RFID services |
| queue of passports (`core/redis_queue.py`) | one Redis list per reader, living ten minutes | push, pop | RFID services, carousel listener |
| carousel listener (`carousel/listener`, `carousel/services.py`) | per carousel a connection and a task; the cache of recent requests; table of fillings | FILL and FULL frames, answer, row, reconnect | posts, queue, settings |
| settings cache (`carousel/settings_cache.py`) | per process a store and a revision; in Redis a hash and a revision | load, save, delete, synchronise | web, listener |
| counters (`models.py`) | rows per reader and day, one row of totals | increment, set by hand | RFID services, statistics |
| API of balloons | balloon rows | create, update, change of the tag (deletes the old row) | lists of batches, by cascade |
| transport, mobile, pages | rows | plain requests | |
| vendored JavaScript (`static/`) | none of the system's | Bootstrap, collected assets of the admin and the REST framework | |

Processes: the ASGI web server (every request in a thread of its own), the RFID
notification process (one event loop whose handlers run one after another in one worker
thread), the carousel listener (one event loop, one task per carousel, blocking calls in
threads), Celery (nightly import of TTNs). They share the PostgreSQL database - where
every statement commits by itself, pause and resume of a batch, the storing of a post's
data and the pages of the admin being the only transactions, at READ COMMITTED - and Redis.

What is hard: handlers of two processes that work on the same batch between each other's
statements; whole-row saves of stale instances; a close of many external calls that fails
in the middle or whose answer is lost; FIFO matching of balloons that carry no identity at
the posts; repeated frames; caches whose entries expire while they are needed. `hazards`
in `PROJECT.json` lists these, each at its line.

What makes the parts correct, in short: a batch is completed only when Miriada knows all
of it; at most one batch takes the tags of a reader; counters agree with lists; a balloon
is filled and recorded with its own passport, once; a carousel always comes back; a
process that has synchronised sees the settings last saved; a tag is counted and
reported once per passage; a status reaches Miriada at least once, or the failure shows.

## Modules

| module | what it is |
|---|---|
| `BalloonsBatch` | batches and every handler that works on them |
| `BalloonsBatchProofs` | its types, the failure flag, completed waybills: proved for all interleavings |
| `BatchSequentialProofs` | what holds of requests one at a time, proved |
| `MCBalloonsBatch` | its instances: the request bodies of the runs |
| `PassportLine` | abstract specification: what the queue of passports promises |
| `CarouselListener` | carousels, posts, stream of frames, queue of passports, cache, table of fillings; refines `PassportLine` |
| `CarouselListenerTypes` | its types, proved |
| `CarouselListenerProofs` | the queue of passports, proved: each is used once, and the refinement |
| `CarouselNominalProofs` | without failures and delays, proved: one passport per balloon, weights, recorded answers |
| `CarouselPassportProofs` | without failures and delays, proved: every balloon its own passport |
| `MCCarouselListener` | its instances: readers and arrivals of the runs |
| `RfidNotifications` | readers, connections, handlers, the one thread, counters, queue, Miriada's attempts |
| `RfidNotificationsProofs` | its types, acknowledgements, statuses, counting once, order of the passports: proved |
| `MCRfidNotifications` | its instances: a carousel's reader and a ramp's, four cases of traffic |
| `SettingsCache` | rows of the settings, hash and revision in Redis, the store of each process |
| `SettingsCacheProofs` | its types and the freshness of what the listener reads, proved |
| `MCSettingsCache` | its instances: a web process, a listener with one thread or two |

How they compose. `BalloonsBatch` takes what the RFID server does to a batch as requests of
`RfidThread`; `RfidNotifications` shows how a tag becomes such a request, once per passage.
`RfidNotifications` ends where the passport joins the list, `CarouselListener` begins there:
its `Scan` is a passage, with or without a passport, and `PassportLine` is the contract
between the two. `CarouselListener` uses the settings as given (`Refused`, `ReaderOf`);
`SettingsCache` shows which settings a frame is answered by. The modules are not conjoined:
they share no variable that both sides write between two statements of the other except the
batch's row, which is why reader events are part of `BalloonsBatch`.

### BalloonsBatch

A handler is a thread. Its first action is the request up to and including its first SELECT
(`CreateBatch`: the INSERT); afterwards `pc` names the statement it executes next, `copy`
is the model instance it holds. Every database statement is an action of its own, because
every statement commits by itself. `FullSave` is `Model.save()`: all columns of the
instance, an INSERT when the row is gone. `UpdateColumns` is `save(update_fields=...)`.
`Synced` is the rule of `BalloonsBatch.save` for the failure flag. The `UPDATE ... WHERE`
of pausing others is two actions, the snapshot that chooses the rows and the locking that
evaluates the condition again, as READ COMMITTED does. A close is
`save_and_close_balloons_batch` statement by statement: save of the client's fields,
refresh, count check, list, statuses, flag, TTN, final status. Miriada is two history
variables, `accepted` and `ttnClosed`; it may refuse, and its answer may be lost.
`Abort` is a handler that dies between two statements.
`DeleteBalloon` is the delete page of a balloon and the change of its tag by the API: the
row takes its place in every list with it, and no batch is told. `orphans` counts such
balloons, so that `CounterMatchesList` says exactly what the counter is: the size of the
list, plus the balloons deleted while listed. A batch with one of them is closed or refused
by a number no list shows.

A body may name a status, as `partial_update` allows: unless it asks for a close, `Apply` and
the step `update` write it whatever the state of the batch is (`balloon_batches.py` 498-500).
So one PATCH can reopen a completed batch or make a second batch of a reader active.
`forced` is a history variable: the batches whose status a client has changed so. The
properties say what holds beside them: `LegalTransitions` and `ReactivatedOnRequest` allow
exactly the change such a PATCH itself makes, to the status it names and on the batch it
names; `OneActivePerReader` and `AllStatusesBeforeTtn` leave the batches in `forced` out, and
hold of all others. `MaxForced` bounds them.

Abstracted, and why: volumes, gas amount, times and error texts decide nothing; reader and
TTN are fixed at creation (the API lets a PATCH change them); rejected requests (403, 404,
400 of a wrong body) change nothing and have no action; the thread pool that sends the
statuses is one action, as the statuses of distinct balloons commute and the handler waits
for all; "today" is the set of batches made since midnight; the web form is a `PatchBatch`
without a status, the web retry a case of `RetryClose`; adding by API and by tag share
`add_balloon` and so `StartAdd`. Reader events belong to one thread, `RfidThread`, because
`sync_to_async` runs them one after another in one worker. A balloon is not deleted between
the statements in which another handler looks its tag up in a list and writes it (there the
foreign key refuses the insert, as `InsertBalloon` does for a deleted batch).

### CarouselListener

A task is at one await: `read`, `handle` (inside `request_processing`), `reply`, `store`,
`offline`. `recent` is the cache of recent requests with the ticks an entry has to live;
`inbox` the frames received and not yet read. The posts are external: a post sends FILL
when a balloon is put on it and FULL when it is filled, repeats each within the window the
cache is made for, and no balloon leaves before the window of its FULL frame is over.
Balloons have numbers only for the properties to speak of; a frame is matched by carousel,
type and post, and by what a repetition weighs more (`Drift`), as when all balloons weigh
the same: the worst case for a cache keyed by weight.
`Refused` stands for all reasons to give no answer (passport not ready or incomplete,
settings, ranges), `Oversized` for a weight that `struct.pack('>H')` rejects. `MayFail`
enables broken connections, lost bytes, dropped frames, failing readings at the reader,
failing Redis (having popped or not), a failing database and the expiry of the list at any
moment.

Bytes are not modelled, their loss is: a byte lost on the line sets `shifted`, and from then
on every frame is read out of step and fails its CRC (`DropFrame`) until an incomplete frame
has waited ten seconds in silence (`DropPartialFrame`), which ends the connection. `Drift`
is by how much a repetition may weigh more; the key of the cache holds the weight, so that
a drift makes it another key. The runs have `Drift = {0}`: a repetition with another weight
takes a second passport by design of the key, and TLC shows at once that
`OnePassportPerRequest` then fails. The proofs hold for every `Drift`.

`PassportLine` is the abstract specification of the queue: the balloons that passed, the set
of passports waiting, who was given which; oldest first, each once, none returns. The
refinement mapping (`Line`) takes `scanned`, `taken` and the elements of the lists;
`Scan` maps to `Pass`, `HandleFill` to `Give`, a pop whose answer is lost to `Lose`,
`ExpireQueue` to `Expire`, everything else to a stutter.

### RfidNotifications

A reader holds one event at a time - some of the tags in its field, in any order, or a
firing of the optical sensor - and sends it on its connection (`link`). It opens another
connection when it waited too long or the line broke, and sends the event again; the handler
of the old connection goes on with its work, which `task` shows per connection: reading,
awaiting the thread, about to take the next tag, acknowledging. `recent` is the deque of
`filter_duplicate_tag`, filled before the first await (`DeliverTags`). `jobs` is the queue of
the one thread of `sync_to_async`, shared by all readers; `stage` is how far its first job
is: counters (`Record`), passport into the list (`Push`), status to Miriada (`Post`, one
action per attempt, each of which may arrive although it fails), or the sensor (`Sense`). An
error there is swallowed for a tag (`ReturnError`), ends the event for a status refused to
the end and for a reader without a row in `ReaderSettings` (`MissingReader`:
`ReaderNotFoundError`, `rfid.py` 124-127), and is reported for the sensor; the lamp accepts
or raises (`Lamp`). `Unlist` deletes the row of a reader while the server runs.

`FieldSize` is how many balloons stand in the field of a reader at once, `WINDOW` the
length of the deque (5 in the code; a constant per reader, so that an instance can be small
and still be at its limit), `NeedCache` and `Immediate` the readers of carousels and those
whose statuses go out at once. `Traffic` is a set of cases: how many balloons, firings and
restarts come.

Abstracted: the bytes of the protocol and of its CRC, readers with unknown addresses, tags
with a foreign suffix, the contents of a passport (a reading fails or not), the table of what
was last read and the legacy counters. A change of `need_cache` or of the status of a reader
by the admin page while the server runs is left out, and so is a row deleted in a case with
restarts. The batch, whose errors are swallowed, is `BalloonsBatch`. The
command session is its outcome. A refused event may be given up or sent again. A firing is
one IN1 event. `coming` and `Slots` bound what happens, `restarts` counts.

Behaviour of the code the model knows and no doc of the repository denies, so that it is no
finding: a balloon of a ramp is counted again when it stands in the field while more tags
pass than the deque holds (`feig_protocol.py:154`; hence the premise of `CountedOnce`); with
two tags in an event and a reconnection between, two passports may join the list in the
other order (hence `FieldSize[r] = 1` in `PassportsInOrder`); after a restart the balloon in
the field is counted and queued again; a firing of the sensor that is sent again is counted
again (`sensed` is a set: `AcknowledgedIsCounted` speaks of "at least once"); on an
`Immediate` reader the tags behind one whose status Miriada refused are not processed; the
tags behind one of a reader without a row stay in the deque unprocessed (hence `listed` in
`TagsAreProcessed`); the lamp shows green for a tag read again whose processing had failed.

### SettingsCache

A thread of a web process writes rows; a thread of the listener asks for the settings of a
carousel. A form or a PATCH publishes after its commit (`Save`). Rows are created and
deleted on the admin page alone, which works in a transaction: `AdminSave` and `Delete`
write the row, publish it - the signals are sent inside the transaction - and then `Commit`
it, or `Rollback` (under `MayFail`). `db` is what everybody sees, `written` what the
transactions will have made of it; a row written in an open transaction is `Locked`. `pc`
names the next statement of a thread: a command to Redis, a query, or a section under the
lock of its process (`upsert` takes it, `bump` gives it back; sections without a command to
Redis are one action). `Begin` starts an operation; `Alone` is the set of operations that a
run lets happen only while all other threads are idle, so that each run says for which
overlaps its properties hold. A restart clears the memory of the listener and loads the
rows; no frame is taken before (`main`).

`valid` and `answer` are history: a value may be served from the statement that writes the
row, and is the only one from the moment it is published (while no other thread is
publishing that number); a publication that is lost leaves the older values valid, which is
what the code promises by logging a warning, and a rollback makes the old row valid again.
`FreshRead` compares an answer with all that was valid between the question and the answer.
`StoreSettles` says that the listener's store ends equal to the database: a store that took
over a revision without the change it stands for would stay different for good.

Abstracted: contents of a row are values; a broken entry of the hash cannot arise (the same
code writes it); a failing read of Redis leaves the store as it is. Left out: loss of Redis'
data, a number edited in the form, a form that saves a row deleted since it was loaded.
In no run and no theorem about overlaps, and listed as hazards: two writers, and a creation,
a deletion or a start beside other operations. A deletion removes the row from Redis before
it commits, so that a listener that misses it in between finds it in the database and
publishes it for good (`settings_cache.py` 301); a creation, a start and a second writer can
publish an older row over a newer one. TLC finds `FreshRead` and `StoreSettles` violated with
each of the four.

## Runs

| run | bounds | shows |
|---|---|---|
| `batch_sequential` | 1 handler, 1 reader, 2 batches, 2 tags, 1 deleted balloon per batch; bodies of creation, close and PATCH status 1, which changes the status of 1 batch | One handler at a time: one active batch per reader, counter = list + deleted, statuses before the TTN - these beside a batch whose status a PATCH changed -, legal transitions, a paused batch returns only on request |
| `batch_concurrent` | 2 handlers that may die, 1 batch, 1 tag, 1 light barrier; the close carries a count of tags | No count becomes negative; the failure flag and the waybill agree with the status in every interleaving |
| `batch_close_race` | 2 handlers, 1 batch, 2 tags | Violation: a tag that enters while the batch is closed is never reported |
| `batch_blind_completion` | 1 handler, 1 batch | Violation: PATCH status 3 after a failed close completes without Miriada |
| `batch_pause_race` | 2 handlers, 1 batch, 1 tag | Violation: a whole-row save undoes a pause |
| `carousel_nominal` | 2 carousels and readers, 2 posts each, 2 + 1 balloons, 1 repetition per frame | No failures, no delays: own passport, one passport per balloon, own full weight, answers recorded; every full balloon recorded in the end |
| `carousel_faults` | 2 carousels on one reader, 1 post each, 2 balloons, all failures | A passport is used once; the queue refines `PassportLine`; each task always comes back to reading whole frames |
| `carousel_slow` | 1 carousel, 1 post, 2 balloons, slow handling | Violation: a repetition read late takes a second passport |
| `settings_sequential` | 1 web thread, 1 listener thread, 2 numbers, 2 contents, 4 writes, lost publications, loads and commits | One operation at a time: the listener is served the row or what a lost publication or a rollback left |
| `settings_concurrent` | the same, nothing lost | Saves, published after or before their commit, between the commands of a synchronisation: no answer older than the last publication; the store ends equal to the database |
| `rfid_notifications` | 2 readers (carousel, ramp), 2 connections each, deques of 1 and 3, fields of 1 and 2, 2 attempts; traffic: 2 balloons at the carousel with a firing at the ramp, or with a restart; 2 balloons and a firing at the ramp with a restart; 1 balloon each with a restart; 2 balloons at the ramp whose row is deleted; all failures | A passage is counted once (once more per restart); passports join in order; no status before its passport; an acknowledged firing was counted; each handler always reads again; every new tag of an event is processed |
| `settings_two_readers` | 2 listener threads, 1 number, 4 writes | Violation: a thread installs the older hash over the newer store |

Why the bounds are enough. The batch properties relate one batch and its reader, or two
batches of a reader; two handlers give every pairwise overtaking, and one tag more than a
close reports suffices to miss one. One reader is enough for `OneActivePerReader`, which
relates its batches alone (the theorem is for all). Body fields are `Keep` or one value:
only absence and presence differ; the status a PATCH names in `batch_sequential` is
"active", the one that could undo a pause, a failure or a completion. Outside the runs are a
PATCH of `reader_number` or `ttn_id`, and in `batch_sequential` one of `amount_of_rfid`, by
which a client overwrites the counter. In the carousel, two balloons make a shift of the
queue visible, one repetition a duplicate, two carousels with the same post numbers a
mixed-up key or row; one tick of cache life distinguishes "within the window" from "after
it". In the cache of the settings two numbers show a change adopted under the revision of
another one; four writes allow a creation of both, a save that overlaps a synchronisation
and one after it. At the readers, a deque of 1 with a field of 1 and of 3 with a field of 2
are the smallest that satisfy the premise of `CountedOnce`, so that one tag less remembered
would show; two connections are one handler that is overtaken and one that overtakes; the
second balloon, the firing or the restart is what can be lost, swapped or doubled.

The two halves of the batch runs divide what holds only of requests one at a time (the
violation runs show two of these to fail with two handlers) from what holds always.
`batch_sequential` takes the tags as symmetric: no definition tells one from another, and
its properties are invariants and conditions on single steps. `batch_concurrent` looks at
states through `LiveState`, which leaves out of an instance and of a set of tags what no
later statement reads; its properties are invariants on what is left in.
`settings_sequential` does the same, and takes numbers and contents as symmetric. Balloons
are deleted in `batch_sequential` only (`MaxOrphans`), and only `batch_concurrent` has a
light barrier (`MaxSensor`). `CHECK_DEADLOCK FALSE` is set because the plants end: primary
keys and balloons are bounded.

Fairness. `BalloonsBatch` has none and no liveness: a close that fails waits for a person.
`CarouselListener` has weak fairness of each task's own steps (`Task(c)`): the event loop
runs whatever is ready, blocking calls run in threads and come back, and the reconnect loop
reaches the NPort in the end; and of `Tick`, as the ten seconds of silence are time. Posts,
readers and failures have none. `RfidNotifications` has weak fairness of the thread
(`Worker`: a call to Miriada has a timeout, the database and Redis answer) and of each
handler (`Handler(h)`: the event loop runs what is ready); readers, connections, failures
and restarts have none. `SettingsCache` has weak fairness of the statements of every thread
(threads run, Redis answers) and of `Ask`: a line that works goes on sending frames. Saves
have none: writes end with the bound.

## Proofs

Every safety property that a run checks is a theorem; each proof is an inductive invariant
that TLC checked on the instance of the run before it was proved. Where a theorem has a
hypothesis about the constants, it is the one under which the run checks the property, and
what happens without it is said below.

### Batches, in every interleaving (`BalloonsBatchProofs`)

For every number of handlers, readers, tags and batches and every set of bodies:

* `TypeCorrect`: `Spec => []TypeOK`. `TypeOK` is inductive: its part about the handlers
  (a thread in progress has a batch that exists or has existed) is what makes the indices
  of the other parts defined. One lemma per group of actions.
* `CounterStaysNatural`: `Spec => []CounterNotNegative`, whatever counts clients write.
* `FlagAgreement`: `Spec => []StatusFlagAgree`. Needs only types: every write of the row
  goes through `Synced` or leaves the two columns consistent, which is the content of one
  lemma about `Synced` and one per kind of write.
* `CompletionIsEarned`: with `NoBlindCompletion` (no client writes the status "completed" as
  a plain field), `Spec => []CompletedMeansTtnClosed`. The property is not inductive: a
    stale instance that says "completed" is written back. `ClosersHaveClosed` adds that such
  an instance, or a handler about to write the final status, belongs to a closed waybill.
  Without the assumption the property is false: `batch_blind_completion`.

### Batches, one request at a time (`BatchSequentialProofs`)

For every number of readers, batches, tags and bodies - PATCHes that name a status included -
with `OneAtATime` (one handler). With two handlers these properties fail: `batch_close_race`
and `batch_pause_race` show two of them.

The basis is `SequentialInv`: the instance the handler holds agrees with the row, up to the
columns it is about to write, and the status is the one the branch of the code was chosen
for, or the one the request names. On it rest

* `TransitionsLegal`, `ReactivatedByRequest`: the two action properties, also when handlers
  die (`StatusSteps` says which step changes a status, from what to what): a status changes
  along the legal transitions, or to the one that a PATCH of this batch names;
* `OneActive`: beside the batches in `forced`, two batches of a reader are both active only
  while the handler that created one of them has not paused the other, which it has chosen by
  then (`Single`);
* `CounterMatches`: the instance always counts the list as it is, the row too but for the
  batch whose changed instance is about to be saved (`Counted`). Needs `PlainCounts`: a
  client that sends `amount_of_rfid` overwrites the counter;
* `StatusesBeforeTtn`: the flag that the statuses were sent is true of the list as it is,
  as a batch with the flag can no longer be edited (`Reported`), unless a PATCH of the
  status reopened it: such a batch is in `forced` and left out.

The last three need that no handler dies half-way (`~MayFail`); TLC finds each violated
otherwise. One that dies after the INSERT leaves a second active batch; one that dies between
the list and the counter, a wrong counter; one that dies between the flag and the waybill, an
active batch that has the flag, so that tags added later are never sent before the waybill is
closed.

### Carousels (`CarouselListenerTypes`, `CarouselListenerProofs`)

For every number of carousels, posts, readers and balloons, every `Drift` and with all
failures:

* `TypeCorrect`: `Spec => []TypeOK`. Its invariant adds that an empty post is silent and
  that a post that may still repeat a frame has sent one.
* `PassportOnce`: `Spec => []PassportUsedOnce`. Passports are numbered in the order they are
  read. `ListsRise`: a list is in that order and holds numbers already given;
  `TakenAreBelow`: what was taken is below all that is still in the list. So the oldest one
  was not taken before, and a pop (lost or not) keeps both facts; a push appends a number
  above all others; an expiry empties the list. All other actions leave the three variables
  alone.
* `ImplementsLine`: `Spec => PassportsInLine`, the refinement of `PassportLine`. From the same
  invariant (the head of a list that rises is the oldest of the set) and from the types of
  the tasks (a FILL frame at work has a balloon to be given the passport); one lemma per
  abstract action: `ScanIsPass`, `FillIsGive`, `FailedFillIsLoss`, `ExpiryIsExpire`.

### Carousels without failures and delays (`CarouselNominalProofs`, `CarouselPassportProofs`)

`Undisturbed` is: nothing fails, a frame is handled within the window in which its post may
repeat it (`Prompt`), a repetition weighs the same, and an answer that could not be packed is
refused before. Without `Prompt`, `OnePassportPerRequest` fails (`carousel_slow`); with a
drift it fails as the cache is keyed by weight. For every number of carousels, posts,
readers and balloons and every length of the window:

* `Steady` is what the cache of repetitions lives by: a frame under way was sent by the
  balloon that still stands on the post and may still be repeated (`Current`); its entry in
  the cache lives exactly as long as the post may repeat it (`Timed`); it is made when the
  frame is handled (`Remembered`).
* `OnePassport`: who has taken a passport and stands on a post has been served, so that the
  cache answers his repetitions (`TakenForServed`).
* `FullWeight`: once the row of the balloon on a post is stored it is the last row of the
  post until the balloon leaves (`LastRowIsOwn`), which is where the code looks for it.
* `AnswersRecorded`: an answer in the cache, or on its way to the post, is in the table or
  the next thing its task stores.
* `OwnPassports`, with `OneCarouselPerReader`: the list of a reader is the balloons that
  passed it and have no passport yet, in their order (`InStep`); each of those placed has a
  request under way (`AllAsk`), and requests are under way in that order (`InLine`), so that
  whose turn it is asks first. With two carousels behind a reader the balloons reach two
  tasks, and TLC finds the property violated: the second may be served first.

### Readers (`RfidNotificationsProofs`)

For every number of readers, connections, balloons and attempts, every length of the deque,
and with all failures and restarts:

* `AcknowledgedWasCounted`: `Spec => []AcknowledgedIsCounted`. The acknowledgement comes long
  after the counting, from another task, and possibly for an event that was sent before on
  another connection. The invariant `AckInv` says what links them: a handler that waits has
  exactly one job with the thread (`OneJobEach`), a job for the sensor is the event its reader
  still holds if the reader is still on that connection (`JobsOfEvents`), and a handler that
  is about to acknowledge OK to a reader holding a firing has it counted (`Conversation`).
* `StatusNeedsPassport`: `Spec => []StatusAfterPassport`. `StageInv`: when the thread has come
  to an attempt for a balloon of a carousel, its passport is in the list.
* `TypeCorrect`: `Spec => []TypeOK`, in three parts on top of `AckInv`: what readers and
  deques hold (`PlantOK`), what handlers and the thread have to do (`WorkOK`), the rows
  (`DataOK`).
* `BalloonCountedOnce`: `Spec => []CountedOnce`. The property has its own premise, that the
  deque holds the balloons that stand in a field before and behind one (`Fitting`).
  `RecentOK` says that what the deque remembers stood in the field together, so that by
  counting (`OneIsFar`) what falls out of a full deque has left the field for good.
  `CountInv` says that a tag that is counted, or still will be by some handler or job, is so
  once, and is no longer one the filter would let through.
* `PassportsJoinInOrder`: `Spec => []PassportsInOrder`. `OrderInv`: the tags in the queue of
  the thread rise, the list is behind them and they are behind the event the reader holds.

The filter is followed tag by tag: what it has let through and remembered after `n` tags of
an event is a recursive function of `n`. The two facts about it (`Sound`: what comes out was
in the event and not in the deque; `Exact`: once, if the deque is long enough) are shown
for its next tag and carried to its last one by the well-foundedness of the order on the
natural numbers, which gives the least `n` at which a fact would fail (`LeastNumber`).

### Settings (`SettingsCacheProofs`)

For any processes, threads and numbers:

* `TypeCorrect`: `Spec => []TypeOK`. The invariant relates the lock of a process to the
  thread that holds it (one of that process, about to publish: `hset` or `bump`; nobody else
  is) and bounds the revisions that processes and threads remember by the one in Redis.
* `ReadsAreFresh`: with `Orderly` (one writer, one thread per process, creations,
  deletions and starts alone, nothing failing), `Spec => []FreshRead`, whatever the
  interleaving of a save, published after its commit or before it, with any number of
  listeners. The invariant speaks of what was `written`; `CommitOK` bounds how far the
  committed rows are behind it. Redis has no transaction over the hash and the revision.
  What makes it right is the order: the writer changes the hash before the revision, the
  listener reads the revision before the hash, so that a store at the revision of Redis
  holds what may be served (`StoreAt`), and what is read under an older revision is read
  again (`AskingAt`). With two threads in the listener it is false:
  `settings_two_readers`; with a second writer, or a creation, deletion or start beside
  other operations, TLC finds it violated too.
* `ReadsSurviveFailures`: with `OneByOne` (one operation at a time, who saves is not in the
  process of the listener), `Spec => []FreshRead` for any number of writers, also when
  publications and loads are lost and transactions rolled back.

### What is not proved

The liveness properties are outside the prover and stay with TLC: `FullWeightRecorded`, both
`AlwaysReadsAgain`, `TagsAreProcessed`, `StoreSettles`. Outside the hypotheses named above
nothing is claimed. Assumptions on the constants are the named ASSUMEs of the modules, which
TLC evaluates in the runs.

## Not modelled, and the plan

What is left, in order:

1. Proofs: the same theorems from weaker hypotheses, where they stay true - the counter of a
batch when handlers die (off by at most the step that was lost), the own passport when two
carousels share a reader and never ask at the same time, fresh reads when publications are
lost beside other operations. 2. `SettingsCache`: loss of Redis' data, an edited number. A
second writer, and a creation, a deletion or a start beside other operations need no new
module: given any of these overlaps TLC finds both `FreshRead` and `StoreSettles` violated.
No document, comment or test of the repository promises otherwise, so that they are hazards
and not findings. 3. An abstract batch (open, closing, closed, failed) for `BalloonsBatch`
to refine; a batch written back by a stale instance (`batch_pause_race`) would have to be
excluded first. 4. The command session of a reader byte by byte: a late answer is rejected
by its command code or cached as that of the next lamp command, and the session reconnects
while its lock is replaced (`rfid_utils/models.py:105`). It decides nothing but the lamp.

Not modelled at all: pages, forms, filters, the rest of the admin, transport and mobile API,
authentication (presentation or stateless); creation and plain updates of balloons; the TTN
import (an idempotent update of rows); the supervisor (starts two children once); bytes of
the protocols (CRC and frame layout are covered by unit tests). The JavaScript in the
repository is third-party - Bootstrap and the collected assets of Django packages - and no
part of the system's logic, which is all Python.
