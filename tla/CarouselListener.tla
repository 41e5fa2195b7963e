----------------------------- MODULE CarouselListener -----------------------------
(***************************************************************************)
(* The listener of the filling carousels: one asyncio task per carousel    *)
(* reads the frames of its posts, takes the passport of the oldest balloon *)
(* that passed the carousel's RFID reader from a Redis list, answers with  *)
(* the weight to fill to, and stores what happened in the Carousel table.  *)
(*                                                                         *)
(* A balloon passes the reader, then stands on a post.  The post sends a   *)
(* FILL frame (0x7a) with its empty weight and, when it is filled, a FULL  *)
(* frame (0x70); it may send either again within about two seconds.  A     *)
(* frame carries no identity of the balloon: here it has one only for the  *)
(* properties to speak about.                                              *)
(***************************************************************************)
EXTENDS Integers, Sequences, FiniteSets

CONSTANTS
    Carousels,
    Posts,         \* the post numbers, the same on every carousel
    Readers,
    ReaderOf,      \* CarouselSettings.rfid_reader
    Refused,       \* balloons whose passport or settings allow no answer
    Oversized,     \* balloons whose target weight does not fit the answer's uint16
    Prompt,        \* TRUE: frames are handled in no time
    MayFail,       \* TRUE: connections, Redis and the database may fail
    Drift,         \* grams a repeated frame may weigh more
    REQUEST_CACHE, \* REQUEST_CACHE_SECONDS in ticks
    MaxBalloons,   \* bound: balloons that pass a reader
    Arriving,      \* bound: those that pass each one
    MaxRepeats     \* bound: repetitions of a frame

Balloons == 1 .. MaxBalloons
None == 0

ASSUME ReaderAssumption == ReaderOf \in [Carousels -> Readers]
ASSUME BoundAssumption ==
    /\ {REQUEST_CACHE, MaxBalloons, MaxRepeats} \subseteq Nat
    /\ Refused \union Oversized \subseteq Nat
    /\ Arriving \in [Readers -> 0 .. MaxBalloons]
    /\ {Prompt, MayFail} \subseteq BOOLEAN
    /\ 0 \in Drift

VARIABLES
    \* The plant
    scanned,  \* the last balloon that passed each reader
    placed,   \* the last one put on a post
    post,     \* the balloon on a post, what it has sent, and how long it may repeat it
    \* Redis, the process and the database
    queue,    \* reader_<n>_balloon_queue, oldest passport first
    inbox,    \* frames received on the connection of a carousel
    shifted,  \* a byte of the stream is missing: frames no longer begin where they are read
    recent,   \* recent_requests: how long an entry lives on, and its answer
    task,     \* where the task of a carousel is
    rows,     \* the Carousel table in the order of insertion
    \* History
    taken,    \* <<reader, balloon on the post, passport>> of the passports popped
    told      \* <<carousel, balloon on the post, passport>> of the answers sent

plant == <<scanned, placed, post>>
history == <<taken, told>>
stream == <<inbox, shifted>>
vars == <<plant, queue, stream, recent, task, rows, history>>

Types == {"fill", "full"}
Frame == [type : Types, post : Posts, gram : Drift, balloon : Balloons]
Idle == [step |-> "read"]
Busy == [step : {"handle", "reply", "store"}, frame : Frame, nfc : 0 .. MaxBalloons]
Keys == Carousels \X Types \X Posts \X Drift

Row == [carousel : Carousels, post : Posts, balloon : Balloons,
        nfc : 0 .. MaxBalloons, weighed : 0 .. MaxBalloons]

\* The types of the state; a task at work has the frame it works on, and no entry of the
\* cache or window of a post counts below zero.
TypeOK ==
    /\ scanned \in [Readers -> 0 .. MaxBalloons]
    /\ placed \in [Readers -> 0 .. MaxBalloons]
    /\ post \in [Carousels \X Posts ->
                    [balloon : 0 .. MaxBalloons, sent : Types \union {"nothing"},
                     window : 0 .. REQUEST_CACHE, repeats : 0 .. MaxRepeats]]
    /\ queue \in [Readers -> Seq(Balloons)]
    /\ inbox \in [Carousels -> Seq(Frame)]
    /\ shifted \in [Carousels -> BOOLEAN]
    /\ recent \in [Keys -> [left : 0 .. REQUEST_CACHE, nfc : 0 .. MaxBalloons]]
    /\ task \in [Carousels -> {Idle, [step |-> "offline"]} \union Busy]
    /\ rows \in Seq(Row)

----------------------------------------------------------------------------
(* The plant: readers and posts *)

\* add_balloon_to_cache: LPUSH and EXPIRE in one transaction.  It is not reached when
\* Miriada or the database failed before (processing_request_with_nfc).
Scan(r) ==
    /\ scanned[r] < Arriving[r]
    /\ scanned' = [scanned EXCEPT ![r] = @ + 1]
    /\ \/ queue' = [queue EXCEPT ![r] = Append(@, scanned'[r])]
       \/ MayFail /\ UNCHANGED queue
    /\ UNCHANGED <<placed, post, stream, recent, task, rows, history>>

\* The bytes reach the listener while it has a connection; on the line between the posts
\* and the NPort one may get lost
Receive(c, f) ==
    \/ task[c].step = "offline" /\ UNCHANGED stream
    \/ task[c].step # "offline" /\ inbox' = [inbox EXCEPT ![c] = Append(@, f)]
                                /\ UNCHANGED shifted
    \/ task[c].step # "offline" /\ MayFail /\ shifted' = [shifted EXCEPT ![c] = TRUE]
                                /\ UNCHANGED inbox

FrameOf(p, at, gram) == [type |-> at.sent, post |-> p, gram |-> gram, balloon |-> at.balloon]

Send(c, p, at, gram) ==
    /\ post' = [post EXCEPT ![<<c, p>>] = at]
    /\ Receive(c, FrameOf(p, at, gram))
    /\ UNCHANGED <<scanned, queue, recent, task, rows, history>>

\* A post that sent a frame may repeat it for a while
Sent(balloon, type) ==
    [balloon |-> balloon, sent |-> type, window |-> REQUEST_CACHE, repeats |-> MaxRepeats]

\* The next balloon of the line is put on a free post
Place(c, p) ==
    LET r == ReaderOf[c]
    IN  /\ post[<<c, p>>].balloon = None
        /\ placed[r] < scanned[r]
        /\ placed' = [placed EXCEPT ![r] = @ + 1]
        /\ Send(c, p, Sent(placed'[r], "fill"), 0)

\* Filling takes longer than a post goes on repeating its request
Filled(c, p) ==
    /\ post[<<c, p>>].sent = "fill"
    /\ post[<<c, p>>].window = 0
    /\ Send(c, p, Sent(post[<<c, p>>].balloon, "full"), 0)
    /\ UNCHANGED placed

Repeat(c, p) ==
    /\ post[<<c, p>>].window > 0
    /\ post[<<c, p>>].repeats > 0
    /\ \E gram \in Drift : Send(c, p, [post[<<c, p>>] EXCEPT !.repeats = @ - 1], gram)
    /\ UNCHANGED placed

Leave(c, p) ==
    /\ post[<<c, p>>].sent = "full"
    /\ post[<<c, p>>].window = 0
    /\ post' = [post EXCEPT ![<<c, p>>] = [balloon |-> None, sent |-> "nothing",
                                       window |-> 0, repeats |-> 0]]
    /\ UNCHANGED <<scanned, placed, queue, stream, recent, task, rows, history>>

\* Mutant: the entry is not dropped when it expires
CountDownForever(n) == n - 1

CountDown(n) == IF n > 0 THEN n - 1 ELSE 0

AtRest(c) == task[c].step \in {"read", "offline"} /\ inbox[c] = <<>>

Tick ==
    /\ \/ \E k \in Keys : recent[k].left > 0
       \/ \E x \in Carousels \X Posts : post[x].window > 0
    /\ Prompt => \A c \in Carousels : AtRest(c)
    /\ recent' = [k \in Keys |-> [recent[k] EXCEPT !.left = CountDown(@)]]
    /\ post' = [x \in Carousels \X Posts |-> [post[x] EXCEPT !.window = CountDown(@)]]
    /\ UNCHANGED <<scanned, placed, queue, stream, task, rows, history>>

----------------------------------------------------------------------------
(* serial_exchange *)

Goto(c, t) == task' = [task EXCEPT ![c] = t]

\* Mutant: the key of the cache has no carousel number
KeyOfPost(c, f) == <<CHOOSE d \in Carousels : TRUE, f.type, f.post, f.gram>>

Key(c, f) == <<c, f.type, f.post, f.gram>>

\* An answer names the passport its weight was computed from
Answer(c, f, nfc) ==
    told' = IF nfc = None THEN told ELSE told \union {<<c, f.balloon, nfc>>}

IsDuplicate(c, f) == recent[Key(c, f)].left > 0

NextFrame(c) ==
    /\ task[c] = Idle
    /\ inbox[c] # <<>>
    /\ inbox' = [inbox EXCEPT ![c] = Tail(@)]
    /\ UNCHANGED shifted

ReadDuplicate(c) ==
    /\ NextFrame(c)
    /\ ~shifted[c]
    /\ IsDuplicate(c, Head(inbox[c]))
    /\ Answer(c, Head(inbox[c]), recent[Key(c, Head(inbox[c]))].nfc)
    /\ UNCHANGED <<plant, queue, recent, task, rows, taken>>

ReadFrame(c) ==
    /\ NextFrame(c)
    /\ ~shifted[c]
    /\ ~IsDuplicate(c, Head(inbox[c]))
    /\ Goto(c, [step |-> "handle", frame |-> Head(inbox[c]), nfc |-> None])
    /\ UNCHANGED <<plant, queue, recent, rows, history>>

\* A frame with a wrong CRC is counted and skipped: it was damaged, or read out of step
DropFrame(c) ==
    /\ MayFail
    /\ NextFrame(c)
    /\ UNCHANGED <<plant, queue, recent, task, rows, history>>

\* Mutant: the newest passport is read
NewestOf(r) == queue[r][Len(queue[r])]

\* Mutant: the passport is read and stays in the list
PopNothing(r) == queue

Pop(r) == [queue EXCEPT ![r] = Tail(@)]

OldestOf(r) == queue[r][1]

IsAnswered(f, nfc) == f.type = "fill" /\ nfc # None /\ nfc \notin Refused

\* Mutant: only requests with an answer are remembered
RememberAnswered(c, f, nfc) ==
    recent' = IF IsAnswered(f, nfc)
              THEN [recent EXCEPT ![Key(c, f)] = [left |-> REQUEST_CACHE, nfc |-> nfc]]
              ELSE recent

\* cache_request_result
Remember(c, f, nfc) ==
    recent' = [recent EXCEPT ![Key(c, f)] =
                  [left |-> REQUEST_CACHE, nfc |-> IF IsAnswered(f, nfc) THEN nfc ELSE None]]

\* The request is remembered before it is answered and stored
Handled(c, f, nfc) ==
    /\ Remember(c, f, nfc)
    /\ Goto(c, [step |-> IF IsAnswered(f, nfc) THEN "reply" ELSE "store",
                frame |-> f, nfc |-> nfc])

HandleFull(c) ==
    /\ task[c].step = "handle"
    /\ task[c].frame.type = "full"
    /\ Handled(c, task[c].frame, None)
    /\ UNCHANGED <<plant, queue, stream, rows, history>>

\* The list is empty, or Redis fails - of which it may have executed the pop
HandleFillWithoutPassport(c) ==
    LET r == ReaderOf[c]
    IN  /\ task[c].step = "handle"
        /\ task[c].frame.type = "fill"
        /\ \/ queue[r] = <<>> /\ UNCHANGED queue
           \/ queue[r] # <<>> /\ MayFail /\ queue' \in {queue, Pop(r)}
        /\ Handled(c, task[c].frame, None)
        /\ UNCHANGED <<plant, stream, rows, history>>

\* Mutant: the task of the carousel ends with the exception
EndTask(c) == Goto(c, [step |-> "ended"]) /\ UNCHANGED stream

\* The exception closes the connection; run_carousel sleeps
Disconnect(c) ==
    /\ Goto(c, [step |-> "offline"])
    /\ inbox' = [inbox EXCEPT ![c] = <<>>]
    /\ shifted' = [shifted EXCEPT ![c] = FALSE]

HandleFill(c) ==
    LET r == ReaderOf[c]
        f == task[c].frame
    IN  /\ task[c].step = "handle"
        /\ f.type = "fill"
        /\ queue[r] # <<>>
        /\ queue' = Pop(r)
        /\ taken' = taken \union {<<r, f.balloon, OldestOf(r)>>}
        /\ IF IsAnswered(f, OldestOf(r)) /\ OldestOf(r) \in Oversized
           THEN Disconnect(c) /\ UNCHANGED recent
           ELSE Handled(c, f, OldestOf(r)) /\ UNCHANGED stream
        /\ UNCHANGED <<plant, rows, told>>

WriteReply(c) ==
    /\ task[c].step = "reply"
    /\ Answer(c, task[c].frame, task[c].nfc)
    /\ Goto(c, [task[c] EXCEPT !.step = "store"])
    /\ UNCHANGED <<plant, queue, stream, recent, rows, taken>>

----------------------------------------------------------------------------
(* process_carousel_data *)

\* Mutant: the rows of the post on every carousel
RowsOfPost(c, p) == {i \in DOMAIN rows : rows[i].post = p}

RowsOf(c, p) == {i \in DOMAIN rows : rows[i].carousel = c /\ rows[i].post = p}

\* An update never changes which row of a post was touched last
IsLast(i, c, p) == i \in RowsOf(c, p) /\ \A j \in RowsOf(c, p) : j <= i

InsertRow(c, f, nfc) ==
    rows' = Append(rows, [carousel |-> c, post |-> f.post, balloon |-> f.balloon,
                          nfc |-> nfc, weighed |-> None])

\* The full weight of the balloon on the post; without a row it is an error that is logged
UpdateRow(c, f) ==
    \/ RowsOf(c, f.post) = {} /\ UNCHANGED rows
    \/ \E i \in RowsOf(c, f.post) :
        IsLast(i, c, f.post) /\ rows' = [rows EXCEPT ![i].weighed = f.balloon]

StoreData(c) ==
    LET f == task[c].frame
    IN  /\ task[c].step = "store"
        /\ IF f.type = "fill" THEN InsertRow(c, f, task[c].nfc) ELSE UpdateRow(c, f)
        /\ Goto(c, Idle)
        /\ UNCHANGED <<plant, queue, stream, recent, history>>

----------------------------------------------------------------------------
(* Failures, and the loop of run_carousel *)

Connect(c) ==
    /\ task[c].step = "offline"
    /\ Goto(c, Idle)
    /\ UNCHANGED <<plant, queue, stream, recent, rows, history>>

\* The connection breaks: found out when reading, or when writing an answer - of which
\* the post may still have got the bytes
LoseConnection(c) ==
    /\ MayFail
    /\ \/ task[c] = Idle /\ UNCHANGED told
       \/ /\ task[c].step = "reply"
          /\ UNCHANGED told \/ Answer(c, task[c].frame, task[c].nfc)
    /\ Disconnect(c)
    /\ UNCHANGED <<plant, queue, recent, rows, taken>>

Silent(c) == inbox[c] = <<>> /\ \A p \in Posts : post[<<c, p>>].window = 0

\* An incomplete frame that nothing completes for STALE_PARTIAL_BUFFER_SECONDS
DropPartialFrame(c) ==
    /\ task[c] = Idle
    /\ shifted[c]
    /\ Silent(c)
    /\ Disconnect(c)
    /\ UNCHANGED <<plant, queue, recent, rows, history>>

\* The database refuses; the error is counted and swallowed
LoseData(c) ==
    /\ MayFail
    /\ task[c].step = "store"
    /\ Goto(c, Idle)
    /\ UNCHANGED <<plant, queue, stream, recent, rows, history>>

\* Ten minutes without a new passport
ExpireQueue(r) ==
    /\ MayFail
    /\ queue[r] # <<>>
    /\ queue' = [queue EXCEPT ![r] = <<>>]
    /\ UNCHANGED <<plant, stream, recent, task, rows, history>>

----------------------------------------------------------------------------

Init ==
    /\ scanned = [r \in Readers |-> 0]
    /\ placed = [r \in Readers |-> 0]
    /\ post = [x \in Carousels \X Posts |-> [balloon |-> None, sent |-> "nothing",
                                             window |-> 0, repeats |-> 0]]
    /\ queue = [r \in Readers |-> <<>>]
    /\ inbox = [c \in Carousels |-> <<>>]
    /\ shifted = [c \in Carousels |-> FALSE]
    /\ recent = [k \in Keys |-> [left |-> 0, nfc |-> None]]
    /\ task = [c \in Carousels |-> Idle]
    /\ rows = <<>>
    /\ taken = {}
    /\ told = {}

Plant ==
    \/ \E r \in Readers : Scan(r) \/ ExpireQueue(r)
    \/ \E c \in Carousels, p \in Posts :
        Place(c, p) \/ Filled(c, p) \/ Repeat(c, p) \/ Leave(c, p)
    \/ Tick

Task(c) ==
    \/ ReadDuplicate(c) \/ ReadFrame(c) \/ HandleFull(c) \/ HandleFillWithoutPassport(c)
    \/ HandleFill(c) \/ WriteReply(c) \/ StoreData(c) \/ Connect(c) \/ DropFrame(c)
    \/ DropPartialFrame(c)

Failure(c) == LoseConnection(c) \/ LoseData(c)

Next == Plant \/ \E c \in Carousels : Task(c) \/ Failure(c)

\* The event loop runs a task that is ready, the NPort can be reached in the end, and
\* time passes
Fairness == WF_vars(Tick) /\ \A c \in Carousels : WF_vars(Task(c))

Spec == Init /\ [][Next]_vars /\ Fairness

----------------------------------------------------------------------------
(* Properties *)

\* The passport stored with a balloon, and with it the weight the post fills to, is that
\* balloon's own: the reader's list, the line, the frames and the cache of repetitions
\* stay in step (request_processing only takes the oldest passport).
OwnPassport == \A i \in DOMAIN rows : rows[i].nfc \in {None, rows[i].balloon}

\* However often a post repeats its FILL frame, one passport is taken for a balloon.
OnePassportPerRequest ==
    \A x, y \in taken : (x[1] = y[1] /\ x[2] = y[2]) => x = y

\* No passport is given to two balloons, whichever carousels share the reader and
\* whatever fails (pop_json_from_queue).
PassportUsedOnce ==
    \A x, y \in taken : (x[1] = y[1] /\ x[3] = y[3]) => x = y

\* What makes it inductive: the passports of a list rise, the last one scanned being the
\* highest, and those popped are below all that are left.
Rising(s) == \A i, j \in 1 .. Len(s) : i < j => s[i] < s[j]

ListsRise ==
    \A r \in Readers :
        /\ Rising(queue[r])
        /\ \A i \in 1 .. Len(queue[r]) : queue[r][i] <= scanned[r]

TakenAreBelow ==
    \A x \in taken :
        /\ x[1] \in Readers
        /\ x[3] \in 1 .. scanned[x[1]]
        /\ \A i \in 1 .. Len(queue[x[1]]) : x[3] < queue[x[1]][i]

\* The weight of a FULL frame goes to the row made for the same balloon, although the
\* frame only names the post (process_carousel_data, the 0x70 branch).
FullWeightOnOwnRow == \A i \in DOMAIN rows : rows[i].weighed \in {None, rows[i].balloon}

\* A task that reads again has stored every answer it gave: a post was told to fill only
\* with a passport that the table shows for its balloon.
AnswersAreRecorded ==
    \A x \in told :
        task[x[1]] = Idle =>
            \E i \in DOMAIN rows :
                rows[i].carousel = x[1] /\ rows[i].balloon = x[2] /\ rows[i].nfc = x[3]

\* A balloon reported full is in the end recorded with its full weight.
FullWeightRecorded ==
    \A c \in Carousels, b \in Balloons :
        (\E p \in Posts : post[<<c, p>>].balloon = b /\ post[<<c, p>>].sent = "full") ~>
            (\E i \in DOMAIN rows : rows[i].carousel = c /\ rows[i].weighed = b)

\* No failure stops the task of a carousel for good: it always comes back to reading whole
\* frames, after an exception of any kind (run_carousel reconnects) and after a lost byte,
\* once the posts are silent (read_frame finds the rest of a frame too old).
AlwaysReadsAgain == \A c \in Carousels : []<>(task[c] = Idle /\ ~shifted[c])

\* The listener, the reader and Redis keep the promise of the line of passports.
Line == INSTANCE PassportLine WITH
            Who <- Balloons, passed <- scanned, given <- taken,
            waiting <- [r \in Readers |-> {queue[r][i] : i \in 1 .. Len(queue[r])}]

PassportsInLine == Line!Spec
=============================================================================
