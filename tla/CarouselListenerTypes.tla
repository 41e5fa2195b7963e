-------------------------- MODULE CarouselListenerTypes --------------------------
(***************************************************************************)
(* The types of the listener's state: a theorem for any number of          *)
(* carousels, posts, readers and balloons, whatever fails.                 *)
(***************************************************************************)
EXTENDS CarouselListener, TLAPS

USE ReaderAssumption, BoundAssumption

\* What makes them inductive: an empty post is silent, and a post that may still repeat a
\* frame has sent one.
PostOK ==
    \A x \in Carousels \X Posts :
        /\ post[x].balloon = None => post[x].sent = "nothing"
        /\ post[x].sent = "nothing" => post[x].window = 0

TInv == TypeOK /\ PostOK

PostState == [balloon : 0 .. MaxBalloons, sent : Types \union {"nothing"},
              window : 0 .. REQUEST_CACHE, repeats : 0 .. MaxRepeats]
Entry == [left : 0 .. REQUEST_CACHE, nfc : 0 .. MaxBalloons]
TaskState == {Idle, [step |-> "offline"]} \union Busy

----------------------------------------------------------------------------
(* What a handler works with *)

\* A task that handles a frame has one.
LEMMA FrameAtWork ==
    ASSUME TypeOK, NEW c \in Carousels, task[c].step \in {"handle", "reply", "store"}
    PROVE  /\ task[c] \in Busy
           /\ task[c].frame \in Frame
           /\ task[c].frame.balloon \in Balloons
           /\ task[c].frame.post \in Posts
           /\ task[c].nfc \in 0 .. MaxBalloons
<1>1. task[c] \in TaskState
  BY DEF TypeOK, TaskState
<1>2. task[c] \in Busy
  BY <1>1 DEF TaskState, Idle
<1>3. QED
  BY <1>2 DEF Busy, Frame

\* A task that goes on with a frame has the type of a task.
LEMMA BusyTask ==
    ASSUME TypeOK, NEW c \in Carousels, NEW f \in Frame, NEW n \in 0 .. MaxBalloons,
           NEW s \in {"handle", "reply", "store"}, Goto(c, [step |-> s, frame |-> f, nfc |-> n])
    PROVE  task' \in [Carousels -> TaskState]
  BY DEF TypeOK, Goto, Busy, TaskState

\* The key of a frame.
LEMMA KeyType == ASSUME NEW c \in Carousels, NEW f \in Frame PROVE Key(c, f) \in Keys
  BY DEF Key, Keys, Frame

\* The oldest passport, and what a pop leaves.
LEMMA PopType ==
    ASSUME TypeOK, NEW r \in Readers, queue[r] # <<>>
    PROVE  /\ OldestOf(r) \in Balloons
           /\ Pop(r) \in [Readers -> Seq(Balloons)]
<1>1. queue \in [Readers -> Seq(Balloons)] /\ queue[r] \in Seq(Balloons)
  BY DEF TypeOK
<1>2. queue[r][1] \in Balloons /\ Tail(queue[r]) \in Seq(Balloons)
  BY <1>1
<1>3. QED
  BY <1>1, <1>2 DEF OldestOf, Pop

\* A frame on its way.
LEMMA ReceiveType ==
    ASSUME TypeOK, NEW c \in Carousels, NEW f \in Frame, Receive(c, f)
    PROVE  /\ inbox' \in [Carousels -> Seq(Frame)]
           /\ shifted' \in [Carousels -> BOOLEAN]
<1>1. inbox \in [Carousels -> Seq(Frame)] /\ shifted \in [Carousels -> BOOLEAN]
  BY DEF TypeOK
<1>2. Append(inbox[c], f) \in Seq(Frame)
  BY <1>1
<1>3. QED
  BY <1>1, <1>2 DEF Receive, stream

\* What is remembered of a request, and where its task goes on.
LEMMA HandledType ==
    ASSUME TypeOK, NEW c \in Carousels, NEW f \in Frame, NEW n \in 0 .. MaxBalloons,
           Handled(c, f, n)
    PROVE  /\ recent' \in [Keys -> Entry]
           /\ task' \in [Carousels -> TaskState]
<1> DEFINE e == [left |-> REQUEST_CACHE, nfc |-> IF IsAnswered(f, n) THEN n ELSE None]
<1>1. recent \in [Keys -> Entry]
  BY DEF TypeOK, Entry
<1>2. e \in Entry
  BY DEF Entry, None
<1>3. recent' = [recent EXCEPT ![Key(c, f)] = e]
  BY DEF Handled, Remember
<1>4. recent' \in [Keys -> Entry]
  BY <1>1, <1>2, <1>3
<1>5. PICK s \in {"reply", "store"} : Goto(c, [step |-> s, frame |-> f, nfc |-> n])
  BY DEF Handled
<1>6. QED
  BY <1>4, <1>5, BusyTask

\* A connection that ends.
LEMMA DisconnectType ==
    ASSUME TypeOK, NEW c \in Carousels, Disconnect(c)
    PROVE  /\ task' \in [Carousels -> TaskState]
           /\ inbox' \in [Carousels -> Seq(Frame)]
           /\ shifted' \in [Carousels -> BOOLEAN]
<1>1. inbox \in [Carousels -> Seq(Frame)] /\ <<>> \in Seq(Frame)
  BY DEF TypeOK
<1>2. QED
  BY <1>1 DEF TypeOK, Disconnect, Goto, TaskState

----------------------------------------------------------------------------
(* The steps of the plant *)

\* A reader scans a balloon.
LEMMA ScanTypes == ASSUME TInv, NEW r \in Readers, Scan(r) PROVE TInv'
<1>1. TypeOK /\ PostOK
  BY DEF TInv
<1>2. scanned \in [Readers -> 0 .. MaxBalloons] /\ queue \in [Readers -> Seq(Balloons)]
  BY <1>1 DEF TypeOK
<1>3. Arriving[r] \in 0 .. MaxBalloons /\ MaxBalloons \in Nat
  OBVIOUS
<1>4. scanned' = [scanned EXCEPT ![r] = scanned[r] + 1] /\ scanned[r] < Arriving[r]
  BY DEF Scan
<1>5. scanned[r] + 1 \in Balloons
  BY <1>2, <1>3, <1>4 DEF Balloons
<1>6. scanned' \in [Readers -> 0 .. MaxBalloons] /\ scanned'[r] \in Balloons
  BY <1>2, <1>4, <1>5 DEF Balloons
<1>7. Append(queue[r], scanned'[r]) \in Seq(Balloons)
  BY <1>2, <1>6
<1>8. queue' \in [Readers -> Seq(Balloons)]
  BY <1>2, <1>7 DEF Scan
<1>9. UNCHANGED <<placed, post, inbox, shifted, recent, task, rows>>
  BY DEF Scan, stream
<1>10. QED
  BY <1>1, <1>6, <1>8, <1>9 DEF TInv, TypeOK, PostOK

\* A post that is put in a state of the right type, and sends a frame of it.
LEMMA SendTypes ==
    ASSUME TInv, NEW c \in Carousels, NEW p \in Posts, NEW gram \in Drift,
           \E at \in PostState :
               Send(c, p, at, gram) /\ at.balloon # None /\ at.sent # "nothing",
           placed' \in [Readers -> 0 .. MaxBalloons]
    PROVE  TInv'
<1>1. TypeOK /\ PostOK
  BY DEF TInv
<1>2. PICK at \in PostState :
          Send(c, p, at, gram) /\ at.balloon # None /\ at.sent # "nothing"
  OBVIOUS
<1>3. FrameOf(p, at, gram) \in Frame
  BY <1>2 DEF FrameOf, Frame, PostState, Balloons, None
<1>4. /\ inbox' \in [Carousels -> Seq(Frame)]
      /\ shifted' \in [Carousels -> BOOLEAN]
  BY <1>1, <1>2, <1>3, ReceiveType DEF Send
<1>5. post \in [Carousels \X Posts -> PostState] /\ <<c, p>> \in Carousels \X Posts
  BY <1>1 DEF TypeOK, PostState
<1>6. post' = [post EXCEPT ![<<c, p>>] = at]
  BY <1>2 DEF Send
<1>7. post' \in [Carousels \X Posts -> PostState]
  BY <1>5, <1>6
<1>8. \A x \in Carousels \X Posts : post'[x] = at \/ post'[x] = post[x]
  BY <1>5, <1>6
<1>9. PostOK'
  BY <1>1, <1>2, <1>8 DEF PostOK
<1>10. UNCHANGED <<scanned, queue, recent, task, rows>>
  BY <1>2 DEF Send
<1>11. TypeOK'
  BY <1>1, <1>4, <1>7, <1>10 DEF TypeOK, PostState
<1>12. QED
  BY <1>9, <1>11 DEF TInv

\* The steps of a post.
LEMMA PostTypes ==
    ASSUME TInv, NEW c \in Carousels, NEW p \in Posts,
           Place(c, p) \/ Filled(c, p) \/ Repeat(c, p) \/ Leave(c, p)
    PROVE  TInv'
<1> DEFINE x == <<c, p>>
           r == ReaderOf[c]
<1>1. TypeOK /\ PostOK
  BY DEF TInv
<1>2. x \in Carousels \X Posts /\ r \in Readers /\ 0 \in Drift
  OBVIOUS
<1>3. /\ post \in [Carousels \X Posts -> PostState]
      /\ placed \in [Readers -> 0 .. MaxBalloons]
      /\ scanned \in [Readers -> 0 .. MaxBalloons]
  BY <1>1 DEF TypeOK, PostState
<1>4. post[x] \in PostState
  BY <1>2, <1>3
<1>5. /\ post[x].balloon = None => post[x].sent = "nothing"
      /\ post[x].sent = "nothing" => post[x].window = 0
  BY <1>1, <1>2 DEF PostOK
<1> HIDE DEF x
<1>6. CASE Place(c, p)
  <2> DEFINE at == Sent(placed'[r], "fill")
  <2>1. placed[r] < scanned[r] /\ placed' = [placed EXCEPT ![r] = placed[r] + 1]
    BY <1>6 DEF Place
  <2>2. placed'[r] \in Balloons /\ placed' \in [Readers -> 0 .. MaxBalloons]
    BY <2>1, <1>2, <1>3 DEF Balloons
  <2>3. at \in PostState /\ at.balloon # None /\ at.sent # "nothing"
    BY <2>2 DEF Sent, PostState, Types, Balloons, None
  <2>4. Send(c, p, at, 0)
    BY <1>6 DEF Place
  <2>5. QED
    BY <1>2, <2>2, <2>3, <2>4, SendTypes
<1>7. CASE Filled(c, p)
  <2> DEFINE at == Sent(post[x].balloon, "full")
  <2>1. post[x].sent = "fill"
    BY <1>7 DEF Filled, x
  <2>2. at \in PostState /\ at.balloon # None /\ at.sent # "nothing"
    BY <2>1, <1>4, <1>5 DEF Sent, PostState, Types
  <2>3. Send(c, p, at, 0) /\ placed' = placed
    BY <1>7 DEF Filled, x
  <2>4. QED
    BY <1>2, <1>3, <2>2, <2>3, SendTypes
<1>8. CASE Repeat(c, p)
  <2> DEFINE at == [balloon |-> post[x].balloon, sent |-> post[x].sent,
                    window |-> post[x].window, repeats |-> post[x].repeats - 1]
  <2>1. post[x].window > 0 /\ post[x].repeats > 0 /\ placed' = placed
    BY <1>8 DEF Repeat, x
  <2>2. at \in PostState /\ at.balloon # None /\ at.sent # "nothing"
    BY <2>1, <1>4, <1>5 DEF PostState, Types
  <2>3. PICK gram \in Drift : Send(c, p, [post[x] EXCEPT !.repeats = post[x].repeats - 1], gram)
    BY <1>8 DEF Repeat, x
  <2>4. [post[x] EXCEPT !.repeats = post[x].repeats - 1] = at
    BY <1>4 DEF PostState
  <2>5. Send(c, p, at, gram)
    BY <2>3, <2>4
  <2>6. QED
    BY <1>3, <2>1, <2>2, <2>5, SendTypes
<1>9. CASE Leave(c, p)
  <2> DEFINE at == [balloon |-> None, sent |-> "nothing", window |-> 0, repeats |-> 0]
  <2>1. /\ post' = [post EXCEPT ![x] = at]
        /\ UNCHANGED <<scanned, placed, queue, inbox, shifted, recent, task, rows>>
    BY <1>9 DEF Leave, stream, x
  <2>2. at \in PostState
    BY DEF PostState, None
  <2>3. post' \in [Carousels \X Posts -> PostState]
    BY <2>1, <2>2, <1>3
  <2>4. \A y \in Carousels \X Posts : post'[y] = at \/ post'[y] = post[y]
    BY <2>1, <1>3
  <2>5. PostOK'
    BY <2>4, <1>1 DEF PostOK
  <2>6. TypeOK'
    BY <2>1, <2>3, <1>1 DEF TypeOK, PostState
  <2>7. QED
    BY <2>5, <2>6 DEF TInv
<1>10. QED
  BY <1>6, <1>7, <1>8, <1>9

\* Time passes.
LEMMA TickTypes == ASSUME TInv, Tick PROVE TInv'
<1>1. TypeOK /\ PostOK
  BY DEF TInv
<1>2. /\ post \in [Carousels \X Posts -> PostState]
      /\ recent \in [Keys -> Entry]
  BY <1>1 DEF TypeOK, PostState, Entry
<1>3. \A n \in 0 .. REQUEST_CACHE : CountDown(n) \in 0 .. REQUEST_CACHE /\ (n = 0 => CountDown(n) = 0)
  BY DEF CountDown
<1>4. recent' = [k \in Keys |-> [recent[k] EXCEPT !.left = CountDown(recent[k].left)]]
  BY DEF Tick
<1>5. ASSUME NEW k \in Keys
      PROVE  [recent[k] EXCEPT !.left = CountDown(recent[k].left)] \in Entry
  BY <1>2, <1>3 DEF Entry
<1>6. recent' \in [Keys -> Entry]
  BY <1>4, <1>5
<1>7. post' = [x \in Carousels \X Posts |->
                  [post[x] EXCEPT !.window = CountDown(post[x].window)]]
  BY DEF Tick
<1>8. ASSUME NEW x \in Carousels \X Posts
      PROVE  /\ [post[x] EXCEPT !.window = CountDown(post[x].window)] \in PostState
             /\ [post[x] EXCEPT !.window = CountDown(post[x].window)].balloon = post[x].balloon
             /\ [post[x] EXCEPT !.window = CountDown(post[x].window)].sent = post[x].sent
             /\ post[x].window = 0 =>
                   [post[x] EXCEPT !.window = CountDown(post[x].window)].window = 0
  BY <1>2, <1>3 DEF PostState
<1>9. post' \in [Carousels \X Posts -> PostState]
  BY <1>7, <1>8
<1>10. PostOK'
  BY <1>1, <1>7, <1>8 DEF PostOK
<1>11. UNCHANGED <<scanned, placed, queue, inbox, shifted, task, rows>>
  BY DEF Tick, stream
<1>12. TypeOK'
  BY <1>1, <1>6, <1>9, <1>11 DEF TypeOK, PostState, Entry
<1>13. QED
  BY <1>10, <1>12 DEF TInv

\* A list expires.
LEMMA ExpiryTypes == ASSUME TInv, NEW r \in Readers, ExpireQueue(r) PROVE TInv'
<1>1. queue \in [Readers -> Seq(Balloons)] /\ <<>> \in Seq(Balloons)
  BY DEF TInv, TypeOK
<1>2. queue' \in [Readers -> Seq(Balloons)]
  BY <1>1 DEF ExpireQueue
<1>3. UNCHANGED <<scanned, placed, post, inbox, shifted, recent, task, rows>>
  BY DEF ExpireQueue, plant, stream
<1>4. QED
  BY <1>2, <1>3 DEF TInv, TypeOK, PostOK

----------------------------------------------------------------------------
(* The steps of a task *)

\* The steps that read frames, connect and lose them.
LEMMA ReadTypes ==
    ASSUME TInv, NEW c \in Carousels,
           \/ ReadDuplicate(c) \/ ReadFrame(c) \/ DropFrame(c) \/ DropPartialFrame(c)
           \/ Connect(c) \/ LoseConnection(c)
    PROVE  TInv'
<1>1. TypeOK /\ PostOK
  BY DEF TInv
<1>2. /\ inbox \in [Carousels -> Seq(Frame)]
      /\ task \in [Carousels -> TaskState]
  BY <1>1 DEF TypeOK, TaskState
<1>3. UNCHANGED <<scanned, placed, post, queue, recent, rows>>
  BY DEF ReadDuplicate, ReadFrame, DropFrame, DropPartialFrame, Connect, LoseConnection, plant
<1>4. ASSUME NextFrame(c)
      PROVE  inbox' \in [Carousels -> Seq(Frame)] /\ shifted' = shifted /\ Head(inbox[c]) \in Frame
  <2>1. inbox[c] \in Seq(Frame) /\ inbox[c] # <<>>
    BY <1>2, <1>4 DEF NextFrame
  <2>2. Tail(inbox[c]) \in Seq(Frame) /\ Head(inbox[c]) \in Frame
    BY <2>1
  <2>3. QED
    BY <1>2, <1>4, <2>2 DEF NextFrame
<1>5. /\ inbox' \in [Carousels -> Seq(Frame)]
      /\ shifted' \in [Carousels -> BOOLEAN]
      /\ task' \in [Carousels -> TaskState]
  <2>1. CASE ReadDuplicate(c) \/ DropFrame(c)
    BY <2>1, <1>1, <1>2, <1>4 DEF ReadDuplicate, DropFrame, TypeOK
  <2>2. CASE ReadFrame(c)
    <3>1. Goto(c, [step |-> "handle", frame |-> Head(inbox[c]), nfc |-> None])
      BY <2>2 DEF ReadFrame
    <3>2. None \in 0 .. MaxBalloons
      BY DEF None
    <3>3. NextFrame(c)
      BY <2>2 DEF ReadFrame
    <3>4. task' \in [Carousels -> TaskState]
      BY <1>1, <1>4, <3>1, <3>2, <3>3, BusyTask
    <3>5. QED
      BY <1>1, <1>4, <3>3, <3>4 DEF TypeOK
  <2>3. CASE DropPartialFrame(c) \/ LoseConnection(c)
    BY <2>3, <1>1, DisconnectType DEF DropPartialFrame, LoseConnection
  <2>4. CASE Connect(c)
    <3>1. task' = [task EXCEPT ![c] = Idle] /\ UNCHANGED <<inbox, shifted>>
      BY <2>4 DEF Connect, Goto, stream
    <3>2. QED
      BY <3>1, <1>1, <1>2 DEF TypeOK, TaskState
  <2>5. QED
    BY <2>1, <2>2, <2>3, <2>4
<1>6. QED
  BY <1>1, <1>3, <1>5 DEF TInv, TypeOK, PostOK, TaskState

\* The steps that handle a request.
LEMMA HandleTypes ==
    ASSUME TInv, NEW c \in Carousels,
           HandleFull(c) \/ HandleFillWithoutPassport(c) \/ HandleFill(c)
    PROVE  TInv'
<1> DEFINE f == task[c].frame
           r == ReaderOf[c]
<1>1. TypeOK /\ PostOK
  BY DEF TInv
<1>2. task[c].step = "handle"
  BY DEF HandleFull, HandleFillWithoutPassport, HandleFill
<1>3. f \in Frame /\ r \in Readers /\ None \in 0 .. MaxBalloons
  BY <1>1, <1>2, FrameAtWork DEF None
<1>4. UNCHANGED <<scanned, placed, post, rows>>
  BY DEF HandleFull, HandleFillWithoutPassport, HandleFill, plant
<1>5. /\ queue' \in [Readers -> Seq(Balloons)]
      /\ inbox' \in [Carousels -> Seq(Frame)]
      /\ shifted' \in [Carousels -> BOOLEAN]
      /\ recent' \in [Keys -> Entry]
      /\ task' \in [Carousels -> TaskState]
  <2>1. CASE HandleFull(c) \/ HandleFillWithoutPassport(c)
    <3>1. Handled(c, f, None) /\ UNCHANGED stream
      BY <2>1 DEF HandleFull, HandleFillWithoutPassport
    <3>2. queue' = queue \/ (queue[r] # <<>> /\ queue' = Pop(r))
      BY <2>1 DEF HandleFull, HandleFillWithoutPassport
    <3>3. queue' \in [Readers -> Seq(Balloons)]
      BY <3>2, <1>1, <1>3, PopType DEF TypeOK
    <3>4. recent' \in [Keys -> Entry] /\ task' \in [Carousels -> TaskState]
      BY <3>1, <1>1, <1>3, HandledType
    <3>5. QED
      BY <3>1, <3>3, <3>4, <1>1 DEF TypeOK, stream
  <2>2. CASE HandleFill(c)
    <3>1. queue[r] # <<>> /\ queue' = Pop(r)
      BY <2>2 DEF HandleFill
    <3>2. queue' \in [Readers -> Seq(Balloons)] /\ OldestOf(r) \in 0 .. MaxBalloons
      BY <3>1, <1>1, <1>3, PopType DEF Balloons
    <3>3. CASE Disconnect(c) /\ UNCHANGED recent
      BY <3>2, <3>3, <1>1, DisconnectType DEF TypeOK, Entry
    <3>4. CASE Handled(c, f, OldestOf(r)) /\ UNCHANGED stream
      <4>1. recent' \in [Keys -> Entry] /\ task' \in [Carousels -> TaskState]
        BY <3>2, <3>4, <1>1, <1>3, HandledType
      <4>2. QED
        BY <3>2, <3>4, <4>1, <1>1 DEF TypeOK, stream
    <3>5. QED
      BY <2>2, <3>3, <3>4 DEF HandleFill
  <2>3. QED
    BY <2>1, <2>2
<1>6. QED
  BY <1>1, <1>4, <1>5 DEF TInv, TypeOK, PostOK, TaskState, Entry

\* The steps that answer and store.
LEMMA StoreTypes ==
    ASSUME TInv, NEW c \in Carousels, WriteReply(c) \/ StoreData(c) \/ LoseData(c)
    PROVE  TInv'
<1> DEFINE f == task[c].frame
           n == task[c].nfc
<1>1. TypeOK /\ PostOK
  BY DEF TInv
<1>2. task[c].step \in {"reply", "store"}
  BY DEF WriteReply, StoreData, LoseData
<1>3. /\ task[c] \in Busy /\ f \in Frame /\ f.balloon \in Balloons /\ f.post \in Posts
      /\ n \in 0 .. MaxBalloons
  BY <1>1, <1>2, FrameAtWork
<1>4. task \in [Carousels -> TaskState] /\ rows \in Seq(Row)
  BY <1>1 DEF TypeOK, TaskState
<1>5. UNCHANGED <<scanned, placed, post, queue, inbox, shifted, recent>>
  BY DEF WriteReply, StoreData, LoseData, plant, stream
<1>6. task' \in [Carousels -> TaskState]
  <2>1. CASE WriteReply(c)
    <3>1. [task[c] EXCEPT !.step = "store"] \in Busy
      BY <1>3 DEF Busy
    <3>2. QED
      BY <2>1, <3>1, <1>4 DEF WriteReply, Goto, TaskState
  <2>2. CASE StoreData(c) \/ LoseData(c)
    BY <2>2, <1>4 DEF StoreData, LoseData, Goto, TaskState
  <2>3. QED
    BY <2>1, <2>2
<1>7. rows' \in Seq(Row)
  <2>1. CASE UNCHANGED rows
    BY <2>1, <1>4
  <2>2. CASE InsertRow(c, f, n)
    <3>1. [carousel |-> c, post |-> f.post, balloon |-> f.balloon, nfc |-> n, weighed |-> None] \in Row
      BY <1>3 DEF Row, None
    <3>2. QED
      BY <2>2, <3>1, <1>4 DEF InsertRow
  <2>3. CASE UpdateRow(c, f)
    <3>1. CASE UNCHANGED rows
      BY <3>1, <1>4
    <3>2. CASE \E i \in RowsOf(c, f.post) : rows' = [rows EXCEPT ![i].weighed = f.balloon]
      <4>1. PICK i \in RowsOf(c, f.post) : rows' = [rows EXCEPT ![i].weighed = f.balloon]
        BY <3>2
      <4>2. i \in DOMAIN rows /\ rows[i] \in Row
        BY <4>1, <1>4 DEF RowsOf
      <4>3. [rows[i] EXCEPT !.weighed = f.balloon] \in Row
        BY <4>2, <1>3 DEF Row, Balloons
      <4>4. rows' = [rows EXCEPT ![i] = [rows[i] EXCEPT !.weighed = f.balloon]]
        BY <4>1
      <4>5. QED
        BY <4>2, <4>3, <4>4, <1>4
    <3>3. QED
      BY <2>3, <3>1, <3>2 DEF UpdateRow
  <2>4. QED
    BY <2>1, <2>2, <2>3 DEF WriteReply, StoreData, LoseData
<1>8. QED
  BY <1>1, <1>5, <1>6, <1>7 DEF TInv, TypeOK, PostOK, TaskState

----------------------------------------------------------------------------

\* Every step, and every stuttering one, keeps the types.
LEMMA StepTypes == ASSUME TInv, [Next]_vars PROVE TInv'
<1>1. CASE UNCHANGED vars
  BY <1>1 DEF vars, plant, stream, TInv, TypeOK, PostOK
<1>2. CASE Plant
  BY <1>2, ScanTypes, ExpiryTypes, PostTypes, TickTypes DEF Plant
<1>3. CASE \E c \in Carousels : Task(c) \/ Failure(c)
  BY <1>3, ReadTypes, HandleTypes, StoreTypes DEF Task, Failure
<1>4. QED
  BY <1>1, <1>2, <1>3 DEF Next

\* The initial state has the types.
LEMMA InitTypes == Init => TInv
<1> SUFFICES ASSUME Init PROVE TInv
  OBVIOUS
<1>1. <<>> \in Seq(Balloons) /\ <<>> \in Seq(Frame) /\ rows \in Seq(Row)
  BY DEF Init
<1>2. PostOK
  BY DEF Init, PostOK, None
<1>3. TypeOK
  BY <1>1 DEF Init, TypeOK, None
<1>4. QED
  BY <1>2, <1>3 DEF TInv

\* The state of the plant, the listener, Redis and the table keeps its types, for any number
\* of carousels, posts, readers and balloons, whatever fails (serial_exchange).
THEOREM TypeCorrect == Spec => []TypeOK
<1>1. TInv => TypeOK
  BY DEF TInv
<1>2. QED
  BY <1>1, InitTypes, StepTypes, PTL DEF Spec
=============================================================================
