-------------------------- MODULE CarouselPassportProofs --------------------------
(***************************************************************************)
(* Every balloon gets its own passport, while nothing disturbs the         *)
(* listener and each reader serves one carousel: the reader's list, the    *)
(* line of the balloons and the frames under way stay in step.             *)
(***************************************************************************)
EXTENDS CarouselNominalProofs

USE ReaderAssumption, BoundAssumption

\* No two carousels take from one list.
OneCarouselPerReader == \A c, d \in Carousels : ReaderOf[c] = ReaderOf[d] => c = d

----------------------------------------------------------------------------
(* The invariant *)

\* How many of the balloons of a reader have been given their passport
Done(r) == scanned[r] - Len(queue[r])

\* The list of a reader is the balloons that passed it and have no passport yet, in the
\* order of the line; those that stand on a post and wait are the first of them.
InStep ==
    \A c \in Carousels :
        LET r == ReaderOf[c]
        IN  /\ Done(r) \in 0 .. placed[r]
            /\ placed[r] <= scanned[r]
            /\ \A i \in 1 .. Len(queue[r]) : queue[r][i] = Done(r) + i
            /\ \A p \in Posts : Bal(c, p) # None => (Bal(c, p) <= Done(r) <=> Served(c, p))

\* Every balloon that was placed and has no passport has a request under way.
AllAsk ==
    \A c \in Carousels :
        \A b \in Done(ReaderOf[c]) + 1 .. placed[ReaderOf[c]] :
            \E f \in Frame : f.type = "fill" /\ f.balloon = b /\ Awaits(c, f)

\* Requests are under way in the order of the line: before the one of a balloon that is not
\* the next there is one of the balloon before it.
InLine ==
    \A c \in Carousels :
        /\ \A f \in Frame :
              Handling(c, f) /\ f.type = "fill" => f.balloon = Done(ReaderOf[c]) + 1
        /\ \A i \in 1 .. Len(inbox[c]) :
              inbox[c][i].type = "fill" /\ inbox[c][i].balloon > Done(ReaderOf[c]) + 1 =>
                  \/ \E f \in Frame :
                        Handling(c, f) /\ f.type = "fill" /\ f.balloon = inbox[c][i].balloon - 1
                  \/ \E j \in 1 .. i - 1 :
                        inbox[c][j].type = "fill" /\ inbox[c][j].balloon = inbox[c][i].balloon - 1

OwnAtWork ==
    \A c \in Carousels, f \in Frame :
        Finishing(c, f) => task[c].nfc \in {None, f.balloon}

OwnInv == Steady /\ Standing /\ InStep /\ AllAsk /\ InLine /\ OwnAtWork /\ OwnPassport

----------------------------------------------------------------------------
(* The list of the reader *)

\* A balloon that is asking, or at work, has been placed and asks in its turn.
LEMMA Asking ==
    ASSUME Undisturbed, Steady, Standing, InStep, NEW c \in Carousels, NEW f \in Frame,
           Awaits(c, f), f.type = "fill"
    PROVE  /\ f.balloon = Bal(c, f.post) /\ f.balloon # None
           /\ f.balloon <= placed[ReaderOf[c]]
           /\ Left(c, "fill", f.post) > 0 => f.balloon <= Done(ReaderOf[c])
           /\ Left(c, "fill", f.post) = 0 => f.balloon > Done(ReaderOf[c])
<1>1. Current /\ Timed /\ "fill" \in Types
  BY DEF Steady, Types
<1>2. f.post \in Posts /\ f.balloon \in Balloons /\ f.balloon # None
  BY FrameFields DEF Balloons, None
<1>3. Bal(c, f.post) = f.balloon /\ HasSent(c, f.post) = "fill" /\ Win(c, f.post) > 0
  BY <1>1 DEF Current
<1>4. f.balloon <= placed[ReaderOf[c]]
  BY <1>2, <1>3 DEF Standing
<1>5. f.balloon <= Done(ReaderOf[c]) <=> Served(c, f.post)
  BY <1>2, <1>3 DEF InStep
<1>6. Done(ReaderOf[c]) \in Int /\ f.balloon \in Int
  BY <1>2 DEF InStep, Balloons
<1>7. Left(c, "fill", f.post) > 0 => Served(c, f.post)
  BY <1>1, <1>2, <1>3 DEF Timed, Served
<1>8. Left(c, "fill", f.post) = 0 => ~Served(c, f.post)
  BY <1>2, <1>3 DEF Served
<1>9. QED
  BY <1>2, <1>3, <1>4, <1>5, <1>6, <1>7, <1>8

\* A request at the handler takes the passport of its own balloon, the first of the list.
LEMMA HandlesOwn ==
    ASSUME Undisturbed, OwnInv, NEW c \in Carousels, Handles(c)
    PROVE  \E f \in Frame : \E n \in 0 .. MaxBalloons :
              /\ Remembers(c, f, n)
              /\ \/ f.type = "full" /\ n = None /\ UNCHANGED queue
                 \/ /\ f.type = "fill" /\ n = f.balloon /\ f.balloon = Done(ReaderOf[c]) + 1
                    /\ queue[ReaderOf[c]] # <<>>
                    /\ queue' = [queue EXCEPT ![ReaderOf[c]] = Tail(queue[ReaderOf[c]])]
<1>1. TypeOK /\ Steady /\ Standing /\ InStep /\ InLine
  BY DEF OwnInv, Steady, TInv
<1>2. PICK f \in Frame : \E n \in 0 .. MaxBalloons :
          /\ Remembers(c, f, n)
          /\ \/ f.type = "full" /\ n = None /\ UNCHANGED queue
             \/ f.type = "fill" /\ n = None /\ queue[ReaderOf[c]] = <<>>
             \/ /\ f.type = "fill" /\ queue[ReaderOf[c]] # <<>> /\ n = queue[ReaderOf[c]][1]
                /\ queue' = [queue EXCEPT ![ReaderOf[c]] = Tail(queue[ReaderOf[c]])]
  BY <1>1, HandlersRemember DEF Handles
<1>3. PICK n \in 0 .. MaxBalloons :
          /\ Remembers(c, f, n)
          /\ \/ f.type = "full" /\ n = None /\ UNCHANGED queue
             \/ f.type = "fill" /\ n = None /\ queue[ReaderOf[c]] = <<>>
             \/ /\ f.type = "fill" /\ queue[ReaderOf[c]] # <<>> /\ n = queue[ReaderOf[c]][1]
                /\ queue' = [queue EXCEPT ![ReaderOf[c]] = Tail(queue[ReaderOf[c]])]
  BY <1>2
<1>4. CASE f.type = "full"
  BY <1>3, <1>4
<1>5. CASE f.type = "fill"
  <2>1. Handling(c, f) /\ Awaits(c, f)
    BY <1>3 DEF Remembers, Awaits
  <2>2. f.balloon = Done(ReaderOf[c]) + 1 /\ f.balloon <= placed[ReaderOf[c]]
    BY <1>1, <1>5, <2>1, Asking DEF InLine
  <2>3. /\ queue[ReaderOf[c]] \in Seq(Balloons)
        /\ scanned[ReaderOf[c]] \in Nat /\ placed[ReaderOf[c]] \in Nat
    BY <1>1 DEF TypeOK
  <2>4. /\ placed[ReaderOf[c]] <= scanned[ReaderOf[c]]
        /\ \A i \in 1 .. Len(queue[ReaderOf[c]]) :
              queue[ReaderOf[c]][i] = Done(ReaderOf[c]) + i
    BY <1>1 DEF InStep
  <2>5. Len(queue[ReaderOf[c]]) \in Nat /\ Len(queue[ReaderOf[c]]) > 0
    BY <2>2, <2>3, <2>4 DEF Done
  <2>6. queue[ReaderOf[c]] # <<>> /\ queue[ReaderOf[c]][1] = Done(ReaderOf[c]) + 1
    BY <2>4, <2>5
  <2>7. QED
    BY <1>3, <1>5, <2>2, <2>6
<1>6. QED
  BY <1>3, <1>4, <1>5

\* Where the frame at the handler is known, so is the passport.
LEMMA RememberOwn ==
    ASSUME Undisturbed, OwnInv, [Next]_vars, NEW c \in Carousels, NEW f \in Frame, NEW n,
           Remembers(c, f, n)
    PROVE  /\ f.type = "full" => n = None
           /\ f.type = "fill" =>
                 /\ n = f.balloon /\ f.balloon = Done(ReaderOf[c]) + 1
                 /\ queue[ReaderOf[c]] # <<>>
                 /\ queue' = [queue EXCEPT ![ReaderOf[c]] = Tail(queue[ReaderOf[c]])]
                 /\ scanned' = scanned
<1>1. TypeOK /\ Steady
  BY DEF OwnInv, Steady, TInv
<1>2. Handling(c, f) /\ Finishing(c, f)' /\ scanned' = scanned
  BY DEF Remembers
<1>3. task'[c] # task[c]
  BY <1>2 DEF Handling, Finishing
<1>4. ASSUME NEW d \in Carousels,
             ReadDuplicate(d) \/ ReadFrame(d) \/ WriteReply(d) \/ StoreData(d)
      PROVE  FALSE
  <2>1. task[d].step # "handle"
    BY <1>4 DEF ReadDuplicate, ReadFrame, NextFrame, Idle, WriteReply, StoreData
  <2>2. c # d
    BY <1>2, <2>1 DEF Handling
  <2>3. CASE ReadDuplicate(d)
    BY <1>3, <2>3 DEF ReadDuplicate
  <2>4. CASE ReadFrame(d)
    BY <1>1, <1>3, <2>2, <2>4, FrameReads
  <2>5. CASE WriteReply(d)
    BY <1>1, <1>3, <2>2, <2>5, ReplyFacts
  <2>6. CASE StoreData(d)
    BY <1>1, <1>3, <2>2, <2>6, StoreFacts
  <2>7. QED
    BY <1>4, <2>3, <2>4, <2>5, <2>6
<1>5. ASSUME NEW d \in Carousels, NEW p \in Posts, Posting(d, p) PROVE FALSE
  BY <1>3, <1>5 DEF Posting, Place, Filled, Repeat, Leave, Send
<1>6. ASSUME UNCHANGED vars \/ Tick \/ \E r \in Readers : Passes(r) PROVE FALSE
  BY <1>3, <1>6 DEF vars, Tick, Passes, Scan
<1>7. PICK d \in Carousels : Handles(d)
  BY <1>1, <1>4, <1>5, <1>6, Steps
<1>8. PICK g \in Frame, m \in 0 .. MaxBalloons :
          /\ Remembers(d, g, m)
          /\ \/ g.type = "full" /\ m = None /\ UNCHANGED queue
             \/ /\ g.type = "fill" /\ m = g.balloon /\ g.balloon = Done(ReaderOf[d]) + 1
                /\ queue[ReaderOf[d]] # <<>>
                /\ queue' = [queue EXCEPT ![ReaderOf[d]] = Tail(queue[ReaderOf[d]])]
  BY <1>7, HandlesOwn
<1>9. d = c
  BY <1>3, <1>8 DEF Remembers
<1>10. g = f /\ m = n
  BY <1>8, <1>9 DEF Remembers, Handling
<1>11. QED
  BY <1>2, <1>8, <1>9, <1>10

\* What a step does to the list of the reader of a carousel: it grows at its end, or the
\* request at the handler takes its first.
LEMMA ListSteps ==
    ASSUME Undisturbed, OwnInv, OneCarouselPerReader, [Next]_vars, NEW c \in Carousels
    PROVE  /\ scanned[ReaderOf[c]] <= scanned'[ReaderOf[c]]
           /\ \A i \in 1 .. Len(queue'[ReaderOf[c]]) :
                 queue'[ReaderOf[c]][i] = Done(ReaderOf[c])' + i
           /\ \/ /\ Done(ReaderOf[c])' = Done(ReaderOf[c])
                 /\ ~\E f \in Frame : f.type = "fill" /\ \E n : Remembers(c, f, n)
              \/ /\ Done(ReaderOf[c])' = Done(ReaderOf[c]) + 1
                 /\ \E f \in Frame :
                       /\ f.type = "fill" /\ f.balloon = Done(ReaderOf[c]) + 1
                       /\ \E n : Remembers(c, f, n)
<1>1. TypeOK /\ Steady /\ InStep /\ TypeOK'
  BY StepSteady DEF OwnInv, Steady, TInv
<1>2. PICK r \in Readers : r = ReaderOf[c]
  BY ReaderAssumption
<1>3. /\ queue \in [Readers -> Seq(Balloons)] /\ scanned \in [Readers -> 0 .. MaxBalloons]
      /\ queue[r] \in Seq(Balloons) /\ scanned[r] \in Nat /\ Len(queue[r]) \in Nat
  <2>1. MaxBalloons \in Nat
    OBVIOUS
  <2>2. queue \in [Readers -> Seq(Balloons)] /\ scanned \in [Readers -> 0 .. MaxBalloons]
    BY <1>1 DEF TypeOK
  <2>3. queue[r] \in Seq(Balloons) /\ scanned[r] \in 0 .. MaxBalloons
    BY <2>2
  <2>4. QED
    BY <2>1, <2>2, <2>3
<1>4. \A i \in 1 .. Len(queue[r]) : queue[r][i] = Done(r) + i
  BY <1>1, <1>2 DEF InStep
<1>5. ASSUME NEW f \in Frame, f.type = "fill", \E n : Remembers(c, f, n)
      PROVE  /\ scanned'[r] = scanned[r] /\ Done(r)' = Done(r) + 1 /\ f.balloon = Done(r) + 1
             /\ \A i \in 1 .. Len(queue'[r]) : queue'[r][i] = Done(r)' + i
  <2>1. /\ f.balloon = Done(r) + 1 /\ queue[r] # <<>>
        /\ queue' = [queue EXCEPT ![r] = Tail(queue[r])] /\ scanned' = scanned
    BY <1>2, <1>5, RememberOwn
  <2>2. queue'[r] = Tail(queue[r])
    BY <1>3, <2>1
  <2>3. /\ Len(Tail(queue[r])) = Len(queue[r]) - 1
        /\ \A i \in 1 .. Len(queue[r]) - 1 : Tail(queue[r])[i] = queue[r][i + 1]
    BY <1>3, <2>1
  <2>4. Done(r)' = Done(r) + 1
    BY <1>3, <2>1, <2>2, <2>3 DEF Done
  <2>5. ASSUME NEW i \in 1 .. Len(queue'[r]) PROVE queue'[r][i] = Done(r)' + i
    <3>1. i + 1 \in 1 .. Len(queue[r]) /\ queue'[r][i] = queue[r][i + 1]
      BY <1>3, <2>2, <2>3
    <3>2. queue[r][i + 1] = Done(r) + (i + 1)
      BY <3>1, <1>4
    <3>3. Done(r) \in Int
      BY <1>3 DEF Done
    <3>4. QED
      BY <3>1, <3>2, <3>3, <2>4
  <2>6. QED
    BY <2>1, <2>4, <2>5
<1>6. ASSUME queue'[r] = queue[r], scanned'[r] = scanned[r]
      PROVE  /\ scanned[r] <= scanned'[r] /\ Done(r)' = Done(r)
             /\ \A i \in 1 .. Len(queue'[r]) : queue'[r][i] = Done(r)' + i
  <2>1. Done(r)' = Done(r)
    BY <1>6 DEF Done
  <2>2. QED
    BY <1>3, <1>4, <1>6, <2>1
<1>7. ASSUME NEW s \in Readers, Passes(s)
      PROVE  /\ scanned[r] <= scanned'[r] /\ Done(r)' = Done(r)
             /\ \A i \in 1 .. Len(queue'[r]) : queue'[r][i] = Done(r)' + i
  <2>1. /\ queue' = [queue EXCEPT ![s] = Append(queue[s], scanned[s] + 1)]
        /\ scanned' = [scanned EXCEPT ![s] = scanned[s] + 1]
    BY <1>7 DEF Passes, Scan
  <2>2. CASE s # r
    BY <1>3, <1>6, <2>1, <2>2
  <2>3. CASE s = r
    <3>1. queue'[r] = Append(queue[r], scanned[r] + 1) /\ scanned'[r] = scanned[r] + 1
      BY <1>3, <2>1, <2>3
    <3>2. /\ Len(queue'[r]) = Len(queue[r]) + 1
          /\ \A i \in 1 .. Len(queue[r]) : queue'[r][i] = queue[r][i]
          /\ queue'[r][Len(queue[r]) + 1] = scanned[r] + 1
      BY <1>3, <3>1
    <3>3. Done(r)' = Done(r) /\ Done(r) \in Int /\ Done(r) + Len(queue[r]) = scanned[r]
      BY <1>3, <3>1, <3>2 DEF Done
    <3>4. ASSUME NEW i \in 1 .. Len(queue'[r]) PROVE queue'[r][i] = Done(r)' + i
      <4>1. i \in 1 .. Len(queue[r]) \/ i = Len(queue[r]) + 1
        BY <1>3, <3>2
      <4>2. CASE i \in 1 .. Len(queue[r])
        BY <4>2, <1>4, <3>2, <3>3
      <4>3. CASE i = Len(queue[r]) + 1
        BY <4>3, <1>3, <3>2, <3>3
      <4>4. QED
        BY <4>1, <4>2, <4>3
    <3>5. scanned[r] <= scanned'[r]
      BY <1>3, <3>1
    <3>6. QED
      BY <3>3, <3>4, <3>5
  <2>4. QED
    BY <2>2, <2>3
<1>8. ASSUME NEW d \in Carousels, NEW p \in Posts, Posting(d, p)
      PROVE  queue'[r] = queue[r] /\ scanned'[r] = scanned[r]
  BY <1>8 DEF Posting, Place, Filled, Repeat, Leave, Send
<1>9. ASSUME NEW d \in Carousels, ReadDuplicate(d) \/ ReadFrame(d) \/ WriteReply(d) \/ StoreData(d)
      PROVE  queue'[r] = queue[r] /\ scanned'[r] = scanned[r]
  BY <1>9 DEF ReadDuplicate, ReadFrame, WriteReply, StoreData, plant
<1>10. ASSUME UNCHANGED vars \/ Tick PROVE queue'[r] = queue[r] /\ scanned'[r] = scanned[r]
  BY <1>10 DEF vars, plant, Tick
<1>11. ASSUME NEW d \in Carousels, Handles(d),
              ~\E f \in Frame : f.type = "fill" /\ \E n : Remembers(c, f, n)
       PROVE  queue'[r] = queue[r] /\ scanned'[r] = scanned[r]
  <2>1. PICK f \in Frame, n \in 0 .. MaxBalloons :
            /\ Remembers(d, f, n)
            /\ \/ UNCHANGED queue
               \/ f.type = "fill" /\ queue' = [queue EXCEPT ![ReaderOf[d]] = Tail(queue[ReaderOf[d]])]
    BY <1>11, HandlesOwn
  <2>2. scanned' = scanned
    BY <2>1 DEF Remembers
  <2>3. CASE UNCHANGED queue
    BY <2>2, <2>3
  <2>4. CASE /\ f.type = "fill"
             /\ queue' = [queue EXCEPT ![ReaderOf[d]] = Tail(queue[ReaderOf[d]])]
    <3>1. d # c
      BY <1>11, <2>1, <2>4
    <3>2. ReaderOf[d] # r
      BY <3>1, <1>2 DEF OneCarouselPerReader
    <3>3. QED
      BY <3>2, <2>2, <2>4, <1>3
  <2>5. QED
    BY <2>1, <2>3, <2>4
<1>12. CASE \E f \in Frame : f.type = "fill" /\ \E n : Remembers(c, f, n)
  <2>1. PICK f \in Frame : f.type = "fill" /\ \E n : Remembers(c, f, n)
    BY <1>12
  <2>2. QED
    BY <2>1, <1>2, <1>3, <1>5
<1>13. CASE ~\E f \in Frame : f.type = "fill" /\ \E n : Remembers(c, f, n)
  <2>1. /\ scanned[r] <= scanned'[r] /\ Done(r)' = Done(r)
        /\ \A i \in 1 .. Len(queue'[r]) : queue'[r][i] = Done(r)' + i
    BY <1>1, <1>6, <1>7, <1>8, <1>9, <1>10, <1>11, <1>13, Steps
  <2>2. QED
    BY <2>1, <1>2, <1>13
<1>14. QED
  BY <1>12, <1>13

\* What a step does to the balloons of a carousel.
LEMMA PlacedSteps ==
    ASSUME Undisturbed, OwnInv, OneCarouselPerReader, [Next]_vars, NEW c \in Carousels
    PROVE  /\ \/ placed'[ReaderOf[c]] = placed[ReaderOf[c]]
              \/ /\ placed'[ReaderOf[c]] = placed[ReaderOf[c]] + 1
                 /\ placed[ReaderOf[c]] < scanned[ReaderOf[c]]
                 /\ \E p \in Posts : Place(c, p)
           /\ \A p \in Posts :
                 \/ Bal(c, p)' = Bal(c, p)
                 \/ Place(c, p) /\ Bal(c, p)' = placed[ReaderOf[c]] + 1
                 \/ Bal(c, p)' = None
<1>1. TypeOK /\ Steady
  BY DEF OwnInv, Steady, TInv
<1>2. PICK r \in Readers : r = ReaderOf[c]
  BY ReaderAssumption
<1>3. placed \in [Readers -> 0 .. MaxBalloons] /\ placed[r] \in Nat
  <2>1. placed \in [Readers -> 0 .. MaxBalloons] /\ MaxBalloons \in Nat
    BY <1>1 DEF TypeOK
  <2>2. QED
    BY <2>1
<1>4. ASSUME NEW d \in Carousels, NEW p \in Posts, Place(d, p)
      PROVE  /\ placed' = [placed EXCEPT ![ReaderOf[d]] = placed[ReaderOf[d]] + 1]
             /\ placed[ReaderOf[d]] < scanned[ReaderOf[d]]
             /\ Bal(d, p)' = placed[ReaderOf[d]] + 1
             /\ \A e \in Carousels, q \in Posts : e # d \/ q # p => Bal(e, q)' = Bal(e, q)
  BY <1>1, <1>4, PlaceSends DEF Sends, Puts
<1>5. CASE \E d \in Carousels : \E p \in Posts : Place(d, p)
  <2>1. PICK d \in Carousels, p \in Posts : Place(d, p)
    BY <1>5
  <2>2. CASE d = c
    <3>1. placed'[r] = placed[r] + 1 /\ placed[r] < scanned[r]
      BY <2>1, <2>2, <1>2, <1>3, <1>4
    <3>2. QED
      BY <2>1, <2>2, <3>1, <1>2, <1>4
  <2>3. CASE d # c
    <3>1. placed'[r] = placed[r]
      BY <2>1, <2>3, <1>2, <1>3, <1>4 DEF OneCarouselPerReader
    <3>2. QED
      BY <2>1, <2>3, <3>1, <1>2, <1>4
  <2>4. QED
    BY <2>2, <2>3
<1>6. CASE \E d \in Carousels : \E p \in Posts : Leave(d, p)
  <2>1. PICK d \in Carousels, p \in Posts : Leave(d, p)
    BY <1>6
  <2>2. placed' = placed /\ Puts(d, p, None, "nothing", 0)
    BY <1>1, <2>1, LeavePuts
  <2>3. QED
    BY <2>2 DEF Puts
<1>7. CASE /\ \A d \in Carousels, q \in Posts : Bal(d, q)' = Bal(d, q)
           /\ placed' = placed
  BY <1>7
<1>8. QED
  BY <1>1, <1>5, <1>6, <1>7, BalloonSteps

LEMMA InStepSteps ==
    ASSUME Undisturbed, OwnInv, OneCarouselPerReader, [Next]_vars
    PROVE  InStep'
<1>1. TypeOK /\ Steady /\ Standing /\ InStep /\ InLine
  BY DEF OwnInv, Steady, TInv
<1> SUFFICES ASSUME NEW c \in Carousels
             PROVE  /\ Done(ReaderOf[c])' \in 0 .. placed'[ReaderOf[c]]
                    /\ placed'[ReaderOf[c]] <= scanned'[ReaderOf[c]]
                    /\ \A i \in 1 .. Len(queue'[ReaderOf[c]]) :
                          queue'[ReaderOf[c]][i] = Done(ReaderOf[c])' + i
                    /\ \A p \in Posts :
                          Bal(c, p)' # None =>
                              (Bal(c, p)' <= Done(ReaderOf[c])' <=> Served(c, p)')
  BY DEF InStep
<1>2. PICK r \in Readers : r = ReaderOf[c]
  BY ReaderAssumption
<1>3. /\ scanned[r] \in Nat /\ scanned'[r] \in Nat /\ placed[r] \in Nat
      /\ \A p \in Posts : Bal(c, p) \in Nat
      /\ Done(r) \in Nat /\ Done(r) <= placed[r] /\ placed[r] <= scanned[r]
  <2>1. TypeOK'
    BY <1>1, StepSteady DEF Steady, TInv
  <2>2. MaxBalloons \in Nat
    OBVIOUS
  <2>3. /\ placed \in [Readers -> 0 .. MaxBalloons] /\ scanned \in [Readers -> 0 .. MaxBalloons]
        /\ scanned' \in [Readers -> 0 .. MaxBalloons]
    BY <1>1, <2>1 DEF TypeOK
  <2>4. placed[r] \in Nat /\ scanned[r] \in Nat /\ scanned'[r] \in Nat
    BY <2>2, <2>3
  <2>5. \A p \in Posts : Bal(c, p) \in Nat
    BY <1>1, <2>2, WordTypes
  <2>6. Done(r) \in 0 .. placed[r] /\ placed[r] <= scanned[r]
    BY <1>1, <1>2 DEF InStep
  <2>7. QED
    BY <2>4, <2>5, <2>6
<1>4. /\ scanned[r] <= scanned'[r]
      /\ \A i \in 1 .. Len(queue'[r]) : queue'[r][i] = Done(r)' + i
      /\ \/ /\ Done(r)' = Done(r)
            /\ ~\E f \in Frame : f.type = "fill" /\ \E n : Remembers(c, f, n)
         \/ /\ Done(r)' = Done(r) + 1
            /\ \E f \in Frame :
                  f.type = "fill" /\ f.balloon = Done(r) + 1 /\ \E n : Remembers(c, f, n)
  BY <1>2, ListSteps
<1>5. /\ \/ placed'[r] = placed[r]
         \/ placed'[r] = placed[r] + 1 /\ placed[r] < scanned[r]
      /\ \A p \in Posts :
            \/ Bal(c, p)' = Bal(c, p)
            \/ Place(c, p) /\ Bal(c, p)' = placed[r] + 1
            \/ Bal(c, p)' = None
  BY <1>2, PlacedSteps
<1>6. ASSUME NEW f \in Frame, f.type = "fill", NEW n, Remembers(c, f, n)
      PROVE  /\ f.post \in Posts /\ f.balloon = Bal(c, f.post) /\ f.balloon # None
             /\ f.balloon <= placed[r]
             /\ Served(c, f.post)' /\ f.balloon = Done(r) + 1
  <2>1. Awaits(c, f)
    BY <1>6 DEF Remembers, Awaits
  <2>2. QED
    BY <2>1, <1>1, <1>2, <1>6, Asking, HandledServed, RememberOwn, FrameFields
<1>7. Done(r)' \in 0 .. placed'[r]
  <2>1. Done(r)' = Done(r) \/ (Done(r)' = Done(r) + 1 /\ Done(r) + 1 <= placed[r])
    BY <1>4, <1>6
  <2>2. QED
    BY <2>1, <1>3, <1>5
<1>8. placed'[r] <= scanned'[r]
  BY <1>3, <1>4, <1>5
<1>9. ASSUME NEW p \in Posts, Bal(c, p)' # None
      PROVE  Bal(c, p)' <= Done(r)' <=> Served(c, p)'
  <2>1. Bal(c, p) # None => (Bal(c, p) <= Done(r) <=> Served(c, p))
    BY <1>1, <1>2 DEF InStep
  <2>2. CASE Place(c, p)
    <3>1. ~Served(c, p)'
      BY <1>1, <2>2, PlaceServed
    <3>2. Bal(c, p)' = placed[r] + 1
      BY <1>1, <1>2, <2>2, PlaceSends DEF Sends, Puts
    <3>3. Done(r)' <= placed[r]
      BY <1>3, <1>4, <1>6
    <3>4. Done(r)' \in Int
      BY <1>3, <1>4
    <3>5. QED
      BY <3>1, <3>2, <3>3, <3>4, <1>3
  <2>3. CASE ~Place(c, p) /\ \E f \in Frame : f.type = "fill" /\ f.post = p /\ \E n : Remembers(c, f, n)
    <3>1. PICK f \in Frame : f.type = "fill" /\ f.post = p /\ \E n : Remembers(c, f, n)
      BY <2>3
    <3>2. Served(c, p)' /\ Bal(c, p) = Done(r) + 1
      BY <3>1, <1>6
    <3>3. Bal(c, p)' = Bal(c, p)
      BY <2>3, <1>5, <1>9
    <3>4. Done(r)' = Done(r) + 1
      BY <1>4, <3>1
    <3>5. QED
      BY <3>2, <3>3, <3>4, <1>3
  <2>4. CASE ~Place(c, p) /\ ~\E f \in Frame : f.type = "fill" /\ f.post = p /\ \E n : Remembers(c, f, n)
    <3>1. Served(c, p)' <=> Served(c, p)
      BY <1>1, <2>4, ServedSteps
    <3>2. Bal(c, p)' = Bal(c, p)
      BY <2>4, <1>5, <1>9
    <3>3. CASE Done(r)' = Done(r)
      BY <3>1, <3>2, <3>3, <2>1, <1>9
    <3>4. CASE Done(r)' = Done(r) + 1 /\ Done(r)' # Done(r)
      <4>1. PICK f \in Frame : f.type = "fill" /\ \E n : Remembers(c, f, n)
        BY <1>4, <3>4
      <4>2. f.post \in Posts /\ f.post # p /\ Bal(c, f.post) = Done(r) + 1 /\ Bal(c, f.post) # None
        BY <2>4, <4>1, <1>6
      <4>3. Bal(c, p) # Done(r) + 1
        BY <1>1, <4>2 DEF Standing
      <4>4. Bal(c, p) <= Done(r)' <=> Bal(c, p) <= Done(r)
        BY <4>3, <3>4, <1>3
      <4>5. QED
        BY <4>4, <3>1, <3>2, <2>1, <1>9
    <3>5. QED
      BY <3>3, <3>4, <1>4
  <2>5. QED
    BY <2>2, <2>3, <2>4
<1>10. QED
  BY <1>2, <1>4, <1>7, <1>8, <1>9

----------------------------------------------------------------------------
(* The frames under way *)

\* What a step does to the stream and the handler of a carousel.
LEMMA StreamSteps ==
    ASSUME Undisturbed, Steady, [Next]_vars, NEW c \in Carousels
    PROVE  \/ /\ inbox'[c] = inbox[c]
              /\ \A f \in Frame : Handling(c, f)' => Handling(c, f)
              /\ \A f \in Frame : Handling(c, f) => Handling(c, f)' \/ \E n : Remembers(c, f, n)
           \/ \E p \in Posts : \E g \in Frame : \E w :
                 /\ Sends(c, g, w) /\ g.post = p
                 /\ \/ Place(c, p) /\ g.balloon = placed[ReaderOf[c]] + 1
                    \/ Repeat(c, p) /\ g.balloon = Bal(c, p)
                    \/ g.type = "full"
           \/ \E h \in Frame :
                 /\ Reads(c, h)
                 /\ \/ Left(c, h.type, h.post) > 0 /\ task'[c] = Idle
                    \/ /\ Left(c, h.type, h.post) = 0
                       /\ \A f \in Frame : Handling(c, f)' <=> f = h
<1>1. TypeOK
  BY DEF Steady, TInv
<1>2. inbox \in [Carousels -> Seq(Frame)]
  BY <1>1 DEF TypeOK
<1>3. ASSUME UNCHANGED <<inbox, task>>
      PROVE  /\ inbox'[c] = inbox[c]
             /\ \A f \in Frame : Handling(c, f)' <=> Handling(c, f)
  BY <1>3 DEF Handling
<1>4. ASSUME NEW d \in Carousels, NEW p \in Posts, Posting(d, p)
      PROVE  \/ UNCHANGED <<inbox, task>>
             \/ \E g \in Frame : \E w :
                   /\ Sends(d, g, w) /\ g.post = p
                   /\ \/ Place(d, p) /\ g.balloon = placed[ReaderOf[d]] + 1
                      \/ Repeat(d, p) /\ g.balloon = Bal(d, p)
                      \/ g.type = "full"
  BY <1>1, <1>4, PlaceSends, FilledSends, RepeatSends, LeavePuts DEF Posting
<1>5. ASSUME NEW d \in Carousels, NEW g \in Frame, NEW w, Sends(d, g, w), d # c
      PROVE  /\ inbox'[c] = inbox[c]
             /\ \A f \in Frame : Handling(c, f)' <=> Handling(c, f)
  BY <1>2, <1>5 DEF Sends, Handling
<1>6. ASSUME NEW d \in Carousels, ReadDuplicate(d) \/ ReadFrame(d)
      PROVE  \E h \in Frame :
                /\ Reads(d, h)
                /\ \A e \in Carousels : e # d => task'[e] = task[e]
                /\ \/ Left(d, h.type, h.post) > 0 /\ task'[d] = Idle
                   \/ /\ Left(d, h.type, h.post) = 0
                      /\ task'[d].step = "handle" /\ task'[d].frame = h
  <2>1. CASE ReadDuplicate(d)
    BY <2>1, <1>1, DuplicateReads DEF Reads
  <2>2. CASE ReadFrame(d)
    <3>1. PICK h \in Frame :
              /\ Reads(d, h) /\ Left(d, h.type, h.post) = 0
              /\ task'[d] = [step |-> "handle", frame |-> h, nfc |-> None]
              /\ \A e \in Carousels : e # d => task'[e] = task[e]
      BY <2>2, <1>1, FrameReads
    <3>2. task'[d].step = "handle" /\ task'[d].frame = h
      BY <3>1
    <3>3. QED
      BY <3>1, <3>2
  <2>3. QED
    BY <1>6, <2>1, <2>2
<1>7. ASSUME NEW d \in Carousels, ReadDuplicate(d) \/ ReadFrame(d), d # c
      PROVE  /\ inbox'[c] = inbox[c]
             /\ \A f \in Frame : Handling(c, f)' <=> Handling(c, f)
  BY <1>2, <1>6, <1>7 DEF Reads, Handling
<1>8. ASSUME NEW d \in Carousels, Handles(d)
      PROVE  /\ inbox'[c] = inbox[c]
             /\ \A f \in Frame : Handling(c, f)' => Handling(c, f)
             /\ \A f \in Frame : Handling(c, f) => Handling(c, f)' \/ \E n : Remembers(c, f, n)
  <2>1. PICK f \in Frame, n \in 0 .. MaxBalloons : Remembers(d, f, n)
    BY <1>1, <1>8, HandlersRemember DEF Handles
  <2>2. inbox' = inbox
    BY <2>1 DEF Remembers
  <2>3. QED
    BY <2>1, <2>2, RememberFlight
<1>9. ASSUME NEW d \in Carousels, WriteReply(d) \/ StoreData(d)
      PROVE  /\ inbox'[c] = inbox[c]
             /\ \A f \in Frame : Handling(c, f)' <=> Handling(c, f)
  <2>1. PICK f \in Frame :
            /\ Finishing(d, f) /\ task'[d].step # "handle"
            /\ \A e \in Carousels : e # d => task'[e] = task[e]
            /\ inbox' = inbox
    BY <1>1, <1>9, ReplyFacts, StoreFacts DEF Idle
  <2>2. QED
    BY <2>1 DEF Finishing, Handling
<1>10. ASSUME UNCHANGED vars \/ Tick \/ \E r \in Readers : Passes(r) PROVE UNCHANGED <<inbox, task>>
  BY <1>10 DEF vars, stream, Tick, Passes, Scan
<1>11. ASSUME NEW p \in Posts, Posting(c, p), ~UNCHANGED <<inbox, task>>
       PROVE  \E g \in Frame : \E w :
                 /\ Sends(c, g, w) /\ g.post = p
                 /\ \/ Place(c, p) /\ g.balloon = placed[ReaderOf[c]] + 1
                    \/ Repeat(c, p) /\ g.balloon = Bal(c, p)
                    \/ g.type = "full"
  BY <1>4, <1>11
<1>12. ASSUME NEW d \in Carousels, d # c, NEW p \in Posts, Posting(d, p)
       PROVE  /\ inbox'[c] = inbox[c]
              /\ \A f \in Frame : Handling(c, f)' <=> Handling(c, f)
  <2>1. UNCHANGED <<inbox, task>> \/ \E g \in Frame : \E w : Sends(d, g, w)
    BY <1>4, <1>12
  <2>2. QED
    BY <2>1, <1>3, <1>5, <1>12
<1>13. ASSUME ReadDuplicate(c) \/ ReadFrame(c)
       PROVE  \E h \in Frame :
                 /\ Reads(c, h)
                 /\ \/ Left(c, h.type, h.post) > 0 /\ task'[c] = Idle
                    \/ /\ Left(c, h.type, h.post) = 0
                       /\ \A f \in Frame : Handling(c, f)' <=> f = h
  <2>1. PICK h \in Frame :
            /\ Reads(c, h)
            /\ \/ Left(c, h.type, h.post) > 0 /\ task'[c] = Idle
               \/ /\ Left(c, h.type, h.post) = 0
                  /\ task'[c].step = "handle" /\ task'[c].frame = h
    BY <1>6, <1>13
  <2>2. QED
    BY <2>1 DEF Handling
<1>14. CASE \E p \in Posts : Posting(c, p)
  BY <1>3, <1>11, <1>14
<1>15. CASE \E d \in Carousels : d # c /\ \E p \in Posts : Posting(d, p)
  BY <1>12, <1>15
<1>16. CASE \E d \in Carousels : ReadDuplicate(d) \/ ReadFrame(d)
  BY <1>7, <1>13, <1>16
<1>17. CASE \E d \in Carousels : Handles(d) \/ WriteReply(d) \/ StoreData(d)
  BY <1>8, <1>9, <1>17
<1>18. CASE UNCHANGED vars \/ Tick \/ \E r \in Readers : Passes(r)
  BY <1>3, <1>10, <1>18
<1>19. QED
  BY <1>14, <1>15, <1>16, <1>17, <1>18, Steps

\* A frame that is no longer under way was handled, or had been before.
LEMMA AwaitSteps ==
    ASSUME Undisturbed, Steady, [Next]_vars, NEW c \in Carousels, NEW f \in Frame, Awaits(c, f)
    PROVE  \/ Awaits(c, f)'
           \/ Left(c, f.type, f.post) > 0
           \/ \E n : Remembers(c, f, n)
<1>1. CASE /\ inbox'[c] = inbox[c]
           /\ \A g \in Frame : Handling(c, g) => Handling(c, g)' \/ \E n : Remembers(c, g, n)
  BY <1>1 DEF Awaits, Pending
<1>2. CASE \E g \in Frame : \E w : Sends(c, g, w)
  BY <1>2, SendFlight
<1>3. ASSUME NEW h \in Frame, Reads(c, h),
             \/ Left(c, h.type, h.post) > 0
             \/ \A g \in Frame : Handling(c, g)' <=> g = h
      PROVE  Awaits(c, f)' \/ Left(c, f.type, f.post) > 0
  <2>1. f \in Pending(c)
    BY <1>3, ReadFlight DEF Awaits
  <2>2. f \in Pending(c)' \/ f = h
    BY <1>3, <2>1, ReadFlight
  <2>3. QED
    BY <1>3, <2>2 DEF Awaits
<1>4. QED
  BY <1>1, <1>2, <1>3, StreamSteps

LEMMA AllAskSteps ==
    ASSUME Undisturbed, OwnInv, OneCarouselPerReader, [Next]_vars
    PROVE  AllAsk'
<1>1. Steady /\ Standing /\ InStep /\ AllAsk
  BY DEF OwnInv
<1> SUFFICES ASSUME NEW c \in Carousels, NEW b \in Done(ReaderOf[c])' + 1 .. placed'[ReaderOf[c]]
             PROVE  \E f \in Frame : f.type = "fill" /\ f.balloon = b /\ Awaits(c, f)'
  BY DEF AllAsk
<1>2. PICK r \in Readers : r = ReaderOf[c]
  BY ReaderAssumption
<1>3. Done(r) \in 0 .. placed[r] /\ placed[r] \in Nat /\ Done(r)' \in 0 .. placed'[r]
  <2>1. placed \in [Readers -> 0 .. MaxBalloons] /\ MaxBalloons \in Nat
    BY <1>1 DEF Steady, TInv, TypeOK
  <2>2. placed[r] \in Nat
    BY <2>1
  <2>3. QED
    BY <1>1, <1>2, <2>2, InStepSteps DEF InStep
<1>4. /\ b \in Int /\ b > Done(r)' /\ b <= placed'[r]
      /\ Done(r)' = Done(r) \/ Done(r)' = Done(r) + 1
  <2>1. Done(r)' = Done(r) \/ Done(r)' = Done(r) + 1
    BY <1>2, ListSteps
  <2>2. placed'[r] = placed[r] \/ placed'[r] = placed[r] + 1
    BY <1>2, PlacedSteps
  <2>3. QED
    BY <1>2, <1>3, <2>1, <2>2
<1>5. CASE b <= placed[r]
  <2>1. b \in Done(r) + 1 .. placed[r]
    BY <1>3, <1>4, <1>5
  <2>2. PICK f \in Frame : f.type = "fill" /\ f.balloon = b /\ Awaits(c, f)
    BY <1>1, <1>2, <2>1 DEF AllAsk
  <2>3. ~(Left(c, f.type, f.post) > 0)
    BY <1>1, <1>2, <1>3, <1>4, <2>2, Asking
  <2>4. ~\E n : Remembers(c, f, n)
    <3>1. SUFFICES ASSUME \E n : Remembers(c, f, n) PROVE FALSE
      OBVIOUS
    <3>2. b = Done(r) + 1
      BY <1>2, <2>2, <3>1, RememberOwn
    <3>3. Done(r)' = Done(r) + 1
      BY <1>2, <2>2, <3>1, ListSteps
    <3>4. QED
      BY <1>3, <1>4, <3>2, <3>3
  <2>5. QED
    BY <1>1, <2>2, <2>3, <2>4, AwaitSteps
<1>6. CASE ~(b <= placed[r])
  <2>1. b = placed[r] + 1 /\ \E p \in Posts : Place(c, p)
    BY <1>2, <1>3, <1>4, <1>6, PlacedSteps
  <2>2. PICK f \in Frame : f.type = "fill" /\ f.balloon = b /\ Sends(c, f, REQUEST_CACHE)
    BY <1>1, <1>2, <2>1, PlaceSends
  <2>3. Awaits(c, f)'
    BY <2>2, SendFlight
  <2>4. QED
    BY <2>2, <2>3
<1>7. QED
  BY <1>5, <1>6

LEMMA InLineSteps ==
    ASSUME Undisturbed, OwnInv, OneCarouselPerReader, [Next]_vars
    PROVE  InLine'
<1>1. TypeOK /\ Steady /\ Standing /\ InStep /\ AllAsk /\ InLine
  BY DEF OwnInv, Steady, TInv
<1> SUFFICES ASSUME NEW c \in Carousels
             PROVE  /\ \A f \in Frame :
                          Handling(c, f)' /\ f.type = "fill" => f.balloon = Done(ReaderOf[c])' + 1
                    /\ \A i \in 1 .. Len(inbox'[c]) :
                          /\ inbox'[c][i].type = "fill"
                          /\ inbox'[c][i].balloon > Done(ReaderOf[c])' + 1
                          => \/ \E f \in Frame : /\ Handling(c, f)' /\ f.type = "fill"
                                                 /\ f.balloon = inbox'[c][i].balloon - 1
                             \/ \E j \in 1 .. i - 1 :
                                   /\ inbox'[c][j].type = "fill"
                                   /\ inbox'[c][j].balloon = inbox'[c][i].balloon - 1
  BY DEF InLine
<1>2. PICK r \in Readers : r = ReaderOf[c]
  BY ReaderAssumption
<1>3. /\ Done(r) \in Nat /\ placed[r] \in Nat /\ Done(r) <= placed[r]
      /\ inbox \in [Carousels -> Seq(Frame)] /\ inbox[c] \in Seq(Frame) /\ Len(inbox[c]) \in Nat
      /\ \A i \in 1 .. Len(inbox[c]) : inbox[c][i] \in Frame /\ inbox[c][i] \in Pending(c)
      /\ \A f \in Frame : f.balloon \in Nat
  <2>1. placed \in [Readers -> 0 .. MaxBalloons] /\ MaxBalloons \in Nat
        /\ inbox \in [Carousels -> Seq(Frame)]
    BY <1>1 DEF TypeOK
  <2>2. placed[r] \in Nat /\ inbox[c] \in Seq(Frame)
    BY <2>1
  <2>3. Done(r) \in 0 .. placed[r]
    BY <1>1, <1>2 DEF InStep
  <2>4. \A f \in Frame : f.balloon \in Nat
    BY FrameFields DEF Balloons
  <2>5. QED
    BY <2>1, <2>2, <2>3, <2>4 DEF Pending
<1>4. /\ Done(r)' \in Nat /\ Done(r) <= Done(r)'
      /\ \/ /\ Done(r)' = Done(r)
            /\ ~\E f \in Frame : f.type = "fill" /\ \E n : Remembers(c, f, n)
         \/ /\ Done(r)' = Done(r) + 1
            /\ \E f \in Frame :
                  f.type = "fill" /\ f.balloon = Done(r) + 1 /\ \E n : Remembers(c, f, n)
  BY <1>2, <1>3, ListSteps
<1>5. \A f \in Frame : Handling(c, f) /\ f.type = "fill" => f.balloon = Done(r) + 1
  BY <1>1, <1>2 DEF InLine
<1>6. \A i \in 1 .. Len(inbox[c]) :
         inbox[c][i].type = "fill" /\ inbox[c][i].balloon > Done(r) + 1 =>
             \/ \E f \in Frame :
                   Handling(c, f) /\ f.type = "fill" /\ f.balloon = inbox[c][i].balloon - 1
             \/ \E j \in 1 .. i - 1 :
                   inbox[c][j].type = "fill" /\ inbox[c][j].balloon = inbox[c][i].balloon - 1
  BY <1>1, <1>2 DEF InLine
<1>7. ASSUME inbox'[c] = inbox[c],
             \A f \in Frame : Handling(c, f)' => Handling(c, f),
             \A f \in Frame : Handling(c, f) => Handling(c, f)' \/ \E n : Remembers(c, f, n)
      PROVE  /\ \A f \in Frame : Handling(c, f)' /\ f.type = "fill" => f.balloon = Done(r)' + 1
             /\ \A i \in 1 .. Len(inbox'[c]) :
                   inbox'[c][i].type = "fill" /\ inbox'[c][i].balloon > Done(r)' + 1 =>
                       \/ \E f \in Frame : /\ Handling(c, f)' /\ f.type = "fill"
                                           /\ f.balloon = inbox'[c][i].balloon - 1
                       \/ \E j \in 1 .. i - 1 : /\ inbox'[c][j].type = "fill"
                                                /\ inbox'[c][j].balloon = inbox'[c][i].balloon - 1
  <2>1. ASSUME NEW f \in Frame, Handling(c, f)', f.type = "fill" PROVE f.balloon = Done(r)' + 1
    <3>1. ~\E g \in Frame : \E n : Remembers(c, g, n)
      BY <2>1, RememberFlight
    <3>2. Done(r)' = Done(r)
      BY <3>1, <1>4
    <3>3. QED
      BY <2>1, <3>2, <1>5, <1>7
  <2>2. ASSUME NEW i \in 1 .. Len(inbox[c]), inbox[c][i].type = "fill",
               inbox[c][i].balloon > Done(r)' + 1
        PROVE  \/ \E f \in Frame : /\ Handling(c, f)' /\ f.type = "fill"
                                   /\ f.balloon = inbox[c][i].balloon - 1
               \/ \E j \in 1 .. i - 1 : /\ inbox[c][j].type = "fill"
                                        /\ inbox[c][j].balloon = inbox[c][i].balloon - 1
    <3>1. inbox[c][i].balloon > Done(r) + 1 /\ inbox[c][i].balloon \in Nat
      BY <1>3, <1>4, <2>2
    <3>2. CASE \E f \in Frame :
                  Handling(c, f) /\ f.type = "fill" /\ f.balloon = inbox[c][i].balloon - 1
      <4>1. PICK f \in Frame :
                Handling(c, f) /\ f.type = "fill" /\ f.balloon = inbox[c][i].balloon - 1
        BY <3>2
      <4>2. ~\E n : Remembers(c, f, n)
        BY <4>1, <1>3, <1>4, <1>5, <2>2, <3>1
      <4>3. QED
        BY <4>1, <4>2, <1>7
    <3>3. QED
      BY <3>1, <3>2, <1>6, <2>2
  <2>3. QED
    BY <1>7, <2>1, <2>2
<1>8. ASSUME NEW g \in Frame, NEW w, Sends(c, g, w),
             g.type = "fill" => g.balloon <= placed[r] + 1
      PROVE  /\ \A f \in Frame : Handling(c, f)' /\ f.type = "fill" => f.balloon = Done(r)' + 1
             /\ \A i \in 1 .. Len(inbox'[c]) :
                   inbox'[c][i].type = "fill" /\ inbox'[c][i].balloon > Done(r)' + 1 =>
                       \/ \E f \in Frame : /\ Handling(c, f)' /\ f.type = "fill"
                                           /\ f.balloon = inbox'[c][i].balloon - 1
                       \/ \E j \in 1 .. i - 1 : /\ inbox'[c][j].type = "fill"
                                                /\ inbox'[c][j].balloon = inbox'[c][i].balloon - 1
  <2>1. \A f \in Frame : Handling(c, f)' <=> Handling(c, f)
    BY <1>8, SendFlight
  <2>2. Done(r)' = Done(r)
    <3>1. queue' = queue /\ scanned' = scanned
      BY <1>8 DEF Sends
    <3>2. QED
      BY <3>1 DEF Done
  <2>3. inbox'[c] = Append(inbox[c], g)
    BY <1>3, <1>8 DEF Sends
  <2>4. /\ Len(inbox'[c]) = Len(inbox[c]) + 1
        /\ \A i \in 1 .. Len(inbox[c]) : inbox'[c][i] = inbox[c][i]
        /\ inbox'[c][Len(inbox[c]) + 1] = g
    BY <1>3, <2>3
  <2>5. ASSUME NEW i \in 1 .. Len(inbox[c]), inbox[c][i].type = "fill",
               inbox[c][i].balloon > Done(r) + 1
        PROVE  \/ \E f \in Frame : /\ Handling(c, f)' /\ f.type = "fill"
                                   /\ f.balloon = inbox[c][i].balloon - 1
               \/ \E j \in 1 .. i - 1 : /\ inbox'[c][j].type = "fill"
                                        /\ inbox'[c][j].balloon = inbox[c][i].balloon - 1
    <3>1. ASSUME NEW j \in 1 .. i - 1 PROVE inbox'[c][j] = inbox[c][j]
      <4>1. j \in 1 .. Len(inbox[c])
        BY <1>3
      <4>2. QED
        BY <2>4, <4>1
    <3>2. QED
      BY <3>1, <1>6, <2>1, <2>5
  <2>6. ASSUME g.type = "fill", g.balloon > Done(r) + 1
        PROVE  \/ \E f \in Frame : /\ Handling(c, f)' /\ f.type = "fill"
                                   /\ f.balloon = g.balloon - 1
               \/ \E j \in 1 .. Len(inbox[c]) : /\ inbox'[c][j].type = "fill"
                                                /\ inbox'[c][j].balloon = g.balloon - 1
    <3>1. g.balloon - 1 \in Done(r) + 1 .. placed[r]
      BY <1>3, <1>8, <2>6
    <3>2. PICK f \in Frame : f.type = "fill" /\ f.balloon = g.balloon - 1 /\ Awaits(c, f)
      BY <1>1, <1>2, <3>1 DEF AllAsk
    <3>3. CASE Handling(c, f)
      BY <2>1, <3>2, <3>3
    <3>4. CASE f \in Pending(c)
      <4>1. PICK j \in 1 .. Len(inbox[c]) : inbox[c][j] = f
        BY <3>4 DEF Pending
      <4>2. QED
        BY <2>4, <3>2, <4>1
    <3>5. QED
      BY <3>2, <3>3, <3>4 DEF Awaits
  <2>7. ASSUME NEW i \in 1 .. Len(inbox'[c]), inbox'[c][i].type = "fill",
               inbox'[c][i].balloon > Done(r)' + 1
        PROVE  \/ \E f \in Frame : /\ Handling(c, f)' /\ f.type = "fill"
                                   /\ f.balloon = inbox'[c][i].balloon - 1
               \/ \E j \in 1 .. i - 1 : /\ inbox'[c][j].type = "fill"
                                        /\ inbox'[c][j].balloon = inbox'[c][i].balloon - 1
    <3>1. CASE i \in 1 .. Len(inbox[c])
      BY <2>2, <2>4, <2>5, <2>7, <3>1
    <3>2. CASE i = Len(inbox[c]) + 1
      <4>1. inbox'[c][i] = g /\ i - 1 = Len(inbox[c])
        BY <1>3, <2>4, <3>2
      <4>2. QED
        BY <4>1, <2>2, <2>6, <2>7
    <3>3. QED
      BY <1>3, <2>4, <3>1, <3>2
  <2>8. QED
    BY <1>5, <2>1, <2>2, <2>7
<1>9. ASSUME NEW h \in Frame, Reads(c, h),
             \/ Left(c, h.type, h.post) > 0 /\ task'[c] = Idle
             \/ Left(c, h.type, h.post) = 0 /\ \A f \in Frame : Handling(c, f)' <=> f = h
      PROVE  /\ \A f \in Frame : Handling(c, f)' /\ f.type = "fill" => f.balloon = Done(r)' + 1
             /\ \A i \in 1 .. Len(inbox'[c]) :
                   inbox'[c][i].type = "fill" /\ inbox'[c][i].balloon > Done(r)' + 1 =>
                       \/ \E f \in Frame : /\ Handling(c, f)' /\ f.type = "fill"
                                           /\ f.balloon = inbox'[c][i].balloon - 1
                       \/ \E j \in 1 .. i - 1 : /\ inbox'[c][j].type = "fill"
                                                /\ inbox'[c][j].balloon = inbox'[c][i].balloon - 1
  <2>1. Done(r)' = Done(r)
    <3>1. queue' = queue /\ scanned' = scanned
      BY <1>9 DEF Reads
    <3>2. QED
      BY <3>1 DEF Done
  <2>2. h \in Pending(c) /\ \A f \in Frame : ~Handling(c, f)
    BY <1>9, ReadFlight
  <2>3. Awaits(c, h)
    BY <2>2 DEF Awaits
  <2>4. /\ inbox[c] # <<>> /\ h = inbox[c][1] /\ inbox'[c] = Tail(inbox[c])
    BY <1>3, <1>9 DEF Reads
  <2>5. /\ Len(inbox'[c]) = Len(inbox[c]) - 1
        /\ \A i \in 1 .. Len(inbox'[c]) : inbox'[c][i] = inbox[c][i + 1] /\ i + 1 \in 1 .. Len(inbox[c])
        /\ 1 \in 1 .. Len(inbox[c])
    BY <1>3, <2>4
  <2>6. h.type = "fill" /\ Left(c, "fill", h.post) = 0 => h.balloon = Done(r) + 1
    <3>1. SUFFICES ASSUME h.type = "fill", Left(c, "fill", h.post) = 0
                   PROVE  h.balloon = Done(r) + 1
      OBVIOUS
    <3>2. h.balloon > Done(r) /\ h.balloon \in Nat
      BY <1>1, <1>2, <1>3, <2>3, <3>1, Asking
    <3>3. inbox[c][1].balloon > Done(r) + 1 =>
             \E j \in 1 .. 1 - 1 :
                 inbox[c][j].type = "fill" /\ inbox[c][j].balloon = inbox[c][1].balloon - 1
      BY <1>6, <2>2, <2>4, <2>5, <3>1
    <3>4. QED
      BY <1>3, <2>4, <3>2, <3>3
  <2>7. h.type = "fill" /\ Left(c, "fill", h.post) > 0 => h.balloon <= Done(r)
    BY <1>1, <1>2, <2>3, Asking
  <2>8. \A f \in Frame : Handling(c, f)' => f = h /\ Left(c, h.type, h.post) = 0
    BY <1>9 DEF Handling, Idle
  <2>9. ASSUME NEW i \in 1 .. Len(inbox'[c]), inbox'[c][i].type = "fill",
               inbox'[c][i].balloon > Done(r)' + 1
        PROVE  \/ \E f \in Frame : /\ Handling(c, f)' /\ f.type = "fill"
                                   /\ f.balloon = inbox'[c][i].balloon - 1
               \/ \E j \in 1 .. i - 1 : /\ inbox'[c][j].type = "fill"
                                        /\ inbox'[c][j].balloon = inbox'[c][i].balloon - 1
    <3>1. /\ inbox'[c][i] = inbox[c][i + 1] /\ i + 1 \in 1 .. Len(inbox[c])
          /\ inbox[c][i + 1].balloon \in Nat
      BY <1>3, <2>5
    <3>2. PICK j \in 1 .. (i + 1) - 1 :
              inbox[c][j].type = "fill" /\ inbox[c][j].balloon = inbox[c][i + 1].balloon - 1
      BY <1>6, <2>1, <2>2, <2>9, <3>1
    <3>3. CASE j = 1
      <4>1. h.type = "fill" /\ h.balloon = inbox'[c][i].balloon - 1 /\ h.balloon > Done(r)
        BY <1>3, <2>1, <2>4, <2>9, <3>1, <3>2, <3>3
      <4>2. Left(c, h.type, h.post) = 0
        BY <1>3, <1>9, <2>7, <4>1
      <4>3. Handling(c, h)'
        BY <1>9, <4>2
      <4>4. QED
        BY <4>1, <4>3
    <3>4. CASE j # 1
      <4>1. j - 1 \in 1 .. i - 1 /\ j - 1 \in 1 .. Len(inbox'[c]) /\ (j - 1) + 1 = j
        BY <1>3, <2>5, <3>1, <3>4
      <4>2. inbox'[c][j - 1] = inbox[c][j]
        BY <2>5, <4>1
      <4>3. QED
        BY <3>1, <3>2, <4>1, <4>2
    <3>5. QED
      BY <3>3, <3>4
  <2>10. QED
    BY <2>1, <2>6, <2>8, <2>9
<1>10. ASSUME NEW p \in Posts, NEW g \in Frame, g.post = p,
              \/ Place(c, p) /\ g.balloon = placed[r] + 1
              \/ Repeat(c, p) /\ g.balloon = Bal(c, p)
              \/ g.type = "full"
       PROVE  g.type = "fill" => g.balloon <= placed[r] + 1
  <2>1. Bal(c, p) <= placed[r]
    BY <1>1, <1>2 DEF Standing
  <2>2. QED
    BY <1>3, <1>10, <2>1
<1>11. QED
  BY <1>1, <1>2, <1>7, <1>8, <1>9, <1>10, StreamSteps

----------------------------------------------------------------------------
(* The passports at work and in the table *)

\* A task at work on a frame got it from its handler.
LEMMA AtWorkSteps ==
    ASSUME Undisturbed, OwnInv, [Next]_vars
    PROVE  OwnAtWork'
<1>1. TypeOK /\ Steady /\ OwnAtWork
  BY DEF OwnInv, Steady, TInv
<1> SUFFICES ASSUME NEW c \in Carousels, NEW f \in Frame, Finishing(c, f)'
             PROVE  task'[c].nfc \in {None, f.balloon}
  BY DEF OwnAtWork
<1>2. ASSUME task'[c] = task[c] PROVE task'[c].nfc \in {None, f.balloon}
  <2>1. Finishing(c, f)
    BY <1>2 DEF Finishing
  <2>2. QED
    BY <1>1, <1>2, <2>1 DEF OwnAtWork
<1>3. ASSUME NEW d \in Carousels, ReadDuplicate(d) \/ ReadFrame(d) \/ StoreData(d)
      PROVE  task'[c] = task[c]
  <2>1. CASE ReadDuplicate(d)
    BY <2>1 DEF ReadDuplicate
  <2>2. CASE ReadFrame(d)
    <3>1. PICK h \in Frame :
              /\ task'[d] = [step |-> "handle", frame |-> h, nfc |-> None]
              /\ \A e \in Carousels : e # d => task'[e] = task[e]
      BY <1>1, <2>2, FrameReads
    <3>2. task'[d].step = "handle"
      BY <3>1
    <3>3. c # d
      BY <3>2 DEF Finishing
    <3>4. QED
      BY <3>1, <3>3
  <2>3. CASE StoreData(d)
    <3>1. task'[d].step = "read" /\ \A e \in Carousels : e # d => task'[e] = task[e]
      BY <1>1, <2>3, StoreFacts DEF Idle
    <3>2. c # d
      BY <3>1 DEF Finishing
    <3>3. QED
      BY <3>1, <3>2
  <2>4. QED
    BY <1>3, <2>1, <2>2, <2>3
<1>4. ASSUME NEW d \in Carousels, Handles(d) PROVE task'[c].nfc \in {None, f.balloon}
  <2>1. PICK g \in Frame, n \in 0 .. MaxBalloons : Remembers(d, g, n) /\ n \in {None, g.balloon}
    BY <1>4, HandlesOwn
  <2>2. CASE c # d
    BY <1>2, <2>1, <2>2 DEF Remembers
  <2>3. CASE c = d
    <3>1. g = f /\ task'[c].nfc = n
      BY <2>1, <2>3 DEF Remembers, Finishing
    <3>2. QED
      BY <2>1, <3>1
  <2>4. QED
    BY <2>2, <2>3
<1>5. ASSUME NEW d \in Carousels, WriteReply(d) PROVE task'[c].nfc \in {None, f.balloon}
  <2>1. PICK g \in Frame :
            /\ Finishing(d, g) /\ Finishing(d, g)' /\ task'[d].nfc = task[d].nfc
            /\ \A e \in Carousels : e # d => task'[e] = task[e]
    BY <1>1, <1>5, ReplyFacts
  <2>2. CASE c # d
    BY <1>2, <2>1, <2>2
  <2>3. CASE c = d
    <3>1. g = f
      BY <2>1, <2>3 DEF Finishing
    <3>2. QED
      BY <1>1, <2>1, <2>3, <3>1 DEF OwnAtWork
  <2>4. QED
    BY <2>2, <2>3
<1>6. ASSUME NEW d \in Carousels, NEW p \in Posts, Posting(d, p) PROVE task'[c] = task[c]
  BY <1>6 DEF Posting, Place, Filled, Repeat, Leave, Send
<1>7. ASSUME UNCHANGED vars \/ Tick \/ \E r \in Readers : Passes(r) PROVE task'[c] = task[c]
  BY <1>7 DEF vars, Tick, Passes, Scan
<1>8. QED
  BY <1>1, <1>2, <1>3, <1>4, <1>5, <1>6, <1>7, Steps

\* A row is made with the passport at work.
LEMMA OwnRowSteps ==
    ASSUME Undisturbed, OwnInv, [Next]_vars
    PROVE  OwnPassport'
<1>1. TypeOK /\ Steady /\ OwnAtWork /\ OwnPassport
  BY DEF OwnInv, Steady, TInv
<1>2. CASE rows' = rows
  BY <1>1, <1>2 DEF OwnPassport
<1>3. CASE \E c \in Carousels : StoreData(c)
  <2>1. PICK c \in Carousels : StoreData(c)
    BY <1>3
  <2>2. PICK f \in Frame :
            /\ Finishing(c, f) /\ task[c].nfc \in 0 .. MaxBalloons
            /\ InsertRow(c, f, task[c].nfc) \/ UpdateRow(c, f)
    BY <1>1, <2>1, StoreFacts
  <2>3. CASE InsertRow(c, f, task[c].nfc)
    <3>1. PICK n \in 0 .. MaxBalloons : n = task[c].nfc
      BY <2>2
    <3>2. /\ DOMAIN rows' = DOMAIN rows \union {Len(rows) + 1}
          /\ \A i \in DOMAIN rows : rows'[i] = rows[i]
          /\ rows'[Len(rows) + 1].balloon = f.balloon
          /\ rows'[Len(rows) + 1].nfc = n
      BY <1>1, <2>3, <3>1, InsertFacts
    <3>3. n \in {None, f.balloon}
      BY <1>1, <2>2, <3>1 DEF OwnAtWork
    <3>4. QED
      BY <1>1, <3>2, <3>3 DEF OwnPassport
  <2>4. CASE UpdateRow(c, f)
    <3>1. \/ rows' = rows
          \/ /\ DOMAIN rows' = DOMAIN rows
             /\ \A i \in DOMAIN rows :
                   rows'[i].balloon = rows[i].balloon /\ rows'[i].nfc = rows[i].nfc
      BY <1>1, <2>4, UpdateFacts
    <3>2. QED
      BY <1>1, <1>2, <3>1 DEF OwnPassport
  <2>5. QED
    BY <2>2, <2>3, <2>4
<1>4. QED
  BY <1>1, <1>2, <1>3, RowSteps

LEMMA InitOwn == ASSUME Undisturbed, Init PROVE OwnInv
<1>1. Steady
  BY InitSteady
<1>2. \A c \in Carousels, p \in Posts : Bal(c, p) = None
  BY DEF Init, Bal
<1>3. \A c \in Carousels :
         /\ placed[ReaderOf[c]] = 0 /\ scanned[ReaderOf[c]] = 0 /\ queue[ReaderOf[c]] = <<>>
         /\ inbox[c] = <<>> /\ task[c].step = "read"
  BY DEF Init, Idle
<1>4. \A c \in Carousels : Done(ReaderOf[c]) = 0
  BY <1>3 DEF Done
<1>5. Standing
  BY <1>2, <1>3 DEF Standing, None
<1>6. InStep
  BY <1>2, <1>3, <1>4 DEF InStep
<1>7. AllAsk
  BY <1>3, <1>4 DEF AllAsk
<1>8. InLine
  BY <1>3 DEF InLine, Handling
<1>9. OwnAtWork
  BY <1>3 DEF OwnAtWork, Finishing
<1>10. OwnPassport
  BY DEF Init, OwnPassport
<1>11. QED
  BY <1>1, <1>5, <1>6, <1>7, <1>8, <1>9, <1>10 DEF OwnInv

\* While nothing is disturbed and each reader serves one carousel, every row names the passport
\* of its own balloon: on any number of posts the requests are handled in the order in which the
\* balloons passed the reader, although a request does not say which balloon it is about
\* (request_processing takes the oldest passport of the list).
THEOREM OwnPassports ==
    ASSUME Undisturbed, OneCarouselPerReader
    PROVE  Spec => []OwnPassport
<1>1. Init => OwnInv
  BY InitOwn
<1>2. OwnInv /\ [Next]_vars => OwnInv'
  <2> SUFFICES ASSUME OwnInv, [Next]_vars PROVE OwnInv'
    OBVIOUS
  <2>1. Steady /\ Standing
    BY DEF OwnInv
  <2>2. Steady' /\ Standing'
    BY <2>1, StepSteady, StandingSteps
  <2>3. QED
    BY <2>2, InStepSteps, AllAskSteps, InLineSteps, AtWorkSteps, OwnRowSteps DEF OwnInv
<1>3. OwnInv => OwnPassport
  BY DEF OwnInv
<1>4. QED
  BY <1>1, <1>2, <1>3, PTL DEF Spec
=============================================================================
