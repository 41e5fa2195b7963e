-------------------------- MODULE CarouselNominalProofs --------------------------
(***************************************************************************)
(* What the listener promises while nothing disturbs it: one passport for  *)
(* a balloon however often its post repeats a frame, every answer in the   *)
(* table, and the full weight on the row of the same balloon.  Theorems    *)
(* for any number of carousels, posts, readers, balloons and repetitions.  *)
(***************************************************************************)
EXTENDS CarouselListenerTypes

USE ReaderAssumption, BoundAssumption

\* Nothing fails, frames are handled in no time, a repeated frame weighs what the first
\* one did, no answer is too large to encode, and the cache remembers at all.
Undisturbed ==
    /\ Prompt
    /\ ~MayFail
    /\ Drift = {0}
    /\ Oversized \subseteq Refused
    /\ REQUEST_CACHE > 0

----------------------------------------------------------------------------
(* The words of the invariant *)

Bal(c, p) == post[<<c, p>>].balloon
HasSent(c, p) == post[<<c, p>>].sent
Win(c, p) == post[<<c, p>>].window
Left(c, t, p) == recent[<<c, t, p, 0>>].left
Nfc(c, t, p) == recent[<<c, t, p, 0>>].nfc

Pending(c) == {inbox[c][i] : i \in 1 .. Len(inbox[c])}
Handling(c, f) == task[c].step = "handle" /\ task[c].frame = f
Finishing(c, f) == task[c].step \in {"reply", "store"} /\ task[c].frame = f

\* A frame that has been sent and not been looked up in the cache and remembered
Awaits(c, f) == f \in Pending(c) \/ Handling(c, f)
Waiting(c, t, p) == \E f \in Frame : f.type = t /\ f.post = p /\ Awaits(c, f)

\* A frame under way was sent by the balloon that still stands on the post, in the window
\* in which the post may repeat it.
Current ==
    \A c \in Carousels :
        /\ task[c].step # "offline"
        /\ ~shifted[c]
        /\ \A f \in Frame :
              Awaits(c, f) \/ Finishing(c, f) =>
                  /\ Bal(c, f.post) = f.balloon
                  /\ HasSent(c, f.post) = f.type
                  /\ Win(c, f.post) > 0

\* The entry of the cache lives exactly as long as the post may repeat the frame; there is
\* none before the first frame is handled and after the next kind of frame is sent.
Timed ==
    \A c \in Carousels, t \in Types, p \in Posts :
        \/ HasSent(c, p) = t /\ Left(c, t, p) = Win(c, p)
        \/ HasSent(c, p) = t /\ Left(c, t, p) = 0 /\ Win(c, p) = REQUEST_CACHE /\ Waiting(c, t, p)
        \/ HasSent(c, p) # t /\ Left(c, t, p) = 0

\* A frame is remembered when it is handled, not before.
Remembered ==
    \A c \in Carousels, f \in Frame :
        /\ Handling(c, f) => Left(c, f.type, f.post) = 0
        /\ Finishing(c, f) => Left(c, f.type, f.post) > 0

Steady == TInv /\ Current /\ Timed /\ Remembered

----------------------------------------------------------------------------
\* A balloon stands on one post, and has been placed.
Standing ==
    \A c \in Carousels, p \in Posts :
        /\ Bal(c, p) <= placed[ReaderOf[c]]
        /\ \A d \in Carousels, q \in Posts :
              /\ ReaderOf[c] = ReaderOf[d]
              /\ Bal(c, p) = Bal(d, q)
              /\ Bal(c, p) # None
              => c = d /\ p = q

\* The request of the balloon on a post has been handled
Served(c, p) == HasSent(c, p) # "fill" \/ Left(c, "fill", p) = Win(c, p)

TakenForServed ==
    \A x \in taken :
        /\ x[1] \in Readers
        /\ x[2] \in Balloons
        /\ x[2] <= placed[x[1]]
        /\ \A c \in Carousels, p \in Posts :
              ReaderOf[c] = x[1] /\ Bal(c, p) = x[2] => Served(c, p)

OnceInv == Steady /\ Standing /\ TakenForServed /\ OnePassportPerRequest

----------------------------------------------------------------------------
\* The row of the balloon on a post is the last one of the post, once it is stored
Stored(c, p) ==
    /\ Bal(c, p) # None
    /\ Served(c, p)
    /\ \A f \in Frame : f.post = p /\ f.type = "fill" => ~Finishing(c, f)

LastRowIsOwn ==
    \A c \in Carousels, p \in Posts :
        Stored(c, p) => \E i \in DOMAIN rows : IsLast(i, c, p) /\ rows[i].balloon = Bal(c, p)

RowInv == Steady /\ LastRowIsOwn /\ FullWeightOnOwnRow

----------------------------------------------------------------------------
Recorded(c, b, n) ==
    \E i \in DOMAIN rows : rows[i].carousel = c /\ rows[i].balloon = b /\ rows[i].nfc = n

\* An answer that is remembered is in the table or about to be put there.
CachedAreRecorded ==
    \A c \in Carousels, t \in Types, p \in Posts :
        Left(c, t, p) > 0 /\ Nfc(c, t, p) # None =>
            \/ Recorded(c, Bal(c, p), Nfc(c, t, p))
            \/ \E f \in Frame : Finishing(c, f) /\ f.type = "fill" /\ f.post = p
                                /\ task[c].nfc = Nfc(c, t, p)

ToldAreRecorded ==
    \A x \in told :
        /\ x[1] \in Carousels
        /\ \/ Recorded(x[1], x[2], x[3])
           \/ \E f \in Frame : task[x[1]].step = "store" /\ Finishing(x[1], f) /\ f.type = "fill"
                               /\ f.balloon = x[2] /\ task[x[1]].nfc = x[3]

\* Only a FILL frame is answered.
AnsweredIsFill ==
    \A c \in Carousels, f \in Frame :
        task[c].step = "reply" /\ Finishing(c, f) => f.type = "fill"

AnswerInv == Steady /\ CachedAreRecorded /\ ToldAreRecorded /\ AnsweredIsFill

----------------------------------------------------------------------------
(* What the words stand for, and how the steps change it *)

\* A frame whose weight does not drift.
LEMMA FrameFields ==
    ASSUME Undisturbed, NEW f \in Frame
    PROVE  /\ f.type \in Types /\ f.post \in Posts /\ f.gram = 0 /\ f.balloon \in Balloons
           /\ \A c : Key(c, f) = <<c, f.type, f.post, 0>>
  BY DEF Undisturbed, Frame, Key

\* The types of the words.
LEMMA WordTypes ==
    ASSUME Undisturbed, TypeOK, NEW c \in Carousels
    PROVE  /\ Pending(c) \subseteq Frame
           /\ \A p \in Posts :
                 /\ Bal(c, p) \in 0 .. MaxBalloons
                 /\ HasSent(c, p) \in Types \union {"nothing"}
                 /\ Win(c, p) \in 0 .. REQUEST_CACHE
                 /\ \A t \in Types :
                       /\ Left(c, t, p) \in 0 .. REQUEST_CACHE
                       /\ Nfc(c, t, p) \in 0 .. MaxBalloons
<1>1. inbox[c] \in Seq(Frame)
  BY DEF TypeOK
<1>2. Pending(c) \subseteq Frame
  BY <1>1 DEF Pending
<1>3. ASSUME NEW p \in Posts
      PROVE  /\ Bal(c, p) \in 0 .. MaxBalloons
             /\ HasSent(c, p) \in Types \union {"nothing"}
             /\ Win(c, p) \in 0 .. REQUEST_CACHE
             /\ \A t \in Types :
                   /\ Left(c, t, p) \in 0 .. REQUEST_CACHE
                   /\ Nfc(c, t, p) \in 0 .. MaxBalloons
  <2>1. <<c, p>> \in Carousels \X Posts /\ \A t \in Types : <<c, t, p, 0>> \in Keys
    BY DEF Keys, Undisturbed
  <2>2. /\ post \in [Carousels \X Posts -> PostState]
        /\ recent \in [Keys -> Entry]
    BY DEF TypeOK, PostState, Entry
  <2>3. post[<<c, p>>] \in PostState /\ \A t \in Types : recent[<<c, t, p, 0>>] \in Entry
    BY <2>1, <2>2
  <2>4. QED
    BY <2>3 DEF PostState, Entry, Bal, HasSent, Win, Left, Nfc
<1>4. QED
  BY <1>2, <1>3

\* What is appended to a sequence joins its elements.
LEMMA AppendRange ==
    ASSUME NEW S, NEW s \in Seq(S), NEW e \in S
    PROVE  {Append(s, e)[i] : i \in 1 .. Len(Append(s, e))} = {s[i] : i \in 1 .. Len(s)} \union {e}
<1>1. /\ Len(s) \in Nat /\ Len(Append(s, e)) = Len(s) + 1
      /\ \A i \in 1 .. Len(s) : Append(s, e)[i] = s[i]
      /\ Append(s, e)[Len(s) + 1] = e
  OBVIOUS
<1>2. 1 .. Len(s) + 1 = (1 .. Len(s)) \union {Len(s) + 1}
  BY <1>1
<1>3. QED
  BY <1>1, <1>2, Zenon

\* A post is put in a state.
Puts(c, p, b, t, w) ==
    /\ Bal(c, p)' = b /\ HasSent(c, p)' = t /\ Win(c, p)' = w
    /\ \A d \in Carousels, q \in Posts :
          d # c \/ q # p =>
              Bal(d, q)' = Bal(d, q) /\ HasSent(d, q)' = HasSent(d, q) /\ Win(d, q)' = Win(d, q)

\* A post sends a frame.
Sends(c, f, w) ==
    /\ Puts(c, f.post, f.balloon, f.type, w)
    /\ inbox' = [inbox EXCEPT ![c] = Append(inbox[c], f)]
    /\ Pending(c)' = Pending(c) \union {f}
    /\ \A d \in Carousels : d # c => Pending(d)' = Pending(d)
    /\ UNCHANGED <<scanned, queue, shifted, recent, task, rows, history>>

\* The state of one post changes.
LEMMA PutsPost ==
    ASSUME TypeOK, NEW c \in Carousels, NEW p \in Posts, NEW at \in PostState,
           post' = [post EXCEPT ![<<c, p>>] = at]
    PROVE  Puts(c, p, at.balloon, at.sent, at.window)
<1>1. post \in [Carousels \X Posts -> PostState] /\ <<c, p>> \in Carousels \X Posts
  BY DEF TypeOK, PostState
<1>2. post'[<<c, p>>] = at
  BY <1>1
<1>3. ASSUME NEW d \in Carousels, NEW q \in Posts, d # c \/ q # p
      PROVE  post'[<<d, q>>] = post[<<d, q>>]
  <2>1. <<d, q>> # <<c, p>> /\ <<d, q>> \in Carousels \X Posts
    BY <1>3
  <2>2. QED
    BY <1>1, <2>1
<1>4. QED
  BY <1>2, <1>3 DEF Puts, Bal, HasSent, Win

\* A frame sent while nothing is disturbed is received.
LEMMA SendSends ==
    ASSUME Undisturbed, TypeOK, Current, NEW c \in Carousels, NEW p \in Posts,
           NEW at \in PostState, at.balloon # None, at.sent # "nothing", Send(c, p, at, 0)
    PROVE  /\ FrameOf(p, at, 0) \in Frame
           /\ Sends(c, FrameOf(p, at, 0), at.window)
<1> DEFINE f == FrameOf(p, at, 0)
<1>1. /\ f \in Frame /\ f.post = p /\ f.balloon = at.balloon /\ f.type = at.sent
  <2>1. f = [type |-> at.sent, post |-> p, gram |-> 0, balloon |-> at.balloon]
    BY DEF FrameOf
  <2>2. at.sent \in Types
    BY DEF PostState
  <2>3. at.balloon \in Balloons
    BY DEF PostState, Balloons, None
  <2>4. 0 \in Drift
    BY DEF Undisturbed
  <2>5. QED
    BY <2>1, <2>2, <2>3, <2>4 DEF Frame
<1>2. post' = [post EXCEPT ![<<c, p>>] = at]
  BY DEF Send
<1>3. Puts(c, p, at.balloon, at.sent, at.window)
  BY <1>2, PutsPost
<1>4. inbox' = [inbox EXCEPT ![c] = Append(inbox[c], f)] /\ UNCHANGED shifted
  BY DEF Send, Receive, Current, Undisturbed
<1>5. /\ inbox \in [Carousels -> Seq(Frame)] /\ inbox[c] \in Seq(Frame)
  BY DEF TypeOK
<1> HIDE DEF f
<1>6. \A d \in Carousels : d # c => inbox'[d] = inbox[d]
  BY <1>4, <1>5
<1>7. Pending(c)' = Pending(c) \union {f}
  <2>1. inbox'[c] = Append(inbox[c], f)
    BY <1>4, <1>5
  <2>2. {Append(inbox[c], f)[i] : i \in 1 .. Len(Append(inbox[c], f))} = Pending(c) \union {f}
    BY <1>1, <1>5, AppendRange DEF Pending
  <2>3. QED
    BY <2>1, <2>2, Zenon DEF Pending
<1>8. \A d \in Carousels : d # c => Pending(d)' = Pending(d)
  BY <1>6 DEF Pending
<1>9. UNCHANGED <<scanned, queue, recent, task, rows, history>>
  BY DEF Send
<1>10. QED
  BY <1>1, <1>3, <1>4, <1>7, <1>8, <1>9 DEF Sends, f

\* A balloon is put on a post, which asks for its passport.
LEMMA PlaceSends ==
    ASSUME Undisturbed, Steady, NEW c \in Carousels, NEW p \in Posts, Place(c, p)
    PROVE  /\ Bal(c, p) = None /\ Win(c, p) = 0
           /\ placed[ReaderOf[c]] < scanned[ReaderOf[c]]
           /\ placed' = [placed EXCEPT ![ReaderOf[c]] = placed[ReaderOf[c]] + 1]
           /\ \E f \in Frame :
                 /\ f.post = p /\ f.type = "fill" /\ f.balloon = placed[ReaderOf[c]] + 1
                 /\ Sends(c, f, REQUEST_CACHE)
<1> DEFINE r == ReaderOf[c]
<1> PICK at : at = Sent(placed[r] + 1, "fill")
  OBVIOUS
<1>1. TypeOK /\ PostOK /\ Current
  BY DEF Steady, TInv
<1>2. r \in Readers /\ <<c, p>> \in Carousels \X Posts
  BY ReaderAssumption
<1>3. Bal(c, p) = None /\ Win(c, p) = 0
  BY <1>1, <1>2 DEF Place, Bal, Win, PostOK
<1>4. /\ placed[r] < scanned[r] /\ placed' = [placed EXCEPT ![r] = placed[r] + 1]
      /\ Send(c, p, Sent(placed'[r], "fill"), 0)
  BY DEF Place
<1>5. /\ placed[r] \in 0 .. MaxBalloons /\ scanned[r] \in 0 .. MaxBalloons
      /\ placed'[r] = placed[r] + 1 /\ Send(c, p, at, 0)
  BY <1>1, <1>2, <1>4 DEF TypeOK
<1>6. MaxBalloons \in Nat /\ REQUEST_CACHE \in Nat /\ MaxRepeats \in Nat
  OBVIOUS
<1>7. /\ at \in PostState /\ at.balloon # None /\ at.sent # "nothing"
      /\ at.balloon = placed[r] + 1 /\ at.sent = "fill" /\ at.window = REQUEST_CACHE
  <2>1. /\ placed[r] + 1 \in 0 .. MaxBalloons /\ placed[r] + 1 # 0
        /\ REQUEST_CACHE \in 0 .. REQUEST_CACHE /\ MaxRepeats \in 0 .. MaxRepeats
    BY <1>4, <1>5, <1>6
  <2>2. at \in PostState
    BY <2>1 DEF Sent, PostState, Types
  <2>3. QED
    BY <2>1, <2>2 DEF Sent, None
<1>8. FrameOf(p, at, 0) \in Frame /\ Sends(c, FrameOf(p, at, 0), at.window)
  BY <1>1, <1>5, <1>7, SendSends
<1>9. /\ FrameOf(p, at, 0).post = p /\ FrameOf(p, at, 0).type = "fill"
      /\ FrameOf(p, at, 0).balloon = placed[r] + 1
  BY <1>7 DEF FrameOf
<1>10. \E f \in Frame :
          f.post = p /\ f.type = "fill" /\ f.balloon = placed[r] + 1 /\ Sends(c, f, REQUEST_CACHE)
  BY <1>7, <1>8, <1>9, Zenon
<1>11. QED
  BY <1>3, <1>4, <1>10

\* A balloon is full, and its post says so.
LEMMA FilledSends ==
    ASSUME Undisturbed, Steady, NEW c \in Carousels, NEW p \in Posts, Filled(c, p)
    PROVE  /\ HasSent(c, p) = "fill" /\ Win(c, p) = 0 /\ placed' = placed
           /\ \E f \in Frame :
                 /\ f.post = p /\ f.type = "full" /\ f.balloon = Bal(c, p)
                 /\ Sends(c, f, REQUEST_CACHE)
<1> PICK at : at = Sent(post[<<c, p>>].balloon, "full")
  OBVIOUS
<1>1. TypeOK /\ PostOK /\ Current
  BY DEF Steady, TInv
<1>2. <<c, p>> \in Carousels \X Posts
  OBVIOUS
<1>3. post[<<c, p>>] \in PostState
  BY <1>1, <1>2 DEF TypeOK, PostState
<1>4. /\ HasSent(c, p) = "fill" /\ Win(c, p) = 0 /\ placed' = placed
      /\ Send(c, p, at, 0)
  BY DEF Filled, HasSent, Win
<1>5. Bal(c, p) # None
  BY <1>1, <1>2, <1>4 DEF PostOK, HasSent, Bal
<1>6. /\ at \in PostState /\ at.balloon # None /\ at.sent # "nothing"
      /\ at.balloon = Bal(c, p) /\ at.sent = "full" /\ at.window = REQUEST_CACHE
  <2>1. REQUEST_CACHE \in Nat /\ MaxRepeats \in Nat
    OBVIOUS
  <2>2. REQUEST_CACHE \in 0 .. REQUEST_CACHE /\ MaxRepeats \in 0 .. MaxRepeats
    BY <2>1
  <2>3. post[<<c, p>>].balloon \in 0 .. MaxBalloons
    BY <1>3 DEF PostState
  <2>4. at \in PostState
    BY <2>2, <2>3 DEF Sent, PostState, Types
  <2>5. QED
    BY <2>4, <1>5 DEF Sent, Bal
<1>7. FrameOf(p, at, 0) \in Frame /\ Sends(c, FrameOf(p, at, 0), at.window)
  BY <1>1, <1>4, <1>6, SendSends
<1>8. /\ FrameOf(p, at, 0).post = p /\ FrameOf(p, at, 0).type = "full"
      /\ FrameOf(p, at, 0).balloon = Bal(c, p)
  BY <1>6 DEF FrameOf
<1>9. \E f \in Frame :
         f.post = p /\ f.type = "full" /\ f.balloon = Bal(c, p) /\ Sends(c, f, REQUEST_CACHE)
  BY <1>6, <1>7, <1>8, Zenon
<1>10. QED
  BY <1>4, <1>9

\* A post repeats what it sent.
LEMMA RepeatSends ==
    ASSUME Undisturbed, Steady, NEW c \in Carousels, NEW p \in Posts, Repeat(c, p)
    PROVE  /\ Win(c, p) > 0 /\ placed' = placed
           /\ \E f \in Frame :
                 /\ f.post = p /\ f.type = HasSent(c, p) /\ f.balloon = Bal(c, p)
                 /\ Sends(c, f, Win(c, p))
<1> DEFINE x == <<c, p>>
<1> PICK at : at = [balloon |-> post[x].balloon, sent |-> post[x].sent,
                    window |-> post[x].window, repeats |-> post[x].repeats - 1]
  OBVIOUS
<1>1. TypeOK /\ PostOK /\ Current
  BY DEF Steady, TInv
<1>2. x \in Carousels \X Posts
  OBVIOUS
<1>3. post[x] \in PostState
  BY <1>1, <1>2 DEF TypeOK, PostState
<1>4. /\ post[x].window > 0 /\ post[x].repeats > 0 /\ placed' = placed
      /\ Send(c, p, [post[x] EXCEPT !.repeats = post[x].repeats - 1], 0)
  BY DEF Repeat, Undisturbed
<1>5. [post[x] EXCEPT !.repeats = post[x].repeats - 1] = at
  BY <1>3 DEF PostState
<1>6. Send(c, p, at, 0)
  BY <1>4, <1>5
<1>7. post[x].balloon # None /\ post[x].sent # "nothing"
  BY <1>1, <1>2, <1>3, <1>4 DEF PostOK
<1>8. /\ at \in PostState /\ at.balloon # None /\ at.sent # "nothing"
      /\ at.balloon = Bal(c, p) /\ at.sent = HasSent(c, p) /\ at.window = Win(c, p)
  <2>1. post[x].repeats - 1 \in 0 .. MaxRepeats
    BY <1>3, <1>4 DEF PostState
  <2>2. at \in PostState
    BY <1>3, <2>1 DEF PostState
  <2>3. QED
    BY <1>7, <2>2 DEF Bal, HasSent, Win
<1>9. FrameOf(p, at, 0) \in Frame /\ Sends(c, FrameOf(p, at, 0), at.window)
  BY <1>1, <1>6, <1>8, SendSends
<1>10. /\ FrameOf(p, at, 0).post = p /\ FrameOf(p, at, 0).type = HasSent(c, p)
       /\ FrameOf(p, at, 0).balloon = Bal(c, p)
  BY <1>8 DEF FrameOf
<1>11. \E f \in Frame :
          f.post = p /\ f.type = HasSent(c, p) /\ f.balloon = Bal(c, p) /\ Sends(c, f, Win(c, p))
  BY <1>8, <1>9, <1>10, Zenon
<1>12. QED
  BY <1>4, <1>11 DEF Win

\* A filled balloon leaves its post.
LEMMA LeavePuts ==
    ASSUME Steady, NEW c \in Carousels, NEW p \in Posts, Leave(c, p)
    PROVE  /\ HasSent(c, p) = "full" /\ Win(c, p) = 0
           /\ Puts(c, p, None, "nothing", 0)
           /\ UNCHANGED <<scanned, placed, queue, inbox, shifted, recent, task, rows, taken, told>>
<1> DEFINE at == [balloon |-> None, sent |-> "nothing", window |-> 0, repeats |-> 0]
<1>1. TypeOK
  BY DEF Steady, TInv
<1>2. /\ at \in PostState
      /\ at.balloon = None /\ at.sent = "nothing" /\ at.window = 0
  <2>1. 0 \in 0 .. MaxBalloons /\ 0 \in 0 .. REQUEST_CACHE /\ 0 \in 0 .. MaxRepeats
    OBVIOUS
  <2>2. at \in PostState
    BY <2>1 DEF PostState, None
  <2>3. QED
    BY <2>2
<1>3. /\ post' = [post EXCEPT ![<<c, p>>] = at]
      /\ UNCHANGED <<scanned, placed, queue, inbox, shifted, recent, task, rows, taken, told>>
  BY DEF Leave, stream, history
<1> HIDE DEF at
<1>4. Puts(c, p, at.balloon, at.sent, at.window)
  BY <1>1, <1>2, <1>3, PutsPost
<1>5. HasSent(c, p) = "full" /\ Win(c, p) = 0
  BY DEF Leave, HasSent, Win
<1>6. QED
  BY <1>2, <1>3, <1>4, <1>5

\* A frame that is sent is under way; nothing else is, that was not.
LEMMA SendFlight ==
    ASSUME NEW c \in Carousels, NEW f \in Frame, NEW w, Sends(c, f, w)
    PROVE  /\ \A d \in Carousels, g \in Frame :
                 /\ Awaits(d, g)' <=> Awaits(d, g) \/ (d = c /\ g = f)
                 /\ Handling(d, g)' <=> Handling(d, g)
                 /\ Finishing(d, g)' <=> Finishing(d, g)
           /\ \A d \in Carousels, t \in Types, q \in Posts :
                 /\ Left(d, t, q)' = Left(d, t, q) /\ Nfc(d, t, q)' = Nfc(d, t, q)
                 /\ Waiting(d, t, q) => Waiting(d, t, q)'
           /\ Waiting(c, f.type, f.post)'
<1>1. /\ task' = task /\ recent' = recent /\ Pending(c)' = Pending(c) \union {f}
      /\ \A d \in Carousels : d # c => Pending(d)' = Pending(d)
  BY DEF Sends
<1>2. ASSUME NEW d \in Carousels, NEW g \in Frame
      PROVE  /\ Awaits(d, g)' <=> Awaits(d, g) \/ (d = c /\ g = f)
             /\ Handling(d, g)' <=> Handling(d, g)
             /\ Finishing(d, g)' <=> Finishing(d, g)
  <2>1. CASE d = c
    BY <1>1, <2>1 DEF Awaits, Handling, Finishing
  <2>2. CASE d # c
    BY <1>1, <2>2 DEF Awaits, Handling, Finishing
  <2>3. QED
    BY <2>1, <2>2
<1>3. \A d \in Carousels, t \in Types, q \in Posts :
         /\ Left(d, t, q)' = Left(d, t, q) /\ Nfc(d, t, q)' = Nfc(d, t, q)
         /\ Waiting(d, t, q) => Waiting(d, t, q)'
  BY <1>1, <1>2 DEF Left, Nfc, Waiting
<1>4. Waiting(c, f.type, f.post)'
  BY <1>2 DEF Waiting
<1>5. QED
  BY <1>2, <1>3, <1>4

\* A balloon that asks, or is full, on a post whose last frame has been handled.
LEMMA FreshSteady ==
    ASSUME Undisturbed, Steady, NEW c \in Carousels, NEW f \in Frame,
           Sends(c, f, REQUEST_CACHE), Win(c, f.post) = 0, TInv'
    PROVE  Steady'
<1>1. TypeOK /\ Current /\ Timed /\ Remembered
  BY DEF Steady, TInv
<1>2. f.type \in Types /\ f.post \in Posts /\ REQUEST_CACHE > 0
  BY FrameFields DEF Undisturbed
<1>3. /\ task' = task /\ shifted' = shifted
      /\ Bal(c, f.post)' = f.balloon /\ HasSent(c, f.post)' = f.type /\ Win(c, f.post)' = REQUEST_CACHE
      /\ \A d \in Carousels, q \in Posts :
            d # c \/ q # f.post =>
                Bal(d, q)' = Bal(d, q) /\ HasSent(d, q)' = HasSent(d, q) /\ Win(d, q)' = Win(d, q)
  BY DEF Sends, Puts
<1>4. Current'
  <2>1. \A d \in Carousels : task'[d].step # "offline" /\ ~shifted'[d]
    BY <1>1, <1>3 DEF Current
  <2>2. ASSUME NEW d \in Carousels, NEW g \in Frame, (Awaits(d, g) \/ Finishing(d, g))'
        PROVE  (Bal(d, g.post) = g.balloon /\ HasSent(d, g.post) = g.type /\ Win(d, g.post) > 0)'
    <3>1. g.post \in Posts
      BY FrameFields
    <3>2. CASE d = c /\ g = f
      BY <3>2, <1>2, <1>3
    <3>3. CASE Awaits(d, g) \/ Finishing(d, g)
      <4>1. Bal(d, g.post) = g.balloon /\ HasSent(d, g.post) = g.type /\ Win(d, g.post) > 0
        BY <3>3, <1>1 DEF Current
      <4>2. d # c \/ g.post # f.post
        BY <4>1
      <4>3. QED
        BY <4>1, <4>2, <3>1, <1>3
    <3>4. QED
      BY <2>2, <3>2, <3>3, SendFlight
  <2>3. QED
    BY <2>1, <2>2 DEF Current
<1>5. Timed'
  <2> SUFFICES ASSUME NEW d \in Carousels, NEW t \in Types, NEW q \in Posts
               PROVE  (\/ HasSent(d, q) = t /\ Left(d, t, q) = Win(d, q)
                       \/ HasSent(d, q) = t /\ Left(d, t, q) = 0 /\ Win(d, q) = REQUEST_CACHE
                          /\ Waiting(d, t, q)
                       \/ HasSent(d, q) # t /\ Left(d, t, q) = 0)'
    BY DEF Timed
  <2>1. \/ HasSent(d, q) = t /\ Left(d, t, q) = Win(d, q)
        \/ HasSent(d, q) = t /\ Left(d, t, q) = 0 /\ Win(d, q) = REQUEST_CACHE /\ Waiting(d, t, q)
        \/ HasSent(d, q) # t /\ Left(d, t, q) = 0
    BY <1>1 DEF Timed
  <2>2. /\ Left(d, t, q)' = Left(d, t, q) /\ (Waiting(d, t, q) => Waiting(d, t, q)')
        /\ Waiting(c, f.type, f.post)'
    BY SendFlight
  <2>3. CASE d = c /\ q = f.post
    BY <2>1, <2>2, <2>3, <1>2, <1>3
  <2>4. CASE d # c \/ q # f.post
    BY <2>1, <2>2, <2>4, <1>3
  <2>5. QED
    BY <2>3, <2>4
<1>6. Remembered'
  BY <1>1, SendFlight, FrameFields DEF Remembered
<1>7. QED
  BY <1>4, <1>5, <1>6 DEF Steady

\* A frame that is repeated.
LEMMA RepeatSteady ==
    ASSUME Undisturbed, Steady, NEW c \in Carousels, NEW f \in Frame, Sends(c, f, Win(c, f.post)),
           Win(c, f.post) > 0, f.balloon = Bal(c, f.post), f.type = HasSent(c, f.post), TInv'
    PROVE  Steady'
<1>1. TypeOK /\ Current /\ Timed /\ Remembered
  BY DEF Steady, TInv
<1>2. f.type \in Types /\ f.post \in Posts
  BY FrameFields
<1>3. /\ task' = task /\ shifted' = shifted
      /\ \A d \in Carousels, q \in Posts :
            Bal(d, q)' = Bal(d, q) /\ HasSent(d, q)' = HasSent(d, q) /\ Win(d, q)' = Win(d, q)
  BY <1>2 DEF Sends, Puts
<1>4. Current'
  <2>1. \A d \in Carousels : task'[d].step # "offline" /\ ~shifted'[d]
    BY <1>1, <1>3 DEF Current
  <2>2. ASSUME NEW d \in Carousels, NEW g \in Frame, (Awaits(d, g) \/ Finishing(d, g))'
        PROVE  (Bal(d, g.post) = g.balloon /\ HasSent(d, g.post) = g.type /\ Win(d, g.post) > 0)'
    <3>1. g.post \in Posts
      BY FrameFields
    <3>2. CASE d = c /\ g = f
      BY <3>2, <1>2, <1>3
    <3>3. CASE Awaits(d, g) \/ Finishing(d, g)
      BY <3>1, <3>3, <1>1, <1>3 DEF Current
    <3>4. QED
      BY <2>2, <3>2, <3>3, SendFlight
  <2>3. QED
    BY <2>1, <2>2 DEF Current
<1>5. Timed'
  BY <1>1, <1>3, SendFlight DEF Timed
<1>6. Remembered'
  BY <1>1, SendFlight, FrameFields DEF Remembered
<1>7. QED
  BY <1>4, <1>5, <1>6 DEF Steady

\* A balloon leaves: no frame of its post is under way.
LEMMA LeaveSteady ==
    ASSUME Undisturbed, Steady, NEW c \in Carousels, NEW p \in Posts, Leave(c, p), TInv'
    PROVE  Steady'
<1>1. TypeOK /\ Current /\ Timed /\ Remembered
  BY DEF Steady, TInv
<1>2. /\ HasSent(c, p) = "full" /\ Win(c, p) = 0
      /\ UNCHANGED <<inbox, shifted, recent, task>>
      /\ HasSent(c, p)' = "nothing" /\ Win(c, p)' = 0
      /\ \A d \in Carousels, q \in Posts :
            d # c \/ q # p =>
                Bal(d, q)' = Bal(d, q) /\ HasSent(d, q)' = HasSent(d, q) /\ Win(d, q)' = Win(d, q)
  BY LeavePuts DEF Puts
<1>3. \A d \in Carousels, g \in Frame :
         /\ Awaits(d, g)' <=> Awaits(d, g)
         /\ Handling(d, g)' <=> Handling(d, g)
         /\ Finishing(d, g)' <=> Finishing(d, g)
  BY <1>2 DEF Awaits, Handling, Finishing, Pending
<1>4. \A d \in Carousels, t \in Types, q \in Posts :
         Left(d, t, q)' = Left(d, t, q) /\ (Waiting(d, t, q)' <=> Waiting(d, t, q))
  BY <1>2, <1>3 DEF Left, Waiting
<1>5. Current'
  <2>1. \A d \in Carousels : task'[d].step # "offline" /\ ~shifted'[d]
    BY <1>1, <1>2 DEF Current
  <2>2. ASSUME NEW d \in Carousels, NEW g \in Frame, (Awaits(d, g) \/ Finishing(d, g))'
        PROVE  (Bal(d, g.post) = g.balloon /\ HasSent(d, g.post) = g.type /\ Win(d, g.post) > 0)'
    <3>1. Bal(d, g.post) = g.balloon /\ HasSent(d, g.post) = g.type /\ Win(d, g.post) > 0
      BY <2>2, <1>1, <1>3 DEF Current
    <3>2. g.post \in Posts /\ (d # c \/ g.post # p)
      BY <3>1, <1>2, FrameFields
    <3>3. QED
      BY <3>1, <3>2, <1>2
  <2>3. QED
    BY <2>1, <2>2 DEF Current
<1>6. Timed'
  <2> SUFFICES ASSUME NEW d \in Carousels, NEW t \in Types, NEW q \in Posts
               PROVE  (\/ HasSent(d, q) = t /\ Left(d, t, q) = Win(d, q)
                       \/ HasSent(d, q) = t /\ Left(d, t, q) = 0 /\ Win(d, q) = REQUEST_CACHE
                          /\ Waiting(d, t, q)
                       \/ HasSent(d, q) # t /\ Left(d, t, q) = 0)'
    BY DEF Timed
  <2>1. \/ HasSent(d, q) = t /\ Left(d, t, q) = Win(d, q)
        \/ HasSent(d, q) = t /\ Left(d, t, q) = 0 /\ Win(d, q) = REQUEST_CACHE /\ Waiting(d, t, q)
        \/ HasSent(d, q) # t /\ Left(d, t, q) = 0
    BY <1>1 DEF Timed
  <2>2. CASE d = c /\ q = p
    BY <2>1, <2>2, <1>2, <1>4 DEF Types
  <2>3. CASE d # c \/ q # p
    BY <2>1, <2>3, <1>2, <1>4
  <2>4. QED
    BY <2>2, <2>3
<1>7. Remembered'
  BY <1>1, <1>3, <1>4, FrameFields DEF Remembered
<1>8. QED
  BY <1>5, <1>6, <1>7 DEF Steady

\* While time passes no frame is under way.
LEMMA TickRest ==
    ASSUME Undisturbed, Steady, Tick
    PROVE  /\ \A c \in Carousels, f \in Frame : ~Awaits(c, f) /\ ~Finishing(c, f)
           /\ \A c \in Carousels, f \in Frame : ~Awaits(c, f)' /\ ~Finishing(c, f)'
           /\ \A c \in Carousels, p \in Posts :
                 /\ Bal(c, p)' = Bal(c, p) /\ HasSent(c, p)' = HasSent(c, p)
                 /\ Win(c, p)' = CountDown(Win(c, p))
                 /\ \A t \in Types :
                       /\ Left(c, t, p)' = CountDown(Left(c, t, p))
                       /\ Nfc(c, t, p)' = Nfc(c, t, p)
           /\ UNCHANGED <<scanned, placed, queue, inbox, shifted, task, rows, taken, told>>
<1>1. TypeOK /\ Current
  BY DEF Steady, TInv
<1>2. \A c \in Carousels : task[c].step = "read" /\ inbox[c] = <<>>
  BY <1>1 DEF Tick, Undisturbed, AtRest, Current
<1>3. UNCHANGED <<scanned, placed, queue, inbox, shifted, task, rows, taken, told>>
  BY DEF Tick, stream, history
<1>4. \A c \in Carousels, f \in Frame : ~Awaits(c, f) /\ ~Finishing(c, f)
  BY <1>2 DEF Awaits, Finishing, Handling, Pending
<1>5. \A c \in Carousels, f \in Frame : ~Awaits(c, f)' /\ ~Finishing(c, f)'
  BY <1>2, <1>3 DEF Awaits, Finishing, Handling, Pending
<1>6. ASSUME NEW c \in Carousels, NEW p \in Posts
      PROVE  /\ Bal(c, p)' = Bal(c, p) /\ HasSent(c, p)' = HasSent(c, p)
             /\ Win(c, p)' = CountDown(Win(c, p))
  <2>1. <<c, p>> \in Carousels \X Posts
    OBVIOUS
  <2>2. post[<<c, p>>] \in PostState
    BY <2>1, <1>1 DEF TypeOK, PostState
  <2>3. post'[<<c, p>>] = [post[<<c, p>>] EXCEPT !.window = CountDown(post[<<c, p>>].window)]
    BY <2>1 DEF Tick
  <2>4. QED
    BY <2>2, <2>3 DEF PostState, Bal, HasSent, Win
<1>7. ASSUME NEW c \in Carousels, NEW p \in Posts, NEW t \in Types
      PROVE  Left(c, t, p)' = CountDown(Left(c, t, p)) /\ Nfc(c, t, p)' = Nfc(c, t, p)
  <2>1. <<c, t, p, 0>> \in Keys
    BY DEF Keys
  <2>2. recent[<<c, t, p, 0>>] \in Entry
    BY <2>1, <1>1 DEF TypeOK, Entry
  <2>3. recent'[<<c, t, p, 0>>] =
            [recent[<<c, t, p, 0>>] EXCEPT !.left = CountDown(recent[<<c, t, p, 0>>].left)]
    BY <2>1 DEF Tick
  <2>4. QED
    BY <2>2, <2>3 DEF Entry, Left, Nfc
<1>8. QED
  BY <1>3, <1>4, <1>5, <1>6, <1>7

LEMMA TickSteady == ASSUME Undisturbed, Steady, Tick, TInv' PROVE Steady'
<1>1. TypeOK /\ Current /\ Timed
  BY DEF Steady, TInv
<1>2. Current'
  BY <1>1, TickRest DEF Current
<1>3. Timed'
  <2> SUFFICES ASSUME NEW d \in Carousels, NEW t \in Types, NEW q \in Posts
               PROVE  (\/ HasSent(d, q) = t /\ Left(d, t, q) = Win(d, q)
                       \/ HasSent(d, q) # t /\ Left(d, t, q) = 0)'
    BY DEF Timed
  <2>1. ~Waiting(d, t, q)
    BY TickRest DEF Waiting
  <2>2. \/ HasSent(d, q) = t /\ Left(d, t, q) = Win(d, q)
        \/ HasSent(d, q) # t /\ Left(d, t, q) = 0
    BY <2>1, <1>1 DEF Timed
  <2>3. QED
    BY <2>2, TickRest DEF CountDown
<1>4. Remembered'
  BY TickRest DEF Remembered, Awaits
<1>5. QED
  BY <1>2, <1>3, <1>4 DEF Steady

\* The task of a carousel takes the first frame it received.
Reads(c, h) ==
    /\ task[c] = Idle
    /\ inbox[c] # <<>> /\ h = inbox[c][1]
    /\ inbox' = [inbox EXCEPT ![c] = Tail(inbox[c])]
    /\ Pending(c) = Pending(c)' \union {h}
    /\ \A d \in Carousels : d # c => Pending(d)' = Pending(d)
    /\ UNCHANGED <<scanned, placed, post, queue, shifted, recent, rows, taken>>

\* The elements of a sequence are its head and those of its tail.
LEMMA TailRange ==
    ASSUME NEW S, NEW s \in Seq(S), s # <<>>
    PROVE  /\ {s[i] : i \in 1 .. Len(s)} = {Tail(s)[i] : i \in 1 .. Len(Tail(s))} \union {s[1]}
           /\ s[1] \in S /\ Head(s) = s[1] /\ Tail(s) \in Seq(S)
<1>1. /\ Len(s) \in Nat /\ Len(s) > 0 /\ Len(Tail(s)) = Len(s) - 1
      /\ \A i \in 1 .. Len(Tail(s)) : Tail(s)[i] = s[i + 1]
      /\ s[1] \in S /\ Head(s) = s[1] /\ Tail(s) \in Seq(S)
  OBVIOUS
<1>2. 1 \in 1 .. Len(s) /\ \A i \in 1 .. Len(Tail(s)) : i + 1 \in 1 .. Len(s)
  BY <1>1
<1>3. \A i \in 1 .. Len(s) : i = 1 \/ (i - 1 \in 1 .. Len(Tail(s)) /\ Tail(s)[i - 1] = s[i])
  BY <1>1
<1>4. \A x \in {s[i] : i \in 1 .. Len(s)} :
         x = s[1] \/ x \in {Tail(s)[i] : i \in 1 .. Len(Tail(s))}
  BY <1>3, Zenon
<1>5. s[1] \in {s[i] : i \in 1 .. Len(s)}
  BY <1>2, Zenon
<1>6. ASSUME NEW x \in {Tail(s)[i] : i \in 1 .. Len(Tail(s))}
      PROVE  x \in {s[i] : i \in 1 .. Len(s)}
  <2>1. PICK i \in 1 .. Len(Tail(s)) : x = Tail(s)[i]
    OBVIOUS
  <2>2. i + 1 \in 1 .. Len(s) /\ x = s[i + 1]
    BY <2>1, <1>1, <1>2
  <2>3. QED
    BY <2>2, Zenon
<1>7. QED
  BY <1>1, <1>4, <1>5, <1>6

LEMMA NextReads ==
    ASSUME TypeOK, NEW c \in Carousels, NextFrame(c),
           UNCHANGED <<scanned, placed, post, queue, recent, rows, taken>>
    PROVE  Head(inbox[c]) \in Frame /\ \E h \in Frame : h = Head(inbox[c]) /\ Reads(c, h)
<1>1. /\ inbox \in [Carousels -> Seq(Frame)] /\ inbox[c] \in Seq(Frame)
      /\ inbox[c] # <<>> /\ task[c] = Idle /\ shifted' = shifted
      /\ inbox' = [inbox EXCEPT ![c] = Tail(inbox[c])]
  BY DEF TypeOK, NextFrame
<1>2. /\ inbox'[c] = Tail(inbox[c])
      /\ \A d \in Carousels : d # c => inbox'[d] = inbox[d]
  BY <1>1
<1>3. PICK h : h = Head(inbox[c])
  OBVIOUS
<1>4. h \in Frame /\ h = inbox[c][1]
  BY <1>1, <1>3, TailRange
<1>5. Pending(c) = {Tail(inbox[c])[i] : i \in 1 .. Len(Tail(inbox[c]))} \union {h}
  BY <1>1, <1>4, TailRange DEF Pending
<1>6. Pending(c) = Pending(c)' \union {h}
  BY <1>2, <1>5, Zenon DEF Pending
<1>7. \A d \in Carousels : d # c => Pending(d)' = Pending(d)
  BY <1>2 DEF Pending
<1>8. Reads(c, h)
  BY <1>1, <1>4, <1>6, <1>7 DEF Reads
<1>9. QED
  BY <1>3, <1>4, <1>8

\* A repetition is answered from the cache and forgotten.
LEMMA DuplicateReads ==
    ASSUME Undisturbed, TypeOK, NEW c \in Carousels, ReadDuplicate(c)
    PROVE  \E h \in Frame :
              /\ Reads(c, h) /\ task' = task
              /\ Left(c, h.type, h.post) > 0
              /\ told' = told \/ (/\ Nfc(c, h.type, h.post) # None
                                  /\ told' = told \union {<<c, h.balloon, Nfc(c, h.type, h.post)>>})
<1>1. UNCHANGED <<scanned, placed, post, queue, recent, rows, taken, task>> /\ NextFrame(c)
  BY DEF ReadDuplicate, plant
<1>2. PICK h \in Frame : h = Head(inbox[c]) /\ Reads(c, h)
  BY <1>1, NextReads
<1>3. Key(c, h) = <<c, h.type, h.post, 0>>
  BY FrameFields
<1>4. recent[Key(c, h)].left > 0
  BY <1>2 DEF ReadDuplicate, IsDuplicate
<1>5. Answer(c, h, recent[Key(c, h)].nfc)
  BY <1>2 DEF ReadDuplicate
<1>6. Left(c, h.type, h.post) > 0
  BY <1>3, <1>4 DEF Left
<1>7. told' = told \/ (/\ Nfc(c, h.type, h.post) # None
                       /\ told' = told \union {<<c, h.balloon, Nfc(c, h.type, h.post)>>})
  BY <1>3, <1>5 DEF Answer, Nfc
<1>8. QED
  BY <1>1, <1>2, <1>6, <1>7, Zenon

\* Another frame is handled.
LEMMA FrameReads ==
    ASSUME Undisturbed, TypeOK, NEW c \in Carousels, ReadFrame(c)
    PROVE  \E h \in Frame :
              /\ Reads(c, h) /\ told' = told
              /\ Left(c, h.type, h.post) = 0
              /\ task'[c] = [step |-> "handle", frame |-> h, nfc |-> None]
              /\ \A d \in Carousels : d # c => task'[d] = task[d]
<1>1. UNCHANGED <<scanned, placed, post, queue, recent, rows, taken, told>> /\ NextFrame(c)
  BY DEF ReadFrame, plant, history
<1>2. PICK h \in Frame : h = Head(inbox[c]) /\ Reads(c, h)
  BY <1>1, NextReads
<1>3. Key(c, h) = <<c, h.type, h.post, 0>> /\ h.type \in Types /\ h.post \in Posts
  BY FrameFields
<1>4. ~(recent[Key(c, h)].left > 0)
  BY <1>2 DEF ReadFrame, IsDuplicate
<1>5. Left(c, h.type, h.post) = 0
  BY <1>3, <1>4, WordTypes DEF Left
<1>6. task' = [task EXCEPT ![c] = [step |-> "handle", frame |-> h, nfc |-> None]]
  BY <1>2 DEF ReadFrame, Goto
<1>7. task \in [Carousels -> TaskState]
  BY DEF TypeOK, TaskState
<1>8. /\ task'[c] = [step |-> "handle", frame |-> h, nfc |-> None]
      /\ \A d \in Carousels : d # c => task'[d] = task[d]
  BY <1>6, <1>7
<1>9. QED
  BY <1>1, <1>2, <1>5, <1>8, Zenon

\* Taking a frame from the stream keeps what is under way, but for that frame.
LEMMA ReadFlight ==
    ASSUME NEW c \in Carousels, NEW h \in Frame, Reads(c, h)
    PROVE  /\ \A d \in Carousels, g \in Frame :
                 /\ g \in Pending(d)' => g \in Pending(d)
                 /\ g \in Pending(d) => g \in Pending(d)' \/ (d = c /\ g = h)
           /\ h \in Pending(c)
           /\ \A f \in Frame : ~Handling(c, f) /\ ~Finishing(c, f)
           /\ \A d \in Carousels, p \in Posts :
                 /\ Bal(d, p)' = Bal(d, p) /\ HasSent(d, p)' = HasSent(d, p) /\ Win(d, p)' = Win(d, p)
                 /\ \A t \in Types : Left(d, t, p)' = Left(d, t, p) /\ Nfc(d, t, p)' = Nfc(d, t, p)
<1>1. /\ Pending(c) = Pending(c)' \union {h}
      /\ \A d \in Carousels : d # c => Pending(d)' = Pending(d)
      /\ task[c] = Idle /\ post' = post /\ recent' = recent
  BY DEF Reads
<1>2. \A d \in Carousels, g \in Frame :
         /\ g \in Pending(d)' => g \in Pending(d)
         /\ g \in Pending(d) => g \in Pending(d)' \/ (d = c /\ g = h)
  BY <1>1
<1>3. \A f \in Frame : ~Handling(c, f) /\ ~Finishing(c, f)
  BY <1>1 DEF Handling, Finishing, Idle
<1>4. QED
  BY <1>1, <1>2, <1>3 DEF Bal, HasSent, Win, Left, Nfc

\* A repetition is answered: its request was handled before.
LEMMA DuplicateSteady ==
    ASSUME Undisturbed, Steady, NEW c \in Carousels, ReadDuplicate(c), TInv'
    PROVE  Steady'
<1>1. TypeOK /\ Current /\ Timed /\ Remembered
  BY DEF Steady, TInv
<1>2. PICK h \in Frame : Reads(c, h) /\ task' = task /\ Left(c, h.type, h.post) > 0
  BY <1>1, DuplicateReads
<1>3. shifted' = shifted
  BY <1>2 DEF Reads
<1>4. \A d \in Carousels, g \in Frame :
         /\ Handling(d, g)' <=> Handling(d, g)
         /\ Finishing(d, g)' <=> Finishing(d, g)
         /\ Awaits(d, g)' => Awaits(d, g)
         /\ Awaits(d, g) => Awaits(d, g)' \/ (d = c /\ g = h)
  BY <1>2, ReadFlight DEF Handling, Finishing, Awaits
<1>5. Current'
  BY <1>1, <1>2, <1>3, <1>4, ReadFlight, FrameFields DEF Current
<1>6. Timed'
  <2> SUFFICES ASSUME NEW d \in Carousels, NEW t \in Types, NEW q \in Posts
               PROVE  (\/ HasSent(d, q) = t /\ Left(d, t, q) = Win(d, q)
                       \/ HasSent(d, q) = t /\ Left(d, t, q) = 0 /\ Win(d, q) = REQUEST_CACHE
                          /\ Waiting(d, t, q)
                       \/ HasSent(d, q) # t /\ Left(d, t, q) = 0)'
    BY DEF Timed
  <2>1. \/ HasSent(d, q) = t /\ Left(d, t, q) = Win(d, q)
        \/ HasSent(d, q) = t /\ Left(d, t, q) = 0 /\ Win(d, q) = REQUEST_CACHE /\ Waiting(d, t, q)
        \/ HasSent(d, q) # t /\ Left(d, t, q) = 0
    BY <1>1 DEF Timed
  <2>2. Left(d, t, q) = 0 /\ Waiting(d, t, q) => Waiting(d, t, q)'
    BY <1>2, <1>4 DEF Waiting
  <2>3. QED
    BY <2>1, <2>2, <1>2, ReadFlight
<1>7. Remembered'
  BY <1>1, <1>2, <1>4, ReadFlight, FrameFields DEF Remembered
<1>8. QED
  BY <1>5, <1>6, <1>7 DEF Steady

\* A frame goes from the stream to the task.
LEMMA FrameSteady ==
    ASSUME Undisturbed, Steady, NEW c \in Carousels, ReadFrame(c), TInv'
    PROVE  Steady'
<1>1. TypeOK /\ Current /\ Timed /\ Remembered
  BY DEF Steady, TInv
<1>2. PICK h \in Frame :
          /\ Reads(c, h)
          /\ Left(c, h.type, h.post) = 0
          /\ task'[c] = [step |-> "handle", frame |-> h, nfc |-> None]
          /\ \A d \in Carousels : d # c => task'[d] = task[d]
  BY <1>1, FrameReads
<1>3. shifted' = shifted /\ \A d \in Carousels : task'[d].step # "offline" 
  BY <1>1, <1>2 DEF Reads, Current
<1>4. \A g \in Frame : (Handling(c, g)' <=> g = h) /\ ~Finishing(c, g)'
  BY <1>2 DEF Handling, Finishing
<1>5. \A d \in Carousels, g \in Frame :
         d # c => (Handling(d, g)' <=> Handling(d, g)) /\ (Finishing(d, g)' <=> Finishing(d, g))
  BY <1>2 DEF Handling, Finishing
<1>6. \A d \in Carousels, g \in Frame : Awaits(d, g)' <=> Awaits(d, g)
  BY <1>2, <1>4, <1>5, ReadFlight DEF Awaits
<1>7. Current'
  BY <1>1, <1>2, <1>3, <1>4, <1>5, <1>6, ReadFlight, FrameFields DEF Current
<1>8. Timed'
  <2>1. \A d \in Carousels, t \in Types, p \in Posts : Waiting(d, t, p) => Waiting(d, t, p)'
    BY <1>6 DEF Waiting
  <2>2. QED
    BY <2>1, <1>1, <1>2, ReadFlight DEF Timed
<1>9. Remembered'
  <2> SUFFICES ASSUME NEW d \in Carousels, NEW g \in Frame
               PROVE  /\ Handling(d, g)' => Left(d, g.type, g.post)' = 0
                      /\ Finishing(d, g)' => Left(d, g.type, g.post)' > 0
    BY DEF Remembered
  <2>1. Left(d, g.type, g.post)' = Left(d, g.type, g.post)
    BY <1>2, ReadFlight, FrameFields
  <2>2. QED
    BY <2>1, <1>1, <1>2, <1>4, <1>5 DEF Remembered
<1>10. QED
  BY <1>7, <1>8, <1>9 DEF Steady

\* A request is handled with a passport or without: it is remembered, and its task goes on.
Remembers(c, f, n) ==
    /\ Handling(c, f)
    /\ Finishing(c, f)'
    /\ task'[c].nfc = n
    /\ (task'[c].step = "reply") <=> IsAnswered(f, n)
    /\ \A d \in Carousels : d # c => task'[d] = task[d]
    /\ Left(c, f.type, f.post)' = REQUEST_CACHE
    /\ Nfc(c, f.type, f.post)' = IF IsAnswered(f, n) THEN n ELSE None
    /\ \A d \in Carousels, t \in Types, q \in Posts :
          d # c \/ t # f.type \/ q # f.post =>
              Left(d, t, q)' = Left(d, t, q) /\ Nfc(d, t, q)' = Nfc(d, t, q)
    /\ UNCHANGED <<scanned, placed, post, inbox, shifted, rows, told>>

LEMMA HandledRemembers ==
    ASSUME Undisturbed, TypeOK, NEW c \in Carousels, NEW f \in Frame, NEW n \in 0 .. MaxBalloons,
           Handling(c, f), Handled(c, f, n),
           UNCHANGED <<scanned, placed, post, inbox, shifted, rows, told>>
    PROVE  Remembers(c, f, n)
<1> DEFINE m == IF IsAnswered(f, n) THEN n ELSE None
           e == [left |-> REQUEST_CACHE, nfc |-> m]
<1>1. f.type \in Types /\ f.post \in Posts /\ Key(c, f) = <<c, f.type, f.post, 0>>
  BY FrameFields
<1>2. /\ recent \in [Keys -> Entry]
      /\ task \in [Carousels -> TaskState]
      /\ <<c, f.type, f.post, 0>> \in Keys
  BY <1>1 DEF TypeOK, Entry, TaskState, Keys, Undisturbed
<1>3. recent' = [recent EXCEPT ![<<c, f.type, f.post, 0>>] = e]
  BY <1>1 DEF Handled, Remember
<1> HIDE DEF e
<1>4. recent'[<<c, f.type, f.post, 0>>] = e
  BY <1>2, <1>3
<1>5. ASSUME NEW d \in Carousels, NEW t \in Types, NEW q \in Posts,
             d # c \/ t # f.type \/ q # f.post
      PROVE  recent'[<<d, t, q, 0>>] = recent[<<d, t, q, 0>>]
  <2>1. <<d, t, q, 0>> \in Keys /\ <<d, t, q, 0>> # <<c, f.type, f.post, 0>>
    BY <1>5 DEF Keys, Undisturbed
  <2>2. QED
    BY <2>1, <1>2, <1>3
<1>6. task' = [task EXCEPT ![c] = [step |-> IF IsAnswered(f, n) THEN "reply" ELSE "store",
                                   frame |-> f, nfc |-> n]]
  BY DEF Handled, Goto
<1>7. /\ task'[c] = [step |-> IF IsAnswered(f, n) THEN "reply" ELSE "store",
                     frame |-> f, nfc |-> n]
      /\ \A d \in Carousels : d # c => task'[d] = task[d]
  BY <1>2, <1>6
<1>8. Left(c, f.type, f.post)' = REQUEST_CACHE /\ Nfc(c, f.type, f.post)' = m
  BY <1>4 DEF Left, Nfc, e
<1>9. /\ Finishing(c, f)' /\ task'[c].nfc = n
      /\ (task'[c].step = "reply") <=> IsAnswered(f, n)
  BY <1>7 DEF Finishing
<1>10. QED
  BY <1>5, <1>7, <1>8, <1>9 DEF Remembers, Left, Nfc

\* What the handlers do with the list of the reader.
LEMMA HandlersRemember ==
    ASSUME Undisturbed, TypeOK, NEW c \in Carousels,
           HandleFull(c) \/ HandleFillWithoutPassport(c) \/ HandleFill(c)
    PROVE  \E f \in Frame : \E n \in 0 .. MaxBalloons :
              /\ Remembers(c, f, n)
              /\ \/ f.type = "full" /\ n = None /\ UNCHANGED <<queue, taken>>
                 \/ f.type = "fill" /\ n = None /\ queue[ReaderOf[c]] = <<>> /\ UNCHANGED <<queue, taken>>
                 \/ /\ f.type = "fill" /\ queue[ReaderOf[c]] # <<>> /\ n = queue[ReaderOf[c]][1]
                    /\ queue' = [queue EXCEPT ![ReaderOf[c]] = Tail(queue[ReaderOf[c]])]
                    /\ taken' = taken \union {<<ReaderOf[c], f.balloon, n>>}
<1> DEFINE r == ReaderOf[c]
<1>1. task[c].step = "handle"
  BY DEF HandleFull, HandleFillWithoutPassport, HandleFill
<1>2. PICK f \in Frame : f = task[c].frame /\ Handling(c, f)
  BY <1>1, FrameAtWork DEF Handling
<1>3. r \in Readers /\ None \in 0 .. MaxBalloons
  BY DEF None
<1>4. CASE HandleFull(c)
  <2>1. /\ f.type = "full" /\ Handled(c, f, None) /\ UNCHANGED <<queue, taken>>
        /\ UNCHANGED <<scanned, placed, post, inbox, shifted, rows, told>>
    BY <1>2, <1>4 DEF HandleFull, plant, stream, history
  <2>2. Remembers(c, f, None)
    BY <2>1, <1>2, <1>3, HandledRemembers
  <2>3. QED
    BY <2>1, <2>2, <1>3, Zenon
<1>5. CASE HandleFillWithoutPassport(c)
  <2>1. /\ f.type = "fill" /\ Handled(c, f, None) /\ UNCHANGED <<queue, taken>> /\ queue[r] = <<>>
        /\ UNCHANGED <<scanned, placed, post, inbox, shifted, rows, told>>
    BY <1>2, <1>5 DEF HandleFillWithoutPassport, plant, stream, history, Undisturbed
  <2>2. Remembers(c, f, None)
    BY <2>1, <1>2, <1>3, HandledRemembers
  <2>3. QED
    BY <2>1, <2>2, <1>3, Zenon
<1>6. CASE HandleFill(c)
  <2>1. queue[r] # <<>>
    BY <1>6 DEF HandleFill
  <2>2. PICK n \in 0 .. MaxBalloons : n = queue[r][1]
    BY <2>1, <1>3, PopType DEF OldestOf, Balloons
  <2>3. ~(IsAnswered(f, n) /\ n \in Oversized)
    BY DEF IsAnswered, Undisturbed
  <2>4. /\ f.type = "fill" /\ Handled(c, f, n)
        /\ queue' = [queue EXCEPT ![r] = Tail(queue[r])]
        /\ taken' = taken \union {<<r, f.balloon, n>>}
        /\ UNCHANGED <<scanned, placed, post, inbox, shifted, rows, told>>
    BY <1>2, <1>6, <2>2, <2>3 DEF HandleFill, OldestOf, Pop, plant, stream
  <2>5. Remembers(c, f, n)
    BY <2>4, <1>2, HandledRemembers
  <2>6. QED
    BY <2>1, <2>2, <2>4, <2>5, Zenon
<1>7. QED
  BY <1>4, <1>5, <1>6

\* A handled frame no longer waits; the others do.
LEMMA RememberFlight ==
    ASSUME NEW c \in Carousels, NEW f \in Frame, NEW n, Remembers(c, f, n)
    PROVE  /\ \A d \in Carousels, g \in Frame :
                 /\ Awaits(d, g)' => Awaits(d, g)
                 /\ Awaits(d, g) => Awaits(d, g)' \/ (d = c /\ g = f)
                 /\ Handling(d, g)' => d # c /\ Handling(d, g)
                 /\ Handling(d, g) => Handling(d, g)' \/ (d = c /\ g = f)
                 /\ Finishing(d, g)' <=> (Finishing(d, g) \/ (d = c /\ g = f))
                 /\ Finishing(d, g) => d # c
                 /\ g \in Pending(d)' <=> g \in Pending(d)
           /\ \A d \in Carousels, p \in Posts :
                 Bal(d, p)' = Bal(d, p) /\ HasSent(d, p)' = HasSent(d, p) /\ Win(d, p)' = Win(d, p)
<1>1. /\ Handling(c, f) /\ Finishing(c, f)'
      /\ \A d \in Carousels : d # c => task'[d] = task[d]
      /\ inbox' = inbox /\ post' = post
  BY DEF Remembers
<1>2. \A d \in Carousels : Pending(d)' = Pending(d)
  BY <1>1 DEF Pending
<1>3. \A g \in Frame :
         /\ ~Handling(c, g)' /\ (Handling(c, g) <=> g = f)
         /\ (Finishing(c, g)' <=> g = f) /\ ~Finishing(c, g)
  BY <1>1 DEF Handling, Finishing
<1>4. \A d \in Carousels, g \in Frame :
         d # c => (Handling(d, g)' <=> Handling(d, g)) /\ (Finishing(d, g)' <=> Finishing(d, g))
  BY <1>1 DEF Handling, Finishing
<1>5. ASSUME NEW d \in Carousels, NEW g \in Frame
      PROVE  /\ Awaits(d, g)' => Awaits(d, g)
             /\ Awaits(d, g) => Awaits(d, g)' \/ (d = c /\ g = f)
  BY <1>2, <1>3, <1>4 DEF Awaits
<1>6. QED
  BY <1>1, <1>2, <1>3, <1>4, <1>5 DEF Bal, HasSent, Win

LEMMA HandleSteady ==
    ASSUME Undisturbed, Steady, NEW c \in Carousels, NEW f \in Frame, NEW n,
           Remembers(c, f, n), TInv'
    PROVE  Steady'
<1>1. TypeOK /\ Current /\ Timed /\ Remembered
  BY DEF Steady, TInv
<1>2. f.type \in Types /\ f.post \in Posts /\ REQUEST_CACHE > 0
  BY FrameFields DEF Undisturbed
<1>3. /\ shifted' = shifted
      /\ Handling(c, f) /\ Finishing(c, f)'
      /\ \A d \in Carousels : d # c => task'[d] = task[d]
      /\ Left(c, f.type, f.post)' = REQUEST_CACHE
      /\ \A d \in Carousels, t \in Types, q \in Posts :
            d # c \/ t # f.type \/ q # f.post => Left(d, t, q)' = Left(d, t, q)
  BY DEF Remembers
<1>4. Left(c, f.type, f.post) = 0 /\ HasSent(c, f.post) = f.type /\ Win(c, f.post) > 0
  BY <1>1, <1>3 DEF Remembered, Current, Awaits
<1>5. Win(c, f.post) = REQUEST_CACHE
  BY <1>1, <1>2, <1>4 DEF Timed
<1>6. Current'
  <2>1. \A d \in Carousels : task'[d].step # "offline" /\ ~shifted'[d]
    BY <1>1, <1>3 DEF Current, Finishing
  <2>2. \A d \in Carousels, g \in Frame :
           (Awaits(d, g) \/ Finishing(d, g))' => Awaits(d, g) \/ Finishing(d, g)
    BY <1>3, RememberFlight DEF Awaits
  <2>3. QED
    BY <2>1, <2>2, <1>1, RememberFlight, FrameFields DEF Current
<1>7. Timed'
  <2> SUFFICES ASSUME NEW d \in Carousels, NEW t \in Types, NEW q \in Posts
               PROVE  (\/ HasSent(d, q) = t /\ Left(d, t, q) = Win(d, q)
                       \/ HasSent(d, q) = t /\ Left(d, t, q) = 0 /\ Win(d, q) = REQUEST_CACHE
                          /\ Waiting(d, t, q)
                       \/ HasSent(d, q) # t /\ Left(d, t, q) = 0)'
    BY DEF Timed
  <2>1. \/ HasSent(d, q) = t /\ Left(d, t, q) = Win(d, q)
        \/ HasSent(d, q) = t /\ Left(d, t, q) = 0 /\ Win(d, q) = REQUEST_CACHE /\ Waiting(d, t, q)
        \/ HasSent(d, q) # t /\ Left(d, t, q) = 0
    BY <1>1 DEF Timed
  <2>2. CASE d = c /\ t = f.type /\ q = f.post
    BY <2>2, <1>3, <1>4, <1>5, RememberFlight
  <2>3. CASE d # c \/ t # f.type \/ q # f.post
    <3>1. Waiting(d, t, q) => Waiting(d, t, q)'
      BY <2>3, RememberFlight DEF Waiting
    <3>2. QED
      BY <2>1, <2>3, <3>1, <1>3, RememberFlight
  <2>4. QED
    BY <2>2, <2>3
<1>8. Remembered'
  <2> SUFFICES ASSUME NEW d \in Carousels, NEW g \in Frame
               PROVE  /\ Handling(d, g)' => Left(d, g.type, g.post)' = 0
                      /\ Finishing(d, g)' => Left(d, g.type, g.post)' > 0
    BY DEF Remembered
  <2>1. g.type \in Types /\ g.post \in Posts
    BY FrameFields
  <2>2. QED
    BY <2>1, <1>1, <1>2, <1>3, RememberFlight DEF Remembered
<1>9. QED
  BY <1>6, <1>7, <1>8 DEF Steady

\* An answer is written.
LEMMA ReplyFacts ==
    ASSUME TypeOK, NEW c \in Carousels, WriteReply(c)
    PROVE  \E f \in Frame :
              /\ Finishing(c, f) /\ task[c].step = "reply" /\ task[c].nfc \in 0 .. MaxBalloons
              /\ Finishing(c, f)' /\ task'[c].step = "store" /\ task'[c].nfc = task[c].nfc
              /\ \A d \in Carousels : d # c => task'[d] = task[d]
              /\ told' \in {told, told \union {<<c, f.balloon, task[c].nfc>>}}
              /\ UNCHANGED <<scanned, placed, post, queue, inbox, shifted, recent, rows, taken>>
<1>1. task[c].step = "reply"
  BY DEF WriteReply
<1>2. /\ task[c] \in Busy /\ task[c].nfc \in 0 .. MaxBalloons
      /\ task[c].frame \in Frame
  BY <1>1, FrameAtWork
<1>3. PICK f \in Frame : f = task[c].frame
  BY <1>2
<1>4. /\ task \in [Carousels -> TaskState]
      /\ task' = [task EXCEPT ![c] = [task[c] EXCEPT !.step = "store"]]
  BY DEF TypeOK, TaskState, WriteReply, Goto
<1>5. /\ task'[c] = [task[c] EXCEPT !.step = "store"]
      /\ \A d \in Carousels : d # c => task'[d] = task[d]
  BY <1>4
<1>6. task'[c].step = "store" /\ task'[c].frame = f /\ task'[c].nfc = task[c].nfc
  BY <1>2, <1>3, <1>5 DEF Busy
<1>7. Finishing(c, f) /\ Finishing(c, f)'
  BY <1>1, <1>3, <1>6 DEF Finishing
<1>8. /\ told' \in {told, told \union {<<c, f.balloon, task[c].nfc>>}}
      /\ UNCHANGED <<scanned, placed, post, queue, inbox, shifted, recent, rows, taken>>
  BY <1>3 DEF WriteReply, Answer, plant, stream
<1>9. QED
  BY <1>1, <1>2, <1>5, <1>6, <1>7, <1>8, Zenon

\* A request is stored: the task is done with it.
LEMMA StoreFacts ==
    ASSUME TypeOK, NEW c \in Carousels, StoreData(c)
    PROVE  \E f \in Frame :
              /\ Finishing(c, f) /\ task[c].step = "store" /\ task[c].nfc \in 0 .. MaxBalloons
              /\ task'[c] = Idle
              /\ \A d \in Carousels : d # c => task'[d] = task[d]
              /\ \/ f.type = "fill" /\ InsertRow(c, f, task[c].nfc)
                 \/ f.type = "full" /\ UpdateRow(c, f)
              /\ UNCHANGED <<scanned, placed, post, queue, inbox, shifted, recent, taken, told>>
<1>1. task[c].step = "store"
  BY DEF StoreData
<1>2. task[c].nfc \in 0 .. MaxBalloons /\ task[c].frame \in Frame
  BY <1>1, FrameAtWork
<1>3. PICK f \in Frame : f = task[c].frame
  BY <1>2
<1>4. task \in [Carousels -> TaskState] /\ task' = [task EXCEPT ![c] = Idle]
  BY DEF TypeOK, TaskState, StoreData, Goto
<1>5. task'[c] = Idle /\ \A d \in Carousels : d # c => task'[d] = task[d]
  BY <1>4
<1>6. Finishing(c, f)
  BY <1>1, <1>3 DEF Finishing
<1>7. f.type = "fill" \/ f.type = "full"
  BY DEF Frame, Types
<1>8. \/ f.type = "fill" /\ InsertRow(c, f, task[c].nfc)
      \/ f.type = "full" /\ UpdateRow(c, f)
  BY <1>3, <1>7 DEF StoreData
<1>9. UNCHANGED <<scanned, placed, post, queue, inbox, shifted, recent, taken, told>>
  BY DEF StoreData, plant, stream, history
<1>10. QED
  BY <1>1, <1>2, <1>5, <1>6, <1>8, <1>9, Zenon

\* Steps that leave the posts, the streams and the cache alone.
LEMMA QuietWords ==
    ASSUME UNCHANGED <<post, inbox, recent>>
    PROVE  \A d \in Carousels :
              /\ Pending(d)' = Pending(d)
              /\ \A q \in Posts :
                    /\ Bal(d, q)' = Bal(d, q) /\ HasSent(d, q)' = HasSent(d, q) /\ Win(d, q)' = Win(d, q)
                    /\ \A t \in Types : Left(d, t, q)' = Left(d, t, q) /\ Nfc(d, t, q)' = Nfc(d, t, q)
  BY DEF Pending, Bal, HasSent, Win, Left, Nfc

LEMMA QuietSteady ==
    ASSUME Undisturbed, Steady, TInv', UNCHANGED <<post, inbox, shifted, recent>>,
           \A d \in Carousels : task'[d].step # "offline",
           \A d \in Carousels, g \in Frame :
              (Handling(d, g)' <=> Handling(d, g)) /\ (Finishing(d, g)' => Finishing(d, g))
    PROVE  Steady'
<1>1. TypeOK /\ Current /\ Timed /\ Remembered
  BY DEF Steady, TInv
<1>2. \A d \in Carousels, g \in Frame : Awaits(d, g)' <=> Awaits(d, g)
  BY QuietWords DEF Awaits
<1>3. Current'
  BY <1>1, <1>2, QuietWords, FrameFields DEF Current
<1>4. Timed'
  <2>1. \A d \in Carousels, t \in Types, q \in Posts : Waiting(d, t, q)' <=> Waiting(d, t, q)
    BY <1>2 DEF Waiting
  <2>2. QED
    BY <2>1, <1>1, QuietWords DEF Timed
<1>5. Remembered'
  BY <1>1, QuietWords, FrameFields DEF Remembered
<1>6. QED
  BY <1>3, <1>4, <1>5 DEF Steady

LEMMA FinishSteady ==
    ASSUME Undisturbed, Steady, NEW c \in Carousels, WriteReply(c) \/ StoreData(c), TInv'
    PROVE  Steady'
<1>1. TypeOK /\ Current
  BY DEF Steady, TInv
<1>2. PICK f \in Frame :
          /\ Finishing(c, f)
          /\ \/ Finishing(c, f)' /\ task'[c].step = "store"
             \/ task'[c] = Idle
          /\ \A d \in Carousels : d # c => task'[d] = task[d]
          /\ UNCHANGED <<post, inbox, shifted, recent>>
  BY <1>1, ReplyFacts, StoreFacts
<1>3. \A d \in Carousels : task'[d].step # "offline"
  BY <1>1, <1>2 DEF Current, Idle
<1>4. \A g \in Frame :
         /\ ~Handling(c, g) /\ ~Handling(c, g)'
         /\ Finishing(c, g)' => Finishing(c, g)
  BY <1>2 DEF Handling, Finishing, Idle
<1>5. \A d \in Carousels, g \in Frame :
         d # c => (Handling(d, g)' <=> Handling(d, g)) /\ (Finishing(d, g)' <=> Finishing(d, g))
  BY <1>2 DEF Handling, Finishing
<1>6. QED
  BY <1>2, <1>3, <1>4, <1>5, QuietSteady

----------------------------------------------------------------------------
(* The steps, while nothing is disturbed *)

\* A balloon passes a reader; nothing fails.
Passes(r) == Scan(r) /\ queue' = [queue EXCEPT ![r] = Append(queue[r], scanned[r] + 1)]

Posting(c, p) == Place(c, p) \/ Filled(c, p) \/ Repeat(c, p) \/ Leave(c, p)
Handles(c) == HandleFull(c) \/ HandleFillWithoutPassport(c) \/ HandleFill(c)

LEMMA Steps ==
    ASSUME Undisturbed, Steady, [Next]_vars
    PROVE  \/ UNCHANGED vars
           \/ \E r \in Readers : Passes(r)
           \/ \E c \in Carousels : \E p \in Posts : Posting(c, p)
           \/ Tick
           \/ \E c \in Carousels :
                 ReadDuplicate(c) \/ ReadFrame(c) \/ Handles(c) \/ WriteReply(c) \/ StoreData(c)
<1>1. TypeOK /\ Current
  BY DEF Steady, TInv
<1>2. ASSUME NEW r \in Readers, Scan(r) PROVE Passes(r)
  <2>1. scanned \in [Readers -> 0 .. MaxBalloons]
    BY <1>1 DEF TypeOK
  <2>2. scanned'[r] = scanned[r] + 1
    BY <1>2, <2>1 DEF Scan
  <2>3. QED
    BY <1>2, <2>2 DEF Scan, Passes, Undisturbed
<1>3. \A r \in Readers : ~ExpireQueue(r)
  BY DEF ExpireQueue, Undisturbed
<1>4. \A c \in Carousels :
         ~Connect(c) /\ ~DropFrame(c) /\ ~DropPartialFrame(c) /\ ~LoseConnection(c) /\ ~LoseData(c)
  BY <1>1 DEF Connect, DropFrame, DropPartialFrame, LoseConnection, LoseData, Undisturbed, Current
<1>5. CASE Plant
  BY <1>2, <1>3, <1>5 DEF Plant, Posting
<1>6. CASE \E c \in Carousels : Task(c) \/ Failure(c)
  BY <1>4, <1>6 DEF Task, Failure, Handles
<1>7. QED
  BY <1>5, <1>6 DEF Next

LEMMA StepSteady == ASSUME Undisturbed, Steady, [Next]_vars PROVE Steady'
<1>1. TInv' /\ Current
  BY StepTypes DEF Steady
<1>2. CASE UNCHANGED vars \/ \E r \in Readers : Passes(r)
  <2>1. UNCHANGED <<post, inbox, shifted, recent, task>>
    BY <1>2 DEF vars, plant, stream, Passes, Scan
  <2>2. QED
    BY <2>1, <1>1, QuietSteady DEF Handling, Finishing, Current
<1>3. ASSUME NEW c \in Carousels, NEW p \in Posts, Posting(c, p) PROVE Steady'
  <2>1. CASE Place(c, p)
    BY <2>1, <1>1, PlaceSends, FreshSteady
  <2>2. CASE Filled(c, p)
    BY <2>2, <1>1, FilledSends, FreshSteady
  <2>3. CASE Repeat(c, p)
    BY <2>3, <1>1, RepeatSends, RepeatSteady
  <2>4. CASE Leave(c, p)
    BY <2>4, <1>1, LeaveSteady
  <2>5. QED
    BY <1>3, <2>1, <2>2, <2>3, <2>4 DEF Posting
<1>4. CASE Tick
  BY <1>1, <1>4, TickSteady
<1>5. ASSUME NEW c \in Carousels, Handles(c) PROVE Steady'
  <2>1. TypeOK
    BY DEF Steady, TInv
  <2>2. PICK f \in Frame : \E n \in 0 .. MaxBalloons : Remembers(c, f, n)
    BY <1>5, <2>1, HandlersRemember DEF Handles
  <2>3. QED
    BY <1>1, <2>2, HandleSteady
<1>6. ASSUME NEW c \in Carousels,
             ReadDuplicate(c) \/ ReadFrame(c) \/ WriteReply(c) \/ StoreData(c)
      PROVE  Steady'
  BY <1>1, <1>6, DuplicateSteady, FrameSteady, FinishSteady
<1>7. QED
  BY <1>2, <1>3, <1>4, <1>5, <1>6, Steps

LEMMA InitSteady == ASSUME Undisturbed, Init PROVE Steady
<1>1. TInv
  BY InitTypes
<1>2. \A c \in Carousels : task[c] = Idle /\ inbox[c] = <<>> /\ ~shifted[c]
  BY DEF Init
<1>3. \A c \in Carousels, f \in Frame : ~Awaits(c, f) /\ ~Finishing(c, f)
  BY <1>2 DEF Awaits, Handling, Finishing, Pending, Idle
<1>4. ASSUME NEW c \in Carousels, NEW p \in Posts
      PROVE  HasSent(c, p) = "nothing" /\ \A t \in Types : Left(c, t, p) = 0
  <2>1. <<c, p>> \in Carousels \X Posts /\ \A t \in Types : <<c, t, p, 0>> \in Keys
    BY DEF Keys
  <2>2. post[<<c, p>>].sent = "nothing" /\ \A t \in Types : recent[<<c, t, p, 0>>].left = 0
    BY <2>1 DEF Init
  <2>3. QED
    BY <2>2 DEF HasSent, Left
<1>5. Current
  BY <1>2, <1>3 DEF Current, Idle
<1>6. Timed
  BY <1>4 DEF Timed, Types
<1>7. Remembered
  BY <1>3 DEF Remembered, Awaits
<1>8. QED
  BY <1>1, <1>5, <1>6, <1>7 DEF Steady

----------------------------------------------------------------------------
(* One passport for a balloon *)

\* A request at the handler is the first of its balloon.
LEMMA AtHandler ==
    ASSUME Undisturbed, Steady, NEW c \in Carousels, NEW f \in Frame, Handling(c, f)
    PROVE  /\ f.type \in Types /\ f.post \in Posts /\ f.balloon \in Balloons
           /\ Bal(c, f.post) = f.balloon /\ HasSent(c, f.post) = f.type
           /\ Win(c, f.post) = REQUEST_CACHE /\ Left(c, f.type, f.post) = 0
           /\ REQUEST_CACHE > 0
<1>1. Current /\ Timed /\ Remembered
  BY DEF Steady
<1>2. f.type \in Types /\ f.post \in Posts /\ f.balloon \in Balloons /\ REQUEST_CACHE > 0
  BY FrameFields DEF Undisturbed
<1>3. /\ Left(c, f.type, f.post) = 0 /\ HasSent(c, f.post) = f.type /\ Win(c, f.post) > 0
      /\ Bal(c, f.post) = f.balloon
  BY <1>1 DEF Remembered, Current, Awaits
<1>4. Win(c, f.post) = REQUEST_CACHE
  BY <1>1, <1>2, <1>3 DEF Timed
<1>5. QED
  BY <1>2, <1>3, <1>4

\* Only a balloon that is placed, or leaves, changes which balloon stands where.
LEMMA BalloonSteps ==
    ASSUME Undisturbed, Steady, [Next]_vars
    PROVE  \/ \E c \in Carousels : \E p \in Posts : Place(c, p)
           \/ \E c \in Carousels : \E p \in Posts : Leave(c, p)
           \/ /\ \A d \in Carousels, q \in Posts : Bal(d, q)' = Bal(d, q)
              /\ placed' = placed
<1>1. TypeOK
  BY DEF Steady, TInv
<1>2. ASSUME NEW c \in Carousels, NEW p \in Posts, Filled(c, p) \/ Repeat(c, p)
      PROVE  /\ \A d \in Carousels, q \in Posts : Bal(d, q)' = Bal(d, q)
             /\ placed' = placed
  <2>1. PICK f \in Frame : f.post = p /\ f.balloon = Bal(c, p) /\ \E w : Sends(c, f, w)
    BY <1>2, FilledSends, RepeatSends
  <2>2. placed' = placed
    BY <1>2 DEF Filled, Repeat
  <2>3. QED
    BY <2>1, <2>2 DEF Sends, Puts
<1>3. ASSUME post' = post, placed' = placed
      PROVE  /\ \A d \in Carousels, q \in Posts : Bal(d, q)' = Bal(d, q)
             /\ placed' = placed
  BY <1>3 DEF Bal
<1>4. ASSUME NEW c \in Carousels,
             ReadDuplicate(c) \/ ReadFrame(c) \/ Handles(c) \/ WriteReply(c) \/ StoreData(c)
      PROVE  post' = post /\ placed' = placed
  BY <1>4 DEF ReadDuplicate, ReadFrame, Handles, HandleFull, HandleFillWithoutPassport,
              HandleFill, WriteReply, StoreData, plant
<1>5. CASE UNCHANGED vars \/ \E r \in Readers : Passes(r)
  BY <1>3, <1>5 DEF vars, plant, Passes, Scan
<1>6. CASE Tick
  BY <1>6, TickRest
<1>7. QED
  BY <1>2, <1>3, <1>4, <1>5, <1>6, Steps DEF Posting

\* What a reader and its carousels have placed grows by the balloon that is placed.
LEMMA StandingSteps ==
    ASSUME Undisturbed, Steady, Standing, [Next]_vars
    PROVE  /\ Standing'
           /\ \A r \in Readers : placed[r] <= placed'[r]
<1>1. TypeOK /\ placed \in [Readers -> 0 .. MaxBalloons] /\ MaxBalloons \in Nat
  BY DEF Steady, TInv, TypeOK
<1>2. \A d \in Carousels, q \in Posts :
         Bal(d, q) \in Nat /\ ReaderOf[d] \in Readers /\ placed[ReaderOf[d]] \in Nat
  BY <1>1, WordTypes
<1>3. ASSUME NEW c \in Carousels, NEW p \in Posts, Place(c, p)
      PROVE  Standing' /\ \A r \in Readers : placed[r] <= placed'[r]
  <2>1. PICK r \in Readers : r = ReaderOf[c]
    BY ReaderAssumption
  <2>2. /\ placed' = [placed EXCEPT ![r] = placed[r] + 1]
        /\ \E f \in Frame :
              f.post = p /\ f.balloon = placed[r] + 1 /\ Sends(c, f, REQUEST_CACHE)
    BY <1>3, <2>1, PlaceSends
  <2>3. /\ Bal(c, p)' = placed[r] + 1
        /\ \A d \in Carousels, q \in Posts : d # c \/ q # p => Bal(d, q)' = Bal(d, q)
    BY <2>2 DEF Sends, Puts
  <2>4. /\ placed'[r] = placed[r] + 1
        /\ \A s \in Readers : s # r => placed'[s] = placed[s]
        /\ \A s \in Readers : placed[s] <= placed'[s] /\ placed'[s] \in Nat /\ placed[s] \in Nat
    BY <1>1, <2>2
  <2>5. ASSUME NEW d \in Carousels, NEW q \in Posts
        PROVE  /\ Bal(d, q)' <= placed'[ReaderOf[d]]
               /\ d # c \/ q # p => ~(ReaderOf[d] = r /\ Bal(d, q)' = placed[r] + 1)
    <3>1. Bal(d, q) <= placed[ReaderOf[d]]
      BY DEF Standing
    <3>2. CASE d = c /\ q = p
      BY <3>2, <2>1, <2>3, <2>4
    <3>3. CASE d # c \/ q # p
      BY <3>1, <3>3, <1>2, <2>1, <2>3, <2>4
    <3>4. QED
      BY <3>2, <3>3
  <2>6. ASSUME NEW d \in Carousels, NEW q \in Posts, NEW e \in Carousels, NEW m \in Posts,
               ReaderOf[d] = ReaderOf[e], Bal(d, q)' = Bal(e, m)', Bal(d, q)' # None
        PROVE  d = e /\ q = m
    <3>1. CASE d = c /\ q = p
      BY <2>6, <3>1, <2>1, <2>3, <2>5
    <3>2. CASE e = c /\ m = p
      BY <2>6, <3>2, <2>1, <2>3, <2>5
    <3>3. CASE (d # c \/ q # p) /\ (e # c \/ m # p)
      BY <2>6, <3>3, <2>3 DEF Standing
    <3>4. QED
      BY <3>1, <3>2, <3>3
  <2>7. Standing'
    BY <2>5, <2>6 DEF Standing
  <2>8. QED
    BY <2>4, <2>7
<1>4. ASSUME NEW c \in Carousels, NEW p \in Posts, Leave(c, p)
      PROVE  Standing' /\ \A r \in Readers : placed[r] <= placed'[r]
  <2>1. /\ Bal(c, p)' = None /\ placed' = placed
        /\ \A d \in Carousels, q \in Posts : d # c \/ q # p => Bal(d, q)' = Bal(d, q)
    BY <1>4, LeavePuts DEF Puts
  <2>2. \A d \in Carousels, q \in Posts : Bal(d, q)' \in {None, Bal(d, q)}
    BY <2>1
  <2>3. \A r \in Readers : placed[r] \in Nat /\ placed[r] <= placed'[r]
    BY <1>1, <2>1
  <2>4. Standing'
    BY <1>2, <2>1, <2>2 DEF Standing, None
  <2>5. QED
    BY <2>3, <2>4
<1>5. CASE (\A d \in Carousels, q \in Posts : Bal(d, q)' = Bal(d, q)) /\ placed' = placed
  <2>1. \A r \in Readers : placed[r] \in Nat /\ placed[r] <= placed'[r]
    BY <1>1, <1>5
  <2>2. Standing'
    BY <1>5 DEF Standing
  <2>3. QED
    BY <2>1, <2>2
<1>6. QED
  BY <1>3, <1>4, <1>5, BalloonSteps

\* A balloon that is placed has not been served.
LEMMA PlaceServed ==
    ASSUME Undisturbed, Steady, NEW c \in Carousels, NEW p \in Posts, Place(c, p)
    PROVE  Served(c, p) /\ ~Served(c, p)' /\ HasSent(c, p) # "fill" /\ HasSent(c, p)' = "fill"
<1>1. TypeOK /\ PostOK /\ Timed /\ REQUEST_CACHE > 0
  BY DEF Steady, TInv, Undisturbed
<1>2. HasSent(c, p) = "nothing"
  <2>1. <<c, p>> \in Carousels \X Posts
    OBVIOUS
  <2>2. QED
    BY <2>1, <1>1 DEF Place, PostOK, HasSent
<1>3. Left(c, "fill", p) = 0
  BY <1>1, <1>2 DEF Timed, Types
<1>4. PICK f \in Frame : f.post = p /\ f.type = "fill" /\ Sends(c, f, REQUEST_CACHE)
  BY PlaceSends
<1>5. HasSent(c, p)' = "fill" /\ Win(c, p)' = REQUEST_CACHE
  BY <1>4 DEF Sends, Puts
<1>6. Left(c, "fill", p)' = 0
  BY <1>3, <1>4, SendFlight DEF Types
<1>7. QED
  BY <1>1, <1>2, <1>5, <1>6 DEF Served

\* A balloon whose request is handled is served by that.
LEMMA HandledServed ==
    ASSUME Undisturbed, Steady, NEW c \in Carousels, NEW f \in Frame, NEW n,
           Remembers(c, f, n), f.type = "fill"
    PROVE  ~Served(c, f.post) /\ Served(c, f.post)'
<1>1. /\ HasSent(c, f.post) = "fill" /\ Win(c, f.post) = REQUEST_CACHE
      /\ Left(c, "fill", f.post) = 0 /\ REQUEST_CACHE > 0 /\ f.post \in Posts
  BY AtHandler DEF Remembers
<1>2. Left(c, "fill", f.post)' = REQUEST_CACHE
  BY DEF Remembers
<1>3. Win(c, f.post)' = REQUEST_CACHE
  BY <1>1, RememberFlight
<1>4. QED
  BY <1>1, <1>2, <1>3 DEF Served

\* Nothing else serves a balloon, or undoes it.
LEMMA ServedSteps ==
    ASSUME Undisturbed, Steady, [Next]_vars, NEW d \in Carousels, NEW q \in Posts
    PROVE  \/ Served(d, q)' <=> Served(d, q)
           \/ Place(d, q)
           \/ \E f \in Frame : f.type = "fill" /\ f.post = q /\ \E n : Remembers(d, f, n)
<1>1. TypeOK /\ Current /\ Timed /\ "fill" \in Types
  BY DEF Steady, TInv, Types
<1>2. CASE UNCHANGED <<post, inbox, recent>>
  BY <1>1, <1>2, QuietWords DEF Served
<1>3. ASSUME NEW c \in Carousels, NEW p \in Posts, Posting(c, p), ~Place(d, q)
      PROVE  Served(d, q)' <=> Served(d, q)
  <2>1. \/ \E f \in Frame : f.post = p /\ \E w : Sends(c, f, w)
        \/ recent' = recent /\ Puts(c, p, None, "nothing", 0)
    BY <1>3, PlaceSends, FilledSends, RepeatSends, LeavePuts DEF Posting
  <2>2. Left(d, "fill", q)' = Left(d, "fill", q)
    BY <2>1, <1>1, SendFlight DEF Left
  <2>3. CASE d # c \/ q # p
    <3>1. HasSent(d, q)' = HasSent(d, q) /\ Win(d, q)' = Win(d, q)
      BY <2>1, <2>3 DEF Sends, Puts
    <3>2. QED
      BY <3>1, <2>2 DEF Served
  <2>4. CASE d = c /\ q = p
    <3>1. CASE Filled(c, p)
      <4>1. HasSent(d, q) = "fill" /\ Win(d, q) = 0
        BY <2>4, <3>1, FilledSends
      <4>2. HasSent(d, q)' = "full"
        BY <2>4, <3>1, FilledSends DEF Sends, Puts
      <4>3. Left(d, "fill", q) = 0
        BY <4>1, <1>1 DEF Timed
      <4>4. QED
        BY <4>1, <4>2, <4>3 DEF Served
    <3>2. CASE Repeat(c, p)
      <4>1. HasSent(d, q)' = HasSent(d, q) /\ Win(d, q)' = Win(d, q)
        BY <2>4, <3>2, RepeatSends DEF Sends, Puts
      <4>2. QED
        BY <4>1, <2>2 DEF Served
    <3>3. CASE Leave(c, p)
      BY <2>4, <3>3, LeavePuts DEF Puts, Served
    <3>4. QED
      BY <1>3, <2>4, <3>1, <3>2, <3>3 DEF Posting
  <2>5. QED
    BY <2>3, <2>4
<1>4. CASE Tick
  <2>1. ~Waiting(d, "fill", q)
    BY <1>4, TickRest DEF Waiting
  <2>2. HasSent(d, q) = "fill" => Left(d, "fill", q) = Win(d, q)
    BY <2>1, <1>1 DEF Timed
  <2>3. /\ HasSent(d, q)' = HasSent(d, q) /\ Win(d, q)' = CountDown(Win(d, q))
        /\ Left(d, "fill", q)' = CountDown(Left(d, "fill", q))
    BY <1>1, <1>4, TickRest
  <2>4. QED
    BY <2>2, <2>3 DEF Served
<1>5. ASSUME NEW c \in Carousels, ReadDuplicate(c) \/ ReadFrame(c)
      PROVE  Served(d, q)' <=> Served(d, q)
  <2>1. post' = post /\ recent' = recent
    BY <1>5 DEF ReadDuplicate, ReadFrame, plant
  <2>2. QED
    BY <2>1 DEF Served, HasSent, Left, Win
<1>6. ASSUME NEW c \in Carousels, Handles(c)
      PROVE  \/ Served(d, q)' <=> Served(d, q)
             \/ \E f \in Frame : f.type = "fill" /\ f.post = q /\ \E n : Remembers(d, f, n)
  <2>1. PICK f \in Frame : \E n \in 0 .. MaxBalloons : Remembers(c, f, n)
    BY <1>1, <1>6, HandlersRemember DEF Handles
  <2>2. HasSent(d, q)' = HasSent(d, q) /\ Win(d, q)' = Win(d, q)
    BY <2>1, RememberFlight
  <2>3. CASE d # c \/ f.type # "fill" \/ q # f.post
    <3>1. Left(d, "fill", q)' = Left(d, "fill", q)
      BY <2>1, <2>3, <1>1 DEF Remembers
    <3>2. QED
      BY <3>1, <2>2 DEF Served
  <2>4. CASE d = c /\ f.type = "fill" /\ q = f.post
    BY <2>1, <2>4
  <2>5. QED
    BY <2>3, <2>4
<1>7. ASSUME NEW c \in Carousels, WriteReply(c) \/ StoreData(c)
      PROVE  UNCHANGED <<post, inbox, recent>>
  BY <1>7 DEF WriteReply, StoreData, plant, stream
<1>8. ASSUME NEW r \in Readers, Passes(r) PROVE UNCHANGED <<post, inbox, recent>>
  BY <1>8 DEF Passes, Scan, stream
<1>9. ASSUME UNCHANGED vars PROVE UNCHANGED <<post, inbox, recent>>
  BY <1>9 DEF vars, plant, stream
<1>10. QED
  BY <1>2, <1>3, <1>4, <1>5, <1>6, <1>7, <1>8, <1>9, Steps

\* Passports are taken by the handler of a request.
LEMMA TakenSteps ==
    ASSUME Undisturbed, Steady, [Next]_vars, taken' # taken
    PROVE  \E c \in Carousels : \E f \in Frame : \E n :
              /\ Remembers(c, f, n) /\ f.type = "fill" /\ placed' = placed
              /\ taken' = taken \union {<<ReaderOf[c], f.balloon, n>>}
<1>1. TypeOK
  BY DEF Steady, TInv
<1>2. ASSUME NEW c \in Carousels,
             ReadDuplicate(c) \/ ReadFrame(c) \/ WriteReply(c) \/ StoreData(c)
      PROVE  FALSE
  BY <1>2 DEF ReadDuplicate, ReadFrame, WriteReply, StoreData, history
<1>3. ASSUME NEW c \in Carousels, NEW p \in Posts, Posting(c, p) PROVE FALSE
  BY <1>3 DEF Posting, Place, Filled, Repeat, Leave, Send, history
<1>4. ~UNCHANGED vars /\ ~Tick /\ \A r \in Readers : ~Passes(r)
  BY DEF vars, history, Tick, Passes, Scan
<1>5. PICK c \in Carousels : Handles(c)
  BY <1>2, <1>3, <1>4, Steps
<1>6. PICK f \in Frame : \E n \in 0 .. MaxBalloons :
          /\ Remembers(c, f, n) /\ f.type = "fill"
          /\ taken' = taken \union {<<ReaderOf[c], f.balloon, n>>}
  BY <1>1, <1>5, HandlersRemember DEF Handles
<1>7. placed' = placed
  BY <1>6 DEF Remembers
<1>8. QED
  BY <1>6, <1>7, Zenon

LEMMA OnceSteps ==
    ASSUME Undisturbed, OnceInv, [Next]_vars
    PROVE  OnceInv'
<1>1. Steady /\ Standing /\ TakenForServed /\ OnePassportPerRequest /\ TypeOK
  BY DEF OnceInv, Steady, TInv
<1>2. Steady' /\ Standing' /\ \A r \in Readers : placed[r] <= placed'[r]
  BY <1>1, StepSteady, StandingSteps
<1>3. placed \in [Readers -> 0 .. MaxBalloons] /\ placed' \in [Readers -> 0 .. MaxBalloons]
  BY <1>1, <1>2 DEF TypeOK, Steady, TInv
<1>4. \A r \in Readers : placed[r] \in Nat /\ placed'[r] \in Nat
  BY <1>3
<1>5. ASSUME NEW x \in taken
      PROVE  /\ x[1] \in Readers /\ x[2] \in Balloons /\ x[2] <= placed'[x[1]]
             /\ \A d \in Carousels, q \in Posts :
                   (ReaderOf[d] = x[1] /\ Bal(d, q) = x[2] => Served(d, q))'
  <2>1. x[1] \in Readers /\ x[2] \in Balloons /\ x[2] <= placed[x[1]]
    BY <1>1 DEF TakenForServed
  <2>2. x[2] \in Nat /\ x[2] # None /\ x[2] <= placed'[x[1]]
    BY <2>1, <1>2, <1>4 DEF Balloons, None
  <2>3. ASSUME NEW d \in Carousels, NEW q \in Posts, ReaderOf[d] = x[1], Bal(d, q)' = x[2]
        PROVE  Served(d, q)'
    <3>1. ~Place(d, q)
      <4>1. SUFFICES ASSUME Place(d, q) PROVE FALSE
        OBVIOUS
      <4>2. Bal(d, q)' = placed[ReaderOf[d]] + 1
        BY <4>1, <1>1, PlaceSends DEF Sends, Puts
      <4>3. QED
        BY <4>2, <2>1, <2>2, <2>3, <1>4
    <3>2. Bal(d, q) = Bal(d, q)'
      <4>1. CASE \E c \in Carousels : \E p \in Posts : Place(c, p)
        BY <4>1, <3>1, <1>1, PlaceSends DEF Sends, Puts
      <4>2. CASE \E c \in Carousels : \E p \in Posts : Leave(c, p)
        BY <4>2, <2>2, <2>3, <1>1, LeavePuts DEF Puts
      <4>3. QED
        BY <4>1, <4>2, <1>1, BalloonSteps
    <3>3. Served(d, q)
      BY <3>2, <2>3, <1>1 DEF TakenForServed
    <3>4. QED
      BY <3>1, <3>3, <1>1, ServedSteps, HandledServed
  <2>4. QED
    BY <2>1, <2>2, <2>3
<1>6. CASE taken' = taken
  BY <1>1, <1>2, <1>5, <1>6 DEF OnceInv, TakenForServed, OnePassportPerRequest
<1>7. CASE taken' # taken
  <2>1. PICK c \in Carousels : \E f \in Frame : \E n :
            /\ Remembers(c, f, n) /\ f.type = "fill" /\ placed' = placed
            /\ taken' = taken \union {<<ReaderOf[c], f.balloon, n>>}
    BY <1>1, <1>7, TakenSteps
  <2>2. PICK f \in Frame : \E n :
            /\ Remembers(c, f, n) /\ f.type = "fill" /\ placed' = placed
            /\ taken' = taken \union {<<ReaderOf[c], f.balloon, n>>}
    BY <2>1
  <2>3. PICK n :
            /\ Remembers(c, f, n) /\ f.type = "fill" /\ placed' = placed
            /\ taken' = taken \union {<<ReaderOf[c], f.balloon, n>>}
    BY <2>2
  <2>4. PICK r \in Readers : r = ReaderOf[c]
    BY ReaderAssumption
  <2>5. PICK new : new = <<r, f.balloon, n>>
    OBVIOUS
  <2>6. new[1] = r /\ new[2] = f.balloon /\ taken' = taken \union {new}
    BY <2>3, <2>4, <2>5
  <2>7. f.post \in Posts /\ f.balloon \in Balloons /\ Bal(c, f.post) = f.balloon
    BY <2>3, <1>1, AtHandler DEF Remembers
  <2>8. ~Served(c, f.post) /\ Served(c, f.post)' /\ Bal(c, f.post)' = f.balloon
    BY <2>3, <2>7, <1>1, HandledServed, RememberFlight
  <2>9. f.balloon # None
    BY <2>7 DEF Balloons, None
  <2>10. /\ new[2] <= placed'[new[1]]
         /\ \A d \in Carousels, q \in Posts :
               (ReaderOf[d] = new[1] /\ Bal(d, q) = new[2] => Served(d, q))'
    <3>1. f.balloon <= placed'[r]
      BY <2>4, <2>7, <2>8, <1>2 DEF Standing
    <3>2. \A d \in Carousels, q \in Posts :
             ReaderOf[d] = r /\ Bal(d, q)' = f.balloon => d = c /\ q = f.post
      BY <2>4, <2>7, <2>8, <2>9, <1>2 DEF Standing
    <3>3. QED
      BY <2>6, <2>8, <3>1, <3>2
  <2>11. TakenForServed'
    <3>1. \A x \in taken' : x \in taken \/ x = new
      BY <2>6
    <3>2. QED
      BY <1>5, <2>6, <2>7, <2>10, <3>1 DEF TakenForServed
  <2>12. \A x \in taken : ~(x[1] = r /\ x[2] = f.balloon)
    BY <2>4, <2>7, <2>8, <1>1 DEF TakenForServed
  <2>13. OnePassportPerRequest'
    BY <2>6, <2>12, <1>1 DEF OnePassportPerRequest
  <2>14. QED
    BY <2>11, <2>13, <1>2 DEF OnceInv
<1>8. QED
  BY <1>6, <1>7

\* While nothing is disturbed, one passport is taken for a balloon, however often its post
\* repeats the FILL frame and however many carousels share the reader: the entry of the cache
\* outlives the repetitions (is_duplicate_request, cache_request_result).
THEOREM OnePassport == ASSUME Undisturbed PROVE Spec => []OnePassportPerRequest
<1>1. Init => OnceInv
  <2> SUFFICES ASSUME Init PROVE OnceInv
    OBVIOUS
  <2>1. taken = {} /\ Steady
    BY InitSteady DEF Init
  <2>2. \A c \in Carousels, p \in Posts : Bal(c, p) = None /\ placed[ReaderOf[c]] = 0
    BY DEF Init, Bal
  <2>3. Standing
    BY <2>2 DEF Standing, None
  <2>4. QED
    BY <2>1, <2>3 DEF OnceInv, TakenForServed, OnePassportPerRequest
<1>2. OnceInv /\ [Next]_vars => OnceInv'
  BY OnceSteps
<1>3. OnceInv => OnePassportPerRequest
  BY DEF OnceInv
<1>4. QED
  BY <1>1, <1>2, <1>3, PTL DEF Spec

----------------------------------------------------------------------------
(* The rows of the table *)

\* A task goes on with a frame until it has stored it.
LEMMA FinishingSteps ==
    ASSUME Undisturbed, Steady, [Next]_vars, NEW d \in Carousels, NEW g \in Frame, Finishing(d, g)
    PROVE  \/ /\ Finishing(d, g)' /\ task'[d].nfc = task[d].nfc
              /\ task[d].step = "store" => task'[d].step = "store"
           \/ StoreData(d)
<1>1. TypeOK
  BY DEF Steady, TInv
<1>2. CASE task'[d] = task[d]
  BY <1>2 DEF Finishing
<1>3. ASSUME NEW c \in Carousels, ReadDuplicate(c) \/ ReadFrame(c) PROVE task'[d] = task[d]
  <2>1. ~Finishing(c, g)
    BY <1>3 DEF ReadDuplicate, ReadFrame, NextFrame, Finishing, Idle
  <2>2. c # d
    BY <2>1
  <2>3. task' = task \/ \A e \in Carousels : e # c => task'[e] = task[e]
    BY <1>1, <1>3, FrameReads DEF ReadDuplicate
  <2>4. QED
    BY <2>2, <2>3
<1>4. ASSUME NEW c \in Carousels, Handles(c) PROVE task'[d] = task[d]
  <2>1. PICK f \in Frame : \E n \in 0 .. MaxBalloons : Remembers(c, f, n)
    BY <1>1, <1>4, HandlersRemember DEF Handles
  <2>2. c # d
    BY <2>1, RememberFlight
  <2>3. QED
    BY <2>1, <2>2 DEF Remembers
<1>5. ASSUME NEW c \in Carousels, WriteReply(c)
      PROVE  \/ Finishing(d, g)' /\ task'[d].nfc = task[d].nfc /\ task'[d].step = "store"
             \/ task'[d] = task[d]
  <2>1. CASE c # d
    BY <2>1, <1>1, <1>5, ReplyFacts
  <2>2. CASE c = d
    <3>1. PICK f \in Frame :
              /\ Finishing(d, f) /\ Finishing(d, f)' /\ task'[d].nfc = task[d].nfc
              /\ task'[d].step = "store"
      BY <2>2, <1>1, <1>5, ReplyFacts
    <3>2. f = g
      BY <3>1 DEF Finishing
    <3>3. QED
      BY <3>1, <3>2
  <2>3. QED
    BY <2>1, <2>2
<1>6. ASSUME NEW c \in Carousels, StoreData(c), c # d PROVE task'[d] = task[d]
  BY <1>1, <1>6, StoreFacts
<1>7. ASSUME NEW c \in Carousels, NEW p \in Posts, Posting(c, p) PROVE task'[d] = task[d]
  BY <1>7 DEF Posting, Place, Filled, Repeat, Leave, Send
<1>8. ASSUME UNCHANGED vars \/ Tick \/ \E r \in Readers : Passes(r) PROVE task'[d] = task[d]
  BY <1>8 DEF vars, Tick, Passes, Scan
<1>9. QED
  BY <1>2, <1>3, <1>4, <1>5, <1>6, <1>7, <1>8, Steps

\* Rows are written by StoreData only.
LEMMA RowSteps ==
    ASSUME Undisturbed, Steady, [Next]_vars
    PROVE  rows' = rows \/ \E c \in Carousels : StoreData(c)
<1>1. TypeOK
  BY DEF Steady, TInv
<1>2. ASSUME NEW c \in Carousels, ReadDuplicate(c) \/ ReadFrame(c) \/ Handles(c) \/ WriteReply(c)
      PROVE  rows' = rows
  BY <1>2 DEF ReadDuplicate, ReadFrame, Handles, HandleFull, HandleFillWithoutPassport, HandleFill,
              WriteReply
<1>3. ASSUME NEW c \in Carousels, NEW p \in Posts, Posting(c, p) PROVE rows' = rows
  BY <1>3 DEF Posting, Place, Filled, Repeat, Leave, Send
<1>4. ASSUME UNCHANGED vars \/ Tick \/ \E r \in Readers : Passes(r) PROVE rows' = rows
  BY <1>4 DEF vars, Tick, Passes, Scan
<1>5. QED
  BY <1>2, <1>3, <1>4, Steps

\* An inserted row is the last one; the others stay.
LEMMA InsertFacts ==
    ASSUME TypeOK, NEW c \in Carousels, NEW f \in Frame, NEW n \in 0 .. MaxBalloons,
           InsertRow(c, f, n)
    PROVE  /\ DOMAIN rows' = DOMAIN rows \union {Len(rows) + 1}
           /\ \A i \in DOMAIN rows : rows'[i] = rows[i]
           /\ \A i \in DOMAIN rows : i \in Nat /\ i < Len(rows) + 1
           /\ Len(rows) + 1 \in Nat
           /\ rows'[Len(rows) + 1].carousel = c
           /\ rows'[Len(rows) + 1].post = f.post
           /\ rows'[Len(rows) + 1].balloon = f.balloon
           /\ rows'[Len(rows) + 1].nfc = n
           /\ rows'[Len(rows) + 1].weighed = None
<1> DEFINE row == [carousel |-> c, post |-> f.post, balloon |-> f.balloon,
                   nfc |-> n, weighed |-> None]
<1>1. row \in Row /\ rows \in Seq(Row)
  BY DEF TypeOK, Row, Frame, None
<1>2. rows' = Append(rows, row)
  BY DEF InsertRow
<1> HIDE DEF row
<1>3. /\ Len(rows) \in Nat /\ DOMAIN rows = 1 .. Len(rows)
      /\ DOMAIN rows' = 1 .. Len(rows) + 1
      /\ \A i \in DOMAIN rows : rows'[i] = rows[i]
      /\ rows'[Len(rows) + 1] = row
  BY <1>1, <1>2
<1>4. /\ DOMAIN rows' = DOMAIN rows \union {Len(rows) + 1}
      /\ \A i \in DOMAIN rows : i \in Nat /\ i < Len(rows) + 1
      /\ Len(rows) + 1 \in Nat
  BY <1>3
<1>5. /\ row.carousel = c /\ row.post = f.post /\ row.balloon = f.balloon
      /\ row.nfc = n /\ row.weighed = None
  BY DEF row
<1>6. QED
  BY <1>3, <1>4, <1>5

\* An update weighs the last row of the post.
LEMMA UpdateFacts ==
    ASSUME TypeOK, NEW c \in Carousels, NEW f \in Frame, UpdateRow(c, f)
    PROVE  \/ rows' = rows
           \/ \E k \in DOMAIN rows :
                 /\ IsLast(k, c, f.post)
                 /\ DOMAIN rows' = DOMAIN rows
                 /\ \A i \in DOMAIN rows :
                       /\ rows'[i].carousel = rows[i].carousel /\ rows'[i].post = rows[i].post
                       /\ rows'[i].balloon = rows[i].balloon /\ rows'[i].nfc = rows[i].nfc
                       /\ i # k => rows'[i].weighed = rows[i].weighed
                 /\ rows'[k].weighed = f.balloon
<1>1. CASE rows' = rows
  BY <1>1
<1>2. CASE rows' # rows
  <2>1. PICK k \in RowsOf(c, f.post) :
            IsLast(k, c, f.post) /\ rows' = [rows EXCEPT ![k].weighed = f.balloon]
    BY <1>2 DEF UpdateRow
  <2>2. k \in DOMAIN rows /\ rows \in Seq(Row)
    BY <2>1 DEF TypeOK, RowsOf
  <2>3. rows[k] \in Row
    BY <2>2
  <2>4. rows' = [rows EXCEPT ![k] = [rows[k] EXCEPT !.weighed = f.balloon]]
    BY <2>1
  <2>5. /\ DOMAIN rows' = DOMAIN rows
        /\ \A i \in DOMAIN rows : i # k => rows'[i] = rows[i]
        /\ rows'[k] = [rows[k] EXCEPT !.weighed = f.balloon]
    BY <2>2, <2>4
  <2>6. /\ rows'[k].carousel = rows[k].carousel /\ rows'[k].post = rows[k].post
        /\ rows'[k].balloon = rows[k].balloon /\ rows'[k].nfc = rows[k].nfc
        /\ rows'[k].weighed = f.balloon
    BY <2>3, <2>5 DEF Row
  <2>7. \A i \in DOMAIN rows :
           /\ rows'[i].carousel = rows[i].carousel /\ rows'[i].post = rows[i].post
           /\ rows'[i].balloon = rows[i].balloon /\ rows'[i].nfc = rows[i].nfc
           /\ i # k => rows'[i].weighed = rows[i].weighed
    BY <2>5, <2>6
  <2>8. QED
    BY <2>1, <2>2, <2>5, <2>6, <2>7
<1>3. QED
  BY <1>1, <1>2

\* A balloon whose row is stored stays so, and a step that stores no row of it makes none.
LEMMA StoredSteps ==
    ASSUME Undisturbed, Steady, [Next]_vars, NEW d \in Carousels, NEW q \in Posts, Stored(d, q)',
           ~\E f \in Frame : f.post = q /\ f.type = "fill" /\ Finishing(d, f) /\ StoreData(d)
    PROVE  Stored(d, q) /\ Bal(d, q)' = Bal(d, q)
<1>1. Bal(d, q)' # None /\ Served(d, q)'
  BY DEF Stored
<1>2. ~Place(d, q)
  BY <1>1, PlaceServed
<1>3. ~Leave(d, q)
  BY <1>1, LeavePuts DEF Puts
<1>4. Bal(d, q)' = Bal(d, q)
  <2>1. CASE \E c \in Carousels : \E p \in Posts : Place(c, p)
    BY <2>1, <1>2, PlaceSends DEF Sends, Puts
  <2>2. CASE \E c \in Carousels : \E p \in Posts : Leave(c, p)
    BY <2>2, <1>3, LeavePuts DEF Puts
  <2>3. QED
    BY <2>1, <2>2, BalloonSteps
<1>5. Served(d, q)
  <2>1. \A f \in Frame : f.type = "fill" /\ f.post = q => ~Finishing(d, f)'
    BY DEF Stored
  <2>2. ~\E f \in Frame : f.type = "fill" /\ f.post = q /\ \E n : Remembers(d, f, n)
    BY <2>1 DEF Remembers
  <2>3. QED
    BY <1>1, <1>2, <2>2, ServedSteps
<1>6. ASSUME NEW f \in Frame, f.post = q, f.type = "fill" PROVE ~Finishing(d, f)
  <2>1. ~Finishing(d, f)'
    BY <1>6 DEF Stored
  <2>2. QED
    BY <1>6, <2>1, FinishingSteps
<1>7. QED
  BY <1>1, <1>4, <1>5, <1>6 DEF Stored

\* The rows of a post after a row is inserted, and after one is weighed.
LEMMA LastAfterInsert ==
    ASSUME TypeOK, NEW c \in Carousels, NEW f \in Frame, NEW n \in 0 .. MaxBalloons,
           InsertRow(c, f, n)
    PROVE  /\ \E k \in DOMAIN rows' : IsLast(k, c, f.post)' /\ rows'[k].balloon = f.balloon
           /\ \A d \in Carousels, q \in Posts, i \in DOMAIN rows :
                 (d # c \/ q # f.post) /\ IsLast(i, d, q) =>
                     IsLast(i, d, q)' /\ i \in DOMAIN rows' /\ rows'[i].balloon = rows[i].balloon
<1>1. PICK k : k = Len(rows) + 1
  OBVIOUS
<1>2. /\ k \in DOMAIN rows' /\ k \in Nat
      /\ DOMAIN rows' = DOMAIN rows \union {k}
      /\ \A i \in DOMAIN rows : rows'[i] = rows[i]
      /\ \A i \in DOMAIN rows : i \in Nat /\ i < k
      /\ rows'[k].carousel = c /\ rows'[k].post = f.post /\ rows'[k].balloon = f.balloon
  BY <1>1, InsertFacts
<1>3. IsLast(k, c, f.post)'
  BY <1>2 DEF IsLast, RowsOf
<1>4. ASSUME NEW d \in Carousels, NEW q \in Posts, NEW i \in DOMAIN rows,
             d # c \/ q # f.post, IsLast(i, d, q)
      PROVE  IsLast(i, d, q)' /\ i \in DOMAIN rows' /\ rows'[i].balloon = rows[i].balloon
  <2>1. RowsOf(d, q)' = RowsOf(d, q)
    BY <1>2, <1>4 DEF RowsOf
  <2>2. QED
    BY <2>1, <1>2, <1>4 DEF IsLast
<1>5. QED
  BY <1>2, <1>3, <1>4

LEMMA LastAfterUpdate ==
    ASSUME TypeOK, NEW c \in Carousels, NEW f \in Frame, UpdateRow(c, f)
    PROVE  /\ DOMAIN rows' = DOMAIN rows
           /\ \A i \in DOMAIN rows : rows'[i].balloon = rows[i].balloon
           /\ \A d \in Carousels, q \in Posts, i \in DOMAIN rows :
                 IsLast(i, d, q)' <=> IsLast(i, d, q)
<1>1. \/ rows' = rows
      \/ /\ DOMAIN rows' = DOMAIN rows
         /\ \A i \in DOMAIN rows :
               /\ rows'[i].carousel = rows[i].carousel /\ rows'[i].post = rows[i].post
               /\ rows'[i].balloon = rows[i].balloon
  BY UpdateFacts
<1>2. \A d \in Carousels, q \in Posts : RowsOf(d, q)' = RowsOf(d, q)
  BY <1>1 DEF RowsOf
<1>3. \A d \in Carousels, q \in Posts, i \in DOMAIN rows : IsLast(i, d, q)' <=> IsLast(i, d, q)
  BY <1>2 DEF IsLast
<1>4. QED
  BY <1>1, <1>3

\* What a task stores belongs to the balloon on the post.
LEMMA AtStore ==
    ASSUME Undisturbed, Steady, NEW c \in Carousels, NEW f \in Frame, Finishing(c, f)
    PROVE  /\ f.type \in Types /\ f.post \in Posts /\ f.balloon \in Balloons
           /\ Bal(c, f.post) = f.balloon /\ Bal(c, f.post) # None
           /\ HasSent(c, f.post) = f.type /\ Served(c, f.post)
           /\ \A g \in Frame : Finishing(c, g) => g = f
<1>1. Current /\ Timed /\ Remembered
  BY DEF Steady
<1>2. f.type \in Types /\ f.post \in Posts /\ f.balloon \in Balloons /\ f.balloon # None
  BY FrameFields DEF Balloons, None
<1>3. /\ Bal(c, f.post) = f.balloon /\ HasSent(c, f.post) = f.type
      /\ Left(c, f.type, f.post) > 0
  BY <1>1 DEF Current, Remembered
<1>4. Left(c, f.type, f.post) = Win(c, f.post)
  BY <1>1, <1>2, <1>3 DEF Timed
<1>5. Served(c, f.post)
  BY <1>3, <1>4 DEF Served
<1>6. \A g \in Frame : Finishing(c, g) => g = f
  BY DEF Finishing
<1>7. QED
  BY <1>2, <1>3, <1>5, <1>6

LEMMA RowInvSteps == ASSUME Undisturbed, RowInv, [Next]_vars PROVE RowInv'
<1>1. Steady /\ LastRowIsOwn /\ FullWeightOnOwnRow /\ TypeOK
  BY DEF RowInv, Steady, TInv
<1>2. Steady'
  BY <1>1, StepSteady
<1>3. CASE rows' = rows /\ ~\E c \in Carousels : StoreData(c)
  <2>1. FullWeightOnOwnRow'
    BY <1>1, <1>3 DEF FullWeightOnOwnRow
  <2>2. LastRowIsOwn'
    BY <1>1, <1>3, StoredSteps DEF LastRowIsOwn, IsLast, RowsOf
  <2>3. QED
    BY <1>2, <2>1, <2>2 DEF RowInv
<1>4. ASSUME NEW c \in Carousels, StoreData(c) PROVE RowInv'
  <2>1. PICK f \in Frame :
            /\ Finishing(c, f) /\ task[c].nfc \in 0 .. MaxBalloons
            /\ \/ f.type = "fill" /\ InsertRow(c, f, task[c].nfc)
               \/ f.type = "full" /\ UpdateRow(c, f)
            /\ task'[c] = Idle
            /\ \A d \in Carousels : d # c => task'[d] = task[d]
            /\ UNCHANGED post
    BY <1>1, <1>4, StoreFacts
  <2>2. /\ f.post \in Posts /\ Bal(c, f.post) = f.balloon /\ Bal(c, f.post) # None
        /\ HasSent(c, f.post) = f.type /\ Served(c, f.post)
        /\ \A g \in Frame : Finishing(c, g) => g = f
    BY <2>1, <1>1, AtStore
  <2>3. \A d \in Carousels, q \in Posts : Bal(d, q)' = Bal(d, q)
    BY <2>1 DEF Bal
  <2>4. ASSUME NEW d \in Carousels, NEW q \in Posts, Stored(d, q)', d # c \/ q # f.post
        PROVE  \E i \in DOMAIN rows : IsLast(i, d, q) /\ rows[i].balloon = Bal(d, q)
    <3>1. \A g \in Frame : d # c => (Finishing(d, g)' <=> Finishing(d, g))
      BY <2>1 DEF Finishing
    <3>2. ~\E g \in Frame : g.post = q /\ g.type = "fill" /\ Finishing(d, g) /\ StoreData(d)
      <4>1. CASE d = c
        BY <2>2, <2>4, <4>1
      <4>2. CASE d # c
        BY <3>1, <2>4, <4>2 DEF Stored
      <4>3. QED
        BY <4>1, <4>2
    <3>3. Stored(d, q)
      BY <3>2, <2>4, <1>1, StoredSteps
    <3>4. QED
      BY <3>3, <1>1 DEF LastRowIsOwn
  <2>5. CASE f.type = "fill" /\ InsertRow(c, f, task[c].nfc)
    <3>1. PICK n \in 0 .. MaxBalloons : InsertRow(c, f, n)
      BY <2>1, <2>5
    <3>2. FullWeightOnOwnRow'
      <4>1. /\ DOMAIN rows' = DOMAIN rows \union {Len(rows) + 1}
            /\ \A i \in DOMAIN rows : rows'[i] = rows[i]
            /\ rows'[Len(rows) + 1].weighed = None
        BY <3>1, <1>1, InsertFacts
      <4>2. QED
        BY <4>1, <1>1 DEF FullWeightOnOwnRow
    <3>3. ASSUME NEW d \in Carousels, NEW q \in Posts, Stored(d, q)'
          PROVE  \E i \in DOMAIN rows' : IsLast(i, d, q)' /\ rows'[i].balloon = Bal(d, q)'
      <4>1. CASE d = c /\ q = f.post
        BY <4>1, <3>1, <2>2, <2>3, <1>1, LastAfterInsert
      <4>2. CASE d # c \/ q # f.post
        <5>1. PICK i \in DOMAIN rows : IsLast(i, d, q) /\ rows[i].balloon = Bal(d, q)
          BY <3>3, <4>2, <2>4
        <5>2. IsLast(i, d, q)' /\ i \in DOMAIN rows' /\ rows'[i].balloon = rows[i].balloon
          BY <5>1, <4>2, <3>1, <1>1, LastAfterInsert
        <5>3. QED
          BY <5>1, <5>2, <2>3
      <4>3. QED
        BY <4>1, <4>2
    <3>4. LastRowIsOwn'
      BY <3>3 DEF LastRowIsOwn
    <3>5. QED
      BY <1>2, <3>2, <3>4 DEF RowInv
  <2>6. CASE f.type = "full" /\ UpdateRow(c, f)
    <3>1. PICK own \in DOMAIN rows : IsLast(own, c, f.post) /\ rows[own].balloon = f.balloon
      <4>1. Stored(c, f.post)
        BY <2>2, <2>6 DEF Stored
      <4>2. QED
        BY <4>1, <2>2, <1>1 DEF LastRowIsOwn
    <3>2. \A i, j \in DOMAIN rows : IsLast(i, c, f.post) /\ IsLast(j, c, f.post) => i = j
      <4>1. DOMAIN rows \subseteq Nat
        BY <1>1 DEF TypeOK
      <4>2. QED
        BY <4>1 DEF IsLast
    <3>3. FullWeightOnOwnRow'
      <4>1. CASE rows' = rows
        BY <4>1, <1>1 DEF FullWeightOnOwnRow
      <4>2. CASE rows' # rows
        <5>1. PICK k \in DOMAIN rows :
                  /\ IsLast(k, c, f.post)
                  /\ DOMAIN rows' = DOMAIN rows
                  /\ \A i \in DOMAIN rows :
                        /\ rows'[i].balloon = rows[i].balloon
                        /\ i # k => rows'[i].weighed = rows[i].weighed
                  /\ rows'[k].weighed = f.balloon
          BY <4>2, <2>6, <1>1, UpdateFacts
        <5>2. rows[k].balloon = f.balloon
          BY <5>1, <3>1, <3>2
        <5>3. QED
          BY <5>1, <5>2, <1>1 DEF FullWeightOnOwnRow
      <4>3. QED
        BY <4>1, <4>2
    <3>4. ASSUME NEW d \in Carousels, NEW q \in Posts, Stored(d, q)'
          PROVE  \E i \in DOMAIN rows' : IsLast(i, d, q)' /\ rows'[i].balloon = Bal(d, q)'
      <4>1. PICK i \in DOMAIN rows : IsLast(i, d, q) /\ rows[i].balloon = Bal(d, q)
        BY <3>1, <3>4, <2>2, <2>4
      <4>2. IsLast(i, d, q)' /\ i \in DOMAIN rows' /\ rows'[i].balloon = rows[i].balloon
        BY <4>1, <2>6, <1>1, LastAfterUpdate
      <4>3. QED
        BY <4>1, <4>2, <2>3
    <3>5. LastRowIsOwn'
      BY <3>4 DEF LastRowIsOwn
    <3>6. QED
      BY <1>2, <3>3, <3>5 DEF RowInv
  <2>7. QED
    BY <2>1, <2>5, <2>6
<1>5. QED
  BY <1>1, <1>3, <1>4, RowSteps

\* While nothing is disturbed the full weight goes to the row of the same balloon, on any
\* number of carousels and posts, although the frame only names the post: the last row of the
\* post is that of the balloon on it (process_carousel_data, the 0x70 branch).
THEOREM FullWeight == ASSUME Undisturbed PROVE Spec => []FullWeightOnOwnRow
<1>1. Init => RowInv
  <2> SUFFICES ASSUME Init PROVE RowInv
    OBVIOUS
  <2>1. rows = <<>> /\ Steady
    BY InitSteady DEF Init
  <2>2. \A c \in Carousels, p \in Posts : Bal(c, p) = None
    BY DEF Init, Bal
  <2>3. QED
    BY <2>1, <2>2 DEF RowInv, LastRowIsOwn, Stored, FullWeightOnOwnRow
<1>2. RowInv /\ [Next]_vars => RowInv'
  BY RowInvSteps
<1>3. RowInv => FullWeightOnOwnRow
  BY DEF RowInv
<1>4. QED
  BY <1>1, <1>2, <1>3, PTL DEF Spec

----------------------------------------------------------------------------
(* The answers *)

\* What is recorded stays recorded; what a task stores from a request is.
LEMMA RecordedSteps ==
    ASSUME Undisturbed, Steady, [Next]_vars
    PROVE  /\ \A c \in Carousels : \A b, n : Recorded(c, b, n) => Recorded(c, b, n)'
           /\ \A c \in Carousels, f \in Frame, n \in 0 .. MaxBalloons :
                 StoreData(c) /\ Finishing(c, f) /\ f.type = "fill" /\ n = task[c].nfc =>
                     Recorded(c, f.balloon, n)'
<1>1. TypeOK
  BY DEF Steady, TInv
<1>2. ASSUME NEW c \in Carousels, NEW b, NEW n, Recorded(c, b, n) PROVE Recorded(c, b, n)'
  <2>1. PICK i \in DOMAIN rows : rows[i].carousel = c /\ rows[i].balloon = b /\ rows[i].nfc = n
    BY <1>2 DEF Recorded
  <2>2. /\ i \in DOMAIN rows'
        /\ rows'[i].carousel = rows[i].carousel /\ rows'[i].balloon = rows[i].balloon
        /\ rows'[i].nfc = rows[i].nfc
    <3>1. CASE rows' = rows
      BY <3>1
    <3>2. ASSUME NEW d \in Carousels, NEW f \in Frame, NEW m \in 0 .. MaxBalloons,
                 InsertRow(d, f, m)
          PROVE  i \in DOMAIN rows' /\ rows'[i] = rows[i]
      BY <3>2, <1>1, InsertFacts
    <3>3. ASSUME NEW d \in Carousels, NEW f \in Frame, UpdateRow(d, f)
          PROVE  /\ i \in DOMAIN rows'
                 /\ rows'[i].carousel = rows[i].carousel /\ rows'[i].balloon = rows[i].balloon
                 /\ rows'[i].nfc = rows[i].nfc
      BY <3>3, <1>1, UpdateFacts
    <3>4. QED
      BY <3>1, <3>2, <3>3, <1>1, RowSteps, StoreFacts
  <2>3. QED
    BY <2>1, <2>2 DEF Recorded
<1>3. ASSUME NEW c \in Carousels, NEW f \in Frame, NEW n \in 0 .. MaxBalloons,
             StoreData(c), Finishing(c, f), f.type = "fill", n = task[c].nfc
      PROVE  Recorded(c, f.balloon, n)'
  <2>1. PICK g \in Frame :
            Finishing(c, g) /\ (g.type = "fill" => InsertRow(c, g, task[c].nfc))
    BY <1>1, <1>3, StoreFacts
  <2>2. g = f
    BY <1>3, <2>1 DEF Finishing
  <2>3. InsertRow(c, f, n)
    BY <1>3, <2>1, <2>2
  <2>4. /\ Len(rows) + 1 \in DOMAIN rows'
        /\ rows'[Len(rows) + 1].carousel = c /\ rows'[Len(rows) + 1].balloon = f.balloon
        /\ rows'[Len(rows) + 1].nfc = n
    BY <2>3, <1>1, InsertFacts
  <2>5. QED
    BY <2>4 DEF Recorded
<1>4. QED
  BY <1>2, <1>3

\* An entry of the cache is written when a request is handled, and otherwise ages.
LEMMA CacheSteps ==
    ASSUME Undisturbed, Steady, [Next]_vars, NEW d \in Carousels, NEW t \in Types, NEW q \in Posts,
           Left(d, t, q)' > 0
    PROVE  \/ Left(d, t, q) > 0 /\ Nfc(d, t, q)' = Nfc(d, t, q)
           \/ \E f \in Frame : f.type = t /\ f.post = q /\ \E n : Remembers(d, f, n)
<1>1. TypeOK
  BY DEF Steady, TInv
<1>2. CASE recent' = recent
  BY <1>2 DEF Left, Nfc
<1>3. CASE Tick
  <2>1. Left(d, t, q)' = CountDown(Left(d, t, q)) /\ Nfc(d, t, q)' = Nfc(d, t, q)
    BY <1>3, TickRest
  <2>2. Left(d, t, q) \in 0 .. REQUEST_CACHE
    BY <1>1, WordTypes
  <2>3. QED
    BY <2>1, <2>2 DEF CountDown
<1>4. ASSUME NEW c \in Carousels, Handles(c)
      PROVE  \/ Left(d, t, q)' = Left(d, t, q) /\ Nfc(d, t, q)' = Nfc(d, t, q)
             \/ \E f \in Frame : f.type = t /\ f.post = q /\ \E n : Remembers(d, f, n)
  <2>1. PICK f \in Frame : \E n \in 0 .. MaxBalloons : Remembers(c, f, n)
    BY <1>1, <1>4, HandlersRemember DEF Handles
  <2>2. CASE d = c /\ t = f.type /\ q = f.post
    BY <2>1, <2>2
  <2>3. CASE d # c \/ t # f.type \/ q # f.post
    BY <2>1, <2>3 DEF Remembers
  <2>4. QED
    BY <2>2, <2>3
<1>5. ASSUME NEW c \in Carousels,
             ReadDuplicate(c) \/ ReadFrame(c) \/ WriteReply(c) \/ StoreData(c)
      PROVE  recent' = recent
  BY <1>5 DEF ReadDuplicate, ReadFrame, WriteReply, StoreData
<1>6. ASSUME NEW c \in Carousels, NEW p \in Posts, Posting(c, p) PROVE recent' = recent
  BY <1>6 DEF Posting, Place, Filled, Repeat, Leave, Send
<1>7. ASSUME UNCHANGED vars \/ \E r \in Readers : Passes(r) PROVE recent' = recent
  BY <1>7 DEF vars, Passes, Scan
<1>8. QED
  BY <1>2, <1>3, <1>4, <1>5, <1>6, <1>7, Steps

\* While the cache knows the answer to a post, the balloon does not change.
LEMMA CachedBalloon ==
    ASSUME Undisturbed, Steady, [Next]_vars, NEW d \in Carousels, NEW t \in Types, NEW q \in Posts,
           Left(d, t, q) > 0
    PROVE  Bal(d, q)' = Bal(d, q)
<1>1. Timed
  BY DEF Steady
<1>2. HasSent(d, q) = t /\ Win(d, q) > 0
  BY <1>1 DEF Timed
<1>3. ~Place(d, q) /\ ~Leave(d, q)
  BY <1>2, PlaceSends, LeavePuts
<1>4. CASE \E c \in Carousels : \E p \in Posts : Place(c, p)
  BY <1>3, <1>4, PlaceSends DEF Sends, Puts
<1>5. CASE \E c \in Carousels : \E p \in Posts : Leave(c, p)
  BY <1>3, <1>5, LeavePuts DEF Puts
<1>6. QED
  BY <1>4, <1>5, BalloonSteps

\* What is told is told from the cache or by the task that answers.
LEMMA ToldSteps ==
    ASSUME Undisturbed, Steady, [Next]_vars, told' # told
    PROVE  \E c \in Carousels : \E f \in Frame :
              \/ /\ task[c] = Idle /\ f \in Pending(c)
                 /\ Left(c, f.type, f.post) > 0 /\ Nfc(c, f.type, f.post) # None
                 /\ told' = told \union {<<c, f.balloon, Nfc(c, f.type, f.post)>>}
              \/ /\ task[c].step = "reply" /\ Finishing(c, f)
                 /\ Finishing(c, f)' /\ task'[c].step = "store" /\ task'[c].nfc = task[c].nfc
                 /\ told' = told \union {<<c, f.balloon, task[c].nfc>>}
<1>1. TypeOK
  BY DEF Steady, TInv
<1>2. ASSUME NEW c \in Carousels, ReadFrame(c) \/ Handles(c) \/ StoreData(c) PROVE told' = told
  BY <1>2 DEF ReadFrame, Handles, HandleFull, HandleFillWithoutPassport, HandleFill, StoreData,
              history
<1>3. ASSUME NEW c \in Carousels, NEW p \in Posts, Posting(c, p) PROVE told' = told
  BY <1>3 DEF Posting, Place, Filled, Repeat, Leave, Send, history
<1>4. ~UNCHANGED vars /\ ~Tick /\ \A r \in Readers : ~Passes(r)
  BY DEF vars, history, Tick, Passes, Scan
<1>5. PICK c \in Carousels : ReadDuplicate(c) \/ WriteReply(c)
  BY <1>2, <1>3, <1>4, Steps
<1>6. CASE ReadDuplicate(c)
  <2>1. PICK h \in Frame :
            /\ Reads(c, h) /\ Left(c, h.type, h.post) > 0 /\ Nfc(c, h.type, h.post) # None
            /\ told' = told \union {<<c, h.balloon, Nfc(c, h.type, h.post)>>}
    BY <1>1, <1>6, DuplicateReads
  <2>2. task[c] = Idle /\ h \in Pending(c)
    BY <2>1, ReadFlight DEF Reads
  <2>3. QED
    BY <2>1, <2>2
<1>7. CASE WriteReply(c)
  <2>1. PICK f \in Frame :
            /\ task[c].step = "reply" /\ Finishing(c, f)
            /\ Finishing(c, f)' /\ task'[c].step = "store" /\ task'[c].nfc = task[c].nfc
            /\ told' = told \union {<<c, f.balloon, task[c].nfc>>}
    BY <1>1, <1>7, ReplyFacts
  <2>2. QED
    BY <2>1
<1>8. QED
  BY <1>5, <1>6, <1>7

LEMMA AnswerSteps == ASSUME Undisturbed, AnswerInv, [Next]_vars PROVE AnswerInv'
<1>1. Steady /\ CachedAreRecorded /\ ToldAreRecorded /\ AnsweredIsFill /\ TypeOK /\ Current
  BY DEF AnswerInv, Steady, TInv
<1>2. Steady' /\ TypeOK' /\ Current'
  BY <1>1, StepSteady DEF Steady, TInv
<1>3. CachedAreRecorded'
  <2> SUFFICES ASSUME NEW d \in Carousels, NEW t \in Types, NEW q \in Posts,
                      Left(d, t, q)' > 0, Nfc(d, t, q)' # None
               PROVE  \/ Recorded(d, Bal(d, q), Nfc(d, t, q))'
                      \/ \E f \in Frame : Finishing(d, f)' /\ f.type = "fill" /\ f.post = q
                                          /\ task'[d].nfc = Nfc(d, t, q)'
    BY DEF CachedAreRecorded
  <2>1. CASE \E f \in Frame : f.type = t /\ f.post = q /\ \E n : Remembers(d, f, n)
    <3>1. PICK f \in Frame : f.type = t /\ f.post = q /\ \E n : Remembers(d, f, n)
      BY <2>1
    <3>2. PICK n : Remembers(d, f, n)
      BY <3>1
    <3>3. IsAnswered(f, n) /\ Nfc(d, t, q)' = n
      BY <3>1, <3>2 DEF Remembers
    <3>4. Finishing(d, f)' /\ task'[d].nfc = n /\ f.type = "fill"
      BY <3>2, <3>3 DEF Remembers, IsAnswered
    <3>5. QED
      BY <3>1, <3>3, <3>4
  <2>2. CASE Left(d, t, q) > 0 /\ Nfc(d, t, q)' = Nfc(d, t, q)
    <3>1. PICK n \in 0 .. MaxBalloons : n = Nfc(d, t, q)
      BY <1>1, WordTypes
    <3>2. PICK b : b = Bal(d, q)
      OBVIOUS
    <3>3. Nfc(d, t, q)' = n /\ n # None /\ Bal(d, q)' = b
      BY <2>2, <3>1, <3>2, <1>1, CachedBalloon
    <3>4. \/ Recorded(d, b, n)
          \/ \E f \in Frame : Finishing(d, f) /\ f.type = "fill" /\ f.post = q /\ task[d].nfc = n
      BY <2>2, <3>1, <3>2, <3>3, <1>1 DEF CachedAreRecorded
    <3>5. CASE Recorded(d, b, n)
      <4>1. Recorded(d, b, n)'
        BY <3>5, <1>1, RecordedSteps
      <4>2. Recorded(d, Bal(d, q), Nfc(d, t, q))'
        BY <4>1, <3>3 DEF Recorded
      <4>3. QED
        BY <4>2
    <3>6. ASSUME NEW f \in Frame, Finishing(d, f), f.type = "fill", f.post = q, task[d].nfc = n
          PROVE  \/ Recorded(d, Bal(d, q), Nfc(d, t, q))'
                 \/ Finishing(d, f)' /\ task'[d].nfc = n
      <4>1. CASE StoreData(d)
        <5>1. f.balloon = b
          BY <3>2, <3>6, <1>1, AtStore
        <5>2. Recorded(d, b, n)'
          BY <4>1, <5>1, <3>6, <1>1, RecordedSteps
        <5>3. QED
          BY <5>2, <3>3 DEF Recorded
      <4>2. QED
        BY <4>1, <3>6, <1>1, FinishingSteps
    <3>7. QED
      BY <3>3, <3>4, <3>5, <3>6
  <2>3. QED
    BY <2>1, <2>2, <1>1, CacheSteps
<1>4. ASSUME NEW x \in told
      PROVE  /\ x[1] \in Carousels
             /\ \/ Recorded(x[1], x[2], x[3])'
                \/ \E f \in Frame : task'[x[1]].step = "store" /\ Finishing(x[1], f)'
                                    /\ f.type = "fill" /\ f.balloon = x[2] /\ task'[x[1]].nfc = x[3]
  <2>1. /\ x[1] \in Carousels
        /\ \/ Recorded(x[1], x[2], x[3])
           \/ \E f \in Frame : task[x[1]].step = "store" /\ Finishing(x[1], f) /\ f.type = "fill"
                               /\ f.balloon = x[2] /\ task[x[1]].nfc = x[3]
    BY <1>1 DEF ToldAreRecorded
  <2>2. CASE Recorded(x[1], x[2], x[3])
    BY <2>1, <2>2, <1>1, RecordedSteps
  <2>3. ASSUME NEW f \in Frame, task[x[1]].step = "store", Finishing(x[1], f), f.type = "fill",
               f.balloon = x[2], task[x[1]].nfc = x[3]
        PROVE  \/ Recorded(x[1], x[2], x[3])'
               \/ task'[x[1]].step = "store" /\ Finishing(x[1], f)' /\ task'[x[1]].nfc = x[3]
    <3>1. CASE StoreData(x[1])
      <4>1. x[3] \in 0 .. MaxBalloons
        BY <2>1, <2>3, <1>1, FrameAtWork
      <4>2. QED
        BY <4>1, <3>1, <2>1, <2>3, <1>1, RecordedSteps
    <3>2. QED
      BY <3>1, <2>1, <2>3, <1>1, FinishingSteps
  <2>4. QED
    BY <2>1, <2>2, <2>3
<1>5. ToldAreRecorded'
  <2>1. CASE told' = told
    BY <2>1, <1>4 DEF ToldAreRecorded
  <2>2. CASE told' # told
    <3>1. PICK c \in Carousels : \E f \in Frame :
              \/ /\ task[c] = Idle /\ f \in Pending(c)
                 /\ Left(c, f.type, f.post) > 0 /\ Nfc(c, f.type, f.post) # None
                 /\ told' = told \union {<<c, f.balloon, Nfc(c, f.type, f.post)>>}
              \/ /\ task[c].step = "reply" /\ Finishing(c, f)
                 /\ Finishing(c, f)' /\ task'[c].step = "store" /\ task'[c].nfc = task[c].nfc
                 /\ told' = told \union {<<c, f.balloon, task[c].nfc>>}
      BY <2>2, <1>1, ToldSteps
    <3>2. PICK f \in Frame :
              \/ /\ task[c] = Idle /\ f \in Pending(c)
                 /\ Left(c, f.type, f.post) > 0 /\ Nfc(c, f.type, f.post) # None
                 /\ told' = told \union {<<c, f.balloon, Nfc(c, f.type, f.post)>>}
              \/ /\ task[c].step = "reply" /\ Finishing(c, f)
                 /\ Finishing(c, f)' /\ task'[c].step = "store" /\ task'[c].nfc = task[c].nfc
                 /\ told' = told \union {<<c, f.balloon, task[c].nfc>>}
      BY <3>1
    <3>3. CASE /\ task[c] = Idle /\ f \in Pending(c)
               /\ Left(c, f.type, f.post) > 0 /\ Nfc(c, f.type, f.post) # None
               /\ told' = told \union {<<c, f.balloon, Nfc(c, f.type, f.post)>>}
      <4>1. PICK n : n = Nfc(c, f.type, f.post)
        OBVIOUS
      <4>2. Bal(c, f.post) = f.balloon /\ \A g \in Frame : ~Finishing(c, g)
        BY <3>3, <1>1 DEF Current, Awaits, Finishing, Idle
      <4>3. Recorded(c, f.balloon, n)
        BY <3>3, <4>1, <4>2, <1>1, FrameFields DEF CachedAreRecorded
      <4>4. Recorded(c, f.balloon, n)'
        BY <4>3, <1>1, RecordedSteps
      <4>5. PICK x : x = <<c, f.balloon, n>>
        OBVIOUS
      <4>6. x[1] = c /\ x[2] = f.balloon /\ x[3] = n /\ told' = told \union {x}
        BY <3>3, <4>1, <4>5
      <4>7. QED
        BY <4>4, <4>6, <1>4 DEF ToldAreRecorded
    <3>4. CASE /\ task[c].step = "reply" /\ Finishing(c, f)
               /\ Finishing(c, f)' /\ task'[c].step = "store" /\ task'[c].nfc = task[c].nfc
               /\ told' = told \union {<<c, f.balloon, task[c].nfc>>}
      <4>1. f.type = "fill"
        BY <3>4, <1>1 DEF AnsweredIsFill
      <4>2. PICK x : x = <<c, f.balloon, task[c].nfc>>
        OBVIOUS
      <4>3. x[1] = c /\ x[2] = f.balloon /\ x[3] = task'[c].nfc /\ told' = told \union {x}
        BY <3>4, <4>2
      <4>4. QED
        BY <3>4, <4>1, <4>3, <1>4 DEF ToldAreRecorded
    <3>5. QED
      BY <3>2, <3>3, <3>4
  <2>3. QED
    BY <2>1, <2>2
<1>6. AnsweredIsFill'
  <2> SUFFICES ASSUME NEW c \in Carousels, NEW f \in Frame,
                      task'[c].step = "reply", Finishing(c, f)'
               PROVE  f.type = "fill"
    BY DEF AnsweredIsFill
  <2>1. CASE task'[c] = task[c]
    BY <2>1, <1>1 DEF AnsweredIsFill, Finishing
  <2>2. ASSUME NEW d \in Carousels, Handles(d) PROVE f.type = "fill"
    <3>1. PICK g \in Frame : \E n \in 0 .. MaxBalloons : Remembers(d, g, n)
      BY <2>2, <1>1, HandlersRemember DEF Handles
    <3>2. CASE c = d
      <4>1. f = g /\ g.type = "fill"
        BY <3>1, <3>2 DEF Remembers, Finishing, IsAnswered
      <4>2. QED
        BY <4>1
    <3>3. CASE c # d
      BY <3>1, <3>3, <2>1 DEF Remembers
    <3>4. QED
      BY <3>2, <3>3
  <2>3. ASSUME NEW d \in Carousels, ReadFrame(d) \/ WriteReply(d) \/ StoreData(d)
        PROVE  task'[c] = task[c]
    <3>1. /\ task'[d].step # "reply"
          /\ \A e \in Carousels : e # d => task'[e] = task[e]
      <4>1. CASE ReadFrame(d)
        <5>1. PICK h \in Frame :
                  /\ task'[d] = [step |-> "handle", frame |-> h, nfc |-> None]
                  /\ \A e \in Carousels : e # d => task'[e] = task[e]
          BY <4>1, <1>1, FrameReads
        <5>2. QED
          BY <5>1
      <4>2. CASE WriteReply(d)
        BY <4>2, <1>1, ReplyFacts
      <4>3. CASE StoreData(d)
        BY <4>3, <1>1, StoreFacts DEF Idle
      <4>4. QED
        BY <2>3, <4>1, <4>2, <4>3
    <3>2. QED
      BY <3>1
  <2>4. ASSUME NEW d \in Carousels, ReadDuplicate(d) PROVE task'[c] = task[c]
    BY <2>4 DEF ReadDuplicate
  <2>5. ASSUME NEW d \in Carousels, NEW p \in Posts, Posting(d, p) PROVE task'[c] = task[c]
    BY <2>5 DEF Posting, Place, Filled, Repeat, Leave, Send
  <2>6. ASSUME UNCHANGED vars \/ Tick \/ \E r \in Readers : Passes(r) PROVE task'[c] = task[c]
    BY <2>6 DEF vars, Tick, Passes, Scan
  <2>7. QED
    BY <2>1, <2>2, <2>3, <2>4, <2>5, <2>6, <1>1, Steps
<1>7. QED
  BY <1>2, <1>3, <1>5, <1>6 DEF AnswerInv

\* While nothing is disturbed, a task that reads again has a row for every answer it gave, the
\* ones given from the cache included (cache_request_result comes before the answer and the row).
THEOREM AnswersRecorded == ASSUME Undisturbed PROVE Spec => []AnswersAreRecorded
<1>1. Init => AnswerInv
  <2> SUFFICES ASSUME Init PROVE AnswerInv
    OBVIOUS
  <2>1. told = {} /\ Steady
    BY InitSteady DEF Init
  <2>2. \A c \in Carousels, t \in Types, p \in Posts : Left(c, t, p) = 0
    <3>1. \A c \in Carousels, t \in Types, p \in Posts : <<c, t, p, 0>> \in Keys
      BY DEF Keys
    <3>2. QED
      BY <3>1 DEF Init, Left
  <2>3. AnsweredIsFill
    BY DEF Init, AnsweredIsFill, Idle
  <2>4. QED
    BY <2>1, <2>2, <2>3 DEF AnswerInv, CachedAreRecorded, ToldAreRecorded
<1>2. AnswerInv /\ [Next]_vars => AnswerInv'
  BY AnswerSteps
<1>3. AnswerInv => AnswersAreRecorded
  BY DEF AnswerInv, ToldAreRecorded, AnswersAreRecorded, Recorded, Idle
<1>4. QED
  BY <1>1, <1>2, <1>3, PTL DEF Spec
=============================================================================
