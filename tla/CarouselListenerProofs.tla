------------------------- MODULE CarouselListenerProofs -------------------------
(***************************************************************************)
(* No passport is given to two balloons, and the listener implements the   *)
(* line of passports: theorems for any number of carousels, posts, readers *)
(* and balloons, whatever fails.                                           *)
(***************************************************************************)
EXTENDS CarouselListenerTypes

USE ReaderAssumption, BoundAssumption

\* The part of the state it speaks about
lists == <<scanned, queue, taken>>

ListTypes ==
    /\ scanned \in [Readers -> Nat]
    /\ queue \in [Readers -> Seq(Nat \ {0})]

Inv == ListTypes /\ ListsRise /\ TakenAreBelow /\ PassportUsedOnce

----------------------------------------------------------------------------
(* Sequences that rise *)

\* The tail of a rising sequence rises, above its head.
LEMMA RisingTail ==
    ASSUME NEW s \in Seq(Nat \ {0}), s # <<>>, Rising(s)
    PROVE  /\ Tail(s) \in Seq(Nat \ {0})
           /\ Rising(Tail(s))
           /\ s[1] \in Nat \ {0}
           /\ 1 \in 1 .. Len(s)
           /\ \A i \in 1 .. Len(Tail(s)) : i + 1 \in 1 .. Len(s) /\ Tail(s)[i] = s[i + 1] /\ s[1] < Tail(s)[i]
<1>1. /\ Len(s) \in Nat /\ Len(s) > 0
      /\ Tail(s) \in Seq(Nat \ {0}) /\ Len(Tail(s)) = Len(s) - 1
      /\ \A i \in 1 .. Len(Tail(s)) : Tail(s)[i] = s[i + 1]
  OBVIOUS
<1>2. \A i \in 1 .. Len(s) : s[i] \in Nat \ {0}
  OBVIOUS
<1>3. \A i \in 1 .. Len(Tail(s)) : i + 1 \in 1 .. Len(s) /\ s[1] < s[i + 1]
  BY <1>1 DEF Rising
<1>4. Rising(Tail(s))
  BY <1>1, <1>2 DEF Rising
<1>5. QED
  BY <1>1, <1>2, <1>3, <1>4

\* A number above all of a rising sequence can be appended.
LEMMA RisingAppend ==
    ASSUME NEW s \in Seq(Nat \ {0}), Rising(s), NEW n \in Nat,
           \A i \in 1 .. Len(s) : s[i] <= n
    PROVE  /\ Append(s, n + 1) \in Seq(Nat \ {0})
           /\ Rising(Append(s, n + 1))
           /\ \A i \in 1 .. Len(Append(s, n + 1)) :
                /\ Append(s, n + 1)[i] = n + 1 \/ (i \in 1 .. Len(s) /\ Append(s, n + 1)[i] = s[i])
                /\ Append(s, n + 1)[i] <= n + 1
<1>1. /\ Len(s) \in Nat
      /\ \A i \in 1 .. Len(s) : s[i] \in Nat
      /\ Append(s, n + 1) \in Seq(Nat \ {0}) /\ Len(Append(s, n + 1)) = Len(s) + 1
      /\ \A i \in 1 .. Len(s) : Append(s, n + 1)[i] = s[i]
      /\ Append(s, n + 1)[Len(s) + 1] = n + 1
  OBVIOUS
<1>2. \A i \in 1 .. Len(Append(s, n + 1)) : i \in 1 .. Len(s) \/ i = Len(s) + 1
  BY <1>1
<1>3. Rising(Append(s, n + 1))
  BY <1>1, <1>2 DEF Rising
<1>4. QED
  BY <1>1, <1>2, <1>3

----------------------------------------------------------------------------
(* The steps that change a list or take from it *)

\* A passport joins the list of a reader.
LEMMA PushKeeps ==
    ASSUME Inv, NEW r \in Readers, Scan(r),
           queue' = [queue EXCEPT ![r] = Append(@, scanned'[r])]
    PROVE  Inv'
<1> DEFINE n == scanned[r]
           s == queue[r]
<1> USE DEF Inv, ListTypes
<1>1. /\ n \in Nat /\ s \in Seq(Nat \ {0}) /\ Rising(s) /\ \A i \in 1 .. Len(s) : s[i] <= n
  BY DEF ListsRise
<1>2. /\ scanned' = [scanned EXCEPT ![r] = n + 1]
      /\ queue' = [queue EXCEPT ![r] = Append(s, n + 1)]
      /\ taken' = taken
  BY DEF Scan, history
<1> HIDE DEF n, s
<1>3. /\ Append(s, n + 1) \in Seq(Nat \ {0})
      /\ Rising(Append(s, n + 1))
      /\ \A i \in 1 .. Len(Append(s, n + 1)) :
           /\ Append(s, n + 1)[i] = n + 1 \/ (i \in 1 .. Len(s) /\ Append(s, n + 1)[i] = s[i])
           /\ Append(s, n + 1)[i] <= n + 1
  BY <1>1, RisingAppend
<1>4. ListTypes'
  BY <1>1, <1>2, <1>3
<1>5. \A q \in Readers : q # r => queue'[q] = queue[q] /\ scanned'[q] = scanned[q]
  BY <1>2
<1>6. queue'[r] = Append(s, n + 1) /\ scanned'[r] = n + 1
  BY <1>2
<1>7. ListsRise'
  <2> SUFFICES ASSUME NEW q \in Readers
               PROVE  Rising(queue'[q]) /\ \A i \in 1 .. Len(queue'[q]) : queue'[q][i] <= scanned'[q]
    BY DEF ListsRise, Rising
  <2>1. CASE q = r
    <3>1. queue'[q] = Append(s, n + 1) /\ scanned'[q] = n + 1
      BY <2>1, <1>6
    <3>2. QED
      BY <3>1, <1>3
  <2>2. CASE q # r
    BY <2>2, <1>5 DEF ListsRise
  <2>3. QED
    BY <2>1, <2>2
<1>8. TakenAreBelow'
  <2> SUFFICES ASSUME NEW x \in taken
               PROVE  /\ x[1] \in Readers
                      /\ x[3] \in 1 .. scanned'[x[1]]
                      /\ \A i \in 1 .. Len(queue'[x[1]]) : x[3] < queue'[x[1]][i]
    BY <1>2 DEF TakenAreBelow
  <2>0. /\ x[1] \in Readers
        /\ x[3] \in 1 .. scanned[x[1]]
        /\ \A i \in 1 .. Len(queue[x[1]]) : x[3] < queue[x[1]][i]
    BY DEF TakenAreBelow
  <2>1. CASE x[1] = r
    <3>1. /\ x[3] \in 1 .. n
          /\ \A i \in 1 .. Len(s) : x[3] < s[i]
      BY <2>0, <2>1 DEF n, s
    <3>2. x[3] \in 1 .. n + 1 /\ x[3] < n + 1
      BY <3>1, <1>1
    <3>3. \A i \in 1 .. Len(Append(s, n + 1)) : x[3] < Append(s, n + 1)[i]
      BY <3>1, <3>2, <1>3
    <3>4. scanned'[x[1]] = n + 1 /\ queue'[x[1]] = Append(s, n + 1)
      BY <2>1, <1>6
    <3>5. QED
      BY <2>0, <3>2, <3>3, <3>4
  <2>2. CASE x[1] # r
    BY <2>0, <2>2, <1>5
  <2>3. QED
    BY <2>1, <2>2
<1>9. PassportUsedOnce'
  BY <1>2 DEF PassportUsedOnce
<1>10. QED
  BY <1>4, <1>7, <1>8, <1>9

\* A reading that fails leaves a gap.
LEMMA GapKeeps ==
    ASSUME Inv, NEW r \in Readers, Scan(r), UNCHANGED queue
    PROVE  Inv'
<1> USE DEF Inv, ListTypes
<1>1. /\ scanned' = [scanned EXCEPT ![r] = scanned[r] + 1]
      /\ taken' = taken
  BY DEF Scan, history
<1>2. /\ scanned' \in [Readers -> Nat]
      /\ \A q \in Readers : scanned[q] <= scanned'[q]
  BY <1>1
<1>3. ListsRise'
  <2> SUFFICES ASSUME NEW q \in Readers
               PROVE  Rising(queue[q]) /\ \A i \in 1 .. Len(queue[q]) : queue[q][i] <= scanned'[q]
    BY DEF ListsRise, Rising
  <2>1. /\ \A i \in 1 .. Len(queue[q]) : queue[q][i] \in Nat /\ queue[q][i] <= scanned[q]
        /\ scanned[q] \in Nat /\ scanned'[q] \in Nat /\ scanned[q] <= scanned'[q]
    BY <1>2 DEF ListsRise
  <2>2. QED
    BY <2>1 DEF ListsRise
<1>4. TakenAreBelow'
  <2> SUFFICES ASSUME NEW x \in taken
               PROVE  /\ x[1] \in Readers
                      /\ x[3] \in 1 .. scanned'[x[1]]
                      /\ \A i \in 1 .. Len(queue[x[1]]) : x[3] < queue[x[1]][i]
    BY <1>1 DEF TakenAreBelow
  <2>1. QED
    BY <1>2 DEF TakenAreBelow
<1>5. PassportUsedOnce'
  BY <1>1 DEF PassportUsedOnce
<1>6. QED
  BY <1>2, <1>3, <1>4, <1>5

LEMMA ScanKeeps == ASSUME Inv, NEW r \in Readers, Scan(r) PROVE Inv'
  BY PushKeeps, GapKeeps DEF Scan

\* A list loses its oldest passport; who took it, if anybody, is recorded.
LEMMA PopKeeps ==
    ASSUME Inv, NEW r \in Readers, queue[r] # <<>>, queue' = Pop(r), scanned' = scanned,
           \/ taken' = taken
           \/ \E b : taken' = taken \union {<<r, b, OldestOf(r)>>}
    PROVE  Inv'
<1> PICK b : taken' \in {taken, taken \union {<<r, b, OldestOf(r)>>}}
  OBVIOUS
<1> DEFINE s == queue[r]
<1> USE DEF Inv, ListTypes
<1>1. s \in Seq(Nat \ {0}) /\ s # <<>> /\ Rising(s)
  BY DEF ListsRise
<1>2. queue' = [queue EXCEPT ![r] = Tail(s)]
  BY DEF Pop
<1>3. OldestOf(r) = s[1]
  BY DEF OldestOf
<1>4. /\ \A i \in 1 .. Len(s) : s[i] <= scanned[r]
      /\ \A x \in taken : x[1] = r => x[3] \in Nat /\ \A i \in 1 .. Len(s) : x[3] < s[i]
  BY DEF ListsRise, TakenAreBelow
<1> HIDE DEF s
<1>5. /\ Tail(s) \in Seq(Nat \ {0})
      /\ Rising(Tail(s))
      /\ s[1] \in Nat \ {0}
      /\ 1 \in 1 .. Len(s)
      /\ \A i \in 1 .. Len(Tail(s)) : i + 1 \in 1 .. Len(s) /\ Tail(s)[i] = s[i + 1] /\ s[1] < Tail(s)[i]
  BY <1>1, RisingTail
<1>6. /\ queue'[r] = Tail(s)
      /\ \A q \in Readers : q # r => queue'[q] = queue[q]
  BY <1>2
<1>7. ListTypes'
  BY <1>2, <1>5
<1>8. ListsRise'
  <2> SUFFICES ASSUME NEW q \in Readers
               PROVE  Rising(queue'[q]) /\ \A i \in 1 .. Len(queue'[q]) : queue'[q][i] <= scanned[q]
    BY DEF ListsRise, Rising
  <2>1. CASE q = r
    BY <2>1, <1>4, <1>5, <1>6
  <2>2. CASE q # r
    BY <2>2, <1>6 DEF ListsRise
  <2>3. QED
    BY <2>1, <2>2
<1>9. TakenAreBelow'
  <2> SUFFICES ASSUME NEW x \in taken'
               PROVE  /\ x[1] \in Readers
                      /\ x[3] \in 1 .. scanned[x[1]]
                      /\ \A i \in 1 .. Len(queue'[x[1]]) : x[3] < queue'[x[1]][i]
    BY DEF TakenAreBelow
  <2>1. CASE x \in taken
    <3>1. /\ x[1] \in Readers
          /\ x[3] \in 1 .. scanned[x[1]]
          /\ \A i \in 1 .. Len(queue[x[1]]) : x[3] < queue[x[1]][i]
      BY <2>1 DEF TakenAreBelow
    <3>2. CASE x[1] = r
      <4>1. \A i \in 1 .. Len(s) : x[3] < s[i]
        BY <2>1, <3>2, <1>4
      <4>2. \A i \in 1 .. Len(Tail(s)) : x[3] < Tail(s)[i]
        BY <4>1, <1>5
      <4>3. queue'[x[1]] = Tail(s)
        BY <3>2, <1>6
      <4>4. QED
        BY <3>1, <4>2, <4>3
    <3>3. CASE x[1] # r
      BY <3>1, <3>3, <1>6
    <3>4. QED
      BY <3>2, <3>3
  <2>2. CASE x = <<r, b, s[1]>>
    <3>1. x[1] = r /\ x[3] = s[1]
      BY <2>2
    <3>2. s[1] \in 1 .. scanned[r]
      BY <1>4, <1>5
    <3>3. QED
      BY <3>1, <3>2, <1>5, <1>6
  <2>3. QED
    BY <2>1, <2>2, <1>3
<1>10. PassportUsedOnce'
  <2> SUFFICES ASSUME NEW x \in taken', NEW y \in taken', x[1] = y[1], x[3] = y[3]
               PROVE  x = y
    BY DEF PassportUsedOnce
  <2>0. \A z \in taken' : z \in taken \/ z = <<r, b, s[1]>>
    BY <1>3
  <2>1. \A z \in taken : ~(z[1] = r /\ z[3] = s[1])
    BY <1>4, <1>5
  <2>2. CASE x \in taken /\ y \in taken
    BY <2>2 DEF PassportUsedOnce
  <2>3. CASE x \in taken /\ y = <<r, b, s[1]>>
    <3>1. y[1] = r /\ y[3] = s[1]
      BY <2>3
    <3>2. QED
      BY <2>1, <2>3, <3>1
  <2>4. CASE y \in taken /\ x = <<r, b, s[1]>>
    <3>1. x[1] = r /\ x[3] = s[1]
      BY <2>4
    <3>2. QED
      BY <2>1, <2>4, <3>1
  <2>5. QED
    BY <2>0, <2>2, <2>3, <2>4
<1>11. QED
  BY <1>7, <1>8, <1>9, <1>10

\* A list that expires is empty.
LEMMA ExpiryKeeps == ASSUME Inv, NEW r \in Readers, ExpireQueue(r) PROVE Inv'
<1> USE DEF Inv, ListTypes
<1>1. scanned' = scanned /\ taken' = taken /\ queue' = [queue EXCEPT ![r] = <<>>]
  BY DEF ExpireQueue, plant, history
<1>2. /\ queue'[r] = <<>> /\ Len(<<>>) = 0 /\ <<>> \in Seq(Nat \ {0})
      /\ \A q \in Readers : q # r => queue'[q] = queue[q]
  BY <1>1
<1>3. ListTypes'
  BY <1>1, <1>2
<1>4. ListsRise'
  <2> SUFFICES ASSUME NEW q \in Readers
               PROVE  Rising(queue'[q]) /\ \A i \in 1 .. Len(queue'[q]) : queue'[q][i] <= scanned[q]
    BY <1>1 DEF ListsRise, Rising
  <2>1. CASE q = r
    BY <2>1, <1>2 DEF Rising
  <2>2. CASE q # r
    BY <2>2, <1>2 DEF ListsRise
  <2>3. QED
    BY <2>1, <2>2
<1>5. TakenAreBelow'
  <2> SUFFICES ASSUME NEW x \in taken
               PROVE  /\ x[1] \in Readers
                      /\ x[3] \in 1 .. scanned[x[1]]
                      /\ \A i \in 1 .. Len(queue'[x[1]]) : x[3] < queue'[x[1]][i]
    BY <1>1 DEF TakenAreBelow
  <2>1. CASE x[1] = r
    BY <2>1, <1>2 DEF TakenAreBelow
  <2>2. CASE x[1] # r
    BY <2>2, <1>2 DEF TakenAreBelow
  <2>3. QED
    BY <2>1, <2>2
<1>6. PassportUsedOnce'
  BY <1>1 DEF PassportUsedOnce
<1>7. QED
  BY <1>3, <1>4, <1>5, <1>6

\* All other steps leave the lists alone.
LEMMA UnchangedKeeps == ASSUME Inv, UNCHANGED lists PROVE Inv'
  BY DEF Inv, lists, ListTypes, ListsRise, Rising, TakenAreBelow, PassportUsedOnce

----------------------------------------------------------------------------

\* Every step of the specification, and every stuttering one, keeps the invariant.
LEMMA StepKeeps == ASSUME Inv, [Next]_vars PROVE Inv'
<1> USE UnchangedKeeps DEF lists, plant, history, stream
<1>1. ASSUME NEW r \in Readers, Scan(r) \/ ExpireQueue(r) PROVE Inv'
  BY <1>1, ScanKeeps, ExpiryKeeps
<1>2. ASSUME NEW c \in Carousels, NEW p \in Posts,
             Place(c, p) \/ Filled(c, p) \/ Repeat(c, p) \/ Leave(c, p)
      PROVE  Inv'
  BY <1>2 DEF Place, Filled, Repeat, Leave, Send
<1>3. CASE Tick
  BY <1>3 DEF Tick
<1>4. ASSUME NEW c \in Carousels, HandleFillWithoutPassport(c) PROVE Inv'
  <2>1. scanned' = scanned /\ taken' = taken /\ ReaderOf[c] \in Readers
    BY <1>4 DEF HandleFillWithoutPassport
  <2>2. CASE UNCHANGED queue
    BY <2>1, <2>2
  <2>3. CASE queue[ReaderOf[c]] # <<>> /\ queue' = Pop(ReaderOf[c])
    BY <2>1, <2>3, PopKeeps
  <2>4. QED
    BY <1>4, <2>2, <2>3 DEF HandleFillWithoutPassport
<1>5. ASSUME NEW c \in Carousels, HandleFill(c) PROVE Inv'
  <2>1. scanned' = scanned /\ queue[ReaderOf[c]] # <<>> /\ queue' = Pop(ReaderOf[c])
    BY <1>5 DEF HandleFill
  <2>2. \E b : taken' = taken \union {<<ReaderOf[c], b, OldestOf(ReaderOf[c])>>}
    BY <1>5 DEF HandleFill
  <2>3. ReaderOf[c] \in Readers
    OBVIOUS
  <2>4. QED
    BY <2>1, <2>2, <2>3, PopKeeps
<1>6. ASSUME NEW c \in Carousels,
             \/ ReadDuplicate(c) \/ ReadFrame(c) \/ HandleFull(c) \/ WriteReply(c)
             \/ StoreData(c) \/ Connect(c) \/ DropFrame(c) \/ DropPartialFrame(c)
             \/ Failure(c)
      PROVE  Inv'
  <2>1. UNCHANGED lists
    BY <1>6 DEF ReadDuplicate, ReadFrame, HandleFull, WriteReply, StoreData, Connect,
                DropFrame, DropPartialFrame, Failure, LoseConnection, LoseData
  <2>2. QED
    BY <2>1
<1>7. CASE UNCHANGED vars
  BY <1>7 DEF vars
<1>8. QED
  BY <1>1, <1>2, <1>3, <1>4, <1>5, <1>6, <1>7 DEF Next, Plant, Task

\* No passport of a reader is taken for two balloons, on however many carousels, whatever
\* fails (pop_json_from_queue).
THEOREM PassportOnce == Spec => []PassportUsedOnce
<1>1. Init => Inv
  BY DEF Init, Inv, ListTypes, ListsRise, Rising, TakenAreBelow, PassportUsedOnce
<1>2. Inv => PassportUsedOnce
  BY DEF Inv
<1>3. QED
  BY <1>1, <1>2, StepKeeps, PTL DEF Spec

----------------------------------------------------------------------------
(* The listener implements the line of passports *)

Elements(s) == {s[i] : i \in 1 .. Len(s)}

Waiting == [r \in Readers |-> Elements(queue[r])]

\* What is appended to a list is in the set of its elements.
LEMMA AppendElements ==
    ASSUME NEW s \in Seq(Nat \ {0}), NEW n \in Nat \ {0}
    PROVE  Elements(Append(s, n)) = Elements(s) \union {n}
<1>1. /\ Len(s) \in Nat /\ Len(Append(s, n)) = Len(s) + 1
      /\ \A i \in 1 .. Len(s) : Append(s, n)[i] = s[i]
      /\ Append(s, n)[Len(s) + 1] = n
  OBVIOUS
<1>2. 1 .. Len(s) + 1 = (1 .. Len(s)) \union {Len(s) + 1}
  BY <1>1
<1>3. QED
  BY <1>1, <1>2, Zenon DEF Elements

\* The head of a rising list is the least of its elements, and the tail has all others.
LEMMA TailElements ==
    ASSUME NEW s \in Seq(Nat \ {0}), s # <<>>, Rising(s)
    PROVE  /\ Elements(Tail(s)) = Elements(s) \ {s[1]}
           /\ s[1] \in Elements(s)
           /\ \A m \in Elements(s) : s[1] <= m
<1>1. /\ Len(s) \in Nat /\ Len(s) > 0 /\ Len(Tail(s)) = Len(s) - 1
      /\ \A i \in 1 .. Len(Tail(s)) : Tail(s)[i] = s[i + 1]
      /\ \A i \in 1 .. Len(s) : s[i] \in Nat
  OBVIOUS
<1>2. \A i \in 2 .. Len(s) : s[1] < s[i]
  BY <1>1 DEF Rising
<1>3. \A i \in 2 .. Len(s) : i - 1 \in 1 .. Len(Tail(s)) /\ Tail(s)[i - 1] = s[i]
  BY <1>1
<1>4. \A i \in 1 .. Len(Tail(s)) : i + 1 \in 2 .. Len(s) /\ s[i + 1] # s[1]
  BY <1>1, <1>2
<1>5. \A i \in 1 .. Len(s) : i = 1 \/ i \in 2 .. Len(s)
  BY <1>1
<1>6. 1 \in 1 .. Len(s) /\ \A i \in 2 .. Len(s) : i \in 1 .. Len(s)
  BY <1>1
<1>7. ASSUME NEW x \in Elements(Tail(s)) PROVE x \in Elements(s) /\ x # s[1]
  <2>1. PICK j \in 1 .. Len(Tail(s)) : x = Tail(s)[j]
    BY DEF Elements
  <2>2. j + 1 \in 1 .. Len(s) /\ x = s[j + 1] /\ s[j + 1] # s[1]
    BY <2>1, <1>1, <1>4, <1>6
  <2>3. QED
    BY <2>2 DEF Elements
<1>8. \A i \in 1 .. Len(s) : s[i] # s[1] => \E j \in 1 .. Len(Tail(s)) : s[i] = Tail(s)[j]
  <2> SUFFICES ASSUME NEW i \in 1 .. Len(s), s[i] # s[1]
               PROVE  \E j \in 1 .. Len(Tail(s)) : s[i] = Tail(s)[j]
    OBVIOUS
  <2>1. i \in 2 .. Len(s)
    BY <1>5
  <2>2. i - 1 \in 1 .. Len(Tail(s)) /\ Tail(s)[i - 1] = s[i]
    BY <2>1, <1>3
  <2>3. QED
    BY <2>2, Zenon
<1>9. \A m \in Elements(s) : s[1] <= m
  BY <1>1, <1>2, <1>5, <1>6 DEF Elements
<1>10. s[1] \in Elements(s)
  BY <1>6 DEF Elements
<1>11. ASSUME NEW x \in Elements(s), x # s[1] PROVE x \in Elements(Tail(s))
  <2>1. PICK i \in 1 .. Len(s) : x = s[i]
    BY DEF Elements
  <2>2. PICK j \in 1 .. Len(Tail(s)) : x = Tail(s)[j]
    BY <2>1, <1>8, <1>11
  <2>3. QED
    BY <2>2 DEF Elements
<1>12. QED
  BY <1>7, <1>9, <1>10, <1>11

\* A balloon passes a reader.
LEMMA ScanIsPass == ASSUME Inv, NEW r \in Readers, Scan(r) PROVE Line!Pass(r)
<1>1. ListTypes /\ scanned \in [Readers -> Nat] /\ queue \in [Readers -> Seq(Nat \ {0})]
  BY DEF Inv, ListTypes
<1>2. scanned' = [scanned EXCEPT ![r] = scanned[r] + 1] /\ taken' = taken
  BY DEF Scan, history
<1>3. Waiting' \in {Waiting, [Waiting EXCEPT ![r] = Waiting[r] \union {scanned'[r]}]}
  <2>1. CASE UNCHANGED queue
    BY <2>1 DEF Waiting
  <2>2. CASE queue' = [queue EXCEPT ![r] = Append(queue[r], scanned'[r])]
    <3>1. scanned'[r] \in Nat \ {0}
      BY <1>1, <1>2
    <3>2. Elements(queue'[r]) = Elements(queue[r]) \union {scanned'[r]}
      BY <1>1, <2>2, <3>1, AppendElements
    <3>3. \A q \in Readers : q # r => queue'[q] = queue[q]
      BY <1>1, <2>2
    <3>4. Waiting' = [Waiting EXCEPT ![r] = Waiting[r] \union {scanned'[r]}]
      BY <3>2, <3>3, Zenon DEF Waiting
    <3>5. QED
      BY <3>4
  <2>3. QED
    BY <2>1, <2>2 DEF Scan
<1>4. QED
  BY <1>2, <1>3 DEF Line!Pass, Waiting, Elements

\* The oldest passport leaves the list.
LEMMA PopIsRemoval ==
    ASSUME Inv, NEW r \in Readers, queue[r] # <<>>, queue' = Pop(r)
    PROVE  /\ OldestOf(r) \in Waiting[r]
           /\ Line!IsOldest(OldestOf(r), r)
           /\ Line!Remove(OldestOf(r), r)
<1>1. queue \in [Readers -> Seq(Nat \ {0})] /\ Rising(queue[r])
  BY DEF Inv, ListTypes, ListsRise
<1>2. /\ Elements(Tail(queue[r])) = Elements(queue[r]) \ {queue[r][1]}
      /\ queue[r][1] \in Elements(queue[r])
      /\ \A m \in Elements(queue[r]) : queue[r][1] <= m
  BY <1>1, TailElements
<1>3. /\ queue'[r] = Tail(queue[r])
      /\ \A q \in Readers : q # r => queue'[q] = queue[q]
  BY <1>1 DEF Pop
<1>4. Waiting' = [Waiting EXCEPT ![r] = Waiting[r] \ {queue[r][1]}]
  BY <1>2, <1>3, Zenon DEF Waiting
<1>5. QED
  BY <1>2, <1>4, Zenon DEF Waiting, Elements, OldestOf, Line!IsOldest, Line!Remove

\* A list expires.
LEMMA ExpiryIsExpire == ASSUME Inv, NEW r \in Readers, ExpireQueue(r) PROVE Line!Expire(r)
<1>1. queue \in [Readers -> Seq(Nat \ {0})]
  BY DEF Inv, ListTypes
<1>2. scanned' = scanned /\ taken' = taken /\ queue' = [queue EXCEPT ![r] = <<>>]
  BY DEF ExpireQueue, plant, history
<1>3. /\ Elements(queue'[r]) = {}
      /\ \A q \in Readers : q # r => queue'[q] = queue[q]
  BY <1>1, <1>2 DEF Elements
<1>4. Waiting' = [Waiting EXCEPT ![r] = {}]
  BY <1>3, Zenon DEF Waiting
<1>5. QED
  BY <1>2, <1>4 DEF Line!Expire, Waiting, Elements

\* A passport is given to the balloon on the post.
LEMMA FillIsGive ==
    ASSUME Inv, TInv, NEW c \in Carousels, NEW r \in Readers, r = ReaderOf[c], HandleFill(c)
    PROVE  \E who \in Balloons : Line!Give(r, who)
<1>1. /\ queue[r] # <<>> /\ queue' = Pop(r) /\ scanned' = scanned
      /\ taken' = taken \union {<<r, task[c].frame.balloon, OldestOf(r)>>}
  BY DEF HandleFill, plant
<1>2. task[c].frame.balloon \in Balloons
  BY FrameAtWork DEF TInv, HandleFill
<1>3. PICK who \in Balloons : taken' = taken \union {<<r, who, OldestOf(r)>>}
  BY <1>1, <1>2
<1>4. /\ OldestOf(r) \in Waiting[r]
      /\ Line!IsOldest(OldestOf(r), r)
      /\ Line!Remove(OldestOf(r), r)
  BY <1>1, PopIsRemoval
<1>5. \E n \in Waiting[r] :
         /\ Line!IsOldest(n, r)
         /\ Line!Remove(n, r)
         /\ taken' = taken \union {<<r, who, n>>}
         /\ UNCHANGED scanned
  BY <1>1, <1>3, <1>4 DEF Line!IsOldest, Line!Remove
<1>6. Line!Give(r, who)
  BY <1>5 DEF Line!Give, Waiting, Elements
<1>7. QED
  BY <1>6

\* The list is empty, or Redis fails before or after it popped.
LEMMA FailedFillIsLoss ==
    ASSUME Inv, NEW c \in Carousels, NEW r \in Readers, r = ReaderOf[c],
           HandleFillWithoutPassport(c)
    PROVE  UNCHANGED lists \/ Line!Lose(r)
<1>1. scanned' = scanned /\ taken' = taken
  BY DEF HandleFillWithoutPassport, plant, history
<1>2. queue' = queue \/ (queue[r] # <<>> /\ queue' = Pop(r))
  BY DEF HandleFillWithoutPassport
<1>3. CASE queue' = queue
  BY <1>1, <1>3 DEF lists
<1>4. CASE queue[r] # <<>> /\ queue' = Pop(r)
  <2>1. /\ OldestOf(r) \in Waiting[r]
        /\ Line!IsOldest(OldestOf(r), r)
        /\ Line!Remove(OldestOf(r), r)
    BY <1>4, PopIsRemoval
  <2>2. \E n \in Waiting[r] :
           /\ Line!IsOldest(n, r)
           /\ Line!Remove(n, r)
           /\ UNCHANGED <<scanned, taken>>
    BY <1>1, <2>1 DEF Line!IsOldest, Line!Remove
  <2>3. QED
    BY <2>2 DEF Line!Lose, Waiting, Elements
<1>5. QED
  BY <1>2, <1>3, <1>4

\* Every step of the listener is a step of the line, or leaves it alone.
LEMMA StepIsStepOfLine == ASSUME Inv, TInv, [Next]_vars PROVE [Line!Next]_(Line!line)
<1> USE DEF plant, history, stream
<1>1. ASSUME UNCHANGED lists PROVE UNCHANGED Line!line
  BY <1>1 DEF lists, Line!line
<1>2. ASSUME NEW r \in Readers, Scan(r) PROVE Line!Next
  BY <1>2, ScanIsPass, Zenon DEF Line!Next
<1>3. ASSUME NEW r \in Readers, ExpireQueue(r) PROVE Line!Next
  BY <1>3, ExpiryIsExpire, Zenon DEF Line!Next
<1>4. ASSUME NEW c \in Carousels, HandleFill(c) PROVE Line!Next
  <2>1. PICK r \in Readers : r = ReaderOf[c]
    BY ReaderAssumption
  <2>2. \E who \in Balloons : Line!Give(r, who)
    BY <1>4, <2>1, FillIsGive
  <2>3. QED
    BY <2>2, Zenon DEF Line!Next
<1>5. ASSUME NEW c \in Carousels, HandleFillWithoutPassport(c)
      PROVE  UNCHANGED lists \/ Line!Next
  <2>1. PICK r \in Readers : r = ReaderOf[c]
    BY ReaderAssumption
  <2>2. UNCHANGED lists \/ Line!Lose(r)
    BY <1>5, <2>1, FailedFillIsLoss
  <2>3. QED
    BY <2>2, Zenon DEF Line!Next
<1>6. ASSUME NEW c \in Carousels, NEW p \in Posts,
             Place(c, p) \/ Filled(c, p) \/ Repeat(c, p) \/ Leave(c, p)
      PROVE  UNCHANGED lists
  BY <1>6 DEF Place, Filled, Repeat, Leave, Send, lists
<1>7. CASE Tick
  BY <1>7, <1>1 DEF Tick, lists
<1>8. ASSUME NEW c \in Carousels,
             \/ ReadDuplicate(c) \/ ReadFrame(c) \/ HandleFull(c) \/ WriteReply(c)
             \/ StoreData(c) \/ Connect(c) \/ DropFrame(c) \/ DropPartialFrame(c)
             \/ Failure(c)
      PROVE  UNCHANGED lists
  BY <1>8 DEF ReadDuplicate, ReadFrame, HandleFull, WriteReply, StoreData, Connect,
              DropFrame, DropPartialFrame, Failure, LoseConnection, LoseData, lists
<1>9. CASE UNCHANGED vars
  BY <1>9, <1>1 DEF vars, lists
<1>10. CASE Plant
  BY <1>10, <1>1, <1>2, <1>3, <1>6, <1>7 DEF Plant
<1>11. CASE \E c \in Carousels : Task(c) \/ Failure(c)
  BY <1>11, <1>1, <1>4, <1>5, <1>8 DEF Task
<1>12. QED
  BY <1>9, <1>10, <1>11 DEF Next

\* The listener, the readers and Redis implement the line of passports: oldest first, each
\* passport to one balloon, none ever coming back (pop_json_from_queue, add_balloon_to_cache).
THEOREM ImplementsLine == Spec => PassportsInLine
<1>1. Init => Inv /\ TInv /\ Line!Init
  <2> SUFFICES ASSUME Init PROVE Inv /\ TInv /\ Line!Init
    OBVIOUS
  <2>1. Inv
    BY DEF Init, Inv, ListTypes, ListsRise, Rising, TakenAreBelow, PassportUsedOnce
  <2>2. TInv
    BY InitTypes
  <2>3. \A r \in Readers : Elements(queue[r]) = {}
    BY DEF Init, Elements
  <2>4. Waiting = [r \in Readers |-> {}]
    BY <2>3, Zenon DEF Waiting
  <2>5. Line!Init
    BY <2>4 DEF Init, Line!Init, Waiting, Elements
  <2>6. QED
    BY <2>1, <2>2, <2>5
<1>2. QED
  BY <1>1, StepKeeps, StepTypes, StepIsStepOfLine, PTL DEF Spec, PassportsInLine, Line!Spec
=============================================================================
