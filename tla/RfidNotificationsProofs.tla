------------------------ MODULE RfidNotificationsProofs ------------------------
(***************************************************************************)
(* Theorems of RfidNotifications: the types; what the acknowledgement of a *)
(* sensor event and the status sent to Miriada promise; that a balloon is  *)
(* counted once, and that the passports join the list in order, whatever   *)
(* is repeated, reconnected, restarted or fails.  What the filter makes of *)
(* the tags of an event, one after the other, is shown by induction: a     *)
(* least number without a property has none below it.                      *)
(***************************************************************************)
EXTENDS RfidNotifications, TLAPS, WellFoundedInduction, FiniteSetTheorems

----------------------------------------------------------------------------
(* Sequences of anything: what an acknowledgement promises does not depend on what the filter
   makes of the tags of an event *)

IsSeq(s) == \E S : s \in Seq(S)

LEMMA AppendFacts ==
    ASSUME NEW s, NEW e, IsSeq(s)
    PROVE  /\ IsSeq(Append(s, e))
           /\ Len(s) \in Nat
           /\ Len(Append(s, e)) = Len(s) + 1
           /\ Append(s, e)[Len(s) + 1] = e
           /\ \A i \in 1 .. Len(s) : Append(s, e)[i] = s[i]
<1>1. PICK S : s \in Seq(S)
  BY DEF IsSeq
<1> DEFINE T == S \union {e}
<1>2. s \in Seq(T) /\ e \in T
  BY <1>1
<1> HIDE DEF T
<1>3. Append(s, e) \in Seq(T)
  BY <1>2
<1>4. QED
  BY <1>2, <1>3 DEF IsSeq

LEMMA TailFacts ==
    ASSUME NEW s, IsSeq(s), s # <<>>
    PROVE  /\ IsSeq(Tail(s))
           /\ Len(s) \in Nat \ {0}
           /\ Len(Tail(s)) = Len(s) - 1
           /\ Head(s) = s[1]
           /\ \A i \in 1 .. Len(Tail(s)) : Tail(s)[i] = s[i + 1] /\ i + 1 \in 1 .. Len(s)
<1>1. PICK S : s \in Seq(S)
  BY DEF IsSeq
<1>2. /\ Tail(s) \in Seq(S) /\ Len(s) \in Nat \ {0}
      /\ Len(Tail(s)) = Len(s) - 1 /\ Head(s) = s[1]
      /\ \A i \in 1 .. Len(Tail(s)) : Tail(s)[i] = s[i + 1]
  BY <1>1
<1>3. QED
  BY <1>2 DEF IsSeq

----------------------------------------------------------------------------
(* What is acknowledged was counted *)

Linked(h) == link[h[1]] = h[2]

Shape ==
    /\ link \in [Readers -> Slots \union {NoLink}]
    /\ sent \in [Readers -> BOOLEAN]
    /\ event = [r \in Readers |-> event[r]]
    /\ task = [h \in Handlers |-> task[h]]
    /\ IsSeq(jobs)

\* The thread has work for handlers that wait, one piece each
OneJobEach ==
    \A i \in 1 .. Len(jobs) :
        /\ jobs[i].by \in Handlers
        /\ task[jobs[i].by].step = "await"
        /\ \A j \in 1 .. Len(jobs) : jobs[j].by = jobs[i].by => j = i

\* While the connection stands, the work is that of the event of the reader ...
Answers(job) ==
    /\ job.kind = "tag" => event[job.by[1]].kind = "tags"
    /\ job.kind = "input" =>
           event[job.by[1]].kind = "input" /\ event[job.by[1]].firing = job.item

JobsOfEvents == \A i \in 1 .. Len(jobs) : Linked(jobs[i].by) => Answers(jobs[i])

\* ... and so is what the handler does next; what it acknowledges was done
Fits(r, t) ==
    /\ ~sent[r] => t = Reading
    /\ sent[r] => event[r] # NoEvent
    /\ t.step = "next" => event[r].kind = "tags"
    /\ (t.step = "ack" /\ t.status = "ok" /\ event[r].kind = "input") =>
           <<r, event[r].firing>> \in sensed

Conversation ==
    \A r \in Readers : IF link[r] = NoLink THEN ~sent[r] ELSE Fits(r, task[<<r, link[r]>>])

AckInv == Shape /\ OneJobEach /\ JobsOfEvents /\ Conversation /\ AcknowledgedIsCounted

\* The thread is given a piece of work by a handler that had none.
LEMMA BeginJob ==
    ASSUME Shape, OneJobEach,
           NEW h \in Handlers, task[h].step # "await",
           NEW t, t.step = "await", task' = [task EXCEPT ![h] = t],
           NEW job, job.by = h, jobs' = Append(jobs, job)
    PROVE  IsSeq(jobs') /\ OneJobEach'
<1>1. /\ IsSeq(jobs')
      /\ Len(jobs) \in Nat
      /\ Len(jobs') = Len(jobs) + 1
      /\ jobs'[Len(jobs) + 1] = job
      /\ \A i \in 1 .. Len(jobs) : jobs'[i] = jobs[i]
  BY AppendFacts DEF Shape
<1>2. task'[h] = t /\ \A g \in Handlers : g # h => task'[g] = task[g]
  BY DEF Shape
<1>3. \A i \in 1 .. Len(jobs') : i \in 1 .. Len(jobs) \/ i = Len(jobs) + 1
  BY <1>1
<1>4. \A i \in 1 .. Len(jobs) : jobs[i].by # h
  BY DEF OneJobEach
<1>5. ASSUME NEW i \in 1 .. Len(jobs')
      PROVE  jobs'[i].by \in Handlers /\ task'[jobs'[i].by].step = "await"
  BY <1>1, <1>2, <1>3, <1>4 DEF OneJobEach
<1>6. ASSUME NEW i \in 1 .. Len(jobs'), NEW j \in 1 .. Len(jobs'), jobs'[j].by = jobs'[i].by
      PROVE  j = i
  BY <1>1, <1>3, <1>4, <1>6 DEF OneJobEach
<1>7. QED
  BY <1>1, <1>5, <1>6 DEF OneJobEach

\* The first piece of work ends, and its handler does something else.
LEMMA EndJob ==
    ASSUME Shape, OneJobEach, jobs # <<>>,
           NEW t, task' = [task EXCEPT ![Head(jobs).by] = t], jobs' = Tail(jobs)
    PROVE  /\ IsSeq(jobs') /\ OneJobEach'
           /\ \A i \in 1 .. Len(jobs') : \E j \in 1 .. Len(jobs) : jobs'[i] = jobs[j]
           /\ Head(jobs) = jobs[1] /\ 1 \in 1 .. Len(jobs) /\ Head(jobs).by \in Handlers
<1>1. /\ IsSeq(jobs')
      /\ Len(jobs) \in Nat \ {0}
      /\ Head(jobs) = jobs[1]
      /\ \A i \in 1 .. Len(jobs') : jobs'[i] = jobs[i + 1] /\ i + 1 \in 1 .. Len(jobs)
      /\ Len(jobs') = Len(jobs) - 1
  BY TailFacts DEF Shape
<1>2. 1 \in 1 .. Len(jobs) /\ jobs[1].by \in Handlers
  BY <1>1 DEF OneJobEach
<1>3. \A g \in Handlers : g # jobs[1].by => task'[g] = task[g]
  BY <1>1 DEF Shape
<1>4. \A i \in 1 .. Len(jobs') : jobs'[i].by # jobs[1].by
  BY <1>1, <1>2 DEF OneJobEach
<1>5. ASSUME NEW i \in 1 .. Len(jobs')
      PROVE  jobs'[i].by \in Handlers /\ task'[jobs'[i].by].step = "await"
  BY <1>1, <1>3, <1>4 DEF OneJobEach
<1>6. ASSUME NEW i \in 1 .. Len(jobs'), NEW j \in 1 .. Len(jobs'), jobs'[j].by = jobs'[i].by
      PROVE  j = i
  BY <1>1, <1>6 DEF OneJobEach
<1>7. \A i \in 1 .. Len(jobs') : \E j \in 1 .. Len(jobs) : jobs'[i] = jobs[j]
  BY <1>1
<1>8. QED
  BY <1>1, <1>2, <1>5, <1>6, <1>7 DEF OneJobEach

\* A handler without work does something else.
LEMMA NoJob ==
    ASSUME Shape, OneJobEach, NEW h \in Handlers, task[h].step # "await",
           NEW t, task' = [task EXCEPT ![h] = t], jobs' = jobs
    PROVE  OneJobEach'
<1>1. \A g \in Handlers : g # h => task'[g] = task[g]
  BY DEF Shape
<1>2. QED
  BY <1>1 DEF OneJobEach

\* One handler moves; the conversations of the other connections stay as they are.
LEMMA OneMoves ==
    ASSUME Shape, Conversation, NEW h \in Handlers,
           NEW t, task' = [task EXCEPT ![h] = t], link' = link,
           \A r \in Readers : (r # h[1] \/ ~Linked(h)) => sent'[r] = sent[r] /\ event'[r] = event[r],
           sensed \subseteq sensed',
           Linked(h) => link[h[1]] # NoLink /\ Fits(h[1], t)'
    PROVE  Conversation'
<1>1. h = <<h[1], h[2]>> /\ h[1] \in Readers /\ h[2] \in Slots
  BY DEF Handlers
<1>2. task'[h] = t /\ \A g \in Handlers : g # h => task'[g] = task[g]
  BY DEF Shape
<1>3. ASSUME NEW r \in Readers, r = h[1] /\ Linked(h)
      PROVE  (IF link[r] = NoLink THEN ~sent[r] ELSE Fits(r, task[<<r, link[r]>>]))'
  BY <1>1, <1>2, <1>3 DEF Linked
<1>4. ASSUME NEW r \in Readers, r # h[1] \/ ~Linked(h)
      PROVE  (IF link[r] = NoLink THEN ~sent[r] ELSE Fits(r, task[<<r, link[r]>>]))'
  <2>1. sent'[r] = sent[r] /\ event'[r] = event[r] /\ link'[r] = link[r]
    BY <1>4
  <2>2. CASE link[r] = NoLink
    BY <2>1, <2>2 DEF Conversation
  <2>3. CASE link[r] # NoLink
    <3>1. <<r, link[r]>> \in Handlers /\ <<r, link[r]>> # h
      BY <1>1, <1>4, <2>3 DEF Shape, Handlers, Linked
    <3>2. task'[<<r, link[r]>>] = task[<<r, link[r]>>]
      BY <1>2, <3>1
    <3>3. Fits(r, task[<<r, link[r]>>])
      BY <2>3 DEF Conversation
    <3>4. QED
      BY <2>1, <2>3, <3>2, <3>3 DEF Fits
  <2>4. QED
    BY <2>2, <2>3
<1>5. QED
  BY <1>3, <1>4 DEF Conversation

\* A handler that has work, and its connection, was sent the event the work is of.
LEMMA AtWork ==
    ASSUME AckInv, NEW i \in 1 .. Len(jobs), Linked(jobs[i].by)
    PROVE  /\ link[jobs[i].by[1]] # NoLink
           /\ sent[jobs[i].by[1]]
           /\ event[jobs[i].by[1]] # NoEvent
           /\ Answers(jobs[i])
<1> USE BoundAssumption
<1> DEFINE h == jobs[i].by
<1>1. h \in Handlers /\ task[h].step = "await"
  BY DEF AckInv, OneJobEach
<1>2. h = <<h[1], h[2]>> /\ h[1] \in Readers /\ h[2] \in Slots
  BY <1>1 DEF Handlers
<1>3. link[h[1]] = h[2] /\ link[h[1]] # NoLink
  BY <1>2 DEF Linked, NoLink
<1>4. Fits(h[1], task[h])
  BY <1>2, <1>3 DEF AckInv, Conversation
<1>5. sent[h[1]] /\ event[h[1]] # NoEvent
  BY <1>1, <1>2, <1>4 DEF Fits, Reading, AckInv, Shape
<1>6. QED
  BY <1>3, <1>5 DEF AckInv, JobsOfEvents

\* Balloons come, a reader composes an event, the thread works on.
LEMMA QuietKeeps ==
    ASSUME AckInv, UNCHANGED <<link, sent, task, jobs, sensed, settled>>,
           \/ event' = event
           \/ \E r \in Readers : \E e : event[r] = NoEvent /\ event' = [event EXCEPT ![r] = e]
    PROVE  AckInv'
<1>1. event' = [r \in Readers |-> event'[r]]
  BY DEF AckInv, Shape
<1>2. Shape'
  BY <1>1 DEF AckInv, Shape
<1>3. OneJobEach' /\ AcknowledgedIsCounted'
  BY DEF AckInv, OneJobEach, AcknowledgedIsCounted
<1>4. \A r \in Readers : event'[r] = event[r] \/ event[r] = NoEvent
  BY DEF AckInv, Shape
<1>5. JobsOfEvents'
  <2>1. SUFFICES ASSUME NEW i \in 1 .. Len(jobs), Linked(jobs[i].by)
                 PROVE  Answers(jobs[i])'
    BY DEF JobsOfEvents, Linked, Answers
  <2>2. jobs[i].by[1] \in Readers
    BY DEF AckInv, OneJobEach, Handlers
  <2>3. event'[jobs[i].by[1]] = event[jobs[i].by[1]] /\ Answers(jobs[i])
    BY <2>1, <2>2, <1>4, AtWork
  <2>4. QED
    BY <2>3 DEF Answers
<1>6. Conversation'
  <2>1. SUFFICES ASSUME NEW r \in Readers, link[r] # NoLink
                 PROVE  Fits(r, task[<<r, link[r]>>])'
    BY DEF Conversation, AckInv
  <2>2. Fits(r, task[<<r, link[r]>>])
    BY <2>1 DEF Conversation, AckInv
  <2>3. CASE event'[r] = event[r]
    BY <2>2, <2>3 DEF Fits
  <2>4. CASE event[r] = NoEvent
    BY <2>2, <2>4 DEF Fits, Reading, AckInv, Shape
  <2>5. QED
    BY <2>3, <2>4, <1>4
<1>7. QED
  BY <1>2, <1>3, <1>5, <1>6 DEF AckInv

\* A handler gives the thread work that belongs to the event.
LEMMA SubmitKeeps ==
    ASSUME AckInv, NEW h \in Handlers, task[h].step # "await",
           NEW t, t.step = "await", task' = [task EXCEPT ![h] = t],
           NEW job, job.by = h, jobs' = Append(jobs, job),
           UNCHANGED <<link, event, sensed, settled>>,
           sent' \in [Readers -> BOOLEAN],
           \A r \in Readers : (r # h[1] \/ ~Linked(h)) => sent'[r] = sent[r],
           Linked(h) => sent'[h[1]] /\ event[h[1]] # NoEvent /\ Answers(job)
    PROVE  AckInv'
<1> USE BoundAssumption
<1>1. Linked(h) => link[h[1]] # NoLink
  BY DEF Linked, Handlers, NoLink
<1>2. AcknowledgedIsCounted'
  BY DEF AckInv, AcknowledgedIsCounted
<1>3. IsSeq(jobs') /\ OneJobEach'
  BY BeginJob DEF AckInv
<1>4. Shape'
  BY <1>3 DEF AckInv, Shape
<1>5. /\ Len(jobs) \in Nat /\ Len(jobs') = Len(jobs) + 1
      /\ jobs'[Len(jobs) + 1] = job
      /\ \A i \in 1 .. Len(jobs) : jobs'[i] = jobs[i]
  BY AppendFacts DEF AckInv, Shape
<1>6. JobsOfEvents'
  <2>1. SUFFICES ASSUME NEW i \in 1 .. Len(jobs'), Linked(jobs[i].by)'
                 PROVE  Answers(jobs[i])'
    BY DEF JobsOfEvents
  <2>2. CASE i \in 1 .. Len(jobs)
    BY <1>5, <2>1, <2>2 DEF AckInv, JobsOfEvents, Answers, Linked
  <2>3. CASE i = Len(jobs) + 1
    BY <1>5, <2>1, <2>3 DEF Answers, Linked
  <2>4. QED
    BY <1>5, <2>2, <2>3
<1>7. Linked(h) => Fits(h[1], t)'
  BY DEF Fits
<1>8. Conversation'
  BY <1>1, <1>7, OneMoves DEF AckInv
<1>9. QED
  BY <1>2, <1>3, <1>4, <1>6, <1>8 DEF AckInv

\* A handler submits the next tag of the event, or sees to the lamp.
LEMMA ProceedKeeps ==
    ASSUME AckInv, NEW h \in Handlers, NEW tags, Proceed(h, tags), task[h].step # "await",
           UNCHANGED <<link, event, sensed, settled>>,
           sent' \in [Readers -> BOOLEAN],
           \A r \in Readers : (r # h[1] \/ ~Linked(h)) => sent'[r] = sent[r],
           Linked(h) => sent'[h[1]] /\ event[h[1]].kind = "tags"
    PROVE  AckInv'
<1> USE BoundAssumption
<1>1. Linked(h) => link[h[1]] # NoLink
  BY DEF Linked, Handlers, NoLink
<1>2. CASE tags = <<>>
  <2>1. PICK status : task' = [task EXCEPT ![h] = Acknowledging(status)] /\ jobs' = jobs
    BY <1>2 DEF Proceed, Lamp
  <2>2. Shape'
    BY <2>1 DEF AckInv, Shape
  <2>3. OneJobEach'
    BY <2>1, NoJob DEF AckInv
  <2>4. JobsOfEvents' /\ AcknowledgedIsCounted'
    BY <2>1 DEF AckInv, JobsOfEvents, Answers, Linked, AcknowledgedIsCounted
  <2>5. Linked(h) => Fits(h[1], Acknowledging(status))'
    BY DEF Fits, Acknowledging, NoEvent
  <2>6. Conversation'
    BY <1>1, <2>1, <2>5, OneMoves DEF AckInv
  <2>7. QED
    BY <2>2, <2>3, <2>4, <2>6 DEF AckInv
<1>3. CASE tags # <<>>
  <2> DEFINE t == [step |-> "await", todo |-> Tail(tags)]
             job == [kind |-> "tag", by |-> h, item |-> Head(tags)]
  <2>1. task' = [task EXCEPT ![h] = t] /\ jobs' = Append(jobs, job)
    BY <1>3 DEF Proceed, Submit
  <2>2. t.step = "await" /\ job.by = h /\ job.kind = "tag"
    OBVIOUS
  <2> HIDE DEF t, job
  <2>3. Linked(h) => sent'[h[1]] /\ event[h[1]] # NoEvent /\ Answers(job)
    BY <2>2 DEF Answers, NoEvent
  <2>4. QED
    BY <2>1, <2>2, <2>3, SubmitKeeps
<1>4. QED
  BY <1>2, <1>3

\* The work of the thread ends, and its handler goes on or acknowledges.
LEMMA EndKeeps ==
    ASSUME AckInv, jobs # <<>>, NEW t, task' = [task EXCEPT ![Head(jobs).by] = t],
           jobs' = Tail(jobs), UNCHANGED <<link, sent, event, settled>>,
           sensed \subseteq sensed',
           t.step \in {"next", "ack"},
           t.step = "next" => Head(jobs).kind = "tag",
           (t.step = "ack" /\ t.status = "ok" /\ Head(jobs).kind = "input") =>
               <<Head(jobs).by[1], Head(jobs).item>> \in sensed',
           Head(jobs).kind \in {"tag", "input"}
    PROVE  AckInv'
<1>0. PICK job, h : job = Head(jobs) /\ h = Head(jobs).by
  OBVIOUS
<1>1. /\ IsSeq(jobs') /\ OneJobEach'
      /\ \A i \in 1 .. Len(jobs') : \E j \in 1 .. Len(jobs) : jobs'[i] = jobs[j]
      /\ job = jobs[1] /\ 1 \in 1 .. Len(jobs) /\ h \in Handlers /\ h = job.by
  BY <1>0, EndJob DEF AckInv
<1>2. Shape'
  BY <1>1 DEF AckInv, Shape
<1>3. JobsOfEvents'
  <2>1. UNCHANGED <<link, event>> /\ JobsOfEvents
    BY DEF AckInv
  <2>2. ASSUME NEW i \in 1 .. Len(jobs'), Linked(jobs[i].by)' PROVE Answers(jobs[i])'
    <3>1. PICK j \in 1 .. Len(jobs) : jobs'[i] = jobs[j]
      BY <1>1
    <3>2. Linked(jobs[j].by)
      BY <2>1, <2>2, <3>1 DEF Linked
    <3>3. Answers(jobs[j])
      BY <2>1, <3>2 DEF JobsOfEvents
    <3>4. QED
      BY <2>1, <3>1, <3>3 DEF Answers
  <2>3. QED
    BY <2>2 DEF JobsOfEvents
<1>4. AcknowledgedIsCounted'
  BY DEF AckInv, AcknowledgedIsCounted
<1>5. ASSUME Linked(h) PROVE link[h[1]] # NoLink /\ Fits(h[1], t)'
  <2>1. /\ link[h[1]] # NoLink /\ sent[h[1]] /\ event[h[1]] # NoEvent
        /\ Answers(job)
    BY <1>0, <1>1, <1>5, AtWork
  <2>2. t.step = "next" => event[h[1]].kind = "tags"
    BY <1>0, <1>1, <2>1 DEF Answers
  <2>3. CASE job.kind = "tag"
    <3>1. event[h[1]].kind # "input"
      BY <1>1, <2>1, <2>3 DEF Answers
    <3>2. QED
      BY <1>0, <2>1, <2>2, <3>1 DEF Fits
  <2>4. CASE job.kind = "input"
    <3>1. event[h[1]].firing = job.item
      BY <1>1, <2>1, <2>4 DEF Answers
    <3>2. QED
      BY <1>0, <1>1, <2>1, <2>2, <2>4, <3>1 DEF Fits
  <2>5. QED
    BY <1>0, <2>3, <2>4
<1>6. Conversation'
  BY <1>0, <1>1, <1>5, OneMoves DEF AckInv
<1>7. QED
  BY <1>1, <1>2, <1>3, <1>4, <1>6 DEF AckInv

LEMMA ConnectKeeps == ASSUME AckInv, NEW r \in Readers, Connect(r) PROVE AckInv'
<1> USE BoundAssumption
<1>1. PICK s \in Slots :
         /\ task[<<r, s>>] = Closed
         /\ link' = [link EXCEPT ![r] = s]
         /\ task' = [task EXCEPT ![<<r, s>>] = Reading]
  BY DEF Connect
<1>2. sent' = [sent EXCEPT ![r] = FALSE] /\ UNCHANGED <<event, jobs, sensed, settled>>
  BY DEF Connect, data
<1>3. <<r, s>> \in Handlers /\ task[<<r, s>>].step # "await" /\ s # NoLink
  BY <1>1 DEF Handlers, Closed, NoLink
<1>4. Shape' /\ AcknowledgedIsCounted'
  BY <1>1, <1>2 DEF AckInv, Shape, AcknowledgedIsCounted
<1>5. OneJobEach'
  BY <1>1, <1>2, <1>3, NoJob DEF AckInv
<1>6. JobsOfEvents'
  <2>1. SUFFICES ASSUME NEW i \in 1 .. Len(jobs), Linked(jobs[i].by)'
                 PROVE  Answers(jobs[i])'
    BY <1>2 DEF JobsOfEvents
  <2>2. PICK h \in Handlers : h = jobs[i].by /\ task[h].step = "await"
    BY DEF AckInv, OneJobEach
  <2>3. h = <<h[1], h[2]>> /\ h # <<r, s>> /\ link'[h[1]] = h[2] /\ h[1] \in Readers
    <3>1. h = <<h[1], h[2]>> /\ h[1] \in Readers
      BY DEF Handlers
    <3>2. h # <<r, s>>
      BY <1>3, <2>2
    <3>3. link'[h[1]] = h[2]
      BY <1>2, <2>1, <2>2, Zenon DEF Linked
    <3>4. QED
      BY <3>1, <3>2, <3>3
  <2>4. h[1] # r
    BY <1>1, <2>3 DEF AckInv, Shape
  <2>5. Linked(h)
    BY <1>1, <2>3, <2>4 DEF Linked, AckInv, Shape
  <2>6. QED
    BY <1>2, <2>2, <2>5 DEF AckInv, JobsOfEvents, Answers
<1>7. Conversation'
  <2>1. SUFFICES ASSUME NEW q \in Readers
                 PROVE  (IF link[q] = NoLink THEN ~sent[q] ELSE Fits(q, task[<<q, link[q]>>]))'
    BY DEF Conversation
  <2>2. CASE q = r
    <3>1. link'[q] = s /\ ~sent'[q] /\ task'[<<q, s>>] = Reading
      BY <1>1, <1>2, <1>3, <2>2 DEF AckInv, Shape
    <3>2. QED
      BY <1>3, <3>1 DEF Fits, Reading
  <2>3. CASE q # r
    <3>1. /\ link'[q] = link[q] /\ sent'[q] = sent[q]
          /\ \A h \in Handlers : h[1] = q => task'[h] = task[h]
      BY <1>1, <1>2, <2>3 DEF AckInv, Shape
    <3>2. link[q] # NoLink => <<q, link[q]>> \in Handlers
      BY DEF AckInv, Shape, Handlers
    <3>3. link[q] # NoLink => task'[<<q, link[q]>>] = task[<<q, link[q]>>]
      BY <3>1, <3>2
    <3>4. IF link[q] = NoLink THEN ~sent[q] ELSE Fits(q, task[<<q, link[q]>>])
      BY DEF AckInv, Conversation
    <3>5. QED
      BY <1>2, <3>1, <3>3, <3>4 DEF Fits
  <2>4. QED
    BY <2>2, <2>3
<1>8. QED
  BY <1>4, <1>5, <1>6, <1>7 DEF AckInv

\* An event reaches the handler of the connection.
LEMMA DeliverKeeps ==
    ASSUME AckInv, NEW r \in Readers, DeliverTags(r) \/ DeliverInput(r) PROVE AckInv'
<1> USE BoundAssumption
<1>1. PICK h : h = <<r, link[r]>>
  OBVIOUS
<1>2. /\ link[r] # NoLink /\ task[h] = Reading /\ sent' = [sent EXCEPT ![r] = TRUE]
      /\ UNCHANGED <<link, event, sensed, settled>>
  BY <1>1 DEF DeliverTags, DeliverInput, Deliver, data
<1>3. h \in Handlers /\ h[1] = r /\ task[h].step # "await" /\ Linked(h)
  BY <1>1, <1>2 DEF AckInv, Shape, Handlers, Reading, Linked
<1>4. /\ sent' \in [Readers -> BOOLEAN] /\ sent'[r]
      /\ \A q \in Readers : (q # h[1] \/ ~Linked(h)) => sent'[q] = sent[q]
  BY <1>2, <1>3 DEF AckInv, Shape
<1>5. CASE DeliverTags(r)
  <2>1. event[r].kind = "tags" /\ \E tags : Proceed(h, tags)
    BY <1>1, <1>5 DEF DeliverTags
  <2>2. PICK tags : Proceed(h, tags)
    BY <2>1
  <2>3. QED
    BY <1>2, <1>3, <1>4, <2>1, <2>2, ProceedKeeps
<1>6. CASE DeliverInput(r)
  <2>1. PICK n : n = event[r].firing
    OBVIOUS
  <2> DEFINE t == [step |-> "await", todo |-> <<>>]
             job == [kind |-> "input", by |-> h, item |-> n]
  <2>2. /\ event[r].kind = "input"
        /\ task' = [task EXCEPT ![h] = t] /\ jobs' = Append(jobs, job)
    BY <1>1, <1>6, <2>1 DEF DeliverInput, Submit
  <2>3. t.step = "await" /\ job.by = h /\ job.kind = "input" /\ job.item = n
    OBVIOUS
  <2> HIDE DEF t, job
  <2>4. event[h[1]] # NoEvent /\ Answers(job)
    BY <1>3, <2>1, <2>2, <2>3 DEF Answers, NoEvent
  <2>5. QED
    BY <1>2, <1>3, <1>4, <2>2, <2>3, <2>4, SubmitKeeps
<1>7. QED
  BY <1>5, <1>6

\* The handler goes on with the next tag.
LEMMA NextTagKeeps == ASSUME AckInv, NEW h \in Handlers, NextTag(h) PROVE AckInv'
<1> USE BoundAssumption
<1>1. /\ task[h].step = "next" /\ UNCHANGED <<link, sent, event, sensed, settled>>
  BY DEF NextTag, device, data
<1>2. PICK tags : Proceed(h, tags)
  BY DEF NextTag
<1>3. ASSUME Linked(h) PROVE sent[h[1]] /\ event[h[1]].kind = "tags"
  <2>1. h = <<h[1], link[h[1]]>> /\ h[1] \in Readers /\ link[h[1]] # NoLink
    BY <1>3 DEF Handlers, Linked, NoLink
  <2>2. Fits(h[1], task[h])
    BY <2>1 DEF AckInv, Conversation
  <2>3. QED
    BY <1>1, <2>1, <2>2 DEF Fits, Reading
<1>4. sent' \in [Readers -> BOOLEAN] /\ \A r \in Readers : sent'[r] = sent[r]
  BY <1>1 DEF AckInv, Shape
<1>5. QED
  BY <1>1, <1>2, <1>3, <1>4, ProceedKeeps

\* The reader has its acknowledgement: here the property is earned.
LEMMA AcknowledgeKeeps == ASSUME AckInv, NEW h \in Handlers, Acknowledge(h) PROVE AckInv'
<1> USE BoundAssumption
<1>1. PICK r \in Readers : h = <<r, h[2]>> /\ r = h[1] /\ h[2] \in Slots
  BY DEF Handlers
<1>2. /\ task[h].step = "ack" /\ link[r] = h[2]
      /\ task' = [task EXCEPT ![h] = Reading]
      /\ sent' = [sent EXCEPT ![r] = FALSE]
      /\ event' = [event EXCEPT ![r] = NoEvent] \/ event' = event
      /\ settled' = IF event[r].kind = "input" /\ task[h].status = "ok"
                    THEN settled \union {<<r, event[r].firing>>} ELSE settled
      /\ UNCHANGED <<link, jobs, sensed>>
  BY <1>1 DEF Acknowledge, data
<1>3. link[r] # NoLink /\ Linked(h) /\ task[h].step # "await"
  BY <1>1, <1>2 DEF NoLink, Linked
<1>4. Fits(r, task[h])
  BY <1>1, <1>2, <1>3 DEF AckInv, Conversation
<1>5. AcknowledgedIsCounted'
  BY <1>2, <1>4 DEF Fits, AckInv, AcknowledgedIsCounted
<1>6. event' = [q \in Readers |-> event'[q]] /\ \A q \in Readers : q # r => event'[q] = event[q]
  BY <1>2 DEF AckInv, Shape
<1>7. Shape'
  BY <1>2, <1>6 DEF AckInv, Shape
<1>8. OneJobEach'
  BY <1>2, <1>3, NoJob DEF AckInv
<1>9. JobsOfEvents'
  <2>1. SUFFICES ASSUME NEW i \in 1 .. Len(jobs), Linked(jobs[i].by)
                 PROVE  Answers(jobs[i])'
    BY <1>2 DEF JobsOfEvents, Linked
  <2>2. PICK g \in Handlers : g = jobs[i].by /\ task[g].step = "await"
    BY DEF AckInv, OneJobEach
  <2>3. g = <<g[1], g[2]>> /\ g # h /\ link[g[1]] = g[2] /\ g[1] \in Readers
    BY <1>3, <2>1, <2>2 DEF Handlers, Linked
  <2>4. g[1] # r
    BY <1>1, <1>2, <2>3
  <2>5. QED
    BY <1>2, <1>6, <2>1, <2>2, <2>3, <2>4 DEF AckInv, JobsOfEvents, Answers
<1>10. Fits(r, Reading)'
  BY <1>2 DEF Fits, Reading, AckInv, Shape
<1>11. \A q \in Readers : q # r => sent'[q] = sent[q]
  BY <1>2 DEF AckInv, Shape
<1>12. Conversation'
  BY <1>1, <1>2, <1>3, <1>6, <1>10, <1>11, OneMoves DEF AckInv
<1>13. QED
  BY <1>5, <1>7, <1>8, <1>9, <1>12 DEF AckInv

LEMMA HangupKeeps == ASSUME AckInv, NEW h \in Handlers, Hangup(h) PROVE AckInv'
<1>1. /\ task[h].step = "ack" /\ ~Linked(h) /\ task' = [task EXCEPT ![h] = Closed]
      /\ UNCHANGED <<link, sent, event, jobs, sensed, settled>>
  BY DEF Hangup, Linked, device, data
<1>2. OneJobEach'
  BY <1>1, NoJob DEF AckInv
<1>3. Conversation'
  BY <1>1, OneMoves DEF AckInv
<1>4. Shape' /\ JobsOfEvents' /\ AcknowledgedIsCounted'
  BY <1>1 DEF AckInv, Shape, JobsOfEvents, Answers, Linked, AcknowledgedIsCounted
<1>5. QED
  BY <1>2, <1>3, <1>4 DEF AckInv

\* The thread ends a piece of work, with its error or with its result.
LEMMA ReturnKeeps ==
    ASSUME AckInv, jobs # <<>>, Head(jobs).kind = "tag", Return \/ EndEvent("error"),
           UNCHANGED <<link, sent, event, settled, sensed>>
    PROVE  AckInv'
<1>1. jobs' = Tail(jobs)
  BY DEF Return, EndEvent
<1>2. PICK t : task' = [task EXCEPT ![Head(jobs).by] = t] /\ t.step \in {"next", "ack"}
  <2>1. ASSUME NEW status, task' = [task EXCEPT ![Head(jobs).by] = Acknowledging(status)]
        PROVE  \E t : task' = [task EXCEPT ![Head(jobs).by] = t] /\ t.step \in {"next", "ack"}
    <3>1. Acknowledging(status).step \in {"next", "ack"}
      BY DEF Acknowledging
    <3>2. QED
      BY <2>1, <3>1, Zenon
  <2>2. CASE task' = [task EXCEPT ![Head(jobs).by] =
                        [step |-> "next", todo |-> task[Head(jobs).by].todo]]
    <3>1. PICK t : t = [step |-> "next", todo |-> task[Head(jobs).by].todo]
      OBVIOUS
    <3>2. t.step \in {"next", "ack"} /\ task' = [task EXCEPT ![Head(jobs).by] = t]
      BY <2>2, <3>1
    <3>3. QED
      BY <3>2
  <2>3. QED
    BY <2>1, <2>2 DEF Return, Lamp, EndEvent
<1>3. QED
  BY <1>1, <1>2, EndKeeps

LEMMA WorkerKeeps == ASSUME AckInv, Worker PROVE AckInv'
<1>1. UNCHANGED <<link, sent, event, settled>> /\ jobs # <<>>
  BY DEF Worker, Record, Push, Post, Sense, Now, device
<1>2. CASE Record \/ Push \/ Post
  <2>1. Head(jobs).kind = "tag" /\ sensed' = sensed
    BY <1>2 DEF Record, Push, Post, Now
  <2>2. Return \/ EndEvent("error") \/ UNCHANGED <<task, jobs>>
    BY <1>2 DEF Record, Push, Post, ReturnError, MissingReader, TellOrReturn, Advance
  <2>3. QED
    BY <1>1, <2>1, <2>2, ReturnKeeps, QuietKeeps
<1>3. CASE Sense
  <2>1. PICK status :
           /\ task' = [task EXCEPT ![Head(jobs).by] = Acknowledging(status)]
           /\ jobs' = Tail(jobs)
           /\ sensed \subseteq sensed'
           /\ status = "ok" => Current \in sensed'
    <3>1. PICK status \in {"ok", "error"} :
             EndEvent(status) /\ (status = "ok" => sensed' = sensed \union {Current})
      BY <1>3 DEF Sense, FailedSensor
    <3>2. sensed \subseteq sensed' /\ (status = "ok" => Current \in sensed')
      BY <1>3, <3>1 DEF Sense
    <3>3. QED
      BY <3>1, <3>2, Zenon DEF EndEvent
  <2>2. Head(jobs).kind = "input"
    BY <1>3 DEF Sense, Now
  <2>3. Acknowledging(status).step = "ack" /\ Acknowledging(status).status = status
    BY DEF Acknowledging
  <2>4. QED
    BY <1>1, <2>1, <2>2, <2>3, EndKeeps DEF Current
<1>4. QED
  BY <1>2, <1>3 DEF Worker

LEMMA ReaderKeeps == ASSUME AckInv, NEW r \in Readers, Reader(r) PROVE AckInv'
<1>1. CASE Enter(r)
  BY <1>1, QuietKeeps DEF Enter, device, process, data
<1>2. CASE ReadTags(r)
  <2>1. UNCHANGED <<link, sent, task, jobs, sensed, settled>> /\ event[r] = NoEvent
    BY <1>2 DEF ReadTags, process, data
  <2>2. \E e : event' = [event EXCEPT ![r] = e]
    BY <1>2 DEF ReadTags
  <2>3. QED
    BY <2>1, <2>2, QuietKeeps
<1>3. CASE Fire(r) \/ Unlist(r)
  BY <1>3, QuietKeeps DEF Fire, Unlist, device, process, data
<1>4. CASE Connect(r)
  BY <1>4, ConnectKeeps
<1>5. CASE DeliverTags(r) \/ DeliverInput(r)
  BY <1>5, DeliverKeeps
<1>6. QED
  BY <1>1, <1>2, <1>3, <1>4, <1>5 DEF Reader

LEMMA RestartKeeps == ASSUME AckInv, Restart PROVE AckInv'
<1>1. /\ link' = [r \in Readers |-> NoLink] /\ sent' = [r \in Readers |-> FALSE]
      /\ task' = [h \in Handlers |-> Closed] /\ jobs' = <<>>
      /\ UNCHANGED <<event, sensed, settled>>
  BY DEF Restart, data
<1>2. IsSeq(jobs') /\ Len(jobs') = 0
  BY <1>1 DEF IsSeq
<1>3. Shape'
  BY <1>1, <1>2 DEF AckInv, Shape
<1>4. OneJobEach' /\ JobsOfEvents'
  BY <1>2 DEF OneJobEach, JobsOfEvents
<1>5. Conversation'
  BY <1>1 DEF Conversation
<1>6. AcknowledgedIsCounted'
  BY <1>1 DEF AckInv, AcknowledgedIsCounted
<1>7. QED
  BY <1>3, <1>4, <1>5, <1>6 DEF AckInv

LEMMA InitAck == Init => AckInv
<1>1. SUFFICES ASSUME Init PROVE AckInv
  OBVIOUS
<1>2. /\ link = [r \in Readers |-> NoLink] /\ sent = [r \in Readers |-> FALSE]
      /\ event = [r \in Readers |-> NoEvent] /\ task = [h \in Handlers |-> Closed]
      /\ jobs = <<>> /\ settled = {}
  BY <1>1, Zenon DEF Init
<1> HIDE <1>1
<1>3. IsSeq(jobs) /\ Len(jobs) = 0
  BY <1>2 DEF IsSeq
<1>4. Shape
  BY <1>2, <1>3 DEF Shape
<1>5. OneJobEach /\ JobsOfEvents
  BY <1>3 DEF OneJobEach, JobsOfEvents
<1>6. Conversation
  BY <1>2 DEF Conversation
<1>7. AcknowledgedIsCounted
  BY <1>2 DEF AcknowledgedIsCounted
<1>8. QED
  BY <1>4, <1>5, <1>6, <1>7 DEF AckInv

LEMMA AckInvariant == Spec => []AckInv
<1>1. AckInv /\ [Next]_vars => AckInv'
  <2>1. SUFFICES ASSUME AckInv, [Next]_vars PROVE AckInv'
    OBVIOUS
  <2>2. CASE UNCHANGED vars
    BY <2>1, <2>2, QuietKeeps DEF vars, device, process, data
  <2>3. ASSUME NEW r \in Readers, Reader(r) PROVE AckInv'
    BY <2>1, <2>3, ReaderKeeps
  <2>4. ASSUME NEW h \in Handlers, Handler(h) PROVE AckInv'
    BY <2>1, <2>4, NextTagKeeps, AcknowledgeKeeps, HangupKeeps DEF Handler
  <2>5. CASE Worker
    BY <2>1, <2>5, WorkerKeeps
  <2>6. CASE Restart
    BY <2>1, <2>6, RestartKeeps
  <2>7. QED
    BY <2>1, <2>2, <2>3, <2>4, <2>5, <2>6 DEF Next
<1>2. QED
  BY <1>1, InitAck, PTL DEF Spec

\* For any number of readers, connections and events: when the reader is told that its sensor
\* event went well, the balloon was counted (handle_notification_connection,
\* processing_request_without_nfc) - although handlers of older connections are still at work,
\* whatever failed and however often the process restarted.
THEOREM AcknowledgedWasCounted == Spec => []AcknowledgedIsCounted
<1>1. AckInv => AcknowledgedIsCounted
  BY DEF AckInv
<1>2. QED
  BY <1>1, AckInvariant, PTL

----------------------------------------------------------------------------
(* Miriada is told of a balloon only when its passport is in the list *)

Queued(b) == Contains(queue[b[1]], b[2])

\* The thread has work while it is at it, and has pushed the passport when it posts
StageInv ==
    /\ jobs = <<>> => stage = Recording
    /\ (jobs # <<>> /\ stage.step = "post" /\ CurrentReader \in NeedCache) => Queued(Current)

StatusInv ==
    /\ queue = [r \in Readers |-> queue[r]]
    /\ \A r \in Readers : IsSeq(queue[r])
    /\ StageInv
    /\ StatusAfterPassport

\* What concerns neither the lists nor Miriada.
LEMMA OthersKeepStatus ==
    ASSUME AckInv, StatusInv, UNCHANGED <<queue, informed>>,
           \/ UNCHANGED <<jobs, stage>>
           \/ jobs' = <<>> /\ stage' = Recording
           \/ stage' = stage /\ \E job : jobs' = Append(jobs, job)
    PROVE  StatusInv'
<1>1. CASE UNCHANGED <<jobs, stage>>
  BY <1>1 DEF StatusInv, StageInv, Queued, Current, CurrentReader, StatusAfterPassport
<1>2. CASE jobs' = <<>> /\ stage' = Recording
  BY <1>2 DEF StatusInv, StageInv, StatusAfterPassport
<1>3. ASSUME NEW job, jobs' = Append(jobs, job), stage' = stage PROVE StatusInv'
  <2>1. PICK S : jobs \in Seq(S)
    BY DEF AckInv, Shape, IsSeq
  <2>2. jobs \in Seq(S \union {job}) /\ jobs' \in Seq(S \union {job})
    BY <1>3, <2>1
  <2>3. jobs' # <<>> /\ (jobs # <<>> => Head(jobs') = Head(jobs))
    BY <1>3, <2>2
  <2>4. StageInv'
    <3>1. CASE jobs = <<>>
      BY <1>3, <2>3, <3>1 DEF StatusInv, StageInv, Recording
    <3>2. CASE jobs # <<>>
      BY <1>3, <2>3, <3>2 DEF StatusInv, StageInv, Queued, Current, CurrentReader
    <3>3. QED
      BY <3>1, <3>2
  <2>5. QED
    BY <2>4 DEF StatusInv, StatusAfterPassport
<1>4. QED
  BY <1>1, <1>2, <1>3

\* The thread moves on within its work, or ends it.
LEMMA ThreadKeepsStatus ==
    ASSUME StatusInv, queue' = [r \in Readers |-> queue'[r]],
           \A r \in Readers : IsSeq(queue'[r]),
           \A b : b[1] \in Readers /\ Queued(b) => Queued(b)',
           \A b \in informed' : b \in informed \/ (b[1] \in NeedCache => Queued(b)'),
           \/ jobs' = Tail(jobs) /\ stage' = Recording
           \/ jobs' = jobs /\ jobs # <<>> /\ stage'.step \in {"push", "post"}
              /\ (stage'.step = "post" /\ CurrentReader \in NeedCache => Queued(Current)')
    PROVE  StatusInv'
<1> USE ReaderAssumption
<1>1. StatusAfterPassport'
  BY DEF StatusInv, StatusAfterPassport, Queued
<1>2. StageInv'
  BY DEF StageInv, Recording, StatusInv, Current, CurrentReader, Queued
<1>3. QED
  BY <1>1, <1>2 DEF StatusInv

LEMMA ReaderKeepsStatus ==
    ASSUME AckInv, StatusInv, (\E r \in Readers : Reader(r)) \/ (\E h \in Handlers : Handler(h))
    PROVE  StatusInv'
<1>1. UNCHANGED <<queue, informed, stage>>
  BY DEF Reader, Enter, ReadTags, Fire, Unlist, Connect, DeliverTags, DeliverInput, Deliver,
         Handler, NextTag, Acknowledge, Hangup, process, data
<1>2. ASSUME NEW h, NEW tags, Proceed(h, tags) PROVE jobs' = jobs \/ \E job : jobs' = Append(jobs, job)
  BY <1>2 DEF Proceed, Submit
<1>3. jobs' = jobs \/ \E job : jobs' = Append(jobs, job)
  <2>1. ASSUME NEW r \in Readers, DeliverTags(r) \/ DeliverInput(r)
        PROVE  jobs' = jobs \/ \E job : jobs' = Append(jobs, job)
    BY <1>2, <2>1 DEF DeliverTags, DeliverInput, Submit
  <2>2. ASSUME NEW h \in Handlers, NextTag(h)
        PROVE  jobs' = jobs \/ \E job : jobs' = Append(jobs, job)
    BY <1>2, <2>2 DEF NextTag
  <2>3. ASSUME NEW r \in Readers, Enter(r) \/ ReadTags(r) \/ Fire(r) \/ Unlist(r) \/ Connect(r)
        PROVE  jobs' = jobs
    BY <2>3 DEF Enter, ReadTags, Fire, Unlist, Connect, process
  <2>4. ASSUME NEW h \in Handlers, Acknowledge(h) \/ Hangup(h) PROVE jobs' = jobs
    BY <2>4 DEF Acknowledge, Hangup
  <2>5. QED
    BY <2>1, <2>2, <2>3, <2>4 DEF Reader, Handler
<1>4. QED
  BY <1>1, <1>3, OthersKeepStatus

LEMMA WorkerKeepsStatus == ASSUME AckInv, StatusInv, Worker PROVE StatusInv'
<1>1. jobs # <<>>
  BY DEF Worker, Record, Push, Post, Sense, Now
<1>2. CurrentReader \in Readers /\ Current[1] = CurrentReader
  <2>1. Head(jobs) = jobs[1] /\ 1 \in 1 .. Len(jobs)
    BY <1>1, TailFacts DEF AckInv, Shape
  <2>2. QED
    BY <2>1 DEF AckInv, OneJobEach, Handlers, Current, CurrentReader
<1>3. \A status : EndEvent(status) => jobs' = Tail(jobs) /\ stage' = Recording
  BY DEF EndEvent
<1>4. Return => jobs' = Tail(jobs) /\ stage' = Recording
  BY DEF Return
<1>5. TellOrReturn =>
        \/ jobs' = Tail(jobs) /\ stage' = Recording
        \/ jobs' = jobs /\ stage'.step = "post"
  BY <1>4 DEF TellOrReturn, Advance, Attempt
<1>6. CASE queue' = queue /\ (Record \/ Sense)
  <2>1. informed' = informed
    BY <1>6 DEF Record, Sense
  <2>2. \/ jobs' = Tail(jobs) /\ stage' = Recording
        \/ jobs' = jobs /\ stage'.step = "push"
        \/ jobs' = jobs /\ stage'.step = "post" /\ CurrentReader \notin NeedCache
    BY <1>3, <1>4, <1>5, <1>6 DEF Record, Sense, ReturnError, MissingReader, FailedSensor, Advance, Pushing
  <2>3. \A b : Queued(b) => Queued(b)'
    BY <1>6 DEF Queued
  <2>4. QED
    BY <1>1, <1>6, <2>1, <2>2, <2>3, ThreadKeepsStatus DEF StatusInv
<1>7. CASE Push
  <2>1. informed' = informed
    BY <1>7 DEF Push
  <2>2. CASE queue' = queue /\ ReturnError
    <3>1. \A b : Queued(b) => Queued(b)'
      BY <2>2 DEF Queued
    <3>2. QED
      BY <1>4, <2>1, <2>2, <3>1, ThreadKeepsStatus DEF StatusInv, ReturnError
  <2>3. CASE /\ queue' = [queue EXCEPT ![CurrentReader] = Append(@, Current[2])]
             /\ TellOrReturn \/ ReturnError
    <3>1. PICK r \in Readers : r = CurrentReader
      BY <1>2
    <3>2. PICK n : n = Current[2]
      OBVIOUS
    <3>3. /\ queue' = [q \in Readers |-> queue'[q]]
          /\ queue'[r] = Append(queue[r], n)
          /\ \A q \in Readers : q # r => queue'[q] = queue[q]
      BY <2>3, <3>1, <3>2 DEF StatusInv
    <3>4. /\ IsSeq(queue'[r])
          /\ Len(queue[r]) \in Nat /\ Len(queue'[r]) = Len(queue[r]) + 1
          /\ queue'[r][Len(queue[r]) + 1] = n
          /\ \A i \in 1 .. Len(queue[r]) : queue'[r][i] = queue[r][i]
      BY <3>3, AppendFacts DEF StatusInv
    <3>5. \A q \in Readers : IsSeq(queue'[q])
      BY <3>3, <3>4 DEF StatusInv
    <3>6. ASSUME NEW b, b[1] \in Readers, Queued(b) PROVE Queued(b)'
      <4>1. CASE b[1] = r
        BY <3>4, <3>6, <4>1 DEF Queued, Contains
      <4>2. CASE b[1] # r
        BY <3>3, <3>6, <4>2 DEF Queued
      <4>3. QED
        BY <4>1, <4>2
    <3>7. jobs' = jobs => Queued(Current)'
      <4>1. Contains(queue'[r], n)
        BY <3>4 DEF Contains
      <4>2. jobs' = jobs => Current' = Current
        BY DEF Current
      <4>3. QED
        BY <1>2, <3>1, <3>2, <4>1, <4>2 DEF Queued
    <3>8. \/ jobs' = Tail(jobs) /\ stage' = Recording
          \/ jobs' = jobs /\ stage'.step = "post"
      BY <1>4, <1>5, <2>3 DEF ReturnError
    <3>9. QED
      BY <1>1, <2>1, <3>3, <3>5, <3>6, <3>7, <3>8, ThreadKeepsStatus
  <2>4. QED
    BY <1>7, <2>2, <2>3 DEF Push
<1>8. CASE Post
  <2>1. queue' = queue /\ informed' \in {informed, informed \union {Current}}
    BY <1>8 DEF Post
  <2>2. CurrentReader \in NeedCache => Queued(Current)
    BY <1>1, <1>8 DEF Post, Now, StatusInv, StageInv
  <2>3. \A b : Queued(b) => Queued(b)'
    BY <2>1 DEF Queued
  <2>4. \A b \in informed' : b \in informed \/ (b[1] \in NeedCache => Queued(b)')
    BY <1>2, <2>1, <2>2, <2>3
  <2>5. \/ jobs' = Tail(jobs) /\ stage' = Recording
        \/ jobs' = jobs /\ stage'.step = "post"
    BY <1>3, <1>4, <1>8 DEF Post, Advance, Attempt
  <2>6. jobs' = jobs => (CurrentReader \in NeedCache => Queued(Current)')
    BY <2>1, <2>2 DEF Queued, Current
  <2>7. QED
    BY <1>1, <2>1, <2>3, <2>4, <2>5, <2>6, ThreadKeepsStatus DEF StatusInv
<1>9. QED
  BY <1>6, <1>7, <1>8 DEF Worker, Record, Sense

LEMMA InitStatus == Init => StatusInv
<1>1. SUFFICES ASSUME Init PROVE StatusInv
  OBVIOUS
<1>2. /\ queue = [r \in Readers |-> <<>>]
      /\ jobs = <<>> /\ stage = Recording /\ informed = {}
  BY <1>1, Zenon DEF Init
<1> HIDE <1>1
<1>3. IsSeq(<<>>)
  BY DEF IsSeq
<1>4. \A r \in Readers : IsSeq(queue[r])
  BY <1>2, <1>3
<1>5. queue = [r \in Readers |-> queue[r]]
  BY <1>2
<1>6. StageInv /\ StatusAfterPassport
  BY <1>2 DEF StageInv, StatusAfterPassport
<1>7. QED
  BY <1>4, <1>5, <1>6 DEF StatusInv

LEMMA StatusInvariant == Spec => []StatusInv
<1>1. AckInv /\ StatusInv /\ [Next]_vars => StatusInv'
  <2>1. SUFFICES ASSUME AckInv, StatusInv, [Next]_vars PROVE StatusInv'
    OBVIOUS
  <2>2. CASE UNCHANGED vars
    BY <2>1, <2>2, OthersKeepStatus DEF vars, process, data
  <2>3. CASE (\E r \in Readers : Reader(r)) \/ (\E h \in Handlers : Handler(h))
    BY <2>1, <2>3, ReaderKeepsStatus
  <2>4. CASE Worker
    BY <2>1, <2>4, WorkerKeepsStatus
  <2>5. CASE Restart
    BY <2>1, <2>5, OthersKeepStatus DEF Restart, data
  <2>6. QED
    BY <2>1, <2>2, <2>3, <2>4, <2>5 DEF Next
<1>2. QED
  BY <1>1, InitAck, InitStatus, AckInvariant, PTL DEF Spec

\* For any number of readers and balloons: Miriada is never told that a balloon of a carousel is
\* being filled before its passport has joined the list (process_balloon_data_sync,
\* processing_request_with_nfc), whatever fails in between.
THEOREM StatusNeedsPassport == Spec => []StatusAfterPassport
<1>1. StatusInv => StatusAfterPassport
  BY DEF StatusInv
<1>2. QED
  BY <1>1, StatusInvariant, PTL

----------------------------------------------------------------------------
(* Induction over the numbers, and the filter as a run through the tags of an event *)

Less == {e \in Nat \X Nat : e[1] < e[2]}

\* A set of numbers has a least element.
LEMMA LeastNumber ==
    ASSUME NEW S, S \subseteq Nat, S # {}
    PROVE  \E m \in S : \A n \in S : m <= n
<1>1. OpToRel(<, Nat) = Less
  BY DEF OpToRel, Less
<1>2. IsWellFoundedOn(Less, Nat)
  BY <1>1, NatLessThanWellFounded
<1>3. \E m \in S : \A n \in S : <<n, m>> \notin Less
  BY <1>2, WFMin
<1>4. ASSUME NEW m \in Nat, NEW n \in Nat, <<n, m>> \notin Less PROVE m <= n
  <2>1. <<n, m>> \in Nat \X Nat
    OBVIOUS
  <2>2. ~(n < m)
    BY <1>4, <2>1 DEF Less
  <2>3. QED
    BY <2>2
<1>5. QED
  BY <1>3, <1>4

\* A set that has 0, and every number up to N whose predecessor it has, has them all.
LEMMA Induction ==
    ASSUME NEW N \in Nat, NEW S, 0 \in S, \A i \in 1 .. N : i - 1 \in S => i \in S
    PROVE  0 .. N \subseteq S
<1>1. SUFFICES ASSUME (0 .. N) \ S # {} PROVE FALSE
  OBVIOUS
<1>2. PICK m \in (0 .. N) \ S : \A n \in (0 .. N) \ S : m <= n
  <2> DEFINE T == (0 .. N) \ S
  <2>1. T \subseteq Nat /\ T # {}
    BY <1>1
  <2> HIDE DEF T
  <2>2. \E m \in T : \A n \in T : m <= n
    BY <2>1, LeastNumber
  <2>3. QED
    BY <2>2 DEF T
<1>3. m \in 1 .. N /\ m - 1 \in 0 .. N /\ ~(m <= m - 1)
  BY <1>2
<1>4. m - 1 \in S
  BY <1>2, <1>3
<1>5. QED
  BY <1>2, <1>3, <1>4

\* What the filter has after each tag of an event
FilterFrom(r, tags, f, N) ==
    f = [i \in 0 .. N |-> IF i = 0 THEN [known |-> recent[r], new |-> <<>>]
                          ELSE Filter(r, f[i - 1], tags[i])]

LEMMA FilterExists ==
    ASSUME NEW r, NEW tags, NEW N \in Nat
    PROVE  \E f : FilterFrom(r, tags, f, N)
<1> DEFINE S == {n \in 0 .. N : \E f : FilterFrom(r, tags, f, n)}
<1>1. 0 \in S
  <2> DEFINE f == [i \in 0 .. 0 |-> [known |-> recent[r], new |-> <<>>]]
  <2>1. FilterFrom(r, tags, f, 0)
    BY DEF FilterFrom
  <2>2. QED
    BY <2>1
<1>2. ASSUME NEW n \in 1 .. N, n - 1 \in S PROVE n \in S
  <2>1. PICK f : FilterFrom(r, tags, f, n - 1)
    BY <1>2
  <2> DEFINE g == [i \in 0 .. n |-> IF i < n THEN f[i] ELSE Filter(r, f[n - 1], tags[n])]
  <2>2. \A i \in 0 .. n - 1 : g[i] = f[i]
    OBVIOUS
  <2>3. g[n] = Filter(r, g[n - 1], tags[n])
    OBVIOUS
  <2>4. \A i \in 0 .. n - 1 : f[i] = IF i = 0 THEN [known |-> recent[r], new |-> <<>>]
                                     ELSE Filter(r, f[i - 1], tags[i])
    BY <2>1 DEF FilterFrom
  <2>5. \A i \in 0 .. n : g[i] = IF i = 0 THEN [known |-> recent[r], new |-> <<>>]
                                 ELSE Filter(r, g[i - 1], tags[i])
    BY <2>2, <2>3, <2>4
  <2>6. g = [i \in 0 .. n |-> g[i]]
    OBVIOUS
  <2> HIDE DEF g
  <2>7. FilterFrom(r, tags, g, n)
    BY <2>5, <2>6 DEF FilterFrom
  <2>8. QED
    BY <2>7
<1> HIDE DEF S
<1>3. N \in S
  BY <1>1, <1>2, Induction
<1>4. QED
  BY <1>3 DEF S

FilterRun(r, tags, after) ==
    /\ after[0] = [known |-> recent[r], new |-> <<>>]
    /\ \A i \in 1 .. Len(tags) : after[i] = Filter(r, after[i - 1], tags[i])
    /\ FilterDuplicates(r, tags) = after[Len(tags)]

LEMMA FilterSteps ==
    ASSUME NEW r, NEW tags, Len(tags) \in Nat
    PROVE  \E after : FilterRun(r, tags, after)
<1> DEFINE after == CHOOSE f : FilterFrom(r, tags, f, Len(tags))
<1>1. FilterFrom(r, tags, after, Len(tags))
  BY FilterExists
<1>2. FilterDuplicates(r, tags) = after[Len(tags)]
  BY DEF FilterDuplicates, FilterFrom
<1> HIDE DEF after
<1>3. /\ after[0] = [known |-> recent[r], new |-> <<>>]
      /\ \A i \in 1 .. Len(tags) : after[i] = Filter(r, after[i - 1], tags[i])
  BY <1>1 DEF FilterFrom
<1>4. QED
  BY <1>2, <1>3 DEF FilterRun

----------------------------------------------------------------------------
(* The recent tags *)

Distinct(s) == \A i, j \in 1 .. Len(s) : s[i] = s[j] => i = j

\* Of more than 2 (F - 1) different numbers above v - F, and none of them v, one is v + F
\* or more.
LEMMA OneIsFar ==
    ASSUME NEW F \in Nat \ {0}, NEW s \in Seq(Nat), Distinct(s), 2 * (F - 1) < Len(s),
           NEW v \in Nat, \A i \in 1 .. Len(s) : s[i] # v /\ s[i] + F > v
    PROVE  \E i \in 1 .. Len(s) : s[i] >= v + F
<1>1. SUFFICES ASSUME \A i \in 1 .. Len(s) : s[i] < v + F PROVE FALSE
  OBVIOUS
<1> DEFINE S == 1 .. Len(s)
           I == (v - F + 1) .. (v + F - 1)
           T == I \ {v}
           f == [i \in S |-> s[i]]
<1>2. IsFiniteSet(S) /\ Cardinality(S) = Len(s)
  <2>1. 1 \in Int /\ Len(s) \in Int /\ Len(s) >= 0
    OBVIOUS
  <2>2. IsFiniteSet(S) /\ Cardinality(S) = IF 1 > Len(s) THEN 0 ELSE Len(s) - 1 + 1
    BY <2>1, FS_Interval
  <2>3. QED
    BY <2>1, <2>2
<1>3. IsFiniteSet(I) /\ Cardinality(I) = 2 * F - 1
  <2>1. v - F + 1 \in Int /\ v + F - 1 \in Int /\ ~(v - F + 1 > v + F - 1)
    OBVIOUS
  <2>2. (v + F - 1) - (v - F + 1) + 1 = 2 * F - 1
    OBVIOUS
  <2>3. QED
    BY <2>1, <2>2, FS_Interval
<1>4. IsFiniteSet(T) /\ Cardinality(T) = 2 * F - 2
  <2>1. v \in I
    OBVIOUS
  <2> HIDE DEF I
  <2>2. IsFiniteSet(T) /\ Cardinality(T) = Cardinality(I) - 1
    BY <1>3, <2>1, FS_RemoveElement
  <2>3. QED
    BY <1>3, <2>2
<1>5. f \in [S -> T] /\ \A i \in S : f[i] = s[i]
  BY <1>1
<1>6. Cardinality(T) < Cardinality(S)
  BY <1>2, <1>4
<1> HIDE DEF S, T, f
<1>7. \E x, y \in S : x # y /\ f[x] = f[y]
  BY <1>2, <1>4, <1>5, <1>6, FS_PigeonHole
<1>8. QED
  BY <1>5, <1>7 DEF S, Distinct

\* The tags of the event of a reader; a balloon is counted once where the deque holds what
\* may be in the field before a balloon and behind it
TagsOf(r) == IF event[r].kind = "tags" THEN event[r].tags ELSE <<>>
Fitting(r) == 2 * (FieldSize[r] - 1) < WINDOW[r]

\* t entered the field while n could still be in it
Near(r, t, n) == t + FieldSize[r] > n

\* No event will have n any more
Gone(r, n) == n + FieldSize[r] <= passed[r] /\ ~Contains(TagsOf(r), n)

\* The recent tags: different ones that passed; the later ones entered while the earlier were there
Deque(r, s) ==
    /\ s \in Seq(1 .. passed[r])
    /\ Len(s) <= WINDOW[r]
    /\ Distinct(s)
    /\ \A i, j \in 1 .. Len(s) : i < j => Near(r, s[j], s[i])

\* The tags of the event were in the field together, and behind all recent ones or with them
TogetherWith(r, s) ==
    \A i \in 1 .. Len(TagsOf(r)), j \in 1 .. Len(s) : Near(r, TagsOf(r)[i], s[j])

RecentOK(r) ==
    /\ Deque(r, recent[r])
    /\ TagsOf(r) \in Seq(1 .. passed[r])
    /\ Distinct(TagsOf(r))
    /\ TogetherWith(r, TagsOf(r))
    /\ TogetherWith(r, recent[r])

\* What the filter has made of some of the tags of an event
Sound(r, acc) ==
    /\ Deque(r, acc.known)
    /\ TogetherWith(r, acc.known)
    /\ acc.new \in Seq(1 .. passed[r])
    /\ \A i \in 1 .. Len(acc.new) : Contains(TagsOf(r), acc.new[i])

\* And where the deque is long enough
Exact(r, acc) ==
    /\ Distinct(acc.new)
    /\ \A i \in 1 .. Len(acc.new) : ~Contains(recent[r], acc.new[i])
    /\ \A n : Contains(recent[r], n) \/ Contains(acc.new, n) => Contains(acc.known, n) \/ Gone(r, n)

LEMMA ElementFacts ==
    ASSUME NEW S, NEW s \in Seq(S)
    PROVE  Len(s) \in Nat /\ \A i \in 1 .. Len(s) : s[i] \in S
  OBVIOUS

\* An append to the deque: one more, or the first one is forgotten
Shifted(s, x, t, d) ==
    /\ Len(t) = Len(s) + 1 - d /\ Len(t) \in Nat \ {0}
    /\ t[Len(t)] = x
    /\ \A i \in 1 .. Len(t) - 1 : t[i] = s[i + d] /\ i + d \in 1 .. Len(s)

LEMMA RememberedFacts ==
    ASSUME NEW r \in Readers, NEW S, NEW s \in Seq(S), Len(s) <= WINDOW[r], NEW x \in S,
           NEW t, t = Remembered(r, s, x), NEW d, d = IF Len(s) < WINDOW[r] THEN 0 ELSE 1
    PROVE  t \in Seq(S) /\ Len(t) <= WINDOW[r] /\ Shifted(s, x, t, d)
<1> USE BoundAssumption
<1>1. WINDOW[r] \in Nat \ {0} /\ Len(s) \in Nat
  OBVIOUS
<1>2. CASE Len(s) < WINDOW[r]
  <2>1. Append(s, x) \in Seq(S)
    OBVIOUS
  <2>2. QED
    BY <1>1, <1>2, <2>1 DEF Remembered, Shifted
<1>3. CASE ~(Len(s) < WINDOW[r])
  <2>1. Len(s) = WINDOW[r] /\ s # <<>>
    BY <1>1, <1>3
  <2>2. /\ Tail(s) \in Seq(S) /\ Len(Tail(s)) = Len(s) - 1
        /\ \A i \in 1 .. Len(s) - 1 : Tail(s)[i] = s[i + 1]
    BY <2>1
  <2>3. PICK u \in Seq(S) : u = Tail(s)
    BY <2>2
  <2>4. /\ Append(u, x) \in Seq(S) /\ Len(Append(u, x)) = Len(u) + 1
        /\ Append(u, x)[Len(u) + 1] = x /\ \A i \in 1 .. Len(u) : Append(u, x)[i] = u[i]
    OBVIOUS
  <2>5. QED
    BY <1>1, <1>3, <2>1, <2>2, <2>3, <2>4 DEF Remembered, Shifted
<1>4. QED
  BY <1>2, <1>3

\* Who is remembered last was in the field with all the others of the deque, or behind them.
LEMMA RememberedDeque ==
    ASSUME NEW r \in Readers, passed[r] \in Nat, RecentOK(r),
           NEW s, Deque(r, s), TogetherWith(r, s),
           NEW k \in 1 .. Len(TagsOf(r)), ~Contains(s, TagsOf(r)[k]),
           NEW t, t = Remembered(r, s, TagsOf(r)[k])
    PROVE  /\ Deque(r, t) /\ TogetherWith(r, t) /\ Contains(t, TagsOf(r)[k])
           /\ \A n : Contains(s, n) => Contains(t, n) \/ (Fitting(r) => Gone(r, n))
<1> USE ReaderAssumption, BoundAssumption
<1>0. PICK x : t = Remembered(r, s, x) /\ x = TagsOf(r)[k]
  OBVIOUS
<1>1. /\ FieldSize[r] \in Nat \ {0} /\ WINDOW[r] \in Nat \ {0}
      /\ x \in 1 .. passed[r] /\ s \in Seq(1 .. passed[r]) /\ Len(s) \in Nat /\ Len(s) <= WINDOW[r]
      /\ \A i \in 1 .. Len(s) : s[i] \in 1 .. passed[r]
      /\ \A i \in 1 .. Len(TagsOf(r)) : TagsOf(r)[i] \in 1 .. passed[r]
  <2>1. TagsOf(r) \in Seq(1 .. passed[r]) /\ s \in Seq(1 .. passed[r]) /\ Len(s) <= WINDOW[r]
    BY DEF RecentOK, Deque
  <2>2. PICK u : u = TagsOf(r)
    OBVIOUS
  <2>3. x \in 1 .. passed[r] /\ \A i \in 1 .. Len(u) : u[i] \in 1 .. passed[r]
    BY <1>0, <2>1, <2>2, ElementFacts
  <2>4. Len(s) \in Nat /\ \A i \in 1 .. Len(s) : s[i] \in 1 .. passed[r]
    BY <2>1, ElementFacts
  <2>5. QED
    BY <2>1, <2>2, <2>3, <2>4
<1>a. PICK d : d = IF Len(s) < WINDOW[r] THEN 0 ELSE 1
  OBVIOUS
<1>2. /\ t \in Seq(1 .. passed[r]) /\ Len(t) = Len(s) + 1 - d /\ Len(t) <= WINDOW[r]
      /\ Len(t) \in Nat \ {0} /\ t[Len(t)] = x
      /\ \A i \in 1 .. Len(t) - 1 : t[i] = s[i + d] /\ i + d \in 1 .. Len(s)
  <2>1. PICK S : S = 1 .. passed[r]
    OBVIOUS
  <2>2. s \in Seq(S) /\ x \in S /\ Len(s) <= WINDOW[r]
    BY <1>1, <2>1
  <2>3. t \in Seq(S) /\ Len(t) <= WINDOW[r] /\ Shifted(s, x, t, d)
    BY <1>0, <1>a, <2>2, RememberedFacts
  <2>4. QED
    BY <2>1, <2>3 DEF Shifted
<1>3. d \in {0, 1}
  BY <1>a
<1>4. \A i \in 1 .. Len(t) : i = Len(t) \/ i \in 1 .. Len(t) - 1
  BY <1>2
<1>5. \A i \in 1 .. Len(s) : s[i] # x
  BY <1>0 DEF Contains
<1>6. Distinct(t)
  <2>1. SUFFICES ASSUME NEW i \in 1 .. Len(t), NEW j \in 1 .. Len(t), t[i] = t[j] PROVE i = j
    BY DEF Distinct
  <2>2. CASE i \in 1 .. Len(t) - 1 /\ j \in 1 .. Len(t) - 1
    <3>1. s[i + d] = s[j + d] /\ i + d \in 1 .. Len(s) /\ j + d \in 1 .. Len(s)
      BY <1>2, <2>1, <2>2
    <3>2. i + d = j + d
      BY <3>1 DEF Deque, Distinct
    <3>3. QED
      BY <1>3, <3>2
  <2>3. CASE i = Len(t) \/ j = Len(t)
    BY <1>2, <1>4, <1>5, <2>1, <2>3
  <2>4. QED
    BY <1>4, <2>2, <2>3
<1>7. TogetherWith(r, t)
  <2>1. SUFFICES ASSUME NEW i \in 1 .. Len(TagsOf(r)), NEW j \in 1 .. Len(t)
                 PROVE  Near(r, TagsOf(r)[i], t[j])
    BY DEF TogetherWith
  <2>2. CASE j = Len(t)
    BY <1>0, <1>2, <2>2 DEF RecentOK, TogetherWith
  <2>3. CASE j \in 1 .. Len(t) - 1
    BY <1>2, <2>3 DEF TogetherWith
  <2>4. QED
    BY <1>4, <2>2, <2>3
<1>8. \A i, j \in 1 .. Len(t) : i < j => Near(r, t[j], t[i])
  <2>1. SUFFICES ASSUME NEW i \in 1 .. Len(t), NEW j \in 1 .. Len(t), i < j PROVE Near(r, t[j], t[i])
    OBVIOUS
  <2>2. CASE j = Len(t)
    BY <1>0, <1>2, <1>7, <2>2 DEF TogetherWith, RecentOK
  <2>3. CASE j \in 1 .. Len(t) - 1
    <3>1. i \in 1 .. Len(t) - 1 /\ i + d < j + d
      <4>1. PICK last \in Nat : last = Len(t)
        BY <1>2
      <4>2. i \in 1 .. last - 1
        BY <2>1, <2>3, <4>1
      <4>3. i + d < j + d
        BY <1>3, <2>1, <4>1
      <4>4. QED
        BY <4>1, <4>2, <4>3
    <3>2. t[i] = s[i + d] /\ t[j] = s[j + d] /\ i + d \in 1 .. Len(s) /\ j + d \in 1 .. Len(s)
      BY <1>2, <2>3, <3>1
    <3>3. QED
      BY <3>1, <3>2 DEF Deque
  <2>4. QED
    BY <1>4, <2>2, <2>3
<1>9. Deque(r, t)
  BY <1>2, <1>6, <1>8 DEF Deque
<1>10. Contains(t, x)
  BY <1>2 DEF Contains
<1>11. ASSUME NEW n, Contains(s, n), ~Contains(t, n), Fitting(r) PROVE Gone(r, n)
  <2>1. PICK i \in 1 .. Len(s) : s[i] = n
    BY <1>11 DEF Contains
  <2>2. n \in 1 .. passed[r]
    BY <1>1, <2>1
  <2>3. d = 1 /\ i = 1 /\ Len(t) = WINDOW[r]
    <3>1. \A j \in 1 .. Len(t) : t[j] # n
      BY <1>11 DEF Contains
    <3>2. ~(i - d \in 1 .. Len(t) - 1)
      <4>1. ASSUME NEW j \in 1 .. Len(t) - 1, j = i - d PROVE FALSE
        <5>1. j + d = i
          BY <1>1, <1>3, <4>1
        <5>2. t[j] = s[j + d]
          BY <1>2
        <5>3. j \in 1 .. Len(t)
          BY <1>2
        <5>4. QED
          BY <2>1, <3>1, <5>1, <5>2, <5>3
      <4>2. QED
        BY <4>1
    <3>3. d = 1 /\ i = 1
      BY <1>1, <1>2, <1>3, <2>1, <3>2
    <3>4. QED
      BY <1>1, <1>2, <1>a, <3>3
  <2>4. ASSUME NEW j \in 1 .. Len(t) PROVE t[j] # n /\ t[j] + FieldSize[r] > n
    <3>1. t[j] # n
      BY <1>11 DEF Contains
    <3>2. CASE j = Len(t)
      BY <1>0, <1>2, <2>1, <3>1, <3>2 DEF TogetherWith, Near
    <3>3. CASE j \in 1 .. Len(t) - 1
      <4>1. t[j] = s[j + 1] /\ j + 1 \in 1 .. Len(s) /\ 1 < j + 1
        BY <1>2, <2>3, <3>3
      <4>2. Near(r, s[j + 1], s[1])
        BY <2>1, <2>3, <4>1 DEF Deque
      <4>3. QED
        BY <2>1, <2>3, <3>1, <4>1, <4>2 DEF Near
    <3>4. QED
      BY <1>4, <3>2, <3>3
  <2>5. t \in Seq(Nat) /\ n \in Nat /\ 2 * (FieldSize[r] - 1) < Len(t)
    BY <1>2, <1>11, <2>2, <2>3 DEF Fitting
  <2>6. PICK j \in 1 .. Len(t) : t[j] >= n + FieldSize[r]
    BY <1>1, <1>6, <2>4, <2>5, OneIsFar
  <2>7. t[j] \in 1 .. passed[r]
    BY <1>2, ElementFacts, Zenon
  <2>8. n + FieldSize[r] <= passed[r]
    BY <1>1, <2>2, <2>6, <2>7, SMTT(20)
  <2>9. ASSUME NEW m \in 1 .. Len(TagsOf(r)), TagsOf(r)[m] = n PROVE FALSE
    <3>1. Near(r, n, t[j])
      BY <1>7, <2>9 DEF TogetherWith
    <3>2. QED
      BY <1>1, <2>2, <2>6, <2>7, <3>1 DEF Near
  <2>10. QED
    BY <2>8, <2>9 DEF Gone, Contains
<1>12. QED
  BY <1>0, <1>7, <1>9, <1>10, <1>11

LEMMA FilterStep ==
    ASSUME NEW r \in Readers, passed[r] \in Nat, RecentOK(r), NEW acc, Sound(r, acc),
           NEW k \in 1 .. Len(TagsOf(r)), NEW next, next = Filter(r, acc, TagsOf(r)[k])
    PROVE  Sound(r, next) /\ (Fitting(r) /\ Exact(r, acc) => Exact(r, next))
<1> DEFINE x == TagsOf(r)[k]
<1>1. x \in 1 .. passed[r] /\ Contains(TagsOf(r), x)
  BY DEF RecentOK, Contains
<1>2. CASE Contains(acc.known, x)
  BY <1>2 DEF Filter
<1>3. CASE ~Contains(acc.known, x)
  <2>1. PICK t : t = Remembered(r, acc.known, x)
    OBVIOUS
  <2>2. next.known = t /\ next.new = Append(acc.new, x)
    BY <1>3, <2>1 DEF Filter
  <2>3. /\ Deque(r, t) /\ TogetherWith(r, t) /\ Contains(t, x)
        /\ \A n : Contains(acc.known, n) => Contains(t, n) \/ (Fitting(r) => Gone(r, n))
    <3>1. PICK s : s = acc.known
      OBVIOUS
    <3>2. Deque(r, s) /\ TogetherWith(r, s) /\ ~Contains(s, x) /\ t = Remembered(r, s, x)
      BY <1>3, <2>1, <3>1 DEF Sound
    <3>3. /\ Deque(r, t) /\ TogetherWith(r, t) /\ Contains(t, x)
          /\ \A n : Contains(s, n) => Contains(t, n) \/ (Fitting(r) => Gone(r, n))
      BY <3>2, RememberedDeque
    <3>4. QED
      BY <3>1, <3>3
  <2> HIDE DEF x
  <2>4. PICK new, more : new = acc.new /\ more = next.new
    OBVIOUS
  <2>5. /\ new \in Seq(1 .. passed[r]) /\ more = Append(new, x)
        /\ \A i \in 1 .. Len(new) : Contains(TagsOf(r), new[i])
    BY <2>2, <2>4 DEF Sound
  <2>6. /\ more \in Seq(1 .. passed[r]) /\ Len(new) \in Nat /\ Len(more) = Len(new) + 1
        /\ more[Len(new) + 1] = x /\ \A i \in 1 .. Len(new) : more[i] = new[i]
    BY <1>1, <2>5
  <2>7. \A i \in 1 .. Len(more) : i = Len(new) + 1 \/ i \in 1 .. Len(new)
    BY <2>6
  <2>8. Sound(r, next)
    BY <1>1, <2>2, <2>3, <2>4, <2>5, <2>6, <2>7 DEF Sound
  <2>9. ASSUME Fitting(r), Exact(r, acc) PROVE Exact(r, next)
    <3>1. /\ Distinct(new)
          /\ \A i \in 1 .. Len(new) : ~Contains(recent[r], new[i])
          /\ \A n : Contains(recent[r], n) \/ Contains(new, n) => Contains(acc.known, n) \/ Gone(r, n)
      BY <2>4, <2>9 DEF Exact
    <3>2. ~Contains(recent[r], x) /\ ~Contains(new, x)
      BY <1>1, <1>3, <3>1 DEF Gone, x
    <3>3. \A i \in 1 .. Len(more) : ~Contains(recent[r], more[i])
      BY <2>6, <2>7, <3>1, <3>2
    <3>4. \A i \in 1 .. Len(new) : new[i] # x
      BY <3>2 DEF Contains
    <3>5. Distinct(more)
      BY <2>6, <2>7, <3>1, <3>4 DEF Distinct
    <3>6. ASSUME NEW n, Contains(more, n) PROVE Contains(new, n) \/ n = x
      BY <2>6, <2>7, <3>6 DEF Contains
    <3>7. \A n : Contains(recent[r], n) \/ Contains(more, n) => Contains(t, n) \/ Gone(r, n)
      BY <2>3, <2>9, <3>1, <3>6
    <3>8. QED
      BY <2>2, <2>4, <3>3, <3>5, <3>7 DEF Exact
  <2>10. QED
    BY <2>8, <2>9
<1>4. QED
  BY <1>2, <1>3

\* The filter gives new tags of the event and a deque that is as good as before; where it is long
\* enough, the new ones are different, were not remembered, and stay so while they can come.
LEMMA FilterFacts ==
    ASSUME NEW r \in Readers, passed[r] \in Nat, RecentOK(r)
    PROVE  LET filtered == FilterDuplicates(r, TagsOf(r))
           IN  Sound(r, filtered) /\ (Fitting(r) => Exact(r, filtered))
<1>1. Len(TagsOf(r)) \in Nat
  BY DEF RecentOK
<1>2. PICK after :
          /\ FilterDuplicates(r, TagsOf(r)) = after[Len(TagsOf(r))]
          /\ after[0] = [known |-> recent[r], new |-> <<>>]
          /\ \A i \in 1 .. Len(TagsOf(r)) : after[i] = Filter(r, after[i - 1], TagsOf(r)[i])
  <2>1. PICK tags : tags = TagsOf(r)
    OBVIOUS
  <2>2. \E after : FilterRun(r, tags, after)
    BY <1>1, <2>1, FilterSteps
  <2>3. QED
    BY <2>1, <2>2 DEF FilterRun
<1> DEFINE S == {i \in 0 .. Len(TagsOf(r)) :
                    Sound(r, after[i]) /\ (Fitting(r) => Exact(r, after[i]))}
<1>3. 0 \in S
  <2>1. after[0].known = recent[r] /\ after[0].new = <<>>
    BY <1>2
  <2>2. Sound(r, after[0])
    BY <2>1 DEF Sound, RecentOK
  <2>3. Exact(r, after[0])
    BY <2>1 DEF Exact, Distinct, Contains
  <2>4. QED
    BY <1>1, <2>2, <2>3
<1>4. ASSUME NEW i \in 1 .. Len(TagsOf(r)), i - 1 \in S PROVE i \in S
  <2>1. Sound(r, after[i - 1]) /\ (Fitting(r) => Exact(r, after[i - 1]))
    BY <1>4
  <2>2. Sound(r, after[i]) /\ (Fitting(r) => Exact(r, after[i]))
    BY <1>2, <2>1, FilterStep
  <2>3. QED
    BY <1>1, <2>2
<1> HIDE DEF S
<1>5. Len(TagsOf(r)) \in S
  <2>1. 0 .. Len(TagsOf(r)) \subseteq S
    BY <1>1, <1>3, <1>4, Induction
  <2>2. QED
    BY <1>1, <2>1
<1>6. QED
  BY <1>2, <1>5 DEF S

----------------------------------------------------------------------------
(* The readers and their recent tags *)

EventOK(e) == e = NoEvent \/ e.kind = "tags" \/ \E n \in Numbers : e = Input(n)

PlantOK ==
    /\ passed \in [Readers -> 0 .. MaxBalloons]
    /\ coming \in [balloons : [Readers -> 0 .. MaxBalloons],
                   firings : [Readers -> 0 .. MaxBalloons], restarts : Nat, removals : SUBSET Readers]
    /\ \A r \in Readers : passed[r] + coming.balloons[r] <= MaxBalloons
    /\ event = [r \in Readers |-> event[r]]
    /\ \A r \in Readers : EventOK(event[r])
    /\ recent = [r \in Readers |-> recent[r]]
    /\ \A r \in Readers : RecentOK(r)

LEMMA WiderSeq ==
    ASSUME NEW M \in Nat, NEW N \in Nat, M <= N, NEW s \in Seq(1 .. M)
    PROVE  s \in Seq(1 .. N)
<1>1. Len(s) \in Nat /\ s \in [1 .. Len(s) -> 1 .. M]
  OBVIOUS
<1>2. s \in [1 .. Len(s) -> 1 .. N]
  BY <1>1
<1>3. QED
  BY <1>1, <1>2

\* A reader whose deque and tags stay, while more balloons pass.
LEMMA RecentGrows ==
    ASSUME NEW r \in Readers, RecentOK(r), recent'[r] = recent[r],
           passed[r] \in Nat, passed'[r] \in Nat, passed[r] <= passed'[r],
           TagsOf(r)' \in {TagsOf(r), <<>>}
    PROVE  RecentOK(r)'
<1>1. TagsOf(r)' \in Seq(1 .. passed[r])' /\ recent[r]' \in Seq(1 .. passed[r])'
  <2>1. <<>> \in Seq(1 .. passed'[r])
    OBVIOUS
  <2>2. TagsOf(r) \in Seq(1 .. passed'[r]) /\ recent[r] \in Seq(1 .. passed'[r])
    BY WiderSeq DEF RecentOK, Deque
  <2>3. QED
    BY <2>1, <2>2
<1>2. CASE TagsOf(r)' = TagsOf(r)
  BY <1>1, <1>2 DEF RecentOK, Deque, Distinct, TogetherWith, Near
<1>3. CASE TagsOf(r)' = <<>>
  BY <1>1, <1>3 DEF RecentOK, Deque, Distinct, TogetherWith, Near
<1>4. QED
  BY <1>2, <1>3

LEMMA EnterPlant == ASSUME PlantOK, NEW r \in Readers, Enter(r) PROVE PlantOK'
<1> USE BoundAssumption
<1>1. /\ UNCHANGED <<event, recent>>
      /\ coming.balloons[r] > 0
      /\ coming' = [coming EXCEPT !.balloons[r] = @ - 1]
      /\ passed' = [passed EXCEPT ![r] = @ + 1]
  BY DEF Enter, device, process
<1>2. /\ coming.balloons \in [Readers -> 0 .. MaxBalloons]
      /\ passed[r] + coming.balloons[r] <= MaxBalloons
      /\ passed[r] \in 0 .. MaxBalloons /\ coming.balloons[r] \in 0 .. MaxBalloons
  BY DEF PlantOK
<1>3. passed' \in [Readers -> 0 .. MaxBalloons]
  BY <1>1, <1>2 DEF PlantOK
<1>4. /\ coming'.balloons = [coming.balloons EXCEPT ![r] = @ - 1]
      /\ coming'.firings = coming.firings /\ coming'.restarts = coming.restarts
      /\ coming'.removals = coming.removals
      /\ coming' = [coming EXCEPT !.balloons = coming'.balloons]
  BY <1>1 DEF PlantOK
<1>5. coming'.balloons \in [Readers -> 0 .. MaxBalloons]
  BY <1>1, <1>2, <1>4
<1>6. coming' \in [balloons : [Readers -> 0 .. MaxBalloons],
                   firings : [Readers -> 0 .. MaxBalloons], restarts : Nat, removals : SUBSET Readers]
  BY <1>4, <1>5 DEF PlantOK
<1>7. ASSUME NEW q \in Readers PROVE passed'[q] + coming'.balloons[q] <= MaxBalloons
  BY <1>1, <1>2, <1>4 DEF PlantOK
<1>8. ASSUME NEW q \in Readers PROVE RecentOK(q)'
  <2>1. /\ RecentOK(q) /\ recent'[q] = recent[q] /\ passed[q] \in Nat /\ passed'[q] \in Nat
        /\ passed[q] <= passed'[q]
    BY <1>1, <1>2 DEF PlantOK
  <2>2. TagsOf(q)' = TagsOf(q)
    BY <1>1 DEF TagsOf
  <2>3. QED
    BY <2>1, <2>2, RecentGrows
<1>9. QED
  BY <1>1, <1>3, <1>6, <1>7, <1>8 DEF PlantOK

\* The tags of a reading are in the field together, and no recent one is far ahead of them.
LEMMA ReadingFacts ==
    ASSUME NEW r \in Readers, passed[r] \in Nat, RecentOK(r), NEW s \in Readings(r)
    PROVE  /\ s \in Seq(1 .. passed[r]) /\ Distinct(s)
           /\ FieldSize[r] = 1 => Len(s) <= 1
           /\ \A i \in 1 .. Len(s) :
               /\ s[i] + FieldSize[r] > passed[r]
               /\ \A j \in 1 .. Len(s) : Near(r, s[i], s[j])
               /\ \A j \in 1 .. Len(recent[r]) : Near(r, s[i], recent[r][j])
<1> USE ReaderAssumption
<1>1. PICK S \in SUBSET Field(r) : s \in [1 .. Cardinality(S) -> S] /\ IsInjective(s)
  BY DEF Readings
<1>2. Field(r) \subseteq 1 .. passed[r] /\ \A n \in Field(r) : n + FieldSize[r] > passed[r]
  BY DEF Field
<1>3. IsFiniteSet(S) /\ Cardinality(S) \in Nat /\ (FieldSize[r] = 1 => Cardinality(S) <= 1)
  <2>1. IsFiniteSet(1 .. passed[r])
    BY FS_Interval
  <2>2. IsFiniteSet(S)
    BY <1>2, <2>1, FS_Subset
  <2>3. Cardinality(S) \in Nat
    BY <2>2, FS_CardinalityType
  <2>4. ASSUME FieldSize[r] = 1 PROVE Cardinality(S) <= 1
    <3>1. S \in SUBSET {passed[r]}
      BY <1>2, <2>4
    <3>2. IsFiniteSet({passed[r]}) /\ Cardinality({passed[r]}) = 1
      BY FS_Singleton
    <3>3. QED
      BY <3>1, <3>2, FS_Subset
  <2>5. QED
    BY <2>2, <2>3, <2>4
<1>4. s \in Seq(1 .. passed[r]) /\ Len(s) = Cardinality(S) /\ \A i \in 1 .. Len(s) : s[i] \in Field(r)
  <2>1. s \in Seq(S) /\ Len(s) = Cardinality(S)
    BY <1>1, <1>3
  <2>2. s \in [1 .. Cardinality(S) -> 1 .. passed[r]]
    BY <1>1, <1>2
  <2>3. QED
    BY <1>1, <1>3, <2>1, <2>2, SMTT(20)
<1>5. Distinct(s)
  BY <1>1, <1>4 DEF Distinct, IsInjective
<1>6. ASSUME NEW i \in 1 .. Len(s)
      PROVE  /\ s[i] + FieldSize[r] > passed[r]
             /\ \A j \in 1 .. Len(s) : Near(r, s[i], s[j])
             /\ \A j \in 1 .. Len(recent[r]) : Near(r, s[i], recent[r][j])
  <2>1. s[i] + FieldSize[r] > passed[r] /\ s[i] \in 1 .. passed[r]
    BY <1>2, <1>4
  <2>2. ASSUME NEW n \in 1 .. passed[r] PROVE Near(r, s[i], n)
    BY <2>1 DEF Near
  <2>3. \A j \in 1 .. Len(s) : s[j] \in 1 .. passed[r]
    BY <1>2, <1>4
  <2>4. \A j \in 1 .. Len(recent[r]) : recent[r][j] \in 1 .. passed[r]
    BY ElementFacts DEF RecentOK, Deque
  <2>5. QED
    BY <2>1, <2>2, <2>3, <2>4
<1>7. QED
  BY <1>3, <1>4, <1>5, <1>6

LEMMA ReadPlant == ASSUME PlantOK, NEW r \in Readers, ReadTags(r) PROVE PlantOK'
<1>1. UNCHANGED <<passed, coming, recent>>
  BY DEF ReadTags, plant, process
<1>2. PICK s \in Readings(r) : event' = [event EXCEPT ![r] = TagRead(s)]
  BY DEF ReadTags
<1>3. /\ event' = [q \in Readers |-> event'[q]]
      /\ event'[r] = TagRead(s) /\ \A q \in Readers : q # r => event'[q] = event[q]
  BY <1>2 DEF PlantOK
<1>4. event'[r].kind = "tags" /\ TagsOf(r)' = s
  BY <1>3 DEF TagRead, TagsOf
<1>5. RecentOK(r) /\ passed[r] \in Nat
  BY DEF PlantOK
<1>6. RecentOK(r)'
  BY <1>1, <1>4, <1>5, ReadingFacts DEF RecentOK, Deque, TogetherWith, Near
<1>7. ASSUME NEW q \in Readers PROVE RecentOK(q)' /\ EventOK(event[q])'
  <2>1. CASE q = r
    BY <1>4, <1>6, <2>1 DEF EventOK
  <2>2. CASE q # r
    BY <1>1, <1>3, <2>2 DEF PlantOK, RecentOK, Deque, TogetherWith, Near, TagsOf
  <2>3. QED
    BY <2>1, <2>2
<1>8. QED
  BY <1>1, <1>3, <1>7 DEF PlantOK

\* Another event than tags: of the sensor, or none.
LEMMA OtherEvent ==
    ASSUME PlantOK, NEW r \in Readers, NEW e, EventOK(e), e.kind # "tags",
           event' = [event EXCEPT ![r] = e], UNCHANGED <<passed, recent>>
    PROVE  /\ event' = [q \in Readers |-> event'[q]]
           /\ \A q \in Readers : RecentOK(q)' /\ EventOK(event[q])'
           /\ \A q \in Readers : TagsOf(q)' \in {TagsOf(q), <<>>}
<1>1. /\ event' = [q \in Readers |-> event'[q]]
      /\ event'[r] = e /\ \A q \in Readers : q # r => event'[q] = event[q]
  BY DEF PlantOK
<1>2. ASSUME NEW q \in Readers PROVE TagsOf(q)' \in {TagsOf(q), <<>>} /\ EventOK(event[q])'
  BY <1>1 DEF TagsOf, PlantOK
<1>3. ASSUME NEW q \in Readers PROVE RecentOK(q)'
  BY <1>2, RecentGrows DEF PlantOK
<1>4. QED
  BY <1>1, <1>2, <1>3

LEMMA FirePlant == ASSUME PlantOK, NEW r \in Readers, Fire(r) PROVE PlantOK'
<1> USE BoundAssumption
<1>1. /\ UNCHANGED <<passed, recent>> /\ coming.firings[r] > 0
      /\ coming' = [coming EXCEPT !.firings[r] = @ - 1]
      /\ event' = [event EXCEPT ![r] = Input(coming.firings[r])]
  BY DEF Fire, process
<1>2. coming.firings \in [Readers -> 0 .. MaxBalloons] /\ coming.firings[r] \in Numbers
  BY <1>1 DEF PlantOK, Numbers
<1>3. EventOK(Input(coming.firings[r])) /\ Input(coming.firings[r]).kind # "tags"
  BY <1>2 DEF EventOK, Input
<1>4. /\ event' = [q \in Readers |-> event'[q]]
      /\ \A q \in Readers : RecentOK(q)' /\ EventOK(event[q])'
  <2>1. PICK e : e = Input(coming.firings[r])
    OBVIOUS
  <2>2. QED
    BY <1>1, <1>3, <2>1, OtherEvent
<1>5. /\ coming'.firings = [coming.firings EXCEPT ![r] = @ - 1]
      /\ coming'.balloons = coming.balloons /\ coming'.restarts = coming.restarts
      /\ coming'.removals = coming.removals
      /\ coming' = [coming EXCEPT !.firings = coming'.firings]
  BY <1>1 DEF PlantOK
<1>6. coming'.firings \in [Readers -> 0 .. MaxBalloons]
  BY <1>1, <1>2, <1>5
<1>7. coming' \in [balloons : [Readers -> 0 .. MaxBalloons],
                   firings : [Readers -> 0 .. MaxBalloons], restarts : Nat, removals : SUBSET Readers]
  BY <1>5, <1>6 DEF PlantOK
<1>8. QED
  BY <1>1, <1>4, <1>5, <1>7 DEF PlantOK

LEMMA UnlistPlant == ASSUME PlantOK, NEW r \in Readers, Unlist(r) PROVE PlantOK'
<1>1. /\ UNCHANGED <<passed, event, recent>>
      /\ coming' = [coming EXCEPT !.removals = @ \ {r}]
  BY DEF Unlist, device, process
<1>2. /\ coming' \in [balloons : [Readers -> 0 .. MaxBalloons],
                      firings : [Readers -> 0 .. MaxBalloons], restarts : Nat, removals : SUBSET Readers]
      /\ coming'.balloons = coming.balloons
  BY <1>1 DEF PlantOK
<1>3. QED
  BY <1>1, <1>2 DEF PlantOK, RecentOK, Deque, TogetherWith, Near, TagsOf

LEMMA AcknowledgePlant ==
    ASSUME PlantOK, NEW h \in Handlers, Acknowledge(h)
    PROVE  PlantOK' /\ \A q \in Readers : TagsOf(q)' \in {TagsOf(q), <<>>}
<1>1. UNCHANGED <<passed, coming, recent>> /\ h[1] \in Readers
  BY DEF Acknowledge, plant, Handlers
<1>2. CASE event' = event
  BY <1>1, <1>2 DEF PlantOK, RecentOK, Deque, TogetherWith, Near, TagsOf
<1>3. CASE event' = [event EXCEPT ![h[1]] = NoEvent]
  <2>1. EventOK(NoEvent) /\ NoEvent.kind # "tags"
    BY DEF EventOK, NoEvent
  <2>2. PICK r, e : r = h[1] /\ e = NoEvent
    OBVIOUS
  <2>3. /\ event' = [q \in Readers |-> event'[q]]
        /\ \A q \in Readers : RecentOK(q)' /\ EventOK(event[q])'
        /\ \A q \in Readers : TagsOf(q)' \in {TagsOf(q), <<>>}
    BY <1>1, <1>3, <2>1, <2>2, OtherEvent
  <2>4. QED
    BY <1>1, <2>3 DEF PlantOK
<1>4. QED
  BY <1>2, <1>3 DEF Acknowledge

LEMMA DeliverPlant ==
    ASSUME PlantOK, NEW r \in Readers, DeliverTags(r)
    PROVE  PlantOK'
<1>1. UNCHANGED <<passed, coming, event>> /\ event[r].kind = "tags"
  BY DEF DeliverTags, Deliver, plant
<1>2. passed[r] \in Nat /\ RecentOK(r) /\ TagsOf(r) = event[r].tags
  BY <1>1 DEF PlantOK, TagsOf
<1>3. PICK filtered : filtered = FilterDuplicates(r, event[r].tags)
  OBVIOUS
<1>4. recent' = [recent EXCEPT ![r] = filtered.known]
  BY <1>3 DEF DeliverTags
<1>5. Sound(r, filtered)
  BY <1>2, <1>3, FilterFacts
<1>6. /\ recent' = [q \in Readers |-> recent'[q]]
      /\ recent'[r] = filtered.known /\ \A q \in Readers : q # r => recent'[q] = recent[q]
  BY <1>4 DEF PlantOK
<1>7. ASSUME NEW q \in Readers PROVE RecentOK(q)'
  <2>1. CASE q = r
    BY <1>1, <1>2, <1>5, <1>6, <2>1 DEF RecentOK, Sound, Deque, TogetherWith, Near, TagsOf
  <2>2. CASE q # r
    BY <1>1, <1>6, <2>2 DEF PlantOK, RecentOK, Deque, TogetherWith, Near, TagsOf
  <2>3. QED
    BY <2>1, <2>2
<1>8. QED
  BY <1>1, <1>6, <1>7 DEF PlantOK

LEMMA RestartPlant == ASSUME PlantOK, Restart PROVE PlantOK'
<1>1. /\ UNCHANGED <<passed, event>> /\ recent' = [r \in Readers |-> <<>>]
      /\ coming.restarts > 0 /\ coming' = [coming EXCEPT !.restarts = @ - 1]
  BY DEF Restart
<1>2. coming' \in [balloons : [Readers -> 0 .. MaxBalloons],
                   firings : [Readers -> 0 .. MaxBalloons], restarts : Nat, removals : SUBSET Readers]
      /\ coming'.balloons = coming.balloons
  <2>1. /\ coming'.restarts = coming.restarts - 1 /\ coming.restarts \in Nat
        /\ coming'.balloons = coming.balloons /\ coming'.firings = coming.firings
        /\ coming'.removals = coming.removals
        /\ coming' = [coming EXCEPT !.restarts = coming'.restarts]
    BY <1>1 DEF PlantOK
  <2>2. coming'.restarts \in Nat
    BY <1>1, <2>1
  <2>3. QED
    BY <2>1, <2>2 DEF PlantOK
<1>3. ASSUME NEW r \in Readers PROVE RecentOK(r)'
  <2>1. recent'[r] = <<>> /\ RecentOK(r) /\ TagsOf(r)' = TagsOf(r)
    BY <1>1 DEF PlantOK, TagsOf
  <2>2. Len(recent[r]') = 0 /\ <<>> \in Seq(1 .. passed[r])
    BY <2>1
  <2>3. 0 <= WINDOW[r]
    BY BoundAssumption
  <2>4. QED
    BY <1>1, <2>1, <2>2, <2>3 DEF RecentOK, Deque, Distinct, TogetherWith, Near
<1>4. QED
  BY <1>1, <1>2, <1>3 DEF PlantOK

LEMMA PlantSame == ASSUME PlantOK, UNCHANGED <<passed, coming, event, recent>> PROVE PlantOK'
  BY DEF PlantOK, RecentOK, Deque, TogetherWith, Near, TagsOf

LEMMA InitPlant == Init => PlantOK
<1>1. SUFFICES ASSUME Init PROVE PlantOK
  OBVIOUS
<1>2. /\ passed = [r \in Readers |-> 0] /\ coming \in Traffic
      /\ event = [r \in Readers |-> NoEvent] /\ recent = [r \in Readers |-> <<>>]
  BY <1>1, Zenon DEF Init
<1> HIDE <1>1
<1>3. ASSUME NEW r \in Readers PROVE RecentOK(r) /\ EventOK(event[r])
  <2>1. TagsOf(r) = <<>> /\ recent[r] = <<>> /\ EventOK(event[r]) /\ passed[r] = 0
    BY <1>2 DEF TagsOf, NoEvent, EventOK
  <2>2. 0 <= WINDOW[r]
    BY BoundAssumption
  <2>3. QED
    BY <2>1, <2>2 DEF RecentOK, Deque, Distinct, TogetherWith
<1>4. coming \in [balloons : [Readers -> 0 .. MaxBalloons],
                  firings : [Readers -> 0 .. MaxBalloons], restarts : Nat, removals : SUBSET Readers]
  BY <1>2, BoundAssumption
<1>5. \A r \in Readers : passed[r] + coming.balloons[r] <= MaxBalloons
  BY <1>2, <1>4, BoundAssumption
<1>6. QED
  BY <1>2, <1>3, <1>4, <1>5, BoundAssumption DEF PlantOK

----------------------------------------------------------------------------
(* The handlers and the thread *)

\* The tags a handler has still to give to the thread
Todo(h) == IF task[h].step \in {"await", "next"} THEN task[h].todo ELSE <<>>

WorkOK ==
    /\ jobs \in Seq(Job)
    /\ stage \in Stages
    /\ \A h \in Handlers : Todo(h) \in Seq(Numbers)
    /\ \A h \in Handlers : task[h].step = "await" => \E i \in 1 .. Len(jobs) : jobs[i].by = h
    /\ \A r \in Readers : link[r] # NoLink => task[<<r, link[r]>>] # Closed

TodoOf(t) == IF t.step \in {"await", "next"} THEN t.todo ELSE <<>>

LEMMA TodoSets ==
    ASSUME Shape, NEW h \in Handlers, NEW t, task' = [task EXCEPT ![h] = t]
    PROVE  /\ task'[h] = t /\ Todo(h)' = TodoOf(t)
           /\ \A g \in Handlers : g # h => task'[g] = task[g] /\ Todo(g)' = Todo(g)
  BY DEF Shape, Todo, TodoOf

\* A handler that the thread has nothing of goes on without giving it anything.
LEMMA WorkMoves ==
    ASSUME AckInv, WorkOK, NEW h \in Handlers, NEW t, task' = [task EXCEPT ![h] = t],
           t.step # "await", TodoOf(t) \in Seq(Numbers),
           UNCHANGED <<jobs, stage>>,
           \A r \in Readers : link'[r] \in {link[r], NoLink} \/ (link'[r] \in Slots /\ <<r, link'[r]>> = h),
           t = Closed => ~Linked(h)'
    PROVE  WorkOK'
<1>1. /\ task'[h] = t /\ Todo(h)' = TodoOf(t)
      /\ \A g \in Handlers : g # h => task'[g] = task[g] /\ Todo(g)' = Todo(g)
  BY TodoSets DEF AckInv
<1>2. ASSUME NEW g \in Handlers
      PROVE  /\ Todo(g)' \in Seq(Numbers)
             /\ task'[g].step = "await" => \E i \in 1 .. Len(jobs') : jobs'[i].by = g
  BY <1>1 DEF WorkOK
<1>3. ASSUME NEW r \in Readers, link'[r] # NoLink PROVE task'[<<r, link'[r]>>] # Closed
  <2>1. link'[r] \in Slots
    BY <1>3 DEF AckInv, Shape
  <2>2. <<r, link'[r]>> \in Handlers
    BY <2>1 DEF Handlers
  <2>3. CASE <<r, link'[r]>> = h
    BY <1>1, <2>3 DEF Linked
  <2>4. CASE <<r, link'[r]>> # h
    BY <1>1, <1>3, <2>2, <2>4 DEF WorkOK
  <2>5. QED
    BY <2>3, <2>4
<1>4. QED
  BY <1>2, <1>3 DEF WorkOK

\* A handler gives the thread work and waits.
LEMMA WorkBegins ==
    ASSUME AckInv, WorkOK, NEW h \in Handlers, NEW t, task' = [task EXCEPT ![h] = t],
           t.step = "await", TodoOf(t) \in Seq(Numbers),
           NEW job \in Job, job.by = h, jobs' = Append(jobs, job),
           UNCHANGED <<stage, link>>
    PROVE  WorkOK'
<1>1. /\ task'[h] = t /\ Todo(h)' = TodoOf(t)
      /\ \A g \in Handlers : g # h => task'[g] = task[g] /\ Todo(g)' = Todo(g)
  BY TodoSets DEF AckInv
<1>2. /\ jobs' \in Seq(Job) /\ Len(jobs) \in Nat /\ Len(jobs') = Len(jobs) + 1
      /\ jobs'[Len(jobs) + 1] = job /\ \A i \in 1 .. Len(jobs) : jobs'[i] = jobs[i]
  BY DEF WorkOK
<1>3. ASSUME NEW g \in Handlers, task'[g].step = "await"
      PROVE  \E i \in 1 .. Len(jobs') : jobs'[i].by = g
  <2>1. CASE g = h
    BY <1>2, <2>1
  <2>2. CASE g # h
    <3>1. PICK i \in 1 .. Len(jobs) : jobs[i].by = g
      BY <1>1, <1>3, <2>2 DEF WorkOK
    <3>2. i \in 1 .. Len(jobs') /\ jobs'[i].by = g
      BY <1>2, <3>1
    <3>3. QED
      BY <3>2
  <2>3. QED
    BY <2>1, <2>2
<1>4. t # Closed
  BY DEF Closed
<1>5. ASSUME NEW r \in Readers, link'[r] # NoLink PROVE task'[<<r, link'[r]>>] # Closed
  <2>1. <<r, link[r]>> \in Handlers
    BY <1>5 DEF AckInv, Shape, Handlers
  <2>2. QED
    BY <1>1, <1>4, <1>5, <2>1 DEF WorkOK
<1>6. ASSUME NEW g \in Handlers PROVE Todo(g)' \in Seq(Numbers)
  BY <1>1 DEF WorkOK
<1>7. QED
  BY <1>2, <1>3, <1>5, <1>6 DEF WorkOK

\* The first piece of work ends.
LEMMA WorkEnds ==
    ASSUME AckInv, WorkOK, jobs # <<>>, NEW t, task' = [task EXCEPT ![Head(jobs).by] = t],
           jobs' = Tail(jobs), t.step \in {"next", "ack"}, TodoOf(t) \in Seq(Numbers),
           stage' = Recording, UNCHANGED link
    PROVE  WorkOK'
<1>1. /\ jobs' \in Seq(Job) /\ Len(jobs) \in Nat \ {0} /\ Len(jobs') = Len(jobs) - 1
      /\ \A i \in 1 .. Len(jobs') : jobs'[i] = jobs[i + 1]
      /\ Head(jobs) = jobs[1] /\ 1 \in 1 .. Len(jobs)
  BY DEF WorkOK
<1>2. PICK h : h = Head(jobs).by
  OBVIOUS
<1>3. h \in Handlers /\ h = jobs[1].by
  BY <1>1, <1>2 DEF AckInv, OneJobEach
<1>4. /\ task'[h] = t /\ Todo(h)' = TodoOf(t)
      /\ \A g \in Handlers : g # h => task'[g] = task[g] /\ Todo(g)' = Todo(g)
  BY <1>2, <1>3, TodoSets DEF AckInv
<1>5. ASSUME NEW g \in Handlers, task'[g].step = "await"
      PROVE  \E i \in 1 .. Len(jobs') : jobs'[i].by = g
  <2>1. g # h
    BY <1>4, <1>5
  <2>2. PICK i \in 1 .. Len(jobs) : jobs[i].by = g
    BY <1>4, <1>5, <2>1 DEF WorkOK
  <2>3. i # 1
    BY <1>3, <2>1, <2>2
  <2>4. PICK j : j = i - 1
    OBVIOUS
  <2>5. j \in 1 .. Len(jobs') /\ j + 1 = i
    BY <1>1, <2>3, <2>4
  <2>6. jobs'[j].by = g
    BY <1>1, <2>2, <2>5
  <2>7. QED
    BY <2>5, <2>6
<1>6. t # Closed
  BY DEF Closed
<1>7. ASSUME NEW r \in Readers, link'[r] # NoLink PROVE task'[<<r, link'[r]>>] # Closed
  <2>1. <<r, link[r]>> \in Handlers
    BY <1>7 DEF AckInv, Shape, Handlers
  <2>2. QED
    BY <1>4, <1>6, <1>7, <2>1 DEF WorkOK
<1>8. ASSUME NEW g \in Handlers PROVE Todo(g)' \in Seq(Numbers)
  BY <1>4 DEF WorkOK
<1>9. stage' \in Stages
  BY DEF Stages
<1>10. QED
  BY <1>1, <1>5, <1>7, <1>8, <1>9 DEF WorkOK

LEMMA ProceedWork ==
    ASSUME AckInv, WorkOK, NEW h \in Handlers, NEW tags \in Seq(Numbers), Proceed(h, tags),
           UNCHANGED <<stage, link>>
    PROVE  WorkOK'
<1>1. CASE tags = <<>>
  <2>1. PICK status : task' = [task EXCEPT ![h] = Acknowledging(status)]
    BY <1>1 DEF Proceed, Lamp
  <2>2. /\ Acknowledging(status).step = "ack" /\ TodoOf(Acknowledging(status)) = <<>>
        /\ Acknowledging(status) # Closed
    BY DEF Acknowledging, TodoOf, Closed
  <2>3. jobs' = jobs /\ <<>> \in Seq(Numbers)
    BY <1>1 DEF Proceed
  <2>4. PICK t : t = Acknowledging(status)
    OBVIOUS
  <2>5. QED
    BY <2>1, <2>2, <2>3, <2>4, WorkMoves
<1>2. CASE tags # <<>>
  <2>1. PICK t, job : /\ t = [step |-> "await", todo |-> Tail(tags)]
                      /\ job = [kind |-> "tag", by |-> h, item |-> Head(tags)]
    OBVIOUS
  <2>2. task' = [task EXCEPT ![h] = t] /\ jobs' = Append(jobs, job)
    BY <1>2, <2>1 DEF Proceed, Submit
  <2>3. Tail(tags) \in Seq(Numbers) /\ Head(tags) \in Numbers
    BY <1>2
  <2>4. t.step = "await" /\ TodoOf(t) \in Seq(Numbers) /\ job \in Job /\ job.by = h
    BY <2>1, <2>3 DEF TodoOf, Job
  <2>5. QED
    BY <2>2, <2>4, WorkBegins
<1>3. QED
  BY <1>1, <1>2

\* The new tags of an event are numbers of balloons
LEMMA NewTags ==
    ASSUME PlantOK, NEW r \in Readers, DeliverTags(r)
    PROVE  /\ Sound(r, FilterDuplicates(r, event[r].tags))
           /\ Fitting(r) => Exact(r, FilterDuplicates(r, event[r].tags))
           /\ FilterDuplicates(r, event[r].tags).new \in Seq(Numbers)
           /\ event[r].tags = TagsOf(r)
<1> USE BoundAssumption
<1>1. event[r].tags = TagsOf(r)
  BY DEF DeliverTags, TagsOf
<1>2. passed[r] \in Nat /\ passed[r] <= MaxBalloons /\ RecentOK(r)
  BY DEF PlantOK
<1>3. PICK filtered : filtered = FilterDuplicates(r, event[r].tags)
  OBVIOUS
<1>4. Sound(r, filtered) /\ (Fitting(r) => Exact(r, filtered))
  BY <1>1, <1>2, <1>3, FilterFacts
<1>5. filtered.new \in Seq(Numbers)
  BY <1>2, <1>4, WiderSeq DEF Sound, Numbers
<1>6. QED
  BY <1>1, <1>3, <1>4, <1>5

LEMMA ReaderWork == ASSUME AckInv, PlantOK, WorkOK, NEW r \in Readers, Reader(r) PROVE WorkOK'
<1> USE BoundAssumption
<1>1. CASE Enter(r) \/ ReadTags(r) \/ Fire(r) \/ Unlist(r)
  <2>1. UNCHANGED <<task, jobs, stage, link>>
    BY <1>1 DEF Enter, ReadTags, Fire, Unlist, device, process
  <2>2. QED
    BY <2>1 DEF WorkOK, Todo
<1>2. CASE Connect(r)
  <2>1. PICK s \in Slots : /\ task[<<r, s>>] = Closed
                           /\ link' = [link EXCEPT ![r] = s]
                           /\ task' = [task EXCEPT ![<<r, s>>] = Reading]
    BY <1>2 DEF Connect
  <2>2. UNCHANGED <<jobs, stage>>
    BY <1>2 DEF Connect
  <2>a. PICK h : h = <<r, s>>
    OBVIOUS
  <2>b. PICK t : t = Reading
    OBVIOUS
  <2>3. h = <<r, s>> /\ t = Reading /\ h \in Handlers
    BY <2>a, <2>b DEF Handlers
  <2>4. t.step # "await" /\ TodoOf(t) \in Seq(Numbers) /\ t # Closed
    BY <2>3 DEF TodoOf, Reading, Closed
  <2>5. \A q \in Readers : link'[q] \in {link[q], NoLink} \/ (link'[q] \in Slots /\ <<q, link'[q]>> = h)
    BY <2>1, <2>3 DEF AckInv, Shape
  <2>6. task' = [task EXCEPT ![h] = t]
    BY <2>1, <2>3
  <2>7. \A q \in Readers :
          link'[q] \in {link[q], NoLink} \/ (link'[q] \in Slots /\ <<q, link'[q]>> = h)
    BY <2>5
  <2>8. (t = Closed) => ~Linked(h)'
    BY <2>4
  <2>9. QED
    BY <2>2, <2>3, <2>4, <2>7, <2>8, <2>6, WorkMoves
<1>3. CASE DeliverTags(r)
  <2>1. PICK h, tags : h = <<r, link[r]>> /\ tags = FilterDuplicates(r, event[r].tags).new
    OBVIOUS
  <2>2. h \in Handlers /\ Proceed(h, tags) /\ UNCHANGED <<stage, link>>
    BY <1>3, <2>1 DEF DeliverTags, Deliver, AckInv, Shape, Handlers
  <2>3. tags \in Seq(Numbers)
    BY <1>3, <2>1, NewTags
  <2>4. QED
    BY <2>2, <2>3, ProceedWork
<1>4. CASE DeliverInput(r)
  <2>1. PICK h, t, job : /\ h = <<r, link[r]>> /\ t = [step |-> "await", todo |-> <<>>]
                         /\ job = [kind |-> "input", by |-> h, item |-> event[r].firing]
    OBVIOUS
  <2>2. /\ h \in Handlers /\ UNCHANGED <<stage, link>>
        /\ task' = [task EXCEPT ![h] = t] /\ jobs' = Append(jobs, job)
    BY <1>4, <2>1 DEF DeliverInput, Deliver, Submit, AckInv, Shape, Handlers
  <2>3. event[r].firing \in Numbers
    <3>1. event[r].kind = "input" /\ EventOK(event[r])
      BY <1>4 DEF DeliverInput, PlantOK
    <3>2. NoEvent.kind # "input" /\ \A n : Input(n).firing = n
      BY DEF NoEvent, Input
    <3>3. QED
      BY <3>1, <3>2 DEF EventOK
  <2>4. t.step = "await" /\ TodoOf(t) \in Seq(Numbers) /\ job \in Job /\ job.by = h
    BY <2>1, <2>2, <2>3 DEF TodoOf, Job
  <2>5. QED
    BY <2>2, <2>4, WorkBegins
<1>5. QED
  BY <1>1, <1>2, <1>3, <1>4 DEF Reader

LEMMA HandlerWork == ASSUME AckInv, WorkOK, NEW h \in Handlers, Handler(h) PROVE WorkOK'
<1> USE BoundAssumption
<1>1. CASE NextTag(h)
  <2>1. PICK tags : tags = task[h].todo
    OBVIOUS
  <2>2. Proceed(h, tags) /\ UNCHANGED <<stage, link>> /\ task[h].step = "next"
    BY <1>1, <2>1 DEF NextTag, device
  <2>3. tags \in Seq(Numbers)
    BY <2>1, <2>2 DEF WorkOK, Todo
  <2>4. QED
    BY <2>2, <2>3, ProceedWork
<1>2. CASE Acknowledge(h)
  <2>1. PICK t : t = Reading
    OBVIOUS
  <2>2. /\ task' = [task EXCEPT ![h] = t] /\ UNCHANGED <<link, jobs, stage>>
    BY <1>2, <2>1 DEF Acknowledge
  <2>3. t.step # "await" /\ TodoOf(t) \in Seq(Numbers) /\ t # Closed
    BY <2>1 DEF TodoOf, Reading, Closed
  <2>4. QED
    BY <2>2, <2>3, WorkMoves
<1>3. CASE Hangup(h)
  <2>1. PICK t : t = Closed
    OBVIOUS
  <2>2. task' = [task EXCEPT ![h] = t] /\ UNCHANGED <<link, jobs, stage>> /\ ~Linked(h)'
    BY <1>3, <2>1 DEF Hangup, device, Linked
  <2>3. t.step # "await" /\ TodoOf(t) \in Seq(Numbers)
    BY <2>1 DEF TodoOf, Closed
  <2>4. QED
    BY <2>2, <2>3, WorkMoves
<1>4. QED
  BY <1>1, <1>2, <1>3 DEF Handler

\* What the thread does with its first job: it goes on with it, or ends it
GoesOnAs(h, t) ==
    /\ task' = [task EXCEPT ![h] = t]
    /\ t.step \in {"next", "ack"}
    /\ TodoOf(t) \in {<<>>, Todo(h)}

LEMMA ReturnEnds ==
    ASSUME AckInv, WorkOK, jobs # <<>>, NEW h, h = Head(jobs).by,
           Return \/ \E status : EndEvent(status)
    PROVE  /\ jobs' = Tail(jobs) /\ stage' = Recording
           /\ \E t : GoesOnAs(h, t)
<1>1. jobs' = Tail(jobs) /\ stage' = Recording
  BY DEF Return, EndEvent
<1>2. task[h].step = "await"
  <2>1. Head(jobs) = jobs[1] /\ 1 \in 1 .. Len(jobs)
    BY DEF WorkOK
  <2>2. QED
    BY <2>1 DEF AckInv, OneJobEach
<1>3. ASSUME NEW status, task' = [task EXCEPT ![h] = Acknowledging(status)]
      PROVE  \E t : GoesOnAs(h, t)
  <2>1. PICK t : t = Acknowledging(status)
    OBVIOUS
  <2>2. task' = [task EXCEPT ![h] = t] /\ t.step \in {"next", "ack"} /\ TodoOf(t) = <<>>
    BY <1>3, <2>1 DEF Acknowledging, TodoOf
  <2>3. QED
    BY <2>2 DEF GoesOnAs
<1>4. ASSUME task' = [task EXCEPT ![h] = [step |-> "next", todo |-> task[h].todo]]
      PROVE  \E t : GoesOnAs(h, t)
  <2>1. PICK t : t = [step |-> "next", todo |-> task[h].todo]
    OBVIOUS
  <2>2. task' = [task EXCEPT ![h] = t] /\ t.step \in {"next", "ack"} /\ TodoOf(t) = Todo(h)
    BY <1>2, <1>4, <2>1 DEF TodoOf, Todo
  <2>3. QED
    BY <2>2 DEF GoesOnAs
<1>5. CASE \E status : EndEvent(status)
  <2>1. PICK status : EndEvent(status)
    BY <1>5
  <2>2. task' = [task EXCEPT ![h] = Acknowledging(status)]
    BY <2>1 DEF EndEvent
  <2>3. QED
    BY <1>1, <1>3, <2>2
<1>6. CASE Return
  <2>1. CASE task[h].todo = <<>>
    <3>1. PICK status : task' = [task EXCEPT ![h] = Acknowledging(status)]
      BY <1>6, <2>1 DEF Return, Lamp
    <3>2. QED
      BY <1>1, <1>3, <3>1
  <2>2. CASE task[h].todo # <<>>
    <3>1. task' = [task EXCEPT ![h] = [step |-> "next", todo |-> task[h].todo]]
      BY <1>6, <2>2 DEF Return
    <3>2. QED
      BY <1>1, <1>4, <3>1
  <2>3. QED
    BY <2>1, <2>2
<1>7. QED
  BY <1>5, <1>6

LEMMA WorkerWork == ASSUME AckInv, WorkOK, Worker PROVE WorkOK'
<1>1. UNCHANGED link /\ jobs # <<>>
  BY DEF Worker, Record, Push, Post, Sense, Now, device
<1>2. \/ Return \/ \E status : EndEvent(status)
      \/ UNCHANGED <<task, jobs>> /\ stage' \in Stages
  <2>1. ATTEMPTS \in Nat \ {0}
    BY BoundAssumption
  <2>2. Attempt(1) \in Stages /\ Pushing \in Stages
    BY <2>1 DEF Stages
  <2>3. Post /\ stage.attempt < ATTEMPTS => Attempt(stage.attempt + 1) \in Stages
    <3>1. Post => stage.step = "post"
      BY DEF Post, Now
    <3>2. stage.step = "post" => \E n \in 1 .. ATTEMPTS : stage = Attempt(n)
      BY DEF WorkOK, Stages, Recording, Pushing
    <3>3. ASSUME NEW n \in 1 .. ATTEMPTS, stage = Attempt(n), stage.attempt < ATTEMPTS
          PROVE  Attempt(stage.attempt + 1) \in Stages
      <4>1. stage.attempt = n /\ n + 1 \in 1 .. ATTEMPTS
        BY <2>1, <3>3 DEF Attempt
      <4>2. QED
        BY <4>1 DEF Stages
    <3>4. QED
      BY <3>1, <3>2, <3>3
  <2>4. QED
    BY <2>2, <2>3 DEF Worker, Record, Push, Post, Sense, TellOrReturn, Advance, ReturnError, MissingReader, FailedSensor
<1>3. CASE Return \/ \E status : EndEvent(status)
  <2>1. PICK h : h = Head(jobs).by
    OBVIOUS
  <2>2. jobs' = Tail(jobs) /\ stage' = Recording /\ \E t : GoesOnAs(h, t)
    BY <1>1, <1>3, <2>1, ReturnEnds
  <2>3. PICK t : GoesOnAs(h, t)
    BY <2>2
  <2>4. h \in Handlers
    <3>1. Head(jobs) = jobs[1] /\ 1 \in 1 .. Len(jobs)
      BY <1>1 DEF WorkOK
    <3>2. QED
      BY <2>1, <3>1 DEF AckInv, OneJobEach
  <2>5. TodoOf(t) \in Seq(Numbers)
    <3>1. <<>> \in Seq(Numbers)
      OBVIOUS
    <3>2. QED
      BY <2>3, <2>4, <3>1 DEF GoesOnAs, WorkOK
  <2>6. QED
    BY <1>1, <2>1, <2>2, <2>3, <2>5, WorkEnds DEF GoesOnAs
<1>4. CASE UNCHANGED <<task, jobs>> /\ stage' \in Stages
  BY <1>1, <1>4 DEF WorkOK, Todo
<1>5. QED
  BY <1>2, <1>3, <1>4

LEMMA RestartWork == ASSUME WorkOK, Restart PROVE WorkOK'
<1>1. /\ link' = [r \in Readers |-> NoLink] /\ task' = [h \in Handlers |-> Closed]
      /\ jobs' = <<>> /\ stage' = Recording
  BY DEF Restart
<1>2. \A h \in Handlers : task'[h].step = "closed"
  BY <1>1 DEF Closed
<1>3. jobs' \in Seq(Job) /\ stage' \in Stages
  BY <1>1 DEF Stages
<1>4. \A h \in Handlers : Todo(h)' \in Seq(Numbers)
  BY <1>2 DEF Todo
<1>5. QED
  BY <1>1, <1>2, <1>3, <1>4 DEF WorkOK

LEMMA InitWork == Init => WorkOK
<1>1. SUFFICES ASSUME Init PROVE WorkOK
  OBVIOUS
<1>2. /\ link = [r \in Readers |-> NoLink] /\ task = [h \in Handlers |-> Closed]
      /\ jobs = <<>> /\ stage = Recording
  BY <1>1, Zenon DEF Init
<1> HIDE <1>1
<1>3. \A h \in Handlers : task[h].step = "closed"
  BY <1>2 DEF Closed
<1>4. jobs \in Seq(Job) /\ stage \in Stages
  BY <1>2 DEF Stages
<1>5. \A h \in Handlers : Todo(h) \in Seq(Numbers)
  BY <1>3 DEF Todo
<1>6. QED
  BY <1>2, <1>3, <1>4, <1>5 DEF WorkOK

----------------------------------------------------------------------------
(* The database, the lists and the history *)

DataOK ==
    /\ counted \in [Balloons -> Nat]
    /\ queue \in [Readers -> Seq(Numbers)]
    /\ informed \subseteq Balloons
    /\ sensed \subseteq Firings /\ settled \subseteq Firings
    /\ listed \subseteq Readers
    /\ restarts \in Nat

LEMMA CurrentFacts ==
    ASSUME WorkOK, jobs # <<>>
    PROVE  /\ Head(jobs) \in Job /\ Head(jobs) = jobs[1] /\ 1 \in 1 .. Len(jobs)
           /\ CurrentReader \in Readers /\ Current[2] \in Numbers
           /\ Current \in Balloons /\ Current \in Firings /\ Current[1] = CurrentReader
<1>1. Head(jobs) \in Job /\ Head(jobs) = jobs[1] /\ 1 \in 1 .. Len(jobs)
  BY DEF WorkOK
<1>2. Head(jobs).by[1] \in Readers /\ Head(jobs).item \in Numbers
  BY <1>1 DEF Job, Handlers
<1>3. QED
  BY <1>1, <1>2 DEF CurrentReader, Current, Balloons, Firings

LEMMA WorkerData == ASSUME WorkOK, DataOK, Worker PROVE DataOK'
<1>1. UNCHANGED <<settled, listed, restarts>> /\ jobs # <<>>
  BY DEF Worker, Record, Push, Post, Sense, Now
<1>2. PICK b \in Balloons, r \in Readers, n \in Numbers : b = Current /\ b \in Firings /\ r = CurrentReader /\ n = Current[2]
  BY <1>1, CurrentFacts
<1>3. counted' \in {counted, [counted EXCEPT ![b] = @ + 1]}
  BY <1>2 DEF Worker, Record, Push, Post, Sense
<1>4. queue' \in {queue, [queue EXCEPT ![r] = Append(@, n)]}
  BY <1>2 DEF Worker, Record, Push, Post, Sense
<1>5. informed' \subseteq informed \union {b} /\ sensed' \subseteq sensed \union {b}
  BY <1>2 DEF Worker, Record, Push, Post, Sense
<1>6. counted' \in [Balloons -> Nat]
  BY <1>3 DEF DataOK
<1>7. queue' \in [Readers -> Seq(Numbers)]
  <2>1. queue \in [Readers -> Seq(Numbers)] /\ Append(queue[r], n) \in Seq(Numbers)
    BY DEF DataOK
  <2>2. QED
    BY <1>4, <2>1
<1>8. QED
  BY <1>1, <1>2, <1>5, <1>6, <1>7 DEF DataOK

LEMMA OthersData ==
    ASSUME PlantOK, DataOK,
           Restart \/ (\E r \in Readers : Reader(r)) \/ (\E h \in Handlers : Handler(h))
    PROVE  DataOK'
<1>1. /\ UNCHANGED <<counted, queue, informed, sensed>> /\ listed' \subseteq listed
      /\ restarts' \in {restarts, restarts + 1}
  BY DEF Reader, Enter, ReadTags, Fire, Unlist, Connect, DeliverTags, DeliverInput, Deliver,
         Handler, NextTag, Acknowledge, Hangup, Restart, data
<1>2. settled' \subseteq Firings
  <2>1. CASE settled' = settled
    BY <2>1 DEF DataOK
  <2>2. CASE \E h \in Handlers : Acknowledge(h)
    <3>1. PICK h \in Handlers : Acknowledge(h)
      BY <2>2
    <3>2. PICK r \in Readers : r = h[1]
      BY DEF Handlers
    <3>3. CASE event[r].kind = "input"
      <4>1. event[r].firing \in Numbers
        <5>1. EventOK(event[r])
          BY DEF PlantOK
        <5>2. NoEvent.kind # "input" /\ \A n : Input(n).firing = n
          BY DEF NoEvent, Input
        <5>3. QED
          BY <3>3, <5>1, <5>2 DEF EventOK
      <4>2. settled' \subseteq settled \union {<<r, event[r].firing>>}
        BY <3>1, <3>2 DEF Acknowledge
      <4>3. QED
        BY <4>1, <4>2 DEF DataOK, Firings
    <3>4. CASE event[r].kind # "input"
      BY <3>1, <3>2, <3>4 DEF Acknowledge, DataOK
    <3>5. QED
      BY <3>3, <3>4
  <2>3. QED
    BY <2>1, <2>2 DEF Reader, Enter, ReadTags, Fire, Unlist, Connect, DeliverTags, DeliverInput, Deliver,
                      Handler, NextTag, Hangup, Restart
<1>3. restarts' \in Nat
  BY <1>1 DEF DataOK
<1>4. QED
  BY <1>1, <1>2, <1>3 DEF DataOK

LEMMA InitData == Init => DataOK
<1>1. SUFFICES ASSUME Init PROVE DataOK
  OBVIOUS
<1>2. /\ counted = [b \in Balloons |-> 0] /\ queue = [r \in Readers |-> <<>>]
      /\ informed = {} /\ sensed = {} /\ settled = {} /\ listed = Readers /\ restarts = 0
  BY <1>1, Zenon DEF Init
<1> HIDE <1>1
<1>3. QED
  BY <1>2 DEF DataOK

Inv == PlantOK /\ WorkOK /\ DataOK

LEMMA TypeInvariant == Spec => [](AckInv /\ Inv)
<1>1. AckInv /\ AckInv' /\ Inv /\ [Next]_vars => Inv'
  <2>1. SUFFICES ASSUME AckInv, Inv, [Next]_vars PROVE Inv'
    OBVIOUS
  <2>2. CASE UNCHANGED vars
    <3>1. /\ UNCHANGED <<passed, coming, event, recent>>
          /\ UNCHANGED <<task, jobs, stage, link>>
          /\ UNCHANGED <<counted, queue, informed, sensed, listed, settled, restarts>>
      BY <2>2 DEF vars, plant, device, process, data
    <3>2. PlantOK'
      BY <2>1, <3>1, PlantSame DEF Inv
    <3>3. WorkOK' /\ DataOK'
      BY <2>1, <3>1 DEF Inv, WorkOK, Todo, DataOK
    <3>4. QED
      BY <3>2, <3>3 DEF Inv
  <2>3. ASSUME NEW r \in Readers, Reader(r) PROVE Inv'
    <3>1. PlantOK'
      <4>1. CASE Connect(r) \/ DeliverInput(r)
        BY <2>1, <4>1, PlantSame DEF Connect, DeliverInput, Deliver, plant, Inv
      <4>2. QED
        BY <2>1, <2>3, <4>1, EnterPlant, ReadPlant, FirePlant, UnlistPlant, DeliverPlant DEF Reader, Inv
    <3>2. WorkOK' /\ DataOK'
      BY <2>1, <2>3, ReaderWork, OthersData DEF Inv
    <3>3. QED
      BY <3>1, <3>2 DEF Inv
  <2>4. ASSUME NEW h \in Handlers, Handler(h) PROVE Inv'
    <3>1. PlantOK'
      <4>1. CASE NextTag(h) \/ Hangup(h)
        BY <2>1, <4>1, PlantSame DEF NextTag, Hangup, plant, device, Inv
      <4>2. QED
        BY <2>1, <2>4, <4>1, AcknowledgePlant DEF Handler, Inv
    <3>2. WorkOK' /\ DataOK'
      BY <2>1, <2>4, HandlerWork, OthersData DEF Inv
    <3>3. QED
      BY <3>1, <3>2 DEF Inv
  <2>5. CASE Worker
    <3>1. PlantOK'
      BY <2>1, <2>5, PlantSame DEF Worker, Record, Push, Post, Sense, plant, device, Inv
    <3>2. QED
      BY <2>1, <2>5, <3>1, WorkerWork, WorkerData DEF Inv
  <2>6. CASE Restart
    BY <2>1, <2>6, RestartPlant, RestartWork, OthersData DEF Inv
  <2>7. QED
    BY <2>1, <2>2, <2>3, <2>4, <2>5, <2>6 DEF Next
<1>2. Init => Inv
  BY InitPlant, InitWork, InitData DEF Inv
<1>3. QED
  BY <1>1, <1>2, AckInvariant, PTL DEF Spec

\* The types of the readers, of their handlers and of what the thread does: a connection belongs
\* to a handler that is not closed, the deque never exceeds its length, and a handler that waits
\* has exactly one job with the thread (handle_notification_connection, sync_to_async).
THEOREM TypeCorrect == Spec => []TypeOK
<1>1. AckInv /\ Inv => TypeOK
  <2>1. SUFFICES ASSUME AckInv, Inv PROVE TypeOK
    OBVIOUS
  <2>2. ASSUME NEW r \in Readers PROVE Len(recent[r]) <= WINDOW[r]
    BY <2>1 DEF Inv, PlantOK, RecentOK, Deque
  <2>3. ASSUME NEW r \in Readers, link[r] # NoLink
        PROVE  link[r] \in Slots /\ task[<<r, link[r]>>] # Closed
    BY <2>1, <2>3 DEF AckInv, Shape, Inv, WorkOK
  <2>4. ASSUME NEW h \in Handlers
        PROVE  Cardinality({i \in DOMAIN jobs : jobs[i].by = h}) =
                   IF task[h].step = "await" THEN 1 ELSE 0
    <3> DEFINE J == {i \in DOMAIN jobs : jobs[i].by = h}
    <3>1. DOMAIN jobs = 1 .. Len(jobs)
      BY <2>1 DEF Inv, WorkOK
    <3>2. CASE task[h].step = "await"
      <4>1. PICK i \in 1 .. Len(jobs) : jobs[i].by = h
        BY <2>1, <3>2 DEF Inv, WorkOK
      <4>2. J = {i}
        BY <2>1, <3>1, <4>1 DEF AckInv, OneJobEach
      <4>3. QED
        BY <3>2, <4>2, FS_Singleton
    <3>3. CASE task[h].step # "await"
      <4>1. J = {}
        BY <2>1, <3>1, <3>3 DEF AckInv, OneJobEach
      <4>2. QED
        BY <3>3, <4>1, FS_EmptySet
    <3>4. QED
      BY <3>2, <3>3
  <2>5. QED
    BY <2>1, <2>2, <2>3, <2>4 DEF TypeOK, Inv, PlantOK, WorkOK, DataOK, AckInv, Shape
<1>2. QED
  BY <1>1, TypeInvariant, PTL

----------------------------------------------------------------------------
(* A balloon is counted once *)

\* A balloon may still come as a new tag
Fresh(r, n) == ~Contains(recent[r], n) /\ ~Gone(r, n)

\* The thread was given the tag and has not begun with it
Given(h, n) ==
    \E i \in 1 .. Len(jobs) :
        /\ jobs[i].kind = "tag" /\ jobs[i].by = h /\ jobs[i].item = n
        /\ i = 1 => stage = Recording

Due(h, n) == Contains(Todo(h), n) \/ Given(h, n)

\* A tag that is due is due once, at one handler, and not new any more; a tag that is due or may
\* come as a new one has been counted in the life of another process only
CountOf(r, n) ==
    /\ counted[<<r, n>>] <= 1 + restarts
    /\ Fresh(r, n) => counted[<<r, n>>] <= restarts
    /\ \A s \in Slots : Due(<<r, s>>, n) =>
        /\ counted[<<r, n>>] <= restarts
        /\ ~Fresh(r, n)
        /\ ~(Contains(Todo(<<r, s>>), n) /\ Given(<<r, s>>, n))
        /\ \A t \in Slots : Due(<<r, t>>, n) => t = s

CountInv ==
    \A r \in Readers : Fitting(r) =>
        /\ \A s \in Slots : Distinct(Todo(<<r, s>>))
        /\ \A n \in Numbers : CountOf(r, n)

\* A tag that may come as a new one is no newer than before.
FreshKeeps == \A r \in Readers, n \in Numbers : Fitting(r) /\ Fresh(r, n)' => Fresh(r, n)

LEMMA GoneKeeps ==
    ASSUME NEW r \in Readers, NEW n \in Numbers, Gone(r, n),
           passed[r] \in Nat, passed'[r] \in Nat, passed[r] <= passed'[r],
           TagsOf(r)' \in {TagsOf(r), <<>>}
    PROVE  Gone(r, n)'
<1>1. n + FieldSize[r] <= passed'[r]
  <2>1. n \in Nat /\ FieldSize[r] \in Nat
    BY ReaderAssumption, BoundAssumption DEF Numbers
  <2>2. QED
    BY <2>1 DEF Gone
<1>2. ~Contains(<<>>, n)
  BY DEF Contains
<1>3. ~Contains(TagsOf(r)', n)
  BY <1>2 DEF Gone
<1>4. QED
  BY <1>1, <1>3 DEF Gone

LEMMA ReaderFresh ==
    ASSUME PlantOK, PlantOK', NEW r \in Readers,
           Enter(r) \/ ReadTags(r) \/ Fire(r) \/ Unlist(r) \/ Connect(r) \/ DeliverInput(r)
    PROVE  FreshKeeps
<1>1. SUFFICES ASSUME NEW q \in Readers, NEW n \in Numbers, Gone(q, n) PROVE Gone(q, n)'
  <2>1. recent' = recent
    BY DEF Enter, ReadTags, Fire, Unlist, Connect, DeliverInput, process
  <2>2. QED
    BY <1>1, <2>1 DEF FreshKeeps, Fresh
<1>2. passed[q] \in Nat /\ passed'[q] \in Nat /\ passed[q] <= passed'[q]
  <2>1. passed' = passed \/ passed' = [passed EXCEPT ![r] = @ + 1]
    BY DEF Enter, ReadTags, Fire, Unlist, Connect, DeliverInput, Deliver, plant
  <2>2. QED
    BY <2>1 DEF PlantOK
<1>3. CASE TagsOf(q)' \in {TagsOf(q), <<>>}
  BY <1>1, <1>2, <1>3, GoneKeeps
<1>4. CASE ReadTags(r) /\ q = r
  <2>1. PICK s \in Readings(r) : event' = [event EXCEPT ![r] = TagRead(s)]
    BY <1>4 DEF ReadTags
  <2>2. TagsOf(r)' = s /\ passed' = passed
    BY <1>4, <2>1 DEF TagsOf, TagRead, ReadTags, plant, PlantOK
  <2>3. \A i \in 1 .. Len(s) : s[i] + FieldSize[r] > passed[r]
    BY <1>2, <1>4, ReadingFacts DEF PlantOK
  <2>4. n \in Nat /\ FieldSize[r] \in Nat
    BY ReaderAssumption, BoundAssumption DEF Numbers
  <2>5. ~Contains(s, n)
    BY <1>1, <1>2, <1>4, <2>3, <2>4 DEF Contains, Gone
  <2>6. QED
    BY <1>1, <1>4, <2>2, <2>5 DEF Gone
<1>5. CASE Enter(r) \/ Unlist(r) \/ Connect(r) \/ DeliverInput(r)
  <2>1. event' = event
    BY <1>5 DEF Enter, Unlist, Connect, DeliverInput, Deliver, device
  <2>2. QED
    BY <1>3, <2>1 DEF TagsOf
<1>6. CASE Fire(r)
  <2>1. event' = [event EXCEPT ![r] = Input(coming.firings[r])]
    BY <1>6 DEF Fire
  <2>2. TagsOf(q)' \in {TagsOf(q), <<>>}
    BY <2>1 DEF TagsOf, Input, PlantOK
  <2>3. QED
    BY <1>3, <2>2
<1>7. CASE ReadTags(r) /\ q # r
  <2>1. event'[q] = event[q]
    BY <1>7 DEF ReadTags, PlantOK
  <2>2. QED
    BY <1>3, <2>1 DEF TagsOf
<1>8. QED
  BY <1>4, <1>5, <1>6, <1>7

LEMMA HandlerFresh ==
    ASSUME PlantOK, UNCHANGED <<passed, event, recent>> \/ \E h \in Handlers : Acknowledge(h)
    PROVE  FreshKeeps
<1>1. UNCHANGED <<passed, recent>> /\ \A q \in Readers : TagsOf(q)' \in {TagsOf(q), <<>>}
  <2>1. CASE UNCHANGED <<passed, event, recent>>
    BY <2>1 DEF TagsOf
  <2>2. CASE \E h \in Handlers : Acknowledge(h)
    <3>1. PICK h \in Handlers : Acknowledge(h)
      BY <2>2
    <3>2. UNCHANGED <<passed, recent>>
      BY <3>1 DEF Acknowledge, plant
    <3>3. \A q \in Readers : TagsOf(q)' \in {TagsOf(q), <<>>}
      BY <3>1, AcknowledgePlant
    <3>4. QED
      BY <3>2, <3>3
  <2>3. QED
    BY <2>1, <2>2
<1>2. ASSUME NEW q \in Readers, NEW n \in Numbers, Gone(q, n) PROVE Gone(q, n)'
  <2>1. passed[q] \in Nat /\ passed'[q] \in Nat /\ passed[q] <= passed'[q]
    BY <1>1 DEF PlantOK
  <2>2. QED
    BY <1>1, <1>2, <2>1, GoneKeeps
<1>3. QED
  BY <1>1, <1>2 DEF FreshKeeps, Fresh

\* The tags an event brings were new and are not any more.
LEMMA DeliverFresh ==
    ASSUME PlantOK, NEW r \in Readers, DeliverTags(r), Fitting(r),
           NEW new, new = FilterDuplicates(r, event[r].tags).new
    PROVE  /\ new \in Seq(Numbers) /\ Distinct(new)
           /\ \A n : Contains(new, n) => Fresh(r, n)
           /\ \A n : Fresh(r, n)' => Fresh(r, n) /\ ~Contains(new, n)
<1>1. PICK filtered : filtered = FilterDuplicates(r, event[r].tags)
  OBVIOUS
<1>2. /\ Sound(r, filtered) /\ Exact(r, filtered) /\ new = filtered.new
      /\ new \in Seq(Numbers) /\ event[r].tags = TagsOf(r)
  BY <1>1, NewTags
<1>3. Distinct(new)
  BY <1>2 DEF Exact
<1>4. ASSUME NEW n, Contains(new, n) PROVE Fresh(r, n)
  <2>1. PICK i \in 1 .. Len(new) : new[i] = n
    BY <1>4 DEF Contains
  <2>2. Contains(TagsOf(r), n) /\ ~Contains(recent[r], n)
    BY <1>2, <2>1 DEF Sound, Exact
  <2>3. QED
    BY <2>2 DEF Fresh, Gone
<1>5. recent'[r] = filtered.known
  BY <1>1 DEF DeliverTags, PlantOK
<1>6. Gone(r, 0)' = Gone(r, 0) /\ \A n : Gone(r, n)' = Gone(r, n)
  BY DEF Gone, TagsOf, DeliverTags, Deliver, plant
<1>7. ASSUME NEW n, Fresh(r, n)' PROVE Fresh(r, n) /\ ~Contains(new, n)
  BY <1>2, <1>5, <1>6, <1>7 DEF Fresh, Exact
<1>8. QED
  BY <1>2, <1>3, <1>4, <1>7

\* At other readers a delivery changes nothing.
LEMMA DeliverElsewhere ==
    ASSUME PlantOK, NEW r \in Readers, DeliverTags(r), NEW q \in Readers, q # r, NEW n, Fresh(q, n)'
    PROVE  Fresh(q, n)
<1>1. recent'[q] = recent[q] /\ UNCHANGED <<passed, event>>
  BY DEF DeliverTags, Deliver, plant, PlantOK
<1>2. QED
  BY <1>1 DEF Fresh, Gone, TagsOf

\* The thread begins or ends its first piece of work: that tag is not given to it any more.
LEMMA GivenEnds ==
    ASSUME AckInv, WorkOK, jobs # <<>>, NEW h, h = Head(jobs).by,
           \/ jobs' = Tail(jobs)
           \/ jobs' = jobs /\ stage' # Recording
    PROVE  \A g \in Handlers, n \in Numbers : Given(g, n)' => Given(g, n) /\ g # h
<1> SUFFICES ASSUME NEW g \in Handlers, NEW n \in Numbers, Given(g, n)'
             PROVE  Given(g, n) /\ g # h
  OBVIOUS
<1>1. Head(jobs) = jobs[1] /\ 1 \in 1 .. Len(jobs) /\ Len(jobs) \in Nat
  BY DEF WorkOK
<1>2. PICK i \in 1 .. Len(jobs') : /\ jobs'[i].kind = "tag" /\ jobs'[i].by = g /\ jobs'[i].item = n
                                   /\ i = 1 => stage' = Recording
  BY DEF Given
<1>3. PICK k : k = IF jobs' = Tail(jobs) THEN i + 1 ELSE i
  OBVIOUS
<1>4. k \in 1 .. Len(jobs) /\ k # 1 /\ jobs'[i] = jobs[k]
  <2>1. CASE jobs' = Tail(jobs)
    <3>1. /\ Len(jobs') = Len(jobs) - 1
          /\ \A j \in 1 .. Len(jobs) - 1 : jobs'[j] = jobs[j + 1]
      BY <2>1 DEF WorkOK
    <3>2. QED
      BY <1>1, <1>2, <1>3, <2>1, <3>1
  <2>2. CASE jobs' # Tail(jobs)
    BY <1>2, <1>3, <2>2
  <2>3. QED
    BY <2>1, <2>2
<1>5. Given(g, n)
  BY <1>2, <1>4 DEF Given
<1>6. g # h
  BY <1>1, <1>2, <1>4 DEF AckInv, OneJobEach
<1>7. QED
  BY <1>5, <1>6

\* The thread is given one more.
LEMMA GivenMore ==
    ASSUME WorkOK, StageInv, NEW job \in Job, jobs' = Append(jobs, job), stage' = stage
    PROVE  \A g \in Handlers, n \in Numbers :
               Given(g, n)' => Given(g, n) \/ (job.kind = "tag" /\ job.by = g /\ job.item = n)
<1> SUFFICES ASSUME NEW g \in Handlers, NEW n \in Numbers, Given(g, n)'
             PROVE  Given(g, n) \/ (job.kind = "tag" /\ job.by = g /\ job.item = n)
  OBVIOUS
<1>1. /\ Len(jobs) \in Nat /\ Len(jobs') = Len(jobs) + 1
      /\ jobs'[Len(jobs) + 1] = job /\ \A i \in 1 .. Len(jobs) : jobs'[i] = jobs[i]
  BY DEF WorkOK
<1>2. PICK i \in 1 .. Len(jobs') : /\ jobs'[i].kind = "tag" /\ jobs'[i].by = g /\ jobs'[i].item = n
                                   /\ i = 1 => stage' = Recording
  BY DEF Given
<1>3. CASE i \in 1 .. Len(jobs)
  BY <1>1, <1>2, <1>3 DEF Given
<1>4. CASE i = Len(jobs) + 1
  BY <1>1, <1>2, <1>4
<1>5. QED
  BY <1>1, <1>3, <1>4

\* What becomes of one balloon when no handler gets it that did not have it.
LEMMA CountOfKeeps ==
    ASSUME NEW r \in Readers, NEW n \in Numbers, CountOf(r, n),
           restarts' = restarts, counted'[<<r, n>>] = counted[<<r, n>>],
           Fresh(r, n)' => Fresh(r, n),
           \A s \in Slots :
               /\ Due(<<r, s>>, n)' => Due(<<r, s>>, n)
               /\ ~(Contains(Todo(<<r, s>>), n) /\ Given(<<r, s>>, n))
                  => ~(Contains(Todo(<<r, s>>), n) /\ Given(<<r, s>>, n))'
    PROVE  CountOf(r, n)'
  BY DEF CountOf

\* The handlers have no tag that they did not have.
NothingGained ==
    \A h \in Handlers :
        /\ Todo(h)' \in {Todo(h), <<>>}
        /\ \A n \in Numbers : Given(h, n)' => Given(h, n)

\* The same of one balloon at one connection.
LEMMA NothingDue ==
    ASSUME NothingGained, NEW r \in Readers, NEW s \in Slots, NEW n \in Numbers
    PROVE  /\ Contains(Todo(<<r, s>>), n)' => Contains(Todo(<<r, s>>), n)
           /\ Given(<<r, s>>, n)' => Given(<<r, s>>, n)
           /\ Due(<<r, s>>, n)' => Due(<<r, s>>, n)
<1>1. PICK h \in Handlers : h = <<r, s>>
  BY DEF Handlers
<1>2. Todo(h)' \in {Todo(h), <<>>} /\ (Given(h, n)' => Given(h, n))
  BY DEF NothingGained
<1>3. ~Contains(<<>>, n)
  BY DEF Contains
<1>4. Contains(Todo(h)', n) => Contains(Todo(h), n)
  BY <1>2, <1>3
<1>5. Todo(<<r, s>>) = Todo(h) /\ Todo(<<r, s>>)' = Todo(h)'
  BY <1>1 DEF Todo
<1>6. (Given(<<r, s>>, n) <=> Given(h, n)) /\ (Given(<<r, s>>, n)' <=> Given(h, n)')
  BY <1>1 DEF Given
<1>7. Contains(Todo(<<r, s>>), n)' => Contains(Todo(<<r, s>>), n)
  BY <1>4, <1>5 DEF Contains
<1>8. QED
  BY <1>2, <1>6, <1>7 DEF Due

\* The counters stand still, and no handler gets a tag it did not have.
LEMMA CountKeeps ==
    ASSUME CountInv, UNCHANGED <<counted, restarts>>, FreshKeeps, NothingGained
    PROVE  CountInv'
<1>1. SUFFICES ASSUME NEW r \in Readers, Fitting(r)
      PROVE  /\ \A s \in Slots : Distinct(Todo(<<r, s>>))'
             /\ \A n \in Numbers : CountOf(r, n)'
  BY DEF CountInv, Fitting
<1>2. ASSUME NEW s \in Slots PROVE Distinct(Todo(<<r, s>>))'
  <2>1. PICK h \in Handlers : h = <<r, s>>
    BY DEF Handlers
  <2>2. Todo(h)' \in {Todo(h), <<>>} /\ Todo(<<r, s>>) = Todo(h) /\ Todo(<<r, s>>)' = Todo(h)'
    BY <2>1 DEF NothingGained, Todo
  <2>3. Distinct(<<>>) /\ Distinct(Todo(h))
    BY <1>1, <2>1 DEF Distinct, CountInv
  <2>4. QED
    BY <2>2, <2>3 DEF Distinct
<1>3. ASSUME NEW n \in Numbers PROVE CountOf(r, n)'
  <2>1. CountOf(r, n) /\ (Fresh(r, n)' => Fresh(r, n))
    BY <1>1 DEF CountInv, FreshKeeps
  <2>2. QED
    BY <1>1, <2>1, NothingDue, CountOfKeeps
<1>4. QED
  BY <1>2, <1>3

\* The thread goes on: no handler gets a tag, and the one at work loses the one it waits for.
LEMMA WorkerGains ==
    ASSUME AckInv, WorkOK, Worker, NEW h, h = Head(jobs).by
    PROVE  NothingGained /\ \A n \in Numbers : ~Given(h, n)'
<1>1. jobs # <<>>
  BY DEF Worker, Record, Push, Post, Sense, Now
<1>2. h \in Handlers
  BY <1>1 DEF AckInv, OneJobEach, WorkOK
<1>3. \/ Return \/ \E status : EndEvent(status)
      \/ UNCHANGED <<task, jobs>> /\ stage' # Recording
  BY DEF Worker, Record, Push, Post, Sense, TellOrReturn, Advance, ReturnError, MissingReader, FailedSensor,
         Pushing, Attempt, Recording
<1>4. CASE Return \/ \E status : EndEvent(status)
  <2>1. jobs' = Tail(jobs) /\ stage' = Recording /\ \E t : GoesOnAs(h, t)
    BY <1>1, <1>4, ReturnEnds
  <2>2. PICK t : GoesOnAs(h, t)
    BY <2>1
  <2>3. \A n \in Numbers, g \in Handlers : Given(g, n)' => Given(g, n) /\ g # h
    BY <1>1, <2>1, GivenEnds
  <2>4. Todo(h)' = TodoOf(t) /\ \A g \in Handlers : g # h => Todo(g)' = Todo(g)
    BY <1>2, <2>2, TodoSets DEF GoesOnAs, AckInv
  <2>5. QED
    BY <1>2, <2>2, <2>3, <2>4 DEF NothingGained, GoesOnAs
<1>5. CASE UNCHANGED <<task, jobs>> /\ stage' # Recording
  <2>1. \A n \in Numbers, g \in Handlers : Given(g, n)' => Given(g, n) /\ g # h
    BY <1>1, <1>5, GivenEnds
  <2>2. QED
    BY <1>2, <1>5, <2>1 DEF NothingGained, Todo
<1>6. QED
  BY <1>3, <1>4, <1>5

\* A balloon is counted: it was due at this handler, and is due nowhere any more.
LEMMA Counts ==
    ASSUME CountInv, FreshKeeps, NothingGained, restarts' = restarts, restarts \in Nat,
           counted \in [Balloons -> Nat],
           NEW r \in Readers, NEW s \in Slots, NEW n \in Numbers, Given(<<r, s>>, n),
           counted' = [counted EXCEPT ![<<r, n>>] = @ + 1],
           ~Given(<<r, s>>, n)'
    PROVE  CountInv'
<1>1. SUFFICES ASSUME NEW q \in Readers, Fitting(q)
      PROVE  /\ \A t \in Slots : Distinct(Todo(<<q, t>>))'
             /\ \A m \in Numbers : CountOf(q, m)'
  BY DEF CountInv, Fitting
<1>2. ASSUME NEW t \in Slots PROVE Distinct(Todo(<<q, t>>))'
  <2>1. PICK h \in Handlers : h = <<q, t>>
    BY DEF Handlers
  <2>2. Todo(h)' \in {Todo(h), <<>>} /\ Todo(<<q, t>>) = Todo(h) /\ Todo(<<q, t>>)' = Todo(h)'
    BY <2>1 DEF NothingGained, Todo
  <2>3. Distinct(<<>>) /\ Distinct(Todo(h))
    BY <1>1, <2>1 DEF Distinct, CountInv
  <2>4. QED
    BY <2>2, <2>3 DEF Distinct
<1>3. ASSUME NEW m \in Numbers PROVE CountOf(q, m)'
  <2>1. CountOf(q, m) /\ (Fresh(q, m)' => Fresh(q, m))
    BY <1>1 DEF CountInv, FreshKeeps
  <2>2. CASE <<q, m>> # <<r, n>>
    <3>1. counted'[<<q, m>>] = counted[<<q, m>>]
      BY <2>2 DEF Balloons
    <3>2. QED
      BY <2>1, <3>1, NothingDue, CountOfKeeps
  <2>3. CASE <<q, m>> = <<r, n>>
    <3>1. q = r /\ m = n
      BY <2>3
    <3>2. counted'[<<r, n>>] = counted[<<r, n>>] + 1 /\ counted[<<r, n>>] \in Nat
      BY DEF Balloons
    <3>3. /\ counted[<<r, n>>] <= restarts
          /\ ~Fresh(r, n) /\ ~Contains(Todo(<<r, s>>), n)
          /\ \A t \in Slots : Due(<<r, t>>, n) => t = s
      BY <2>1, <3>1 DEF CountOf, Due
    <3>4. counted'[<<r, n>>] <= 1 + restarts'
      BY <3>2, <3>3
    <3>5. ASSUME NEW t \in Slots, Due(<<r, t>>, n)' PROVE FALSE
      <4>1. Due(<<r, t>>, n)
        BY <3>5, NothingDue
      <4>2. t = s
        BY <3>3, <4>1
      <4>3. ~Contains(Todo(<<r, s>>), n)'
        BY <3>3, NothingDue
      <4>4. QED
        BY <3>5, <4>2, <4>3 DEF Due
    <3>6. QED
      BY <2>1, <3>1, <3>3, <3>4, <3>5 DEF CountOf
  <2>4. QED
    BY <2>2, <2>3
<1>4. QED
  BY <1>2, <1>3

LEMMA WorkerCount == ASSUME AckInv, Inv, CountInv, Worker PROVE CountInv'
<1>1. PICK h : h = Head(jobs).by
  OBVIOUS
<1>2. NothingGained /\ \A n \in Numbers : ~Given(h, n)'
  BY <1>1, WorkerGains DEF Inv
<1>3. FreshKeeps
  <2>1. UNCHANGED <<passed, event, recent>>
    BY DEF Worker, Record, Push, Post, Sense, plant, device
  <2>2. QED
    BY <2>1, HandlerFresh DEF Inv
<1>4. restarts' = restarts /\ jobs # <<>>
  BY DEF Worker, Record, Push, Post, Sense, Now
<1>5. CASE counted' = counted
  BY <1>2, <1>3, <1>4, <1>5, CountKeeps
<1>6. CASE counted' # counted
  <2>1. Now("tag", "record") /\ counted' = [counted EXCEPT ![Current] = @ + 1]
    BY <1>6 DEF Worker, Record, Push, Post, Sense
  <2>2. PICK r, s, n : r = h[1] /\ s = h[2] /\ n = Head(jobs).item
    OBVIOUS
  <2>3. Head(jobs) \in Job /\ Head(jobs) = jobs[1] /\ 1 \in 1 .. Len(jobs)
    BY <1>4 DEF Inv, WorkOK
  <2>4. r \in Readers /\ s \in Slots /\ n \in Numbers /\ h = <<r, s>> /\ Current = <<r, n>>
    BY <1>1, <2>2, <2>3 DEF Job, Handlers, Current
  <2>5. stage = Recording
    BY <2>1 DEF Now, Inv, WorkOK, Stages, Pushing, Attempt
  <2>6. Given(<<r, s>>, n)
    BY <1>1, <2>1, <2>2, <2>3, <2>4, <2>5 DEF Given, Now
  <2>7. ~Given(<<r, s>>, n)'
    BY <1>2, <2>4
  <2>8. restarts \in Nat /\ counted \in [Balloons -> Nat]
    BY DEF Inv, DataOK
  <2>9. counted' = [counted EXCEPT ![<<r, n>>] = @ + 1]
    BY <2>1, <2>4
  <2>10. QED
    BY <1>2, <1>3, <1>4, <2>4, <2>6, <2>7, <2>8, <2>9, Counts
<1>7. QED
  BY <1>5, <1>6

\* Only the delivery of tags, and the next tag of an event, give a handler anything to do.
LEMMA NobodyGains ==
    ASSUME AckInv, Inv, StageInv,
           \/ \E r \in Readers : Enter(r) \/ ReadTags(r) \/ Fire(r) \/ Unlist(r) \/ Connect(r) \/ DeliverInput(r)
           \/ \E h \in Handlers : Acknowledge(h) \/ Hangup(h)
    PROVE  NothingGained
<1>1. CASE UNCHANGED <<task, jobs, stage>>
  BY <1>1 DEF NothingGained, Todo, Given
<1>2. ASSUME NEW h \in Handlers, NEW t, task' = [task EXCEPT ![h] = t], TodoOf(t) = <<>>,
             \A g \in Handlers, n \in Numbers : Given(g, n)' => Given(g, n)
      PROVE  NothingGained
  BY <1>2, TodoSets DEF NothingGained, AckInv
<1>3. UNCHANGED <<jobs, stage>> => \A g \in Handlers, n \in Numbers : Given(g, n)' => Given(g, n)
  BY DEF Given
<1>4. TodoOf(Reading) = <<>> /\ TodoOf(Closed) = <<>>
  BY DEF TodoOf, Reading, Closed
<1>5. CASE \E r \in Readers : Enter(r) \/ ReadTags(r) \/ Fire(r) \/ Unlist(r)
  <2>1. UNCHANGED <<task, jobs, stage>>
    BY <1>5 DEF Enter, ReadTags, Fire, Unlist, process
  <2>2. QED
    BY <1>1, <2>1
<1>6. ASSUME NEW r \in Readers, Connect(r) PROVE NothingGained
  <2>1. PICK s \in Slots : task' = [task EXCEPT ![<<r, s>>] = Reading]
    BY <1>6 DEF Connect
  <2>2. PICK h \in Handlers : h = <<r, s>>
    BY DEF Handlers
  <2>3. UNCHANGED <<jobs, stage>>
    BY <1>6 DEF Connect
  <2>4. QED
    BY <1>2, <1>3, <1>4, <2>1, <2>2, <2>3
<1>7. ASSUME NEW r \in Readers, DeliverInput(r) PROVE NothingGained
  <2>1. PICK h, t, job : /\ h = <<r, link[r]>> /\ t = [step |-> "await", todo |-> <<>>]
                         /\ job = [kind |-> "input", by |-> h, item |-> event[r].firing]
    OBVIOUS
  <2>2. /\ h \in Handlers /\ stage' = stage
        /\ task' = [task EXCEPT ![h] = t] /\ jobs' = Append(jobs, job)
    BY <1>7, <2>1 DEF DeliverInput, Deliver, Submit, AckInv, Shape, Handlers
  <2>3. event[r].firing \in Numbers
    <3>1. event[r].kind = "input" /\ EventOK(event[r])
      BY <1>7 DEF DeliverInput, Inv, PlantOK
    <3>2. NoEvent.kind # "input" /\ \A n : Input(n).firing = n
      BY DEF NoEvent, Input
    <3>3. QED
      BY <3>1, <3>2 DEF EventOK
  <2>4. job \in Job /\ job.kind = "input" /\ TodoOf(t) = <<>>
    BY <2>1, <2>2, <2>3 DEF Job, TodoOf
  <2>5. \A g \in Handlers, n \in Numbers : Given(g, n)' => Given(g, n)
    BY <2>2, <2>4, GivenMore DEF Inv
  <2>6. QED
    BY <1>2, <2>2, <2>4, <2>5
<1>8. ASSUME NEW h \in Handlers, Acknowledge(h) \/ Hangup(h) PROVE NothingGained
  <2>1. task' = [task EXCEPT ![h] = Reading] \/ task' = [task EXCEPT ![h] = Closed]
    BY <1>8 DEF Acknowledge, Hangup
  <2>2. UNCHANGED <<jobs, stage>>
    BY <1>8 DEF Acknowledge, Hangup
  <2>3. PICK t \in {Reading, Closed} : task' = [task EXCEPT ![h] = t]
    BY <2>1
  <2>4. QED
    BY <1>2, <1>3, <1>4, <2>2, <2>3
<1>9. QED
  BY <1>5, <1>6, <1>7, <1>8

\* A handler has these tags and no others, each either to come or given to the thread
Takes(h, tags) ==
    /\ Distinct(tags) =>
        /\ Distinct(Todo(h)')
        /\ \A n \in Numbers :
            /\ Contains(Todo(h)', n) \/ Given(h, n)' => Contains(tags, n)
            /\ ~(Contains(Todo(h)', n) /\ Given(h, n)')
    /\ \A g \in Handlers : g # h =>
        Todo(g)' = Todo(g) /\ \A n \in Numbers : Given(g, n)' => Given(g, n)

\* The first of different elements is not among the others.
LEMMA TailDistinct ==
    ASSUME NEW S, NEW s \in Seq(S), s # <<>>, Distinct(s)
    PROVE  /\ Tail(s) \in Seq(S) /\ Head(s) \in S /\ Distinct(Tail(s))
           /\ Contains(s, Head(s)) /\ ~Contains(Tail(s), Head(s))
           /\ \A n : Contains(Tail(s), n) => Contains(s, n)
<1>1. /\ Tail(s) \in Seq(S) /\ Len(s) \in Nat \ {0} /\ Len(Tail(s)) = Len(s) - 1
      /\ Head(s) = s[1] /\ \A i \in 1 .. Len(Tail(s)) : Tail(s)[i] = s[i + 1]
      /\ Head(s) \in S
  OBVIOUS
<1>2. \A i \in 1 .. Len(Tail(s)) : i + 1 \in 1 .. Len(s) /\ i + 1 # 1
  BY <1>1
<1>3. Distinct(Tail(s))
  <2>1. SUFFICES ASSUME NEW i \in 1 .. Len(Tail(s)), NEW j \in 1 .. Len(Tail(s)),
                        Tail(s)[i] = Tail(s)[j]
                 PROVE  i = j
    BY DEF Distinct
  <2>2. i + 1 = j + 1
    BY <1>1, <1>2, <2>1 DEF Distinct
  <2>3. QED
    BY <1>1, <2>2
<1>4. ~Contains(Tail(s), Head(s))
  BY <1>1, <1>2 DEF Contains, Distinct
<1>5. \A n : Contains(Tail(s), n) => Contains(s, n)
  BY <1>1, <1>2 DEF Contains
<1>6. Contains(s, Head(s))
  BY <1>1 DEF Contains
<1>7. QED
  BY <1>1, <1>3, <1>4, <1>5, <1>6

\* The handler gives the thread the first of its tags and keeps the others.
LEMMA ProceedTakes ==
    ASSUME AckInv, WorkOK, StageInv, NEW h \in Handlers, NEW tags \in Seq(Numbers),
           Proceed(h, tags), task[h].step # "await", stage' = stage
    PROVE  Takes(h, tags)
<1>1. ASSUME NEW n PROVE ~Given(h, n)
  BY DEF Given, AckInv, OneJobEach
<1>2. CASE tags = <<>>
  <2>1. PICK status : task' = [task EXCEPT ![h] = Acknowledging(status)] /\ jobs' = jobs
    BY <1>2 DEF Proceed, Lamp
  <2>2. PICK t : t = Acknowledging(status)
    OBVIOUS
  <2>3. TodoOf(t) = <<>>
    BY <2>2 DEF Acknowledging, TodoOf
  <2>4. Todo(h)' = <<>> /\ \A g \in Handlers : g # h => Todo(g)' = Todo(g)
    BY <2>1, <2>2, <2>3, TodoSets DEF AckInv
  <2>5. \A g, n : Given(g, n)' <=> Given(g, n)
    BY <2>1 DEF Given
  <2>6. Distinct(<<>>) /\ \A n : ~Contains(<<>>, n)
    BY DEF Distinct, Contains
  <2>7. QED
    BY <1>1, <2>4, <2>5, <2>6 DEF Takes
<1>3. CASE tags # <<>>
  <2>1. PICK t, job : /\ t = [step |-> "await", todo |-> Tail(tags)]
                      /\ job = [kind |-> "tag", by |-> h, item |-> Head(tags)]
    OBVIOUS
  <2>2. task' = [task EXCEPT ![h] = t] /\ jobs' = Append(jobs, job)
    BY <1>3, <2>1 DEF Proceed, Submit
  <2>3. Tail(tags) \in Seq(Numbers) /\ Head(tags) \in Numbers
    BY <1>3
  <2>4. ASSUME Distinct(tags)
        PROVE  /\ Distinct(Tail(tags)) /\ Contains(tags, Head(tags)) /\ ~Contains(Tail(tags), Head(tags))
               /\ \A n : Contains(Tail(tags), n) => Contains(tags, n)
    BY <1>3, <2>4, TailDistinct
  <2>5. TodoOf(t) = Tail(tags) /\ job \in Job /\ job.by = h /\ job.item = Head(tags)
    BY <2>1, <2>3 DEF TodoOf, Job
  <2>6. Todo(h)' = Tail(tags) /\ \A g \in Handlers : g # h => Todo(g)' = Todo(g)
    BY <2>2, <2>5, TodoSets DEF AckInv
  <2>7. \A g \in Handlers, n \in Numbers :
          Given(g, n)' => Given(g, n) \/ (job.kind = "tag" /\ job.by = g /\ job.item = n)
    BY <2>2, <2>5, GivenMore
  <2>8. \A n \in Numbers : Given(h, n)' => n = Head(tags)
    BY <1>1, <2>5, <2>7
  <2>9. \A g \in Handlers : g # h => \A n \in Numbers : Given(g, n)' => Given(g, n)
    BY <2>5, <2>7
  <2>10. QED
    BY <2>4, <2>6, <2>8, <2>9 DEF Takes
<1>4. QED
  BY <1>2, <1>3

\* A handler takes tags that it had, or that were new and are not any more.
LEMMA TakesCount ==
    ASSUME CountInv, UNCHANGED <<counted, restarts>>, FreshKeeps,
           NEW h \in Handlers, NEW tags, Takes(h, tags),
           Fitting(h[1]) =>
               /\ Distinct(tags)
               /\ \A n \in Numbers : Contains(tags, n) =>
                      Due(h, n) \/ (Fresh(h[1], n) /\ ~Fresh(h[1], n)')
    PROVE  CountInv'
<1>1. SUFFICES ASSUME NEW r \in Readers, Fitting(r)
      PROVE  /\ \A s \in Slots : Distinct(Todo(<<r, s>>))'
             /\ \A n \in Numbers : CountOf(r, n)'
  BY DEF CountInv, Fitting
<1>2. \A s \in Slots : <<r, s>> \in Handlers /\ (<<r, s>> = h => r = h[1] /\ s = h[2])
  BY DEF Handlers
<1>3. ASSUME NEW s \in Slots PROVE Distinct(Todo(<<r, s>>))'
  <2>1. CASE <<r, s>> = h
    <3>1. Distinct(Todo(h)')
      BY <1>1, <1>2, <2>1 DEF Takes
    <3>2. Todo(<<r, s>>)' = Todo(h)'
      BY <2>1 DEF Todo
    <3>3. QED
      BY <3>1, <3>2 DEF Distinct
  <2>2. CASE <<r, s>> # h
    <3>1. Todo(<<r, s>>)' = Todo(<<r, s>>)
      BY <1>2, <2>2 DEF Takes
    <3>2. QED
      BY <1>1, <3>1 DEF CountInv, Distinct
  <2>3. QED
    BY <2>1, <2>2
<1>4. ASSUME NEW n \in Numbers PROVE CountOf(r, n)'
  <2>1. CountOf(r, n) /\ (Fresh(r, n)' => Fresh(r, n))
    BY <1>1 DEF CountInv, FreshKeeps
  <2>2. ASSUME NEW s \in Slots, <<r, s>> # h
        PROVE  /\ Contains(Todo(<<r, s>>), n)' => Contains(Todo(<<r, s>>), n)
               /\ Given(<<r, s>>, n)' => Given(<<r, s>>, n)
    <3>1. Todo(<<r, s>>)' = Todo(<<r, s>>)
      BY <1>2, <2>2 DEF Takes
    <3>2. QED
      BY <1>2, <2>2, <3>1 DEF Takes, Contains
  <2>3. ASSUME NEW s \in Slots, <<r, s>> = h
        PROVE  /\ Contains(Todo(<<r, s>>), n)' \/ Given(<<r, s>>, n)' =>
                      Due(<<r, s>>, n) \/ (Fresh(r, n) /\ ~Fresh(r, n)')
               /\ ~(Contains(Todo(<<r, s>>), n) /\ Given(<<r, s>>, n))'
    <3>1. r = h[1] /\ Todo(<<r, s>>)' = Todo(h)'
          /\ (Given(<<r, s>>, n)' <=> Given(h, n)') /\ (Due(<<r, s>>, n) <=> Due(h, n))
      BY <1>2, <2>3 DEF Todo, Given, Due
    <3>2. Contains(Todo(<<r, s>>), n)' <=> Contains(Todo(h)', n)
      BY <3>1 DEF Contains
    <3>3. /\ Contains(Todo(h)', n) \/ Given(h, n)' => Contains(tags, n)
          /\ ~(Contains(Todo(h)', n) /\ Given(h, n)')
      BY <1>1, <3>1 DEF Takes
    <3>4. Contains(tags, n) => Due(h, n) \/ (Fresh(r, n) /\ ~Fresh(r, n)')
      BY <1>1, <3>1
    <3>5. QED
      BY <3>1, <3>2, <3>3, <3>4
  <2>4. CASE Fresh(r, n) /\ ~Fresh(r, n)'
    <3>1. counted[<<r, n>>] <= restarts /\ \A s \in Slots : ~Due(<<r, s>>, n)
      BY <2>1, <2>4 DEF CountOf
    <3>2. ASSUME NEW s \in Slots, Due(<<r, s>>, n)' PROVE <<r, s>> = h
      BY <2>2, <3>1, <3>2 DEF Due
    <3>3. QED
      BY <2>1, <2>3, <2>4, <3>1, <3>2 DEF CountOf
  <2>5. CASE ~(Fresh(r, n) /\ ~Fresh(r, n)')
    <3>1. ASSUME NEW s \in Slots
          PROVE  /\ Due(<<r, s>>, n)' => Due(<<r, s>>, n)
                 /\ ~(Contains(Todo(<<r, s>>), n) /\ Given(<<r, s>>, n))
                    => ~(Contains(Todo(<<r, s>>), n) /\ Given(<<r, s>>, n))'
      BY <2>2, <2>3, <2>5 DEF Due
    <3>2. QED
      BY <2>1, <3>1, CountOfKeeps
  <2>6. QED
    BY <2>4, <2>5
<1>5. QED
  BY <1>3, <1>4

\* The next tag of an event was among those to come.
LEMMA NextTagCount ==
    ASSUME AckInv, Inv, StageInv, CountInv, NEW h \in Handlers, NextTag(h)
    PROVE  CountInv'
<1>1. PICK tags : tags = task[h].todo
  OBVIOUS
<1>2. /\ Proceed(h, tags) /\ stage' = stage /\ task[h].step = "next"
      /\ UNCHANGED <<counted, restarts, passed, event, recent>>
  BY <1>1 DEF NextTag, plant, device, data
<1>3. tags = Todo(h) /\ tags \in Seq(Numbers)
  BY <1>1, <1>2 DEF Todo, Inv, WorkOK
<1>4. Takes(h, tags)
  BY <1>2, <1>3, ProceedTakes DEF Inv
<1>5. FreshKeeps
  BY <1>2, HandlerFresh DEF Inv
<1>6. h = <<h[1], h[2]>> /\ h[1] \in Readers /\ h[2] \in Slots
  BY DEF Handlers
<1>7. Fitting(h[1]) => Distinct(tags)
  BY <1>3, <1>6 DEF CountInv
<1>8. \A n \in Numbers : Contains(tags, n) => Due(h, n)
  BY <1>3 DEF Due
<1>9. QED
  BY <1>2, <1>4, <1>5, <1>7, <1>8, TakesCount

\* The tags of a new event were fresh.
LEMMA DeliverCount ==
    ASSUME AckInv, Inv, StageInv, CountInv, NEW r \in Readers, DeliverTags(r)
    PROVE  CountInv'
<1>1. PICK h, new : h = <<r, link[r]>> /\ new = FilterDuplicates(r, event[r].tags).new
  OBVIOUS
<1>2. /\ h \in Handlers /\ h[1] = r /\ Proceed(h, new)
      /\ UNCHANGED <<stage, counted, restarts>> /\ task[h].step = "read"
  BY <1>1 DEF DeliverTags, Deliver, data, AckInv, Shape, Handlers, Reading
<1>3. new \in Seq(Numbers)
  BY <1>1, NewTags DEF Inv
<1>4. Takes(h, new)
  BY <1>2, <1>3, ProceedTakes DEF Inv
<1>5. FreshKeeps
  BY <1>1, DeliverElsewhere, DeliverFresh DEF FreshKeeps, Inv
<1>6. ASSUME Fitting(r)
      PROVE  /\ Distinct(new)
             /\ \A n \in Numbers : Contains(new, n) => Fresh(r, n) /\ ~Fresh(r, n)'
  BY <1>1, <1>6, DeliverFresh DEF Inv
<1>7. QED
  BY <1>2, <1>4, <1>5, <1>6, TakesCount

\* A restart lets every balloon be counted once more.
LEMMA RestartCount == ASSUME Inv, CountInv, Restart PROVE CountInv'
<1>1. /\ restarts' = restarts + 1 /\ counted' = counted
      /\ task' = [h \in Handlers |-> Closed] /\ jobs' = <<>>
  BY DEF Restart, data
<1>2. restarts \in Nat /\ counted \in [Balloons -> Nat]
  BY DEF Inv, DataOK
<1>3. SUFFICES ASSUME NEW r \in Readers, Fitting(r)
      PROVE  /\ \A s \in Slots : Distinct(Todo(<<r, s>>))'
             /\ \A n \in Numbers : CountOf(r, n)'
  BY DEF CountInv, Fitting
<1>4. ASSUME NEW s \in Slots
      PROVE  Todo(<<r, s>>)' = <<>> /\ \A n \in Numbers : ~Due(<<r, s>>, n)'
  <2>1. <<r, s>> \in Handlers
    BY DEF Handlers
  <2>2. Todo(<<r, s>>)' = <<>>
    BY <1>1, <2>1 DEF Todo, Closed
  <2>3. QED
    BY <1>1, <2>2 DEF Due, Given, Contains
<1>5. ASSUME NEW n \in Numbers PROVE CountOf(r, n)'
  <2>1. counted[<<r, n>>] \in Nat /\ counted[<<r, n>>] <= 1 + restarts
    BY <1>2, <1>3 DEF CountInv, CountOf, Balloons
  <2>2. counted'[<<r, n>>] <= restarts' /\ counted'[<<r, n>>] <= 1 + restarts'
    BY <1>1, <1>2, <2>1
  <2>3. QED
    BY <1>4, <2>2 DEF CountOf
<1>6. QED
  BY <1>4, <1>5 DEF Distinct

LEMMA InitCount == Init => CountInv
<1>1. SUFFICES ASSUME Init PROVE CountInv
  OBVIOUS
<1>2. /\ counted = [b \in Balloons |-> 0] /\ restarts = 0
      /\ task = [h \in Handlers |-> Closed] /\ jobs = <<>>
  BY <1>1, Zenon DEF Init
<1> HIDE <1>1
<1>3. ASSUME NEW r \in Readers, NEW s \in Slots
      PROVE  Todo(<<r, s>>) = <<>> /\ \A n \in Numbers : ~Due(<<r, s>>, n)
  <2>1. <<r, s>> \in Handlers
    BY DEF Handlers
  <2>2. Todo(<<r, s>>) = <<>>
    BY <1>2, <2>1 DEF Todo, Closed
  <2>3. QED
    BY <1>2, <2>2 DEF Due, Given, Contains
<1>4. ASSUME NEW r \in Readers, NEW n \in Numbers PROVE CountOf(r, n)
  <2>1. counted[<<r, n>>] = 0
    BY <1>2 DEF Balloons
  <2>2. QED
    BY <1>2, <1>3, <2>1 DEF CountOf
<1>5. QED
  BY <1>3, <1>4 DEF CountInv, Distinct

LEMMA CountInvariant == Spec => []CountInv
<1>1. AckInv /\ Inv /\ Inv' /\ StatusInv /\ CountInv /\ [Next]_vars => CountInv'
  <2>1. SUFFICES ASSUME AckInv, Inv, Inv', StatusInv, CountInv, [Next]_vars PROVE CountInv'
    OBVIOUS
  <2>2. StageInv
    BY <2>1 DEF StatusInv
  <2>3. CASE UNCHANGED vars
    <3>1. /\ UNCHANGED <<passed, event, recent>> /\ UNCHANGED <<task, jobs, stage>>
          /\ UNCHANGED <<counted, restarts>>
      BY <2>3 DEF vars, plant, device, process, data
    <3>2. FreshKeeps
      BY <2>1, <3>1, HandlerFresh DEF Inv
    <3>3. NothingGained
      BY <3>1 DEF NothingGained, Todo, Given
    <3>4. QED
      BY <2>1, <3>1, <3>2, <3>3, CountKeeps
  <2>4. ASSUME NEW r \in Readers, Reader(r) PROVE CountInv'
    <3>1. CASE Enter(r) \/ ReadTags(r) \/ Fire(r) \/ Unlist(r) \/ Connect(r) \/ DeliverInput(r)
      <4>1. NothingGained
        BY <2>1, <2>2, <3>1, NobodyGains
      <4>2. FreshKeeps
        BY <2>1, <3>1, ReaderFresh DEF Inv
      <4>3. UNCHANGED <<counted, restarts>>
        BY <3>1 DEF Enter, ReadTags, Fire, Unlist, Connect, DeliverInput, Deliver, data
      <4>4. QED
        BY <2>1, <4>1, <4>2, <4>3, CountKeeps
    <3>2. CASE DeliverTags(r)
      BY <2>1, <2>2, <3>2, DeliverCount
    <3>3. QED
      BY <2>4, <3>1, <3>2 DEF Reader
  <2>5. ASSUME NEW h \in Handlers, Handler(h) PROVE CountInv'
    <3>1. CASE Acknowledge(h) \/ Hangup(h)
      <4>1. NothingGained
        BY <2>1, <2>2, <3>1, NobodyGains
      <4>2. FreshKeeps
        <5>1. UNCHANGED <<passed, event, recent>> \/ \E g \in Handlers : Acknowledge(g)
          BY <3>1 DEF Hangup, plant, device
        <5>2. QED
          BY <2>1, <5>1, HandlerFresh DEF Inv
      <4>3. UNCHANGED <<counted, restarts>>
        BY <3>1 DEF Acknowledge, Hangup, data
      <4>4. QED
        BY <2>1, <4>1, <4>2, <4>3, CountKeeps
    <3>2. CASE NextTag(h)
      BY <2>1, <2>2, <3>2, NextTagCount
    <3>3. QED
      BY <2>5, <3>1, <3>2 DEF Handler
  <2>6. CASE Worker
    BY <2>1, <2>6, WorkerCount
  <2>7. CASE Restart
    BY <2>1, <2>7, RestartCount
  <2>8. QED
    BY <2>1, <2>3, <2>4, <2>5, <2>6, <2>7 DEF Next
<1>2. QED
  BY <1>1, InitCount, TypeInvariant, StatusInvariant, PTL DEF Spec

\* For any number of readers, connections and balloons, and whatever the reader repeats, the
\* handlers of older connections still do, or fails: where the balloons that stand in the field
\* before a balloon and behind it fit in the deque, no balloon is counted twice in the life of
\* a process (filter_duplicate_tag, process_tag_event, DailyReaderCounter.add_rfid).
THEOREM BalloonCountedOnce == Spec => []CountedOnce
<1>1. CountInv => CountedOnce
  <2>1. SUFFICES ASSUME CountInv, NEW b \in Balloons, 2 * (FieldSize[b[1]] - 1) < WINDOW[b[1]]
                 PROVE  counted[b] <= 1 + restarts
    BY DEF CountedOnce
  <2>2. PICK r \in Readers, n \in Numbers : b = <<r, n>>
    BY DEF Balloons
  <2>3. QED
    BY <2>1, <2>2 DEF CountInv, CountOf, Fitting
<1>2. QED
  BY <1>1, CountInvariant, PTL

----------------------------------------------------------------------------
(* The passports join the list in order *)

\* The thread has still to put the tag into the list
TagJob(r, i) == jobs[i].kind = "tag" /\ jobs[i].by[1] = r /\ (i = 1 => stage.step # "post")

Waits(r, n) == \E i \in 1 .. Len(jobs) : TagJob(r, i) /\ jobs[i].item = n

Rising(r) ==
    \A i, j \in 1 .. Len(jobs) :
        i < j /\ TagJob(r, i) /\ TagJob(r, j) => jobs[i].item < jobs[j].item

\* No event will have an older balloon
Behind(r, n) == n <= passed[r] /\ \A i \in 1 .. Len(TagsOf(r)) : n <= TagsOf(r)[i]

Before(m, n) == m < n \/ (m = n /\ restarts > 0)

OrderOf(r) ==
    /\ \A s \in Slots : Todo(<<r, s>>) = <<>>
    /\ Len(TagsOf(r)) <= 1
    /\ Rising(r)
    /\ \A n \in Numbers : Waits(r, n) => Behind(r, n) /\ ~Fresh(r, n)
    /\ \A i \in 1 .. Len(queue[r]) :
        /\ Behind(r, queue[r][i])
        /\ restarts = 0 => ~Fresh(r, queue[r][i])
        /\ \A n \in Numbers : Waits(r, n) => Before(queue[r][i], n)
        /\ \A j \in 1 .. Len(queue[r]) : i < j => Before(queue[r][i], queue[r][j])

OrderInv == \A r \in Readers : FieldSize[r] = 1 => OrderOf(r)

\* The thread gets no tag of the reader
Calm(r) ==
    /\ \A s \in Slots : Todo(<<r, s>>)' \in {Todo(<<r, s>>), <<>>}
    /\ \A n \in Numbers : Waits(r, n)' => Waits(r, n)
    /\ Rising(r) => Rising(r)'

\* Where the field holds one balloon, any deque is long enough.
LEMMA SingleFits == ASSUME NEW r \in Readers, FieldSize[r] = 1 PROVE Fitting(r)
  BY BoundAssumption DEF Fitting

\* The thread ends its first piece of work, or goes on to the post.
LEMMA JobsGoOn ==
    ASSUME WorkOK, jobs # <<>>, NEW r \in Readers,
           \/ jobs' = Tail(jobs)
           \/ jobs' = jobs /\ (stage'.step # "post" => stage.step # "post")
    PROVE  /\ \A n \in Numbers : Waits(r, n)' => Waits(r, n)
           /\ Rising(r) => Rising(r)'
<1>1. PICK d : d = IF jobs' = Tail(jobs) THEN 1 ELSE 0
  OBVIOUS
<1>2. \A i \in 1 .. Len(jobs') : i + d \in 1 .. Len(jobs) /\ jobs'[i] = jobs[i + d]
  <2>1. CASE jobs' = Tail(jobs)
    <3>1. /\ Len(jobs') = Len(jobs) - 1 /\ Len(jobs) \in Nat
          /\ \A j \in 1 .. Len(jobs) - 1 : jobs'[j] = jobs[j + 1]
      BY <2>1 DEF WorkOK
    <3>2. QED
      BY <1>1, <2>1, <3>1
  <2>2. CASE jobs' # Tail(jobs)
    BY <1>1, <2>2 DEF WorkOK
  <2>3. QED
    BY <2>1, <2>2
<1>3. ASSUME NEW i \in 1 .. Len(jobs'), TagJob(r, i)' PROVE TagJob(r, i + d)
  BY <1>1, <1>2, <1>3 DEF TagJob
<1>4. ASSUME NEW n \in Numbers, Waits(r, n)' PROVE Waits(r, n)
  BY <1>2, <1>3, <1>4 DEF Waits
<1>5. ASSUME Rising(r) PROVE Rising(r)'
  <2>1. SUFFICES ASSUME NEW i \in 1 .. Len(jobs'), NEW j \in 1 .. Len(jobs'),
                        i < j, TagJob(r, i)', TagJob(r, j)'
                 PROVE  jobs'[i].item < jobs'[j].item
    BY DEF Rising
  <2>2. TagJob(r, i + d) /\ TagJob(r, j + d) /\ i + d < j + d
    BY <1>1, <1>3, <2>1
  <2>3. QED
    BY <1>2, <1>5, <2>2 DEF Rising
<1>6. QED
  BY <1>4, <1>5

\* The passport of the first piece of work joins the list: the others are of later balloons.
LEMMA PushFirst ==
    ASSUME WorkOK, NEW r \in Readers, Now("tag", "push"), CurrentReader = r, Rising(r),
           NEW n \in Numbers, n = Current[2],
           jobs' = Tail(jobs) \/ (jobs' = jobs /\ stage'.step = "post")
    PROVE  /\ Waits(r, n)
           /\ \A m \in Numbers : Waits(r, m)' => n < m
<1>1. /\ jobs # <<>> /\ Head(jobs) = jobs[1] /\ 1 \in 1 .. Len(jobs) /\ Len(jobs) \in Nat
      /\ stage.step = "push" /\ jobs[1].kind = "tag" /\ jobs[1].by[1] = r /\ jobs[1].item = n
  BY DEF WorkOK, Now, CurrentReader, Current
<1>2. TagJob(r, 1) /\ Waits(r, n)
  BY <1>1 DEF TagJob, Waits
<1>3. ASSUME NEW m \in Numbers, Waits(r, m)' PROVE n < m
  <2>1. PICK i \in 1 .. Len(jobs') : TagJob(r, i)' /\ jobs'[i].item = m
    BY <1>3 DEF Waits
  <2>2. PICK k : k = IF jobs' = Tail(jobs) THEN i + 1 ELSE i
    OBVIOUS
  <2>3. k \in 1 .. Len(jobs) /\ 1 < k /\ jobs'[i] = jobs[k]
    <3>1. CASE jobs' = Tail(jobs)
      <4>1. /\ Len(jobs') = Len(jobs) - 1
            /\ \A j \in 1 .. Len(jobs) - 1 : jobs'[j] = jobs[j + 1]
        BY <3>1 DEF WorkOK
      <4>2. QED
        BY <1>1, <2>1, <2>2, <3>1, <4>1
    <3>2. CASE jobs' # Tail(jobs)
      BY <1>1, <2>1, <2>2, <3>2 DEF TagJob
    <3>3. QED
      BY <3>1, <3>2
  <2>4. TagJob(r, k)
    BY <2>1, <2>3 DEF TagJob
  <2>5. QED
    BY <1>1, <1>2, <2>1, <2>3, <2>4 DEF Rising
<1>4. QED
  BY <1>2, <1>3

\* The thread is given more.
LEMMA JobsGrow ==
    ASSUME WorkOK, NEW r \in Readers, NEW job \in Job, jobs' = Append(jobs, job), stage' = stage
    PROVE  /\ \A n \in Numbers : Waits(r, n)' =>
                  Waits(r, n) \/ (job.kind = "tag" /\ job.by[1] = r /\ job.item = n)
           /\ (job.kind = "tag" /\ job.by[1] = r
                  => \A n \in Numbers : Waits(r, n) => n < job.item)
              => (Rising(r) => Rising(r)')
<1>0. PICK k : k = Len(jobs) + 1
  OBVIOUS
<1>1. /\ Len(jobs) \in Nat /\ Len(jobs') = Len(jobs) + 1
      /\ jobs'[k] = job /\ \A i \in 1 .. Len(jobs) : jobs'[i] = jobs[i]
  BY <1>0 DEF WorkOK
<1>2. \A i \in 1 .. Len(jobs') : i \in 1 .. Len(jobs) \/ i = k
  BY <1>0, <1>1
<1>3. \A i \in 1 .. Len(jobs) : TagJob(r, i)' => TagJob(r, i)
  BY <1>1 DEF TagJob
<1>4. TagJob(r, k)' => job.kind = "tag" /\ job.by[1] = r
  BY <1>1 DEF TagJob
<1>5. ASSUME NEW n \in Numbers, Waits(r, n)'
      PROVE  Waits(r, n) \/ (job.kind = "tag" /\ job.by[1] = r /\ job.item = n)
  <2>1. PICK i \in 1 .. Len(jobs') : TagJob(r, i)' /\ jobs'[i].item = n
    BY <1>5 DEF Waits
  <2>2. QED
    BY <1>1, <1>2, <1>3, <1>4, <2>1 DEF Waits
<1>6. ASSUME job.kind = "tag" /\ job.by[1] = r
                 => \A n \in Numbers : Waits(r, n) => n < job.item,
             Rising(r)
      PROVE  Rising(r)'
  <2>1. SUFFICES ASSUME NEW i \in 1 .. Len(jobs'), NEW j \in 1 .. Len(jobs'),
                        i < j, TagJob(r, i)', TagJob(r, j)'
                 PROVE  jobs'[i].item < jobs'[j].item
    BY DEF Rising
  <2>2. i \in 1 .. Len(jobs) /\ TagJob(r, i)
    BY <1>0, <1>1, <1>3, <2>1
  <2>3. CASE j \in 1 .. Len(jobs)
    BY <1>1, <1>3, <1>6, <2>1, <2>2, <2>3 DEF Rising
  <2>4. CASE j = k
    <3>1. jobs[i].item \in Numbers /\ Waits(r, jobs[i].item)
      <4>1. jobs[i] \in Job
        BY <2>2, ElementFacts DEF WorkOK
      <4>2. QED
        BY <2>2, <4>1 DEF Waits, Job
    <3>2. job.kind = "tag" /\ job.by[1] = r
      BY <1>4, <2>1, <2>4
    <3>3. QED
      BY <1>1, <1>6, <2>2, <2>4, <3>1, <3>2
  <2>5. QED
    BY <1>2, <2>3, <2>4
<1>7. QED
  BY <1>5, <1>6

\* What passes the reader while the thread gets nothing of it.
LEMMA CalmOrder ==
    ASSUME Inv, Inv', NEW r \in Readers, FieldSize[r] = 1, OrderOf(r), Calm(r), FreshKeeps,
           queue'[r] = queue[r], restarts' = restarts, passed[r] <= passed'[r],
           \/ TagsOf(r)' \in {TagsOf(r), <<>>}
           \/ /\ Len(TagsOf(r)') <= 1
              /\ \A i \in 1 .. Len(TagsOf(r)') : passed[r] <= TagsOf(r)'[i]
    PROVE  OrderOf(r)'
<1>1. /\ passed[r] \in Nat /\ passed'[r] \in Nat
      /\ TagsOf(r)' \in Seq(Nat) /\ \A i \in 1 .. Len(TagsOf(r)') : TagsOf(r)'[i] \in Nat
  <2>1. passed[r] \in Nat /\ passed'[r] \in Nat
    BY DEF Inv, PlantOK
  <2>2. TagsOf(r)' \in Seq(1 .. passed'[r])
    BY DEF Inv, PlantOK, RecentOK
  <2>3. 1 .. passed'[r] \subseteq Nat
    OBVIOUS
  <2>4. QED
    BY <2>1, <2>2, <2>3, ElementFacts
<1>2. Len(TagsOf(r)') <= 1
  BY DEF OrderOf
<1>3. \A s \in Slots : Todo(<<r, s>>)' = <<>>
  BY DEF Calm, OrderOf
<1>4. ASSUME NEW n \in Numbers, Behind(r, n) PROVE Behind(r, n)'
  <2>1. n <= passed[r] /\ n \in Nat
    BY <1>4, BoundAssumption DEF Behind, Numbers
  <2>2. n <= passed'[r]
    BY <1>1, <2>1
  <2>3. ASSUME NEW i \in 1 .. Len(TagsOf(r)') PROVE n <= TagsOf(r)'[i]
    <3>1. CASE TagsOf(r)' = TagsOf(r)
      BY <1>4, <2>3, <3>1 DEF Behind
    <3>2. CASE TagsOf(r)' = <<>>
      BY <2>3, <3>2
    <3>3. CASE passed[r] <= TagsOf(r)'[i]
      BY <1>1, <2>1, <2>3, <3>3
    <3>4. QED
      BY <2>3, <3>1, <3>2, <3>3
  <2>4. QED
    BY <2>2, <2>3 DEF Behind
<1>5. ASSUME NEW n \in Numbers, ~Fresh(r, n) PROVE ~Fresh(r, n)'
  BY <1>5, SingleFits DEF FreshKeeps
<1>6. ASSUME NEW n \in Numbers, Waits(r, n)' PROVE Waits(r, n) /\ Behind(r, n)' /\ ~Fresh(r, n)'
  BY <1>4, <1>5, <1>6 DEF Calm, OrderOf
<1>7. ASSUME NEW i \in 1 .. Len(queue[r])
      PROVE  /\ Behind(r, queue[r][i])'
             /\ restarts' = 0 => ~Fresh(r, queue[r][i])'
             /\ \A n \in Numbers : Waits(r, n)' => Before(queue[r][i], n)'
             /\ \A j \in 1 .. Len(queue[r]) : i < j => Before(queue[r][i], queue[r][j])'
  <2>1. PICK m \in Numbers : m = queue[r][i]
    BY ElementFacts DEF Inv, DataOK
  <2>2. Behind(r, m)'
    BY <1>4, <2>1 DEF OrderOf
  <2>3. restarts' = 0 => ~Fresh(r, m)'
    BY <1>5, <2>1 DEF OrderOf
  <2>4. \A n \in Numbers : Waits(r, n)' => Before(m, n)'
    BY <1>6, <2>1 DEF OrderOf, Before
  <2>5. \A j \in 1 .. Len(queue[r]) : i < j => Before(m, queue[r][j])'
    BY <2>1 DEF OrderOf, Before
  <2>6. queue[r][i]' = m
    BY <2>1
  <2>7. QED
    BY <2>2, <2>3, <2>4, <2>5, <2>6 DEF Behind, Fresh, Gone, Before
<1>8. Rising(r)'
  BY DEF Calm, OrderOf
<1>9. QED
  BY <1>2, <1>3, <1>6, <1>7, <1>8 DEF OrderOf

\* A passport joins the list: it is behind those that are there, and those that wait behind it.
LEMMA PushOrder ==
    ASSUME Inv, NEW r \in Readers, OrderOf(r), Calm(r),
           UNCHANGED <<passed, event, recent, restarts>>,
           NEW n \in Numbers, Waits(r, n), \A m \in Numbers : Waits(r, m)' => n < m,
           queue'[r] = Append(queue[r], n)
    PROVE  OrderOf(r)'
<1>1. PICK k : k = Len(queue[r]) + 1
  OBVIOUS
<1>2. /\ queue[r] \in Seq(Numbers) /\ Len(queue[r]) \in Nat
      /\ Len(queue'[r]) = k /\ queue'[r][k] = n
      /\ \A i \in 1 .. Len(queue[r]) : queue'[r][i] = queue[r][i]
  BY <1>1 DEF Inv, DataOK
<1>3. \A i \in 1 .. Len(queue'[r]) : i \in 1 .. Len(queue[r]) \/ i = k
  BY <1>1, <1>2
<1>4. TagsOf(r)' = TagsOf(r) /\ \A m : (Behind(r, m)' <=> Behind(r, m)) /\ (Fresh(r, m)' <=> Fresh(r, m))
  BY DEF TagsOf, Behind, Fresh, Gone
<1>5. \A a, b : Before(a, b)' <=> Before(a, b)
  BY DEF Before
<1>6. Behind(r, n) /\ ~Fresh(r, n) /\ \A i \in 1 .. Len(queue[r]) : Before(queue[r][i], n)
  BY DEF OrderOf
<1>7. \A m \in Numbers : Waits(r, m)' => Waits(r, m) /\ Before(n, m)
  BY DEF Calm, Before
<1>8. ASSUME NEW i \in 1 .. Len(queue'[r])
      PROVE  /\ Behind(r, queue'[r][i])
             /\ restarts = 0 => ~Fresh(r, queue'[r][i])
             /\ \A m \in Numbers : Waits(r, m)' => Before(queue'[r][i], m)
             /\ \A j \in 1 .. Len(queue'[r]) : i < j => Before(queue'[r][i], queue'[r][j])
  <2>1. CASE i = k
    <3>1. \A j \in 1 .. Len(queue'[r]) : ~(i < j)
      BY <1>1, <1>2, <2>1
    <3>2. QED
      BY <1>2, <1>6, <1>7, <2>1, <3>1
  <2>2. CASE i \in 1 .. Len(queue[r])
    <3>1. ASSUME NEW j \in 1 .. Len(queue'[r]), i < j
          PROVE  Before(queue'[r][i], queue'[r][j])
      BY <1>2, <1>3, <1>6, <2>2, <3>1 DEF OrderOf
    <3>2. QED
      BY <1>2, <1>7, <2>2, <3>1 DEF OrderOf
  <2>3. QED
    BY <1>3, <2>1, <2>2
<1>9. /\ \A s \in Slots : Todo(<<r, s>>)' = <<>>
      /\ Len(TagsOf(r)') <= 1 /\ Rising(r)'
      /\ \A m \in Numbers : Waits(r, m)' => Behind(r, m)' /\ ~Fresh(r, m)'
  BY <1>4, <1>7 DEF Calm, OrderOf
<1>10. ASSUME NEW i \in 1 .. Len(queue'[r])
       PROVE  /\ Behind(r, queue[r][i])'
              /\ restarts' = 0 => ~Fresh(r, queue[r][i])'
              /\ \A m \in Numbers : Waits(r, m)' => Before(queue[r][i], m)'
              /\ \A j \in 1 .. Len(queue'[r]) : i < j => Before(queue[r][i], queue[r][j])'
  <2>1. PICK m : m = queue'[r][i]
    OBVIOUS
  <2>2. Behind(r, m)' /\ (restarts' = 0 => ~Fresh(r, m)')
    BY <1>4, <1>8, <2>1
  <2>3. QED
    BY <1>5, <1>8, <2>1, <2>2 DEF Behind, Fresh, Gone, Before
<1>11. QED
  BY <1>9, <1>10 DEF OrderOf

\* What a handler has to do, as seen from its reader.
LEMMA TodoHere ==
    ASSUME NothingGained, NEW r \in Readers, NEW s \in Slots
    PROVE  Todo(<<r, s>>)' \in {Todo(<<r, s>>), <<>>}
<1>1. PICK h \in Handlers : h = <<r, s>>
  BY DEF Handlers
<1>2. Todo(h)' \in {Todo(h), <<>>} /\ Todo(<<r, s>>) = Todo(h) /\ Todo(<<r, s>>)' = Todo(h)'
  BY <1>1 DEF NothingGained, Todo
<1>3. QED
  BY <1>2

LEMMA WorkerOrder ==
    ASSUME AckInv, Inv, Inv', NEW r \in Readers, FieldSize[r] = 1, OrderOf(r), Worker
    PROVE  OrderOf(r)'
<1>1. jobs # <<>> /\ UNCHANGED <<passed, event, recent, restarts>>
  BY DEF Worker, Record, Push, Post, Sense, Now, plant, device
<1>2. \/ jobs' = Tail(jobs)
      \/ jobs' = jobs /\ (stage'.step # "post" => stage.step = "record")
  <2>1. Return \/ (\E status : EndEvent(status)) => jobs' = Tail(jobs)
    BY DEF Return, EndEvent
  <2>2. Attempt(1).step = "post" /\ Attempt(stage.attempt + 1).step = "post"
    BY DEF Attempt
  <2>3. QED
    BY <2>1, <2>2 DEF Worker, Record, Push, Post, Sense, Now, TellOrReturn, Advance, ReturnError, MissingReader, FailedSensor
<1>3. Calm(r)
  <2>1. NothingGained
    BY WorkerGains DEF Inv
  <2>2. /\ \A n \in Numbers : Waits(r, n)' => Waits(r, n)
        /\ Rising(r) => Rising(r)'
    BY <1>1, <1>2, JobsGoOn DEF Inv
  <2>3. QED
    BY <2>1, <2>2, TodoHere DEF Calm
<1>4. CASE queue'[r] = queue[r]
  <2>1. FreshKeeps
    BY <1>1, HandlerFresh DEF Inv
  <2>2. passed[r] <= passed'[r] /\ TagsOf(r)' = TagsOf(r)
    BY <1>1 DEF Inv, PlantOK, TagsOf
  <2>3. QED
    BY <1>1, <1>3, <1>4, <2>1, <2>2, CalmOrder
<1>5. CASE queue'[r] # queue[r]
  <2>1. Push /\ queue' = [queue EXCEPT ![CurrentReader] = Append(@, Current[2])]
    BY <1>5 DEF Worker, Record, Push, Post, Sense
  <2>2. PICK n \in Numbers : n = Current[2]
    BY <1>1, CurrentFacts DEF Inv
  <2>3. queue \in [Readers -> Seq(Numbers)]
    BY DEF Inv, DataOK
  <2>4. CurrentReader = r /\ queue'[r] = Append(queue[r], n)
    BY <1>5, <2>1, <2>2, <2>3
  <2>5. Now("tag", "push") /\ Rising(r)
    BY <2>1 DEF Push, OrderOf
  <2>6. jobs' = Tail(jobs) \/ (jobs' = jobs /\ stage'.step = "post")
    BY <1>2, <2>5 DEF Now
  <2>7. Waits(r, n) /\ \A m \in Numbers : Waits(r, m)' => n < m
    BY <2>2, <2>4, <2>5, <2>6, PushFirst DEF Inv
  <2>8. QED
    BY <1>1, <1>3, <2>4, <2>7, PushOrder
<1>6. QED
  BY <1>4, <1>5

\* Nobody gives the thread a tag.
LEMMA QuietOrder ==
    ASSUME AckInv, Inv, Inv', StageInv, NEW r \in Readers, FieldSize[r] = 1, OrderOf(r),
           \/ \E q \in Readers : Enter(q) \/ ReadTags(q) \/ Fire(q) \/ Unlist(q) \/ Connect(q) \/ DeliverInput(q)
           \/ \E h \in Handlers : Acknowledge(h) \/ Hangup(h)
    PROVE  OrderOf(r)'
<1>1. UNCHANGED <<queue, restarts, stage>>
  BY DEF Enter, ReadTags, Fire, Unlist, Connect, DeliverInput, Deliver, Acknowledge, Hangup, process, data
<1>2. FreshKeeps
  <2>1. CASE \E q \in Readers : Enter(q) \/ ReadTags(q) \/ Fire(q) \/ Unlist(q) \/ Connect(q) \/ DeliverInput(q)
    BY <2>1, ReaderFresh DEF Inv
  <2>2. CASE \E h \in Handlers : Acknowledge(h) \/ Hangup(h)
    <3>1. UNCHANGED <<passed, event, recent>> \/ \E h \in Handlers : Acknowledge(h)
      BY <2>2 DEF Hangup, plant, device
    <3>2. QED
      BY <3>1, HandlerFresh DEF Inv
  <2>3. QED
    BY <2>1, <2>2
<1>3. Calm(r)
  <2>1. NothingGained
    BY NobodyGains
  <2>2. /\ \A n \in Numbers : Waits(r, n)' => Waits(r, n)
        /\ Rising(r) => Rising(r)'
    <3>1. CASE jobs' = jobs
      BY <1>1, <3>1 DEF Waits, Rising, TagJob
    <3>2. ASSUME NEW q \in Readers, DeliverInput(q)
          PROVE  /\ \A n \in Numbers : Waits(r, n)' => Waits(r, n)
                 /\ Rising(r) => Rising(r)'
      <4>1. PICK job : job = [kind |-> "input", by |-> <<q, link[q]>>, item |-> event[q].firing]
        OBVIOUS
      <4>2. jobs' = Append(jobs, job) /\ <<q, link[q]>> \in Handlers
        BY <3>2, <4>1 DEF DeliverInput, Deliver, Submit, AckInv, Shape, Handlers
      <4>3. event[q].firing \in Numbers
        <5>1. event[q].kind = "input" /\ EventOK(event[q])
          BY <3>2 DEF DeliverInput, Inv, PlantOK
        <5>2. NoEvent.kind # "input" /\ \A n : Input(n).firing = n
          BY DEF NoEvent, Input
        <5>3. QED
          BY <5>1, <5>2 DEF EventOK
      <4>4. job \in Job /\ job.kind = "input"
        BY <4>1, <4>2, <4>3 DEF Job
      <4>5. QED
        BY <1>1, <4>2, <4>4, JobsGrow DEF Inv
    <3>3. QED
      BY <3>1, <3>2 DEF Enter, ReadTags, Fire, Unlist, Connect, Acknowledge, Hangup, process
  <2>3. QED
    BY <2>1, <2>2, TodoHere DEF Calm
<1>4. passed[r] <= passed'[r]
  <2>1. passed' = passed \/ \E q \in Readers : passed' = [passed EXCEPT ![q] = @ + 1]
    BY DEF Enter, ReadTags, Fire, Unlist, Connect, DeliverInput, Deliver, Acknowledge, Hangup, plant
  <2>2. QED
    BY <2>1 DEF Inv, PlantOK
<1>5. \/ TagsOf(r)' \in {TagsOf(r), <<>>}
      \/ /\ Len(TagsOf(r)') <= 1
         /\ \A i \in 1 .. Len(TagsOf(r)') : passed[r] <= TagsOf(r)'[i]
  <2>1. CASE event' = event
    BY <2>1 DEF TagsOf
  <2>2. ASSUME NEW h \in Handlers, Acknowledge(h) PROVE TagsOf(r)' \in {TagsOf(r), <<>>}
    BY <2>2, AcknowledgePlant DEF Inv
  <2>3. ASSUME NEW q \in Readers, Fire(q) PROVE TagsOf(r)' \in {TagsOf(r), <<>>}
    <3>1. event' = [event EXCEPT ![q] = Input(coming.firings[q])]
      BY <2>3 DEF Fire
    <3>2. QED
      BY <3>1 DEF TagsOf, Input, Inv, PlantOK
  <2>4. ASSUME NEW q \in Readers, ReadTags(q), q # r PROVE TagsOf(r)' = TagsOf(r)
    BY <2>4 DEF TagsOf, ReadTags, Inv, PlantOK
  <2>5. ASSUME ReadTags(r)
        PROVE  /\ Len(TagsOf(r)') <= 1
               /\ \A i \in 1 .. Len(TagsOf(r)') : passed[r] <= TagsOf(r)'[i]
    <3>1. PICK s \in Readings(r) : event' = [event EXCEPT ![r] = TagRead(s)]
      BY <2>5 DEF ReadTags
    <3>2. TagsOf(r)' = s
      BY <3>1 DEF TagsOf, TagRead, Inv, PlantOK
    <3>3. passed[r] \in Nat /\ RecentOK(r)
      BY DEF Inv, PlantOK
    <3>4. /\ Len(s) <= 1 /\ s \in Seq(1 .. passed[r])
          /\ \A i \in 1 .. Len(s) : s[i] + FieldSize[r] > passed[r]
      BY <3>3, ReadingFacts
    <3>5. \A i \in 1 .. Len(s) : s[i] \in 1 .. passed[r]
      BY <3>4, ElementFacts
    <3>6. \A i \in 1 .. Len(s) : passed[r] <= s[i]
      BY <3>3, <3>4, <3>5
    <3>7. QED
      BY <3>2, <3>4, <3>6
  <2>6. QED
    BY <2>1, <2>2, <2>3, <2>4, <2>5 DEF Enter, Unlist, Connect, DeliverInput, Deliver, Hangup, device
<1>6. QED
  BY <1>1, <1>2, <1>3, <1>4, <1>5, CalmOrder

\* A handler of another reader goes on, or one that has no more tags.
LEMMA ProceedCalm ==
    ASSUME AckInv, Inv, StageInv, NEW r \in Readers, NEW h \in Handlers, NEW tags \in Seq(Numbers),
           Proceed(h, tags), task[h].step # "await", stage' = stage,
           h[1] # r \/ tags = <<>>
    PROVE  Calm(r)
<1>1. /\ \A n \in Numbers : Waits(r, n)' => Waits(r, n)
      /\ Rising(r) => Rising(r)'
  <2>1. CASE tags = <<>>
    <3>1. jobs' = jobs
      BY <2>1 DEF Proceed
    <3>2. QED
      BY <3>1 DEF Waits, Rising, TagJob
  <2>2. CASE tags # <<>>
    <3>1. PICK job : job = [kind |-> "tag", by |-> h, item |-> Head(tags)]
      OBVIOUS
    <3>2. jobs' = Append(jobs, job) /\ job \in Job /\ job.by[1] # r
      BY <2>2, <3>1 DEF Proceed, Submit, Job
    <3>3. QED
      BY <3>2, JobsGrow DEF Inv
  <2>3. QED
    BY <2>1, <2>2
<1>2. ASSUME NEW s \in Slots PROVE Todo(<<r, s>>)' \in {Todo(<<r, s>>), <<>>}
  <2>1. PICK g \in Handlers : g = <<r, s>>
    BY DEF Handlers
  <2>2. Todo(<<r, s>>) = Todo(g) /\ Todo(<<r, s>>)' = Todo(g)'
    BY <2>1 DEF Todo
  <2>3. CASE g = h
    <3>1. tags = <<>>
      BY <2>1, <2>3
    <3>2. PICK status : task' = [task EXCEPT ![h] = Acknowledging(status)]
      BY <3>1 DEF Proceed, Lamp
    <3>3. PICK t : t = Acknowledging(status)
      OBVIOUS
    <3>4. TodoOf(t) = <<>> /\ task' = [task EXCEPT ![h] = t]
      BY <3>2, <3>3 DEF Acknowledging, TodoOf
    <3>5. Todo(h)' = <<>>
      BY <3>4, TodoSets DEF AckInv
    <3>6. QED
      BY <2>2, <2>3, <3>5
  <2>4. CASE g # h
    <3>1. Takes(h, tags)
      BY ProceedTakes DEF Inv
    <3>2. QED
      BY <2>2, <2>4, <3>1 DEF Takes
  <2>5. QED
    BY <2>3, <2>4
<1>3. QED
  BY <1>1, <1>2 DEF Calm

\* Such an event has no next tag.
LEMMA NextTagOrder ==
    ASSUME AckInv, Inv, Inv', StageInv, NEW r \in Readers, FieldSize[r] = 1, OrderOf(r),
           NEW h \in Handlers, NextTag(h)
    PROVE  OrderOf(r)'
<1>1. PICK tags : tags = task[h].todo
  OBVIOUS
<1>2. /\ Proceed(h, tags) /\ stage' = stage /\ task[h].step = "next"
      /\ UNCHANGED <<queue, restarts, passed, event, recent>>
  BY <1>1 DEF NextTag, plant, device, data
<1>3. tags = Todo(h) /\ tags \in Seq(Numbers)
  BY <1>1, <1>2 DEF Todo, Inv, WorkOK
<1>4. h[1] # r \/ tags = <<>>
  <2>1. PICK s \in Slots : s = h[2] /\ (h[1] = r => h = <<r, s>>)
    BY DEF Handlers
  <2>2. Todo(<<r, s>>) = <<>>
    BY DEF OrderOf
  <2>3. QED
    BY <1>3, <2>1, <2>2
<1>5. Calm(r)
  BY <1>2, <1>3, <1>4, ProceedCalm
<1>6. FreshKeeps
  BY <1>2, HandlerFresh DEF Inv
<1>7. passed[r] <= passed'[r] /\ TagsOf(r)' = TagsOf(r)
  BY <1>2 DEF Inv, PlantOK, TagsOf
<1>8. QED
  BY <1>2, <1>5, <1>6, <1>7, CalmOrder

\* The reader of which one balloon at most can be new.
LEMMA OneNew ==
    ASSUME Inv, NEW r \in Readers, FieldSize[r] = 1, OrderOf(r), DeliverTags(r),
           NEW new, new = FilterDuplicates(r, event[r].tags).new, new # <<>>
    PROVE  \E n \in Numbers :
               /\ Head(new) = n /\ Tail(new) = <<>>
               /\ Len(TagsOf(r)) = 1 /\ TagsOf(r)[1] = n
               /\ Fresh(r, n) /\ ~Fresh(r, n)'
<1>1. /\ new \in Seq(Numbers) /\ Distinct(new)
      /\ \A n : Contains(new, n) => Fresh(r, n)
      /\ \A n : Fresh(r, n)' => Fresh(r, n) /\ ~Contains(new, n)
  BY SingleFits, DeliverFresh DEF Inv
<1>2. \A i \in 1 .. Len(new) : Contains(TagsOf(r), new[i])
  BY NewTags DEF Inv, Sound
<1>3. Len(TagsOf(r)) \in Nat /\ Len(TagsOf(r)) <= 1
  <2>1. TagsOf(r) \in Seq(1 .. passed[r])
    BY DEF Inv, PlantOK, RecentOK
  <2>2. QED
    BY <2>1 DEF OrderOf
<1>4. Len(new) \in Nat \ {0} /\ Head(new) = new[1] /\ Head(new) \in Numbers
  BY <1>1
<1>5. ASSUME NEW i \in 1 .. Len(new) PROVE Len(TagsOf(r)) = 1 /\ new[i] = TagsOf(r)[1]
  <2>1. PICK j \in 1 .. Len(TagsOf(r)) : TagsOf(r)[j] = new[i]
    BY <1>2 DEF Contains
  <2>2. Len(TagsOf(r)) = 1 /\ j = 1
    <3>1. PICK k \in Nat : k = Len(TagsOf(r)) /\ k <= 1
      BY <1>3
    <3>2. j \in 1 .. k
      BY <2>1, <3>1
    <3>3. QED
      BY <3>1, <3>2
  <2>3. QED
    BY <2>1, <2>2
<1>6. Len(new) = 1
  <2>1. PICK k \in Nat \ {0} : k = Len(new)
    BY <1>4
  <2>2. \A i, j \in 1 .. k : i = j
    BY <1>1, <1>5, <2>1 DEF Distinct
  <2>3. k = 1
    <3>1. SUFFICES ASSUME k # 1 PROVE FALSE
      OBVIOUS
    <3>2. 1 \in 1 .. k /\ 2 \in 1 .. k
      BY <3>1
    <3>3. QED
      BY <2>2, <3>2
  <2>4. QED
    BY <2>1, <2>3
<1>7. Tail(new) = <<>>
  <2>1. PICK rest \in Seq(Numbers) : rest = Tail(new) /\ Len(rest) = 0
    <3>1. new \in Seq(Numbers) /\ new # <<>>
      BY <1>1
    <3>2. Tail(new) \in Seq(Numbers) /\ Len(Tail(new)) = Len(new) - 1
      BY <3>1
    <3>3. Len(Tail(new)) = 0
      BY <1>6, <3>2
    <3>4. QED
      BY <3>2, <3>3, Zenon
  <2>2. QED
    BY <2>1
<1>8. Contains(new, new[1]) /\ Len(TagsOf(r)) = 1 /\ new[1] = TagsOf(r)[1]
  BY <1>4, <1>5 DEF Contains
<1>9. QED
  BY <1>1, <1>4, <1>7, <1>8

\* A new tag comes behind all that wait and all that joined the list.
LEMMA DeliverOrder ==
    ASSUME AckInv, Inv, Inv', StageInv, NEW r \in Readers, FieldSize[r] = 1, OrderOf(r),
           NEW q \in Readers, DeliverTags(q)
    PROVE  OrderOf(r)'
<1>1. PICK h, new : h = <<q, link[q]>> /\ new = FilterDuplicates(q, event[q].tags).new
  OBVIOUS
<1>2. /\ h \in Handlers /\ h[1] = q /\ Proceed(h, new)
      /\ UNCHANGED <<stage, queue, restarts, passed, event>> /\ task[h].step = "read"
  BY <1>1 DEF DeliverTags, Deliver, plant, data, AckInv, Shape, Handlers, Reading
<1>3. new \in Seq(Numbers)
  BY <1>1, NewTags DEF Inv
<1>4. FreshKeeps
  BY <1>1, DeliverElsewhere, DeliverFresh DEF FreshKeeps, Inv
<1>5. TagsOf(r)' = TagsOf(r) /\ passed[r] <= passed'[r]
  BY <1>2 DEF TagsOf, Inv, PlantOK
<1>6. CASE q # r \/ new = <<>>
  <2>1. Calm(r)
    BY <1>2, <1>3, <1>6, ProceedCalm
  <2>2. QED
    BY <1>2, <1>4, <1>5, <2>1, CalmOrder
<1>7. CASE q = r /\ new # <<>>
  <2>1. PICK n \in Numbers :
            /\ Head(new) = n /\ Tail(new) = <<>>
            /\ Len(TagsOf(r)) = 1 /\ TagsOf(r)[1] = n
            /\ Fresh(r, n) /\ ~Fresh(r, n)'
    BY <1>1, <1>7, OneNew
  <2>2. PICK job : job = [kind |-> "tag", by |-> h, item |-> n]
    OBVIOUS
  <2>3. jobs' = Append(jobs, job) /\ job \in Job /\ job.by[1] = r
    BY <1>2, <1>7, <2>1, <2>2 DEF Proceed, Submit, Job
  <2>4. ASSUME NEW m \in Numbers, Behind(r, m), ~Fresh(r, m) PROVE m < n
    <3>1. m <= n /\ m # n
      BY <2>1, <2>4 DEF Behind
    <3>2. m \in Nat /\ n \in Nat
      BY BoundAssumption DEF Numbers
    <3>3. QED
      BY <3>1, <3>2
  <2>5. \A m \in Numbers : Waits(r, m) => m < n
    BY <2>4 DEF OrderOf
  <2>6. Rising(r)' /\ \A m \in Numbers : Waits(r, m)' => Waits(r, m) \/ m = n
    BY <1>2, <2>2, <2>3, <2>5, JobsGrow DEF OrderOf, Inv
  <2>7. ASSUME NEW m \in Numbers PROVE (Behind(r, m)' <=> Behind(r, m)) /\ (Fresh(r, m)' => Fresh(r, m))
    BY <1>2, <1>4, <1>5, SingleFits DEF Behind, FreshKeeps
  <2>8. Behind(r, n)
    <3>1. TagsOf(r) \in Seq(1 .. passed[r])
      BY DEF Inv, PlantOK, RecentOK
    <3>2. n \in 1 .. passed[r]
      <4>1. \A i \in 1 .. Len(TagsOf(r)) : TagsOf(r)[i] \in 1 .. passed[r]
        BY <3>1, ElementFacts
      <4>2. 1 \in 1 .. Len(TagsOf(r))
        BY <2>1
      <4>3. QED
        BY <2>1, <4>1, <4>2
    <3>3. n <= passed[r] /\ \A i \in 1 .. Len(TagsOf(r)) : n <= TagsOf(r)[i]
      <4>1. n \in Nat /\ passed[r] \in Nat /\ n <= passed[r]
        BY <3>2, BoundAssumption DEF Inv, PlantOK, Numbers
      <4>2. \A i \in 1 .. Len(TagsOf(r)) : TagsOf(r)[i] = n
        BY <2>1
      <4>3. QED
        BY <4>1, <4>2
    <3>4. QED
      BY <3>3 DEF Behind
  <2>9. ASSUME NEW m \in Numbers, Waits(r, m)' PROVE Behind(r, m)' /\ ~Fresh(r, m)'
    BY <2>1, <2>6, <2>7, <2>8, <2>9 DEF OrderOf
  <2>10. ASSUME NEW s \in Slots PROVE Todo(<<r, s>>)' = <<>>
    <3>1. PICK g \in Handlers : g = <<r, s>>
      BY DEF Handlers
    <3>2. Todo(<<r, s>>) = Todo(g) /\ Todo(<<r, s>>)' = Todo(g)' /\ Todo(g) = <<>>
      BY <3>1 DEF Todo, OrderOf
    <3>3. PICK t : t = [step |-> "await", todo |-> Tail(new)]
      OBVIOUS
    <3>4. task' = [task EXCEPT ![h] = t] /\ TodoOf(t) = <<>>
      BY <1>2, <1>7, <2>1, <3>3 DEF Proceed, TodoOf
    <3>5. Todo(g)' = <<>>
      BY <1>2, <3>2, <3>4, TodoSets DEF AckInv
    <3>6. QED
      BY <3>2, <3>5
  <2>11. ASSUME NEW i \in 1 .. Len(queue[r])
         PROVE  /\ Behind(r, queue[r][i])'
                /\ restarts' = 0 => ~Fresh(r, queue[r][i])'
                /\ \A m \in Numbers : Waits(r, m)' => Before(queue[r][i], m)'
                /\ \A j \in 1 .. Len(queue[r]) : i < j => Before(queue[r][i], queue[r][j])'
    <3>1. PICK k \in Numbers : k = queue[r][i]
      BY ElementFacts DEF Inv, DataOK
    <3>2. Behind(r, k) /\ (restarts = 0 => ~Fresh(r, k))
      BY <3>1 DEF OrderOf
    <3>3. Before(k, n)
      <4>1. CASE restarts = 0
        BY <2>4, <3>2, <4>1 DEF Before
      <4>2. CASE restarts # 0
        <5>1. k <= n /\ k \in Nat /\ n \in Nat /\ restarts \in Nat
          BY <2>1, <3>2, BoundAssumption DEF Behind, Numbers, Inv, DataOK
        <5>2. QED
          BY <4>2, <5>1 DEF Before
      <4>3. QED
        BY <4>1, <4>2
    <3>4. \A m \in Numbers : Waits(r, m)' => Before(k, m)
      BY <2>6, <3>1, <3>3 DEF OrderOf
    <3>5. \A j \in 1 .. Len(queue[r]) : i < j => Before(k, queue[r][j])
      BY <3>1 DEF OrderOf
    <3>6. Behind(r, k)' /\ (restarts = 0 => ~Fresh(r, k)')
      BY <2>7, <3>2
    <3>7. queue[r][i]' = k
      BY <1>2, <3>1
    <3>8. QED
      BY <1>2, <3>4, <3>5, <3>6, <3>7 DEF Before, Behind, Fresh, Gone
  <2>12. QED
    BY <1>2, <1>5, <2>6, <2>9, <2>10, <2>11 DEF OrderOf
<1>8. QED
  BY <1>6, <1>7

\* After a restart a balloon may come again that joined the list as the last one.
LEMMA RestartOrder ==
    ASSUME Inv, NEW r \in Readers, FieldSize[r] = 1, OrderOf(r), Restart
    PROVE  OrderOf(r)'
<1>1. /\ restarts' = restarts + 1 /\ queue' = queue /\ passed' = passed /\ event' = event
      /\ task' = [h \in Handlers |-> Closed] /\ jobs' = <<>>
  BY DEF Restart, data
<1>2. restarts' > 0 /\ restarts' # 0
  BY <1>1 DEF Inv, DataOK
<1>3. TagsOf(r)' = TagsOf(r) /\ \A n : Behind(r, n)' <=> Behind(r, n)
  BY <1>1 DEF TagsOf, Behind
<1>4. \A m, n : Before(m, n) => Before(m, n)'
  BY <1>2 DEF Before
<1>5. Rising(r)' /\ \A n \in Numbers : ~Waits(r, n)'
  BY <1>1 DEF Rising, Waits
<1>6. ASSUME NEW s \in Slots PROVE Todo(<<r, s>>)' = <<>>
  <2>1. <<r, s>> \in Handlers
    BY DEF Handlers
  <2>2. QED
    BY <1>1, <2>1 DEF Todo, Closed
<1>7. ASSUME NEW i \in 1 .. Len(queue[r])
      PROVE  /\ Behind(r, queue[r][i])'
             /\ restarts' = 0 => ~Fresh(r, queue[r][i])'
             /\ \A m \in Numbers : Waits(r, m)' => Before(queue[r][i], m)'
             /\ \A j \in 1 .. Len(queue[r]) : i < j => Before(queue[r][i], queue[r][j])'
  <2>1. PICK k : k = queue[r][i]
    OBVIOUS
  <2>2. Behind(r, k)' /\ queue[r][i]' = k
    BY <1>1, <1>3, <2>1 DEF OrderOf
  <2>3. \A j \in 1 .. Len(queue[r]) : i < j => Before(k, queue[r][j])
    BY <2>1 DEF OrderOf
  <2>4. QED
    BY <1>1, <1>2, <1>5, <2>1, <2>2, <2>3 DEF Behind, Before
<1>8. QED
  BY <1>1, <1>3, <1>5, <1>6, <1>7 DEF OrderOf

LEMMA InitOrder == Init => OrderInv
<1>1. SUFFICES ASSUME Init PROVE OrderInv
  OBVIOUS
<1>2. /\ queue = [r \in Readers |-> <<>>] /\ event = [r \in Readers |-> NoEvent]
      /\ task = [h \in Handlers |-> Closed] /\ jobs = <<>>
  BY <1>1, Zenon DEF Init
<1> HIDE <1>1
<1>3. SUFFICES ASSUME NEW r \in Readers PROVE OrderOf(r)
  BY DEF OrderInv
<1>4. TagsOf(r) = <<>> /\ queue[r] = <<>>
  BY <1>2 DEF TagsOf, NoEvent
<1>5. ASSUME NEW s \in Slots PROVE Todo(<<r, s>>) = <<>>
  <2>1. <<r, s>> \in Handlers
    BY DEF Handlers
  <2>2. QED
    BY <1>2, <2>1 DEF Todo, Closed
<1>6. Rising(r) /\ \A n \in Numbers : ~Waits(r, n)
  BY <1>2 DEF Rising, Waits
<1>7. QED
  BY <1>4, <1>5, <1>6 DEF OrderOf

LEMMA OrderInvariant == Spec => []OrderInv
<1>1. AckInv /\ Inv /\ Inv' /\ StatusInv /\ OrderInv /\ [Next]_vars => OrderInv'
  <2>1. SUFFICES ASSUME AckInv, Inv, Inv', StatusInv, OrderInv, [Next]_vars,
                        NEW r \in Readers, FieldSize[r] = 1
                 PROVE  OrderOf(r)'
    BY DEF OrderInv
  <2>2. StageInv /\ OrderOf(r)
    BY <2>1 DEF StatusInv, OrderInv
  <2>3. CASE UNCHANGED vars
    <3>1. /\ UNCHANGED <<passed, event, recent>> /\ UNCHANGED <<task, jobs, stage>>
          /\ UNCHANGED <<queue, restarts>>
      BY <2>3 DEF vars, plant, device, process, data
    <3>2. FreshKeeps
      BY <2>1, <3>1, HandlerFresh DEF Inv
    <3>3. Calm(r) /\ TagsOf(r)' = TagsOf(r)
      BY <3>1 DEF Calm, Todo, Waits, Rising, TagJob, TagsOf
    <3>4. passed[r] <= passed'[r]
      BY <2>1, <3>1 DEF Inv, PlantOK
    <3>5. QED
      BY <2>1, <2>2, <3>1, <3>2, <3>3, <3>4, CalmOrder
  <2>4. ASSUME NEW q \in Readers, Reader(q) PROVE OrderOf(r)'
    <3>1. CASE DeliverTags(q)
      BY <2>1, <2>2, <3>1, DeliverOrder
    <3>2. CASE Enter(q) \/ ReadTags(q) \/ Fire(q) \/ Unlist(q) \/ Connect(q) \/ DeliverInput(q)
      BY <2>1, <2>2, <3>2, QuietOrder
    <3>3. QED
      BY <2>4, <3>1, <3>2 DEF Reader
  <2>5. ASSUME NEW h \in Handlers, Handler(h) PROVE OrderOf(r)'
    <3>1. CASE NextTag(h)
      BY <2>1, <2>2, <3>1, NextTagOrder
    <3>2. CASE Acknowledge(h) \/ Hangup(h)
      BY <2>1, <2>2, <3>2, QuietOrder
    <3>3. QED
      BY <2>5, <3>1, <3>2 DEF Handler
  <2>6. CASE Worker
    BY <2>1, <2>2, <2>6, WorkerOrder
  <2>7. CASE Restart
    BY <2>1, <2>2, <2>7, RestartOrder
  <2>8. QED
    BY <2>1, <2>3, <2>4, <2>5, <2>6, <2>7 DEF Next
<1>2. QED
  BY <1>1, InitOrder, AckInvariant, TypeInvariant, StatusInvariant, PTL DEF Spec

\* For any number of readers, connections and balloons, and any length of the deque: at a reader
\* whose field holds one balloon, the passports join the list of the carousel in the order of the
\* balloons and once each, although events are repeated, handlers of older connections are at
\* work and pushes fail; only a restart may leave a balloon there twice (process_tag_event, Push).
THEOREM PassportsJoinInOrder == Spec => []PassportsInOrder
<1>1. OrderInv => PassportsInOrder
  <2>1. SUFFICES ASSUME OrderInv, NEW r \in NeedCache, FieldSize[r] = 1,
                        NEW i \in 1 .. Len(queue[r]), NEW j \in 1 .. Len(queue[r]), i < j
                 PROVE  \/ queue[r][i] < queue[r][j]
                        \/ queue[r][i] = queue[r][j] /\ restarts > 0
    BY DEF PassportsInOrder
  <2>2. Before(queue[r][i], queue[r][j])
    BY <2>1, ReaderAssumption DEF OrderInv, OrderOf
  <2>3. QED
    BY <2>2 DEF Before
<1>2. QED
  BY <1>1, OrderInvariant, PTL

=============================================================================
