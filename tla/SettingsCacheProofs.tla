-------------------------- MODULE SettingsCacheProofs --------------------------
(***************************************************************************)
(* Theorems of SettingsCache: its types, of which the lock is a part; and  *)
(* that no answer is older than the last publication, while one writer and *)
(* any number of listeners overlap with nothing lost, and while operations *)
(* follow one another with everything failing.                             *)
(***************************************************************************)
EXTENDS SettingsCache, TLAPS

Contents == Values \union {Absent}

DataOK ==
    /\ db \in Rows /\ written \in Rows /\ hash \in Rows
    /\ rev \in Nat
    /\ store \in [Processes -> Rows]
    /\ localRev \in [Processes -> 0 .. rev]
    /\ loaded \in [Processes -> BOOLEAN]

Steps == {"idle", "rev", "compare", "hash", "replace", "lookup", "fallback",
          "upsert", "remove", "hset", "bump", "commit", "select", "publish"}
Critical == {"hset", "bump"}

\* Who has the lock of its process is publishing, and nobody else is
LockOK ==
    /\ pc \in [Threads -> Steps]
    /\ lock \in [Processes -> Threads \union {None}]
    /\ \A p \in Processes, t \in Threads : lock[p] = t <=> ProcessOf[t] = p /\ pc[t] \in Critical

\* What a thread holds is of a number of the settings, and no later than Redis
RegsOK ==
    /\ doing = [t \in Threads |-> doing[t]]
    /\ \A t \in Threads : pc[t] # "idle" => doing[t].number \in Numbers
    /\ snapshot \in [Threads -> Contents]
    /\ remote \in [Threads -> 0 .. rev]
    /\ rows \in [Threads -> Rows]

Inv == DataOK /\ LockOK /\ RegsOK

LEMMA InvTypes == Inv => TypeOK
<1>1. SUFFICES ASSUME Inv PROVE TypeOK
  OBVIOUS
<1>2. {db, written, hash} \subseteq Rows
  BY <1>1 DEF Inv, DataOK
<1>3. QED
  BY <1>1, <1>2 DEF Inv, DataOK, LockOK, TypeOK, Steps, Critical

\* The lock stays, and the thread stays on its side of the critical section.
LEMMA LockStays ==
    ASSUME LockOK, NEW t \in Threads, NEW s \in Steps, Goto(t, s), lock' = lock,
           pc[t] \in Critical <=> s \in Critical
    PROVE  LockOK'
<1>1. pc' \in [Threads -> Steps] /\ pc'[t] = s /\ \A u \in Threads : u # t => pc'[u] = pc[u]
  BY DEF LockOK, Goto
<1>2. QED
  BY <1>1 DEF LockOK

LEMMA LockTaken ==
    ASSUME LockOK, NEW t \in Threads, Goto(t, "hset"), Acquire(t), pc[t] \notin Critical
    PROVE  LockOK'
<1> USE ThreadsAssumption, ValuesAssumption
<1>1. /\ pc' \in [Threads -> Steps] /\ pc'[t] = "hset"
      /\ \A u \in Threads : u # t => pc'[u] = pc[u]
  BY DEF LockOK, Goto, Steps
<1>2. PICK p \in Processes : p = ProcessOf[t]
  OBVIOUS
<1>3. /\ lock[p] = None /\ lock' \in [Processes -> Threads \union {None}] /\ lock'[p] = t
      /\ \A q \in Processes : q # p => lock'[q] = lock[q]
  BY <1>2 DEF LockOK, Acquire, Free, P
<1>4. QED
  BY <1>1, <1>2, <1>3 DEF LockOK, Critical

LEMMA LockReleased ==
    ASSUME LockOK, NEW t \in Threads, NEW s \in Steps \ Critical, Goto(t, s), Release(t),
           pc[t] \in Critical
    PROVE  LockOK'
<1> USE ThreadsAssumption, ValuesAssumption
<1>1. /\ pc' \in [Threads -> Steps] /\ pc'[t] = s
      /\ \A u \in Threads : u # t => pc'[u] = pc[u]
  BY DEF LockOK, Goto
<1>2. PICK p \in Processes : p = ProcessOf[t]
  OBVIOUS
<1>3. /\ lock[p] = t /\ lock' \in [Processes -> Threads \union {None}] /\ lock'[p] = None
      /\ \A q \in Processes : q # p => lock'[q] = lock[q]
  BY <1>2 DEF LockOK, Release, P
<1>4. QED
  BY <1>1, <1>2, <1>3 DEF LockOK, Critical

\* An operation begins.
LEMMA BeginKeeps ==
    ASSUME Inv, NEW t \in Threads, NEW op, NEW n \in Numbers, NEW s \in Steps \ Critical,
           Begin(t, op, n, s), lock' = lock
    PROVE  /\ LockOK'
           /\ doing' = [u \in Threads |-> doing'[u]]
           /\ \A u \in Threads : pc'[u] # "idle" => doing'[u].number \in Numbers
<1>1. LockOK'
  BY LockStays DEF Inv, Begin, Idle, Critical
<1>2. doing' = [u \in Threads |-> IF u = t THEN [op |-> op, number |-> n] ELSE doing[u]]
  BY DEF Inv, RegsOK, Begin
<1>3. \A u \in Threads : u # t => pc'[u] = pc[u]
  BY DEF Inv, LockOK, Begin, Goto
<1>4. QED
  BY <1>1, <1>2, <1>3 DEF Inv, RegsOK

\* A thread goes on with its operation.
LEMMA GotoKeeps ==
    ASSUME Inv, NEW t \in Threads, NEW s, Goto(t, s), doing' = doing, pc[t] # "idle"
    PROVE  /\ doing' = [u \in Threads |-> doing'[u]]
           /\ \A u \in Threads : pc'[u] # "idle" => doing'[u].number \in Numbers
           /\ Number(t) \in Numbers
<1>1. \A u \in Threads : u # t => pc'[u] = pc[u]
  BY DEF Inv, LockOK, Goto
<1>2. QED
  BY <1>1 DEF Inv, RegsOK, Number

LEMMA RequestKeeps ==
    ASSUME Inv, NEW t \in Threads, NEW n \in Numbers,
           (\E v \in Values : Save(t, n, v) \/ AdminSave(t, n, v)) \/ Delete(t, n) \/ Get(t, n)
    PROVE  Inv'
<1>1. PICK s \in Steps \ Critical : \E op : Begin(t, op, n, s)
  <2>1. {"upsert", "remove", "rev"} \subseteq Steps \ Critical
    BY DEF Steps, Critical
  <2>2. CASE \E v \in Values : Save(t, n, v) \/ AdminSave(t, n, v)
    <3>1. CASE \E v \in Values : Save(t, n, v)
      BY <2>1, <3>1 DEF Save
    <3>2. CASE \E v \in Values : AdminSave(t, n, v)
      BY <2>1, <3>2 DEF AdminSave
    <3>3. QED
      BY <2>2, <3>1, <3>2
  <2>3. CASE Delete(t, n)
    BY <2>1, <2>3 DEF Delete
  <2>4. CASE Get(t, n)
    BY <2>1, <2>4 DEF Get
  <2>5. QED
    BY <2>2, <2>3, <2>4
<1>2. lock' = lock /\ UNCHANGED <<redis, memory, remote, rows>>
  BY DEF Save, AdminSave, Delete, Get, regs
<1>3. /\ LockOK' /\ doing' = [u \in Threads |-> doing'[u]]
      /\ \A u \in Threads : pc'[u] # "idle" => doing'[u].number \in Numbers
  BY <1>1, <1>2, BeginKeeps
<1>4. db' \in Rows /\ written' \in Rows /\ snapshot' \in [Threads -> Contents]
  <2>1. ASSUME NEW v \in Values, Save(t, n, v) \/ AdminSave(t, n, v)
        PROVE  db' \in Rows /\ written' \in Rows /\ snapshot' \in [Threads -> Contents]
    <3>1. v \in Contents /\ [db EXCEPT ![n] = v] \in Rows /\ [written EXCEPT ![n] = v] \in Rows
      BY DEF Rows, Contents, Inv, DataOK
    <3>2. CASE Save(t, n, v)
      BY <3>1, <3>2 DEF Save, Inv, RegsOK
    <3>3. CASE AdminSave(t, n, v)
      BY <3>1, <3>3 DEF AdminSave, Inv, DataOK, RegsOK
    <3>4. QED
      BY <2>1, <3>2, <3>3
  <2>2. CASE Delete(t, n)
    BY <2>2 DEF Delete, Rows, Inv, DataOK, RegsOK, regs
  <2>3. CASE Get(t, n)
    BY <2>3 DEF Get, Inv, DataOK, RegsOK, regs
  <2>4. QED
    BY <2>1, <2>2, <2>3
<1>5. DataOK' /\ RegsOK'
  BY <1>2, <1>3, <1>4 DEF Inv, DataOK, RegsOK, redis, memory
<1>6. QED
  BY <1>3, <1>5 DEF Inv

LEMMA RestartKeeps == ASSUME Inv, NEW t \in Threads, Restart(t) PROVE Inv'
<1> USE ThreadsAssumption
<1>1. PICK n \in Numbers : Begin(t, "start", n, "select")
  BY DEF Restart
<1>2. lock' = lock /\ UNCHANGED <<db, written, redis, regs>>
  BY DEF Restart
<1>3. "select" \in Steps \ Critical
  BY DEF Steps, Critical
<1>4. /\ LockOK' /\ doing' = [u \in Threads |-> doing'[u]]
      /\ \A u \in Threads : pc'[u] # "idle" => doing'[u].number \in Numbers
  BY <1>1, <1>2, <1>3, BeginKeeps
<1>5. NoRows \in Rows
  BY DEF NoRows, Rows
<1>6. /\ store' \in [Processes -> Rows] /\ localRev' \in [Processes -> 0 .. rev]
      /\ loaded' \in [Processes -> BOOLEAN]
  BY <1>5 DEF Restart, Inv, DataOK, P
<1>7. QED
  BY <1>2, <1>4, <1>6 DEF Inv, DataOK, RegsOK, redis, regs

\* Reading the revision and the hash, choosing what to do.
LEMMA ReadKeeps ==
    ASSUME Inv, NEW t \in Threads,
           ReadRev(t) \/ Compare(t) \/ ReadHash(t) \/ Lookup(t) \/ Fallback(t) \/ SelectRows(t)
    PROVE  Inv'
<1>1. /\ UNCHANGED <<db, written, redis, memory, lock, doing>> /\ pc[t] \notin Critical /\ pc[t] # "idle"
      /\ \E s \in Steps \ Critical : Goto(t, s)
  <2>1. {"compare", "lookup", "hash", "select", "replace", "fallback", "idle", "upsert", "publish"}
          \subseteq Steps \ Critical
    BY DEF Steps, Critical
  <2>2. QED
    BY <2>1 DEF ReadRev, Compare, ReadHash, Lookup, Fallback, SelectRows, Critical
<1>2. PICK s \in Steps \ Critical : Goto(t, s)
  BY <1>1
<1>3. LockOK'
  BY <1>1, <1>2, LockStays DEF Inv
<1>4. /\ doing' = [u \in Threads |-> doing'[u]]
      /\ \A u \in Threads : pc'[u] # "idle" => doing'[u].number \in Numbers
      /\ Number(t) \in Numbers
  BY <1>1, <1>2, GotoKeeps
<1>5. DataOK'
  BY <1>1 DEF Inv, DataOK, redis, memory
<1>6. remote' \in [Threads -> 0 .. rev]
  BY DEF ReadRev, Compare, ReadHash, Lookup, Fallback, SelectRows, regs, Inv, RegsOK, DataOK
<1>7. rows' \in [Threads -> Rows]
  BY DEF ReadRev, Compare, ReadHash, Lookup, Fallback, SelectRows, regs, Inv, RegsOK, DataOK
<1>8. snapshot' \in [Threads -> Contents]
  <2>1. db[Number(t)] \in Contents
    BY <1>4 DEF Inv, DataOK, Rows, Contents
  <2>2. snapshot' = snapshot \/ snapshot' = [snapshot EXCEPT ![t] = db[Number(t)]]
    BY DEF ReadRev, Compare, ReadHash, Lookup, Fallback, SelectRows, regs
  <2>3. QED
    BY <2>1, <2>2 DEF Inv, RegsOK
<1>9. RegsOK'
  BY <1>1, <1>4, <1>6, <1>7, <1>8 DEF RegsOK, redis
<1>10. QED
  BY <1>3, <1>5, <1>9 DEF Inv

\* The store is replaced.
LEMMA InstallKeeps ==
    ASSUME Inv, NEW t \in Threads, NEW new \in Rows, NEW r \in 0 .. rev',
           Install(t, new, r), rev' \in Nat, rev <= rev'
    PROVE  /\ store' \in [Processes -> Rows] /\ localRev' \in [Processes -> 0 .. rev']
           /\ loaded' \in [Processes -> BOOLEAN]
<1> USE ThreadsAssumption
<1>1. PICK p \in Processes : p = P(t)
  BY DEF P
<1>2. localRev \in [Processes -> 0 .. rev']
  BY DEF Inv, DataOK
<1>3. QED
  BY <1>1, <1>2 DEF Install, Inv, DataOK

LEMMA ReplaceKeeps ==
    ASSUME Inv, NEW t \in Threads, ReplaceStore(t) \/ Publish(t) \/ LoseLoad(t)
    PROVE  Inv'
<1> USE ThreadsAssumption
<1>1. /\ UNCHANGED <<db, written, lock, doing, regs>> /\ pc[t] \notin Critical /\ pc[t] # "idle"
      /\ \E s \in {"lookup", "idle"} : Goto(t, s)
  BY DEF ReplaceStore, Publish, LoseLoad, AfterLoad, Critical
<1>2. PICK s \in Steps \ Critical : Goto(t, s)
  BY <1>1 DEF Steps, Critical
<1>3. LockOK'
  BY <1>1, <1>2, LockStays DEF Inv
<1>4. /\ doing' = [u \in Threads |-> doing'[u]]
      /\ \A u \in Threads : pc'[u] # "idle" => doing'[u].number \in Numbers
  BY <1>1, <1>2, GotoKeeps
<1>5. hash' \in Rows /\ rev' \in Nat /\ rev <= rev'
  BY DEF ReplaceStore, Publish, LoseLoad, redis, Inv, DataOK, RegsOK
<1>6. \E r \in 0 .. rev' : Install(t, rows[t], r)
  <2>1. remote[t] \in 0 .. rev /\ localRev[P(t)] \in 0 .. rev
    BY DEF P, Inv, DataOK, RegsOK
  <2>2. CASE ReplaceStore(t)
    BY <1>5, <2>1, <2>2 DEF ReplaceStore, redis, Inv, DataOK
  <2>3. CASE Publish(t)
    BY <1>5, <2>3 DEF Publish, Inv, DataOK
  <2>4. CASE LoseLoad(t)
    BY <1>5, <2>1, <2>4 DEF LoseLoad, redis, Inv, DataOK
  <2>5. QED
    BY <2>2, <2>3, <2>4
<1>7. PICK new \in Rows, r \in 0 .. rev' : Install(t, new, r)
  BY <1>6 DEF Inv, RegsOK
<1>8. DataOK'
  BY <1>1, <1>5, <1>7, InstallKeeps DEF DataOK, Inv
<1>9. remote \in [Threads -> 0 .. rev']
  BY <1>5 DEF Inv, RegsOK, DataOK
<1>10. RegsOK'
  BY <1>1, <1>4, <1>9 DEF RegsOK, regs, Inv
<1>11. QED
  BY <1>3, <1>8, <1>10 DEF Inv

\* The publication of one row, under the lock of the process.
LEMMA PublicationKeeps ==
    ASSUME Inv, NEW t \in Threads,
           Upsert(t) \/ Remove(t) \/ SetField(t) \/ BumpRev(t) \/ LosePublication(t)
    PROVE  Inv'
<1> USE ThreadsAssumption
<1>1. doing' = doing /\ UNCHANGED <<db, written>> /\ pc[t] # "idle" /\ \E s : Goto(t, s)
  BY DEF Upsert, Remove, SetField, BumpRev, LosePublication, AfterPublication
<1>2. /\ doing' = [u \in Threads |-> doing'[u]]
      /\ \A u \in Threads : pc'[u] # "idle" => doing'[u].number \in Numbers
      /\ Number(t) \in Numbers
  BY <1>1, GotoKeeps
<1>3. LockOK'
  <2>1. CASE Upsert(t) \/ Remove(t)
    BY <2>1, LockTaken DEF Upsert, Remove, Critical, Inv
  <2>2. CASE SetField(t)
    BY <2>2, LockStays DEF SetField, Critical, Steps, Inv
  <2>3. CASE BumpRev(t) \/ LosePublication(t)
    <3>1. /\ \E s \in {"idle", "commit"} : Goto(t, s)
          /\ Release(t) /\ pc[t] \in Critical /\ {"idle", "commit"} \subseteq Steps \ Critical
      BY <2>3 DEF BumpRev, LosePublication, AfterPublication, Critical, Steps
    <3>2. QED
      BY <3>1, LockReleased DEF Inv
  <2>4. QED
    BY <2>1, <2>2, <2>3
<1>4. PICK p \in Processes : p = P(t)
  BY DEF P
<1>5. Absent \in Contents /\ snapshot[t] \in Contents
  BY DEF Contents, Inv, RegsOK
<1>6. hash' \in Rows
  BY <1>2, <1>5 DEF Upsert, Remove, SetField, BumpRev, LosePublication, redis, Inv, DataOK, Rows, Contents
<1>7. rev' \in Nat /\ rev <= rev'
  BY DEF Upsert, Remove, SetField, BumpRev, LosePublication, redis, Inv, DataOK
<1>8. loaded' \in [Processes -> BOOLEAN]
  BY <1>4 DEF Upsert, Remove, SetField, BumpRev, LosePublication, memory, Inv, DataOK
<1>9. localRev' \in [Processes -> 0 .. rev']
  <2>1. localRev \in [Processes -> 0 .. rev']
    BY <1>7 DEF Inv, DataOK
  <2>2. CASE BumpRev(t)
    BY <1>4, <1>7, <2>1, <2>2 DEF BumpRev
  <2>3. CASE ~BumpRev(t)
    BY <2>1, <2>3 DEF Upsert, Remove, SetField, LosePublication, memory
  <2>4. QED
    BY <2>2, <2>3
<1>10. store' \in [Processes -> Rows]
  <2>1. ASSUME NEW v \in Contents, store' = [store EXCEPT ![p][Number(t)] = v]
        PROVE  store' \in [Processes -> Rows]
    <3>1. [store[p] EXCEPT ![Number(t)] = v] \in Rows
      BY <1>2 DEF Inv, DataOK, Rows, Contents
    <3>2. QED
      BY <2>1, <3>1 DEF Inv, DataOK
  <2>2. store' = store \/ \E v \in Contents : store' = [store EXCEPT ![p][Number(t)] = v]
    BY <1>4, <1>5 DEF Upsert, Remove, SetField, BumpRev, LosePublication, memory
  <2>3. QED
    BY <2>1, <2>2 DEF Inv, DataOK
<1>11. DataOK'
  BY <1>1, <1>6, <1>7, <1>8, <1>9, <1>10 DEF DataOK, Inv
<1>12. snapshot' \in [Threads -> Contents]
  BY <1>5 DEF Upsert, Remove, SetField, BumpRev, LosePublication, regs, Inv, RegsOK
<1>13. rows' = rows /\ remote' = remote
  BY DEF Upsert, Remove, SetField, BumpRev, LosePublication, regs
<1>14. remote \in [Threads -> 0 .. rev']
  BY <1>7 DEF Inv, RegsOK, DataOK
<1>15. RegsOK'
  BY <1>2, <1>12, <1>13, <1>14 DEF RegsOK, Inv
<1>16. QED
  BY <1>3, <1>11, <1>15 DEF Inv

\* The end of a transaction.
LEMMA CommitKeeps ==
    ASSUME Inv, NEW t \in Threads, Commit(t) \/ Rollback(t)
    PROVE  Inv'
<1>1. /\ UNCHANGED <<redis, memory, lock, doing, regs>> /\ pc[t] = "commit" /\ Goto(t, "idle")
  BY DEF Commit, Rollback
<1>2. LockOK'
  BY <1>1, LockStays DEF Inv, Critical, Steps
<1>3. /\ doing' = [u \in Threads |-> doing'[u]]
      /\ \A u \in Threads : pc'[u] # "idle" => doing'[u].number \in Numbers
      /\ Number(t) \in Numbers
  BY <1>1, GotoKeeps
<1>4. db' \in Rows /\ written' \in Rows
  <2>1. db[Number(t)] \in Contents /\ written[Number(t)] \in Contents
    BY <1>3 DEF Inv, DataOK, Rows, Contents
  <2>2. QED
    BY <2>1 DEF Commit, Rollback, Inv, DataOK, Rows, Contents
<1>5. DataOK'
  BY <1>1, <1>4 DEF Inv, DataOK, redis, memory
<1>6. RegsOK'
  BY <1>1, <1>3 DEF Inv, RegsOK, redis, regs
<1>7. QED
  BY <1>2, <1>5, <1>6 DEF Inv

LEMMA InitInv == Init => Inv
<1>1. SUFFICES ASSUME Init PROVE Inv
  OBVIOUS
<1> USE ThreadsAssumption, ValuesAssumption
<1>2. NoRows \in Rows
  BY DEF NoRows, Rows
<1>3. DataOK
  BY <1>1, <1>2 DEF Init, DataOK
<1>4. pc \in [Threads -> Steps]
  BY <1>1 DEF Init, Steps
<1>5. /\ lock \in [Processes -> Threads \union {None}]
      /\ \A p \in Processes, t \in Threads : lock[p] # t /\ pc[t] \notin Critical
  BY <1>1 DEF Init, Critical
<1>6. LockOK
  BY <1>4, <1>5 DEF LockOK
<1>7. RegsOK
  BY <1>1, <1>2 DEF Init, RegsOK, Contents
<1>8. QED
  BY <1>3, <1>6, <1>7 DEF Inv

LEMMA InvAlways == Spec => []Inv
<1>1. Inv /\ [Next]_vars => Inv'
  <2>1. SUFFICES ASSUME Inv, [Next]_vars PROVE Inv'
    OBVIOUS
  <2>2. CASE UNCHANGED vars
    BY <2>1, <2>2 DEF vars, redis, memory, regs, Inv, DataOK, LockOK, RegsOK
  <2>3. ASSUME NEW t \in Threads, Statement(t) PROVE Inv'
    BY <2>1, <2>3, ReadKeeps, ReplaceKeeps, PublicationKeeps, CommitKeeps DEF Statement
  <2>4. ASSUME NEW t \in Threads, LosePublication(t) \/ LoseLoad(t) \/ Rollback(t) PROVE Inv'
    BY <2>1, <2>4, ReplaceKeeps, PublicationKeeps, CommitKeeps
  <2>5. ASSUME NEW t \in Threads,
               \/ \E n \in Numbers, v \in Values : Save(t, n, v) \/ AdminSave(t, n, v)
               \/ \E n \in Numbers : Delete(t, n)
               \/ Ask(t)
        PROVE  Inv'
    BY <2>1, <2>5, RequestKeeps DEF Ask
  <2>6. ASSUME NEW t \in Threads, Restart(t) PROVE Inv'
    BY <2>1, <2>6, RestartKeeps
  <2>7. QED
    BY <2>1, <2>2, <2>3, <2>4, <2>5, <2>6 DEF Next
<1>2. QED
  BY <1>1, InitInv, PTL DEF Spec

\* For any number of processes, threads and settings: rows, hash, stores and revisions keep
\* their types, no process has a revision that Redis has not reached, and of the threads of a
\* process only the one that has the lock publishes (upsert_from_model, remove_number).
THEOREM TypeCorrect == Spec => []TypeOK
BY InvAlways, InvTypes, PTL

----------------------------------------------------------------------------
(* What the listener is served.  Redis has no transaction over the hash    *)
(* and the revision, and the listener reads both by single commands; the   *)
(* argument is that what it reads is never older than what was valid when  *)
(* it began, and that a store with the revision of Redis holds nothing but *)
(* valid values.                                                           *)

\* One web process that writes settings, carousels that do not share a process, and nothing
\* beside a creation, a deletion or the start of a listener; nothing fails.
Orderly ==
    /\ \A t, u \in Threads : ProcessOf[t] = ProcessOf[u] => t = u
    /\ \A w, x \in Writers : w = x
    /\ {"create", "delete", "start"} \subseteq Alone
    /\ ~MayFail

Asking(t) == ~Idle(t) /\ doing[t].op = "get"
Starting(t) == ~Idle(t) /\ doing[t].op = "start"
Busy(n) == \E w \in Writers : ~Idle(w) /\ Number(w) = n
\* A row that is created and not yet published, and a row that is deleted
Creating(n) ==
    \E w \in Writers :
        ~Idle(w) /\ pc[w] # "commit" /\ Number(w) = n /\ doing[w].op = "create"
Deleting(n) == \E w \in Writers : ~Idle(w) /\ Number(w) = n /\ doing[w].op = "delete"

Exclusive ==
    \A t, u \in Threads :
        t = u \/ Idle(t) \/ Idle(u) \/ {doing[t].op, doing[u].op} \intersect Alone = {}

HistoryOK ==
    /\ valid \in [Numbers -> SUBSET Contents]
    /\ answer \in [Threads -> [value : Contents, valid : SUBSET Contents]]

\* A value that may be served of n; absence only when there is no row
Current(v, n) == v \in valid[n] /\ (v = Absent => written[n] = Absent \/ Creating(n))

\* The database is behind only where a transaction is open, and shows a row that is gone
\* only while it is being deleted.
CommitOK ==
    \A n \in Numbers :
        /\ db[n] = written[n] \/ Locked(n)
        /\ written[n] = Absent /\ db[n] # Absent => Deleting(n)

\* The hash is behind what was written only where a change is being published.
HashOK ==
    \A n \in Numbers :
        written[n] \in valid[n] /\ Current(hash[n], n) /\ (hash[n] = written[n] \/ Busy(n))

\* Who changes a row publishes the row as it is.
WriterAt(w) ==
    ~Idle(w) =>
        /\ doing[w].op \in {"create", "edit", "save", "delete"}
        /\ pc[w] \in {"upsert", "remove", "hset", "bump", "commit"}
        /\ pc[w] # "remove" => snapshot[w] = written[Number(w)]
        /\ pc[w] = "remove" => written[Number(w)] = Absent
        /\ pc[w] \in {"bump", "commit"} => hash[Number(w)] = written[Number(w)]

\* A store at the revision of Redis holds what may be served.
StoreAt(t) ==
    loaded[P(t)] =>
        /\ rev > 0
        /\ localRev[P(t)] = rev => \A n \in Numbers : Current(store[P(t)][n], n)

\* A value that may be served to thread t
Fits(t, v) == v \in answer[t].valid /\ (v = Absent => written[Number(t)] = Absent)

\* What a thread that asks has read so far fits, and so does what it leaves in the store.
AskingAt(t) ==
    /\ pc[t] \in {"rev", "compare", "hash", "replace", "lookup", "fallback"}
    /\ rev > 0 /\ valid[Number(t)] \subseteq answer[t].valid
    /\ pc[t] \in {"compare", "hash", "replace"} => remote[t] > 0
    /\ pc[t] = "compare" /\ remote[t] = localRev[P(t)] /\ loaded[P(t)] =>
          Fits(t, store[P(t)][Number(t)])
    /\ pc[t] = "replace" =>
          /\ Fits(t, rows[t][Number(t)])
          /\ \A n \in Numbers : /\ rows[t][n] = Absent => written[n] = Absent
                                /\ remote[t] = rev => rows[t][n] \in valid[n]
    /\ pc[t] = "lookup" => Fits(t, store[P(t)][Number(t)])
    /\ pc[t] = "fallback" => written[Number(t)] = Absent

StartingAt(t) ==
    /\ ~loaded[P(t)] /\ pc[t] \in {"select", "publish"}
    /\ pc[t] = "publish" => rows[t] = db

ServedAt(t) == Idle(t) /\ doing[t].op = "get" => answer[t].value \in answer[t].valid

AskerAt(t) ==
    /\ ~Idle(t) => Asking(t) \/ Starting(t)
    /\ Asking(t) => AskingAt(t)
    /\ Starting(t) => StartingAt(t)
    /\ StoreAt(t) /\ ServedAt(t)

Fresh ==
    /\ Exclusive /\ HistoryOK /\ CommitOK /\ HashOK
    /\ \A w \in Writers : WriterAt(w)
    /\ \A t \in Askers : AskerAt(t)

\* A thread moves, the others stay.
LEMMA Moved ==
    ASSUME Inv, NEW t \in Threads, NEW s, Goto(t, s)
    PROVE  pc'[t] = s /\ \A u \in Threads \ {t} : pc'[u] = pc[u]
BY DEF Inv, LockOK, Goto

LEMMA Begun ==
    ASSUME Inv, Exclusive, NEW t \in Threads, NEW op, NEW n, NEW s, Begin(t, op, n, s)
    PROVE  /\ Exclusive'
           /\ pc'[t] = s /\ doing'[t].op = op /\ doing'[t].number = n
           /\ \A u \in Threads \ {t} : pc'[u] = pc[u] /\ doing'[u] = doing[u]
           /\ Idle(t) /\ (op \in Alone => \A u \in Threads : Idle(u))
<1>1. pc'[t] = s /\ \A u \in Threads \ {t} : pc'[u] = pc[u]
  BY Moved DEF Begin
<1>2. doing' = [u \in Threads |-> IF u = t THEN [op |-> op, number |-> n] ELSE doing[u]]
  BY DEF Inv, RegsOK, Begin
<1>3. /\ doing'[t].op = op /\ doing'[t].number = n
      /\ \A u \in Threads \ {t} : doing'[u] = doing[u]
  BY <1>2
<1>4. \A u \in Threads : Idle(u) \/ {op, doing[u].op} \intersect Alone = {}
  BY DEF Begin
<1>5. Exclusive'
  <2>1. SUFFICES ASSUME NEW u \in Threads, NEW x \in Threads, u # x, ~Idle(u)', ~Idle(x)'
                 PROVE  {doing'[u].op, doing'[x].op} \intersect Alone = {}
    BY DEF Exclusive
  <2>2. CASE u = t \/ x = t
    BY <1>1, <1>3, <1>4, <2>1, <2>2 DEF Idle
  <2>3. CASE u # t /\ x # t
    BY <1>1, <1>3, <2>1, <2>3 DEF Idle, Exclusive
  <2>4. QED
    BY <2>2, <2>3
<1>6. QED
  BY <1>1, <1>3, <1>4, <1>5 DEF Begin

LEMMA Continued ==
    ASSUME Inv, Exclusive, NEW t \in Threads, NEW s, Goto(t, s), ~Idle(t), doing' = doing
    PROVE  Exclusive'
BY Moved DEF Exclusive, Idle

\* While a thread asks, no row is created or deleted; while one starts, nobody else runs.
LEMMA NobodyBeside ==
    ASSUME Orderly, Exclusive, NEW t \in Askers
    PROVE  /\ Asking(t) => \A n : ~Creating(n) /\ ~Deleting(n)
           /\ Starting(t) => \A u \in Threads \ {t} : Idle(u)
BY ThreadsAssumption DEF Orderly, Exclusive, Asking, Starting, Creating, Deleting, Askers

\* What happens beside a thread that asks leaves what it has read fitting.
LEMMA Bystander ==
    ASSUME Inv, NEW u \in Askers, AskerAt(u),
           pc'[u] = pc[u], doing'[u] = doing[u], remote'[u] = remote[u], rows'[u] = rows[u],
           store'[P(u)] = store[P(u)], localRev'[P(u)] = localRev[P(u)], loaded'[P(u)] = loaded[P(u)],
           rev' \in Nat, rev <= rev',
           answer'[u].value = answer[u].value \/ ~Idle(u),
           answer[u].valid \subseteq answer'[u].valid,
           Asking(u) => valid'[Number(u)] \subseteq answer'[u].valid,
           Asking(u) => \A n \in Numbers : written[n] = Absent => written'[n] = Absent,
           Starting(u) => db' = db,
           rev' = rev => \A n \in Numbers : /\ valid[n] \subseteq valid'[n]
                                            /\ \A v : Current(v, n) => Current(v, n)'
    PROVE  AskerAt(u)'
<1>1. u \in Threads /\ P(u) \in Processes
  BY ThreadsAssumption DEF Askers, P
<1>2. /\ remote[u] \in 0 .. rev /\ localRev[P(u)] \in 0 .. rev /\ rev \in Nat
      /\ Asking(u) => Number(u) \in Numbers
  BY <1>1 DEF Inv, RegsOK, DataOK, Asking, Idle, Number
<1>3. /\ Asking(u)' = Asking(u) /\ Starting(u)' = Starting(u) /\ Idle(u)' = Idle(u)
      /\ Number(u)' = Number(u)
  BY DEF Asking, Starting, Idle, Number
<1>4. \A v : Asking(u) /\ Fits(u, v) => Fits(u, v)'
  BY <1>2, <1>3 DEF Fits
<1>5. ASSUME Asking(u) PROVE AskingAt(u)'
  <2>1. AskingAt(u)
    BY <1>5 DEF AskerAt
  <2>2. rev' > 0 /\ (pc'[u] \in {"compare", "hash", "replace"} => remote'[u] > 0)
    BY <1>2, <2>1 DEF AskingAt
  <2>3. pc'[u] = "compare" /\ remote'[u] = localRev'[P(u)] /\ loaded'[P(u)] =>
            Fits(u, store[P(u)][Number(u)])'
    BY <1>3, <1>4, <1>5, <2>1 DEF AskingAt, Fits
  <2>4. pc'[u] = "lookup" => Fits(u, store[P(u)][Number(u)])'
    BY <1>3, <1>4, <1>5, <2>1 DEF AskingAt, Fits
  <2>5. ASSUME pc'[u] = "replace"
        PROVE  /\ Fits(u, rows[u][Number(u)])'
               /\ \A n \in Numbers : /\ rows'[u][n] = Absent => written'[n] = Absent
                                     /\ remote'[u] = rev' => rows'[u][n] \in valid'[n]
    <3>1. Fits(u, rows[u][Number(u)])'
      BY <1>3, <1>4, <1>5, <2>1, <2>5 DEF AskingAt, Fits
    <3>2. remote[u] = rev' => remote[u] = rev /\ rev' = rev
      BY <1>2
    <3>3. QED
      BY <1>5, <2>1, <2>5, <3>1, <3>2 DEF AskingAt
  <2>6. pc'[u] = "fallback" => written'[Number(u)] = Absent
    BY <1>2, <1>5, <2>1 DEF AskingAt
  <2>7. QED
    BY <1>3, <1>5, <2>1, <2>2, <2>3, <2>4, <2>5, <2>6 DEF AskingAt
<1>6. Starting(u) => StartingAt(u)'
  BY DEF AskerAt, StartingAt
<1>7. StoreAt(u)'
  <2>1. StoreAt(u)
    BY DEF AskerAt
  <2>2. localRev[P(u)] = rev' => localRev[P(u)] = rev /\ rev' = rev
    BY <1>2
  <2>3. QED
    BY <1>2, <2>1, <2>2 DEF StoreAt, P
<1>8. ServedAt(u)'
  BY <1>3 DEF AskerAt, ServedAt
<1>9. QED
  BY <1>3, <1>5, <1>6, <1>7, <1>8 DEF AskerAt

\* A row is written, with its commit or before it.
LEMMA ChangeKeeps ==
    ASSUME Orderly, Inv, Inv', Fresh, NEW w \in Writers, NEW n \in Numbers, NEW v \in Contents,
           NEW op \in {"create", "edit", "save", "delete"}, NEW s \in {"upsert", "remove"},
           Begin(w, op, n, s), Changed(n, v), written' = [written EXCEPT ![n] = v],
           \/ op = "save" /\ db' = [db EXCEPT ![n] = v]
           \/ op # "save" /\ db' = db,
           UNCHANGED <<redis, memory, remote, rows>>,
           s = "upsert" => snapshot'[w] = v, s = "remove" => v = Absent,
           v # Absent /\ db[n] = Absent => op = "create", v = Absent => op = "delete"
    PROVE  Fresh'
<1>1. w \in Threads /\ w \notin Askers /\ \A x \in Writers : x = w
  BY ThreadsAssumption DEF Orderly, Askers
<1>2. /\ Exclusive' /\ pc'[w] = s /\ doing'[w].op = op /\ doing'[w].number = n
      /\ \A u \in Threads \ {w} : pc'[u] = pc[u] /\ doing'[u] = doing[u]
      /\ Idle(w) /\ (op \in Alone => \A u \in Threads : Idle(u))
  BY <1>1, Begun DEF Fresh
<1>3. op = "create" => \A u \in Threads : Idle(u)
  BY <1>2 DEF Orderly
<1>4. /\ valid' = [valid EXCEPT ![n] = @ \union {v}]
      /\ answer' = [t \in Threads |->
                      IF ~Idle(t) /\ doing[t].op = "get" /\ Number(t) = n
                      THEN [answer[t] EXCEPT !.valid = @ \union {v}] ELSE answer[t]]
  BY DEF Changed
<1>5. /\ valid'[n] = valid[n] \union {v} /\ \A m \in Numbers \ {n} : valid'[m] = valid[m]
      /\ valid' \in [Numbers -> SUBSET Contents]
  BY <1>4 DEF Fresh, HistoryOK
<1>6. /\ written'[n] = v /\ \A m \in Numbers \ {n} : written'[m] = written[m]
      /\ db'[n] = (IF op = "save" THEN v ELSE db[n])
      /\ \A m \in Numbers \ {n} : db'[m] = db[m]
  BY DEF Inv, DataOK, Rows
<1>7. \A t \in Threads :
          /\ answer'[t].value = answer[t].value
          /\ answer[t].valid \subseteq answer'[t].valid
          /\ Asking(t) /\ Number(t) = n => v \in answer'[t].valid
          /\ answer'[t] \in [value : Contents, valid : SUBSET Contents]
  BY <1>4 DEF Asking, Fresh, HistoryOK
<1>8. HistoryOK'
  <2>1. answer' = [t \in Threads |-> answer'[t]]
    BY <1>4
  <2>2. answer' \in [Threads -> [value : Contents, valid : SUBSET Contents]]
    BY <1>7, <2>1
  <2>3. QED
    BY <1>5, <2>2 DEF HistoryOK
<1>9. /\ \A m : ~Creating(m) /\ ~Busy(m) /\ ~Locked(m)
      /\ Busy(n)' /\ (op = "create" => Creating(n)')
      /\ op # "save" => Locked(n)'
      /\ op = "delete" => Deleting(n)'
  BY <1>1, <1>2 DEF Creating, Deleting, Busy, Locked, Idle, Number, Transactions
<1>10. \A m \in Numbers : hash[m] = written[m] /\ db[m] = written[m] /\ written[m] \in valid[m]
  BY <1>9 DEF Fresh, HashOK, CommitOK
<1>11. \A m \in Numbers : \A x : Current(x, m) => Current(x, m)'
  BY <1>5, <1>6, <1>9, <1>10 DEF Current
<1>12. HashOK'
  <2>1. hash' = hash
    BY DEF redis
  <2>2. \A m \in Numbers : Current(hash[m], m)
    BY DEF Fresh, HashOK
  <2>3. \A m \in Numbers : Current(hash[m], m)'
    BY <1>11, <2>1, <2>2 DEF Current
  <2>4. QED
    BY <1>5, <1>6, <1>9, <1>10, <2>1, <2>3 DEF HashOK, Current
<1>13. CommitOK'
  BY <1>6, <1>9, <1>10 DEF CommitOK
<1>14. \A x \in Writers : WriterAt(x)'
  BY <1>1, <1>2, <1>6 DEF WriterAt, Number
<1>15. ASSUME NEW u \in Askers PROVE AskerAt(u)'
  <2>1. u \in Threads \ {w} /\ AskerAt(u)
    BY <1>1 DEF Askers, Fresh
  <2>2. (Asking(u) \/ Starting(u)) /\ written[n] = Absent => v = Absent
    BY <1>3, <1>10, <2>1 DEF Asking, Starting
  <2>3. ~Starting(u)
    <3>1. Starting(u) => {op, doing[u].op} \intersect Alone = {}
      BY <2>1 DEF Begin, Starting
    <3>2. QED
      BY <3>1 DEF Starting, Orderly
  <2>4. Asking(u) => valid'[Number(u)] \subseteq answer'[u].valid
    <3>1. Asking(u) => Number(u) \in Numbers /\ valid[Number(u)] \subseteq answer[u].valid
      BY <2>1 DEF Asking, AskerAt, AskingAt, Inv, RegsOK, Idle, Number
    <3>2. QED
      BY <1>5, <1>7, <2>1, <3>1
  <2>5. Asking(u) => \A m \in Numbers : written[m] = Absent => written'[m] = Absent
    BY <1>6, <2>2
  <2>6. rev' = rev /\ rev \in Nat /\ UNCHANGED <<store, localRev, loaded, remote, rows>>
    BY DEF redis, memory, Inv, DataOK
  <2>7. pc'[u] = pc[u] /\ doing'[u] = doing[u]
    BY <1>2, <2>1
  <2>8. rev <= rev'
    BY <2>6
  <2>9. QED
    BY <1>5, <1>7, <1>11, <2>1, <2>3, <2>4, <2>5, <2>6, <2>7, <2>8, Bystander
<1>16. QED
  BY <1>2, <1>8, <1>12, <1>13, <1>14, <1>15 DEF Fresh

LEMMA WriteKeeps ==
    ASSUME Orderly, Inv, Inv', Fresh, NEW w \in Writers, NEW n \in Numbers,
           (\E v \in Values : Save(w, n, v) \/ AdminSave(w, n, v)) \/ Delete(w, n)
    PROVE  Fresh'
<1>1. ASSUME NEW v \in Values, Save(w, n, v) \/ AdminSave(w, n, v) PROVE Fresh'
  <2>1. PICK op \in {"create", "edit", "save"} :
            /\ Begin(w, op, n, "upsert")
            /\ db[n] = Absent => op = "create"
            /\ \/ op = "save" /\ db' = [db EXCEPT ![n] = v]
               \/ op # "save" /\ db' = db
    <3>1. CASE Save(w, n, v)
      BY <3>1 DEF Save
    <3>2. CASE AdminSave(w, n, v)
      BY <3>2 DEF AdminSave
    <3>3. QED
      BY <1>1, <3>1, <3>2
  <2>2. /\ Changed(n, v) /\ written' = [written EXCEPT ![n] = v] /\ v \in Contents /\ v # Absent
        /\ UNCHANGED <<redis, memory, remote, rows>>
    BY <1>1, ValuesAssumption DEF Save, AdminSave, Contents
  <2>3. snapshot'[w] = v
    BY <1>1, ThreadsAssumption DEF Save, AdminSave, Inv, RegsOK
  <2>4. QED
    BY <2>1, <2>2, <2>3, ChangeKeeps
<1>2. CASE Delete(w, n)
  <2>1. /\ Begin(w, "delete", n, "remove") /\ Changed(n, Absent)
        /\ written' = [written EXCEPT ![n] = Absent] /\ db' = db
        /\ UNCHANGED <<redis, memory, remote, rows>> /\ Absent \in Contents
    BY <1>2 DEF Delete, regs, Contents
  <2>2. QED
    BY <2>1, ChangeKeeps
<1>3. QED
  BY <1>1, <1>2

\* The steps of a publication before the revision is bumped.
LEMMA PublishingKeeps ==
    ASSUME Orderly, Inv, Inv', Fresh, NEW w \in Writers, Upsert(w) \/ Remove(w) \/ SetField(w)
    PROVE  Fresh'
<1>1. w \in Threads /\ w \notin Askers /\ \A x \in Writers : x = w
  BY ThreadsAssumption DEF Orderly, Askers
<1>2. /\ ~Idle(w) /\ doing' = doing /\ UNCHANGED <<db, written, rev, remote, rows, valid, answer>>
      /\ \E s \in {"hset", "bump"} : Goto(w, s)
  BY DEF Upsert, Remove, SetField, redis, regs, history, Idle
<1>3. /\ ~Idle(w)' /\ \A u \in Threads \ {w} : pc'[u] = pc[u]
      /\ pc'[w] \in {"hset", "bump"} /\ Exclusive'
  <2>1. PICK s \in {"hset", "bump"} : Goto(w, s)
    BY <1>2
  <2>2. QED
    BY <1>1, <1>2, <2>1, Moved, Continued DEF Idle, Fresh
<1>4. WriterAt(w) /\ Number(w) \in Numbers /\ Number(w)' = Number(w)
  BY <1>1, <1>2 DEF Fresh, Idle, Inv, RegsOK, Number
<1>5. \A m : /\ Creating(m)' = Creating(m) /\ Busy(m)' = Busy(m)
             /\ Locked(m)' = Locked(m) /\ Deleting(m)' = Deleting(m)
             /\ \A v : Current(v, m)' = Current(v, m)
  <2>1. pc[w] # "commit" /\ pc'[w] # "commit"
    BY <1>3 DEF Upsert, Remove, SetField
  <2>2. QED
    BY <1>1, <1>2, <1>3, <1>4, <2>1
       DEF Creating, Deleting, Busy, Locked, Current, Number, Idle
<1>6. /\ \A m \in Numbers \ {Number(w)} : hash'[m] = hash[m]
      /\ hash'[Number(w)] \in {hash[Number(w)], written[Number(w)]}
      /\ SetField(w) => hash'[Number(w)] = written[Number(w)]
  <2>1. CASE SetField(w)
    <3>1. hash' = [hash EXCEPT ![Number(w)] = snapshot[w]] /\ snapshot[w] = written[Number(w)]
      BY <1>2, <1>4, <2>1 DEF SetField, WriterAt
    <3>2. QED
      BY <1>4, <3>1 DEF Inv, DataOK, Rows
  <2>2. CASE Upsert(w) \/ Remove(w)
    BY <2>2 DEF Upsert, Remove, redis, SetField
  <2>3. QED
    BY <2>1, <2>2
<1>7. HashOK'
  <2>1. ASSUME NEW m \in Numbers
        PROVE  written'[m] \in valid'[m] /\ Current(hash[m], m)' /\ (hash'[m] = written'[m] \/ Busy(m)')
    <3>1. written[m] \in valid[m] /\ Current(hash[m], m) /\ (hash[m] = written[m] \/ Busy(m))
      BY DEF Fresh, HashOK
    <3>2. PICK h : h = hash'[m]
      OBVIOUS
    <3>3. Current(h, m) /\ (h = written[m] \/ Busy(m))
      BY <1>2, <1>6, <3>1, <3>2 DEF Current
    <3>4. Current(h, m)' /\ (h = written[m] \/ Busy(m)')
      BY <1>5, <3>3
    <3>5. QED
      BY <1>2, <3>1, <3>2, <3>4 DEF Current
  <2>2. QED
    BY <2>1 DEF HashOK
<1>8. WriterAt(w)'
  <2>1. /\ pc'[w] = "hset" => snapshot'[w] = written[Number(w)]
        /\ pc'[w] = "bump" => snapshot'[w] = written[Number(w)] /\ hash'[Number(w)] = written[Number(w)]
    <3>1. CASE Upsert(w)
      BY <1>1, <1>4, <3>1, Moved DEF Upsert, regs, WriterAt, Idle
    <3>2. CASE Remove(w)
      BY <1>1, <1>4, <3>2, Moved DEF Remove, WriterAt, Idle, Inv, RegsOK
    <3>3. CASE SetField(w)
      BY <1>1, <1>4, <1>6, <3>3, Moved DEF SetField, regs, WriterAt, Idle
    <3>4. QED
      BY <3>1, <3>2, <3>3
  <2>2. doing'[w].op \in {"create", "edit", "save", "delete"}
    BY <1>2, <1>4 DEF WriterAt
  <2>3. QED
    BY <1>2, <1>3, <1>4, <2>1, <2>2 DEF WriterAt
<1>9. ASSUME NEW u \in Askers PROVE AskerAt(u)'
  <2>1. u \in Threads \ {w} /\ AskerAt(u) /\ P(u) # P(w)
    BY <1>1 DEF Askers, Fresh, Orderly, P
  <2>2. /\ store'[P(u)] = store[P(u)] /\ localRev'[P(u)] = localRev[P(u)]
        /\ loaded'[P(u)] = loaded[P(u)]
    BY <2>1, ThreadsAssumption DEF Upsert, Remove, SetField, memory, Inv, DataOK, P
  <2>3. rev' \in Nat /\ rev <= rev'
    BY <1>2 DEF Inv, DataOK
  <2>4. Asking(u) => valid'[Number(u)] \subseteq answer'[u].valid
    BY <1>2, <2>1 DEF AskerAt, AskingAt
  <2>5. pc'[u] = pc[u] /\ doing'[u] = doing[u]
    BY <1>2, <1>3, <2>1
  <2>6. QED
    BY <1>2, <1>5, <2>1, <2>2, <2>3, <2>4, <2>5, Bystander
<1>10. HistoryOK' /\ CommitOK'
  BY <1>2, <1>5 DEF Fresh, HistoryOK, CommitOK
<1>11. QED
  BY <1>1, <1>3, <1>7, <1>8, <1>9, <1>10 DEF Fresh

\* The revision is bumped: the change is the only value of the row, and no store has the
\* new revision.
LEMMA BumpKeeps ==
    ASSUME Orderly, Inv, Inv', Fresh, NEW w \in Writers, BumpRev(w)
    PROVE  Fresh'
<1>1. w \in Threads /\ w \notin Askers /\ \A x \in Writers : x = w
  BY ThreadsAssumption DEF Orderly, Askers
<1>2. ~Idle(w) /\ WriterAt(w) /\ Number(w) \in Numbers
  BY <1>1 DEF BumpRev, Idle, Fresh, Inv, RegsOK, Number
<1>3. /\ doing' = doing /\ UNCHANGED <<db, written, hash, store, loaded, remote, rows, answer>>
      /\ rev' = rev + 1 /\ rev \in Nat
  BY <1>2 DEF BumpRev, regs, Serve, WriterAt, Inv, DataOK
<1>4. /\ pc'[w] = (IF doing[w].op \in Transactions THEN "commit" ELSE "idle")
      /\ \A u \in Threads \ {w} : pc'[u] = pc[u]
      /\ Exclusive'
  BY <1>1, <1>2, <1>3, Moved, Continued DEF BumpRev, AfterPublication, Fresh
<1>5. /\ valid' \in [Numbers -> SUBSET Contents]
      /\ \A m \in Numbers : valid'[m] \subseteq valid[m] /\ written[m] \in valid'[m]
  <2>1. valid' = valid \/ valid' = [valid EXCEPT ![Number(w)] = {written[Number(w)]}]
    BY DEF BumpRev, Published
  <2>2. \A m \in Numbers : written[m] \in valid[m] /\ written[m] \in Contents
    BY DEF Fresh, HashOK, Inv, DataOK, Rows, Contents
  <2>3. QED
    BY <1>2, <2>1, <2>2 DEF Fresh, HistoryOK
<1>6. \A m \in Numbers : hash[m] = written[m]
  <2>1. hash[Number(w)] = written[Number(w)]
    BY <1>2 DEF WriterAt, BumpRev
  <2>2. \A m \in Numbers \ {Number(w)} : ~Busy(m)
    BY <1>1 DEF Busy
  <2>3. QED
    BY <2>1, <2>2 DEF Fresh, HashOK
<1>7. HashOK'
  BY <1>3, <1>5, <1>6 DEF HashOK, Current
<1>8. ASSUME NEW u \in Askers PROVE AskerAt(u)'
  <2>1. u \in Threads \ {w} /\ AskerAt(u) /\ P(u) # P(w)
    BY <1>1 DEF Askers, Fresh, Orderly, P
  <2>2. localRev'[P(u)] = localRev[P(u)]
    BY <2>1, ThreadsAssumption DEF BumpRev, Inv, DataOK, P
  <2>3. rev' \in Nat /\ rev <= rev' /\ rev' # rev
    BY <1>3
  <2>4. Asking(u) => Number(u) \in Numbers /\ valid[Number(u)] \subseteq answer[u].valid
    BY <2>1 DEF Asking, AskerAt, AskingAt, Inv, RegsOK, Idle, Number
  <2>5. pc'[u] = pc[u] /\ doing'[u] = doing[u]
    BY <1>3, <1>4, <2>1
  <2>6. Asking(u) => valid'[Number(u)] \subseteq answer'[u].valid
    BY <1>3, <1>5, <2>4
  <2>7. QED
    BY <1>3, <2>1, <2>2, <2>3, <2>5, <2>6, Bystander
<1>9. HistoryOK'
  BY <1>3, <1>5 DEF Fresh, HistoryOK
<1>10. \A x \in Writers : WriterAt(x)'
  <2>1. snapshot'[w] = snapshot[w] /\ snapshot[w] = written[Number(w)] /\ Number(w)' = Number(w)
    BY <1>2, <1>3 DEF BumpRev, regs, WriterAt, Number
  <2>2. WriterAt(w)'
    BY <1>2, <1>3, <1>4, <1>6, <2>1 DEF WriterAt, Idle
  <2>3. QED
    BY <1>1, <2>2
<1>11. CommitOK'
  <2>1. CASE doing[w].op \in Transactions
    <3>1. \A m : Locked(m)' = Locked(m) /\ Deleting(m)' = Deleting(m)
      BY <1>1, <1>2, <1>3, <1>4, <2>1 DEF Locked, Deleting, Idle, Number
    <3>2. QED
      BY <1>3, <3>1 DEF Fresh, CommitOK
  <2>2. CASE doing[w].op \notin Transactions
    BY <1>1, <1>3, <2>2 DEF Fresh, CommitOK, Locked
  <2>3. QED
    BY <2>1, <2>2
<1>12. QED
  BY <1>4, <1>7, <1>8, <1>9, <1>10, <1>11 DEF Fresh

\* A transaction is committed: the database shows what is published.
LEMMA CommitEnds ==
    ASSUME Orderly, Inv, Inv', Fresh, NEW w \in Writers, Commit(w)
    PROVE  Fresh'
<1>1. w \in Threads /\ w \notin Askers /\ \A x \in Writers : x = w
  BY ThreadsAssumption DEF Orderly, Askers
<1>2. ~Idle(w) /\ pc[w] = "commit" /\ WriterAt(w) /\ Number(w) \in Numbers
  BY <1>1 DEF Commit, Idle, Fresh, Inv, RegsOK, Number
<1>3. /\ doing' = doing
      /\ UNCHANGED <<written, redis, memory, remote, rows, valid, answer>>
      /\ db' = [db EXCEPT ![Number(w)] = written[Number(w)]]
      /\ rev \in Nat
  BY DEF Commit, regs, history, Inv, DataOK
<1>4. /\ pc'[w] = "idle" /\ \A u \in Threads \ {w} : pc'[u] = pc[u]
      /\ Exclusive'
  BY <1>1, <1>2, <1>3, Moved, Continued DEF Commit, Fresh
<1>5. \A m \in Numbers : hash[m] = written[m]
  <2>1. \A m \in Numbers \ {Number(w)} : ~Busy(m)
    BY <1>1 DEF Busy
  <2>2. QED
    BY <1>2, <2>1 DEF Fresh, HashOK, WriterAt
<1>6. \A m \in Numbers : db'[m] = written[m]
  <2>1. \A m \in Numbers \ {Number(w)} : ~Locked(m)
    BY <1>1 DEF Locked
  <2>2. QED
    BY <1>2, <1>3, <2>1 DEF Fresh, CommitOK, Inv, DataOK, Rows
<1>7. CommitOK' /\ HistoryOK'
  BY <1>3, <1>6 DEF Fresh, CommitOK, HistoryOK
<1>8. \A m, v : Current(v, m)' = Current(v, m)
  <2>1. \A m : ~Creating(m) /\ ~Creating(m)'
    BY <1>1, <1>2, <1>4 DEF Creating, Idle
  <2>2. QED
    BY <1>3, <2>1 DEF Current
<1>9. HashOK'
  BY <1>3, <1>5, <1>8 DEF Fresh, HashOK, Current, redis
<1>10. \A x \in Writers : WriterAt(x)'
  BY <1>1, <1>4 DEF WriterAt, Idle
<1>11. ASSUME NEW u \in Askers PROVE AskerAt(u)'
  <2>1. u \in Threads \ {w} /\ AskerAt(u)
    BY <1>1 DEF Askers, Fresh
  <2>2. ~Starting(u)
    BY <1>1, <1>2, <2>1, NobodyBeside DEF Fresh
  <2>3. rev' = rev /\ rev' \in Nat /\ rev <= rev' /\ UNCHANGED <<store, localRev, loaded>>
    BY <1>3 DEF redis, memory
  <2>4. Asking(u) => valid'[Number(u)] \subseteq answer'[u].valid
    BY <1>3, <2>1 DEF AskerAt, AskingAt
  <2>5. pc'[u] = pc[u] /\ doing'[u] = doing[u]
    BY <1>3, <1>4, <2>1
  <2>6. QED
    BY <1>3, <1>8, <2>1, <2>2, <2>3, <2>4, <2>5, Bystander
<1>12. QED
  BY <1>4, <1>7, <1>9, <1>10, <1>11 DEF Fresh

\* A thread of the listener moves and leaves the database and Redis alone.
LEMMA ReaderKeeps ==
    ASSUME Orderly, Inv, Inv', Fresh, NEW t \in Askers,
           UNCHANGED <<db, written, redis, snapshot, valid>>, Exclusive', HistoryOK', AskerAt(t)',
           \A u \in Threads \ {t} : /\ pc'[u] = pc[u] /\ doing'[u] = doing[u]
                                    /\ remote'[u] = remote[u] /\ rows'[u] = rows[u]
                                    /\ answer'[u] = answer[u],
           \A p \in Processes \ {P(t)} : /\ store'[p] = store[p] /\ localRev'[p] = localRev[p]
                                         /\ loaded'[p] = loaded[p]
    PROVE  Fresh'
<1>1. t \in Threads /\ t \notin Writers /\ Writers \subseteq Threads
  BY ThreadsAssumption DEF Askers
<1>2. hash' = hash /\ rev' = rev /\ rev' \in Nat /\ rev <= rev'
  BY DEF redis, Inv, DataOK
<1>3. \A m : /\ Creating(m)' = Creating(m) /\ Busy(m)' = Busy(m)
             /\ Locked(m)' = Locked(m) /\ Deleting(m)' = Deleting(m)
  BY <1>1 DEF Creating, Deleting, Busy, Locked, Idle, Number
<1>4. \A m, v : Current(v, m)' = Current(v, m)
  BY <1>3 DEF Current
<1>5. HashOK' /\ CommitOK'
  BY <1>2, <1>3 DEF Fresh, HashOK, CommitOK, Current
<1>6. \A w \in Writers : WriterAt(w)'
  BY <1>1, <1>2 DEF Fresh, WriterAt, Idle, Number
<1>7. ASSUME NEW u \in Askers PROVE AskerAt(u)'
  <2>1. CASE u = t
    BY <2>1
  <2>2. CASE u # t
    <3>1. u \in Threads \ {t} /\ AskerAt(u) /\ P(u) \in Processes \ {P(t)}
      BY <1>1, <2>2, ThreadsAssumption DEF Askers, Fresh, Orderly, P
    <3>2. Asking(u) => valid'[Number(u)] \subseteq answer'[u].valid
      BY <3>1 DEF AskerAt, AskingAt
    <3>3. QED
      BY <1>2, <1>4, <3>1, <3>2, Bystander
  <2>3. QED
    BY <2>1, <2>2
<1>8. QED
  BY <1>5, <1>6, <1>7 DEF Fresh

\* The listener begins to ask.
LEMMA GetKeeps ==
    ASSUME Orderly, Inv, Inv', Fresh, NEW t \in Askers, NEW n \in Numbers, Get(t, n)
    PROVE  Fresh'
<1>1. t \in Threads /\ AskerAt(t)
  BY DEF Askers, Fresh
<1>2. /\ Exclusive' /\ pc'[t] = "rev" /\ doing'[t].op = "get" /\ doing'[t].number = n
      /\ \A u \in Threads \ {t} : pc'[u] = pc[u] /\ doing'[u] = doing[u]
  BY <1>1, Begun DEF Get, Fresh
<1>3. UNCHANGED <<db, written, redis, memory, snapshot, remote, rows, valid>>
  BY DEF Get, regs
<1>4. /\ answer' = [answer EXCEPT ![t] = [value |-> db[n], valid |-> valid[n]]]
      /\ db[n] \in Contents /\ valid[n] \subseteq Contents
  BY DEF Get, Fresh, HistoryOK, Inv, DataOK, Rows, Contents
<1>5. HistoryOK'
  BY <1>1, <1>3, <1>4 DEF Fresh, HistoryOK
<1>6. answer'[t].valid = valid[n] /\ \A u \in Threads \ {t} : answer'[u] = answer[u]
  BY <1>1, <1>4 DEF Fresh, HistoryOK
<1>7. loaded[P(t)] /\ StoreAt(t) /\ rev > 0
  BY <1>1 DEF Get, AskerAt, StoreAt
<1>8. AskingAt(t)'
  BY <1>2, <1>3, <1>6, <1>7 DEF AskingAt, Number, redis
<1>9. StoreAt(t)'
  <2>1. \A m, v : Current(v, m) => Current(v, m)'
    <3>1. t \notin Writers /\ Writers \subseteq Threads
      BY ThreadsAssumption DEF Askers
    <3>2. \A m : Creating(m) => Creating(m)'
      BY <1>2, <3>1 DEF Creating, Idle, Number
    <3>3. QED
      BY <1>3, <3>2 DEF Current
  <2>2. QED
    BY <1>3, <1>7, <2>1 DEF StoreAt, redis, memory, P
<1>10. AskerAt(t)'
  BY <1>2, <1>8, <1>9 DEF AskerAt, Asking, Starting, Idle, ServedAt
<1>11. QED
  BY <1>2, <1>3, <1>5, <1>6, <1>10, ReaderKeeps DEF memory

LEMMA StartKeeps ==
    ASSUME Orderly, Inv, Inv', Fresh, NEW t \in Askers, Restart(t)
    PROVE  Fresh'
<1>1. t \in Threads /\ P(t) \in Processes
  BY ThreadsAssumption DEF Askers, P
<1>2. PICK n \in Numbers : Begin(t, "start", n, "select")
  BY DEF Restart
<1>3. /\ Exclusive' /\ pc'[t] = "select" /\ doing'[t].op = "start"
      /\ \A u \in Threads \ {t} : pc'[u] = pc[u] /\ doing'[u] = doing[u]
  BY <1>1, <1>2, Begun DEF Fresh
<1>4. UNCHANGED <<db, written, redis, snapshot, remote, rows, valid, answer>>
  BY DEF Restart, regs
<1>5. /\ ~loaded'[P(t)]
      /\ \A p \in Processes \ {P(t)} : /\ store'[p] = store[p] /\ localRev'[p] = localRev[p]
                                       /\ loaded'[p] = loaded[p]
  BY <1>1 DEF Restart, Inv, DataOK
<1>6. AskerAt(t)'
  BY <1>3, <1>5 DEF AskerAt, Asking, Starting, Idle, StartingAt, StoreAt, ServedAt, P
<1>7. HistoryOK'
  BY <1>4 DEF Fresh, HistoryOK
<1>8. QED
  BY <1>3, <1>4, <1>5, <1>6, <1>7, ReaderKeeps

\* What a thread that asks may rely on.
LEMMA AskFacts ==
    ASSUME Orderly, Inv, Fresh, NEW t \in Askers, Asking(t)
    PROVE  /\ t \in Threads /\ P(t) \in Processes /\ Number(t) \in Numbers /\ AskingAt(t)
           /\ rev \in Nat /\ answer[t] \in [value : Contents, valid : SUBSET Contents]
           /\ \A n \in Numbers : /\ {written[n], hash[n]} \subseteq valid[n]
                                 /\ hash[n] = Absent => written[n] = Absent
                                 /\ written[n] = Absent => db[n] = Absent
           /\ loaded[P(t)] /\ localRev[P(t)] = rev => \A n \in Numbers :
                 store[P(t)][n] \in valid[n] /\ (store[P(t)][n] = Absent => written[n] = Absent)
<1>1. t \in Threads /\ P(t) \in Processes
  BY ThreadsAssumption DEF Askers, P
<1>2. /\ Number(t) \in Numbers /\ AskingAt(t) /\ StoreAt(t) /\ rev \in Nat
      /\ answer[t] \in [value : Contents, valid : SUBSET Contents]
  BY <1>1 DEF Asking, Fresh, AskerAt, HistoryOK, Idle, Inv, RegsOK, DataOK, Number
<1>3. \A m : ~Creating(m) /\ ~Deleting(m)
  BY NobodyBeside DEF Fresh
<1>4. \A n \in Numbers : /\ {written[n], hash[n]} \subseteq valid[n]
                         /\ hash[n] = Absent => written[n] = Absent
                         /\ written[n] = Absent => db[n] = Absent
  BY <1>3 DEF Fresh, HashOK, CommitOK, Current
<1>5. QED
  BY <1>1, <1>2, <1>3, <1>4 DEF StoreAt, Current

\* A step of a thread that asks, by which its operation goes on: what remains to be shown.
LEMMA AskOn ==
    ASSUME Orderly, Inv, Inv', Fresh, NEW t \in Askers, Asking(t), NEW s, Goto(t, s), s # "idle",
           doing' = doing, UNCHANGED <<db, written, redis, snapshot, history>>,
           \A u \in Threads \ {t} : remote'[u] = remote[u] /\ rows'[u] = rows[u],
           \A p \in Processes \ {P(t)} : /\ store'[p] = store[p] /\ localRev'[p] = localRev[p]
                                         /\ loaded'[p] = loaded[p],
           AskingAt(t)', StoreAt(t)'
    PROVE  Fresh'
<1>1. t \in Threads
  BY DEF Askers
<1>2. Exclusive' /\ pc'[t] = s /\ \A u \in Threads \ {t} : pc'[u] = pc[u]
  BY <1>1, Continued, Moved DEF Asking, Fresh
<1>3. AskerAt(t)'
  BY <1>2 DEF AskerAt, Asking, Starting, Idle, ServedAt
<1>4. HistoryOK'
  BY DEF history, Fresh, HistoryOK
<1>5. QED
  BY <1>2, <1>3, <1>4, ReaderKeeps DEF history

\* Its store is not touched.
LEMMA StoreStays ==
    ASSUME Inv, Fresh, NEW t \in Askers, UNCHANGED <<db, written, redis, memory, valid, doing>>,
           NEW s, Goto(t, s)
    PROVE  StoreAt(t)'
<1>1. t \in Threads /\ t \notin Writers /\ Writers \subseteq Threads /\ StoreAt(t)
  BY ThreadsAssumption DEF Askers, Fresh, AskerAt
<1>2. \A m : Creating(m) => Creating(m)'
  BY <1>1, Moved DEF Creating, Idle, Number
<1>3. \A m, v : Current(v, m) => Current(v, m)'
  BY <1>2 DEF Current
<1>4. QED
  BY <1>1, <1>3 DEF StoreAt, redis, memory, P

LEMMA SyncKeeps ==
    ASSUME Orderly, Inv, Inv', Fresh, NEW t \in Askers, Asking(t),
           ReadRev(t) \/ Compare(t) \/ ReadHash(t)
    PROVE  Fresh'
<1>1. /\ t \in Threads /\ P(t) \in Processes /\ Number(t) \in Numbers /\ AskingAt(t)
      /\ rev \in Nat
  BY AskFacts
<1>2. doing' = doing /\ UNCHANGED <<db, written, redis, memory, snapshot, history>>
  BY DEF ReadRev, Compare, ReadHash, regs
<1>3. remote[t] \in Nat /\ remote \in [Threads -> 0 .. rev] /\ rows \in [Threads -> Rows]
  BY <1>1 DEF Inv, RegsOK, DataOK
<1>4. CASE ReadRev(t)
  <2>1. /\ Goto(t, "compare") /\ remote'[t] = rev /\ rows' = rows
        /\ \A u \in Threads \ {t} : remote'[u] = remote[u]
    BY <1>1, <1>3, <1>4 DEF ReadRev
  <2>2. pc'[t] = "compare"
    BY <1>1, <2>1, Moved
  <2>3. localRev[P(t)] = rev /\ loaded[P(t)] => Fits(t, store[P(t)][Number(t)])
    BY <1>1, AskFacts DEF AskingAt, Fits
  <2>4. AskingAt(t)'
    BY <1>1, <1>2, <2>1, <2>2, <2>3 DEF AskingAt, Fits, redis, memory, history, Number, P
  <2>5. StoreAt(t)'
    BY <1>2, <2>1, StoreStays DEF history
  <2>6. QED
    BY <1>2, <2>1, <2>4, <2>5, AskOn DEF memory
<1>5. CASE Compare(t)
  <2>1. PICK s \in {"lookup", "hash"} :
            /\ Goto(t, s)
            /\ s = "lookup" => loaded[P(t)] /\ remote[t] = localRev[P(t)]
    BY <1>5 DEF Compare
  <2>2. pc'[t] = s /\ pc[t] = "compare" /\ remote' = remote /\ rows' = rows
    BY <1>1, <1>5, <2>1, Moved DEF Compare, regs
  <2>3. AskingAt(t)'
    BY <1>1, <1>2, <2>1, <2>2 DEF AskingAt, Fits, redis, memory, history, Number, P
  <2>4. StoreAt(t)'
    BY <1>2, <2>1, StoreStays DEF history
  <2>5. QED
    BY <1>2, <2>1, <2>2, <2>3, <2>4, AskOn DEF memory
<1>6. CASE ReadHash(t)
  <2>1. pc[t] = "hash" /\ remote[t] > 0
    BY <1>1, <1>6 DEF ReadHash, AskingAt
  <2>2. Goto(t, "replace")
    BY <1>6, <2>1 DEF ReadHash
  <2>3. /\ pc'[t] = "replace" /\ remote' = remote /\ rows'[t] = hash
        /\ \A u \in Threads \ {t} : rows'[u] = rows[u]
    BY <1>1, <1>3, <1>6, <2>2, Moved DEF ReadHash
  <2>4. \A n \in Numbers : hash[n] \in valid[n] /\ (hash[n] = Absent => written[n] = Absent)
    BY AskFacts
  <2>5. AskingAt(t)'
    BY <1>1, <1>2, <2>1, <2>3, <2>4 DEF AskingAt, Fits, redis, memory, history, Number, P
  <2>6. StoreAt(t)'
    BY <1>2, <2>2, StoreStays DEF history
  <2>7. QED
    BY <1>2, <2>2, <2>3, <2>5, <2>6, AskOn DEF memory
<1>7. QED
  BY <1>4, <1>5, <1>6

LEMMA StoreReplaced ==
    ASSUME Orderly, Inv, Inv', Fresh, NEW t \in Askers, Asking(t), ReplaceStore(t)
    PROVE  Fresh'
<1>1. /\ t \in Threads /\ P(t) \in Processes /\ Number(t) \in Numbers /\ AskingAt(t)
  BY AskFacts
<1>2. /\ doing' = doing /\ UNCHANGED <<db, written, redis, snapshot, remote, rows, history>>
      /\ pc[t] = "replace" /\ Goto(t, "lookup") /\ Install(t, rows[t], remote[t])
  BY DEF ReplaceStore, regs
<1>3. pc'[t] = "lookup"
  BY <1>1, <1>2, Moved
<1>4. /\ store'[P(t)] = rows[t] /\ localRev'[P(t)] = remote[t]
      /\ \A p \in Processes \ {P(t)} : /\ store'[p] = store[p] /\ localRev'[p] = localRev[p]
                                       /\ loaded'[p] = loaded[p]
  BY <1>1, <1>2 DEF Install, Inv, DataOK
<1>5. AskingAt(t)'
  BY <1>1, <1>2, <1>3, <1>4 DEF AskingAt, Fits, redis, history, Number, P
<1>6. StoreAt(t)'
  <2>1. remote[t] = rev => \A n \in Numbers :
            rows[t][n] \in valid[n] /\ (rows[t][n] = Absent => written[n] = Absent)
    BY <1>1, <1>2 DEF AskingAt
  <2>2. rev > 0
    BY <1>1 DEF AskingAt
  <2>3. QED
    BY <1>2, <1>4, <2>1, <2>2 DEF StoreAt, Current, redis, history, P
<1>7. QED
  BY <1>2, <1>4, <1>5, <1>6, AskOn

\* The answer, from the store or, when there is no such row, from the database.
LEMMA AnswerKeeps ==
    ASSUME Orderly, Inv, Inv', Fresh, NEW t \in Askers, Asking(t), Lookup(t) \/ Fallback(t)
    PROVE  Fresh'
<1>1. /\ t \in Threads /\ P(t) \in Processes /\ Number(t) \in Numbers /\ AskingAt(t)
      /\ answer[t] \in [value : Contents, valid : SUBSET Contents]
  BY AskFacts
<1>2. doing' = doing /\ UNCHANGED <<db, written, redis, memory, remote, rows, writes, valid>>
  BY DEF Lookup, Fallback, regs
<1>3. CASE Lookup(t) /\ store[P(t)][Number(t)] = Absent
  <2>1. Goto(t, "fallback") /\ UNCHANGED <<snapshot, history>> /\ pc[t] = "lookup"
    BY <1>2, <1>3 DEF Lookup, regs, history
  <2>2. pc'[t] = "fallback" /\ written[Number(t)] = Absent
    BY <1>1, <1>3, <2>1, Moved DEF AskingAt, Fits
  <2>3. AskingAt(t)'
    BY <1>1, <1>2, <2>1, <2>2 DEF AskingAt, redis, history, Number
  <2>4. StoreAt(t)'
    BY <1>2, <2>1, StoreStays
  <2>5. QED
    BY <1>2, <2>1, <2>3, <2>4, AskOn DEF memory
<1>4. CASE ~(Lookup(t) /\ store[P(t)][Number(t)] = Absent)
  <2>1. PICK v : Goto(t, "idle") /\ Serve(t, v) /\ snapshot' = snapshot /\ v \in answer[t].valid
    <3>1. CASE Lookup(t)
      BY <1>1, <1>4, <3>1 DEF Lookup, AskingAt, Fits, regs
    <3>2. CASE Fallback(t)
      <4>1. db[Number(t)] = Absent /\ Absent \in valid[Number(t)]
        <5>1. written[Number(t)] = Absent /\ written[Number(t)] \in valid[Number(t)]
          BY <1>1, <3>2, AskFacts DEF Fallback, AskingAt
        <5>2. QED
          BY <1>1, <5>1, AskFacts
      <4>2. QED
        BY <1>1, <3>2, <4>1 DEF Fallback, AskingAt
    <3>3. QED
      BY <3>1, <3>2
  <2>2. v \in Contents
    BY <1>1, <2>1
  <2>3. pc'[t] = "idle" /\ \A u \in Threads \ {t} : pc'[u] = pc[u]
    BY <1>1, <2>1, Moved
  <2>4. answer' = [answer EXCEPT ![t].value = v]
    BY <2>1 DEF Serve, Asking
  <2>5. /\ answer'[t].value = v /\ answer'[t].valid = answer[t].valid
        /\ \A u \in Threads \ {t} : answer'[u] = answer[u]
    BY <1>1, <2>4 DEF Fresh, HistoryOK
  <2>6. HistoryOK'
    BY <1>1, <1>2, <2>2, <2>4 DEF Fresh, HistoryOK
  <2>7. StoreAt(t)'
    BY <1>2, <2>1, StoreStays
  <2>8. AskerAt(t)'
    BY <2>1, <2>3, <2>5, <2>7 DEF AskerAt, ServedAt, Asking, Starting, Idle
  <2>9. Exclusive'
    BY <1>1, <1>2, <2>1, Continued DEF Asking, Fresh
  <2>10. QED
    BY <1>2, <2>1, <2>3, <2>5, <2>6, <2>8, <2>9, ReaderKeeps DEF memory
<1>5. QED
  BY <1>3, <1>4

LEMMA SelectKeeps ==
    ASSUME Orderly, Inv, Inv', Fresh, NEW t \in Askers, Starting(t), SelectRows(t)
    PROVE  Fresh'
<1>1. t \in Threads /\ AskerAt(t)
  BY DEF Askers, Fresh
<1>2. /\ doing' = doing /\ UNCHANGED <<db, written, redis, memory, snapshot, remote, history>>
      /\ Goto(t, "publish") /\ rows' = [rows EXCEPT ![t] = db]
  BY DEF SelectRows
<1>3. /\ pc'[t] = "publish" /\ rows'[t] = db
      /\ \A u \in Threads \ {t} : pc'[u] = pc[u] /\ rows'[u] = rows[u]
  BY <1>1, <1>2, Moved DEF Inv, RegsOK
<1>4. Exclusive'
  BY <1>1, <1>2, Continued DEF Starting, Fresh
<1>5. AskerAt(t)'
  BY <1>1, <1>2, <1>3 DEF AskerAt, StartingAt, Starting, Asking, Idle, StoreAt, ServedAt, memory, P
<1>6. HistoryOK'
  BY <1>2 DEF Fresh, HistoryOK, history
<1>7. QED
  BY <1>2, <1>3, <1>4, <1>5, <1>6, ReaderKeeps DEF memory, history

\* The listener has the system to itself while it loads and publishes the rows.
LEMMA LoadKeeps ==
    ASSUME Orderly, Inv, Inv', Fresh, NEW t \in Askers, Starting(t), Publish(t)
    PROVE  Fresh'
<1>1. /\ t \in Threads /\ AskerAt(t) /\ P(t) \in Processes /\ rev \in Nat
      /\ t \notin Writers /\ Writers \subseteq Threads /\ Askers \subseteq Threads
  BY ThreadsAssumption DEF Askers, Fresh, P, Inv, DataOK
<1>2. \A u \in Threads \ {t} : Idle(u)
  BY NobodyBeside DEF Fresh
<1>3. /\ doing' = doing /\ UNCHANGED <<db, written, answer>> /\ rows[t] = db
      /\ Goto(t, "idle") /\ Install(t, db, rev + 1) /\ hash' = db /\ rev' = rev + 1
      /\ valid' = [n \in Numbers |-> IF Publishing(n) = {} THEN {db[n]} ELSE valid[n]]
  BY <1>1 DEF Publish, AfterLoad, Starting, AskerAt, StartingAt
<1>4. pc'[t] = "idle" /\ \A u \in Threads : Idle(u)'
  BY <1>1, <1>2, <1>3, Moved DEF Idle
<1>5. Exclusive'
  BY <1>4 DEF Exclusive
<1>6. /\ valid' \in [Numbers -> SUBSET Contents]
      /\ \A n \in Numbers : /\ db[n] = written[n] /\ written[n] \in valid'[n]
                            /\ valid'[n] \subseteq valid[n]
  <2>1. \A n \in Numbers : /\ db[n] = written[n] /\ written[n] \in valid[n]
                           /\ written[n] \in Contents
    BY <1>1, <1>2 DEF Fresh, CommitOK, Locked, HashOK, Inv, DataOK, Rows, Contents
  <2>2. QED
    BY <1>3, <2>1 DEF Fresh, HistoryOK
<1>7. HistoryOK'
  BY <1>3, <1>6 DEF Fresh, HistoryOK
<1>8. HashOK' /\ CommitOK'
  BY <1>3, <1>6 DEF HashOK, CommitOK, Current
<1>9. \A w \in Writers : WriterAt(w)'
  BY <1>1, <1>4 DEF WriterAt
<1>10. ASSUME NEW u \in Askers PROVE AskerAt(u)'
  <2>1. ServedAt(u)
    BY DEF Fresh, AskerAt
  <2>2. ServedAt(u)'
    <3>1. CASE u = t
      BY <1>3, <3>1 DEF ServedAt, Starting
    <3>2. CASE u # t
      BY <1>1, <1>2, <1>3, <2>1, <3>2 DEF ServedAt
    <3>3. QED
      BY <3>1, <3>2
  <2>3. StoreAt(u)'
    <3>1. CASE u = t
      <4>1. store'[P(t)] = db
        BY <1>1, <1>3 DEF Install, Inv, DataOK
      <4>2. \A n \in Numbers : Current(store[P(t)][n], n)'
        BY <1>3, <1>6, <4>1 DEF Current, P
      <4>3. rev' > 0
        BY <1>1, <1>3
      <4>4. QED
        BY <3>1, <4>2, <4>3 DEF StoreAt, P
    <3>2. CASE u # t
      <4>1. P(u) \in Processes \ {P(t)}
        BY <1>1, <3>2, ThreadsAssumption DEF Orderly, P
      <4>2. localRev'[P(u)] = localRev[P(u)] /\ localRev[P(u)] \in 0 .. rev
        BY <1>1, <1>3, <4>1 DEF Install, Inv, DataOK
      <4>3. rev' > 0 /\ localRev'[P(u)] # rev'
        BY <1>1, <1>3, <4>2
      <4>4. QED
        BY <4>3 DEF StoreAt, P
    <3>3. QED
      BY <3>1, <3>2
  <2>4. QED
    BY <1>1, <1>4, <2>2, <2>3 DEF AskerAt, Asking, Starting
<1>11. QED
  BY <1>5, <1>7, <1>8, <1>9, <1>10 DEF Fresh

LEMMA FreshStatement ==
    ASSUME Orderly, Inv, Inv', Fresh, NEW t \in Threads, Statement(t)
    PROVE  Fresh'
<1>1. ~Idle(t)
  BY DEF Statement, ReadRev, Compare, ReadHash, ReplaceStore, Lookup, Fallback, Upsert, Remove,
         SetField, BumpRev, Commit, SelectRows, Publish, Idle
<1>2. CASE t \in Writers
  <2>1. pc[t] \in {"upsert", "remove", "hset", "bump", "commit"}
    BY <1>1, <1>2 DEF Fresh, WriterAt
  <2>2. Upsert(t) \/ Remove(t) \/ SetField(t) \/ BumpRev(t) \/ Commit(t)
    BY <2>1 DEF Statement, ReadRev, Compare, ReadHash, ReplaceStore, Lookup, Fallback,
                SelectRows, Publish
  <2>3. QED
    BY <1>2, <2>2, PublishingKeeps, BumpKeeps, CommitEnds
<1>3. CASE t \in Askers
  <2>1. AskerAt(t)
    BY <1>3 DEF Fresh
  <2>2. CASE Asking(t)
    <3>1. pc[t] \in {"rev", "compare", "hash", "replace", "lookup", "fallback"}
      BY <2>1, <2>2 DEF AskerAt, AskingAt
    <3>2. \/ ReadRev(t) \/ Compare(t) \/ ReadHash(t) \/ ReplaceStore(t) \/ Lookup(t)
          \/ Fallback(t)
      BY <3>1 DEF Statement, Upsert, Remove, SetField, BumpRev, Commit,
                  SelectRows, Publish
    <3>3. QED
      BY <1>3, <2>2, <3>2, SyncKeeps, StoreReplaced, AnswerKeeps
  <2>3. CASE Starting(t)
    <3>1. pc[t] \in {"select", "publish"}
      BY <2>1, <2>3 DEF AskerAt, StartingAt
    <3>2. SelectRows(t) \/ Publish(t)
      BY <3>1 DEF Statement, ReadRev, Compare, ReadHash, ReplaceStore, Lookup, Fallback,
                  Upsert, Remove, SetField, BumpRev, Commit
    <3>3. QED
      BY <1>3, <2>3, <3>2, SelectKeeps, LoadKeeps
  <2>4. QED
    BY <1>1, <2>1, <2>2, <2>3 DEF AskerAt
<1>4. QED
  BY <1>2, <1>3 DEF Askers

LEMMA FreshSteps ==
    ASSUME Orderly, Inv, Inv', Fresh, [Next]_vars
    PROVE  Fresh'
<1>1. CASE UNCHANGED vars
  <2>1. UNCHANGED <<db, written, redis, snapshot, valid, pc, doing, remote, rows, answer, memory>>
    BY <1>1 DEF vars, regs, history
  <2>2. Exclusive' /\ HistoryOK'
    BY <2>1 DEF Fresh, Exclusive, HistoryOK, Idle
  <2>3. \A m : /\ Creating(m)' = Creating(m) /\ Busy(m)' = Busy(m)
               /\ Locked(m)' = Locked(m) /\ Deleting(m)' = Deleting(m)
    BY <2>1 DEF Creating, Deleting, Busy, Locked, Idle, Number
  <2>4. \A m, v : Current(v, m)' = Current(v, m)
    BY <2>1, <2>3 DEF Current
  <2>5. HashOK' /\ CommitOK' /\ \A w \in Writers : WriterAt(w)'
    BY <2>1, <2>3 DEF Fresh, HashOK, CommitOK, Current, WriterAt, Idle, Number, redis
  <2>6. ASSUME NEW u \in Askers PROVE AskerAt(u)'
    <3>1. /\ AskerAt(u) /\ rev' = rev /\ rev' \in Nat /\ rev <= rev'
          /\ UNCHANGED <<store, localRev, loaded>>
      BY <2>1 DEF Fresh, redis, memory, Inv, DataOK
    <3>2. Asking(u) => valid'[Number(u)] \subseteq answer'[u].valid
      BY <2>1, <3>1 DEF AskerAt, AskingAt
    <3>3. QED
      BY <2>1, <2>4, <3>1, <3>2, Bystander
  <2>7. QED
    BY <2>2, <2>5, <2>6 DEF Fresh
<1>2. ASSUME NEW t \in Threads, Statement(t) PROVE Fresh'
  BY <1>2, FreshStatement
<1>3. ASSUME NEW t \in Threads, LosePublication(t) \/ LoseLoad(t) \/ Rollback(t) PROVE FALSE
  BY <1>3 DEF LosePublication, LoseLoad, Rollback, Orderly
<1>4. ASSUME NEW t \in Threads,
             \/ \E n \in Numbers, v \in Values : Save(t, n, v) \/ AdminSave(t, n, v)
             \/ \E n \in Numbers : Delete(t, n)
      PROVE  Fresh'
  BY <1>4, WriteKeeps DEF Save, AdminSave, Delete
<1>5. ASSUME NEW t \in Threads, Ask(t) \/ Restart(t) PROVE Fresh'
  BY <1>5, GetKeeps, StartKeeps DEF Ask, Get, Restart
<1>6. QED
  BY <1>1, <1>2, <1>3, <1>4, <1>5 DEF Next

LEMMA InitFresh == ASSUME Init PROVE Fresh
<1>1. \A t \in Threads : Idle(t)
  BY DEF Init, Idle
<1>2. Exclusive
  BY <1>1 DEF Exclusive
<1>3. Absent \in Contents
  BY DEF Contents
<1>4. HistoryOK
  BY <1>3 DEF Init, HistoryOK
<1>5. HashOK /\ CommitOK
  BY DEF Init, HashOK, CommitOK, Current, NoRows
<1>6. \A w \in Writers : WriterAt(w)
  BY <1>1, ThreadsAssumption DEF WriterAt
<1>7. ASSUME NEW t \in Askers PROVE AskerAt(t)
  <2>1. Idle(t) /\ ~loaded[P(t)] /\ answer[t].value \in answer[t].valid
    BY <1>1, ThreadsAssumption DEF Init, Askers, P
  <2>2. QED
    BY <2>1 DEF AskerAt, Asking, Starting, StoreAt, ServedAt
<1>8. QED
  BY <1>2, <1>4, <1>5, <1>6, <1>7 DEF Fresh

\* With one web process that writes, any number of carousels in processes of their own,
\* nothing beside creations, deletions and starts, and nothing failing, whatever the order
\* of the Redis commands and of the commits: who asks for settings is served what the row
\* holds or held while it asked, or what is published and about to be committed
\* (sync_from_redis_if_stale).
THEOREM ReadsAreFresh == ASSUME Orderly PROVE Spec => []FreshRead
<1>1. Inv /\ Inv' /\ Fresh /\ [Next]_vars => Fresh'
  BY FreshSteps
<1>2. Init => Fresh
  BY InitFresh
<1>3. Fresh => FreshRead
  BY DEF Fresh, AskerAt, ServedAt, FreshRead
<1>4. QED
  BY <1>1, <1>2, <1>3, InvAlways, PTL DEF Spec

----------------------------------------------------------------------------
(* What the listener is served when publications are lost.                 *)

\* One operation at a time, whatever fails; who saves is not in the process of the listener.
OneByOne ==
    /\ Operations \subseteq Alone
    /\ \A w \in Writers, t \in Askers : ProcessOf[w] # ProcessOf[t]

Lone == \A t, u \in Threads : t = u \/ Idle(t) \/ Idle(u)

\* What thread t has changed in a transaction that is open
Changing(t, n) == n = Number(t) /\ t \in Writers /\ doing[t].op \in Transactions

DataValid ==
    \A n \in Numbers :
        {written[n], hash[n]} \subseteq valid[n] /\ (db[n] = written[n] \/ Locked(n))
StoreValid(p) == \A n \in Numbers : store[p][n] \in valid[n]
StoreValidAt(t) == loaded[P(t)] /\ localRev[P(t)] = rev => StoreValid(P(t))

\* What the thread that runs has read is what there is.
RunningAt(t) ==
    /\ t \in Writers => pc[t] \in {"upsert", "remove", "hset", "bump", "commit"}
    /\ pc[t] \in {"compare", "hash", "replace"} => remote[t] = rev
    /\ pc[t] = "replace" => \A n \in Numbers : rows[t][n] \in valid[n]
    /\ pc[t] = "publish" => rows[t] = written
    /\ pc[t] \in {"upsert", "hset", "bump"} => snapshot[t] = written[Number(t)]
    /\ pc[t] = "remove" => written[Number(t)] = Absent
    /\ pc[t] = "bump" => hash[Number(t)] = written[Number(t)]
    /\ t \in Askers =>
          /\ pc[t] # "commit" /\ doing[t].op \notin Transactions
          /\ doing[t].op = "get" => valid[Number(t)] \subseteq answer[t].valid
          /\ pc[t] \in {"lookup", "fallback", "upsert", "remove", "hset", "bump"} => StoreValid(P(t))

Settled ==
    /\ Lone /\ HistoryOK /\ DataValid
    /\ \A t \in Threads : Idle(t) \/ RunningAt(t)
    /\ \A t \in Askers : StoreValidAt(t) /\ ServedAt(t)

\* Only thread t does something: what remains to be shown.
LEMMA OnlyOne ==
    ASSUME Settled, NEW t \in Threads, \A u \in Threads \ {t} : Idle(u) /\ pc'[u] = pc[u],
           \A u \in Threads \ {t} : doing'[u] = doing[u] /\ answer'[u] = answer[u],
           HistoryOK', DataValid', Idle(t)' \/ RunningAt(t)',
           t \in Askers => ServedAt(t)', \A u \in Askers : StoreValidAt(u)'
    PROVE  Settled'
<1>1. \A u \in Threads \ {t} : Idle(u)'
  BY DEF Idle
<1>2. Lone' /\ \A u \in Threads : Idle(u)' \/ RunningAt(u)'
  BY <1>1 DEF Lone
<1>3. \A u \in Askers : ServedAt(u)'
  <2>1. SUFFICES ASSUME NEW u \in Askers, u # t PROVE ServedAt(u)'
    OBVIOUS
  <2>2. u \in Threads \ {t}
    BY <2>1 DEF Askers
  <2>3. QED
    BY <2>2 DEF Settled, ServedAt
<1>4. QED
  BY <1>2, <1>3 DEF Settled

\* A store that is not touched.
LEMMA StoreUntouched ==
    ASSUME Inv, Settled, NEW u \in Askers, store'[P(u)] = store[P(u)],
           localRev'[P(u)] = localRev[P(u)], loaded'[P(u)] = loaded[P(u)],
           rev' \in Nat, rev <= rev', rev' = rev => \A n \in Numbers : valid[n] \subseteq valid'[n]
    PROVE  StoreValidAt(u)'
<1>1. StoreValidAt(u) /\ localRev[P(u)] \in 0 .. rev /\ rev \in Nat
  BY ThreadsAssumption DEF Settled, Askers, P, Inv, DataOK
<1>2. localRev[P(u)] = rev' => localRev[P(u)] = rev /\ rev' = rev
  BY <1>1
<1>3. QED
  BY <1>1, <1>2 DEF StoreValidAt, StoreValid, P

LEMMA BegunAlone ==
    ASSUME OneByOne, Inv, NEW t \in Threads, NEW op \in Operations, NEW n, NEW s, Begin(t, op, n, s)
    PROVE  /\ Idle(t) /\ pc'[t] = s /\ doing'[t].op = op /\ doing'[t].number = n
           /\ \A u \in Threads \ {t} : Idle(u) /\ pc'[u] = pc[u] /\ doing'[u] = doing[u]
<1>1. pc'[t] = s /\ \A u \in Threads \ {t} : pc'[u] = pc[u]
  BY Moved DEF Begin
<1>2. doing' = [u \in Threads |-> IF u = t THEN [op |-> op, number |-> n] ELSE doing[u]]
  BY DEF Inv, RegsOK, Begin
<1>3. \A u \in Threads : Idle(u)
  BY DEF Begin, OneByOne
<1>4. QED
  BY <1>1, <1>2, <1>3

LEMMA WriteSettles ==
    ASSUME OneByOne, Inv, Inv', Settled, NEW w \in Writers, NEW n \in Numbers, NEW v \in Contents,
           NEW op \in {"create", "edit", "save", "delete"}, NEW s \in {"upsert", "remove"},
           Begin(w, op, n, s), Changed(n, v), written' = [written EXCEPT ![n] = v],
           \/ op = "save" /\ db' = [db EXCEPT ![n] = v]
           \/ op # "save" /\ db' = db,
           UNCHANGED <<redis, memory>>,
           s = "upsert" => snapshot'[w] = v, s = "remove" => v = Absent
    PROVE  Settled'
<1>1. w \in Threads /\ w \notin Askers /\ op \in Operations
  BY ThreadsAssumption DEF Askers, Operations, Transactions
<1>2. /\ Idle(w) /\ pc'[w] = s /\ doing'[w].number = n /\ doing'[w].op = op
      /\ \A u \in Threads \ {w} : Idle(u) /\ pc'[u] = pc[u] /\ doing'[u] = doing[u]
  BY <1>1, BegunAlone
<1>3. answer' = answer
  <2>1. answer' = [t \in Threads |-> answer[t]]
    BY <1>2 DEF Changed
  <2>2. QED
    BY <2>1 DEF Settled, HistoryOK
<1>4. /\ valid' \in [Numbers -> SUBSET Contents]
      /\ valid'[n] = valid[n] \union {v} /\ \A m \in Numbers \ {n} : valid'[m] = valid[m]
  BY DEF Changed, Settled, HistoryOK
<1>5. /\ written'[n] = v /\ \A m \in Numbers \ {n} : written'[m] = written[m]
      /\ db'[n] = (IF op = "save" THEN v ELSE db[n])
      /\ \A m \in Numbers \ {n} : db'[m] = db[m]
  BY DEF Inv, DataOK, Rows
<1>6. DataValid' /\ HistoryOK'
  <2>1. /\ \A m : ~Locked(m)
        /\ op # "save" => Locked(n)'
    BY <1>1, <1>2, ThreadsAssumption DEF Locked, Idle, Number, Transactions
  <2>2. QED
    BY <1>3, <1>4, <1>5, <2>1 DEF Settled, DataValid, HistoryOK, redis
<1>7. RunningAt(w)'
  BY <1>1, <1>2, <1>5 DEF RunningAt, Number
<1>8. \A u \in Askers : StoreValidAt(u)'
  <2>1. rev' = rev /\ rev' \in Nat /\ rev <= rev' /\ UNCHANGED <<store, localRev, loaded>>
    BY DEF redis, memory, Inv, DataOK
  <2>2. QED
    BY <1>4, <2>1, StoreUntouched
<1>9. QED
  BY <1>1, <1>2, <1>3, <1>6, <1>7, <1>8, OnlyOne

LEMMA BeginSettles ==
    ASSUME OneByOne, Inv, Inv', Settled, NEW t \in Threads, NEW n \in Numbers,
           (\E v \in Values : Save(t, n, v) \/ AdminSave(t, n, v)) \/ Delete(t, n) \/ Get(t, n)
    PROVE  Settled'
<1>1. ASSUME NEW v \in Values, Save(t, n, v) \/ AdminSave(t, n, v) PROVE Settled'
  <2>1. PICK op \in {"create", "edit", "save"} :
            /\ Begin(t, op, n, "upsert")
            /\ \/ op = "save" /\ db' = [db EXCEPT ![n] = v]
               \/ op # "save" /\ db' = db
    <3>1. CASE Save(t, n, v)
      BY <3>1 DEF Save
    <3>2. CASE AdminSave(t, n, v)
      BY <3>2 DEF AdminSave
    <3>3. QED
      BY <1>1, <3>1, <3>2
  <2>2. /\ Changed(n, v) /\ written' = [written EXCEPT ![n] = v] /\ v \in Contents /\ t \in Writers
        /\ UNCHANGED <<redis, memory>>
    BY <1>1 DEF Save, AdminSave, Contents
  <2>3. snapshot'[t] = v
    BY <1>1, ThreadsAssumption DEF Save, AdminSave, Inv, RegsOK
  <2>4. QED
    BY <2>1, <2>2, <2>3, WriteSettles
<1>2. CASE Delete(t, n)
  <2>1. /\ Begin(t, "delete", n, "remove") /\ Changed(n, Absent) /\ written' = [written EXCEPT ![n] = Absent]
        /\ db' = db /\ UNCHANGED <<redis, memory>> /\ Absent \in Contents /\ t \in Writers
    BY <1>2 DEF Delete, Contents
  <2>2. QED
    BY <2>1, WriteSettles
<1>3. CASE Get(t, n)
  <2>1. /\ Idle(t) /\ pc'[t] = "rev" /\ doing'[t].number = n /\ doing'[t].op = "get"
        /\ \A u \in Threads \ {t} : Idle(u) /\ pc'[u] = pc[u] /\ doing'[u] = doing[u]
        /\ t \notin Writers
    <3>1. Begin(t, "get", n, "rev") /\ "get" \in Operations /\ t \notin Writers
      BY <1>3 DEF Get, Operations, Askers
    <3>2. QED
      BY <3>1, BegunAlone
  <2>2. /\ UNCHANGED <<db, written, redis, memory, valid>>
        /\ answer' = [answer EXCEPT ![t] = [value |-> db[n], valid |-> valid[n]]]
        /\ db[n] \in Contents /\ valid[n] \subseteq Contents
    BY <1>3 DEF Get, Settled, HistoryOK, Inv, DataOK, Rows, Contents
  <2>3. /\ HistoryOK' /\ DataValid' /\ answer'[t].valid = valid[n]
        /\ \A u \in Threads \ {t} : answer'[u] = answer[u]
    <3>1. \A m : ~Locked(m)
      BY <2>1, ThreadsAssumption DEF Locked
    <3>2. QED
      BY <2>2, <3>1 DEF Settled, HistoryOK, DataValid, redis
  <2>4. RunningAt(t)'
    BY <2>1, <2>2, <2>3 DEF RunningAt, Number, Transactions
  <2>5. \A u \in Askers : StoreValidAt(u)'
    <3>1. rev' = rev /\ rev' \in Nat /\ rev <= rev' /\ UNCHANGED <<store, localRev, loaded>>
      BY <2>2 DEF redis, memory, Inv, DataOK
    <3>2. QED
      BY <2>2, <3>1, StoreUntouched
  <2>6. ServedAt(t)'
    BY <2>1 DEF ServedAt, Idle
  <2>7. QED
    BY <2>1, <2>3, <2>4, <2>5, <2>6, OnlyOne
<1>4. QED
  BY <1>1, <1>2, <1>3

LEMMA RestartSettles ==
    ASSUME OneByOne, Inv, Inv', Settled, NEW t \in Threads, Restart(t)
    PROVE  Settled'
<1>1. PICK n \in Numbers : Begin(t, "start", n, "select")
  BY DEF Restart
<1>2. /\ pc'[t] = "select" /\ doing'[t].op = "start"
      /\ \A u \in Threads \ {t} : Idle(u) /\ pc'[u] = pc[u] /\ doing'[u] = doing[u]
      /\ t \notin Writers /\ Idle(t)
  BY <1>1, BegunAlone DEF Operations, Restart, Askers
<1>3. UNCHANGED <<db, written, redis, valid, answer>> /\ P(t) \in Processes
  BY ThreadsAssumption DEF Restart, P
<1>4. HistoryOK' /\ DataValid' /\ RunningAt(t)' /\ ServedAt(t)'
  <2>1. \A m : ~Locked(m)
    BY <1>2, ThreadsAssumption DEF Locked
  <2>2. QED
    BY <1>2, <1>3, <2>1
       DEF Settled, HistoryOK, DataValid, RunningAt, ServedAt, Idle, redis, Transactions
<1>5. ASSUME NEW u \in Askers PROVE StoreValidAt(u)'
  <2>1. CASE P(u) = P(t)
    BY <1>3, <2>1 DEF Restart, StoreValidAt, Inv, DataOK, P
  <2>2. CASE P(u) # P(t)
    <3>1. /\ store'[P(u)] = store[P(u)] /\ localRev'[P(u)] = localRev[P(u)]
          /\ loaded'[P(u)] = loaded[P(u)] /\ rev' = rev /\ rev' \in Nat /\ rev <= rev'
      BY <1>3, <2>2, ThreadsAssumption DEF Restart, Inv, DataOK, redis, Askers, P
    <3>2. QED
      BY <1>3, <3>1, StoreUntouched
  <2>3. QED
    BY <2>1, <2>2
<1>6. QED
  BY <1>2, <1>3, <1>4, <1>5, OnlyOne

\* A statement of the thread that runs: the others are idle.
LEMMA RunFacts ==
    ASSUME Inv, Settled, NEW t \in Threads, ~Idle(t), NEW s, Goto(t, s)
    PROVE  /\ pc'[t] = s /\ \A u \in Threads \ {t} : Idle(u) /\ pc'[u] = pc[u]
           /\ RunningAt(t) /\ P(t) \in Processes /\ Number(t) \in Numbers /\ rev \in Nat
           /\ t \in Askers => StoreValidAt(t) /\ ServedAt(t)
           /\ \A n \in Numbers : {written[n], hash[n]} \subseteq valid[n]
           /\ \A n \in Numbers : db[n] = written[n] \/ Changing(t, n)
           /\ t \notin Writers => db = written
<1>1. pc'[t] = s /\ \A u \in Threads \ {t} : Idle(u) /\ pc'[u] = pc[u]
  BY Moved DEF Settled, Lone
<1>2. RunningAt(t) /\ \A n \in Numbers : {written[n], hash[n]} \subseteq valid[n]
  BY DEF Settled, DataValid
<1>3. P(t) \in Processes /\ Number(t) \in Numbers /\ rev \in Nat
  BY ThreadsAssumption DEF P, Number, Idle, Inv, RegsOK, DataOK
<1>4. \A n \in Numbers : db[n] = written[n] \/ Changing(t, n)
  BY <1>1, ThreadsAssumption DEF Settled, DataValid, Locked, Changing
<1>5. t \notin Writers => db = written
  BY <1>4 DEF Inv, DataOK, Rows, Changing
<1>6. QED
  BY <1>1, <1>2, <1>3, <1>4, <1>5 DEF Settled

\* What a thread serves when its operation ends is valid.
LEMMA ServesValid ==
    ASSUME Settled, NEW t \in Threads, NEW v \in Contents, Serve(t, v),
           t \in Askers /\ doing[t].op = "get" => v \in answer[t].valid
    PROVE  /\ answer' \in [Threads -> [value : Contents, valid : SUBSET Contents]]
           /\ \A u \in Threads \ {t} : answer'[u] = answer[u]
           /\ doing' = doing /\ t \in Askers => ServedAt(t)'
<1>1. answer \in [Threads -> [value : Contents, valid : SUBSET Contents]]
  BY DEF Settled, HistoryOK
<1>2. CASE doing[t].op = "get"
  <2>1. answer' = [answer EXCEPT ![t].value = v]
    BY <1>2 DEF Serve
  <2>2. /\ answer' \in [Threads -> [value : Contents, valid : SUBSET Contents]]
        /\ \A u \in Threads \ {t} : answer'[u] = answer[u]
        /\ answer'[t].value = v /\ answer'[t].valid = answer[t].valid
    BY <1>1, <2>1
  <2>3. QED
    BY <1>2, <2>2 DEF ServedAt
<1>3. CASE doing[t].op # "get"
  BY <1>1, <1>3 DEF Serve, ServedAt
<1>4. QED
  BY <1>2, <1>3

\* Redis and the stores are left alone.
LEMMA LookSettles ==
    ASSUME OneByOne, Inv, Inv', Settled, NEW t \in Threads,
           ReadRev(t) \/ Compare(t) \/ ReadHash(t) \/ SelectRows(t) \/ Lookup(t) \/ Fallback(t)
    PROVE  Settled'
<1>1. ~Idle(t) /\ doing' = doing /\ UNCHANGED <<db, written, redis, memory, valid>> /\ \E s : Goto(t, s)
  BY DEF ReadRev, Compare, ReadHash, SelectRows, Lookup, Fallback, history, Idle
<1>2. PICK s : Goto(t, s)
  BY <1>1
<1>3. /\ pc'[t] = s /\ \A u \in Threads \ {t} : Idle(u) /\ pc'[u] = pc[u]
      /\ RunningAt(t) /\ P(t) \in Processes /\ Number(t) \in Numbers
      /\ t \in Askers /\ t \notin Writers /\ db = written
      /\ t \in Askers => StoreValidAt(t) /\ ServedAt(t)
      /\ \A n \in Numbers : {written[n], hash[n]} \subseteq valid[n]
  <2>1. RunningAt(t)
    BY <1>1, <1>2, RunFacts
  <2>2. t \notin Writers
    BY <2>1 DEF ReadRev, Compare, ReadHash, SelectRows, Lookup, Fallback, RunningAt
  <2>3. QED
    BY <1>1, <1>2, <2>2, RunFacts DEF Askers
<1>4. \A u \in Askers : StoreValidAt(u)'
  <2>1. rev' = rev /\ rev' \in Nat /\ rev <= rev' /\ UNCHANGED <<store, localRev, loaded>>
    BY <1>1 DEF redis, memory, Inv, DataOK
  <2>2. QED
    BY <1>1, <2>1, StoreUntouched
<1>5. DataValid'
  BY <1>1, <1>3 DEF DataValid, redis
<1>6. /\ remote \in [Threads -> 0 .. rev] /\ rows \in [Threads -> Rows]
      /\ snapshot \in [Threads -> Contents] /\ written[Number(t)] \in Contents
      /\ store[P(t)][Number(t)] \in Contents
  BY <1>3 DEF Inv, RegsOK, DataOK, Rows, Contents
<1>7. ASSUME answer' = answer, Idle(t)' \/ RunningAt(t)', t \in Askers => ServedAt(t)'
      PROVE  Settled'
  <2>1. HistoryOK'
    BY <1>1, <1>7 DEF Settled, HistoryOK
  <2>2. QED
    BY <1>1, <1>3, <1>4, <1>5, <1>7, <2>1, OnlyOne
<1>8. ASSUME s = "idle", NEW v \in Contents, Serve(t, v),
             t \in Askers /\ doing[t].op = "get" => v \in answer[t].valid
      PROVE  Settled'
  <2>1. /\ answer' \in [Threads -> [value : Contents, valid : SUBSET Contents]]
        /\ \A u \in Threads \ {t} : answer'[u] = answer[u]
        /\ t \in Askers => ServedAt(t)'
    BY <1>1, <1>8, ServesValid
  <2>2. HistoryOK' /\ Idle(t)'
    BY <1>1, <1>3, <1>8, <2>1 DEF Settled, HistoryOK, Idle
  <2>3. QED
    BY <1>1, <1>3, <1>4, <1>5, <2>1, <2>2, OnlyOne
<1>9. CASE ReadRev(t)
  <2>1. pc'[t] = "compare" /\ remote'[t] = rev /\ answer' = answer
    BY <1>3, <1>6, <1>9, Moved DEF ReadRev, history
  <2>2. RunningAt(t)' /\ ServedAt(t)'
    BY <1>1, <1>3, <2>1 DEF RunningAt, ServedAt, Number, Idle, redis
  <2>3. QED
    BY <1>7, <2>1, <2>2
<1>10. CASE Compare(t)
  <2>1. /\ pc[t] = "compare" /\ answer' = answer /\ remote' = remote
        /\ \/ pc'[t] = "lookup" /\ loaded[P(t)] /\ remote[t] = localRev[P(t)]
           \/ pc'[t] = "hash"
    BY <1>3, <1>10, Moved DEF Compare, history, regs
  <2>2. t \in Askers /\ pc'[t] = "lookup" => StoreValid(P(t))
    BY <1>3, <2>1 DEF RunningAt, StoreValidAt
  <2>3. RunningAt(t)' /\ ServedAt(t)'
    BY <1>1, <1>3, <2>1, <2>2 DEF RunningAt, ServedAt, StoreValid, Number, Idle, redis, memory, P
  <2>4. QED
    BY <1>7, <2>1, <2>3
<1>11. CASE ReadHash(t)
  <2>1. /\ pc[t] = "hash" /\ answer' = answer /\ remote' = remote /\ rows'[t] = hash
        /\ pc'[t] \in {"replace", "select"}
    BY <1>3, <1>6, <1>11, Moved DEF ReadHash, history
  <2>2. RunningAt(t)' /\ ServedAt(t)'
    BY <1>1, <1>3, <2>1 DEF RunningAt, ServedAt, Number, Idle, redis
  <2>3. QED
    BY <1>7, <2>1, <2>2
<1>12. CASE SelectRows(t)
  <2>1. pc'[t] = "publish" /\ answer' = answer /\ rows'[t] = written
    BY <1>3, <1>6, <1>12, Moved DEF SelectRows, history
  <2>2. RunningAt(t)' /\ ServedAt(t)'
    BY <1>1, <1>3, <2>1 DEF RunningAt, ServedAt, Number, Idle
  <2>3. QED
    BY <1>7, <2>1, <2>2
<1>13. CASE Lookup(t)
  <2>1. t \in Askers => StoreValid(P(t))
    BY <1>3, <1>13 DEF RunningAt, Lookup
  <2>2. CASE store[P(t)][Number(t)] = Absent
    <3>1. pc'[t] = "fallback" /\ answer' = answer
      BY <1>3, <1>13, <2>2, Moved DEF Lookup
    <3>2. RunningAt(t)' /\ ServedAt(t)'
      BY <1>1, <1>3, <2>1, <3>1 DEF RunningAt, ServedAt, StoreValid, Number, Idle, memory, P
    <3>3. QED
      BY <1>7, <3>1, <3>2
  <2>3. CASE store[P(t)][Number(t)] # Absent
    <3>1. s = "idle" /\ Serve(t, store[P(t)][Number(t)])
      BY <1>3, <1>13, <2>3, Moved DEF Lookup
    <3>2. t \in Askers /\ doing[t].op = "get" => store[P(t)][Number(t)] \in answer[t].valid
      BY <1>3, <2>1 DEF RunningAt, StoreValid
    <3>3. QED
      BY <1>6, <1>8, <3>1, <3>2
  <2>4. QED
    BY <2>2, <2>3
<1>14. CASE Fallback(t)
  <2>1. t \in Askers => StoreValid(P(t))
    BY <1>3, <1>14 DEF RunningAt, Fallback
  <2>2. CASE written[Number(t)] # Absent
    <3>1. pc'[t] = "upsert" /\ answer' = answer /\ snapshot'[t] = written[Number(t)]
      BY <1>3, <1>6, <1>14, <2>2, Moved DEF Fallback
    <3>2. RunningAt(t)' /\ ServedAt(t)'
      BY <1>1, <1>3, <2>1, <3>1 DEF RunningAt, ServedAt, StoreValid, Number, Idle, memory, P
    <3>3. QED
      BY <1>7, <3>1, <3>2
  <2>3. CASE written[Number(t)] = Absent
    <3>1. s = "idle" /\ Serve(t, written[Number(t)])
      BY <1>3, <1>14, <2>3, Moved DEF Fallback
    <3>2. t \in Askers /\ doing[t].op = "get" => written[Number(t)] \in answer[t].valid
      BY <1>3 DEF RunningAt
    <3>3. QED
      BY <1>6, <1>8, <3>1, <3>2
  <2>4. QED
    BY <2>2, <2>3
<1>15. QED
  BY <1>9, <1>10, <1>11, <1>12, <1>13, <1>14

\* The store is replaced, by the hash or by the rows.
LEMMA InstallSettles ==
    ASSUME OneByOne, Inv, Inv', Settled, NEW t \in Threads,
           ReplaceStore(t) \/ Publish(t) \/ LoseLoad(t)
    PROVE  Settled'
<1>1. ~Idle(t) /\ doing' = doing /\ UNCHANGED <<db, written, answer>> /\ \E s : Goto(t, s)
  BY DEF ReplaceStore, Publish, LoseLoad, AfterLoad, history, Idle
<1>2. PICK s : Goto(t, s)
  BY <1>1
<1>3. /\ pc'[t] = s /\ \A u \in Threads \ {t} : Idle(u) /\ pc'[u] = pc[u]
      /\ RunningAt(t) /\ P(t) \in Processes /\ Number(t) \in Numbers /\ rev \in Nat
      /\ t \in Askers /\ t \notin Writers /\ db = written
      /\ t \in Askers => StoreValidAt(t) /\ ServedAt(t)
      /\ \A n \in Numbers : {written[n], hash[n]} \subseteq valid[n]
  <2>1. RunningAt(t)
    BY <1>1, <1>2, RunFacts
  <2>2. t \notin Writers
    BY <2>1 DEF ReplaceStore, Publish, LoseLoad, RunningAt
  <2>3. QED
    BY <1>1, <1>2, <2>2, RunFacts DEF Askers
<1>4. s \in {"idle", "lookup"}
  BY <1>3, Moved DEF ReplaceStore, Publish, LoseLoad, AfterLoad
<1>5. PICK r : Install(t, rows[t], r)
  BY DEF ReplaceStore, Publish, LoseLoad
<1>6. /\ store'[P(t)] = rows[t]
      /\ \A p \in Processes \ {P(t)} : /\ store'[p] = store[p] /\ localRev'[p] = localRev[p]
                                       /\ loaded'[p] = loaded[p]
  BY <1>3, <1>5 DEF Install, Inv, DataOK
<1>7. /\ valid' \in [Numbers -> SUBSET Contents] /\ rev' \in Nat /\ rev <= rev'
      /\ \A n \in Numbers : written[n] \in valid'[n] /\ valid'[n] \subseteq valid[n]
      /\ rev' = rev => valid' = valid
      /\ \/ hash' = hash /\ valid' = valid
         \/ hash' = written
  <2>1. CASE Publish(t)
    <3>1. rows[t] = written
      BY <1>3, <2>1 DEF Publish, RunningAt
    <3>2. \A n \in Numbers : written[n] \in Contents /\ valid[n] \in SUBSET Contents
      BY DEF Settled, HistoryOK, Inv, DataOK, Rows, Contents
    <3>3. /\ valid' = [n \in Numbers |-> IF Publishing(n) = {} THEN {written[n]} ELSE valid[n]]
          /\ hash' = written /\ rev' = rev + 1
      BY <1>3, <2>1, <3>1 DEF Publish
    <3>4. QED
      BY <1>3, <3>2, <3>3
  <2>2. CASE ReplaceStore(t) \/ LoseLoad(t)
    BY <1>3, <2>2 DEF ReplaceStore, LoseLoad, redis, history, Settled, HistoryOK
  <2>3. QED
    BY <2>1, <2>2
<1>8. \A n \in Numbers : rows[t][n] \in valid'[n]
  <2>1. CASE ReplaceStore(t)
    BY <1>3, <2>1 DEF ReplaceStore, RunningAt, history
  <2>2. CASE Publish(t) \/ LoseLoad(t)
    BY <1>3, <1>7, <2>2 DEF Publish, LoseLoad, RunningAt
  <2>3. QED
    BY <2>1, <2>2
<1>9. \A u : P(u) = P(t) => StoreValid(P(u))'
  BY <1>6, <1>8 DEF StoreValid, P
<1>10. ASSUME NEW u \in Askers PROVE StoreValidAt(u)'
  <2>1. CASE P(u) = P(t)
    BY <1>9, <2>1 DEF StoreValidAt
  <2>2. CASE P(u) # P(t)
    <3>1. P(u) \in Processes \ {P(t)}
      BY <2>2, ThreadsAssumption DEF Askers, P
    <3>2. QED
      BY <1>6, <1>7, <3>1, StoreUntouched
  <2>3. QED
    BY <2>1, <2>2
<1>11. HistoryOK' /\ DataValid'
  BY <1>1, <1>3, <1>7 DEF Settled, HistoryOK, DataValid
<1>12. Idle(t)' \/ RunningAt(t)'
  <2>1. t \in Askers /\ doing'[t].op = "get" => valid'[Number(t)] \subseteq answer'[t].valid
    BY <1>1, <1>3, <1>7 DEF RunningAt
  <2>2. Number(t)' = Number(t) /\ pc'[t] \in {"idle", "lookup"}
    BY <1>1, <1>3, <1>4 DEF Number
  <2>3. doing'[t].op \notin Transactions
    BY <1>1, <1>3 DEF RunningAt
  <2>4. QED
    BY <1>3, <1>9, <2>1, <2>2, <2>3 DEF RunningAt, Idle, P
<1>13. t \in Askers => ServedAt(t)'
  <2>1. CASE s = "idle"
    <3>1. doing[t].op = "start"
      BY <1>3, <2>1, Moved DEF ReplaceStore, Publish, LoseLoad, AfterLoad
    <3>2. QED
      BY <1>1, <3>1 DEF ServedAt
  <2>2. CASE s # "idle"
    BY <1>3, <2>2 DEF ServedAt, Idle
  <2>3. QED
    BY <2>1, <2>2
<1>14. QED
  BY <1>1, <1>3, <1>10, <1>11, <1>12, <1>13, OnlyOne

\* A publication goes on: the store, then the hash.
LEMMA PublicationSettles ==
    ASSUME OneByOne, Inv, Inv', Settled, NEW t \in Threads, Upsert(t) \/ Remove(t) \/ SetField(t)
    PROVE  Settled'
<1>1. /\ ~Idle(t) /\ doing' = doing /\ UNCHANGED <<db, written, rev, localRev, history>>
      /\ \E s \in {"hset", "bump"} : Goto(t, s)
  BY DEF Upsert, Remove, SetField, redis, memory, Idle
<1>2. PICK s \in {"hset", "bump"} : Goto(t, s)
  BY <1>1
<1>3. /\ pc'[t] = s /\ \A u \in Threads \ {t} : Idle(u) /\ pc'[u] = pc[u]
      /\ RunningAt(t) /\ P(t) \in Processes /\ Number(t) \in Numbers /\ rev \in Nat
      /\ t \in Askers => StoreValidAt(t) /\ ServedAt(t)
      /\ \A n \in Numbers : {written[n], hash[n]} \subseteq valid[n]
  BY <1>1, <1>2, RunFacts
<1>4. /\ pc[t] \in {"upsert", "remove", "hset"}
      /\ snapshot'[t] = written[Number(t)]
  BY <1>3 DEF Upsert, Remove, SetField, regs, RunningAt, Inv, RegsOK
<1>5. /\ \A m \in Numbers : hash'[m] \in {hash[m], written[m]}
      /\ pc'[t] = "bump" => hash'[Number(t)] = written[Number(t)]
  <2>1. CASE SetField(t)
    <3>1. hash' = [hash EXCEPT ![Number(t)] = snapshot[t]] /\ snapshot[t] = written[Number(t)]
      BY <1>3, <2>1 DEF SetField, RunningAt
    <3>2. QED
      BY <1>3, <3>1 DEF Inv, DataOK, Rows
  <2>2. CASE Upsert(t) \/ Remove(t)
    BY <1>3, <2>2, Moved DEF Upsert, Remove, redis
  <2>3. QED
    BY <2>1, <2>2
<1>6. /\ \A p \in Processes \ {P(t)} : store'[p] = store[p] /\ loaded'[p] = loaded[p]
      /\ \A m \in Numbers : store'[P(t)][m] \in {store[P(t)][m], written[m]}
  <2>1. /\ store \in [Processes -> Rows] /\ loaded \in [Processes -> BOOLEAN]
        /\ store[P(t)] \in Rows
    BY <1>3 DEF Inv, DataOK
  <2>2. CASE SetField(t)
    BY <2>2 DEF SetField, memory
  <2>3. CASE Upsert(t) \/ Remove(t)
    <3>1. store' = [store EXCEPT ![P(t)][Number(t)] = written[Number(t)]]
      BY <1>3, <2>3 DEF Upsert, Remove, RunningAt
    <3>2. store'[P(t)] = [store[P(t)] EXCEPT ![Number(t)] = written[Number(t)]]
          /\ \A p \in Processes \ {P(t)} : store'[p] = store[p]
      BY <1>3, <2>1, <3>1
    <3>3. \A m \in Numbers : store'[P(t)][m] \in {store[P(t)][m], written[m]}
      BY <1>3, <2>1, <3>2 DEF Rows
    <3>4. \A p \in Processes \ {P(t)} : loaded'[p] = loaded[p]
      BY <2>1, <2>3 DEF Upsert, Remove
    <3>5. QED
      BY <3>2, <3>3, <3>4
  <2>4. QED
    BY <2>2, <2>3
<1>7. t \in Askers => \A u : P(u) = P(t) => StoreValid(P(u))'
  <2>1. t \in Askers => \A m \in Numbers : store[P(t)][m] \in valid[m]
    BY <1>3, <1>4 DEF RunningAt, StoreValid
  <2>2. t \in Askers => \A m \in Numbers : store'[P(t)][m] \in valid'[m]
    BY <1>1, <1>3, <1>6, <2>1 DEF history
  <2>3. QED
    BY <2>2 DEF StoreValid, P
<1>8. ASSUME NEW u \in Askers PROVE StoreValidAt(u)'
  <2>1. CASE P(u) = P(t)
    <3>1. t \in Askers
      BY <2>1 DEF OneByOne, Askers, P
    <3>2. QED
      BY <1>7, <2>1, <3>1 DEF StoreValidAt
  <2>2. CASE P(u) # P(t)
    <3>1. P(u) \in Processes \ {P(t)} /\ rev' = rev /\ rev' \in Nat /\ rev <= rev' /\ valid' = valid
      BY <1>1, <1>3, <2>2, ThreadsAssumption DEF Askers, P, history
    <3>2. QED
      BY <1>1, <1>6, <3>1, StoreUntouched
  <2>3. QED
    BY <2>1, <2>2
<1>9. HistoryOK' /\ DataValid'
  <2>1. \A m : Locked(m) => Locked(m)'
    BY <1>1, <1>3, ThreadsAssumption DEF Locked, Idle, Number
  <2>2. QED
    BY <1>1, <1>3, <1>5, <2>1 DEF Settled, HistoryOK, DataValid, history
<1>10. RunningAt(t)'
  <2>1. t \in Askers => StoreValid(P(t))'
    BY <1>7
  <2>2. Number(t)' = Number(t) /\ pc'[t] \in {"hset", "bump"} /\ valid' = valid /\ answer' = answer
    BY <1>1, <1>3 DEF Number, history
  <2>3. QED
    BY <1>1, <1>3, <1>4, <1>5, <2>1, <2>2 DEF RunningAt, P
<1>11. t \in Askers => ServedAt(t)'
  BY <1>3 DEF ServedAt, Idle
<1>12. QED
  BY <1>1, <1>3, <1>8, <1>9, <1>10, <1>11, OnlyOne DEF history

\* A publication ends, or is lost.
LEMMA BumpSettles ==
    ASSUME OneByOne, Inv, Inv', Settled, NEW t \in Threads, BumpRev(t) \/ LosePublication(t)
    PROVE  Settled'
<1>1. /\ ~Idle(t) /\ doing' = doing /\ UNCHANGED <<db, written, hash, store, loaded>>
      /\ Serve(t, snapshot[t]) /\ pc[t] \in {"hset", "bump"}
      /\ Goto(t, IF doing[t].op \in Transactions THEN "commit" ELSE "idle")
  BY DEF BumpRev, LosePublication, AfterPublication, redis, memory, Idle
<1>2. /\ pc'[t] = (IF doing[t].op \in Transactions THEN "commit" ELSE "idle")
      /\ \A u \in Threads \ {t} : Idle(u) /\ pc'[u] = pc[u]
      /\ RunningAt(t) /\ P(t) \in Processes /\ Number(t) \in Numbers /\ rev \in Nat
      /\ \A n \in Numbers : {written[n], hash[n]} \subseteq valid[n]
      /\ \A n \in Numbers : db[n] = written[n] \/ Changing(t, n)
  BY <1>1, RunFacts
<1>3. snapshot[t] = written[Number(t)] /\ snapshot[t] \in Contents
  BY <1>1, <1>2 DEF RunningAt, Inv, RegsOK
<1>4. t \in Askers /\ doing[t].op = "get" => snapshot[t] \in answer[t].valid
  BY <1>2, <1>3 DEF RunningAt
<1>5. /\ answer' \in [Threads -> [value : Contents, valid : SUBSET Contents]]
      /\ \A u \in Threads \ {t} : answer'[u] = answer[u]
      /\ t \in Askers => ServedAt(t)'
  BY <1>1, <1>3, <1>4, ServesValid
<1>6. /\ valid' \in [Numbers -> SUBSET Contents]
      /\ \A n \in Numbers : {written[n], hash[n]} \subseteq valid'[n]
      /\ (valid' = valid) \/ (t \in Writers /\ rev' # rev)
      /\ rev' \in Nat /\ rev <= rev'
  <2>1. CASE valid' = valid
    BY <1>2, <2>1 DEF Settled, HistoryOK, BumpRev, LosePublication, redis
  <2>2. CASE valid' # valid
    <3>1. /\ BumpRev(t) /\ t \in Writers
          /\ valid' = [valid EXCEPT ![Number(t)] = {written[Number(t)]}]
      BY <2>2 DEF BumpRev, LosePublication, Published
    <3>2. hash[Number(t)] = written[Number(t)] /\ written[Number(t)] \in Contents
      BY <1>2, <1>3, <3>1 DEF BumpRev, RunningAt
    <3>3. QED
      BY <1>2, <3>1, <3>2 DEF Settled, HistoryOK, BumpRev
  <2>3. QED
    BY <2>1, <2>2
<1>7. \A p \in Processes \ {P(t)} : localRev'[p] = localRev[p]
  BY DEF BumpRev, LosePublication, memory, Inv, DataOK
<1>8. ASSUME NEW u \in Askers PROVE StoreValidAt(u)'
  <2>1. CASE P(u) = P(t)
    <3>1. t \in Askers /\ t \notin Writers
      BY <2>1 DEF OneByOne, Askers, P
    <3>2. StoreValid(P(t)) /\ valid' = valid
      BY <1>1, <1>2, <1>6, <3>1 DEF RunningAt
    <3>3. QED
      BY <1>1, <2>1, <3>2 DEF StoreValidAt, StoreValid, P
  <2>2. CASE P(u) # P(t)
    <3>1. P(u) \in Processes \ {P(t)}
      BY <2>2, ThreadsAssumption DEF Askers, P
    <3>2. QED
      BY <1>1, <1>6, <1>7, <3>1, StoreUntouched
  <2>3. QED
    BY <2>1, <2>2
<1>9. HistoryOK' /\ DataValid' /\ (Idle(t)' \/ RunningAt(t)')
  <2>1. \A n : Changing(t, n) => Locked(n)'
    BY <1>1, <1>2 DEF Changing, Locked, Idle, Number
  <2>2. DataValid'
    BY <1>1, <1>2, <1>6, <2>1 DEF DataValid
  <2>3. doing[t].op \in Transactions => RunningAt(t)'
    BY <1>1, <1>2 DEF RunningAt
  <2>4. QED
    BY <1>2, <1>5, <1>6, <2>2, <2>3 DEF HistoryOK, Idle
<1>10. QED
  BY <1>1, <1>2, <1>5, <1>8, <1>9, OnlyOne

\* A transaction is committed, or rolled back: the row that is there again is valid.
LEMMA CommitSettles ==
    ASSUME OneByOne, Inv, Inv', Settled, NEW t \in Threads, Commit(t) \/ Rollback(t)
    PROVE  Settled'
<1>1. /\ ~Idle(t) /\ doing' = doing /\ UNCHANGED <<redis, memory, answer>>
      /\ pc[t] = "commit" /\ Goto(t, "idle")
  BY DEF Commit, Rollback, history, Idle
<1>2. /\ pc'[t] = "idle" /\ \A u \in Threads \ {t} : Idle(u) /\ pc'[u] = pc[u]
      /\ RunningAt(t) /\ Number(t) \in Numbers
      /\ \A n \in Numbers : {written[n], hash[n]} \subseteq valid[n]
      /\ \A n \in Numbers \ {Number(t)} : db[n] = written[n]
  BY <1>1, RunFacts DEF Changing
<1>3. t \notin Askers
  BY <1>1, <1>2 DEF RunningAt
<1>4. /\ valid' \in [Numbers -> SUBSET Contents]
      /\ \A n \in Numbers : /\ valid[n] \subseteq valid'[n] /\ written'[n] \in valid'[n]
                            /\ db'[n] = written'[n]
  <2>1. valid \in [Numbers -> SUBSET Contents] /\ db[Number(t)] \in Contents
    BY <1>2 DEF Settled, HistoryOK, Inv, DataOK, Rows, Contents
  <2>2. CASE Commit(t)
    BY <1>2, <2>1, <2>2 DEF Commit, history, Inv, DataOK, Rows
  <2>3. CASE Rollback(t)
    BY <1>2, <2>1, <2>3 DEF Rollback, Inv, DataOK, Rows
  <2>4. QED
    BY <2>2, <2>3
<1>5. HistoryOK' /\ DataValid' /\ Idle(t)'
  BY <1>1, <1>2, <1>4 DEF Settled, HistoryOK, DataValid, Idle, redis
<1>6. \A u \in Askers : StoreValidAt(u)'
  <2>1. rev' = rev /\ rev' \in Nat /\ rev <= rev' /\ UNCHANGED <<store, localRev, loaded>>
    BY <1>1 DEF redis, memory, Inv, DataOK
  <2>2. QED
    BY <1>4, <2>1, StoreUntouched
<1>7. QED
  BY <1>1, <1>2, <1>3, <1>5, <1>6, OnlyOne

LEMMA SettledSteps ==
    ASSUME OneByOne, Inv, Inv', Settled, [Next]_vars
    PROVE  Settled'
<1>1. CASE UNCHANGED vars
  <2>1. UNCHANGED <<db, written, hash, rev, store, localRev, loaded, pc, doing, snapshot, remote, rows, valid, answer>>
    BY <1>1 DEF vars, redis, memory, regs, history
  <2>2. Lone' /\ HistoryOK' /\ DataValid'
    BY <2>1 DEF Settled, Lone, HistoryOK, DataValid, Locked, Number, Idle
  <2>3. \A t \in Threads : Idle(t)' \/ RunningAt(t)'
    BY <2>1 DEF Settled, RunningAt, StoreValid, Idle, Number, P
  <2>4. \A t \in Askers : StoreValidAt(t)' /\ ServedAt(t)'
    BY <2>1 DEF Settled, StoreValidAt, StoreValid, ServedAt, Idle, P
  <2>5. QED
    BY <2>2, <2>3, <2>4 DEF Settled
<1>2. ASSUME NEW t \in Threads, Statement(t) \/ LosePublication(t) \/ LoseLoad(t) \/ Rollback(t)
      PROVE  Settled'
  BY <1>2, LookSettles, InstallSettles, PublicationSettles, BumpSettles, CommitSettles
     DEF Statement
<1>3. ASSUME NEW t \in Threads,
             \/ \E n \in Numbers, v \in Values : Save(t, n, v) \/ AdminSave(t, n, v)
             \/ \E n \in Numbers : Delete(t, n)
             \/ Ask(t)
      PROVE  Settled'
  BY <1>3, BeginSettles DEF Ask
<1>4. ASSUME NEW t \in Threads, Restart(t) PROVE Settled'
  BY <1>4, RestartSettles
<1>5. QED
  BY <1>1, <1>2, <1>3, <1>4 DEF Next

LEMMA InitSettled == ASSUME Init PROVE Settled
<1>1. \A t \in Threads : Idle(t)
  BY DEF Init, Idle
<1>2. HistoryOK /\ DataValid
  BY DEF Init, HistoryOK, DataValid, NoRows, Contents
<1>3. \A t \in Askers : ~loaded[P(t)] /\ answer[t].value \in answer[t].valid
  BY ThreadsAssumption DEF Init, Askers, P
<1>4. QED
  BY <1>1, <1>2, <1>3 DEF Settled, Lone, StoreValidAt, ServedAt

\* Whatever publications and loads are lost, between operations the listener serves nothing
\* older than the last published change of the row: the store, the hash or the row.
THEOREM ReadsSurviveFailures == ASSUME OneByOne PROVE Spec => []FreshRead
<1>1. Inv /\ Inv' /\ Settled /\ [Next]_vars => Settled'
  BY SettledSteps
<1>2. Init => Settled
  BY InitSettled
<1>3. Settled => FreshRead
  BY DEF Settled, ServedAt, FreshRead
<1>4. QED
  BY <1>1, <1>2, <1>3, InvAlways, PTL DEF Spec
=============================================================================
