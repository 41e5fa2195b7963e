------------------------------ MODULE SettingsCache ------------------------------
(***************************************************************************)
(* The settings of the carousels: rows of the database, a copy of each in  *)
(* a Redis hash beside a revision, and in every process a store in memory  *)
(* with the revision it was read at.  Web processes write rows and publish *)
(* them (the signals of CarouselSettings): a form or a PATCH after its     *)
(* commit, the admin page, where alone rows are created and deleted, in    *)
(* the transaction that writes them.  The listener asks for the settings   *)
(* of a carousel at every frame, and reads the hash again when the         *)
(* revision in Redis is not the one of its store.                          *)
(*                                                                         *)
(* Redis commands and database statements are separate steps; a process    *)
(* has several threads and one lock.                                       *)
(***************************************************************************)
EXTENDS Integers, FiniteSets

CONSTANTS
    Processes,
    Threads,
    ProcessOf,    \* the process of a thread
    Writers,      \* threads of web requests; the others handle frames
    Numbers,      \* CarouselSettings.number
    Values,       \* contents of a row
    Absent,       \* no row, no field of the hash, no snapshot
    None,         \* no thread
    Alone,        \* operations that nothing else runs beside
    MayFail,      \* whether publishing and commits may fail
    MaxWrites     \* bound: saves, deletions and restarts of the listener

\* What the admin page does, in a transaction
Transactions == {"create", "edit", "delete"}
Operations == Transactions \union {"save", "get", "start"}
Askers == Threads \ Writers

ASSUME ThreadsAssumption == Writers \subseteq Threads /\ ProcessOf \in [Threads -> Processes]
ASSUME ValuesAssumption == Absent \notin Values /\ None \notin Threads
ASSUME BoundsAssumption ==
    MaxWrites \in Nat /\ MayFail \in BOOLEAN /\ Alone \subseteq Operations

VARIABLES
    db,        \* the rows
    written,   \* the rows with the changes of the transactions that are not committed
    hash,      \* REDIS_HASH_KEY
    rev,       \* REDIS_REV_KEY
    store,     \* _store of a process
    localRev,  \* _local_rev
    loaded,    \* _loaded
    lock,      \* who holds _lock
    pc,        \* the statement a thread is about to execute
    doing,     \* the operation it belongs to, and the number it is about
    snapshot,  \* what it publishes
    remote,    \* the revision it has read
    rows,      \* the rows or the hash it has read
    \* History
    writes,    \* writes so far
    valid,     \* per number what may be served: the row, unless a publication is missing
    answer     \* what a thread was last served, and what was valid while it asked

redis == <<hash, rev>>
memory == <<store, localRev, loaded>>
regs == <<snapshot, remote, rows>>
history == <<writes, valid, answer>>
vars == <<db, written, redis, memory, lock, pc, doing, regs, history>>

Rows == [Numbers -> Values \union {Absent}]
NoRows == [n \in Numbers |-> Absent]

\* The types of the state; who holds the lock is publishing.
TypeOK ==
    /\ {db, written, hash} \subseteq Rows
    /\ rev \in Nat
    /\ store \in [Processes -> Rows]
    /\ localRev \in [Processes -> 0 .. rev]
    /\ loaded \in [Processes -> BOOLEAN]
    /\ pc \in [Threads -> {"idle", "rev", "compare", "hash", "replace", "lookup", "fallback",
                           "upsert", "remove", "hset", "bump", "commit", "select", "publish"}]
    /\ \A p \in Processes, t \in Threads :
        lock[p] = t <=> ProcessOf[t] = p /\ pc[t] \in {"hset", "bump"}

P(t) == ProcessOf[t]
Idle(t) == pc[t] = "idle"
Free(t) == lock[P(t)] = None
Number(t) == doing[t].number
Goto(t, step) == pc' = [pc EXCEPT ![t] = step]

\* An operation begins; those in Alone have the system to themselves
Begin(t, op, n, step) ==
    /\ Idle(t)
    /\ \A u \in Threads : Idle(u) \/ {op, doing[u].op} \intersect Alone = {}
    /\ Goto(t, step)
    /\ doing' = [doing EXCEPT ![t] = [op |-> op, number |-> n]]

----------------------------------------------------------------------------
(* What the listener may be served (history) *)

Publishing(n) == {t \in Writers : ~Idle(t) /\ Number(t) = n}

\* A change is valid from the statement that writes the row ...
Changed(n, v) ==
    /\ writes' = writes + 1
    /\ valid' = [valid EXCEPT ![n] = @ \union {v}]
    /\ answer' = [t \in Threads |->
                    IF ~Idle(t) /\ doing[t].op = "get" /\ Number(t) = n
                    THEN [answer[t] EXCEPT !.valid = @ \union {v}] ELSE answer[t]]

\* ... and alone valid when it is published and no other thread is publishing the number
Published(t) ==
    valid' = IF t \in Writers /\ Publishing(Number(t)) = {t}
             THEN [valid EXCEPT ![Number(t)] = {written[Number(t)]}] ELSE valid

Serve(t, v) ==
    answer' = IF doing[t].op = "get" THEN [answer EXCEPT ![t].value = v] ELSE answer

----------------------------------------------------------------------------
(* Operations *)

\* A transaction that wrote a row keeps others from writing it
Locked(n) == \E t \in Writers : ~Idle(t) /\ Number(t) = n /\ doing[t].op \in Transactions

\* A form or a PATCH: save(), and the post_save signal when the row is there for all
Save(t, n, v) ==
    /\ t \in Writers
    /\ writes < MaxWrites
    /\ db[n] # Absent /\ ~Locked(n)
    /\ Begin(t, "save", n, "upsert")
    /\ db' = [db EXCEPT ![n] = v]
    /\ written' = [written EXCEPT ![n] = v]
    /\ snapshot' = [snapshot EXCEPT ![t] = v]
    /\ Changed(n, v)
    /\ UNCHANGED <<redis, memory, lock, remote, rows>>

\* The admin page: the same signal, before the commit
AdminSave(t, n, v) ==
    /\ t \in Writers
    /\ writes < MaxWrites
    /\ ~Locked(n)
    /\ Begin(t, IF db[n] = Absent THEN "create" ELSE "edit", n, "upsert")
    /\ written' = [written EXCEPT ![n] = v]
    /\ snapshot' = [snapshot EXCEPT ![t] = v]
    /\ Changed(n, v)
    /\ UNCHANGED <<db, redis, memory, lock, remote, rows>>

\* post_delete is sent before the commit, too
Delete(t, n) ==
    /\ t \in Writers
    /\ writes < MaxWrites
    /\ db[n] # Absent /\ ~Locked(n)
    /\ Begin(t, "delete", n, "remove")
    /\ written' = [written EXCEPT ![n] = Absent]
    /\ Changed(n, Absent)
    /\ UNCHANGED <<db, redis, memory, lock, regs>>

\* get_settings_dict; the listener takes no frame before it has loaded the rows
Get(t, n) ==
    /\ t \in Askers
    /\ loaded[P(t)]
    /\ Begin(t, "get", n, "rev")
    /\ answer' = [answer EXCEPT ![t] = [value |-> db[n], valid |-> valid[n]]]
    /\ UNCHANGED <<db, written, redis, memory, lock, regs, writes, valid>>

\* The listener is started, or started again: it loads the rows before it serves carousels
Restart(t) ==
    /\ t \in Askers
    /\ loaded[P(t)] => writes < MaxWrites
    /\ \A u \in Threads : P(u) = P(t) => Idle(u)
    /\ \E n \in Numbers : Begin(t, "start", n, "select")
    /\ store' = [store EXCEPT ![P(t)] = NoRows]
    /\ localRev' = [localRev EXCEPT ![P(t)] = 0]
    /\ loaded' = [loaded EXCEPT ![P(t)] = FALSE]
    /\ writes' = IF loaded[P(t)] THEN writes + 1 ELSE writes
    /\ UNCHANGED <<db, written, redis, lock, regs, valid, answer>>

----------------------------------------------------------------------------
(* sync_from_redis_if_stale *)

ReadRev(t) ==
    /\ pc[t] = "rev"
    /\ remote' = [remote EXCEPT ![t] = rev]
    /\ Goto(t, "compare")
    /\ UNCHANGED <<db, written, redis, memory, lock, doing, snapshot, rows, history>>

Compare(t) ==
    /\ pc[t] = "compare"
    /\ Free(t)
    /\ Goto(t, IF loaded[P(t)] /\ remote[t] = localRev[P(t)] THEN "lookup" ELSE "hash")
    /\ UNCHANGED <<db, written, redis, memory, lock, doing, regs, history>>

\* With nothing in Redis at all the database is loaded
ReadHash(t) ==
    /\ pc[t] = "hash"
    /\ rows' = [rows EXCEPT ![t] = hash]
    /\ Goto(t, IF hash = NoRows /\ remote[t] = 0 THEN "select" ELSE "replace")
    /\ UNCHANGED <<db, written, redis, memory, lock, doing, snapshot, remote, history>>

Install(t, new, r) ==
    /\ store' = [store EXCEPT ![P(t)] = new]
    /\ localRev' = [localRev EXCEPT ![P(t)] = r]
    /\ loaded' = [loaded EXCEPT ![P(t)] = TRUE]

\* Mutant: with the revision of now, not the one the hash was read after
ReplaceWithLatest(t) ==
    /\ pc[t] = "replace"
    /\ Free(t)
    /\ Install(t, rows[t], rev)
    /\ Goto(t, "lookup")
    /\ UNCHANGED <<db, written, redis, lock, doing, regs, history>>

ReplaceStore(t) ==
    /\ pc[t] = "replace"
    /\ Free(t)
    /\ Install(t, rows[t], remote[t])
    /\ Goto(t, "lookup")
    /\ UNCHANGED <<db, written, redis, lock, doing, regs, history>>

Lookup(t) ==
    LET v == store[P(t)][Number(t)]
    IN  /\ pc[t] = "lookup"
        /\ Free(t)
        /\ IF v = Absent THEN Goto(t, "fallback") /\ UNCHANGED answer
                         ELSE Goto(t, "idle") /\ Serve(t, v)
        /\ UNCHANGED <<db, written, redis, memory, lock, doing, regs, writes, valid>>

\* _orm_fallback: a row that was not published is published now
Fallback(t) ==
    LET v == db[Number(t)]
    IN  /\ pc[t] = "fallback"
        /\ IF v = Absent
           THEN Goto(t, "idle") /\ Serve(t, Absent) /\ UNCHANGED snapshot
           ELSE Goto(t, "upsert") /\ snapshot' = [snapshot EXCEPT ![t] = v] /\ UNCHANGED answer
        /\ UNCHANGED <<db, written, redis, memory, lock, doing, remote, rows, writes, valid>>

----------------------------------------------------------------------------
(* upsert_from_model, remove_number, load_from_db *)

Acquire(t) == Free(t) /\ lock' = [lock EXCEPT ![P(t)] = t]
Release(t) == lock' = [lock EXCEPT ![P(t)] = None]

Upsert(t) ==
    /\ pc[t] = "upsert"
    /\ Acquire(t)
    /\ store' = [store EXCEPT ![P(t)][Number(t)] = snapshot[t]]
    /\ loaded' = [loaded EXCEPT ![P(t)] = TRUE]
    /\ Goto(t, "hset")
    /\ UNCHANGED <<db, written, redis, localRev, doing, regs, history>>

Remove(t) ==
    /\ pc[t] = "remove"
    /\ Acquire(t)
    /\ store' = [store EXCEPT ![P(t)][Number(t)] = Absent]
    /\ snapshot' = [snapshot EXCEPT ![t] = Absent]
    /\ Goto(t, "hset")
    /\ UNCHANGED <<db, written, redis, localRev, loaded, doing, remote, rows, history>>

\* _publish_snapshot, _publish_remove: HSET or HDEL
SetField(t) ==
    /\ pc[t] = "hset"
    /\ hash' = [hash EXCEPT ![Number(t)] = snapshot[t]]
    /\ Goto(t, "bump")
    /\ UNCHANGED <<db, written, rev, memory, lock, doing, regs, history>>

\* What was written in a transaction is still to be committed
AfterPublication(t) == Goto(t, IF doing[t].op \in Transactions THEN "commit" ELSE "idle")

\* Mutant: the revision in Redis stays
BumpLocally(t) ==
    /\ pc[t] = "bump"
    /\ Release(t)
    /\ AfterPublication(t)
    /\ Published(t)
    /\ Serve(t, snapshot[t])
    /\ UNCHANGED <<db, written, redis, memory, doing, regs, writes>>

BumpRev(t) ==
    /\ pc[t] = "bump"
    /\ rev' = rev + 1
    /\ localRev' = [localRev EXCEPT ![P(t)] = rev + 1]
    /\ Release(t)
    /\ AfterPublication(t)
    /\ Published(t)
    /\ Serve(t, snapshot[t])
    /\ UNCHANGED <<db, written, hash, store, loaded, doing, regs, writes>>

\* Mutant: the lock is not released
LoseAndKeepLock(t) ==
    /\ MayFail
    /\ pc[t] \in {"hset", "bump"}
    /\ AfterPublication(t)
    /\ Serve(t, snapshot[t])
    /\ UNCHANGED <<db, written, redis, memory, lock, doing, regs, writes, valid>>

\* The error is logged; what was not published stays so
LosePublication(t) ==
    /\ MayFail
    /\ pc[t] \in {"hset", "bump"}
    /\ Release(t)
    /\ AfterPublication(t)
    /\ Serve(t, snapshot[t])
    /\ UNCHANGED <<db, written, redis, memory, doing, regs, writes, valid>>

Commit(t) ==
    /\ pc[t] = "commit"
    /\ db' = [db EXCEPT ![Number(t)] = written[Number(t)]]
    /\ Goto(t, "idle")
    /\ UNCHANGED <<written, redis, memory, lock, doing, regs, history>>

\* What was published stays published; the row is what it was
Rollback(t) ==
    /\ MayFail
    /\ pc[t] = "commit"
    /\ written' = [written EXCEPT ![Number(t)] = db[Number(t)]]
    /\ valid' = [valid EXCEPT ![Number(t)] = @ \union {db[Number(t)]}]
    /\ Goto(t, "idle")
    /\ UNCHANGED <<db, redis, memory, lock, doing, regs, writes, answer>>

SelectRows(t) ==
    /\ pc[t] = "select"
    /\ rows' = [rows EXCEPT ![t] = db]
    /\ Goto(t, "publish")
    /\ UNCHANGED <<db, written, redis, memory, lock, doing, snapshot, remote, history>>

AfterLoad(t) == Goto(t, IF doing[t].op = "start" THEN "idle" ELSE "lookup")

\* One transaction of DEL, HSET and INCR
Publish(t) ==
    /\ pc[t] = "publish"
    /\ Free(t)
    /\ hash' = rows[t]
    /\ rev' = rev + 1
    /\ Install(t, rows[t], rev + 1)
    /\ valid' = [n \in Numbers |-> IF Publishing(n) = {} THEN {db[n]} ELSE valid[n]]
    /\ AfterLoad(t)
    /\ UNCHANGED <<db, written, lock, doing, regs, writes, answer>>

LoseLoad(t) ==
    /\ MayFail
    /\ pc[t] = "publish"
    /\ Free(t)
    /\ Install(t, rows[t], localRev[P(t)])
    /\ AfterLoad(t)
    /\ UNCHANGED <<db, written, redis, lock, doing, regs, history>>

----------------------------------------------------------------------------

Init ==
    /\ db = NoRows
    /\ written = NoRows
    /\ hash = NoRows
    /\ rev = 0
    /\ store = [p \in Processes |-> NoRows]
    /\ localRev = [p \in Processes |-> 0]
    /\ loaded = [p \in Processes |-> FALSE]
    /\ lock = [p \in Processes |-> None]
    /\ pc = [t \in Threads |-> "idle"]
    /\ doing = [t \in Threads |-> [op |-> "start", number |-> CHOOSE n \in Numbers : TRUE]]
    /\ snapshot = [t \in Threads |-> Absent]
    /\ remote = [t \in Threads |-> 0]
    /\ rows = [t \in Threads |-> NoRows]
    /\ writes = 0
    /\ valid = [n \in Numbers |-> {Absent}]
    /\ answer = [t \in Threads |-> [value |-> Absent, valid |-> {Absent}]]

Statement(t) ==
    \/ ReadRev(t) \/ Compare(t) \/ ReadHash(t) \/ ReplaceStore(t) \/ Lookup(t) \/ Fallback(t)
    \/ Upsert(t) \/ Remove(t) \/ SetField(t) \/ BumpRev(t) \/ Commit(t)
    \/ SelectRows(t) \/ Publish(t)

Ask(t) == \E n \in Numbers : Get(t, n)

Next ==
    \E t \in Threads :
        \/ Statement(t) \/ LosePublication(t) \/ LoseLoad(t) \/ Rollback(t)
        \/ \E n \in Numbers, v \in Values : Save(t, n, v) \/ AdminSave(t, n, v)
        \/ \E n \in Numbers : Delete(t, n)
        \/ Ask(t) \/ Restart(t)

\* Threads run, and the posts go on sending frames
Fairness == \A t \in Threads : WF_vars(Statement(t)) /\ WF_vars(Ask(t))

Spec == Init /\ [][Next]_vars /\ Fairness

----------------------------------------------------------------------------
(* Properties *)

\* Who asks for settings gets what the row holds, or held while it asked: never what was
\* there before a save that has been published (sync_from_redis_if_stale).
FreshRead ==
    \A t \in Askers :
        (Idle(t) /\ doing[t].op = "get") => answer[t].value \in answer[t].valid

\* When the changes end and frames go on, the listener's store becomes equal to the
\* database and stays so: no revision is taken over without what it stands for.
StoreSettles ==
    \A t \in Askers : <>[](loaded[P(t)] => store[P(t)] = db)
=============================================================================
