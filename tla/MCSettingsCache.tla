--------------------------- MODULE MCSettingsCache ---------------------------
(***************************************************************************)
(* Instances of SettingsCache for TLC: one web process and the listener.   *)
(***************************************************************************)
EXTENDS SettingsCache, TLC

CONSTANTS web, listener, w1, l1, l2

OneReader == (w1 :> web) @@ (l1 :> listener)
TwoReaders == OneReader @@ (l2 :> listener)

\* Carousels and contents are told apart by nothing but their identity
SameContents == Permutations(Values) \union Permutations(Numbers)

\* What a thread has read or was served, while it or a property still looks at it
Live(value, t, steps) == IF pc[t] \in steps THEN value ELSE Absent

LiveState ==
    <<db, written, redis, memory, lock, pc, writes, valid,
      [t \in Threads |->
          [op |-> doing[t].op,
           number |-> IF Idle(t) \/ doing[t].op = "start" THEN 0 ELSE Number(t),
           snapshot |-> Live(snapshot[t], t, {"upsert", "hset", "bump"}),
           remote |-> Live(remote[t], t, {"compare", "hash", "replace"}),
           rows |-> Live(rows[t], t, {"replace", "publish"}),
           answer |-> IF doing[t].op = "get" THEN answer[t] ELSE 0]]>>
=============================================================================
