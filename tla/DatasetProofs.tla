---------------------------- MODULE DatasetProofs ---------------------------
(***************************************************************************)
(* Facts about dispatch and replay (Dataset.tla) that the proofs about     *)
(* Primary and Recovery rest on: what a command does to its key and to     *)
(* the others, and that a replay goes command by command.                  *)
(*                                                                         *)
(* Induction over the log is done with NumberInduction (Numbers.tla).      *)
(***************************************************************************)
EXTENDS Dataset, Numbers, SequenceTheorems

-----------------------------------------------------------------------------
(* Replay                                                                  *)

\* f is the sequence of stores that the first n commands lead through, from m.
Run(f, m, cmds, n, t) ==
  /\ f = [i \in 0..n |-> f[i]]
  /\ f[0] = m
  /\ \A i \in 1..n : f[i] = dispatch(f[i - 1], cmds[i], t).db

\* Every list of commands can be run.
LEMMA RunExists ==
  ASSUME NEW cmds, NEW m, NEW t, NEW n \in Nat
  PROVE  \E f : Run(f, m, cmds, n, t)
<1> DEFINE T == {i \in Nat : \E f : Run(f, m, cmds, i, t)}
<1>1. 0 \in T
  <2> DEFINE f == [i \in 0..0 |-> m]
  <2>1. Run(f, m, cmds, 0, t)
    BY DEF Run
  <2> QED BY <2>1
<1>2. ASSUME NEW i \in Nat, i \in T PROVE i + 1 \in T
  <2>1. PICK f : Run(f, m, cmds, i, t)
    BY <1>2
  <2> DEFINE c == cmds[i + 1]
             last == dispatch(f[i], c, t).db
             g == [j \in 0..(i + 1) |-> IF j <= i THEN f[j] ELSE last]
  <2>2. g[0] = m
    BY <2>1 DEF Run
  <2>3. ASSUME NEW j \in 1..(i + 1) PROVE g[j] = dispatch(g[j - 1], cmds[j], t).db
    <3>1. CASE j <= i
      <4>1. g[j] = f[j] /\ g[j - 1] = f[j - 1] /\ j \in 1..i
        BY <3>1
      <4> HIDE DEF g
      <4> QED BY <4>1, <2>1 DEF Run
    <3>2. CASE ~(j <= i)
      <4>1. j = i + 1
        BY <3>2
      <4>2. g[j] = last /\ g[j - 1] = f[i] /\ cmds[j] = c
        BY <4>1
      <4> HIDE DEF g
      <4> QED BY <4>2
    <3> QED BY <3>1, <3>2
  <2>4. Run(g, m, cmds, i + 1, t)
    <3>1. g = [j \in 0..(i + 1) |-> g[j]]
      OBVIOUS
    <3> HIDE DEF g
    <3> QED BY <2>2, <2>3, <3>1 DEF Run
  <2> HIDE DEF g
  <2> QED BY <2>4
<1> HIDE DEF T
<1>3. n \in T
  BY <1>1, <1>2, NumberInduction
<1> QED BY <1>3 DEF T

\* A longer run goes through the stores of a shorter one.
LEMMA RunUnique ==
  ASSUME NEW cmds, NEW m, NEW t, NEW n \in Nat, NEW k \in n..(n + 1), NEW f, NEW g,
         Run(f, m, cmds, n, t), Run(g, m, cmds, k, t)
  PROVE  \A i \in 0..n : f[i] = g[i]
<1> DEFINE T == {i \in Nat : i <= n => f[i] = g[i]}
<1>1. 0 \in T
  BY DEF Run
<1>2. ASSUME NEW i \in Nat, i \in T PROVE i + 1 \in T
  <2>1. CASE i + 1 <= n
    <3>1. f[i] = g[i]
      BY <1>2, <2>1
    <3>2. i + 1 \in 1..n /\ i + 1 \in 1..k /\ (i + 1) - 1 = i
      BY <2>1
    <3>3. f[i + 1] = dispatch(f[i], cmds[i + 1], t).db
      BY <3>2 DEF Run
    <3>4. g[i + 1] = dispatch(g[i], cmds[i + 1], t).db
      BY <3>2 DEF Run
    <3>5. f[i + 1] = g[i + 1]
      BY <3>1, <3>3, <3>4
    <3> QED BY <3>5
  <2> QED BY <2>1
<1> HIDE DEF T
<1>3. \A i \in Nat : i \in T
  BY <1>1, <1>2, NumberInduction
<1> QED BY <1>3 DEF T

\* What replay returns is the end of the run.
LEMMA ReplayRun ==
  ASSUME NEW S, NEW cmds \in Seq(S), NEW t
  PROVE  \E f : Run(f, map_new, cmds, Len(cmds), t) /\ replay(cmds, t) = f[Len(cmds)]
<1> DEFINE Rec(f) == f = [i \in 0..Len(cmds) |->
                IF i = 0 THEN map_new ELSE dispatch(f[i - 1], cmds[i], t).db]
           g == CHOOSE f : Rec(f)
<1>1. replay(cmds, t) = g[Len(cmds)]
  BY DEF replay
<1>2. Len(cmds) \in Nat
  BY LenProperties
<1>3. PICK f : Run(f, map_new, cmds, Len(cmds), t)
  BY <1>2, RunExists
<1>4. Rec(f)
  <2>1. \A i \in 0..Len(cmds) :
          f[i] = IF i = 0 THEN map_new ELSE dispatch(f[i - 1], cmds[i], t).db
    BY <1>2, <1>3 DEF Run
  <2>2. f = [i \in 0..Len(cmds) |-> f[i]]
    BY <1>3 DEF Run
  <2> QED BY <2>1, <2>2, Zenon
<1>5. Rec(g)
  BY <1>4
<1> HIDE DEF g
<1>6. Run(g, map_new, cmds, Len(cmds), t)
  <2>1. g = [i \in 0..Len(cmds) |-> g[i]]
    BY <1>5
  <2>2. g[0] = map_new
    BY <1>2, <1>5
  <2>3. \A i \in 1..Len(cmds) : g[i] = dispatch(g[i - 1], cmds[i], t).db
    <3> SUFFICES ASSUME NEW i \in 1..Len(cmds) PROVE g[i] = dispatch(g[i - 1], cmds[i], t).db
      OBVIOUS
    <3>1. i \in 0..Len(cmds) /\ i # 0
      BY <1>2
    <3> QED BY <3>1, <1>5, Zenon
  <2> QED BY <2>1, <2>2, <2>3 DEF Run
<1> QED BY <1>1, <1>6

\* The store that the commands make of m.
applied(m, cmds, t) == (CHOOSE f : Run(f, m, cmds, Len(cmds), t))[Len(cmds)]

\* It is where any run ends.
LEMMA AppliedRun ==
  ASSUME NEW S, NEW cmds \in Seq(S), NEW m, NEW t, NEW f, Run(f, m, cmds, Len(cmds), t)
  PROVE  applied(m, cmds, t) = f[Len(cmds)]
<1> DEFINE n == Len(cmds)
           g == CHOOSE h : Run(h, m, cmds, n, t)
<1>1. n \in Nat
  BY LenProperties
<1>2. Run(g, m, cmds, n, t)
  BY Zenon
<1> HIDE DEF g, n
<1>3. n \in n..(n + 1) /\ n \in 0..n
  BY <1>1
<1>4. Run(f, m, cmds, n, t)
  BY DEF n
<1>5. \A i \in 0..n : g[i] = f[i]
  BY <1>1, <1>2, <1>3, <1>4, RunUnique
<1>6. g[n] = f[n]
  BY <1>3, <1>5
<1> QED BY <1>6 DEF applied, g, n

\* No command, no change.
LEMMA AppliedEmpty ==
  ASSUME NEW m, NEW t
  PROVE  applied(m, <<>>, t) = m
<1>1. <<>> \in Seq({}) /\ Len(<<>>) = 0
  BY EmptySeq
<1>2. PICK f : Run(f, m, <<>>, 0, t)
  BY RunExists
<1>3. applied(m, <<>>, t) = f[0]
  BY <1>1, <1>2, AppliedRun
<1> QED BY <1>2, <1>3 DEF Run

\* One command more at the end.
LEMMA AppliedAppend ==
  ASSUME NEW S, NEW cmds \in Seq(S), NEW c \in S, NEW m, NEW t
  PROVE  applied(m, Append(cmds, c), t) = dispatch(applied(m, cmds, t), c, t).db
<1> DEFINE longer == Append(cmds, c)
           n == Len(cmds)
<1>1. /\ longer \in Seq(S) /\ Len(longer) = n + 1 /\ n \in Nat
      /\ \A i \in 1..n : longer[i] = cmds[i]
      /\ longer[n + 1] = c
  BY AppendProperties, LenProperties
<1> HIDE DEF longer
<1>2. PICK g : Run(g, m, longer, n + 1, t)
  <2>1. n + 1 \in Nat
    BY <1>1
  <2> HIDE DEF n
  <2> QED BY <2>1, RunExists
<1>3. applied(m, longer, t) = g[n + 1]
  BY <1>1, <1>2, AppliedRun
<1>4. PICK f : Run(f, m, cmds, n, t)
  BY <1>1, RunExists
<1>5. applied(m, cmds, t) = f[n]
  BY <1>4, AppliedRun
<1> HIDE DEF n
<1>6. Run(f, m, longer, n, t)
  BY <1>1, <1>4 DEF Run
<1>7. f[n] = g[n]
  <2>1. n + 1 \in n..(n + 1) /\ n \in 0..n
    BY <1>1
  <2>2. \A i \in 0..n : f[i] = g[i]
    BY <1>1, <1>2, <1>6, <2>1, RunUnique
  <2> QED BY <2>1, <2>2
<1>8. g[n + 1] = dispatch(g[n], longer[n + 1], t).db
  <2>1. n + 1 \in 1..(n + 1) /\ (n + 1) - 1 = n
    BY <1>1
  <2> QED BY <1>2, <2>1 DEF Run
<1> QED BY <1>1, <1>3, <1>5, <1>7, <1>8 DEF longer

\* The first command first.
LEMMA AppliedHead ==
  ASSUME NEW S, NEW cmds \in Seq(S), cmds # <<>>, NEW m, NEW t
  PROVE  applied(m, cmds, t) = applied(dispatch(m, Head(cmds), t).db, Tail(cmds), t)
<1> DEFINE rest == Tail(cmds)
           n == Len(rest)
           h == dispatch(m, Head(cmds), t).db
<1>1. /\ rest \in Seq(S) /\ n \in Nat /\ Len(cmds) = n + 1
      /\ \A i \in 1..n : rest[i] = cmds[i + 1]
  BY HeadTailProperties, LenProperties
<1>2. Head(cmds) = cmds[1]
  OBVIOUS
<1> HIDE DEF rest, n
<1>a. n + 1 \in Nat
  BY <1>1
<1>3. PICK f : Run(f, m, cmds, n + 1, t)
  BY <1>a, RunExists
<1>4. applied(m, cmds, t) = f[n + 1]
  BY <1>1, <1>3, AppliedRun
<1> DEFINE g == [i \in 0..n |-> f[i + 1]]
<1>5. Run(g, h, rest, n, t)
  <2>1. g = [i \in 0..n |-> g[i]]
    OBVIOUS
  <2>2. g[0] = h
    <3>1. 1 \in 1..(n + 1) /\ 1 - 1 = 0
      BY <1>1
    <3>2. f[0] = m /\ f[1] = dispatch(f[0], cmds[1], t).db
      BY <1>3, <3>1 DEF Run
    <3>3. g[0] = f[1]
      BY <1>1
    <3> QED BY <1>2, <3>2, <3>3
  <2>3. ASSUME NEW i \in 1..n PROVE g[i] = dispatch(g[i - 1], rest[i], t).db
    <3>1. g[i] = f[i + 1] /\ g[i - 1] = f[i]
      BY <1>1
    <3>2. i + 1 \in 1..(n + 1) /\ (i + 1) - 1 = i
      BY <1>1
    <3>3. f[i + 1] = dispatch(f[i], cmds[i + 1], t).db
      BY <1>3, <3>2 DEF Run
    <3> HIDE DEF g
    <3> QED BY <1>1, <3>1, <3>3
  <2> HIDE DEF g, h
  <2> QED BY <2>1, <2>2, <2>3 DEF Run
<1>6. g[n] = f[n + 1]
  BY <1>1
<1> HIDE DEF g, h
<1>7. applied(h, rest, t) = g[n]
  BY <1>1, <1>5, AppliedRun DEF n
<1> QED BY <1>4, <1>6, <1>7 DEF h, rest

\* A replay is this from the empty store.
LEMMA ReplayApplied ==
  ASSUME NEW S, NEW cmds \in Seq(S), NEW t
  PROVE  replay(cmds, t) = applied(map_new, cmds, t)
<1>1. PICK f : Run(f, map_new, cmds, Len(cmds), t) /\ replay(cmds, t) = f[Len(cmds)]
  BY ReplayRun
<1> QED BY <1>1, AppliedRun

-----------------------------------------------------------------------------
(* What a command does                                                     *)

\* The commands that no clock decides about.
Untimed == {"SET", "SETNX", "APPEND", "RPUSH", "DEL"}

\* A store of known keys, with values made of the fragments V.
EntryOf(V) == [type : {"string", "list"}, value : Seq(V) \ {<<>>}, expire_at : Nat \cup {None}]

StoreOf(m, V) == DOMAIN m \subseteq Keys /\ \A k \in DOMAIN m : m[k] \in EntryOf(V)

\* No entry has a deadline.
Lasting(m) == \A k \in DOMAIN m : m[k].expire_at = None

CommandOf(V) == [op : Ops, key : Keys, arg : Seq(V), time : Nat, id : Nat]

\* A command with something to write, unless it writes nothing.
Sound(c) == c.op # "PEXPIREAT" => c.arg # <<>>

\* The two stores hold the same under k.
Same(k, m1, m2) ==
  /\ k \in DOMAIN m1 <=> k \in DOMAIN m2
  /\ k \in DOMAIN m1 => m1[k] = m2[k]

\* What a map holds after an insertion and after a removal.
\* Holding the same is an equivalence.
LEMMA SameTrans ==
  ASSUME NEW k, NEW m1, NEW m2, NEW m3
  PROVE  /\ Same(k, m1, m1)
         /\ Same(k, m1, m2) => Same(k, m2, m1)
         /\ Same(k, m1, m2) /\ Same(k, m2, m3) => Same(k, m1, m3)
BY DEF Same

\* Removing a key leaves the others alone.
LEMMA MapRemove ==
  ASSUME NEW m, NEW k
  PROVE  /\ DOMAIN map_remove(m, k) = DOMAIN m \ {k}
         /\ \A j \in DOMAIN m : j # k => map_remove(m, k)[j] = m[j]
BY DEF map_remove

\* Lazy expiry drops the key or nothing, and nothing without deadlines.
LEMMA Live ==
  ASSUME NEW m, NEW k, NEW t
  PROVE  /\ live(m, k, t) = m \/ live(m, k, t) = map_remove(m, k)
         /\ Lasting(m) => live(m, k, t) = m
         /\ k \in DOMAIN live(m, k, t) => live(m, k, t) = m
<1>1. k \notin DOMAIN map_remove(m, k)
  BY MapRemove
<1> QED BY <1>1 DEF live, Lasting, gone


\* The entry a command makes of nothing, and of the entry e.
first(type, c) == [type |-> type, value |-> c.arg, expire_at |-> None]

late(c, t) == [type |-> "string", value |-> c.arg, expire_at |-> t + c.time]

moved(e, c) == [type |-> e.type, value |-> e.value, expire_at |-> c.time]

grown(e, c) == [type |-> e.type, value |-> e.value \o c.arg, expire_at |-> e.expire_at]

type_of(c) == IF c.op = "APPEND" THEN "string" ELSE "list"

\* Updating a field of an entry.
LEMMA EntryUpdate ==
  ASSUME NEW V, NEW e \in EntryOf(V), NEW x
  PROVE  /\ [e EXCEPT !.value = x] =
              [type |-> e.type, value |-> x, expire_at |-> e.expire_at]
         /\ [e EXCEPT !.expire_at = x] = [type |-> e.type, value |-> e.value, expire_at |-> x]
BY DEF EntryOf

\* Dispatching c at t removes its key, leaves everything alone, or inserts.
LEMMA DispatchCases ==
  ASSUME NEW V, NEW m, StoreOf(m, V), NEW c \in CommandOf(V), NEW t,
         NEW d, d = live(m, c.key, t),
         NEW r, r = dispatch(m, c, t),
         NEW k, k = c.key
  PROVE  /\ c.op = "SET" => r = written(d, k, first("string", c))
         /\ c.op = "SETNX" => r = IF k \in DOMAIN d THEN unchanged(d)
                                  ELSE written(d, k, first("string", c))
         /\ c.op = "PSETEX" => r = written(d, k, late(c, t))
         /\ c.op = "DEL" => r = [db |-> map_remove(d, k), persist |-> k \in DOMAIN d]
         /\ c.op = "PEXPIREAT" =>
              r = IF k \in DOMAIN d THEN written(d, k, moved(d[k], c)) ELSE unchanged(d)
         /\ c.op \in {"APPEND", "RPUSH"} =>
              r = IF k \notin DOMAIN d THEN written(d, k, first(type_of(c), c))
                  ELSE IF d[k].type # type_of(c) THEN unchanged(d)
                  ELSE written(d, k, grown(d[k], c))
<1> DEFINE fresh == [type |-> "string", value |-> c.arg, expire_at |-> None]
<1>1. k \in DOMAIN d => d[k] \in EntryOf(V)
  <2>1. k \in DOMAIN d => d = m
    BY Live
  <2> QED BY <2>1 DEF StoreOf
<1>2. k \in DOMAIN d => [d[k] EXCEPT !.expire_at = c.time] = moved(d[k], c)
  BY <1>1, EntryUpdate DEF moved
<1>3. k \in DOMAIN d => [d[k] EXCEPT !.value = @ \o c.arg] = grown(d[k], c)
  <2> SUFFICES ASSUME k \in DOMAIN d PROVE [d[k] EXCEPT !.value = @ \o c.arg] = grown(d[k], c)
    OBVIOUS
  <2> DEFINE e == d[k]
             x == e.value \o c.arg
  <2> HIDE DEF e, x
  <2>0. e \in EntryOf(V)
    BY <1>1 DEF e
  <2>1. [e EXCEPT !.value = x] = [type |-> e.type, value |-> x, expire_at |-> e.expire_at]
    BY <2>0, EntryUpdate
  <2> QED BY <2>1 DEF grown, e, x
<1>4. c.op \in {"APPEND", "RPUSH"} => extends_type[c.op] = type_of(c)
  BY DEF extends_type, type_of
<1>5. \A type : [fresh EXCEPT !.type = type] = first(type, c)
  BY DEF first
<1>6. [fresh EXCEPT !.expire_at = t + c.time] = late(c, t)
  BY DEF late
<1>7. CASE c.op \in {"APPEND", "RPUSH"}
  <2>1. r = IF k \notin DOMAIN d THEN written(d, k, [fresh EXCEPT !.type = extends_type[c.op]])
            ELSE IF d[k].type # extends_type[c.op] THEN unchanged(d)
            ELSE written(d, k, [d[k] EXCEPT !.value = @ \o c.arg])
    BY <1>7 DEF dispatch
  <2> HIDE DEF fresh
  <2> QED BY <2>1, <1>3, <1>4, <1>5, <1>7
<1>8. CASE c.op = "PEXPIREAT"
  <2>1. r = IF k \in DOMAIN d THEN written(d, k, [d[k] EXCEPT !.expire_at = c.time])
            ELSE unchanged(d)
    BY <1>8 DEF dispatch
  <2> QED BY <2>1, <1>2, <1>8
<1>9. CASE c.op = "PSETEX"
  <2>1. r = written(d, k, [fresh EXCEPT !.expire_at = t + c.time])
    BY <1>9 DEF dispatch
  <2> HIDE DEF fresh
  <2> QED BY <2>1, <1>6, <1>9
<1>10. CASE c.op \in {"SET", "SETNX", "DEL"}
  BY <1>10 DEF dispatch, first
<1>11. c.op \in Ops
  BY DEF CommandOf
<1> QED BY <1>7, <1>8, <1>9, <1>10, <1>11 DEF Ops

\* What a command leaves in the store, seen from its key: the store that lazy
\* expiry left, the same without the key, or the same with a new entry.
LEMMA DispatchShape ==
  ASSUME NEW V, NEW m, StoreOf(m, V), NEW c \in CommandOf(V), NEW t,
         NEW d, d = live(m, c.key, t),
         NEW r, r = dispatch(m, c, t)
  PROVE  \/ r = unchanged(d)
         \/ r = [db |-> map_remove(d, c.key), persist |-> c.key \in DOMAIN d]
         \/ \E e : r = written(d, c.key, e)
<1>1. c.op \in Ops
  BY DEF CommandOf
<1> DEFINE k == c.key
<1> HIDE DEF k
<1>2. CASE c.op \in {"SET", "PSETEX", "DEL"}
  BY <1>2, DispatchCases
<1>3. CASE c.op \in {"SETNX", "PEXPIREAT"}
  BY <1>3, DispatchCases
<1>4. CASE c.op \in {"APPEND", "RPUSH"}
  BY <1>4, DispatchCases
<1> QED BY <1>1, <1>2, <1>3, <1>4 DEF Ops

\* A command does nothing to other keys than its own.
LEMMA DispatchLocal ==
  ASSUME NEW V, NEW m, StoreOf(m, V), NEW c \in CommandOf(V), NEW t,
         NEW j, j # c.key
  PROVE  Same(j, dispatch(m, c, t).db, m)
<1> DEFINE d == live(m, c.key, t)
           r == dispatch(m, c, t)
<1>1. Same(j, d, m)
  BY DEF Same, live, map_remove
<1>2. \/ r = unchanged(d)
      \/ r = [db |-> map_remove(d, c.key), persist |-> c.key \in DOMAIN d]
      \/ \E e : r = written(d, c.key, e)
  BY DispatchShape
<1> HIDE DEF d, r
<1>3. CASE r = unchanged(d)
  BY <1>1, <1>3 DEF unchanged, r
<1>4. CASE r = [db |-> map_remove(d, c.key), persist |-> c.key \in DOMAIN d]
  <2>1. r.db = map_remove(d, c.key)
    BY <1>4
  <2>2. Same(j, r.db, d)
    BY <2>1 DEF Same, map_remove
  <2>3. Same(j, r.db, m)
    BY <2>2, <1>1 DEF Same
  <2> QED BY <2>3 DEF r
<1>5. CASE \E e : r = written(d, c.key, e)
  <2>1. PICK e : r = written(d, c.key, e)
    BY <1>5
  <2>2. r.db = map_insert(d, c.key, e)
    BY <2>1 DEF written
  <2>3. Same(j, r.db, d)
    BY <2>2 DEF Same, map_insert
  <2>4. Same(j, r.db, m)
    BY <2>3, <1>1 DEF Same
  <2> QED BY <2>4 DEF r
<1> QED BY <1>2, <1>3, <1>4, <1>5

\* What a command does to its key depends on that key's entry alone.
LEMMA DispatchSame ==
  ASSUME NEW V, NEW m1, NEW m2, StoreOf(m1, V), StoreOf(m2, V),
         NEW c \in CommandOf(V), NEW t, Same(c.key, m1, m2)
  PROVE  Same(c.key, dispatch(m1, c, t).db, dispatch(m2, c, t).db)
<1> DEFINE k == c.key
           d1 == live(m1, c.key, t)
           d2 == live(m2, c.key, t)
           r1 == dispatch(m1, c, t)
           r2 == dispatch(m2, c, t)
<1>1. Same(k, d1, d2)
  BY DEF live, Same, map_remove
<1> HIDE DEF d1, d2, r1, r2
<1>2. /\ d1 = live(m1, c.key, t) /\ r1 = dispatch(m1, c, t)
      /\ d2 = live(m2, c.key, t) /\ r2 = dispatch(m2, c, t)
  BY DEF d1, d2, r1, r2
<1>3. \A e : Same(k, written(d1, k, e).db, written(d2, k, e).db)
  BY DEF Same, written, map_insert
<1>4. Same(k, unchanged(d1).db, unchanged(d2).db)
  BY <1>1 DEF unchanged
<1>5. Same(k, map_remove(d1, k), map_remove(d2, k))
  BY DEF Same, map_remove
<1>6. /\ k \in DOMAIN d1 <=> k \in DOMAIN d2
      /\ k \in DOMAIN d1 => d1[k] = d2[k]
  BY <1>1 DEF Same
<1> HIDE DEF k
<1>7. k = c.key
  BY DEF k
<1>8. c.op \in Ops
  BY DEF CommandOf
<1>9. CASE c.op \in {"SET", "PSETEX"}
  <2>1. \E e : r1 = written(d1, k, e) /\ r2 = written(d2, k, e)
    BY <1>2, <1>7, <1>9, DispatchCases
  <2> QED BY <2>1, <1>3, <1>7 DEF r1, r2
<1>10. CASE c.op = "DEL"
  <2>1. r1.db = map_remove(d1, k)
    BY <1>2, <1>7, <1>10, DispatchCases
  <2>2. r2.db = map_remove(d2, k)
    BY <1>2, <1>7, <1>10, DispatchCases
  <2> QED BY <2>1, <2>2, <1>5, <1>7 DEF r1, r2
<1>11. CASE c.op = "SETNX"
  <2> DEFINE e == first("string", c)
  <2> HIDE DEF e
  <2>1. r1 = IF k \in DOMAIN d1 THEN unchanged(d1) ELSE written(d1, k, e)
    BY <1>2, <1>7, <1>11, DispatchCases DEF e
  <2>2. r2 = IF k \in DOMAIN d2 THEN unchanged(d2) ELSE written(d2, k, e)
    BY <1>2, <1>7, <1>11, DispatchCases DEF e
  <2>3. Same(k, r1.db, r2.db)
    BY <2>1, <2>2, <1>3, <1>4, <1>6
  <2> QED BY <2>3, <1>7 DEF r1, r2
<1>12. CASE c.op = "PEXPIREAT"
  <2>1. r1 = IF k \in DOMAIN d1 THEN written(d1, k, moved(d1[k], c)) ELSE unchanged(d1)
    BY <1>2, <1>7, <1>12, DispatchCases
  <2>2. r2 = IF k \in DOMAIN d2 THEN written(d2, k, moved(d2[k], c)) ELSE unchanged(d2)
    BY <1>2, <1>7, <1>12, DispatchCases
  <2>3. Same(k, r1.db, r2.db)
    BY <2>1, <2>2, <1>3, <1>4, <1>6
  <2> QED BY <2>3, <1>7 DEF r1, r2
<1>13. CASE c.op \in {"APPEND", "RPUSH"}
  <2> DEFINE e == first(type_of(c), c)
  <2> HIDE DEF e
  <2>1. r1 = IF k \notin DOMAIN d1 THEN written(d1, k, e)
             ELSE IF d1[k].type # type_of(c) THEN unchanged(d1)
             ELSE written(d1, k, grown(d1[k], c))
    BY <1>2, <1>7, <1>13, DispatchCases DEF e
  <2>2. r2 = IF k \notin DOMAIN d2 THEN written(d2, k, e)
             ELSE IF d2[k].type # type_of(c) THEN unchanged(d2)
             ELSE written(d2, k, grown(d2[k], c))
    BY <1>2, <1>7, <1>13, DispatchCases DEF e
  <2>3. Same(k, r1.db, r2.db)
    BY <2>1, <2>2, <1>3, <1>4, <1>6
  <2> QED BY <2>3, <1>7 DEF r1, r2
<1> QED BY <1>8, <1>9, <1>10, <1>11, <1>12, <1>13 DEF Ops

\* Entries that commands make are entries.
LEMMA NewEntries ==
  ASSUME NEW V, NEW c \in CommandOf(V), Sound(c), NEW t \in Nat, NEW e \in EntryOf(V)
  PROVE  /\ c.op # "PEXPIREAT" => \A type \in {"string", "list"} : first(type, c) \in EntryOf(V)
         /\ c.op # "PEXPIREAT" => late(c, t) \in EntryOf(V)
         /\ moved(e, c) \in EntryOf(V)
         /\ c.op # "PEXPIREAT" => grown(e, c) \in EntryOf(V)
<1>1. c.arg \in Seq(V) /\ c.time \in Nat /\ (c.op # "PEXPIREAT" => c.arg # <<>>)
  BY DEF CommandOf, Sound
<1>2. e.type \in {"string", "list"} /\ e.value \in Seq(V) \ {<<>>} /\ e.expire_at \in Nat \cup {None}
  BY DEF EntryOf
<1>3. e.value \o c.arg \in Seq(V) \ {<<>>}
  BY <1>1, <1>2, ConcatProperties, ConcatEqualIffEmpty
<1>4. grown(e, c) \in EntryOf(V)
  <2> DEFINE v == e.value \o c.arg
  <2> HIDE DEF v
  <2>1. v \in Seq(V) \ {<<>>}
    BY <1>3 DEF v
  <2>2. [type |-> e.type, value |-> v, expire_at |-> e.expire_at] \in EntryOf(V)
    BY <1>2, <2>1 DEF EntryOf
  <2> QED BY <2>2 DEF grown, v
<1>5. moved(e, c) \in EntryOf(V)
  BY <1>1, <1>2 DEF EntryOf, moved
<1>6. c.op # "PEXPIREAT" => late(c, t) \in EntryOf(V)
  BY <1>1 DEF EntryOf, late
<1>7. c.op # "PEXPIREAT" => \A type \in {"string", "list"} : first(type, c) \in EntryOf(V)
  BY <1>1 DEF EntryOf, first
<1> QED BY <1>4, <1>5, <1>6, <1>7

\* Commands make stores of stores.
LEMMA DispatchStore ==
  ASSUME NEW V, NEW m, StoreOf(m, V), NEW c \in CommandOf(V), Sound(c), NEW t \in Nat
  PROVE  StoreOf(dispatch(m, c, t).db, V) /\ dispatch(m, c, t).persist \in BOOLEAN
<1> DEFINE k == c.key
           d == live(m, c.key, t)
           r == dispatch(m, c, t)
<1>1. StoreOf(d, V)
  BY DEF StoreOf, live, map_remove
<1> HIDE DEF d, r, k
<1>2. k = c.key /\ k \in Keys /\ d = live(m, c.key, t) /\ r = dispatch(m, c, t) /\ c.op \in Ops
  BY DEF d, r, k, CommandOf
<1>3. \A e \in EntryOf(V) : StoreOf(written(d, k, e).db, V) /\ written(d, k, e).persist = TRUE
  BY <1>1, <1>2 DEF StoreOf, written, map_insert
<1>4. StoreOf(unchanged(d).db, V) /\ unchanged(d).persist = FALSE
  BY <1>1 DEF unchanged
<1>5. StoreOf(map_remove(d, k), V)
  BY <1>1 DEF StoreOf, map_remove
<1>6. k \in DOMAIN d => d[k] \in EntryOf(V)
  BY <1>1 DEF StoreOf
<1>7. c.op # "PEXPIREAT" => /\ first("string", c) \in EntryOf(V)
                            /\ first(type_of(c), c) \in EntryOf(V)
                            /\ late(c, t) \in EntryOf(V)
  <2>1. c.arg \in Seq(V) /\ c.time \in Nat /\ (c.op # "PEXPIREAT" => c.arg # <<>>)
    BY DEF CommandOf, Sound
  <2> QED BY <2>1 DEF EntryOf, first, late, type_of
<1>8. CASE c.op \in {"SET", "PSETEX"}
  <2>1. \E e \in EntryOf(V) : r = written(d, k, e)
    BY <1>2, <1>7, <1>8, DispatchCases
  <2>2. StoreOf(r.db, V) /\ r.persist = TRUE
    BY <2>1, <1>3
  <2> QED BY <2>2 DEF r
<1>9. CASE c.op = "DEL"
  <2>1. r = [db |-> map_remove(d, k), persist |-> k \in DOMAIN d]
    BY <1>2, <1>9, DispatchCases
  <2>2. StoreOf(r.db, V) /\ r.persist \in BOOLEAN
    BY <2>1, <1>5
  <2> QED BY <2>2 DEF r
<1>10. CASE c.op = "SETNX"
  <2>1. r = unchanged(d) \/ \E e \in EntryOf(V) : r = written(d, k, e)
    BY <1>2, <1>7, <1>10, DispatchCases
  <2>2. StoreOf(r.db, V) /\ r.persist \in BOOLEAN
    BY <2>1, <1>3, <1>4
  <2> QED BY <2>2 DEF r
<1>11. CASE c.op = "PEXPIREAT"
  <2>0. k \in DOMAIN d => moved(d[k], c) \in EntryOf(V)
    BY <1>6, NewEntries
  <2>1. r = unchanged(d) \/ \E e \in EntryOf(V) : r = written(d, k, e)
    BY <1>2, <1>11, <2>0, DispatchCases
  <2>2. StoreOf(r.db, V) /\ r.persist \in BOOLEAN
    BY <2>1, <1>3, <1>4
  <2> QED BY <2>2 DEF r
<1>12. CASE c.op \in {"APPEND", "RPUSH"}
  <2>0. k \in DOMAIN d => grown(d[k], c) \in EntryOf(V)
    BY <1>6, <1>12, NewEntries
  <2>1. r = unchanged(d) \/ \E e \in EntryOf(V) : r = written(d, k, e)
    BY <1>2, <1>7, <1>12, <2>0, DispatchCases
  <2>2. StoreOf(r.db, V) /\ r.persist \in BOOLEAN
    BY <2>1, <1>3, <1>4
  <2> QED BY <2>2 DEF r
<1> QED BY <1>2, <1>8, <1>9, <1>10, <1>11, <1>12 DEF Ops

\* Without deadlines the time of a command does not matter, and a command that
\* is not to be logged has changed nothing.
LEMMA DispatchUntimed ==
  ASSUME NEW V, NEW m, StoreOf(m, V), Lasting(m),
         NEW c \in CommandOf(V), c.op \in Untimed, NEW t, NEW u
  PROVE  /\ Lasting(dispatch(m, c, t).db)
         /\ dispatch(m, c, t) = dispatch(m, c, u)
         /\ ~dispatch(m, c, t).persist => \A j : Same(j, dispatch(m, c, t).db, m)
<1> DEFINE k == c.key
           r == dispatch(m, c, t)
           s == dispatch(m, c, u)
<1>1. live(m, c.key, t) = m /\ live(m, c.key, u) = m
  BY Live
<1> HIDE DEF k, r, s
<1>2. k = c.key /\ r = dispatch(m, c, t) /\ s = dispatch(m, c, u)
  BY DEF k, r, s
<1>3. \A e : e.expire_at = None => Lasting(written(m, k, e).db) /\ written(m, k, e).persist
  BY DEF Lasting, written, map_insert
<1>4. /\ Lasting(unchanged(m).db)
      /\ \A j : Same(j, unchanged(m).db, m)
  BY DEF unchanged, Same
<1>5. Lasting(map_remove(m, k)) /\ (k \notin DOMAIN m => \A j : Same(j, map_remove(m, k), m))
  BY DEF Lasting, map_remove, Same
<1>6. \A type : first(type, c).expire_at = None
  BY DEF first
<1>7. k \in DOMAIN m => grown(m[k], c).expire_at = None
  BY DEF grown, Lasting
<1>8. CASE c.op = "SET"
  <2>1. r = written(m, k, first("string", c)) /\ s = r
    BY <1>1, <1>2, <1>8, DispatchCases
  <2>2. Lasting(r.db) /\ r.persist /\ s = r
    BY <2>1, <1>3, <1>6
  <2> QED BY <2>2 DEF r, s
<1>9. CASE c.op = "SETNX"
  <2>1. r = (IF k \in DOMAIN m THEN unchanged(m) ELSE written(m, k, first("string", c))) /\ s = r
    BY <1>1, <1>2, <1>9, DispatchCases
  <2>2. Lasting(r.db) /\ (~r.persist => \A j : Same(j, r.db, m)) /\ s = r
    BY <2>1, <1>3, <1>4, <1>6
  <2> QED BY <2>2 DEF r, s
<1>10. CASE c.op = "DEL"
  <2>1. r = [db |-> map_remove(m, k), persist |-> k \in DOMAIN m] /\ s = r
    BY <1>1, <1>2, <1>10, DispatchCases
  <2>2. Lasting(r.db) /\ (~r.persist => \A j : Same(j, r.db, m)) /\ s = r
    BY <2>1, <1>5
  <2> QED BY <2>2 DEF r, s
<1>11. CASE c.op \in {"APPEND", "RPUSH"}
  <2>1. /\ r = IF k \notin DOMAIN m THEN written(m, k, first(type_of(c), c))
               ELSE IF m[k].type # type_of(c) THEN unchanged(m)
               ELSE written(m, k, grown(m[k], c))
        /\ s = r
    BY <1>1, <1>2, <1>11, DispatchCases
  <2>2. Lasting(r.db) /\ (~r.persist => \A j : Same(j, r.db, m)) /\ s = r
    BY <2>1, <1>3, <1>4, <1>6, <1>7
  <2> QED BY <2>2 DEF r, s
<1> QED BY <1>8, <1>9, <1>10, <1>11 DEF Untimed

-----------------------------------------------------------------------------
(* What a replay does                                                      *)

SoundCommand(V) == {c \in CommandOf(V) : Sound(c)}

PlainCommand(V) == {c \in CommandOf(V) : c.op \in Untimed /\ c.arg # <<>>}

\* A run goes through stores.
LEMMA RunStore ==
  ASSUME NEW V, NEW n \in Nat, NEW cmds, \A i \in 1..n : cmds[i] \in SoundCommand(V),
         NEW t \in Nat, NEW m, StoreOf(m, V), NEW f, Run(f, m, cmds, n, t)
  PROVE  \A i \in 0..n : StoreOf(f[i], V)
<1> DEFINE T == {i \in Nat : i <= n => StoreOf(f[i], V)}
<1>1. 0 \in T
  BY DEF Run
<1>2. ASSUME NEW i \in Nat, i \in T PROVE i + 1 \in T
  <2> SUFFICES ASSUME i + 1 <= n PROVE StoreOf(f[i + 1], V)
    OBVIOUS
  <2>1. i + 1 \in 1..n /\ (i + 1) - 1 = i
    OBVIOUS
  <2>2. f[i + 1] = dispatch(f[i], cmds[i + 1], t).db
    BY <2>1 DEF Run
  <2>3. StoreOf(f[i], V)
    BY <1>2
  <2>4. cmds[i + 1] \in CommandOf(V) /\ Sound(cmds[i + 1])
    BY <2>1 DEF SoundCommand
  <2> QED BY <2>2, <2>3, <2>4, DispatchStore
<1> HIDE DEF T
<1>3. \A i \in Nat : i \in T
  BY <1>1, <1>2, NumberInduction
<1> QED BY <1>3 DEF T

\* The empty store is one.
LEMMA EmptyStore == \A V : StoreOf(map_new, V) /\ Lasting(map_new)
BY DEF StoreOf, Lasting, map_new

\* Commands make a store of a store.
LEMMA AppliedStore ==
  ASSUME NEW V, NEW cmds \in Seq(SoundCommand(V)), NEW t \in Nat, NEW m, StoreOf(m, V)
  PROVE  StoreOf(applied(m, cmds, t), V)
<1>1. Len(cmds) \in Nat /\ \A i \in 1..Len(cmds) : cmds[i] \in SoundCommand(V)
  BY LenProperties, ElementOfSeq
<1>2. PICK f : Run(f, m, cmds, Len(cmds), t)
  BY <1>1, RunExists
<1>3. \A i \in 0..Len(cmds) : StoreOf(f[i], V)
  BY <1>1, <1>2, RunStore
<1>4. applied(m, cmds, t) = f[Len(cmds)]
  BY <1>2, AppliedRun
<1> QED BY <1>1, <1>3, <1>4

\* A run of commands that no clock decides about is a run at any time, and
\* gives no entry a deadline.
LEMMA RunUntimed ==
  ASSUME NEW V, NEW n \in Nat, NEW cmds, \A i \in 1..n : cmds[i] \in PlainCommand(V),
         NEW t \in Nat, NEW u \in Nat, NEW m, StoreOf(m, V), Lasting(m),
         NEW f, Run(f, m, cmds, n, t)
  PROVE  /\ \A i \in 0..n : StoreOf(f[i], V) /\ Lasting(f[i])
         /\ Run(f, m, cmds, n, u)
<1>1. \A i \in 1..n : cmds[i] \in SoundCommand(V)
  BY DEF SoundCommand, PlainCommand, Sound
<1>2. \A i \in 0..n : StoreOf(f[i], V)
  BY <1>1, RunStore
<1> DEFINE T == {i \in Nat : i <= n => Lasting(f[i])}
<1>3. 0 \in T
  BY DEF Run
<1>4. ASSUME NEW i \in Nat, i \in T PROVE i + 1 \in T
  <2> SUFFICES ASSUME i + 1 <= n PROVE Lasting(f[i + 1])
    OBVIOUS
  <2>1. i + 1 \in 1..n /\ (i + 1) - 1 = i /\ i \in 0..n
    OBVIOUS
  <2>2. f[i + 1] = dispatch(f[i], cmds[i + 1], t).db
    BY <2>1 DEF Run
  <2>3. StoreOf(f[i], V) /\ Lasting(f[i])
    BY <1>2, <1>4, <2>1
  <2>4. cmds[i + 1] \in CommandOf(V) /\ cmds[i + 1].op \in Untimed
    BY <2>1 DEF PlainCommand
  <2> QED BY <2>2, <2>3, <2>4, DispatchUntimed
<1> HIDE DEF T
<1>5. \A i \in Nat : i \in T
  BY <1>3, <1>4, NumberInduction
<1>6. \A i \in 0..n : Lasting(f[i])
  BY <1>5 DEF T
<1>7. ASSUME NEW i \in 1..n PROVE f[i] = dispatch(f[i - 1], cmds[i], u).db
  <2>1. f[i] = dispatch(f[i - 1], cmds[i], t).db
    BY DEF Run
  <2>2. i - 1 \in 0..n
    OBVIOUS
  <2>3. StoreOf(f[i - 1], V) /\ Lasting(f[i - 1])
    BY <1>2, <1>6, <2>2
  <2>4. cmds[i] \in CommandOf(V) /\ cmds[i].op \in Untimed
    BY DEF PlainCommand
  <2>5. dispatch(f[i - 1], cmds[i], t) = dispatch(f[i - 1], cmds[i], u)
    BY <2>3, <2>4, DispatchUntimed
  <2> QED BY <2>1, <2>5
<1> QED BY <1>2, <1>6, <1>7 DEF Run

\* Commands without a time do the same whenever they are dispatched.
LEMMA AppliedUntimed ==
  ASSUME NEW V, NEW cmds \in Seq(PlainCommand(V)), NEW t \in Nat, NEW u \in Nat,
         NEW m, StoreOf(m, V), Lasting(m)
  PROVE  /\ StoreOf(applied(m, cmds, t), V) /\ Lasting(applied(m, cmds, t))
         /\ applied(m, cmds, t) = applied(m, cmds, u)
<1> DEFINE n == Len(cmds)
<1>1. n \in Nat /\ \A i \in 1..n : cmds[i] \in PlainCommand(V)
  BY LenProperties, ElementOfSeq
<1>2. PICK f : Run(f, m, cmds, n, t)
  BY <1>1, RunExists
<1>3. applied(m, cmds, t) = f[n]
  BY <1>2, AppliedRun
<1>4. /\ \A i \in 0..n : StoreOf(f[i], V) /\ Lasting(f[i])
      /\ Run(f, m, cmds, n, u)
  <2> HIDE DEF n
  <2> QED BY <1>1, <1>2, RunUntimed
<1>5. applied(m, cmds, u) = f[n]
  BY <1>4, AppliedRun
<1> QED BY <1>1, <1>3, <1>4, <1>5

-----------------------------------------------------------------------------
(* What a dump does                                                        *)

\* Without deadlines a shard's part of a dump is the command that makes its
\* key's entry, if there is one.
LEMMA DumpShape ==
  ASSUME NEW V, NEW m, StoreOf(m, V), Lasting(m), NEW k \in Keys, NEW t
  PROVE  LET c == command(IF m[k].type = "string" THEN "SET" ELSE "RPUSH", k, m[k].value, 0, 0)
         IN dump_shard(m, k, t) = IF k \in DOMAIN m THEN <<c>> ELSE <<>>
<1> DEFINE c == command(IF m[k].type = "string" THEN "SET" ELSE "RPUSH", k, m[k].value, 0, 0)
<1>1. k \in DOMAIN Visible(m, t) <=> k \in DOMAIN m
  BY DEF Visible, gone, Lasting
<1>2. k \in DOMAIN m => recreate(k, m[k]) = <<c>> \o <<>>
  BY DEF recreate, Lasting
<1>3. <<c>> \o <<>> = <<c>>
  <2>1. <<c>> \in Seq({c})
    OBVIOUS
  <2> HIDE DEF c
  <2> QED BY <2>1, ConcatEmptySeq
<1> QED BY <1>1, <1>2, <1>3 DEF dump_shard

\* That command gives back the entry, in a store without the key.
LEMMA DumpRestores ==
  ASSUME NEW V, NEW m, StoreOf(m, V), Lasting(m), NEW k \in DOMAIN m, NEW t,
         NEW c, c = command(IF m[k].type = "string" THEN "SET" ELSE "RPUSH", k, m[k].value, 0, 0),
         NEW r, StoreOf(r, V), Lasting(r), k \notin DOMAIN r
  PROVE  /\ c \in PlainCommand(V) /\ c.key = k
         /\ Same(k, dispatch(r, c, t).db, m)
<1> DEFINE e == m[k]
<1>1. k \in Keys /\ e \in EntryOf(V) /\ e.expire_at = None
  BY DEF StoreOf, Lasting
<1>2. c \in PlainCommand(V) /\ c.key = k /\ c.arg = e.value
  <2>1. c = [op |-> IF m[k].type = "string" THEN "SET" ELSE "RPUSH", key |-> k,
             arg |-> e.value, time |-> 0, id |-> 0]
    BY DEF command
  <2>2. e.value \in Seq(V) /\ e.value # <<>>
    BY <1>1 DEF EntryOf
  <2> HIDE DEF e
  <2> QED BY <1>1, <2>1, <2>2 DEF PlainCommand, CommandOf, Ops, Untimed
<1>3. live(r, k, t) = r
  BY Live
<1>4. c \in CommandOf(V)
  BY <1>2 DEF PlainCommand
<1>5. \A x : x = e => Same(k, written(r, k, x).db, m)
  BY DEF Same, written, map_insert
<1>6. CASE e.type = "string"
  <2>1. c.op = "SET"
    BY <1>6 DEF command
  <2>2. dispatch(r, c, t) = written(r, k, first("string", c))
    BY <1>2, <1>3, <1>4, <2>1, DispatchCases
  <2>3. first("string", c) = e
    BY <1>1, <1>2, <1>6 DEF first, EntryOf
  <2> QED BY <2>2, <2>3, <1>2, <1>5
<1>7. CASE e.type # "string"
  <2>1. c.op = "RPUSH"
    BY <1>7 DEF command
  <2>2. dispatch(r, c, t) = written(r, k, first(type_of(c), c))
    BY <1>2, <1>3, <1>4, <2>1, DispatchCases
  <2>3. first(type_of(c), c) = e
    BY <1>1, <1>2, <1>7, <2>1 DEF first, EntryOf, type_of
  <2> QED BY <2>2, <2>3, <1>2, <1>5
<1> QED BY <1>2, <1>6, <1>7

\* A dump visits one more shard: it then has the key of that shard, as the
\* store has it, and what it had of the other keys.
LEMMA DumpVisit ==
  ASSUME NEW V, NEW m, StoreOf(m, V), Lasting(m), NEW j \in Keys, NEW t,
         NEW dump \in Seq(PlainCommand(V)),
         NEW part, part = dump_shard(m, j, t),
         NEW d, d = applied(map_new, dump, 0),
         NEW dx, dx = applied(map_new, dump \o part, 0)
  PROVE  /\ dump \o part \in Seq(PlainCommand(V))
         /\ \A k : k # j => Same(k, dx, d)
         /\ j \notin DOMAIN d => Same(j, dx, m)
<1> DEFINE e == m[j]
           x == command(IF m[j].type = "string" THEN "SET" ELSE "RPUSH", j, m[j].value, 0, 0)
<1>1. part = IF j \in DOMAIN m THEN <<x>> ELSE <<>>
  BY DumpShape
<1>2. StoreOf(d, V) /\ Lasting(d)
  BY EmptyStore, AppliedUntimed
<1>3. CASE j \in DOMAIN m
  <2>1. x \in PlainCommand(V) /\ x.key = j /\ x \in CommandOf(V)
    <3>1. e \in EntryOf(V)
      BY <1>3 DEF StoreOf
    <3>2. x = command(IF e.type = "string" THEN "SET" ELSE "RPUSH", j, e.value, 0, 0)
      OBVIOUS
    <3>3. e.value \in Seq(V) /\ e.value # <<>>
      BY <3>1 DEF EntryOf
    <3> HIDE DEF e, x
    <3> QED BY <3>2, <3>3 DEF PlainCommand, CommandOf, command, Ops, Untimed
  <2>2. j \notin DOMAIN d => Same(j, dispatch(d, x, 0).db, m)
    BY <1>2, <1>3, DumpRestores
  <2>3. part = <<x>>
    BY <1>1, <1>3
  <2> HIDE DEF x
  <2>4. dump \o part = Append(dump, x)
    BY <2>1, <2>3, AppendIsConcat
  <2>5. dump \o part \in Seq(PlainCommand(V))
    BY <2>1, <2>4, AppendProperties
  <2>6. dx = dispatch(d, x, 0).db
    BY <2>1, <2>4, AppliedAppend
  <2>7. ASSUME NEW k, k # j PROVE Same(k, dx, d)
    BY <1>2, <2>1, <2>6, <2>7, DispatchLocal
  <2> QED BY <2>2, <2>5, <2>6, <2>7
<1>4. CASE j \notin DOMAIN m
  <2>1. part = <<>>
    BY <1>1, <1>4
  <2>2. dump \o part = dump
    BY <2>1, ConcatEmptySeq
  <2>3. dx = d
    BY <2>2
  <2> QED BY <1>4, <2>2, <2>3 DEF Same
<1> QED BY <1>3, <1>4

=============================================================================
