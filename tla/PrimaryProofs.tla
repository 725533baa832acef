---------------------------- MODULE PrimaryProofs ---------------------------
(***************************************************************************)
(* What holds of a primary with its log and its replicas (Primary.tla),    *)
(* for any number of connections, replicas, keys, requests and faults.     *)
(***************************************************************************)
EXTENDS Primary, DatasetProofs

-----------------------------------------------------------------------------
(* The inductive invariants                                                *)

\* The clients send no command that a clock decides about.
Plainly == \A c \in Conns : \A q \in Requests[c] : q[1] \in Untimed

\* No two connections write the same key.
OneWriter ==
  \A c, d \in Conns : \A q \in Requests[c], p \in Requests[d] : c # d => q[2] # p[2]

Frags == 1..MaxWrites

Cmds == {c \in Command : Sound(c) /\ (Plainly => c.op \in Untimed)}

Pieces == [part : {"whole", "head", "tail"}, cmd : Cmds]

IsGoodStore(m) == StoreOf(m, Frags) /\ (Plainly => Lasting(m))

ConnRec == [pc : {"ready", "persist", "propagate"}, cmd : Cmds \cup {None},
            out : SUBSET Frags, quit : BOOLEAN]

SyncRec == [at : {"down", "dump", "live"}, next : 1..(Len(Shards) + 1),
            dump : Seq(Cmds), time : Nat]

\* The connections between the store and the end of propagation.
Pending == {c \in Conns : conn[c].pc # "ready"}

\* A connection past the store has a write of its own client at hand.
ConnOK(c) ==
  /\ conn[c].pc # "ready" =>
       /\ conn[c].cmd \in Cmds /\ conn[c].cmd.id > 0
       /\ \E q \in Requests[c] : conn[c].cmd.key = q[2]
  /\ conn[c].out \subseteq 1..used.writes

\* A dump has at most two commands for each shard visited; nothing is in the
\* stream of a replica before it is registered.
SyncOK(r) ==
  /\ sync[r].at = "dump" => chan[r] = <<>>
  /\ Len(sync[r].dump) <= 2 * (sync[r].next - 1)

\* Every command in a stream is from its dump or from a request.
StreamOK(r) ==
  Len(chan[r]) + Cardinality(Pending) <= used.writes + 2 * Len(Shards)

StoresInv ==
  /\ IsGoodStore(db) /\ now \in 0..MaxTime
  /\ DOMAIN rdb = Replicas /\ \A r \in Replicas : IsGoodStore(rdb[r])

ConnsInv ==
  /\ used \in [writes : 0..MaxWrites, faults : 0..MaxFaults]
  /\ conn \in [Conns -> ConnRec] /\ \A c \in Conns : ConnOK(c)
  /\ Cardinality(Pending) <= used.writes
  /\ acked \subseteq 1..used.writes

FilesInv == aof \in Seq(Pieces) /\ buf \in Seq(Pieces)

SyncInv ==
  /\ sync \in [Replicas -> SyncRec] /\ chan \in [Replicas -> Seq(Cmds)]
  /\ DOMAIN raced = Replicas
  /\ \A r \in Replicas : SyncOK(r) /\ StreamOK(r)

TypeInv ==
  /\ StoresInv /\ ConnsInv /\ FilesInv /\ SyncInv
  /\ dead \in BOOLEAN /\ appendonly \in BOOLEAN /\ lost \subseteq Keys

-----------------------------------------------------------------------------
\* Every piece of the file and of the BufWriter is a whole command.
WholeFile(file) == \A i \in DOMAIN file : file[i].part = "whole"

\* The requests in a file of whole commands.
Ids(file) == {file[i].cmd.id : i \in DOMAIN file}

\* The write of a connection whose append is still to come, or has failed.
Unlogged(d) == IF d.pc = "persist" \/ d.quit THEN {d.cmd.id} ELSE {}

\* A reply in an output buffer is to a write that is in the file, except for
\* that one.
AckInv ==
  /\ WholeFile(aof) /\ WholeFile(buf)
  /\ appendonly =>
       /\ acked \subseteq Ids(aof)
       /\ \A c \in Conns : conn[c].out \subseteq Ids(aof) \cup Unlogged(conn[c])

-----------------------------------------------------------------------------
\* The store that the log gives.
Restored == replay(commands(aof \o buf), now)

\* The command each connection has at hand, and the connections whose command
\* is still to be appended.
Held == [c \in Conns |-> conn[c].cmd]

Appending == {c \in Conns : conn[c].pc = "persist"}

\* m gives k what the store d has, once the commands q of the connections S
\* are dispatched too.
Covers(k, m, d, q, S, t) ==
  /\ (\A c \in S : q[c].key # k) => Same(k, m, d)
  /\ \A c \in S : q[c].key = k => Same(k, dispatch(m, q[c], t).db, d)

\* The log gives every key what the store has, once the command that waits to
\* be appended, if there is one, is dispatched too; but for the keys of which
\* write_all lost a command.
LogInv ==
  appendonly => \A k \in Keys \ lost : Covers(k, Restored, db, Held, Appending, now)

-----------------------------------------------------------------------------
\* The store that r will have when it has read what is on its way, and the one
\* that the dump made so far gives.  (No clock decides about either.)
End(r) == applied(rdb[r], chan[r], 0)

DumpEnd(r) == applied(map_new, sync[r].dump, 0)

\* During a dump: no write to k is on its way, and the dump has k as the store
\* has it once k's shard was visited, and not before.
Dumping(r, k) ==
  /\ \A c \in Pending : Held[c].key # k
  /\ rdb[r] = map_new
  /\ \A i \in DOMAIN Shards : Shards[i] = k =>
       IF i < sync[r].next THEN Same(k, DumpEnd(r), db) ELSE k \notin DOMAIN DumpEnd(r)

ReplicaOK(r, k) ==
  /\ sync[r].at = "dump" => Dumping(r, k)
  /\ sync[r].at = "live" => Covers(k, End(r), db, Held, Pending, 0)

\* What a replica has and has been sent gives it what the primary has under
\* every key that was not written to during its SYNC, once the command that
\* is on its way to the replicas, if there is one, is dispatched too.
ReplicaInv == \A r \in Replicas : \A k \in Keys \ raced[r] : ReplicaOK(r, k)

-----------------------------------------------------------------------------
(* What a start reads of the file                                          *)

\* f is the sequence of the lists of commands that commands(file) builds.
Kept(f, file, n) ==
  f = [i \in 0..n |-> IF i = 0 THEN <<>>
                      ELSE IF file[i].part = "head" THEN f[i - 1]
                      ELSE Append(f[i - 1], file[i].cmd)]

\* There is such a sequence.
LEMMA KeptExists ==
  ASSUME NEW file, NEW n \in Nat
  PROVE  \E f : Kept(f, file, n)
<1> DEFINE next(x, i) == IF file[i].part = "head" THEN x ELSE Append(x, file[i].cmd)
           T == {i \in Nat : \E f : Kept(f, file, i)}
<1>1. 0 \in T
  <2> DEFINE f == [i \in 0..0 |-> <<>>]
  <2>1. Kept(f, file, 0)
    BY DEF Kept
  <2> QED BY <2>1
<1>2. ASSUME NEW i \in Nat, i \in T PROVE i + 1 \in T
  <2>1. PICK f : Kept(f, file, i)
    BY <1>2
  <2> DEFINE g == [j \in 0..(i + 1) |-> IF j <= i THEN f[j] ELSE next(f[i], i + 1)]
  <2> HIDE DEF next
  <2>2. \A j \in 0..i : f[j] = IF j = 0 THEN <<>> ELSE next(f[j - 1], j)
    BY <2>1 DEF Kept, next
  <2>3. ASSUME NEW j \in 0..(i + 1)
        PROVE  g[j] = IF j = 0 THEN <<>> ELSE next(g[j - 1], j)
    <3>1. CASE j = 0
      BY <2>2, <3>1
    <3>2. CASE j # 0 /\ j <= i
      <4>1. g[j] = f[j] /\ g[j - 1] = f[j - 1] /\ j \in 0..i
        BY <3>2
      <4> HIDE DEF g
      <4> QED BY <2>2, <3>2, <4>1
    <3>3. CASE ~(j <= i)
      <4>1. j = i + 1 /\ j - 1 = i
        BY <3>3
      <4>2. g[j] = next(f[i], j) /\ g[j - 1] = f[i] /\ j # 0
        BY <4>1
      <4> HIDE DEF g
      <4> QED BY <4>2
    <3> QED BY <3>1, <3>2, <3>3
  <2>4. g = [j \in 0..(i + 1) |-> g[j]]
    OBVIOUS
  <2> HIDE DEF g
  <2>5. g = [j \in 0..(i + 1) |-> IF j = 0 THEN <<>> ELSE next(g[j - 1], j)]
    BY <2>3, <2>4, Zenon
  <2>6. Kept(g, file, i + 1)
    BY <2>5 DEF Kept, next
  <2> QED BY <2>6
<1> HIDE DEF T
<1>3. n \in T
  BY <1>1, <1>2, NumberInduction
<1> QED BY <1>3 DEF T

\* commands(file) is the last of them.
LEMMA CommandsKept ==
  ASSUME NEW file, Cardinality(readable(file)) \in Nat
  PROVE  \E f : /\ Kept(f, file, Cardinality(readable(file)))
                /\ commands(file) = f[Cardinality(readable(file))]
<1> DEFINE n == Cardinality(readable(file))
           g == CHOOSE f : Kept(f, file, n)
<1>1. commands(file) = g[n]
  BY DEF commands, Kept
<1>2. Kept(g, file, n)
  <2> HIDE DEF n
  <2>1. n \in Nat
    BY DEF n
  <2>2. \E f : Kept(f, file, n)
    BY <2>1, KeptExists
  <2> QED BY <2>2, Zenon
<1> QED BY <1>1, <1>2, Zenon

\* A start reads a part of the file, and all of one with whole commands only.
LEMMA ReadableCount ==
  ASSUME NEW S, NEW file \in Seq(S)
  PROVE  /\ Cardinality(readable(file)) \in 0..Len(file)
         /\ WholeFile(file) => Cardinality(readable(file)) = Len(file)
<1>1. Len(file) \in Nat /\ DOMAIN file = 1..Len(file)
  BY LenProperties
<1>2. IsFiniteSet(1..Len(file)) /\ Cardinality(1..Len(file)) = Len(file)
  BY <1>1, FS_Interval
<1>3. readable(file) \in SUBSET (1..Len(file))
  BY <1>1 DEF readable
<1>4. IsFiniteSet(readable(file)) /\ Cardinality(readable(file)) <= Len(file)
  BY <1>2, <1>3, FS_Subset
<1>5. Cardinality(readable(file)) \in Nat
  BY <1>4, FS_CardinalityType
<1>6. ASSUME WholeFile(file) PROVE readable(file) = 1..Len(file)
  BY <1>1, <1>6 DEF readable, broken, WholeFile
<1> QED BY <1>1, <1>2, <1>4, <1>5, <1>6

\* What it reads are commands.
LEMMA CommandsType ==
  ASSUME NEW file \in Seq(Pieces)
  PROVE  commands(file) \in Seq(Cmds)
<1> DEFINE n == Cardinality(readable(file))
<1>1. n \in Nat /\ n <= Len(file) /\ Len(file) \in Nat
  BY ReadableCount, LenProperties
<1>2. PICK f : Kept(f, file, n) /\ commands(file) = f[n]
  BY <1>1, CommandsKept
<1> HIDE DEF n
<1> DEFINE T == {i \in Nat : i <= n => f[i] \in Seq(Cmds)}
<1>3. 0 \in T
  <2>1. f[0] = <<>>
    BY <1>1, <1>2 DEF Kept
  <2> QED BY <2>1, EmptySeq
<1>4. ASSUME NEW i \in Nat, i \in T PROVE i + 1 \in T
  <2> SUFFICES ASSUME i + 1 <= n PROVE f[i + 1] \in Seq(Cmds)
    OBVIOUS
  <2>1. f[i] \in Seq(Cmds)
    BY <1>1, <1>4
  <2>2. i + 1 \in 0..n /\ i + 1 # 0 /\ (i + 1) - 1 = i /\ i + 1 \in 1..Len(file)
    BY <1>1
  <2>3. f[i + 1] = IF file[i + 1].part = "head" THEN f[i] ELSE Append(f[i], file[i + 1].cmd)
    BY <1>2, <2>2 DEF Kept
  <2>4. file[i + 1].cmd \in Cmds
    <3>1. file[i + 1] \in Pieces
      BY <2>2, ElementOfSeq
    <3> QED BY <3>1 DEF Pieces
  <2>5. Append(f[i], file[i + 1].cmd) \in Seq(Cmds)
    BY <2>1, <2>4, AppendProperties
  <2> QED BY <2>1, <2>3, <2>5
<1> HIDE DEF T
<1>5. n \in T
  BY <1>1, <1>3, <1>4, NumberInduction
<1> QED BY <1>1, <1>2, <1>5 DEF T

\* From a file of whole commands a start reads every one of them.
LEMMA CommandsWhole ==
  ASSUME NEW file \in Seq(Pieces), WholeFile(file)
  PROVE  commands(file) = [i \in 1..Len(file) |-> file[i].cmd]
<1> DEFINE n == Len(file)
           upto(i) == [j \in 1..i |-> file[j].cmd]
<1>1. n \in Nat /\ Cardinality(readable(file)) = n
  BY ReadableCount, LenProperties
<1>2. PICK f : Kept(f, file, n) /\ commands(file) = f[n]
  BY <1>1, CommandsKept
<1>3. \A j \in 1..n : file[j].cmd \in Cmds /\ file[j].part # "head"
  <2>1. \A j \in 1..n : file[j] \in Pieces
    BY ElementOfSeq
  <2>2. DOMAIN file = 1..n
    BY LenProperties
  <2> QED BY <2>1, <2>2 DEF Pieces, WholeFile
<1> HIDE DEF n
<1> DEFINE T == {i \in Nat : i <= n => f[i] = upto(i)}
<1>4. 0 \in T
  <2>1. f[0] = <<>>
    BY <1>1, <1>2 DEF Kept
  <2>2. upto(0) = <<>>
    BY SMT
  <2> QED BY <2>1, <2>2
<1>5. ASSUME NEW i \in Nat, i \in T PROVE i + 1 \in T
  <2> SUFFICES ASSUME i + 1 <= n PROVE f[i + 1] = upto(i + 1)
    OBVIOUS
  <2>1. f[i] = upto(i)
    BY <1>1, <1>5
  <2>2. i + 1 \in 0..n /\ i + 1 # 0 /\ (i + 1) - 1 = i /\ i + 1 \in 1..n
    BY <1>1
  <2>3. f[i + 1] = Append(f[i], file[i + 1].cmd)
    BY <1>2, <1>3, <2>2 DEF Kept
  <2>4. upto(i) \in Seq(Cmds) /\ Len(upto(i)) = i
    BY <1>1, <1>3
  <2>5. upto(i + 1) \in Seq(Cmds) /\ Len(upto(i + 1)) = i + 1
    BY <1>1, <1>3
  <2>6. /\ Append(upto(i), file[i + 1].cmd) \in Seq(Cmds)
        /\ Len(Append(upto(i), file[i + 1].cmd)) = i + 1
        /\ \A j \in 1..i : Append(upto(i), file[i + 1].cmd)[j] = upto(i)[j]
        /\ Append(upto(i), file[i + 1].cmd)[i + 1] = file[i + 1].cmd
    <3> DEFINE u == upto(i)
    <3> HIDE DEF u
    <3>1. u \in Seq(Cmds) /\ Len(u) = i /\ file[i + 1].cmd \in Cmds
      BY <1>3, <2>2, <2>4 DEF u
    <3>2. /\ Append(u, file[i + 1].cmd) \in Seq(Cmds)
          /\ Len(Append(u, file[i + 1].cmd)) = i + 1
          /\ \A j \in 1..i : Append(u, file[i + 1].cmd)[j] = u[j]
          /\ Append(u, file[i + 1].cmd)[i + 1] = file[i + 1].cmd
      BY <3>1, AppendProperties
    <3> QED BY <3>2 DEF u
  <2>7. \A j \in 1..(i + 1) : Append(upto(i), file[i + 1].cmd)[j] = upto(i + 1)[j]
    <3> SUFFICES ASSUME NEW j \in 1..(i + 1)
                 PROVE  Append(upto(i), file[i + 1].cmd)[j] = upto(i + 1)[j]
      OBVIOUS
    <3>1. upto(i + 1)[j] = file[j].cmd
      OBVIOUS
    <3>2. j \in 1..i => upto(i)[j] = file[j].cmd
      OBVIOUS
    <3>3. j \in 1..i \/ j = i + 1
      OBVIOUS
    <3> HIDE DEF upto
    <3> QED BY <3>1, <3>2, <3>3, <2>6
  <2> HIDE DEF upto
  <2>8. Append(upto(i), file[i + 1].cmd) = upto(i + 1)
    BY <2>5, <2>6, <2>7, SeqEqual
  <2> QED BY <2>1, <2>3, <2>8
<1> HIDE DEF T
<1>6. n \in T
  BY <1>1, <1>4, <1>5, NumberInduction
<1>7. commands(file) = upto(n)
  BY <1>1, <1>2, <1>6 DEF T
<1> QED BY <1>7 DEF n

-----------------------------------------------------------------------------
(* Stores and commands of the right kind                                   *)

\* The bounds are numbers.
LEMMA Bounds ==
  /\ ChanCap \in Nat /\ MaxWrites \in Nat /\ MaxFaults \in Nat /\ MaxTime \in Nat
  /\ Len(Shards) \in Nat /\ DOMAIN Shards = 1..Len(Shards)
  /\ \A i \in 1..Len(Shards) : Shards[i] \in Keys
<1>1. Shards \in Seq(Keys)
  BY PrimaryAssumption
<1> QED BY <1>1, LenProperties, ElementOfSeq, PrimaryAssumption

\* Commands here are commands of Dataset.
LEMMA CmdsSound ==
  /\ Cmds \subseteq SoundCommand(Frags)
  /\ Plainly => Cmds \subseteq PlainCommand(Frags)
<1>1. Command \subseteq CommandOf(Frags)
  BY Bounds DEF Command, CommandOf, Frags
<1>2. Cmds \subseteq SoundCommand(Frags)
  BY <1>1 DEF Cmds, SoundCommand
<1>3. ASSUME Plainly, NEW c \in Cmds PROVE c \in PlainCommand(Frags)
  <2>1. c \in CommandOf(Frags) /\ Sound(c) /\ c.op \in Untimed
    BY <1>1, <1>3 DEF Cmds
  <2>2. c.arg # <<>>
    BY <2>1 DEF Sound, Untimed
  <2> QED BY <2>1, <2>2 DEF PlainCommand
<1> QED BY <1>2, <1>3

(* What a command leaves of a good store is one, and it says whether it is
   to be logged. *)
LEMMA DispatchGood ==
  ASSUME NEW m, IsGoodStore(m), NEW c \in Cmds, NEW t \in Nat
  PROVE  IsGoodStore(dispatch(m, c, t).db) /\ dispatch(m, c, t).persist \in BOOLEAN
<1>1. c \in CommandOf(Frags) /\ Sound(c)
  BY CmdsSound DEF SoundCommand
<1>2. StoreOf(m, Frags)
  BY DEF IsGoodStore
<1>3. StoreOf(dispatch(m, c, t).db, Frags) /\ dispatch(m, c, t).persist \in BOOLEAN
  BY <1>1, <1>2, DispatchStore
<1>4. ASSUME Plainly PROVE Lasting(dispatch(m, c, t).db)
  <2>1. c.op \in Untimed /\ Lasting(m)
    BY <1>4 DEF Cmds, IsGoodStore
  <2> QED BY <1>1, <1>2, <2>1, DispatchUntimed
<1> QED BY <1>3, <1>4 DEF IsGoodStore

(* A run of commands leaves a good store. *)
LEMMA AppliedGood ==
  ASSUME NEW m, IsGoodStore(m), NEW cmds \in Seq(Cmds), NEW t \in Nat
  PROVE  IsGoodStore(applied(m, cmds, t))
<1>1. cmds \in Seq(SoundCommand(Frags))
  BY CmdsSound, SeqMonotonic
<1>2. StoreOf(m, Frags)
  BY DEF IsGoodStore
<1>3. StoreOf(applied(m, cmds, t), Frags)
  BY <1>1, <1>2, AppliedStore
<1>4. ASSUME Plainly PROVE Lasting(applied(m, cmds, t))
  <2>1. cmds \in Seq(PlainCommand(Frags))
    BY <1>4, CmdsSound, SeqMonotonic
  <2>2. Lasting(m)
    BY <1>4 DEF IsGoodStore
  <2> QED BY <1>2, <2>1, <2>2, AppliedUntimed
<1> QED BY <1>3, <1>4 DEF IsGoodStore

(* The empty store is good. *)
LEMMA EmptyGood == IsGoodStore(map_new)
BY EmptyStore DEF IsGoodStore

(* What a start or a new replica builds from commands is a good store. *)
LEMMA ReplayGood ==
  ASSUME NEW cmds \in Seq(Cmds), NEW t \in Nat
  PROVE  IsGoodStore(replay(cmds, t))
<1>1. replay(cmds, t) = applied(map_new, cmds, t)
  BY ReplayApplied
<1> QED BY <1>1, EmptyGood, AppliedGood

\* A shard's part of a dump has at most two commands.
LEMMA DumpGood ==
  ASSUME NEW m, IsGoodStore(m), NEW k \in Keys, NEW t
  PROVE  dump_shard(m, k, t) \in Seq(Cmds) /\ Len(dump_shard(m, k, t)) <= 2
<1>1. <<>> \in Seq(Cmds) /\ Len(<<>>) = 0
  BY EmptySeq
<1>2. ASSUME k \in DOMAIN m
      PROVE  recreate(k, m[k]) \in Seq(Cmds) /\ Len(recreate(k, m[k])) <= 2
  <2> DEFINE e == m[k]
             make == command(IF e.type = "string" THEN "SET" ELSE "RPUSH", k, e.value, 0, 0)
             expire == command("PEXPIREAT", k, <<>>, e.expire_at, 0)
             tail == IF e.expire_at = None THEN <<>> ELSE <<expire>>
  <2>1. e \in EntryOf(Frags) /\ (Plainly => e.expire_at = None)
    BY <1>2 DEF IsGoodStore, StoreOf, Lasting
  <2>2. recreate(k, m[k]) = <<make>> \o tail
    BY DEF recreate
  <2> HIDE DEF e
  <2>3. make \in Cmds
    <3>1. e.value \in Seq(Frags) /\ e.value # <<>>
      BY <2>1 DEF EntryOf
    <3> QED BY <3>1, Bounds DEF Cmds, Command, command, Sound, Ops, Untimed, Frags
  <2>4. e.expire_at # None => expire \in Cmds
    <3>1. e.expire_at # None => e.expire_at \in Nat /\ ~Plainly
      BY <2>1 DEF EntryOf
    <3>2. <<>> \in Seq(Frags)
      BY EmptySeq
    <3> QED BY <3>1, <3>2, Bounds DEF Cmds, Command, command, Sound, Ops, Frags
  <2> HIDE DEF make, expire
  <2>5. <<make>> \in Seq(Cmds) /\ Len(<<make>>) = 1
    BY <2>3
  <2>6. tail \in Seq(Cmds) /\ Len(tail) <= 1
    BY <2>4, <1>1
  <2> HIDE DEF tail
  <2>7. Len(tail) \in Nat
    BY <2>6, LenProperties
  <2>8. <<make>> \o tail \in Seq(Cmds) /\ Len(<<make>> \o tail) = 1 + Len(tail)
    BY <2>5, <2>6, ConcatProperties
  <2> QED BY <2>2, <2>6, <2>7, <2>8
<1>3. k \in DOMAIN Visible(m, t) => k \in DOMAIN m
  BY DEF Visible
<1> QED BY <1>1, <1>2, <1>3 DEF dump_shard

\* What a failing write leaves are pieces.
LEMMA CutsType ==
  ASSUME NEW p \in Seq(Pieces), NEW cut \in cuts(p)
  PROVE  cut[1] \in Seq(Pieces) /\ cut[2] \in Seq(Pieces)
<1>1. Len(p) \in Nat /\ \A i \in 1..Len(p) : p[i] \in Pieces
  BY LenProperties, ElementOfSeq
<1>2. \A a \in 1..(Len(p) + 1) : \A b \in 0..Len(p) : SubSeq(p, a, b) \in Seq(Pieces)
  BY <1>1, SubSeqProperties
<1>3. \A i \in 1..Len(p) : piece("head", p[i].cmd) \in Pieces /\ piece("tail", p[i].cmd) \in Pieces
  BY <1>1 DEF piece, Pieces
<1>4. CASE \E n \in 0..(Len(p) - 1) : cut = <<SubSeq(p, 1, n), SubSeq(p, n + 1, Len(p))>>
  <2>1. PICK n \in 0..(Len(p) - 1) : cut = <<SubSeq(p, 1, n), SubSeq(p, n + 1, Len(p))>>
    BY <1>4
  <2>2. SubSeq(p, 1, n) \in Seq(Pieces) /\ SubSeq(p, n + 1, Len(p)) \in Seq(Pieces)
    <3>1. 1 \in 1..(Len(p) + 1) /\ n \in 0..Len(p) /\ n + 1 \in 1..(Len(p) + 1) /\ Len(p) \in 0..Len(p)
      BY <1>1
    <3> QED BY <1>2, <3>1
  <2> QED BY <2>1, <2>2
<1>5. CASE \E n \in 0..(Len(p) - 1) :
             cut = <<Append(SubSeq(p, 1, n), piece("head", p[n + 1].cmd)),
                     <<piece("tail", p[n + 1].cmd)>> \o SubSeq(p, n + 2, Len(p))>>
  <2>1. PICK n \in 0..(Len(p) - 1) :
             cut = <<Append(SubSeq(p, 1, n), piece("head", p[n + 1].cmd)),
                     <<piece("tail", p[n + 1].cmd)>> \o SubSeq(p, n + 2, Len(p))>>
    BY <1>5
  <2> DEFINE h == piece("head", p[n + 1].cmd)
             l == piece("tail", p[n + 1].cmd)
             a == SubSeq(p, 1, n)
             b == SubSeq(p, n + 2, Len(p))
  <2>2. a \in Seq(Pieces) /\ b \in Seq(Pieces)
    <3>1. 1 \in 1..(Len(p) + 1) /\ n \in 0..Len(p) /\ n + 2 \in 1..(Len(p) + 1) /\ Len(p) \in 0..Len(p)
      BY <1>1
    <3> QED BY <1>2, <3>1
  <2>3. h \in Pieces /\ l \in Pieces
    <3>1. n + 1 \in 1..Len(p)
      BY <1>1
    <3> QED BY <1>3, <3>1
  <2>4. cut[1] = Append(a, h) /\ cut[2] = <<l>> \o b
    BY <2>1
  <2> HIDE DEF a, b, h, l
  <2>5. Append(a, h) \in Seq(Pieces)
    BY <2>2, <2>3, AppendProperties
  <2>6. <<l>> \in Seq(Pieces)
    BY <2>3
  <2>7. <<l>> \o b \in Seq(Pieces)
    BY <2>2, <2>6, ConcatProperties
  <2> QED BY <2>4, <2>5, <2>7
<1> QED BY <1>4, <1>5 DEF cuts

\* A failing write that does not tear a command loses and adds nothing.
LEMMA CutsWhole ==
  ASSUME ~Torn, NEW p \in Seq(Pieces), NEW cut \in cuts(p)
  PROVE  cut[1] \o cut[2] = p
<1>1. PICK n \in 0..(Len(p) - 1) : cut = <<SubSeq(p, 1, n), SubSeq(p, n + 1, Len(p))>>
  BY DEF cuts
<1>2. Len(p) \in Nat
  BY LenProperties
<1>3. SubSeq(p, 1, n) \o SubSeq(p, n + 1, Len(p)) = SubSeq(p, 1, Len(p))
  <2>1. 1 \in 1..(Len(p) + 1) /\ n \in (1 - 1)..Len(p) /\ Len(p) \in n..Len(p)
    BY <1>2
  <2> QED BY <2>1, ConcatAdjacentSubSeq
<1>4. SubSeq(p, 1, Len(p)) = p
  BY SubSeqFull
<1> QED BY <1>1, <1>3, <1>4

\* What a failing write_all leaves are pieces.
LEMMA DropsType ==
  ASSUME NEW b \in Seq(Pieces), NEW x \in Cmds, NEW cut \in drops(b, x)
  PROVE  cut[1] \in Seq(Pieces) /\ cut[2] \in Seq(Pieces)
<1>1. CASE cut \in cuts(b)
  BY <1>1, CutsType
<1>2. CASE cut = <<b, <<>>>>
  BY <1>2, EmptySeq
<1>3. CASE cut = <<Append(b, piece("head", x)), <<>>>>
  <2>1. piece("head", x) \in Pieces
    BY DEF piece, Pieces
  <2>2. Append(b, piece("head", x)) \in Seq(Pieces)
    BY <2>1, AppendProperties
  <2> QED BY <1>3, <2>2, EmptySeq
<1> QED BY <1>1, <1>2, <1>3 DEF drops

\* If it does not tear the command, it leaves what was there before.
LEMMA DropsWhole ==
  ASSUME ~Torn, NEW b \in Seq(Pieces), NEW x, NEW cut \in drops(b, x)
  PROVE  cut[1] \o cut[2] = b
<1>1. CASE cut \in cuts(b)
  BY <1>1, CutsWhole
<1>2. CASE cut = <<b, <<>>>>
  BY <1>2, ConcatEmptySeq
<1> QED BY <1>1, <1>2 DEF drops

-----------------------------------------------------------------------------
(* The variables keep their types                                          *)

\* The connections on their way are finitely many.
LEMMA PendingFinite ==
  /\ IsFiniteSet(Pending) /\ Cardinality(Pending) \in Nat
  /\ IsFiniteSet(Pending') /\ Cardinality(Pending') \in Nat
<1>1. IsFiniteSet(Conns)
  BY PrimaryAssumption
<1>2. Pending \in SUBSET Conns /\ Pending' \in SUBSET Conns
  BY DEF Pending
<1>3. IsFiniteSet(Pending) /\ IsFiniteSet(Pending')
  BY <1>1, <1>2, FS_Subset
<1> QED BY <1>3, FS_CardinalityType

(* The initial state is typed. *)
LEMMA InitType == Init => TypeInv
<1> SUFFICES ASSUME Init PROVE TypeInv
  OBVIOUS
<1>1. <<>> \in Seq(Cmds) /\ <<>> \in Seq(Pieces) /\ Len(<<>>) = 0
  BY EmptySeq
<1>2. StoresInv
  BY EmptyGood, Bounds DEF Init, StoresInv
<1>3. Pending = {}
  BY DEF Pending, Init, idle
<1>4. ConnsInv
  BY <1>3, FS_EmptySet, Bounds DEF Init, ConnsInv, ConnOK, ConnRec, idle
<1>5. SyncInv
  BY <1>1, <1>3, FS_EmptySet, Bounds DEF Init, SyncInv, SyncOK, StreamOK, SyncRec, nosync
<1> QED BY <1>1, <1>2, <1>4, <1>5, PrimaryAssumption DEF Init, TypeInv, FilesInv

\* A connection takes up a request.
LEMMA ExecuteType ==
  ASSUME TypeInv, NEW c \in Conns, Execute(c)
  PROVE  TypeInv'
<1>1. PICK q \in Requests[c] :
        LET id == used.writes + 1
            cmd == command(q[1], q[2], <<id>>, q[3], id)
            outcome == dispatch(db, cmd, now)
        IN /\ db' = outcome.db
           /\ conn' = [conn EXCEPT ![c] =
                  IF outcome.persist
                  THEN [conn[c] EXCEPT !.pc = "persist", !.cmd = cmd,
                                        !.out = @ \cup {id}]
                  ELSE conn[c]]
           /\ raced' = [r \in Replicas |->
                  IF sync[r].at = "dump" THEN raced[r] \cup {cmd.key} ELSE raced[r]]
           /\ used' = [used EXCEPT !.writes = id]
  BY DEF Execute
<1> DEFINE id == used.writes + 1
           cmd == command(q[1], q[2], <<id>>, q[3], id)
           outcome == dispatch(db, cmd, now)
<1>2. /\ conn[c].pc = "ready" /\ used.writes < MaxWrites
      /\ UNCHANGED <<appendonly, now, aof, buf, sync, dead, chan, rdb, acked, lost>>
  BY DEF Execute
<1>3. /\ used \in [writes : 0..MaxWrites, faults : 0..MaxFaults]
      /\ id \in 1..MaxWrites /\ MaxWrites \in Nat /\ now \in Nat
  BY <1>2, Bounds DEF TypeInv, ConnsInv, StoresInv
<1>4. used'.writes = id /\ used' \in [writes : 0..MaxWrites, faults : 0..MaxFaults]
  BY <1>1, <1>3
<1>5. cmd \in Cmds /\ cmd.id = id /\ cmd.key = q[2]
  <2>1. q \in Ops \X Keys \X Nat
    BY PrimaryAssumption
  <2>2. q[1] \in Ops /\ q[2] \in Keys /\ q[3] \in Nat /\ (Plainly => q[1] \in Untimed)
    BY <2>1 DEF Plainly
  <2>3. <<id>> \in Seq(1..MaxWrites) /\ <<id>> # <<>>
    BY <1>3
  <2>4. id \in 0..MaxWrites
    BY <1>3
  <2> HIDE DEF id
  <2> QED BY <2>2, <2>3, <2>4 DEF Cmds, Command, command, Sound
<1> HIDE DEF cmd
<1>6. IsGoodStore(db') /\ outcome.persist \in BOOLEAN
  BY <1>1, <1>3, <1>5, DispatchGood DEF TypeInv, StoresInv, cmd
<1>7. StoresInv'
  BY <1>2, <1>6 DEF TypeInv, StoresInv
<1> HIDE DEF outcome
<1> DEFINE filled == [conn[c] EXCEPT !.pc = "persist", !.cmd = cmd,
                                     !.out = conn[c].out \cup {id}]
           new == IF outcome.persist THEN filled ELSE conn[c]
<1>8. conn \in [Conns -> ConnRec] /\ conn' = [conn EXCEPT ![c] = new]
  <2>1. conn' = [conn EXCEPT ![c] = new]
    BY <1>1, Zenon DEF outcome, cmd
  <2> QED BY <2>1 DEF TypeInv, ConnsInv
<1> HIDE DEF new
<1>9. /\ \A d \in Conns : d # c => conn'[d] = conn[d]
      /\ conn'[c] = new /\ conn' = [d \in Conns |-> conn'[d]]
  BY <1>8
<1>10. conn[c] \in ConnRec /\ conn[c].out \subseteq 1..used.writes
  BY <1>8 DEF TypeInv, ConnsInv, ConnOK
<1>11. /\ conn'[c] \in ConnRec
       /\ conn'[c].out \subseteq 1..id
       /\ conn'[c].pc # "ready" => conn'[c].cmd = cmd
       /\ conn'[c].pc # "ready" <=> outcome.persist
  <2>1. CASE outcome.persist
    <3>1. filled.pc = "persist" /\ filled.cmd = cmd /\ filled.out = conn[c].out \cup {id}
      BY <1>10 DEF ConnRec
    <3>2. conn[c].out \cup {id} \in SUBSET (1..MaxWrites)
      BY <1>3, <1>10
    <3>3. filled \in ConnRec
      BY <1>5, <1>10, <3>2 DEF ConnRec, Frags
    <3>4. conn[c].out \cup {id} \subseteq 1..id
      BY <1>3, <1>10
    <3>5. conn'[c] = filled
      BY <1>9, <2>1 DEF new
    <3> HIDE DEF filled
    <3> QED BY <2>1, <3>1, <3>3, <3>4, <3>5
  <2>2. CASE ~outcome.persist
    <3>1. conn'[c] = conn[c]
      BY <1>9, <2>2 DEF new
    <3> QED BY <1>2, <1>3, <1>10, <2>2, <3>1
  <2> QED BY <2>1, <2>2
<1>12. conn' \in [Conns -> ConnRec]
  BY <1>8, <1>9, <1>11
<1>13. \A d \in Conns : ConnOK(d)'
  <2> SUFFICES ASSUME NEW d \in Conns PROVE ConnOK(d)'
    OBVIOUS
  <2>1. CASE d = c
    BY <1>3, <1>4, <1>5, <1>11, <2>1 DEF ConnOK
  <2>2. CASE d # c
    <3>1. ConnOK(d) /\ conn'[d] = conn[d]
      BY <1>9, <2>2 DEF TypeInv, ConnsInv
    <3>2. 1..used.writes \subseteq 1..used'.writes
      BY <1>3, <1>4
    <3> QED BY <3>1, <3>2 DEF ConnOK
  <2> QED BY <2>1, <2>2
<1>14. Cardinality(Pending') <= Cardinality(Pending) + 1
  <2>1. Pending' = IF outcome.persist THEN Pending \cup {c} ELSE Pending
    BY <1>2, <1>6, <1>9, <1>11 DEF Pending
  <2> QED BY <2>1, PendingFinite, FS_AddElement
<1>15. ConnsInv'
  <2>1. Cardinality(Pending') <= used'.writes
    BY <1>3, <1>4, <1>14, PendingFinite DEF TypeInv, ConnsInv
  <2>2. acked' \subseteq 1..used'.writes
    BY <1>2, <1>3, <1>4 DEF TypeInv, ConnsInv
  <2> QED BY <1>4, <1>12, <1>13, <2>1, <2>2 DEF ConnsInv
<1>16. SyncInv'
  <2>1. DOMAIN raced' = Replicas
    BY <1>1
  <2>2. \A r \in Replicas : SyncOK(r)'
    BY <1>2 DEF TypeInv, SyncInv, SyncOK
  <2>3. ASSUME NEW r \in Replicas PROVE StreamOK(r)'
    <3>1. StreamOK(r) /\ chan' = chan /\ Len(chan[r]) \in Nat
      BY <1>2, LenProperties DEF TypeInv, SyncInv
    <3>2. Cardinality(Pending) \in Nat /\ Cardinality(Pending') \in Nat
      BY PendingFinite
    <3>3. used.writes \in Nat /\ used'.writes = used.writes + 1 /\ Len(Shards) \in Nat
      BY <1>3, <1>4, Bounds
    <3> QED BY <1>14, <3>1, <3>2, <3>3 DEF StreamOK
  <2> QED BY <1>2, <2>1, <2>2, <2>3 DEF TypeInv, SyncInv
<1> QED BY <1>2, <1>7, <1>15, <1>16 DEF TypeInv, FilesInv

\* A connection that goes on with its request, or is done with it.
LEMMA ConnStep ==
  ASSUME TypeInv, NEW c \in Conns, NEW new \in ConnRec,
         conn' = [conn EXCEPT ![c] = new],
         used' \in [writes : 0..MaxWrites, faults : 0..MaxFaults],
         used'.writes = used.writes,
         acked' \subseteq 1..used.writes,
         new.pc # "ready" => conn[c].pc # "ready" /\ new.cmd = conn[c].cmd,
         new.out \subseteq 1..used.writes
  PROVE  /\ ConnsInv'
         /\ Cardinality(Pending') <= Cardinality(Pending)
         /\ conn[c].pc # "ready" /\ new.pc = "ready" =>
              Cardinality(Pending') = Cardinality(Pending) - 1
         /\ conn'[c] = new /\ \A d \in Conns : d # c => conn'[d] = conn[d]
<1>1. conn \in [Conns -> ConnRec] /\ \A d \in Conns : ConnOK(d)
  BY DEF TypeInv, ConnsInv
<1>2. /\ conn' \in [Conns -> ConnRec] /\ conn'[c] = new
      /\ \A d \in Conns : d # c => conn'[d] = conn[d]
  BY <1>1
<1>3. \A d \in Conns : ConnOK(d)'
  <2> SUFFICES ASSUME NEW d \in Conns PROVE ConnOK(d)'
    OBVIOUS
  <2>1. CASE d = c
    BY <1>1, <1>2, <2>1 DEF ConnOK
  <2>2. CASE d # c
    BY <1>1, <1>2, <2>2 DEF ConnOK
  <2> QED BY <2>1, <2>2
<1>4. Pending' = IF new.pc = "ready" THEN Pending \ {c} ELSE Pending
  BY <1>2 DEF Pending
<1>5. /\ Cardinality(Pending') <= Cardinality(Pending)
      /\ c \in Pending /\ new.pc = "ready" => Cardinality(Pending') = Cardinality(Pending) - 1
  BY <1>4, PendingFinite, FS_RemoveElement
<1>6. Cardinality(Pending') <= used'.writes
  <2>1. Cardinality(Pending) <= used.writes /\ used.writes \in Nat
    BY Bounds DEF TypeInv, ConnsInv
  <2> QED BY <1>5, <2>1, PendingFinite
<1> QED BY <1>2, <1>3, <1>5, <1>6 DEF ConnsInv, Pending

\* What a dump and a stream hold stays in bounds when writes only finish.
LEMMA SyncKept ==
  ASSUME TypeInv, UNCHANGED <<sync, chan, raced>>, used'.writes = used.writes,
         Cardinality(Pending') <= Cardinality(Pending)
  PROVE  SyncInv'
<1>1. ASSUME NEW r \in Replicas PROVE SyncOK(r)' /\ StreamOK(r)'
  <2>1. SyncOK(r) /\ StreamOK(r) /\ Len(chan[r]) \in Nat /\ used.writes \in Nat
    BY LenProperties, Bounds DEF TypeInv, SyncInv, ConnsInv
  <2>2. SyncOK(r)'
    BY <2>1 DEF SyncOK
  <2>3. StreamOK(r)'
    BY <2>1, PendingFinite, Bounds DEF StreamOK
  <2> QED BY <2>2, <2>3
<1> QED BY <1>1 DEF TypeInv, SyncInv

(* A command that is not logged (no AOF, or nothing to persist) passes the
   append, typed. *)
LEMMA SkipAofType ==
  ASSUME TypeInv, NEW c \in Conns, SkipAof(c)
  PROVE  TypeInv'
<1> DEFINE new == [conn[c] EXCEPT !.pc = IF has_replicas THEN "propagate" ELSE "ready"]
<1>1. /\ conn[c].pc = "persist" /\ conn' = [conn EXCEPT ![c] = new]
      /\ UNCHANGED <<appendonly, db, now, aof, buf, sync, dead, chan, rdb, acked, raced, used, lost>>
  BY DEF SkipAof
<1>2. conn[c] \in ConnRec /\ conn[c].out \subseteq 1..used.writes
  BY DEF TypeInv, ConnsInv, ConnOK
<1>3. new \in ConnRec /\ new.cmd = conn[c].cmd /\ new.out = conn[c].out
  BY <1>2 DEF ConnRec
<1> HIDE DEF new
<1>4. ConnsInv' /\ Cardinality(Pending') <= Cardinality(Pending)
  BY <1>1, <1>2, <1>3, ConnStep DEF TypeInv, ConnsInv
<1>5. SyncInv'
  BY <1>1, <1>4, SyncKept
<1> QED BY <1>1, <1>4, <1>5 DEF TypeInv, StoresInv, FilesInv

\* The piece that a connection appends.
LEMMA PieceType ==
  ASSUME TypeInv, NEW c \in Conns, conn[c].pc # "ready"
  PROVE  /\ piece("whole", conn[c].cmd) \in Pieces
         /\ aof \o buf \in Seq(Pieces)
         /\ Append(buf, piece("whole", conn[c].cmd)) \in Seq(Pieces)
         /\ Append(aof \o buf, piece("whole", conn[c].cmd)) \in Seq(Pieces)
<1> DEFINE p == piece("whole", conn[c].cmd)
<1>1. conn[c].cmd \in Cmds
  BY DEF TypeInv, ConnsInv, ConnOK
<1>2. p \in Pieces
  BY <1>1 DEF piece, Pieces
<1>3. aof \in Seq(Pieces) /\ buf \in Seq(Pieces)
  BY DEF TypeInv, FilesInv
<1> HIDE DEF p
<1>4. aof \o buf \in Seq(Pieces)
  BY <1>3, ConcatProperties
<1>5. Append(buf, p) \in Seq(Pieces) /\ Append(aof \o buf, p) \in Seq(Pieces)
  BY <1>2, <1>3, <1>4, AppendProperties
<1> QED BY <1>2, <1>4, <1>5 DEF p

(* A successful append leaves a typed file. *)
LEMMA AppendAofType ==
  ASSUME TypeInv, NEW c \in Conns, AppendAof(c)
  PROVE  TypeInv'
<1> DEFINE new == [conn[c] EXCEPT !.pc = "propagate"]
<1>1. /\ conn[c].pc = "persist" /\ conn' = [conn EXCEPT ![c] = new]
      /\ UNCHANGED <<appendonly, db, now, sync, dead, chan, rdb, acked, raced, used, lost>>
  BY DEF AppendAof
<1>2. conn[c] \in ConnRec /\ conn[c].out \subseteq 1..used.writes
  BY DEF TypeInv, ConnsInv, ConnOK
<1>3. new \in ConnRec /\ new.cmd = conn[c].cmd /\ new.out = conn[c].out
  BY <1>2 DEF ConnRec
<1> HIDE DEF new
<1>4. ConnsInv' /\ Cardinality(Pending') <= Cardinality(Pending)
  BY <1>1, <1>2, <1>3, ConnStep DEF TypeInv, ConnsInv
<1>5. SyncInv'
  BY <1>1, <1>4, SyncKept
<1>6. FilesInv'
  BY <1>1, PieceType, EmptySeq DEF AppendAof, FilesInv
<1> QED BY <1>1, <1>4, <1>5, <1>6 DEF TypeInv, StoresInv

\* A record of one more fault.
LEMMA OneMoreFault ==
  ASSUME TypeInv, used.faults < MaxFaults, used' = [used EXCEPT !.faults = @ + 1]
  PROVE  used' \in [writes : 0..MaxWrites, faults : 0..MaxFaults] /\ used'.writes = used.writes
BY Bounds DEF TypeInv, ConnsInv

\* A connection whose append failed, with typed pieces left behind.
LEMMA FailedType ==
  ASSUME TypeInv, NEW c \in Conns, conn[c].pc = "persist",
         conn' = [conn EXCEPT ![c].pc = "propagate", ![c].quit = TRUE],
         used.faults < MaxFaults, used' = [used EXCEPT !.faults = @ + 1],
         UNCHANGED <<appendonly, db, now, sync, dead, chan, rdb, acked, raced>>,
         NEW cut, cut[1] \in Seq(Pieces), cut[2] \in Seq(Pieces),
         aof' = aof \o cut[1], buf' = cut[2], lost' \subseteq Keys
  PROVE  TypeInv'
<1> DEFINE new == [conn[c] EXCEPT !.pc = "propagate", !.quit = TRUE]
<1>1. conn[c] \in ConnRec /\ conn[c].out \subseteq 1..used.writes
  BY DEF TypeInv, ConnsInv, ConnOK
<1>2. conn' = [conn EXCEPT ![c] = new]
  BY DEF TypeInv, ConnsInv, ConnRec
<1>3. new \in ConnRec /\ new.cmd = conn[c].cmd /\ new.out = conn[c].out
  BY <1>1 DEF ConnRec
<1>4. used' \in [writes : 0..MaxWrites, faults : 0..MaxFaults] /\ used'.writes = used.writes
  BY OneMoreFault
<1> HIDE DEF new
<1>5. acked' \subseteq 1..used.writes /\ new.out \subseteq 1..used.writes
  BY <1>1, <1>3 DEF TypeInv, ConnsInv
<1>6. ConnsInv' /\ Cardinality(Pending') <= Cardinality(Pending)
  BY <1>2, <1>3, <1>4, <1>5, ConnStep
<1>7. SyncInv'
  BY <1>4, <1>6, SyncKept
<1>8. FilesInv'
  BY ConcatProperties DEF TypeInv, FilesInv
<1> QED BY <1>6, <1>7, <1>8 DEF TypeInv, StoresInv

(* A failed flush leaves part of the command in the file and the rest in the
   BufWriter, typed. *)
LEMMA FailAofType ==
  ASSUME TypeInv, NEW c \in Conns, FailAof(c)
  PROVE  TypeInv'
<1>1. PICK cut \in cuts(Append(buf, piece("whole", conn[c].cmd))) :
        aof' = aof \o cut[1] /\ buf' = cut[2]
  BY DEF FailAof
<1>2. conn[c].pc = "persist"
  BY DEF FailAof
<1>3. cut[1] \in Seq(Pieces) /\ cut[2] \in Seq(Pieces)
  BY <1>2, PieceType, CutsType
<1>4. lost' \subseteq Keys
  BY DEF FailAof, TypeInv
<1> QED BY <1>1, <1>3, <1>4, FailedType DEF FailAof

(* A failed write_all leaves the file and the BufWriter typed. *)
LEMMA DropAofType ==
  ASSUME TypeInv, NEW c \in Conns, DropAof(c)
  PROVE  TypeInv'
<1>1. PICK cut \in drops(buf, conn[c].cmd) : aof' = aof \o cut[1] /\ buf' = cut[2]
  BY DEF DropAof
<1>2. conn[c].pc = "persist" /\ lost' = lost \cup {conn[c].cmd.key}
  BY DEF DropAof
<1>3. conn[c].cmd \in Cmds /\ buf \in Seq(Pieces) /\ lost \subseteq Keys
  BY <1>2 DEF TypeInv, ConnsInv, ConnOK, FilesInv
<1>4. cut[1] \in Seq(Pieces) /\ cut[2] \in Seq(Pieces)
  BY <1>3, DropsType
<1>5. lost' \subseteq Keys
  BY <1>2, <1>3 DEF Cmds, Command
<1> QED BY <1>1, <1>4, <1>5, FailedType DEF DropAof

(* Sending the replies moves typed write ids from the buffer to the client. *)
LEMMA FlushType ==
  ASSUME TypeInv, NEW c \in Conns, Flush(c)
  PROVE  TypeInv'
<1>1. /\ conn' = [conn EXCEPT ![c] = idle] /\ acked' \subseteq acked \cup conn[c].out
      /\ UNCHANGED <<appendonly, db, now, aof, buf, sync, dead, chan, rdb, raced, used, lost>>
  BY DEF Flush
<1>2. acked' \subseteq 1..used.writes
  BY <1>1 DEF TypeInv, ConnsInv, ConnOK
<1>3. idle \in ConnRec /\ idle.pc = "ready" /\ idle.out = {}
  BY DEF idle, ConnRec
<1>4. ConnsInv' /\ Cardinality(Pending') <= Cardinality(Pending)
  <2>1. used' \in [writes : 0..MaxWrites, faults : 0..MaxFaults] /\ used'.writes = used.writes
    BY <1>1 DEF TypeInv, ConnsInv
  <2>2. idle.out \subseteq 1..used.writes
    BY <1>3
  <2> QED BY <1>1, <1>2, <1>3, <2>1, <2>2, ConnStep
<1>5. SyncInv'
  BY <1>1, <1>4, SyncKept
<1> QED BY <1>1, <1>4, <1>5 DEF TypeInv, StoresInv, FilesInv

(* propagate puts the command on the stream of every registered replica. *)
LEMMA PropagateType ==
  ASSUME TypeInv, NEW c \in Conns, Propagate(c)
  PROVE  TypeInv'
<1> DEFINE new == [conn[c] EXCEPT !.pc = "ready"]
<1>1. /\ conn[c].pc = "propagate" /\ conn' = [conn EXCEPT ![c] = new]
      /\ chan' = [r \in Replicas |->
            IF r \in attached THEN Append(chan[r], conn[c].cmd) ELSE chan[r]]
      /\ dead' \in {dead, FALSE}
      /\ UNCHANGED <<appendonly, db, now, aof, buf, sync, rdb, acked, raced, used, lost>>
  BY DEF Propagate
<1>2. /\ conn[c] \in ConnRec /\ conn[c].out \subseteq 1..used.writes
      /\ conn[c].cmd \in Cmds
  BY <1>1 DEF TypeInv, ConnsInv, ConnOK
<1>3. /\ new \in ConnRec /\ new.cmd = conn[c].cmd /\ new.out = conn[c].out
      /\ new.pc = "ready"
  BY <1>2 DEF ConnRec
<1> HIDE DEF new
<1>4. ConnsInv' /\ Cardinality(Pending') = Cardinality(Pending) - 1
  BY <1>1, <1>2, <1>3, ConnStep DEF TypeInv, ConnsInv
<1>5. ASSUME NEW r \in Replicas
      PROVE  chan'[r] \in Seq(Cmds) /\ SyncOK(r)' /\ StreamOK(r)'
  <2>1. chan[r] \in Seq(Cmds) /\ SyncOK(r) /\ StreamOK(r) /\ Len(chan[r]) \in Nat
    BY LenProperties DEF TypeInv, SyncInv
  <2>2. CASE r \in attached
    <3>1. chan'[r] = Append(chan[r], conn[c].cmd) /\ sync[r].at = "live"
      BY <1>1, <2>2 DEF attached
    <3>2. chan'[r] \in Seq(Cmds) /\ Len(chan'[r]) = Len(chan[r]) + 1
      BY <1>2, <2>1, <3>1, AppendProperties
    <3>3. SyncOK(r)'
      BY <1>1, <2>1, <3>1 DEF SyncOK
    <3>4. StreamOK(r)'
      BY <1>1, <1>4, <2>1, <3>2, PendingFinite DEF StreamOK
    <3> QED BY <3>2, <3>3, <3>4
  <2>3. CASE r \notin attached
    <3>1. chan'[r] = chan[r]
      BY <1>1, <2>3
    <3>2. StreamOK(r)'
      <4>1. used.writes \in Nat
        BY Bounds DEF TypeInv, ConnsInv
      <4> QED BY <1>1, <1>4, <2>1, <3>1, <4>1, PendingFinite, Bounds DEF StreamOK
    <3> QED BY <1>1, <2>1, <3>1, <3>2 DEF SyncOK
  <2> QED BY <2>2, <2>3
<1>6. SyncInv'
  BY <1>1, <1>5 DEF TypeInv, SyncInv
<1> QED BY <1>1, <1>4, <1>6 DEF TypeInv, StoresInv, FilesInv

\* The parts of the invariant about connections only.
LEMMA ConnsKept ==
  ASSUME TypeInv, UNCHANGED <<conn, acked>>, used'.writes = used.writes,
         used' \in [writes : 0..MaxWrites, faults : 0..MaxFaults]
  PROVE  ConnsInv' /\ Pending' = Pending
<1>1. Pending' = Pending
  BY DEF Pending
<1>2. \A c \in Conns : ConnOK(c)'
  BY DEF TypeInv, ConnsInv, ConnOK
<1> QED BY <1>1, <1>2 DEF TypeInv, ConnsInv

\* Another replica's dump or stream is left alone.
LEMMA OtherReplica ==
  ASSUME TypeInv, Pending' = Pending, used'.writes = used.writes,
         NEW r \in Replicas, sync'[r] = sync[r], chan'[r] = chan[r]
  PROVE  SyncOK(r)' /\ StreamOK(r)'
BY DEF TypeInv, SyncInv, SyncOK, StreamOK

(* A replica's SYNC begins with an empty dump. *)
LEMMA ConnectType ==
  ASSUME TypeInv, NEW r \in Replicas, Connect(r)
  PROVE  TypeInv'
<1> DEFINE new == [nosync EXCEPT !.at = "dump", !.time = now]
<1>1. /\ chan[r] = <<>> /\ sync' = [sync EXCEPT ![r] = new]
      /\ DOMAIN raced' = DOMAIN raced
      /\ UNCHANGED <<appendonly, db, now, conn, aof, buf, dead, chan, rdb, acked, used, lost>>
  BY DEF Connect
<1>2. new = [at |-> "dump", next |-> 1, dump |-> <<>>, time |-> now]
  <2> DEFINE at(f) == [f EXCEPT !.at = "dump"]
  <2>1. at(nosync) = [at |-> "dump", next |-> 1, dump |-> <<>>, time |-> 0]
    BY DEF nosync
  <2>2. new = [at(nosync) EXCEPT !.time = now]
    BY DEF nosync
  <2> HIDE DEF at
  <2> QED BY <2>1, <2>2
<1>3. new \in SyncRec
  <2>1. 1 \in 1..(Len(Shards) + 1) /\ now \in Nat /\ <<>> \in Seq(Cmds)
    BY EmptySeq, Bounds DEF TypeInv, StoresInv
  <2> HIDE DEF new
  <2> QED BY <1>2, <2>1 DEF SyncRec
<1> HIDE DEF new
<1>4. sync \in [Replicas -> SyncRec] /\ chan \in [Replicas -> Seq(Cmds)]
  BY DEF TypeInv, SyncInv
<1>5. /\ sync' \in [Replicas -> SyncRec] /\ sync'[r] = new
      /\ \A s \in Replicas : s # r => sync'[s] = sync[s]
  BY <1>1, <1>3, <1>4
<1>6. ConnsInv' /\ Pending' = Pending
  BY <1>1, ConnsKept DEF TypeInv, ConnsInv
<1>7. ASSUME NEW s \in Replicas PROVE SyncOK(s)' /\ StreamOK(s)'
  <2>1. CASE s # r
    BY <1>1, <1>5, <1>6, <2>1, OtherReplica
  <2>2. CASE s = r
    <3>1. new.at = "dump" /\ new.dump = <<>> /\ new.next = 1 /\ Len(<<>>) = 0
      BY <1>2
    <3>2. SyncOK(r)'
      BY <1>1, <1>5, <3>1 DEF SyncOK
    <3>3. StreamOK(r)'
      BY <1>1, <1>6 DEF TypeInv, SyncInv, StreamOK
    <3> QED BY <2>2, <3>2, <3>3
  <2> QED BY <2>1, <2>2
<1>8. SyncInv'
  BY <1>1, <1>4, <1>5, <1>7 DEF TypeInv, SyncInv
<1> QED BY <1>1, <1>6, <1>8 DEF TypeInv, StoresInv, FilesInv

(* Dumping a shard appends commands on the key of that shard. *)
LEMMA DumpShardType ==
  ASSUME TypeInv, NEW r \in Replicas, DumpShard(r)
  PROVE  TypeInv'
<1> DEFINE part == dump_shard(db, Shards[sync[r].next], sync[r].time)
           new == [sync[r] EXCEPT !.next = @ + 1, !.dump = @ \o part]
<1>1. /\ sync[r].at = "dump" /\ sync[r].next <= Len(Shards)
      /\ sync' = [sync EXCEPT ![r].next = @ + 1, ![r].dump = @ \o part]
      /\ UNCHANGED <<appendonly, db, now, conn, aof, buf, dead, chan, rdb, acked, raced, used, lost>>
  BY DEF DumpShard
<1>2. sync \in [Replicas -> SyncRec] /\ chan \in [Replicas -> Seq(Cmds)]
  BY DEF TypeInv, SyncInv
<1>3. sync' = [sync EXCEPT ![r] = new]
  <2> HIDE DEF part
  <2> QED BY <1>1, <1>2 DEF SyncRec
<1>4. sync[r].next \in 1..Len(Shards) /\ sync[r].dump \in Seq(Cmds) /\ sync[r] \in SyncRec
  BY <1>1, <1>2, Bounds DEF SyncRec
<1>5. part \in Seq(Cmds) /\ Len(part) <= 2
  BY <1>4, Bounds, DumpGood DEF TypeInv, StoresInv
<1> HIDE DEF part
<1>6. sync[r].dump \o part \in Seq(Cmds) /\ Len(sync[r].dump \o part) = Len(sync[r].dump) + Len(part)
  BY <1>4, <1>5, ConcatProperties
<1>7. /\ new.at = "dump" /\ new.next = sync[r].next + 1 /\ new.dump = sync[r].dump \o part
      /\ new \in SyncRec
  <2>1. sync[r].next + 1 \in 1..(Len(Shards) + 1)
    BY <1>4, Bounds
  <2> DEFINE n == sync[r].next + 1
             d == sync[r].dump \o part
  <2>2. new = [sync[r] EXCEPT !.next = n, !.dump = d] /\ d \in Seq(Cmds) /\ n \in 1..(Len(Shards) + 1)
    BY <1>6, <2>1
  <2> HIDE DEF n, d, new
  <2>3. new.at = "dump" /\ new.next = n /\ new.dump = d /\ new \in SyncRec
    BY <1>1, <1>4, <2>2 DEF SyncRec
  <2> QED BY <2>3 DEF n, d
<1> HIDE DEF new
<1>8. /\ sync' \in [Replicas -> SyncRec] /\ sync'[r] = new
      /\ \A s \in Replicas : s # r => sync'[s] = sync[s]
  BY <1>2, <1>3, <1>7
<1>9. ConnsInv' /\ Pending' = Pending
  BY <1>1, ConnsKept DEF TypeInv, ConnsInv
<1>10. ASSUME NEW s \in Replicas PROVE SyncOK(s)' /\ StreamOK(s)'
  <2>1. CASE s # r
    BY <1>1, <1>8, <1>9, <2>1, OtherReplica
  <2>2. CASE s = r
    <3>1. /\ Len(sync[r].dump) \in Nat /\ Len(part) \in Nat
          /\ Len(sync[r].dump) <= 2 * (sync[r].next - 1) /\ chan[r] = <<>>
      BY <1>1, <1>4, <1>5, LenProperties DEF TypeInv, SyncInv, SyncOK
    <3>2. Len(new.dump) <= 2 * (new.next - 1)
      BY <1>4, <1>5, <1>6, <1>7, <3>1
    <3>3. SyncOK(r)'
      BY <1>1, <1>8, <3>1, <3>2 DEF SyncOK
    <3>4. StreamOK(r)'
      BY <1>1, <1>9 DEF TypeInv, SyncInv, StreamOK
    <3> QED BY <2>2, <3>3, <3>4
  <2> QED BY <2>1, <2>2
<1>11. SyncInv'
  BY <1>1, <1>2, <1>8, <1>10 DEF TypeInv, SyncInv
<1> QED BY <1>1, <1>9, <1>11 DEF TypeInv, StoresInv, FilesInv

(* Registering moves the dump to the replica's stream. *)
LEMMA RegisterType ==
  ASSUME TypeInv, NEW r \in Replicas, Register(r)
  PROVE  TypeInv'
<1> DEFINE new == [nosync EXCEPT !.at = "live"]
<1>1. /\ sync[r].at = "dump"
      /\ sync' = [sync EXCEPT ![r] = new]
      /\ chan' = [chan EXCEPT ![r] = @ \o sync[r].dump]
      /\ UNCHANGED <<appendonly, db, now, conn, aof, buf, dead, rdb, acked, raced, used, lost>>
  BY DEF Register
<1>2. new = [at |-> "live", next |-> 1, dump |-> <<>>, time |-> 0]
  BY DEF nosync
<1>3. new \in SyncRec
  <2>1. 1 \in 1..(Len(Shards) + 1) /\ <<>> \in Seq(Cmds)
    BY EmptySeq, Bounds
  <2> HIDE DEF new
  <2> QED BY <1>2, <2>1 DEF SyncRec
<1> HIDE DEF new
<1>4. sync \in [Replicas -> SyncRec] /\ chan \in [Replicas -> Seq(Cmds)]
  BY DEF TypeInv, SyncInv
<1>5. /\ sync' \in [Replicas -> SyncRec] /\ sync'[r] = new
      /\ \A s \in Replicas : s # r => sync'[s] = sync[s]
  BY <1>1, <1>3, <1>4
<1>6. /\ sync[r].dump \in Seq(Cmds) /\ chan[r] = <<>> /\ sync[r].next \in 1..(Len(Shards) + 1)
      /\ Len(sync[r].dump) <= 2 * (sync[r].next - 1)
  BY <1>1, <1>4 DEF SyncRec, TypeInv, SyncInv, SyncOK
<1>7. chan[r] \o sync[r].dump = sync[r].dump
  BY <1>6, ConcatEmptySeq
<1>8. /\ chan' \in [Replicas -> Seq(Cmds)] /\ chan'[r] = sync[r].dump
      /\ \A s \in Replicas : s # r => chan'[s] = chan[s]
  BY <1>1, <1>4, <1>6, <1>7
<1>9. ConnsInv' /\ Pending' = Pending
  BY <1>1, ConnsKept DEF TypeInv, ConnsInv
<1>10. ASSUME NEW s \in Replicas PROVE SyncOK(s)' /\ StreamOK(s)'
  <2>1. CASE s # r
    BY <1>1, <1>5, <1>8, <1>9, <2>1, OtherReplica
  <2>2. CASE s = r
    <3>1. new.at = "live" /\ new.dump = <<>> /\ new.next = 1 /\ Len(<<>>) = 0
      BY <1>2
    <3>2. SyncOK(r)'
      BY <1>5, <3>1 DEF SyncOK
    <3>3. Len(sync[r].dump) \in Nat /\ Len(sync[r].dump) <= 2 * Len(Shards)
      BY <1>6, Bounds, LenProperties
    <3>4. Cardinality(Pending) <= used.writes /\ used.writes \in Nat
      BY Bounds DEF TypeInv, ConnsInv
    <3>5. StreamOK(r)'
      BY <1>1, <1>8, <1>9, <3>3, <3>4, PendingFinite, Bounds DEF StreamOK
    <3> QED BY <2>2, <3>2, <3>5
  <2> QED BY <2>1, <2>2
<1>11. SyncInv'
  BY <1>1, <1>5, <1>8, <1>10 DEF TypeInv, SyncInv
<1> QED BY <1>1, <1>9, <1>11 DEF TypeInv, StoresInv, FilesInv

(* The replica applies the command at the head of its stream. *)
LEMMA ApplyType ==
  ASSUME TypeInv, NEW r \in Replicas, Apply(r)
  PROVE  TypeInv'
<1>1. /\ chan[r] # <<>>
      /\ rdb' = [rdb EXCEPT ![r] = dispatch(@, Head(chan[r]), now).db]
      /\ chan' = [chan EXCEPT ![r] = Tail(@)]
      /\ UNCHANGED <<appendonly, db, now, conn, aof, buf, sync, dead, acked, raced, used, lost>>
  BY DEF Apply
<1>2. /\ chan \in [Replicas -> Seq(Cmds)] /\ DOMAIN rdb = Replicas
      /\ \A s \in Replicas : IsGoodStore(rdb[s])
      /\ IsGoodStore(db) /\ now \in 0..MaxTime /\ now \in Nat
  BY Bounds DEF TypeInv, SyncInv, StoresInv
<1>3. /\ Head(chan[r]) \in Cmds /\ Tail(chan[r]) \in Seq(Cmds)
      /\ Len(Tail(chan[r])) = Len(chan[r]) - 1 /\ Len(chan[r]) \in Nat
  BY <1>1, <1>2, HeadTailProperties, LenProperties
<1> DEFINE after == dispatch(rdb[r], Head(chan[r]), now).db
<1>4. IsGoodStore(after)
  BY <1>2, <1>3, DispatchGood
<1>5. rdb' = [rdb EXCEPT ![r] = after]
  BY <1>1
<1> HIDE DEF after
<1>6. DOMAIN rdb' = Replicas /\ \A s \in Replicas : rdb'[s] = IF s = r THEN after ELSE rdb[s]
  BY <1>2, <1>5
<1>7. StoresInv'
  <2>1. \A s \in Replicas : IsGoodStore(rdb'[s])
    BY <1>2, <1>4, <1>6
  <2> QED BY <1>1, <1>2, <1>6, <2>1 DEF StoresInv
<1>8. ConnsInv' /\ Pending' = Pending
  BY <1>1, ConnsKept DEF TypeInv, ConnsInv
<1>9. /\ chan' \in [Replicas -> Seq(Cmds)] /\ chan'[r] = Tail(chan[r])
      /\ \A s \in Replicas : s # r => chan'[s] = chan[s]
  BY <1>1, <1>2, <1>3
<1>10. ASSUME NEW s \in Replicas PROVE SyncOK(s)' /\ StreamOK(s)'
  <2>1. CASE s # r
    BY <1>1, <1>8, <1>9, <2>1, OtherReplica
  <2>2. CASE s = r
    <3>1. SyncOK(r) /\ StreamOK(r) /\ used.writes \in Nat
      BY Bounds DEF TypeInv, SyncInv, ConnsInv
    <3>2. SyncOK(r)'
      BY <1>1, <3>1 DEF SyncOK
    <3>3. StreamOK(r)'
      BY <1>1, <1>3, <1>8, <1>9, <3>1, PendingFinite, Bounds DEF StreamOK
    <3> QED BY <2>2, <3>2, <3>3
  <2> QED BY <2>1, <2>2
<1>11. SyncInv'
  BY <1>1, <1>9, <1>10 DEF TypeInv, SyncInv
<1> QED BY <1>1, <1>7, <1>8, <1>11 DEF TypeInv, FilesInv

\* A thread that serves no SYNC.
LEMMA NoSync ==
  /\ nosync \in SyncRec /\ nosync.at = "down" /\ Len(nosync.dump) = 0 /\ nosync.next = 1
<1>1. 1 \in 1..(Len(Shards) + 1) /\ <<>> \in Seq(Cmds) /\ Len(<<>>) = 0
  BY EmptySeq, Bounds
<1> QED BY <1>1 DEF nosync, SyncRec

\* A stream that loses its end.
LEMMA CutStream ==
  ASSUME NEW s \in Seq(Cmds), NEW n \in 0..Len(s)
  PROVE  SubSeq(s, 1, n) \in Seq(Cmds) /\ Len(SubSeq(s, 1, n)) <= Len(s)
<1>1. Len(s) \in Nat /\ \A i \in 1..n : s[i] \in Cmds
  BY LenProperties, ElementOfSeq
<1>2. Len(SubSeq(s, 1, n)) = n
  BY <1>1, SubSeqProperties
<1>3. SubSeq(s, 1, n) \in Seq(Cmds)
  BY <1>1, SubSeqProperties
<1> QED BY <1>1, <1>2, <1>3

(* A lost connection leaves a replica a prefix of its stream. *)
LEMMA BreakType ==
  ASSUME TypeInv, NEW r \in Replicas, Break(r)
  PROVE  TypeInv'
<1>1. /\ used.faults < MaxFaults /\ used' = [used EXCEPT !.faults = @ + 1]
      /\ dead' \in IF sync[r].at = "live" THEN {TRUE} ELSE {dead, TRUE}
      /\ sync' = [sync EXCEPT ![r] = nosync]
      /\ UNCHANGED <<appendonly, db, now, conn, aof, buf, rdb, acked, raced, lost>>
  BY DEF Break
<1>2. PICK n \in 0..Len(chan[r]) : chan' = [chan EXCEPT ![r] = SubSeq(@, 1, n)]
  BY DEF Break
<1>3. sync \in [Replicas -> SyncRec] /\ chan \in [Replicas -> Seq(Cmds)]
  BY DEF TypeInv, SyncInv
<1> DEFINE part == SubSeq(chan[r], 1, n)
<1>4. part \in Seq(Cmds) /\ Len(part) <= Len(chan[r]) /\ Len(chan[r]) \in Nat
  BY <1>3, CutStream, LenProperties
<1>5. chan' = [chan EXCEPT ![r] = part]
  BY <1>2
<1> HIDE DEF part
<1>6. /\ sync' \in [Replicas -> SyncRec] /\ sync'[r] = nosync
      /\ chan' \in [Replicas -> Seq(Cmds)] /\ chan'[r] = part
      /\ \A s \in Replicas : s # r => sync'[s] = sync[s] /\ chan'[s] = chan[s]
  BY <1>1, <1>3, <1>4, <1>5, NoSync
<1>7. used' \in [writes : 0..MaxWrites, faults : 0..MaxFaults] /\ used'.writes = used.writes
  BY <1>1, OneMoreFault
<1>8. ConnsInv' /\ Pending' = Pending
  BY <1>1, <1>7, ConnsKept
<1>9. ASSUME NEW s \in Replicas PROVE SyncOK(s)' /\ StreamOK(s)'
  <2>1. CASE s # r
    BY <1>6, <1>7, <1>8, <2>1, OtherReplica
  <2>2. CASE s = r
    <3>1. StreamOK(r) /\ used.writes \in Nat /\ Len(part) \in Nat
      BY Bounds, <1>4, LenProperties DEF TypeInv, SyncInv, ConnsInv
    <3>2. SyncOK(r)'
      BY <1>6, NoSync DEF SyncOK
    <3>3. StreamOK(r)'
      BY <1>4, <1>6, <1>7, <1>8, <3>1, PendingFinite, Bounds DEF StreamOK
    <3> QED BY <2>2, <3>2, <3>3
  <2> QED BY <2>1, <2>2
<1>10. SyncInv'
  BY <1>1, <1>6, <1>9 DEF TypeInv, SyncInv
<1>11. dead' \in BOOLEAN
  BY <1>1 DEF TypeInv
<1> QED BY <1>1, <1>8, <1>10, <1>11 DEF TypeInv, StoresInv, FilesInv

(* A start builds the store from the log or the snapshot and forgets
   connections. *)
LEMMA RestartType ==
  ASSUME TypeInv, Restart
  PROVE  TypeInv'
<1>1. /\ used.faults < MaxFaults /\ used' = [used EXCEPT !.faults = @ + 1]
      /\ db' = recovered /\ buf' = <<>> /\ dead' = FALSE /\ lost' = {}
      /\ conn' = [c \in Conns |-> idle]
      /\ sync' = [r \in Replicas |-> nosync]
      /\ UNCHANGED <<appendonly, now, aof, rdb, acked, raced>>
  BY DEF Restart
<1>2. PICK n \in [Replicas -> 0..MaxChan] :
        /\ \A r \in Replicas : n[r] <= Len(chan[r])
        /\ chan' = [r \in Replicas |-> SubSeq(chan[r], 1, n[r])]
  BY DEF Restart
<1>3. used' \in [writes : 0..MaxWrites, faults : 0..MaxFaults] /\ used'.writes = used.writes
  BY <1>1, OneMoreFault
<1>4. used.writes \in Nat /\ acked \subseteq 1..used.writes
  BY Bounds DEF TypeInv, ConnsInv
<1>5. IsGoodStore(recovered)
  <2>1. commands(aof) \in Seq(Cmds) /\ now \in Nat
    BY CommandsType, Bounds DEF TypeInv, FilesInv, StoresInv
  <2>2. IsGoodStore(replay(commands(aof), now))
    BY <2>1, ReplayGood
  <2> QED BY <2>2, EmptyGood DEF recovered
<1>6. StoresInv'
  BY <1>1, <1>5 DEF TypeInv, StoresInv
<1>7. idle \in ConnRec /\ idle.pc = "ready" /\ idle.out = {}
  BY DEF idle, ConnRec
<1>8. Pending' = {}
  BY <1>1, <1>7 DEF Pending
<1>9. Cardinality(Pending') = 0
  BY <1>8, FS_EmptySet
<1>10. ConnsInv'
  <2>1. \A c \in Conns : ConnOK(c)'
    BY <1>1, <1>7 DEF ConnOK
  <2>2. conn' \in [Conns -> ConnRec]
    BY <1>1, <1>7
  <2> QED BY <1>1, <1>3, <1>4, <1>9, <2>1, <2>2 DEF ConnsInv
<1>11. ASSUME NEW r \in Replicas
       PROVE  chan'[r] \in Seq(Cmds) /\ SyncOK(r)' /\ StreamOK(r)'
  <2>1. /\ chan[r] \in Seq(Cmds) /\ Len(chan[r]) \in Nat /\ n[r] \in Nat /\ n[r] <= Len(chan[r])
        /\ StreamOK(r)
    BY <1>2, LenProperties DEF TypeInv, SyncInv
  <2>2. n[r] \in 0..Len(chan[r])
    BY <2>1
  <2>3. chan'[r] \in Seq(Cmds) /\ Len(chan'[r]) <= Len(chan[r])
    BY <1>2, <2>1, <2>2, CutStream
  <2>4. Len(chan'[r]) \in Nat
    BY <2>3, LenProperties
  <2>5. SyncOK(r)'
    BY <1>1, NoSync DEF SyncOK
  <2>6. StreamOK(r)'
    BY <1>3, <1>4, <1>9, <2>1, <2>3, <2>4, PendingFinite, Bounds DEF StreamOK
  <2> QED BY <2>3, <2>5, <2>6
<1>12. SyncInv'
  <2>1. sync' \in [Replicas -> SyncRec]
    BY <1>1, NoSync
  <2>2. chan' \in [Replicas -> Seq(Cmds)]
    BY <1>2, <1>11
  <2> QED BY <1>1, <1>11, <2>1, <2>2 DEF TypeInv, SyncInv
<1> QED BY <1>1, <1>6, <1>10, <1>12, EmptySeq DEF TypeInv, FilesInv

(* The clock moves within its bound. *)
LEMMA TickType ==
  ASSUME TypeInv, Tick
  PROVE  TypeInv'
<1>1. /\ now < MaxTime /\ now' = now + 1
      /\ UNCHANGED <<appendonly, db, conn, aof, buf, sync, dead, chan, rdb, acked, raced, used, lost>>
  BY DEF Tick
<1>2. StoresInv'
  BY <1>1, Bounds DEF TypeInv, StoresInv
<1>3. ConnsInv' /\ Pending' = Pending
  BY <1>1, ConnsKept DEF TypeInv, ConnsInv
<1>4. SyncInv'
  <2>1. Cardinality(Pending') <= Cardinality(Pending)
    BY <1>3, PendingFinite
  <2> QED BY <1>1, <2>1, SyncKept
<1> QED BY <1>1, <1>2, <1>3, <1>4 DEF TypeInv, FilesInv

\* No step takes a variable out of its type.
LEMMA NextType == TypeInv /\ [Next]_vars => TypeInv'
<1> SUFFICES ASSUME TypeInv, [Next]_vars PROVE TypeInv'
  OBVIOUS
<1>1. CASE \E c \in Conns : Execute(c) \/ SkipAof(c) \/ AppendAof(c) \/ FailAof(c)
                              \/ DropAof(c) \/ Propagate(c) \/ Flush(c)
  BY <1>1, ExecuteType, SkipAofType, AppendAofType, FailAofType, DropAofType,
     PropagateType, FlushType
<1>2. CASE \E r \in Replicas : Connect(r) \/ DumpShard(r) \/ Register(r) \/ Apply(r) \/ Break(r)
  BY <1>2, ConnectType, DumpShardType, RegisterType, ApplyType, BreakType
<1>3. CASE Restart
  BY <1>3, RestartType
<1>4. CASE Tick
  BY <1>4, TickType
<1>5. CASE UNCHANGED vars
  <2>1. UNCHANGED <<appendonly, db, now, conn, aof, buf, sync, dead, chan, rdb, acked, raced, used, lost>>
    BY <1>5 DEF vars
  <2>2. ConnsInv' /\ Pending' = Pending
    BY <2>1, ConnsKept DEF TypeInv, ConnsInv
  <2>3. Cardinality(Pending') <= Cardinality(Pending)
    BY <2>2, PendingFinite
  <2>4. SyncInv'
    BY <2>1, <2>3, SyncKept
  <2> QED BY <2>1, <2>2, <2>4 DEF TypeInv, StoresInv, FilesInv
<1> QED BY <1>1, <1>2, <1>3, <1>4, <1>5 DEF Next

(* The typing invariant always holds. *)
LEMMA AlwaysType == Spec => []TypeInv
BY InitType, NextType, PTL DEF Spec

\* The inductive invariant gives the types that the runs check.
LEMMA TypeInvGives == TypeInv => TypeOK
<1> SUFFICES ASSUME TypeInv PROVE TypeOK
  OBVIOUS
<1>1. Cmds \subseteq Command /\ Pieces \subseteq Piece
  BY DEF Cmds, Pieces, Piece
<1>2. Seq(Cmds) \subseteq Seq(Command) /\ Seq(Pieces) \subseteq Seq(Piece)
  BY <1>1, SeqMonotonic
<1>3. \A m : IsGoodStore(m) => IsStore(m)
  BY DEF IsGoodStore, IsStore, StoreOf, EntryOf, Stored, Frags
<1>4. /\ IsStore(db) /\ \A r \in Replicas : IsStore(rdb[r])
      /\ now \in 0..MaxTime
  BY <1>3 DEF TypeInv, StoresInv
<1>5. ASSUME NEW c \in Conns
      PROVE  /\ conn[c].pc \in {"ready", "persist", "propagate"}
             /\ conn[c].pc # "ready" => conn[c].cmd \in Command /\ conn[c].cmd.id > 0
             /\ conn[c].out \subseteq 1..used.writes
             /\ conn[c].quit \in BOOLEAN
  <2>1. conn[c] \in ConnRec /\ ConnOK(c)
    BY DEF TypeInv, ConnsInv
  <2> QED BY <1>1, <2>1 DEF ConnRec, ConnOK
<1>6. ASSUME NEW r \in Replicas
      PROVE  /\ sync[r].at \in {"down", "dump", "live"}
             /\ sync[r].next \in 1..(Len(Shards) + 1)
             /\ sync[r].dump \in Seq(Command)
             /\ chan[r] \in Seq(Command) /\ Len(chan[r]) <= MaxChan
  <2>1. sync[r] \in SyncRec /\ chan[r] \in Seq(Cmds) /\ StreamOK(r) /\ used.writes \in 0..MaxWrites
    BY DEF TypeInv, SyncInv, ConnsInv
  <2>2. Len(chan[r]) <= MaxChan
    <3>1. Len(chan[r]) \in Nat
      BY <2>1, LenProperties
    <3> QED BY <2>1, <3>1, PendingFinite, Bounds DEF StreamOK, MaxChan
  <2> QED BY <1>2, <2>1, <2>2 DEF SyncRec
<1>7. aof \in Seq(Piece) /\ buf \in Seq(Piece)
  BY <1>2 DEF TypeInv, FilesInv
<1> QED BY <1>4, <1>5, <1>6, <1>7 DEF TypeInv, ConnsInv, TypeOK

\* Every variable keeps its type: stores hold entries that are not empty, a
\* connection past the store holds its own client's command, and a stream is
\* never longer than the dump and the requests together (conn.rs run,
\* persistence.rs, repl.rs).
THEOREM TypeCorrect == Spec => []TypeOK
BY AlwaysType, TypeInvGives, PTL

-----------------------------------------------------------------------------
(* Confirmed writes are in the log                                         *)

\* What a longer file holds.
LEMMA LongerFile ==
  ASSUME NEW s \in Seq(Pieces), NEW t \in Seq(Pieces)
  PROVE  /\ Ids(s) \subseteq Ids(s \o t) /\ Ids(t) \subseteq Ids(s \o t)
         /\ WholeFile(s \o t) <=> WholeFile(s) /\ WholeFile(t)
<1>1. /\ Len(s) \in Nat /\ Len(t) \in Nat /\ DOMAIN s = 1..Len(s) /\ DOMAIN t = 1..Len(t)
      /\ s \o t \in Seq(Pieces) /\ Len(s \o t) = Len(s) + Len(t)
      /\ DOMAIN (s \o t) = 1..(Len(s) + Len(t))
      /\ \A i \in 1..(Len(s) + Len(t)) :
           (s \o t)[i] = IF i <= Len(s) THEN s[i] ELSE t[i - Len(s)]
  BY LenProperties, ConcatProperties
<1> DEFINE u == s \o t
<1> HIDE DEF u
<1>2. \A i \in DOMAIN s : i \in DOMAIN u /\ u[i] = s[i]
  BY <1>1 DEF u
<1>3. \A i \in DOMAIN t : i + Len(s) \in DOMAIN u /\ u[i + Len(s)] = t[i]
  <2> SUFFICES ASSUME NEW i \in 1..Len(t)
               PROVE  i + Len(s) \in DOMAIN u /\ u[i + Len(s)] = t[i]
    BY <1>1
  <2>1. i + Len(s) \in 1..(Len(s) + Len(t)) /\ ~(i + Len(s) <= Len(s)) /\ (i + Len(s)) - Len(s) = i
    BY <1>1
  <2> QED BY <1>1, <2>1 DEF u
<1>4. \A i \in DOMAIN u : (i \in DOMAIN s /\ u[i] = s[i]) \/ (i - Len(s) \in DOMAIN t /\ u[i] = t[i - Len(s)])
  BY <1>1 DEF u
<1>5. Ids(s) \subseteq Ids(u) /\ Ids(t) \subseteq Ids(u)
  BY <1>2, <1>3 DEF Ids
<1>6. WholeFile(u) <=> WholeFile(s) /\ WholeFile(t)
  BY <1>2, <1>3, <1>4 DEF WholeFile
<1> QED BY <1>5, <1>6 DEF u

(* A whole command at the end of a file adds its id to the ids of the file. *)
LEMMA AppendedFile ==
  ASSUME NEW s \in Seq(Pieces), NEW p \in Pieces, p.part = "whole"
  PROVE  /\ Ids(s) \subseteq Ids(Append(s, p)) /\ p.cmd.id \in Ids(Append(s, p))
         /\ WholeFile(s) => WholeFile(Append(s, p))
<1>1. /\ Len(s) \in Nat /\ DOMAIN s = 1..Len(s) /\ DOMAIN Append(s, p) = 1..(Len(s) + 1)
      /\ \A i \in 1..Len(s) : Append(s, p)[i] = s[i]
      /\ Append(s, p)[Len(s) + 1] = p
  BY LenProperties, AppendProperties
<1> DEFINE u == Append(s, p)
<1> HIDE DEF u
<1>2. /\ \A i \in DOMAIN s : i \in DOMAIN u /\ u[i] = s[i]
      /\ Len(s) + 1 \in DOMAIN u /\ u[Len(s) + 1] = p
      /\ \A i \in DOMAIN u : i \in DOMAIN s \/ i = Len(s) + 1
  BY <1>1 DEF u
<1>3. Ids(s) \subseteq Ids(u) /\ p.cmd.id \in Ids(u)
  BY <1>2 DEF Ids
<1>4. WholeFile(s) => WholeFile(u)
  BY <1>2 DEF WholeFile
<1> QED BY <1>3, <1>4 DEF u

\* A start reads the requests that are in a file of whole commands.
LEMMA LoggedIds ==
  ASSUME NEW file \in Seq(Pieces), WholeFile(file)
  PROVE  logged(file) = Ids(file)
<1>1. commands(file) = [i \in 1..Len(file) |-> file[i].cmd] /\ DOMAIN file = 1..Len(file)
  BY CommandsWhole, LenProperties
<1> DEFINE u == commands(file)
<1>2. logged(file) = {u[i].id : i \in DOMAIN u}
  BY DEF logged
<1>3. DOMAIN u = DOMAIN file /\ \A i \in DOMAIN u : u[i] = file[i].cmd
  BY <1>1
<1> HIDE DEF u
<1> QED BY <1>2, <1>3 DEF Ids

(* Initially nothing is acknowledged. *)
LEMMA InitAck == Init => AckInv
<1> SUFFICES ASSUME Init PROVE AckInv
  OBVIOUS
<1>1. DOMAIN <<>> = {}
  OBVIOUS
<1> QED BY <1>1 DEF Init, AckInv, WholeFile, Ids, idle

\* The connection c changes; the file holds what it held, and more.
LEMMA AckStep ==
  ASSUME AckInv, NEW c \in Conns, NEW new, conn \in [Conns -> ConnRec],
         conn' = [conn EXCEPT ![c] = new], appendonly' = appendonly,
         WholeFile(aof)', WholeFile(buf)',
         appendonly => /\ Ids(aof) \subseteq Ids(aof)' /\ acked' \subseteq Ids(aof)'
                       /\ new.out \subseteq Ids(aof)' \cup Unlogged(new)
  PROVE  AckInv'
<1>1. conn'[c] = new /\ \A d \in Conns : d # c => conn'[d] = conn[d]
  OBVIOUS
<1>2. ASSUME appendonly, NEW d \in Conns
      PROVE  conn'[d].out \subseteq Ids(aof)' \cup Unlogged(conn'[d])
  <2>1. CASE d = c
    BY <1>1, <1>2, <2>1
  <2>2. CASE d # c
    <3>1. conn[d].out \subseteq Ids(aof) \cup Unlogged(conn[d])
      BY <1>2 DEF AckInv
    <3> QED BY <1>1, <1>2, <2>2, <3>1
  <2> QED BY <2>1, <2>2
<1> QED BY <1>2 DEF AckInv, Unlogged

\* An append failed and left whole commands behind: the reply that waits is
\* followed by an error.
LEMMA FailedAck ==
  ASSUME TypeInv, AckInv, NEW c \in Conns, UNCHANGED <<appendonly, acked>>,
         conn' = [conn EXCEPT ![c].pc = "propagate", ![c].quit = TRUE],
         conn[c].pc = "persist", NEW cut, cut[1] \in Seq(Pieces), cut[2] \in Seq(Pieces),
         WholeFile(cut[1] \o cut[2]), aof' = aof \o cut[1], buf' = cut[2]
  PROVE  AckInv'
<1> DEFINE new == [conn[c] EXCEPT !.pc = "propagate", !.quit = TRUE]
<1>1. conn \in [Conns -> ConnRec] /\ aof \in Seq(Pieces) /\ WholeFile(aof)
  BY DEF TypeInv, ConnsInv, FilesInv, AckInv
<1>2. conn' = [conn EXCEPT ![c] = new]
  BY <1>1 DEF ConnRec
<1>3. WholeFile(cut[1]) /\ WholeFile(cut[2])
  BY LongerFile
<1>4. WholeFile(aof \o cut[1]) /\ Ids(aof) \subseteq Ids(aof \o cut[1])
  BY <1>1, <1>3, LongerFile
<1>5. Ids(aof)' = Ids(aof \o cut[1]) /\ WholeFile(aof)' /\ WholeFile(buf)'
  BY <1>3, <1>4 DEF Ids, WholeFile
<1>6. new.quit = TRUE /\ new.out = conn[c].out /\ new.cmd = conn[c].cmd
  BY <1>1 DEF ConnRec
<1> HIDE DEF new
<1>7. Unlogged(new) = {conn[c].cmd.id} /\ Unlogged(conn[c]) = {conn[c].cmd.id}
  BY <1>6 DEF Unlogged
<1>8. appendonly => acked \subseteq Ids(aof) /\ conn[c].out \subseteq Ids(aof) \cup Unlogged(conn[c])
  BY DEF AckInv
<1>9. appendonly => acked' \subseteq Ids(aof)' /\ new.out \subseteq Ids(aof)' \cup Unlogged(new)
  BY <1>4, <1>5, <1>6, <1>7, <1>8
<1> QED BY <1>1, <1>2, <1>4, <1>5, <1>9, AckStep

\* No step confirms a write that is not in the file, if no command is torn.
LEMMA NextAck ==
  ASSUME ~Torn, TypeInv, AckInv, [Next]_vars
  PROVE  AckInv'
<1>1. /\ conn \in [Conns -> ConnRec] /\ aof \in Seq(Pieces) /\ buf \in Seq(Pieces)
      /\ WholeFile(aof) /\ WholeFile(buf)
      /\ WholeFile(<<>>)
  BY EmptySeq DEF TypeInv, ConnsInv, FilesInv, AckInv, WholeFile
<1>2. ASSUME NEW c \in Conns
      PROVE  /\ conn[c] \in ConnRec
             /\ appendonly => /\ acked \subseteq Ids(aof)
                              /\ conn[c].out \subseteq Ids(aof) \cup Unlogged(conn[c])
  BY <1>1 DEF AckInv
<1>3. ASSUME NEW c \in Conns, Execute(c) PROVE AckInv'
  <2>1. PICK q \in Requests[c] :
          LET id == used.writes + 1
              cmd == command(q[1], q[2], <<id>>, q[3], id)
              outcome == dispatch(db, cmd, now)
          IN conn' = [conn EXCEPT ![c] =
                IF outcome.persist
                THEN [conn[c] EXCEPT !.pc = "persist", !.cmd = cmd,
                                     !.out = @ \cup {id}]
                ELSE conn[c]]
    BY <1>3 DEF Execute
  <2> DEFINE id == used.writes + 1
             cmd == command(q[1], q[2], <<id>>, q[3], id)
             filled == [conn[c] EXCEPT !.pc = "persist", !.cmd = cmd, !.out = @ \cup {id}]
             new == IF dispatch(db, cmd, now).persist THEN filled ELSE conn[c]
  <2>2. conn' = [conn EXCEPT ![c] = new]
    BY <2>1
  <2>3. cmd.id = id
    BY DEF command
  <2> HIDE DEF cmd
  <2>4. filled.pc = "persist" /\ filled.cmd = cmd /\ filled.out = conn[c].out \cup {id}
    BY <1>2 DEF ConnRec
  <2> HIDE DEF id, filled
  <2>5. conn[c].pc = "ready" /\ ~conn[c].quit /\ UNCHANGED <<appendonly, aof, buf, acked>>
    BY <1>3 DEF Execute
  <2>6. Unlogged(conn[c]) = {} /\ Unlogged(filled) = {id}
    BY <2>3, <2>4, <2>5 DEF Unlogged
  <2>7. appendonly => new.out \subseteq Ids(aof) \cup Unlogged(new)
    BY <1>2, <2>4, <2>6
  <2> HIDE DEF new
  <2>8. Ids(aof)' = Ids(aof) /\ WholeFile(aof)' /\ WholeFile(buf)'
    BY <1>1, <2>5 DEF Ids, WholeFile
  <2> QED BY <1>1, <1>2, <2>2, <2>5, <2>7, <2>8, AckStep
<1>4. ASSUME NEW c \in Conns, SkipAof(c) PROVE AckInv'
  <2>1. ~appendonly /\ UNCHANGED <<appendonly, aof, buf>>
    BY <1>4 DEF SkipAof
  <2> QED BY <1>1, <2>1 DEF AckInv, WholeFile
<1>5. ASSUME NEW c \in Conns, AppendAof(c) PROVE AckInv'
  <2> DEFINE new == [conn[c] EXCEPT !.pc = "propagate"]
             p == piece("whole", conn[c].cmd)
  <2>1. /\ conn[c].pc = "persist" /\ conn' = [conn EXCEPT ![c] = new]
        /\ aof' = Append(aof \o buf, p) /\ buf' = <<>>
        /\ UNCHANGED <<appendonly, acked>>
    BY <1>5 DEF AppendAof
  <2>2. p \in Pieces /\ aof \o buf \in Seq(Pieces) /\ p.part = "whole" /\ p.cmd = conn[c].cmd
    BY <2>1, PieceType DEF piece
  <2> HIDE DEF p
  <2>3. /\ Ids(aof) \subseteq Ids(aof \o buf) /\ WholeFile(aof \o buf)
        /\ Ids(aof \o buf) \subseteq Ids(Append(aof \o buf, p))
        /\ p.cmd.id \in Ids(Append(aof \o buf, p)) /\ WholeFile(Append(aof \o buf, p))
    BY <1>1, <2>2, LongerFile, AppendedFile
  <2>4. Ids(aof)' = Ids(Append(aof \o buf, p)) /\ WholeFile(aof)' /\ WholeFile(buf)'
    BY <1>1, <2>1, <2>3 DEF Ids, WholeFile
  <2>5. new.out = conn[c].out /\ Unlogged(conn[c]) = {conn[c].cmd.id}
    BY <1>2, <2>1 DEF ConnRec, Unlogged
  <2> HIDE DEF new
  <2>6. Ids(aof) \subseteq Ids(aof)' /\ conn[c].cmd.id \in Ids(aof)'
    BY <2>2, <2>3, <2>4
  <2>7. appendonly => /\ acked' \subseteq Ids(aof)'
                      /\ new.out \subseteq Ids(aof)' \cup Unlogged(new)
    BY <1>2, <2>1, <2>5, <2>6
  <2> QED BY <1>1, <2>1, <2>4, <2>6, <2>7, AckStep
<1>6. ASSUME NEW c \in Conns, FailAof(c) PROVE AckInv'
  <2> DEFINE p == Append(buf, piece("whole", conn[c].cmd))
  <2>1. conn[c].pc = "persist"
    BY <1>6 DEF FailAof
  <2>2. PICK cut \in cuts(p) : aof' = aof \o cut[1] /\ buf' = cut[2]
    BY <1>6 DEF FailAof
  <2>3. p \in Seq(Pieces) /\ WholeFile(p)
    <3>1. piece("whole", conn[c].cmd) \in Pieces /\ piece("whole", conn[c].cmd).part = "whole"
      BY <2>1, PieceType DEF piece
    <3> QED BY <1>1, <2>1, <3>1, PieceType, AppendedFile
  <2> HIDE DEF p
  <2>4. cut[1] \in Seq(Pieces) /\ cut[2] \in Seq(Pieces) /\ WholeFile(cut[1] \o cut[2])
    BY <2>3, CutsType, CutsWhole
  <2>5. /\ UNCHANGED <<appendonly, acked>>
        /\ conn' = [conn EXCEPT ![c].pc = "propagate", ![c].quit = TRUE]
    BY <1>6 DEF FailAof
  <2> QED BY <2>1, <2>2, <2>4, <2>5, FailedAck
<1>7. ASSUME NEW c \in Conns, Propagate(c) PROVE AckInv'
  <2> DEFINE new == [conn[c] EXCEPT !.pc = "ready"]
  <2>1. /\ conn[c].pc = "propagate" /\ conn' = [conn EXCEPT ![c] = new]
        /\ UNCHANGED <<appendonly, aof, buf, acked>>
    BY <1>7 DEF Propagate
  <2>2. new.out = conn[c].out /\ Unlogged(new) = Unlogged(conn[c])
    BY <1>2, <2>1 DEF ConnRec, Unlogged
  <2> HIDE DEF new
  <2>3. Ids(aof)' = Ids(aof) /\ WholeFile(aof)' /\ WholeFile(buf)'
    BY <1>1, <2>1 DEF Ids, WholeFile
  <2>4. appendonly => /\ acked' \subseteq Ids(aof)'
                      /\ new.out \subseteq Ids(aof)' \cup Unlogged(new)
    BY <1>2, <2>1, <2>2, <2>3
  <2> QED BY <1>1, <2>1, <2>3, <2>4, AckStep
<1>8. ASSUME NEW c \in Conns, Flush(c) PROVE AckInv'
  <2>1. /\ conn[c].pc = "ready" /\ conn' = [conn EXCEPT ![c] = idle]
        /\ acked' = acked \cup (conn[c].out \ denied(c)) /\ UNCHANGED <<appendonly, aof, buf>>
    BY <1>8 DEF Flush
  <2>2. idle.out = {} /\ Unlogged(conn[c]) = denied(c)
    BY <2>1 DEF idle, Unlogged, denied
  <2>3. Ids(aof)' = Ids(aof) /\ WholeFile(aof)' /\ WholeFile(buf)'
    BY <1>1, <2>1 DEF Ids, WholeFile
  <2>4. appendonly => /\ acked' \subseteq Ids(aof)'
                      /\ idle.out \subseteq Ids(aof)' \cup Unlogged(idle)
    BY <1>2, <2>1, <2>2, <2>3
  <2> QED BY <1>1, <2>1, <2>3, <2>4, AckStep
<1>9. ASSUME Restart PROVE AckInv'
  <2>1. buf' = <<>> /\ conn' = [c \in Conns |-> idle] /\ UNCHANGED <<appendonly, aof, acked>>
    BY <1>9 DEF Restart
  <2>2. idle.out = {}
    BY DEF idle
  <2>3. Ids(aof)' = Ids(aof) /\ WholeFile(aof)' /\ WholeFile(buf)'
    BY <1>1, <2>1 DEF Ids, WholeFile
  <2> QED BY <2>1, <2>2, <2>3 DEF AckInv
<1>10. ASSUME UNCHANGED <<appendonly, aof, buf, conn, acked>> PROVE AckInv'
  BY <1>10 DEF AckInv, Ids, WholeFile
<1>11. ASSUME NEW r \in Replicas,
              Connect(r) \/ DumpShard(r) \/ Register(r) \/ Apply(r) \/ Break(r)
       PROVE  UNCHANGED <<appendonly, aof, buf, conn, acked>>
  BY <1>11 DEF Connect, DumpShard, Register, Apply, Break
<1>12. Tick \/ UNCHANGED vars => UNCHANGED <<appendonly, aof, buf, conn, acked>>
  BY DEF Tick, vars
<1>13. ASSUME NEW c \in Conns, DropAof(c) PROVE AckInv'
  <2>1. PICK cut \in drops(buf, conn[c].cmd) : aof' = aof \o cut[1] /\ buf' = cut[2]
    BY <1>13 DEF DropAof
  <2>2. /\ conn[c].pc = "persist" /\ UNCHANGED <<appendonly, acked>>
        /\ conn' = [conn EXCEPT ![c].pc = "propagate", ![c].quit = TRUE]
    BY <1>13 DEF DropAof
  <2>3. conn[c].cmd \in Cmds
    BY <2>2 DEF TypeInv, ConnsInv, ConnOK
  <2>4. cut[1] \in Seq(Pieces) /\ cut[2] \in Seq(Pieces) /\ WholeFile(cut[1] \o cut[2])
    BY <1>1, <2>3, DropsType, DropsWhole
  <2> QED BY <2>1, <2>2, <2>4, FailedAck
<1> QED BY <1>3, <1>4, <1>5, <1>6, <1>7, <1>8, <1>9, <1>10, <1>11, <1>12, <1>13 DEF Next

\* If a failing append leaves whole commands behind, every write that was
\* confirmed to a client, with no error behind the reply, is in the part of the
\* file that a start reads, whatever fails in flush or in write_all and whenever
\* the process dies (Aof::append, conn.rs run).
THEOREM AcksDurable == ~Torn => (Spec => []AckedDurable)
<1> SUFFICES ASSUME ~Torn PROVE Spec => []AckedDurable
  OBVIOUS
<1>1. TypeInv /\ AckInv => AckedDurable
  <2> SUFFICES ASSUME TypeInv, AckInv PROVE AckedDurable
    OBVIOUS
  <2>1. aof \in Seq(Pieces) /\ WholeFile(aof) /\ (appendonly => acked \subseteq Ids(aof))
    BY DEF TypeInv, FilesInv, AckInv
  <2> QED BY <2>1, LoggedIds DEF AckedDurable
<1>2. TypeInv /\ AckInv /\ [Next]_vars => AckInv'
  BY NextAck
<1> QED BY <1>1, <1>2, InitAck, AlwaysType, PTL DEF Spec

-----------------------------------------------------------------------------
(* The log gives the store                                                 *)

\* What a store and a command are, when no clock decides about anything.
LEMMA PlainFacts ==
  ASSUME Plainly
  PROVE  /\ \A m : IsGoodStore(m) => StoreOf(m, Frags) /\ Lasting(m)
         /\ \A c \in Cmds : c \in CommandOf(Frags) /\ c.op \in Untimed /\ c \in PlainCommand(Frags)
<1>1. \A c \in Cmds : c \in PlainCommand(Frags)
  BY CmdsSound
<1> QED BY <1>1 DEF IsGoodStore, PlainCommand

\* Only the commands that connections have at hand matter.
LEMMA CoversCong ==
  ASSUME NEW k, NEW m, NEW d, NEW q, NEW p, NEW S, NEW t, \A c \in S : p[c] = q[c],
         Covers(k, m, d, q, S, t)
  PROVE  Covers(k, m, d, p, S, t)
BY DEF Covers

\* A connection executes a write: now its command is still to be applied to m.
LEMMA CoversExecute ==
  ASSUME Plainly, NEW m, NEW d, IsGoodStore(m), IsGoodStore(d),
         NEW t \in Nat, NEW u \in Nat, NEW S, NEW c, c \notin S, NEW x \in Cmds,
         NEW q, \A e \in S : q[e] \in Cmds /\ q[e].key # x.key,
         NEW p, p[c] = x, \A e \in S : p[e] = q[e],
         NEW k \in Keys, Covers(k, m, d, q, S, t)
  PROVE  Covers(k, m, dispatch(d, x, u).db, p, S \cup {c}, t)
<1> DEFINE e1 == dispatch(d, x, u).db
           mx == dispatch(m, x, t).db
<1>1. /\ StoreOf(m, Frags) /\ Lasting(m) /\ StoreOf(d, Frags) /\ Lasting(d)
      /\ x \in CommandOf(Frags) /\ x.op \in Untimed
  BY PlainFacts
<1>2. k # x.key => Same(k, e1, d)
  BY <1>1, DispatchLocal
<1>3. Same(x.key, m, d) => Same(x.key, mx, e1)
  <2>1. dispatch(d, x, u) = dispatch(d, x, t)
    BY <1>1, DispatchUntimed
  <2>2. Same(x.key, m, d) => Same(x.key, dispatch(m, x, t).db, dispatch(d, x, t).db)
    BY <1>1, DispatchSame
  <2> QED BY <2>1, <2>2
<1>4. dispatch(m, p[c], t).db = mx
  OBVIOUS
<1>5. \A e \in S : dispatch(m, p[e], t) = dispatch(m, q[e], t)
  OBVIOUS
<1> HIDE DEF e1, mx
<1>6. CASE k # x.key
  <2>1. Same(k, d, e1)
    BY <1>2, <1>6, SameTrans
  <2>2. (\A e \in S \cup {c} : p[e].key # k) => Same(k, m, e1)
    <3>1. (\A e \in S \cup {c} : p[e].key # k) => \A e \in S : q[e].key # k
      OBVIOUS
    <3> QED BY <2>1, <3>1, SameTrans DEF Covers
  <2>3. ASSUME NEW e \in S \cup {c}, p[e].key = k PROVE Same(k, dispatch(m, p[e], t).db, e1)
    <3>1. e \in S /\ q[e].key = k
      BY <1>6, <2>3
    <3>2. Same(k, dispatch(m, q[e], t).db, d)
      BY <3>1 DEF Covers
    <3> QED BY <1>5, <2>1, <3>1, <3>2, SameTrans
  <2>4. Covers(k, m, e1, p, S \cup {c}, t)
    BY <2>2, <2>3 DEF Covers
  <2> QED BY <2>4 DEF e1
<1>7. CASE k = x.key
  <2>1. Same(k, m, d)
    BY <1>7 DEF Covers
  <2>2. Same(k, mx, e1)
    BY <1>3, <1>7, <2>1
  <2>3. Covers(k, m, e1, p, S \cup {c}, t)
    <3>1. ~(\A e \in S \cup {c} : p[e].key # k)
      BY <1>7
    <3>2. ASSUME NEW e \in S \cup {c}, p[e].key = k PROVE Same(k, dispatch(m, p[e], t).db, e1)
      <4>1. e = c
        BY <1>7, <3>2
      <4> QED BY <1>4, <2>2, <4>1
    <3> QED BY <3>1, <3>2 DEF Covers
  <2> QED BY <2>3 DEF e1
<1> QED BY <1>6, <1>7

\* A connection executes a command that changes nothing.
LEMMA CoversUnchanged ==
  ASSUME Plainly, NEW d, IsGoodStore(d), NEW u \in Nat, NEW x \in Cmds,
         ~dispatch(d, x, u).persist,
         NEW m, NEW t, NEW S, NEW q, NEW k, Covers(k, m, d, q, S, t)
  PROVE  Covers(k, m, dispatch(d, x, u).db, q, S, t)
<1> DEFINE e1 == dispatch(d, x, u).db
<1>1. /\ StoreOf(d, Frags) /\ Lasting(d)
      /\ x \in CommandOf(Frags) /\ x.op \in Untimed
  BY PlainFacts
<1>2. Same(k, e1, d)
  BY <1>1, DispatchUntimed
<1> HIDE DEF e1
<1>3. Same(k, d, e1)
  BY <1>2, SameTrans
<1>4. Covers(k, m, e1, q, S, t)
  BY <1>3, SameTrans DEF Covers
<1> QED BY <1>4 DEF e1

\* The command of a connection reaches m.
LEMMA CoversDeliver ==
  ASSUME Plainly, NEW m, IsGoodStore(m), NEW d, NEW t \in Nat, NEW S, NEW c \in S,
         NEW q, \A e \in S : q[e] \in Cmds /\ (e # c => q[e].key # q[c].key),
         NEW k \in Keys, Covers(k, m, d, q, S, t)
  PROVE  Covers(k, dispatch(m, q[c], t).db, d, q, S \ {c}, t)
<1> DEFINE mx == dispatch(m, q[c], t).db
<1>1. StoreOf(m, Frags) /\ q[c] \in CommandOf(Frags)
  BY PlainFacts
<1>2. k # q[c].key => Same(k, mx, m)
  BY <1>1, DispatchLocal
<1>3. IsGoodStore(mx)
  BY DispatchGood
<1>4. q[c].key = k => Same(k, mx, d)
  BY DEF Covers
<1>5. StoreOf(mx, Frags)
  BY <1>3, PlainFacts
<1> HIDE DEF mx
<1> SUFFICES Covers(k, mx, d, q, S \ {c}, t)
  BY DEF mx
<1>6. CASE k = q[c].key
  BY <1>4, <1>6 DEF Covers
<1>7. CASE k # q[c].key
  <2>1. (\A e \in S \ {c} : q[e].key # k) => Same(k, mx, d)
    <3>1. (\A e \in S \ {c} : q[e].key # k) => Same(k, m, d)
      BY <1>7 DEF Covers
    <3> QED BY <1>2, <1>7, <3>1, SameTrans
  <2>2. ASSUME NEW e \in S \ {c}, q[e].key = k PROVE Same(k, dispatch(mx, q[e], t).db, d)
    <3>1. q[e] \in CommandOf(Frags) /\ Same(q[e].key, mx, m)
      BY <1>2, <1>7, <2>2, PlainFacts
    <3>2. Same(q[e].key, dispatch(mx, q[e], t).db, dispatch(m, q[e], t).db)
      BY <1>1, <1>5, <3>1, DispatchSame
    <3>3. Same(k, dispatch(m, q[e], t).db, d)
      BY <2>2 DEF Covers
    <3> QED BY <2>2, <3>2, <3>3, SameTrans
  <2> QED BY <2>1, <2>2 DEF Covers
<1> QED BY <1>6, <1>7

\* A start reads one command more from a file that is one command longer.
LEMMA CommandsAppend ==
  ASSUME NEW file \in Seq(Pieces), WholeFile(file), NEW p \in Pieces, p.part = "whole"
  PROVE  commands(Append(file, p)) = Append(commands(file), p.cmd)
<1> DEFINE longer == Append(file, p)
           n == Len(file)
           u == commands(file)
           w == commands(longer)
<1>1. /\ longer \in Seq(Pieces) /\ Len(longer) = n + 1 /\ n \in Nat
      /\ \A i \in 1..n : longer[i] = file[i]
      /\ longer[n + 1] = p
  BY AppendProperties, LenProperties
<1>2. WholeFile(longer)
  BY AppendedFile
<1> HIDE DEF longer
<1>3. /\ w = [i \in 1..(n + 1) |-> longer[i].cmd]
      /\ u = [i \in 1..n |-> file[i].cmd]
  BY <1>1, <1>2, CommandsWhole
<1>4. w \in Seq(Cmds) /\ u \in Seq(Cmds) /\ p.cmd \in Cmds
  BY <1>1, CommandsType DEF Pieces
<1>5. /\ Len(w) = n + 1 /\ Len(u) = n
      /\ \A i \in 1..n : w[i] = file[i].cmd /\ u[i] = file[i].cmd
      /\ w[n + 1] = p.cmd
  BY <1>1, <1>3, <1>4, LenProperties
<1> HIDE DEF w, u, n
<1>6. /\ Append(u, p.cmd) \in Seq(Cmds) /\ Len(Append(u, p.cmd)) = n + 1
      /\ \A i \in 1..n : Append(u, p.cmd)[i] = u[i]
      /\ Append(u, p.cmd)[n + 1] = p.cmd
  BY <1>4, <1>5, AppendProperties
<1>7. \A i \in 1..(n + 1) : w[i] = Append(u, p.cmd)[i]
  <2> SUFFICES ASSUME NEW i \in 1..(n + 1) PROVE w[i] = Append(u, p.cmd)[i]
    OBVIOUS
  <2>1. i \in 1..n \/ i = n + 1
    BY <1>1
  <2> QED BY <1>5, <1>6, <2>1
<1>8. w = Append(u, p.cmd)
  BY <1>4, <1>5, <1>6, <1>7, SeqEqual
<1> QED BY <1>8 DEF w, u, longer

\* ... and dispatches it last.
LEMMA LogAppend ==
  ASSUME NEW file \in Seq(Pieces), WholeFile(file), NEW p \in Pieces, p.part = "whole", NEW t
  PROVE  replay(commands(Append(file, p)), t) = dispatch(replay(commands(file), t), p.cmd, t).db
<1> DEFINE u == commands(file)
<1>1. u \in Seq(Cmds) /\ p.cmd \in Cmds /\ commands(Append(file, p)) = Append(u, p.cmd)
  BY CommandsType, CommandsAppend DEF Pieces
<1> HIDE DEF u
<1>2. Append(u, p.cmd) \in Seq(Cmds)
  BY <1>1, AppendProperties
<1>3. /\ replay(Append(u, p.cmd), t) = applied(map_new, Append(u, p.cmd), t)
      /\ replay(u, t) = applied(map_new, u, t)
  BY <1>1, <1>2, ReplayApplied
<1>4. applied(map_new, Append(u, p.cmd), t) = dispatch(applied(map_new, u, t), p.cmd, t).db
  BY <1>1, AppliedAppend
<1> QED BY <1>1, <1>3, <1>4 DEF u

\* The log gives a store.
LEMMA RestoredGood ==
  ASSUME TypeInv, NEW t \in Nat
  PROVE  IsGoodStore(replay(commands(aof \o buf), t)) /\ aof \o buf \in Seq(Pieces)
<1>1. aof \o buf \in Seq(Pieces)
  BY ConcatProperties DEF TypeInv, FilesInv
<1> QED BY <1>1, CommandsType, ReplayGood

\* Two connections on their way write different keys.
LEMMA Writers ==
  ASSUME TypeInv, OneWriter, NEW c \in Conns, NEW d \in Conns, c # d, d \in Pending
  PROVE  /\ Held[d] \in Cmds
         /\ c \in Pending => Held[d].key # Held[c].key
         /\ \A q \in Requests[c] : Held[d].key # q[2]
<1>1. ConnOK(d) /\ ConnOK(c)
  BY DEF TypeInv, ConnsInv
<1>2. Held[d] = conn[d].cmd /\ Held[c] = conn[c].cmd
  BY DEF Held
<1>3. PICK p \in Requests[d] : conn[d].cmd.key = p[2]
  BY <1>1 DEF ConnOK, Pending
<1>4. \A q \in Requests[c] : conn[d].cmd.key # q[2]
  BY <1>3 DEF OneWriter
<1>5. c \in Pending => \E q \in Requests[c] : conn[c].cmd.key = q[2]
  BY <1>1 DEF ConnOK, Pending
<1>6. conn[d].cmd \in Cmds
  BY <1>1 DEF ConnOK, Pending
<1> QED BY <1>2, <1>4, <1>5, <1>6

(* Initially store, log and connections are all empty. *)
LEMMA InitLog == Init => LogInv
<1> SUFFICES ASSUME Init, NEW k \in Keys \ lost
             PROVE  Covers(k, Restored, db, Held, Appending, now)
  BY DEF LogInv
<1>1. Appending = {} /\ db = map_new /\ aof = <<>> /\ buf = <<>>
  BY DEF Init, Appending, idle
<1>2. <<>> \in Seq(Pieces) /\ WholeFile(<<>>) /\ Len(<<>>) = 0
  BY EmptySeq DEF WholeFile
<1>3. <<>> \o <<>> = <<>>
  OBVIOUS
<1>4. commands(<<>>) \in Seq(Cmds) /\ commands(<<>>) = [i \in 1..0 |-> <<>>[i].cmd]
  BY <1>2, CommandsType, CommandsWhole
<1>5. commands(<<>>) = <<>>
  BY <1>4
<1>6. replay(<<>>, now) = map_new
  BY EmptySeq, ReplayApplied, AppliedEmpty
<1>7. Restored = map_new
  BY <1>1, <1>3, <1>5, <1>6 DEF Restored
<1> QED BY <1>1, <1>7, SameTrans DEF Covers

\* The command of c gets into the log, all of it.
LEMMA LogGrows ==
  ASSUME TypeInv, LogInv, OneWriter, Plainly, NEW c \in Conns, conn[c].pc = "persist",
         WholeFile(aof \o buf), UNCHANGED <<appendonly, db, now, lost>>,
         NEW new, new.pc # "persist", conn' = [conn EXCEPT ![c] = new],
         aof' \o buf' = Append(aof \o buf, piece("whole", conn[c].cmd))
  PROVE  LogInv'
<1> SUFFICES ASSUME appendonly, NEW k \in Keys \ lost
             PROVE  Covers(k, Restored, db, Held, Appending, now)'
  BY DEF LogInv
<1>1. conn \in [Conns -> ConnRec] /\ now \in Nat
  BY Bounds DEF TypeInv, ConnsInv, StoresInv
<1>2. conn'[c] = new /\ \A d \in Conns : d # c => conn'[d] = conn[d]
  BY <1>1
<1>3. /\ Appending' = Appending \ {c} /\ c \in Appending
      /\ \A d \in Appending \ {c} : Held'[d] = Held[d]
  BY <1>2 DEF Appending, Held
<1>4. Held[c] = conn[c].cmd
  BY DEF Held
<1>5. IsGoodStore(Restored) /\ aof \o buf \in Seq(Pieces)
  BY <1>1, RestoredGood DEF Restored
<1>6. Restored' = dispatch(Restored, Held[c], now).db
  <2> DEFINE p == piece("whole", conn[c].cmd)
  <2>1. p \in Pieces /\ p.part = "whole" /\ p.cmd = conn[c].cmd
    BY PieceType DEF piece
  <2> HIDE DEF p
  <2>2. replay(commands(Append(aof \o buf, p)), now)
          = dispatch(replay(commands(aof \o buf), now), p.cmd, now).db
    BY <1>5, <2>1, LogAppend
  <2>3. Restored' = replay(commands(Append(aof \o buf, p)), now)
    BY DEF Restored, p
  <2> QED BY <1>4, <2>1, <2>2, <2>3 DEF Restored
<1>7. \A e \in Appending : Held[e] \in Cmds /\ (e # c => Held[e].key # Held[c].key)
  BY Writers DEF Appending, Pending, TypeInv, ConnsInv, ConnOK, Held
<1>8. Covers(k, Restored, db, Held, Appending, now)
  BY DEF LogInv
<1>9. Covers(k, dispatch(Restored, Held[c], now).db, db, Held, Appending \ {c}, now)
  BY <1>1, <1>3, <1>5, <1>7, <1>8, CoversDeliver
<1>10. Covers(k, dispatch(Restored, Held[c], now).db, db, Held', Appending \ {c}, now)
  BY <1>3, <1>9, CoversCong
<1>11. Covers(k, Restored', db', Held', Appending', now')
  BY <1>3, <1>6, <1>10
<1> QED BY <1>11 DEF Covers

\* The command of c does not get into the log, which holds what it held.
LEMMA LogDropped ==
  ASSUME LogInv, NEW c \in Conns, conn[c].pc = "persist", conn \in [Conns -> ConnRec],
         UNCHANGED <<appendonly, db, now>>, lost' = lost \cup {conn[c].cmd.key},
         NEW new, new.pc # "persist", conn' = [conn EXCEPT ![c] = new],
         aof' \o buf' = aof \o buf
  PROVE  LogInv'
<1> SUFFICES ASSUME appendonly, NEW k \in Keys \ lost, k # conn[c].cmd.key
             PROVE  Covers(k, Restored, db, Held, Appending, now)'
  BY DEF LogInv
<1>1. conn'[c] = new /\ \A d \in Conns : d # c => conn'[d] = conn[d]
  OBVIOUS
<1>2. /\ Appending' = Appending \ {c}
      /\ \A d \in Appending \ {c} : Held'[d] = Held[d]
  BY <1>1 DEF Appending, Held
<1>3. Held[c].key # k
  BY DEF Held
<1>4. Covers(k, Restored, db, Held, Appending, now)
  BY DEF LogInv
<1>5. Covers(k, Restored, db, Held, Appending \ {c}, now)
  BY <1>3, <1>4 DEF Covers
<1>6. Covers(k, Restored, db, Held', Appending \ {c}, now)
  BY <1>2, <1>5, CoversCong
<1>7. Restored' = Restored
  BY DEF Restored
<1> QED BY <1>2, <1>6, <1>7 DEF Covers

\* What a connection that takes up a request does to the store and to itself.
LEMMA ExecuteShape ==
  ASSUME TypeInv, NEW c \in Conns, Execute(c)
  PROVE  \E x \in Cmds :
           /\ \E q \in Requests[c] : x.key = q[2]
           /\ db' = dispatch(db, x, now).db
           /\ \A d \in Conns : d # c => conn'[d] = conn[d]
           /\ conn[c].pc = "ready"
           /\ dispatch(db, x, now).persist =>
                conn'[c].pc = "persist" /\ conn'[c].cmd = x
           /\ ~dispatch(db, x, now).persist => conn' = conn
           /\ \A r \in Replicas : raced'[r] =
                IF sync[r].at = "dump" THEN raced[r] \cup {x.key} ELSE raced[r]
<1>1. PICK q \in Requests[c] :
        LET id == used.writes + 1
            cmd == command(q[1], q[2], <<id>>, q[3], id)
            outcome == dispatch(db, cmd, now)
        IN /\ db' = outcome.db
           /\ conn' = [conn EXCEPT ![c] =
                  IF outcome.persist
                  THEN [conn[c] EXCEPT !.pc = "persist", !.cmd = cmd,
                                       !.out = @ \cup {id}]
                  ELSE conn[c]]
           /\ raced' = [r \in Replicas |->
                  IF sync[r].at = "dump" THEN raced[r] \cup {cmd.key} ELSE raced[r]]
  BY DEF Execute
<1> DEFINE id == used.writes + 1
           x == command(q[1], q[2], <<id>>, q[3], id)
           filled == [conn[c] EXCEPT !.pc = "persist", !.cmd = x, !.out = @ \cup {id}]
           new == IF dispatch(db, x, now).persist THEN filled ELSE conn[c]
<1>2. conn[c].pc = "ready" /\ used.writes < MaxWrites
  BY DEF Execute
<1>3. id \in 1..MaxWrites
  BY <1>2, Bounds DEF TypeInv, ConnsInv
<1>4. x \in Cmds /\ x.key = q[2]
  <2>1. q \in Ops \X Keys \X Nat
    BY PrimaryAssumption
  <2>2. q[1] \in Ops /\ q[2] \in Keys /\ q[3] \in Nat /\ (Plainly => q[1] \in Untimed)
    BY <2>1 DEF Plainly
  <2>3. <<id>> \in Seq(1..MaxWrites) /\ <<id>> # <<>>
    BY <1>3
  <2>4. id \in 0..MaxWrites
    BY <1>3, Bounds
  <2> HIDE DEF id
  <2> QED BY <2>2, <2>3, <2>4 DEF Cmds, Command, command, Sound
<1>5. /\ db' = dispatch(db, x, now).db
      /\ conn' = [conn EXCEPT ![c] = new]
      /\ raced' = [r \in Replicas |->
             IF sync[r].at = "dump" THEN raced[r] \cup {x.key} ELSE raced[r]]
  BY <1>1
<1> HIDE DEF x, id
<1>6. conn \in [Conns -> ConnRec]
  BY DEF TypeInv, ConnsInv
<1>7. filled.pc = "persist" /\ filled.cmd = x
  BY <1>6 DEF ConnRec
<1> HIDE DEF filled, new
<1>8. conn'[c] = new /\ \A d \in Conns : d # c => conn'[d] = conn[d]
  BY <1>5, <1>6
<1>9. dispatch(db, x, now).persist => conn'[c].pc = "persist" /\ conn'[c].cmd = x
  BY <1>7, <1>8 DEF new
<1>10. ~dispatch(db, x, now).persist => conn' = conn
  <2> SUFFICES ASSUME ~dispatch(db, x, now).persist PROVE conn' = conn
    OBVIOUS
  <2>1. new = conn[c]
    BY DEF new
  <2> QED BY <1>5, <1>6, <2>1
<1>11. \A r \in Replicas : raced'[r] =
         IF sync[r].at = "dump" THEN raced[r] \cup {x.key} ELSE raced[r]
  BY <1>5
<1> QED BY <1>2, <1>4, <1>5, <1>8, <1>9, <1>10, <1>11

\* A connection takes up a request, and a store m covers the primary's.
LEMMA ExecuteCovered ==
  ASSUME TypeInv, OneWriter, Plainly, NEW c \in Conns, Execute(c),
         NEW x \in Cmds, \E q \in Requests[c] : x.key = q[2],
         db' = dispatch(db, x, now).db,
         \A d \in Conns : d # c => conn'[d] = conn[d],
         dispatch(db, x, now).persist => conn'[c].cmd = x,
         ~dispatch(db, x, now).persist => conn' = conn,
         NEW S \in SUBSET Pending, c \notin S, NEW T,
         T = IF dispatch(db, x, now).persist THEN S \cup {c} ELSE S,
         NEW m, IsGoodStore(m), NEW t \in Nat, NEW k \in Keys,
         Covers(k, m, db, Held, S, t)
  PROVE  Covers(k, m, db', Held', T, t)
<1>1. IsGoodStore(db) /\ now \in Nat
  BY Bounds DEF TypeInv, StoresInv
<1>2. S \subseteq Conns
  BY DEF Pending
<1>3. \A e \in S : Held[e] \in Cmds /\ Held[e].key # x.key
  BY <1>2, Writers
<1>4. \A e \in S : Held'[e] = Held[e]
  BY <1>2 DEF Held
<1>5. CASE dispatch(db, x, now).persist
  <2>1. Held'[c] = x
    BY <1>5 DEF Held
  <2>2. Covers(k, m, dispatch(db, x, now).db, Held', S \cup {c}, t)
    BY <1>1, <1>3, <1>4, <2>1, CoversExecute
  <2> QED BY <1>5, <2>2
<1>6. CASE ~dispatch(db, x, now).persist
  <2>1. Covers(k, m, dispatch(db, x, now).db, Held, S, t)
    BY <1>1, <1>6, CoversUnchanged
  <2>2. Covers(k, m, dispatch(db, x, now).db, Held', S, t)
    BY <1>4, <2>1, CoversCong
  <2> QED BY <1>6, <2>2
<1> QED BY <1>5, <1>6

(* Executing a command keeps the log covering the store: what is new is
   held by the connection that has still to append it. *)
LEMMA ExecuteLog ==
  ASSUME TypeInv, LogInv, OneWriter, Plainly, NEW c \in Conns, Execute(c)
  PROVE  LogInv'
<1>1. PICK x \in Cmds :
        /\ \E q \in Requests[c] : x.key = q[2]
        /\ db' = dispatch(db, x, now).db
        /\ \A d \in Conns : d # c => conn'[d] = conn[d]
        /\ conn[c].pc = "ready"
        /\ dispatch(db, x, now).persist => conn'[c].pc = "persist" /\ conn'[c].cmd = x
        /\ ~dispatch(db, x, now).persist => conn' = conn
  BY ExecuteShape
<1>2. UNCHANGED <<appendonly, now, aof, buf, lost>>
  BY DEF Execute
<1> SUFFICES ASSUME appendonly, NEW k \in Keys \ lost
             PROVE  Covers(k, Restored, db, Held, Appending, now)'
  BY <1>2 DEF LogInv
<1>3. /\ Appending \in SUBSET Pending /\ c \notin Appending
      /\ Appending' = IF dispatch(db, x, now).persist THEN Appending \cup {c} ELSE Appending
  BY <1>1 DEF Appending, Pending
<1>4. now \in Nat /\ IsGoodStore(Restored)
  BY RestoredGood, Bounds DEF TypeInv, StoresInv, Restored
<1>5. Covers(k, Restored, db, Held, Appending, now)
  BY DEF LogInv
<1>6. Covers(k, Restored, db', Held', Appending', now)
  BY <1>1, <1>3, <1>4, <1>5, ExecuteCovered
<1>7. Restored' = Restored
  BY <1>2 DEF Restored
<1> QED BY <1>2, <1>6, <1>7 DEF Covers

\* The file, the store and the connections that append are left alone.
LEMMA LogKept ==
  ASSUME LogInv, UNCHANGED <<appendonly, aof, buf, db, now, lost>>, Appending' = Appending,
         \A d \in Appending : Held'[d] = Held[d]
  PROVE  LogInv'
<1> SUFFICES ASSUME appendonly, NEW k \in Keys \ lost
             PROVE  Covers(k, Restored, db, Held, Appending, now)'
  BY DEF LogInv
<1>1. Covers(k, Restored, db, Held, Appending, now)
  BY DEF LogInv
<1>2. Covers(k, Restored, db, Held', Appending, now)
  BY <1>1, CoversCong
<1>3. Restored' = Restored
  BY DEF Restored
<1> QED BY <1>2, <1>3 DEF Covers

\* The clock decides about nothing.
LEMMA TickLog ==
  ASSUME TypeInv, LogInv, Plainly, Tick
  PROVE  LogInv'
<1>1. now' = now + 1 /\ UNCHANGED <<appendonly, aof, buf, db, conn, lost>>
  BY DEF Tick
<1>2. now \in Nat /\ now' \in Nat
  BY <1>1, Bounds DEF TypeInv, StoresInv
<1> SUFFICES ASSUME appendonly, NEW k \in Keys \ lost
             PROVE  Covers(k, Restored, db, Held, Appending, now)'
  BY <1>1 DEF LogInv
<1> DEFINE u == commands(aof \o buf)
<1>3. u \in Seq(PlainCommand(Frags)) /\ u \in Seq(Cmds)
  <2>1. u \in Seq(Cmds)
    BY <1>2, RestoredGood, CommandsType
  <2>2. Cmds \subseteq PlainCommand(Frags)
    BY CmdsSound
  <2> QED BY <2>1, <2>2, SeqMonotonic
<1>4. IsGoodStore(Restored)
  BY <1>2, RestoredGood DEF Restored
<1>5. Restored' = replay(u, now') /\ Restored = replay(u, now)
  BY <1>1 DEF Restored
<1> HIDE DEF u
<1>6. StoreOf(map_new, Frags) /\ Lasting(map_new)
  BY EmptyStore
<1>7. applied(map_new, u, now') = applied(map_new, u, now)
  BY <1>2, <1>3, <1>6, AppliedUntimed
<1>8. Restored' = Restored
  BY <1>3, <1>5, <1>7, ReplayApplied
<1>9. ASSUME NEW c \in Appending PROVE dispatch(Restored, Held[c], now') = dispatch(Restored, Held[c], now)
  <2>1. Held[c] \in Cmds
    BY DEF Appending, Held, TypeInv, ConnsInv, ConnOK
  <2> QED BY <1>4, <2>1, PlainFacts, DispatchUntimed
<1>10. Held' = Held /\ Appending' = Appending
  BY <1>1 DEF Held, Appending
<1>11. Covers(k, Restored, db, Held, Appending, now)
  BY DEF LogInv
<1>12. Covers(k, Restored, db, Held, Appending, now')
  BY <1>9, <1>11 DEF Covers
<1> QED BY <1>1, <1>8, <1>10, <1>12 DEF Covers

\* No step parts the log from the store.
LEMMA NextLog ==
  ASSUME ~Torn, OneWriter, Plainly, TypeInv, AckInv, LogInv, [Next]_vars
  PROVE  LogInv'
<1>1. /\ conn \in [Conns -> ConnRec] /\ aof \in Seq(Pieces) /\ buf \in Seq(Pieces)
      /\ WholeFile(aof \o buf) /\ aof \o buf \in Seq(Pieces)
  BY LongerFile, ConcatProperties DEF TypeInv, ConnsInv, FilesInv, AckInv
<1>2. ASSUME NEW c \in Conns, SkipAof(c) PROVE LogInv'
  BY <1>2 DEF SkipAof, LogInv
<1>3. ASSUME NEW c \in Conns, AppendAof(c) PROVE LogInv'
  <2> DEFINE new == [conn[c] EXCEPT !.pc = "propagate"]
             p == piece("whole", conn[c].cmd)
  <2>1. /\ conn[c].pc = "persist" /\ conn' = [conn EXCEPT ![c] = new]
        /\ aof' = Append(aof \o buf, p) /\ buf' = <<>>
        /\ UNCHANGED <<appendonly, db, now, lost>>
    BY <1>3 DEF AppendAof
  <2>2. new.pc # "persist"
    BY <1>1 DEF ConnRec
  <2>3. Append(aof \o buf, p) \in Seq(Pieces)
    BY <2>1, PieceType
  <2> HIDE DEF p
  <2>4. aof' \o buf' = Append(aof \o buf, p)
    BY <2>1, <2>3, ConcatEmptySeq
  <2> HIDE DEF new
  <2> QED BY <1>1, <2>1, <2>2, <2>4, LogGrows DEF p
<1>4. ASSUME NEW c \in Conns, FailAof(c) PROVE LogInv'
  <2> DEFINE new == [conn[c] EXCEPT !.pc = "propagate", !.quit = TRUE]
             p == piece("whole", conn[c].cmd)
             b == Append(buf, p)
  <2>1. /\ conn[c].pc = "persist" /\ UNCHANGED <<appendonly, db, now, lost>>
        /\ conn' = [conn EXCEPT ![c].pc = "propagate", ![c].quit = TRUE]
    BY <1>4 DEF FailAof
  <2>2. conn' = [conn EXCEPT ![c] = new] /\ new.pc # "persist"
    BY <1>1, <2>1 DEF ConnRec
  <2>3. PICK cut \in cuts(b) : aof' = aof \o cut[1] /\ buf' = cut[2]
    BY <1>4 DEF FailAof
  <2>4. p \in Pieces /\ b \in Seq(Pieces)
    BY <2>1, PieceType
  <2> HIDE DEF b, new
  <2>5. cut[1] \in Seq(Pieces) /\ cut[2] \in Seq(Pieces) /\ cut[1] \o cut[2] = b
    BY <2>4, CutsType, CutsWhole
  <2>6. aof' \o buf' = aof \o b
    <3>1. \A s1, s2, s3 \in Seq(Pieces) : (s1 \o s2) \o s3 = s1 \o (s2 \o s3)
      BY ConcatAssociative
    <3>2. (aof \o cut[1]) \o cut[2] = aof \o b
      BY <1>1, <2>5, <3>1
    <3> QED BY <2>3, <3>2
  <2> HIDE DEF p
  <2>7. /\ b = buf \o <<p>> /\ <<p>> \in Seq(Pieces)
        /\ Append(aof \o buf, p) = (aof \o buf) \o <<p>>
    BY <1>1, <2>4, AppendIsConcat DEF b
  <2>8. aof \o b = Append(aof \o buf, p)
    BY <1>1, <2>7, ConcatAssociative
  <2> QED BY <1>1, <2>1, <2>2, <2>6, <2>8, LogGrows DEF p
<1>5. ASSUME NEW c \in Conns, Propagate(c) PROVE LogInv'
  <2> DEFINE new == [conn[c] EXCEPT !.pc = "ready"]
  <2>1. /\ conn[c].pc = "propagate" /\ conn' = [conn EXCEPT ![c] = new]
        /\ UNCHANGED <<appendonly, aof, buf, db, now, lost>>
    BY <1>5 DEF Propagate
  <2>2. new.pc = "ready"
    BY <1>1 DEF ConnRec
  <2> HIDE DEF new
  <2>3. conn'[c] = new /\ \A d \in Conns : d # c => conn'[d] = conn[d]
    BY <1>1, <2>1
  <2>4. Appending' = Appending /\ \A d \in Appending : Held'[d] = Held[d]
    BY <2>1, <2>2, <2>3 DEF Appending, Held
  <2> QED BY <2>1, <2>4, LogKept
<1>6. ASSUME NEW c \in Conns, Flush(c) PROVE LogInv'
  <2>1. /\ conn[c].pc = "ready" /\ conn' = [conn EXCEPT ![c] = idle]
        /\ UNCHANGED <<appendonly, aof, buf, db, now, lost>>
    BY <1>6 DEF Flush
  <2>2. conn'[c] = idle /\ idle.pc = "ready" /\ \A d \in Conns : d # c => conn'[d] = conn[d]
    BY <1>1, <2>1 DEF idle
  <2>3. Appending' = Appending /\ \A d \in Appending : Held'[d] = Held[d]
    BY <2>1, <2>2 DEF Appending, Held
  <2> QED BY <2>1, <2>3, LogKept
<1>7. ASSUME Restart PROVE LogInv'
  <2>1. /\ db' = recovered /\ buf' = <<>> /\ conn' = [c \in Conns |-> idle]
        /\ UNCHANGED <<appendonly, aof, now>>
    BY <1>7 DEF Restart
  <2>2. Appending' = {}
    BY <2>1 DEF Appending, idle
  <2>3. aof' \o buf' = aof
    BY <1>1, <2>1, ConcatEmptySeq
  <2>4. appendonly => Restored' = db'
    BY <2>1, <2>3 DEF Restored, recovered
  <2>5. \A k : appendonly => Same(k, Restored', db')
    BY <2>4, SameTrans
  <2>6. appendonly => \A k \in Keys : Covers(k, Restored', db', Held', {}, now')
    BY <2>5 DEF Covers
  <2> QED BY <2>1, <2>2, <2>6 DEF LogInv, Covers
<1>8. ASSUME UNCHANGED <<appendonly, aof, buf, conn, db, now, lost>> PROVE LogInv'
  <2>1. Appending' = Appending /\ Held' = Held
    BY <1>8 DEF Appending, Held
  <2> QED BY <1>8, <2>1, LogKept
<1>9. ASSUME NEW r \in Replicas,
             Connect(r) \/ DumpShard(r) \/ Register(r) \/ Apply(r) \/ Break(r)
      PROVE  UNCHANGED <<appendonly, aof, buf, conn, db, now, lost>>
  BY <1>9 DEF Connect, DumpShard, Register, Apply, Break
<1>10. UNCHANGED vars => UNCHANGED <<appendonly, aof, buf, conn, db, now, lost>>
  BY DEF vars
<1>11. ASSUME NEW c \in Conns, DropAof(c) PROVE LogInv'
  <2> DEFINE new == [conn[c] EXCEPT !.pc = "propagate", !.quit = TRUE]
  <2>1. /\ conn[c].pc = "persist" /\ UNCHANGED <<appendonly, db, now>>
        /\ lost' = lost \cup {conn[c].cmd.key}
        /\ conn' = [conn EXCEPT ![c].pc = "propagate", ![c].quit = TRUE]
    BY <1>11 DEF DropAof
  <2>2. conn' = [conn EXCEPT ![c] = new] /\ new.pc # "persist"
    BY <1>1, <2>1 DEF ConnRec
  <2> HIDE DEF new
  <2>3. PICK cut \in drops(buf, conn[c].cmd) : aof' = aof \o cut[1] /\ buf' = cut[2]
    BY <1>11 DEF DropAof
  <2>4. conn[c].cmd \in Cmds
    BY <2>1 DEF TypeInv, ConnsInv, ConnOK
  <2>5. cut[1] \in Seq(Pieces) /\ cut[2] \in Seq(Pieces) /\ cut[1] \o cut[2] = buf
    BY <1>1, <2>4, DropsType, DropsWhole
  <2>6. \A s1, s2, s3 \in Seq(Pieces) : (s1 \o s2) \o s3 = s1 \o (s2 \o s3)
    BY ConcatAssociative
  <2>7. (aof \o cut[1]) \o cut[2] = aof \o buf
    BY <1>1, <2>5, <2>6
  <2>8. aof' \o buf' = aof \o buf
    BY <2>3, <2>7
  <2> QED BY <1>1, <2>1, <2>2, <2>8, LogDropped
<1> QED BY <1>2, <1>3, <1>4, <1>5, <1>6, <1>7, <1>8, <1>9, <1>10, <1>11,
     ExecuteLog, TickLog DEF Next

\* Stores without deadlines that hold the same show clients the same.
LEMMA SameAgree ==
  ASSUME NEW k, NEW m1, NEW m2, Lasting(m1), Lasting(m2), Same(k, m1, m2)
  PROVE  Agree(k, m1, m2)
<1>1. ASSUME NEW m, Lasting(m) PROVE Visible(m, now) = [j \in DOMAIN m |-> m[j]]
  BY <1>1 DEF Visible, gone, Lasting
<1> QED BY <1>1 DEF Same, Agree

\* If a failing append leaves whole commands behind, every key has one
\* connection that writes it, and no command depends on the clock, then
\* replaying the log gives clients what the store does, for every key that has
\* no write between store and log and none that a failing write_all lost since
\* the last start -- whatever flushes fail and whenever the process dies
\* (conn.rs run, Aof::append, replay_file).
THEOREM LogFaithful == ~Torn /\ OneWriter /\ Plainly => (Spec => []LogMatchesStore)
<1> SUFFICES ASSUME ~Torn, OneWriter, Plainly PROVE Spec => []LogMatchesStore
  OBVIOUS
<1>1. TypeInv /\ LogInv => LogMatchesStore
  <2> SUFFICES ASSUME TypeInv, LogInv, appendonly, NEW k \in Keys \ lost,
                      \A c \in Conns : conn[c].pc = "persist" => conn[c].cmd.key # k
               PROVE  Agree(k, replay(commands(aof \o buf), now), db)
    BY DEF LogMatchesStore
  <2>1. \A c \in Appending : Held[c].key # k
    BY DEF Appending, Held
  <2>2. Same(k, Restored, db)
    BY <2>1 DEF LogInv, Covers
  <2>3. Lasting(Restored) /\ Lasting(db)
    BY RestoredGood, PlainFacts, Bounds DEF TypeInv, StoresInv, Restored
  <2>4. Agree(k, Restored, db)
    BY <2>2, <2>3, SameAgree
  <2> QED BY <2>4 DEF Restored
<1>2. TypeInv /\ AckInv /\ LogInv /\ [Next]_vars => LogInv'
  BY NextLog
<1>3. TypeInv /\ AckInv /\ [Next]_vars => AckInv'
  BY NextAck
<1> QED BY <1>1, <1>2, <1>3, InitAck, InitLog, AlwaysType, PTL DEF Spec

-----------------------------------------------------------------------------
(* Replicas get what the primary has                                       *)

\* What is on its way to a replica makes a store of what it has.
LEMMA EndGood ==
  ASSUME TypeInv, NEW r \in Replicas
  PROVE  IsGoodStore(End(r)) /\ IsGoodStore(DumpEnd(r))
<1>1. IsGoodStore(rdb[r]) /\ chan[r] \in Seq(Cmds) /\ sync[r].dump \in Seq(Cmds)
  BY DEF TypeInv, StoresInv, SyncInv, SyncRec
<1> QED BY <1>1, EmptyGood, AppliedGood DEF End, DumpEnd

\* A dump goes on: writes may finish, and none to k begins.
LEMMA DumpKept ==
  ASSUME NEW r, NEW k, Dumping(r, k), sync'[r] = sync[r], rdb'[r] = rdb[r],
         Same(k, db, db'), \A c \in Pending' : Held'[c].key # k
  PROVE  Dumping(r, k)'
<1>1. DumpEnd(r)' = DumpEnd(r)
  BY DEF DumpEnd
<1>2. \A i \in DOMAIN Shards : Shards[i] = k =>
        IF i < sync[r].next THEN Same(k, DumpEnd(r), db') ELSE k \notin DOMAIN DumpEnd(r)
  BY SameTrans DEF Dumping
<1> QED BY <1>1, <1>2 DEF Dumping, Same

\* Nothing of a replica's changes, and no connection starts or ends a write.
LEMMA ReplicaKept ==
  ASSUME ReplicaInv, NEW r \in Replicas, NEW k \in Keys, k \notin raced[r],
         sync'[r] = sync[r], chan'[r] = chan[r], rdb'[r] = rdb[r],
         db' = db, Pending' = Pending, \A c \in Pending : Held'[c] = Held[c]
  PROVE  ReplicaOK(r, k)'
<1>1. ReplicaOK(r, k)
  BY DEF ReplicaInv
<1>2. sync[r].at = "dump" => Dumping(r, k)'
  <2> SUFFICES ASSUME sync[r].at = "dump" PROVE Dumping(r, k)'
    OBVIOUS
  <2>1. Dumping(r, k)
    BY <1>1 DEF ReplicaOK
  <2>2. \A c \in Pending' : Held'[c].key # k
    BY <2>1 DEF Dumping
  <2>3. Same(k, db, db')
    BY SameTrans
  <2> QED BY <2>1, <2>2, <2>3, DumpKept
<1>3. sync[r].at = "live" => Covers(k, End(r), db, Held, Pending, 0)'
  <2> SUFFICES ASSUME sync[r].at = "live" PROVE Covers(k, End(r), db, Held, Pending, 0)'
    OBVIOUS
  <2>1. Covers(k, End(r), db, Held, Pending, 0)
    BY <1>1 DEF ReplicaOK
  <2>2. Covers(k, End(r), db, Held', Pending, 0)
    BY <2>1, CoversCong
  <2>3. End(r)' = End(r)
    BY DEF End
  <2> QED BY <2>2, <2>3 DEF Covers
<1> QED BY <1>2, <1>3 DEF ReplicaOK

(* Executing a command keeps the replicas' ends right: the command is held
   by its connection until propagate sends it. *)
LEMMA ExecuteReplica ==
  ASSUME TypeInv, ReplicaInv, OneWriter, Plainly, NEW c \in Conns, Execute(c)
  PROVE  ReplicaInv'
<1>1. PICK x \in Cmds :
        /\ \E q \in Requests[c] : x.key = q[2]
        /\ db' = dispatch(db, x, now).db
        /\ \A d \in Conns : d # c => conn'[d] = conn[d]
        /\ conn[c].pc = "ready"
        /\ dispatch(db, x, now).persist => conn'[c].pc = "persist" /\ conn'[c].cmd = x
        /\ ~dispatch(db, x, now).persist => conn' = conn
        /\ \A r \in Replicas : raced'[r] =
             IF sync[r].at = "dump" THEN raced[r] \cup {x.key} ELSE raced[r]
  BY ExecuteShape
<1>2. UNCHANGED <<now, sync, chan, rdb>>
  BY DEF Execute
<1>3. /\ c \notin Pending
      /\ Pending' = IF dispatch(db, x, now).persist THEN Pending \cup {c} ELSE Pending
  BY <1>1 DEF Pending
<1>4. \A d \in Pending : Held'[d] = Held[d]
  BY <1>1, <1>3 DEF Held, Pending
<1> SUFFICES ASSUME NEW r \in Replicas, NEW k \in Keys, k \notin raced'[r]
             PROVE  ReplicaOK(r, k)'
  BY DEF ReplicaInv
<1>5. k \notin raced[r] /\ ReplicaOK(r, k)
  BY <1>1 DEF ReplicaInv
<1>6. ASSUME sync[r].at = "dump" PROVE Dumping(r, k)'
  <2>1. k # x.key
    BY <1>1, <1>6
  <2>2. Dumping(r, k)
    BY <1>5, <1>6 DEF ReplicaOK
  <2>3. Same(k, dispatch(db, x, now).db, db)
    BY <2>1, PlainFacts, DispatchLocal DEF TypeInv, StoresInv
  <2>4. Same(k, db, db')
    BY <1>1, <2>3, SameTrans
  <2>5. c \in Pending' => Held'[c] = x
    BY <1>1, <1>3 DEF Held
  <2>6. \A d \in Pending' : Held'[d].key # k
    BY <1>3, <1>4, <2>1, <2>2, <2>5 DEF Dumping
  <2> QED BY <1>2, <2>2, <2>4, <2>6, DumpKept
<1>7. ASSUME sync[r].at = "live" PROVE Covers(k, End(r), db, Held, Pending, 0)'
  <2>1. Covers(k, End(r), db, Held, Pending, 0)
    BY <1>5, <1>7 DEF ReplicaOK
  <2>2. IsGoodStore(End(r))
    BY EndGood
  <2> DEFINE m == End(r)
  <2>3. m' = m
    BY <1>2 DEF End
  <2> HIDE DEF m
  <2>4. Covers(k, m, db', Held', Pending', 0)
    <3>1. Covers(k, m, db, Held, Pending, 0) /\ IsGoodStore(m)
      BY <2>1, <2>2 DEF m
    <3>2. Pending \in SUBSET Pending
      OBVIOUS
    <3> QED BY <1>1, <1>3, <3>1, <3>2, ExecuteCovered
  <2> QED BY <2>3, <2>4 DEF Covers, m
<1> QED BY <1>2, <1>6, <1>7 DEF ReplicaOK

(* propagate puts the held command at the end of each stream, which then
   ends where the store is. *)
LEMMA PropagateReplica ==
  ASSUME TypeInv, ReplicaInv, OneWriter, Plainly, NEW c \in Conns, Propagate(c)
  PROVE  ReplicaInv'
<1> DEFINE new == [conn[c] EXCEPT !.pc = "ready"]
<1>1. /\ conn[c].pc = "propagate" /\ conn' = [conn EXCEPT ![c] = new]
      /\ chan' = [r \in Replicas |->
            IF r \in attached THEN Append(chan[r], conn[c].cmd) ELSE chan[r]]
      /\ UNCHANGED <<db, sync, rdb, raced>>
  BY DEF Propagate
<1>2. conn \in [Conns -> ConnRec]
  BY DEF TypeInv, ConnsInv
<1>3. new.pc = "ready"
  BY <1>2 DEF ConnRec
<1> HIDE DEF new
<1>4. conn'[c] = new /\ \A d \in Conns : d # c => conn'[d] = conn[d]
  BY <1>1, <1>2
<1>5. /\ Pending' = Pending \ {c} /\ c \in Pending /\ Held[c] = conn[c].cmd
      /\ \A d \in Pending \ {c} : Held'[d] = Held[d]
  BY <1>1, <1>3, <1>4 DEF Pending, Held
<1>6. \A e \in Pending : Held[e] \in Cmds /\ (e # c => Held[e].key # Held[c].key)
  <2>1. Pending \subseteq Conns
    BY DEF Pending
  <2>2. \A e \in Pending : Held[e] \in Cmds
    BY DEF Pending, TypeInv, ConnsInv, ConnOK, Held
  <2> QED BY <1>5, <2>1, <2>2, Writers
<1> SUFFICES ASSUME NEW r \in Replicas, NEW k \in Keys, k \notin raced[r]
             PROVE  ReplicaOK(r, k)'
  BY <1>1 DEF ReplicaInv
<1>7. ReplicaOK(r, k)
  BY DEF ReplicaInv
<1>8. ASSUME sync[r].at = "dump" PROVE Dumping(r, k)'
  <2>1. Dumping(r, k)
    BY <1>7, <1>8 DEF ReplicaOK
  <2>2. \A d \in Pending' : Held'[d].key # k
    BY <1>5, <2>1 DEF Dumping
  <2>3. Same(k, db, db')
    BY <1>1, SameTrans
  <2> QED BY <1>1, <2>1, <2>2, <2>3, DumpKept
<1>9. ASSUME sync[r].at = "live" PROVE Covers(k, End(r), db, Held, Pending, 0)'
  <2>1. Covers(k, End(r), db, Held, Pending, 0)
    BY <1>7, <1>9 DEF ReplicaOK
  <2>2. IsGoodStore(End(r)) /\ chan[r] \in Seq(Cmds)
    BY EndGood DEF TypeInv, SyncInv
  <2>3. chan'[r] = Append(chan[r], Held[c]) /\ rdb'[r] = rdb[r]
    BY <1>1, <1>5, <1>9 DEF attached
  <2>4. applied(rdb[r], Append(chan[r], Held[c]), 0)
          = dispatch(applied(rdb[r], chan[r], 0), Held[c], 0).db
    BY <1>5, <1>6, <2>2, AppliedAppend
  <2>5. End(r)' = dispatch(End(r), Held[c], 0).db
    BY <2>3, <2>4 DEF End
  <2> DEFINE m == End(r)
  <2>6. Covers(k, m, db, Held, Pending, 0) /\ IsGoodStore(m)
    BY <2>1, <2>2
  <2> HIDE DEF m
  <2>7. Covers(k, dispatch(m, Held[c], 0).db, db, Held, Pending \ {c}, 0)
    BY <1>5, <1>6, <2>6, CoversDeliver
  <2>8. Covers(k, dispatch(m, Held[c], 0).db, db, Held', Pending \ {c}, 0)
    BY <1>5, <2>7, CoversCong
  <2>9. Covers(k, End(r)', db', Held', Pending', 0)
    BY <1>1, <1>5, <2>5, <2>8 DEF m
  <2> QED BY <2>9 DEF Covers
<1> QED BY <1>1, <1>8, <1>9 DEF ReplicaOK

(* A SYNC that begins has dumped nothing yet. *)
LEMMA ConnectReplica ==
  ASSUME TypeInv, ReplicaInv, NEW r \in Replicas, Connect(r)
  PROVE  ReplicaInv'
<1> DEFINE new == [nosync EXCEPT !.at = "dump", !.time = now]
           busy == {conn[c].cmd.key : c \in {d \in Conns : conn[d].pc # "ready"}}
           keys == IF rdb[r] = map_new THEN busy ELSE Keys
<1>1. /\ sync' = [sync EXCEPT ![r] = new] /\ raced' = [raced EXCEPT ![r] = keys]
      /\ UNCHANGED <<db, conn, chan, rdb>>
  BY DEF Connect
<1>2. new.at = "dump" /\ new.next = 1 /\ new.dump = <<>>
  BY DEF nosync
<1>3. DOMAIN sync = Replicas /\ DOMAIN raced = Replicas
  BY DEF TypeInv, SyncInv
<1>4. Pending' = Pending /\ Held' = Held
  BY <1>1 DEF Pending, Held
<1>5. \A k \in Keys : k \notin keys => rdb[r] = map_new /\ \A c \in Pending : Held[c].key # k
  BY DEF Pending, Held
<1> HIDE DEF new, keys
<1>6. /\ sync'[r] = new /\ raced'[r] = keys
      /\ \A s \in Replicas : s # r => sync'[s] = sync[s] /\ raced'[s] = raced[s]
  BY <1>1, <1>3
<1> SUFFICES ASSUME NEW s \in Replicas, NEW k \in Keys, k \notin raced'[s]
             PROVE  ReplicaOK(s, k)'
  BY DEF ReplicaInv
<1>7. CASE s # r
  BY <1>1, <1>4, <1>6, <1>7, ReplicaKept
<1>8. CASE s = r
  <2>1. rdb[r] = map_new /\ \A c \in Pending : Held[c].key # k
    BY <1>5, <1>6, <1>8
  <2>2. DumpEnd(r)' = map_new
    BY <1>2, <1>6, AppliedEmpty DEF DumpEnd
  <2>3. k \notin DOMAIN DumpEnd(r)'
    BY <2>2 DEF map_new
  <2>4. \A i \in DOMAIN Shards : ~(i < sync'[r].next)
    BY <1>2, <1>6, Bounds
  <2>5. Dumping(r, k)'
    BY <1>1, <1>4, <2>1, <2>3, <2>4 DEF Dumping
  <2> QED BY <1>2, <1>6, <1>8, <2>5 DEF ReplicaOK
<1> QED BY <1>7, <1>8

(* What is dumped of a shard rebuilds the key of that shard. *)
LEMMA DumpShardReplica ==
  ASSUME TypeInv, ReplicaInv, Plainly, NEW r \in Replicas, DumpShard(r)
  PROVE  ReplicaInv'
<1> DEFINE n == sync[r].next
           j == Shards[n]
           part == dump_shard(db, j, sync[r].time)
           new == [sync[r] EXCEPT !.next = @ + 1, !.dump = @ \o part]
<1>1. /\ sync[r].at = "dump" /\ n <= Len(Shards)
      /\ sync' = [sync EXCEPT ![r].next = @ + 1, ![r].dump = @ \o part]
      /\ UNCHANGED <<db, conn, chan, rdb, raced>>
  BY DEF DumpShard
<1>2. sync \in [Replicas -> SyncRec] /\ IsGoodStore(db)
  BY DEF TypeInv, SyncInv, StoresInv
<1>3. n \in 1..Len(Shards) /\ j \in Keys /\ sync[r].dump \in Seq(Cmds)
  BY <1>1, <1>2, Bounds DEF SyncRec
<1>4. StoreOf(db, Frags) /\ Lasting(db)
  BY <1>2, PlainFacts
<1> DEFINE m == DumpEnd(r)
           mx == applied(map_new, sync[r].dump \o part, 0)
<1>5. /\ \A k : k # j => Same(k, mx, m)
      /\ j \notin DOMAIN m => Same(j, mx, db)
  <2>1. sync[r].dump \in Seq(PlainCommand(Frags))
    BY <1>3, CmdsSound, SeqMonotonic
  <2> QED BY <1>3, <1>4, <2>1, DumpVisit DEF DumpEnd
<1>6. sync' = [sync EXCEPT ![r] = new]
  <2> HIDE DEF part
  <2> QED BY <1>1, <1>2 DEF SyncRec
<1>7. new.at = "dump" /\ new.next = n + 1 /\ new.dump = sync[r].dump \o part
  <2> HIDE DEF part
  <2> QED BY <1>1, <1>2 DEF SyncRec
<1> HIDE DEF new
<1>8. sync'[r] = new /\ \A s \in Replicas : s # r => sync'[s] = sync[s]
  BY <1>2, <1>6
<1> HIDE DEF part, m, mx
<1>9. DumpEnd(r)' = mx
  BY <1>7, <1>8 DEF DumpEnd, mx
<1>10. Pending' = Pending /\ Held' = Held
  BY <1>1 DEF Pending, Held
<1> SUFFICES ASSUME NEW s \in Replicas, NEW k \in Keys, k \notin raced[s]
             PROVE  ReplicaOK(s, k)'
  BY <1>1 DEF ReplicaInv
<1>11. CASE s # r
  BY <1>1, <1>8, <1>10, <1>11, ReplicaKept
<1>12. CASE s = r
  <2>1. Dumping(r, k)
    BY <1>1, <1>12 DEF ReplicaInv, ReplicaOK
  <2>2. ASSUME NEW i \in DOMAIN Shards, Shards[i] = k
        PROVE  IF i < n + 1 THEN Same(k, mx, db) ELSE k \notin DOMAIN mx
    <3>1. i \in Nat /\ n \in Nat /\ n \in DOMAIN Shards
      BY <1>3, Bounds
    <3>2. CASE i = n
      <4>1. k = j /\ k \notin DOMAIN m
        BY <2>1, <2>2, <3>1, <3>2 DEF Dumping, m
      <4> QED BY <1>5, <3>1, <3>2, <4>1
    <3>3. CASE i # n
      <4>1. k # j
        BY <2>2, <3>1, <3>3, PrimaryAssumption
      <4>2. Same(k, mx, m)
        BY <1>5, <4>1
      <4>3. IF i < n THEN Same(k, m, db) ELSE k \notin DOMAIN m
        BY <2>1, <2>2 DEF Dumping, m
      <4>4. i < n + 1 <=> i < n
        BY <3>1, <3>3
      <4>5. Same(k, m, db) => Same(k, mx, db)
        BY <4>2, SameTrans
      <4>6. k \notin DOMAIN m => k \notin DOMAIN mx
        BY <4>2 DEF Same
      <4> QED BY <4>3, <4>4, <4>5, <4>6
    <3> QED BY <3>2, <3>3
  <2>3. sync'[r].next = n + 1 /\ sync'[r].at = "dump"
    BY <1>7, <1>8
  <2>4. \A i \in DOMAIN Shards : Shards[i] = k =>
          IF i < sync'[r].next THEN Same(k, DumpEnd(r)', db) ELSE k \notin DOMAIN DumpEnd(r)'
    BY <1>9, <2>2, <2>3
  <2>5. (\A c \in Pending : Held[c].key # k) /\ rdb[r] = map_new
    BY <2>1 DEF Dumping
  <2>6. Dumping(r, k)'
    BY <1>1, <1>10, <2>4, <2>5 DEF Dumping, Same
  <2> QED BY <1>12, <2>3, <2>6 DEF ReplicaOK
<1> QED BY <1>11, <1>12

(* A replica that registers has the whole dump ahead of it; keys written
   since their dump are marked as raced. *)
LEMMA RegisterReplica ==
  ASSUME TypeInv, ReplicaInv, NEW r \in Replicas, Register(r)
  PROVE  ReplicaInv'
<1> DEFINE new == [nosync EXCEPT !.at = "live"]
<1>1. /\ sync[r].at = "dump" /\ sync[r].next > Len(Shards)
      /\ sync' = [sync EXCEPT ![r] = new]
      /\ chan' = [chan EXCEPT ![r] = @ \o sync[r].dump]
      /\ UNCHANGED <<db, conn, rdb, raced>>
  BY DEF Register
<1>2. new.at = "live"
  BY DEF nosync
<1> HIDE DEF new
<1>3. /\ sync \in [Replicas -> SyncRec] /\ chan \in [Replicas -> Seq(Cmds)]
      /\ chan[r] = <<>> /\ sync[r].dump \in Seq(Cmds)
  BY <1>1 DEF TypeInv, SyncInv, SyncOK, SyncRec
<1>4. chan[r] \o sync[r].dump = sync[r].dump
  BY <1>3, ConcatEmptySeq
<1>5. /\ sync'[r] = new /\ chan'[r] = sync[r].dump
      /\ \A s \in Replicas : s # r => sync'[s] = sync[s] /\ chan'[s] = chan[s]
  BY <1>1, <1>3, <1>4
<1>6. Pending' = Pending /\ Held' = Held
  BY <1>1 DEF Pending, Held
<1> SUFFICES ASSUME NEW s \in Replicas, NEW k \in Keys, k \notin raced[s]
             PROVE  ReplicaOK(s, k)'
  BY <1>1 DEF ReplicaInv
<1>7. CASE s # r
  BY <1>1, <1>5, <1>6, <1>7, ReplicaKept
<1>8. CASE s = r
  <2>1. Dumping(r, k)
    BY <1>1, <1>8 DEF ReplicaInv, ReplicaOK
  <2>2. PICK i \in DOMAIN Shards : Shards[i] = k
    BY PrimaryAssumption
  <2>3. i < sync[r].next
    <3>1. i \in 1..Len(Shards) /\ Len(Shards) \in Nat /\ sync[r].next \in Nat
      BY <1>3, Bounds DEF SyncRec
    <3> QED BY <1>1, <3>1
  <2>4. Same(k, DumpEnd(r), db)
    BY <2>1, <2>2, <2>3 DEF Dumping
  <2>5. End(r)' = DumpEnd(r)
    BY <1>1, <1>5, <2>1 DEF End, DumpEnd, Dumping
  <2>6. \A c \in Pending : Held[c].key # k
    BY <2>1 DEF Dumping
  <2>7. Covers(k, DumpEnd(r), db, Held, Pending, 0)
    BY <2>4, <2>6 DEF Covers
  <2>8. Covers(k, End(r)', db', Held', Pending', 0)
    BY <1>1, <1>6, <2>5, <2>7
  <2>9. Covers(k, End(r), db, Held, Pending, 0)'
    BY <2>8 DEF Covers
  <2> QED BY <1>2, <1>5, <1>8, <2>9 DEF ReplicaOK
<1> QED BY <1>7, <1>8

(* Applying the head of the stream does not move its end. *)
LEMMA ApplyReplica ==
  ASSUME TypeInv, ReplicaInv, Plainly, NEW r \in Replicas, Apply(r)
  PROVE  ReplicaInv'
<1>1. /\ chan[r] # <<>>
      /\ rdb' = [rdb EXCEPT ![r] = dispatch(@, Head(chan[r]), now).db]
      /\ chan' = [chan EXCEPT ![r] = Tail(@)]
      /\ UNCHANGED <<db, conn, sync, raced>>
  BY DEF Apply
<1>2. /\ chan \in [Replicas -> Seq(Cmds)] /\ DOMAIN rdb = Replicas /\ IsGoodStore(rdb[r])
      /\ sync[r].at # "dump"
  BY <1>1 DEF TypeInv, SyncInv, StoresInv, SyncOK
<1> DEFINE h == Head(chan[r])
           after == dispatch(rdb[r], h, now).db
<1>3. h \in Cmds
  BY <1>1, <1>2, HeadTailProperties
<1>4. dispatch(rdb[r], h, now) = dispatch(rdb[r], h, 0)
  BY <1>2, <1>3, PlainFacts, DispatchUntimed
<1>5. applied(rdb[r], chan[r], 0) = applied(dispatch(rdb[r], h, 0).db, Tail(chan[r]), 0)
  BY <1>1, <1>2, AppliedHead
<1>6. rdb' = [rdb EXCEPT ![r] = after]
  BY <1>1
<1> HIDE DEF after
<1>7. /\ rdb'[r] = after /\ chan'[r] = Tail(chan[r])
      /\ \A s \in Replicas : s # r => rdb'[s] = rdb[s] /\ chan'[s] = chan[s]
  BY <1>1, <1>2, <1>6
<1>8. End(r)' = End(r)
  BY <1>4, <1>5, <1>7 DEF End, after
<1>9. Pending' = Pending /\ Held' = Held
  BY <1>1 DEF Pending, Held
<1> SUFFICES ASSUME NEW s \in Replicas, NEW k \in Keys, k \notin raced[s]
             PROVE  ReplicaOK(s, k)'
  BY <1>1 DEF ReplicaInv
<1>10. CASE s # r
  BY <1>1, <1>7, <1>9, <1>10, ReplicaKept
<1>11. CASE s = r
  <2>1. sync[r].at = "live" => Covers(k, End(r), db, Held, Pending, 0)
    BY <1>11 DEF ReplicaInv, ReplicaOK
  <2>2. sync[r].at = "live" => Covers(k, End(r), db, Held, Pending, 0)'
    BY <1>1, <1>8, <1>9, <2>1 DEF Covers
  <2> QED BY <1>1, <1>2, <1>11, <2>2 DEF ReplicaOK
<1> QED BY <1>10, <1>11

\* A connection goes on with the write it has, or is at none before and after.
LEMMA ConnReplica ==
  ASSUME ReplicaInv, NEW c \in Conns, NEW new, conn \in [Conns -> ConnRec],
         conn' = [conn EXCEPT ![c] = new],
         conn[c].pc # "ready" <=> new.pc # "ready",
         new.pc # "ready" => new.cmd = conn[c].cmd,
         UNCHANGED <<db, sync, chan, rdb, raced>>
  PROVE  ReplicaInv'
<1>1. conn'[c] = new /\ \A d \in Conns : d # c => conn'[d] = conn[d]
  OBVIOUS
<1>2. Pending' = Pending
  BY <1>1 DEF Pending
<1>3. \A d \in Pending : Held'[d] = Held[d]
  BY <1>1 DEF Pending, Held
<1> SUFFICES ASSUME NEW r \in Replicas, NEW k \in Keys, k \notin raced[r]
             PROVE  ReplicaOK(r, k)'
  BY DEF ReplicaInv
<1> QED BY <1>2, <1>3, ReplicaKept

\* Without replicas a write ends before it is propagated.
LEMMA SkipAofReplica ==
  ASSUME TypeInv, ReplicaInv, NEW c \in Conns, SkipAof(c)
  PROVE  ReplicaInv'
<1> DEFINE new == [conn[c] EXCEPT !.pc = IF has_replicas THEN "propagate" ELSE "ready"]
<1>1. /\ conn[c].pc = "persist" /\ conn' = [conn EXCEPT ![c] = new]
      /\ UNCHANGED <<db, sync, chan, rdb, raced>>
  BY DEF SkipAof
<1>2. conn \in [Conns -> ConnRec]
  BY DEF TypeInv, ConnsInv
<1>3. new.cmd = conn[c].cmd /\ new.pc = IF has_replicas THEN "propagate" ELSE "ready"
  BY <1>2 DEF ConnRec
<1> HIDE DEF new
<1>4. CASE has_replicas
  BY <1>1, <1>2, <1>3, <1>4, ConnReplica
<1>5. CASE ~has_replicas
  <2>1. \A r \in Replicas : sync[r].at # "live"
    BY <1>5 DEF has_replicas, attached
  <2>2. conn'[c] = new /\ \A d \in Conns : d # c => conn'[d] = conn[d]
    BY <1>1, <1>2
  <2>3. Pending' \subseteq Pending /\ \A d \in Pending' : Held'[d] = Held[d]
    BY <1>1, <1>3, <1>5, <2>2 DEF Pending, Held
  <2> SUFFICES ASSUME NEW r \in Replicas, NEW k \in Keys, k \notin raced[r], sync[r].at = "dump"
               PROVE  Dumping(r, k)'
    BY <1>1, <2>1 DEF ReplicaInv, ReplicaOK
  <2>4. Dumping(r, k)
    BY DEF ReplicaInv, ReplicaOK
  <2>5. \A d \in Pending' : Held'[d].key # k
    BY <2>3, <2>4 DEF Dumping
  <2>6. Same(k, db, db')
    BY <1>1, SameTrans
  <2> QED BY <1>1, <2>4, <2>5, <2>6, DumpKept
<1> QED BY <1>4, <1>5

(* Initially no replica is connected. *)
LEMMA InitReplica == Init => ReplicaInv
BY DEF Init, ReplicaInv, ReplicaOK, nosync

\* No step parts a replica from the primary for good.
LEMMA NextReplica ==
  ASSUME OneWriter, Plainly, TypeInv, ReplicaInv, [Next]_vars
  PROVE  ReplicaInv'
<1>1. conn \in [Conns -> ConnRec]
  BY DEF TypeInv, ConnsInv
<1>2. ASSUME NEW c \in Conns, AppendAof(c) PROVE ReplicaInv'
  <2> DEFINE new == [conn[c] EXCEPT !.pc = "propagate"]
  <2>1. /\ conn[c].pc = "persist" /\ conn' = [conn EXCEPT ![c] = new]
        /\ UNCHANGED <<db, sync, chan, rdb, raced>>
    BY <1>2 DEF AppendAof
  <2>2. new.pc = "propagate" /\ new.cmd = conn[c].cmd
    BY <1>1 DEF ConnRec
  <2> HIDE DEF new
  <2> QED BY <1>1, <2>1, <2>2, ConnReplica
<1>3. ASSUME NEW c \in Conns, FailAof(c) \/ DropAof(c) PROVE ReplicaInv'
  <2> DEFINE new == [conn[c] EXCEPT !.pc = "propagate", !.quit = TRUE]
  <2>1. /\ conn[c].pc = "persist" /\ UNCHANGED <<db, sync, chan, rdb, raced>>
        /\ conn' = [conn EXCEPT ![c].pc = "propagate", ![c].quit = TRUE]
    BY <1>3 DEF FailAof, DropAof
  <2>2. conn' = [conn EXCEPT ![c] = new]
    BY <1>1, <2>1 DEF ConnRec
  <2>3. new.pc = "propagate" /\ new.cmd = conn[c].cmd
    BY <1>1 DEF ConnRec
  <2> HIDE DEF new
  <2> QED BY <1>1, <2>1, <2>2, <2>3, ConnReplica
<1>4. ASSUME NEW c \in Conns, Flush(c) PROVE ReplicaInv'
  <2>1. /\ conn[c].pc = "ready" /\ conn' = [conn EXCEPT ![c] = idle]
        /\ UNCHANGED <<db, sync, chan, rdb, raced>>
    BY <1>4 DEF Flush
  <2>2. idle.pc = "ready"
    BY DEF idle
  <2> QED BY <1>1, <2>1, <2>2, ConnReplica
<1>5. ASSUME NEW r \in Replicas, Break(r) PROVE ReplicaInv'
  <2>1. /\ sync' = [sync EXCEPT ![r] = nosync] /\ UNCHANGED <<db, conn, rdb, raced>>
        /\ \A s \in Replicas : s # r => chan'[s] = chan[s]
    BY <1>5 DEF Break, TypeInv, SyncInv
  <2>2. /\ sync'[r].at = "down" /\ \A s \in Replicas : s # r => sync'[s] = sync[s]
    BY <2>1, NoSync DEF TypeInv, SyncInv
  <2>3. Pending' = Pending /\ Held' = Held
    BY <2>1 DEF Pending, Held
  <2> SUFFICES ASSUME NEW s \in Replicas, NEW k \in Keys, k \notin raced[s]
               PROVE  ReplicaOK(s, k)'
    BY <2>1 DEF ReplicaInv
  <2>4. CASE s # r
    BY <2>1, <2>2, <2>3, <2>4, ReplicaKept
  <2>5. CASE s = r
    BY <2>2, <2>5 DEF ReplicaOK
  <2> QED BY <2>4, <2>5
<1>6. ASSUME Restart PROVE ReplicaInv'
  <2>1. \A r \in Replicas : sync'[r].at = "down"
    BY <1>6, NoSync DEF Restart
  <2> QED BY <2>1 DEF ReplicaInv, ReplicaOK
<1>7. ASSUME Tick \/ UNCHANGED vars PROVE ReplicaInv'
  <2>1. UNCHANGED <<db, conn, sync, chan, rdb, raced>>
    BY <1>7 DEF Tick, vars
  <2>2. Pending' = Pending /\ Held' = Held
    BY <2>1 DEF Pending, Held
  <2> SUFFICES ASSUME NEW s \in Replicas, NEW k \in Keys, k \notin raced[s]
               PROVE  ReplicaOK(s, k)'
    BY <2>1 DEF ReplicaInv
  <2> QED BY <2>1, <2>2, ReplicaKept
<1>8. ASSUME NEW c \in Conns, Execute(c) \/ SkipAof(c) \/ Propagate(c) PROVE ReplicaInv'
  BY <1>8, ExecuteReplica, SkipAofReplica, PropagateReplica
<1>9. ASSUME NEW r \in Replicas, Connect(r) \/ DumpShard(r) \/ Register(r) \/ Apply(r)
      PROVE  ReplicaInv'
  BY <1>9, ConnectReplica, DumpShardReplica, RegisterReplica, ApplyReplica
<1> QED BY <1>2, <1>3, <1>4, <1>5, <1>6, <1>7, <1>8, <1>9 DEF Next

\* If every key has one connection that writes it and no command depends on
\* the clock, a replica that joined with an empty store shows its clients what
\* the primary does once nothing is on its way, for every key that was not
\* written during its SYNC -- with any number of replicas that come and go,
\* and whatever happens to the log (conn.rs run, Replication::propagate,
\* add_replica_with_snapshot).
THEOREM ReplicasFaithful == OneWriter /\ Plainly => (Spec => []ReplicaConverges)
<1> SUFFICES ASSUME OneWriter, Plainly PROVE Spec => []ReplicaConverges
  OBVIOUS
<1>1. TypeInv /\ ReplicaInv => ReplicaConverges
  <2> SUFFICES ASSUME TypeInv, ReplicaInv, NEW r \in Replicas, Settled(r),
                      NEW k \in Keys, k \notin raced[r]
               PROVE  Agree(k, rdb[r], db)
    BY DEF ReplicaConverges
  <2>1. Pending = {} /\ sync[r].at = "live" /\ chan[r] = <<>>
    BY DEF Settled, Pending
  <2>2. Covers(k, End(r), db, Held, Pending, 0)
    BY <2>1 DEF ReplicaInv, ReplicaOK
  <2>3. End(r) = rdb[r]
    BY <2>1, AppliedEmpty DEF End
  <2>4. Same(k, rdb[r], db)
    BY <2>1, <2>2, <2>3 DEF Covers
  <2>5. Lasting(rdb[r]) /\ Lasting(db)
    BY PlainFacts DEF TypeInv, StoresInv
  <2> QED BY <2>4, <2>5, SameAgree
<1>2. TypeInv /\ ReplicaInv /\ [Next]_vars => ReplicaInv'
  BY NextReplica
<1> QED BY <1>1, <1>2, InitReplica, AlwaysType, PTL DEF Spec
=============================================================================
