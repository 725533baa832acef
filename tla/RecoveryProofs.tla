--------------------------- MODULE RecoveryProofs ---------------------------
(***************************************************************************)
(* With one saver at a time the snapshot file is always one complete dump, *)
(* and a start from it loses only the writes since the last SAVE began,    *)
(* for any number of keys, shards, writes, saves and crashes.  (With two   *)
(* savers it need not be: see the run recovery_two_savers.)                *)
(*                                                                         *)
(* The argument: the file that a saver has open is the one with the        *)
(* temporary name and never the installed one, it is empty until the dump  *)
(* is written out, and holds that dump until it is renamed.  The dump has  *)
(* every key whose shard it visited as the store has it, unless the key    *)
(* was written to in the meantime.                                         *)
(***************************************************************************)
EXTENDS Recovery, DatasetProofs

OneSaver == \A s, q \in Savers : s = q

\* A sequence, of whatever it may be.
IsSequence(x) == \E S : x \in Seq(S)

\* What save_snapshot's steps keep of the files they work on.
SaverOK(s) ==
  /\ DOMAIN saver[s] = {"pc", "fd", "next", "dump", "touched"}
  /\ saver[s].pc \in {"idle", "dump", "rename"}
  /\ IsSequence(saver[s].dump)
  /\ saver[s].pc = "idle" => saver[s].fd = None
  /\ saver[s].pc # "idle" => saver[s].fd = tmp /\ tmp # None
  /\ saver[s].pc = "dump" => data[tmp] = <<>>
  /\ saver[s].pc = "rename" => data[tmp] \in dumps

Inv ==
  /\ SnapshotWhole
  /\ tmp \in Inodes \cup {None} /\ snapshot \in Inodes \cup {None}
  /\ tmp # None => tmp # snapshot
  /\ DOMAIN data = Inodes
  /\ DOMAIN saver = Savers
  /\ \A s \in Savers : SaverOK(s)

\* Concatenation gives a sequence.
LEMMA ConcatSequence ==
  ASSUME NEW a, NEW b, IsSequence(a), IsSequence(b)
  PROVE  IsSequence(a \o b)
<1>1. PICK S : a \in Seq(S)
  BY DEF IsSequence
<1>2. PICK T : b \in Seq(T)
  BY DEF IsSequence
<1>3. a \in Seq(S \cup T) /\ b \in Seq(S \cup T)
  BY <1>1, <1>2, SeqMonotonic
<1>4. a \o b \in Seq(S \cup T)
  BY <1>3, ConcatProperties
<1> QED BY <1>4 DEF IsSequence

\* What a shard contributes to a dump is a sequence.
LEMMA DumpSequence ==
  ASSUME NEW m, NEW k, NEW t
  PROVE  IsSequence(dump_shard(m, k, t))
<1>1. IsSequence(<<>>)
  BY EmptySeq DEF IsSequence
<1>2. ASSUME NEW x PROVE IsSequence(<<x>>)
  <2>1. <<x>> \in Seq({x})
    OBVIOUS
  <2> QED BY <2>1 DEF IsSequence
<1>3. IsSequence(recreate(k, m[k]))
  <2> DEFINE make == command(IF m[k].type = "string" THEN "SET" ELSE "RPUSH", k, m[k].value, 0, 0)
             expire == command("PEXPIREAT", k, <<>>, m[k].expire_at, 0)
             tail == IF m[k].expire_at = None THEN <<>> ELSE <<expire>>
  <2> HIDE DEF make, expire
  <2>1. IsSequence(<<make>>) /\ IsSequence(tail)
    BY <1>1, <1>2
  <2> HIDE DEF tail
  <2>2. IsSequence(<<make>> \o tail)
    BY <2>1, ConcatSequence
  <2> QED BY <2>2 DEF recreate, make, tail, expire
<1> QED BY <1>1, <1>3 DEF dump_shard

\* While a dump is under way there is a free inode for the temporary file.
LEMMA FreeInode ==
  ASSUME OneSaver, NEW s \in Savers, NEW a, NEW b
  PROVE  \E i \in Inodes : i \notin {a, b}
<1>1. Savers = {s}
  BY DEF OneSaver
<1>2. Cardinality(Savers) = 1
  BY <1>1, FS_Singleton
<1>3. Inodes = 1..3
  BY <1>2 DEF Inodes
<1>4. 1 \in Inodes /\ 2 \in Inodes /\ 3 \in Inodes
  BY <1>3
<1> QED BY <1>4

(* Initially nobody saves and there is no snapshot file. *)
LEMMA InitInv == Init => Inv
<1> SUFFICES ASSUME Init PROVE Inv
  OBVIOUS
<1>1. IsSequence(<<>>)
  BY EmptySeq DEF IsSequence
<1> QED BY <1>1 DEF Init, Inv, SaverOK, SnapshotWhole, idle

(* Every step of a system with one saver keeps the file discipline. *)
LEMMA NextInv == OneSaver /\ Inv /\ [Next]_vars => Inv'
<1> SUFFICES ASSUME OneSaver, Inv, [Next]_vars PROVE Inv'
  OBVIOUS
<1>e. IsSequence(<<>>)
  BY EmptySeq DEF IsSequence
<1>1. ASSUME NEW k \in Keys, NEW op \in {"SET", "RPUSH", "DEL"}, Write(k, op) PROVE Inv'
  <2>1. UNCHANGED <<tmp, snapshot, data, dumps>>
    BY <1>1 DEF Write
  <2>2. /\ DOMAIN saver' = Savers
        /\ \A s \in Savers : /\ saver'[s].pc = saver[s].pc
                             /\ saver'[s].fd = saver[s].fd
                             /\ saver'[s].dump = saver[s].dump
                             /\ DOMAIN saver'[s] = DOMAIN saver[s]
    BY <1>1 DEF Write, Inv, SaverOK
  <2> QED BY <2>1, <2>2 DEF Inv, SaverOK, SnapshotWhole
<1>2. ASSUME NEW s \in Savers, CreateTmp(s) PROVE Inv'
  <2> DEFINE taken == {tmp, snapshot} \cup {saver[q].fd : q \in Savers}
             fd == IF tmp # None THEN tmp ELSE CHOOSE i \in Inodes : i \notin taken
  <2>1. saver[s].pc = "idle" /\ saver[s].fd = None
    BY <1>2 DEF CreateTmp, Inv, SaverOK
  <2>2. taken \subseteq {tmp, snapshot, None}
    BY <2>1 DEF OneSaver
  <2>3. fd \in Inodes /\ fd # None /\ fd # snapshot
    <3>1. CASE tmp # None
      BY <3>1 DEF Inv
    <3>2. CASE tmp = None
      <4>1. taken = {None, snapshot}
        BY <2>2, <3>2
      <4>2. \E i \in Inodes : i \notin taken
        BY <4>1, FreeInode
      <4> QED BY <3>2, <4>1, <4>2
    <3> QED BY <3>1, <3>2
  <2>4. /\ tmp' = fd /\ snapshot' = snapshot /\ dumps' = dumps
        /\ data' = [data EXCEPT ![fd] = <<>>]
        /\ saver' = [saver EXCEPT ![s] = [idle EXCEPT !.pc = "dump", !.fd = fd]]
    BY <1>2 DEF CreateTmp
  <2> HIDE DEF fd
  <2>5. DOMAIN data' = Inodes /\ DOMAIN saver' = Savers
    BY <2>4 DEF Inv
  <2>6. data'[fd] = <<>>
    BY <2>3, <2>4 DEF Inv
  <2>7. SnapshotWhole'
    BY <2>3, <2>4 DEF Inv, SnapshotWhole
  <2>8. ASSUME NEW q \in Savers PROVE SaverOK(q)'
    <3>1. q = s
      BY DEF OneSaver
    <3>2. /\ saver'[s].pc = "dump" /\ saver'[s].fd = fd /\ saver'[s].dump = <<>>
          /\ DOMAIN saver'[s] = {"pc", "fd", "next", "dump", "touched"}
      BY <2>4 DEF Inv, idle
    <3> QED BY <1>e, <2>3, <2>4, <2>6, <3>1, <3>2 DEF SaverOK
  <2> QED BY <2>3, <2>4, <2>5, <2>7, <2>8 DEF Inv
<1>3. ASSUME NEW s \in Savers, DumpShard(s) PROVE Inv'
  <2>1. UNCHANGED <<tmp, snapshot, data, dumps>>
    BY <1>3 DEF DumpShard
  <2>2. /\ DOMAIN saver' = Savers
        /\ DOMAIN saver'[s] = DOMAIN saver[s]
        /\ saver'[s].pc = saver[s].pc /\ saver'[s].fd = saver[s].fd
        /\ saver'[s].dump = saver[s].dump \o dump_shard(db, Shards[saver[s].next], 0)
        /\ \A q \in Savers \ {s} : saver'[q] = saver[q]
    BY <1>3 DEF DumpShard, Inv, SaverOK
  <2>3. IsSequence(saver'[s].dump)
    BY <2>2, DumpSequence, ConcatSequence DEF Inv, SaverOK
  <2>4. ASSUME NEW q \in Savers PROVE SaverOK(q)'
    <3>1. CASE q = s
      BY <2>1, <2>2, <2>3, <3>1 DEF Inv, SaverOK
    <3>2. CASE q # s
      BY <2>1, <2>2, <3>2 DEF Inv, SaverOK
    <3> QED BY <3>1, <3>2
  <2> QED BY <2>1, <2>2, <2>4 DEF Inv, SnapshotWhole
<1>4. ASSUME NEW s \in Savers, WriteOut(s) PROVE Inv'
  <2> DEFINE d == saver[s].dump
  <2>1. saver[s].pc = "dump" /\ saver[s].fd = tmp /\ tmp # None /\ data[tmp] = <<>> /\ IsSequence(d)
    BY <1>4 DEF WriteOut, Inv, SaverOK
  <2>2. d \o SubSeq(<<>>, Len(d) + 1, Len(<<>>)) = d
    <3>1. PICK S : d \in Seq(S)
      BY <2>1 DEF IsSequence
    <3>2. Len(d) \in Nat /\ Len(<<>>) = 0
      BY <3>1, LenProperties, EmptySeq
    <3>3. SubSeq(<<>>, Len(d) + 1, Len(<<>>)) = <<>>
      BY <3>2, SubSeqEmpty
    <3> QED BY <3>1, <3>3, ConcatEmptySeq
  <2> HIDE DEF d
  <2>3. /\ UNCHANGED <<tmp, snapshot>>
        /\ data' = [data EXCEPT ![tmp] = d]
        /\ dumps' = dumps \cup {d}
        /\ saver' = [saver EXCEPT ![s].pc = "rename"]
    BY <1>4, <2>1, <2>2 DEF WriteOut, d
  <2>4. tmp \in Inodes /\ tmp # snapshot /\ DOMAIN data' = Inodes /\ data'[tmp] = d
    BY <2>1, <2>3 DEF Inv
  <2>5. SnapshotWhole'
    BY <2>3, <2>4 DEF Inv, SnapshotWhole
  <2>6. ASSUME NEW q \in Savers PROVE SaverOK(q)'
    <3>1. q = s
      BY DEF OneSaver
    <3>2. /\ saver'[s].pc = "rename" /\ saver'[s].fd = tmp /\ saver'[s].dump = d
          /\ DOMAIN saver'[s] = {"pc", "fd", "next", "dump", "touched"}
      BY <2>1, <2>3 DEF Inv, SaverOK, d
    <3>3. data'[tmp'] \in dumps'
      BY <2>3, <2>4
    <3> QED BY <2>1, <2>3, <3>1, <3>2, <3>3 DEF SaverOK
  <2>7. DOMAIN saver' = Savers
    BY <2>3 DEF Inv
  <2> QED BY <2>3, <2>4, <2>5, <2>6, <2>7 DEF Inv
<1>5. ASSUME NEW s \in Savers, Rename(s) PROVE Inv'
  <2>1. saver[s].pc = "rename" /\ tmp # None /\ tmp \in Inodes /\ data[tmp] \in dumps
    BY <1>5 DEF Rename, Inv, SaverOK
  <2>2. /\ snapshot' = tmp /\ tmp' = None
        /\ UNCHANGED <<data, dumps>>
        /\ saver' = [saver EXCEPT ![s] = idle]
    BY <1>5, <2>1 DEF Rename
  <2>3. ASSUME NEW q \in Savers PROVE SaverOK(q)'
    <3>1. q = s
      BY DEF OneSaver
    <3>2. saver'[q] = idle
      BY <2>2, <3>1 DEF Inv
    <3> QED BY <1>e, <3>2 DEF SaverOK, idle
  <2> QED BY <2>1, <2>2, <2>3 DEF Inv, SnapshotWhole
<1>6. ASSUME NEW ao \in Starts, Restart(ao) PROVE Inv'
  <2>1. UNCHANGED <<tmp, snapshot, data, dumps>> /\ saver' = [s \in Savers |-> idle]
    BY <1>6 DEF Restart
  <2>2. ASSUME NEW q \in Savers PROVE SaverOK(q)'
    BY <1>e, <2>1 DEF SaverOK, idle
  <2> QED BY <2>1, <2>2 DEF Inv, SnapshotWhole
<1>7. ASSUME UNCHANGED vars PROVE Inv'
  BY <1>7 DEF vars, Inv, SaverOK, SnapshotWhole
<1> QED BY <1>1, <1>2, <1>3, <1>4, <1>5, <1>6, <1>7 DEF Next

\* "atomic via temp file + rename" (save_snapshot): as long as SAVEs do not
\* overlap, the snapshot file is one complete dump at every moment, a crash
\* between any two steps of a SAVE included.
THEOREM SnapshotAtomic == OneSaver => (Spec => []SnapshotWhole)
<1> SUFFICES ASSUME OneSaver PROVE Spec => []SnapshotWhole
  OBVIOUS
<1>1. Inv /\ [Next]_vars => Inv'
  BY NextInv
<1>2. Inv => SnapshotWhole
  BY DEF Inv
<1> QED BY InitInv, <1>1, <1>2, PTL DEF Spec

-----------------------------------------------------------------------------
(* What a start gives back                                                 *)

\* The commands that get into files, and the stores they make.
Cmds == PlainCommand(Nat)

Good(m) == StoreOf(m, Nat) /\ Lasting(m)

SaverRec == [pc : {"idle", "dump", "rename"}, fd : Inodes \cup {None},
             next : 1..(Len(Shards) + 1), dump : Seq(Cmds), touched : SUBSET Keys]

TypeInv ==
  /\ Good(db)
  /\ aof \in Seq(Cmds) \cup {None} /\ (appendonly => aof \in Seq(Cmds))
  /\ data \in [Inodes -> Seq(Cmds)]
  /\ saver \in [Savers -> SaverRec]
  /\ used \in [writes : Nat, saves : Nat, crashes : Nat]

\* The store that a saver's dump gives so far.
DumpEnd(s) == applied(map_new, saver[s].dump, 0)

\* A dump has every key that was not written to since the SAVE began as the
\* store has it, once the key's shard was visited; it does not have the key
\* before.
DumpOK(s) ==
  \A i \in DOMAIN Shards : Shards[i] \notin saver[s].touched =>
    IF i < saver[s].next THEN Same(Shards[i], DumpEnd(s), db)
    ELSE Shards[i] \notin DOMAIN DumpEnd(s)

SaveInv ==
  /\ \A s \in Savers :
       /\ saver[s].pc = "dump" => DumpOK(s)
       /\ saver[s].pc = "rename" =>
            \A k \in Keys \ saver[s].touched : Same(k, applied(map_new, data[tmp], 0), db)
  /\ \A k \in Keys \ since : Same(k, recovered(FALSE), db)

\* The bounds are numbers, and every key has a shard.
LEMMA ShardFacts ==
  /\ Len(Shards) \in Nat /\ DOMAIN Shards = 1..Len(Shards)
  /\ \A i \in 1..Len(Shards) : Shards[i] \in Keys
  /\ \A k \in Keys : \E i \in DOMAIN Shards : Shards[i] = k
<1>1. Shards \in Seq(Keys)
  BY RecoveryAssumption
<1> QED BY <1>1, LenProperties, ElementOfSeq, RecoveryAssumption

\* Commands of a file make a store.
LEMMA FileGood ==
  ASSUME NEW cmds \in Seq(Cmds)
  PROVE  Good(applied(map_new, cmds, 0)) /\ replay(cmds, 0) = applied(map_new, cmds, 0)
BY EmptyStore, AppliedUntimed, ReplayApplied DEF Cmds, Good

\* A client's command, and what it does.
LEMMA WriteShape ==
  ASSUME TypeInv, NEW k \in Keys, NEW op \in {"SET", "RPUSH", "DEL"},
         NEW x, x = command(op, k, <<used.writes + 1>>, 0, used.writes + 1)
  PROVE  /\ x \in Cmds
         /\ Good(dispatch(db, x, 0).db)
         /\ \A j : j # k => Same(j, dispatch(db, x, 0).db, db)
<1> DEFINE n == used.writes + 1
           a == <<n>>
<1>1. n \in Nat /\ a \in Seq(Nat) /\ a # <<>>
  BY DEF TypeInv
<1>2. x = [op |-> op, key |-> k, arg |-> a, time |-> 0, id |-> n]
  BY DEF command
<1> HIDE DEF n, a
<1>3. x \in Cmds /\ x.key = k /\ x \in CommandOf(Nat) /\ x.op \in Untimed /\ Sound(x)
  BY <1>1, <1>2 DEF Cmds, PlainCommand, CommandOf, Ops, Untimed, Sound
<1>4. StoreOf(db, Nat) /\ Lasting(db)
  BY DEF TypeInv, Good
<1>5. StoreOf(dispatch(db, x, 0).db, Nat)
  BY <1>3, <1>4, DispatchStore
<1>6. Lasting(dispatch(db, x, 0).db)
  BY <1>3, <1>4, DispatchUntimed
<1>7. ASSUME NEW j, j # k PROVE Same(j, dispatch(db, x, 0).db, db)
  BY <1>3, <1>4, <1>7, DispatchLocal
<1> QED BY <1>3, <1>5, <1>6, <1>7 DEF Good

\* A connection that saves nothing.
LEMMA IdleSaver ==
  idle \in SaverRec /\ idle.pc = "idle" /\ idle.next = 1 /\ idle.dump = <<>>
<1>1. 1 \in 1..(Len(Shards) + 1) /\ <<>> \in Seq(Cmds)
  BY ShardFacts, EmptySeq
<1> QED BY <1>1 DEF idle, SaverRec

(* Initially nothing is saved, and every key counts as written since. *)
LEMMA InitSave == Init => TypeInv /\ SaveInv
<1> SUFFICES ASSUME Init PROVE TypeInv /\ SaveInv
  OBVIOUS
<1>1. idle \in SaverRec
  BY IdleSaver, EmptySeq
<1>2. TypeInv
  <2>1. Good(db) /\ <<>> \in Seq(Cmds)
    BY EmptyStore, EmptySeq DEF Init, Good
  <2>2. data \in [Inodes -> Seq(Cmds)] /\ saver \in [Savers -> SaverRec]
    BY <1>1, <2>1 DEF Init
  <2>3. aof \in Seq(Cmds) \cup {None} /\ (appendonly => aof \in Seq(Cmds))
    BY <2>1 DEF Init
  <2> QED BY <2>1, <2>2, <2>3 DEF Init, TypeInv
<1>3. SaveInv
  BY DEF Init, SaveInv, idle
<1> QED BY <1>2, <1>3

\* A client's write: its key is counted as written since.
LEMMA WriteSave ==
  ASSUME Inv, TypeInv, SaveInv, NEW k \in Keys, NEW op \in {"SET", "RPUSH", "DEL"}, Write(k, op)
  PROVE  TypeInv' /\ SaveInv'
<1> DEFINE x == command(op, k, <<used.writes + 1>>, 0, used.writes + 1)
           e == dispatch(db, x, 0).db
<1>1. x \in Cmds /\ Good(e) /\ \A j : j # k => Same(j, e, db)
  BY WriteShape
<1>2. /\ db' = e /\ aof' = IF appendonly THEN Append(aof, x) ELSE aof
      /\ since' = since \cup {k}
      /\ saver' = [s \in Savers |-> [saver[s] EXCEPT !.touched = @ \cup {k}]]
      /\ used' = [used EXCEPT !.writes = @ + 1]
      /\ UNCHANGED <<appendonly, tmp, snapshot, data>>
  BY DEF Write
<1> HIDE DEF x, e
<1>3. /\ saver' \in [Savers -> SaverRec]
      /\ \A s \in Savers : /\ saver'[s].pc = saver[s].pc /\ saver'[s].next = saver[s].next
                           /\ saver'[s].dump = saver[s].dump
                           /\ saver'[s].touched = saver[s].touched \cup {k}
  BY <1>2 DEF TypeInv, SaverRec
<1>4. TypeInv'
  <2>1. used' \in [writes : Nat, saves : Nat, crashes : Nat]
    BY <1>2 DEF TypeInv
  <2>2. aof' \in Seq(Cmds) \cup {None} /\ (appendonly => aof' \in Seq(Cmds))
    <3>1. appendonly => Append(aof, x) \in Seq(Cmds)
      BY <1>1, AppendProperties DEF TypeInv
    <3> QED BY <1>2, <3>1 DEF TypeInv
  <2> QED BY <1>1, <1>2, <1>3, <2>1, <2>2 DEF TypeInv
<1>5. \A j : j # k => Same(j, db, db')
  BY <1>1, <1>2, SameTrans
<1>6. ASSUME NEW s \in Savers, saver[s].pc = "dump" PROVE DumpOK(s)'
  <2>1. DumpEnd(s)' = DumpEnd(s)
    BY <1>3 DEF DumpEnd
  <2> SUFFICES ASSUME NEW i \in DOMAIN Shards, Shards[i] \notin saver'[s].touched
               PROVE  IF i < saver[s].next THEN Same(Shards[i], DumpEnd(s), db')
                      ELSE Shards[i] \notin DOMAIN DumpEnd(s)
    BY <1>3, <2>1 DEF DumpOK, Same
  <2>2. Shards[i] # k /\ Shards[i] \notin saver[s].touched
    BY <1>3
  <2>3. IF i < saver[s].next THEN Same(Shards[i], DumpEnd(s), db)
        ELSE Shards[i] \notin DOMAIN DumpEnd(s)
    BY <1>6, <2>2 DEF SaveInv, DumpOK
  <2> QED BY <1>5, <2>2, <2>3, SameTrans
<1>7. ASSUME NEW s \in Savers, saver[s].pc = "rename", NEW j \in Keys, j \notin saver'[s].touched
      PROVE  Same(j, applied(map_new, data[tmp], 0), db')
  <2>1. j # k /\ Same(j, applied(map_new, data[tmp], 0), db)
    BY <1>3, <1>7 DEF SaveInv
  <2> QED BY <1>5, <2>1, SameTrans
<1>8. ASSUME NEW j \in Keys, j \notin since' PROVE Same(j, recovered(FALSE), db')
  <2>1. j # k /\ Same(j, recovered(FALSE), db)
    BY <1>2, <1>8 DEF SaveInv
  <2> QED BY <1>5, <2>1, SameTrans
<1>9. recovered(FALSE)' = recovered(FALSE)
  BY <1>2 DEF recovered
<1>10. SaveInv'
  <2>1. \A s \in Savers : saver'[s].pc = "dump" => DumpOK(s)'
    BY <1>3, <1>6
  <2>2. \A s \in Savers : saver'[s].pc = "rename" =>
          \A j \in Keys \ saver'[s].touched : Same(j, applied(map_new, data[tmp], 0), db')
    BY <1>3, <1>7
  <2>3. \A j \in Keys \ since' : Same(j, recovered(FALSE)', db')
    BY <1>8, <1>9
  <2> QED BY <1>2, <2>1, <2>2, <2>3 DEF SaveInv, Same
<1> QED BY <1>4, <1>10

\* A SAVE begins: the installed file is not the one that is truncated.
LEMMA CreateTmpSave ==
  ASSUME OneSaver, Inv, TypeInv, SaveInv, NEW s \in Savers, CreateTmp(s), Inv'
  PROVE  TypeInv' /\ SaveInv'
<1> DEFINE new == [idle EXCEPT !.pc = "dump", !.fd = tmp']
<1>1. /\ data' = [data EXCEPT ![tmp'] = <<>>]
      /\ saver' = [saver EXCEPT ![s] = new]
      /\ used' = [used EXCEPT !.saves = @ + 1]
      /\ UNCHANGED <<db, appendonly, aof, snapshot, since>>
  BY DEF CreateTmp
<1>2. idle \in SaverRec /\ idle.next = 1 /\ idle.dump = <<>>
  BY IdleSaver, EmptySeq
<1>3. tmp' \in Inodes \cup {None} /\ \A q \in Savers : q = s
  BY DEF Inv, OneSaver
<1>4. new \in SaverRec /\ new.pc = "dump" /\ new.next = 1 /\ new.dump = <<>>
  BY <1>2, <1>3 DEF SaverRec
<1> HIDE DEF new
<1>5. saver' \in [Savers -> SaverRec] /\ saver'[s] = new
  BY <1>1, <1>4 DEF TypeInv
<1>6. TypeInv'
  <2>1. data' \in [Inodes -> Seq(Cmds)]
    BY <1>1, EmptySeq DEF TypeInv
  <2>2. used' \in [writes : Nat, saves : Nat, crashes : Nat]
    BY <1>1 DEF TypeInv
  <2> QED BY <1>1, <1>5, <2>1, <2>2 DEF TypeInv
<1>7. DumpOK(s)'
  <2>1. DumpEnd(s)' = map_new
    BY <1>4, <1>5, AppliedEmpty DEF DumpEnd
  <2>2. \A i \in DOMAIN Shards : ~(i < saver'[s].next)
    BY <1>4, <1>5, ShardFacts
  <2>3. DOMAIN map_new = {}
    BY DEF map_new
  <2> QED BY <2>1, <2>2, <2>3 DEF DumpOK
<1>8. snapshot # None => tmp' # snapshot
  BY <1>1 DEF Inv
<1>9. recovered(FALSE)' = recovered(FALSE)
  <2>1. snapshot # None => data'[snapshot] = data[snapshot]
    BY <1>1, <1>8 DEF Inv, TypeInv
  <2> QED BY <1>1, <2>1 DEF recovered
<1>10. SaveInv'
  <2>1. \A j \in Keys \ since' : Same(j, recovered(FALSE)', db')
    BY <1>1, <1>9 DEF SaveInv
  <2> QED BY <1>3, <1>4, <1>5, <1>7, <2>1 DEF SaveInv, Same
<1> QED BY <1>6, <1>10

\* A SAVE visits a shard.
LEMMA DumpShardSave ==
  ASSUME OneSaver, Inv, TypeInv, SaveInv, NEW s \in Savers, DumpShard(s)
  PROVE  TypeInv' /\ SaveInv'
<1> DEFINE n == saver[s].next
           j == Shards[n]
           part == dump_shard(db, j, 0)
           new == [saver[s] EXCEPT !.next = @ + 1, !.dump = @ \o part]
           m == DumpEnd(s)
           mx == applied(map_new, saver[s].dump \o part, 0)
<1>1. /\ saver[s].pc = "dump" /\ n <= Len(Shards)
      /\ saver' = [saver EXCEPT ![s].next = @ + 1, ![s].dump = @ \o part]
      /\ UNCHANGED <<db, appendonly, aof, tmp, snapshot, data, since, used>>
  BY DEF DumpShard
<1>2. saver \in [Savers -> SaverRec] /\ saver[s] \in SaverRec
  BY DEF TypeInv
<1>3. n \in 1..Len(Shards) /\ j \in Keys /\ saver[s].dump \in Seq(Cmds)
  BY <1>1, <1>2, ShardFacts DEF SaverRec
<1>4. /\ saver[s].dump \o part \in Seq(Cmds)
      /\ \A k : k # j => Same(k, mx, m)
      /\ j \notin DOMAIN m => Same(j, mx, db)
  <2>1. StoreOf(db, Nat) /\ Lasting(db)
    BY DEF TypeInv, Good
  <2>2. saver[s].dump \in Seq(PlainCommand(Nat))
    BY <1>3 DEF Cmds
  <2> HIDE DEF part
  <2>3. part = dump_shard(db, j, 0) /\ m = applied(map_new, saver[s].dump, 0)
    BY DEF part, DumpEnd
  <2> HIDE DEF m, mx
  <2>4. mx = applied(map_new, saver[s].dump \o part, 0)
    BY DEF mx
  <2>5. /\ saver[s].dump \o part \in Seq(PlainCommand(Nat))
        /\ \A k : k # j => Same(k, mx, m)
        /\ j \notin DOMAIN m => Same(j, mx, db)
    BY <1>3, <2>1, <2>2, <2>3, <2>4, DumpVisit
  <2> QED BY <2>5 DEF Cmds
<1> DEFINE d == saver[s].dump \o part
<1>5. saver' = [saver EXCEPT ![s] = new] /\ new = [saver[s] EXCEPT !.next = n + 1, !.dump = d]
  <2> HIDE DEF part
  <2> QED BY <1>1, <1>2 DEF SaverRec
<1>6. n + 1 \in 1..(Len(Shards) + 1) /\ d \in Seq(Cmds)
  BY <1>3, <1>4, ShardFacts
<1>7. DumpEnd(s)' = applied(map_new, saver'[s].dump, 0)
  BY DEF DumpEnd
<1> DEFINE l == n + 1
<1> HIDE DEF new, part, m, d, l
<1>8. /\ new.pc = "dump" /\ new.next = l /\ new.dump = d /\ new.touched = saver[s].touched
      /\ new \in SaverRec
  <2>1. new = [saver[s] EXCEPT !.next = l, !.dump = d] /\ l \in 1..(Len(Shards) + 1)
    BY <1>5, <1>6 DEF l
  <2> QED BY <1>1, <1>2, <1>6, <2>1 DEF SaverRec
<1>9. saver' \in [Savers -> SaverRec] /\ saver'[s] = new
  BY <1>2, <1>5, <1>8
<1>10. TypeInv'
  BY <1>1, <1>9 DEF TypeInv
<1>11. DumpEnd(s)' = mx
  BY <1>7, <1>8, <1>9 DEF d
<1> HIDE DEF mx
<1>12. DumpOK(s)'
  <2> SUFFICES ASSUME NEW i \in DOMAIN Shards, Shards[i] \notin saver[s].touched
               PROVE  IF i < n + 1 THEN Same(Shards[i], mx, db) ELSE Shards[i] \notin DOMAIN mx
    BY <1>1, <1>8, <1>9, <1>11 DEF DumpOK, Same, l
  <2> DEFINE k == Shards[i]
  <2>1. i \in Nat /\ n \in Nat /\ n \in DOMAIN Shards
    BY <1>3, ShardFacts
  <2>2. IF i < n THEN Same(k, m, db) ELSE k \notin DOMAIN m
    BY <1>1 DEF SaveInv, DumpOK, m
  <2>3. CASE i = n
    <3>1. k = j /\ k \notin DOMAIN m
      BY <2>1, <2>2, <2>3
    <3> QED BY <1>4, <2>1, <2>3, <3>1
  <2>4. CASE i # n
    <3>1. k # j
      BY <2>1, <2>4, RecoveryAssumption
    <3>2. Same(k, mx, m)
      BY <1>4, <3>1
    <3>3. i < n + 1 <=> i < n
      BY <2>1, <2>4
    <3>4. Same(k, m, db) => Same(k, mx, db)
      BY <3>2, SameTrans
    <3>5. k \notin DOMAIN m => k \notin DOMAIN mx
      BY <3>2 DEF Same
    <3> QED BY <2>2, <3>3, <3>4, <3>5
  <2> QED BY <2>3, <2>4
<1>13. \A q \in Savers : q = s
  BY DEF OneSaver
<1>14. recovered(FALSE)' = recovered(FALSE)
  BY <1>1 DEF recovered
<1>15. SaveInv'
  <2>1. \A k \in Keys \ since' : Same(k, recovered(FALSE)', db')
    BY <1>1, <1>14 DEF SaveInv
  <2> QED BY <1>8, <1>9, <1>12, <1>13, <2>1 DEF SaveInv, Same
<1> QED BY <1>10, <1>15

\* A SAVE writes its dump to the temporary file, which is empty.
LEMMA WriteOutSave ==
  ASSUME OneSaver, Inv, TypeInv, SaveInv, NEW s \in Savers, WriteOut(s)
  PROVE  TypeInv' /\ SaveInv'
<1> DEFINE d == saver[s].dump
<1>1. /\ saver[s].pc = "dump" /\ saver[s].next > Len(Shards)
      /\ data' = [data EXCEPT ![saver[s].fd] =
            d \o SubSeq(data[saver[s].fd], Len(d) + 1, Len(data[saver[s].fd]))]
      /\ saver' = [saver EXCEPT ![s].pc = "rename"]
      /\ UNCHANGED <<db, appendonly, aof, tmp, snapshot, since, used>>
  BY DEF WriteOut
<1>2. /\ saver[s].fd = tmp /\ tmp # None /\ tmp \in Inodes /\ tmp # snapshot
      /\ data[tmp] = <<>>
  BY <1>1 DEF Inv, SaverOK
<1>3. saver \in [Savers -> SaverRec] /\ saver[s] \in SaverRec /\ d \in Seq(Cmds)
  BY DEF TypeInv, SaverRec
<1>4. d \o SubSeq(<<>>, Len(d) + 1, Len(<<>>)) = d
  <2>1. Len(d) \in Nat /\ Len(<<>>) = 0
    BY <1>3, LenProperties, EmptySeq
  <2>2. SubSeq(<<>>, Len(d) + 1, Len(<<>>)) = <<>>
    BY <2>1, SubSeqEmpty
  <2> QED BY <1>3, <2>2, ConcatEmptySeq
<1> HIDE DEF d
<1>5. data' = [data EXCEPT ![tmp] = d]
  BY <1>1, <1>2, <1>4
<1>6. /\ data' \in [Inodes -> Seq(Cmds)] /\ data'[tmp] = d
      /\ snapshot # None => data'[snapshot] = data[snapshot]
  BY <1>2, <1>3, <1>5 DEF TypeInv, Inv
<1>7. /\ saver' \in [Savers -> SaverRec]
      /\ saver'[s].pc = "rename" /\ saver'[s].touched = saver[s].touched
  BY <1>1, <1>3 DEF SaverRec
<1>8. TypeInv'
  BY <1>1, <1>6, <1>7 DEF TypeInv
<1>9. ASSUME NEW k \in Keys, k \notin saver[s].touched
      PROVE  Same(k, applied(map_new, d, 0), db)
  <2>1. PICK i \in DOMAIN Shards : Shards[i] = k
    BY ShardFacts
  <2>2. i < saver[s].next
    <3>1. i \in 1..Len(Shards) /\ Len(Shards) \in Nat /\ saver[s].next \in Nat
      BY <1>3, ShardFacts DEF SaverRec
    <3> QED BY <1>1, <3>1
  <2> QED BY <1>1, <1>9, <2>1, <2>2 DEF SaveInv, DumpOK, DumpEnd, d
<1>10. recovered(FALSE)' = recovered(FALSE)
  BY <1>1, <1>6 DEF recovered
<1>11. \A q \in Savers : q = s
  BY DEF OneSaver
<1>12. SaveInv'
  <2>1. \A k \in Keys \ since' : Same(k, recovered(FALSE)', db')
    BY <1>1, <1>10 DEF SaveInv
  <2>2. \A k \in Keys \ saver'[s].touched : Same(k, applied(map_new, data'[tmp'], 0), db')
    BY <1>1, <1>6, <1>7, <1>9
  <2> QED BY <1>7, <1>11, <2>1, <2>2 DEF SaveInv, Same
<1> QED BY <1>8, <1>12

\* A SAVE installs its file.
LEMMA RenameSave ==
  ASSUME OneSaver, Inv, TypeInv, SaveInv, NEW s \in Savers, Rename(s)
  PROVE  TypeInv' /\ SaveInv'
<1>1. saver[s].pc = "rename" /\ tmp # None /\ tmp \in Inodes
  BY DEF Rename, Inv, SaverOK
<1>2. /\ snapshot' = tmp /\ since' = saver[s].touched
      /\ saver' = [saver EXCEPT ![s] = idle]
      /\ UNCHANGED <<db, appendonly, aof, data, used>>
  BY <1>1 DEF Rename
<1>3. idle \in SaverRec /\ idle.pc = "idle"
  BY IdleSaver, EmptySeq
<1>4. saver' \in [Savers -> SaverRec] /\ saver'[s] = idle
  BY <1>2, <1>3 DEF TypeInv
<1>5. TypeInv'
  BY <1>2, <1>4 DEF TypeInv
<1>6. recovered(FALSE)' = applied(map_new, data[tmp], 0)
  <2>1. recovered(FALSE)' = replay(data[tmp], 0)
    BY <1>1, <1>2 DEF recovered
  <2>2. data[tmp] \in Seq(Cmds)
    BY <1>1 DEF TypeInv
  <2> QED BY <2>1, <2>2, FileGood
<1>7. \A k \in Keys \ since' : Same(k, recovered(FALSE)', db')
  BY <1>1, <1>2, <1>6 DEF SaveInv
<1>8. \A q \in Savers : q = s
  BY DEF OneSaver
<1>9. SaveInv'
  BY <1>3, <1>4, <1>7, <1>8 DEF SaveInv, Same
<1> QED BY <1>5, <1>9

\* The process dies and is started again.
LEMMA RestartSave ==
  ASSUME Inv, TypeInv, SaveInv, NEW ao \in Starts, Restart(ao)
  PROVE  TypeInv' /\ SaveInv'
<1>1. /\ db' = recovered(ao) /\ appendonly' = ao
      /\ aof' = IF ao /\ aof = None THEN <<>> ELSE aof
      /\ saver' = [s \in Savers |-> idle]
      /\ since' = IF ao \/ snapshot = None THEN Keys ELSE {}
      /\ used' = [used EXCEPT !.crashes = @ + 1]
      /\ UNCHANGED <<tmp, snapshot, data>>
  BY DEF Restart
<1>2. idle \in SaverRec /\ idle.pc = "idle" /\ <<>> \in Seq(Cmds)
  BY IdleSaver, EmptySeq
<1>3. Good(recovered(ao))
  <2>1. \A x \in Seq(Cmds) : Good(replay(x, 0))
    BY FileGood
  <2>2. ao /\ aof # None => aof \in Seq(Cmds)
    BY DEF TypeInv
  <2>3. snapshot # None => data[snapshot] \in Seq(Cmds)
    BY DEF TypeInv, Inv
  <2>4. Good(map_new)
    BY EmptyStore DEF Good
  <2> QED BY <2>1, <2>2, <2>3, <2>4 DEF recovered
<1>4. TypeInv'
  <2>1. used' \in [writes : Nat, saves : Nat, crashes : Nat]
    BY <1>1 DEF TypeInv
  <2>2. aof' \in Seq(Cmds) \cup {None} /\ (appendonly' => aof' \in Seq(Cmds))
    BY <1>1, <1>2 DEF TypeInv
  <2>3. saver' \in [Savers -> SaverRec]
    BY <1>1, <1>2
  <2> QED BY <1>1, <1>3, <2>1, <2>2, <2>3 DEF TypeInv
<1>5. ASSUME NEW k \in Keys, k \notin since' PROVE Same(k, recovered(FALSE)', db')
  <2>1. ~ao /\ snapshot # None
    BY <1>1, <1>5
  <2>2. recovered(FALSE)' = db'
    BY <1>1, <2>1 DEF recovered
  <2> QED BY <2>2, SameTrans
<1>6. SaveInv'
  <2>1. \A s \in Savers : saver'[s].pc = "idle"
    BY <1>1, <1>2
  <2>2. \A k \in Keys \ since' : Same(k, recovered(FALSE)', db')
    BY <1>5
  <2> QED BY <2>1, <2>2 DEF SaveInv, Same
<1> QED BY <1>4, <1>6

\* No step loses more than the writes since the last SAVE began.
LEMMA NextSave ==
  ASSUME OneSaver, Inv, TypeInv, SaveInv, [Next]_vars
  PROVE  TypeInv' /\ SaveInv'
<1>1. Inv'
  BY NextInv
<1>2. ASSUME UNCHANGED vars PROVE TypeInv' /\ SaveInv'
  <2>1. UNCHANGED <<db, appendonly, aof, tmp, snapshot, data, saver, since, used>>
    BY <1>2 DEF vars
  <2>2. TypeInv'
    BY <2>1 DEF TypeInv
  <2>3. recovered(FALSE)' = recovered(FALSE) /\ \A s \in Savers : DumpEnd(s)' = DumpEnd(s)
    BY <2>1 DEF recovered, DumpEnd
  <2>4. SaveInv'
    BY <2>1, <2>3 DEF SaveInv, DumpOK, Same
  <2> QED BY <2>2, <2>4
<1> QED BY <1>1, <1>2, WriteSave, CreateTmpSave, DumpShardSave, WriteOutSave, RenameSave,
           RestartSave DEF Next

\* As long as SAVEs do not overlap, a start without an AOF gives back every key
\* that was not written since the last SAVE that returned Ok began: a dump that
\* is taken shard by shard among writes is as good as one taken at once, and a
\* SAVE that a crash cuts short leaves the earlier one in place (save_snapshot,
\* dump_commands, bootstrap).
THEOREM SavesRecoverable == OneSaver => (Spec => []SaveRecoverable)
<1> SUFFICES ASSUME OneSaver PROVE Spec => []SaveRecoverable
  OBVIOUS
<1>1. Inv /\ [Next]_vars => Inv'
  BY NextInv
<1>2. Inv /\ TypeInv /\ SaveInv /\ [Next]_vars => TypeInv' /\ SaveInv'
  BY NextSave
<1>3. SaveInv => SaveRecoverable
  BY DEF SaveInv, SaveRecoverable, Agree, Same
<1> QED BY <1>1, <1>2, <1>3, InitInv, InitSave, PTL DEF Spec
=============================================================================
