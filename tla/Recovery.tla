------------------------------ MODULE Recovery ------------------------------
(***************************************************************************)
(* Snapshots, and what a start makes of the files it finds                 *)
(* (crates/server/src/persistence.rs save_snapshot, server.rs bootstrap).  *)
(* SAVE runs in the thread of the connection that asked for it, while      *)
(* clients write; the process may die at any point and be started again    *)
(* with or without --appendonly.                                           *)
(*                                                                         *)
(* A file is an inode and names refer to inodes: who has a file open goes  *)
(* on writing to it when it gets another name.  The order of store and log *)
(* is Primary.tla's subject, so a write and its append are one step here.  *)
(***************************************************************************)
EXTENDS Dataset

CONSTANTS
  Savers,     \* connections that send SAVE or BGSAVE
  Shards,     \* the keys, one in each shard, in the order dumps visit them
  Starts,     \* values of --appendonly the server is started with
  MaxWrites,  \* bound on the writes
  MaxSaves,   \* bound on the SAVEs
  MaxCrashes  \* bound on the crashes

ASSUME RecoveryAssumption ==
  /\ Shards \in Seq(Keys) /\ {Shards[i] : i \in DOMAIN Shards} = Keys
  /\ \A i, j \in DOMAIN Shards : Shards[i] = Shards[j] => i = j
  /\ IsFiniteSet(Savers)
  /\ Starts \subseteq BOOLEAN
  /\ {MaxWrites, MaxSaves, MaxCrashes} \subseteq Nat

\* One for each open file, and one for each name.
Inodes == 1..(Cardinality(Savers) + 2)

VARIABLES
  db,          \* the store
  appendonly,  \* Config::appendonly of the running process
  aof,         \* the commands in the append-only file; None if there is none
  tmp,         \* the inode named snapshot_path with extension tmp, or None
  snapshot,    \* the inode named snapshot_path, or None
  data,        \* the commands in each inode
  saver,       \* for each saver: where in save_snapshot it is
  dumps,       \* every dump that was written out
  since,       \* keys written since the last SAVE that returned Ok began
  used         \* how much of each bound is used up

vars == <<db, appendonly, aof, tmp, snapshot, data, saver, dumps, since, used>>

idle == [pc |-> "idle", fd |-> None, next |-> 1, dump |-> <<>>, touched |-> {}]

Init ==
  /\ db = map_new
  /\ appendonly \in Starts
  /\ aof = IF appendonly THEN <<>> ELSE None
  /\ tmp = None /\ snapshot = None
  /\ data = [i \in Inodes |-> <<>>]
  /\ saver = [s \in Savers |-> idle]
  /\ dumps = {}
  /\ since = Keys
  /\ used = [writes |-> 0, saves |-> 0, crashes |-> 0]

\* A client's write, logged when there is an AOF.
Write(k, op) ==
  LET cmd == command(op, k, <<used.writes + 1>>, 0, used.writes + 1)
      outcome == dispatch(db, cmd, 0)
  IN /\ used.writes < MaxWrites
     /\ outcome.persist
     /\ db' = outcome.db
     /\ aof' = IF appendonly THEN Append(aof, cmd) ELSE aof
     /\ since' = since \cup {k}
     /\ saver' = [s \in Savers |-> [saver[s] EXCEPT !.touched = @ \cup {k}]]
     /\ used' = [used EXCEPT !.writes = @ + 1]
     /\ UNCHANGED <<appendonly, tmp, snapshot, data, dumps>>

-----------------------------------------------------------------------------
(* save_snapshot                                                           *)

\* Mutant of CreateTmp: the snapshot is written in place.
CreateTmp_in_place(s) ==
  LET taken == {tmp, snapshot} \cup {saver[q].fd : q \in Savers}
      fd == IF snapshot # None THEN snapshot ELSE CHOOSE i \in Inodes : i \notin taken
  IN /\ saver[s].pc = "idle" /\ used.saves < MaxSaves
     /\ tmp' = fd
     /\ data' = [data EXCEPT ![fd] = <<>>]
     /\ saver' = [saver EXCEPT ![s] = [idle EXCEPT !.pc = "dump", !.fd = fd]]
     /\ used' = [used EXCEPT !.saves = @ + 1]
     /\ UNCHANGED <<db, appendonly, aof, snapshot, dumps, since>>

\* File::create(&tmp): an existing file is truncated.
CreateTmp(s) ==
  LET taken == {tmp, snapshot} \cup {saver[q].fd : q \in Savers}
      fd == IF tmp # None THEN tmp ELSE CHOOSE i \in Inodes : i \notin taken
  IN /\ saver[s].pc = "idle" /\ used.saves < MaxSaves
     /\ tmp' = fd
     /\ data' = [data EXCEPT ![fd] = <<>>]
     /\ saver' = [saver EXCEPT ![s] = [idle EXCEPT !.pc = "dump", !.fd = fd]]
     /\ used' = [used EXCEPT !.saves = @ + 1]
     /\ UNCHANGED <<db, appendonly, aof, snapshot, dumps, since>>

\* store.dump_commands(), one shard at a time.
DumpShard(s) ==
  /\ saver[s].pc = "dump" /\ saver[s].next <= Len(Shards)
  /\ saver' = [saver EXCEPT ![s].next = @ + 1,
       ![s].dump = @ \o dump_shard(db, Shards[saver[s].next], 0)]
  /\ UNCHANGED <<db, appendonly, aof, tmp, snapshot, data, dumps, since, used>>

\* write_all and flush, from the start of the open file; what a longer file
\* held beyond that stays.
WriteOut(s) ==
  LET d == saver[s].dump  old == data[saver[s].fd]
  IN /\ saver[s].pc = "dump" /\ saver[s].next > Len(Shards)
     /\ data' = [data EXCEPT ![saver[s].fd] = d \o SubSeq(old, Len(d) + 1, Len(old))]
     /\ dumps' = dumps \cup {d}
     /\ saver' = [saver EXCEPT ![s].pc = "rename"]
     /\ UNCHANGED <<db, appendonly, aof, tmp, snapshot, since, used>>

\* rename(&tmp, path), and the reply: an error when there is no such file.
Rename(s) ==
  /\ saver[s].pc = "rename"
  /\ IF tmp = None
     THEN UNCHANGED <<tmp, snapshot, since>>
     ELSE /\ snapshot' = tmp
          /\ tmp' = None
          /\ since' = saver[s].touched
  /\ saver' = [saver EXCEPT ![s] = idle]
  /\ UNCHANGED <<db, appendonly, aof, data, dumps, used>>

-----------------------------------------------------------------------------
(* Server::bootstrap                                                       *)

\* Mutant of recovered: an AOF is replayed even when it is switched off.
recovered_from_any_aof(ao) ==
  IF aof # None THEN replay(aof, 0)
  ELSE IF snapshot # None THEN replay(data[snapshot], 0)
  ELSE map_new

\* AOF preferred, else snapshot.
recovered(ao) ==
  IF ao /\ aof # None THEN replay(aof, 0)
  ELSE IF snapshot # None THEN replay(data[snapshot], 0)
  ELSE map_new

\* The process dies and is started with appendonly = ao; Aof::open creates
\* the file if there is none.
Restart(ao) ==
  /\ used.crashes < MaxCrashes
  /\ db' = recovered(ao)
  /\ appendonly' = ao
  /\ aof' = IF ao /\ aof = None THEN <<>> ELSE aof
  /\ saver' = [s \in Savers |-> idle]
  /\ since' = IF ao \/ snapshot = None THEN Keys ELSE {}
  /\ used' = [used EXCEPT !.crashes = @ + 1]
  /\ UNCHANGED <<tmp, snapshot, data, dumps>>

Next ==
  \/ \E k \in Keys, op \in {"SET", "RPUSH", "DEL"} : Write(k, op)
  \/ \E s \in Savers : CreateTmp(s)
  \/ \E s \in Savers : DumpShard(s)
  \/ \E s \in Savers : WriteOut(s)
  \/ \E s \in Savers : Rename(s)
  \/ \E ao \in Starts : Restart(ao)

Spec == Init /\ [][Next]_vars

-----------------------------------------------------------------------------
(* Properties                                                              *)

\* "atomic via temp file + rename": whenever there is a snapshot file, it holds
\* one complete dump, whatever was running when (save_snapshot).
SnapshotWhole == snapshot # None => data[snapshot] \in dumps

Agree(k, m1, m2) ==
  /\ k \in DOMAIN m1 <=> k \in DOMAIN m2
  /\ k \in DOMAIN m1 => m1[k] = m2[k]

\* Without an AOF, a crash loses nothing but writes later than the start of
\* the last SAVE that returned Ok: a start gives every other key what it has
\* now, in particular when the SAVE ran among writes or a later one was cut
\* short (save_snapshot, dump_commands, bootstrap).
SaveRecoverable ==
  ~appendonly => \A k \in Keys \ since : Agree(k, recovered(FALSE), db)
=============================================================================
