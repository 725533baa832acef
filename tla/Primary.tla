------------------------------- MODULE Primary ------------------------------
(***************************************************************************)
(* A primary with its client connections, its append-only file and its     *)
(* replicas (crates/server/src/conn.rs, persistence.rs, repl.rs and        *)
(* server.rs).  Every connection is a thread.  A write goes through four   *)
(* steps, each under a lock of its own: the store (a shard's lock), the    *)
(* AOF (its writer's lock), the replicas (the registry's lock) and the     *)
(* reply (none).  The threads interleave between them, replicas join and   *)
(* leave, appends fail, and the process may die and start again.           *)
(*                                                                         *)
(* The io_uring runtime (runtime_uring.rs handle_conn) runs the same steps *)
(* in the same order and refuses SYNC.                                     *)
(***************************************************************************)
EXTENDS Dataset

CONSTANTS
  Conns,        \* connection threads
  Replicas,     \* replica processes
  Shards,       \* the keys, one in each shard, in the order dumps visit them
  Requests,     \* for each connection, the <<op, key, time>> its client sends
  Starts,       \* values of --appendonly the server is started with
  Torn,         \* whether a failing append can leave part of a command behind
  ChanCap,      \* commands that fit in a socket before a write to it blocks
  MaxWrites,    \* bound on the requests
  MaxFaults,    \* bound on failing appends, crashes and lost connections together
  MaxTime       \* the clock stops here

ASSUME PrimaryAssumption ==
  /\ Shards \in Seq(Keys) /\ {Shards[i] : i \in DOMAIN Shards} = Keys
  /\ \A i, j \in DOMAIN Shards : Shards[i] = Shards[j] => i = j
  /\ IsFiniteSet(Conns)
  /\ \A c \in Conns : Requests[c] \subseteq (Ops \X Keys \X Nat)
  /\ Starts \subseteq BOOLEAN /\ Torn \in BOOLEAN
  /\ {ChanCap, MaxWrites, MaxFaults, MaxTime} \subseteq Nat

VARIABLES
  appendonly,  \* Config::appendonly
  db,          \* the store
  now,         \* now_ms()
  conn,        \* for each connection: where it is and its output buffer
  aof,         \* the append-only file, as a sequence of pieces of commands
  buf,         \* the BufWriter in front of it
  sync,        \* for each replica: the thread that serves its SYNC
  dead,        \* whether the registry holds a socket whose peer is gone
  chan,        \* for each replica: what its socket holds and it has not applied
  rdb,         \* for each replica: its store
  acked,       \* the requests that were executed, and confirmed with no error
  raced,       \* for each replica: the keys whose writes raced its SYNC
  lost,        \* the keys of which the log will not get an executed write
  used         \* how much of each bound is used up

\* A dump has at most two commands for a key.
MaxChan == MaxWrites + 2 * Len(Shards)

vars == <<appendonly, db, now, conn, aof, buf, sync, dead, chan, rdb, acked,
          raced, lost, used>>

-----------------------------------------------------------------------------
(* The append-only file                                                    *)

\* A piece of the file: a command, or the part of one a write left off at.
piece(part, c) == [part |-> part, cmd |-> c]

\* The pieces a failing write of p leaves in the file and in the BufWriter.
cuts(p) ==
  {<<SubSeq(p, 1, n), SubSeq(p, n + 1, Len(p))>> : n \in 0..(Len(p) - 1)} \cup
  {<<Append(SubSeq(p, 1, n), piece("head", p[n + 1].cmd)),
     <<piece("tail", p[n + 1].cmd)>> \o SubSeq(p, n + 2, Len(p))>> :
        n \in {m \in 0..(Len(p) - 1) : Torn /\ p[m + 1].part = "whole"}}

\* The same for a write_all(cmd) that fails with b in the BufWriter, and keeps
\* nothing of cmd in memory.  Either cmd does not fit beside b, and writing b
\* fails; or cmd is as large as the BufWriter: it goes to the file directly,
\* behind b, and that fails.
drops(b, cmd) ==
  cuts(b) \cup {<<b, <<>>>>} \cup
  IF Torn THEN {<<Append(b, piece("head", cmd)), <<>>>>} ELSE {}

\* Where parse_command stops on a file: at a head without its tail.
broken(file, i) ==
  /\ file[i].part = "head"
  /\ i < Len(file) => file[i + 1].part # "tail"

\* The pieces replay_file gets to read.
readable(file) ==
  {i \in DOMAIN file : \A j \in 1..i : ~broken(file, j)}

\* The commands among them, in order.
commands(file) ==
  LET n == Cardinality(readable(file))
      kept[i \in 0..n] == IF i = 0 THEN <<>>
                          ELSE IF file[i].part = "head" THEN kept[i - 1]
                          ELSE Append(kept[i - 1], file[i].cmd)
  IN kept[n]

logged(file) == {commands(file)[i].id : i \in DOMAIN commands(file)}

-----------------------------------------------------------------------------
(* Initial state, after a first start with nothing on disk                 *)

idle == [pc |-> "ready", cmd |-> None, out |-> {}, quit |-> FALSE]

nosync == [at |-> "down", next |-> 1, dump |-> <<>>, time |-> 0]

Init ==
  /\ appendonly \in Starts
  /\ db = map_new
  /\ now = 0
  /\ conn = [c \in Conns |-> idle]
  /\ aof = <<>>
  /\ buf = <<>>
  /\ sync = [r \in Replicas |-> nosync]
  /\ dead = FALSE
  /\ chan = [r \in Replicas |-> <<>>]
  /\ rdb = [r \in Replicas |-> map_new]
  /\ acked = {}
  /\ raced = [r \in Replicas |-> {}]
  /\ lost = {}
  /\ used = [writes |-> 0, faults |-> 0]

-----------------------------------------------------------------------------
(* A connection                                                            *)

attached == {r \in Replicas : sync[r].at = "live"}

\* Mutant of has_replicas: the count is not stored when a replica registers.
has_replicas_uncounted == dead

\* The lock-free count of the registry.
has_replicas == dead \/ attached # {}

\* A request is parsed and dispatched.  Its reply goes to the output buffer,
\* and stays there while the client's pipelined requests last.
Execute(c) ==
  /\ conn[c].pc = "ready" /\ ~conn[c].quit
  /\ used.writes < MaxWrites
  /\ \E q \in Requests[c] :
       LET id == used.writes + 1
           cmd == command(q[1], q[2], <<id>>, q[3], id)
           outcome == dispatch(db, cmd, now)
       IN /\ db' = outcome.db
          /\ conn' = [conn EXCEPT ![c] =
                 IF outcome.persist
                 THEN [conn[c] EXCEPT !.pc = "persist", !.cmd = cmd,
                                       !.out = @ \cup {id}]
                 ELSE conn[c]]
          /\ raced' = [r \in Replicas |->
                 IF sync[r].at = "dump" THEN raced[r] \cup {cmd.key} ELSE raced[r]]
          /\ used' = [used EXCEPT !.writes = id]
  /\ UNCHANGED <<appendonly, now, aof, buf, sync, dead, chan, rdb, acked,
                 lost>>

\* No AOF: nothing to do unless there are replicas.
SkipAof(c) ==
  /\ conn[c].pc = "persist" /\ ~appendonly
  /\ conn' = [conn EXCEPT ![c].pc = IF has_replicas THEN "propagate" ELSE "ready"]
  /\ UNCHANGED <<appendonly, db, now, aof, buf, sync, dead, chan, rdb, acked,
                 raced, used, lost>>

\* Mutant of AppendAof: what an earlier append left in memory is written last.
AppendAof_late_buffer(c) ==
  /\ conn[c].pc = "persist" /\ appendonly
  /\ aof' = Append(aof, piece("whole", conn[c].cmd)) \o buf
  /\ buf' = <<>>
  /\ conn' = [conn EXCEPT ![c].pc = "propagate"]
  /\ UNCHANGED <<appendonly, db, now, sync, dead, chan, rdb, acked, raced,
                 used, lost>>

\* Aof::append -- what is left in the BufWriter goes first.
AppendAof(c) ==
  /\ conn[c].pc = "persist" /\ appendonly
  /\ aof' = Append(aof \o buf, piece("whole", conn[c].cmd))
  /\ buf' = <<>>
  /\ conn' = [conn EXCEPT ![c].pc = "propagate"]
  /\ UNCHANGED <<appendonly, db, now, sync, dead, chan, rdb, acked, raced,
                 used, lost>>

\* Aof::append fails in flush: the BufWriter keeps what was not written.  The
\* reply stays in the output buffer, an error comes after it, and the
\* connection is closed once the buffer is sent.
FailAof(c) ==
  /\ conn[c].pc = "persist" /\ appendonly
  /\ used.faults < MaxFaults
  /\ \E cut \in cuts(Append(buf, piece("whole", conn[c].cmd))) :
       /\ aof' = aof \o cut[1]
       /\ buf' = cut[2]
  /\ conn' = [conn EXCEPT ![c].pc = "propagate", ![c].quit = TRUE]
  /\ used' = [used EXCEPT !.faults = @ + 1]
  /\ UNCHANGED <<appendonly, db, now, sync, dead, chan, rdb, acked, raced,
                 lost>>

\* Aof::append fails in write_all: the store has the command, and neither the
\* file nor the BufWriter has it.  The client is told as in FailAof.
DropAof(c) ==
  /\ conn[c].pc = "persist" /\ appendonly
  /\ used.faults < MaxFaults
  /\ \E cut \in drops(buf, conn[c].cmd) :
       /\ aof' = aof \o cut[1]
       /\ buf' = cut[2]
  /\ conn' = [conn EXCEPT ![c].pc = "propagate", ![c].quit = TRUE]
  /\ lost' = lost \cup {conn[c].cmd.key}
  /\ used' = [used EXCEPT !.faults = @ + 1]
  /\ UNCHANGED <<appendonly, db, now, sync, dead, chan, rdb, acked, raced>>

\* Replication::propagate -- a blocking write to every registered socket,
\* under the registry's lock.  A socket whose peer is gone is dropped once a
\* write to it fails, which the first need not do.
Propagate(c) ==
  /\ conn[c].pc = "propagate"
  /\ has_replicas => \A r \in attached : Len(chan[r]) < ChanCap
  /\ chan' = [r \in Replicas |->
        IF r \in attached THEN Append(chan[r], conn[c].cmd) ELSE chan[r]]
  /\ dead' \in {dead, FALSE}
  /\ conn' = [conn EXCEPT ![c].pc = "ready"]
  /\ UNCHANGED <<appendonly, db, now, aof, buf, sync, rdb, acked, raced,
                 used, lost>>

\* The request whose reply an error follows: a failed append is what ends a
\* connection.
denied(c) == IF conn[c].quit THEN {conn[c].cmd.id} ELSE {}

\* Mutant of Flush: replies are sent as soon as they are in the buffer.
Flush_before_append(c) ==
  /\ conn[c].out # {}
  /\ acked' = acked \cup (conn[c].out \ denied(c))
  /\ conn' = [conn EXCEPT ![c].out = {}]
  /\ UNCHANGED <<appendonly, db, now, aof, buf, sync, dead, chan, rdb, raced,
                 used, lost>>

\* Mutant of Flush: a connection that quits does not send its buffer.
Flush_unless_quit(c) ==
  /\ conn[c].pc = "ready" /\ conn[c].out # {} /\ ~conn[c].quit
  /\ acked' = acked \cup (conn[c].out \ denied(c))
  /\ conn' = [conn EXCEPT ![c] = idle]
  /\ UNCHANGED <<appendonly, db, now, aof, buf, sync, dead, chan, rdb, raced,
                 used, lost>>

\* The batch is over: the output buffer is sent.  A connection that quits
\* makes room for a new one.
Flush(c) ==
  /\ conn[c].pc = "ready" /\ (conn[c].out # {} \/ conn[c].quit)
  /\ acked' = acked \cup (conn[c].out \ denied(c))
  /\ conn' = [conn EXCEPT ![c] = idle]
  /\ UNCHANGED <<appendonly, db, now, aof, buf, sync, dead, chan, rdb, raced,
                 used, lost>>

-----------------------------------------------------------------------------
(* A replica                                                               *)

\* Mutant of Connect: shards are counted from zero.
Connect_from_zero(r) ==
  /\ sync[r].at = "down" /\ chan[r] = <<>>
  /\ sync' = [sync EXCEPT ![r] = [nosync EXCEPT !.at = "dump", !.next = 0]]
  /\ raced' = [raced EXCEPT ![r] =
       IF rdb[r] = map_new
       THEN {conn[c].cmd.key : c \in {d \in Conns : conn[d].pc # "ready"}}
       ELSE Keys]
  /\ UNCHANGED <<appendonly, db, now, conn, aof, buf, dead, chan, rdb, acked,
                 used, lost>>

\* sync_once connects and sends SYNC; its connection thread starts a dump.
\* (What a replica that is not empty makes of a snapshot is left open in raced.)
Connect(r) ==
  /\ sync[r].at = "down" /\ chan[r] = <<>>
  /\ sync' = [sync EXCEPT ![r] = [nosync EXCEPT !.at = "dump", !.time = now]]
  /\ raced' = [raced EXCEPT ![r] =
       IF rdb[r] = map_new
       THEN {conn[c].cmd.key : c \in {d \in Conns : conn[d].pc # "ready"}}
       ELSE Keys]
  /\ UNCHANGED <<appendonly, db, now, conn, aof, buf, dead, chan, rdb, acked,
                 used, lost>>

\* dump_commands, one shard at a time.
DumpShard(r) ==
  /\ sync[r].at = "dump" /\ sync[r].next <= Len(Shards)
  /\ sync' = [sync EXCEPT ![r].next = @ + 1,
       ![r].dump = @ \o dump_shard(db, Shards[sync[r].next], sync[r].time)]
  /\ UNCHANGED <<appendonly, db, now, conn, aof, buf, dead, chan, rdb, acked,
                 raced, used, lost>>

\* Mutant of Register: only the first replica to come is registered.
Register_first_only(r) ==
  /\ sync[r].at = "dump" /\ sync[r].next > Len(Shards)
  /\ ~has_replicas
  /\ sync' = [sync EXCEPT ![r] = [nosync EXCEPT !.at = "live"]]
  /\ chan' = [chan EXCEPT ![r] = @ \o sync[r].dump]
  /\ UNCHANGED <<appendonly, db, now, conn, aof, buf, dead, rdb, acked,
                 raced, used, lost>>

\* add_replica_with_snapshot, under the registry's lock.
Register(r) ==
  /\ sync[r].at = "dump" /\ sync[r].next > Len(Shards)
  /\ sync' = [sync EXCEPT ![r] = [nosync EXCEPT !.at = "live"]]
  /\ chan' = [chan EXCEPT ![r] = @ \o sync[r].dump]
  /\ UNCHANGED <<appendonly, db, now, conn, aof, buf, dead, rdb, acked,
                 raced, used, lost>>

\* The replica dispatches the next command of the stream.
Apply(r) ==
  /\ chan[r] # <<>>
  /\ rdb' = [rdb EXCEPT ![r] = dispatch(@, Head(chan[r]), now).db]
  /\ chan' = [chan EXCEPT ![r] = Tail(@)]
  /\ UNCHANGED <<appendonly, db, now, conn, aof, buf, sync, dead, acked,
                 raced, used, lost>>

\* The connection is lost, and with it what had not reached the replica.  The
\* replica keeps its store and will connect again.  The primary does not know:
\* the socket stays in the registry, or may be put there by the thread that is
\* serving the SYNC.
Break(r) ==
  /\ sync[r].at # "down" /\ used.faults < MaxFaults
  /\ dead' \in IF sync[r].at = "live" THEN {TRUE} ELSE {dead, TRUE}
  /\ sync' = [sync EXCEPT ![r] = nosync]
  /\ \E n \in 0..Len(chan[r]) : chan' = [chan EXCEPT ![r] = SubSeq(@, 1, n)]
  /\ used' = [used EXCEPT !.faults = @ + 1]
  /\ UNCHANGED <<appendonly, db, now, conn, aof, buf, rdb, acked, raced, lost>>

-----------------------------------------------------------------------------
(* The process                                                             *)

\* Server::bootstrap: the AOF is replayed as far as it parses, and opened for
\* appending at its end.  (Without an AOF there is nothing on disk here;
\* snapshots are Recovery.tla's subject.)
recovered == IF appendonly THEN replay(commands(aof), now) ELSE map_new

\* The process dies and starts again; connections are lost as in Break.
Restart ==
  /\ used.faults < MaxFaults
  /\ db' = recovered
  /\ buf' = <<>>
  /\ conn' = [c \in Conns |-> idle]
  /\ sync' = [r \in Replicas |-> nosync]
  /\ dead' = FALSE
  /\ \E n \in [Replicas -> 0..MaxChan] :
       /\ \A r \in Replicas : n[r] <= Len(chan[r])
       /\ chan' = [r \in Replicas |-> SubSeq(chan[r], 1, n[r])]
  /\ lost' = {}
  /\ used' = [used EXCEPT !.faults = @ + 1]
  /\ UNCHANGED <<appendonly, now, aof, rdb, acked, raced>>

Tick ==
  /\ now < MaxTime
  /\ now' = now + 1
  /\ UNCHANGED <<appendonly, db, conn, aof, buf, sync, dead, chan, rdb,
                 acked, raced, used, lost>>

Next ==
  \/ \E c \in Conns : Execute(c)
  \/ \E c \in Conns : SkipAof(c)
  \/ \E c \in Conns : AppendAof(c)
  \/ \E c \in Conns : FailAof(c)
  \/ \E c \in Conns : DropAof(c)
  \/ \E c \in Conns : Propagate(c)
  \/ \E c \in Conns : Flush(c)
  \/ \E r \in Replicas : Connect(r)
  \/ \E r \in Replicas : DumpShard(r)
  \/ \E r \in Replicas : Register(r)
  \/ \E r \in Replicas : Apply(r)
  \/ \E r \in Replicas : Break(r)
  \/ Restart
  \/ Tick

Spec == Init /\ [][Next]_vars

\* The threads of the primary are scheduled.
PrimaryFairness ==
  /\ \A c \in Conns :
       WF_vars(SkipAof(c) \/ AppendAof(c) \/ Propagate(c) \/ Flush(c))
  /\ \A r \in Replicas : WF_vars(DumpShard(r) \/ Register(r))

\* ... and replicas go on reading: propagate's write blocks, under the registry's
\* lock, on one that keeps its connection open and does not.
FairSpec == Spec /\ PrimaryFairness /\ \A r \in Replicas : WF_vars(Apply(r))

-----------------------------------------------------------------------------
(* Properties                                                              *)

Command == [op : Ops, key : Keys, arg : Seq(1..MaxWrites), time : Nat,
            id : 0..MaxWrites]

Stored == [type : {"string", "list"}, value : Seq(1..MaxWrites) \ {<<>>},
           expire_at : Nat \cup {None}]

Piece == [part : {"whole", "head", "tail"}, cmd : Command]

IsStore(m) == DOMAIN m \subseteq Keys /\ \A k \in DOMAIN m : m[k] \in Stored

\* The variables have their types; in particular the writer of a connection
\* that is past the store holds a command that a client sent.
TypeOK ==
  /\ IsStore(db) /\ \A r \in Replicas : IsStore(rdb[r])
  /\ now \in 0..MaxTime
  /\ \A c \in Conns :
       /\ conn[c].pc \in {"ready", "persist", "propagate"}
       /\ conn[c].pc # "ready" => conn[c].cmd \in Command /\ conn[c].cmd.id > 0
       /\ conn[c].out \subseteq 1..used.writes
       /\ conn[c].quit \in BOOLEAN
  /\ aof \in Seq(Piece) /\ buf \in Seq(Piece)
  /\ \A r \in Replicas :
       /\ sync[r].at \in {"down", "dump", "live"}
       /\ sync[r].next \in 1..(Len(Shards) + 1)
       /\ sync[r].dump \in Seq(Command)
       /\ chan[r] \in Seq(Command) /\ Len(chan[r]) <= MaxChan
  /\ {dead, appendonly} \subseteq BOOLEAN
  /\ acked \subseteq 1..used.writes /\ lost \subseteq Keys

\* Whether two stores show clients the same under k.
Agree(k, m1, m2) ==
  LET v1 == Visible(m1, now)  v2 == Visible(m2, now)
  IN /\ k \in DOMAIN v1 <=> k \in DOMAIN v2
     /\ k \in DOMAIN v1 => v1[k] = v2[k]

\* "On startup the log is replayed to reconstruct state": replaying the log,
\* with what the BufWriter still holds, gives the store, for every key that no
\* connection has executed a write to and not yet appended it.  Store and log
\* are updated under different locks (conn.rs run, Aof::append).  A failing
\* flush only delays what it did not write; a failing write_all loses its
\* command, which costs the log that command's key until the next start, and
\* no other key.
LogMatchesStore ==
  appendonly =>
    \A k \in Keys \ lost :
      (\A c \in Conns : conn[c].pc = "persist" => conn[c].cmd.key # k)
        => Agree(k, replay(commands(aof \o buf), now), db)

\* A write that was confirmed to a client is in the part of the file that a
\* start will read: "a crash loses at most in-flight buffered bytes"
\* (Aof::append, replay_file, Aof::open).  The reply of a failed append is sent
\* too, with an error behind it: a client that reads both has no confirmation.
AckedDurable == appendonly => acked \subseteq logged(aof)

\* No write is on its way to r or in r's stream.
Settled(r) ==
  /\ sync[r].at = "live" /\ chan[r] = <<>>
  /\ \A c \in Conns : conn[c].pc = "ready"

\* "Steady-state propagation after the handshake is exactly-once": once
\* things settle, a replica that joined with an empty store agrees with the
\* primary on every key that was not written between the start of its SYNC and
\* its registration.  A write that was lost, repeated or reordered would show
\* in the value (conn.rs run, Replication::propagate,
\* add_replica_with_snapshot).
ReplicaConverges ==
  \A r \in Replicas :
    Settled(r) => \A k \in Keys \ raced[r] : Agree(k, rdb[r], db)

\* A client that sent a write is answered: no connection stays forever between
\* the store and its reply (conn.rs run, the blocking write in propagate).
WritesAnswered ==
  \A c \in Conns : conn[c].pc # "ready" \/ conn[c].out # {} ~>
                     conn[c].pc = "ready" /\ conn[c].out = {}

\* A replica that is being synchronised and whose connection is not lost
\* gets to the end of its stream.
ReplicasCatchUp ==
  \A r \in Replicas :
    sync[r].at = "dump" ~>
      sync[r].at = "down" \/ (sync[r].at = "live" /\ chan[r] = <<>>)
=============================================================================
