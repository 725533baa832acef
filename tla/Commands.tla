------------------------------ MODULE Commands ------------------------------
(***************************************************************************)
(* Commands that are several calls of the store, and calls that visit one  *)
(* shard after the other (crates/server/src/commands.rs, and flush_all,    *)
(* keys, dbsize and purge_expired in crates/core/src/store.rs).  Each call *)
(* is atomic under the lock of a shard; the threads of the connections,    *)
(* the reaper and the clock interleave between the calls.                  *)
(*                                                                         *)
(* A command is a function from the results of its calls so far to its     *)
(* next call, or to its outcome.  What Primary.tla is about (appending     *)
(* under another lock than the store's) is left out: a finished command is *)
(* logged and answered in one step.                                        *)
(***************************************************************************)
EXTENDS Integers, FiniteSets, SequencesExt, Dataset

CONSTANTS
  Conns,        \* connection threads
  Shards,       \* the sets of keys of the shards, in the order they are visited
  Loaded,       \* the datasets a snapshot may have brought in at startup
  Requests,     \* for each connection, the requests its client sends
  MaxRequests,  \* bound on the requests
  MaxTime       \* the clock stops here

Flags == {"NX", "XX", "KEEPTTL", "GET", "GT", "LT"}

\* The commands without a key.
Whole == {"KEYS", "DBSIZE", "FLUSHALL"}

\* The commands with one key.
OneKey == {"SET", "GETSET", "SETNX", "RPUSH", "EXPIRE", "PERSIST"}

CommandNames == {"MSET", "MGET", "DEL", "EXISTS"} \cup OneKey \cup Whole

\* A request that passed the checks of arity and syntax: its keys, and for SET
\* and EXPIRE its flags and its time, which counts from the clock (EX, EXPIRE)
\* or is absolute (EXAT, EXPIREAT).
Request ==
  {r \in [op : CommandNames, keys : Seq(Keys), flags : SUBSET Flags,
          time : Int \cup {None}, absolute : BOOLEAN] :
     /\ r.op \in OneKey => Len(r.keys) = 1
     /\ r.op \in Whole \/ r.keys # <<>>
     /\ r.op = "EXPIRE" => r.time # None}

Entry == [type : {"string", "list"}, value : Seq(0..MaxRequests), expire_at : Nat \cup {None}]

ASSUME CommandsAssumption ==
  /\ Shards \in Seq(SUBSET Keys)
  /\ UNION {Shards[i] : i \in DOMAIN Shards} = Keys
  /\ \A i, j \in DOMAIN Shards : i # j => Shards[i] \cap Shards[j] = {}
  /\ \A m \in Loaded : DOMAIN m \subseteq Keys /\ m \in [DOMAIN m -> Entry]
  /\ \A c \in Conns : Requests[c] \subseteq Request
  /\ None \notin Conns
  /\ {MaxRequests, MaxTime} \subseteq Nat

VARIABLES
  db,      \* the store
  now,     \* now_ms()
  conn,    \* for each connection: the request it executes and how far it is
  log,     \* the requests that were logged, in the order of the log
  loaded,  \* the dataset the server started with
  mixed,   \* history: keys that LogReplays does not speak of (see Start, Tick)
  used     \* the number of requests so far

vars == <<db, now, conn, log, loaded, mixed, used>>

-----------------------------------------------------------------------------
(* Calls of the store                                                      *)

\* What a call returns: which case it is, and its payload.
result(tag, val) == [tag |-> tag, val |-> val]

to_key(fn, k) == [fn |-> fn, key |-> k]

to_shard(fn, i, at) == [fn |-> fn, shard |-> i, at |-> at]

\* Store::set with its SetOptions.
to_set(k, id, flags, at) ==
  [fn |-> "set", key |-> k, id |-> id, flags |-> flags, at |-> at]

to_expire(k, at) == [fn |-> "expire_at", key |-> k, at |-> at]

\* now_ms(), read by the command itself.
clock == [fn |-> "now"]

get(d, k) ==
  IF k \notin DOMAIN d THEN result("none", 0)
  ELSE IF d[k].type # "string" THEN result("wrongtype", 0)
  ELSE result("value", d[k].value)

\* Millis(t.saturating_sub(now)): a live entry's deadline is in the future.
pttl(d, k, t) ==
  IF k \notin DOMAIN d THEN result("nokey", 0)
  ELSE IF d[k].expire_at = None THEN result("noexpiry", 0)
  ELSE result("millis", d[k].expire_at - t)

\* NX finds an entry, or XX finds none.
refused(d, c) ==
  \/ "NX" \in c.flags /\ c.key \in DOMAIN d
  \/ "XX" \in c.flags /\ c.key \notin DOMAIN d

set(d, c) ==
  LET keep == "KEEPTTL" \in c.flags /\ c.key \in DOMAIN d
  IN IF refused(d, c) THEN d
     ELSE map_insert(d, c.key,
            [type |-> "string", value |-> <<c.id>>,
             expire_at |-> IF keep THEN d[c.key].expire_at ELSE c.at])

push(d, c) ==
  IF c.key \notin DOMAIN d
  THEN map_insert(d, c.key, [type |-> "list", value |-> <<c.id>>, expire_at |-> None])
  ELSE IF d[c.key].type = "list" THEN [d EXCEPT ![c.key].value = Append(@, c.id)]
  ELSE d

flag(b) == result(IF b THEN "true" ELSE "false", 0)

\* One call on a key, which first expires it lazily by the clock it has read.
on_key(m, c, t) ==
  LET d == live(m, c.key, t)
      has == c.key \in DOMAIN d
      leaves(e, r) == [db |-> e, res |-> r]
  IN CASE c.fn = "get"       -> leaves(d, get(d, c.key))
       [] c.fn = "set"       -> leaves(set(d, c), flag(~refused(d, c)))
       [] c.fn = "del"       -> leaves(map_remove(d, c.key), flag(has))
       [] c.fn = "exists"    -> leaves(d, flag(has))
       [] c.fn = "pttl"      -> leaves(d, pttl(d, c.key, t))
       [] c.fn = "expire_at" ->
            leaves(IF has THEN [d EXCEPT ![c.key].expire_at = c.at] ELSE d, flag(has))
       [] c.fn = "push"      ->
            leaves(push(d, c), IF has /\ d[c.key].type # "list"
                               THEN result("wrongtype", 0) ELSE flag(TRUE))

\* One call's turn on a shard.  keys() skips what has expired by the clock it
\* read at its start; len() and the reset do not look at expiry.
on_shard(m, c) ==
  LET held == DOMAIN m \cap Shards[c.shard]
  IN CASE c.fn = "keys"  -> [db |-> m, res |-> result("keys", {k \in held : ~gone(m[k], c.at)})]
       [] c.fn = "len"   -> [db |-> m, res |-> result("len", Cardinality(held))]
       [] c.fn = "flush" -> [db |-> [k \in DOMAIN m \ held |-> m[k]], res |-> flag(TRUE)]

perform(m, c, t) ==
  CASE c.fn = "now"                      -> [db |-> m, res |-> result("now", t)]
    [] c.fn \in {"keys", "len", "flush"} -> on_shard(m, c)
    [] OTHER                             -> on_key(m, c, t)

-----------------------------------------------------------------------------
(* Commands: the next call of request q when its calls so far returned got *)

\* Outcome: the reply, and whether the command is logged and propagated.
outcome(reply, persist) == [fn |-> "outcome", reply |-> reply, persist |-> persist]

yes(r) == r.tag = "true"

\* The number of keys or shards for which the calls answered yes.
count(got) == Cardinality({i \in DOMAIN got : yes(got[i])})

\* Mutant of deadline: a negative time is taken as it is.
deadline_signed(q, now_arg) == IF q.absolute THEN q.time ELSE now_arg + q.time

\* The deadline that the time argument asks for, n.max(0) included.
deadline(q, now_arg) ==
  LET n == IF q.time < 0 THEN 0 ELSE q.time
  IN IF q.absolute THEN n ELSE now_arg + n

getset(q, got) ==
  CASE got = <<>> -> to_key("get", q.keys[1])
    [] got # <<>> /\ got[1].tag = "wrongtype" -> outcome(got[1], FALSE)
    [] Len(got) = 1 /\ got[1].tag # "wrongtype" -> to_set(q.keys[1], q.id, {}, None)
    [] Len(got) = 2 -> outcome(got[1], TRUE)

setnx(q, got) ==
  IF got = <<>> THEN to_set(q.keys[1], q.id, {"NX"}, None) ELSE outcome(got[1], yes(got[1]))

\* SET, SETEX and PSETEX.  The clock that set_cmd reads first matters only to
\* a deadline that counts from it.
set_cmd(q, got) ==
  LET timed == q.time # None /\ ~q.absolute
      n == IF timed THEN 1 ELSE 0
      want_get == "GET" \in q.flags
      at == IF q.time = None THEN None ELSE deadline(q, IF timed THEN got[1].val ELSE 0)
  IN IF Len(got) < n THEN clock
     ELSE IF want_get /\ Len(got) = n THEN to_key("get", q.keys[1])
     ELSE IF want_get /\ got[n + 1].tag = "wrongtype" THEN outcome(got[n + 1], FALSE)
     ELSE IF Len(got) = (IF want_get THEN n + 1 ELSE n)
       THEN to_set(q.keys[1], q.id, q.flags, at)
     ELSE outcome(got[IF want_get THEN n + 1 ELSE Len(got)], yes(Last(got)))

mset(q, got) ==
  IF Len(got) < Len(q.keys) THEN to_set(q.keys[Len(got) + 1], q.id, {}, None)
  ELSE outcome(flag(TRUE), TRUE)

mget(q, got) ==
  IF Len(got) < Len(q.keys) THEN to_key("get", q.keys[Len(got) + 1])
  ELSE outcome([i \in DOMAIN got |-> IF got[i].tag = "value" THEN got[i].val ELSE None], FALSE)

\* Mutant of del: the last key alone decides whether the command is logged.
del_last(q, got) ==
  IF Len(got) < Len(q.keys) THEN to_key("del", q.keys[Len(got) + 1])
  ELSE outcome(count(got), yes(Last(got)))

\* DEL and UNLINK.
del(q, got) ==
  IF Len(got) < Len(q.keys) THEN to_key("del", q.keys[Len(got) + 1])
  ELSE outcome(count(got), count(got) > 0)

exists(q, got) ==
  IF Len(got) < Len(q.keys) THEN to_key("exists", q.keys[Len(got) + 1])
  ELSE outcome(count(got), FALSE)

push_cmd(q, got) ==
  IF got = <<>> THEN [fn |-> "push", key |-> q.keys[1], id |-> q.id]
  ELSE outcome(got[1], yes(got[1]))

\* Mutant of allows: GT lets a key without a deadline through.
allows_gt_loose(q, new_at, read, cur) ==
  /\ "NX" \in q.flags => cur.tag = "noexpiry"
  /\ "XX" \in q.flags => cur.tag = "millis"
  /\ "GT" \in q.flags => cur.tag # "millis" \/ new_at > read + cur.val
  /\ "LT" \in q.flags => cur.tag = "noexpiry" \/ (cur.tag = "millis" /\ new_at < read + cur.val)

\* The condition of EXPIRE's flag: the deadline it compares with is made of
\* the command's clock and of the time to live that pttl took from its own.
allows(q, new_at, read, cur) ==
  /\ "NX" \in q.flags => cur.tag = "noexpiry"
  /\ "XX" \in q.flags => cur.tag = "millis"
  /\ "GT" \in q.flags => cur.tag = "millis" /\ new_at > read + cur.val
  /\ "LT" \in q.flags => cur.tag = "noexpiry" \/ (cur.tag = "millis" /\ new_at < read + cur.val)

\* EXPIRE, PEXPIRE, EXPIREAT and PEXPIREAT.
expire_cmd(q, got) ==
  LET k == q.keys[1]
      new_at == deadline(q, got[2].val)
      n == IF q.flags = {} THEN 2 ELSE 3
  IN IF got = <<>> THEN to_key("exists", k)
     ELSE IF ~yes(got[1]) THEN outcome(0, FALSE)
     ELSE IF Len(got) = 1 THEN clock
     ELSE IF Len(got) < n THEN to_key("pttl", k)
     ELSE IF q.flags # {} /\ ~allows(q, new_at, got[2].val, got[3]) THEN outcome(0, FALSE)
     ELSE IF Len(got) = n THEN to_expire(k, new_at)
     ELSE outcome(1, TRUE)

persist_cmd(q, got) ==
  LET had == got[1].tag = "millis"
  IN CASE got = <<>> -> to_key("pttl", q.keys[1])
       [] Len(got) = 1 /\ had -> to_expire(q.keys[1], None)
       [] Len(got) = 1 /\ ~had -> outcome(0, FALSE)
       [] Len(got) = 2 -> outcome(1, TRUE)

\* Mutant of keys_cmd: the first shard is passed over.
keys_cmd_skips(q, got) ==
  IF got = <<>> THEN clock
  ELSE IF Len(got) < Len(Shards) THEN to_shard("keys", Len(got) + 1, got[1].val)
  ELSE outcome(UNION {got[i].val : i \in DOMAIN got \ {1}}, FALSE)

\* KEYS, and SCAN, which lists everything at once and answers cursor 0.
keys_cmd(q, got) ==
  IF got = <<>> THEN clock
  ELSE IF Len(got) <= Len(Shards) THEN to_shard("keys", Len(got), got[1].val)
  ELSE outcome(UNION {got[i].val : i \in DOMAIN got \ {1}}, FALSE)

dbsize(q, got) ==
  LET sum[i \in 0..Len(got)] == IF i = 0 THEN 0 ELSE sum[i - 1] + got[i].val
  IN IF Len(got) < Len(Shards) THEN to_shard("len", Len(got) + 1, None)
     ELSE outcome(sum[Len(got)], FALSE)

\* Mutant of flush_all: the first shard is passed over.
flush_all_skips(q, got) ==
  IF Len(got) + 1 < Len(Shards) THEN to_shard("flush", Len(got) + 2, None)
  ELSE outcome(flag(TRUE), TRUE)

\* FLUSHALL and FLUSHDB.
flush_all(q, got) ==
  IF Len(got) < Len(Shards) THEN to_shard("flush", Len(got) + 1, None)
  ELSE outcome(flag(TRUE), TRUE)

\* The dispatch on the name of the command.
next_call(q, got) ==
  CASE q.op = "SET"      -> set_cmd(q, got)
    [] q.op = "GETSET"   -> getset(q, got)
    [] q.op = "SETNX"    -> setnx(q, got)
    [] q.op = "MSET"     -> mset(q, got)
    [] q.op = "MGET"     -> mget(q, got)
    [] q.op = "DEL"      -> del(q, got)
    [] q.op = "EXISTS"   -> exists(q, got)
    [] q.op = "RPUSH"    -> push_cmd(q, got)
    [] q.op = "EXPIRE"   -> expire_cmd(q, got)
    [] q.op = "PERSIST"  -> persist_cmd(q, got)
    [] q.op = "KEYS"     -> keys_cmd(q, got)
    [] q.op = "DBSIZE"   -> dbsize(q, got)
    [] q.op = "FLUSHALL" -> flush_all(q, got)

\* One call of q, if it has one left, at time t with nobody else around.
step_alone(s, q, t) ==
  LET c == next_call(q, s.got)
      r == perform(s.db, c, t)
  IN IF c.fn = "outcome" THEN s ELSE [db |-> r.db, got |-> Append(s.got, r.res)]

\* A bound on the calls of a command.
most_calls(q) == Len(q.keys) + Len(Shards) + 5

\* The states q goes through when it runs alone on store m at time t.
calls_alone(m, q, t) ==
  LET after[i \in 0..most_calls(q)] ==
        IF i = 0 THEN [db |-> m, got |-> <<>>] ELSE step_alone(after[i - 1], q, t)
  IN after

\* The store after q, when it runs alone (a replay, for example).
run_alone(m, q, t) == calls_alone(m, q, t)[most_calls(q)].db

\* The store that the requests qs make of m, one after the other.
replay_log(m, qs, t) ==
  LET after[i \in 0..Len(qs)] ==
        IF i = 0 THEN m ELSE run_alone(after[i - 1], qs[i], t)
  IN after[Len(qs)]

-----------------------------------------------------------------------------
(* The threads                                                             *)

Idle == [busy |-> FALSE]

\* Request r, with its number.
numbered(r, n) ==
  [id |-> n, op |-> r.op, keys |-> r.keys, flags |-> r.flags, time |-> r.time,
   absolute |-> r.absolute]

Busy == {c \in Conns : conn[c].busy}

\* The keys a request is about.
scope(q) == IF q.op \in Whole THEN Keys ELSE Range(q.keys)

Reads == {"MGET", "EXISTS", "KEYS", "DBSIZE"}

Visibly(m, t) == DOMAIN Visible(m, t)

\* The histories of the running commands when the store becomes m at time t,
\* by a call of c: keys visible in every state (always), keys stored in some
\* state (ever), keys that the call of another thread changed (others), and
\* whether a call of its own changed anything (dirty).
Observed(cs, c, m, t) ==
  [d \in Conns |->
     IF ~cs[d].busy THEN cs[d]
     ELSE LET changed == {k \in Keys : (k \in DOMAIN db) # (k \in DOMAIN m)
                                         \/ (k \in DOMAIN db /\ db[k] # m[k])}
          IN [cs[d] EXCEPT
                !.always = @ \cap Visibly(m, t),
                !.ever = @ \cup DOMAIN m,
                !.others = IF d = c THEN @ ELSE @ \cup changed]]

Init ==
  /\ loaded \in Loaded
  /\ db = loaded
  /\ now = 0
  /\ conn = [c \in Conns |-> Idle]
  /\ log = <<>>
  /\ mixed = {}
  /\ used = 0

\* The connection's thread takes a request from its client.  Its keys are mixed
\* from here on if another command on them is under way and both may write.
Start(c) ==
  /\ ~conn[c].busy /\ used < MaxRequests
  /\ \E r \in Requests[c] :
       LET q == numbered(r, used + 1)
           clash == {d \in Busy : {q.op, conn[d].q.op} \cap Reads = {}}
       IN /\ conn' = [conn EXCEPT ![c] =
               [busy |-> TRUE, q |-> q, got |-> <<>>, at |-> now,
                always |-> Visibly(db, now), ever |-> DOMAIN db, others |-> {},
                dirty |-> FALSE]]
          /\ mixed' = mixed \cup UNION {scope(q) \cap scope(conn[d].q) : d \in clash}
  /\ used' = used + 1
  /\ UNCHANGED <<db, now, log, loaded>>

\* One call of the store.  It reads the clock, waits for the lock of the shard
\* while time may pass, and runs.
Call(c) ==
  /\ conn[c].busy
  /\ LET call == next_call(conn[c].q, conn[c].got)
     IN /\ call.fn # "outcome"
        /\ \E t \in conn[c].at..now :
             LET r == perform(db, call, t)
                 mine == [conn[c] EXCEPT
                            !.got = Append(@, r.res), !.at = now,
                            !.dirty = @ \/ Visible(db, t) # Visible(r.db, t)]
             IN /\ db' = r.db
                /\ conn' = Observed([conn EXCEPT ![c] = mine], c, r.db, now)
  /\ UNCHANGED <<now, log, loaded, mixed, used>>

\* Mutant of Finish: what is logged is decided by the command's name.
Finish_by_name(c) ==
  /\ conn[c].busy
  /\ LET o == next_call(conn[c].q, conn[c].got)
         writes == {"SET", "SETNX", "MSET", "DEL", "RPUSH", "EXPIRE", "FLUSHALL"}
     IN /\ o.fn = "outcome"
        /\ log' = IF conn[c].q.op \in writes THEN Append(log, conn[c].q) ELSE log
  /\ conn' = [conn EXCEPT ![c] = Idle]
  /\ UNCHANGED <<db, now, loaded, mixed, used>>

\* The outcome: the command is logged as it was sent, and answered.
Finish(c) ==
  /\ conn[c].busy
  /\ LET o == next_call(conn[c].q, conn[c].got)
     IN /\ o.fn = "outcome"
        /\ log' = IF o.persist THEN Append(log, conn[c].q) ELSE log
  /\ conn' = [conn EXCEPT ![c] = Idle]
  /\ UNCHANGED <<db, now, loaded, mixed, used>>

\* purge_expired in one shard, by the clock it read when it began its round.
Reap(i) ==
  /\ \E t \in 0..now :
       /\ db' = [k \in {j \in DOMAIN db : j \notin Shards[i] \/ ~gone(db[j], t)} |-> db[k]]
       /\ db' # db
  /\ conn' = Observed(conn, None, db', now)
  /\ UNCHANGED <<now, log, loaded, mixed, used>>

\* Time passes.  A command that is under way may have read the clock before.
Tick ==
  /\ now < MaxTime
  /\ now' = now + 1
  /\ conn' = Observed(conn, None, db, now + 1)
  /\ mixed' = mixed \cup UNION {scope(conn[c].q) : c \in Busy}
  /\ UNCHANGED <<db, log, loaded, used>>

\* Every client has its answers and the requests are used up.
Quiet ==
  /\ used = MaxRequests /\ Busy = {}
  /\ UNCHANGED vars

Next ==
  \/ \E c \in Conns : Start(c) \/ Call(c) \/ Finish(c)
  \/ \E i \in DOMAIN Shards : Reap(i)
  \/ Tick
  \/ Quiet

Spec == Init /\ [][Next]_vars

-----------------------------------------------------------------------------
(* Properties                                                              *)

\* The store holds entries of known keys, a command under way is one of its
\* client's requests, and the log holds requests that were sent.
TypeOK ==
  /\ DOMAIN db \subseteq Keys /\ \A k \in DOMAIN db : db[k] \in Entry
  /\ now \in 0..MaxTime /\ used \in 0..MaxRequests /\ mixed \subseteq Keys
  /\ \A c \in Busy : /\ conn[c].q.id \in 1..used /\ conn[c].at <= now
                      /\ conn[c].always \subseteq conn[c].ever
  /\ \A i \in DOMAIN log : log[i].id \in 1..used

\* The outcome of c's command, once it has one.
Outcomes(c) == {o \in {next_call(conn[c].q, conn[c].got)} : o.fn = "outcome"}

\* KEYS (and SCAN) visits one shard after the other while others write, and
\* yet it lists every key that was there all along, and no key that was never
\* there; DBSIZE counts at least the former and at most the latter.
KeysReported ==
  \A c \in Busy : \A o \in Outcomes(c) :
    /\ conn[c].q.op = "KEYS" =>
         conn[c].always \subseteq o.reply /\ o.reply \subseteq conn[c].ever
    /\ conn[c].q.op = "DBSIZE" =>
         Cardinality(conn[c].always) <= o.reply /\ o.reply <= Cardinality(conn[c].ever)

\* FLUSHALL resets one shard after the other: what is stored when it answers
\* was written by another command while it ran.
FlushComplete ==
  \A c \in Busy : \A o \in Outcomes(c) :
    conn[c].q.op = "FLUSHALL" => DOMAIN db \subseteq conn[c].others

\* A command one of whose calls changed what clients see is logged and
\* propagated, whatever its other calls did and whoever got in between.
PersistComplete ==
  \A c \in Busy : \A o \in Outcomes(c) : conn[c].dirty => o.persist

\* When nobody else changes the key between its calls, EXPIRE keeps the
\* promise of its flag: NX only on a key without a deadline, XX only on one
\* with, LT only to an earlier one, GT only to a later one -- or, for GT, to
\* one that is earlier by less than the time that has passed since the command
\* read its clock, because pttl counts from a later one.
ExpireFlagsKept ==
  [][\A c \in Busy :
       LET q == conn[c].q
           k == q.keys[1]
           old == db[k].expire_at
           new == db'[k].expire_at
           since == conn[c].got[2].val
       IN (/\ q.op = "EXPIRE" /\ next_call(q, conn[c].got).fn = "expire_at"
           /\ conn'[c] # conn[c] /\ Len(conn'[c].got) > Len(conn[c].got)
           /\ k \notin conn[c].others /\ k \in DOMAIN db \cap DOMAIN db')
          => /\ "NX" \in q.flags => old = None
             /\ "XX" \in q.flags => old # None
             /\ "LT" \in q.flags => old = None \/ new < old
             /\ "GT" \in q.flags => old # None /\ (new > old \/ old - new < now - since)]_vars

\* What the log makes of the dataset that was loaded, at time t.
Replayed(t) == replay_log(loaded, log, t)

\* Keys that were ever given a deadline which counts from the clock, or which
\* has passed: a replay counts from its own clock, and it expires by it.
Timed ==
  {k \in DOMAIN loaded : gone(loaded[k], now)} \cup
  UNION {scope(log[i]) : i \in {j \in DOMAIN log :
           log[j].time # None /\ (log[j].absolute => log[j].time <= now)}}

\* Keys on which no command is under way, and none overlapped another writer of
\* the key or a tick of the clock.
Settled == Keys \ (mixed \cup UNION {scope(conn[c].q) : c \in Busy})

\* Replaying the log gives what clients see, for every settled key that no
\* clock decides about: SETNX, SET NX/XX/GET/KEEPTTL, GETSET, EXPIRE with its
\* flags and PERSIST come out of the replay as they did when they ran,
\* although other commands ran between their calls.
LogReplays ==
  LET seen == Visible(db, now)
      again == Visible(Replayed(now), now)
  IN \A k \in Settled \ Timed :
       /\ k \in DOMAIN seen <=> k \in DOMAIN again
       /\ k \in DOMAIN seen => seen[k] = again[k]

\* "On startup the log is replayed to reconstruct state"
\* (crates/server/src/persistence.rs:4): a settled key that clients see is
\* there after a replay.  PERSIST and a later EXPIRE do not keep the code's
\* replay from dropping the key at the deadline they replaced.
ReplayKeepsKeys == Settled \cap Visibly(db, now) \subseteq Visibly(Replayed(now), now)
=============================================================================
