# A TLA+ development of in-mem0

in-mem0 (`src/crates`) is a Redis-compatible in-memory cache server in Rust.
This directory holds TLA+ modules translated from its source, TLC
configurations that check them on small instances, and proofs that TLAPS
checks for every instance. `PROJECT.json` is the machine-readable index: the
components, the runs, the source lines each definition stands for, one mutant
per checked property, the hazards, the findings and the theorems.

## 1. The system

| Component | Source | State | Operations |
|---|---|---|---|
| Flat hash table | `core/src/map.rs` | slot array, length, hash seed | get, insert (grow), remove (backward shift), iter |
| S3-FIFO policy | `core/src/s3fifo.rs` | small, main and ghost queues, metadata per live key, ghost set, two counters | insert, touch, remove, evict_one |
| Shard / store | `core/src/store.rs` | map, policy, byte counter, budget, one mutex per shard | string, expiry and collection commands, flush, purge, dump |
| Commands | `server/src/commands.rs` | per-connection state | about 70 commands, some of several store calls |
| Connections | `server/src/conn.rs`, `runtime_uring.rs` | input and output buffer, protocol version, authentication | parse, gates, fast path or dispatch, append to the AOF, propagate, reply |
| Persistence | `server/src/persistence.rs` | AOF, snapshot file | append, replay, save |
| Replication | `server/src/repl.rs` | registered replica sockets | SYNC, propagate, reconnect |
| Assembly | `server/src/server.rs`, `main.rs` | all of the above | recovery at start, reaper every 100 ms |
| RESP | `proto/src/resp.rs` | none | incremental parser, reply encoder |
| Configuration, TLS | `config.rs`, `tls.rs` | none | flags, library set-up |

Every connection is a thread. All of them share the store, whose keys are
partitioned over shards; an operation on a key holds the mutex of the key's
shard. A shard owns a hash table of entries and an eviction policy, which owns
two more hash tables. An operation reads the clock, takes the lock, expires its
key lazily, does its work, and evicts until the shard fits its share of
`maxmemory`. After a write the connection appends the command to the AOF and
sends it to the replicas, each under a lock of its own. A reaper thread purges
expired keys.

What is hard here, and what makes each part correct:

* **Table**: deletion without tombstones moves entries back along their probe
  sequences, cyclically; probe loops end only because the table is never full.
  Correct when a lookup finds exactly what was stored, in every state.
* **Policy**: deletion is lazy, so the queues are full of references to keys
  that are gone, moved or live again; two counters steer the loop that runs
  under the shard's lock. Correct when counters and queues agree with the
  metadata, so that every live key can be evicted and the loop ends.
* **Shard**: three structures (map, policy, byte counter) are updated
  separately in a dozen operations. Correct when they never drift, the budget
  holds whenever the lock is free, and no client sees more than its own key
  change, expiry, and eviction under real pressure.
* **Connections, persistence, replication**: store, AOF and replica stream
  are updated under different locks, the process may die in between, a
  replica registers while writes run. Correct when files and replicas give back
  the store, and no confirmed write is lost.
* **Commands**: many are several calls of the store, each with its own lock and
  its own reading of the clock; what is logged is decided from the result of an
  earlier call. Correct when a command that changed something is logged, and a
  replay of the log, at another time, does the same again.
* **Protocol**: commands arrive in pieces, two parsers and two execution paths
  exist for the same commands, the protocol version changes in mid-batch. Correct
  when none of that shows in what is executed and what a client decodes.

## 2. Modules

| Module | Models | Extends |
|---|---|---|
| `KeyMap` | the contract of `FlatMap`: a partial function | |
| `FlatMap` | the open-addressing table, with the loops of `backward_shift` and `grow` turn by turn | `KeyMap` |
| `S3Fifo` | the eviction policy: each method an operator on the policy record | `KeyMap` |
| `Entries` | entries, their weight and their expiry | `KeyMap` |
| `BoundedCache` | abstract specification of a shard | `Entries` |
| `Shard` | one shard under every operation of the store | `S3Fifo`, `Entries`; instantiates `BoundedCache` |
| `Dataset` | what logged commands do to the contents; dump and replay | `KeyMap` |
| `Primary` | connections, AOF and replicas of a running primary, with crashes | `Dataset` |
| `Recovery` | SAVE, and what a start makes of the files it finds | `Dataset` |
| `Commands` | commands of several store calls and calls that visit every shard, interleaved | `Dataset` |
| `Resp` | the wire format: both parsers and the encoder | |
| `Queries` | what each command computes and answers; ranges, scores, patterns | `Resp` |
| `Connection` | one connection from bytes to bytes, with log, dump and replay | `Queries` |
| `MCFlatMap`, `MCShard`, `MCPrimary`, `MCRecovery`, `MCCommands`, `MCConnection` | instances for TLC | |
| `S3FifoProofs` | every method keeps the policy sound | `S3Fifo` |
| `ShardProofs` | the shard's invariants and the refinement | `Shard`, `S3FifoProofs` |
| `Numbers` | least elements and induction on numbers, in a form the provers can use | |
| `FlatMapProofs` | the table stays a map in the middle of its loops, which end | `FlatMap`, `Numbers` |
| `DatasetProofs` | what `dispatch` changes; a replay goes command by command | `Dataset`, `Numbers` |
| `PrimaryProofs` | confirmed writes, log and replicas | `Primary`, `DatasetProofs` |
| `RecoveryProofs` | the snapshot file is whole, and gives back the store, when SAVEs do not overlap | `Recovery`, `DatasetProofs` |
| `CommandsProofs` | commands of several calls keep their promises, and a replay gives what they did | `Commands`, `Numbers` |

`FlatMap` and `Shard` meet in `KeyMap`: the table is checked to do to its
contents what `map_insert` and `map_remove` say (`CallsMeetContract`), and the
shard and the policy are built from those operators.

**State and actions.** In `Shard` the variable `shard` is the struct of that
name; an action is one operation of `impl Store`, from `self.shard(key)` to the
end of the guard's scope, early returns included. Two loops run under the lock
and are taken turn by turn, so that what holds in the middle of them and
whether they end can be asked: `enforce_budget`/`evict_one` (`lock = "enforce"`)
and the deletion loop of `purge_expired` (`lock = "purge"`). Since the clock is
read before the lock is taken, an operation decides expiry with any time up to
the present. A value is its type and its payload size: that is all that
expiry, WRONGTYPE, accounting and eviction look at; what a collection command
does to the payload is the set of sizes it can leave (`after_sizes`). Reads of
collections go through `read_collection` and are the action `Read`; `dbsize`,
`keys` and `dump_commands` change nothing.

In `FlatMap` a search is one step, `remove` takes the entry and `ShiftStep` is
one turn of the shift loop, `InsertGrow` allocates the larger table and
`GrowStep` copies one slot. The hash function is arbitrary and fixed in Init
(`ahash` with a random seed). Calls do not overlap: the map is behind the
shard's lock.

In `Dataset` a value is the sequence of fragments it was made of, so that a
write that is lost, repeated or reordered shows in it, and `dispatch` is what a
command does to the store under the lock of its key's shard. One command stands
for each way of depending on the state; commands of several store calls are the
subject of `Commands`. Every key is in a shard of its own, and `dump_commands` visits them
one by one.

In `Primary` a connection takes a write through its steps: `Execute` (parse and
dispatch; the reply goes to the output buffer), `AppendAof`, `FailAof`,
`DropAof` or `SkipAof`, `Propagate`, and `Flush`, which sends the buffer when the
client's batch is over. `Aof::append` has two error exits, and each is an action:
when `flush` fails (`FailAof`) what was not written stays in the `BufWriter`, and
a later append writes it first; when `write_all` fails (`DropAof`: the command is
as long as the buffer, or leftovers fill it) the command is dropped, perhaps
behind a torn head in the file, although the store has executed it. After either
the reply stays in the output buffer with an error behind it (`denied`), and the
connection ends once both are sent. `Connect`, `DumpShard` and `Register` are a SYNC; `Apply` is the
replica's loop. A socket is a queue of commands of capacity `ChanCap`, and a
write to a full one blocks. The AOF is a sequence of pieces: a command, or the
head and the tail of one that a failed write cut in two; `commands(file)` is
what `replay_file` reads of it. `Break` loses a connection with any suffix of
what was in flight, `Restart` kills the process and runs `bootstrap`. `acked`
(writes whose reply was sent with no error behind it), `raced` and `lost` (keys of
dropped commands since the last start) are history variables the properties are
stated with.

In `Recovery` the files are inodes with names, because two SAVEs share a
temporary name and one goes on writing to a file the other has renamed. A write
and its append are one step here: their order is the subject of `Primary`.

In `Commands` a command is a function from the results of its calls so far
(`got`) to its next call, or to its outcome (`next_call`), written as the
handler is: GETSET asks `get`, then `set`, then answers. `Start` takes a request
from a client, `Call` is one call under one lock, `Finish` logs and answers;
`Reap` is the reaper in one shard and `Tick` the clock. A call may decide expiry
with any time since its command's last call (it reads the clock and then waits
for the lock). `always`, `ever`, `others`, `dirty` and `mixed` are histories:
what was there throughout, what was there at any moment, what others changed,
whether the command changed anything, and keys on which two writers overlapped or
which a command was working on when the clock moved. SET
stands for SETEX and PSETEX, EXPIRE for its three relatives, KEYS for SCAN, in
one unit of time.

`Resp` works on sequences of characters (a command's name is one symbol, as
letters do not matter to framing); the limits of the code are constants so that
an instance has both sides of each. `Queries` has one operator per command, on a
store without deadlines, budget or concurrency, which the other modules have.
`Connection` is the loop of `run` and of `handle_conn`: `Read` takes any number of
bytes, `Parse` one frame, `Sync`, `Reject` or `Execute` deals with it, and `Flush`
ends the batch. What the client sends is fixed in Init and cut in every way. The
wording of an error is one symbol, but the error for an unknown command carries the
name it repeats, byte by byte and unescaped, as `commands.rs:298` does. The
reference definitions at its end (a client's decoder, what a pattern matches, the
elements between two ranks) are written from the protocol and not from the code.

## 3. Runs

Passing:

| Run | Question |
|---|---|
| `flatmap_table` | Does the table stay a map, for every hash function, also in the middle of a shift or of a growth, and do its loops end? |
| `shard` | With stale references in all queues, expiry, stale clocks, type changes and an entry larger than the budget: is the policy sound and in step with the map, are bytes and budget exact, does the shard implement `BoundedCache`, and do the loops that run under the lock end? |
| `primary` | With a writer per key, appends that fail in either place, crashes, lost connections and a replica that joins at any time: does the log give the store (but for dropped commands), is no confirmed write lost, does the replica agree on every key that did not race its handshake, is every write answered, and does every replica catch up? |
| `recovery_save` | Is the snapshot file always one whole dump, and does it keep every key not written since the last successful SAVE? |
| `commands_calls` | Two clients with any two of nineteen requests, call by call, with clock and reaper in between: do KEYS, DBSIZE and FLUSHALL keep their promises across shards, is every change logged, does a replay give the same, and do EXPIRE's flags hold? |
| `connection_stream` | For every cut of 531 streams: are the same commands executed, can a client decode every reply, do fast path and dispatcher agree, do log and dump give back the store, is a read-only replica left alone, and are ranges, scores and patterns right? |

Violations: each shows a statement of a comment in the source that the code does
not keep (quoted under `findings` in `PROJECT.json`).

| Run | What happens |
|---|---|
| `primary_order` | two connections append in the other order than the store applied their writes |
| `primary_torn` | confirmed writes land behind the torn end of the AOF, where no start reads them |
| `recovery_two_savers` | one SAVE installs a file that another has just truncated |
| `commands_persist` | PERSIST, or a later deadline, does not survive a restart after the first deadline: the replay drops the key before it gets there |
| `connection_dump` | a list too long for one command, or a score outside `i64`, does not come back from the dump |
| `connection_ranges` | ZRANGE with a rank beyond an end returns the member at that end, though its rank was not asked for |

Met while modelling, and listed as hazards rather than kept as runs: a write
between the dump of its shard and the registration of a replica never reaches
that replica (`ReplicaConverges` exempts such keys, `raced`); a replica that keeps
its socket open and stops reading blocks every writer, because `propagate` is a
blocking write under one lock; EXPIRE GT may shorten a deadline by the time that
passed between two readings of the clock (`ExpireFlagsKept` allows exactly that);
LRANGE to `i64::MAX` overflows and is empty, or a panic in a debug build
(`RangesCorrect` does not speak of it); whether a long inline line is refused
depends on how it was cut (`SplitIndependent` exempts that line); a command name with
a line end in it, sent as a bulk string, splits the error line that repeats it, so
that a client loses its place in the stream (`RepliesDecode` speaks of the replies
before that error only); a command that a failing `write_all` dropped is in the store
and never in the log, until its key is written over or the server restarts
(`LogMatchesStore` does not speak of such keys, `lost`), and its `+OK` is sent all the
same, in front of the error (`AckedDurable` does not count it); relative
expiries (PSETEX, SET EX, EXPIRE) are logged as sent and count again from the
replay; a replica that reconnects replays the snapshot on top of what it has, so
lists double (RPUSH) and deleted keys stay; turning `--appendonly` on over a
snapshot loses it at the second start; a stale queue reference of a key that was
deleted and inserted again is acted on by `step_small` and `step_main`; the
ghost queue is trimmed by the size of the ghost set and grows without bound.

Every property of a passing run has a mutant: an operator next to the definition
it mutates, named after it, with the change a plausible mistake in that code
would make. Under it TLC finds the property violated.

**Bounds.** The table starts with four slots here and grows to eight, with four
keys and every hash function onto eight values: every collision, wrap-around and
shift there is for four entries. In `shard` two keys compete for a budget
that holds an empty and a small entry, not two small ones, and is below the weight
of a large one alone: evictions of every kind and of the key
just written, returns from the ghost set, trims of the ghost queue, and two
references of one key in one queue. `MaxRefs` and `MaxGhost` bound the queues, whose
growth is otherwise unbounded (a hazard of its own). `SMALL_PCT` is 40 rather than 10
so that the small queue's share matters with so few keys. In `primary` two keys, two
writers and two writes with two faults and a SYNC of two shards give every overlap
of two writes; `ChanCap` is 1, so that a write to a replica can block. The instances
of `shard` and `primary` are small because every safety property of theirs is also
proved for every instance (section 4); what rests on them alone is liveness.
Two crashes are needed in `Recovery`, where
one start leaves what the next one reads. In `commands_calls` two requests
overlap in every way, on datasets that a snapshot brought in (a key with a
deadline ahead, one about to pass, one without, and a list), with two ticks of
the clock: enough for a deadline to pass between any two calls; the two
connections are interchangeable, hence the symmetry. In `connection_stream`
`i64` ends at 7 and a command has at most six arguments, so that counters,
ranks, scores and lists stand on both sides of these limits; every command is
sent alone, and every pair of seventeen of them in one stream.
`CHECK_DEADLOCK FALSE` is set for `Primary` and `Recovery`, which stop when the
bounded clients have nothing more to send, as the server does.

**Fairness.** In `Shard` only the turns of the two loops are fair: a thread that
runs is scheduled, and nobody has to call. (`FlatMap` states termination without
fairness, by a variant: `LoopsAdvance`.) In `Primary` the steps of
a connection between a request and its reply are weakly fair, and so is the
thread that serves a SYNC; clients owe nothing, and a batch is finite because
the bounded client stops (in the code: a batch is what one `read` returned).
`FairSpec` also asks the replica to read on, which the code cannot enforce.

## 4. Proofs

`S3FifoProofs` and `ShardProofs` hold for every finite set of keys, every budget,
weight and clock bound and every value of the policy's constants, from the
assumptions named in `KeyMap`, `Entries`, `S3Fifo` and `Shard`.

The inductive invariant `Inv` of `Shard` (in `ShardProofs`) is a conjunction:
`ShardOK` (types, exact byte counter, `PolicyOK` for the policy, map and policy
with the same keys, or an untouched policy without a budget), `Solid` (no empty
collection), a purge list of expired keys, and the budget, which is kept
whenever `lock` is not `"enforce"` and exceeded while it is. No part is
inductive alone: that the budget holds when the eviction loop gives up needs
that an empty policy means an empty map; this needs that the policy's counters
are the numbers of keys in each queue, or the loop would stop early; and those
stay right in spite of stale references only because every live key has a
reference in the queue its metadata names. That the counter never goes below
zero needs that it is the weight of the map.

The argument goes bottom up. Each method of the policy keeps it sound
(`S3FifoProofs`: counting lemmas for the two queues, then one lemma a method).
Each operator of the shard keeps `Inv` (`EmptyPolicy`, `ReleaseInv`,
`EnforceInv`), then each action, then `NextInv`, `Invariance`. From it follow
`TypeCorrect`, `PolicyTracking`, `PolicySound`, `LiveKeysReachable`,
`GhostsDisjoint`, `BytesCorrect`, `BudgetKept`, `CollectionsNonEmpty`,
`PurgeSound`, and `Refinement`: under the mapping that
forgets the policy and names the phase, every step is one of `BoundedCache` or
a stutter.

**The table** (`FlatMapProofs`, for every hash function, key set, initial size and
load factor). `Inv` is `TypeInv`, `KeysInv` (no key in two slots, nor in a slot and
in the part of the old table still to be copied), `LoadInv` (`len` counts the
occupied slots and stays below the threshold, with one less while a hole travels)
and `PathInv`: between the home slot of an entry and the entry there is no empty
slot, except the hole during a shift, and that only on the way to entries the
loop has still to visit. `LookupFindsStored` is not inductive: it breaks in the
middle of a shift, and what restores it at the end is the exception in
`PathInv`. `NeverFull` needs `LoadInv`, and the end of every search needs
`NeverFull`. From `Inv` follow `KeysHeldOnce`, `SearchesEnd`, `ShiftKeepsPaths`,
`LookupCorrect`, `ContractMet` (each call is one step of `KeyMap`'s operators)
and `LoopsEnd`, a variant for each loop.

**The primary** (`PrimaryProofs`, for any connections, replicas, keys, requests and
faults). `TypeInv` has one part each for the stores, the connections, the files
and the streams; that a stream stays within its bound needs the number of
commands that are on their way to it. The other results rest on one invariant
each, with the hypotheses that the violating runs show to be needed.

* `AcksDurable` (`~Torn`: no append stops in the middle of a command;
  `primary_torn` shows the loss otherwise). A write counts as acknowledged when its
  reply was sent with no error behind it. `AckInv`: file and buffer hold whole
  commands, and a reply that waits in an output buffer is to a write that is in the
  file, except to the one write whose append is the connection's next step or has
  failed. Only the exception makes it inductive: `Execute` puts the reply into the
  buffer first. That a failed append ends the batch (`quit`) is what keeps the
  exception to one write (`FailedAck`).
* `LogFaithful` (`~Torn`, `OneWriter`, `Plainly`: each key is written by one
  connection, see `primary_order`, and no command is decided by a clock, see
  `commands_persist`). It speaks of every key except those with a write that is
  executed and not yet appended and those in `lost`; of the latter it would be
  false, since the store has executed a command that is nowhere else. `LogInv`: for
  every key outside `lost`, what a replay of file and buffer gives equals the store,
  or does after the dispatch of the one command that waits to be appended
  (`Covers`). Failing flushes, dropped commands (`LogDropped`) and crashes may happen
  any number of times; a restart empties `lost`, because the store is then what the
  log gives. It survives a step because `dispatch`
  respects equality under a key and leaves the other keys alone (`DatasetProofs`).
* `ReplicasFaithful` (`OneWriter`, `Plainly`). `ReplicaInv`: the same of a replica's
  store followed by what is in its stream, with the commands between store and
  propagation; and during a SYNC, for every key that did not race it, the dump
  agrees with the store once the key's shard was visited, and lacks the key before.

**SAVE** (`RecoveryProofs`, with one saver at a time; `recovery_two_savers` shows that
this is needed). `SnapshotAtomic`: the snapshot file is one complete dump at every
moment. `SnapshotWhole` alone is not inductive: a rename installs the temporary
file, so the invariant also says that the saver's open file is the one with the
temporary name and is not the installed one, that it is empty until the dump is
written out, and that it holds a complete dump from then until the rename.
`SavesRecoverable` adds `SaveInv`: under every key not written since the SAVE began,
the dump agrees with the store from the visit of the key's shard on, so does the
temporary file before the rename, and so does what a start reads after it.

**Commands** (`CommandsProofs`, for any connections, shards, keys, requests and loaded
datasets). `TypeInv` includes `Fit`, which results a command can have at each point of its
handler: without it the next call of EXPIRE, made from the second result, has no
type. `KeptInv` says of each command under way what its remaining calls rely on:
shards that FLUSHALL has reset hold only what others wrote since (`FlushOK`);
shards that KEYS has listed, or DBSIZE counted, gave everything that was there
throughout and nothing that never was (`ListOK`, `SizeOK`); a command that changed
something has nothing left to do but to be logged, or is DEL and has found a key,
or is logged anyway (`DirtyOK`); and the time to live that EXPIRE got, with a clock
between the command's own and the present, gives the deadline of a key that nobody
else touched (`ExpireOK`). Each of these is kept by a command's own calls and by
the steps of everybody else, whatever they are (`Watched`); so the proof has one lemma for
each of the two and no pairs of commands. From it follow `TypeCorrect`,
`ListingsSound`, `FlushesComplete`, `PersistsComplete` and `FlagsKept`.

`ReplaysFaithful` (`LogReplays` in every state) needs a second invariant, because
`LogReplays` says nothing of a key while a command is working on it. `ReplayInv`
says that the log holds writers only (`LogInv`), that two writers under way share
only keys that count as mixed (`PairInv`), and, of each key that is neither mixed
nor decided by a clock (`KeysInv`): while no writer is on it, store and replay
show clients the same; otherwise the one writer on it began at the present time,
is as far as it would be had it run alone on a store like the replayed one, and
store and replay still show the same unless it has changed something
(`Progress`). When the writer answers, it is logged, and one more command of the
replay is that run; or it is not logged, and `Persisted`, which follows from
`DirtyOK`, says that it changed nothing. The rest compares two runs of a command:
stores that look alike give alike results, hence the same next call, hence stores
that look alike (`SameCall`, `SameNext`, `SameStep`, `SameRuns`); a run leaves the
keys it does not name (`RunElsewhere`) and ends within its bound (`RunEnds`); and
a replay some time later comes out the same for the keys that no clock decides
about (`ReplayLater`), which is what the clock's tick needs. Lazy expiry and the
reaper change the store and not what clients see of it. The theorem covers keys
the log gives no relative time and no deadline already passed: for the others it
is false, as `commands_persist` shows for one case.

**Induction.** What a replay, a sum or a file's commands amount to is defined by
recursion on a number. The library's induction theorems cannot be instantiated by
the provers here, so `Numbers` derives induction over a set from the existence of
least elements, and the proofs first show that a recursive function exists.

Only model-checked: liveness (fairness is out of the prover's reach), and `Resp`,
`Queries` and `Connection`, whose recursive operators keep them out of the
prover's reach.

## 5. Not modelled

* Configuration and TLS: flag parsing and library set-up. Their settings are
  constants and initial states of the modules.
* COMMAND, CONFIG, CLIENT and INFO, and the replies of TTL and PTTL: they change
  nothing in the store and nothing depends on them.
* Listening, accepting, thread start and the io_uring buffers: I/O.
* Inside the modules: SET's options are in `Commands` and not in `Connection`;
  failing appends are in `Primary` only; scores are whole numbers; deadlines are
  unbounded, so the wrap-around of a huge EXPIRE is not there; `Primary`, `Recovery`
  and `Commands` have no memory budget: evictions are not logged or propagated, so
  with `maxmemory` a replay may hold keys the store had evicted.

## 6. Plan

1. An abstract specification of a durable map that `Primary` with one writer per
   key implements.
2. The ghost queue, which grows without bound, and what a replica holds after it
   reconnects: hazards that no property speaks of.
