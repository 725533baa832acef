-------------------------------- MODULE Shard -------------------------------
(***************************************************************************)
(* One shard of the store and every operation of the Store on a key of it  *)
(* (crates/core/src/store.rs).  The shard's mutex makes an operation       *)
(* atomic, except that two loops that run under the lock are taken turn by *)
(* turn: the eviction loop of enforce_budget (lock = "enforce") and the    *)
(* deletion loop of purge_expired (lock = "purge").  No other operation    *)
(* starts before the loop is done.                                         *)
(*                                                                         *)
(* Every operation reads the clock before it waits for the lock, so the    *)
(* time t it decides expiry with is any time up to the present.            *)
(***************************************************************************)
EXTENDS S3Fifo, Entries

CONSTANTS
  Budget,    \* this shard's share of maxmemory; 0 is unbounded
  CollOps,   \* the collection commands to consider
  MaxRefs,   \* bound on the references held by the small and main queues
  MaxGhost   \* bound on the references held by the ghost queue

\* The commands that go through with_collection!, and the type each is for.
type_of_op == [push |-> "list", pop |-> "list", hset |-> "hash", hdel |-> "hash",
               sadd |-> "set", srem |-> "set", zadd |-> "zset", zrem |-> "zset"]

ASSUME ShardAssumption ==
  /\ Budget \in Nat
  /\ CollOps \subseteq DOMAIN type_of_op
  /\ MaxRefs \in Nat
  /\ MaxGhost \in Nat

VARIABLES
  shard,    \* struct Shard: map, policy and byte counter (budget is Budget)
  lock,     \* who holds the mutex between two steps
  purging,  \* the expired keys purge_expired has yet to drop
  now       \* now_ms()

vars == <<shard, lock, purging, now>>

-----------------------------------------------------------------------------
(* impl Shard                                                              *)

shard_new == [map |-> map_new, pol |-> pol_new, bytes |-> 0]

\* Mutant of drop_key: the policy is not told.
drop_key_keeps_policy(s, k) ==
  IF k \in DOMAIN s.map
  THEN [s EXCEPT !.map = map_remove(@, k),
                 !.bytes = @ - entry_bytes(k, s.map[k])]
  ELSE s

drop_key(s, k) ==
  IF k \in DOMAIN s.map
  THEN [map |-> map_remove(s.map, k),
        pol |-> IF Budget # 0 THEN remove(s.pol, k) ELSE s.pol,
        bytes |-> s.bytes - entry_bytes(k, s.map[k])]
  ELSE s

touch_key(s, k) == IF Budget # 0 THEN [s EXCEPT !.pol = touch(@, k)] ELSE s

\* The shard after live(): an expired entry is dropped.  The key exists for
\* the rest of the operation iff it is still in the map.
live(s, k, t) ==
  IF k \in DOMAIN s.map /\ expired(s.map[k], t) THEN drop_key(s, k) ELSE s

\* Mutant of put_new: the fixed overhead is not charged.
put_new_payload_only(s, k, e) ==
  [map |-> map_insert(s.map, k, e),
   pol |-> IF Budget # 0 THEN insert(s.pol, k) ELSE s.pol,
   bytes |-> s.bytes + e.size]

put_new(s, k, e) ==
  [map |-> map_insert(s.map, k, e),
   pol |-> IF Budget # 0 THEN insert(s.pol, k) ELSE s.pol,
   bytes |-> s.bytes + entry_bytes(k, e)]

\* Mutant of update: the old payload is not given back.
update_forgets_old(s, k, e) == [s EXCEPT !.map[k] = e, !.bytes = @ + e.size]

\* Replace the entry of a key that exists; bytes + new - old.
update(s, k, e) ==
  [s EXCEPT !.map[k] = e, !.bytes = @ + e.size - s.map[k].size]

\* The loop test of enforce_budget, with the None => break of an empty policy.
over_budget(s) == Budget # 0 /\ s.bytes > Budget /\ len(s.pol) # 0

\* One turn of the loops of enforce_budget and evict_one.
enforce_step(s) ==
  LET r == evict_step(s.pol)
      t == [s EXCEPT !.pol = r.pol]
  IN  IF r.victim = None THEN t ELSE drop_key(t, r.victim)

-----------------------------------------------------------------------------
(* impl Store: what each operation does to the shard it has locked         *)

\* A read: lazy expiry, then a hit if the key is there, of whatever type.
hit(s, k, t) ==
  LET l == live(s, k, t) IN IF k \in DOMAIN l.map THEN touch_key(l, k) ELSE l

string(size, exp) == [type |-> "string", size |-> size, expire_at |-> exp]

SetOptions == [nx : BOOLEAN, xx : BOOLEAN, keep_ttl : BOOLEAN,
               expire_at : Deadlines \cup {None}]

\* Store::set, after live(): in place if the key exists, else a new entry.
set(s, k, size, opts) ==
  IF k \in DOMAIN s.map
  THEN LET exp == IF opts.keep_ttl THEN s.map[k].expire_at ELSE opts.expire_at
       IN  touch_key(update(s, k, string(size, exp)), k)
  ELSE put_new(s, k, string(size, opts.expire_at))

\* Mutant of restore: the old entry is overwritten and not dropped first.
restore_no_drop(s, k, size) ==
  put_new(s, k, string(size, IF k \in DOMAIN s.map THEN s.map[k].expire_at ELSE None))

\* Store::incr_by and Store::append store their result by dropping the entry
\* and putting a new one with the old expiry.
restore(s, k, size) ==
  IF k \in DOMAIN s.map
  THEN put_new(drop_key(s, k), k, string(size, s.map[k].expire_at))
  ELSE put_new(s, k, string(size, None))

\* The payload sizes a collection command can leave, given the size before:
\* pushes only grow, HSET may replace a field by a shorter one, ZADD and SADD
\* may change nothing, removals only shrink and may remove nothing.
after_sizes(op, before) ==
  CASE op = "push"             -> {n \in Sizes : n > before}
    [] op = "hset"             -> {n \in Sizes : n > 0}
    [] op \in {"sadd", "zadd"} -> {n \in Sizes : n >= before /\ n > 0}
    [] OTHER                   -> {n \in Sizes \cup {0} : n <= before}

\* with_collection!, after live(): create the collection if the key is absent,
\* then run the command's body, account for the new size, count the hit and
\* drop the key if the collection is empty.
ensured(s, k, type) ==
  IF k \in DOMAIN s.map THEN s
  ELSE put_new(s, k, [type |-> type, size |-> 0, expire_at |-> None])

\* Mutant of mutated: an emptied collection keeps its key.
mutated_keeps_empty(s, k, after) ==
  touch_key(update(s, k, [s.map[k] EXCEPT !.size = after]), k)

mutated(s, k, after) ==
  LET u == touch_key(update(s, k, [s.map[k] EXCEPT !.size = after]), k)
  IN  IF after = 0 THEN drop_key(u, k) ELSE u

-----------------------------------------------------------------------------
(* The operations as actions.  Bounds: a step that adds a queue reference  *)
(* needs Room, so the queues of lazily deleted references stay finite.     *)

Room ==
  /\ Len(shard.pol.small) + Len(shard.pol.main) < MaxRefs
  /\ Len(shard.pol.ghost) + len(shard.pol) < MaxGhost

\* The operation ends without enforce_budget and unlocks.
Release(s) ==
  /\ shard' = s
  /\ lock' = "free"
  /\ UNCHANGED <<purging, now>>

\* The operation ends with enforce_budget: it keeps the lock while it evicts.
Enforce(s) ==
  /\ shard' = s
  /\ lock' = IF over_budget(s) THEN "enforce" ELSE "free"
  /\ UNCHANGED <<purging, now>>

\* get and read_str, and through read_collection every read of a collection.
Read(k) ==
  /\ lock = "free"
  /\ \E t \in 0..now : Release(hit(shard, k, t))

\* exists, type_of, pttl, strlen: lazy expiry and no hit.
Probe(k) ==
  /\ lock = "free"
  /\ \E t \in 0..now : Release(live(shard, k, t))

\* set: refused by NX or XX, it has still expired the key lazily.
Set(k) ==
  /\ lock = "free"
  /\ Room
  /\ \E t \in 0..now, size \in Sizes, opts \in SetOptions :
       LET s == live(shard, k, t)
           existed == k \in DOMAIN s.map
       IN  IF (opts.nx /\ existed) \/ (opts.xx /\ ~existed)
           THEN Release(s)
           ELSE Enforce(set(s, k, size, opts))

Del(k) ==
  /\ lock = "free"
  /\ \E t \in 0..now : Release(drop_key(live(shard, k, t), k))

\* expire_at: EXPIRE and its variants, and PERSIST with None.
ExpireAt(k) ==
  /\ lock = "free"
  /\ \E t \in 0..now, at \in Deadlines \cup {None} :
       LET s == live(shard, k, t)
       IN  Release(IF k \in DOMAIN s.map
                   THEN [s EXCEPT !.map[k].expire_at = at] ELSE s)

\* incr_by: an error (not a string, not a number, overflow) changes nothing
\* more; whether the bytes are a number is left open.
IncrBy(k) ==
  /\ lock = "free"
  /\ Room
  /\ \E t \in 0..now :
       LET s == live(shard, k, t)
       IN  \/ /\ k \in DOMAIN s.map
              /\ Release(s)
           \/ /\ k \in DOMAIN s.map => s.map[k].type = "string"
              /\ \E size \in Sizes \ {0} : Enforce(restore(s, k, size))

\* append: WRONGTYPE, or a value that is no shorter.
AppendTo(k) ==
  /\ lock = "free"
  /\ Room
  /\ \E t \in 0..now :
       LET s == live(shard, k, t)
       IN  IF k \in DOMAIN s.map /\ s.map[k].type # "string"
           THEN Release(s)
           ELSE \E size \in Sizes :
                  /\ k \in DOMAIN s.map => size >= s.map[k].size
                  /\ Enforce(restore(s, k, size))

\* Mutant of Collection: the budget is not enforced after a command that grows.
Collection_no_enforce(k) ==
  /\ lock = "free"
  /\ Room
  /\ \E t \in 0..now, op \in CollOps :
       LET s == ensured(live(shard, k, t), k, type_of_op[op])
       IN  IF s.map[k].type # type_of_op[op]
           THEN Release(s)
           ELSE \E after \in after_sizes(op, s.map[k].size) :
                  Release(mutated(s, k, after))

\* with_collection!: WRONGTYPE, or the command's body on the collection.
Collection(k) ==
  /\ lock = "free"
  /\ Room
  /\ \E t \in 0..now, op \in CollOps :
       LET s == ensured(live(shard, k, t), k, type_of_op[op])
       IN  IF s.map[k].type # type_of_op[op]
           THEN Release(s)
           ELSE \E after \in after_sizes(op, s.map[k].size) :
                  IF after = 0 THEN Release(mutated(s, k, after))
                               ELSE Enforce(mutated(s, k, after))

FlushAll == lock = "free" /\ Release(shard_new)

\* Mutant of Purge: every key with a deadline is taken for expired.
Purge_any_deadline ==
  /\ lock = "free"
  /\ LET old == {k \in DOMAIN shard.map : shard.map[k].expire_at # None}
     IN  /\ old # {}
         /\ purging' = old
         /\ lock' = "purge"
  /\ UNCHANGED <<shard, now>>

\* purge_expired collects the expired keys of the shard under its lock ...
Purge ==
  /\ lock = "free"
  /\ \E t \in 0..now :
       LET old == {k \in DOMAIN shard.map : expired(shard.map[k], t)}
       IN  /\ old # {}
           /\ purging' = old
           /\ lock' = "purge"
  /\ UNCHANGED <<shard, now>>

\* ... and drops them one after the other.
PurgeStep ==
  /\ lock = "purge"
  /\ \E k \in purging :
       /\ shard' = drop_key(shard, k)
       /\ purging' = purging \ {k}
  /\ lock' = IF purging' = {} THEN "free" ELSE "purge"
  /\ UNCHANGED now

EnforceStep ==
  /\ lock = "enforce"
  /\ Enforce(enforce_step(shard))

Tick ==
  /\ now < MaxTime
  /\ now' = now + 1
  /\ UNCHANGED <<shard, lock, purging>>

-----------------------------------------------------------------------------
Init ==
  /\ shard = shard_new
  /\ lock = "free"
  /\ purging = {}
  /\ now = 0

Operation(k) ==
  \/ Read(k) \/ Probe(k) \/ Set(k) \/ Del(k) \/ ExpireAt(k)
  \/ IncrBy(k) \/ AppendTo(k) \/ Collection(k)

Next ==
  \/ \E k \in Keys : Operation(k)
  \/ FlushAll \/ Purge \/ PurgeStep \/ EnforceStep \/ Tick

\* The thread that holds the lock is in a loop of straight-line code, and
\* keeps running it; nothing is assumed of clients or of the clock.
Fairness == WF_vars(EnforceStep) /\ WF_vars(PurgeStep)

Spec == Init /\ [][Next]_vars

FairSpec == Spec /\ Fairness
-----------------------------------------------------------------------------
(* Correctness *)

TypeOK ==
  /\ shard \in [map : EntryMap, pol : Policy, bytes : Nat]
  /\ lock \in {"free", "enforce", "purge"}
  /\ purging \in SUBSET Keys
  /\ now \in Times

\* The policy tracks exactly the keys the map holds ("number of live keys
\* tracked == number of values the store should be holding"), so a key can
\* neither escape eviction for ever nor be evicted when it is not there.
\* Without a budget the policy is never told of anything.
PolicyTracksMap ==
  IF Budget # 0 THEN DOMAIN shard.pol.meta = DOMAIN shard.map
                ELSE shard.pol = pol_new

\* small_count and main_count, kept by increments in five methods, count the
\* live keys of each queue; a drift would starve a queue or end the loop of
\* evict_one early.
CountsExact == CountsOK(shard.pol)

\* A live key always has a reference in the queue its metadata names, whatever
\* stale references surround it: the "queue drained; reconcile" branches of
\* step_small and step_main, which would forget live keys, are never needed.
LiveKeysQueued == QueuedOK(shard.pol)

\* The ghost set never names a live key (insert would admit it twice) and is
\* backed by the ghost queue, so that push_ghost can always trim the set.
GhostSound == GhostOK(shard.pol)

\* The byte counter, kept by differences in six places, is the weight of the
\* entries: no drift, and no subtraction of usize that wraps.
BytesExact == shard.bytes = Weight(shard.map)

\* Whenever the shard is not evicting it is within its memory budget.
WithinBudget == lock # "enforce" /\ Budget # 0 => shard.bytes <= Budget

\* A collection that became empty does not stay behind as a key.
NoEmptyCollection ==
  \A k \in DOMAIN shard.map :
    shard.map[k].type \in Collections => shard.map[k].size > 0

\* What purge_expired has collected and not yet dropped is still there.
PurgeValid ==
  /\ lock = "purge" <=> purging # {}
  /\ \A k \in purging : k \in DOMAIN shard.map /\ expired(shard.map[k], now)

\* The shard implements the bounded cache: its incremental bookkeeping makes
\* it evict exactly when the entries weigh too much, and only live entries go.
Cache == INSTANCE BoundedCache WITH store <- shard.map, phase <- lock, clock <- now

ImplementsCache == Cache!Spec

\* An operation that keeps the lock gives it back: the eviction loop ends
\* whatever stale references, promotions and second chances it meets, and so
\* does the loop of purge_expired.
LockReleased == lock # "free" ~> lock = "free"
=============================================================================
