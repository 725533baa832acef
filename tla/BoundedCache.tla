---------------------------- MODULE BoundedCache ----------------------------
(***************************************************************************)
(* What a shard promises, with no eviction policy, no queues and no byte   *)
(* counter: a map whose true weight is within the budget whenever it is    *)
(* open to clients.  An operation changes the key it names and no other.   *)
(* An entry goes on its own only if it has expired, or while the entries   *)
(* together really weigh more than the budget.                             *)
(***************************************************************************)
EXTENDS Entries

CONSTANT Budget

VARIABLES
  store,  \* the entries by key
  phase,  \* "free": open to clients; "enforce": making room; "purge": expiring
  clock

vars == <<store, phase, clock>>

\* The phase an operation leaves: room is made as long as it is needed.
Settled(m) == IF Budget # 0 /\ Weight(m) > Budget THEN "enforce" ELSE "free"

Init ==
  /\ store = map_new
  /\ phase = "free"
  /\ clock = 0

\* A client's operation leaves any entry, or none, at its key.
Apply(k) ==
  /\ phase = "free"
  /\ \/ \E e \in Entry : store' = map_insert(store, k, e)
     \/ store' = map_remove(store, k)
  /\ phase' = Settled(store')
  /\ UNCHANGED clock

Evict(k) ==
  /\ phase = "enforce"
  /\ k \in DOMAIN store
  /\ store' = map_remove(store, k)
  /\ phase' = Settled(store')
  /\ UNCHANGED clock

\* The background sweep, which takes nothing but expired entries.
StartPurge ==
  /\ phase = "free"
  /\ phase' = "purge"
  /\ UNCHANGED <<store, clock>>

Expire(k) ==
  /\ phase = "purge"
  /\ k \in DOMAIN store
  /\ expired(store[k], clock)
  /\ store' = map_remove(store, k)
  /\ phase' \in {"purge", "free"}
  /\ UNCHANGED clock

Flush ==
  /\ phase = "free"
  /\ store' = map_new
  /\ UNCHANGED <<phase, clock>>

Advance ==
  /\ clock < MaxTime
  /\ clock' = clock + 1
  /\ UNCHANGED <<store, phase>>

Next ==
  \/ \E k \in Keys : Apply(k) \/ Evict(k) \/ Expire(k)
  \/ StartPurge \/ Flush \/ Advance

Spec == Init /\ [][Next]_vars
=============================================================================
