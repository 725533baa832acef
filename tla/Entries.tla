------------------------------ MODULE Entries -------------------------------
(***************************************************************************)
(* The entries a shard holds and what they weigh (crates/core/src/store.rs *)
(* struct Entry, Value::bytes, key_overhead).  A value is abstracted to    *)
(* its type and its payload size, which is what expiry, WRONGTYPE and the  *)
(* maxmemory accounting look at; a collection is empty iff its size is 0,  *)
(* because every element is charged for more than its own length.          *)
(***************************************************************************)
EXTENDS Naturals, KeyMap

CONSTANTS
  KeyLen,          \* the length of each key
  ENTRY_OVERHEAD,  \* 64 in the code
  Sizes,           \* payload sizes to consider
  MaxTime          \* the clock stops here

ASSUME EntryAssumption ==
  /\ KeyLen \in [Keys -> Nat]
  /\ ENTRY_OVERHEAD \in Nat \ {0}
  /\ Sizes \subseteq Nat
  /\ MaxTime \in Nat
  /\ None \notin Nat

Times == 0..MaxTime

Deadlines == 1..MaxTime

Collections == {"list", "hash", "set", "zset"}

Types == {"string"} \cup Collections

Entry == [type : Types, size : Sizes \cup {0}, expire_at : Deadlines \cup {None}]

EntryMap == UNION {[S -> Entry] : S \in SUBSET Keys}

\* Key length, fixed overhead and payload.
entry_bytes(k, e) == KeyLen[k] + ENTRY_OVERHEAD + e.size

expired(e, t) == e.expire_at # None /\ e.expire_at <= t

\* The bytes a map of entries is charged for, one by one; their number is
\* what a running byte counter has to equal.
Footprint(m) ==
  UNION {{<<k, i>> : i \in 1..entry_bytes(k, m[k])} : k \in DOMAIN m}

Weight(m) == Cardinality(Footprint(m))
=============================================================================
