------------------------------- MODULE KeyMap -------------------------------
(***************************************************************************)
(* The byte-keyed map that the shards and the eviction policy are built    *)
(* on (crates/core/src/map.rs), seen from its callers: a partial function  *)
(* from keys to values.  FlatMap.tla models the open-addressing table that *)
(* implements it and is checked against these operators.                   *)
(***************************************************************************)
EXTENDS FiniteSets

CONSTANTS
  Keys,  \* the keys that clients name
  None   \* Rust's None: no victim, no expiry, an empty slot

ASSUME KeysAssumption == IsFiniteSet(Keys) /\ None \notin Keys

\* FlatMap::new -- no entries.
map_new == [k \in {} |-> {}]

\* FlatMap::insert -- insert or overwrite.
map_insert(m, k, v) ==
  [j \in DOMAIN m \cup {k} |-> IF j = k THEN v ELSE m[j]]

\* FlatMap::remove -- remove if present.
map_remove(m, k) == [j \in DOMAIN m \ {k} |-> m[j]]
=============================================================================
