---------------------------- MODULE ShardProofs -----------------------------
(***************************************************************************)
(* The shard's invariants, for any keys, sizes, budget and policy          *)
(* constants.  First the weight of a map of entries, then each method of   *)
(* the shard, then the operations.                                         *)
(***************************************************************************)
EXTENDS Shard, S3FifoProofs

-----------------------------------------------------------------------------
(* Maps of entries and their weight *)

\* A map of entries is a function from some of the keys to entries.
LEMMA EntryMapDef ==
  ASSUME NEW m
  PROVE  m \in EntryMap <=> DOMAIN m \subseteq Keys /\ m \in [DOMAIN m -> Entry]
  BY DEF EntryMap

\* FlatMap::insert: the key has the new entry, the others keep theirs.
LEMMA EntryInsert ==
  ASSUME NEW m \in EntryMap, NEW k \in Keys, NEW e \in Entry
  PROVE  /\ map_insert(m, k, e) \in EntryMap
         /\ DOMAIN map_insert(m, k, e) = DOMAIN m \cup {k}
         /\ map_insert(m, k, e)[k] = e
         /\ \A j \in DOMAIN m \ {k} : map_insert(m, k, e)[j] = m[j]
  BY EntryMapDef DEF map_insert

\* FlatMap::remove: the key is gone, the others keep their entries.
LEMMA EntryRemove ==
  ASSUME NEW m \in EntryMap, NEW k
  PROVE  /\ map_remove(m, k) \in EntryMap
         /\ DOMAIN map_remove(m, k) = DOMAIN m \ {k}
         /\ \A j \in DOMAIN m \ {k} : map_remove(m, k)[j] = m[j]
  BY EntryMapDef DEF map_remove

\* An entry weighs a positive number of bytes.
LEMMA EntryBytesType ==
  ASSUME NEW k \in Keys, NEW e \in Entry
  PROVE  entry_bytes(k, e) \in Nat \ {0}
<1>1. e.size \in Sizes \cup {0}
  BY DEF Entry
<1>2. KeyLen[k] \in Nat /\ ENTRY_OVERHEAD \in Nat \ {0} /\ Sizes \subseteq Nat
  BY EntryAssumption
<1>3. \A x \in Sizes \cup {0} : x \in Nat
  BY <1>2
<1>4. e.size \in Nat
  BY <1>1, <1>3
<1> QED BY <1>2, <1>4 DEF entry_bytes

\* The bytes of one entry.
Block(k, n) == {<<k, i>> : i \in 1..n}

\* An entry of n bytes has n bytes.
LEMMA BlockSize ==
  ASSUME NEW k, NEW n \in Nat
  PROVE  IsFiniteSet(Block(k, n)) /\ Cardinality(Block(k, n)) = n
<1>1. IsFiniteSet(1..n) /\ Cardinality(1..n) = n
  BY FS_Interval
<1> DEFINE f == [i \in 1..n |-> <<k, i>>]
<1>2. f \in Bijection(1..n, Block(k, n))
  BY DEF Block, Bijection, Injection, Surjection, IsInjective
<1>3. ExistsBijection(1..n, Block(k, n))
  BY <1>2 DEF ExistsBijection
<1> QED BY <1>1, <1>3, FS_Bijection

\* Adding an entry adds its bytes.
LEMMA WeightInsert ==
  ASSUME NEW m \in EntryMap, NEW k \in Keys, NEW e \in Entry, k \notin DOMAIN m,
         IsFiniteSet(Footprint(m))
  PROVE  /\ IsFiniteSet(Footprint(map_insert(m, k, e)))
         /\ Weight(map_insert(m, k, e)) = Weight(m) + entry_bytes(k, e)
         /\ Weight(m) \in Nat
<1> DEFINE n == entry_bytes(k, e)
           w == map_insert(m, k, e)
<1>1. n \in Nat
  BY EntryBytesType
<1>2. /\ DOMAIN w = DOMAIN m \cup {k} /\ w[k] = e
      /\ \A j \in DOMAIN m : w[j] = m[j]
  BY DEF map_insert
<1>3. Footprint(w) = Footprint(m) \cup Block(k, n)
  <2> HIDE DEF w
  <2> QED BY <1>2 DEF Footprint, Block
<1>4. Footprint(m) \cap Block(k, n) = {}
  <2> SUFFICES ASSUME NEW x \in Footprint(m), x \in Block(k, n) PROVE FALSE
    OBVIOUS
  <2>1. PICK j \in DOMAIN m : x \in {<<j, i>> : i \in 1..entry_bytes(j, m[j])}
    BY DEF Footprint
  <2>2. x[1] = j
    BY <2>1
  <2>3. x[1] = k
    BY DEF Block
  <2> QED BY <2>2, <2>3
<1>5. IsFiniteSet(Block(k, n)) /\ Cardinality(Block(k, n)) = n
  BY <1>1, BlockSize
<1> HIDE DEF n, w
<1>6. /\ IsFiniteSet(Footprint(w))
      /\ Cardinality(Footprint(w)) = Cardinality(Footprint(m)) + n - Cardinality({})
  BY <1>3, <1>4, <1>5, FS_Union
<1>7. Cardinality(Footprint(m)) \in Nat
  BY FS_CardinalityType
<1> QED BY <1>1, <1>6, <1>7, FS_EmptySet DEF Weight, n, w

\* Removing an entry removes its bytes.
LEMMA WeightRemove ==
  ASSUME NEW m \in EntryMap, NEW k \in DOMAIN m, IsFiniteSet(Footprint(m))
  PROVE  /\ IsFiniteSet(Footprint(map_remove(m, k)))
         /\ Weight(map_remove(m, k)) = Weight(m) - entry_bytes(k, m[k])
         /\ Weight(map_remove(m, k)) \in Nat
         /\ Weight(map_remove(m, k)) <= Weight(m)
<1> DEFINE r == map_remove(m, k)
           e == m[k]
<1>1. k \in Keys /\ e \in Entry
  BY EntryMapDef
<1>2. r \in EntryMap /\ k \notin DOMAIN r
  BY EntryRemove
<1>3. IsFiniteSet(Footprint(r))
  <2>1. Footprint(r) \subseteq Footprint(m)
    <3>1. DOMAIN r \subseteq DOMAIN m /\ \A j \in DOMAIN r : r[j] = m[j]
      BY EntryRemove
    <3> HIDE DEF r
    <3> SUFFICES ASSUME NEW x \in Footprint(r) PROVE x \in Footprint(m)
      OBVIOUS
    <3>2. PICK j \in DOMAIN r : x \in {<<j, i>> : i \in 1..entry_bytes(j, r[j])}
      BY DEF Footprint
    <3>3. j \in DOMAIN m /\ x \in {<<j, i>> : i \in 1..entry_bytes(j, m[j])}
      BY <3>1, <3>2
    <3> QED BY <3>3 DEF Footprint
  <2> QED BY <2>1, FS_Subset
<1>4. m = map_insert(r, k, e)
  BY EntryMapDef DEF map_insert, map_remove
<1>5. entry_bytes(k, e) \in Nat
  BY <1>1, EntryBytesType
<1> HIDE DEF r, e
<1>6. Weight(m) = Weight(r) + entry_bytes(k, e) /\ Weight(r) \in Nat
  BY <1>1, <1>2, <1>3, <1>4, WeightInsert
<1> QED BY <1>3, <1>5, <1>6 DEF r, e

\* Nothing weighs nothing.
LEMMA WeightEmpty ==
  ASSUME NEW m, DOMAIN m = {}
  PROVE  IsFiniteSet(Footprint(m)) /\ Weight(m) = 0
  BY FS_EmptySet DEF Footprint, Weight

\* Overwriting is removing and inserting.
LEMMA MapAlgebra ==
  ASSUME NEW m \in EntryMap, NEW k \in Keys, NEW e \in Entry, NEW f \in Entry
  PROVE  /\ map_insert(map_remove(m, k), k, e) = map_insert(m, k, e)
         /\ map_insert(map_insert(m, k, f), k, e) = map_insert(m, k, e)
         /\ map_remove(map_insert(m, k, e), k) = map_remove(m, k)
         /\ map_remove(map_remove(m, k), k) = map_remove(m, k)
         /\ k \notin DOMAIN m => map_remove(m, k) = m
         /\ k \in DOMAIN m => [m EXCEPT ![k] = e] = map_insert(m, k, e)
<1>1. map_insert(map_remove(m, k), k, e) = map_insert(m, k, e)
  BY DEF map_insert, map_remove
<1>2. map_insert(map_insert(m, k, f), k, e) = map_insert(m, k, e)
  BY DEF map_insert
<1>3. map_remove(map_insert(m, k, e), k) = map_remove(m, k)
  BY DEF map_insert, map_remove
<1>4. map_remove(map_remove(m, k), k) = map_remove(m, k)
  BY DEF map_remove
<1>5. k \notin DOMAIN m => map_remove(m, k) = m
  BY EntryMapDef DEF map_remove
<1>6. k \in DOMAIN m => [m EXCEPT ![k] = e] = map_insert(m, k, e)
  BY EntryMapDef DEF map_insert
<1> QED BY <1>1, <1>2, <1>3, <1>4, <1>5, <1>6

-----------------------------------------------------------------------------
(* impl Shard *)

\* What every method keeps true of the shard: the counter is the weight, the
\* policy is sound and tracks exactly the keys of the map.
ShardOK(s) ==
  /\ s \in [map : EntryMap, pol : Policy, bytes : Nat]
  /\ IsFiniteSet(Footprint(s.map))
  /\ s.bytes = Weight(s.map)
  /\ PolicyOK(s.pol)
  /\ Budget # 0 => DOMAIN s.pol.meta = DOMAIN s.map
  /\ Budget = 0 => s.pol = pol_new

\* A shard is sound if its parts are.
LEMMA MkShard ==
  ASSUME NEW m \in EntryMap, NEW p, PolicyOK(p), NEW b \in Nat,
         IsFiniteSet(Footprint(m)), b = Weight(m),
         Budget # 0 => DOMAIN p.meta = DOMAIN m,
         Budget = 0 => p = pol_new
  PROVE  ShardOK([map |-> m, pol |-> p, bytes |-> b])
  BY DEF ShardOK, PolicyOK

\* What a sound shard gives of each of its fields.
LEMMA ShardFields ==
  ASSUME NEW s, ShardOK(s)
  PROVE  /\ s = [map |-> s.map, pol |-> s.pol, bytes |-> s.bytes]
         /\ s.map \in EntryMap /\ DOMAIN s.map \subseteq Keys
         /\ s.bytes \in Nat /\ s.bytes = Weight(s.map)
         /\ IsFiniteSet(Footprint(s.map))
         /\ PolicyOK(s.pol)
         /\ \A k \in DOMAIN s.map : s.map[k] \in Entry
  BY EntryMapDef DEF ShardOK

\* Shard::new is sound and empty.
LEMMA ShardNewOK == ShardOK(shard_new) /\ shard_new.map = map_new
<1>1. map_new \in EntryMap /\ DOMAIN map_new = {}
  BY EntryMapDef DEF map_new
<1>2. IsFiniteSet(Footprint(map_new)) /\ Weight(map_new) = 0
  BY <1>1, WeightEmpty
<1>3. ShardOK([map |-> map_new, pol |-> pol_new, bytes |-> 0])
  <2>1. 0 \in Nat /\ 0 = Weight(map_new)
    BY <1>2
  <2>2. PolicyOK(pol_new) /\ DOMAIN pol_new.meta = DOMAIN map_new
    BY <1>1, PolNewOK
  <2> QED BY <1>1, <1>2, <2>1, <2>2 DEF ShardOK, PolicyOK
<1> QED BY <1>3 DEF shard_new

\* drop_key keeps the counter, the policy and the map in step, whether or not
\* the key is there.
LEMMA DropKeyOK ==
  ASSUME NEW s, ShardOK(s), NEW k \in Keys
  PROVE  ShardOK(drop_key(s, k)) /\ drop_key(s, k).map = map_remove(s.map, k)
<1>1. CASE k \notin DOMAIN s.map
  <2>1. drop_key(s, k) = s
    BY <1>1 DEF drop_key
  <2>2. map_remove(s.map, k) = s.map
    BY <1>1, ShardFields, EntryMapDef DEF map_remove
  <2> QED BY <2>1, <2>2
<1>2. CASE k \in DOMAIN s.map
  <2> DEFINE m == map_remove(s.map, k)
             p == IF Budget # 0 THEN remove(s.pol, k) ELSE s.pol
             b == s.bytes - entry_bytes(k, s.map[k])
  <2>1. m \in EntryMap /\ DOMAIN m = DOMAIN s.map \ {k}
    BY ShardFields, EntryRemove
  <2>2. IsFiniteSet(Footprint(m)) /\ b = Weight(m) /\ b \in Nat
    BY <1>2, ShardFields, WeightRemove
  <2>3. PolicyOK(p)
    BY <1>2, RemoveOK, ShardFields DEF ShardOK
  <2>4. /\ Budget # 0 => DOMAIN p.meta = DOMAIN m
        /\ Budget = 0 => p = pol_new
    BY <1>2, <2>1, RemoveOK, ShardFields DEF ShardOK
  <2>5. drop_key(s, k) = [map |-> m, pol |-> p, bytes |-> b]
    BY <1>2 DEF drop_key
  <2> HIDE DEF m, p, b
  <2>6. ShardOK([map |-> m, pol |-> p, bytes |-> b])
    BY <2>1, <2>2, <2>3, <2>4, MkShard
  <2> QED BY <2>5, <2>6 DEF m
<1> QED BY <1>1, <1>2

\* touch changes the policy only.
LEMMA TouchKeyOK ==
  ASSUME NEW s, ShardOK(s), NEW k
  PROVE  ShardOK(touch_key(s, k)) /\ touch_key(s, k).map = s.map
<1>1. CASE Budget = 0
  BY <1>1 DEF touch_key
<1>2. CASE Budget # 0
  <2> DEFINE p == touch(s.pol, k)
  <2>1. PolicyOK(p) /\ DOMAIN p.meta = DOMAIN s.map
    BY <1>2, TouchOK, ShardFields DEF ShardOK
  <2>2. touch_key(s, k) = [map |-> s.map, pol |-> p, bytes |-> s.bytes]
    <3>1. touch_key(s, k) = [s EXCEPT !.pol = p]
      BY <1>2 DEF touch_key
    <3> HIDE DEF p
    <3> QED BY <3>1, ShardFields
  <2> HIDE DEF p
  <2>3. ShardOK([map |-> s.map, pol |-> p, bytes |-> s.bytes])
    BY <1>2, <2>1, ShardFields, MkShard
  <2> QED BY <2>2, <2>3
<1> QED BY <1>1, <1>2

\* live either leaves the shard alone or drops the key.
LEMMA LiveOK ==
  ASSUME NEW s, ShardOK(s), NEW k \in Keys, NEW t
  PROVE  /\ ShardOK(live(s, k, t))
         /\ live(s, k, t).map \in {s.map, map_remove(s.map, k)}
  BY DropKeyOK DEF live

\* put_new keeps the three in step for a key that is not there.
LEMMA PutNewOK ==
  ASSUME NEW s, ShardOK(s), NEW k \in Keys, NEW e \in Entry, k \notin DOMAIN s.map
  PROVE  ShardOK(put_new(s, k, e)) /\ put_new(s, k, e).map = map_insert(s.map, k, e)
<1> DEFINE m == map_insert(s.map, k, e)
           p == IF Budget # 0 THEN insert(s.pol, k) ELSE s.pol
           b == s.bytes + entry_bytes(k, e)
<1>1. m \in EntryMap /\ DOMAIN m = DOMAIN s.map \cup {k}
  BY ShardFields, EntryInsert
<1>2. IsFiniteSet(Footprint(m)) /\ b = Weight(m) /\ b \in Nat
  BY ShardFields, WeightInsert, EntryBytesType
<1>3. PolicyOK(p)
  BY InsertOK, ShardFields DEF ShardOK
<1>4. /\ Budget # 0 => DOMAIN p.meta = DOMAIN m
      /\ Budget = 0 => p = pol_new
  BY <1>1, InsertOK, ShardFields DEF ShardOK
<1>5. put_new(s, k, e) = [map |-> m, pol |-> p, bytes |-> b]
  BY DEF put_new
<1> HIDE DEF m, p, b
<1>6. ShardOK([map |-> m, pol |-> p, bytes |-> b])
  BY <1>1, <1>2, <1>3, <1>4, MkShard
<1> QED BY <1>5, <1>6 DEF m

\* The in-place update of set and with_collection!: the counter moves by the
\* difference of the payloads, and never below zero.
LEMMA UpdateOK ==
  ASSUME NEW s, ShardOK(s), NEW k \in DOMAIN s.map, NEW e \in Entry
  PROVE  ShardOK(update(s, k, e)) /\ update(s, k, e).map = map_insert(s.map, k, e)
<1>0. /\ k \in Keys /\ s.map \in EntryMap /\ s.map[k] \in Entry
      /\ s.bytes \in Nat /\ s.bytes = Weight(s.map) /\ IsFiniteSet(Footprint(s.map))
      /\ s = [map |-> s.map, pol |-> s.pol, bytes |-> s.bytes]
  BY ShardFields
<1> DEFINE r == map_remove(s.map, k)
           m == map_insert(s.map, k, e)
           b == s.bytes + e.size - s.map[k].size
<1>1. m \in EntryMap /\ DOMAIN m = DOMAIN s.map
  <2>1. m \in EntryMap /\ DOMAIN m = DOMAIN s.map \cup {k}
    BY <1>0, EntryInsert
  <2> HIDE DEF m
  <2> QED BY <2>1
<1>2. r \in EntryMap /\ k \notin DOMAIN r
  BY <1>0, EntryRemove
<1>3. /\ IsFiniteSet(Footprint(r)) /\ Weight(r) \in Nat
      /\ Weight(r) = Weight(s.map) - entry_bytes(k, s.map[k])
  BY <1>0, WeightRemove
<1>4. m = map_insert(r, k, e)
  BY <1>0, MapAlgebra
<1>5. /\ IsFiniteSet(Footprint(m))
      /\ Weight(m) = Weight(r) + entry_bytes(k, e)
  <2> HIDE DEF r, m
  <2> QED BY <1>0, <1>2, <1>3, <1>4, WeightInsert
<1>6. /\ e.size \in Int /\ s.map[k].size \in Int
      /\ KeyLen[k] \in Int /\ ENTRY_OVERHEAD \in Int
  <2>1. \A x \in Sizes \cup {0} : x \in Int
    BY EntryAssumption
  <2>2. e.size \in Sizes \cup {0} /\ s.map[k].size \in Sizes \cup {0}
    BY <1>0 DEF Entry
  <2>3. KeyLen[k] \in Int /\ ENTRY_OVERHEAD \in Int
    BY <1>0, EntryAssumption
  <2> QED BY <2>1, <2>2, <2>3
<1>7. b = Weight(m) /\ b \in Nat
  <2>1. entry_bytes(k, e) \in Nat
    BY <1>0, EntryBytesType
  <2> HIDE DEF r, m
  <2>2. b = Weight(m)
    BY <1>0, <1>3, <1>5, <1>6 DEF entry_bytes
  <2> QED BY <1>3, <1>5, <2>1, <2>2
<1>8. update(s, k, e) = [map |-> m, pol |-> s.pol, bytes |-> b]
  <2>1. [s.map EXCEPT ![k] = e] = m
    BY <1>0, MapAlgebra
  <2>2. update(s, k, e) = [s EXCEPT !.map = [s.map EXCEPT ![k] = e], !.bytes = b]
    BY DEF update
  <2> HIDE DEF m, b
  <2> QED BY <1>0, <2>1, <2>2
<1> HIDE DEF m, b
<1>9. ShardOK([map |-> m, pol |-> s.pol, bytes |-> b])
  BY <1>1, <1>5, <1>7, MkShard DEF ShardOK
<1> QED BY <1>8, <1>9 DEF m

\* One turn of the eviction loop takes at most one entry, a live one.
LEMMA EnforceStepOK ==
  ASSUME NEW s, ShardOK(s), over_budget(s)
  PROVE  /\ ShardOK(enforce_step(s))
         /\ \/ enforce_step(s).map = s.map
            \/ \E v \in DOMAIN s.map : enforce_step(s).map = map_remove(s.map, v)
<1> DEFINE r == evict_step(s.pol)
           t == [s EXCEPT !.pol = r.pol]
<1>0. /\ s = [map |-> s.map, pol |-> s.pol, bytes |-> s.bytes]
      /\ s.map \in EntryMap /\ DOMAIN s.map \subseteq Keys
      /\ s.bytes \in Nat /\ s.bytes = Weight(s.map) /\ IsFiniteSet(Footprint(s.map))
      /\ PolicyOK(s.pol) /\ Budget # 0 /\ len(s.pol) # 0
      /\ DOMAIN s.pol.meta = DOMAIN s.map
  BY ShardFields DEF ShardOK, over_budget
<1>1. SoundStep(s.pol, r)
  BY <1>0, EvictStepOK
<1>2. t = [map |-> s.map, pol |-> r.pol, bytes |-> s.bytes]
  <2> HIDE DEF r
  <2> QED BY <1>0
<1>3. enforce_step(s) = IF r.victim = None THEN t ELSE drop_key(t, r.victim)
  BY DEF enforce_step
<1> HIDE DEF r, t
<1>4. PolicyOK(r.pol)
  BY <1>1 DEF SoundStep
<1>5. CASE r.victim = None
  <2>1. DOMAIN r.pol.meta = DOMAIN s.map
    BY <1>0, <1>1, <1>5, KeysAssumption DEF SoundStep
  <2>2. ShardOK([map |-> s.map, pol |-> r.pol, bytes |-> s.bytes])
    BY <1>0, <1>4, <2>1, MkShard
  <2> QED BY <1>2, <1>3, <1>5, <2>2
<1>6. CASE r.victim # None
  <2> DEFINE v == r.victim
             m == map_remove(s.map, v)
             b == s.bytes - entry_bytes(v, s.map[v])
  <2>1. v \in DOMAIN s.map /\ DOMAIN r.pol.meta = DOMAIN s.map \ {v}
    BY <1>0, <1>1, <1>6 DEF SoundStep
  <2>2. remove(r.pol, v) = r.pol
    BY <2>1, RemoveAbsent
  <2>3. drop_key(t, v) = [map |-> m, pol |-> r.pol, bytes |-> b]
    <3>1. t.map = s.map /\ t.pol = r.pol /\ t.bytes = s.bytes
      BY <1>2
    <3> QED BY <1>0, <2>1, <2>2, <3>1 DEF drop_key
  <2>4. m \in EntryMap /\ DOMAIN m = DOMAIN s.map \ {v}
    BY <1>0, EntryRemove
  <2>5. IsFiniteSet(Footprint(m)) /\ b = Weight(m) /\ b \in Nat
    BY <1>0, <2>1, WeightRemove
  <2>6. enforce_step(s) = [map |-> m, pol |-> r.pol, bytes |-> b]
    BY <1>3, <1>6, <2>3
  <2> HIDE DEF m, b, v
  <2>7. ShardOK([map |-> m, pol |-> r.pol, bytes |-> b])
    BY <1>0, <1>4, <2>1, <2>4, <2>5, MkShard
  <2>8. enforce_step(s).map = m
    BY <2>6
  <2> QED BY <2>1, <2>6, <2>7, <2>8 DEF m
<1> QED BY <1>5, <1>6

-----------------------------------------------------------------------------
(* The operations of the store on a locked shard *)

\* No entry of the map is an empty collection.
SolidEntry(e) == e.type \in Collections => e.size > 0
Solid(m) == \A k \in DOMAIN m : SolidEntry(m[k])

\* Removing a key leaves no empty collection.
LEMMA SolidRemove ==
  ASSUME NEW m \in EntryMap, Solid(m), NEW k
  PROVE  Solid(map_remove(m, k))
  BY DEF Solid, map_remove

\* Nor does writing an entry that is not one.
LEMMA SolidInsert ==
  ASSUME NEW m \in EntryMap, Solid(m), NEW k, NEW e, SolidEntry(e)
  PROVE  Solid(map_insert(m, k, e))
  BY DEF Solid, map_insert

\* Strings are entries, and an empty string is not an empty collection.
LEMMA StringEntry ==
  ASSUME NEW size \in Sizes, NEW x \in Deadlines \cup {None}
  PROVE  string(size, x) \in Entry /\ SolidEntry(string(size, x))
  BY DEF string, Entry, SolidEntry, Types, Collections

\* The fields of an entry.
LEMMA EntryFields ==
  ASSUME NEW e \in Entry
  PROVE  /\ e.type \in Types /\ e.size \in Sizes \cup {0} /\ e.size \in Nat
         /\ e.expire_at \in Deadlines \cup {None}
<1>1. /\ e.type \in Types /\ e.size \in Sizes \cup {0}
      /\ e.expire_at \in Deadlines \cup {None}
  BY DEF Entry
<1>2. \A x \in Sizes \cup {0} : x \in Nat
  BY EntryAssumption
<1> QED BY <1>1, <1>2

\* Store::set writes one solid entry, over the old one or as a new one.
LEMMA SetOK ==
  ASSUME NEW s, ShardOK(s), NEW k \in Keys, NEW size \in Sizes, NEW opts \in SetOptions
  PROVE  /\ ShardOK(set(s, k, size, opts))
         /\ \E e \in Entry : SolidEntry(e) /\ set(s, k, size, opts).map = map_insert(s.map, k, e)
<1>0. opts.expire_at \in Deadlines \cup {None}
  BY DEF SetOptions
<1>1. CASE k \in DOMAIN s.map
  <2> DEFINE x == IF opts.keep_ttl THEN s.map[k].expire_at ELSE opts.expire_at
             e == string(size, x)
             u == update(s, k, e)
  <2>1. x \in Deadlines \cup {None}
    <3>1. s.map[k] \in Entry
      BY <1>1, ShardFields
    <3> QED BY <1>0, <3>1, EntryFields
  <2>2. set(s, k, size, opts) = touch_key(u, k)
    BY <1>1 DEF set
  <2>3. e \in Entry /\ SolidEntry(e)
    <3> HIDE DEF x
    <3> QED BY <2>1, StringEntry
  <2> HIDE DEF e
  <2>4. ShardOK(u) /\ u.map = map_insert(s.map, k, e)
    BY <1>1, <2>3, UpdateOK
  <2> HIDE DEF u
  <2>5. ShardOK(touch_key(u, k)) /\ touch_key(u, k).map = u.map
    BY <2>4, TouchKeyOK
  <2> QED BY <2>2, <2>3, <2>4, <2>5
<1>2. CASE k \notin DOMAIN s.map
  <2> DEFINE e == string(size, opts.expire_at)
  <2>1. e \in Entry /\ SolidEntry(e)
    BY <1>0, StringEntry
  <2>2. set(s, k, size, opts) = put_new(s, k, e)
    BY <1>2 DEF set
  <2> HIDE DEF e
  <2> QED BY <1>2, <2>1, <2>2, PutNewOK
<1> QED BY <1>1, <1>2

\* So does the drop_key and put_new of incr_by and append.
LEMMA RestoreOK ==
  ASSUME NEW s, ShardOK(s), NEW k \in Keys, NEW size \in Sizes
  PROVE  /\ ShardOK(restore(s, k, size))
         /\ \E e \in Entry : SolidEntry(e) /\ restore(s, k, size).map = map_insert(s.map, k, e)
<1>1. CASE k \in DOMAIN s.map
  <2> DEFINE e == string(size, s.map[k].expire_at)
             d == drop_key(s, k)
  <2>1. e \in Entry /\ SolidEntry(e)
    <3>1. s.map[k].expire_at \in Deadlines \cup {None}
      BY <1>1, ShardFields, EntryFields
    <3> QED BY <3>1, StringEntry
  <2>2. restore(s, k, size) = put_new(d, k, e)
    BY <1>1 DEF restore
  <2> HIDE DEF e
  <2>3. ShardOK(d) /\ d.map = map_remove(s.map, k)
    BY DropKeyOK
  <2>4. k \notin DOMAIN d.map
    BY <2>3 DEF map_remove
  <2> HIDE DEF d
  <2>5. ShardOK(put_new(d, k, e)) /\ put_new(d, k, e).map = map_insert(d.map, k, e)
    BY <2>1, <2>3, <2>4, PutNewOK
  <2>6. map_insert(d.map, k, e) = map_insert(s.map, k, e)
    BY <2>1, <2>3, MapAlgebra, ShardFields
  <2> QED BY <2>1, <2>2, <2>5, <2>6
<1>2. CASE k \notin DOMAIN s.map
  <2> DEFINE e == string(size, None)
  <2>1. e \in Entry /\ SolidEntry(e)
    BY StringEntry
  <2>2. restore(s, k, size) = put_new(s, k, e)
    BY <1>2 DEF restore
  <2> HIDE DEF e
  <2> QED BY <1>2, <2>1, <2>2, PutNewOK
<1> QED BY <1>1, <1>2

\* with_collection! has an entry to work on, its own if the key was absent, in
\* which case the type matches.
LEMMA EnsuredOK ==
  ASSUME NEW s, ShardOK(s), NEW k \in Keys, NEW type \in Types
  PROVE  /\ ShardOK(ensured(s, k, type))
         /\ k \in DOMAIN ensured(s, k, type).map
         /\ \/ k \in DOMAIN s.map /\ ensured(s, k, type) = s
            \/ /\ k \notin DOMAIN s.map
               /\ ensured(s, k, type).map[k].type = type
               /\ \E f \in Entry : ensured(s, k, type).map = map_insert(s.map, k, f)
<1>1. CASE k \in DOMAIN s.map
  BY <1>1 DEF ensured
<1>2. CASE k \notin DOMAIN s.map
  <2> DEFINE e == [type |-> type, size |-> 0, expire_at |-> None]
             u == put_new(s, k, e)
  <2>1. e \in Entry /\ e.type = type
    BY DEF Entry
  <2>2. ensured(s, k, type) = u
    BY <1>2 DEF ensured
  <2> HIDE DEF e
  <2>3. ShardOK(u) /\ u.map = map_insert(s.map, k, e)
    BY <1>2, <2>1, PutNewOK
  <2>4. k \in DOMAIN u.map /\ u.map[k] = e
    BY <2>3 DEF map_insert
  <2> HIDE DEF u
  <2> QED BY <1>2, <2>1, <2>2, <2>3, <2>4
<1> QED BY <1>1, <1>2

\* What with_collection! leaves: no key if the collection is empty, else a
\* solid entry.
LEMMA MutatedOK ==
  ASSUME NEW s, ShardOK(s), NEW k \in DOMAIN s.map, NEW after \in Sizes \cup {0}
  PROVE  /\ ShardOK(mutated(s, k, after))
         /\ after = 0 => mutated(s, k, after).map = map_remove(s.map, k)
         /\ after # 0 => \E e \in Entry :
              SolidEntry(e) /\ mutated(s, k, after).map = map_insert(s.map, k, e)
<1> DEFINE e == [s.map[k] EXCEPT !.size = after]
           w == update(s, k, e)
           u == touch_key(w, k)
<1>0. k \in Keys /\ s.map \in EntryMap /\ s.map[k] \in Entry
  BY ShardFields
<1>1. e \in Entry /\ e.size = after
  BY <1>0 DEF Entry
<1>2. after # 0 => SolidEntry(e)
  <2>1. \A x \in Sizes \cup {0} : x \in Nat
    BY EntryAssumption
  <2>2. after # 0 => after > 0
    BY <2>1
  <2> HIDE DEF e
  <2> QED BY <1>1, <2>2 DEF SolidEntry
<1>3. mutated(s, k, after) = IF after = 0 THEN drop_key(u, k) ELSE u
  BY DEF mutated
<1> HIDE DEF e
<1>4. ShardOK(w) /\ w.map = map_insert(s.map, k, e)
  BY <1>1, UpdateOK
<1> HIDE DEF w
<1>5. ShardOK(u) /\ u.map = map_insert(s.map, k, e)
  BY <1>4, TouchKeyOK
<1> HIDE DEF u
<1>6. CASE after = 0
  <2>1. ShardOK(drop_key(u, k)) /\ drop_key(u, k).map = map_remove(u.map, k)
    BY <1>0, <1>5, DropKeyOK
  <2>2. map_remove(u.map, k) = map_remove(s.map, k)
    BY <1>0, <1>1, <1>5, MapAlgebra
  <2> QED BY <1>3, <1>6, <2>1, <2>2
<1>7. CASE after # 0
  BY <1>1, <1>2, <1>3, <1>5, <1>7
<1> QED BY <1>6, <1>7

\* expire_at moves a deadline; the entry weighs what it weighed.
LEMMA DeadlineOK ==
  ASSUME NEW s, ShardOK(s), Solid(s.map), NEW k \in DOMAIN s.map,
         NEW at \in Deadlines \cup {None}
  PROVE  LET u == [s EXCEPT !.map[k].expire_at = at]
         IN  /\ ShardOK(u)
             /\ u.bytes = s.bytes
             /\ \E e \in Entry : SolidEntry(e) /\ u.map = map_insert(s.map, k, e)
<1> DEFINE e == [s.map[k] EXCEPT !.expire_at = at]
           u == [s EXCEPT !.map[k].expire_at = at]
           w == update(s, k, e)
           b == s.bytes + e.size - s.map[k].size
<1>0. s.map[k] \in Entry /\ s.bytes \in Nat
  BY ShardFields
<1>1. e \in Entry /\ e.size = s.map[k].size /\ e.type = s.map[k].type
  BY <1>0 DEF Entry
<1>2. SolidEntry(e)
  <2>1. SolidEntry(s.map[k])
    BY DEF Solid
  <2> HIDE DEF e
  <2> QED BY <1>1, <2>1 DEF SolidEntry
<1>3. s.map[k].size \in Nat
  BY <1>0, EntryFields
<1>4. b = s.bytes
  <2> HIDE DEF e
  <2> QED BY <1>0, <1>1, <1>3
<1>5. u = [s EXCEPT !.map = [s.map EXCEPT ![k] = e]]
  OBVIOUS
<1>6. w = [s EXCEPT !.map = [s.map EXCEPT ![k] = e], !.bytes = b]
  BY DEF update
<1>7. ShardOK(w) /\ w.map = map_insert(s.map, k, e)
  <2> HIDE DEF e
  <2> QED BY <1>1, UpdateOK
<1>8. s = [map |-> s.map, pol |-> s.pol, bytes |-> s.bytes]
  BY ShardFields
<1>9. u = w /\ u.bytes = s.bytes
  <2> DEFINE m == [s.map EXCEPT ![k] = e]
  <2>1. u = [s EXCEPT !.map = m] /\ w = [s EXCEPT !.map = m, !.bytes = b]
    BY <1>5, <1>6
  <2> HIDE DEF m, u, w, b, e
  <2> QED BY <1>4, <1>8, <2>1
<1> HIDE DEF u, w, e, b
<1>10. /\ ShardOK(u) /\ u.bytes = s.bytes
       /\ \E x \in Entry : SolidEntry(x) /\ u.map = map_insert(s.map, k, x)
  BY <1>1, <1>2, <1>7, <1>9
<1> QED BY <1>10 DEF u

\* Dropping a key never makes the shard heavier.
LEMMA DropKeyLighter ==
  ASSUME NEW s, ShardOK(s), NEW k \in Keys
  PROVE  drop_key(s, k).bytes <= s.bytes
<1>1. CASE k \notin DOMAIN s.map
  <2>1. s.bytes \in Nat
    BY ShardFields
  <2> QED BY <1>1, <2>1 DEF drop_key
<1>2. CASE k \in DOMAIN s.map
  <2>1. Weight(map_remove(s.map, k)) <= Weight(s.map)
    BY <1>2, ShardFields, WeightRemove
  <2>2. drop_key(s, k).bytes = Weight(map_remove(s.map, k))
    <3>1. ShardOK(drop_key(s, k)) /\ drop_key(s, k).map = map_remove(s.map, k)
      BY DropKeyOK
    <3> QED BY <3>1 DEF ShardOK
  <2> QED BY <2>1, <2>2 DEF ShardOK
<1> QED BY <1>1, <1>2

\* Looking a key up drops it if it has expired and does nothing else.
LEMMA LiveLighter ==
  ASSUME NEW s, ShardOK(s), Solid(s.map), NEW k \in Keys, NEW t
  PROVE  /\ ShardOK(live(s, k, t)) /\ Solid(live(s, k, t).map)
         /\ live(s, k, t).bytes <= s.bytes
<1>1. s.map \in EntryMap /\ s.bytes \in Nat
  BY ShardFields
<1>2. ShardOK(live(s, k, t))
  BY LiveOK
<1>3. live(s, k, t).map \in {s.map, map_remove(s.map, k)}
  BY LiveOK
<1>4. Solid(live(s, k, t).map)
  BY <1>1, <1>3, SolidRemove
<1>5. live(s, k, t).bytes <= s.bytes
  <2>1. CASE live(s, k, t) = s
    BY <1>1, <2>1
  <2>2. CASE live(s, k, t) = drop_key(s, k)
    BY <2>2, DropKeyLighter
  <2> QED BY <2>1, <2>2 DEF live
<1> QED BY <1>2, <1>4, <1>5

-----------------------------------------------------------------------------
(* The inductive invariant *)

Inv ==
  /\ ShardOK(shard)
  /\ Solid(shard.map)
  /\ lock \in {"free", "enforce", "purge"}
  /\ purging \in SUBSET Keys
  /\ now \in Times
  /\ PurgeValid
  /\ WithinBudget
  /\ lock = "enforce" => over_budget(shard)

\* The break of enforce_budget is never the way out: a policy with no live key
\* belongs to a map with no entry, which weighs nothing.
LEMMA EmptyPolicy ==
  ASSUME NEW s, ShardOK(s), Budget # 0, len(s.pol) = 0
  PROVE  s.bytes = 0
<1>1. PolicyOK(s.pol) /\ DOMAIN s.pol.meta = DOMAIN s.map
  BY DEF ShardOK
<1>2. s.pol \in Policy /\ CountsOK(s.pol)
  BY <1>1 DEF PolicyOK
<1>3. /\ IsFiniteSet(Located(s.pol, "Small")) /\ IsFiniteSet(Located(s.pol, "Main"))
  BY <1>2, LocatedFinite
<1>4. s.pol.small_count = 0 /\ s.pol.main_count = 0
  <2>1. s.pol.small_count \in Nat /\ s.pol.main_count \in Nat
    BY <1>2 DEF Policy
  <2> QED BY <2>1 DEF len
<1>5. Located(s.pol, "Small") = {} /\ Located(s.pol, "Main") = {}
  BY <1>2, <1>3, <1>4, FS_EmptySet DEF CountsOK
<1>6. DOMAIN s.pol.meta = {}
  <2> SUFFICES ASSUME NEW k \in DOMAIN s.pol.meta PROVE FALSE
    OBVIOUS
  <2>1. s.pol.meta[k].loc \in Loc
    <3>1. s.pol.meta \in MetaMap
      BY <1>2 DEF Policy
    <3> QED BY <3>1, MetaMapDef DEF Meta
  <2> QED BY <1>5, <2>1 DEF Located, Loc
<1> QED BY <1>1, <1>6, WeightEmpty DEF ShardOK

\* Unlocking without enforce_budget is sound for an operation that has added
\* nothing.
LEMMA ReleaseInv ==
  ASSUME Inv, lock = "free", NEW s, ShardOK(s), Solid(s.map),
         s.bytes <= shard.bytes, Release(s)
  PROVE  Inv'
<1>1. purging = {}
  BY DEF Inv, PurgeValid
<1>2. /\ shard' = s /\ lock' = "free" /\ purging' = {} /\ now' = now
  BY <1>1 DEF Release
<1>3. s.bytes \in Nat /\ shard.bytes \in Nat /\ Budget \in Nat
  BY ShardFields, ShardAssumption DEF Inv
<1>4. Budget # 0 => s.bytes <= Budget
  BY <1>3 DEF Inv, WithinBudget
<1>5. PurgeValid'
  BY <1>2 DEF PurgeValid
<1>6. WithinBudget'
  BY <1>2, <1>4 DEF WithinBudget
<1> QED BY <1>2, <1>5, <1>6 DEF Inv

\* Leaving with enforce_budget is sound whatever the operation has added.
LEMMA EnforceInv ==
  ASSUME Inv, lock # "purge", NEW s, ShardOK(s), Solid(s.map), Enforce(s)
  PROVE  Inv'
<1>1. purging = {}
  BY DEF Inv, PurgeValid
<1>2. /\ shard' = s /\ purging' = {} /\ now' = now
      /\ lock' = IF over_budget(s) THEN "enforce" ELSE "free"
  BY <1>1 DEF Enforce
<1>3. s.bytes \in Nat /\ Budget \in Nat
  BY ShardFields, ShardAssumption
<1>4. Budget # 0 /\ ~over_budget(s) => s.bytes <= Budget
  BY <1>3, EmptyPolicy DEF over_budget
<1>5. PurgeValid'
  BY <1>2 DEF PurgeValid
<1>6. WithinBudget'
  BY <1>2, <1>4 DEF WithinBudget
<1>7. lock' = "enforce" => over_budget(shard)'
  BY <1>2 DEF over_budget
<1> QED BY <1>2, <1>5, <1>6, <1>7 DEF Inv

\* A lookup at the start of an operation, in the terms of the invariant.
LEMMA LookupInv ==
  ASSUME Inv, NEW k \in Keys, NEW t
  PROVE  LET s == live(shard, k, t)
         IN  ShardOK(s) /\ Solid(s.map) /\ s.bytes <= shard.bytes /\ s.map \in EntryMap
  BY LiveLighter, ShardFields DEF Inv

\* One lemma per action: GET and the other reads.
LEMMA ReadInv ==
  ASSUME Inv, NEW k \in Keys, Read(k)
  PROVE  Inv'
<1>1. PICK t \in 0..now :
        LET s == live(shard, k, t)
        IN  Release(IF k \in DOMAIN s.map THEN touch_key(s, k) ELSE s)
  BY DEF Read, hit
<1> DEFINE s == live(shard, k, t)
           u == touch_key(s, k)
<1>2. ShardOK(s) /\ Solid(s.map) /\ s.bytes <= shard.bytes
  BY LookupInv
<1>3. Release(u) \/ Release(s)
  BY <1>1
<1>4. u.bytes = s.bytes
  BY DEF touch_key
<1> HIDE DEF s
<1>5. ShardOK(u) /\ u.map = s.map
  BY <1>2, TouchKeyOK
<1> HIDE DEF u
<1> QED BY <1>2, <1>3, <1>4, <1>5, ReleaseInv DEF Read

\* EXISTS, TYPE, PTTL and STRLEN.
LEMMA ProbeInv ==
  ASSUME Inv, NEW k \in Keys, Probe(k)
  PROVE  Inv'
  BY LookupInv, ReleaseInv DEF Probe

\* SET, refused or not.
LEMMA SetInv ==
  ASSUME Inv, NEW k \in Keys, Set(k)
  PROVE  Inv'
<1>1. PICK t \in 0..now, size \in Sizes, opts \in SetOptions :
        \/ Release(live(shard, k, t))
        \/ Enforce(set(live(shard, k, t), k, size, opts))
  BY DEF Set
<1> DEFINE s == live(shard, k, t)
           u == set(s, k, size, opts)
<1>2. ShardOK(s) /\ Solid(s.map) /\ s.bytes <= shard.bytes /\ s.map \in EntryMap
  BY LookupInv
<1>3. lock = "free"
  BY DEF Set
<1>4. Release(s) \/ Enforce(u)
  BY <1>1
<1> HIDE DEF s
<1>5. ShardOK(u) /\ Solid(u.map)
  BY <1>2, SetOK, SolidInsert
<1> HIDE DEF u
<1> QED BY <1>2, <1>3, <1>4, <1>5, ReleaseInv, EnforceInv

\* DEL.
LEMMA DelInv ==
  ASSUME Inv, NEW k \in Keys, Del(k)
  PROVE  Inv'
<1>1. PICK t \in 0..now : Release(drop_key(live(shard, k, t), k))
  BY DEF Del
<1> DEFINE s == live(shard, k, t)
           u == drop_key(s, k)
<1>2. ShardOK(s) /\ Solid(s.map) /\ s.bytes <= shard.bytes /\ s.map \in EntryMap
  BY LookupInv
<1>3. lock = "free" /\ Release(u)
  BY <1>1 DEF Del
<1> HIDE DEF s
<1>4. ShardOK(u) /\ Solid(u.map) /\ u.bytes <= s.bytes
  BY <1>2, DropKeyOK, DropKeyLighter, SolidRemove
<1> HIDE DEF u
<1>5. u.bytes \in Nat /\ s.bytes \in Nat /\ shard.bytes \in Nat
  BY <1>2, <1>4, ShardFields DEF Inv
<1>6. u.bytes <= shard.bytes
  BY <1>2, <1>4, <1>5
<1> QED BY <1>3, <1>4, <1>6, ReleaseInv

\* EXPIRE and PERSIST.
LEMMA ExpireAtInv ==
  ASSUME Inv, NEW k \in Keys, ExpireAt(k)
  PROVE  Inv'
<1>1. PICK t \in 0..now, at \in Deadlines \cup {None} :
        LET s == live(shard, k, t)
        IN  Release(IF k \in DOMAIN s.map
                    THEN [s EXCEPT !.map[k].expire_at = at] ELSE s)
  BY DEF ExpireAt
<1> DEFINE s == live(shard, k, t)
           u == [s EXCEPT !.map[k].expire_at = at]
<1>2. ShardOK(s) /\ Solid(s.map) /\ s.bytes <= shard.bytes /\ s.map \in EntryMap
  BY LookupInv
<1>3. lock = "free"
  BY DEF ExpireAt
<1>4. IF k \in DOMAIN s.map THEN Release(u) ELSE Release(s)
  BY <1>1
<1> HIDE DEF s
<1>5. CASE k \in DOMAIN s.map
  <2>1. /\ ShardOK(u) /\ u.bytes = s.bytes
        /\ \E e \in Entry : SolidEntry(e) /\ u.map = map_insert(s.map, k, e)
    BY <1>2, <1>5, DeadlineOK
  <2> HIDE DEF u
  <2>2. Solid(u.map)
    BY <1>2, <2>1, SolidInsert
  <2> QED BY <1>2, <1>3, <1>4, <1>5, <2>1, <2>2, ReleaseInv
<1>6. CASE k \notin DOMAIN s.map
  <2> HIDE DEF u
  <2> QED BY <1>2, <1>3, <1>4, <1>6, ReleaseInv
<1> QED BY <1>5, <1>6

\* INCRBY and APPEND: an error leaves what the lookup left.
LEMMA StringWriteInv ==
  ASSUME Inv, NEW k \in Keys, lock = "free", NEW t,
         \/ Release(live(shard, k, t))
         \/ \E size \in Sizes : Enforce(restore(live(shard, k, t), k, size))
  PROVE  Inv'
<1> DEFINE s == live(shard, k, t)
<1>1. ShardOK(s) /\ Solid(s.map) /\ s.bytes <= shard.bytes /\ s.map \in EntryMap
  BY LookupInv
<1>2. CASE Release(s)
  <2> HIDE DEF s
  <2> QED BY <1>1, <1>2, ReleaseInv
<1>3. CASE \E size \in Sizes : Enforce(restore(s, k, size))
  <2>1. PICK size \in Sizes : Enforce(restore(s, k, size))
    BY <1>3
  <2> DEFINE u == restore(s, k, size)
  <2> HIDE DEF s
  <2>2. ShardOK(u) /\ Solid(u.map)
    BY <1>1, RestoreOK, SolidInsert
  <2>3. Enforce(u)
    BY <2>1
  <2> HIDE DEF u
  <2> QED BY <2>2, <2>3, EnforceInv
<1> QED BY <1>2, <1>3

\* The collection commands: WRONGTYPE only for a key that was there before, so
\* the early return leaves no new entry; an emptied collection goes.
LEMMA CollectionInv ==
  ASSUME Inv, NEW k \in Keys, Collection(k)
  PROVE  Inv'
<1>1. PICK t \in 0..now, op \in CollOps :
       LET s == ensured(live(shard, k, t), k, type_of_op[op])
       IN  IF s.map[k].type # type_of_op[op]
           THEN Release(s)
           ELSE \E after \in after_sizes(op, s.map[k].size) :
                  IF after = 0 THEN Release(mutated(s, k, after))
                               ELSE Enforce(mutated(s, k, after))
  BY DEF Collection
<1> DEFINE l == live(shard, k, t)
           ty == type_of_op[op]
           s == ensured(l, k, ty)
<1>2. ShardOK(l) /\ Solid(l.map) /\ l.bytes <= shard.bytes /\ l.map \in EntryMap
  BY LookupInv
<1>3. lock = "free"
  BY DEF Collection
<1>4. ty \in Types
  BY ShardAssumption DEF type_of_op, Types, Collections
<1>5. IF s.map[k].type # ty THEN Release(s)
      ELSE \E after \in after_sizes(op, s.map[k].size) :
             IF after = 0 THEN Release(mutated(s, k, after))
                          ELSE Enforce(mutated(s, k, after))
  BY <1>1
<1> HIDE DEF l, ty
<1>6. /\ ShardOK(s) /\ k \in DOMAIN s.map
      /\ \/ k \in DOMAIN l.map /\ s = l
         \/ /\ k \notin DOMAIN l.map /\ s.map[k].type = ty
            /\ \E f \in Entry : s.map = map_insert(l.map, k, f)
  BY <1>2, <1>4, EnsuredOK
<1> HIDE DEF s
<1>7. CASE s.map[k].type # ty
  <2>1. s = l
    BY <1>6, <1>7
  <2> QED BY <1>2, <1>3, <1>5, <1>7, <2>1, ReleaseInv
<1>8. CASE s.map[k].type = ty
  <2>1. PICK after \in after_sizes(op, s.map[k].size) :
          IF after = 0 THEN Release(mutated(s, k, after))
                       ELSE Enforce(mutated(s, k, after))
    BY <1>5, <1>8
  <2>2. after \in Sizes \cup {0}
    BY DEF after_sizes
  <2> DEFINE u == mutated(s, k, after)
  <2>3. /\ ShardOK(u)
        /\ after = 0 => u.map = map_remove(s.map, k)
        /\ after # 0 => \E e \in Entry : SolidEntry(e) /\ u.map = map_insert(s.map, k, e)
    BY <1>6, <2>2, MutatedOK
  <2>4. IF after = 0 THEN Release(u) ELSE Enforce(u)
    BY <2>1
  <2> HIDE DEF u
  <2>5. CASE after = 0
    <3>1. u.map = map_remove(l.map, k)
      BY <1>2, <1>6, <2>3, <2>5, MapAlgebra
    <3>2. Solid(u.map)
      BY <1>2, <3>1, SolidRemove
    <3>3. u.bytes <= shard.bytes
      <4>1. Weight(map_remove(l.map, k)) <= Weight(l.map)
        <5>1. CASE k \in DOMAIN l.map
          BY <1>2, <5>1, WeightRemove, ShardFields
        <5>2. CASE k \notin DOMAIN l.map
          <6>1. map_remove(l.map, k) = l.map
            BY <1>2, <5>2, EntryMapDef DEF map_remove
          <6>2. Weight(l.map) \in Nat
            BY <1>2, ShardFields
          <6> QED BY <6>1, <6>2
        <5> QED BY <5>1, <5>2
      <4>2. u.bytes = Weight(u.map) /\ l.bytes = Weight(l.map)
        BY <1>2, <2>3 DEF ShardOK
      <4>3. u.bytes \in Nat /\ l.bytes \in Nat /\ shard.bytes \in Nat
        BY <1>2, <2>3, ShardFields DEF Inv
      <4>4. u.bytes <= l.bytes
        BY <3>1, <4>1, <4>2
      <4> QED BY <1>2, <4>3, <4>4
    <3> QED BY <1>3, <2>3, <2>4, <2>5, <3>2, <3>3, ReleaseInv
  <2>6. CASE after # 0
    <3>1. \E e \in Entry : SolidEntry(e) /\ u.map = map_insert(l.map, k, e)
      <4>1. PICK e \in Entry : SolidEntry(e) /\ u.map = map_insert(s.map, k, e)
        BY <2>3, <2>6
      <4>2. map_insert(s.map, k, e) = map_insert(l.map, k, e)
        BY <1>2, <1>6, MapAlgebra
      <4> QED BY <4>1, <4>2
    <3>2. Solid(u.map)
      BY <1>2, <3>1, SolidInsert
    <3> QED BY <1>3, <2>3, <2>4, <2>6, <3>2, EnforceInv
  <2> QED BY <2>5, <2>6
<1> QED BY <1>7, <1>8

\* FLUSHALL.
LEMMA FlushAllInv ==
  ASSUME Inv, FlushAll
  PROVE  Inv'
<1>1. ShardOK(shard_new) /\ Solid(shard_new.map)
  BY ShardNewOK DEF Solid, map_new
<1>2. shard_new.bytes <= shard.bytes
  <2>1. shard.bytes \in Nat
    BY ShardFields DEF Inv
  <2> QED BY <2>1 DEF shard_new
<1> QED BY <1>1, <1>2, ReleaseInv DEF FlushAll

\* The sweep collects keys that are there and have expired, and stay so ...
LEMMA PurgeInv ==
  ASSUME Inv, Purge
  PROVE  Inv'
<1>1. PICK t \in 0..now :
        /\ purging' = {k \in DOMAIN shard.map : expired(shard.map[k], t)}
        /\ purging' # {}
        /\ lock' = "purge" /\ shard' = shard /\ now' = now
  BY DEF Purge
<1>2. DOMAIN shard.map \subseteq Keys
  BY ShardFields DEF Inv
<1>3. \A k \in purging' : expired(shard.map[k], now)
  <2> SUFFICES ASSUME NEW k \in purging' PROVE expired(shard.map[k], now)
    OBVIOUS
  <2>1. k \in DOMAIN shard.map /\ expired(shard.map[k], t)
    BY <1>1
  <2>2. shard.map[k].expire_at \in Deadlines \cup {None}
    BY <2>1, ShardFields, EntryFields DEF Inv
  <2>3. now \in Nat /\ t \in Nat /\ t <= now
    BY EntryAssumption DEF Inv, Times
  <2>4. shard.map[k].expire_at \in Nat
    BY <2>1, <2>2, EntryAssumption DEF expired, Deadlines
  <2> QED BY <2>1, <2>3, <2>4 DEF expired
<1>4. PurgeValid'
  BY <1>1, <1>3 DEF PurgeValid
<1>5. WithinBudget'
  BY <1>1 DEF WithinBudget, Inv, Purge
<1> QED BY <1>1, <1>2, <1>4, <1>5 DEF Inv

\* ... and drops each once.
LEMMA PurgeStepInv ==
  ASSUME Inv, PurgeStep
  PROVE  Inv'
<1>1. PICK k \in purging : /\ shard' = drop_key(shard, k)
                           /\ purging' = purging \ {k}
  BY DEF PurgeStep
<1>2. lock = "purge" /\ now' = now /\ lock' = IF purging' = {} THEN "free" ELSE "purge"
  BY DEF PurgeStep
<1>3. k \in Keys /\ k \in DOMAIN shard.map
  BY DEF Inv, PurgeValid
<1>4. /\ ShardOK(shard') /\ shard'.map = map_remove(shard.map, k)
      /\ shard'.bytes <= shard.bytes
  BY <1>1, <1>3, DropKeyOK, DropKeyLighter DEF Inv
<1>5. Solid(shard'.map)
  BY <1>4, SolidRemove, ShardFields DEF Inv
<1>6. PurgeValid'
  <2>1. \A j \in purging' : j \in DOMAIN shard'.map /\ shard'.map[j] = shard.map[j]
    BY <1>1, <1>4 DEF Inv, PurgeValid, map_remove
  <2>2. \A j \in purging' : expired(shard'.map[j], now')
    BY <1>1, <1>2, <2>1 DEF Inv, PurgeValid
  <2> QED BY <1>2, <2>1, <2>2 DEF PurgeValid
<1>7. WithinBudget'
  <2>1. Budget # 0 => shard.bytes <= Budget
    BY <1>2 DEF Inv, WithinBudget
  <2>2. shard'.bytes \in Nat /\ shard.bytes \in Nat /\ Budget \in Nat
    BY <1>4, ShardFields, ShardAssumption DEF Inv
  <2> QED BY <1>4, <2>1, <2>2 DEF WithinBudget
<1> QED BY <1>1, <1>2, <1>4, <1>5, <1>6, <1>7 DEF Inv

\* One turn of the eviction loop.
LEMMA EnforceStepInv ==
  ASSUME Inv, EnforceStep
  PROVE  Inv'
<1> DEFINE u == enforce_step(shard)
<1>1. lock = "enforce" /\ Enforce(u)
  BY DEF EnforceStep
<1>2. over_budget(shard) /\ ShardOK(shard) /\ Solid(shard.map) /\ shard.map \in EntryMap
  BY <1>1, ShardFields DEF Inv
<1>3. ShardOK(u) /\ Solid(u.map)
  BY <1>2, EnforceStepOK, SolidRemove
<1> HIDE DEF u
<1> QED BY <1>1, <1>3, EnforceInv

\* Time only makes more entries expire.
LEMMA TickInv ==
  ASSUME Inv, Tick
  PROVE  Inv'
<1>1. now < MaxTime /\ now' = now + 1 /\ UNCHANGED <<shard, lock, purging>>
  BY DEF Tick
<1>2. now \in Nat /\ MaxTime \in Nat /\ now' \in Times
  BY <1>1, EntryAssumption DEF Inv, Times
<1>3. PurgeValid'
  <2> SUFFICES ASSUME NEW k \in purging PROVE expired(shard.map[k], now')
    BY <1>1 DEF Inv, PurgeValid
  <2>1. k \in DOMAIN shard.map /\ expired(shard.map[k], now)
    BY DEF Inv, PurgeValid
  <2>2. shard.map[k].expire_at \in Deadlines \cup {None}
    BY <2>1, ShardFields, EntryFields DEF Inv
  <2>3. shard.map[k].expire_at \in Nat
    BY <2>1, <2>2, EntryAssumption DEF expired, Deadlines
  <2> QED BY <1>1, <1>2, <2>1, <2>3 DEF expired
<1> QED BY <1>1, <1>2, <1>3 DEF Inv, WithinBudget, over_budget

\* A new shard satisfies the invariant.
LEMMA InitInv == Init => Inv
<1> SUFFICES ASSUME Init PROVE Inv
  OBVIOUS
<1>1. ShardOK(shard) /\ Solid(shard.map)
  BY ShardNewOK DEF Init, Solid, map_new
<1>2. shard.bytes = 0 /\ Budget \in Nat /\ MaxTime \in Nat
  BY ShardAssumption, EntryAssumption DEF Init, shard_new
<1> QED BY <1>1, <1>2 DEF Init, Inv, PurgeValid, WithinBudget, Times

\* No action breaks the invariant.
LEMMA NextInv == Inv /\ [Next]_vars => Inv'
<1> SUFFICES ASSUME Inv, [Next]_vars PROVE Inv'
  OBVIOUS
<1>1. ASSUME NEW k \in Keys, Operation(k) PROVE Inv'
  <2>1. CASE IncrBy(k)
    BY <2>1, StringWriteInv DEF IncrBy
  <2>2. CASE AppendTo(k)
    BY <2>2, StringWriteInv DEF AppendTo
  <2> QED BY <1>1, <2>1, <2>2, ReadInv, ProbeInv, SetInv, DelInv, ExpireAtInv,
             CollectionInv DEF Operation
<1>2. CASE UNCHANGED vars
  BY <1>2 DEF vars, Inv, PurgeValid, WithinBudget, over_budget
<1> QED BY <1>1, <1>2, FlushAllInv, PurgeInv, PurgeStepInv, EnforceStepInv, TickInv
        DEF Next

\* Every reachable shard satisfies the invariant (store.rs, s3fifo.rs).
THEOREM Invariance == Spec => []Inv
  BY InitInv, NextInv, PTL DEF Spec

\* The fields keep their types; the byte counter, a usize, never goes below 0.
THEOREM TypeCorrect == Spec => []TypeOK
<1>1. Inv => TypeOK
  BY DEF Inv, TypeOK, ShardOK
<1> QED BY <1>1, Invariance, PTL

\* The policy tracks exactly the keys of the map (s3fifo.rs:68).
THEOREM PolicyTracking == Spec => []PolicyTracksMap
<1>1. Inv => PolicyTracksMap
  BY DEF Inv, PolicyTracksMap, ShardOK
<1> QED BY <1>1, Invariance, PTL

\* The policy's counters are exact, whatever stale references the queues hold.
THEOREM PolicySound == Spec => []CountsExact
<1>1. Inv => CountsExact
  BY DEF Inv, CountsExact, ShardOK, PolicyOK
<1> QED BY <1>1, Invariance, PTL

\* Every live key can be reached from the queue its metadata names: the
\* reconciling branches of step_small and step_main never forget one.
THEOREM LiveKeysReachable == Spec => []LiveKeysQueued
<1>1. Inv => LiveKeysQueued
  BY DEF Inv, LiveKeysQueued, ShardOK, PolicyOK
<1> QED BY <1>1, Invariance, PTL

\* The ghost set is disjoint from the live keys and backed by its queue.
THEOREM GhostsDisjoint == Spec => []GhostSound
<1>1. Inv => GhostSound
  BY DEF Inv, GhostSound, ShardOK, PolicyOK
<1> QED BY <1>1, Invariance, PTL

\* The byte counter is the weight of the entries, always.
THEOREM BytesCorrect == Spec => []BytesExact
<1>1. Inv => BytesExact
  BY DEF Inv, BytesExact, ShardOK
<1> QED BY <1>1, Invariance, PTL

\* A shard that is not evicting is within its budget: enforce_budget cannot
\* give up early, because an empty policy means an empty map.
THEOREM BudgetKept == Spec => []WithinBudget
<1>1. Inv => WithinBudget
  BY DEF Inv
<1> QED BY <1>1, Invariance, PTL

\* No operation leaves an empty collection behind.
THEOREM CollectionsNonEmpty == Spec => []NoEmptyCollection
<1>1. Inv => NoEmptyCollection
  BY DEF Inv, NoEmptyCollection, Solid, SolidEntry
<1> QED BY <1>1, Invariance, PTL

\* What the sweep is about to drop is there and has expired.
THEOREM PurgeSound == Spec => []PurgeValid
<1>1. Inv => PurgeValid
  BY DEF Inv
<1> QED BY <1>1, Invariance, PTL

-----------------------------------------------------------------------------
(* The shard implements the bounded cache *)

\* m is the shard's map with the entry of k replaced, removed or left alone.
OneKey(k, m) ==
  \/ m = shard.map
  \/ m = map_remove(shard.map, k)
  \/ \E e \in Entry : m = map_insert(shard.map, k, e)

\* After the lookup that starts an operation on k, writing and removing k are
\* still changes of k alone.
LEMMA LookupOneKey ==
  ASSUME Inv, NEW k \in Keys, NEW t
  PROVE  LET l == live(shard, k, t).map
         IN  /\ OneKey(k, l)
             /\ OneKey(k, map_remove(l, k))
             /\ \A e \in Entry : OneKey(k, map_insert(l, k, e))
<1> DEFINE l == live(shard, k, t).map
<1>1. shard.map \in EntryMap
  BY ShardFields DEF Inv
<1>2. l \in {shard.map, map_remove(shard.map, k)}
  BY LiveOK DEF Inv
<1> HIDE DEF l
<1>3. OneKey(k, l)
  BY <1>2 DEF OneKey
<1>4. OneKey(k, map_remove(l, k))
  <2>1. map_remove(map_remove(shard.map, k), k) = map_remove(shard.map, k)
    BY DEF map_remove
  <2> QED BY <1>2, <2>1 DEF OneKey
<1>5. ASSUME NEW e \in Entry PROVE OneKey(k, map_insert(l, k, e))
  BY <1>1, <1>2, MapAlgebra DEF OneKey
<1> QED BY <1>3, <1>4, <1>5 DEF l

\* Every operation changes at most the entry of the key it names, and leaves
\* the lock free or held by the eviction loop.
LEMMA OperationOneKey ==
  ASSUME Inv, NEW k \in Keys, Operation(k)
  PROVE  /\ lock = "free" /\ lock' \in {"free", "enforce"} /\ now' = now
         /\ OneKey(k, shard'.map)
<1> USE DEF Release, Enforce
<1>1. /\ lock = "free" /\ lock' \in {"free", "enforce"} /\ now' = now
  BY DEF Operation, Read, Probe, Set, Del, ExpireAt, IncrBy, AppendTo, Collection
<1>2. ASSUME NEW t
      PROVE  LET l == live(shard, k, t)
             IN  /\ ShardOK(l) /\ Solid(l.map) /\ l.map \in EntryMap
                 /\ OneKey(k, l.map)
                 /\ OneKey(k, map_remove(l.map, k))
                 /\ \A e \in Entry : OneKey(k, map_insert(l.map, k, e))
  BY LookupInv, LookupOneKey
<1> SUFFICES OneKey(k, shard'.map)
  BY <1>1
<1>3. CASE Read(k)
  <2>1. PICK t : shard'.map = live(shard, k, t).map
    <3>1. PICK t \in 0..now :
            \/ shard' = touch_key(live(shard, k, t), k)
            \/ shard' = live(shard, k, t)
      BY <1>3 DEF Read, hit
    <3>2. touch_key(live(shard, k, t), k).map = live(shard, k, t).map
      BY <1>2, TouchKeyOK
    <3> QED BY <3>1, <3>2
  <2> QED BY <1>2, <2>1
<1>4. CASE Probe(k)
  <2>1. PICK t : shard' = live(shard, k, t)
    BY <1>4 DEF Probe
  <2> QED BY <1>2, <2>1
<1>5. CASE Set(k)
  <2>1. PICK t \in 0..now, size \in Sizes, opts \in SetOptions :
          \/ shard' = live(shard, k, t)
          \/ shard' = set(live(shard, k, t), k, size, opts)
    BY <1>5 DEF Set
  <2>2. \E e \in Entry : set(live(shard, k, t), k, size, opts).map
                           = map_insert(live(shard, k, t).map, k, e)
    BY <1>2, SetOK
  <2> QED BY <1>2, <2>1, <2>2
<1>6. CASE Del(k)
  <2>1. PICK t : shard' = drop_key(live(shard, k, t), k)
    BY <1>6 DEF Del
  <2>2. shard'.map = map_remove(live(shard, k, t).map, k)
    BY <1>2, <2>1, DropKeyOK
  <2> QED BY <1>2, <2>2
<1>7. CASE ExpireAt(k)
  <2>1. PICK t \in 0..now, at \in Deadlines \cup {None} :
          LET s == live(shard, k, t)
          IN  shard' = IF k \in DOMAIN s.map
                       THEN [s EXCEPT !.map[k].expire_at = at] ELSE s
    BY <1>7 DEF ExpireAt
  <2> DEFINE s == live(shard, k, t)
             u == [s EXCEPT !.map[k].expire_at = at]
  <2>2. shard' = IF k \in DOMAIN s.map THEN u ELSE s
    BY <2>1
  <2>3. ASSUME k \in DOMAIN s.map
        PROVE  \E e \in Entry : u.map = map_insert(s.map, k, e)
    <3>1. ShardOK(s) /\ Solid(s.map)
      BY <1>2
    <3> HIDE DEF s
    <3>2. \E e \in Entry : SolidEntry(e) /\ u.map = map_insert(s.map, k, e)
      <4>1. at \in Deadlines \cup {None} /\ k \in DOMAIN s.map
        BY <2>3
      <4> QED BY <3>1, <4>1, DeadlineOK, ZenonT(40)
    <3> HIDE DEF u
    <3> QED BY <3>2
  <2>4. /\ OneKey(k, s.map)
        /\ \A e \in Entry : OneKey(k, map_insert(s.map, k, e))
    BY <1>2
  <2> HIDE DEF s, u
  <2> QED BY <2>2, <2>3, <2>4
<1>8. CASE IncrBy(k) \/ AppendTo(k)
  <2>1. PICK t \in 0..now :
          \/ shard' = live(shard, k, t)
          \/ \E size \in Sizes : shard' = restore(live(shard, k, t), k, size)
    BY <1>8 DEF IncrBy, AppendTo
  <2>2. ASSUME NEW size \in Sizes
        PROVE  \E e \in Entry : restore(live(shard, k, t), k, size).map
                                  = map_insert(live(shard, k, t).map, k, e)
    BY <1>2, RestoreOK
  <2> QED BY <1>2, <2>1, <2>2
<1>9. CASE Collection(k)
  <2>1. PICK t \in 0..now, op \in CollOps :
          LET s == ensured(live(shard, k, t), k, type_of_op[op])
          IN  IF s.map[k].type # type_of_op[op] THEN shard' = s
              ELSE \E after \in after_sizes(op, s.map[k].size) :
                     shard' = mutated(s, k, after)
    BY <1>9 DEF Collection
  <2> DEFINE l == live(shard, k, t)
             ty == type_of_op[op]
             s == ensured(l, k, ty)
  <2>2. ty \in Types
    BY ShardAssumption DEF type_of_op, Types, Collections
  <2>3. /\ ShardOK(l) /\ l.map \in EntryMap
        /\ OneKey(k, l.map)
        /\ OneKey(k, map_remove(l.map, k))
        /\ \A e \in Entry : OneKey(k, map_insert(l.map, k, e))
    BY <1>2
  <2>4. \/ shard' = s
        \/ \E after \in Sizes \cup {0} : shard' = mutated(s, k, after)
    <3>1. \A before : after_sizes(op, before) \subseteq Sizes \cup {0}
      BY DEF after_sizes
    <3> QED BY <2>1, <3>1
  <2> HIDE DEF l, ty
  <2>5. /\ ShardOK(s) /\ k \in DOMAIN s.map
        /\ s.map = l.map \/ \E f \in Entry : s.map = map_insert(l.map, k, f)
    BY <2>2, <2>3, EnsuredOK
  <2> HIDE DEF s
  <2>6. OneKey(k, s.map)
    BY <2>3, <2>5
  <2>7. ASSUME NEW after \in Sizes \cup {0} PROVE OneKey(k, mutated(s, k, after).map)
    <3>1. \/ mutated(s, k, after).map = map_remove(s.map, k)
          \/ \E e \in Entry : mutated(s, k, after).map = map_insert(s.map, k, e)
      BY <2>5, MutatedOK
    <3>2. map_remove(s.map, k) = map_remove(l.map, k)
      BY <2>3, <2>5, MapAlgebra
    <3>3. \A e \in Entry : map_insert(s.map, k, e) = map_insert(l.map, k, e)
      BY <2>3, <2>5, MapAlgebra
    <3> QED BY <2>3, <3>1, <3>2, <3>3
  <2> QED BY <2>4, <2>6, <2>7
<1> QED BY <1>3, <1>4, <1>5, <1>6, <1>7, <1>8, <1>9 DEF Operation

\* The cache's maps, entries and weights are the shard's.
LEMMA CacheOperators ==
  /\ Cache!map_new = map_new
  /\ Cache!Entry = Entry
  /\ \A m, k, e : Cache!map_insert(m, k, e) = map_insert(m, k, e)
  /\ \A m, k : Cache!map_remove(m, k) = map_remove(m, k)
  /\ \A m : Cache!Weight(m) = Weight(m)
  /\ \A e, t : Cache!expired(e, t) = expired(e, t)
<1>1. Cache!map_new = map_new
  BY DEF Cache!map_new, map_new
<1>2. Cache!Entry = Entry
  BY DEF Cache!Entry, Entry, Cache!Types, Types, Cache!Collections, Collections,
         Cache!Deadlines, Deadlines
<1>3. ASSUME NEW m, NEW k, NEW e PROVE Cache!map_insert(m, k, e) = map_insert(m, k, e)
  BY DEF Cache!map_insert, map_insert
<1>4. ASSUME NEW m, NEW k PROVE Cache!map_remove(m, k) = map_remove(m, k)
  BY DEF Cache!map_remove, map_remove
<1>5. ASSUME NEW m PROVE Cache!Weight(m) = Weight(m)
  <2>1. Cache!Footprint(m) = Footprint(m)
    BY DEF Cache!Footprint, Footprint, Cache!entry_bytes, entry_bytes
  <2>2. \A S : Cache!Cardinality(S) = Cardinality(S)
    BY DEF Cache!Cardinality, Cardinality
  <2> QED BY <2>1, <2>2 DEF Cache!Weight, Weight
<1>6. ASSUME NEW e, NEW t PROVE Cache!expired(e, t) = expired(e, t)
  BY DEF Cache!expired, expired
<1> QED BY <1>1, <1>2, <1>3, <1>4, <1>5, <1>6

\* Open or evicting, the shard is in the phase the weight of its entries asks for.
LEMMA SettledPhase ==
  ASSUME NEW s, ShardOK(s), NEW l \in {"free", "enforce"},
         l # "enforce" /\ Budget # 0 => s.bytes <= Budget,
         l = "enforce" => over_budget(s)
  PROVE  l = Cache!Settled(s.map)
<1>1. s.bytes \in Nat /\ Budget \in Nat /\ s.bytes = Weight(s.map)
  BY ShardFields, ShardAssumption
<1>2. Cache!Weight(s.map) = s.bytes
  BY <1>1, CacheOperators
<1> QED BY <1>1, <1>2 DEF over_budget, Cache!Settled

\* Every step of the shard is a step of the bounded cache, or changes nothing
\* it can see (a refused write, a hit, a promotion, a second chance).
LEMMA StepImplements ==
  ASSUME Inv, Inv', [Next]_vars
  PROVE  [Cache!Next]_(Cache!vars)
<1> USE DEF Cache!vars
<1>0. /\ shard.map \in EntryMap
      /\ lock \in {"free", "enforce"} => lock = Cache!Settled(shard.map)
      /\ lock' \in {"free", "enforce"} => lock' = Cache!Settled(shard'.map)
  <2>1. shard.map \in EntryMap
    BY ShardFields DEF Inv
  <2>2. lock \in {"free", "enforce"} => lock = Cache!Settled(shard.map)
    BY SettledPhase DEF Inv, WithinBudget
  <2>3. /\ ShardOK(shard')
        /\ lock' # "enforce" /\ Budget # 0 => shard'.bytes <= Budget
        /\ lock' = "enforce" => over_budget(shard')
    BY DEF Inv, WithinBudget
  <2>4. lock' \in {"free", "enforce"} => lock' = Cache!Settled(shard'.map)
    BY <2>3, SettledPhase
  <2> QED BY <2>1, <2>2, <2>4
<1>1. ASSUME NEW k \in Keys, Operation(k) PROVE [Cache!Next]_(Cache!vars)
  <2>1. /\ lock = "free" /\ lock' \in {"free", "enforce"} /\ now' = now
        /\ OneKey(k, shard'.map)
    BY <1>1, OperationOneKey
  <2>2. CASE shard'.map = shard.map
    <3>1. lock' = lock
      BY <1>0, <2>1, <2>2
    <3> QED BY <2>1, <2>2, <3>1
  <2>3. CASE shard'.map # shard.map
    <3>1. Cache!Apply(k)
      BY <1>0, <2>1, <2>3, CacheOperators DEF Cache!Apply, OneKey
    <3> QED BY <3>1 DEF Cache!Next
  <2> QED BY <2>2, <2>3
<1>2. CASE FlushAll
  <2>1. shard' = shard_new /\ lock = "free" /\ lock' = "free" /\ now' = now
    BY <1>2 DEF FlushAll, Release
  <2>2. shard'.map = map_new
    BY <2>1, ShardNewOK
  <2> QED BY <2>1, <2>2, CacheOperators DEF Cache!Next, Cache!Flush
<1>3. CASE Purge
  BY <1>3 DEF Purge, Cache!Next, Cache!StartPurge
<1>4. CASE PurgeStep
  <2>1. PICK k \in purging : shard' = drop_key(shard, k)
    BY <1>4 DEF PurgeStep
  <2>2. lock = "purge" /\ lock' \in {"purge", "free"} /\ now' = now
    BY <1>4 DEF PurgeStep
  <2>3. k \in Keys /\ k \in DOMAIN shard.map /\ expired(shard.map[k], now)
    BY DEF Inv, PurgeValid
  <2>4. shard'.map = map_remove(shard.map, k)
    BY <2>1, <2>3, DropKeyOK DEF Inv
  <2>5. Cache!Expire(k)
    BY <2>2, <2>3, <2>4, CacheOperators DEF Cache!Expire
  <2> QED BY <2>3, <2>5 DEF Cache!Next
<1>5. CASE EnforceStep
  <2>1. /\ lock = "enforce" /\ lock' \in {"free", "enforce"} /\ now' = now
        /\ shard' = enforce_step(shard)
    BY <1>5 DEF EnforceStep, Enforce
  <2>2. ShardOK(shard) /\ over_budget(shard) /\ DOMAIN shard.map \subseteq Keys
    BY <2>1, ShardFields DEF Inv
  <2>3. \/ shard'.map = shard.map
        \/ \E v \in DOMAIN shard.map : shard'.map = map_remove(shard.map, v)
    BY <2>1, <2>2, EnforceStepOK
  <2>4. CASE shard'.map = shard.map
    <3> QED BY <1>0, <2>1, <2>4
  <2>5. CASE \E v \in DOMAIN shard.map : shard'.map = map_remove(shard.map, v)
    <3>1. PICK v \in DOMAIN shard.map : shard'.map = map_remove(shard.map, v)
      BY <2>5
    <3>2. Cache!Evict(v)
      BY <1>0, <2>1, <3>1, CacheOperators DEF Cache!Evict
    <3> QED BY <2>2, <3>2 DEF Cache!Next
  <2> QED BY <2>3, <2>4, <2>5
<1>6. CASE Tick
  BY <1>6 DEF Tick, Cache!Next, Cache!Advance
<1>7. CASE UNCHANGED vars
  BY <1>7 DEF vars
<1> QED BY <1>1, <1>2, <1>3, <1>4, <1>5, <1>6, <1>7 DEF Next

\* A new shard is an empty cache.
LEMMA InitImplements == Init => Cache!Init
  BY ShardNewOK, CacheOperators DEF Init, Cache!Init

\* The shard implements the bounded cache: with its queues, counters, lazy
\* deletion and byte differences it does to the entries only what the abstract
\* specification allows, and opens to clients only when their true weight is
\* within the budget (enforce_budget, evict_one, live, purge_expired).
THEOREM Refinement == Spec => ImplementsCache
<1>1. Inv /\ Inv' /\ [Next]_vars => [Cache!Next]_(Cache!vars)
  BY StepImplements
<1> QED BY <1>1, InitImplements, Invariance, PTL DEF Spec, ImplementsCache, Cache!Spec
=============================================================================
