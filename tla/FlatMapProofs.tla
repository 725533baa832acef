--------------------------- MODULE FlatMapProofs ----------------------------
(***************************************************************************)
(* The flat hash table is a map, for every hash function and every size:   *)
(* searches end, deletion by backward shift leaves no gap in a probe       *)
(* sequence, and each call does what KeyMap.tla says.                      *)
(***************************************************************************)
EXTENDS FlatMap, Numbers

-----------------------------------------------------------------------------
(* Indices                                                                 *)

\* i lies on the way from h to j, going up and around the end of the table.
Between(h, j, i) == IF h <= j THEN h <= i /\ i <= j ELSE h <= i \/ i <= j

\* Going up by at most one round wraps once.
LEMMA WrapUp ==
  ASSUME NEW c \in Nat, c > 0, NEW a \in 0..(c - 1), NEW n \in 0..c
  PROVE  (a + n) % c = IF a + n < c THEN a + n ELSE a + n - c
<1>1. CASE a + n < c
  <2>1. a + n \in 0..(c - 1)
    BY <1>1
  <2>2. \A x \in 0..(c - 1) : x % c = x
    OBVIOUS
  <2> QED BY <2>1, <2>2, <1>1
<1>2. CASE ~(a + n < c)
  <2>1. a + n \in c..(2 * c - 1)
    BY <1>2
  <2>2. \A x \in c..(2 * c - 1) : x % c = x - c
    OBVIOUS
  <2> QED BY <2>1, <2>2, <1>2
<1> QED BY <1>1, <1>2

\* The distance from a up to b.
LEMMA WrapDown ==
  ASSUME NEW c \in Nat, c > 0, NEW a \in 0..(c - 1), NEW b \in 0..(c - 1)
  PROVE  (b - a) % c = IF a <= b THEN b - a ELSE b - a + c
<1>1. CASE a <= b
  <2>1. b - a \in 0..(c - 1)
    BY <1>1
  <2>2. \A x \in 0..(c - 1) : x % c = x
    OBVIOUS
  <2> QED BY <2>1, <2>2, <1>1
<1>2. CASE ~(a <= b)
  <2>1. b - a \in (-c)..(-1)
    BY <1>2
  <2>2. \A x \in (-c)..(-1) : x % c = x + c
    OBVIOUS
  <2> QED BY <2>1, <2>2, <1>2
<1> QED BY <1>1, <1>2

\* The slots at the distances up to that of b from a are those between them.
LEMMA PathBetween ==
  ASSUME NEW c \in Nat, c > 0, NEW a \in 0..(c - 1), NEW b \in 0..(c - 1)
  PROVE  {(a + n) % c : n \in 0..((b - a) % c)} = {i \in 0..(c - 1) : Between(a, b, i)}
<1> DEFINE d == IF a <= b THEN b - a ELSE b - a + c
           P == {(a + n) % c : n \in 0..d}
           B == {i \in 0..(c - 1) : Between(a, b, i)}
<1>1. d = (b - a) % c /\ d \in 0..(c - 1)
  BY WrapDown
<1>2. ASSUME NEW n \in 0..d PROVE (a + n) % c \in B
  <2>1. n \in 0..c
    BY <1>1
  <2>2. (a + n) % c = IF a + n < c THEN a + n ELSE a + n - c
    BY <2>1, WrapUp
  <2> DEFINE x == IF a + n < c THEN a + n ELSE a + n - c
  <2>3. x \in 0..(c - 1) /\ Between(a, b, x)
    BY <2>1 DEF Between
  <2> QED BY <2>2, <2>3
<1>3. ASSUME NEW i \in B PROVE i \in P
  <2> DEFINE n == IF a <= i THEN i - a ELSE i - a + c
  <2>1. n \in 0..d /\ n \in 0..c /\ i = (IF a + n < c THEN a + n ELSE a + n - c)
    BY DEF Between
  <2>2. (a + n) % c = i
    BY <2>1, WrapUp
  <2> QED BY <2>1, <2>2
<1>4. P = B
  BY <1>2, <1>3
<1> QED BY <1>1, <1>4

-----------------------------------------------------------------------------
(* Tables                                                                  *)

IsTable(sl) == \E n \in Nat : sl \in [0..(n - 1) -> Slot \cup {None}]

\* The capacity of a table is its number of slots.
LEMMA TableShape ==
  ASSUME NEW sl, IsTable(sl)
  PROVE  /\ capacity(sl) \in Nat
         /\ sl \in [0..(capacity(sl) - 1) -> Slot \cup {None}]
         /\ DOMAIN sl = 0..(capacity(sl) - 1)
         /\ IsFiniteSet(DOMAIN sl)
<1>1. PICK n \in Nat : sl \in [0..(n - 1) -> Slot \cup {None}]
  BY DEF IsTable
<1>2. DOMAIN sl = 0..(n - 1) /\ 0 \in Int /\ n - 1 \in Int
  BY <1>1
<1>3. Cardinality(0..(n - 1)) = IF 0 > n - 1 THEN 0 ELSE (n - 1) - 0 + 1
  BY <1>2, FS_Interval
<1>4. IsFiniteSet(0..(n - 1))
  BY <1>2, FS_Interval
<1>5. Cardinality(0..(n - 1)) = n
  BY <1>3
<1> QED BY <1>1, <1>2, <1>4, <1>5 DEF capacity

\* A new table is one without entries.
LEMMA NewTable ==
  ASSUME NEW n \in Nat
  PROVE  IsTable(table(n)) /\ capacity(table(n)) = n /\ Occupied(table(n)) = {}
<1>1. IsTable(table(n))
  BY DEF IsTable, table
<1>2. DOMAIN table(n) = 0..(n - 1) /\ DOMAIN table(n) = 0..(capacity(table(n)) - 1)
      /\ capacity(table(n)) \in Nat
  BY <1>1, TableShape DEF table
<1>3. Occupied(table(n)) = {}
  BY DEF Occupied, table
<1>4. capacity(table(n)) = n
  <2>1. Cardinality(0..(n - 1)) = IF 0 > n - 1 THEN 0 ELSE (n - 1) - 0 + 1
    BY FS_Interval
  <2> QED BY <2>1, <1>2 DEF capacity
<1> QED BY <1>1, <1>3, <1>4

\* Writing a slot keeps a table.
LEMMA WriteSlot ==
  ASSUME NEW sl, IsTable(sl), NEW i \in DOMAIN sl, NEW e \in Slot \cup {None}
  PROVE  LET new == [sl EXCEPT ![i] = e]
         IN  /\ IsTable(new) /\ DOMAIN new = DOMAIN sl /\ capacity(new) = capacity(sl)
             /\ \A j \in DOMAIN sl : new[j] = IF j = i THEN e ELSE sl[j]
  BY DEF IsTable, capacity

\* Every key has a home slot.
LEMMA IdealSlot ==
  ASSUME hash \in [Keys -> 0..MaxHash], NEW sl, IsTable(sl), capacity(sl) > 0, NEW k \in Keys
  PROVE  ideal(k, sl) \in 0..(capacity(sl) - 1)
<1>1. capacity(sl) \in Nat /\ hash[k] \in Int
  BY TableShape, FlatMapAssumption
<1>2. \A c \in Nat, x \in Int : c > 0 => x % c \in 0..(c - 1)
  OBVIOUS
<1> QED BY <1>1, <1>2 DEF ideal

\* A search ends at the first slot, from the home slot on, that satisfies its
\* exit test, if there is one.
LEMMA ProbeFinds ==
  ASSUME hash \in [Keys -> 0..MaxHash], NEW sl, IsTable(sl), NEW k \in Keys,
         NEW stops, stops \subseteq DOMAIN sl, stops # {}
  PROVE  /\ probe(k, sl, stops) \in stops
         /\ \A i \in stops : Between(ideal(k, sl), probe(k, sl, stops), i)
                               => i = probe(k, sl, stops)
<1> DEFINE c == capacity(sl)
           h == ideal(k, sl)
           T == {n \in 0..(c - 1) : (h + n) % c \in stops}
           d == Min(T)
<1>1. c \in Nat /\ DOMAIN sl = 0..(c - 1)
  BY TableShape
<1>2. PICK e \in stops : TRUE
  OBVIOUS
<1>3. c > 0 /\ e \in 0..(c - 1)
  BY <1>1, <1>2
<1>4. h \in 0..(c - 1)
  BY <1>3, IdealSlot
<1> HIDE DEF c, h
<1>5. ASSUME NEW i \in 0..(c - 1)
      PROVE  LET n == IF h <= i THEN i - h ELSE i - h + c
             IN  n \in 0..(c - 1) /\ (h + n) % c = i
  <2> DEFINE n == IF h <= i THEN i - h ELSE i - h + c
  <2>1. n \in 0..(c - 1) /\ n \in 0..c /\ i = (IF h + n < c THEN h + n ELSE h + n - c)
    BY <1>1, <1>4
  <2>2. (h + n) % c = i
    BY <2>1, <1>1, <1>3, <1>4, WrapUp
  <2> QED BY <2>1, <2>2
<1>6. T \subseteq Nat /\ T # {}
  BY <1>1, <1>2, <1>3, <1>5
<1>7. d \in T /\ \A n \in T : d <= n
  <2> HIDE DEF T
  <2> QED BY <1>6, LeastMember DEF Min
<1> DEFINE p == (h + d) % c
<1>8. p = probe(k, sl, stops)
  BY DEF probe, c, h
<1>9. p \in stops /\ d \in 0..(c - 1)
  BY <1>7
<1>10. p = IF h + d < c THEN h + d ELSE h + d - c
  <2> HIDE DEF d
  <2>1. d \in 0..c
    BY <1>1, <1>9
  <2> QED BY <2>1, <1>1, <1>3, <1>4, WrapUp
<1>11. ASSUME NEW i \in stops, Between(h, p, i) PROVE i = p
  <2> DEFINE n == IF h <= i THEN i - h ELSE i - h + c
  <2>1. i \in 0..(c - 1)
    BY <1>1
  <2>2. n \in T
    BY <1>5, <2>1
  <2>3. d <= n
    BY <1>7, <2>2
  <2> HIDE DEF T, d, p
  <2> QED BY <2>1, <2>3, <1>1, <1>4, <1>9, <1>10, <1>11 DEF Between
<1> QED BY <1>8, <1>9, <1>11 DEF h

-----------------------------------------------------------------------------
(* Entries                                                                 *)

Stored(sl) == {sl[i] : i \in Occupied(sl)}

Unique(sl) == \A i, j \in Occupied(sl) : sl[i].key = sl[j].key => i = j

\* No gap between an entry's home slot and its place.
PathsWhole(sl) ==
  \A j \in Occupied(sl), i \in DOMAIN sl :
    Between(ideal(sl[j].key, sl), j, i) => sl[i] # None

Waiting == {j \in Occupied(old) : j >= at}

\* The image of a finite set has no more members, and as many if no two have
\* the same image.
LEMMA ImageFinite ==
  ASSUME NEW f, NEW S, IsFiniteSet(S)
  PROVE  LET T == {f[x] : x \in S}
         IN  /\ IsFiniteSet(T) /\ Cardinality(T) <= Cardinality(S)
             /\ (\A x, y \in S : f[x] = f[y] => x = y) => Cardinality(T) = Cardinality(S)
<1> DEFINE T == {f[x] : x \in S}
           g == [x \in S |-> f[x]]
<1>1. g \in Surjection(S, T)
  BY DEF Surjection
<1>2. IsFiniteSet(T) /\ Cardinality(T) <= Cardinality(S)
      /\ (Cardinality(T) = Cardinality(S) <=> g \in Injection(S, T))
  BY <1>1, FS_Surjection
<1>3. (\A x, y \in S : f[x] = f[y] => x = y) => g \in Injection(S, T)
  BY DEF Injection, IsInjective
<1> QED BY <1>2, <1>3

\* The occupied slots of a table are finitely many and hold entries.
LEMMA OccupiedSlots ==
  ASSUME NEW sl, IsTable(sl)
  PROVE  /\ IsFiniteSet(Occupied(sl)) /\ Occupied(sl) \subseteq DOMAIN sl
         /\ \A i \in Occupied(sl) : sl[i] \in Slot /\ sl[i].key \in Keys
         /\ Stored(sl) \subseteq Slot /\ IsFiniteSet(Stored(sl))
<1>1. IsFiniteSet(DOMAIN sl) /\ sl \in [DOMAIN sl -> Slot \cup {None}]
  BY TableShape
<1>2. Occupied(sl) \subseteq DOMAIN sl
  BY DEF Occupied
<1>3. IsFiniteSet(Occupied(sl))
  BY <1>1, <1>2, FS_Subset
<1>4. \A i \in Occupied(sl) : sl[i] \in Slot /\ sl[i].key \in Keys
  BY <1>1 DEF Occupied, Slot
<1>5. Stored(sl) \subseteq Slot
  BY <1>4 DEF Stored
<1>6. IsFiniteSet(Stored(sl))
  BY <1>3, ImageFinite DEF Stored
<1> QED BY <1>2, <1>3, <1>4, <1>5, <1>6

\* A search for a key in a sound table that has an empty slot ends at the key's
\* entry if there is one, and otherwise at the first gap after its home slot.
LEMMA LocateFinds ==
  ASSUME hash \in [Keys -> 0..MaxHash], NEW sl, IsTable(sl), PathsWhole(sl),
         empty(sl) # {}, NEW k \in Keys
  PROVE  /\ locate(k, sl) \in DOMAIN sl
         /\ sl[locate(k, sl)] = None => \A j \in Occupied(sl) : sl[j].key # k
         /\ sl[locate(k, sl)] # None => locate(k, sl) \in Occupied(sl) /\ sl[locate(k, sl)].key = k
         /\ \A i \in DOMAIN sl :
              Between(ideal(k, sl), locate(k, sl), i) /\ i # locate(k, sl) => sl[i] # None
<1> DEFINE p == locate(k, sl)
           stops == empty(sl) \cup holding(k, sl)
<1>1. stops \subseteq DOMAIN sl /\ stops # {}
  BY DEF empty, holding
<1>2. p \in stops /\ \A i \in stops : Between(ideal(k, sl), p, i) => i = p
  <2> HIDE DEF stops
  <2> QED BY <1>1, ProbeFinds DEF locate, stops
<1> HIDE DEF p
<1>3. p \in DOMAIN sl
  BY <1>1, <1>2
<1>4. \A i \in DOMAIN sl : Between(ideal(k, sl), p, i) /\ i # p => sl[i] # None
  BY <1>2 DEF empty
<1>5. sl[p] # None => p \in Occupied(sl) /\ sl[p].key = k
  BY <1>2, <1>3 DEF empty, holding, Occupied
<1>6. ASSUME sl[p] = None, NEW j \in Occupied(sl), sl[j].key = k PROVE FALSE
  <2> DEFINE c == capacity(sl)
             h == ideal(k, sl)
  <2>1. c \in Nat /\ DOMAIN sl = 0..(c - 1) /\ p \in 0..(c - 1) /\ j \in 0..(c - 1)
    BY <1>3, TableShape DEF Occupied
  <2>2. h \in 0..(c - 1)
    BY <2>1, IdealSlot
  <2>3. j \in stops
    BY <1>6, <1>3 DEF holding, Occupied, empty
  <2>4. ~Between(h, j, p)
    BY <1>3, <1>6 DEF PathsWhole
  <2>5. Between(h, p, j) => j = p
    BY <1>2, <2>3
  <2> HIDE DEF c, h
  <2> QED BY <2>1, <2>2, <2>4, <2>5 DEF Between
<1> QED BY <1>3, <1>4, <1>5, <1>6 DEF p

\* The table that an insertion into sl leaves.
Placed(k, v, sl) == [sl EXCEPT ![locate(k, sl)] = [key |-> k, value |-> v]]

\* Writing an entry where the search for its key ended leaves a sound table with
\* that entry in place of the key's previous one.
LEMMA PlaceTable ==
  ASSUME hash \in [Keys -> 0..MaxHash], NEW sl, IsTable(sl), PathsWhole(sl), Unique(sl),
         empty(sl) # {}, NEW k \in Keys, NEW v \in Vals
  PROVE  /\ IsTable(Placed(k, v, sl)) /\ capacity(Placed(k, v, sl)) = capacity(sl)
         /\ PathsWhole(Placed(k, v, sl)) /\ Unique(Placed(k, v, sl))
         /\ Stored(Placed(k, v, sl))
              = {f \in Stored(sl) : f.key # k} \cup {[key |-> k, value |-> v]}
         /\ sl[locate(k, sl)] = None <=> \A f \in Stored(sl) : f.key # k
<1> DEFINE e == [key |-> k, value |-> v]
           p == locate(k, sl)
           new == [sl EXCEPT ![p] = e]
<1>1. /\ p \in DOMAIN sl
      /\ sl[p] = None => \A j \in Occupied(sl) : sl[j].key # k
      /\ sl[p] # None => p \in Occupied(sl) /\ sl[p].key = k
      /\ \A i \in DOMAIN sl : Between(ideal(k, sl), p, i) /\ i # p => sl[i] # None
  BY LocateFinds
<1>2. e \in Slot /\ e.key = k /\ e # None
  BY FlatMapAssumption DEF Slot
<1> HIDE DEF p, e
<1>3. /\ IsTable(new) /\ DOMAIN new = DOMAIN sl /\ capacity(new) = capacity(sl)
      /\ \A j \in DOMAIN sl : new[j] = IF j = p THEN e ELSE sl[j]
  BY <1>1, <1>2, WriteSlot
<1> HIDE DEF new
<1>4. Occupied(new) = Occupied(sl) \cup {p}
  BY <1>1, <1>2, <1>3 DEF Occupied
<1>5. \A j \in Occupied(sl) : j # p => sl[j].key # k
  BY <1>1 DEF Unique
<1>6. Unique(new)
  BY <1>2, <1>3, <1>4, <1>5 DEF Unique, Occupied
<1>7. PathsWhole(new)
  <2> SUFFICES ASSUME NEW j \in Occupied(new), NEW i \in DOMAIN new,
                      Between(ideal(new[j].key, new), j, i)
               PROVE  new[i] # None
    BY DEF PathsWhole
  <2>1. ideal(new[j].key, new) = ideal(new[j].key, sl)
    BY <1>3 DEF ideal
  <2>2. CASE j = p
    BY <2>1, <2>2, <1>1, <1>2, <1>3
  <2>3. CASE j # p
    <3>1. j \in Occupied(sl) /\ new[j] = sl[j]
      BY <2>3, <1>3, <1>4 DEF Occupied
    <3>2. sl[i] # None
      BY <3>1, <2>1, <1>3 DEF PathsWhole
    <3> QED BY <3>2, <1>2, <1>3
  <2> QED BY <2>2, <2>3
<1>8. Stored(new) = {f \in Stored(sl) : f.key # k} \cup {e}
  <2>1. ASSUME NEW j \in Occupied(new)
        PROVE  new[j] \in {f \in Stored(sl) : f.key # k} \cup {e}
    <3>1. CASE j = p
      BY <3>1, <1>1, <1>3
    <3>2. CASE j # p
      BY <3>2, <1>3, <1>4, <1>5 DEF Stored, Occupied
    <3> QED BY <3>1, <3>2
  <2>2. ASSUME NEW j \in Occupied(sl), sl[j].key # k PROVE sl[j] \in Stored(new)
    <3>1. j # p
      BY <2>2, <1>1 DEF Occupied
    <3> QED BY <3>1, <1>3, <1>4 DEF Stored, Occupied
  <2>3. e \in Stored(new)
    BY <1>1, <1>3, <1>4 DEF Stored
  <2> QED BY <2>1, <2>2, <2>3 DEF Stored
<1>9. sl[p] = None <=> \A f \in Stored(sl) : f.key # k
  BY <1>1 DEF Stored
<1> QED BY <1>3, <1>6, <1>7, <1>8, <1>9 DEF new, p, e, Placed

-----------------------------------------------------------------------------
(* The inductive invariant                                                 *)

\* How many entries a table of c slots takes before it grows.
Threshold(c) == (c \div LOAD_DEN) * LOAD_NUM

\* Types, and what each loop knows of the tables it works on.
TypeInv ==
  /\ hash \in [Keys -> 0..MaxHash]
  /\ IsTable(slots) /\ (capacity(slots) = 0 \/ capacity(slots) >= MIN_CAP)
  /\ IsTable(old)
  /\ count \in Nat /\ pc \in {"idle", "shift", "grow"}
  /\ pc # "grow" => old = table(0)
  /\ pc = "grow" => /\ pending \in Slot /\ at \in 0..capacity(old)
                    /\ capacity(old) >= MIN_CAP
                    /\ capacity(slots) = 2 * capacity(old)
  /\ pc = "shift" => hole \in DOMAIN slots /\ at \in DOMAIN slots

\* Every key in one place.
KeysInv ==
  /\ Unique(slots) /\ Unique(old)
  /\ \A i \in Occupied(slots), j \in Waiting : slots[i].key # old[j].key

\* len is exact and below the load factor, further below after a removal.
LoadInv ==
  /\ LenExact
  /\ pc = "idle" /\ capacity(slots) # 0 => count <= Threshold(capacity(slots))
  /\ pc = "shift" => count < Threshold(capacity(slots))
  /\ pc = "grow" => count <= Threshold(capacity(old))

\* No gap on the way to an entry, but for the hole that backward_shift is about
\* to fill, and behind it everything is occupied.
PathInv ==
  /\ pc # "shift" => PathsWhole(slots)
  /\ pc = "shift" =>
       /\ slots[hole] = None
       /\ \A i \in DOMAIN slots : Between(hole, at, i) /\ i # hole => slots[i] # None
       /\ \A j \in Occupied(slots), i \in DOMAIN slots :
            Between(ideal(slots[j].key, slots), j, i) /\ slots[i] = None
              => i = hole /\ ~Between(hole, at, j)

Inv == TypeInv /\ KeysInv /\ LoadInv /\ PathInv

\* The load factor leaves a slot free, and doubling makes room for one more.
LEMMA LoadFactor ==
  ASSUME NEW c \in Nat, c >= MIN_CAP
  PROVE  /\ Threshold(c) \in Nat /\ Threshold(c) >= 1 /\ Threshold(c) < c
         /\ Threshold(2 * c) >= Threshold(c) + 1
         /\ c > 1
<1>1. LOAD_DEN \in Nat \ {0} /\ c >= LOAD_DEN /\ LOAD_NUM \in 1..(LOAD_DEN - 1)
  BY FlatMapAssumption
<1>2. ASSUME NEW d \in Nat \ {0}, c >= d, NEW n \in 1..(d - 1)
      PROVE  /\ (c \div d) * n \in Nat /\ (c \div d) * n < c /\ (c \div d) * n >= 1
             /\ ((2 * c) \div d) * n > (c \div d) * n /\ ((2 * c) \div d) * n \in Nat
  BY <1>2
<1>3. \A d \in Nat \ {0} : \A n \in 1..(d - 1) : c >= d =>
        /\ (c \div d) * n \in Nat /\ (c \div d) * n < c /\ (c \div d) * n >= 1
        /\ ((2 * c) \div d) * n > (c \div d) * n /\ ((2 * c) \div d) * n \in Nat
  BY <1>2
<1>4. /\ Threshold(c) \in Nat /\ Threshold(c) < c /\ Threshold(c) >= 1
      /\ Threshold(2 * c) > Threshold(c) /\ Threshold(2 * c) \in Nat
  BY <1>1, <1>3 DEF Threshold
<1> QED BY <1>4

\* The entries held are finitely many, and a key has one of them.
LEMMA HeldFacts ==
  ASSUME TypeInv, KeysInv
  PROVE  /\ IsFiniteSet(Held) /\ Held \subseteq Slot
         /\ Held = Stored(slots) \cup {old[i] : i \in Waiting}
         /\ NoDuplicates
         /\ pc # "grow" => Waiting = {} /\ Held = Stored(slots)
<1>1. Held = Stored(slots) \cup {old[i] : i \in Waiting}
  BY DEF Held, Stored, Waiting
<1>2. Waiting \subseteq Occupied(old)
  BY DEF Waiting
<1>3. /\ IsFiniteSet(Stored(slots)) /\ Stored(slots) \subseteq Slot
      /\ IsFiniteSet(Waiting) /\ \A i \in Waiting : old[i] \in Slot
  BY <1>2, OccupiedSlots, FS_Subset DEF TypeInv
<1>4. IsFiniteSet({old[i] : i \in Waiting})
  BY <1>3, ImageFinite
<1>5. IsFiniteSet(Held) /\ Held \subseteq Slot
  BY <1>1, <1>3, <1>4, FS_Union
<1>6. NoDuplicates
  BY <1>1, <1>2 DEF NoDuplicates, KeysInv, Unique, Stored
<1>7. pc # "grow" => Waiting = {} /\ Held = Stored(slots)
  BY <1>1, NewTable DEF TypeInv, Waiting
<1> QED BY <1>1, <1>5, <1>6, <1>7

\* There are no more occupied slots than len says.
LEMMA OccupiedBound ==
  ASSUME TypeInv, KeysInv, LoadInv
  PROVE  Cardinality(Occupied(slots)) <= count /\ Cardinality(Occupied(slots)) \in Nat
<1>1. IsFiniteSet(Occupied(slots))
  BY OccupiedSlots DEF TypeInv
<1>2. \A x, y \in Occupied(slots) : slots[x] = slots[y] => x = y
  BY DEF KeysInv, Unique
<1>3. Cardinality(Stored(slots)) = Cardinality(Occupied(slots))
  BY <1>1, <1>2, ImageFinite DEF Stored
<1>4. IsFiniteSet(Held) /\ Stored(slots) \subseteq Held
  BY HeldFacts
<1>5. Cardinality(Stored(slots)) <= Cardinality(Held)
  BY <1>4, FS_Subset
<1>6. Cardinality(Occupied(slots)) \in Nat /\ Cardinality(Held) \in Nat
  BY <1>1, <1>4, FS_CardinalityType
<1> QED BY <1>3, <1>5, <1>6 DEF LoadInv, LenExact

\* Every allocated table has an empty slot, and one besides the hole while
\* backward_shift runs.
LEMMA RoomLeft ==
  ASSUME TypeInv, KeysInv, LoadInv, capacity(slots) # 0
  PROVE  /\ empty(slots) # {} /\ Occupied(slots) # DOMAIN slots
         /\ pc = "shift" /\ slots[hole] = None => \E e \in empty(slots) : e # hole
<1> DEFINE c == capacity(slots)
           O == Occupied(slots)
<1>1. c \in Nat /\ DOMAIN slots = 0..(c - 1) /\ c >= MIN_CAP /\ IsFiniteSet(DOMAIN slots)
      /\ Cardinality(DOMAIN slots) = c
  BY TableShape DEF TypeInv, capacity
<1>2. Cardinality(O) \in Nat /\ Cardinality(O) <= count /\ count \in Nat
  BY OccupiedBound DEF TypeInv
<1>3. Threshold(c) \in Nat /\ Threshold(c) < c
  BY <1>1, LoadFactor
<1>4. count < c
  <2>1. CASE pc = "grow"
    <3>1. capacity(old) \in Nat /\ capacity(old) >= MIN_CAP /\ c = 2 * capacity(old)
      BY <2>1, TableShape DEF TypeInv
    <3>2. count <= Threshold(capacity(old)) /\ Threshold(capacity(old)) < capacity(old)
          /\ Threshold(capacity(old)) \in Nat
      BY <2>1, <3>1, LoadFactor DEF LoadInv
    <3> HIDE DEF c
    <3> QED BY <3>1, <3>2, <1>2
  <2>2. CASE pc # "grow"
    <3>1. count <= Threshold(c)
      BY <2>2, <1>2, <1>3 DEF LoadInv, TypeInv
    <3> QED BY <3>1, <1>1, <1>2, <1>3
  <2> QED BY <2>1, <2>2
<1>5. O \subseteq DOMAIN slots /\ IsFiniteSet(O)
  BY OccupiedSlots DEF TypeInv
<1>6. O # DOMAIN slots
  BY <1>1, <1>2, <1>4
<1>7. empty(slots) = DOMAIN slots \ O
  BY DEF empty, Occupied
<1>8. ASSUME pc = "shift", slots[hole] = None PROVE \E e \in empty(slots) : e # hole
  <2>1. count < Threshold(c) /\ hole \in DOMAIN slots
    BY <1>8 DEF LoadInv, TypeInv
  <2> HIDE DEF O, c
  <2>2. /\ IsFiniteSet(O \cup {hole})
        /\ Cardinality(O \cup {hole}) = IF hole \in O THEN Cardinality(O) ELSE Cardinality(O) + 1
    BY <1>5, FS_AddElement
  <2>3. Cardinality(O \cup {hole}) < c
    BY <2>1, <2>2, <1>1, <1>2, <1>3
  <2>4. O \cup {hole} # DOMAIN slots
    <3>1. O \cup {hole} = DOMAIN slots => Cardinality(O \cup {hole}) = c
      BY <1>1, Zenon
    <3> QED BY <2>3, <3>1, <1>1
  <2> QED BY <2>1, <2>4, <1>5, <1>7
<1> QED BY <1>5, <1>6, <1>7, <1>8

\* The table is empty and not allocated at first.
LEMMA InitInv == Init => Inv
<1> SUFFICES ASSUME Init PROVE Inv
  OBVIOUS
<1>1. /\ IsTable(table(0)) /\ capacity(table(0)) = 0 /\ Occupied(table(0)) = {}
  BY NewTable
<1>2. TypeInv
  BY <1>1 DEF Init, TypeInv
<1>3. KeysInv
  BY <1>1 DEF Init, KeysInv, Unique
<1>4. Held = {}
  BY <1>1 DEF Init, Held
<1>5. LoadInv
  BY <1>1, <1>4, FS_EmptySet DEF Init, LoadInv, LenExact
<1>6. PathInv
  BY <1>1 DEF Init, PathInv, PathsWhole
<1> QED BY <1>2, <1>3, <1>5, <1>6 DEF Inv

-----------------------------------------------------------------------------
(* Sets of entries as maps                                                 *)

Distinct(H) == \A e, f \in H : e.key = f.key => e = f

MapOf(H) == [k \in {e.key : e \in H} |-> (CHOOSE e \in H : e.key = k).value]

\* What a set of entries maps a key to.
LEMMA MapOfEntry ==
  ASSUME NEW H, Distinct(H), NEW e \in H
  PROVE  e.key \in DOMAIN MapOf(H) /\ MapOf(H)[e.key] = e.value
<1>1. (CHOOSE f \in H : f.key = e.key) = e
  BY DEF Distinct
<1>2. e.key \in DOMAIN MapOf(H)
  BY DEF MapOf
<1> QED BY <1>1, <1>2 DEF MapOf

\* Putting an entry in place of its key's previous one inserts it.
LEMMA MapOfInsert ==
  ASSUME NEW H, H \subseteq Slot, IsFiniteSet(H), Distinct(H), NEW k \in Keys, NEW v \in Vals
  PROVE  LET new == {f \in H : f.key # k} \cup {[key |-> k, value |-> v]}
         IN  /\ IsFiniteSet(new) /\ Distinct(new)
             /\ Cardinality(new) = IF \A f \in H : f.key # k THEN Cardinality(H) + 1
                                                             ELSE Cardinality(H)
             /\ MapOf(new) = map_insert(MapOf(H), k, v)
<1> DEFINE e == [key |-> k, value |-> v]
           rest == {f \in H : f.key # k}
           new == rest \cup {e}
<1>1. e.key = k /\ e.value = v /\ e \notin rest
  OBVIOUS
<1> HIDE DEF e
<1>2. IsFiniteSet(rest) /\ Cardinality(rest) \in Nat /\ Cardinality(H) \in Nat
  BY FS_Subset, FS_CardinalityType
<1>3. IsFiniteSet(new) /\ Cardinality(new) = Cardinality(rest) + 1
  <2> HIDE DEF rest
  <2> QED BY <1>1, <1>2, FS_AddElement
<1>4. Cardinality(rest) = IF \A f \in H : f.key # k THEN Cardinality(H) ELSE Cardinality(H) - 1
  <2>1. CASE \A f \in H : f.key # k
    <3>1. rest = H
      BY <2>1
    <3> QED BY <2>1, <3>1
  <2>2. ASSUME NEW g \in H, g.key = k PROVE Cardinality(rest) = Cardinality(H) - 1
    <3>1. rest = H \ {g}
      BY <2>2 DEF Distinct
    <3> QED BY <3>1, FS_RemoveElement
  <2> QED BY <2>1, <2>2
<1>5. Distinct(new)
  BY <1>1 DEF Distinct
<1>6. MapOf(new) = map_insert(MapOf(H), k, v)
  <2> DEFINE M == map_insert(MapOf(H), k, v)
  <2>1. M = [j \in DOMAIN MapOf(H) \cup {k} |-> IF j = k THEN v ELSE MapOf(H)[j]]
    BY DEF map_insert
  <2>2. DOMAIN MapOf(new) = {f.key : f \in new} /\ DOMAIN MapOf(H) = {f.key : f \in H}
    BY DEF MapOf
  <2>3. {f.key : f \in new} = {f.key : f \in H} \cup {k}
    BY <1>1
  <2>4. ASSUME NEW f \in new PROVE MapOf(new)[f.key] = M[f.key]
    <3>1. MapOf(new)[f.key] = f.value
      BY <1>5, MapOfEntry
    <3>2. CASE f = e
      BY <3>1, <3>2, <2>1, <1>1
    <3>3. CASE f # e
      <4>1. f \in H /\ f.key # k
        BY <3>3
      <4>2. f.key \in DOMAIN MapOf(H) /\ MapOf(H)[f.key] = f.value
        BY <4>1, MapOfEntry
      <4> HIDE DEF new, M
      <4> QED BY <2>1, <3>1, <4>1, <4>2 DEF M
    <3> QED BY <3>2, <3>3
  <2>5. MapOf(new) = [j \in {f.key : f \in new} |-> MapOf(new)[j]]
    BY DEF MapOf
  <2>6. M = [j \in {f.key : f \in new} |-> M[j]]
    <3> HIDE DEF new
    <3> QED BY <2>1, <2>2, <2>3
  <2>7. \A j \in {f.key : f \in new} : MapOf(new)[j] = M[j]
    <3> HIDE DEF M, new
    <3> QED BY <2>4
  <2> HIDE DEF M, new
  <2>8. MapOf(new) = M
    BY <2>5, <2>6, <2>7
  <2> QED BY <2>8 DEF M
<1> QED BY <1>2, <1>3, <1>4, <1>5, <1>6 DEF e

\* Taking the entry of a key away removes it.
LEMMA MapOfRemove ==
  ASSUME NEW H, IsFiniteSet(H), Distinct(H), NEW e \in H
  PROVE  LET new == H \ {e}
         IN  /\ IsFiniteSet(new) /\ Distinct(new) /\ Cardinality(new) = Cardinality(H) - 1
             /\ MapOf(new) = map_remove(MapOf(H), e.key)
<1> DEFINE new == H \ {e}
           M == map_remove(MapOf(H), e.key)
<1>1. IsFiniteSet(new) /\ Cardinality(new) = Cardinality(H) - 1
  BY FS_RemoveElement
<1>2. Distinct(new)
  BY DEF Distinct
<1>3. M = [j \in DOMAIN MapOf(H) \ {e.key} |-> MapOf(H)[j]]
  BY DEF map_remove
<1>4. DOMAIN MapOf(H) = {f.key : f \in H}
  BY DEF MapOf
<1>5. {f.key : f \in new} = DOMAIN M
  BY <1>3, <1>4 DEF Distinct
<1>6. ASSUME NEW f \in new PROVE MapOf(new)[f.key] = M[f.key]
  <2>1. MapOf(new)[f.key] = f.value
    BY <1>2, MapOfEntry
  <2>2. f \in H /\ f.key # e.key
    BY DEF Distinct
  <2>3. f.key \in DOMAIN MapOf(H) /\ MapOf(H)[f.key] = f.value
    BY <2>2, MapOfEntry
  <2> HIDE DEF new, M
  <2> QED BY <1>3, <2>1, <2>2, <2>3
<1>7. MapOf(new) = [j \in {f.key : f \in new} |-> MapOf(new)[j]]
  BY DEF MapOf
<1>8. M = [j \in DOMAIN M |-> M[j]]
  BY <1>3
<1> HIDE DEF M, new
<1>9. \A j \in DOMAIN M : MapOf(new)[j] = M[j]
  BY <1>5, <1>6
<1>10. MapOf(new) = M
  BY <1>5, <1>7, <1>8, <1>9
<1> QED BY <1>1, <1>2, <1>10 DEF M, new

-----------------------------------------------------------------------------
(* The calls and the turns of the loops                                    *)

\* What an insertion into the table sl leaves.
LEMMA PlaceStep ==
  ASSUME Inv, NEW sl, IsTable(sl), PathsWhole(sl), Unique(sl), empty(sl) # {},
         Held = Stored(sl), NEW k \in Keys, NEW v \in Vals,
         Place(k, v, sl), hash' = hash, old' = table(0)
  PROVE  /\ IsTable(slots') /\ capacity(slots') = capacity(sl)
         /\ PathsWhole(slots)' /\ KeysInv' /\ LenExact'
         /\ count' \in Nat /\ count' <= count + 1
         /\ MapOf(Held') = map_insert(MapOf(Held), k, v)
<1> DEFINE e == [key |-> k, value |-> v]
           new == Placed(k, v, sl)
<1>1. slots' = new /\ count' = IF sl[locate(k, sl)] = None THEN count + 1 ELSE count
  BY DEF Place, Placed
<1>2. hash \in [Keys -> 0..MaxHash] /\ count \in Nat /\ count = Cardinality(Held)
  BY DEF Inv, TypeInv, LoadInv, LenExact
<1>3. /\ IsTable(new) /\ capacity(new) = capacity(sl) /\ PathsWhole(new) /\ Unique(new)
      /\ Stored(new) = {f \in Stored(sl) : f.key # k} \cup {e}
      /\ sl[locate(k, sl)] = None <=> \A f \in Stored(sl) : f.key # k
  BY <1>2, PlaceTable
<1> HIDE DEF new, e
<1>4. PathsWhole(slots)'
  BY <1>1, <1>3 DEF PathsWhole, ideal, Occupied
<1>5. Occupied(old') = {} /\ Occupied(old)' = Occupied(old')
  BY NewTable DEF Occupied
<1>6. Held' = Stored(new)
  BY <1>1, <1>5 DEF Held, Stored, Occupied
<1>7. KeysInv'
  BY <1>1, <1>3, <1>5 DEF KeysInv, Unique, Waiting, Occupied
<1>8. /\ Held \subseteq Slot /\ IsFiniteSet(Held) /\ Distinct(Held)
  BY HeldFacts DEF Inv, NoDuplicates, Distinct
<1>9. /\ Cardinality(Held') = IF \A f \in Held : f.key # k THEN Cardinality(Held) + 1
                                                          ELSE Cardinality(Held)
      /\ MapOf(Held') = map_insert(MapOf(Held), k, v)
  BY <1>3, <1>6, <1>8, MapOfInsert DEF e
<1>10. LenExact' /\ count' \in Nat /\ count' <= count + 1
  BY <1>1, <1>2, <1>3, <1>9 DEF LenExact
<1> QED BY <1>1, <1>3, <1>4, <1>7, <1>9, <1>10

\* insert without growth.
LEMMA InsertStep ==
  ASSUME Inv, NEW k \in Keys, NEW v \in Vals, Insert(k, v)
  PROVE  Inv' /\ MapOf(Held') = map_insert(MapOf(Held), k, v)
<1> DEFINE sl == IF capacity(slots) = 0 THEN table(MIN_CAP) ELSE slots
<1>1. /\ pc = "idle" /\ (capacity(slots) = 0 \/ count < grow_threshold)
      /\ Place(k, v, sl) /\ UNCHANGED <<hash, pc, hole, at, old, pending>>
  BY DEF Insert
<1>2. old = table(0) /\ MIN_CAP \in Nat /\ MIN_CAP > 0
  BY <1>1, FlatMapAssumption DEF Inv, TypeInv
<1>3. /\ IsTable(sl) /\ PathsWhole(sl) /\ Unique(sl) /\ empty(sl) # {} /\ Held = Stored(sl)
      /\ capacity(sl) \in Nat /\ capacity(sl) >= MIN_CAP /\ count < Threshold(capacity(sl))
  <2>1. CASE capacity(slots) = 0
    <3>1. /\ IsTable(sl) /\ capacity(sl) = MIN_CAP /\ Occupied(sl) = {}
      BY <2>1, <1>2, NewTable
    <3>2. empty(sl) # {}
      BY <2>1, <1>2 DEF empty, table
    <3>3. DOMAIN slots = 0..(0 - 1)
      BY <2>1, TableShape DEF Inv, TypeInv
    <3>4. Held = {}
      BY <3>3, <1>1, HeldFacts DEF Inv, Stored, Occupied
    <3>5. count = 0
      BY <3>4, FS_EmptySet DEF Inv, LoadInv, LenExact
    <3>6. MIN_CAP \in Nat /\ Threshold(MIN_CAP) >= 1 /\ Threshold(MIN_CAP) \in Nat
      BY <1>2, LoadFactor
    <3> HIDE DEF sl
    <3> QED BY <3>1, <3>2, <3>4, <3>5, <3>6 DEF PathsWhole, Unique, Stored
  <2>2. CASE capacity(slots) # 0
    <3>1. sl = slots
      BY <2>2
    <3>2. empty(slots) # {}
      BY <2>2, RoomLeft DEF Inv
    <3>3. Held = Stored(slots)
      BY <1>1, HeldFacts DEF Inv
    <3>4. count < Threshold(capacity(slots))
      BY <1>1, <2>2 DEF Threshold, grow_threshold
    <3>5. capacity(slots) \in Nat /\ capacity(slots) >= MIN_CAP
      BY <2>2, TableShape DEF Inv, TypeInv
    <3> QED BY <3>1, <3>2, <3>3, <3>4, <3>5, <1>1 DEF Inv, TypeInv, KeysInv, PathInv
  <2> QED BY <2>1, <2>2
<1> HIDE DEF sl
<1>4. /\ IsTable(slots') /\ capacity(slots') = capacity(sl)
      /\ PathsWhole(slots)' /\ KeysInv' /\ LenExact'
      /\ count' \in Nat /\ count' <= count + 1
      /\ MapOf(Held') = map_insert(MapOf(Held), k, v)
  BY <1>1, <1>2, <1>3, PlaceStep
<1>5. capacity(slots)' = capacity(slots')
  BY DEF capacity
<1>6. TypeInv'
  BY <1>1, <1>3, <1>4, <1>5 DEF Inv, TypeInv, IsTable
<1>7. Threshold(capacity(sl)) \in Nat /\ count \in Nat
  BY <1>3, LoadFactor DEF Inv, TypeInv
<1>8. count' <= Threshold(capacity(sl))
  BY <1>3, <1>4, <1>7
<1>9. LoadInv'
  BY <1>1, <1>4, <1>5, <1>8 DEF LoadInv, Threshold
<1>10. PathInv'
  BY <1>1, <1>4 DEF PathInv
<1> QED BY <1>4, <1>6, <1>9, <1>10 DEF Inv

\* insert at the threshold: the table becomes the one to copy.
LEMMA InsertGrowStep ==
  ASSUME Inv, NEW k \in Keys, NEW v \in Vals, InsertGrow(k, v)
  PROVE  Inv' /\ Held' = Held
<1> DEFINE c == capacity(slots)
<1>1. /\ pc = "idle" /\ c # 0 /\ pc' = "grow" /\ old' = slots /\ slots' = table(2 * c) /\ at' = 0
      /\ pending' = [key |-> k, value |-> v] /\ UNCHANGED <<hash, count, hole>>
  BY DEF InsertGrow
<1>2. c \in Nat /\ c >= MIN_CAP /\ 2 * c \in Nat /\ DOMAIN slots = 0..(c - 1)
      /\ 2 * c >= MIN_CAP
  BY <1>1, TableShape, FlatMapAssumption DEF Inv, TypeInv
<1>3. /\ IsTable(table(2 * c)) /\ capacity(table(2 * c)) = 2 * c /\ Occupied(table(2 * c)) = {}
  BY <1>2, NewTable
<1>4. capacity(slots)' = 2 * c /\ capacity(old)' = c
  BY <1>1, <1>3 DEF capacity
<1>5. Occupied(slots)' = {} /\ Occupied(old)' = Occupied(slots) /\ Occupied(slots) \subseteq 0..(c - 1)
  BY <1>1, <1>2, <1>3 DEF Occupied
<1>6. Waiting' = Occupied(slots)
  <2> HIDE DEF c
  <2> QED BY <1>1, <1>2, <1>5 DEF Waiting
<1>7. Held' = Held
  <2>1. Held = Stored(slots)
    BY <1>1, HeldFacts DEF Inv
  <2>2. Held' = {old'[i] : i \in Waiting'}
    BY <1>5 DEF Held, Waiting
  <2> QED BY <2>1, <2>2, <1>1, <1>6 DEF Stored
<1>8. TypeInv'
  <2>1. [key |-> k, value |-> v] \in Slot
    BY DEF Slot
  <2>2. 0 \in 0..c
    BY <1>2
  <2> HIDE DEF c
  <2> QED BY <1>1, <1>2, <1>3, <1>4, <2>1, <2>2 DEF Inv, TypeInv, IsTable
<1>9. KeysInv'
  BY <1>1, <1>5 DEF Inv, KeysInv, Unique, Occupied
<1>10. LoadInv'
  BY <1>1, <1>4, <1>7 DEF Inv, LoadInv, LenExact, Threshold
<1>11. PathInv'
  BY <1>1, <1>5 DEF PathInv, PathsWhole
<1> QED BY <1>7, <1>8, <1>9, <1>10, <1>11 DEF Inv

\* A turn of the copy loop.
LEMMA GrowStepStep ==
  ASSUME Inv, GrowStep
  PROVE  Inv' /\ Held' = Held
<1> DEFINE c == capacity(old)
           e == old[at]
<1>1. /\ pc = "grow" /\ at < c /\ at' = at + 1
      /\ slots' = IF e = None THEN slots
                  ELSE [slots EXCEPT ![free_slot(e.key, slots)] = e]
      /\ UNCHANGED <<hash, count, pc, hole, old, pending>>
  BY DEF GrowStep
<1>2. /\ c \in Nat /\ at \in 0..c /\ DOMAIN old = 0..(c - 1) /\ c >= MIN_CAP
      /\ capacity(slots) = 2 * c /\ IsTable(slots) /\ IsTable(old)
      /\ hash \in [Keys -> 0..MaxHash]
  BY <1>1, TableShape DEF Inv, TypeInv
<1>3. at \in DOMAIN old /\ at + 1 \in 0..c
  BY <1>1, <1>2
<1>4. Waiting' = Waiting \ {at}
  <2>1. Occupied(old)' = Occupied(old) /\ Occupied(old) \subseteq 0..(c - 1)
    BY <1>1, <1>2 DEF Occupied
  <2> HIDE DEF c
  <2> QED BY <1>1, <1>2, <2>1 DEF Waiting
<1>5. PathsWhole(slots) /\ Unique(slots) /\ Unique(old) /\ empty(slots) # {}
  <2>1. capacity(slots) # 0
    BY <1>2, FlatMapAssumption
  <2> QED BY <2>1, <1>1, RoomLeft DEF Inv, PathInv, KeysInv
<1>6. /\ IsTable(slots') /\ capacity(slots') = capacity(slots) /\ PathsWhole(slots)' /\ Unique(slots)'
      /\ Stored(slots)' \cup {old[i] : i \in Waiting'} = Stored(slots) \cup {old[i] : i \in Waiting}
      /\ \A i \in Occupied(slots'), j \in Waiting' : slots'[i].key # old[j].key
  <2>1. CASE e = None
    <3>1. slots' = slots /\ hash' = hash
      BY <1>1, <2>1
    <3>2. Waiting' = Waiting
      BY <2>1, <1>4 DEF Waiting, Occupied
    <3> QED BY <3>1, <3>2, <1>2, <1>5
            DEF Inv, KeysInv, PathsWhole, Unique, Stored, Occupied, ideal, capacity
  <2>2. CASE e # None
    <3>1. e \in Slot /\ at \in Waiting
      <4>1. at \in Occupied(old) /\ at >= at
        BY <2>2, <1>2, <1>3 DEF Occupied
      <4> QED BY <4>1, <1>2, OccupiedSlots DEF Waiting
    <3>2. e.key \in Keys /\ e.value \in Vals /\ e = [key |-> e.key, value |-> e.value]
      BY <3>1 DEF Slot
    <3>3. \A i \in Occupied(slots) : slots[i].key # e.key
      BY <3>1 DEF Inv, KeysInv
    <3>4. holding(e.key, slots) = {}
      BY <3>3 DEF holding, empty, Occupied
    <3>5. free_slot(e.key, slots) = locate(e.key, slots)
      BY <3>4 DEF free_slot, locate
    <3> DEFINE new == Placed(e.key, e.value, slots)
    <3>6. slots' = new
      BY <1>1, <2>2, <3>2, <3>5 DEF Placed
    <3>7. /\ IsTable(new) /\ capacity(new) = capacity(slots) /\ PathsWhole(new) /\ Unique(new)
          /\ Stored(new) = {f \in Stored(slots) : f.key # e.key} \cup {[key |-> e.key, value |-> e.value]}
      BY <1>2, <1>5, <3>2, PlaceTable
    <3> HIDE DEF new
    <3>8. Stored(new) = Stored(slots) \cup {e}
      BY <3>2, <3>3, <3>7 DEF Stored
    <3>9. PathsWhole(slots)' /\ Unique(slots)' /\ Stored(slots)' = Stored(new)
      BY <3>6, <3>7, <1>1 DEF PathsWhole, Unique, Stored, Occupied, ideal
    <3>10. Stored(new) \cup {old[i] : i \in Waiting'} = Stored(slots) \cup {old[i] : i \in Waiting}
      <4>1. {old[i] : i \in Waiting} = {old[i] : i \in Waiting'} \cup {e}
        BY <3>1, <1>4
      <4> QED BY <4>1, <3>8
    <3>11. ASSUME NEW i \in Occupied(new), NEW j \in Waiting' PROVE new[i].key # old[j].key
      <4>1. new[i] \in Stored(slots) \/ new[i] = e
        BY <3>8 DEF Stored
      <4>2. j \in Waiting /\ j # at /\ j \in Occupied(old) /\ at \in Occupied(old)
        BY <1>4, <3>1 DEF Waiting
      <4>3. CASE new[i] = e
        BY <4>2, <4>3, <1>5 DEF Unique
      <4>4. CASE new[i] \in Stored(slots)
        BY <4>2, <4>4 DEF Inv, KeysInv, Stored
      <4> QED BY <4>1, <4>3, <4>4
    <3> QED BY <3>6, <3>7, <3>9, <3>10, <3>11
  <2> QED BY <2>1, <2>2
<1>7. Held' = Held
  <2>1. Held = Stored(slots) \cup {old[i] : i \in Waiting}
    BY HeldFacts DEF Inv
  <2>2. Held' = Stored(slots)' \cup {old[i] : i \in Waiting'}
    BY <1>1 DEF Held, Stored, Waiting
  <2> QED BY <2>1, <2>2, <1>6
<1>8. capacity(slots)' = capacity(slots) /\ capacity(old)' = capacity(old)
  BY <1>1, <1>6 DEF capacity
<1>9. TypeInv'
  <2> HIDE DEF c
  <2> QED BY <1>1, <1>2, <1>3, <1>6, <1>8 DEF Inv, TypeInv, IsTable, c
<1>10. KeysInv'
  BY <1>1, <1>5, <1>6 DEF KeysInv, Unique, Occupied
<1>11. LoadInv'
  BY <1>1, <1>7, <1>8 DEF Inv, LoadInv, LenExact, Threshold
<1>12. PathInv'
  BY <1>1, <1>6 DEF PathInv
<1> QED BY <1>7, <1>9, <1>10, <1>11, <1>12 DEF Inv

\* grow returns and the pending entry is inserted.
LEMMA GrowDoneStep ==
  ASSUME Inv, GrowDone
  PROVE  Inv' /\ MapOf(Held') = map_insert(MapOf(Held), pending.key, pending.value)
<1> DEFINE k == pending.key
           v == pending.value
           c == capacity(old)
<1>1. /\ pc = "grow" /\ at = c /\ Place(k, v, slots)
      /\ pc' = "idle" /\ at' = 0 /\ old' = table(0) /\ pending' = None
      /\ UNCHANGED <<hash, hole>>
  BY DEF GrowDone
<1>2. /\ c \in Nat /\ DOMAIN old = 0..(c - 1) /\ c >= MIN_CAP /\ capacity(slots) = 2 * c
      /\ IsTable(slots) /\ pending \in Slot /\ count \in Nat
      /\ hash \in [Keys -> 0..MaxHash] /\ MIN_CAP \in Nat /\ MIN_CAP > 0
  BY <1>1, TableShape, FlatMapAssumption DEF Inv, TypeInv
<1>3. k \in Keys /\ v \in Vals
  BY <1>2 DEF Slot
<1>4. Waiting = {}
  <2> HIDE DEF c
  <2> QED BY <1>1, <1>2 DEF Waiting, Occupied
<1>5. Held = Stored(slots)
  BY <1>4, HeldFacts DEF Inv
<1>6. PathsWhole(slots) /\ Unique(slots) /\ empty(slots) # {}
  <2>1. capacity(slots) # 0
    BY <1>2
  <2> QED BY <2>1, <1>1, RoomLeft DEF Inv, PathInv, KeysInv
<1>7. /\ IsTable(slots') /\ capacity(slots') = capacity(slots)
      /\ PathsWhole(slots)' /\ KeysInv' /\ LenExact'
      /\ count' \in Nat /\ count' <= count + 1
      /\ MapOf(Held') = map_insert(MapOf(Held), k, v)
  <2> HIDE DEF k, v
  <2> QED BY <1>1, <1>2, <1>3, <1>5, <1>6, PlaceStep
<1>8. capacity(slots)' = 2 * c
  BY <1>2, <1>7 DEF capacity
<1>9. TypeInv'
  <2>1. IsTable(table(0))
    BY NewTable
  <2>2. 2 * c >= MIN_CAP
    <3> HIDE DEF c
    <3> QED BY <1>2
  <2> HIDE DEF c
  <2> QED BY <1>1, <1>2, <1>7, <1>8, <2>1, <2>2 DEF TypeInv, IsTable
<1>10. count' <= Threshold(2 * c)
  <2>1. /\ Threshold(c) \in Nat /\ Threshold(2 * c) >= Threshold(c) + 1
        /\ Threshold(2 * c) \in Nat
    <3>1. 2 * c \in Nat /\ 2 * c >= MIN_CAP
      <4> HIDE DEF c
      <4> QED BY <1>2
    <3> HIDE DEF c
    <3> QED BY <1>2, <3>1, LoadFactor
  <2>2. count <= Threshold(c)
    BY <1>1 DEF Inv, LoadInv
  <2> HIDE DEF c
  <2> QED BY <1>2, <1>7, <2>1, <2>2
<1>11. LoadInv'
  BY <1>1, <1>7, <1>8, <1>10 DEF LoadInv, Threshold
<1>12. PathInv'
  BY <1>1, <1>7 DEF PathInv
<1> QED BY <1>7, <1>9, <1>11, <1>12 DEF Inv

\* remove takes the entry out and leaves a hole.
LEMMA RemoveStep ==
  ASSUME Inv, NEW k \in Keys, Remove(k)
  PROVE  Inv' /\ MapOf(Held') = map_remove(MapOf(Held), k)
<1> DEFINE p == locate(k, slots)
           c == capacity(slots)
           e == slots[p]
<1>1. /\ pc = "idle" /\ c # 0 /\ e # None /\ slots' = [slots EXCEPT ![p] = None]
      /\ hole' = p /\ at' = p /\ count' = count - 1 /\ pc' = "shift"
      /\ UNCHANGED <<hash, old, pending>>
  BY DEF Remove
<1>2. /\ c \in Nat /\ DOMAIN slots = 0..(c - 1) /\ c >= MIN_CAP /\ IsTable(slots)
      /\ count \in Nat /\ hash \in [Keys -> 0..MaxHash] /\ old = table(0)
  BY <1>1, TableShape DEF Inv, TypeInv
<1>3. PathsWhole(slots) /\ Unique(slots) /\ empty(slots) # {}
  BY <1>1, RoomLeft DEF Inv, PathInv, KeysInv
<1>4. p \in Occupied(slots) /\ p \in DOMAIN slots /\ e.key = k
  BY <1>1, <1>2, <1>3, LocateFinds
<1> HIDE DEF p
<1>5. /\ IsTable(slots') /\ DOMAIN slots' = DOMAIN slots /\ capacity(slots') = c
      /\ \A j \in DOMAIN slots : slots'[j] = IF j = p THEN None ELSE slots[j]
  BY <1>1, <1>2, <1>4, WriteSlot
<1>6. Occupied(slots)' = Occupied(slots) \ {p}
  BY <1>5 DEF Occupied
<1>7. Held = Stored(slots) /\ IsFiniteSet(Held) /\ Distinct(Held) /\ Waiting = {}
  BY <1>1, HeldFacts DEF Inv, NoDuplicates, Distinct
<1>8. Held' = Held \ {e}
  <2>1. Held' = Stored(slots)'
    <3>1. Occupied(old') = {} /\ Occupied(old)' = Occupied(old')
      BY <1>1, <1>2, NewTable DEF Occupied
    <3> QED BY <3>1 DEF Held, Stored
  <2>2. \A i \in Occupied(slots) : i # p => slots[i] # e
    BY <1>3, <1>4 DEF Unique
  <2> QED BY <2>1, <2>2, <1>4, <1>5, <1>6, <1>7 DEF Stored, Occupied
<1>9. /\ Cardinality(Held') = Cardinality(Held) - 1
      /\ MapOf(Held') = map_remove(MapOf(Held), k)
  <2>1. e \in Held
    BY <1>4, <1>7 DEF Stored
  <2> HIDE DEF e
  <2> QED BY <1>4, <1>7, <1>8, <2>1, MapOfRemove
<1>10. Cardinality(Held) \in Nat /\ Cardinality(Held) # 0 /\ count = Cardinality(Held)
  <2>1. e \in Held
    BY <1>4, <1>7 DEF Stored
  <2> QED BY <2>1, <1>7, FS_CardinalityType, FS_EmptySet DEF Inv, LoadInv, LenExact
<1>11. capacity(slots)' = c
  BY <1>5 DEF capacity
<1>12. TypeInv'
  <2>1. count - 1 \in Nat
    BY <1>2, <1>10
  <2> QED BY <1>1, <1>2, <1>4, <1>5, <1>11, <2>1 DEF Inv, TypeInv, IsTable
<1>13. KeysInv'
  <2>1. Waiting' = {} /\ Unique(old)'
    BY <1>1, <1>2, NewTable DEF Waiting, Occupied, Unique
  <2> QED BY <2>1, <1>3, <1>5, <1>6 DEF KeysInv, Unique, Occupied
<1>14. LoadInv'
  <2>1. count <= Threshold(c) /\ Threshold(c) \in Nat
    BY <1>1, <1>2, LoadFactor DEF Inv, LoadInv
  <2>2. count - 1 < Threshold(c)
    BY <2>1, <1>2
  <2> QED BY <1>1, <1>9, <1>10, <1>11, <2>2 DEF LoadInv, LenExact, Threshold
<1>15. PathInv'
  <2>1. slots'[p] = None
    BY <1>4, <1>5
  <2>2. \A i \in DOMAIN slots : Between(p, p, i) => i = p
    BY <1>2, <1>4 DEF Between
  <2>3. ASSUME NEW j \in Occupied(slots)', NEW i \in DOMAIN slots,
               Between(ideal(slots[j].key, slots)', j, i), slots'[i] = None
        PROVE  i = p /\ ~Between(p, p, j)
    <3>1. j \in Occupied(slots) /\ j # p /\ slots'[j] = slots[j] /\ j \in DOMAIN slots
      BY <1>5, <1>6 DEF Occupied
    <3>2. ideal(slots[j].key, slots)' = ideal(slots[j].key, slots)
      BY <3>1, <1>1, <1>11 DEF ideal
    <3>3. slots[i] # None
      BY <2>3, <3>1, <3>2, <1>3 DEF PathsWhole
    <3> QED BY <2>2, <2>3, <3>1, <3>3, <1>5
  <2> QED BY <1>1, <1>5, <2>1, <2>2, <2>3 DEF PathInv
<1> QED BY <1>9, <1>12, <1>13, <1>14, <1>15 DEF Inv

\* What a turn of backward_shift finds.
LEMMA ShiftFacts ==
  ASSUME Inv, ShiftStep
  PROVE  LET c == capacity(slots)
             i == (at + 1) % c
         IN  /\ c \in Nat /\ c > 1 /\ DOMAIN slots = 0..(c - 1) /\ IsTable(slots)
             /\ hole \in 0..(c - 1) /\ at \in 0..(c - 1) /\ i \in 0..(c - 1)
             /\ i = IF at + 1 < c THEN at + 1 ELSE 0
             /\ Waiting = {} /\ Waiting' = {} /\ Held = Stored(slots) /\ Held' = Stored(slots)'
             /\ slots[hole] = None
<1> DEFINE c == capacity(slots)
           i == (at + 1) % c
<1>1. pc = "shift" /\ UNCHANGED <<hash, count, old, pending>>
  BY DEF ShiftStep
<1>2. /\ c \in Nat /\ DOMAIN slots = 0..(c - 1) /\ IsTable(slots)
      /\ hole \in 0..(c - 1) /\ at \in 0..(c - 1) /\ slots[hole] = None
  BY <1>1, TableShape DEF Inv, TypeInv, PathInv
<1>3. c >= MIN_CAP /\ c > 1
  <2>1. c # 0
    <3> HIDE DEF c
    <3> QED BY <1>2
  <2>2. c >= MIN_CAP
    BY <2>1 DEF Inv, TypeInv
  <2> QED BY <1>2, <2>2, LoadFactor
<1>4. i = IF at + 1 < c THEN at + 1 ELSE at + 1 - c
  <2> HIDE DEF c
  <2>1. 1 \in 0..c
    BY <1>2, <1>3
  <2> QED BY <2>1, <1>2, <1>3, WrapUp
<1>5. i \in 0..(c - 1) /\ i = IF at + 1 < c THEN at + 1 ELSE 0
  <2> HIDE DEF c, i
  <2> QED BY <1>2, <1>3, <1>4
<1>6. old = table(0) /\ Occupied(old) = {} /\ Occupied(old)' = {}
  <2>1. old = table(0)
    BY <1>1 DEF Inv, TypeInv
  <2> QED BY <2>1, <1>1, NewTable DEF Occupied
<1>7. Waiting = {} /\ Waiting' = {} /\ Held = Stored(slots) /\ Held' = Stored(slots)'
  BY <1>6 DEF Waiting, Held, Stored
<1> QED BY <1>2, <1>3, <1>5, <1>7

\* A turn of backward_shift.
LEMMA ShiftStepStep ==
  ASSUME Inv, ShiftStep
  PROVE  Inv' /\ Held' = Held
<1> DEFINE c == capacity(slots)
           i == (at + 1) % c
           e == slots[i]
           h(j) == ideal(slots[j].key, slots)
<1>1. /\ pc = "shift" /\ UNCHANGED <<hash, count, old, pending>>
      /\ IF e = None
         THEN pc' = "idle" /\ at' = 0 /\ hole' = 0 /\ UNCHANGED slots
         ELSE /\ at' = i /\ pc' = pc
              /\ IF cyclic_in(hole, i, h(i))
                 THEN UNCHANGED <<slots, hole>>
                 ELSE slots' = [slots EXCEPT ![hole] = e, ![i] = None] /\ hole' = i
  BY DEF ShiftStep
<1>2. /\ c \in Nat /\ c > 1 /\ DOMAIN slots = 0..(c - 1) /\ IsTable(slots)
      /\ hole \in 0..(c - 1) /\ at \in 0..(c - 1) /\ i \in 0..(c - 1)
      /\ i = IF at + 1 < c THEN at + 1 ELSE 0
      /\ Waiting = {} /\ Waiting' = {} /\ Held = Stored(slots) /\ Held' = Stored(slots)'
      /\ slots[hole] = None
  BY ShiftFacts
<1>3. /\ \A x \in DOMAIN slots : Between(hole, at, x) /\ x # hole => slots[x] # None
      /\ \A j \in Occupied(slots), x \in DOMAIN slots :
           Between(h(j), j, x) /\ slots[x] = None => x = hole /\ ~Between(hole, at, j)
  BY <1>1 DEF Inv, PathInv
<1>4. \A j \in Occupied(slots) : j \in 0..(c - 1) /\ h(j) \in 0..(c - 1)
  <2>1. \A j \in Occupied(slots) : j \in DOMAIN slots /\ slots[j].key \in Keys
    BY <1>2, OccupiedSlots
  <2> QED BY <2>1, <1>2, IdealSlot DEF Inv, TypeInv
<1>5. count < Threshold(c) /\ Threshold(c) \in Nat /\ count \in Nat /\ old = table(0)
      /\ hash \in [Keys -> 0..MaxHash] /\ c >= MIN_CAP
  <2>1. c >= MIN_CAP
    BY <1>2 DEF Inv, TypeInv
  <2> QED BY <2>1, <1>1, <1>2, LoadFactor DEF Inv, LoadInv, TypeInv
<1> HIDE DEF c, i
<1>6. CASE e = None
  <2>1. pc' = "idle" /\ slots' = slots /\ hash' = hash /\ old' = old /\ count' = count
    BY <1>1, <1>6
  <2>2. Held' = Held
    BY <1>2, <2>1 DEF Stored, Occupied
  <2>3. TypeInv'
    BY <2>1, <1>5 DEF Inv, TypeInv, IsTable, capacity
  <2>4. KeysInv'
    BY <1>2, <2>1 DEF Inv, KeysInv, Unique, Occupied
  <2>5. LoadInv'
    BY <1>5, <2>1, <2>2 DEF Inv, LoadInv, LenExact, Threshold, capacity, c
  <2>6. PathInv'
    <3> SUFFICES ASSUME NEW j \in Occupied(slots), NEW x \in DOMAIN slots, Between(h(j), j, x),
                        slots[x] = None
                 PROVE  FALSE
      <4>1. (\A j \in Occupied(slots), x \in DOMAIN slots : Between(h(j), j, x) => slots[x] # None)
              => PathsWhole(slots)'
        BY <2>1 DEF PathsWhole, Occupied, ideal, capacity
      <4> QED BY <4>1, <2>1 DEF PathInv
    <3>1. x = hole /\ ~Between(hole, at, j)
      BY <1>3
    <3>2. Between(h(j), j, i) => i = hole
      BY <1>3, <1>2, <1>6
    <3>3. j \in 0..(c - 1) /\ h(j) \in 0..(c - 1) /\ j # i
      BY <1>4, <1>6 DEF Occupied
    <3> HIDE DEF h
    <3> QED BY <3>1, <3>2, <3>3, <1>2 DEF Between
  <2> QED BY <2>2, <2>3, <2>4, <2>5, <2>6 DEF Inv
<1>7. CASE e # None /\ cyclic_in(hole, i, h(i))
  <2>1. /\ pc' = "shift" /\ slots' = slots /\ hash' = hash /\ old' = old /\ count' = count
        /\ at' = i /\ hole' = hole
    BY <1>1, <1>7
  <2>2. Held' = Held
    BY <1>2, <2>1 DEF Stored, Occupied
  <2>3. TypeInv'
    BY <2>1, <1>2, <1>5 DEF Inv, TypeInv, IsTable, capacity
  <2>4. KeysInv'
    BY <1>2, <2>1 DEF Inv, KeysInv, Unique, Occupied
  <2>5. LoadInv'
    BY <1>5, <2>1, <2>2 DEF Inv, LoadInv, LenExact, Threshold, capacity, c
  <2>6. PathInv'
    <3>1. ASSUME NEW x \in DOMAIN slots, Between(hole, i, x), x # hole PROVE slots[x] # None
      <4>1. x = i \/ Between(hole, at, x)
        BY <3>1, <1>2 DEF Between
      <4> QED BY <4>1, <3>1, <1>3, <1>7
    <3>2. ASSUME NEW j \in Occupied(slots), NEW x \in DOMAIN slots, Between(h(j), j, x),
                 slots[x] = None
          PROVE  x = hole /\ ~Between(hole, i, j)
      <4>1. x = hole /\ ~Between(hole, at, j)
        BY <1>3, <3>2
      <4>2. j \in 0..(c - 1) /\ h(j) \in 0..(c - 1)
        BY <1>4
      <4>3. j # i
        <5> SUFFICES ASSUME j = i PROVE FALSE
          OBVIOUS
        <5> HIDE DEF h
        <5> QED BY <1>2, <1>7, <3>2, <4>1, <4>2 DEF Between, cyclic_in
      <4> HIDE DEF h
      <4> QED BY <4>1, <4>2, <4>3, <1>2 DEF Between
    <3>3. \A j \in Occupied(slots) : ideal(slots[j].key, slots)' = h(j)
      BY <2>1 DEF ideal, capacity
    <3>4. Occupied(slots)' = Occupied(slots)
      BY <2>1 DEF Occupied
    <3> QED BY <2>1, <3>1, <3>2, <3>3, <3>4, <1>2 DEF PathInv
  <2> QED BY <2>2, <2>3, <2>4, <2>5, <2>6 DEF Inv
<1>8. CASE e # None /\ ~cyclic_in(hole, i, h(i))
  <2>1. /\ pc' = "shift" /\ slots' = [slots EXCEPT ![hole] = e, ![i] = None]
        /\ hash' = hash /\ old' = old /\ count' = count /\ at' = i /\ hole' = i
    BY <1>1, <1>8
  <2>2. i # hole /\ i \in Occupied(slots)
    BY <1>2, <1>8 DEF Occupied
  <2>3. /\ DOMAIN slots' = DOMAIN slots /\ IsTable(slots') /\ capacity(slots') = c
        /\ \A x \in DOMAIN slots :
             slots'[x] = IF x = hole THEN e ELSE IF x = i THEN None ELSE slots[x]
    <3>1. e \in Slot \cup {None} /\ None \in Slot \cup {None}
      BY <1>2, <2>2, OccupiedSlots
    <3> DEFINE mid == [slots EXCEPT ![hole] = e]
    <3>2. /\ IsTable(mid) /\ DOMAIN mid = DOMAIN slots /\ capacity(mid) = capacity(slots)
          /\ \A x \in DOMAIN slots : mid[x] = IF x = hole THEN e ELSE slots[x]
      <4> HIDE DEF e
      <4> QED BY <3>1, <1>2, WriteSlot
    <3> DEFINE last == [mid EXCEPT ![i] = None]
    <3>3. slots' = last
      BY <2>1
    <3> HIDE DEF mid
    <3>4. /\ IsTable(last) /\ DOMAIN last = DOMAIN mid /\ capacity(last) = capacity(mid)
          /\ \A x \in DOMAIN mid : last[x] = IF x = i THEN None ELSE mid[x]
      <4>1. i \in DOMAIN mid
        BY <1>2, <3>2
      <4> QED BY <3>1, <3>2, <4>1, WriteSlot, Zenon
    <3> HIDE DEF last
    <3> QED BY <2>2, <3>2, <3>3, <3>4 DEF c
  <2>4. Occupied(slots)' = (Occupied(slots) \ {i}) \cup {hole}
    BY <1>2, <1>8, <2>2, <2>3 DEF Occupied
  <2>5. Held' = Held
    <3>1. ASSUME NEW x \in Occupied(slots)' PROVE slots'[x] \in Stored(slots)
      BY <2>2, <2>3, <2>4 DEF Stored, Occupied
    <3>2. ASSUME NEW x \in Occupied(slots) PROVE slots[x] \in Stored(slots)'
      <4>1. CASE x = i
        BY <4>1, <1>2, <2>3, <2>4 DEF Stored
      <4>2. CASE x # i
        <5>1. x # hole /\ x \in DOMAIN slots
          BY <1>2 DEF Occupied
        <5> QED BY <5>1, <4>2, <2>3, <2>4 DEF Stored
      <4> QED BY <4>1, <4>2
    <3> QED BY <3>1, <3>2, <1>2 DEF Stored
  <2>6. capacity(slots)' = c
    BY <2>3 DEF capacity
  <2>7. TypeInv'
    BY <2>1, <2>3, <2>6, <1>2, <1>5 DEF Inv, TypeInv, IsTable
  <2>8. KeysInv'
    <3>1. Unique(slots)
      BY DEF Inv, KeysInv
    <3>2. Unique(slots)'
      BY <3>1, <2>2, <2>3, <2>4, <1>2 DEF Unique, Occupied
    <3> QED BY <1>2, <2>1, <3>2 DEF Inv, KeysInv, Unique, Occupied
  <2>9. LoadInv'
    BY <1>5, <2>1, <2>5, <2>6 DEF Inv, LoadInv, LenExact, Threshold
  <2>10. PathInv'
    <3>1. slots'[i] = None
      BY <1>2, <2>2, <2>3
    <3>2. \A x \in DOMAIN slots : Between(i, i, x) => x = i
      BY <1>2 DEF Between
    <3>3. ASSUME NEW j \in Occupied(slots)', NEW x \in DOMAIN slots,
                 Between(ideal(slots[j].key, slots)', j, x), slots'[x] = None
          PROVE  x = i /\ ~Between(i, i, j)
      <4>1. j # i /\ x # hole /\ j \in 0..(c - 1) /\ x \in 0..(c - 1)
        BY <1>2, <1>8, <2>2, <2>3, <2>4, <3>3 DEF Occupied
      <4>2. CASE j = hole
        <5>1. ideal(slots[j].key, slots)' = h(i)
          BY <4>2, <1>2, <2>1, <2>3, <2>6 DEF ideal, c
        <5>2. h(i) \in 0..(c - 1)
          BY <2>2, <1>4
        <5>3. Between(h(i), i, x)
          <6> HIDE DEF h
          <6> QED BY <5>1, <5>2, <4>1, <4>2, <3>3, <1>2, <1>8, <2>2 DEF Between, cyclic_in
        <5>4. x # i
          <6> HIDE DEF h
          <6> QED BY <5>1, <5>2, <4>1, <4>2, <3>3, <1>2, <1>8, <2>2 DEF Between, cyclic_in
        <5>5. slots[x] = None
          BY <2>3, <3>3, <4>1, <5>4
        <5>6. x = hole
          BY <1>3, <2>2, <5>3, <5>5
        <5> QED BY <4>1, <5>6
      <4>3. CASE j # hole
        <5>1. j \in Occupied(slots) /\ slots'[j] = slots[j]
          BY <4>1, <4>3, <1>2, <2>3, <2>4
        <5>2. ideal(slots[j].key, slots)' = h(j)
          BY <5>1, <2>1, <2>6 DEF ideal, c
        <5>3. CASE x # i
          <6>1. slots[x] = None
            BY <5>3, <2>3, <3>3, <4>1
          <6>2. x = hole
            BY <1>3, <3>3, <5>1, <5>2, <6>1
          <6> QED BY <4>1, <6>2
        <5>4. CASE x = i
          BY <5>4, <4>1, <3>2, <1>2
        <5> QED BY <5>3, <5>4
      <4> QED BY <4>2, <4>3
    <3> QED BY <2>1, <2>3, <3>1, <3>2, <3>3 DEF PathInv
  <2> QED BY <2>5, <2>7, <2>8, <2>9, <2>10 DEF Inv
<1> QED BY <1>6, <1>7, <1>8

\* No step breaks the table.
LEMMA NextInv == Inv /\ [Next]_vars => Inv'
<1> SUFFICES ASSUME Inv, [Next]_vars PROVE Inv'
  OBVIOUS
<1>1. CASE Next
  BY <1>1, InsertStep, InsertGrowStep, RemoveStep, GrowStepStep, GrowDoneStep, ShiftStepStep
     DEF Next
<1>2. CASE UNCHANGED vars
  <2>1. UNCHANGED <<hash, slots, count, pc, hole, at, old, pending>>
    BY <1>2 DEF vars
  <2>2. TypeInv'
    BY <2>1 DEF Inv, TypeInv, IsTable, capacity
  <2>3. KeysInv'
    BY <2>1 DEF Inv, KeysInv, Unique, Waiting, Occupied
  <2>4. LoadInv'
    BY <2>1 DEF Inv, LoadInv, LenExact, Held, Occupied, Threshold, capacity
  <2>5. PathInv'
    BY <2>1 DEF Inv, PathInv, PathsWhole, Occupied, ideal, capacity
  <2> QED BY <2>2, <2>3, <2>4, <2>5 DEF Inv
<1> QED BY <1>1, <1>2

\* The table is sound in every state.
LEMMA Invariance == Spec => []Inv
BY InitInv, NextInv, PTL DEF Spec

-----------------------------------------------------------------------------
(* The theorems                                                            *)

\* Whatever is inserted and removed, in the middle of a growth or a shift too,
\* every key is in one place and len is exact (insert_pre, grow,
\* backward_shift), for every hash function.
THEOREM KeysHeldOnce == Spec => []HeldOnce
<1>1. Inv => HeldOnce
  BY HeldFacts DEF Inv, HeldOnce, LoadInv
<1> QED BY <1>1, Invariance, PTL

\* Every allocated table has an empty slot, so the search loops of get, insert
\* and grow and the loop of backward_shift meet one.
THEOREM SearchesEnd == Spec => []NeverFull
<1>1. Inv => NeverFull
  BY RoomLeft DEF Inv, NeverFull
<1> QED BY <1>1, Invariance, PTL

\* While backward_shift runs, the hole is the only gap on the way to an entry,
\* and to none that the loop has passed; between calls there is no gap at all.
THEOREM ShiftKeepsPaths == Spec => []ShiftInvariant
<1>1. Inv => ShiftInvariant
  <2> SUFFICES ASSUME Inv, pc # "grow", NEW j \in Occupied(slots)
               PROVE  LET c == capacity(slots)
                          h == ideal(slots[j].key, slots)
                          path == {(h + n) % c : n \in 0..((j - h) % c)}
                          passed == {(hole + n) % c : n \in 0..((at - hole) % c)}
                      IN  \A i \in path : slots[i] = None =>
                            pc = "shift" /\ i = hole /\ j \notin passed
    BY DEF ShiftInvariant
  <2> DEFINE c == capacity(slots)
             h == ideal(slots[j].key, slots)
             path == {(h + n) % c : n \in 0..((j - h) % c)}
             passed == {(hole + n) % c : n \in 0..((at - hole) % c)}
  <2>1. c \in Nat /\ DOMAIN slots = 0..(c - 1) /\ IsTable(slots)
        /\ hash \in [Keys -> 0..MaxHash]
    BY TableShape DEF Inv, TypeInv
  <2>2. j \in 0..(c - 1) /\ slots[j].key \in Keys
    BY <2>1, OccupiedSlots
  <2>3. c > 0
    <3> HIDE DEF c
    <3> QED BY <2>1, <2>2
  <2>4. h \in 0..(c - 1)
    BY <2>1, <2>2, <2>3, IdealSlot
  <2>5. path = {i \in 0..(c - 1) : Between(h, j, i)}
    <3> HIDE DEF c, h
    <3> QED BY <2>1, <2>2, <2>3, <2>4, PathBetween
  <2>6. ASSUME pc = "shift" PROVE passed = {i \in 0..(c - 1) : Between(hole, at, i)}
    <3>1. hole \in 0..(c - 1) /\ at \in 0..(c - 1)
      BY <2>1, <2>6 DEF Inv, TypeInv
    <3> HIDE DEF c
    <3> QED BY <2>1, <2>3, <3>1, PathBetween
  <2>7. ASSUME NEW i \in path, slots[i] = None
        PROVE  pc = "shift" /\ i = hole /\ j \notin passed
    <3>1. i \in DOMAIN slots /\ Between(h, j, i)
      BY <2>1, <2>5, <2>7
    <3>2. pc = "shift" /\ i = hole /\ ~Between(hole, at, j)
      BY <3>1, <2>7 DEF Inv, PathInv, PathsWhole, TypeInv
    <3> HIDE DEF passed
    <3> QED BY <3>2, <2>6
  <2> QED BY <2>7
<1> QED BY <1>1, Invariance, PTL

\* Between calls, get returns exactly what is stored under a key: no removal
\* has left an entry behind a gap of its probe sequence (get, backward_shift).
THEOREM LookupCorrect == Spec => []LookupFindsStored
<1>1. Inv => LookupFindsStored
  <2> SUFFICES ASSUME Inv, pc = "idle", NEW k \in Keys
               PROVE  get(k) = IF \E e \in Held : e.key = k
                               THEN (CHOOSE e \in Held : e.key = k).value ELSE None
    BY DEF LookupFindsStored
  <2>1. /\ Held = Stored(slots) /\ NoDuplicates /\ IsTable(slots)
        /\ hash \in [Keys -> 0..MaxHash]
    BY HeldFacts DEF Inv, TypeInv
  <2>2. CASE capacity(slots) = 0
    <3>1. DOMAIN slots = 0..(0 - 1)
      BY <2>1, <2>2, TableShape
    <3>2. Held = {}
      BY <2>1, <3>1 DEF Stored, Occupied
    <3> QED BY <2>2, <3>2 DEF get
  <2>3. CASE capacity(slots) # 0
    <3> DEFINE p == locate(k, slots)
    <3>1. PathsWhole(slots) /\ empty(slots) # {}
      BY <2>3, RoomLeft DEF Inv, PathInv
    <3>2. /\ slots[p] = None => \A j \in Occupied(slots) : slots[j].key # k
          /\ slots[p] # None => p \in Occupied(slots) /\ slots[p].key = k
      BY <2>1, <3>1, LocateFinds
    <3>3. get(k) = IF slots[p] = None THEN None ELSE slots[p].value
      BY <2>3 DEF get
    <3> HIDE DEF p
    <3>4. CASE slots[p] = None
      BY <2>1, <3>2, <3>3, <3>4 DEF Stored
    <3>5. CASE slots[p] # None
      <4>1. slots[p] \in Held /\ slots[p].key = k
        BY <2>1, <3>2, <3>5 DEF Stored
      <4>2. (CHOOSE e \in Held : e.key = k) = slots[p]
        BY <4>1, <2>1 DEF NoDuplicates
      <4> QED BY <4>1, <4>2, <3>3, <3>5
    <3> QED BY <3>4, <3>5
  <2> QED BY <2>2, <2>3
<1> QED BY <1>1, Invariance, PTL

\* Each call does to the contents of the map, in one step, what KeyMap.tla
\* promises to its callers; the turns of the loops in between change nothing
\* (insert_pre, remove, grow, backward_shift).
THEOREM ContractMet == Spec => CallsMeetContract
<1>1. Contents = MapOf(Held) /\ Contents' = MapOf(Held')
  BY DEF Contents, MapOf
<1>2. ASSUME Inv
      PROVE  /\ \A k \in Keys, v \in Vals : Insert(k, v) => Contents' = map_insert(Contents, k, v)
             /\ \A k \in Keys : Remove(k) => Contents' = map_remove(Contents, k)
             /\ GrowDone => Contents' = map_insert(Contents, pending.key, pending.value)
             /\ \/ ShiftStep \/ GrowStep
                \/ \E k \in Keys, v \in Vals : InsertGrow(k, v)
                => Contents' = Contents
  <2>1. ASSUME NEW k \in Keys, NEW v \in Vals, Insert(k, v)
        PROVE  Contents' = map_insert(Contents, k, v)
    BY <1>1, <1>2, <2>1, InsertStep
  <2>2. ASSUME NEW k \in Keys, Remove(k) PROVE Contents' = map_remove(Contents, k)
    BY <1>1, <1>2, <2>2, RemoveStep
  <2>3. ASSUME GrowDone PROVE Contents' = map_insert(Contents, pending.key, pending.value)
    BY <1>1, <1>2, <2>3, GrowDoneStep
  <2>4. ASSUME ShiftStep \/ GrowStep \/ \E k \in Keys, v \in Vals : InsertGrow(k, v)
        PROVE  Contents' = Contents
    <3>1. Held' = Held
      BY <1>2, <2>4, ShiftStepStep, GrowStepStep, InsertGrowStep
    <3> QED BY <1>1, <3>1
  <2> QED BY <2>1, <2>2, <2>3, <2>4
<1> QED BY <1>2, Invariance, PTL DEF CallsMeetContract

\* What a turn of backward_shift that is not the last does to the slots: there
\* is an empty slot f that stays empty, and it comes before the hole.
LEMMA ShiftAhead ==
  ASSUME Inv, ShiftStep, pc' = "shift"
  PROVE  LET c == capacity(slots)
             i == (at + 1) % c
         IN  /\ at' = i /\ slots[i] # None /\ capacity(slots') = c
             /\ \E f \in 0..(c - 1) :
                  /\ slots'[f] = None /\ f # i /\ f # hole /\ ~Between(hole, at, f)
             /\ \A x \in 0..(c - 1) : slots'[x] # None => x = hole \/ slots[x] # None
<1> DEFINE c == capacity(slots)
           i == (at + 1) % c
<1>1. /\ pc = "shift" /\ slots[i] # None /\ at' = i
      /\ \/ slots' = slots
         \/ slots' = [slots EXCEPT ![hole] = slots[i], ![i] = None]
  BY DEF ShiftStep
<1>2. /\ c \in Nat /\ c > 1 /\ DOMAIN slots = 0..(c - 1) /\ IsTable(slots)
      /\ hole \in 0..(c - 1) /\ at \in 0..(c - 1) /\ i \in 0..(c - 1)
      /\ slots[hole] = None
  BY ShiftFacts
<1>3. \A x \in DOMAIN slots : Between(hole, at, x) /\ x # hole => slots[x] # None
  BY <1>1 DEF Inv, PathInv
<1>4. PICK f \in empty(slots) : f # hole
  <2>1. capacity(slots) # 0
    BY <1>2
  <2> QED BY <2>1, <1>1, <1>2, RoomLeft DEF Inv
<1>5. f \in 0..(c - 1) /\ slots[f] = None /\ f # i /\ ~Between(hole, at, f)
  BY <1>1, <1>2, <1>3, <1>4 DEF empty
<1> HIDE DEF c, i
<1>6. DOMAIN slots' = DOMAIN slots
      /\ \A x \in DOMAIN slots : x # hole /\ x # i => slots'[x] = slots[x]
  BY <1>1
<1>7. slots'[f] = None
  BY <1>2, <1>4, <1>5, <1>6
<1>8. \A x \in 0..(c - 1) : slots'[x] # None => x = hole \/ slots[x] # None
  BY <1>1, <1>2, <1>6
<1>9. capacity(slots') = c
  BY <1>6 DEF capacity, c
<1> QED BY <1>1, <1>4, <1>5, <1>7, <1>8, <1>9 DEF c, i

\* A turn of backward_shift leaves fewer slots ahead.
LEMMA ShiftAdvances ==
  ASSUME Inv, ShiftStep, pc' = "shift"
  PROVE  Cardinality(Ahead(slots', at')) < Cardinality(Ahead(slots, at))
<1> DEFINE c == capacity(slots)
           i == (at + 1) % c
           A == Ahead(slots, at)
           B == Ahead(slots', at')
<1>1. /\ c \in Nat /\ c > 1 /\ DOMAIN slots = 0..(c - 1)
      /\ hole \in 0..(c - 1) /\ at \in 0..(c - 1) /\ i \in 0..(c - 1)
      /\ i = IF at + 1 < c THEN at + 1 ELSE 0
      /\ slots[hole] = None
  BY ShiftFacts
<1>2. at' = i /\ slots[i] # None /\ capacity(slots') = c
  BY ShiftAhead
<1>3. PICK f \in 0..(c - 1) :
        slots'[f] = None /\ f # i /\ f # hole /\ ~Between(hole, at, f)
  BY ShiftAhead
<1>4. \A x \in 0..(c - 1) : slots'[x] # None => x = hole \/ slots[x] # None
  BY ShiftAhead
<1> HIDE DEF i
<1>5. /\ A = {n \in 1..c : \A m \in 1..n : slots[(at + m) % c] # None}
      /\ B = {n \in 1..c : \A m \in 1..n : slots'[(i + m) % c] # None}
  BY <1>2 DEF Ahead
<1> HIDE DEF c, A, B
<1>6. 1 \in A
  <2>1. (at + 1) % c = i /\ 1 \in 1..c
    BY <1>1 DEF i
  <2> QED BY <2>1, <1>2, <1>5
<1>7. ASSUME NEW n \in B PROVE n + 1 \in A /\ n + 1 # 1
  <2>1. n \in 1..c /\ \A m \in 1..n : slots'[(i + m) % c] # None
    BY <1>5
  <2> DEFINE d == IF i <= f THEN f - i ELSE f - i + c
  <2>2. d \in 1..(c - 1) /\ d \in 0..c /\ f = (IF i + d < c THEN i + d ELSE i + d - c)
    BY <1>1, <1>3
  <2>3. (i + d) % c = f
    BY <2>2, <1>1, WrapUp
  <2>4. n < d
    <3> SUFFICES ASSUME d <= n PROVE FALSE
      BY <2>1, <2>2
    <3>1. d \in 1..n
      BY <2>1, <2>2
    <3> HIDE DEF d
    <3> QED BY <2>1, <2>3, <3>1, <1>3
  <2>5. n + 1 \in 1..c
    BY <2>1, <2>2, <2>4, <1>1
  <2>6. ASSUME NEW m \in 1..(n + 1) PROVE slots[(at + m) % c] # None
    <3>1. CASE m = 1
      BY <3>1, <1>2 DEF i
    <3>2. CASE m # 1
      <4> DEFINE x == (i + (m - 1)) % c
      <4>1. m - 1 \in 1..n /\ m - 1 \in 0..c /\ m \in 0..c
        BY <3>2, <2>1, <2>5, <1>1
      <4>2. slots'[x] # None
        BY <4>1, <2>1
      <4>3. x = IF i + (m - 1) < c THEN i + (m - 1) ELSE i + (m - 1) - c
        BY <4>1, <1>1, WrapUp
      <4>4. (at + m) % c = IF at + m < c THEN at + m ELSE at + m - c
        BY <4>1, <1>1, WrapUp
      <4> HIDE DEF x, d
      <4>5. (at + m) % c = x /\ x \in 0..(c - 1)
        BY <4>1, <4>3, <4>4, <1>1
      <4>6. x # hole
        BY <4>1, <4>3, <2>2, <2>4, <2>1, <1>1, <1>3 DEF Between, d
      <4> QED BY <4>2, <4>5, <4>6, <1>4
    <3> QED BY <3>1, <3>2
  <2> QED BY <2>1, <2>5, <2>6, <1>5
<1>8. IsFiniteSet(A) /\ IsFiniteSet(A \ {1}) /\ Cardinality(A \ {1}) = Cardinality(A) - 1
  <2>1. IsFiniteSet(1..c)
    BY <1>1, FS_Interval
  <2>2. IsFiniteSet(A)
    BY <2>1, <1>5, FS_Subset
  <2> QED BY <2>2, <1>6, FS_RemoveElement
<1> DEFINE g == [n \in B |-> n + 1]
<1>9. g \in Injection(B, A \ {1})
  <2>1. \A n \in B : n \in Nat
    BY <1>1, <1>5
  <2> QED BY <1>7, <2>1 DEF Injection, IsInjective
<1>10. IsFiniteSet(B) /\ Cardinality(B) <= Cardinality(A \ {1})
  <2> HIDE DEF g
  <2> QED BY <1>8, <1>9, FS_Injection
<1>11. Cardinality(B) \in Nat /\ Cardinality(A) \in Nat
  BY <1>8, <1>10, FS_CardinalityType
<1> QED BY <1>8, <1>10, <1>11 DEF A, B

\* Every call returns: each turn of backward_shift or of grow leaves fewer slots
\* to visit, although the shift moves the gaps it is looking for.
THEOREM LoopsEnd == Spec => LoopsAdvance
<1>1. ASSUME Inv, [Next]_vars
      PROVE  [/\ pc = "shift" /\ pc' = "shift" =>
                   Cardinality(Ahead(slots', at')) < Cardinality(Ahead(slots, at))
              /\ pc = "grow" /\ pc' = "grow" =>
                   at < at' /\ at' <= capacity(old)]_vars
  <2> SUFFICES ASSUME Next
               PROVE  /\ pc = "shift" /\ pc' = "shift" =>
                           Cardinality(Ahead(slots', at')) < Cardinality(Ahead(slots, at))
                      /\ pc = "grow" /\ pc' = "grow" =>
                           at < at' /\ at' <= capacity(old)
    BY <1>1
  <2>1. ASSUME pc = "shift", pc' = "shift"
        PROVE  Cardinality(Ahead(slots', at')) < Cardinality(Ahead(slots, at))
    <3>1. ShiftStep
      BY <2>1 DEF Next, Insert, InsertGrow, Remove, GrowStep, GrowDone
    <3> QED BY <1>1, <2>1, <3>1, ShiftAdvances
  <2>2. ASSUME pc = "grow", pc' = "grow" PROVE at < at' /\ at' <= capacity(old)
    <3>1. GrowStep
      BY <2>2 DEF Next, Insert, InsertGrow, Remove, ShiftStep, GrowDone
    <3>2. at \in 0..capacity(old) /\ capacity(old) \in Nat
      BY <1>1, <2>2, TableShape DEF Inv, TypeInv
    <3>3. at < capacity(old) /\ at' = at + 1
      BY <3>1 DEF GrowStep
    <3> QED BY <3>2, <3>3
  <2> QED BY <2>1, <2>2
<1> QED BY <1>1, Invariance, PTL DEF Spec, LoopsAdvance
=============================================================================
