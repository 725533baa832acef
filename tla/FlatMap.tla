------------------------------ MODULE FlatMap -------------------------------
(***************************************************************************)
(* The flat hash table (crates/core/src/map.rs): open addressing, linear   *)
(* probing, deletion by backward shift, growth by doubling.  Searching a   *)
(* slot is one step; the two loops that rewrite the table, backward_shift  *)
(* and grow, are taken turn by turn.  A map lives behind its shard's lock, *)
(* so calls do not overlap.  The hash function is random per map and is    *)
(* any function here, fixed when the map is created.                       *)
(***************************************************************************)
EXTENDS Integers, FiniteSetsExt, KeyMap

CONSTANTS
  Vals,      \* the values stored
  MaxHash,   \* hashes are 0..MaxHash
  MIN_CAP,   \* 16 in the code
  LOAD_NUM,  \* 7 in the code
  LOAD_DEN   \* 8 in the code

Slot == [key : Keys, value : Vals]

ASSUME FlatMapAssumption ==
  /\ None \notin Slot
  /\ MaxHash \in Nat
  /\ MIN_CAP \in Nat \ {0}
  /\ LOAD_DEN \in 1..MIN_CAP
  /\ LOAD_NUM \in 1..(LOAD_DEN - 1)

VARIABLES
  hash,     \* hasher.hash_one
  slots,    \* the table; capacity is a power of two times MIN_CAP, or 0
  count,    \* len
  pc,       \* "idle", or the loop that runs: "shift", "grow"
  hole,     \* backward_shift: the slot to fill
  at,       \* the index the loop has reached
  old,      \* grow: the table being copied
  pending   \* grow: the entry whose insertion made the table grow

vars == <<hash, slots, count, pc, hole, at, old, pending>>

table(n) == [i \in 0..(n - 1) |-> None]

capacity(sl) == Cardinality(DOMAIN sl)

ideal(k, sl) == hash[k] % capacity(sl)

\* Where the search loop for k ends, given the slots that satisfy its exit test.
probe(k, sl, stops) ==
  LET c == capacity(sl)
      d == Min({n \in 0..(c - 1) : (ideal(k, sl) + n) % c \in stops})
  IN  (ideal(k, sl) + d) % c

empty(sl) == {i \in DOMAIN sl : sl[i] = None}

holding(k, sl) == {i \in DOMAIN sl \ empty(sl) : sl[i].key = k}

\* A search for k ends at its entry or at an empty slot.
locate(k, sl) == probe(k, sl, empty(sl) \cup holding(k, sl))

free_slot(k, sl) == probe(k, sl, empty(sl))

\* Mutant of get: only the home slot is looked at.
get_home_only(k) ==
  IF capacity(slots) = 0 THEN None
  ELSE LET s == slots[ideal(k, slots)]
       IN  IF s = None THEN None ELSE IF s.key = k THEN s.value ELSE None

get(k) ==
  IF capacity(slots) = 0 THEN None
  ELSE LET s == slots[locate(k, slots)] IN IF s = None THEN None ELSE s.value

\* Mutant of grow_threshold: grow only when the table is full.
grow_threshold_full == capacity(slots)

grow_threshold == (capacity(slots) \div LOAD_DEN) * LOAD_NUM

\* Mutant of cyclic_in: the interval is taken not to wrap.
cyclic_in_no_wrap(a, b, x) == a < x /\ x <= b

\* Is x cyclically within (a, b]?
cyclic_in(a, b, x) == IF a < b THEN a < x /\ x <= b ELSE x > a \/ x <= b

-----------------------------------------------------------------------------
\* Mutant of Place: equal hashes are taken for equal keys.
Place_hash_only(k, v, sl) ==
  LET same == UNION {holding(j, sl) : j \in {x \in Keys : hash[x] = hash[k]}}
      i == probe(k, sl, empty(sl) \cup same)
  IN  /\ slots' = [sl EXCEPT ![i] = [key |-> IF sl[i] = None THEN k ELSE sl[i].key,
                                     value |-> v]]
      /\ count' = IF sl[i] = None THEN count + 1 ELSE count

\* The search loop of insert: overwrite k's entry or fill the empty slot.
Place(k, v, sl) ==
  LET i == locate(k, sl)
  IN  /\ slots' = [sl EXCEPT ![i] = [key |-> k, value |-> v]]
      /\ count' = IF sl[i] = None THEN count + 1 ELSE count

\* insert into a table that need not grow; the first insert allocates it.
Insert(k, v) ==
  /\ pc = "idle"
  /\ capacity(slots) = 0 \/ count < grow_threshold
  /\ Place(k, v, IF capacity(slots) = 0 THEN table(MIN_CAP) ELSE slots)
  /\ UNCHANGED <<hash, pc, hole, at, old, pending>>

\* insert at the threshold, even to overwrite: grow first.
InsertGrow(k, v) ==
  /\ pc = "idle"
  /\ capacity(slots) # 0 /\ count >= grow_threshold
  /\ pc' = "grow"
  /\ old' = slots
  /\ slots' = table(2 * capacity(slots))
  /\ at' = 0
  /\ pending' = [key |-> k, value |-> v]
  /\ UNCHANGED <<hash, count, hole>>

\* One turn of the copy loop of grow.
GrowStep ==
  /\ pc = "grow"
  /\ at < capacity(old)
  /\ slots' = IF old[at] = None THEN slots
              ELSE [slots EXCEPT ![free_slot(old[at].key, slots)] = old[at]]
  /\ at' = at + 1
  /\ UNCHANGED <<hash, count, pc, hole, old, pending>>

\* grow returns and the insertion goes on.
GrowDone ==
  /\ pc = "grow"
  /\ at = capacity(old)
  /\ Place(pending.key, pending.value, slots)
  /\ pc' = "idle" /\ at' = 0 /\ old' = table(0) /\ pending' = None
  /\ UNCHANGED <<hash, hole>>

\* remove: take the entry, then shift; nothing to do for a key that is absent.
Remove(k) ==
  /\ pc = "idle"
  /\ capacity(slots) # 0
  /\ LET i == locate(k, slots)
     IN  /\ slots[i] # None
         /\ slots' = [slots EXCEPT ![i] = None]
         /\ hole' = i
         /\ at' = i
  /\ count' = count - 1
  /\ pc' = "shift"
  /\ UNCHANGED <<hash, old, pending>>

\* Mutant of ShiftStep: the entry is copied into the hole and not taken.
ShiftStep_copies ==
  /\ pc = "shift"
  /\ LET i == (at + 1) % capacity(slots)
     IN  IF slots[i] = None
         THEN pc' = "idle" /\ at' = 0 /\ hole' = 0 /\ UNCHANGED slots
         ELSE /\ at' = i
              /\ pc' = pc
              /\ IF cyclic_in(hole, i, ideal(slots[i].key, slots))
                 THEN UNCHANGED <<slots, hole>>
                 ELSE slots' = [slots EXCEPT ![hole] = slots[i]] /\ hole' = i
  /\ UNCHANGED <<hash, count, old, pending>>

\* Mutant of ShiftStep: the loop goes on over empty slots, once around.
ShiftStep_once_around ==
  /\ pc = "shift"
  /\ LET i == (at + 1) % capacity(slots)
     IN  IF i = hole
         THEN pc' = "idle" /\ at' = 0 /\ hole' = 0 /\ UNCHANGED slots
         ELSE /\ at' = i
              /\ pc' = pc
              /\ IF slots[i] = None \/ cyclic_in(hole, i, ideal(slots[i].key, slots))
                 THEN UNCHANGED <<slots, hole>>
                 ELSE /\ slots' = [slots EXCEPT ![hole] = slots[i], ![i] = None]
                      /\ hole' = i
  /\ UNCHANGED <<hash, count, old, pending>>

\* One turn of backward_shift: move the next entry into the hole unless its
\* ideal slot lies after the hole; stop at an empty slot.
ShiftStep ==
  /\ pc = "shift"
  /\ LET i == (at + 1) % capacity(slots)
     IN  IF slots[i] = None
         THEN pc' = "idle" /\ at' = 0 /\ hole' = 0 /\ UNCHANGED slots
         ELSE /\ at' = i
              /\ pc' = pc
              /\ IF cyclic_in(hole, i, ideal(slots[i].key, slots))
                 THEN UNCHANGED <<slots, hole>>
                 ELSE /\ slots' = [slots EXCEPT ![hole] = slots[i], ![i] = None]
                      /\ hole' = i
  /\ UNCHANGED <<hash, count, old, pending>>

Init ==
  /\ hash \in [Keys -> 0..MaxHash]
  /\ slots = table(0) /\ old = table(0)
  /\ count = 0 /\ hole = 0 /\ at = 0
  /\ pc = "idle"
  /\ pending = None

Next ==
  \/ \E k \in Keys, v \in Vals : Insert(k, v) \/ InsertGrow(k, v)
  \/ \E k \in Keys : Remove(k)
  \/ GrowStep \/ GrowDone \/ ShiftStep

Spec == Init /\ [][Next]_vars

-----------------------------------------------------------------------------
(* Correctness *)

Occupied(sl) == {i \in DOMAIN sl : sl[i] # None}

\* The entries of the map: those in the table and those still to be copied.
Held == {slots[i] : i \in Occupied(slots)}
          \cup {old[i] : i \in {j \in Occupied(old) : j >= at}}

\* No key is held twice, so what the map contains is well defined.
NoDuplicates ==
  /\ \A i, j \in Occupied(slots) : slots[i].key = slots[j].key => i = j
  /\ \A e, f \in Held : e.key = f.key => e = f

\* len is the number of entries, in the middle of a growth too.
LenExact == count = Cardinality(Held)

\* Overwriting, growing and shifting leave every key in one place, counted once
\* (insert_pre, grow, backward_shift).
HeldOnce == NoDuplicates /\ LenExact

\* Between calls a lookup finds exactly what is stored: no removal leaves an
\* entry behind a gap of its probe sequence.
LookupFindsStored ==
  pc = "idle" =>
    \A k \in Keys :
      get(k) = IF \E e \in Held : e.key = k
               THEN (CHOOSE e \in Held : e.key = k).value ELSE None

\* The search loops have no bound of their own: they end because some slot of
\* every allocated table is empty.
NeverFull ==
  capacity(slots) # 0 => Occupied(slots) # DOMAIN slots

\* While backward_shift runs, only the hole may interrupt a probe sequence, and
\* not that of an entry the loop has passed.
ShiftInvariant ==
  pc # "grow" =>
    \A j \in Occupied(slots) :
      LET c == capacity(slots)
          h == ideal(slots[j].key, slots)
          path == {(h + n) % c : n \in 0..((j - h) % c)}
          passed == {(hole + n) % c : n \in 0..((at - hole) % c)}
      IN  \A i \in path : slots[i] = None =>
            pc = "shift" /\ i = hole /\ j \notin passed

Contents ==
  [k \in {e.key : e \in Held} |-> (CHOOSE e \in Held : e.key = k).value]

\* Each call does to what the map holds exactly what its callers rely on
\* (KeyMap.tla), in one step; shifting and copying entries changes nothing.
CallsMeetContract ==
  [][/\ \A k \in Keys, v \in Vals : Insert(k, v) => Contents' = map_insert(Contents, k, v)
     /\ \A k \in Keys : Remove(k) => Contents' = map_remove(Contents, k)
     /\ GrowDone => Contents' = map_insert(Contents, pending.key, pending.value)
     /\ \/ ShiftStep \/ GrowStep
        \/ \E k \in Keys, v \in Vals : InsertGrow(k, v)
        => Contents' = Contents]_vars

\* The slots that backward_shift, at j, has yet to visit before it meets an
\* empty one.
Ahead(sl, j) ==
  {n \in 1..capacity(sl) :
     \A m \in 1..n : sl[(j + m) % capacity(sl)] # None}

\* Every call returns: each turn of backward_shift or grow leaves fewer slots
\* to visit, although the shift moves the gaps it is looking for.
LoopsAdvance ==
  [][/\ pc = "shift" /\ pc' = "shift" =>
          Cardinality(Ahead(slots', at')) < Cardinality(Ahead(slots, at))
     /\ pc = "grow" /\ pc' = "grow" =>
          at < at' /\ at' <= capacity(old)]_vars
=============================================================================
