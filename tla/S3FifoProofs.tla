---------------------------- MODULE S3FifoProofs ----------------------------
(***************************************************************************)
(* Every method of the eviction policy keeps a sound policy sound, and     *)
(* changes the set of live keys as its caller expects.                     *)
(***************************************************************************)
EXTENDS S3Fifo, Numbers, SequenceTheorems

-----------------------------------------------------------------------------
(* Queues as sets of keys *)

\* Pushing a key adds it to the keys of a queue.
LEMMA RangeAppend ==
  ASSUME NEW S, NEW s \in Seq(S), NEW x \in S
  PROVE  /\ Append(s, x) \in Seq(S)
         /\ Range(Append(s, x)) = Range(s) \cup {x}
<1>1. /\ Append(s, x) \in Seq(S)
      /\ Len(Append(s, x)) = Len(s) + 1
      /\ \A i \in 1..Len(s) : Append(s, x)[i] = s[i]
      /\ Append(s, x)[Len(s) + 1] = x
  BY AppendProperties
<1>2. /\ Len(s) \in Nat
      /\ DOMAIN s = 1..Len(s)
      /\ DOMAIN Append(s, x) = 1..(Len(s) + 1)
  BY <1>1, LenProperties
<1> DEFINE t == Append(s, x)
<1> HIDE DEF t
<1>3. ASSUME NEW y \in Range(t) PROVE y \in Range(s) \cup {x}
  BY <1>1, <1>2 DEF Range, t
<1>4. ASSUME NEW y \in Range(s) \cup {x} PROVE y \in Range(t)
  BY <1>1, <1>2 DEF Range, t
<1> QED BY <1>1, <1>3, <1>4 DEF t

\* Popping the head loses at most that key.
LEMMA RangeTail ==
  ASSUME NEW S, NEW s \in Seq(S), s # <<>>
  PROVE  /\ Head(s) \in S
         /\ Tail(s) \in Seq(S)
         /\ Range(s) = Range(Tail(s)) \cup {Head(s)}
<1>1. /\ Head(s) \in S
      /\ Tail(s) \in Seq(S)
      /\ Len(Tail(s)) = Len(s) - 1
      /\ \A i \in 1 .. Len(Tail(s)) : Tail(s)[i] = s[i+1]
  BY HeadTailProperties
<1>2. DOMAIN s = 1..Len(s) /\ DOMAIN Tail(s) = 1..Len(Tail(s)) /\ Len(s) \in Nat \ {0}
  BY <1>1, LenProperties, EmptySeq
<1>3. Head(s) = s[1]
  OBVIOUS
<1>4. ASSUME NEW x \in Range(s) PROVE x \in Range(Tail(s)) \cup {Head(s)}
  <2>1. PICK i \in 1..Len(s) : x = s[i]
    BY <1>2 DEF Range
  <2>2. CASE i = 1
    BY <2>1, <2>2, <1>3
  <2>3. CASE i # 1
    <3>1. i - 1 \in 1..Len(Tail(s)) /\ Tail(s)[i-1] = s[(i-1)+1]
      BY <2>3, <1>1, <1>2
    <3>2. x = Tail(s)[i-1] /\ i - 1 \in DOMAIN Tail(s)
      BY <3>1, <2>1, <1>2
    <3> QED BY <3>2 DEF Range
  <2> QED BY <2>2, <2>3
<1>5. ASSUME NEW x \in Range(Tail(s)) \cup {Head(s)} PROVE x \in Range(s)
  <2>1. CASE x = Head(s)
    BY <2>1, <1>2, <1>3 DEF Range
  <2>2. CASE x \in Range(Tail(s))
    <3>1. PICK i \in 1..Len(Tail(s)) : x = Tail(s)[i]
      BY <2>2, <1>2 DEF Range
    <3>2. x = s[i+1] /\ i + 1 \in DOMAIN s
      BY <3>1, <1>1, <1>2
    <3> QED BY <3>2 DEF Range
  <2> QED BY <2>1, <2>2
<1> QED BY <1>1, <1>4, <1>5

\* Popping the first n references loses at most their keys.
LEMMA RangeSplit ==
  ASSUME NEW S, NEW s \in Seq(S), NEW n \in 0..Len(s)
  PROVE  /\ SubSeq(s, n + 1, Len(s)) \in Seq(S)
         /\ Range(s) \subseteq Range(SubSeq(s, 1, n)) \cup Range(SubSeq(s, n + 1, Len(s)))
<1> DEFINE a == SubSeq(s, 1, n)
           b == SubSeq(s, n + 1, Len(s))
<1>1. Len(s) \in Nat /\ DOMAIN s = 1..Len(s) /\ n \in Nat /\ \A i \in 1..Len(s) : s[i] \in S
  BY LenProperties, ElementOfSeq
<1>2. /\ a \in Seq(S)
      /\ Len(a) = IF 1 <= n THEN n - 1 + 1 ELSE 0
      /\ \A i \in 1..(n - 1 + 1) : a[i] = s[1 + i - 1]
  BY <1>1, SubSeqProperties
<1>3. /\ b \in Seq(S)
      /\ Len(b) = IF n + 1 <= Len(s) THEN Len(s) - (n + 1) + 1 ELSE 0
      /\ \A i \in 1..(Len(s) - (n + 1) + 1) : b[i] = s[(n + 1) + i - 1]
  <2>1. \A i \in (n + 1)..Len(s) : s[i] \in S
    BY <1>1
  <2> QED BY <1>1, <2>1, SubSeqProperties
<1>4. DOMAIN a = 1..n /\ DOMAIN b = 1..(Len(s) - n)
  BY <1>1, <1>2, <1>3, LenProperties
<1>5. ASSUME NEW i \in 1..Len(s) PROVE s[i] \in Range(a) \cup Range(b)
  <2>1. CASE i <= n
    <3>1. i \in DOMAIN a /\ a[i] = s[i]
      BY <1>1, <1>2, <1>4, <2>1
    <3> HIDE DEF a, b
    <3> QED BY <3>1 DEF Range
  <2>2. CASE ~(i <= n)
    <3>1. i - n \in DOMAIN b /\ b[i - n] = s[i]
      BY <1>1, <1>3, <1>4, <2>2
    <3> HIDE DEF a, b
    <3> QED BY <3>1 DEF Range
  <2> QED BY <2>1, <2>2
<1> QED BY <1>1, <1>3, <1>5 DEF Range

-----------------------------------------------------------------------------
(* The length of the trim *)

\* A nonempty set of naturals has a least element.
LEMMA MinOfNaturals ==
  ASSUME NEW T, T \subseteq Nat, T # {}
  PROVE  Min(T) \in T /\ \A y \in T : Min(T) <= y
BY LeastMember DEF Min

\* The loop of push_ghost pops no more references than there are.
LEMMA TrimmedBounds ==
  ASSUME NEW g \in Seq(Keys), NEW gs, NEW cap
  PROVE  trimmed(g, gs, cap) \in 0..Len(g)
<1> DEFINE T == {n \in 0..Len(g) : Cardinality(gs \ Range(SubSeq(g, 1, n))) <= cap}
                  \cup {Len(g)}
<1>1. Len(g) \in Nat
  BY LenProperties
<1>2. T \subseteq 0..Len(g) /\ T # {} /\ T \subseteq Nat
  BY <1>1
<1>3. Min(T) \in T
  <2> HIDE DEF T
  <2> QED BY <1>2, MinOfNaturals
<1>4. trimmed(g, gs, cap) = Min(T)
  BY DEF trimmed
<1> QED
  <2> HIDE DEF T
  <2> QED BY <1>2, <1>3, <1>4

-----------------------------------------------------------------------------
(* The records *)

\* A map of metadata is a function on some of the keys.
LEMMA MetaMapDef ==
  ASSUME NEW m
  PROVE  m \in MetaMap <=> DOMAIN m \subseteq Keys /\ m \in [DOMAIN m -> Meta]
  BY DEF MetaMap

\* The live keys of a queue are finitely many, so that they can be counted.
LEMMA LocatedFinite ==
  ASSUME NEW p, p \in Policy, NEW l
  PROVE  /\ IsFiniteSet(Located(p, l))
         /\ Cardinality(Located(p, l)) \in Nat
         /\ Located(p, l) = {} <=> Cardinality(Located(p, l)) = 0
<1>1. Located(p, l) \subseteq Keys
  BY MetaMapDef DEF Located, Policy
<1>2. IsFiniteSet(Located(p, l))
  BY <1>1, KeysAssumption, FS_Subset
<1> QED BY <1>2, FS_CardinalityType, FS_EmptySet

\* The empty policy is sound.
LEMMA PolNewOK == PolicyOK(pol_new) /\ DOMAIN pol_new.meta = {}
<1>1. pol_new \in Policy
  BY MetaMapDef, EmptySeq DEF pol_new, map_new, Policy
<1>2. Located(pol_new, "Small") = {} /\ Located(pol_new, "Main") = {}
  BY DEF Located, pol_new, map_new
<1>3. CountsOK(pol_new)
  BY <1>2, FS_EmptySet DEF CountsOK, pol_new
<1> QED BY <1>1, <1>2, <1>3 DEF PolicyOK, QueuedOK, GhostOK, pol_new, map_new

\* What a policy's fields are, for use without the definition of Policy.
LEMMA PolicyFields ==
  ASSUME NEW p, p \in Policy
  PROVE  /\ p.small \in Seq(Keys) /\ p.main \in Seq(Keys) /\ p.ghost \in Seq(Keys)
         /\ p.meta \in MetaMap /\ DOMAIN p.meta \subseteq Keys
         /\ \A k \in DOMAIN p.meta : p.meta[k] \in Meta
         /\ p.ghost_set \subseteq Keys
         /\ p.small_count \in Nat /\ p.main_count \in Nat
  BY MetaMapDef DEF Policy

\* Inserting into a map of metadata.
LEMMA MetaInsert ==
  ASSUME NEW m \in MetaMap, NEW k \in Keys, NEW e \in Meta
  PROVE  /\ map_insert(m, k, e) \in MetaMap
         /\ DOMAIN map_insert(m, k, e) = DOMAIN m \cup {k}
         /\ map_insert(m, k, e)[k] = e
         /\ \A j \in DOMAIN m \ {k} : map_insert(m, k, e)[j] = m[j]
  BY MetaMapDef DEF map_insert

\* Removing from a map of metadata.
LEMMA MetaRemove ==
  ASSUME NEW m \in MetaMap, NEW k
  PROVE  /\ map_remove(m, k) \in MetaMap
         /\ DOMAIN map_remove(m, k) = DOMAIN m \ {k}
         /\ \A j \in DOMAIN m \ {k} : map_remove(m, k)[j] = m[j]
  BY MetaMapDef DEF map_remove

\* Rewriting the metadata of a live key.
LEMMA MetaUpdate ==
  ASSUME NEW m \in MetaMap, NEW k \in DOMAIN m, NEW e \in Meta
  PROVE  /\ [m EXCEPT ![k] = e] \in MetaMap
         /\ DOMAIN [m EXCEPT ![k] = e] = DOMAIN m
         /\ [m EXCEPT ![k] = e][k] = e
         /\ \A j \in DOMAIN m \ {k} : [m EXCEPT ![k] = e][j] = m[j]
  BY MetaMapDef

\* S3Fifo::insert of a key that is not live makes it live.
LEMMA InsertOK ==
  ASSUME NEW p, PolicyOK(p), NEW k \in Keys, k \notin DOMAIN p.meta
  PROVE  /\ PolicyOK(insert(p, k))
         /\ DOMAIN insert(p, k).meta = DOMAIN p.meta \cup {k}
<1>0. /\ p \in Policy /\ CountsOK(p) /\ QueuedOK(p) /\ GhostOK(p)
      /\ p.small \in Seq(Keys) /\ p.main \in Seq(Keys) /\ p.meta \in MetaMap
      /\ p.small_count \in Nat /\ p.main_count \in Nat
  BY PolicyFields DEF PolicyOK
<1>1. CASE k \in p.ghost_set
  <2> DEFINE e == [freq |-> 0, loc |-> "Main"]
             m == map_insert(p.meta, k, e)
             a == Append(p.main, k)
             c == p.main_count + 1
             q == insert(p, k)
  <2>1. e \in Meta /\ e.loc = "Main"
    BY PolicyAssumption DEF Meta, Loc
  <2>2. /\ m \in MetaMap /\ DOMAIN m = DOMAIN p.meta \cup {k}
        /\ m[k] = e /\ \A j \in DOMAIN p.meta \ {k} : m[j] = p.meta[j]
    <3> DEFINE n == p.meta
    <3>1. n \in MetaMap
      BY <1>0
    <3> HIDE DEF e, n
    <3>2. /\ map_insert(n, k, e) \in MetaMap /\ DOMAIN map_insert(n, k, e) = DOMAIN n \cup {k}
          /\ map_insert(n, k, e)[k] = e
          /\ \A j \in DOMAIN n \ {k} : map_insert(n, k, e)[j] = n[j]
      BY <2>1, <3>1, MetaInsert, ZenonT(40)
    <3> QED BY <3>2 DEF n
  <2>3. a \in Seq(Keys) /\ Range(a) = Range(p.main) \cup {k}
    BY <1>0, RangeAppend
  <2>4. c \in Nat /\ c = p.main_count + 1
    BY <1>0
  <2>5. q = [p EXCEPT !.ghost_set = p.ghost_set \ {k}, !.meta = m, !.main = a, !.main_count = c]
    BY <1>1 DEF insert
  <2> HIDE DEF e, m, a, c, q
  <2>6. /\ q \in Policy
        /\ q.meta = m /\ q.main = a /\ q.small = p.small /\ q.ghost = p.ghost
        /\ q.main_count = c /\ q.small_count = p.small_count
        /\ q.ghost_set = p.ghost_set \ {k}
    BY <1>0, <1>1, <2>2, <2>3, <2>4, <2>5 DEF Policy
  <2>7. /\ Located(q, "Small") = Located(p, "Small")
        /\ Located(q, "Main") = Located(p, "Main") \cup {k}
        /\ k \notin Located(p, "Main")
    BY <2>1, <2>2, <2>6 DEF Located
  <2>8. CountsOK(q)
    BY <1>0, <2>4, <2>6, <2>7, LocatedFinite, FS_AddElement DEF CountsOK
  <2>9. QueuedOK(q) /\ GhostOK(q)
    BY <1>0, <2>2, <2>3, <2>6, <2>7 DEF QueuedOK, GhostOK
  <2> QED BY <2>2, <2>6, <2>8, <2>9 DEF PolicyOK, q
<1>2. CASE k \notin p.ghost_set
  <2> DEFINE e == [freq |-> 0, loc |-> "Small"]
             m == map_insert(p.meta, k, e)
             a == Append(p.small, k)
             c == p.small_count + 1
             q == insert(p, k)
  <2>1. e \in Meta /\ e.loc = "Small"
    BY PolicyAssumption DEF Meta, Loc
  <2>2. /\ m \in MetaMap /\ DOMAIN m = DOMAIN p.meta \cup {k}
        /\ m[k] = e /\ \A j \in DOMAIN p.meta \ {k} : m[j] = p.meta[j]
    <3> DEFINE n == p.meta
    <3>1. n \in MetaMap
      BY <1>0
    <3> HIDE DEF e, n
    <3>2. /\ map_insert(n, k, e) \in MetaMap /\ DOMAIN map_insert(n, k, e) = DOMAIN n \cup {k}
          /\ map_insert(n, k, e)[k] = e
          /\ \A j \in DOMAIN n \ {k} : map_insert(n, k, e)[j] = n[j]
      BY <2>1, <3>1, MetaInsert, ZenonT(40)
    <3> QED BY <3>2 DEF n
  <2>3. a \in Seq(Keys) /\ Range(a) = Range(p.small) \cup {k}
    BY <1>0, RangeAppend
  <2>4. c \in Nat /\ c = p.small_count + 1
    BY <1>0
  <2>5. q = [p EXCEPT !.meta = m, !.small = a, !.small_count = c]
    BY <1>2 DEF insert
  <2> HIDE DEF e, m, a, c, q
  <2>6. /\ q \in Policy
        /\ q.meta = m /\ q.small = a /\ q.main = p.main /\ q.ghost = p.ghost
        /\ q.small_count = c /\ q.main_count = p.main_count
        /\ q.ghost_set = p.ghost_set \ {k}
    BY <1>0, <1>2, <2>2, <2>3, <2>4, <2>5 DEF Policy
  <2>7. /\ Located(q, "Main") = Located(p, "Main")
        /\ Located(q, "Small") = Located(p, "Small") \cup {k}
        /\ k \notin Located(p, "Small")
    BY <2>1, <2>2, <2>6 DEF Located
  <2>8. CountsOK(q)
    BY <1>0, <2>4, <2>6, <2>7, LocatedFinite, FS_AddElement DEF CountsOK
  <2>9. QueuedOK(q) /\ GhostOK(q)
    BY <1>0, <2>2, <2>3, <2>6, <2>7 DEF QueuedOK, GhostOK
  <2> QED BY <2>2, <2>6, <2>8, <2>9 DEF PolicyOK, q
<1> QED BY <1>1, <1>2

\* S3Fifo::touch changes no key's place.
LEMMA TouchOK ==
  ASSUME NEW p, PolicyOK(p), NEW k
  PROVE  PolicyOK(touch(p, k)) /\ DOMAIN touch(p, k).meta = DOMAIN p.meta
<1>0. /\ p \in Policy /\ CountsOK(p) /\ QueuedOK(p) /\ GhostOK(p)
      /\ p.meta \in MetaMap /\ \A j \in DOMAIN p.meta : p.meta[j] \in Meta
  BY PolicyFields DEF PolicyOK
<1>1. CASE k \notin DOMAIN p.meta
  BY <1>1 DEF touch
<1>2. CASE k \in DOMAIN p.meta
  <2> DEFINE e == [p.meta[k] EXCEPT !.freq = bumped(p.meta[k].freq)]
             m == [p.meta EXCEPT ![k] = e]
             q == touch(p, k)
  <2>1. e \in Meta /\ e.loc = p.meta[k].loc
    <3>1. p.meta[k] \in Meta /\ bumped(p.meta[k].freq) \in 0..FREQ_MAX
      BY <1>0, <1>2, PolicyAssumption DEF bumped, Meta
    <3> QED BY <3>1 DEF Meta
  <2>2. /\ m \in MetaMap /\ DOMAIN m = DOMAIN p.meta
        /\ m[k] = e /\ \A j \in DOMAIN p.meta \ {k} : m[j] = p.meta[j]
    <3> HIDE DEF e
    <3> QED BY <1>0, <1>2, <2>1, MetaUpdate
  <2>3. q = [p EXCEPT !.meta = m]
    BY <1>2 DEF touch
  <2> HIDE DEF e, m, q
  <2>4. /\ q \in Policy
        /\ q.meta = m /\ q.small = p.small /\ q.main = p.main /\ q.ghost = p.ghost
        /\ q.small_count = p.small_count /\ q.main_count = p.main_count
        /\ q.ghost_set = p.ghost_set
    BY <1>0, <2>2, <2>3 DEF Policy
  <2>5. \A l : Located(q, l) = Located(p, l)
    BY <2>1, <2>2, <2>4 DEF Located
  <2> QED BY <1>0, <2>2, <2>4, <2>5 DEF PolicyOK, CountsOK, QueuedOK, GhostOK, q
<1> QED BY <1>1, <1>2

\* S3Fifo::remove of a live key makes it not live; its references stay.
LEMMA RemoveOK ==
  ASSUME NEW p, PolicyOK(p), NEW k \in DOMAIN p.meta
  PROVE  /\ PolicyOK(remove(p, k))
         /\ DOMAIN remove(p, k).meta = DOMAIN p.meta \ {k}
<1>0. /\ p \in Policy /\ CountsOK(p) /\ QueuedOK(p) /\ GhostOK(p)
      /\ p.meta \in MetaMap /\ p.meta[k] \in Meta
      /\ p.small_count \in Nat /\ p.main_count \in Nat
  BY PolicyFields DEF PolicyOK
<1>1. CASE p.meta[k].loc = "Small"
  <2> DEFINE m == map_remove(p.meta, k)
             c == p.small_count - 1
             q == remove(p, k)
  <2>1. /\ m \in MetaMap /\ DOMAIN m = DOMAIN p.meta \ {k}
        /\ \A j \in DOMAIN p.meta \ {k} : m[j] = p.meta[j]
    BY <1>0, MetaRemove
  <2>2. k \in Located(p, "Small")
    BY <1>0, <1>1 DEF Located, Meta, Loc
  <2>3. c \in Nat /\ c = p.small_count - 1
    <3>1. p.small_count # 0
      BY <1>0, <2>2, LocatedFinite DEF CountsOK
    <3> QED BY <1>0, <3>1
  <2>4. q = [p EXCEPT !.meta = m, !.small_count = c]
    BY <1>1 DEF remove
  <2> HIDE DEF m, c, q
  <2>5. /\ q \in Policy
        /\ q.meta = m /\ q.small = p.small /\ q.main = p.main /\ q.ghost = p.ghost
        /\ q.small_count = c /\ q.main_count = p.main_count
        /\ q.ghost_set = p.ghost_set
    BY <1>0, <2>1, <2>3, <2>4 DEF Policy
  <2>6. /\ Located(q, "Main") = Located(p, "Main")
        /\ Located(q, "Small") = Located(p, "Small") \ {k}
    BY <2>1, <2>2, <2>5 DEF Located
  <2>7. CountsOK(q)
    BY <1>0, <2>2, <2>3, <2>5, <2>6, LocatedFinite, FS_RemoveElement DEF CountsOK
  <2>8. QueuedOK(q) /\ GhostOK(q)
    BY <1>0, <2>1, <2>5, <2>6 DEF QueuedOK, GhostOK
  <2> QED BY <2>1, <2>5, <2>7, <2>8 DEF PolicyOK, q
<1>2. CASE p.meta[k].loc # "Small"
  <2> DEFINE m == map_remove(p.meta, k)
             c == p.main_count - 1
             q == remove(p, k)
  <2>1. /\ m \in MetaMap /\ DOMAIN m = DOMAIN p.meta \ {k}
        /\ \A j \in DOMAIN p.meta \ {k} : m[j] = p.meta[j]
    BY <1>0, MetaRemove
  <2>2. k \in Located(p, "Main")
    BY <1>0, <1>2 DEF Located, Meta, Loc
  <2>3. c \in Nat /\ c = p.main_count - 1
    <3>1. p.main_count # 0
      BY <1>0, <2>2, LocatedFinite DEF CountsOK
    <3> QED BY <1>0, <3>1
  <2>4. q = [p EXCEPT !.meta = m, !.main_count = c]
    BY <1>2 DEF remove
  <2> HIDE DEF m, c, q
  <2>5. /\ q \in Policy
        /\ q.meta = m /\ q.small = p.small /\ q.main = p.main /\ q.ghost = p.ghost
        /\ q.main_count = c /\ q.small_count = p.small_count
        /\ q.ghost_set = p.ghost_set
    BY <1>0, <2>1, <2>3, <2>4 DEF Policy
  <2>6. /\ Located(q, "Small") = Located(p, "Small")
        /\ Located(q, "Main") = Located(p, "Main") \ {k}
    BY <2>1, <2>2, <2>5 DEF Located
  <2>7. CountsOK(q)
    BY <1>0, <2>2, <2>3, <2>5, <2>6, LocatedFinite, FS_RemoveElement DEF CountsOK
  <2>8. QueuedOK(q) /\ GhostOK(q)
    BY <1>0, <2>1, <2>5, <2>6 DEF QueuedOK, GhostOK
  <2> QED BY <2>1, <2>5, <2>7, <2>8 DEF PolicyOK, q
<1> QED BY <1>1, <1>2

\* S3Fifo::remove of a key that is not live does nothing.
LEMMA RemoveAbsent ==
  ASSUME NEW p, NEW k, k \notin DOMAIN p.meta
  PROVE  remove(p, k) = p
  BY DEF remove

\* push_ghost changes only the ghost queue and the ghost set, and keeps the
\* set within the queue whatever stale references the trim pops.
LEMMA PushGhostOK ==
  ASSUME NEW p, PolicyOK(p), NEW k \in Keys, k \notin DOMAIN p.meta
  PROVE  PolicyOK(push_ghost(p, k)) /\ push_ghost(p, k).meta = p.meta
<1>0. /\ p \in Policy /\ CountsOK(p) /\ QueuedOK(p) /\ GhostOK(p)
      /\ p.ghost \in Seq(Keys) /\ p.ghost_set \subseteq Keys
  BY PolicyFields DEF PolicyOK
<1> DEFINE g  == Append(p.ghost, k)
           gs == p.ghost_set \cup {k}
           n  == trimmed(g, gs, ghost_cap(p))
           h  == SubSeq(g, n + 1, Len(g))
           hs == gs \ Range(SubSeq(g, 1, n))
           q  == push_ghost(p, k)
<1>1. g \in Seq(Keys) /\ Range(g) = Range(p.ghost) \cup {k}
  BY <1>0, RangeAppend
<1>2. n \in 0..Len(g)
  <2> HIDE DEF g
  <2> QED BY <1>1, TrimmedBounds
<1>3. h \in Seq(Keys) /\ Range(g) \subseteq Range(SubSeq(g, 1, n)) \cup Range(h)
  <2> HIDE DEF g, n
  <2> QED BY <1>1, <1>2, RangeSplit
<1>4. q = [p EXCEPT !.ghost = h, !.ghost_set = hs]
  BY DEF push_ghost
<1>5. hs \subseteq gs /\ hs \subseteq Range(h)
  <2> HIDE DEF g, n, h
  <2>1. gs \subseteq Range(g)
    BY <1>0, <1>1 DEF GhostOK
  <2> QED BY <1>3, <2>1
<1>6. gs \subseteq Keys /\ gs \cap DOMAIN p.meta = {}
  BY <1>0 DEF GhostOK
<1> HIDE DEF g, gs, n, h, hs, q
<1>7. /\ q \in Policy
      /\ q.meta = p.meta /\ q.small = p.small /\ q.main = p.main /\ q.ghost = h
      /\ q.small_count = p.small_count /\ q.main_count = p.main_count
      /\ q.ghost_set = hs
  BY <1>0, <1>3, <1>4, <1>5, <1>6 DEF Policy
<1>8. \A l : Located(q, l) = Located(p, l)
  BY <1>7 DEF Located
<1> QED BY <1>0, <1>5, <1>6, <1>7, <1>8 DEF PolicyOK, CountsOK, QueuedOK, GhostOK, q

\* Popping a reference that no live key of the queue needs.
LEMMA PopSmallOK ==
  ASSUME NEW p, PolicyOK(p), p.small # <<>>, Head(p.small) \notin Located(p, "Small")
  PROVE  /\ PolicyOK([p EXCEPT !.small = Tail(p.small)])
         /\ [p EXCEPT !.small = Tail(p.small)].meta = p.meta
<1>0. /\ p \in Policy /\ CountsOK(p) /\ QueuedOK(p) /\ GhostOK(p) /\ p.small \in Seq(Keys)
  BY PolicyFields DEF PolicyOK
<1> DEFINE a == Tail(p.small)
           q == [p EXCEPT !.small = a]
<1>1. a \in Seq(Keys) /\ Range(p.small) = Range(a) \cup {Head(p.small)}
  BY <1>0, RangeTail
<1> HIDE DEF a
<1>2. /\ q \in Policy
      /\ q.meta = p.meta /\ q.small = a /\ q.main = p.main /\ q.ghost = p.ghost
      /\ q.small_count = p.small_count /\ q.main_count = p.main_count
      /\ q.ghost_set = p.ghost_set
  BY <1>0, <1>1 DEF Policy
<1> HIDE DEF q
<1>3. \A l : Located(q, l) = Located(p, l)
  BY <1>2 DEF Located
<1>4. PolicyOK(q) /\ q.meta = p.meta
  BY <1>0, <1>1, <1>2, <1>3 DEF PolicyOK, CountsOK, QueuedOK, GhostOK
<1> QED BY <1>4 DEF q, a

\* The same for the main queue.
LEMMA PopMainOK ==
  ASSUME NEW p, PolicyOK(p), p.main # <<>>, Head(p.main) \notin Located(p, "Main")
  PROVE  /\ PolicyOK([p EXCEPT !.main = Tail(p.main)])
         /\ [p EXCEPT !.main = Tail(p.main)].meta = p.meta
<1>0. /\ p \in Policy /\ CountsOK(p) /\ QueuedOK(p) /\ GhostOK(p) /\ p.main \in Seq(Keys)
  BY PolicyFields DEF PolicyOK
<1> DEFINE a == Tail(p.main)
           q == [p EXCEPT !.main = a]
<1>1. a \in Seq(Keys) /\ Range(p.main) = Range(a) \cup {Head(p.main)}
  BY <1>0, RangeTail
<1> HIDE DEF a
<1>2. /\ q \in Policy
      /\ q.meta = p.meta /\ q.small = p.small /\ q.main = a /\ q.ghost = p.ghost
      /\ q.small_count = p.small_count /\ q.main_count = p.main_count
      /\ q.ghost_set = p.ghost_set
  BY <1>0, <1>1 DEF Policy
<1> HIDE DEF q
<1>3. \A l : Located(q, l) = Located(p, l)
  BY <1>2 DEF Located
<1>4. PolicyOK(q) /\ q.meta = p.meta
  BY <1>0, <1>1, <1>2, <1>3 DEF PolicyOK, CountsOK, QueuedOK, GhostOK
<1> QED BY <1>4 DEF q, a

-----------------------------------------------------------------------------
(* The steps of the eviction loop *)

\* What a step of the eviction loop owes its caller: a sound policy, and a
\* victim, if any, that was live and is not any more.
SoundStep(p, r) ==
  /\ PolicyOK(r.pol)
  /\ \/ r.victim = None /\ DOMAIN r.pol.meta = DOMAIN p.meta
     \/ r.victim \in DOMAIN p.meta /\ DOMAIN r.pol.meta = DOMAIN p.meta \ {r.victim}

\* A promotion moves a key of the small queue to the back of the main queue.
LEMMA PromoteOK ==
  ASSUME NEW p, PolicyOK(p), NEW k \in Located(p, "Small"), NEW q,
         q = [p EXCEPT !.meta[k] = [freq |-> 0, loc |-> "Main"],
                       !.small_count = p.small_count - 1,
                       !.main_count = p.main_count + 1,
                       !.main = Append(p.main, k)]
  PROVE  /\ PolicyOK(q) /\ DOMAIN q.meta = DOMAIN p.meta
         /\ k \notin Located(q, "Small") /\ q.small = p.small
<1>0. /\ p \in Policy /\ CountsOK(p) /\ QueuedOK(p) /\ GhostOK(p)
      /\ p.meta \in MetaMap /\ p.main \in Seq(Keys) /\ DOMAIN p.meta \subseteq Keys
      /\ p.small_count \in Nat /\ p.main_count \in Nat
  BY PolicyFields DEF PolicyOK
<1>k. k \in DOMAIN p.meta /\ k \in Keys /\ p.meta[k].loc = "Small"
  BY <1>0 DEF Located
<1> DEFINE e == [freq |-> 0, loc |-> "Main"]
           m == [p.meta EXCEPT ![k] = e]
           a == Append(p.main, k)
           c == p.small_count - 1
           d == p.main_count + 1
<1>1. e \in Meta /\ e.loc = "Main"
  BY PolicyAssumption DEF Meta, Loc
<1>2. /\ m \in MetaMap /\ DOMAIN m = DOMAIN p.meta
      /\ m[k] = e /\ \A j \in DOMAIN p.meta \ {k} : m[j] = p.meta[j]
  BY <1>0, <1>k, <1>1, MetaUpdate
<1>3. a \in Seq(Keys) /\ Range(a) = Range(p.main) \cup {k}
  BY <1>0, <1>k, RangeAppend
<1>4. c \in Nat /\ c = p.small_count - 1 /\ d \in Nat /\ d = p.main_count + 1
  <2>1. p.small_count # 0
    BY <1>0, LocatedFinite DEF CountsOK
  <2> QED BY <1>0, <2>1
<1>5. q = [p EXCEPT !.meta = m, !.small_count = c, !.main_count = d, !.main = a]
  OBVIOUS
<1> HIDE DEF e, m, a, c, d
<1>6. /\ q \in Policy
      /\ q.meta = m /\ q.small = p.small /\ q.main = a /\ q.ghost = p.ghost
      /\ q.small_count = c /\ q.main_count = d /\ q.ghost_set = p.ghost_set
  BY <1>0, <1>2, <1>3, <1>4, <1>5 DEF Policy
<1>7. /\ Located(q, "Small") = Located(p, "Small") \ {k}
      /\ Located(q, "Main") = Located(p, "Main") \cup {k}
      /\ k \notin Located(p, "Main")
  BY <1>k, <1>1, <1>2, <1>6 DEF Located
<1>8. CountsOK(q)
  BY <1>0, <1>4, <1>6, <1>7, LocatedFinite, FS_AddElement, FS_RemoveElement DEF CountsOK
<1>9. QueuedOK(q) /\ GhostOK(q)
  BY <1>0, <1>2, <1>3, <1>6, <1>7 DEF QueuedOK, GhostOK
<1> QED BY <1>2, <1>6, <1>7, <1>8, <1>9 DEF PolicyOK

\* A second chance moves the head of the main queue to its back.
LEMMA SecondChanceOK ==
  ASSUME NEW p, PolicyOK(p), p.main # <<>>, Head(p.main) \in Located(p, "Main"),
         p.meta[Head(p.main)].freq > 0, NEW q,
         q = [p EXCEPT !.meta[Head(p.main)].freq = @ - 1,
                       !.main = Append(Tail(p.main), Head(p.main))]
  PROVE  PolicyOK(q) /\ DOMAIN q.meta = DOMAIN p.meta
<1> DEFINE k == Head(p.main)
<1>0. /\ p \in Policy /\ CountsOK(p) /\ QueuedOK(p) /\ GhostOK(p)
      /\ p.meta \in MetaMap /\ p.main \in Seq(Keys) /\ k \in DOMAIN p.meta
      /\ p.meta[k] \in Meta
  BY PolicyFields DEF PolicyOK, Located
<1> DEFINE e == [p.meta[k] EXCEPT !.freq = @ - 1]
           m == [p.meta EXCEPT ![k] = e]
           b == Tail(p.main)
           a == Append(b, k)
<1>1. e \in Meta /\ e.loc = p.meta[k].loc
  <2>1. p.meta[k].freq - 1 \in 0..FREQ_MAX
    BY <1>0, PolicyAssumption DEF Meta
  <2> QED BY <1>0, <2>1 DEF Meta
<1>2. /\ m \in MetaMap /\ DOMAIN m = DOMAIN p.meta
      /\ m[k] = e /\ \A j \in DOMAIN p.meta \ {k} : m[j] = p.meta[j]
  <2> HIDE DEF e, k
  <2> QED BY <1>0, <1>1, MetaUpdate
<1>3. a \in Seq(Keys) /\ Range(a) = Range(p.main)
  <2>1. k \in Keys /\ Tail(p.main) \in Seq(Keys) /\ Range(p.main) = Range(Tail(p.main)) \cup {k}
    BY <1>0, RangeTail
  <2>2. b \in Seq(Keys) /\ Range(p.main) = Range(b) \cup {k} /\ k \in Keys
    BY <2>1
  <2> HIDE DEF k, b
  <2> QED BY <2>2, RangeAppend
<1>4. q = [p EXCEPT !.meta = m, !.main = a]
  OBVIOUS
<1> HIDE DEF e, m, a, b, k
<1>5. /\ q \in Policy
      /\ q.meta = m /\ q.small = p.small /\ q.main = a /\ q.ghost = p.ghost
      /\ q.small_count = p.small_count /\ q.main_count = p.main_count
      /\ q.ghost_set = p.ghost_set
  BY <1>0, <1>2, <1>3, <1>4 DEF Policy
<1>6. \A l : Located(q, l) = Located(p, l)
  BY <1>1, <1>2, <1>5 DEF Located
<1> QED BY <1>0, <1>2, <1>3, <1>5, <1>6 DEF PolicyOK, CountsOK, QueuedOK, GhostOK

\* step_small on a queue that is not drained.
LEMMA StepSmallOK ==
  ASSUME NEW p, PolicyOK(p), p.small # <<>>
  PROVE  SoundStep(p, step_small(p))
<1> DEFINE k == Head(p.small)
           q == [p EXCEPT !.small = Tail(p.small)]
<1>0. /\ p \in Policy /\ p.small \in Seq(Keys) /\ k \in Keys /\ p.meta \in MetaMap
      /\ DOMAIN p.meta \subseteq Keys
  BY PolicyFields, HeadTailProperties DEF PolicyOK
<1>1. CASE k \notin DOMAIN p.meta \/ p.meta[k].loc # "Small"
  <2>1. step_small(p) = [pol |-> q, victim |-> None]
    BY <1>1 DEF step_small
  <2>2. PolicyOK(q) /\ q.meta = p.meta
    BY <1>1, PopSmallOK DEF Located
  <2> HIDE DEF q
  <2> QED BY <2>1, <2>2 DEF SoundStep
<1>2. CASE /\ k \in DOMAIN p.meta /\ p.meta[k].loc = "Small"
           /\ p.meta[k].freq > PROMOTE_THRESHOLD
  <2> DEFINE r == [p EXCEPT !.meta[k] = [freq |-> 0, loc |-> "Main"],
                            !.small_count = p.small_count - 1,
                            !.main_count = p.main_count + 1,
                            !.main = Append(p.main, k)]
             t == [r EXCEPT !.small = Tail(r.small)]
  <2>1. k \in Located(p, "Small")
    BY <1>2 DEF Located
  <2>2. /\ PolicyOK(r) /\ DOMAIN r.meta = DOMAIN p.meta
        /\ k \notin Located(r, "Small") /\ r.small = p.small
    <3> HIDE DEF k
    <3> QED BY <2>1, PromoteOK
  <2>3. PolicyOK(t) /\ t.meta = r.meta
    <3> HIDE DEF r
    <3> QED BY <2>2, PopSmallOK
  <2>4. step_small(p) = [pol |-> t, victim |-> None]
    BY <1>0, <1>2 DEF step_small, Policy
  <2> HIDE DEF r, t
  <2> QED BY <2>2, <2>3, <2>4 DEF SoundStep
<1>3. CASE /\ k \in DOMAIN p.meta /\ p.meta[k].loc = "Small"
           /\ ~(p.meta[k].freq > PROMOTE_THRESHOLD)
  <2> DEFINE r == remove(p, k)
             t == [r EXCEPT !.small = Tail(r.small)]
             u == push_ghost(t, k)
  <2>1. /\ PolicyOK(r) /\ DOMAIN r.meta = DOMAIN p.meta \ {k}
    <3> HIDE DEF k
    <3> QED BY <1>3, RemoveOK
  <2>2. r = [p EXCEPT !.meta = map_remove(p.meta, k), !.small_count = p.small_count - 1]
    BY <1>3 DEF remove
  <2>3. r.small = p.small
    BY <1>0, <2>2 DEF Policy
  <2>4. PolicyOK(t) /\ t.meta = r.meta
    <3> HIDE DEF r
    <3>1. k \notin Located(r, "Small")
      BY <2>1 DEF Located
    <3> QED BY <2>1, <2>3, <3>1, PopSmallOK
  <2>5. PolicyOK(u) /\ u.meta = t.meta
    <3> HIDE DEF r, t, k
    <3> QED BY <1>0, <2>1, <2>4, PushGhostOK
  <2>6. t = [q EXCEPT !.meta = map_remove(p.meta, k), !.small_count = p.small_count - 1]
    BY <1>0, <2>2, <2>3 DEF Policy
  <2>7. step_small(p) = [pol |-> u, victim |-> k]
    <3>1. step_small(p) =
            [pol |-> push_ghost([q EXCEPT !.meta = map_remove(q.meta, k),
                                          !.small_count = q.small_count - 1], k),
             victim |-> k]
      BY <1>3 DEF step_small
    <3>2. q.meta = p.meta /\ q.small_count = p.small_count
      BY <1>0 DEF Policy
    <3> QED BY <2>6, <3>1, <3>2
  <2> HIDE DEF r, t, u, k
  <2> QED BY <1>3, <2>1, <2>4, <2>5, <2>7 DEF SoundStep
<1> QED BY <1>1, <1>2, <1>3

\* step_main on a queue that is not drained.
LEMMA StepMainOK ==
  ASSUME NEW p, PolicyOK(p), p.main # <<>>
  PROVE  SoundStep(p, step_main(p))
<1> DEFINE k == Head(p.main)
           q == [p EXCEPT !.main = Tail(p.main)]
<1>0. /\ p \in Policy /\ p.main \in Seq(Keys) /\ k \in Keys /\ p.meta \in MetaMap
      /\ DOMAIN p.meta \subseteq Keys
  BY PolicyFields, HeadTailProperties DEF PolicyOK
<1>1. CASE k \notin DOMAIN p.meta \/ p.meta[k].loc # "Main"
  <2>1. step_main(p) = [pol |-> q, victim |-> None]
    BY <1>1 DEF step_main
  <2>2. PolicyOK(q) /\ q.meta = p.meta
    BY <1>1, PopMainOK DEF Located
  <2> HIDE DEF q
  <2> QED BY <2>1, <2>2 DEF SoundStep
<1>2. CASE k \in DOMAIN p.meta /\ p.meta[k].loc = "Main" /\ p.meta[k].freq > 0
  <2> DEFINE t == [p EXCEPT !.meta[k].freq = @ - 1, !.main = Append(Tail(p.main), k)]
  <2>1. PolicyOK(t) /\ DOMAIN t.meta = DOMAIN p.meta
    <3>1. k \in Located(p, "Main")
      BY <1>2 DEF Located
    <3> QED BY <1>2, <3>1, SecondChanceOK
  <2>2. step_main(p) = [pol |-> t, victim |-> None]
    BY <1>0, <1>2 DEF step_main, Policy
  <2> HIDE DEF t
  <2> QED BY <2>1, <2>2 DEF SoundStep
<1>3. CASE k \in DOMAIN p.meta /\ p.meta[k].loc = "Main" /\ ~(p.meta[k].freq > 0)
  <2> DEFINE r == remove(p, k)
             t == [r EXCEPT !.main = Tail(r.main)]
  <2>1. /\ PolicyOK(r) /\ DOMAIN r.meta = DOMAIN p.meta \ {k}
    <3> HIDE DEF k
    <3> QED BY <1>3, RemoveOK
  <2>2. r = [p EXCEPT !.meta = map_remove(p.meta, k), !.main_count = p.main_count - 1]
    BY <1>3 DEF remove
  <2>3. r.main = p.main
    BY <1>0, <2>2 DEF Policy
  <2>4. PolicyOK(t) /\ t.meta = r.meta
    <3> HIDE DEF r
    <3>1. k \notin Located(r, "Main")
      BY <2>1 DEF Located
    <3> QED BY <2>1, <2>3, <3>1, PopMainOK
  <2>5. t = [q EXCEPT !.meta = map_remove(p.meta, k), !.main_count = p.main_count - 1]
    BY <1>0, <2>2, <2>3 DEF Policy
  <2>6. step_main(p) = [pol |-> t, victim |-> k]
    <3>1. step_main(p) =
            [pol |-> [q EXCEPT !.meta = map_remove(q.meta, k),
                               !.main_count = q.main_count - 1],
             victim |-> k]
      BY <1>3 DEF step_main
    <3>2. q.meta = p.meta /\ q.main_count = p.main_count
      BY <1>0 DEF Policy
    <3> QED BY <2>5, <3>1, <3>2
  <2> HIDE DEF r, t, k
  <2> QED BY <1>3, <2>1, <2>4, <2>6 DEF SoundStep
<1> QED BY <1>1, <1>2, <1>3

\* A turn of evict_one's loop on a policy that is not empty.  The queue it
\* turns to is never drained: the counter that chose it counts live keys, and
\* those are in the queue.
LEMMA EvictStepOK ==
  ASSUME NEW p, PolicyOK(p), len(p) # 0
  PROVE  SoundStep(p, evict_step(p))
<1>0. /\ p \in Policy /\ CountsOK(p) /\ QueuedOK(p)
      /\ p.small_count \in Nat /\ p.main_count \in Nat
  BY PolicyFields DEF PolicyOK
<1>1. CASE use_small(p)
  <2>1. p.small_count # 0
    BY <1>0, <1>1 DEF use_small, len
  <2>2. p.small # <<>>
    <3>1. Located(p, "Small") # {}
      BY <1>0, <2>1, LocatedFinite DEF CountsOK
    <3> QED BY <1>0, <3>1 DEF QueuedOK, Range
  <2> QED BY <1>1, <2>2, StepSmallOK DEF evict_step
<1>2. CASE ~use_small(p)
  <2>1. p.main_count # 0
    BY <1>2 DEF use_small
  <2>2. p.main # <<>>
    <3>1. Located(p, "Main") # {}
      BY <1>0, <2>1, LocatedFinite DEF CountsOK
    <3> QED BY <1>0, <3>1 DEF QueuedOK, Range
  <2> QED BY <1>2, <2>2, StepMainOK DEF evict_step
<1> QED BY <1>1, <1>2
=============================================================================
