--------------------------- MODULE CommandsProofs ---------------------------
(***************************************************************************)
(* Commands of several calls keep their promises although other commands,  *)
(* the reaper and the clock get in between, for any numbers of             *)
(* connections, shards, keys and requests.                                 *)
(***************************************************************************)
EXTENDS Commands, Numbers, SequenceTheorems

-----------------------------------------------------------------------------
(* Types                                                                   *)

IsStore(m) == DOMAIN m \subseteq Keys /\ m \in [DOMAIN m -> Entry]

Tags == {"none", "wrongtype", "value", "nokey", "noexpiry", "millis", "true", "false",
         "keys", "len", "now"}

\* What a call may return.
Payload == Int \cup (SUBSET Keys) \cup Seq(0..MaxRequests)

Result == [tag : Tags, val : Payload]

\* A request with its number.
Query ==
  {q \in [id : 1..MaxRequests, op : CommandNames, keys : Seq(Keys), flags : SUBSET Flags,
          time : Int \cup {None}, absolute : BOOLEAN] :
     /\ q.op \in OneKey => Len(q.keys) = 1
     /\ q.op \in Whole \/ q.keys # <<>>
     /\ q.op = "EXPIRE" => q.time # None}

ConnRec == [busy : {TRUE}, q : Query, got : Seq(Result), at : Nat, always : SUBSET Keys,
            ever : SUBSET Keys, others : SUBSET Keys, dirty : BOOLEAN]

\* A call that changes nothing but what has expired.
Reading == {"get", "exists", "pttl"}

IsCall(c) ==
  \/ c.fn = "now"
  \/ c.fn \in Reading \cup {"del"} /\ c.key \in Keys
  \/ c.fn = "push" /\ c.key \in Keys /\ c.id \in 0..MaxRequests
  \/ c.fn = "set" /\ c.key \in Keys /\ c.id \in 0..MaxRequests
       /\ c.flags \subseteq Flags /\ c.at \in Nat \cup {None}
  \/ c.fn = "expire_at" /\ c.key \in Keys /\ c.at \in Nat \cup {None}
  \/ c.fn \in {"keys", "len", "flush"} /\ c.shard \in DOMAIN Shards

-----------------------------------------------------------------------------
(* Calls                                                                   *)

\* Bounds and the shape of the shards.
LEMMA Bounds ==
  /\ MaxRequests \in Nat /\ MaxTime \in Nat
  /\ Len(Shards) \in Nat /\ DOMAIN Shards = 1..Len(Shards)
  /\ \A i \in 1..Len(Shards) : Shards[i] \subseteq Keys
<1>1. Shards \in Seq(SUBSET Keys)
  BY CommandsAssumption
<1> QED BY <1>1, LenProperties, ElementOfSeq, CommandsAssumption

\* What a call returns is a result.
LEMMA Results ==
  /\ \A tag \in Tags, val \in Payload : result(tag, val) \in Result
  /\ \A n \in Int : n \in Payload
  /\ \A v \in Seq(0..MaxRequests) : v \in Payload
  /\ \A K \in SUBSET Keys : K \in Payload
<1>1. \A tag \in Tags, val \in Payload : result(tag, val) \in Result
  BY DEF result, Result
<1>2. /\ \A n \in Int : n \in Payload
      /\ \A v \in Seq(0..MaxRequests) : v \in Payload
      /\ \A K \in SUBSET Keys : K \in Payload
  BY DEF Payload
<1> QED BY <1>1, <1>2

\* m is what is left of d.
Part(m, d) == DOMAIN m \subseteq DOMAIN d /\ \A k \in DOMAIN m : m[k] = d[k]

\* Lazy expiry drops an expired entry, which nobody can see.
LEMMA LiveFacts ==
  ASSUME NEW m, IsStore(m), NEW k \in Keys, NEW t
  PROVE  /\ IsStore(live(m, k, t)) /\ Part(live(m, k, t), m)
         /\ \A j \in DOMAIN m : j \notin DOMAIN live(m, k, t) => j = k /\ gone(m[j], t)
         /\ k \in DOMAIN live(m, k, t) => ~gone(m[k], t)
  BY DEF live, IsStore, Part, map_remove

\* What clients see does not change when only expired entries go.
LEMMA SameVisible ==
  ASSUME NEW m, NEW d, NEW t, Part(d, m),
         \A j \in DOMAIN m : j \notin DOMAIN d => gone(m[j], t)
  PROVE  Visible(d, t) = Visible(m, t)
<1>1. {j \in DOMAIN d : ~gone(d[j], t)} = {j \in DOMAIN m : ~gone(m[j], t)}
  BY DEF Part
<1>2. \A j \in {i \in DOMAIN d : ~gone(d[i], t)} : d[j] = m[j]
  BY DEF Part
<1> QED BY <1>1, <1>2 DEF Visible

\* Inserting an entry.
LEMMA InsertStore ==
  ASSUME NEW m, IsStore(m), NEW k \in Keys, NEW e \in Entry
  PROVE  IsStore(map_insert(m, k, e))
  BY DEF IsStore, map_insert

\* d and m agree on every key but k.
Elsewhere(k, d, m) ==
  \A j \in Keys : j # k =>
    (j \in DOMAIN d <=> j \in DOMAIN m) /\ (j \in DOMAIN m => d[j] = m[j])

\* A call on a key leaves a store, returns a result, and touches no other key.
LEMMA OnKey ==
  ASSUME NEW m, IsStore(m), NEW c, IsCall(c), NEW t \in Nat,
         c.fn \in Reading \cup {"del", "push", "set", "expire_at"}
  PROVE  /\ c.key \in Keys
         /\ IsStore(on_key(m, c, t).db) /\ on_key(m, c, t).res \in Result
         /\ Elsewhere(c.key, on_key(m, c, t).db, m)
<1> DEFINE k == c.key
           d == live(m, k, t)
<1>1. k \in Keys
  BY DEF IsCall, Reading
<1>2. IsStore(d) /\ Part(d, m) /\ \A j \in DOMAIN m : j \notin DOMAIN d => j = k
  BY <1>1, LiveFacts
<1>3. Elsewhere(k, d, m)
  BY <1>2 DEF Part, Elsewhere
<1>4. flag(TRUE) \in Result /\ flag(FALSE) \in Result /\ result("wrongtype", 0) \in Result
      /\ result("none", 0) \in Result
  BY Results DEF flag, Tags
<1>5. flag(k \in DOMAIN d) \in Result /\ flag(~refused(d, c)) \in Result
  BY Results DEF flag, Tags
<1>6. k \in DOMAIN d => d[k] \in Entry
  BY <1>2 DEF IsStore
<1> HIDE DEF d
<1>7. CASE c.fn = "get"
  <2>1. on_key(m, c, t) = [db |-> d, res |-> get(d, k)]
    BY <1>7 DEF on_key, d
  <2>2. get(d, k) \in Result
    <3>1. CASE k \in DOMAIN d /\ d[k].type = "string"
      <4>1. d[k].value \in Seq(0..MaxRequests)
        BY <1>6, <3>1 DEF Entry
      <4> QED BY <3>1, <4>1, Results DEF get, Tags
    <3>2. CASE ~(k \in DOMAIN d /\ d[k].type = "string")
      BY <1>4, <3>2 DEF get
    <3> QED BY <3>1, <3>2
  <2> QED BY <1>1, <1>2, <1>3, <2>1, <2>2
<1>8. CASE c.fn = "exists"
  <2>1. on_key(m, c, t) = [db |-> d, res |-> flag(k \in DOMAIN d)]
    BY <1>8 DEF on_key, d
  <2> QED BY <1>1, <1>2, <1>3, <1>5, <2>1
<1>9. CASE c.fn = "pttl"
  <2>1. on_key(m, c, t) = [db |-> d, res |-> pttl(d, k, t)]
    BY <1>9 DEF on_key, d
  <2>2. pttl(d, k, t) \in Result
    BY <1>6, Results DEF pttl, Tags, Entry
  <2> QED BY <1>1, <1>2, <1>3, <2>1, <2>2
<1>10. CASE c.fn = "del"
  <2>1. on_key(m, c, t) = [db |-> map_remove(d, k), res |-> flag(k \in DOMAIN d)]
    BY <1>10 DEF on_key, d
  <2>2. IsStore(map_remove(d, k))
    BY <1>2 DEF IsStore, map_remove
  <2> QED BY <1>1, <1>3, <1>5, <2>1, <2>2 DEF map_remove, Elsewhere
<1>11. CASE c.fn = "set"
  <2>1. on_key(m, c, t) = [db |-> set(d, c), res |-> flag(~refused(d, c))]
    BY <1>11 DEF on_key, d
  <2>2. refused(d, c) \in BOOLEAN
    BY DEF refused
  <2>3. CASE refused(d, c)
    <3>1. set(d, c) = d
      BY <2>3 DEF set
    <3> QED BY <1>1, <1>2, <1>3, <1>5, <2>1, <3>1
  <2>4. CASE ~refused(d, c)
    <3> DEFINE keep == "KEEPTTL" \in c.flags /\ k \in DOMAIN d
               at == IF keep THEN d[k].expire_at ELSE c.at
               e == [type |-> "string", value |-> <<c.id>>, expire_at |-> at]
    <3>1. set(d, c) = map_insert(d, k, e)
      BY <2>4 DEF set
    <3>2. at \in Nat \cup {None} /\ c.id \in 0..MaxRequests
      BY <1>6, <1>11 DEF IsCall, Reading, Entry
    <3>3. <<c.id>> \in Seq(0..MaxRequests)
      BY <3>2
    <3> HIDE DEF at
    <3>4. e \in Entry
      BY <3>2, <3>3 DEF Entry
    <3> HIDE DEF e
    <3>5. IsStore(set(d, c))
      BY <1>1, <1>2, <3>1, <3>4, InsertStore
    <3> QED BY <1>1, <1>3, <1>5, <2>1, <2>2, <3>1, <3>5 DEF map_insert, Elsewhere
  <2> QED BY <2>3, <2>4
<1>12. CASE c.fn = "expire_at"
  <2> DEFINE u == [d EXCEPT ![k].expire_at = c.at]
             e == [d[k] EXCEPT !.expire_at = c.at]
  <2>1. on_key(m, c, t) = [db |-> IF k \in DOMAIN d THEN u ELSE d, res |-> flag(k \in DOMAIN d)]
    BY <1>12 DEF on_key, d
  <2>2. k \in DOMAIN d => IsStore(u) /\ \A j \in DOMAIN d : j # k => u[j] = d[j]
    <3> SUFFICES ASSUME k \in DOMAIN d
                 PROVE  IsStore(u) /\ \A j \in DOMAIN d : j # k => u[j] = d[j]
      OBVIOUS
    <3>1. c.at \in Nat \cup {None}
      BY <1>12 DEF IsCall, Reading
    <3>2. e \in Entry
      BY <1>6, <3>1 DEF Entry
    <3>3. u = [d EXCEPT ![k] = e]
      OBVIOUS
    <3> HIDE DEF e, u
    <3> QED BY <1>2, <3>2, <3>3 DEF IsStore
  <2>3. DOMAIN u = DOMAIN d
    OBVIOUS
  <2> HIDE DEF u
  <2> QED BY <1>1, <1>2, <1>3, <1>5, <2>1, <2>2, <2>3 DEF Elsewhere
<1>13. CASE c.fn = "push"
  <2> DEFINE r == IF k \in DOMAIN d /\ d[k].type # "list" THEN result("wrongtype", 0) ELSE flag(TRUE)
  <2>1. on_key(m, c, t) = [db |-> push(d, c), res |-> r]
    BY <1>13 DEF on_key, d
  <2>2. r \in Result
    BY <1>4
  <2>3. c.id \in 0..MaxRequests
    BY <1>13 DEF IsCall, Reading
  <2> HIDE DEF r
  <2>4. CASE k \notin DOMAIN d
    <3> DEFINE e == [type |-> "list", value |-> <<c.id>>, expire_at |-> None]
    <3>1. push(d, c) = map_insert(d, k, e)
      BY <2>4 DEF push
    <3>2. <<c.id>> \in Seq(0..MaxRequests)
      BY <2>3
    <3>3. e \in Entry
      BY <3>2 DEF Entry
    <3> HIDE DEF e
    <3>4. IsStore(push(d, c))
      BY <1>1, <1>2, <3>1, <3>3, InsertStore
    <3> QED BY <1>1, <1>3, <2>1, <2>2, <3>1, <3>4 DEF map_insert, Elsewhere
  <2>5. CASE k \in DOMAIN d /\ d[k].type = "list"
    <3> DEFINE u == [d EXCEPT ![k].value = Append(@, c.id)]
               v == Append(d[k].value, c.id)
               e == [d[k] EXCEPT !.value = v]
    <3>1. push(d, c) = u
      BY <2>5 DEF push
    <3>2. v \in Seq(0..MaxRequests)
      BY <1>6, <2>3, <2>5, AppendProperties DEF Entry
    <3>3. u = [d EXCEPT ![k] = e]
      OBVIOUS
    <3> HIDE DEF v, u
    <3>4. e \in Entry
      BY <1>6, <2>5, <3>2 DEF Entry
    <3> HIDE DEF e
    <3>5. IsStore(u) /\ DOMAIN u = DOMAIN d /\ \A j \in DOMAIN d : j # k => u[j] = d[j]
      BY <1>2, <2>5, <3>3, <3>4 DEF IsStore
    <3> QED BY <1>1, <1>3, <2>1, <2>2, <3>1, <3>5 DEF Elsewhere
  <2>6. CASE k \in DOMAIN d /\ d[k].type # "list"
    <3>1. push(d, c) = d
      BY <2>6 DEF push
    <3> QED BY <1>1, <1>2, <1>3, <2>1, <2>2, <3>1
  <2> QED BY <2>4, <2>5, <2>6
<1> QED BY <1>7, <1>8, <1>9, <1>10, <1>11, <1>12, <1>13 DEF Reading

\* The turn of a call on a shard.
LEMMA OnShard ==
  ASSUME NEW m, IsStore(m), NEW c, c.fn \in {"keys", "len", "flush"},
         c.shard \in DOMAIN Shards
  PROVE  IsStore(on_shard(m, c).db) /\ on_shard(m, c).res \in Result
<1> DEFINE held == DOMAIN m \cap Shards[c.shard]
<1>1. held \subseteq Keys
  BY DEF IsStore
<1>2. Cardinality(held) \in Nat
  BY <1>1, KeysAssumption, FS_Subset, FS_CardinalityType
<1>3. CASE c.fn = "keys"
  <2> DEFINE K == {k \in held : ~gone(m[k], c.at)}
  <2>1. on_shard(m, c) = [db |-> m, res |-> result("keys", K)]
    BY <1>3 DEF on_shard
  <2>2. K \in SUBSET Keys
    BY <1>1
  <2> HIDE DEF K
  <2>3. result("keys", K) \in Result
    BY <2>2, Results DEF Tags
  <2> QED BY <2>1, <2>3
<1>4. CASE c.fn = "len"
  <2>1. on_shard(m, c) = [db |-> m, res |-> result("len", Cardinality(held))]
    BY <1>4 DEF on_shard
  <2>2. result("len", Cardinality(held)) \in Result
    BY <1>2, Results DEF Tags
  <2> QED BY <2>1, <2>2
<1>5. CASE c.fn = "flush"
  <2> DEFINE e == [k \in DOMAIN m \ held |-> m[k]]
  <2>1. on_shard(m, c) = [db |-> e, res |-> flag(TRUE)]
    BY <1>5 DEF on_shard
  <2>2. flag(TRUE) \in Result
    BY Results DEF flag, Tags
  <2>3. IsStore(e)
    BY DEF IsStore
  <2> HIDE DEF e, held
  <2>4. on_shard(m, c).db = e /\ on_shard(m, c).res = flag(TRUE)
    BY <2>1
  <2> QED BY <2>2, <2>3, <2>4
<1> QED BY <1>3, <1>4, <1>5

KeyCalls == Reading \cup {"del", "push", "set", "expire_at"}

\* Every call leaves a store and returns a result.
LEMMA Performed ==
  ASSUME NEW m, IsStore(m), NEW c, IsCall(c), NEW t \in Nat
  PROVE  IsStore(perform(m, c, t).db) /\ perform(m, c, t).res \in Result
<1>1. CASE c.fn = "now"
  <2>1. perform(m, c, t) = [db |-> m, res |-> result("now", t)]
    BY <1>1 DEF perform
  <2>2. result("now", t) \in Result
    BY Results DEF Tags
  <2> QED BY <2>1, <2>2
<1>2. CASE c.fn \in {"keys", "len", "flush"}
  <2>1. perform(m, c, t) = on_shard(m, c)
    BY <1>2 DEF perform
  <2>2. c.shard \in DOMAIN Shards
    BY <1>2 DEF IsCall, Reading
  <2> QED BY <1>2, <2>1, <2>2, OnShard
<1>3. CASE c.fn \in KeyCalls
  <2>1. perform(m, c, t) = on_key(m, c, t)
    BY <1>3 DEF perform, KeyCalls, Reading
  <2> QED BY <1>3, <2>1, OnKey DEF KeyCalls
<1> QED BY <1>1, <1>2, <1>3 DEF IsCall, KeyCalls

\* A call that changes what clients see says so, resets a shard, or sets a deadline.
LEMMA Changes ==
  ASSUME NEW m, IsStore(m), NEW c, IsCall(c), NEW t \in Nat,
         Visible(perform(m, c, t).db, t) # Visible(m, t)
  PROVE  \/ c.fn \in {"flush", "expire_at"}
         \/ c.fn \in {"set", "del", "push"} /\ yes(perform(m, c, t).res)
<1> DEFINE k == c.key
           d == live(m, k, t)
<1>1. CASE c.fn \in {"now", "keys", "len"}
  <2>1. perform(m, c, t).db = m
    BY <1>1 DEF perform, on_shard
  <2> QED BY <2>1
<1>2. CASE c.fn \in KeyCalls
  <2>1. perform(m, c, t) = on_key(m, c, t)
    BY <1>2 DEF perform, KeyCalls, Reading
  <2>2. k \in Keys
    BY <1>2 DEF IsCall, KeyCalls, Reading
  <2>3. IsStore(d) /\ Part(d, m) /\ \A j \in DOMAIN m : j \notin DOMAIN d => gone(m[j], t)
    BY <2>2, LiveFacts
  <2>4. Visible(d, t) = Visible(m, t)
    BY <2>3, SameVisible
  <2>5. on_key(m, c, t).db # d
    BY <2>1, <2>4
  <2> HIDE DEF d
  <2>6. c.fn \notin Reading
    BY <2>5 DEF on_key, Reading, d
  <2>7. CASE c.fn = "set"
    <3>1. on_key(m, c, t) = [db |-> set(d, c), res |-> flag(~refused(d, c))]
      BY <2>7 DEF on_key, d
    <3>2. ~refused(d, c)
      BY <2>5, <3>1 DEF set
    <3> QED BY <2>1, <2>7, <3>1, <3>2 DEF yes, flag, result
  <2>8. CASE c.fn = "del"
    <3>1. on_key(m, c, t) = [db |-> map_remove(d, k), res |-> flag(k \in DOMAIN d)]
      BY <2>8 DEF on_key, d
    <3>2. k \notin DOMAIN d => map_remove(d, k) = d
      BY <2>3 DEF map_remove, IsStore
    <3> QED BY <2>1, <2>5, <2>8, <3>1, <3>2 DEF yes, flag, result
  <2>9. CASE c.fn = "push"
    <3> DEFINE r == IF k \in DOMAIN d /\ d[k].type # "list" THEN result("wrongtype", 0) ELSE flag(TRUE)
    <3>1. on_key(m, c, t) = [db |-> push(d, c), res |-> r]
      BY <2>9 DEF on_key, d
    <3>2. ~(k \in DOMAIN d /\ d[k].type # "list")
      BY <2>5, <3>1 DEF push
    <3> QED BY <2>1, <2>9, <3>1, <3>2 DEF yes, flag, result
  <2> QED BY <1>2, <2>6, <2>7, <2>8, <2>9 DEF KeyCalls
<1> QED BY <1>1, <1>2 DEF IsCall, KeyCalls

-----------------------------------------------------------------------------
(* Commands                                                                *)

\* A reading of the clock.
IsTime(r) == r.tag = "now" /\ r.val \in Nat

\* The results so far are ones that request q can have: where a command reads
\* the clock there is a time, and there are no more results than calls.
Fit(q, got) ==
  /\ q.op = "SET" /\ q.time # None /\ ~q.absolute /\ got # <<>> => IsTime(got[1])
  /\ q.op \in {"GETSET", "PERSIST"} => Len(got) <= 2
  /\ q.op = "EXPIRE" /\ Len(got) >= 2 => IsTime(got[2])
  /\ q.op = "KEYS" => Len(got) <= Len(Shards) + 1 /\ (got # <<>> => IsTime(got[1]))
  /\ q.op \in {"DBSIZE", "FLUSHALL"} => Len(got) <= Len(Shards)

\* The number of a request.
LEMMA QueryNumber ==
  ASSUME NEW q \in Query
  PROVE  q.id \in Nat /\ q.id >= 1
<1>1. q.id \in 1..MaxRequests
  BY DEF Query
<1> QED BY <1>1, Bounds

\* The keys that a command names.
LEMMA NamedKeys ==
  ASSUME NEW q \in Query
  PROVE  /\ Len(q.keys) \in Nat /\ \A i \in 1..Len(q.keys) : q.keys[i] \in Keys
         /\ q.op \notin Whole => q.keys[1] \in Keys
<1>1. q.keys \in Seq(Keys)
  BY DEF Query
<1>2. Len(q.keys) \in Nat /\ \A i \in 1..Len(q.keys) : q.keys[i] \in Keys
  BY <1>1, LenProperties, ElementOfSeq
<1>3. q.op \notin Whole => Len(q.keys) # 0
  BY <1>1, EmptySeq DEF Query
<1> QED BY <1>2, <1>3

\* A time argument and the clock give a deadline.
LEMMA Deadlines ==
  ASSUME NEW q \in Query, q.time # None, NEW n, q.absolute \/ n \in Nat
  PROVE  deadline(q, n) \in Nat
<1>1. q.time \in Int
  BY DEF Query
<1> QED BY <1>1 DEF deadline

\* Whatever a command does next is a call of the store, or its outcome.
LEMMA NextCalls ==
  ASSUME NEW q \in Query, NEW got \in Seq(Result), Fit(q, got)
  PROVE  next_call(q, got).fn = "outcome" \/ IsCall(next_call(q, got))
<1> DEFINE k == q.keys[1]
           n == Len(got)
<1>1. n \in Nat /\ (got = <<>> <=> n = 0)
  BY LenProperties, EmptySeq
<1>2. q.id \in 0..MaxRequests
  BY Bounds DEF Query
<1>3. \A i \in 1..Len(q.keys) : q.keys[i] \in Keys
  BY NamedKeys
<1>4. Len(q.keys) \in Nat
  BY NamedKeys
<1>5. q.op \notin Whole => k \in Keys
  BY NamedKeys
<1> HIDE DEF k, n
<1>10. CASE q.op = "SET"
  <2>1. next_call(q, got) = set_cmd(q, got)
    BY <1>10 DEF next_call
  <2>2. k \in Keys
    BY <1>5, <1>10 DEF Whole
  <2> DEFINE timed == q.time # None /\ ~q.absolute
             at == IF q.time = None THEN None ELSE deadline(q, IF timed THEN got[1].val ELSE 0)
  <2>3. (timed /\ n < 1) \/ at \in Nat \cup {None}
    <3>1. CASE q.time = None
      BY <3>1
    <3>2. CASE q.time # None /\ q.absolute
      BY <3>2, Deadlines
    <3>3. CASE timed /\ n >= 1
      <4>1. got[1].val \in Nat
        BY <1>1, <1>10, <3>3 DEF Fit, IsTime
      <4> QED BY <3>3, <4>1, Deadlines
    <3> QED BY <1>1, <3>1, <3>2, <3>3
  <2>4. q.flags \subseteq Flags
    BY DEF Query
  <2>5. CASE timed /\ n < 1
    BY <2>1, <2>5 DEF set_cmd, clock, IsCall, n
  <2>6. CASE at \in Nat \cup {None}
    <3>1. IsCall(to_set(k, q.id, q.flags, at))
      BY <1>2, <2>2, <2>4, <2>6 DEF IsCall, to_set
    <3>2. IsCall(clock) /\ IsCall(to_key("get", k))
      BY <2>2 DEF clock, to_key, IsCall, Reading
    <3>3. \/ set_cmd(q, got) = to_set(k, q.id, q.flags, at)
          \/ set_cmd(q, got) = clock \/ set_cmd(q, got) = to_key("get", k)
          \/ set_cmd(q, got).fn = "outcome"
      BY DEF set_cmd, outcome, k
    <3> QED BY <2>1, <3>1, <3>2, <3>3
  <2> QED BY <2>3, <2>5, <2>6
<1>11. CASE q.op = "GETSET"
  <2>1. next_call(q, got) = getset(q, got)
    BY <1>11 DEF next_call
  <2>2. k \in Keys
    BY <1>5, <1>11 DEF Whole
  <2>3. n = 0 \/ n = 1 \/ n = 2
    <3>1. n <= 2
      BY <1>11 DEF Fit, n
    <3> QED BY <1>1, <3>1
  <2>4. IsCall(to_key("get", k)) /\ IsCall(to_set(k, q.id, {}, None))
    BY <1>2, <2>2 DEF IsCall, to_key, to_set, Reading
  <2>5. \/ getset(q, got) = to_key("get", k) \/ getset(q, got) = to_set(k, q.id, {}, None)
        \/ getset(q, got).fn = "outcome"
    BY <1>1, <2>3 DEF getset, outcome, k, n
  <2> QED BY <2>1, <2>4, <2>5
<1>12. CASE q.op = "SETNX"
  <2>1. next_call(q, got) = setnx(q, got)
    BY <1>12 DEF next_call
  <2>2. k \in Keys
    BY <1>5, <1>12 DEF Whole
  <2>3. IsCall(to_set(k, q.id, {"NX"}, None))
    BY <1>2, <2>2 DEF IsCall, to_set, Flags
  <2> QED BY <2>1, <2>3 DEF setnx, outcome, k
<1>13. CASE q.op = "MSET"
  <2>1. next_call(q, got) = mset(q, got)
    BY <1>13 DEF next_call
  <2>2. n < Len(q.keys) => IsCall(to_set(q.keys[n + 1], q.id, {}, None))
    BY <1>1, <1>2, <1>3, <1>4 DEF IsCall, to_set
  <2> QED BY <2>1, <2>2 DEF mset, outcome, n
<1>14. CASE q.op \in {"MGET", "DEL", "EXISTS"}
  <2>1. next_call(q, got) \in {mget(q, got), del(q, got), exists(q, got)}
    BY <1>14 DEF next_call
  <2>2. n < Len(q.keys) => \A fn \in {"get", "del", "exists"} : IsCall(to_key(fn, q.keys[n + 1]))
    BY <1>1, <1>3, <1>4 DEF IsCall, to_key, Reading
  <2>3. mget(q, got).fn = "outcome" \/ IsCall(mget(q, got))
    BY <2>2 DEF mget, outcome, n
  <2>4. del(q, got).fn = "outcome" \/ IsCall(del(q, got))
    BY <2>2 DEF del, outcome, n
  <2>5. exists(q, got).fn = "outcome" \/ IsCall(exists(q, got))
    BY <2>2 DEF exists, outcome, n
  <2> QED BY <2>1, <2>3, <2>4, <2>5
<1>15. CASE q.op = "RPUSH"
  <2>1. next_call(q, got) = push_cmd(q, got)
    BY <1>15 DEF next_call
  <2>2. k \in Keys
    BY <1>5, <1>15 DEF Whole
  <2>3. IsCall([fn |-> "push", key |-> k, id |-> q.id])
    BY <1>2, <2>2 DEF IsCall
  <2> QED BY <2>1, <2>3 DEF push_cmd, outcome, k
<1>16. CASE q.op = "EXPIRE"
  <2>1. next_call(q, got) = expire_cmd(q, got)
    BY <1>16 DEF next_call
  <2>2. k \in Keys
    BY <1>5, <1>16 DEF Whole
  <2> DEFINE at == deadline(q, got[2].val)
  <2>3. IsCall(to_key("exists", k)) /\ IsCall(to_key("pttl", k)) /\ IsCall(clock)
    BY <2>2 DEF IsCall, to_key, clock, Reading
  <2>4. n >= 2 => IsCall(to_expire(k, at))
    <3> SUFFICES ASSUME n >= 2 PROVE IsCall(to_expire(k, at))
      OBVIOUS
    <3>1. got[2].val \in Nat
      BY <1>16 DEF Fit, IsTime, n
    <3>2. at \in Nat
      BY <1>16, <3>1, Deadlines DEF Query
    <3> QED BY <2>2, <3>2 DEF IsCall, to_expire
  <2>5. \/ expire_cmd(q, got) = to_key("exists", k) \/ expire_cmd(q, got) = to_key("pttl", k)
        \/ expire_cmd(q, got) = clock \/ (n >= 2 /\ expire_cmd(q, got) = to_expire(k, at))
        \/ expire_cmd(q, got).fn = "outcome"
    BY <1>1 DEF expire_cmd, outcome, k, n
  <2> QED BY <2>1, <2>3, <2>4, <2>5
<1>17. CASE q.op = "PERSIST"
  <2>1. next_call(q, got) = persist_cmd(q, got)
    BY <1>17 DEF next_call
  <2>2. k \in Keys
    BY <1>5, <1>17 DEF Whole
  <2>3. n = 0 \/ n = 1 \/ n = 2
    <3>1. n <= 2
      BY <1>17 DEF Fit, n
    <3> QED BY <1>1, <3>1
  <2>4. IsCall(to_key("pttl", k)) /\ IsCall(to_expire(k, None))
    BY <2>2 DEF IsCall, to_key, to_expire, Reading
  <2>5. \/ persist_cmd(q, got) = to_key("pttl", k) \/ persist_cmd(q, got) = to_expire(k, None)
        \/ persist_cmd(q, got).fn = "outcome"
    BY <1>1, <2>3 DEF persist_cmd, outcome, k, n
  <2> QED BY <2>1, <2>4, <2>5
<1>18. CASE q.op = "KEYS"
  <2>1. next_call(q, got) = keys_cmd(q, got)
    BY <1>18 DEF next_call
  <2>2. n # 0 /\ n <= Len(Shards) => IsCall(to_shard("keys", n, got[1].val))
    BY <1>1, Bounds DEF IsCall, to_shard
  <2>3. IsCall(clock)
    BY DEF IsCall, clock
  <2> QED BY <1>1, <2>1, <2>2, <2>3 DEF keys_cmd, outcome, n
<1>19. CASE q.op \in {"DBSIZE", "FLUSHALL"}
  <2>1. next_call(q, got) \in {dbsize(q, got), flush_all(q, got)}
    BY <1>19 DEF next_call
  <2>2. n < Len(Shards) => \A fn \in {"len", "flush"} : IsCall(to_shard(fn, n + 1, None))
    BY <1>1, Bounds DEF IsCall, to_shard
  <2>3. dbsize(q, got).fn = "outcome" \/ IsCall(dbsize(q, got))
    BY <2>2 DEF dbsize, outcome, n
  <2>4. flush_all(q, got).fn = "outcome" \/ IsCall(flush_all(q, got))
    BY <2>2 DEF flush_all, outcome, n
  <2> QED BY <2>1, <2>3, <2>4
<1> QED BY <1>10, <1>11, <1>12, <1>13, <1>14, <1>15, <1>16, <1>17, <1>18, <1>19
         DEF Query, CommandNames, OneKey, Whole

\* A result more: what was there before stays in its place.
LEMMA OneMore ==
  ASSUME NEW got \in Seq(Result), NEW r \in Result
  PROVE  /\ Append(got, r) \in Seq(Result) /\ Len(got) \in Nat
         /\ Len(Append(got, r)) = Len(got) + 1
         /\ Append(got, r) # <<>> /\ (got = <<>> <=> Len(got) = 0)
         /\ Append(got, r)[Len(got) + 1] = r
         /\ \A i \in 1..Len(got) : Append(got, r)[i] = got[i]
<1>1. /\ Append(got, r) \in Seq(Result) /\ Len(got) \in Nat
      /\ Len(Append(got, r)) = Len(got) + 1
      /\ (got = <<>> <=> Len(got) = 0)
      /\ Append(got, r)[Len(got) + 1] = r
      /\ \A i \in 1..Len(got) : Append(got, r)[i] = got[i]
  BY AppendProperties, LenProperties, EmptySeq
<1> QED BY <1>1, EmptySeq

\* What the calls of a command return is what its next calls count on.
LEMMA FitKept ==
  ASSUME NEW q \in Query, NEW got \in Seq(Result), Fit(q, got), NEW m, NEW t \in Nat,
         next_call(q, got).fn # "outcome",
         NEW res \in Result, res = perform(m, next_call(q, got), t).res
  PROVE  Fit(q, Append(got, res))
<1> DEFINE n == Len(got)
           more == Append(got, res)
<1>1. /\ n \in Nat /\ Len(more) = n + 1 /\ more # <<>> /\ (got = <<>> <=> n = 0)
      /\ more[n + 1] = res /\ \A i \in 1..n : more[i] = got[i]
  BY OneMore
<1>2. next_call(q, got) = clock => IsTime(res)
  BY DEF clock, perform, result, IsTime
<1> HIDE DEF n, more
<1>3. ASSUME q.op = "SET", q.time # None, ~q.absolute PROVE IsTime(more[1])
  <2>1. next_call(q, got) = set_cmd(q, got)
    BY <1>3 DEF next_call
  <2>2. CASE n = 0
    <3>1. set_cmd(q, got) = clock
      BY <1>3, <2>2 DEF set_cmd, n
    <3>2. more[1] = res
      BY <1>1, <2>2
    <3> QED BY <1>2, <2>1, <3>1, <3>2
  <2>3. CASE n # 0
    <3>1. IsTime(got[1])
      BY <1>1, <1>3, <2>3 DEF Fit
    <3>2. more[1] = got[1]
      BY <1>1, <2>3
    <3> QED BY <3>1, <3>2
  <2> QED BY <2>2, <2>3
<1>4. ASSUME q.op \in {"GETSET", "PERSIST"} PROVE Len(more) <= 2
  <2>1. n <= 2
    BY <1>4 DEF Fit, n
  <2>2. n = 2 => getset(q, got).fn = "outcome" /\ persist_cmd(q, got).fn = "outcome"
    BY <1>1 DEF getset, persist_cmd, outcome, n
  <2>3. next_call(q, got) \in {getset(q, got), persist_cmd(q, got)}
    BY <1>4 DEF next_call
  <2>4. n # 2
    BY <2>2, <2>3
  <2> QED BY <1>1, <2>1, <2>4
<1>5. ASSUME q.op = "EXPIRE", Len(more) >= 2 PROVE IsTime(more[2])
  <2>1. next_call(q, got) = expire_cmd(q, got)
    BY <1>5 DEF next_call
  <2>2. CASE n = 1
    <3>1. expire_cmd(q, got) = clock \/ expire_cmd(q, got).fn = "outcome"
      BY <1>1, <2>2 DEF expire_cmd, outcome, n
    <3>2. more[2] = res
      BY <1>1, <2>2
    <3> QED BY <1>2, <2>1, <3>1, <3>2
  <2>3. CASE n >= 2
    <3>1. IsTime(got[2])
      BY <1>5, <2>3 DEF Fit, n
    <3>2. more[2] = got[2]
      BY <1>1, <2>3
    <3> QED BY <3>1, <3>2
  <2> QED BY <1>1, <1>5, <2>2, <2>3
<1>6. ASSUME q.op = "KEYS" PROVE Len(more) <= Len(Shards) + 1 /\ IsTime(more[1])
  <2>1. next_call(q, got) = keys_cmd(q, got)
    BY <1>6 DEF next_call
  <2>2. n = 0 \/ n <= Len(Shards)
    BY <1>1, <2>1 DEF keys_cmd, outcome, n
  <2>3. Len(more) <= Len(Shards) + 1
    BY <1>1, <2>2, Bounds
  <2>4. CASE n = 0
    <3>1. keys_cmd(q, got) = clock
      BY <1>1, <2>4 DEF keys_cmd
    <3>2. more[1] = res
      BY <1>1, <2>4
    <3> QED BY <1>2, <2>1, <2>3, <3>1, <3>2
  <2>5. CASE n # 0
    <3>1. IsTime(got[1])
      BY <1>1, <1>6, <2>5 DEF Fit
    <3>2. more[1] = got[1]
      BY <1>1, <2>5
    <3> QED BY <2>3, <3>1, <3>2
  <2> QED BY <2>4, <2>5
<1>7. ASSUME q.op \in {"DBSIZE", "FLUSHALL"} PROVE Len(more) <= Len(Shards)
  <2>1. next_call(q, got) \in {dbsize(q, got), flush_all(q, got)}
    BY <1>7 DEF next_call
  <2>2. ~(n < Len(Shards)) => dbsize(q, got).fn = "outcome"
    BY DEF dbsize, outcome, n
  <2>3. ~(n < Len(Shards)) => flush_all(q, got).fn = "outcome"
    BY DEF flush_all, outcome, n
  <2>4. n < Len(Shards)
    BY <2>1, <2>2, <2>3
  <2> QED BY <1>1, <2>4, Bounds
<1>8. Fit(q, more)
  BY <1>1, <1>3, <1>4, <1>5, <1>6, <1>7 DEF Fit
<1> QED BY <1>8 DEF more

-----------------------------------------------------------------------------
(* Steps                                                                   *)

\* A connection whose command is under way at time t, when n requests were sent.
ConnOK(x, t, n) ==
  /\ x \in ConnRec /\ x.q.id <= n /\ x.at <= t
  /\ x.always \subseteq x.ever /\ Fit(x.q, x.got)

TypeInv ==
  /\ IsStore(db) /\ now \in 0..MaxTime /\ used \in 0..MaxRequests /\ mixed \subseteq Keys
  /\ conn \in [Conns -> {Idle} \cup ConnRec]
  /\ \A c \in Busy : ConnOK(conn[c], now, used)
  /\ log \in Seq(Query) /\ \A i \in 1..Len(log) : log[i].id <= used

\* The keys on which two stores differ.
Differs(m, d) ==
  {k \in Keys : (k \in DOMAIN m) # (k \in DOMAIN d) \/ (k \in DOMAIN m /\ m[k] # d[k])}

\* x becomes y, of the same command after the same calls.
Watched(x, y, m, d) ==
  /\ x \in ConnRec /\ y \in ConnRec
  /\ y.q = x.q /\ y.got = x.got /\ y.at = x.at /\ y.dirty = x.dirty
  /\ y.always \subseteq x.always /\ x.ever \subseteq y.ever
  /\ x.others \cup Differs(m, d) \subseteq y.others

\* x becomes y by the next call of its command, which leads from store m to d
\* and has read the clock at t; the time is now u.
Called(x, y, m, d, t, u) ==
  LET call == next_call(x.q, x.got)
      r == perform(m, call, t)
  IN /\ x \in ConnRec /\ y \in ConnRec /\ call.fn # "outcome"
     /\ d = r.db
     /\ y.q = x.q /\ y.got = Append(x.got, r.res) /\ y.at = u
     /\ y.dirty = (x.dirty \/ Visible(m, t) # Visible(d, t))
     /\ y.always = x.always \cap Visibly(d, u) /\ y.ever = x.ever \cup DOMAIN d
     /\ y.others = x.others

\* y is a command that begins.
Begun(y, u, n) ==
  /\ y \in ConnRec /\ y.q.id = n /\ y.got = <<>> /\ y.at = u
  /\ y.always \subseteq y.ever /\ y.dirty = FALSE

\* An idle connection is no command under way.
LEMMA IdleOrBusy ==
  Idle.busy = FALSE /\ Idle \notin ConnRec /\ \A x \in ConnRec : x.busy = TRUE
  BY DEF Idle, ConnRec

\* y is x when it has seen store m at time t, and calls of others change o.
Seen(x, y, m, t, o) ==
  /\ y \in ConnRec /\ y.q = x.q /\ y.got = x.got /\ y.at = x.at /\ y.dirty = x.dirty
  /\ y.always = x.always \cap Visibly(m, t) /\ y.ever = x.ever \cup DOMAIN m
  /\ y.others = x.others \cup o

\* What Observed makes of the record of a connection.
LEMMA ObservedConn ==
  ASSUME NEW cs \in [Conns -> {Idle} \cup ConnRec], NEW c, NEW m, IsStore(m), NEW t,
         NEW d \in Conns
  PROVE  /\ cs[d] = Idle => Observed(cs, c, m, t)[d] = Idle
         /\ cs[d] \in ConnRec /\ d = c => Seen(cs[d], Observed(cs, c, m, t)[d], m, t, {})
         /\ cs[d] \in ConnRec /\ d # c =>
              Seen(cs[d], Observed(cs, c, m, t)[d], m, t, Differs(db, m))
<1> DEFINE x == cs[d]
           a == x.always \cap Visibly(m, t)
           e == x.ever \cup DOMAIN m
           o == IF d = c THEN x.others ELSE x.others \cup Differs(db, m)
           y == [x EXCEPT !.always = a, !.ever = e, !.others = o]
<1>1. Observed(cs, c, m, t)[d] = IF ~x.busy THEN x ELSE y
  BY DEF Observed, Differs
<1>2. x = Idle => Observed(cs, c, m, t)[d] = Idle
  BY <1>1, IdleOrBusy
<1>3. ASSUME x \in ConnRec
      PROVE  /\ y \in ConnRec /\ y.q = x.q /\ y.got = x.got /\ y.at = x.at
             /\ y.dirty = x.dirty /\ y.always = a /\ y.ever = e /\ y.others = o
  <2>1. a \in SUBSET Keys /\ e \in SUBSET Keys /\ o \in SUBSET Keys
    BY <1>3 DEF ConnRec, IsStore, Differs
  <2> HIDE DEF a, e, o, x
  <2> QED BY <1>3, <2>1 DEF ConnRec
<1>4. x \in ConnRec => Observed(cs, c, m, t)[d] = y
  BY <1>1, IdleOrBusy
<1> HIDE DEF y
<1>5. x \in ConnRec /\ d = c => Seen(x, y, m, t, {})
  BY <1>3 DEF Seen
<1>6. x \in ConnRec /\ d # c => Seen(x, y, m, t, Differs(db, m))
  BY <1>3 DEF Seen
<1> HIDE DEF x
<1>7. /\ x = Idle => Observed(cs, c, m, t)[d] = Idle
      /\ x \in ConnRec /\ d = c => Seen(x, Observed(cs, c, m, t)[d], m, t, {})
      /\ x \in ConnRec /\ d # c => Seen(x, Observed(cs, c, m, t)[d], m, t, Differs(db, m))
  BY <1>2, <1>4, <1>5, <1>6
<1> QED BY <1>7 DEF x

\* What a call of a command under way leaves behind.
LEMMA CallTypes ==
  ASSUME NEW m, IsStore(m), NEW x, NEW u \in Nat, NEW n, ConnOK(x, u, n),
         next_call(x.q, x.got).fn # "outcome", NEW t \in x.at..u
  PROVE  LET r == perform(m, next_call(x.q, x.got), t)
         IN /\ IsStore(r.db) /\ r.res \in Result /\ IsCall(next_call(x.q, x.got))
            /\ t \in Nat /\ t <= u /\ x.at <= t
            /\ Fit(x.q, Append(x.got, r.res))
<1> DEFINE call == next_call(x.q, x.got)
<1>1. x.q \in Query /\ x.got \in Seq(Result) /\ x.at \in Nat /\ Fit(x.q, x.got)
  BY DEF ConnOK, ConnRec
<1>2. t \in Nat /\ t <= u /\ x.at <= t
  BY <1>1
<1>3. IsCall(call)
  BY <1>1, NextCalls
<1>4. IsStore(perform(m, call, t).db) /\ perform(m, call, t).res \in Result
  BY <1>2, <1>3, Performed
<1>5. Fit(x.q, Append(x.got, perform(m, call, t).res))
  BY <1>1, <1>2, <1>4, FitKept
<1> QED BY <1>2, <1>3, <1>4, <1>5

\* A call, as the connection that makes it and the others see it.
LEMMA CallStep ==
  ASSUME TypeInv, NEW c \in Conns, Call(c)
  PROVE  /\ IsStore(db') /\ conn' \in [Conns -> {Idle} \cup ConnRec]
         /\ conn[c] \in ConnRec
         /\ \E t \in conn[c].at..now : Called(conn[c], conn'[c], db, db', t, now)
         /\ \A d \in Conns : d # c =>
              \/ conn[d] = Idle /\ conn'[d] = Idle
              \/ Watched(conn[d], conn'[d], db, db')
<1> DEFINE x == conn[c]
           call == next_call(x.q, x.got)
<1>1. x \in ConnRec /\ ConnOK(x, now, used) /\ conn \in [Conns -> {Idle} \cup ConnRec]
  BY IdleOrBusy DEF TypeInv, Call, Busy
<1>2. now \in Nat
  BY Bounds DEF TypeInv
<1> DEFINE mine(t) == [x EXCEPT !.got = Append(@, perform(db, call, t).res), !.at = now,
                         !.dirty = @ \/ Visible(db, t) # Visible(perform(db, call, t).db, t)]
<1>3. /\ call.fn # "outcome"
      /\ \E t \in x.at..now :
           /\ db' = perform(db, call, t).db
           /\ conn' = Observed([conn EXCEPT ![c] = mine(t)], c, perform(db, call, t).db, now)
  BY DEF Call
<1>4. PICK t \in x.at..now :
           /\ db' = perform(db, call, t).db
           /\ conn' = Observed([conn EXCEPT ![c] = mine(t)], c, perform(db, call, t).db, now)
  BY <1>3
<1> DEFINE r == perform(db, call, t)
           y == mine(t)
           cs == [conn EXCEPT ![c] = y]
<1>5. IsStore(r.db) /\ r.res \in Result
  BY <1>1, <1>2, <1>3, CallTypes DEF TypeInv
<1>6. /\ y \in ConnRec /\ y.q = x.q /\ y.got = Append(x.got, r.res) /\ y.at = now
      /\ y.dirty = (x.dirty \/ Visible(db, t) # Visible(r.db, t))
      /\ y.always = x.always /\ y.ever = x.ever /\ y.others = x.others
  <2>1. Append(x.got, r.res) \in Seq(Result)
    BY <1>1, <1>5, OneMore DEF ConnRec
  <2> HIDE DEF x, r
  <2>2. (x.dirty \/ Visible(db, t) # Visible(r.db, t)) \in BOOLEAN
    BY <1>1 DEF ConnRec
  <2> QED BY <1>1, <1>2, <2>1, <2>2 DEF ConnRec, r
<1> HIDE DEF y, r
<1>7. db' = r.db /\ conn' = Observed(cs, c, r.db, now)
  BY <1>4 DEF y, r
<1>8. /\ cs \in [Conns -> {Idle} \cup ConnRec] /\ cs[c] = y
      /\ \A d \in Conns : d # c => cs[d] = conn[d]
  BY <1>1, <1>6
<1> HIDE DEF cs
<1>9. Seen(y, conn'[c], r.db, now, {})
  BY <1>5, <1>6, <1>7, <1>8, ObservedConn
<1>10. Called(conn[c], conn'[c], db, db', t, now)
  BY <1>1, <1>3, <1>6, <1>7, <1>9 DEF Called, Seen, r
<1>11. ASSUME NEW d \in Conns, d # c
       PROVE  \/ conn[d] = Idle /\ conn'[d] = Idle
              \/ Watched(conn[d], conn'[d], db, db')
  <2>1. CASE conn[d] = Idle
    BY <1>5, <1>7, <1>8, <1>11, <2>1, ObservedConn
  <2>2. CASE conn[d] \in ConnRec
    <3>1. Seen(conn[d], conn'[d], r.db, now, Differs(db, r.db))
      BY <1>5, <1>7, <1>8, <1>11, <2>2, ObservedConn
    <3> QED BY <2>2, <3>1, <1>7 DEF Watched, Seen
  <2> QED BY <1>1, <2>1, <2>2
<1>12. conn' \in [Conns -> {Idle} \cup ConnRec]
  <2>1. DOMAIN conn' = Conns /\ conn' = [d \in DOMAIN conn' |-> conn'[d]]
    BY <1>7 DEF Observed
  <2>2. \A d \in Conns : conn'[d] \in {Idle} \cup ConnRec
    BY <1>9, <1>11 DEF Watched, Seen
  <2> QED BY <2>1, <2>2
<1> QED BY <1>1, <1>4, <1>5, <1>7, <1>10, <1>11, <1>12

\* The reaper and the clock, as the connections see them.
LEMMA ObservedStep ==
  ASSUME TypeInv, NEW m, IsStore(m), NEW t, db' = m, conn' = Observed(conn, None, m, t)
  PROVE  /\ conn' \in [Conns -> {Idle} \cup ConnRec]
         /\ \A d \in Conns : \/ conn[d] = Idle /\ conn'[d] = Idle
                             \/ Watched(conn[d], conn'[d], db, db')
<1>1. conn \in [Conns -> {Idle} \cup ConnRec]
  BY DEF TypeInv
<1>2. ASSUME NEW d \in Conns
       PROVE  \/ conn[d] = Idle /\ conn'[d] = Idle
              \/ Watched(conn[d], conn'[d], db, db')
  <2>1. CASE conn[d] = Idle
    BY <1>1, <2>1, ObservedConn
  <2>2. CASE conn[d] \in ConnRec
    <3>1. d # None
      BY CommandsAssumption
    <3>2. Seen(conn[d], conn'[d], m, t, Differs(db, m))
      BY <1>1, <2>2, <3>1, ObservedConn
    <3> QED BY <2>2, <3>2 DEF Watched, Seen
  <2> QED BY <1>1, <2>1, <2>2
<1>3. conn' \in [Conns -> {Idle} \cup ConnRec]
  <2>1. DOMAIN conn' = Conns /\ conn' = [d \in DOMAIN conn' |-> conn'[d]]
    BY DEF Observed
  <2>2. \A d \in Conns : conn'[d] \in {Idle} \cup ConnRec
    BY <1>2 DEF Watched
  <2> QED BY <2>1, <2>2
<1> QED BY <1>2, <1>3

\* The keys a request is about are keys.
LEMMA Scopes ==
  ASSUME NEW q \in Query
  PROVE  scope(q) \subseteq Keys
<1>1. \A i \in DOMAIN q.keys : q.keys[i] \in Keys
  BY DEF Query
<1> QED BY <1>1 DEF scope, Range

\* A step in which nothing happens to a command.
LEMMA WatchedSame ==
  ASSUME NEW x \in ConnRec, NEW m
  PROVE  Watched(x, x, m, m)
  BY DEF Watched, Differs

\* A request that a connection takes.
LEMMA StartStep ==
  ASSUME TypeInv, NEW c \in Conns, Start(c)
  PROVE  /\ conn' \in [Conns -> {Idle} \cup ConnRec] /\ mixed' \subseteq Keys
         /\ Begun(conn'[c], now, used + 1)
         /\ \A d \in Conns : d # c => conn'[d] = conn[d]
<1>1. conn \in [Conns -> {Idle} \cup ConnRec] /\ now \in Nat /\ used \in Nat /\ used < MaxRequests
      /\ DOMAIN db \subseteq Keys /\ mixed \subseteq Keys
  BY Bounds DEF TypeInv, Start, IsStore
<1>2. PICK r \in Requests[c] :
        LET q == numbered(r, used + 1)
            clash == {d \in Busy : {q.op, conn[d].q.op} \cap Reads = {}}
        IN /\ conn' = [conn EXCEPT ![c] =
                [busy |-> TRUE, q |-> q, got |-> <<>>, at |-> now,
                 always |-> Visibly(db, now), ever |-> DOMAIN db, others |-> {},
                 dirty |-> FALSE]]
           /\ mixed' = mixed \cup UNION {scope(q) \cap scope(conn[d].q) : d \in clash}
  BY DEF Start
<1> DEFINE q == numbered(r, used + 1)
           v == Visibly(db, now)
           y == [busy |-> TRUE, q |-> q, got |-> <<>>, at |-> now, always |-> v,
                 ever |-> DOMAIN db, others |-> {}, dirty |-> FALSE]
<1>3. r \in Request
  BY CommandsAssumption
<1>4. used + 1 \in 1..MaxRequests
  BY <1>1, Bounds
<1>5. q \in Query /\ q.id = used + 1
  BY <1>3, <1>4 DEF Request, Query, numbered
<1>6. v \subseteq DOMAIN db
  BY DEF Visibly, Visible
<1>7. <<>> \in Seq(Result)
  OBVIOUS
<1> HIDE DEF q, v
<1>8. y \in ConnRec
  BY <1>1, <1>5, <1>6, <1>7 DEF ConnRec
<1>9. Begun(y, now, used + 1)
  BY <1>5, <1>6, <1>8 DEF Begun
<1>10. conn' = [conn EXCEPT ![c] = y]
  BY <1>2 DEF q, v
<1>11. mixed' \subseteq Keys
  <2>1. scope(q) \subseteq Keys
    BY <1>5, Scopes
  <2> QED BY <1>1, <1>2, <2>1 DEF q
<1> HIDE DEF y
<1> QED BY <1>1, <1>8, <1>9, <1>10, <1>11

\* What a step may make of a connection.
Moved(x, y, u, n) ==
  \/ y = Idle
  \/ Watched(x, y, db, db')
  \/ Begun(y, now, n) /\ u = now /\ db' = db
  \/ u = now /\ x \in ConnRec /\ \E t \in x.at..now : Called(x, y, db, db', t, now)

\* What a step may do to the store, the clocks and the connections.
Stepped ==
  /\ IsStore(db') /\ now <= now' /\ now' \in 0..MaxTime
  /\ used <= used' /\ used' \in 0..MaxRequests /\ mixed' \subseteq Keys
  /\ conn' \in [Conns -> {Idle} \cup ConnRec]
  /\ \A c \in Conns : Moved(conn[c], conn'[c], now', used')

\* Every step does no more.
LEMMA Steps ==
  ASSUME TypeInv, [Next]_vars
  PROVE  Stepped
<1>1. /\ IsStore(db) /\ now \in 0..MaxTime /\ used \in 0..MaxRequests /\ mixed \subseteq Keys
      /\ conn \in [Conns -> {Idle} \cup ConnRec]
      /\ \A c \in Busy : ConnOK(conn[c], now, used)
  BY DEF TypeInv
<1>2. now \in Nat /\ now <= now /\ used \in Nat /\ used <= used
  BY <1>1, Bounds
<1>3. \A c \in Conns : conn'[c] = conn[c] /\ db' = db => Moved(conn[c], conn'[c], now', used')
  BY <1>1, WatchedSame DEF Moved
<1>4. ASSUME NEW c \in Conns, Start(c) PROVE Stepped
  <2>1. db' = db /\ now' = now /\ used' = used + 1 /\ used < MaxRequests
    BY <1>4 DEF Start
  <2>2. /\ conn' \in [Conns -> {Idle} \cup ConnRec] /\ mixed' \subseteq Keys
        /\ Begun(conn'[c], now, used + 1)
        /\ \A d \in Conns : d # c => conn'[d] = conn[d]
    BY <1>4, StartStep
  <2>3. Moved(conn[c], conn'[c], now', used')
    BY <2>1, <2>2 DEF Moved
  <2>4. used' \in 0..MaxRequests /\ used <= used'
    BY <1>2, <2>1, Bounds
  <2> QED BY <1>1, <1>2, <1>3, <2>1, <2>2, <2>3, <2>4 DEF Stepped
<1>5. ASSUME NEW c \in Conns, Call(c) PROVE Stepped
  <2>1. now' = now /\ used' = used /\ mixed' = mixed
    BY <1>5 DEF Call
  <2>2. /\ IsStore(db') /\ conn' \in [Conns -> {Idle} \cup ConnRec]
        /\ conn[c] \in ConnRec
        /\ \E t \in conn[c].at..now : Called(conn[c], conn'[c], db, db', t, now)
        /\ \A d \in Conns : d # c =>
             \/ conn[d] = Idle /\ conn'[d] = Idle
             \/ Watched(conn[d], conn'[d], db, db')
    BY <1>5, CallStep
  <2>3. \A d \in Conns : Moved(conn[d], conn'[d], now', used')
    BY <2>1, <2>2 DEF Moved
  <2> QED BY <1>1, <1>2, <2>1, <2>2, <2>3 DEF Stepped
<1>6. ASSUME NEW c \in Conns, Finish(c) PROVE Stepped
  <2>1. /\ db' = db /\ now' = now /\ used' = used /\ mixed' = mixed
        /\ conn' = [conn EXCEPT ![c] = Idle]
    BY <1>6 DEF Finish
  <2>2. \A d \in Conns : conn'[d] = Idle \/ conn'[d] = conn[d]
    BY <1>1, <2>1
  <2>3. \A d \in Conns : Moved(conn[d], conn'[d], now', used')
    BY <1>3, <2>1, <2>2 DEF Moved
  <2>4. conn' \in [Conns -> {Idle} \cup ConnRec]
    BY <1>1, <2>1
  <2> QED BY <1>1, <1>2, <2>1, <2>3, <2>4 DEF Stepped
<1>7. ASSUME NEW i \in DOMAIN Shards, Reap(i) PROVE Stepped
  <2>1. now' = now /\ used' = used /\ mixed' = mixed /\ conn' = Observed(conn, None, db', now)
    BY <1>7 DEF Reap
  <2>2. IsStore(db')
    <3>1. PICK t \in 0..now :
            db' = [k \in {j \in DOMAIN db : j \notin Shards[i] \/ ~gone(db[j], t)} |-> db[k]]
      BY <1>7 DEF Reap
    <3> QED BY <1>1, <3>1 DEF IsStore
  <2>3. /\ conn' \in [Conns -> {Idle} \cup ConnRec]
        /\ \A d \in Conns : \/ conn[d] = Idle /\ conn'[d] = Idle
                            \/ Watched(conn[d], conn'[d], db, db')
    BY <2>1, <2>2, ObservedStep
  <2>4. \A d \in Conns : Moved(conn[d], conn'[d], now', used')
    BY <2>3 DEF Moved
  <2> QED BY <1>1, <1>2, <2>1, <2>2, <2>3, <2>4 DEF Stepped
<1>8. ASSUME Tick PROVE Stepped
  <2>1. /\ db' = db /\ used' = used /\ now' = now + 1 /\ now < MaxTime
        /\ conn' = Observed(conn, None, db, now + 1)
    BY <1>8 DEF Tick
  <2>2. /\ conn' \in [Conns -> {Idle} \cup ConnRec]
        /\ \A d \in Conns : \/ conn[d] = Idle /\ conn'[d] = Idle
                            \/ Watched(conn[d], conn'[d], db, db')
    BY <1>1, <2>1, ObservedStep
  <2>3. \A d \in Conns : Moved(conn[d], conn'[d], now', used')
    BY <2>2 DEF Moved
  <2>4. now' \in 0..MaxTime /\ now <= now'
    BY <1>2, <2>1, Bounds
  <2>5. mixed' \subseteq Keys
    <3>1. \A c \in Busy : scope(conn[c].q) \subseteq Keys
      BY <1>1, Scopes DEF ConnOK, ConnRec
    <3> QED BY <1>1, <1>8, <3>1 DEF Tick
  <2> QED BY <1>1, <1>2, <2>1, <2>2, <2>3, <2>4, <2>5 DEF Stepped
<1>9. ASSUME UNCHANGED vars PROVE Stepped
  <2>1. db' = db /\ now' = now /\ used' = used /\ mixed' = mixed /\ conn' = conn
    BY <1>9 DEF vars
  <2> QED BY <1>1, <1>2, <1>3, <2>1 DEF Stepped
<1> QED BY <1>4, <1>5, <1>6, <1>7, <1>8, <1>9 DEF Next, Quiet

-----------------------------------------------------------------------------
(* What each command keeps true of itself                                  *)

\* FLUSHALL: in a shard that it has reset there is only what others wrote since.
FlushOK(x, m) ==
  x.q.op = "FLUSHALL" =>
    \A j \in 1..Len(x.got) : DOMAIN m \cap Shards[j] \subseteq x.others

\* KEYS: a shard that it has listed gave what was there all along, and nothing
\* that was never there.
ListOK(x, t) ==
  x.q.op = "KEYS" =>
    /\ x.got # <<>> => x.got[1].val <= t
    /\ \A i \in 2..Len(x.got) :
         x.always \cap Shards[i - 1] \subseteq x.got[i].val /\ x.got[i].val \subseteq x.ever

\* DBSIZE: the same of the numbers.
SizeOK(x) ==
  x.q.op = "DBSIZE" =>
    \A i \in 1..Len(x.got) :
      /\ x.got[i].val \in Nat
      /\ Cardinality(x.always \cap Shards[i]) <= x.got[i].val
      /\ x.got[i].val <= Cardinality(x.ever \cap Shards[i])

\* A command that has changed something is done and will be logged, or is DEL
\* and has found a key, or is logged anyway.
DirtyOK(x) ==
  x.dirty =>
    /\ x.q.op \in OneKey =>
         next_call(x.q, x.got).fn = "outcome" /\ next_call(x.q, x.got).persist
    /\ x.q.op = "DEL" => \E i \in 1..Len(x.got) : yes(x.got[i])
    /\ x.q.op \notin Reads

\* EXPIRE: pttl told the deadline of the key, counted from a clock that is not
\* earlier than the command's own.
ExpireOK(x, m, t) ==
  x.q.op = "EXPIRE" =>
    /\ Len(x.got) >= 2 => x.got[2].val <= x.at
    /\ /\ x.q.flags # {} /\ Len(x.got) = 3
       /\ x.q.keys[1] \in DOMAIN m /\ x.q.keys[1] \notin x.others
       => \/ x.got[3].tag = "noexpiry" /\ m[x.q.keys[1]].expire_at = None
          \/ /\ x.got[3].tag = "millis" /\ m[x.q.keys[1]].expire_at # None
             /\ \E u \in x.got[2].val..t : x.got[3].val = m[x.q.keys[1]].expire_at - u

Kept(x, m, t) ==
  FlushOK(x, m) /\ ListOK(x, t) /\ SizeOK(x) /\ DirtyOK(x) /\ ExpireOK(x, m, t)

\* Subsets of the keys have no more members.
LEMMA FewerKeys ==
  ASSUME NEW B \in SUBSET Keys, NEW A \in SUBSET B
  PROVE  Cardinality(A) \in Nat /\ Cardinality(B) \in Nat /\ Cardinality(A) <= Cardinality(B)
<1>1. IsFiniteSet(B)
  BY KeysAssumption, FS_Subset
<1>2. IsFiniteSet(A) /\ Cardinality(A) <= Cardinality(B)
  BY <1>1, FS_Subset
<1> QED BY <1>1, <1>2, FS_CardinalityType

\* A command that begins has nothing to keep.
LEMMA KeptBegun ==
  ASSUME NEW y, NEW u, NEW n, Begun(y, u, n), NEW m, NEW t
  PROVE  Kept(y, m, t)
<1>1. y.got = <<>> /\ Len(y.got) = 0 /\ y.dirty = FALSE
  BY DEF Begun
<1>2. \A i \in 1..Len(y.got) : FALSE
  BY <1>1
<1>3. \A i \in 2..Len(y.got) : FALSE
  BY <1>1
<1>4. ~(Len(y.got) >= 2) /\ Len(y.got) # 3
  BY <1>1
<1> QED BY <1>1, <1>2, <1>3, <1>4 DEF Kept, FlushOK, ListOK, SizeOK, DirtyOK, ExpireOK

\* The steps of others.
LEMMA KeptWatched ==
  ASSUME NEW m, IsStore(m), NEW d, IsStore(d), NEW x, NEW y, Watched(x, y, m, d),
         NEW t \in Nat, NEW u \in Nat, t <= u, Fit(x.q, x.got), Kept(x, m, t)
  PROVE  Kept(y, d, u)
<1>1. /\ x \in ConnRec /\ y \in ConnRec
      /\ y.q = x.q /\ y.got = x.got /\ y.at = x.at /\ y.dirty = x.dirty
      /\ y.always \subseteq x.always /\ x.ever \subseteq y.ever
      /\ x.others \subseteq y.others
      /\ \A k \in Keys : k \notin y.others =>
           (k \in DOMAIN m <=> k \in DOMAIN d) /\ (k \in DOMAIN m => m[k] = d[k])
  BY DEF Watched, Differs
<1>2. FlushOK(y, d)
  BY <1>1 DEF Kept, FlushOK, IsStore
<1>3. ListOK(y, u)
  <2>1. x.q.op = "KEYS" /\ x.got # <<>> => x.got[1].val \in Nat /\ x.got[1].val <= t
    BY DEF Kept, ListOK, Fit, IsTime
  <2>2. x.q.op = "KEYS" /\ x.got # <<>> => x.got[1].val <= u
    BY <2>1
  <2> QED BY <1>1, <2>2 DEF Kept, ListOK
<1>4. SizeOK(y)
  <2> SUFFICES ASSUME x.q.op = "DBSIZE", NEW i \in 1..Len(x.got)
               PROVE  /\ x.got[i].val \in Nat
                      /\ Cardinality(y.always \cap Shards[i]) <= x.got[i].val
                      /\ x.got[i].val <= Cardinality(y.ever \cap Shards[i])
    BY <1>1 DEF SizeOK
  <2>1. /\ x.got[i].val \in Nat
        /\ Cardinality(x.always \cap Shards[i]) <= x.got[i].val
        /\ x.got[i].val <= Cardinality(x.ever \cap Shards[i])
    BY DEF Kept, SizeOK
  <2>2. x.always \cap Shards[i] \in SUBSET Keys /\ y.ever \cap Shards[i] \in SUBSET Keys
    BY <1>1 DEF ConnRec
  <2>3. /\ y.always \cap Shards[i] \in SUBSET (x.always \cap Shards[i])
        /\ x.ever \cap Shards[i] \in SUBSET (y.ever \cap Shards[i])
    BY <1>1
  <2> DEFINE A == Cardinality(y.always \cap Shards[i])
             B == Cardinality(x.always \cap Shards[i])
             C == Cardinality(x.ever \cap Shards[i])
             D == Cardinality(y.ever \cap Shards[i])
  <2>4. A \in Nat /\ B \in Nat /\ A <= B
    BY <2>2, <2>3, FewerKeys
  <2>5. C \in Nat /\ D \in Nat /\ C <= D
    BY <2>2, <2>3, FewerKeys
  <2>6. B <= x.got[i].val /\ x.got[i].val <= C
    BY <2>1
  <2> HIDE DEF A, B, C, D
  <2>7. A <= x.got[i].val /\ x.got[i].val <= D
    BY <2>1, <2>4, <2>5, <2>6
  <2> QED BY <2>1, <2>7 DEF A, D
<1>5. DirtyOK(y)
  BY <1>1 DEF Kept, DirtyOK
<1>6. ExpireOK(y, d, u)
  <2> SUFFICES ASSUME x.q.op = "EXPIRE"
               PROVE  ExpireOK(y, d, u)
    BY <1>1 DEF ExpireOK
  <2> DEFINE k == x.q.keys[1]
  <2>1. k \in Keys
    BY <1>1, NamedKeys DEF ConnRec, Whole
  <2>2. Len(y.got) >= 2 => y.got[2].val <= y.at
    BY <1>1 DEF Kept, ExpireOK
  <2>3. ASSUME x.q.flags # {}, Len(x.got) = 3, k \in DOMAIN d, k \notin y.others
        PROVE  \/ x.got[3].tag = "noexpiry" /\ d[k].expire_at = None
               \/ /\ x.got[3].tag = "millis" /\ d[k].expire_at # None
                  /\ \E v \in x.got[2].val..u : x.got[3].val = d[k].expire_at - v
    <3>1. k \in DOMAIN m /\ d[k] = m[k] /\ k \notin x.others
      BY <1>1, <2>1, <2>3
    <3>2. \/ x.got[3].tag = "noexpiry" /\ m[k].expire_at = None
          \/ /\ x.got[3].tag = "millis" /\ m[k].expire_at # None
             /\ \E v \in x.got[2].val..t : x.got[3].val = m[k].expire_at - v
      BY <2>3, <3>1 DEF Kept, ExpireOK
    <3>3. x.got[2].val \in Nat
      BY <2>3 DEF Fit, IsTime
    <3>4. \A v \in x.got[2].val..t : v \in x.got[2].val..u
      BY <3>3
    <3> QED BY <3>1, <3>2, <3>4
  <2> QED BY <1>1, <2>2, <2>3 DEF ExpireOK
<1> QED BY <1>2, <1>3, <1>4, <1>5, <1>6 DEF Kept

\* All about a call that a connection makes.
CallMade(x, y, m, d, t, u) ==
  /\ IsStore(m) /\ IsStore(d) /\ Called(x, y, m, d, t, u)
  /\ x \in ConnRec /\ y \in ConnRec
  /\ x.q \in Query /\ x.got \in Seq(Result) /\ y.q = x.q /\ y.at = u
  /\ u \in Nat /\ t \in Nat /\ t <= u /\ x.at \in Nat /\ x.at <= t
  /\ IsCall(next_call(x.q, x.got)) /\ next_call(x.q, x.got).fn # "outcome"
  /\ perform(m, next_call(x.q, x.got), t).res \in Result
  /\ d = perform(m, next_call(x.q, x.got), t).db
  /\ y.got = Append(x.got, perform(m, next_call(x.q, x.got), t).res)
  /\ Fit(x.q, x.got) /\ Fit(y.q, y.got)

\* A call of the command itself.
LEMMA CallFacts ==
  ASSUME NEW m, IsStore(m), NEW x, NEW u \in Nat, NEW n, ConnOK(x, u, n), NEW t \in x.at..u,
         NEW y, NEW d, Called(x, y, m, d, t, u)
  PROVE  CallMade(x, y, m, d, t, u)
<1>1. next_call(x.q, x.got).fn # "outcome" /\ x \in ConnRec /\ y \in ConnRec
      /\ d = perform(m, next_call(x.q, x.got), t).db
      /\ y.got = Append(x.got, perform(m, next_call(x.q, x.got), t).res)
      /\ y.q = x.q /\ y.at = u
  BY DEF Called
<1>2. /\ IsStore(perform(m, next_call(x.q, x.got), t).db)
      /\ perform(m, next_call(x.q, x.got), t).res \in Result
      /\ IsCall(next_call(x.q, x.got))
      /\ t \in Nat /\ t <= u /\ x.at <= t
      /\ Fit(x.q, Append(x.got, perform(m, next_call(x.q, x.got), t).res))
  BY <1>1, CallTypes
<1>3. x.q \in Query /\ x.got \in Seq(Result) /\ x.at \in Nat /\ Fit(x.q, x.got)
  BY <1>1 DEF ConnRec, ConnOK
<1> QED BY <1>1, <1>2, <1>3 DEF CallMade

\* FLUSHALL resets the next shard.
LEMMA FlushCalled ==
  ASSUME NEW x, NEW y, NEW m, NEW d, NEW t, NEW u, CallMade(x, y, m, d, t, u), FlushOK(x, m)
  PROVE  FlushOK(y, d)
<1> SUFFICES ASSUME y.q.op = "FLUSHALL", NEW j \in 1..Len(y.got)
             PROVE  DOMAIN d \cap Shards[j] \subseteq y.others
  BY DEF FlushOK
<1> DEFINE call == next_call(x.q, x.got)
           l == Len(x.got)
<1>1. /\ x.q.op = "FLUSHALL" /\ x.got \in Seq(Result) /\ call.fn # "outcome"
      /\ perform(m, call, t).res \in Result /\ d = perform(m, call, t).db
      /\ y.got = Append(x.got, perform(m, call, t).res)
  BY DEF CallMade
<1>2. y.others = x.others
  BY DEF CallMade, Called
<1>3. l \in Nat /\ Len(y.got) = l + 1
  BY <1>1, OneMore
<1>4. call = flush_all(x.q, x.got)
  BY <1>1 DEF next_call
<1>5. call = to_shard("flush", l + 1, None)
  BY <1>1, <1>4 DEF flush_all, outcome
<1>6. d = [k \in DOMAIN m \ (DOMAIN m \cap Shards[l + 1]) |-> m[k]]
  BY <1>1, <1>5 DEF to_shard, perform, on_shard
<1>7. DOMAIN d = DOMAIN m \ Shards[l + 1]
  BY <1>6
<1>8. CASE j = l + 1
  BY <1>7, <1>8
<1>9. CASE j # l + 1
  <2>1. j \in 1..l
    BY <1>3, <1>9
  <2> QED BY <1>1, <1>2, <1>7, <2>1 DEF FlushOK
<1> QED BY <1>8, <1>9

\* KEYS reads the clock and lists the next shard.
LEMMA ListCalled ==
  ASSUME NEW x, NEW y, NEW m, NEW d, NEW t, NEW u, CallMade(x, y, m, d, t, u), ListOK(x, u)
  PROVE  ListOK(y, u)
<1> SUFFICES ASSUME y.q.op = "KEYS" PROVE ListOK(y, u)
  BY DEF ListOK
<1> DEFINE call == next_call(x.q, x.got)
           l == Len(x.got)
           res == perform(m, call, t).res
<1>1. /\ x.q.op = "KEYS" /\ x.got \in Seq(Result) /\ call.fn # "outcome"
      /\ res \in Result /\ d = perform(m, call, t).db
      /\ y.got = Append(x.got, res) /\ t <= u /\ u \in Nat
  BY DEF CallMade
<1>2. y.always = x.always \cap Visibly(d, u) /\ y.ever = x.ever \cup DOMAIN d
  BY DEF CallMade, Called
<1>3. /\ l \in Nat /\ Len(y.got) = l + 1 /\ (x.got = <<>> <=> l = 0)
      /\ y.got[l + 1] = res /\ \A i \in 1..l : y.got[i] = x.got[i]
  BY <1>1, OneMore
<1>4. call = keys_cmd(x.q, x.got)
  BY <1>1 DEF next_call
<1>5. CASE l = 0
  <2>1. call = clock
    BY <1>3, <1>4, <1>5 DEF keys_cmd
  <2>2. y.got[1].val = t
    BY <1>3, <1>5, <2>1 DEF clock, perform, result
  <2>3. \A i \in 2..Len(y.got) : FALSE
    BY <1>3, <1>5
  <2> QED BY <1>1, <2>2, <2>3 DEF ListOK
<1>6. CASE l # 0
  <2> DEFINE at == x.got[1].val
             K == {k \in DOMAIN m \cap Shards[l] : ~gone(m[k], at)}
  <2>1. call = to_shard("keys", l, at)
    <3>1. x.got # <<>>
      BY <1>3, <1>6
    <3>2. l <= Len(Shards)
      BY <1>1, <1>4, <3>1 DEF keys_cmd, outcome
    <3> QED BY <1>4, <3>1, <3>2 DEF keys_cmd
  <2>2. d = m /\ res.val = K
    BY <1>1, <2>1 DEF to_shard, perform, on_shard, result
  <2>3. at \in Nat /\ at <= u /\ y.got[1] = x.got[1]
    BY <1>1, <1>3, <1>6 DEF ListOK, CallMade, Fit, IsTime
  <2>4. y.always \cap Shards[l] \subseteq K
    <3> SUFFICES ASSUME NEW k \in y.always, k \in Shards[l] PROVE k \in K
      OBVIOUS
    <3>1. k \in DOMAIN m /\ ~gone(m[k], u)
      BY <1>2, <2>2 DEF Visibly, Visible
    <3>2. m[k].expire_at = None \/ m[k].expire_at \in Nat
      BY <3>1 DEF CallMade, IsStore, Entry
    <3>3. ~gone(m[k], at)
      BY <1>1, <2>3, <3>1, <3>2 DEF gone
    <3> QED BY <3>1, <3>3
  <2>5. K \subseteq y.ever
    BY <1>2, <2>2
  <2> HIDE DEF K
  <2>6. ASSUME NEW i \in 2..Len(y.got)
        PROVE  y.always \cap Shards[i - 1] \subseteq y.got[i].val /\ y.got[i].val \subseteq y.ever
    <3>1. CASE i = l + 1
      <4>1. i - 1 = l /\ y.got[i].val = K
        BY <1>3, <2>2, <3>1
      <4> QED BY <2>4, <2>5, <4>1
    <3>2. CASE i # l + 1
      <4>1. i \in 2..l /\ y.got[i] = x.got[i]
        BY <1>3, <3>2
      <4>2. x.always \cap Shards[i - 1] \subseteq x.got[i].val /\ x.got[i].val \subseteq x.ever
        BY <1>1, <4>1 DEF ListOK
      <4> QED BY <1>2, <4>1, <4>2
    <3> QED BY <3>1, <3>2
  <2> QED BY <2>3, <2>6 DEF ListOK
<1> QED BY <1>5, <1>6

\* DBSIZE counts the next shard.
LEMMA SizeCalled ==
  ASSUME NEW x, NEW y, NEW m, NEW d, NEW t, NEW u, CallMade(x, y, m, d, t, u), SizeOK(x)
  PROVE  SizeOK(y)
<1> SUFFICES ASSUME y.q.op = "DBSIZE", NEW i \in 1..Len(y.got)
             PROVE  /\ y.got[i].val \in Nat
                    /\ Cardinality(y.always \cap Shards[i]) <= y.got[i].val
                    /\ y.got[i].val <= Cardinality(y.ever \cap Shards[i])
  BY DEF SizeOK
<1> DEFINE call == next_call(x.q, x.got)
           l == Len(x.got)
           res == perform(m, call, t).res
<1>1. /\ x.q.op = "DBSIZE" /\ x.got \in Seq(Result) /\ call.fn # "outcome"
      /\ res \in Result /\ d = perform(m, call, t).db
      /\ y.got = Append(x.got, res) /\ x \in ConnRec /\ y \in ConnRec
  BY DEF CallMade
<1>2. y.always = x.always \cap Visibly(d, u) /\ y.ever = x.ever \cup DOMAIN d
  BY DEF CallMade, Called
<1>3. /\ l \in Nat /\ Len(y.got) = l + 1
      /\ y.got[l + 1] = res /\ \A j \in 1..l : y.got[j] = x.got[j]
  BY <1>1, OneMore
<1>4. call = dbsize(x.q, x.got)
  BY <1>1 DEF next_call
<1>5. ~(l < Len(Shards)) => dbsize(x.q, x.got).fn = "outcome"
  BY DEF dbsize, outcome
<1>6. call = to_shard("len", l + 1, None)
  BY <1>1, <1>4, <1>5 DEF dbsize
<1> DEFINE A == y.always \cap Shards[i]
           B == y.ever \cap Shards[i]
           C == DOMAIN m \cap Shards[i]
           F == x.always \cap Shards[i]
           G == x.ever \cap Shards[i]
<1>7. B \in SUBSET Keys /\ C \in SUBSET Keys /\ F \in SUBSET Keys
  BY <1>1 DEF ConnRec, IsStore, CallMade
<1>8. CASE i = l + 1
  <2>1. d = m /\ y.got[i].val = Cardinality(C)
    BY <1>1, <1>3, <1>6, <1>8 DEF to_shard, perform, on_shard, result
  <2>2. A \in SUBSET C /\ C \in SUBSET B
    BY <1>2, <2>1 DEF Visibly, Visible
  <2> HIDE DEF A, B, C
  <2>3. Cardinality(A) <= Cardinality(C) /\ Cardinality(C) <= Cardinality(B)
        /\ Cardinality(C) \in Nat
    BY <1>7, <2>2, FewerKeys
  <2> QED BY <2>1, <2>3 DEF A, B
<1>9. CASE i # l + 1
  <2>1. i \in 1..l /\ y.got[i] = x.got[i]
    BY <1>3, <1>9
  <2> DEFINE v == x.got[i].val
  <2>2. v \in Nat /\ Cardinality(F) <= v /\ v <= Cardinality(G)
    BY <1>1, <2>1 DEF SizeOK
  <2>3. A \in SUBSET F /\ G \in SUBSET B
    BY <1>2
  <2> HIDE DEF A, B, F, G, v
  <2>4. Cardinality(A) \in Nat /\ Cardinality(F) \in Nat /\ Cardinality(A) <= Cardinality(F)
    BY <1>7, <2>3, FewerKeys
  <2>5. Cardinality(G) \in Nat /\ Cardinality(B) \in Nat /\ Cardinality(G) <= Cardinality(B)
    BY <1>7, <2>3, FewerKeys
  <2>6. Cardinality(A) <= v /\ v <= Cardinality(B)
    BY <2>2, <2>4, <2>5
  <2> QED BY <2>1, <2>2, <2>6 DEF A, B, v
<1> QED BY <1>8, <1>9

\* A call that changes what clients see is the last one that can, or is counted.
LEMMA DirtyCalled ==
  ASSUME NEW x, NEW y, NEW m, NEW d, NEW t, NEW u, CallMade(x, y, m, d, t, u), DirtyOK(x)
  PROVE  DirtyOK(y)
<1> SUFFICES ASSUME y.dirty PROVE DirtyOK(y)
  BY DEF DirtyOK
<1> DEFINE q == x.q
           got == x.got
           call == next_call(q, got)
           l == Len(got)
           res == perform(m, call, t).res
           more == Append(got, res)
<1>1. /\ q \in Query /\ got \in Seq(Result) /\ call.fn # "outcome" /\ IsCall(call)
      /\ res \in Result /\ d = perform(m, call, t).db /\ IsStore(m) /\ t \in Nat
      /\ y.q = q /\ y.got = more /\ Fit(q, got) /\ Fit(q, more)
  BY DEF CallMade
<1>2. y.dirty = (x.dirty \/ Visible(m, t) # Visible(d, t))
  BY DEF CallMade, Called
<1>3. \/ x.dirty
      \/ call.fn \in {"flush", "expire_at"}
      \/ call.fn \in {"set", "del", "push"} /\ yes(res)
  BY <1>1, <1>2, Changes
<1>4. /\ l \in Nat /\ Len(more) = l + 1 /\ (got = <<>> <=> l = 0) /\ more # <<>>
      /\ more \in Seq(Result) /\ more[l + 1] = res /\ \A i \in 1..l : more[i] = got[i]
  BY <1>1, OneMore
<1>5. x.dirty => q.op \notin OneKey \cup Reads
  BY <1>1 DEF DirtyOK
<1> SUFFICES /\ q.op \in OneKey =>
                  next_call(q, more).fn = "outcome" /\ next_call(q, more).persist
             /\ q.op = "DEL" => \E i \in 1..Len(more) : yes(more[i])
             /\ q.op \notin Reads
  BY <1>1 DEF DirtyOK
<1>6. q.op = "DEL" /\ x.dirty => \E i \in 1..l : yes(got[i])
  BY DEF DirtyOK
<1> HIDE DEF q, got, call, l, res, more
<1>10. CASE q.op = "SET"
  <2> DEFINE timed == q.time # None /\ ~q.absolute
             n == IF timed THEN 1 ELSE 0
             want_get == "GET" \in q.flags
  <2>1. call = set_cmd(q, got) /\ next_call(q, more) = set_cmd(q, more)
    BY <1>10 DEF next_call, call
  <2>2. call.fn = "set" /\ yes(res)
    <3>1. call.fn \in {"now", "get", "set", "outcome"}
      BY <2>1 DEF set_cmd, clock, to_key, to_set, outcome
    <3> QED BY <1>3, <1>5, <1>10, <3>1 DEF OneKey
  <2>3. /\ ~(l < n) /\ ~(want_get /\ l = n) /\ ~(want_get /\ got[n + 1].tag = "wrongtype")
        /\ l = IF want_get THEN n + 1 ELSE n
    BY <2>1, <2>2 DEF set_cmd, clock, to_key, to_set, outcome, l
  <2>4. want_get => more[n + 1] = got[n + 1]
    BY <1>4, <2>3
  <2>5. Last(more) = res
    BY <1>4 DEF Last
  <2>6. /\ ~(Len(more) < n) /\ ~(want_get /\ Len(more) = n)
        /\ ~(want_get /\ more[n + 1].tag = "wrongtype")
        /\ Len(more) # IF want_get THEN n + 1 ELSE n
    BY <1>4, <2>3, <2>4
  <2>7. set_cmd(q, more) = outcome(more[IF want_get THEN n + 1 ELSE Len(more)], yes(Last(more)))
    BY <2>6 DEF set_cmd
  <2> QED BY <1>10, <2>1, <2>2, <2>5, <2>7 DEF outcome, Reads
<1>11. CASE q.op = "GETSET"
  <2>1. call = getset(q, got) /\ next_call(q, more) = getset(q, more)
    BY <1>11 DEF next_call, call
  <2>2. l = 0 \/ l = 1 \/ l = 2
    <3>1. l <= 2
      BY <1>1, <1>11 DEF Fit, l
    <3> QED BY <1>4, <3>1
  <2>3. call.fn \in {"get", "set", "outcome"}
    BY <1>4, <2>1, <2>2 DEF getset, to_key, to_set, outcome, l
  <2>4. call.fn = "set"
    BY <1>3, <1>5, <1>11, <2>3 DEF OneKey
  <2>5. l = 1 /\ got[1].tag # "wrongtype"
    BY <1>4, <2>1, <2>2, <2>4 DEF getset, to_key, to_set, outcome, l
  <2>6. Len(more) = 2 /\ more[1].tag # "wrongtype"
    BY <1>4, <2>5
  <2>7. Len(more) # 1 /\ more # <<>>
    BY <1>4, <2>6
  <2>8. getset(q, more) = outcome(more[1], TRUE)
    BY <2>6, <2>7 DEF getset
  <2> QED BY <1>11, <2>1, <2>8 DEF outcome, Reads
<1>12. CASE q.op = "SETNX"
  <2>1. call = setnx(q, got) /\ next_call(q, more) = setnx(q, more)
    BY <1>12 DEF next_call, call
  <2>2. l = 0 /\ call.fn = "set"
    BY <1>1, <1>4, <2>1 DEF setnx, outcome, to_set
  <2>3. yes(res) /\ more[1] = res
    BY <1>3, <1>4, <1>5, <1>12, <2>2 DEF OneKey
  <2>4. setnx(q, more) = outcome(more[1], yes(more[1]))
    BY <1>4 DEF setnx
  <2> QED BY <1>12, <2>1, <2>3, <2>4 DEF outcome, Reads
<1>13. CASE q.op = "RPUSH"
  <2>1. call = push_cmd(q, got) /\ next_call(q, more) = push_cmd(q, more)
    BY <1>13 DEF next_call, call
  <2>2. l = 0 /\ call.fn = "push"
    BY <1>1, <1>4, <2>1 DEF push_cmd, outcome
  <2>3. yes(res) /\ more[1] = res
    BY <1>3, <1>4, <1>5, <1>13, <2>2 DEF OneKey
  <2>4. push_cmd(q, more) = outcome(more[1], yes(more[1]))
    BY <1>4 DEF push_cmd
  <2> QED BY <1>13, <2>1, <2>3, <2>4 DEF outcome, Reads
<1>14. CASE q.op = "EXPIRE"
  <2> DEFINE n == IF q.flags = {} THEN 2 ELSE 3
             at == deadline(q, got[2].val)
  <2>1. call = expire_cmd(q, got) /\ next_call(q, more) = expire_cmd(q, more)
    BY <1>14 DEF next_call, call
  <2>2. call.fn \in {"exists", "now", "pttl", "expire_at", "outcome"}
    BY <2>1 DEF expire_cmd, to_key, clock, to_expire, outcome
  <2>3. call.fn = "expire_at"
    BY <1>3, <1>5, <1>14, <2>2 DEF OneKey
  <2>4. /\ l # 0 /\ yes(got[1]) /\ l # 1 /\ ~(l < n) /\ l = n
        /\ ~(q.flags # {} /\ ~allows(q, at, got[2].val, got[3]))
    BY <1>4, <2>1, <2>3 DEF expire_cmd, to_key, clock, to_expire, outcome, l
  <2>5. more[1] = got[1] /\ more[2] = got[2] /\ (q.flags # {} => more[3] = got[3])
    BY <1>4, <2>4
  <2>6. expire_cmd(q, more) = outcome(1, TRUE)
    <3>1. Len(more) # 1 /\ ~(Len(more) < n) /\ Len(more) # n
      BY <1>4, <2>4
    <3>2. deadline(q, more[2].val) = at
      BY <2>5
    <3>3. ~(q.flags # {} /\ ~allows(q, deadline(q, more[2].val), more[2].val, more[3]))
      BY <2>4, <2>5, <3>2
    <3> HIDE DEF at
    <3> QED BY <1>4, <2>4, <2>5, <3>1, <3>3 DEF expire_cmd
  <2> QED BY <1>14, <2>1, <2>6 DEF outcome, Reads
<1>15. CASE q.op = "PERSIST"
  <2>1. call = persist_cmd(q, got) /\ next_call(q, more) = persist_cmd(q, more)
    BY <1>15 DEF next_call, call
  <2>2. l = 0 \/ l = 1 \/ l = 2
    <3>1. l <= 2
      BY <1>1, <1>15 DEF Fit, l
    <3> QED BY <1>4, <3>1
  <2>3. call.fn \in {"pttl", "expire_at", "outcome"}
    BY <1>4, <2>1, <2>2 DEF persist_cmd, to_key, to_expire, outcome, l
  <2>4. call.fn = "expire_at"
    BY <1>3, <1>5, <1>15, <2>3 DEF OneKey
  <2>5. l = 1
    BY <1>4, <2>1, <2>2, <2>4 DEF persist_cmd, to_key, to_expire, outcome, l
  <2>6. Len(more) = 2
    BY <1>4, <2>5
  <2>7. Len(more) # 1 /\ more # <<>>
    BY <1>4, <2>6
  <2>8. persist_cmd(q, more) = outcome(1, TRUE)
    BY <2>6, <2>7 DEF persist_cmd
  <2> QED BY <1>15, <2>1, <2>8 DEF outcome, Reads
<1>16. CASE q.op = "DEL"
  <2>1. call = del(q, got)
    BY <1>16 DEF next_call, call
  <2>2. call.fn = "del"
    BY <1>1, <2>1 DEF del, to_key, outcome
  <2>3. \/ x.dirty
        \/ yes(res)
    BY <1>3, <2>2
  <2>4. \E i \in 1..Len(more) : yes(more[i])
    <3>1. CASE x.dirty
      <4>1. PICK i \in 1..l : yes(got[i])
        BY <1>6, <1>16, <3>1
      <4>2. i \in 1..Len(more) /\ more[i] = got[i]
        BY <1>4
      <4> QED BY <4>1, <4>2
    <3>2. CASE yes(res)
      <4>1. l + 1 \in 1..Len(more)
        BY <1>4
      <4> QED BY <1>4, <3>2, <4>1
    <3> QED BY <2>3, <3>1, <3>2
  <2> QED BY <1>16, <2>4 DEF OneKey, Reads
<1>17. q.op \notin Reads
  <2> SUFFICES ASSUME q.op \in Reads PROVE FALSE
    OBVIOUS
  <2>1. call \in {mget(q, got), exists(q, got), keys_cmd(q, got), dbsize(q, got)}
    BY DEF next_call, call, Reads
  <2>2. dbsize(q, got).fn \in {"len", "outcome"}
    BY DEF dbsize, to_shard, outcome
  <2>3. mget(q, got).fn \in {"get", "outcome"} /\ exists(q, got).fn \in {"exists", "outcome"}
        /\ keys_cmd(q, got).fn \in {"now", "keys", "outcome"}
    BY DEF mget, exists, keys_cmd, to_key, to_shard, clock, outcome
  <2> QED BY <1>3, <1>5, <2>1, <2>2, <2>3
<1> QED BY <1>10, <1>11, <1>12, <1>13, <1>14, <1>15, <1>16, <1>17 DEF OneKey

\* EXPIRE reads the clock, and then the time to live of its key.
LEMMA ExpireCalled ==
  ASSUME NEW x, NEW y, NEW m, NEW d, NEW t, NEW u, CallMade(x, y, m, d, t, u),
         ExpireOK(x, m, u)
  PROVE  ExpireOK(y, d, u)
<1> SUFFICES ASSUME x.q.op = "EXPIRE" PROVE ExpireOK(y, d, u)
  BY DEF ExpireOK, CallMade
<1> DEFINE q == x.q
           got == x.got
           k == q.keys[1]
           call == next_call(q, got)
           l == Len(got)
           res == perform(m, call, t).res
           more == Append(got, res)
<1>1. /\ q \in Query /\ got \in Seq(Result) /\ call.fn # "outcome"
      /\ res \in Result /\ d = perform(m, call, t).db /\ IsStore(m)
      /\ t \in Nat /\ u \in Nat /\ x.at \in Nat /\ x.at <= t /\ t <= u
      /\ y.q = q /\ y.got = more /\ y.at = u /\ Fit(q, got)
  BY DEF CallMade
<1>2. k \in Keys
  BY <1>1, NamedKeys DEF Whole
<1>3. call = expire_cmd(q, got)
  BY DEF next_call
<1>4. /\ l \in Nat /\ Len(more) = l + 1 /\ (got = <<>> <=> l = 0)
      /\ more[l + 1] = res /\ \A i \in 1..l : more[i] = got[i]
  BY <1>1, OneMore
<1>5. l >= 2 => got[2].val \in Nat /\ got[2].val <= x.at
  BY <1>1 DEF Fit, IsTime, ExpireOK
<1> HIDE DEF q, got, call, l, res, more
<1>6. Len(more) >= 2 => more[2].val <= u
  <2>1. CASE l = 1
    <3>1. call = clock
      BY <1>1, <1>3, <1>4, <2>1 DEF expire_cmd, outcome, l
    <3>2. more[2] = res /\ res.val = t
      BY <1>4, <2>1, <3>1 DEF clock, perform, result, res
    <3> QED BY <1>1, <3>2
  <2>2. CASE l >= 2
    <3>1. more[2] = got[2]
      BY <1>4, <2>2
    <3>2. got[2].val \in Nat /\ got[2].val <= x.at
      BY <1>5, <2>2
    <3>3. got[2].val <= u
      BY <1>1, <3>2
    <3> QED BY <3>1, <3>3
  <2> QED BY <1>4, <2>1, <2>2
<1>7. ASSUME q.flags # {}, Len(more) = 3, k \in DOMAIN d
      PROVE  \/ more[3].tag = "noexpiry" /\ d[k].expire_at = None
             \/ /\ more[3].tag = "millis" /\ d[k].expire_at # None
                /\ \E v \in more[2].val..u : more[3].val = d[k].expire_at - v
  <2>1. l = 2
    <3>1. l \in Nat /\ l + 1 = 3
      BY <1>4, <1>7
    <3> QED BY <3>1
  <2>2. call = to_key("pttl", k)
    BY <1>1, <1>3, <1>4, <1>7, <2>1 DEF expire_cmd, outcome, l
  <2>3. d = live(m, k, t) /\ res = pttl(d, k, t)
    BY <1>1, <2>2 DEF to_key, perform, on_key, res
  <2>4. IsStore(d)
    BY <1>1, <1>2, <2>3, LiveFacts
  <2>5. d[k].expire_at \in Nat \cup {None}
    BY <1>7, <2>4 DEF IsStore, Entry
  <2>6. more[2] = got[2] /\ more[3] = res /\ more[2].val \in Nat /\ more[2].val <= x.at
    BY <1>4, <1>5, <2>1
  <2>7. t \in more[2].val..u
    <3>1. more[2].val <= t
      BY <1>1, <2>6
    <3> QED BY <1>1, <2>6, <3>1
  <2>8. CASE d[k].expire_at = None
    BY <1>7, <2>3, <2>6, <2>8 DEF pttl, result
  <2>9. CASE d[k].expire_at # None
    <3>1. res.tag = "millis" /\ res.val = d[k].expire_at - t
      BY <1>7, <2>3, <2>9 DEF pttl, result
    <3> QED BY <2>6, <2>7, <2>9, <3>1
  <2> QED BY <2>8, <2>9
<1> HIDE DEF k
<1>8. ExpireOK(y, d, u)
  BY <1>1, <1>6, <1>7 DEF ExpireOK, k
<1> QED BY <1>8

-----------------------------------------------------------------------------
(* The invariant                                                           *)

\* Every command under way keeps its own.
KeptInv == \A c \in Busy : Kept(conn[c], db, now)

Inv == TypeInv /\ KeptInv

\* A server that has loaded its dataset satisfies it.
LEMMA InitInv == Init => Inv
<1> SUFFICES ASSUME Init PROVE Inv
  OBVIOUS
<1>1. IsStore(db)
  BY CommandsAssumption DEF Init, IsStore
<1>2. now \in 0..MaxTime /\ used \in 0..MaxRequests /\ mixed \subseteq Keys
  BY Bounds DEF Init
<1>3. conn \in [Conns -> {Idle} \cup ConnRec] /\ Busy = {}
  BY IdleOrBusy DEF Init, Busy
<1>4. log \in Seq(Query) /\ \A i \in 1..Len(log) : FALSE
  BY DEF Init
<1> QED BY <1>1, <1>2, <1>3, <1>4 DEF Inv, TypeInv, KeptInv

\* A connection after a step.
LEMMA ConnKept ==
  ASSUME Inv, Stepped, NEW c \in Conns, conn'[c] \in ConnRec
  PROVE  ConnOK(conn'[c], now', used') /\ Kept(conn'[c], db', now')
<1> DEFINE x == conn[c]
           y == conn'[c]
<1>1. /\ IsStore(db) /\ IsStore(db') /\ now \in Nat /\ now' \in Nat /\ now <= now'
      /\ used \in Nat /\ used' \in Nat /\ used <= used'
  BY Bounds DEF Inv, TypeInv, Stepped
<1>2. Moved(x, y, now', used') /\ y # Idle
  BY IdleOrBusy DEF Stepped
<1>3. x \in ConnRec => ConnOK(x, now, used) /\ Kept(x, db, now)
  BY IdleOrBusy DEF Inv, TypeInv, KeptInv, Busy
<1>4. CASE Watched(x, y, db, db')
  <2>1. x \in ConnRec /\ ConnOK(x, now, used) /\ Kept(x, db, now) /\ Fit(x.q, x.got)
    BY <1>3, <1>4 DEF Watched, ConnOK
  <2>2. Kept(y, db', now')
    BY <1>1, <1>4, <2>1, KeptWatched
  <2>3. y.q = x.q /\ y.got = x.got /\ y.at = x.at /\ y.always \subseteq y.ever
    BY <1>4, <2>1 DEF Watched, ConnOK
  <2>4. x.q.id \in Nat /\ x.at \in Nat /\ x.q.id <= used /\ x.at <= now
    BY <2>1, QueryNumber DEF ConnOK, ConnRec
  <2>5. x.q.id <= used' /\ x.at <= now'
    BY <1>1, <2>4
  <2> QED BY <2>1, <2>2, <2>3, <2>5 DEF ConnOK
<1>5. CASE Begun(y, now, used') /\ now' = now /\ db' = db
  <2>1. Kept(y, db', now')
    BY <1>5, KeptBegun
  <2>2. y.q.id = used' /\ y.got = <<>> /\ y.at = now /\ y.always \subseteq y.ever
    BY <1>5 DEF Begun
  <2>3. Fit(y.q, y.got)
    BY <2>2, Bounds DEF Fit
  <2>4. y.q.id <= used' /\ y.at <= now'
    BY <1>1, <1>5, <2>2
  <2> QED BY <2>1, <2>2, <2>3, <2>4 DEF ConnOK
<1>6. CASE now' = now /\ x \in ConnRec /\ \E t \in x.at..now : Called(x, y, db, db', t, now)
  <2>1. PICK t \in x.at..now : Called(x, y, db, db', t, now)
    BY <1>6
  <2>2. ConnOK(x, now, used) /\ Kept(x, db, now)
    BY <1>3, <1>6
  <2>3. CallMade(x, y, db, db', t, now)
    BY <1>1, <2>1, <2>2, CallFacts
  <2>4. /\ FlushOK(x, db) /\ ListOK(x, now) /\ SizeOK(x) /\ DirtyOK(x)
        /\ ExpireOK(x, db, now)
    BY <2>2 DEF Kept
  <2>5. FlushOK(y, db') /\ ListOK(y, now)
    BY <2>3, <2>4, FlushCalled, ListCalled
  <2>6. SizeOK(y) /\ DirtyOK(y)
    BY <2>3, <2>4, SizeCalled, DirtyCalled
  <2>7. ExpireOK(y, db', now)
    BY <2>3, <2>4, ExpireCalled
  <2>8. Kept(y, db', now')
    BY <1>6, <2>5, <2>6, <2>7 DEF Kept
  <2>9. /\ y.q = x.q /\ y.at = now /\ Fit(y.q, y.got)
        /\ y.always \subseteq x.always /\ x.ever \subseteq y.ever
    BY <2>3 DEF CallMade, Called
  <2>10. x.q.id \in Nat /\ x.q.id <= used /\ x.always \subseteq x.ever
    BY <2>2, QueryNumber DEF ConnOK, ConnRec
  <2>11. y.q.id <= used' /\ y.at <= now' /\ y.always \subseteq y.ever
    BY <1>1, <1>6, <2>9, <2>10
  <2> QED BY <2>8, <2>9, <2>11 DEF ConnOK
<1> QED BY <1>2, <1>4, <1>5, <1>6 DEF Moved

\* The log.
LEMMA LogKept ==
  ASSUME TypeInv, [Next]_vars, used' \in Nat, used <= used'
  PROVE  log' \in Seq(Query) /\ \A i \in 1..Len(log') : log'[i].id <= used'
<1>1. log \in Seq(Query) /\ used \in Nat /\ \A i \in 1..Len(log) : log[i].id <= used
  BY Bounds DEF TypeInv
<1>2. \A i \in 1..Len(log) : log[i].id \in Nat
  <2>1. \A i \in 1..Len(log) : log[i] \in Query
    BY <1>1, ElementOfSeq
  <2> QED BY <2>1, QueryNumber
<1>3. \A i \in 1..Len(log) : log[i].id <= used'
  BY <1>1, <1>2
<1>4. ASSUME NEW c \in Conns, Finish(c)
      PROVE  log' \in Seq(Query) /\ \A i \in 1..Len(log') : log'[i].id <= used'
  <2> DEFINE q == conn[c].q
  <2>1. log' = log \/ log' = Append(log, q)
    BY <1>4 DEF Finish
  <2>2. q \in Query /\ q.id <= used /\ used' = used
    BY <1>4, IdleOrBusy DEF Finish, TypeInv, Busy, ConnOK, ConnRec
  <2> HIDE DEF q
  <2>3. CASE log' = Append(log, q)
    <3>1. /\ log' \in Seq(Query) /\ Len(log') = Len(log) + 1 /\ Len(log) \in Nat
          /\ log'[Len(log) + 1] = q /\ \A i \in 1..Len(log) : log'[i] = log[i]
      BY <1>1, <2>2, <2>3, AppendProperties, LenProperties
    <3>2. ASSUME NEW i \in 1..Len(log') PROVE log'[i].id <= used'
      <4>1. CASE i = Len(log) + 1
        BY <2>2, <3>1, <4>1
      <4>2. CASE i # Len(log) + 1
        <5>1. i \in 1..Len(log)
          BY <3>1, <4>2
        <5> QED BY <1>3, <3>1, <5>1
      <4> QED BY <4>1, <4>2
    <3> QED BY <3>1, <3>2
  <2> QED BY <1>1, <1>3, <2>1, <2>3
<1>5. CASE log' = log
  BY <1>1, <1>3, <1>5
<1> QED BY <1>4, <1>5 DEF Next, Start, Call, Reap, Tick, Quiet, vars

\* No step breaks the invariant.
LEMMA StepInv == Inv /\ [Next]_vars => Inv'
<1> SUFFICES ASSUME Inv, [Next]_vars PROVE Inv'
  OBVIOUS
<1>1. TypeInv
  BY DEF Inv
<1>2. Stepped
  BY <1>1, Steps
<1>3. ASSUME NEW c \in Busy'
      PROVE  ConnOK(conn'[c], now', used') /\ Kept(conn'[c], db', now')
  <2>1. c \in Conns /\ conn'[c].busy
    BY DEF Busy
  <2>2. conn'[c] \in ConnRec
    BY <1>2, <2>1, IdleOrBusy DEF Stepped
  <2> QED BY <1>2, <2>1, <2>2, ConnKept
<1>4. log' \in Seq(Query) /\ \A i \in 1..Len(log') : log'[i].id <= used'
  BY <1>1, <1>2, LogKept DEF Stepped
<1> QED BY <1>2, <1>3, <1>4 DEF Inv, TypeInv, KeptInv, Stepped

\* The invariant holds always.
LEMMA Invariance == Spec => []Inv
  BY InitInv, StepInv, PTL DEF Spec

-----------------------------------------------------------------------------
(* DBSIZE adds up                                                          *)

\* f is the sums of the first results.
Sums(f, got, n) ==
  /\ f = [i \in 0..n |-> f[i]] /\ f[0] = 0
  /\ \A i \in 1..n : f[i] = f[i - 1] + got[i].val

\* There are such sums.
LEMMA SumsExist ==
  ASSUME NEW got, NEW n \in Nat
  PROVE  \E f : Sums(f, got, n)
<1> DEFINE T == {i \in Nat : \E f : Sums(f, got, i)}
<1>1. 0 \in T
  <2> DEFINE f == [i \in 0..0 |-> 0]
  <2>1. Sums(f, got, 0)
    BY DEF Sums
  <2> QED BY <2>1
<1>2. ASSUME NEW i \in Nat, i \in T PROVE i + 1 \in T
  <2>1. PICK f : Sums(f, got, i)
    BY <1>2
  <2> DEFINE last == f[i] + got[i + 1].val
             g == [j \in 0..(i + 1) |-> IF j <= i THEN f[j] ELSE last]
  <2>2. g[0] = 0
    BY <2>1 DEF Sums
  <2>3. ASSUME NEW j \in 1..(i + 1) PROVE g[j] = g[j - 1] + got[j].val
    <3>1. CASE j <= i
      <4>1. g[j] = f[j] /\ g[j - 1] = f[j - 1] /\ j \in 1..i
        BY <3>1
      <4> HIDE DEF g
      <4> QED BY <4>1, <2>1 DEF Sums
    <3>2. CASE ~(j <= i)
      <4>1. j = i + 1
        BY <3>2
      <4>2. g[j] = last /\ g[j - 1] = f[i]
        BY <4>1
      <4> HIDE DEF g
      <4> QED BY <4>1, <4>2
    <3> QED BY <3>1, <3>2
  <2>4. Sums(g, got, i + 1)
    <3>1. g = [j \in 0..(i + 1) |-> g[j]]
      OBVIOUS
    <3> HIDE DEF g
    <3> QED BY <2>2, <2>3, <3>1 DEF Sums
  <2> HIDE DEF g
  <2> QED BY <2>4
<1> HIDE DEF T
<1>3. n \in T
  BY <1>1, <1>2, NumberInduction
<1> QED BY <1>3 DEF T

\* What DBSIZE answers is the last of them.
LEMMA SizeReply ==
  ASSUME NEW q, NEW got, Len(got) \in Nat, ~(Len(got) < Len(Shards))
  PROVE  \E f : Sums(f, got, Len(got)) /\ dbsize(q, got) = outcome(f[Len(got)], FALSE)
<1> DEFINE n == Len(got)
           Rec(f) == f = [i \in 0..Len(got) |-> IF i = 0 THEN 0 ELSE f[i - 1] + got[i].val]
           g == CHOOSE f : Rec(f)
<1>1. dbsize(q, got) = outcome(g[Len(got)], FALSE)
  BY DEF dbsize
<1>2. PICK f : Sums(f, got, n)
  BY SumsExist
<1>3. Rec(f)
  <2>1. \A i \in 0..n : f[i] = IF i = 0 THEN 0 ELSE f[i - 1] + got[i].val
    <3> SUFFICES ASSUME NEW i \in 0..n
                 PROVE  f[i] = IF i = 0 THEN 0 ELSE f[i - 1] + got[i].val
      OBVIOUS
    <3>1. CASE i = 0
      BY <1>2, <3>1 DEF Sums
    <3>2. CASE i # 0
      <4>1. i \in 1..n
        BY <3>2
      <4>2. f[i] = f[i - 1] + got[i].val
        BY <1>2, <4>1 DEF Sums
      <4> QED BY <3>2, <4>2
    <3> QED BY <3>1, <3>2
  <2>2. f = [i \in 0..n |-> f[i]]
    BY <1>2 DEF Sums
  <2> QED BY <2>1, <2>2, Zenon
<1>4. Rec(g)
  BY <1>3
<1> HIDE DEF g
<1>5. Sums(g, got, n)
  <2>1. g = [i \in 0..n |-> g[i]]
    BY <1>4
  <2>2. g[0] = 0
    BY <1>4
  <2>3. \A i \in 1..n : g[i] = g[i - 1] + got[i].val
    <3> SUFFICES ASSUME NEW i \in 1..n PROVE g[i] = g[i - 1] + got[i].val
      OBVIOUS
    <3>1. i \in 0..n /\ i # 0
      OBVIOUS
    <3> QED BY <3>1, <1>4, Zenon
  <2> QED BY <2>1, <2>2, <2>3 DEF Sums
<1> QED BY <1>1, <1>5

\* The keys of the first i shards.
Upto(i) == UNION {Shards[j] : j \in 1..i}

\* A shard more, and the numbers of the keys of A add up.
LEMMA ShardMore ==
  ASSUME NEW A \in SUBSET Keys, NEW i \in Nat, i + 1 <= Len(Shards)
  PROVE  /\ Cardinality(A \cap Upto(i + 1)) =
              Cardinality(A \cap Upto(i)) + Cardinality(A \cap Shards[i + 1])
         /\ Cardinality(A \cap Upto(i + 1)) \in Nat
         /\ Cardinality(A \cap Upto(i)) \in Nat
         /\ Cardinality(A \cap Shards[i + 1]) \in Nat
<1> DEFINE S == A \cap Upto(i)
           T == A \cap Shards[i + 1]
<1>1. 1..(i + 1) = (1..i) \cup {i + 1}
  OBVIOUS
<1>2. A \cap Upto(i + 1) = S \cup T
  BY <1>1 DEF Upto
<1>3. \A j \in 1..i : Shards[j] \cap Shards[i + 1] = {}
  <2> SUFFICES ASSUME NEW j \in 1..i PROVE Shards[j] \cap Shards[i + 1] = {}
    OBVIOUS
  <2>1. j \in DOMAIN Shards /\ i + 1 \in DOMAIN Shards /\ j # i + 1
    BY Bounds
  <2> QED BY <2>1, CommandsAssumption
<1>4. S \cap T = {}
  BY <1>3 DEF Upto
<1>5. IsFiniteSet(S) /\ IsFiniteSet(T)
  BY KeysAssumption, FS_Subset
<1> HIDE DEF S, T
<1>6. IsFiniteSet(S \cup T) /\ Cardinality(S \cup T) = Cardinality(S) + Cardinality(T) - Cardinality(S \cap T)
  BY <1>5, FS_Union
<1>7. Cardinality(S \cap T) = 0
  BY <1>4, FS_EmptySet
<1>8. Cardinality(S) \in Nat /\ Cardinality(T) \in Nat /\ Cardinality(S \cup T) \in Nat
  BY <1>5, <1>6, FS_CardinalityType
<1>9. Cardinality(S \cup T) = Cardinality(S) + Cardinality(T)
  BY <1>6, <1>7, <1>8
<1> QED BY <1>2, <1>8, <1>9 DEF S, T

\* Bounds of the results are bounds of the sum.
LEMMA SumBounds ==
  ASSUME NEW got, NEW f, Sums(f, got, Len(Shards)),
         NEW A \in SUBSET Keys, NEW B \in SUBSET Keys,
         \A i \in 1..Len(Shards) :
           /\ got[i].val \in Nat
           /\ Cardinality(A \cap Shards[i]) <= got[i].val
           /\ got[i].val <= Cardinality(B \cap Shards[i])
  PROVE  Cardinality(A) <= f[Len(Shards)] /\ f[Len(Shards)] <= Cardinality(B)
<1> DEFINE n == Len(Shards)
           T == {i \in Nat : i <= n =>
                   /\ f[i] \in Nat
                   /\ Cardinality(A \cap Upto(i)) <= f[i]
                   /\ f[i] <= Cardinality(B \cap Upto(i))}
<1>1. n \in Nat
  BY Bounds
<1>2. 0 \in T
  <2>1. Upto(0) = {}
    BY DEF Upto
  <2>2. A \cap Upto(0) = {} /\ B \cap Upto(0) = {}
    BY <2>1
  <2>3. Cardinality(A \cap Upto(0)) = 0 /\ Cardinality(B \cap Upto(0)) = 0
    BY <2>2, FS_EmptySet
  <2>4. f[0] = 0
    BY DEF Sums
  <2> QED BY <2>3, <2>4
<1>3. ASSUME NEW i \in Nat, i \in T PROVE i + 1 \in T
  <2> SUFFICES ASSUME i + 1 <= n
               PROVE  /\ f[i + 1] \in Nat
                      /\ Cardinality(A \cap Upto(i + 1)) <= f[i + 1]
                      /\ f[i + 1] <= Cardinality(B \cap Upto(i + 1))
    OBVIOUS
  <2> DEFINE v == got[i + 1].val
             a == Cardinality(A \cap Upto(i))
             b == Cardinality(B \cap Upto(i))
             p == Cardinality(A \cap Shards[i + 1])
             r == Cardinality(B \cap Shards[i + 1])
  <2>1. f[i] \in Nat /\ a <= f[i] /\ f[i] <= b
    BY <1>1, <1>3
  <2>2. i + 1 \in 1..n /\ (i + 1) - 1 = i
    BY <1>1
  <2>3. f[i + 1] = f[i] + v /\ v \in Nat /\ p <= v /\ v <= r
    BY <2>2 DEF Sums
  <2>4. /\ Cardinality(A \cap Upto(i + 1)) = a + p
        /\ a \in Nat /\ p \in Nat
    BY ShardMore
  <2>5. /\ Cardinality(B \cap Upto(i + 1)) = b + r
        /\ b \in Nat /\ r \in Nat
    BY ShardMore
  <2> HIDE DEF v, a, b, p, r
  <2>6. f[i] + v \in Nat /\ a + p <= f[i] + v /\ f[i] + v <= b + r
    BY <2>1, <2>3, <2>4, <2>5
  <2> QED BY <2>3, <2>4, <2>5, <2>6
<1> HIDE DEF T
<1>4. n \in T
  BY <1>1, <1>2, <1>3, NumberInduction
<1>5. Upto(n) = Keys
  BY Bounds, CommandsAssumption DEF Upto
<1>6. A \cap Upto(n) = A /\ B \cap Upto(n) = B
  BY <1>5
<1>7. Cardinality(A \cap Upto(n)) <= f[n] /\ f[n] <= Cardinality(B \cap Upto(n))
  BY <1>1, <1>4 DEF T
<1> QED BY <1>6, <1>7

-----------------------------------------------------------------------------
(* Theorems                                                                *)

\* A connection whose command is under way, in a state of the invariant.
LEMMA BusyFacts ==
  ASSUME Inv, NEW c \in Busy
  PROVE  /\ conn[c] \in ConnRec /\ ConnOK(conn[c], now, used) /\ Kept(conn[c], db, now)
         /\ conn[c].q \in Query /\ conn[c].got \in Seq(Result)
         /\ Fit(conn[c].q, conn[c].got)
         /\ Len(conn[c].got) \in Nat /\ DOMAIN conn[c].got = 1..Len(conn[c].got)
<1>1. ConnOK(conn[c], now, used) /\ Kept(conn[c], db, now)
  BY DEF Inv, TypeInv, KeptInv
<1>2. conn[c] \in ConnRec /\ Fit(conn[c].q, conn[c].got)
  BY <1>1 DEF ConnOK
<1>3. conn[c].q \in Query /\ conn[c].got \in Seq(Result)
  BY <1>2 DEF ConnRec
<1> QED BY <1>1, <1>2, <1>3, LenProperties

\* The types of the store, of the commands under way and of the log
\* (crates/server/src/commands.rs, dispatch and its handlers).
THEOREM TypeCorrect == Spec => []TypeOK
<1>1. ASSUME Inv PROVE TypeOK
  <2>1. /\ IsStore(db) /\ now \in 0..MaxTime /\ used \in 0..MaxRequests /\ mixed \subseteq Keys
        /\ log \in Seq(Query) /\ \A i \in 1..Len(log) : log[i].id <= used
    BY <1>1 DEF Inv, TypeInv
  <2>2. used \in Nat
    BY <2>1, Bounds
  <2>3. ASSUME NEW c \in Busy
        PROVE  /\ conn[c].q.id \in 1..used /\ conn[c].at <= now
               /\ conn[c].always \subseteq conn[c].ever
    <3>1. conn[c].q \in Query /\ conn[c].q.id <= used /\ conn[c].at <= now
          /\ conn[c].always \subseteq conn[c].ever
      BY <1>1, BusyFacts DEF ConnOK
    <3>2. conn[c].q.id \in Nat /\ conn[c].q.id >= 1
      BY <3>1, QueryNumber
    <3> QED BY <2>2, <3>1, <3>2
  <2>4. ASSUME NEW i \in DOMAIN log PROVE log[i].id \in 1..used
    <3>1. i \in 1..Len(log) /\ log[i] \in Query
      BY <2>1, LenProperties, ElementOfSeq
    <3>2. log[i].id \in Nat /\ log[i].id >= 1 /\ log[i].id <= used
      BY <2>1, <3>1, QueryNumber
    <3> QED BY <2>2, <3>2
  <2> QED BY <2>1, <2>3, <2>4 DEF TypeOK, IsStore
<1> QED BY <1>1, Invariance, PTL

\* FLUSHALL answers with nothing in the store but what others wrote while it
\* ran, although it resets one shard after the other (flush_all in
\* crates/core/src/store.rs).
THEOREM FlushesComplete == Spec => []FlushComplete
<1>1. ASSUME Inv PROVE FlushComplete
  <2> SUFFICES ASSUME NEW c \in Busy, NEW o \in Outcomes(c), conn[c].q.op = "FLUSHALL"
               PROVE  DOMAIN db \subseteq conn[c].others
    BY DEF FlushComplete
  <2> DEFINE x == conn[c]
  <2>1. Len(x.got) \in Nat /\ FlushOK(x, db)
    BY <1>1, BusyFacts DEF Kept
  <2>2. flush_all(x.q, x.got).fn = "outcome"
    BY DEF Outcomes, next_call
  <2>3. ~(Len(x.got) < Len(Shards))
    BY <2>2 DEF flush_all, to_shard
  <2>4. \A j \in 1..Len(Shards) : DOMAIN db \cap Shards[j] \subseteq x.others
    BY <2>1, <2>3, Bounds DEF FlushOK
  <2>5. DOMAIN db \subseteq UNION {Shards[j] : j \in 1..Len(Shards)}
    BY <1>1, Bounds, CommandsAssumption DEF Inv, TypeInv, IsStore
  <2> QED BY <2>4, <2>5
<1> QED BY <1>1, Invariance, PTL

\* KEYS, SCAN and DBSIZE visit one shard after the other, and miss nothing that
\* was there all along and invent nothing (keys and dbsize in
\* crates/core/src/store.rs).
THEOREM ListingsSound == Spec => []KeysReported
<1>1. ASSUME Inv PROVE KeysReported
  <2> SUFFICES ASSUME NEW c \in Busy, NEW o \in Outcomes(c)
               PROVE  /\ conn[c].q.op = "KEYS" =>
                           conn[c].always \subseteq o.reply /\ o.reply \subseteq conn[c].ever
                      /\ conn[c].q.op = "DBSIZE" =>
                           /\ Cardinality(conn[c].always) <= o.reply
                           /\ o.reply <= Cardinality(conn[c].ever)
    BY DEF KeysReported
  <2> DEFINE x == conn[c]
             l == Len(x.got)
             n == Len(Shards)
  <2>1. /\ l \in Nat /\ DOMAIN x.got = 1..l /\ x.got \in Seq(Result) /\ Fit(x.q, x.got)
        /\ x \in ConnRec /\ ListOK(x, now) /\ SizeOK(x)
    BY <1>1, BusyFacts DEF Kept
  <2>2. o = next_call(x.q, x.got) /\ o.fn = "outcome"
    BY DEF Outcomes
  <2>3. n \in Nat
    BY Bounds
  <2>4. ASSUME x.q.op = "KEYS" PROVE x.always \subseteq o.reply /\ o.reply \subseteq x.ever
    <3>1. o = keys_cmd(x.q, x.got)
      BY <2>2, <2>4 DEF next_call
    <3>2. ~(l <= n) /\ o.reply = UNION {x.got[i].val : i \in DOMAIN x.got \ {1}}
      BY <2>2, <3>1 DEF keys_cmd, to_shard, clock, outcome
    <3>3. l = n + 1
      <4>1. l <= n + 1
        BY <2>1, <2>4 DEF Fit
      <4> QED BY <2>1, <2>3, <3>2, <4>1
    <3>4. \A i \in 2..l : x.always \cap Shards[i - 1] \subseteq x.got[i].val
                           /\ x.got[i].val \subseteq x.ever
      BY <2>1, <2>4 DEF ListOK
    <3>5. DOMAIN x.got \ {1} = 2..l
      BY <2>1
    <3>6. o.reply = UNION {x.got[i].val : i \in 2..l}
      BY <3>2, <3>5
    <3>7. o.reply \subseteq x.ever
      BY <3>4, <3>6
    <3>8. ASSUME NEW k \in x.always PROVE k \in o.reply
      <4>1. k \in Keys
        BY <2>1 DEF ConnRec
      <4>2. PICK j \in 1..n : k \in Shards[j]
        BY <4>1, Bounds, CommandsAssumption
      <4>3. j + 1 \in 2..l /\ (j + 1) - 1 = j
        BY <2>3, <3>3
      <4>4. k \in x.got[j + 1].val
        BY <3>4, <4>2, <4>3
      <4> QED BY <3>6, <4>3, <4>4
    <3> QED BY <3>7, <3>8
  <2>5. ASSUME x.q.op = "DBSIZE"
        PROVE  Cardinality(x.always) <= o.reply /\ o.reply <= Cardinality(x.ever)
    <3>1. o = dbsize(x.q, x.got)
      BY <2>2, <2>5 DEF next_call
    <3>2. ~(l < n)
      <4>1. l < n => dbsize(x.q, x.got) = to_shard("len", l + 1, None)
        BY DEF dbsize
      <4> QED BY <2>2, <3>1, <4>1 DEF to_shard
    <3>3. l = n
      <4>1. l <= n
        BY <2>1, <2>5 DEF Fit
      <4> QED BY <2>1, <2>3, <3>2, <4>1
    <3>4. PICK f : Sums(f, x.got, l) /\ dbsize(x.q, x.got) = outcome(f[l], FALSE)
      BY <2>1, <3>2, SizeReply
    <3>5. o.reply = f[n]
      BY <3>1, <3>3, <3>4 DEF outcome
    <3>6. \A i \in 1..n :
            /\ x.got[i].val \in Nat
            /\ Cardinality(x.always \cap Shards[i]) <= x.got[i].val
            /\ x.got[i].val <= Cardinality(x.ever \cap Shards[i])
      BY <2>1, <2>5, <3>3 DEF SizeOK
    <3>7. x.always \in SUBSET Keys /\ x.ever \in SUBSET Keys /\ Sums(f, x.got, n)
      BY <2>1, <3>3, <3>4 DEF ConnRec
    <3> HIDE DEF x, n
    <3>8. Cardinality(x.always) <= f[n] /\ f[n] <= Cardinality(x.ever)
      BY <3>6, <3>7, SumBounds DEF n
    <3> QED BY <3>5, <3>8
  <2> QED BY <2>4, <2>5
<1> QED BY <1>1, Invariance, PTL

\* In a state of the invariant, who changed something will be logged.
LEMMA Persisted ==
  ASSUME Inv PROVE PersistComplete
<1> SUFFICES ASSUME NEW c \in Busy, NEW o \in Outcomes(c), conn[c].dirty
             PROVE  o.persist
  BY DEF PersistComplete
<1> DEFINE x == conn[c]
           q == x.q
           got == x.got
<1>1. q \in Query /\ DOMAIN got = 1..Len(got) /\ Len(got) \in Nat /\ DirtyOK(x)
  BY BusyFacts DEF Kept
<1>2. o = next_call(q, got) /\ o.fn = "outcome"
  BY DEF Outcomes
<1>3. /\ q.op \in OneKey => o.persist
      /\ q.op = "DEL" => \E i \in 1..Len(got) : yes(got[i])
      /\ q.op \notin Reads
  BY <1>1, <1>2 DEF DirtyOK
<1> HIDE DEF q, got
<1>4. CASE q.op = "DEL"
  <2> DEFINE S == {i \in DOMAIN got : yes(got[i])}
  <2>1. o = del(q, got)
    BY <1>2, <1>4 DEF next_call
  <2>2. o.persist = (Cardinality(S) > 0)
    BY <1>2, <2>1 DEF del, to_key, outcome, count
  <2>3. S # {}
    BY <1>1, <1>3, <1>4
  <2>4. IsFiniteSet(S)
    <3>1. IsFiniteSet(1..Len(got))
      BY <1>1, FS_Interval
    <3> QED BY <1>1, <3>1, FS_Subset
  <2> HIDE DEF S
  <2>5. Cardinality(S) \in Nat /\ Cardinality(S) # 0
    BY <2>3, <2>4, FS_CardinalityType, FS_EmptySet
  <2>6. Cardinality(S) > 0
    BY <2>5
  <2> QED BY <2>2, <2>6
<1>5. CASE q.op = "MSET"
  <2>1. o = mset(q, got)
    BY <1>2, <1>5 DEF next_call
  <2> QED BY <1>2, <2>1 DEF mset, to_set, outcome
<1>6. CASE q.op = "FLUSHALL"
  <2>1. o = flush_all(q, got)
    BY <1>2, <1>6 DEF next_call
  <2> QED BY <1>2, <2>1 DEF flush_all, to_shard, outcome
<1> QED BY <1>1, <1>3, <1>4, <1>5, <1>6 DEF Query, CommandNames, Whole, OneKey, Reads

\* A command that changed what clients see is logged and propagated (the
\* persist flag of the outcomes in crates/server/src/commands.rs).
THEOREM PersistsComplete == Spec => []PersistComplete
  BY Persisted, Invariance, PTL

\* The call that sets EXPIRE's deadline, when no other call touched the key.
LEMMA FlagsStep ==
  ASSUME Inv, NEW c \in Conns, Call(c), conn[c].q.op = "EXPIRE",
         next_call(conn[c].q, conn[c].got).fn = "expire_at",
         conn[c].q.keys[1] \notin conn[c].others,
         conn[c].q.keys[1] \in DOMAIN db \cap DOMAIN db'
  PROVE  LET q == conn[c].q
             old == db[q.keys[1]].expire_at
             new == db'[q.keys[1]].expire_at
             since == conn[c].got[2].val
         IN /\ "NX" \in q.flags => old = None
            /\ "XX" \in q.flags => old # None
            /\ "LT" \in q.flags => old = None \/ new < old
            /\ "GT" \in q.flags => old # None /\ (new > old \/ old - new < now - since)
<1> DEFINE x == conn[c]
           q == x.q
           got == x.got
           k == q.keys[1]
           at == deadline(q, got[2].val)
           old == db[k].expire_at
           new == db'[k].expire_at
<1> SUFFICES ASSUME q.flags # {}
             PROVE  /\ "NX" \in q.flags => old = None
                    /\ "XX" \in q.flags => old # None
                    /\ "LT" \in q.flags => old = None \/ new < old
                    /\ "GT" \in q.flags => old # None /\ (new > old \/ old - new < now - got[2].val)
  OBVIOUS
<1>1. c \in Busy
  BY DEF Call, Busy
<1>2. /\ x \in ConnRec /\ ConnOK(x, now, used) /\ ExpireOK(x, db, now) /\ q \in Query
      /\ got \in Seq(Result) /\ Fit(q, got) /\ Len(got) \in Nat
  BY <1>1, BusyFacts DEF Kept
<1>3. IsStore(db) /\ now \in Nat /\ (got = <<>> <=> Len(got) = 0)
  BY <1>2, Bounds, EmptySeq DEF Inv, TypeInv
<1>4. k \in Keys
  BY <1>2, NamedKeys DEF Whole
<1>5. expire_cmd(q, got).fn = "expire_at"
  BY DEF next_call
<1>6. /\ Len(got) = 3 /\ expire_cmd(q, got) = to_expire(k, at)
      /\ allows(q, at, got[2].val, got[3])
  BY <1>3, <1>5 DEF expire_cmd, to_key, clock, outcome
<1>7. next_call(q, got) = to_expire(k, at)
  BY <1>6 DEF next_call
<1>8. PICK t \in x.at..now : db' = perform(db, to_expire(k, at), t).db
  BY <1>7 DEF Call
<1>9. new = at
  <2> DEFINE d == live(db, k, t)
  <2>1. db' = IF k \in DOMAIN d THEN [d EXCEPT ![k].expire_at = at] ELSE d
    BY <1>8 DEF perform, on_key, to_expire
  <2>2. k \in DOMAIN d
    BY <2>1
  <2>3. IsStore(d)
    BY <1>3, <1>4, LiveFacts
  <2>4. d[k] \in Entry
    BY <2>2, <2>3 DEF IsStore
  <2> HIDE DEF d, at
  <2> QED BY <2>1, <2>2, <2>4 DEF Entry
<1>10. got[2].val \in Nat /\ at \in Nat
  <2>1. got[2].val \in Nat
    BY <1>6, <1>2 DEF Fit, IsTime
  <2>2. q.time # None
    BY <1>2 DEF Query
  <2> QED BY <1>2, <2>1, <2>2, Deadlines
<1>11. \/ got[3].tag = "noexpiry" /\ old = None
       \/ /\ got[3].tag = "millis" /\ old # None
          /\ \E u \in got[2].val..now : got[3].val = old - u
  BY <1>2, <1>6 DEF ExpireOK
<1>12. old \in Nat \cup {None}
  BY <1>3 DEF IsStore, Entry
<1> HIDE DEF at, old, new, k, got, q
<1>13. CASE got[3].tag = "noexpiry" /\ old = None
  BY <1>6, <1>13 DEF allows
<1>14. CASE got[3].tag = "millis" /\ old # None
  <2> DEFINE since == got[2].val
             val == got[3].val
  <2>1. PICK u \in since..now : val = old - u
    BY <1>11, <1>14
  <2>2. old \in Nat /\ since \in Nat
    BY <1>10, <1>12, <1>14
  <2>3. "NX" \notin q.flags
    BY <1>6, <1>14 DEF allows
  <2>4. /\ "GT" \in q.flags => at > since + val
        /\ "LT" \in q.flags => at < since + val
    BY <1>6, <1>14 DEF allows
  <2> HIDE DEF since, val
  <2>5. "LT" \in q.flags => at < old
    BY <1>3, <1>10, <2>1, <2>2, <2>4
  <2>6. "GT" \in q.flags => old - at < now - since
    BY <1>3, <1>10, <2>1, <2>2, <2>4
  <2> QED BY <1>9, <1>14, <2>3, <2>5, <2>6 DEF since
<1> QED BY <1>11, <1>13, <1>14

\* Only a call of its own adds to the results of a command, or ends it.
LEMMA OwnCall ==
  ASSUME Inv, Next, NEW c \in Busy, ~(Len(conn'[c].got) = Len(conn[c].got)),
         next_call(conn[c].q, conn[c].got).fn # "outcome"
  PROVE  Call(c)
<1>1. /\ TypeInv /\ c \in Conns /\ conn[c].busy /\ IsStore(db) /\ conn \in [Conns -> {Idle} \cup ConnRec]
      /\ conn[c] \in ConnRec /\ conn[c] # Idle
  BY BusyFacts, IdleOrBusy DEF Inv, TypeInv, Busy
<1>2. conn'[c] # conn[c]
  OBVIOUS
<1>3. ~Watched(conn[c], conn'[c], db, db')
  BY DEF Watched
<1>4. ASSUME NEW d \in Conns, Start(d) PROVE FALSE
  <2>1. d # c
    BY <1>1, <1>4 DEF Start
  <2>2. conn'[c] = conn[c]
    BY <1>1, <1>4, <2>1, StartStep
  <2> QED BY <1>2, <2>2
<1>5. ASSUME NEW d \in Conns, Call(d) PROVE d = c
  BY <1>1, <1>3, <1>5, CallStep
<1>6. ASSUME NEW d \in Conns, Finish(d) PROVE FALSE
  <2>1. d # c
    BY <1>6 DEF Finish
  <2>2. conn'[c] = conn[c]
    BY <1>1, <1>6, <2>1 DEF Finish
  <2> QED BY <1>2, <2>2
<1>7. ASSUME NEW i \in DOMAIN Shards, Reap(i) PROVE FALSE
  <2>1. conn' = Observed(conn, None, db', now)
    BY <1>7 DEF Reap
  <2>2. IsStore(db')
    BY <1>1, Steps DEF Stepped
  <2> QED BY <1>1, <1>3, <2>1, <2>2, ObservedStep
<1>8. ASSUME Tick PROVE FALSE
  <2>1. conn' = Observed(conn, None, db, now + 1) /\ db' = db
    BY <1>8 DEF Tick
  <2> QED BY <1>1, <1>3, <2>1, ObservedStep
<1>9. ASSUME Quiet PROVE FALSE
  BY <1>2, <1>9 DEF Quiet, vars
<1> QED BY <1>4, <1>5, <1>6, <1>7, <1>8, <1>9 DEF Next

\* EXPIRE keeps the promise of its flag when nobody else changes the key
\* between its calls (expire_cmd in crates/server/src/commands.rs).
THEOREM FlagsKept == Spec => ExpireFlagsKept
<1> DEFINE Promise ==
      \A c \in Busy :
        LET q == conn[c].q
            k == q.keys[1]
            old == db[k].expire_at
            new == db'[k].expire_at
            since == conn[c].got[2].val
        IN (/\ q.op = "EXPIRE" /\ next_call(q, conn[c].got).fn = "expire_at"
            /\ conn'[c] # conn[c] /\ Len(conn'[c].got) > Len(conn[c].got)
            /\ k \notin conn[c].others /\ k \in DOMAIN db \cap DOMAIN db')
           => /\ "NX" \in q.flags => old = None
              /\ "XX" \in q.flags => old # None
              /\ "LT" \in q.flags => old = None \/ new < old
              /\ "GT" \in q.flags => old # None /\ (new > old \/ old - new < now - since)
<1>1. ASSUME Inv, Next PROVE Promise
  <2> SUFFICES ASSUME NEW c \in Busy, conn[c].q.op = "EXPIRE",
                      next_call(conn[c].q, conn[c].got).fn = "expire_at",
                      Len(conn'[c].got) > Len(conn[c].got),
                      conn[c].q.keys[1] \notin conn[c].others,
                      conn[c].q.keys[1] \in DOMAIN db \cap DOMAIN db'
               PROVE  LET q == conn[c].q
                          old == db[q.keys[1]].expire_at
                          new == db'[q.keys[1]].expire_at
                          since == conn[c].got[2].val
                      IN /\ "NX" \in q.flags => old = None
                         /\ "XX" \in q.flags => old # None
                         /\ "LT" \in q.flags => old = None \/ new < old
                         /\ "GT" \in q.flags =>
                              old # None /\ (new > old \/ old - new < now - since)
    OBVIOUS
  <2>1. Len(conn[c].got) \in Nat /\ c \in Conns
    BY <1>1, BusyFacts DEF Busy
  <2>2. ~(Len(conn'[c].got) = Len(conn[c].got))
    BY <2>1
  <2>3. next_call(conn[c].q, conn[c].got).fn # "outcome"
    OBVIOUS
  <2>4. Call(c)
    BY <1>1, <2>2, <2>3, OwnCall
  <2> QED BY <1>1, <2>1, <2>4, FlagsStep
<1>2. ASSUME Inv, [Next]_vars PROVE [Promise]_vars
  BY <1>1, <1>2
<1> QED BY <1>2, Invariance, PTL DEF Spec, ExpireFlagsKept

-----------------------------------------------------------------------------
(* What clients see of one key                                             *)

\* Clients see an entry under k at time t.
Sees(m, k, t) == k \in DOMAIN m /\ ~gone(m[k], t)

\* Clients see the same under k in m at time t and in d at time u.
Like(k, m, t, d, u) ==
  /\ Sees(m, k, t) <=> Sees(d, k, u)
  /\ Sees(m, k, t) => m[k] = d[k]

\* The results of a call at time t and of the same call at time u: they differ
\* only by the clock.
LikeResult(r, t, s, u) ==
  /\ r.tag = s.tag
  /\ r.tag = "now" => r.val = t /\ s.val = u
  /\ r.tag = "millis" => r.val \in Int /\ s.val \in Int /\ r.val + t = s.val + u
  /\ r.tag \notin {"now", "millis"} => r.val = s.val

\* The results of the calls of q so far, in two runs.  A command on several
\* keys does not look at them before its outcome.
LikeResults(q, got, t, has, u) ==
  /\ Len(got) = Len(has)
  /\ q.op \in OneKey => \A i \in 1..Len(got) : LikeResult(got[i], t, has[i], u)

\* A state that a run of q may be in.
IsRun(q, s) == IsStore(s.db) /\ s.got \in Seq(Result) /\ Fit(q, s.got)

\* Two runs of q that are the same for key k.
LikeRuns(k, q, s, t, r, u) ==
  /\ IsRun(q, s) /\ IsRun(q, r)
  /\ Like(k, s.db, t, r.db, u) /\ LikeResults(q, s.got, t, r.got, u)

\* The times t and u make no difference to what q asks for.
Timeless(q, t, u) == t = u \/ q.time = None \/ (q.absolute /\ q.time > t /\ q.time > u)

\* Neither do they to the deadline at.
Lasts(at, t, u) == t = u \/ at = None \/ (at > t /\ at > u)

\* The commands under way that may write.
Writers == {c \in Busy : conn[c].q.op \notin Reads}

\* The writer x, about key k: on store m at time t it is where it would be if
\* it had run alone on a store that is like the replayed one.
Progress(x, k, m, t, rep) ==
  /\ x.at = t /\ Len(x.got) \in 0..most_calls(x.q)
  /\ ~x.dirty => Like(k, m, t, rep, t)
  /\ \E a : /\ IsStore(a) /\ Like(k, a, t, rep, t)
            /\ LikeRuns(k, x.q, [db |-> m, got |-> x.got], t,
                        calls_alone(a, x.q, t)[Len(x.got)], t)

\* What the log has to do with the store, for one key.
KeyReplayed(k) ==
  /\ (\A c \in Writers : k \notin scope(conn[c].q)) => Like(k, db, now, Replayed(now), now)
  /\ \A c \in Writers : k \in scope(conn[c].q) => Progress(conn[c], k, db, now, Replayed(now))

\* Seeing the same is an equivalence.
LEMMA LikeEquivalence ==
  ASSUME NEW k, NEW m, NEW t, NEW d, NEW u, NEW e, NEW v
  PROVE  /\ Like(k, m, t, m, t)
         /\ Like(k, m, t, d, u) => Like(k, d, u, m, t)
         /\ Like(k, m, t, d, u) /\ Like(k, d, u, e, v) => Like(k, m, t, e, v)
  BY DEF Like

\* Who looks at a key finds what clients see of it.
LEMMA LiveSees ==
  ASSUME NEW m, IsStore(m), NEW k \in Keys, NEW t
  PROVE  /\ k \in DOMAIN live(m, k, t) <=> Sees(m, k, t)
         /\ Sees(m, k, t) => live(m, k, t)[k] = m[k]
  BY DEF live, map_remove, Sees, IsStore

\* Two stores that hold the same under k.
Same(k, m, d) ==
  /\ k \in DOMAIN m <=> k \in DOMAIN d
  /\ k \in DOMAIN m => m[k] = d[k]

\* They look the same when what they hold outlasts both times.
LEMMA SameLike ==
  ASSUME NEW k, NEW m, IsStore(m), NEW d, Same(k, m, d), NEW t \in Nat, NEW u \in Nat,
         k \in DOMAIN m => Lasts(m[k].expire_at, t, u)
  PROVE  Like(k, m, t, d, u)
<1>1. k \in DOMAIN m => m[k].expire_at \in Nat \cup {None}
  BY DEF IsStore, Entry
<1>2. k \in DOMAIN m => (gone(m[k], t) <=> gone(m[k], u))
  BY <1>1 DEF gone, Lasts
<1> QED BY <1>2 DEF Like, Sees, Same

\* The same call on a key, at times that make no difference to it, finds the
\* same and leaves the same.
LEMMA SameCall ==
  ASSUME NEW m, IsStore(m), NEW e, IsStore(e), NEW c, IsCall(c), c.fn \in KeyCalls,
         NEW t \in Nat, NEW u \in Nat, Like(c.key, m, t, e, u),
         c.fn \in {"set", "expire_at"} => Lasts(c.at, t, u)
  PROVE  /\ Like(c.key, perform(m, c, t).db, t, perform(e, c, u).db, u)
         /\ LikeResult(perform(m, c, t).res, t, perform(e, c, u).res, u)
<1> DEFINE k == c.key
           d == live(m, k, t)
           f == live(e, k, u)
           p == perform(m, c, t)
           r == perform(e, c, u)
<1>1. k \in Keys
  BY DEF IsCall, KeyCalls, Reading
<1>2. p = on_key(m, c, t) /\ r = on_key(e, c, u)
  BY DEF perform, KeyCalls, Reading
<1>3. IsStore(d) /\ IsStore(f) /\ IsStore(p.db)
  BY <1>1, LiveFacts, Performed
<1>4. Same(k, d, f)
  BY <1>1, LiveSees DEF Like, Same
<1>5. ASSUME k \in DOMAIN d
      PROVE  /\ d[k] = m[k] /\ f[k] = m[k] /\ d[k] \in Entry
             /\ ~gone(m[k], t) /\ ~gone(m[k], u)
  <2>1. Sees(m, k, t) /\ Sees(e, k, u) /\ m[k] = e[k]
    BY <1>1, <1>5, LiveSees DEF Like
  <2> QED BY <1>1, <1>3, <1>5, <2>1, LiveSees DEF Sees, IsStore
<1>6. k \in DOMAIN d => Lasts(d[k].expire_at, t, u)
  <2> SUFFICES ASSUME k \in DOMAIN d PROVE Lasts(d[k].expire_at, t, u)
    OBVIOUS
  <2>1. d[k].expire_at \in Nat \cup {None}
    BY <1>5 DEF Entry
  <2> QED BY <1>5, <2>1 DEF Lasts, gone
<1>7. \A b : LikeResult(flag(b), t, flag(b), u) /\ LikeResult(result("wrongtype", 0), t, result("wrongtype", 0), u)
             /\ LikeResult(result("none", 0), t, result("none", 0), u)
             /\ LikeResult(result("nokey", 0), t, result("nokey", 0), u)
             /\ LikeResult(result("noexpiry", 0), t, result("noexpiry", 0), u)
             /\ LikeResult(result("value", b), t, result("value", b), u)
  BY DEF LikeResult, flag, result
<1> SUFFICES /\ Same(k, p.db, r.db) /\ (k \in DOMAIN p.db => Lasts(p.db[k].expire_at, t, u))
             /\ LikeResult(p.res, t, r.res, u)
  BY <1>3, SameLike
<1> HIDE DEF p, r, d, f
<1>10. CASE c.fn = "get"
  <2>1. p = [db |-> d, res |-> get(d, k)] /\ r = [db |-> f, res |-> get(f, k)]
    BY <1>2, <1>10 DEF on_key, d, f
  <2>2. get(d, k) = get(f, k)
    BY <1>4 DEF get, Same
  <2>3. LikeResult(get(d, k), t, get(d, k), u)
    BY <1>7 DEF get
  <2> QED BY <1>4, <1>6, <2>1, <2>2, <2>3
<1>11. CASE c.fn = "exists"
  <2>1. /\ p = [db |-> d, res |-> flag(k \in DOMAIN d)]
        /\ r = [db |-> f, res |-> flag(k \in DOMAIN f)]
    BY <1>2, <1>11 DEF on_key, d, f
  <2> QED BY <1>4, <1>6, <1>7, <2>1 DEF Same, flag, LikeResult, result
<1>12. CASE c.fn = "pttl"
  <2>1. p = [db |-> d, res |-> pttl(d, k, t)] /\ r = [db |-> f, res |-> pttl(f, k, u)]
    BY <1>2, <1>12 DEF on_key, d, f
  <2>2. LikeResult(pttl(d, k, t), t, pttl(f, k, u), u)
    <3>1. CASE k \in DOMAIN d /\ d[k].expire_at # None
      <4> DEFINE at == d[k].expire_at
      <4>1. at \in Nat
        BY <1>5, <3>1 DEF Entry
      <4>2. pttl(d, k, t) = result("millis", at - t) /\ pttl(f, k, u) = result("millis", at - u)
        BY <1>4, <3>1 DEF pttl, Same
      <4> HIDE DEF at
      <4>3. (at - t) \in Int /\ (at - u) \in Int /\ (at - t) + t = (at - u) + u
        BY <4>1
      <4> QED BY <4>2, <4>3 DEF LikeResult, result
    <3>2. CASE ~(k \in DOMAIN d /\ d[k].expire_at # None)
      <4>1. pttl(d, k, t) = pttl(f, k, u)
            /\ pttl(d, k, t) \in {result("nokey", 0), result("noexpiry", 0)}
        BY <1>4, <3>2 DEF pttl, Same
      <4> QED BY <1>7, <4>1
    <3> QED BY <3>1, <3>2
  <2> QED BY <1>4, <1>6, <2>1, <2>2
<1>13. CASE c.fn = "del"
  <2>1. /\ p = [db |-> map_remove(d, k), res |-> flag(k \in DOMAIN d)]
        /\ r = [db |-> map_remove(f, k), res |-> flag(k \in DOMAIN f)]
    BY <1>2, <1>13 DEF on_key, d, f
  <2>2. k \notin DOMAIN map_remove(d, k) /\ k \notin DOMAIN map_remove(f, k)
    BY DEF map_remove
  <2>3. LikeResult(p.res, t, r.res, u)
    BY <1>4, <2>1 DEF Same, flag, LikeResult, result
  <2> QED BY <2>1, <2>2, <2>3 DEF Same
<1>14. CASE c.fn = "set"
  <2>1. /\ p = [db |-> set(d, c), res |-> flag(~refused(d, c))]
        /\ r = [db |-> set(f, c), res |-> flag(~refused(f, c))]
    BY <1>2, <1>14 DEF on_key, d, f
  <2>2. refused(d, c) <=> refused(f, c)
    BY <1>4 DEF refused, Same
  <2>3. LikeResult(p.res, t, r.res, u)
    BY <2>1, <2>2 DEF flag, LikeResult, result
  <2>4. CASE refused(d, c)
    <3>1. set(d, c) = d /\ set(f, c) = f
      BY <2>2, <2>4 DEF set
    <3> QED BY <1>4, <1>6, <2>1, <2>3, <3>1
  <2>5. CASE ~refused(d, c)
    <3> DEFINE at == IF "KEEPTTL" \in c.flags /\ k \in DOMAIN d THEN d[k].expire_at ELSE c.at
               x == [type |-> "string", value |-> <<c.id>>, expire_at |-> at]
    <3>1. set(d, c) = map_insert(d, k, x) /\ set(f, c) = map_insert(f, k, x)
      BY <1>4, <2>2, <2>5 DEF set, Same
    <3>2. Lasts(at, t, u)
      BY <1>6, <1>14
    <3>3. x.expire_at = at
      OBVIOUS
    <3> HIDE DEF at, x
    <3>4. /\ k \in DOMAIN map_insert(d, k, x) /\ map_insert(d, k, x)[k] = x
          /\ k \in DOMAIN map_insert(f, k, x) /\ map_insert(f, k, x)[k] = x
      BY DEF map_insert
    <3> QED BY <2>1, <2>3, <3>1, <3>2, <3>3, <3>4 DEF Same
  <2> QED BY <2>4, <2>5
<1>15. CASE c.fn = "expire_at"
  <2>1. /\ p = [db |-> IF k \in DOMAIN d THEN [d EXCEPT ![k].expire_at = c.at] ELSE d,
                res |-> flag(k \in DOMAIN d)]
        /\ r = [db |-> IF k \in DOMAIN f THEN [f EXCEPT ![k].expire_at = c.at] ELSE f,
                res |-> flag(k \in DOMAIN f)]
    BY <1>2, <1>15 DEF on_key, d, f
  <2>2. LikeResult(p.res, t, r.res, u)
    BY <1>4, <2>1 DEF Same, flag, LikeResult, result
  <2>3. CASE k \notin DOMAIN d
    BY <1>4, <2>1, <2>2, <2>3 DEF Same
  <2>4. CASE k \in DOMAIN d
    <3> DEFINE x == [d[k] EXCEPT !.expire_at = c.at]
    <3>1. p.db = [d EXCEPT ![k] = x] /\ r.db = [f EXCEPT ![k] = x]
      BY <1>4, <2>1, <2>4 DEF Same
    <3>2. x.expire_at = c.at
      BY <1>5, <2>4 DEF Entry
    <3>3. Lasts(c.at, t, u)
      BY <1>15
    <3> HIDE DEF x
    <3>4. k \in DOMAIN p.db /\ p.db[k] = x /\ k \in DOMAIN r.db /\ r.db[k] = x
      BY <1>4, <2>4, <3>1 DEF Same
    <3> QED BY <2>2, <3>2, <3>3, <3>4 DEF Same
  <2> QED BY <2>3, <2>4
<1>16. CASE c.fn = "push"
  <2> DEFINE R(h) == IF k \in DOMAIN h /\ h[k].type # "list" THEN result("wrongtype", 0) ELSE flag(TRUE)
  <2>1. p = [db |-> push(d, c), res |-> R(d)] /\ r = [db |-> push(f, c), res |-> R(f)]
    BY <1>2, <1>16 DEF on_key, d, f
  <2>2. LikeResult(p.res, t, r.res, u)
    <3>1. R(d) = R(f)
      BY <1>4 DEF Same
    <3>2. LikeResult(R(d), t, R(d), u)
      BY <1>7
    <3> QED BY <2>1, <3>1, <3>2
  <2> HIDE DEF R
  <2>3. CASE k \notin DOMAIN d
    <3> DEFINE x == [type |-> "list", value |-> <<c.id>>, expire_at |-> None]
    <3>1. push(d, c) = map_insert(d, k, x) /\ push(f, c) = map_insert(f, k, x)
      BY <1>4, <2>3 DEF push, Same
    <3>2. Lasts(x.expire_at, t, u)
      BY DEF Lasts
    <3> HIDE DEF x
    <3>3. /\ k \in DOMAIN map_insert(d, k, x) /\ map_insert(d, k, x)[k] = x
          /\ k \in DOMAIN map_insert(f, k, x) /\ map_insert(f, k, x)[k] = x
      BY DEF map_insert
    <3> QED BY <2>1, <2>2, <3>1, <3>2, <3>3 DEF Same
  <2>4. CASE k \in DOMAIN d /\ d[k].type = "list"
    <3> DEFINE v == Append(d[k].value, c.id)
               x == [d[k] EXCEPT !.value = v]
    <3>1. push(d, c) = [d EXCEPT ![k].value = v] /\ push(f, c) = [f EXCEPT ![k].value = v]
      BY <1>4, <2>4 DEF push, Same
    <3> HIDE DEF v
    <3>2. push(d, c) = [d EXCEPT ![k] = x] /\ push(f, c) = [f EXCEPT ![k] = x]
      BY <1>4, <2>4, <3>1 DEF Same
    <3>3. x.expire_at = d[k].expire_at
      BY <1>5, <2>4 DEF Entry
    <3> HIDE DEF x
    <3>4. k \in DOMAIN p.db /\ p.db[k] = x /\ k \in DOMAIN r.db /\ r.db[k] = x
      BY <1>4, <2>1, <2>4, <3>2 DEF Same
    <3> QED BY <1>6, <2>2, <2>4, <3>3, <3>4 DEF Same
  <2>5. CASE k \in DOMAIN d /\ d[k].type # "list"
    <3>1. push(d, c) = d /\ push(f, c) = f
      BY <1>4, <2>5 DEF push, Same
    <3> QED BY <1>4, <1>6, <2>1, <2>2, <3>1
  <2> QED BY <2>3, <2>4, <2>5
<1> QED BY <1>10, <1>11, <1>12, <1>13, <1>14, <1>15, <1>16 DEF KeyCalls, Reading

-----------------------------------------------------------------------------
(* Two runs of a command                                                   *)

\* The same call, or an outcome in both.
LikeNext(a, b) == a = b \/ (a.fn = "outcome" /\ b.fn = "outcome")

\* EXPIRE's condition does not depend on when the time to live was read.
LEMMA SameAllows ==
  ASSUME NEW q \in Query, NEW at \in Nat, NEW t \in Nat, NEW u \in Nat, NEW a, NEW b,
         LikeResult(a, t, b, u), allows(q, at, t, a)
  PROVE  allows(q, at, u, b)
<1>1. a.tag = b.tag
  BY DEF LikeResult
<1>2. CASE a.tag = "millis"
  <2> DEFINE v == a.val
             w == b.val
  <2>1. v \in Int /\ w \in Int /\ v + t = w + u
    BY <1>2 DEF LikeResult
  <2> HIDE DEF v, w
  <2>2. (at > t + v <=> at > u + w) /\ (at < t + v <=> at < u + w)
    BY <2>1
  <2> QED BY <1>1, <1>2, <2>2 DEF allows, v, w
<1>3. CASE a.tag # "millis"
  BY <1>1, <1>3 DEF allows
<1> QED BY <1>2, <1>3

\* LikeResult is symmetric.
LEMMA LikeResultSymmetric ==
  ASSUME NEW a, NEW b, NEW t, NEW u, LikeResult(a, t, b, u)
  PROVE  LikeResult(b, u, a, t)
  BY DEF LikeResult

\* The deadline of a request is the same by two clocks that make no difference.
LEMMA SameDeadline ==
  ASSUME NEW q \in Query, q.time # None, NEW t \in Nat, NEW u \in Nat, Timeless(q, t, u)
  PROVE  deadline(q, t) = deadline(q, u) /\ Lasts(deadline(q, t), t, u)
<1>1. q.time \in Int
  BY DEF Query
<1>2. CASE t = u
  BY <1>2 DEF Lasts
<1>3. CASE t # u
  <2>1. q.absolute /\ q.time > t /\ q.time > u
    BY <1>3 DEF Timeless
  <2>2. deadline(q, t) = q.time /\ deadline(q, u) = q.time
    BY <1>1, <2>1 DEF deadline
  <2> QED BY <2>1, <2>2 DEF Lasts
<1> QED BY <1>2, <1>3

\* Two runs of a writer that had the same results make the same call.
LEMMA SameNext ==
  ASSUME NEW q \in Query, q.op \notin Reads, NEW got \in Seq(Result), NEW has \in Seq(Result),
         Fit(q, got), Fit(q, has), NEW t \in Nat, NEW u \in Nat, Timeless(q, t, u),
         LikeResults(q, got, t, has, u)
  PROVE  LikeNext(next_call(q, got), next_call(q, has))
<1> DEFINE n == Len(got)
           k == q.keys[1]
<1>1. n \in Nat /\ Len(has) = n /\ (got = <<>> <=> n = 0) /\ (has = <<>> <=> n = 0)
  BY LenProperties, EmptySeq DEF LikeResults
<1>2. q.op \in OneKey => \A i \in 1..n : got[i].tag = has[i].tag /\ (yes(got[i]) <=> yes(has[i]))
  BY DEF LikeResults, LikeResult, yes
<1> HIDE DEF n, k
<1>10. CASE q.op = "SET"
  <2>1. next_call(q, got) = set_cmd(q, got) /\ next_call(q, has) = set_cmd(q, has)
    BY <1>10 DEF next_call
  <2> DEFINE timed == q.time # None /\ ~q.absolute
             at(g) == IF q.time = None THEN None ELSE deadline(q, IF timed THEN g[1].val ELSE 0)
             l == IF timed THEN 1 ELSE 0
             w == "GET" \in q.flags
             goes(g, a) ==
               IF n < l THEN clock
               ELSE IF w /\ n = l THEN to_key("get", k)
               ELSE IF w /\ g[l + 1].tag = "wrongtype" THEN outcome(g[l + 1], FALSE)
               ELSE IF n = (IF w THEN l + 1 ELSE l) THEN to_set(k, q.id, q.flags, a)
               ELSE outcome(g[IF w THEN l + 1 ELSE n], yes(Last(g)))
  <2>2. timed /\ n # 0 => got[1].val = has[1].val
    <3> SUFFICES ASSUME timed, n # 0 PROVE got[1].val = has[1].val
      OBVIOUS
    <3>1. t = u
      BY DEF Timeless
    <3>2. got[1].tag = "now" /\ LikeResult(got[1], t, has[1], u)
      BY <1>1, <1>10 DEF Fit, IsTime, LikeResults, OneKey, n
    <3> QED BY <3>1, <3>2 DEF LikeResult
  <2>3. (timed /\ n = 0) \/ at(got) = at(has)
    BY <2>2
  <2>4. set_cmd(q, got) = goes(got, at(got)) /\ set_cmd(q, has) = goes(has, at(has))
    BY <1>1 DEF set_cmd, k, n
  <2>5. l \in {0, 1} /\ (timed => l = 1)
    OBVIOUS
  <2> HIDE DEF at, l, w, timed
  <2>6. CASE n < l
    BY <2>1, <2>4, <2>6 DEF LikeNext
  <2>7. CASE n = l
    <3>1. at(got) = at(has)
      BY <2>3, <2>5, <2>7
    <3>2. w => goes(got, at(got)) = goes(has, at(has))
      BY <2>5, <2>7
    <3>3. ~w => goes(got, at(got)) = goes(has, at(has))
      BY <2>5, <2>7, <3>1
    <3> HIDE DEF goes
    <3> QED BY <2>1, <2>4, <3>2, <3>3 DEF LikeNext
  <2>8. CASE n > l
    <3>1. got[l + 1].tag = has[l + 1].tag
      BY <1>1, <1>2, <1>10, <2>5, <2>8 DEF OneKey
    <3>2. at(got) = at(has)
      BY <1>1, <2>3, <2>5, <2>8
    <3>3. \/ goes(got, at(got)).fn = "outcome" /\ goes(has, at(has)).fn = "outcome"
          \/ goes(got, at(got)) = goes(has, at(has))
      BY <1>1, <2>5, <2>8, <3>1, <3>2 DEF outcome
    <3> HIDE DEF goes
    <3> QED BY <2>1, <2>4, <3>3 DEF LikeNext
  <2> QED BY <1>1, <2>5, <2>6, <2>7, <2>8
<1>11. CASE q.op = "GETSET"
  <2>1. next_call(q, got) = getset(q, got) /\ next_call(q, has) = getset(q, has)
    BY <1>11 DEF next_call
  <2>2. n = 0 \/ n = 1 \/ n = 2
    <3>1. n <= 2
      BY <1>11 DEF Fit, n
    <3> QED BY <1>1, <3>1
  <2>3. n # 0 => got[1].tag = has[1].tag
    BY <1>1, <1>2, <1>11 DEF OneKey
  <2> QED BY <1>1, <2>1, <2>2, <2>3 DEF getset, outcome, LikeNext, n
<1>12. CASE q.op = "SETNX"
  <2>1. next_call(q, got) = setnx(q, got) /\ next_call(q, has) = setnx(q, has)
    BY <1>12 DEF next_call
  <2> QED BY <1>1, <2>1 DEF setnx, outcome, LikeNext
<1>13. CASE q.op = "MSET"
  <2>1. next_call(q, got) = mset(q, got) /\ next_call(q, has) = mset(q, has)
    BY <1>13 DEF next_call
  <2> QED BY <1>1, <2>1 DEF mset, outcome, LikeNext, n
<1>14. CASE q.op = "DEL"
  <2>1. next_call(q, got) = del(q, got) /\ next_call(q, has) = del(q, has)
    BY <1>14 DEF next_call
  <2> QED BY <1>1, <2>1 DEF del, outcome, LikeNext, n
<1>15. CASE q.op = "RPUSH"
  <2>1. next_call(q, got) = push_cmd(q, got) /\ next_call(q, has) = push_cmd(q, has)
    BY <1>15 DEF next_call
  <2> QED BY <1>1, <2>1 DEF push_cmd, outcome, LikeNext
<1>16. CASE q.op = "EXPIRE"
  <2>1. next_call(q, got) = expire_cmd(q, got) /\ next_call(q, has) = expire_cmd(q, has)
    BY <1>16 DEF next_call
  <2> DEFINE l == IF q.flags = {} THEN 2 ELSE 3
             goes(g, a, ok) ==
               IF n = 0 THEN to_key("exists", k)
               ELSE IF ~yes(g[1]) THEN outcome(0, FALSE)
               ELSE IF n = 1 THEN clock
               ELSE IF n < l THEN to_key("pttl", k)
               ELSE IF q.flags # {} /\ ~ok THEN outcome(0, FALSE)
               ELSE IF n = l THEN to_expire(k, a)
               ELSE outcome(1, TRUE)
             ga == deadline(q, got[2].val)
             ha == deadline(q, has[2].val)
             gok == allows(q, ga, got[2].val, got[3])
             hok == allows(q, ha, has[2].val, has[3])
  <2>2. expire_cmd(q, got) = goes(got, ga, gok) /\ expire_cmd(q, has) = goes(has, ha, hok)
    BY <1>1 DEF expire_cmd, k, n
  <2>3. n # 0 => (yes(got[1]) <=> yes(has[1]))
    BY <1>1, <1>2, <1>16 DEF OneKey
  <2>4. ASSUME n >= 2
        PROVE  got[2].val = t /\ has[2].val = u /\ ga = ha /\ ga \in Nat
    <3>1. LikeResult(got[2], t, has[2], u) /\ got[2].tag = "now"
      BY <1>1, <1>16, <2>4 DEF Fit, IsTime, LikeResults, OneKey, n
    <3>2. got[2].val = t /\ has[2].val = u
      BY <3>1 DEF LikeResult
    <3>3. q.time # None
      BY <1>16 DEF Query
    <3> QED BY <3>2, <3>3, SameDeadline, Deadlines
  <2>5. ASSUME n >= 3 PROVE gok <=> hok
    <3>1. got[2].val = t /\ has[2].val = u /\ ga = ha /\ ga \in Nat
      BY <1>1, <2>4, <2>5
    <3>2. LikeResult(got[3], t, has[3], u)
      BY <1>1, <1>16, <2>5 DEF LikeResults, OneKey, n
    <3> HIDE DEF ga, ha
    <3> QED BY <3>1, <3>2, SameAllows, LikeResultSymmetric
  <2> HIDE DEF ga, ha, gok, hok
  <2>6. goes(got, ga, gok) = goes(has, ha, hok)
    <3>1. CASE n = 0
      BY <3>1
    <3>2. CASE n # 0 /\ ~yes(got[1])
      BY <2>3, <3>2
    <3>3. CASE n # 0 /\ yes(got[1])
      <4>1. CASE n = 1
        BY <2>3, <3>3, <4>1
      <4>2. CASE n = 2
        <5>1. ga = ha
          BY <2>4, <4>2
        <5>2. CASE q.flags = {}
          <6>1. goes(got, ga, gok) = to_expire(k, ga) /\ goes(has, ha, hok) = to_expire(k, ha)
            BY <2>3, <3>3, <4>2, <5>2
          <6> HIDE DEF goes
          <6> QED BY <5>1, <6>1
        <5>3. CASE q.flags # {}
          <6>1. /\ goes(got, ga, gok) = to_key("pttl", k)
                /\ goes(has, ha, hok) = to_key("pttl", k)
            <7>1. n < l /\ n # 0 /\ n # 1 /\ yes(has[1])
              BY <2>3, <3>3, <4>2, <5>3
            <7> HIDE DEF l
            <7> QED BY <3>3, <7>1
          <6> HIDE DEF goes
          <6> QED BY <6>1
        <5> QED BY <5>2, <5>3
      <4>3. CASE n >= 3
        <5>1. ga = ha /\ (gok <=> hok)
          BY <1>1, <2>4, <2>5, <4>3
        <5>2. CASE gok
          BY <1>1, <2>3, <3>3, <4>3, <5>1, <5>2
        <5>3. CASE ~gok
          <6>1. n # 1 /\ ~(n < l) /\ n # 0 /\ yes(has[1]) /\ ~hok
            BY <1>1, <2>3, <3>3, <4>3, <5>1, <5>3
          <6>2. CASE q.flags = {}
            BY <3>3, <5>1, <6>1, <6>2
          <6>3. CASE q.flags # {}
            <7>1. goes(got, ga, gok) = outcome(0, FALSE) /\ goes(has, ha, hok) = outcome(0, FALSE)
              BY <3>3, <5>3, <6>1, <6>3
            <7> HIDE DEF goes
            <7> QED BY <7>1
          <6> QED BY <6>2, <6>3
        <5> QED BY <5>2, <5>3
      <4> HIDE DEF goes
      <4> QED BY <1>1, <3>3, <4>1, <4>2, <4>3
    <3> QED BY <1>1, <3>1, <3>2, <3>3
  <2> HIDE DEF goes
  <2> QED BY <2>1, <2>2, <2>6 DEF LikeNext
<1>17. CASE q.op = "PERSIST"
  <2>1. next_call(q, got) = persist_cmd(q, got) /\ next_call(q, has) = persist_cmd(q, has)
    BY <1>17 DEF next_call
  <2>2. n = 0 \/ n = 1 \/ n = 2
    <3>1. n <= 2
      BY <1>17 DEF Fit, n
    <3> QED BY <1>1, <3>1
  <2>3. n # 0 => got[1].tag = has[1].tag
    BY <1>1, <1>2, <1>17 DEF OneKey
  <2> QED BY <1>1, <2>1, <2>2, <2>3 DEF persist_cmd, outcome, LikeNext, n
<1>18. CASE q.op = "FLUSHALL"
  <2>1. next_call(q, got) = flush_all(q, got) /\ next_call(q, has) = flush_all(q, has)
    BY <1>18 DEF next_call
  <2> QED BY <1>1, <2>1 DEF flush_all, outcome, LikeNext, n
<1> QED BY <1>10, <1>11, <1>12, <1>13, <1>14, <1>15, <1>16, <1>17, <1>18
        DEF Query, CommandNames, OneKey, Whole, Reads

\* The keys that a command is about are the ones it names, or all.
LEMMA ScopeFacts ==
  ASSUME NEW q \in Query
  PROVE  /\ q.op \in Whole => scope(q) = Keys
         /\ q.op \notin Whole => \A i \in 1..Len(q.keys) : q.keys[i] \in scope(q)
         /\ q.op \in OneKey => scope(q) = {q.keys[1]}
<1>1. q.keys \in Seq(Keys) /\ DOMAIN q.keys = 1..Len(q.keys) /\ Len(q.keys) \in Nat
  BY LenProperties DEF Query
<1>2. q.op \notin Whole => scope(q) = {q.keys[i] : i \in 1..Len(q.keys)}
  BY <1>1 DEF scope, Range
<1>3. q.op \in OneKey => Len(q.keys) = 1 /\ q.op \notin Whole
  BY DEF Query, OneKey, Whole
<1>4. q.op \in OneKey => scope(q) = {q.keys[1]}
  BY <1>2, <1>3
<1> QED BY <1>2, <1>4 DEF scope

\* The calls that a writer makes.
Writing(q, c) ==
  \/ c.fn = "now" /\ q.op \in OneKey
  \/ /\ c.fn \in KeyCalls /\ c.key \in scope(q)
     /\ q.op \in OneKey => c.key = q.keys[1]
  \/ c.fn = "flush" /\ q.op = "FLUSHALL"

\* A writer calls on its keys, resets shards or reads the clock, and ends.
LEMMA WriterCalls ==
  ASSUME NEW q \in Query, q.op \notin Reads, NEW got \in Seq(Result), Fit(q, got),
         next_call(q, got).fn # "outcome"
  PROVE  Writing(q, next_call(q, got)) /\ Len(got) < most_calls(q)
<1> DEFINE n == Len(got)
           k == q.keys[1]
           c == next_call(q, got)
           most == Len(q.keys) + Len(Shards) + 5
<1>1. n \in Nat /\ (got = <<>> <=> n = 0)
  BY LenProperties, EmptySeq
<1>2. Len(q.keys) \in Nat /\ Len(Shards) \in Nat
  BY NamedKeys, Bounds
<1>3. \A m \in Nat : m < Len(q.keys) \/ m < Len(Shards) \/ m < 5 => m < most
  BY <1>2
<1>4. q.op \in OneKey => k \in scope(q)
  BY ScopeFacts
<1>5. most = most_calls(q)
  BY DEF most_calls
<1> HIDE DEF n, k, most
<1> SUFFICES Writing(q, c) /\ n < most
  BY <1>5 DEF n
<1>10. CASE q.op = "SET"
  <2>1. c = set_cmd(q, got)
    BY <1>10 DEF next_call
  <2> HIDE DEF c
  <2>2. c.fn # "outcome"
    BY DEF c
  <2>3. c = clock \/ c = to_key("get", k) \/ (\E at : c = to_set(k, q.id, q.flags, at))
    BY <2>1, <2>2 DEF set_cmd, outcome, k
  <2>4. n < 5
    <3> SUFFICES ASSUME ~(n < 5) PROVE set_cmd(q, got).fn = "outcome"
      BY <2>1, <2>2
    <3>1. ~(n < 0) /\ ~(n < 1) /\ n # 0 /\ n # 1 /\ n # 0 + 1 /\ n # 1 + 1
      BY <1>1
    <3>2. CASE q.time # None /\ ~q.absolute
      BY <3>1, <3>2 DEF set_cmd, outcome, n
    <3>3. CASE ~(q.time # None /\ ~q.absolute)
      BY <3>1, <3>3 DEF set_cmd, outcome, n
    <3> QED BY <3>2, <3>3
  <2> QED BY <1>1, <1>3, <1>4, <1>10, <2>3, <2>4
          DEF Writing, clock, to_key, to_set, KeyCalls, Reading, OneKey, k
<1>11. CASE q.op = "GETSET"
  <2>1. c = getset(q, got)
    BY <1>11 DEF next_call
  <2>2. n = 0 \/ n = 1 \/ n = 2
    <3>1. n <= 2
      BY <1>11 DEF Fit, n
    <3> QED BY <1>1, <3>1
  <2>3. c = to_key("get", k) \/ c = to_set(k, q.id, {}, None)
    BY <1>1, <2>1, <2>2 DEF getset, outcome, k, n
  <2> HIDE DEF c
  <2> QED BY <1>1, <1>3, <1>4, <1>11, <2>2, <2>3
          DEF Writing, to_key, to_set, KeyCalls, Reading, OneKey, k
<1>12. CASE q.op = "SETNX"
  <2>1. c = setnx(q, got)
    BY <1>12 DEF next_call
  <2>2. c = to_set(k, q.id, {"NX"}, None) /\ n = 0
    BY <1>1, <2>1 DEF setnx, outcome, k
  <2> HIDE DEF c
  <2> QED BY <1>3, <1>4, <1>12, <2>2 DEF Writing, to_set, KeyCalls, Reading, OneKey, k
<1>13. CASE q.op = "MSET"
  <2>1. c = mset(q, got)
    BY <1>13 DEF next_call
  <2>2. n < Len(q.keys) /\ c = to_set(q.keys[n + 1], q.id, {}, None)
    BY <2>1 DEF mset, outcome, n
  <2>3. q.keys[n + 1] \in scope(q)
    BY <1>1, <1>2, <1>13, <2>2, ScopeFacts DEF Whole
  <2> HIDE DEF c
  <2> QED BY <1>1, <1>3, <1>13, <2>2, <2>3 DEF Writing, to_set, KeyCalls, OneKey
<1>14. CASE q.op = "DEL"
  <2>1. c = del(q, got)
    BY <1>14 DEF next_call
  <2>2. n < Len(q.keys) /\ c = to_key("del", q.keys[n + 1])
    BY <2>1 DEF del, outcome, n
  <2>3. q.keys[n + 1] \in scope(q)
    BY <1>1, <1>2, <1>14, <2>2, ScopeFacts DEF Whole
  <2> HIDE DEF c
  <2> QED BY <1>1, <1>3, <1>14, <2>2, <2>3 DEF Writing, to_key, KeyCalls, OneKey
<1>15. CASE q.op = "RPUSH"
  <2>1. c = push_cmd(q, got)
    BY <1>15 DEF next_call
  <2>2. c = [fn |-> "push", key |-> k, id |-> q.id] /\ n = 0
    BY <1>1, <2>1 DEF push_cmd, outcome, k
  <2> HIDE DEF c
  <2> QED BY <1>3, <1>4, <1>15, <2>2 DEF Writing, KeyCalls, OneKey, k
<1>16. CASE q.op = "EXPIRE"
  <2>1. c = expire_cmd(q, got)
    BY <1>16 DEF next_call
  <2> HIDE DEF c
  <2>2. c.fn # "outcome"
    BY DEF c
  <2>3. \/ c = clock \/ c = to_key("exists", k) \/ c = to_key("pttl", k)
        \/ \E at : c = to_expire(k, at)
    BY <2>1, <2>2 DEF expire_cmd, outcome, k
  <2>4. n < 5
    <3> SUFFICES ASSUME ~(n < 5) PROVE expire_cmd(q, got).fn = "outcome"
      BY <2>1, <2>2
    <3>1. ~(n < 2) /\ ~(n < 3) /\ n # 0 /\ n # 1 /\ n # 2 /\ n # 3
      BY <1>1
    <3> QED BY <1>1, <3>1 DEF expire_cmd, outcome, n
  <2> QED BY <1>1, <1>3, <1>4, <1>16, <2>3, <2>4
          DEF Writing, clock, to_key, to_expire, KeyCalls, Reading, OneKey, k
<1>17. CASE q.op = "PERSIST"
  <2>1. c = persist_cmd(q, got)
    BY <1>17 DEF next_call
  <2>2. n = 0 \/ n = 1 \/ n = 2
    <3>1. n <= 2
      BY <1>17 DEF Fit, n
    <3> QED BY <1>1, <3>1
  <2>3. c = to_key("pttl", k) \/ c = to_expire(k, None)
    BY <1>1, <2>1, <2>2 DEF persist_cmd, outcome, k, n
  <2> HIDE DEF c
  <2> QED BY <1>1, <1>3, <1>4, <1>17, <2>2, <2>3
          DEF Writing, to_key, to_expire, KeyCalls, Reading, OneKey, k
<1>18. CASE q.op = "FLUSHALL"
  <2>1. c = flush_all(q, got)
    BY <1>18 DEF next_call
  <2>2. n < Len(Shards) /\ c = to_shard("flush", n + 1, None)
    BY <2>1 DEF flush_all, outcome, n
  <2> HIDE DEF c
  <2> QED BY <1>1, <1>3, <1>18, <2>2 DEF Writing, to_shard
<1> QED BY <1>10, <1>11, <1>12, <1>13, <1>14, <1>15, <1>16, <1>17, <1>18
        DEF Query, CommandNames, OneKey, Whole, Reads

\* The deadlines that a writer sets outlast times that make no difference to it.
LEMMA WriterDeadlines ==
  ASSUME NEW q \in Query, q.op \notin Reads, NEW got \in Seq(Result), Fit(q, got),
         NEW t \in Nat, NEW u \in Nat, Timeless(q, t, u),
         next_call(q, got).fn \in {"set", "expire_at"}
  PROVE  Lasts(next_call(q, got).at, t, u)
<1> SUFFICES ASSUME t # u PROVE Lasts(next_call(q, got).at, t, u)
  BY DEF Lasts
<1> DEFINE c == next_call(q, got)
<1>1. Len(got) \in Nat /\ (got = <<>> <=> Len(got) = 0)
  BY LenProperties, EmptySeq
<1>2. q.time = None \/ (q.absolute /\ q.time > t /\ q.time > u)
  BY DEF Timeless
<1>3. ASSUME NEW n, q.time # None PROVE Lasts(deadline(q, n), t, u)
  <2>1. q.time \in Int
    BY <1>3 DEF Query
  <2>2. deadline(q, n) = q.time
    BY <1>2, <1>3, <2>1 DEF deadline
  <2> QED BY <1>2, <1>3, <2>2 DEF Lasts
<1>4. Lasts(None, t, u)
  BY DEF Lasts
<1>5. CASE q.op = "SET"
  <2>1. c = set_cmd(q, got)
    BY <1>5 DEF next_call
  <2> HIDE DEF c
  <2>2. c.fn = "set" \/ c.fn = "expire_at"
    BY DEF c
  <2>3. c.at = None \/ (q.time # None /\ \E n : c.at = deadline(q, n))
    BY <2>1, <2>2 DEF set_cmd, clock, to_key, to_set, outcome
  <2> QED BY <1>3, <1>4, <2>3 DEF c
<1>6. CASE q.op = "EXPIRE"
  <2>1. c = expire_cmd(q, got)
    BY <1>6 DEF next_call
  <2> HIDE DEF c
  <2>2. c.fn = "set" \/ c.fn = "expire_at"
    BY DEF c
  <2>3. \E n : c.at = deadline(q, n)
    BY <2>1, <2>2 DEF expire_cmd, clock, to_key, to_expire, outcome
  <2>4. q.time # None
    BY <1>6 DEF Query
  <2> QED BY <1>3, <2>3, <2>4 DEF c
<1>7. CASE q.op \in {"GETSET", "SETNX", "MSET", "PERSIST", "DEL", "RPUSH", "FLUSHALL"}
  <2>1. ASSUME q.op \in {"GETSET", "PERSIST"} PROVE c.at = None
    <3>1. c = IF q.op = "GETSET" THEN getset(q, got) ELSE persist_cmd(q, got)
      BY <2>1 DEF next_call
    <3>2. Len(got) = 0 \/ Len(got) = 1 \/ Len(got) = 2
      <4> DEFINE n == Len(got)
      <4>1. n \in Nat /\ n <= 2
        BY <1>1, <2>1 DEF Fit
      <4> HIDE DEF n
      <4>2. n = 0 \/ n = 1 \/ n = 2
        BY <4>1
      <4> QED BY <4>2 DEF n
    <3>3. getset(q, got).fn = "set" => getset(q, got).at = None
      BY <1>1, <3>2 DEF getset, to_key, to_set, outcome
    <3>4. getset(q, got).fn # "expire_at" /\ persist_cmd(q, got).fn # "set"
      BY <1>1, <3>2 DEF getset, persist_cmd, to_key, to_set, to_expire, outcome
    <3>5. persist_cmd(q, got).fn = "expire_at" => persist_cmd(q, got).at = None
      BY <1>1, <3>2 DEF persist_cmd, to_key, to_expire, outcome
    <3> QED BY <2>1, <3>1, <3>3, <3>4, <3>5
  <2>2. ASSUME q.op \in {"SETNX", "MSET"} PROVE c.at = None
    <3>1. c \in {setnx(q, got), mset(q, got)}
      BY <2>2 DEF next_call
    <3>2. setnx(q, got).fn # "outcome" => setnx(q, got).at = None
      BY DEF setnx, to_set, outcome
    <3>3. mset(q, got).fn # "outcome" => mset(q, got).at = None
      BY DEF mset, to_set, outcome
    <3> QED BY <3>1, <3>2, <3>3
  <2>3. ASSUME q.op \in {"DEL", "RPUSH", "FLUSHALL"} PROVE FALSE
    <3>1. c \in {del(q, got), push_cmd(q, got), flush_all(q, got)}
      BY <2>3 DEF next_call
    <3>2. del(q, got).fn \in {"del", "outcome"} /\ push_cmd(q, got).fn \in {"push", "outcome"}
          /\ flush_all(q, got).fn \in {"flush", "outcome"}
      BY DEF del, push_cmd, flush_all, to_key, to_shard, outcome
    <3> QED BY <3>1, <3>2
  <2> QED BY <1>4, <1>7, <2>1, <2>2, <2>3
<1> QED BY <1>5, <1>6, <1>7 DEF Query, CommandNames, OneKey, Whole, Reads

\* A call that is not about k leaves it alone.
LEMMA CallElsewhere ==
  ASSUME NEW m, IsStore(m), NEW c, IsCall(c), NEW t \in Nat, NEW k \in Keys,
         \/ c.fn \in {"now", "keys", "len"}
         \/ c.fn \in KeyCalls /\ c.key # k
         \/ c.fn = "flush" /\ k \notin Shards[c.shard]
  PROVE  Same(k, perform(m, c, t).db, m)
<1>1. CASE c.fn \in {"now", "keys", "len"}
  <2>1. perform(m, c, t).db = m
    BY <1>1 DEF perform, on_shard
  <2> QED BY <2>1 DEF Same
<1>2. CASE c.fn \in KeyCalls /\ c.key # k
  <2>1. perform(m, c, t) = on_key(m, c, t)
    BY <1>2 DEF perform, KeyCalls, Reading
  <2>2. Elsewhere(c.key, on_key(m, c, t).db, m)
    BY <1>2, OnKey DEF KeyCalls
  <2> QED BY <1>2, <2>1, <2>2 DEF Elsewhere, Same
<1>3. CASE c.fn = "flush" /\ k \notin Shards[c.shard]
  <2>1. perform(m, c, t).db = [j \in DOMAIN m \ (DOMAIN m \cap Shards[c.shard]) |-> m[j]]
    BY <1>3 DEF perform, on_shard
  <2> QED BY <1>3, <2>1 DEF Same
<1> QED BY <1>1, <1>2, <1>3

\* Stores that hold the same under k look the same.
LEMMA SameSame ==
  ASSUME NEW k, NEW m, NEW d, Same(k, m, d), NEW t
  PROVE  Like(k, m, t, d, t)
  BY DEF Same, Like, Sees

\* One step of a command that runs alone.
LEMMA StepAlone ==
  ASSUME NEW q \in Query, NEW s, IsRun(q, s), NEW t \in Nat
  PROVE  /\ IsRun(q, step_alone(s, q, t))
         /\ next_call(q, s.got).fn = "outcome" => step_alone(s, q, t) = s
         /\ next_call(q, s.got).fn # "outcome" =>
              /\ IsCall(next_call(q, s.got))
              /\ perform(s.db, next_call(q, s.got), t).res \in Result
              /\ step_alone(s, q, t).db = perform(s.db, next_call(q, s.got), t).db
              /\ step_alone(s, q, t).got =
                   Append(s.got, perform(s.db, next_call(q, s.got), t).res)
<1> DEFINE c == next_call(q, s.got)
           p == perform(s.db, c, t)
           z == step_alone(s, q, t)
<1>1. IsStore(s.db) /\ s.got \in Seq(Result) /\ Fit(q, s.got)
  BY DEF IsRun
<1>2. z = IF c.fn = "outcome" THEN s ELSE [db |-> p.db, got |-> Append(s.got, p.res)]
  BY DEF step_alone
<1>3. CASE c.fn = "outcome"
  BY <1>2, <1>3
<1>4. CASE c.fn # "outcome"
  <2>1. IsCall(c)
    BY <1>1, <1>4, NextCalls
  <2>2. IsStore(p.db) /\ p.res \in Result
    BY <1>1, <2>1, Performed
  <2>3. Fit(q, Append(s.got, p.res)) /\ Append(s.got, p.res) \in Seq(Result)
    BY <1>1, <1>4, <2>2, FitKept, OneMore
  <2> HIDE DEF p, c
  <2>4. z.db = p.db /\ z.got = Append(s.got, p.res)
    BY <1>2, <1>4
  <2> HIDE DEF z
  <2>5. IsRun(q, z)
    BY <2>2, <2>3, <2>4 DEF IsRun
  <2> QED BY <1>4, <2>1, <2>2, <2>4, <2>5 DEF p, c, z
<1> QED BY <1>3, <1>4

\* One result more in both runs.
LEMMA SameResults ==
  ASSUME NEW q, NEW got \in Seq(Result), NEW has \in Seq(Result), NEW t, NEW u,
         LikeResults(q, got, t, has, u), NEW a \in Result, NEW b \in Result,
         q.op \in OneKey => LikeResult(a, t, b, u)
  PROVE  LikeResults(q, Append(got, a), t, Append(has, b), u)
<1> DEFINE n == Len(got)
           g == Append(got, a)
           h == Append(has, b)
<1>1. /\ n \in Nat /\ Len(g) = n + 1 /\ g[n + 1] = a /\ \A i \in 1..n : g[i] = got[i]
  BY OneMore
<1>2. /\ Len(has) = n /\ Len(h) = n + 1 /\ h[n + 1] = b /\ \A i \in 1..n : h[i] = has[i]
  BY OneMore DEF LikeResults
<1>3. \A i \in 1..(n + 1) : i \in 1..n \/ i = n + 1
  BY <1>1
<1> HIDE DEF g, h
<1>4. q.op \in OneKey => \A i \in 1..n : LikeResult(got[i], t, has[i], u)
  BY DEF LikeResults
<1>5. LikeResults(q, g, t, h, u)
  BY <1>1, <1>2, <1>3, <1>4 DEF LikeResults
<1> QED BY <1>5 DEF g, h

\* Two runs that are the same for a key of the command stay the same for it.
LEMMA SameStep ==
  ASSUME NEW q \in Query, q.op \notin Reads, NEW k \in scope(q),
         NEW t \in Nat, NEW u \in Nat, Timeless(q, t, u),
         NEW s, NEW r, LikeRuns(k, q, s, t, r, u)
  PROVE  LikeRuns(k, q, step_alone(s, q, t), t, step_alone(r, q, u), u)
<1> DEFINE c == next_call(q, s.got)
           e == next_call(q, r.got)
           y == step_alone(s, q, t)
           z == step_alone(r, q, u)
<1>1. /\ IsRun(q, s) /\ IsRun(q, r) /\ Like(k, s.db, t, r.db, u)
      /\ LikeResults(q, s.got, t, r.got, u)
  BY DEF LikeRuns
<1>2. /\ IsStore(s.db) /\ s.got \in Seq(Result) /\ Fit(q, s.got)
      /\ IsStore(r.db) /\ r.got \in Seq(Result) /\ Fit(q, r.got) /\ k \in Keys
  BY <1>1, Scopes DEF IsRun
<1>3. LikeNext(c, e)
  BY <1>1, <1>2, SameNext
<1>4. CASE c.fn = "outcome"
  <2>1. e.fn = "outcome"
    BY <1>3, <1>4 DEF LikeNext
  <2>2. y = s /\ z = r
    BY <1>1, <1>4, <2>1, StepAlone
  <2> QED BY <2>2
<1>5. CASE c.fn # "outcome"
  <2>1. e = c
    BY <1>3, <1>5 DEF LikeNext
  <2> DEFINE p == perform(s.db, c, t)
             v == perform(r.db, c, u)
  <2>2. /\ IsRun(q, y) /\ IsCall(c) /\ p.res \in Result
        /\ y.db = p.db /\ y.got = Append(s.got, p.res)
    BY <1>1, <1>5, StepAlone
  <2>3. /\ IsRun(q, z) /\ v.res \in Result
        /\ z.db = v.db /\ z.got = Append(r.got, v.res)
    BY <1>1, <1>5, <2>1, StepAlone
  <2>4. Writing(q, c)
    BY <1>2, <1>5, WriterCalls
  <2>5. c.fn \in {"set", "expire_at"} => Lasts(c.at, t, u)
    BY <1>2, WriterDeadlines
  <2>6. q.op \in OneKey => k = q.keys[1]
    BY ScopeFacts
  <2> HIDE DEF c, e, y, z
  <2> SUFFICES Like(k, p.db, t, v.db, u) /\ (q.op \in OneKey => LikeResult(p.res, t, v.res, u))
    <3> HIDE DEF p, v
    <3>1. LikeResults(q, y.got, t, z.got, u)
      BY <1>1, <1>2, <2>2, <2>3, SameResults
    <3>2. LikeRuns(k, q, y, t, z, u)
      BY <2>2, <2>3, <3>1 DEF LikeRuns
    <3> QED BY <3>2 DEF y, z
  <2>7. ASSUME Same(k, p.db, s.db), Same(k, v.db, r.db) PROVE Like(k, p.db, t, v.db, u)
    <3> HIDE DEF p, v
    <3>1. Like(k, p.db, t, s.db, t) /\ Like(k, r.db, u, v.db, u)
      BY <2>7, SameSame, LikeEquivalence
    <3> QED BY <1>1, <3>1, LikeEquivalence
  <2>8. CASE c.fn = "now"
    <3>1. Same(k, p.db, s.db) /\ Same(k, v.db, r.db)
      BY <1>2, <2>2, <2>8, CallElsewhere
    <3>2. p.res = result("now", t) /\ v.res = result("now", u)
      BY <2>8 DEF perform
    <3>3. LikeResult(p.res, t, v.res, u)
      BY <3>2 DEF LikeResult, result
    <3> QED BY <2>7, <3>1, <3>3
  <2>9. CASE c.fn \in KeyCalls /\ c.key = k
    BY <1>1, <1>2, <2>2, <2>5, <2>9, SameCall
  <2>10. CASE c.fn \in KeyCalls /\ c.key # k
    <3>1. Same(k, p.db, s.db) /\ Same(k, v.db, r.db)
      BY <1>2, <2>2, <2>10, CallElsewhere
    <3>2. q.op \notin OneKey
      BY <2>4, <2>6, <2>10 DEF Writing, KeyCalls, Reading
    <3> QED BY <2>7, <3>1, <3>2
  <2>11. CASE c.fn = "flush"
    <3>1. q.op \notin OneKey
      BY <2>4, <2>11 DEF Writing, KeyCalls, Reading, OneKey
    <3>2. CASE k \notin Shards[c.shard]
      <4>1. Same(k, p.db, s.db) /\ Same(k, v.db, r.db)
        BY <1>2, <2>2, <2>11, <3>2, CallElsewhere
      <4> QED BY <2>7, <3>1, <4>1
    <3>3. CASE k \in Shards[c.shard]
      <4>1. /\ p.db = [j \in DOMAIN s.db \ (DOMAIN s.db \cap Shards[c.shard]) |-> s.db[j]]
            /\ v.db = [j \in DOMAIN r.db \ (DOMAIN r.db \cap Shards[c.shard]) |-> r.db[j]]
        BY <2>11 DEF perform, on_shard
      <4>2. k \notin DOMAIN p.db /\ k \notin DOMAIN v.db
        BY <3>3, <4>1
      <4> HIDE DEF p, v
      <4> QED BY <3>1, <4>2 DEF Like, Sees
    <3> QED BY <3>2, <3>3
  <2> QED BY <2>4, <2>8, <2>9, <2>10, <2>11 DEF Writing
<1> QED BY <1>4, <1>5

\* A step of a writer leaves the keys alone that it is not about.
LEMMA StepElsewhere ==
  ASSUME NEW q \in Query, q.op \notin Reads, NEW k \in Keys, k \notin scope(q),
         NEW t \in Nat, NEW s, IsRun(q, s)
  PROVE  Same(k, step_alone(s, q, t).db, s.db)
<1> DEFINE c == next_call(q, s.got)
           y == step_alone(s, q, t)
<1>1. IsStore(s.db) /\ s.got \in Seq(Result) /\ Fit(q, s.got)
  BY DEF IsRun
<1>2. CASE c.fn = "outcome"
  <2>1. y = s
    BY <1>2, StepAlone
  <2> QED BY <2>1 DEF Same
<1>3. CASE c.fn # "outcome"
  <2>1. IsCall(c) /\ y.db = perform(s.db, c, t).db
    BY <1>3, StepAlone
  <2>2. Writing(q, c)
    BY <1>1, <1>3, WriterCalls
  <2>3. q.op # "FLUSHALL"
    BY ScopeFacts DEF Whole
  <2>4. c.fn = "now" \/ (c.fn \in KeyCalls /\ c.key # k)
    BY <2>2, <2>3 DEF Writing
  <2> HIDE DEF c
  <2> QED BY <1>1, <2>1, <2>4, CallElsewhere
<1> QED BY <1>2, <1>3

-----------------------------------------------------------------------------
(* Whole runs, and logs                                                    *)

\* f is the first n states of q when it runs alone on m at time t.
Alone(f, m, q, t, n) ==
  /\ f = [i \in 0..n |-> f[i]] /\ f[0] = [db |-> m, got |-> <<>>]
  /\ \A i \in 1..n : f[i] = step_alone(f[i - 1], q, t)

\* There are such states.
LEMMA AloneExists ==
  ASSUME NEW m, NEW q, NEW t, NEW n \in Nat
  PROVE  \E f : Alone(f, m, q, t, n)
<1> DEFINE T == {i \in Nat : \E f : Alone(f, m, q, t, i)}
           first == [db |-> m, got |-> <<>>]
<1>1. 0 \in T
  <2> DEFINE f == [i \in 0..0 |-> first]
  <2>1. f = [i \in 0..0 |-> f[i]] /\ f[0] = first
    OBVIOUS
  <2>2. \A i \in 1..0 : FALSE
    OBVIOUS
  <2> HIDE DEF f
  <2>3. Alone(f, m, q, t, 0)
    BY <2>1, <2>2 DEF Alone
  <2> QED BY <2>3
<1>2. ASSUME NEW i \in Nat, i \in T PROVE i + 1 \in T
  <2>1. PICK f : Alone(f, m, q, t, i)
    BY <1>2
  <2> DEFINE last == step_alone(f[i], q, t)
             g == [j \in 0..(i + 1) |-> IF j <= i THEN f[j] ELSE last]
  <2> HIDE DEF last
  <2>2. g[0] = first
    <3>1. g[0] = f[0]
      OBVIOUS
    <3> HIDE DEF g
    <3> QED BY <2>1, <3>1 DEF Alone
  <2>3. ASSUME NEW j \in 1..(i + 1) PROVE g[j] = step_alone(g[j - 1], q, t)
    <3>1. CASE j <= i
      <4>1. g[j] = f[j] /\ g[j - 1] = f[j - 1] /\ j \in 1..i
        BY <3>1
      <4> HIDE DEF g
      <4> QED BY <4>1, <2>1 DEF Alone
    <3>2. CASE ~(j <= i)
      <4>1. j = i + 1
        BY <3>2
      <4>2. g[j] = last /\ g[j - 1] = f[i]
        BY <4>1
      <4> HIDE DEF g
      <4> QED BY <4>1, <4>2 DEF last
    <3> QED BY <3>1, <3>2
  <2>4. Alone(g, m, q, t, i + 1)
    <3>1. g = [j \in 0..(i + 1) |-> g[j]]
      OBVIOUS
    <3> HIDE DEF g
    <3> QED BY <2>2, <2>3, <3>1 DEF Alone
  <2> HIDE DEF g
  <2> QED BY <2>4
<1> HIDE DEF T
<1>3. n \in T
  BY <1>1, <1>2, NumberInduction
<1> QED BY <1>3 DEF T

\* The number of calls that a run makes room for.
LEMMA MostCalls ==
  ASSUME NEW q \in Query
  PROVE  most_calls(q) \in Nat
  BY NamedKeys, Bounds DEF most_calls

\* The states that calls_alone gives are these.
LEMMA CallsAlone ==
  ASSUME NEW m, NEW q \in Query, NEW t
  PROVE  Alone(calls_alone(m, q, t), m, q, t, most_calls(q))
<1> DEFINE n == most_calls(q)
           first == [db |-> m, got |-> <<>>]
           Rec(f) == f = [i \in 0..most_calls(q) |->
                            IF i = 0 THEN [db |-> m, got |-> <<>>] ELSE step_alone(f[i - 1], q, t)]
           g == CHOOSE f : Rec(f)
<1>1. calls_alone(m, q, t) = g
  BY DEF calls_alone
<1>2. n \in Nat
  BY MostCalls
<1>3. PICK f : Alone(f, m, q, t, n)
  BY <1>2, AloneExists
<1>4. Rec(f)
  <2>1. \A i \in 0..n : f[i] = IF i = 0 THEN first ELSE step_alone(f[i - 1], q, t)
    <3> SUFFICES ASSUME NEW i \in 0..n
                 PROVE  f[i] = IF i = 0 THEN first ELSE step_alone(f[i - 1], q, t)
      OBVIOUS
    <3>1. CASE i = 0
      BY <1>3, <3>1 DEF Alone
    <3>2. CASE i # 0
      <4> HIDE DEF n
      <4>1. i \in 1..n
        BY <1>2, <3>2
      <4>2. f[i] = step_alone(f[i - 1], q, t)
        BY <1>3, <4>1 DEF Alone
      <4> QED BY <3>2, <4>2
    <3> QED BY <3>1, <3>2
  <2>2. f = [i \in 0..n |-> f[i]]
    BY <1>3 DEF Alone
  <2> QED BY <2>1, <2>2, Zenon
<1>5. Rec(g)
  BY <1>4
<1> HIDE DEF g
<1>6. Alone(g, m, q, t, n)
  <2>1. g = [i \in 0..n |-> g[i]]
    BY <1>5
  <2>2. g[0] = first
    BY <1>2, <1>5
  <2>3. \A i \in 1..n : g[i] = step_alone(g[i - 1], q, t)
    <3> SUFFICES ASSUME NEW i \in 1..n PROVE g[i] = step_alone(g[i - 1], q, t)
      OBVIOUS
    <3>1. i \in 0..n /\ i # 0
      BY <1>2
    <3> QED BY <3>1, <1>5, Zenon
  <2> QED BY <2>1, <2>2, <2>3 DEF Alone
<1> QED BY <1>1, <1>6

\* A state further on.
LEMMA CallsNext ==
  ASSUME NEW m, NEW q \in Query, NEW t, NEW i \in Nat, i < most_calls(q)
  PROVE  calls_alone(m, q, t)[i + 1] = step_alone(calls_alone(m, q, t)[i], q, t)
<1> DEFINE n == most_calls(q)
<1>1. n \in Nat /\ Alone(calls_alone(m, q, t), m, q, t, n)
  BY MostCalls, CallsAlone
<1> HIDE DEF n
<1>2. i + 1 \in 1..n /\ (i + 1) - 1 = i
  BY <1>1 DEF n
<1> QED BY <1>1, <1>2 DEF Alone

\* A run begins with no results.
LEMMA RunBegins ==
  ASSUME NEW m, IsStore(m), NEW q \in Query, NEW t \in Nat
  PROVE  /\ calls_alone(m, q, t)[0] = [db |-> m, got |-> <<>>]
         /\ IsRun(q, [db |-> m, got |-> <<>>])
<1>1. calls_alone(m, q, t)[0] = [db |-> m, got |-> <<>>]
  BY CallsAlone DEF Alone
<1>2. <<>> \in Seq(Result) /\ Len(<<>>) = 0
  OBVIOUS
<1>3. Fit(q, <<>>)
  BY <1>2, Bounds DEF Fit
<1> QED BY <1>1, <1>2, <1>3 DEF IsRun

\* The states of a run.
LEMMA RunTypes ==
  ASSUME NEW m, IsStore(m), NEW q \in Query, NEW t \in Nat
  PROVE  \A i \in 0..most_calls(q) : IsRun(q, calls_alone(m, q, t)[i])
<1> DEFINE n == most_calls(q)
           f == calls_alone(m, q, t)
           T == {i \in Nat : i <= n => IsRun(q, f[i])}
<1>1. n \in Nat
  BY MostCalls
<1>2. 0 \in T
  BY RunBegins
<1>3. ASSUME NEW i \in Nat, i \in T PROVE i + 1 \in T
  <2> SUFFICES ASSUME i + 1 <= n PROVE IsRun(q, f[i + 1])
    OBVIOUS
  <2>1. i < n /\ i <= n
    BY <1>1
  <2>2. IsRun(q, f[i])
    BY <1>3, <2>1
  <2>3. f[i + 1] = step_alone(f[i], q, t)
    BY <2>1, CallsNext
  <2> HIDE DEF f
  <2> QED BY <2>2, <2>3, StepAlone
<1> HIDE DEF T, n
<1>4. \A i \in Nat : i \in T
  BY <1>2, <1>3, NumberInduction
<1>5. \A i \in 0..n : IsRun(q, f[i])
  BY <1>1, <1>4 DEF T
<1> QED BY <1>5 DEF n

\* Two runs on stores that are the same for a key of the command.
LEMMA SameRuns ==
  ASSUME NEW q \in Query, q.op \notin Reads, NEW k \in scope(q),
         NEW t \in Nat, NEW u \in Nat, Timeless(q, t, u),
         NEW m, IsStore(m), NEW d, IsStore(d), Like(k, m, t, d, u)
  PROVE  Like(k, run_alone(m, q, t), t, run_alone(d, q, u), u)
<1> DEFINE n == most_calls(q)
           f == calls_alone(m, q, t)
           g == calls_alone(d, q, u)
           T == {i \in Nat : i <= n => LikeRuns(k, q, f[i], t, g[i], u)}
<1>1. n \in Nat
  BY MostCalls
<1>2. 0 \in T
  <2> DEFINE a == [db |-> m, got |-> <<>>]
             b == [db |-> d, got |-> <<>>]
  <2>1. f[0] = a /\ g[0] = b /\ IsRun(q, a) /\ IsRun(q, b)
    BY RunBegins
  <2>2. a.db = m /\ b.db = d /\ a.got = <<>> /\ b.got = <<>>
    OBVIOUS
  <2>3. LikeResults(q, <<>>, t, <<>>, u)
    BY DEF LikeResults
  <2> HIDE DEF a, b
  <2>4. LikeRuns(k, q, a, t, b, u)
    BY <2>1, <2>2, <2>3 DEF LikeRuns
  <2> HIDE DEF f, g
  <2> QED BY <2>1, <2>4
<1>3. ASSUME NEW i \in Nat, i \in T PROVE i + 1 \in T
  <2> SUFFICES ASSUME i + 1 <= n PROVE LikeRuns(k, q, f[i + 1], t, g[i + 1], u)
    OBVIOUS
  <2>1. i < n /\ i <= n
    BY <1>1
  <2>2. LikeRuns(k, q, f[i], t, g[i], u)
    BY <1>3, <2>1
  <2>3. f[i + 1] = step_alone(f[i], q, t) /\ g[i + 1] = step_alone(g[i], q, u)
    BY <2>1, CallsNext
  <2> HIDE DEF f, g
  <2> QED BY <2>2, <2>3, SameStep
<1> HIDE DEF T, n
<1>4. n \in T
  BY <1>1, <1>2, <1>3, NumberInduction
<1>5. LikeRuns(k, q, f[n], t, g[n], u)
  BY <1>1, <1>4 DEF T
<1> HIDE DEF f, g
<1>6. Like(k, f[n].db, t, g[n].db, u)
  BY <1>5 DEF LikeRuns
<1> QED BY <1>6 DEF run_alone, f, g, n

\* A writer that runs alone leaves a store, with the keys as they were that it
\* is not about.
LEMMA RunElsewhere ==
  ASSUME NEW q \in Query, q.op \notin Reads, NEW t \in Nat, NEW m, IsStore(m)
  PROVE  /\ IsStore(run_alone(m, q, t))
         /\ \A k \in Keys : k \notin scope(q) => Like(k, run_alone(m, q, t), t, m, t)
<1> DEFINE n == most_calls(q)
           f == calls_alone(m, q, t)
<1>1. n \in Nat /\ \A i \in 0..n : IsRun(q, f[i])
  BY MostCalls, RunTypes
<1>2. \A i \in Nat : i < n => f[i + 1] = step_alone(f[i], q, t)
  BY CallsNext
<1>3. f[0].db = m
  <2>1. f[0] = [db |-> m, got |-> <<>>]
    BY RunBegins
  <2> HIDE DEF f
  <2> QED BY <2>1
<1> HIDE DEF n, f
<1>4. IsStore(f[n].db)
  BY <1>1 DEF IsRun
<1>5. ASSUME NEW k \in Keys, k \notin scope(q) PROVE Like(k, f[n].db, t, m, t)
  <2> DEFINE T == {i \in Nat : i <= n => Same(k, f[i].db, m)}
  <2>1. 0 \in T
    BY <1>3 DEF Same
  <2>2. ASSUME NEW i \in Nat, i \in T PROVE i + 1 \in T
    <3> SUFFICES ASSUME i + 1 <= n PROVE Same(k, f[i + 1].db, m)
      OBVIOUS
    <3>1. i < n /\ i <= n /\ i \in 0..n
      BY <1>1
    <3>2. Same(k, f[i].db, m) /\ f[i + 1] = step_alone(f[i], q, t)
      BY <1>2, <2>2, <3>1
    <3>3. Same(k, f[i + 1].db, f[i].db)
      BY <1>1, <1>5, <3>1, <3>2, StepElsewhere
    <3> QED BY <3>2, <3>3 DEF Same
  <2> HIDE DEF T
  <2>3. n \in T
    BY <1>1, <2>1, <2>2, NumberInduction
  <2>4. Same(k, f[n].db, m)
    BY <1>1, <2>3 DEF T
  <2> QED BY <2>4, SameSame
<1> QED BY <1>4, <1>5 DEF run_alone, f, n

\* A run that has its outcome stays where it is.
LEMMA RunEnds ==
  ASSUME NEW m, IsStore(m), NEW q \in Query, NEW t \in Nat, NEW j \in 0..most_calls(q),
         next_call(q, calls_alone(m, q, t)[j].got).fn = "outcome"
  PROVE  run_alone(m, q, t) = calls_alone(m, q, t)[j].db
<1> DEFINE n == most_calls(q)
           f == calls_alone(m, q, t)
           T == {i \in Nat : j + i <= n => f[j + i] = f[j]}
<1>1. n \in Nat /\ j \in Nat /\ j <= n
  BY MostCalls
<1>2. IsRun(q, f[j])
  BY RunTypes
<1>3. \A i \in Nat : i < n => f[i + 1] = step_alone(f[i], q, t)
  BY CallsNext
<1> HIDE DEF n, f
<1>4. step_alone(f[j], q, t) = f[j]
  BY <1>2, StepAlone DEF f
<1>5. 0 \in T
  BY <1>1
<1>6. ASSUME NEW i \in Nat, i \in T PROVE i + 1 \in T
  <2> SUFFICES ASSUME j + (i + 1) <= n PROVE f[j + (i + 1)] = f[j]
    OBVIOUS
  <2>1. j + i \in Nat /\ j + i < n /\ j + i <= n /\ (j + i) + 1 = j + (i + 1)
    BY <1>1
  <2>2. f[j + i] = f[j]
    BY <1>6, <2>1
  <2>3. f[(j + i) + 1] = step_alone(f[j + i], q, t)
    BY <1>3, <2>1
  <2> QED BY <1>4, <2>1, <2>2, <2>3
<1> HIDE DEF T
<1>7. n - j \in Nat /\ j + (n - j) = n
  BY <1>1
<1>8. n - j \in T
  BY <1>5, <1>6, <1>7, NumberInduction
<1>9. f[n] = f[j]
  BY <1>1, <1>7, <1>8 DEF T
<1> QED BY <1>9 DEF run_alone, f, n

\* f is the stores that the first n requests of qs make of m.
LogRun(f, m, qs, t, n) ==
  /\ f = [i \in 0..n |-> f[i]] /\ f[0] = m
  /\ \A i \in 1..n : f[i] = run_alone(f[i - 1], qs[i], t)

\* There are such stores.
LEMMA LogRunExists ==
  ASSUME NEW m, NEW qs, NEW t, NEW n \in Nat
  PROVE  \E f : LogRun(f, m, qs, t, n)
<1> DEFINE T == {i \in Nat : \E f : LogRun(f, m, qs, t, i)}
<1>1. 0 \in T
  <2> DEFINE f == [i \in 0..0 |-> m]
  <2>1. f = [i \in 0..0 |-> f[i]] /\ f[0] = m
    OBVIOUS
  <2>2. \A i \in 1..0 : FALSE
    OBVIOUS
  <2> HIDE DEF f
  <2>3. LogRun(f, m, qs, t, 0)
    BY <2>1, <2>2 DEF LogRun
  <2> QED BY <2>3
<1>2. ASSUME NEW i \in Nat, i \in T PROVE i + 1 \in T
  <2>1. PICK f : LogRun(f, m, qs, t, i)
    BY <1>2
  <2> DEFINE last == run_alone(f[i], qs[i + 1], t)
             g == [j \in 0..(i + 1) |-> IF j <= i THEN f[j] ELSE last]
  <2> HIDE DEF last
  <2>2. g[0] = m
    <3>1. g[0] = f[0]
      OBVIOUS
    <3> HIDE DEF g
    <3> QED BY <2>1, <3>1 DEF LogRun
  <2>3. ASSUME NEW j \in 1..(i + 1) PROVE g[j] = run_alone(g[j - 1], qs[j], t)
    <3>1. CASE j <= i
      <4>1. g[j] = f[j] /\ g[j - 1] = f[j - 1] /\ j \in 1..i
        BY <3>1
      <4> HIDE DEF g
      <4> QED BY <4>1, <2>1 DEF LogRun
    <3>2. CASE ~(j <= i)
      <4>1. j = i + 1
        BY <3>2
      <4>2. g[j] = last /\ g[j - 1] = f[i]
        BY <4>1
      <4> HIDE DEF g
      <4> QED BY <4>1, <4>2 DEF last
    <3> QED BY <3>1, <3>2
  <2>4. LogRun(g, m, qs, t, i + 1)
    <3>1. g = [j \in 0..(i + 1) |-> g[j]]
      OBVIOUS
    <3> HIDE DEF g
    <3> QED BY <2>2, <2>3, <3>1 DEF LogRun
  <2> HIDE DEF g
  <2> QED BY <2>4
<1> HIDE DEF T
<1>3. n \in T
  BY <1>1, <1>2, NumberInduction
<1> QED BY <1>3 DEF T

\* A replay ends in the last of them.
LEMMA ReplayRun ==
  ASSUME NEW m, NEW qs \in Seq(Query), NEW t
  PROVE  \E f : LogRun(f, m, qs, t, Len(qs)) /\ replay_log(m, qs, t) = f[Len(qs)]
<1> DEFINE n == Len(qs)
           Rec(f) == f = [i \in 0..Len(qs) |->
                            IF i = 0 THEN m ELSE run_alone(f[i - 1], qs[i], t)]
           g == CHOOSE f : Rec(f)
<1>1. replay_log(m, qs, t) = g[Len(qs)]
  BY DEF replay_log
<1>2. n \in Nat
  BY LenProperties
<1>3. PICK f : LogRun(f, m, qs, t, n)
  BY <1>2, LogRunExists
<1>4. Rec(f)
  <2>1. \A i \in 0..n : f[i] = IF i = 0 THEN m ELSE run_alone(f[i - 1], qs[i], t)
    <3> SUFFICES ASSUME NEW i \in 0..n
                 PROVE  f[i] = IF i = 0 THEN m ELSE run_alone(f[i - 1], qs[i], t)
      OBVIOUS
    <3>1. CASE i = 0
      BY <1>3, <3>1 DEF LogRun
    <3>2. CASE i # 0
      <4> HIDE DEF n
      <4>1. i \in 1..n
        BY <1>2, <3>2
      <4>2. f[i] = run_alone(f[i - 1], qs[i], t)
        BY <1>3, <4>1 DEF LogRun
      <4> QED BY <3>2, <4>2
    <3> QED BY <3>1, <3>2
  <2>2. f = [i \in 0..n |-> f[i]]
    BY <1>3 DEF LogRun
  <2> QED BY <2>1, <2>2, Zenon
<1>5. Rec(g)
  BY <1>4
<1> HIDE DEF g
<1>6. LogRun(g, m, qs, t, n)
  <2>1. g = [i \in 0..n |-> g[i]]
    BY <1>5
  <2>2. g[0] = m
    BY <1>2, <1>5
  <2>3. \A i \in 1..n : g[i] = run_alone(g[i - 1], qs[i], t)
    <3> SUFFICES ASSUME NEW i \in 1..n PROVE g[i] = run_alone(g[i - 1], qs[i], t)
      OBVIOUS
    <3>1. i \in 0..n /\ i # 0
      BY <1>2
    <3> QED BY <3>1, <1>5, Zenon
  <2> QED BY <2>1, <2>2, <2>3 DEF LogRun
<1> QED BY <1>1, <1>6

\* Nothing logged, nothing changed; and one request more at the end.
LEMMA ReplayMore ==
  ASSUME NEW m, NEW t
  PROVE  /\ replay_log(m, <<>>, t) = m
         /\ \A qs \in Seq(Query), q \in Query :
              replay_log(m, Append(qs, q), t) = run_alone(replay_log(m, qs, t), q, t)
<1>1. replay_log(m, <<>>, t) = m
  <2>1. <<>> \in Seq(Query) /\ Len(<<>>) = 0
    OBVIOUS
  <2>2. PICK f : LogRun(f, m, <<>>, t, 0) /\ replay_log(m, <<>>, t) = f[0]
    BY <2>1, ReplayRun
  <2> QED BY <2>2 DEF LogRun
<1>2. ASSUME NEW qs \in Seq(Query), NEW q \in Query
      PROVE  replay_log(m, Append(qs, q), t) = run_alone(replay_log(m, qs, t), q, t)
  <2> DEFINE more == Append(qs, q)
             n == Len(qs)
  <2>1. /\ n \in Nat /\ more \in Seq(Query) /\ Len(more) = n + 1 /\ more[n + 1] = q
        /\ \A i \in 1..n : more[i] = qs[i]
    BY AppendProperties, LenProperties
  <2>2. PICK f : LogRun(f, m, qs, t, n) /\ replay_log(m, qs, t) = f[n]
    BY ReplayRun
  <2>3. PICK g : LogRun(g, m, more, t, n + 1) /\ replay_log(m, more, t) = g[n + 1]
    BY <2>1, ReplayRun
  <2> HIDE DEF more, n
  <2> DEFINE T == {i \in Nat : i <= n => g[i] = f[i]}
  <2>4. 0 \in T
    BY <2>2, <2>3 DEF LogRun
  <2>5. ASSUME NEW i \in Nat, i \in T PROVE i + 1 \in T
    <3> SUFFICES ASSUME i + 1 <= n PROVE g[i + 1] = f[i + 1]
      OBVIOUS
    <3>1. i <= n /\ i + 1 \in 1..n /\ i + 1 \in 1..(n + 1) /\ (i + 1) - 1 = i
      BY <2>1
    <3>2. g[i] = f[i] /\ more[i + 1] = qs[i + 1]
      BY <2>1, <2>5, <3>1
    <3>3. g[i + 1] = run_alone(g[i], more[i + 1], t) /\ f[i + 1] = run_alone(f[i], qs[i + 1], t)
      BY <2>2, <2>3, <3>1 DEF LogRun
    <3> QED BY <3>2, <3>3
  <2> HIDE DEF T
  <2>6. n \in T
    BY <2>1, <2>4, <2>5, NumberInduction
  <2>7. g[n] = f[n]
    BY <2>1, <2>6 DEF T
  <2>8. n + 1 \in 1..(n + 1) /\ (n + 1) - 1 = n
    BY <2>1
  <2>9. g[n + 1] = run_alone(g[n], more[n + 1], t)
    BY <2>3, <2>8 DEF LogRun
  <2> QED BY <2>1, <2>2, <2>3, <2>7, <2>9 DEF more
<1> QED BY <1>1, <1>2

\* A log of writers.
IsLog(qs) == qs \in Seq(Query) /\ \A i \in 1..Len(qs) : qs[i].op \notin Reads

\* The stores of a replay.
LEMMA ReplayStores ==
  ASSUME NEW m, IsStore(m), NEW qs, IsLog(qs), NEW t \in Nat, NEW f,
         LogRun(f, m, qs, t, Len(qs))
  PROVE  \A i \in 0..Len(qs) : IsStore(f[i])
<1> DEFINE n == Len(qs)
           T == {i \in Nat : i <= n => IsStore(f[i])}
<1>1. n \in Nat /\ \A i \in 1..n : qs[i] \in Query /\ qs[i].op \notin Reads
  BY LenProperties, ElementOfSeq DEF IsLog
<1>2. LogRun(f, m, qs, t, n)
  OBVIOUS
<1> HIDE DEF n
<1>3. 0 \in T
  BY <1>2 DEF LogRun
<1>4. ASSUME NEW i \in Nat, i \in T PROVE i + 1 \in T
  <2> SUFFICES ASSUME i + 1 <= n PROVE IsStore(f[i + 1])
    OBVIOUS
  <2>1. i <= n /\ i + 1 \in 1..n /\ (i + 1) - 1 = i
    BY <1>1
  <2>2. f[i + 1] = run_alone(f[i], qs[i + 1], t)
    BY <1>2, <2>1 DEF LogRun
  <2>3. IsStore(f[i])
    BY <1>4, <2>1
  <2> QED BY <1>1, <2>1, <2>2, <2>3, RunElsewhere
<1> HIDE DEF T
<1>5. \A i \in Nat : i \in T
  BY <1>3, <1>4, NumberInduction
<1>6. \A i \in 0..n : IsStore(f[i])
  BY <1>1, <1>5 DEF T
<1> QED BY <1>6 DEF n

\* A replay leaves a store.
LEMMA ReplayStore ==
  ASSUME NEW m, IsStore(m), NEW qs, IsLog(qs), NEW t \in Nat
  PROVE  IsStore(replay_log(m, qs, t))
<1>1. qs \in Seq(Query) /\ Len(qs) \in Nat
  BY LenProperties DEF IsLog
<1>2. PICK f : LogRun(f, m, qs, t, Len(qs)) /\ replay_log(m, qs, t) = f[Len(qs)]
  BY <1>1, ReplayRun
<1>3. Len(qs) \in 0..Len(qs)
  BY <1>1
<1> QED BY <1>2, <1>3, ReplayStores

\* The keys that the clock at time t decides about, when qs are replayed on m.
TimedAt(m, qs, t) ==
  {k \in DOMAIN m : gone(m[k], t)} \cup
  UNION {scope(qs[i]) : i \in {j \in DOMAIN qs :
           qs[j].time # None /\ (qs[j].absolute => qs[j].time <= t)}}

\* For every other key, an earlier replay is the same.
LEMMA ReplayLater ==
  ASSUME NEW m, IsStore(m), NEW qs, IsLog(qs), NEW t \in Nat, NEW u \in Nat, t <= u,
         NEW k \in Keys \ TimedAt(m, qs, u)
  PROVE  Like(k, replay_log(m, qs, t), t, replay_log(m, qs, u), u)
<1> DEFINE n == Len(qs)
<1>1. /\ n \in Nat /\ DOMAIN qs = 1..n
      /\ \A i \in 1..n : qs[i] \in Query /\ qs[i].op \notin Reads
  BY LenProperties, ElementOfSeq DEF IsLog
<1>2. PICK f : LogRun(f, m, qs, t, n) /\ replay_log(m, qs, t) = f[n]
  BY ReplayRun DEF IsLog
<1>3. PICK g : LogRun(g, m, qs, u, n) /\ replay_log(m, qs, u) = g[n]
  BY ReplayRun DEF IsLog
<1>4. \A i \in 0..n : IsStore(f[i]) /\ IsStore(g[i])
  BY <1>2, <1>3, ReplayStores
<1>5. ASSUME NEW i \in 1..n, k \in scope(qs[i]) PROVE Timeless(qs[i], t, u)
  <2>1. ~(qs[i].time # None /\ (qs[i].absolute => qs[i].time <= u))
    BY <1>1, <1>5 DEF TimedAt
  <2>2. qs[i].time \in Int \cup {None}
    BY <1>1 DEF Query
  <2> QED BY <2>1, <2>2 DEF Timeless
<1> HIDE DEF n
<1> DEFINE T == {i \in Nat : i <= n => Like(k, f[i], t, g[i], u)}
<1>6. 0 \in T
  <2>1. f[0] = m /\ g[0] = m
    BY <1>2, <1>3 DEF LogRun
  <2>2. k \in DOMAIN m => ~gone(m[k], u) /\ m[k].expire_at \in Nat \cup {None}
    BY DEF TimedAt, IsStore, Entry
  <2>3. k \in DOMAIN m => Lasts(m[k].expire_at, t, u)
    BY <2>2 DEF Lasts, gone
  <2>4. Same(k, m, m)
    BY DEF Same
  <2>5. Like(k, m, t, m, u)
    BY <2>3, <2>4, SameLike
  <2> QED BY <2>1, <2>5
<1>7. ASSUME NEW i \in Nat, i \in T PROVE i + 1 \in T
  <2> SUFFICES ASSUME i + 1 <= n PROVE Like(k, f[i + 1], t, g[i + 1], u)
    OBVIOUS
  <2>1. i <= n /\ i \in 0..n /\ i + 1 \in 1..n /\ (i + 1) - 1 = i
    BY <1>1
  <2> DEFINE q == qs[i + 1]
  <2>2. f[i + 1] = run_alone(f[i], q, t) /\ g[i + 1] = run_alone(g[i], q, u)
    BY <1>2, <1>3, <2>1 DEF LogRun
  <2>3. Like(k, f[i], t, g[i], u) /\ IsStore(f[i]) /\ IsStore(g[i])
    BY <1>4, <1>7, <2>1
  <2>4. q \in Query /\ q.op \notin Reads /\ (k \in scope(q) => Timeless(q, t, u))
    BY <1>1, <1>5, <2>1
  <2> HIDE DEF q
  <2>5. CASE k \in scope(q)
    BY <2>2, <2>3, <2>4, <2>5, SameRuns
  <2>6. CASE k \notin scope(q)
    <3>1. Like(k, f[i + 1], t, f[i], t) /\ Like(k, g[i + 1], u, g[i], u)
      BY <2>2, <2>3, <2>4, <2>6, RunElsewhere
    <3>2. Like(k, f[i + 1], t, g[i], u)
      BY <2>3, <3>1, LikeEquivalence
    <3>3. Like(k, g[i], u, g[i + 1], u)
      BY <3>1, LikeEquivalence
    <3> QED BY <3>2, <3>3, LikeEquivalence
  <2> QED BY <2>5, <2>6
<1> HIDE DEF T
<1>8. n \in T
  BY <1>1, <1>6, <1>7, NumberInduction
<1>9. Like(k, f[n], t, g[n], u)
  BY <1>1, <1>8 DEF T
<1> QED BY <1>2, <1>3, <1>9

-----------------------------------------------------------------------------
(* The commands under way, and what a replay makes of the log              *)

\* What has expired stays so.
LEMMA GoneLater ==
  ASSUME NEW m, IsStore(m), NEW k \in DOMAIN m, NEW t \in Nat, NEW u \in Nat, t <= u,
         gone(m[k], t)
  PROVE  gone(m[k], u)
<1>1. m[k].expire_at \in Nat \cup {None}
  BY DEF IsStore, Entry
<1> QED BY <1>1 DEF gone

\* Dropping what has expired is not seen.
LEMMA DroppedLike ==
  ASSUME NEW m, IsStore(m), NEW d, Part(d, m), NEW k, NEW t \in Nat, NEW u \in Nat, t <= u,
         k \in DOMAIN m /\ k \notin DOMAIN d => gone(m[k], t)
  PROVE  Like(k, d, u, m, u)
<1>1. k \in DOMAIN m /\ k \notin DOMAIN d => gone(m[k], u)
  BY GoneLater
<1> QED BY <1>1 DEF Part, Like, Sees

\* Who sees the same of every key sees the same of one.
LEMMA VisibleLike ==
  ASSUME NEW m, NEW d, NEW t, Visible(m, t) = Visible(d, t), NEW k
  PROVE  Like(k, d, t, m, t)
<1>1. DOMAIN Visible(m, t) = {j \in DOMAIN m : ~gone(m[j], t)}
      /\ DOMAIN Visible(d, t) = {j \in DOMAIN d : ~gone(d[j], t)}
  BY DEF Visible
<1>2. Sees(d, k, t) <=> Sees(m, k, t)
  BY <1>1 DEF Sees
<1>3. Sees(d, k, t) => Visible(d, t)[k] = d[k] /\ Visible(m, t)[k] = m[k]
  BY <1>2 DEF Sees, Visible
<1> QED BY <1>2, <1>3 DEF Like

\* What the commands that only read call, and that they are not logged.
LEMMA ReaderCalls ==
  ASSUME NEW q \in Query, q.op \in Reads, NEW got
  PROVE  /\ next_call(q, got).fn \in {"get", "exists", "now", "keys", "len", "outcome"}
         /\ next_call(q, got).fn = "outcome" => ~next_call(q, got).persist
<1>1. next_call(q, got) \in {mget(q, got), exists(q, got), keys_cmd(q, got), dbsize(q, got)}
  BY DEF next_call, Reads
<1>2. /\ dbsize(q, got).fn \in {"len", "outcome"}
      /\ dbsize(q, got).fn = "outcome" => ~dbsize(q, got).persist
  BY DEF dbsize, to_shard, outcome
<1>3. /\ mget(q, got).fn \in {"get", "outcome"}
      /\ mget(q, got).fn = "outcome" => ~mget(q, got).persist
  BY DEF mget, to_key, outcome
<1>4. /\ exists(q, got).fn \in {"exists", "outcome"}
      /\ exists(q, got).fn = "outcome" => ~exists(q, got).persist
  BY DEF exists, to_key, outcome
<1>5. /\ keys_cmd(q, got).fn \in {"now", "keys", "outcome"}
      /\ keys_cmd(q, got).fn = "outcome" => ~keys_cmd(q, got).persist
  BY DEF keys_cmd, to_shard, clock, outcome
<1> QED BY <1>1, <1>2, <1>3, <1>4, <1>5

\* The command may not write under k.
Apart(q, k) == q.op \in Reads \/ k \notin scope(q)

\* Then its calls do not change what clients see there.
LEMMA CallSeen ==
  ASSUME NEW m, IsStore(m), NEW q \in Query, NEW got \in Seq(Result), Fit(q, got),
         IsCall(next_call(q, got)), next_call(q, got).fn # "outcome",
         NEW k \in Keys, Apart(q, k), NEW t \in Nat, NEW u \in Nat, t <= u
  PROVE  Like(k, perform(m, next_call(q, got), t).db, u, m, u)
<1> DEFINE c == next_call(q, got)
<1>1. ASSUME Same(k, perform(m, c, t).db, m)
      PROVE  Like(k, perform(m, c, t).db, u, m, u)
  BY <1>1, SameSame
<1>2. CASE q.op \in Reads
  <2>1. c.fn \in {"get", "exists", "now", "keys", "len"}
    BY <1>2, ReaderCalls
  <2>2. CASE c.fn \in {"now", "keys", "len"}
    BY <1>1, <2>2, CallElsewhere
  <2>3. CASE c.fn \in {"get", "exists"}
    <3>1. c.fn \in KeyCalls
      BY <2>3 DEF KeyCalls, Reading
    <3>2. CASE c.key # k
      BY <1>1, <3>1, <3>2, CallElsewhere
    <3>3. CASE c.key = k
      <4>1. perform(m, c, t).db = live(m, k, t)
        BY <2>3, <3>3 DEF perform, on_key
      <4>2. /\ Part(live(m, k, t), m)
            /\ \A j \in DOMAIN m : j \notin DOMAIN live(m, k, t) => gone(m[j], t)
        BY LiveFacts
      <4> QED BY <4>1, <4>2, DroppedLike
    <3> QED BY <3>2, <3>3
  <2> QED BY <2>1, <2>2, <2>3
<1>3. CASE q.op \notin Reads
  <2>1. k \notin scope(q)
    BY <1>3 DEF Apart
  <2>2. Writing(q, c)
    BY <1>3, WriterCalls
  <2>3. q.op # "FLUSHALL"
    BY <2>1, ScopeFacts DEF Whole
  <2>4. c.fn = "now" \/ (c.fn \in KeyCalls /\ c.key # k)
    BY <2>1, <2>2, <2>3 DEF Writing
  <2> QED BY <1>1, <2>4, CallElsewhere
<1> QED BY <1>2, <1>3

\* x and y are of the same command after the same calls.
Still(x, y) == y.q = x.q /\ y.got = x.got /\ y.at = x.at /\ y.dirty = x.dirty

\* The steps of others that are not seen under k.
LEMMA ProgressKept ==
  ASSUME NEW x, NEW y, Still(x, y), NEW k, NEW t, NEW m, NEW d, IsStore(d),
         Like(k, d, t, m, t), NEW r, NEW s, Like(k, s, t, r, t), Progress(x, k, m, t, r)
  PROVE  Progress(y, k, d, t, s)
<1>1. PICK a : /\ IsStore(a) /\ Like(k, a, t, r, t)
               /\ LikeRuns(k, x.q, [db |-> m, got |-> x.got], t,
                           calls_alone(a, x.q, t)[Len(x.got)], t)
  BY DEF Progress
<1> DEFINE z == calls_alone(a, x.q, t)[Len(x.got)]
           v == [db |-> m, got |-> x.got]
           w == [db |-> d, got |-> x.got]
<1> HIDE DEF z
<1>2. v.db = m /\ v.got = x.got /\ w.db = d /\ w.got = x.got
  OBVIOUS
<1>3. LikeRuns(k, x.q, v, t, z, t)
  BY <1>1 DEF z
<1> HIDE DEF v, w
<1>4. IsRun(x.q, w) /\ IsRun(x.q, z)
  BY <1>2, <1>3 DEF LikeRuns, IsRun
<1>5. Like(k, w.db, t, z.db, t) /\ LikeResults(x.q, w.got, t, z.got, t)
  BY <1>2, <1>3, LikeEquivalence DEF LikeRuns
<1>6. LikeRuns(k, x.q, w, t, z, t)
  BY <1>4, <1>5 DEF LikeRuns
<1>7. Like(k, a, t, s, t)
  BY <1>1, LikeEquivalence
<1>8. /\ y.at = t /\ Len(y.got) \in 0..most_calls(y.q)
      /\ ~y.dirty => Like(k, d, t, s, t)
  <2>1. /\ x.at = t /\ Len(x.got) \in 0..most_calls(x.q)
        /\ ~x.dirty => Like(k, m, t, r, t)
    BY DEF Progress
  <2>2. Like(k, m, t, r, t) => Like(k, d, t, s, t)
    BY LikeEquivalence
  <2> QED BY <2>1, <2>2 DEF Still
<1>9. LikeRuns(k, y.q, [db |-> d, got |-> y.got], t, calls_alone(a, y.q, t)[Len(y.got)], t)
  BY <1>6 DEF Still, w, z
<1> QED BY <1>1, <1>7, <1>8, <1>9 DEF Progress

\* A command that begins.
LEMMA ProgressBegun ==
  ASSUME NEW y, NEW t \in Nat, NEW n, Begun(y, t, n), NEW k, NEW m, IsStore(m),
         NEW r, Like(k, m, t, r, t)
  PROVE  Progress(y, k, m, t, r)
<1>1. y.q \in Query /\ y.got = <<>> /\ Len(y.got) = 0 /\ y.at = t
  BY DEF Begun, ConnRec
<1> DEFINE q == y.q
           s == [db |-> m, got |-> <<>>]
<1>2. calls_alone(m, q, t)[0] = s /\ IsRun(q, s)
  BY <1>1, RunBegins
<1>3. s.db = m /\ s.got = <<>> /\ LikeResults(q, <<>>, t, <<>>, t)
  BY DEF LikeResults
<1>4. most_calls(q) \in Nat
  BY <1>1, MostCalls
<1>5. 0 \in 0..most_calls(q)
  BY <1>4
<1> HIDE DEF s, q
<1>6. LikeRuns(k, q, s, t, s, t)
  BY <1>2, <1>3, LikeEquivalence DEF LikeRuns
<1>7. LikeRuns(k, q, [db |-> m, got |-> y.got], t, calls_alone(m, q, t)[Len(y.got)], t)
  BY <1>1, <1>2, <1>6 DEF s
<1> QED BY <1>1, <1>5, <1>7 DEF Progress, q

\* A call of its own.
LEMMA ProgressCall ==
  ASSUME NEW x, NEW y, NEW m, NEW d, NEW t, CallMade(x, y, m, d, t, t),
         x.q.op \notin Reads, NEW k \in scope(x.q), NEW r, Progress(x, k, m, t, r)
  PROVE  Progress(y, k, d, t, r)
<1> DEFINE q == x.q
           n == Len(x.got)
           c == next_call(q, x.got)
           s == [db |-> m, got |-> x.got]
           z == [db |-> d, got |-> y.got]
<1>1. /\ q \in Query /\ x.got \in Seq(Result) /\ Fit(q, x.got) /\ t \in Nat
      /\ c.fn # "outcome" /\ perform(m, c, t).res \in Result
      /\ d = perform(m, c, t).db /\ y.got = Append(x.got, perform(m, c, t).res)
      /\ y.q = q /\ y.at = t
  BY DEF CallMade
<1>2. y.dirty = (x.dirty \/ Visible(m, t) # Visible(d, t))
  BY DEF CallMade, Called
<1>3. PICK a : /\ IsStore(a) /\ Like(k, a, t, r, t)
               /\ LikeRuns(k, q, s, t, calls_alone(a, q, t)[n], t)
  BY DEF Progress
<1>4. n \in Nat /\ n < most_calls(q) /\ Len(y.got) = n + 1 /\ most_calls(q) \in Nat
  BY <1>1, WriterCalls, OneMore, MostCalls
<1>5. step_alone(s, q, t) = z
  BY <1>1 DEF step_alone
<1>6. calls_alone(a, q, t)[n + 1] = step_alone(calls_alone(a, q, t)[n], q, t)
  BY <1>1, <1>4, CallsNext
<1>7. Timeless(q, t, t)
  BY DEF Timeless
<1> HIDE DEF s, z, n, c
<1>8. LikeRuns(k, q, z, t, calls_alone(a, q, t)[n + 1], t)
  BY <1>1, <1>3, <1>5, <1>6, <1>7, SameStep
<1>9. ~y.dirty => Like(k, d, t, r, t)
  <2>1. ~x.dirty => Like(k, m, t, r, t)
    BY DEF Progress
  <2>2. Visible(m, t) = Visible(d, t) => Like(k, d, t, m, t)
    BY VisibleLike
  <2> QED BY <1>2, <2>1, <2>2, LikeEquivalence
<1>10. Len(y.got) \in 0..most_calls(q)
  BY <1>4
<1>11. LikeRuns(k, y.q, [db |-> d, got |-> y.got], t, calls_alone(a, y.q, t)[Len(y.got)], t)
  BY <1>1, <1>4, <1>8 DEF z
<1> HIDE DEF q
<1>12. y.at = t /\ Len(y.got) \in 0..most_calls(y.q)
  BY <1>1, <1>10
<1> QED BY <1>3, <1>9, <1>11, <1>12 DEF Progress

\* When it has its outcome, what it has made of the store is what a replay makes.
LEMMA ProgressDone ==
  ASSUME NEW x, x.q \in Query, x.got \in Seq(Result), Fit(x.q, x.got), x.q.op \notin Reads,
         NEW k \in scope(x.q), NEW t \in Nat, NEW m, NEW r, IsStore(r), Progress(x, k, m, t, r),
         next_call(x.q, x.got).fn = "outcome"
  PROVE  Like(k, m, t, run_alone(r, x.q, t), t)
<1> DEFINE q == x.q
           n == Len(x.got)
           s == [db |-> m, got |-> x.got]
<1>1. PICK a : /\ IsStore(a) /\ Like(k, a, t, r, t)
               /\ LikeRuns(k, q, s, t, calls_alone(a, q, t)[n], t)
  BY DEF Progress
<1> DEFINE z == calls_alone(a, q, t)[n]
<1>2. n \in 0..most_calls(q) /\ Timeless(q, t, t)
  BY DEF Progress, Timeless
<1>3. s.db = m /\ s.got = x.got
  OBVIOUS
<1> HIDE DEF s, z, n
<1>4. /\ IsRun(q, z) /\ Like(k, m, t, z.db, t) /\ LikeResults(q, x.got, t, z.got, t)
  BY <1>1, <1>3 DEF LikeRuns, z
<1>5. LikeNext(next_call(q, x.got), next_call(q, z.got))
  BY <1>2, <1>4, SameNext DEF IsRun
<1>6. next_call(q, z.got).fn = "outcome"
  BY <1>5 DEF LikeNext
<1>7. run_alone(a, q, t) = z.db
  BY <1>1, <1>2, <1>6, RunEnds DEF z
<1>8. Like(k, run_alone(a, q, t), t, run_alone(r, q, t), t)
  BY <1>1, <1>2, SameRuns
<1> QED BY <1>4, <1>7, <1>8, LikeEquivalence

-----------------------------------------------------------------------------
(* The invariant of the replay                                             *)

\* A connection goes on as it was, or has nothing to write under k before and
\* after the step.
Aside(x, y, k) ==
  \/ x.busy = y.busy /\ (x.busy => Still(x, y))
  \/ (x.busy => Apart(x.q, k)) /\ (y.busy => Apart(y.q, k))

\* A step that is not seen under k, neither in the store nor in the replay.
LEMMA KeyFrame ==
  ASSUME NEW k, KeyReplayed(k), now' = now, IsStore(db'), Like(k, db', now, db, now),
         Like(k, replay_log(loaded', log', now), now, replay_log(loaded, log, now), now),
         \A c \in Conns : Aside(conn[c], conn'[c], k)
  PROVE  KeyReplayed(k)'
<1> DEFINE r == replay_log(loaded, log, now)
           s == replay_log(loaded', log', now)
<1>1. /\ (\A c \in Writers : k \notin scope(conn[c].q)) => Like(k, db, now, r, now)
      /\ \A c \in Writers : k \in scope(conn[c].q) => Progress(conn[c], k, db, now, r)
  BY DEF KeyReplayed, Replayed
<1> SUFFICES /\ (\A c \in Writers' : k \notin scope(conn'[c].q)) => Like(k, db', now, s, now)
             /\ \A c \in Writers' : k \in scope(conn'[c].q) => Progress(conn'[c], k, db', now, s)
  BY DEF KeyReplayed, Replayed
<1> HIDE DEF r, s
<1>2. /\ \A c : c \in Writers <=> c \in Conns /\ conn[c].busy /\ conn[c].q.op \notin Reads
      /\ \A c : c \in Writers' <=> c \in Conns /\ conn'[c].busy /\ conn'[c].q.op \notin Reads
  BY DEF Writers, Busy
<1>3. Like(k, s, now, r, now)
  BY DEF r, s
<1>4. ASSUME \A c \in Writers' : k \notin scope(conn'[c].q) PROVE Like(k, db', now, s, now)
  <2>1. ASSUME NEW c \in Writers, k \in scope(conn[c].q) PROVE FALSE
    <3>1. c \in Conns /\ conn[c].busy /\ conn[c].q.op \notin Reads
      BY <1>2
    <3>2. ~Apart(conn[c].q, k)
      BY <2>1, <3>1 DEF Apart
    <3>3. conn'[c].busy /\ conn'[c].q = conn[c].q
      BY <3>1, <3>2 DEF Aside, Still
    <3> QED BY <1>2, <1>4, <2>1, <3>1, <3>3
  <2>2. Like(k, db, now, r, now)
    BY <1>1, <2>1
  <2> QED BY <1>3, <2>2, LikeEquivalence
<1>5. ASSUME NEW c \in Writers', k \in scope(conn'[c].q)
      PROVE  Progress(conn'[c], k, db', now, s)
  <2>1. c \in Conns /\ conn'[c].busy /\ conn'[c].q.op \notin Reads
    BY <1>2
  <2>2. ~Apart(conn'[c].q, k)
    BY <1>5, <2>1 DEF Apart
  <2>3. conn[c].busy /\ Still(conn[c], conn'[c])
    BY <2>1, <2>2 DEF Aside
  <2>4. c \in Writers /\ k \in scope(conn[c].q)
    BY <1>2, <1>5, <2>1, <2>3 DEF Still
  <2>5. Progress(conn[c], k, db, now, r)
    BY <1>1, <2>4
  <2> QED BY <1>3, <2>3, <2>5, ProgressKept
<1> QED BY <1>4, <1>5

\* What the invariant says of the log, of the commands under way and of a key.
LogInv == IsStore(loaded) /\ \A i \in 1..Len(log) : log[i].op \notin Reads

PairInv ==
  \A c, d \in Writers : c # d => scope(conn[c].q) \cap scope(conn[d].q) \subseteq mixed

KeysInv == \A k \in Keys \ (mixed \cup Timed) : KeyReplayed(k)

\* Facts about the log and the store in a state of the invariants.
LEMMA ReplayFacts ==
  ASSUME Inv, LogInv
  PROVE  /\ IsStore(db) /\ now \in Nat /\ log \in Seq(Query) /\ IsLog(log)
         /\ DOMAIN log = 1..Len(log) /\ Len(log) \in Nat
         /\ \A t \in Nat : IsStore(replay_log(loaded, log, t))
<1>1. IsStore(db) /\ now \in Nat /\ log \in Seq(Query)
  BY Bounds DEF Inv, TypeInv
<1>2. IsLog(log)
  BY <1>1 DEF IsLog, LogInv
<1>3. \A t \in Nat : IsStore(replay_log(loaded, log, t))
  BY <1>2, ReplayStore DEF LogInv
<1> QED BY <1>1, <1>2, <1>3, LenProperties

\* Connections that a step only watches go on as they were.
LEMMA WatchedAside ==
  ASSUME NEW x, NEW y, NEW m, NEW d, NEW k,
         (x = Idle /\ y = Idle) \/ Watched(x, y, m, d)
  PROVE  Aside(x, y, k)
<1>1. CASE x = Idle /\ y = Idle
  BY <1>1, IdleOrBusy DEF Aside
<1>2. CASE Watched(x, y, m, d)
  BY <1>2, IdleOrBusy DEF Watched, Aside, Still
<1> QED BY <1>1, <1>2

\* Who writes after a step in which every connection is watched, or ends.
LEMMA PairsKept ==
  ASSUME PairInv, mixed \subseteq mixed',
         \A c \in Conns : conn'[c].busy => conn[c].busy /\ conn'[c].q = conn[c].q
  PROVE  PairInv'
<1>1. /\ \A c : c \in Writers <=> c \in Conns /\ conn[c].busy /\ conn[c].q.op \notin Reads
      /\ \A c : c \in Writers' <=> c \in Conns /\ conn'[c].busy /\ conn'[c].q.op \notin Reads
  BY DEF Writers, Busy
<1>2. \A c \in Writers' : c \in Writers /\ conn'[c].q = conn[c].q
  BY <1>1
<1> QED BY <1>2 DEF PairInv

\* A writer of k, when k is not mixed, is the only one.
LEMMA OneWriter ==
  ASSUME PairInv, NEW k, k \notin mixed, NEW c \in Writers, NEW d \in Writers,
         k \in scope(conn[c].q), k \in scope(conn[d].q)
  PROVE  c = d
  BY DEF PairInv

\* A request begins.
LEMMA ReplayStart ==
  ASSUME Inv, LogInv, PairInv, KeysInv, NEW e \in Conns, Start(e)
  PROVE  LogInv' /\ PairInv' /\ KeysInv'
<1>1. /\ db' = db /\ now' = now /\ log' = log /\ loaded' = loaded /\ ~conn[e].busy
  BY DEF Start
<1>2. /\ conn' \in [Conns -> {Idle} \cup ConnRec] /\ Begun(conn'[e], now, used + 1)
      /\ \A d \in Conns : d # e => conn'[d] = conn[d]
  BY StartStep DEF Inv
<1>3. /\ mixed \subseteq mixed'
      /\ \A d \in Busy : {conn'[e].q.op, conn[d].q.op} \cap Reads = {} =>
           scope(conn'[e].q) \cap scope(conn[d].q) \subseteq mixed'
  <2>1. PICK r \in Requests[e] :
          LET q == numbered(r, used + 1)
              clash == {d \in Busy : {q.op, conn[d].q.op} \cap Reads = {}}
          IN /\ conn' = [conn EXCEPT ![e] =
                  [busy |-> TRUE, q |-> q, got |-> <<>>, at |-> now,
                   always |-> Visibly(db, now), ever |-> DOMAIN db, others |-> {},
                   dirty |-> FALSE]]
             /\ mixed' = mixed \cup UNION {scope(q) \cap scope(conn[d].q) : d \in clash}
    BY DEF Start
  <2> DEFINE q == numbered(r, used + 1)
  <2>2. conn'[e].q = q
    BY <2>1 DEF Inv, TypeInv
  <2> HIDE DEF q
  <2>3. mixed' = mixed \cup UNION {scope(q) \cap scope(conn[d].q) :
                                      d \in {d \in Busy : {q.op, conn[d].q.op} \cap Reads = {}}}
    BY <2>1 DEF q
  <2> QED BY <2>2, <2>3
<1>4. conn'[e] \in ConnRec /\ conn'[e].busy /\ conn'[e].q \in Query
  BY <1>2, IdleOrBusy DEF Begun, ConnRec
<1>5. /\ \A c : c \in Writers <=> c \in Conns /\ conn[c].busy /\ conn[c].q.op \notin Reads
      /\ \A c : c \in Writers' <=> c \in Conns /\ conn'[c].busy /\ conn'[c].q.op \notin Reads
  BY DEF Writers, Busy
<1>6. ASSUME NEW c \in Writers', c # e PROVE c \in Writers /\ c \in Busy /\ conn'[c] = conn[c]
  BY <1>2, <1>5, <1>6 DEF Busy
<1>7. ASSUME NEW d \in Writers', d # e, conn'[e].q.op \notin Reads
      PROVE  scope(conn'[e].q) \cap scope(conn'[d].q) \subseteq mixed'
  <2>1. d \in Busy /\ conn'[d] = conn[d] /\ conn[d].q.op \notin Reads
    BY <1>5, <1>6, <1>7
  <2>2. {conn'[e].q.op, conn[d].q.op} \cap Reads = {}
    BY <1>7, <2>1
  <2> QED BY <1>3, <2>1, <2>2
<1>8. PairInv'
  <2> SUFFICES ASSUME NEW c \in Writers', NEW d \in Writers', c # d
               PROVE  scope(conn'[c].q) \cap scope(conn'[d].q) \subseteq mixed'
    BY DEF PairInv
  <2>1. CASE c # e /\ d # e
    BY <1>3, <1>6, <2>1 DEF PairInv
  <2>2. CASE c = e
    BY <1>5, <1>7, <2>2
  <2>3. CASE d = e
    BY <1>5, <1>7, <2>3
  <2> QED BY <2>1, <2>2, <2>3
<1>9. LogInv'
  BY <1>1 DEF LogInv
<1>10. Timed' = Timed
  BY <1>1 DEF Timed
<1>11. ASSUME NEW k \in Keys, k \notin mixed', k \notin Timed PROVE KeyReplayed(k)'
  <2>1. KeyReplayed(k)
    BY <1>3, <1>11 DEF KeysInv
  <2>2. IsStore(db) /\ now \in Nat
    BY ReplayFacts
  <2>3. CASE Apart(conn'[e].q, k)
    <3>1. \A c \in Conns : Aside(conn[c], conn'[c], k)
      BY <1>1, <1>2, <2>3 DEF Aside, Still
    <3> QED BY <1>1, <2>1, <2>2, <3>1, KeyFrame, LikeEquivalence
  <2>4. CASE ~Apart(conn'[e].q, k)
    <3> DEFINE r == replay_log(loaded, log, now)
    <3>1. conn'[e].q.op \notin Reads /\ k \in scope(conn'[e].q)
      BY <2>4 DEF Apart
    <3>2. \A d \in Writers' : d # e => k \notin scope(conn'[d].q)
      BY <1>7, <1>11, <3>1
    <3>3. \A d \in Writers : k \notin scope(conn[d].q)
      <4> SUFFICES ASSUME NEW d \in Writers PROVE k \notin scope(conn[d].q)
        OBVIOUS
      <4>1. d # e /\ d \in Conns /\ conn'[d] = conn[d] /\ d \in Writers'
        BY <1>1, <1>2, <1>5
      <4> QED BY <3>2, <4>1
    <3>4. Like(k, db, now, r, now)
      BY <2>1, <3>3 DEF KeyReplayed, Replayed
    <3>5. Progress(conn'[e], k, db, now, r)
      BY <1>2, <2>2, <3>4, ProgressBegun
    <3>6. e \in Writers'
      BY <1>4, <1>5, <3>1
    <3>7. r = replay_log(loaded', log', now')
      BY <1>1
    <3> HIDE DEF r
    <3>8. \A d \in Writers' : k \in scope(conn'[d].q) => Progress(conn'[d], k, db', now', r)
      BY <1>1, <3>2, <3>5
    <3> QED BY <3>1, <3>6, <3>7, <3>8 DEF KeyReplayed, Replayed
  <2> QED BY <2>3, <2>4
<1>12. KeysInv'
  BY <1>10, <1>11 DEF KeysInv
<1> QED BY <1>8, <1>9, <1>12

\* A call.
LEMMA ReplayCall ==
  ASSUME Inv, LogInv, PairInv, KeysInv, NEW e \in Conns, Call(e)
  PROVE  LogInv' /\ PairInv' /\ KeysInv'
<1> DEFINE x == conn[e]
           y == conn'[e]
<1>1. now' = now /\ log' = log /\ loaded' = loaded /\ mixed' = mixed
  BY DEF Call
<1>2. /\ IsStore(db') /\ x \in ConnRec
      /\ \E t \in x.at..now : Called(x, y, db, db', t, now)
      /\ \A d \in Conns : d # e => \/ conn[d] = Idle /\ conn'[d] = Idle
                                   \/ Watched(conn[d], conn'[d], db, db')
  BY CallStep DEF Inv
<1>3. PICK t \in x.at..now : Called(x, y, db, db', t, now)
  BY <1>2
<1>4. e \in Busy /\ IsStore(db) /\ now \in Nat /\ ConnOK(x, now, used)
  BY BusyFacts, ReplayFacts DEF Call, Busy
<1>5. CallMade(x, y, db, db', t, now)
  BY <1>3, <1>4, CallFacts
<1>6. y \in ConnRec /\ y.q = x.q /\ x.q \in Query /\ t \in Nat /\ x.at <= t /\ t <= now
      /\ x.busy /\ y.busy
  BY <1>2, <1>5, IdleOrBusy DEF CallMade
<1>7. PairInv'
  <2>1. \A c \in Conns : conn'[c].busy => conn[c].busy /\ conn'[c].q = conn[c].q
    BY <1>2, <1>6, IdleOrBusy DEF Watched
  <2> QED BY <1>1, <2>1, PairsKept
<1>8. LogInv' /\ Timed' = Timed
  BY <1>1 DEF LogInv, Timed
<1>9. \A c : c \in Writers' <=> c \in Conns /\ conn'[c].busy /\ conn'[c].q.op \notin Reads
  BY DEF Writers, Busy
<1>10. ASSUME NEW k \in Keys, k \notin mixed, k \notin Timed PROVE KeyReplayed(k)'
  <2>1. KeyReplayed(k)
    BY <1>10 DEF KeysInv
  <2>2. CASE Apart(x.q, k)
    <3>1. Like(k, db', now, db, now)
      BY <1>4, <1>5, <1>6, <2>2, CallSeen DEF CallMade
    <3>2. \A c \in Conns : Aside(conn[c], conn'[c], k)
      <4> SUFFICES ASSUME NEW c \in Conns PROVE Aside(conn[c], conn'[c], k)
        OBVIOUS
      <4>1. CASE c = e
        BY <1>6, <2>2, <4>1 DEF Aside
      <4>2. CASE c # e
        BY <1>2, <4>2, WatchedAside
      <4> QED BY <4>1, <4>2
    <3> QED BY <1>1, <1>2, <2>1, <3>1, <3>2, KeyFrame, LikeEquivalence
  <2>3. CASE ~Apart(x.q, k)
    <3> DEFINE r == replay_log(loaded, log, now)
    <3>1. x.q.op \notin Reads /\ k \in scope(x.q)
      BY <2>3 DEF Apart
    <3>2. e \in Writers /\ e \in Writers'
      BY <1>4, <1>6, <1>9, <3>1 DEF Writers
    <3>3. Progress(x, k, db, now, r)
      BY <2>1, <3>1, <3>2 DEF KeyReplayed, Replayed
    <3>4. t = now
      <4>1. x.at = now
        BY <3>3 DEF Progress
      <4> QED BY <1>4, <1>6, <4>1
    <3>5. Progress(y, k, db', now, r)
      BY <1>5, <3>1, <3>3, <3>4, ProgressCall
    <3>6. \A d \in Writers' : k \in scope(conn'[d].q) => d = e
      BY <1>1, <1>6, <1>7, <1>10, <3>1, <3>2 DEF PairInv
    <3>7. r = replay_log(loaded', log', now')
      BY <1>1
    <3> HIDE DEF r
    <3>8. \A d \in Writers' : k \in scope(conn'[d].q) => Progress(conn'[d], k, db', now', r)
      BY <1>1, <3>5, <3>6
    <3>9. k \in scope(conn'[e].q)
      BY <1>6, <3>1
    <3> QED BY <3>2, <3>7, <3>8, <3>9 DEF KeyReplayed, Replayed
  <2> QED BY <2>2, <2>3
<1>11. KeysInv'
  BY <1>1, <1>8, <1>10 DEF KeysInv
<1> QED BY <1>7, <1>8, <1>11

\* The keys that the clock decides about stay so, when a request is logged.
LEMMA TimedMore ==
  ASSUME NEW m, NEW qs \in Seq(Query), NEW q \in Query, NEW t
  PROVE  TimedAt(m, qs, t) \subseteq TimedAt(m, Append(qs, q), t)
<1> DEFINE n == Len(qs)
           more == Append(qs, q)
           Counts(p) == p.time # None /\ (p.absolute => p.time <= t)
<1>1. /\ n \in Nat /\ DOMAIN qs = 1..n /\ DOMAIN more = 1..(n + 1)
      /\ \A i \in 1..n : more[i] = qs[i]
  BY AppendProperties, LenProperties
<1>2. /\ TimedAt(m, qs, t) = {k \in DOMAIN m : gone(m[k], t)} \cup
           UNION {scope(qs[i]) : i \in {j \in DOMAIN qs : Counts(qs[j])}}
      /\ TimedAt(m, more, t) = {k \in DOMAIN m : gone(m[k], t)} \cup
           UNION {scope(more[i]) : i \in {j \in DOMAIN more : Counts(more[j])}}
  BY DEF TimedAt
<1> HIDE DEF n, more, Counts
<1>3. \A i \in 1..n : i \in 1..(n + 1)
  BY <1>1
<1> QED BY <1>1, <1>2, <1>3 DEF more

\* And when time passes.
LEMMA TimedLater ==
  ASSUME NEW m, IsStore(m), NEW qs \in Seq(Query), NEW t \in Nat, NEW u \in Nat, t <= u
  PROVE  TimedAt(m, qs, t) \subseteq TimedAt(m, qs, u)
<1>1. \A k \in DOMAIN m : gone(m[k], t) => gone(m[k], u)
  BY GoneLater
<1>2. ASSUME NEW j \in DOMAIN qs, qs[j].time # None, qs[j].absolute => qs[j].time <= t
      PROVE  qs[j].absolute => qs[j].time <= u
  <2>1. qs[j] \in Query
    BY LenProperties, ElementOfSeq
  <2>2. qs[j].time \in Int
    BY <1>2, <2>1 DEF Query
  <2> QED BY <1>2, <2>2
<1> QED BY <1>1, <1>2 DEF TimedAt

\* A command ends, and is logged or not.
LEMMA ReplayFinish ==
  ASSUME Inv, LogInv, PairInv, KeysInv, NEW e \in Conns, Finish(e)
  PROVE  LogInv' /\ PairInv' /\ KeysInv'
<1> DEFINE x == conn[e]
           q == x.q
           o == next_call(q, x.got)
           r == replay_log(loaded, log, now)
           s == replay_log(loaded', log', now)
<1>1. /\ now' = now /\ db' = db /\ loaded' = loaded /\ mixed' = mixed
      /\ conn' = [conn EXCEPT ![e] = Idle] /\ x.busy /\ o.fn = "outcome"
      /\ log' = IF o.persist THEN Append(log, q) ELSE log
  BY DEF Finish
<1>2. e \in Busy /\ q \in Query /\ x.got \in Seq(Result) /\ Fit(q, x.got)
  BY <1>1, BusyFacts DEF Busy
<1>3. /\ IsStore(db) /\ now \in Nat /\ log \in Seq(Query) /\ IsLog(log) /\ IsStore(r)
      /\ Len(log) \in Nat
  BY ReplayFacts
<1>4. conn'[e] = Idle /\ \A d \in Conns : d # e => conn'[d] = conn[d]
  BY <1>1 DEF Inv, TypeInv
<1>5. o.persist => q.op \notin Reads
  BY <1>1, <1>2, ReaderCalls
<1>6. o \in Outcomes(e)
  BY <1>1 DEF Outcomes
<1>7. x.dirty => o.persist
  BY <1>2, <1>6, Persisted DEF PersistComplete
<1>8. \/ o.persist /\ log' = Append(log, q) /\ s = run_alone(r, q, now)
      \/ ~o.persist /\ log' = log /\ s = r
  BY <1>1, <1>2, <1>3, ReplayMore
<1> HIDE DEF o, q, r, s
<1>9. LogInv'
  <2>1. CASE log' = log
    BY <1>1, <2>1 DEF LogInv
  <2>2. CASE o.persist /\ log' = Append(log, q)
    <3>1. /\ Len(log') = Len(log) + 1 /\ log'[Len(log) + 1] = q
          /\ \A i \in 1..Len(log) : log'[i] = log[i]
      BY <1>2, <1>3, <2>2, AppendProperties
    <3>2. \A i \in 1..Len(log') : i \in 1..Len(log) \/ i = Len(log) + 1
      BY <1>3, <3>1
    <3>3. \A i \in 1..Len(log') : log'[i].op \notin Reads
      BY <1>5, <2>2, <3>1, <3>2 DEF LogInv
    <3> QED BY <1>1, <3>3 DEF LogInv
  <2> QED BY <1>8, <2>1, <2>2
<1>10. PairInv'
  <2>1. \A c \in Conns : conn'[c].busy => conn[c].busy /\ conn'[c].q = conn[c].q
    BY <1>4, IdleOrBusy
  <2> QED BY <1>1, <2>1, PairsKept
<1>11. Timed \subseteq Timed'
  <2>1. Timed = TimedAt(loaded, log, now) /\ Timed' = TimedAt(loaded', log', now')
    BY DEF Timed, TimedAt
  <2>2. CASE log' = log
    BY <1>1, <2>1, <2>2
  <2>3. CASE log' = Append(log, q)
    BY <1>1, <1>2, <1>3, <2>1, <2>3, TimedMore
  <2> QED BY <1>8, <2>2, <2>3
<1>12. ASSUME NEW k \in Keys, k \notin mixed, k \notin Timed PROVE KeyReplayed(k)'
  <2>1. KeyReplayed(k)
    BY <1>12 DEF KeysInv
  <2>2. CASE Apart(q, k)
    <3>1. Like(k, s, now, r, now)
      <4>1. CASE s = r
        BY <4>1, LikeEquivalence
      <4>2. CASE o.persist /\ s = run_alone(r, q, now)
        <5>1. k \notin scope(q) /\ q.op \notin Reads
          BY <1>5, <2>2, <4>2 DEF Apart
        <5> QED BY <1>2, <1>3, <4>2, <5>1, RunElsewhere
      <4> QED BY <1>8, <4>1, <4>2
    <3>2. \A c \in Conns : Aside(conn[c], conn'[c], k)
      BY <1>4, <2>2, IdleOrBusy DEF Aside, Still, q
    <3>3. Like(k, replay_log(loaded', log', now), now, replay_log(loaded, log, now), now)
      BY <3>1 DEF r, s
    <3> QED BY <1>1, <1>3, <2>1, <3>2, <3>3, KeyFrame, LikeEquivalence
  <2>3. CASE ~Apart(q, k)
    <3>1. q.op \notin Reads /\ k \in scope(q)
      BY <2>3 DEF Apart
    <3>2. e \in Writers
      BY <1>2, <3>1 DEF Writers, q
    <3>3. Progress(x, k, db, now, r)
      BY <2>1, <3>1, <3>2 DEF KeyReplayed, Replayed, q, r
    <3>4. Like(k, db, now, s, now)
      <4>1. CASE s = run_alone(r, q, now)
        BY <1>1, <1>2, <1>3, <3>1, <3>3, <4>1, ProgressDone DEF q, o
      <4>2. CASE ~o.persist /\ s = r
        BY <1>7, <3>3, <4>2 DEF Progress
      <4> QED BY <1>8, <4>1, <4>2
    <3>5. \A d \in Writers' : k \notin scope(conn'[d].q)
      <4> SUFFICES ASSUME NEW d \in Writers', k \in scope(conn'[d].q) PROVE FALSE
        OBVIOUS
      <4>1. d \in Conns /\ conn'[d].busy /\ conn'[d].q.op \notin Reads
        BY DEF Writers, Busy
      <4>2. d # e /\ conn'[d] = conn[d]
        BY <1>4, <4>1, IdleOrBusy
      <4>3. d \in Writers
        BY <4>1, <4>2 DEF Writers, Busy
      <4> QED BY <1>12, <3>1, <3>2, <4>2, <4>3, OneWriter DEF q
    <3> QED BY <1>1, <3>4, <3>5 DEF KeyReplayed, Replayed, s
  <2> QED BY <2>2, <2>3
<1>13. KeysInv'
  BY <1>1, <1>11, <1>12 DEF KeysInv
<1> QED BY <1>9, <1>10, <1>13

\* The reaper.
LEMMA ReplayReap ==
  ASSUME Inv, LogInv, PairInv, KeysInv, NEW i \in DOMAIN Shards, Reap(i)
  PROVE  LogInv' /\ PairInv' /\ KeysInv'
<1>1. /\ now' = now /\ log' = log /\ loaded' = loaded /\ mixed' = mixed
      /\ conn' = Observed(conn, None, db', now)
  BY DEF Reap
<1>2. PICK t \in 0..now :
        db' = [k \in {j \in DOMAIN db : j \notin Shards[i] \/ ~gone(db[j], t)} |-> db[k]]
  BY DEF Reap
<1>3. IsStore(db) /\ now \in Nat
  BY ReplayFacts
<1>4. t \in Nat /\ t <= now
  BY <1>3
<1>5. IsStore(db') /\ Part(db', db) /\ \A k \in DOMAIN db : k \notin DOMAIN db' => gone(db[k], t)
  BY <1>2, <1>3 DEF IsStore, Part
<1>6. \A d \in Conns : \/ conn[d] = Idle /\ conn'[d] = Idle
                       \/ Watched(conn[d], conn'[d], db, db')
  BY <1>1, <1>5, ObservedStep DEF Inv
<1>7. PairInv'
  <2>1. \A c \in Conns : conn'[c].busy => conn[c].busy /\ conn'[c].q = conn[c].q
    BY <1>6, IdleOrBusy DEF Watched
  <2> QED BY <1>1, <2>1, PairsKept
<1>8. LogInv' /\ Timed' = Timed
  BY <1>1 DEF LogInv, Timed
<1>9. ASSUME NEW k \in Keys, k \notin mixed, k \notin Timed PROVE KeyReplayed(k)'
  <2>1. KeyReplayed(k)
    BY <1>9 DEF KeysInv
  <2>2. Like(k, db', now, db, now)
    BY <1>3, <1>4, <1>5, DroppedLike
  <2>3. \A c \in Conns : Aside(conn[c], conn'[c], k)
    BY <1>6, WatchedAside
  <2> QED BY <1>1, <1>5, <2>1, <2>2, <2>3, KeyFrame, LikeEquivalence
<1>10. KeysInv'
  BY <1>1, <1>8, <1>9 DEF KeysInv
<1> QED BY <1>7, <1>8, <1>10

\* Time passes.  No command is under way on a key that is not mixed now, and
\* for a key that the clock does not decide about the replay stays the same.
LEMMA ReplayTick ==
  ASSUME Inv, LogInv, PairInv, KeysInv, Tick
  PROVE  LogInv' /\ PairInv' /\ KeysInv'
<1> DEFINE u == now + 1
           r == replay_log(loaded, log, now)
           s == replay_log(loaded, log, u)
<1>1. /\ now' = u /\ log' = log /\ loaded' = loaded /\ db' = db
      /\ mixed' = mixed \cup UNION {scope(conn[c].q) : c \in Busy}
      /\ conn' = Observed(conn, None, db, u)
  BY DEF Tick
<1>2. IsStore(db) /\ now \in Nat /\ log \in Seq(Query) /\ IsLog(log) /\ IsStore(loaded)
  BY ReplayFacts DEF LogInv
<1>3. u \in Nat /\ now <= u
  BY <1>2
<1>4. \A d \in Conns : \/ conn[d] = Idle /\ conn'[d] = Idle
                       \/ Watched(conn[d], conn'[d], db, db')
  BY <1>1, <1>2, ObservedStep DEF Inv
<1> HIDE DEF u
<1>5. \A c \in Conns : conn'[c].busy => conn[c].busy /\ conn'[c].q = conn[c].q
  BY <1>4, IdleOrBusy DEF Watched
<1>6. PairInv' /\ LogInv'
  <2>1. PairInv'
    BY <1>1, <1>5, PairsKept
  <2> QED BY <1>1, <2>1 DEF LogInv
<1>7. Timed = TimedAt(loaded, log, now) /\ Timed' = TimedAt(loaded, log, u)
  BY <1>1 DEF Timed, TimedAt
<1>8. Timed \subseteq Timed'
  BY <1>2, <1>3, <1>7, TimedLater
<1>9. ASSUME NEW k \in Keys, k \notin mixed', k \notin Timed' PROVE KeyReplayed(k)'
  <2>1. KeyReplayed(k)
    BY <1>1, <1>8, <1>9 DEF KeysInv
  <2>2. \A c \in Busy : k \notin scope(conn[c].q)
    BY <1>1, <1>9
  <2>3. Like(k, db, now, r, now)
    BY <2>1, <2>2 DEF KeyReplayed, Replayed, Writers
  <2>4. Like(k, r, now, s, u)
    BY <1>2, <1>3, <1>7, <1>9, ReplayLater
  <2> HIDE DEF r, s
  <2>5. Like(k, db, now, s, u)
    BY <2>3, <2>4, LikeEquivalence
  <2>6. Sees(db, k, u) => Sees(db, k, now)
    BY <1>2, <1>3, GoneLater DEF Sees
  <2>7. Like(k, db, u, s, u)
    BY <2>5, <2>6 DEF Like, Sees
  <2>8. \A c \in Writers' : k \notin scope(conn'[c].q)
    <3> SUFFICES ASSUME NEW c \in Writers' PROVE k \notin scope(conn'[c].q)
      OBVIOUS
    <3>1. c \in Conns /\ conn'[c].busy
      BY DEF Writers, Busy
    <3>2. c \in Busy /\ conn'[c].q = conn[c].q
      BY <1>5, <3>1 DEF Busy
    <3> QED BY <2>2, <3>2
  <2> QED BY <1>1, <2>7, <2>8 DEF KeyReplayed, Replayed, s
<1>10. KeysInv'
  BY <1>9 DEF KeysInv
<1> QED BY <1>6, <1>10

\* The inductive invariant of the replay.
ReplayInv == LogInv /\ PairInv /\ KeysInv

\* No step breaks it.
LEMMA ReplayStep == Inv /\ ReplayInv /\ [Next]_vars => ReplayInv'
<1> SUFFICES ASSUME Inv, LogInv, PairInv, KeysInv, [Next]_vars
             PROVE  LogInv' /\ PairInv' /\ KeysInv'
  BY DEF ReplayInv
<1>1. ASSUME UNCHANGED vars PROVE LogInv' /\ PairInv' /\ KeysInv'
  <2>1. /\ db' = db /\ now' = now /\ conn' = conn /\ log' = log /\ loaded' = loaded
        /\ mixed' = mixed
    BY <1>1 DEF vars
  <2>2. LogInv' /\ Timed' = Timed
    BY <2>1 DEF LogInv, Timed
  <2>3. PairInv'
    BY <2>1, PairsKept
  <2>4. ASSUME NEW k \in Keys, k \notin mixed, k \notin Timed PROVE KeyReplayed(k)'
    <3>1. KeyReplayed(k) /\ IsStore(db)
      BY <2>4, ReplayFacts DEF KeysInv
    <3>2. \A c \in Conns : Aside(conn[c], conn'[c], k)
      BY <2>1 DEF Aside, Still
    <3> QED BY <2>1, <3>1, <3>2, KeyFrame, LikeEquivalence
  <2>5. KeysInv'
    BY <2>1, <2>2, <2>4 DEF KeysInv
  <2> QED BY <2>2, <2>3, <2>5
<1>2. ASSUME NEW c \in Conns, Start(c) \/ Call(c) \/ Finish(c)
      PROVE  LogInv' /\ PairInv' /\ KeysInv'
  BY <1>2, ReplayStart, ReplayCall, ReplayFinish
<1>3. ASSUME NEW i \in DOMAIN Shards, Reap(i) PROVE LogInv' /\ PairInv' /\ KeysInv'
  BY <1>3, ReplayReap
<1>4. ASSUME Tick PROVE LogInv' /\ PairInv' /\ KeysInv'
  BY <1>4, ReplayTick
<1> QED BY <1>1, <1>2, <1>3, <1>4 DEF Next, Quiet

\* A server that has loaded its dataset has logged nothing, and replays nothing.
LEMMA ReplayInit == Init => ReplayInv
<1> SUFFICES ASSUME Init PROVE ReplayInv
  OBVIOUS
<1>1. IsStore(loaded) /\ db = loaded /\ log = <<>> /\ Writers = {}
  <2>1. IsStore(loaded)
    BY CommandsAssumption DEF Init, IsStore
  <2>2. Writers = {}
    BY IdleOrBusy DEF Init, Writers, Busy
  <2> QED BY <2>1, <2>2 DEF Init
<1>2. Replayed(now) = db
  BY <1>1, ReplayMore DEF Replayed
<1>3. \A k \in Keys : KeyReplayed(k)
  BY <1>1, <1>2, LikeEquivalence DEF KeyReplayed
<1>4. LogInv /\ PairInv
  BY <1>1 DEF LogInv, PairInv
<1> QED BY <1>3, <1>4 DEF ReplayInv, KeysInv

\* A replay of the log (crates/server/src/persistence.rs) gives what clients
\* see, for every key on which no command is under way and none overlapped
\* another writer of the key or a tick of the clock, and which no clock decides
\* about: each command comes out as it did between the calls of others on other
\* keys, of readers and of the reaper (dispatch in crates/server/src/commands.rs).
THEOREM ReplaysFaithful == Spec => []LogReplays
<1>1. Spec => []ReplayInv
  <2>1. Init => ReplayInv
    BY ReplayInit
  <2>2. Inv /\ ReplayInv /\ [Next]_vars => ReplayInv'
    BY ReplayStep
  <2>3. Spec => []Inv
    BY Invariance
  <2> QED BY <2>1, <2>2, <2>3, PTL DEF Spec
<1>2. ASSUME ReplayInv PROVE LogReplays
  <2> DEFINE m == Visible(db, now)
             d == Visible(Replayed(now), now)
  <2> SUFFICES ASSUME NEW k \in Settled \ Timed
               PROVE  /\ k \in DOMAIN m <=> k \in DOMAIN d
                      /\ k \in DOMAIN m => m[k] = d[k]
    BY DEF LogReplays
  <2>1. k \in Keys /\ k \notin mixed /\ \A c \in Busy : k \notin scope(conn[c].q)
    BY DEF Settled
  <2>2. KeyReplayed(k)
    BY <1>2, <2>1 DEF ReplayInv, KeysInv
  <2>3. Like(k, db, now, Replayed(now), now)
    BY <2>1, <2>2 DEF KeyReplayed, Writers
  <2>4. \A e : /\ k \in DOMAIN Visible(e, now) <=> Sees(e, k, now)
               /\ Sees(e, k, now) => Visible(e, now)[k] = e[k]
    BY DEF Visible, Sees
  <2> HIDE DEF m, d
  <2> QED BY <2>3, <2>4 DEF Like, m, d
<1> QED BY <1>1, <1>2, PTL
=============================================================================
