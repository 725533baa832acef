------------------------------- MODULE Queries ------------------------------
(***************************************************************************)
(* What single commands compute on strings, lists, hashes, sets and sorted *)
(* sets, and how they answer: the dispatcher of crates/server/src/commands.rs    *)
(* and the values of crates/core/src/store.rs, the algorithms for ranges,  *)
(* scores and patterns included.  The store has no deadlines here, and no  *)
(* budget; interleavings are the subject of Commands.tla.                  *)
(***************************************************************************)
EXTENDS Resp

\* Byte order, for members of a sorted set and for the classes of a pattern.
Ascii == <<"LF", "CR", " ", "$", "*", "+", "-", "0", "1", "2", "3", "4", "5", "6", "7",
           "8", "9", ":", "?", "[", "]", "^", "_", "a", "b", "c">>

code == [c \in Range(Ascii) |-> CHOOSE i \in DOMAIN Ascii : Ascii[i] = c]

\* Box<[u8]> in lexicographic order.
before(a, b) ==
  \/ IsStrictPrefix(a, b)
  \/ \E i \in DOMAIN a \cap DOMAIN b :
       code[a[i]] < code[b[i]] /\ SubSeq(a, 1, i - 1) = SubSeq(b, 1, i - 1)

larger(a, b) == IF a > b THEN a ELSE b

smaller(a, b) == IF a < b THEN a ELSE b

\* i64 addition in a build without overflow checks.
wrap(n) == IF n > I64_MAX THEN n - 2 * (I64_MAX + 1) ELSE n

-----------------------------------------------------------------------------
(* Lists and sorted sets                                                   *)

\* Store::lrange on a list that is there: s is inclusive, e exclusive.
lrange(l, start, stop) ==
  LET n == Len(l)
      s == IF start < 0 THEN larger(n + start, 0) ELSE smaller(start, n)
      e == IF stop < 0 THEN larger(n + stop + 1, 0) ELSE smaller(wrap(stop + 1), n)
  IN IF s >= e THEN <<>> ELSE SubSeq(l, s + 1, e)

\* A sorted set: the score of each member, and the ordered index.
zset_new == [scores |-> <<>>, sorted |-> {}]

\* Mutant of zset_insert: the entry under the old score stays in the index.
zset_insert_keeps_old(z, m, score) ==
  [scores |-> (m :> score) @@ z.scores, sorted |-> z.sorted \cup {<<score, m>>}]

zset_insert(z, m, score) ==
  LET old == IF m \in DOMAIN z.scores THEN {<<z.scores[m], m>>} ELSE {}
  IN [scores |-> (m :> score) @@ z.scores, sorted |-> (z.sorted \ old) \cup {<<score, m>>}]

zset_remove(z, m) ==
  IF m \notin DOMAIN z.scores THEN z
  ELSE [scores |-> Restrict(z.scores, DOMAIN z.scores \ {m}),
        sorted |-> z.sorted \ {<<z.scores[m], m>>}]

\* The index in the order of its iterator: by score, then by member.
in_order(z) ==
  SetToSortSeq(z.sorted, LAMBDA p, q : p[1] < q[1] \/ (p[1] = q[1] /\ before(p[2], q[2])))

\* Mutant of zset_range: a range that ends before it begins is turned round.
zset_range_swapped(z, start, stop) ==
  LET n == Cardinality(z.sorted)
      norm(i) == IF i < 0 THEN larger(n + i, 0) ELSE smaller(i, n - 1)
      s == smaller(norm(start), norm(stop))
      e == larger(norm(start), norm(stop))
  IN IF n = 0 THEN <<>> ELSE SubSeq(in_order(z), s + 1, e + 1)

\* ZSet::range: both ends are clamped into the set.
zset_range(z, start, stop) ==
  LET n == Cardinality(z.sorted)
      norm(i) == IF i < 0 THEN larger(n + i, 0) ELSE smaller(i, n - 1)
  IN IF n = 0 \/ norm(start) > norm(stop) THEN <<>>
     ELSE SubSeq(in_order(z), norm(start) + 1, norm(stop) + 1)

\* parse::<f64>(): scores here are whole numbers, of any size.
parse_f64(b) == whole(b)

\* fmt_score of a whole number: `s as i64` saturates.
fmt_score(s) == to_string(larger(smaller(s, I64_MAX), -I64_MAX - 1))

-----------------------------------------------------------------------------
(* Patterns                                                                *)

RECURSIVE class_scan(_, _, _, _)

\* The loop of match_class from index i: the index of the class's end, and
\* whether c was met.
class_scan(p, i, c, matched) ==
  IF i > Len(p) \/ p[i] = "]" THEN [at |-> i, matched |-> matched]
  ELSE IF i + 2 <= Len(p) /\ p[i + 1] = "-" /\ p[i + 2] # "]"
    THEN class_scan(p, i + 3, c,
           matched \/ (code[p[i]] <= code[c] /\ code[c] <= code[p[i + 2]]))
  ELSE class_scan(p, i + 1, c, matched \/ p[i] = c)

\* Mutant of match_class: `^` is taken for a character of the class.
match_class_no_negate(p, c) ==
  LET end == class_scan(p, 2, c, FALSE)
  IN [len |-> smaller(end.at, Len(p)), matched |-> end.matched]

\* The length of the class that p begins with, and whether it admits c.
match_class(p, c) ==
  LET negate == Len(p) >= 2 /\ p[2] = "^"
      end == class_scan(p, IF negate THEN 3 ELSE 2, c, FALSE)
  IN [len |-> smaller(end.at, Len(p)), matched |-> end.matched # negate]

RECURSIVE glob_from(_, _, _, _, _)

\* The loop of glob_match: pi and si index the pattern and the string, star is
\* the last `*` and how much it has swallowed.
glob_from(pat, s, pi, si, star) ==
  LET here == pi <= Len(pat)
      class == match_class(SubSeq(pat, pi, Len(pat)), s[si])
  IN IF si > Len(s) THEN \A i \in pi..Len(pat) : pat[i] = "*"
     ELSE IF here /\ pat[pi] = "*" THEN glob_from(pat, s, pi + 1, si, <<pi, si>>)
     ELSE IF here /\ pat[pi] = "?" THEN glob_from(pat, s, pi + 1, si + 1, star)
     ELSE IF here /\ pat[pi] = "[" /\ class.matched
       THEN glob_from(pat, s, pi + class.len, si + 1, star)
     ELSE IF here /\ pat[pi] \notin {"*", "?", "["} /\ pat[pi] = s[si]
       THEN glob_from(pat, s, pi + 1, si + 1, star)
     ELSE IF star # <<>>
       THEN glob_from(pat, s, star[1] + 1, star[2] + 1, <<star[1], star[2] + 1>>)
     ELSE FALSE

glob_match(pat, s) == glob_from(pat, s, 1, 1, <<>>)
-----------------------------------------------------------------------------
(* Commands on one key                                                     *)

\* Outcome::r, Outcome::w and Outcome::maybe.
reads(m, reply) == [db |-> m, reply |-> reply, persist |-> FALSE]

writes(m, reply) == [db |-> m, reply |-> reply, persist |-> TRUE]

maybe(m, reply, dirty) == [db |-> m, reply |-> reply, persist |-> dirty]

wrong_args == Error(<<"ARGS">>)
not_integer == Error(<<"NOTINT">>)
WRONGTYPE == Error(<<"WRONGTYPE">>)

bulks(items) == Array([i \in DOMAIN items |-> Bulk(items[i])])

put(m, k, v) == (k :> v) @@ m

drop(m, k) == Restrict(m, DOMAIN m \ {k})

\* A value is a record with one field, named for its type.
of_type(m, k, type) == type \in DOMAIN m[k]

new_collection == [list |-> <<>>, hash |-> <<>>, set |-> {}, zset |-> zset_new]

\* with_collection!: the collection is made when there is none, and dropped
\* when it is left empty.  body gives the new collection and its result,
\* answer the outcome.
with_collection(m, k, type, body(_), answer(_)) ==
  LET left(r) == [answer(r) EXCEPT !.db = IF r.coll = new_collection[type] THEN drop(m, k)
                                          ELSE put(m, k, type :> r.coll)]
  IN IF k \in DOMAIN m /\ ~of_type(m, k, type) THEN reads(m, WRONGTYPE)
     ELSE left(body(IF k \in DOMAIN m THEN m[k][type] ELSE new_collection[type]))

\* read_collection: an empty collection stands for a missing key.
read_collection(m, k, type, answer(_)) ==
  IF k \notin DOMAIN m THEN reads(m, answer(new_collection[type]))
  ELSE IF ~of_type(m, k, type) THEN reads(m, WRONGTYPE)
  ELSE reads(m, answer(m[k][type]))

get(m, k) ==
  IF k \notin DOMAIN m THEN reads(m, NilBulk)
  ELSE IF of_type(m, k, "str") THEN reads(m, Bulk(m[k].str))
  ELSE reads(m, WRONGTYPE)

set(m, k, v) == writes(put(m, k, [str |-> v]), ok)

\* str::trim.
trim(b) ==
  LET inner == {i \in DOMAIN b : b[i] \notin Whitespace}
  IN IF inner = {} THEN <<>> ELSE SubSeq(b, Min(inner), Max(inner))

\* checked_add, and the new value as text.
added(m, k, cur, delta) ==
  LET next == cur.val + delta
  IN IF ~cur.ok THEN reads(m, not_integer)
     ELSE IF next > I64_MAX \/ next < -I64_MAX - 1 THEN reads(m, Error(<<"OVERFLOW">>))
     ELSE writes(put(m, k, [str |-> to_string(next)]), Number(next))

\* Store::incr_by, on the decimal text of the value.
incr_by(m, k, delta) ==
  IF k \notin DOMAIN m THEN added(m, k, [ok |-> TRUE, val |-> 0], delta)
  ELSE IF of_type(m, k, "str") THEN added(m, k, parse_int(trim(m[k].str)), delta)
  ELSE reads(m, WRONGTYPE)

\* INCRBY, and DECRBY, which takes checked_neg of its argument d.
incr_arg(m, k, decrby, d) ==
  IF ~d.ok THEN reads(m, not_integer)
  ELSE IF decrby /\ d.val = -I64_MAX - 1 THEN reads(m, Error(<<"OVERFLOW">>))
  ELSE incr_by(m, k, IF decrby THEN -d.val ELSE d.val)

\* INCR, DECR, INCRBY and DECRBY.
incr_cmd(m, argv, name) ==
  LET by == name \in {"INCRBY", "DECRBY"}
  IN IF Len(argv) # (IF by THEN 3 ELSE 2) THEN reads(m, wrong_args)
     ELSE IF by THEN incr_arg(m, argv[2], name = "DECRBY", parse_int(argv[3]))
     ELSE incr_by(m, argv[2], IF name = "INCR" THEN 1 ELSE -1)

append(m, k, suffix) ==
  LET v == (IF k \in DOMAIN m THEN m[k].str ELSE <<>>) \o suffix
  IN IF k \in DOMAIN m /\ ~of_type(m, k, "str") THEN reads(m, WRONGTYPE)
     ELSE writes(put(m, k, [str |-> v]), Number(Len(v)))

strlen(m, k) ==
  IF k \notin DOMAIN m THEN reads(m, Number(0))
  ELSE IF of_type(m, k, "str") THEN reads(m, Number(Len(m[k].str)))
  ELSE reads(m, WRONGTYPE)

setnx(m, k, v) ==
  IF k \in DOMAIN m THEN reads(m, Number(0)) ELSE writes(put(m, k, [str |-> v]), Number(1))

getset(m, k, v) ==
  LET old == get(m, k).reply
  IN IF old = WRONGTYPE THEN reads(m, old) ELSE writes(put(m, k, [str |-> v]), old)

mset(m, argv) ==
  LET n == (Len(argv) - 1) \div 2
      add(d, i) == put(d, argv[2 * i], [str |-> argv[2 * i + 1]])
  IN IF Len(argv) < 3 \/ Len(argv) % 2 = 0 THEN reads(m, wrong_args)
     ELSE writes(FoldLeft(add, m, [i \in 1..n |-> i]), ok)

\* A slot of the wrong type is reported as nil.
mget(m, argv) ==
  LET slot(r) == IF r = WRONGTYPE THEN NilBulk ELSE r
  IN reads(m, Array([i \in 1..(Len(argv) - 1) |-> slot(get(m, argv[i + 1]).reply)]))

\* LLEN, HLEN, SCARD and ZCARD.
card_cmd(m, k, type) ==
  LET size(c) == CASE type = "list" -> Len(c)
                   [] type = "hash" -> Cardinality(DOMAIN c)
                   [] type = "set"  -> Cardinality(c)
                   [] type = "zset" -> Cardinality(DOMAIN c.scores)
  IN read_collection(m, k, type, LAMBDA c : Number(size(c)))

\* LPUSH and RPUSH.
push_cmd(m, argv, left) ==
  LET vals == SubSeq(argv, 3, Len(argv))
      body(l) == [coll |-> IF left THEN Reverse(vals) \o l ELSE l \o vals]
  IN IF Len(argv) < 3 THEN reads(m, wrong_args)
     ELSE with_collection(m, argv[2], "list", body, LAMBDA r : writes(m, Number(Len(r.coll))))

\* Store::pop of up to count elements, and the reply.
pop(m, k, left, counted, count) ==
  LET body(l) == LET n == smaller(count.val, Len(l))
                     keep == Len(l) - n
                 IN IF left THEN [coll |-> SubSeq(l, n + 1, Len(l)), items |-> SubSeq(l, 1, n)]
                    ELSE [coll |-> SubSeq(l, 1, keep), items |-> Reverse(SubSeq(l, keep + 1, Len(l)))]
      answer(r) == maybe(m, CASE counted /\ r.items = <<>>  -> NilArray
                              [] counted /\ r.items # <<>>  -> bulks(r.items)
                              [] ~counted /\ r.items = <<>> -> NilBulk
                              [] ~counted /\ r.items # <<>> -> Bulk(r.items[1]),
                         r.items # <<>>)
  IN IF ~count.ok \/ count.val < 0 THEN reads(m, Error(<<"RANGE">>))
     ELSE with_collection(m, k, "list", body, answer)

\* LPOP and RPOP; a count, even of 1, is answered with an array.
pop_cmd(m, argv, left) ==
  CASE Len(argv) = 2 -> pop(m, argv[2], left, FALSE, [ok |-> TRUE, val |-> 1])
    [] Len(argv) = 3 -> pop(m, argv[2], left, TRUE, parse_int(argv[3]))
    [] OTHER         -> reads(m, wrong_args)

\* The two indices of LRANGE and ZRANGE.
with_range(m, argv, answer(_, _)) ==
  LET between(start, stop) == IF start.ok /\ stop.ok THEN answer(start.val, stop.val)
                              ELSE reads(m, not_integer)
  IN between(parse_int(argv[3]), parse_int(argv[4]))

lrange_cmd(m, argv) ==
  with_range(m, argv, LAMBDA start, stop :
    read_collection(m, argv[2], "list", LAMBDA l : bulks(lrange(l, start, stop))))

\* HSET key field value ...; HMSET differs in its reply.
hset_cmd(m, argv, hmset) ==
  LET n == (Len(argv) - 2) \div 2
      add(h, i) == (argv[2 * i + 1] :> argv[2 * i + 2]) @@ h
      body(h) == [coll |-> FoldLeft(add, h, [i \in 1..n |-> i]), old |-> DOMAIN h]
      answer(r) == writes(m, IF hmset THEN ok ELSE Number(Cardinality(DOMAIN r.coll \ r.old)))
  IN IF Len(argv) < 4 \/ Len(argv) % 2 # 0 THEN reads(m, wrong_args)
     ELSE with_collection(m, argv[2], "hash", body, answer)

\* The fields or members that HDEL, SADD and SREM name.
named(argv) == Range(SubSeq(argv, 3, Len(argv)))

hdel(m, argv) ==
  LET body(h) == [coll |-> Restrict(h, DOMAIN h \ named(argv)), old |-> DOMAIN h]
      answer(r) == LET n == Cardinality(r.old \ DOMAIN r.coll) IN maybe(m, Number(n), n > 0)
  IN with_collection(m, argv[2], "hash", body, answer)

hget(h, f) == IF f \in DOMAIN h THEN Bulk(h[f]) ELSE NilBulk

\* A key of the wrong type has no fields.
hmget_cmd(m, argv) ==
  LET field(f) == read_collection(m, argv[2], "hash", LAMBDA h : hget(h, f)).reply
      slot(r) == IF r = WRONGTYPE THEN NilBulk ELSE r
  IN reads(m, Array([i \in 1..(Len(argv) - 2) |-> slot(field(argv[i + 2]))]))

hexists(m, argv) ==
  read_collection(m, argv[2], "hash",
    LAMBDA h : Number(IF argv[3] \in DOMAIN h THEN 1 ELSE 0))

\* HKEYS and HVALS, in the order of the map's iterator, which is any.
hkeys_vals_cmd(m, argv, keys) ==
  read_collection(m, argv[2], "hash", LAMBDA h :
    LET f == SetToSeq(DOMAIN h) IN bulks(IF keys THEN f ELSE [i \in DOMAIN f |-> h[f[i]]]))

\* The fields in the order of the map's iterator, which is any.
hgetall_cmd(m, argv, resp3) ==
  LET pairs(h) == LET f == SetToSeq(DOMAIN h)
                  IN [i \in DOMAIN f |-> <<Bulk(f[i]), Bulk(h[f[i]])>>]
  IN read_collection(m, argv[2], "hash",
       LAMBDA h : IF resp3 THEN Map(pairs(h)) ELSE Array(FlattenSeq(pairs(h))))

sadd(m, argv) ==
  LET body(c) == [coll |-> c \cup named(argv), new |-> Cardinality(named(argv) \ c)]
  IN with_collection(m, argv[2], "set", body, LAMBDA r : maybe(m, Number(r.new), r.new > 0))

srem(m, argv) ==
  LET body(c) == [coll |-> c \ named(argv), gone |-> Cardinality(c \cap named(argv))]
  IN with_collection(m, argv[2], "set", body, LAMBDA r : maybe(m, Number(r.gone), r.gone > 0))

sismember(m, argv) ==
  read_collection(m, argv[2], "set", LAMBDA c : Number(IF argv[3] \in c THEN 1 ELSE 0))

smembers(m, argv) == read_collection(m, argv[2], "set", LAMBDA c : bulks(SetToSeq(c)))

\* ZADD key score member ...; a score is a whole number of any size.
zadd_cmd(m, argv) ==
  LET n == (Len(argv) - 2) \div 2
      score(i) == parse_f64(argv[2 * i + 1])
      add(z, i) == zset_insert(z, argv[2 * i + 2], score(i).val)
      body(z) == [coll |-> FoldLeft(add, z, [i \in 1..n |-> i]), old |-> DOMAIN z.scores]
      answer(r) == writes(m, Number(Cardinality(DOMAIN r.coll.scores \ r.old)))
  IN IF Len(argv) < 4 \/ Len(argv) % 2 # 0 THEN reads(m, wrong_args)
     ELSE IF \E i \in 1..n : ~score(i).ok THEN reads(m, Error(<<"NOTFLOAT">>))
     ELSE with_collection(m, argv[2], "zset", body, answer)

zrem_cmd(m, argv) ==
  LET members == SubSeq(argv, 3, Len(argv))
      body(z) == [coll |-> FoldLeft(zset_remove, z, members), old |-> DOMAIN z.scores]
      answer(r) == LET n == Cardinality(r.old \ DOMAIN r.coll.scores)
                   IN maybe(m, Number(n), n > 0)
  IN with_collection(m, argv[2], "zset", body, answer)

zscore(m, argv) ==
  read_collection(m, argv[2], "zset", LAMBDA z :
    IF argv[3] \in DOMAIN z.scores THEN Bulk(fmt_score(z.scores[argv[3]])) ELSE NilBulk)

zrange_cmd(m, argv) ==
  LET withscores == Len(argv) >= 5 /\ argv[5] = <<"WITHSCORES">>
      item(p) == IF withscores THEN <<p[2], fmt_score(p[1])>> ELSE <<p[2]>>
      items(z, start, stop) == LET r == zset_range(z, start, stop)
                               IN FlattenSeq([i \in DOMAIN r |-> item(r[i])])
  IN with_range(m, argv, LAMBDA start, stop :
       read_collection(m, argv[2], "zset", LAMBDA z : bulks(items(z, start, stop))))

\* KEYS, in the order of the shards and their tables, which is any.
keys_cmd(m, argv) == reads(m, bulks(SetToSeq({k \in DOMAIN m : glob_match(argv[2], k)})))

RECURSIVE scan_pattern(_, _, _)

\* SCAN's options from index i: the last MATCH counts, and may lack its pattern.
scan_pattern(argv, i, pat) ==
  IF i > Len(argv) THEN pat
  ELSE IF argv[i] = <<"MATCH">>
    THEN scan_pattern(argv, i + 2, IF i < Len(argv) THEN <<argv[i + 1]>> ELSE <<>>)
  ELSE scan_pattern(argv, i + (IF argv[i] \in {<<"COUNT">>, <<"TYPE">>} THEN 2 ELSE 1), pat)

\* SCAN lists everything at once, with cursor 0.
scan_cmd(m, argv) ==
  LET pat == scan_pattern(argv, 3, <<>>)
      found == {k \in DOMAIN m : pat # <<>> => glob_match(pat[1], k)}
  IN reads(m, Array(<<Bulk(<<"0">>), bulks(SetToSeq(found))>>))

type_of(m, k) ==
  reads(m, Simple(IF k \notin DOMAIN m THEN "none"
                  ELSE IF of_type(m, k, "str") THEN "string"
                  ELSE CHOOSE t \in DOMAIN new_collection : of_type(m, k, t)))

exists(m, argv) ==
  reads(m, Number(Cardinality({i \in 2..Len(argv) : argv[i] \in DOMAIN m})))

del_cmd(m, argv) ==
  LET held == DOMAIN m \cap Range(Tail(argv))
  IN maybe(Restrict(m, DOMAIN m \ held), Number(Cardinality(held)), held # {})

flush_all(m) == writes(<<>>, ok)
=============================================================================
