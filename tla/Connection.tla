----------------------------- MODULE Connection -----------------------------
(***************************************************************************)
(* One connection of the server (crates/server/src/conn.rs, and            *)
(* handle_conn of crates/server/src/runtime_uring.rs, which differs only   *)
(* in SYNC): bytes arrive in chunks of any size, complete commands are     *)
(* parsed out of the buffer and served in one batch, the replies of the    *)
(* batch are written together.                                             *)
(*                                                                         *)
(* The client's bytes are fixed at the start and arrive in any pieces.     *)
(* Other connections and failing appends are in Primary.tla.               *)
(***************************************************************************)
EXTENDS Queries

CONSTANTS
  Sessions  \* the configurations, datasets and input streams to begin with

Config == [password : BOOLEAN, read_only : BOOLEAN, kind : {"plain", "tls", "uring"}]

ASSUME SessionsAssumption == \A s \in Sessions : s.conf \in Config

VARIABLES
  conf,      \* how the server was started
  stream,    \* everything the client sends
  pos,       \* how many bytes of it have been read
  inbuf,     \* read and not yet drained
  cursor,    \* parsed in this batch
  argv,      \* the command that was parsed last
  at,        \* "read", "parse", "serve", "flush", "passive" or "closed"
  quit,      \* why the connection ends after this batch: "no", "quit", "error"
  st,        \* ConnState: the protocol version, and whether it is authenticated
  db,        \* the store
  outbuf,    \* replies of this batch
  sent,      \* replies that were written to the socket
  aof,       \* the bytes of the log
  loaded,    \* the dataset the server began with
  executed,  \* history: the commands taken out of the buffer
  answers    \* history: the replies, with the protocol version of each

vars == <<conf, stream, pos, inbuf, cursor, argv, at, quit, st, db, outbuf, sent, aof,
          loaded, executed, answers>>

-----------------------------------------------------------------------------
(* Dispatch                                                                *)

lowercase == [get |-> "GET", ping |-> "PING", lpop |-> "LPOP"]

\* upper: the name of the command, whatever its case.
name(av) ==
  LET n == av[1][1]
  IN IF Len(av[1]) # 1 THEN "" ELSE IF n \in DOMAIN lowercase THEN lowercase[n] ELSE n

with_state(o, s, q) == [st |-> s, quit |-> q] @@ o

\* HELLO [2|3]: the reply to it is already in the version it asks for.
hello(m, av, s) ==
  LET field(k, r) == <<Bulk(<<k>>), r>>
      greet(next) == with_state(
        reads(m, Map(<<field("proto", Number(IF next.resp3 THEN 3 ELSE 2)),
                       field("role", Bulk(<<"master">>)),
                       field("modules", Array(<<>>))>>)), next, FALSE)
      agree(v) == IF v.ok /\ v.val \in {2, 3} THEN greet([s EXCEPT !.resp3 = v.val = 3])
                  ELSE with_state(reads(m, Error(<<"NOPROTO">>)), s, FALSE)
  IN IF Len(av) < 2 THEN greet(s) ELSE agree(parse_int(av[2]))

\* AUTH [user] password.
auth(m, av, s) ==
  LET right == av[Len(av)] = <<"secret">>
  IN IF Len(av) \notin {2, 3} THEN with_state(reads(m, wrong_args), s, FALSE)
     ELSE IF ~conf.password THEN with_state(reads(m, Error(<<"NOPASS">>)), s, FALSE)
     ELSE IF right THEN with_state(reads(m, ok), [s EXCEPT !.authed = TRUE], FALSE)
     ELSE with_state(reads(m, Error(<<"WRONGPASS">>)), s, FALSE)

\* The text of the error that repeats the command's name between quotes, as
\* the client sent it.
unknown(av) == <<"UNKNOWN">> \o av[1] \o <<"'">>

\* Commands on strings.  Deadlines, and the options of SET, are in Commands.tla.
on_strings(m, av) ==
  LET n == name(av)
      args == Len(av)
  IN CASE n = "GET" /\ args = 2    -> get(m, av[2])
       [] n = "SET" /\ args = 3    -> set(m, av[2], av[3])
       [] n = "SET" /\ args < 3    -> reads(m, wrong_args)
       [] n = "GETSET" /\ args = 3 -> getset(m, av[2], av[3])
       [] n = "SETNX" /\ args = 3  -> setnx(m, av[2], av[3])
       [] n = "MSET"               -> mset(m, av)
       [] n = "MGET" /\ args >= 2  -> mget(m, av)
       [] n = "APPEND" /\ args = 3 -> append(m, av[2], av[3])
       [] n = "STRLEN" /\ args = 2 -> strlen(m, av[2])
       [] n \in {"INCR", "DECR", "INCRBY", "DECRBY"} -> incr_cmd(m, av, n)
       [] OTHER                    -> reads(m, Error(unknown(av)))

\* Commands on lists, hashes, sets and sorted sets.
on_collections(m, av, resp3) ==
  LET n == name(av)
      args == Len(av)
  IN CASE n \in {"LPUSH", "RPUSH"}       -> push_cmd(m, av, n = "LPUSH")
       [] n \in {"LPOP", "RPOP"}         -> pop_cmd(m, av, n = "LPOP")
       [] n = "LLEN" /\ args = 2         -> card_cmd(m, av[2], "list")
       [] n = "LRANGE" /\ args = 4       -> lrange_cmd(m, av)
       [] n \in {"HSET", "HMSET"}        -> hset_cmd(m, av, n = "HMSET")
       [] n = "HGET" /\ args = 3         -> read_collection(m, av[2], "hash", LAMBDA h : hget(h, av[3]))
       [] n = "HDEL" /\ args >= 3        -> hdel(m, av)
       [] n = "HLEN" /\ args = 2         -> card_cmd(m, av[2], "hash")
       [] n = "HEXISTS" /\ args = 3      -> hexists(m, av)
       [] n = "HGETALL" /\ args = 2      -> hgetall_cmd(m, av, resp3)
       [] n \in {"HKEYS", "HVALS"} /\ args = 2 -> hkeys_vals_cmd(m, av, n = "HKEYS")
       [] n = "HMGET" /\ args >= 3       -> hmget_cmd(m, av)
       [] n = "SADD" /\ args >= 3        -> sadd(m, av)
       [] n = "SREM" /\ args >= 3        -> srem(m, av)
       [] n = "SISMEMBER" /\ args = 3    -> sismember(m, av)
       [] n = "SCARD" /\ args = 2        -> card_cmd(m, av[2], "set")
       [] n = "SMEMBERS" /\ args = 2     -> smembers(m, av)
       [] n = "ZADD"                     -> zadd_cmd(m, av)
       [] n = "ZSCORE" /\ args = 3       -> zscore(m, av)
       [] n = "ZREM" /\ args >= 3        -> zrem_cmd(m, av)
       [] n = "ZCARD" /\ args = 2        -> card_cmd(m, av[2], "zset")
       [] n = "ZRANGE" /\ args >= 4      -> zrange_cmd(m, av)
       [] OTHER                          -> on_strings(m, av)

\* The commands that leave the connection's state alone.
on_store(m, av, resp3) ==
  LET n == name(av)
      args == Len(av)
  IN CASE n = "PING" -> reads(m, CASE args = 1 -> Simple("PONG")
                                   [] args = 2 -> Bulk(av[2])
                                   [] args > 2 -> wrong_args)
       [] n = "ECHO" /\ args = 2           -> reads(m, Bulk(av[2]))
       [] n = "SELECT"                     -> reads(m, ok)
       [] n = "DBSIZE"                     -> reads(m, Number(Cardinality(DOMAIN m)))
       [] n \in {"FLUSHALL", "FLUSHDB"}    -> flush_all(m)
       [] n \in {"DEL", "UNLINK"} /\ args >= 2 -> del_cmd(m, av)
       [] n = "EXISTS" /\ args >= 2        -> exists(m, av)
       [] n = "TYPE" /\ args = 2           -> type_of(m, av[2])
       [] n = "KEYS" /\ args = 2           -> keys_cmd(m, av)
       [] n = "SCAN" /\ args >= 2          -> scan_cmd(m, av)
       [] OTHER                            -> on_collections(m, av, resp3)

dispatch(m, av, s) ==
  CASE name(av) = "HELLO" -> hello(m, av, s)
    [] name(av) = "AUTH"  -> auth(m, av, s)
    [] name(av) = "QUIT"  -> with_state(reads(m, ok), s, TRUE)
    [] OTHER                -> with_state(on_store(m, av, s.resp3), s, FALSE)

\* What serve_fast leaves: the bytes of the reply, the store, and whether it
\* was a write.
done(out, d, write) == <<[out |-> out, db |-> d, write |-> write]>>

\* fast_incr: i is what incr_by made of it.
fast_incr(i) ==
  done(IF i.persist THEN write_int(i.reply.int) ELSE write_error(i.reply.error), i.db, i.persist)

\* Mutant of serve_fast: a missing key is always answered as RESP2 does.
serve_fast_resp2(m, av, s) ==
  LET n == name(av)
      k == av[2]
  IN CASE n = "GET" /\ Len(av) = 2  -> done(encode(get(m, k).reply, FALSE), m, FALSE)
       [] n = "SET" /\ Len(av) = 3  -> done(write_simple("OK"), put(m, k, [str |-> av[3]]), TRUE)
       [] n = "PING" /\ Len(av) = 1 -> done(write_simple("PONG"), m, FALSE)
       [] n \in {"INCR", "DECR"} /\ Len(av) = 2 -> fast_incr(incr_by(m, k, IF n = "INCR" THEN 1 ELSE -1))
       [] OTHER                       -> <<>>

\* serve_fast; or nothing, for the dispatcher.
serve_fast(m, av, s) ==
  LET n == name(av)
      k == av[2]
      held == IF k \notin DOMAIN m THEN write_null(s.resp3)
              ELSE IF of_type(m, k, "str") THEN write_bulk(m[k].str)
              ELSE write_error(<<"WRONGTYPE">>)
  IN CASE n = "GET" /\ Len(av) = 2  -> done(held, m, FALSE)
       [] n = "SET" /\ Len(av) = 3  -> done(write_simple("OK"), put(m, k, [str |-> av[3]]), TRUE)
       [] n = "PING" /\ Len(av) = 1 -> done(write_simple("PONG"), m, FALSE)
       [] n \in {"INCR", "DECR"} /\ Len(av) = 2 -> fast_incr(incr_by(m, k, IF n = "INCR" THEN 1 ELSE -1))
       [] OTHER                       -> <<>>

\* The names that is_write_command knows.
Writes ==
  {"SET", "SETNX", "SETEX", "PSETEX", "GETSET", "MSET", "APPEND", "INCR",
   "DECR", "INCRBY", "DECRBY", "DEL", "UNLINK", "EXPIRE", "PEXPIRE",
   "EXPIREAT", "PEXPIREAT", "PERSIST", "FLUSHALL", "FLUSHDB", "LPUSH", "RPUSH",
   "LPOP", "RPOP", "HSET", "HMSET", "HDEL", "SADD", "SREM", "ZADD", "ZREM"}

\* Mutant of is_write_command: LPOP is taken for a read.
is_write_command_no_pop(n) == n \in Writes \ {"LPOP"}

is_write_command(n) == n \in Writes

is_preauth_ok(n) == n \in {"AUTH", "HELLO", "QUIT", "PING"}

-----------------------------------------------------------------------------
(* The connection's loop                                                   *)

Init ==
  /\ \E s \in Sessions :
       conf = s.conf /\ stream = s.stream /\ db = s.db /\ loaded = s.db
  /\ pos = 0 /\ inbuf = <<>> /\ cursor = 0 /\ argv = <<>>
  /\ at = "read" /\ quit = "no"
  /\ st = [resp3 |-> FALSE, authed |-> ~conf.password]
  /\ outbuf = <<>> /\ sent = <<>> /\ aof = <<>>
  /\ executed = <<>> /\ answers = <<>>

\* stream.read: some of what the client has sent.
Read(n) ==
  /\ at = "read" /\ n \in 1..(Len(stream) - pos)
  /\ inbuf' = inbuf \o SubSeq(stream, pos + 1, pos + n)
  /\ pos' = pos + n
  /\ at' = "parse"
  /\ UNCHANGED <<conf, stream, cursor, argv, quit, st, db, outbuf, sent, aof, loaded,
                 executed, answers>>

\* The client has closed its side.
Eof ==
  /\ at = "read" /\ pos = Len(stream)
  /\ at' = "closed"
  /\ UNCHANGED <<conf, stream, pos, inbuf, cursor, argv, quit, st, db, outbuf, sent, aof,
                 loaded, executed, answers>>

\* What is left of the buffer.
rest == SubSeq(inbuf, cursor + 1, Len(inbuf))

\* The head of the inner loop.  An empty line or array is passed over, an
\* incomplete command waits for the next read, and input that is not RESP is
\* answered with an error and ends the connection.
Parse ==
  /\ at = "parse"
  /\ \E p \in {parse_command_ranges(rest)} :
       \/ /\ p.st = "ok"
          /\ argv' = owned(rest, p).argv
          /\ cursor' = cursor + p.consumed
          /\ at' = IF p.argv = <<>> THEN "parse" ELSE "serve"
          /\ UNCHANGED <<quit, outbuf, answers>>
       \/ /\ p.st = "more"
          /\ at' = "flush"
          /\ UNCHANGED <<cursor, argv, quit, outbuf, answers>>
       \/ /\ p.st = "error"
          /\ at' = "flush" /\ quit' = "error"
          /\ outbuf' = outbuf \o write_error(<<"PROTOCOL">>)
          /\ answers' = Append(answers, [reply |-> Error(<<"PROTOCOL">>), resp3 |-> st.resp3])
          /\ UNCHANGED <<cursor, argv>>
  /\ UNCHANGED <<conf, stream, pos, inbuf, st, db, sent, aof, loaded, executed>>

\* The output and the histories when the command is answered.
Answer(reply, resp3, bytes) ==
  /\ executed' = Append(executed, argv)
  /\ answers' = Append(answers, [reply |-> reply, resp3 |-> resp3])
  /\ outbuf' = outbuf \o bytes

IsSync == name(argv) \in {"SYNC", "PSYNC"}

Allowed == st.authed \/ is_preauth_ok(name(argv))

Refused == conf.read_only /\ is_write_command(name(argv))

\* SYNC: the replies so far are written first.  A plain connection becomes the
\* feed of a replica (Primary.tla); the others refuse and end.
Sync ==
  /\ at = "serve" /\ IsSync
  /\ \/ /\ conf.kind = "plain"
        /\ at' = "passive"
        /\ sent' = sent \o outbuf /\ outbuf' = <<>>
        /\ executed' = Append(executed, argv)
        /\ UNCHANGED <<quit, answers>>
     \/ /\ conf.kind # "plain"
        /\ Answer(Error(<<"NOSYNC">>), st.resp3, write_error(<<"NOSYNC">>))
        /\ at' = "flush" /\ quit' = "quit"
        /\ UNCHANGED sent
  /\ UNCHANGED <<conf, stream, pos, inbuf, cursor, argv, st, db, aof, loaded>>

\* Not authenticated yet, or a write on a read-only replica.
Reject ==
  /\ at = "serve" /\ ~IsSync
  /\ \/ ~Allowed /\ Answer(Error(<<"NOAUTH">>), st.resp3, write_error(<<"NOAUTH">>))
     \/ Allowed /\ Refused /\ Answer(Error(<<"READONLY">>), st.resp3, write_error(<<"READONLY">>))
  /\ at' = "parse"
  /\ UNCHANGED <<conf, stream, pos, inbuf, cursor, argv, quit, st, db, sent, aof, loaded>>

\* The fast path served f; o is what the dispatcher would have done, for the
\* history of answers.
ByFastPath(o, f) ==
  /\ Answer(o.reply, st.resp3, f.out)
  /\ db' = f.db
  /\ UNCHANGED <<st, quit>>

\* The dispatcher's outcome o, in the protocol version that it leaves.
ByDispatch(o) ==
  /\ Answer(o.reply, o.st.resp3, encode(o.reply, o.st.resp3))
  /\ db' = o.db
  /\ st' = o.st
  /\ quit' = IF o.quit THEN "quit" ELSE quit

\* Mutant of Execute: only what went through the dispatcher is logged.
Execute_logs_slow ==
  /\ at = "serve" /\ ~IsSync /\ Allowed /\ ~Refused
  /\ \E o \in {dispatch(db, argv, st)}, fast \in {serve_fast(db, argv, st)} :
       /\ IF fast # <<>> THEN ByFastPath(o, fast[1]) ELSE ByDispatch(o)
       /\ aof' = IF fast = <<>> /\ o.persist THEN aof \o encode_command(argv) ELSE aof
       /\ at' = IF quit' = "no" THEN "parse" ELSE "flush"
  /\ UNCHANGED <<conf, stream, pos, inbuf, cursor, argv, sent, loaded>>

\* The fast path or the dispatcher, then the log.
Execute ==
  /\ at = "serve" /\ ~IsSync /\ Allowed /\ ~Refused
  /\ \E o \in {dispatch(db, argv, st)}, fast \in {serve_fast(db, argv, st)} :
       LET write == IF fast # <<>> THEN fast[1].write ELSE o.persist
       IN /\ IF fast # <<>> THEN ByFastPath(o, fast[1]) ELSE ByDispatch(o)
          /\ aof' = IF write THEN aof \o encode_command(argv) ELSE aof
          /\ at' = IF quit' = "no" THEN "parse" ELSE "flush"
  /\ UNCHANGED <<conf, stream, pos, inbuf, cursor, argv, sent, loaded>>

\* Mutant of Flush: what was not parsed is dropped with the rest.
Flush_clears ==
  /\ at = "flush"
  /\ inbuf' = <<>>
  /\ cursor' = 0
  /\ sent' = sent \o outbuf /\ outbuf' = <<>>
  /\ at' = IF quit = "no" THEN "read" ELSE "closed"
  /\ UNCHANGED <<conf, stream, pos, argv, quit, st, db, aof, loaded, executed, answers>>

\* The end of a batch: drain what was parsed, write the replies.
Flush ==
  /\ at = "flush"
  /\ inbuf' = rest
  /\ cursor' = 0
  /\ sent' = sent \o outbuf /\ outbuf' = <<>>
  /\ at' = IF quit = "no" THEN "read" ELSE "closed"
  /\ UNCHANGED <<conf, stream, pos, argv, quit, st, db, aof, loaded, executed, answers>>

\* passive_replica reads and ignores; a closed connection is over.
Rest ==
  /\ at \in {"passive", "closed"}
  /\ UNCHANGED vars

Next ==
  \/ \E n \in 1..Len(stream) : Read(n)
  \/ Eof \/ Parse \/ Sync \/ Reject \/ Execute \/ Flush \/ Rest

Spec == Init /\ [][Next]_vars

-----------------------------------------------------------------------------
(* The files: what they hold and how they are read back                    *)

RECURSIVE frames_from(_, _, _)

\* The loop of replay_file: the commands so far, and p, what parse_command
\* makes of the rest of the file.
frames_from(argvs, buf, p) ==
  LET others == SubSeq(buf, p.consumed + 1, Len(buf))
  IN IF p.st # "ok" THEN [argvs |-> argvs, end |-> p.st]
     ELSE frames_from(IF p.argv = <<>> THEN argvs ELSE Append(argvs, p.argv),
                      others, parse_command(others))

\* The commands of a whole file, and how it ended.
frames(buf) == frames_from(<<>>, buf, parse_command(buf))

\* replay_file, into the store m.
replay_file(m, bytes) ==
  FoldLeft(LAMBDA d, av : dispatch(d, av, [resp3 |-> FALSE, authed |-> TRUE]).db,
           m, frames(bytes).argvs)

\* Mutant of recreate: a list is dumped from its head to its tail with LPUSH.
recreate_lpush(k, v) ==
  CASE "str" \in DOMAIN v  -> <<<<"SET">>, k, v.str>>
    [] "list" \in DOMAIN v -> <<<<"LPUSH">>, k>> \o v.list
    [] "hash" \in DOMAIN v ->
         LET f == SetToSeq(DOMAIN v.hash)
         IN <<<<"HSET">>, k>> \o FlattenSeq([i \in DOMAIN f |-> <<f[i], v.hash[f[i]]>>])
    [] "set" \in DOMAIN v  -> <<<<"SADD">>, k>> \o SetToSeq(v.set)
    [] "zset" \in DOMAIN v ->
         LET o == in_order(v.zset)
         IN <<<<"ZADD">>, k>> \o FlattenSeq([i \in DOMAIN o |-> <<fmt_score(o[i][1]), o[i][2]>>])

\* encode_recreate: the one command that makes the value anew.
recreate(k, v) ==
  CASE "str" \in DOMAIN v  -> <<<<"SET">>, k, v.str>>
    [] "list" \in DOMAIN v -> <<<<"RPUSH">>, k>> \o v.list
    [] "hash" \in DOMAIN v ->
         LET f == SetToSeq(DOMAIN v.hash)
         IN <<<<"HSET">>, k>> \o FlattenSeq([i \in DOMAIN f |-> <<f[i], v.hash[f[i]]>>])
    [] "set" \in DOMAIN v  -> <<<<"SADD">>, k>> \o SetToSeq(v.set)
    [] "zset" \in DOMAIN v ->
         LET o == in_order(v.zset)
         IN <<<<"ZADD">>, k>> \o FlattenSeq([i \in DOMAIN o |-> <<fmt_score(o[i][1]), o[i][2]>>])

dump_commands(m) ==
  LET ks == SetToSeq(DOMAIN m)
  IN FlattenSeq([i \in DOMAIN ks |-> encode_command(recreate(ks[i], m[ks[i]]))])

-----------------------------------------------------------------------------
(* Reference definitions                                                   *)

RECURSIVE values_at(_, _, _)

\* A client's decoder: the value at from, and where the next one begins.
value_at(buf, from) ==
  LET l == read_line(buf, from + 1)
      n == whole(l.line).val
      items(count) == values_at(buf, l.next, count)
      at_line(v) == [val |-> v, next |-> l.next]
      pairs(f) == [i \in 1..n |-> <<f[2 * i - 1], f[2 * i]>>]
  IN CASE buf[from] = "+" -> at_line([simple |-> l.line[1]])
       [] buf[from] = "-" -> at_line([error |-> l.line])
       [] buf[from] = ":" -> at_line([int |-> n])
       [] buf[from] = "_" \/ (buf[from] \in {"$", "*"} /\ n = -1) -> at_line([nil |-> "any"])
       [] buf[from] = "$" /\ n >= 0 ->
            [val |-> [bulk |-> SubSeq(buf, l.next, l.next + n - 1)], next |-> l.next + n + 2]
       [] buf[from] = "*" /\ n >= 0 -> [val |-> [array |-> items(n).items], next |-> items(n).next]
       [] buf[from] = "%" -> [val |-> [map |-> pairs(items(2 * n).items)], next |-> items(2 * n).next]

\* The first count values from there.
values_at(buf, from, count) ==
  LET item(acc, i) == LET v == value_at(buf, acc.next)
                      IN [items |-> Append(acc.items, v.val), next |-> v.next]
  IN FoldLeft(item, [items |-> <<>>, next |-> from], [i \in 1..count |-> i])

RECURSIVE meant(_, _)

\* What a reply means to a client: RESP2 has no maps and two forms of nil.
meant(r, resp3) ==
  LET each(items) == [i \in DOMAIN items |-> meant(items[i], resp3)]
  IN CASE "nil" \in DOMAIN r   -> [nil |-> "any"]
       [] "array" \in DOMAIN r -> [array |-> each(r.array)]
       [] "map" \in DOMAIN r   -> IF resp3 THEN [map |-> [i \in DOMAIN r.map |-> each(r.map[i])]]
                                  ELSE [array |-> each(FlattenSeq(r.map))]
       [] OTHER                -> r

RECURSIVE Member(_, _)

\* The characters and ranges of a class, one after the other.
Member(items, c) ==
  CASE items = <<>> -> FALSE
    [] Len(items) >= 3 /\ items[2] = "-" ->
         \/ code[c] \in code[items[1]]..code[items[3]]
         \/ Member(SubSeq(items, 4, Len(items)), c)
    [] OTHER -> items[1] = c \/ Member(Tail(items), c)

\* What is between the brackets admits c.
Admits(body, c) ==
  IF body # <<>> /\ body[1] = "^" THEN ~Member(Tail(body), c) ELSE Member(body, c)

RECURSIVE Matches(_, _)

\* A pattern matches a string.
Matches(pat, s) ==
  CASE pat = <<>> -> s = <<>>
    [] pat # <<>> /\ pat[1] = "*" -> Matches(Tail(pat), s) \/ (s # <<>> /\ Matches(pat, Tail(s)))
    [] pat # <<>> /\ pat[1] = "?" -> s # <<>> /\ Matches(Tail(pat), Tail(s))
    [] pat # <<>> /\ pat[1] = "[" ->
         LET body == CHOOSE i \in 2..(Len(pat) + 1) :
                       /\ i > Len(pat) \/ pat[i] = "]"
                       /\ \A j \in 2..(i - 1) : pat[j] # "]"
         IN s # <<>> /\ Admits(SubSeq(pat, 2, body - 1), s[1])
                     /\ Matches(SubSeq(pat, body + 1, Len(pat)), Tail(s))
    [] OTHER -> s # <<>> /\ pat[1] = s[1] /\ Matches(Tail(pat), Tail(s))

\* The elements of l from rank start to rank stop, where a negative rank counts
\* from the end.
Between(l, start, stop) ==
  LET rank(i) == IF i < 0 THEN Len(l) + i ELSE i
  IN SubSeq(l, larger(rank(start), 0) + 1, smaller(rank(stop), Len(l) - 1) + 1)

-----------------------------------------------------------------------------
(* Properties                                                              *)

AtRest == at \in {"passive", "closed"}

\* An inline command that is longer than the limit before its line end came.
OverlongLine ==
  Len(inbuf) > MAX_INLINE /\ inbuf[1] # "*" /\ read_line(inbuf, 1).st = "more"

\* The commands that are executed do not depend on where the network cuts the
\* stream: they are those that parse_command finds in the whole of it, all of
\* them unless QUIT, SYNC or an error ends the connection first; and an error
\* is one of the whole stream, but for an inline line that exceeds the limit
\* while its end has not arrived.
SplitIndependent ==
  AtRest =>
    LET whole_stream == frames(stream)
    IN /\ IsPrefix(executed, whole_stream.argvs)
       /\ at = "closed" /\ quit = "no" => executed = whole_stream.argvs
       /\ quit = "error" =>
            \/ executed = whole_stream.argvs /\ whole_stream.end = "error"
            \/ OverlongLine

\* An error whose text has a line end in it, which a client takes for its own:
\* it repeats a command name that came as a bulk string (commands.rs:298).
Unframed(r) ==
  "error" \in DOMAIN r /\ \E i \in 1..(Len(r.error) - 1) : SubSeq(r.error, i, i + 1) = CRLF

\* How many replies come before the first of those.
Framed ==
  LET broken == {i \in DOMAIN answers : Unframed(answers[i].reply)}
  IN IF broken = {} THEN Len(answers) ELSE Min(broken) - 1

\* A client that decodes what it was sent gets the reply of every command, in
\* order and with nothing left over, though some were written by the fast path
\* and some by the dispatcher, and though HELLO changed the protocol in the
\* middle of a batch.  Where the name of an unknown command has a line end in
\* it, this is so only up to that command's error: write_error does not escape.
RepliesDecode ==
  AtRest =>
    /\ \E got \in {values_at(sent, 1, Framed)} :
         /\ got.items = [i \in 1..Framed |-> meant(answers[i].reply, answers[i].resp3)]
         /\ Framed = Len(answers) => got.next = Len(sent) + 1
    /\ Len(answers) = Len(executed) + (IF quit = "error" THEN 1 ELSE IF at = "passive" THEN -1 ELSE 0)

\* serve_fast and dispatch implement some commands twice: on every command
\* that reaches them they leave the same store, agree on whether it is logged,
\* and write the same bytes.
FastPathAgrees ==
  at = "serve" =>
    \A f \in Range(serve_fast(db, argv, st)), o \in {dispatch(db, argv, st)} :
      /\ f.out = encode(o.reply, o.st.resp3)
      /\ f.db = o.db /\ f.write = o.persist /\ o.st = st /\ ~o.quit

\* Replaying the log into the dataset that was loaded gives the store: what
\* came in inline or in pieces is logged as an array that parses to the same
\* command, and every command that changed the store is there.
AofReplays == AtRest => replay_file(loaded, aof) = db

\* Every value takes at most MAX_ARRAY_LEN arguments, and every score is an i64.
Dumpable ==
  \A k \in DOMAIN db :
    /\ Len(recreate(k, db[k])) <= MAX_ARRAY_LEN
    /\ "zset" \in DOMAIN db[k] =>
         \A m \in DOMAIN db[k].zset.scores : db[k].zset.scores[m] \in (-I64_MAX - 1)..I64_MAX

\* The commands of the dump give the dataset back, whatever bytes are in its
\* values, as long as each value fits in one command that the parser accepts
\* and no score is outside the range that fmt_score can print.
DumpReplays == AtRest /\ Dumpable => replay_file(<<>>, dump_commands(db)) = db

\* The claim of store.rs:810: the commands "recreate the entire dataset".  A
\* value with more arguments than the parser takes ends the replay, and a score
\* outside i64 comes back as the nearest i64.
DumpComplete == AtRest => replay_file(<<>>, dump_commands(db)) = db

\* The two halves of a sorted set agree, also after a score was changed and
\* after a replay, and no collection is stored empty.
CollectionsSound ==
  \A k \in DOMAIN db :
    /\ "zset" \in DOMAIN db[k] =>
         LET z == db[k].zset IN z.sorted = {<<z.scores[m], m>> : m \in DOMAIN z.scores}
    /\ \A type \in DOMAIN db[k] \cap DOMAIN new_collection : db[k][type] # new_collection[type]

\* The command n asks for a range of a value of the type, from and to a rank.
AsksRange(n, type) ==
  /\ at = "serve" /\ name(argv) = n /\ Len(argv) = 4
  /\ argv[2] \in DOMAIN db /\ of_type(db, argv[2], type)
  /\ parse_int(argv[3]).ok /\ parse_int(argv[4]).ok

From == parse_int(argv[3]).val

To == parse_int(argv[4]).val

Replied == dispatch(db, argv, st).reply

\* The members of the sorted set by rank.
Ranked == [i \in DOMAIN in_order(db[argv[2]].zset) |-> in_order(db[argv[2]].zset)[i][2]]

\* LRANGE and ZRANGE return the elements of the ranks that were asked for.
\* Nothing is said of LRANGE to i64::MAX, where stop + 1 overflows, nor of a
\* ZRANGE that begins behind the last member or ends before the first.
RangesCorrect ==
  /\ AsksRange("LRANGE", "list") /\ To # I64_MAX =>
       Replied = bulks(Between(db[argv[2]].list, From, To))
  /\ AsksRange("ZRANGE", "zset") /\ From < Len(Ranked) /\ To >= -Len(Ranked) =>
       Replied = bulks(Between(Ranked, From, To))

\* The claim of store.rs:81: ZSet::range returns the members "for the inclusive
\* rank range `[start, stop]`", so none when no member has such a rank.
ZrangeInclusive == AsksRange("ZRANGE", "zset") => Replied = bulks(Between(Ranked, From, To))

\* KEYS, and SCAN with MATCH, list exactly the keys that the pattern matches:
\* going back to the last `*` alone is enough.
PatternsCorrect ==
  LET reply == dispatch(db, argv, st).reply
      matching(pat) == {Bulk(k) : k \in {j \in DOMAIN db : Matches(pat, j)}}
  IN /\ at = "serve" /\ name(argv) = "KEYS" /\ Len(argv) = 2 =>
          Range(reply.array) = matching(argv[2])
     /\ at = "serve" /\ name(argv) = "SCAN" /\ Len(argv) = 4 /\ argv[3] = <<"MATCH">> =>
          Range(reply.array[2].array) = matching(argv[4])

\* No client changes the dataset of a read-only replica: every command that
\* writes is in the list that the gate goes by.
ReadOnlyKept == [][conf.read_only => db' = db]_vars
=============================================================================
