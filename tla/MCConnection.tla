---------------------------- MODULE MCConnection ----------------------------
(* Streams of one, two or three commands, for every way to cut them.       *)
EXTENDS Connection

\* A command from symbols: every argument is a sequence of bytes.
cmd(n, args) == <<<<n>>>> \o args

A == <<"a">>
B == <<"b">>
C == <<"c">>
CA == <<"c", "a">>
AB == <<"a", "b">>
AAB == <<"a", "a", "b">>
BAB == <<"b", "a", "b">>

\* One key of each type; the counter is at its limit, the list has as many
\* elements as fit in one command, and one score is outside i64.
Rich == (A :> [str |-> to_string(I64_MAX - 1)]) @@ (AB :> [list |-> <<A, B, AB, A>>])
        @@ (B :> [zset |-> zset_insert(zset_insert(zset_new, B, 1), A, 1)])
        @@ (AAB :> [hash |-> A :> B]) @@ (BAB :> [str |-> CRLF]) @@ (CA :> [set |-> {A, AB}])

plain == [password |-> FALSE, read_only |-> FALSE, kind |-> "plain"]

session(c, bytes) == [conf |-> c, db |-> Rich, stream |-> bytes]

\* Commands that write, and commands that do not.
Writers == {cmd("SET", <<B, CRLF>>), cmd("INCR", <<A>>), cmd("RPUSH", <<AB, B>>),
            cmd("LPUSH", <<A, B>>), cmd("lpop", <<AB, <<"2">>>>), cmd("LPOP", <<B>>),
            cmd("HSET", <<AAB, A, A, B, A>>), cmd("ZADD", <<B, <<"9">>, A>>),
            cmd("ZREM", <<B, A, B>>), cmd("DEL", <<A, AB>>)}

Others == {cmd("get", <<A>>), cmd("GET", <<C>>), cmd("HGETALL", <<AAB>>),
           cmd("HELLO", <<<<"3">>>>), cmd("LPOP", <<C, <<"1">>>>), cmd("QUIT", <<>>),
           cmd("ZRANGE", <<B, <<"0">>, <<"-", "1">>, <<"WITHSCORES">>>>)}

\* Any two of them in one stream.
Pipelines == {encode_command(c) \o encode_command(d) : c, d \in Writers \cup Others}

\* Errors that leave the connection open.
Wrong == {cmd("SET", <<A>>), cmd("INCR", <<BAB>>), cmd("INCR", <<AB>>), cmd("HSET", <<A, B>>),
          cmd("LPOP", <<AB, <<"-", "1">>>>), cmd("ZADD", <<B, A, A>>), cmd("HELLO", <<<<"4">>>>),
          cmd("AUTH", <<A>>), cmd("PING", <<A>>), cmd("PING", <<A, B>>), cmd("NOPE", <<>>)}

\* An unknown command, whose name has a line end in it, between two others.
Renamed == encode_command(cmd("INCR", <<A>>)) \o encode_command(<<<<"a">> \o CRLF \o <<"b">>>>) \o
           encode_command(cmd("GET", <<A>>))

\* Inline lines, empty commands, and frames that are not RESP.
Raw == {<<"SET", " ", " ", "a", " ", "b">> \o CRLF \o <<"get", " ", "a">> \o CRLF,
        CRLF \o <<"*", "0">> \o CRLF \o <<"*", "-", "1">> \o CRLF \o <<"ping">> \o CRLF,
        <<"a", "b", "c", "a", "b", "c", "a", "b", "c", "a", "b", "c">> \o CRLF \o <<"PING">> \o CRLF,
        <<"*", "7">> \o CRLF, <<"*", "8">> \o CRLF, <<"*", "1">> \o CRLF \o <<":">>,
        <<"*", "1">> \o CRLF \o <<"$", "-", "1">> \o CRLF,
        <<"*", "1">> \o CRLF \o <<"$", "7">> \o CRLF,
        encode_command(cmd("INCR", <<A>>)) \o <<"*", "1">> \o CRLF \o <<"$", "1">> \o CRLF \o <<"PING", "a">> \o CRLF}

\* The other commands, each alone: those that write, and those that do not.
MoreWriters ==
  {cmd("DECR", <<A>>), cmd("DECR", <<AB>>), cmd("DECRBY", <<A, <<"7">>>>), cmd("INCRBY", <<A, <<"2">>>>),
   cmd("DECRBY", <<A, <<"-", "8">>>>), cmd("APPEND", <<BAB, B>>), cmd("APPEND", <<AB, B>>), cmd("APPEND", <<C, B>>),
   cmd("SETNX", <<A, B>>), cmd("SETNX", <<C, B>>), cmd("GETSET", <<A, B>>), cmd("GETSET", <<AB, B>>),
   cmd("MSET", <<A, B, A, C>>), cmd("RPOP", <<AB>>), cmd("RPOP", <<AB, <<"7">>>>), cmd("RPUSH", <<C, A, B>>),
   cmd("HMSET", <<AAB, B, B>>), cmd("HDEL", <<AAB, A, A>>), cmd("HDEL", <<C, A>>), cmd("SADD", <<CA, A, B, B>>),
   cmd("SADD", <<CA, A>>), cmd("SREM", <<CA, A, AB, B>>), cmd("SREM", <<B, A>>), cmd("UNLINK", <<A, A>>),
   cmd("FLUSHALL", <<>>)}

Readers ==
  {cmd("STRLEN", <<BAB>>), cmd("STRLEN", <<AB>>), cmd("MGET", <<A, AB, C>>), cmd("LLEN", <<AB>>), cmd("LLEN", <<A>>),
   cmd("HGET", <<AAB, A>>), cmd("HGET", <<AAB, B>>), cmd("HLEN", <<AAB>>), cmd("HEXISTS", <<AAB, B>>),
   cmd("HKEYS", <<AAB>>), cmd("HVALS", <<AAB>>), cmd("HMGET", <<AAB, A, B>>), cmd("HMGET", <<AB, A>>),
   cmd("SISMEMBER", <<CA, AB>>), cmd("SCARD", <<CA>>), cmd("SMEMBERS", <<CA>>), cmd("ZSCORE", <<B, A>>),
   cmd("ZSCORE", <<B, AB>>), cmd("ZCARD", <<B>>), cmd("ECHO", <<CRLF>>), cmd("SELECT", <<A>>), cmd("DBSIZE", <<>>),
   cmd("EXISTS", <<A, A, C>>), cmd("TYPE", <<CA>>), cmd("TYPE", <<C>>), cmd("SCAN", <<<<"0">>>>),
   cmd("SCAN", <<<<"0">>, <<"MATCH">>, <<"*", "a">>>>), cmd("SCAN", <<<<"0">>, <<"COUNT">>, <<"1">>, <<"MATCH">>>>)}

Ranks == {<<"-", "8">>, <<"-", "2">>, <<"-", "1">>, <<"0">>, <<"1">>, <<"7">>}

Queries1 == {cmd("LRANGE", <<AB, i, j>>) : i, j \in Ranks} \cup
            {cmd("ZRANGE", <<B, i, j>>) : i, j \in Ranks} \cup
            {cmd("LRANGE", <<A, <<"0">>, <<"1">>>>), cmd("ZRANGE", <<B, <<"0">>, <<"8">>>>)}

Patterns == UNION {[1..n -> {"b", "*", "?"}] : n \in 0..3} \cup
            {<<"*", "a", "*", "b">>, <<"*", "?", "b", "*">>, <<"[", "a", "-", "c", "]", "b">>,
             <<"[", "^", "a", "]", "*">>, <<"[", "a", "-", "]", "*">>, <<"*", "[", "b", "-", "c">>,
             <<"[", "]", "a">>}

Guarded == {encode_command(cmd("GET", <<A>>)) \o encode_command(cmd("AUTH", <<w>>)) \o
            encode_command(cmd("INCR", <<A>>)) : w \in {<<"secret">>, A}}

MCSessions ==
  {session(plain, s) : s \in Pipelines \cup Raw \cup {Renamed} \cup
     {encode_command(c) : c \in Wrong \cup MoreWriters \cup Readers \cup Queries1 \cup {cmd("KEYS", <<p>>) : p \in Patterns}}} \cup
  {session([plain EXCEPT !.password = TRUE], s) : s \in Guarded} \cup
  {session([plain EXCEPT !.read_only = TRUE], encode_command(c)) : c \in Writers \cup Others \cup MoreWriters} \cup
  {session([plain EXCEPT !.kind = k], encode_command(cmd("INCR", <<A>>)) \o encode_command(cmd("SYNC", <<>>))) :
     k \in {"plain", "tls", "uring"}}

\* Commands that leave a list too long for one command, or a score outside i64.
DumpSessions ==
  {session(plain, encode_command(c)) : c \in {cmd("RPUSH", <<AB, B>>), cmd("ZADD", <<B, <<"9">>, A>>)}}

\* Ranks on both sides of both ends of a sorted set with two members.
RangeSessions ==
  {session(plain, encode_command(cmd("ZRANGE", <<B, i, j>>))) : i, j \in Ranks}
=============================================================================
