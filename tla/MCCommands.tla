----------------------------- MODULE MCCommands -----------------------------
(* Two shards with one key each, and every pair of these requests at once. *)
EXTENDS Commands, TLC

CONSTANTS k1, k2

MCShards == <<{k1}, {k2}>>

req(op, keys, flags, time, absolute) ==
  [op |-> op, keys |-> keys, flags |-> flags, time |-> time, absolute |-> absolute]

plain(op, keys) == req(op, keys, {}, None, TRUE)

MCRequests == [c \in Conns |->
  {plain(op, <<k1>>) : op \in {"SET", "GETSET", "SETNX", "RPUSH", "PERSIST"}} \cup
  {plain(op, <<k1, k2>>) : op \in {"MSET", "DEL", "MGET", "EXISTS"}} \cup
  {plain(op, <<>>) : op \in {"KEYS", "DBSIZE", "FLUSHALL"}} \cup
  {req("SET", <<k1>>, {"XX", "GET", "KEEPTTL"}, None, TRUE),
   req("SET", <<k1>>, {"NX"}, 1, FALSE)} \cup
  {req("EXPIRE", <<k1>>, {f}, 2, TRUE) : f \in {"NX", "XX", "LT"}} \cup
  {req("EXPIRE", <<k1>>, {}, -1, FALSE), req("EXPIRE", <<k1>>, {"GT"}, 2, FALSE)}]

str(at) == [type |-> "string", value |-> <<0>>, expire_at |-> at]

MCLoaded ==
  {map_new, [k \in Keys |-> IF k = k1 THEN str(3) ELSE str(1)], k1 :> str(None),
   k1 :> [str(2) EXCEPT !.type = "list"]}

\* A key is given a deadline and then a later one, or none.
Deadlines == [c \in Conns |->
  {plain("SET", <<k1>>), plain("PERSIST", <<k1>>),
   req("EXPIRE", <<k1>>, {}, 1, TRUE), req("EXPIRE", <<k1>>, {}, 2, TRUE)}]

Nothing == {map_new}

Symmetric == Permutations(Conns)
=============================================================================
