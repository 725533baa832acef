------------------------------ MODULE Dataset -------------------------------
(***************************************************************************)
(* What the commands that are logged and replicated do to the contents of  *)
(* the store: dispatch, dump_commands and the replay of a command stream   *)
(* (crates/server/src/commands.rs, crates/core/src/store.rs,               *)
(* crates/server/src/persistence.rs).                                      *)
(*                                                                         *)
(* A value is a string or a list, and either is the sequence of the        *)
(* fragments it was made of.  There is no memory budget: eviction is       *)
(* Shard.tla's subject and is never logged.  A command is one store call,  *)
(* so its effect is one step under the lock of its key's shard.            *)
(***************************************************************************)
EXTENDS Naturals, Sequences, KeyMap

\* One representative per way a command depends on the state: SET overwrites,
\* SETNX and DEL are dirty only sometimes, APPEND and RPUSH extend what is
\* there, PSETEX counts from the clock, PEXPIREAT is what dumps contain.
Ops == {"SET", "SETNX", "APPEND", "RPUSH", "DEL", "PSETEX", "PEXPIREAT"}

\* A command: its operation, key, value argument and time argument, and the
\* number of the client request it comes from (0 in a dump).
command(op, k, arg, time, id) ==
  [op |-> op, key |-> k, arg |-> arg, time |-> time, id |-> id]

gone(e, t) == e.expire_at # None /\ e.expire_at <= t

\* Shard::live -- an expired entry is dropped by whoever meets it.
live(db, k, t) ==
  IF k \in DOMAIN db /\ gone(db[k], t) THEN map_remove(db, k) ELSE db

\* What clients can see of the store at time t.
Visible(db, t) == [k \in {j \in DOMAIN db : ~gone(db[j], t)} |-> db[k]]

\* The type a command insists on when the key exists.
extends_type == [APPEND |-> "string", RPUSH |-> "list"]

\* Outcome::r -- nothing was written.
unchanged(db) == [db |-> db, persist |-> FALSE]

\* Outcome::w -- written, to be logged and propagated.
written(db, k, e) == [db |-> map_insert(db, k, e), persist |-> TRUE]

\* dispatch (and serve_fast, which does the same for SET).
dispatch(db, c, t) ==
  LET d == live(db, c.key, t)
      has == c.key \in DOMAIN d
      fresh == [type |-> "string", value |-> c.arg, expire_at |-> None]
  IN CASE c.op = "SET" -> written(d, c.key, fresh)
       [] c.op = "SETNX" -> IF has THEN unchanged(d) ELSE written(d, c.key, fresh)
       [] c.op = "PSETEX" -> written(d, c.key, [fresh EXCEPT !.expire_at = t + c.time])
       [] c.op = "DEL" -> [db |-> map_remove(d, c.key), persist |-> has]
       [] c.op = "PEXPIREAT" ->
            IF has THEN written(d, c.key, [d[c.key] EXCEPT !.expire_at = c.time])
                   ELSE unchanged(d)
       [] OTHER ->
            IF ~has THEN written(d, c.key, [fresh EXCEPT !.type = extends_type[c.op]])
            ELSE IF d[c.key].type # extends_type[c.op] THEN unchanged(d) \* WRONGTYPE
            ELSE written(d, c.key, [d[c.key] EXCEPT !.value = @ \o c.arg])

\* encode_recreate and the PEXPIREAT that follows it.
recreate(k, e) ==
  <<command(IF e.type = "string" THEN "SET" ELSE "RPUSH", k, e.value, 0, 0)>> \o
  (IF e.expire_at = None THEN <<>>
   ELSE <<command("PEXPIREAT", k, <<>>, e.expire_at, 0)>>)

\* The part of dump_commands under the lock of one shard, which here holds
\* one key.
dump_shard(db, k, t) ==
  IF k \in DOMAIN Visible(db, t) THEN recreate(k, db[k]) ELSE <<>>

\* replay_file: every command through dispatch, into an empty store.
replay(cmds, t) ==
  LET after[i \in 0..Len(cmds)] ==
        IF i = 0 THEN map_new ELSE dispatch(after[i - 1], cmds[i], t).db
  IN after[Len(cmds)]
=============================================================================
