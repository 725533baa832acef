----------------------------- MODULE MCPrimary ------------------------------
(* Instances of Primary for TLC. *)
EXTENDS Primary, TLC

CONSTANTS c1, c2, k1, k2

TwoShards == <<k1, k2>>

OneShard == <<k1>>

\* Every key has its own writer.
OwnKeys == (c1 :> ({"APPEND", "DEL"} \X {k1} \X {0}))
        @@ (c2 :> ({"RPUSH"} \X {k2} \X {0}))

\* Both write the one key.
SharedKey == [c \in Conns |-> {"SET", "DEL"} \X Keys \X {0}]

\* One writer that only overwrites.
Overwrites == [c \in Conns |-> {"SET"} \X Keys \X {0}]

=============================================================================
