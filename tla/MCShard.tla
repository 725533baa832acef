------------------------------ MODULE MCShard -------------------------------
(* Instances of Shard for TLC. *)
EXTENDS Shard, TLC

\* Keys of one length.
MCKeyLen == [k \in Keys |-> 1]

=============================================================================
