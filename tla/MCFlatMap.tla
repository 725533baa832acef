----------------------------- MODULE MCFlatMap ------------------------------
(* Instances of FlatMap for TLC. *)
EXTENDS FlatMap, TLC

KeySymmetry == Permutations(Keys)
=============================================================================
