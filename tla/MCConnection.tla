---------------------------- MODULE MCConnection ----------------------------
(* Instances of Connection for TLC. *)
EXTENDS Connection, TLC

\* Keys are interchangeable: no action compares or orders them.
KeySymmetry == Permutations(Keys)
=============================================================================
