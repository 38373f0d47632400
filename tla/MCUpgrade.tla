----------------------------- MODULE MCUpgrade -----------------------------
(* Instances of Upgrade for TLC. *)
EXTENDS Upgrade, TLC

CONSTANTS s1, vta, med

\* One full stack with two components.
OneStack == [t \in {vta, med} |-> s1]

\* The two components are interchangeable: neither is a platform's VTA.
Components == Permutations({vta, med})
=============================================================================
