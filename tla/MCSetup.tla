------------------------------ MODULE MCSetup ------------------------------
(* The sessions of the checked instances of Setup.                         *)
EXTENDS Setup

MCCustom == {[custom |-> TRUE, registry |-> TRUE, upfront |-> FALSE],
             [custom |-> FALSE, registry |-> FALSE, upfront |-> TRUE]}
MCUpfront == {[custom |-> FALSE, registry |-> FALSE, upfront |-> TRUE]}

=============================================================================
