--------------------------- MODULE MCEnvExchange ---------------------------
(* Instances of EnvExchange for TLC. *)
EXTENDS EnvExchange, TLC

Symmetry == Permutations(Cgi)
============================================================================
