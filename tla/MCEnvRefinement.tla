-------------------------- MODULE MCEnvRefinement --------------------------
(* Instances of EnvRefinement for TLC. *)
EXTENDS EnvRefinement
============================================================================
