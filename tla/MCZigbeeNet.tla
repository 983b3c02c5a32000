----------------------------- MODULE MCZigbeeNet ----------------------------
(* Instances of ZigbeeNet for TLC. *)
EXTENDS ZigbeeNet
============================================================================
