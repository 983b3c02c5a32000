------------------------- MODULE MCSampleCollection -------------------------
(* Instances of SampleCollection for TLC. *)
EXTENDS SampleCollection
=============================================================================
