------------------------- MODULE MCOperationEngine -------------------------
(* Instances of OperationEngine for TLC. *)
EXTENDS OperationEngineInvariant
=============================================================================
