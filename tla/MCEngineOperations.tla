------------------------- MODULE MCEngineOperations -------------------------
(* EngineOperations on small instances.                                    *)
EXTENDS EngineOperations

=============================================================================
