-------------------------- MODULE MCEngineCommands --------------------------
(* EngineCommands on small instances.                                      *)
EXTENDS EngineCommands

=============================================================================
