---------------------------- MODULE MCReactorQuery ----------------------------
(* ReactorQuery on small instances.                                        *)
EXTENDS ReactorQuery

=============================================================================
