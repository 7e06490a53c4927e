--------------------------- MODULE MCReactorSockets ---------------------------
(* ReactorSockets on a small instance.                                     *)
EXTENDS ReactorSockets

=============================================================================
