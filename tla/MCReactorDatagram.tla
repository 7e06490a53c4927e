-------------------------- MODULE MCReactorDatagram --------------------------
(* ReactorDatagram on small instances.                                     *)
EXTENDS ReactorDatagram

=============================================================================
