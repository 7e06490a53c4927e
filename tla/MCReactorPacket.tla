--------------------------- MODULE MCReactorPacket ---------------------------
(* ReactorPacket on small instances.                                       *)
EXTENDS ReactorPacket

=============================================================================
