--------------------------- MODULE MCReactorStream ---------------------------
(* ReactorStream on small instances.                                       *)
EXTENDS ReactorStream

=============================================================================
