--------------------------- MODULE MCCompositeStore ---------------------------
(* CompositeStore on small sets of names, for TLC. *)
EXTENDS CompositeStore
=============================================================================
