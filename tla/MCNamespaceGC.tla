--------------------------- MODULE MCNamespaceGC ---------------------------
(* TLC instances of NamespaceGC. *)
EXTENDS NamespaceGC

=============================================================================
