---------------------------- MODULE MCRoleBridge ----------------------------
(* TLC instances of RoleBridge. *)
EXTENDS RoleBridge

=============================================================================
