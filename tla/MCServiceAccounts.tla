------------------------- MODULE MCServiceAccounts -------------------------
(* TLC instances of ServiceAccounts. *)
EXTENDS ServiceAccounts

=============================================================================
