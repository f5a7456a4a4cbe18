-------------------------- MODULE MCPasswordLogin --------------------------
(* An instance of PasswordLogin for TLC. *)
EXTENDS PasswordLogin
=============================================================================
