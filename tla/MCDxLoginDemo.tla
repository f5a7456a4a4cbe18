---------------------------- MODULE MCDxLoginDemo ----------------------------
(* An instance of DxLoginDemo for TLC.                                       *)
EXTENDS DxLoginDemo
=============================================================================
