--------------------------- MODULE MCCodeKeyLogin ---------------------------
(* Instance of CodeKeyLogin for TLC; the .cfg files bound the moves of the user. *)
EXTENDS CodeKeyLogin
=============================================================================
