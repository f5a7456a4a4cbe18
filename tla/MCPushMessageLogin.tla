-------------------------- MODULE MCPushMessageLogin --------------------------
(* Small instances of PushMessageLogin for TLC.                            *)
EXTENDS PushMessageLogin
=============================================================================
