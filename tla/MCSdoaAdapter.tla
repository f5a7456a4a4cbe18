---------------------------- MODULE MCSdoaAdapter ----------------------------
(* Small instances of SdoaAdapter for TLC.                                 *)
EXTENDS SdoaAdapter

SomeRequests == {1}
SomeSessions == {-1}
=============================================================================
