---------------------------- MODULE MCSdkRuntime ----------------------------
(* Small instances of SdkRuntime for TLC.                                  *)
EXTENDS SdkRuntime, TLC

CallerSymmetry == Permutations(Threads)
DirectSessions == {-1}
=============================================================================
