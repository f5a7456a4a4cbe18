------------------------- MODULE MCProtocolBrowser -------------------------
(* An instance of ProtocolBrowser for TLC: a delay that is configured and    *)
(* one that is not.                                                          *)
EXTENDS ProtocolBrowser

Delays == {0, 1}
=============================================================================
