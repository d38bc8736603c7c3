--------------------------- MODULE MCSmokeHarness ---------------------------
(* Instances of SmokeHarness for TLC. *)
EXTENDS SmokeHarness

CONSTANTS madrid, london
=============================================================================
