---------------------------- MODULE MCCodexRelay ----------------------------
(* A small instance of CodexRelay.                                         *)
EXTENDS CodexRelay
=============================================================================
