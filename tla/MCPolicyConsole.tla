---------------------------- MODULE MCPolicyConsole ----------------------------
(***************************************************************************)
(* Two commands in progress, three sessions, two policies.                  *)
(***************************************************************************)
EXTENDS PolicyConsole
=============================================================================
