--------------------------- MODULE MCSupervisorHost ---------------------------
(* Three processes, two commands in a window and one on the command line,  *)
(* two requests to trust two workspaces.                                   *)
EXTENDS SupervisorHost, TLC

Symmetric ==
  Permutations(Procs) \cup Permutations(Window) \cup Permutations(Requests)
  \cup Permutations(Workspaces)
=============================================================================
