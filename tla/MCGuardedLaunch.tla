-------------------------- MODULE MCGuardedLaunch --------------------------
(* A small instance of GuardedLaunch: a contract that allows the command   *)
(* and one that refuses it, every client; watch asks for the outcomes.     *)
EXTENDS GuardedLaunch

OutcomeKinds == {"process.succeeded", "process.exited", "process.failed"}
=============================================================================
