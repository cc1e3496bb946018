---------------------------- MODULE GuardedLaunch ----------------------------
(***************************************************************************)
(* A command launched under a contract and followed to its verdict: what   *)
(* agent-contract run --contract --wait, agent-contract watch, the VS Code *)
(* extension's guarded command and an SDK follower see of a managed run.   *)
(* The launcher follows from the answer on, and when the session is said   *)
(* to have ended asks for its verdict (evaluateContract, which appends the *)
(* decisions).                                                             *)
(***************************************************************************)
EXTENDS ManagedRun

CONSTANTS Modes, Wanted, MaxResumes

ASSUME LaunchAssumption == MaxResumes \in Nat

VARIABLES follower, got, resumes,
          judged   (* how many events the verdict was computed from         *)

INSTANCE EventFollower

clientVars == << follower, got, resumes >>

vars == << runVars, clientVars, judged >>

TypeOK == RunTypeOK /\ FollowerTypeOK /\ judged \in Nat

Init == RunInit /\ FollowerInit /\ judged = 0

(* The requests of the client are served while the supervisor runs; a      *)
(* client of one that stopped learns nothing any more.                     *)
Client ==
  /\ run.answered /\ up
  /\ FollowerWorks \/ RequestFails \/ Resume
  /\ UNCHANGED << runVars, judged >>

Evaluate ==
  /\ up /\ follower.at = "done" /\ judged = 0 /\ run.contract # "none"
  /\ judged' = Len(log)
  /\ log' = Append(log, "policy.decision")
  /\ UNCHANGED << run, session, tree, child, other, outside, faults, up, clientVars >>

Next ==
  \/ RunNext /\ UNCHANGED << clientVars, judged >>
  \/ Client
  \/ Evaluate

Spec == Init /\ [][Next]_vars

(* Promise reactions run, Git answers and polling timers fire; the child   *)
(* owes nothing, and requests may fail.                                    *)
FairSpec ==
  /\ Spec
  /\ WF_vars(RunWorks /\ UNCHANGED << clientVars, judged >>)
  /\ WF_vars(run.answered /\ up /\ FollowerWorks /\ UNCHANGED << runVars, judged >>)

-----------------------------------------------------------------------------
Has(kinds, n) == \E i \in 1 .. n : log[i] \in kinds

(* Which events of the log's first `last' ones the follower asked for, once *)
(* and in order.                                                           *)
Lists(positions, last) ==
  /\ \A i, j \in DOMAIN positions : i < j => positions[i] < positions[j]
  /\ Range(positions) = {n \in 1 .. last : Matches(n)}

(* Whatever the answers that were lost and the times it was taken up       *)
(* again, a follower was given every event it asked for up to its cursor,  *)
(* once and in order, and one that stopped at the end of the session has   *)
(* read the event that ended it (getEvents, followEvents, watchCommand,    *)
(* followSessionLog).                                                      *)
FollowedFaithfully ==
  /\ follower.mode # "wait" => Lists(got, follower.cursor)
  /\ follower.at = "done" =>
       Has(Endings, IF follower.mode = "wait" THEN Len(log) ELSE follower.cursor)

(* Unless another client ends it, a session says it has ended only when    *)
(* its process is gone, its worktree was tried and the log says how that   *)
(* ended, removed or not, rejected records included; and the verdict that  *)
(* a launcher waited for is computed from the whole run: how the process   *)
(* ended, what it changed (execute, removeIsolatedWorktree, waitForRun).   *)
EndedRunWhole ==
  other = "idle" =>
    /\ session.state \in Terminal =>
         child # "running" /\ tree # "present" /\ (tree = "none" \/ Has({Removal}, Len(log)))
    /\ judged > 0 => /\ Has(Endings, judged)
                     /\ Has({"process.started"}, judged) =>
                          Has(Outcomes, judged) /\ Has({"workspace.diff"}, judged)

(* A run whose process exits ends its session, and a launcher whose        *)
(* requests are answered hears of it, as often as it takes up following    *)
(* again, unless the supervisor stops, a record is rejected or another     *)
(* client ends the session (execute, completeWithUsageGap, watchCommand).  *)
LaunchSettles ==
  []<>(\/ ~up \/ faults > 0 \/ other # "idle"
       \/ child = "running"
       \/ session.state \in Terminal /\ follower.at \in {"done", "gone"})
=============================================================================
