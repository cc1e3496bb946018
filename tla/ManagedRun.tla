----------------------------- MODULE ManagedRun -----------------------------
(***************************************************************************)
(* One managed run of the supervisor: service.ts, startRun, launchRun,     *)
(* execute and their helpers.                                              *)
(*                                                                         *)
(* The run is a chain of awaited ledger operations around one child        *)
(* process and, if it is isolated, one Git worktree; integrations may      *)
(* append to its session meanwhile and any client may complete it.  Each   *)
(* action is one operation answered and what follows up to the next one;   *)
(* an operation on an ended session is refused, and one may be rejected by *)
(* the file system (without leaving its event: EvidenceLedger has both     *)
(* cases).  `log' holds kinds only; captured output is as many events as   *)
(* it appends.                                                             *)
(***************************************************************************)
EXTENDS Integers, Sequences, SequencesExt

CONSTANTS
  Contracts,   (* what a launch contract says of the command, or "none"     *)
  MaxOutputs,  (* bound: output and truncation events of the process        *)
  MaxIncidents (* bound: ledger operations that the file system rejects,    *)
               (* events of integrations, outside completions and stops     *)

ASSUME RunAssumption ==
  /\ Contracts \subseteq {"none", "allows", "refuses"}
  /\ MaxOutputs \in Nat /\ MaxIncidents \in Nat

Terminal == {"completed", "failed", "interrupted"}
Endings == {"session.completed", "session.failed", "session.interrupted"}
Outcomes == {"process.succeeded", "process.exited", "process.failed"}
Kinds ==
  {"session.started", "policy.decision", "worktree.created", "process.started",
   "process.output", "workspace.diff", "worktree.removed", "worktree.unremoved",
   "usage.unavailable", "usage.reported"} \cup Outcomes \cup Endings

VARIABLES
  run,     (* the request, and where startRun() or execute() is             *)
  session, (* the record: its state and what it knows of usage              *)
  log,     (* kinds of the retained events                                  *)
  tree,    (* the isolated worktree: stuck when git failed to remove it,    *)
           (* missing when it failed because it was gone                    *)
  child,   (* the process                                                   *)
  other,   (* an outside POST /complete                                     *)
  outside, faults,
  up       (* the supervisor is running                                     *)

runVars == << run, session, log, tree, child, other, outside, faults, up >>

Places ==
  {"requested", "deciding", "placing", "announcing", "starting", "spawning", "running",
   "reporting", "diffing", "outcome", "removing", "removed", "ending", "gapping", "closing",
   "saving", "over", "abandoned"}

RunTypeOK ==
  /\ run \in [at : Places, contract : Contracts, isolated : BOOLEAN, answered : BOOLEAN,
              ending : Terminal, rescue : BOOLEAN, outputs : 0 .. MaxOutputs]
  /\ session \in [state : {"none", "running"} \cup Terminal, usage : {"unknown", "explained", "known"}]
  /\ log \in Seq(Kinds)
  /\ tree \in {"none", "present", "removed", "stuck", "missing"}
  /\ child \in {"none", "running", "exited"}
  /\ other \in {"idle", "gapping", "closing", "saving", "done", "refused"}
  /\ outside \in 0 .. MaxIncidents /\ faults \in 0 .. MaxIncidents /\ up \in BOOLEAN

RunInit ==
  /\ run \in [at : {"requested"}, contract : Contracts, isolated : BOOLEAN, answered : {FALSE},
              ending : {"failed"}, rescue : {FALSE}, outputs : {0}]
  /\ session = [state |-> "none", usage |-> "unknown"]
  /\ log = << >> /\ tree = "none" /\ child = "none" /\ other = "idle"
  /\ outside = 0 /\ faults = 0 /\ up = TRUE

At(place) == up /\ run.at = place
Goto(place) == run' = [run EXCEPT !.at = place]
Running == session.state = "running"
MayDisturb ==
  outside + faults + (IF other = "idle" THEN 0 ELSE 1) + (IF up THEN 0 ELSE 1) < MaxIncidents

-----------------------------------------------------------------------------
(* startRun() and launchRun(), up to the answer.                           *)

CreateSession ==
  /\ At("requested")
  /\ session' = [session EXCEPT !.state = "running"]
  /\ log' = << "session.started" >>
  /\ Goto(IF run.contract = "none" THEN "placing" ELSE "deciding")
  /\ UNCHANGED << tree, child, other, outside, faults, up >>

(* An append that is answered takes the run on.                            *)
Appends(place, kind) ==
  /\ At(place) /\ Running
  /\ log' = Append(log, kind)
  /\ UNCHANGED << tree, child, other, outside, faults, up >>

(* A refused command ends its session; nothing is started.                 *)
Decide ==
  /\ Appends("deciding", "policy.decision")
  /\ Goto(IF run.contract = "refuses" THEN "ending" ELSE "placing")
  /\ UNCHANGED session

(* The answer is sent once the run has a place to work in.                 *)
Place ==
  /\ At("placing")
  /\ \/ /\ ~run.isolated
        /\ run' = [run EXCEPT !.at = "starting", !.answered = TRUE]
        /\ UNCHANGED tree
     \/ /\ run.isolated /\ tree' = "present"
        /\ Goto("announcing")
     \/ /\ run.isolated /\ Goto("ending")
        /\ UNCHANGED tree
  /\ UNCHANGED << session, log, child, other, outside, faults, up >>

AnnounceWorktree ==
  /\ Appends("announcing", "worktree.created")
  /\ run' = [run EXCEPT !.at = "starting", !.answered = TRUE]
  /\ UNCHANGED session

-----------------------------------------------------------------------------
(* execute().                                                              *)

StartProcess ==
  /\ Appends("starting", "process.started")
  /\ Goto("spawning")
  /\ UNCHANGED session

(* What its catch does, from the beginning.                                *)
Rescued == [run EXCEPT !.at = "diffing", !.rescue = TRUE, !.ending = "failed"]

(* Mutant: nobody listens for a process that could not be spawned.         *)
SpawnUnheard ==
  /\ At("spawning")
  /\ Goto("running")
  /\ \/ child' = "running"
     \/ UNCHANGED child
  /\ UNCHANGED << session, log, tree, other, outside, faults, up >>

Spawn ==
  /\ At("spawning")
  /\ \/ Goto("running") /\ child' = "running"
     \/ run' = Rescued /\ UNCHANGED child
  /\ UNCHANGED << session, log, tree, other, outside, faults, up >>

(* The child's own doing: it needs no supervisor.                          *)
ChildExits ==
  /\ child = "running" /\ child' = "exited"
  /\ UNCHANGED << run, session, log, tree, other, outside, faults, up >>

ChildClosed ==
  /\ At("running") /\ child = "exited"
  /\ \E ending \in {"completed", "failed"} :
       run' = [run EXCEPT !.at = "reporting", !.ending = ending]
  /\ UNCHANGED << session, log, tree, child, other, outside, faults, up >>

RecordOutput ==
  /\ Appends("reporting", "process.output")
  /\ run.outputs < MaxOutputs
  /\ run' = [run EXCEPT !.outputs = @ + 1]
  /\ UNCHANGED session

OutputRecorded ==
  /\ At("reporting")
  /\ Goto("diffing")
  /\ UNCHANGED << session, log, tree, child, other, outside, faults, up >>

RecordDiff ==
  /\ Appends("diffing", "workspace.diff")
  /\ Goto("outcome")
  /\ UNCHANGED session

Outcome ==
  CASE run.rescue -> "process.failed"
    [] ~run.rescue /\ run.ending = "completed" -> "process.succeeded"
    [] OTHER -> "process.exited"

(* Mutant: the session is ended before its worktree is removed.            *)
RecordOutcomeEnding ==
  /\ Appends("outcome", Outcome)
  /\ Goto("ending")
  /\ UNCHANGED session

RecordOutcome ==
  /\ Appends("outcome", Outcome)
  /\ Goto(IF tree = "none" THEN "ending" ELSE "removing")
  /\ UNCHANGED session

(* git worktree remove fails for one that is gone, and may fail otherwise. *)
RemoveWorktree ==
  /\ At("removing")
  /\ tree' \in IF tree = "removed" THEN {"missing"} ELSE {"removed", "stuck"}
  /\ Goto("removed")
  /\ UNCHANGED << session, log, child, other, outside, faults, up >>

(* A failed removal is a worktree.removed of grade unknown.                *)
Removal == IF tree = "removed" THEN "worktree.removed" ELSE "worktree.unremoved"

RecordRemoval ==
  /\ Appends("removed", Removal)
  /\ Goto("ending")
  /\ UNCHANGED session

-----------------------------------------------------------------------------
(* completeWithUsageGap(), of the run and of an outside client.            *)

FirstPart == IF session.usage = "unknown" THEN "gapping" ELSE "closing"
Explained == [session EXCEPT !.usage = IF @ = "unknown" THEN "explained" ELSE @]
EndingOf(state) ==
  CASE state = "completed" -> "session.completed" [] state = "failed" -> "session.failed"
    [] OTHER -> "session.interrupted"

EndRun ==
  \/ /\ At("ending") /\ Goto(FirstPart)
     /\ UNCHANGED << session, log, tree, child, other, outside, faults, up >>
  \/ /\ Appends("gapping", "usage.unavailable")
     /\ session' = Explained
     /\ Goto("closing")
  \/ /\ Appends("closing", EndingOf(run.ending))
     /\ Goto("saving")
     /\ UNCHANGED session
  \/ /\ At("saving")
     /\ session' = [session EXCEPT !.state = run.ending]
     /\ run' = [run EXCEPT !.at = "over", !.answered = TRUE]
     /\ UNCHANGED << log, tree, child, other, outside, faults, up >>

(* Steps of execute() inside its try.                                      *)
Tried == {"reporting", "diffing", "outcome", "removed", "gapping", "closing", "saving"}

(* A failure while the process is being recorded starts the catch, one in  *)
(* the catch or before the try leaves the run as it is.                    *)
Rejection ==
  IF run.at \in Tried /\ ~run.rescue /\ "process.started" \in Range(log)
    THEN Rescued
    ELSE [run EXCEPT !.at = "abandoned", !.answered = TRUE]

Refused ==
  /\ up /\ ~Running
  /\ run.at \in {"deciding", "announcing", "starting", "reporting", "diffing", "outcome", "removed",
                 "gapping", "closing"}
  /\ run' = Rejection
  /\ UNCHANGED << session, log, tree, child, other, outside, faults, up >>

(* A record that could not be stored is the cached one all the same.       *)
OperationRejects ==
  /\ up /\ MayDisturb
  /\ run.at \in Tried \cup {"deciding", "announcing", "starting"}
  /\ faults' = faults + 1
  /\ run' = Rejection
  /\ session' = IF run.at = "saving" THEN [session EXCEPT !.state = run.ending] ELSE session
  /\ UNCHANGED << log, tree, child, other, outside, up >>

-----------------------------------------------------------------------------
(* Everybody else.                                                         *)

(* completeSession() for a client that may not own the run.                *)
OtherCompletes ==
  /\ up /\ session.state # "none"
  /\ \/ /\ other = "idle" /\ MayDisturb /\ other' = FirstPart
        /\ UNCHANGED << session, log >>
     \/ /\ other = "gapping" /\ Running /\ other' = "closing"
        /\ log' = Append(log, "usage.unavailable") /\ session' = Explained
     \/ /\ other = "closing" /\ Running /\ other' = "saving"
        /\ log' = Append(log, "session.interrupted") /\ UNCHANGED session
     \/ /\ other = "saving" /\ other' = "done"
        /\ session' = [session EXCEPT !.state = "interrupted"] /\ UNCHANGED log
     \/ /\ other \in {"gapping", "closing"} /\ ~Running /\ other' = "refused"
        /\ UNCHANGED << session, log >>
  /\ UNCHANGED << run, tree, child, outside, faults, up >>

(* reportUsage(); appendIntegrationEvent() does the same but for the usage. *)
IntegrationAppends ==
  /\ up /\ Running /\ MayDisturb
  /\ outside' = outside + 1
  /\ log' = Append(log, "usage.reported")
  /\ session' = [session EXCEPT !.usage = "known"]
  /\ UNCHANGED << run, tree, child, other, faults, up >>

(* close() and a crash leave managed runs as they are, their child too.    *)
SupervisorStops ==
  /\ up /\ MayDisturb /\ up' = FALSE
  /\ UNCHANGED << run, session, log, tree, child, other, outside, faults >>

RunWorks ==
  \/ CreateSession \/ Decide \/ Place \/ AnnounceWorktree
  \/ StartProcess \/ Spawn \/ ChildClosed \/ RecordOutput \/ OutputRecorded
  \/ RecordDiff \/ RecordOutcome \/ RemoveWorktree \/ RecordRemoval \/ EndRun \/ Refused

RunNext ==
  \/ RunWorks \/ ChildExits \/ OperationRejects
  \/ OtherCompletes \/ IntegrationAppends \/ SupervisorStops
=============================================================================
