---------------------------- MODULE PolicyConsole ----------------------------
(***************************************************************************)
(* The policy console: its controller (apps/policy-console/controller.mjs),*)
(* one page (public/app.js) that calls it over HTTP (server.mjs), and what *)
(* they use of the supervisor's sessions (modules ContractSession and      *)
(* ContractExecution): a session is finalized by the complete, cancel or   *)
(* deadline that comes first, later ones join it, and a finalization that  *)
(* must be verified may be refused; a cancel stops the executor.  Any      *)
(* request may fail for the console, whatever became of it.                *)
(*                                                                         *)
(* Commands of the page are calls into the controller that interleave at   *)
(* their awaits.  The page's pending counter is the number of calls that   *)
(* have not finished, the refresh after an answer included.                *)
(***************************************************************************)
EXTENDS Integers, FiniteSets

CONSTANTS
  Calls,         (* bound: commands of the page in progress at once         *)
  MaxSessions,   (* bound: sessions made                                    *)
  Policies

ASSUME ConsoleAssumption == MaxSessions \in Nat \ {0}

VARIABLES
  running, stopping,   (* the controller's flags                            *)
  session,             (* this.session                                      *)
  initializing,        (* the newSession of a start is unfinished           *)
  policyYaml, activePolicy,
  enforced,            (* the contract of this.session at the supervisor    *)
  call,                (* each command's progress                           *)
  job,                 (* runScenario's progress                            *)
  sessions,            (* the supervisor's sessions                         *)
  seen,                (* the page: the running flag it last rendered       *)
  refresh              (* the one that its GET /api/state carries           *)

flags == << running, stopping, session, initializing >>
policy == << policyYaml, activePolicy, enforced >>
page == << seen, refresh >>
vars == << flags, policy, call, job, sessions, page >>

Sessions == 1 .. MaxSessions
Ops == {"run", "stop", "reset", "act", "complete"}
Finishing == {"ending", "cancelling", "completing"}
Places == {"idle", "checking", "creating", "acting", "initializing", "joining",
           "ok", "error", "refreshing"} \cup Finishing
JobPlaces == {"none", "acting", "early", "repairing", "final", "failing"}

Progress == {"sent", "joined", "ok", "refused", "error"}

Idle == [op |-> "act", at |-> "idle", target |-> 1, got |-> "sent"]
NoJob == [at |-> "none", of |-> 1, target |-> 1, got |-> "sent"]

(* A session, and whether the console had the answer that it was made.     *)
Made(origin) == [state |-> "running", stopped |-> FALSE, fin |-> "none", origin |-> origin]
Ended(x) == [x EXCEPT !.state = "ended", !.stopped = TRUE, !.fin = "none"]

TypeOK ==
  /\ running \in BOOLEAN /\ stopping \in BOOLEAN /\ initializing \in BOOLEAN
  /\ session \in Sessions
  /\ policyYaml \in Policies /\ activePolicy \in Policies /\ enforced \in Policies
  /\ call \in [Calls -> [op : Ops, at : Places, target : Sessions, got : Progress]]
  /\ job \in [at : JobPlaces, of : Sessions, target : Sessions, got : Progress]
  /\ DOMAIN sessions = 1 .. Cardinality(DOMAIN sessions)
  /\ session \in DOMAIN sessions /\ DOMAIN sessions \subseteq Sessions
  /\ sessions \in [DOMAIN sessions ->
       [state : {"running", "ended"}, stopped : BOOLEAN, fin : {"none", "gated", "plain"},
        origin : {"answered", "unheard"}]]
  /\ seen \in BOOLEAN
  /\ refresh \in {"none", "idle", "running"}

(* ready() has made the first session and the page has rendered it.        *)
Init ==
  /\ running = FALSE /\ stopping = FALSE /\ session = 1 /\ initializing = FALSE
  /\ policyYaml \in Policies /\ activePolicy = policyYaml /\ enforced = policyYaml
  /\ call = [c \in Calls |-> Idle]
  /\ job = NoJob
  /\ sessions = [s \in {1} |-> Made("answered")]
  /\ seen = FALSE /\ refresh = "none"

-----------------------------------------------------------------------------
(* The page.                                                               *)
Pending == \E c \in Calls : call[c].at # "idle"

(* Mutant: the buttons forget the commands in progress.                   *)
EnabledWhilePending(op) == IF op = "stop" THEN seen ELSE ~seen

(* renderButtons(): whether the button of op is enabled.  An ended         *)
(* session's buttons are left enabled: its commands are answered.          *)
Enabled(op) == IF op = "stop" THEN seen ELSE ~seen /\ ~Pending

Ends(c, at) == call' = [call EXCEPT ![c] = [Idle EXCEPT !.at = at]]
Requests(c, at, s) ==
  call' = [call EXCEPT ![c] = [@ EXCEPT !.at = at, !.target = s, !.got = "sent"]]
Begins(c, op, at, s) ==
  call' = [call EXCEPT ![c] = [op |-> op, at |-> at, target |-> s, got |-> "sent"]]

(* GET /api/state: snapshot() reads running after its own requests, the    *)
(* page has its answer later.                                              *)
Snapshot == refresh' = IF running THEN "running" ELSE "idle"

StartRefresh ==
  /\ refresh = "none"
  /\ Snapshot
  /\ UNCHANGED << flags, policy, call, job, sessions, seen >>

(* The refresh that a command awaits, if it is its own, ends with it.      *)
Render ==
  /\ refresh # "none"
  /\ seen' = (refresh = "running")
  /\ refresh' = "none"
  /\ call' = [c \in Calls |-> IF call[c].at = "refreshing" THEN Idle ELSE call[c]]
  /\ UNCHANGED << flags, policy, job, sessions >>

(* command(): after an answer the page refreshes, unless a refresh is in   *)
(* flight; after an error it does not.                                     *)
Answered(c) ==
  /\ call[c].at \in {"ok", "error"}
  /\ IF call[c].at = "ok" /\ refresh = "none"
       THEN Ends(c, "refreshing") /\ Snapshot
       ELSE Ends(c, "idle") /\ UNCHANGED refresh
  /\ UNCHANGED << flags, policy, job, sessions, seen >>

Clicks(c, op) == call[c].at = "idle" /\ Enabled(op)

(* The bound on sessions.                                                  *)
Room == Cardinality(DOMAIN sessions) < MaxSessions

(* What a command does when a run is active: it throws.                    *)
Refused(c) == Ends(c, "error") /\ UNCHANGED flags

-----------------------------------------------------------------------------
(* The controller's commands, up to their first request.                   *)
Start(c) ==
  /\ Clicks(c, "run")
  /\ \/ running /\ Refused(c)
     \/ /\ ~running /\ Room
        /\ running' = TRUE /\ stopping' = FALSE /\ initializing' = TRUE
        /\ Begins(c, "run", "checking", session)
        /\ UNCHANGED session
  /\ UNCHANGED << policy, job, sessions, page >>

Reset(c) ==
  /\ Clicks(c, "reset")
  /\ \/ running /\ Refused(c)
     \/ /\ ~running /\ Room
        /\ running' = TRUE
        /\ Begins(c, "reset", "checking", session)
        /\ UNCHANGED << stopping, session, initializing >>
  /\ UNCHANGED << policy, job, sessions, page >>

(* perform(), transition() and complete().                                 *)
Perform(c, op) ==
  /\ op \in {"act", "complete"}
  /\ Clicks(c, op)
  /\ \/ running /\ Refused(c)
     \/ /\ ~running
        /\ Begins(c, op, IF op = "act" THEN "acting" ELSE "completing", session)
        /\ UNCHANGED flags
  /\ UNCHANGED << policy, job, sessions, page >>

(* stop(): without a start to wait for, it cancels the current session.    *)
Stop(c) ==
  /\ Clicks(c, "stop")
  /\ stopping' = TRUE
  /\ IF initializing
       THEN Begins(c, "stop", "initializing", 1)
       ELSE Begins(c, "stop", "cancelling", session)
  /\ UNCHANGED << running, session, initializing, policy, job, sessions, page >>

SetPolicy(p) ==
  /\ p # policyYaml
  /\ policyYaml' = p
  /\ UNCHANGED << flags, activePolicy, enforced, call, job, sessions, page >>

-----------------------------------------------------------------------------
(* newSession() fails or succeeds: what its caller and, for a start, the   *)
(* stops that wait for this.initializing do next.                          *)
After(c, at, stops) ==
  [d \in Calls |->
     IF d = c THEN [Idle EXCEPT !.at = at]
     ELSE IF call[d].at = "initializing" /\ call[c].op = "run" THEN stops
     ELSE call[d]]

NewSessionFails(c) ==
  /\ running' = FALSE
  /\ initializing' = (initializing /\ call[c].op # "run")
  /\ call' = After(c, "error", [Idle EXCEPT !.at = "error"])
  /\ UNCHANGED << session, stopping >>

Create(c) ==
  /\ activePolicy' = policyYaml
  /\ Requests(c, "creating", 1)

(* The answer to GET /v1/sessions/<current>.                               *)
Check(c) ==
  /\ call[c].at = "checking"
  /\ IF sessions[call[c].target].state = "running"
       THEN Requests(c, "ending", session) /\ UNCHANGED activePolicy
       ELSE Create(c)
  /\ UNCHANGED << flags, policyYaml, enforced, job, sessions, page >>

(* That request is answered with an error or not at all.                   *)
CheckFails(c) ==
  /\ call[c].at = "checking"
  /\ NewSessionFails(c)
  /\ UNCHANGED << policy, job, sessions, page >>

(* The supervisor makes a session.                                         *)
MakesSession(origin) ==
  LET made == DOMAIN sessions \cup {Cardinality(DOMAIN sessions) + 1}
  IN  /\ made \subseteq Sessions
      /\ sessions' = [s \in made |-> IF s \in DOMAIN sessions THEN sessions[s] ELSE Made(origin)]

(* newSession() resolves; the start launches its job unless stopped.       *)
Makes(c, p) ==
  /\ call[c].at = "creating"
  /\ MakesSession("answered")
  /\ enforced' = p
  /\ session' = Cardinality(DOMAIN sessions')
  /\ call' = After(c, "ok", [op |-> "stop", at |-> "cancelling", target |-> session', got |-> "sent"])
  /\ IF call[c].op = "run"
       THEN /\ initializing' = FALSE
            /\ running' = ~stopping
            /\ job' = IF stopping THEN job
                      ELSE [at |-> "acting", of |-> session', target |-> session', got |-> "sent"]
            /\ UNCHANGED stopping
       ELSE running' = FALSE /\ stopping' = FALSE /\ UNCHANGED << initializing, job >>
  /\ UNCHANGED << policyYaml, activePolicy, page >>

(* Mutant: the contract is read after the request.                        *)
CreatedUnderLatest(c) == Makes(c, policyYaml)

(* The contract was sent when the request was.                             *)
Created(c) == Makes(c, activePolicy)

(* POST /v1/sessions is answered with an error or not at all, before or    *)
(* after the session was made: activePolicy has been replaced by then.     *)
CreateFails(c) ==
  /\ call[c].at = "creating"
  /\ MakesSession("unheard") \/ UNCHANGED sessions
  /\ NewSessionFails(c)
  /\ UNCHANGED << policy, job, page >>

-----------------------------------------------------------------------------
(* The supervisor: a request to finish a session joins the finalization in *)
(* flight or starts one; a session that has ended answers at once.         *)
Open(s) == sessions[s].state = "running"
Works(s) == Open(s) /\ ~sessions[s].stopped /\ sessions[s].fin = "none"

JoinOrStart(s, kind, cancels) ==
  sessions' = [sessions EXCEPT ![s] =
    [@ EXCEPT !.fin = IF sessions[s].fin = "none" THEN kind ELSE sessions[s].fin,
              !.stopped = sessions[s].stopped \/ cancels]]

FinishArrives(c) ==
  /\ call[c].at \in Finishing /\ call[c].got = "sent"
  /\ LET s == call[c].target
         cancels == call[c].at = "cancelling"
     IN  IF Open(s)
           THEN /\ JoinOrStart(s, IF call[c].at = "completing" THEN "gated" ELSE "plain", cancels)
                /\ call' = [call EXCEPT ![c].got = "joined"]
           ELSE /\ call' = [call EXCEPT ![c].got = IF cancels THEN "ok" ELSE "error"]
                /\ UNCHANGED sessions
  /\ UNCHANGED << flags, policy, job, page >>

JobFinishing == job.at \in {"early", "final", "failing"}

JobFinishArrives ==
  /\ JobFinishing /\ job.got = "sent"
  /\ IF Open(job.target)
       THEN /\ JoinOrStart(job.target, IF job.at = "failing" THEN "plain" ELSE "gated", FALSE)
            /\ job' = [job EXCEPT !.got = "joined"]
       ELSE job' = [job EXCEPT !.got = "error"] /\ UNCHANGED sessions
  /\ UNCHANGED << flags, policy, call, page >>

(* The deadline of a session passes.                                       *)
Expire(s) ==
  /\ Open(s) /\ ~sessions[s].stopped
  /\ JoinOrStart(s, "plain", TRUE)
  /\ UNCHANGED << flags, policy, call, job, page >>

(* The finalization ends and answers all who joined it; one that must be   *)
(* verified may be refused, and the session goes on.                       *)
Finalize(s) ==
  /\ Open(s) /\ sessions[s].fin # "none"
  /\ \E answer \in {"ok", "refused"} :
       /\ answer = "refused" => sessions[s].fin = "gated"
       /\ sessions' = [sessions EXCEPT ![s] =
            IF answer = "ok" THEN Ended(@) ELSE [@ EXCEPT !.fin = "none"]]
       /\ call' = [c \in Calls |->
            IF call[c].at \in Finishing /\ call[c].got = "joined" /\ call[c].target = s
              THEN [call[c] EXCEPT !.got = answer] ELSE call[c]]
       /\ job' = IF JobFinishing /\ job.got = "joined" /\ job.target = s
                   THEN [job EXCEPT !.got = answer] ELSE job
  /\ UNCHANGED << flags, policy, page >>

(* The controller's client stops waiting for the answer to its finish.     *)
FinishTimesOut(c) ==
  /\ call[c].at \in Finishing /\ call[c].got \in {"sent", "joined"}
  /\ call' = [call EXCEPT ![c].got = "error"]
  /\ UNCHANGED << flags, policy, job, sessions, page >>

JobTimesOut ==
  /\ JobFinishing /\ job.got \in {"sent", "joined"}
  /\ job' = [job EXCEPT !.got = "error"]
  /\ UNCHANGED << flags, policy, call, sessions, page >>

-----------------------------------------------------------------------------
(* The answers, in the controller.                                         *)
FinishAnswered(c) ==
  /\ call[c].at \in Finishing /\ call[c].got \in {"ok", "refused", "error"}
  /\ CASE call[c].got # "ok" /\ call[c].at = "ending" ->
            NewSessionFails(c) /\ UNCHANGED activePolicy
       [] call[c].got # "ok" /\ call[c].at # "ending" ->
            Ends(c, "error") /\ UNCHANGED << flags, activePolicy >>
       [] call[c].got = "ok" /\ call[c].at = "ending" -> Create(c) /\ UNCHANGED flags
       [] OTHER -> /\ IF call[c].at = "cancelling"
                        THEN Begins(c, "stop", "joining", 1)
                        ELSE Ends(c, "ok")
                   /\ UNCHANGED << flags, activePolicy >>
  /\ UNCHANGED << policyYaml, enforced, job, sessions, page >>

(* An action or a transition is answered, whatever became of it.           *)
ActAnswered(c) ==
  /\ call[c].at = "acting"
  /\ \E answer \in {"ok", "error"} : Ends(c, answer)
  /\ UNCHANGED << flags, policy, job, sessions, page >>

(* Mutant: stop() does not wait for the job.                              *)
StopUnjoined(c) ==
  /\ call[c].at = "joining"
  /\ running' = FALSE
  /\ Ends(c, "ok")
  /\ UNCHANGED << stopping, session, initializing, policy, job, sessions, page >>

(* stop() resumes: the job it awaited is over.                             *)
StopJoined(c) ==
  /\ call[c].at = "joining" /\ job.at = "none"
  /\ running' = FALSE
  /\ Ends(c, "ok")
  /\ UNCHANGED << stopping, session, initializing, policy, job, sessions, page >>

-----------------------------------------------------------------------------
(* runScenario().                                                          *)
JobOver == job' = NoJob /\ running' = FALSE

JobRequests(at) ==
  job' = [job EXCEPT !.at = at, !.target = session, !.got = "sent"] /\ UNCHANGED running

(* Mutant: a run that throws leaves the flag.                             *)
JobThrowsUnreset ==
  IF stopping \/ job.at = "failing"
    THEN job' = NoJob /\ UNCHANGED running
    ELSE JobRequests("failing")

(* The catch: a run that was not stopped completes its session as failed.  *)
JobThrows == IF stopping \/ job.at = "failing" THEN JobOver ELSE JobRequests("failing")

(* An action looks at stopping first, a completion does not.               *)
JobActs(at) == IF stopping THEN JobThrows ELSE JobRequests(at)

(* An action is answered as the scenario expects or it throws.             *)
JobActed ==
  /\ job.at \in {"acting", "repairing"}
  /\ \/ /\ Works(job.target)
        /\ \/ JobActs(job.at)
           \/ JobRequests(IF job.at = "acting" THEN "early" ELSE "final")
     \/ JobThrows
  /\ UNCHANGED << stopping, session, initializing, policy, call, sessions, page >>

(* The first completion is to be refused, the last to be accepted.         *)
JobFinished ==
  /\ JobFinishing /\ job.got \in {"ok", "refused", "error"}
  /\ CASE job.at = "early" /\ job.got = "refused" -> JobActs("repairing")
       [] job.at = "final" /\ job.got = "ok" -> JobOver
       [] OTHER -> JobThrows
  /\ UNCHANGED << stopping, session, initializing, policy, call, sessions, page >>

-----------------------------------------------------------------------------
CallWorks(c) ==
  \/ Check(c) \/ Created(c) \/ FinishArrives(c) \/ FinishAnswered(c)
  \/ ActAnswered(c) \/ StopJoined(c)

ConsoleWorks ==
  \/ \E c \in Calls : CallWorks(c)
  \/ \E s \in DOMAIN sessions : Finalize(s)
  \/ JobFinishArrives \/ JobActed \/ JobFinished

Next ==
  \/ \E c \in Calls :
       \/ Start(c) \/ Reset(c) \/ Stop(c) \/ Perform(c, "act") \/ Perform(c, "complete")
       \/ CheckFails(c) \/ CreateFails(c) \/ FinishTimesOut(c) \/ Answered(c)
  \/ \E p \in Policies : SetPolicy(p)
  \/ \E s \in DOMAIN sessions : Expire(s)
  \/ JobTimesOut \/ ConsoleWorks
  \/ StartRefresh \/ Render

Spec == Init /\ [][Next]_vars

(* The supervisor answers, promise reactions run: per call, session and    *)
(* job.  Nobody has to click, and the page's refresh owes nothing.         *)
FairSpec ==
  /\ Spec
  /\ \A c \in Calls : WF_vars(CallWorks(c))
  /\ \A s \in Sessions : WF_vars(s \in DOMAIN sessions /\ Finalize(s))
  /\ WF_vars(JobFinishArrives \/ JobActed \/ JobFinished)

-----------------------------------------------------------------------------
(* A scenario acts on the session it was started for and on no other, and  *)
(* the controller says that it runs for as long as it does: no stop, reset *)
(* or second start replaces the session under it or clears the flag early  *)
(* (start, stop, reset, newSession; the page's renderButtons).             *)
AutomationKeepsItsSession ==
  job.at # "none" => running /\ session = job.of

(* Whatever commands overlap and whichever requests fail or come late, the *)
(* supervisor runs no session that the console has forgotten, but for one  *)
(* whose creation was never answered with it (newSession).                 *)
NoForgottenSession ==
  \A s \in DOMAIN sessions : Open(s) => s = session \/ sessions[s].origin = "unheard"

(* While the current session runs, the policy shown as active is the one   *)
(* that the supervisor enforces on it, whatever is saved, and whichever    *)
(* attempt to replace it fails.  Of a session that has ended the console   *)
(* may show the policy of a replacement that could not be made: it assigns *)
(* activePolicy before it asks for the session (newSession, setPolicy).    *)
ActivePolicyEnforced ==
  Open(session) => enforced = activePolicy

(* A stop, even a refused or a lost one, ends the run: the job is over and *)
(* the console accepts commands again (stop, start, runScenario).          *)
StopEndsRun ==
  (\E c \in Calls : call[c].op = "stop" /\ call[c].at \notin {"idle", "ok", "error", "refreshing"})
    ~> (~running /\ job.at = "none")
=============================================================================
