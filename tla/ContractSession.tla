--------------------------- MODULE ContractSession --------------------------
(***************************************************************************)
(* The life of one contract session in the supervisor:                     *)
(* apps/local-supervisor/src/service.ts, with the shutdown of server.ts.   *)
(*                                                                         *)
(* A session is ended by a client's complete, a client's cancel, the       *)
(* deadline timer or the supervisor's close.  All of them go through       *)
(* finishContractSession, which starts a finalization or joins the one in  *)
(* flight; the finalization is a row of awaits, each an action below.      *)
(*                                                                         *)
(* The interceptor is an ActionGate, which module ContractExecution is     *)
(* shown to implement: what clients and the executor do behind it are the  *)
(* gate's actions, and the session stops and drains it.  The ledger (module *)
(* EvidenceLedger) is reduced to the session's state and the terminal      *)
(* events in the log; its terminal check refuses all but decisions.        *)
(* Clients may drop their connection while the supervisor works for them.  *)
(***************************************************************************)
EXTENDS Integers, Sequences, FiniteSets

CONSTANTS
  None,
  Clients,       (* HTTP requests that complete or cancel the session       *)
  Timer, Owner,  (* expireContractSession and close, as callers             *)
  MaxFaults      (* bound: appends and record writes that reject            *)

Callers == Clients \cup {Timer, Owner}
Endings == {"completed", "failed", "interrupted"}
Steps == {"none", "draining", "refusing", "snapshot", "diff", "decisions", "worktree",
          "ending", "saving"}

ASSUME SessionAssumption ==
  /\ None \notin Callers /\ Timer # Owner
  /\ Timer \notin Clients /\ Owner \notin Clients
  /\ MaxFaults \in Nat

VARIABLES
  gated,       (* the contract requires verification before completion      *)
  open,        (* the session is in contractSessions                        *)
  accepting,   (* the interceptor's gate                                    *)
  work,        (* its unfinished requests                                   *)
  verified,    (* evaluateRuntimeCompletion would allow                     *)
  stopped,     (* executor.stop() was called                                *)
  timer,       (* the deadline timer                                        *)
  expired,     (* context.expired                                           *)
  expiry,      (* progress of expireContractSession                         *)
  completion,  (* context.completion: the caller whose finalization runs    *)
  fin,         (* that finalization: its step and the state it will record  *)
  waiting,     (* callers awaiting it                                       *)
  worktree,    (* the isolated worktree, stuck when git failed to remove it *)
  record,      (* the session's state, as the ledger's cache has it         *)
  events,      (* terminal events in the log                                *)
  noted,       (* what its last worktree.removed says of the worktree       *)
  asked,       (* the ending each client asked for                          *)
  answer,      (* each client's answer                                      *)
  attached,    (* clients whose connection is open                          *)
  closing,     (* progress of the supervisor's close                        *)
  faults

clients == << asked, answer, attached >>
executor == << accepting, work, verified, stopped >>
deadline == << timer, expired, expiry >>
finishing == << completion, fin, waiting >>
ledger == << record, events, noted >>
vars == << gated, open, executor, deadline, finishing, worktree, ledger, clients, closing, faults >>

Gate == INSTANCE ActionGate WITH required <- gated, drain <- fin.step

NoFin == [step |-> "none", state |-> "interrupted"]

ExecutorTypeOK ==
  /\ gated \in BOOLEAN /\ open \in BOOLEAN /\ accepting \in BOOLEAN
  /\ verified \in BOOLEAN /\ stopped \in BOOLEAN
  /\ work \in Gate!Work

DeadlineTypeOK ==
  /\ timer \in {"none", "armed", "fired", "cleared"}
  /\ expired \in BOOLEAN
  /\ expiry \in {"idle", "appending", "first", "second", "over"}

FinishingTypeOK ==
  /\ completion \in Callers \cup {None}
  /\ fin \in [step : Steps, state : Endings]
  /\ waiting \subseteq Callers
  /\ completion = None <=> fin.step = "none"
  /\ completion = None => waiting = {}

LedgerTypeOK ==
  /\ worktree \in {"none", "present", "removed", "stuck"}
  /\ noted \in {"none", "removed", "stuck"}
  /\ record \in {"running"} \cup Endings
  /\ events \in Seq(Endings)

ClientsTypeOK ==
  /\ asked \in [Clients -> {"nothing"} \cup Endings]
  /\ answer \in [Clients -> {"none", "pending", "ok", "error"}]
  /\ attached \subseteq Clients

ClosingTypeOK ==
  /\ closing \in {"no", "server", "sessions", "released", "failed"}
  /\ faults \in 0 .. MaxFaults

TypeOK ==
  /\ ExecutorTypeOK /\ DeadlineTypeOK /\ FinishingTypeOK
  /\ LedgerTypeOK /\ ClientsTypeOK /\ ClosingTypeOK

(* createContractSession() has answered: the context is registered and the *)
(* timer, if the contract has a duration, is armed.                        *)
Init ==
  /\ gated \in BOOLEAN
  /\ timer \in {"none", "armed"}
  /\ worktree \in {"none", "present"}
  /\ open = TRUE /\ accepting = TRUE /\ work = "idle" /\ verified = ~gated
  /\ stopped = FALSE /\ expired = FALSE /\ expiry = "idle"
  /\ completion = None /\ fin = NoFin /\ waiting = {}
  /\ record = "running" /\ events = << >> /\ noted = "none"
  /\ asked = [c \in Clients |-> "nothing"]
  /\ answer = [c \in Clients |-> "none"]
  /\ attached = Clients
  /\ closing = "no" /\ faults = 0

-----------------------------------------------------------------------------
(* finishContractSession(): start a finalization, whose first statement is *)
(* drain()'s closing of the gate, or wait for the one in flight.           *)
Finish(c, state) ==
  /\ waiting' = waiting \cup {c}
  /\ IF completion = None
       THEN /\ completion' = c
            /\ fin' = [step |-> "draining", state |-> state]
            /\ accepting' = FALSE
       ELSE UNCHANGED << completion, fin, accepting >>

Requested(c, state) ==
  /\ closing = "no"
  /\ answer[c] = "none"
  /\ asked' = [asked EXCEPT ![c] = state]

CompleteSession(c, state) ==
  /\ Requested(c, state)
  /\ IF open
       THEN Finish(c, state) /\ answer' = [answer EXCEPT ![c] = "pending"]
       ELSE answer' = [answer EXCEPT ![c] = "error"] /\ UNCHANGED << finishing, accepting >>
  /\ UNCHANGED << gated, open, work, verified, stopped, deadline, worktree, ledger, attached,
                  closing, faults >>

CancelSession(c) ==
  /\ Requested(c, "interrupted")
  /\ IF record = "running"
       THEN /\ Gate!Stops
            /\ Finish(c, "interrupted")
            /\ answer' = [answer EXCEPT ![c] = "pending"]
       ELSE /\ answer' = [answer EXCEPT ![c] = "ok"]
            /\ UNCHANGED << finishing, accepting, work, stopped >>
  /\ UNCHANGED << gated, open, verified, deadline, worktree, ledger, attached,
                  closing, faults >>

Disconnect(c) ==
  /\ c \in attached
  /\ answer[c] = "pending"
  /\ attached' = attached \ {c}
  /\ UNCHANGED << gated, open, executor, deadline, finishing, worktree, ledger, asked, answer,
                  closing, faults >>

(* A client's action is accepted; it goes on and settles, whatever its     *)
(* executor did.                                                           *)
StartAction ==
  /\ closing = "no" /\ open
  /\ UNCHANGED << open, deadline, finishing, worktree, ledger, clients, closing, faults >>
  /\ Gate!LetIn

(* When close() fails the process exits (main.ts).                         *)
Alive == closing # "failed"

ActionGoesOn ==
  /\ Alive
  /\ UNCHANGED << open, deadline, finishing, worktree, ledger, clients, closing, faults >>
  /\ Gate!GoOn

(* Behind a closed gate the last action settles.                           *)
ChainEnds == ActionGoesOn /\ ~accepting /\ work' = "idle"

-----------------------------------------------------------------------------
(* expireContractSession().                                                *)

Expire ==
  /\ Alive
  /\ timer = "armed" /\ open
  /\ timer' = "fired" /\ expired' = TRUE /\ expiry' = "appending" /\ Gate!Stops
  /\ UNCHANGED << gated, open, accepting, verified, finishing, worktree, ledger, clients,
                  closing, faults >>

ExpiryRecorded ==
  /\ Alive
  /\ expiry = "appending"
  /\ IF open
       THEN expiry' = "first" /\ Finish(Timer, "interrupted")
       ELSE expiry' = "over" /\ UNCHANGED << finishing, accepting >>
  /\ UNCHANGED << gated, open, work, verified, stopped, timer, expired, worktree, ledger,
                  clients, closing, faults >>

(* The expiration decision is not retained: the promise is dropped.        *)
ExpiryUnrecorded ==
  /\ Alive
  /\ expiry = "appending"
  /\ faults < MaxFaults /\ faults' = faults + 1
  /\ expiry' = "over"
  /\ UNCHANGED << gated, open, executor, timer, expired, finishing, worktree, ledger, clients,
                  closing >>

-----------------------------------------------------------------------------
(* finalizeContractSession().                                              *)

At(step) == completion # None /\ fin.step = step

Goto(step) == fin' = [fin EXCEPT !.step = step] /\ UNCHANGED << completion, waiting >>

AnswerWaiting(a) ==
  answer' = [c \in Clients |-> IF c \in waiting THEN a ELSE answer[c]]

(* Mutant: the deadline gives up when the finalization it joined fails.    *)
RejectWithoutRetry ==
  /\ AnswerWaiting("error")
  /\ closing' = IF Owner \in waiting THEN "failed" ELSE closing
  /\ completion' = None /\ fin' = NoFin /\ waiting' = {}
  /\ expiry' = IF Timer \in waiting THEN "over" ELSE expiry

(* The finalization throws: its promise is forgotten and everyone waiting  *)
(* is told.  If close() waited it rejects and main.ts exits the process;   *)
(* else the deadline, if it waited, tries once more by itself before any   *)
(* other request is read.  Each use says what becomes of accepting.        *)
Reject ==
  /\ AnswerWaiting("error")
  /\ closing' = IF Owner \in waiting THEN "failed" ELSE closing
  /\ IF Timer \in waiting /\ expiry = "first" /\ Owner \notin waiting
       THEN /\ completion' = Timer /\ waiting' = {Timer} /\ expiry' = "second"
            /\ fin' = [step |-> "draining", state |-> "interrupted"]
       ELSE /\ completion' = None /\ fin' = NoFin /\ waiting' = {}
            /\ expiry' = IF Timer \in waiting THEN "over" ELSE expiry

Refuses == fin.state = "completed" /\ ~verified

(* Mutant: the deadline is disarmed before the session is drained.         *)
DrainEndsDisarmed ==
  /\ At("draining")
  /\ work = "idle"
  /\ timer' = (IF timer = "armed" THEN "cleared" ELSE timer)
  /\ IF Refuses
       THEN accepting' = TRUE /\ Goto("refusing")
       ELSE Goto("snapshot") /\ UNCHANGED accepting
  /\ UNCHANGED << gated, open, work, verified, stopped, expired, expiry, worktree, ledger,
                  clients, closing, faults >>

(* The chain is empty.  A refusal reopens the gate before it is retained;  *)
(* otherwise the timer is cleared.                                         *)
DrainEnds ==
  /\ At("draining")
  /\ work = "idle"
  /\ IF Refuses
       THEN accepting' = TRUE /\ Goto("refusing") /\ UNCHANGED timer
       ELSE /\ timer' = (IF timer = "armed" THEN "cleared" ELSE timer)
            /\ Goto("snapshot") /\ UNCHANGED accepting
  /\ UNCHANGED << gated, open, work, verified, stopped, expired, expiry, worktree, ledger,
                  clients, closing, faults >>

RefusalThrown ==
  /\ At("refusing")
  /\ Reject
  /\ accepting' = (accepting /\ completion' = None)
  /\ UNCHANGED << gated, open, work, verified, stopped, timer, expired, worktree, ledger,
                  asked, attached, faults >>

Snapshot ==
  /\ At("snapshot")
  /\ record = "running"
  /\ Gate!Stops
  /\ Goto("diff")
  /\ UNCHANGED << gated, open, accepting, verified, deadline, worktree, ledger, clients,
                  closing, faults >>

(* workspace.diff and the contract's decisions are retained.               *)
Diff ==
  /\ At("diff")
  /\ Goto("decisions")
  /\ UNCHANGED << gated, open, executor, deadline, worktree, ledger, clients, closing, faults >>

Decisions ==
  /\ At("decisions")
  /\ Goto("worktree")
  /\ UNCHANGED << gated, open, executor, deadline, worktree, ledger, clients, closing, faults >>

(* Mutant: an expired session ends as its caller asked.                    *)
EndingOfCaller == fin.state

(* completeWithUsageGap()'s argument, evaluated when it is called.         *)
Ending == IF expired THEN "interrupted" ELSE fin.state

(* git worktree remove: what becomes of the worktree and what the log is   *)
(* told.  It may fail, and does when the worktree is already gone.         *)
Removals ==
  CASE worktree = "none" -> {<< "none", "none" >>}
    [] worktree = "removed" -> {<< "removed", "stuck" >>}
    [] OTHER -> {<< "removed", "removed" >>, << "stuck", "stuck" >>}

(* Mutant: the worktree of a completed session is kept.                    *)
RemoveWorktreeUnlessCompleted ==
  /\ At("worktree")
  /\ \E removal \in IF fin.state = "completed" THEN {<< worktree, noted >>} ELSE Removals :
       worktree' = removal[1] /\ noted' = removal[2]
  /\ fin' = [step |-> "ending", state |-> Ending]
  /\ UNCHANGED << gated, open, executor, deadline, completion, waiting, record, events, clients,
                  closing, faults >>

RemoveWorktree ==
  /\ At("worktree")
  /\ \E removal \in Removals : worktree' = removal[1] /\ noted' = removal[2]
  /\ fin' = [step |-> "ending", state |-> Ending]
  /\ UNCHANGED << gated, open, executor, deadline, completion, waiting, record, events, clients,
                  closing, faults >>

AppendEnding ==
  /\ At("ending")
  /\ events' = Append(events, fin.state)
  /\ Goto("saving")
  /\ UNCHANGED << gated, open, executor, deadline, worktree, record, noted, clients, closing,
                  faults >>

(* ledger.complete() resolved: the context is dropped, everyone answered.  *)
SaveEnding ==
  /\ At("saving")
  /\ record' = fin.state
  /\ open' = FALSE
  /\ AnswerWaiting("ok")
  /\ closing' = IF Owner \in waiting THEN "released" ELSE closing
  /\ expiry' = IF Timer \in waiting THEN "over" ELSE expiry
  /\ completion' = None /\ fin' = NoFin /\ waiting' = {}
  /\ UNCHANGED << gated, executor, timer, expired, worktree, events, noted, asked, attached,
                  faults >>

(* A step's append rejects: because the ledger already calls the session   *)
(* terminal (an earlier ledger.complete rejected after updating its        *)
(* cache), or because the store failed, before or after the write took     *)
(* effect; decisions are accepted even then.  The worktree has been tried  *)
(* before its note is appended.                                            *)
StepFails ==
  /\ completion # None /\ fin.step \notin {"draining", "refusing"}
  /\ \/ fin.step = "snapshot" /\ record # "running" /\ UNCHANGED faults
     \/ faults < MaxFaults /\ faults' = faults + 1
  /\ \/ fin.step # "worktree" /\ UNCHANGED << worktree, ledger >>
     \/ /\ fin.step = "worktree" /\ worktree # "none" /\ UNCHANGED << record, events >>
        /\ \E removal \in Removals : worktree' = removal[1] /\ noted' \in {noted, removal[2]}
     \/ /\ fin.step = "ending" /\ events' = Append(events, fin.state)
        /\ UNCHANGED << worktree, record, noted >>
     \/ /\ fin.step = "saving" /\ record' = fin.state
        /\ UNCHANGED << worktree, events, noted >>
  /\ Reject
  /\ UNCHANGED << gated, open, executor, timer, expired, asked, attached >>

-----------------------------------------------------------------------------
(* RunningSupervisor.close(): the server stops listening and waits for its *)
(* connections; then SupervisorService.close() ends the session and, if    *)
(* that succeeded, releases the store lock.                                *)

CloseServer ==
  /\ closing = "no"
  /\ closing' = "server"
  /\ UNCHANGED << gated, open, executor, deadline, finishing, worktree, ledger, clients, faults >>

(* Mutant: the lock is released without waiting for the session to end.    *)
CloseSessionsUnawaited ==
  /\ closing = "server"
  /\ \A c \in attached : answer[c] # "pending"
  /\ IF open
       THEN Gate!Stops /\ Finish(Owner, "interrupted")
       ELSE UNCHANGED << stopped, work, finishing, accepting >>
  /\ closing' = "released"
  /\ UNCHANGED << gated, open, verified, deadline, worktree, ledger, clients, faults >>

CloseSessions ==
  /\ closing = "server"
  /\ \A c \in attached : answer[c] # "pending"
  /\ IF open
       THEN closing' = "sessions" /\ Gate!Stops /\ Finish(Owner, "interrupted")
       ELSE closing' = "released" /\ UNCHANGED << stopped, work, finishing, accepting >>
  /\ UNCHANGED << gated, open, verified, deadline, worktree, ledger, clients, faults >>

-----------------------------------------------------------------------------
Finalize ==
  \/ DrainEnds \/ RefusalThrown \/ Snapshot \/ Diff \/ Decisions \/ RemoveWorktree
  \/ AppendEnding \/ SaveEnding \/ StepFails

Next ==
  \/ \E c \in Clients :
       (\E s \in Endings : CompleteSession(c, s)) \/ CancelSession(c) \/ Disconnect(c)
  \/ StartAction \/ ActionGoesOn
  \/ Expire \/ ExpiryRecorded \/ ExpiryUnrecorded
  \/ Finalize
  \/ CloseServer \/ CloseSessions

Spec == Init /\ [][Next]_vars

(* Promise reactions run and the store, git and the executor settle every  *)
(* call.  Clients, signals and the deadline owe nothing.                   *)
FairSpec ==
  /\ Spec
  /\ WF_vars(Finalize) /\ WF_vars(ChainEnds)
  /\ WF_vars(ExpiryRecorded) /\ WF_vars(CloseSessions)
-----------------------------------------------------------------------------
(* Whoever ends the session, alone or at the same time as others, it ends  *)
(* once and at rest: one terminal event that its record agrees with, gate  *)
(* closed, nothing running, executor stopped, and the worktree is gone or  *)
(* the log says that it could not be removed (finishContractSession,       *)
(* finalizeContractSession, removeIsolatedWorktree).                       *)
EndsOnce ==
  faults = 0 /\ record # "running" =>
    /\ events = << record >>
    /\ ~open /\ ~accepting /\ stopped /\ work = "idle" /\ noted = worktree

(* A refused completion leaves the session as it was: accepting, and under *)
(* its deadline (drain, clearTimeout after drain).                         *)
RefusalRecoverable ==
  faults = 0 /\ open /\ completion = None /\ ~stopped => accepting /\ timer # "cleared"

(* The store lock is released only when the session has ended and nothing  *)
(* of it runs any more, so the next owner of the directory is alone.       *)
ReleasedAtRest ==
  closing = "released" => record # "running" /\ ~open /\ work = "idle" /\ completion = None

(* A deadline that passed ends the session although the finalization it    *)
(* joins may be refused; unless close() joined it too: then the process    *)
(* exits on the refusal, and the deadline is lost with it.                 *)
ExpiryEnds ==
  expired /\ faults = 0 ~> record # "running" \/ faults # 0 \/ closing = "failed"

OwnerAnswer ==
  CASE closing \in {"no", "server"} -> "none"
    [] closing = "sessions" -> "pending"
    [] closing = "released" -> "ok"
    [] closing = "failed" -> "error"

Outcome == INSTANCE SessionOutcome WITH
  outcome <- record, overdue <- expired, owner <- OwnerAnswer

(* Whoever asks for the session's end, its outcome is decided at one       *)
(* moment, for good, by someone who waits then or by the deadline, and     *)
(* everyone who waits is told the same: the session implements             *)
(* SessionOutcome.  In particular a session whose deadline passed is never *)
(* recorded as completed, even if a client that asked for it started the   *)
(* finalization in flight (finishContractSession, context.expired).        *)
ImplementsSessionOutcome == Outcome!Spec
=============================================================================
