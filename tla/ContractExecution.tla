------------------------- MODULE ContractExecution -------------------------
(***************************************************************************)
(* One contract session's interceptor:                                     *)
(* apps/local-supervisor/src/contractExecution.ts.                         *)
(*                                                                         *)
(* Requests (tool actions and phase transitions) are accepted into a       *)
(* bounded promise chain and run one at a time.  Every `await' of the code *)
(* is a point where other callers, the clock, the executor's stop() and a  *)
(* failing evidence store can act, so each action below is the code        *)
(* between two awaits.  An append to the evidence store either resolves    *)
(* (the next action runs) or rejects (AppendFails), and one that rejects   *)
(* may still have left its line in the log.                                *)
(*                                                                         *)
(* The contract has a `runtime' section.  Without one every rule permits   *)
(* and the final snapshot is skipped, which adds no behaviour.             *)
(* boundedAction's clamped timeout is abstracted: it only decides whether  *)
(* the executor reports success, and both outcomes are explored.           *)
(***************************************************************************)
EXTENDS RuntimePolicy

CONSTANTS
  Ops,                   (* identities of the requests callers may make     *)
  Actions,               (* the actions they may ask for                    *)
  Sessions,              (* the options a session may be constructed with   *)
  Reports,               (* token usage a provider may report, or None      *)
  MaxPending,            (* MAX_PENDING_CONTRACT_ACTIONS                    *)
  MaxFaults              (* bound: rejected appends                         *)

(***************************************************************************)
(* ContractExecutionOptions: the runtime policy, the actions the static    *)
(* rules refuse, the commands that count as verification; and two bounds   *)
(* on the environment, the actions this session's callers ask for and the  *)
(* number of clock ticks explored.                                         *)
(***************************************************************************)
IsOptions(x) ==
  /\ x = [runtimePolicy |-> x.runtimePolicy, forbidden |-> x.forbidden,
          verificationCommands |-> x.verificationCommands, requests |-> x.requests,
          horizon |-> x.horizon]
  /\ IsPolicy(x.runtimePolicy)
  /\ x.forbidden \subseteq Actions /\ x.requests \subseteq Actions
  /\ x.verificationCommands \subseteq Commands
  /\ x.horizon \in Nat

ASSUME ExecutionAssumption ==
  /\ Actions \subseteq RuntimeAction
  /\ \A a \in Actions : /\ a.kind \in {"file.read", "file.write"} <=> a.path # None
                        /\ a.kind = "model.call" => a.reservation \in Nat
  /\ \A x \in Sessions : IsOptions(x)
  /\ Reports \subseteq Optional(Nat)
  /\ MaxPending \in Nat \ {0} /\ MaxFaults \in Nat

VARIABLES
  options,    (* what the session was constructed with; never changes       *)
  now,        (* the clock, in ticks since the session started              *)
  rt,         (* RuntimeState                                               *)
  accepting,  (* the gate of enqueue()                                      *)
  queue,      (* accepted requests in order; the head is the running one    *)
  job,        (* what each request asks for: an action or a phase           *)
  stage,      (* where each request is                                      *)
  verdict,    (* the decision taken for it                                  *)
  usage,      (* the usage its executor reported, or None                   *)
  retained,   (* kinds of evidence retained for it                          *)
  stopped,    (* executor.stop() was called                                 *)
  drain       (* the progress of drain()                                    *)

(* History, read by properties only. *)
VARIABLES
  attempts,   (* admitted actions, in order, with their outcome             *)
  entries,    (* indices of the phases entered                              *)
  effects,    (* requests whose executor call was not turned away           *)
  faults      (* appends rejected so far                                    *)

control == << accepting, queue, job, stage, verdict, usage >>
history == << attempts, entries, effects, faults >>
vars == << options, now, rt, control, retained, stopped, drain, history >>

Stages == {"new", "queued", "deciding", "blocking", "starting", "running", "metering",
           "recording", "completing", "snapshotting", "turning", "settled"}

Kinds == {"tool.called", "policy.decision", "command.started", "usage.reported",
          "effect", "tool.completed", "runtime.snapshot", "workflow.transition"}

DrainStages == {"open", "draining", "draining-gated", "refusing", "drained", "drained-gated"}

Attempt ==
  [op : Ops, action : Actions, at : Nat, entry : Nat,
   outcome : {"pending", "success", "failure"}, reported : Optional(Nat)]

Policy == options.runtimePolicy

TypeOK ==
  /\ options \in Sessions
  /\ now \in 0 .. options.horizon
  /\ IsRuntimeState(rt)
  /\ accepting \in BOOLEAN
  /\ queue \in Seq(Ops)
  /\ job \in [Ops -> [action : Optional(Actions), target : Optional(PhaseNames)]]
  /\ stage \in [Ops -> Stages]
  /\ verdict \in [Ops -> {"none", "allow", "deny"}]
  /\ usage \in [Ops -> Optional(Nat)]
  /\ retained \in [Ops -> SUBSET Kinds]
  /\ stopped \in BOOLEAN
  /\ drain \in DrainStages
  /\ attempts \in Seq(Attempt)
  /\ entries \in Seq(Nat \ {0})
  /\ effects \in SUBSET Ops
  /\ faults \in 0 .. MaxFaults

Init ==
  /\ options \in Sessions
  /\ now = 0
  /\ rt = CreateRuntimeState(0)
  /\ accepting = TRUE
  /\ queue = << >>
  /\ job = [o \in Ops |-> [action |-> None, target |-> None]]
  /\ stage = [o \in Ops |-> "new"]
  /\ verdict = [o \in Ops |-> "none"]
  /\ usage = [o \in Ops |-> None]
  /\ retained = [o \in Ops |-> {}]
  /\ stopped = FALSE
  /\ drain = "open"
  /\ attempts = << >>
  /\ entries = << 1 >>
  /\ effects = {}
  /\ faults = 0

-----------------------------------------------------------------------------
(* run() and transition(): enqueue() accepts while the session is open and *)
(* fewer than MaxPending requests are unfinished; otherwise it rejects and *)
(* nothing changes.                                                        *)

Enqueue(o, request) ==
  /\ stage[o] = "new"
  /\ accepting
  /\ Len(queue) < MaxPending
  /\ queue' = Append(queue, o)
  /\ job' = [job EXCEPT ![o] = request]
  /\ stage' = [stage EXCEPT ![o] = "queued"]
  /\ UNCHANGED << options, now, rt, accepting, verdict, usage, retained, stopped, drain, history >>

Run(o, a) == Enqueue(o, [action |-> a, target |-> None])

Transition(o, target) ==
  HasPhases(Policy) /\ Enqueue(o, [action |-> None, target |-> target])

(* The promise chain: a request runs when all accepted before it settled.  *)
IsHead(o) == queue # << >> /\ Head(queue) = o

At(o, s) == IsHead(o) /\ stage[o] = s

Goto(o, s) == stage' = [stage EXCEPT ![o] = s] /\ UNCHANGED queue

(* Mutant: a settled request never releases the chain.                     *)
SettleHoldingChain(o) == stage' = [stage EXCEPT ![o] = "settled"] /\ UNCHANGED queue

Settle(o) == stage' = [stage EXCEPT ![o] = "settled"] /\ queue' = Tail(queue)

Retain(o, kind) == retained' = [retained EXCEPT ![o] = @ \cup {kind}]

-----------------------------------------------------------------------------
(* intercept(): the pipeline of one action.                                *)

(* tool.called is retained; static and runtime rules are evaluated now.    *)
Propose(o) ==
  /\ At(o, "queued")
  /\ job[o].action # None
  /\ Retain(o, "tool.called")
  /\ verdict' = [verdict EXCEPT ![o] =
       IF job[o].action \notin options.forbidden /\ EvaluateRuntime(Policy, rt, job[o].action, now)
         THEN "allow" ELSE "deny"]
  /\ Goto(o, "deciding")
  /\ UNCHANGED << options, now, rt, accepting, job, usage, stopped, drain, history >>

(* execute() is called with the executor possibly stopped already.         *)
CallExecutor(o) == effects' = IF stopped THEN effects ELSE effects \cup {o}

(* The decision is retained and it allows: the action is charged, with the *)
(* clock read again, and all but commands call the executor at once.       *)
Admit(o) ==
  /\ At(o, "deciding")
  /\ verdict[o] = "allow"
  /\ Retain(o, "policy.decision")
  /\ rt' = AdmitRuntimeAction(Policy, rt, job[o].action, now)
  /\ attempts' = Append(attempts,
       [op |-> o, action |-> job[o].action, at |-> now, entry |-> Len(entries),
        outcome |-> "pending", reported |-> None])
  /\ IF job[o].action.kind = "command"
       THEN Goto(o, "starting") /\ UNCHANGED effects
       ELSE Goto(o, "running") /\ CallExecutor(o)
  /\ UNCHANGED << options, now, accepting, job, verdict, usage, stopped, drain, entries, faults >>

(* The decision is retained and it refuses: nothing is charged.            *)
Refuse(o) ==
  /\ At(o, "deciding")
  /\ verdict[o] = "deny"
  /\ Retain(o, "policy.decision")
  /\ Goto(o, "blocking")
  /\ UNCHANGED << options, now, rt, accepting, job, verdict, usage, stopped, drain, history >>

Block(o) ==
  /\ At(o, "blocking")
  /\ Retain(o, "tool.completed")
  /\ Settle(o)
  /\ UNCHANGED << options, now, rt, accepting, job, verdict, usage, stopped, drain, history >>

StartCommand(o) ==
  /\ At(o, "starting")
  /\ Retain(o, "command.started")
  /\ CallExecutor(o)
  /\ Goto(o, "running")
  /\ UNCHANGED << options, now, rt, accepting, job, verdict, usage, stopped, drain,
                  attempts, entries, faults >>

(* Mutant: what a stopped executor turns away may count as a success.      *)
OutcomeOfStopped(o, success, reported) ==
  reported # None => success /\ job[o].action.kind = "model.call"

(* The executor settles.  A stopped executor turned the call away; only a  *)
(* model call that answered can carry usage.                               *)
Outcome(o, success, reported) ==
  /\ success => o \in effects
  /\ reported # None => success /\ job[o].action.kind = "model.call"

Verifies(a) == a.kind = "command" /\ a.command \in options.verificationCommands

(* recordEffect() has nothing to say about a failed read or write.         *)
AfterOutcome(a, success) ==
  IF a.kind \in {"file.read", "file.write"} /\ ~success THEN "completing" ELSE "recording"

Finish(o, success, reported) ==
  LET a == job[o].action IN
  /\ At(o, "running")
  /\ Outcome(o, success, reported)
  /\ rt' = RecordRuntimeOutcome(rt, a, success, Verifies(a), reported)
  /\ attempts' = [attempts EXCEPT ![Len(attempts)] =
       [@ EXCEPT !.outcome = IF success THEN "success" ELSE "failure",
                 !.reported = reported]]
  /\ usage' = [usage EXCEPT ![o] = reported]
  /\ Goto(o, IF reported # None THEN "metering" ELSE AfterOutcome(a, success))
  /\ UNCHANGED << options, now, accepting, job, verdict, retained, stopped, drain,
                  entries, effects, faults >>

Meter(o) ==
  /\ At(o, "metering")
  /\ Retain(o, "usage.reported")
  /\ Goto(o, "recording")
  /\ UNCHANGED << options, now, rt, accepting, job, verdict, usage, stopped, drain, history >>

RecordEffect(o) ==
  /\ At(o, "recording")
  /\ Retain(o, "effect")
  /\ Goto(o, "completing")
  /\ UNCHANGED << options, now, rt, accepting, job, verdict, usage, stopped, drain, history >>

Complete(o) ==
  /\ At(o, "completing")
  /\ Retain(o, "tool.completed")
  /\ Goto(o, "snapshotting")
  /\ UNCHANGED << options, now, rt, accepting, job, verdict, usage, stopped, drain, history >>

Snapshot(o) ==
  /\ At(o, "snapshotting")
  /\ Retain(o, "runtime.snapshot")
  /\ Settle(o)
  /\ UNCHANGED << options, now, rt, accepting, job, verdict, usage, stopped, drain, history >>

-----------------------------------------------------------------------------
(* transition(): evaluated when its turn comes, applied once retained.     *)

ProposeTransition(o) ==
  /\ At(o, "queued")
  /\ job[o].target # None
  /\ verdict' = [verdict EXCEPT ![o] =
       IF EvaluatePhaseTransition(Policy, rt, job[o].target) THEN "allow" ELSE "deny"]
  /\ Goto(o, "turning")
  /\ UNCHANGED << options, now, rt, accepting, job, usage, retained, stopped, drain, history >>

Turn(o) ==
  LET index == PhaseIndexOf(Policy, job[o].target) IN
  /\ At(o, "turning")
  /\ Retain(o, "workflow.transition")
  /\ IF verdict[o] = "allow"
       THEN /\ rt' = AdvanceRuntimePhase(rt, index)
            /\ entries' = Append(entries, index)
       ELSE UNCHANGED << rt, entries >>
  /\ Settle(o)
  /\ UNCHANGED << options, now, accepting, job, verdict, usage, stopped, drain,
                  attempts, effects, faults >>

-----------------------------------------------------------------------------
(* A rejected append ends the request where it stands.                     *)

Awaited(o) ==
  CASE stage[o] = "queued" -> "tool.called"
    [] stage[o] = "deciding" -> "policy.decision"
    [] stage[o] = "blocking" -> "tool.completed"
    [] stage[o] = "starting" -> "command.started"
    [] stage[o] = "metering" -> "usage.reported"
    [] stage[o] = "recording" -> "effect"
    [] stage[o] = "completing" -> "tool.completed"
    [] stage[o] = "snapshotting" -> "runtime.snapshot"
    [] OTHER -> "workflow.transition"

(* Mutant: an action that could not be announced is refunded.              *)
AppendFailsRefunding(o) ==
  /\ At(o, "starting")
  /\ faults < MaxFaults
  /\ faults' = faults + 1
  /\ rt' = [rt EXCEPT !.actions = @ - 1]
  /\ Settle(o)
  /\ UNCHANGED << options, now, accepting, job, verdict, usage, retained, stopped, drain,
                  attempts, entries, effects >>

AppendFails(o) ==
  /\ IsHead(o)
  /\ faults < MaxFaults
  /\ stage[o] \notin {"running", "settled"}
  /\ stage[o] = "queued" => job[o].action # None
  /\ faults' = faults + 1
  /\ \/ Retain(o, Awaited(o))
     \/ UNCHANGED retained
  /\ Settle(o)
  /\ UNCHANGED << options, now, rt, accepting, job, verdict, usage, stopped, drain,
                  attempts, entries, effects >>

-----------------------------------------------------------------------------
(* drain(): stop accepting, wait for the chain, then the completion gate.  *)

DrainStart(gated) ==
  /\ drain \in {"open", "drained", "drained-gated"}
  /\ accepting' = FALSE
  /\ drain' = IF gated THEN "draining-gated" ELSE "draining"
  /\ UNCHANGED << options, now, rt, queue, job, stage, verdict, usage, retained, stopped, history >>

DrainEnd ==
  /\ drain \in {"draining", "draining-gated"}
  /\ queue = << >>
  /\ IF drain = "draining"
       THEN drain' = "drained" /\ UNCHANGED accepting
       ELSE IF EvaluateRuntimeCompletion(Policy, rt)
         THEN drain' = "drained-gated" /\ UNCHANGED accepting
         ELSE drain' = "refusing" /\ accepting' = TRUE
  /\ UNCHANGED << options, now, rt, queue, job, stage, verdict, usage, retained, stopped, history >>

(* The refusal is retained, or its append rejects; drain() throws anyway.  *)
RefusalThrown ==
  /\ drain = "refusing"
  /\ drain' = "open"
  /\ UNCHANGED << options, now, rt, control, retained, stopped, history >>

(* The owner (cancel, expiry, close) stops the executor; time passes.      *)
StopExecutor ==
  /\ ~stopped
  /\ stopped' = TRUE
  /\ UNCHANGED << options, now, rt, control, retained, drain, history >>

Tick ==
  /\ now < options.horizon
  /\ now' = now + 1
  /\ UNCHANGED << options, rt, control, retained, stopped, drain, history >>

-----------------------------------------------------------------------------
Request(o) ==
  \/ \E a \in options.requests : Run(o, a)
  \/ \E p \in PhaseNames : Transition(o, p)

Step(o) ==
  \/ Propose(o) \/ Admit(o) \/ Refuse(o) \/ Block(o) \/ StartCommand(o)
  \/ \E success \in BOOLEAN, reported \in Reports \cup {None} : Finish(o, success, reported)
  \/ Meter(o) \/ RecordEffect(o) \/ Complete(o) \/ Snapshot(o)
  \/ ProposeTransition(o) \/ Turn(o)

Drain ==
  \/ \E gated \in BOOLEAN : DrainStart(gated)
  \/ DrainEnd
  \/ RefusalThrown

Next ==
  \/ \E o \in Ops : Request(o) \/ Step(o) \/ AppendFails(o)
  \/ Drain
  \/ StopExecutor
  \/ Tick

Spec == Init /\ [][Next]_vars

(* Promise reactions always run, the store settles every append, and the   *)
(* executor settles every call: commands and model calls are bounded by    *)
(* their timeouts, file operations by the file system.  Callers, ticks,    *)
(* faults and stop() owe nothing.                                          *)
FairSpec ==
  /\ Spec
  /\ \A o \in Ops : WF_vars(Step(o))
  /\ WF_vars(DrainEnd) /\ WF_vars(RefusalThrown)
-----------------------------------------------------------------------------
(* What the interceptor promises, stated over the history of attempts and  *)
(* never over the reducer's own counters.                                  *)

Attempted == DOMAIN attempts
WritesBefore(i) == Cardinality({j \in 1 .. i - 1 : IsWrite(attempts[j].action)})
KeyOf(i) == ActionKey(attempts[i].action, WritesBefore(i))
Limited(limit, n) == limit # None => n <= limit

(* maxActions and toolQuotas bound the admitted attempts; a grounded model *)
(* call also spends the search quota (evaluateRuntime, actions/toolQuota). *)
Spends(a, t) == a.kind = t \/ (a.kind = "model.call" /\ a.grounded /\ t = "knowledge.search")

AttemptBudget ==
  /\ Limited(Policy.maxActions, Len(attempts))
  /\ \A t \in Tools :
       Limited(Policy.toolQuotas[t],
               Cardinality({i \in Attempted : Spends(attempts[i].action, t)}))

(* Nothing runs and nothing is charged without a proposal and an allowing  *)
(* decision retained first; admissions, charges and the action budgets     *)
(* agree however appends fail and a refused proposal charges nothing       *)
(* (intercept: propose, policy.decision, admitRuntimeAction).              *)
ChargedOnce ==
  /\ rt.actions = Len(attempts)
  /\ \A i, j \in Attempted : attempts[i].op = attempts[j].op => i = j
  /\ \A o \in effects \cup {attempts[i].op : i \in Attempted} :
       {"tool.called", "policy.decision"} \subseteq retained[o] /\ verdict[o] = "allow"
  /\ AttemptBudget

(* No request runs again once it has failed more than maxRetries times at  *)
(* its write revision (failures keyed by actionKey).                       *)
RetryBudget ==
  \A i \in Attempted :
    Limited(Policy.maxRetries,
      Cardinality({j \in 1 .. i - 1 : attempts[j].outcome = "failure" /\ KeyOf(j) = KeyOf(i)}))

(* After maxConsecutiveFailures failures without a success in between no   *)
(* further attempt starts (consecutiveFailures, the circuit breaker).      *)
FailuresSinceSuccess(i) ==
  Cardinality({j \in 1 .. i - 1 :
    /\ attempts[j].outcome = "failure"
    /\ \A k \in j .. i - 1 : attempts[k].outcome # "success"})

BreakerHeld ==
  Policy.maxConsecutiveFailures # None =>
    \A i \in Attempted : FailuresSinceSuccess(i) < Policy.maxConsecutiveFailures

(* Any window that ends at an admission holds at most maxActionsPerWindow  *)
(* admissions, although the decision and the admission read the clock      *)
(* separately and old entries are pruned in between (recentActions).       *)
RateHeld ==
  \A i \in Attempted :
    Limited(Policy.maxActionsPerWindow,
      Cardinality({j \in 1 .. i : attempts[i].at - attempts[j].at < Window(Policy)}))

(* Writes stay within the number of files and the volume, and each follows *)
(* a successful read of its path (changedPaths, writtenBytes, readPaths).  *)
(* Written[n] is the volume of the writes among the first n attempts.      *)
WriteAttempts == {i \in Attempted : IsWrite(attempts[i].action)}

Written[n \in 0 .. Len(attempts)] ==
  IF n = 0 THEN 0
  ELSE Written[n - 1] + (IF IsWrite(attempts[n].action) THEN attempts[n].action.content ELSE 0)

WriteBudget ==
  /\ Limited(Policy.maxChangedFiles,
             Cardinality({attempts[i].action.path : i \in WriteAttempts}))
  /\ Limited(Policy.maxWriteBytes, Written[Len(attempts)])

ReadBeforeWrite ==
  Policy.requireReadBeforeWrite =>
    \A i \in WriteAttempts : \E j \in 1 .. i - 1 :
      /\ attempts[j].action.kind = "file.read"
      /\ attempts[j].action.path = attempts[i].action.path
      /\ attempts[j].outcome = "success"

(* A model call starts only when its reservation fits beside the larger of *)
(* reservation and report of every earlier call, and never after a call    *)
(* whose usage is unknown (tokensCharged, tokenUsageUnknown).  Charged[n]  *)
(* is what the calls among the first n attempts cost.                      *)
IsModelCall(i) == attempts[i].action.kind = "model.call"

Charge(i) ==
  LET a == attempts[i] IN
  IF a.reported # None /\ a.reported > a.action.reservation
    THEN a.reported ELSE a.action.reservation

Charged[n \in 0 .. Len(attempts)] ==
  IF n = 0 THEN 0 ELSE Charged[n - 1] + (IF IsModelCall(n) THEN Charge(n) ELSE 0)

TokenBudget ==
  Policy.maxTokens # None =>
    \A i \in Attempted : IsModelCall(i) =>
      /\ Charged[i - 1] + attempts[i].action.reservation <= Policy.maxTokens
      /\ \A j \in 1 .. i - 1 : IsModelCall(j) =>
           attempts[j].outcome = "pending" \/ attempts[j].reported # None

(* The duration is checked when an action is decided and the attempt       *)
(* starts after one more append: no second attempt starts once one has     *)
(* started at or past the limit (evaluateRuntime, admitRuntimeAction).     *)
DurationHeld ==
  Policy.maxDuration # None =>
    \A i, j \in Attempted : i < j => attempts[i].at < Policy.maxDuration

ModelsHeld ==
  Policy.allowedModels # None =>
    \A i \in Attempted : IsModelCall(i) => attempts[i].action.model \in Policy.allowedModels

(* Every limit of the policy holds of the history of attempts: their       *)
(* number, quotas, retries, failures in a row, rate, files, volume,        *)
(* tokens, models, and the duration up to the attempt in its decision.     *)
LimitsHeld ==
  /\ AttemptBudget /\ RetryBudget /\ BreakerHeld /\ RateHeld /\ WriteBudget
  /\ TokenBudget /\ DurationHeld /\ ModelsHeld

(* Each attempt uses tools of the phase it ran in, and a phase is left     *)
(* only along the workflow and after its prerequisites succeeded within    *)
(* that very visit (successfulTools is emptied by advanceRuntimePhase).    *)
SucceededIn(n) ==
  {attempts[i].action.kind :
     i \in {k \in Attempted : attempts[k].entry = n /\ attempts[k].outcome = "success"}}

WorkflowHeld ==
  HasPhases(Policy) =>
    /\ \A i \in Attempted :
         \A t \in Tools : Spends(attempts[i].action, t) =>
           t \in Policy.phases[entries[attempts[i].entry]].tools
    /\ \A n \in 1 .. Len(entries) - 1 :
         LET from == Policy.phases[entries[n]]
             to   == Policy.phases[entries[n + 1]].name IN
         /\ from.requires \subseteq SucceededIn(n)
         /\ IF from.next # None THEN to \in from.next ELSE entries[n + 1] = entries[n] + 1

(* A session that passed the completion gate holds a successful            *)
(* verification command that started after its last admitted write, and    *)
(* nothing can run any more (drain, verifiedRevision).                     *)
VerifiedCompletion ==
  drain = "drained-gated" /\ Policy.requireVerificationBeforeComplete =>
    \E i \in Attempted :
      /\ Verifies(attempts[i].action)
      /\ attempts[i].outcome = "success"
      /\ \A j \in WriteAttempts : j < i

(* Every accepted request settles and drain() always returns or throws,    *)
(* whatever appends reject on the way.                                     *)
EverythingSettles ==
  /\ \A o \in Ops : stage[o] = "queued" ~> stage[o] = "settled"
  /\ drain \in {"draining", "draining-gated"} ~>
       drain \in {"open", "drained", "drained-gated"}

(* What the owner sees of the queue: of what runs after stop() only a call *)
(* that had reached the executor before may still succeed.                 *)
OwnerWork ==
  IF queue = << >> THEN "idle"
  ELSE IF stopped /\ Head(queue) \notin effects THEN "doomed" ELSE "busy"

Gate == INSTANCE ActionGate WITH
  required <- Policy.requireVerificationBeforeComplete,
  work <- OwnerWork, verified <- EvaluateRuntimeCompletion(Policy, rt)

(* However requests, drains, refusals, stop() and rejected appends         *)
(* interleave, to its owner the interceptor is an ActionGate: when drain() *)
(* has returned nothing is queued or running and nothing is let in, a      *)
(* completion passes only if the session is verified at that moment, and   *)
(* what an executor that was stopped turns away never verifies it (run,    *)
(* transition, drain).                                                     *)
ImplementsActionGate == Gate!Spec
=============================================================================
