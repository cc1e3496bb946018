--------------------------- MODULE RuntimePolicy ---------------------------
(***************************************************************************)
(* The runtime reducers of packages/policy-engine/src/runtime.ts.          *)
(*                                                                         *)
(* A session of a contract with a `runtime' section owns one RuntimeState  *)
(* record.  The code folds it with three pure functions (admit, record the *)
(* outcome, advance the phase) and asks it three questions (may this       *)
(* action run, may this phase be entered, may this session complete).      *)
(*                                                                         *)
(* Arrays that the code only tests for membership are sets here, the two   *)
(* counting dictionaries (toolCalls, failures) are functions, and the      *)
(* digest that keys failures is the tuple it digests.  recentActions       *)
(* numbers its entries by the action they belong to, so that two actions   *)
(* admitted in the same instant stay two entries.  A refusal's list of     *)
(* rule names is abstracted to the refusal.                                *)
(***************************************************************************)
EXTENDS Integers, Sequences, FiniteSets

CONSTANTS
  None,           (* TypeScript's undefined                                *)
  DefaultWindow,  (* rate window when windowMs is absent (60 000 ms)       *)
  Paths, Commands, Models, Prompts  (* what actions can name               *)

Tools == {"file.read", "file.write", "command", "model.call", "knowledge.search"}

Optional(S) == {None} \cup S

(***************************************************************************)
(* One phase of the workflow.  `next' absent means "the following phase".  *)
(***************************************************************************)
PhaseNames == {"inspect", "edit", "verify"}

WorkflowPhase ==
  [name : PhaseNames, tools : SUBSET Tools, requires : SUBSET Tools,
   next : Optional(SUBSET PhaseNames)]

(***************************************************************************)
(* What runtimeSchema.ts lets through; the empty sequence of phases stands *)
(* for an absent `phases'.                                                 *)
(***************************************************************************)
IsPolicy(p) ==
  /\ p \in [phases : Seq(WorkflowPhase), maxDuration : Optional(Nat \ {0}),
            maxTokens : Optional(Nat), maxRetries : Optional(Nat),
            maxActions : Optional(Nat), maxConsecutiveFailures : Optional(Nat \ {0}),
            maxChangedFiles : Optional(Nat), maxWriteBytes : Optional(Nat),
            maxActionsPerWindow : Optional(Nat \ {0}), window : Optional(Nat \ {0}),
            toolQuotas : [Tools -> Optional(Nat)],
            requireReadBeforeWrite : BOOLEAN,
            requireVerificationBeforeComplete : BOOLEAN,
            allowedModels : Optional(SUBSET Models)]
  /\ \A i, j \in DOMAIN p.phases : p.phases[i].name = p.phases[j].name => i = j
  /\ \A i \in DOMAIN p.phases :
       /\ p.phases[i].requires \subseteq p.phases[i].tools
       /\ p.phases[i].next # None =>
            p.phases[i].next \subseteq {p.phases[j].name : j \in DOMAIN p.phases}

ASSUME PolicyAssumption ==
  /\ None \notin Nat
  /\ \A names \in SUBSET PhaseNames, models \in SUBSET Models : None # names /\ None # models
  /\ None \notin Paths
  /\ DefaultWindow \in Nat \ {0}

(***************************************************************************)
(* A runtime action.  `content' is the UTF-8 size of a write, standing for *)
(* the text; a model call is `grounded' when it carries a knowledgeQuery;  *)
(* `reservation' is what the server computed for it (it is not part of the *)
(* action's identity).                                                     *)
(***************************************************************************)
RuntimeAction ==
  [kind : Tools, path : Optional(Paths), content : Nat, command : Optional(Commands),
   model : Optional(Models), prompt : Optional(Prompts), grounded : BOOLEAN,
   reservation : Optional(Nat)]

-----------------------------------------------------------------------------
(* The state and its initial value.                                        *)

(* The tools an action is charged to: a grounded call also searches.       *)
ToolsOf(a) ==
  IF a.kind = "model.call" /\ a.grounded THEN {a.kind, "knowledge.search"} ELSE {a.kind}

(* The identity under which a failed attempt is remembered: commands and   *)
(* model calls get a fresh one with every write, other tools never do.     *)
ActionKey(a, revision) ==
  << a.kind, a.path, a.command, a.content, a.model, a.prompt, a.grounded,
     IF a.kind \in {"command", "model.call"} THEN revision ELSE 0 >>

ActionKeys ==
  Tools \X Optional(Paths) \X Optional(Commands) \X Nat \X Optional(Models)
    \X Optional(Prompts) \X BOOLEAN \X Nat

IsFailureCount(f) ==
  /\ f = [k \in DOMAIN f |-> f[k]]
  /\ DOMAIN f \subseteq ActionKeys
  /\ \A k \in DOMAIN f : f[k] \in Nat \ {0}

(* The failures remembered of a key, none when it is absent, and one more. *)
TimesFailed(key, failures) == IF key \in DOMAIN failures THEN failures[key] ELSE 0

FailedAgain(key, failures) ==
  [k \in DOMAIN failures \cup {key} |->
     IF k = key THEN TimesFailed(key, failures) + 1 ELSE failures[k]]

IsRuntimeState(st) ==
  /\ st \in [startedAt : Nat, phaseIndex : Nat \ {0}, actions : Nat,
             toolCalls : [Tools -> Nat], successfulTools : SUBSET Tools,
             readPaths : SUBSET Paths, changedPaths : SUBSET Paths, writtenBytes : Nat,
             tokensCharged : Nat, tokensReported : Nat, tokenUsageUnknown : BOOLEAN,
             failures : {st.failures}, consecutiveFailures : Nat,
             recentActions : SUBSET [number : Nat, at : Nat],
             writeRevision : Nat, verifiedRevision : Nat \cup {-1}]
  /\ IsFailureCount(st.failures)

CreateRuntimeState(now) ==
  [startedAt |-> now, phaseIndex |-> 1, actions |-> 0, toolCalls |-> [t \in Tools |-> 0],
   successfulTools |-> {}, readPaths |-> {}, changedPaths |-> {}, writtenBytes |-> 0,
   tokensCharged |-> 0, tokensReported |-> 0, tokenUsageUnknown |-> FALSE,
   failures |-> [k \in {} |-> 0], consecutiveFailures |-> 0, recentActions |-> {},
   writeRevision |-> 0, verifiedRevision |-> -1]

-----------------------------------------------------------------------------
(* evaluateRuntime: one predicate per rule, TRUE when the rule permits.    *)

HasPhases(policy) == policy.phases # << >>
CurrentPhase(policy, st) == policy.phases[st.phaseIndex]

PhasePermits(policy, st, a) ==
  st.phaseIndex \in DOMAIN policy.phases => ToolsOf(a) \subseteq CurrentPhase(policy, st).tools

DurationPermits(policy, st, now) ==
  policy.maxDuration # None => now - st.startedAt < policy.maxDuration

ActionsPermit(policy, st) ==
  policy.maxActions # None => st.actions < policy.maxActions

QuotasPermit(policy, st, a) ==
  \A t \in ToolsOf(a) :
    policy.toolQuotas[t] # None => st.toolCalls[t] < policy.toolQuotas[t]

RetriesPermit(policy, st, a) ==
  policy.maxRetries # None =>
    TimesFailed(ActionKey(a, st.writeRevision), st.failures) <= policy.maxRetries

BreakerPermits(policy, st) ==
  policy.maxConsecutiveFailures # None =>
    st.consecutiveFailures < policy.maxConsecutiveFailures

Window(policy) == IF policy.window = None THEN DefaultWindow ELSE policy.window

Recent(policy, st, now) == {r \in st.recentActions : now - r.at < Window(policy)}

RatePermits(policy, st, now) ==
  policy.maxActionsPerWindow # None =>
    Cardinality(Recent(policy, st, now)) < policy.maxActionsPerWindow

WritePermits(policy, st, a) ==
  a.kind = "file.write" =>
    /\ policy.requireReadBeforeWrite => a.path \in st.readPaths
    /\ policy.maxChangedFiles # None =>
         \/ a.path \in st.changedPaths
         \/ Cardinality(st.changedPaths) < policy.maxChangedFiles
    /\ policy.maxWriteBytes # None => st.writtenBytes + a.content <= policy.maxWriteBytes

ModelPermits(policy, st, a) ==
  a.kind = "model.call" =>
    /\ policy.allowedModels # None => a.model \in policy.allowedModels
    /\ policy.maxTokens # None =>
         /\ ~st.tokenUsageUnknown
         /\ a.reservation # None
         /\ st.tokensCharged + a.reservation <= policy.maxTokens

EvaluateRuntime(policy, st, a, now) ==
  /\ PhasePermits(policy, st, a)
  /\ DurationPermits(policy, st, now)
  /\ ActionsPermit(policy, st)
  /\ QuotasPermit(policy, st, a)
  /\ RetriesPermit(policy, st, a)
  /\ BreakerPermits(policy, st)
  /\ RatePermits(policy, st, now)
  /\ WritePermits(policy, st, a)
  /\ ModelPermits(policy, st, a)

-----------------------------------------------------------------------------
(* admitRuntimeAction: every allowance is charged before the tool runs.    *)

IsWrite(a) == a.kind = "file.write"
Reservation(a) == IF a.reservation = None THEN 0 ELSE a.reservation

AdmitRuntimeAction(policy, st, a, now) ==
  [st EXCEPT
     !.actions = @ + 1,
     !.toolCalls = [t \in Tools |-> @[t] + (IF t \in ToolsOf(a) THEN 1 ELSE 0)],
     !.recentActions = Recent(policy, st, now) \cup {[number |-> st.actions + 1, at |-> now]},
     !.changedPaths = IF IsWrite(a) THEN @ \cup {a.path} ELSE @,
     !.writtenBytes = @ + (IF IsWrite(a) THEN a.content ELSE 0),
     !.writeRevision = @ + (IF IsWrite(a) THEN 1 ELSE 0),
     !.tokensCharged = @ + (IF a.kind = "model.call" THEN Reservation(a) ELSE 0)]

(* Mutant: tokens beyond the reservation are not charged.                  *)
OverrunIgnored(a, reported) == 0

(* recordRuntimeOutcome: `reported' is the provider's token count or None, *)
(* `verifies' whether the command is one of the contract's verifications.  *)
Overrun(a, reported) ==
  IF a.kind = "model.call" /\ reported # None /\ reported > Reservation(a)
    THEN reported - Reservation(a) ELSE 0

(* Mutant: a failed read counts as having read the path.                   *)
ReadPathsAnyOutcome(st, a, success) ==
  IF a.kind = "file.read" THEN st.readPaths \cup {a.path} ELSE st.readPaths

ReadPathsAfter(st, a, success) ==
  IF success /\ a.kind = "file.read" THEN st.readPaths \cup {a.path} ELSE st.readPaths

RecordRuntimeOutcome(st, a, success, verifies, reported) ==
  [st EXCEPT
     !.successfulTools = IF success THEN @ \cup {a.kind} ELSE @,
     !.readPaths = ReadPathsAfter(st, a, success),
     !.failures = IF success THEN @ ELSE FailedAgain(ActionKey(a, st.writeRevision), @),
     !.consecutiveFailures = IF success THEN 0 ELSE @ + 1,
     !.tokensCharged = @ + Overrun(a, reported),
     !.tokensReported =
        @ + (IF a.kind = "model.call" /\ reported # None THEN reported ELSE 0),
     !.tokenUsageUnknown = @ \/ (a.kind = "model.call" /\ reported = None),
     !.verifiedRevision = IF success /\ verifies THEN st.writeRevision ELSE @]

-----------------------------------------------------------------------------
(* Phase transitions and the completion gate.                              *)

NextPhases(policy, st) ==
  IF st.phaseIndex \notin DOMAIN policy.phases THEN {}
  ELSE IF CurrentPhase(policy, st).next # None THEN CurrentPhase(policy, st).next
  ELSE IF st.phaseIndex + 1 \in DOMAIN policy.phases
    THEN {policy.phases[st.phaseIndex + 1].name} ELSE {}

EvaluatePhaseTransition(policy, st, target) ==
  /\ target \in NextPhases(policy, st)
  /\ \E i \in DOMAIN policy.phases : policy.phases[i].name = target
  /\ CurrentPhase(policy, st).requires \subseteq st.successfulTools

PhaseIndexOf(policy, target) == CHOOSE i \in DOMAIN policy.phases : policy.phases[i].name = target

(* Mutant: successes of the phase left behind carry over.                  *)
AdvanceRuntimePhaseKeepingTools(st, index) == [st EXCEPT !.phaseIndex = index]

AdvanceRuntimePhase(st, index) ==
  [st EXCEPT !.phaseIndex = index, !.successfulTools = {}]

(* Mutant: any verification will do, however old.                          *)
EvaluateRuntimeCompletionEver(policy, st) ==
  policy.requireVerificationBeforeComplete => st.verifiedRevision # -1

EvaluateRuntimeCompletion(policy, st) ==
  policy.requireVerificationBeforeComplete => st.verifiedRevision = st.writeRevision
=============================================================================
