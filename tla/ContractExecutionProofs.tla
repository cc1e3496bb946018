----------------------- MODULE ContractExecutionProofs -----------------------
(***************************************************************************)
(* What ContractExecution promises, proved for every set of requests,      *)
(* actions, policies and reports, and for every bound.                     *)
(*                                                                         *)
(* The properties speak of the history of attempts, the reducer decides by *)
(* its own counters.  The inductive invariant says what each counter is of *)
(* that history, that only the head of the queue is past `queued', and     *)
(* that an allowing decision still holds when the action is admitted.      *)
(***************************************************************************)
EXTENDS ContractExecution, FiniteSetTheorems, TLAPS

-----------------------------------------------------------------------------
(* The inductive invariant, part by part.                                  *)

Live(o) == stage[o] \notin {"new", "settled"}

(* The queue holds the live requests, each once, and only its head runs.   *)
QueueInv ==
  /\ \A i \in DOMAIN queue : Live(queue[i]) /\ (i # 1 => stage[queue[i]] = "queued")
  /\ \A i, j \in DOMAIN queue : queue[i] = queue[j] => i = j
  /\ \A o \in Ops : Live(o) => \E i \in DOMAIN queue : queue[i] = o

(* A drained session accepts nothing and has nothing left to run.          *)
GateInv ==
  /\ drain \in {"draining", "draining-gated", "drained", "drained-gated"} => ~accepting
  /\ drain \in {"drained", "drained-gated"} => queue = << >>
  /\ drain = "drained-gated" => EvaluateRuntimeCompletion(Policy, rt)

Acting ==
  {"deciding", "blocking", "starting", "running", "metering", "recording", "completing",
   "snapshotting"}

(* A request in the pipeline has an action, one that turns has a target.   *)
JobInv ==
  \A o \in Ops :
    /\ stage[o] \in Acting => job[o].action # None
    /\ stage[o] = "turning" => job[o].target # None
    /\ stage[o] \in {"queued", "turning"} /\ job[o].target # None => HasPhases(Policy)

(* No attempt so far started at or past the limit.                         *)
InTime ==
  Policy.maxDuration # None => \A i \in Attempted : attempts[i].at < Policy.maxDuration

(* EvaluateRuntime, with what the clock's rule says of the history.        *)
Permitted(a) ==
  /\ InTime
  /\ PhasePermits(Policy, rt, a)
  /\ ActionsPermit(Policy, rt)
  /\ QuotasPermit(Policy, rt, a)
  /\ RetriesPermit(Policy, rt, a)
  /\ BreakerPermits(Policy, rt)
  /\ RatePermits(Policy, rt, now)
  /\ WritePermits(Policy, rt, a)
  /\ ModelPermits(Policy, rt, a)

(* An allowing decision still holds while its append is awaited.           *)
DecisionInv ==
  \A o \in Ops :
    /\ stage[o] = "deciding" /\ verdict[o] = "allow" => Permitted(job[o].action)
    /\ stage[o] = "turning" /\ verdict[o] = "allow" =>
         EvaluatePhaseTransition(Policy, rt, job[o].target)

Paid ==
  {"starting", "running", "metering", "recording", "completing", "snapshotting", "settled"}

(* Those that reached the executor or were charged, and what they had.     *)
Spenders == effects \cup {attempts[i].op : i \in Attempted}

Licensed(o) ==
  /\ stage[o] \in Paid
  /\ verdict[o] = "allow"
  /\ {"tool.called", "policy.decision"} \subseteq retained[o]

(* A request is charged at most once, after its allowing decision.         *)
ChargeInv ==
  /\ \A i, j \in Attempted : attempts[i].op = attempts[j].op => i = j
  /\ \A o \in Ops : stage[o] = "deciding" => "tool.called" \in retained[o]
  /\ \A o \in Spenders : Licensed(o)

(* The request that runs is the last attempt.                              *)
Running(o) ==
  /\ attempts # << >>
  /\ attempts[Len(attempts)].op = o
  /\ attempts[Len(attempts)].action = job[o].action
  /\ attempts[Len(attempts)].outcome = "pending"
  /\ attempts[Len(attempts)].reported = None
  /\ attempts[Len(attempts)].entry = Len(entries)

RunningInv == \A o \in Ops : stage[o] \in {"starting", "running"} => Running(o)

SpentOn(t) == {i \in Attempted : Spends(attempts[i].action, t)}

(* actions and toolCalls count the attempts.                               *)
BudgetInv ==
  /\ rt.actions = Len(attempts)
  /\ \A t \in Tools : rt.toolCalls[t] = Cardinality(SpentOn(t))
  /\ AttemptBudget

FailedWith(k) == {j \in Attempted : attempts[j].outcome = "failure" /\ KeyOf(j) = k}

(* failures counts the failed attempts of each key.                        *)
RetryInv ==
  /\ rt.writeRevision = WritesBefore(Len(attempts) + 1)
  /\ \A k \in ActionKeys : TimesFailed(k, rt.failures) = Cardinality(FailedWith(k))
  /\ RetryBudget

(* consecutiveFailures counts the failures since the last success.         *)
BreakerInv ==
  /\ rt.consecutiveFailures = FailuresSinceSuccess(Len(attempts) + 1)
  /\ BreakerHeld

Admission(j) == [number |-> j, at |-> attempts[j].at]

(* recentActions holds the admissions of the present window, perhaps more. *)
RateInv ==
  /\ \A r \in rt.recentActions : r.number \in Attempted /\ r = Admission(r.number)
  /\ \A j \in Attempted :
       /\ attempts[j].at <= now
       /\ Admission(j) \in rt.recentActions \/ now - attempts[j].at >= Window(Policy)
  /\ RateHeld

(* changedPaths is the set of paths written.                               *)
FilesHeld ==
  Limited(Policy.maxChangedFiles, Cardinality({attempts[i].action.path : i \in WriteAttempts}))

FilesInv ==
  /\ rt.changedPaths = {attempts[i].action.path : i \in WriteAttempts}
  /\ FilesHeld

(* f[i] adds up the first i of the n weights w.                            *)
Totals(f, w, n) == f = [i \in 0 .. n |-> IF i = 0 THEN 0 ELSE f[i - 1] + w[i]]

Volumes ==
  [i \in Attempted |-> IF IsWrite(attempts[i].action) THEN attempts[i].action.content ELSE 0]

Costs == [i \in Attempted |-> IF IsModelCall(i) THEN Charge(i) ELSE 0]

(* writtenBytes is the total of the volumes, whatever adds them up.        *)
VolumeInv ==
  /\ \E f : Totals(f, Volumes, Len(attempts))
  /\ \A f : Totals(f, Volumes, Len(attempts)) => f[Len(attempts)] = rt.writtenBytes
  /\ Limited(Policy.maxWriteBytes, rt.writtenBytes)

(* tokensCharged is the total of the costs, and each call found room.      *)
RoomHeld(f) ==
  Policy.maxTokens # None =>
    \A i \in Attempted : IsModelCall(i) =>
      f[i - 1] + attempts[i].action.reservation <= Policy.maxTokens

TokenInv ==
  /\ \E f : Totals(f, Costs, Len(attempts))
  /\ \A f : Totals(f, Costs, Len(attempts)) =>
       /\ f \in [0 .. Len(attempts) -> Nat]
       /\ f[Len(attempts)] = rt.tokensCharged
       /\ RoomHeld(f)

Known(j) == attempts[j].outcome = "pending" \/ attempts[j].reported # None

(* tokenUsageUnknown is raised by the first call that reports no usage.    *)
UsageInv ==
  /\ ~rt.tokenUsageUnknown => \A j \in Attempted : IsModelCall(j) => Known(j)
  /\ Policy.maxTokens # None =>
       \A i \in Attempted : IsModelCall(i) =>
         \A j \in 1 .. i - 1 : IsModelCall(j) => Known(j)

(* readPaths are paths some attempt has read.                              *)
ReadInv ==
  /\ \A f \in rt.readPaths : \E j \in Attempted :
       /\ attempts[j].action.kind = "file.read"
       /\ attempts[j].action.path = f
       /\ attempts[j].outcome = "success"
  /\ ReadBeforeWrite

(* phaseIndex and successfulTools describe the present visit of a phase.   *)
WorkflowInv ==
  /\ entries # << >> /\ rt.phaseIndex = entries[Len(entries)]
  /\ HasPhases(Policy) => \A n \in DOMAIN entries : entries[n] \in DOMAIN Policy.phases
  /\ \A i \in Attempted : attempts[i].entry \in DOMAIN entries
  /\ rt.successfulTools = SucceededIn(Len(entries))
  /\ WorkflowHeld

(* verifiedRevision is current only when a verification follows all writes.*)
VerifiedInv ==
  /\ rt.verifiedRevision <= rt.writeRevision
  /\ rt.verifiedRevision = rt.writeRevision =>
       \E i \in Attempted :
         /\ Verifies(attempts[i].action)
         /\ attempts[i].outcome = "success"
         /\ \A j \in WriteAttempts : j < i

(* The clock runs from the session's start.                                *)
ScopeInv == rt.startedAt = 0 /\ DurationHeld /\ ModelsHeld

ControlInv == QueueInv /\ GateInv /\ JobInv /\ DecisionInv /\ ChargeInv /\ RunningInv

HistoryInv ==
  /\ BudgetInv /\ RetryInv /\ BreakerInv /\ RateInv /\ FilesInv /\ VolumeInv
  /\ TokenInv /\ UsageInv /\ ReadInv /\ WorkflowInv /\ VerifiedInv
  /\ ScopeInv

Inv == TypeOK /\ ControlInv /\ HistoryInv

-----------------------------------------------------------------------------
(* Types by field.                                                         *)

Fields ==
  {"startedAt", "phaseIndex", "actions", "toolCalls", "successfulTools", "readPaths",
   "changedPaths", "writtenBytes", "tokensCharged", "tokensReported", "tokenUsageUnknown",
   "failures", "consecutiveFailures", "recentActions", "writeRevision", "verifiedRevision"}

FieldTypes(st) ==
  /\ st.startedAt \in Nat /\ st.phaseIndex \in Nat \ {0} /\ st.actions \in Nat
  /\ st.toolCalls \in [Tools -> Nat] /\ st.successfulTools \in SUBSET Tools
  /\ st.readPaths \in SUBSET Paths /\ st.changedPaths \in SUBSET Paths
  /\ st.writtenBytes \in Nat /\ st.tokensCharged \in Nat /\ st.tokensReported \in Nat
  /\ st.tokenUsageUnknown \in BOOLEAN /\ st.consecutiveFailures \in Nat
  /\ st.recentActions \in SUBSET [number : Nat, at : Nat]
  /\ st.writeRevision \in Nat /\ st.verifiedRevision \in Nat \cup {-1}
  /\ IsFailureCount(st.failures)

IsRecord(st) == st = [f \in Fields |-> st[f]]

LEMMA StateFields ==
  ASSUME NEW st, IsRuntimeState(st)
  PROVE  IsRecord(st) /\ FieldTypes(st)
<1>1. FieldTypes(st)
  BY DEF IsRuntimeState, FieldTypes
<1>2. IsRecord(st)
  BY DEF IsRuntimeState, IsRecord, Fields
<1> QED
  BY <1>1, <1>2

LEMMA StateOf ==
  ASSUME NEW st, IsRecord(st), FieldTypes(st)
  PROVE  IsRuntimeState(st)
BY DEF IsRuntimeState, IsRecord, Fields, FieldTypes

LEMMA ActionFields ==
  ASSUME NEW a \in Actions
  PROVE  /\ a.kind \in Tools /\ a.content \in Nat /\ a.grounded \in BOOLEAN
         /\ a.path \in Optional(Paths) /\ a.command \in Optional(Commands)
         /\ a.model \in Optional(Models) /\ a.prompt \in Optional(Prompts)
         /\ a.reservation \in Optional(Nat)
         /\ a.kind \in {"file.read", "file.write"} <=> a.path \in Paths
         /\ a.kind = "model.call" => a.reservation \in Nat
<1>1. a \in RuntimeAction
  BY ExecutionAssumption
<1>2. /\ a.kind \in {"file.read", "file.write"} <=> a.path # None
      /\ a.kind = "model.call" => a.reservation \in Nat
  BY ExecutionAssumption
<1> QED
  BY <1>1, <1>2, PolicyAssumption DEF RuntimeAction, Optional

LEMMA OptionFields ==
  ASSUME NEW x \in Sessions
  PROVE  /\ IsPolicy(x.runtimePolicy) /\ x.verificationCommands \subseteq Commands
         /\ x.horizon \in Nat /\ x.requests \subseteq Actions
BY ExecutionAssumption DEF IsOptions

LEMMA PolicyFields ==
  ASSUME NEW p, IsPolicy(p)
  PROVE  /\ p.phases \in Seq(WorkflowPhase)
         /\ p.maxTokens \in Optional(Nat) /\ p.maxRetries \in Optional(Nat)
         /\ p.maxActions \in Optional(Nat) /\ p.maxDuration \in Optional(Nat \ {0})
         /\ p.maxConsecutiveFailures \in Optional(Nat \ {0})
         /\ p.maxChangedFiles \in Optional(Nat) /\ p.maxWriteBytes \in Optional(Nat)
         /\ p.maxActionsPerWindow \in Optional(Nat \ {0})
         /\ p.window \in Optional(Nat \ {0}) /\ Window(p) \in Nat \ {0}
         /\ p.toolQuotas \in [Tools -> Optional(Nat)]
         /\ p.requireReadBeforeWrite \in BOOLEAN
         /\ p.requireVerificationBeforeComplete \in BOOLEAN
<1>1. p.window \in Optional(Nat \ {0})
  BY DEF IsPolicy
<1>2. Window(p) \in Nat \ {0}
  BY <1>1, PolicyAssumption DEF Window, Optional
<1> QED
  BY <1>1, <1>2 DEF IsPolicy

-----------------------------------------------------------------------------
(* What the reducers do, field by field.                                   *)

Fresh(o) ==
  [op |-> o, action |-> job[o].action, at |-> now, entry |-> Len(entries),
   outcome |-> "pending", reported |-> None]

(* Admission charges the counters and appends the attempt.                 *)
Charges(a) ==
  /\ rt'.actions = rt.actions + 1
  /\ rt'.toolCalls = [t \in Tools |-> rt.toolCalls[t] + (IF t \in ToolsOf(a) THEN 1 ELSE 0)]
  /\ rt'.recentActions =
       Recent(Policy, rt, now) \cup {[number |-> rt.actions + 1, at |-> now]}
  /\ rt'.changedPaths = (IF IsWrite(a) THEN rt.changedPaths \cup {a.path} ELSE rt.changedPaths)
  /\ rt'.writtenBytes = rt.writtenBytes + (IF IsWrite(a) THEN a.content ELSE 0)
  /\ rt'.writeRevision = rt.writeRevision + (IF IsWrite(a) THEN 1 ELSE 0)
  /\ rt'.tokensCharged =
       rt.tokensCharged + (IF a.kind = "model.call" THEN Reservation(a) ELSE 0)
  /\ rt'.startedAt = rt.startedAt
  /\ rt'.phaseIndex = rt.phaseIndex /\ rt'.successfulTools = rt.successfulTools
  /\ rt'.readPaths = rt.readPaths /\ rt'.failures = rt.failures
  /\ rt'.consecutiveFailures = rt.consecutiveFailures
  /\ rt'.tokenUsageUnknown = rt.tokenUsageUnknown
  /\ rt'.verifiedRevision = rt.verifiedRevision

Grows(o) ==
  /\ job[o].action \in Actions
  /\ IsRuntimeState(rt') /\ Charges(job[o].action)
  /\ attempts' \in Seq(Attempt) /\ Len(attempts') = Len(attempts) + 1
  /\ \A i \in 1 .. Len(attempts) : attempts'[i] = attempts[i]
  /\ attempts'[Len(attempts) + 1] = Fresh(o)
  /\ UNCHANGED << options, now, entries >>

LEMMA RecentFinite ==
  ASSUME NEW st, FieldTypes(st), NEW p, NEW time \in Nat
  PROVE  Recent(p, st, time) \in SUBSET [number : Nat, at : Nat]
BY DEF Recent, FieldTypes

LEMMA ChargedFields ==
  ASSUME IsRuntimeState(rt), NEW a \in Actions, now \in Nat,
         rt' = AdmitRuntimeAction(Policy, rt, a, now)
  PROVE  IsRuntimeState(rt') /\ Charges(a)
<1> DEFINE actions  == rt.actions + 1
           calls    == [t \in Tools |-> rt.toolCalls[t] + (IF t \in ToolsOf(a) THEN 1 ELSE 0)]
           recent   == Recent(Policy, rt, now) \cup {[number |-> rt.actions + 1, at |-> now]}
           paths    == IF IsWrite(a) THEN rt.changedPaths \cup {a.path} ELSE rt.changedPaths
           bytes    == rt.writtenBytes + (IF IsWrite(a) THEN a.content ELSE 0)
           revision == rt.writeRevision + (IF IsWrite(a) THEN 1 ELSE 0)
           tokens   == rt.tokensCharged + (IF a.kind = "model.call" THEN Reservation(a) ELSE 0)
<1>1. IsRecord(rt) /\ FieldTypes(rt)
  BY StateFields
<1>2. /\ actions \in Nat /\ calls \in [Tools -> Nat] /\ bytes \in Nat /\ revision \in Nat
      /\ recent \in SUBSET [number : Nat, at : Nat] /\ paths \in SUBSET Paths /\ tokens \in Nat
  <2>1. actions \in Nat /\ calls \in [Tools -> Nat] /\ bytes \in Nat /\ revision \in Nat
    BY <1>1, ActionFields DEF FieldTypes
  <2>2. recent \in SUBSET [number : Nat, at : Nat]
    BY <1>1, RecentFinite DEF FieldTypes
  <2>3. paths \in SUBSET Paths
    BY <1>1, ActionFields DEF FieldTypes, IsWrite
  <2>4. tokens \in Nat
    BY <1>1, ActionFields DEF FieldTypes, Reservation, Optional
  <2> QED
    BY <2>1, <2>2, <2>3, <2>4
<1>3. rt' = [rt EXCEPT !.actions = actions, !.toolCalls = calls, !.recentActions = recent,
                       !.changedPaths = paths, !.writtenBytes = bytes,
                       !.writeRevision = revision, !.tokensCharged = tokens]
  BY DEF AdmitRuntimeAction
<1> HIDE DEF actions, calls, recent, paths, bytes, revision, tokens
<1>4. /\ IsRecord(rt')
      /\ rt'.actions = actions /\ rt'.toolCalls = calls /\ rt'.recentActions = recent
      /\ rt'.changedPaths = paths /\ rt'.writtenBytes = bytes /\ rt'.writeRevision = revision
      /\ rt'.tokensCharged = tokens
      /\ \A f \in Fields \ {"actions", "toolCalls", "recentActions", "changedPaths",
                            "writtenBytes", "writeRevision", "tokensCharged"} : rt'[f] = rt[f]
  BY <1>1, <1>3 DEF IsRecord, Fields
<1>5. /\ rt'.startedAt = rt.startedAt /\ rt'.phaseIndex = rt.phaseIndex
      /\ rt'.successfulTools = rt.successfulTools /\ rt'.readPaths = rt.readPaths
      /\ rt'.failures = rt.failures /\ rt'.consecutiveFailures = rt.consecutiveFailures
      /\ rt'.tokensReported = rt.tokensReported
      /\ rt'.tokenUsageUnknown = rt.tokenUsageUnknown
      /\ rt'.verifiedRevision = rt.verifiedRevision
  BY <1>4 DEF Fields
<1>6. FieldTypes(rt')
  BY <1>1, <1>2, <1>4, <1>5 DEF FieldTypes
<1>7. Charges(a)
  BY <1>4, <1>5 DEF Charges, actions, calls, recent, paths, bytes, revision, tokens
<1> QED
  BY <1>4, <1>6, <1>7, StateOf

LEMMA AdmitGrows ==
  ASSUME TypeOK, NEW o \in Ops, job[o].action # None, Admit(o)
  PROVE  Grows(o)
<1>1. job[o].action \in Actions
  BY DEF TypeOK, Optional
<1>2. now \in Nat /\ IsRuntimeState(rt) /\ attempts \in Seq(Attempt) /\ Len(entries) \in Nat
  BY OptionFields DEF TypeOK
<1>3. IsRuntimeState(rt') /\ Charges(job[o].action)
  BY <1>1, <1>2, ChargedFields DEF Admit
<1>4. Fresh(o) \in Attempt
  BY <1>1, <1>2 DEF Fresh, Attempt, Optional
<1>5. attempts' = Append(attempts, Fresh(o)) /\ UNCHANGED << options, now, entries >>
  BY DEF Admit, Fresh
<1> HIDE DEF Fresh
<1>6. /\ attempts' \in Seq(Attempt) /\ Len(attempts') = Len(attempts) + 1
      /\ \A i \in 1 .. Len(attempts) : attempts'[i] = attempts[i]
      /\ attempts'[Len(attempts) + 1] = Fresh(o)
  BY <1>2, <1>4, <1>5
<1> QED
  BY <1>1, <1>3, <1>5, <1>6 DEF Grows

(* An outcome settles the last attempt and updates the counters.           *)
Settles(a, success, reported) ==
  /\ rt'.actions = rt.actions /\ rt'.toolCalls = rt.toolCalls
  /\ rt'.recentActions = rt.recentActions /\ rt'.changedPaths = rt.changedPaths
  /\ rt'.writtenBytes = rt.writtenBytes /\ rt'.writeRevision = rt.writeRevision
  /\ rt'.phaseIndex = rt.phaseIndex /\ rt'.startedAt = rt.startedAt
  /\ rt'.successfulTools =
       (IF success THEN rt.successfulTools \cup {a.kind} ELSE rt.successfulTools)
  /\ rt'.readPaths = ReadPathsAfter(rt, a, success)
  /\ rt'.failures =
       (IF success THEN rt.failures ELSE FailedAgain(ActionKey(a, rt.writeRevision), rt.failures))
  /\ rt'.consecutiveFailures = (IF success THEN 0 ELSE rt.consecutiveFailures + 1)
  /\ rt'.tokensCharged = rt.tokensCharged + Overrun(a, reported)
  /\ rt'.tokenUsageUnknown =
       (rt.tokenUsageUnknown \/ (a.kind = "model.call" /\ reported = None))
  /\ rt'.verifiedRevision =
       (IF success /\ Verifies(a) THEN rt.writeRevision ELSE rt.verifiedRevision)

Concludes(a, success, reported) ==
  /\ a \in Actions /\ success \in BOOLEAN /\ reported \in Optional(Nat)
  /\ reported # None => success /\ a.kind = "model.call"
  /\ IsRuntimeState(rt') /\ Settles(a, success, reported)
  /\ Len(attempts) > 0
  /\ attempts[Len(attempts)].action = a
  /\ attempts[Len(attempts)].outcome = "pending"
  /\ attempts[Len(attempts)].reported = None
  /\ attempts[Len(attempts)].entry = Len(entries)
  /\ attempts' \in Seq(Attempt) /\ Len(attempts') = Len(attempts)
  /\ \A i \in 1 .. Len(attempts) :
       /\ i # Len(attempts) => attempts'[i] = attempts[i]
       /\ attempts'[i].op = attempts[i].op
       /\ attempts'[i].action = attempts[i].action
       /\ attempts'[i].at = attempts[i].at
       /\ attempts'[i].entry = attempts[i].entry
  /\ attempts'[Len(attempts)].outcome = (IF success THEN "success" ELSE "failure")
  /\ attempts'[Len(attempts)].reported = reported
  /\ UNCHANGED << options, now, entries >>

LEMMA KeyType ==
  ASSUME NEW a \in Actions, NEW r \in Nat
  PROVE  ActionKey(a, r) \in ActionKeys
BY ActionFields DEF ActionKey, ActionKeys

LEMMA FailedAgainType ==
  ASSUME NEW f, IsFailureCount(f), NEW k \in ActionKeys
  PROVE  IsFailureCount(FailedAgain(k, f))
<1>1. CASE k \in DOMAIN f
  <2>1. FailedAgain(k, f) = [e \in DOMAIN f |-> IF e = k THEN f[k] + 1 ELSE f[e]]
    BY <1>1 DEF FailedAgain, TimesFailed
  <2> QED
    BY <1>1, <2>1 DEF IsFailureCount
<1>2. CASE k \notin DOMAIN f
  <2>1. FailedAgain(k, f) = [e \in DOMAIN f \cup {k} |-> IF e = k THEN 1 ELSE f[e]]
    BY <1>2 DEF FailedAgain, TimesFailed
  <2> QED
    BY <1>2, <2>1 DEF IsFailureCount
<1> QED
  BY <1>1, <1>2

LEMMA SettledFields ==
  ASSUME IsRuntimeState(rt), NEW a \in Actions, NEW success \in BOOLEAN,
         NEW reported \in Optional(Nat),
         rt' = RecordRuntimeOutcome(rt, a, success, Verifies(a), reported)
  PROVE  IsRuntimeState(rt') /\ Settles(a, success, reported)
<1> DEFINE tools    == IF success THEN rt.successfulTools \cup {a.kind} ELSE rt.successfulTools
           paths    == ReadPathsAfter(rt, a, success)
           failures == IF success THEN rt.failures
                       ELSE FailedAgain(ActionKey(a, rt.writeRevision), rt.failures)
           failed   == IF success THEN 0 ELSE rt.consecutiveFailures + 1
           tokens   == rt.tokensCharged + Overrun(a, reported)
           reports  == rt.tokensReported
                         + (IF a.kind = "model.call" /\ reported # None THEN reported ELSE 0)
           unknown  == rt.tokenUsageUnknown \/ (a.kind = "model.call" /\ reported = None)
           verified == IF success /\ Verifies(a) THEN rt.writeRevision ELSE rt.verifiedRevision
<1>1. IsRecord(rt) /\ FieldTypes(rt)
  BY StateFields
<1>2. /\ tools \in SUBSET Tools /\ paths \in SUBSET Paths /\ IsFailureCount(failures)
      /\ failed \in Nat /\ tokens \in Nat /\ reports \in Nat /\ unknown \in BOOLEAN
      /\ verified \in Nat \cup {-1}
  <2>1. tools \in SUBSET Tools /\ paths \in SUBSET Paths /\ failed \in Nat
    BY <1>1, ActionFields DEF FieldTypes, ReadPathsAfter
  <2>2. IsFailureCount(failures)
    BY <1>1, KeyType, FailedAgainType DEF FieldTypes
  <2>3. tokens \in Nat /\ reports \in Nat
    BY <1>1, ActionFields DEF FieldTypes, Overrun, Reservation, Optional
  <2>4. unknown \in BOOLEAN
    OBVIOUS
  <2>5. verified \in Nat \cup {-1}
    BY <1>1 DEF FieldTypes
  <2> QED
    BY <2>1, <2>2, <2>3, <2>4, <2>5
<1>3. rt' = [rt EXCEPT !.successfulTools = tools, !.readPaths = paths,
                       !.failures = failures, !.consecutiveFailures = failed,
                       !.tokensCharged = tokens, !.tokensReported = reports,
                       !.tokenUsageUnknown = unknown, !.verifiedRevision = verified]
  BY DEF RecordRuntimeOutcome
<1> HIDE DEF tools, paths, failures, failed, tokens, reports, unknown, verified
<1>4. /\ IsRecord(rt')
      /\ rt'.successfulTools = tools /\ rt'.readPaths = paths /\ rt'.failures = failures
      /\ rt'.consecutiveFailures = failed /\ rt'.tokensCharged = tokens
      /\ rt'.tokensReported = reports /\ rt'.tokenUsageUnknown = unknown
      /\ rt'.verifiedRevision = verified
      /\ \A f \in Fields \ {"successfulTools", "readPaths", "failures",
                            "consecutiveFailures", "tokensCharged", "tokensReported",
                            "tokenUsageUnknown", "verifiedRevision"} : rt'[f] = rt[f]
  <2> DEFINE first == [rt EXCEPT !.successfulTools = tools, !.readPaths = paths,
                                 !.failures = failures, !.consecutiveFailures = failed]
  <2>1. /\ IsRecord(first)
        /\ first.successfulTools = tools /\ first.readPaths = paths
        /\ first.failures = failures /\ first.consecutiveFailures = failed
        /\ \A f \in Fields \ {"successfulTools", "readPaths", "failures",
                               "consecutiveFailures"} : first[f] = rt[f]
    BY <1>1 DEF IsRecord, Fields
  <2>2. rt' = [first EXCEPT !.tokensCharged = tokens, !.tokensReported = reports,
                            !.tokenUsageUnknown = unknown, !.verifiedRevision = verified]
    BY <1>3
  <2> HIDE DEF first
  <2>3. /\ IsRecord(rt')
        /\ rt'.tokensCharged = tokens /\ rt'.tokensReported = reports
        /\ rt'.tokenUsageUnknown = unknown /\ rt'.verifiedRevision = verified
        /\ \A f \in Fields \ {"tokensCharged", "tokensReported", "tokenUsageUnknown",
                               "verifiedRevision"} : rt'[f] = first[f]
    BY <2>1, <2>2 DEF IsRecord, Fields
  <2> QED
    BY <2>1, <2>3 DEF Fields
<1>5. /\ rt'.startedAt = rt.startedAt /\ rt'.phaseIndex = rt.phaseIndex
      /\ rt'.actions = rt.actions /\ rt'.toolCalls = rt.toolCalls
      /\ rt'.recentActions = rt.recentActions /\ rt'.changedPaths = rt.changedPaths
      /\ rt'.writtenBytes = rt.writtenBytes /\ rt'.writeRevision = rt.writeRevision
  BY <1>4 DEF Fields
<1>6. FieldTypes(rt')
  BY <1>1, <1>2, <1>4, <1>5 DEF FieldTypes
<1>7. Settles(a, success, reported)
  BY <1>4, <1>5 DEF Settles, tools, paths, failures, failed, tokens, unknown, verified
<1> QED
  BY <1>4, <1>6, <1>7, StateOf

LEMMA FinishConcludes ==
  ASSUME TypeOK, RunningInv, NEW o \in Ops, job[o].action # None, NEW success \in BOOLEAN,
         NEW reported \in Reports \cup {None}, Finish(o, success, reported)
  PROVE  Concludes(job[o].action, success, reported)
<1> DEFINE a == job[o].action
           n == Len(attempts)
           outcome == IF success THEN "success" ELSE "failure"
<1>1. a \in Actions /\ reported \in Optional(Nat)
  BY ExecutionAssumption DEF TypeOK, Optional
<1>2. reported # None => success /\ a.kind = "model.call"
  BY DEF Finish, Outcome
<1>3. /\ attempts # << >> /\ attempts[n].action = a /\ attempts[n].outcome = "pending"
      /\ attempts[n].reported = None /\ attempts[n].entry = Len(entries)
  BY DEF Finish, At, RunningInv, Running
<1>4. IsRuntimeState(rt') /\ Settles(a, success, reported)
  <2>1. rt' = RecordRuntimeOutcome(rt, a, success, Verifies(a), reported)
    BY DEF Finish
  <2> QED
    BY <1>1, <2>1, SettledFields DEF TypeOK
<1>5. attempts \in Seq(Attempt) /\ n \in Nat \ {0} /\ attempts[n] \in Attempt
  BY <1>3 DEF TypeOK
<1>6. UNCHANGED << options, now, entries >>
  BY DEF Finish
<1>7. attempts' = [attempts EXCEPT ![n] = [@ EXCEPT !.outcome = outcome, !.reported = reported]]
  BY DEF Finish
<1> DEFINE last == [attempts[n] EXCEPT !.outcome = outcome, !.reported = reported]
<1>8. /\ last \in Attempt /\ last.op = attempts[n].op /\ last.action = attempts[n].action
      /\ last.at = attempts[n].at /\ last.entry = attempts[n].entry
      /\ last.outcome = outcome /\ last.reported = reported
  BY <1>1, <1>5 DEF Attempt
<1>9. attempts' = [attempts EXCEPT ![n] = last]
  BY <1>7
<1> HIDE DEF last
<1>10. /\ attempts' \in Seq(Attempt) /\ Len(attempts') = n
       /\ \A i \in 1 .. n : i # n => attempts'[i] = attempts[i]
       /\ attempts'[n] = last
  BY <1>5, <1>8, <1>9
<1>11. \A i \in 1 .. n :
         /\ i # n => attempts'[i] = attempts[i]
         /\ attempts'[i].op = attempts[i].op
         /\ attempts'[i].action = attempts[i].action
         /\ attempts'[i].at = attempts[i].at
         /\ attempts'[i].entry = attempts[i].entry
  BY <1>8, <1>10
<1>12. attempts'[n].outcome = (IF success THEN "success" ELSE "failure")
       /\ attempts'[n].reported = reported
  BY <1>8, <1>10
<1> QED
  BY <1>1, <1>2, <1>3, <1>4, <1>5, <1>6, <1>10, <1>11, <1>12 DEF Concludes

-----------------------------------------------------------------------------
(* Counting attempts.                                                      *)

LEMMA Finite ==
  ASSUME NEW n \in Nat, NEW S \in SUBSET (1 .. n)
  PROVE  IsFiniteSet(S) /\ Cardinality(S) \in Nat
<1>1. IsFiniteSet(1 .. n)
  BY FS_Interval
<1>2. IsFiniteSet(S)
  BY <1>1, FS_Subset
<1> QED
  BY <1>2, FS_CardinalityType

(* One element more.                                                       *)
LEMMA CountOne ==
  ASSUME NEW n \in Nat, NEW S \in SUBSET (1 .. n), NEW x, x \notin S
  PROVE  Cardinality(S \cup {x}) = Cardinality(S) + 1
<1>1. IsFiniteSet(S)
  BY Finite
<1> QED
  BY <1>1, FS_AddElement

LEMMA AttemptFields ==
  ASSUME NEW s \in Seq(Attempt), NEW i \in 1 .. Len(s)
  PROVE  /\ s[i].op \in Ops /\ s[i].action \in Actions /\ s[i].at \in Nat /\ s[i].entry \in Nat
         /\ s[i].outcome \in {"pending", "success", "failure"} /\ s[i].reported \in Optional(Nat)
<1>1. s[i] \in Attempt
  OBVIOUS
<1> QED
  BY <1>1 DEF Attempt

LEMMA Domains ==
  ASSUME attempts \in Seq(Attempt)
  PROVE  Attempted = 1 .. Len(attempts) /\ Len(attempts) \in Nat
BY DEF Attempted

LEMMA SpendsTools ==
  ASSUME NEW a \in Actions, NEW t \in Tools
  PROVE  Spends(a, t) <=> t \in ToolsOf(a)
BY DEF Spends, ToolsOf

-----------------------------------------------------------------------------
(* The counters follow the history when an action is admitted.             *)

LEMMA BudgetGrows ==
  ASSUME TypeOK, BudgetInv, NEW o \in Ops, Grows(o), Permitted(job[o].action)
  PROVE  BudgetInv'
<1> DEFINE a == job[o].action
           n == Len(attempts)
<1>1. a \in Actions /\ attempts \in Seq(Attempt) /\ n \in Nat /\ Attempted = 1 .. n
  BY Domains DEF TypeOK, Grows
<1>2. attempts' \in Seq(Attempt) /\ Len(attempts') = n + 1 /\ Attempted' = 1 .. n + 1
  BY <1>1, Domains DEF Grows, Attempted
<1>3. /\ \A i \in 1 .. n : attempts'[i] = attempts[i]
      /\ attempts'[n + 1].action = a
  BY DEF Grows, Fresh
<1>4. rt'.actions = n + 1
  BY DEF Grows, Charges, BudgetInv
<1>5. ASSUME NEW t \in Tools
      PROVE  /\ rt'.toolCalls[t] = Cardinality(SpentOn(t)')
             /\ Limited(Policy.toolQuotas[t], Cardinality(SpentOn(t)'))
  <2>1. SpentOn(t) \in SUBSET (1 .. n) /\ n + 1 \notin SpentOn(t)
    BY <1>1 DEF SpentOn
  <2>2. Cardinality(SpentOn(t)) \in Nat /\ rt.toolCalls[t] = Cardinality(SpentOn(t))
    BY <1>1, <2>1, Finite DEF BudgetInv
  <2>3. Limited(Policy.toolQuotas[t], Cardinality(SpentOn(t)))
    BY DEF BudgetInv, AttemptBudget, SpentOn
  <2>4. rt'.toolCalls[t] = rt.toolCalls[t] + (IF t \in ToolsOf(a) THEN 1 ELSE 0)
    BY DEF Grows, Charges
  <2>5. CASE t \in ToolsOf(a)
    <3>1. SpentOn(t)' = SpentOn(t) \cup {n + 1}
      BY <1>1, <1>2, <1>3, <2>5, SpendsTools DEF SpentOn
    <3>2. Cardinality(SpentOn(t)') = Cardinality(SpentOn(t)) + 1
      BY <1>1, <2>1, <3>1, CountOne
    <3>3. Policy.toolQuotas[t] # None => rt.toolCalls[t] < Policy.toolQuotas[t]
      BY <2>5 DEF Permitted, QuotasPermit
    <3>4. Policy.toolQuotas[t] \in Optional(Nat)
      BY OptionFields, PolicyFields DEF TypeOK, Policy
    <3> QED
      BY <2>2, <2>4, <2>5, <3>2, <3>3, <3>4 DEF Limited, Optional
  <2>6. CASE t \notin ToolsOf(a)
    <3>1. SpentOn(t)' = SpentOn(t)
      BY <1>1, <1>2, <1>3, <2>6, SpendsTools DEF SpentOn
    <3> QED
      BY <2>2, <2>3, <2>4, <2>6, <3>1
  <2> QED
    BY <2>5, <2>6
<1>6. Limited(Policy.maxActions, n + 1)
  <2>1. Policy.maxActions # None => n < Policy.maxActions
    BY DEF Permitted, ActionsPermit, BudgetInv
  <2>2. Policy.maxActions \in Optional(Nat)
    BY OptionFields, PolicyFields DEF TypeOK, Policy
  <2> QED
    BY <1>1, <2>1, <2>2 DEF Limited, Optional
<1>7. Policy' = Policy
  BY DEF Grows, Policy
<1>8. AttemptBudget'
  BY <1>2, <1>5, <1>6, <1>7 DEF AttemptBudget, SpentOn
<1> QED
  BY <1>2, <1>4, <1>5, <1>8 DEF BudgetInv

(* Attempts that were there keep their write revision and their key.       *)
LEMMA KeysGrow ==
  ASSUME TypeOK, NEW o \in Ops, Grows(o)
  PROVE  /\ \A i \in 1 .. Len(attempts) + 1 : WritesBefore(i)' = WritesBefore(i)
         /\ \A i \in 1 .. Len(attempts) : KeyOf(i)' = KeyOf(i)
<1> DEFINE n == Len(attempts)
<1>1. n \in Nat /\ \A i \in 1 .. n : attempts'[i] = attempts[i]
  BY DEF TypeOK, Grows
<1>2. ASSUME NEW i \in 1 .. n + 1
      PROVE  WritesBefore(i)' = WritesBefore(i)
  <2>1. {j \in 1 .. i - 1 : IsWrite(attempts'[j].action)}
          = {j \in 1 .. i - 1 : IsWrite(attempts[j].action)}
    BY <1>1
  <2> QED
    BY <2>1 DEF WritesBefore
<1> QED
  BY <1>1, <1>2 DEF KeyOf

LEMMA RetryGrows ==
  ASSUME TypeOK, RetryInv, NEW o \in Ops, Grows(o), Permitted(job[o].action)
  PROVE  RetryInv'
<1>0. PICK n \in Nat : n = Len(attempts)
  BY DEF TypeOK
<1> DEFINE a == job[o].action
           key == ActionKey(a, rt.writeRevision)
<1>1. a \in Actions /\ attempts \in Seq(Attempt) /\ Attempted = 1 .. n
  BY <1>0, Domains DEF TypeOK, Grows
<1>2. attempts' \in Seq(Attempt) /\ Len(attempts') = n + 1 /\ Attempted' = 1 .. n + 1
  BY <1>0, <1>1, Domains DEF Grows, Attempted
<1>3. /\ \A i \in 1 .. n : attempts'[i] = attempts[i]
      /\ attempts'[n + 1].action = a /\ attempts'[n + 1].outcome = "pending"
  BY <1>0 DEF Grows, Fresh
<1>4. /\ \A i \in 1 .. n + 1 : WritesBefore(i)' = WritesBefore(i)
      /\ \A i \in 1 .. n : KeyOf(i)' = KeyOf(i)
  BY <1>0, KeysGrow
<1>5. rt.writeRevision \in Nat /\ key \in ActionKeys
  BY <1>1, StateFields, KeyType DEF TypeOK, FieldTypes
<1>6. rt'.writeRevision = WritesBefore(n + 2)'
  <2> DEFINE W == {j \in 1 .. n : IsWrite(attempts[j].action)}
  <2>1. WritesBefore(n + 1) = Cardinality(W) /\ n + 1 \notin W
    BY <1>1 DEF WritesBefore
  <2>2. WritesBefore(n + 2)' = Cardinality({j \in 1 .. n + 1 : IsWrite(attempts'[j].action)})
    BY <1>1 DEF WritesBefore
  <2>3. {j \in 1 .. n + 1 : IsWrite(attempts'[j].action)}
           = (IF IsWrite(a) THEN W \cup {n + 1} ELSE W)
    BY <1>1, <1>3
  <2>4. rt'.writeRevision = rt.writeRevision + (IF IsWrite(a) THEN 1 ELSE 0)
    BY DEF Grows, Charges
  <2>5. rt.writeRevision = Cardinality(W)
    BY <1>0, <2>1 DEF RetryInv
  <2>6. Cardinality(W \cup {n + 1}) = Cardinality(W) + 1 /\ Cardinality(W) \in Nat
    <3>1. W \in SUBSET (1 .. n)
      OBVIOUS
    <3> HIDE DEF W
    <3> QED
      BY <1>1, <2>1, <3>1, CountOne, Finite
  <2>7. CASE IsWrite(a)
    BY <2>2, <2>3, <2>4, <2>5, <2>6, <2>7
  <2>8. CASE ~IsWrite(a)
    <3>1. WritesBefore(n + 2)' = Cardinality(W)
      BY <2>2, <2>3, <2>8
    <3>2. rt'.writeRevision = Cardinality(W)
      BY <2>4, <2>5, <2>6, <2>8
    <3> QED
      BY <3>1, <3>2
  <2> QED
    BY <2>7, <2>8
<1>7. ASSUME NEW k \in ActionKeys
      PROVE  FailedWith(k)' = FailedWith(k)
  BY <1>1, <1>2, <1>3, <1>4 DEF FailedWith
<1>8. \A k \in ActionKeys : TimesFailed(k, rt'.failures) = Cardinality(FailedWith(k)')
  BY <1>7 DEF Grows, Charges, RetryInv
<1>9. ASSUME NEW i \in 1 .. n
      PROVE  {j \in 1 .. i - 1 : attempts'[j].outcome = "failure" /\ KeyOf(j)' = KeyOf(i)'}
               = {j \in 1 .. i - 1 : attempts[j].outcome = "failure" /\ KeyOf(j) = KeyOf(i)}
  BY <1>1, <1>3, <1>4
<1>10. {j \in 1 .. n : attempts'[j].outcome = "failure" /\ KeyOf(j)' = KeyOf(n + 1)'}
         = FailedWith(key)
  <2>1. KeyOf(n + 1)' = ActionKey(a, WritesBefore(n + 1)')
    BY <1>3 DEF KeyOf
  <2>2. WritesBefore(n + 1)' = rt.writeRevision
    BY <1>0, <1>4 DEF RetryInv
  <2>3. KeyOf(n + 1)' = key
    BY <2>1, <2>2
  <2> QED
    BY <1>1, <1>3, <1>4, <2>3 DEF FailedWith
<1>11. Limited(Policy.maxRetries, Cardinality(FailedWith(key)))
  BY <1>5 DEF Permitted, RetriesPermit, RetryInv, Limited
<1>12. Policy' = Policy
  BY DEF Grows, Policy
<1>13. RetryBudget'
  <2>1. ASSUME NEW i \in 1 .. n + 1
        PROVE  Limited(Policy.maxRetries, Cardinality(
                 {j \in 1 .. i - 1 : attempts'[j].outcome = "failure" /\ KeyOf(j)' = KeyOf(i)'}))
    <3>1. CASE i = n + 1
      <4>1. i - 1 = n
        BY <1>1, <3>1
      <4> QED
        BY <1>10, <1>11, <3>1, <4>1, Zenon
    <3>2. CASE i \in 1 .. n
      <4>1. Limited(Policy.maxRetries, Cardinality(
              {j \in 1 .. i - 1 : attempts[j].outcome = "failure" /\ KeyOf(j) = KeyOf(i)}))
        BY <1>1, <3>2 DEF RetryInv, RetryBudget
      <4> QED
        BY <1>9, <3>2, <4>1
    <3> QED
      BY <1>1, <3>1, <3>2
  <2> QED
    BY <1>2, <1>12, <2>1 DEF RetryBudget
<1>14. Len(attempts') + 1 = n + 2
  BY <1>1, <1>2
<1> QED
  BY <1>6, <1>8, <1>13, <1>14 DEF RetryInv

LEMMA BreakerGrows ==
  ASSUME TypeOK, BreakerInv, NEW o \in Ops, Grows(o), Permitted(job[o].action)
  PROVE  BreakerInv'
<1>0. PICK n \in Nat : n = Len(attempts)
  BY DEF TypeOK
<1>1. attempts \in Seq(Attempt) /\ Attempted = 1 .. n
  BY <1>0, Domains DEF TypeOK
<1>2. attempts' \in Seq(Attempt) /\ Len(attempts') = n + 1 /\ Attempted' = 1 .. n + 1
  BY <1>0, <1>1, Domains DEF Grows, Attempted
<1>3. /\ \A i \in 1 .. n : attempts'[i] = attempts[i]
      /\ attempts'[n + 1].outcome = "pending"
  BY <1>0 DEF Grows, Fresh
<1>4. ASSUME NEW i \in 1 .. n + 1
      PROVE  FailuresSinceSuccess(i)' = FailuresSinceSuccess(i)
  <2>1. {j \in 1 .. i - 1 : /\ attempts'[j].outcome = "failure"
                            /\ \A k \in j .. i - 1 : attempts'[k].outcome # "success"}
          = {j \in 1 .. i - 1 : /\ attempts[j].outcome = "failure"
                                /\ \A k \in j .. i - 1 : attempts[k].outcome # "success"}
    BY <1>1, <1>3
  <2> QED
    BY <2>1 DEF FailuresSinceSuccess
<1>5. FailuresSinceSuccess(n + 2)' = FailuresSinceSuccess(n + 1)
  <2> DEFINE failed == {j \in 1 .. n : /\ attempts[j].outcome = "failure"
                                       /\ \A k \in j .. n : attempts[k].outcome # "success"}
  <2>1. {j \in 1 .. (n + 2) - 1 :
           /\ attempts'[j].outcome = "failure"
           /\ \A k \in j .. (n + 2) - 1 : attempts'[k].outcome # "success"} = failed
    <3>1. \A j \in 1 .. n + 1 : \A k \in j .. n : attempts'[k] = attempts[k]
      BY <1>3
    <3>2. \A j : j \in 1 .. (n + 2) - 1 <=> j \in 1 .. n + 1
      OBVIOUS
    <3>3. ASSUME NEW j \in 1 .. n + 1
          PROVE  /\ attempts'[j].outcome = "failure"
                 /\ \A k \in j .. (n + 2) - 1 : attempts'[k].outcome # "success"
                 <=> j \in failed
      <4>1. \A k : k \in j .. (n + 2) - 1 <=> k \in j .. n \/ k = n + 1
        BY <3>3
      <4> QED
        BY <1>3, <3>1, <4>1
    <3> QED
      BY <3>2, <3>3
  <2>2. {j \in 1 .. (n + 1) - 1 :
           /\ attempts[j].outcome = "failure"
           /\ \A k \in j .. (n + 1) - 1 : attempts[k].outcome # "success"} = failed
    OBVIOUS
  <2> QED
    BY <2>1, <2>2 DEF FailuresSinceSuccess
<1>6. rt'.consecutiveFailures = FailuresSinceSuccess(n + 1)
  BY <1>0 DEF Grows, Charges, BreakerInv
<1>7. Policy.maxConsecutiveFailures # None =>
        FailuresSinceSuccess(n + 1) < Policy.maxConsecutiveFailures
  BY <1>0 DEF Permitted, BreakerPermits, BreakerInv
<1>8. Policy' = Policy
  BY DEF Grows, Policy
<1>9. ASSUME Policy.maxConsecutiveFailures # None, NEW i \in 1 .. n + 1
      PROVE  FailuresSinceSuccess(i)' < Policy.maxConsecutiveFailures
  <2>1. i = n + 1 \/ i \in 1 .. n
    BY <1>1
  <2> QED
    BY <1>1, <1>4, <1>7, <1>9, <2>1 DEF BreakerInv, BreakerHeld
<1>10. BreakerHeld'
  BY <1>2, <1>8, <1>9 DEF BreakerHeld
<1>11. Len(attempts') + 1 = n + 2
  BY <1>1, <1>2
<1> QED
  BY <1>5, <1>6, <1>10, <1>11 DEF BreakerInv

LEMMA RecentSubset ==
  ASSUME TypeOK, RateInv
  PROVE  /\ IsFiniteSet(rt.recentActions)
         /\ \A S \in SUBSET rt.recentActions : IsFiniteSet(S) /\ Cardinality(S) \in Nat
<1>0. PICK n \in Nat : n = Len(attempts)
  BY DEF TypeOK
<1>1. Attempted = 1 .. n
  BY <1>0, Domains DEF TypeOK
<1> DEFINE f == [r \in rt.recentActions |-> r.number]
<1>2. f \in Injection(rt.recentActions, 1 .. n)
  <2>1. \A r \in rt.recentActions : r.number \in 1 .. n /\ r = Admission(r.number)
    BY <1>1 DEF RateInv
  <2>2. f \in [rt.recentActions -> 1 .. n]
    BY <2>1
  <2>3. \A r, s \in rt.recentActions : f[r] = f[s] => r = s
    BY <2>1
  <2> QED
    BY <2>2, <2>3 DEF Injection, IsInjective
<1>3. IsFiniteSet(1 .. n)
  BY FS_Interval
<1>4. IsFiniteSet(rt.recentActions)
  BY <1>2, <1>3, FS_Injection
<1>5. ASSUME NEW S \in SUBSET rt.recentActions
      PROVE  IsFiniteSet(S) /\ Cardinality(S) \in Nat
  <2>1. IsFiniteSet(S)
    BY <1>4, FS_Subset
  <2> QED
    BY <2>1, FS_CardinalityType
<1> QED
  BY <1>4, <1>5

(* The admissions of the window that ends now are among the recent ones.   *)
LEMMA WindowCounted ==
  ASSUME TypeOK, RateInv
  PROVE  Cardinality({j \in Attempted : now - attempts[j].at < Window(Policy)})
           <= Cardinality(Recent(Policy, rt, now))
<1>0. PICK n \in Nat : n = Len(attempts)
  BY DEF TypeOK
<1>1. Attempted = 1 .. n /\ now \in Nat /\ Window(Policy) \in Nat
  BY <1>0, Domains, OptionFields, PolicyFields DEF TypeOK, Policy
<1> DEFINE W == {j \in Attempted : now - attempts[j].at < Window(Policy)}
           f == [j \in W |-> Admission(j)]
<1>2. ASSUME NEW j \in W
      PROVE  Admission(j) \in Recent(Policy, rt, now)
  <2>1. attempts[j].at \in Nat
    BY <1>0, <1>1, AttemptFields DEF TypeOK
  <2>2. Admission(j) \in rt.recentActions
    BY <1>1, <2>1 DEF RateInv
  <2> QED
    BY <2>2 DEF Recent, Admission
<1>3. f \in Injection(W, Recent(Policy, rt, now))
  <2>1. f \in [W -> Recent(Policy, rt, now)]
    BY <1>2
  <2>2. \A i, j \in W : f[i] = f[j] => i = j
    BY DEF Admission
  <2> QED
    BY <2>1, <2>2 DEF Injection, IsInjective
<1>4. IsFiniteSet(Recent(Policy, rt, now))
  BY RecentSubset DEF Recent
<1> HIDE DEF W, f
<1>5. Cardinality(W) <= Cardinality(Recent(Policy, rt, now))
  BY <1>3, <1>4, FS_Injection
<1> QED
  BY <1>5 DEF W

LEMMA RateGrows ==
  ASSUME TypeOK, RateInv, BudgetInv, NEW o \in Ops, Grows(o), Permitted(job[o].action)
  PROVE  RateInv'
<1>0. PICK n \in Nat : n = Len(attempts)
  BY DEF TypeOK
<1>1. attempts \in Seq(Attempt) /\ Attempted = 1 .. n
  BY <1>0, Domains DEF TypeOK
<1>2. attempts' \in Seq(Attempt) /\ Len(attempts') = n + 1 /\ Attempted' = 1 .. n + 1
  BY <1>0, Domains DEF Grows, Attempted
<1>3. /\ \A i \in 1 .. n : attempts'[i] = attempts[i]
      /\ attempts'[n + 1].at = now
  BY <1>0 DEF Grows, Fresh
<1>4. /\ now \in Nat /\ now' = now /\ Policy' = Policy /\ Window(Policy) \in Nat \ {0}
      /\ Policy.maxActionsPerWindow \in Optional(Nat \ {0})
  BY OptionFields, PolicyFields DEF TypeOK, Grows, Policy
<1>5. \A i \in 1 .. n : attempts[i].at \in Nat /\ attempts[i].at <= now
  BY <1>0, <1>1, AttemptFields DEF RateInv
<1>6. rt'.recentActions = Recent(Policy, rt, now) \cup {[number |-> n + 1, at |-> now]}
  BY <1>0 DEF Grows, Charges, BudgetInv
<1>7. ASSUME NEW r \in rt'.recentActions
      PROVE  r.number \in Attempted' /\ r = Admission(r.number)'
  <2>1. CASE r \in Recent(Policy, rt, now)
    <3>1. r.number \in 1 .. n /\ r = Admission(r.number)
      BY <1>1, <2>1 DEF RateInv, Recent
    <3> QED
      BY <1>2, <1>3, <3>1 DEF Admission
  <2>2. CASE r = [number |-> n + 1, at |-> now]
    BY <1>2, <1>3, <2>2 DEF Admission
  <2> QED
    BY <1>6, <2>1, <2>2
<1>8. ASSUME NEW j \in Attempted'
      PROVE  /\ attempts'[j].at <= now'
             /\ Admission(j)' \in rt'.recentActions \/ now' - attempts'[j].at >= Window(Policy)
  <2>1. CASE j = n + 1
    BY <1>3, <1>4, <1>6, <2>1 DEF Admission
  <2>2. CASE j \in 1 .. n
    <3>1. Admission(j)' = Admission(j) /\ attempts'[j].at = attempts[j].at
      BY <1>3, <2>2 DEF Admission
    <3>2. Admission(j) \in rt.recentActions \/ now - attempts[j].at >= Window(Policy)
      BY <1>1, <2>2 DEF RateInv
    <3>3. now - attempts[j].at < Window(Policy) \/ now - attempts[j].at >= Window(Policy)
      BY <1>4, <1>5, <2>2
    <3>4. /\ Admission(j) \in rt.recentActions
          /\ now - attempts[j].at < Window(Policy)
          => Admission(j) \in Recent(Policy, rt, now)
      BY DEF Recent, Admission
    <3> QED
      BY <1>4, <1>5, <1>6, <2>2, <3>1, <3>2, <3>3, <3>4
  <2> QED
    BY <1>2, <2>1, <2>2
<1>9. ASSUME NEW i \in 1 .. n
      PROVE  {j \in 1 .. i : attempts'[i].at - attempts'[j].at < Window(Policy)}
               = {j \in 1 .. i : attempts[i].at - attempts[j].at < Window(Policy)}
  BY <1>3
<1>10. Limited(Policy.maxActionsPerWindow,
         Cardinality({j \in 1 .. n + 1 : attempts'[n + 1].at - attempts'[j].at < Window(Policy)}))
  <2> DEFINE W == {j \in Attempted : now - attempts[j].at < Window(Policy)}
  <2>1. {j \in 1 .. n + 1 : attempts'[n + 1].at - attempts'[j].at < Window(Policy)}
          = W \cup {n + 1}
    BY <1>1, <1>3, <1>4
  <2>2. W \in SUBSET (1 .. n) /\ n + 1 \notin W
    BY <1>1
  <2>3. Cardinality(W) <= Cardinality(Recent(Policy, rt, now))
    BY WindowCounted
  <2>4. Cardinality(Recent(Policy, rt, now)) \in Nat
    BY RecentSubset DEF Recent
  <2>5. Policy.maxActionsPerWindow # None =>
          Cardinality(Recent(Policy, rt, now)) < Policy.maxActionsPerWindow
    BY DEF Permitted, RatePermits
  <2> HIDE DEF W
  <2>6. Cardinality(W \cup {n + 1}) = Cardinality(W) + 1 /\ Cardinality(W) \in Nat
    BY <2>2, CountOne, Finite
  <2>7. Policy.maxActionsPerWindow # None => Cardinality(W) + 1 <= Policy.maxActionsPerWindow
    BY <1>4, <2>3, <2>4, <2>5, <2>6 DEF Optional
  <2> QED
    BY <2>1, <2>6, <2>7 DEF Limited
<1>11. RateHeld'
  <2>1. ASSUME NEW i \in 1 .. n + 1
        PROVE  Limited(Policy.maxActionsPerWindow,
                 Cardinality({j \in 1 .. i : attempts'[i].at - attempts'[j].at < Window(Policy)}))
    <3>1. CASE i = n + 1
      BY <1>10, <3>1
    <3>2. CASE i \in 1 .. n
      <4>1. Limited(Policy.maxActionsPerWindow,
              Cardinality({j \in 1 .. i : attempts[i].at - attempts[j].at < Window(Policy)}))
        BY <1>1, <3>2 DEF RateInv, RateHeld
      <4> QED
        BY <1>9, <3>2, <4>1
    <3> QED
      BY <3>1, <3>2
  <2> QED
    BY <1>2, <1>4, <2>1 DEF RateHeld
<1> QED
  BY <1>4, <1>7, <1>8, <1>11 DEF RateInv

LEMMA FilesGrows ==
  ASSUME TypeOK, FilesInv, NEW o \in Ops, Grows(o), Permitted(job[o].action)
  PROVE  FilesInv'
<1>0. PICK n \in Nat : n = Len(attempts)
  BY DEF TypeOK
<1> DEFINE a == job[o].action
           P == {attempts[i].action.path : i \in WriteAttempts}
<1>1. attempts \in Seq(Attempt) /\ Attempted = 1 .. n
  BY <1>0, Domains DEF TypeOK
<1>2. attempts' \in Seq(Attempt) /\ Attempted' = 1 .. n + 1
  BY <1>0, Domains DEF Grows, Attempted
<1>3. /\ \A i \in 1 .. n : attempts'[i] = attempts[i]
      /\ attempts'[n + 1].action = a
  BY <1>0 DEF Grows, Fresh
<1>4. Policy' = Policy /\ Policy.maxChangedFiles \in Optional(Nat)
  BY OptionFields, PolicyFields DEF TypeOK, Grows, Policy
<1>5. rt'.changedPaths = (IF IsWrite(a) THEN rt.changedPaths \cup {a.path} ELSE rt.changedPaths)
  BY DEF Grows, Charges
<1>6. CASE ~IsWrite(a)
  <2>1. WriteAttempts' = WriteAttempts
    BY <1>1, <1>2, <1>3, <1>6 DEF WriteAttempts
  <2>2. {attempts'[i].action.path : i \in WriteAttempts'} = P
    BY <1>1, <1>3, <2>1 DEF WriteAttempts
  <2> QED
    BY <1>4, <1>5, <1>6, <2>2 DEF FilesInv, FilesHeld
<1>7. CASE IsWrite(a)
  <2>1. WriteAttempts' = WriteAttempts \cup {n + 1}
    BY <1>1, <1>2, <1>3, <1>7 DEF WriteAttempts
  <2>2. {attempts'[i].action.path : i \in WriteAttempts'} = P \cup {a.path}
    BY <1>1, <1>3, <2>1 DEF WriteAttempts
  <2>3. rt.changedPaths = P /\ rt'.changedPaths = P \cup {a.path}
    BY <1>5, <1>7 DEF FilesInv
  <2>4. IsFiniteSet(P)
    <3> DEFINE f == [i \in WriteAttempts |-> attempts[i].action.path]
    <3>1. f \in Surjection(WriteAttempts, P)
      BY DEF Surjection
    <3>2. IsFiniteSet(WriteAttempts)
      BY <1>1, Finite DEF WriteAttempts
    <3> HIDE DEF P, f
    <3> QED
      BY <3>1, <3>2, FS_Surjection
  <2>5. Cardinality(P \cup {a.path})
          = (IF a.path \in P THEN Cardinality(P) ELSE Cardinality(P) + 1)
    <3> HIDE DEF P
    <3> QED
      BY <2>4, FS_AddElement
  <2>6. Cardinality(P) \in Nat
    <3> HIDE DEF P
    <3> QED
      BY <2>4, FS_CardinalityType
  <2>7. Policy.maxChangedFiles # None =>
          a.path \in P \/ Cardinality(P) < Policy.maxChangedFiles
    BY <1>7, <2>3 DEF Permitted, WritePermits, IsWrite
  <2>8. Limited(Policy.maxChangedFiles, Cardinality(P))
    BY DEF FilesInv, FilesHeld
  <2>9. Limited(Policy.maxChangedFiles, Cardinality(P \cup {a.path}))
    <3> HIDE DEF P, a
    <3> QED
      BY <1>4, <2>5, <2>6, <2>7, <2>8 DEF Limited, Optional
  <2> QED
    BY <1>4, <2>2, <2>3, <2>9 DEF FilesInv, FilesHeld
<1> QED
  BY <1>6, <1>7

-----------------------------------------------------------------------------
(* Running totals.                                                         *)

Along(f, n) == f = [i \in 0 .. n |-> f[i]]

LEMMA TotalsExtend ==
  ASSUME NEW n \in Nat, NEW w, NEW v, \A i \in 1 .. n : v[i] = w[i], NEW f, Totals(f, w, n)
  PROVE  \E g : Totals(g, v, n + 1)
<1> DEFINE g == [i \in 0 .. n + 1 |-> IF i = n + 1 THEN f[n] + v[n + 1] ELSE f[i]]
<1>1. ASSUME NEW i \in 0 .. n + 1
      PROVE  g[i] = IF i = 0 THEN 0 ELSE g[i - 1] + v[i]
  <2>1. CASE i = n + 1
    BY <2>1
  <2>2. CASE i \in 1 .. n
    <3>1. g[i] = f[i] /\ g[i - 1] = f[i - 1]
      BY <2>2
    <3>2. f[i] = f[i - 1] + w[i]
      BY <2>2 DEF Totals
    <3> QED
      BY <2>2, <3>1, <3>2
  <2>3. CASE i = 0
    BY <2>3 DEF Totals
  <2> QED
    BY <2>1, <2>2, <2>3
<1>2. g = [i \in 0 .. n + 1 |-> g[i]]
  OBVIOUS
<1> HIDE DEF g
<1>3. Totals(g, v, n + 1)
  BY <1>1, <1>2 DEF Totals
<1> QED
  BY <1>3

(* The beginning of a total is the total of the beginning.                 *)
Shorter(f, n) == [i \in 0 .. n |-> f[i]]

LEMMA TotalsRestrict ==
  ASSUME NEW n \in Nat, NEW w, NEW v, \A i \in 1 .. n : v[i] = w[i],
         NEW g, Totals(g, v, n + 1)
  PROVE  /\ Totals(Shorter(g, n), w, n)
         /\ g[n + 1] = g[n] + v[n + 1]
         /\ Along(g, n + 1)
<1> DEFINE f == Shorter(g, n)
<1>1. /\ DOMAIN g = 0 .. n + 1 /\ g = [i \in 0 .. n + 1 |-> g[i]]
      /\ \A i \in 0 .. n + 1 : g[i] = IF i = 0 THEN 0 ELSE g[i - 1] + v[i]
  BY DEF Totals
<1>2. \A i \in 0 .. n : f[i] = g[i]
  BY DEF Shorter
<1>3. ASSUME NEW i \in 0 .. n
      PROVE  f[i] = IF i = 0 THEN 0 ELSE f[i - 1] + w[i]
  <2>1. CASE i = 0
    BY <1>1, <1>2, <2>1
  <2>2. CASE i \in 1 .. n
    <3>1. i \in 0 .. n + 1 /\ i - 1 \in 0 .. n
      BY <2>2
    <3> QED
      BY <1>1, <1>2, <2>2, <3>1
  <2> QED
    BY <2>1, <2>2
<1>4. f = [i \in 0 .. n |-> f[i]]
  BY DEF Shorter
<1>5. g[n + 1] = g[n] + v[n + 1]
  <2>1. n + 1 \in 0 .. n + 1 /\ n + 1 # 0 /\ (n + 1) - 1 = n
    OBVIOUS
  <2>2. g[n + 1] = g[(n + 1) - 1] + v[n + 1]
    BY <1>1, <2>1
  <2> QED
    BY <2>1, <2>2
<1> HIDE DEF f
<1>6. Totals(f, w, n)
  BY <1>3, <1>4 DEF Totals
<1> QED
  BY <1>1, <1>2, <1>5, <1>6 DEF f, Along

(* Only the last total depends on the last weight.                         *)
Retotalled(g, w, n) == [i \in 0 .. n |-> IF i = n THEN g[n - 1] + w[n] ELSE g[i]]

LEMMA TotalsChange ==
  ASSUME NEW n \in Nat \ {0}, NEW w, NEW v, \A i \in 1 .. n - 1 : v[i] = w[i],
         NEW g, Totals(g, v, n)
  PROVE  /\ Totals(Retotalled(g, w, n), w, n)
         /\ g[n] = g[n - 1] + v[n]
         /\ Along(g, n)
<1> DEFINE f == Retotalled(g, w, n)
<1>1. /\ g = [i \in 0 .. n |-> g[i]]
      /\ \A i \in 0 .. n : g[i] = IF i = 0 THEN 0 ELSE g[i - 1] + v[i]
  BY DEF Totals
<1>2. (\A i \in 0 .. n - 1 : f[i] = g[i]) /\ f[n] = g[n - 1] + w[n]
  BY DEF Retotalled
<1>3. ASSUME NEW i \in 0 .. n
      PROVE  f[i] = IF i = 0 THEN 0 ELSE f[i - 1] + w[i]
  <2>1. CASE i = 0
    <3>1. 0 \in 0 .. n - 1 /\ 0 \in 0 .. n
      OBVIOUS
    <3>2. f[0] = g[0] /\ g[0] = 0
      BY <1>1, <1>2, <3>1
    <3> QED
      BY <2>1, <3>2
  <2>2. CASE i = n
    <3>1. n - 1 \in 0 .. n - 1
      OBVIOUS
    <3> QED
      BY <1>2, <2>2, <3>1
  <2>3. CASE i \in 1 .. n - 1
    <3>1. i \in 0 .. n - 1 /\ i - 1 \in 0 .. n - 1
      BY <2>3
    <3> QED
      BY <1>1, <1>2, <2>3, <3>1
  <2> QED
    BY <2>1, <2>2, <2>3
<1>4. f = [i \in 0 .. n |-> f[i]]
  BY DEF Retotalled
<1>5. g[n] = g[n - 1] + v[n]
  <2>1. n \in 0 .. n /\ n # 0
    OBVIOUS
  <2> QED
    BY <1>1, <2>1
<1> HIDE DEF f
<1>6. Totals(f, w, n)
  BY <1>3, <1>4 DEF Totals
<1> QED
  BY <1>1, <1>2, <1>5, <1>6 DEF f, Along

LEMMA VolumeGrows ==
  ASSUME TypeOK, VolumeInv, NEW o \in Ops, Grows(o), Permitted(job[o].action)
  PROVE  VolumeInv'
<1>0. PICK n \in Nat : n = Len(attempts)
  BY DEF TypeOK
<1> DEFINE a == job[o].action
           c == IF IsWrite(a) THEN a.content ELSE 0
<1>1. a \in Actions /\ attempts \in Seq(Attempt) /\ Attempted = 1 .. n
  BY <1>0, Domains DEF TypeOK, Grows
<1>2. attempts' \in Seq(Attempt) /\ Len(attempts') = n + 1 /\ Attempted' = 1 .. n + 1
  BY <1>0, Domains DEF Grows, Attempted
<1>3. /\ \A i \in 1 .. n : attempts'[i] = attempts[i]
      /\ attempts'[n + 1].action = a
  BY <1>0 DEF Grows, Fresh
<1>4. \A i \in 1 .. n : Volumes'[i] = Volumes[i]
  BY <1>1, <1>2, <1>3 DEF Volumes
<1>5. Volumes'[n + 1] = c
  BY <1>2, <1>3 DEF Volumes
<1>6. /\ rt'.writtenBytes = rt.writtenBytes + c /\ rt.writtenBytes \in Nat /\ c \in Nat
      /\ Policy' = Policy /\ Policy.maxWriteBytes \in Optional(Nat)
  BY <1>1, StateFields, ActionFields, OptionFields, PolicyFields
     DEF Grows, Charges, TypeOK, FieldTypes, Policy
<1>7. \E g : Totals(g, Volumes', n + 1)
  <2>1. PICK f : Totals(f, Volumes, n)
    BY <1>0 DEF VolumeInv
  <2> QED
    BY <1>4, <2>1, TotalsExtend
<1>8. ASSUME NEW g, Totals(g, Volumes', n + 1)
      PROVE  g[n + 1] = rt'.writtenBytes
  <2> DEFINE f == Shorter(g, n)
  <2>1. /\ Totals(f, Volumes, n) /\ \A i \in 0 .. n : f[i] = g[i]
        /\ g[n + 1] = g[n] + Volumes'[n + 1]
    <3>1. \A i \in 1 .. n : Volumes'[i] = Volumes[i]
      BY <1>4
    <3>2. Totals(Shorter(g, n), Volumes, n) /\ g[n + 1] = g[n] + Volumes'[n + 1]
      BY <1>8, <3>1, TotalsRestrict
    <3> QED
      BY <3>2 DEF Shorter
  <2>2. n \in 0 .. n
    OBVIOUS
  <2>3. f[n] = rt.writtenBytes
    BY <1>0, <2>1 DEF VolumeInv
  <2> QED
    BY <1>5, <1>6, <2>1, <2>2, <2>3
<1>9. Limited(Policy.maxWriteBytes, rt'.writtenBytes)
  <2>1. Limited(Policy.maxWriteBytes, rt.writtenBytes)
    BY DEF VolumeInv
  <2>2. IsWrite(a) /\ Policy.maxWriteBytes # None =>
          rt.writtenBytes + a.content <= Policy.maxWriteBytes
    BY DEF Permitted, WritePermits, IsWrite
  <2>3. CASE IsWrite(a)
    BY <1>6, <2>2, <2>3 DEF Limited
  <2>4. CASE ~IsWrite(a)
    BY <1>6, <2>1, <2>4 DEF Limited
  <2> QED
    BY <2>3, <2>4
<1> QED
  BY <1>2, <1>6, <1>7, <1>8, <1>9 DEF VolumeInv

LEMMA TokenGrows ==
  ASSUME TypeOK, TokenInv, NEW o \in Ops, Grows(o), Permitted(job[o].action)
  PROVE  TokenInv'
<1>0. PICK n \in Nat : n = Len(attempts)
  BY DEF TypeOK
<1> DEFINE a == job[o].action
           c == IF a.kind = "model.call" THEN a.reservation ELSE 0
<1>1. a \in Actions /\ attempts \in Seq(Attempt) /\ Attempted = 1 .. n
  BY <1>0, Domains DEF TypeOK, Grows
<1>2. attempts' \in Seq(Attempt) /\ Len(attempts') = n + 1 /\ Attempted' = 1 .. n + 1
  BY <1>0, Domains DEF Grows, Attempted
<1>3. /\ \A i \in 1 .. n : attempts'[i] = attempts[i]
      /\ attempts'[n + 1].action = a /\ attempts'[n + 1].reported = None
  BY <1>0 DEF Grows, Fresh
<1>4. \A i \in 1 .. n : Costs'[i] = Costs[i] /\ (IsModelCall(i)' <=> IsModelCall(i))
  BY <1>1, <1>2, <1>3 DEF Costs, IsModelCall, Charge
<1>5. Costs'[n + 1] = c /\ (IsModelCall(n + 1)' <=> a.kind = "model.call")
  BY <1>2, <1>3 DEF Costs, IsModelCall, Charge
<1>6. c \in Nat /\ (a.kind = "model.call" => Reservation(a) = a.reservation)
  BY <1>1, ActionFields, PolicyAssumption DEF Reservation
<1>7. /\ rt'.tokensCharged = rt.tokensCharged + c /\ rt.tokensCharged \in Nat
      /\ Policy' = Policy /\ Policy.maxTokens \in Optional(Nat)
  BY <1>6, StateFields, OptionFields, PolicyFields DEF Grows, Charges, TypeOK, FieldTypes, Policy
<1>8. \E g : Totals(g, Costs', n + 1)
  <2>1. PICK f : Totals(f, Costs, n)
    BY <1>0 DEF TokenInv
  <2> QED
    BY <1>4, <2>1, TotalsExtend
<1>9. ASSUME NEW g, Totals(g, Costs', n + 1)
      PROVE  /\ g \in [0 .. n + 1 -> Nat]
             /\ g[n + 1] = rt'.tokensCharged
             /\ RoomHeld(g)'
  <2> DEFINE f == Shorter(g, n)
  <2>1. /\ Totals(f, Costs, n) /\ \A i \in 0 .. n : f[i] = g[i]
        /\ g[n + 1] = g[n] + Costs'[n + 1] /\ Along(g, n + 1)
    <3>1. \A i \in 1 .. n : Costs'[i] = Costs[i]
      BY <1>4
    <3>2. /\ Totals(Shorter(g, n), Costs, n) /\ Along(g, n + 1)
          /\ g[n + 1] = g[n] + Costs'[n + 1]
      BY <1>9, <3>1, TotalsRestrict
    <3> QED
      BY <3>2 DEF Shorter
  <2>2. f \in [0 .. n -> Nat] /\ f[n] = rt.tokensCharged /\ RoomHeld(f)
    BY <1>0, <2>1 DEF TokenInv
  <2> HIDE DEF f
  <2>3. g[n] = rt.tokensCharged /\ \A i \in 0 .. n : g[i] \in Nat
    <3>1. n \in 0 .. n /\ \A i \in 0 .. n : f[i] \in Nat
      BY <2>2
    <3> QED
      BY <2>1, <2>2, <3>1
  <2>4. g[n + 1] = rt'.tokensCharged /\ g[n + 1] \in Nat
    BY <1>5, <1>6, <1>7, <2>1, <2>3
  <2>5. \A i \in 0 .. n + 1 : g[i] \in Nat
    BY <2>3, <2>4
  <2>6. g \in [0 .. n + 1 -> Nat]
    BY <2>1, <2>5 DEF Along
  <2>7. ASSUME Policy.maxTokens # None, NEW i \in 1 .. n + 1, IsModelCall(i)'
        PROVE  g[i - 1] + attempts'[i].action.reservation <= Policy.maxTokens
    <3>1. CASE i = n + 1
      <4>1. a.kind = "model.call"
        BY <1>5, <2>7, <3>1
      <4>2. rt.tokensCharged + a.reservation <= Policy.maxTokens
        BY <2>7, <4>1 DEF Permitted, ModelPermits
      <4>3. i - 1 = n
        BY <3>1
      <4> QED
        BY <1>3, <2>3, <3>1, <4>2, <4>3
    <3>2. CASE i \in 1 .. n
      <4>1. f[i - 1] + attempts[i].action.reservation <= Policy.maxTokens
        BY <1>1, <1>4, <2>2, <2>7, <3>2 DEF RoomHeld
      <4>2. f[i - 1] = g[i - 1]
        BY <2>1, <3>2
      <4> QED
        BY <1>3, <3>2, <4>1, <4>2
    <3> QED
      BY <3>1, <3>2
  <2>8. RoomHeld(g)'
    BY <1>2, <1>7, <2>7 DEF RoomHeld
  <2> QED
    BY <2>4, <2>6, <2>8
<1> QED
  BY <1>2, <1>8, <1>9 DEF TokenInv

-----------------------------------------------------------------------------
(* The rest of the history when an action is admitted.                     *)

LEMMA UsageGrows ==
  ASSUME TypeOK, UsageInv, NEW o \in Ops, Grows(o), Permitted(job[o].action)
  PROVE  UsageInv'
<1>0. PICK n \in Nat : n = Len(attempts)
  BY DEF TypeOK
<1>1. Attempted = 1 .. n
  BY <1>0, Domains DEF TypeOK
<1>2. Attempted' = 1 .. n + 1
  BY <1>0, Domains DEF Grows, Attempted
<1>3. /\ \A i \in 1 .. n : attempts'[i] = attempts[i]
      /\ attempts'[n + 1].action = job[o].action
      /\ attempts'[n + 1].outcome = "pending"
  BY <1>0 DEF Grows, Fresh
<1>4. /\ \A i \in 1 .. n : (IsModelCall(i)' <=> IsModelCall(i)) /\ (Known(i)' <=> Known(i))
      /\ IsModelCall(n + 1)' <=> job[o].action.kind = "model.call"
      /\ Known(n + 1)'
  BY <1>3 DEF IsModelCall, Known
<1>5. rt'.tokenUsageUnknown = rt.tokenUsageUnknown /\ Policy' = Policy
  BY DEF Grows, Charges, Policy
<1>6. job[o].action.kind = "model.call" /\ Policy.maxTokens # None => ~rt.tokenUsageUnknown
  BY DEF Permitted, ModelPermits
<1>7. ~rt'.tokenUsageUnknown => \A j \in 1 .. n + 1 : IsModelCall(j)' => Known(j)'
  BY <1>1, <1>4, <1>5 DEF UsageInv
<1>8. ASSUME Policy.maxTokens # None, NEW i \in 1 .. n + 1, IsModelCall(i)',
             NEW j \in 1 .. i - 1, IsModelCall(j)'
      PROVE  Known(j)'
  <2>1. j \in 1 .. n
    OBVIOUS
  <2>2. CASE i = n + 1
    BY <1>1, <1>4, <1>6, <1>8, <2>1, <2>2 DEF UsageInv
  <2>3. CASE i \in 1 .. n
    BY <1>1, <1>4, <1>8, <2>1, <2>3 DEF UsageInv
  <2> QED
    BY <2>2, <2>3
<1> QED
  BY <1>2, <1>5, <1>7, <1>8 DEF UsageInv

LEMMA ReadGrows ==
  ASSUME TypeOK, ReadInv, NEW o \in Ops, Grows(o), Permitted(job[o].action)
  PROVE  ReadInv'
<1>0. PICK n \in Nat : n = Len(attempts)
  BY DEF TypeOK
<1> DEFINE a == job[o].action
<1>1. Attempted = 1 .. n
  BY <1>0, Domains DEF TypeOK
<1>2. Attempted' = 1 .. n + 1
  BY <1>0, Domains DEF Grows, Attempted
<1>3. /\ \A i \in 1 .. n : attempts'[i] = attempts[i]
      /\ attempts'[n + 1].action = a
  BY <1>0 DEF Grows, Fresh
<1>4. rt'.readPaths = rt.readPaths /\ Policy' = Policy
  BY DEF Grows, Charges, Policy
<1>5. ASSUME NEW f \in rt.readPaths
      PROVE  \E j \in 1 .. n : /\ attempts'[j].action.kind = "file.read"
                               /\ attempts'[j].action.path = f
                               /\ attempts'[j].outcome = "success"
  BY <1>1, <1>3 DEF ReadInv
<1>6. ASSUME Policy.requireReadBeforeWrite, NEW i \in 1 .. n + 1, IsWrite(attempts'[i].action)
      PROVE  \E j \in 1 .. i - 1 : /\ attempts'[j].action.kind = "file.read"
                                   /\ attempts'[j].action.path = attempts'[i].action.path
                                   /\ attempts'[j].outcome = "success"
  <2>1. CASE i = n + 1
    <3>1. a.path \in rt.readPaths
      BY <1>3, <1>6, <2>1 DEF Permitted, WritePermits, IsWrite
    <3>2. i - 1 = n
      BY <2>1
    <3> QED
      BY <1>3, <1>5, <2>1, <3>1, <3>2
  <2>2. CASE i \in 1 .. n
    <3>1. i \in WriteAttempts
      BY <1>1, <1>3, <1>6, <2>2 DEF WriteAttempts
    <3>2. PICK j \in 1 .. i - 1 : /\ attempts[j].action.kind = "file.read"
                                  /\ attempts[j].action.path = attempts[i].action.path
                                  /\ attempts[j].outcome = "success"
      BY <1>6, <3>1 DEF ReadInv, ReadBeforeWrite
    <3> QED
      BY <1>3, <2>2, <3>2
  <2> QED
    BY <2>1, <2>2
<1>7. ReadBeforeWrite'
  BY <1>2, <1>4, <1>6 DEF ReadBeforeWrite, WriteAttempts
<1> QED
  BY <1>2, <1>4, <1>5, <1>7 DEF ReadInv

LEMMA WorkflowGrows ==
  ASSUME TypeOK, WorkflowInv, NEW o \in Ops, Grows(o), Permitted(job[o].action)
  PROVE  WorkflowInv'
<1>0. PICK n \in Nat : n = Len(attempts)
  BY DEF TypeOK
<1> DEFINE a == job[o].action
<1>1. a \in Actions /\ Attempted = 1 .. n
  BY <1>0, Domains DEF TypeOK, Grows
<1>2. Attempted' = 1 .. n + 1
  BY <1>0, Domains DEF Grows, Attempted
<1>3. /\ \A i \in 1 .. n : attempts'[i] = attempts[i]
      /\ attempts'[n + 1].action = a /\ attempts'[n + 1].entry = Len(entries)
      /\ attempts'[n + 1].outcome = "pending"
  BY <1>0 DEF Grows, Fresh
<1>4. /\ rt'.phaseIndex = rt.phaseIndex /\ rt'.successfulTools = rt.successfulTools
      /\ Policy' = Policy /\ entries' = entries
  BY DEF Grows, Charges, Policy
<1>5. entries \in Seq(Nat \ {0}) /\ entries # << >> /\ Len(entries) \in DOMAIN entries
  BY DEF WorkflowInv, TypeOK
<1>6. ASSUME NEW m
      PROVE  SucceededIn(m)' = SucceededIn(m)
  <2>1. {k \in Attempted' : attempts'[k].entry = m /\ attempts'[k].outcome = "success"}
          = {k \in Attempted : attempts[k].entry = m /\ attempts[k].outcome = "success"}
    BY <1>1, <1>2, <1>3
  <2> QED
    BY <1>1, <1>3, <2>1 DEF SucceededIn
<1>7. \A i \in 1 .. n + 1 : attempts'[i].entry \in DOMAIN entries
  <2>1. \A i \in 1 .. n : attempts[i].entry \in DOMAIN entries
    BY <1>1 DEF WorkflowInv
  <2>2. ASSUME NEW i \in 1 .. n
        PROVE  attempts'[i].entry \in DOMAIN entries
    BY <1>3, <2>1
  <2>3. attempts'[n + 1].entry \in DOMAIN entries
    BY <1>3, <1>5
  <2>4. \A i \in 1 .. n + 1 : i = n + 1 \/ i \in 1 .. n
    OBVIOUS
  <2> QED
    BY <2>2, <2>3, <2>4
<1>8. ASSUME HasPhases(Policy), NEW i \in 1 .. n + 1, NEW t \in Tools,
             Spends(attempts'[i].action, t)
      PROVE  t \in Policy.phases[entries[attempts'[i].entry]].tools
  <2>1. CASE i = n + 1
    <3>1. t \in ToolsOf(a)
      BY <1>1, <1>3, <1>8, <2>1, SpendsTools
    <3>2. rt.phaseIndex \in DOMAIN Policy.phases
      BY <1>5, <1>8 DEF WorkflowInv
    <3>3. ToolsOf(a) \subseteq Policy.phases[rt.phaseIndex].tools
      BY <3>2 DEF Permitted, PhasePermits, CurrentPhase
    <3>4. rt.phaseIndex = entries[attempts'[i].entry]
      BY <1>3, <2>1 DEF WorkflowInv
    <3> QED
      BY <3>1, <3>3, <3>4
  <2>2. CASE i \in 1 .. n
    BY <1>1, <1>3, <1>8, <2>2 DEF WorkflowInv, WorkflowHeld
  <2> QED
    BY <2>1, <2>2
<1>9. ASSUME HasPhases(Policy), NEW m \in 1 .. Len(entries) - 1
      PROVE  /\ Policy.phases[entries[m]].requires \subseteq SucceededIn(m)'
             /\ IF Policy.phases[entries[m]].next # None
                  THEN Policy.phases[entries[m + 1]].name \in Policy.phases[entries[m]].next
                  ELSE entries[m + 1] = entries[m] + 1
  BY <1>6, <1>9 DEF WorkflowInv, WorkflowHeld
<1>10. WorkflowHeld'
  BY <1>2, <1>4, <1>8, <1>9 DEF WorkflowHeld
<1>11. SucceededIn(Len(entries))' = SucceededIn(Len(entries))
  <2>1. PICK m : m = Len(entries)
    OBVIOUS
  <2>2. SucceededIn(Len(entries))' = SucceededIn(m)'
    BY <1>4, <2>1 DEF SucceededIn
  <2> QED
    BY <1>6, <2>1, <2>2
<1> QED
  BY <1>2, <1>4, <1>7, <1>10, <1>11 DEF WorkflowInv

LEMMA VerifiedGrows ==
  ASSUME TypeOK, VerifiedInv, NEW o \in Ops, Grows(o), Permitted(job[o].action)
  PROVE  VerifiedInv'
<1>0. PICK n \in Nat : n = Len(attempts)
  BY DEF TypeOK
<1> DEFINE a == job[o].action
<1>1. Attempted = 1 .. n
  BY <1>0, Domains DEF TypeOK
<1>2. Attempted' = 1 .. n + 1
  BY <1>0, Domains DEF Grows, Attempted
<1>3. /\ \A i \in 1 .. n : attempts'[i] = attempts[i]
      /\ attempts'[n + 1].action = a
  BY <1>0 DEF Grows, Fresh
<1>4. /\ rt'.verifiedRevision = rt.verifiedRevision
      /\ rt'.writeRevision = rt.writeRevision + (IF IsWrite(a) THEN 1 ELSE 0)
      /\ rt.verifiedRevision \in Int /\ rt.writeRevision \in Nat
      /\ rt.verifiedRevision <= rt.writeRevision
  BY StateFields DEF Grows, Charges, VerifiedInv, TypeOK, FieldTypes
<1>5. CASE IsWrite(a)
  BY <1>4, <1>5 DEF VerifiedInv
<1>6. CASE ~IsWrite(a)
  <2>1. WriteAttempts' = WriteAttempts
    BY <1>1, <1>2, <1>3, <1>6 DEF WriteAttempts
  <2>2. rt'.writeRevision = rt.writeRevision
    BY <1>4, <1>6
  <2>3. ASSUME rt.verifiedRevision = rt.writeRevision
        PROVE  \E i \in 1 .. n : /\ Verifies(attempts[i].action)
                                 /\ attempts[i].outcome = "success"
                                 /\ \A j \in WriteAttempts : j < i
    BY <1>1, <2>3 DEF VerifiedInv
  <2>4. ASSUME rt.verifiedRevision = rt.writeRevision
        PROVE  \E i \in 1 .. n + 1 : /\ Verifies(attempts[i].action)'
                                     /\ attempts'[i].outcome = "success"
                                     /\ \A j \in WriteAttempts' : j < i
    <3>1. PICK i \in 1 .. n : /\ Verifies(attempts[i].action)
                              /\ attempts[i].outcome = "success"
                              /\ \A j \in WriteAttempts : j < i
      BY <2>3, <2>4
    <3>2. Verifies(attempts[i].action)'
      BY <1>3, <3>1 DEF Verifies, Grows
    <3> QED
      BY <1>3, <2>1, <3>1, <3>2
  <2> QED
    BY <1>2, <1>4, <2>2, <2>4 DEF VerifiedInv, Verifies
<1> QED
  BY <1>5, <1>6

-----------------------------------------------------------------------------
(* The counters follow the history when an outcome is recorded.            *)

LEMMA BudgetSettles ==
  ASSUME TypeOK, BudgetInv, NEW a, NEW success, NEW reported, Concludes(a, success, reported)
  PROVE  BudgetInv'
<1>0. PICK n \in Nat : n = Len(attempts)
  BY DEF TypeOK
<1>1. Attempted = 1 .. n /\ Attempted' = 1 .. n
  BY <1>0, Domains DEF TypeOK, Concludes, Attempted
<1>2. \A i \in 1 .. n : attempts'[i].action = attempts[i].action
  BY <1>0 DEF Concludes
<1>3. ASSUME NEW t \in Tools
      PROVE  SpentOn(t)' = SpentOn(t)
  BY <1>1, <1>2 DEF SpentOn
<1>4. /\ rt'.actions = rt.actions /\ rt'.toolCalls = rt.toolCalls
      /\ Len(attempts') = n /\ Policy' = Policy
  BY <1>0 DEF Concludes, Settles, Policy
<1>5. \A t \in Tools : Limited(Policy.toolQuotas[t], Cardinality(SpentOn(t)'))
  BY <1>3 DEF BudgetInv, AttemptBudget, SpentOn
<1>6. AttemptBudget'
  BY <1>0, <1>4, <1>5 DEF BudgetInv, AttemptBudget, SpentOn
<1> QED
  BY <1>0, <1>3, <1>4, <1>6 DEF BudgetInv

LEMMA KeysSettle ==
  ASSUME TypeOK, NEW a, NEW success, NEW reported, Concludes(a, success, reported)
  PROVE  /\ \A i \in 1 .. Len(attempts) + 1 : WritesBefore(i)' = WritesBefore(i)
         /\ \A i \in 1 .. Len(attempts) : KeyOf(i)' = KeyOf(i)
<1>0. PICK n \in Nat : n = Len(attempts)
  BY DEF TypeOK
<1>1. \A i \in 1 .. n : attempts'[i].action = attempts[i].action
  BY <1>0 DEF Concludes
<1>2. ASSUME NEW i \in 1 .. n + 1
      PROVE  WritesBefore(i)' = WritesBefore(i)
  <2>1. {j \in 1 .. i - 1 : IsWrite(attempts'[j].action)}
          = {j \in 1 .. i - 1 : IsWrite(attempts[j].action)}
    BY <1>1 DEF IsWrite
  <2> QED
    BY <2>1 DEF WritesBefore
<1> QED
  BY <1>0, <1>1, <1>2 DEF KeyOf

(* A failure is filed under the key its attempt ran with.                  *)
LEMMA KeyOfLast ==
  ASSUME TypeOK, RetryInv, NEW a, NEW success, NEW reported, Concludes(a, success, reported)
  PROVE  KeyOf(Len(attempts)) = ActionKey(a, rt.writeRevision)
<1>0. PICK n \in Nat : n = Len(attempts)
  BY DEF TypeOK
<1>1. n # 0 /\ attempts[n].action = a /\ rt.writeRevision = WritesBefore(n + 1)
  BY <1>0 DEF Concludes, RetryInv
<1>2. CASE a.kind \in {"command", "model.call"}
  <2>1. ~IsWrite(attempts[n].action)
    BY <1>1, <1>2 DEF IsWrite
  <2>2. {j \in 1 .. (n + 1) - 1 : IsWrite(attempts[j].action)}
          = {j \in 1 .. n - 1 : IsWrite(attempts[j].action)}
    BY <2>1
  <2>3. WritesBefore(n + 1) = WritesBefore(n)
    BY <2>2 DEF WritesBefore
  <2> QED
    BY <1>0, <1>1, <2>3 DEF KeyOf
<1>3. CASE a.kind \notin {"command", "model.call"}
  BY <1>0, <1>1, <1>3 DEF KeyOf, ActionKey
<1> QED
  BY <1>2, <1>3

LEMMA RetrySettles ==
  ASSUME TypeOK, RetryInv, NEW a, NEW success, NEW reported, Concludes(a, success, reported)
  PROVE  RetryInv'
<1>0. PICK n \in Nat : n = Len(attempts)
  BY DEF TypeOK
<1> DEFINE key == ActionKey(a, rt.writeRevision)
<1>1. Attempted = 1 .. n /\ Attempted' = 1 .. n /\ Len(attempts') = n /\ n # 0
  BY <1>0, Domains DEF TypeOK, Concludes, Attempted
<1>2. /\ \A i \in 1 .. n : i # n => attempts'[i] = attempts[i]
      /\ attempts[n].outcome = "pending"
      /\ attempts'[n].outcome = (IF success THEN "success" ELSE "failure")
  BY <1>0 DEF Concludes
<1>3. /\ \A i \in 1 .. n + 1 : WritesBefore(i)' = WritesBefore(i)
      /\ \A i \in 1 .. n : KeyOf(i)' = KeyOf(i)
  BY <1>0, KeysSettle
<1>4. KeyOf(n) = key
  BY <1>0, KeyOfLast
<1> HIDE DEF key
<1>5. ASSUME NEW k \in ActionKeys
      PROVE  TimesFailed(k, rt'.failures) = Cardinality(FailedWith(k)')
  <2>1. TimesFailed(k, rt.failures) = Cardinality(FailedWith(k))
    BY DEF RetryInv
  <2>2. CASE success
    <3>1. FailedWith(k)' = FailedWith(k)
      BY <1>1, <1>2, <1>3, <2>2 DEF FailedWith
    <3>2. rt'.failures = rt.failures
      BY <2>2 DEF Concludes, Settles
    <3> QED
      BY <2>1, <3>1, <3>2
  <2>3. CASE ~success
    <3>1. rt'.failures = FailedAgain(key, rt.failures)
      BY <2>3 DEF Concludes, Settles, key
    <3>2. CASE k = key
      <4>1. FailedWith(k)' = FailedWith(k) \cup {n}
        BY <1>1, <1>2, <1>3, <1>4, <2>3, <3>2 DEF FailedWith
      <4>2. FailedWith(k) \in SUBSET (1 .. n) /\ n \notin FailedWith(k)
        BY <1>1, <1>2 DEF FailedWith
      <4>3. Cardinality(FailedWith(k)') = Cardinality(FailedWith(k)) + 1
        BY <4>1, <4>2, CountOne
      <4>4. TimesFailed(k, rt'.failures) = TimesFailed(k, rt.failures) + 1
        BY <3>1, <3>2 DEF FailedAgain, TimesFailed
      <4> QED
        BY <2>1, <4>3, <4>4
    <3>3. CASE k # key
      <4>1. FailedWith(k)' = FailedWith(k)
        BY <1>1, <1>2, <1>3, <1>4, <2>3, <3>3 DEF FailedWith
      <4>2. TimesFailed(k, rt'.failures) = TimesFailed(k, rt.failures)
        BY <3>1, <3>3 DEF FailedAgain, TimesFailed
      <4> QED
        BY <2>1, <4>1, <4>2
    <3> QED
      BY <3>2, <3>3
  <2> QED
    BY <2>2, <2>3
<1>6. Policy' = Policy /\ rt'.writeRevision = rt.writeRevision
  BY DEF Concludes, Settles, Policy
<1>7. RetryBudget'
  <2>1. ASSUME NEW i \in 1 .. n
        PROVE  {j \in 1 .. i - 1 : attempts'[j].outcome = "failure" /\ KeyOf(j)' = KeyOf(i)'}
                 = {j \in 1 .. i - 1 : attempts[j].outcome = "failure" /\ KeyOf(j) = KeyOf(i)}
    <3>1. \A j \in 1 .. i - 1 : j \in 1 .. n /\ j # n
      OBVIOUS
    <3> QED
      BY <1>2, <1>3, <3>1
  <2>2. ASSUME NEW i \in 1 .. n
        PROVE  Limited(Policy.maxRetries, Cardinality(
                 {j \in 1 .. i - 1 : attempts[j].outcome = "failure" /\ KeyOf(j) = KeyOf(i)}))
    BY <1>1 DEF RetryInv, RetryBudget
  <2>3. ASSUME NEW i \in 1 .. n
        PROVE  Limited(Policy.maxRetries, Cardinality(
                 {j \in 1 .. i - 1 : attempts'[j].outcome = "failure" /\ KeyOf(j)' = KeyOf(i)'}))
    BY <2>1, <2>2
  <2> QED
    BY <1>1, <1>6, <2>3 DEF RetryBudget
<1>8. rt'.writeRevision = WritesBefore(n + 1)'
  BY <1>0, <1>3, <1>6 DEF RetryInv
<1> QED
  BY <1>1, <1>5, <1>7, <1>8 DEF RetryInv

LEMMA BreakerSettles ==
  ASSUME TypeOK, BreakerInv, NEW a, NEW success, NEW reported, Concludes(a, success, reported)
  PROVE  BreakerInv'
<1>0. PICK n \in Nat : n = Len(attempts)
  BY DEF TypeOK
<1>1. Attempted = 1 .. n /\ Attempted' = 1 .. n /\ Len(attempts') = n /\ n # 0
  BY <1>0, Domains DEF TypeOK, Concludes, Attempted
<1>2. /\ \A i \in 1 .. n : i # n => attempts'[i] = attempts[i]
      /\ attempts[n].outcome = "pending"
      /\ attempts'[n].outcome = (IF success THEN "success" ELSE "failure")
  BY <1>0 DEF Concludes
<1>3. ASSUME NEW i \in 1 .. n
      PROVE  FailuresSinceSuccess(i)' = FailuresSinceSuccess(i)
  <2>1. \A j \in 1 .. i - 1 : j \in 1 .. n /\ j # n
    OBVIOUS
  <2>2. \A j \in 1 .. i - 1 : \A k \in j .. i - 1 : k \in 1 .. n /\ k # n
    OBVIOUS
  <2>3. {j \in 1 .. i - 1 : /\ attempts'[j].outcome = "failure"
                            /\ \A k \in j .. i - 1 : attempts'[k].outcome # "success"}
          = {j \in 1 .. i - 1 : /\ attempts[j].outcome = "failure"
                                /\ \A k \in j .. i - 1 : attempts[k].outcome # "success"}
    BY <1>2, <2>1, <2>2
  <2> QED
    BY <2>3 DEF FailuresSinceSuccess
<1> DEFINE failed == {j \in 1 .. n : /\ attempts[j].outcome = "failure"
                                     /\ \A k \in j .. n : attempts[k].outcome # "success"}
           after  == {j \in 1 .. n : /\ attempts'[j].outcome = "failure"
                                     /\ \A k \in j .. n : attempts'[k].outcome # "success"}
<1>4. rt.consecutiveFailures = Cardinality(failed)
  <2>1. (n + 1) - 1 = n
    OBVIOUS
  <2>2. FailuresSinceSuccess(n + 1) = Cardinality(failed)
    BY <2>1 DEF FailuresSinceSuccess
  <2> QED
    BY <1>0, <2>2 DEF BreakerInv
<1>5. FailuresSinceSuccess(n + 1)' = Cardinality(after)
  <2>1. (n + 1) - 1 = n
    OBVIOUS
  <2> QED
    BY <2>1 DEF FailuresSinceSuccess
<1>6. rt'.consecutiveFailures = Cardinality(after)
  <2>1. CASE success
    <3>1. after = {}
      <4>1. \A j \in 1 .. n : n \in j .. n
        OBVIOUS
      <4> QED
        BY <1>2, <2>1, <4>1
    <3>2. rt'.consecutiveFailures = 0
      BY <2>1 DEF Concludes, Settles
    <3> QED
      BY <3>1, <3>2, FS_EmptySet
  <2>2. CASE ~success
    <3>1. after = failed \cup {n}
      <4>1. attempts'[n].outcome = "failure" /\ n \in 1 .. n /\ \A k \in n .. n : k = n
        BY <1>1, <1>2, <2>2
      <4>2. ASSUME NEW j \in 1 .. n, j # n
            PROVE  j \in after <=> j \in failed
        <5>1. \A k \in j .. n : k \in 1 .. n
          OBVIOUS
        <5>2. \A k \in j .. n : attempts'[k].outcome # "success" <=> attempts[k].outcome # "success"
          BY <1>2, <4>1, <5>1
        <5>3. attempts'[j] = attempts[j]
          BY <1>2, <4>2
        <5> QED
          BY <5>2, <5>3
      <4>3. n \in after
        BY <4>1
      <4> QED
        BY <1>2, <4>2, <4>3
    <3>2. failed \in SUBSET (1 .. n) /\ n \notin failed
      BY <1>2
    <3>3. rt'.consecutiveFailures = rt.consecutiveFailures + 1
      BY <2>2 DEF Concludes, Settles
    <3> HIDE DEF failed, after
    <3>4. Cardinality(failed \cup {n}) = Cardinality(failed) + 1
      BY <3>2, CountOne
    <3> QED
      BY <1>4, <3>1, <3>3, <3>4
  <2> QED
    BY <2>1, <2>2
<1>7. Policy' = Policy
  BY DEF Concludes, Policy
<1>8. BreakerHeld'
  BY <1>1, <1>3, <1>7 DEF BreakerInv, BreakerHeld
<1> QED
  BY <1>1, <1>5, <1>6, <1>8 DEF BreakerInv
LEMMA RateSettles ==
  ASSUME TypeOK, RateInv, NEW a, NEW success, NEW reported, Concludes(a, success, reported)
  PROVE  RateInv'
<1>0. PICK n \in Nat : n = Len(attempts)
  BY DEF TypeOK
<1>1. Attempted = 1 .. n /\ Attempted' = 1 .. n
  BY <1>0, Domains DEF TypeOK, Concludes, Attempted
<1>2. \A i \in 1 .. n : attempts'[i].at = attempts[i].at
  BY <1>0 DEF Concludes
<1>3. rt'.recentActions = rt.recentActions /\ now' = now /\ Policy' = Policy
  BY DEF Concludes, Settles, Policy
<1>4. \A i \in 1 .. n : Admission(i)' = Admission(i)
  BY <1>2 DEF Admission
<1>5. ASSUME NEW r \in rt'.recentActions
      PROVE  r.number \in Attempted' /\ r = Admission(r.number)'
  BY <1>1, <1>3, <1>4 DEF RateInv
<1>6. ASSUME NEW j \in Attempted'
      PROVE  /\ attempts'[j].at <= now'
             /\ Admission(j)' \in rt'.recentActions \/ now' - attempts'[j].at >= Window(Policy')
  BY <1>1, <1>2, <1>3, <1>4 DEF RateInv
<1>7. ASSUME NEW i \in 1 .. n
      PROVE  Limited(Policy.maxActionsPerWindow,
               Cardinality({j \in 1 .. i : attempts'[i].at - attempts'[j].at < Window(Policy)}))
  <2>1. {j \in 1 .. i : attempts'[i].at - attempts'[j].at < Window(Policy)}
          = {j \in 1 .. i : attempts[i].at - attempts[j].at < Window(Policy)}
    BY <1>2
  <2>2. Limited(Policy.maxActionsPerWindow,
          Cardinality({j \in 1 .. i : attempts[i].at - attempts[j].at < Window(Policy)}))
    BY <1>1 DEF RateInv, RateHeld
  <2> QED
    BY <2>1, <2>2
<1>8. RateHeld'
  BY <1>1, <1>3, <1>7 DEF RateHeld
<1> QED
  BY <1>5, <1>6, <1>8 DEF RateInv

LEMMA FilesSettles ==
  ASSUME TypeOK, FilesInv, NEW a, NEW success, NEW reported, Concludes(a, success, reported)
  PROVE  FilesInv'
<1>0. PICK n \in Nat : n = Len(attempts)
  BY DEF TypeOK
<1>1. Attempted = 1 .. n /\ Attempted' = 1 .. n
  BY <1>0, Domains DEF TypeOK, Concludes, Attempted
<1>2. \A i \in 1 .. n : attempts'[i].action = attempts[i].action
  BY <1>0 DEF Concludes
<1>3. WriteAttempts' = WriteAttempts
  BY <1>1, <1>2 DEF WriteAttempts
<1>4. {attempts'[i].action.path : i \in WriteAttempts'}
        = {attempts[i].action.path : i \in WriteAttempts}
  BY <1>1, <1>2, <1>3 DEF WriteAttempts
<1>5. rt'.changedPaths = rt.changedPaths /\ Policy' = Policy
  BY DEF Concludes, Settles, Policy
<1> QED
  BY <1>4, <1>5 DEF FilesInv, FilesHeld

LEMMA VolumeSettles ==
  ASSUME TypeOK, VolumeInv, NEW a, NEW success, NEW reported, Concludes(a, success, reported)
  PROVE  VolumeInv'
<1>0. PICK n \in Nat : n = Len(attempts)
  BY DEF TypeOK
<1>1. Attempted = 1 .. n /\ Attempted' = 1 .. n /\ Len(attempts') = n
  BY <1>0, Domains DEF TypeOK, Concludes, Attempted
<1>2. \A i \in 1 .. n : attempts'[i].action = attempts[i].action
  BY <1>0 DEF Concludes
<1>3. Volumes' = Volumes
  BY <1>1, <1>2 DEF Volumes
<1>4. rt'.writtenBytes = rt.writtenBytes /\ Policy' = Policy
  BY DEF Concludes, Settles, Policy
<1> QED
  BY <1>0, <1>1, <1>3, <1>4 DEF VolumeInv

(* What a call costs once it has reported: its reservation and the overrun. *)
LEMMA CostSettles ==
  ASSUME TypeOK, NEW a, NEW success, NEW reported, Concludes(a, success, reported)
  PROVE  /\ Costs[Len(attempts)] \in Nat
         /\ Overrun(a, reported) \in Nat
         /\ Costs'[Len(attempts)] = Costs[Len(attempts)] + Overrun(a, reported)
         /\ \A i \in 1 .. Len(attempts) - 1 : Costs'[i] = Costs[i]
<1>0. PICK n \in Nat : n = Len(attempts)
  BY DEF TypeOK
<1>1. Attempted = 1 .. n /\ Attempted' = 1 .. n /\ n # 0 /\ a \in Actions
  BY <1>0, Domains DEF TypeOK, Concludes, Attempted
<1>2. /\ attempts[n].action = a /\ attempts'[n].action = a
      /\ attempts[n].reported = None /\ attempts'[n].reported = reported
      /\ \A i \in 1 .. n : i # n => attempts'[i] = attempts[i]
      /\ reported \in Optional(Nat)
  BY <1>0, <1>1 DEF Concludes
<1>3. CASE a.kind # "model.call"
  <2>1. Costs[n] = 0 /\ Costs'[n] = 0 /\ Overrun(a, reported) = 0
    BY <1>1, <1>2, <1>3 DEF Costs, IsModelCall, Overrun
  <2>2. \A i \in 1 .. n - 1 : Costs'[i] = Costs[i]
    BY <1>1, <1>2 DEF Costs, IsModelCall, Charge
  <2> QED
    BY <1>0, <2>1, <2>2
<1>4. CASE a.kind = "model.call"
  <2>1. a.reservation \in Nat /\ Reservation(a) = a.reservation
    BY <1>1, <1>4, ActionFields, PolicyAssumption DEF Reservation
  <2>2. Costs[n] = a.reservation
    BY <1>1, <1>2, <1>4 DEF Costs, IsModelCall, Charge
  <2>3. Costs'[n] = IF reported # None /\ reported > a.reservation
                      THEN reported ELSE a.reservation
    BY <1>1, <1>2, <1>4 DEF Costs, IsModelCall, Charge
  <2>4. Overrun(a, reported) = IF reported # None /\ reported > a.reservation
                                 THEN reported - a.reservation ELSE 0
    BY <1>4, <2>1 DEF Overrun
  <2>5. Overrun(a, reported) \in Nat /\ Costs'[n] = a.reservation + Overrun(a, reported)
    BY <1>2, <2>1, <2>3, <2>4 DEF Optional
  <2>6. \A i \in 1 .. n - 1 : Costs'[i] = Costs[i]
    BY <1>1, <1>2 DEF Costs, IsModelCall, Charge
  <2> QED
    BY <1>0, <2>1, <2>2, <2>5, <2>6
<1> QED
  BY <1>3, <1>4

LEMMA TokenSettles ==
  ASSUME TypeOK, TokenInv, NEW a, NEW success, NEW reported, Concludes(a, success, reported)
  PROVE  TokenInv'
<1>0. PICK n \in Nat : n = Len(attempts)
  BY DEF TypeOK
<1>1. Attempted = 1 .. n /\ Attempted' = 1 .. n /\ Len(attempts') = n /\ n \in Nat \ {0}
  BY <1>0, Domains DEF TypeOK, Concludes, Attempted
<1>2. \A i \in 1 .. n : attempts'[i].action = attempts[i].action
  BY <1>0 DEF Concludes
<1> DEFINE over == Overrun(a, reported)
<1>3. /\ Costs[n] \in Nat /\ over \in Nat /\ Costs'[n] = Costs[n] + over
      /\ \A i \in 1 .. n - 1 : Costs'[i] = Costs[i]
  BY <1>0, CostSettles
<1>4. /\ rt'.tokensCharged = rt.tokensCharged + over /\ rt.tokensCharged \in Nat
      /\ Policy' = Policy
  BY StateFields DEF Concludes, Settles, TypeOK, FieldTypes, Policy
<1> HIDE DEF over
<1>5. \E g : Totals(g, Costs', n)
  <2>1. PICK f : Totals(f, Costs, n)
    BY <1>0 DEF TokenInv
  <2>2. \A i \in 1 .. n - 1 : Costs[i] = Costs'[i]
    BY <1>3
  <2>3. Totals(Retotalled(f, Costs', n), Costs', n)
    BY <1>1, <2>1, <2>2, TotalsChange
  <2> QED
    BY <2>3
<1>6. ASSUME NEW g, Totals(g, Costs', n)
      PROVE  /\ g \in [0 .. n -> Nat]
             /\ g[n] = rt'.tokensCharged
             /\ RoomHeld(g)'
  <2> DEFINE f == Retotalled(g, Costs, n)
  <2>1. /\ Totals(f, Costs, n) /\ \A i \in 0 .. n - 1 : f[i] = g[i]
        /\ f[n] = g[n - 1] + Costs[n] /\ g[n] = g[n - 1] + Costs'[n]
        /\ g = [i \in 0 .. n |-> g[i]]
    <3>1. \A i \in 1 .. n - 1 : Costs'[i] = Costs[i]
      BY <1>3
    <3> HIDE DEF f
    <3>2. /\ Totals(Retotalled(g, Costs, n), Costs, n) /\ Along(g, n)
          /\ g[n] = g[n - 1] + Costs'[n]
      BY <1>1, <1>6, <3>1, TotalsChange
    <3>3. /\ \A i \in 0 .. n - 1 : f[i] = g[i]
          /\ f[n] = g[n - 1] + Costs[n]
      BY <1>1 DEF f, Retotalled
    <3> QED
      BY <3>2, <3>3 DEF f, Along
  <2>2. f \in [0 .. n -> Nat] /\ f[n] = rt.tokensCharged /\ RoomHeld(f)
    BY <1>0, <2>1 DEF TokenInv
  <2> HIDE DEF f
  <2>3. \A i \in 0 .. n - 1 : g[i] \in Nat
    <3>1. \A i \in 0 .. n - 1 : f[i] \in Nat
      BY <2>2
    <3> QED
      BY <2>1, <3>1
  <2>4. n - 1 \in 0 .. n - 1
    BY <1>1
  <2>5. g[n] = rt'.tokensCharged /\ g[n] \in Nat
    <3>1. g[n - 1] \in Nat
      BY <2>3, <2>4
    <3>2. g[n] = g[n - 1] + (Costs[n] + over)
      BY <1>3, <2>1
    <3>3. rt'.tokensCharged = (g[n - 1] + Costs[n]) + over
      BY <1>4, <2>1, <2>2
    <3> QED
      BY <1>3, <3>1, <3>2, <3>3
  <2>6. g \in [0 .. n -> Nat]
    <3>1. \A i \in 0 .. n : i = n \/ i \in 0 .. n - 1
      OBVIOUS
    <3>2. \A i \in 0 .. n : g[i] \in Nat
      BY <2>3, <2>5, <3>1
    <3> QED
      BY <2>1, <3>2
  <2>7. ASSUME Policy.maxTokens # None, NEW i \in 1 .. n, IsModelCall(i)'
        PROVE  g[i - 1] + attempts'[i].action.reservation <= Policy.maxTokens
    <3>1. IsModelCall(i)
      BY <1>2, <2>7 DEF IsModelCall
    <3>2. f[i - 1] + attempts[i].action.reservation <= Policy.maxTokens
      BY <1>1, <2>2, <2>7, <3>1 DEF RoomHeld
    <3>3. f[i - 1] = g[i - 1]
      <4>1. i - 1 \in 0 .. n - 1
        BY <1>1
      <4> QED
        BY <2>1, <4>1
    <3> QED
      BY <1>2, <3>2, <3>3
  <2>8. RoomHeld(g)'
    BY <1>1, <1>4, <2>7 DEF RoomHeld
  <2> QED
    BY <2>5, <2>6, <2>8
<1> QED
  BY <1>1, <1>5, <1>6 DEF TokenInv

LEMMA UsageSettles ==
  ASSUME TypeOK, UsageInv, NEW a, NEW success, NEW reported, Concludes(a, success, reported)
  PROVE  UsageInv'
<1>0. PICK n \in Nat : n = Len(attempts)
  BY DEF TypeOK
<1>1. Attempted = 1 .. n /\ Attempted' = 1 .. n
  BY <1>0, Domains DEF TypeOK, Concludes, Attempted
<1>2. /\ \A i \in 1 .. n : i # n => attempts'[i] = attempts[i]
      /\ \A i \in 1 .. n : attempts'[i].action = attempts[i].action
      /\ attempts'[n].reported = reported /\ attempts[n].action = a
  BY <1>0 DEF Concludes
<1>3. /\ \A i \in 1 .. n : IsModelCall(i)' <=> IsModelCall(i)
      /\ \A i \in 1 .. n - 1 : Known(i)' <=> Known(i)
      /\ IsModelCall(n) <=> a.kind = "model.call"
  BY <1>2 DEF IsModelCall, Known
<1>4. /\ ~rt'.tokenUsageUnknown => ~rt.tokenUsageUnknown
      /\ ~rt'.tokenUsageUnknown /\ a.kind = "model.call" => reported # None
      /\ Policy' = Policy
  BY DEF Concludes, Settles, Policy
<1>5. ASSUME ~rt'.tokenUsageUnknown, NEW j \in 1 .. n, IsModelCall(j)'
      PROVE  Known(j)'
  <2>1. CASE j = n
    BY <1>2, <1>3, <1>4, <1>5, <2>1 DEF Known
  <2>2. CASE j \in 1 .. n - 1
    BY <1>1, <1>3, <1>4, <1>5, <2>2 DEF UsageInv
  <2> QED
    BY <2>1, <2>2
<1>6. ASSUME Policy.maxTokens # None, NEW i \in 1 .. n, IsModelCall(i)',
             NEW j \in 1 .. i - 1, IsModelCall(j)'
      PROVE  Known(j)'
  <2>1. j \in 1 .. n - 1 /\ j \in 1 .. n
    OBVIOUS
  <2> QED
    BY <1>1, <1>3, <1>6, <2>1 DEF UsageInv
<1> QED
  BY <1>1, <1>4, <1>5, <1>6 DEF UsageInv

LEMMA ReadSettles ==
  ASSUME TypeOK, ReadInv, NEW a, NEW success, NEW reported, Concludes(a, success, reported)
  PROVE  ReadInv'
<1>0. PICK n \in Nat : n = Len(attempts)
  BY DEF TypeOK
<1>1. Attempted = 1 .. n /\ Attempted' = 1 .. n /\ n # 0
  BY <1>0, Domains DEF TypeOK, Concludes, Attempted
<1>2. /\ \A i \in 1 .. n : i # n => attempts'[i] = attempts[i]
      /\ \A i \in 1 .. n : attempts'[i].action = attempts[i].action
      /\ attempts[n].action = a /\ attempts[n].outcome = "pending"
      /\ attempts'[n].outcome = (IF success THEN "success" ELSE "failure")
  BY <1>0 DEF Concludes
<1>3. \A i \in 1 .. n : attempts[i].outcome = "success" => attempts'[i].outcome = "success"
  BY <1>2
<1>4. rt'.readPaths = ReadPathsAfter(rt, a, success) /\ Policy' = Policy
  BY DEF Concludes, Settles, Policy
<1>5. ASSUME NEW f \in rt'.readPaths
      PROVE  \E j \in 1 .. n : /\ attempts'[j].action.kind = "file.read"
                               /\ attempts'[j].action.path = f
                               /\ attempts'[j].outcome = "success"
  <2>1. CASE f \in rt.readPaths
    <3>1. PICK j \in 1 .. n : /\ attempts[j].action.kind = "file.read"
                              /\ attempts[j].action.path = f
                              /\ attempts[j].outcome = "success"
      BY <1>1, <2>1 DEF ReadInv
    <3> QED
      BY <1>2, <1>3, <3>1
  <2>2. CASE f \notin rt.readPaths
    <3>1. success /\ a.kind = "file.read" /\ f = a.path
      BY <1>4, <1>5, <2>2 DEF ReadPathsAfter
    <3>2. /\ attempts'[n].action.kind = "file.read" /\ attempts'[n].action.path = f
          /\ attempts'[n].outcome = "success" /\ n \in 1 .. n
      BY <1>1, <1>2, <3>1
    <3> QED
      BY <3>2
  <2> QED
    BY <2>1, <2>2
<1>6. ASSUME Policy.requireReadBeforeWrite, NEW i \in 1 .. n, IsWrite(attempts'[i].action)
      PROVE  \E j \in 1 .. i - 1 : /\ attempts'[j].action.kind = "file.read"
                                   /\ attempts'[j].action.path = attempts'[i].action.path
                                   /\ attempts'[j].outcome = "success"
  <2>1. i \in WriteAttempts
    BY <1>1, <1>2, <1>6 DEF WriteAttempts
  <2>2. PICK j \in 1 .. i - 1 : /\ attempts[j].action.kind = "file.read"
                                /\ attempts[j].action.path = attempts[i].action.path
                                /\ attempts[j].outcome = "success"
    BY <1>6, <2>1 DEF ReadInv, ReadBeforeWrite
  <2>3. j \in 1 .. n
    OBVIOUS
  <2> QED
    BY <1>2, <1>3, <2>2, <2>3
<1>7. ReadBeforeWrite'
  BY <1>1, <1>4, <1>6 DEF ReadBeforeWrite, WriteAttempts
<1> QED
  BY <1>1, <1>5, <1>7 DEF ReadInv

(* What succeeded in a visit stays, and the outcome adds to the present one. *)
LEMMA SuccessesSettle ==
  ASSUME TypeOK, NEW a, NEW success, NEW reported, Concludes(a, success, reported)
  PROVE  \A m : SucceededIn(m)' =
           IF success /\ m = Len(entries) THEN SucceededIn(m) \cup {a.kind} ELSE SucceededIn(m)
<1>0. PICK n \in Nat : n = Len(attempts)
  BY DEF TypeOK
<1>1. Attempted = 1 .. n /\ Attempted' = 1 .. n /\ n # 0
  BY <1>0, Domains DEF TypeOK, Concludes, Attempted
<1>2. /\ \A i \in 1 .. n : i # n => attempts'[i] = attempts[i]
      /\ \A i \in 1 .. n : /\ attempts'[i].action = attempts[i].action
                           /\ attempts'[i].entry = attempts[i].entry
      /\ attempts[n].action = a /\ attempts[n].outcome = "pending"
      /\ attempts[n].entry = Len(entries)
      /\ attempts'[n].outcome = (IF success THEN "success" ELSE "failure")
  BY <1>0 DEF Concludes
<1> SUFFICES ASSUME NEW m
             PROVE  SucceededIn(m)' = IF success /\ m = Len(entries)
                                        THEN SucceededIn(m) \cup {a.kind} ELSE SucceededIn(m)
  OBVIOUS
<1> DEFINE K == {k \in 1 .. n : attempts[k].entry = m /\ attempts[k].outcome = "success"}
           L == {k \in 1 .. n : attempts'[k].entry = m /\ attempts'[k].outcome = "success"}
<1>3. SucceededIn(m) = {attempts[i].action.kind : i \in K}
  BY <1>1 DEF SucceededIn
<1>4. SucceededIn(m)' = {attempts[i].action.kind : i \in L}
  BY <1>1, <1>2 DEF SucceededIn
<1>5. CASE success /\ m = Len(entries)
  <2>1. L = K \cup {n}
    BY <1>1, <1>2, <1>5
  <2> HIDE DEF K, L
  <2>2. {attempts[i].action.kind : i \in K \cup {n}}
          = {attempts[i].action.kind : i \in K} \cup {a.kind}
    BY <1>2
  <2> QED
    BY <1>3, <1>4, <1>5, <2>1, <2>2
<1>6. CASE ~(success /\ m = Len(entries))
  <2>1. L = K
    BY <1>2, <1>6
  <2> HIDE DEF K, L
  <2> QED
    BY <1>3, <1>4, <1>6, <2>1
<1> QED
  BY <1>5, <1>6

LEMMA WorkflowSettles ==
  ASSUME TypeOK, WorkflowInv, NEW a, NEW success, NEW reported, Concludes(a, success, reported)
  PROVE  WorkflowInv'
<1>0. PICK n \in Nat : n = Len(attempts)
  BY DEF TypeOK
<1>1. Attempted = 1 .. n /\ Attempted' = 1 .. n
  BY <1>0, Domains DEF TypeOK, Concludes, Attempted
<1>2. \A i \in 1 .. n : /\ attempts'[i].action = attempts[i].action
                        /\ attempts'[i].entry = attempts[i].entry
  BY <1>0 DEF Concludes
<1>3. PICK e \in Nat : e = Len(entries)
  BY DEF TypeOK
<1>4. /\ entries' = entries /\ Policy' = Policy /\ rt'.phaseIndex = rt.phaseIndex
      /\ rt'.successfulTools =
           (IF success THEN rt.successfulTools \cup {a.kind} ELSE rt.successfulTools)
  BY DEF Concludes, Settles, Policy
<1>5. ASSUME NEW m
      PROVE  SucceededIn(m)' =
               IF success /\ m = e THEN SucceededIn(m) \cup {a.kind} ELSE SucceededIn(m)
  BY <1>3, SuccessesSettle
<1>6. rt'.successfulTools = SucceededIn(e)'
  BY <1>3, <1>4, <1>5 DEF WorkflowInv
<1>7. SucceededIn(Len(entries))' = SucceededIn(e)'
  BY <1>3, <1>4 DEF SucceededIn
<1>8. ASSUME HasPhases(Policy), NEW m \in 1 .. Len(entries) - 1
      PROVE  /\ Policy.phases[entries[m]].requires \subseteq SucceededIn(m)'
             /\ IF Policy.phases[entries[m]].next # None
                  THEN Policy.phases[entries[m + 1]].name \in Policy.phases[entries[m]].next
                  ELSE entries[m + 1] = entries[m] + 1
  <2>1. SucceededIn(m) \subseteq SucceededIn(m)'
    BY <1>5
  <2> QED
    BY <1>8, <2>1 DEF WorkflowInv, WorkflowHeld
<1>9. ASSUME HasPhases(Policy), NEW i \in 1 .. n, NEW t \in Tools,
             Spends(attempts'[i].action, t)
      PROVE  t \in Policy.phases[entries[attempts'[i].entry]].tools
  BY <1>1, <1>2, <1>9 DEF WorkflowInv, WorkflowHeld
<1>10. WorkflowHeld'
  BY <1>1, <1>4, <1>8, <1>9 DEF WorkflowHeld
<1> QED
  BY <1>1, <1>2, <1>4, <1>6, <1>7, <1>10 DEF WorkflowInv

LEMMA VerifiedSettles ==
  ASSUME TypeOK, VerifiedInv, NEW a, NEW success, NEW reported, Concludes(a, success, reported)
  PROVE  VerifiedInv'
<1>0. PICK n \in Nat : n = Len(attempts)
  BY DEF TypeOK
<1>1. Attempted = 1 .. n /\ Attempted' = 1 .. n /\ n # 0
  BY <1>0, Domains DEF TypeOK, Concludes, Attempted
<1>2. /\ \A i \in 1 .. n : i # n => attempts'[i] = attempts[i]
      /\ \A i \in 1 .. n : attempts'[i].action = attempts[i].action
      /\ attempts[n].action = a /\ attempts[n].outcome = "pending"
      /\ attempts'[n].outcome = (IF success THEN "success" ELSE "failure")
  BY <1>0 DEF Concludes
<1>3. /\ rt'.writeRevision = rt.writeRevision
      /\ rt'.verifiedRevision =
           (IF success /\ Verifies(a) THEN rt.writeRevision ELSE rt.verifiedRevision)
      /\ rt.writeRevision \in Nat
  BY StateFields DEF Concludes, Settles, TypeOK, FieldTypes
<1>4. WriteAttempts' = WriteAttempts /\ WriteAttempts \subseteq 1 .. n
  BY <1>1, <1>2 DEF WriteAttempts
<1>5. \A i \in 1 .. n : Verifies(attempts[i].action)' <=> Verifies(attempts[i].action)
  BY <1>2 DEF Verifies, Concludes
<1>6. CASE success /\ Verifies(a)
  <2>1. n \notin WriteAttempts
    BY <1>2, <1>6 DEF WriteAttempts, IsWrite, Verifies
  <2>2. \A j \in WriteAttempts' : j < n
    BY <1>4, <2>1
  <2>3. n \in 1 .. n /\ Verifies(attempts[n].action)' /\ attempts'[n].outcome = "success"
    BY <1>1, <1>2, <1>5, <1>6
  <2>4. rt'.verifiedRevision <= rt'.writeRevision
    BY <1>3, <1>6
  <2> QED
    BY <1>1, <2>2, <2>3, <2>4 DEF VerifiedInv
<1>7. CASE ~(success /\ Verifies(a))
  <2>1. rt'.verifiedRevision = rt.verifiedRevision
    BY <1>3, <1>7
  <2>2. ASSUME rt.verifiedRevision = rt.writeRevision
        PROVE  \E i \in 1 .. n : /\ Verifies(attempts[i].action)'
                                 /\ attempts'[i].outcome = "success"
                                 /\ \A j \in WriteAttempts' : j < i
    <3>1. PICK i \in 1 .. n : /\ Verifies(attempts[i].action)
                              /\ attempts[i].outcome = "success"
                              /\ \A j \in WriteAttempts : j < i
      BY <1>1, <2>2 DEF VerifiedInv
    <3>2. attempts'[i].outcome = "success" /\ Verifies(attempts[i].action)'
      BY <1>2, <1>5, <3>1
    <3> QED
      BY <1>4, <3>1, <3>2
  <2> QED
    BY <1>1, <1>3, <2>1, <2>2 DEF VerifiedInv
<1> QED
  BY <1>6, <1>7
-----------------------------------------------------------------------------
(* The history when nothing is admitted and no outcome is recorded.        *)

Rests ==
  /\ UNCHANGED << options, attempts >>
  /\ now' \in Nat /\ now <= now'
  /\ rt'.startedAt = rt.startedAt
  /\ rt'.actions = rt.actions /\ rt'.toolCalls = rt.toolCalls
  /\ rt'.recentActions = rt.recentActions /\ rt'.changedPaths = rt.changedPaths
  /\ rt'.writtenBytes = rt.writtenBytes /\ rt'.writeRevision = rt.writeRevision
  /\ rt'.readPaths = rt.readPaths /\ rt'.failures = rt.failures
  /\ rt'.consecutiveFailures = rt.consecutiveFailures
  /\ rt'.tokensCharged = rt.tokensCharged
  /\ rt'.tokenUsageUnknown = rt.tokenUsageUnknown
  /\ rt'.verifiedRevision = rt.verifiedRevision

LEMMA CountersRest ==
  ASSUME Rests
  PROVE  /\ BudgetInv => BudgetInv'
         /\ RetryInv => RetryInv'
         /\ BreakerInv => BreakerInv'
         /\ FilesInv => FilesInv'
<1>1. attempts' = attempts /\ Attempted' = Attempted /\ Policy' = Policy
  BY DEF Rests, Attempted, Policy
<1>2. BudgetInv => BudgetInv'
  <2>1. \A t \in Tools : SpentOn(t)' = SpentOn(t)
    BY <1>1 DEF SpentOn
  <2>2. AttemptBudget => AttemptBudget'
    BY <1>1, <2>1 DEF AttemptBudget, SpentOn
  <2> QED
    BY <1>1, <2>1, <2>2 DEF BudgetInv, Rests
<1>3. RetryInv => RetryInv'
  <2>1. \A i : WritesBefore(i)' = WritesBefore(i)
    BY <1>1 DEF WritesBefore
  <2>2. \A i : KeyOf(i)' = KeyOf(i)
    BY <1>1, <2>1 DEF KeyOf
  <2>3. \A k \in ActionKeys : FailedWith(k)' = FailedWith(k)
    BY <1>1, <2>2 DEF FailedWith
  <2>4. ASSUME NEW i \in Attempted
        PROVE  {j \in 1 .. i - 1 : attempts'[j].outcome = "failure" /\ KeyOf(j)' = KeyOf(i)'}
                 = {j \in 1 .. i - 1 : attempts[j].outcome = "failure" /\ KeyOf(j) = KeyOf(i)}
    BY <1>1, <2>2
  <2>5. RetryBudget => RetryBudget'
    <3> SUFFICES ASSUME RetryBudget, NEW i \in Attempted
                 PROVE  Limited(Policy.maxRetries, Cardinality(
                          {j \in 1 .. i - 1 : attempts'[j].outcome = "failure"
                                                /\ KeyOf(j)' = KeyOf(i)'}))
      BY <1>1 DEF RetryBudget
    <3>1. Limited(Policy.maxRetries, Cardinality(
            {j \in 1 .. i - 1 : attempts[j].outcome = "failure" /\ KeyOf(j) = KeyOf(i)}))
      BY DEF RetryBudget
    <3> QED
      BY <2>4, <3>1
  <2>6. WritesBefore(Len(attempts) + 1)' = WritesBefore(Len(attempts) + 1)
    BY <1>1 DEF WritesBefore
  <2>7. rt'.writeRevision = rt.writeRevision /\ rt'.failures = rt.failures
    BY DEF Rests
  <2> QED
    BY <2>3, <2>5, <2>6, <2>7 DEF RetryInv
<1>4. BreakerInv => BreakerInv'
  <2>1. \A i \in Attempted : FailuresSinceSuccess(i)' = FailuresSinceSuccess(i)
    BY <1>1 DEF FailuresSinceSuccess
  <2>2. FailuresSinceSuccess(Len(attempts) + 1)' = FailuresSinceSuccess(Len(attempts) + 1)
    BY <1>1 DEF FailuresSinceSuccess
  <2>3. BreakerHeld => BreakerHeld'
    BY <1>1, <2>1 DEF BreakerHeld
  <2>4. rt'.consecutiveFailures = rt.consecutiveFailures
    BY DEF Rests
  <2> QED
    BY <2>2, <2>3, <2>4 DEF BreakerInv
<1>5. FilesInv => FilesInv'
  <2>1. WriteAttempts' = WriteAttempts
    BY <1>1 DEF WriteAttempts
  <2>2. {attempts'[i].action.path : i \in WriteAttempts'}
          = {attempts[i].action.path : i \in WriteAttempts}
    BY <1>1, <2>1
  <2>3. rt'.changedPaths = rt.changedPaths
    BY DEF Rests
  <2> QED
    BY <1>1, <2>2, <2>3 DEF FilesInv, FilesHeld
<1> QED
  BY <1>2, <1>3, <1>4, <1>5

LEMMA TotalsRest ==
  ASSUME Rests
  PROVE  /\ VolumeInv => VolumeInv'
         /\ TokenInv => TokenInv'
         /\ UsageInv => UsageInv'
         /\ ReadInv => ReadInv'
         /\ VerifiedInv => VerifiedInv'
<1>1. attempts' = attempts /\ Attempted' = Attempted /\ Policy' = Policy
  BY DEF Rests, Attempted, Policy
<1>2. WriteAttempts' = WriteAttempts
  BY <1>1 DEF WriteAttempts
<1>3. VolumeInv => VolumeInv'
  <2>1. Volumes' = Volumes /\ Len(attempts') = Len(attempts)
    BY <1>1 DEF Volumes
  <2>2. rt'.writtenBytes = rt.writtenBytes
    BY DEF Rests
  <2> QED
    BY <1>1, <2>1, <2>2 DEF VolumeInv
<1>4. TokenInv => TokenInv'
  <2>1. Costs' = Costs /\ Len(attempts') = Len(attempts)
    BY <1>1 DEF Costs, IsModelCall, Charge
  <2>2. rt'.tokensCharged = rt.tokensCharged
    BY DEF Rests
  <2>3. \A f : RoomHeld(f)' <=> RoomHeld(f)
    BY <1>1 DEF RoomHeld, IsModelCall
  <2> QED
    BY <2>1, <2>2, <2>3 DEF TokenInv
<1>5. UsageInv => UsageInv'
  <2>1. rt'.tokenUsageUnknown = rt.tokenUsageUnknown
    BY DEF Rests
  <2>2. \A i : (IsModelCall(i)' <=> IsModelCall(i)) /\ (Known(i)' <=> Known(i))
    BY <1>1 DEF IsModelCall, Known
  <2> QED
    BY <1>1, <2>1, <2>2 DEF UsageInv
<1>6. ReadInv => ReadInv'
  <2>1. rt'.readPaths = rt.readPaths
    BY DEF Rests
  <2>2. ReadBeforeWrite => ReadBeforeWrite'
    BY <1>1, <1>2 DEF ReadBeforeWrite
  <2> QED
    BY <1>1, <2>1, <2>2 DEF ReadInv
<1>7. VerifiedInv => VerifiedInv'
  <2>1. \A i : Verifies(attempts[i].action)' <=> Verifies(attempts[i].action)
    BY <1>1 DEF Verifies, Rests
  <2>2. rt'.verifiedRevision = rt.verifiedRevision /\ rt'.writeRevision = rt.writeRevision
    BY DEF Rests
  <2> QED
    BY <1>1, <1>2, <2>1, <2>2 DEF VerifiedInv
<1> QED
  BY <1>3, <1>4, <1>5, <1>6, <1>7

(* Time only takes admissions out of the window.                           *)
LEMMA RateRests ==
  ASSUME TypeOK, RateInv, Rests
  PROVE  RateInv'
<1>0. PICK n \in Nat : n = Len(attempts)
  BY DEF TypeOK
<1>1. /\ attempts' = attempts /\ Attempted' = Attempted /\ Policy' = Policy
      /\ Attempted = 1 .. n /\ rt'.recentActions = rt.recentActions
  BY <1>0, Domains DEF TypeOK, Rests, Attempted, Policy
<1>2. now \in Nat /\ now' \in Nat /\ now <= now' /\ Window(Policy) \in Nat
  BY OptionFields, PolicyFields DEF TypeOK, Rests, Policy
<1>3. \A j \in 1 .. n : attempts[j].at \in Nat
  BY <1>0, AttemptFields DEF TypeOK
<1>4. \A i : Admission(i)' = Admission(i)
  BY <1>1 DEF Admission
<1>5. ASSUME NEW j \in 1 .. n
      PROVE  /\ attempts[j].at <= now'
             /\ Admission(j) \in rt.recentActions \/ now' - attempts[j].at >= Window(Policy)
  <2>1. /\ attempts[j].at <= now
        /\ Admission(j) \in rt.recentActions \/ now - attempts[j].at >= Window(Policy)
    BY <1>1 DEF RateInv
  <2>2. attempts[j].at \in Nat
    BY <1>3
  <2> QED
    BY <1>2, <2>1, <2>2
<1>6. RateHeld'
  <2> SUFFICES ASSUME NEW i \in Attempted
               PROVE  Limited(Policy.maxActionsPerWindow,
                        Cardinality({j \in 1 .. i :
                          attempts'[i].at - attempts'[j].at < Window(Policy)}))
    BY <1>1 DEF RateHeld
  <2>1. {j \in 1 .. i : attempts'[i].at - attempts'[j].at < Window(Policy)}
          = {j \in 1 .. i : attempts[i].at - attempts[j].at < Window(Policy)}
    BY <1>1
  <2>2. Limited(Policy.maxActionsPerWindow,
          Cardinality({j \in 1 .. i : attempts[i].at - attempts[j].at < Window(Policy)}))
    BY DEF RateInv, RateHeld
  <2> QED
    BY <2>1, <2>2
<1>7. \A r \in rt'.recentActions : r.number \in Attempted' /\ r = Admission(r.number)'
  BY <1>1, <1>4 DEF RateInv
<1>8. \A j \in Attempted' :
        /\ attempts'[j].at <= now'
        /\ Admission(j)' \in rt'.recentActions \/ now' - attempts'[j].at >= Window(Policy')
  BY <1>1, <1>4, <1>5
<1> QED
  BY <1>6, <1>7, <1>8 DEF RateInv

(* The fields that advanceRuntimePhase leaves alone, and those it sets.    *)
Advances(index) ==
  /\ rt'.phaseIndex = index /\ rt'.successfulTools = {}
  /\ IsRuntimeState(rt') /\ Rests
  /\ entries' \in Seq(Nat \ {0}) /\ Len(entries') = Len(entries) + 1
  /\ \A m \in 1 .. Len(entries) : entries'[m] = entries[m]
  /\ entries'[Len(entries) + 1] = index

LEMMA PhaseFields ==
  ASSUME TypeOK, WorkflowInv, HasPhases(Policy), NEW target,
         EvaluatePhaseTransition(Policy, rt, target)
  PROVE  /\ rt.phaseIndex \in DOMAIN Policy.phases
         /\ Policy.phases[rt.phaseIndex].requires \subseteq rt.successfulTools
         /\ PhaseIndexOf(Policy, target) \in DOMAIN Policy.phases
         /\ PhaseIndexOf(Policy, target) \in Nat \ {0}
         /\ LET from == Policy.phases[rt.phaseIndex] IN
              IF from.next # None
                THEN Policy.phases[PhaseIndexOf(Policy, target)].name \in from.next
                ELSE PhaseIndexOf(Policy, target) = rt.phaseIndex + 1
<1>1. IsPolicy(Policy) /\ Policy.phases \in Seq(WorkflowPhase)
  BY OptionFields, PolicyFields DEF TypeOK, Policy
<1>2. rt.phaseIndex \in DOMAIN Policy.phases
  BY DEF WorkflowInv, TypeOK
<1>3. Policy.phases[rt.phaseIndex].requires \subseteq rt.successfulTools
  BY DEF EvaluatePhaseTransition, CurrentPhase
<1> DEFINE index == PhaseIndexOf(Policy, target)
<1>4. index \in DOMAIN Policy.phases /\ Policy.phases[index].name = target
  BY DEF EvaluatePhaseTransition, PhaseIndexOf
<1>5. index \in Nat \ {0}
  BY <1>1, <1>4
<1>6. \A i, j \in DOMAIN Policy.phases :
        Policy.phases[i].name = Policy.phases[j].name => i = j
  BY <1>1 DEF IsPolicy
<1> HIDE DEF index
<1>7. target \in NextPhases(Policy, rt)
  BY DEF EvaluatePhaseTransition
<1>8. CASE Policy.phases[rt.phaseIndex].next # None
  BY <1>2, <1>3, <1>4, <1>5, <1>7, <1>8 DEF NextPhases, CurrentPhase, index
<1>9. CASE Policy.phases[rt.phaseIndex].next = None
  <2>1. rt.phaseIndex + 1 \in DOMAIN Policy.phases
        /\ target = Policy.phases[rt.phaseIndex + 1].name
    BY <1>2, <1>7, <1>9 DEF NextPhases, CurrentPhase
  <2>2. index = rt.phaseIndex + 1
    BY <1>4, <1>6, <2>1
  <2> QED
    BY <1>2, <1>3, <1>4, <1>5, <1>9, <2>2 DEF index
<1> QED
  BY <1>8, <1>9

LEMMA PhaseAdvances ==
  ASSUME TypeOK, NEW index \in Nat \ {0}, rt' = AdvanceRuntimePhase(rt, index),
         entries' = Append(entries, index), UNCHANGED << options, now, attempts >>
  PROVE  Advances(index)
<1>1. IsRecord(rt) /\ FieldTypes(rt)
  BY StateFields DEF TypeOK
<1>2. /\ IsRecord(rt') /\ rt'.phaseIndex = index /\ rt'.successfulTools = {}
      /\ \A f \in Fields \ {"phaseIndex", "successfulTools"} : rt'[f] = rt[f]
  BY <1>1 DEF AdvanceRuntimePhase, IsRecord, Fields
<1>3. /\ rt'.startedAt = rt.startedAt /\ rt'.actions = rt.actions
      /\ rt'.toolCalls = rt.toolCalls /\ rt'.readPaths = rt.readPaths
      /\ rt'.changedPaths = rt.changedPaths /\ rt'.writtenBytes = rt.writtenBytes
      /\ rt'.tokensCharged = rt.tokensCharged /\ rt'.tokensReported = rt.tokensReported
      /\ rt'.tokenUsageUnknown = rt.tokenUsageUnknown /\ rt'.failures = rt.failures
      /\ rt'.consecutiveFailures = rt.consecutiveFailures
      /\ rt'.recentActions = rt.recentActions /\ rt'.writeRevision = rt.writeRevision
      /\ rt'.verifiedRevision = rt.verifiedRevision
  BY <1>2 DEF Fields
<1>4. IsRuntimeState(rt')
  <2>1. FieldTypes(rt')
    BY <1>1, <1>2, <1>3 DEF FieldTypes
  <2> QED
    BY <1>2, <2>1, StateOf
<1>5. Rests
  <2>1. now \in Nat
    BY OptionFields DEF TypeOK
  <2> QED
    BY <1>3, <2>1 DEF Rests
<1>6. entries \in Seq(Nat \ {0})
  BY DEF TypeOK
<1> QED
  BY <1>2, <1>4, <1>5, <1>6 DEF Advances

LEMMA WorkflowTurns ==
  ASSUME TypeOK, WorkflowInv, HasPhases(Policy), NEW target,
         EvaluatePhaseTransition(Policy, rt, target),
         Advances(PhaseIndexOf(Policy, target))
  PROVE  WorkflowInv'
<1>0. PICK e \in Nat : e = Len(entries)
  BY DEF TypeOK
<1>1. PICK index : index = PhaseIndexOf(Policy, target)
  OBVIOUS
<1>2. /\ rt'.phaseIndex = index /\ rt'.successfulTools = {} /\ Len(entries') = e + 1
      /\ entries' \in Seq(Nat \ {0})
      /\ \A m \in 1 .. e : entries'[m] = entries[m]
      /\ entries'[e + 1] = index
      /\ attempts' = attempts /\ Attempted' = Attempted /\ Policy' = Policy
  BY <1>0, <1>1 DEF Advances, Rests, Attempted, Policy
<1>3. /\ index \in DOMAIN Policy.phases
      /\ Policy.phases[rt.phaseIndex].requires \subseteq rt.successfulTools
      /\ IF Policy.phases[rt.phaseIndex].next # None
           THEN Policy.phases[index].name \in Policy.phases[rt.phaseIndex].next
           ELSE index = rt.phaseIndex + 1
  BY <1>1, PhaseFields
<1>4. /\ DOMAIN entries = 1 .. e /\ DOMAIN entries' = 1 .. e + 1 /\ e # 0
      /\ rt.phaseIndex = entries[e] /\ rt.successfulTools = SucceededIn(e)
  BY <1>0, <1>2 DEF WorkflowInv, TypeOK
<1>5. \A i \in Attempted : attempts[i].entry \in 1 .. e
  BY <1>4 DEF WorkflowInv
<1>6. \A m : SucceededIn(m)' = SucceededIn(m)
  BY <1>2 DEF SucceededIn
<1>7. SucceededIn(e + 1)' = {}
  <2>1. {k \in Attempted : attempts[k].entry = e + 1 /\ attempts[k].outcome = "success"} = {}
    BY <1>5
  <2>2. SucceededIn(e + 1) = {}
    BY <2>1 DEF SucceededIn
  <2> QED
    BY <1>6, <2>2
<1>8. SucceededIn(Len(entries))' = SucceededIn(e + 1)'
  BY <1>2 DEF SucceededIn
<1>9. ASSUME NEW m \in 1 .. e
      PROVE  /\ Policy.phases[entries'[m]].requires \subseteq SucceededIn(m)'
             /\ IF Policy.phases[entries'[m]].next # None
                  THEN Policy.phases[entries'[m + 1]].name \in Policy.phases[entries'[m]].next
                  ELSE entries'[m + 1] = entries'[m] + 1
  <2>1. CASE m = e
    BY <1>2, <1>3, <1>4, <1>6, <2>1
  <2>2. CASE m \in 1 .. e - 1
    <3>1. entries'[m] = entries[m] /\ entries'[m + 1] = entries[m + 1]
      BY <1>2, <2>2
    <3>2. /\ Policy.phases[entries[m]].requires \subseteq SucceededIn(m)
          /\ IF Policy.phases[entries[m]].next # None
               THEN Policy.phases[entries[m + 1]].name \in Policy.phases[entries[m]].next
               ELSE entries[m + 1] = entries[m] + 1
      BY <1>0, <2>2 DEF WorkflowInv, WorkflowHeld
    <3> QED
      BY <1>6, <3>1, <3>2
  <2> QED
    BY <2>1, <2>2
<1>10. ASSUME NEW i \in Attempted, NEW t \in Tools, Spends(attempts[i].action, t)
       PROVE  t \in Policy.phases[entries'[attempts[i].entry]].tools
  <2>1. t \in Policy.phases[entries[attempts[i].entry]].tools
    BY <1>10 DEF WorkflowInv, WorkflowHeld
  <2> QED
    BY <1>2, <1>5, <2>1
<1>11. WorkflowHeld'
  <2>1. Len(entries') - 1 = e
    BY <1>2
  <2> QED
    BY <1>2, <1>9, <1>10, <2>1 DEF WorkflowHeld
<1>12. \A m \in DOMAIN entries' : entries'[m] \in DOMAIN Policy.phases
  <2>1. \A m \in 1 .. e : entries[m] \in DOMAIN Policy.phases
    BY <1>4 DEF WorkflowInv
  <2>2. \A m \in 1 .. e + 1 : m = e + 1 \/ m \in 1 .. e
    OBVIOUS
  <2> QED
    BY <1>2, <1>3, <1>4, <2>1, <2>2
<1>13. \A i \in Attempted' : attempts'[i].entry \in DOMAIN entries'
  <2>1. \A m \in 1 .. e : m \in 1 .. e + 1
    OBVIOUS
  <2> QED
    BY <1>2, <1>4, <1>5, <2>1
<1>14. entries' # << >> /\ rt'.phaseIndex = entries'[Len(entries')]
  BY <1>2, <1>4
<1> QED
  BY <1>2, <1>7, <1>8, <1>11, <1>12, <1>13, <1>14 DEF WorkflowInv

LEMMA WorkflowRests ==
  ASSUME WorkflowInv, UNCHANGED << options, rt, attempts, entries >>
  PROVE  WorkflowInv'
<1>1. Policy' = Policy /\ Attempted' = Attempted
  BY DEF Policy, Attempted
<1>2. \A m : SucceededIn(m)' = SucceededIn(m)
  BY <1>1 DEF SucceededIn
<1>3. SucceededIn(Len(entries))' = SucceededIn(Len(entries))
  BY <1>1 DEF SucceededIn
<1>4. WorkflowHeld'
  BY <1>1, <1>2 DEF WorkflowInv, WorkflowHeld
<1> QED
  BY <1>1, <1>3, <1>4 DEF WorkflowInv

(* An attempt is appended after all that were in time, by an allowed model.*)
LEMMA ScopeGrows ==
  ASSUME TypeOK, ScopeInv, NEW o \in Ops, Grows(o), Permitted(job[o].action)
  PROVE  ScopeInv'
<1>0. PICK n \in Nat : n = Len(attempts)
  BY DEF TypeOK
<1>1. Attempted = 1 .. n /\ Attempted' = 1 .. n + 1
  BY <1>0, Domains DEF TypeOK, Grows, Attempted
<1>2. /\ \A i \in 1 .. n : attempts'[i] = attempts[i]
      /\ attempts'[n + 1].action = job[o].action
  BY <1>0 DEF Grows, Fresh
<1>3. Policy' = Policy /\ rt'.startedAt = 0
  BY DEF Grows, Charges, Policy, ScopeInv
<1>4. DurationHeld'
  <2>1. Policy.maxDuration # None => \A i \in 1 .. n : attempts'[i].at < Policy.maxDuration
    BY <1>1, <1>2 DEF Permitted, InTime
  <2>2. \A i, j \in 1 .. n + 1 : i < j => i \in 1 .. n
    OBVIOUS
  <2> QED
    BY <1>1, <1>3, <2>1, <2>2 DEF DurationHeld
<1>5. ModelsHeld'
  <2> SUFFICES ASSUME Policy.allowedModels # None, NEW i \in 1 .. n + 1,
                      attempts'[i].action.kind = "model.call"
               PROVE  attempts'[i].action.model \in Policy.allowedModels
    BY <1>1, <1>3 DEF ModelsHeld, IsModelCall
  <2>1. CASE i = n + 1
    BY <1>2, <2>1 DEF Permitted, ModelPermits
  <2>2. CASE i \in 1 .. n
    BY <1>1, <1>2, <2>2 DEF ScopeInv, ModelsHeld, IsModelCall
  <2> QED
    BY <2>1, <2>2
<1> QED
  BY <1>3, <1>4, <1>5 DEF ScopeInv

LEMMA ScopeSettles ==
  ASSUME TypeOK, ScopeInv, NEW a, NEW success, NEW reported, Concludes(a, success, reported)
  PROVE  ScopeInv'
<1>0. PICK n \in Nat : n = Len(attempts)
  BY DEF TypeOK
<1>1. Attempted = 1 .. n /\ Attempted' = 1 .. n
  BY <1>0, Domains DEF TypeOK, Concludes, Attempted
<1>2. \A i \in 1 .. n : attempts'[i].action = attempts[i].action /\ attempts'[i].at = attempts[i].at
  BY <1>0 DEF Concludes
<1>3. Policy' = Policy /\ rt'.startedAt = rt.startedAt
  BY DEF Concludes, Settles, Policy
<1> QED
  BY <1>1, <1>2, <1>3 DEF ScopeInv, DurationHeld, ModelsHeld, IsModelCall

LEMMA ScopeRests ==
  ASSUME ScopeInv, Rests
  PROVE  ScopeInv'
<1>1. attempts' = attempts /\ Policy' = Policy /\ rt'.startedAt = rt.startedAt
  BY DEF Rests, Policy
<1> QED
  BY <1>1 DEF ScopeInv, DurationHeld, ModelsHeld, IsModelCall, Attempted

LEMMA HistoryGrows ==
  ASSUME TypeOK, HistoryInv, NEW o \in Ops, Grows(o), Permitted(job[o].action)
  PROVE  HistoryInv'
<1>1. BudgetInv' /\ RetryInv' /\ BreakerInv' /\ RateInv' /\ FilesInv' /\ VolumeInv'
  BY BudgetGrows, RetryGrows, BreakerGrows, RateGrows, FilesGrows, VolumeGrows DEF HistoryInv
<1>2. TokenInv' /\ UsageInv' /\ ReadInv' /\ WorkflowInv' /\ VerifiedInv' /\ ScopeInv'
  BY TokenGrows, UsageGrows, ReadGrows, WorkflowGrows, VerifiedGrows, ScopeGrows DEF HistoryInv
<1> QED
  BY <1>1, <1>2 DEF HistoryInv

LEMMA HistorySettles ==
  ASSUME TypeOK, HistoryInv, NEW a, NEW success, NEW reported, Concludes(a, success, reported)
  PROVE  HistoryInv'
<1>1. BudgetInv' /\ RetryInv' /\ BreakerInv' /\ RateInv' /\ FilesInv' /\ VolumeInv'
  BY BudgetSettles, RetrySettles, BreakerSettles, RateSettles, FilesSettles, VolumeSettles
     DEF HistoryInv
<1>2. TokenInv' /\ UsageInv' /\ ReadInv' /\ WorkflowInv' /\ VerifiedInv' /\ ScopeInv'
  BY TokenSettles, UsageSettles, ReadSettles, WorkflowSettles, VerifiedSettles, ScopeSettles
     DEF HistoryInv
<1> QED
  BY <1>1, <1>2 DEF HistoryInv

LEMMA HistoryTurns ==
  ASSUME TypeOK, HistoryInv, HasPhases(Policy), NEW target,
         EvaluatePhaseTransition(Policy, rt, target),
         Advances(PhaseIndexOf(Policy, target))
  PROVE  HistoryInv'
<1>1. WorkflowInv'
  BY WorkflowTurns DEF HistoryInv
<1>2. Rests
  BY DEF Advances
<1> QED
  BY <1>1, <1>2, CountersRest, TotalsRest, RateRests, ScopeRests DEF HistoryInv

LEMMA HistoryRests ==
  ASSUME TypeOK, HistoryInv, UNCHANGED << options, rt, attempts, entries >>,
         now' \in Nat, now <= now'
  PROVE  HistoryInv'
<1>1. WorkflowInv'
  BY WorkflowRests DEF HistoryInv
<1>2. Rests
  BY DEF Rests
<1> QED
  BY <1>1, <1>2, CountersRest, TotalsRest, RateRests, ScopeRests DEF HistoryInv
-----------------------------------------------------------------------------
(* The pipeline: only the head of the queue acts.                          *)

(* The head acts and stays, or settles and leaves.                         *)
Acts(o) ==
  /\ IsHead(o)
  /\ UNCHANGED << options, accepting, job, drain >>
  /\ \A p \in Ops : p # o =>
       stage'[p] = stage[p] /\ verdict'[p] = verdict[p] /\ retained'[p] = retained[p]
  /\ retained[o] \subseteq retained'[o]
  /\ \/ queue' = queue /\ stage'[o] \in Stages \ {"new", "queued", "settled"}
     \/ queue' = Tail(queue) /\ stage'[o] = "settled"

(* What the step owes the invariant for the request that acted.            *)
Owed(o) ==
  /\ stage'[o] \in Acting => job[o].action # None
  /\ stage'[o] = "turning" =>
       job[o].target # None /\ (job[o].target # None => HasPhases(Policy))
  /\ stage'[o] = "deciding" =>
       "tool.called" \in retained'[o] /\ (verdict'[o] = "allow" => Permitted(job[o].action)')
  /\ stage'[o] = "turning" /\ verdict'[o] = "allow" =>
       EvaluatePhaseTransition(Policy, rt, job[o].target)'
  /\ stage'[o] \in {"starting", "running"} => Running(o)'
  /\ \A i, j \in Attempted' : attempts'[i].op = attempts'[j].op => i = j
  /\ Spenders' \subseteq Spenders \cup {o}
  /\ o \in Spenders' => Licensed(o)'

LEMMA OnlyHead ==
  ASSUME TypeOK, QueueInv, NEW o, IsHead(o)
  PROVE  /\ 1 \in DOMAIN queue /\ queue[1] = o /\ o \in Ops /\ Live(o)
         /\ \A i \in DOMAIN queue : i # 1 => queue[i] # o
         /\ \A p \in Ops : p # o /\ Live(p) => stage[p] = "queued"
<1>1. queue \in Seq(Ops) /\ 1 \in DOMAIN queue /\ queue[1] = o /\ o \in Ops
  BY DEF TypeOK, IsHead
<1>2. \A i \in DOMAIN queue : i # 1 => queue[i] # o
  BY <1>1 DEF QueueInv
<1>3. ASSUME NEW p \in Ops, p # o, Live(p)
      PROVE  stage[p] = "queued"
  BY <1>1, <1>3 DEF QueueInv
<1>4. Live(o)
  BY <1>1 DEF QueueInv
<1> QED
  BY <1>1, <1>2, <1>3, <1>4

LEMMA QueueActs ==
  ASSUME TypeOK, TypeOK', QueueInv, NEW o \in Ops, Acts(o)
  PROVE  QueueInv'
<1>1. /\ 1 \in DOMAIN queue /\ queue[1] = o /\ Live(o)
      /\ \A i \in DOMAIN queue : i # 1 => queue[i] # o
  BY OnlyHead DEF Acts
<1>2. queue \in Seq(Ops) /\ queue # << >>
  BY DEF TypeOK, Acts, IsHead
<1>3. \A p \in Ops : p # o => stage'[p] = stage[p] /\ (Live(p)' <=> Live(p))
  BY DEF Acts, Live
<1>4. CASE queue' = queue /\ stage'[o] \in Stages \ {"new", "queued", "settled"}
  <2>1. Live(o)'
    BY <1>4 DEF Live
  <2>2. ASSUME NEW i \in DOMAIN queue
        PROVE  stage'[queue[i]] \notin {"new", "settled"} /\ (i # 1 => stage'[queue[i]] = "queued")
    <3>1. queue[i] \in Ops /\ Live(queue[i]) /\ (i # 1 => stage[queue[i]] = "queued")
      BY <1>2 DEF QueueInv
    <3> QED
      BY <1>1, <1>3, <2>1, <3>1 DEF Live
  <2>3. ASSUME NEW p \in Ops, Live(p)'
        PROVE  \E i \in DOMAIN queue : queue[i] = p
    BY <1>1, <1>3, <2>3 DEF QueueInv
  <2> QED
    BY <1>4, <2>2, <2>3 DEF QueueInv, Live
<1>5. CASE queue' = Tail(queue) /\ stage'[o] = "settled"
  <2>1. /\ Len(queue) \in Nat \ {0} /\ DOMAIN queue = 1 .. Len(queue)
        /\ DOMAIN queue' = 1 .. Len(queue) - 1
        /\ \A i \in 1 .. Len(queue) - 1 : queue'[i] = queue[i + 1]
    BY <1>2, <1>5
  <2>2. ~Live(o)'
    BY <1>5 DEF Live
  <2>3. ASSUME NEW i \in DOMAIN queue'
        PROVE  stage'[queue'[i]] = "queued"
    <3>1. i + 1 \in DOMAIN queue /\ i + 1 # 1 /\ queue'[i] = queue[i + 1]
      BY <2>1
    <3>2. queue[i + 1] \in Ops /\ queue[i + 1] # o /\ stage[queue[i + 1]] = "queued"
      BY <1>1, <1>2, <3>1 DEF QueueInv
    <3> QED
      BY <1>3, <3>1, <3>2
  <2>4. ASSUME NEW i \in DOMAIN queue', NEW j \in DOMAIN queue', queue'[i] = queue'[j]
        PROVE  i = j
    <3>1. i + 1 \in DOMAIN queue /\ j + 1 \in DOMAIN queue /\ queue[i + 1] = queue[j + 1]
      BY <2>1, <2>4
    <3>2. i + 1 = j + 1
      BY <3>1 DEF QueueInv
    <3> QED
      BY <2>1, <3>2
  <2>5. ASSUME NEW p \in Ops, Live(p)'
        PROVE  \E i \in DOMAIN queue' : queue'[i] = p
    <3>1. p # o /\ Live(p)
      BY <1>3, <2>2, <2>5
    <3>2. PICK j \in DOMAIN queue : queue[j] = p
      BY <3>1 DEF QueueInv
    <3>3. j # 1
      BY <1>1, <3>1, <3>2
    <3>4. j - 1 \in DOMAIN queue' /\ queue'[j - 1] = p
      BY <2>1, <3>2, <3>3
    <3> QED
      BY <3>4
  <2> QED
    BY <2>3, <2>4, <2>5 DEF QueueInv, Live
<1> QED
  BY <1>4, <1>5 DEF Acts

LEMMA ControlActs ==
  ASSUME TypeOK, TypeOK', ControlInv, NEW o \in Ops, Acts(o), Owed(o)
  PROVE  ControlInv'
<1>1. QueueInv'
  BY QueueActs DEF ControlInv
<1>2. GateInv'
  <2>1. drain \notin {"drained", "drained-gated"}
    BY DEF Acts, IsHead, ControlInv, GateInv
  <2> QED
    BY <2>1 DEF Acts, ControlInv, GateInv
<1>3. job' = job /\ Policy' = Policy
  BY DEF Acts, Policy
<1>4. ASSUME NEW p \in Ops, p # o
      PROVE  /\ stage'[p] \in {"new", "queued", "settled"} /\ stage'[p] = stage[p]
             /\ verdict'[p] = verdict[p] /\ retained'[p] = retained[p]
  BY <1>4, OnlyHead DEF Acts, ControlInv, Live
<1>5. JobInv'
  <2> SUFFICES ASSUME NEW p \in Ops
               PROVE  /\ stage'[p] \in Acting => job[p].action # None
                      /\ stage'[p] = "turning" => job[p].target # None
                      /\ stage'[p] \in {"queued", "turning"} /\ job[p].target # None =>
                           HasPhases(Policy)
    BY <1>3 DEF JobInv
  <2>1. CASE p = o
    <3>1. stage'[o] # "queued"
      BY DEF Acts
    <3> QED
      BY <2>1, <3>1 DEF Owed
  <2>2. CASE p # o
    BY <1>4, <2>2 DEF ControlInv, JobInv, Acting
  <2> QED
    BY <2>1, <2>2
<1>6. DecisionInv'
  <2> SUFFICES ASSUME NEW p \in Ops
               PROVE  /\ stage'[p] = "deciding" /\ verdict'[p] = "allow" =>
                           Permitted(job[p].action)'
                      /\ stage'[p] = "turning" /\ verdict'[p] = "allow" =>
                           EvaluatePhaseTransition(Policy, rt, job[p].target)'
    BY DEF DecisionInv
  <2>1. CASE p = o
    BY <2>1 DEF Owed
  <2>2. CASE p # o
    BY <1>4, <2>2
  <2> QED
    BY <2>1, <2>2
<1>7. RunningInv'
  <2> SUFFICES ASSUME NEW p \in Ops, stage'[p] \in {"starting", "running"}
               PROVE  Running(p)'
    BY DEF RunningInv
  <2>1. p = o
    BY <1>4
  <2> QED
    BY <2>1 DEF Owed
<1>8. ChargeInv'
  <2>1. ASSUME NEW p \in Ops, stage'[p] = "deciding"
        PROVE  "tool.called" \in retained'[p]
    <3>1. p = o
      BY <1>4, <2>1
    <3> QED
      BY <2>1, <3>1 DEF Owed
  <2>2. ASSUME NEW p \in Spenders'
        PROVE  Licensed(p)'
    <3>1. CASE p = o
      BY <2>2, <3>1 DEF Owed
    <3>2. CASE p # o
      <4>1. p \in Spenders
        BY <2>2, <3>2 DEF Owed
      <4>2. p \in Ops
        BY <4>1, AttemptFields, Domains DEF Spenders, TypeOK
      <4>3. Licensed(p)
        BY <4>1 DEF ControlInv, ChargeInv
      <4> QED
        BY <1>4, <3>2, <4>2, <4>3 DEF Licensed
    <3> QED
      BY <3>1, <3>2
  <2>3. \A i, j \in Attempted' : attempts'[i].op = attempts'[j].op => i = j
    BY DEF Owed
  <2> QED
    BY <2>1, <2>2, <2>3 DEF ChargeInv
<1> QED
  BY <1>1, <1>2, <1>5, <1>6, <1>7, <1>8 DEF ControlInv
-----------------------------------------------------------------------------
(* The moves of one request.                                               *)

LEMMA Stays ==
  ASSUME TypeOK, NEW o \in Ops, NEW s \in Stages, Goto(o, s)
  PROVE  /\ queue' = queue /\ queue' \in Seq(Ops)
         /\ stage' \in [Ops -> Stages] /\ stage'[o] = s
         /\ \A p \in Ops : p # o => stage'[p] = stage[p]
BY DEF Goto, TypeOK

LEMMA Leaves ==
  ASSUME TypeOK, NEW o \in Ops, IsHead(o), Settle(o)
  PROVE  /\ queue' = Tail(queue) /\ queue' \in Seq(Ops)
         /\ stage' \in [Ops -> Stages] /\ stage'[o] = "settled"
         /\ \A p \in Ops : p # o => stage'[p] = stage[p]
<1>1. queue \in Seq(Ops) /\ queue # << >> /\ stage \in [Ops -> Stages]
  BY DEF TypeOK, IsHead
<1>2. Tail(queue) \in Seq(Ops)
  BY <1>1
<1> QED
  BY <1>1, <1>2 DEF Settle, Stages

LEMMA Retained ==
  ASSUME TypeOK, NEW o \in Ops, NEW k \in Kinds, Retain(o, k)
  PROVE  /\ retained' \in [Ops -> SUBSET Kinds] /\ retained'[o] = retained[o] \cup {k}
         /\ \A p \in Ops : p # o => retained'[p] = retained[p]
BY DEF Retain, TypeOK

LEMMA Judged ==
  ASSUME TypeOK, NEW o \in Ops, NEW v \in {"allow", "deny"},
         verdict' = [verdict EXCEPT ![o] = v]
  PROVE  /\ verdict' \in [Ops -> {"none", "allow", "deny"}] /\ verdict'[o] = v
         /\ \A p \in Ops : p # o => verdict'[p] = verdict[p]
BY DEF TypeOK

LEMMA QuietType ==
  ASSUME TypeOK, queue' \in Seq(Ops), stage' \in [Ops -> Stages],
         verdict' \in [Ops -> {"none", "allow", "deny"}],
         retained' \in [Ops -> SUBSET Kinds], faults' \in 0 .. MaxFaults,
         UNCHANGED << options, now, rt, accepting, job, usage, stopped, drain,
                      attempts, entries, effects >>
  PROVE  TypeOK'
BY DEF TypeOK

(* Steps that only move a request along and retain evidence.               *)
Passes(o) ==
  /\ Acts(o)
  /\ UNCHANGED << verdict, now, rt, attempts, entries, effects >>
  /\ stage'[o] \in {"blocking", "recording", "completing", "snapshotting", "settled"}
  /\ stage[o] \in Paid => stage'[o] \in Paid
  /\ stage'[o] \in Acting => stage[o] \in Acting

Passing(o) ==
  Refuse(o) \/ Block(o) \/ Meter(o) \/ RecordEffect(o) \/ Complete(o) \/ Snapshot(o)
    \/ AppendFails(o)

LEMMA PassingPasses ==
  ASSUME TypeOK, NEW o \in Ops, Passing(o)
  PROVE  TypeOK' /\ Passes(o)
<1>0. /\ faults \in 0 .. MaxFaults /\ verdict \in [Ops -> {"none", "allow", "deny"}]
      /\ retained \in [Ops -> SUBSET Kinds]
  BY DEF TypeOK
<1>1. CASE Refuse(o)
  <2>1. /\ IsHead(o) /\ stage[o] = "deciding" /\ Retain(o, "policy.decision")
        /\ Goto(o, "blocking") /\ "blocking" \in Stages /\ "policy.decision" \in Kinds
        /\ UNCHANGED << options, now, rt, accepting, job, verdict, usage, stopped, drain,
                        attempts, entries, effects, faults >>
    BY <1>1 DEF Refuse, At, history, Stages, Kinds
  <2>2. TypeOK'
    BY <1>0, <2>1, Stays, Retained, QuietType
  <2> QED
    BY <2>1, <2>2, Stays, Retained DEF Passes, Acts, Acting, Paid, Stages
<1>2. CASE Block(o)
  <2>1. /\ IsHead(o) /\ stage[o] = "blocking" /\ Retain(o, "tool.completed")
        /\ Settle(o) /\ "tool.completed" \in Kinds
        /\ UNCHANGED << options, now, rt, accepting, job, verdict, usage, stopped, drain,
                        attempts, entries, effects, faults >>
    BY <1>2 DEF Block, At, history, Kinds
  <2>2. TypeOK'
    BY <1>0, <2>1, Leaves, Retained, QuietType
  <2> QED
    BY <2>1, <2>2, Leaves, Retained DEF Passes, Acts, Acting, Paid
<1>3. CASE Meter(o)
  <2>1. /\ IsHead(o) /\ stage[o] = "metering" /\ Retain(o, "usage.reported")
        /\ Goto(o, "recording") /\ "recording" \in Stages /\ "usage.reported" \in Kinds
        /\ UNCHANGED << options, now, rt, accepting, job, verdict, usage, stopped, drain,
                        attempts, entries, effects, faults >>
    BY <1>3 DEF Meter, At, history, Stages, Kinds
  <2>2. TypeOK'
    BY <1>0, <2>1, Stays, Retained, QuietType
  <2> QED
    BY <2>1, <2>2, Stays, Retained DEF Passes, Acts, Acting, Paid, Stages
<1>4. CASE RecordEffect(o)
  <2>1. /\ IsHead(o) /\ stage[o] = "recording" /\ Retain(o, "effect")
        /\ Goto(o, "completing") /\ "completing" \in Stages /\ "effect" \in Kinds
        /\ UNCHANGED << options, now, rt, accepting, job, verdict, usage, stopped, drain,
                        attempts, entries, effects, faults >>
    BY <1>4 DEF RecordEffect, At, history, Stages, Kinds
  <2>2. TypeOK'
    BY <1>0, <2>1, Stays, Retained, QuietType
  <2> QED
    BY <2>1, <2>2, Stays, Retained DEF Passes, Acts, Acting, Paid, Stages
<1>5. CASE Complete(o)
  <2>1. /\ IsHead(o) /\ stage[o] = "completing" /\ Retain(o, "tool.completed")
        /\ Goto(o, "snapshotting") /\ "snapshotting" \in Stages /\ "tool.completed" \in Kinds
        /\ UNCHANGED << options, now, rt, accepting, job, verdict, usage, stopped, drain,
                        attempts, entries, effects, faults >>
    BY <1>5 DEF Complete, At, history, Stages, Kinds
  <2>2. TypeOK'
    BY <1>0, <2>1, Stays, Retained, QuietType
  <2> QED
    BY <2>1, <2>2, Stays, Retained DEF Passes, Acts, Acting, Paid, Stages
<1>6. CASE Snapshot(o)
  <2>1. /\ IsHead(o) /\ stage[o] = "snapshotting" /\ Retain(o, "runtime.snapshot")
        /\ Settle(o) /\ "runtime.snapshot" \in Kinds
        /\ UNCHANGED << options, now, rt, accepting, job, verdict, usage, stopped, drain,
                        attempts, entries, effects, faults >>
    BY <1>6 DEF Snapshot, At, history, Kinds
  <2>2. TypeOK'
    BY <1>0, <2>1, Leaves, Retained, QuietType
  <2> QED
    BY <2>1, <2>2, Leaves, Retained DEF Passes, Acts, Acting, Paid
<1>7. CASE AppendFails(o)
  <2>1. /\ IsHead(o) /\ Settle(o) /\ faults' \in 0 .. MaxFaults
        /\ UNCHANGED << options, now, rt, accepting, job, verdict, usage, stopped, drain,
                        attempts, entries, effects >>
    <3>1. MaxFaults \in Nat
      BY ExecutionAssumption
    <3> QED
      BY <1>0, <1>7, <3>1 DEF AppendFails
  <2>2. Awaited(o) \in Kinds
    BY DEF Awaited, Kinds
  <2>3. /\ retained' \in [Ops -> SUBSET Kinds] /\ retained[o] \subseteq retained'[o]
        /\ \A p \in Ops : p # o => retained'[p] = retained[p]
    <3>1. CASE Retain(o, Awaited(o))
      <4>1. PICK k \in Kinds : k = Awaited(o)
        BY <2>2
      <4>2. Retain(o, k)
        BY <3>1, <4>1
      <4> QED
        BY <4>2, Retained
    <3>2. CASE UNCHANGED retained
      BY <1>0, <3>2
    <3> QED
      BY <1>7, <3>1, <3>2 DEF AppendFails
  <2>4. TypeOK'
    BY <1>0, <2>1, <2>3, Leaves, QuietType
  <2> QED
    BY <2>1, <2>3, <2>4, Leaves DEF Passes, Acts, Acting, Paid
<1> QED
  BY <1>1, <1>2, <1>3, <1>4, <1>5, <1>6, <1>7 DEF Passing

LEMMA PassingInv ==
  ASSUME Inv, NEW o \in Ops, Passing(o)
  PROVE  Inv'
<1>1. TypeOK' /\ Passes(o) /\ TypeOK /\ ControlInv /\ HistoryInv
  BY PassingPasses DEF Inv
<1>2. Spenders' = Spenders
  BY <1>1 DEF Passes, Spenders, Attempted
<1>3. Owed(o)
  <2>1. /\ stage'[o] \in Acting => job[o].action # None
        /\ stage'[o] \notin {"turning", "deciding", "starting", "running"}
    BY <1>1 DEF Passes, ControlInv, JobInv
  <2>2. \A i, j \in Attempted' : attempts'[i].op = attempts'[j].op => i = j
    BY <1>1 DEF Passes, ControlInv, ChargeInv, Attempted
  <2>3. o \in Spenders' => Licensed(o)'
    <3>1. o \in Spenders => Licensed(o)
      BY <1>1 DEF ControlInv, ChargeInv
    <3>2. retained[o] \subseteq retained'[o] /\ verdict' = verdict
      BY <1>1 DEF Passes, Acts
    <3>3. stage[o] \in Paid => stage'[o] \in Paid
      BY <1>1 DEF Passes
    <3> QED
      BY <1>2, <3>1, <3>2, <3>3 DEF Licensed
  <2> QED
    BY <1>2, <2>1, <2>2, <2>3 DEF Owed
<1>4. ControlInv'
  BY <1>1, <1>3, ControlActs DEF Passes
<1>5. HistoryInv'
  <2>1. now \in Nat
    BY <1>1, OptionFields DEF TypeOK
  <2>2. UNCHANGED << options, rt, attempts, entries, now >>
    BY <1>1 DEF Passes, Acts
  <2> QED
    BY <1>1, <2>1, <2>2, HistoryRests
<1> QED
  BY <1>1, <1>4, <1>5 DEF Inv
-----------------------------------------------------------------------------
(* The steps that decide, charge, run and turn.                            *)

LEMMA EvaluationPermits ==
  ASSUME TypeOK, RateInv, ScopeInv, NEW a, EvaluateRuntime(Policy, rt, a, now)
  PROVE  Permitted(a)
<1>1. InTime
  <2> SUFFICES ASSUME Policy.maxDuration # None, NEW i \in Attempted
               PROVE  attempts[i].at < Policy.maxDuration
    BY DEF InTime
  <2>1. now - 0 < Policy.maxDuration /\ rt.startedAt = 0
    BY DEF EvaluateRuntime, DurationPermits, ScopeInv
  <2>2. Policy.maxDuration \in Nat /\ now \in Nat
    BY OptionFields, PolicyFields DEF TypeOK, Policy, Optional
  <2>3. attempts[i].at \in Nat /\ attempts[i].at <= now
    BY Domains, AttemptFields DEF TypeOK, RateInv
  <2> QED
    BY <2>1, <2>2, <2>3
<1> QED
  BY <1>1 DEF EvaluateRuntime, Permitted

(* What a decision rests on is untouched by a step of its own request.     *)
LEMMA PermittedStill ==
  ASSUME NEW a, Permitted(a), UNCHANGED << options, now, rt, attempts >>
  PROVE  Permitted(a)'
<1>1. Policy' = Policy
  BY DEF Policy
<1>2. InTime'
  BY <1>1 DEF Permitted, InTime, Attempted
<1> QED
  BY <1>1, <1>2 DEF Permitted

LEMMA ProposeInv ==
  ASSUME Inv, NEW o \in Ops, Propose(o)
  PROVE  Inv'
<1>1. TypeOK /\ ControlInv /\ HistoryInv
  BY DEF Inv
<1>2. /\ IsHead(o) /\ stage[o] = "queued" /\ job[o].action # None
      /\ Retain(o, "tool.called") /\ Goto(o, "deciding")
      /\ "deciding" \in Stages /\ "tool.called" \in Kinds
      /\ UNCHANGED << options, now, rt, accepting, job, usage, stopped, drain,
                      attempts, entries, effects, faults >>
  BY DEF Propose, At, history, Stages, Kinds
<1>3. PICK v \in {"allow", "deny"} :
        /\ verdict' = [verdict EXCEPT ![o] = v]
        /\ v = "allow" => EvaluateRuntime(Policy, rt, job[o].action, now)
  <2>1. CASE job[o].action \notin options.forbidden
               /\ EvaluateRuntime(Policy, rt, job[o].action, now)
    <3>1. verdict' = [verdict EXCEPT ![o] = "allow"]
      BY <2>1 DEF Propose
    <3> QED
      BY <2>1, <3>1
  <2>2. CASE ~(job[o].action \notin options.forbidden
                 /\ EvaluateRuntime(Policy, rt, job[o].action, now))
    <3>1. verdict' = [verdict EXCEPT ![o] = "deny"]
      BY <2>2 DEF Propose
    <3> QED
      BY <3>1
  <2> QED
    BY <2>1, <2>2
<1>4. /\ queue' = queue /\ queue' \in Seq(Ops)
      /\ stage' \in [Ops -> Stages] /\ stage'[o] = "deciding"
      /\ \A p \in Ops : p # o => stage'[p] = stage[p]
  BY <1>1, <1>2, Stays
<1>5. /\ retained' \in [Ops -> SUBSET Kinds] /\ retained'[o] = retained[o] \cup {"tool.called"}
      /\ \A p \in Ops : p # o => retained'[p] = retained[p]
  BY <1>1, <1>2, Retained
<1>6. /\ verdict' \in [Ops -> {"none", "allow", "deny"}] /\ verdict'[o] = v
      /\ \A p \in Ops : p # o => verdict'[p] = verdict[p]
  BY <1>1, <1>3, Judged
<1>7. TypeOK'
  <2>1. faults' \in 0 .. MaxFaults
    BY <1>1, <1>2 DEF TypeOK
  <2> QED
    BY <1>1, <1>2, <1>4, <1>5, <1>6, <2>1, QuietType
<1>8. Acts(o)
  BY <1>2, <1>4, <1>5, <1>6 DEF Acts, Stages
<1>9. Owed(o)
  <2>1. v = "allow" => Permitted(job[o].action)'
    <3>1. v = "allow" => Permitted(job[o].action)
      BY <1>1, <1>3, EvaluationPermits DEF HistoryInv
    <3>2. PICK a : a = job[o].action
      OBVIOUS
    <3>3. Permitted(a) => Permitted(a)'
      BY <1>2, PermittedStill
    <3>4. job'[o].action = a
      BY <1>2, <3>2
    <3> QED
      BY <3>1, <3>2, <3>3, <3>4
  <2>2. Spenders' = Spenders
    BY <1>2 DEF Spenders, Attempted
  <2>3. o \notin Spenders
    BY <1>1, <1>2 DEF ControlInv, ChargeInv, Licensed, Paid
  <2>4. \A i, j \in Attempted' : attempts'[i].op = attempts'[j].op => i = j
    BY <1>1, <1>2 DEF ControlInv, ChargeInv, Attempted
  <2> QED
    BY <1>2, <1>4, <1>5, <1>6, <2>1, <2>2, <2>3, <2>4 DEF Owed
<1>10. ControlInv'
  BY <1>1, <1>7, <1>8, <1>9, ControlActs
<1>11. HistoryInv'
  <2>1. now \in Nat
    BY <1>1, OptionFields DEF TypeOK
  <2> QED
    BY <1>1, <1>2, <2>1, HistoryRests
<1> QED
  BY <1>7, <1>10, <1>11 DEF Inv

LEMMA ProposeTransitionInv ==
  ASSUME Inv, NEW o \in Ops, ProposeTransition(o)
  PROVE  Inv'
<1>1. TypeOK /\ ControlInv /\ HistoryInv
  BY DEF Inv
<1>2. /\ IsHead(o) /\ stage[o] = "queued" /\ job[o].target # None
      /\ Goto(o, "turning") /\ "turning" \in Stages
      /\ UNCHANGED << options, now, rt, accepting, job, usage, retained, stopped, drain,
                      attempts, entries, effects, faults >>
  BY DEF ProposeTransition, At, history, Stages
<1>3. PICK v \in {"allow", "deny"} :
        /\ verdict' = [verdict EXCEPT ![o] = v]
        /\ v = "allow" => EvaluatePhaseTransition(Policy, rt, job[o].target)
  <2>1. CASE EvaluatePhaseTransition(Policy, rt, job[o].target)
    <3>1. verdict' = [verdict EXCEPT ![o] = "allow"]
      BY <2>1 DEF ProposeTransition
    <3> QED
      BY <2>1, <3>1
  <2>2. CASE ~EvaluatePhaseTransition(Policy, rt, job[o].target)
    <3>1. verdict' = [verdict EXCEPT ![o] = "deny"]
      BY <2>2 DEF ProposeTransition
    <3> QED
      BY <3>1
  <2> QED
    BY <2>1, <2>2
<1>4. /\ queue' = queue /\ queue' \in Seq(Ops)
      /\ stage' \in [Ops -> Stages] /\ stage'[o] = "turning"
      /\ \A p \in Ops : p # o => stage'[p] = stage[p]
  BY <1>1, <1>2, Stays
<1>5. /\ verdict' \in [Ops -> {"none", "allow", "deny"}] /\ verdict'[o] = v
      /\ \A p \in Ops : p # o => verdict'[p] = verdict[p]
  BY <1>1, <1>3, Judged
<1>6. TypeOK'
  <2>1. faults' \in 0 .. MaxFaults /\ retained' \in [Ops -> SUBSET Kinds]
    BY <1>1, <1>2 DEF TypeOK
  <2> QED
    BY <1>1, <1>2, <1>4, <1>5, <2>1, QuietType
<1>7. Acts(o)
  BY <1>2, <1>4, <1>5 DEF Acts, Stages
<1>8. Owed(o)
  <2>1. v = "allow" => EvaluatePhaseTransition(Policy, rt, job[o].target)'
    <3>1. Policy' = Policy
      BY <1>2 DEF Policy
    <3> QED
      BY <1>2, <1>3, <3>1
  <2>2. Spenders' = Spenders
    BY <1>2 DEF Spenders, Attempted
  <2>3. o \notin Spenders
    BY <1>1, <1>2 DEF ControlInv, ChargeInv, Licensed, Paid
  <2>4. \A i, j \in Attempted' : attempts'[i].op = attempts'[j].op => i = j
    BY <1>1, <1>2 DEF ControlInv, ChargeInv, Attempted
  <2>5. job[o].target # None => HasPhases(Policy)
    BY <1>1, <1>2 DEF ControlInv, JobInv
  <2> QED
    BY <1>2, <1>4, <1>5, <2>1, <2>2, <2>3, <2>4, <2>5 DEF Owed, Acting
<1>9. ControlInv'
  BY <1>1, <1>6, <1>7, <1>8, ControlActs
<1>10. HistoryInv'
  <2>1. now \in Nat
    BY <1>1, OptionFields DEF TypeOK
  <2> QED
    BY <1>1, <1>2, <2>1, HistoryRests
<1> QED
  BY <1>6, <1>9, <1>10 DEF Inv

LEMMA AdmitInv ==
  ASSUME Inv, NEW o \in Ops, Admit(o)
  PROVE  Inv'
<1>0. PICK n \in Nat : n = Len(attempts)
  BY DEF Inv, TypeOK
<1>1. TypeOK /\ ControlInv /\ HistoryInv
  BY DEF Inv
<1>2. /\ IsHead(o) /\ stage[o] = "deciding" /\ verdict[o] = "allow"
      /\ Retain(o, "policy.decision") /\ "policy.decision" \in Kinds
      /\ UNCHANGED << options, now, accepting, job, verdict, usage, stopped, drain,
                      entries, faults >>
      /\ effects' \subseteq effects \cup {o}
  BY DEF Admit, At, Kinds, CallExecutor
<1>3. PICK s \in {"starting", "running"} : Goto(o, s)
  BY DEF Admit
<1>4. job[o].action # None /\ Permitted(job[o].action) /\ "tool.called" \in retained[o]
  BY <1>1, <1>2 DEF ControlInv, JobInv, DecisionInv, ChargeInv, Acting
<1>5. Grows(o)
  BY <1>1, <1>4, AdmitGrows
<1>6. HistoryInv'
  BY <1>1, <1>4, <1>5, HistoryGrows
<1>7. /\ queue' = queue /\ queue' \in Seq(Ops)
      /\ stage' \in [Ops -> Stages] /\ stage'[o] = s
      /\ \A p \in Ops : p # o => stage'[p] = stage[p]
  <2>1. s \in Stages
    BY DEF Stages
  <2> QED
    BY <1>1, <1>3, <2>1, Stays
<1>8. /\ retained' \in [Ops -> SUBSET Kinds]
      /\ retained'[o] = retained[o] \cup {"policy.decision"}
      /\ \A p \in Ops : p # o => retained'[p] = retained[p]
  BY <1>1, <1>2, Retained
<1>9. TypeOK'
  BY <1>1, <1>2, <1>5, <1>7, <1>8 DEF TypeOK, Grows
<1>10. Acts(o)
  BY <1>2, <1>3, <1>7, <1>8 DEF Acts, Stages
<1>11. Attempted = 1 .. n /\ Attempted' = 1 .. n + 1 /\ Len(attempts') = n + 1
  BY <1>0, <1>1, <1>5, Domains DEF TypeOK, Grows, Attempted
<1>12. /\ \A i \in 1 .. n : attempts'[i] = attempts[i]
       /\ attempts'[n + 1] = Fresh(o)
  BY <1>0, <1>5 DEF Grows
<1>13. Fresh(o).op = o
  BY DEF Fresh
<1>14. o \notin Spenders
  BY <1>1, <1>2 DEF ControlInv, ChargeInv, Licensed, Paid
<1>15. Owed(o)
  <2>1. \A i, j \in Attempted' : attempts'[i].op = attempts'[j].op => i = j
    <3> SUFFICES ASSUME NEW i \in 1 .. n + 1, NEW j \in 1 .. n + 1,
                        attempts'[i].op = attempts'[j].op
                 PROVE  i = j
      BY <1>11
    <3>1. \A k \in 1 .. n : attempts'[k].op = attempts[k].op /\ attempts[k].op # o
      BY <1>11, <1>12, <1>14 DEF Spenders
    <3>2. CASE i \in 1 .. n /\ j \in 1 .. n
      BY <1>1, <1>11, <3>1, <3>2 DEF ControlInv, ChargeInv
    <3>3. CASE i = n + 1
      BY <1>12, <1>13, <3>1, <3>3
    <3>4. CASE j = n + 1
      BY <1>12, <1>13, <3>1, <3>4
    <3> QED
      BY <3>2, <3>3, <3>4
  <2>2. Spenders' \subseteq Spenders \cup {o}
    <3>1. \A i \in Attempted' : attempts'[i].op \in Spenders \cup {o}
      <4> SUFFICES ASSUME NEW i \in 1 .. n + 1
                   PROVE  attempts'[i].op \in Spenders \cup {o}
        BY <1>11
      <4>1. CASE i = n + 1
        BY <1>12, <1>13, <4>1
      <4>2. CASE i \in 1 .. n
        BY <1>11, <1>12, <4>2 DEF Spenders
      <4> QED
        BY <4>1, <4>2
    <3>2. effects' \subseteq Spenders \cup {o}
      BY <1>2 DEF Spenders
    <3> QED
      BY <3>1, <3>2 DEF Spenders
  <2>3. Licensed(o)'
    BY <1>2, <1>4, <1>7, <1>8 DEF Licensed, Paid
  <2>4. Running(o)'
    <3>1. /\ attempts' # << >> /\ attempts'[Len(attempts')] = Fresh(o)
      BY <1>11, <1>12
    <3>2. /\ Fresh(o).action = job[o].action /\ Fresh(o).outcome = "pending"
          /\ Fresh(o).reported = None /\ Fresh(o).entry = Len(entries)
      BY DEF Fresh
    <3> QED
      BY <1>2, <1>13, <3>1, <3>2 DEF Running
  <2> QED
    BY <1>4, <1>7, <2>1, <2>2, <2>3, <2>4 DEF Owed
<1>16. ControlInv'
  BY <1>1, <1>9, <1>10, <1>15, ControlActs
<1> QED
  BY <1>6, <1>9, <1>16 DEF Inv
LEMMA StartInv ==
  ASSUME Inv, NEW o \in Ops, StartCommand(o)
  PROVE  Inv'
<1>1. TypeOK /\ ControlInv /\ HistoryInv
  BY DEF Inv
<1>2. /\ IsHead(o) /\ stage[o] = "starting"
      /\ Retain(o, "command.started") /\ "command.started" \in Kinds
      /\ Goto(o, "running") /\ "running" \in Stages
      /\ UNCHANGED << options, now, rt, accepting, job, verdict, usage, stopped, drain,
                      attempts, entries, faults >>
      /\ effects' \subseteq effects \cup {o}
  BY DEF StartCommand, At, Kinds, Stages, CallExecutor
<1>3. /\ queue' = queue /\ queue' \in Seq(Ops)
      /\ stage' \in [Ops -> Stages] /\ stage'[o] = "running"
      /\ \A p \in Ops : p # o => stage'[p] = stage[p]
  BY <1>1, <1>2, Stays
<1>4. /\ retained' \in [Ops -> SUBSET Kinds]
      /\ retained'[o] = retained[o] \cup {"command.started"}
      /\ \A p \in Ops : p # o => retained'[p] = retained[p]
  BY <1>1, <1>2, Retained
<1>5. TypeOK'
  BY <1>1, <1>2, <1>3, <1>4 DEF TypeOK
<1>6. Acts(o)
  BY <1>2, <1>3, <1>4 DEF Acts, Stages
<1>7. Running(o)
  BY <1>1, <1>2 DEF ControlInv, RunningInv
<1>8. Licensed(o)
  <2>1. Len(attempts) \in Attempted
    BY <1>1, <1>7 DEF Running, TypeOK, Attempted
  <2>2. o \in Spenders
    BY <1>7, <2>1 DEF Running, Spenders
  <2> QED
    BY <1>1, <2>2 DEF ControlInv, ChargeInv
<1>9. Owed(o)
  <2>1. Running(o)'
    BY <1>2, <1>7 DEF Running
  <2>2. Licensed(o)'
    BY <1>2, <1>3, <1>4, <1>8 DEF Licensed, Paid
  <2>3. Spenders' \subseteq Spenders \cup {o}
    BY <1>2 DEF Spenders, Attempted
  <2>4. \A i, j \in Attempted' : attempts'[i].op = attempts'[j].op => i = j
    BY <1>1, <1>2 DEF ControlInv, ChargeInv, Attempted
  <2>5. job[o].action # None
    BY <1>1, <1>2 DEF ControlInv, JobInv, Acting
  <2> QED
    BY <1>3, <2>1, <2>2, <2>3, <2>4, <2>5 DEF Owed
<1>10. ControlInv'
  BY <1>1, <1>5, <1>6, <1>9, ControlActs
<1>11. HistoryInv'
  <2>1. now \in Nat
    BY <1>1, OptionFields DEF TypeOK
  <2> QED
    BY <1>1, <1>2, <2>1, HistoryRests
<1> QED
  BY <1>5, <1>10, <1>11 DEF Inv

LEMMA FinishInv ==
  ASSUME Inv, NEW o \in Ops, NEW success \in BOOLEAN, NEW reported \in Reports \cup {None},
         Finish(o, success, reported)
  PROVE  Inv'
<1>0. PICK n \in Nat : n = Len(attempts)
  BY DEF Inv, TypeOK
<1>1. TypeOK /\ ControlInv /\ HistoryInv
  BY DEF Inv
<1>2. /\ IsHead(o) /\ stage[o] = "running"
      /\ usage' = [usage EXCEPT ![o] = reported]
      /\ UNCHANGED << options, now, accepting, job, verdict, retained, stopped, drain,
                      entries, effects, faults >>
  BY DEF Finish, At
<1>3. PICK s \in {"metering", "recording", "completing"} : Goto(o, s)
  BY DEF Finish, AfterOutcome
<1>4. job[o].action # None
  BY <1>1, <1>2 DEF ControlInv, JobInv, Acting
<1>5. Concludes(job[o].action, success, reported)
  BY <1>1, <1>4, FinishConcludes DEF ControlInv
<1>6. HistoryInv'
  BY <1>1, <1>5, HistorySettles
<1>7. /\ queue' = queue /\ queue' \in Seq(Ops)
      /\ stage' \in [Ops -> Stages] /\ stage'[o] = s
      /\ \A p \in Ops : p # o => stage'[p] = stage[p]
  <2>1. s \in Stages
    BY DEF Stages
  <2> QED
    BY <1>1, <1>3, <2>1, Stays
<1>8. TypeOK'
  <2>1. usage' \in [Ops -> Optional(Nat)]
    <3>1. usage \in [Ops -> Optional(Nat)] /\ reported \in Optional(Nat)
      BY <1>1, ExecutionAssumption DEF TypeOK, Optional
    <3> QED
      BY <1>2, <3>1
  <2> QED
    BY <1>1, <1>2, <1>5, <1>7, <2>1 DEF TypeOK, Concludes
<1>9. Acts(o)
  BY <1>2, <1>3, <1>7 DEF Acts, Stages
<1>10. Attempted' = Attempted /\ \A i \in Attempted : attempts'[i].op = attempts[i].op
  BY <1>1, <1>5, Domains DEF TypeOK, Concludes, Attempted
<1>11. Spenders' = Spenders
  BY <1>2, <1>10 DEF Spenders
<1>12. Owed(o)
  <2>1. o \in Spenders => Licensed(o)'
    <3>1. o \in Spenders => Licensed(o)
      BY <1>1 DEF ControlInv, ChargeInv
    <3> QED
      BY <1>2, <1>3, <1>7, <3>1 DEF Licensed, Paid
  <2>2. \A i, j \in Attempted' : attempts'[i].op = attempts'[j].op => i = j
    BY <1>1, <1>10 DEF ControlInv, ChargeInv
  <2> QED
    BY <1>3, <1>4, <1>7, <1>11, <2>1, <2>2 DEF Owed
<1>13. ControlInv'
  BY <1>1, <1>8, <1>9, <1>12, ControlActs
<1> QED
  BY <1>6, <1>8, <1>13 DEF Inv

LEMMA TurnInv ==
  ASSUME Inv, NEW o \in Ops, Turn(o)
  PROVE  Inv'
<1>1. TypeOK /\ ControlInv /\ HistoryInv
  BY DEF Inv
<1>2. /\ IsHead(o) /\ stage[o] = "turning"
      /\ Retain(o, "workflow.transition") /\ "workflow.transition" \in Kinds
      /\ Settle(o)
      /\ UNCHANGED << options, now, accepting, job, verdict, usage, stopped, drain,
                      attempts, effects, faults >>
  BY DEF Turn, At, Kinds
<1>3. /\ queue' = Tail(queue) /\ queue' \in Seq(Ops)
      /\ stage' \in [Ops -> Stages] /\ stage'[o] = "settled"
      /\ \A p \in Ops : p # o => stage'[p] = stage[p]
  BY <1>1, <1>2, Leaves
<1>4. /\ retained' \in [Ops -> SUBSET Kinds]
      /\ retained'[o] = retained[o] \cup {"workflow.transition"}
      /\ \A p \in Ops : p # o => retained'[p] = retained[p]
  BY <1>1, <1>2, Retained
<1>5. IsRuntimeState(rt') /\ entries' \in Seq(Nat \ {0}) /\ HistoryInv'
  <2>1. CASE verdict[o] = "allow"
    <3>1. PICK target : target = job[o].target
      OBVIOUS
    <3>2. HasPhases(Policy) /\ EvaluatePhaseTransition(Policy, rt, target)
      BY <1>1, <1>2, <2>1, <3>1 DEF ControlInv, JobInv, DecisionInv
    <3>3. PICK index : index = PhaseIndexOf(Policy, target)
      OBVIOUS
    <3>4. index \in Nat \ {0}
      BY <1>1, <3>2, <3>3, PhaseFields DEF HistoryInv
    <3>5. rt' = AdvanceRuntimePhase(rt, index) /\ entries' = Append(entries, index)
      BY <2>1, <3>1, <3>3 DEF Turn
    <3>6. Advances(index)
      BY <1>1, <1>2, <3>4, <3>5, PhaseAdvances
    <3>7. HistoryInv'
      BY <1>1, <3>2, <3>3, <3>6, HistoryTurns
    <3> QED
      BY <3>6, <3>7 DEF Advances
  <2>2. CASE verdict[o] # "allow"
    <3>1. UNCHANGED << rt, entries >>
      BY <2>2 DEF Turn
    <3>2. now \in Nat
      BY <1>1, OptionFields DEF TypeOK
    <3>3. HistoryInv'
      BY <1>1, <1>2, <3>1, <3>2, HistoryRests
    <3> QED
      BY <1>1, <3>1, <3>3 DEF TypeOK
  <2> QED
    BY <2>1, <2>2
<1>6. TypeOK'
  BY <1>1, <1>2, <1>3, <1>4, <1>5 DEF TypeOK
<1>7. Acts(o)
  BY <1>2, <1>3, <1>4 DEF Acts
<1>8. Owed(o)
  <2>1. Spenders' = Spenders
    BY <1>2 DEF Spenders, Attempted
  <2>2. o \notin Spenders
    BY <1>1, <1>2 DEF ControlInv, ChargeInv, Licensed, Paid
  <2>3. \A i, j \in Attempted' : attempts'[i].op = attempts'[j].op => i = j
    BY <1>1, <1>2 DEF ControlInv, ChargeInv, Attempted
  <2> QED
    BY <1>3, <2>1, <2>2, <2>3 DEF Owed, Acting
<1>9. ControlInv'
  BY <1>1, <1>6, <1>7, <1>8, ControlActs
<1> QED
  BY <1>5, <1>6, <1>9 DEF Inv

-----------------------------------------------------------------------------
(* Acceptance, draining, the executor's owner and the clock.               *)

LEMMA EnqueueInv ==
  ASSUME Inv, NEW o \in Ops,
         NEW request \in [action : Optional(Actions), target : Optional(PhaseNames)],
         request.target # None => HasPhases(Policy), Enqueue(o, request)
  PROVE  Inv'
<1>0. PICK n \in Nat : n = Len(queue)
  BY DEF Inv, TypeOK
<1>1. TypeOK /\ ControlInv /\ HistoryInv
  BY DEF Inv
<1>2. /\ stage[o] = "new" /\ accepting /\ queue' = Append(queue, o)
      /\ job' = [job EXCEPT ![o] = request]
      /\ stage' = [stage EXCEPT ![o] = "queued"]
      /\ UNCHANGED << options, now, rt, accepting, verdict, usage, retained, stopped, drain,
                      attempts, entries, effects, faults >>
  BY DEF Enqueue, history
<1>3. /\ queue' \in Seq(Ops) /\ DOMAIN queue = 1 .. n /\ DOMAIN queue' = 1 .. n + 1
      /\ \A i \in 1 .. n : queue'[i] = queue[i]
      /\ queue'[n + 1] = o
  <2>1. queue \in Seq(Ops)
    BY <1>1 DEF TypeOK
  <2> QED
    BY <1>0, <1>2, <2>1
<1>4. /\ stage' \in [Ops -> Stages] /\ stage'[o] = "queued"
      /\ \A p \in Ops : p # o => stage'[p] = stage[p]
      /\ job'[o] = request
      /\ job' \in [Ops -> [action : Optional(Actions), target : Optional(PhaseNames)]]
      /\ \A p \in Ops : p # o => job'[p] = job[p]
  BY <1>1, <1>2 DEF TypeOK, Stages
<1>5. TypeOK'
  BY <1>1, <1>2, <1>3, <1>4 DEF TypeOK
<1>6. \A i \in 1 .. n : queue[i] \in Ops /\ queue[i] # o /\ Live(queue[i])
  <2>1. queue \in Seq(Ops)
    BY <1>1 DEF TypeOK
  <2>2. \A i \in 1 .. n : queue[i] \in Ops
    BY <1>3, <2>1
  <2>3. \A i \in 1 .. n : Live(queue[i])
    BY <1>1, <1>3 DEF ControlInv, QueueInv
  <2> QED
    BY <1>2, <2>2, <2>3 DEF Live
<1>7. QueueInv'
  <2>1. ASSUME NEW i \in 1 .. n + 1
        PROVE  /\ stage'[queue'[i]] \notin {"new", "settled"}
               /\ i # 1 => stage'[queue'[i]] = "queued"
    <3>1. CASE i = n + 1
      BY <1>3, <1>4, <3>1
    <3>2. CASE i \in 1 .. n
      <4>1. stage'[queue'[i]] = stage[queue[i]]
        BY <1>3, <1>4, <1>6, <3>2
      <4> QED
        BY <1>1, <1>3, <3>2, <4>1 DEF ControlInv, QueueInv, Live
    <3> QED
      BY <3>1, <3>2
  <2>2. ASSUME NEW i \in 1 .. n + 1, NEW j \in 1 .. n + 1, queue'[i] = queue'[j]
        PROVE  i = j
    <3>1. CASE i \in 1 .. n /\ j \in 1 .. n
      <4>1. queue[i] = queue[j]
        BY <1>3, <2>2, <3>1
      <4> QED
        BY <1>1, <1>3, <3>1, <4>1 DEF ControlInv, QueueInv
    <3>2. CASE i = n + 1
      BY <1>3, <1>6, <2>2, <3>2
    <3>3. CASE j = n + 1
      BY <1>3, <1>6, <2>2, <3>3
    <3> QED
      BY <3>1, <3>2, <3>3
  <2>3. ASSUME NEW p \in Ops, stage'[p] \notin {"new", "settled"}
        PROVE  \E i \in 1 .. n + 1 : queue'[i] = p
    <3>1. CASE p = o
      BY <1>3, <3>1
    <3>2. CASE p # o
      <4>1. PICK i \in 1 .. n : queue[i] = p
        BY <1>1, <1>3, <1>4, <2>3, <3>2 DEF ControlInv, QueueInv, Live
      <4> QED
        BY <1>3, <4>1
    <3> QED
      BY <3>1, <3>2
  <2> QED
    BY <1>3, <2>1, <2>2, <2>3 DEF QueueInv, Live
<1>8. GateInv'
  BY <1>1, <1>2 DEF ControlInv, GateInv
<1>9. Policy' = Policy
  BY <1>2 DEF Policy
<1>10. JobInv'
  <2> SUFFICES ASSUME NEW p \in Ops
               PROVE  /\ stage'[p] \in Acting => job'[p].action # None
                      /\ stage'[p] = "turning" => job'[p].target # None
                      /\ stage'[p] \in {"queued", "turning"} /\ job'[p].target # None =>
                           HasPhases(Policy)
    BY <1>9 DEF JobInv
  <2>1. CASE p = o
    BY <1>4, <2>1 DEF Acting
  <2>2. CASE p # o
    BY <1>1, <1>4, <2>2 DEF ControlInv, JobInv
  <2> QED
    BY <2>1, <2>2
<1>11. DecisionInv'
  <2> SUFFICES ASSUME NEW p \in Ops
               PROVE  /\ stage'[p] = "deciding" /\ verdict'[p] = "allow" =>
                           Permitted(job[p].action)'
                      /\ stage'[p] = "turning" /\ verdict'[p] = "allow" =>
                           EvaluatePhaseTransition(Policy, rt, job[p].target)'
    BY DEF DecisionInv
  <2>1. CASE p = o
    BY <1>4, <2>1
  <2>2. CASE p # o
    <3>1. stage'[p] = stage[p] /\ verdict'[p] = verdict[p] /\ job'[p] = job[p]
      BY <1>2, <1>4, <2>2
    <3>2. PICK a : a = job[p].action
      OBVIOUS
    <3>3. Permitted(a) => Permitted(a)'
      BY <1>2, PermittedStill
    <3>4. stage[p] = "deciding" /\ verdict[p] = "allow" => Permitted(a)
      BY <1>1, <3>2 DEF ControlInv, DecisionInv
    <3>5. stage'[p] = "deciding" /\ verdict'[p] = "allow" => Permitted(job[p].action)'
      BY <3>1, <3>2, <3>3, <3>4
    <3>6. stage[p] = "turning" /\ verdict[p] = "allow" =>
            EvaluatePhaseTransition(Policy, rt, job[p].target)
      BY <1>1 DEF ControlInv, DecisionInv
    <3> QED
      BY <1>2, <1>9, <3>1, <3>5, <3>6
  <2> QED
    BY <2>1, <2>2
<1>12. Spenders' = Spenders /\ \A p \in Spenders : p \in Ops /\ p # o
  <2>1. Spenders' = Spenders
    BY <1>2 DEF Spenders, Attempted
  <2>2. \A p \in Spenders : p \in Ops
    BY <1>1, AttemptFields, Domains DEF TypeOK, Spenders
  <2>3. \A p \in Spenders : stage[p] \in Paid
    BY <1>1 DEF ControlInv, ChargeInv, Licensed
  <2> QED
    BY <1>2, <2>1, <2>2, <2>3 DEF Paid
<1>13. ChargeInv'
  <2>1. \A p \in Ops : stage'[p] = "deciding" => "tool.called" \in retained'[p]
    BY <1>1, <1>2, <1>4 DEF ControlInv, ChargeInv
  <2>2. ASSUME NEW p \in Spenders
        PROVE  Licensed(p)'
    <3>1. stage'[p] = stage[p] /\ Licensed(p)
      BY <1>1, <1>4, <1>12 DEF ControlInv, ChargeInv
    <3> QED
      BY <1>2, <3>1 DEF Licensed
  <2> QED
    BY <1>1, <1>2, <1>12, <2>1, <2>2 DEF ControlInv, ChargeInv, Attempted
<1>14. RunningInv'
  <2> SUFFICES ASSUME NEW p \in Ops, stage'[p] \in {"starting", "running"}
               PROVE  Running(p)'
    BY DEF RunningInv
  <2>1. p # o
    BY <1>4
  <2>2. Running(p)
    BY <1>1, <1>4, <2>1 DEF ControlInv, RunningInv
  <2> QED
    BY <1>2, <1>4, <2>1, <2>2 DEF Running
<1>15. HistoryInv'
  <2>1. now \in Nat
    BY <1>1, OptionFields DEF TypeOK
  <2> QED
    BY <1>1, <1>2, <2>1, HistoryRests
<1> QED
  BY <1>5, <1>7, <1>8, <1>10, <1>11, <1>13, <1>14, <1>15 DEF Inv, ControlInv
(* A decision to permit outlasts the wait for its own append: by then only *)
(* time has passed, and the window holds fewer admissions.                 *)
LEMMA PermittedLater ==
  ASSUME TypeOK, RateInv, NEW a, Permitted(a), UNCHANGED << options, rt, attempts >>,
         now' \in Nat, now <= now'
  PROVE  Permitted(a)'
<1>1. Policy' = Policy
  BY DEF Policy
<1>2. /\ now \in Nat /\ Window(Policy) \in Nat
      /\ Policy.maxActionsPerWindow \in Optional(Nat \ {0})
  BY OptionFields, PolicyFields DEF TypeOK, Policy
<1> DEFINE R == Recent(Policy, rt, now)
           S == Recent(Policy, rt, now')
<1>3. S \in SUBSET R
  <2>1. rt.recentActions \in SUBSET [number : Nat, at : Nat]
    BY StateFields DEF TypeOK, FieldTypes
  <2> QED
    BY <1>2, <2>1 DEF Recent
<1>4. IsFiniteSet(R) /\ Cardinality(R) \in Nat /\ Cardinality(S) \in Nat
  BY RecentSubset DEF Recent
<1> HIDE DEF R, S
<1>5. Cardinality(S) <= Cardinality(R)
  BY <1>3, <1>4, FS_Subset
<1>6. RatePermits(Policy, rt, now')
  <2>1. Policy.maxActionsPerWindow # None => Cardinality(R) < Policy.maxActionsPerWindow
    BY DEF Permitted, RatePermits, R
  <2>2. Policy.maxActionsPerWindow # None => Cardinality(S) < Policy.maxActionsPerWindow
    BY <1>2, <1>4, <1>5, <2>1 DEF Optional
  <2> QED
    BY <2>2 DEF RatePermits, S
<1>7. InTime'
  BY <1>1 DEF Permitted, InTime, Attempted
<1> QED
  BY <1>1, <1>6, <1>7 DEF Permitted

LEMMA IdleInv ==
  ASSUME Inv, TypeOK', GateInv', now' \in Nat, now <= now',
         UNCHANGED << options, rt, queue, job, stage, verdict, retained,
                      attempts, entries, effects >>
  PROVE  Inv'
<1>1. TypeOK /\ ControlInv /\ HistoryInv
  BY DEF Inv
<1>2. Policy' = Policy
  BY DEF Policy
<1>3. QueueInv'
  BY <1>1 DEF ControlInv, QueueInv, Live
<1>4. JobInv'
  BY <1>1, <1>2 DEF ControlInv, JobInv
<1>5. DecisionInv'
  <2> SUFFICES ASSUME NEW p \in Ops
               PROVE  /\ stage'[p] = "deciding" /\ verdict'[p] = "allow" =>
                           Permitted(job[p].action)'
                      /\ stage'[p] = "turning" /\ verdict'[p] = "allow" =>
                           EvaluatePhaseTransition(Policy, rt, job[p].target)'
    BY DEF DecisionInv
  <2>1. PICK a : a = job[p].action
    OBVIOUS
  <2>2. Permitted(a) => Permitted(a)'
    BY <1>1, PermittedLater DEF HistoryInv
  <2>3. stage[p] = "deciding" /\ verdict[p] = "allow" => Permitted(a)
    BY <1>1, <2>1 DEF ControlInv, DecisionInv
  <2>4. job'[p].action = a
    BY <2>1
  <2>5. stage'[p] = "deciding" /\ verdict'[p] = "allow" => Permitted(job[p].action)'
    BY <2>2, <2>3, <2>4
  <2>6. stage[p] = "turning" /\ verdict[p] = "allow" =>
          EvaluatePhaseTransition(Policy, rt, job[p].target)
    BY <1>1 DEF ControlInv, DecisionInv
  <2> QED
    BY <1>2, <2>5, <2>6
<1>6. ChargeInv'
  <2>1. Spenders' = Spenders
    BY DEF Spenders, Attempted
  <2> QED
    BY <1>1, <2>1 DEF ControlInv, ChargeInv, Licensed, Attempted
<1>7. RunningInv'
  BY <1>1 DEF ControlInv, RunningInv, Running
<1>8. HistoryInv'
  BY <1>1, HistoryRests
<1> QED
  BY <1>3, <1>4, <1>5, <1>6, <1>7, <1>8 DEF Inv, ControlInv

LEMMA DrainInv ==
  ASSUME Inv, Drain \/ StopExecutor \/ Tick \/ UNCHANGED vars
  PROVE  Inv'
<1>1. TypeOK /\ GateInv
  BY DEF Inv, ControlInv
<1>2. /\ now \in Nat /\ options.horizon \in Nat /\ now \in 0 .. options.horizon
      /\ accepting \in BOOLEAN /\ stopped \in BOOLEAN /\ drain \in DrainStages
  BY <1>1, OptionFields DEF TypeOK
<1> DEFINE Still == UNCHANGED << options, rt, queue, job, stage, verdict, retained,
                                 attempts, entries, effects >>
<1>3. ASSUME NEW gated \in BOOLEAN, DrainStart(gated)
      PROVE  Inv'
  <2>1. /\ Still /\ UNCHANGED << now, usage, stopped, faults >>
        /\ accepting' = FALSE /\ drain' \in {"draining", "draining-gated"}
    BY <1>3 DEF DrainStart, history
  <2>2. TypeOK'
    BY <1>1, <2>1 DEF TypeOK, DrainStages
  <2>3. GateInv'
    BY <2>1 DEF GateInv
  <2> QED
    BY <1>2, <2>1, <2>2, <2>3, IdleInv
<1>4. CASE DrainEnd
  <2>1. Still /\ UNCHANGED << now, usage, stopped, faults >> /\ queue = << >>
    BY <1>4 DEF DrainEnd, history
  <2>2. drain' \in DrainStages /\ accepting' \in BOOLEAN
    BY <1>2, <1>4 DEF DrainEnd, DrainStages
  <2>3. TypeOK'
    BY <1>1, <2>1, <2>2 DEF TypeOK
  <2>4. ~accepting
    BY <1>1, <1>4 DEF DrainEnd, GateInv
  <2>5. Policy' = Policy
    BY <2>1 DEF Policy
  <2>6. \/ drain' = "drained" /\ accepting' = accepting
        \/ /\ drain' = "drained-gated" /\ accepting' = accepting
           /\ EvaluateRuntimeCompletion(Policy, rt)
        \/ drain' = "refusing"
    BY <1>4 DEF DrainEnd
  <2>7. GateInv'
    BY <2>1, <2>4, <2>5, <2>6 DEF GateInv
  <2> QED
    BY <1>2, <2>1, <2>3, <2>7, IdleInv
<1>5. CASE RefusalThrown
  <2>1. Still /\ UNCHANGED << now, usage, stopped, faults, accepting >> /\ drain' = "open"
    BY <1>5 DEF RefusalThrown, history, control
  <2>2. TypeOK'
    BY <1>1, <2>1 DEF TypeOK, DrainStages
  <2>3. GateInv'
    BY <2>1 DEF GateInv
  <2> QED
    BY <1>2, <2>1, <2>2, <2>3, IdleInv
<1>6. CASE StopExecutor
  <2>1. Still /\ UNCHANGED << now, usage, faults, accepting, drain >> /\ stopped' = TRUE
    BY <1>6 DEF StopExecutor, history, control
  <2>2. TypeOK'
    BY <1>1, <2>1 DEF TypeOK
  <2>3. GateInv'
    BY <1>1, <2>1 DEF GateInv, Policy
  <2> QED
    BY <1>2, <2>1, <2>2, <2>3, IdleInv
<1>7. CASE Tick
  <2>1. /\ Still /\ UNCHANGED << usage, faults, accepting, drain, stopped >>
        /\ now' = now + 1 /\ now < options.horizon
    BY <1>7 DEF Tick, history, control
  <2>2. now' \in 0 .. options.horizon /\ now' \in Nat /\ now <= now'
    BY <1>2, <2>1
  <2>3. TypeOK'
    BY <1>1, <2>1, <2>2 DEF TypeOK
  <2>4. GateInv'
    BY <1>1, <2>1 DEF GateInv, Policy
  <2> QED
    BY <2>1, <2>2, <2>3, <2>4, IdleInv
<1>8. CASE UNCHANGED vars
  <2>1. Still /\ UNCHANGED << now, usage, faults, accepting, drain, stopped >>
    BY <1>8 DEF vars, history, control
  <2>2. TypeOK'
    BY <1>1, <2>1 DEF TypeOK
  <2>3. GateInv'
    BY <1>1, <2>1 DEF GateInv, Policy
  <2> QED
    BY <1>2, <2>1, <2>2, <2>3, IdleInv
<1> QED
  BY <1>3, <1>4, <1>5, <1>6, <1>7, <1>8 DEF Drain

LEMMA RequestInv ==
  ASSUME Inv, NEW o \in Ops, Request(o)
  PROVE  Inv'
<1>1. options \in Sessions
  BY DEF Inv, TypeOK
<1>2. ASSUME NEW a \in options.requests, Run(o, a)
      PROVE  Inv'
  <2> DEFINE request == [action |-> a, target |-> None]
  <2>1. a \in Actions
    BY <1>1, OptionFields
  <2>2. request \in [action : Optional(Actions), target : Optional(PhaseNames)]
    BY <2>1 DEF Optional
  <2>3. request.target = None
    OBVIOUS
  <2>4. Enqueue(o, request)
    BY <1>2 DEF Run
  <2> HIDE DEF request
  <2> QED
    BY <2>2, <2>3, <2>4, EnqueueInv
<1>3. ASSUME NEW p \in PhaseNames, Transition(o, p)
      PROVE  Inv'
  <2> DEFINE request == [action |-> None, target |-> p]
  <2>1. request \in [action : Optional(Actions), target : Optional(PhaseNames)]
    BY DEF Optional
  <2>2. HasPhases(Policy) /\ Enqueue(o, request)
    BY <1>3 DEF Transition
  <2> HIDE DEF request
  <2> QED
    BY <2>1, <2>2, EnqueueInv
<1> QED
  BY <1>2, <1>3 DEF Request

LEMMA StepInv ==
  ASSUME Inv, NEW o \in Ops, Step(o) \/ AppendFails(o)
  PROVE  Inv'
<1>1. CASE Passing(o)
  BY <1>1, PassingInv
<1>2. CASE Propose(o)
  BY <1>2, ProposeInv
<1>3. CASE Admit(o)
  BY <1>3, AdmitInv
<1>4. CASE StartCommand(o)
  BY <1>4, StartInv
<1>5. ASSUME NEW success \in BOOLEAN, NEW reported \in Reports \cup {None},
             Finish(o, success, reported)
      PROVE  Inv'
  BY <1>5, FinishInv
<1>6. CASE ProposeTransition(o)
  BY <1>6, ProposeTransitionInv
<1>7. CASE Turn(o)
  BY <1>7, TurnInv
<1> QED
  BY <1>1, <1>2, <1>3, <1>4, <1>5, <1>6, <1>7 DEF Step, Passing

-----------------------------------------------------------------------------
(* The initial state.                                                      *)

LEMMA InitTypes ==
  ASSUME Init
  PROVE  TypeOK /\ ControlInv
<1>1. IsRuntimeState(rt)
  BY DEF Init, CreateRuntimeState, IsRuntimeState, IsFailureCount
<1>2. now \in 0 .. options.horizon /\ faults \in 0 .. MaxFaults
  BY OptionFields, ExecutionAssumption DEF Init
<1>3. TypeOK
  <2>1. /\ options \in Sessions /\ accepting \in BOOLEAN /\ stopped \in BOOLEAN
        /\ drain \in DrainStages /\ effects \in SUBSET Ops
    BY DEF Init, DrainStages
  <2>4. queue = << >> /\ attempts = << >> /\ entries = << 1 >>
    BY DEF Init
  <2>5. queue \in Seq(Ops) /\ attempts \in Seq(Attempt)
    BY <2>4
  <2>6. entries \in Seq(Nat \ {0})
    BY <2>4
  <2>2. job \in [Ops -> [action : Optional(Actions), target : Optional(PhaseNames)]]
    BY DEF Init, Optional
  <2>3. /\ stage \in [Ops -> Stages] /\ verdict \in [Ops -> {"none", "allow", "deny"}]
        /\ usage \in [Ops -> Optional(Nat)] /\ retained \in [Ops -> SUBSET Kinds]
    BY DEF Init, Stages, Optional
  <2> QED
    BY <1>1, <1>2, <2>1, <2>2, <2>3, <2>5, <2>6 DEF TypeOK
<1>4. Attempted = {} /\ DOMAIN queue = {}
  BY DEF Init, Attempted
<1>5. QueueInv /\ GateInv /\ JobInv /\ DecisionInv /\ RunningInv
  BY <1>4 DEF Init, QueueInv, Live, GateInv, JobInv, Acting, DecisionInv, RunningInv
<1>6. Spenders = {}
  BY <1>4 DEF Init, Spenders
<1>7. ChargeInv
  BY <1>4, <1>6 DEF Init, ChargeInv
<1> QED
  BY <1>3, <1>5, <1>7 DEF ControlInv

LEMMA InitHistory ==
  ASSUME Init
  PROVE  HistoryInv
<1>1. /\ attempts = << >> /\ entries = << 1 >> /\ now = 0 /\ options \in Sessions
      /\ Attempted = {} /\ Len(attempts) = 0
  BY DEF Init, Attempted
<1>2. /\ rt.actions = 0 /\ rt.toolCalls = [t \in Tools |-> 0] /\ rt.successfulTools = {}
      /\ rt.readPaths = {} /\ rt.changedPaths = {} /\ rt.writtenBytes = 0
      /\ rt.tokensCharged = 0 /\ rt.tokenUsageUnknown = FALSE
      /\ rt.failures = [k \in {} |-> 0] /\ rt.consecutiveFailures = 0
      /\ rt.recentActions = {} /\ rt.writeRevision = 0 /\ rt.verifiedRevision = -1
      /\ rt.phaseIndex = 1 /\ rt.startedAt = 0
  BY DEF Init, CreateRuntimeState
<1>3. Cardinality({}) = 0
  BY FS_EmptySet
<1>4. IsPolicy(Policy)
  BY <1>1, OptionFields DEF Policy
<1>5. WriteAttempts = {}
  BY <1>1 DEF WriteAttempts
<1>6. BudgetInv
  <2>1. \A t \in Tools : SpentOn(t) = {}
    BY <1>1 DEF SpentOn
  <2>2. Limited(Policy.maxActions, 0) /\ \A t \in Tools : Limited(Policy.toolQuotas[t], 0)
    BY <1>4, PolicyFields DEF Limited, Optional
  <2>3. AttemptBudget
    BY <1>1, <1>3, <2>1, <2>2 DEF AttemptBudget, SpentOn
  <2> QED
    BY <1>1, <1>2, <1>3, <2>1, <2>3 DEF BudgetInv
<1>7. RetryInv
  <2>1. WritesBefore(0 + 1) = 0
    <3>1. {j \in 1 .. (0 + 1) - 1 : IsWrite(attempts[j].action)} = {}
      OBVIOUS
    <3> QED
      BY <1>3, <3>1 DEF WritesBefore
  <2>2. \A k \in ActionKeys : TimesFailed(k, rt.failures) = 0
    BY <1>2 DEF TimesFailed
  <2>3. \A k \in ActionKeys : FailedWith(k) = {}
    BY <1>1 DEF FailedWith
  <2> QED
    BY <1>1, <1>2, <1>3, <2>1, <2>2, <2>3 DEF RetryInv, RetryBudget
<1>8. BreakerInv
  <2>1. FailuresSinceSuccess(0 + 1) = 0
    <3>1. {j \in 1 .. (0 + 1) - 1 :
             /\ attempts[j].outcome = "failure"
             /\ \A k \in j .. (0 + 1) - 1 : attempts[k].outcome # "success"} = {}
      OBVIOUS
    <3> QED
      BY <1>3, <3>1 DEF FailuresSinceSuccess
  <2> QED
    BY <1>1, <1>2, <2>1 DEF BreakerInv, BreakerHeld
<1>9. RateInv
  BY <1>1, <1>2 DEF RateInv, RateHeld
<1>10. FilesInv
  <2>1. {attempts[i].action.path : i \in WriteAttempts} = {}
    BY <1>5
  <2>2. Limited(Policy.maxChangedFiles, 0)
    BY <1>4, PolicyFields DEF Limited, Optional
  <2> QED
    BY <1>2, <1>3, <2>1, <2>2 DEF FilesInv, FilesHeld
<1>11. ASSUME NEW w
       PROVE  /\ \E f : Totals(f, w, 0)
              /\ \A f : Totals(f, w, 0) => f \in [0 .. 0 -> Nat] /\ f[0] = 0
  <2> DEFINE f == [i \in 0 .. 0 |-> 0]
  <2>1. f = [i \in 0 .. 0 |-> IF i = 0 THEN 0 ELSE f[i - 1] + w[i]]
    BY \A i \in 0 .. 0 : i = 0
  <2>2. Totals(f, w, 0)
    BY <2>1 DEF Totals
  <2>3. ASSUME NEW g, Totals(g, w, 0)
        PROVE  g \in [0 .. 0 -> Nat] /\ g[0] = 0
    <3>1. g = [i \in 0 .. 0 |-> 0]
      BY <2>3, \A i \in 0 .. 0 : i = 0 DEF Totals
    <3> QED
      BY <3>1
  <2> QED
    BY <2>2, <2>3
<1>12. VolumeInv
  <2>1. Limited(Policy.maxWriteBytes, 0)
    BY <1>4, PolicyFields DEF Limited, Optional
  <2> QED
    BY <1>1, <1>2, <1>11, <2>1 DEF VolumeInv
<1>13. TokenInv
  <2>1. \A f : RoomHeld(f)
    BY <1>1 DEF RoomHeld
  <2> QED
    BY <1>1, <1>2, <1>11, <2>1 DEF TokenInv
<1>14. UsageInv
  BY <1>1, <1>2 DEF UsageInv
<1>15. ReadInv
  BY <1>2, <1>5 DEF ReadInv, ReadBeforeWrite
<1>16. WorkflowInv
  <2>1. Len(entries) = 1 /\ DOMAIN entries = {1} /\ entries[1] = 1 /\ entries # << >>
    BY <1>1
  <2>2. SucceededIn(1) = {}
    BY <1>1 DEF SucceededIn
  <2>3. HasPhases(Policy) => 1 \in DOMAIN Policy.phases
    <3>1. Policy.phases \in Seq(WorkflowPhase)
      BY <1>4, PolicyFields
    <3> QED
      BY <3>1 DEF HasPhases
  <2>4. WorkflowHeld
    BY <1>1, <2>1 DEF WorkflowHeld
  <2> QED
    BY <1>1, <1>2, <2>1, <2>2, <2>3, <2>4 DEF WorkflowInv
<1>17. VerifiedInv
  BY <1>2 DEF VerifiedInv
<1>18. ScopeInv
  BY <1>1, <1>2 DEF ScopeInv, DurationHeld, ModelsHeld
<1> QED
  BY <1>6, <1>7, <1>8, <1>9, <1>10, <1>12, <1>13, <1>14, <1>15, <1>16, <1>17, <1>18
     DEF HistoryInv

LEMMA InitInv == Init => Inv
BY InitTypes, InitHistory DEF Inv

LEMMA InvStep == Inv /\ [Next]_vars => Inv'
<1> SUFFICES ASSUME Inv, [Next]_vars
             PROVE  Inv'
  OBVIOUS
<1>1. ASSUME NEW o \in Ops, Request(o) \/ Step(o) \/ AppendFails(o)
      PROVE  Inv'
  BY <1>1, RequestInv, StepInv
<1>2. CASE Drain \/ StopExecutor \/ Tick \/ UNCHANGED vars
  BY <1>2, DrainInv
<1> QED
  BY <1>1, <1>2 DEF Next

(* The counters, the queue and the decisions agree with the history of     *)
(* attempts in every state the interceptor reaches.                        *)
THEOREM Invariance == Spec => []Inv
BY InitInv, InvStep, PTL DEF Spec

-----------------------------------------------------------------------------
(* What the interceptor promises.                                          *)

(* Every variable keeps its type: the interceptor never stores a malformed *)
(* runtime state, request or attempt (contractExecution.ts).               *)
THEOREM TypeCorrect == Spec => []TypeOK
<1>1. Inv => TypeOK
  BY DEF Inv
<1> QED
  BY <1>1, Invariance, PTL

(* Nothing runs or is charged without a retained proposal and a retained   *)
(* allowing decision, no request is charged twice, and the counters agree  *)
(* with the attempts (intercept: propose, decision, admitRuntimeAction).   *)
THEOREM ChargedOnceHolds == Spec => []ChargedOnce
<1>1. Inv => ChargedOnce
  BY DEF Inv, ControlInv, ChargeInv, Spenders, Licensed, HistoryInv, BudgetInv, ChargedOnce
<1> QED
  BY <1>1, Invariance, PTL

(* The running totals that the properties name are the only ones.          *)
LEMMA WrittenTotals ==
  ASSUME TypeOK, VolumeInv
  PROVE  Written[Len(attempts)] = rt.writtenBytes
<1>0. PICK n \in Nat : n = Len(attempts)
  BY DEF TypeOK
<1>1. Attempted = 1 .. n
  BY <1>0, Domains DEF TypeOK
<1> DEFINE Sums(f) ==
      f = [i \in 0 .. Len(attempts) |->
             IF i = 0 THEN 0
             ELSE f[i - 1]
                    + (IF IsWrite(attempts[i].action) THEN attempts[i].action.content ELSE 0)]
<1>2. ASSUME NEW f
      PROVE  Totals(f, Volumes, Len(attempts)) <=> Sums(f)
  <2>1. ASSUME NEW i \in 0 .. n
        PROVE  (IF i = 0 THEN 0 ELSE f[i - 1] + Volumes[i])
                 = (IF i = 0 THEN 0
                    ELSE f[i - 1]
                      + (IF IsWrite(attempts[i].action) THEN attempts[i].action.content ELSE 0))
    BY <1>1 DEF Volumes
  <2> QED
    BY <1>0, <2>1 DEF Totals
<1>3. Written = CHOOSE f : Sums(f)
  BY DEF Written
<1> HIDE DEF Sums
<1>4. \E f : Sums(f)
  BY <1>2 DEF VolumeInv
<1>5. Sums(Written)
  BY <1>3, <1>4
<1> QED
  BY <1>2, <1>5 DEF VolumeInv

LEMMA ChargedTotals ==
  ASSUME TypeOK, TokenInv
  PROVE  RoomHeld(Charged)
<1>0. PICK n \in Nat : n = Len(attempts)
  BY DEF TypeOK
<1>1. Attempted = 1 .. n
  BY <1>0, Domains DEF TypeOK
<1> DEFINE Sums(f) ==
      f = [i \in 0 .. Len(attempts) |->
             IF i = 0 THEN 0 ELSE f[i - 1] + (IF IsModelCall(i) THEN Charge(i) ELSE 0)]
<1>2. ASSUME NEW f
      PROVE  Totals(f, Costs, Len(attempts)) <=> Sums(f)
  <2>1. ASSUME NEW i \in 0 .. n
        PROVE  (IF i = 0 THEN 0 ELSE f[i - 1] + Costs[i])
                 = (IF i = 0 THEN 0
                    ELSE f[i - 1] + (IF IsModelCall(i) THEN Charge(i) ELSE 0))
    BY <1>1 DEF Costs
  <2> QED
    BY <1>0, <2>1 DEF Totals
<1>3. Charged = CHOOSE f : Sums(f)
  BY DEF Charged
<1> HIDE DEF Sums
<1>4. \E f : Sums(f)
  BY <1>2 DEF TokenInv
<1>5. Sums(Charged)
  BY <1>3, <1>4
<1> QED
  BY <1>2, <1>5 DEF TokenInv

(* Every limit of the policy holds of the history of attempts, whatever    *)
(* appends fail, clocks tick and executors answer; of the duration, that   *)
(* one attempt at most, the one decided in time, starts at or past it      *)
(* (evaluateRuntime, admitRuntimeAction, recordRuntimeOutcome).            *)
THEOREM LimitsHold == Spec => []LimitsHeld
<1>1. ASSUME Inv
      PROVE  LimitsHeld
  <2>1. TypeOK /\ HistoryInv
    BY <1>1 DEF Inv
  <2>2. AttemptBudget /\ RetryBudget /\ BreakerHeld /\ RateHeld
    BY <2>1 DEF HistoryInv, BudgetInv, RetryInv, BreakerInv, RateInv
  <2>3. WriteBudget
    BY <2>1, WrittenTotals DEF HistoryInv, FilesInv, FilesHeld, VolumeInv, WriteBudget
  <2>4. TokenBudget
    <3>1. RoomHeld(Charged) /\ UsageInv
      BY <2>1, ChargedTotals DEF HistoryInv
    <3> QED
      BY <3>1 DEF RoomHeld, UsageInv, Known, TokenBudget
  <2>5. DurationHeld /\ ModelsHeld
    BY <2>1 DEF HistoryInv, ScopeInv
  <2> QED
    BY <2>2, <2>3, <2>4, <2>5 DEF LimitsHeld
<1> QED
  BY <1>1, Invariance, PTL

(* Where the policy asks for it, every write follows a successful read of  *)
(* its path (readPaths).                                                   *)
THEOREM ReadBeforeWriteHolds == Spec => []ReadBeforeWrite
<1>1. Inv => ReadBeforeWrite
  BY DEF Inv, HistoryInv, ReadInv
<1> QED
  BY <1>1, Invariance, PTL

(* Attempts use tools of their phase, and a phase is left along the        *)
(* workflow after its prerequisites succeeded within that visit            *)
(* (evaluatePhaseTransition, advanceRuntimePhase).                         *)
THEOREM WorkflowHolds == Spec => []WorkflowHeld
<1>1. Inv => WorkflowHeld
  BY DEF Inv, HistoryInv, WorkflowInv
<1> QED
  BY <1>1, Invariance, PTL

(* A session past the completion gate holds a successful verification that *)
(* follows its last write (evaluateRuntimeCompletion, drain).              *)
THEOREM CompletionVerified == Spec => []VerifiedCompletion
<1>1. ASSUME Inv
      PROVE  VerifiedCompletion
  <2>1. drain = "drained-gated" => EvaluateRuntimeCompletion(Policy, rt)
    BY <1>1 DEF Inv, ControlInv, GateInv
  <2>2. VerifiedInv
    BY <1>1 DEF Inv, HistoryInv
  <2> QED
    BY <2>1, <2>2 DEF EvaluateRuntimeCompletion, VerifiedInv, VerifiedCompletion
<1> QED
  BY <1>1, Invariance, PTL

(* The finalizer works on a session at rest: once drain() has returned     *)
(* nothing is queued or running and nothing is accepted.                   *)
DrainedAtRest ==
  drain \in {"drained", "drained-gated"} =>
    /\ ~accepting
    /\ \A o \in Ops : stage[o] \in {"new", "settled"}

(* Once drain() has returned nothing is queued or running and nothing more *)
(* is accepted.                                                            *)
THEOREM DrainedRests == Spec => []DrainedAtRest
<1>1. ASSUME Inv
      PROVE  DrainedAtRest
  <2>1. drain \in {"drained", "drained-gated"} => ~accepting /\ queue = << >>
    BY <1>1 DEF Inv, ControlInv, GateInv
  <2>2. queue = << >> => \A o \in Ops : ~Live(o)
    BY <1>1 DEF Inv, ControlInv, QueueInv
  <2> QED
    BY <2>1, <2>2 DEF Live, DrainedAtRest
<1> QED
  BY <1>1, Invariance, PTL

-----------------------------------------------------------------------------
(* Refinement: to its owner the interceptor is an ActionGate.              *)

Passable == EvaluateRuntimeCompletion(Policy, rt)
Required == Policy.requireVerificationBeforeComplete

LEMMA GateTypes ==
  ASSUME Inv
  PROVE  Required \in BOOLEAN /\ Passable \in BOOLEAN /\ (~Required => Passable)
<1>1. Required \in BOOLEAN
  BY OptionFields, PolicyFields DEF Inv, TypeOK, Policy, Required
<1> QED
  BY <1>1 DEF Passable, Required, EvaluateRuntimeCompletion

(* A request goes on or settles: what a step of the chain has to show.     *)
LEMMA HeadGoesOn ==
  ASSUME Inv, NEW o \in Ops, IsHead(o), queue' = queue \/ queue' = Tail(queue),
         UNCHANGED << options, accepting, stopped, drain >>,
         effects' = effects \/ (~stopped /\ effects' = effects \cup {o}),
         o \in effects \/ Passable' \in {Passable, FALSE}
  PROVE  Gate!GoOn
<1>1. TypeOK /\ QueueInv /\ ChargeInv
  BY DEF Inv, ControlInv
<1>2. queue \in Seq(Ops) /\ queue # << >> /\ Head(queue) = o /\ stopped \in BOOLEAN
  BY <1>1 DEF TypeOK, IsHead
<1>3. OwnerWork # "idle" /\ (OwnerWork = "doomed" <=> stopped /\ o \notin effects)
  BY <1>2 DEF OwnerWork
<1>4. OwnerWork' \in {"idle", OwnerWork} \cup {w \in {"doomed"} : stopped}
  <2>1. CASE queue' = queue
    BY <1>2, <2>1 DEF OwnerWork
  <2>2. CASE queue' = Tail(queue) /\ stopped
    <3>1. ASSUME Tail(queue) # << >>
          PROVE  Head(Tail(queue)) \notin effects
      <4>1. 2 \in DOMAIN queue /\ Head(Tail(queue)) = queue[2]
        BY <1>2, <3>1
      <4>2. stage[queue[2]] = "queued" /\ queue[2] \in Ops
        BY <1>1, <1>2, <4>1 DEF QueueInv
      <4>3. queue[2] \notin Spenders
        BY <1>1, <4>2 DEF ChargeInv, Licensed, Paid
      <4> QED
        BY <4>1, <4>3 DEF Spenders
    <3> QED
      BY <2>2, <3>1 DEF OwnerWork
  <2>3. CASE queue' = Tail(queue) /\ ~stopped
    BY <1>2, <2>3 DEF OwnerWork
  <2> QED
    BY <1>2, <2>1, <2>2, <2>3
<1>5. Required' = Required
  BY DEF Required, Policy
<1>6. /\ Passable' \in BOOLEAN
      /\ ~Required => Passable'
  BY <1>5, GateTypes DEF Passable, Required, EvaluateRuntimeCompletion
<1>7. OwnerWork = "busy" \/ OwnerWork = "doomed"
  BY <1>2 DEF OwnerWork
<1>8. Passable' \in Gate!Verdicts
  BY <1>3, <1>6, <1>7 DEF Gate!Verdicts, Required, Passable
<1> QED
  BY <1>3, <1>4, <1>5, <1>8 DEF Gate!GoOn, Required, Passable

LEMMA QuietGoesOn ==
  ASSUME Inv, NEW o \in Ops,
         Passing(o) \/ Propose(o) \/ ProposeTransition(o) \/ StartCommand(o)
  PROVE  Gate!GoOn
<1>1. IsHead(o)
  BY DEF Passing, Refuse, Block, Meter, RecordEffect, Complete, Snapshot, AppendFails, Propose,
         ProposeTransition, StartCommand, At
<1>2. queue' = queue \/ queue' = Tail(queue)
  BY DEF Passing, Refuse, Block, Meter, RecordEffect, Complete, Snapshot, AppendFails, Propose,
         ProposeTransition, StartCommand, Goto, Settle
<1>3. UNCHANGED << options, accepting, stopped, drain, rt >>
  BY DEF Passing, Refuse, Block, Meter, RecordEffect, Complete, Snapshot, AppendFails, Propose,
         ProposeTransition, StartCommand
<1>4. effects' = effects \/ (~stopped /\ effects' = effects \cup {o})
  BY DEF Passing, Refuse, Block, Meter, RecordEffect, Complete, Snapshot, AppendFails, Propose,
         ProposeTransition, StartCommand, CallExecutor, history
<1>5. Passable' = Passable
  BY <1>3 DEF Passable, Policy
<1> QED
  BY <1>1, <1>2, <1>3, <1>4, <1>5, HeadGoesOn

LEMMA AdmitGoesOn ==
  ASSUME Inv, NEW o \in Ops, Admit(o)
  PROVE  Gate!GoOn
<1>1. TypeOK /\ JobInv /\ VerifiedInv
  BY DEF Inv, ControlInv, HistoryInv
<1>2. IsHead(o) /\ queue' = queue /\ UNCHANGED << options, accepting, stopped, drain >>
  BY DEF Admit, At, Goto
<1>3. effects' = effects \/ (~stopped /\ effects' = effects \cup {o})
  BY DEF Admit, CallExecutor
<1>4. job[o].action # None
  BY <1>1 DEF JobInv, Admit, At, Acting
<1>5. Charges(job[o].action)
  BY <1>1, <1>4, AdmitGrows DEF Grows
<1>6. /\ rt'.verifiedRevision = rt.verifiedRevision
      /\ rt'.writeRevision = rt.writeRevision \/ rt'.writeRevision = rt.writeRevision + 1
  <2>1. rt.writeRevision \in Nat
    BY <1>1, StateFields DEF TypeOK, FieldTypes
  <2> QED
    BY <1>5, <2>1 DEF Charges
<1>7. rt'.writeRevision = rt.writeRevision + 1 => rt'.verifiedRevision # rt'.writeRevision
  <2>1. rt.writeRevision \in Nat /\ rt.verifiedRevision \in Nat \cup {-1}
    BY <1>1, StateFields DEF TypeOK, FieldTypes
  <2>2. rt.verifiedRevision <= rt.writeRevision
    BY <1>1 DEF VerifiedInv
  <2> QED
    BY <1>6, <2>1, <2>2
<1>8. Passable' \in {Passable, FALSE}
  <2>1. Required' = Required /\ Required \in BOOLEAN
    BY <1>2, GateTypes DEF Required, Policy
  <2>2. Passable <=> (Required => rt.verifiedRevision = rt.writeRevision)
    BY DEF Passable, Required, EvaluateRuntimeCompletion
  <2>3. Passable' <=> (Required => rt'.verifiedRevision = rt'.writeRevision)
    BY <2>1 DEF Passable, Required, EvaluateRuntimeCompletion
  <2>4. Passable \in BOOLEAN /\ Passable' \in BOOLEAN
    BY <2>1, GateTypes DEF Passable, Required, EvaluateRuntimeCompletion
  <2>5. CASE rt'.writeRevision = rt.writeRevision
    BY <1>6, <2>2, <2>3, <2>4, <2>5
  <2>6. CASE rt'.writeRevision = rt.writeRevision + 1 /\ Required
    BY <1>7, <2>3, <2>4, <2>6
  <2>7. CASE ~Required
    BY <2>2, <2>3, <2>4, <2>7
  <2> QED
    BY <1>6, <2>1, <2>5, <2>6, <2>7
<1> QED
  BY <1>2, <1>3, <1>8, HeadGoesOn

LEMMA FinishGoesOn ==
  ASSUME Inv, NEW o \in Ops, NEW success \in BOOLEAN,
         NEW reported \in Reports \cup {None}, Finish(o, success, reported)
  PROVE  Gate!GoOn
<1>1. TypeOK /\ JobInv /\ RunningInv
  BY DEF Inv, ControlInv
<1>2. /\ IsHead(o) /\ queue' = queue /\ stage[o] = "running"
      /\ UNCHANGED << options, accepting, stopped, drain, effects >>
  BY DEF Finish, At, Goto
<1>3. job[o].action # None
  BY <1>1, <1>2 DEF JobInv, Acting
<1>4. Settles(job[o].action, success, reported)
  BY <1>1, <1>3, FinishConcludes DEF Concludes
<1>5. o \in effects \/ Passable' \in {Passable, FALSE}
  <2>1. CASE success
    BY <2>1 DEF Finish, Outcome
  <2>2. CASE ~success
    <3>1. rt'.verifiedRevision = rt.verifiedRevision /\ rt'.writeRevision = rt.writeRevision
      BY <1>4, <2>2 DEF Settles
    <3>2. Passable' = Passable
      BY <1>2, <3>1 DEF Passable, Policy, EvaluateRuntimeCompletion
    <3> QED
      BY <3>2
  <2> QED
    BY <2>1, <2>2
<1> QED
  BY <1>2, <1>5, HeadGoesOn

LEMMA TurnGoesOn ==
  ASSUME Inv, NEW o \in Ops, Turn(o)
  PROVE  Gate!GoOn
<1>1. TypeOK
  BY DEF Inv
<1>2. /\ IsHead(o) /\ queue' = Tail(queue)
      /\ UNCHANGED << options, accepting, stopped, drain, effects >>
  BY DEF Turn, At, Settle
<1>3. rt'.verifiedRevision = rt.verifiedRevision /\ rt'.writeRevision = rt.writeRevision
  <2>1. CASE verdict[o] = "allow"
    <3>1. PICK index : rt' = AdvanceRuntimePhase(rt, index)
      BY <2>1 DEF Turn
    <3>2. IsRecord(rt)
      BY <1>1, StateFields DEF TypeOK
    <3> QED
      BY <3>1, <3>2 DEF AdvanceRuntimePhase, IsRecord, Fields
  <2>2. CASE verdict[o] # "allow"
    BY <2>2 DEF Turn
  <2> QED
    BY <2>1, <2>2
<1>4. Passable' = Passable
  BY <1>2, <1>3 DEF Passable, Policy, EvaluateRuntimeCompletion
<1> QED
  BY <1>2, <1>4, HeadGoesOn

(* A request is let in while the gate is open, stopped or not.             *)
LEMMA EnqueueLetsIn ==
  ASSUME Inv, NEW o \in Ops, NEW request, Enqueue(o, request)
  PROVE  Gate!LetIn
<1>1. TypeOK /\ ChargeInv
  BY DEF Inv, ControlInv
<1>2. /\ accepting /\ stage[o] = "new" /\ queue' = Append(queue, o)
      /\ UNCHANGED << options, rt, accepting, stopped, drain, effects >>
  BY DEF Enqueue, history
<1>3. queue \in Seq(Ops) /\ stopped \in BOOLEAN
  BY <1>1 DEF TypeOK
<1>4. o \notin effects
  <2>1. o \notin Spenders
    BY <1>1, <1>2 DEF ChargeInv, Licensed, Paid
  <2> QED
    BY <2>1 DEF Spenders
<1>5. OwnerWork' = IF stopped /\ OwnerWork # "busy" THEN "doomed" ELSE "busy"
  <2>1. CASE queue = << >>
    <3>1. queue' # << >> /\ Head(queue') = o
      BY <1>2, <1>3, <2>1
    <3> QED
      BY <1>2, <1>3, <1>4, <2>1, <3>1 DEF OwnerWork
  <2>2. CASE queue # << >>
    <3>1. queue' # << >> /\ Head(queue') = Head(queue)
      BY <1>2, <1>3, <2>2
    <3> QED
      BY <1>2, <1>3, <2>2, <3>1 DEF OwnerWork
  <2> QED
    BY <2>1, <2>2
<1>6. Passable' = Passable /\ Required' = Required
  BY <1>2 DEF Passable, Required, Policy
<1> QED
  BY <1>2, <1>5, <1>6 DEF Gate!LetIn, Passable, Required

(* The owner's own steps.                                                  *)
LEMMA OwnerSteps ==
  ASSUME Inv, Drain \/ StopExecutor
  PROVE  Gate!Next
<1>1. TypeOK
  BY DEF Inv
<1>2. stopped \in BOOLEAN /\ accepting \in BOOLEAN /\ queue \in Seq(Ops)
  BY <1>1 DEF TypeOK
<1>3. ASSUME NEW gated \in BOOLEAN, DrainStart(gated)
      PROVE  Gate!DrainStart(gated)
  <2>1. UNCHANGED << options, rt, queue, stopped, effects >>
    BY <1>3 DEF DrainStart, history
  <2>2. OwnerWork' = OwnerWork /\ Passable' = Passable /\ Required' = Required
    BY <2>1 DEF OwnerWork, Passable, Required, Policy
  <2> QED
    BY <1>3, <2>1, <2>2 DEF DrainStart, Gate!DrainStart, Passable, Required
<1>4. CASE DrainEnd
  <2>1. UNCHANGED << options, rt, queue, stopped, effects >> /\ queue = << >>
    BY <1>4 DEF DrainEnd, history
  <2>2. OwnerWork' = OwnerWork /\ Passable' = Passable /\ Required' = Required
        /\ OwnerWork = "idle"
    BY <2>1 DEF OwnerWork, Passable, Required, Policy
  <2>3. \/ drain = "draining" /\ drain' = "drained" /\ UNCHANGED accepting
        \/ drain = "draining-gated" /\ Passable /\ drain' = "drained-gated"
             /\ UNCHANGED accepting
        \/ drain = "draining-gated" /\ ~Passable /\ drain' = "refusing" /\ accepting' = TRUE
    BY <1>4 DEF DrainEnd, Passable
  <2>4. Gate!DrainEnd
    BY <2>1, <2>2, <2>3 DEF Gate!DrainEnd, Passable, Required
  <2> QED
    BY <2>4 DEF Gate!Next
<1>5. CASE RefusalThrown
  <2>1. UNCHANGED << options, rt, queue, accepting, stopped, effects >>
        /\ drain = "refusing" /\ drain' = "open"
    BY <1>5 DEF RefusalThrown, history, control
  <2>2. OwnerWork' = OwnerWork /\ Passable' = Passable /\ Required' = Required
    BY <2>1 DEF OwnerWork, Passable, Required, Policy
  <2>3. Gate!RefusalThrown
    BY <2>1, <2>2 DEF Gate!RefusalThrown, Passable, Required
  <2> QED
    BY <2>3 DEF Gate!Next
<1>6. CASE StopExecutor
  <2>1. UNCHANGED << options, rt, queue, accepting, drain, effects >>
        /\ ~stopped /\ stopped' = TRUE
    BY <1>6 DEF StopExecutor, history, control
  <2>2. Passable' = Passable /\ Required' = Required
    BY <2>1 DEF Passable, Required, Policy
  <2>3. OwnerWork' \in {OwnerWork} \cup {w \in {"doomed"} : OwnerWork = "busy"}
    BY <1>2, <2>1 DEF OwnerWork
  <2>4. Gate!Stop
    BY <2>1, <2>2, <2>3 DEF Gate!Stop, Gate!Stops, Passable, Required
  <2> QED
    BY <2>4 DEF Gate!Next
<1> QED
  BY <1>3, <1>4, <1>5, <1>6 DEF Drain, Gate!Next

LEMMA StepRefines ==
  ASSUME Inv, [Next]_vars
  PROVE  [Gate!Next]_<< Required, accepting, OwnerWork, Passable, stopped, drain >>
<1>1. ASSUME NEW o \in Ops, Request(o)
      PROVE  Gate!Next
  <2>1. \E request : Enqueue(o, request)
    BY <1>1 DEF Request, Run, Transition
  <2>2. Gate!LetIn
    BY <2>1, EnqueueLetsIn
  <2> QED
    BY <2>2 DEF Gate!Next
<1>2. ASSUME NEW o \in Ops, Step(o) \/ AppendFails(o)
      PROVE  Gate!Next
  <2>1. CASE Passing(o) \/ Propose(o) \/ ProposeTransition(o) \/ StartCommand(o)
    BY <2>1, QuietGoesOn DEF Gate!Next
  <2>2. CASE Admit(o)
    BY <2>2, AdmitGoesOn DEF Gate!Next
  <2>3. ASSUME NEW success \in BOOLEAN, NEW reported \in Reports \cup {None},
               Finish(o, success, reported)
        PROVE  Gate!Next
    BY <2>3, FinishGoesOn DEF Gate!Next
  <2>4. CASE Turn(o)
    BY <2>4, TurnGoesOn DEF Gate!Next
  <2> QED
    BY <1>2, <2>1, <2>2, <2>3, <2>4 DEF Step, Passing
<1>3. CASE Drain \/ StopExecutor
  BY <1>3, OwnerSteps
<1>4. ASSUME Tick \/ UNCHANGED vars
      PROVE  UNCHANGED << Required, accepting, OwnerWork, Passable, stopped, drain >>
  <2>1. UNCHANGED << options, rt, queue, accepting, stopped, drain, effects >>
    BY <1>4 DEF Tick, vars, history, control
  <2> QED
    BY <2>1 DEF Required, OwnerWork, Passable, Policy
<1> QED
  BY <1>1, <1>2, <1>3, <1>4 DEF Next

LEMMA InitRefines ==
  ASSUME Inv, Init
  PROVE  Gate!Init
<1>1. Required \in BOOLEAN /\ Passable \in BOOLEAN
  BY GateTypes
<1>2. rt.verifiedRevision = -1 /\ rt.writeRevision = 0
  BY DEF Init, CreateRuntimeState
<1>3. Passable = ~Required
  <2>1. Passable <=> (Required => rt.verifiedRevision = rt.writeRevision)
    BY DEF Passable, Required, EvaluateRuntimeCompletion
  <2>2. rt.verifiedRevision # rt.writeRevision
    BY <1>2
  <2> QED
    BY <1>1, <2>1, <2>2
<1>4. OwnerWork = "idle" /\ accepting = TRUE /\ stopped = FALSE /\ drain = "open"
  BY DEF Init, OwnerWork
<1> QED
  BY <1>1, <1>3, <1>4 DEF Gate!Init, Required, Passable

(* Requests, decisions, executor and store may do what they can: to the    *)
(* owner of a session the interceptor is a gate, with work behind it that  *)
(* is over when drain() returns, a completion that passes only verified,   *)
(* and no verification by what a stopped executor turns away               *)
(* (ContractExecution, drain, evaluateRuntimeCompletion).                  *)
THEOREM Refinement == Spec => ImplementsActionGate
<1>1. Init => Gate!Init
  BY InitInv, InitRefines
<1>2. Inv /\ [Next]_vars
        => [Gate!Next]_<< Required, accepting, OwnerWork, Passable, stopped, drain >>
  BY StepRefines
<1>3. Inv /\ [Next]_vars
        => [Gate!Next]_<< Policy.requireVerificationBeforeComplete, accepting, OwnerWork,
                          EvaluateRuntimeCompletion(Policy, rt), stopped, drain >>
  BY <1>2 DEF Required, Passable
<1> QED
  BY <1>1, <1>3, Invariance, PTL DEF Spec, ImplementsActionGate, Gate!Spec
=============================================================================
