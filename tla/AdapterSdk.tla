------------------------------ MODULE AdapterSdk ------------------------------
(***************************************************************************)
(* The adapter SDK's session (packages/adapter-sdk/src/index.ts): tools    *)
(* run under runTool, Claude Code hooks and Codex notifications mapped to  *)
(* events (vendorAdapters.ts), actions requested with telemetry around     *)
(* them (modelLogger.ts) and provider usage (module ProviderUsage).        *)
(*                                                                         *)
(* Each task is one tool, hook, item or action of the instrumented agent;  *)
(* tasks run concurrently and end with their session.  A request to the    *)
(* supervisor is recorded and answered, refused (the session has ended,    *)
(* the body is too large, the ledger could not write), or fails in         *)
(* transport: then it was not recorded, it was, or it still will be when   *)
(* its sender has gone on.                                                 *)
(***************************************************************************)
EXTENDS ProviderUsage, Sequences, FiniteSets

CONSTANTS
  Tasks,
  Responses      (* the provider responses that are reported                *)

ASSUME SdkAssumption == \A r \in Responses : IsResponse(r)

VARIABLES
  task,      (* each task: how it is reported, where it is, how its         *)
             (* operation went and what its caller was told                 *)
  log,       (* what the ledger has of each task, in order                  *)
  late,      (* records still on their way                                  *)
  ended,     (* the session is over                                         *)
  trace,     (* the logger's span around each action                        *)
  action,    (* each action's execution: requests made, and the reply       *)
  usage      (* what was posted, and of which response                      *)

vars == << task, log, late, ended, trace, action, usage >>

Hows == {"tool", "hook", "item", "notice", "action", "closing"}
Replied == {"none", "pending", "result", "error"}
Spans == {"none", "open", "called", "called twice", "closed", "failed", "reported"}
Kinds == {"called", "success", "failure", "gap", "changed", "notice"}
Successes == {"good", "odd", "cyclic"}
Outcomes == {"none", "bad"} \cup Successes
Answers == {"none", "result", "error"}
Places == {"idle", "calling", "operating", "succeeding", "noting", "changing", "failing",
           "completing", "executing", "over"}

Idle == [how |-> "tool", at |-> "idle", outcome |-> "none", answer |-> "none"]

TypeOK ==
  /\ task \in [Tasks -> [how : Hows, at : Places, outcome : Outcomes, answer : Answers]]
  /\ log \in [Tasks -> Seq(Kinds)]
  /\ late \subseteq Tasks \X Kinds
  /\ ended \in BOOLEAN
  /\ trace \in [Tasks -> Spans]
  /\ action \in [Tasks -> [asked : 0 .. 1, reply : Replied]]
  /\ \A u \in usage : u.response \in Responses /\ u.total \in Nat

Init ==
  /\ task = [t \in Tasks |-> Idle]
  /\ log = [t \in Tasks |-> << >>]
  /\ late = {} /\ ended = FALSE
  /\ trace = [t \in Tasks |-> "none"]
  /\ action = [t \in Tasks |-> [asked |-> 0, reply |-> "none"]]
  /\ usage = {}

-----------------------------------------------------------------------------
Goes(t, at) == task' = [task EXCEPT ![t].at = at]
Answered(t, answer) == task' = [task EXCEPT ![t] = [@ EXCEPT !.at = "over", !.answer = answer]]

Recorded(t, kind) == log' = [log EXCEPT ![t] = Append(@, kind)]

(* POST /v1/sessions/<id>/events succeeds or throws.                       *)
Sends(t, kind) == ~ended /\ Recorded(t, kind) /\ UNCHANGED late

SendFails(t, kind) ==
  \/ UNCHANGED << log, late >>
  \/ ~ended /\ Recorded(t, kind) /\ UNCHANGED late
  \/ ~ended /\ late' = late \cup {<< t, kind >>} /\ UNCHANGED log

(* A record whose sender stopped waiting reaches the ledger, if it may.    *)
Arrives(t, kind) ==
  /\ << t, kind >> \in late
  /\ late' = late \ {<< t, kind >>}
  /\ IF ended THEN UNCHANGED log ELSE Recorded(t, kind)
  /\ UNCHANGED << task, ended, trace, action, usage >>

others == << ended, trace, action, usage >>

(* Something happens in the agent; complete() may be called on its own.    *)
Begin(t) ==
  /\ task[t].at = "idle" /\ usage = {}
  /\ \E how \in Hows, at \in {"calling", "completing"} :
       /\ at = "completing" => how = "closing"
       /\ task' = [task EXCEPT ![t] = [Idle EXCEPT !.how = how, !.at = at]]
  /\ UNCHANGED << log, late, ended, trace, action, usage >>

(* The tool runs.  An "odd" outcome is a good one of its own kind: a       *)
(* result that is not JSON under runTool, an edit of a file under a hook.  *)
(* isJsonCompatible() has no end on a "cyclic" result: it throws.          *)
Operate(t) ==
  /\ task[t].at = "operating"
  /\ \E outcome \in Outcomes \ {"none"} :
       /\ outcome = "cyclic" => task[t].how = "tool"
       /\ task' = [task EXCEPT ![t] =
         [@ EXCEPT !.outcome = outcome, !.at = IF outcome = "bad" THEN "failing" ELSE "succeeding"]]
  /\ UNCHANGED << log, late, ended, trace, action, usage >>

-----------------------------------------------------------------------------
(* runTool().                                                              *)
ToolCalled(t) ==
  /\ task[t].how = "tool" /\ task[t].at = "calling"
  /\ \/ Sends(t, "called") /\ Goes(t, "operating")
     \/ SendFails(t, "called") /\ Answered(t, "error")
  /\ UNCHANGED others

(* What throws in the try is reported as a failure, also when it is the    *)
(* examination of the result or the report of the success.                 *)
ToolSucceeded(t) ==
  /\ task[t].how = "tool" /\ task[t].at = "succeeding"
  /\ \/ /\ task[t].outcome = "cyclic"
        /\ Goes(t, "failing") /\ UNCHANGED << log, late >>
     \/ /\ task[t].outcome # "cyclic" /\ Sends(t, "success")
        /\ IF task[t].outcome = "odd" THEN Goes(t, "noting") ELSE Answered(t, "result")
     \/ task[t].outcome # "cyclic" /\ SendFails(t, "success") /\ Goes(t, "failing")
  /\ UNCHANGED others

ToolNoted(t) ==
  /\ task[t].how = "tool" /\ task[t].at = "noting"
  /\ \/ Sends(t, "gap") /\ Answered(t, "result")
     \/ SendFails(t, "gap") /\ Goes(t, "failing")
  /\ UNCHANGED others

ToolFailed(t) ==
  /\ task[t].how = "tool" /\ task[t].at = "failing"
  /\ Sends(t, "failure") \/ SendFails(t, "failure")
  /\ Answered(t, "error")
  /\ UNCHANGED others

-----------------------------------------------------------------------------
(* ingestHook() for PreToolUse and PostToolUse[Failure], one hook process  *)
(* each, and a Codex item's start and completion: the tool runs whether or *)
(* not the first is recorded, and one that names no tool leaves a gap.     *)
HookCalled(t) ==
  /\ task[t].how \in {"hook", "item"} /\ task[t].at = "calling"
  /\ \E kind \in {"called", "gap"} : Sends(t, kind) \/ SendFails(t, kind)
  /\ Goes(t, "operating")
  /\ UNCHANGED others

(* Mutant: the change is reported whatever became of the completion.       *)
HookSucceededAnyway(t) ==
  /\ task[t].how \in {"hook", "item"} /\ task[t].at = "succeeding"
  /\ \E kind \in {"success", "gap"} :
       /\ Sends(t, kind) \/ SendFails(t, kind)
       /\ IF task[t].how = "hook" /\ task[t].outcome = "odd"
            THEN Goes(t, "changing") ELSE Answered(t, "result")
  /\ UNCHANGED others

(* A completion that was recorded may be followed by the change that a     *)
(* Write, Edit or Delete made; an "odd" outcome is one of those.           *)
HookSucceeded(t) ==
  /\ task[t].how \in {"hook", "item"} /\ task[t].at = "succeeding"
  /\ \E kind \in {"success", "gap"} :
       \/ /\ Sends(t, kind)
          /\ IF task[t].how = "hook" /\ kind = "success" /\ task[t].outcome = "odd"
               THEN Goes(t, "changing") ELSE Answered(t, "result")
       \/ SendFails(t, kind) /\ Answered(t, "error")
  /\ UNCHANGED others

HookFailed(t) ==
  /\ task[t].how \in {"hook", "item"} /\ task[t].at = "failing"
  /\ \E kind \in {"failure", "gap"} :
       \/ Sends(t, kind) /\ Answered(t, "result")
       \/ SendFails(t, kind) /\ Answered(t, "error")
  /\ UNCHANGED others

HookChanged(t) ==
  /\ task[t].how = "hook" /\ task[t].at = "changing"
  /\ \/ Sends(t, "changed") /\ Answered(t, "result")
     \/ SendFails(t, "changed") /\ Answered(t, "error")
  /\ UNCHANGED others

(* Every other hook or notification: events in a row, such as the summary  *)
(* and the lifecycle event of a Stop or the changes of a fileChange item.  *)
Noticed(t) ==
  /\ task[t].how = "notice" /\ task[t].at = "calling"
  /\ \E kind \in {"notice", "changed", "gap"} :
       \/ /\ Sends(t, kind)
          /\ \/ Len(log[t]) = 0 /\ Goes(t, "calling")
             \/ Answered(t, "result")
       \/ SendFails(t, kind) /\ Answered(t, "error")
  /\ UNCHANGED others

(* SessionEnd and thread/closed: a lifecycle event, then complete().       *)
Closing(t) ==
  /\ task[t].how = "closing" /\ task[t].at = "calling"
  /\ \/ Sends(t, "notice") /\ Goes(t, "completing")
     \/ SendFails(t, "notice") /\ Answered(t, "error")
  /\ UNCHANGED others

Completing(t) ==
  /\ task[t].at = "completing"
  /\ \/ ~ended /\ ended' = TRUE /\ Answered(t, "result")
     \/ ended' \in {ended, TRUE} /\ Answered(t, "error")
  /\ UNCHANGED << log, late, trace, action, usage >>

-----------------------------------------------------------------------------
(* ModelLoggerTelemetry.observe() around executeAction().  runOnce() asks  *)
(* the supervisor the first time that it is called.                        *)
Asked(t) == [asked |-> action[t].asked + 1, reply |-> "pending"]

(* Mutant: every call of runOnce() asks the supervisor.                    *)
RunAgain(t) == action' = [action EXCEPT ![t] = Asked(t)]

RunOnce(t) ==
  action' = IF action[t].asked = 0 THEN [action EXCEPT ![t] = Asked(t)] ELSE action

(* The logger opens its span or throws; observe() calls runOnce() itself.  *)
Observe(t) ==
  /\ task[t].how = "action" /\ task[t].at = "calling"
  /\ \E span \in {"open", "reported"} : trace' = [trace EXCEPT ![t] = span]
  /\ RunOnce(t)
  /\ Goes(t, "executing")
  /\ UNCHANGED << log, late, ended, usage >>

(* The logger calls the traced operation, perhaps more than once.          *)
LoggerCalls(t) ==
  /\ trace[t] \in {"open", "called"}
  /\ trace' = [trace EXCEPT ![t] = IF @ = "open" THEN "called" ELSE "called twice"]
  /\ RunOnce(t)
  /\ UNCHANGED << task, log, late, ended, usage >>

LoggerSettles(t) ==
  /\ trace[t] \in {"open", "called", "called twice"}
  /\ \E how \in {"closed", "failed"} : trace' = [trace EXCEPT ![t] = how]
  /\ UNCHANGED << task, log, late, ended, action, usage >>

(* A failure of the logger's own is reported when the operation is over.   *)
Report(t) ==
  /\ trace[t] = "failed" /\ action[t].reply \in {"result", "error"}
  /\ \/ trace' = [trace EXCEPT ![t] = "reported"]
     \/ action[t].reply = "error" /\ trace' = [trace EXCEPT ![t] = "closed"]
  /\ UNCHANGED << task, log, late, ended, action, usage >>

(* POST /v1/sessions/<id>/actions is answered, refused or lost.            *)
Replies(t) ==
  /\ action[t].reply = "pending"
  /\ \E reply \in {"result", "error"} :
       /\ reply = "result" => ~ended
       /\ action' = [action EXCEPT ![t].reply = reply]
  /\ UNCHANGED << task, log, late, ended, trace, usage >>

(* Mutant: the caller is given what the logger's span came to.             *)
ReturnsTelemetry(t) ==
  /\ task[t].at = "executing" /\ trace[t] \in {"closed", "failed", "reported"}
  /\ Answered(t, IF trace[t] = "closed" THEN "result" ELSE "error")
  /\ UNCHANGED << log, late, ended, trace, action, usage >>

Returns(t) ==
  /\ task[t].at = "executing" /\ action[t].reply \in {"result", "error"}
  /\ Answered(t, action[t].reply)
  /\ UNCHANGED << log, late, ended, trace, action, usage >>

-----------------------------------------------------------------------------
(* reportProviderUsage(): the normalized usage is posted, or a gap that    *)
(* says why there is none; a POST that fails is not tried again.  (Bound:  *)
(* one report, apart from the tasks, with which it shares nothing.)        *)
ReportUsage(r) ==
  /\ \A t \in Tasks : task[t].at = "idle"
  /\ usage = {}
  /\ NormalizeProviderUsage(r).ok
  /\ usage' = {[response |-> r, total |-> NormalizeProviderUsage(r).total]}
  /\ UNCHANGED << task, log, late, ended, trace, action >>

-----------------------------------------------------------------------------
Works(t) ==
  \/ Operate(t)
  \/ ToolCalled(t) \/ ToolSucceeded(t) \/ ToolNoted(t) \/ ToolFailed(t)
  \/ HookCalled(t) \/ HookSucceeded(t) \/ HookFailed(t) \/ HookChanged(t)
  \/ Noticed(t) \/ Closing(t) \/ Completing(t)
  \/ Observe(t) \/ Replies(t) \/ Returns(t)

Next ==
  \/ \E t \in Tasks :
       \/ Begin(t)
       \/ Works(t)
       \/ LoggerCalls(t) \/ LoggerSettles(t) \/ Report(t)
       \/ \E kind \in Kinds : Arrives(t, kind)
  \/ \E r \in Responses : ReportUsage(r)

Spec == Init /\ [][Next]_vars

(* The agent's operations return and requests are answered or time out;    *)
(* the logger owes nothing.                                                *)
FairSpec == Spec /\ \A t \in Tasks : WF_vars(Works(t))

-----------------------------------------------------------------------------
Holds(t, kind) == \E i \in DOMAIN log[t] : log[t][i] = kind

(* The ledger is told the truth about a tool, whatever is refused, lost or *)
(* late: a recorded success or change means that the operation succeeded,  *)
(* a change is recorded after its tool's success, and a runTool that       *)
(* resolves has its start, one success and, for a result that could not be *)
(* retained, a gap on record in this order.  A failure recorded of an      *)
(* operation that succeeded comes from runTool, whose report or            *)
(* examination of the result threw, and its caller is told of an error:    *)
(* hooks never record one (runTool, ingestHook, ingestNotification).       *)
RecordsTruthful ==
  \A t \in Tasks :
    /\ Holds(t, "success") => task[t].outcome \in Successes
    /\ task[t].how = "hook" =>
         \A i \in DOMAIN log[t] :
           log[t][i] = "changed" => \E j \in 1 .. i : log[t][j] = "success"
    /\ Holds(t, "failure") /\ task[t].outcome # "bad" =>
         task[t].how = "tool" /\ task[t].answer = "error"
    /\ task[t].how = "tool" /\ task[t].answer = "result" =>
         log[t] = IF task[t].outcome = "odd" THEN << "called", "success", "gap" >>
                  ELSE << "called", "success" >>

(* However the logger behaves, an action is asked of the supervisor once   *)
(* and its caller is told what the supervisor answered: telemetry never    *)
(* replays an action or replaces its result (observe, executeAction).      *)
ActionsRunOnce ==
  \A t \in Tasks : task[t].how = "action" =>
    /\ action[t].asked <= 1
    /\ task[t].answer # "none" => task[t].answer = action[t].reply

(* Whether cache tokens come on top of the input: as the caller's mapping  *)
(* says, or else for Anthropic, named or, without a name, recognized.      *)
CacheIsExtra(r) ==
  IF r.provider = "mapped" THEN r.cacheIsExtra
  ELSE r.provider = "anthropic" \/ (r.provider = "auto" /\ r.mark = "message")

Explained(r, total) ==
  LET c == r.counts
  IN  \/ Has(c.total) /\ total = c.total
      \/ /\ r.provider = "mapped" \/ r.place # "usageMetadata"
         /\ \E input \in {c.input, c.prompt}, output \in {c.output, c.completion} :
              /\ Has(input) /\ Has(output)
              /\ total = input + output + IF CacheIsExtra(r) THEN OrZero(c.cache) ELSE 0

(* Usage that is posted was reported in full by the provider: its own      *)
(* total, or the sum of an input and an output, both present, and of cache *)
(* tokens where CacheIsExtra; Gemini's totals are never computed.  The     *)
(* name that the SDK is given decides over the response: a message of      *)
(* Anthropic's that is reported as OpenAI's is posted without its cache    *)
(* tokens (normalizedUsage, normalizeProviderUsage).                       *)
UsageExplained == \A u \in usage : Explained(u.response, u.total)

(* Whoever uses the SDK is answered, even when the logger never calls      *)
(* back, throws or never settles (request's timeouts, observe).            *)
CallersAnswered == \A t \in Tasks : task[t].at # "idle" ~> task[t].at = "over"
=============================================================================
