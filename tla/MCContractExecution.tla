------------------------ MODULE MCContractExecution ------------------------
(***************************************************************************)
(* Small instances of ContractExecution.  Each policy turns on the rules   *)
(* one run is about and leaves the others absent.                          *)
(***************************************************************************)
EXTENDS ContractExecution, TLC

CONSTANTS p, q, test, lint, m1, m2, ask

OpSymmetry == Permutations(Ops)
WorkspacePaths == {p, q}
WorkspaceCommands == {test, lint}
ModelNames == {m1, m2}

Blank ==
  [kind |-> "command", path |-> None, content |-> 0, command |-> None, model |-> None,
   prompt |-> None, grounded |-> FALSE, reservation |-> None]

ReadOf(f)      == [Blank EXCEPT !.kind = "file.read", !.path = f]
WriteOf(f, n)  == [Blank EXCEPT !.kind = "file.write", !.path = f, !.content = n]
CommandOf(c)   == [Blank EXCEPT !.command = c]
SearchOf(s)    == [Blank EXCEPT !.kind = "knowledge.search", !.prompt = s]
AskOf(m, n, g) == [Blank EXCEPT !.kind = "model.call", !.model = m, !.prompt = ask,
                                !.grounded = g, !.reservation = n]

NoLimits ==
  [phases |-> << >>, maxDuration |-> None, maxTokens |-> None, maxRetries |-> None,
   maxActions |-> None, maxConsecutiveFailures |-> None, maxChangedFiles |-> None,
   maxWriteBytes |-> None, maxActionsPerWindow |-> None, window |-> None,
   toolQuotas |-> [t \in Tools |-> None], requireReadBeforeWrite |-> FALSE,
   requireVerificationBeforeComplete |-> FALSE, allowedModels |-> None]

(* Reads, writes and the completion gate.                                  *)
WritePolicy ==
  [NoLimits EXCEPT !.requireReadBeforeWrite = TRUE, !.maxChangedFiles = 1,
                   !.maxWriteBytes = 3, !.requireVerificationBeforeComplete = TRUE]
WriteActions == {ReadOf(p), ReadOf(q), WriteOf(p, 2), WriteOf(q, 2), CommandOf(test)}

(* The clock, retries and the circuit breaker.                             *)
ClockPolicy ==
  [NoLimits EXCEPT !.maxDuration = 3, !.maxActionsPerWindow = 2, !.window = 2,
                   !.maxRetries = 0, !.maxConsecutiveFailures = 2]
ClockActions == {WriteOf(p, 1), CommandOf(test)}

(* Model calls: tokens, quotas, the model list.                            *)
ModelPolicy ==
  [NoLimits EXCEPT !.maxTokens = 5, !.maxActions = 3, !.allowedModels = {m1},
                   !.toolQuotas = [[t \in Tools |-> None] EXCEPT !["knowledge.search"] = 1]]
ModelActions == {AskOf(m1, 2, FALSE), AskOf(m1, 3, TRUE), AskOf(m2, 1, FALSE), SearchOf(ask)}

(* A workflow whose edit phase may loop back to inspect.                   *)
PhasePolicy ==
  [NoLimits EXCEPT !.phases =
     << [name |-> "inspect", tools |-> {"file.read"}, requires |-> {"file.read"}, next |-> None],
        [name |-> "edit", tools |-> {"file.read", "file.write"}, requires |-> {"file.read"},
         next |-> {"inspect", "verify"}],
        [name |-> "verify", tools |-> {"command"}, requires |-> {}, next |-> None] >>]
PhaseActions == {ReadOf(p), WriteOf(p, 1), CommandOf(test)}

(* Queueing, refusals, stop and failing appends.                           *)
QueuePolicy == [NoLimits EXCEPT !.maxActions = 2, !.requireVerificationBeforeComplete = TRUE]
QueueActions == {CommandOf(test), CommandOf(lint)}

Session(policy, actions, forbidden, horizon) ==
  [runtimePolicy |-> policy, forbidden |-> forbidden, verificationCommands |-> {test},
   requests |-> actions, horizon |-> horizon]

PolicySessions ==
  {Session(WritePolicy, WriteActions, {}, 0), Session(ClockPolicy, ClockActions, {}, 3),
   Session(ModelPolicy, ModelActions, {}, 0), Session(PhasePolicy, PhaseActions, {}, 0)}

QueueSessions == {Session(QueuePolicy, QueueActions, {CommandOf(lint)}, 0)}

AllActions == WriteActions \cup ClockActions \cup ModelActions \cup PhaseActions \cup QueueActions
NoReports == {}
SomeReports == {1, 4}
=============================================================================
