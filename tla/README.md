# Agent Contract Lab: TLA+ specifications

TLA+ models of Agent Contract Lab: the supervisor, the processes it runs, the
clients that drive and follow it; the TLC runs that check them on small
instances; and TLAPS proofs of what the runs show. A definition is a
translation of the source, and `PROJECT.json` names the lines it stands for.
`apps` and `packages` below are directories of the repository.

## The system

A local supervisor (an HTTP server on one Node.js event loop) runs coding
agents' actions under a *contract* and keeps *evidence*, an event log per
session. Clients are a CLI, a VS Code extension, a browser console and an SDK.

| Component | State it keeps | Operations | Interacts with |
|---|---|---|---|
| Runtime policy engine (`packages/policy-engine/src/runtime.ts`) | none: reducers over an immutable `RuntimeState` | admit, record outcome, advance phase; may this action run, this phase be entered, this session complete | called by the interceptor |
| Contract interceptor (`apps/local-supervisor/src/contractExecution.ts`) | promise chain, pending count, gate, `RuntimeState` | run an action, change phase, drain | policy engine, executor, ledger |
| Evidence ledger (`ledger.ts`) | event file and record file per session, record cache, one write chain | create, append, complete, record usage, read | everything that leaves evidence |
| Contract session lifecycle (`service.ts`, `server.ts`) | context per session: executor, timer, completion promise, worktree | complete, cancel, expire, close | interceptor, ledger, git |
| Managed runs (`service.ts` `startRun`, `execute`) | child process, worktree | run a command, capture output, rescue | ledger, git, followers |
| Codex relay (`codexRelay.ts`) | JSON-RPC child, pending requests, totals, timers | start, cancel, finish, shut down, handle notifications | ledger, service |
| Store lock, token, trust registry (`state.ts`, `server.ts`, `main.ts`, `launcher.ts`) | three files and a port | lock, trust, serve, close | several supervisor processes, their starters |
| Contract evaluation (`packages/policy-engine/src/index.ts`) | none | pre-action decision, verdicts over a log | service, CLI |
| Executors, gateway, knowledge (`workspaceActions.ts`, `agentActions.ts`, `modelGateway.ts`, `knowledge.ts`) | child processes, stop flag, index | execute, stop | interceptor |
| Policy console (`apps/policy-console`) | a scenario in progress, current session, policy; a page | start, stop, reset, act, complete, save a policy | SDK |
| Adapter SDK (`packages/adapter-sdk`) | cursor of a follower, spans of a logger | tools, hooks, notifications, logged actions, usage, follow | HTTP API |
| CLI, VS Code extension | a follower, a spawned supervisor | run, watch, start a supervisor | HTTP API |
| Event schema, redaction, pricing, bundles | none | validate, redact, price, hash | ledger, CLI |

What is hard here is not parallelism (there is one thread per process) but what
may happen at every `await`: other requests, timers, a stop, a rejected file
operation, a lost answer, the end of a process. `PROJECT.json` lists these
hazards at their lines, each with the properties that cover it or the reason
why none does.

What makes each component correct:

* policy engine and interceptor: limits hold of what was *attempted*, in any
  interleaving; a decision is on record before its effect; refusals are free;
  completion means the last write was verified;
* ledger: a call takes effect once, between call and answer; records never
  claim more than the log holds; sequence numbers count; a terminal record
  freezes the log;
* lifecycle: a session ends once and at rest whoever ends it; a deadline ends
  it; a refused completion leaves it usable; the store is released at rest;
* managed runs, relay: no process outlives a session that ended by itself, and
  its worktree is gone or its failed removal is on record; one finish ends a
  relay; a silent agent does not keep its session open; usage is not invented;
* clients: a follower is given every event once; a launcher hears the end; what
  an integration records is true and its caller is told; a scenario acts on its
  own session;
* verdicts: only observed evidence proves; a broken rule stays broken;
* host: one owner of the directory, one token, no answered trust lost.

## Modules

| Module | Models |
|---|---|
| `RuntimePolicy` | `runtime.ts`: one predicate per rule of `evaluateRuntime`, one operator per reducer |
| `ActionGate` | what the interceptor promises the session that owns it: the abstract specification |
| `ContractExecution` | `contractExecution.ts`, extends `RuntimePolicy`; implements `ActionGate` |
| `SessionLog` | what the ledger promises its callers: the abstract specification |
| `EvidenceLedger` | `ledger.ts`, one session; implements `SessionLog` |
| `SessionOutcome` | what a session's end promises those who ask for it: the abstract specification |
| `ContractSession` | the contract session's ending in `service.ts` and the close of `server.ts`, over `ActionGate`; implements `SessionOutcome` |
| `RelayEnding` | what a relay promises the service that registered it: the abstract specification |
| `CodexRelay` | `codexRelay.ts` and the parts of `service.ts` that start, cancel and end its session; implements `RelayEnding` |
| `ManagedRun` | `startRun`, `launchRun`, `execute` of `service.ts` |
| `EventFollower` | `followEvents` (SDK), `watch` and `waitForRun` (CLI), `followSessionLog` (extension), `getEvents` |
| `GuardedLaunch` | composes `ManagedRun` and `EventFollower`: a command launched, followed and judged |
| `ContractVerdicts` | `evaluateContract` over a growing log, the Git snapshots of `service.ts` |
| `PolicyConsole` | `controller.mjs`, the page of `public/app.js`, the sessions they drive |
| `ProviderUsage`, `AdapterSdk` | usage normalization; the SDK's wrappers (`index.ts`, `vendorAdapters.ts`, `modelLogger.ts`) |
| `SupervisorHost` | supervisor processes, `state.ts`, `server.ts`, `main.ts`, `launcher.ts`, `ensureRunning`, `supervisorStart` |
| `*Proofs` | theorems |
| `MC*` | constants for TLC |

Operators whose comment starts with "Mutant:" are deliberately wrong versions of
the definition they precede, kept to show which property notices.

**RuntimePolicy.** Arrays used for membership are sets, counting dictionaries
are functions, an action's digest is the tuple it digests. Each rule is a predicate
of its own, so that one can be broken alone.

**ContractExecution.** `queue` is the chain of promises and its length is
`pending` (the counter falls when a request settles). A request's `stage` says
which `await` it stands at; each action is the code from one `await` to the
next. `AppendFails` is the rejection of whichever append is awaited, and may or
may not leave the line behind. The executor is external: it answers success or
failure, failure only once it was stopped. `attempts`, `entries` and `effects`
are history, written where the reducers are called and read only by
properties, which are therefore statements about what was run and never about
the counters of the code under scrutiny.

**EvidenceLedger.** `chain` is `writeTail`; a call is a first task and, for
most operations, a second one that its caller queues when the first is done, so
that other callers' tasks come between. `phase` and `held` are the running
task's progress and the record it works on. `disk` and `lines` survive `Crash`.
A file operation may reject (`AppendLineRejects`, `SaveRejects`). A reader is
outside the chain: the record first, the lines later, and a read that missed
the cache fills it when it resolves (`CacheStored`). `SessionLog` sees the
calls behind the lines and what callers were told, and nothing else.

**ContractSession.** The interceptor is what `ActionGate` says of it: a gate,
accepted work, whether the executor was stopped. An action of a client, the stop
of a cancel or a deadline and the drain of a finalization are `ActionGate`'s own
actions, each joined by what the session does in the same turn. The ledger is
reduced to the session's state and its terminal events. `fin.step` is the `await` the one finalization stands at,
`waiting` are the callers that share its promise, `completion` the caller that
started it. `Reject` is the `catch` of `finishContractSession` together with the
one retry of `expireContractSession`, which runs in the same turn. If `close()`
had joined, it rejects too and `main.ts` exits the process: nothing happens after
that (`Alive`). `RemoveWorktree` may fail: then the worktree stays, the log says so
(`noted`), and the session ends all the same.

**CodexRelay.** Five activities may be suspended at an `await` at once:
`start()`, a cancel, the task at the head of `eventTail`, a finish and an
outside `POST /complete`. Each action carries one of them from the end of an
`await` to its next. `ledger.queue` holds their operations, answered in order
and refused once the session has ended; `FinishRejected` and `CancelRejected`
follow a rejection to whoever handles it, or to nobody, and then the process
ends. `relay.pending` are the requests with a timer, `relay.base` the last
cumulative token count; `agent.used` (history) is what the child really used.

**ManagedRun, EventFollower, GuardedLaunch.** `run.at` is the place in
`startRun` and then in `execute`; `run.rescue` says that the `catch` is running.
The child exits by itself and needs no supervisor; `EndRun` and `OtherCompletes`
are `completeWithUsageGap` for the run and for an outside client, operation by
operation. `tree` may become `"stuck"` when its removal fails, which is recorded
like a removal. A follower's cursor and the positions it was given are compared with
the log itself. `GuardedLaunch` starts following when the launch is answered and
asks for the verdict when it read that the session ended. The processes share
`log` and `session` only, as they do through the HTTP API.

**ContractVerdicts.** A pattern is the set of commands or paths it matches; the
log grows by any event the supervisor, a native agent or an integration may
append, and all eight rules are read at every length. `actual` in a snapshot
(history) is the set of paths that the work tree really differed in.

**PolicyConsole.** Commands of one page interleave at their awaits in the
controller. A request to finish joins the supervisor's finalization or starts
one (`JoinOrStart`, as `ContractSession` does); `job` is the scenario that
`start` leaves running. Any request may be refused, fail or be answered when the
console has stopped waiting, a check and a creation included; a session's `origin`
says whether its creation was answered. The page disables its buttons while a command is
pending, and that is part of what makes the controller safe: see the mutant
`EnabledWhilePending`.

**ProviderUsage, AdapterSdk.** A response is where its usage object is, what marks
its format and its counts by name; each reader takes the names that it knows, so
that a response can be read as another provider's. A task is one operation of the
agent behind one wrapper. Any request may be refused, or its record may be made and
its answer lost, be lost itself, or arrive late (`Arrives`). What `runTool` has in
its `try` may throw: the tool, the examination of its result (`"cyclic"`), the
reports. The logger behind `observe` may call the operation any number of
times, throw or stay silent.

**SupervisorHost.** Processes go from the lock to the port by the steps of
`open()` and `listen()`, any of which may be the last: `Kill` leaves the files.
Three files are read and rewritten in several awaits. Starters probe, spawn and
wait; a window knows its child by `exitCode`.

How the modules fit together. `ContractSession` is built from the actions of
`ActionGate`, which `ContractExecution` is proved to implement. A terminal `record`
refuses all but decisions there, as `RefuseAppend` does in `ContractExecution` and
as the ledgers of `CodexRelay` and `ManagedRun` do, where an operation is answered
at once because `SessionLog`, which `EvidenceLedger` is proved to implement, says
that it takes effect at one moment; that agreement is by reading, not by a check.
`ManagedRun` and `EventFollower` are composed; the others share only the ledger.

## Runs

| Run | Question | Bounds | Distinct states |
|---|---|---|---|
| `exec_policies` | Do all limits, of duration and models too, hold of the attempts? | 4 contracts, 4 requests, 3 ticks, queue of 1 | 420 000 |
| `exec_queue` | Commit, charge and settle under a full queue and a failing append, and is it all an `ActionGate`? | 3 requests, queue of 2, 1 fault | 118 000 |
| `ledger_integrity` | Are record, log and answers consistent across interleavings, a crash and a failure, is every call answered, and is it all a `SessionLog`? | 3 calls, 1 reader, 1 crash, 1 fault | 512 000 |
| `session_ending` | Does a session end once, at rest, with its worktree gone or noted, and on time, and is it a `SessionOutcome`? | 2 clients, 2 faults | 889 000 |
| `relay` | Does one finish end a relay, its agent and its session, whatever races, and is it a `RelayEnding`? | 2 notifications, 1 counter restart, 1 fault or outside completion | 962 000 |
| `launch` | Is a run that is said to have ended whole, its process gone and its worktree accounted for, and is it followed faithfully to its end? | 1 output, 1 incident, 1 resumption, 3 kinds of client, 2 contracts | 1.0 million |
| `verdicts` | What do verdicts say of every log, and how may they change? | 3 events, 2 commands, 2 paths, 2 correlations | 1.5 million |
| `console` | Does a scenario keep its session, and stop end it? | 2 commands at once, 3 sessions, 2 policies | 339 000 |
| `integration` | Is what the SDK records true, and its caller told? | 2 operations at once, responses at every boundary of a count, read as every provider's | 182 000 |
| `host` | One owner, one token, lasting trust? | 3 processes, 2 window commands, 1 shell command, 2 trust requests, 1 fault | 865 000 |
| `ledger_stale_read` | violated: sequence numbers increase (ADR 0004) | 3 calls, 1 reader, 1 clean restart | |
| `verdict_rename` | violated: path rules evaluate what changed (`policy-and-contract-spec.md`) | 2 events, a rename out of a forbidden path | |

Why the bounds are enough.

* *Interceptor.* A queue of 1 in `exec_policies` makes requests run one at a
  time, so what limits see is the order of attempts; no request overtakes or waits
  for another there. The queue's own behaviour is `exec_queue`'s question, and the
  theorems `LimitsHold` and `WorkflowHolds` have a queue of any length. Four requests spend, reach and try past every
  limit of the four contracts. Each contract turns on the rules that read the
  same part of the state: rules are a conjunction, and one that refuses hides
  the rest. `MaxPending` is 32 in the code and nothing depends on the value.
* *Ledger.* A call that is two tasks needs one other call between them to show
  an overtaking; the third is the session's creation. One crash separates
  before and after, one fault meets every file operation in some behaviour.
  The proofs drop all of these bounds.
* *Session.* Two clients, the deadline and the owner make all pairs of enders,
  and two faults let a retry fail too.
* *Relay.* The races are between the single cancel, the single finish, the
  child's exit and at most two queued lines; a token report, a restart of the
  counter and a second report need two lines, and `MaxTokens` is passed by the
  second. A notification appends two events so that something may come between.
* *Launch.* The run is one chain: the interesting cases are where one disturbance
  (a rejected operation, an outside completion or event, a stop) meets it, and a
  follower that fails once and resumes once.
* *Verdicts.* Rules relate a start to its completion and its decision: three
  events. A session's own start and the events of the service change no rule.
  Two values of each set: one that the contract's pattern matches and one not.
* *Console.* A second command is the only one that can interleave with a first;
  three sessions are the first, a replacement, and the replacement of that or one
  whose creation was not answered. Failing requests need no bound.
* *Integration.* Tasks share the session's end only; two show it. Failing requests
  need no bound. A response has at most one usage object, with each count absent,
  malformed or small, at every place, with every mark, read by every reader.
* *Host.* Three processes: an owner, a rival and a successor. Two trust requests
  overlap or do not.

Symmetry is used only where identifiers are compared for equality and no
liveness is checked. `CHECK_DEADLOCK FALSE` is set everywhere: sessions end,
processes exit, bounded environments run out, and callers owe nothing. Every
property has a mutant of the code that its run refutes (`PROJECT.json`).

**Fairness** is stated where a liveness property needs it, per activity, and
only of what the code itself drives:

* `ContractExecution!FairSpec`: each step of a running request, the end of a
  drain and the throw of a refusal; promise reactions always run, file
  operations settle, and commands and model calls are bounded by timeouts
  (`boundedAction`);
* `EvidenceLedger!FairSpec`: the running task of the chain;
* `ContractSession!FairSpec`: the finalization, an accepted action's step, the end
  of the last action behind a closed gate (`ChainEnds`; that all accepted work
  settles is what `EverythingSettles` checks of the interceptor), the append of an
  expiration, and `close` once connections are gone;
* `CodexRelay!FairSpec`: the ledger's answers, the task at the head of
  `eventTail`, and the three kinds of timer (request, duration, grace), which
  is what the code relies on; the agent may stay silent for ever;
* `GuardedLaunch!FairSpec`: the steps of `execute` and the polling client while
  the supervisor runs; `LaunchSettles` excuses a child that never exits;
* `PolicyConsole!FairSpec`: each call's steps, each session's finalization, the
  job; nobody has to click;
* `AdapterSdk!FairSpec`: each task's steps (requests are answered or time out).

No fairness is assumed of agents, clients, deadlines of contract sessions,
signals, crashes or faults.

## Refinement

Four components are shown to implement an abstract specification, each by TLC on
its run and by a theorem for every value of the constants.

`EvidenceLedger!ImplementsSessionLog` states that the ledger implements
`SessionLog` with `log` mapped to the calls behind the lines and `answer` to the
callers' promises. `Call` is `Invoke`, `AppendLine` is `TakeEffect`, the `Save`
that ends a call is `Return`, a task that throws is `Fail`, `Crash` is `Restart`,
and everything else (queueing the second task, readers, the cache) stutters. So
whatever two-task operations, rejected writes and restarts do, a call leaves at
most one line, leaves it before its answer, and an answered one has it. It is
checked by `ledger_integrity` and proved in `EvidenceLedgerProofs`.

`ContractSession!ImplementsSessionOutcome` states that a contract session
implements `SessionOutcome`, with `record` as the outcome, `expired` as the passed
deadline and the progress of `close` as the owner's answer. `AppendEnding` is
`Write`; `SaveEnding` is `Decide`; either may reject and yet take effect; a
finalization that throws otherwise is `Fail`; requests are `Ask` and `Close`; all
else stutters. So although callers share, join and restart finalizations, an
ending is written and decided only for someone who waits at that moment or for
the deadline: a request that was told of a failure cannot end the session later,
and an expired session is never completed. The outcome never changes, all who
wait are told the same, and nobody is told "ok" of a session that still runs. It is checked by
`session_ending` and proved in `ContractSessionProofs`.

`ContractExecution!ImplementsActionGate` states that the interceptor implements
`ActionGate`, with the chain as `work` (idle, busy, or doomed once only a stopped
executor is left for it) and the completion gate's answer as `verified`. An accepted
request is `LetIn`, every `await` of one is `GoOn`; the rules, the charges and the
decisions on record are out of sight. What the owner of an interceptor relies on
remains: nothing is let in through a closed gate; a drain returns only when nothing
is left, and gated only if the session is verified at that moment; what a stopped
executor turns away verifies nothing; a refusal opens the gate again, however the
store fails. It is checked by `exec_queue` and proved in `ContractExecutionProofs`.
`ContractSession` is built from the same actions, so what `session_ending` and its
proofs say of a session holds over whatever the real queue does.

`CodexRelay!ImplementsRelayEnding` states that a relay implements `RelayEnding`.
Its grounds for ending are a start that failed (`StartAs` of `relay.start`), what
the agent said of its turn and its exit (`Ends` of the tail), and a cancel whose
record was stored (`CancelAs`). `Decide` is the beginning of `finish()`: it takes
one ground that is there, sets the state and signals the agent. `Write` and
`Release` are the two operations of `completeWithUsageGap` that are visible, the
latter together with the removal from `codexRelays`; replies, notifications, usage
and rejected operations lose grounds or stutter. So whichever of cancel, exit,
`turn/completed`, request timeout, grace period and outside completion comes
first, the relay decides once and for a reason it has; no agent runs or is spawned
after that; one ending is written unless somebody else completes the session too;
and a relay is forgotten only with its record. It is checked by `relay` and proved
in `CodexRelayProofs`.

## Disagreements

Two runs exhibit code that does not do what a document says:

* `ledger_stale_read`: after a restart, `getSession` started by a client reads
  the record file, an append advances the record, and then the read resolves
  and caches the old record: the next event repeats a sequence number. With
  one supervisor process the cache is never empty and `SequenceIsPosition`
  holds, which is why its statement says so. A crash between the append of
  a line and the rename of its record leads to the same duplicate.
* `verdict_rename`: `changedPaths` cuts three characters off every field of
  `git status -z`, the old name of a rename included, which has no status
  code. A forbidden file that was moved away is reported under a mangled name,
  and `paths.deny` passes. The move *into* a forbidden path is noticed, which
  is why `verdicts` uses that one.

Met while modelling, visible in the models as steps, not kept as runs:

* `complete` is two tasks, so an event queued between them follows the terminal
  one (`ledger.ts:271`; ADR 0004:18 allows decisions only). After the second
  task nothing else follows (`TerminalFrozen`).
* A cancel that joins a completion in flight ends with the session completed,
  or still open if that completion is refused (`service.ts:883`;
  `docs/runtime-policies.md:126`).
* `close()` that joins a completion which is then refused rejects before the
  store lock is released (`service.ts:413`), and `main.ts:37-40` exits the process:
  the session stays running on disk and its deadline is forgotten. `ExpiryEnds` is
  about a process that goes on.
* A worktree that git does not remove stays behind an ended session, as ADR 0005:25
  admits, with the failure on record. The removal is tried again when a finalization
  is, so the removal of a worktree that is already gone is recorded as a failure.
* A required command that was never started is `fail` when any other command
  was observed (`policy-engine/src/index.ts:385`), where
  `docs/policy-and-contract-spec.md:50` has missing results unknown; `Require`
  models the code.
* A single observed `file.changed` without any snapshot lets `paths.deny` pass;
  changes that were committed in the work tree are not in `git status`.
* A stale lock needs an operator (`RemoveStaleLock`), as ADR 0004 says and
  `docs/local-first-cli-architecture.md:107` does not; sessions that a restart
  finds running stay running (the same document, 869).
* `ensureRunning` looks at `exitCode`, which stays null for a child that a
  signal killed: that window starts no second one (`supervisorRuntime.ts:74`).
* Trust requests that overlap may lose an entry; `AnsweredTrustLasts` is about
  those that did not.
* A rejected append in a cancel that the duration timer called, or in a finish
  that the grace timer called, is handled by nobody and ends the process; the
  exit after `close()` does not wait for the grace period of a relay; `close()`
  neither stops nor waits for managed runs.
* An outside completion of a managed run leaves its worktree; a rejection at
  the end of `execute` records `process.failed` after the process's own outcome.
* `runTool` reports a failure of a tool that succeeded, and tells its caller
  (`RecordsTruthful`), when the report of the success is refused or its answer
  lost, and when `isJsonCompatible` throws at a cyclic result (`index.ts:403`); the
  comment above (`index.ts:394-398`) has a gap recorded of unsupported values.
* A response that is named after another provider than its own is read all the
  same where names are shared: an Anthropic message named as OpenAI's is posted
  without its cache tokens (`usage.ts:155-156`; `CacheIsExtra`).
* `newSession` sets `activePolicy` before it asks for the session
  (`controller.mjs:89`): if the creation is refused or fails, the console shows
  the new policy over the old session, which has ended by then. `ActivePolicyEnforced`
  is about a session that runs.
* The relay compares the child's counter, not the recorded total, with
  `maxTokens`, so a child that restarts its counter may use more in total.

## Proofs

All theorems hold for every value of the constants: any number of clients,
calls, readers, processes, requests, crashes and faults. The only assumptions
are the named ones of the component's module, which TLC evaluates in the runs.
In each module `InitInv` and `StepInv` show an invariant `Inv` inductive, with one
lemma per part and one step per action, and the theorems follow by PTL.

**`ContractSessionProofs`**: the type invariant, the three safety invariants of
`session_ending`, and that no expired session ends completed. None but the type
invariant is inductive; `Inv` adds:

* `DeadlineInv`: the timer has fired exactly if the session is expired, is not
  armed once a drain was accepted, and an expired session is not about to be
  recorded as completed;
* `RestInv`: from an accepted drain on the executor is idle behind a closed
  gate, and the context is dropped only after the record says the session ended;
* `EndingInv`: while the store works, each step of the finalization has left
  exactly what the code wrote by then (executor stopped, worktree gone or its
  failed removal noted, event appended);
* `RefusalInv`: outside a drained finalization the timer has not been cleared
  and the gate is open unless a finalization closed it.

`FinishFacts` and `RejectFacts` say once what starting, joining and failing a
finalization do.

`Refinement`, `Spec => ImplementsSessionOutcome`, needs `OutcomeInv` besides: who
is in `waiting` is exactly who waits; the starter of a finalization is among them
and its state is what that starter asked for, or an interruption once the deadline
passed; the record says "running" until the last step, and then the log ends with
the state to record. `StarterDue` and
`EveryoneTold` are its two promises at the step that decides, `ImplementsStep` the
step by step mapping.

The module also extends `ContractVerdicts`, whose variables are its own, and its
last part is about the verdicts on a session, under `VerdictAssumption`.
`EvidenceGrows`, `DecisionsStand`, `ChangesGrow` and `NoEvidence` say what one
more event does to the sets that the rules read. From them follow:

* `DeclaredProvesNothingHolds` and `VerdictsStandHolds`, the two action properties
  of the run `verdicts`, each rule by rule;
* `OnlyMovesOverlookedHolds`: path rules that pass overlook nothing but sources of
  moves. `SnapshotsWhole` is its invariant: a full snapshot's paths name all that
  the work tree differed in, except sources of moves, which `changedPaths` cuts;
* `ForbiddenChangesConvictedHolds`, the invariant of `verdicts`, from it, where moves
  leave only paths that the contract allows, as in that run. The hypothesis is needed: the run
  `verdict_rename` moves a denied path away and refutes the property.

**`EvidenceLedgerProofs`**: `SequenceIsPosition`, `RecordBacked` (a record is
never ahead of the log, nor terminal without its event), `TerminalAnswerComplete`,
`UsageAccounted` and the action property `TerminalFrozen`. Each says something
about one task that is only true because of what other tasks did before, so
`Inv` adds:

* `QueueInv`: a call has one queued task at most and is not yet answered, so a
  task that runs speaks for the request its caller is waiting on;
* `FreshInv`, `CreationInv`: a session is created once, and until its record is
  stored only that creation is queued and the log is empty. Without it a second
  `createSession` would reset the count;
* `CountInv`: no copy of the record, be it stored, cached, worked on or held by
  a reader, counts an event that is not in the log. A stale copy counts too few,
  never too many;
* `BackedInv`: no copy is terminal, and no completion is about to store a
  terminal state, before the log has the event;
* `AnswerInv`: so the record a reader has read is backed, and an answer with a
  terminal record, given before or after any restart, contains the ending;
* `NumberInv`, `FrozenInv`: until the first restart the cache is the newest
  copy, counts the log exactly, and is the record a running task works on; no
  reader is loading a record that it could put back. This is what a restart
  breaks, and `ledger_stale_read` shows how.

`UsageAccounted` compares a total that two tasks keep with the sum of what the
log says. `AccountInv`, inductive relative to `Inv`, has

* `LineInv`: a call has left one line at most, with the tokens it was asked to
  record, so a report is summed once and for what it said;
* `UsageInv`: no copy of the record has more than the reports whose second task
  is over; while nothing crashed or was rejected the cache has exactly those;
* `Summable`: the recursive totals over the log exist for every set of calls
  left out, and grow with it. The totals of a longer log, or with one call less
  left out, are given from the old ones, line by line; no induction over data
  is needed.

The module ends with the refinement, `Spec => ImplementsSessionLog`. The mapping
needs one more invariant, `EffectInv`: a queued task's call has its line exactly
if the task is behind it (it is the append that stores its record, or a second
task that saves), and a call that was not made has none. `EffectStep` shows it
inductive relative to `Inv`; `AbstractStep` then shows that each action is one
abstract step or a stutter. It is what makes `TakeEffect`'s "not yet in the log"
and `Return`'s "in the log" true.

**`SupervisorHostProofs`**: the three invariants of `host`. `Inv` adds:

* `LockInv`: the owner of the open directory is in the lock file, nobody who
  has not got that far is, and a lock without a live owner follows a fault;
* `ChildInv`: of the processes a window spawned only its last may be alive,
  because a new one is spawned only over one that left with an exit code;
* `TokenInv`: a process that generated a token goes by its own until it is
  stored, and from then on by the stored one. It rests on `LockInv`: only the
  owner stores;
* `TrustInv`: requests in progress together know of each other, and one about to
  write has read every answered workspace that nobody else was trusting.

**`CodexRelayProofs`**: the two invariants of `relay`, `FinishedAgentStopped` and
`UsageNotInvented`; `EndedByOneFinish`, which is stated here; and the refinement.
`Inv` adds:

* `AnnounceInv`: until the announcement is answered it is the oldest operation,
  no child was spawned and no grace period runs, so no finish can begin before;
* `FinishInv`: the queue holds at most one operation of `finish()`, of the finish
  in progress, and, with no outside completion, it is the record exactly if the
  ending is already in the log;
* `EndingInv`: with no outside completion the session ends only by the finish
  that is done, in its state;
* `WaitInv`: the tail and a cancel wait for one operation at a time, and a
  cancel or a finish that the tail's task called holds that task: no answer
  resumes an activity that was waiting for another one;
* `TailInv`: the task at the head is of the kind that what it waits for needs: a
  failure recorded for the agent's exit is still at its head.

Each action is shown to be one of four kinds of steps (`QuietStep`,
`FinishBegins`, `FinishAdvances`, `HttpStep`), and each kind to keep the first
three; `Waits` gives `WaitInv` from what an action does to the queue and to the
activity it resumes.

For `UsageNotInvented` each report on the tail is dated by what the agent had
used when it was made. `ReportInv` says that there are such dates, in order, and
that what a report leaves out of its date, because the counter restarted before
it, never decreases from the last report handled over the queued ones to the
agent's counter now. The difference of two counts is then at most what was used
between them, restarts or not, and the recorded total together with what the
head is about to add was used by the date of the last report handled. Only three
actions touch any of this (`AgentUses`, `HandleUsage`, `UsageRecorded`); the
others are `CalmStep`s.

`Refinement`, `Spec => ImplementsRelayEnding`, needs no invariant besides `Inv`.
`EndsFacts` says what a queued or finished task does to the grounds, `Forgetting`,
`Starts`, `Cancels` and `Decides` are the four kinds of abstract steps that many
actions share, and each group of actions has its lemma (`StartImplements` to
`HttpImplements`). `FinishInv` and `EndingInv` are what makes `Write` the first
ending and `Release` the step after it.

**`ContractExecutionProofs`**: the type invariant, the five safety invariants of
`exec_policies` and `exec_queue`, that a drained interceptor is at rest
(`DrainedRests`), and the refinement. The invariants are about the history (what was charged,
changed, read, when), while the policy decides by counters that its reducers
keep. `Inv` ties the two together and has the queue between them:

* `QueueInv`, `GateInv`, `JobInv`: a job is queued once, only the head is past
  `"queued"`, and nothing is left of it once it is answered; a closed gate lets
  nothing in. So the counters a decision reads are still those its job is
  charged by;
* `DecisionInv`: an allowance outlasts the append between the decision and the
  charge, because time only takes attempts out of the rate's window;
* `ChargeInv`, `RunningInv`: the history has a job's attempt exactly from its
  charge on, with the attempt's own action, and what has run was charged;
* `BudgetInv`, `RetryInv`, `BreakerInv`, `RateInv`, `FilesInv`, `VolumeInv`,
  `TokenInv`, `UsageInv`: each counter is the count, sum or set of the history
  that its limit is about;
* `ReadInv`, `WorkflowInv`, `VerifiedInv`: the files counted as read, the current
  stage and the verified flag are backed by completed jobs.

A sum over the history is a recursive function. Nothing about it needs induction
here: `Inv` says that the totals of a sequence's prefixes exist, each the one
before plus the next entry, and that the counter is the last of them. `Grows`,
`Concludes`, `Advances` and `Rests` say once what the actions do to the history and
to the queue; every part of the invariant has one lemma for each of them that
matters to it.

`Refinement`, `Spec => ImplementsActionGate`, goes over the same kinds of steps
relative to `Inv` (`StepRefines`): a request that settles leaves the chain as it was
but for its head, and only a success of the executor, which a doomed request cannot
have, makes the completion gate's answer better.

**`AdapterSdkProofs`**: the type invariant and the three safety invariants of
`integration`. A step is about one task, so `Inv` is one invariant per task,
`TaskInv`, plus what was posted of usage; `OneTask` shows that the others keep
theirs, because records are only added and a record names its task. Its parts:

* `PlaceInv`: which wrapper a task is in says which places it can be at;
* `OutcomeInv`: how the operation went is known exactly after it ran;
* `SaidInv`: what has been said of a tool, on the ledger or still delayed, is
  what was due at that place. `Said` joins both because a delayed record arrives
  when its sender may have gone on, and the ledger's promise must not depend on
  when;
* `ChangeInv`, `ToolInv`: a change is recorded after its tool's success, and a
  `runTool` that resolved has its three records in order;
* `ActionInv`: an action is asked for at most once, and the caller's answer is
  the supervisor's.

`UsageExplained` is proved by cases over the reader (`ExplainedOf`). It assumes that
the responses have the shape `IsResponse` (counts that are absent, malformed or
natural numbers, under any names); they are otherwise any.

**`PolicyConsoleProofs`**: the type invariant and the three safety invariants of
`console`. `Inv` adds:

* `CallInv`: of the commands that replace the session or serve a click only one
  is in progress, a start in progress is known by `initializing`, and no stop
  goes past it. The page's buttons are part of this argument, as the mutant
  `EnabledWhilePending` shows;
* `JobInv`: a job runs under the flag and on its session, with nobody replacing it;
* `TargetInv`: a request names a session that exists, a check or an ending names
  the current one, and a session is made once the current one has ended.

Most steps are `Quiet`: they start nothing, keep the current session and only
let calls, the job and sessions proceed towards their ends. `QuietKeeps` treats
them once; the rest has a lemma per command and one for `Created`.

**`GuardedLaunchProofs`**: the type invariant and the two safety invariants of
`launch`. The processes know of each other through the log only, so most of `Inv`
says what the log has by the time somebody is where it is:

* `BeginInv`: nothing precedes the session's creation, and no place before the
  process's start has its record;
* `WorkInv`: a process runs only while `execute` waits for it, and a worktree is
  there only at the places that look after it or once the run was abandoned;
* `RecordInv`: at the ending a started process has its diff and its outcome in
  the log, at the removal too. A rejected record restarts the catch at the diff,
  which is why this is about places and not about the order of records;
* `EndedInv`: whoever stores a terminal record has appended the ending, and, with
  no other client, by then the process is gone, the worktree is not in use any
  more, and the log is whole, the removal included;
* `JudgeInv`: a verdict was computed from a log that satisfied `EndedInv`;
* `ClientInv`: a follower has exactly the matching events up to its cursor, and
  one that was told of the end has its event before it;
* `FilterInv`: the filtered answer for each cursor exists and lists the matching
  positions after it, once and in order. The filter is a recursive function of
  the log; its existence and its value are part of the invariant and kept from
  one length of the log to the next, so no induction over data is needed.

`RunKeeps` has the run's actions in groups, `Onwards` says what a follower may
rely on of any of them, and `Continues` that an answer continues what was given.

Every safety invariant, action property and refinement that a passing run checks is
stated by a theorem. Only model-checked: the seven liveness properties
(`EverythingSettles`, `CallsSettle`, `ExpiryEnds`, `RelayEnds`, `LaunchSettles`,
`StopEndsRun`, `CallersAnswered`), since fairness and `ENABLED` are outside the
prover's reach.

The type invariant of `ContractVerdicts` is proved (`VerdictTypes`) and checked by
no run.

## Not modelled

* *Event schema, redaction, pricing, bundles, rendering and HTTP parsing* work
  on one value at a time and keep no state; routing and read-only routes
  (replay, knowledge, adapters) neither.
* *Parsing of contracts and matching of globs and command texts*: a pattern is
  the set of what it matches. Whether it matches the right text is a question
  about strings.
* *Executors, model gateway, knowledge index*: seen through their outcome and
  `stop()`; their inside is file, process and network input and output.
* *Torn lines* left by a crash inside a single file write depend on the file
  system; operating-system processes are seen through their exit only.
* *Console*: a second tab or a reload starts a page with nothing pending, for
  which the controller's own `running` flag is the only guard; one page is
  modelled, and neither rendering nor the static server.
* *CLI and extension*: commands that issue one request, views, arguments.
