--------------------------- MODULE ContractVerdicts ---------------------------
(***************************************************************************)
(* What a contract says of a session:                                      *)
(* packages/policy-engine/src/index.ts, evaluateContract, and the Git      *)
(* snapshots that service.ts records for it.                               *)
(*                                                                         *)
(* A verdict is computed from the retained events, while agents, tools and *)
(* integrations are still appending to them, so the log grows event by     *)
(* event and every rule is read at every length.  A pattern is the set of  *)
(* commands or paths it matches; decision identifiers, messages and lists  *)
(* of evidence are left out.                                               *)
(***************************************************************************)
EXTENDS Integers, Sequences, FiniteSets, SequencesExt

CONSTANTS
  Absent,
  Commands, Paths, (* readable command texts; canonical relative paths      *)
  CommandsAllow, CommandsDeny, RequireSuccess, (* commands that match       *)
  PathsAllow, PathsDeny,                       (* paths that match          *)
  Correlations,    (* correlation identifiers of actions                    *)
  Renames,         (* bound: paths that git mv may move, with their targets *)
  MaxEvents        (* bound: events of the session                          *)

(* A field of git's status that is not an entry of its own is cut like     *)
(* one: what is left of the path is no path of the workspace.              *)
Cut(path) == << "cut", path >>

Grades == {"observed", "computed", "declared", "unknown"}

(* What a rule reads of an event.  `actual' is no field of the program: it *)
(* is the set of paths the work tree really differed in.                   *)
StartEvent ==
  [kind : {"start"}, grade : Grades, command : Commands \cup {Absent},
   correlation : Correlations \cup {Absent}, tools : BOOLEAN]
CompletionEvent ==
  [kind : {"completion"}, grade : Grades, correlation : Correlations \cup {Absent},
   succeeded : BOOLEAN \cup {Absent}]
ChangeEvent == [kind : {"change"}, grade : Grades, path : Paths \cup {Absent}]
DiffEvent ==
  [kind : {"diff"}, grade : Grades, paths : SUBSET (Paths \cup {Cut(p) : p \in Paths}),
   dirty : BOOLEAN, changed : BOOLEAN, truncated : BOOLEAN, actual : SUBSET Paths]
AttachmentEvent == [kind : {"attachment"}, grade : Grades, matching : BOOLEAN]
DecisionEvent ==
  [kind : {"decision"}, grade : Grades, correlation : Correlations, allowed : BOOLEAN]
Event ==
  StartEvent \cup CompletionEvent \cup ChangeEvent \cup DiffEvent \cup AttachmentEvent
    \cup DecisionEvent

ASSUME VerdictAssumption ==
  /\ Absent \notin Commands /\ Absent \notin Paths /\ Absent \notin Correlations
  /\ Absent \notin BOOLEAN
  /\ CommandsAllow \cup CommandsDeny \cup RequireSuccess \subseteq Commands
  /\ PathsAllow \cup PathsDeny \subseteq Paths
  /\ Renames \subseteq Paths \X Paths /\ MaxEvents \in Nat

VARIABLES
  log,      (* the retained events, in sequence order                       *)
  baseline, (* the work tree had changes when the session began             *)
  status    (* what git status says of the work tree: path, source if moved *)

verdictVars == << log, baseline, status >>

VerdictTypeOK ==
  /\ log \in Seq(Event) /\ Len(log) <= MaxEvents
  /\ baseline \in BOOLEAN
  /\ status \subseteq [path : Paths, from : Paths \cup {Absent}]

-----------------------------------------------------------------------------
(* The rules.  Observed means natively or at the supervisor's boundary.    *)

Observed(events, kind) ==
  {i \in DOMAIN events : events[i].kind = kind /\ events[i].grade = "observed"}

(* Mutant: commands that an integration declares count as observed.        *)
ObservedCommandsDeclared(events) ==
  {i \in DOMAIN events : events[i].kind = "start" /\ events[i].grade \in {"observed", "declared"}
                           /\ events[i].command # Absent}

ObservedCommands(events) ==
  {i \in Observed(events, "start") : events[i].command # Absent}

Verdict(unknown, fails) ==
  IF unknown THEN "unknown" ELSE IF fails THEN "fail" ELSE "pass"

Allow(events) ==
  Verdict(ObservedCommands(events) = {},
          \E i \in ObservedCommands(events) : events[i].command \notin CommandsAllow)

Deny(events) ==
  Verdict(ObservedCommands(events) = {},
          \E i \in ObservedCommands(events) : events[i].command \in CommandsDeny)

RequiredStarts(events) ==
  {i \in ObservedCommands(events) : events[i].command \in RequireSuccess}

(* Observed results of the commands that started under these identifiers.  *)
Results(events, starts, succeeded) ==
  {i \in Observed(events, "completion") :
     /\ events[i].succeeded = succeeded
     /\ \E s \in starts : events[s].correlation # Absent
                            /\ events[s].correlation = events[i].correlation}

(* Mutant: an observed failure outweighs a success.                        *)
RequireFailureFirst(events) ==
  CASE ObservedCommands(events) = {} -> "unknown"
    [] ObservedCommands(events) # {} /\ RequiredStarts(events) = {} -> "fail"
    [] OTHER ->
         IF Results(events, RequiredStarts(events), FALSE) # {} THEN "fail"
         ELSE Verdict(Results(events, RequiredStarts(events), TRUE) = {}, FALSE)

Require(events) ==
  CASE ObservedCommands(events) = {} -> "unknown"
    [] ObservedCommands(events) # {} /\ RequiredStarts(events) = {} -> "fail"
    [] OTHER ->
         IF Results(events, RequiredStarts(events), TRUE) # {} THEN "pass"
         ELSE Verdict(Results(events, RequiredStarts(events), FALSE) = {}, TRUE)

(* A command of the supervisor's tools that was allowed before it started. *)
Decided(events, i) ==
  /\ events[i].tools /\ events[i].correlation # Absent
  /\ \E d \in 1 .. i - 1 :
       /\ events[d].kind = "decision" /\ events[d].grade = "computed"
       /\ events[d].allowed /\ events[d].correlation = events[i].correlation

Attached(events) ==
  \E i \in DOMAIN events :
    events[i].kind = "attachment" /\ events[i].grade = "computed" /\ events[i].matching

PreAction(events) ==
  Verdict(~(Attached(events) /\ \A i \in ObservedCommands(events) : Decided(events, i)), FALSE)

Snapshots(events) == {i \in DOMAIN events : events[i].kind = "diff"}

(* A whole snapshot whose changes are the session's own.                   *)
Reliable(events) ==
  {i \in Snapshots(events) :
     /\ events[i].grade = "observed" /\ ~events[i].truncated
     /\ events[i].dirty => ~events[i].changed}

ObservedPaths(events) ==
  ({events[i].path : i \in Observed(events, "change")} \ {Absent})
    \cup UNION {events[i].paths : i \in {j \in Reliable(events) : events[j].changed}}

Ambiguous(events) == Reliable(events) # Snapshots(events)

(* Mutant: a snapshot that could not be used does not make paths unclear.  *)
PathVerdictUnlessNothing(events, outside) ==
  Verdict(~outside /\ ObservedPaths(events) = {} /\ Snapshots(events) = {}, outside)

PathVerdict(events, outside) ==
  Verdict(/\ ~outside
          /\ \/ ObservedPaths(events) = {} /\ Snapshots(events) = {}
             \/ Ambiguous(events),
          outside)

DenyPaths(events) ==
  PathVerdict(events, \E p \in ObservedPaths(events) : p \in PathsDeny)
AllowPaths(events) ==
  PathVerdict(events, \E p \in ObservedPaths(events) : p \notin PathsAllow)

(* Kept evidence; a truncated or dirty snapshot is evidence all the same.  *)
Kept(events, kind) == Verdict(Observed(events, kind) = {}, FALSE)

Rules ==
  {"commands.allow", "commands.deny", "commands.requireSuccess", "commands.requirePreAction",
   "paths.deny", "paths.allow", "command-result", "filesystem-diff"}

EvaluateContract(events) ==
  [rule \in Rules |->
     CASE rule = "commands.allow" -> Allow(events)
       [] rule = "commands.deny" -> Deny(events)
       [] rule = "commands.requireSuccess" -> Require(events)
       [] rule = "commands.requirePreAction" -> PreAction(events)
       [] rule = "paths.deny" -> DenyPaths(events)
       [] rule = "paths.allow" -> AllowPaths(events)
       [] rule = "command-result" -> Kept(events, "completion")
       [] rule = "filesystem-diff" -> Kept(events, "diff")]

-----------------------------------------------------------------------------
(* The work tree, and the snapshot of it.                                  *)

Touched == {s.path : s \in status} \cup ({s.from : s \in status} \ {Absent})

Edit(path) ==
  /\ Len(log) < MaxEvents
  /\ path \notin Touched
  /\ status' = status \cup {[path |-> path, from |-> Absent]}
  /\ UNCHANGED << log, baseline >>

Move(from, to) ==
  /\ Len(log) < MaxEvents
  /\ << from, to >> \in Renames
  /\ from \notin Touched /\ to \notin Touched
  /\ status' = status \cup {[path |-> to, from |-> from]}
  /\ UNCHANGED << log, baseline >>

(* changedPaths(): every field of the status output loses the three        *)
(* characters of an entry's code, the source of a move as well.            *)
ChangedPaths(entries) ==
  {s.path : s \in entries} \cup {Cut(s.from) : s \in {e \in entries : e.from # Absent}}

TreeSnapshot(truncated) ==
  [kind |-> "diff", grade |-> "observed",
   paths |-> IF truncated THEN {} ELSE ChangedPaths(status),
   dirty |-> baseline, changed |-> status # {}, truncated |-> truncated, actual |-> Touched]

NoSnapshot ==
  [kind |-> "diff", grade |-> "unknown", paths |-> {}, dirty |-> FALSE, changed |-> FALSE,
   truncated |-> FALSE, actual |-> Touched]

(* recordGitDiff(): git answers, in whole or in part, or does not.         *)
RecordGitDiff ==
  /\ Len(log) < MaxEvents
  /\ \/ \E truncated \in BOOLEAN : log' = Append(log, TreeSnapshot(truncated))
     \/ log' = Append(log, NoSnapshot)
  /\ UNCHANGED << baseline, status >>

-----------------------------------------------------------------------------
(* Events of the other kinds.  The supervisor's own tools decide, start    *)
(* and complete; a native agent is observed; integrations only declare.    *)

Observations ==
  [kind : {"start"}, grade : {"observed"}, command : Commands \cup {Absent},
   correlation : Correlations \cup {Absent}, tools : BOOLEAN]
    \cup [kind : {"completion"}, grade : {"observed"}, correlation : Correlations,
          succeeded : BOOLEAN \cup {Absent}]
    \cup [kind : {"change"}, grade : {"observed"}, path : Paths \cup {Absent}]

SupervisorFacts ==
  [kind : {"attachment"}, grade : {"computed"}, matching : BOOLEAN]
    \cup [kind : {"decision"}, grade : {"computed"}, correlation : Correlations,
          allowed : BOOLEAN]

(* appendIntegrationEvent(): any kind, declared or unknown.                *)
Declarations ==
  [kind : {"start"}, grade : {"declared"}, command : Commands,
   correlation : Correlations, tools : BOOLEAN]
    \cup [kind : {"completion"}, grade : {"declared"}, correlation : Correlations,
          succeeded : BOOLEAN]
    \cup [kind : {"change"}, grade : {"declared"}, path : Paths]
    \cup [kind : {"diff"}, grade : {"declared"}, paths : SUBSET Paths, dirty : {FALSE},
          changed : {TRUE}, truncated : {FALSE}, actual : {Touched}]
    \cup [kind : {"attachment"}, grade : {"declared"}, matching : BOOLEAN]
    \cup [kind : {"decision"}, grade : {"declared"}, correlation : Correlations,
          allowed : BOOLEAN]

Retain(event) ==
  /\ Len(log) < MaxEvents
  /\ log' = Append(log, event)
  /\ UNCHANGED << baseline, status >>

VerdictInit == log = << >> /\ baseline \in BOOLEAN /\ status = {}

VerdictNext ==
  \/ \E path \in Paths : Edit(path)
  \/ \E from \in Paths, to \in Paths : Move(from, to)
  \/ RecordGitDiff
  \/ \E event \in Observations \cup SupervisorFacts \cup Declarations : Retain(event)

VerdictSpec == VerdictInit /\ [][VerdictNext]_verdictVars

-----------------------------------------------------------------------------
Before == EvaluateContract(log)
After == EvaluateContract(log')

(* Evidence that an integration submits, which can only be declared or     *)
(* unknown, neither proves nor convicts: it leaves a verdict as it was or  *)
(* takes it back (evaluateContract, appendIntegrationEvent).               *)
DeclaredProvesNothing ==
  [][log' # log /\ Last(log').grade \in {"declared", "unknown"}
       => \A rule \in Rules : After[rule] \in {Before[rule], "unknown"}]_verdictVars

(* Whatever is retained later, a broken rule stays broken, except a        *)
(* required command that may still succeed; what once succeeded or was     *)
(* kept stays proved; and with the contract attached a command that        *)
(* started before its check cannot be made up for (evaluateContract on a   *)
(* growing log, preActionEvidence).                                        *)
VerdictsStand ==
  [][\A rule \in Rules :
       /\ Before[rule] = "fail" /\ rule # "commands.requireSuccess" => After[rule] = "fail"
       /\ Before[rule] = "pass"
            /\ rule \in {"commands.requireSuccess", "command-result", "filesystem-diff"}
            => After[rule] = "pass"
       /\ Before[rule] = "unknown"
            /\ rule = "commands.requirePreAction" /\ Attached(log)
            => After[rule] = "unknown"]_verdictVars

(* policy-and-contract-spec.md: the path rules "evaluate observed changes, *)
(* including complete supervisor Git snapshots".  When they pass, no tree  *)
(* that a snapshot was taken of had touched a path they forbid             *)
(* (changedPaths, observedPathEvidence).                                   *)
ForbiddenChangesConvicted ==
  \A i \in Snapshots(log) :
    /\ DenyPaths(log) = "pass" => log[i].actual \cap PathsDeny = {}
    /\ AllowPaths(log) = "pass" => log[i].actual \subseteq PathsAllow
=============================================================================
