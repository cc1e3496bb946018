--------------------------- MODULE AdapterSdkProofs ---------------------------
(***************************************************************************)
(* What the adapter SDK promises, proved for any number of tasks, however  *)
(* requests fail, and for every provider response.                         *)
(*                                                                         *)
(* A step concerns one task and leaves the invariant of every other one    *)
(* alone (Aside); each lemma about an action shows that it restores the    *)
(* invariant of the task that acts.                                        *)
(***************************************************************************)
EXTENDS AdapterSdk, TLAPS

-----------------------------------------------------------------------------
(* The inductive invariant, part by part, of one task.                     *)

(* What the ledger has of a task, or will have unless the session ends.    *)
Said(t, kind) == Holds(t, kind) \/ << t, kind >> \in late
Delayed(t) == \E kind \in Kinds : << t, kind >> \in late

(* Which reporter is where, and that it is over once its caller knows.     *)
PlaceInv(t) ==
  /\ task[t].at \in {"operating", "succeeding", "failing"} =>
       task[t].how \in {"tool", "hook", "item"}
  /\ task[t].at = "noting" => task[t].how = "tool"
  /\ task[t].at = "changing" => task[t].how = "hook"
  /\ task[t].at = "completing" => task[t].how = "closing"
  /\ task[t].at = "executing" => task[t].how = "action"
  /\ task[t].at = "over" <=> task[t].answer # "none"

(* A report is made of an operation that went so; only runTool may report  *)
(* as a failure what succeeded.                                            *)
OutcomeInv(t) ==
  /\ task[t].at \in {"idle", "calling", "operating"} => task[t].outcome = "none"
  /\ task[t].at \in {"succeeding", "noting", "changing"} => task[t].outcome \in Successes
  /\ task[t].at = "failing" /\ task[t].outcome # "bad" => task[t].how = "tool"

(* What was said, on record or on its way, agrees with the outcome.        *)
SaidInv(t) ==
  /\ task[t].at = "idle" => log[t] = << >> /\ ~Delayed(t)
  /\ Said(t, "success") => task[t].outcome \in Successes
  /\ Said(t, "failure") /\ task[t].outcome # "bad" =>
       task[t].how = "tool" /\ task[t].at = "over" /\ task[t].answer = "error"

(* A hook's change is reported over a recorded success.                    *)
ChangeInv(t) ==
  task[t].how = "hook" =>
    /\ task[t].at = "changing" \/ Said(t, "changed") => Holds(t, "success")
    /\ \A i \in DOMAIN log[t] :
         log[t][i] = "changed" => \E j \in 1 .. i : log[t][j] = "success"

(* A runTool that was not yet failed by the ledger has its record exactly. *)
ToolInv(t) ==
  task[t].how = "tool" =>
    /\ \/ task[t].at \in {"calling", "operating", "succeeding", "noting"}
       \/ task[t].answer = "result"
       => ~Delayed(t)
    /\ task[t].at = "calling" => log[t] = << >>
    /\ task[t].at \in {"operating", "succeeding"} => log[t] = << "called" >>
    /\ task[t].at = "noting" =>
         log[t] = << "called", "success" >> /\ task[t].outcome = "odd"
    /\ task[t].answer = "result" =>
         log[t] = IF task[t].outcome = "odd" THEN << "called", "success", "gap" >>
                  ELSE << "called", "success" >>

(* The supervisor was asked before it replied, and its reply was passed on.*)
ActionInv(t) ==
  /\ action[t].reply # "none" => action[t].asked = 1
  /\ task[t].how = "action" /\ task[t].at = "over" => task[t].answer = action[t].reply

TaskInv(t) ==
  PlaceInv(t) /\ OutcomeInv(t) /\ SaidInv(t) /\ ChangeInv(t) /\ ToolInv(t) /\ ActionInv(t)

Inv == TypeOK /\ (\A t \in Tasks : TaskInv(t)) /\ UsageExplained

-----------------------------------------------------------------------------
(* Frames.                                                                 *)

(* A step passes the other tasks by.                                       *)
Untouched(s) ==
  /\ task'[s] = task[s] /\ log'[s] = log[s] /\ action'[s] = action[s]
  /\ \A kind \in Kinds : << s, kind >> \in late' <=> << s, kind >> \in late

Aside(t) == \A s \in Tasks : s # t => Untouched(s)

LEMMA Untouching ==
  ASSUME NEW s \in Tasks, Untouched(s), TaskInv(s)
  PROVE  TaskInv(s)'
<1>1. Delayed(s)' <=> Delayed(s)
  BY DEF Untouched, Delayed
<1>2. \A kind \in Kinds : (Holds(s, kind)' <=> Holds(s, kind)) /\ (Said(s, kind)' <=> Said(s, kind))
  BY DEF Untouched, Holds, Said
<1>3. "success" \in Kinds /\ "failure" \in Kinds /\ "changed" \in Kinds
  BY DEF Kinds
<1>4. PlaceInv(s)' /\ OutcomeInv(s)' /\ ActionInv(s)'
  BY DEF TaskInv, PlaceInv, OutcomeInv, ActionInv, Untouched
<1>5. SaidInv(s)'
  BY <1>1, <1>2, <1>3 DEF TaskInv, SaidInv, Untouched
<1>6. ChangeInv(s)' /\ ToolInv(s)'
  BY <1>1, <1>2, <1>3 DEF TaskInv, ChangeInv, ToolInv, Untouched
<1> QED
  BY <1>4, <1>5, <1>6 DEF TaskInv

(* A step of one task keeps the invariant if it keeps that task's.         *)
LEMMA OneTask ==
  ASSUME \A s \in Tasks : TaskInv(s), NEW t \in Tasks, Aside(t), TaskInv(t)'
  PROVE  \A s \in Tasks : TaskInv(s)'
<1> TAKE s \in Tasks
<1>1. CASE s = t
  BY <1>1
<1>2. CASE s # t
  BY <1>2, Untouching DEF Aside
<1> QED
  BY <1>1, <1>2

(* Where a task goes, and what its caller is told.                         *)
TaskTypes == [how : Hows, at : Places, outcome : Outcomes, answer : Answers]

Becomes(t, at, answer) ==
  /\ task' \in [Tasks -> TaskTypes]
  /\ \A s \in Tasks : s # t => task'[s] = task[s]
  /\ task'[t].how = task[t].how /\ task'[t].outcome = task[t].outcome
  /\ task'[t].at = at /\ task'[t].answer = answer

LEMMA TaskMoves ==
  ASSUME TypeOK, NEW t \in Tasks
  PROVE  /\ \A at \in Places : Goes(t, at) => Becomes(t, at, task[t].answer)
         /\ \A answer \in Answers : Answered(t, answer) => Becomes(t, "over", answer)
<1>1. ASSUME NEW at \in Places, Goes(t, at)
      PROVE  Becomes(t, at, task[t].answer)
  BY <1>1 DEF Goes, Becomes, TypeOK, TaskTypes
<1>2. ASSUME NEW answer \in Answers, Answered(t, answer)
      PROVE  Becomes(t, "over", answer)
  <2>1. "over" \in Places
    BY DEF Places
  <2> QED
    BY <1>2, <2>1 DEF Answered, Becomes, TypeOK, TaskTypes
<1> QED
  BY <1>1, <1>2

(* What a request leaves behind: its record, its delayed record, neither.  *)
Leaves(t, kind) ==
  /\ log' \in [Tasks -> Seq(Kinds)] /\ late' \subseteq Tasks \X Kinds
  /\ \A s \in Tasks : s # t =>
       /\ log'[s] = log[s]
       /\ \A k \in Kinds : << s, k >> \in late' <=> << s, k >> \in late
  /\ \/ log'[t] = log[t]
     \/ log'[t] = Append(log[t], kind)
  /\ \A k \in Kinds : << t, k >> \in late' => << t, k >> \in late \/ k = kind

LEMMA RequestSent ==
  ASSUME TypeOK, NEW t \in Tasks, NEW kind \in Kinds, Sends(t, kind)
  PROVE  /\ Leaves(t, kind)
         /\ log'[t] = Append(log[t], kind) /\ late' = late
<1>1. log' = [log EXCEPT ![t] = Append(@, kind)]
  BY DEF Sends, Recorded
<1>2. log[t] \in Seq(Kinds)
  BY DEF TypeOK
<1>3. Append(log[t], kind) \in Seq(Kinds)
  BY <1>2
<1>4. log' \in [Tasks -> Seq(Kinds)] /\ log'[t] = Append(log[t], kind)
  BY <1>1, <1>3 DEF TypeOK
<1>5. \A s \in Tasks : s # t => log'[s] = log[s]
  BY <1>1 DEF TypeOK
<1>6. late' = late /\ late \subseteq Tasks \X Kinds
  BY DEF Sends, TypeOK
<1> QED
  BY <1>4, <1>5, <1>6 DEF Leaves

LEMMA RequestFailed ==
  ASSUME TypeOK, NEW t \in Tasks, NEW kind \in Kinds, SendFails(t, kind)
  PROVE  Leaves(t, kind)
<1>1. /\ log \in [Tasks -> Seq(Kinds)] /\ late \subseteq Tasks \X Kinds
      /\ Append(log[t], kind) \in Seq(Kinds)
  <2>1. log[t] \in Seq(Kinds)
    BY DEF TypeOK
  <2> QED
    BY <2>1 DEF TypeOK
<1>2. CASE UNCHANGED << log, late >>
  BY <1>1, <1>2 DEF Leaves
<1>3. CASE Recorded(t, kind) /\ UNCHANGED late
  <2>1. log' \in [Tasks -> Seq(Kinds)] /\ log'[t] = Append(log[t], kind)
    BY <1>1, <1>3 DEF Recorded
  <2>2. \A s \in Tasks : s # t => log'[s] = log[s]
    BY <1>1, <1>3 DEF Recorded
  <2> QED
    BY <1>1, <1>3, <2>1, <2>2 DEF Leaves
<1>4. CASE late' = late \cup {<< t, kind >>} /\ UNCHANGED log
  <2>1. late' \subseteq Tasks \X Kinds
    BY <1>1, <1>4
  <2>2. \A s \in Tasks, k \in Kinds : << s, k >> \in late' =>
          << s, k >> \in late \/ (s = t /\ k = kind)
    BY <1>4
  <2> QED
    BY <1>1, <1>4, <2>1, <2>2 DEF Leaves
<1> QED
  BY <1>2, <1>3, <1>4 DEF SendFails

(* What it leaves of what was said.                                        *)
LEMMA SaidOf ==
  ASSUME TypeOK, NEW t \in Tasks, NEW kind \in Kinds, Leaves(t, kind)
  PROVE  /\ \A k \in Kinds : Holds(t, k) => Holds(t, k)'
         /\ \A k \in Kinds : Said(t, k)' => Said(t, k) \/ k = kind
<1>1. log[t] \in Seq(Kinds)
  BY DEF TypeOK
<1>2. ASSUME log'[t] = log[t]
      PROVE  \A k \in Kinds : Holds(t, k)' <=> Holds(t, k)
  BY <1>2 DEF Holds
<1>3. ASSUME log'[t] = Append(log[t], kind)
      PROVE  \A k \in Kinds : Holds(t, k)' <=> Holds(t, k) \/ k = kind
  <2>1. DOMAIN log'[t] = DOMAIN log[t] \cup {Len(log[t]) + 1} /\ log'[t][Len(log[t]) + 1] = kind
    BY <1>1, <1>3
  <2>2. \A i \in DOMAIN log[t] : log'[t][i] = log[t][i]
    BY <1>1, <1>3
  <2> QED
    BY <2>1, <2>2 DEF Holds
<1> QED
  BY <1>2, <1>3 DEF Leaves, Said

-----------------------------------------------------------------------------
(* Steps that send a record.                                               *)

Reports(t, kind, at, answer) ==
  /\ Leaves(t, kind)
  /\ Becomes(t, at, answer)
  /\ UNCHANGED others

LEMMA ReportFrame ==
  ASSUME TypeOK, NEW t \in Tasks, NEW kind \in Kinds, NEW at, NEW answer,
         Reports(t, kind, at, answer)
  PROVE  TypeOK' /\ Aside(t) /\ UsageExplained' = UsageExplained
<1>1. TypeOK'
  BY DEF TypeOK, Reports, Leaves, Becomes, others, TaskTypes
<1>2. Aside(t)
  BY DEF TypeOK, Reports, Leaves, Becomes, others, Aside, Untouched
<1>3. usage' = usage
  BY DEF Reports, others
<1> QED
  BY <1>1, <1>2, <1>3 DEF UsageExplained

(* What was said stays true, when the new record is true.                  *)
LEMMA ReportSaid ==
  ASSUME TypeOK, NEW t \in Tasks, NEW kind \in Kinds, NEW at, NEW answer,
         SaidInv(t), Reports(t, kind, at, answer), at # "idle", task[t].at # "over",
         kind = "success" => task[t].outcome \in Successes,
         kind = "failure" /\ task[t].outcome # "bad" =>
           task[t].how = "tool" /\ at = "over" /\ answer = "error"
  PROVE  SaidInv(t)'
<1>1. Leaves(t, kind)
  BY DEF Reports
<1>2. /\ task'[t].at = at /\ task'[t].answer = answer
      /\ task'[t].outcome = task[t].outcome /\ task'[t].how = task[t].how
  BY DEF Reports, Becomes
<1>3. "success" \in Kinds /\ "failure" \in Kinds
  BY DEF Kinds
<1>4. /\ Said(t, "success")' => Said(t, "success") \/ kind = "success"
      /\ Said(t, "failure")' => Said(t, "failure") \/ kind = "failure"
  BY <1>1, <1>3, SaidOf
<1> QED
  BY <1>1, <1>2, <1>4 DEF SaidInv

(* So does the order of a hook's success and change.                       *)
LEMMA ReportChange ==
  ASSUME TypeOK, NEW t \in Tasks, NEW kind \in Kinds, NEW at, NEW answer,
         ChangeInv(t), Reports(t, kind, at, answer),
         task[t].how = "hook" /\ at = "changing" => Holds(t, "success")',
         task[t].how = "hook" /\ kind = "changed" => Holds(t, "success")
  PROVE  ChangeInv(t)'
<1>1. Leaves(t, kind) /\ task'[t].at = at /\ task'[t].how = task[t].how
  BY DEF Reports, Becomes
<1>2. SUFFICES ASSUME task[t].how = "hook"
               PROVE  /\ at = "changing" \/ Said(t, "changed")' => Holds(t, "success")'
                      /\ \A i \in DOMAIN log'[t] :
                           log'[t][i] = "changed" => \E j \in 1 .. i : log'[t][j] = "success"
  BY <1>1 DEF ChangeInv
<1>3. "success" \in Kinds /\ "changed" \in Kinds /\ log[t] \in Seq(Kinds)
  BY DEF Kinds, TypeOK
<1>4. at = "changing" \/ Said(t, "changed")' => Holds(t, "success")'
  BY <1>1, <1>2, <1>3, SaidOf DEF ChangeInv
<1>5. CASE log'[t] = log[t]
  BY <1>2, <1>4, <1>5 DEF ChangeInv
<1>6. CASE log'[t] = Append(log[t], kind)
  <2>1. /\ DOMAIN log[t] = 1 .. Len(log[t]) /\ Len(log[t]) \in Nat
        /\ DOMAIN log'[t] = 1 .. Len(log[t]) + 1 /\ log'[t][Len(log[t]) + 1] = kind
        /\ \A i \in 1 .. Len(log[t]) : log'[t][i] = log[t][i]
    BY <1>3, <1>6
  <2> SUFFICES ASSUME NEW i \in 1 .. Len(log[t]) + 1, log'[t][i] = "changed"
               PROVE  \E j \in 1 .. i : log'[t][j] = "success"
    BY <1>4, <2>1
  <2>2. CASE i = Len(log[t]) + 1
    <3>1. PICK j \in 1 .. Len(log[t]) : log[t][j] = "success"
      BY <1>2, <2>1, <2>2 DEF Holds
    <3> QED
      BY <2>1, <2>2, <3>1
  <2>3. CASE i \in 1 .. Len(log[t])
    <3>1. PICK j \in 1 .. i : log[t][j] = "success"
      BY <1>2, <2>1, <2>3 DEF ChangeInv
    <3>2. j \in 1 .. Len(log[t])
      BY <2>3
    <3> QED
      BY <2>1, <3>1, <3>2
  <2> QED
    BY <2>1, <2>2, <2>3
<1> QED
  BY <1>1, <1>4, <1>5, <1>6 DEF Leaves

(* A report of something other than a tool or an action.                   *)
LEMMA ReportElsewhere ==
  ASSUME NEW t \in Tasks, NEW kind, NEW at, NEW answer, TaskInv(t),
         Reports(t, kind, at, answer), task[t].how \notin {"tool", "action"}
  PROVE  ToolInv(t)' /\ ActionInv(t)'
BY DEF Reports, Becomes, others, TaskInv, ToolInv, ActionInv

-----------------------------------------------------------------------------
(* One lemma for each reporter.                                            *)

Restores(t) == TypeOK' /\ Aside(t) /\ TaskInv(t)' /\ UsageExplained' = UsageExplained

LEMMA PlacesNamed ==
  /\ {"operating", "succeeding", "noting", "changing", "failing", "completing", "executing",
      "calling"} \subseteq Places
  /\ {"result", "error"} \subseteq Answers
  /\ {"called", "success", "failure", "gap", "changed", "notice"} \subseteq Kinds
BY DEF Places, Answers, Kinds

(* The kinds of steps that a reporter takes: on with it or to its caller.  *)
LEMMA ReportSteps ==
  ASSUME TypeOK, NEW t \in Tasks, NEW kind \in Kinds, UNCHANGED others,
         Sends(t, kind) \/ SendFails(t, kind)
  PROVE  /\ \A at \in Places : Goes(t, at) => Reports(t, kind, at, task[t].answer)
         /\ \A answer \in Answers : Answered(t, answer) => Reports(t, kind, "over", answer)
<1>1. Leaves(t, kind)
  BY RequestSent, RequestFailed
<1> QED
  BY <1>1, TaskMoves DEF Reports

LEMMA HookReports ==
  ASSUME TypeOK, NEW t \in Tasks, NEW kind \in Kinds, NEW at \in Places, NEW answer \in Answers,
         TaskInv(t), Reports(t, kind, at, answer), task[t].how \notin {"tool", "action"},
         task[t].at \notin {"idle", "over"}, at # "idle",
         at = "over" <=> answer # "none",
         at = "operating" => task[t].how = "item" \/ task[t].how = "hook",
         at = "changing" => task[t].how = "hook" /\ Holds(t, "success")',
         at = "completing" => task[t].how = "closing",
         at \notin {"succeeding", "failing", "noting", "executing"},
         at \in {"calling", "operating"} => task[t].outcome = "none",
         at = "changing" => task[t].outcome \in Successes,
         kind = "success" => task[t].outcome \in Successes,
         kind = "failure" => task[t].outcome = "bad",
         task[t].how = "hook" /\ kind = "changed" => Holds(t, "success")
  PROVE  Restores(t)
<1>1. TypeOK' /\ Aside(t) /\ UsageExplained' = UsageExplained
  BY ReportFrame
<1>2. Becomes(t, at, answer)
  BY DEF Reports
<1>3. PlaceInv(t)' /\ OutcomeInv(t)'
  BY <1>2 DEF Becomes, PlaceInv, OutcomeInv, TaskInv
<1>4. SaidInv(t)'
  BY ReportSaid DEF TaskInv
<1>5. ChangeInv(t)'
  BY ReportChange DEF TaskInv
<1>6. ToolInv(t)' /\ ActionInv(t)'
  BY ReportElsewhere
<1> QED
  BY <1>1, <1>3, <1>4, <1>5, <1>6 DEF Restores, TaskInv

LEMMA Hooks ==
  ASSUME TypeOK, NEW t \in Tasks, TaskInv(t),
         HookCalled(t) \/ HookSucceeded(t) \/ HookFailed(t) \/ HookChanged(t)
  PROVE  Restores(t)
<1> USE PlacesNamed
<1>1. task[t].at \in {"calling", "succeeding", "failing", "changing"} => task[t].answer = "none"
  BY DEF TaskInv, PlaceInv
<1>2. CASE HookCalled(t)
  <2>1. PICK kind \in {"called", "gap"} : Sends(t, kind) \/ SendFails(t, kind)
    BY <1>2 DEF HookCalled
  <2>2. Reports(t, kind, "operating", "none")
    BY <1>1, <1>2, <2>1, ReportSteps DEF HookCalled
  <2>3. task[t].how \in {"hook", "item"} /\ task[t].at = "calling" /\ task[t].outcome = "none"
    BY <1>2 DEF HookCalled, TaskInv, OutcomeInv
  <2> QED
    BY <2>2, <2>3, HookReports DEF Answers
<1>3. CASE HookSucceeded(t)
  <2>1. /\ task[t].how \in {"hook", "item"} /\ task[t].at = "succeeding"
        /\ task[t].outcome \in Successes /\ UNCHANGED others
    BY <1>3 DEF HookSucceeded, TaskInv, OutcomeInv
  <2>2. PICK kind \in {"success", "gap"} :
          \/ /\ Sends(t, kind)
             /\ IF task[t].how = "hook" /\ kind = "success" /\ task[t].outcome = "odd"
                  THEN Goes(t, "changing") ELSE Answered(t, "result")
          \/ SendFails(t, kind) /\ Answered(t, "error")
    BY <1>3 DEF HookSucceeded
  <2>3. CASE Sends(t, kind) /\ Goes(t, "changing") /\ kind = "success" /\ task[t].how = "hook"
    <3>1. Reports(t, kind, "changing", "none")
      BY <1>1, <2>1, <2>3, ReportSteps
    <3>2. log'[t] = Append(log[t], kind) /\ log[t] \in Seq(Kinds)
      BY <2>3, RequestSent DEF TypeOK
    <3>3. Len(log[t]) + 1 \in DOMAIN log'[t] /\ log'[t][Len(log[t]) + 1] = kind
      BY <3>2
    <3>4. Holds(t, "success")'
      BY <2>3, <3>3 DEF Holds
    <3> QED
      BY <2>1, <2>3, <3>1, <3>4, HookReports DEF Answers
  <2>4. ASSUME NEW answer \in {"result", "error"}, Answered(t, answer)
        PROVE  Restores(t)
    <3>1. Reports(t, kind, "over", answer)
      BY <2>1, <2>2, <2>4, ReportSteps
    <3> QED
      BY <2>1, <3>1, HookReports DEF Places
  <2> QED
    BY <2>1, <2>2, <2>3, <2>4
<1>4. CASE HookFailed(t)
  <2>1. PICK kind \in {"failure", "gap"}, answer \in {"result", "error"} :
          Answered(t, answer) /\ (Sends(t, kind) \/ SendFails(t, kind))
    BY <1>4 DEF HookFailed
  <2>2. Reports(t, kind, "over", answer)
    BY <1>4, <2>1, ReportSteps DEF HookFailed
  <2>3. task[t].how \in {"hook", "item"} /\ task[t].at = "failing" /\ task[t].outcome = "bad"
    BY <1>4 DEF HookFailed, TaskInv, OutcomeInv
  <2> QED
    BY <2>2, <2>3, HookReports DEF Places
<1>5. CASE HookChanged(t)
  <2>1. PICK answer \in {"result", "error"} :
          Answered(t, answer) /\ (Sends(t, "changed") \/ SendFails(t, "changed"))
    BY <1>5 DEF HookChanged
  <2>2. Reports(t, "changed", "over", answer)
    BY <1>5, <2>1, ReportSteps DEF HookChanged
  <2>3. task[t].how = "hook" /\ task[t].at = "changing" /\ Holds(t, "success")
    BY <1>5 DEF HookChanged, TaskInv, ChangeInv
  <2> QED
    BY <2>2, <2>3, HookReports DEF Places
<1> QED
  BY <1>2, <1>3, <1>4, <1>5

LEMMA Notices ==
  ASSUME TypeOK, NEW t \in Tasks, TaskInv(t), Noticed(t) \/ Closing(t)
  PROVE  Restores(t)
<1> USE PlacesNamed
<1>1. /\ task[t].at = "calling" /\ task[t].how \in {"notice", "closing"} /\ UNCHANGED others
      /\ task[t].answer = "none" /\ task[t].outcome = "none"
  BY DEF TaskInv, PlaceInv, OutcomeInv, Noticed, Closing
<1>2. PICK kind \in {"notice", "changed", "gap"} :
        /\ Sends(t, kind) \/ SendFails(t, kind)
        /\ \/ Goes(t, "calling")
           \/ Goes(t, "completing") /\ task[t].how = "closing"
           \/ Answered(t, "result")
           \/ Answered(t, "error")
  BY DEF Noticed, Closing
<1>3. ASSUME NEW at \in {"calling", "completing"}, Goes(t, at),
             at = "completing" => task[t].how = "closing"
      PROVE  Restores(t)
  <2>1. Reports(t, kind, at, "none")
    BY <1>1, <1>2, <1>3, ReportSteps
  <2> QED
    BY <1>1, <1>3, <2>1, HookReports DEF Answers
<1>4. ASSUME NEW answer \in {"result", "error"}, Answered(t, answer)
      PROVE  Restores(t)
  <2>1. Reports(t, kind, "over", answer)
    BY <1>1, <1>2, <1>4, ReportSteps
  <2> QED
    BY <1>1, <1>4, <2>1, HookReports DEF Places
<1> QED
  BY <1>2, <1>3, <1>4

(* runTool reports until one fails, and then that it failed.               *)
LEMMA ToolReports ==
  ASSUME TypeOK, NEW t \in Tasks, NEW kind \in Kinds, NEW at \in Places, NEW answer \in Answers,
         TaskInv(t), Reports(t, kind, at, answer), task[t].how = "tool",
         task[t].at \notin {"idle", "over"}, at # "idle",
         at = "over" <=> answer # "none",
         at \notin {"calling", "changing", "completing", "executing"},
         at = "operating" => task[t].outcome = "none",
         at \in {"succeeding", "noting"} => task[t].outcome \in Successes,
         kind = "success" => task[t].outcome \in Successes,
         kind = "failure" /\ task[t].outcome # "bad" =>
           at = "over" /\ answer = "error",
         ToolInv(t)'
  PROVE  Restores(t)
<1>1. TypeOK' /\ Aside(t) /\ UsageExplained' = UsageExplained
  BY ReportFrame
<1>2. Becomes(t, at, answer) /\ ended' = ended /\ action' = action
  BY DEF Reports, others
<1>3. PlaceInv(t)' /\ OutcomeInv(t)'
  BY <1>2 DEF Becomes, PlaceInv, OutcomeInv, TaskInv
<1>4. SaidInv(t)'
  BY ReportSaid DEF TaskInv
<1>5. ChangeInv(t)' /\ ActionInv(t)'
  BY <1>2 DEF TaskInv, ChangeInv, ActionInv, Becomes
<1> QED
  BY <1>1, <1>3, <1>4, <1>5 DEF Restores, TaskInv

LEMMA Tools ==
  ASSUME TypeOK, NEW t \in Tasks, TaskInv(t),
         ToolCalled(t) \/ ToolSucceeded(t) \/ ToolNoted(t) \/ ToolFailed(t)
  PROVE  Restores(t)
<1> USE PlacesNamed
<1>1. /\ task[t].how = "tool" /\ task[t].at \in {"calling", "succeeding", "noting", "failing"}
      /\ task[t].answer = "none" /\ UNCHANGED others
  BY DEF TaskInv, PlaceInv, ToolCalled, ToolSucceeded, ToolNoted, ToolFailed
(* A record that was answered is the next one, and none is on its way.     *)
<1>2. ASSUME NEW kind \in Kinds, Sends(t, kind)
      PROVE  /\ log'[t] = Append(log[t], kind) /\ (Delayed(t)' <=> Delayed(t))
  BY <1>2, RequestSent DEF Delayed
<1>3. ASSUME NEW kind \in Kinds, Leaves(t, kind), Goes(t, "failing") \/ Answered(t, "error"),
             kind = "success" => task[t].outcome \in Successes,
             kind = "failure" /\ task[t].outcome # "bad" => Answered(t, "error")
      PROVE  Restores(t)
  <2>1. CASE Goes(t, "failing")
    <3>1. Reports(t, kind, "failing", "none")
      BY <1>1, <1>3, <2>1, TaskMoves DEF Reports
    <3>2. ToolInv(t)'
      BY <3>1 DEF Reports, Becomes, ToolInv
    <3>3. kind = "failure" => task[t].outcome = "bad"
      BY <1>1, <1>3, <2>1, TaskMoves DEF Becomes
    <3> QED
      BY <1>1, <1>3, <3>1, <3>2, <3>3, ToolReports DEF Answers
  <2>2. CASE Answered(t, "error")
    <3>1. Reports(t, kind, "over", "error")
      BY <1>1, <1>3, <2>2, TaskMoves DEF Reports
    <3>2. ToolInv(t)'
      BY <3>1 DEF Reports, Becomes, ToolInv
    <3> QED
      BY <1>1, <1>3, <3>1, <3>2, ToolReports DEF Places
  <2> QED
    BY <1>3, <2>1, <2>2
<1>4. CASE ToolCalled(t)
  <2>1. CASE Sends(t, "called") /\ Goes(t, "operating")
    <3>1. Reports(t, "called", "operating", "none")
      BY <1>1, <2>1, ReportSteps
    <3>2. log[t] = << >> /\ ~Delayed(t) /\ task[t].outcome = "none"
      BY <1>1, <1>4 DEF ToolCalled, TaskInv, ToolInv, OutcomeInv
    <3>3. log'[t] = << "called" >> /\ ~Delayed(t)'
      BY <1>2, <2>1, <3>2
    <3>4. ToolInv(t)'
      BY <3>1, <3>3 DEF Reports, Becomes, ToolInv
    <3> QED
      BY <1>1, <3>1, <3>2, <3>4, ToolReports DEF Answers
  <2> QED
    BY <1>3, <1>4, <2>1, RequestFailed DEF ToolCalled
<1>5. CASE ToolSucceeded(t)
  <2>1. /\ log[t] = << "called" >> /\ ~Delayed(t) /\ task[t].outcome \in Successes
    BY <1>1, <1>5 DEF ToolSucceeded, TaskInv, ToolInv, OutcomeInv
  <2>2. ASSUME Sends(t, "success")
        PROVE  log'[t] = << "called", "success" >> /\ ~Delayed(t)'
    BY <1>2, <2>1, <2>2
  <2>3. CASE Sends(t, "success") /\ task[t].outcome = "odd" /\ Goes(t, "noting")
    <3>1. Reports(t, "success", "noting", "none")
      BY <1>1, <2>3, ReportSteps
    <3>2. ToolInv(t)'
      BY <2>2, <2>3, <3>1 DEF Reports, Becomes, ToolInv
    <3> QED
      BY <1>1, <2>1, <3>1, <3>2, ToolReports DEF Answers
  <2>4. CASE Sends(t, "success") /\ task[t].outcome # "odd" /\ Answered(t, "result")
    <3>1. Reports(t, "success", "over", "result")
      BY <1>1, <2>4, ReportSteps
    <3>2. ToolInv(t)'
      BY <2>2, <2>4, <3>1 DEF Reports, Becomes, ToolInv
    <3> QED
      BY <1>1, <2>1, <3>1, <3>2, ToolReports DEF Places
  <2>5. CASE Goes(t, "failing") /\ (SendFails(t, "success") \/ UNCHANGED << log, late >>)
    <3>1. UNCHANGED << log, late >> => SendFails(t, "success")
      BY DEF SendFails
    <3> QED
      BY <1>3, <2>1, <2>5, <3>1, RequestFailed
  <2> QED
    BY <1>5, <2>3, <2>4, <2>5 DEF ToolSucceeded
<1>6. CASE ToolNoted(t)
  <2>1. /\ log[t] = << "called", "success" >> /\ ~Delayed(t) /\ task[t].outcome = "odd"
    BY <1>1, <1>6 DEF ToolNoted, TaskInv, ToolInv
  <2>2. CASE Sends(t, "gap") /\ Answered(t, "result")
    <3>1. Reports(t, "gap", "over", "result")
      BY <1>1, <2>2, ReportSteps
    <3>2. log'[t] = << "called", "success", "gap" >> /\ ~Delayed(t)'
      BY <1>2, <2>1, <2>2
    <3>3. ToolInv(t)'
      BY <2>1, <3>1, <3>2 DEF Reports, Becomes, ToolInv
    <3> QED
      BY <1>1, <2>1, <3>1, <3>3, ToolReports DEF Places
  <2> QED
    BY <1>3, <1>6, <2>1, <2>2, RequestFailed DEF ToolNoted, Successes
<1>7. CASE ToolFailed(t)
  <2>1. Answered(t, "error") /\ (Sends(t, "failure") \/ SendFails(t, "failure"))
    BY <1>7 DEF ToolFailed
  <2> QED
    BY <1>3, <2>1, RequestSent, RequestFailed
<1> QED
  BY <1>4, <1>5, <1>6, <1>7

-----------------------------------------------------------------------------
(* Steps that record nothing of the task.                                  *)

LEMMA Stays ==
  ASSUME NEW t \in Tasks, UNCHANGED << log, late >>
  PROVE  /\ \A kind : (Holds(t, kind)' <=> Holds(t, kind)) /\ (Said(t, kind)' <=> Said(t, kind))
         /\ Delayed(t)' <=> Delayed(t)
BY DEF Holds, Said, Delayed

LEMMA AgentActs ==
  ASSUME TypeOK, NEW t \in Tasks, TaskInv(t), Begin(t) \/ Operate(t)
  PROVE  Restores(t)
<1>1. UNCHANGED << log, late, ended, trace, action, usage >>
  BY DEF Begin, Operate
<1>2. /\ \A kind : (Holds(t, kind)' <=> Holds(t, kind)) /\ (Said(t, kind)' <=> Said(t, kind))
      /\ Delayed(t)' <=> Delayed(t)
  BY <1>1, Stays
<1>3. ASSUME NEW new \in TaskTypes, task' = [task EXCEPT ![t] = new]
      PROVE  /\ TypeOK' /\ Aside(t) /\ UsageExplained' = UsageExplained
             /\ task'[t] = new
  <2>1. /\ task' \in [Tasks -> TaskTypes] /\ task'[t] = new
        /\ \A s \in Tasks : s # t => task'[s] = task[s]
    BY <1>3 DEF TypeOK, TaskTypes
  <2> QED
    BY <1>1, <2>1 DEF TypeOK, TaskTypes, Aside, Untouched, UsageExplained
<1>4. CASE Begin(t)
  <2>1. PICK how \in Hows, at \in {"calling", "completing"} :
          /\ at = "completing" => how = "closing"
          /\ task' = [task EXCEPT ![t] = [Idle EXCEPT !.how = how, !.at = at]]
    BY <1>4 DEF Begin
  <2>2. PICK new : new = [Idle EXCEPT !.how = how, !.at = at]
    OBVIOUS
  <2>3. Idle \in TaskTypes /\ Idle.outcome = "none" /\ Idle.answer = "none"
    BY DEF Idle, TaskTypes, Hows, Places, Outcomes, Answers
  <2>4. /\ new \in TaskTypes /\ new.how = how /\ new.at = at
        /\ new.outcome = "none" /\ new.answer = "none"
    BY <2>2, <2>3 DEF TaskTypes, Places
  <2>5. TypeOK' /\ Aside(t) /\ UsageExplained' = UsageExplained /\ task'[t] = new
    BY <1>3, <2>1, <2>2, <2>4
  <2>6. /\ task'[t].how = how /\ task'[t].at = at /\ task'[t].outcome = "none"
        /\ task'[t].answer = "none"
    BY <2>4, <2>5
  <2>7. log[t] = << >> /\ ~Delayed(t)
    BY <1>4 DEF Begin, TaskInv, SaidInv
  <2>8. \A kind \in Kinds : ~Holds(t, kind) /\ ~Said(t, kind)
    BY <2>7 DEF Holds, Said, Delayed
  <2>9. PlaceInv(t)' /\ OutcomeInv(t)' /\ ActionInv(t)'
    BY <1>1, <2>1, <2>6 DEF PlaceInv, OutcomeInv, ActionInv, TaskInv
  <2>10. SaidInv(t)' /\ ChangeInv(t)' /\ ToolInv(t)'
    BY <1>1, <1>2, <2>1, <2>6, <2>7, <2>8, PlacesNamed DEF SaidInv, ChangeInv, ToolInv
  <2> QED
    BY <2>5, <2>9, <2>10 DEF Restores, TaskInv
<1>5. CASE Operate(t)
  <2>1. PICK outcome \in Successes \cup {"bad"} :
          task' = [task EXCEPT ![t] = [@ EXCEPT !.outcome = outcome,
                                       !.at = IF outcome = "bad" THEN "failing" ELSE "succeeding"]]
    BY <1>5 DEF Operate, Outcomes, Successes
  <2>2. PICK new : new = [task[t] EXCEPT !.outcome = outcome,
                                  !.at = IF outcome = "bad" THEN "failing" ELSE "succeeding"]
    OBVIOUS
  <2>3. /\ new \in TaskTypes
        /\ new.how = task[t].how /\ new.answer = task[t].answer /\ new.outcome = outcome
        /\ new.at = IF outcome = "bad" THEN "failing" ELSE "succeeding"
    BY <2>2 DEF TypeOK, TaskTypes, Places, Outcomes
  <2>4. task' = [task EXCEPT ![t] = new]
    BY <2>1, <2>2
  <2>5. TypeOK' /\ Aside(t) /\ UsageExplained' = UsageExplained /\ task'[t] = new
    BY <1>3, <2>3, <2>4
  <2>6. task[t].at = "operating" /\ task[t].outcome = "none"
    BY <1>5 DEF Operate, TaskInv, OutcomeInv
  <2>7. PlaceInv(t)' /\ OutcomeInv(t)' /\ ActionInv(t)'
    BY <1>1, <2>3, <2>5, <2>6 DEF PlaceInv, OutcomeInv, ActionInv, TaskInv
  <2>8. SaidInv(t)' /\ ChangeInv(t)' /\ ToolInv(t)'
    BY <1>1, <1>2, <2>3, <2>5, <2>6, PlacesNamed
    DEF SaidInv, ChangeInv, ToolInv, TaskInv, PlaceInv, Successes
  <2> QED
    BY <2>5, <2>7, <2>8 DEF Restores, TaskInv
<1> QED
  BY <1>4, <1>5

LEMMA Completes ==
  ASSUME TypeOK, NEW t \in Tasks, TaskInv(t), Completing(t)
  PROVE  Restores(t)
<1>1. PICK answer \in {"result", "error"} : Answered(t, answer)
  BY DEF Completing
<1>2. Becomes(t, "over", answer) /\ answer \in Answers
  BY <1>1, TaskMoves DEF Answers
<1>3. /\ UNCHANGED << log, late, trace, action, usage >>
      /\ task[t].at = "completing" /\ task[t].how = "closing"
  BY DEF Completing, TaskInv, PlaceInv
<1>4. ended' \in BOOLEAN
  <2>1. ended' \in {ended, TRUE} /\ ended \in BOOLEAN
    BY DEF Completing, TypeOK
  <2> QED
    BY <2>1, Zenon
<1>5. TypeOK' /\ Aside(t) /\ UsageExplained' = UsageExplained
  BY <1>2, <1>3, <1>4 DEF TypeOK, TaskTypes, Becomes, Aside, Untouched, UsageExplained
<1>6. /\ \A kind : (Holds(t, kind)' <=> Holds(t, kind)) /\ (Said(t, kind)' <=> Said(t, kind))
      /\ Delayed(t)' <=> Delayed(t)
  BY <1>3, Stays
<1>7. PlaceInv(t)' /\ OutcomeInv(t)' /\ ActionInv(t)'
  BY <1>2, <1>3 DEF Becomes, PlaceInv, OutcomeInv, ActionInv, TaskInv
<1>8. SaidInv(t)' /\ ChangeInv(t)' /\ ToolInv(t)'
  BY <1>2, <1>3, <1>6 DEF Becomes, SaidInv, ChangeInv, ToolInv, TaskInv
<1> QED
  BY <1>5, <1>7, <1>8 DEF Restores, TaskInv

LEMMA ActionSteps ==
  ASSUME TypeOK, NEW t \in Tasks, TaskInv(t),
         Observe(t) \/ LoggerCalls(t) \/ LoggerSettles(t) \/ Report(t) \/ Replies(t) \/ Returns(t)
  PROVE  Restores(t)
<1>1. UNCHANGED << log, late, ended, usage >>
  BY DEF Observe, LoggerCalls, LoggerSettles, Report, Replies, Returns
<1>2. /\ \A kind : (Holds(t, kind)' <=> Holds(t, kind)) /\ (Said(t, kind)' <=> Said(t, kind))
      /\ Delayed(t)' <=> Delayed(t)
  BY <1>1, Stays
(* The task stays where it is, but for an action that starts or returns.   *)
<1>3. \/ task' = task
      \/ task[t].how = "action" /\ task[t].at = "calling" /\ Becomes(t, "executing", task[t].answer)
      \/ /\ task[t].how = "action" /\ task[t].at = "executing"
         /\ action[t].reply \in {"result", "error"} /\ action' = action
         /\ Becomes(t, "over", action[t].reply)
  <2>1. CASE Observe(t)
    BY <2>1, TaskMoves DEF Observe, Places
  <2>2. CASE Returns(t)
    BY <2>2, TaskMoves DEF Returns, Answers, TaskInv, PlaceInv
  <2> QED
    BY <2>1, <2>2 DEF LoggerCalls, LoggerSettles, Report, Replies
<1>4. trace' \in [Tasks -> Spans]
  BY DEF Observe, LoggerCalls, LoggerSettles, Report, Replies, Returns, TypeOK, Spans
(* The supervisor is asked when it was not, and replies when it has not.   *)
<1>5. \/ action' = action
      \/ action[t].asked = 0 /\ action' = [action EXCEPT ![t] = Asked(t)]
      \/ /\ action[t].reply = "pending"
         /\ \E reply \in {"result", "error"} : action' = [action EXCEPT ![t].reply = reply]
  BY DEF Observe, LoggerCalls, LoggerSettles, Report, Replies, Returns, RunOnce
<1>6. /\ action' \in [Tasks -> [asked : 0 .. 1, reply : Replied]]
      /\ \A s \in Tasks : s # t => action'[s] = action[s]
      /\ action'[t].reply # "none" => action'[t].asked = 1
      /\ action[t].reply \in {"result", "error"} => action'[t] = action[t]
  <2>1. action \in [Tasks -> [asked : 0 .. 1, reply : Replied]]
    BY DEF TypeOK
  <2>2. action[t].reply # "none" => action[t].asked = 1
    BY DEF TaskInv, ActionInv
  <2>3. CASE action' = action
    BY <2>1, <2>2, <2>3
  <2>4. CASE action[t].asked = 0 /\ action' = [action EXCEPT ![t] = Asked(t)]
    <3>1. Asked(t) = [asked |-> 1, reply |-> "pending"]
      BY <2>4 DEF Asked
    <3> QED
      BY <2>1, <2>2, <2>4, <3>1 DEF Replied
  <2>5. CASE /\ action[t].reply = "pending"
             /\ \E reply \in {"result", "error"} : action' = [action EXCEPT ![t].reply = reply]
    BY <2>1, <2>2, <2>5 DEF Replied
  <2> QED
    BY <1>5, <2>3, <2>4, <2>5
<1>7. TypeOK' /\ Aside(t) /\ UsageExplained' = UsageExplained
  BY <1>1, <1>3, <1>4, <1>6
  DEF TypeOK, TaskTypes, Becomes, Aside, Untouched, UsageExplained
<1>8. PlaceInv(t)' /\ OutcomeInv(t)'
  BY <1>1, <1>3 DEF Becomes, PlaceInv, OutcomeInv, TaskInv
<1>9. ActionInv(t)'
  <2>1. task[t].answer \in Answers /\ (task[t].at = "over" <=> task[t].answer # "none")
    BY DEF TypeOK, TaskInv, PlaceInv
  <2> QED
    BY <1>3, <1>6, <2>1 DEF Becomes, ActionInv, TaskInv, Answers
<1>10. SaidInv(t)' /\ ChangeInv(t)' /\ ToolInv(t)'
  BY <1>1, <1>2, <1>3 DEF Becomes, SaidInv, ChangeInv, ToolInv, TaskInv
<1> QED
  BY <1>7, <1>8, <1>9, <1>10 DEF Restores, TaskInv

(* A delayed record says what its sender said.                             *)
LEMMA Arrivals ==
  ASSUME TypeOK, NEW t \in Tasks, NEW kind \in Kinds, TaskInv(t), Arrives(t, kind)
  PROVE  Restores(t)
<1>1. /\ << t, kind >> \in late /\ late' = late \ {<< t, kind >>}
      /\ IF ended THEN UNCHANGED log ELSE Recorded(t, kind)
      /\ UNCHANGED << task, ended, trace, action, usage >>
  BY DEF Arrives
<1>2. log[t] \in Seq(Kinds) /\ log \in [Tasks -> Seq(Kinds)]
  BY DEF TypeOK
<1>3. /\ log' \in [Tasks -> Seq(Kinds)]
      /\ \A s \in Tasks : s # t => log'[s] = log[s]
      /\ log'[t] = log[t] \/ log'[t] = Append(log[t], kind)
  <2>1. Append(log[t], kind) \in Seq(Kinds)
    BY <1>2
  <2> QED
    BY <1>1, <1>2, <2>1 DEF Recorded
<1>4. Delayed(t) /\ Said(t, kind)
  BY <1>1 DEF Delayed, Said
<1>5. /\ late' \subseteq Tasks \X Kinds
      /\ \A k \in Kinds : << t, k >> \in late' => << t, k >> \in late
      /\ \A s \in Tasks : s # t => \A k \in Kinds : << s, k >> \in late' <=> << s, k >> \in late
  BY <1>1 DEF TypeOK
<1>6. task \in [Tasks -> TaskTypes]
  BY DEF TypeOK, TaskTypes
<1>7. Leaves(t, kind)
  BY <1>1, <1>3, <1>5, <1>6 DEF Leaves
<1>8. Reports(t, kind, task[t].at, task[t].answer)
  BY <1>1, <1>6, <1>7 DEF Reports, Becomes, others
<1>9. TypeOK' /\ Aside(t) /\ UsageExplained' = UsageExplained
  BY <1>8, ReportFrame
<1>10. PlaceInv(t)' /\ OutcomeInv(t)' /\ ActionInv(t)' /\ ToolInv(t)'
  BY <1>1, <1>4 DEF PlaceInv, OutcomeInv, ActionInv, ToolInv, TaskInv, SaidInv, Delayed
<1>11. SaidInv(t)'
  <2>1. \A k \in Kinds : Said(t, k)' => Said(t, k)
    BY <1>4, <1>7, SaidOf
  <2>2. "success" \in Kinds /\ "failure" \in Kinds
    BY DEF Kinds
  <2> QED
    BY <1>1, <1>4, <2>1, <2>2 DEF TaskInv, SaidInv
<1>12. ChangeInv(t)'
  <2>1. "success" \in Kinds /\ (Holds(t, "success") => Holds(t, "success")')
    BY <1>7, SaidOf DEF Kinds
  <2> QED
    BY <1>4, <1>8, <2>1, ReportChange DEF TaskInv, ChangeInv
<1> QED
  BY <1>9, <1>10, <1>11, <1>12 DEF Restores, TaskInv

-----------------------------------------------------------------------------
(* Usage.                                                                  *)

(* What is read is the provider's total, or a sum of counts all present.  *)
LEMMA ExplainedOf ==
  ASSUME NEW r, IsResponse(r), NEW u, u = NormalizeProviderUsage(r), u.ok
  PROVE  u.total \in Nat /\ Explained(r, u.total)
<1> DEFINE c == r.counts
<1>1. \A name \in Names : c[name] \in Counts
  BY DEF IsResponse
<1>2. /\ c.input \in Counts /\ c.prompt \in Counts /\ c.output \in Counts
      /\ c.completion \in Counts /\ c.cached \in Counts /\ c.cache \in Counts
      /\ c.reasoning \in Counts /\ c.thinking \in Counts /\ c.total \in Counts
  BY <1>1 DEF Names
<1>3. ~Unavailable.ok
  BY DEF Unavailable
<1>4. r.cacheIsExtra \in BOOLEAN
  BY DEF IsResponse
<1>5. CASE r.provider = "mapped" /\ u = Mapped(r)
  <2>1. /\ u.total \in Nat
        /\ \/ Has(c.total) /\ u.total = c.total
           \/ /\ Has(c.input) /\ Has(c.output)
              /\ u.total = c.input + c.output + IF r.cacheIsExtra THEN OrZero(c.cache) ELSE 0
    BY <1>2, <1>4, <1>5
    DEF Mapped, Own, Read, NormalizedUsage, Unavailable, Counts, Has, OrZero, Absent, Malformed
  <2>2. CacheIsExtra(r) = r.cacheIsExtra
    BY <1>5 DEF CacheIsExtra
  <2> QED
    BY <1>5, <2>1, <2>2 DEF Explained
<1>6. CASE /\ r.provider = "openai" \/ (r.provider = "auto" /\ r.mark # "message")
           /\ u = OpenAI(r)
  <2> DEFINE input == FirstCount(c.input, c.prompt)
             output == FirstCount(c.output, c.completion)
  <2>1. r.place # "usageMetadata"
    BY <1>3, <1>6 DEF OpenAI
  <2>2. u = NormalizedUsage(Read(input, output, c.cached, c.reasoning, c.total), TRUE, FALSE)
    BY <1>3, <1>6 DEF OpenAI
  <2>3. input \in {c.input, c.prompt} /\ output \in {c.output, c.completion}
    BY DEF FirstCount
  <2>4. input \in Counts /\ output \in Counts
    BY <1>2, <2>3
  <2> HIDE DEF input, output
  <2>5. /\ u.total \in Nat
        /\ \/ Has(c.total) /\ u.total = c.total
           \/ /\ Has(input) /\ Has(output)
              /\ u.total = input + output + 0
    BY <1>2, <2>2, <2>4
    DEF Read, NormalizedUsage, Unavailable, Counts, Has, OrZero, Absent, Malformed
  <2>6. ~CacheIsExtra(r)
    BY <1>6 DEF CacheIsExtra
  <2> QED
    BY <2>1, <2>3, <2>5, <2>6 DEF Explained
<1>7. CASE /\ r.provider = "anthropic" \/ (r.provider = "auto" /\ r.mark = "message")
           /\ u = Anthropic(r)
  <2>1. r.place = "usage" /\ u = NormalizedUsage(Own(r), TRUE, TRUE)
    BY <1>3, <1>7 DEF Anthropic
  <2>2. /\ u.total \in Nat
        /\ \/ Has(c.total) /\ u.total = c.total
           \/ /\ Has(c.input) /\ Has(c.output)
              /\ u.total = c.input + c.output + OrZero(c.cache)
    BY <1>2, <1>7, <2>1
    DEF Own, Read, NormalizedUsage, Unavailable, Counts, Has, OrZero, Absent, Malformed
  <2>3. CacheIsExtra(r)
    BY <1>7 DEF CacheIsExtra
  <2> QED
    BY <2>1, <2>2, <2>3 DEF Explained
<1>8. CASE u = Gemini(r)
  <2>1. u = NormalizedUsage(Own(r), FALSE, FALSE)
    BY <1>3, <1>8 DEF Gemini
  <2>2. /\ u.total \in Nat
        /\ Has(c.total) /\ u.total = c.total
    BY <1>2, <1>8, <2>1
    DEF Own, Read, NormalizedUsage, Unavailable, Counts, Has, OrZero, Absent, Malformed
  <2> QED
    BY <2>2 DEF Explained
<1> QED
  BY <1>3, <1>5, <1>6, <1>7, <1>8 DEF NormalizeProviderUsage, IsResponse

LEMMA UsageSteps ==
  ASSUME TypeOK, NEW r \in Responses, ReportUsage(r)
  PROVE  TypeOK' /\ UsageExplained'
<1>1. IsResponse(r) /\ NormalizeProviderUsage(r).ok
  BY SdkAssumption DEF ReportUsage
<1>2. PICK n : n = NormalizeProviderUsage(r).total
  OBVIOUS
<1>3. n \in Nat /\ Explained(r, n)
  BY <1>1, <1>2, ExplainedOf
<1>4. usage' = {[response |-> r, total |-> n]}
  BY <1>2 DEF ReportUsage
<1>5. UNCHANGED << task, log, late, ended, trace, action >>
  BY DEF ReportUsage
<1>6. \A u \in usage' : u.response = r /\ u.total = n
  BY <1>4
<1>7. TypeOK'
  BY <1>3, <1>5, <1>6 DEF TypeOK
<1>8. UsageExplained'
  BY <1>3, <1>6 DEF UsageExplained
<1> QED
  BY <1>7, <1>8

-----------------------------------------------------------------------------
(* The invariant, inductively.                                             *)

LEMMA InitInv == Init => Inv
<1> SUFFICES ASSUME Init
             PROVE  Inv
  OBVIOUS
<1>1. TypeOK
  <2>1. Idle \in TaskTypes
    BY DEF Idle, TaskTypes, Hows, Places, Outcomes, Answers
  <2>2. << >> \in Seq(Kinds)
    OBVIOUS
  <2>3. task \in [Tasks -> TaskTypes] /\ log \in [Tasks -> Seq(Kinds)]
    BY <2>1, <2>2 DEF Init
  <2>4. trace \in [Tasks -> Spans] /\ action \in [Tasks -> [asked : 0 .. 1, reply : Replied]]
    <3>1. [asked |-> 0, reply |-> "none"] \in [asked : 0 .. 1, reply : Replied]
      BY DEF Replied
    <3> QED
      BY <3>1 DEF Init, Spans
  <2>5. usage = {} /\ late = {} /\ ended = FALSE
    BY DEF Init
  <2> QED
    BY <2>3, <2>4, <2>5 DEF TypeOK, TaskTypes
<1>2. ASSUME NEW t \in Tasks
      PROVE  TaskInv(t)
  <2>1. task[t] = Idle /\ log[t] = << >> /\ late = {} /\ action[t] = [asked |-> 0, reply |-> "none"]
    BY DEF Init
  <2>2. ~Delayed(t) /\ \A kind : ~Holds(t, kind) /\ ~Said(t, kind)
    BY <2>1 DEF Delayed, Holds, Said
  <2> QED
    BY <2>1, <2>2
    DEF Idle, TaskInv, PlaceInv, OutcomeInv, SaidInv, ChangeInv, ToolInv, ActionInv
<1>3. UsageExplained
  BY DEF Init, UsageExplained
<1> QED
  BY <1>1, <1>2, <1>3 DEF Inv

LEMMA StepInv == Inv /\ [Next]_vars => Inv'
<1> SUFFICES ASSUME Inv, [Next]_vars
             PROVE  Inv'
  OBVIOUS
<1>1. TypeOK /\ (\A t \in Tasks : TaskInv(t)) /\ UsageExplained
  BY DEF Inv
<1>2. ASSUME NEW t \in Tasks, Restores(t)
      PROVE  Inv'
  BY <1>1, <1>2, OneTask DEF Restores, Inv
<1>3. ASSUME NEW t \in Tasks,
             Begin(t) \/ Works(t) \/ LoggerCalls(t) \/ LoggerSettles(t) \/ Report(t)
      PROVE  Inv'
  <2>1. Restores(t)
    BY <1>1, <1>3, AgentActs, Tools, Hooks, Notices, Completes, ActionSteps DEF Works
  <2> QED
    BY <1>2, <2>1
<1>4. ASSUME NEW t \in Tasks, NEW kind \in Kinds, Arrives(t, kind)
      PROVE  Inv'
  BY <1>1, <1>2, <1>4, Arrivals
<1>5. ASSUME NEW r \in Responses, ReportUsage(r)
      PROVE  Inv'
  <2>1. TypeOK' /\ UsageExplained'
    BY <1>1, <1>5, UsageSteps
  <2>2. UNCHANGED << task, log, late, ended, trace, action >>
    BY <1>5 DEF ReportUsage
  <2>3. \A t \in Tasks : Untouched(t)
    BY <2>2 DEF Untouched
  <2> QED
    BY <1>1, <2>1, <2>3, Untouching DEF Inv
<1>6. CASE UNCHANGED vars
  <2>1. \A t \in Tasks : Untouched(t)
    BY <1>6 DEF vars, Untouched
  <2>2. TypeOK' /\ UsageExplained'
    BY <1>1, <1>6 DEF vars, TypeOK, UsageExplained
  <2> QED
    BY <1>1, <2>1, <2>2, Untouching DEF Inv
<1> QED
  BY <1>3, <1>4, <1>5, <1>6 DEF Next

(* The inductive invariant holds in every reachable state, of any number   *)
(* of tasks and responses and however requests fail.                       *)
THEOREM Invariance == Spec => []Inv
<1>1. Init => Inv
  BY InitInv
<1>2. Inv /\ [Next]_vars => Inv'
  BY StepInv
<1> QED
  BY <1>1, <1>2, PTL DEF Spec

(* Every variable stays in its type: in particular the supervisor is never *)
(* asked twice for one action, and usage that is posted is a number.       *)
THEOREM TypeCorrect == Spec => []TypeOK
<1>1. Inv => TypeOK
  BY DEF Inv
<1> QED
  BY <1>1, Invariance, PTL

LEMMA TruthOf == Inv => RecordsTruthful
<1> SUFFICES ASSUME Inv, NEW t \in Tasks
             PROVE  /\ Holds(t, "success") => task[t].outcome \in Successes
                    /\ task[t].how = "hook" =>
                         \A i \in DOMAIN log[t] :
                           log[t][i] = "changed" => \E j \in 1 .. i : log[t][j] = "success"
                    /\ Holds(t, "failure") /\ task[t].outcome # "bad" =>
                         task[t].how = "tool" /\ task[t].answer = "error"
                    /\ task[t].how = "tool" /\ task[t].answer = "result" =>
                         log[t] = IF task[t].outcome = "odd" THEN << "called", "success", "gap" >>
                                  ELSE << "called", "success" >>
  BY DEF RecordsTruthful
<1>1. TaskInv(t)
  BY DEF Inv
<1>2. SaidInv(t) /\ ChangeInv(t) /\ ToolInv(t)
  BY <1>1 DEF TaskInv
<1> QED
  BY <1>2 DEF SaidInv, ChangeInv, ToolInv, Said

(* The ledger is told the truth about a tool, in the order of things,      *)
(* whatever requests fail and whenever a delayed one arrives; only runTool *)
(* records a failure of what succeeded, and its caller is told of an error.*)
THEOREM Truthful == Spec => []RecordsTruthful
  BY TruthOf, Invariance, PTL

(* An action is asked of the supervisor once and its caller is told what   *)
(* the supervisor answered, however often the logger calls back.           *)
THEOREM RunOnceHolds == Spec => []ActionsRunOnce
<1>1. Inv => ActionsRunOnce
  <2> SUFFICES ASSUME Inv, NEW t \in Tasks, task[t].how = "action"
               PROVE  /\ action[t].asked <= 1
                      /\ task[t].answer # "none" => task[t].answer = action[t].reply
    BY DEF ActionsRunOnce
  <2>1. TypeOK /\ TaskInv(t)
    BY DEF Inv
  <2> QED
    BY <2>1 DEF TypeOK, TaskInv, PlaceInv, ActionInv
<1> QED
  BY <1>1, Invariance, PTL

(* A total of usage that is posted is the provider's own, or the sum of an *)
(* input and an output that were both present and of the cache tokens that *)
(* the provider's name, or without one the format, adds to them: for every *)
(* response, also one that is named after another provider than its own.   *)
THEOREM UsageExplainedHolds == Spec => []UsageExplained
<1>1. Inv => UsageExplained
  BY DEF Inv
<1> QED
  BY <1>1, Invariance, PTL
====
