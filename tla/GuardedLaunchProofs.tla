-------------------------- MODULE GuardedLaunchProofs --------------------------
(***************************************************************************)
(* What a guarded launch promises, proved for any contracts, clients,      *)
(* queries, outputs and numbers of disturbances.                           *)
(*                                                                         *)
(* The log ties the processes together: what the run records before it     *)
(* goes on is what its end, its follower and its verdict rest on.          *)
(***************************************************************************)
EXTENDS GuardedLaunch, TLAPS

-----------------------------------------------------------------------------
(* The inductive invariant, part by part.                                  *)

(* What the log has so far; of a process that was started and of the       *)
(* worktree, all of it.                                                    *)
Logged(kinds) == Has(kinds, Len(log))
Started == Logged({"process.started"})
Diffed == Logged({"workspace.diff"})
Concluded == Logged(Outcomes)
Closed == Logged(Endings)
Noted == tree = "none" \/ Logged({Removal})
Whole == (Started => Concluded /\ Diffed) /\ Noted

Early == {"requested", "deciding", "placing", "announcing", "starting"}

(* A session is made first, and nothing is started before it is recorded.  *)
BeginInv ==
  /\ run.at = "requested" <=> session.state = "none"
  /\ session.state = "none" => log = << >>
  /\ run.at \in Early => ~Started

(* A process and a worktree are there only while the run looks after them, *)
(* or has been abandoned.                                                  *)
Housed ==
  {"announcing", "starting", "spawning", "running", "reporting", "diffing", "outcome",
   "removing", "abandoned"}

WorkInv ==
  /\ child = "running" => run.at = "running"
  /\ tree = "present" => run.at \in Housed
  /\ run.at \in {"requested", "deciding", "placing"} => tree = "none"

(* Where the run is says what it has recorded.                             *)
RecordInv ==
  /\ run.at \in {"outcome", "removing", "removed"} => Diffed
  /\ run.at \in {"removing", "removed"} => Concluded
  /\ run.at \in {"ending", "gapping", "closing", "saving"} => Whole

(* Whoever ends the session records the ending first; unless it is another *)
(* client, the run is over, is abandoned or has failed at its last step.   *)
EndedInv ==
  /\ run.at = "saving" => Closed
  /\ other \in {"saving", "done"} => Closed
  /\ session.state \in Terminal => Closed
  /\ other = "idle" /\ session.state \in Terminal =>
       /\ run.at \in {"over", "abandoned", "diffing"}
       /\ tree # "present" /\ Whole

RunInv == RunTypeOK /\ BeginInv /\ WorkInv /\ RecordInv /\ EndedInv

(* The verdict is computed once the session has ended.                     *)
JudgeInv ==
  /\ judged \in Nat /\ judged <= Len(log)
  /\ judged > 0 =>
       /\ Has(Endings, judged)
       /\ other = "idle" /\ Has({"process.started"}, judged) =>
            Has(Outcomes, judged) /\ Has({"workspace.diff"}, judged)

(* What the follower knows of the end is so, and it has seen the ending.   *)
ClientInv ==
  /\ follower.cursor <= Len(log)
  /\ follower.mode # "wait" => Lists(got, follower.cursor)
  /\ follower.at = "read" /\ follower.ended => session.state \in Terminal
  /\ follower.at = "done" =>
       /\ session.state \in Terminal
       /\ follower.mode # "wait" => Has(Endings, follower.cursor)

(* An answer lists the events after the cursor up to the end of the log.   *)
(* It is a recursive function of the log: that it exists, and what it      *)
(* gives, is kept from one length of the log to the next.                  *)
Matching == {m \in 1 .. Len(log) : Matches(m)}

Filters(f, M, c, n) ==
  f = [m \in c .. n |->
        IF m = c THEN << >> ELSE IF m \in M THEN Append(f[m - 1], m) ELSE f[m - 1]]

Answers(s, M, c, n) ==
  /\ s \in Seq(Nat)
  /\ \A i, j \in DOMAIN s : i < j => s[i] < s[j]
  /\ \A i \in DOMAIN s : s[i] \in c + 1 .. n /\ s[i] \in M
  /\ \A m \in c + 1 .. n : m \in M => \E i \in DOMAIN s : s[i] = m

FilterInv ==
  \A c \in 0 .. Len(log) :
    /\ \E f : Filters(f, Matching, c, Len(log))
    /\ \A f : Filters(f, Matching, c, Len(log)) =>
         Answers(f[Len(log)], Matching, c, Len(log))

Inv == RunInv /\ FollowerTypeOK /\ JudgeInv /\ ClientInv /\ FilterInv

-----------------------------------------------------------------------------
(* The log.                                                                *)

Grows == UNCHANGED log \/ \E kind \in Kinds : log' = Append(log, kind)

(* What has been logged stays so, at its place.                            *)
LEMMA LogStays ==
  ASSUME log \in Seq(Kinds), Grows
  PROVE  /\ log' \in Seq(Kinds) /\ Len(log) \in Nat /\ Len(log') \in Nat
         /\ Len(log) <= Len(log')
         /\ \A i \in 1 .. Len(log) : log'[i] = log[i]
BY DEF Grows

LEMMA HasStays ==
  ASSUME log \in Seq(Kinds), Grows, NEW kinds, NEW n \in 0 .. Len(log)
  PROVE  Has(kinds, n)' <=> Has(kinds, n)
BY LogStays DEF Has

LEMMA Unlogged ==
  ASSUME UNCHANGED log
  PROVE  /\ Started' <=> Started
         /\ Diffed' <=> Diffed
         /\ Concluded' <=> Concluded
         /\ Closed' <=> Closed
         /\ UNCHANGED tree => (Noted' <=> Noted)
BY DEF Started, Diffed, Concluded, Closed, Noted, Removal, Logged, Has

LEMMA Appended ==
  ASSUME log \in Seq(Kinds), NEW kind \in Kinds, log' = Append(log, kind)
  PROVE  /\ log' \in Seq(Kinds)
         /\ Started' <=> Started \/ kind = "process.started"
         /\ Diffed' <=> Diffed \/ kind = "workspace.diff"
         /\ Concluded' <=> Concluded \/ kind \in Outcomes
         /\ Closed' <=> Closed \/ kind \in Endings
         /\ UNCHANGED tree /\ (Noted \/ kind = Removal) => Noted'
<1>1. /\ Len(log) \in Nat /\ Len(log') = Len(log) + 1 /\ log' \in Seq(Kinds)
      /\ log'[Len(log) + 1] = kind
      /\ \A i \in 1 .. Len(log) : log'[i] = log[i]
  OBVIOUS
<1>2. ASSUME NEW kinds
      PROVE  Logged(kinds)' <=> Logged(kinds) \/ kind \in kinds
  BY <1>1 DEF Logged, Has
<1>3. UNCHANGED tree /\ (Noted \/ kind = Removal) => Noted'
  BY <1>1 DEF Noted, Removal, Logged, Has
<1> QED
  BY <1>1, <1>2, <1>3 DEF Started, Diffed, Concluded, Closed

-----------------------------------------------------------------------------
(* The run: what each of its steps does to its place and to the log.       *)

RunTypes ==
  [at : Places, contract : Contracts, isolated : BOOLEAN, answered : BOOLEAN,
   ending : Terminal, rescue : BOOLEAN, outputs : 0 .. MaxOutputs]
SessionTypes ==
  [state : {"none", "running"} \cup Terminal, usage : {"unknown", "explained", "known"}]

LEMMA Types ==
  ASSUME RunTypeOK
  PROVE  /\ run \in RunTypes /\ run.at \in Places
         /\ session \in SessionTypes /\ log \in Seq(Kinds)
         /\ session.state \in {"none", "running"} \cup Terminal
         /\ tree \in {"none", "present", "removed", "stuck", "missing"}
         /\ child \in {"none", "running", "exited"}
         /\ other \in {"idle", "gapping", "closing", "saving", "done", "refused"}
         /\ outside \in 0 .. MaxIncidents /\ faults \in 0 .. MaxIncidents
BY DEF RunTypeOK, RunTypes, SessionTypes

LEMMA RunGoes ==
  ASSUME RunTypeOK, NEW place \in Places
  PROVE  /\ Goto(place) => run' \in RunTypes /\ run'.at = place
         /\ run' = [run EXCEPT !.at = place, !.answered = TRUE] =>
              run' \in RunTypes /\ run'.at = place
         /\ \A ending \in Terminal : run' = [run EXCEPT !.at = place, !.ending = ending] =>
              run' \in RunTypes /\ run'.at = place
         /\ run' = Rescued => run' \in RunTypes /\ run'.at = "diffing"
         /\ run' = Rejection =>
              /\ run' \in RunTypes
              /\ \/ run'.at = "abandoned"
                 \/ /\ run'.at = "diffing" /\ run.at \in Tried
                    /\ ~run.rescue /\ "process.started" \in Range(log)
<1>1. run \in RunTypes
  BY Types
<1>2. run' = Rescued => run' \in RunTypes /\ run'.at = "diffing"
  BY <1>1 DEF Rescued, RunTypes, Places, Terminal
<1>3. run' = [run EXCEPT !.at = place, !.answered = TRUE] => run' \in RunTypes /\ run'.at = place
  BY <1>1 DEF RunTypes
<1>4. run' = [run EXCEPT !.at = "abandoned", !.answered = TRUE] =>
        run' \in RunTypes /\ run'.at = "abandoned"
  BY <1>1 DEF RunTypes, Places
<1>5. Goto(place) => run' \in RunTypes /\ run'.at = place
  BY <1>1 DEF Goto, RunTypes
<1>6. \A ending \in Terminal : run' = [run EXCEPT !.at = place, !.ending = ending] =>
        run' \in RunTypes /\ run'.at = place
  BY <1>1 DEF RunTypes
<1>7. ASSUME run' = Rejection
      PROVE  /\ run' \in RunTypes
             /\ \/ run'.at = "abandoned"
                \/ /\ run'.at = "diffing" /\ run.at \in Tried
                   /\ ~run.rescue /\ "process.started" \in Range(log)
  <2>1. CASE run.at \in Tried /\ ~run.rescue /\ "process.started" \in Range(log)
    BY <1>2, <1>7, <2>1 DEF Rejection
  <2>2. CASE ~(run.at \in Tried /\ ~run.rescue /\ "process.started" \in Range(log))
    BY <1>4, <1>7, <2>2 DEF Rejection
  <2> QED
    BY <2>1, <2>2
<1> QED
  BY <1>2, <1>3, <1>5, <1>6, <1>7

(* What does not change keeps its type.                                    *)
LEMMA RunTyped ==
  ASSUME RunTypeOK, run' \in RunTypes, session' \in SessionTypes, log' \in Seq(Kinds),
         tree' \in {"none", "present", "removed", "stuck", "missing"},
         child' \in {"none", "running", "exited"},
         other' \in {"idle", "gapping", "closing", "saving", "done", "refused"},
         outside' \in 0 .. MaxIncidents, faults' \in 0 .. MaxIncidents,
         UNCHANGED up \/ up' = FALSE
  PROVE  RunTypeOK'
BY DEF RunTypeOK, RunTypes, SessionTypes

(* What a step of the run has to show: its types, and that its new place   *)
(* fits what has been recorded by then.                                    *)
RunStep ==
  /\ run' \in RunTypes /\ session' \in SessionTypes /\ Grows
  /\ tree' \in {"none", "present", "removed", "stuck", "missing"}
  /\ child' \in {"none", "running", "exited"}
  /\ UNCHANGED other /\ (UNCHANGED up \/ up' = FALSE)
  /\ outside' \in 0 .. MaxIncidents /\ faults' \in 0 .. MaxIncidents

LEMMA RunStepKeeps ==
  ASSUME RunInv, RunStep,
         run'.at # "requested" /\ session'.state # "none",
         run'.at \in Early => ~Started',
         WorkInv', RecordInv',
         run'.at = "saving" => Closed',
         session'.state \in Terminal =>
           \/ /\ session.state \in Terminal /\ UNCHANGED << log, tree >>
              /\ run'.at \in {"over", "abandoned", "diffing"}
           \/ /\ run'.at \in {"over", "abandoned", "diffing"}
              /\ tree' # "present" /\ Whole' /\ Closed'
           \/ other # "idle" /\ session.state \in Terminal
  PROVE  RunInv'
<1>1. RunTypeOK /\ BeginInv /\ EndedInv
  BY DEF RunInv
<1>2. log \in Seq(Kinds) /\ log' \in Seq(Kinds)
  BY <1>1, Types, LogStays DEF RunStep
<1>3. RunTypeOK'
  BY <1>1, <1>2, RunTyped, Types DEF RunStep
<1>4. BeginInv'
  BY DEF BeginInv
<1>5. Closed => Closed'
  BY <1>1, <1>2, Types, Unlogged, Appended DEF RunStep, Grows
<1>6. UNCHANGED << log, tree >> => (Whole' <=> Whole)
  BY Unlogged DEF Whole
<1>7. EndedInv'
  BY <1>1, <1>5, <1>6 DEF EndedInv, RunStep
<1> QED
  BY <1>3, <1>4, <1>7 DEF RunInv

(* The steps up to the answer.                                             *)
LEMMA LaunchKeeps ==
  ASSUME RunInv, CreateSession \/ Decide \/ Place \/ AnnounceWorktree
  PROVE  RunInv'
<1>1. RunTypeOK /\ BeginInv /\ WorkInv /\ RecordInv /\ EndedInv
  BY DEF RunInv
<1>2. CASE CreateSession
  <2>1. run.at = "requested" /\ log = << >> /\ ~Started
        /\ UNCHANGED << tree, child, other, outside, faults, up >>
    BY <1>1, <1>2 DEF CreateSession, At, BeginInv, Early
  <2>2. run' \in RunTypes /\ run'.at \in {"placing", "deciding"}
    BY <1>1, <1>2, RunGoes DEF CreateSession, Places
  <2>3. session' \in SessionTypes /\ session'.state = "running"
    BY <1>1, <1>2, Types DEF CreateSession, SessionTypes
  <2>4. log' = Append(log, "session.started") /\ "session.started" \in Kinds
    BY <1>2, <2>1 DEF CreateSession, Kinds
  <2>5. ~Started'
    BY <1>1, <2>1, <2>4, Types, Appended
  <2>6. RunStep
    BY <1>1, <2>1, <2>2, <2>3, <2>4, Types DEF RunStep, Grows
  <2>7. WorkInv' /\ RecordInv'
    BY <1>1, <2>1, <2>2 DEF WorkInv, Housed, RecordInv
  <2> QED
    BY <2>2, <2>3, <2>5, <2>6, <2>7, RunStepKeeps DEF Terminal
<1>3. CASE Decide
  <2>1. /\ run.at = "deciding" /\ session.state = "running"
        /\ UNCHANGED << session, tree, child, other, outside, faults, up >>
    BY <1>3 DEF Decide, Appends, At, Running
  <2>2. run' \in RunTypes /\ run'.at \in {"ending", "placing"}
    BY <1>1, <1>3, RunGoes DEF Decide, Places
  <2>3. log' = Append(log, "policy.decision") /\ "policy.decision" \in Kinds
    BY <1>3 DEF Decide, Appends, Kinds
  <2>4. ~Started'
    BY <1>1, <2>1, <2>3, Types, Appended DEF BeginInv, Early
  <2>5. RunStep
    BY <1>1, <2>1, <2>2, <2>3, Types DEF RunStep, Grows
  <2>6. WorkInv' /\ RecordInv'
    BY <1>1, <2>1, <2>2, <2>4 DEF WorkInv, Housed, RecordInv, Whole, Noted
  <2> QED
    BY <2>1, <2>2, <2>4, <2>5, <2>6, RunStepKeeps DEF Terminal
<1>4. CASE Place
  <2>1. /\ run.at = "placing" /\ ~Started /\ tree = "none"
        /\ UNCHANGED << session, log, child, other, outside, faults, up >>
    BY <1>1, <1>4 DEF Place, At, BeginInv, Early, WorkInv, Housed
  <2>2. /\ run' \in RunTypes /\ run'.at \in {"starting", "announcing", "ending"}
        /\ tree' \in {"none", "present", "removed", "stuck", "missing"}
        /\ run'.at = "announcing" \/ (UNCHANGED tree /\ tree # "present")
    BY <1>1, <1>4, <2>1, RunGoes, Types DEF Place, Places
  <2>3. ~Started' /\ session.state # "none"
    BY <1>1, <2>1, Unlogged DEF BeginInv
  <2>4. RunStep
    BY <1>1, <2>1, <2>2, Types DEF RunStep, Grows
  <2>5. WorkInv' /\ RecordInv'
    BY <1>1, <2>1, <2>2, <2>3 DEF WorkInv, Housed, RecordInv, Whole, Noted
  <2>6. session.state \in Terminal => other # "idle"
    BY <1>1, <2>1 DEF EndedInv
  <2> QED
    BY <2>1, <2>2, <2>3, <2>4, <2>5, <2>6, RunStepKeeps
<1>5. CASE AnnounceWorktree
  <2>1. /\ run.at = "announcing" /\ session.state = "running"
        /\ UNCHANGED << session, tree, child, other, outside, faults, up >>
    BY <1>5 DEF AnnounceWorktree, Appends, At, Running
  <2>2. run' \in RunTypes /\ run'.at = "starting"
    BY <1>1, <1>5, RunGoes DEF AnnounceWorktree, Places
  <2>3. log' = Append(log, "worktree.created") /\ "worktree.created" \in Kinds
    BY <1>5 DEF AnnounceWorktree, Appends, Kinds
  <2>4. ~Started'
    BY <1>1, <2>1, <2>3, Types, Appended DEF BeginInv, Early
  <2>5. RunStep
    BY <1>1, <2>1, <2>2, <2>3, Types DEF RunStep, Grows
  <2>6. WorkInv' /\ RecordInv'
    BY <1>1, <2>1, <2>2 DEF WorkInv, Housed, RecordInv
  <2> QED
    BY <2>1, <2>2, <2>4, <2>5, <2>6, RunStepKeeps DEF Terminal
<1> QED
  BY <1>2, <1>3, <1>4, <1>5

(* The steps of execute(): they leave the session as it is.                *)
LEMMA WorkStepKeeps ==
  ASSUME RunInv, RunStep, session'.state = session.state, run.at # "requested",
         run.at \notin {"over", "abandoned", "diffing"} \/ session.state = "running",
         run'.at \notin Early, WorkInv', RecordInv', run'.at = "saving" => Closed'
  PROVE  RunInv'
<1>1. session.state # "none" /\ (session.state \in Terminal => other # "idle")
  BY DEF RunInv, BeginInv, EndedInv, Terminal
<1>2. run'.at # "requested"
  BY DEF Early
<1> QED
  BY <1>1, <1>2, RunStepKeeps

LEMMA ProcessKeeps ==
  ASSUME RunInv, StartProcess \/ Spawn \/ ChildClosed
  PROVE  RunInv'
<1>1. RunTypeOK /\ BeginInv /\ WorkInv /\ RecordInv /\ EndedInv
  BY DEF RunInv
<1>2. CASE StartProcess
  <2>1. /\ run.at = "starting" /\ session.state = "running"
        /\ UNCHANGED << session, tree, child, other, outside, faults, up >>
    BY <1>2 DEF StartProcess, Appends, At, Running
  <2>2. run' \in RunTypes /\ run'.at = "spawning"
    BY <1>1, <1>2, RunGoes DEF StartProcess, Places
  <2>3. log' = Append(log, "process.started") /\ "process.started" \in Kinds
    BY <1>2 DEF StartProcess, Appends, Kinds
  <2>4. RunStep
    BY <1>1, <2>1, <2>2, <2>3, Types DEF RunStep, Grows
  <2>5. WorkInv' /\ RecordInv' /\ run'.at \notin Early
    BY <1>1, <2>1, <2>2 DEF WorkInv, Housed, RecordInv, Early
  <2> QED
    BY <2>1, <2>2, <2>4, <2>5, WorkStepKeeps
<1>3. CASE Spawn
  <2>1. /\ run.at = "spawning"
        /\ UNCHANGED << session, log, tree, other, outside, faults, up >>
    BY <1>3 DEF Spawn, At
  <2>2. /\ run' \in RunTypes /\ child' \in {"none", "running", "exited"}
        /\ run'.at = "running" \/ (run'.at = "diffing" /\ UNCHANGED child)
    BY <1>1, <1>3, RunGoes, Types DEF Spawn, Places
  <2>3. RunStep
    BY <1>1, <2>1, <2>2, Types DEF RunStep, Grows
  <2>4. WorkInv' /\ RecordInv' /\ run'.at \notin Early
    BY <1>1, <2>1, <2>2 DEF WorkInv, Housed, RecordInv, Early
  <2> QED
    BY <2>1, <2>2, <2>3, <2>4, WorkStepKeeps
<1>4. CASE ChildClosed
  <2>1. /\ run.at = "running" /\ child = "exited"
        /\ UNCHANGED << session, log, tree, child, other, outside, faults, up >>
    BY <1>4 DEF ChildClosed, At
  <2>2. run' \in RunTypes /\ run'.at = "reporting"
    BY <1>1, <1>4, RunGoes DEF ChildClosed, Places, Terminal
  <2>3. RunStep
    BY <1>1, <2>1, <2>2, Types DEF RunStep, Grows
  <2>4. WorkInv' /\ RecordInv' /\ run'.at \notin Early
    BY <1>1, <2>1, <2>2 DEF WorkInv, Housed, RecordInv, Early
  <2> QED
    BY <2>1, <2>2, <2>3, <2>4, WorkStepKeeps
<1> QED
  BY <1>2, <1>3, <1>4

LEMMA ReportKeeps ==
  ASSUME RunInv, RecordOutput \/ OutputRecorded \/ RecordDiff \/ RecordOutcome
  PROVE  RunInv'
<1>1. RunTypeOK /\ BeginInv /\ WorkInv /\ RecordInv /\ EndedInv
  BY DEF RunInv
<1>2. CASE RecordOutput
  <2>1. /\ run.at = "reporting" /\ run' = [run EXCEPT !.outputs = @ + 1]
        /\ run.outputs < MaxOutputs
        /\ UNCHANGED << session, tree, child, other, outside, faults, up >>
    BY <1>2 DEF RecordOutput, Appends, At
  <2>2. run' \in RunTypes /\ run'.at = "reporting"
    BY <1>1, <2>1, Types, RunAssumption DEF RunTypes
  <2>3. log' = Append(log, "process.output") /\ "process.output" \in Kinds
    BY <1>2 DEF RecordOutput, Appends, Kinds
  <2>4. RunStep
    BY <1>1, <2>1, <2>2, <2>3, Types DEF RunStep, Grows
  <2>5. WorkInv' /\ RecordInv' /\ run'.at \notin Early
    BY <1>1, <2>1, <2>2 DEF WorkInv, Housed, RecordInv, Early
  <2> QED
    BY <2>1, <2>2, <2>4, <2>5, WorkStepKeeps
<1>3. CASE OutputRecorded
  <2>1. /\ run.at = "reporting"
        /\ UNCHANGED << session, log, tree, child, other, outside, faults, up >>
    BY <1>3 DEF OutputRecorded, At
  <2>2. run' \in RunTypes /\ run'.at = "diffing"
    BY <1>1, <1>3, RunGoes DEF OutputRecorded, Places
  <2>3. RunStep
    BY <1>1, <2>1, <2>2, Types DEF RunStep, Grows
  <2>4. WorkInv' /\ RecordInv' /\ run'.at \notin Early
    BY <1>1, <2>1, <2>2 DEF WorkInv, Housed, RecordInv, Early
  <2> QED
    BY <2>1, <2>2, <2>3, <2>4, WorkStepKeeps
<1>4. CASE RecordDiff
  <2>1. /\ run.at = "diffing" /\ session.state = "running"
        /\ UNCHANGED << session, tree, child, other, outside, faults, up >>
    BY <1>4 DEF RecordDiff, Appends, At, Running
  <2>2. run' \in RunTypes /\ run'.at = "outcome"
    BY <1>1, <1>4, RunGoes DEF RecordDiff, Places
  <2>3. log' = Append(log, "workspace.diff") /\ "workspace.diff" \in Kinds
    BY <1>4 DEF RecordDiff, Appends, Kinds
  <2>4. RunStep
    BY <1>1, <2>1, <2>2, <2>3, Types DEF RunStep, Grows
  <2>5. Diffed'
    BY <1>1, <2>3, Types, Appended
  <2>6. WorkInv' /\ RecordInv' /\ run'.at \notin Early
    BY <1>1, <2>1, <2>2, <2>5 DEF WorkInv, Housed, RecordInv, Early
  <2> QED
    BY <2>1, <2>2, <2>4, <2>6, WorkStepKeeps
<1>5. CASE RecordOutcome
  <2>1. /\ run.at = "outcome" /\ session.state = "running" /\ Diffed
        /\ UNCHANGED << session, tree, child, other, outside, faults, up >>
    BY <1>1, <1>5 DEF RecordOutcome, Appends, At, Running, RecordInv
  <2>2. run' \in RunTypes /\ (run'.at = "removing" \/ (run'.at = "ending" /\ tree = "none"))
    BY <1>1, <1>5, RunGoes DEF RecordOutcome, Places
  <2>3. log' = Append(log, Outcome) /\ Outcome \in Outcomes /\ Outcome \in Kinds
    BY <1>5 DEF RecordOutcome, Appends, Outcome, Outcomes, Kinds
  <2>4. RunStep
    BY <1>1, <2>1, <2>2, <2>3, Types DEF RunStep, Grows
  <2>5. Diffed' /\ Concluded'
    BY <1>1, <2>1, <2>3, Types, Appended
  <2>6. WorkInv' /\ RecordInv' /\ run'.at \notin Early
    BY <1>1, <2>1, <2>2, <2>5 DEF WorkInv, Housed, RecordInv, Early, Whole, Noted
  <2> QED
    BY <2>1, <2>2, <2>4, <2>6, WorkStepKeeps
<1> QED
  BY <1>2, <1>3, <1>4, <1>5

LEMMA RemovalKeeps ==
  ASSUME RunInv, RemoveWorktree \/ RecordRemoval
  PROVE  RunInv'
<1>1. RunTypeOK /\ BeginInv /\ WorkInv /\ RecordInv /\ EndedInv
  BY DEF RunInv
<1>2. CASE RemoveWorktree
  <2>1. /\ run.at = "removing" /\ Diffed /\ Concluded /\ tree' \in {"removed", "stuck", "missing"}
        /\ UNCHANGED << session, log, child, other, outside, faults, up >>
    BY <1>1, <1>2 DEF RemoveWorktree, At, RecordInv
  <2>2. run' \in RunTypes /\ run'.at = "removed"
    BY <1>1, <1>2, RunGoes DEF RemoveWorktree, Places
  <2>3. RunStep
    BY <1>1, <2>1, <2>2, Types DEF RunStep, Grows
  <2>4. Diffed' /\ Concluded'
    BY <2>1, Unlogged
  <2>5. WorkInv' /\ RecordInv' /\ run'.at \notin Early
    BY <1>1, <2>1, <2>2, <2>4 DEF WorkInv, Housed, RecordInv, Early
  <2> QED
    BY <2>1, <2>2, <2>3, <2>5, WorkStepKeeps
<1>3. CASE RecordRemoval
  <2>1. /\ run.at = "removed" /\ session.state = "running" /\ Diffed /\ Concluded
        /\ UNCHANGED << session, tree, child, other, outside, faults, up >>
    BY <1>1, <1>3 DEF RecordRemoval, Appends, At, Running, RecordInv
  <2>2. run' \in RunTypes /\ run'.at = "ending"
    BY <1>1, <1>3, RunGoes DEF RecordRemoval, Places
  <2>3. log' = Append(log, Removal) /\ Removal \in Kinds
    BY <1>3 DEF RecordRemoval, Removal, Appends, Kinds
  <2>4. RunStep
    BY <1>1, <2>1, <2>2, <2>3, Types DEF RunStep, Grows
  <2>5. Diffed' /\ Concluded' /\ Noted'
    BY <1>1, <2>1, <2>3, Types, Appended
  <2>6. WorkInv' /\ RecordInv' /\ run'.at \notin Early
    BY <1>1, <2>1, <2>2, <2>5 DEF WorkInv, Housed, RecordInv, Early, Whole
  <2> QED
    BY <2>1, <2>2, <2>4, <2>6, WorkStepKeeps
<1> QED
  BY <1>2, <1>3

(* The ending, of the run.                                                 *)
LEMMA EndRunKeeps ==
  ASSUME RunInv, EndRun
  PROVE  RunInv'
<1>1. RunTypeOK /\ BeginInv /\ WorkInv /\ RecordInv /\ EndedInv
  BY DEF RunInv
<1>2. CASE /\ At("ending") /\ Goto(FirstPart)
           /\ UNCHANGED << session, log, tree, child, other, outside, faults, up >>
  <2>1. run.at = "ending" /\ Whole
    BY <1>1, <1>2 DEF At, RecordInv
  <2>2. run' \in RunTypes /\ run'.at \in {"gapping", "closing"}
    BY <1>1, <1>2, RunGoes DEF FirstPart, Places
  <2>3. RunStep
    BY <1>1, <1>2, <2>2, Types DEF RunStep, Grows
  <2>4. Whole'
    BY <1>2, <2>1, Unlogged DEF Whole
  <2>5. WorkInv' /\ RecordInv' /\ run'.at \notin Early
    BY <1>1, <1>2, <2>1, <2>2, <2>4 DEF WorkInv, Housed, RecordInv, Early
  <2> QED
    BY <1>2, <2>1, <2>2, <2>3, <2>5, WorkStepKeeps
<1>3. CASE Appends("gapping", "usage.unavailable") /\ session' = Explained /\ Goto("closing")
  <2>1. /\ run.at = "gapping" /\ session.state = "running" /\ Whole
        /\ UNCHANGED << tree, child, other, outside, faults, up >>
    BY <1>1, <1>3 DEF Appends, At, Running, RecordInv
  <2>2. run' \in RunTypes /\ run'.at = "closing"
    BY <1>1, <1>3, RunGoes DEF Places
  <2>3. session' \in SessionTypes /\ session'.state = session.state
    BY <1>1, <1>3, Types DEF Explained, SessionTypes
  <2>4. log' = Append(log, "usage.unavailable") /\ "usage.unavailable" \in Kinds
    BY <1>3 DEF Appends, Kinds
  <2>5. RunStep
    BY <1>1, <2>1, <2>2, <2>3, <2>4, Types DEF RunStep, Grows
  <2>6. Whole'
    BY <1>1, <2>1, <2>4, Types, Appended DEF Whole
  <2>7. WorkInv' /\ RecordInv' /\ run'.at \notin Early
    BY <1>1, <2>1, <2>2, <2>6 DEF WorkInv, Housed, RecordInv, Early
  <2> QED
    BY <2>1, <2>2, <2>3, <2>5, <2>7, WorkStepKeeps
<1>4. CASE Appends("closing", EndingOf(run.ending)) /\ Goto("saving") /\ UNCHANGED session
  <2>1. /\ run.at = "closing" /\ session.state = "running" /\ Whole
        /\ UNCHANGED << tree, child, other, outside, faults, up >>
    BY <1>1, <1>4 DEF Appends, At, Running, RecordInv
  <2>2. run' \in RunTypes /\ run'.at = "saving"
    BY <1>1, <1>4, RunGoes DEF Places
  <2>3. EndingOf(run.ending) \in Endings
    BY DEF EndingOf, Endings
  <2>4. /\ log' = Append(log, EndingOf(run.ending))
        /\ EndingOf(run.ending) \in Kinds /\ EndingOf(run.ending) # "process.started"
    BY <1>4, <2>3 DEF Appends, Kinds, Endings
  <2>5. RunStep
    BY <1>1, <1>4, <2>1, <2>2, <2>4, Types DEF RunStep, Grows
  <2>6. Whole' /\ Closed'
    BY <1>1, <2>1, <2>3, <2>4, Types, Appended DEF Whole
  <2>7. WorkInv' /\ RecordInv' /\ run'.at \notin Early
    BY <1>1, <2>1, <2>2, <2>6 DEF WorkInv, Housed, RecordInv, Early
  <2> QED
    BY <1>4, <2>1, <2>2, <2>5, <2>6, <2>7, WorkStepKeeps
<1>5. CASE /\ At("saving") /\ session' = [session EXCEPT !.state = run.ending]
           /\ run' = [run EXCEPT !.at = "over", !.answered = TRUE]
           /\ UNCHANGED << log, tree, child, other, outside, faults, up >>
  <2>1. run.at = "saving" /\ Whole /\ Closed /\ tree # "present"
    BY <1>1, <1>5 DEF At, RecordInv, EndedInv, WorkInv, Housed
  <2>2. run' \in RunTypes /\ run'.at = "over"
    BY <1>1, <1>5, RunGoes DEF Places
  <2>3. session' \in SessionTypes /\ session'.state # "none"
    BY <1>1, <1>5, Types DEF SessionTypes, RunTypes, Terminal
  <2>4. RunStep
    BY <1>1, <1>5, <2>2, <2>3, Types DEF RunStep, Grows
  <2>5. Whole' /\ Closed'
    BY <1>5, <2>1, Unlogged DEF Whole
  <2>6. WorkInv' /\ RecordInv' /\ run'.at \notin Early
    BY <1>1, <1>5, <2>1, <2>2 DEF WorkInv, Housed, RecordInv, Early
  <2>7. tree' # "present"
    BY <1>5, <2>1
  <2>8. run'.at # "requested"
    BY <2>2
  <2> QED
    BY <2>2, <2>3, <2>4, <2>5, <2>6, <2>7, <2>8, RunStepKeeps
<1> QED
  BY <1>2, <1>3, <1>4, <1>5 DEF EndRun

(* What a refused or a rejected operation does to the run.                 *)
LEMMA FailureKeeps ==
  ASSUME RunInv, Refused \/ OperationRejects
  PROVE  RunInv'
<1>1. RunTypeOK /\ BeginInv /\ WorkInv /\ RecordInv /\ EndedInv
  BY DEF RunInv
<1>2. /\ run.at \in Tried \cup {"deciding", "announcing", "starting"} /\ run' = Rejection
      /\ UNCHANGED << log, tree, child, other, outside, up >>
  BY DEF Refused, OperationRejects, Tried
<1>3. run' \in RunTypes /\ run'.at \in {"abandoned", "diffing"}
  BY <1>1, <1>2, RunGoes DEF Places
<1>4. session' \in SessionTypes /\ faults' \in 0 .. MaxIncidents
  <2>1. CASE Refused
    BY <1>1, <2>1, Types DEF Refused
  <2>2. CASE OperationRejects
    <3>1. session' \in SessionTypes
      BY <1>1, <2>2, Types DEF OperationRejects, SessionTypes, RunTypes
    <3>2. faults' = faults + 1 /\ MayDisturb
      BY <2>2 DEF OperationRejects
    <3> QED
      BY <1>1, <3>1, <3>2, Types, RunAssumption DEF MayDisturb
  <2> QED
    BY <2>1, <2>2
<1>5. RunStep
  BY <1>1, <1>2, <1>3, <1>4, Types DEF RunStep, Grows
<1>6. WorkInv' /\ RecordInv' /\ run'.at \notin Early
  BY <1>1, <1>2, <1>3 DEF WorkInv, Housed, RecordInv, Early, Tried
<1>7. run.at # "requested" /\ session.state # "none"
  BY <1>1, <1>2 DEF BeginInv, Tried
<1>8. CASE session' = session
  BY <1>2, <1>3, <1>5, <1>6, <1>7, <1>8, RunStepKeeps
<1>9. CASE run.at = "saving" /\ session' = [session EXCEPT !.state = run.ending]
  <2>1. Whole' /\ Closed' /\ tree' # "present"
    BY <1>1, <1>2, <1>9, Unlogged DEF RecordInv, EndedInv, WorkInv, Housed, Whole
  <2>2. session'.state # "none"
    BY <1>1, <1>9, Types DEF SessionTypes, RunTypes, Terminal
  <2> QED
    BY <1>3, <1>5, <1>6, <2>1, <2>2, RunStepKeeps
<1> QED
  BY <1>8, <1>9 DEF Refused, OperationRejects

-----------------------------------------------------------------------------
(* Everybody else: the run stays where it is.                              *)
LEMMA OutsideKeeps ==
  ASSUME RunInv, UNCHANGED << run, tree, child >>, session' \in SessionTypes,
         \/ UNCHANGED log
         \/ \E kind \in Kinds \ {"process.started"} : log' = Append(log, kind),
         other' \in {"idle", "gapping", "closing", "saving", "done", "refused"},
         outside' \in 0 .. MaxIncidents, faults' \in 0 .. MaxIncidents,
         UNCHANGED up \/ up' = FALSE,
         session'.state = "none" <=> session.state = "none",
         session.state # "none" \/ UNCHANGED log,
         other' \in {"saving", "done"} \/ session'.state \in Terminal => Closed',
         other' = "idle" => other = "idle" /\ session'.state = session.state
  PROVE  RunInv'
<1>1. RunTypeOK /\ BeginInv /\ WorkInv /\ RecordInv /\ EndedInv
  BY DEF RunInv
<1>2. /\ log' \in Seq(Kinds)
      /\ Started' <=> Started
      /\ Diffed => Diffed'
      /\ Concluded => Concluded'
      /\ Closed => Closed'
      /\ Noted => Noted'
  BY <1>1, Types, Unlogged, Appended
<1>3. RunTypeOK'
  BY <1>1, <1>2, Types, RunTyped
<1>4. Whole => Whole'
  BY <1>2 DEF Whole
<1>5. BeginInv' /\ WorkInv'
  BY <1>1, <1>2 DEF BeginInv, WorkInv
<1>6. RecordInv' /\ EndedInv'
  BY <1>1, <1>2, <1>4 DEF RecordInv, EndedInv
<1> QED
  BY <1>3, <1>5, <1>6 DEF RunInv

LEMMA OtherKeeps ==
  ASSUME RunInv, OtherCompletes
  PROVE  RunInv'
<1>1. RunTypeOK /\ BeginInv /\ EndedInv
  BY DEF RunInv
<1>2. session.state # "none" /\ UNCHANGED << run, tree, child, outside, faults, up >>
  BY DEF OtherCompletes
<1>3. /\ outside' \in 0 .. MaxIncidents /\ faults' \in 0 .. MaxIncidents
      /\ session \in SessionTypes
  BY <1>1, <1>2, Types
<1>4. /\ "usage.unavailable" \in Kinds \ {"process.started"}
      /\ "session.interrupted" \in Kinds \ {"process.started"}
      /\ "session.interrupted" \in Endings /\ "interrupted" \in Terminal
  BY DEF Kinds, Endings, Terminal
<1>5. CASE other = "idle" /\ other' = FirstPart /\ UNCHANGED << session, log >>
  <2>1. other' \in {"gapping", "closing"}
    BY <1>5 DEF FirstPart
  <2>2. session'.state \in Terminal => Closed'
    BY <1>1, <1>5, Unlogged DEF EndedInv
  <2> QED
    BY <1>2, <1>3, <1>5, <2>1, <2>2, OutsideKeeps
<1>6. CASE /\ other = "gapping" /\ Running /\ other' = "closing"
           /\ log' = Append(log, "usage.unavailable") /\ session' = Explained
  <2>1. session' \in SessionTypes /\ session'.state = "running" /\ "running" \notin Terminal
    BY <1>3, <1>6 DEF Explained, SessionTypes, Running, Terminal
  <2> QED
    BY <1>2, <1>3, <1>4, <1>6, <2>1, OutsideKeeps
<1>7. CASE /\ other = "closing" /\ Running /\ other' = "saving"
           /\ log' = Append(log, "session.interrupted") /\ UNCHANGED session
  <2>1. Closed'
    BY <1>1, <1>4, <1>7, Types, Appended
  <2> QED
    BY <1>2, <1>3, <1>4, <1>7, <2>1, OutsideKeeps
<1>8. CASE /\ other = "saving" /\ other' = "done"
           /\ session' = [session EXCEPT !.state = "interrupted"] /\ UNCHANGED log
  <2>1. session' \in SessionTypes /\ session'.state = "interrupted"
    BY <1>3, <1>4, <1>8 DEF SessionTypes
  <2>2. Closed'
    BY <1>1, <1>8, Unlogged DEF EndedInv
  <2> QED
    BY <1>2, <1>3, <1>8, <2>1, <2>2, OutsideKeeps
<1>9. CASE /\ other \in {"gapping", "closing"} /\ ~Running /\ other' = "refused"
           /\ UNCHANGED << session, log >>
  <2>1. session'.state \in Terminal => Closed'
    BY <1>1, <1>9, Unlogged DEF EndedInv
  <2> QED
    BY <1>2, <1>3, <1>9, <2>1, OutsideKeeps
<1> QED
  BY <1>5, <1>6, <1>7, <1>8, <1>9 DEF OtherCompletes

(* An event of an integration or of the evaluation.                        *)
LEMMA EventKeeps ==
  ASSUME RunInv, UNCHANGED << run, tree, child, other, faults, up >>,
         session.state # "none", session' \in SessionTypes, session'.state = session.state,
         outside' \in 0 .. MaxIncidents,
         NEW kind \in Kinds \ {"process.started"}, log' = Append(log, kind)
  PROVE  RunInv'
<1>1. RunTypeOK /\ EndedInv
  BY DEF RunInv
<1>2. Closed => Closed'
  BY <1>1, Types, Appended
<1>3. other' \in {"saving", "done"} \/ session'.state \in Terminal => Closed'
  BY <1>1, <1>2 DEF EndedInv
<1> QED
  BY <1>1, <1>3, Types, OutsideKeeps

LEMMA AsideKeeps ==
  ASSUME RunInv, IntegrationAppends \/ SupervisorStops \/ ChildExits
  PROVE  RunInv'
<1>1. RunTypeOK /\ BeginInv /\ WorkInv /\ RecordInv /\ EndedInv
  BY DEF RunInv
<1>2. CASE IntegrationAppends
  <2>1. /\ UNCHANGED << run, tree, child, other, faults, up >> /\ session.state = "running"
        /\ outside' = outside + 1 /\ MayDisturb
        /\ log' = Append(log, "usage.reported") /\ session' = [session EXCEPT !.usage = "known"]
    BY <1>2 DEF IntegrationAppends, Running
  <2>2. session' \in SessionTypes /\ session'.state = session.state
    BY <1>1, <2>1, Types DEF SessionTypes
  <2>3. outside' \in 0 .. MaxIncidents
    BY <1>1, <2>1, Types, RunAssumption DEF MayDisturb
  <2>4. "usage.reported" \in Kinds \ {"process.started"}
    BY DEF Kinds
  <2> QED
    BY <2>1, <2>2, <2>3, <2>4, EventKeeps
<1>3. CASE SupervisorStops
  <2>1. /\ UNCHANGED << run, session, log, tree, child, other, outside, faults >> /\ up' = FALSE
    BY <1>3 DEF SupervisorStops
  <2>2. other' \in {"saving", "done"} \/ session'.state \in Terminal => Closed'
    BY <1>1, <2>1, Unlogged DEF EndedInv
  <2> QED
    BY <1>1, <2>1, <2>2, Types, OutsideKeeps
<1>4. CASE ChildExits
  <2>1. /\ UNCHANGED << run, session, log, tree, other, outside, faults, up >> /\ child' = "exited"
    BY <1>4 DEF ChildExits
  <2>2. /\ Started' <=> Started
        /\ Diffed' <=> Diffed
        /\ Concluded' <=> Concluded
        /\ Closed' <=> Closed
        /\ Whole' <=> Whole
    BY <2>1, Unlogged DEF Whole
  <2>3. RunTypeOK'
    BY <1>1, <2>1, RunTyped, Types
  <2>4. BeginInv' /\ WorkInv' /\ RecordInv' /\ EndedInv'
    BY <1>1, <2>1, <2>2 DEF BeginInv, WorkInv, RecordInv, EndedInv
  <2> QED
    BY <2>3, <2>4 DEF RunInv
<1> QED
  BY <1>2, <1>3, <1>4

LEMMA RunKeeps == RunInv /\ RunNext => RunInv'
BY LaunchKeeps, ProcessKeeps, ReportKeeps, RemovalKeeps, EndRunKeeps, FailureKeeps, OtherKeeps,
   AsideKeeps DEF RunNext, RunWorks

-----------------------------------------------------------------------------
(* The answers to a follower.                                              *)

(* The filter of a log that is one event longer, and back.                 *)
Longer(f, M, c, n) ==
  [m \in c .. n + 1 |->
     IF m <= n THEN f[m] ELSE IF m \in M THEN Append(f[m - 1], m) ELSE f[m - 1]]
Cut(g, c, n) == [m \in c .. n |-> g[m]]

LEMMA FilterFacts ==
  ASSUME NEW M, NEW n \in Nat, NEW c \in 0 .. n
  PROVE  /\ \A f : Filters(f, M, c, n) => Filters(Longer(f, M, c, n), M, c, n + 1)
         /\ \A g : Filters(g, M, c, n + 1) =>
              /\ Filters(Cut(g, c, n), M, c, n) /\ Cut(g, c, n)[n] = g[n]
              /\ g[n + 1] = IF n + 1 \in M THEN Append(g[n], n + 1) ELSE g[n]
<1>1. ASSUME NEW f, Filters(f, M, c, n)
      PROVE  Filters(Longer(f, M, c, n), M, c, n + 1)
  <2> DEFINE g == Longer(f, M, c, n)
             Next1(m) == IF m = c THEN << >>
                         ELSE IF m \in M THEN Append(g[m - 1], m) ELSE g[m - 1]
  <2>1. \A m \in c .. n : g[m] = f[m] /\ m \in c .. n + 1
    BY DEF Longer
  <2>2. \A m \in c .. n : f[m] = IF m = c THEN << >>
                                 ELSE IF m \in M THEN Append(f[m - 1], m) ELSE f[m - 1]
    BY <1>1 DEF Filters
  <2>3. \A m \in c .. n : m # c => m - 1 \in c .. n
    OBVIOUS
  <2>4. \A m \in c .. n : g[m] = Next1(m)
    BY <2>1, <2>2, <2>3
  <2>5. g[n + 1] = IF n + 1 \in M THEN Append(f[n], n + 1) ELSE f[n]
    BY DEF Longer
  <2>6. g[n + 1] = Next1(n + 1)
    BY <2>1, <2>5
  <2>7. \A m \in c .. n + 1 : m \in c .. n \/ m = n + 1
    OBVIOUS
  <2>8. g = [m \in c .. n + 1 |-> g[m]]
    BY DEF Longer
  <2>9. \A m \in c .. n + 1 : g[m] = Next1(m)
    BY <2>4, <2>6, <2>7
  <2> HIDE DEF g
  <2>10. g = [m \in c .. n + 1 |-> Next1(m)]
    BY <2>8, <2>9
  <2> QED
    BY <2>10 DEF Filters, g
<1>2. ASSUME NEW g, Filters(g, M, c, n + 1)
      PROVE  /\ Filters(Cut(g, c, n), M, c, n) /\ Cut(g, c, n)[n] = g[n]
             /\ g[n + 1] = IF n + 1 \in M THEN Append(g[n], n + 1) ELSE g[n]
  <2> DEFINE f == Cut(g, c, n)
             Next1(m) == IF m = c THEN << >>
                         ELSE IF m \in M THEN Append(f[m - 1], m) ELSE f[m - 1]
  <2>1. \A m \in c .. n + 1 : g[m] = IF m = c THEN << >>
                                     ELSE IF m \in M THEN Append(g[m - 1], m) ELSE g[m - 1]
    BY <1>2 DEF Filters
  <2>2. \A m \in c .. n : f[m] = g[m] /\ m \in c .. n + 1 /\ (m # c => m - 1 \in c .. n)
    BY DEF Cut
  <2>3. \A m \in c .. n : f[m] = Next1(m)
    BY <2>1, <2>2
  <2>4. f = [m \in c .. n |-> f[m]]
    BY DEF Cut
  <2> HIDE DEF f
  <2>5. f = [m \in c .. n |-> Next1(m)]
    BY <2>3, <2>4
  <2>6. Filters(f, M, c, n)
    BY <2>5 DEF Filters
  <2>7. n \in c .. n /\ n + 1 \in c .. n + 1 /\ n + 1 # c
    OBVIOUS
  <2>8. g[n + 1] = IF n + 1 \in M THEN Append(g[n], n + 1) ELSE g[n]
    BY <2>1, <2>7
  <2> QED
    BY <2>2, <2>6, <2>7, <2>8 DEF f
<1> QED
  BY <1>1, <1>2

(* One more event answers one more position, if it matches.                *)
LEMMA AnswerGrows ==
  ASSUME NEW M, NEW n \in Nat, NEW c \in 0 .. n, NEW s, Answers(s, M, c, n)
  PROVE  Answers(IF n + 1 \in M THEN Append(s, n + 1) ELSE s, M, c, n + 1)
<1>1. s \in Seq(Nat) /\ Len(s) \in Nat /\ DOMAIN s = 1 .. Len(s)
  BY DEF Answers
<1>2. CASE n + 1 \notin M
  <2>1. \A m \in c + 1 .. n + 1 : m = n + 1 \/ m \in c + 1 .. n
    OBVIOUS
  <2>2. \A m \in c + 1 .. n : m \in c + 1 .. n + 1
    OBVIOUS
  <2> QED
    BY <1>2, <2>1, <2>2 DEF Answers
<1>3. CASE n + 1 \in M
  <2> DEFINE t == Append(s, n + 1)
  <2>1. /\ t \in Seq(Nat) /\ DOMAIN t = 1 .. Len(s) + 1 /\ t[Len(s) + 1] = n + 1
        /\ \A i \in 1 .. Len(s) : t[i] = s[i]
    BY <1>1
  <2> HIDE DEF t
  <2>2. \A i \in 1 .. Len(s) : s[i] \in c + 1 .. n /\ s[i] \in M
    BY <1>1 DEF Answers
  <2>3. \A i, j \in DOMAIN t : i < j => t[i] < t[j]
    <3> SUFFICES ASSUME NEW i \in 1 .. Len(s) + 1, NEW j \in 1 .. Len(s) + 1, i < j
                 PROVE  t[i] < t[j]
      BY <2>1
    <3>1. i \in 1 .. Len(s) /\ t[i] = s[i]
      BY <1>1, <2>1
    <3>2. CASE j \in 1 .. Len(s)
      BY <1>1, <2>1, <3>1, <3>2 DEF Answers
    <3>3. CASE j = Len(s) + 1
      BY <2>1, <2>2, <3>1, <3>3
    <3> QED
      BY <1>1, <3>2, <3>3
  <2>4. \A i \in DOMAIN t : t[i] \in c + 1 .. n + 1 /\ t[i] \in M
    <3> SUFFICES ASSUME NEW i \in 1 .. Len(s) + 1
                 PROVE  t[i] \in c + 1 .. n + 1 /\ t[i] \in M
      BY <2>1
    <3>1. CASE i \in 1 .. Len(s)
      BY <2>1, <2>2, <3>1
    <3>2. CASE i = Len(s) + 1
      BY <1>3, <2>1, <3>2
    <3> QED
      BY <1>1, <3>1, <3>2
  <2>5. \A m \in c + 1 .. n + 1 : m \in M => \E i \in DOMAIN t : t[i] = m
    <3> SUFFICES ASSUME NEW m \in c + 1 .. n + 1, m \in M
                 PROVE  \E i \in 1 .. Len(s) + 1 : t[i] = m
      BY <2>1
    <3>1. CASE m = n + 1
      BY <1>1, <2>1, <3>1
    <3>2. CASE m \in c + 1 .. n
      <4>1. PICK i \in 1 .. Len(s) : s[i] = m
        BY <1>1, <3>2 DEF Answers
      <4> QED
        BY <1>1, <2>1, <4>1
    <3> QED
      BY <3>1, <3>2
  <2>6. Answers(t, M, c, n + 1)
    BY <2>1, <2>3, <2>4, <2>5 DEF Answers
  <2> QED
    BY <1>3, <2>6 DEF t
<1> QED
  BY <1>2, <1>3

(* Both look at the positions up to n only.                                *)
LEMMA SameMatches ==
  ASSUME NEW M, NEW N, NEW n \in Nat, NEW c \in 0 .. n, \A m \in 1 .. n : m \in M <=> m \in N
  PROVE  /\ \A f : Filters(f, M, c, n) <=> Filters(f, N, c, n)
         /\ \A s : Answers(s, M, c, n) <=> Answers(s, N, c, n)
<1>1. \A m \in c .. n : m = c \/ (m \in M <=> m \in N)
  OBVIOUS
<1>2. \A m \in c + 1 .. n : m \in M <=> m \in N
  OBVIOUS
<1>3. \A f : Filters(f, M, c, n) <=> Filters(f, N, c, n)
  <2> SUFFICES ASSUME NEW f
               PROVE  Filters(f, M, c, n) <=> Filters(f, N, c, n)
    OBVIOUS
  <2>1. [m \in c .. n |->
           IF m = c THEN << >> ELSE IF m \in M THEN Append(f[m - 1], m) ELSE f[m - 1]]
        = [m \in c .. n |->
           IF m = c THEN << >> ELSE IF m \in N THEN Append(f[m - 1], m) ELSE f[m - 1]]
    BY <1>1
  <2> QED
    BY <2>1 DEF Filters
<1>4. \A s : Answers(s, M, c, n) <=> Answers(s, N, c, n)
  BY <1>2 DEF Answers
<1> QED
  BY <1>3, <1>4

(* From a log to the next one.                                             *)
LEMMA FilterStep ==
  ASSUME NEW M, NEW N, NEW n \in Nat, \A m \in 1 .. n : m \in M <=> m \in N,
         NEW c \in 0 .. n,
         \E f : Filters(f, M, c, n),
         \A f : Filters(f, M, c, n) => Answers(f[n], M, c, n)
  PROVE  /\ \E f : Filters(f, N, c, n + 1)
         /\ \A f : Filters(f, N, c, n + 1) => Answers(f[n + 1], N, c, n + 1)
<1>1. \E f : Filters(f, N, c, n + 1)
  <2>1. PICK f : Filters(f, N, c, n)
    BY SameMatches
  <2> QED
    BY <2>1, FilterFacts
<1>2. ASSUME NEW g, Filters(g, N, c, n + 1)
      PROVE  Answers(g[n + 1], N, c, n + 1)
  <2>1. /\ Filters(Cut(g, c, n), N, c, n) /\ Cut(g, c, n)[n] = g[n]
        /\ g[n + 1] = IF n + 1 \in N THEN Append(g[n], n + 1) ELSE g[n]
    <3>1. \A h : Filters(h, N, c, n + 1) =>
               /\ Filters(Cut(h, c, n), N, c, n) /\ Cut(h, c, n)[n] = h[n]
               /\ h[n + 1] = IF n + 1 \in N THEN Append(h[n], n + 1) ELSE h[n]
      BY FilterFacts
    <3> QED
      BY <1>2, <3>1
  <2>2. Answers(g[n], N, c, n)
    BY <2>1, SameMatches
  <2>3. Answers(IF n + 1 \in N THEN Append(g[n], n + 1) ELSE g[n], N, c, n + 1)
    BY <2>2, AnswerGrows
  <2> QED
    BY <2>1, <2>3
<1> QED
  BY <1>1, <1>2

LEMMA FilterStart ==
  ASSUME NEW M, NEW n \in Nat
  PROVE  /\ \E f : Filters(f, M, n, n)
         /\ \A f : Filters(f, M, n, n) => Answers(f[n], M, n, n)
<1>1. \A m \in n .. n : m = n
  OBVIOUS
<1>2. \E f : Filters(f, M, n, n)
  <2>1. PICK f : f = [m \in n .. n |-> << >>]
    OBVIOUS
  <2>2. f = [m \in n .. n |->
              IF m = n THEN << >> ELSE IF m \in M THEN Append(f[m - 1], m) ELSE f[m - 1]]
    BY <1>1, <2>1
  <2> QED
    BY <2>2 DEF Filters
<1>3. ASSUME NEW f, Filters(f, M, n, n)
      PROVE  Answers(f[n], M, n, n)
  <2>1. n \in n .. n /\ f[n] = << >>
    BY <1>3 DEF Filters
  <2>2. n + 1 .. n = {}
    OBVIOUS
  <2> QED
    BY <2>1, <2>2 DEF Answers
<1> QED
  BY <1>2, <1>3

LEMMA FilterKeeps ==
  ASSUME log \in Seq(Kinds), FilterInv, Grows, follower'.mode = follower.mode
  PROVE  FilterInv'
<1> DEFINE n == Len(log)
<1>1. /\ n \in Nat /\ Len(log') \in Nat /\ Len(log') \in {n, n + 1}
      /\ \A i \in 1 .. n : log'[i] = log[i]
      /\ Len(log') = n => log' = log
  BY DEF Grows
<1>2. \A m \in 1 .. n : m \in Matching <=> m \in Matching'
  BY <1>1 DEF Matching, Matches
<1>3. CASE Len(log') = n
  <2>1. \A m : m \in Matching <=> m \in Matching'
    BY <1>1, <1>3 DEF Matching, Matches
  <2>2. Matching' = Matching
    BY <2>1
  <2> QED
    BY <1>3, <2>2 DEF FilterInv
<1>4. CASE Len(log') = n + 1
  <2> SUFFICES ASSUME NEW c \in 0 .. n + 1
               PROVE  /\ \E f : Filters(f, Matching', c, n + 1)
                      /\ \A f : Filters(f, Matching', c, n + 1) =>
                           Answers(f[n + 1], Matching', c, n + 1)
    BY <1>4 DEF FilterInv
  <2>1. CASE c = n + 1
    BY <1>1, <2>1, FilterStart
  <2>2. CASE c \in 0 .. n
    <3>1. /\ \E f : Filters(f, Matching, c, n)
          /\ \A f : Filters(f, Matching, c, n) => Answers(f[n], Matching, c, n)
      BY <2>2 DEF FilterInv
    <3> HIDE DEF n
    <3> QED
      BY <1>1, <1>2, <2>2, <3>1, FilterStep
  <2> QED
    BY <1>1, <2>1, <2>2
<1> QED
  BY <1>1, <1>3, <1>4

(* What getEvents() answers.                                               *)
LEMMA AfterAnswers ==
  ASSUME log \in Seq(Kinds), FilterInv, NEW c \in 0 .. Len(log)
  PROVE  Answers(After(c), Matching, c, Len(log))
<1> DEFINE f == CHOOSE f : Filters(f, Matching, c, Len(log))
<1>1. Len(log) \in Nat
  OBVIOUS
<1>2. Answers(f[Len(log)], Matching, c, Len(log))
  BY DEF FilterInv
<1>3. \A g : Filters(g, Matching, c, Len(log)) <=>
               g = [m \in c .. Len(log) |->
                      IF m = c THEN << >> ELSE IF Matches(m) THEN Append(g[m - 1], m) ELSE g[m - 1]]
  <2>1. \A m \in c .. Len(log) : m = c \/ (m \in Matching <=> Matches(m))
    BY <1>1 DEF Matching
  <2> SUFFICES ASSUME NEW g
               PROVE  [m \in c .. Len(log) |->
                         IF m = c THEN << >>
                         ELSE IF m \in Matching THEN Append(g[m - 1], m) ELSE g[m - 1]]
                      = [m \in c .. Len(log) |->
                         IF m = c THEN << >>
                         ELSE IF Matches(m) THEN Append(g[m - 1], m) ELSE g[m - 1]]
    BY DEF Filters
  <2> QED
    BY <2>1
<1>4. f = CHOOSE g : g = [m \in c .. Len(log) |->
                            IF m = c THEN << >>
                            ELSE IF Matches(m) THEN Append(g[m - 1], m) ELSE g[m - 1]]
  BY <1>3
<1>5. After(c) = f[Len(log)]
  BY <1>4 DEF After
<1> QED
  BY <1>2, <1>5

-----------------------------------------------------------------------------
(* What a follower is given.                                               *)

(* The first k positions of an answer are those up to the k-th.            *)
LEMMA PrefixAnswers ==
  ASSUME NEW M, NEW n \in Nat, NEW c \in 0 .. n, NEW s, Answers(s, M, c, n), NEW k \in 1 .. Len(s)
  PROVE  /\ s[k] \in c + 1 .. n
         /\ Answers(SubSeq(s, 1, k), M, c, s[k])
<1>1. /\ s \in Seq(Nat) /\ Len(s) \in Nat /\ DOMAIN s = 1 .. Len(s)
      /\ \A i \in 1 .. Len(s) : s[i] \in c + 1 .. n /\ s[i] \in M
      /\ \A i, j \in 1 .. Len(s) : i < j => s[i] < s[j]
      /\ \A m \in c + 1 .. n : m \in M => \E i \in 1 .. Len(s) : s[i] = m
  BY DEF Answers
<1> DEFINE t == SubSeq(s, 1, k)
<1>2. /\ t \in Seq(Nat) /\ Len(t) = k /\ DOMAIN t = 1 .. k
      /\ \A i \in 1 .. k : t[i] = s[i]
  BY <1>1
<1> HIDE DEF t
<1>3. \A i \in 1 .. k : s[i] \in c + 1 .. s[k]
  <2> SUFFICES ASSUME NEW i \in 1 .. k
               PROVE  s[i] \in c + 1 .. s[k]
    OBVIOUS
  <2>1. i \in 1 .. Len(s) /\ (i = k \/ i < k)
    BY <1>1
  <2>2. s[i] = s[k] \/ s[i] < s[k]
    BY <1>1, <2>1
  <2> QED
    BY <1>1, <2>1, <2>2
<1>4. \A m \in c + 1 .. s[k] : m \in M => \E i \in 1 .. k : s[i] = m
  <2> SUFFICES ASSUME NEW m \in c + 1 .. s[k], m \in M
               PROVE  \E i \in 1 .. k : s[i] = m
    OBVIOUS
  <2>1. m \in c + 1 .. n
    BY <1>1
  <2>2. PICK i \in 1 .. Len(s) : s[i] = m
    BY <1>1, <2>1
  <2>3. ~(k < i)
    <3> SUFFICES ASSUME k < i
                 PROVE  FALSE
      OBVIOUS
    <3>1. s[k] < s[i] /\ s[k] \in Nat
      BY <1>1
    <3> QED
      BY <2>2, <3>1
  <2> QED
    BY <2>2, <2>3
<1>5. Answers(t, M, c, s[k])
  <2>1. \A i, j \in DOMAIN t : i < j => t[i] < t[j]
    BY <1>1, <1>2
  <2>2. \A i \in DOMAIN t : t[i] \in c + 1 .. s[k] /\ t[i] \in M
    BY <1>1, <1>2, <1>3
  <2>3. \A m \in c + 1 .. s[k] : m \in M => \E i \in DOMAIN t : t[i] = m
    BY <1>2, <1>4
  <2> QED
    BY <1>2, <2>1, <2>2, <2>3 DEF Answers
<1> QED
  BY <1>1, <1>5 DEF t

(* An answer continues what was given up to the cursor.                    *)
LEMMA Continues ==
  ASSUME NEW g \in Seq(Nat), NEW c \in Nat, NEW d \in Nat, c <= d, d <= Len(log),
         log \in Seq(Kinds), Lists(g, c), NEW s, Answers(s, Matching, c, d)
  PROVE  g \o s \in Seq(Nat) /\ Lists(g \o s, d)
<1>1. /\ s \in Seq(Nat) /\ Len(s) \in Nat /\ DOMAIN s = 1 .. Len(s)
      /\ \A i \in 1 .. Len(s) : s[i] \in c + 1 .. d /\ Matches(s[i])
      /\ \A i, j \in 1 .. Len(s) : i < j => s[i] < s[j]
  BY DEF Answers, Matching
<1>2. \A m \in c + 1 .. d : Matches(m) => \E i \in 1 .. Len(s) : s[i] = m
  <2>1. \A m \in c + 1 .. d : m \in 1 .. Len(log)
    OBVIOUS
  <2> QED
    BY <1>1, <2>1 DEF Answers, Matching
<1>3. /\ Len(g) \in Nat /\ DOMAIN g = 1 .. Len(g)
      /\ \A i \in 1 .. Len(g) : g[i] \in 1 .. c /\ Matches(g[i])
      /\ \A i, j \in 1 .. Len(g) : i < j => g[i] < g[j]
      /\ \A m \in 1 .. c : Matches(m) => \E i \in 1 .. Len(g) : g[i] = m
  <2>1. Range(g) = {g[i] : i \in 1 .. Len(g)}
    BY DEF Range
  <2>2. {g[i] : i \in 1 .. Len(g)} = {m \in 1 .. c : Matches(m)}
    BY <2>1 DEF Lists
  <2>3. \A i \in 1 .. Len(g) : g[i] \in 1 .. c /\ Matches(g[i])
    BY <2>2
  <2>4. \A m \in 1 .. c : Matches(m) => \E i \in 1 .. Len(g) : g[i] = m
    BY <2>2
  <2> QED
    BY <2>3, <2>4 DEF Lists
<1> DEFINE t == g \o s
<1>4. /\ t \in Seq(Nat) /\ DOMAIN t = 1 .. Len(g) + Len(s)
      /\ \A i \in 1 .. Len(g) : t[i] = g[i]
      /\ \A i \in 1 .. Len(s) : t[Len(g) + i] = s[i]
  BY <1>1, <1>3
<1> HIDE DEF t
<1>5. \A i \in 1 .. Len(g) + Len(s) :
        i \in 1 .. Len(g) \/ (i - Len(g) \in 1 .. Len(s) /\ t[i] = s[i - Len(g)])
  <2> SUFFICES ASSUME NEW i \in 1 .. Len(g) + Len(s), i \notin 1 .. Len(g)
               PROVE  i - Len(g) \in 1 .. Len(s) /\ t[i] = s[i - Len(g)]
    OBVIOUS
  <2>1. i - Len(g) \in 1 .. Len(s) /\ Len(g) + (i - Len(g)) = i
    BY <1>1, <1>3
  <2> QED
    BY <1>4, <2>1
<1>6. \A i, j \in DOMAIN t : i < j => t[i] < t[j]
  <2> SUFFICES ASSUME NEW i \in 1 .. Len(g) + Len(s), NEW j \in 1 .. Len(g) + Len(s), i < j
               PROVE  t[i] < t[j]
    BY <1>4
  <2>1. CASE i \in 1 .. Len(g) /\ j \in 1 .. Len(g)
    BY <1>3, <1>4, <2>1
  <2>2. CASE i \in 1 .. Len(g) /\ j \notin 1 .. Len(g)
    <3>1. t[i] \in 1 .. c /\ t[j] \in c + 1 .. d
      BY <1>1, <1>3, <1>4, <1>5, <2>2
    <3> QED
      BY <3>1
  <2>3. CASE i \notin 1 .. Len(g)
    <3>1. /\ i - Len(g) \in 1 .. Len(s) /\ t[i] = s[i - Len(g)]
          /\ j - Len(g) \in 1 .. Len(s) /\ t[j] = s[j - Len(g)]
          /\ i - Len(g) < j - Len(g)
      BY <1>3, <1>5, <2>3
    <3> QED
      BY <1>1, <3>1
  <2> QED
    BY <2>1, <2>2, <2>3
<1>7. \A i \in DOMAIN t : t[i] \in 1 .. d /\ Matches(t[i])
  <2> SUFFICES ASSUME NEW i \in 1 .. Len(g) + Len(s)
               PROVE  t[i] \in 1 .. d /\ Matches(t[i])
    BY <1>4
  <2>1. CASE i \in 1 .. Len(g)
    BY <1>3, <1>4, <2>1
  <2>2. CASE i \notin 1 .. Len(g)
    BY <1>1, <1>5, <2>2
  <2> QED
    BY <2>1, <2>2
<1>8. \A m \in 1 .. d : Matches(m) => \E i \in DOMAIN t : t[i] = m
  <2> SUFFICES ASSUME NEW m \in 1 .. d, Matches(m)
               PROVE  \E i \in 1 .. Len(g) + Len(s) : t[i] = m
    BY <1>4
  <2>1. CASE m <= c
    <3>1. PICK i \in 1 .. Len(g) : g[i] = m
      BY <1>3, <2>1
    <3>2. i \in 1 .. Len(g) + Len(s)
      BY <1>1, <1>3
    <3> QED
      BY <1>4, <3>1, <3>2
  <2>2. CASE ~(m <= c)
    <3>1. PICK i \in 1 .. Len(s) : s[i] = m
      BY <1>2, <2>2
    <3>2. Len(g) + i \in 1 .. Len(g) + Len(s)
      BY <1>1, <1>3
    <3> QED
      BY <1>4, <3>1, <3>2
  <2> QED
    BY <2>1, <2>2
<1>9. Range(t) = {m \in 1 .. d : Matches(m)}
  <2>1. Range(t) = {t[i] : i \in DOMAIN t}
    BY DEF Range
  <2>2. \A m \in Range(t) : m \in {k \in 1 .. d : Matches(k)}
    BY <1>7, <2>1
  <2>3. \A m \in {k \in 1 .. d : Matches(k)} : m \in Range(t)
    BY <1>8, <2>1
  <2> QED
    BY <2>2, <2>3
<1> QED
  BY <1>4, <1>6, <1>9 DEF Lists, t

-----------------------------------------------------------------------------
(* The run goes on beside its followers.                                   *)

(* It only adds to the log, and neither an ended session nor another       *)
(* client that came is taken back.                                         *)
LEMMA Onwards ==
  ASSUME RunInv, RunNext
  PROVE  /\ Grows
         /\ session.state \in Terminal => session'.state \in Terminal
         /\ other' = "idle" => other = "idle"
<1>1. RunTypeOK /\ BeginInv /\ EndedInv
  BY DEF RunInv
<1>2. /\ session \in SessionTypes
      /\ \A state \in {"none", "running"} \cup Terminal, usage \in {"unknown", "explained", "known"} :
           /\ session' = [session EXCEPT !.state = state] => session'.state = state
           /\ session' = [session EXCEPT !.usage = usage] => session'.state = session.state
  BY <1>1 DEF RunTypeOK, SessionTypes
<1>3. Explained.state = session.state
  BY <1>2 DEF Explained, SessionTypes
<1>4. run.ending \in Terminal
  BY <1>1 DEF RunTypeOK
<1>5. ASSUME UNCHANGED log PROVE Grows
  BY <1>5 DEF Grows
<1>6. ASSUME NEW kind \in Kinds, log' = Append(log, kind) PROVE Grows
  BY <1>6 DEF Grows
<1>7. CASE CreateSession
  <2>1. run.at = "requested" /\ other' = other
    BY <1>7 DEF CreateSession, At
  <2>2. log = << >> /\ session.state = "none"
    BY <1>1, <2>1 DEF BeginInv
  <2>3. log' = Append(log, "session.started")
    BY <1>7, <2>2 DEF CreateSession
  <2>4. "session.started" \in Kinds
    BY DEF Kinds
  <2> QED
    BY <1>6, <2>1, <2>2, <2>3, <2>4 DEF Terminal
<1>8. CASE Place \/ Spawn \/ ChildClosed \/ OutputRecorded \/ RemoveWorktree \/ Refused
           \/ ChildExits \/ SupervisorStops
  <2>1. UNCHANGED << session, log, other >>
    BY <1>8 DEF Place, Spawn, ChildClosed, OutputRecorded, RemoveWorktree, Refused, ChildExits,
                SupervisorStops
  <2> QED
    BY <1>5, <2>1
<1>9. CASE Decide \/ AnnounceWorktree \/ StartProcess \/ RecordOutput \/ RecordDiff \/ RecordRemoval
  <2>1. UNCHANGED << session, other >> /\ \E kind \in Kinds : log' = Append(log, kind)
    BY <1>9 DEF Decide, AnnounceWorktree, StartProcess, RecordOutput, RecordDiff, RecordRemoval, Removal,
                Appends, Kinds
  <2> QED
    BY <1>6, <2>1
<1>10. CASE RecordOutcome
  <2>1. UNCHANGED << session, other >> /\ log' = Append(log, Outcome)
    BY <1>10 DEF RecordOutcome, Appends
  <2>2. Outcome \in Kinds
    BY DEF Outcome, Kinds, Outcomes
  <2> QED
    BY <1>6, <2>1, <2>2
<1>11. CASE EndRun
  <2>1. UNCHANGED other
    BY <1>11 DEF EndRun, Appends
  <2>2. CASE UNCHANGED << session, log >>
    BY <1>5, <2>1, <2>2
  <2>3. CASE session' = Explained /\ log' = Append(log, "usage.unavailable")
    <3>1. "usage.unavailable" \in Kinds
      BY DEF Kinds
    <3> QED
      BY <1>3, <1>6, <2>1, <2>3, <3>1
  <2>4. CASE UNCHANGED session /\ log' = Append(log, EndingOf(run.ending))
    <3>1. EndingOf(run.ending) \in Kinds
      BY DEF EndingOf, Kinds, Endings
    <3> QED
      BY <1>6, <2>1, <2>4, <3>1
  <2>5. CASE session' = [session EXCEPT !.state = run.ending] /\ UNCHANGED log
    BY <1>2, <1>4, <1>5, <2>1, <2>5
  <2> QED
    BY <1>11, <2>2, <2>3, <2>4, <2>5 DEF EndRun, Appends
<1>12. CASE OperationRejects
  <2>1. /\ UNCHANGED << log, other >>
        /\ UNCHANGED session \/ session' = [session EXCEPT !.state = run.ending]
    BY <1>12 DEF OperationRejects
  <2> QED
    BY <1>2, <1>4, <1>5, <2>1
<1>13. CASE OtherCompletes
  <2>1. other' = "idle" => other = "idle"
    BY <1>13 DEF OtherCompletes, FirstPart
  <2>2. CASE UNCHANGED << session, log >>
    BY <1>5, <2>1, <2>2
  <2>3. CASE session' = Explained /\ log' = Append(log, "usage.unavailable")
    <3>1. "usage.unavailable" \in Kinds
      BY DEF Kinds
    <3> QED
      BY <1>3, <1>6, <2>1, <2>3, <3>1
  <2>4. CASE UNCHANGED session /\ log' = Append(log, "session.interrupted")
    <3>1. "session.interrupted" \in Kinds
      BY DEF Kinds, Endings
    <3> QED
      BY <1>6, <2>1, <2>4, <3>1
  <2>5. CASE session' = [session EXCEPT !.state = "interrupted"] /\ UNCHANGED log
    <3>1. "interrupted" \in Terminal
      BY DEF Terminal
    <3> QED
      BY <1>2, <1>5, <2>1, <2>5, <3>1
  <2> QED
    BY <1>13, <2>2, <2>3, <2>4, <2>5 DEF OtherCompletes
<1>14. CASE IntegrationAppends
  <2>1. /\ UNCHANGED other /\ log' = Append(log, "usage.reported")
        /\ session' = [session EXCEPT !.usage = "known"] /\ "usage.reported" \in Kinds
    BY <1>14 DEF IntegrationAppends, Kinds
  <2> QED
    BY <1>2, <1>6, <2>1
<1> QED
  BY <1>7, <1>8, <1>9, <1>10, <1>11, <1>12, <1>13, <1>14 DEF RunNext, RunWorks

(* What a follower was given stays what it asked for.                      *)
LEMMA ListsStays ==
  ASSUME log \in Seq(Kinds), Grows, UNCHANGED got, follower'.mode = follower.mode,
         NEW c \in 0 .. Len(log)
  PROVE  Lists(got, c)' <=> Lists(got, c)
<1>1. \A m \in 1 .. c : m \in 1 .. Len(log)
  BY LogStays
<1>2. \A m \in 1 .. c : Matches(m)' <=> Matches(m)
  BY <1>1, LogStays DEF Matches
<1>3. {m \in 1 .. c : Matches(m)}' = {m \in 1 .. c : Matches(m)}
  BY <1>2
<1>4. Range(got)' = Range(got)
  BY DEF Range
<1> QED
  BY <1>3, <1>4 DEF Lists

(* A step beside the follower.                                             *)
LEMMA BesideKeeps ==
  ASSUME log \in Seq(Kinds), Grows, UNCHANGED clientVars,
         session.state \in Terminal => session'.state \in Terminal,
         FollowerTypeOK, ClientInv, FilterInv
  PROVE  FollowerTypeOK' /\ ClientInv' /\ FilterInv'
<1>1. UNCHANGED << follower, got, resumes >>
  BY DEF clientVars
<1>2. follower.cursor \in 0 .. Len(log)
  BY LogStays DEF FollowerTypeOK, ClientInv
<1>3. Lists(got, follower.cursor)' <=> Lists(got, follower.cursor)
  <2>1. \A c \in 0 .. Len(log) : Lists(got, c)' <=> Lists(got, c)
    BY <1>1, ListsStays
  <2> QED
    BY <1>1, <1>2, <2>1 DEF Lists, Matches
<1>4. Has(Endings, follower.cursor)' <=> Has(Endings, follower.cursor)
  BY <1>1, <1>2, HasStays
<1>5. follower'.cursor <= Len(log')
  BY <1>1, <1>2, LogStays
<1>6. FilterInv'
  BY <1>1, FilterKeeps
<1>7. ClientInv'
  BY <1>1, <1>3, <1>4, <1>5 DEF ClientInv
<1> QED
  BY <1>1, <1>6, <1>7 DEF FollowerTypeOK

LEMMA JudgeKeeps ==
  ASSUME log \in Seq(Kinds), Grows, UNCHANGED judged, other' = "idle" => other = "idle", JudgeInv
  PROVE  JudgeInv'
<1>1. judged \in 0 .. Len(log) /\ judged' = judged /\ judged <= Len(log')
  BY LogStays DEF JudgeInv
<1>2. ASSUME NEW kinds
      PROVE  Has(kinds, judged)' <=> Has(kinds, judged)
  <2>1. \A i \in 1 .. judged : log'[i] = log[i]
    BY <1>1, LogStays
  <2> QED
    BY <1>1, <2>1 DEF Has
<1> QED
  BY <1>1, <1>2 DEF JudgeInv

-----------------------------------------------------------------------------
(* The steps of the client.                                                *)

FollowerTypes ==
  [mode : Modes, at : {"idle", "read", "done", "gone"}, cursor : Nat, ended : BOOLEAN]

(* A follower that goes on with an answer.                                 *)
LEMMA MovedOn ==
  ASSUME FollowerTypeOK,
         NEW place \in {"idle", "read", "done", "gone"}, NEW cursor \in Nat, NEW ended \in BOOLEAN
  PROVE  /\ follower' = [follower EXCEPT !.at = place, !.ended = ended, !.cursor = cursor] =>
              /\ follower' \in FollowerTypes /\ follower'.mode = follower.mode
              /\ follower'.at = place /\ follower'.cursor = cursor /\ follower'.ended = ended
         /\ follower' = [follower EXCEPT !.at = place, !.ended = ended] =>
              /\ follower' \in FollowerTypes /\ follower'.mode = follower.mode
              /\ follower'.at = place /\ follower'.cursor = follower.cursor
              /\ follower'.ended = ended
         /\ follower' = [follower EXCEPT !.at = place] =>
              /\ follower' \in FollowerTypes /\ follower'.mode = follower.mode
              /\ follower'.at = place /\ follower'.cursor = follower.cursor
              /\ follower'.ended = follower.ended
BY DEF FollowerTypeOK, FollowerTypes

(* What a step of the client has to show.                                  *)
LEMMA ClientStepKeeps ==
  ASSUME RunInv, JudgeInv, ClientInv, FilterInv, UNCHANGED << runVars, judged >>,
         follower' \in FollowerTypes, got' \in Seq(Nat), resumes' \in 0 .. MaxResumes,
         follower'.mode = follower.mode,
         follower'.cursor <= Len(log),
         follower'.mode # "wait" => Lists(got, follower.cursor)',
         follower'.at = "read" /\ follower'.ended => session.state \in Terminal,
         follower'.at = "done" =>
           /\ session.state \in Terminal
           /\ follower'.mode # "wait" => Has(Endings, follower'.cursor)
  PROVE  Inv'
<1>1. UNCHANGED << run, session, log, tree, child, other, outside, faults, up, judged >>
  BY DEF runVars
<1>2. RunInv'
  BY <1>1 DEF RunInv, RunTypeOK, BeginInv, WorkInv, RecordInv, EndedInv, Whole, Noted, Removal, Started, Diffed,
              Concluded, Closed, Logged, Has
<1>3. JudgeInv'
  BY <1>1 DEF JudgeInv, Has
<1>4. ClientInv'
  BY <1>1 DEF ClientInv, Has
<1>5. FilterInv'
  BY <1>1, FilterKeeps DEF Grows, RunInv, RunTypeOK
<1>6. FollowerTypeOK'
  BY DEF FollowerTypeOK, FollowerTypes
<1> QED
  BY <1>2, <1>3, <1>4, <1>5, <1>6 DEF Inv

(* Lists() looks at the log and the mode of the follower only.             *)
LEMMA ListsThen ==
  ASSUME UNCHANGED log, follower'.mode = follower.mode, NEW g, NEW c \in Nat, Lists(g, c),
         got' = g, follower'.cursor = c
  PROVE  Lists(got, follower.cursor)'
<1>1. \A m : Matches(m)' <=> Matches(m)
  BY DEF Matches
<1>2. {m \in 1 .. c : Matches(m)}' = {m \in 1 .. c : Matches(m)}
  BY <1>1
<1>3. Range(got)' = Range(g)
  BY DEF Range
<1> QED
  BY <1>2, <1>3 DEF Lists

LEMMA ReadKeeps ==
  ASSUME Inv, ReadRecord, UNCHANGED << runVars, judged >>
  PROVE  Inv'
<1>1. PICK ended \in BOOLEAN : ended <=> session.state \in Terminal
  OBVIOUS
<1>2. follower' = [follower EXCEPT !.at = "read", !.ended = ended]
  BY <1>1 DEF ReadRecord
<1>3. UNCHANGED << got, resumes, log >>
  BY DEF ReadRecord, runVars
<1>4. /\ follower' \in FollowerTypes /\ follower'.mode = follower.mode
      /\ follower'.at = "read" /\ follower'.cursor = follower.cursor /\ follower'.ended = ended
  BY <1>2, MovedOn DEF Inv
<1>5. /\ follower.cursor \in Nat /\ follower.cursor <= Len(log)
      /\ got' \in Seq(Nat) /\ resumes' \in 0 .. MaxResumes
  BY <1>3 DEF Inv, FollowerTypeOK, ClientInv
<1>6. follower'.mode # "wait" => Lists(got, follower.cursor)'
  BY <1>3, <1>4, <1>5, ListsThen DEF Inv, ClientInv
<1> QED
  BY <1>1, <1>4, <1>5, <1>6, ClientStepKeeps DEF Inv

(* Once the session has ended its ending is logged.                        *)
LEMMA EndKnown ==
  ASSUME Inv, follower.at = "read", NEW ended \in BOOLEAN, ended <=> follower.ended
  PROVE  ended => session.state \in Terminal /\ Has(Endings, Len(log))
BY DEF Inv, ClientInv, RunInv, EndedInv, Closed, Logged

LEMMA WatchKeeps ==
  ASSUME Inv, Watch, UNCHANGED << runVars, judged >>
  PROVE  Inv'
<1>1. follower.at = "read" /\ follower.mode # "follow" /\ UNCHANGED << resumes, log >>
  BY DEF Watch, runVars
<1>2. PICK ended \in BOOLEAN : ended = follower.ended
  BY DEF Inv, FollowerTypeOK
<1>3. ended => session.state \in Terminal /\ Has(Endings, Len(log))
  BY <1>1, <1>2, EndKnown
<1> DEFINE place == IF ended THEN "done" ELSE "idle"
<1>4. AfterAnswer(follower.ended) = place /\ place \in {"idle", "read", "done", "gone"}
  BY <1>2 DEF AfterAnswer
<1>5. place = "done" => ended
  OBVIOUS
<1> HIDE DEF place
<1>6. /\ follower.cursor \in Nat /\ follower.cursor <= Len(log) /\ log \in Seq(Kinds)
      /\ got \in Seq(Nat) /\ resumes' \in 0 .. MaxResumes
  BY <1>1 DEF Inv, FollowerTypeOK, ClientInv, RunInv, RunTypeOK
<1>7. CASE follower.mode = "wait"
  <2>1. follower' = [follower EXCEPT !.at = place, !.ended = FALSE] /\ UNCHANGED got
    BY <1>4, <1>7 DEF Watch
  <2>2. /\ follower' \in FollowerTypes /\ follower'.mode = follower.mode
        /\ follower'.at = place /\ follower'.cursor = follower.cursor
        /\ follower'.ended = FALSE
    BY <1>4, <2>1, MovedOn DEF Inv
  <2> QED
    BY <1>3, <1>4, <1>5, <1>6, <1>7, <2>1, <2>2, ClientStepKeeps DEF Inv
<1>8. CASE follower.mode # "wait"
  <2>1. /\ follower' = [follower EXCEPT !.at = place, !.ended = FALSE, !.cursor = Len(log)]
        /\ got' = got \o After(follower.cursor)
    BY <1>4, <1>8 DEF Watch
  <2>2. Len(log) \in Nat
    BY <1>6
  <2>3. /\ follower' \in FollowerTypes /\ follower'.mode = follower.mode
        /\ follower'.at = place /\ follower'.cursor = Len(log)
        /\ follower'.ended = FALSE
    BY <1>4, <2>1, <2>2, MovedOn DEF Inv
  <2>4. Answers(After(follower.cursor), Matching, follower.cursor, Len(log))
    BY <1>6, AfterAnswers DEF Inv
  <2>5. got' \in Seq(Nat) /\ Lists(got', Len(log))
    <3>1. Lists(got, follower.cursor)
      BY <1>8 DEF Inv, ClientInv
    <3> QED
      BY <1>6, <2>1, <2>2, <2>4, <3>1, Continues
  <2>6. Lists(got, follower.cursor)'
    BY <1>1, <2>2, <2>3, <2>5, ListsThen
  <2> QED
    BY <1>3, <1>4, <1>5, <1>6, <2>2, <2>3, <2>5, <2>6, ClientStepKeeps DEF Inv
<1> QED
  BY <1>7, <1>8

LEMMA DeliverKeeps ==
  ASSUME Inv, Deliver, UNCHANGED << runVars, judged >>
  PROVE  Inv'
<1> DEFINE events == After(follower.cursor)
<1>1. follower.at = "read" /\ follower.mode = "follow" /\ UNCHANGED << resumes, log >>
  BY DEF Deliver, runVars
<1>2. PICK ended \in BOOLEAN : ended = follower.ended
  BY DEF Inv, FollowerTypeOK
<1>3. ended => session.state \in Terminal /\ Has(Endings, Len(log))
  BY <1>1, <1>2, EndKnown
<1>4. /\ follower.cursor \in Nat /\ follower.cursor <= Len(log) /\ log \in Seq(Kinds)
      /\ got \in Seq(Nat) /\ resumes' \in 0 .. MaxResumes /\ Len(log) \in Nat
      /\ Lists(got, follower.cursor)
  BY <1>1 DEF Inv, FollowerTypeOK, ClientInv, RunInv, RunTypeOK
<1>5. Answers(events, Matching, follower.cursor, Len(log))
  BY <1>4, AfterAnswers DEF Inv
<1>6. PICK n \in 0 .. Len(events) :
        /\ got' = got \o SubSeq(events, 1, n)
        /\ follower' = [follower EXCEPT
                          !.cursor = CursorAfter(events, n), !.ended = FALSE,
                          !.at = IF n < Len(events) THEN "gone" ELSE AfterAnswer(follower.ended)]
  BY DEF Deliver
<1>7. events \in Seq(Nat) /\ Len(events) \in Nat /\ DOMAIN events = 1 .. Len(events)
  BY <1>5 DEF Answers
<1> HIDE DEF events
<1> DEFINE place == IF n < Len(events) THEN "gone" ELSE IF ended THEN "done" ELSE "idle"
           cursor == IF n = 0 THEN follower.cursor ELSE events[n]
<1>8. place \in {"idle", "read", "done", "gone"} /\ (place = "done" => ended /\ n = Len(events))
  BY <1>6, <1>7
<1>9. /\ cursor \in follower.cursor .. Len(log)
      /\ Answers(SubSeq(events, 1, n), Matching, follower.cursor, cursor)
  <2>1. CASE n = 0
    <3>1. SubSeq(events, 1, n) = << >> /\ cursor = follower.cursor
      BY <1>7, <2>1
    <3> HIDE DEF cursor
    <3>2. follower.cursor + 1 .. follower.cursor = {}
      BY <1>4
    <3>3. Answers(<< >>, Matching, follower.cursor, follower.cursor)
      BY <3>2 DEF Answers
    <3>4. Answers(SubSeq(events, 1, n), Matching, follower.cursor, cursor)
      BY <3>1, <3>3, Zenon
    <3> QED
      BY <1>4, <3>1, <3>4
  <2>2. CASE n # 0
    <3>1. n \in 1 .. Len(events) /\ cursor = events[n] /\ follower.cursor \in 0 .. Len(log)
      BY <1>4, <1>6, <1>7, <2>2
    <3>2. /\ events[n] \in follower.cursor + 1 .. Len(log)
          /\ Answers(SubSeq(events, 1, n), Matching, follower.cursor, events[n])
      BY <1>4, <1>5, <3>1, PrefixAnswers
    <3> QED
      BY <1>4, <3>1, <3>2
  <2> QED
    BY <2>1, <2>2
<1>10. n = Len(events) => cursor = Len(log)
  <2> SUFFICES ASSUME n = Len(events)
               PROVE  cursor = Len(log)
    OBVIOUS
  <2>1. \A m \in 1 .. Len(log) : m \in Matching
    BY <1>1 DEF Matching, Matches
  <2>2. \A m \in follower.cursor + 1 .. Len(log) : \E i \in 1 .. Len(events) : events[i] = m
    <3>1. \A m \in follower.cursor + 1 .. Len(log) : m \in 1 .. Len(log)
      BY <1>4
    <3> QED
      BY <1>5, <1>7, <2>1, <3>1 DEF Answers
  <2>3. CASE follower.cursor = Len(log)
    BY <1>4, <1>9, <2>3
  <2>4. CASE follower.cursor # Len(log)
    <3>1. Len(log) \in follower.cursor + 1 .. Len(log)
      BY <1>4, <2>4
    <3>2. PICK i \in 1 .. Len(events) : events[i] = Len(log)
      BY <2>2, <3>1
    <3>3. n \in 1 .. Len(events) /\ (i = n \/ i < n) /\ cursor = events[n]
      BY <1>7, <3>2
    <3>4. events[n] \in Nat /\ (i < n => events[i] < events[n])
      BY <1>5, <1>7, <3>2, <3>3 DEF Answers
    <3> QED
      BY <1>4, <1>9, <3>2, <3>3, <3>4
  <2> QED
    BY <2>3, <2>4
<1>11. follower' = [follower EXCEPT !.at = place, !.ended = FALSE, !.cursor = cursor]
  <2>1. place = IF n < Len(events) THEN "gone" ELSE AfterAnswer(follower.ended)
    BY <1>2 DEF AfterAnswer
  <2>2. cursor = CursorAfter(events, n)
    BY DEF CursorAfter
  <2> HIDE DEF place, cursor
  <2>3. follower' = [follower EXCEPT !.cursor = cursor, !.ended = FALSE, !.at = place]
    BY <1>6, <2>1, <2>2
  <2> QED
    BY <2>3 DEF Inv, FollowerTypeOK
<1> HIDE DEF place, cursor
<1>12. cursor \in Nat /\ cursor <= Len(log) /\ follower.cursor <= cursor
  BY <1>4, <1>9
<1>13. /\ follower' \in FollowerTypes /\ follower'.mode = follower.mode
       /\ follower'.at = place /\ follower'.cursor = cursor /\ follower'.ended = FALSE
  BY <1>8, <1>11, <1>12, MovedOn DEF Inv
<1>14. got' \in Seq(Nat) /\ Lists(got', cursor)
  BY <1>4, <1>6, <1>9, <1>12, Continues
<1>15. Lists(got, follower.cursor)'
  BY <1>1, <1>12, <1>13, <1>14, ListsThen
<1> QED
  BY <1>3, <1>4, <1>8, <1>10, <1>12, <1>13, <1>14, <1>15, ClientStepKeeps DEF Inv

(* A lost request and a follower that comes back change nothing it has.    *)
LEMMA ReturnKeeps ==
  ASSUME Inv, RequestFails \/ Resume, UNCHANGED << runVars, judged >>
  PROVE  Inv'
<1>1. PICK place \in {"idle", "gone"} : follower' = [follower EXCEPT !.at = place]
  BY DEF RequestFails, Resume
<1>2. UNCHANGED << got, log >> /\ resumes' \in 0 .. MaxResumes
  <2>1. resumes \in 0 .. MaxResumes /\ UNCHANGED << got, log >>
    BY DEF Inv, FollowerTypeOK, RequestFails, Resume, runVars
  <2>2. CASE RequestFails
    BY <2>1, <2>2 DEF RequestFails
  <2>3. CASE Resume
    BY <2>1, <2>3, LaunchAssumption DEF Resume
  <2> QED
    BY <2>1, <2>2, <2>3
<1>3. /\ follower' \in FollowerTypes /\ follower'.mode = follower.mode
      /\ follower'.at = place /\ follower'.cursor = follower.cursor
  BY <1>1, MovedOn DEF Inv
<1>4. /\ follower.cursor \in Nat /\ follower.cursor <= Len(log) /\ got' \in Seq(Nat)
  BY <1>2 DEF Inv, FollowerTypeOK, ClientInv
<1>5. follower'.mode # "wait" => Lists(got, follower.cursor)'
  BY <1>2, <1>3, <1>4, ListsThen DEF Inv, ClientInv
<1> QED
  BY <1>2, <1>3, <1>4, <1>5, ClientStepKeeps DEF Inv

-----------------------------------------------------------------------------
(* The verdict.                                                            *)
LEMMA EvaluateKeeps ==
  ASSUME Inv, Evaluate
  PROVE  Inv'
<1>1. /\ follower.at = "done" /\ judged' = Len(log) /\ log' = Append(log, "policy.decision")
      /\ UNCHANGED << run, session, tree, child, other, outside, faults, up >>
      /\ UNCHANGED clientVars
  BY DEF Evaluate
<1>2. RunInv /\ log \in Seq(Kinds) /\ session \in SessionTypes /\ outside \in 0 .. MaxIncidents
  BY DEF Inv, RunInv, RunTypeOK, SessionTypes
<1>3. session.state \in Terminal
  BY <1>1 DEF Inv, ClientInv
<1>4. Closed /\ (other = "idle" => Whole)
  BY <1>2, <1>3 DEF RunInv, EndedInv
<1>5. RunInv'
  <2>1. "policy.decision" \in Kinds \ {"process.started"}
    BY DEF Kinds
  <2> QED
    BY <1>1, <1>2, <1>3, <2>1, EventKeeps DEF Terminal
<1>6. Grows
  <2>1. "policy.decision" \in Kinds
    BY DEF Kinds
  <2> QED
    BY <1>1, <2>1 DEF Grows
<1>7. FollowerTypeOK' /\ ClientInv' /\ FilterInv'
  BY <1>1, <1>2, <1>6, BesideKeeps DEF Inv
<1>8. JudgeInv'
  <2>1. /\ Len(log) \in Nat /\ Len(log') = Len(log) + 1
        /\ \A i \in 1 .. Len(log) : log'[i] = log[i]
    BY <1>1, <1>2
  <2>2. ASSUME NEW kinds
        PROVE  Has(kinds, judged)' <=> Logged(kinds)
    BY <1>1, <2>1 DEF Has, Logged
  <2>3. judged' \in Nat /\ judged' <= Len(log') /\ other' = other
    BY <1>1, <2>1
  <2>4. Has(Endings, judged)'
    BY <1>4, <2>2 DEF Closed
  <2>5. other = "idle" /\ Has({"process.started"}, judged)' =>
          Has(Outcomes, judged)' /\ Has({"workspace.diff"}, judged)'
    BY <1>4, <2>2 DEF Whole, Started, Concluded, Diffed
  <2> QED
    BY <2>3, <2>4, <2>5 DEF JudgeInv
<1> QED
  BY <1>5, <1>7, <1>8 DEF Inv

-----------------------------------------------------------------------------
LEMMA InitInv == Init => Inv
<1> SUFFICES ASSUME Init
             PROVE  Inv
  OBVIOUS
<1>1. RunInit /\ FollowerInit /\ judged = 0
  BY DEF Init
<1>2. /\ run.at = "requested" /\ session.state = "none" /\ log = << >> /\ Len(log) = 0
      /\ tree = "none" /\ child = "none" /\ other = "idle"
      /\ outside = 0 /\ faults = 0 /\ up = TRUE
  BY <1>1 DEF RunInit
<1>3. RunTypeOK
  <2>1. run \in RunTypes
    <3>1. "requested" \in Places /\ "failed" \in Terminal /\ 0 \in 0 .. MaxOutputs
      BY RunAssumption DEF Places, Terminal
    <3>2. {"requested"} \subseteq Places /\ {"failed"} \subseteq Terminal
          /\ {FALSE} \subseteq BOOLEAN /\ {0} \subseteq 0 .. MaxOutputs
      BY <3>1
    <3> QED
      BY <1>1, <3>2 DEF RunInit, RunTypes
  <2>2. session \in SessionTypes
    BY <1>1 DEF RunInit, SessionTypes
  <2>3. log \in Seq(Kinds) /\ outside \in 0 .. MaxIncidents /\ faults \in 0 .. MaxIncidents
    BY <1>2, RunAssumption
  <2> QED
    BY <1>2, <2>1, <2>2, <2>3 DEF RunTypeOK, RunTypes, SessionTypes
<1>4. ~Started
  BY <1>2 DEF Started, Logged, Has
<1>5. RunInv
  BY <1>2, <1>3, <1>4 DEF RunInv, BeginInv, WorkInv, RecordInv, EndedInv, Terminal
<1>6. FollowerTypeOK
  <2>1. /\ {"idle"} \subseteq {"idle", "read", "done", "gone"}
        /\ {0} \subseteq Nat /\ {FALSE} \subseteq BOOLEAN
    OBVIOUS
  <2>2. follower \in FollowerTypes
    BY <1>1, <2>1 DEF FollowerInit, FollowerTypes
  <2>3. got \in Seq(Nat) /\ resumes \in 0 .. MaxResumes
    BY <1>1, LaunchAssumption DEF FollowerInit
  <2> QED
    BY <2>2, <2>3 DEF FollowerTypeOK, FollowerTypes
<1>7. JudgeInv
  BY <1>1, <1>2 DEF JudgeInv
<1>8. ClientInv
  <2>1. follower.at = "idle" /\ follower.cursor = 0 /\ got = << >>
    BY <1>1 DEF FollowerInit
  <2>2. Lists(<< >>, 0)
    <3>1. Range(<< >>) = {} /\ {n \in 1 .. 0 : Matches(n)} = {}
      BY DEF Range
    <3> QED
      BY <3>1 DEF Lists
  <2> QED
    BY <1>2, <2>1, <2>2 DEF ClientInv
<1>9. FilterInv
  <2>1. \A c \in 0 .. 0 : c = 0
    OBVIOUS
  <2>2. /\ \E f : Filters(f, Matching, 0, 0)
        /\ \A f : Filters(f, Matching, 0, 0) => Answers(f[0], Matching, 0, 0)
    BY FilterStart
  <2> QED
    BY <1>2, <2>1, <2>2 DEF FilterInv
<1> QED
  BY <1>5, <1>6, <1>7, <1>8, <1>9 DEF Inv

LEMMA StepInv == Inv /\ [Next]_vars => Inv'
<1> SUFFICES ASSUME Inv, [Next]_vars
             PROVE  Inv'
  OBVIOUS
<1>1. CASE RunNext /\ UNCHANGED << clientVars, judged >>
  <2>1. RunInv /\ log \in Seq(Kinds)
    BY DEF Inv, RunInv, RunTypeOK
  <2>2. /\ Grows
        /\ session.state \in Terminal => session'.state \in Terminal
        /\ other' = "idle" => other = "idle"
    BY <1>1, <2>1, Onwards
  <2>3. RunInv'
    BY <1>1, <2>1, RunKeeps
  <2>4. FollowerTypeOK' /\ ClientInv' /\ FilterInv'
    BY <1>1, <2>1, <2>2, BesideKeeps DEF Inv
  <2>5. JudgeInv'
    BY <1>1, <2>1, <2>2, JudgeKeeps DEF Inv
  <2> QED
    BY <2>3, <2>4, <2>5 DEF Inv
<1>2. CASE Client
  <2>1. UNCHANGED << runVars, judged >>
    BY <1>2 DEF Client
  <2> QED
    BY <1>2, <2>1, ReadKeeps, WatchKeeps, DeliverKeeps, ReturnKeeps DEF Client, FollowerWorks
<1>3. CASE Evaluate
  BY <1>3, EvaluateKeeps
<1>4. CASE UNCHANGED vars
  <2>1. UNCHANGED << runVars, judged, follower, got, resumes >>
    BY <1>4 DEF vars, clientVars
  <2>2. UNCHANGED log
    BY <2>1 DEF runVars
  <2>3. follower.cursor \in Nat
    BY DEF Inv, FollowerTypeOK
  <2>4. follower'.mode # "wait" => Lists(got, follower.cursor)'
    BY <2>1, <2>2, <2>3, ListsThen DEF Inv, ClientInv
  <2> QED
    BY <2>1, <2>4, ClientStepKeeps DEF Inv, ClientInv, FollowerTypeOK, FollowerTypes
<1> QED
  BY <1>1, <1>2, <1>3, <1>4 DEF Next

THEOREM Invariance == Spec => []Inv
BY InitInv, StepInv, PTL DEF Spec

(* Every variable of the run, of the client and of the verdict keeps its   *)
(* type (StoredSession, SessionEvent and the cursors of the followers).    *)
THEOREM TypeCorrect == Spec => []TypeOK
<1>1. Inv => TypeOK
  BY DEF Inv, RunInv, JudgeInv, TypeOK
<1> QED
  BY <1>1, Invariance, PTL

(* However many answers are lost and however often it comes back, a        *)
(* follower has every event it asked for up to its cursor, once and in     *)
(* order, and stops behind the event that ended the session (getEvents,    *)
(* followEvents, watchCommand, followSessionLog).                          *)
THEOREM FollowedFaithfullyHolds == Spec => []FollowedFaithfully
<1>1. Inv => FollowedFaithfully
  <2> SUFFICES ASSUME Inv
               PROVE  FollowedFaithfully
    OBVIOUS
  <2>1. session.state \in Terminal => Has(Endings, Len(log))
    BY DEF Inv, RunInv, EndedInv, Closed, Logged
  <2> QED
    BY <2>1 DEF Inv, ClientInv, FollowedFaithfully
<1> QED
  BY <1>1, Invariance, PTL

(* Whatever is refused, rejected or stopped, a session no other client     *)
(* ended is over only when its process is, and the log says what became of *)
(* its worktree; a verdict rests on the whole run (execute,                *)
(* removeIsolatedWorktree, waitForRun).                                    *)
THEOREM EndedRunWholeHolds == Spec => []EndedRunWhole
<1>1. Inv => EndedRunWhole
  <2> SUFFICES ASSUME Inv, other = "idle"
               PROVE  /\ session.state \in Terminal =>
                           /\ child # "running" /\ tree # "present"
                           /\ tree = "none" \/ Has({Removal}, Len(log))
                      /\ judged > 0 => /\ Has(Endings, judged)
                                       /\ Has({"process.started"}, judged) =>
                                            Has(Outcomes, judged) /\ Has({"workspace.diff"}, judged)
    BY DEF EndedRunWhole
  <2>1. session.state \in Terminal =>
          /\ child # "running" /\ tree # "present"
          /\ tree = "none" \/ Has({Removal}, Len(log))
    BY DEF Inv, RunInv, WorkInv, EndedInv, Whole, Noted, Logged
  <2> QED
    BY <2>1 DEF Inv, JudgeInv
<1> QED
  BY <1>1, Invariance, PTL
=============================================================================
