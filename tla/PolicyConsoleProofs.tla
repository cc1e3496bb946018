-------------------------- MODULE PolicyConsoleProofs --------------------------
(***************************************************************************)
(* What the policy console promises, proved for any number of commands in  *)
(* progress, sessions and policies, and for requests that fail.            *)
(*                                                                         *)
(* The page starts a command that replaces the session only while no other *)
(* is pending, and a start announces itself by a flag that stops respect:  *)
(* that is why a job never loses its session.                              *)
(***************************************************************************)
EXTENDS PolicyConsole, FiniteSetTheorems, TLAPS

-----------------------------------------------------------------------------
(* The inductive invariant, part by part.                                  *)

(* What a command in progress is doing: it replaces the session, serves a  *)
(* click on its own, waits for a start, or stops a run.                    *)
Replacing == {"checking", "ending", "creating"}
Starts(x) == x.at \in Replacing /\ x.op = "run"
Resets(x) == x.at \in Replacing /\ x.op = "reset"
Serves(x) == x.at \in {"acting", "completing"}
Waits(x) == x.at = "initializing"
Stops(x) == x.at \in {"cancelling", "joining"}

Alone(x) == Starts(x) \/ Resets(x) \/ Serves(x)

(* Those that the page starts only when nothing is pending are alone.  A   *)
(* start in progress is known by its flag, and no stop goes past it.       *)
CallInv ==
  /\ \A c, d \in Calls : Alone(call[c]) /\ Alone(call[d]) => c = d
  /\ \A c \in Calls :
       /\ call[c].at \in Replacing => Starts(call[c]) \/ Resets(call[c])
       /\ Starts(call[c]) \/ Waits(call[c]) => initializing
       /\ Stops(call[c]) => ~initializing
  /\ initializing => \E c \in Calls : Starts(call[c])

(* A job runs under the flag and on its session, with nobody replacing it. *)
JobInv ==
  job.at # "none" =>
    /\ running
    /\ session = job.of /\ job.target \in DOMAIN sessions
    /\ \A c \in Calls : call[c].at \notin Replacing

(* What a request is about exists; a replacement is made once the session  *)
(* that it replaces has ended.                                             *)
TargetOf(x) ==
  /\ x.at \in Finishing => x.target \in DOMAIN sessions
  /\ x.at \in {"checking", "ending"} => x.target = session
  /\ x.at = "ending" /\ x.got = "ok" => sessions[session].state = "ended"
  /\ x.at = "creating" => sessions[session].state = "ended"

TargetInv == \A c \in Calls : TargetOf(call[c])

Inv ==
  TypeOK /\ CallInv /\ JobInv /\ TargetInv /\ NoForgottenSession /\ ActivePolicyEnforced

-----------------------------------------------------------------------------
(* Types.                                                                  *)

CallTypes == [op : Ops, at : Places, target : Sessions, got : Progress]
JobTypes == [at : JobPlaces, of : Sessions, target : Sessions, got : Progress]
SessionTypes == [state : {"running", "ended"}, stopped : BOOLEAN, fin : {"none", "gated", "plain"},
                 origin : {"answered", "unheard"}]

(* Which call a step is about, and what becomes of it.                     *)
Moves(c, new) ==
  /\ new \in CallTypes
  /\ call' \in [Calls -> CallTypes] /\ call'[c] = new
  /\ \A d \in Calls : d # c => call'[d] = call[d]

LEMMA CallMoves ==
  ASSUME call \in [Calls -> CallTypes], NEW c \in Calls
  PROVE  /\ \A at \in Places : Ends(c, at) =>
              \E new : Moves(c, new) /\ new.op = "act" /\ new.at = at /\ new.got = "sent"
         /\ \A at \in Places, s \in Sessions : Requests(c, at, s) =>
              \E new : /\ Moves(c, new) /\ new.op = call[c].op
                       /\ new.at = at /\ new.target = s /\ new.got = "sent"
         /\ \A op \in Ops, at \in Places, s \in Sessions : Begins(c, op, at, s) =>
              \E new : /\ Moves(c, new) /\ new.op = op
                       /\ new.at = at /\ new.target = s /\ new.got = "sent"
<1>1. 1 \in Sessions
  BY ConsoleAssumption DEF Sessions
<1>2. ASSUME NEW new \in CallTypes, call' = [call EXCEPT ![c] = new]
      PROVE  Moves(c, new)
  BY <1>2 DEF Moves
<1>3. ASSUME NEW at \in Places, Ends(c, at)
      PROVE  \E new : Moves(c, new) /\ new.op = "act" /\ new.at = at /\ new.got = "sent"
  <2>1. PICK new : new = [Idle EXCEPT !.at = at]
    OBVIOUS
  <2>2. Idle \in CallTypes /\ Idle.op = "act" /\ Idle.got = "sent"
    BY <1>1 DEF Idle, CallTypes, Ops, Places, Progress
  <2>3. new \in CallTypes /\ new.op = "act" /\ new.at = at /\ new.got = "sent"
    BY <2>1, <2>2 DEF CallTypes
  <2>4. Moves(c, new)
    BY <1>2, <1>3, <2>1, <2>3 DEF Ends
  <2> QED
    BY <2>3, <2>4
<1>4. ASSUME NEW at \in Places, NEW s \in Sessions, Requests(c, at, s)
      PROVE  \E new : /\ Moves(c, new) /\ new.op = call[c].op
                      /\ new.at = at /\ new.target = s /\ new.got = "sent"
  <2>1. PICK new : new = [call[c] EXCEPT !.at = at, !.target = s, !.got = "sent"]
    OBVIOUS
  <2>2. /\ new \in CallTypes /\ new.op = call[c].op
        /\ new.at = at /\ new.target = s /\ new.got = "sent"
    BY <2>1 DEF CallTypes, Progress
  <2>3. Moves(c, new)
    BY <1>2, <1>4, <2>1, <2>2 DEF Requests
  <2> QED
    BY <2>2, <2>3
<1>5. ASSUME NEW op \in Ops, NEW at \in Places, NEW s \in Sessions, Begins(c, op, at, s)
      PROVE  \E new : /\ Moves(c, new) /\ new.op = op
                      /\ new.at = at /\ new.target = s /\ new.got = "sent"
  <2>1. PICK new : new = [op |-> op, at |-> at, target |-> s, got |-> "sent"]
    OBVIOUS
  <2>2. /\ new \in CallTypes /\ new.op = op
        /\ new.at = at /\ new.target = s /\ new.got = "sent"
    BY <2>1 DEF CallTypes, Progress
  <2>3. Moves(c, new)
    BY <1>2, <1>5, <2>1, <2>2 DEF Begins
  <2> QED
    BY <2>2, <2>3
<1> QED
  BY <1>3, <1>4, <1>5

(* The supervisor makes its next session, and keeps the others.            *)
Grown(origin) ==
  /\ DOMAIN sessions' = 1 .. Cardinality(DOMAIN sessions')
  /\ DOMAIN sessions' \subseteq Sessions
  /\ Cardinality(DOMAIN sessions') = Cardinality(DOMAIN sessions) + 1
  /\ DOMAIN sessions' = DOMAIN sessions \cup {Cardinality(DOMAIN sessions')}
  /\ sessions' \in [DOMAIN sessions' -> SessionTypes]
  /\ \A s \in DOMAIN sessions : sessions'[s] = sessions[s]
  /\ \A s \in DOMAIN sessions' : s \notin DOMAIN sessions => sessions'[s].origin = origin

LEMMA MadeGrows ==
  ASSUME TypeOK, NEW origin \in {"answered", "unheard"}, MakesSession(origin)
  PROVE  Grown(origin)
<1>1. PICK n \in Nat : n = Cardinality(DOMAIN sessions) /\ DOMAIN sessions = 1 .. n
  <2>1. 1 .. MaxSessions \in SUBSET Nat /\ IsFiniteSet(1 .. MaxSessions)
    BY ConsoleAssumption, FS_Interval
  <2>2. IsFiniteSet(DOMAIN sessions)
    BY <2>1, FS_Subset DEF TypeOK, Sessions
  <2> QED
    BY <2>2, FS_CardinalityType DEF TypeOK
<1>2. (1 .. n) \cup {n + 1} = 1 .. n + 1
  BY <1>1
<1>3. /\ 1 .. n + 1 \subseteq Sessions
      /\ sessions' = [s \in 1 .. n + 1 |-> IF s \in 1 .. n THEN sessions[s] ELSE Made(origin)]
  BY <1>1, <1>2 DEF MakesSession
<1>4. Cardinality(1 .. n + 1) = n + 1
  BY <1>1, FS_Interval
<1>5. sessions \in [1 .. n -> SessionTypes] /\ Made(origin) \in SessionTypes
  BY <1>1 DEF TypeOK, SessionTypes, Made
<1>6. DOMAIN sessions' = 1 .. n + 1 /\ \A s \in 1 .. n : sessions'[s] = sessions[s]
  <2>1. \A s \in 1 .. n : s \in 1 .. n + 1
    BY <1>2
  <2> QED
    BY <1>3, <2>1
<1>7. sessions' \in [1 .. n + 1 -> SessionTypes]
  BY <1>3, <1>5
<1>8. \A s \in 1 .. n + 1 : s \notin 1 .. n => sessions'[s].origin = origin
  <2>1. Made(origin).origin = origin
    BY DEF Made
  <2> QED
    BY <1>3, <2>1
<1> QED
  BY <1>1, <1>2, <1>3, <1>4, <1>6, <1>7, <1>8 DEF Grown

-----------------------------------------------------------------------------
(* Most steps neither begin a command nor replace the session.             *)

Settled(x) == x.at \in {"idle", "ok", "error", "refreshing"}

(* A command that does not replace the session may settle, a stop goes on  *)
(* to wait for the job, and the others stay, with an answer perhaps.       *)
Proceeds(c) ==
  \/ Settled(call'[c]) /\ call[c].at \notin Replacing
  \/ call[c].at = "cancelling" /\ call'[c].at = "joining"
  \/ /\ call'[c].at = call[c].at /\ call'[c].op = call[c].op /\ call'[c].target = call[c].target
     /\ \/ call'[c].got = call[c].got
        \/ call'[c].got = "ok" => sessions'[call[c].target].state = "ended"

(* A job goes on under its flag or is over.                                *)
JobProceeds ==
  /\ job' \in JobTypes /\ running' \in BOOLEAN
  /\ job'.at # "none" =>
       /\ job.at # "none" /\ job'.of = job.of /\ running' = running
       /\ job'.target \in {job.target, session}

SessionsProceed ==
  /\ DOMAIN sessions' = DOMAIN sessions /\ sessions' \in [DOMAIN sessions -> SessionTypes]
  /\ \A s \in DOMAIN sessions :
       /\ sessions[s].state = "ended" => sessions'[s].state = "ended"
       /\ sessions'[s].origin = sessions[s].origin

PageTyped == seen' \in BOOLEAN /\ refresh' \in {"none", "idle", "running"}

Quiet ==
  /\ UNCHANGED << session, initializing, activePolicy, enforced >>
  /\ stopping' \in BOOLEAN /\ policyYaml' \in Policies
  /\ call' \in [Calls -> CallTypes] /\ \A c \in Calls : Proceeds(c)
  /\ JobProceeds /\ SessionsProceed /\ PageTyped

LEMMA Types ==
  ASSUME TypeOK
  PROVE  /\ call \in [Calls -> CallTypes] /\ job \in JobTypes
         /\ sessions \in [DOMAIN sessions -> SessionTypes]
         /\ session \in DOMAIN sessions /\ session \in Sessions
         /\ running \in BOOLEAN /\ stopping \in BOOLEAN /\ initializing \in BOOLEAN
         /\ policyYaml \in Policies /\ activePolicy \in Policies /\ enforced \in Policies
         /\ seen \in BOOLEAN /\ refresh \in {"none", "idle", "running"}
BY ConsoleAssumption DEF TypeOK, CallTypes, JobTypes, SessionTypes

LEMMA QuietKeeps ==
  ASSUME Inv, Quiet
  PROVE  Inv'
<1>1. TypeOK'
  BY DEF Inv, TypeOK, Quiet, JobProceeds, SessionsProceed, PageTyped, CallTypes, JobTypes,
         SessionTypes
<1>2. \A c \in Calls :
        /\ Starts(call'[c]) => Starts(call[c])
        /\ Resets(call'[c]) => Resets(call[c])
        /\ Serves(call'[c]) => Serves(call[c])
        /\ Waits(call'[c]) => Waits(call[c])
        /\ Stops(call'[c]) => Stops(call[c])
        /\ call'[c].at \in Replacing => call[c].at \in Replacing
        /\ Starts(call[c]) => Starts(call'[c])
        /\ call[c].at = "creating" => call'[c].at = "creating"
  BY DEF Quiet, Proceeds, Settled, Starts, Resets, Serves, Waits, Stops, Replacing
<1>3. CallInv'
  <2>1. /\ initializing' = initializing
        /\ \A c, d \in Calls : Alone(call'[c]) /\ Alone(call'[d]) => c = d
    BY <1>2 DEF Quiet, Inv, CallInv, Alone
  <2>2. \A c \in Calls : call'[c].at \in Replacing => Starts(call'[c]) \/ Resets(call'[c])
    BY DEF Quiet, Proceeds, Inv, CallInv, Starts, Resets, Settled, Replacing
  <2> QED
    BY <1>2, <2>1, <2>2 DEF Inv, CallInv
<1>4. JobInv'
  BY <1>2, Types DEF Quiet, JobProceeds, SessionsProceed, Inv, JobInv
<1>5. TargetInv'
  <2> SUFFICES ASSUME NEW c \in Calls
               PROVE  TargetOf(call[c])'
    BY DEF TargetInv
  <2>1. TargetOf(call[c]) /\ session' = session /\ session \in DOMAIN sessions
    BY Types DEF Inv, TargetInv, Quiet
  <2> QED
    BY <2>1 DEF Quiet, Proceeds, SessionsProceed, TargetOf, Settled, Finishing, Replacing
<1>6. NoForgottenSession' /\ ActivePolicyEnforced'
  <2>1. /\ DOMAIN sessions' = DOMAIN sessions /\ session \in DOMAIN sessions
        /\ UNCHANGED << session, enforced, activePolicy >>
    BY Types DEF Quiet, SessionsProceed, Inv
  <2>2. \A s \in DOMAIN sessions :
          (Open(s)' => Open(s)) /\ sessions'[s].origin = sessions[s].origin
    BY Types DEF Quiet, SessionsProceed, Open, SessionTypes, Inv
  <2> QED
    BY <2>1, <2>2 DEF Inv, NoForgottenSession, ActivePolicyEnforced, Open
<1> QED
  BY <1>1, <1>3, <1>4, <1>5, <1>6 DEF Inv

(* What stays as it is proceeds.                                           *)
LEMMA Unmoved ==
  ASSUME TypeOK
  PROVE  /\ UNCHANGED call => call' \in [Calls -> CallTypes] /\ \A c \in Calls : Proceeds(c)
         /\ UNCHANGED << job, running >> => JobProceeds
         /\ UNCHANGED sessions => SessionsProceed
         /\ UNCHANGED page => PageTyped
         /\ UNCHANGED << stopping, policyYaml >> => stopping' \in BOOLEAN /\ policyYaml' \in Policies
<1>1. UNCHANGED call => call' \in [Calls -> CallTypes] /\ \A c \in Calls : Proceeds(c)
  BY Types DEF Proceeds
<1>2. UNCHANGED << job, running >> => JobProceeds
  BY Types DEF JobProceeds
<1>3. UNCHANGED sessions => SessionsProceed
  BY Types DEF SessionsProceed
<1>4. UNCHANGED page => PageTyped
  BY Types DEF PageTyped, page
<1> QED
  BY <1>1, <1>2, <1>3, <1>4, Types

LEMMA CallProceeds ==
  ASSUME TypeOK, NEW c \in Calls, NEW new, Moves(c, new),
         \/ Settled(new) /\ call[c].at \notin Replacing
         \/ call[c].at = "cancelling" /\ new.at = "joining"
  PROVE  call' \in [Calls -> CallTypes] /\ \A d \in Calls : Proceeds(d)
BY DEF Moves, Proceeds

LEMMA CallSettles ==
  ASSUME TypeOK, NEW c \in Calls, call[c].at \notin Replacing,
         NEW at \in {"idle", "ok", "error", "refreshing"}, Ends(c, at)
  PROVE  call' \in [Calls -> CallTypes] /\ \A d \in Calls : Proceeds(d)
<1>1. PICK new : Moves(c, new) /\ new.at = at
  BY Types, CallMoves DEF Places
<1> QED
  BY <1>1, CallProceeds DEF Settled

LEMMA PageQuiet ==
  ASSUME TypeOK,
         \/ StartRefresh \/ Render
         \/ \E p \in Policies : SetPolicy(p)
         \/ \E c \in Calls : Answered(c) \/ ActAnswered(c)
  PROVE  Quiet
<1>1. /\ UNCHANGED << session, initializing, activePolicy, enforced, stopping, job, running >>
      /\ UNCHANGED sessions /\ policyYaml' \in Policies
  BY Types DEF StartRefresh, Render, Answered, ActAnswered, SetPolicy, flags, policy
<1>2. PageTyped
  BY Types DEF StartRefresh, Render, Answered, ActAnswered, SetPolicy, Snapshot, PageTyped, page
<1>3. call' \in [Calls -> CallTypes] /\ \A d \in Calls : Proceeds(d)
  <2>1. CASE Render
    <3>1. call' = [d \in Calls |-> IF call[d].at = "refreshing" THEN Idle ELSE call[d]]
      BY <2>1 DEF Render
    <3>2. Idle \in CallTypes /\ Settled(Idle)
      BY ConsoleAssumption DEF Idle, CallTypes, Ops, Places, Sessions, Progress, Settled
    <3> QED
      BY <3>1, <3>2, Types DEF Proceeds, Replacing
  <2>2. ASSUME NEW c \in Calls, Answered(c)
        PROVE  call' \in [Calls -> CallTypes] /\ \A d \in Calls : Proceeds(d)
    <3>1. call[c].at \notin Replacing /\ (Ends(c, "refreshing") \/ Ends(c, "idle"))
      BY <2>2 DEF Answered, Replacing
    <3> QED
      BY <3>1, CallSettles
  <2>3. ASSUME NEW c \in Calls, ActAnswered(c)
        PROVE  call' \in [Calls -> CallTypes] /\ \A d \in Calls : Proceeds(d)
    <3>1. call[c].at \notin Replacing /\ \E answer \in {"ok", "error"} : Ends(c, answer)
      BY <2>3 DEF ActAnswered, Replacing
    <3> QED
      BY <3>1, CallSettles
  <2>4. CASE UNCHANGED call
    BY <2>4, Unmoved
  <2> QED
    BY <2>1, <2>2, <2>3, <2>4 DEF StartRefresh, SetPolicy
<1> QED
  BY <1>1, <1>2, <1>3, Unmoved, Types DEF Quiet

(* A finalization that is joined or started does not end the session yet.  *)
LEMMA JoinProceeds ==
  ASSUME TypeOK, NEW s \in DOMAIN sessions, NEW kind \in {"gated", "plain"},
         NEW cancels \in BOOLEAN, JoinOrStart(s, kind, cancels)
  PROVE  SessionsProceed
<1> DEFINE new == [sessions[s] EXCEPT !.fin = IF sessions[s].fin = "none" THEN kind ELSE sessions[s].fin,
                                      !.stopped = sessions[s].stopped \/ cancels]
<1>1. sessions' = [sessions EXCEPT ![s] = new]
  BY DEF JoinOrStart
<1>2. /\ new \in SessionTypes
      /\ new.state = sessions[s].state /\ new.origin = sessions[s].origin
  BY Types DEF SessionTypes
<1> HIDE DEF new
<1> QED
  BY <1>1, <1>2, Types DEF SessionsProceed

(* An answer to a request to finish.                                       *)
GotProceeds(c, got) ==
  call' = [call EXCEPT ![c].got = got] /\ got \in Progress
  /\ (got = "ok" => sessions'[call[c].target].state = "ended")

LEMMA AnswerProceeds ==
  ASSUME TypeOK, NEW c \in Calls, NEW got, GotProceeds(c, got)
  PROVE  call' \in [Calls -> CallTypes] /\ \A d \in Calls : Proceeds(d)
<1>1. call' \in [Calls -> CallTypes]
  BY Types DEF GotProceeds, CallTypes
<1>2. /\ call'[c].at = call[c].at /\ call'[c].op = call[c].op
      /\ call'[c].target = call[c].target /\ call'[c].got = got
      /\ \A d \in Calls : d # c => call'[d] = call[d]
  BY Types DEF GotProceeds, CallTypes
<1> QED
  BY <1>1, <1>2 DEF GotProceeds, Proceeds

LEMMA FinishQuiet ==
  ASSUME Inv, NEW c \in Calls, FinishArrives(c) \/ FinishTimesOut(c)
  PROVE  Quiet
<1>1. TypeOK /\ call[c].at \in Finishing /\ call[c].target \in DOMAIN sessions
  BY DEF Inv, TargetInv, TargetOf, FinishArrives, FinishTimesOut
<1>2. UNCHANGED << flags, policy, job, page >>
  BY DEF FinishArrives, FinishTimesOut
<1>3. CASE FinishArrives(c)
  <2>2. CASE Open(call[c].target)
    <3>1. call' = [call EXCEPT ![c].got = "joined"]
      BY <1>3, <2>2 DEF FinishArrives
    <3>2. \E kind \in {"gated", "plain"}, cancels \in BOOLEAN :
            JoinOrStart(call[c].target, kind, cancels)
      BY <1>3, <2>2 DEF FinishArrives
    <3>3. SessionsProceed
      BY <1>1, <3>2, JoinProceeds
    <3>4. GotProceeds(c, "joined")
      BY <3>1 DEF GotProceeds, Progress
    <3> QED
      BY <1>1, <1>2, <3>3, <3>4, AnswerProceeds, Unmoved, Types DEF Quiet, flags, policy
  <2>3. CASE ~Open(call[c].target)
    <3>1. PICK got \in {"ok", "error"} : call' = [call EXCEPT ![c].got = got] /\ UNCHANGED sessions
      BY <1>3, <2>3 DEF FinishArrives
    <3>2. sessions[call[c].target].state = "ended"
      BY <1>1, <2>3, Types DEF Open, SessionTypes
    <3>3. GotProceeds(c, got)
      BY <3>1, <3>2 DEF GotProceeds, Progress
    <3> QED
      BY <1>1, <1>2, <3>1, <3>3, AnswerProceeds, Unmoved, Types DEF Quiet, flags, policy
  <2> QED
    BY <2>2, <2>3
<1>4. CASE FinishTimesOut(c)
  <2>1. /\ UNCHANGED sessions
        /\ call' = [call EXCEPT ![c].got = "error"]
    BY <1>4 DEF FinishTimesOut
  <2>2. GotProceeds(c, "error")
    BY <2>1 DEF GotProceeds, Progress
  <2> QED
    BY <1>1, <1>2, <2>1, <2>2, AnswerProceeds, Unmoved, Types DEF Quiet, flags, policy
<1> QED
  BY <1>3, <1>4

LEMMA ServerQuiet ==
  ASSUME Inv, NEW s \in DOMAIN sessions, Finalize(s) \/ Expire(s)
  PROVE  Quiet
<1>1. TypeOK
  BY DEF Inv
<1>2. UNCHANGED << flags, policy, page >>
  BY DEF Finalize, Expire
<1>3. CASE Expire(s)
  <2>1. JoinOrStart(s, "plain", TRUE) /\ UNCHANGED << call, job >>
    BY <1>3 DEF Expire
  <2>2. SessionsProceed
    BY <1>1, <2>1, JoinProceeds
  <2> QED
    BY <1>1, <1>2, <2>1, <2>2, Unmoved, Types DEF Quiet, flags, policy
<1>4. CASE Finalize(s)
  <2>1. PICK answer \in {"ok", "refused"} :
          /\ sessions' = [sessions EXCEPT ![s] =
               IF answer = "ok" THEN Ended(@) ELSE [@ EXCEPT !.fin = "none"]]
          /\ call' = [c \in Calls |->
               IF call[c].at \in Finishing /\ call[c].got = "joined" /\ call[c].target = s
                 THEN [call[c] EXCEPT !.got = answer] ELSE call[c]]
          /\ job' = IF JobFinishing /\ job.got = "joined" /\ job.target = s
                      THEN [job EXCEPT !.got = answer] ELSE job
    BY <1>4 DEF Finalize
  <2>2. SessionsProceed /\ (answer = "ok" => sessions'[s].state = "ended")
    <3>1. CASE answer = "ok"
      <4>1. PICK new : new = Ended(sessions[s])
        OBVIOUS
      <4>2. /\ new \in SessionTypes
            /\ new.state = "ended" /\ new.origin = sessions[s].origin
        BY <1>1, <4>1, Types DEF Ended, SessionTypes
      <4>3. sessions' = [sessions EXCEPT ![s] = new]
        BY <2>1, <3>1, <4>1 DEF Ended
      <4> QED
        BY <1>1, <4>2, <4>3, Types DEF SessionsProceed
    <3>2. CASE answer # "ok"
      <4>1. PICK new : new = [sessions[s] EXCEPT !.fin = "none"]
        OBVIOUS
      <4>2. /\ new \in SessionTypes
            /\ new.state = sessions[s].state /\ new.origin = sessions[s].origin
        BY <1>1, <4>1, Types DEF SessionTypes
      <4>3. sessions' = [sessions EXCEPT ![s] = new]
        BY <2>1, <3>2, <4>1
      <4> QED
        BY <1>1, <3>2, <4>2, <4>3, Types DEF SessionsProceed
    <3> QED
      BY <3>1, <3>2
  <2>3. call' \in [Calls -> CallTypes]
    BY <1>1, <2>1, Types DEF CallTypes, Progress
  <2>4. ASSUME NEW c \in Calls
        PROVE  Proceeds(c)
    <3>1. /\ call'[c].at = call[c].at /\ call'[c].op = call[c].op
          /\ call'[c].target = call[c].target
          /\ call'[c].got = call[c].got \/ (call'[c].got = answer /\ call[c].target = s)
      BY <1>1, <2>1, Types DEF CallTypes
    <3> QED
      BY <2>2, <3>1 DEF Proceeds
  <2>5. JobProceeds
    BY <1>1, <1>2, <2>1, Types DEF JobProceeds, JobTypes, Progress, flags
  <2> QED
    BY <1>1, <1>2, <2>2, <2>3, <2>4, <2>5, Unmoved, Types DEF Quiet, flags, policy
<1> QED
  BY <1>3, <1>4

(* The job asks, is answered, goes on or is over.                          *)
LEMMA JobSteps ==
  ASSUME TypeOK
  PROVE  /\ \A got \in Progress : job' = [job EXCEPT !.got = got] /\ UNCHANGED running => JobProceeds
         /\ \A at \in JobPlaces : job.at # "none" /\ JobRequests(at) => JobProceeds
         /\ JobOver => JobProceeds
<1>1. ASSUME NEW got \in Progress, job' = [job EXCEPT !.got = got], UNCHANGED running
      PROVE  JobProceeds
  BY <1>1, Types DEF JobProceeds, JobTypes
<1>2. ASSUME NEW at \in JobPlaces, job.at # "none", JobRequests(at)
      PROVE  JobProceeds
  BY <1>2, Types DEF JobProceeds, JobRequests, JobTypes, Progress
<1>3. ASSUME JobOver
      PROVE  JobProceeds
  <2>1. NoJob \in JobTypes /\ NoJob.at = "none"
    BY ConsoleAssumption DEF NoJob, JobTypes, JobPlaces, Sessions, Progress
  <2> QED
    BY <1>3, <2>1 DEF JobOver, JobProceeds
<1> QED
  BY <1>1, <1>2, <1>3

LEMMA JobQuiet ==
  ASSUME Inv, JobFinishArrives \/ JobTimesOut \/ JobActed \/ JobFinished
  PROVE  Quiet
<1>1. TypeOK
  BY DEF Inv
<1>2. UNCHANGED << stopping, session, initializing, policy, call, page >>
  BY DEF JobFinishArrives, JobTimesOut, JobActed, JobFinished, flags
<1>3. ASSUME job.at # "none",
             JobThrows \/ (\E at \in JobPlaces : JobActs(at) \/ JobRequests(at)) \/ JobOver
      PROVE  JobProceeds
  <2>1. "failing" \in JobPlaces
    BY DEF JobPlaces
  <2> QED
    BY <1>1, <1>3, <2>1, JobSteps DEF JobThrows, JobActs
<1>4. JobProceeds
  <2>1. CASE JobActed \/ JobFinished
    <3>1. job.at # "none" /\ job.at \in JobPlaces /\ "repairing" \in JobPlaces
          /\ "early" \in JobPlaces /\ "final" \in JobPlaces
      BY <1>1, <2>1, Types DEF JobActed, JobFinished, JobFinishing, JobTypes, JobPlaces
    <3>2. JobThrows \/ (\E at \in JobPlaces : JobActs(at) \/ JobRequests(at)) \/ JobOver
      BY <2>1, <3>1 DEF JobActed, JobFinished
    <3> QED
      BY <1>3, <3>1, <3>2
  <2>2. CASE JobFinishArrives \/ JobTimesOut
    <3>1. \E got \in Progress : job' = [job EXCEPT !.got = got] /\ UNCHANGED running
      BY <2>2 DEF JobFinishArrives, JobTimesOut, Progress, flags
    <3> QED
      BY <1>1, <3>1, JobSteps
  <2> QED
    BY <2>1, <2>2
<1>5. SessionsProceed
  <2>1. CASE UNCHANGED sessions
    BY <1>1, <2>1, Unmoved
  <2>2. CASE JobFinishArrives /\ Open(job.target)
    <3>1. job.target \in DOMAIN sessions
      BY <2>2 DEF JobFinishArrives, JobFinishing, Inv, JobInv
    <3>2. \E kind \in {"gated", "plain"} : JoinOrStart(job.target, kind, FALSE)
      BY <2>2 DEF JobFinishArrives
    <3> QED
      BY <1>1, <3>1, <3>2, JoinProceeds
  <2> QED
    BY <2>1, <2>2 DEF JobFinishArrives, JobTimesOut, JobActed, JobFinished
<1> QED
  BY <1>1, <1>2, <1>4, <1>5, Unmoved, Types DEF Quiet, policy

-----------------------------------------------------------------------------
(* Commands of the page, and the session that they replace.                *)

(* A command that is refused has settled at once.                          *)
LEMMA RefusalKeeps ==
  ASSUME Inv, NEW c \in Calls, call[c].at = "idle", Refused(c),
         UNCHANGED << policy, job, sessions, page >>
  PROVE  Inv'
<1>1. TypeOK
  BY DEF Inv
<1>2. call' \in [Calls -> CallTypes] /\ \A d \in Calls : Proceeds(d)
  BY <1>1, CallSettles DEF Refused, Replacing
<1>3. Quiet
  BY <1>1, <1>2, Unmoved, Types DEF Quiet, Refused, flags, policy
<1> QED
  BY <1>3, QuietKeeps

(* A command begins that nothing else is pending with.                     *)
LEMMA BeginKeeps ==
  ASSUME Inv, NEW c \in Calls, ~Pending, ~running,
         NEW op \in {"run", "reset", "act", "complete"},
         NEW at \in {"checking", "acting", "completing"},
         at = "checking" <=> op \in {"run", "reset"},
         Begins(c, op, at, session),
         initializing' = (initializing \/ op = "run"),
         running' \in BOOLEAN, stopping' \in BOOLEAN,
         UNCHANGED << session, policy, job, sessions, page >>
  PROVE  Inv'
<1>1. TypeOK
  BY DEF Inv
<1>2. PICK new : /\ Moves(c, new) /\ new.op = op /\ new.at = at
                 /\ new.target = session /\ new.got = "sent"
  BY <1>1, Types, CallMoves DEF Ops, Places, Finishing
<1>3. \A d \in Calls : d # c => call'[d].at = "idle" /\ call[d].at = "idle"
  BY <1>2 DEF Pending, Moves
<1>4. call'[c].at = at /\ call'[c].op = op /\ call'[c].target = session /\ call'[c].got = "sent"
  BY <1>2 DEF Moves
<1>5. ~initializing /\ job.at = "none"
  <2>1. \A d \in Calls : ~Starts(call[d])
    BY DEF Pending, Starts, Replacing
  <2> QED
    BY <2>1 DEF Inv, CallInv, JobInv
<1>6. initializing' \in BOOLEAN
  BY <1>5, Zenon
<1>7. TypeOK'
  BY <1>1, <1>2, <1>6 DEF TypeOK, Moves, CallTypes, policy, page
<1>8. CallInv'
  <2>1. \A d \in Calls : Alone(call'[d]) => d = c
    BY <1>3 DEF Alone, Starts, Resets, Serves, Replacing
  <2>2. initializing' <=> op = "run"
    BY <1>5, Zenon
  <2>3. Starts(call'[c]) <=> op = "run"
    BY <1>4 DEF Starts, Replacing
  <2>4. \A d \in Calls : call'[d].at \in Replacing => Starts(call'[d]) \/ Resets(call'[d])
    BY <1>3, <1>4 DEF Starts, Resets, Replacing
  <2>5. \A d \in Calls : ~Waits(call'[d]) /\ ~Stops(call'[d]) /\ (Starts(call'[d]) => d = c)
    BY <1>3, <1>4 DEF Waits, Stops, Starts, Replacing
  <2> QED
    BY <2>1, <2>2, <2>3, <2>4, <2>5 DEF CallInv
<1>9. JobInv'
  BY <1>5 DEF JobInv
<1>10. TargetInv'
  BY <1>1, <1>3, <1>4, Types DEF TargetInv, TargetOf, Finishing
<1>11. NoForgottenSession' /\ ActivePolicyEnforced'
  BY DEF Inv, NoForgottenSession, ActivePolicyEnforced, Open, policy
<1> QED
  BY <1>7, <1>8, <1>9, <1>10, <1>11 DEF Inv

(* A command that replaces the session or stops a run goes on or begins,   *)
(* and the other commands stay as they are.                                *)
Turns(c, new) ==
  /\ Moves(c, new)
  /\ UNCHANGED << running, session, initializing, enforced, policyYaml, job, sessions, page >>
  /\ stopping' \in BOOLEAN
  /\ activePolicy' \in Policies
  /\ activePolicy' # activePolicy => new.at = "creating"

LEMMA TurnKeeps ==
  ASSUME Inv, NEW c \in Calls, NEW new, Turns(c, new),
         \/ /\ call[c].at \in Replacing /\ new.at \in Replacing /\ new.op = call[c].op
            /\ call[c].at = "creating" => new.at = "creating"
         \/ /\ call[c].at = "idle"
            /\ IF initializing THEN Waits(new) ELSE Stops(new),
         TargetOf(new)
  PROVE  Inv'
<1>1. TypeOK /\ Moves(c, new)
  BY DEF Inv, Turns
<1>2. TypeOK'
  BY <1>1 DEF Turns, TypeOK, Moves, CallTypes, page
<1>3. call'[c] = new /\ \A d \in Calls : d # c => call'[d] = call[d]
  BY <1>1 DEF Moves
<1>4. /\ Starts(call'[c]) <=> Starts(call[c])
      /\ Alone(call'[c]) => Alone(call[c])
      /\ call'[c].at \in Replacing => call[c].at \in Replacing
      /\ call'[c].at \in Replacing => Starts(call'[c]) \/ Resets(call'[c])
      /\ Waits(call'[c]) => initializing
      /\ Stops(call'[c]) => ~initializing
      /\ call[c].at = "creating" => call'[c].at = "creating"
  BY <1>3 DEF Starts, Resets, Serves, Alone, Waits, Stops, Replacing, Inv, CallInv
<1>5. CallInv'
  <2>1. initializing' = initializing
    BY DEF Turns
  <2> QED
    BY <1>3, <1>4, <2>1 DEF Inv, CallInv
<1>6. JobInv'
  BY <1>3, <1>4 DEF Turns, Inv, JobInv
<1>7. TargetInv'
  <2>1. session' = session /\ sessions' = sessions
    BY DEF Turns
  <2> QED
    BY <1>3, <2>1 DEF Inv, TargetInv, TargetOf
<1>8. NoForgottenSession'
  BY DEF Turns, Inv, NoForgottenSession, Open
<1>9. ActivePolicyEnforced'
  <2>1. activePolicy' # activePolicy => sessions[session].state = "ended"
    BY DEF Turns, TargetOf
  <2> QED
    BY <2>1 DEF Turns, Inv, ActivePolicyEnforced, Open
<1> QED
  BY <1>2, <1>5, <1>6, <1>7, <1>8, <1>9 DEF Inv

(* newSession() is over: its caller settles, and stops that waited for a   *)
(* start go on.                                                            *)
Follows(c, stops) ==
  /\ call' \in [Calls -> CallTypes] /\ Settled(call'[c])
  /\ \A d \in Calls : d # c =>
       IF Waits(call[d]) /\ Starts(call[c]) THEN call'[d] = stops ELSE call'[d] = call[d]

LEMMA AfterFollows ==
  ASSUME TypeOK, NEW c \in Calls, Starts(call[c]) \/ Resets(call[c]),
         NEW at \in {"ok", "error"}, NEW stops \in CallTypes, call' = After(c, at, stops)
  PROVE  Follows(c, stops)
<1>1. PICK new : new = [Idle EXCEPT !.at = at]
  OBVIOUS
<1>2. Idle \in CallTypes
  BY ConsoleAssumption DEF Idle, CallTypes, Ops, Places, Sessions, Progress
<1>3. new \in CallTypes /\ Settled(new)
  BY <1>1, <1>2 DEF CallTypes, Places, Settled
<1>4. Starts(call[c]) <=> call[c].op = "run"
  BY DEF Starts, Resets
<1>5. call' = [d \in Calls |->
                 IF d = c THEN new
                 ELSE IF Waits(call[d]) /\ Starts(call[c]) THEN stops ELSE call[d]]
  BY <1>1, <1>4 DEF After, Waits
<1> QED
  BY <1>3, <1>5, Types DEF Follows

(* What then holds of the commands.                                        *)
LEMMA FollowKeeps ==
  ASSUME Inv, NEW c \in Calls, Starts(call[c]) \/ Resets(call[c]), NEW stops,
         Follows(c, stops), Settled(stops) \/ Stops(stops),
         initializing' = (initializing /\ ~Starts(call[c]))
  PROVE  /\ CallInv'
         /\ \A d \in Calls : call'[d].at \notin Replacing
         /\ initializing' \in BOOLEAN
<1>1. /\ ~Alone(stops) /\ ~Waits(stops) /\ stops.at \notin Replacing
      /\ ~Alone(call'[c]) /\ ~Waits(call'[c]) /\ ~Stops(call'[c]) /\ call'[c].at \notin Replacing
  BY DEF Follows, Settled, Alone, Starts, Resets, Serves, Waits, Stops, Replacing
<1>2. \A d \in Calls : Alone(call[d]) => d = c
  BY DEF Inv, CallInv, Alone
<1>3. \A d \in Calls : call[d].at \in Replacing => Alone(call[d])
  BY DEF Inv, CallInv, Alone
<1>4. \A d \in Calls : ~Alone(call'[d]) /\ call'[d].at \notin Replacing
  BY <1>1, <1>2, <1>3 DEF Follows
<1>5. initializing <=> Starts(call[c])
  BY <1>2 DEF Inv, CallInv, Alone
<1>6. ~initializing'
  BY <1>5, Zenon
<1>7. \A d \in Calls : ~Waits(call'[d])
  BY <1>1, <1>5 DEF Follows, Inv, CallInv
<1>8. \A d \in Calls : ~Starts(call'[d])
  BY <1>4 DEF Alone
<1>9. CallInv'
  BY <1>4, <1>6, <1>7, <1>8 DEF CallInv
<1> QED
  BY <1>4, <1>6, <1>9

LEMMA FailureKeeps ==
  ASSUME Inv, NEW c \in Calls, Starts(call[c]) \/ Resets(call[c]), NewSessionFails(c),
         SessionsProceed \/ Grown("unheard"),
         UNCHANGED << policy, job, page >>
  PROVE  Inv'
<1>1. TypeOK
  BY DEF Inv
<1>2. PICK stops : stops = [Idle EXCEPT !.at = "error"]
  OBVIOUS
<1>3. stops \in CallTypes /\ Settled(stops)
  <2>1. Idle \in CallTypes
    BY ConsoleAssumption DEF Idle, CallTypes, Ops, Places, Sessions, Progress
  <2> QED
    BY <1>2, <2>1 DEF CallTypes, Places, Settled
<1>4. Follows(c, stops)
  BY <1>1, <1>2, <1>3, AfterFollows DEF NewSessionFails
<1>5. initializing' = (initializing /\ ~Starts(call[c]))
  BY DEF NewSessionFails, Starts, Resets
<1>6. CallInv' /\ initializing' \in BOOLEAN /\ \A d \in Calls : call'[d].at \notin Replacing
  BY <1>3, <1>4, <1>5, FollowKeeps
<1>7. /\ DOMAIN sessions' = 1 .. Cardinality(DOMAIN sessions') /\ DOMAIN sessions' \subseteq Sessions
      /\ sessions' \in [DOMAIN sessions' -> SessionTypes] /\ DOMAIN sessions \subseteq DOMAIN sessions'
  BY <1>1 DEF SessionsProceed, Grown, TypeOK
<1>8. TypeOK'
  <2>1. session' = session /\ stopping' = stopping /\ running' = FALSE /\ UNCHANGED << policy, job, page >>
    BY DEF NewSessionFails
  <2> QED
    BY <1>1, <1>4, <1>6, <1>7, <2>1
    DEF TypeOK, Follows, CallTypes, SessionTypes, policy, page
<1>9. JobInv'
  <2>1. job.at = "none" /\ job' = job
    BY DEF Inv, JobInv, Starts, Resets
  <2> QED
    BY <2>1 DEF JobInv
<1>10. TargetInv'
  <2> SUFFICES ASSUME NEW d \in Calls
               PROVE  TargetOf(call[d])'
    BY DEF TargetInv
  <2>1. call'[d] = call[d] \/ Settled(call'[d])
    BY <1>3, <1>4 DEF Follows
  <2>2. TargetOf(call[d]) /\ call'[d].at \notin Replacing
    BY <1>6 DEF Inv, TargetInv
  <2> QED
    BY <1>7, <2>1, <2>2 DEF TargetOf, Settled, Finishing, Replacing
<1>11. NoForgottenSession' /\ ActivePolicyEnforced'
  <2>1. UNCHANGED << session, enforced, activePolicy >>
    BY DEF NewSessionFails, policy
  <2>2. ASSUME NEW s \in DOMAIN sessions, Open(s)'
        PROVE  Open(s) /\ sessions'[s].origin = sessions[s].origin
    BY <1>1, <2>2, Types DEF SessionsProceed, Grown, Open, SessionTypes
  <2>3. \A s \in DOMAIN sessions' : s \in DOMAIN sessions \/ sessions'[s].origin = "unheard"
    BY DEF SessionsProceed, Grown
  <2>4. session \in DOMAIN sessions
    BY <1>1, Types
  <2> QED
    BY <2>1, <2>2, <2>3, <2>4 DEF Inv, NoForgottenSession, ActivePolicyEnforced, Open
<1> QED
  BY <1>6, <1>8, <1>9, <1>10, <1>11 DEF Inv

LEMMA CreatedKeeps ==
  ASSUME Inv, NEW c \in Calls, Created(c)
  PROVE  Inv'
<1>1. TypeOK /\ call[c].at = "creating" /\ MakesSession("answered")
  BY DEF Inv, Created, Makes
<1>2. Grown("answered") /\ session' = Cardinality(DOMAIN sessions') /\ enforced' = activePolicy
  BY <1>1, MadeGrows DEF Created, Makes
<1>3. session' \in DOMAIN sessions' /\ session' \in Sessions
  <2>1. session' \in {Cardinality(DOMAIN sessions')}
    BY <1>2
  <2> QED
    BY <1>2, <2>1 DEF Grown
<1>4. Starts(call[c]) \/ Resets(call[c])
  BY <1>1 DEF Inv, CallInv, Replacing
<1>5. PICK stops : stops = [op |-> "stop", at |-> "cancelling", target |-> session', got |-> "sent"]
  OBVIOUS
<1>6. stops \in CallTypes /\ Stops(stops) /\ stops.at = "cancelling" /\ stops.target = session'
  BY <1>3, <1>5 DEF CallTypes, Ops, Places, Finishing, Progress, Stops
<1>7. Follows(c, stops)
  <2>1. call' = After(c, "ok", stops)
    BY <1>5 DEF Created, Makes
  <2> QED
    BY <1>1, <1>4, <1>6, <2>1, AfterFollows
<1>8. initializing' = (initializing /\ ~Starts(call[c]))
  <2>1. CASE Starts(call[c])
    <3>1. initializing' = FALSE
      BY <2>1 DEF Starts, Created, Makes
    <3> QED
      BY <2>1, <3>1
  <2>2. CASE ~Starts(call[c])
    <3>1. initializing' = initializing /\ initializing \in BOOLEAN
      BY <1>1, <1>4, <2>2, Types DEF Resets, Created, Makes
    <3> QED
      BY <2>2, <3>1, Zenon
  <2> QED
    BY <2>1, <2>2
<1>9. CallInv' /\ initializing' \in BOOLEAN /\ \A d \in Calls : call'[d].at \notin Replacing
  BY <1>4, <1>6, <1>7, <1>8, FollowKeeps
<1>10. job.at = "none"
  BY <1>1 DEF Inv, JobInv, Replacing
<1>11. /\ running' \in BOOLEAN /\ stopping' \in BOOLEAN /\ job' \in JobTypes
       /\ job'.at # "none" => running' /\ job'.of = session' /\ job'.target = session'
  <2>1. CASE call[c].op = "run"
    <3>1. running' = ~stopping /\ stopping' = stopping
      BY <2>1 DEF Created, Makes
    <3>2. job' = IF stopping THEN job
                 ELSE [at |-> "acting", of |-> session', target |-> session', got |-> "sent"]
      BY <2>1 DEF Created, Makes
    <3>3. CASE stopping
      BY <1>1, <1>10, <3>1, <3>2, <3>3, Types
    <3>4. CASE ~stopping
      <4>1. job' = [at |-> "acting", of |-> session', target |-> session', got |-> "sent"]
        BY <3>2, <3>4
      <4>2. job' \in JobTypes /\ job'.of = session' /\ job'.target = session'
        BY <1>3, <4>1 DEF JobTypes, JobPlaces, Progress
      <4> QED
        BY <1>1, <3>1, <3>4, <4>2, Types
    <3> QED
      BY <3>3, <3>4
  <2>2. CASE call[c].op # "run"
    BY <1>1, <1>10, <2>2, Types DEF Created, Makes
  <2> QED
    BY <2>1, <2>2
<1>12. TypeOK'
  <2>1. UNCHANGED << policyYaml, activePolicy, page >>
    BY DEF Created, Makes
  <2> QED
    BY <1>1, <1>2, <1>3, <1>7, <1>9, <1>11, <2>1
    DEF TypeOK, Grown, Follows, CallTypes, JobTypes, SessionTypes, page
<1>13. JobInv'
  BY <1>3, <1>9, <1>11 DEF JobInv
<1>14. TargetInv'
  <2> SUFFICES ASSUME NEW d \in Calls
               PROVE  TargetOf(call[d])'
    BY DEF TargetInv
  <2>1. call'[d] = call[d] \/ Settled(call'[d]) \/ call'[d] = stops
    BY <1>7 DEF Follows
  <2>2. TargetOf(call[d]) /\ call'[d].at \notin Replacing /\ DOMAIN sessions \subseteq DOMAIN sessions'
    BY <1>2, <1>9 DEF Inv, TargetInv, Grown
  <2> QED
    BY <1>3, <1>6, <2>1, <2>2 DEF TargetOf, Settled, Finishing, Replacing
<1>15. NoForgottenSession'
  <2> SUFFICES ASSUME NEW s \in DOMAIN sessions', Open(s)', s # session'
               PROVE  sessions'[s].origin = "unheard"
    BY DEF NoForgottenSession
  <2>1. s \in DOMAIN sessions /\ sessions'[s] = sessions[s] /\ Open(s)
    BY <1>2 DEF Grown, Open
  <2>2. s # session
    BY <1>1, <2>1 DEF Inv, TargetInv, TargetOf, Open
  <2> QED
    BY <2>1, <2>2 DEF Inv, NoForgottenSession
<1>16. ActivePolicyEnforced'
  <2>1. activePolicy' = activePolicy
    BY DEF Created, Makes
  <2> QED
    BY <1>2, <2>1 DEF ActivePolicyEnforced
<1> QED
  BY <1>9, <1>12, <1>13, <1>14, <1>15, <1>16 DEF Inv

-----------------------------------------------------------------------------
(* The steps of the controller.                                            *)

LEMMA ClickKeeps ==
  ASSUME Inv, NEW c \in Calls,
         Start(c) \/ Reset(c) \/ Perform(c, "act") \/ Perform(c, "complete")
  PROVE  Inv'
<1>1. TypeOK
  BY DEF Inv
<1>2. call[c].at = "idle" /\ ~Pending /\ UNCHANGED << policy, job, sessions, page >>
  BY DEF Start, Reset, Perform, Clicks, Enabled
<1>3. CASE Refused(c)
  BY <1>2, <1>3, RefusalKeeps
<1>4. CASE ~running /\ Start(c) /\ ~Refused(c)
  <2>1. /\ Begins(c, "run", "checking", session)
        /\ initializing' = TRUE /\ running' = TRUE /\ stopping' = FALSE /\ session' = session
    BY <1>4 DEF Start
  <2>2. initializing' = (initializing \/ "run" = "run")
    BY <2>1, Zenon
  <2> QED
    BY <1>2, <1>4, <2>1, <2>2, BeginKeeps
<1>5. CASE ~running /\ Reset(c) /\ ~Refused(c)
  <2>1. /\ Begins(c, "reset", "checking", session)
        /\ running' = TRUE /\ UNCHANGED << stopping, session, initializing >>
    BY <1>5 DEF Reset
  <2>2. initializing' = (initializing \/ "reset" = "run")
    BY <1>1, <2>1, Types
  <2> QED
    BY <1>1, <1>2, <1>5, <2>1, <2>2, BeginKeeps, Types
<1>6. ASSUME NEW op \in {"act", "complete"}, ~running, Perform(c, op), ~Refused(c)
      PROVE  Inv'
  <2>1. PICK at \in {"acting", "completing"} : Begins(c, op, at, session)
    BY <1>6 DEF Perform
  <2>2. UNCHANGED << running, stopping, session, initializing >>
    BY <1>6 DEF Perform, flags
  <2>3. initializing' = (initializing \/ op = "run")
    BY <1>1, <1>6, <2>2, Types
  <2> QED
    BY <1>1, <1>2, <1>6, <2>1, <2>2, <2>3, BeginKeeps, Types
<1> QED
  BY <1>3, <1>4, <1>5, <1>6 DEF Start, Reset, Perform

LEMMA StopKeeps ==
  ASSUME Inv, NEW c \in Calls, Stop(c)
  PROVE  Inv'
<1>1. /\ TypeOK /\ call[c].at = "idle" /\ stopping' = TRUE
      /\ UNCHANGED << running, session, initializing, policy, job, sessions, page >>
  BY DEF Inv, Stop, Clicks
<1>2. 1 \in Sessions /\ session \in Sessions
  BY <1>1, ConsoleAssumption, Types DEF Sessions
<1>3. ASSUME NEW at \in {"initializing", "cancelling"}, NEW t \in Sessions,
             Begins(c, "stop", at, t), at = "initializing" <=> initializing,
             at = "cancelling" => t = session
      PROVE  Inv'
  <2>1. "stop" \in Ops /\ at \in Places
    BY DEF Ops, Places, Finishing
  <2>2. PICK new : Moves(c, new) /\ new.at = at /\ new.target = t /\ new.got = "sent"
    BY <1>1, <1>3, <2>1, Types, CallMoves
  <2>3. Turns(c, new)
    BY <1>1, <2>2, Types DEF Turns, policy
  <2>4. TargetOf(new)
    BY <1>1, <1>3, <2>2, Types DEF TargetOf, Finishing
  <2> QED
    BY <1>1, <1>3, <2>2, <2>3, <2>4, TurnKeeps DEF Waits, Stops
<1>4. CASE initializing
  BY <1>2, <1>3, <1>4 DEF Stop
<1>5. CASE ~initializing
  BY <1>2, <1>3, <1>5 DEF Stop
<1> QED
  BY <1>4, <1>5

LEMMA ReplacementKeeps ==
  ASSUME Inv, NEW c \in Calls, Check(c) \/ (call[c].at = "ending" /\ FinishAnswered(c))
  PROVE  Inv'
<1>1. /\ TypeOK /\ call[c].at \in {"checking", "ending"}
      /\ call[c].target = session /\ (call[c].at = "ending" /\ call[c].got = "ok" =>
                                        sessions[session].state = "ended")
      /\ UNCHANGED << policyYaml, enforced, job, sessions, page >>
  BY DEF Inv, TargetInv, TargetOf, Check, FinishAnswered
<1>2. 1 \in Sessions /\ session \in Sessions /\ session \in DOMAIN sessions
  BY <1>1, ConsoleAssumption, Types DEF Sessions
<1>3. Starts(call[c]) \/ Resets(call[c])
  BY <1>1 DEF Inv, CallInv, Replacing
<1>4. ASSUME Requests(c, "ending", session), UNCHANGED flags, UNCHANGED activePolicy
      PROVE  Inv'
  <2>1. PICK new : /\ Moves(c, new) /\ new.op = call[c].op
                   /\ new.at = "ending" /\ new.target = session /\ new.got = "sent"
    BY <1>1, <1>2, <1>4, Types, CallMoves DEF Places, Finishing
  <2>2. TargetOf(new)
    BY <1>2, <2>1 DEF TargetOf
  <2>3. Turns(c, new)
    BY <1>1, <1>4, <2>1, Types DEF Turns, flags
  <2> QED
    BY <1>1, <2>1, <2>2, <2>3, TurnKeeps DEF Replacing
<1>5. ASSUME Create(c), UNCHANGED flags, sessions[session].state = "ended"
      PROVE  Inv'
  <2>1. "creating" \in Places /\ Requests(c, "creating", 1)
    BY <1>5 DEF Places, Create
  <2>2. PICK new : Moves(c, new) /\ new.op = call[c].op /\ new.at = "creating"
    BY <1>1, <1>2, <2>1, Types, CallMoves
  <2>3. TargetOf(new)
    BY <1>5, <2>2 DEF TargetOf, Finishing
  <2>4. Turns(c, new)
    BY <1>1, <1>5, <2>2, Types DEF Turns, flags, Create
  <2> QED
    BY <1>1, <2>2, <2>3, <2>4, TurnKeeps DEF Replacing
<1>6. CASE Check(c)
  <2>1. sessions[session].state = "running" \/ sessions[session].state = "ended"
    BY <1>1, <1>2, Types DEF SessionTypes
  <2> QED
    BY <1>1, <1>4, <1>5, <1>6, <2>1 DEF Check
<1>7. CASE call[c].at = "ending" /\ FinishAnswered(c)
  <2>1. CASE call[c].got = "ok"
    BY <1>1, <1>5, <1>7, <2>1 DEF FinishAnswered
  <2>2. CASE call[c].got # "ok"
    <3>1. NewSessionFails(c) /\ UNCHANGED activePolicy
      BY <1>7, <2>2 DEF FinishAnswered
    <3>2. SessionsProceed /\ UNCHANGED policy
      BY <1>1, <3>1, Unmoved DEF policy
    <3> QED
      BY <1>1, <1>3, <1>7, <3>1, <3>2, FailureKeeps
  <2> QED
    BY <2>1, <2>2
<1> QED
  BY <1>6, <1>7

LEMMA FailedKeeps ==
  ASSUME Inv, NEW c \in Calls, CheckFails(c) \/ CreateFails(c)
  PROVE  Inv'
<1>1. /\ TypeOK /\ NewSessionFails(c) /\ UNCHANGED << policy, job, page >>
      /\ call[c].at \in Replacing
  BY DEF Inv, CheckFails, CreateFails, Replacing
<1>2. Starts(call[c]) \/ Resets(call[c])
  BY <1>1 DEF Inv, CallInv
<1>3. SessionsProceed \/ Grown("unheard")
  BY <1>1, Unmoved, MadeGrows DEF CheckFails, CreateFails
<1> QED
  BY <1>1, <1>2, <1>3, FailureKeeps

LEMMA AnswerKeeps ==
  ASSUME Inv, NEW c \in Calls, StopJoined(c) \/ (call[c].at # "ending" /\ FinishAnswered(c))
  PROVE  Inv'
<1>1. /\ TypeOK /\ UNCHANGED << stopping, session, initializing, policy, job, sessions, page >>
      /\ call[c].at \notin Replacing
  BY DEF Inv, StopJoined, FinishAnswered, Finishing, Replacing, flags, policy
<1>2. call' \in [Calls -> CallTypes] /\ \A d \in Calls : Proceeds(d)
  <2>1. CASE Ends(c, "ok") \/ Ends(c, "error")
    BY <1>1, <2>1, CallSettles
  <2>2. CASE call[c].at = "cancelling" /\ Begins(c, "stop", "joining", 1)
    <3>1. 1 \in Sessions /\ "stop" \in Ops /\ "joining" \in Places
      BY ConsoleAssumption DEF Sessions, Ops, Places
    <3>2. PICK new : Moves(c, new) /\ new.at = "joining"
      BY <1>1, <2>2, <3>1, Types, CallMoves
    <3> QED
      BY <1>1, <2>2, <3>2, CallProceeds
  <2> QED
    BY <2>1, <2>2 DEF StopJoined, FinishAnswered
<1>3. JobProceeds
  BY <1>1, Types DEF JobProceeds, StopJoined, FinishAnswered, flags
<1>4. Quiet
  BY <1>1, <1>2, <1>3, Unmoved, Types DEF Quiet, policy
<1> QED
  BY <1>4, QuietKeeps

-----------------------------------------------------------------------------
(* The invariant, inductively.                                             *)

LEMMA InitInv == Init => Inv
<1> SUFFICES ASSUME Init
             PROVE  Inv
  OBVIOUS
<1>1. 1 \in Sessions
  BY ConsoleAssumption DEF Sessions
<1>2. \A c \in Calls : call[c].at = "idle"
  BY DEF Init, Idle
<1>3. DOMAIN sessions = {1} /\ sessions[1] = Made("answered")
  BY DEF Init
<1>4. 1 .. Cardinality(DOMAIN sessions) = {1}
  <2>1. Cardinality({1}) = 1
    BY FS_Singleton
  <2> QED
    BY <1>3, <2>1
<1>5. call \in [Calls -> CallTypes] /\ job \in JobTypes
  <2>1. Idle \in CallTypes /\ NoJob \in JobTypes
    BY <1>1 DEF Idle, CallTypes, Ops, Places, Progress, NoJob, JobTypes, JobPlaces
  <2> QED
    BY <2>1 DEF Init
<1>6. sessions \in [DOMAIN sessions -> SessionTypes]
  <2>1. Made("answered") \in SessionTypes
    BY DEF Made, SessionTypes
  <2> QED
    BY <1>3, <2>1 DEF Init
<1>7. TypeOK
  <2>1. /\ running \in BOOLEAN /\ stopping \in BOOLEAN /\ initializing \in BOOLEAN
        /\ seen \in BOOLEAN /\ refresh \in {"none", "idle", "running"}
    BY DEF Init
  <2>2. policyYaml \in Policies /\ activePolicy \in Policies /\ enforced \in Policies
    BY DEF Init
  <2>3. session = 1
    BY DEF Init
  <2>4. /\ DOMAIN sessions = 1 .. Cardinality(DOMAIN sessions)
        /\ session \in DOMAIN sessions /\ DOMAIN sessions \subseteq Sessions
    BY <1>1, <1>3, <1>4, <2>3
  <2> QED
    BY <1>1, <1>5, <1>6, <2>1, <2>2, <2>3, <2>4
    DEF TypeOK, CallTypes, JobTypes, SessionTypes
<1>8. CallInv /\ TargetInv
  <2>1. initializing = FALSE
    BY DEF Init
  <2> QED
    BY <1>2, <2>1
    DEF CallInv, TargetInv, TargetOf, Alone, Starts, Resets, Serves, Waits, Stops, Replacing, Finishing
<1>9. JobInv
  BY DEF Init, NoJob, JobInv
<1>10. NoForgottenSession /\ ActivePolicyEnforced
  BY <1>3 DEF Init, NoForgottenSession, ActivePolicyEnforced, Open
<1> QED
  BY <1>7, <1>8, <1>9, <1>10 DEF Inv

LEMMA StepInv == Inv /\ [Next]_vars => Inv'
<1> SUFFICES ASSUME Inv, [Next]_vars
             PROVE  Inv'
  OBVIOUS
<1>1. ASSUME NEW c \in Calls, CallWorks(c)
      PROVE  Inv'
  <2>1. CASE Check(c) \/ Created(c) \/ FinishAnswered(c) \/ StopJoined(c)
    BY <2>1, ReplacementKeeps, CreatedKeeps, AnswerKeeps
  <2>2. CASE FinishArrives(c) \/ ActAnswered(c)
    BY <2>2, FinishQuiet, PageQuiet, QuietKeeps DEF Inv
  <2> QED
    BY <1>1, <2>1, <2>2 DEF CallWorks
<1>2. ASSUME NEW c \in Calls,
             \/ Start(c) \/ Reset(c) \/ Stop(c) \/ Perform(c, "act") \/ Perform(c, "complete")
             \/ CheckFails(c) \/ CreateFails(c) \/ FinishTimesOut(c) \/ Answered(c)
      PROVE  Inv'
  BY <1>2, ClickKeeps, StopKeeps, FailedKeeps, FinishQuiet, PageQuiet, QuietKeeps DEF Inv
<1>3. ASSUME NEW s \in DOMAIN sessions, Finalize(s) \/ Expire(s)
      PROVE  Inv'
  BY <1>3, ServerQuiet, QuietKeeps
<1>4. CASE JobFinishArrives \/ JobTimesOut \/ JobActed \/ JobFinished
  BY <1>4, JobQuiet, QuietKeeps
<1>5. CASE StartRefresh \/ Render \/ \E p \in Policies : SetPolicy(p)
  BY <1>5, PageQuiet, QuietKeeps DEF Inv
<1>6. CASE UNCHANGED vars
  <2>1. TypeOK /\ UNCHANGED << flags, policy, call, job, sessions, page >>
    BY <1>6 DEF Inv, vars
  <2>2. Quiet
    BY <2>1, Unmoved, Types DEF Quiet, flags, policy
  <2> QED
    BY <2>2, QuietKeeps
<1> QED
  BY <1>1, <1>2, <1>3, <1>4, <1>5, <1>6 DEF Next, ConsoleWorks

-----------------------------------------------------------------------------
(* The theorems.                                                           *)

(* At most one command replaces or serves the session, a start announces   *)
(* itself, a job keeps its session, and a replacement is only made once    *)
(* the session before it has ended.                                        *)
THEOREM Invariance == Spec => []Inv
BY InitInv, StepInv, PTL DEF Spec

(* Every variable keeps its type: sessions are numbered without a gap and  *)
(* the current one is among them.                                          *)
THEOREM TypeCorrect == Spec => []TypeOK
<1>1. Inv => TypeOK
  BY DEF Inv
<1> QED
  BY <1>1, Invariance, PTL

(* Whatever is clicked, saved, answered late or not at all, a running      *)
(* scenario acts on the session it was started for, and the controller     *)
(* says that it runs (start, stop, reset, newSession, renderButtons).      *)
THEOREM AutomationKeepsItsSessionHolds == Spec => []AutomationKeepsItsSession
<1>1. Inv => AutomationKeepsItsSession
  BY DEF Inv, JobInv, AutomationKeepsItsSession
<1> QED
  BY <1>1, Invariance, PTL

(* Whatever overlaps, fails or comes late, the supervisor runs no session  *)
(* but the console's current one and those whose creation was never        *)
(* answered with them (newSession ends the one it replaces).               *)
THEOREM NoForgottenSessionHolds == Spec => []NoForgottenSession
<1>1. Inv => NoForgottenSession
  BY DEF Inv
<1> QED
  BY <1>1, Invariance, PTL

(* While the current session runs, the policy shown as active is the one   *)
(* that the supervisor enforces on it, also after a replacement that failed*)
(* with activePolicy assigned already (newSession, setPolicy).             *)
THEOREM ActivePolicyEnforcedHolds == Spec => []ActivePolicyEnforced
<1>1. Inv => ActivePolicyEnforced
  BY DEF Inv
<1> QED
  BY <1>1, Invariance, PTL
====
