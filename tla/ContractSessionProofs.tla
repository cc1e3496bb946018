----------------------- MODULE ContractSessionProofs ------------------------
(***************************************************************************)
(* Proofs about ContractSession for any number of clients and any number   *)
(* of store failures.  One inductive invariant, Inv, carries all of them:  *)
(* it ties the steps of the finalization in flight to the timer, the gate, *)
(* the executor and the terminal event they have left behind.              *)
(* Then ContractSession is shown to implement SessionOutcome: every step   *)
(* of it is one of the abstract specification or a stuttering one.         *)
(*                                                                         *)
(* The last part is about the verdicts on a session, module                *)
(* ContractVerdicts, which has a state of its own: for any contract, any   *)
(* commands and paths and a log of any length.                             *)
(***************************************************************************)
EXTENDS ContractSession, ContractVerdicts, TLAPS

-----------------------------------------------------------------------------
(* Steps a finalization reaches only after its drain was accepted, those   *)
(* at which the executor is stopped, and those at which the worktree has   *)
(* been tried and the state to record is settled.                          *)
Drained == {"snapshot", "diff", "decisions", "worktree", "ending", "saving"}
Stopped == {"diff", "decisions", "worktree", "ending", "saving"}
Settled == {"ending", "saving"}

Recorded(s) == record = s \/ \E i \in DOMAIN events : events[i] = s

(* The deadline fires at most once, and never after a drain.               *)
DeadlineInv ==
  /\ expired <=> timer = "fired"
  /\ expiry # "idle" => expired
  /\ Timer \in waiting => expiry \in {"first", "second"}
  /\ fin.step \in Drained \/ record # "running" \/ events # << >> => timer # "armed"
  /\ expired /\ fin.step \in Settled => fin.state # "completed"
  /\ expired => ~Recorded("completed")

(* From its drain on a session is at rest, and it is dropped ended.        *)
RestInv ==
  /\ fin.step \in Drained => work = "idle" /\ ~accepting
  /\ fin.step = "draining" => ~accepting
  /\ completion # None => open
  /\ ~open => record # "running" /\ work = "idle"
  /\ closing = "released" => ~open

(* As long as the store works, a finalization leaves one terminal event.   *)
EndingInv ==
  faults = 0 =>
    /\ open <=> record = "running"
    /\ fin.step \in Stopped => stopped
    /\ open /\ fin.step \notin Settled => worktree \in {"none", "present"}
    /\ fin.step \in Settled => noted = worktree
    /\ fin.step = "saving" => events = << fin.state >>
    /\ open /\ fin.step # "saving" => events = << >>
    /\ ~open => events = << record >> /\ ~accepting /\ stopped /\ noted = worktree

(* A failed completion leaves gate and timer as they were.                 *)
RefusalInv ==
  faults = 0 =>
    /\ fin.step \notin Drained /\ open => timer # "cleared"
    /\ open /\ completion = None => accepting
    /\ fin.step = "refusing" => accepting

(* Who waits is told, and a finalization records what its starter, who     *)
(* waits, asked for, or an interruption once the deadline has passed.      *)
StarterWants == IF completion \in Clients THEN asked[completion] ELSE "interrupted"

OutcomeInv ==
  /\ \A c \in Clients : c \in waiting <=> answer[c] = "pending"
  /\ Owner \in waiting <=> closing = "sessions"
  /\ completion # None => completion \in waiting
  /\ completion = Timer => expired
  /\ completion # None =>
       fin.state = IF expired /\ fin.step \in Settled THEN "interrupted" ELSE StarterWants
  /\ fin.step \in Stopped => record = "running"
  /\ fin.step = "saving" => events # << >> /\ events[Len(events)] = fin.state

Inv == TypeOK /\ DeadlineInv /\ RestInv /\ EndingInv /\ RefusalInv

-----------------------------------------------------------------------------
(* Starting or joining a finalization keeps the types and leaves one in    *)
(* flight (finishContractSession).                                         *)
LEMMA FinishFacts ==
  ASSUME TypeOK, NEW c \in Callers, NEW s \in Endings, Finish(c, s)
  PROVE  /\ FinishingTypeOK' /\ completion' # None
         /\ accepting' \in BOOLEAN
         /\ waiting' = waiting \cup {c}
         /\ completion = None => fin'.step = "draining" /\ ~accepting'
         /\ completion # None => UNCHANGED << completion, fin, accepting >>
<1> USE SessionAssumption DEF TypeOK, FinishingTypeOK, ExecutorTypeOK, Finish, Steps,
     Gate!Work
<1>1. CASE completion = None
  <2>1. fin' = [step |-> "draining", state |-> s] /\ completion' = c /\ accepting' = FALSE
    BY <1>1
  <2> QED
    BY <1>1, <2>1 DEF Callers
<1>2. CASE completion # None
  BY <1>2
<1> QED
  BY <1>1, <1>2

(* A finalization that throws leaves none in flight, or the deadline's     *)
(* second attempt at its first step.                                       *)
LEMMA RejectFacts ==
  ASSUME TypeOK, Reject
  PROVE  /\ FinishingTypeOK'
         /\ \/ completion' = None /\ fin'.step = "none"
            \/ completion' = Timer /\ fin'.step = "draining"
         /\ expiry' \in {"idle", "appending", "first", "second", "over"}
         /\ expiry' # "idle" => expiry # "idle" \/ Timer \in waiting
         /\ Timer \in waiting' => expiry' = "second"
         /\ closing' \in {"no", "server", "sessions", "released", "failed"}
         /\ closing' = "released" => closing = "released"
         /\ answer' \in [Clients -> {"none", "pending", "ok", "error"}]
<1> USE SessionAssumption DEF TypeOK, FinishingTypeOK, DeadlineTypeOK, ClientsTypeOK,
        ClosingTypeOK, Reject, AnswerWaiting, Callers, Steps, Endings, NoFin
<1>1. CASE Timer \in waiting /\ expiry = "first"
  BY <1>1
<1>2. CASE ~(Timer \in waiting /\ expiry = "first")
  BY <1>2
<1> QED
  BY <1>1, <1>2

-----------------------------------------------------------------------------
(* Every initial state of a session satisfies the invariant.               *)
LEMMA InitInv == Init => Inv
<1> SUFFICES ASSUME Init PROVE Inv
  OBVIOUS
<1> USE SessionAssumption DEF Init, NoFin, Callers, Endings, Steps
<1>1. ExecutorTypeOK /\ DeadlineTypeOK /\ FinishingTypeOK
  BY DEF ExecutorTypeOK, DeadlineTypeOK, FinishingTypeOK, Gate!Work
<1>2. LedgerTypeOK /\ ClientsTypeOK /\ ClosingTypeOK
  BY DEF LedgerTypeOK, ClientsTypeOK, ClosingTypeOK
<1>3. DeadlineInv /\ RestInv
  BY DEF DeadlineInv, RestInv, Recorded, Drained, Settled
<1>4. EndingInv /\ RefusalInv
  BY DEF EndingInv, RefusalInv, Drained, Stopped, Settled
<1> QED
  BY <1>1, <1>2, <1>3, <1>4 DEF Inv, TypeOK

(* Every step keeps the types.                                             *)
LEMMA TypeStep == TypeOK /\ [Next]_vars => TypeOK'
<1> SUFFICES ASSUME TypeOK, [Next]_vars PROVE TypeOK'
  OBVIOUS
<1> USE SessionAssumption DEF TypeOK, executor, deadline, finishing, ledger, clients
<1>1. ASSUME NEW c \in Clients, NEW s \in Endings, CompleteSession(c, s) PROVE TypeOK'
  <2>1. ExecutorTypeOK'
    BY <1>1, FinishFacts DEF CompleteSession, ExecutorTypeOK, FinishingTypeOK, Callers,
         Endings, Gate!Work
  <2>2. DeadlineTypeOK'
    BY <1>1 DEF CompleteSession, Requested, DeadlineTypeOK
  <2>3. FinishingTypeOK'
    BY <1>1, FinishFacts DEF CompleteSession, ExecutorTypeOK, FinishingTypeOK, Callers,
         Endings, Gate!Work
  <2>4. LedgerTypeOK'
    BY <1>1 DEF CompleteSession, Requested, LedgerTypeOK
  <2>5. ClientsTypeOK'
    BY <1>1 DEF CompleteSession, Requested, ClientsTypeOK
  <2>6. ClosingTypeOK'
    BY <1>1 DEF CompleteSession, Requested, ClosingTypeOK
  <2> QED
    BY <2>1, <2>2, <2>3, <2>4, <2>5, <2>6 DEF TypeOK
<1>2. ASSUME NEW c \in Clients, CancelSession(c) PROVE TypeOK'
  <2>1. ExecutorTypeOK'
    BY <1>2, FinishFacts DEF CancelSession, ExecutorTypeOK, FinishingTypeOK, Callers, Endings,
         Gate!Stops, Gate!Work
  <2>2. DeadlineTypeOK'
    BY <1>2 DEF CancelSession, Requested, DeadlineTypeOK, Gate!Stops
  <2>3. FinishingTypeOK'
    BY <1>2, FinishFacts DEF CancelSession, ExecutorTypeOK, FinishingTypeOK, Callers, Endings,
         Gate!Stops, Gate!Work
  <2>4. LedgerTypeOK'
    BY <1>2 DEF CancelSession, Requested, LedgerTypeOK, Gate!Stops
  <2>5. ClientsTypeOK'
    BY <1>2 DEF CancelSession, Requested, ClientsTypeOK, Endings, Gate!Stops
  <2>6. ClosingTypeOK'
    BY <1>2 DEF CancelSession, Requested, ClosingTypeOK, Gate!Stops
  <2> QED
    BY <2>1, <2>2, <2>3, <2>4, <2>5, <2>6 DEF TypeOK
<1>3. ASSUME NEW c \in Clients, Disconnect(c) PROVE TypeOK'
  BY <1>3 DEF Disconnect, ExecutorTypeOK, DeadlineTypeOK, FinishingTypeOK, LedgerTypeOK,
       ClientsTypeOK, ClosingTypeOK, Gate!Work
<1>4. CASE StartAction
  BY <1>4 DEF StartAction, ExecutorTypeOK, DeadlineTypeOK, FinishingTypeOK, LedgerTypeOK,
       ClientsTypeOK, ClosingTypeOK, Gate!LetIn, Gate!Work
<1>5. CASE ActionGoesOn
  <2>1. verified' \in BOOLEAN
    <3>1. CASE gated /\ work # "busy"
      BY <1>5, <3>1 DEF ActionGoesOn, ExecutorTypeOK, Gate!GoOn, Gate!Verdicts, Gate!Work
    <3>2. CASE ~gated \/ work = "busy"
      BY <1>5, <3>2 DEF ActionGoesOn, ExecutorTypeOK, Gate!GoOn, Gate!Verdicts, Gate!Work
    <3> QED
      BY <3>1, <3>2
  <2> QED
    BY <1>5, <2>1 DEF ActionGoesOn, ExecutorTypeOK, DeadlineTypeOK, FinishingTypeOK,
         LedgerTypeOK, ClientsTypeOK, ClosingTypeOK, Gate!GoOn, Gate!Verdicts, Gate!Work
<1>6. CASE Expire
  BY <1>6 DEF Expire, ExecutorTypeOK, DeadlineTypeOK, FinishingTypeOK, LedgerTypeOK,
       ClientsTypeOK, ClosingTypeOK, Gate!Stops, Gate!Work
<1>7. CASE ExpiryRecorded
  <2>1. ExecutorTypeOK'
    BY <1>7, FinishFacts DEF ExpiryRecorded, ExecutorTypeOK, FinishingTypeOK, Callers,
         Endings, Gate!Work
  <2>2. DeadlineTypeOK'
    BY <1>7 DEF ExpiryRecorded, DeadlineTypeOK
  <2>3. FinishingTypeOK'
    BY <1>7, FinishFacts DEF ExpiryRecorded, ExecutorTypeOK, FinishingTypeOK, Callers,
         Endings, Gate!Work
  <2>4. LedgerTypeOK'
    BY <1>7 DEF ExpiryRecorded, LedgerTypeOK
  <2>5. ClientsTypeOK'
    BY <1>7 DEF ExpiryRecorded, ClientsTypeOK
  <2>6. ClosingTypeOK'
    BY <1>7 DEF ExpiryRecorded, ClosingTypeOK
  <2> QED
    BY <2>1, <2>2, <2>3, <2>4, <2>5, <2>6 DEF TypeOK
<1>8. CASE ExpiryUnrecorded
  BY <1>8 DEF ExpiryUnrecorded, ExecutorTypeOK, DeadlineTypeOK, FinishingTypeOK, LedgerTypeOK,
       ClientsTypeOK, ClosingTypeOK, Gate!Work
<1>9. CASE DrainEnds
  <2>1. ExecutorTypeOK'
    BY <1>9 DEF DrainEnds, Goto, At, ExecutorTypeOK, Gate!Work
  <2>2. DeadlineTypeOK'
    BY <1>9 DEF DrainEnds, Goto, At, DeadlineTypeOK
  <2>3. FinishingTypeOK'
    BY <1>9 DEF DrainEnds, Goto, At, FinishingTypeOK, Steps
  <2>4. LedgerTypeOK'
    BY <1>9 DEF DrainEnds, Goto, At, LedgerTypeOK
  <2>5. ClientsTypeOK'
    BY <1>9 DEF DrainEnds, Goto, At, ClientsTypeOK
  <2>6. ClosingTypeOK'
    BY <1>9 DEF DrainEnds, Goto, At, ClosingTypeOK
  <2> QED
    BY <2>1, <2>2, <2>3, <2>4, <2>5, <2>6 DEF TypeOK
<1>10. CASE RefusalThrown
  <2>1. ExecutorTypeOK'
    <3>1. accepting' \in BOOLEAN
      BY <1>10, Zenon DEF RefusalThrown
    <3> QED
      BY <1>10, <3>1 DEF RefusalThrown, ExecutorTypeOK, Gate!Work
  <2>2. DeadlineTypeOK'
    BY <1>10, RejectFacts DEF RefusalThrown, DeadlineTypeOK
  <2>3. FinishingTypeOK'
    BY <1>10, RejectFacts DEF RefusalThrown, FinishingTypeOK
  <2>4. LedgerTypeOK'
    BY <1>10 DEF RefusalThrown, LedgerTypeOK
  <2>5. ClientsTypeOK'
    BY <1>10, RejectFacts DEF RefusalThrown, ClientsTypeOK
  <2>6. ClosingTypeOK'
    BY <1>10, RejectFacts DEF RefusalThrown, ClosingTypeOK
  <2> QED
    BY <2>1, <2>2, <2>3, <2>4, <2>5, <2>6 DEF TypeOK
<1>11. CASE Snapshot
  BY <1>11 DEF Snapshot, Goto, At, Steps, ExecutorTypeOK, DeadlineTypeOK, FinishingTypeOK,
       LedgerTypeOK, ClientsTypeOK, ClosingTypeOK, Gate!Stops, Gate!Work
<1>12. CASE Diff
  BY <1>12 DEF Diff, Goto, At, Steps, ExecutorTypeOK, DeadlineTypeOK, FinishingTypeOK,
       LedgerTypeOK, ClientsTypeOK, ClosingTypeOK, Gate!Work
<1>13. CASE Decisions
  BY <1>13 DEF Decisions, Goto, At, Steps, ExecutorTypeOK, DeadlineTypeOK, FinishingTypeOK,
       LedgerTypeOK, ClientsTypeOK, ClosingTypeOK, Gate!Work
<1>14. CASE RemoveWorktree
  BY <1>14 DEF RemoveWorktree, Removals, Ending, At, Steps, Endings, ExecutorTypeOK,
       DeadlineTypeOK, FinishingTypeOK, LedgerTypeOK, ClientsTypeOK, ClosingTypeOK, Gate!Work
<1>15. CASE AppendEnding
  BY <1>15 DEF AppendEnding, Goto, At, Steps, ExecutorTypeOK, DeadlineTypeOK, FinishingTypeOK,
       LedgerTypeOK, ClientsTypeOK, ClosingTypeOK, Gate!Work
<1>16. CASE SaveEnding
  <2>1. ExecutorTypeOK'
    BY <1>16 DEF SaveEnding, AnswerWaiting, NoFin, At, Steps, Endings, ExecutorTypeOK,
         Gate!Work
  <2>2. DeadlineTypeOK'
    BY <1>16 DEF SaveEnding, AnswerWaiting, NoFin, At, Steps, Endings, DeadlineTypeOK
  <2>3. FinishingTypeOK'
    BY <1>16 DEF SaveEnding, AnswerWaiting, NoFin, At, Steps, Endings, FinishingTypeOK
  <2>4. LedgerTypeOK'
    BY <1>16 DEF SaveEnding, LedgerTypeOK, FinishingTypeOK
  <2>5. ClientsTypeOK'
    BY <1>16 DEF SaveEnding, AnswerWaiting, NoFin, At, Steps, Endings, ClientsTypeOK
  <2>6. ClosingTypeOK'
    BY <1>16 DEF SaveEnding, AnswerWaiting, NoFin, At, Steps, Endings, ClosingTypeOK
  <2> QED
    BY <2>1, <2>2, <2>3, <2>4, <2>5, <2>6 DEF TypeOK
<1>17. CASE StepFails
  <2>1. ExecutorTypeOK'
    BY <1>17 DEF StepFails, ExecutorTypeOK, Gate!Work
  <2>2. DeadlineTypeOK'
    BY <1>17, RejectFacts DEF StepFails, DeadlineTypeOK
  <2>3. FinishingTypeOK'
    BY <1>17, RejectFacts DEF StepFails, FinishingTypeOK
  <2>4. LedgerTypeOK'
    BY <1>17 DEF StepFails, Removals, LedgerTypeOK, FinishingTypeOK
  <2>5. ClientsTypeOK'
    BY <1>17, RejectFacts DEF StepFails, ClientsTypeOK
  <2>6. ClosingTypeOK'
    BY <1>17, RejectFacts DEF StepFails, ClosingTypeOK
  <2> QED
    BY <2>1, <2>2, <2>3, <2>4, <2>5, <2>6 DEF TypeOK
<1>18. CASE CloseServer
  BY <1>18 DEF CloseServer, ExecutorTypeOK, DeadlineTypeOK, FinishingTypeOK, LedgerTypeOK,
       ClientsTypeOK, ClosingTypeOK, Gate!Work
<1>19. CASE CloseSessions
  <2>1. ExecutorTypeOK'
    BY <1>19, FinishFacts DEF CloseSessions, ExecutorTypeOK, FinishingTypeOK, Callers,
         Endings, Gate!Stops, Gate!Work
  <2>2. DeadlineTypeOK'
    BY <1>19 DEF CloseSessions, DeadlineTypeOK, Gate!Stops
  <2>3. FinishingTypeOK'
    BY <1>19, FinishFacts DEF CloseSessions, ExecutorTypeOK, FinishingTypeOK, Callers,
         Endings, Gate!Stops, Gate!Work
  <2>4. LedgerTypeOK'
    BY <1>19 DEF CloseSessions, LedgerTypeOK, Gate!Stops
  <2>5. ClientsTypeOK'
    BY <1>19 DEF CloseSessions, ClientsTypeOK, Gate!Stops
  <2>6. ClosingTypeOK'
    BY <1>19 DEF CloseSessions, ClosingTypeOK, Gate!Stops
  <2> QED
    BY <2>1, <2>2, <2>3, <2>4, <2>5, <2>6 DEF TypeOK
<1>20. CASE UNCHANGED vars
  BY <1>20 DEF vars, ExecutorTypeOK, DeadlineTypeOK, FinishingTypeOK, LedgerTypeOK,
       ClientsTypeOK, ClosingTypeOK, Gate!Work
<1> QED
  BY <1>1, <1>2, <1>3, <1>4, <1>5, <1>6, <1>7, <1>8, <1>9, <1>10, <1>11, <1>12, <1>13,
     <1>14, <1>15, <1>16, <1>17, <1>18, <1>19, <1>20 DEF Next, Finalize

(* No step of the session, its clients, its deadline or its owner breaks   *)
(* the invariant.                                                          *)
LEMMA StepInv == Inv /\ [Next]_vars => Inv'
<1> DEFINE Rest == DeadlineInv /\ RestInv /\ EndingInv /\ RefusalInv
<1> SUFFICES ASSUME Inv, [Next]_vars PROVE Rest'
  BY TypeStep DEF Inv
<1> USE SessionAssumption
    DEF Inv, TypeOK, ExecutorTypeOK, DeadlineTypeOK, FinishingTypeOK, LedgerTypeOK,
         ClientsTypeOK, ClosingTypeOK, Callers, Endings, Drained, Stopped, Settled, NoFin,
         executor, deadline, finishing, ledger, clients, Gate!Work
<1>1. ASSUME NEW c \in Clients, NEW s \in Endings, CompleteSession(c, s) PROVE Rest'
  <2>1. DeadlineInv'
    BY <1>1 DEF CompleteSession, Requested, Finish, DeadlineInv, Recorded, RestInv,
       EndingInv
  <2>2. RestInv'
    BY <1>1 DEF CompleteSession, Requested, Finish, RestInv, DeadlineInv, EndingInv
  <2>3. EndingInv'
    BY <1>1 DEF CompleteSession, Requested, Finish, EndingInv, DeadlineInv, RestInv
  <2>4. RefusalInv'
    BY <1>1 DEF CompleteSession, Requested, Finish, RefusalInv, DeadlineInv, RestInv,
       EndingInv
  <2> QED
    BY <2>1, <2>2, <2>3, <2>4
<1>2. ASSUME NEW c \in Clients, CancelSession(c) PROVE Rest'
  <2>1. DeadlineInv'
    BY <1>2 DEF CancelSession, Requested, Finish, DeadlineInv, Recorded, RestInv, EndingInv,
         Gate!Stops
  <2>2. RestInv'
    BY <1>2 DEF CancelSession, Requested, Finish, RestInv, DeadlineInv, EndingInv, Gate!Stops
  <2>3. EndingInv'
    BY <1>2 DEF CancelSession, Requested, Finish, EndingInv, DeadlineInv, RestInv, Gate!Stops
  <2>4. RefusalInv'
    BY <1>2 DEF CancelSession, Requested, Finish, RefusalInv, DeadlineInv, RestInv, EndingInv,
         Gate!Stops
  <2> QED
    BY <2>1, <2>2, <2>3, <2>4
<1>3. ASSUME NEW c \in Clients, Disconnect(c) PROVE Rest'
  BY <1>3 DEF Disconnect, DeadlineInv, Recorded, RestInv, EndingInv, RefusalInv
<1>4. CASE StartAction
  BY <1>4 DEF StartAction, DeadlineInv, Recorded, RestInv, EndingInv, RefusalInv, Gate!LetIn
<1>5. CASE ActionGoesOn
  BY <1>5 DEF ActionGoesOn, DeadlineInv, Recorded, RestInv, EndingInv, RefusalInv, Gate!GoOn,
       Gate!Verdicts
<1>6. CASE Expire
  BY <1>6 DEF Expire, DeadlineInv, Recorded, RestInv, EndingInv, RefusalInv, Gate!Stops
<1>7. CASE ExpiryRecorded
  <2>1. DeadlineInv'
    BY <1>7 DEF ExpiryRecorded, Finish, DeadlineInv, Recorded, RestInv, EndingInv
  <2>2. RestInv'
    BY <1>7 DEF ExpiryRecorded, Finish, RestInv, DeadlineInv, EndingInv
  <2>3. EndingInv'
    BY <1>7 DEF ExpiryRecorded, Finish, EndingInv, DeadlineInv, RestInv
  <2>4. RefusalInv'
    BY <1>7 DEF ExpiryRecorded, Finish, RefusalInv, DeadlineInv, RestInv, EndingInv
  <2> QED
    BY <2>1, <2>2, <2>3, <2>4
<1>8. CASE ExpiryUnrecorded
  BY <1>8 DEF ExpiryUnrecorded, DeadlineInv, Recorded, RestInv, EndingInv, RefusalInv
<1>9. CASE DrainEnds
  <2>1. DeadlineInv'
    BY <1>9 DEF DrainEnds, Refuses, Goto, At, DeadlineInv, Recorded, RestInv, EndingInv
  <2>2. RestInv'
    BY <1>9 DEF DrainEnds, Refuses, Goto, At, RestInv, DeadlineInv, EndingInv
  <2>3. EndingInv'
    BY <1>9 DEF DrainEnds, Refuses, Goto, At, EndingInv, DeadlineInv, RestInv
  <2>4. RefusalInv'
    BY <1>9 DEF DrainEnds, Refuses, Goto, At, RefusalInv, DeadlineInv, RestInv, EndingInv
  <2> QED
    BY <2>1, <2>2, <2>3, <2>4
<1>10. CASE RefusalThrown
  <2>1. DeadlineInv'
    BY <1>10, RejectFacts DEF RefusalThrown, At, DeadlineInv, Recorded, RestInv, EndingInv
  <2>2. RestInv'
    BY <1>10, RejectFacts DEF RefusalThrown, At, RestInv, DeadlineInv, EndingInv
  <2>3. EndingInv'
    BY <1>10, RejectFacts DEF RefusalThrown, At, EndingInv, DeadlineInv, RestInv
  <2>4. RefusalInv'
    BY <1>10, RejectFacts DEF RefusalThrown, At, RefusalInv, DeadlineInv, RestInv,
       EndingInv
  <2> QED
    BY <2>1, <2>2, <2>3, <2>4
<1>11. CASE Snapshot
  BY <1>11 DEF Snapshot, Goto, At, DeadlineInv, Recorded, RestInv, EndingInv, RefusalInv,
       Gate!Stops
<1>12. CASE Diff
  BY <1>12 DEF Diff, Goto, At, DeadlineInv, Recorded, RestInv, EndingInv, RefusalInv
<1>13. CASE Decisions
  BY <1>13 DEF Decisions, Goto, At, DeadlineInv, Recorded, RestInv, EndingInv, RefusalInv
<1>14. CASE RemoveWorktree
  <2>1. DeadlineInv' /\ RestInv' /\ RefusalInv'
    BY <1>14 DEF RemoveWorktree, Ending, At, DeadlineInv, Recorded, RestInv, EndingInv,
       RefusalInv
  <2>2. faults = 0 => worktree \in {"none", "present"}
    BY <1>14 DEF RemoveWorktree, At, RestInv, EndingInv
  <2>3. faults = 0 => noted' = worktree'
    BY <1>14, <2>2 DEF RemoveWorktree, Removals
  <2>4. EndingInv'
    BY <1>14, <2>3 DEF RemoveWorktree, Ending, At, EndingInv, DeadlineInv, RestInv
  <2> QED
    BY <2>1, <2>4
<1>15. CASE AppendEnding
  <2>1. DeadlineInv'
    BY <1>15 DEF AppendEnding, Goto, At, DeadlineInv, Recorded, RestInv, EndingInv
  <2>2. RestInv'
    BY <1>15 DEF AppendEnding, Goto, At, RestInv, DeadlineInv, EndingInv
  <2>3. EndingInv'
    BY <1>15 DEF AppendEnding, Goto, At, EndingInv, DeadlineInv, RestInv
  <2>4. RefusalInv'
    BY <1>15 DEF AppendEnding, Goto, At, RefusalInv, DeadlineInv, RestInv, EndingInv
  <2> QED
    BY <2>1, <2>2, <2>3, <2>4
<1>16. CASE SaveEnding
  <2>1. DeadlineInv'
    BY <1>16 DEF SaveEnding, AnswerWaiting, At, DeadlineInv, Recorded, RestInv, EndingInv
  <2>2. RestInv'
    BY <1>16 DEF SaveEnding, AnswerWaiting, At, RestInv, DeadlineInv, EndingInv
  <2>3. EndingInv'
    BY <1>16 DEF SaveEnding, AnswerWaiting, At, EndingInv, DeadlineInv, RestInv
  <2>4. RefusalInv'
    BY <1>16 DEF SaveEnding, AnswerWaiting, At, RefusalInv, DeadlineInv, RestInv,
       EndingInv
  <2> QED
    BY <2>1, <2>2, <2>3, <2>4
<1>17. CASE StepFails
  <2>1. DeadlineInv'
    <3>1. fin.step \in Drained /\ timer # "armed"
      BY <1>17 DEF StepFails, Steps, DeadlineInv
    <3>2. fin'.step \notin Settled /\ (expiry' # "idle" => expired)
      BY <1>17, RejectFacts DEF StepFails, DeadlineInv
    <3>3. expired => ~Recorded("completed")'
      <4>1. CASE events' = events /\ record' = record
        BY <4>1 DEF DeadlineInv, Recorded
      <4>2. CASE fin.step = "ending" /\ events' = Append(events, fin.state) /\
         record' = record
        BY <4>2 DEF DeadlineInv, Recorded
      <4>3. CASE fin.step = "saving" /\ record' = fin.state /\ events' = events
        BY <4>3 DEF DeadlineInv, Recorded
      <4> QED
        BY <1>17, <4>1, <4>2, <4>3 DEF StepFails
    <3> QED
      BY <1>17, <3>1, <3>2, <3>3, RejectFacts DEF StepFails, DeadlineInv
  <2>2. RestInv'
    BY <1>17, RejectFacts DEF StepFails, Removals, Steps, RestInv, DeadlineInv, EndingInv
  <2>3. EndingInv'
    BY <1>17, RejectFacts DEF StepFails, Removals, Steps, EndingInv, DeadlineInv, RestInv
  <2>4. RefusalInv'
    BY <1>17, RejectFacts DEF StepFails, Removals, Steps, RefusalInv, DeadlineInv,
       RestInv, EndingInv
  <2> QED
    BY <2>1, <2>2, <2>3, <2>4
<1>18. CASE CloseServer
  BY <1>18 DEF CloseServer, DeadlineInv, Recorded, RestInv, EndingInv, RefusalInv
<1>19. CASE CloseSessions
  <2>1. DeadlineInv'
    BY <1>19 DEF CloseSessions, Finish, DeadlineInv, Recorded, RestInv, EndingInv, Gate!Stops
  <2>2. RestInv'
    BY <1>19 DEF CloseSessions, Finish, RestInv, DeadlineInv, EndingInv, Gate!Stops
  <2>3. EndingInv'
    BY <1>19 DEF CloseSessions, Finish, EndingInv, DeadlineInv, RestInv, Gate!Stops
  <2>4. RefusalInv'
    BY <1>19 DEF CloseSessions, Finish, RefusalInv, DeadlineInv, RestInv, EndingInv,
         Gate!Stops
  <2> QED
    BY <2>1, <2>2, <2>3, <2>4
<1>20. CASE UNCHANGED vars
  BY <1>20 DEF vars, DeadlineInv, Recorded, RestInv, EndingInv, RefusalInv
<1> QED
  BY <1>1, <1>2, <1>3, <1>4, <1>5, <1>6, <1>7, <1>8, <1>9, <1>10, <1>11, <1>12, <1>13,
     <1>14, <1>15, <1>16, <1>17, <1>18, <1>19, <1>20 DEF Next, Finalize

-----------------------------------------------------------------------------
(* The invariant holds in every reachable state.                           *)
THEOREM Invariance == Spec => []Inv
<1>1. Init => Inv
  BY InitInv
<1>2. Inv /\ [Next]_vars => Inv'
  BY StepInv
<1> QED
  BY <1>1, <1>2, PTL DEF Spec

(* Every variable keeps its type, and a finalization is in flight exactly  *)
(* when it has a step to take.                                             *)
THEOREM TypeCorrect == Spec => []TypeOK
<1>1. Inv => TypeOK
  BY DEF Inv
<1> QED
  BY <1>1, Invariance, PTL

(* A session ends once and at rest, whoever ends it, while the store works. *)
THEOREM EndsOnceHolds == Spec => []EndsOnce
<1>1. Inv => EndsOnce
  BY DEF Inv, RestInv, EndingInv, EndsOnce
<1> QED
  BY <1>1, Invariance, PTL

(* A session whose deadline passed is never recorded or logged as          *)
(* completed, even if the finalization in flight was started by a client   *)
(* that asked for it and whose gate passes, however the store fails        *)
(* (context.expired, clearTimeout).                                        *)
ExpiredNotCompleted ==
  expired => record # "completed" /\ \A i \in DOMAIN events : events[i] # "completed"

(* No expired session ends completed.                                      *)
THEOREM ExpiredNotCompletedHolds == Spec => []ExpiredNotCompleted
<1>1. Inv => ExpiredNotCompleted
  BY DEF Inv, DeadlineInv, Recorded, ExpiredNotCompleted
<1> QED
  BY <1>1, Invariance, PTL

(* A refused completion leaves the session accepting and under its         *)
(* deadline, while the store works.                                        *)
THEOREM RefusalRecoverableHolds == Spec => []RefusalRecoverable
<1>1. Inv => RefusalRecoverable
  BY SessionAssumption
     DEF Inv, TypeOK, FinishingTypeOK, RefusalInv, RefusalRecoverable, Drained
<1> QED
  BY <1>1, Invariance, PTL

(* The store lock is released only by an ended session at rest, however    *)
(* the store fails.                                                        *)
THEOREM ReleasedAtRestHolds == Spec => []ReleasedAtRest
<1>1. Inv => ReleasedAtRest
  BY DEF Inv, RestInv, ReleasedAtRest
<1> QED
  BY <1>1, Invariance, PTL

-----------------------------------------------------------------------------
(* The session implements SessionOutcome.  What a session's outcome rests  *)
(* on is kept by every step.                                               *)

LEMMA OutcomeStep ==
  TypeOK /\ DeadlineInv /\ OutcomeInv /\ [Next]_vars => OutcomeInv'
<1> SUFFICES ASSUME TypeOK, DeadlineInv, OutcomeInv, [Next]_vars PROVE OutcomeInv'
  OBVIOUS
<1> USE SessionAssumption
    DEF TypeOK, DeadlineTypeOK, FinishingTypeOK, LedgerTypeOK, ClientsTypeOK, ClosingTypeOK,
        Callers, Endings, Drained, Stopped, Settled, NoFin, executor, deadline, finishing,
        ledger, clients
<1>1. CASE UNCHANGED << asked, answer, waiting, completion, closing, record, events,
                    expired, fin >>
  BY <1>1 DEF OutcomeInv, StarterWants
<1>2. ASSUME NEW c \in Clients, NEW s \in Endings, CompleteSession(c, s) PROVE OutcomeInv'
  <2>1. /\ answer[c] = "none" /\ asked' = [asked EXCEPT ![c] = s] /\ completion # c
        /\ UNCHANGED << closing, record, expired >>
    BY <1>2 DEF CompleteSession, Requested, OutcomeInv
  <2>2. CASE open
    BY <1>2, <2>1, <2>2 DEF CompleteSession, Finish, OutcomeInv, StarterWants
  <2>3. CASE ~open
    BY <1>2, <2>1, <2>3 DEF CompleteSession, OutcomeInv, StarterWants
  <2> QED
    BY <2>2, <2>3
<1>3. ASSUME NEW c \in Clients, CancelSession(c) PROVE OutcomeInv'
  <2>1. /\ answer[c] = "none" /\ asked' = [asked EXCEPT ![c] = "interrupted"]
        /\ completion # c /\ UNCHANGED << closing, record, expired >>
    BY <1>3 DEF CancelSession, Requested, OutcomeInv, Gate!Stops
  <2>2. CASE record = "running"
    BY <1>3, <2>1, <2>2 DEF CancelSession, Finish, OutcomeInv, StarterWants, Gate!Stops
  <2>3. CASE record # "running"
    BY <1>3, <2>1, <2>3 DEF CancelSession, OutcomeInv, StarterWants, Gate!Stops
  <2> QED
    BY <2>2, <2>3
<1>4. CASE Expire
  <2>1. fin.step \notin Settled
    BY <1>4 DEF Expire, DeadlineInv, Gate!Stops
  <2> QED
    BY <1>4, <2>1 DEF Expire, OutcomeInv, StarterWants, Gate!Stops
<1>5. CASE ExpiryRecorded
  <2>1. expired
    BY <1>5 DEF ExpiryRecorded, DeadlineInv
  <2> QED
    BY <1>5, <2>1 DEF ExpiryRecorded, Finish, OutcomeInv, StarterWants
<1>6. CASE DrainEnds
  BY <1>6 DEF DrainEnds, Goto, At, OutcomeInv, StarterWants
<1>7. CASE RefusalThrown \/ StepFails
  <2>1. Reject /\ UNCHANGED << asked, expired >>
    BY <1>7 DEF RefusalThrown, StepFails
  <2>2. Timer \in waiting => expired
    BY DEF DeadlineInv
  <2>3. /\ \A c \in Clients : c \notin waiting' /\ answer'[c] # "pending"
        /\ Owner \notin waiting' /\ closing' # "sessions"
    BY <2>1 DEF Reject, AnswerWaiting, OutcomeInv
  <2> QED
    BY <2>1, <2>2, <2>3 DEF Reject, OutcomeInv, StarterWants
<1>8. CASE Snapshot
  BY <1>8 DEF Snapshot, Goto, At, OutcomeInv, StarterWants, Gate!Stops
<1>9. CASE Diff \/ Decisions
  BY <1>9 DEF Diff, Decisions, Goto, At, OutcomeInv, StarterWants
<1>10. CASE RemoveWorktree
  BY <1>10 DEF RemoveWorktree, Ending, At, OutcomeInv, StarterWants
<1>11. CASE AppendEnding
  <2>1. events' # << >> /\ events'[Len(events')] = fin.state
    BY <1>11 DEF AppendEnding
  <2> QED
    BY <1>11, <2>1 DEF AppendEnding, Goto, At, OutcomeInv, StarterWants
<1>12. CASE SaveEnding
  BY <1>12 DEF SaveEnding, AnswerWaiting, OutcomeInv, StarterWants
<1>13. CASE CloseServer
  BY <1>13 DEF CloseServer, OutcomeInv, StarterWants
<1>14. CASE CloseSessions
  <2>1. CASE open
    BY <1>14, <2>1 DEF CloseSessions, Finish, OutcomeInv, StarterWants, Gate!Stops
  <2>2. CASE ~open
    BY <1>14, <2>2 DEF CloseSessions, OutcomeInv, StarterWants, Gate!Stops
  <2> QED
    BY <2>1, <2>2
<1>15. CASE \/ \E c \in Clients : Disconnect(c)
            \/ StartAction \/ ActionGoesOn \/ ExpiryUnrecorded \/ UNCHANGED vars
  BY <1>1, <1>15 DEF Disconnect, StartAction, ActionGoesOn, ExpiryUnrecorded, vars,
       Gate!LetIn, Gate!GoOn, Gate!Verdicts
<1> QED
  BY <1>2, <1>3, <1>4, <1>5, <1>6, <1>7, <1>8, <1>9, <1>10, <1>11, <1>12, <1>13, <1>14,
     <1>15 DEF Next, Finalize

(* Telling everyone in waiting is telling everyone who waits.              *)
LEMMA EveryoneTold ==
  ASSUME TypeOK, OutcomeInv, NEW a \in {"ok", "error"}, AnswerWaiting(a),
         closing' = IF Owner \in waiting THEN (IF a = "ok" THEN "released" ELSE "failed")
                    ELSE closing
  PROVE  Outcome!AnswerAll(a)
<1>1. answer' = [c \in Clients |-> IF answer[c] = "pending" THEN a ELSE answer[c]]
  BY DEF AnswerWaiting, OutcomeInv
<1>2. OwnerAnswer' = IF OwnerAnswer = "pending" THEN a ELSE OwnerAnswer
  <2>1. closing \in {"no", "server", "sessions", "released", "failed"}
    BY DEF TypeOK, ClosingTypeOK
  <2>2. OwnerAnswer = "pending" <=> closing = "sessions"
    BY <2>1 DEF OwnerAnswer
  <2>3. CASE closing = "sessions"
    BY <2>2, <2>3 DEF OutcomeInv, OwnerAnswer
  <2>4. CASE closing # "sessions"
    <3>1. closing' = closing
      BY <2>4 DEF OutcomeInv
    <3>2. OwnerAnswer' = OwnerAnswer
      BY <3>1 DEF OwnerAnswer
    <3> QED
      BY <2>2, <2>4, <3>2
  <2> QED
    BY <2>3, <2>4
<1> QED
  BY <1>1, <1>2 DEF Outcome!AnswerAll

(* Before it is recorded, an ending is one that somebody waits for.        *)
LEMMA StarterDue ==
  ASSUME TypeOK, DeadlineInv, OutcomeInv, fin.step \in Settled
  PROVE  record = "running" /\ fin.state \in Outcome!Due
<1>1. /\ completion # None /\ completion \in waiting /\ completion \in Callers
      /\ record = "running"
  BY DEF TypeOK, FinishingTypeOK, OutcomeInv, Settled, Stopped
<1>2. fin.state = IF expired THEN "interrupted" ELSE StarterWants
  BY <1>1 DEF OutcomeInv, Settled
<1>3. CASE expired
  BY <1>1, <1>2, <1>3 DEF Outcome!Due
<1>4. CASE ~expired /\ completion \in Clients
  <2>1. answer[completion] = "pending" /\ fin.state = asked[completion]
    BY <1>1, <1>2, <1>4 DEF OutcomeInv, StarterWants
  <2> QED
    BY <1>1, <1>4, <2>1 DEF Outcome!Due
<1>5. CASE ~expired /\ completion = Owner
  <2>1. OwnerAnswer = "pending"
    BY <1>1, <1>5 DEF OutcomeInv, OwnerAnswer
  <2>2. fin.state = "interrupted"
    BY <1>2, <1>5, SessionAssumption DEF StarterWants
  <2> QED
    BY <1>1, <1>5, <2>1, <2>2 DEF Outcome!Due
<1> QED
  BY <1>1, <1>3, <1>4, <1>5 DEF Callers, OutcomeInv

LEMMA OutcomeInit == Init => Outcome!Init
BY DEF Init, Outcome!Init, OwnerAnswer

(* Every step of the session is one of SessionOutcome, or unseen by those  *)
(* who ask.                                                                *)
LEMMA ImplementsStep ==
  ASSUME Inv, OutcomeInv, [Next]_vars
  PROVE  [Outcome!Next]_(<< asked, answer, OwnerAnswer, expired, events, record >>)
<1> USE DEF Inv, executor, deadline, finishing, ledger, clients
<1>1. CASE UNCHANGED << asked, answer, closing, expired, events, record >>
  BY <1>1 DEF OwnerAnswer
<1>2. ASSUME NEW c \in Clients, NEW s \in Endings, CompleteSession(c, s)
      PROVE  Outcome!Next
  <2>1. /\ answer[c] = "none" /\ asked' = [asked EXCEPT ![c] = s]
        /\ UNCHANGED << OwnerAnswer, expired, events, record >>
    BY <1>2 DEF CompleteSession, Requested, OwnerAnswer
  <2>2. \E reply \in Outcome!Replies : answer' = [answer EXCEPT ![c] = reply]
    <3>1. CASE open
      BY <1>2, <3>1 DEF CompleteSession, Outcome!Replies
    <3>2. CASE ~open
      BY <1>2, <3>2 DEF CompleteSession, RestInv, Outcome!Replies
    <3> QED
      BY <3>1, <3>2
  <2>3. Outcome!Ask(c, s)
    BY <2>1, <2>2 DEF Outcome!Ask
  <2> QED
    BY <2>3 DEF Outcome!Next, Outcome!Endings, Endings
<1>3. ASSUME NEW c \in Clients, CancelSession(c)
      PROVE  Outcome!Next
  <2>1. /\ answer[c] = "none" /\ asked' = [asked EXCEPT ![c] = "interrupted"]
        /\ UNCHANGED << OwnerAnswer, expired, events, record >>
    BY <1>3 DEF CancelSession, Requested, OwnerAnswer, Gate!Stops
  <2>2. \E reply \in Outcome!Replies : answer' = [answer EXCEPT ![c] = reply]
    <3>1. CASE record = "running"
      BY <1>3, <3>1 DEF CancelSession, Outcome!Replies, Gate!Stops
    <3>2. CASE record # "running"
      BY <1>3, <3>2 DEF CancelSession, Outcome!Replies, Gate!Stops
    <3> QED
      BY <3>1, <3>2
  <2>3. Outcome!Ask(c, "interrupted")
    BY <2>1, <2>2 DEF Outcome!Ask
  <2> QED
    BY <2>3 DEF Outcome!Next, Outcome!Endings
<1>4. CASE Expire
  <2>1. ~expired /\ record = "running" /\ events = << >> /\ UNCHANGED OwnerAnswer
    BY <1>4 DEF Expire, DeadlineInv, OwnerAnswer, Gate!Stops
  <2>2. Outcome!PassDeadline
    BY <1>4, <2>1 DEF Expire, Outcome!PassDeadline, Gate!Stops
  <2> QED
    BY <2>2 DEF Outcome!Next
<1>5. CASE ExpiryRecorded
  BY <1>1, <1>5 DEF ExpiryRecorded
<1>6. CASE RefusalThrown
  <2>1. Outcome!AnswerAll("error")
    BY <1>6, EveryoneTold DEF RefusalThrown, Reject
  <2> QED
    BY <1>6, <2>1 DEF RefusalThrown, Outcome!Next, Outcome!Fail
<1>7. CASE StepFails
  <2>1. Outcome!AnswerAll("error") /\ UNCHANGED << asked, expired >>
    BY <1>7, EveryoneTold DEF StepFails, Reject
  <2>2. CASE UNCHANGED << record, events >>
    BY <2>1, <2>2 DEF Outcome!Next, Outcome!Fail
  <2>3. CASE fin.step = "ending" /\ events' = Append(events, fin.state) /\ UNCHANGED record
    <3>1. record = "running" /\ fin.state \in Outcome!Due
      BY <2>3, StarterDue DEF Settled
    <3>2. Outcome!Write
      BY <2>1, <2>3, <3>1 DEF Outcome!Write
    <3> QED
      BY <3>2 DEF Outcome!Next
  <2>4. CASE fin.step = "saving" /\ record' = fin.state /\ UNCHANGED events
    <3>1. /\ record = "running" /\ record' \in Outcome!Due
          /\ events # << >> /\ record' = events[Len(events)]
      BY <2>4, StarterDue DEF OutcomeInv, Settled
    <3>2. Outcome!Decide
      BY <2>1, <2>4, <3>1 DEF Outcome!Decide
    <3> QED
      BY <3>2 DEF Outcome!Next
  <2> QED
    BY <1>7, <2>2, <2>3, <2>4 DEF StepFails
<1>8. CASE SaveEnding
  <2>1. Outcome!AnswerAll("ok") /\ UNCHANGED << asked, expired, events >>
    BY <1>8, EveryoneTold DEF SaveEnding
  <2>2. /\ record = "running" /\ record' \in Outcome!Due
        /\ events # << >> /\ record' = events[Len(events)]
    BY <1>8, StarterDue DEF SaveEnding, At, OutcomeInv, Settled
  <2>3. Outcome!Decide
    BY <2>1, <2>2 DEF Outcome!Decide
  <2> QED
    BY <2>3 DEF Outcome!Next
<1>9. CASE CloseServer
  BY <1>9 DEF CloseServer, OwnerAnswer
<1>10. CASE CloseSessions
  <2>1. OwnerAnswer = "none" /\ UNCHANGED << asked, answer, expired, events, record >>
    BY <1>10 DEF CloseSessions, OwnerAnswer, Gate!Stops
  <2>2. OwnerAnswer' \in Outcome!Replies
    <3>1. CASE open
      BY <1>10, <3>1 DEF CloseSessions, OwnerAnswer, Outcome!Replies, Gate!Stops
    <3>2. CASE ~open
      BY <1>10, <3>2 DEF CloseSessions, OwnerAnswer, RestInv, Outcome!Replies, Gate!Stops
    <3> QED
      BY <3>1, <3>2
  <2>3. Outcome!Close
    BY <2>1, <2>2 DEF Outcome!Close
  <2> QED
    BY <2>3 DEF Outcome!Next
<1>11. CASE DrainEnds \/ Snapshot \/ Diff \/ Decisions \/ RemoveWorktree
  BY <1>1, <1>11 DEF DrainEnds, Snapshot, Diff, Decisions, RemoveWorktree, Gate!Stops
<1>12. CASE \/ \E c \in Clients : Disconnect(c)
            \/ StartAction \/ ActionGoesOn \/ ExpiryUnrecorded \/ UNCHANGED vars
  BY <1>1, <1>12 DEF Disconnect, StartAction, ActionGoesOn, ExpiryUnrecorded, vars,
       Gate!LetIn, Gate!GoOn, Gate!Verdicts
<1>13. CASE AppendEnding
  <2>1. /\ events' = Append(events, fin.state)
        /\ UNCHANGED << asked, answer, OwnerAnswer, expired, record >>
    BY <1>13 DEF AppendEnding, OwnerAnswer
  <2>2. record = "running" /\ fin.state \in Outcome!Due
    BY <1>13, StarterDue DEF AppendEnding, At, Settled
  <2>3. Outcome!Write
    BY <2>1, <2>2 DEF Outcome!Write
  <2> QED
    BY <2>3 DEF Outcome!Next
<1> QED
  BY <1>2, <1>3, <1>4, <1>5, <1>6, <1>7, <1>8, <1>9, <1>10, <1>11, <1>12, <1>13
  DEF Next, Finalize

(* For any number of clients and of store failures a session implements    *)
(* SessionOutcome: one outcome, decided by someone who waits or by the     *)
(* deadline, and one answer for everyone who waits.                        *)
THEOREM Refinement == Spec => ImplementsSessionOutcome
<1>1. Init => OutcomeInv /\ Outcome!Init
  <2>1. Init => OutcomeInv
    <3> SUFFICES ASSUME Init PROVE OutcomeInv
      OBVIOUS
    <3>1. /\ completion = None /\ waiting = {} /\ fin.step = "none" /\ closing = "no"
          /\ \A c \in Clients : answer[c] = "none"
      BY DEF Init, NoFin
    <3>2. Timer # None
      BY SessionAssumption DEF Callers
    <3> QED
      BY <3>1, <3>2 DEF OutcomeInv, Stopped
  <2> QED
    BY <2>1, OutcomeInit
<1>2. Inv /\ OutcomeInv /\ [Next]_vars => OutcomeInv'
  BY OutcomeStep DEF Inv
<1>3. Inv /\ OutcomeInv /\ [Next]_vars
        => [Outcome!Next]_(<< asked, answer, OwnerAnswer, expired, events, record >>)
  BY ImplementsStep
<1>4. Spec => []Inv
  BY Invariance
<1> QED
  BY <1>1, <1>2, <1>3, <1>4, PTL DEF Spec, ImplementsSessionOutcome, Outcome!Spec

-----------------------------------------------------------------------------
(* The verdicts on a contract's session: the rest is about ContractVerdicts. *)

(* b is a and e after it.                                                  *)
Retains(a, b, e) ==
  /\ DOMAIN a \subseteq DOMAIN b
  /\ \A i \in DOMAIN a : b[i] = a[i] /\ 1 .. i - 1 \subseteq DOMAIN a
  /\ \A i \in DOMAIN b \ DOMAIN a : b[i] = e

LEMMA AppendRetains ==
  ASSUME NEW S, NEW a \in Seq(S), NEW e
  PROVE  Retains(a, Append(a, e), e)
<1>1. DOMAIN a \subseteq DOMAIN Append(a, e) /\ \A i \in DOMAIN a : Append(a, e)[i] = a[i]
  OBVIOUS
<1>2. \A i \in DOMAIN a : 1 .. i - 1 \subseteq DOMAIN a
  OBVIOUS
<1>3. \A i \in DOMAIN Append(a, e) \ DOMAIN a : Append(a, e)[i] = e
  OBVIOUS
<1> QED
  BY <1>1, <1>2, <1>3 DEF Retains

(* Evidence is only added to.                                              *)
LEMMA EvidenceGrows ==
  ASSUME NEW a, NEW b, NEW e, Retains(a, b, e)
  PROVE  /\ \A kind : Observed(a, kind) \subseteq Observed(b, kind)
         /\ ObservedCommands(a) \subseteq ObservedCommands(b)
         /\ RequiredStarts(a) \subseteq RequiredStarts(b)
         /\ \A succeeded : Results(a, RequiredStarts(a), succeeded)
              \subseteq Results(b, RequiredStarts(b), succeeded)
<1>1. \A i \in DOMAIN a : i \in DOMAIN b /\ b[i] = a[i]
  BY DEF Retains
<1>2. \A kind : Observed(a, kind) \subseteq Observed(b, kind)
  BY <1>1 DEF Observed
<1>3. \A kind : \A i \in Observed(a, kind) : i \in DOMAIN a
  BY DEF Observed
<1>4. ObservedCommands(a) \subseteq ObservedCommands(b)
  BY <1>1, <1>2, <1>3 DEF ObservedCommands
<1>5. \A i \in ObservedCommands(a) : i \in DOMAIN a
  BY <1>3 DEF ObservedCommands
<1>6. RequiredStarts(a) \subseteq RequiredStarts(b)
  BY <1>1, <1>4, <1>5 DEF RequiredStarts
<1>7. \A i \in RequiredStarts(a) : i \in DOMAIN a
  BY <1>5 DEF RequiredStarts
<1>8. ASSUME NEW succeeded, NEW i \in Results(a, RequiredStarts(a), succeeded)
      PROVE  i \in Results(b, RequiredStarts(b), succeeded)
  <2>1. /\ i \in Observed(a, "completion") /\ a[i].succeeded = succeeded
        /\ \E s \in RequiredStarts(a) :
             a[s].correlation # Absent /\ a[s].correlation = a[i].correlation
    BY <1>8 DEF Results
  <2>2. i \in Observed(b, "completion") /\ b[i] = a[i]
    BY <1>1, <1>2, <1>3, <2>1
  <2>3. \E s \in RequiredStarts(b) :
          b[s].correlation # Absent /\ b[s].correlation = b[i].correlation
    BY <1>1, <1>6, <1>7, <2>1, <2>2
  <2> QED
    BY <2>1, <2>2, <2>3 DEF Results
<1> QED
  BY <1>2, <1>4, <1>6, <1>8

(* What was decided before an event stays as it was.                       *)
LEMMA DecisionsStand ==
  ASSUME NEW a, NEW b, NEW e, Retains(a, b, e)
  PROVE  /\ \A i \in DOMAIN a : Decided(b, i) <=> Decided(a, i)
         /\ Attached(a) => Attached(b)
         /\ Attached(b) /\ e.grade # "computed" => Attached(a)
<1>1. ASSUME NEW i \in DOMAIN a
      PROVE  Decided(b, i) <=> Decided(a, i)
  <2>1. b[i] = a[i] /\ \A d \in 1 .. i - 1 : b[d] = a[d]
    BY DEF Retains
  <2> QED
    BY <2>1 DEF Decided
<1>2. Attached(a) => Attached(b)
  BY DEF Retains, Attached
<1>3. Attached(b) /\ e.grade # "computed" => Attached(a)
  BY DEF Retains, Attached
<1> QED
  BY <1>1, <1>2, <1>3

(* Snapshots and changes are only added to.                                *)
LEMMA ChangesGrow ==
  ASSUME NEW a, NEW b, NEW e, Retains(a, b, e)
  PROVE  /\ Snapshots(a) \subseteq Snapshots(b)
         /\ Ambiguous(a) => Ambiguous(b)
         /\ ObservedPaths(a) \subseteq ObservedPaths(b)
<1>1. \A i \in DOMAIN a : i \in DOMAIN b /\ b[i] = a[i]
  BY DEF Retains
<1>2. Snapshots(a) = Snapshots(b) \cap DOMAIN a
  BY <1>1 DEF Snapshots
<1>3. Reliable(a) = Reliable(b) \cap DOMAIN a
  BY <1>1, <1>2 DEF Reliable
<1>4. Ambiguous(a) => Ambiguous(b)
  BY <1>2, <1>3 DEF Ambiguous
<1>5. ASSUME NEW p \in ObservedPaths(a) PROVE p \in ObservedPaths(b)
  <2>1. CASE p \in {a[i].path : i \in Observed(a, "change")} \ {Absent}
    <3>1. PICK i \in Observed(a, "change") : p = a[i].path
      BY <2>1
    <3>2. i \in Observed(b, "change") /\ b[i] = a[i]
      BY <1>1, EvidenceGrows DEF Observed
    <3> QED
      BY <2>1, <3>1, <3>2 DEF ObservedPaths
  <2>2. CASE p \in UNION {a[i].paths : i \in {j \in Reliable(a) : a[j].changed}}
    <3>1. PICK i \in Reliable(a) : a[i].changed /\ p \in a[i].paths
      BY <2>2
    <3>2. i \in Reliable(b) /\ b[i] = a[i]
      BY <1>1, <1>3
    <3> QED
      BY <3>1, <3>2 DEF ObservedPaths
  <2> QED
    BY <1>5, <2>1, <2>2 DEF ObservedPaths
<1> QED
  BY <1>2, <1>4, <1>5

(* An event that was not observed is no evidence.                          *)
LEMMA NoEvidence ==
  ASSUME NEW a, NEW b, NEW e, Retains(a, b, e), e.grade # "observed"
  PROVE  /\ \A kind : Observed(b, kind) = Observed(a, kind)
         /\ ObservedCommands(b) = ObservedCommands(a)
         /\ RequiredStarts(b) = RequiredStarts(a)
         /\ \A succeeded : Results(b, RequiredStarts(b), succeeded)
              = Results(a, RequiredStarts(a), succeeded)
         /\ ObservedPaths(b) = ObservedPaths(a)
<1>1. \A i \in DOMAIN b : i \notin DOMAIN a => b[i].grade # "observed"
  BY DEF Retains
<1>2. \A i \in DOMAIN a : i \in DOMAIN b /\ b[i] = a[i]
  BY DEF Retains
<1>3. \A kind : Observed(b, kind) = Observed(a, kind)
  BY <1>1, <1>2 DEF Observed
<1>4. \A kind : \A i \in Observed(a, kind) : b[i] = a[i]
  BY <1>2 DEF Observed
<1>5. ObservedCommands(b) = ObservedCommands(a)
  BY <1>3, <1>4 DEF ObservedCommands
<1>6. \A i \in ObservedCommands(a) : b[i] = a[i]
  BY <1>4 DEF ObservedCommands
<1>7. RequiredStarts(b) = RequiredStarts(a)
  BY <1>5, <1>6 DEF RequiredStarts
<1>8. \A i \in RequiredStarts(a) : b[i] = a[i]
  BY <1>6 DEF RequiredStarts
<1>9. \A succeeded : Results(b, RequiredStarts(b), succeeded)
        = Results(a, RequiredStarts(a), succeeded)
  BY <1>3, <1>4, <1>7, <1>8 DEF Results
<1>10. Reliable(b) = Reliable(a)
  BY <1>1, <1>2 DEF Reliable, Snapshots
<1>11. \A i \in Reliable(a) : b[i] = a[i]
  BY <1>2 DEF Reliable, Snapshots
<1>12. {b[i].path : i \in Observed(b, "change")}
         = {a[i].path : i \in Observed(a, "change")}
  BY <1>3, <1>4
<1>13. UNION {b[i].paths : i \in {j \in Reliable(b) : b[j].changed}}
         = UNION {a[i].paths : i \in {j \in Reliable(a) : a[j].changed}}
  <2>1. {j \in Reliable(b) : b[j].changed} = {j \in Reliable(a) : a[j].changed}
    BY <1>10, <1>11
  <2>2. {b[i].paths : i \in {j \in Reliable(b) : b[j].changed}}
          = {a[i].paths : i \in {j \in Reliable(a) : a[j].changed}}
    BY <1>11, <2>1
  <2> QED
    BY <2>2
<1>14. ObservedPaths(b) = ObservedPaths(a)
  BY <1>12, <1>13 DEF ObservedPaths
<1> QED
  BY <1>3, <1>5, <1>7, <1>9, <1>14

(* Without evidence each verdict stays or becomes unknown.                 *)
LEMMA DeclaredVerdicts ==
  ASSUME NEW a, NEW b, NEW e, Retains(a, b, e), e.grade \in {"declared", "unknown"},
         NEW rule \in Rules
  PROVE  EvaluateContract(b)[rule]
           \in {EvaluateContract(a)[rule], "unknown"}
<1>1. e.grade # "observed" /\ e.grade # "computed"
  OBVIOUS
<1>2. Allow(b) = Allow(a) /\ Deny(b) = Deny(a)
  <2>1. \A i \in ObservedCommands(a) : b[i] = a[i]
    BY DEF Retains, ObservedCommands, Observed
  <2>2. ObservedCommands(b) = ObservedCommands(a)
    BY <1>1, NoEvidence
  <2> QED
    BY <2>1, <2>2 DEF Allow, Deny, Verdict
<1>3. Require(b) = Require(a)
  <2>1. /\ ObservedCommands(b) = ObservedCommands(a)
        /\ RequiredStarts(b) = RequiredStarts(a)
    BY <1>1, NoEvidence
  <2>2. \A succeeded : Results(b, RequiredStarts(b), succeeded)
          = Results(a, RequiredStarts(a), succeeded)
    BY <1>1, NoEvidence
  <2>3. /\ Results(b, RequiredStarts(b), TRUE)
             = Results(a, RequiredStarts(a), TRUE)
        /\ Results(b, RequiredStarts(b), FALSE)
             = Results(a, RequiredStarts(a), FALSE)
    BY <2>2
  <2> QED
    BY <2>1, <2>3 DEF Require
<1>4. PreAction(b) = PreAction(a)
  <2>1. Attached(b) <=> Attached(a)
    BY <1>1, DecisionsStand
  <2>2. ObservedCommands(b) = ObservedCommands(a)
    BY <1>1, NoEvidence
  <2>3. \A i \in ObservedCommands(a) : Decided(b, i) <=> Decided(a, i)
    BY DecisionsStand DEF ObservedCommands, Observed
  <2> QED
    BY <2>1, <2>2, <2>3 DEF PreAction, Verdict
<1>5. \A outside \in BOOLEAN :
        PathVerdict(b, outside) \in {PathVerdict(a, outside), "unknown"}
  <2>1. ObservedPaths(b) = ObservedPaths(a)
    BY <1>1, NoEvidence
  <2>2. Ambiguous(a) => Ambiguous(b)
    BY ChangesGrow
  <2>3. Snapshots(a) = {} => Snapshots(b) = {} \/ Ambiguous(b)
    <3>1. Snapshots(a) = {} => Reliable(b) = {}
      BY <1>1 DEF Retains, Reliable, Snapshots
    <3> QED
      BY <3>1 DEF Ambiguous
  <2> QED
    BY <2>1, <2>2, <2>3 DEF PathVerdict, Verdict
<1>6. /\ DenyPaths(b) \in {DenyPaths(a), "unknown"}
      /\ AllowPaths(b) \in {AllowPaths(a), "unknown"}
  <2>1. ObservedPaths(b) = ObservedPaths(a)
    BY <1>1, NoEvidence
  <2> QED
    BY <1>5, <2>1 DEF DenyPaths, AllowPaths
<1>7. \A kind : Kept(b, kind) = Kept(a, kind)
  <2>1. \A kind : Observed(b, kind) = Observed(a, kind)
    BY <1>1, NoEvidence
  <2> QED
    BY <2>1 DEF Kept
<1> QED
  BY <1>2, <1>3, <1>4, <1>6, <1>7 DEF EvaluateContract, Rules

(* Whatever is added, these verdicts stay.                                 *)
LEMMA StandingVerdicts ==
  ASSUME NEW a, NEW b, NEW e, Retains(a, b, e), NEW rule \in Rules
  PROVE  LET before == EvaluateContract(a)[rule]
             after == EvaluateContract(b)[rule] IN
         /\ before = "fail" /\ rule # "commands.requireSuccess" => after = "fail"
         /\ before = "pass"
              /\ rule \in {"commands.requireSuccess", "command-result", "filesystem-diff"}
              => after = "pass"
         /\ before = "unknown"
              /\ rule = "commands.requirePreAction" /\ Attached(a)
              => after = "unknown"
<1>1. \A i \in ObservedCommands(a) :
        i \in DOMAIN a /\ i \in ObservedCommands(b) /\ b[i] = a[i]
  <2>1. \A i \in ObservedCommands(a) : i \in DOMAIN a
    BY DEF ObservedCommands, Observed
  <2> QED
    BY <2>1, EvidenceGrows DEF Retains
<1>2. /\ Allow(a) = "fail" => Allow(b) = "fail"
      /\ Deny(a) = "fail" => Deny(b) = "fail"
  BY <1>1 DEF Allow, Deny, Verdict
<1>3. Require(a) = "pass" => Require(b) = "pass"
  <2>1. ASSUME Require(a) = "pass" PROVE Require(b) = "pass"
    <3>1. /\ ObservedCommands(a) # {} /\ RequiredStarts(a) # {}
          /\ Results(a, RequiredStarts(a), TRUE) # {}
      BY <2>1 DEF Require, Verdict
    <3>2. /\ ObservedCommands(b) # {} /\ RequiredStarts(b) # {}
          /\ Results(b, RequiredStarts(b), TRUE) # {}
      BY <3>1, EvidenceGrows
    <3> QED
      BY <3>2 DEF Require
  <2> QED
    BY <2>1
<1>4. /\ PreAction(a) # "fail"
      /\ PreAction(a) = "unknown" /\ Attached(a)
           => PreAction(b) = "unknown"
  <2>1. PreAction(a) # "fail"
    BY DEF PreAction, Verdict
  <2>2. ASSUME PreAction(a) = "unknown", Attached(a)
        PROVE  PreAction(b) = "unknown"
    <3>1. PICK i \in ObservedCommands(a) : ~Decided(a, i)
      BY <2>2 DEF PreAction, Verdict
    <3>2. i \in ObservedCommands(b) /\ ~Decided(b, i)
      BY <1>1, <3>1, DecisionsStand
    <3> QED
      BY <3>2 DEF PreAction, Verdict
  <2> QED
    BY <2>1, <2>2
<1>5. /\ DenyPaths(a) = "fail" => DenyPaths(b) = "fail"
      /\ AllowPaths(a) = "fail" => AllowPaths(b) = "fail"
  BY ChangesGrow
  DEF DenyPaths, AllowPaths, PathVerdict, Verdict
<1>6. \A kind : /\ Kept(a, kind) # "fail"
                /\ Kept(a, kind) = "pass" => Kept(b, kind) = "pass"
  <2>1. \A kind : Observed(a, kind) \subseteq Observed(b, kind)
    BY EvidenceGrows
  <2> QED
    BY <2>1 DEF Kept, Verdict
<1> DEFINE before == EvaluateContract(a)
           after == EvaluateContract(b)
<1>7. /\ before["commands.allow"] = Allow(a)
      /\ before["commands.deny"] = Deny(a)
      /\ before["commands.requireSuccess"] = Require(a)
      /\ before["commands.requirePreAction"] = PreAction(a)
      /\ before["paths.deny"] = DenyPaths(a)
      /\ before["paths.allow"] = AllowPaths(a)
      /\ before["command-result"] = Kept(a, "completion")
      /\ before["filesystem-diff"] = Kept(a, "diff")
  BY DEF EvaluateContract, Rules
<1>8. /\ after["commands.allow"] = Allow(b)
      /\ after["commands.deny"] = Deny(b)
      /\ after["commands.requireSuccess"] = Require(b)
      /\ after["commands.requirePreAction"] = PreAction(b)
      /\ after["paths.deny"] = DenyPaths(b)
      /\ after["paths.allow"] = AllowPaths(b)
      /\ after["command-result"] = Kept(b, "completion")
      /\ after["filesystem-diff"] = Kept(b, "diff")
  BY DEF EvaluateContract, Rules
<1> HIDE DEF before, after
<1>9. /\ before[rule] = "fail" /\ rule # "commands.requireSuccess" => after[rule] = "fail"
      /\ before[rule] = "pass"
           /\ rule \in {"commands.requireSuccess", "command-result", "filesystem-diff"}
           => after[rule] = "pass"
      /\ before[rule] = "unknown"
           /\ rule = "commands.requirePreAction" /\ Attached(a)
           => after[rule] = "unknown"
  BY <1>2, <1>3, <1>4, <1>5, <1>6, <1>7, <1>8 DEF Rules
<1> QED
  BY <1>9 DEF before, after

-----------------------------------------------------------------------------
(* The session's log, work tree and retained evidence keep their shapes.   *)

LEMMA SnapshotTypes ==
  ASSUME VerdictTypeOK, NEW truncated \in BOOLEAN
  PROVE  /\ TreeSnapshot(truncated) \in Event
         /\ NoSnapshot \in Event
<1>1. /\ baseline \in BOOLEAN
      /\ status \subseteq [path : Paths, from : Paths \cup {Absent}]
  BY DEF VerdictTypeOK
<1>2. Touched \subseteq Paths
  BY <1>1 DEF Touched
<1> DEFINE Cuts == {Cut(p) : p \in Paths}
<1>3. ChangedPaths(status) \subseteq Paths \cup Cuts
  <2>1. \A s \in status : s.path \in Paths /\ (s.from # Absent => s.from \in Paths)
    BY <1>1
  <2>2. {s.path : s \in status} \subseteq Paths
    BY <2>1
  <2>3. {Cut(s.from) : s \in {e \in status : e.from # Absent}} \subseteq Cuts
    BY <2>1
  <2> HIDE DEF Cuts
  <2> QED
    BY <2>2, <2>3 DEF ChangedPaths
<1> DEFINE paths == IF truncated THEN {} ELSE ChangedPaths(status)
           changed == status # {}
           touched == Touched
<1>4. /\ paths \in SUBSET (Paths \cup Cuts) /\ changed \in BOOLEAN
      /\ touched \in SUBSET Paths /\ {} \in SUBSET (Paths \cup Cuts)
  BY <1>2, <1>3
<1>5. /\ TreeSnapshot(truncated) =
           [kind |-> "diff", grade |-> "observed", paths |-> paths, dirty |-> baseline,
            changed |-> changed, truncated |-> truncated, actual |-> touched]
      /\ NoSnapshot =
           [kind |-> "diff", grade |-> "unknown", paths |-> {}, dirty |-> FALSE,
            changed |-> FALSE, truncated |-> FALSE, actual |-> touched]
  BY DEF TreeSnapshot, NoSnapshot
<1>6. "observed" \in Grades /\ "unknown" \in Grades
  BY DEF Grades
<1>7. DiffEvent =
        [kind : {"diff"}, grade : Grades, paths : SUBSET (Paths \cup Cuts),
         dirty : BOOLEAN, changed : BOOLEAN, truncated : BOOLEAN, actual : SUBSET Paths]
  BY DEF DiffEvent
<1> HIDE DEF paths, changed, touched, Cuts
<1>8. TreeSnapshot(truncated) \in DiffEvent /\ NoSnapshot \in DiffEvent
  BY <1>1, <1>4, <1>5, <1>6, <1>7
<1> QED
  BY <1>8 DEF Event

LEMMA RetainedTypes ==
  ASSUME VerdictTypeOK,
         NEW event \in Observations \cup SupervisorFacts
                         \cup Declarations
  PROVE  /\ event \in Event
         /\ event.kind = "diff" => event.grade = "declared"
<1>1. Touched \subseteq Paths
  BY DEF VerdictTypeOK, Touched
<1>2. CASE event \in Observations
  BY <1>2 DEF Observations, Event, StartEvent, CompletionEvent,
              ChangeEvent, Grades
<1>3. CASE event \in SupervisorFacts
  BY <1>3 DEF SupervisorFacts, Event, AttachmentEvent, DecisionEvent,
              Grades
<1>4. CASE event \in Declarations
  <2> DEFINE Diffs == [kind : {"diff"}, grade : {"declared"}, paths : SUBSET Paths,
                       dirty : {FALSE}, changed : {TRUE}, truncated : {FALSE},
                       actual : {Touched}]
  <2>1. CASE event \in Diffs
    <3>1. event \in DiffEvent /\ event.grade = "declared"
      BY <1>1, <2>1 DEF DiffEvent, Grades
    <3> QED
      BY <3>1 DEF Event
  <2>2. CASE event \notin Diffs
    BY <1>4, <2>2
    DEF Declarations, Event, StartEvent, CompletionEvent,
        ChangeEvent, AttachmentEvent, DecisionEvent, Grades
  <2> QED
    BY <2>1, <2>2
<1> QED
  BY <1>2, <1>3, <1>4

(* What a step appends to the log, or does to the work tree.               *)
LEMMA VerdictSteps ==
  ASSUME VerdictTypeOK, [VerdictNext]_verdictVars
  PROVE  \/ /\ UNCHANGED log
            /\ \/ UNCHANGED << status, baseline >>
               \/ /\ \E path \in Paths : status' = status \cup {[path |-> path, from |-> Absent]}
                  /\ UNCHANGED baseline
               \/ /\ \E from, to \in Paths :
                       /\ << from, to >> \in Renames
                       /\ status' = status \cup {[path |-> to, from |-> from]}
                  /\ UNCHANGED baseline
         \/ /\ UNCHANGED << status, baseline >> /\ Len(log) < MaxEvents
            /\ \E event \in Event :
                 /\ log' = Append(log, event)
                 /\ event.kind = "diff" =>
                      \/ event.grade # "observed"
                      \/ \E truncated \in BOOLEAN : event = TreeSnapshot(truncated)
<1>1. CASE UNCHANGED verdictVars
  BY <1>1 DEF verdictVars
<1>2. CASE \E path \in Paths : Edit(path)
  BY <1>2 DEF Edit
<1>3. CASE \E from \in Paths, to \in Paths : Move(from, to)
  BY <1>3 DEF Move
<1>4. CASE RecordGitDiff
  <2>1. UNCHANGED << status, baseline >> /\ Len(log) < MaxEvents
    BY <1>4 DEF RecordGitDiff
  <2>2. CASE \E truncated \in BOOLEAN : log' = Append(log, TreeSnapshot(truncated))
    BY <2>1, <2>2, SnapshotTypes
  <2>3. CASE log' = Append(log, NoSnapshot)
    <3>1. NoSnapshot \in Event
      BY SnapshotTypes
    <3>2. NoSnapshot.grade # "observed"
      BY DEF NoSnapshot
    <3> QED
      BY <2>1, <2>3, <3>1, <3>2
  <2> QED
    BY <1>4, <2>2, <2>3 DEF RecordGitDiff
<1>5. CASE \E event \in Observations \cup SupervisorFacts
                          \cup Declarations : Retain(event)
  <2>1. PICK event \in Observations \cup SupervisorFacts
                         \cup Declarations : Retain(event)
    BY <1>5
  <2>2. event \in Event /\ (event.kind = "diff" => event.grade = "declared")
    BY RetainedTypes
  <2> QED
    BY <2>1, <2>2 DEF Retain
<1> QED
  BY <1>1, <1>2, <1>3, <1>4, <1>5 DEF VerdictNext

LEMMA VerdictTypesStep ==
  ASSUME VerdictTypeOK, [VerdictNext]_verdictVars
  PROVE  VerdictTypeOK'
<1>1. /\ log \in Seq(Event) /\ Len(log) <= MaxEvents /\ baseline \in BOOLEAN
      /\ status \subseteq [path : Paths, from : Paths \cup {Absent}]
  BY DEF VerdictTypeOK
<1>2. MaxEvents \in Nat
  BY VerdictAssumption
<1>3. log' \in Seq(Event) /\ Len(log') <= MaxEvents
  <2>1. CASE UNCHANGED log
    BY <1>1, <2>1
  <2>2. CASE Len(log) < MaxEvents /\ \E event \in Event : log' = Append(log, event)
    BY <1>1, <1>2, <2>2
  <2> QED
    BY <2>1, <2>2, VerdictSteps
<1>4. /\ status' \subseteq [path : Paths, from : Paths \cup {Absent}]
      /\ baseline' \in BOOLEAN
  <2>1. baseline' = baseline
    BY VerdictSteps
  <2>2. \/ status' = status
        \/ \E path \in Paths : status' = status \cup {[path |-> path, from |-> Absent]}
        \/ \E from, to \in Paths : status' = status \cup {[path |-> to, from |-> from]}
    BY VerdictSteps
  <2> QED
    BY <1>1, <2>1, <2>2
<1> QED
  BY <1>3, <1>4 DEF VerdictTypeOK

THEOREM VerdictTypes == VerdictSpec => []VerdictTypeOK
<1>1. VerdictInit => VerdictTypeOK
  BY VerdictAssumption DEF VerdictInit, VerdictTypeOK
<1>2. VerdictTypeOK /\ [VerdictNext]_verdictVars => VerdictTypeOK'
  BY VerdictTypesStep
<1> QED
  BY <1>1, <1>2, PTL DEF VerdictSpec

LEMMA VerdictsOfAppend ==
  ASSUME VerdictTypeOK, NEW event \in Event, log' = Append(log, event)
  PROVE  /\ Retains(log, log', event)
         /\ Last(log') = event
<1>1. log \in Seq(Event)
  BY DEF VerdictTypeOK
<1>2. Retains(log, log', event)
  <2>1. Retains(log, Append(log, event), event)
    BY <1>1, AppendRetains
  <2> QED
    BY <2>1
<1>3. Last(log') = event
  BY <1>1 DEF Last
<1> QED
  BY <1>2, <1>3

(* Nothing that an integration submits changes a verdict for one that      *)
(* anything proves: each rule keeps its verdict or becomes unknown         *)
(* (evaluateContract, appendIntegrationEvent).                             *)
THEOREM DeclaredProvesNothingHolds == VerdictSpec => DeclaredProvesNothing
<1> DEFINE Declared ==
      log' # log /\ Last(log').grade \in {"declared", "unknown"}
        => \A rule \in Rules :
             After[rule] \in {Before[rule], "unknown"}
<1>1. VerdictTypeOK /\ [VerdictNext]_verdictVars => [Declared]_verdictVars
  <2> SUFFICES ASSUME VerdictTypeOK, [VerdictNext]_verdictVars, log' # log,
                      Last(log').grade \in {"declared", "unknown"},
                      NEW rule \in Rules
               PROVE  After[rule] \in {Before[rule], "unknown"}
    OBVIOUS
  <2>1. PICK event \in Event : log' = Append(log, event)
    BY VerdictSteps
  <2>2. Retains(log, log', event) /\ Last(log') = event
    BY <2>1, VerdictsOfAppend
  <2>3. EvaluateContract(log')[rule]
          \in {EvaluateContract(log)[rule], "unknown"}
    BY <2>2, DeclaredVerdicts
  <2> QED
    BY <2>3 DEF Before, After
<1>2. VerdictSpec => []VerdictTypeOK
  BY VerdictTypes
<1> QED
  BY <1>1, <1>2, PTL DEF VerdictSpec, DeclaredProvesNothing

(* A broken rule stays broken, what once succeeded or was kept stays       *)
(* proved, and a command that started before its check is not made up for, *)
(* whatever the session retains later (evaluateContract).                  *)
THEOREM VerdictsStandHolds == VerdictSpec => VerdictsStand
<1> DEFINE Stand(rule) ==
      /\ Before[rule] = "fail" /\ rule # "commands.requireSuccess"
           => After[rule] = "fail"
      /\ Before[rule] = "pass"
           /\ rule \in {"commands.requireSuccess", "command-result", "filesystem-diff"}
           => After[rule] = "pass"
      /\ Before[rule] = "unknown"
           /\ rule = "commands.requirePreAction" /\ Attached(log)
           => After[rule] = "unknown"
<1>1. VerdictTypeOK /\ [VerdictNext]_verdictVars
        => [\A rule \in Rules : Stand(rule)]_verdictVars
  <2> SUFFICES ASSUME VerdictTypeOK, [VerdictNext]_verdictVars,
                      NEW rule \in Rules
               PROVE  Stand(rule)
    OBVIOUS
  <2>1. CASE log' = log
    BY <2>1 DEF Before, After, EvaluateContract, PreAction,
                Verdict
  <2>2. CASE \E event \in Event : log' = Append(log, event)
    <3>1. PICK event \in Event : log' = Append(log, event)
      BY <2>2
    <3>2. Retains(log, log', event)
      BY <3>1, VerdictsOfAppend
    <3> QED
      BY <3>2, StandingVerdicts DEF Before, After
  <2> QED
    BY <2>1, <2>2, VerdictSteps
<1>2. VerdictSpec => []VerdictTypeOK
  BY VerdictTypes
<1> QED
  BY <1>1, <1>2, PTL DEF VerdictSpec, VerdictsStand

-----------------------------------------------------------------------------
(* The sources of moves are all that a whole snapshot overlooks.           *)
Sources == {r[1] : r \in Renames}

(* Of a supervisor's snapshot that git answered in full: its paths name    *)
(* every path that the work tree differed in, except sources of moves.     *)
Whole(s) ==
  s.kind = "diff" /\ s.grade = "observed" /\ ~s.truncated
    => IF s.changed THEN s.actual \subseteq s.paths \cup Sources ELSE s.actual = {}

SnapshotsWhole ==
  /\ \A s \in status : s.from = Absent \/ s.from \in Sources
  /\ \A i \in DOMAIN log : Whole(log[i])

LEMMA SnapshotIsWhole ==
  ASSUME SnapshotsWhole, NEW truncated \in BOOLEAN
  PROVE  Whole(TreeSnapshot(truncated))
<1> DEFINE s == TreeSnapshot(truncated)
<1>1. /\ s.truncated = truncated /\ s.actual = Touched
      /\ s.changed <=> status # {}
      /\ ~truncated => s.paths = ChangedPaths(status)
  BY DEF TreeSnapshot
<1>2. status = {} => Touched = {}
  BY DEF Touched
<1>3. Touched \subseteq ChangedPaths(status) \cup Sources
  BY DEF SnapshotsWhole, Touched, ChangedPaths
<1> HIDE DEF s
<1>4. Whole(s)
  BY <1>1, <1>2, <1>3 DEF Whole
<1> QED
  BY <1>4 DEF s

LEMMA SnapshotsWholeStep ==
  ASSUME VerdictTypeOK, SnapshotsWhole, [VerdictNext]_verdictVars
  PROVE  SnapshotsWhole'
<1>1. \A s \in status' : s.from = Absent \/ s.from \in Sources
  <2>1. \A s \in status : s.from = Absent \/ s.from \in Sources
    BY DEF SnapshotsWhole
  <2>2. CASE status' = status
    BY <2>1, <2>2
  <2>3. CASE \E path \in Paths : status' = status \cup {[path |-> path, from |-> Absent]}
    BY <2>1, <2>3
  <2>4. CASE \E from, to \in Paths : /\ << from, to >> \in Renames
                                     /\ status' = status \cup {[path |-> to, from |-> from]}
    <3>1. PICK from, to \in Paths : /\ << from, to >> \in Renames
                                    /\ status' = status \cup {[path |-> to, from |-> from]}
      BY <2>4
    <3>2. from \in Sources
      BY <3>1 DEF Sources
    <3> QED
      BY <2>1, <3>1, <3>2
  <2> QED
    BY <2>2, <2>3, <2>4, VerdictSteps
<1>2. \A i \in DOMAIN log' : Whole(log'[i])
  <2>1. \A i \in DOMAIN log : Whole(log[i])
    BY DEF SnapshotsWhole
  <2>2. CASE log' = log
    BY <2>1, <2>2
  <2>3. CASE \E event \in Event :
               /\ log' = Append(log, event)
               /\ event.kind = "diff" =>
                    \/ event.grade # "observed"
                    \/ \E truncated \in BOOLEAN : event = TreeSnapshot(truncated)
    <3>1. PICK event \in Event :
               /\ log' = Append(log, event)
               /\ event.kind = "diff" =>
                    \/ event.grade # "observed"
                    \/ \E truncated \in BOOLEAN : event = TreeSnapshot(truncated)
      BY <2>3
    <3>2. Whole(event)
      <4>1. CASE event.kind # "diff" \/ event.grade # "observed"
        BY <4>1 DEF Whole
      <4>2. CASE \E truncated \in BOOLEAN : event = TreeSnapshot(truncated)
        BY <4>2, SnapshotIsWhole
      <4> QED
        BY <3>1, <4>1, <4>2
    <3>3. Retains(log, log', event)
      BY <3>1, VerdictsOfAppend
    <3> QED
      BY <2>1, <3>2, <3>3 DEF Retains
  <2> QED
    BY <2>2, <2>3, VerdictSteps
<1> QED
  BY <1>1, <1>2 DEF SnapshotsWhole, Whole

(* Under a path rule that passes, every snapshot is reliable, and what it  *)
(* shows of the work tree is observed.                                     *)
LEMMA PassingPaths ==
  ASSUME SnapshotsWhole, NEW outside, PathVerdict(log, outside) = "pass",
         NEW i \in Snapshots(log)
  PROVE  /\ ~outside
         /\ log[i].actual \subseteq ObservedPaths(log) \cup Sources
<1>1. ~outside /\ ~Ambiguous(log)
  BY DEF PathVerdict, Verdict
<1>2. i \in Reliable(log)
  BY <1>1 DEF Ambiguous
<1>3. /\ i \in DOMAIN log /\ log[i].kind = "diff"
      /\ log[i].grade = "observed" /\ ~log[i].truncated
  BY <1>2 DEF Reliable, Snapshots
<1>4. IF log[i].changed THEN log[i].actual \subseteq log[i].paths \cup Sources
      ELSE log[i].actual = {}
  BY <1>3 DEF SnapshotsWhole, Whole
<1>5. log[i].changed => log[i].paths \subseteq ObservedPaths(log)
  BY <1>2 DEF ObservedPaths
<1> QED
  BY <1>1, <1>4, <1>5

(* When the path rules pass, a forbidden path that a snapshot's work tree  *)
(* had touched can only be the source of a move (changedPaths,             *)
(* observedPathEvidence).                                                  *)
OnlyMovesOverlooked ==
  \A i \in Snapshots(log) :
    /\ DenyPaths(log) = "pass" => log[i].actual \cap PathsDeny \subseteq Sources
    /\ AllowPaths(log) = "pass" => log[i].actual \subseteq PathsAllow \cup Sources

LEMMA WholeOverlooksMoves ==
  ASSUME SnapshotsWhole
  PROVE  OnlyMovesOverlooked
<1> SUFFICES ASSUME NEW i \in Snapshots(log)
             PROVE  /\ DenyPaths(log) = "pass"
                         => log[i].actual \cap PathsDeny \subseteq Sources
                    /\ AllowPaths(log) = "pass"
                         => log[i].actual \subseteq PathsAllow \cup Sources
  BY DEF OnlyMovesOverlooked
<1> DEFINE denied == \E p \in ObservedPaths(log) : p \in PathsDeny
           outside == \E p \in ObservedPaths(log) : p \notin PathsAllow
<1>1. ASSUME PathVerdict(log, denied) = "pass"
      PROVE  log[i].actual \cap PathsDeny \subseteq Sources
  <2> HIDE DEF denied
  <2>1. ~denied /\ log[i].actual \subseteq ObservedPaths(log) \cup Sources
    BY <1>1, PassingPaths
  <2> QED
    BY <2>1 DEF denied
<1>2. ASSUME PathVerdict(log, outside) = "pass"
      PROVE  log[i].actual \subseteq PathsAllow \cup Sources
  <2> HIDE DEF outside
  <2>1. ~outside /\ log[i].actual \subseteq ObservedPaths(log) \cup Sources
    BY <1>2, PassingPaths
  <2> QED
    BY <2>1 DEF outside
<1> QED
  BY <1>1, <1>2 DEF DenyPaths, AllowPaths

(* What the path rules overlook, for every session: nothing but the        *)
(* sources of moves (changedPaths cuts them, see ForbiddenChangesConvicted *)
(* and the run verdict_rename).                                            *)
THEOREM OnlyMovesOverlookedHolds == VerdictSpec => []OnlyMovesOverlooked
<1>1. VerdictInit => SnapshotsWhole
  BY DEF VerdictInit, SnapshotsWhole
<1>2. VerdictTypeOK /\ SnapshotsWhole /\ [VerdictNext]_verdictVars => SnapshotsWhole'
  BY SnapshotsWholeStep
<1>3. SnapshotsWhole => OnlyMovesOverlooked
  BY WholeOverlooksMoves
<1>4. VerdictSpec => []VerdictTypeOK
  BY VerdictTypes
<1> QED
  BY <1>1, <1>2, <1>3, <1>4, PTL DEF VerdictSpec

(* Where moves only leave paths that the contract allows and does not      *)
(* deny, path rules that pass show that no snapshot's work tree had        *)
(* touched a forbidden path.                                               *)
THEOREM ForbiddenChangesConvictedHolds ==
  ASSUME \A r \in Renames : r[1] \in PathsAllow /\ r[1] \notin PathsDeny
  PROVE  VerdictSpec => []ForbiddenChangesConvicted
<1>1. Sources \subseteq PathsAllow /\ Sources \cap PathsDeny = {}
  BY DEF Sources
<1>2. OnlyMovesOverlooked => ForbiddenChangesConvicted
  BY <1>1 DEF OnlyMovesOverlooked, ForbiddenChangesConvicted
<1>3. VerdictSpec => []OnlyMovesOverlooked
  BY OnlyMovesOverlookedHolds
<1> QED
  BY <1>2, <1>3, PTL
=============================================================================
