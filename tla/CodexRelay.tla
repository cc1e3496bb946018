----------------------------- MODULE CodexRelay -----------------------------
(***************************************************************************)
(* One Codex session and the relay that runs it:                           *)
(* apps/local-supervisor/src/codexRelay.ts, CodexAppServerRelay, and the   *)
(* operations of service.ts that start, cancel and end such a session.     *)
(*                                                                         *)
(* Everything runs on one thread.  start(), a cancel, the task at the head *)
(* of eventTail, a finish and an outside POST /complete are each suspended *)
(* in at most one await; an action runs one of them from the end of an     *)
(* await to its next one.  Ledger operations are answered in the order in  *)
(* which they were asked (EvidenceLedger models the chain itself), and one *)
(* on a session that has ended is refused.  What a notification records is *)
(* abstracted to how many events it appends.  The turn/interrupt request   *)
(* and its reply, which nobody waits for, are left out: the agent may say  *)
(* at any time that its turn ended.                                        *)
(***************************************************************************)
EXTENDS Integers, Sequences, FiniteSets, SequencesExt

CONSTANTS
  None,
  TurnStates,     (* bound: how the agent says that its turn ended          *)
  Writes,         (* how many events a notification may append              *)
  Consumptions,   (* tokens the agent may use between two reports           *)
  MaxTokens,      (* options.maxTokens                                      *)
  MaxLines,       (* bound: notifications the agent sends                   *)
  MaxResets,      (* bound: times the agent's token counter restarts        *)
  MaxFaults       (* bound: ledger operations that reject by themselves and *)
                  (* sessions that a client completes over HTTP             *)

Terminal == {"completed", "failed", "interrupted"}
Methods == {"initialize", "thread/start", "turn/start"}

ASSUME RelayAssumption ==
  /\ TurnStates \subseteq Terminal /\ Writes \subseteq Nat /\ Consumptions \subseteq Nat
  /\ MaxTokens \in Nat /\ MaxLines \in Nat /\ MaxResets \in Nat /\ MaxFaults \in Nat
  /\ None \notin Nat

(* What the child's output and its exit put on eventTail.                  *)
Tasks ==
  [kind : {"reply"}, method : Methods, good : BOOLEAN]
    \cup [kind : {"note"}, writes : Nat]
    \cup [kind : {"usage"}, count : Nat]
    \cup [kind : {"turn"}, state : Terminal]
    \cup [kind : {"exit"}]

Callers == {"start", "cancel", "tail", "finish", "http"}
Operations == {"append", "usage", "gap", "event", "save"}
Request == [who : Callers, op : Operations, tokens : Nat]

VARIABLES
  relay,    (* the relay's fields and where its methods are suspended       *)
  agent,    (* the child process: whether it runs and what it has used      *)
  tail,     (* eventTail: queued tasks, the head is the one being handled   *)
  handling, (* what the task at the head is waiting for                     *)
  ledger,   (* the session's record and the operations asked of the ledger  *)
  owned,    (* the relay is in the service's codexRelays                    *)
  http,     (* an outside POST /complete                                    *)
  host,     (* the supervisor process                                       *)
  faults

vars == << relay, agent, tail, handling, ledger, owned, http, host, faults >>

Starting == {"announcing", "initialize", "thread/start", "instructing", "turn/start",
             "announced", "failing", "done", "failed"}

RelayTypeOK ==
  relay \in [start : Starting, pending : SUBSET Methods,
             cancel : {"no", "asked", "armed", "cleared", "refused"},
             by : {"nobody", "user", "duration", "tail", "shutdown"},
             duration : {"off", "armed"}, terminal : BOOLEAN,
             finish : {"no", "asked", "done", "lost"},
             caller : {"nobody", "start", "tail", "timer"},
             state : Terminal \cup {"running"}, base : Nat \cup {None}]

AgentTypeOK ==
  agent \in [child : {"none", "running", "killed", "exited"}, counter : Nat, used : Nat,
             lines : 0 .. MaxLines, resets : 0 .. MaxResets]

LedgerTypeOK ==
  ledger \in [queue : Seq(Request), state : Terminal \cup {"running"},
              usage : {"unknown", "explained", "known"}, total : Nat, endings : Nat]

TypeOK ==
  /\ RelayTypeOK /\ AgentTypeOK /\ LedgerTypeOK
  /\ tail \in Seq(Tasks)
  /\ handling \in {"ready", "writing", "gap", "usage", "overrun", "cancel", "turn", "fail", "finish"}
  /\ handling # "ready" => tail # << >>
  /\ owned \in BOOLEAN /\ http \in {"no", "asked", "done", "failed"}
  /\ host \in {"up", "closing", "down", "crashed"} /\ faults \in 0 .. MaxFaults

Ask(l, who, op, tokens) ==
  [l EXCEPT !.queue = Append(@, [who |-> who, op |-> op, tokens |-> tokens])]

(* startCodexSession(): the relay is registered and its start() called.    *)
Init ==
  /\ relay = [start |-> "announcing", pending |-> {}, cancel |-> "no",
              by |-> "nobody", duration |-> "off", terminal |-> FALSE, finish |-> "no",
              caller |-> "nobody", state |-> "running", base |-> None]
  /\ agent = [child |-> "none", counter |-> 0, used |-> 0, lines |-> 0, resets |-> 0]
  /\ tail = << >> /\ handling = "ready"
  /\ ledger = Ask([queue |-> << >>, state |-> "running", usage |-> "unknown", total |-> 0,
                   endings |-> 0], "start", "append", 0)
  /\ owned = TRUE /\ http = "no" /\ host = "up" /\ faults = 0

Alive == host \in {"up", "closing"}

(* The process ends: promises, timers and queued operations are gone.      *)
Exit(how) ==
  /\ host' = how
  /\ relay' = [relay EXCEPT !.start = "failed", !.pending = {}, !.cancel = "cleared",
                            !.by = "nobody", !.duration = "off", !.base = None]
  /\ ledger' = [ledger EXCEPT !.queue = << >>]
  /\ tail' = << >> /\ handling' = "ready"

-----------------------------------------------------------------------------
(* The ledger answers the oldest operation.                                *)

Oldest == Head(ledger.queue)
Answered == [ledger EXCEPT !.queue = Tail(@)]
Refuses(r) == r.op # "save" /\ ledger.state # "running"

Grants(who) ==
  /\ Alive
  /\ ledger.queue # << >> /\ Oldest.who = who /\ ~Refuses(Oldest)
  /\ UNCHANGED faults

Rejects(who) ==
  /\ Alive
  /\ ledger.queue # << >> /\ Oldest.who = who
  /\ \/ Refuses(Oldest) /\ UNCHANGED faults
     \/ faults < MaxFaults /\ faults' = faults + 1

-----------------------------------------------------------------------------
(* finish() up to its first await: the relay is terminal, its timers are   *)
(* cleared, its requests rejected (so a start() waiting for one ends) and  *)
(* its child signalled.                                                    *)

(* Mutant: the relay is marked terminal only once the session has ended.   *)
FinishingLate(r, caller, state) ==
  [r EXCEPT !.duration = "off", !.cancel = IF @ = "armed" THEN "cleared" ELSE @,
            !.pending = {}, !.start = IF r.start \in Methods THEN "failed" ELSE @,
            !.finish = "asked", !.caller = caller, !.state = state]

Finishing(r, caller, state) ==
  [r EXCEPT !.terminal = TRUE, !.duration = "off",
            !.cancel = IF @ = "armed" THEN "cleared" ELSE @,
            !.pending = {}, !.start = IF r.start \in Methods THEN "failed" ELSE @,
            !.finish = "asked", !.caller = caller, !.state = state]

Signalled(a) == [a EXCEPT !.child = IF @ = "running" THEN "killed" ELSE @]

(* completeWithUsageGap(): a gap if usage is still unexplained, the event, *)
(* the record.                                                             *)
AskEnding(l) == Ask(l, "finish", IF l.usage = "unknown" THEN "gap" ELSE "event", 0)

(* fail() as start() calls it.                                             *)
StartFailing(r) == [r EXCEPT !.start = IF r.terminal THEN "failed" ELSE "failing"]
AskFailure(l, r) == IF r.terminal THEN l ELSE Ask(l, "start", "append", 0)

-----------------------------------------------------------------------------
(* start(), resumed by the ledger.                                         *)

Sends(r, method) == [r EXCEPT !.start = method, !.pending = @ \cup {method}]

(* The announcement is written: the child is spawned and initialized, or   *)
(* has no usable transport.                                                *)
Spawn ==
  /\ Grants("start") /\ relay.start = "announcing"
  /\ \/ /\ agent' = [agent EXCEPT !.child = "running"]
        /\ relay' = Sends(relay, "initialize")
        /\ ledger' = Answered
     \/ /\ relay' = StartFailing(relay)
        /\ ledger' = AskFailure(Answered, relay)
        /\ UNCHANGED agent
  /\ UNCHANGED << tail, handling, owned, http, host >>

InstructionLoaded ==
  /\ Grants("start") /\ relay.start = "instructing"
  /\ relay' = Sends(relay, "turn/start")
  /\ ledger' = Answered
  /\ UNCHANGED << agent, tail, handling, owned, http, host >>

TurnAnnounced ==
  /\ Grants("start") /\ relay.start = "announced"
  /\ relay' = [relay EXCEPT !.start = "done"]
  /\ ledger' = Answered
  /\ UNCHANGED << agent, tail, handling, owned, http, host >>

(* fail() has recorded why: finish('failed') unless another finish began.  *)
StartFailed ==
  /\ Grants("start") /\ relay.start = "failing"
  /\ IF relay.terminal
       THEN /\ relay' = [relay EXCEPT !.start = "failed"]
            /\ ledger' = Answered
            /\ UNCHANGED agent
       ELSE /\ relay' = Finishing(relay, "start", "failed")
            /\ ledger' = AskEnding(Answered)
            /\ agent' = Signalled(agent)
  /\ UNCHANGED << tail, handling, owned, http, host >>

(* The first append is outside the try; a later one makes start() fail.    *)
StartRejected ==
  /\ Rejects("start")
  /\ IF relay.start \in {"instructing", "announced"}
       THEN /\ relay' = StartFailing(relay)
            /\ ledger' = AskFailure(Answered, relay)
       ELSE /\ relay' = [relay EXCEPT !.start = "failed"]
            /\ ledger' = Answered
  /\ UNCHANGED << agent, tail, handling, owned, http, host >>

-----------------------------------------------------------------------------
(* cancel(): it counts from the moment it is called, and its timer is set  *)
(* once the request for it is recorded.                                    *)

MayCancel(r) == ~r.terminal /\ r.cancel = "no"

(* Mutant: the grace period runs while the request is being recorded.      *)
CancellingArmed(r, by) == [r EXCEPT !.cancel = "armed", !.by = by]

Cancelling(r, by) == [r EXCEPT !.cancel = "asked", !.by = by]

UserCancels ==
  /\ host = "up" /\ owned /\ ledger.state = "running" /\ MayCancel(relay)
  /\ relay' = Cancelling(relay, "user")
  /\ ledger' = Ask(ledger, "cancel", "append", 0)
  /\ UNCHANGED << agent, tail, handling, owned, http, host, faults >>

DurationPasses ==
  /\ Alive /\ relay.duration = "armed"
  /\ IF MayCancel(relay)
       THEN /\ relay' = [Cancelling(relay, "duration") EXCEPT !.duration = "off"]
            /\ ledger' = Ask(ledger, "cancel", "append", 0)
       ELSE /\ relay' = [relay EXCEPT !.duration = "off"]
            /\ UNCHANGED ledger
  /\ UNCHANGED << agent, tail, handling, owned, http, host, faults >>

(* The tail's next task may run when a cancel that it called returns.      *)
CallerOfCancelGoesOn ==
  IF relay.by = "tail"
    THEN tail' = Tail(tail) /\ handling' = "ready"
    ELSE UNCHANGED << tail, handling >>

(* The interrupt is requested and the grace period runs, unless it was     *)
(* shutdown() that waited: then the process exits.                         *)
InterruptRequested ==
  /\ Grants("cancel")
  /\ IF relay.by = "shutdown"
       THEN Exit("down")
       ELSE /\ relay' = [relay EXCEPT !.cancel = "armed"]
            /\ ledger' = Answered
            /\ CallerOfCancelGoesOn
            /\ UNCHANGED host
  /\ UNCHANGED << agent, owned, http >>

(* Nobody handles the rejection of a cancel that a timer called.           *)
CancelRejected ==
  /\ Rejects("cancel")
  /\ CASE relay.by = "duration" -> Exit("crashed")
       [] relay.by = "shutdown" -> Exit("down")
       [] OTHER -> /\ relay' = [relay EXCEPT !.cancel = "refused"]
                   /\ ledger' = Answered
                   /\ CallerOfCancelGoesOn
                   /\ UNCHANGED host
  /\ UNCHANGED << agent, owned, http >>

GracePasses ==
  /\ Alive /\ relay.cancel = "armed"
  /\ IF relay.terminal
       THEN /\ relay' = [relay EXCEPT !.cancel = "cleared"]
            /\ UNCHANGED << agent, ledger >>
       ELSE /\ relay' = Finishing(relay, "timer", "interrupted")
            /\ agent' = Signalled(agent)
            /\ ledger' = AskEnding(ledger)
  /\ UNCHANGED << tail, handling, owned, http, host, faults >>

-----------------------------------------------------------------------------
(* The child: its lines and its exit queue tasks.  Once finish() closed    *)
(* the reader, no line is read any more.                                   *)

Heard == Alive /\ agent.child = "running" /\ ~relay.terminal

Queued(task) == tail' = Append(tail, task)

AgentReplies(method, good) ==
  /\ Heard /\ method \in relay.pending
  /\ ~\E i \in DOMAIN tail : tail[i].kind = "reply" /\ tail[i].method = method
  /\ Queued([kind |-> "reply", method |-> method, good |-> good])
  /\ UNCHANGED << relay, agent, handling, ledger, owned, http, host, faults >>

AgentNotifies ==
  /\ Heard /\ agent.lines < MaxLines
  /\ agent' = [agent EXCEPT !.lines = @ + 1]
  /\ \/ \E n \in Writes : Queued([kind |-> "note", writes |-> n])
     \/ \E state \in TurnStates : Queued([kind |-> "turn", state |-> state])
  /\ UNCHANGED << relay, handling, ledger, owned, http, host, faults >>

(* The reported count is the child's own and may just have restarted.      *)
AgentUses(n) ==
  /\ Heard /\ agent.lines < MaxLines
  /\ \E restarts \in 0 .. 1 :
       LET counter == IF restarts = 1 THEN 0 ELSE agent.counter + n IN
       /\ agent.resets + restarts <= MaxResets
       /\ agent' = [agent EXCEPT !.lines = @ + 1, !.counter = counter, !.used = @ + n,
                                 !.resets = @ + restarts]
       /\ Queued([kind |-> "usage", count |-> counter])
  /\ UNCHANGED << relay, handling, ledger, owned, http, host, faults >>

AgentExits ==
  /\ Alive /\ agent.child \in {"running", "killed"}
  /\ agent' = [agent EXCEPT !.child = "exited"]
  /\ Queued([kind |-> "exit"])
  /\ UNCHANGED << relay, handling, ledger, owned, http, host, faults >>

-----------------------------------------------------------------------------
(* eventTail: one task at a time; a task that throws is over like one that *)
(* returned.                                                               *)

Task == Head(tail)
Begins(kind) == Alive /\ handling = "ready" /\ tail # << >> /\ Task.kind = kind

TaskOver == tail' = Tail(tail) /\ handling' = "ready"
TaskWaits(for) == handling' = for /\ UNCHANGED tail

(* The reply that start() waits for lets it go on to its next await.       *)
StartGoesOn(answered, good) ==
  \/ /\ ~good
     /\ relay' = StartFailing(answered)
     /\ ledger' = AskFailure(ledger, answered)
  \/ /\ good /\ answered.start = "initialize"
     /\ relay' = Sends(answered, "thread/start")
     /\ UNCHANGED ledger
  \/ /\ good /\ answered.start = "thread/start"
     /\ \/ relay' = Sends(answered, "turn/start") /\ UNCHANGED ledger
        \/ /\ relay' = [answered EXCEPT !.start = "instructing"]
           /\ ledger' = Ask(ledger, "start", "append", 0)
        \/ /\ relay' = StartFailing(answered)
           /\ ledger' = AskFailure(ledger, answered)
  \/ /\ good /\ answered.start = "turn/start"
     /\ relay' = [answered EXCEPT !.start = "announced", !.duration = "armed"]
     /\ ledger' = Ask(ledger, "start", "append", 0)

HandleReply ==
  LET method == Task.method
      answered == [relay EXCEPT !.pending = @ \ {method}]
  IN
  /\ Begins("reply")
  /\ IF method \in relay.pending /\ relay.start = method
       THEN StartGoesOn(answered, Task.good)
       ELSE relay' = answered /\ UNCHANGED ledger
  /\ TaskOver
  /\ UNCHANGED << agent, owned, http, host, faults >>

(* Mutant: a request that timed out is forgotten, its caller left waiting. *)
RequestTimesOutUnheard(method) ==
  /\ Alive /\ method \in relay.pending
  /\ relay' = [relay EXCEPT !.pending = @ \ {method}]
  /\ UNCHANGED << agent, tail, handling, ledger, owned, http, host, faults >>

(* A request nobody answered in time; start() fails if it waits for it.    *)
RequestTimesOut(method) ==
  LET dropped == [relay EXCEPT !.pending = @ \ {method}] IN
  /\ Alive /\ method \in relay.pending
  /\ IF relay.start = method
       THEN relay' = StartFailing(dropped) /\ ledger' = AskFailure(ledger, dropped)
       ELSE relay' = dropped /\ UNCHANGED ledger
  /\ UNCHANGED << agent, tail, handling, owned, http, host, faults >>

(* A notification appends its events one after the other, or none.         *)
HandleNote ==
  /\ Begins("note")
  /\ IF Task.writes = 0
       THEN TaskOver /\ UNCHANGED ledger
       ELSE TaskWaits("writing") /\ ledger' = Ask(ledger, "tail", "append", 0)
  /\ UNCHANGED << relay, agent, owned, http, host, faults >>

NoteWritten ==
  /\ Grants("tail") /\ handling = "writing"
  /\ IF Task.writes = 1
       THEN TaskOver /\ ledger' = Answered
       ELSE /\ tail' = [tail EXCEPT ![1].writes = @ - 1]
            /\ ledger' = Ask(Answered, "tail", "append", 0)
            /\ UNCHANGED handling
  /\ UNCHANGED << relay, agent, owned, http, host >>

(* usageDelta(): what to add for a cumulative count, None if it decreased. *)
UsageDelta(count, base) ==
  CASE base = None -> count
    [] base # None /\ count < base -> None
    [] OTHER -> count - base

(* Mutant: every report is added as if it were the first.                  *)
HandleUsageUnbased ==
  /\ Begins("usage")
  /\ TaskWaits("usage") /\ ledger' = Ask(ledger, "tail", "usage", Task.count)
  /\ UNCHANGED << relay, agent, owned, http, host, faults >>

HandleUsage ==
  LET delta == UsageDelta(Task.count, relay.base) IN
  /\ Begins("usage")
  /\ relay' = [relay EXCEPT !.base = Task.count]
  /\ IF delta = None
       THEN TaskWaits("gap") /\ ledger' = Ask(ledger, "tail", "gap", 0)
       ELSE TaskWaits("usage") /\ ledger' = Ask(ledger, "tail", "usage", delta)
  /\ UNCHANGED << agent, owned, http, host, faults >>

Explained(l) == [l EXCEPT !.usage = IF @ = "unknown" THEN "explained" ELSE @]

GapWritten ==
  /\ Grants("tail") /\ handling = "gap"
  /\ ledger' = Explained(Answered)
  /\ TaskOver
  /\ UNCHANGED << relay, agent, owned, http, host >>

(* A count over the limit is recorded as such, and then cancels.           *)
UsageRecorded ==
  LET counted == [Answered EXCEPT !.total = @ + Oldest.tokens, !.usage = "known"] IN
  /\ Grants("tail") /\ handling = "usage"
  /\ IF Task.count > MaxTokens
       THEN TaskWaits("overrun") /\ ledger' = Ask(counted, "tail", "append", 0)
       ELSE TaskOver /\ ledger' = counted
  /\ UNCHANGED << relay, agent, owned, http, host >>

OverrunRecorded ==
  /\ Grants("tail") /\ handling = "overrun"
  /\ IF MayCancel(relay)
       THEN /\ relay' = Cancelling(relay, "tail")
            /\ ledger' = Ask(Answered, "cancel", "append", 0)
            /\ TaskWaits("cancel")
       ELSE /\ ledger' = Answered
            /\ TaskOver /\ UNCHANGED relay
  /\ UNCHANGED << agent, owned, http, host >>

(* turn/completed and an exit that nobody asked for end the session.       *)
HandleEnd ==
  /\ \/ Begins("turn") /\ TaskWaits("turn") /\ ledger' = Ask(ledger, "tail", "append", 0)
     \/ /\ Begins("exit") /\ ~relay.terminal
        /\ TaskWaits("fail") /\ ledger' = Ask(ledger, "tail", "append", 0)
     \/ Begins("exit") /\ relay.terminal /\ TaskOver /\ UNCHANGED ledger
  /\ UNCHANGED << relay, agent, owned, http, host, faults >>

EndRecorded ==
  /\ Grants("tail") /\ handling \in {"turn", "fail"}
  /\ IF relay.terminal
       THEN /\ TaskOver
            /\ ledger' = Answered
            /\ UNCHANGED << relay, agent >>
       ELSE /\ TaskWaits("finish")
            /\ relay' = Finishing(relay, "tail", IF handling = "turn" THEN Task.state ELSE "failed")
            /\ agent' = Signalled(agent)
            /\ ledger' = AskEnding(Answered)
  /\ UNCHANGED << owned, http, host >>

TailRejected ==
  /\ Rejects("tail")
  /\ ledger' = Answered
  /\ TaskOver
  /\ UNCHANGED << relay, agent, owned, http, host >>

-----------------------------------------------------------------------------
(* The rest of finish(): completeWithUsageGap(), then onFinished().        *)

CallerOfFinishGoesOn(r) ==
  IF r.caller = "tail" THEN TaskOver ELSE UNCHANGED << tail, handling >>

Finished(r, how) ==
  [r EXCEPT !.finish = how, !.start = IF r.caller = "start" THEN "failed" ELSE @]

Ending(who, state) ==
  \/ /\ Oldest.op = "gap"
     /\ ledger' = Ask(Explained(Answered), who, "event", 0)
  \/ /\ Oldest.op = "event"
     /\ ledger' = Ask([Answered EXCEPT !.endings = @ + 1], who, "save", 0)
  \/ /\ Oldest.op = "save"
     /\ ledger' = [Answered EXCEPT !.state = state]

FinishGoesOn ==
  /\ Grants("finish")
  /\ Ending("finish", relay.state)
  /\ IF Oldest.op = "save"
       THEN /\ relay' = Finished(relay, "done")
            /\ owned' = FALSE
            /\ CallerOfFinishGoesOn(relay)
       ELSE UNCHANGED << relay, owned, tail, handling >>
  /\ UNCHANGED << agent, http, host >>

(* Without its record the relay stays registered; nobody handles the       *)
(* rejection of a finish that the timer called.                            *)
FinishRejected ==
  /\ Rejects("finish")
  /\ IF relay.caller = "timer"
       THEN Exit("crashed")
       ELSE /\ ledger' = Answered
            /\ relay' = Finished(relay, "lost")
            /\ CallerOfFinishGoesOn(relay)
            /\ UNCHANGED host
  /\ UNCHANGED << agent, owned, http >>

-----------------------------------------------------------------------------
(* completeSession() for a session that no contract owns, and close().     *)

HttpCompletes ==
  /\ host = "up" /\ http = "no"
  /\ faults < MaxFaults /\ faults' = faults + 1
  /\ http' = "asked"
  /\ ledger' = Ask(ledger, "http", IF ledger.usage = "unknown" THEN "gap" ELSE "event", 0)
  /\ UNCHANGED << relay, agent, tail, handling, owned, host >>

HttpGoesOn ==
  /\ Grants("http")
  /\ Ending("http", "completed")
  /\ http' = IF Oldest.op = "save" THEN "done" ELSE http
  /\ UNCHANGED << relay, agent, tail, handling, owned, host >>

HttpRejected ==
  /\ Rejects("http")
  /\ http' = "failed"
  /\ ledger' = Answered
  /\ UNCHANGED << relay, agent, tail, handling, owned, host >>

(* close() waits for the cancel of each registered relay, and the process  *)
(* exits when it returns, grace period or not.                             *)
Shutdown ==
  /\ host = "up"
  /\ IF owned /\ MayCancel(relay)
       THEN /\ host' = "closing"
            /\ relay' = Cancelling(relay, "shutdown")
            /\ ledger' = Ask(ledger, "cancel", "append", 0)
            /\ UNCHANGED << tail, handling >>
       ELSE Exit("down")
  /\ UNCHANGED << agent, owned, http, faults >>

-----------------------------------------------------------------------------
LedgerAnswers ==
  \/ Spawn \/ InstructionLoaded \/ TurnAnnounced \/ StartFailed \/ StartRejected
  \/ InterruptRequested \/ CancelRejected
  \/ NoteWritten \/ GapWritten \/ UsageRecorded \/ OverrunRecorded \/ EndRecorded
  \/ TailRejected \/ FinishGoesOn \/ FinishRejected \/ HttpGoesOn \/ HttpRejected

TailWorks == HandleReply \/ HandleNote \/ HandleUsage \/ HandleEnd

Timeouts == \E method \in Methods : RequestTimesOut(method)

Environment ==
  \/ \E method \in Methods, good \in BOOLEAN : AgentReplies(method, good)
  \/ AgentNotifies \/ AgentExits
  \/ \E n \in Consumptions : AgentUses(n)
  \/ UserCancels \/ HttpCompletes \/ Shutdown

Next ==
  \/ LedgerAnswers \/ TailWorks \/ Timeouts
  \/ DurationPasses \/ GracePasses \/ Environment

Spec == Init /\ [][Next]_vars

(* Promise reactions run, file operations end and timers fire; the agent   *)
(* owes nothing.                                                           *)
FairSpec ==
  /\ Spec
  /\ WF_vars(LedgerAnswers) /\ WF_vars(TailWorks)
  /\ WF_vars(Timeouts) /\ WF_vars(DurationPasses) /\ WF_vars(GracePasses)

-----------------------------------------------------------------------------
(* A relay that has finished has no running agent: whatever cancel, exit,  *)
(* timeout or late reply came first, no child is spawned or left running   *)
(* with nobody to signal it (start, finish).                               *)
FinishedAgentStopped == relay.terminal => agent.child # "running"

(* The usage recorded never exceeds what the agent used, whatever counter  *)
(* restarts, rejected records and repeated reports (handleUsage).          *)
UsageNotInvented == ledger.total <= agent.used

(* A session whose agent says nothing, ignores its interrupt or never      *)
(* answers still ends while the supervisor runs, unless somebody else ends *)
(* it or the ledger rejects (the request, duration and grace timers).      *)
Settled == relay.terminal /\ ~owned /\ ledger.state # "running"
RelayEnds == <>(Settled \/ ~Alive \/ faults > 0)

(* The grounds for ending the session that the relay has yet to handle: a  *)
(* start that failed, a cancel on record, and what is queued of the agent. *)
StartAs(at) ==
  CASE at = "failing" -> "failed"
    [] at \in {"done", "failed"} -> "over"
    [] OTHER -> "underway"

CancelAs(at) == IF at \in {"cleared", "refused"} THEN "over" ELSE at

Ends(t) ==
  {IF t[i].kind = "turn" THEN t[i].state ELSE "exit" :
     i \in {j \in DOMAIN t : t[j].kind \in {"turn", "exit"}}}

Promise == INSTANCE RelayEnding WITH
  agent <- agent.child, start <- StartAs(relay.start), said <- Ends(tail),
  cancel <- CancelAs(relay.cancel), state <- relay.state, endings <- ledger.endings,
  record <- ledger.state, registered <- owned, others <- http # "no"

(* Whatever cancel, exit, reply, timer or rejection comes first, the relay *)
(* implements RelayEnding: it decides once, on a ground it has then, in    *)
(* which state its session ends; the agent is stopped with that decision   *)
(* and never spawned after it; one ending is written, then the record, and *)
(* only then is the relay forgotten (start, cancel, fail, finish).         *)
ImplementsRelayEnding == Promise!Spec
=============================================================================
