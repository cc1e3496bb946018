--------------------------- MODULE CodexRelayProofs ---------------------------
(***************************************************************************)
(* Theorems about CodexRelay, for any agent output, any token counts and   *)
(* any number of rejected ledger operations.                               *)
(***************************************************************************)
EXTENDS CodexRelay, TLAPS

RelayRecord ==
  [start : Starting, pending : SUBSET Methods,
   cancel : {"no", "asked", "armed", "cleared", "refused"},
   by : {"nobody", "user", "duration", "tail", "shutdown"},
   duration : {"off", "armed"}, terminal : BOOLEAN,
   finish : {"no", "asked", "done", "lost"},
   caller : {"nobody", "start", "tail", "timer"},
   state : Terminal \cup {"running"}, base : Nat \cup {None}]

AgentRecord ==
  [child : {"none", "running", "killed", "exited"}, counter : Nat, used : Nat,
   lines : 0 .. MaxLines, resets : 0 .. MaxResets]

LedgerRecord ==
  [queue : Seq(Request), state : Terminal \cup {"running"},
   usage : {"unknown", "explained", "known"}, total : Nat, endings : Nat]

Handlings ==
  {"ready", "writing", "gap", "usage", "overrun", "cancel", "turn", "fail", "finish"}

(* What the task at the head must be for what it waits for.                *)
TailInv ==
  /\ handling = "turn" => Head(tail).kind = "turn"
  /\ handling = "fail" => Head(tail).kind = "exit"
  /\ handling = "writing" => Head(tail).kind = "note" /\ Head(tail).writes > 0

(* Until the announcement is answered it is the oldest operation, so that  *)
(* no cancel has been recorded and nothing has finished before the spawn.  *)
AnnounceInv ==
  relay.start = "announcing" =>
    /\ ~relay.terminal /\ relay.cancel # "armed" /\ agent.child = "none"
    /\ ledger.queue # << >> /\ Head(ledger.queue).who = "start"

(* The operations that finish() may have asked: one at a time, of the      *)
(* finish in progress, and, unless a client completes the session as well, *)
(* the record after the only ending.                                       *)
OneFinish(q, finish, endings, alone) ==
  /\ \A i, j \in DOMAIN q : q[i].who = "finish" /\ q[j].who = "finish" => i = j
  /\ \A i \in DOMAIN q : q[i].who = "finish" =>
       /\ finish = "asked" /\ q[i].op \in {"gap", "event", "save"}
       /\ alone => (q[i].op = "save" <=> endings = 1)
  /\ alone => \A i \in DOMAIN q : q[i].who # "http"

FinishInv ==
  /\ relay.terminal <=> relay.finish # "no"
  /\ relay.terminal <=> relay.state \in Terminal
  /\ ~owned => relay.finish = "done" /\ ledger.state # "running"
  /\ OneFinish(ledger.queue, relay.finish, ledger.endings, http = "no")

EndingInv ==
  http = "no" =>
    /\ ledger.endings <= 1
    /\ relay.finish = "no" => ledger.endings = 0
    /\ ledger.state # "running" =>
         relay.finish = "done" /\ ledger.endings = 1 /\ ledger.state = relay.state

Writing == {"writing", "gap", "usage", "overrun", "turn", "fail"}

(* Who waits for the operations that are queued: the tail and a cancel     *)
(* wait for one at a time, and a caller of cancel() or finish() that is    *)
(* the tail's task waits with it.                                          *)
Waiting(q, r, h) ==
  /\ \A i, j \in DOMAIN q :
       q[i].who = q[j].who /\ q[i].who \in {"tail", "cancel"} => i = j
  /\ \A i \in DOMAIN q :
       /\ q[i].who = "tail" => h \in Writing
       /\ q[i].who = "cancel" => r.cancel = "asked" /\ (r.by = "tail" => h = "cancel")
       /\ q[i].who = "finish" => (r.caller = "tail" => h = "finish")

WaitInv == Waiting(ledger.queue, relay, handling)

(* A relay that is no longer registered has ended its session, and when    *)
(* nobody else ends the session it gets at most one ending, recorded by    *)
(* the finish that came first (finish's terminal flag, onFinished).        *)
EndedByOneFinish ==
  /\ ~owned => relay.terminal /\ ledger.state # "running"
  /\ http = "no" =>
       /\ ledger.endings <= 1
       /\ ledger.state # "running" => ledger.endings = 1 /\ ledger.state = relay.state

Inv ==
  /\ TypeOK /\ TailInv /\ AnnounceInv /\ FinishedAgentStopped
  /\ FinishInv /\ EndingInv /\ WaitInv

-----------------------------------------------------------------------------
(* The parts of the type invariant by name.                                *)
LEMMA Types ==
  TypeOK <=>
    /\ relay \in RelayRecord /\ agent \in AgentRecord /\ ledger \in LedgerRecord
    /\ tail \in Seq(Tasks) /\ handling \in Handlings
    /\ handling # "ready" => tail # << >>
    /\ owned \in BOOLEAN /\ http \in {"no", "asked", "done", "failed"}
    /\ host \in {"up", "closing", "down", "crashed"} /\ faults \in 0 .. MaxFaults
BY DEF TypeOK, RelayTypeOK, AgentTypeOK, LedgerTypeOK, RelayRecord, AgentRecord, LedgerRecord,
       Handlings

(* l is the ledger b, perhaps with one operation of who's more.            *)
Asks(b, l, who) ==
  /\ l \in LedgerRecord /\ l.state = b.state /\ l.endings = b.endings
  /\ \/ l.queue = b.queue
     \/ \E r \in Request : r.who = who /\ l.queue = Append(b.queue, r)

(* Asking the ledger adds an operation to its queue and nothing else.      *)
LEMMA AskFacts ==
  ASSUME NEW l \in LedgerRecord, NEW who \in Callers, NEW op \in Operations, NEW n \in Nat
  PROVE  /\ Ask(l, who, op, n) \in LedgerRecord
         /\ Ask(l, who, op, n).queue = Append(l.queue, [who |-> who, op |-> op, tokens |-> n])
         /\ Ask(l, who, op, n).state = l.state /\ Ask(l, who, op, n).endings = l.endings
         /\ Asks(l, Ask(l, who, op, n), who)
<1> DEFINE r == [who |-> who, op |-> op, tokens |-> n]
<1>1. r \in Request /\ r.who = who
  BY DEF Request
<1> HIDE DEF r
<1>2. Append(l.queue, r) \in Seq(Request)
  BY <1>1 DEF LedgerRecord
<1>3. Ask(l, who, op, n) = [l EXCEPT !.queue = Append(@, r)]
  BY DEF Ask, r
<1>4. /\ Ask(l, who, op, n) \in LedgerRecord
      /\ Ask(l, who, op, n).queue = Append(l.queue, r)
      /\ Ask(l, who, op, n).state = l.state /\ Ask(l, who, op, n).endings = l.endings
  BY <1>2, <1>3 DEF LedgerRecord
<1> QED
  BY <1>1, <1>4 DEF Asks, r

(* An answered operation leaves the queue.                                 *)
LEMMA AnsweredFacts ==
  ASSUME TypeOK, ledger.queue # << >>
  PROVE  /\ Answered \in LedgerRecord /\ Oldest \in Request
         /\ Answered.queue = Tail(ledger.queue)
         /\ Answered.state = ledger.state /\ Answered.endings = ledger.endings
         /\ Answered.usage = ledger.usage /\ Answered.total = ledger.total
<1>1. ledger \in LedgerRecord /\ ledger.queue \in Seq(Request)
  BY Types DEF LedgerRecord
<1>2. Tail(ledger.queue) \in Seq(Request) /\ Head(ledger.queue) \in Request
  BY <1>1
<1> DEFINE rest == Tail(ledger.queue)
<1> HIDE DEF rest
<1>3. Answered = [ledger EXCEPT !.queue = rest]
  BY DEF Answered, rest
<1>4. rest \in Seq(Request)
  BY <1>2 DEF rest
<1>5. /\ Answered \in LedgerRecord /\ Answered.queue = rest
      /\ Answered.state = ledger.state /\ Answered.endings = ledger.endings
      /\ Answered.usage = ledger.usage /\ Answered.total = ledger.total
  BY <1>1, <1>3, <1>4 DEF LedgerRecord
<1> QED
  BY <1>2, <1>5 DEF Oldest, rest

(* A finish makes the relay terminal.                                      *)
LEMMA FinishingFacts ==
  ASSUME NEW r \in RelayRecord, NEW caller \in {"start", "tail", "timer"}, NEW state \in Terminal
  PROVE  /\ Finishing(r, caller, state) \in RelayRecord
         /\ Finishing(r, caller, state).terminal /\ Finishing(r, caller, state).finish = "asked"
         /\ Finishing(r, caller, state).state = state
         /\ Finishing(r, caller, state).start \in {r.start, "failed"}
<1> DEFINE cancel == IF r.cancel = "armed" THEN "cleared" ELSE r.cancel
           start == IF r.start \in Methods THEN "failed" ELSE r.start
<1>1. cancel \in {"no", "asked", "armed", "cleared", "refused"}
  BY DEF RelayRecord
<1>2. start \in Starting /\ start \in {r.start, "failed"}
  BY DEF RelayRecord, Starting
<1>3. Finishing(r, caller, state) =
        [r EXCEPT !.terminal = TRUE, !.duration = "off", !.cancel = cancel, !.pending = {},
                  !.start = start, !.finish = "asked", !.caller = caller, !.state = state]
  BY DEF Finishing, RelayRecord
<1> HIDE DEF cancel, start
<1> DEFINE half == [r EXCEPT !.terminal = TRUE, !.duration = "off", !.cancel = cancel,
                             !.pending = {}]
<1>4. half \in RelayRecord /\ half.terminal
  BY <1>1 DEF RelayRecord
<1>5. Finishing(r, caller, state) =
        [half EXCEPT !.start = start, !.finish = "asked", !.caller = caller, !.state = state]
  BY <1>3
<1> HIDE DEF half
<1>6. state \in Terminal \cup {"running"} /\ caller \in {"nobody", "start", "tail", "timer"}
  OBVIOUS
<1> DEFINE part == [half EXCEPT !.start = start, !.finish = "asked"]
<1>7. part \in RelayRecord /\ part.terminal /\ part.start = start /\ part.finish = "asked"
  BY <1>2, <1>4 DEF RelayRecord
<1> DEFINE called == [part EXCEPT !.caller = caller]
<1>8. Finishing(r, caller, state) = [called EXCEPT !.state = state]
  BY <1>5
<1> HIDE DEF part
<1>9. /\ called \in RelayRecord /\ called.terminal /\ called.start = start
      /\ called.finish = "asked"
  BY <1>6, <1>7 DEF RelayRecord
<1> HIDE DEF called
<1>10. /\ Finishing(r, caller, state) \in RelayRecord
      /\ Finishing(r, caller, state).terminal /\ Finishing(r, caller, state).finish = "asked"
      /\ Finishing(r, caller, state).state = state
      /\ Finishing(r, caller, state).start = start
  BY <1>6, <1>8, <1>9 DEF RelayRecord
<1> QED
  BY <1>2, <1>10

(* A start that fails goes on to say so unless somebody finished.          *)
LEMMA StartFailingFacts ==
  ASSUME NEW r \in RelayRecord, NEW l \in LedgerRecord
  PROVE  /\ StartFailing(r) \in RelayRecord /\ StartFailing(r).start \in {"failing", "failed"}
         /\ StartFailing(r).terminal = r.terminal /\ StartFailing(r).finish = r.finish
         /\ StartFailing(r).state = r.state
         /\ Asks(l, AskFailure(l, r), "start")
<1>1. /\ StartFailing(r) \in RelayRecord /\ StartFailing(r).start \in {"failing", "failed"}
      /\ StartFailing(r).terminal = r.terminal /\ StartFailing(r).finish = r.finish
      /\ StartFailing(r).state = r.state
  BY DEF StartFailing, RelayRecord, Starting
<1>2. Asks(l, Ask(l, "start", "append", 0), "start")
  BY AskFacts DEF Callers, Operations
<1>3. Asks(l, l, "start")
  BY DEF Asks
<1> QED
  BY <1>1, <1>2, <1>3 DEF AskFailure

(* A request that is sent waits for its reply.                             *)
LEMMA SendsFacts ==
  ASSUME NEW r \in RelayRecord, NEW method \in Methods
  PROVE  /\ Sends(r, method) \in RelayRecord /\ Sends(r, method).start = method
         /\ Sends(r, method).terminal = r.terminal /\ Sends(r, method).finish = r.finish
         /\ Sends(r, method).state = r.state
BY DEF Sends, RelayRecord, Starting, Methods

(* The ending that finish() asks for first.                                *)
LEMMA AskEndingFacts ==
  ASSUME NEW l \in LedgerRecord
  PROVE  /\ AskEnding(l) \in LedgerRecord /\ AskEnding(l).state = l.state
         /\ AskEnding(l).endings = l.endings
         /\ \E r \in Request : /\ r.who = "finish" /\ r.op \in {"gap", "event"}
                               /\ AskEnding(l).queue = Append(l.queue, r)
<1> DEFINE op == IF l.usage = "unknown" THEN "gap" ELSE "event"
<1>1. op \in Operations /\ "finish" \in Callers /\ op \in {"gap", "event"} /\ 0 \in Nat
  BY DEF Operations, Callers
<1> HIDE DEF op
<1>2. AskEnding(l) = Ask(l, "finish", op, 0)
  BY DEF AskEnding, op
<1>3. [who |-> "finish", op |-> op, tokens |-> 0] \in Request
  BY <1>1 DEF Request
<1> QED
  BY <1>1, <1>2, <1>3, AskFacts

(* Appending to the tail does not change its head.                         *)
LEMMA QueuedFacts ==
  ASSUME TypeOK, TailInv, NEW t \in Tasks, Queued(t), UNCHANGED handling
  PROVE  /\ tail' \in Seq(Tasks) /\ tail' # << >> /\ TailInv'
<1>1. tail \in Seq(Tasks) /\ (handling # "ready" => tail # << >>)
  BY Types
<1>2. tail' = Append(tail, t)
  BY DEF Queued
<1>3. tail' \in Seq(Tasks) /\ tail' # << >>
  BY <1>1, <1>2
<1>4. tail # << >> => Head(tail') = Head(tail)
  BY <1>1, <1>2
<1> QED
  BY <1>1, <1>3, <1>4 DEF TailInv

(* A task that is over leaves a tail that is ready for the next.           *)
LEMMA TaskOverFacts ==
  ASSUME TypeOK, tail # << >>, TaskOver
  PROVE  tail' \in Seq(Tasks) /\ handling' = "ready" /\ TailInv'
BY Types DEF TaskOver, TailInv

-----------------------------------------------------------------------------
(* What finish() asked stays as it is when others are answered or ask.     *)
LEMMA QueueFacts ==
  ASSUME NEW q \in Seq(Request), NEW finish, NEW endings, NEW alone \in BOOLEAN,
         OneFinish(q, finish, endings, alone)
  PROVE  /\ q # << >> => OneFinish(Tail(q), finish, endings, alone)
         /\ \A r \in Request : r.who # "finish" /\ (alone => r.who # "http") =>
              OneFinish(Append(q, r), finish, endings, alone)
         /\ q # << >> /\ Head(q).who = "finish" =>
              \A i \in DOMAIN Tail(q) : Tail(q)[i].who # "finish"
<1>1. q # << >> => /\ 1 \in DOMAIN q /\ Head(q) = q[1] /\ Tail(q) \in Seq(Request)
                   /\ \A i \in DOMAIN Tail(q) : /\ i \in Nat \ {0} /\ i + 1 \in DOMAIN q
                                                /\ Tail(q)[i] = q[i + 1]
  OBVIOUS
<1>2. q # << >> => OneFinish(Tail(q), finish, endings, alone)
  <2>1. SUFFICES ASSUME q # << >> PROVE OneFinish(Tail(q), finish, endings, alone)
    OBVIOUS
  <2>2. \A i, j \in DOMAIN Tail(q) : Tail(q)[i].who = "finish" /\ Tail(q)[j].who = "finish" => i = j
    <3>1. SUFFICES ASSUME NEW i \in DOMAIN Tail(q), NEW j \in DOMAIN Tail(q),
                          Tail(q)[i].who = "finish", Tail(q)[j].who = "finish"
                   PROVE  i = j
      OBVIOUS
    <3>2. i + 1 = j + 1
      BY <1>1, <2>1, <3>1 DEF OneFinish
    <3> QED
      BY <1>1, <2>1, <3>2
  <2> QED
    BY <1>1, <2>1, <2>2 DEF OneFinish
<1>3. ASSUME NEW r \in Request, r.who # "finish", alone => r.who # "http"
      PROVE  OneFinish(Append(q, r), finish, endings, alone)
  <2>1. \A i \in DOMAIN Append(q, r) : \/ i \in DOMAIN q /\ Append(q, r)[i] = q[i]
                                       \/ Append(q, r)[i] = r
    OBVIOUS
  <2> QED
    BY <1>3, <2>1 DEF OneFinish
<1>4. q # << >> /\ Head(q).who = "finish" => \A i \in DOMAIN Tail(q) : Tail(q)[i].who # "finish"
  <2>1. SUFFICES ASSUME q # << >>, Head(q).who = "finish", NEW i \in DOMAIN Tail(q),
                        Tail(q)[i].who = "finish"
                 PROVE  FALSE
    OBVIOUS
  <2>2. i + 1 = 1
    BY <1>1, <2>1 DEF OneFinish
  <2> QED
    BY <1>1, <2>1, <2>2
<1> QED
  BY <1>2, <1>3, <1>4

(* When nobody has asked for it, finish() may ask.                         *)
LEMMA FirstAsked ==
  ASSUME NEW q \in Seq(Request), NEW finish, NEW endings, NEW alone \in BOOLEAN,
         NEW r \in Request, r.who = "finish", r.op \in {"gap", "event", "save"},
         \A i \in DOMAIN q : q[i].who # "finish" /\ (alone => q[i].who # "http"),
         finish = "asked", alone => (r.op = "save" <=> endings = 1)
  PROVE  OneFinish(Append(q, r), finish, endings, alone)
<1>1. \A i \in DOMAIN Append(q, r) :
         \/ i \in DOMAIN q /\ Append(q, r)[i] = q[i]
         \/ i = Len(q) + 1 /\ Append(q, r)[i] = r
  OBVIOUS
<1> QED
  BY <1>1 DEF OneFinish

-----------------------------------------------------------------------------
(* A step that neither begins nor advances a finish or an outside          *)
(* completion.                                                             *)
QuietStep ==
  /\ relay'.terminal = relay.terminal /\ relay'.finish = relay.finish
  /\ relay'.state = relay.state /\ owned' = owned /\ http' = http
  /\ relay'.start = "announcing" =>
       /\ relay.start = "announcing" /\ relay'.cancel # "armed"
       /\ agent.child = "none" => agent'.child = "none"
       /\ \E who : Asks(ledger, ledger', who)
  /\ agent'.child = "running" => agent.child = "running" \/ ~relay.terminal
  /\ \/ \E who \in {"start", "cancel", "tail"} :
          \/ Asks(ledger, ledger', who)
          \/ ledger.queue # << >> /\ Asks(Answered, ledger', who)
     \/ /\ ledger' \in LedgerRecord /\ ledger'.queue = << >>
        /\ ledger'.state = ledger.state /\ ledger'.endings = ledger.endings

LEMMA TypesNext ==
  TypeOK' <=>
    /\ relay' \in RelayRecord /\ agent' \in AgentRecord /\ ledger' \in LedgerRecord
    /\ tail' \in Seq(Tasks) /\ handling' \in Handlings
    /\ handling' # "ready" => tail' # << >>
    /\ owned' \in BOOLEAN /\ http' \in {"no", "asked", "done", "failed"}
    /\ host' \in {"up", "closing", "down", "crashed"} /\ faults' \in 0 .. MaxFaults
BY DEF TypeOK, RelayTypeOK, AgentTypeOK, LedgerTypeOK, RelayRecord, AgentRecord, LedgerRecord,
       Handlings

LEMMA SameTask == ASSUME TailInv, UNCHANGED << tail, handling >> PROVE TailInv'
BY DEF TailInv

(* What an answer of the ledger leaves.                                    *)
LEMMA AnswerFacts ==
  ASSUME Inv, NEW who \in Callers, Grants(who) \/ Rejects(who)
  PROVE  /\ ledger.queue # << >> /\ Oldest.who = who
         /\ ledger \in LedgerRecord /\ Answered \in LedgerRecord
         /\ \A w : Asks(Answered, Answered, w)
         /\ Answered.state = ledger.state /\ Answered.endings = ledger.endings
         /\ faults' \in 0 .. MaxFaults
         /\ who # "start" => relay.start # "announcing"
         /\ Alive
<1>1. TypeOK /\ AnnounceInv /\ faults \in 0 .. MaxFaults /\ MaxFaults \in Nat
  BY Types, RelayAssumption DEF Inv
<1>2. ledger.queue # << >> /\ Oldest.who = who /\ Alive /\ faults' \in 0 .. MaxFaults
  BY <1>1 DEF Grants, Rejects
<1>3. who # "start" => relay.start # "announcing"
  BY <1>1, <1>2 DEF AnnounceInv, Oldest
<1> QED
  BY <1>1, <1>2, <1>3, AnsweredFacts, Types DEF Asks

(* The process ends.                                                       *)
LEMMA ExitStep ==
  ASSUME Inv, NEW how \in {"down", "crashed"}, Exit(how),
         UNCHANGED << agent, owned, http >>, faults' \in 0 .. MaxFaults
  PROVE  TypeOK' /\ TailInv' /\ QuietStep
<1>1. /\ relay \in RelayRecord /\ agent \in AgentRecord /\ ledger \in LedgerRecord
      /\ owned \in BOOLEAN /\ http \in {"no", "asked", "done", "failed"}
  BY Types DEF Inv
<1>2. /\ relay' \in RelayRecord /\ relay'.terminal = relay.terminal
      /\ relay'.finish = relay.finish /\ relay'.state = relay.state /\ relay'.start = "failed"
  <2> DEFINE half == [relay EXCEPT !.start = "failed", !.pending = {}, !.cancel = "cleared"]
  <2>1. /\ half \in RelayRecord /\ half.terminal = relay.terminal
        /\ half.finish = relay.finish /\ half.state = relay.state /\ half.start = "failed"
    BY <1>1 DEF RelayRecord, Starting
  <2>2. relay' = [half EXCEPT !.by = "nobody", !.duration = "off", !.base = None]
    BY DEF Exit
  <2> HIDE DEF half
  <2> QED
    BY <2>1, <2>2 DEF RelayRecord
<1>3. << >> \in Seq(Request)
  OBVIOUS
<1>4. /\ ledger' \in LedgerRecord /\ ledger'.queue = << >>
      /\ ledger'.state = ledger.state /\ ledger'.endings = ledger.endings
  BY <1>1, <1>3 DEF Exit, LedgerRecord
<1>5. tail' = << >> /\ handling' = "ready" /\ host' = how /\ tail' \in Seq(Tasks)
  BY DEF Exit
<1> QED
  BY <1>1, <1>2, <1>4, <1>5, TypesNext DEF QuietStep, TailInv, Handlings

LEMMA SpawnStep ==
  ASSUME Inv, Spawn
  PROVE  TypeOK' /\ TailInv' /\ QuietStep
<1>1. /\ relay \in RelayRecord /\ agent \in AgentRecord /\ tail \in Seq(Tasks)
      /\ TypeOK /\ TailInv /\ ~relay.terminal
  BY Types DEF Inv, Spawn, AnnounceInv
<1>2. /\ ledger.queue # << >> /\ Oldest.who = "start"
      /\ Answered \in LedgerRecord /\ (\A w : Asks(Answered, Answered, w))
      /\ faults' \in 0 .. MaxFaults
  BY AnswerFacts DEF Spawn, Callers
<1>3. "initialize" \in Methods /\ "initialize" # "announcing"
  BY DEF Methods
<1>4. /\ Sends(relay, "initialize") \in RelayRecord
      /\ Sends(relay, "initialize").start = "initialize"
      /\ Sends(relay, "initialize").terminal = relay.terminal
      /\ Sends(relay, "initialize").finish = relay.finish
      /\ Sends(relay, "initialize").state = relay.state
  BY <1>1, <1>3, SendsFacts
<1>5. /\ StartFailing(relay) \in RelayRecord /\ StartFailing(relay).start \in {"failing", "failed"}
      /\ StartFailing(relay).terminal = relay.terminal
      /\ StartFailing(relay).finish = relay.finish /\ StartFailing(relay).state = relay.state
      /\ Asks(Answered, AskFailure(Answered, relay), "start")
  BY <1>1, <1>2, StartFailingFacts
<1>6. [agent EXCEPT !.child = "running"] \in AgentRecord
  BY <1>1 DEF AgentRecord
<1>7. agent' \in AgentRecord /\ relay' \in RelayRecord /\ Asks(Answered, ledger', "start")
  BY <1>1, <1>2, <1>4, <1>5, <1>6 DEF Spawn
<1>8. TypeOK'
  BY <1>1, <1>2, <1>7, Types, TypesNext DEF Spawn, Asks
<1>9. TailInv'
  BY <1>1, SameTask DEF Spawn
<1> QED
  BY <1>1, <1>2, <1>4, <1>5, <1>7, <1>8, <1>9 DEF QuietStep, Spawn

(* start() goes on after the instruction's and the turn's announcement.    *)
LEMMA StartAnsweredStep ==
  ASSUME Inv, InstructionLoaded \/ TurnAnnounced
  PROVE  TypeOK' /\ TailInv' /\ QuietStep
<1>1. relay \in RelayRecord /\ TypeOK /\ TailInv
  BY Types DEF Inv
<1>2. /\ ledger.queue # << >> /\ Oldest.who = "start"
      /\ Answered \in LedgerRecord /\ (\A w : Asks(Answered, Answered, w))
      /\ faults' \in 0 .. MaxFaults
  BY AnswerFacts DEF InstructionLoaded, TurnAnnounced, Callers
<1>3. "turn/start" \in Methods
  BY DEF Methods
<1>4. /\ Sends(relay, "turn/start") \in RelayRecord
      /\ Sends(relay, "turn/start").start = "turn/start"
      /\ Sends(relay, "turn/start").terminal = relay.terminal
      /\ Sends(relay, "turn/start").finish = relay.finish
      /\ Sends(relay, "turn/start").state = relay.state
  BY <1>1, <1>3, SendsFacts
<1> DEFINE done == [relay EXCEPT !.start = "done"]
<1>5. /\ done \in RelayRecord /\ done.start = "done" /\ done.terminal = relay.terminal
      /\ done.finish = relay.finish /\ done.state = relay.state
  BY <1>1 DEF RelayRecord, Starting
<1>6. /\ relay' \in RelayRecord /\ relay'.start # "announcing" /\ relay'.terminal = relay.terminal
      /\ relay'.finish = relay.finish /\ relay'.state = relay.state
  BY <1>4, <1>5 DEF InstructionLoaded, TurnAnnounced
<1>7. ledger' = Answered /\ UNCHANGED << agent, tail, handling, owned, http, host >>
  BY DEF InstructionLoaded, TurnAnnounced
<1> QED
  BY <1>1, <1>2, <1>6, <1>7, Types, TypesNext, SameTask DEF QuietStep

LEMMA StartRejectedStep ==
  ASSUME Inv, StartRejected
  PROVE  TypeOK' /\ TailInv' /\ QuietStep
<1>1. relay \in RelayRecord /\ TypeOK /\ TailInv
  BY Types DEF Inv
<1>2. /\ ledger.queue # << >> /\ Oldest.who = "start"
      /\ Answered \in LedgerRecord /\ (\A w : Asks(Answered, Answered, w))
      /\ faults' \in 0 .. MaxFaults
  BY AnswerFacts DEF StartRejected, Callers
<1>3. /\ StartFailing(relay) \in RelayRecord /\ StartFailing(relay).start \in {"failing", "failed"}
      /\ StartFailing(relay).terminal = relay.terminal
      /\ StartFailing(relay).finish = relay.finish /\ StartFailing(relay).state = relay.state
      /\ Asks(Answered, AskFailure(Answered, relay), "start")
  BY <1>1, <1>2, StartFailingFacts
<1> DEFINE failed == [relay EXCEPT !.start = "failed"]
<1>4. /\ failed \in RelayRecord /\ failed.start = "failed" /\ failed.terminal = relay.terminal
      /\ failed.finish = relay.finish /\ failed.state = relay.state
  BY <1>1 DEF RelayRecord, Starting
<1>5. /\ relay' \in RelayRecord /\ relay'.start # "announcing" /\ relay'.terminal = relay.terminal
      /\ relay'.finish = relay.finish /\ relay'.state = relay.state
      /\ Asks(Answered, ledger', "start")
  BY <1>2, <1>3, <1>4 DEF StartRejected
<1>6. UNCHANGED << agent, tail, handling, owned, http, host >>
  BY DEF StartRejected
<1> QED
  BY <1>1, <1>2, <1>5, <1>6, Types, TypesNext, SameTask DEF QuietStep, Asks

(* Whoever waits for the oldest operation is still there.                  *)
LEMMA CallerFacts ==
  ASSUME Inv, ledger.queue # << >>
  PROVE  /\ Oldest.who = "tail" => handling \in Writing /\ tail # << >>
         /\ Oldest.who = "cancel" =>
              relay.cancel = "asked" /\ (relay.by = "tail" => handling = "cancel" /\ tail # << >>)
         /\ Oldest.who = "finish" =>
              (relay.caller = "tail" => handling = "finish" /\ tail # << >>)
<1>1. ledger.queue \in Seq(Request) /\ (handling # "ready" => tail # << >>)
  BY Types DEF Inv, LedgerRecord
<1>2. 1 \in DOMAIN ledger.queue /\ Oldest = ledger.queue[1]
  BY <1>1 DEF Oldest
<1> QED
  BY <1>1, <1>2 DEF Inv, WaitInv, Waiting, Writing

LEMMA CancellingFacts ==
  ASSUME NEW r \in RelayRecord, NEW by \in {"user", "duration", "tail", "shutdown"}
  PROVE  /\ Cancelling(r, by) \in RelayRecord
         /\ Cancelling(r, by).start = r.start /\ Cancelling(r, by).terminal = r.terminal
         /\ Cancelling(r, by).finish = r.finish /\ Cancelling(r, by).state = r.state
         /\ Cancelling(r, by).cancel = "asked" /\ Cancelling(r, by).by = by
         /\ Cancelling(r, by).caller = r.caller
BY DEF Cancelling, RelayRecord

(* A user, the duration timer or close() cancels.                          *)
LEMMA CancelStep ==
  ASSUME Inv, UserCancels \/ DurationPasses \/ (Shutdown /\ ~Exit("down"))
  PROVE  TypeOK' /\ TailInv' /\ QuietStep
<1>1. relay \in RelayRecord /\ TypeOK /\ TailInv /\ ledger \in LedgerRecord
  BY Types DEF Inv
<1>2. Asks(ledger, Ask(ledger, "cancel", "append", 0), "cancel") /\ Asks(ledger, ledger, "cancel")
  <2>1. Asks(ledger, ledger, "cancel")
    BY <1>1 DEF Asks
  <2> QED
    BY <1>1, <2>1, AskFacts DEF Callers, Operations
<1> DEFINE off(r) == [r EXCEPT !.duration = "off"]
<1>3. \A r \in RelayRecord :
        /\ off(r) \in RelayRecord /\ off(r).start = r.start /\ off(r).terminal = r.terminal
        /\ off(r).finish = r.finish /\ off(r).state = r.state /\ off(r).cancel = r.cancel
  BY DEF RelayRecord
<1>4. \A r \in RelayRecord : [r EXCEPT !.duration = "off"] = off(r)
  OBVIOUS
<1> HIDE DEF off
<1>5. \A by \in {"user", "duration", "shutdown"} :
        LET c == Cancelling(relay, by) IN
        /\ c \in RelayRecord /\ c.start = relay.start /\ c.terminal = relay.terminal
        /\ c.finish = relay.finish /\ c.state = relay.state /\ c.cancel = "asked"
  BY <1>1, CancellingFacts
<1>6. relay.start = "announcing" => relay.cancel # "armed"
  BY DEF Inv, AnnounceInv
<1>7. CASE UserCancels
  <2>1. relay' = Cancelling(relay, "user") /\ ledger' = Ask(ledger, "cancel", "append", 0)
        /\ UNCHANGED << agent, tail, handling, owned, http, host, faults >>
    BY <1>7 DEF UserCancels
  <2> QED
    BY <1>1, <1>2, <1>5, <2>1, Types, TypesNext, SameTask DEF QuietStep, Asks
<1>8. CASE DurationPasses
  <2>1. /\ relay' \in {off(Cancelling(relay, "duration")), off(relay)}
        /\ ledger' \in {Ask(ledger, "cancel", "append", 0), ledger}
        /\ UNCHANGED << agent, tail, handling, owned, http, host, faults >>
    BY <1>1, <1>4, <1>5, <1>8 DEF DurationPasses
  <2>2. /\ relay' \in RelayRecord /\ relay'.start = relay.start /\ relay'.terminal = relay.terminal
        /\ relay'.finish = relay.finish /\ relay'.state = relay.state
        /\ relay'.cancel \in {relay.cancel, "asked"}
    BY <1>1, <1>3, <1>5, <2>1
  <2>3. Asks(ledger, ledger', "cancel")
    BY <1>2, <2>1
  <2> QED
    BY <1>1, <1>6, <2>1, <2>2, <2>3, Types, TypesNext, SameTask DEF QuietStep, Asks
<1>9. CASE Shutdown /\ ~Exit("down")
  <2>1. relay' = Cancelling(relay, "shutdown") /\ ledger' = Ask(ledger, "cancel", "append", 0)
        /\ UNCHANGED << agent, tail, handling, owned, http, faults >> /\ host' = "closing"
    BY <1>9 DEF Shutdown
  <2> QED
    BY <1>1, <1>2, <1>5, <2>1, Types, TypesNext, SameTask DEF QuietStep, Asks
<1> QED
  BY <1>7, <1>8, <1>9

(* The ledger answers a cancel.                                            *)
LEMMA CancelAnsweredStep ==
  ASSUME Inv, InterruptRequested \/ CancelRejected
  PROVE  TypeOK' /\ TailInv' /\ QuietStep
<1>1. relay \in RelayRecord /\ TypeOK /\ TailInv /\ tail \in Seq(Tasks)
  BY Types DEF Inv
<1>2. /\ ledger.queue # << >> /\ Oldest.who = "cancel" /\ relay.start # "announcing"
      /\ (\A w : Asks(Answered, Answered, w)) /\ faults' \in 0 .. MaxFaults
  BY AnswerFacts DEF InterruptRequested, CancelRejected, Callers
<1>3. relay.by = "tail" => handling = "cancel" /\ tail # << >>
  BY <1>2, CallerFacts
<1>4. CASE \E how \in {"down", "crashed"} : Exit(how)
  <2>1. UNCHANGED << agent, owned, http >>
    BY DEF InterruptRequested, CancelRejected
  <2> QED
    BY <1>2, <1>4, <2>1, ExitStep
<1>5. CASE /\ \E c \in {"armed", "refused"} : relay' = [relay EXCEPT !.cancel = c]
           /\ ledger' = Answered /\ CallerOfCancelGoesOn
           /\ UNCHANGED << agent, owned, http, host >>
  <2>1. /\ relay' \in RelayRecord /\ relay'.start = relay.start /\ relay'.terminal = relay.terminal
        /\ relay'.finish = relay.finish /\ relay'.state = relay.state
    BY <1>1, <1>5 DEF RelayRecord
  <2>2. tail' \in Seq(Tasks) /\ handling' \in Handlings /\ (handling' # "ready" => tail' # << >>)
        /\ TailInv'
    <3>1. CASE relay.by = "tail"
      BY <1>1, <1>3, <1>5, <3>1 DEF CallerOfCancelGoesOn, TailInv, Handlings
    <3>2. CASE relay.by # "tail"
      BY <1>1, <1>5, <3>2, Types, SameTask DEF CallerOfCancelGoesOn
    <3> QED
      BY <3>1, <3>2
  <2> QED
    BY <1>1, <1>2, <1>5, <2>1, <2>2, Types, TypesNext DEF QuietStep, Asks
<1> QED
  BY <1>4, <1>5 DEF InterruptRequested, CancelRejected

(* The child speaks or exits.                                              *)
LEMMA AgentStep ==
  ASSUME Inv,
         \/ \E method \in Methods, good \in BOOLEAN : AgentReplies(method, good)
         \/ AgentNotifies \/ AgentExits
         \/ \E n \in Consumptions : AgentUses(n)
  PROVE  TypeOK' /\ TailInv' /\ QuietStep
<1>1. /\ relay \in RelayRecord /\ agent \in AgentRecord /\ ledger \in LedgerRecord
      /\ TypeOK /\ TailInv
  BY Types DEF Inv
<1>2. UNCHANGED << relay, handling, ledger, owned, http, host, faults >>
  BY DEF AgentReplies, AgentNotifies, AgentExits, AgentUses
<1>3. \E t \in Tasks : Queued(t)
  <2>1. ASSUME NEW method \in Methods, NEW good \in BOOLEAN, AgentReplies(method, good)
        PROVE  \E t \in Tasks : Queued(t)
    <3>1. [kind |-> "reply", method |-> method, good |-> good] \in Tasks
      BY DEF Tasks
    <3> QED
      BY <2>1, <3>1 DEF AgentReplies
  <2>2. ASSUME AgentNotifies PROVE \E t \in Tasks : Queued(t)
    <3>1. /\ \A n \in Writes : [kind |-> "note", writes |-> n] \in Tasks
          /\ \A state \in TurnStates : [kind |-> "turn", state |-> state] \in Tasks
      BY RelayAssumption DEF Tasks
    <3> QED
      BY <2>2, <3>1 DEF AgentNotifies
  <2>3. ASSUME AgentExits PROVE \E t \in Tasks : Queued(t)
    <3>1. [kind |-> "exit"] \in Tasks
      BY DEF Tasks
    <3> QED
      BY <2>3, <3>1 DEF AgentExits
  <2>4. ASSUME NEW n \in Consumptions, AgentUses(n) PROVE \E t \in Tasks : Queued(t)
    <3>1. \A c \in Nat : [kind |-> "usage", count |-> c] \in Tasks
      BY DEF Tasks
    <3>2. 0 \in Nat /\ agent.counter + n \in Nat
      BY <1>1, RelayAssumption DEF AgentRecord
    <3> QED
      BY <2>4, <3>1, <3>2 DEF AgentUses
  <2> QED
    BY <2>1, <2>2, <2>3, <2>4
<1>4. /\ agent' \in AgentRecord /\ (agent'.child = "running" => agent.child = "running")
      /\ agent.child = "none" => agent'.child = "none"
  <2>1. CASE \E method \in Methods, good \in BOOLEAN : AgentReplies(method, good)
    BY <1>1, <2>1 DEF AgentReplies
  <2>2. CASE AgentNotifies
    BY <1>1, <2>2, RelayAssumption DEF AgentNotifies, AgentRecord
  <2>3. CASE AgentExits
    BY <1>1, <2>3 DEF AgentExits, AgentRecord
  <2>4. ASSUME NEW n \in Consumptions, AgentUses(n)
        PROVE  agent' \in AgentRecord /\ agent'.child = agent.child
    <3>1. PICK counter \in Nat, resets \in 0 .. MaxResets :
            agent' = [agent EXCEPT !.lines = @ + 1, !.counter = counter, !.used = @ + n,
                                   !.resets = resets]
      <4>1. PICK restarts \in 0 .. 1 :
              LET counter == IF restarts = 1 THEN 0 ELSE agent.counter + n IN
              /\ agent.resets + restarts <= MaxResets
              /\ agent' = [agent EXCEPT !.lines = @ + 1, !.counter = counter, !.used = @ + n,
                                        !.resets = @ + restarts]
        BY <2>4 DEF AgentUses
      <4>2. agent.resets + restarts \in 0 .. MaxResets /\ agent.counter + n \in Nat /\ 0 \in Nat
        BY <1>1, <4>1, RelayAssumption DEF AgentRecord
      <4> QED
        BY <4>1, <4>2
    <3>2. agent.lines + 1 \in 0 .. MaxLines /\ agent.used + n \in Nat
      <4>1. agent.lines < MaxLines
        BY <2>4 DEF AgentUses
      <4>2. agent.lines \in 0 .. MaxLines /\ agent.used \in Nat /\ n \in Nat /\ MaxLines \in Nat
        BY <1>1, RelayAssumption DEF AgentRecord
      <4> QED
        BY <4>1, <4>2
    <3> QED
      BY <1>1, <3>1, <3>2 DEF AgentRecord
  <2> QED
    BY <2>1, <2>2, <2>3, <2>4
<1>5. tail' \in Seq(Tasks) /\ tail' # << >> /\ TailInv'
  BY <1>1, <1>2, <1>3, QueuedFacts
<1>6. Asks(ledger, ledger', "tail") /\ (relay.start = "announcing" => relay.cancel # "armed")
  BY <1>1, <1>2 DEF Asks, Inv, AnnounceInv
<1> QED
  BY <1>1, <1>2, <1>4, <1>5, <1>6, Types, TypesNext DEF QuietStep

-----------------------------------------------------------------------------
(* The tail's tasks.                                                       *)

LEMMA BeginsFacts ==
  ASSUME TypeOK, NEW kind, Begins(kind)
  PROVE  /\ tail # << >> /\ Task \in Tasks /\ Task.kind = kind /\ handling = "ready" /\ Alive
         /\ kind = "usage" => Task.count \in Nat
         /\ kind = "note" => Task.writes \in Nat
         /\ kind = "reply" => Task.method \in Methods /\ Task.good \in BOOLEAN
<1>1. tail \in Seq(Tasks) /\ tail # << >> /\ Task.kind = kind /\ handling = "ready" /\ Alive
  BY Types DEF Begins
<1>2. Task \in Tasks
  BY <1>1 DEF Task
<1>3. /\ kind = "usage" => Task.count \in Nat
      /\ kind = "note" => Task.writes \in Nat
      /\ kind = "reply" => Task.method \in Methods /\ Task.good \in BOOLEAN
  BY <1>1, <1>2 DEF Tasks
<1> QED
  BY <1>1, <1>2, <1>3

(* A request that is no longer pending.                                    *)
LEMMA DroppedFacts ==
  ASSUME NEW r \in RelayRecord, NEW method
  PROVE  LET dropped == [r EXCEPT !.pending = @ \ {method}] IN
         /\ dropped \in RelayRecord /\ dropped.start = r.start /\ dropped.terminal = r.terminal
         /\ dropped.finish = r.finish /\ dropped.state = r.state /\ dropped.cancel = r.cancel
         /\ dropped.caller = r.caller /\ dropped.by = r.by
BY DEF RelayRecord

LEMMA StartGoesOnFacts ==
  ASSUME NEW r \in RelayRecord, ledger \in LedgerRecord, r.start \in Methods,
         NEW good \in BOOLEAN, StartGoesOn(r, good)
  PROVE  /\ relay' \in RelayRecord /\ relay'.start # "announcing"
         /\ relay'.terminal = r.terminal /\ relay'.finish = r.finish /\ relay'.state = r.state
         /\ Asks(ledger, ledger', "start")
<1>1. /\ StartFailing(r) \in RelayRecord /\ StartFailing(r).start \in {"failing", "failed"}
      /\ StartFailing(r).terminal = r.terminal /\ StartFailing(r).finish = r.finish
      /\ StartFailing(r).state = r.state /\ Asks(ledger, AskFailure(ledger, r), "start")
  BY StartFailingFacts
<1>2. \A method \in Methods :
        /\ Sends(r, method) \in RelayRecord /\ Sends(r, method).start # "announcing"
        /\ Sends(r, method).terminal = r.terminal /\ Sends(r, method).finish = r.finish
        /\ Sends(r, method).state = r.state
  BY SendsFacts DEF Methods
<1>3. "thread/start" \in Methods /\ "turn/start" \in Methods
  BY DEF Methods
<1> DEFINE instructing == [r EXCEPT !.start = "instructing"]
           announced == [r EXCEPT !.start = "announced", !.duration = "armed"]
<1>4. /\ instructing \in RelayRecord /\ instructing.start = "instructing"
      /\ instructing.terminal = r.terminal /\ instructing.finish = r.finish
      /\ instructing.state = r.state
  BY DEF RelayRecord, Starting
<1>5. /\ announced \in RelayRecord /\ announced.start = "announced"
      /\ announced.terminal = r.terminal /\ announced.finish = r.finish
      /\ announced.state = r.state
  BY DEF RelayRecord, Starting
<1>6. Asks(ledger, ledger, "start")
  BY DEF Asks
<1>7. Asks(ledger, Ask(ledger, "start", "append", 0), "start")
  BY AskFacts DEF Callers, Operations
<1>8. \/ relay' = StartFailing(r) /\ ledger' = AskFailure(ledger, r)
      \/ relay' \in {Sends(r, "thread/start"), Sends(r, "turn/start")} /\ ledger' = ledger
      \/ relay' \in {instructing, announced} /\ ledger' = Ask(ledger, "start", "append", 0)
  BY DEF StartGoesOn
<1> HIDE DEF instructing, announced
<1> QED
  BY <1>1, <1>2, <1>3, <1>4, <1>5, <1>6, <1>7, <1>8

LEMMA HandleReplyStep ==
  ASSUME Inv, HandleReply
  PROVE  TypeOK' /\ TailInv' /\ QuietStep
<1> DEFINE answered == [relay EXCEPT !.pending = @ \ {Task.method}]
<1>1. relay \in RelayRecord /\ ledger \in LedgerRecord /\ TypeOK /\ TailInv
  BY Types DEF Inv
<1>2. /\ tail # << >> /\ Task.method \in Methods /\ Task.good \in BOOLEAN
      /\ tail' \in Seq(Tasks) /\ handling' = "ready" /\ TailInv'
  BY <1>1, BeginsFacts, TaskOverFacts DEF HandleReply
<1>3. /\ answered \in RelayRecord /\ answered.start = relay.start
      /\ answered.terminal = relay.terminal /\ answered.finish = relay.finish
      /\ answered.state = relay.state /\ answered.cancel = relay.cancel
  BY <1>1, DroppedFacts
<1>4. \/ relay.start \in Methods /\ StartGoesOn(answered, Task.good)
      \/ relay' = answered /\ ledger' = ledger
  BY <1>2 DEF HandleReply
<1>5. UNCHANGED << agent, owned, http, host, faults >>
  BY DEF HandleReply
<1> HIDE DEF answered
<1>6. /\ relay' \in RelayRecord /\ relay'.terminal = relay.terminal
      /\ relay'.finish = relay.finish /\ relay'.state = relay.state
      /\ relay'.start = "announcing" => relay.start = "announcing" /\ relay'.cancel = relay.cancel
      /\ Asks(ledger, ledger', "start")
  <2>1. CASE relay.start \in Methods /\ StartGoesOn(answered, Task.good)
    BY <1>1, <1>2, <1>3, <2>1, StartGoesOnFacts
  <2>2. CASE relay' = answered /\ ledger' = ledger
    BY <1>1, <1>3, <2>2 DEF Asks
  <2> QED
    BY <1>4, <2>1, <2>2
<1>7. relay.start = "announcing" => relay.cancel # "armed"
  BY DEF Inv, AnnounceInv
<1>8. ledger' \in LedgerRecord
  BY <1>6 DEF Asks
<1> QED
  BY <1>1, <1>2, <1>5, <1>6, <1>7, <1>8, Types, TypesNext DEF QuietStep, Handlings

LEMMA RequestTimesOutStep ==
  ASSUME Inv, NEW method \in Methods, RequestTimesOut(method)
  PROVE  TypeOK' /\ TailInv' /\ QuietStep
<1> DEFINE dropped == [relay EXCEPT !.pending = @ \ {method}]
<1>1. relay \in RelayRecord /\ ledger \in LedgerRecord /\ TypeOK /\ TailInv
  BY Types DEF Inv
<1>2. /\ dropped \in RelayRecord /\ dropped.start = relay.start
      /\ dropped.terminal = relay.terminal /\ dropped.finish = relay.finish
      /\ dropped.state = relay.state /\ dropped.cancel = relay.cancel
  BY <1>1, DroppedFacts
<1>3. \/ relay' = StartFailing(dropped) /\ ledger' = AskFailure(ledger, dropped)
      \/ relay' = dropped /\ ledger' = ledger
  BY DEF RequestTimesOut
<1>4. UNCHANGED << agent, tail, handling, owned, http, host, faults >>
  BY DEF RequestTimesOut
<1> HIDE DEF dropped
<1>5. /\ StartFailing(dropped) \in RelayRecord
      /\ StartFailing(dropped).start \in {"failing", "failed"}
      /\ StartFailing(dropped).terminal = dropped.terminal
      /\ StartFailing(dropped).finish = dropped.finish
      /\ StartFailing(dropped).state = dropped.state
      /\ Asks(ledger, AskFailure(ledger, dropped), "start")
  BY <1>1, <1>2, StartFailingFacts
<1>6. Asks(ledger, ledger, "start")
  BY <1>1 DEF Asks
<1>7. /\ relay' \in RelayRecord /\ relay'.terminal = relay.terminal
      /\ relay'.finish = relay.finish /\ relay'.state = relay.state
      /\ relay'.start = "announcing" => relay.start = "announcing" /\ relay'.cancel = relay.cancel
      /\ Asks(ledger, ledger', "start")
  BY <1>2, <1>3, <1>5, <1>6
<1>8. (relay.start = "announcing" => relay.cancel # "armed") /\ ledger' \in LedgerRecord
  BY <1>7 DEF Inv, AnnounceInv, Asks
<1> QED
  BY <1>1, <1>4, <1>7, <1>8, Types, TypesNext, SameTask DEF QuietStep

(* A task begins: a note, a report of usage, the end of the turn or of the *)
(* child.                                                                  *)
LEMMA TaskBeginsStep ==
  ASSUME Inv, HandleNote \/ HandleUsage \/ HandleEnd
  PROVE  TypeOK' /\ TailInv' /\ QuietStep
<1>1. /\ relay \in RelayRecord /\ ledger \in LedgerRecord /\ TypeOK /\ TailInv
      /\ tail \in Seq(Tasks)
  BY Types DEF Inv
<1>2. \A op \in Operations, n \in Nat : Asks(ledger, Ask(ledger, "tail", op, n), "tail")
  BY <1>1, AskFacts DEF Callers
<1>3. /\ Asks(ledger, ledger, "tail") /\ {"append", "gap", "usage"} \subseteq Operations
      /\ relay.start = "announcing" => relay.cancel # "armed"
  BY <1>1 DEF Asks, Operations, Inv, AnnounceInv
<1>4. UNCHANGED << agent, owned, http, host, faults >>
  BY DEF HandleNote, HandleUsage, HandleEnd
<1>5. CASE HandleNote
  <2>1. tail # << >> /\ Task.kind = "note" /\ Task.writes \in Nat
    BY <1>1, <1>5, BeginsFacts DEF HandleNote
  <2>2. UNCHANGED relay /\ Asks(ledger, ledger', "tail")
    BY <1>2, <1>3, <1>5 DEF HandleNote
  <2>3. TaskOver \/ (Task.writes # 0 /\ TaskWaits("writing"))
    BY <1>5 DEF HandleNote
  <2>4. /\ tail' \in Seq(Tasks) /\ handling' \in Handlings
        /\ handling' # "ready" => tail' # << >>
        /\ TailInv'
    BY <1>1, <2>1, <2>3, TaskOverFacts DEF TaskWaits, TailInv, Handlings, Task
  <2>5. ledger' \in LedgerRecord
    BY <2>2 DEF Asks
  <2> QED
    BY <1>1, <1>3, <1>4, <2>2, <2>4, <2>5, Types, TypesNext DEF QuietStep
<1>6. CASE HandleUsage
  <2>1. tail # << >> /\ Task.count \in Nat
    BY <1>1, <1>6, BeginsFacts DEF HandleUsage
  <2>2. UsageDelta(Task.count, relay.base) \in Nat \cup {None}
    <3>1. relay.base \in Nat \cup {None}
      BY <1>1 DEF RelayRecord
    <3> QED
      BY <2>1, <3>1 DEF UsageDelta
  <2>3. Asks(ledger, ledger', "tail")
    BY <1>2, <1>3, <1>6, <2>2 DEF HandleUsage
  <2>4. /\ relay' \in RelayRecord /\ relay'.start = relay.start /\ relay'.terminal = relay.terminal
        /\ relay'.finish = relay.finish /\ relay'.state = relay.state
        /\ relay'.cancel = relay.cancel
    BY <1>1, <1>6, <2>1 DEF HandleUsage, RelayRecord
  <2>5. tail' = tail /\ handling' \in {"gap", "usage"}
    BY <1>6 DEF HandleUsage, TaskWaits
  <2>6. TailInv' /\ ledger' \in LedgerRecord
    BY <2>3, <2>5 DEF TailInv, Asks
  <2> QED
    BY <1>1, <1>3, <1>4, <2>1, <2>3, <2>4, <2>5, <2>6, Types, TypesNext DEF QuietStep, Handlings
<1>7. CASE HandleEnd
  <2>1. /\ tail # << >> /\ (Begins("turn") => Task.kind = "turn")
        /\ Begins("exit") => Task.kind = "exit"
    BY <1>1, <1>7, BeginsFacts DEF HandleEnd
  <2>2. UNCHANGED relay /\ Asks(ledger, ledger', "tail")
    <3>1. 0 \in Nat
      OBVIOUS
    <3> QED
      BY <1>2, <1>3, <1>7, <3>1 DEF HandleEnd
  <2>3. TaskOver \/ (Task.kind = "turn" /\ TaskWaits("turn"))
                 \/ (Task.kind = "exit" /\ TaskWaits("fail"))
    BY <1>7, <2>1 DEF HandleEnd
  <2>4. /\ tail' \in Seq(Tasks) /\ handling' \in Handlings
        /\ handling' # "ready" => tail' # << >>
        /\ TailInv'
    BY <1>1, <2>1, <2>3, TaskOverFacts DEF TaskWaits, TailInv, Handlings, Task
  <2>5. ledger' \in LedgerRecord
    BY <2>2 DEF Asks
  <2> QED
    BY <1>1, <1>3, <1>4, <2>2, <2>4, <2>5, Types, TypesNext DEF QuietStep
<1> QED
  BY <1>5, <1>6, <1>7

(* The ledger answers the tail's task.                                     *)
LEMMA TailAnsweredStep ==
  ASSUME Inv, NoteWritten \/ GapWritten \/ UsageRecorded \/ OverrunRecorded \/ TailRejected
  PROVE  TypeOK' /\ TailInv' /\ QuietStep
<1>1. /\ relay \in RelayRecord /\ ledger \in LedgerRecord /\ TypeOK /\ TailInv
      /\ tail \in Seq(Tasks) /\ handling \in Handlings
  BY Types DEF Inv
<1>2. /\ ledger.queue # << >> /\ Oldest.who = "tail" /\ relay.start # "announcing"
      /\ Answered \in LedgerRecord /\ (\A w : Asks(Answered, Answered, w))
      /\ faults' \in 0 .. MaxFaults
  BY AnswerFacts DEF NoteWritten, GapWritten, UsageRecorded, OverrunRecorded, TailRejected, Callers
<1>3. tail # << >> /\ Task \in Tasks
  BY <1>1, <1>2, CallerFacts DEF Task
<1>4. \A l \in LedgerRecord : l.queue = Answered.queue /\ l.state = Answered.state
                              /\ l.endings = Answered.endings =>
        /\ Asks(Answered, l, "tail")
        /\ Asks(Answered, Ask(l, "tail", "append", 0), "tail")
  <2>1. SUFFICES ASSUME NEW l \in LedgerRecord, l.queue = Answered.queue,
                        l.state = Answered.state, l.endings = Answered.endings
                 PROVE  /\ Asks(Answered, l, "tail")
                        /\ Asks(Answered, Ask(l, "tail", "append", 0), "tail")
    OBVIOUS
  <2>2. Asks(l, Ask(l, "tail", "append", 0), "tail")
    BY AskFacts DEF Callers, Operations
  <2> QED
    BY <2>1, <2>2 DEF Asks
<1>5. TaskOver => /\ tail' \in Seq(Tasks) /\ handling' \in Handlings
                  /\ handling' # "ready" => tail' # << >>
                  /\ TailInv'
  BY <1>1, <1>3, TaskOverFacts DEF Handlings
<1>6. UNCHANGED << agent, owned, http, host >>
  BY DEF NoteWritten, GapWritten, UsageRecorded, OverrunRecorded, TailRejected
<1>7. ASSUME relay' \in RelayRecord, relay'.terminal = relay.terminal,
             relay'.finish = relay.finish, relay'.state = relay.state,
             relay'.start = relay.start,
             \E who \in {"cancel", "tail"} : Asks(Answered, ledger', who),
             tail' \in Seq(Tasks), handling' \in Handlings,
             handling' # "ready" => tail' # << >>, TailInv'
      PROVE  TypeOK' /\ TailInv' /\ QuietStep
  <2>1. ledger' \in LedgerRecord
    BY <1>7 DEF Asks
  <2> QED
    BY <1>1, <1>2, <1>6, <1>7, <2>1, Types, TypesNext DEF QuietStep
<1>8. CASE NoteWritten
  <2>1. handling = "writing" /\ Task.kind = "note" /\ Task.writes \in Nat /\ Task.writes > 0
    BY <1>1, <1>3, <1>8 DEF NoteWritten, TailInv, Tasks, Task
  <2>2. CASE Task.writes = 1
    BY <1>1, <1>2, <1>5, <1>7, <1>8, <2>2 DEF NoteWritten
  <2>3. CASE Task.writes # 1
    <3> DEFINE less == [Task EXCEPT !.writes = @ - 1]
    <3>1. less \in Tasks /\ less.kind = "note" /\ less.writes > 0
      BY <1>3, <2>1, <2>3 DEF Tasks
    <3>2. tail' = [tail EXCEPT ![1] = less] /\ handling' = "writing"
      BY <1>8, <2>1, <2>3 DEF NoteWritten, Task
    <3> HIDE DEF less
    <3>3. tail' \in Seq(Tasks) /\ tail' # << >> /\ Head(tail') = less
      BY <1>1, <1>3, <3>1, <3>2
    <3>4. TailInv' /\ handling' \in Handlings
      BY <3>1, <3>2, <3>3 DEF TailInv, Handlings
    <3>5. Asks(Answered, ledger', "tail") /\ relay' = relay
      BY <1>2, <1>4, <1>8, <2>3 DEF NoteWritten
    <3> QED
      BY <1>1, <1>7, <3>3, <3>4, <3>5
  <2> QED
    BY <2>2, <2>3
<1>9. CASE GapWritten
  <2>1. /\ Explained(Answered) \in LedgerRecord /\ Explained(Answered).queue = Answered.queue
        /\ Explained(Answered).state = Answered.state
        /\ Explained(Answered).endings = Answered.endings
    BY <1>2 DEF Explained, LedgerRecord
  <2> QED
    BY <1>1, <1>4, <1>5, <1>7, <1>9, <2>1 DEF GapWritten
<1>10. CASE UsageRecorded
  <2> DEFINE total == Answered.total + Oldest.tokens
             counted == [Answered EXCEPT !.total = total, !.usage = "known"]
  <2>1. total \in Nat
    <3>1. Oldest \in Request /\ Answered.total \in Nat
      BY <1>1, <1>2, AnsweredFacts DEF LedgerRecord
    <3> QED
      BY <3>1 DEF Request
  <2>2. \/ ledger' = Ask(counted, "tail", "append", 0) /\ TaskWaits("overrun")
        \/ ledger' = counted /\ TaskOver
    BY <1>10 DEF UsageRecorded
  <2> HIDE DEF total
  <2>3. /\ counted \in LedgerRecord /\ counted.queue = Answered.queue
        /\ counted.state = Answered.state /\ counted.endings = Answered.endings
    BY <1>2, <2>1 DEF LedgerRecord
  <2> HIDE DEF counted
  <2>4. Asks(Answered, ledger', "tail") /\ UNCHANGED relay
    BY <1>4, <1>10, <2>2, <2>3 DEF UsageRecorded
  <2>5. TaskWaits("overrun") =>
          /\ tail' \in Seq(Tasks) /\ tail' # << >> /\ handling' \in Handlings /\ TailInv'
    BY <1>1, <1>3 DEF TaskWaits, TailInv, Handlings
  <2> QED
    BY <1>1, <1>5, <1>7, <2>2, <2>4, <2>5
<1>11. CASE OverrunRecorded
  <2>1. /\ Cancelling(relay, "tail") \in RelayRecord
        /\ Cancelling(relay, "tail").start = relay.start
        /\ Cancelling(relay, "tail").terminal = relay.terminal
        /\ Cancelling(relay, "tail").finish = relay.finish
        /\ Cancelling(relay, "tail").state = relay.state
    BY <1>1, CancellingFacts
  <2>2. Asks(Answered, Ask(Answered, "cancel", "append", 0), "cancel")
    BY <1>2, AskFacts DEF Callers, Operations
  <2>3. \/ /\ relay' = Cancelling(relay, "tail") /\ TaskWaits("cancel")
           /\ ledger' = Ask(Answered, "cancel", "append", 0)
        \/ relay' = relay /\ TaskOver /\ ledger' = Answered
    BY <1>11 DEF OverrunRecorded
  <2>4. TaskWaits("cancel") =>
          /\ tail' \in Seq(Tasks) /\ tail' # << >> /\ handling' \in Handlings /\ TailInv'
    BY <1>1, <1>3 DEF TaskWaits, TailInv, Handlings
  <2> QED
    BY <1>1, <1>2, <1>5, <1>7, <2>1, <2>2, <2>3, <2>4
<1>12. CASE TailRejected
  BY <1>1, <1>2, <1>5, <1>7, <1>12 DEF TailRejected
<1> QED
  BY <1>8, <1>9, <1>10, <1>11, <1>12

-----------------------------------------------------------------------------
(* A finish begins: the relay is terminal, its child signalled and its     *)
(* ending asked of the ledger b.                                           *)
FinishBegins(b) ==
  /\ ~relay.terminal
  /\ relay'.terminal /\ relay'.finish = "asked" /\ relay'.state \in Terminal
  /\ relay'.start # "announcing" /\ agent'.child # "running"
  /\ owned' = owned /\ http' = http
  /\ b = ledger \/ (b = Answered /\ ledger.queue # << >>)
  /\ ledger' = AskEnding(b)

LEMMA SignalledFacts ==
  ASSUME NEW a \in AgentRecord
  PROVE  Signalled(a) \in AgentRecord /\ Signalled(a).child # "running"
BY DEF Signalled, AgentRecord

LEMMA StartFailedStep ==
  ASSUME Inv, StartFailed
  PROVE  TypeOK' /\ TailInv' /\ (QuietStep \/ FinishBegins(Answered))
<1>1. relay \in RelayRecord /\ agent \in AgentRecord /\ TypeOK /\ TailInv
  BY Types DEF Inv
<1>2. /\ ledger.queue # << >> /\ Answered \in LedgerRecord
      /\ (\A w : Asks(Answered, Answered, w)) /\ faults' \in 0 .. MaxFaults
  BY AnswerFacts DEF StartFailed, Callers
<1>3. relay.start = "failing" /\ UNCHANGED << tail, handling, owned, http, host >>
  BY DEF StartFailed
<1>4. CASE relay.terminal
  <2> DEFINE failed == [relay EXCEPT !.start = "failed"]
  <2>1. /\ failed \in RelayRecord /\ failed.start = "failed" /\ failed.terminal = relay.terminal
        /\ failed.finish = relay.finish /\ failed.state = relay.state
    BY <1>1 DEF RelayRecord, Starting
  <2>2. relay' = failed /\ ledger' = Answered /\ UNCHANGED agent
    BY <1>4 DEF StartFailed
  <2> QED
    BY <1>1, <1>2, <1>3, <2>1, <2>2, Types, TypesNext, SameTask DEF QuietStep
<1>5. CASE ~relay.terminal
  <2>1. relay' = Finishing(relay, "start", "failed") /\ ledger' = AskEnding(Answered)
        /\ agent' = Signalled(agent)
    BY <1>5 DEF StartFailed
  <2>2. "failed" \in Terminal
    BY DEF Terminal
  <2>3. /\ relay' \in RelayRecord /\ relay'.terminal /\ relay'.finish = "asked"
        /\ relay'.state = "failed" /\ relay'.start # "announcing"
    BY <1>1, <1>3, <2>1, <2>2, FinishingFacts
  <2>4. agent' \in AgentRecord /\ agent'.child # "running"
    BY <1>1, <2>1, SignalledFacts
  <2>5. ledger' \in LedgerRecord
    BY <1>2, <2>1, AskEndingFacts
  <2> QED
    BY <1>1, <1>2, <1>3, <1>5, <2>1, <2>2, <2>3, <2>4, <2>5, Types, TypesNext, SameTask
    DEF FinishBegins
<1> QED
  BY <1>4, <1>5

LEMMA GracePassesStep ==
  ASSUME Inv, GracePasses
  PROVE  TypeOK' /\ TailInv' /\ (QuietStep \/ FinishBegins(ledger))
<1>1. /\ relay \in RelayRecord /\ agent \in AgentRecord /\ ledger \in LedgerRecord
      /\ TypeOK /\ TailInv
  BY Types DEF Inv
<1>2. /\ relay.start # "announcing"
      /\ UNCHANGED << tail, handling, owned, http, host, faults >>
  BY DEF GracePasses, Inv, AnnounceInv
<1>3. CASE relay.terminal
  <2>1. /\ relay' \in RelayRecord /\ relay'.start = relay.start /\ relay'.terminal = relay.terminal
        /\ relay'.finish = relay.finish /\ relay'.state = relay.state
    BY <1>1, <1>3 DEF GracePasses, RelayRecord
  <2>2. UNCHANGED << agent, ledger >> /\ Asks(ledger, ledger', "tail")
    BY <1>1, <1>3 DEF GracePasses, Asks
  <2> QED
    BY <1>1, <1>2, <2>1, <2>2, Types, TypesNext, SameTask DEF QuietStep
<1>4. CASE ~relay.terminal
  <2>1. relay' = Finishing(relay, "timer", "interrupted") /\ ledger' = AskEnding(ledger)
        /\ agent' = Signalled(agent)
    BY <1>4 DEF GracePasses
  <2>2. "interrupted" \in Terminal
    BY DEF Terminal
  <2>3. /\ relay' \in RelayRecord /\ relay'.terminal /\ relay'.finish = "asked"
        /\ relay'.state = "interrupted" /\ relay'.start # "announcing"
    BY <1>1, <1>2, <2>1, <2>2, FinishingFacts
  <2>4. agent' \in AgentRecord /\ agent'.child # "running"
    BY <1>1, <2>1, SignalledFacts
  <2>5. ledger' \in LedgerRecord
    BY <1>1, <2>1, AskEndingFacts
  <2> QED
    BY <1>1, <1>2, <1>4, <2>1, <2>2, <2>3, <2>4, <2>5, Types, TypesNext, SameTask
    DEF FinishBegins
<1> QED
  BY <1>3, <1>4

LEMMA EndRecordedStep ==
  ASSUME Inv, EndRecorded
  PROVE  TypeOK' /\ TailInv' /\ (QuietStep \/ FinishBegins(Answered))
<1>1. /\ relay \in RelayRecord /\ agent \in AgentRecord /\ TypeOK /\ TailInv
      /\ tail \in Seq(Tasks)
  BY Types DEF Inv
<1>2. /\ ledger.queue # << >> /\ Oldest.who = "tail" /\ relay.start # "announcing"
      /\ Answered \in LedgerRecord /\ (\A w : Asks(Answered, Answered, w))
      /\ faults' \in 0 .. MaxFaults
  BY AnswerFacts DEF EndRecorded, Callers
<1>3. tail # << >> /\ Task \in Tasks /\ UNCHANGED << owned, http, host >>
  BY <1>1, <1>2, CallerFacts DEF Task, EndRecorded
<1>4. CASE relay.terminal
  <2>1. relay' = relay /\ agent' = agent /\ ledger' = Answered /\ TaskOver
    BY <1>4 DEF EndRecorded
  <2>2. tail' \in Seq(Tasks) /\ handling' = "ready" /\ TailInv'
    BY <1>1, <1>3, <2>1, TaskOverFacts
  <2> QED
    BY <1>1, <1>2, <1>3, <2>1, <2>2, Types, TypesNext DEF QuietStep, Handlings
<1>5. CASE ~relay.terminal
  <2> DEFINE state == IF handling = "turn" THEN Task.state ELSE "failed"
  <2>1. relay' = Finishing(relay, "tail", state) /\ ledger' = AskEnding(Answered)
        /\ agent' = Signalled(agent) /\ TaskWaits("finish")
    BY <1>5 DEF EndRecorded
  <2>2. state \in Terminal
    <3>1. handling = "turn" => Task.kind = "turn"
      BY <1>1 DEF TailInv, Task
    <3> QED
      BY <1>3, <3>1 DEF Tasks, Terminal
  <2> HIDE DEF state
  <2>3. /\ relay' \in RelayRecord /\ relay'.terminal /\ relay'.finish = "asked"
        /\ relay'.state = state /\ relay'.start # "announcing"
    BY <1>1, <1>2, <2>1, <2>2, FinishingFacts
  <2>4. agent' \in AgentRecord /\ agent'.child # "running"
    BY <1>1, <2>1, SignalledFacts
  <2>5. ledger' \in LedgerRecord
    BY <1>2, <2>1, AskEndingFacts
  <2>6. tail' = tail /\ handling' = "finish" /\ TailInv'
    BY <2>1 DEF TaskWaits, TailInv
  <2> QED
    BY <1>1, <1>2, <1>3, <1>5, <2>1, <2>2, <2>3, <2>4, <2>5, <2>6, Types, TypesNext
    DEF FinishBegins, Handlings
<1> QED
  BY <1>4, <1>5

-----------------------------------------------------------------------------
(* The ledger answers a finish or an outside completion.                   *)

LEMMA OldestFinish ==
  ASSUME Inv, ledger.queue # << >>, Oldest.who = "finish"
  PROVE  /\ relay.finish = "asked" /\ relay.terminal /\ relay.state \in Terminal
         /\ Oldest.op \in {"gap", "event", "save"}
         /\ http = "no" => (Oldest.op = "save" <=> ledger.endings = 1)
<1>1. ledger.queue \in Seq(Request)
  BY Types DEF Inv, LedgerRecord
<1>2. 1 \in DOMAIN ledger.queue /\ Oldest = ledger.queue[1]
  BY <1>1 DEF Oldest
<1> QED
  BY <1>2 DEF Inv, FinishInv, OneFinish

(* One operation of an ending is answered and the next one asked.          *)
LEMMA EndingFacts ==
  ASSUME TypeOK, ledger.queue # << >>, NEW who \in Callers, NEW state \in Terminal,
         Ending(who, state)
  PROVE  /\ ledger' \in LedgerRecord
         /\ \/ /\ Oldest.op = "gap" /\ ledger'.state = ledger.state
               /\ ledger'.endings = ledger.endings
               /\ \E r \in Request : /\ r.who = who /\ r.op = "event"
                                     /\ ledger'.queue = Append(Tail(ledger.queue), r)
            \/ /\ Oldest.op = "event" /\ ledger'.state = ledger.state
               /\ ledger'.endings = ledger.endings + 1
               /\ \E r \in Request : /\ r.who = who /\ r.op = "save"
                                     /\ ledger'.queue = Append(Tail(ledger.queue), r)
            \/ /\ Oldest.op = "save" /\ ledger'.state = state
               /\ ledger'.endings = ledger.endings /\ ledger'.queue = Tail(ledger.queue)
<1>1. /\ Answered \in LedgerRecord /\ Answered.queue = Tail(ledger.queue)
      /\ Answered.state = ledger.state /\ Answered.endings = ledger.endings
  BY AnsweredFacts
<1> DEFINE more == [Answered EXCEPT !.endings = @ + 1]
           over == [Answered EXCEPT !.state = state]
<1>2. /\ Explained(Answered) \in LedgerRecord /\ Explained(Answered).queue = Answered.queue
      /\ Explained(Answered).state = Answered.state
      /\ Explained(Answered).endings = Answered.endings
  BY <1>1 DEF Explained, LedgerRecord
<1>3. /\ more \in LedgerRecord /\ more.queue = Answered.queue
      /\ more.state = Answered.state /\ more.endings = Answered.endings + 1
  BY <1>1 DEF LedgerRecord
<1>4. /\ over \in LedgerRecord /\ over.queue = Answered.queue
      /\ over.state = state /\ over.endings = Answered.endings
  BY <1>1 DEF LedgerRecord
<1>5. \/ Oldest.op = "gap" /\ ledger' = Ask(Explained(Answered), who, "event", 0)
      \/ Oldest.op = "event" /\ ledger' = Ask(more, who, "save", 0)
      \/ Oldest.op = "save" /\ ledger' = over
  BY DEF Ending
<1> HIDE DEF more, over
<1>6. ASSUME NEW l \in LedgerRecord, NEW op \in {"event", "save"}
      PROVE  /\ Ask(l, who, op, 0) \in LedgerRecord
             /\ Ask(l, who, op, 0).state = l.state /\ Ask(l, who, op, 0).endings = l.endings
             /\ \E r \in Request : /\ r.who = who /\ r.op = op
                                   /\ Ask(l, who, op, 0).queue = Append(l.queue, r)
  <2> DEFINE asked == [who |-> who, op |-> op, tokens |-> 0]
  <2>1. op \in Operations /\ 0 \in Nat
    BY DEF Operations
  <2>2. asked \in Request /\ asked.who = who /\ asked.op = op
    BY <2>1 DEF Request
  <2>3. /\ Ask(l, who, op, 0) \in LedgerRecord
        /\ Ask(l, who, op, 0).state = l.state /\ Ask(l, who, op, 0).endings = l.endings
        /\ Ask(l, who, op, 0).queue = Append(l.queue, asked)
    BY <2>1, AskFacts
  <2> HIDE DEF asked
  <2> QED
    BY <2>2, <2>3
<1>7. CASE Oldest.op = "gap" /\ ledger' = Ask(Explained(Answered), who, "event", 0)
  <2>1. /\ ledger' \in LedgerRecord /\ ledger'.state = Explained(Answered).state
        /\ ledger'.endings = Explained(Answered).endings
        /\ \E r \in Request : /\ r.who = who /\ r.op = "event"
                              /\ ledger'.queue = Append(Explained(Answered).queue, r)
    BY <1>2, <1>6, <1>7
  <2> QED
    BY <1>1, <1>2, <1>7, <2>1
<1>8. CASE Oldest.op = "event" /\ ledger' = Ask(more, who, "save", 0)
  <2>1. /\ ledger' \in LedgerRecord /\ ledger'.state = more.state
        /\ ledger'.endings = more.endings
        /\ \E r \in Request : /\ r.who = who /\ r.op = "save"
                              /\ ledger'.queue = Append(more.queue, r)
    BY <1>3, <1>6, <1>8
  <2> QED
    BY <1>1, <1>3, <1>8, <2>1
<1>9. CASE Oldest.op = "save" /\ ledger' = over
  BY <1>1, <1>4, <1>9
<1> QED
  BY <1>5, <1>7, <1>8, <1>9

LEMMA FinishedFacts ==
  ASSUME NEW r \in RelayRecord, NEW how \in {"done", "lost"}
  PROVE  /\ Finished(r, how) \in RelayRecord /\ Finished(r, how).finish = how
         /\ Finished(r, how).terminal = r.terminal /\ Finished(r, how).state = r.state
         /\ Finished(r, how).start \in {r.start, "failed"}
         /\ Finished(r, how).cancel = r.cancel /\ Finished(r, how).by = r.by
         /\ Finished(r, how).caller = r.caller
<1> DEFINE start == IF r.caller = "start" THEN "failed" ELSE r.start
<1>1. start \in Starting /\ start \in {r.start, "failed"}
  BY DEF RelayRecord, Starting
<1>2. Finished(r, how) = [r EXCEPT !.finish = how, !.start = start]
  BY DEF Finished, RelayRecord
<1> HIDE DEF start
<1> QED
  BY <1>1, <1>2 DEF RelayRecord

(* The caller of finish() goes on, be it the tail's task or another.       *)
LEMMA CallerOfFinishFacts ==
  ASSUME Inv, ledger.queue # << >>, Oldest.who = "finish", CallerOfFinishGoesOn(relay)
  PROVE  /\ tail' \in Seq(Tasks) /\ handling' \in Handlings
         /\ handling' # "ready" => tail' # << >>
         /\ TailInv'
<1>1. TypeOK /\ TailInv /\ (relay.caller = "tail" => tail # << >>)
  BY CallerFacts DEF Inv
<1>2. CASE relay.caller = "tail"
  BY <1>1, <1>2, TaskOverFacts DEF CallerOfFinishGoesOn, Handlings
<1>3. CASE relay.caller # "tail"
  BY <1>1, <1>3, Types, SameTask DEF CallerOfFinishGoesOn
<1> QED
  BY <1>2, <1>3

(* finish() has recorded its ending, or its record was rejected.           *)
FinishAdvances ==
  /\ ledger.queue # << >> /\ Oldest.who = "finish"
  /\ relay'.start # "announcing" /\ relay'.terminal = relay.terminal
  /\ relay'.state = relay.state /\ agent' = agent /\ http' = http
  /\ FinishGoesOn \/ (relay'.finish = "lost" /\ owned' = owned /\ ledger' = Answered)

LEMMA FinishAnsweredStep ==
  ASSUME Inv, FinishGoesOn \/ FinishRejected
  PROVE  /\ TypeOK' /\ TailInv'
         /\ \/ QuietStep
            \/ FinishAdvances
<1>1. /\ relay \in RelayRecord /\ agent \in AgentRecord /\ TypeOK /\ TailInv
      /\ owned \in BOOLEAN
  BY Types DEF Inv
<1>2. /\ ledger.queue # << >> /\ Oldest.who = "finish" /\ relay.start # "announcing"
      /\ Answered \in LedgerRecord /\ faults' \in 0 .. MaxFaults
  BY AnswerFacts DEF FinishGoesOn, FinishRejected, Callers
<1>3. \A how \in {"done", "lost"} :
        /\ Finished(relay, how) \in RelayRecord /\ Finished(relay, how).finish = how
        /\ Finished(relay, how).terminal = relay.terminal
        /\ Finished(relay, how).state = relay.state
        /\ Finished(relay, how).start # "announcing"
  BY <1>1, <1>2, FinishedFacts
<1>4. CASE FinishGoesOn
  <2>1. ledger' \in LedgerRecord
    BY <1>1, <1>2, <1>4, EndingFacts, OldestFinish DEF FinishGoesOn, Callers
  <2>2. /\ relay' \in RelayRecord /\ relay'.start # "announcing" /\ owned' \in BOOLEAN
        /\ relay'.terminal = relay.terminal /\ relay'.state = relay.state
    BY <1>1, <1>2, <1>3, <1>4 DEF FinishGoesOn
  <2>3. /\ tail' \in Seq(Tasks) /\ handling' \in Handlings
        /\ handling' # "ready" => tail' # << >>
        /\ TailInv'
    <3>1. CallerOfFinishGoesOn(relay) \/ UNCHANGED << tail, handling >>
      BY <1>4 DEF FinishGoesOn
    <3> QED
      BY <1>1, <1>2, <3>1, Types, CallerOfFinishFacts, SameTask
  <2>4. UNCHANGED << agent, http, host >>
    BY <1>4 DEF FinishGoesOn
  <2> QED
    BY <1>1, <1>2, <1>4, <2>1, <2>2, <2>3, <2>4, Types, TypesNext DEF FinishAdvances
<1>5. CASE FinishRejected /\ relay.caller = "timer"
  BY <1>2, <1>5, ExitStep DEF FinishRejected
<1>6. CASE FinishRejected /\ relay.caller # "timer"
  <2>1. /\ ledger' = Answered /\ relay' = Finished(relay, "lost")
        /\ CallerOfFinishGoesOn(relay) /\ UNCHANGED << agent, owned, http, host >>
    BY <1>6 DEF FinishRejected
  <2> QED
    BY <1>1, <1>2, <1>3, <2>1, Types, TypesNext, CallerOfFinishFacts DEF FinishAdvances
<1> QED
  BY <1>4, <1>5, <1>6

(* A client completes the session as well.                                 *)
HttpStep ==
  /\ http' # "no" /\ UNCHANGED << relay, agent, tail, handling, owned >>
  /\ ledger' \in LedgerRecord /\ (ledger.state # "running" => ledger'.state # "running")
  /\ relay.start = "announcing" => ledger.queue # << >> /\ Head(ledger'.queue) = Oldest
  /\ relay.start = "announcing" => ledger'.queue # << >>
  /\ LET rest == IF ledger.queue # << >> /\ http # "no" THEN Tail(ledger.queue) ELSE ledger.queue IN
     \/ ledger'.queue = rest
     \/ \E r \in Request : r.who = "http" /\ ledger'.queue = Append(rest, r)

LEMMA HttpStepFacts ==
  ASSUME Inv, HttpCompletes \/ HttpGoesOn \/ HttpRejected
  PROVE  TypeOK' /\ TailInv' /\ HttpStep
<1>1. /\ relay \in RelayRecord /\ ledger \in LedgerRecord /\ TypeOK /\ TailInv
      /\ ledger.queue \in Seq(Request) /\ http \in {"no", "asked", "done", "failed"}
      /\ faults \in 0 .. MaxFaults
  BY Types DEF Inv, LedgerRecord
<1>2. UNCHANGED << relay, agent, tail, handling, owned, host >>
  BY DEF HttpCompletes, HttpGoesOn, HttpRejected
<1>3. relay.start = "announcing" => ledger.queue # << >>
  BY DEF Inv, AnnounceInv
<1>4. CASE HttpCompletes
  <2> DEFINE op == IF ledger.usage = "unknown" THEN "gap" ELSE "event"
  <2>1. op \in Operations /\ "http" \in Callers /\ 0 \in Nat
    BY DEF Operations, Callers
  <2>2. http = "no" /\ http' = "asked" /\ ledger' = Ask(ledger, "http", op, 0)
        /\ faults' \in 0 .. MaxFaults
    BY <1>1, <1>4, RelayAssumption DEF HttpCompletes
  <2> HIDE DEF op
  <2>3. [who |-> "http", op |-> op, tokens |-> 0] \in Request
    BY <2>1 DEF Request
  <2>4. /\ ledger' \in LedgerRecord /\ ledger'.state = ledger.state
        /\ \E r \in Request : r.who = "http" /\ ledger'.queue = Append(ledger.queue, r)
    BY <1>1, <2>1, <2>2, <2>3, AskFacts
  <2>5. relay.start = "announcing" => Head(ledger'.queue) = Oldest /\ ledger'.queue # << >>
    BY <1>1, <1>3, <2>4 DEF Oldest
  <2>6. HttpStep
    BY <1>2, <1>3, <2>2, <2>4, <2>5 DEF HttpStep
  <2> QED
    BY <1>1, <1>2, <2>2, <2>4, <2>6, Types, TypesNext, SameTask
<1>5. CASE HttpGoesOn \/ HttpRejected
  <2>1. /\ ledger.queue # << >> /\ Oldest.who = "http" /\ relay.start # "announcing"
        /\ Answered \in LedgerRecord /\ faults' \in 0 .. MaxFaults
    BY <1>5, AnswerFacts DEF HttpGoesOn, HttpRejected, Callers
  <2>2. http # "no"
    <3>1. 1 \in DOMAIN ledger.queue /\ Oldest = ledger.queue[1]
      BY <1>1, <2>1 DEF Oldest
    <3> QED
      BY <2>1, <3>1 DEF Inv, FinishInv, OneFinish
  <2>3. http' \in {"asked", "done", "failed"}
    BY <1>1, <1>5, <2>2 DEF HttpGoesOn, HttpRejected
  <2>4. /\ Answered.queue = Tail(ledger.queue) /\ Answered.state = ledger.state
    BY <1>1, <2>1, AnsweredFacts
  <2>5. /\ ledger' \in LedgerRecord /\ (ledger.state # "running" => ledger'.state # "running")
        /\ \/ ledger'.queue = Tail(ledger.queue)
           \/ \E r \in Request : r.who = "http" /\ ledger'.queue = Append(Tail(ledger.queue), r)
    <3>1. CASE HttpGoesOn
      <4>1. "completed" \in Terminal /\ "http" \in Callers /\ "running" \notin Terminal
        BY DEF Terminal, Callers
      <4>2. Ending("http", "completed")
        BY <3>1 DEF HttpGoesOn
      <4> QED
        BY <1>1, <2>1, <4>1, <4>2, EndingFacts
    <3>2. CASE HttpRejected
      BY <2>1, <2>4, <3>2 DEF HttpRejected
    <3> QED
      BY <1>5, <3>1, <3>2
  <2>6. HttpStep
    BY <1>2, <2>1, <2>2, <2>3, <2>5 DEF HttpStep
  <2> QED
    BY <1>1, <1>2, <2>1, <2>3, <2>5, <2>6, Types, TypesNext, SameTask
<1> QED
  BY <1>4, <1>5

-----------------------------------------------------------------------------
(* Each kind of step keeps what the theorems say.                          *)

Endings == AnnounceInv /\ FinishedAgentStopped /\ FinishInv /\ EndingInv

LEMMA QuietKeeps ==
  ASSUME Inv, QuietStep
  PROVE  Endings'
<1>1. /\ TypeOK /\ AnnounceInv /\ FinishedAgentStopped /\ FinishInv /\ EndingInv
      /\ ledger \in LedgerRecord /\ ledger.queue \in Seq(Request)
  BY Types DEF Inv, LedgerRecord
<1>2. AnnounceInv'
  <2>1. SUFFICES ASSUME relay'.start = "announcing" PROVE AnnounceInv'
    BY DEF AnnounceInv
  <2>2. PICK who : Asks(ledger, ledger', who)
    BY <2>1 DEF QuietStep
  <2>3. ledger'.queue # << >> /\ Head(ledger'.queue) = Head(ledger.queue)
    BY <1>1, <2>1, <2>2 DEF Asks, QuietStep, AnnounceInv
  <2> QED
    BY <1>1, <2>1, <2>3 DEF QuietStep, AnnounceInv
<1>3. FinishedAgentStopped'
  BY <1>1 DEF QuietStep, FinishedAgentStopped
<1>4. ledger'.state = ledger.state /\ ledger'.endings = ledger.endings
  BY <1>1, AnsweredFacts DEF QuietStep, Asks
<1> DEFINE alone == http = "no"
           keeps(q) == OneFinish(q, relay.finish, ledger.endings, alone)
<1>5. keeps(ledger.queue) /\ alone \in BOOLEAN
  BY <1>1 DEF FinishInv
<1>6. keeps(ledger'.queue)
  <2>1. ASSUME NEW q \in Seq(Request), keeps(q), NEW r \in Request,
               r.who \in {"start", "cancel", "tail"}
        PROVE  keeps(Append(q, r))
    BY <1>5, <2>1, QueueFacts
  <2>2. ledger.queue # << >> =>
          Answered.queue \in Seq(Request) /\ keeps(Answered.queue)
    <3>1. ledger.queue # << >> => keeps(Tail(ledger.queue))
      BY <1>1, <1>5, QueueFacts
    <3> QED
      BY <1>1, <3>1, AnsweredFacts DEF LedgerRecord
  <2>3. keeps(<< >>)
    BY DEF OneFinish
  <2> HIDE DEF keeps
  <2> QED
    BY <1>1, <1>5, <2>1, <2>2, <2>3 DEF QuietStep, Asks
<1>7. FinishInv'
  BY <1>1, <1>4, <1>6 DEF QuietStep, FinishInv
<1>8. EndingInv'
  BY <1>1, <1>4 DEF QuietStep, EndingInv
<1> QED
  BY <1>2, <1>3, <1>7, <1>8 DEF Endings

LEMMA BeginningKeeps ==
  ASSUME Inv, NEW b, FinishBegins(b)
  PROVE  Endings'
<1>1. /\ TypeOK /\ FinishInv /\ EndingInv /\ ledger \in LedgerRecord
      /\ ledger.queue \in Seq(Request) /\ relay.finish = "no" /\ owned
  BY Types DEF Inv, LedgerRecord, FinishBegins, FinishInv
<1> DEFINE alone == http = "no"
           free(q) == \A i \in DOMAIN q : q[i].who # "finish" /\ (alone => q[i].who # "http")
<1>2. /\ b \in LedgerRecord /\ b.queue \in Seq(Request) /\ free(b.queue)
      /\ b.state = ledger.state /\ b.endings = ledger.endings
  <2>1. OneFinish(ledger.queue, "no", ledger.endings, alone) /\ alone \in BOOLEAN
    BY <1>1 DEF FinishInv
  <2>2. ledger.queue # << >> => OneFinish(Tail(ledger.queue), "no", ledger.endings, alone)
    BY <1>1, <2>1, QueueFacts
  <2>3. OneFinish(b.queue, "no", ledger.endings, alone)
    BY <1>1, <2>1, <2>2, AnsweredFacts DEF FinishBegins
  <2>4. free(b.queue)
    BY <2>3 DEF OneFinish
  <2> QED
    BY <1>1, <2>4, AnsweredFacts DEF FinishBegins, LedgerRecord
<1>3. /\ ledger'.state = ledger.state /\ ledger'.endings = ledger.endings
      /\ \E r \in Request : /\ r.who = "finish" /\ r.op \in {"gap", "event"}
                            /\ ledger'.queue = Append(b.queue, r)
  BY <1>2, AskEndingFacts DEF FinishBegins
<1>4. alone => ledger.endings = 0 /\ ledger.state = "running"
  BY <1>1 DEF EndingInv
<1>5. OneFinish(ledger'.queue, "asked", ledger'.endings, alone)
  <2>1. PICK r \in Request : /\ r.who = "finish" /\ r.op \in {"gap", "event"}
                             /\ ledger'.queue = Append(b.queue, r)
    BY <1>3
  <2>2. alone => (r.op = "save" <=> ledger'.endings = 1)
    BY <1>3, <1>4, <2>1
  <2>3. alone \in BOOLEAN /\ "asked" = "asked"
    OBVIOUS
  <2> HIDE DEF alone
  <2> QED
    BY <1>2, <2>1, <2>2, <2>3, FirstAsked
<1>6. FinishInv'
  BY <1>1, <1>5 DEF FinishInv, FinishBegins
<1>7. EndingInv'
  BY <1>3, <1>4 DEF EndingInv, FinishBegins
<1> QED
  BY <1>6, <1>7 DEF Endings, AnnounceInv, FinishedAgentStopped, FinishBegins

LEMMA AdvancingKeeps ==
  ASSUME Inv, FinishAdvances
  PROVE  Endings'
<1>1. /\ TypeOK /\ FinishedAgentStopped /\ FinishInv /\ EndingInv /\ ledger \in LedgerRecord
      /\ ledger.queue \in Seq(Request) /\ ledger.queue # << >> /\ Oldest.who = "finish"
  BY Types DEF Inv, LedgerRecord, FinishAdvances
<1> DEFINE alone == http = "no"
           rest == Tail(ledger.queue)
<1>2. /\ relay.finish = "asked" /\ relay.terminal /\ relay.state \in Terminal /\ owned
      /\ alone => (Oldest.op = "save" <=> ledger.endings = 1)
      /\ alone => ledger.endings \in {0, 1} /\ ledger.state = "running"
  BY <1>1, OldestFinish DEF FinishInv, EndingInv, LedgerRecord
<1>3. /\ rest \in Seq(Request) /\ alone \in BOOLEAN
      /\ \A i \in DOMAIN rest : rest[i].who # "finish" /\ (alone => rest[i].who # "http")
  <2>1. OneFinish(ledger.queue, relay.finish, ledger.endings, alone) /\ alone \in BOOLEAN
    BY <1>1 DEF FinishInv
  <2>2. Head(ledger.queue).who = "finish"
    BY <1>1 DEF Oldest
  <2>3. /\ OneFinish(rest, relay.finish, ledger.endings, alone)
        /\ \A i \in DOMAIN rest : rest[i].who # "finish"
    BY <1>1, <2>1, <2>2, QueueFacts
  <2> QED
    BY <1>1, <2>1, <2>3 DEF OneFinish
<1>4. ASSUME NEW finish, NEW endings PROVE OneFinish(rest, finish, endings, alone)
  BY <1>3 DEF OneFinish
<1>5. AnnounceInv' /\ FinishedAgentStopped'
  BY <1>1 DEF FinishAdvances, AnnounceInv, FinishedAgentStopped
<1>6. CASE FinishGoesOn
  <2>1. "finish" \in Callers /\ "running" \notin Terminal
    BY DEF Callers, Terminal
  <2>2. Ending("finish", relay.state)
    BY <1>6 DEF FinishGoesOn
  <2>3. \/ /\ Oldest.op \in {"gap", "event"} /\ ledger'.state = ledger.state
           /\ ledger'.endings = ledger.endings + (IF Oldest.op = "gap" THEN 0 ELSE 1)
           /\ \E r \in Request : /\ r.who = "finish"
                                 /\ r.op = IF Oldest.op = "gap" THEN "event" ELSE "save"
                                 /\ ledger'.queue = Append(rest, r)
        \/ /\ Oldest.op = "save" /\ ledger'.state = relay.state
           /\ ledger'.endings = ledger.endings /\ ledger'.queue = rest
    <3>1. \/ /\ Oldest.op = "gap" /\ ledger'.state = ledger.state
             /\ ledger'.endings = ledger.endings
             /\ \E r \in Request : /\ r.who = "finish" /\ r.op = "event"
                                   /\ ledger'.queue = Append(rest, r)
          \/ /\ Oldest.op = "event" /\ ledger'.state = ledger.state
             /\ ledger'.endings = ledger.endings + 1
             /\ \E r \in Request : /\ r.who = "finish" /\ r.op = "save"
                                   /\ ledger'.queue = Append(rest, r)
          \/ /\ Oldest.op = "save" /\ ledger'.state = relay.state
             /\ ledger'.endings = ledger.endings /\ ledger'.queue = rest
      BY <1>1, <1>2, <2>1, <2>2, EndingFacts
    <3>2. ledger.endings \in Nat
      BY <1>1 DEF LedgerRecord
    <3> HIDE DEF rest
    <3> QED
      BY <3>1, <3>2
  <2>4. CASE Oldest.op # "save"
    <3>1. UNCHANGED << relay, owned >> /\ http' = http
      BY <1>6, <2>4 DEF FinishGoesOn
    <3>2. PICK r \in Request : /\ r.who = "finish"
                               /\ r.op = IF Oldest.op = "gap" THEN "event" ELSE "save"
                               /\ ledger'.queue = Append(rest, r)
      BY <2>3, <2>4
    <3>3. alone => (r.op = "save" <=> ledger'.endings = 1) /\ ledger'.endings <= 1
      BY <1>2, <2>3, <2>4, <3>2
    <3>4. r.op \in {"gap", "event", "save"}
      BY <3>2
    <3> HIDE DEF rest, alone
    <3>5. OneFinish(ledger'.queue, "asked", ledger'.endings, alone)
      BY <1>3, <3>2, <3>3, <3>4, FirstAsked
    <3> USE DEF alone
    <3>6. FinishInv'
      BY <1>1, <1>2, <3>1, <3>5 DEF FinishInv
    <3>7. EndingInv'
      BY <1>2, <2>3, <2>4, <3>1, <3>3 DEF EndingInv
    <3> QED
      BY <1>5, <3>6, <3>7 DEF Endings
  <2>5. CASE Oldest.op = "save"
    <3>1. /\ relay'.finish = "done" /\ ~owned' /\ http' = http
          /\ relay'.terminal = relay.terminal /\ relay'.state = relay.state
      <4>1. relay \in RelayRecord /\ relay' = Finished(relay, "done") /\ ~owned'
        BY <1>1, <1>6, <2>5, Types DEF FinishGoesOn
      <4> QED
        BY <4>1, FinishedFacts DEF FinishAdvances
    <3>2. /\ ledger'.state = relay.state /\ ledger'.endings = ledger.endings
          /\ ledger'.queue = rest
      BY <2>3, <2>5
    <3>3. OneFinish(ledger'.queue, relay'.finish, ledger'.endings, alone)
      BY <1>4, <3>2
    <3>4. FinishInv'
      BY <1>1, <1>2, <2>1, <3>1, <3>2, <3>3 DEF FinishInv
    <3>5. EndingInv'
      BY <1>2, <2>5, <3>1, <3>2 DEF EndingInv
    <3> QED
      BY <1>5, <3>4, <3>5 DEF Endings
  <2> QED
    BY <2>4, <2>5
<1>7. CASE relay'.finish = "lost" /\ owned' = owned /\ ledger' = Answered
  <2>1. /\ ledger'.queue = rest /\ ledger'.state = ledger.state
        /\ ledger'.endings = ledger.endings /\ http' = http
        /\ relay'.terminal = relay.terminal /\ relay'.state = relay.state
    BY <1>1, <1>7, AnsweredFacts DEF FinishAdvances
  <2>2. OneFinish(ledger'.queue, relay'.finish, ledger'.endings, alone)
    BY <1>4, <2>1
  <2>3. FinishInv'
    BY <1>1, <1>2, <1>7, <2>1, <2>2 DEF FinishInv
  <2>4. EndingInv'
    BY <1>1, <1>2, <1>7, <2>1 DEF EndingInv
  <2> QED
    BY <1>5, <2>3, <2>4 DEF Endings
<1> QED
  BY <1>6, <1>7 DEF FinishAdvances

LEMMA HttpKeeps ==
  ASSUME Inv, HttpStep
  PROVE  Endings'
<1>1. /\ TypeOK /\ AnnounceInv /\ FinishedAgentStopped /\ FinishInv
      /\ ledger.queue \in Seq(Request)
  BY Types DEF Inv, LedgerRecord
<1>2. AnnounceInv' /\ FinishedAgentStopped'
  BY <1>1 DEF HttpStep, AnnounceInv, FinishedAgentStopped, Oldest
<1> DEFINE rest == IF ledger.queue # << >> /\ http # "no" THEN Tail(ledger.queue) ELSE ledger.queue
<1> DEFINE alone == http' = "no"
<1>3. ~alone /\ alone \in BOOLEAN
  BY DEF HttpStep
<1>4. ASSUME NEW endings PROVE OneFinish(rest, relay.finish, endings, alone)
  <2>1. OneFinish(ledger.queue, relay.finish, endings, alone)
    BY <1>1, <1>3 DEF FinishInv, OneFinish
  <2>2. ledger.queue # << >> => OneFinish(Tail(ledger.queue), relay.finish, endings, alone)
    BY <1>1, <1>3, <2>1, QueueFacts
  <2> QED
    BY <2>1, <2>2
<1>5. /\ ledger'.queue = rest \/ \E r \in Request : r.who = "http" /\ ledger'.queue = Append(rest, r)
      /\ rest \in Seq(Request)
  BY <1>1 DEF HttpStep
<1> HIDE DEF rest
<1>6. OneFinish(ledger'.queue, relay.finish, ledger'.endings, alone)
  BY <1>3, <1>4, <1>5, QueueFacts
<1>7. FinishInv' /\ EndingInv'
  BY <1>1, <1>3, <1>6 DEF HttpStep, FinishInv, EndingInv
<1> QED
  BY <1>2, <1>7 DEF Endings

-----------------------------------------------------------------------------
(* Nobody is resumed by an answer that it does not wait for.               *)

Absent(q, who) == \A i \in DOMAIN q : q[i].who # who

LEMMA AbsentFacts ==
  ASSUME Inv
  PROVE  /\ handling \notin Writing => Absent(ledger.queue, "tail")
         /\ relay.cancel # "asked" => Absent(ledger.queue, "cancel")
         /\ relay.finish # "asked" => Absent(ledger.queue, "finish")
         /\ ledger.queue # << >> =>
              /\ \A who : Absent(ledger.queue, who) => Absent(Tail(ledger.queue), who)
              /\ Oldest.who \in {"tail", "cancel", "finish"} => Absent(Tail(ledger.queue), Oldest.who)
<1>1. /\ ledger.queue \in Seq(Request) /\ Waiting(ledger.queue, relay, handling)
      /\ OneFinish(ledger.queue, relay.finish, ledger.endings, http = "no")
  BY Types DEF Inv, LedgerRecord, WaitInv, FinishInv
<1>2. /\ handling \notin Writing => Absent(ledger.queue, "tail")
      /\ relay.cancel # "asked" => Absent(ledger.queue, "cancel")
      /\ relay.finish # "asked" => Absent(ledger.queue, "finish")
  BY <1>1 DEF Waiting, OneFinish, Absent
<1>3. SUFFICES ASSUME ledger.queue # << >>
               PROVE  /\ \A who : Absent(ledger.queue, who) => Absent(Tail(ledger.queue), who)
                      /\ Oldest.who \in {"tail", "cancel", "finish"} =>
                           Absent(Tail(ledger.queue), Oldest.who)
  BY <1>2
<1>4. /\ 1 \in DOMAIN ledger.queue /\ Oldest = ledger.queue[1]
      /\ \A i \in DOMAIN Tail(ledger.queue) :
           /\ i \in Nat \ {0} /\ i + 1 \in DOMAIN ledger.queue
           /\ Tail(ledger.queue)[i] = ledger.queue[i + 1]
  BY <1>1, <1>3 DEF Oldest
<1>5. \A who : Absent(ledger.queue, who) => Absent(Tail(ledger.queue), who)
  BY <1>4 DEF Absent
<1>6. ASSUME Oldest.who \in {"tail", "cancel", "finish"}, NEW i \in DOMAIN Tail(ledger.queue),
             Tail(ledger.queue)[i].who = Oldest.who
      PROVE  FALSE
  <2>1. i + 1 = 1
    BY <1>1, <1>4, <1>6 DEF Waiting, OneFinish
  <2> QED
    BY <1>4, <1>6, <2>1
<1> QED
  BY <1>5, <1>6 DEF Absent

(* The waiting of one step: b is the ledger, answered or not, and who asks *)
(* for one operation more.                                                 *)
LEMMA Waits ==
  ASSUME Inv, NEW b \in LedgerRecord, NEW who,
         b.queue = ledger.queue \/ (ledger.queue # << >> /\ b.queue = Tail(ledger.queue)),
         Asks(b, ledger', who),
         Absent(b.queue, "tail") \/ handling' = handling,
         Absent(b.queue, "cancel") \/ /\ relay'.cancel = relay.cancel /\ relay'.by = relay.by
                                      /\ handling' = handling \/ handling # "cancel",
         Absent(b.queue, "finish") \/ /\ relay'.caller = relay.caller
                                      /\ handling' = handling \/ handling # "finish",
         who = "tail" => Absent(b.queue, "tail") /\ handling' \in Writing,
         who = "cancel" => /\ Absent(b.queue, "cancel") /\ relay'.cancel = "asked"
                           /\ relay'.by = "tail" => handling' = "cancel",
         who = "finish" => (relay'.caller = "tail" => handling' = "finish")
  PROVE  WaitInv'
<1>1. /\ ledger.queue \in Seq(Request) /\ Waiting(ledger.queue, relay, handling)
      /\ b.queue \in Seq(Request)
  BY Types DEF Inv, LedgerRecord, WaitInv
<1>2. ledger.queue # << >> =>
        \A i \in DOMAIN Tail(ledger.queue) :
          /\ i \in Nat /\ i + 1 \in DOMAIN ledger.queue
          /\ Tail(ledger.queue)[i] = ledger.queue[i + 1]
  BY <1>1
<1>3. Waiting(b.queue, relay, handling)
  <2>1. CASE b.queue = ledger.queue
    BY <1>1, <2>1
  <2>2. CASE ledger.queue # << >> /\ b.queue = Tail(ledger.queue)
    <3>1. \A i \in DOMAIN b.queue :
            i \in Nat /\ i + 1 \in DOMAIN ledger.queue /\ b.queue[i] = ledger.queue[i + 1]
      BY <1>2, <2>2
    <3>2. \A i, j \in DOMAIN b.queue :
            b.queue[i].who = b.queue[j].who /\ b.queue[i].who \in {"tail", "cancel"} => i = j
      <4>1. SUFFICES ASSUME NEW i \in DOMAIN b.queue, NEW j \in DOMAIN b.queue,
                            b.queue[i].who = b.queue[j].who,
                            b.queue[i].who \in {"tail", "cancel"}
                     PROVE  i = j
        OBVIOUS
      <4>2. i + 1 = j + 1
        BY <1>1, <3>1, <4>1 DEF Waiting
      <4> QED
        BY <3>1, <4>2
    <3> QED
      BY <1>1, <3>1, <3>2 DEF Waiting
  <2> QED
    BY <2>1, <2>2
<1>4. Waiting(b.queue, relay', handling')
  BY <1>3 DEF Waiting, Absent
<1>5. CASE ledger'.queue = b.queue
  BY <1>4, <1>5 DEF WaitInv
<1>6. ASSUME NEW r \in Request, r.who = who, ledger'.queue = Append(b.queue, r)
      PROVE  WaitInv'
  <2>1. \A i \in DOMAIN ledger'.queue :
          \/ i \in DOMAIN b.queue /\ ledger'.queue[i] = b.queue[i]
          \/ i = Len(b.queue) + 1 /\ ledger'.queue[i] = r
    BY <1>1, <1>6
  <2>2. Waiting(ledger'.queue, relay', handling')
    <3>1. \A i \in DOMAIN ledger'.queue :
            /\ ledger'.queue[i].who = "tail" => handling' \in Writing
            /\ ledger'.queue[i].who = "cancel" =>
                 relay'.cancel = "asked" /\ (relay'.by = "tail" => handling' = "cancel")
            /\ ledger'.queue[i].who = "finish" =>
                 (relay'.caller = "tail" => handling' = "finish")
      BY <1>4, <1>6, <2>1 DEF Waiting
    <3>2. \A i, j \in DOMAIN ledger'.queue :
            /\ ledger'.queue[i].who = ledger'.queue[j].who
            /\ ledger'.queue[i].who \in {"tail", "cancel"}
            => i = j
      BY <1>4, <1>6, <2>1 DEF Waiting, Absent
    <3> QED
      BY <3>1, <3>2 DEF Waiting
  <2> QED
    BY <2>2 DEF WaitInv
<1> QED
  BY <1>5, <1>6 DEF Asks

SameWaits == /\ relay'.cancel = relay.cancel /\ relay'.by = relay.by
             /\ relay'.caller = relay.caller

(* An answer for start(), an agent's reply or none in time.                *)
LEMMA StartWaits ==
  ASSUME Inv,
         \/ Spawn \/ InstructionLoaded \/ TurnAnnounced \/ StartRejected \/ HandleReply
         \/ \E method \in Methods : RequestTimesOut(method)
  PROVE  WaitInv'
<1>1. relay \in RelayRecord /\ ledger \in LedgerRecord /\ TypeOK
  BY Types DEF Inv
<1>2. \A r \in RelayRecord :
        /\ StartFailing(r).cancel = r.cancel /\ StartFailing(r).by = r.by
        /\ StartFailing(r).caller = r.caller
        /\ \A method \in Methods :
             /\ Sends(r, method).cancel = r.cancel /\ Sends(r, method).by = r.by
             /\ Sends(r, method).caller = r.caller
  BY DEF StartFailing, Sends, RelayRecord
<1>3. "initialize" \in Methods /\ "thread/start" \in Methods /\ "turn/start" \in Methods
  BY DEF Methods
<1>4. ASSUME NEW b \in LedgerRecord, SameWaits, handling' = handling, Asks(b, ledger', "start"),
             b.queue = ledger.queue \/ (ledger.queue # << >> /\ b.queue = Tail(ledger.queue))
      PROVE  WaitInv'
  BY <1>4, Waits DEF SameWaits
<1>5. CASE Spawn \/ InstructionLoaded \/ TurnAnnounced \/ StartRejected
  <2>1. /\ ledger.queue # << >> /\ Answered \in LedgerRecord
        /\ \A w : Asks(Answered, Answered, w)
    BY <1>5, AnswerFacts DEF Spawn, InstructionLoaded, TurnAnnounced, StartRejected, Callers
  <2>2. Answered.queue = Tail(ledger.queue)
    BY <1>1, <2>1, AnsweredFacts
  <2>3. Asks(Answered, AskFailure(Answered, relay), "start")
    BY <1>1, <2>1, StartFailingFacts
  <2>4. Asks(Answered, ledger', "start")
    BY <1>5, <2>1, <2>3 DEF Spawn, InstructionLoaded, TurnAnnounced, StartRejected
  <2>5. SameWaits
    <3>1. \/ relay' = StartFailing(relay)
          \/ \E method \in Methods : relay' = Sends(relay, method)
          \/ \E start : relay' = [relay EXCEPT !.start = start]
      BY <1>3, <1>5 DEF Spawn, InstructionLoaded, TurnAnnounced, StartRejected
    <3>2. CASE \E start : relay' = [relay EXCEPT !.start = start]
      BY <1>1, <3>2 DEF SameWaits, RelayRecord
    <3> QED
      BY <1>1, <1>2, <3>1, <3>2 DEF SameWaits
  <2>6. handling' = handling
    BY <1>5 DEF Spawn, InstructionLoaded, TurnAnnounced, StartRejected
  <2> QED
    BY <1>4, <2>1, <2>2, <2>4, <2>5, <2>6
<1>6. CASE HandleReply
  <2> DEFINE answered == [relay EXCEPT !.pending = @ \ {Task.method}]
  <2>1. /\ answered \in RelayRecord /\ answered.cancel = relay.cancel /\ answered.by = relay.by
        /\ answered.caller = relay.caller /\ answered.start = relay.start
    BY <1>1, DroppedFacts
  <2>2. /\ Task.method \in Methods /\ Task.good \in BOOLEAN
        /\ handling' = "ready" /\ handling = "ready"
    BY <1>1, <1>6, BeginsFacts DEF HandleReply, TaskOver
  <2>3. \/ relay.start \in Methods /\ StartGoesOn(answered, Task.good)
        \/ relay' = answered /\ ledger' = ledger
    BY <1>6, <2>2 DEF HandleReply
  <2> HIDE DEF answered
  <2>4. Asks(ledger, ledger', "start")
    <3>1. Asks(ledger, ledger, "start")
      BY <1>1 DEF Asks
    <3>2. CASE relay.start \in Methods /\ StartGoesOn(answered, Task.good)
      BY <1>1, <2>1, <2>2, <3>2, StartGoesOnFacts
    <3> QED
      BY <2>3, <3>1, <3>2
  <2>5. SameWaits
    <3>1. CASE StartGoesOn(answered, Task.good)
      <4>1. \/ relay' = StartFailing(answered)
            \/ \E method \in Methods : relay' = Sends(answered, method)
            \/ \E start : relay' = [answered EXCEPT !.start = start]
            \/ \E start : relay' = [answered EXCEPT !.start = start, !.duration = "armed"]
        BY <1>3, <3>1 DEF StartGoesOn
      <4>2. CASE \/ \E start : relay' = [answered EXCEPT !.start = start]
                 \/ \E start : relay' = [answered EXCEPT !.start = start, !.duration = "armed"]
        BY <2>1, <4>2 DEF SameWaits, RelayRecord
      <4>3. CASE relay' = StartFailing(answered)
        BY <1>2, <2>1, <4>3 DEF SameWaits
      <4>4. CASE \E method \in Methods : relay' = Sends(answered, method)
        BY <1>2, <2>1, <4>4 DEF SameWaits
      <4> QED
        BY <4>1, <4>2, <4>3, <4>4
    <3> QED
      BY <2>1, <2>3, <3>1 DEF SameWaits
  <2> QED
    BY <1>1, <1>4, <2>2, <2>4, <2>5
<1>7. ASSUME NEW method \in Methods, RequestTimesOut(method) PROVE WaitInv'
  <2> DEFINE dropped == [relay EXCEPT !.pending = @ \ {method}]
  <2>1. /\ dropped \in RelayRecord /\ dropped.cancel = relay.cancel /\ dropped.by = relay.by
        /\ dropped.caller = relay.caller
    BY <1>1, DroppedFacts
  <2>2. \/ relay' = StartFailing(dropped) /\ ledger' = AskFailure(ledger, dropped)
        \/ relay' = dropped /\ ledger' = ledger
    BY <1>7 DEF RequestTimesOut
  <2>3. handling' = handling
    BY <1>7 DEF RequestTimesOut
  <2> HIDE DEF dropped
  <2>4. Asks(ledger, ledger, "start") /\ Asks(ledger, AskFailure(ledger, dropped), "start")
    <3>1. Asks(ledger, ledger, "start")
      BY <1>1 DEF Asks
    <3> QED
      BY <1>1, <2>1, <3>1, StartFailingFacts
  <2>5. SameWaits /\ Asks(ledger, ledger', "start")
    BY <1>2, <2>1, <2>2, <2>4 DEF SameWaits
  <2> QED
    BY <1>1, <1>4, <2>3, <2>5
<1> QED
  BY <1>5, <1>6, <1>7

(* A cancel is called, or its grace period is over.                        *)
LEMMA CancelWaits ==
  ASSUME Inv, UserCancels \/ DurationPasses \/ (Shutdown /\ ~Exit("down"))
  PROVE  WaitInv'
<1>1. relay \in RelayRecord /\ ledger \in LedgerRecord
  BY Types DEF Inv
<1>2. handling' = handling
  BY DEF UserCancels, DurationPasses, Shutdown
<1>3. Asks(ledger, Ask(ledger, "cancel", "append", 0), "cancel") /\ Asks(ledger, ledger, "start")
  <2>1. Asks(ledger, ledger, "start")
    BY <1>1 DEF Asks
  <2> QED
    BY <1>1, <2>1, AskFacts DEF Callers, Operations
<1>4. CASE SameWaits /\ ledger' = ledger
  BY <1>1, <1>2, <1>3, <1>4, Waits DEF SameWaits
<1>5. ASSUME NEW by \in {"user", "duration", "shutdown"}, relay.cancel = "no",
             relay'.cancel = "asked", relay'.by = by, relay'.caller = relay.caller,
             ledger' = Ask(ledger, "cancel", "append", 0)
      PROVE  WaitInv'
  <2>1. Absent(ledger.queue, "cancel")
    BY <1>5, AbsentFacts
  <2>2. Asks(ledger, ledger', "cancel")
    BY <1>3, <1>5
  <2> QED
    BY <1>1, <1>2, <1>5, <2>1, <2>2, Waits
<1>6. \A by \in {"user", "duration", "shutdown"} :
        LET c == Cancelling(relay, by) IN
        /\ c \in RelayRecord /\ c.cancel = "asked" /\ c.by = by /\ c.caller = relay.caller
  BY <1>1, CancellingFacts
<1>7. CASE UserCancels
  BY <1>5, <1>6, <1>7 DEF UserCancels, MayCancel
<1>8. CASE DurationPasses
  <2>1. CASE MayCancel(relay)
    <3> DEFINE c == Cancelling(relay, "duration")
    <3>1. /\ c \in RelayRecord /\ c.cancel = "asked" /\ c.by = "duration"
          /\ c.caller = relay.caller
      BY <1>6
    <3>2. relay' = [c EXCEPT !.duration = "off"] /\ ledger' = Ask(ledger, "cancel", "append", 0)
      BY <1>8, <2>1 DEF DurationPasses
    <3> HIDE DEF c
    <3>3. relay'.cancel = "asked" /\ relay'.by = "duration" /\ relay'.caller = relay.caller
      BY <3>1, <3>2 DEF RelayRecord
    <3> QED
      BY <1>5, <2>1, <3>2, <3>3 DEF MayCancel
  <2>2. CASE ~MayCancel(relay)
    BY <1>1, <1>4, <1>8, <2>2 DEF DurationPasses, SameWaits, RelayRecord
  <2> QED
    BY <2>1, <2>2
<1>9. CASE Shutdown /\ ~Exit("down")
  BY <1>5, <1>6, <1>9 DEF Shutdown, MayCancel
<1> QED
  BY <1>7, <1>8, <1>9

LEMMA ExitWaits ==
  ASSUME NEW how, Exit(how), ledger \in LedgerRecord
  PROVE  WaitInv'
<1>1. ledger'.queue = << >>
  BY DEF Exit, LedgerRecord
<1> QED
  BY <1>1 DEF WaitInv, Waiting

LEMMA CancelAnsweredWaits ==
  ASSUME Inv, InterruptRequested \/ CancelRejected
  PROVE  WaitInv'
<1>1. relay \in RelayRecord /\ ledger \in LedgerRecord /\ TypeOK
  BY Types DEF Inv
<1>2. /\ ledger.queue # << >> /\ Oldest.who = "cancel" /\ Answered \in LedgerRecord
      /\ \A w : Asks(Answered, Answered, w)
  BY AnswerFacts DEF InterruptRequested, CancelRejected, Callers
<1>3. relay.by = "tail" => handling = "cancel"
  BY <1>2, CallerFacts
<1>4. Answered.queue = Tail(ledger.queue) /\ Absent(Answered.queue, "cancel")
  BY <1>1, <1>2, AnsweredFacts, AbsentFacts
<1>5. CASE \E how \in {"down", "crashed"} : Exit(how)
  BY <1>1, <1>5, ExitWaits
<1>6. CASE /\ \E c \in {"armed", "refused"} : relay' = [relay EXCEPT !.cancel = c]
           /\ ledger' = Answered /\ CallerOfCancelGoesOn
  <2>1. relay'.caller = relay.caller
    BY <1>1, <1>6 DEF RelayRecord
  <2>2. handling' = handling \/ (handling = "cancel" /\ handling' = "ready")
    BY <1>3, <1>6 DEF CallerOfCancelGoesOn
  <2>3. handling = "cancel" => Absent(Answered.queue, "tail")
    BY <1>2, <1>4, AbsentFacts DEF Writing
  <2>4. Asks(Answered, ledger', "start")
    BY <1>2, <1>6
  <2> QED
    BY <1>2, <1>4, <2>1, <2>2, <2>3, <2>4, Waits
<1> QED
  BY <1>5, <1>6 DEF InterruptRequested, CancelRejected

(* The child speaks, or a task of the tail begins.                         *)
LEMMA TaskWaitsBegin ==
  ASSUME Inv,
         \/ \E method \in Methods, good \in BOOLEAN : AgentReplies(method, good)
         \/ AgentNotifies \/ AgentExits
         \/ \E n \in Consumptions : AgentUses(n)
         \/ HandleNote \/ HandleUsage \/ HandleEnd
  PROVE  WaitInv'
<1>1. relay \in RelayRecord /\ ledger \in LedgerRecord /\ TypeOK
  BY Types DEF Inv
<1>2. Asks(ledger, ledger, "start")
  BY <1>1 DEF Asks
<1>3. CASE /\ \/ \E method \in Methods, good \in BOOLEAN : AgentReplies(method, good)
              \/ AgentNotifies \/ AgentExits
              \/ \E n \in Consumptions : AgentUses(n)
  <2>1. relay' = relay /\ ledger' = ledger /\ handling' = handling
    BY <1>3 DEF AgentReplies, AgentNotifies, AgentExits, AgentUses
  <2> QED
    BY <1>1, <1>2, <2>1, Waits
<1>4. CASE HandleNote \/ HandleUsage \/ HandleEnd
  <2>1. handling = "ready"
    BY <1>1, <1>4, BeginsFacts DEF HandleNote, HandleUsage, HandleEnd
  <2>2. Absent(ledger.queue, "tail")
    BY <2>1, AbsentFacts DEF Writing
  <2>3. SameWaits
    BY <1>1, <1>4 DEF HandleNote, HandleUsage, HandleEnd, SameWaits, RelayRecord
  <2>4. \A op \in Operations, n \in Nat : Asks(ledger, Ask(ledger, "tail", op, n), "tail")
    BY <1>1, AskFacts DEF Callers
  <2>5. {"append", "gap", "usage"} \subseteq Operations /\ 0 \in Nat
    BY DEF Operations
  <2>6. \/ ledger' = ledger /\ handling' = "ready"
        \/ Asks(ledger, ledger', "tail") /\ handling' \in Writing
    <3>1. CASE HandleNote
      BY <2>4, <2>5, <3>1 DEF HandleNote, TaskWaits, TaskOver, Writing
    <3>2. CASE HandleUsage
      <4>1. UsageDelta(Task.count, relay.base) \in Nat \cup {None}
        <5>1. relay.base \in Nat \cup {None} /\ Task.count \in Nat
          BY <1>1, <3>2, BeginsFacts DEF RelayRecord, HandleUsage
        <5> QED
          BY <5>1 DEF UsageDelta
      <4> QED
        BY <2>4, <2>5, <3>2, <4>1 DEF HandleUsage, TaskWaits, Writing
    <3>3. CASE HandleEnd
      BY <2>4, <2>5, <3>3 DEF HandleEnd, TaskWaits, TaskOver, Writing
    <3> QED
      BY <1>4, <3>1, <3>2, <3>3
  <2> QED
    BY <1>1, <1>2, <2>1, <2>2, <2>3, <2>6, Waits DEF SameWaits
<1> QED
  BY <1>3, <1>4

(* The tail's task is answered.                                            *)
LEMMA TailAnsweredWaits ==
  ASSUME Inv, NoteWritten \/ GapWritten \/ UsageRecorded \/ OverrunRecorded \/ TailRejected
  PROVE  WaitInv'
<1>1. relay \in RelayRecord /\ ledger \in LedgerRecord /\ TypeOK
  BY Types DEF Inv
<1>2. /\ ledger.queue # << >> /\ Oldest.who = "tail" /\ Answered \in LedgerRecord
      /\ \A w : Asks(Answered, Answered, w)
  BY AnswerFacts DEF NoteWritten, GapWritten, UsageRecorded, OverrunRecorded, TailRejected, Callers
<1>3. handling \in Writing /\ handling # "cancel" /\ handling # "finish"
  BY <1>2, CallerFacts DEF Writing
<1>4. Answered.queue = Tail(ledger.queue) /\ Absent(Answered.queue, "tail")
  BY <1>1, <1>2, AnsweredFacts, AbsentFacts
<1>5. ASSUME SameWaits, NEW b \in LedgerRecord, b.queue = Answered.queue,
             \/ ledger' = b
             \/ ledger' = Ask(b, "tail", "append", 0) /\ handling' \in Writing
      PROVE  WaitInv'
  <2>1. Asks(b, b, "start") /\ Asks(b, Ask(b, "tail", "append", 0), "tail")
    <3>1. Asks(b, b, "start")
      BY DEF Asks
    <3> QED
      BY <3>1, AskFacts DEF Callers, Operations
  <2> QED
    BY <1>2, <1>3, <1>4, <1>5, <2>1, Waits DEF SameWaits
<1>6. CASE NoteWritten
  BY <1>2, <1>3, <1>5, <1>6 DEF NoteWritten, SameWaits
<1>7. CASE GapWritten
  <2>1. Explained(Answered) \in LedgerRecord /\ Explained(Answered).queue = Answered.queue
    BY <1>2 DEF Explained, LedgerRecord
  <2> QED
    BY <1>5, <1>7, <2>1 DEF GapWritten, SameWaits
<1>8. CASE UsageRecorded
  <2> DEFINE total == Answered.total + Oldest.tokens
             counted == [Answered EXCEPT !.total = total, !.usage = "known"]
  <2>1. total \in Nat
    <3>1. Oldest \in Request /\ Answered.total \in Nat
      BY <1>1, <1>2, AnsweredFacts DEF LedgerRecord
    <3> QED
      BY <3>1 DEF Request
  <2>2. \/ ledger' = Ask(counted, "tail", "append", 0) /\ TaskWaits("overrun")
        \/ ledger' = counted /\ TaskOver
    BY <1>8 DEF UsageRecorded
  <2> HIDE DEF total
  <2>3. counted \in LedgerRecord /\ counted.queue = Answered.queue
    BY <1>2, <2>1 DEF LedgerRecord
  <2> HIDE DEF counted
  <2>4. SameWaits
    BY <1>8 DEF UsageRecorded, SameWaits
  <2> QED
    BY <1>5, <2>2, <2>3, <2>4 DEF TaskWaits, Writing
<1>9. CASE OverrunRecorded
  <2>1. CASE MayCancel(relay)
    <3>1. /\ relay'.cancel = "asked" /\ relay'.by = "tail" /\ relay'.caller = relay.caller
          /\ handling' = "cancel" /\ ledger' = Ask(Answered, "cancel", "append", 0)
      BY <1>1, <1>9, <2>1, CancellingFacts DEF OverrunRecorded, TaskWaits
    <3>2. Absent(Answered.queue, "cancel")
      BY <1>2, <1>4, <2>1, AbsentFacts DEF MayCancel
    <3>3. Asks(Answered, ledger', "cancel")
      BY <1>2, <3>1, AskFacts DEF Callers, Operations
    <3> QED
      BY <1>2, <1>3, <1>4, <3>1, <3>2, <3>3, Waits
  <2>2. CASE ~MayCancel(relay)
    BY <1>2, <1>5, <1>9, <2>2 DEF OverrunRecorded, SameWaits
  <2> QED
    BY <2>1, <2>2
<1>10. CASE TailRejected
  BY <1>2, <1>5, <1>10 DEF TailRejected, SameWaits
<1> QED
  BY <1>6, <1>7, <1>8, <1>9, <1>10

(* A finish begins, unless another one had.                                *)
LEMMA BeginningWaits ==
  ASSUME Inv, StartFailed \/ GracePasses \/ EndRecorded
  PROVE  WaitInv'
<1>1. relay \in RelayRecord /\ ledger \in LedgerRecord /\ TypeOK
  BY Types DEF Inv
<1>2. ASSUME ~relay.terminal, NEW b \in LedgerRecord,
             b.queue = ledger.queue \/ (ledger.queue # << >> /\ b.queue = Tail(ledger.queue)),
             NEW caller \in {"start", "tail", "timer"}, NEW state,
             relay' = Finishing(relay, caller, state), ledger' = AskEnding(b),
             \/ handling' = handling /\ caller # "tail"
             \/ handling \in {"turn", "fail"} /\ handling' = "finish" /\ Absent(b.queue, "tail")
      PROVE  WaitInv'
  <2>1. /\ relay'.by = relay.by /\ relay'.caller = caller
        /\ relay.cancel # "armed" => relay'.cancel = relay.cancel
    BY <1>1, <1>2 DEF Finishing, RelayRecord
  <2>2. Absent(b.queue, "finish")
    <3>1. relay.finish = "no"
      BY <1>2 DEF Inv, FinishInv
    <3> QED
      BY <1>2, <3>1, AbsentFacts
  <2>3. relay.cancel = "armed" => Absent(b.queue, "cancel")
    BY <1>2, AbsentFacts
  <2>4. Asks(b, ledger', "finish")
    BY <1>2, AskEndingFacts DEF Asks
  <2> QED
    BY <1>2, <2>1, <2>2, <2>3, <2>4, Waits
<1>3. CASE StartFailed
  <2>1. /\ ledger.queue # << >> /\ Answered \in LedgerRecord
        /\ (\A w : Asks(Answered, Answered, w)) /\ handling' = handling
    BY <1>3, AnswerFacts DEF StartFailed, Callers
  <2>2. Answered.queue = Tail(ledger.queue)
    BY <1>1, <2>1, AnsweredFacts
  <2>3. CASE relay.terminal
    <3>1. SameWaits /\ ledger' = Answered
      BY <1>1, <1>3, <2>3 DEF StartFailed, SameWaits, RelayRecord
    <3>2. Asks(Answered, ledger', "start")
      BY <2>1, <3>1
    <3> QED
      BY <2>1, <2>2, <3>1, <3>2, Waits DEF SameWaits
  <2>4. CASE ~relay.terminal
    BY <1>2, <1>3, <2>1, <2>2, <2>4 DEF StartFailed
  <2> QED
    BY <2>3, <2>4
<1>4. CASE GracePasses
  <2>1. relay.cancel = "armed" /\ handling' = handling
    BY <1>4 DEF GracePasses
  <2>2. CASE relay.terminal
    <3>1. relay'.by = relay.by /\ relay'.caller = relay.caller /\ ledger' = ledger
      BY <1>1, <1>4, <2>2 DEF GracePasses, RelayRecord
    <3>2. Absent(ledger.queue, "cancel") /\ Asks(ledger, ledger', "start")
      BY <1>1, <2>1, <3>1, AbsentFacts DEF Asks
    <3> QED
      BY <1>1, <2>1, <3>1, <3>2, Waits
  <2>3. CASE ~relay.terminal
    BY <1>1, <1>2, <1>4, <2>1, <2>3 DEF GracePasses
  <2> QED
    BY <2>2, <2>3
<1>5. CASE EndRecorded
  <2>1. /\ ledger.queue # << >> /\ Oldest.who = "tail" /\ Answered \in LedgerRecord
        /\ \A w : Asks(Answered, Answered, w)
    BY <1>5, AnswerFacts DEF EndRecorded, Callers
  <2>2. Answered.queue = Tail(ledger.queue) /\ Absent(Answered.queue, "tail")
    BY <1>1, <2>1, AnsweredFacts, AbsentFacts
  <2>3. handling \in {"turn", "fail"}
    BY <1>5 DEF EndRecorded
  <2>4. CASE relay.terminal
    <3>1. relay' = relay /\ Asks(Answered, ledger', "start")
      BY <1>5, <2>1, <2>4 DEF EndRecorded
    <3> QED
      BY <2>1, <2>2, <2>3, <3>1, Waits
  <2>5. CASE ~relay.terminal
    BY <1>2, <1>5, <2>1, <2>2, <2>3, <2>5 DEF EndRecorded, TaskWaits
  <2> QED
    BY <2>4, <2>5
<1> QED
  BY <1>3, <1>4, <1>5

LEMMA FinishAnsweredWaits ==
  ASSUME Inv, FinishGoesOn \/ FinishRejected
  PROVE  WaitInv'
<1>1. relay \in RelayRecord /\ ledger \in LedgerRecord /\ TypeOK
  BY Types DEF Inv
<1>2. /\ ledger.queue # << >> /\ Oldest.who = "finish" /\ Answered \in LedgerRecord
      /\ \A w : Asks(Answered, Answered, w)
  BY AnswerFacts DEF FinishGoesOn, FinishRejected, Callers
<1>3. /\ relay.caller = "tail" => handling = "finish"
      /\ relay.state \in Terminal
  BY <1>2, CallerFacts, OldestFinish
<1>4. Answered.queue = Tail(ledger.queue) /\ Absent(Answered.queue, "finish")
  BY <1>1, <1>2, AnsweredFacts, AbsentFacts
<1>5. handling = "finish" => Absent(Answered.queue, "tail")
  BY <1>2, <1>4, AbsentFacts DEF Writing
<1>6. \A how \in {"done", "lost"} :
        /\ Finished(relay, how).cancel = relay.cancel /\ Finished(relay, how).by = relay.by
        /\ Finished(relay, how).caller = relay.caller
  BY <1>1, FinishedFacts
<1>7. CallerOfFinishGoesOn(relay) =>
        handling' = handling \/ (handling = "finish" /\ handling' = "ready")
  BY <1>3 DEF CallerOfFinishGoesOn, TaskOver
<1>8. CASE FinishGoesOn /\ Oldest.op # "save"
  <2>1. Ending("finish", relay.state) /\ relay' = relay /\ handling' = handling
    BY <1>8 DEF FinishGoesOn
  <2>2. /\ ledger' \in LedgerRecord
        /\ \E r \in Request : r.who = "finish" /\ ledger'.queue = Append(Answered.queue, r)
    BY <1>1, <1>2, <1>3, <1>4, <1>8, <2>1, EndingFacts DEF Callers
  <2> DEFINE b == [Answered EXCEPT !.state = ledger'.state, !.endings = ledger'.endings]
  <2>3. /\ b \in LedgerRecord /\ b.queue = Answered.queue /\ b.state = ledger'.state
        /\ b.endings = ledger'.endings
    BY <1>2, <2>2 DEF LedgerRecord
  <2> HIDE DEF b
  <2>4. Asks(b, ledger', "finish")
    BY <2>2, <2>3 DEF Asks
  <2>5. relay'.caller = "tail" => handling' = "finish"
    BY <1>3, <2>1
  <2> QED
    BY <1>2, <1>4, <2>1, <2>3, <2>4, <2>5, Waits
<1>9. CASE FinishGoesOn /\ Oldest.op = "save"
  <2>1. /\ Ending("finish", relay.state) /\ relay' = Finished(relay, "done")
        /\ CallerOfFinishGoesOn(relay)
    BY <1>9 DEF FinishGoesOn
  <2>2. ledger' \in LedgerRecord /\ ledger'.queue = Answered.queue
    BY <1>1, <1>2, <1>3, <1>4, <1>9, <2>1, EndingFacts DEF Callers
  <2> DEFINE b == [Answered EXCEPT !.state = ledger'.state, !.endings = ledger'.endings]
  <2>3. /\ b \in LedgerRecord /\ b.queue = Answered.queue /\ b.state = ledger'.state
        /\ b.endings = ledger'.endings
    BY <1>2, <2>2 DEF LedgerRecord
  <2> HIDE DEF b
  <2>4. Asks(b, ledger', "start")
    BY <2>2, <2>3 DEF Asks
  <2>5. relay'.cancel = relay.cancel /\ relay'.by = relay.by /\ relay'.caller = relay.caller
    BY <1>6, <2>1
  <2> QED
    BY <1>2, <1>4, <1>5, <1>7, <2>1, <2>3, <2>4, <2>5, Waits
<1>10. CASE FinishRejected /\ relay.caller = "timer"
  BY <1>1, <1>10, ExitWaits DEF FinishRejected
<1>11. CASE FinishRejected /\ relay.caller # "timer"
  <2>1. ledger' = Answered /\ relay' = Finished(relay, "lost") /\ CallerOfFinishGoesOn(relay)
    BY <1>11 DEF FinishRejected
  <2>2. relay'.cancel = relay.cancel /\ relay'.by = relay.by /\ relay'.caller = relay.caller
    BY <1>6, <2>1
  <2>3. Asks(Answered, ledger', "start")
    BY <1>2, <2>1
  <2> QED
    BY <1>2, <1>4, <1>5, <1>7, <2>1, <2>2, <2>3, Waits
<1> QED
  BY <1>8, <1>9, <1>10, <1>11

LEMMA HttpWaits ==
  ASSUME Inv, HttpStep
  PROVE  WaitInv'
<1> DEFINE rest == IF ledger.queue # << >> /\ http # "no" THEN Tail(ledger.queue) ELSE ledger.queue
<1>1. ledger \in LedgerRecord /\ TypeOK /\ ledger.queue \in Seq(Request)
  BY Types DEF Inv, LedgerRecord
<1>2. rest \in Seq(Request)
  BY <1>1
<1>3. rest = ledger.queue \/ (ledger.queue # << >> /\ rest = Tail(ledger.queue))
  OBVIOUS
<1>4. /\ ledger' \in LedgerRecord /\ relay' = relay /\ handling' = handling
      /\ ledger'.queue = rest \/ \E r \in Request : r.who = "http" /\ ledger'.queue = Append(rest, r)
  BY DEF HttpStep
<1> HIDE DEF rest
<1> DEFINE b == [ledger' EXCEPT !.queue = rest]
<1>5. /\ b \in LedgerRecord /\ b.queue = rest /\ b.state = ledger'.state
      /\ b.endings = ledger'.endings
  BY <1>2, <1>4 DEF LedgerRecord
<1> HIDE DEF b
<1>6. Asks(b, ledger', "http")
  BY <1>4, <1>5 DEF Asks
<1> QED
  BY <1>3, <1>4, <1>5, <1>6, Waits

-----------------------------------------------------------------------------
LEMMA InitInv == Init => Inv
<1>1. SUFFICES ASSUME Init PROVE Inv
  OBVIOUS
<1> DEFINE start == [queue |-> << >>, state |-> "running", usage |-> "unknown", total |-> 0,
                     endings |-> 0]
           asked == [who |-> "start", op |-> "append", tokens |-> 0]
<1>2. start \in LedgerRecord /\ start.queue = << >> /\ start.state = "running" /\ start.endings = 0
  BY DEF LedgerRecord
<1>3. ledger = Ask(start, "start", "append", 0)
  BY <1>1 DEF Init
<1> HIDE DEF start
<1>4. /\ ledger \in LedgerRecord /\ ledger.queue = Append(<< >>, asked)
      /\ ledger.state = "running" /\ ledger.endings = 0
  BY <1>2, <1>3, AskFacts DEF Callers, Operations
<1>5. asked \in Request /\ asked.who = "start"
  BY DEF Request, Callers, Operations
<1> HIDE DEF asked
<1>6. /\ ledger.queue # << >> /\ Head(ledger.queue) = asked
      /\ \A i \in DOMAIN ledger.queue : ledger.queue[i].who = "start"
  BY <1>4, <1>5
<1>7. /\ relay \in RelayRecord /\ relay.start = "announcing" /\ ~relay.terminal
      /\ relay.finish = "no" /\ relay.cancel = "no" /\ relay.state \notin Terminal
  BY <1>1 DEF Init, RelayRecord, Starting, Terminal
<1>8. agent \in AgentRecord /\ agent.child = "none"
  BY <1>1, RelayAssumption DEF Init, AgentRecord
<1>9. /\ tail = << >> /\ tail \in Seq(Tasks) /\ handling = "ready" /\ owned = TRUE
      /\ http = "no" /\ host = "up" /\ faults \in 0 .. MaxFaults
  BY <1>1, RelayAssumption DEF Init
<1>10. TypeOK /\ TailInv
  BY <1>4, <1>7, <1>8, <1>9, Types DEF TailInv, Handlings
<1>11. AnnounceInv /\ FinishedAgentStopped
  BY <1>5, <1>6, <1>7, <1>8 DEF AnnounceInv, FinishedAgentStopped
<1>12. FinishInv /\ EndingInv
  BY <1>4, <1>5, <1>6, <1>7, <1>9 DEF FinishInv, EndingInv, OneFinish
<1>13. WaitInv
  <2>1. Len(ledger.queue) = 1
    BY <1>4, <1>5
  <2> QED
    BY <1>4, <1>6, <2>1 DEF WaitInv, Waiting
<1> QED
  BY <1>10, <1>11, <1>12, <1>13 DEF Inv

LEMMA StepInv == Inv /\ [Next]_vars => Inv'
<1>1. SUFFICES ASSUME Inv, [Next]_vars PROVE Inv'
  OBVIOUS
<1>2. ASSUME TypeOK' /\ TailInv', Endings', WaitInv' PROVE Inv'
  BY <1>2 DEF Inv, Endings
<1>3. CASE UNCHANGED vars
  BY <1>1, <1>3 DEF vars, Inv, TypeOK, RelayTypeOK, AgentTypeOK, LedgerTypeOK, TailInv, AnnounceInv,
     FinishedAgentStopped, FinishInv, EndingInv, WaitInv
<1>4. CASE Spawn
  BY <1>1, <1>2, <1>4, SpawnStep, QuietKeeps, StartWaits
<1>5. CASE InstructionLoaded \/ TurnAnnounced
  BY <1>1, <1>2, <1>5, StartAnsweredStep, QuietKeeps, StartWaits
<1>6. CASE StartRejected
  BY <1>1, <1>2, <1>6, StartRejectedStep, QuietKeeps, StartWaits
<1>7. CASE StartFailed
  BY <1>1, <1>2, <1>7, StartFailedStep, QuietKeeps, BeginningKeeps, BeginningWaits
<1>8. CASE InterruptRequested \/ CancelRejected
  BY <1>1, <1>2, <1>8, CancelAnsweredStep, QuietKeeps, CancelAnsweredWaits
<1>9. CASE NoteWritten \/ GapWritten \/ UsageRecorded \/ OverrunRecorded \/ TailRejected
  BY <1>1, <1>2, <1>9, TailAnsweredStep, QuietKeeps, TailAnsweredWaits
<1>10. CASE EndRecorded
  BY <1>1, <1>2, <1>10, EndRecordedStep, QuietKeeps, BeginningKeeps, BeginningWaits
<1>11. CASE FinishGoesOn \/ FinishRejected
  BY <1>1, <1>2, <1>11, FinishAnsweredStep, QuietKeeps, AdvancingKeeps, FinishAnsweredWaits
<1>12. CASE HttpCompletes \/ HttpGoesOn \/ HttpRejected
  BY <1>1, <1>2, <1>12, HttpStepFacts, HttpKeeps, HttpWaits
<1>13. CASE HandleReply
  BY <1>1, <1>2, <1>13, HandleReplyStep, QuietKeeps, StartWaits
<1>14. CASE HandleNote \/ HandleUsage \/ HandleEnd
  BY <1>1, <1>2, <1>14, TaskBeginsStep, QuietKeeps, TaskWaitsBegin
<1>15. CASE Timeouts
  BY <1>1, <1>2, <1>15, RequestTimesOutStep, QuietKeeps, StartWaits DEF Timeouts
<1>16. CASE GracePasses
  BY <1>1, <1>2, <1>16, GracePassesStep, QuietKeeps, BeginningKeeps, BeginningWaits
<1>17. CASE UserCancels \/ DurationPasses \/ (Shutdown /\ ~Exit("down"))
  BY <1>1, <1>2, <1>17, CancelStep, QuietKeeps, CancelWaits
<1>18. CASE Shutdown /\ Exit("down")
  <2>1. faults' \in 0 .. MaxFaults /\ UNCHANGED << agent, owned, http >>
    BY <1>1, <1>18, Types DEF Shutdown, Inv
  <2>2. TypeOK' /\ TailInv' /\ QuietStep
    BY <1>1, <1>18, <2>1, ExitStep
  <2>3. ledger \in LedgerRecord
    BY <1>1, Types DEF Inv
  <2> QED
    BY <1>1, <1>2, <1>18, <2>2, <2>3, QuietKeeps, ExitWaits
<1>19. CASE \/ \E method \in Methods, good \in BOOLEAN : AgentReplies(method, good)
            \/ AgentNotifies \/ AgentExits
            \/ \E n \in Consumptions : AgentUses(n)
  BY <1>1, <1>2, <1>19, AgentStep, QuietKeeps, TaskWaitsBegin
<1> QED
  BY <1>1, <1>3, <1>4, <1>5, <1>6, <1>7, <1>8, <1>9, <1>10, <1>11, <1>12, <1>13, <1>14, <1>15,
     <1>16, <1>17, <1>18, <1>19
  DEF Next, LedgerAnswers, TailWorks, Environment

(* Types, and everything that the two theorems below rest on.              *)
THEOREM Invariance == Spec => []Inv
BY InitInv, StepInv, PTL DEF Spec

(* Whatever cancel, exit, timeout or rejection comes first, a relay that   *)
(* has finished leaves no agent running (finish(), start()).               *)
THEOREM FinishedAgentStoppedHolds == Spec => []FinishedAgentStopped
<1>1. Inv => FinishedAgentStopped
  BY DEF Inv
<1> QED
  BY <1>1, Invariance, PTL

(* A relay that is no longer registered has ended its session; unless a    *)
(* client completes the session too it gets one ending, of the finish that *)
(* came first (finish(), completeWithUsageGap(), onFinished()).            *)
THEOREM EndedByOneFinishHolds == Spec => []EndedByOneFinish
<1>1. Inv => EndedByOneFinish
  BY DEF Inv, FinishInv, EndingInv, EndedByOneFinish
<1> QED
  BY <1>1, Invariance, PTL

-----------------------------------------------------------------------------
(* What the ledger's total may count.  A report is dated by what the agent *)
(* had used when it was made.  Over time neither that nor what a report    *)
(* leaves out of it, by a restarted counter, ever decreases.               *)

(* A report of d when t was used may follow one of c when s was.           *)
Later(c, s, d, t) == s <= t /\ s - c <= t - d

Reports(t) == {i \in DOMAIN t : t[i].kind = "usage"}

Since(r) == IF r.base = None THEN 0 ELSE r.base

(* The dates of the queued reports, after that of the last one handled and *)
(* before what the agent has used by now.                                  *)
Dated(t, spent, base, paid, counter, used) ==
  /\ Later(base, paid, counter, used)
  /\ \A i \in Reports(t) : /\ Later(base, paid, t[i].count, spent[i])
                           /\ Later(t[i].count, spent[i], counter, used)
  /\ \A i, j \in Reports(t) : i < j => Later(t[i].count, spent[i], t[j].count, spent[j])

(* What is recorded, and what the task at the head is about to add, was    *)
(* used by the last report handled.                                        *)
Covers(paid, l, h) ==
  /\ l.total <= paid
  /\ h = "usage" =>
       \A i \in DOMAIN l.queue : l.queue[i].who = "tail" => l.total + l.queue[i].tokens <= paid

ReportInv ==
  /\ ledger.total <= agent.used
  /\ Alive => \E paid \in 0 .. agent.used, spent \in [DOMAIN tail -> 0 .. agent.used] :
       /\ Dated(tail, spent, Since(relay), paid, agent.counter, agent.used)
       /\ Covers(paid, ledger, handling)

(* The dates of what is left of the queue, whatever is said or dropped     *)
(* that is not a report.                                                   *)
Dates(t, base, paid, counter, used) ==
  \E spent \in [DOMAIN t -> 0 .. used] : Dated(t, spent, base, paid, counter, used)

LEMMA DatesOfRest ==
  ASSUME NEW t \in Seq(Tasks), t # << >>, NEW base \in Nat, NEW paid \in Nat,
         NEW counter \in Nat, NEW used \in Nat, Dates(t, base, paid, counter, used)
  PROVE  Dates(Tail(t), base, paid, counter, used)
<1>1. PICK spent \in [DOMAIN t -> 0 .. used] : Dated(t, spent, base, paid, counter, used)
  BY DEF Dates
<1> DEFINE rest == [i \in DOMAIN Tail(t) |-> spent[i + 1]]
<1>2. \A i \in DOMAIN Tail(t) : i \in Nat /\ i + 1 \in DOMAIN t /\ Tail(t)[i] = t[i + 1]
  OBVIOUS
<1>3. rest \in [DOMAIN Tail(t) -> 0 .. used]
  BY <1>2
<1>4. \A i \in Reports(Tail(t)) :
        /\ i \in Nat /\ i + 1 \in Reports(t) /\ Tail(t)[i] = t[i + 1] /\ rest[i] = spent[i + 1]
  BY <1>2 DEF Reports
<1> HIDE DEF rest
<1>5. \A i, j \in Reports(Tail(t)) : i < j => i + 1 < j + 1
  BY <1>4
<1>6. Dated(Tail(t), rest, base, paid, counter, used)
  BY <1>1, <1>4, <1>5 DEF Dated
<1> QED
  BY <1>3, <1>6 DEF Dates

LEMMA DatesWithOther ==
  ASSUME NEW t \in Seq(Tasks), NEW task \in Tasks, task.kind # "usage", NEW base \in Nat,
         NEW paid \in Nat, NEW counter \in Nat, NEW used \in Nat,
         Dates(t, base, paid, counter, used)
  PROVE  Dates(Append(t, task), base, paid, counter, used)
<1>1. PICK spent \in [DOMAIN t -> 0 .. used] : Dated(t, spent, base, paid, counter, used)
  BY DEF Dates
<1> DEFINE more == [i \in DOMAIN Append(t, task) |-> IF i \in DOMAIN t THEN spent[i] ELSE used]
<1>2. more \in [DOMAIN Append(t, task) -> 0 .. used]
  OBVIOUS
<1>3. \A i \in DOMAIN Append(t, task) :
        \/ i \in DOMAIN t /\ Append(t, task)[i] = t[i]
        \/ Append(t, task)[i] = task
  OBVIOUS
<1>4. \A i \in Reports(Append(t, task)) :
        i \in Reports(t) /\ Append(t, task)[i] = t[i] /\ more[i] = spent[i]
  BY <1>3 DEF Reports
<1> HIDE DEF more
<1>5. Dated(Append(t, task), more, base, paid, counter, used)
  BY <1>1, <1>4 DEF Dated
<1> QED
  BY <1>2, <1>5 DEF Dates

(* A note that has written one of its events.                              *)
LEMMA DatesWhileWriting ==
  ASSUME NEW t \in Seq(Tasks), t # << >>, Head(t).kind = "note", NEW base \in Nat,
         NEW paid \in Nat, NEW counter \in Nat, NEW used \in Nat,
         Dates(t, base, paid, counter, used)
  PROVE  Dates([t EXCEPT ![1].writes = @ - 1], base, paid, counter, used)
<1> DEFINE s == [t EXCEPT ![1].writes = @ - 1]
<1>1. PICK spent \in [DOMAIN t -> 0 .. used] : Dated(t, spent, base, paid, counter, used)
  BY DEF Dates
<1>2. 1 \in DOMAIN t /\ t[1].kind = "note" /\ DOMAIN s = DOMAIN t
  OBVIOUS
<1>3. s[1].kind = "note" /\ \A i \in DOMAIN t : i # 1 => s[i] = t[i]
  BY <1>2 DEF Tasks
<1> HIDE DEF s
<1>4. \A i \in Reports(s) : i \in Reports(t) /\ s[i] = t[i]
  BY <1>2, <1>3 DEF Reports
<1>5. Dated(s, spent, base, paid, counter, used)
  BY <1>1, <1>4 DEF Dated
<1>6. Dates(s, base, paid, counter, used)
  BY <1>1, <1>2, <1>5 DEF Dates
<1> QED
  BY <1>6 DEF s

(* A report is later than those before it: a restart makes it leave out    *)
(* more, never less.                                                       *)
LEMMA DatesWithReport ==
  ASSUME NEW t \in Seq(Tasks), NEW base \in Nat, NEW paid \in Nat, NEW counter \in Nat,
         NEW used \in Nat, NEW n \in Nat, NEW c \in Nat, NEW then \in Nat,
         Dates(t, base, paid, counter, used), c = 0 \/ c = counter + n, then = used + n
  PROVE  Dates(Append(t, [kind |-> "usage", count |-> c]), base, paid, c, then)
<1> DEFINE report == [kind |-> "usage", count |-> c]
<1>1. PICK spent \in [DOMAIN t -> 0 .. used] : Dated(t, spent, base, paid, counter, used)
  BY DEF Dates
<1> DEFINE more == [i \in DOMAIN Append(t, report) |-> IF i \in DOMAIN t THEN spent[i] ELSE then]
<1>2. more \in [DOMAIN Append(t, report) -> 0 .. then]
  BY <1>1
<1>3. \A i \in DOMAIN Append(t, report) :
        \/ i \in DOMAIN t /\ i < Len(t) + 1 /\ Append(t, report)[i] = t[i] /\ more[i] = spent[i]
        \/ i = Len(t) + 1 /\ Append(t, report)[i] = report /\ more[i] = then
  OBVIOUS
<1>4. \A i \in Reports(t) : t[i].count \in Nat /\ spent[i] \in Nat
  BY <1>1 DEF Reports, Tasks
<1>5. \A d \in Int, s \in Int : Later(d, s, counter, used) => Later(d, s, c, then)
  BY DEF Later
<1>6. Later(c, then, c, then) /\ Later(base, paid, c, then)
  <2>1. Later(base, paid, counter, used)
    BY <1>1 DEF Dated
  <2>2. Later(c, then, c, then)
    BY DEF Later
  <2> QED
    BY <1>5, <2>1, <2>2
<1>7. ASSUME NEW i \in Reports(t) PROVE Later(t[i].count, spent[i], c, then)
  <2>1. Later(t[i].count, spent[i], counter, used)
    BY <1>1 DEF Dated
  <2>2. t[i].count \in Int /\ spent[i] \in Int
    BY <1>4
  <2> QED
    BY <1>5, <2>1, <2>2
<1>8. report.count = c
  OBVIOUS
<1>9. \A i \in Reports(Append(t, report)) :
        \/ /\ i \in Reports(t) /\ i < Len(t) + 1 /\ Append(t, report)[i] = t[i]
           /\ more[i] = spent[i]
        \/ i = Len(t) + 1 /\ Append(t, report)[i].count = c /\ more[i] = then
  BY <1>3, <1>8 DEF Reports
<1> HIDE DEF more, report
<1> DEFINE longer == Append(t, report)
<1> HIDE DEF longer
<1>10. \A i \in Reports(longer) :
        \/ i \in Reports(t) /\ i < Len(t) + 1 /\ longer[i] = t[i] /\ more[i] = spent[i]
        \/ i = Len(t) + 1 /\ longer[i].count = c /\ more[i] = then
  BY <1>9 DEF longer
<1>11. \A i \in Reports(longer) : /\ Later(base, paid, longer[i].count, more[i])
                                  /\ Later(longer[i].count, more[i], c, then)
  BY <1>1, <1>6, <1>7, <1>10 DEF Dated
<1>12. ASSUME NEW i \in Reports(longer), NEW j \in Reports(longer), i < j
       PROVE  Later(longer[i].count, more[i], longer[j].count, more[j])
  <2>1. CASE j = Len(t) + 1
    <3>1. longer[j].count = c /\ more[j] = then
      BY <1>10, <2>1 DEF Reports
    <3> QED
      BY <1>11, <3>1
  <2>2. CASE j # Len(t) + 1
    <3>1. j \in Reports(t) /\ longer[j] = t[j] /\ more[j] = spent[j] /\ j < Len(t) + 1
      BY <1>10, <2>2
    <3>2. i # Len(t) + 1
      <4>1. j \in DOMAIN t /\ Len(t) \in Nat
        BY <3>1 DEF Reports
      <4>2. j \in Int /\ j <= Len(t)
        BY <4>1
      <4> QED
        BY <1>12, <4>1, <4>2
    <3>3. i \in Reports(t) /\ longer[i] = t[i] /\ more[i] = spent[i]
      BY <1>10, <3>2
    <3> QED
      BY <1>1, <1>12, <3>1, <3>3 DEF Dated
  <2> QED
    BY <2>1, <2>2
<1>13. Dated(longer, more, base, paid, c, then)
  BY <1>6, <1>11, <1>12 DEF Dated
<1> QED
  BY <1>2, <1>13 DEF Dates, longer, report

(* A report that is handled becomes the last one handled; what it adds was *)
(* used since the one before.                                              *)
LEMMA DatesWhenHandled ==
  ASSUME NEW t \in Seq(Tasks), t # << >>, Head(t).kind = "usage", NEW base \in Nat,
         NEW paid \in Nat, NEW counter \in Nat, NEW used \in Nat,
         Dates(t, base, paid, counter, used)
  PROVE  \E now \in 0 .. used :
           /\ Dates(t, Head(t).count, now, counter, used)
           /\ paid <= now /\ Head(t).count - base <= now - paid
<1>1. PICK spent \in [DOMAIN t -> 0 .. used] : Dated(t, spent, base, paid, counter, used)
  BY DEF Dates
<1>2. 1 \in DOMAIN t /\ t[1] = Head(t) /\ 1 \in Reports(t)
  BY DEF Reports
<1> DEFINE count == t[1].count
           now == spent[1]
<1>3. Later(base, paid, count, now) /\ Later(count, now, counter, used)
  BY <1>1, <1>2 DEF Dated
<1>4. count \in Nat /\ now \in 0 .. used /\ Head(t).count = count
  BY <1>1, <1>2 DEF Tasks
<1>5. \A i \in Reports(t) : i = 1 \/ 1 < i
  BY DEF Reports
<1>6. \A j \in Reports(t) : 1 < j => Later(count, now, t[j].count, spent[j])
  BY <1>1, <1>2 DEF Dated
<1> HIDE DEF count, now
<1>7. Later(count, now, count, now) /\ paid <= now /\ count - base <= now - paid
  BY <1>3, <1>4 DEF Later
<1>8. Dated(t, spent, count, now, counter, used)
  <2>1. ASSUME NEW i \in Reports(t) PROVE Later(count, now, t[i].count, spent[i])
    BY <1>5, <1>6, <1>7 DEF count, now
  <2> QED
    BY <1>1, <1>3, <2>1 DEF Dated
<1> QED
  BY <1>4, <1>7, <1>8, <1>1 DEF Dates

-----------------------------------------------------------------------------
(* l has the total of the ledger b and no new operation of the tail.       *)
SameCount(b, l) ==
  /\ l.total = b.total
  /\ \A i \in DOMAIN l.queue : l.queue[i].who = "tail" =>
       \E j \in DOMAIN b.queue : b.queue[j] = l.queue[i]

(* What the tail may do with its tasks when it takes no report.            *)
TailMoves ==
  \/ UNCHANGED tail
  \/ tail # << >> /\ tail' = Tail(tail)
  \/ \E task \in Tasks : task.kind # "usage" /\ tail' = Append(tail, task)
  \/ /\ tail # << >> /\ Head(tail).kind = "note"
     /\ tail' = [tail EXCEPT ![1].writes = @ - 1]

(* A step on which the agent uses nothing and no report is taken.          *)
CalmStep ==
  /\ agent'.counter = agent.counter /\ agent'.used = agent.used
  /\ ledger'.total = ledger.total
  /\ Alive' =>
       /\ Alive /\ relay'.base = relay.base /\ TailMoves
       /\ handling' = "usage" => handling = "usage" /\ SameCount(ledger, ledger')

LEMMA MeterTypes ==
  ASSUME TypeOK
  PROVE  /\ agent.used \in Nat /\ agent.counter \in Nat /\ ledger.total \in Nat
         /\ Since(relay) \in Nat /\ tail \in Seq(Tasks)
         /\ ledger.queue \in Seq(Request)
         /\ \A i \in DOMAIN ledger.queue : ledger.queue[i].tokens \in Nat
<1>1. /\ relay \in RelayRecord /\ agent \in AgentRecord /\ ledger \in LedgerRecord
      /\ tail \in Seq(Tasks)
  BY Types
<1>2. Since(relay) \in Nat
  BY <1>1 DEF Since, RelayRecord
<1>3. /\ agent.used \in Nat /\ agent.counter \in Nat /\ ledger.total \in Nat
      /\ ledger.queue \in Seq(Request)
  BY <1>1 DEF AgentRecord, LedgerRecord
<1>4. ASSUME NEW i \in DOMAIN ledger.queue PROVE ledger.queue[i].tokens \in Nat
  <2>1. ledger.queue[i] \in Request
    BY <1>3
  <2> QED
    BY <2>1 DEF Request
<1> QED
  BY <1>1, <1>2, <1>3, <1>4

LEMMA DatesKept ==
  ASSUME TypeOK, TailMoves, NEW base \in Nat, NEW paid \in Nat, NEW counter \in Nat,
         NEW used \in Nat, Dates(tail, base, paid, counter, used)
  PROVE  Dates(tail', base, paid, counter, used)
<1>1. tail \in Seq(Tasks)
  BY MeterTypes
<1>2. CASE UNCHANGED tail
  BY <1>2
<1>3. CASE tail # << >> /\ tail' = Tail(tail)
  BY <1>1, <1>3, DatesOfRest
<1>4. CASE \E task \in Tasks : task.kind # "usage" /\ tail' = Append(tail, task)
  BY <1>1, <1>4, DatesWithOther
<1>5. CASE /\ tail # << >> /\ Head(tail).kind = "note"
           /\ tail' = [tail EXCEPT ![1].writes = @ - 1]
  BY <1>1, <1>5, DatesWhileWriting
<1> QED
  BY <1>2, <1>3, <1>4, <1>5 DEF TailMoves

(* The invariant with the dates as one.                                    *)
LEMMA Reporting ==
  ReportInv <=>
    /\ ledger.total <= agent.used
    /\ Alive => \E paid \in 0 .. agent.used :
         /\ Dates(tail, Since(relay), paid, agent.counter, agent.used)
         /\ Covers(paid, ledger, handling)
BY DEF ReportInv, Dates

LEMMA ReportingNext ==
  ReportInv' <=>
    /\ ledger'.total <= agent'.used
    /\ Alive' => \E paid \in 0 .. agent'.used :
         /\ Dates(tail', Since(relay'), paid, agent'.counter, agent'.used)
         /\ Covers(paid, ledger', handling')
BY DEF ReportInv, Dates, Dated, Covers, Since

LEMMA CoversKept ==
  ASSUME TypeOK, NEW paid \in Nat, Covers(paid, ledger, handling),
         ledger'.total = ledger.total,
         handling' = "usage" => handling = "usage" /\ SameCount(ledger, ledger')
  PROVE  Covers(paid, ledger', handling')
<1>1. ledger'.total <= paid
  BY DEF Covers
<1>2. ASSUME handling' = "usage", NEW i \in DOMAIN ledger'.queue, ledger'.queue[i].who = "tail"
      PROVE  ledger'.total + ledger'.queue[i].tokens <= paid
  <2>1. PICK j \in DOMAIN ledger.queue : ledger.queue[j] = ledger'.queue[i]
    BY <1>2 DEF SameCount
  <2> QED
    BY <1>2, <2>1 DEF Covers
<1> QED
  BY <1>1, <1>2 DEF Covers

LEMMA CalmKeeps ==
  ASSUME Inv, ReportInv, CalmStep
  PROVE  ReportInv'
<1>1. /\ TypeOK /\ agent.used \in Nat /\ agent.counter \in Nat /\ ledger.total \in Nat
      /\ Since(relay) \in Nat
  BY MeterTypes DEF Inv
<1>2. ledger'.total <= agent'.used
  BY <1>1 DEF ReportInv, CalmStep
<1>3. ASSUME Alive'
      PROVE  \E paid \in 0 .. agent'.used :
               /\ Dates(tail', Since(relay'), paid, agent'.counter, agent'.used)
               /\ Covers(paid, ledger', handling')
  <2>1. /\ Alive /\ Since(relay') = Since(relay) /\ TailMoves
        /\ handling' = "usage" => handling = "usage" /\ SameCount(ledger, ledger')
    BY <1>3 DEF CalmStep, Since
  <2>2. PICK paid \in 0 .. agent.used :
          /\ Dates(tail, Since(relay), paid, agent.counter, agent.used)
          /\ Covers(paid, ledger, handling)
    BY <2>1, Reporting
  <2>3. paid \in Nat
    BY <1>1, <2>2
  <2>4. Dates(tail', Since(relay), paid, agent.counter, agent.used)
    BY <1>1, <2>1, <2>2, <2>3, DatesKept
  <2>5. Covers(paid, ledger', handling')
    BY <1>1, <2>1, <2>2, <2>3, CoversKept DEF CalmStep
  <2> QED
    BY <2>1, <2>2, <2>4, <2>5 DEF CalmStep
<1> QED
  BY <1>2, <1>3, ReportingNext

(* Asking leaves the total, and what the tail asked for as long as it is   *)
(* not the tail that asks.                                                 *)
LEMMA AskCounts ==
  ASSUME NEW l \in LedgerRecord, NEW who \in Callers, NEW op \in Operations, NEW n \in Nat
  PROVE  /\ Ask(l, who, op, n).total = l.total
         /\ \A b : who # "tail" /\ SameCount(b, l) => SameCount(b, Ask(l, who, op, n))
<1> DEFINE asked == Ask(l, who, op, n)
           r == [who |-> who, op |-> op, tokens |-> n]
<1>1. asked.total = l.total
  BY DEF Ask, LedgerRecord
<1>2. asked.queue = Append(l.queue, r)
  BY AskFacts
<1>3. l.queue \in Seq(Request) /\ r.who = who
  BY DEF LedgerRecord
<1> HIDE DEF asked, r
<1>4. \A i \in DOMAIN asked.queue :
        (i \in DOMAIN l.queue /\ asked.queue[i] = l.queue[i]) \/ asked.queue[i] = r
  BY <1>2, <1>3
<1>5. ASSUME NEW b, who # "tail", SameCount(b, l) PROVE SameCount(b, asked)
  BY <1>1, <1>3, <1>4, <1>5 DEF SameCount
<1> QED
  BY <1>1, <1>5 DEF asked

LEMMA AnsweredCounts ==
  ASSUME TypeOK, ledger.queue # << >>
  PROVE  SameCount(ledger, Answered)
<1>1. ledger.queue \in Seq(Request) /\ Answered.queue = Tail(ledger.queue)
      /\ Answered.total = ledger.total
  BY AnsweredFacts, MeterTypes
<1>2. \A i \in DOMAIN Tail(ledger.queue) :
        i + 1 \in DOMAIN ledger.queue /\ Tail(ledger.queue)[i] = ledger.queue[i + 1]
  BY <1>1
<1> QED
  BY <1>1, <1>2 DEF SameCount

LEMMA UnaskedCounts == SameCount(ledger, ledger)
BY DEF SameCount

(* What start() and finish() do to the record of the relay.                *)
LEMMA BaseFacts ==
  ASSUME NEW r \in RelayRecord
  PROVE  /\ \A method : Sends(r, method).base = r.base
         /\ StartFailing(r).base = r.base
         /\ \A caller, state : Finishing(r, caller, state).base = r.base
         /\ \A by : Cancelling(r, by).base = r.base
         /\ \A how : Finished(r, how).base = r.base
         /\ \A method : [r EXCEPT !.pending = @ \ {method}].base = r.base
BY DEF RelayRecord, Sends, StartFailing, Finishing, Cancelling, Finished

(* Everything start() asks of the ledger.                                  *)
LEMMA FailureCounts ==
  ASSUME NEW b, NEW l \in LedgerRecord, NEW r, SameCount(b, l)
  PROVE  SameCount(b, AskFailure(l, r))
BY AskCounts DEF AskFailure, Callers, Operations

LEMMA EndingCounts ==
  ASSUME NEW b, NEW l \in LedgerRecord, SameCount(b, l)
  PROVE  SameCount(b, AskEnding(l))
<1> DEFINE op == IF l.usage = "unknown" THEN "gap" ELSE "event"
<1>1. op \in Operations /\ "finish" \in Callers /\ 0 \in Nat
  BY DEF Operations, Callers
<1>2. AskEnding(l) = Ask(l, "finish", op, 0)
  BY DEF AskEnding
<1> HIDE DEF op
<1> QED
  BY <1>1, <1>2, AskCounts

(* A step beside the tail.                                                 *)
LEMMA BesideCalm ==
  ASSUME TypeOK, UNCHANGED << tail, handling >>, Alive' => Alive,
         relay'.base = relay.base, SameCount(ledger, ledger'),
         agent'.counter = agent.counter, agent'.used = agent.used
  PROVE  CalmStep
BY DEF CalmStep, TailMoves, SameCount

LEMMA ExitCalm ==
  ASSUME TypeOK, NEW how \in {"down", "crashed"}, Exit(how), UNCHANGED agent
  PROVE  CalmStep
<1>1. ~Alive'
  BY DEF Exit, Alive
<1>2. ledger'.total = ledger.total
  BY Types DEF Exit, LedgerRecord
<1> QED
  BY <1>1, <1>2 DEF CalmStep

LEMMA SignalledCounts ==
  ASSUME NEW a \in AgentRecord
  PROVE  Signalled(a).counter = a.counter /\ Signalled(a).used = a.used
BY DEF Signalled, AgentRecord

LEMMA StartCalm ==
  ASSUME Inv, Spawn \/ InstructionLoaded \/ TurnAnnounced \/ StartFailed \/ StartRejected
  PROVE  CalmStep
<1>1. relay \in RelayRecord /\ agent \in AgentRecord /\ TypeOK
  BY Types DEF Inv
<1>2. ledger.queue # << >> /\ Answered \in LedgerRecord
  BY AnswerFacts DEF Spawn, InstructionLoaded, TurnAnnounced, StartFailed, StartRejected, Callers
<1>3. /\ SameCount(ledger, Answered) /\ SameCount(ledger, AskFailure(Answered, relay))
      /\ SameCount(ledger, AskEnding(Answered))
  BY <1>1, <1>2, AnsweredCounts, FailureCounts, EndingCounts
<1>4. SameCount(ledger, ledger')
  BY <1>3 DEF Spawn, InstructionLoaded, TurnAnnounced, StartFailed, StartRejected
<1> DEFINE at(start) == [relay EXCEPT !.start = start]
<1>5. \A start : at(start).base = relay.base
  BY <1>1 DEF RelayRecord
<1>6. \/ \E method : relay' = Sends(relay, method)
      \/ relay' = StartFailing(relay)
      \/ relay' = Finishing(relay, "start", "failed")
      \/ \E start : relay' = at(start)
  BY DEF Spawn, InstructionLoaded, TurnAnnounced, StartFailed, StartRejected
<1> HIDE DEF at
<1>7. relay'.base = relay.base
  BY <1>1, <1>5, <1>6, BaseFacts
<1>8. agent'.counter = agent.counter /\ agent'.used = agent.used
  <2> DEFINE spawned == [agent EXCEPT !.child = "running"]
  <2>1. spawned.counter = agent.counter /\ spawned.used = agent.used
    BY <1>1 DEF AgentRecord
  <2>2. agent' = spawned \/ agent' = agent \/ agent' = Signalled(agent)
    BY DEF Spawn, InstructionLoaded, TurnAnnounced, StartFailed, StartRejected
  <2> HIDE DEF spawned
  <2> QED
    BY <1>1, <2>1, <2>2, SignalledCounts
<1>9. UNCHANGED << tail, handling, host >>
  BY DEF Spawn, InstructionLoaded, TurnAnnounced, StartFailed, StartRejected
<1>10. Alive' => Alive
  BY <1>9 DEF Alive
<1> QED
  BY <1>1, <1>4, <1>7, <1>8, <1>9, <1>10, BesideCalm

(* An ending that goes on adds no tokens.                                  *)
LEMMA EndingGoesOnCounts ==
  ASSUME TypeOK, ledger.queue # << >>, NEW who \in {"finish", "http"}, NEW state,
         Ending(who, state)
  PROVE  SameCount(ledger, ledger')
<1>1. Answered \in LedgerRecord /\ SameCount(ledger, Answered)
  BY AnsweredFacts, AnsweredCounts
<1>2. /\ "event" \in Operations /\ "save" \in Operations /\ 0 \in Nat
      /\ who \in Callers /\ who # "tail"
  BY DEF Operations, Callers
<1> DEFINE explained == Explained(Answered)
           ended == [Answered EXCEPT !.endings = @ + 1]
           stored == [Answered EXCEPT !.state = state]
<1>3. /\ explained \in LedgerRecord /\ explained.queue = Answered.queue
      /\ explained.total = Answered.total
  BY <1>1 DEF Explained, LedgerRecord
<1>4. ended \in LedgerRecord /\ ended.queue = Answered.queue /\ ended.total = Answered.total
  BY <1>1 DEF LedgerRecord
<1>5. stored.queue = Answered.queue /\ stored.total = Answered.total
  BY <1>1 DEF LedgerRecord
<1>6. \/ ledger' = Ask(explained, who, "event", 0)
      \/ ledger' = Ask(ended, who, "save", 0)
      \/ ledger' = stored
  BY DEF Ending
<1> HIDE DEF explained, ended, stored
<1>7. SameCount(ledger, explained) /\ SameCount(ledger, ended) /\ SameCount(ledger, stored)
  BY <1>1, <1>3, <1>4, <1>5 DEF SameCount
<1> QED
  BY <1>2, <1>3, <1>4, <1>6, <1>7, AskCounts

(* A cancel is asked for, or its timer passes.                             *)
LEMMA CancelCalm ==
  ASSUME Inv,
         UserCancels \/ DurationPasses \/ GracePasses \/ (Shutdown /\ ~Exit("down"))
  PROVE  CalmStep
<1>1. relay \in RelayRecord /\ agent \in AgentRecord /\ ledger \in LedgerRecord /\ TypeOK
  BY Types DEF Inv
<1>2. /\ SameCount(ledger, ledger) /\ SameCount(ledger, Ask(ledger, "cancel", "append", 0))
      /\ SameCount(ledger, AskEnding(ledger))
  BY <1>1, UnaskedCounts, AskCounts, EndingCounts DEF Callers, Operations
<1>3. SameCount(ledger, ledger')
  BY <1>2 DEF UserCancels, DurationPasses, GracePasses, Shutdown
<1> DEFINE off(r) == [r EXCEPT !.duration = "off"]
           cleared == [relay EXCEPT !.cancel = "cleared"]
<1>4. /\ cleared.base = relay.base
      /\ \A r \in RelayRecord : off(r).base = r.base
  BY <1>1 DEF RelayRecord
<1>5. \/ \E by : relay' = Cancelling(relay, by)
      \/ relay' = off(Cancelling(relay, "duration"))
      \/ relay' = off(relay) \/ relay' = cleared
      \/ relay' = Finishing(relay, "timer", "interrupted")
  BY DEF UserCancels, DurationPasses, GracePasses, Shutdown
<1>6. Cancelling(relay, "duration") \in RelayRecord
  BY <1>1, CancellingFacts
<1> HIDE DEF off, cleared
<1>7. relay'.base = relay.base
  BY <1>1, <1>4, <1>5, <1>6, BaseFacts
<1>8. agent' = agent \/ agent' = Signalled(agent)
  BY DEF UserCancels, DurationPasses, GracePasses, Shutdown
<1>9. agent'.counter = agent.counter /\ agent'.used = agent.used
  BY <1>1, <1>8, SignalledCounts
<1>10. UNCHANGED << tail, handling >> /\ (Alive' => Alive)
  BY DEF UserCancels, DurationPasses, GracePasses, Shutdown, Alive
<1> QED
  BY <1>1, <1>3, <1>7, <1>9, <1>10, BesideCalm

LEMMA TimeoutCalm ==
  ASSUME Inv, NEW method \in Methods, RequestTimesOut(method)
  PROVE  CalmStep
<1> DEFINE dropped == [relay EXCEPT !.pending = @ \ {method}]
<1>1. relay \in RelayRecord /\ ledger \in LedgerRecord /\ TypeOK
  BY Types DEF Inv
<1>2. dropped \in RelayRecord /\ dropped.base = relay.base
  BY <1>1, DroppedFacts, BaseFacts
<1>3. \/ relay' = StartFailing(dropped) /\ ledger' = AskFailure(ledger, dropped)
      \/ relay' = dropped /\ ledger' = ledger
  BY DEF RequestTimesOut
<1>4. UNCHANGED << agent, tail, handling, host >>
  BY DEF RequestTimesOut
<1> HIDE DEF dropped
<1>5. relay'.base = relay.base
  BY <1>2, <1>3, BaseFacts
<1>6. SameCount(ledger, ledger')
  BY <1>1, <1>3, UnaskedCounts, FailureCounts
<1>7. Alive' => Alive
  BY <1>4 DEF Alive
<1> QED
  BY <1>1, <1>4, <1>5, <1>6, <1>7, BesideCalm

LEMMA HttpCalm ==
  ASSUME Inv, HttpCompletes \/ HttpGoesOn \/ HttpRejected
  PROVE  CalmStep
<1>1. ledger \in LedgerRecord /\ TypeOK
  BY Types DEF Inv
<1>2. SameCount(ledger, ledger')
  <2>1. CASE HttpCompletes
    <3> DEFINE op == IF ledger.usage = "unknown" THEN "gap" ELSE "event"
    <3>1. op \in Operations /\ "http" \in Callers /\ 0 \in Nat
      BY DEF Operations, Callers
    <3>2. ledger' = Ask(ledger, "http", op, 0)
      BY <2>1 DEF HttpCompletes
    <3> HIDE DEF op
    <3> QED
      BY <1>1, <3>1, <3>2, UnaskedCounts, AskCounts
  <2>2. CASE HttpGoesOn
    BY <1>1, <2>2, EndingGoesOnCounts DEF HttpGoesOn, Grants
  <2>3. CASE HttpRejected
    BY <1>1, <2>3, AnsweredCounts DEF HttpRejected, Rejects
  <2> QED
    BY <2>1, <2>2, <2>3
<1>3. UNCHANGED << relay, agent, tail, handling, host >>
  BY DEF HttpCompletes, HttpGoesOn, HttpRejected
<1>4. Alive' => Alive
  BY <1>3 DEF Alive
<1> QED
  BY <1>1, <1>2, <1>3, <1>4, BesideCalm

(* A step on which the tail's task is over, or waits on for no report.     *)
LEMMA TailCalm ==
  ASSUME TypeOK, TailMoves, handling' # "usage", UNCHANGED host,
         relay'.base = relay.base, ledger'.total = ledger.total,
         agent'.counter = agent.counter, agent'.used = agent.used
  PROVE  CalmStep
BY DEF CalmStep, Alive

(* A step on which the caller of cancel() or finish() may go on.           *)
LEMMA CallerCalm ==
  ASSUME TypeOK, UNCHANGED << agent, host >>, relay'.base = relay.base,
         SameCount(ledger, ledger'),
         UNCHANGED << tail, handling >> \/ (tail # << >> /\ TaskOver)
  PROVE  CalmStep
<1>1. Alive' => Alive
  BY DEF Alive
<1>2. CASE UNCHANGED << tail, handling >>
  BY <1>1, <1>2, BesideCalm
<1>3. CASE tail # << >> /\ TaskOver
  BY <1>3, TailCalm DEF TaskOver, TailMoves, SameCount
<1> QED
  BY <1>2, <1>3

LEMMA CancelAnsweredCalm ==
  ASSUME Inv, InterruptRequested \/ CancelRejected
  PROVE  CalmStep
<1>1. relay \in RelayRecord /\ TypeOK
  BY Types DEF Inv
<1>2. ledger.queue # << >> /\ Oldest.who = "cancel"
  BY AnswerFacts DEF InterruptRequested, CancelRejected, Callers
<1>3. relay.by = "tail" => tail # << >>
  BY <1>2, CallerFacts
<1>4. UNCHANGED agent
  BY DEF InterruptRequested, CancelRejected
<1>5. CASE \E how \in {"down", "crashed"} : Exit(how)
  BY <1>1, <1>4, <1>5, ExitCalm
<1>6. CASE /\ \E c \in {"armed", "refused"} : relay' = [relay EXCEPT !.cancel = c]
           /\ ledger' = Answered /\ CallerOfCancelGoesOn /\ UNCHANGED host
  <2>1. relay'.base = relay.base
    BY <1>1, <1>6 DEF RelayRecord
  <2>2. UNCHANGED << tail, handling >> \/ (tail # << >> /\ TaskOver)
    BY <1>3, <1>6 DEF CallerOfCancelGoesOn, TaskOver
  <2>3. SameCount(ledger, ledger')
    BY <1>1, <1>2, <1>6, AnsweredCounts
  <2> QED
    BY <1>1, <1>4, <1>6, <2>1, <2>2, <2>3, CallerCalm
<1> QED
  BY <1>5, <1>6 DEF InterruptRequested, CancelRejected

LEMMA FinishAnsweredCalm ==
  ASSUME Inv, FinishGoesOn \/ FinishRejected
  PROVE  CalmStep
<1>1. relay \in RelayRecord /\ TypeOK
  BY Types DEF Inv
<1>2. ledger.queue # << >> /\ Oldest.who = "finish"
  BY AnswerFacts DEF FinishGoesOn, FinishRejected, Callers
<1>3. relay.caller = "tail" => tail # << >>
  BY <1>2, CallerFacts
<1>4. UNCHANGED agent
  BY DEF FinishGoesOn, FinishRejected
<1>5. CASE Exit("crashed")
  BY <1>1, <1>4, <1>5, ExitCalm
<1>6. CASE ~Exit("crashed")
  <2>1. relay' = relay \/ \E how : relay' = Finished(relay, how)
    BY <1>6 DEF FinishGoesOn, FinishRejected
  <2>2. relay'.base = relay.base
    BY <1>1, <2>1, BaseFacts
  <2>3. UNCHANGED << tail, handling >> \/ (tail # << >> /\ TaskOver)
    BY <1>3, <1>6 DEF FinishGoesOn, FinishRejected, CallerOfFinishGoesOn
  <2>4. SameCount(ledger, ledger')
    BY <1>1, <1>2, <1>6, AnsweredCounts, EndingGoesOnCounts DEF FinishGoesOn, FinishRejected
  <2>5. UNCHANGED host
    BY <1>6 DEF FinishGoesOn, FinishRejected
  <2> QED
    BY <1>1, <1>4, <2>2, <2>3, <2>4, <2>5, CallerCalm
<1> QED
  BY <1>5, <1>6

(* What the agent says but no report.                                      *)
LEMMA AgentCalm ==
  ASSUME Inv,
         \/ \E method \in Methods, good \in BOOLEAN : AgentReplies(method, good)
         \/ AgentNotifies \/ AgentExits
  PROVE  CalmStep
<1>1. agent \in AgentRecord /\ TypeOK
  BY Types DEF Inv
<1>2. UNCHANGED << relay, handling, ledger, host >>
  BY DEF AgentReplies, AgentNotifies, AgentExits
<1>3. \E task \in Tasks : task.kind # "usage" /\ tail' = Append(tail, task)
  <2>1. ASSUME NEW method \in Methods, NEW good \in BOOLEAN, AgentReplies(method, good)
        PROVE  \E task \in Tasks : task.kind # "usage" /\ tail' = Append(tail, task)
    <3> DEFINE task == [kind |-> "reply", method |-> method, good |-> good]
    <3>1. task \in Tasks /\ task.kind # "usage"
      BY DEF Tasks
    <3> QED
      BY <2>1, <3>1 DEF AgentReplies, Queued
  <2>2. ASSUME AgentNotifies
        PROVE  \E task \in Tasks : task.kind # "usage" /\ tail' = Append(tail, task)
    <3> DEFINE note(n) == [kind |-> "note", writes |-> n]
               turn(state) == [kind |-> "turn", state |-> state]
    <3>1. /\ \A n \in Writes : note(n) \in Tasks /\ note(n).kind # "usage"
          /\ \A state \in TurnStates : turn(state) \in Tasks /\ turn(state).kind # "usage"
      BY RelayAssumption DEF Tasks
    <3>2. \/ \E n \in Writes : tail' = Append(tail, note(n))
          \/ \E state \in TurnStates : tail' = Append(tail, turn(state))
      BY <2>2 DEF AgentNotifies, Queued
    <3> HIDE DEF note, turn
    <3> QED
      BY <3>1, <3>2
  <2>3. ASSUME AgentExits
        PROVE  \E task \in Tasks : task.kind # "usage" /\ tail' = Append(tail, task)
    <3>1. [kind |-> "exit"] \in Tasks /\ [kind |-> "exit"].kind # "usage"
      BY DEF Tasks
    <3> QED
      BY <2>3, <3>1 DEF AgentExits, Queued
  <2> QED
    BY <2>1, <2>2, <2>3
<1>4. agent'.counter = agent.counter /\ agent'.used = agent.used
  BY <1>1 DEF AgentReplies, AgentNotifies, AgentExits, AgentRecord
<1> QED
  BY <1>1, <1>2, <1>3, <1>4, UnaskedCounts DEF CalmStep, TailMoves, Alive

(* A task but no report begins.                                            *)
LEMMA TaskCalm ==
  ASSUME Inv, HandleReply \/ HandleNote \/ HandleEnd
  PROVE  CalmStep
<1>1. relay \in RelayRecord /\ ledger \in LedgerRecord /\ TypeOK
  BY Types DEF Inv
<1>2. tail # << >>
  BY DEF HandleReply, HandleNote, HandleEnd, Begins
<1>3. TailMoves /\ handling' # "usage"
  BY <1>2 DEF HandleReply, HandleNote, HandleEnd, TaskOver, TaskWaits, TailMoves
<1>4. UNCHANGED << agent, host >>
  BY DEF HandleReply, HandleNote, HandleEnd
<1>5. CASE HandleReply
  <2> DEFINE answered == [relay EXCEPT !.pending = @ \ {Task.method}]
  <2>1. answered \in RelayRecord /\ answered.base = relay.base
    BY <1>1, DroppedFacts, BaseFacts
  <2>2. \/ StartGoesOn(answered, Task.good)
        \/ relay' = answered /\ ledger' = ledger
    BY <1>5 DEF HandleReply
  <2> HIDE DEF answered
  <2> DEFINE instructing == [answered EXCEPT !.start = "instructing"]
             announced == [answered EXCEPT !.start = "announced", !.duration = "armed"]
  <2>3. instructing.base = relay.base /\ announced.base = relay.base
    BY <2>1 DEF RelayRecord
  <2>4. /\ \/ relay' = StartFailing(answered) \/ \E method : relay' = Sends(answered, method)
           \/ relay' \in {answered, instructing, announced}
        /\ \/ ledger' = ledger \/ ledger' = AskFailure(ledger, answered)
           \/ ledger' = Ask(ledger, "start", "append", 0)
    BY <2>2 DEF StartGoesOn
  <2> HIDE DEF instructing, announced
  <2>5. relay'.base = relay.base
    BY <2>1, <2>3, <2>4, BaseFacts
  <2>6. SameCount(ledger, ledger')
    BY <1>1, <2>4, UnaskedCounts, FailureCounts, AskCounts DEF Callers, Operations
  <2> QED
    BY <1>1, <1>3, <1>4, <2>5, <2>6, TailCalm DEF SameCount
<1>6. CASE HandleNote \/ HandleEnd
  <2>1. UNCHANGED relay
    BY <1>6 DEF HandleNote, HandleEnd
  <2>2. ledger' = ledger \/ ledger' = Ask(ledger, "tail", "append", 0)
    BY <1>6 DEF HandleNote, HandleEnd
  <2>3. ledger'.total = ledger.total
    BY <1>1, <2>2, AskCounts DEF Callers, Operations
  <2> QED
    BY <1>1, <1>3, <1>4, <2>1, <2>3, TailCalm
<1> QED
  BY <1>5, <1>6

(* The ledger answers the tail, but not for the count of a report.         *)
LEMMA TailAnsweredCalm ==
  ASSUME Inv, NoteWritten \/ GapWritten \/ OverrunRecorded \/ EndRecorded \/ TailRejected
  PROVE  CalmStep
<1>1. relay \in RelayRecord /\ agent \in AgentRecord /\ TypeOK /\ TailInv
  BY Types DEF Inv
<1>2. ledger.queue # << >> /\ Oldest.who = "tail" /\ Answered \in LedgerRecord
  BY AnswerFacts DEF NoteWritten, GapWritten, OverrunRecorded, EndRecorded, TailRejected, Callers
<1>3. tail # << >>
  BY <1>2, CallerFacts
<1>4. handling' # "usage" /\ UNCHANGED host
  BY DEF NoteWritten, GapWritten, OverrunRecorded, EndRecorded, TailRejected, TaskOver, TaskWaits
<1>5. TailMoves
  <2>1. CASE NoteWritten
    <3>1. Head(tail).kind = "note"
      BY <1>1, <2>1 DEF NoteWritten, TailInv
    <3> QED
      BY <1>3, <2>1, <3>1 DEF NoteWritten, TaskOver, TailMoves
  <2>2. CASE ~NoteWritten
    BY <1>3, <2>2
    DEF GapWritten, OverrunRecorded, EndRecorded, TailRejected, TaskOver, TaskWaits, TailMoves
  <2> QED
    BY <2>1, <2>2
<1>6. ledger'.total = ledger.total
  <2>1. Answered.total = ledger.total
    BY <1>1, <1>2, AnsweredFacts
  <2>2. Explained(Answered).total = Answered.total
    BY <1>2 DEF Explained, LedgerRecord
  <2>3. AskEnding(Answered).total = Answered.total
    BY <1>2, EndingCounts, <1>1, AnsweredCounts, <2>1 DEF SameCount
  <2>4. /\ Ask(Answered, "tail", "append", 0).total = Answered.total
        /\ Ask(Answered, "cancel", "append", 0).total = Answered.total
    BY <1>2, AskCounts DEF Callers, Operations
  <2>5. ledger' \in {Answered, Explained(Answered), AskEnding(Answered),
                     Ask(Answered, "tail", "append", 0), Ask(Answered, "cancel", "append", 0)}
    BY DEF NoteWritten, GapWritten, OverrunRecorded, EndRecorded, TailRejected
  <2> QED
    BY <2>1, <2>2, <2>3, <2>4, <2>5
<1>7. relay'.base = relay.base
  <2>1. \/ relay' = relay \/ relay' = Cancelling(relay, "tail")
        \/ \E state : relay' = Finishing(relay, "tail", state)
    BY DEF NoteWritten, GapWritten, OverrunRecorded, EndRecorded, TailRejected
  <2> QED
    BY <1>1, <2>1, BaseFacts
<1>8. agent'.counter = agent.counter /\ agent'.used = agent.used
  <2>1. agent' = agent \/ agent' = Signalled(agent)
    BY DEF NoteWritten, GapWritten, OverrunRecorded, EndRecorded, TailRejected
  <2> QED
    BY <1>1, <2>1, SignalledCounts
<1> QED
  BY <1>1, <1>4, <1>5, <1>6, <1>7, <1>8, TailCalm

-----------------------------------------------------------------------------
(* The agent uses tokens and says how many.                                *)
LEMMA AgentUsesKeeps ==
  ASSUME Inv, ReportInv, NEW n \in Consumptions, AgentUses(n)
  PROVE  ReportInv'
<1>1. /\ TypeOK /\ agent.used \in Nat /\ agent.counter \in Nat /\ ledger.total \in Nat
      /\ Since(relay) \in Nat /\ tail \in Seq(Tasks) /\ agent \in AgentRecord
  BY MeterTypes, Types DEF Inv
<1>2. n \in Nat
  BY RelayAssumption
<1>3. PICK c \in {0, agent.counter + n} :
        /\ agent'.counter = c /\ agent'.used = agent.used + n
        /\ tail' = Append(tail, [kind |-> "usage", count |-> c])
  <2>1. PICK restarts \in 0 .. 1 :
          LET counter == IF restarts = 1 THEN 0 ELSE agent.counter + n IN
          /\ agent' = [agent EXCEPT !.lines = @ + 1, !.counter = counter, !.used = @ + n,
                                    !.resets = @ + restarts]
          /\ Queued([kind |-> "usage", count |-> counter])
    BY DEF AgentUses
  <2> DEFINE counter == IF restarts = 1 THEN 0 ELSE agent.counter + n
  <2>2. /\ agent' = [agent EXCEPT !.lines = @ + 1, !.counter = counter, !.used = @ + n,
                                  !.resets = @ + restarts]
        /\ tail' = Append(tail, [kind |-> "usage", count |-> counter])
        /\ counter \in {0, agent.counter + n}
    BY <2>1 DEF Queued
  <2> HIDE DEF counter
  <2>3. agent'.counter = counter /\ agent'.used = agent.used + n
    BY <1>1, <2>2 DEF AgentRecord
  <2> QED
    BY <2>2, <2>3
<1>4. UNCHANGED << relay, handling, ledger, host >> /\ Alive
  BY DEF AgentUses, Heard
<1>5. PICK paid \in 0 .. agent.used :
        /\ Dates(tail, Since(relay), paid, agent.counter, agent.used)
        /\ Covers(paid, ledger, handling)
  BY <1>4, Reporting
<1>6. Dates(tail', Since(relay'), paid, c, agent'.used)
  <2>1. Dates(Append(tail, [kind |-> "usage", count |-> c]), Since(relay), paid, c, agent.used + n)
    <3> DEFINE base == Since(relay)
               counter == agent.counter
               used == agent.used
    <3>1. /\ base \in Nat /\ counter \in Nat /\ used \in Nat /\ paid \in Nat
          /\ tail \in Seq(Tasks) /\ c \in {0, counter + n}
          /\ Dates(tail, base, paid, counter, used)
      BY <1>1, <1>3, <1>5
    <3> HIDE DEF base, counter, used
    <3>2. c \in Nat /\ used + n \in Nat
      BY <1>2, <3>1
    <3>3. Dates(Append(tail, [kind |-> "usage", count |-> c]), base, paid, c, used + n)
      BY <1>2, <3>1, <3>2, DatesWithReport
    <3> QED
      BY <3>3 DEF base, used
  <2>2. Since(relay') = Since(relay)
    BY <1>4 DEF Since
  <2> QED
    BY <1>3, <2>1, <2>2
<1>7. paid \in 0 .. agent'.used /\ ledger'.total <= agent'.used
  <2> DEFINE used == agent.used
             total == ledger.total
  <2>1. total <= used /\ ledger'.total = total
    BY <1>4 DEF ReportInv
  <2>2. used \in Nat /\ total \in Nat /\ paid \in 0 .. used /\ agent'.used = used + n
    BY <1>1, <1>3, <1>5
  <2> HIDE DEF used, total
  <2> QED
    BY <1>2, <2>1, <2>2
<1>8. Covers(paid, ledger', handling')
  BY <1>4, <1>5
<1> QED
  BY <1>3, <1>6, <1>7, <1>8, ReportingNext

(* A report is taken: what it adds was used since the one before.          *)
LEMMA HandleUsageKeeps ==
  ASSUME Inv, ReportInv, HandleUsage
  PROVE  ReportInv'
<1> DEFINE count == Task.count
           delta == UsageDelta(count, relay.base)
           base == Since(relay)
<1>1. /\ TypeOK /\ agent.used \in Nat /\ agent.counter \in Nat /\ ledger.total \in Nat
      /\ base \in Nat /\ tail \in Seq(Tasks) /\ relay \in RelayRecord /\ ledger \in LedgerRecord
      /\ WaitInv /\ ledger.queue \in Seq(Request)
  BY MeterTypes, Types DEF Inv
<1>2. /\ tail # << >> /\ Head(tail).kind = "usage" /\ Head(tail).count = count /\ count \in Nat
      /\ Alive /\ handling = "ready"
  BY <1>1, BeginsFacts DEF HandleUsage, Task
<1>3. UNCHANGED << agent, tail, host >> /\ Since(relay') = count
  <2>1. UNCHANGED << agent, tail, host >> /\ relay' = [relay EXCEPT !.base = count]
    BY DEF HandleUsage, TaskWaits
  <2>2. relay'.base = count
    BY <1>1, <2>1 DEF RelayRecord
  <2>3. count # None
    BY <1>2, RelayAssumption
  <2> QED
    BY <2>1, <2>2, <2>3 DEF Since
<1>4. delta = None \/ (delta \in Nat /\ delta = count - base)
  BY <1>1, <1>2 DEF UsageDelta, Since, RelayRecord
<1>5. \/ delta = None /\ handling' = "gap" /\ ledger' = Ask(ledger, "tail", "gap", 0)
      \/ delta # None /\ handling' = "usage" /\ ledger' = Ask(ledger, "tail", "usage", delta)
  BY DEF HandleUsage, TaskWaits
<1>6. PICK paid \in 0 .. agent.used :
        Dates(tail, base, paid, agent.counter, agent.used) /\ Covers(paid, ledger, handling)
  BY <1>2, Reporting
<1>7. PICK now \in 0 .. agent.used :
        /\ Dates(tail, count, now, agent.counter, agent.used)
        /\ paid <= now /\ count - base <= now - paid
  <2>1. paid \in Nat
    BY <1>1, <1>6
  <2>2. PICK now \in 0 .. agent.used :
          /\ Dates(tail, Head(tail).count, now, agent.counter, agent.used)
          /\ paid <= now /\ Head(tail).count - base <= now - paid
    BY <1>1, <1>2, <1>6, <2>1, DatesWhenHandled
  <2> QED
    BY <1>2, <2>2
<1>8. \A i \in DOMAIN ledger.queue : ledger.queue[i].who # "tail"
  BY <1>1, <1>2 DEF WaitInv, Waiting, Writing
<1>9. ledger.total <= paid
  BY <1>6 DEF Covers
<1> HIDE DEF count, delta, base
<1>10. ledger'.total = ledger.total
  BY <1>1, <1>4, <1>5, AskCounts DEF Callers, Operations
<1>11. Covers(now, ledger', handling')
  <2>1. ledger'.total <= now
    BY <1>1, <1>6, <1>7, <1>9, <1>10
  <2>2. ASSUME handling' = "usage", NEW i \in DOMAIN ledger'.queue, ledger'.queue[i].who = "tail"
        PROVE  ledger'.total + ledger'.queue[i].tokens <= now
    <3> DEFINE r == [who |-> "tail", op |-> "usage", tokens |-> delta]
    <3>1. delta \in Nat /\ delta = count - base /\ ledger' = Ask(ledger, "tail", "usage", delta)
      BY <1>4, <1>5, <2>2
    <3>2. ledger'.queue = Append(ledger.queue, r)
      <4>1. "tail" \in Callers /\ "usage" \in Operations
        BY DEF Callers, Operations
      <4> QED
        BY <1>1, <3>1, <4>1, AskFacts
    <3>3. r.tokens = delta
      OBVIOUS
    <3> HIDE DEF r
    <3>4. \/ i \in DOMAIN ledger.queue /\ ledger'.queue[i] = ledger.queue[i]
          \/ ledger'.queue[i] = r
      BY <1>1, <2>2, <3>2
    <3>5. ledger'.queue[i] = r
      BY <1>8, <2>2, <3>4
    <3>6. ledger.total + delta <= now
      <4> DEFINE used == agent.used
                 total == ledger.total
      <4>1. /\ used \in Nat /\ total \in Nat /\ paid \in 0 .. used /\ now \in 0 .. used
            /\ base \in Nat /\ count \in Nat /\ total <= paid
        BY <1>1, <1>2, <1>6, <1>7, <1>9
      <4> HIDE DEF used, total
      <4>2. total + delta <= now
        BY <1>7, <3>1, <4>1
      <4> QED
        BY <4>2 DEF total
    <3> QED
      BY <1>10, <3>3, <3>5, <3>6
  <2> QED
    BY <2>1, <2>2 DEF Covers
<1>12. ledger'.total <= agent'.used
  BY <1>3, <1>10 DEF ReportInv
<1> QED
  BY <1>3, <1>7, <1>11, <1>12, ReportingNext

(* What a report adds is recorded.                                         *)
LEMMA UsageRecordedKeeps ==
  ASSUME Inv, ReportInv, UsageRecorded
  PROVE  ReportInv'
<1>1. /\ TypeOK /\ agent.used \in Nat /\ agent.counter \in Nat /\ ledger.total \in Nat
      /\ Since(relay) \in Nat /\ tail \in Seq(Tasks) /\ ledger.queue \in Seq(Request)
      /\ \A i \in DOMAIN ledger.queue : ledger.queue[i].tokens \in Nat
  BY MeterTypes DEF Inv
<1>2. /\ ledger.queue # << >> /\ Oldest.who = "tail" /\ Answered \in LedgerRecord
      /\ Alive /\ handling = "usage"
  BY AnswerFacts DEF UsageRecorded, Callers
<1>3. tail # << >>
  BY <1>2, CallerFacts
<1>4. 1 \in DOMAIN ledger.queue /\ Oldest = ledger.queue[1]
  BY <1>1, <1>2 DEF Oldest
<1>5. PICK paid \in 0 .. agent.used :
        /\ Dates(tail, Since(relay), paid, agent.counter, agent.used)
        /\ Covers(paid, ledger, handling)
  BY <1>2, Reporting
<1> DEFINE total == ledger.total + Oldest.tokens
           counted == [Answered EXCEPT !.total = total, !.usage = "known"]
<1>6. total \in Nat /\ total <= paid
  <2>1. Oldest.tokens \in Nat
    BY <1>1, <1>4
  <2>2. ledger.total + Oldest.tokens <= paid
    BY <1>2, <1>4, <1>5 DEF Covers
  <2> DEFINE tokens == Oldest.tokens
             recorded == ledger.total
  <2>3. recorded \in Nat /\ tokens \in Nat /\ total = recorded + tokens
    BY <1>1, <2>1
  <2> HIDE DEF tokens, recorded
  <2>4. recorded + tokens \in Nat
    BY <2>3
  <2> QED
    BY <2>2, <2>3, <2>4 DEF tokens, recorded
<1>7. Answered.total = ledger.total
  BY <1>1, <1>2, AnsweredFacts
<1>8. /\ UNCHANGED << relay, agent, host >> /\ TailMoves /\ handling' # "usage"
      /\ ledger' = counted \/ ledger' = Ask(counted, "tail", "append", 0)
  BY <1>3, <1>7 DEF UsageRecorded, TaskOver, TaskWaits, TailMoves
<1> HIDE DEF total
<1>9. counted \in LedgerRecord /\ counted.total = total
  BY <1>2, <1>6 DEF LedgerRecord
<1> HIDE DEF counted
<1>10. ledger'.total = total
  BY <1>8, <1>9, AskCounts DEF Callers, Operations
<1>11. Covers(paid, ledger', handling')
  BY <1>6, <1>8, <1>10 DEF Covers
<1>12. Dates(tail', Since(relay'), paid, agent'.counter, agent'.used)
  <2>1. Dates(tail', Since(relay), paid, agent.counter, agent.used)
    BY <1>1, <1>5, <1>8, DatesKept
  <2> QED
    BY <1>8, <2>1 DEF Since
<1>13. ledger'.total <= agent'.used /\ paid \in 0 .. agent'.used
  BY <1>1, <1>5, <1>6, <1>8, <1>10
<1> QED
  BY <1>11, <1>12, <1>13, ReportingNext

LEMMA InitReport == Init => ReportInv
<1>1. SUFFICES ASSUME Init PROVE ReportInv
  OBVIOUS
<1> DEFINE start == [queue |-> << >>, state |-> "running", usage |-> "unknown", total |-> 0,
                     endings |-> 0]
<1>2. start \in LedgerRecord /\ start.total = 0
  BY DEF LedgerRecord
<1>3. ledger = Ask(start, "start", "append", 0)
  BY <1>1 DEF Init
<1> HIDE DEF start
<1>4. ledger.total = 0
  BY <1>2, <1>3, AskCounts DEF Callers, Operations
<1>5. /\ tail = << >> /\ handling = "ready" /\ agent.used = 0 /\ agent.counter = 0
      /\ Since(relay) = 0
  BY <1>1 DEF Init, Since
<1>6. Covers(0, ledger, handling)
  BY <1>4, <1>5 DEF Covers
<1>7. Dates(tail, 0, 0, 0, 0)
  <2> DEFINE spent == [i \in DOMAIN tail |-> 0]
  <2>1. Dated(tail, spent, 0, 0, 0, 0)
    BY <1>5 DEF Dated, Reports, Later
  <2> QED
    BY <2>1 DEF Dates
<1> QED
  BY <1>4, <1>5, <1>6, <1>7, Reporting

LEMMA StepReport == Inv /\ ReportInv /\ [Next]_vars => ReportInv'
<1>1. SUFFICES ASSUME Inv, ReportInv, [Next]_vars PROVE ReportInv'
  OBVIOUS
<1>2. CASE UNCHANGED vars
  BY <1>1, <1>2 DEF vars, ReportInv, Alive
<1>3. CASE Spawn \/ InstructionLoaded \/ TurnAnnounced \/ StartFailed \/ StartRejected
  BY <1>1, <1>3, StartCalm, CalmKeeps
<1>4. CASE InterruptRequested \/ CancelRejected
  BY <1>1, <1>4, CancelAnsweredCalm, CalmKeeps
<1>5. CASE NoteWritten \/ GapWritten \/ OverrunRecorded \/ EndRecorded \/ TailRejected
  BY <1>1, <1>5, TailAnsweredCalm, CalmKeeps
<1>6. CASE UsageRecorded
  BY <1>1, <1>6, UsageRecordedKeeps
<1>7. CASE FinishGoesOn \/ FinishRejected
  BY <1>1, <1>7, FinishAnsweredCalm, CalmKeeps
<1>8. CASE HttpCompletes \/ HttpGoesOn \/ HttpRejected
  BY <1>1, <1>8, HttpCalm, CalmKeeps
<1>9. CASE HandleReply \/ HandleNote \/ HandleEnd
  BY <1>1, <1>9, TaskCalm, CalmKeeps
<1>10. CASE HandleUsage
  BY <1>1, <1>10, HandleUsageKeeps
<1>11. CASE Timeouts
  BY <1>1, <1>11, TimeoutCalm, CalmKeeps DEF Timeouts
<1>12. CASE UserCancels \/ DurationPasses \/ GracePasses \/ (Shutdown /\ ~Exit("down"))
  BY <1>1, <1>12, CancelCalm, CalmKeeps
<1>13. CASE Shutdown /\ Exit("down")
  BY <1>1, <1>13, ExitCalm, CalmKeeps DEF Shutdown, Inv
<1>14. CASE \/ \E method \in Methods, good \in BOOLEAN : AgentReplies(method, good)
            \/ AgentNotifies \/ AgentExits
  BY <1>1, <1>14, AgentCalm, CalmKeeps
<1>15. CASE \E n \in Consumptions : AgentUses(n)
  BY <1>1, <1>15, AgentUsesKeeps
<1> QED
  BY <1>1, <1>2, <1>3, <1>4, <1>5, <1>6, <1>7, <1>8, <1>9, <1>10, <1>11, <1>12, <1>13, <1>14, <1>15
  DEF Next, LedgerAnswers, TailWorks, Environment

(* However often the agent's counter restarts and whatever is rejected or  *)
(* cut off, the relay records no usage that the agent did not have         *)
(* (usageDelta(), handleUsage()).                                          *)
THEOREM UsageNotInventedHolds == Spec => []UsageNotInvented
<1>1. ReportInv => UsageNotInvented
  BY DEF ReportInv, UsageNotInvented
<1>2. Spec => []ReportInv
  BY InitReport, StepReport, Invariance, PTL DEF Spec
<1> QED
  BY <1>1, <1>2, PTL

-----------------------------------------------------------------------------
(* The refinement: the relay decides once, on a ground, and is forgotten   *)
(* last.                                                                   *)

(* What is told of the agent on the tail, when a task is queued or over.   *)
LEMMA EndsFacts ==
  ASSUME NEW t \in Seq(Tasks)
  PROVE  /\ \A task \in Tasks :
              LET told == Ends(Append(t, task)) IN
              /\ task.kind = "turn" => told = Ends(t) \cup {task.state}
              /\ task.kind = "exit" => told = Ends(t) \cup {"exit"}
              /\ task.kind \notin {"turn", "exit"} => told = Ends(t)
         /\ t # << >> =>
              /\ Ends(Tail(t)) \subseteq Ends(t)
              /\ Head(t).kind \notin {"turn", "exit"} => Ends(Tail(t)) = Ends(t)
              /\ Head(t).kind = "turn" => Head(t).state \in Ends(t)
              /\ Head(t).kind = "exit" => "exit" \in Ends(t)
         /\ Ends(<< >>) = {}
<1> DEFINE end(task) == IF task.kind = "turn" THEN task.state ELSE "exit"
           ending(task) == task.kind \in {"turn", "exit"}
<1>1. \A q : Ends(q) = {end(q[i]) : i \in {j \in DOMAIN q : ending(q[j])}}
  BY DEF Ends
<1>2. ASSUME NEW task \in Tasks
      PROVE  LET told == Ends(Append(t, task)) IN
             /\ task.kind = "turn" => told = Ends(t) \cup {task.state}
             /\ task.kind = "exit" => told = Ends(t) \cup {"exit"}
             /\ task.kind \notin {"turn", "exit"} => told = Ends(t)
  <2> DEFINE longer == Append(t, task)
  <2>1. /\ DOMAIN longer = DOMAIN t \cup {Len(t) + 1} /\ longer[Len(t) + 1] = task
        /\ \A i \in DOMAIN t : longer[i] = t[i]
    OBVIOUS
  <2> HIDE DEF longer
  <2>2. \A e : e \in Ends(longer) <=> e \in Ends(t) \/ (ending(task) /\ e = end(task))
    <3> HIDE DEF end, ending
    <3> QED
      BY <1>1, <2>1
  <2>3. CASE task.kind = "turn"
    BY <2>2, <2>3 DEF longer
  <2>4. CASE task.kind = "exit"
    BY <2>2, <2>4 DEF longer
  <2>5. CASE task.kind \notin {"turn", "exit"}
    BY <2>2, <2>5 DEF longer
  <2> QED
    BY <2>3, <2>4, <2>5
<1>3. ASSUME t # << >>
      PROVE  /\ Ends(Tail(t)) \subseteq Ends(t)
             /\ Head(t).kind \notin {"turn", "exit"} => Ends(Tail(t)) = Ends(t)
             /\ Head(t).kind = "turn" => Head(t).state \in Ends(t)
             /\ Head(t).kind = "exit" => "exit" \in Ends(t)
  <2> DEFINE rest == Tail(t)
  <2>1. /\ 1 \in DOMAIN t /\ t[1] = Head(t)
        /\ \A i \in DOMAIN rest : i + 1 \in DOMAIN t /\ rest[i] = t[i + 1]
        /\ \A i \in DOMAIN t : i = 1 \/ (i - 1 \in DOMAIN rest /\ rest[i - 1] = t[i])
    BY <1>3
  <2> HIDE DEF rest
  <2>2. /\ \A e : e \in Ends(t) <=> e \in Ends(rest) \/ (ending(Head(t)) /\ e = end(Head(t)))
    <3> HIDE DEF end, ending
    <3>1. \A e : e \in Ends(rest) => e \in Ends(t)
      BY <1>1, <2>1
    <3>2. ending(Head(t)) => end(Head(t)) \in Ends(t)
      BY <1>1, <2>1
    <3>3. ASSUME NEW e \in Ends(t) PROVE e \in Ends(rest) \/ (ending(Head(t)) /\ e = end(Head(t)))
      <4>1. PICK i \in DOMAIN t : ending(t[i]) /\ e = end(t[i])
        BY <1>1, <3>3
      <4>2. CASE i = 1
        BY <2>1, <4>1, <4>2
      <4>3. CASE i # 1
        BY <1>1, <2>1, <4>1, <4>3
      <4> QED
        BY <4>2, <4>3
    <3> QED
      BY <3>1, <3>2, <3>3
  <2> QED
    BY <2>2 DEF rest
<1>4. Ends(<< >>) = {}
  BY DEF Ends
<1> QED
  BY <1>2, <1>3, <1>4

(* What a step that neither decides nor writes leaves alone.               *)
LogStill ==
  /\ relay'.state = relay.state /\ owned' = owned /\ http' = http
  /\ ledger'.state = ledger.state /\ ledger'.endings = ledger.endings

LEMMA QuietLog == ASSUME Inv, QuietStep PROVE LogStill
<1>1. TypeOK /\ ledger.queue \in Seq(Request)
  BY Types DEF Inv, LedgerRecord
<1> QED
  BY <1>1, AnsweredFacts DEF QuietStep, Asks, LogStill

LEMMA Undecided == ASSUME Inv, ~relay.terminal PROVE relay.state = "running"
BY Types DEF Inv, FinishInv, RelayRecord

(* Steps that lose grounds.                                                *)
LEMMA Forgetting ==
  ASSUME LogStill, agent'.child = agent.child, Ends(tail') \subseteq Ends(tail),
         relay'.start = relay.start \/ StartAs(relay'.start) = "over",
         relay'.cancel = relay.cancel \/ CancelAs(relay'.cancel) = "over"
  PROVE  Promise!Next
<1>1. Promise!Forget
  BY DEF LogStill, Promise!Forget, Promise!Forgets, Promise!log
<1> QED
  BY <1>1 DEF Promise!Next

(* Steps of start().                                                       *)
LEMMA Starts ==
  ASSUME LogStill, agent'.child = agent.child, Ends(tail') = Ends(tail),
         relay'.cancel = relay.cancel,
         \/ relay'.start = relay.start \/ relay'.start \in {"done", "failed"}
         \/ StartAs(relay.start) = "underway" /\ relay'.start # "announcing"
  PROVE  Promise!Next
<1>1. CASE StartAs(relay'.start) \in {StartAs(relay.start), "over"}
  <2>1. Promise!Forget
    BY <1>1 DEF LogStill, Promise!Forget, Promise!Forgets, Promise!log
  <2> QED
    BY <2>1 DEF Promise!Next
<1>2. CASE StartAs(relay.start) = "underway" /\ StartAs(relay'.start) = "failed"
  <2>1. Promise!StartFails
    BY <1>2 DEF LogStill, Promise!StartFails, Promise!log
  <2> QED
    BY <2>1 DEF Promise!Next
<1> QED
  BY <1>1, <1>2 DEF StartAs

LEMMA StartCancels ==
  ASSUME NEW r \in RelayRecord
  PROVE  /\ StartFailing(r).cancel = r.cancel
         /\ \A method \in Methods : Sends(r, method).cancel = r.cancel
BY DEF StartFailing, Sends, RelayRecord

LEMMA StartImplements ==
  ASSUME Inv, Spawn \/ InstructionLoaded \/ TurnAnnounced \/ StartRejected
  PROVE  Promise!Next
<1>1. relay \in RelayRecord /\ TypeOK
  BY Types DEF Inv
<1>2. LogStill /\ UNCHANGED tail
  BY QuietLog, SpawnStep, StartAnsweredStep, StartRejectedStep
     DEF Spawn, InstructionLoaded, TurnAnnounced, StartRejected
<1>3. CASE Spawn
  <2>1. /\ relay.start = "announcing" /\ agent.child = "none" /\ relay.state = "running"
    BY <1>3, Undecided DEF Inv, AnnounceInv, Spawn
  <2>2. CASE agent' = [agent EXCEPT !.child = "running"] /\ relay' = Sends(relay, "initialize")
    <3>1. relay'.start = "initialize" /\ relay'.cancel = relay.cancel /\ agent'.child = "running"
      BY <1>1, <2>2, SendsFacts, StartCancels, Types DEF Methods, Inv, AgentRecord
    <3>2. Promise!Spawn
      BY <1>2, <2>1, <3>1 DEF LogStill, Promise!Spawn, Promise!grounds, Promise!log, StartAs
    <3> QED
      BY <3>2 DEF Promise!Next
  <2>3. CASE relay' = StartFailing(relay) /\ UNCHANGED agent
    BY <1>1, <1>2, <2>1, <2>3, StartFailingFacts, StartCancels, Types, Starts DEF StartAs, Inv
  <2> QED
    BY <1>3, <2>2, <2>3 DEF Spawn
<1>4. CASE InstructionLoaded
  BY <1>1, <1>2, <1>4, SendsFacts, StartCancels, Starts DEF InstructionLoaded, StartAs, Methods
<1>5. CASE TurnAnnounced
  <2>1. relay'.start = "done" /\ relay'.cancel = relay.cancel /\ UNCHANGED agent
    BY <1>1, <1>5 DEF TurnAnnounced, RelayRecord
  <2> QED
    BY <1>2, <2>1, Starts
<1>6. CASE StartRejected
  <2>1. CASE relay.start \in {"instructing", "announced"}
    BY <1>1, <1>2, <1>6, <2>1, StartFailingFacts, StartCancels, Types, Starts
       DEF StartRejected, StartAs, Inv
  <2>2. CASE relay.start \notin {"instructing", "announced"}
    <3>1. relay'.start = "failed" /\ relay'.cancel = relay.cancel /\ UNCHANGED agent
      BY <1>1, <1>6, <2>2 DEF StartRejected, RelayRecord
    <3> QED
      BY <1>2, <3>1, Starts
  <2> QED
    BY <2>1, <2>2
<1> QED
  BY <1>3, <1>4, <1>5, <1>6

LEMMA GoesOnImplements ==
  ASSUME Inv, NEW r \in RelayRecord, NEW good \in BOOLEAN, StartGoesOn(r, good),
         r.start \in Methods
  PROVE  relay'.start # "announcing" /\ relay'.cancel = r.cancel
<1>1. ledger \in LedgerRecord
  BY Types DEF Inv
<1>2. \A method \in Methods : Sends(r, method).cancel = r.cancel
  BY StartCancels
<1> QED
  BY <1>1, <1>2, StartGoesOnFacts, StartCancels DEF StartGoesOn, RelayRecord, Methods

LEMMA ReplyImplements ==
  ASSUME Inv, HandleReply \/ Timeouts
  PROVE  Promise!Next
<1>1. relay \in RelayRecord /\ TypeOK /\ ledger \in LedgerRecord
  BY Types DEF Inv
<1>2. CASE HandleReply
  <2> DEFINE answered == [relay EXCEPT !.pending = @ \ {Task.method}]
  <2>1. /\ LogStill /\ UNCHANGED agent /\ tail \in Seq(Tasks) /\ tail # << >>
        /\ Task.kind = "reply" /\ Task.method \in Methods /\ Task.good \in BOOLEAN
        /\ tail' = Tail(tail)
    BY <1>1, <1>2, QuietLog, HandleReplyStep, BeginsFacts, Types DEF HandleReply, TaskOver
  <2>2. Ends(tail') = Ends(tail)
    BY <2>1, EndsFacts DEF Task
  <2>3. answered \in RelayRecord /\ answered.start = relay.start /\ answered.cancel = relay.cancel
    BY <1>1, DroppedFacts
  <2>4. \/ relay.start \in Methods /\ StartGoesOn(answered, Task.good)
        \/ relay' = answered
    BY <1>2, <2>1 DEF HandleReply
  <2> HIDE DEF answered
  <2>5. CASE relay.start \in Methods /\ StartGoesOn(answered, Task.good)
    <3>1. relay'.start # "announcing" /\ relay'.cancel = relay.cancel
      BY <2>1, <2>3, <2>5, GoesOnImplements
    <3> QED
      BY <2>1, <2>2, <2>5, <3>1, Starts DEF StartAs, Methods
  <2> QED
    BY <2>1, <2>2, <2>3, <2>4, <2>5, Starts
<1>3. ASSUME NEW method \in Methods, RequestTimesOut(method) PROVE Promise!Next
  <2> DEFINE dropped == [relay EXCEPT !.pending = @ \ {method}]
  <2>1. LogStill /\ UNCHANGED << agent, tail >>
    BY <1>3, QuietLog, RequestTimesOutStep DEF RequestTimesOut
  <2>2. dropped \in RelayRecord /\ dropped.start = relay.start /\ dropped.cancel = relay.cancel
    BY <1>1, DroppedFacts
  <2>3. \/ relay.start \in Methods /\ relay' = StartFailing(dropped)
        \/ relay' = dropped
    BY <1>3 DEF RequestTimesOut
  <2> HIDE DEF dropped
  <2> QED
    BY <1>1, <2>1, <2>2, <2>3, StartFailingFacts, StartCancels, Starts DEF StartAs, Methods
<1> QED
  BY <1>2, <1>3 DEF Timeouts

(* The supervisor process ends.                                            *)
LEMMA ExitForgets ==
  ASSUME Inv, LogStill, UNCHANGED agent, NEW how, Exit(how)
  PROVE  Promise!Next
<1>1. relay'.start = "failed" /\ relay'.cancel = "cleared" /\ tail' = << >>
  BY Types DEF Inv, RelayRecord, Exit
<1>2. Ends(tail') = {}
  BY <1>1, Types, EndsFacts DEF Inv
<1> QED
  BY <1>1, <1>2, Forgetting DEF StartAs, CancelAs

(* Steps of cancel().                                                      *)
LEMMA Cancels ==
  ASSUME Inv, LogStill, UNCHANGED << agent, tail >>, MayCancel(relay),
         relay'.cancel = "asked", relay'.start = relay.start
  PROVE  Promise!Next
<1>1. relay.state = "running" /\ relay.cancel = "no"
  BY Undecided DEF MayCancel
<1>2. Promise!Cancel
  BY <1>1 DEF LogStill, Promise!Cancel, Promise!log, CancelAs
<1> QED
  BY <1>2 DEF Promise!Next

LEMMA CancelImplements ==
  ASSUME Inv, UserCancels \/ DurationPasses \/ (Shutdown /\ ~Exit("down"))
  PROVE  Promise!Next
<1>1. relay \in RelayRecord
  BY Types DEF Inv
<1>2. LogStill /\ UNCHANGED << agent, tail >>
  BY QuietLog, CancelStep DEF UserCancels, DurationPasses, Shutdown
<1>3. \/ /\ MayCancel(relay)
         /\ \E by \in {"user", "shutdown"} : relay' = Cancelling(relay, by)
      \/ /\ MayCancel(relay)
         /\ relay' = [Cancelling(relay, "duration") EXCEPT !.duration = "off"]
      \/ relay' = [relay EXCEPT !.duration = "off"]
  BY DEF UserCancels, DurationPasses, Shutdown
<1>4. CASE MayCancel(relay) /\ \E by \in {"user", "shutdown"} : relay' = Cancelling(relay, by)
  BY <1>1, <1>2, <1>4, CancellingFacts, Cancels
<1>5. CASE /\ MayCancel(relay)
           /\ relay' = [Cancelling(relay, "duration") EXCEPT !.duration = "off"]
  <2>1. relay'.cancel = "asked" /\ relay'.start = relay.start
    BY <1>1, <1>5, CancellingFacts
  <2> QED
    BY <1>2, <1>5, <2>1, Cancels
<1>6. CASE relay' = [relay EXCEPT !.duration = "off"]
  <2>1. relay'.cancel = relay.cancel /\ relay'.start = relay.start
    BY <1>1, <1>6 DEF RelayRecord
  <2> QED
    BY <1>2, <2>1, Forgetting
<1> QED
  BY <1>3, <1>4, <1>5, <1>6

LEMMA CancelAnsweredImplements ==
  ASSUME Inv, InterruptRequested \/ CancelRejected
  PROVE  Promise!Next
<1>1. /\ relay \in RelayRecord /\ TypeOK /\ tail \in Seq(Tasks)
      /\ LogStill /\ UNCHANGED agent
  BY Types, QuietLog, CancelAnsweredStep DEF Inv, InterruptRequested, CancelRejected
<1>2. CASE \E how : Exit(how)
  BY <1>1, <1>2, ExitForgets
<1>3. CASE ~\E how : Exit(how)
  <2>1. /\ ledger.queue # << >> /\ Oldest.who = "cancel" /\ CallerOfCancelGoesOn
        /\ \/ InterruptRequested /\ relay' = [relay EXCEPT !.cancel = "armed"]
           \/ relay' = [relay EXCEPT !.cancel = "refused"]
    BY <1>3 DEF InterruptRequested, CancelRejected, Grants, Rejects
  <2>2. relay.cancel = "asked" /\ (relay.by = "tail" => tail # << >>)
    BY <2>1, CallerFacts
  <2>3. Ends(tail') \subseteq Ends(tail)
    BY <1>1, <2>1, <2>2, EndsFacts DEF CallerOfCancelGoesOn
  <2>4. CASE relay' = [relay EXCEPT !.cancel = "armed"]
    <3>1. relay'.cancel = "armed" /\ relay'.start = relay.start
      BY <1>1, <2>4 DEF RelayRecord
    <3>2. Promise!CancelRecorded
      BY <1>1, <2>2, <2>3, <3>1 DEF LogStill, Promise!CancelRecorded, Promise!log, CancelAs
    <3> QED
      BY <3>2 DEF Promise!Next
  <2>5. CASE relay' = [relay EXCEPT !.cancel = "refused"]
    <3>1. relay'.cancel = "refused" /\ relay'.start = relay.start
      BY <1>1, <2>5 DEF RelayRecord
    <3> QED
      BY <1>1, <2>3, <3>1, Forgetting DEF CancelAs
  <2> QED
    BY <2>1, <2>4, <2>5
<1> QED
  BY <1>2, <1>3

(* The agent speaks or exits.                                              *)
LEMMA AgentImplements ==
  ASSUME Inv,
         \/ \E method \in Methods, good \in BOOLEAN : AgentReplies(method, good)
         \/ AgentNotifies \/ AgentExits
         \/ \E n \in Consumptions : AgentUses(n)
  PROVE  Promise!Next
<1>1. /\ agent \in AgentRecord /\ tail \in Seq(Tasks) /\ TypeOK
      /\ LogStill /\ UNCHANGED relay
  BY Types, QuietLog, AgentStep DEF Inv, AgentReplies, AgentNotifies, AgentExits, AgentUses
<1>2. ASSUME NEW task \in Tasks, Queued(task), task.kind \notin {"turn", "exit"},
             agent'.child = agent.child
      PROVE  Promise!Next
  <2>1. Ends(tail') = Ends(tail)
    BY <1>1, <1>2, EndsFacts DEF Queued
  <2> QED
    BY <1>1, <1>2, <2>1, Forgetting
<1>3. ASSUME NEW method \in Methods, NEW good \in BOOLEAN, AgentReplies(method, good)
      PROVE  Promise!Next
  <2>1. /\ [kind |-> "reply", method |-> method, good |-> good] \in Tasks
        /\ UNCHANGED agent
    BY <1>3 DEF Tasks, AgentReplies
  <2> QED
    BY <1>2, <1>3, <2>1 DEF AgentReplies
<1>4. CASE AgentNotifies
  <2>1. /\ agent'.child = agent.child /\ agent.child = "running" /\ ~relay.terminal
        /\ \/ \E n \in Writes : Queued([kind |-> "note", writes |-> n])
           \/ \E state \in TurnStates : Queued([kind |-> "turn", state |-> state])
    BY <1>1, <1>4 DEF AgentNotifies, Heard, AgentRecord
  <2>2. ASSUME NEW n \in Writes, Queued([kind |-> "note", writes |-> n]) PROVE Promise!Next
    <3>1. [kind |-> "note", writes |-> n] \in Tasks
      BY RelayAssumption DEF Tasks
    <3> QED
      BY <1>2, <2>1, <2>2, <3>1
  <2>3. ASSUME NEW state \in TurnStates, Queued([kind |-> "turn", state |-> state])
        PROVE  Promise!Next
    <3>1. [kind |-> "turn", state |-> state] \in Tasks /\ state \in Terminal
      BY RelayAssumption DEF Tasks
    <3>2. Ends(tail') = Ends(tail) \cup {state} /\ relay.state = "running"
      BY <1>1, <2>1, <2>3, <3>1, EndsFacts, Undecided DEF Queued
    <3>3. Promise!Speaks(state)
      BY <1>1, <2>1, <3>2 DEF LogStill, Promise!Speaks, Promise!log
    <3> QED
      BY <3>1, <3>3 DEF Promise!Next, Terminal
  <2> QED
    BY <2>1, <2>2, <2>3
<1>5. CASE AgentExits
  <2>1. /\ agent.child \in {"running", "killed"} /\ agent'.child = "exited"
        /\ [kind |-> "exit"] \in Tasks /\ Queued([kind |-> "exit"])
    BY <1>1, <1>5 DEF AgentExits, AgentRecord, Tasks
  <2>2. Ends(tail') = Ends(tail) \cup {"exit"}
    BY <1>1, <2>1, EndsFacts DEF Queued
  <2>3. Promise!Exits
    BY <1>1, <2>1, <2>2 DEF LogStill, Promise!Exits, Promise!log
  <2> QED
    BY <2>3 DEF Promise!Next
<1>6. ASSUME NEW n \in Consumptions, AgentUses(n) PROVE Promise!Next
  <2>1. PICK restarts \in 0 .. 1 :
          LET counter == IF restarts = 1 THEN 0 ELSE agent.counter + n IN
          /\ agent' = [agent EXCEPT !.lines = @ + 1, !.counter = counter, !.used = @ + n,
                                    !.resets = @ + restarts]
          /\ Queued([kind |-> "usage", count |-> counter])
    BY <1>6 DEF AgentUses
  <2> DEFINE counter == IF restarts = 1 THEN 0 ELSE agent.counter + n
  <2>2. counter \in Nat /\ agent'.child = agent.child
    BY <1>1, <2>1, RelayAssumption DEF AgentRecord
  <2>3. [kind |-> "usage", count |-> counter] \in Tasks
    <3> HIDE DEF counter
    <3> QED
      BY <2>2 DEF Tasks
  <2> QED
    BY <1>2, <2>1, <2>2, <2>3
<1> QED
  BY <1>3, <1>4, <1>5, <1>6

(* The tail's tasks, but for the end of the turn and of the child.         *)
LEMMA TailImplements ==
  ASSUME Inv,
         \/ HandleNote \/ HandleUsage \/ HandleEnd
         \/ NoteWritten \/ GapWritten \/ UsageRecorded \/ OverrunRecorded \/ TailRejected
  PROVE  Promise!Next
<1>1. /\ relay \in RelayRecord /\ tail \in Seq(Tasks) /\ TypeOK /\ TailInv
      /\ LogStill /\ UNCHANGED agent
  BY Types, QuietLog, TaskBeginsStep, TailAnsweredStep
     DEF Inv, HandleNote, HandleUsage, HandleEnd, NoteWritten, GapWritten, UsageRecorded,
         OverrunRecorded, TailRejected
<1>2. CASE OverrunRecorded
  <2>1. CASE MayCancel(relay)
    <3>1. relay' = Cancelling(relay, "tail") /\ UNCHANGED tail
      BY <1>2, <2>1 DEF OverrunRecorded, TaskWaits
    <3> QED
      BY <1>1, <2>1, <3>1, CancellingFacts, Cancels
  <2>2. CASE ~MayCancel(relay)
    <3>1. UNCHANGED relay /\ tail' = Tail(tail) /\ tail # << >>
      BY <1>1, <1>2, <2>2, Types DEF OverrunRecorded, TaskOver
    <3> QED
      BY <1>1, <3>1, EndsFacts, Forgetting
  <2> QED
    BY <2>1, <2>2
<1>3. CASE ~OverrunRecorded
  <2>1. relay'.start = relay.start /\ relay'.cancel = relay.cancel
    BY <1>1, <1>3 DEF HandleNote, HandleUsage, HandleEnd, NoteWritten, GapWritten, UsageRecorded,
                      TailRejected, RelayRecord
  <2>2. tail # << >>
    <3>1. CASE HandleNote \/ HandleUsage \/ HandleEnd
      BY <3>1 DEF HandleNote, HandleUsage, HandleEnd, Begins
    <3>2. CASE NoteWritten \/ GapWritten \/ UsageRecorded \/ TailRejected
      BY <3>2, CallerFacts DEF NoteWritten, GapWritten, UsageRecorded, TailRejected, Grants, Rejects
    <3> QED
      BY <1>3, <3>1, <3>2
  <2>3. CASE tail' \in {tail, Tail(tail)}
    BY <1>1, <2>1, <2>2, <2>3, EndsFacts, Forgetting
  <2>4. CASE tail' \notin {tail, Tail(tail)}
    <3>1. NoteWritten /\ handling = "writing" /\ tail' = [tail EXCEPT ![1].writes = @ - 1]
      BY <1>3, <2>4 DEF HandleNote, HandleUsage, HandleEnd, NoteWritten, GapWritten,
                        UsageRecorded, TailRejected, TaskOver, TaskWaits
    <3>2. tail[1].kind = "note" /\ 1 \in DOMAIN tail /\ tail[1] \in Tasks
      BY <1>1, <2>2, <3>1 DEF TailInv
    <3>3. /\ DOMAIN tail' = DOMAIN tail /\ tail'[1].kind = "note"
          /\ \A i \in DOMAIN tail : i # 1 => tail'[i] = tail[i]
      BY <1>1, <3>1, <3>2 DEF Tasks
    <3>4. Ends(tail') \subseteq Ends(tail)
      BY <3>2, <3>3 DEF Ends
    <3> QED
      BY <1>1, <2>1, <3>4, Forgetting
  <2> QED
    BY <2>3, <2>4
<1> QED
  BY <1>2, <1>3

-----------------------------------------------------------------------------
(* finish() begins: on a ground.                                           *)
LEMMA FinishingSeen ==
  ASSUME NEW caller \in {"start", "tail", "timer"}, NEW state \in Terminal,
         Inv, relay' = Finishing(relay, caller, state)
  PROVE  /\ relay'.state = state
         /\ StartAs(relay'.start) \in {StartAs(relay.start), "over"}
         /\ CancelAs(relay'.cancel) \in {CancelAs(relay.cancel), "over"}
<1>1. relay \in RelayRecord
  BY Types DEF Inv
<1>2. relay'.state = state /\ relay'.start \in {relay.start, "failed"}
  BY <1>1, FinishingFacts
<1>3. relay'.cancel = IF relay.cancel = "armed" THEN "cleared" ELSE relay.cancel
  BY <1>1 DEF Finishing, RelayRecord
<1> QED
  BY <1>2, <1>3 DEF StartAs, CancelAs

LEMMA Decides ==
  ASSUME Inv, ~relay.terminal,
         NEW caller \in {"start", "tail", "timer"}, NEW state \in Terminal,
         relay' = Finishing(relay, caller, state), agent' = Signalled(agent), UNCHANGED tail,
         FinishBegins(ledger) \/ FinishBegins(Answered),
         \/ state \in Ends(tail)
         \/ state = "failed" /\ (relay.start = "failing" \/ "exit" \in Ends(tail))
         \/ state = "interrupted" /\ relay.cancel = "armed"
  PROVE  Promise!Next
<1>1. /\ TypeOK /\ ledger \in LedgerRecord /\ agent \in AgentRecord
      /\ relay.state = "running"
  BY Types, Undecided DEF Inv
<1>2. /\ owned' = owned /\ http' = http
      /\ ledger'.state = ledger.state /\ ledger'.endings = ledger.endings
  BY <1>1, AnsweredFacts, AskEndingFacts DEF FinishBegins
<1>3. agent'.child = IF agent.child = "running" THEN "killed" ELSE agent.child
  BY <1>1 DEF Signalled, AgentRecord
<1>4. state \in Promise!Due
  BY DEF Promise!Due, StartAs, CancelAs, Terminal
<1>5. Promise!Decide
  BY <1>1, <1>2, <1>3, <1>4, FinishingSeen DEF Promise!Decide, Promise!Forgets, Promise!log
<1> QED
  BY <1>5 DEF Promise!Next

LEMMA BeginningImplements ==
  ASSUME Inv, StartFailed \/ GracePasses \/ EndRecorded
  PROVE  Promise!Next
<1>1. relay \in RelayRecord /\ tail \in Seq(Tasks) /\ TypeOK /\ TailInv
  BY Types DEF Inv
<1>2. QuietStep \/ FinishBegins(ledger) \/ FinishBegins(Answered)
  BY StartFailedStep, GracePassesStep, EndRecordedStep
<1>3. CASE relay.terminal
  <2>1. LogStill /\ UNCHANGED agent
    BY <1>2, <1>3, QuietLog DEF StartFailed, GracePasses, EndRecorded, FinishBegins
  <2>2. CASE StartFailed
    <3>1. UNCHANGED tail /\ relay'.start = "failed" /\ relay'.cancel = relay.cancel
      BY <1>1, <1>3, <2>2 DEF StartFailed, RelayRecord
    <3> QED
      BY <2>1, <3>1, Starts
  <2>3. CASE GracePasses
    <3>1. UNCHANGED tail /\ relay'.start = relay.start /\ relay'.cancel = "cleared"
      BY <1>1, <1>3, <2>3 DEF GracePasses, RelayRecord
    <3> QED
      BY <2>1, <3>1, Forgetting DEF CancelAs
  <2>4. CASE EndRecorded
    <3>1. UNCHANGED relay /\ tail' = Tail(tail) /\ tail # << >>
      BY <1>1, <1>3, <2>4, Types DEF EndRecorded, TaskOver
    <3> QED
      BY <1>1, <2>1, <3>1, EndsFacts, Forgetting
  <2> QED
    BY <2>2, <2>3, <2>4
<1>4. CASE ~relay.terminal
  <2>1. CASE StartFailed
    <3>1. /\ relay' = Finishing(relay, "start", "failed") /\ agent' = Signalled(agent)
          /\ UNCHANGED tail /\ relay.start = "failing"
      BY <1>4, <2>1 DEF StartFailed
    <3>2. FinishBegins(Answered)
      BY <1>1, <1>4, <2>1, <3>1, StartFailedStep, FinishingFacts DEF QuietStep, Terminal
    <3> QED
      BY <1>4, <3>1, <3>2, Decides DEF Terminal
  <2>2. CASE GracePasses
    <3>1. /\ relay' = Finishing(relay, "timer", "interrupted") /\ agent' = Signalled(agent)
          /\ UNCHANGED tail /\ relay.cancel = "armed"
      BY <1>4, <2>2 DEF GracePasses
    <3>2. FinishBegins(ledger)
      BY <1>1, <1>4, <2>2, <3>1, GracePassesStep, FinishingFacts DEF QuietStep, Terminal
    <3> QED
      BY <1>4, <3>1, <3>2, Decides DEF Terminal
  <2>3. CASE EndRecorded
    <3> DEFINE state == IF handling = "turn" THEN Task.state ELSE "failed"
    <3>1. /\ relay' = Finishing(relay, "tail", state) /\ agent' = Signalled(agent)
          /\ UNCHANGED tail /\ handling \in {"turn", "fail"} /\ tail # << >>
      BY <1>1, <1>4, <2>3, Types DEF EndRecorded, TaskWaits
    <3>2. /\ handling = "turn" => Task.kind = "turn" /\ Task.state \in Terminal
          /\ handling = "fail" => Task.kind = "exit"
      BY <1>1, <3>1 DEF TailInv, Task, Tasks
    <3>3. state \in Terminal /\ (state \in Ends(tail) \/ (state = "failed" /\ "exit" \in Ends(tail)))
      BY <1>1, <3>1, <3>2, EndsFacts DEF Task, Terminal
    <3> HIDE DEF state
    <3>4. FinishBegins(Answered)
      BY <1>1, <1>4, <2>3, <3>1, <3>3, EndRecordedStep, FinishingFacts DEF QuietStep
    <3> QED
      BY <1>4, <3>1, <3>3, <3>4, Decides
  <2> QED
    BY <2>1, <2>2, <2>3
<1> QED
  BY <1>3, <1>4

(* The rest of finish(): the ending, then the record.                      *)
LEMMA FinishAnsweredImplements ==
  ASSUME Inv, FinishGoesOn \/ FinishRejected
  PROVE  Promise!Next
<1>1. /\ relay \in RelayRecord /\ tail \in Seq(Tasks) /\ TypeOK /\ ledger \in LedgerRecord
      /\ UNCHANGED << agent, http >>
  BY Types DEF Inv, FinishGoesOn, FinishRejected
<1>2. ledger.queue # << >> /\ Oldest.who = "finish"
  BY DEF FinishGoesOn, FinishRejected, Grants, Rejects
<1>3. /\ relay.finish = "asked" /\ relay.terminal /\ relay.state \in Terminal /\ owned = TRUE
      /\ http = "no" => (Oldest.op = "save" <=> ledger.endings = 1)
  BY <1>1, <1>2, OldestFinish, Types DEF Inv, FinishInv
<1>4. relay.caller = "tail" => tail # << >>
  BY <1>2, CallerFacts, Types DEF Inv
<1>5. ASSUME CallerOfFinishGoesOn(relay) PROVE Ends(tail') \subseteq Ends(tail)
  BY <1>1, <1>4, <1>5, EndsFacts DEF CallerOfFinishGoesOn, TaskOver
<1>6. CASE FinishRejected
  <2>1. CASE Exit("crashed")
    <3>1. LogStill
      BY <1>1, <1>6, <2>1 DEF FinishRejected, LogStill, Exit, RelayRecord, LedgerRecord
    <3> QED
      BY <1>1, <2>1, <3>1, ExitForgets
  <2>2. CASE ~Exit("crashed")
    <3>1. /\ ledger' = Answered /\ relay' = Finished(relay, "lost")
          /\ CallerOfFinishGoesOn(relay) /\ owned' = owned
      BY <1>6, <2>2 DEF FinishRejected
    <3>2. /\ relay'.state = relay.state /\ relay'.start \in {relay.start, "failed"}
          /\ relay'.cancel = relay.cancel
      BY <1>1, <3>1, FinishedFacts
    <3>3. LogStill
      BY <1>1, <1>2, <3>1, <3>2, AnsweredFacts DEF LogStill
    <3> QED
      BY <1>1, <1>5, <3>1, <3>2, <3>3, Forgetting DEF StartAs
  <2> QED
    BY <2>1, <2>2
<1>7. CASE FinishGoesOn
  <2>1. Ending("finish", relay.state)
    BY <1>7 DEF FinishGoesOn
  <2>2. \/ Oldest.op = "gap" /\ ledger'.state = ledger.state /\ ledger'.endings = ledger.endings
        \/ /\ Oldest.op = "event" /\ ledger'.state = ledger.state
           /\ ledger'.endings = ledger.endings + 1
        \/ /\ Oldest.op = "save" /\ ledger'.state = relay.state
           /\ ledger'.endings = ledger.endings
    BY <1>1, <1>2, <1>3, <2>1, EndingFacts DEF Callers
  <2>3. CASE Oldest.op # "save"
    <3>1. UNCHANGED << relay, owned, tail >>
      BY <1>7, <2>3 DEF FinishGoesOn
    <3>2. CASE Oldest.op = "gap"
      BY <1>1, <2>2, <3>1, <3>2, Forgetting DEF LogStill
    <3>3. CASE Oldest.op = "event"
      <4>1. relay.state # "running" /\ (ledger.endings = 0 \/ http # "no")
        <5>1. http = "no" => ledger.endings <= 1 /\ ledger.endings # 1
          BY <1>3, <3>3 DEF Inv, EndingInv
        <5>2. ledger.endings \in Nat
          BY <1>1 DEF LedgerRecord
        <5> QED
          BY <1>3, <5>1, <5>2 DEF Terminal
      <4>2. ledger'.state = ledger.state /\ ledger'.endings = ledger.endings + 1
        BY <2>2, <3>3
      <4>3. Promise!Write
        BY <1>1, <3>1, <4>1, <4>2 DEF Promise!Write, Promise!Forgets
      <4> QED
        BY <4>3 DEF Promise!Next
    <3> QED
      BY <2>2, <2>3, <3>2, <3>3
  <2>4. CASE Oldest.op = "save"
    <3>1. relay' = Finished(relay, "done") /\ owned' = FALSE /\ CallerOfFinishGoesOn(relay)
      BY <1>7, <2>4 DEF FinishGoesOn
    <3>2. /\ relay'.state = relay.state /\ relay'.start \in {relay.start, "failed"}
          /\ relay'.cancel = relay.cancel
      BY <1>1, <3>1, FinishedFacts
    <3>3. relay.state # "running" /\ (ledger.endings = 1 \/ http # "no")
      BY <1>3, <2>4 DEF Terminal
    <3>4. Promise!Release
      BY <1>1, <1>3, <1>5, <2>2, <2>4, <3>1, <3>2, <3>3
         DEF Promise!Release, Promise!Forgets, StartAs
    <3> QED
      BY <3>4 DEF Promise!Next
  <2> QED
    BY <2>3, <2>4
<1> QED
  BY <1>6, <1>7

(* Somebody else completes the session.                                    *)
LEMMA HttpImplements ==
  ASSUME Inv, HttpCompletes \/ HttpGoesOn \/ HttpRejected
  PROVE  Promise!Next
<1>1. /\ TypeOK /\ ledger \in LedgerRecord /\ UNCHANGED << relay, agent, tail, owned >>
  BY Types DEF Inv, HttpCompletes, HttpGoesOn, HttpRejected
<1>2. http' # "no"
  BY HttpStepFacts DEF HttpStep
<1>3. \/ ledger'.state = ledger.state /\ ledger'.endings = ledger.endings
      \/ /\ http # "no"
         /\ \/ ledger'.state = ledger.state /\ ledger'.endings = ledger.endings + 1
            \/ ledger'.state = "completed" /\ ledger'.endings = ledger.endings
  <2>1. CASE HttpCompletes
    <3> DEFINE op == IF ledger.usage = "unknown" THEN "gap" ELSE "event"
    <3>1. ledger' = Ask(ledger, "http", op, 0) /\ "http" \in Callers /\ op \in Operations
      BY <2>1 DEF HttpCompletes, Callers, Operations
    <3> HIDE DEF op
    <3> QED
      BY <1>1, <3>1, AskFacts
  <2>2. CASE HttpGoesOn
    <3>1. ledger.queue # << >> /\ Oldest.who = "http" /\ Ending("http", "completed")
      BY <2>2 DEF HttpGoesOn, Grants
    <3>2. http # "no"
      <4>1. /\ 1 \in DOMAIN ledger.queue /\ ledger.queue[1] = Oldest
        BY <1>1, <3>1 DEF LedgerRecord, Oldest
      <4> QED
        BY <3>1, <4>1 DEF Inv, FinishInv, OneFinish
    <3> QED
      BY <1>1, <3>1, <3>2, EndingFacts DEF Callers, Terminal
  <2>3. CASE HttpRejected
    BY <1>1, <2>3, AnsweredFacts DEF HttpRejected, Rejects
  <2> QED
    BY <2>1, <2>2, <2>3
<1>4. Promise!OtherCompletes
  BY <1>1, <1>2, <1>3 DEF Promise!OtherCompletes, Promise!grounds
<1> QED
  BY <1>4 DEF Promise!Next

LEMMA StepImplements ==
  Inv /\ [Next]_vars =>
    [Promise!Next]_<< agent.child, Promise!grounds, relay.state, Promise!log >>
<1>1. SUFFICES ASSUME Inv, [Next]_vars
               PROVE  \/ Promise!Next
                      \/ UNCHANGED << agent.child, Promise!grounds, relay.state, Promise!log >>
  OBVIOUS
<1>2. CASE UNCHANGED vars
  BY <1>2 DEF vars, Promise!grounds, Promise!log
<1>3. CASE Spawn \/ InstructionLoaded \/ TurnAnnounced \/ StartRejected
  BY <1>1, <1>3, StartImplements
<1>4. CASE StartFailed \/ GracePasses \/ EndRecorded
  BY <1>1, <1>4, BeginningImplements
<1>5. CASE InterruptRequested \/ CancelRejected
  BY <1>1, <1>5, CancelAnsweredImplements
<1>6. CASE \/ HandleNote \/ HandleUsage \/ HandleEnd
           \/ NoteWritten \/ GapWritten \/ UsageRecorded \/ OverrunRecorded \/ TailRejected
  BY <1>1, <1>6, TailImplements
<1>7. CASE FinishGoesOn \/ FinishRejected
  BY <1>1, <1>7, FinishAnsweredImplements
<1>8. CASE HttpCompletes \/ HttpGoesOn \/ HttpRejected
  BY <1>1, <1>8, HttpImplements
<1>9. CASE HandleReply \/ Timeouts
  BY <1>1, <1>9, ReplyImplements
<1>10. CASE UserCancels \/ DurationPasses \/ (Shutdown /\ ~Exit("down"))
  BY <1>1, <1>10, CancelImplements
<1>11. CASE Shutdown /\ Exit("down")
  <2>1. LogStill /\ UNCHANGED agent
    BY <1>1, <1>11, Types DEF Inv, Shutdown, Exit, LogStill, RelayRecord, LedgerRecord
  <2> QED
    BY <1>1, <1>11, <2>1, ExitForgets
<1>12. CASE \/ \E method \in Methods, good \in BOOLEAN : AgentReplies(method, good)
            \/ AgentNotifies \/ AgentExits
            \/ \E n \in Consumptions : AgentUses(n)
  BY <1>1, <1>12, AgentImplements
<1> QED
  BY <1>1, <1>2, <1>3, <1>4, <1>5, <1>6, <1>7, <1>8, <1>9, <1>10, <1>11, <1>12
     DEF Next, LedgerAnswers, TailWorks, Environment

LEMMA InitImplements == Init => Promise!Init
<1>1. SUFFICES ASSUME Init PROVE Promise!Init
  OBVIOUS
<1>2. /\ agent.child = "none" /\ relay.start = "announcing" /\ relay.cancel = "no"
      /\ relay.state = "running" /\ ledger.endings = 0 /\ ledger.state = "running"
      /\ owned = TRUE /\ http = "no" /\ tail = << >>
  BY <1>1 DEF Init, Ask
<1>3. Ends(tail) = {}
  BY <1>2 DEF Ends
<1> QED
  BY <1>2, <1>3 DEF Promise!Init, StartAs, CancelAs

(* Whatever cancels, exits, replies, timers and rejections come first, for *)
(* any number of them, a relay implements RelayEnding: its session's state *)
(* is decided once, on a ground the relay has then, the agent is stopped   *)
(* with it and never spawned later, and the relay is forgotten last.       *)
THEOREM Refinement == Spec => ImplementsRelayEnding
<1>1. Spec => []Inv
  BY Invariance
<1>2. Init => Promise!Init
  BY InitImplements
<1>3. Inv /\ [Next]_vars =>
        [Promise!Next]_<< agent.child, Promise!grounds, relay.state, Promise!log >>
  BY StepImplements
<1> QED
  BY <1>1, <1>2, <1>3, PTL DEF Spec, ImplementsRelayEnding, Promise!Spec
=============================================================================
