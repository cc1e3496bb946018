------------------------ MODULE EvidenceLedgerProofs ------------------------
(***************************************************************************)
(* Proofs about EvidenceLedger for any number of calls, readers, restarts  *)
(* and rejected writes.  The inductive invariant, Inv, is a conjunction of *)
(* parts about the queue, the creation, the counts, the endings and the    *)
(* numbering; each part is shown to be kept by every action on its own.    *)
(* Then EvidenceLedger is shown to implement SessionLog: every step of the *)
(* ledger is a step of the abstract log or changes neither the log nor     *)
(* what callers were told.  Last, the usage total is accounted for.        *)
(***************************************************************************)
EXTENDS EvidenceLedger, Functions, TLAPS

-----------------------------------------------------------------------------
(* Every copy of the record: stored, cached, worked on or read.            *)
Copies == {disk, cache, held} \cup {reader[r].record : r \in Readers}

(* A call has one task queued at most, and is not answered before it.      *)
QueueInv ==
  \A i \in DOMAIN chain :
    /\ status[chain[i].op] = "pending" /\ calls[chain[i].op] # NoRequest
    /\ \A j \in DOMAIN chain : chain[j].op = chain[i].op => j = i

(* A call that was not made asks for nothing.                              *)
FreshInv == \A o \in Ops : status[o] = "new" => calls[o] = NoRequest

(* A session is created once, and until its record is stored only its      *)
(* creation is queued and nothing is in its log.                           *)
CreationInv ==
  /\ disk = None =>
       /\ lines = << >>
       /\ \A i \in DOMAIN chain :
            i = 1 /\ chain[i].part = "save" /\ calls[chain[i].op] = CreateRequest
  /\ disk # None => \E x \in Ops : calls[x] = CreateRequest
  /\ \A i \in DOMAIN chain :
       chain[i].part = "save" /\ calls[chain[i].op] = CreateRequest => disk = None

(* No copy counts an event that is not in the log.                         *)
CountInv == \A record \in Copies : record # None => record.eventCount <= Len(lines)

(* No copy is terminal, and no completion is about to store a terminal     *)
(* state, before the log has the event.                                    *)
CopiesBacked ==
  \A record \in Copies : record # None /\ record.state \in Terminal => Ended(record.state)

CompletionsBacked ==
  \A i \in DOMAIN chain :
    chain[i].part = "save" /\ calls[chain[i].op].call = "complete" =>
      Ended(calls[chain[i].op].state)

LineWritten ==
  phase = "saving" /\ Running.part = "append" =>
    \E i \in DOMAIN lines : lines[i].kind = Asked.kind

BackedInv == CopiesBacked /\ CompletionsBacked /\ LineWritten

(* Until the first restart the cache is the newest copy and counts the     *)
(* log exactly, and a terminal one lets only decisions through.            *)
NumberInv ==
  crashes = 0 =>
    /\ \A i \in DOMAIN lines : lines[i].sequence = i
    /\ cache = None => disk = None
    /\ cache # None => cache.eventCount = Len(lines)
    /\ phase # "idle" => held = cache
    /\ \A r \in Readers : reader[r].at # "loading"

FrozenInv ==
  crashes = 0 =>
    /\ disk # None /\ disk.state \in Terminal => cache # None /\ cache.state \in Terminal
    /\ phase = "appending" /\ held.state \in Terminal => Asked.kind = "policy.decision"

(* A reader has a record, and what it answered was in the log by then.     *)
AnswerInv ==
  \A r \in Readers :
    /\ reader[r].at # "idle" => reader[r].record # None
    /\ reader[r].at = "answered" =>
         /\ reader[r].count <= Len(lines)
         /\ reader[r].record.state \in Terminal =>
              \E i \in 1 .. reader[r].count : lines[i].kind = TerminalKind[reader[r].record.state]

Inv ==
  /\ TypeOK /\ QueueInv /\ FreshInv /\ CreationInv
  /\ CountInv /\ BackedInv /\ NumberInv /\ FrozenInv
  /\ AnswerInv

-----------------------------------------------------------------------------
(* What a request is, whichever call makes it.                             *)
LEMMA RequestFacts ==
  ASSUME NEW r \in Requests \cup {NoRequest}
  PROVE  /\ r.kind \in Kinds /\ r.state \in States /\ r.tokens \in Nat
         /\ r.call = "createSession" <=> r = CreateRequest
         /\ r.call = "complete" => r.state \in Terminal /\ r.kind = TerminalKind[r.state]
<1> USE LedgerAssumption DEF Request, NoRequest, CreateRequest, States
<1>1. CASE r \in {NoRequest, CreateRequest}
  BY <1>1 DEF Kinds
<1>2. CASE r \in {Request("append", k, "running", 0) : k \in AppendKinds}
  BY <1>2 DEF Kinds
<1>3. CASE r \in {Request("complete", TerminalKind[s], s, 0) : s \in Endings}
  BY <1>3 DEF Kinds
<1>4. CASE r \in {Request("recordUsage", "usage.reported", "running", n) : n \in TokenCounts}
  BY <1>4 DEF Kinds
<1>5. CASE r \in {Request("recordUsageUnknown", "usage.unavailable", "running", 0)}
  BY <1>5 DEF Kinds
<1> QED
  BY <1>1, <1>2, <1>3, <1>4, <1>5 DEF Requests, CallRequests

(* The second task of a call saves, except that a creation's appends.      *)
LEMMA PartsFacts ==
  ASSUME NEW call
  PROVE  /\ Parts(call)[1] \in {"append", "save"}
         /\ Parts(call)[1] = "save" <=> call = "createSession"
         /\ Len(Parts(call)) = 2 => Parts(call)[2] \in {"append", "save"}
         /\ Len(Parts(call)) = 2 => (Parts(call)[2] = "append" <=> call = "createSession")
<1>1. CASE call = "append"
  BY <1>1 DEF Parts
<1>2. CASE call = "createSession"
  BY <1>2 DEF Parts
<1>3. CASE call \notin {"append", "createSession"}
  BY <1>3 DEF Parts
<1> QED
  BY <1>1, <1>2, <1>3

(* The running task and its request are typed.                             *)
LEMMA RunningFacts ==
  ASSUME TypeOK, chain # << >>
  PROVE  /\ Len(chain) \in Nat /\ 1 \in DOMAIN chain /\ Running = chain[1]
         /\ Running \in Task /\ Running.op \in Ops /\ Running.part \in {"append", "save"}
         /\ Asked \in Requests \cup {NoRequest} /\ Asked = calls[chain[1].op]
<1>1. chain \in Seq(Task) /\ calls \in [Ops -> Requests \cup {NoRequest}]
  BY DEF TypeOK, ChainTypeOK, CallsTypeOK
<1>2. Len(chain) \in Nat /\ 1 \in DOMAIN chain /\ Running = chain[1] /\ chain[1] \in Task
  BY <1>1 DEF Running
<1>3. chain[1].op \in Ops /\ chain[1].part \in {"append", "save"}
  BY <1>2 DEF Task
<1> QED
  BY <1>1, <1>2, <1>3 DEF Asked

(* Every queued task is one of a call.                                     *)
LEMMA ChainFacts ==
  ASSUME TypeOK
  PROVE  \A i \in DOMAIN chain :
           i \in Nat \ {0} /\ chain[i].op \in Ops /\ chain[i].part \in {"append", "save"}
<1>1. \A i \in DOMAIN chain : i \in Nat \ {0} /\ chain[i] \in Task
  BY DEF TypeOK, ChainTypeOK
<1> QED
  BY <1>1 DEF Task

(* When a task throws, the others move up and its caller is told.          *)
LEMMA ThrowFacts ==
  ASSUME TypeOK, chain # << >>, TaskThrows
  PROVE  /\ chain' \in Seq(Task) /\ phase' = "idle" /\ held' = None
         /\ \A i \in DOMAIN chain' : i + 1 \in DOMAIN chain /\ chain'[i] = chain[i + 1]
         /\ status' = [status EXCEPT ![Running.op] = "failed"]
BY DEF TypeOK, ChainTypeOK, TaskThrows

(* When a task is done, the others move up, and its caller is either       *)
(* answered or has its second task queued.                                 *)
LEMMA DoneFacts ==
  ASSUME TypeOK, chain # << >>, TaskDone
  PROVE  /\ chain' \in Seq(Task) /\ phase' = "idle" /\ held' = None
         /\ \/ /\ \A i \in DOMAIN chain' : i + 1 \in DOMAIN chain /\ chain'[i] = chain[i + 1]
               /\ status' = [status EXCEPT ![Running.op] = "ok"]
            \/ /\ UNCHANGED status
               /\ Running.part = Parts(Asked.call)[1] /\ Len(Parts(Asked.call)) = 2
               /\ Len(chain') = Len(chain)
               /\ chain'[Len(chain)] = [op |-> Running.op, part |-> Parts(Asked.call)[2]]
               /\ \A i \in DOMAIN chain' :
                    \/ i = Len(chain)
                    \/ i + 1 \in DOMAIN chain /\ chain'[i] = chain[i + 1]
<1> DEFINE next == [op |-> Running.op, part |-> Parts(Asked.call)[2]]
<1>1. Running.op \in Ops /\ chain \in Seq(Task)
  BY RunningFacts DEF TypeOK, ChainTypeOK
<1>2. phase' = "idle" /\ held' = None
  BY DEF TaskDone
<1>3. CASE Running.part = Parts(Asked.call)[1] /\ Len(Parts(Asked.call)) = 2
  <2>1. chain' = Append(Tail(chain), next) /\ UNCHANGED status
    BY <1>3 DEF TaskDone
  <2>2. next \in Task
    BY <1>1, <1>3, PartsFacts DEF Task
  <2> HIDE DEF next
  <2>3. chain' \in Seq(Task) /\ Len(chain') = Len(chain) /\ chain'[Len(chain)] = next
    BY <1>1, <2>1, <2>2
  <2>4. \A i \in DOMAIN chain' :
           i = Len(chain) \/ (i + 1 \in DOMAIN chain /\ chain'[i] = chain[i + 1])
    BY <1>1, <2>1, <2>2
  <2> QED
    BY <1>2, <1>3, <2>1, <2>3, <2>4 DEF next
<1>4. CASE ~(Running.part = Parts(Asked.call)[1] /\ Len(Parts(Asked.call)) = 2)
  <2>1. chain' = Tail(chain) /\ status' = [status EXCEPT ![Running.op] = "ok"]
    BY <1>4 DEF TaskDone
  <2> QED
    BY <1>1, <1>2, <2>1
<1> QED
  BY <1>3, <1>4

(* A record that is not None is one.                                       *)
LEMMA CurrentFacts ==
  ASSUME TypeOK
  PROVE  /\ Current \in MaybeRecord /\ Current \in {cache, disk}
         /\ Current # None => Current \in Record
         /\ cache # None => cache \in Record
         /\ disk # None => disk \in Record
         /\ held # None => held \in Record
BY DEF TypeOK, RecordsTypeOK, Current, MaybeRecord

(* What a save task stores is a record with the count it started from, and *)
(* terminal only if that was or the call completes the session.            *)
LEMMA UpdatedFacts ==
  ASSUME NEW record, NEW r \in Requests \cup {NoRequest}, r # CreateRequest => record \in Record
  PROVE  /\ Updated(record, r) \in Record
         /\ r = CreateRequest => Updated(record, r) = NewRecord
         /\ r # CreateRequest => Updated(record, r).eventCount = record.eventCount
         /\ r # CreateRequest /\ record.state \in Terminal =>
              Updated(record, r).state \in Terminal
         /\ r # CreateRequest /\ Updated(record, r).state \in Terminal =>
              \/ Updated(record, r).state = record.state
              \/ r.call = "complete" /\ Updated(record, r).state = r.state
<1>1. /\ r.state \in States /\ r.tokens \in Nat
      /\ r.call = "createSession" <=> r = CreateRequest
      /\ r.call = "complete" => r.state \in Terminal
  BY RequestFacts
<1>2. NewRecord \in Record
  BY DEF NewRecord, Record, States
<1>3. CASE r.call = "createSession"
  BY <1>1, <1>2, <1>3 DEF Updated
<1>4. CASE r.call = "complete"
  BY <1>1, <1>4 DEF Updated, Record
<1>5. CASE r.call = "recordUsage"
  <2> DEFINE total == (IF record.usage = None THEN 0 ELSE record.usage) + r.tokens
  <2>1. record \in Record /\ Updated(record, r) = [record EXCEPT !.usage = total]
    BY <1>1, <1>5 DEF Updated
  <2>2. total \in Nat
    BY <1>1, <2>1, LedgerAssumption DEF Record
  <2> HIDE DEF total
  <2> QED
    BY <1>1, <1>5, <2>1, <2>2 DEF Record
<1>6. CASE r.call \notin {"createSession", "complete", "recordUsage"}
  BY <1>1, <1>6 DEF Updated
<1> QED
  BY <1>3, <1>4, <1>5, <1>6

-----------------------------------------------------------------------------
(* The running task has a record of its own, whatever it is doing.         *)
LEMMA PhaseFacts ==
  ASSUME TypeOK, phase # "idle"
  PROVE  chain # << >> /\ held \in Record
BY CurrentFacts DEF TypeOK, ChainTypeOK

(* Every step keeps the types.                                             *)
LEMMA TypeStep == TypeOK /\ [Next]_vars => TypeOK'
<1> SUFFICES ASSUME TypeOK, [Next]_vars PROVE TypeOK'
  OBVIOUS
<1> USE LedgerAssumption DEF TypeOK
<1>1. CASE UNCHANGED vars
  <2>1. RecordsTypeOK'
    BY <1>1 DEF vars, RecordsTypeOK
  <2>2. ChainTypeOK'
    BY <1>1 DEF vars, ChainTypeOK
  <2>3. CallsTypeOK'
    BY <1>1 DEF vars, CallsTypeOK
  <2>4. ReadersTypeOK'
    BY <1>1 DEF vars, ReadersTypeOK
  <2>5. BoundsTypeOK'
    BY <1>1 DEF vars, BoundsTypeOK
  <2> QED
    BY <2>1, <2>2, <2>3, <2>4, <2>5
<1>2. ASSUME NEW o \in Ops, NEW r \in Requests, Call(o, r) PROVE TypeOK'
  <2> DEFINE task == [op |-> o, part |-> Parts(r.call)[1]]
  <2>0. task \in Task
    BY PartsFacts DEF Task
  <2>1. RecordsTypeOK'
    BY <1>2 DEF Call, RecordsTypeOK
  <2>2. ChainTypeOK'
    <3>1. chain' = Append(chain, task) /\ phase' = phase /\ held' = held
      BY <1>2 DEF Call
    <3> HIDE DEF task
    <3> QED
      BY <2>0, <3>1 DEF ChainTypeOK
  <2>3. CallsTypeOK'
    BY <1>2 DEF Call, CallsTypeOK
  <2>4. ReadersTypeOK'
    BY <1>2 DEF Call, ReadersTypeOK
  <2>5. BoundsTypeOK'
    BY <1>2 DEF Call, BoundsTypeOK
  <2> QED
    BY <2>1, <2>2, <2>3, <2>4, <2>5
<1>3. CASE BeginAppend
  <2>1. RecordsTypeOK'
    BY <1>3, CurrentFacts DEF BeginAppend, RecordsTypeOK
  <2>2. ChainTypeOK'
    BY <1>3 DEF BeginAppend, Begin, Running, ChainTypeOK
  <2>3. CallsTypeOK'
    BY <1>3 DEF BeginAppend, CallsTypeOK
  <2>4. ReadersTypeOK'
    BY <1>3 DEF BeginAppend, ReadersTypeOK
  <2>5. BoundsTypeOK'
    BY <1>3 DEF BeginAppend, BoundsTypeOK
  <2> QED
    BY <2>1, <2>2, <2>3, <2>4, <2>5
<1>4. CASE RefuseAppend
  <2>0. chain # << >> /\ TaskThrows /\ UNCHANGED calls
    BY <1>4, PhaseFacts DEF RefuseAppend, Begin
  <2>1. RecordsTypeOK'
    BY <1>4, CurrentFacts DEF RefuseAppend, TaskThrows, RecordsTypeOK, MaybeRecord
  <2>2. ChainTypeOK'
    BY <2>0, ThrowFacts DEF ChainTypeOK
  <2>3. CallsTypeOK'
    BY <2>0, RunningFacts, ThrowFacts DEF RefuseAppend, CallsTypeOK
  <2>4. ReadersTypeOK'
    BY <1>4 DEF RefuseAppend, ReadersTypeOK
  <2>5. BoundsTypeOK'
    BY <1>4 DEF RefuseAppend, BoundsTypeOK
  <2> QED
    BY <2>1, <2>2, <2>3, <2>4, <2>5
<1>5. CASE AppendLine
  <2> DEFINE counted == [held EXCEPT !.eventCount = @ + 1]
             line == [sequence |-> counted.eventCount, kind |-> Asked.kind,
                      op |-> Running.op, tokens |-> Asked.tokens]
  <2>0. chain # << >> /\ held \in Record
    BY <1>5, PhaseFacts DEF AppendLine
  <2>6. counted \in Record /\ counted.eventCount \in Nat \ {0}
    BY <2>0 DEF Record
  <2>7. line \in Line
    BY <2>0, <2>6, RunningFacts, RequestFacts DEF Line
  <2>8. /\ lines' = Append(lines, line) /\ cache' = counted /\ held' = counted
        /\ UNCHANGED disk
    BY <1>5 DEF AppendLine
  <2>1. RecordsTypeOK'
    <3> HIDE DEF line, counted
    <3> QED
      BY <2>6, <2>7, <2>8 DEF RecordsTypeOK, MaybeRecord
  <2>2. ChainTypeOK'
    BY <1>5, <2>0, <2>6, <2>8, LedgerAssumption DEF AppendLine, ChainTypeOK
  <2>3. CallsTypeOK'
    BY <1>5 DEF AppendLine, CallsTypeOK
  <2>4. ReadersTypeOK'
    BY <1>5 DEF AppendLine, ReadersTypeOK
  <2>5. BoundsTypeOK'
    BY <1>5 DEF AppendLine, BoundsTypeOK
  <2> QED
    BY <2>1, <2>2, <2>3, <2>4, <2>5
<1>6. CASE BeginSave
  <2>0. chain # << >> /\ Updated(Current, Asked) \in Record
    BY <1>6, CurrentFacts, RunningFacts, UpdatedFacts DEF BeginSave, Begin
  <2>1. RecordsTypeOK'
    BY <1>6, <2>0 DEF BeginSave, RecordsTypeOK, MaybeRecord
  <2>2. ChainTypeOK'
    BY <1>6, <2>0, LedgerAssumption DEF BeginSave, ChainTypeOK
  <2>3. CallsTypeOK'
    BY <1>6 DEF BeginSave, CallsTypeOK
  <2>4. ReadersTypeOK'
    BY <1>6 DEF BeginSave, ReadersTypeOK
  <2>5. BoundsTypeOK'
    BY <1>6 DEF BeginSave, BoundsTypeOK
  <2> QED
    BY <2>1, <2>2, <2>3, <2>4, <2>5
<1>7. CASE Save
  <2>0. chain # << >> /\ TaskDone /\ UNCHANGED calls
    BY <1>7, PhaseFacts DEF Save, Begin
  <2>1. RecordsTypeOK'
    <3>1. held \in Record /\ held' = None
      BY <1>7, PhaseFacts, <2>0, DoneFacts DEF Save
    <3> QED
      BY <1>7, <3>1 DEF Save, RecordsTypeOK, MaybeRecord
  <2>2. ChainTypeOK'
    BY <2>0, DoneFacts DEF ChainTypeOK
  <2>3. CallsTypeOK'
    BY <2>0, RunningFacts, DoneFacts DEF Save, CallsTypeOK
  <2>4. ReadersTypeOK'
    BY <1>7 DEF Save, ReadersTypeOK
  <2>5. BoundsTypeOK'
    BY <1>7 DEF Save, BoundsTypeOK
  <2> QED
    BY <2>1, <2>2, <2>3, <2>4, <2>5
<1>8. CASE AppendLineRejects
  <2>0. chain # << >> /\ TaskThrows /\ UNCHANGED calls
    BY <1>8, PhaseFacts DEF AppendLineRejects, Begin
  <2>1. RecordsTypeOK'
    BY <1>8, CurrentFacts DEF AppendLineRejects, TaskThrows, RecordsTypeOK, MaybeRecord
  <2>2. ChainTypeOK'
    BY <2>0, ThrowFacts DEF ChainTypeOK
  <2>3. CallsTypeOK'
    BY <2>0, RunningFacts, ThrowFacts DEF AppendLineRejects, CallsTypeOK
  <2>4. ReadersTypeOK'
    BY <1>8 DEF AppendLineRejects, ReadersTypeOK
  <2>5. BoundsTypeOK'
    BY <1>8 DEF AppendLineRejects, BoundsTypeOK
  <2> QED
    BY <2>1, <2>2, <2>3, <2>4, <2>5
<1>9. CASE SaveRejects
  <2>0. chain # << >> /\ TaskThrows /\ UNCHANGED calls
    BY <1>9, PhaseFacts DEF SaveRejects, Begin
  <2>1. RecordsTypeOK'
    BY <1>9, CurrentFacts DEF SaveRejects, TaskThrows, RecordsTypeOK, MaybeRecord
  <2>2. ChainTypeOK'
    BY <2>0, ThrowFacts DEF ChainTypeOK
  <2>3. CallsTypeOK'
    BY <2>0, RunningFacts, ThrowFacts DEF SaveRejects, CallsTypeOK
  <2>4. ReadersTypeOK'
    BY <1>9 DEF SaveRejects, ReadersTypeOK
  <2>5. BoundsTypeOK'
    BY <1>9 DEF SaveRejects, BoundsTypeOK
  <2> QED
    BY <2>1, <2>2, <2>3, <2>4, <2>5
<1>10. ASSUME NEW r \in Readers, ReadCached(r) PROVE TypeOK'
  <2>1. RecordsTypeOK'
    BY <1>10 DEF ReadCached, RecordsTypeOK
  <2>2. ChainTypeOK'
    BY <1>10 DEF ReadCached, ChainTypeOK
  <2>3. CallsTypeOK'
    BY <1>10 DEF ReadCached, CallsTypeOK
  <2>4. ReadersTypeOK'
    BY <1>10, CurrentFacts DEF ReadCached, ReadersTypeOK, RecordsTypeOK
  <2>5. BoundsTypeOK'
    BY <1>10 DEF ReadCached, BoundsTypeOK
  <2> QED
    BY <2>1, <2>2, <2>3, <2>4, <2>5
<1>11. ASSUME NEW r \in Readers, ReadStored(r) PROVE TypeOK'
  <2>1. RecordsTypeOK'
    BY <1>11 DEF ReadStored, RecordsTypeOK
  <2>2. ChainTypeOK'
    BY <1>11 DEF ReadStored, ChainTypeOK
  <2>3. CallsTypeOK'
    BY <1>11 DEF ReadStored, CallsTypeOK
  <2>4. ReadersTypeOK'
    BY <1>11, CurrentFacts DEF ReadStored, ReadersTypeOK, RecordsTypeOK
  <2>5. BoundsTypeOK'
    BY <1>11 DEF ReadStored, BoundsTypeOK
  <2> QED
    BY <2>1, <2>2, <2>3, <2>4, <2>5
<1>12. ASSUME NEW r \in Readers, CacheStored(r) PROVE TypeOK'
  <2>1. RecordsTypeOK'
    BY <1>12 DEF CacheStored, RecordsTypeOK, ReadersTypeOK
  <2>2. ChainTypeOK'
    BY <1>12 DEF CacheStored, ChainTypeOK
  <2>3. CallsTypeOK'
    BY <1>12 DEF CacheStored, CallsTypeOK
  <2>4. ReadersTypeOK'
    BY <1>12 DEF CacheStored, ReadersTypeOK
  <2>5. BoundsTypeOK'
    BY <1>12 DEF CacheStored, BoundsTypeOK
  <2> QED
    BY <2>1, <2>2, <2>3, <2>4, <2>5
<1>13. ASSUME NEW r \in Readers, ListEvents(r) PROVE TypeOK'
  <2>1. RecordsTypeOK'
    BY <1>13 DEF ListEvents, RecordsTypeOK
  <2>2. ChainTypeOK'
    BY <1>13 DEF ListEvents, ChainTypeOK
  <2>3. CallsTypeOK'
    BY <1>13 DEF ListEvents, CallsTypeOK
  <2>4. ReadersTypeOK'
    <3>1. Len(lines) \in Nat
      BY DEF RecordsTypeOK
    <3> QED
      BY <1>13, <3>1 DEF ListEvents, ReadersTypeOK
  <2>5. BoundsTypeOK'
    BY <1>13 DEF ListEvents, BoundsTypeOK
  <2> QED
    BY <2>1, <2>2, <2>3, <2>4, <2>5
<1>14. CASE Crash
  <2>1. RecordsTypeOK'
    BY <1>14 DEF Crash, RecordsTypeOK, MaybeRecord
  <2>2. ChainTypeOK'
    BY <1>14 DEF Crash, ChainTypeOK
  <2>3. CallsTypeOK'
    BY <1>14 DEF Crash, CallsTypeOK
  <2>4. ReadersTypeOK'
    BY <1>14 DEF Crash, ReadersTypeOK, IdleReader, MaybeRecord
  <2>5. BoundsTypeOK'
    BY <1>14 DEF Crash, BoundsTypeOK
  <2> QED
    BY <2>1, <2>2, <2>3, <2>4, <2>5
<1> QED
  BY <1>1, <1>2, <1>3, <1>4, <1>5, <1>6, <1>7, <1>8, <1>9, <1>10, <1>11, <1>12, <1>13, <1>14
  DEF Next, Work

-----------------------------------------------------------------------------
(* A new call joins behind the others and leaves theirs alone.             *)
LEMMA CallFacts ==
  ASSUME TypeOK, QueueInv, NEW o \in Ops, NEW r \in Requests, Call(o, r)
  PROVE  /\ \A i \in DOMAIN chain' :
              \/ i \in DOMAIN chain /\ chain'[i] = chain[i] /\ calls'[chain[i].op] = calls[chain[i].op]
              \/ i = Len(chain) + 1 /\ chain'[i] = [op |-> o, part |-> Parts(r.call)[1]]
         /\ calls'[o] = r /\ \A x \in Ops \ {o} : calls'[x] = calls[x]
         /\ chain # << >> => Running' = Running /\ Asked' = Asked
<1> DEFINE task == [op |-> o, part |-> Parts(r.call)[1]]
<1>1. /\ chain' = Append(chain, task) /\ status[o] = "new"
      /\ calls' = [calls EXCEPT ![o] = r]
  BY DEF Call
<1>2. chain \in Seq(Task) /\ task \in Task
  BY PartsFacts DEF TypeOK, ChainTypeOK, Task
<1>3. \A i \in DOMAIN chain : chain[i].op \in Ops \ {o}
  BY <1>1, ChainFacts DEF QueueInv
<1>4. calls'[o] = r /\ \A x \in Ops \ {o} : calls'[x] = calls[x]
  BY <1>1 DEF TypeOK, CallsTypeOK
<1> HIDE DEF task
<1>5. \A i \in DOMAIN chain' :
         \/ i \in DOMAIN chain /\ chain'[i] = chain[i]
         \/ i = Len(chain) + 1 /\ chain'[i] = task
  BY <1>1, <1>2
<1>6. ASSUME chain # << >> PROVE Running' = Running /\ Asked' = Asked
  <2>1. Running' = Running
    BY <1>1, <1>2, <1>6 DEF Running
  <2>2. Running.op \in Ops \ {o}
    BY <1>3, <1>6, RunningFacts
  <2> QED
    BY <1>4, <2>1, <2>2 DEF Asked
<1> QED
  BY <1>3, <1>4, <1>5, <1>6 DEF task

(* A line is added behind the others.                                      *)
LEMMA LineFacts ==
  ASSUME TypeOK, AppendLine
  PROVE  /\ Len(lines) \in Nat /\ Len(lines') = Len(lines) + 1
         /\ \A i \in DOMAIN lines : i \in DOMAIN lines' /\ lines'[i] = lines[i]
         /\ \A i \in DOMAIN lines' : i \in DOMAIN lines \/ i = Len(lines) + 1
         /\ Len(lines) + 1 \in DOMAIN lines'
         /\ lines'[Len(lines) + 1] =
              [sequence |-> held.eventCount + 1, kind |-> Asked.kind,
               op |-> Running.op, tokens |-> Asked.tokens]
<1> DEFINE line == [sequence |-> held.eventCount + 1, kind |-> Asked.kind,
                    op |-> Running.op, tokens |-> Asked.tokens]
<1>1. held \in Record /\ phase = "appending"
  BY PhaseFacts DEF AppendLine
<1>2. lines' = Append(lines, line)
  BY <1>1 DEF AppendLine, Record
<1> HIDE DEF line
<1>3. lines \in Seq(Line)
  BY DEF TypeOK, RecordsTypeOK
<1> QED
  BY <1>2, <1>3 DEF line

(* Nobody asks for nothing.                                                *)
LEMMA NoRequestNotMade == NoRequest \notin Requests
BY DEF NoRequest, Requests, CreateRequest, CallRequests, Request

(* The queue: tasks move up, and only an unanswered call joins it.         *)
LEMMA QueueStep == TypeOK /\ QueueInv /\ [Next]_vars => QueueInv'
<1> SUFFICES ASSUME TypeOK /\ QueueInv, [Next]_vars PROVE QueueInv'
  OBVIOUS
<1>1. CASE UNCHANGED vars
  BY <1>1 DEF vars, QueueInv
<1>2. ASSUME NEW o \in Ops, NEW r \in Requests, Call(o, r) PROVE QueueInv'
  <2> DEFINE task == [op |-> o, part |-> Parts(r.call)[1]]
  <2>1. /\ chain' = Append(chain, task) /\ status[o] = "new" /\ r # NoRequest
        /\ calls' = [calls EXCEPT ![o] = r] /\ status' = [status EXCEPT ![o] = "pending"]
    BY <1>2, NoRequestNotMade DEF Call
  <2>2. chain \in Seq(Task) /\ task \in Task /\ task.op = o
    BY PartsFacts DEF TypeOK, ChainTypeOK, Task
  <2> HIDE DEF task
  <2>3. \A i \in DOMAIN chain : chain[i].op # o /\ chain[i].op \in Ops
    BY <2>1, ChainFacts DEF QueueInv
  <2>4. \A i \in DOMAIN chain' : (i \in DOMAIN chain /\ chain'[i] = chain[i])
                                \/ (i = Len(chain) + 1 /\ chain'[i] = task)
    BY <2>1, <2>2
  <2>5. status'[o] = "pending" /\ calls'[o] = r
        /\ \A x \in Ops \ {o} : status'[x] = status[x] /\ calls'[x] = calls[x]
    BY <2>1 DEF TypeOK, CallsTypeOK
  <2> QED
    BY <2>1, <2>2, <2>3, <2>4, <2>5 DEF QueueInv
<1>3. CASE BeginAppend
  BY <1>3 DEF BeginAppend, QueueInv
<1>4. CASE RefuseAppend
  <2>1. chain # << >> /\ TaskThrows /\ UNCHANGED calls
    BY <1>4, PhaseFacts DEF RefuseAppend, Begin
  <2>2. chain \in Seq(Task) /\ Running = chain[1] /\ 1 \in DOMAIN chain /\ Running.op \in Ops
    BY <2>1, RunningFacts DEF TypeOK, ChainTypeOK
  <2>3. \A i \in DOMAIN chain : i # 1 => chain[i].op # Running.op
    BY <2>2 DEF QueueInv
  <2>4. \A i \in DOMAIN chain : chain[i].op \in Ops
    BY ChainFacts
  <2>5. /\ \A i \in DOMAIN chain' : i + 1 \in DOMAIN chain /\ i \in Nat \ {0}
                                      /\ chain'[i] = chain[i + 1]
        /\ \A x \in Ops \ {Running.op} : status'[x] = status[x]
    BY <2>1, <2>2, ThrowFacts DEF TypeOK, CallsTypeOK
  <2> QED
    BY <2>1, <2>3, <2>4, <2>5 DEF QueueInv
<1>5. CASE AppendLine
  BY <1>5 DEF AppendLine, QueueInv
<1>6. CASE BeginSave
  BY <1>6 DEF BeginSave, QueueInv
<1>7. CASE Save
  <2>1. chain # << >> /\ TaskDone /\ UNCHANGED calls
    BY <1>7, PhaseFacts DEF Save, Begin
  <2>2. chain \in Seq(Task) /\ Running = chain[1] /\ 1 \in DOMAIN chain /\ Running.op \in Ops
    BY <2>1, RunningFacts DEF TypeOK, ChainTypeOK
  <2>3. \A i \in DOMAIN chain : i # 1 => chain[i].op # Running.op
    BY <2>2 DEF QueueInv
  <2>4. \A i \in DOMAIN chain : chain[i].op \in Ops
    BY ChainFacts
  <2>5. CASE UNCHANGED status
    <3>1. /\ Len(chain') = Len(chain) /\ chain'[Len(chain)].op = Running.op
          /\ \A i \in DOMAIN chain' : \/ i = Len(chain)
                                     \/ /\ i + 1 \in DOMAIN chain /\ i \in Nat \ {0}
                                        /\ chain'[i] = chain[i + 1]
      <4>1. ~(status' = [status EXCEPT ![Running.op] = "ok"])
        BY <2>1, <2>2, <2>5 DEF QueueInv, TypeOK, CallsTypeOK
      <4> QED
        BY <2>1, <2>2, <4>1, DoneFacts
    <3>2. ASSUME NEW i \in DOMAIN chain', NEW j \in DOMAIN chain', chain'[j].op = chain'[i].op
          PROVE  j = i
      <4>1. CASE i = Len(chain) \/ j = Len(chain)
        <5>1. \A k \in DOMAIN chain' : chain'[k].op = Running.op => k = Len(chain)
          <6> SUFFICES ASSUME NEW k \in DOMAIN chain', chain'[k].op = Running.op, k # Len(chain)
                       PROVE  FALSE
            OBVIOUS
          <6>1. k + 1 \in DOMAIN chain /\ k \in Nat \ {0} /\ chain[k + 1].op = Running.op
            BY <3>1
          <6> QED
            BY <2>3, <6>1
        <5> QED
          BY <3>1, <3>2, <4>1, <5>1
      <4>2. CASE i # Len(chain) /\ j # Len(chain)
        <5>1. chain[j + 1].op = chain[i + 1].op /\ i + 1 \in DOMAIN chain /\ j + 1 \in DOMAIN chain
          BY <3>1, <3>2, <4>2
        <5>2. j + 1 = i + 1
          BY <5>1 DEF QueueInv
        <5> QED
          BY <3>1, <4>2, <5>2
      <4> QED
        BY <4>1, <4>2
    <3>3. \A i \in DOMAIN chain' : \E j \in DOMAIN chain : chain'[i].op = chain[j].op
      BY <2>2, <3>1
    <3> QED
      BY <2>1, <2>5, <3>2, <3>3 DEF QueueInv
  <2>6. CASE ~UNCHANGED status
    <3>1. /\ \A i \in DOMAIN chain' : i + 1 \in DOMAIN chain /\ i \in Nat \ {0}
                                      /\ chain'[i] = chain[i + 1]
          /\ \A x \in Ops \ {Running.op} : status'[x] = status[x]
      BY <2>1, <2>2, <2>6, DoneFacts DEF TypeOK, CallsTypeOK
    <3> QED
      BY <2>1, <2>3, <2>4, <3>1 DEF QueueInv
  <2> QED
    BY <2>5, <2>6
<1>8. CASE AppendLineRejects
  <2>1. chain # << >> /\ TaskThrows /\ UNCHANGED calls
    BY <1>8, PhaseFacts DEF AppendLineRejects, Begin
  <2>2. chain \in Seq(Task) /\ Running = chain[1] /\ 1 \in DOMAIN chain /\ Running.op \in Ops
    BY <2>1, RunningFacts DEF TypeOK, ChainTypeOK
  <2>3. \A i \in DOMAIN chain : i # 1 => chain[i].op # Running.op
    BY <2>2 DEF QueueInv
  <2>4. \A i \in DOMAIN chain : chain[i].op \in Ops
    BY ChainFacts
  <2>5. /\ \A i \in DOMAIN chain' : i + 1 \in DOMAIN chain /\ i \in Nat \ {0}
                                      /\ chain'[i] = chain[i + 1]
        /\ \A x \in Ops \ {Running.op} : status'[x] = status[x]
    BY <2>1, <2>2, ThrowFacts DEF TypeOK, CallsTypeOK
  <2> QED
    BY <2>1, <2>3, <2>4, <2>5 DEF QueueInv
<1>9. CASE SaveRejects
  <2>1. chain # << >> /\ TaskThrows /\ UNCHANGED calls
    BY <1>9, PhaseFacts DEF SaveRejects, Begin
  <2>2. chain \in Seq(Task) /\ Running = chain[1] /\ 1 \in DOMAIN chain /\ Running.op \in Ops
    BY <2>1, RunningFacts DEF TypeOK, ChainTypeOK
  <2>3. \A i \in DOMAIN chain : i # 1 => chain[i].op # Running.op
    BY <2>2 DEF QueueInv
  <2>4. \A i \in DOMAIN chain : chain[i].op \in Ops
    BY ChainFacts
  <2>5. /\ \A i \in DOMAIN chain' : i + 1 \in DOMAIN chain /\ i \in Nat \ {0}
                                      /\ chain'[i] = chain[i + 1]
        /\ \A x \in Ops \ {Running.op} : status'[x] = status[x]
    BY <2>1, <2>2, ThrowFacts DEF TypeOK, CallsTypeOK
  <2> QED
    BY <2>1, <2>3, <2>4, <2>5 DEF QueueInv
<1>10. ASSUME NEW r \in Readers, ReadCached(r) PROVE QueueInv'
  BY <1>10 DEF ReadCached, QueueInv
<1>11. ASSUME NEW r \in Readers, ReadStored(r) PROVE QueueInv'
  BY <1>11 DEF ReadStored, QueueInv
<1>12. ASSUME NEW r \in Readers, CacheStored(r) PROVE QueueInv'
  BY <1>12 DEF CacheStored, QueueInv
<1>13. ASSUME NEW r \in Readers, ListEvents(r) PROVE QueueInv'
  BY <1>13 DEF ListEvents, QueueInv
<1>14. CASE Crash
  BY <1>14 DEF Crash, QueueInv
<1> QED
  BY <1>1, <1>2, <1>3, <1>4, <1>5, <1>6, <1>7, <1>8, <1>9, <1>10, <1>11, <1>12, <1>13, <1>14
  DEF Next, Work

(* The counts: a copy is taken from a copy, and only a new line raises it. *)
LEMMA CountStep == TypeOK /\ CountInv /\ [Next]_vars => CountInv'
<1> SUFFICES ASSUME TypeOK /\ CountInv, [Next]_vars PROVE CountInv'
  OBVIOUS
<1>1. CASE UNCHANGED vars
  BY <1>1 DEF vars, CountInv, Copies
<1>2. ASSUME NEW o \in Ops, NEW r \in Requests, Call(o, r) PROVE CountInv'
  BY <1>2 DEF Call, CountInv, Copies
<1>3. CASE BeginAppend
  BY <1>3, CurrentFacts DEF BeginAppend, CountInv, Copies
<1>4. CASE RefuseAppend
  BY <1>4, CurrentFacts DEF RefuseAppend, TaskThrows, CountInv, Copies
<1>5. CASE AppendLine
  <2> DEFINE counted == [held EXCEPT !.eventCount = @ + 1]
  <2>1. held \in Record /\ held.eventCount \in Nat /\ held.eventCount <= Len(lines)
    BY <1>5, PhaseFacts, LedgerAssumption DEF AppendLine, CountInv, Copies, Record
  <2>2. counted.eventCount = held.eventCount + 1
    BY <2>1 DEF Record
  <2>3. Len(lines) \in Nat /\ Len(lines') = Len(lines) + 1
    BY <1>5 DEF AppendLine, TypeOK, RecordsTypeOK
  <2>4. /\ cache' = counted /\ held' = counted /\ disk' = disk /\ reader' = reader
    BY <1>5 DEF AppendLine
  <2>5. \A record \in Copies : record # None => record.eventCount \in Nat
    BY CurrentFacts DEF Copies, TypeOK, ReadersTypeOK, MaybeRecord, Record
  <2> HIDE DEF counted
  <2>6. \A record \in Copies : record # None => record.eventCount <= Len(lines')
    BY <2>3, <2>5 DEF CountInv
  <2>7. counted.eventCount <= Len(lines')
    BY <2>1, <2>2, <2>3
  <2> QED
    BY <2>4, <2>6, <2>7 DEF CountInv, Copies
<1>6. CASE BeginSave
  <2> DEFINE updated == Updated(Current, Asked)
  <2>1. /\ cache' = updated /\ held' = updated /\ UNCHANGED << disk, lines, reader >>
        /\ chain # << >> /\ (Asked # CreateRequest => Current # None)
    BY <1>6 DEF BeginSave, Begin
  <2>2. Len(lines) \in Nat
    BY DEF TypeOK, RecordsTypeOK
  <2>3. updated.eventCount <= Len(lines)
    BY <2>1, <2>2, RunningFacts, CurrentFacts, UpdatedFacts DEF NewRecord, CountInv, Copies
  <2> HIDE DEF updated
  <2> QED
    BY <2>1, <2>3 DEF CountInv, Copies
<1>7. CASE Save
  BY <1>7 DEF Save, TaskDone, CountInv, Copies
<1>8. CASE AppendLineRejects
  BY <1>8, CurrentFacts DEF AppendLineRejects, TaskThrows, CountInv, Copies
<1>9. CASE SaveRejects
  BY <1>9, CurrentFacts DEF SaveRejects, TaskThrows, CountInv, Copies
<1>10. ASSUME NEW r \in Readers, ReadCached(r) PROVE CountInv'
  BY <1>10 DEF ReadCached, CountInv, Copies, TypeOK, ReadersTypeOK
<1>11. ASSUME NEW r \in Readers, ReadStored(r) PROVE CountInv'
  BY <1>11 DEF ReadStored, CountInv, Copies, TypeOK, ReadersTypeOK
<1>12. ASSUME NEW r \in Readers, CacheStored(r) PROVE CountInv'
  BY <1>12 DEF CacheStored, CountInv, Copies, TypeOK, ReadersTypeOK
<1>13. ASSUME NEW r \in Readers, ListEvents(r) PROVE CountInv'
  BY <1>13 DEF ListEvents, CountInv, Copies, TypeOK, ReadersTypeOK
<1>14. CASE Crash
  BY <1>14 DEF Crash, CountInv, Copies, IdleReader
<1> QED
  BY <1>1, <1>2, <1>3, <1>4, <1>5, <1>6, <1>7, <1>8, <1>9, <1>10, <1>11, <1>12, <1>13, <1>14
  DEF Next, Work

(* A call is made by Call only.                                            *)
LEMMA FreshStep == TypeOK /\ FreshInv /\ [Next]_vars => FreshInv'
<1> SUFFICES ASSUME TypeOK /\ FreshInv, [Next]_vars PROVE FreshInv'
  OBVIOUS
<1>1. CASE UNCHANGED vars
  BY <1>1 DEF vars, FreshInv
<1>2. ASSUME NEW o \in Ops, NEW r \in Requests, Call(o, r) PROVE FreshInv'
  BY <1>2 DEF Call, FreshInv, TypeOK, CallsTypeOK
<1>3. CASE BeginAppend
  BY <1>3 DEF BeginAppend, FreshInv
<1>4. CASE RefuseAppend
  BY <1>4 DEF RefuseAppend, TaskThrows, FreshInv, TypeOK, CallsTypeOK
<1>5. CASE AppendLine
  BY <1>5 DEF AppendLine, FreshInv
<1>6. CASE BeginSave
  BY <1>6 DEF BeginSave, FreshInv
<1>7. CASE Save
  <2>1. \A x \in Ops : status'[x] = "new" => status[x] = "new"
    BY <1>7 DEF Save, TaskDone, TypeOK, CallsTypeOK
  <2> QED
    BY <1>7, <2>1 DEF Save, FreshInv
<1>8. CASE AppendLineRejects
  BY <1>8 DEF AppendLineRejects, TaskThrows, FreshInv, TypeOK, CallsTypeOK
<1>9. CASE SaveRejects
  BY <1>9 DEF SaveRejects, TaskThrows, FreshInv, TypeOK, CallsTypeOK
<1>10. ASSUME NEW r \in Readers, ReadCached(r) PROVE FreshInv'
  BY <1>10 DEF ReadCached, FreshInv
<1>11. ASSUME NEW r \in Readers, ReadStored(r) PROVE FreshInv'
  BY <1>11 DEF ReadStored, FreshInv
<1>12. ASSUME NEW r \in Readers, CacheStored(r) PROVE FreshInv'
  BY <1>12 DEF CacheStored, FreshInv
<1>13. ASSUME NEW r \in Readers, ListEvents(r) PROVE FreshInv'
  BY <1>13 DEF ListEvents, FreshInv
<1>14. CASE Crash
  BY <1>14 DEF Crash, FreshInv
<1> QED
  BY <1>1, <1>2, <1>3, <1>4, <1>5, <1>6, <1>7, <1>8, <1>9, <1>10, <1>11, <1>12, <1>13, <1>14
  DEF Next, Work

(* The creation: its record is the first thing stored, and stored once.    *)
LEMMA CreationStep == TypeOK /\ QueueInv /\ FreshInv /\ CreationInv /\ [Next]_vars => CreationInv'
<1> SUFFICES ASSUME TypeOK /\ QueueInv /\ FreshInv /\ CreationInv, [Next]_vars PROVE CreationInv'
  OBVIOUS
<1>1. CASE UNCHANGED vars
  BY <1>1 DEF vars, CreationInv
<1>2. ASSUME NEW o \in Ops, NEW r \in Requests, Call(o, r) PROVE CreationInv'
  <2>1. UNCHANGED << disk, lines >>
    BY <1>2 DEF Call
  <2>2. CASE r = CreateRequest
    <3>1. \A x \in Ops : calls[x] # CreateRequest
      BY <1>2, <2>2 DEF Call
    <3>2. disk = None /\ lines = << >> /\ chain = << >>
      <4>1. disk = None /\ lines = << >>
        BY <3>1 DEF CreationInv
      <4>2. \A i \in DOMAIN chain : FALSE
        BY <3>1, <4>1, ChainFacts DEF CreationInv
      <4> QED
        BY <4>1, <4>2, RunningFacts
    <3>3. r \in Requests \cup {NoRequest} /\ r.call = "createSession"
      BY <2>2, RequestFacts
    <3>4. Parts(r.call)[1] = "save"
      BY <3>3, PartsFacts
    <3>5. Len(chain) = 0 /\ DOMAIN chain = {}
      BY <3>2
    <3>6. \A i \in DOMAIN chain' : i = 1 /\ chain'[i] = [op |-> o, part |-> "save"]
      BY <1>2, <3>4, <3>5, CallFacts
    <3>7. calls'[o] = CreateRequest
      BY <1>2, <2>2, CallFacts
    <3> QED
      BY <2>1, <3>2, <3>6, <3>7 DEF CreationInv
  <2>3. CASE r # CreateRequest
    <3>1. disk # None
      BY <1>2, <2>3 DEF Call
    <3>2. \E x \in Ops : calls'[x] = CreateRequest
      <4>1. PICK x \in Ops : calls[x] = CreateRequest
        BY <3>1 DEF CreationInv
      <4>2. CreateRequest # NoRequest
        BY DEF CreateRequest, NoRequest, Request
      <4>3. x # o
        BY <1>2, <4>1, <4>2 DEF Call, FreshInv
      <4> QED
        BY <1>2, <4>1, <4>3, CallFacts
    <3>3. \A i \in DOMAIN chain' : ~(chain'[i].part = "save" /\ calls'[chain'[i].op] = CreateRequest)
      <4>1. r.call # "createSession"
        BY <2>3, RequestFacts
      <4>2. Parts(r.call)[1] # "save"
        BY <4>1, PartsFacts
      <4> QED
        BY <1>2, <2>3, <3>1, <4>2, CallFacts DEF CreationInv
    <3> QED
      BY <2>1, <3>1, <3>2, <3>3 DEF CreationInv
  <2> QED
    BY <2>2, <2>3
<1>3. CASE BeginAppend
  BY <1>3 DEF BeginAppend, CreationInv
<1>4. CASE RefuseAppend
  <2>1. chain # << >> /\ TaskThrows /\ UNCHANGED << calls, disk, lines >>
    BY <1>4, PhaseFacts DEF RefuseAppend, Begin
  <2>2. \A i \in DOMAIN chain' :
           i + 1 \in DOMAIN chain /\ i \in Nat \ {0} /\ chain'[i] = chain[i + 1]
    BY <2>1, ThrowFacts
  <2> QED
    BY <2>1, <2>2 DEF CreationInv
<1>5. CASE AppendLine
  <2>1. disk # None
    <3>1. chain # << >> /\ Head(chain).part = "append"
      BY <1>5, PhaseFacts DEF AppendLine, TypeOK, ChainTypeOK
    <3> QED
      BY <3>1, RunningFacts DEF CreationInv, Running
  <2> QED
    BY <1>5, <2>1 DEF AppendLine, CreationInv
<1>6. CASE BeginSave
  BY <1>6 DEF BeginSave, CreationInv
<1>7. CASE Save
  <2>1. chain # << >> /\ TaskDone /\ UNCHANGED calls /\ disk' = held /\ held # None
    BY <1>7, PhaseFacts, LedgerAssumption DEF Save
  <2>2. /\ chain \in Seq(Task) /\ Running = chain[1] /\ Running.op \in Ops
        /\ Asked = calls[Running.op] /\ 1 \in DOMAIN chain
        /\ Asked \in Requests \cup {NoRequest}
    BY <2>1, RunningFacts DEF TypeOK, ChainTypeOK
  <2>3. \E x \in Ops : calls'[x] = CreateRequest
    BY <2>1, <2>2 DEF CreationInv
  <2>4. \A i \in DOMAIN chain : i # 1 => ~(chain[i].part = "save" /\ calls[chain[i].op] = CreateRequest)
    BY DEF CreationInv
  <2>5. Len(Parts(Asked.call)) = 2 /\ Asked = CreateRequest => Parts(Asked.call)[2] # "save"
    BY <2>2, PartsFacts, RequestFacts
  <2>6. \A i \in DOMAIN chain' :
           \/ i + 1 \in DOMAIN chain /\ i \in Nat \ {0} /\ chain'[i] = chain[i + 1]
           \/ /\ Len(Parts(Asked.call)) = 2
              /\ chain'[i] = [op |-> Running.op, part |-> Parts(Asked.call)[2]]
    BY <2>1, <2>2, DoneFacts
  <2>7. \A i \in DOMAIN chain' : ~(chain'[i].part = "save" /\ calls'[chain'[i].op] = CreateRequest)
    BY <2>1, <2>2, <2>4, <2>5, <2>6
  <2> QED
    BY <2>1, <2>3, <2>7 DEF CreationInv
<1>8. CASE AppendLineRejects
  <2>1. chain # << >> /\ TaskThrows /\ UNCHANGED << calls, disk, lines >>
    BY <1>8, PhaseFacts DEF AppendLineRejects, Begin
  <2>2. \A i \in DOMAIN chain' :
           i + 1 \in DOMAIN chain /\ i \in Nat \ {0} /\ chain'[i] = chain[i + 1]
    BY <2>1, ThrowFacts
  <2> QED
    BY <2>1, <2>2 DEF CreationInv
<1>9. CASE SaveRejects
  <2>1. chain # << >> /\ TaskThrows /\ UNCHANGED << calls, disk, lines >>
    BY <1>9, PhaseFacts DEF SaveRejects, Begin
  <2>2. \A i \in DOMAIN chain' :
           i + 1 \in DOMAIN chain /\ i \in Nat \ {0} /\ chain'[i] = chain[i + 1]
    BY <2>1, ThrowFacts
  <2> QED
    BY <2>1, <2>2 DEF CreationInv
<1>10. ASSUME NEW r \in Readers, ReadCached(r) PROVE CreationInv'
  BY <1>10 DEF ReadCached, CreationInv
<1>11. ASSUME NEW r \in Readers, ReadStored(r) PROVE CreationInv'
  BY <1>11 DEF ReadStored, CreationInv
<1>12. ASSUME NEW r \in Readers, CacheStored(r) PROVE CreationInv'
  BY <1>12 DEF CacheStored, CreationInv
<1>13. ASSUME NEW r \in Readers, ListEvents(r) PROVE CreationInv'
  BY <1>13 DEF ListEvents, CreationInv
<1>14. CASE Crash
  BY <1>14 DEF Crash, CreationInv
<1> QED
  BY <1>1, <1>2, <1>3, <1>4, <1>5, <1>6, <1>7, <1>8, <1>9, <1>10, <1>11, <1>12, <1>13, <1>14
  DEF Next, Work

(* The endings: a state is stored only after its event is in the log.      *)
LEMMA BackedStep == TypeOK /\ QueueInv /\ BackedInv /\ [Next]_vars => BackedInv'
<1> SUFFICES ASSUME TypeOK /\ QueueInv /\ BackedInv, [Next]_vars PROVE BackedInv'
  OBVIOUS
<1>1. CASE UNCHANGED vars
  BY <1>1
  DEF vars, BackedInv, CopiesBacked, CompletionsBacked, LineWritten, Copies, Ended, Running, Asked
<1>2. ASSUME NEW o \in Ops, NEW r \in Requests, Call(o, r) PROVE BackedInv'
  <2>1. CopiesBacked'
    BY <1>2 DEF Call, BackedInv, CopiesBacked, CompletionsBacked, LineWritten, Copies, Ended
  <2>2. CompletionsBacked'
    <3>1. r.call = "complete" => Parts(r.call)[1] # "save"
      BY PartsFacts
    <3>2. \A s : Ended(s)' <=> Ended(s)
      BY <1>2 DEF Call, Ended
    <3>3. ASSUME NEW i \in DOMAIN chain', chain'[i].part = "save",
                 calls'[chain'[i].op].call = "complete"
          PROVE  Ended(calls'[chain'[i].op].state)
      <4>1. i \in DOMAIN chain /\ chain'[i] = chain[i] /\ calls'[chain[i].op] = calls[chain[i].op]
        BY <1>2, <3>1, <3>3, CallFacts
      <4> QED
        BY <3>3, <4>1 DEF BackedInv, CompletionsBacked
    <3> QED
      BY <3>2, <3>3 DEF CompletionsBacked
  <2>3. LineWritten'
    <3>1. phase' = "saving" => chain # << >>
      BY <1>2, PhaseFacts DEF Call
    <3> QED
      BY <1>2, <3>1, CallFacts DEF Call, BackedInv, CopiesBacked, CompletionsBacked, LineWritten
  <2> QED
    BY <2>1, <2>2, <2>3 DEF BackedInv
<1>3. CASE BeginAppend
  <2>1. CopiesBacked'
    BY <1>3, CurrentFacts
    DEF BeginAppend, BackedInv, CopiesBacked, CompletionsBacked, LineWritten, Copies, Ended
  <2>2. CompletionsBacked'
    BY <1>3 DEF BeginAppend, BackedInv, CopiesBacked, CompletionsBacked, LineWritten, Ended
  <2>3. LineWritten'
    BY <1>3 DEF BeginAppend, LineWritten
  <2> QED
    BY <2>1, <2>2, <2>3 DEF BackedInv
<1>4. CASE RefuseAppend
  <2>1. CopiesBacked'
    BY <1>4, CurrentFacts
    DEF RefuseAppend, TaskThrows, BackedInv, CopiesBacked, CompletionsBacked, LineWritten, Copies,
        Ended
  <2>2. CompletionsBacked'
    <3>1. chain # << >> /\ TaskThrows /\ UNCHANGED << calls, lines >>
      BY <1>4, PhaseFacts DEF RefuseAppend, Begin
    <3> QED
      BY <3>1, ThrowFacts DEF BackedInv, CopiesBacked, CompletionsBacked, LineWritten, Ended
  <2>3. LineWritten'
    BY <1>4 DEF RefuseAppend, TaskThrows, LineWritten
  <2> QED
    BY <2>1, <2>2, <2>3 DEF BackedInv
<1>5. CASE AppendLine
  <2>0. \A s : Ended(s) => Ended(s)'
    BY <1>5, LineFacts DEF Ended
  <2>1. CopiesBacked'
    <3> DEFINE counted == [held EXCEPT !.eventCount = @ + 1]
    <3>1. /\ cache' = counted /\ held' = counted /\ UNCHANGED << disk, reader >>
          /\ held # None /\ held \in Record
      BY <1>5, PhaseFacts, LedgerAssumption DEF AppendLine
    <3>2. counted.state = held.state
      BY <3>1 DEF Record
    <3> HIDE DEF counted
    <3> QED
      BY <2>0, <3>1, <3>2 DEF BackedInv, CopiesBacked, CompletionsBacked, LineWritten, Copies
  <2>2. CompletionsBacked'
    BY <1>5, <2>0 DEF AppendLine, BackedInv, CopiesBacked, CompletionsBacked, LineWritten
  <2>3. LineWritten'
    <3>1. UNCHANGED << chain, calls >>
      BY <1>5 DEF AppendLine
    <3>2. \E i \in DOMAIN lines' : lines'[i].kind = Asked.kind
      BY <1>5, LineFacts
    <3> QED
      BY <3>1, <3>2 DEF LineWritten, Asked, Running
  <2> QED
    BY <2>1, <2>2, <2>3 DEF BackedInv
<1>6. CASE BeginSave
  <2>1. CopiesBacked'
    <3> DEFINE updated == Updated(Current, Asked)
    <3>1. /\ cache' = updated /\ held' = updated /\ UNCHANGED << disk, reader, lines >>
          /\ chain # << >> /\ Running.part = "save" /\ (Asked # CreateRequest => Current # None)
      BY <1>6 DEF BeginSave, Begin
    <3>2. /\ 1 \in DOMAIN chain /\ Running = chain[1] /\ Asked = calls[chain[1].op]
          /\ Asked \in Requests \cup {NoRequest}
      BY <3>1, RunningFacts
    <3>3. updated.state \in Terminal => Ended(updated.state)
      <4>1. CASE Asked = CreateRequest
        BY <3>2, <4>1, UpdatedFacts DEF NewRecord, Terminal
      <4>2. CASE Asked # CreateRequest
        <5>1. Current \in Record /\ Current \in Copies
          BY <3>1, <4>2, CurrentFacts DEF Copies
        <5>2. Asked.call = "complete" => Ended(Asked.state)
          BY <3>1, <3>2 DEF BackedInv, CopiesBacked, CompletionsBacked, LineWritten
        <5>3. updated.state \in Terminal =>
                updated.state = Current.state \/ (Asked.call = "complete" /\ updated.state = Asked.state)
          BY <3>2, <4>2, <5>1, UpdatedFacts
        <5> HIDE DEF updated
        <5> QED
          BY <3>1, <4>2, <5>1, <5>2, <5>3
          DEF BackedInv, CopiesBacked, CompletionsBacked, LineWritten
      <4> QED
        BY <4>1, <4>2
    <3> HIDE DEF updated
    <3> QED
      BY <3>1, <3>3 DEF BackedInv, CopiesBacked, CompletionsBacked, LineWritten, Copies, Ended
  <2>2. CompletionsBacked'
    BY <1>6 DEF BeginSave, BackedInv, CopiesBacked, CompletionsBacked, LineWritten, Ended
  <2>3. LineWritten'
    BY <1>6 DEF BeginSave, LineWritten, Running
  <2> QED
    BY <2>1, <2>2, <2>3 DEF BackedInv
<1>7. CASE Save
  <2>1. CopiesBacked'
    BY <1>7
    DEF Save, TaskDone, BackedInv, CopiesBacked, CompletionsBacked, LineWritten, Copies, Ended
  <2>2. CompletionsBacked'
    <3>1. chain # << >> /\ TaskDone /\ phase = "saving" /\ UNCHANGED << calls, lines >>
      BY <1>7, PhaseFacts DEF Save
    <3>2. /\ Running.op \in Ops /\ Running.part \in {"append", "save"}
          /\ Asked = calls[Running.op] /\ Asked \in Requests \cup {NoRequest}
      BY <3>1, RunningFacts
    <3>3. Running.part = Parts(Asked.call)[1] /\ Asked.call = "complete" => Ended(Asked.state)
      <4>1. Asked.call = "complete" => Parts(Asked.call)[1] # "save" /\ Asked.kind = TerminalKind[Asked.state]
        BY <3>2, PartsFacts, RequestFacts
      <4> QED
        BY <3>1, <3>2, <4>1 DEF BackedInv, CopiesBacked, CompletionsBacked, LineWritten, Ended
    <3>4. \A i \in DOMAIN chain' :
             \/ i + 1 \in DOMAIN chain /\ chain'[i] = chain[i + 1]
             \/ /\ Running.part = Parts(Asked.call)[1]
                /\ chain'[i].op = Running.op
      BY <3>1, <3>2, DoneFacts
    <3>5. \A i \in DOMAIN chain' :
             chain'[i].part = "save" /\ calls[chain'[i].op].call = "complete" =>
               Ended(calls[chain'[i].op].state)
      BY <3>2, <3>3, <3>4 DEF BackedInv, CopiesBacked, CompletionsBacked, LineWritten
    <3> QED
      BY <3>1, <3>5 DEF CompletionsBacked, Ended
  <2>3. LineWritten'
    BY <1>7 DEF Save, TaskDone, LineWritten
  <2> QED
    BY <2>1, <2>2, <2>3 DEF BackedInv
<1>8. CASE AppendLineRejects
  <2>1. CopiesBacked'
    BY <1>8, CurrentFacts
    DEF AppendLineRejects, TaskThrows, BackedInv, CopiesBacked, CompletionsBacked, LineWritten,
        Copies, Ended
  <2>2. CompletionsBacked'
    <3>1. chain # << >> /\ TaskThrows /\ UNCHANGED << calls, lines >>
      BY <1>8, PhaseFacts DEF AppendLineRejects, Begin
    <3> QED
      BY <3>1, ThrowFacts DEF BackedInv, CopiesBacked, CompletionsBacked, LineWritten, Ended
  <2>3. LineWritten'
    BY <1>8 DEF AppendLineRejects, TaskThrows, LineWritten
  <2> QED
    BY <2>1, <2>2, <2>3 DEF BackedInv
<1>9. CASE SaveRejects
  <2>1. CopiesBacked'
    BY <1>9, CurrentFacts
    DEF SaveRejects, TaskThrows, BackedInv, CopiesBacked, CompletionsBacked, LineWritten, Copies,
        Ended
  <2>2. CompletionsBacked'
    <3>1. chain # << >> /\ TaskThrows /\ UNCHANGED << calls, lines >>
      BY <1>9, PhaseFacts DEF SaveRejects, Begin
    <3> QED
      BY <3>1, ThrowFacts DEF BackedInv, CopiesBacked, CompletionsBacked, LineWritten, Ended
  <2>3. LineWritten'
    BY <1>9 DEF SaveRejects, TaskThrows, LineWritten
  <2> QED
    BY <2>1, <2>2, <2>3 DEF BackedInv
<1>10. ASSUME NEW r \in Readers, ReadCached(r) PROVE BackedInv'
  <2>1. CopiesBacked'
    BY <1>10
    DEF ReadCached, BackedInv, CopiesBacked, CompletionsBacked, LineWritten, Copies, Ended, TypeOK,
        ReadersTypeOK
  <2>2. CompletionsBacked'
    BY <1>10 DEF ReadCached, BackedInv, CopiesBacked, CompletionsBacked, LineWritten, Ended
  <2>3. LineWritten'
    BY <1>10 DEF ReadCached, BackedInv, CopiesBacked, CompletionsBacked, LineWritten, Running, Asked
  <2> QED
    BY <2>1, <2>2, <2>3 DEF BackedInv
<1>11. ASSUME NEW r \in Readers, ReadStored(r) PROVE BackedInv'
  <2>1. CopiesBacked'
    BY <1>11
    DEF ReadStored, BackedInv, CopiesBacked, CompletionsBacked, LineWritten, Copies, Ended, TypeOK,
        ReadersTypeOK
  <2>2. CompletionsBacked'
    BY <1>11 DEF ReadStored, BackedInv, CopiesBacked, CompletionsBacked, LineWritten, Ended
  <2>3. LineWritten'
    BY <1>11 DEF ReadStored, BackedInv, CopiesBacked, CompletionsBacked, LineWritten, Running, Asked
  <2> QED
    BY <2>1, <2>2, <2>3 DEF BackedInv
<1>12. ASSUME NEW r \in Readers, CacheStored(r) PROVE BackedInv'
  <2>1. CopiesBacked'
    BY <1>12
    DEF CacheStored, BackedInv, CopiesBacked, CompletionsBacked, LineWritten, Copies, Ended,
        TypeOK, ReadersTypeOK
  <2>2. CompletionsBacked'
    BY <1>12 DEF CacheStored, BackedInv, CopiesBacked, CompletionsBacked, LineWritten, Ended
  <2>3. LineWritten'
    BY <1>12
    DEF CacheStored, BackedInv, CopiesBacked, CompletionsBacked, LineWritten, Running, Asked
  <2> QED
    BY <2>1, <2>2, <2>3 DEF BackedInv
<1>13. ASSUME NEW r \in Readers, ListEvents(r) PROVE BackedInv'
  <2>1. CopiesBacked'
    BY <1>13
    DEF ListEvents, BackedInv, CopiesBacked, CompletionsBacked, LineWritten, Copies, Ended, TypeOK,
        ReadersTypeOK
  <2>2. CompletionsBacked'
    BY <1>13 DEF ListEvents, BackedInv, CopiesBacked, CompletionsBacked, LineWritten, Ended
  <2>3. LineWritten'
    BY <1>13 DEF ListEvents, BackedInv, CopiesBacked, CompletionsBacked, LineWritten, Running, Asked
  <2> QED
    BY <2>1, <2>2, <2>3 DEF BackedInv
<1>14. CASE Crash
  BY <1>14
  DEF Crash, BackedInv, CopiesBacked, CompletionsBacked, LineWritten, Copies, Ended, IdleReader
<1> QED
  BY <1>1, <1>2, <1>3, <1>4, <1>5, <1>6, <1>7, <1>8, <1>9, <1>10, <1>11, <1>12, <1>13, <1>14
  DEF Next, Work

(* The numbering: without a restart every append starts from the newest    *)
(* copy of the record.                                                     *)
LEMMA NumberStep == TypeOK /\ CreationInv /\ NumberInv /\ [Next]_vars => NumberInv'
<1> SUFFICES ASSUME TypeOK /\ CreationInv /\ NumberInv, [Next]_vars PROVE NumberInv'
  OBVIOUS
<1>1. CASE UNCHANGED vars
  BY <1>1 DEF vars, NumberInv
<1>2. ASSUME NEW o \in Ops, NEW r \in Requests, Call(o, r) PROVE NumberInv'
  BY <1>2 DEF Call, NumberInv
<1>3. CASE BeginAppend
  BY <1>3 DEF BeginAppend, Current, NumberInv
<1>4. CASE RefuseAppend
  BY <1>4 DEF RefuseAppend, TaskThrows, Current, NumberInv
<1>5. CASE AppendLine
  <2>1. /\ held \in Record /\ phase = "appending" /\ UNCHANGED << reader, crashes, disk >>
        /\ cache' = held' /\ held' = [held EXCEPT !.eventCount = @ + 1]
    BY <1>5, PhaseFacts DEF AppendLine
  <2>2. /\ cache' \in Record /\ cache'.eventCount = held.eventCount + 1
        /\ cache' # None /\ held # None
    BY <2>1, LedgerAssumption DEF Record
  <2>3. \A i \in DOMAIN lines' :
           \/ i \in DOMAIN lines /\ lines'[i] = lines[i]
           \/ i = Len(lines) + 1 /\ lines'[i].sequence = held.eventCount + 1
    BY <1>5, LineFacts
  <2>4. Len(lines') = Len(lines) + 1
    BY <1>5, LineFacts
  <2>5. crashes = 0 => held = cache /\ cache.eventCount = Len(lines)
    BY <2>1, <2>2 DEF NumberInv
  <2> QED
    BY <2>1, <2>2, <2>3, <2>4, <2>5 DEF NumberInv
<1>6. CASE BeginSave
  <2>1. /\ cache' = Updated(Current, Asked) /\ held' = cache'
        /\ UNCHANGED << lines, disk, reader, crashes >>
        /\ chain # << >> /\ Running.part = "save" /\ (Asked # CreateRequest => Current # None)
    BY <1>6 DEF BeginSave, Begin
  <2>2. /\ 1 \in DOMAIN chain /\ Running = chain[1] /\ Asked = calls[chain[1].op]
        /\ Asked \in Requests \cup {NoRequest}
    BY <2>1, RunningFacts
  <2>3. cache' \in Record /\ cache' # None
    BY <2>1, <2>2, CurrentFacts, UpdatedFacts, LedgerAssumption
  <2>4. CASE Asked = CreateRequest
    <3>1. disk = None /\ lines = << >>
      BY <2>1, <2>2, <2>4 DEF CreationInv
    <3>2. cache'.eventCount = 0
      BY <2>1, <2>2, <2>4, UpdatedFacts DEF NewRecord
    <3> QED
      BY <2>1, <2>3, <3>1, <3>2 DEF NumberInv
  <2>5. CASE Asked # CreateRequest
    <3>1. cache'.eventCount = Current.eventCount
      BY <2>1, <2>2, <2>5, CurrentFacts, UpdatedFacts
    <3>2. crashes = 0 => Current = cache /\ cache # None
      BY <2>1, <2>5 DEF NumberInv, Current
    <3> QED
      BY <2>1, <2>3, <3>1, <3>2 DEF NumberInv
  <2> QED
    BY <2>4, <2>5
<1>7. CASE Save
  <2>1. phase = "saving" /\ held # None /\ phase' = "idle" /\ disk' = held
        /\ UNCHANGED << lines, cache, reader, crashes >>
    BY <1>7, PhaseFacts, LedgerAssumption DEF Save, TaskDone
  <2> QED
    BY <2>1 DEF NumberInv
<1>8. CASE AppendLineRejects
  BY <1>8 DEF AppendLineRejects, TaskThrows, NumberInv
<1>9. CASE SaveRejects
  BY <1>9 DEF SaveRejects, TaskThrows, NumberInv
<1>10. ASSUME NEW r \in Readers, ReadCached(r) PROVE NumberInv'
  BY <1>10 DEF ReadCached, NumberInv, TypeOK, ReadersTypeOK
<1>11. ASSUME NEW r \in Readers, ReadStored(r) PROVE NumberInv'
  BY <1>11 DEF ReadStored, NumberInv, TypeOK, ReadersTypeOK
<1>12. ASSUME NEW r \in Readers, CacheStored(r) PROVE NumberInv'
  BY <1>12 DEF CacheStored, NumberInv, TypeOK, ReadersTypeOK
<1>13. ASSUME NEW r \in Readers, ListEvents(r) PROVE NumberInv'
  BY <1>13 DEF ListEvents, NumberInv, TypeOK, ReadersTypeOK
<1>14. CASE Crash
  BY <1>14 DEF Crash, NumberInv, TypeOK, BoundsTypeOK
<1> QED
  BY <1>1, <1>2, <1>3, <1>4, <1>5, <1>6, <1>7, <1>8, <1>9, <1>10, <1>11, <1>12, <1>13, <1>14
  DEF Next, Work

(* The freeze: a terminal cache stays terminal until a restart.            *)
LEMMA FrozenStep == TypeOK /\ QueueInv /\ CreationInv /\ NumberInv /\ FrozenInv /\ [Next]_vars => FrozenInv'
<1> SUFFICES ASSUME TypeOK /\ QueueInv /\ CreationInv /\ NumberInv /\ FrozenInv, [Next]_vars PROVE FrozenInv'
  OBVIOUS
<1>1. CASE UNCHANGED vars
  BY <1>1 DEF vars, FrozenInv, Running, Asked
<1>2. ASSUME NEW o \in Ops, NEW r \in Requests, Call(o, r) PROVE FrozenInv'
  <2>1. UNCHANGED << crashes, disk, cache, held, phase >>
    BY <1>2 DEF Call
  <2>2. phase # "idle" => Asked' = Asked
    BY <1>2, PhaseFacts, CallFacts
  <2> QED
    BY <2>1, <2>2 DEF FrozenInv
<1>3. CASE BeginAppend
  BY <1>3 DEF BeginAppend, Begin, Current, Running, Asked, FrozenInv
<1>4. CASE RefuseAppend
  BY <1>4 DEF RefuseAppend, TaskThrows, Current, FrozenInv
<1>5. CASE AppendLine
  <2>1. /\ held \in Record /\ phase = "appending" /\ phase' = "saving"
        /\ UNCHANGED << crashes, disk >> /\ cache' = [held EXCEPT !.eventCount = @ + 1]
    BY <1>5, PhaseFacts DEF AppendLine
  <2>2. cache' # None /\ cache'.state = held.state
    <3>1. cache' \in Record /\ cache'.state = held.state
      BY <2>1 DEF Record
    <3> QED
      BY <3>1, LedgerAssumption
  <2> QED
    BY <2>1, <2>2 DEF FrozenInv, NumberInv
<1>6. CASE BeginSave
  <2>1. /\ cache' = Updated(Current, Asked) /\ held' = cache'
        /\ UNCHANGED << lines, disk, reader, crashes >>
        /\ chain # << >> /\ Running.part = "save" /\ (Asked # CreateRequest => Current # None)
    BY <1>6 DEF BeginSave, Begin
  <2>2. /\ 1 \in DOMAIN chain /\ Running = chain[1] /\ Asked = calls[chain[1].op]
        /\ Asked \in Requests \cup {NoRequest}
    BY <2>1, RunningFacts
  <2>3. cache' \in Record /\ cache' # None /\ phase' = "saving"
    BY <1>6, <2>1, <2>2, CurrentFacts, UpdatedFacts, LedgerAssumption DEF BeginSave
  <2>4. CASE Asked = CreateRequest
    <3>1. disk = None
      BY <2>1, <2>2, <2>4 DEF CreationInv
    <3> QED
      BY <2>1, <2>3, <3>1 DEF FrozenInv
  <2>5. CASE Asked # CreateRequest
    <3>1. Current.state \in Terminal => cache'.state \in Terminal
      BY <2>1, <2>2, <2>5, CurrentFacts, UpdatedFacts
    <3> QED
      BY <2>1, <2>3, <3>1 DEF FrozenInv, Current
  <2> QED
    BY <2>4, <2>5
<1>7. CASE Save
  <2>1. phase = "saving" /\ held # None /\ phase' = "idle" /\ disk' = held
        /\ UNCHANGED << cache, crashes >>
    BY <1>7, PhaseFacts, LedgerAssumption DEF Save, TaskDone
  <2> QED
    BY <2>1 DEF FrozenInv, NumberInv
<1>8. CASE AppendLineRejects
  BY <1>8 DEF AppendLineRejects, TaskThrows, FrozenInv
<1>9. CASE SaveRejects
  BY <1>9 DEF SaveRejects, TaskThrows, FrozenInv
<1>10. ASSUME NEW r \in Readers, ReadCached(r) PROVE FrozenInv'
  BY <1>10 DEF ReadCached, FrozenInv, Running, Asked
<1>11. ASSUME NEW r \in Readers, ReadStored(r) PROVE FrozenInv'
  BY <1>11 DEF ReadStored, FrozenInv, Running, Asked
<1>12. ASSUME NEW r \in Readers, CacheStored(r) PROVE FrozenInv'
  BY <1>12 DEF CacheStored, NumberInv, FrozenInv
<1>13. ASSUME NEW r \in Readers, ListEvents(r) PROVE FrozenInv'
  BY <1>13 DEF ListEvents, FrozenInv, Running, Asked
<1>14. CASE Crash
  BY <1>14 DEF Crash, FrozenInv, TypeOK, BoundsTypeOK
<1> QED
  BY <1>1, <1>2, <1>3, <1>4, <1>5, <1>6, <1>7, <1>8, <1>9, <1>10, <1>11, <1>12, <1>13, <1>14
  DEF Next, Work

(* The answers: the record is read first, and the log it is answered with  *)
(* has what the record had then, because lines stay.                       *)
LEMMA AnswerStep == TypeOK /\ CopiesBacked /\ AnswerInv /\ [Next]_vars => AnswerInv'
<1> SUFFICES ASSUME TypeOK, CopiesBacked, AnswerInv, [Next]_vars PROVE AnswerInv'
  OBVIOUS
<1> DEFINE Kept == /\ UNCHANGED reader
                   /\ Len(lines) <= Len(lines')
                   /\ \A i \in 1 .. Len(lines) : lines'[i] = lines[i]
<1>1. lines \in Seq(Line) /\ \A r \in Readers : reader[r].count \in Nat
  BY DEF TypeOK, RecordsTypeOK, ReadersTypeOK
<1>2. ASSUME Kept
      PROVE  AnswerInv'
  <2> SUFFICES ASSUME NEW r \in Readers, reader[r].at = "answered"
               PROVE  /\ reader[r].count <= Len(lines')
                      /\ reader[r].record.state \in Terminal =>
                           \E i \in 1 .. reader[r].count :
                             lines'[i].kind = TerminalKind[reader[r].record.state]
    BY <1>2 DEF AnswerInv
  <2>1. reader[r].count <= Len(lines) /\ Len(lines) \in Nat /\ Len(lines') \in Nat
    <3>1. lines' \in Seq(Line)
      BY TypeStep DEF TypeOK, RecordsTypeOK
    <3> QED
      BY <1>1, <3>1 DEF AnswerInv
  <2>2. \A i \in 1 .. reader[r].count : lines'[i] = lines[i]
    BY <1>1, <1>2, <2>1
  <2> QED
    BY <1>1, <1>2, <2>1, <2>2 DEF AnswerInv
<1>3. CASE AppendLine
  <2>1. UNCHANGED reader
    BY <1>3 DEF AppendLine
  <2>2. Kept
    BY <1>1, <1>3, <2>1, LineFacts
  <2> QED
    BY <1>2, <2>2
<1>4. CASE UNCHANGED << reader, lines >>
  BY <1>1, <1>2, <1>4
<1>5. ASSUME NEW r \in Readers, ReadCached(r) \/ ReadStored(r) \/ CacheStored(r)
      PROVE  AnswerInv'
  <2>1. /\ reader'[r].at \notin {"idle", "answered"} /\ reader'[r].record # None
        /\ \A x \in Readers : x # r => reader'[x] = reader[x]
        /\ UNCHANGED lines
    BY <1>5 DEF ReadCached, ReadStored, CacheStored, TypeOK, ReadersTypeOK, AnswerInv
  <2> QED
    BY <2>1 DEF AnswerInv
<1>6. ASSUME NEW r \in Readers, ListEvents(r)
      PROVE  AnswerInv'
  <2>1. /\ reader'[r].count = Len(lines) /\ reader'[r].record = reader[r].record
        /\ reader[r].record # None /\ reader[r].record \in Copies
        /\ \A x \in Readers : x # r => reader'[x] = reader[x]
        /\ UNCHANGED lines
    BY <1>6 DEF ListEvents, TypeOK, ReadersTypeOK, AnswerInv, Copies
  <2>2. reader[r].record.state \in Terminal => Ended(reader[r].record.state)
    BY <2>1 DEF CopiesBacked
  <2>3. DOMAIN lines = 1 .. Len(lines) /\ Len(lines) \in Nat
    BY <1>1
  <2> QED
    BY <2>1, <2>2, <2>3 DEF AnswerInv, Ended
<1>7. CASE Crash
  BY <1>7 DEF Crash, AnswerInv, IdleReader
<1> QED
  BY <1>3, <1>4, <1>5, <1>6, <1>7
  DEF Next, Work, vars, Call, BeginAppend, RefuseAppend, BeginSave, Save, AppendLineRejects, SaveRejects

-----------------------------------------------------------------------------
(* Every new ledger satisfies the invariant.                               *)
LEMMA InitInv == Init => Inv
<1> SUFFICES ASSUME Init PROVE Inv
  OBVIOUS
<1> USE LedgerAssumption DEF Init
<1>1. TypeOK
  BY DEF TypeOK, RecordsTypeOK, ChainTypeOK, CallsTypeOK, ReadersTypeOK, BoundsTypeOK,
         IdleReader, MaybeRecord
<1>2. QueueInv /\ FreshInv /\ CreationInv
  BY DEF QueueInv, FreshInv, CreationInv
<1>3. CountInv /\ BackedInv
  BY DEF CountInv, BackedInv, Copies, CopiesBacked, CompletionsBacked, LineWritten, IdleReader
<1>4. NumberInv /\ FrozenInv /\ AnswerInv
  BY DEF NumberInv, FrozenInv, AnswerInv, IdleReader
<1> QED
  BY <1>1, <1>2, <1>3, <1>4 DEF Inv

(* Every step keeps the invariant.                                         *)
LEMMA StepInv == Inv /\ [Next]_vars => Inv'
BY TypeStep, QueueStep, FreshStep, CreationStep, CountStep, BackedStep, NumberStep, FrozenStep,
   AnswerStep DEF Inv, BackedInv

(* The inductive invariant of ledger.ts, FileEvidenceLedger.               *)
THEOREM Invariance == Spec => []Inv
BY InitInv, StepInv, PTL DEF Spec

(* The files, the cache, the chain and the readers keep their shapes.      *)
THEOREM TypeCorrect == Spec => []TypeOK
<1>1. Inv => TypeOK
  BY DEF Inv
<1> QED
  BY <1>1, Invariance, PTL

(* No record, stored or cached, ever counts more events than the log has:  *)
(* append writes the line before it advances the record.                   *)
THEOREM RecordNeverAheadHolds == Spec => []RecordNeverAhead
<1>1. Inv => RecordNeverAhead
  BY DEF Inv, CountInv, Copies, RecordNeverAhead
<1> QED
  BY <1>1, Invariance, PTL

(* A record says that the session ended only once the log has the event:   *)
(* complete appends it in its first task.                                  *)
THEOREM TerminalBackedHolds == Spec => []TerminalBacked
<1>1. Inv => TerminalBacked
  BY DEF Inv, BackedInv, CopiesBacked, Copies, TerminalBacked
<1> QED
  BY <1>1, Invariance, PTL

(* Whatever crashes and rejections, a record tells of no event and of no    *)
(* ending that the log does not have: append and complete write the line   *)
(* first.                                                                  *)
THEOREM RecordBackedHolds == Spec => []RecordBacked
<1>1. RecordNeverAhead /\ TerminalBacked => RecordBacked
  BY DEF RecordBacked
<1> QED
  BY <1>1, RecordNeverAheadHolds, TerminalBackedHolds, PTL

(* One supervisor numbers the lines 1, 2, 3 and so on, whatever it runs    *)
(* concurrently and whichever of its writes are rejected.                  *)
THEOREM SequenceIsPositionHolds == Spec => []SequenceIsPosition
<1>1. Inv => SequenceIsPosition
  BY DEF Inv, NumberInv, SequenceIsPosition
<1> QED
  BY <1>1, Invariance, PTL

(* An answer on which a client stops following holds the event that ended  *)
(* the session, across restarts too: getEvents reads the record first.     *)
THEOREM TerminalAnswerCompleteHolds == Spec => []TerminalAnswerComplete
<1>1. Inv => TerminalAnswerComplete
  BY DEF Inv, AnswerInv, TerminalAnswerComplete
<1> QED
  BY <1>1, Invariance, PTL

(* Once the stored record is terminal, one supervisor appends nothing but  *)
(* policy decisions: append looks at the record inside its task.           *)
THEOREM TerminalFrozenHolds == Spec => TerminalFrozen
<1> DEFINE Frozen ==
      crashes = 0 /\ disk # None /\ disk.state \in Terminal /\ lines' # lines
        => lines'[Len(lines')].kind = "policy.decision"
<1>1. Inv /\ [Next]_vars => [Frozen]_vars
  <2> SUFFICES ASSUME Inv, Next, crashes = 0, disk # None, disk.state \in Terminal,
                      lines' # lines
               PROVE  lines'[Len(lines')].kind = "policy.decision"
    OBVIOUS
  <2>1. AppendLine
    BY DEF Next, Work, Call, BeginAppend, RefuseAppend, BeginSave, Save, AppendLineRejects,
           SaveRejects, ReadCached, ReadStored, CacheStored, ListEvents, Crash
  <2>2. TypeOK /\ NumberInv /\ FrozenInv
    BY DEF Inv
  <2>3. held.state \in Terminal /\ phase = "appending"
    BY <2>1, <2>2 DEF AppendLine, NumberInv, FrozenInv
  <2>4. Asked.kind = "policy.decision"
    BY <2>2, <2>3 DEF FrozenInv
  <2> QED
    BY <2>1, <2>2, <2>4, LineFacts
<1> QED
  BY <1>1, Invariance, PTL DEF Spec, TerminalFrozen

-----------------------------------------------------------------------------
(* The refinement.                                                         *)

(* The calls whose line is in the file.                                    *)
Effected == {lines[i].op : i \in DOMAIN lines}

(* The line of a queued task's call is in the file exactly if the task is  *)
(* behind it: an append that stores its record, or a second task.          *)
Written(task, first) ==
  IF task.part = "append" THEN first /\ phase = "saving"
  ELSE calls[task.op] # CreateRequest

EffectInv ==
  /\ \A o \in Ops : status[o] = "new" => o \notin Effected
  /\ \A i \in DOMAIN chain : chain[i].op \in Effected <=> Written(chain[i], i = 1)

-----------------------------------------------------------------------------
(* Appending a line adds its call to those that took effect.               *)
LEMMA EffectedFacts ==
  ASSUME TypeOK, AppendLine
  PROVE  Effected' = Effected \cup {Running.op}
<1>1. DOMAIN lines' = DOMAIN lines \cup {Len(lines) + 1}
  BY LineFacts
<1>2. lines'[Len(lines) + 1].op = Running.op
  BY LineFacts
<1>3. \A i \in DOMAIN lines : lines'[i].op = lines[i].op
  BY LineFacts
<1> QED
  BY <1>1, <1>2, <1>3 DEF Effected

(* The tasks that move up when the first one is over keep their meaning.   *)
LEMMA ShiftFacts ==
  ASSUME TypeOK, EffectInv, phase' = "idle", UNCHANGED << lines, calls >>,
         NEW j \in DOMAIN chain', j \in Nat \ {0},
         j + 1 \in DOMAIN chain, chain'[j] = chain[j + 1]
  PROVE  chain'[j].op \in Effected' <=> Written(chain[j], j = 1)'
<1>1. Effected' = Effected
  BY DEF Effected
<1>2. chain[j + 1].op \in Effected <=> Written(chain[j + 1], FALSE)
  BY DEF EffectInv, Written
<1> QED
  BY <1>1, <1>2 DEF Written

(* Nothing is written or queued at first.                                   *)
LEMMA InitEffect == Init => EffectInv
BY DEF Init, EffectInv, Effected

(* Every action keeps it: a call's line is written by its append task only. *)
LEMMA EffectStep == Inv /\ EffectInv /\ [Next]_vars => EffectInv'
<1> SUFFICES ASSUME Inv, EffectInv, [Next]_vars PROVE EffectInv'
  OBVIOUS
<1>0. TypeOK /\ QueueInv
  BY DEF Inv
<1>00. \A i \in DOMAIN chain :
         i \in Nat \ {0} /\ chain[i].op \in Ops /\ chain[i].part \in {"append", "save"}
  BY <1>0, ChainFacts
<1>1. ASSUME NEW o \in Ops, NEW r \in Requests, Call(o, r) PROVE EffectInv'
  <2>1. /\ status[o] = "new" /\ UNCHANGED << lines, phase >>
        /\ status' = [status EXCEPT ![o] = "pending"]
    BY <1>1 DEF Call
  <2>2. Effected' = Effected /\ o \notin Effected
    BY <2>1 DEF Effected, EffectInv
  <2>3. \A x \in Ops : status'[x] = "new" => status[x] = "new"
    BY <2>1, <1>0 DEF TypeOK, CallsTypeOK
  <2>4. calls'[o] = r
    BY <1>0, <1>1, CallFacts
  <2>5. ASSUME NEW i \in DOMAIN chain, chain'[i] = chain[i], calls'[chain[i].op] = calls[chain[i].op]
        PROVE  chain'[i].op \in Effected' <=> Written(chain[i], i = 1)'
    BY <2>1, <2>2, <2>5 DEF EffectInv, Written
  <2>6. ASSUME NEW i, i = Len(chain) + 1, chain'[i] = [op |-> o, part |-> Parts(r.call)[1]]
        PROVE  chain'[i].op \in Effected' <=> Written(chain[i], i = 1)'
    <3>1. i = 1 => phase' = "idle"
      BY <2>1, <2>6, <1>0 DEF TypeOK, ChainTypeOK
    <3>2. Parts(r.call)[1] # "append" => r = CreateRequest
      BY PartsFacts, RequestFacts
    <3> QED
      BY <2>2, <2>4, <2>6, <3>1, <3>2 DEF Written
  <2>7. ASSUME NEW i \in DOMAIN chain'
        PROVE  chain'[i].op \in Effected' <=> Written(chain[i], i = 1)'
    BY <1>0, <1>1, CallFacts, <2>5, <2>6
  <2> QED
    BY <2>2, <2>3, <2>7 DEF EffectInv
<1>2. CASE BeginAppend
  <2>1. UNCHANGED << lines, chain, calls, status >> /\ phase = "idle" /\ phase' = "appending"
    BY <1>2 DEF BeginAppend, Begin
  <2> QED
    BY <2>1 DEF EffectInv, Written, Effected
<1>3. CASE BeginSave
  <2>1. /\ UNCHANGED << lines, chain, calls, status >> /\ phase = "idle" /\ phase' = "saving"
        /\ chain[1].part = "save"
    BY <1>0, <1>3, RunningFacts DEF BeginSave, Begin
  <2>2. \A i \in DOMAIN chain : Written(chain[i], i = 1)' <=> Written(chain[i], i = 1)
    BY <2>1 DEF Written
  <2>3. Effected' = Effected
    BY <2>1 DEF Effected
  <2> QED
    BY <2>1, <2>2, <2>3 DEF EffectInv
<1>4. CASE AppendLine
  <2>1. /\ chain # << >> /\ chain[1].part = "append" /\ phase' = "saving" /\ phase = "appending"
        /\ UNCHANGED << chain, calls, status >>
    BY <1>0, <1>4, RunningFacts DEF AppendLine, TypeOK, ChainTypeOK, Running
  <2>2. Running = chain[1] /\ 1 \in DOMAIN chain /\ Running.op \in Ops
    BY <2>1, <1>0, RunningFacts
  <2>3. Effected' = Effected \cup {Running.op}
    BY <1>0, <1>4, EffectedFacts
  <2>4. status[Running.op] = "pending" /\ \A i \in DOMAIN chain : chain[i].op = Running.op => i = 1
    BY <2>2, <1>0 DEF QueueInv
  <2>5. \A x \in Ops : status'[x] = "new" => x \notin Effected'
    BY <2>1, <2>3, <2>4 DEF EffectInv
  <2>6. ASSUME NEW i \in DOMAIN chain
        PROVE  chain[i].op \in Effected' <=> Written(chain[i], i = 1)'
    <3>1. CASE i = 1
      BY <3>1, <2>1, <2>2, <2>3 DEF Written
    <3>2. CASE i # 1
      BY <3>2, <2>1, <2>3, <2>4 DEF Written, EffectInv
    <3> QED
      BY <3>1, <3>2
  <2> QED
    BY <2>1, <2>5, <2>6 DEF EffectInv
<1>5. CASE Save
  <2>1. TaskDone /\ UNCHANGED << lines, calls >> /\ phase = "saving" /\ chain # << >>
    BY <1>0, <1>5, PhaseFacts DEF Save
  <2>2. Running = chain[1] /\ 1 \in DOMAIN chain /\ Running.op \in Ops /\ Asked = calls[Running.op]
        /\ Asked \in Requests \cup {NoRequest} /\ Running.part \in {"append", "save"}
    BY <2>1, <1>0, RunningFacts
  <2>3. Effected' = Effected
    BY <2>1 DEF Effected
  <2>4. status \in [Ops -> {"new", "pending", "ok", "failed", "lost"}]
    BY <1>0 DEF TypeOK, CallsTypeOK
  <2>5. \A x \in Ops : status'[x] = "new" => status[x] = "new"
    BY <2>1, <2>2, <2>4, DoneFacts, <1>0
  <2>6. phase' = "idle" /\ chain' \in Seq(Task)
    BY <2>1, <1>0, DoneFacts
  <2>7. ASSUME NEW j \in DOMAIN chain'
        PROVE  chain'[j].op \in Effected' <=> Written(chain[j], j = 1)'
    <3>1. j \in Nat \ {0}
      BY <2>6
    <3>2. CASE j + 1 \in DOMAIN chain /\ chain'[j] = chain[j + 1]
      BY <3>1, <3>2, <2>1, <2>6, <1>0, ShiftFacts
    <3>3. CASE /\ Running.part = Parts(Asked.call)[1] /\ Len(Parts(Asked.call)) = 2
               /\ chain'[j] = [op |-> Running.op, part |-> Parts(Asked.call)[2]]
      <4>1. Asked.call = "createSession" <=> Asked = CreateRequest
        BY <2>2, RequestFacts
      <4>2. /\ Running.part = "save" <=> Asked = CreateRequest
            /\ Parts(Asked.call)[2] = "append" <=> Asked = CreateRequest
        BY <3>3, <4>1, PartsFacts
      <4>3. Running.op \in Effected <=> Written(Running, TRUE)
        BY <2>2 DEF EffectInv, Written
      <4>4. Written(Running, TRUE) <=> Asked # CreateRequest
        BY <4>2, <2>1, <2>2 DEF Written
      <4>5. Written(chain[j], j = 1)' <=> Asked # CreateRequest
        BY <4>2, <3>3, <2>1, <2>2, <2>6 DEF Written
      <4>6. chain'[j].op = Running.op
        BY <3>3
      <4> QED
        BY <4>3, <4>4, <4>5, <4>6, <2>3
    <3> QED
      BY <3>2, <3>3, <2>1, <1>0, DoneFacts
  <2> QED
    BY <2>3, <2>5, <2>7 DEF EffectInv
<1>6. CASE RefuseAppend \/ AppendLineRejects \/ SaveRejects
  <2>1. TaskThrows /\ UNCHANGED << lines, calls >> /\ chain # << >>
    BY <1>0, <1>6, PhaseFacts DEF RefuseAppend, Begin, AppendLineRejects, SaveRejects
  <2>2. /\ phase' = "idle" /\ chain' \in Seq(Task)
        /\ \A i \in DOMAIN chain' : i + 1 \in DOMAIN chain /\ chain'[i] = chain[i + 1]
        /\ status' = [status EXCEPT ![Running.op] = "failed"]
    BY <2>1, <1>0, ThrowFacts
  <2>3. \A x \in Ops : status'[x] = "new" => status[x] = "new"
    BY <2>2, <1>0 DEF TypeOK, CallsTypeOK
  <2>4. Effected' = Effected
    BY <2>1 DEF Effected
  <2>5. ASSUME NEW j \in DOMAIN chain'
        PROVE  chain'[j].op \in Effected' <=> Written(chain[j], j = 1)'
    <3>1. j \in Nat \ {0}
      BY <2>2
    <3> QED
      BY <3>1, <2>1, <2>2, <1>0, ShiftFacts
  <2> QED
    BY <2>3, <2>4, <2>5 DEF EffectInv
<1>7. CASE Crash
  <2>1. chain' = << >> /\ \A x \in Ops : status'[x] = "new" => status[x] = "new"
    BY <1>7 DEF Crash
  <2>2. Effected' = Effected
    BY <1>7 DEF Crash, Effected
  <2> QED
    BY <2>1, <2>2 DEF EffectInv
<1>8. CASE UNCHANGED << lines, chain, phase, calls, status >>
  BY <1>8 DEF EffectInv, Written, Effected
<1> QED
  BY <1>1, <1>2, <1>3, <1>4, <1>5, <1>6, <1>7, <1>8
     DEF Next, Work, vars, ReadCached, ReadStored, CacheStored, ListEvents

-----------------------------------------------------------------------------
(* The abstract log's entries are the calls of the lines.                  *)
Log == [i \in DOMAIN lines |-> lines[i].op]

(* It is a sequence of calls, those that took effect.                      *)
LEMMA LogFacts ==
  ASSUME TypeOK
  PROVE  Log \in Seq(Ops) /\ Range(Log) = Effected
<1>1. lines \in Seq(Line)
  BY DEF TypeOK, RecordsTypeOK
<1>2. \A i \in DOMAIN lines : lines[i] \in Line
  BY <1>1
<1>3. DOMAIN lines = 1 .. Len(lines) /\ Len(lines) \in Nat
  BY <1>1
<1>4. Log \in Seq(Ops)
  BY <1>2, <1>3 DEF Log, Line
<1>5. Range(Log) = Effected
  BY DEF Log, Range, Effected
<1> QED
  BY <1>4, <1>5

(* A line adds the entry of the call that runs.                            *)
LEMMA LogStep ==
  ASSUME TypeOK, AppendLine
  PROVE  Log' = Append(Log, Running.op)
<1>1. Log \in Seq(Ops)
  BY LogFacts
<1>2. /\ DOMAIN lines = 1 .. Len(lines) /\ Len(lines) \in Nat
      /\ DOMAIN lines' = 1 .. Len(lines) + 1
      /\ lines'[Len(lines) + 1].op = Running.op
      /\ \A i \in 1 .. Len(lines) : lines'[i].op = lines[i].op
  <2>1. lines \in Seq(Line)
    BY DEF TypeOK, RecordsTypeOK
  <2>2. DOMAIN lines' = DOMAIN lines \cup {Len(lines) + 1}
    BY LineFacts
  <2> QED
    BY <2>1, <2>2, LineFacts
<1>3. Len(Log) = Len(lines)
  BY <1>1, <1>2 DEF Log
<1>4. Append(Log, Running.op) =
        [i \in 1 .. Len(lines) + 1 |-> IF i <= Len(lines) THEN lines[i].op ELSE Running.op]
  BY <1>1, <1>2, <1>3 DEF Log
<1>5. Log' = [i \in 1 .. Len(lines) + 1 |-> lines'[i].op]
  BY <1>2 DEF Log
<1> QED
  BY <1>2, <1>4, <1>5

(* The refinement: initial states, then one abstract step per action.      *)
LEMMA AbstractInit == Init => Abstract!Init
BY DEF Init, Abstract!Init

(* Every step is one of the abstract log's, or a stutter.                   *)
LEMMA AbstractStep == Inv /\ EffectInv /\ [Next]_vars => [Abstract!Next]_<< Log, status >>
<1> SUFFICES ASSUME Inv, EffectInv, [Next]_vars PROVE [Abstract!Next]_<< Log, status >>
  OBVIOUS
<1>0. TypeOK /\ QueueInv
  BY DEF Inv
<1>1. ASSUME NEW o \in Ops, NEW r \in Requests, Call(o, r) PROVE Abstract!Invoke(o)
  BY <1>1 DEF Call, Abstract!Invoke
<1>2. ASSUME phase # "idle" \/ Begin
      PROVE  /\ chain # << >> /\ Running = chain[1] /\ 1 \in DOMAIN chain
             /\ Running.op \in Ops /\ status[Running.op] = "pending"
  BY <1>0, <1>2, PhaseFacts, RunningFacts DEF Begin, QueueInv
<1>3. CASE AppendLine
  <2>1. phase = "appending" /\ phase # "idle"
    BY <1>3 DEF AppendLine
  <2>2. Running.part = "append" /\ Running.op \notin Effected
    BY <1>0, <1>2, <2>1 DEF TypeOK, ChainTypeOK, Running, EffectInv, Written
  <2>3. PICK o \in Ops : o = Running.op
    BY <1>2, <2>1
  <2>4. Abstract!TakeEffect(o)
    BY <1>0, <1>2, <1>3, <2>1, <2>2, <2>3, LogFacts, LogStep
       DEF AppendLine, Abstract!TakeEffect, Abstract!Range, Range, Log
  <2> QED
    BY <2>4 DEF Abstract!Next
<1>4. CASE Save
  <2>1. phase = "saving" /\ TaskDone /\ UNCHANGED << lines, calls >>
    BY <1>4 DEF Save
  <2>2. Log' = Log
    BY <2>1 DEF Log
  <2>3. CASE UNCHANGED status
    BY <2>2, <2>3
  <2>4. CASE ~ (Running.part = Parts(Asked.call)[1] /\ Len(Parts(Asked.call)) = 2)
    <3>1. status' = [status EXCEPT ![Running.op] = "ok"]
      BY <2>1, <2>4 DEF TaskDone
    <3>2. Asked \in Requests \cup {NoRequest} /\ Asked = calls[Running.op] /\ Running.part \in {"append", "save"}
      BY <1>0, <1>2, <2>1, RunningFacts
    <3>3. Running.part = "append" \/ Asked # CreateRequest
      BY <2>4, <3>2 DEF Parts, CreateRequest, Request
    <3>4. Running.op \in Effected
      BY <1>2, <2>1, <3>2, <3>3 DEF EffectInv, Written
    <3>5. Abstract!Return(Running.op)
      BY <1>0, <1>2, <2>1, <2>2, <3>1, <3>4, LogFacts
      DEF Abstract!Return, Abstract!Range, Range, Log
    <3> QED
      BY <1>2, <2>1, <3>5 DEF Abstract!Next
  <2> QED
    BY <2>1, <2>3, <2>4 DEF TaskDone
<1>5. CASE RefuseAppend \/ AppendLineRejects \/ SaveRejects
  <2>1. TaskThrows /\ UNCHANGED lines /\ (phase # "idle" \/ Begin)
    BY <1>5 DEF RefuseAppend, AppendLineRejects, SaveRejects
  <2>2. Abstract!Fail(Running.op)
    BY <1>2, <2>1 DEF TaskThrows, Abstract!Fail
  <2> QED
    BY <1>2, <2>1, <2>2 DEF Abstract!Next
<1>6. CASE Crash
  BY <1>6 DEF Crash, Abstract!Restart, Abstract!Next
<1>7. CASE UNCHANGED << lines, status >>
  BY <1>7 DEF Log
<1> QED
  BY <1>1, <1>3, <1>4, <1>5, <1>6, <1>7
     DEF Abstract!Next, Next, Work, vars, ReadCached, ReadStored, CacheStored, ListEvents,
         BeginAppend, BeginSave

(* The files and the answers of ledger.ts implement a log on which each    *)
(* call takes effect at most once, between the call and its answer, and    *)
(* has taken effect if it was answered.                                    *)
THEOREM Refinement == Spec => ImplementsSessionLog
<1>1. Spec => []EffectInv
  BY Invariance, InitEffect, EffectStep, PTL DEF Spec
<1> QED
  BY <1>1, Invariance, AbstractInit, AbstractStep, PTL
     DEF Spec, ImplementsSessionLog, Abstract!Spec, Log

-----------------------------------------------------------------------------
(* Totals of reports.  One is a recursive function of the log; that it     *)
(* exists and that leaving out fewer calls gives more is kept from one     *)
(* length of the log to the next.                                          *)
Weight(L, U, m) == IF L[m].op \in U THEN 0 ELSE L[m].tokens

Sums(f, L, U) ==
  f = [m \in 0 .. Len(L) |-> IF m = 0 THEN 0 ELSE f[m - 1] + Weight(L, U, m)]

Summable(L) ==
  \A U \in SUBSET Ops :
    /\ \E f : Sums(f, L, U)
    /\ \A f : Sums(f, L, U) => f \in [0 .. Len(L) -> Nat]
    /\ \A V \in SUBSET U : \A f, g : Sums(f, L, V) /\ Sums(g, L, U) => g[Len(L)] <= f[Len(L)]

Total(L, U) == LET f == CHOOSE f : Sums(f, L, U) IN f[Len(L)]

(* All functions that sum agree on the total.                              *)
LEMMA TotalFacts ==
  ASSUME NEW L \in Seq(Line), Summable(L), NEW U \in SUBSET Ops
  PROVE  /\ Total(L, U) \in Nat
         /\ \A f : Sums(f, L, U) => f[Len(L)] = Total(L, U)
         /\ \A V \in SUBSET U : Total(L, U) <= Total(L, V)
<1> DEFINE n == Len(L)
           c(V) == CHOOSE f : Sums(f, L, V)
<1>1. n \in Nat /\ n \in 0 .. n
  OBVIOUS
<1>2. \A V \in SUBSET Ops : Sums(c(V), L, V) /\ Total(L, V) = c(V)[n]
  BY DEF Summable, Total
<1>3. \A V \in SUBSET Ops : \A f : Sums(f, L, V) => f[n] \in Nat
  BY <1>1 DEF Summable
<1> HIDE DEF c, n
<1>4. ASSUME NEW V \in SUBSET U, NEW f, NEW g, Sums(f, L, V), Sums(g, L, U)
      PROVE  g[n] <= f[n]
  BY <1>4 DEF Summable, n
<1>5. ASSUME NEW f, Sums(f, L, U) PROVE f[n] = Total(L, U)
  <2>1. f[n] <= c(U)[n] /\ c(U)[n] <= f[n]
    BY <1>2, <1>4, <1>5
  <2> QED
    BY <1>2, <1>3, <1>5, <2>1
<1> QED
  BY <1>2, <1>3, <1>4, <1>5 DEF n

(* One more line.                                                          *)
Longer(f, n, w) == [m \in 0 .. n + 1 |-> IF m <= n THEN f[m] ELSE f[n] + w]
Shorter(f, n) == [m \in 0 .. n |-> f[m]]

LEMMA SumsAppend ==
  ASSUME NEW L \in Seq(Line), NEW e \in Line, NEW U
  PROVE  LET n == Len(L)
             w == IF e.op \in U THEN 0 ELSE e.tokens
         IN  /\ \A f : Sums(f, L, U) => Sums(Longer(f, n, w), Append(L, e), U)
             /\ \A f : Sums(f, Append(L, e), U) =>
                  /\ Sums(Shorter(f, n), L, U)
                  /\ f[n] = Shorter(f, n)[n] /\ f[n + 1] = f[n] + w
                  /\ DOMAIN f = 0 .. n + 1
<1> DEFINE n == Len(L)
           w == IF e.op \in U THEN 0 ELSE e.tokens
           M == Append(L, e)
<1>1. /\ n \in Nat /\ Len(M) = n + 1 /\ M[n + 1] = e
      /\ \A m \in 1 .. n : M[m] = L[m]
  OBVIOUS
<1> HIDE DEF n, M
<1>2. Weight(M, U, n + 1) = w /\ \A m \in 1 .. n : Weight(M, U, m) = Weight(L, U, m)
  BY <1>1 DEF Weight
<1> HIDE DEF w
<1>3. ASSUME NEW f, Sums(f, L, U) PROVE Sums(Longer(f, n, w), M, U)
  <2> DEFINE g == Longer(f, n, w)
  <2>1. /\ g = [m \in 0 .. n + 1 |-> g[m]]
        /\ \A m \in 0 .. n : g[m] = f[m] /\ m \in 0 .. n + 1
        /\ g[n + 1] = f[n] + w
    BY <1>1 DEF Longer
  <2>2. \A m \in 0 .. n : f[m] = IF m = 0 THEN 0 ELSE f[m - 1] + Weight(L, U, m)
    BY <1>3 DEF Sums, n
  <2> HIDE DEF g
  <2>3. \A m \in 1 .. n : m \in 0 .. n /\ m - 1 \in 0 .. n /\ m # 0
    BY <1>1
  <2>4. g[0] = 0
    BY <1>1, <2>1, <2>2
  <2>5. \A m \in 1 .. n : g[m] = g[m - 1] + Weight(M, U, m)
    BY <1>2, <2>1, <2>2, <2>3
  <2>6. g[n + 1] = g[(n + 1) - 1] + Weight(M, U, n + 1)
    <3>1. (n + 1) - 1 = n /\ n \in 0 .. n
      BY <1>1
    <3> QED
      BY <1>2, <2>1, <3>1
  <2>7. \A m \in 0 .. n + 1 : m = 0 \/ m \in 1 .. n \/ m = n + 1
    BY <1>1
  <2>8. \A m \in 0 .. n + 1 : g[m] = IF m = 0 THEN 0 ELSE g[m - 1] + Weight(M, U, m)
    BY <1>1, <2>4, <2>5, <2>6, <2>7
  <2>9. g = [m \in 0 .. n + 1 |-> IF m = 0 THEN 0 ELSE g[m - 1] + Weight(M, U, m)]
    BY <2>1, <2>8
  <2> QED
    BY <1>1, <2>9 DEF Sums, g
<1>4. ASSUME NEW f, Sums(f, M, U)
      PROVE  /\ Sums(Shorter(f, n), L, U)
             /\ f[n] = Shorter(f, n)[n] /\ f[n + 1] = f[n] + w
             /\ DOMAIN f = 0 .. n + 1
  <2> DEFINE g == Shorter(f, n)
  <2>1. /\ DOMAIN f = 0 .. n + 1
        /\ \A m \in 0 .. n + 1 : f[m] = IF m = 0 THEN 0 ELSE f[m - 1] + Weight(M, U, m)
    BY <1>1, <1>4 DEF Sums
  <2>2. /\ g = [m \in 0 .. n |-> g[m]]
        /\ \A m \in 0 .. n : g[m] = f[m] /\ m \in 0 .. n + 1 /\ (m # 0 => m \in 1 .. n)
        /\ n \in 0 .. n /\ n + 1 \in 0 .. n + 1 /\ n + 1 # 0 /\ (n + 1) - 1 = n
    BY <1>1 DEF Shorter
  <2> HIDE DEF g
  <2>3. \A m \in 1 .. n : m - 1 \in 0 .. n
    BY <1>1
  <2>4. \A m \in 0 .. n : g[m] = IF m = 0 THEN 0 ELSE g[m - 1] + Weight(L, U, m)
    BY <1>2, <2>1, <2>2, <2>3
  <2>5. g = [m \in 0 .. n |-> IF m = 0 THEN 0 ELSE g[m - 1] + Weight(L, U, m)]
    BY <2>2, <2>4
  <2>6. f[n + 1] = f[n] + w
    BY <1>2, <2>1, <2>2
  <2> QED
    BY <2>1, <2>2, <2>5, <2>6 DEF Sums, n, g
<1> QED
  BY <1>3, <1>4 DEF n, w, M

LEMMA SummableAppend ==
  ASSUME NEW L \in Seq(Line), NEW e \in Line, Summable(L)
  PROVE  /\ Summable(Append(L, e))
         /\ \A U \in SUBSET Ops :
              Total(Append(L, e), U) = Total(L, U) + (IF e.op \in U THEN 0 ELSE e.tokens)
<1> DEFINE n == Len(L)
           w(U) == IF e.op \in U THEN 0 ELSE e.tokens
           M == Append(L, e)
<1>1. n \in Nat /\ Len(M) = n + 1 /\ M \in Seq(Line)
  OBVIOUS
<1>2. e.tokens \in Nat
  BY DEF Line
<1>3. \A U : w(U) \in Nat
  BY <1>2
<1>4. \A U, V : V \subseteq U => w(U) <= w(V)
  BY <1>2
<1>5. ASSUME NEW U
      PROVE  /\ \A f : Sums(f, L, U) => Sums(Longer(f, n, w(U)), M, U)
             /\ \A f : Sums(f, M, U) =>
                  /\ Sums(Shorter(f, n), L, U)
                  /\ f[n] = Shorter(f, n)[n] /\ f[n + 1] = f[n] + w(U)
                  /\ DOMAIN f = 0 .. n + 1
  BY SumsAppend
<1> HIDE DEF n, w, M
<1>6. ASSUME NEW U \in SUBSET Ops PROVE \E f : Sums(f, M, U)
  <2>1. PICK f : Sums(f, L, U)
    BY DEF Summable
  <2> QED
    BY <1>5, <2>1
<1>7. ASSUME NEW U \in SUBSET Ops, NEW f, Sums(f, M, U) PROVE f \in [0 .. n + 1 -> Nat]
  <2>1. Shorter(f, n) \in [0 .. n -> Nat]
    BY <1>5, <1>7 DEF Summable, n
  <2>2. \A m \in 0 .. n : f[m] \in Nat
    BY <2>1 DEF Shorter
  <2>3. n \in 0 .. n /\ \A m \in 0 .. n + 1 : m \in 0 .. n \/ m = n + 1
    BY <1>1
  <2>4. f[n + 1] \in Nat
    BY <1>3, <1>5, <1>7, <2>2, <2>3
  <2>5. \A m \in 0 .. n + 1 : f[m] \in Nat
    BY <2>2, <2>3, <2>4
  <2>6. f = [m \in 0 .. n + 1 |-> f[m]]
    BY <1>1, <1>7 DEF Sums
  <2> HIDE DEF Sums
  <2> QED
    BY <2>5, <2>6
<1>8. ASSUME NEW U \in SUBSET Ops, NEW V \in SUBSET U, NEW f, NEW g, Sums(f, M, V), Sums(g, M, U)
      PROVE  g[n + 1] <= f[n + 1]
  <2>1. /\ Sums(Shorter(f, n), L, V) /\ f[n] = Shorter(f, n)[n] /\ f[n + 1] = f[n] + w(V)
        /\ Sums(Shorter(g, n), L, U) /\ g[n] = Shorter(g, n)[n] /\ g[n + 1] = g[n] + w(U)
    BY <1>5, <1>8
  <2>2. g[n] <= f[n]
    BY <2>1 DEF Summable, n
  <2>3. f[n] \in Nat /\ g[n] \in Nat
    <3>1. V \in SUBSET Ops /\ n \in 0 .. n + 1
      BY <1>1
    <3> QED
      BY <1>7, <1>8, <3>1
  <2> QED
    BY <1>3, <1>4, <2>1, <2>2, <2>3
<1>9. Summable(M)
  BY <1>1, <1>6, <1>7, <1>8 DEF Summable
<1>10. ASSUME NEW U \in SUBSET Ops PROVE Total(M, U) = Total(L, U) + w(U)
  <2>1. PICK f : Sums(f, M, U)
    BY <1>6
  <2>2. Sums(Shorter(f, n), L, U) /\ f[n] = Shorter(f, n)[n] /\ f[n + 1] = f[n] + w(U)
    BY <1>5, <2>1
  <2>3. Total(M, U) = f[n + 1]
    BY <1>1, <1>9, <2>1, TotalFacts
  <2>4. Total(L, U) = f[n]
    BY <2>2, TotalFacts DEF n
  <2> QED
    BY <2>2, <2>3, <2>4
<1> QED
  BY <1>9, <1>10 DEF M, w

(* The total without some calls depends on their lines only.               *)
LEMMA SameTotal ==
  ASSUME NEW L \in Seq(Line), NEW U, NEW V, \A m \in 1 .. Len(L) : L[m].op \in U <=> L[m].op \in V
  PROVE  Total(L, U) = Total(L, V)
<1>1. \A m \in 0 .. Len(L) : m = 0 \/ Weight(L, U, m) = Weight(L, V, m)
  BY DEF Weight
<1>2. ASSUME NEW f
      PROVE  [m \in 0 .. Len(L) |-> IF m = 0 THEN 0 ELSE f[m - 1] + Weight(L, U, m)]
             = [m \in 0 .. Len(L) |-> IF m = 0 THEN 0 ELSE f[m - 1] + Weight(L, V, m)]
  BY <1>1
<1>3. \A f : Sums(f, L, U) <=> Sums(f, L, V)
  BY <1>2 DEF Sums
<1> QED
  BY <1>3 DEF Total

(* Leaving a call out takes the tokens of its one line away.               *)
LEMMA LeftOut ==
  ASSUME NEW L \in Seq(Line), Summable(L), NEW U \in SUBSET Ops, NEW p \in 1 .. Len(L),
         L[p].op \in Ops \ U, \A m \in 1 .. Len(L) : L[m].op = L[p].op => m = p
  PROVE  Total(L, U) = Total(L, U \cup {L[p].op}) + L[p].tokens
<1> DEFINE V == U \cup {L[p].op}
           t == L[p].tokens
           n == Len(L)
<1>1. PICK f : Sums(f, L, U)
  BY DEF Summable
<1>2. f \in [0 .. n -> Nat]
  BY <1>1 DEF Summable
<1>3. \A m \in 0 .. n : f[m] = IF m = 0 THEN 0 ELSE f[m - 1] + Weight(L, U, m)
  BY <1>1 DEF Sums
<1>4. t \in Nat /\ \A m \in 1 .. n : L[m].tokens \in Nat
  <2>1. \A m \in 1 .. n : L[m] \in Line
    OBVIOUS
  <2> QED
    BY <2>1 DEF Line
<1>5. /\ Weight(L, U, p) = t /\ Weight(L, V, p) = 0
      /\ \A m \in 1 .. n : m # p => Weight(L, V, m) = Weight(L, U, m)
      /\ \A m \in 1 .. n : Weight(L, U, m) \in Nat
  BY <1>4 DEF Weight
<1> DEFINE g == [m \in 0 .. n |-> IF m < p THEN f[m] ELSE f[m] - t]
<1>6. n \in Nat /\ p \in 1 .. n /\ p \in Nat
  OBVIOUS
<1> HIDE DEF V, t, n
<1>7. \A m \in 1 .. n : g[m] = g[m - 1] + Weight(L, V, m)
  <2> SUFFICES ASSUME NEW m \in 1 .. n
               PROVE  g[m] = g[m - 1] + Weight(L, V, m)
    OBVIOUS
  <2>1. /\ m \in 0 .. n /\ m - 1 \in 0 .. n /\ m # 0
        /\ g[m] = (IF m < p THEN f[m] ELSE f[m] - t)
        /\ g[m - 1] = (IF m - 1 < p THEN f[m - 1] ELSE f[m - 1] - t)
    BY <1>6
  <2>2. f[m] = f[m - 1] + Weight(L, U, m) /\ f[m - 1] \in Nat /\ f[m] \in Nat
    BY <1>2, <1>3, <2>1
  <2> HIDE DEF g
  <2>3. CASE m = p
    BY <1>4, <1>5, <1>6, <2>1, <2>2, <2>3
  <2>4. CASE m < p
    BY <1>4, <1>5, <1>6, <2>1, <2>2, <2>4
  <2>5. CASE p < m
    BY <1>4, <1>5, <1>6, <2>1, <2>2, <2>5
  <2> QED
    BY <1>6, <2>3, <2>4, <2>5
<1>8. g[0] = 0 /\ g[n] = f[n] - t
  BY <1>3, <1>6
<1>9. g = [m \in 0 .. n |-> g[m]]
  OBVIOUS
<1> HIDE DEF g
<1>10. \A m \in 0 .. n : m = 0 \/ m \in 1 .. n
  BY <1>6
<1>11. \A m \in 0 .. n : g[m] = IF m = 0 THEN 0 ELSE g[m - 1] + Weight(L, V, m)
  BY <1>7, <1>8, <1>10
<1>12. Sums(g, L, V)
  BY <1>9, <1>11 DEF Sums, n
<1>13. V \in SUBSET Ops
  BY DEF V
<1>14. Total(L, V) = g[n] /\ Total(L, U) = f[n] /\ f[n] \in Nat
  BY <1>1, <1>2, <1>6, <1>12, <1>13, TotalFacts DEF n
<1> QED
  BY <1>4, <1>8, <1>14 DEF V, t

-----------------------------------------------------------------------------
(* The usage total.                                                        *)

(* A call leaves one line at most, with the tokens it reported.            *)
LineInv ==
  /\ \A i, j \in DOMAIN lines : lines[i].op = lines[j].op => i = j
  /\ \A i \in DOMAIN lines : lines[i].tokens = calls[lines[i].op].tokens

(* No copy of the record has a report that is not in the log or is still   *)
(* to be added, and without crash or rejection the cache has all others.   *)
UsageInv ==
  /\ \A record \in Copies : TotalOf(record) <= Total(lines, Unsummed)
  /\ crashes = 0 /\ faults = 0 => TotalOf(cache) = Total(lines, Unsummed)

AccountInv == Summable(lines) /\ LineInv /\ UsageInv

LEMMA OnlyReportsCount ==
  ASSUME NEW r \in Requests \cup {NoRequest}, r.call # "recordUsage"
  PROVE  r.tokens = 0
<1> USE DEF Request, NoRequest, CreateRequest
<1>1. CASE r \in {NoRequest, CreateRequest}
  BY <1>1
<1>2. CASE r \in {Request("append", k, "running", 0) : k \in AppendKinds}
  BY <1>2
<1>3. CASE r \in {Request("complete", TerminalKind[s], s, 0) : s \in Endings}
  BY <1>3
<1>4. CASE r \in {Request("recordUsage", "usage.reported", "running", n) : n \in TokenCounts}
  BY <1>4
<1>5. CASE r \in {Request("recordUsageUnknown", "usage.unavailable", "running", 0)}
  BY <1>5
<1> QED
  BY <1>1, <1>2, <1>3, <1>4, <1>5 DEF Requests, CallRequests

LEMMA CopyTotals ==
  ASSUME TypeOK
  PROVE  \A record \in Copies : record \in MaybeRecord /\ TotalOf(record) \in Nat
<1>1. \A record \in Copies : record \in MaybeRecord
  BY DEF Copies, TypeOK, RecordsTypeOK, ReadersTypeOK
<1>2. \A record \in MaybeRecord : TotalOf(record) \in Nat
  BY LedgerAssumption DEF MaybeRecord, Record, TotalOf
<1> QED
  BY <1>1, <1>2

LEMMA UnsummedOps == Unsummed \in SUBSET Ops
BY DEF Unsummed

(* Which calls are unsummed, by the lines, the callers and the queue.      *)
LEMMA UnsummedMembers ==
  ASSUME TypeOK
  PROVE  \A o \in Ops :
           o \in Unsummed <=>
             /\ calls[o].call = "recordUsage" /\ status[o] = "pending" /\ o \in Effected
             /\ ~(phase = "saving" /\ chain[1].op = o /\ chain[1].part = "save")
<1>1. \A o \in Ops : LinesOf(o) # {} <=> o \in Effected
  BY DEF LinesOf, Effected
<1>2. phase = "saving" => chain # << >> /\ Running = chain[1] /\ chain[1] \in Task
  BY PhaseFacts, RunningFacts
<1>3. \A o \in Ops : \A task \in Task :
        task = [op |-> o, part |-> "save"] <=> task.op = o /\ task.part = "save"
  BY DEF Task
<1> QED
  BY <1>1, <1>2, <1>3 DEF Unsummed

(* Nothing new is copied, nothing is added.                                *)
LEMMA UsageKeeps ==
  ASSUME TypeOK, Summable(lines), UsageInv, UNCHANGED lines, Unsummed' \subseteq Unsummed,
         \A record \in Copies' : record = None \/ record \in Copies,
         crashes' = 0 /\ faults' = 0 =>
           crashes = 0 /\ faults = 0 /\ Unsummed' = Unsummed /\ cache' = cache
  PROVE  UsageInv'
<1>1. lines \in Seq(Line)
  BY DEF TypeOK, RecordsTypeOK
<1>2. Total(lines, Unsummed) <= Total(lines, Unsummed') /\ Total(lines, Unsummed) \in Nat
      /\ Total(lines, Unsummed') \in Nat
  <2>1. Unsummed' \in SUBSET Unsummed /\ Unsummed' \in SUBSET Ops
    BY UnsummedOps
  <2> QED
    BY <1>1, <2>1, UnsummedOps, TotalFacts
<1>3. TotalOf(None) = 0
  BY DEF TotalOf
<1>4. \A record \in Copies' : TotalOf(record) <= Total(lines, Unsummed')
  <2> SUFFICES ASSUME NEW record \in Copies'
               PROVE  TotalOf(record) <= Total(lines, Unsummed')
    OBVIOUS
  <2>1. CASE record = None
    BY <1>2, <1>3, <2>1
  <2>2. CASE record \in Copies
    <3>1. TotalOf(record) <= Total(lines, Unsummed) /\ TotalOf(record) \in Nat
      BY <2>2, CopyTotals DEF UsageInv
    <3> QED
      BY <1>2, <3>1
  <2> QED
    BY <2>1, <2>2
<1>5. crashes' = 0 /\ faults' = 0 => TotalOf(cache') = Total(lines, Unsummed')
  BY DEF UsageInv
<1> QED
  BY <1>4, <1>5 DEF UsageInv, TotalOf

LEMMA UnsummedThen ==
  ASSUME TypeOK'
  PROVE  \A o \in Ops :
           o \in Unsummed' <=>
             /\ calls'[o].call = "recordUsage" /\ status'[o] = "pending" /\ o \in Effected'
             /\ ~(phase' = "saving" /\ chain'[1].op = o /\ chain'[1].part = "save")
<1>1. \A o \in Ops : LinesOf(o)' # {} <=> o \in Effected'
  BY DEF LinesOf, Effected
<1>2. phase' = "saving" => chain' # << >> /\ Running' = chain'[1] /\ chain'[1] \in Task
  BY DEF TypeOK, ChainTypeOK, Running
<1>3. \A o \in Ops : \A task \in Task :
        task = [op |-> o, part |-> "save"] <=> task.op = o /\ task.part = "save"
  BY DEF Task
<1> QED
  BY <1>1, <1>2, <1>3 DEF Unsummed

(* A call that is being made has no line yet.                              *)
LEMMA CallSums ==
  ASSUME Inv, EffectInv, TypeOK', NEW o \in Ops, NEW r \in Requests, Call(o, r)
  PROVE  Unsummed' = Unsummed
<1>0. TypeOK /\ QueueInv
  BY DEF Inv
<1>1. /\ status[o] = "new" /\ UNCHANGED << lines, phase >>
      /\ status' = [status EXCEPT ![o] = "pending"]
  BY DEF Call
<1>2. Effected' = Effected /\ o \notin Effected
  BY <1>1 DEF Effected, EffectInv
<1>3. \A x \in Ops \ {o} : calls'[x] = calls[x] /\ status'[x] = status[x]
  BY <1>0, <1>1, CallFacts DEF TypeOK, CallsTypeOK
<1>4. phase = "saving" => chain'[1] = chain[1]
  <2>1. phase = "saving" => chain # << >> /\ chain \in Seq(Task)
    BY <1>0 DEF TypeOK, ChainTypeOK
  <2> QED
    BY <2>1 DEF Call
<1>5. \A x \in Ops : x \in Unsummed' <=> x \in Unsummed
  BY <1>0, <1>1, <1>2, <1>3, <1>4, UnsummedMembers, UnsummedThen
<1> QED
  BY <1>5 DEF Unsummed

(* A task that begins to append, one that is done and what readers do      *)
(* leaves every report where it is.                                        *)
LEMMA QuietSums ==
  ASSUME Inv, TypeOK', UNCHANGED << lines, calls >>,
         \/ UNCHANGED << chain, phase, status >>
         \/ BeginAppend
  PROVE  Unsummed' = Unsummed
<1>0. TypeOK
  BY DEF Inv
<1>1. UNCHANGED << chain, status >> /\ (phase' = "saving" <=> phase = "saving")
  BY DEF BeginAppend, Begin
<1>2. Effected' = Effected
  BY DEF Effected
<1>3. \A x \in Ops : x \in Unsummed' <=> x \in Unsummed
  BY <1>0, <1>1, <1>2, UnsummedMembers, UnsummedThen
<1> QED
  BY <1>3 DEF Unsummed

LEMMA SaveSums ==
  ASSUME Inv, TypeOK', Save
  PROVE  Unsummed' = Unsummed
<1>0. TypeOK /\ QueueInv
  BY DEF Inv
<1>1. TaskDone /\ UNCHANGED << lines, calls >> /\ phase = "saving" /\ chain # << >>
  BY <1>0, PhaseFacts DEF Save
<1>2. /\ Running = chain[1] /\ Running.op \in Ops /\ Asked = calls[Running.op]
      /\ Asked \in Requests \cup {NoRequest} /\ Running.part \in {"append", "save"}
  BY <1>0, <1>1, RunningFacts
<1>3. Effected' = Effected /\ phase' = "idle"
  BY <1>1 DEF Effected, TaskDone
<1>4. \A x \in Ops \ {Running.op} : status'[x] = status[x]
  BY <1>0, <1>1, <1>2 DEF TaskDone, TypeOK, CallsTypeOK
<1>5. Running.op \in Unsummed' <=> Running.op \in Unsummed
  <2>1. CASE Asked.call = "recordUsage" /\ Running.part = "append"
    <3>1. UNCHANGED status
      BY <1>1, <2>1 DEF TaskDone, Parts
    <3> QED
      BY <1>0, <1>1, <1>2, <1>3, <2>1, <3>1, UnsummedMembers, UnsummedThen
  <2>2. CASE Asked.call = "recordUsage" /\ Running.part = "save"
    <3>1. status' = [status EXCEPT ![Running.op] = "ok"]
      BY <1>1, <2>2 DEF TaskDone, Parts
    <3>2. status'[Running.op] = "ok"
      BY <1>0, <1>2, <3>1 DEF TypeOK, CallsTypeOK
    <3> QED
      BY <1>0, <1>1, <1>2, <2>2, <3>2, UnsummedMembers, UnsummedThen
  <2>3. CASE Asked.call # "recordUsage"
    BY <1>0, <1>1, <1>2, <2>3, UnsummedMembers, UnsummedThen
  <2> QED
    BY <1>2, <2>1, <2>2, <2>3
<1>6. \A x \in Ops \ {Running.op} : x \in Unsummed' <=> x \in Unsummed
  BY <1>0, <1>1, <1>2, <1>3, <1>4, UnsummedMembers, UnsummedThen
<1> QED
  BY <1>2, <1>5, <1>6 DEF Unsummed

(* A report whose task throws is not added any more; one that was refused  *)
(* has no line.                                                            *)
LEMMA ThrowSums ==
  ASSUME Inv, EffectInv, TypeOK', RefuseAppend \/ AppendLineRejects \/ SaveRejects
  PROVE  Unsummed' \subseteq Unsummed /\ (RefuseAppend => Unsummed' = Unsummed)
<1>0. TypeOK /\ QueueInv
  BY DEF Inv
<1>1. /\ TaskThrows /\ UNCHANGED << lines, calls >> /\ chain # << >>
      /\ RefuseAppend => phase = "idle" /\ Running.part = "append"
  BY <1>0, PhaseFacts DEF RefuseAppend, Begin, AppendLineRejects, SaveRejects
<1>2. /\ Running = chain[1] /\ Running.op \in Ops /\ 1 \in DOMAIN chain
  BY <1>0, <1>1, RunningFacts
<1>3. Effected' = Effected /\ phase' = "idle"
  BY <1>1 DEF Effected, TaskThrows
<1>4. status'[Running.op] = "failed" /\ \A x \in Ops \ {Running.op} : status'[x] = status[x]
  BY <1>0, <1>1, <1>2 DEF TaskThrows, TypeOK, CallsTypeOK
<1>5. Running.op \notin Unsummed'
  BY <1>2, <1>4, UnsummedThen
<1>6. \A x \in Ops \ {Running.op} : x \in Unsummed' <=> x \in Unsummed
  BY <1>0, <1>1, <1>2, <1>3, <1>4, UnsummedMembers, UnsummedThen
<1>7. ASSUME RefuseAppend PROVE Running.op \notin Unsummed
  <2>1. Running.op \notin Effected
    BY <1>1, <1>2, <1>7 DEF EffectInv, Written
  <2> QED
    BY <1>0, <1>2, <2>1, UnsummedMembers
<1> QED
  BY <1>2, <1>5, <1>6, <1>7, UnsummedOps DEF Unsummed

(* A report is unsummed once its line is written.                          *)
LEMMA AppendSums ==
  ASSUME Inv, EffectInv, TypeOK', AppendLine
  PROVE  /\ Running.op \in Ops \ Effected /\ Running.op \notin Unsummed
         /\ Unsummed' = IF Asked.call = "recordUsage" THEN Unsummed \cup {Running.op} ELSE Unsummed
<1>0. TypeOK /\ QueueInv
  BY DEF Inv
<1>1. /\ phase = "appending" /\ phase' = "saving" /\ UNCHANGED << chain, calls, status >>
      /\ chain # << >>
  BY <1>0, PhaseFacts DEF AppendLine
<1>2. /\ Running = chain[1] /\ 1 \in DOMAIN chain /\ Running.op \in Ops
      /\ Asked = calls[Running.op] /\ Running.part = "append"
  BY <1>0, <1>1, RunningFacts DEF TypeOK, ChainTypeOK, Running
<1>3. Running.op \notin Effected /\ status[Running.op] = "pending"
  BY <1>0, <1>1, <1>2 DEF EffectInv, Written, QueueInv
<1>4. Effected' = Effected \cup {Running.op}
  BY <1>0, EffectedFacts
<1>5. Running.op \notin Unsummed
  BY <1>0, <1>2, <1>3, UnsummedMembers
<1>6. \A x \in Ops :
        x \in Unsummed' <=> x \in Unsummed \/ (x = Running.op /\ Asked.call = "recordUsage")
  BY <1>0, <1>1, <1>2, <1>3, <1>4, UnsummedMembers, UnsummedThen
<1> QED
  BY <1>2, <1>3, <1>5, <1>6 DEF Unsummed

(* ... until the task that adds it runs.                                   *)
LEMMA BeginSaveSums ==
  ASSUME Inv, EffectInv, TypeOK', BeginSave
  PROVE  /\ Running.op \in Ops
         /\ Asked.call = "recordUsage" => Running.op \in Unsummed
         /\ Unsummed' = IF Asked.call = "recordUsage" THEN Unsummed \ {Running.op} ELSE Unsummed
<1>0. TypeOK /\ QueueInv
  BY DEF Inv
<1>1. /\ phase = "idle" /\ phase' = "saving" /\ UNCHANGED << lines, chain, calls, status >>
      /\ chain # << >>
  BY DEF BeginSave, Begin
<1>2. /\ Running = chain[1] /\ 1 \in DOMAIN chain /\ Running.op \in Ops
      /\ Asked = calls[Running.op] /\ Running.part = "save"
  BY <1>0, <1>1, RunningFacts DEF BeginSave
<1>3. Asked.call = "recordUsage" => Running.op \in Effected /\ status[Running.op] = "pending"
  <2>1. Asked.call = "recordUsage" => Asked # CreateRequest
    BY DEF CreateRequest, Request
  <2> QED
    BY <1>0, <1>1, <1>2, <2>1 DEF EffectInv, Written, QueueInv
<1>4. Effected' = Effected
  BY <1>1 DEF Effected
<1>5. Asked.call = "recordUsage" => Running.op \in Unsummed
  BY <1>0, <1>1, <1>2, <1>3, UnsummedMembers
<1>6. \A x \in Ops :
        x \in Unsummed' <=> x \in Unsummed /\ ~(x = Running.op /\ Asked.call = "recordUsage")
  BY <1>0, <1>1, <1>2, <1>4, UnsummedMembers, UnsummedThen
<1> QED
  BY <1>2, <1>5, <1>6 DEF Unsummed

(* A line is added with its tokens, which nothing has added yet.           *)
LEMMA AppendAccounts ==
  ASSUME Inv, EffectInv, AccountInv, TypeOK', AppendLine
  PROVE  AccountInv'
<1> DEFINE e == [sequence |-> held.eventCount + 1, kind |-> Asked.kind,
                 op |-> Running.op, tokens |-> Asked.tokens]
<1>0. TypeOK /\ NumberInv /\ lines \in Seq(Line)
  BY DEF Inv, TypeOK, RecordsTypeOK
<1>1. /\ held \in Record /\ phase = "appending" /\ chain # << >>
      /\ UNCHANGED << disk, calls, reader, crashes, faults >>
  BY <1>0, PhaseFacts DEF AppendLine
<1>2. lines' = Append(lines, e)
  BY <1>1 DEF AppendLine, Record
<1>3. /\ Asked \in Requests \cup {NoRequest} /\ Running.op \in Ops /\ Asked = calls[Running.op]
  BY <1>0, <1>1, RunningFacts
<1>4. e \in Line /\ e.op = Running.op /\ e.tokens = Asked.tokens
  <2>1. held.eventCount + 1 \in Nat \ {0}
    BY <1>1 DEF Record
  <2> QED
    BY <1>3, <2>1, RequestFacts DEF Line
<1> HIDE DEF e
<1>5. /\ Running.op \in Ops \ Effected /\ Running.op \notin Unsummed
      /\ Unsummed' = IF Asked.call = "recordUsage" THEN Unsummed \cup {Running.op} ELSE Unsummed
  BY AppendSums
<1>6. Summable(lines')
  BY <1>0, <1>2, <1>4, SummableAppend DEF AccountInv
<1>7. /\ DOMAIN lines = 1 .. Len(lines) /\ Len(lines) \in Nat
      /\ DOMAIN lines' = 1 .. Len(lines) + 1 /\ lines'[Len(lines) + 1] = e
      /\ \A i \in 1 .. Len(lines) : lines'[i] = lines[i]
  BY <1>0, <1>2, <1>4
<1>8. \A i \in 1 .. Len(lines) : lines[i].op # Running.op
  BY <1>5, <1>7 DEF Effected
<1>9. LineInv'
  <2>1. \A i \in 1 .. Len(lines) + 1 : i \in 1 .. Len(lines) \/ i = Len(lines) + 1
    BY <1>7
  <2>2. ASSUME NEW i \in DOMAIN lines', NEW j \in DOMAIN lines', lines'[i].op = lines'[j].op
        PROVE  i = j
    BY <1>4, <1>7, <1>8, <2>1, <2>2 DEF AccountInv, LineInv
  <2>3. ASSUME NEW i \in DOMAIN lines'
        PROVE  lines'[i].tokens = calls'[lines'[i].op].tokens
    BY <1>1, <1>3, <1>4, <1>7, <2>1 DEF AccountInv, LineInv
  <2> QED
    BY <2>2, <2>3 DEF LineInv
<1>10. Total(lines', Unsummed') = Total(lines, Unsummed)
  <2>1. \A U \in SUBSET Ops :
          Total(lines', U) = Total(lines, U) + (IF Running.op \in U THEN 0 ELSE Asked.tokens)
    BY <1>0, <1>2, <1>4, SummableAppend DEF AccountInv
  <2>2. \A U \in SUBSET Ops : Total(lines, U) \in Nat
    BY <1>0, TotalFacts DEF AccountInv
  <2>3. CASE Asked.call = "recordUsage"
    <3>1. Unsummed' = Unsummed \cup {Running.op}
      BY <1>5, <2>3
    <3>2. Total(lines, Unsummed') = Total(lines, Unsummed)
      BY <1>0, <1>7, <1>8, <3>1, SameTotal
    <3>3. Unsummed' \in SUBSET Ops /\ Running.op \in Unsummed'
      BY <1>5, <3>1, UnsummedOps
    <3>4. Total(lines', Unsummed') = Total(lines, Unsummed') + 0
      BY <2>1, <3>3
    <3> QED
      BY <2>2, <3>2, <3>3, <3>4
  <2>4. CASE Asked.call # "recordUsage"
    <3>1. Unsummed' = Unsummed
      BY <1>5, <2>4
    <3>2. Asked.tokens = 0
      BY <1>3, <2>4, OnlyReportsCount
    <3>3. Total(lines', Unsummed) = Total(lines, Unsummed) + 0
      BY <1>5, <2>1, <3>2, UnsummedOps
    <3> QED
      BY <2>2, <3>1, <3>3, UnsummedOps
  <2> QED
    BY <2>3, <2>4
<1>11. UsageInv'
  <2>1. PICK counted : counted = [held EXCEPT !.eventCount = @ + 1]
    OBVIOUS
  <2>2. counted \in Record /\ counted.usage = held.usage
    BY <1>1, <2>1 DEF Record
  <2>3. TotalOf(counted) = TotalOf(held)
    BY <1>1, <2>2, LedgerAssumption DEF TotalOf
  <2>4. cache' = counted /\ held' = counted
    BY <2>1 DEF AppendLine
  <2>5. \A record \in Copies' : record = counted \/ record \in Copies
    BY <1>1, <2>4 DEF Copies
  <2>6. held \in Copies
    BY DEF Copies
  <2>7. \A record \in Copies' : TotalOf(record) <= Total(lines', Unsummed')
    BY <1>10, <2>3, <2>5, <2>6 DEF AccountInv, UsageInv
  <2>8. crashes = 0 => held = cache
    BY <1>0, <1>1 DEF NumberInv
  <2>9. crashes' = 0 /\ faults' = 0 => TotalOf(cache') = Total(lines', Unsummed')
    BY <1>1, <1>10, <2>3, <2>4, <2>8 DEF AccountInv, UsageInv
  <2> QED
    BY <2>7, <2>9 DEF UsageInv, TotalOf
<1> QED
  BY <1>6, <1>9, <1>11 DEF AccountInv

(* The task that adds a report finds the total of the others.              *)
LEMMA BeginSaveAccounts ==
  ASSUME Inv, EffectInv, AccountInv, TypeOK', BeginSave
  PROVE  AccountInv'
<1> DEFINE updated == Updated(Current, Asked)
<1>0. TypeOK /\ NumberInv /\ CreationInv /\ lines \in Seq(Line)
  BY DEF Inv, TypeOK, RecordsTypeOK
<1>1. /\ cache' = updated /\ held' = updated /\ chain # << >> /\ Running.part = "save"
      /\ UNCHANGED << disk, lines, calls, reader, crashes, faults >>
      /\ Asked # CreateRequest => Current # None
  BY DEF BeginSave, Begin
<1>2. /\ Running = chain[1] /\ 1 \in DOMAIN chain /\ Running.op \in Ops
      /\ Asked = calls[Running.op] /\ Asked \in Requests \cup {NoRequest}
  BY <1>0, <1>1, RunningFacts
<1>3. /\ Asked.call = "recordUsage" => Running.op \in Unsummed
      /\ Unsummed' = IF Asked.call = "recordUsage" THEN Unsummed \ {Running.op} ELSE Unsummed
  BY BeginSaveSums
<1>4. \A U \in SUBSET Ops : Total(lines, U) \in Nat
  BY <1>0, TotalFacts DEF AccountInv
<1>5. Unsummed \in SUBSET Ops /\ Unsummed' \in SUBSET Ops
  BY <1>3, UnsummedOps
<1>6. Current \in Copies /\ (crashes = 0 => Current = cache \/ Current = None)
  <2>1. Current \in Copies
    BY CurrentFacts, <1>0 DEF Copies
  <2>2. crashes = 0 /\ cache = None => disk = None
    BY <1>0 DEF NumberInv
  <2> QED
    BY <2>1, <2>2 DEF Current
<1>7. TotalOf(Current) <= Total(lines, Unsummed) /\ TotalOf(Current) \in Nat
  BY <1>0, <1>6, CopyTotals DEF AccountInv, UsageInv
<1>8. Current # None => Current \in Record
  BY <1>0, CurrentFacts
<1>9. Total(lines, Unsummed') =
        Total(lines, Unsummed) + (IF Asked.call = "recordUsage" THEN Asked.tokens ELSE 0)
  <2>1. CASE Asked.call # "recordUsage"
    BY <1>3, <1>4, <1>5, <2>1
  <2>2. CASE Asked.call = "recordUsage"
    <3>1. Running.op \in Effected
      BY <1>0, <1>2, <1>3, <2>2, UnsummedMembers
    <3>2. PICK p \in 1 .. Len(lines) : lines[p].op = Running.op
      BY <1>0, <3>1 DEF Effected
    <3>3. /\ \A m \in 1 .. Len(lines) : lines[m].op = lines[p].op => m = p
          /\ lines[p].tokens = Asked.tokens
      BY <1>0, <1>2, <3>2 DEF AccountInv, LineInv
    <3>4. lines[p].op \in Ops \ Unsummed' /\ Unsummed' \cup {lines[p].op} = Unsummed
      BY <1>2, <1>3, <2>2, <3>2
    <3>5. Total(lines, Unsummed') = Total(lines, Unsummed' \cup {lines[p].op}) + lines[p].tokens
      BY <1>0, <1>5, <3>3, <3>4, LeftOut DEF AccountInv
    <3> QED
      BY <2>2, <3>3, <3>4, <3>5
  <2> QED
    BY <2>1, <2>2
<1>10. Asked.tokens \in Nat
  BY <1>2, RequestFacts
<1>11. CASE Asked = CreateRequest
  <2>1. disk = None /\ lines = << >>
    BY <1>0, <1>1, <1>2, <1>11 DEF CreationInv
  <2>2. updated = NewRecord /\ Asked.call # "recordUsage"
    BY <1>11 DEF Updated, CreateRequest, Request
  <2>3. TotalOf(updated) = 0
    BY <2>2, LedgerAssumption DEF TotalOf, NewRecord
  <2>4. Total(lines, Unsummed) = 0
    <3>1. PICK f : Sums(f, lines, Unsummed)
      BY <1>5 DEF AccountInv, Summable
    <3>2. f[0] = 0 /\ Len(lines) = 0
      BY <2>1, <3>1 DEF Sums
    <3> QED
      BY <1>0, <1>5, <3>1, <3>2, TotalFacts DEF AccountInv
  <2> HIDE DEF updated
  <2> QED
    <3>1. Total(lines', Unsummed') = Total(lines, Unsummed)
      BY <1>1, <1>3, <2>2
    <3>2. \A record \in Copies' : record = updated \/ record \in Copies
      BY <1>1 DEF Copies
    <3>3. \A record \in Copies' : TotalOf(record) <= Total(lines', Unsummed')
      BY <2>3, <2>4, <3>1, <3>2 DEF AccountInv, UsageInv
    <3>4. crashes' = 0 /\ faults' = 0 => TotalOf(cache') = Total(lines', Unsummed')
      BY <1>1, <2>3, <2>4, <3>1
    <3>5. UsageInv'
      BY <3>3, <3>4 DEF UsageInv, TotalOf
    <3> QED
      BY <1>1, <3>5 DEF AccountInv, LineInv
<1>12. CASE Asked # CreateRequest
  <2>1. Current \in Record
    BY <1>1, <1>8, <1>12
  <2>2. Asked.call # "createSession"
    BY <1>2, <1>12, RequestFacts
  <2>3. TotalOf(updated) =
          TotalOf(Current) + (IF Asked.call = "recordUsage" THEN Asked.tokens ELSE 0)
    <3>1. CASE Asked.call = "recordUsage"
      <4> DEFINE total == (IF Current.usage = None THEN 0 ELSE Current.usage) + Asked.tokens
      <4>1. updated = [Current EXCEPT !.usage = total]
        BY <3>1 DEF Updated
      <4>2. total \in Nat
        BY <1>10, <2>1, LedgerAssumption DEF Record
      <4>3. total = TotalOf(Current) + Asked.tokens
        BY <2>1, LedgerAssumption DEF TotalOf
      <4> HIDE DEF total, updated
      <4>4. updated \in Record /\ updated.usage = total
        BY <2>1, <4>1, <4>2 DEF Record
      <4>5. TotalOf(updated) = total
        BY <4>2, <4>4, LedgerAssumption DEF TotalOf
      <4> QED
        BY <3>1, <4>3, <4>5
    <3>2. CASE Asked.call = "complete"
      <4>1. updated = [Current EXCEPT !.state = Asked.state] /\ Asked.state \in States
        BY <1>2, <3>2, RequestFacts DEF Updated
      <4> HIDE DEF updated
      <4>2. updated \in Record /\ updated.usage = Current.usage
        BY <2>1, <4>1 DEF Record
      <4>3. TotalOf(updated) = TotalOf(Current)
        BY <2>1, <4>2, LedgerAssumption DEF TotalOf
      <4> QED
        BY <1>7, <3>2, <4>3
    <3>3. CASE Asked.call \notin {"recordUsage", "complete"}
      <4>1. updated = Current
        BY <2>2, <3>3 DEF Updated
      <4> QED
        BY <1>7, <3>3, <4>1
    <3> QED
      BY <3>1, <3>2, <3>3
  <2> HIDE DEF updated
  <2>4. \A record \in Copies' : record = updated \/ record \in Copies
    BY <1>1 DEF Copies
  <2>5. TotalOf(updated) <= Total(lines, Unsummed')
    BY <1>4, <1>5, <1>7, <1>9, <1>10, <2>3
  <2>6. \A record \in Copies : TotalOf(record) <= Total(lines, Unsummed')
    <3> SUFFICES ASSUME NEW record \in Copies
                 PROVE  TotalOf(record) <= Total(lines, Unsummed')
      OBVIOUS
    <3>1. TotalOf(record) <= Total(lines, Unsummed) /\ TotalOf(record) \in Nat
      BY <1>0, CopyTotals DEF AccountInv, UsageInv
    <3> QED
      BY <1>4, <1>5, <1>9, <1>10, <3>1
  <2>7. \A record \in Copies' : TotalOf(record) <= Total(lines, Unsummed')
    BY <2>4, <2>5, <2>6
  <2>8. crashes' = 0 /\ faults' = 0 => TotalOf(cache') = Total(lines, Unsummed')
    <3> SUFFICES ASSUME crashes = 0, faults = 0
                 PROVE  TotalOf(updated) = Total(lines, Unsummed')
      BY <1>1
    <3>1. TotalOf(Current) = Total(lines, Unsummed)
      BY <1>1, <1>6, <1>12 DEF AccountInv, UsageInv
    <3> QED
      BY <1>9, <2>3, <3>1
  <2>9. UsageInv'
    BY <1>1, <2>7, <2>8 DEF UsageInv, TotalOf
  <2> QED
    BY <1>1, <2>9 DEF AccountInv, LineInv
<1> QED
  BY <1>11, <1>12

LEMMA InitAccount == Init => AccountInv
<1> SUFFICES ASSUME Init
             PROVE  AccountInv
  OBVIOUS
<1>1. /\ disk = None /\ lines = << >> /\ cache = None /\ held = None
      /\ \A r \in Readers : reader[r].record = None
  BY DEF Init, IdleReader
<1>2. ASSUME NEW U \in SUBSET Ops
      PROVE  /\ \E f : Sums(f, << >>, U)
             /\ \A f : Sums(f, << >>, U) => f[0] = 0 /\ f \in [0 .. 0 -> Nat]
  <2>1. \A m \in 0 .. 0 : m = 0
    OBVIOUS
  <2>2. PICK g : g = [m \in 0 .. 0 |-> 0]
    OBVIOUS
  <2>3. Sums(g, << >>, U)
    BY <2>1, <2>2 DEF Sums
  <2>4. ASSUME NEW f, Sums(f, << >>, U) PROVE f[0] = 0 /\ f \in [0 .. 0 -> Nat]
    <3>1. f = [m \in 0 .. 0 |-> IF m = 0 THEN 0 ELSE f[m - 1] + Weight(<< >>, U, m)]
      BY <2>4 DEF Sums
    <3>2. f = [m \in 0 .. 0 |-> 0]
      BY <2>1, <3>1
    <3> QED
      BY <3>2
  <2> QED
    BY <2>3, <2>4
<1>3. Summable(lines)
  <2>1. \A U \in SUBSET Ops : \A V \in SUBSET U : V \in SUBSET Ops
    OBVIOUS
  <2> QED
    BY <1>1, <1>2, <2>1 DEF Summable
<1>4. LineInv
  BY <1>1 DEF LineInv
<1>5. UsageInv
  <2>1. \A record \in Copies : TotalOf(record) = 0
    BY <1>1 DEF Copies, TotalOf
  <2>2. PICK f : Sums(f, lines, Unsummed)
    BY <1>1, <1>2, UnsummedOps
  <2>3. Total(lines, Unsummed) = 0
    <3>1. f[0] = 0 /\ Len(lines) = 0 /\ lines \in Seq(Line)
      BY <1>1, <1>2, <2>2, UnsummedOps
    <3> QED
      BY <1>3, <2>2, <3>1, UnsummedOps, TotalFacts
  <2>4. cache \in Copies
    BY DEF Copies
  <2> QED
    BY <2>1, <2>3, <2>4 DEF UsageInv
<1> QED
  BY <1>3, <1>4, <1>5 DEF AccountInv

LEMMA AccountStep == Inv /\ Inv' /\ EffectInv /\ AccountInv /\ [Next]_vars => AccountInv'
<1> SUFFICES ASSUME Inv, Inv', EffectInv, AccountInv, [Next]_vars
             PROVE  AccountInv'
  OBVIOUS
<1>0. TypeOK /\ TypeOK' /\ NumberInv
  BY DEF Inv
<1>1. TotalOf(None) = 0
  BY DEF TotalOf
<1>2. CASE AppendLine
  BY <1>0, <1>2, AppendAccounts
<1>3. CASE BeginSave
  BY <1>0, <1>3, BeginSaveAccounts
<1>4. ASSUME NEW o \in Ops, NEW r \in Requests, Call(o, r) PROVE AccountInv'
  <2>1. /\ UNCHANGED << disk, lines, cache, held, reader, crashes, faults >>
        /\ status[o] = "new" /\ calls' = [calls EXCEPT ![o] = r]
    BY <1>4 DEF Call
  <2>2. \A i \in DOMAIN lines : lines[i].op # o
    BY <2>1 DEF EffectInv, Effected
  <2>3. LineInv'
    BY <1>0, <2>1, <2>2 DEF AccountInv, LineInv, TypeOK, CallsTypeOK
  <2>4. Unsummed' = Unsummed
    BY <1>0, <1>4, CallSums
  <2>5. UsageInv'
    BY <1>0, <2>1, <2>4, UsageKeeps DEF AccountInv, Copies
  <2> QED
    BY <2>1, <2>3, <2>5 DEF AccountInv
<1>5. ASSUME UNCHANGED << lines, calls >>, Unsummed' \subseteq Unsummed,
             \A record \in Copies' : record = None \/ record \in Copies,
             crashes' = 0 /\ faults' = 0 =>
               crashes = 0 /\ faults = 0 /\ Unsummed' = Unsummed /\ cache' = cache
      PROVE  AccountInv'
  <2>1. LineInv'
    BY <1>5 DEF AccountInv, LineInv
  <2>2. UsageInv'
    BY <1>0, <1>5, UsageKeeps DEF AccountInv
  <2> QED
    BY <1>5, <2>1, <2>2 DEF AccountInv
<1>6. Current \in Copies /\ (crashes = 0 /\ Current # None => Current = cache)
  <2>1. Current \in Copies
    BY <1>0, CurrentFacts DEF Copies
  <2>2. crashes = 0 /\ cache = None => disk = None
    BY <1>0 DEF NumberInv
  <2> QED
    BY <2>1, <2>2 DEF Current
<1>7. CASE BeginAppend
  <2>1. /\ UNCHANGED << disk, lines, calls, reader, crashes, faults >>
        /\ cache' = Current /\ held' = Current /\ Current # None
    BY <1>7 DEF BeginAppend
  <2>2. Unsummed' = Unsummed
    BY <1>0, <1>7, <2>1, QuietSums
  <2>3. \A record \in Copies' : record \in Copies
    BY <1>6, <2>1 DEF Copies
  <2> QED
    BY <1>5, <1>6, <2>1, <2>2, <2>3
<1>8. CASE RefuseAppend
  <2>1. /\ UNCHANGED << disk, lines, calls, reader, crashes, faults >>
        /\ cache' = Current /\ held' = None /\ Current # None
    BY <1>8 DEF RefuseAppend, TaskThrows
  <2>2. Unsummed' = Unsummed
    BY <1>0, <1>8, ThrowSums
  <2>3. \A record \in Copies' : record = None \/ record \in Copies
    BY <1>6, <2>1 DEF Copies
  <2> QED
    BY <1>5, <1>6, <2>1, <2>2, <2>3
<1>9. CASE Save
  <2>1. /\ UNCHANGED << lines, calls, cache, reader, crashes, faults >>
        /\ disk' = held /\ held' = None
    BY <1>9 DEF Save, TaskDone
  <2>2. Unsummed' = Unsummed
    BY <1>0, <1>9, SaveSums
  <2>3. \A record \in Copies' : record = None \/ record \in Copies
    BY <2>1 DEF Copies
  <2> QED
    BY <1>5, <2>1, <2>2, <2>3
<1>10. CASE AppendLineRejects \/ SaveRejects
  <2>1. /\ UNCHANGED << disk, lines, calls, cache, reader >>
        /\ held' = None /\ faults' = faults + 1
    BY <1>10 DEF AppendLineRejects, SaveRejects, TaskThrows
  <2>2. Unsummed' \subseteq Unsummed
    BY <1>0, <1>10, ThrowSums
  <2>3. \A record \in Copies' : record = None \/ record \in Copies
    BY <2>1 DEF Copies
  <2>4. faults' # 0
    BY <1>0, <2>1 DEF TypeOK, BoundsTypeOK
  <2> QED
    BY <1>5, <2>1, <2>2, <2>3, <2>4
<1>11. CASE Crash
  <2>1. /\ UNCHANGED << disk, lines, calls >> /\ crashes' = crashes + 1
        /\ cache' = None /\ held' = None
        /\ reader' = [r \in Readers |-> IdleReader]
        /\ status' = [o \in Ops |-> IF status[o] = "pending" THEN "lost" ELSE status[o]]
    BY <1>11 DEF Crash
  <2>2. Unsummed' \subseteq Unsummed
    BY <2>1 DEF Unsummed
  <2>3. \A record \in Copies' : record = None \/ record \in Copies
    BY <2>1 DEF Copies, IdleReader
  <2>4. crashes' # 0
    BY <1>0, <2>1 DEF TypeOK, BoundsTypeOK
  <2> QED
    BY <1>5, <2>1, <2>2, <2>3, <2>4
<1>12. ASSUME NEW r \in Readers, ReadCached(r) \/ ReadStored(r) \/ CacheStored(r) \/ ListEvents(r)
       PROVE  AccountInv'
  <2>1. UNCHANGED << disk, lines, chain, phase, held, calls, status, crashes, faults >>
    BY <1>12 DEF ReadCached, ReadStored, CacheStored, ListEvents
  <2>2. Unsummed' = Unsummed
    BY <1>0, <2>1, QuietSums
  <2>3. cache' = cache \/ (cache' = reader[r].record /\ reader[r].at = "loading")
    BY <1>12 DEF ReadCached, ReadStored, CacheStored, ListEvents
  <2>4. \A x \in Readers : reader'[x].record \in Copies
    <3>1. CASE ReadCached(r)
      BY <1>0, <3>1 DEF ReadCached, Copies, TypeOK, ReadersTypeOK
    <3>2. CASE ReadStored(r)
      BY <1>0, <3>2 DEF ReadStored, Copies, TypeOK, ReadersTypeOK
    <3>3. CASE CacheStored(r) \/ ListEvents(r)
      <4>1. \A x \in Readers : reader'[x].record = reader[x].record
        BY <1>0, <3>3 DEF CacheStored, ListEvents, TypeOK, ReadersTypeOK
      <4> QED
        BY <4>1 DEF Copies
    <3> QED
      BY <1>12, <3>1, <3>2, <3>3
  <2>5. \A record \in Copies' : record \in Copies
    BY <2>1, <2>3, <2>4 DEF Copies
  <2>6. crashes = 0 => cache' = cache
    BY <1>0, <2>3 DEF NumberInv
  <2> QED
    BY <1>5, <2>1, <2>2, <2>5, <2>6
<1>13. CASE UNCHANGED vars
  <2>1. UNCHANGED << disk, lines, cache, chain, phase, held, calls, status, reader, crashes, faults >>
    BY <1>13 DEF vars
  <2>2. Unsummed' = Unsummed
    BY <1>0, <2>1, QuietSums
  <2> QED
    BY <1>5, <2>1, <2>2 DEF Copies
<1> QED
  BY <1>2, <1>3, <1>4, <1>7, <1>8, <1>9, <1>10, <1>11, <1>12, <1>13 DEF Next, Work

(* The stored usage total has no report twice and none that is not in the  *)
(* log, whatever crashes and rejections, and without them the cached one   *)
(* has every report but those whose second task is still to run: it is     *)
(* read again inside that task (recordUsage).                              *)
THEOREM UsageAccountedHolds == Spec => []UsageAccounted
<1>1. Spec => []EffectInv
  BY Invariance, InitEffect, EffectStep, PTL DEF Spec
<1>2. Spec => []AccountInv
  BY <1>1, Invariance, InitAccount, AccountStep, PTL DEF Spec
<1>3. Inv /\ AccountInv => UsageAccounted
  <2> SUFFICES ASSUME Inv, AccountInv
               PROVE  UsageAccounted
    OBVIOUS
  <2>1. TypeOK /\ lines \in Seq(Line)
    BY DEF Inv, TypeOK, RecordsTypeOK
  <2>2. \A U : ReportedWithout(U) = Total(lines, U)
    BY DEF ReportedWithout, Total, Sums, Weight
  <2>3. TotalOf(disk) <= Total(lines, Unsummed) /\ TotalOf(disk) \in Nat
    <3>1. disk \in Copies
      BY DEF Copies
    <3> QED
      BY <2>1, <3>1, CopyTotals DEF AccountInv, UsageInv
  <2>4. Total(lines, Unsummed) <= Total(lines, {}) /\ Total(lines, Unsummed) \in Nat
        /\ Total(lines, {}) \in Nat
    <3>1. {} \in SUBSET Ops /\ {} \in SUBSET Unsummed
      OBVIOUS
    <3> QED
      BY <2>1, <3>1, UnsummedOps, TotalFacts DEF AccountInv
  <2>5. TotalOf(disk) <= ReportedWithout({})
    BY <2>2, <2>3, <2>4
  <2> QED
    BY <2>2, <2>5 DEF UsageAccounted, AccountInv, UsageInv
<1> QED
  BY <1>2, <1>3, Invariance, PTL
=============================================================================
