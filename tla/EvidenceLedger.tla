--------------------------- MODULE EvidenceLedger ---------------------------
(***************************************************************************)
(* The evidence of one session:                                            *)
(* apps/local-supervisor/src/ledger.ts, FileEvidenceLedger.                *)
(*                                                                         *)
(* The ledger keeps an append-only file of event lines and a summary       *)
(* record, cached in memory and rewritten by temporary file and rename.    *)
(* Every write is a task of one promise chain (writeTail); most operations *)
(* are two tasks, and other callers' tasks may be queued between them.     *)
(* A caller whose first task is done queues its second one before any      *)
(* other input is processed, so both happen in one action.                 *)
(*                                                                         *)
(* The chain is shared by all sessions; tasks of other sessions only delay *)
(* this one's, and one session is modelled.  Payloads, redaction, event    *)
(* identifiers and the schema check of an event are abstracted, an         *)
(* appended line is written whole or not at all, and a usage report is its *)
(* total.  `disk' and `lines' are the files and survive a crash of the     *)
(* supervisor; everything else is its memory.                              *)
(***************************************************************************)
EXTENDS Integers, Sequences

CONSTANTS
  None,
  Ops,            (* identities of the calls made on the ledger             *)
  Readers,        (* identities of getEvents callers                        *)
  AppendKinds,    (* kinds that callers append directly                     *)
  TokenCounts,    (* totals that usage reports carry                        *)
  Endings,        (* bound: the states that complete() is called with       *)
  CleanRestarts,  (* bound: the supervisor stops only when nothing is queued *)
  MaxCrashes, MaxFaults        (* bounds: restarts, rejected file writes    *)

Terminal == {"completed", "failed", "interrupted"}
States == {"running"} \cup Terminal

TerminalKind ==
  [completed |-> "session.completed", failed |-> "session.failed",
   interrupted |-> "session.interrupted"]

Kinds == AppendKinds \cup {"session.started", "usage.reported", "usage.unavailable"}
           \cup {TerminalKind[s] : s \in Terminal}

Request(call, kind, state, tokens) ==
  [call |-> call, kind |-> kind, state |-> state, tokens |-> tokens]

CreateRequest == Request("createSession", "session.started", "running", 0)

CallRequests ==
  {Request("append", k, "running", 0) : k \in AppendKinds}
    \cup {Request("complete", TerminalKind[s], s, 0) : s \in Endings}
    \cup {Request("recordUsage", "usage.reported", "running", n) : n \in TokenCounts}
    \cup {Request("recordUsageUnknown", "usage.unavailable", "running", 0)}

Requests == {CreateRequest} \cup CallRequests

NoRequest == Request("none", "session.started", "running", 0)

(* The summary; `usage' is None while the token usage is unknown.          *)
Record == [state : States, eventCount : Nat, usage : Nat \cup {None}]
NewRecord == [state |-> "running", eventCount |-> 0, usage |-> None]
MaybeRecord == Record \cup {None}

Line == [sequence : Nat \ {0}, kind : Kinds, op : Ops, tokens : Nat]

Task == [op : Ops, part : {"append", "save"}]

ASSUME LedgerAssumption ==
  /\ None \notin Nat /\ None \notin Record
  /\ TokenCounts \subseteq Nat /\ Endings \subseteq Terminal
  /\ AppendKinds \cap {TerminalKind[s] : s \in Terminal} = {}
  /\ CleanRestarts \in BOOLEAN /\ MaxCrashes \in Nat /\ MaxFaults \in Nat

VARIABLES
  disk,     (* the stored record, or None before it exists                  *)
  lines,    (* the lines of the event file                                  *)
  cache,    (* the sessions map's entry, or None                            *)
  chain,    (* writeTail: queued tasks, the head is the running one         *)
  phase,    (* progress of the running task                                 *)
  held,     (* the record the running task works on                         *)
  calls,    (* what each call asks for                                      *)
  status,   (* how far its caller's promise is                              *)
  reader,   (* each getEvents call: where it is, its record, lines returned *)
  crashes, faults

vars == << disk, lines, cache, chain, phase, held, calls, status, reader, crashes, faults >>

IdleReader == [at |-> "idle", record |-> None, count |-> 0]

RecordsTypeOK ==
  /\ disk \in MaybeRecord /\ cache \in MaybeRecord /\ held \in MaybeRecord
  /\ lines \in Seq(Line)

ChainTypeOK ==
  /\ chain \in Seq(Task)
  /\ phase \in {"idle", "appending", "saving"}
  /\ phase # "idle" => chain # << >> /\ held # None
  /\ phase = "appending" => Head(chain).part = "append"

CallsTypeOK ==
  /\ calls \in [Ops -> Requests \cup {NoRequest}]
  /\ status \in [Ops -> {"new", "pending", "ok", "failed", "lost"}]

ReadersTypeOK ==
  reader \in [Readers -> [at : {"idle", "loading", "listing", "answered"},
                          record : MaybeRecord, count : Nat]]

BoundsTypeOK == crashes \in 0 .. MaxCrashes /\ faults \in 0 .. MaxFaults

TypeOK == RecordsTypeOK /\ ChainTypeOK /\ CallsTypeOK /\ ReadersTypeOK /\ BoundsTypeOK

Init ==
  /\ disk = None /\ lines = << >> /\ cache = None
  /\ chain = << >> /\ phase = "idle" /\ held = None
  /\ calls = [o \in Ops |-> NoRequest]
  /\ status = [o \in Ops |-> "new"]
  /\ reader = [r \in Readers |-> IdleReader]
  /\ crashes = 0 /\ faults = 0

-----------------------------------------------------------------------------
(* Callers.  An identifier is unknown outside until its record is stored.  *)

(* Mutant: a session is marked terminal before its last event is written.  *)
PartsSavingFirst(call) ==
  CASE call = "append" -> << "append" >>
    [] call \in {"createSession", "complete"} -> << "save", "append" >>
    [] OTHER -> << "append", "save" >>

(* The tasks of each operation, in order.                                  *)
Parts(call) ==
  CASE call = "append" -> << "append" >>
    [] call = "createSession" -> << "save", "append" >>
    [] OTHER -> << "append", "save" >>

Call(o, r) ==
  /\ status[o] = "new"
  /\ IF r = CreateRequest THEN \A x \in Ops : calls[x] # CreateRequest ELSE disk # None
  /\ calls' = [calls EXCEPT ![o] = r]
  /\ status' = [status EXCEPT ![o] = "pending"]
  /\ chain' = Append(chain, [op |-> o, part |-> Parts(r.call)[1]])
  /\ UNCHANGED << disk, lines, cache, phase, held, reader, crashes, faults >>

-----------------------------------------------------------------------------
(* The running task.                                                       *)

Running == Head(chain)
Asked == calls[Running.op]

(* enqueue()'s promise settles: a caller with a task left queues it, one   *)
(* without is answered, and one whose task threw gets the error.           *)
TaskDone ==
  LET parts == Parts(Asked.call) IN
  /\ phase' = "idle" /\ held' = None
  /\ IF Running.part = parts[1] /\ Len(parts) = 2
       THEN /\ chain' = Append(Tail(chain), [op |-> Running.op, part |-> parts[2]])
            /\ UNCHANGED status
       ELSE /\ chain' = Tail(chain)
            /\ status' = [status EXCEPT ![Running.op] = "ok"]

(* Mutant: the caller of a task that threw never hears of it.              *)
TaskThrowsUnheard ==
  /\ phase' = "idle" /\ held' = None
  /\ chain' = Tail(chain)
  /\ UNCHANGED status

TaskThrows ==
  /\ phase' = "idle" /\ held' = None
  /\ chain' = Tail(chain)
  /\ status' = [status EXCEPT ![Running.op] = "failed"]

(* requireSession(): the cached record, else the stored one, then cached.  *)
Current == IF cache # None THEN cache ELSE disk

Begin == chain # << >> /\ phase = "idle"

(* Mutant: the terminal check is left to the caller.                       *)
BeginAppendUnchecked ==
  /\ Begin
  /\ Running.part = "append"
  /\ Current # None
  /\ cache' = Current
  /\ held' = Current
  /\ phase' = "appending"
  /\ UNCHANGED << disk, lines, chain, calls, status, reader, crashes, faults >>

(* append()'s task: a terminal session takes policy decisions only.        *)
BeginAppend ==
  /\ Begin
  /\ Running.part = "append"
  /\ Current # None
  /\ Current.state \in Terminal => Asked.kind = "policy.decision"
  /\ cache' = Current
  /\ held' = Current
  /\ phase' = "appending"
  /\ UNCHANGED << disk, lines, chain, calls, status, reader, crashes, faults >>

RefuseAppend ==
  /\ Begin
  /\ Running.part = "append"
  /\ Current # None
  /\ Current.state \in Terminal /\ Asked.kind # "policy.decision"
  /\ cache' = Current
  /\ TaskThrows
  /\ UNCHANGED << disk, lines, calls, reader, crashes, faults >>

(* appendFile() resolved: the record is advanced in memory, then stored.   *)
AppendLine ==
  LET counted == [held EXCEPT !.eventCount = @ + 1] IN
  /\ phase = "appending"
  /\ lines' = Append(lines, [sequence |-> counted.eventCount, kind |-> Asked.kind,
                             op |-> Running.op, tokens |-> Asked.tokens])
  /\ cache' = counted
  /\ held' = counted
  /\ phase' = "saving"
  /\ UNCHANGED << disk, chain, calls, status, reader, crashes, faults >>

(* Mutant: a usage report replaces the total instead of adding to it.      *)
UpdatedReplacing(record, r) ==
  CASE r.call = "createSession" -> NewRecord
    [] r.call = "complete" -> [record EXCEPT !.state = r.state]
    [] r.call = "recordUsage" -> [record EXCEPT !.usage = r.tokens]
    [] OTHER -> record

(* What the second task of complete, recordUsage and recordUsageUnknown    *)
(* (whose reason is abstracted), or the first of createSession, stores.    *)
Updated(record, r) ==
  CASE r.call = "createSession" -> NewRecord
    [] r.call = "complete" -> [record EXCEPT !.state = r.state]
    [] r.call = "recordUsage" ->
         [record EXCEPT !.usage = (IF @ = None THEN 0 ELSE @) + r.tokens]
    [] OTHER -> record

BeginSave ==
  LET updated == Updated(Current, Asked) IN
  /\ Begin
  /\ Running.part = "save"
  /\ Asked # CreateRequest => Current # None
  /\ cache' = updated
  /\ held' = updated
  /\ phase' = "saving"
  /\ UNCHANGED << disk, lines, chain, calls, status, reader, crashes, faults >>

(* writeSession() resolved: the temporary file replaced the record.        *)
Save ==
  /\ phase = "saving"
  /\ disk' = held
  /\ TaskDone
  /\ UNCHANGED << lines, cache, calls, reader, crashes, faults >>

-----------------------------------------------------------------------------
(* A file operation rejects.  The cache keeps what it was given: a record  *)
(* that could not be stored is still the one later tasks start from.       *)

AppendLineRejects ==
  /\ phase = "appending"
  /\ faults < MaxFaults
  /\ faults' = faults + 1
  /\ TaskThrows
  /\ UNCHANGED << disk, lines, cache, calls, reader, crashes >>

(* Mutant: a record that could not be stored is dropped from the cache.    *)
SaveRejectsDroppingCache ==
  /\ phase = "saving"
  /\ faults < MaxFaults
  /\ faults' = faults + 1
  /\ cache' = disk
  /\ TaskThrows
  /\ UNCHANGED << disk, lines, calls, reader, crashes >>

(* Mutant: a task whose record could not be stored runs again.             *)
SaveRejectsRetrying ==
  /\ phase = "saving"
  /\ faults < MaxFaults
  /\ faults' = faults + 1
  /\ phase' = "idle" /\ held' = None
  /\ UNCHANGED << disk, lines, cache, chain, calls, status, reader, crashes >>

SaveRejects ==
  /\ phase = "saving"
  /\ faults < MaxFaults
  /\ faults' = faults + 1
  /\ TaskThrows
  /\ UNCHANGED << disk, lines, cache, calls, reader, crashes >>

-----------------------------------------------------------------------------
(* getEvents(): the record first, the lines after it.  The reader is not   *)
(* in the chain, and a read that missed the cache fills it when it ends.   *)

ReadCached(r) ==
  /\ reader[r].at \in {"idle", "answered"}
  /\ cache # None
  /\ reader' = [reader EXCEPT ![r] = [at |-> "listing", record |-> cache, count |-> 0]]
  /\ UNCHANGED << disk, lines, cache, chain, phase, held, calls, status, crashes, faults >>

ReadStored(r) ==
  /\ reader[r].at \in {"idle", "answered"}
  /\ cache = None /\ disk # None
  /\ reader' = [reader EXCEPT ![r] = [at |-> "loading", record |-> disk, count |-> 0]]
  /\ UNCHANGED << disk, lines, cache, chain, phase, held, calls, status, crashes, faults >>

CacheStored(r) ==
  /\ reader[r].at = "loading"
  /\ cache' = reader[r].record
  /\ reader' = [reader EXCEPT ![r].at = "listing"]
  /\ UNCHANGED << disk, lines, chain, phase, held, calls, status, crashes, faults >>

(* Mutant: the record's count bounds the lines that are returned.          *)
ListEventsCounted(r) ==
  /\ reader[r].at = "listing"
  /\ reader' = [reader EXCEPT ![r].at = "answered", ![r].count = reader[r].record.eventCount]
  /\ UNCHANGED << disk, lines, cache, chain, phase, held, calls, status, crashes, faults >>

ListEvents(r) ==
  /\ reader[r].at = "listing"
  /\ reader' = [reader EXCEPT ![r].at = "answered", ![r].count = Len(lines)]
  /\ UNCHANGED << disk, lines, cache, chain, phase, held, calls, status, crashes, faults >>

-----------------------------------------------------------------------------
(* The supervisor dies and another is opened on the same directory.        *)
Crash ==
  /\ crashes < MaxCrashes
  /\ CleanRestarts => chain = << >>
  /\ crashes' = crashes + 1
  /\ cache' = None /\ chain' = << >> /\ phase' = "idle" /\ held' = None
  /\ status' = [o \in Ops |-> IF status[o] = "pending" THEN "lost" ELSE status[o]]
  /\ reader' = [r \in Readers |-> IdleReader]
  /\ UNCHANGED << disk, lines, calls, faults >>

Work ==
  \/ BeginAppend \/ RefuseAppend \/ AppendLine \/ BeginSave \/ Save
  \/ AppendLineRejects \/ SaveRejects

Next ==
  \/ \E o \in Ops, r \in Requests : Call(o, r)
  \/ Work
  \/ \E r \in Readers : ReadCached(r) \/ ReadStored(r) \/ CacheStored(r) \/ ListEvents(r)
  \/ Crash

Spec == Init /\ [][Next]_vars

(* Promise reactions run and the file system settles every call.           *)
FairSpec == Spec /\ WF_vars(Work)
-----------------------------------------------------------------------------
LinesOf(o) == {i \in DOMAIN lines : lines[i].op = o}
TotalOf(record) == IF record = None \/ record.usage = None THEN 0 ELSE record.usage

(* The total of the reports in the log but those of some calls.            *)
ReportedWithout(left) ==
  LET total[n \in 0 .. Len(lines)] ==
        IF n = 0 THEN 0
        ELSE total[n - 1] + (IF lines[n].op \in left THEN 0 ELSE lines[n].tokens)
  IN  total[Len(lines)]

(* Reports whose line is written and whose addition is still to come.      *)
Unsummed ==
  {o \in Ops : /\ calls[o].call = "recordUsage" /\ status[o] = "pending" /\ LinesOf(o) # {}
               /\ ~(phase = "saving" /\ Running = [op |-> o, part |-> "save"])}

(* While one supervisor owns the store, line n of the log carries sequence *)
(* n, whatever tasks interleave and whichever writes are rejected (append  *)
(* takes the next number from the cached record).                          *)
SequenceIsPosition == crashes = 0 => \A i \in DOMAIN lines : lines[i].sequence = i

(* The stored and cached records never count an event that is not in the   *)
(* log, across crashes and rejected writes (append, writeSession).         *)
RecordNeverAhead ==
  \A record \in {disk, cache} : record # None => record.eventCount <= Len(lines)

(* A record that says the session ended has that ending in its log, across *)
(* crashes: complete writes the event first and the record second.         *)
Ended(s) == \E i \in DOMAIN lines : lines[i].kind = TerminalKind[s]

TerminalBacked ==
  \A record \in {disk, cache} :
    record # None /\ record.state \in Terminal => Ended(record.state)

(* After a crash anywhere a restarted supervisor may believe too little of *)
(* the log, but never an event or an ending that the log does not have.    *)
RecordBacked == RecordNeverAhead /\ TerminalBacked

(* Whatever interleaves, rejects and restarts, the files and the promises   *)
(* of the callers implement a log on which each call takes effect once     *)
(* (append, enqueue).                                                      *)
Abstract == INSTANCE SessionLog WITH log <- [i \in DOMAIN lines |-> lines[i].op],
                                     answer <- status

ImplementsSessionLog == Abstract!Spec

(* The usage total never exceeds what the log reports, and with no crash   *)
(* and no rejected write it misses only reports still being added          *)
(* (recordUsage reads the total again in its second task).                 *)
UsageAccounted ==
  /\ TotalOf(disk) <= ReportedWithout({})
  /\ crashes = 0 /\ faults = 0 => TotalOf(cache) = ReportedWithout(Unsummed)

(* While one supervisor owns the store, nothing but a policy decision is   *)
(* appended once the stored record is terminal (append's check runs inside *)
(* the chain, after every earlier task).                                   *)
TerminalFrozen ==
  [][crashes = 0 /\ disk # None /\ disk.state \in Terminal /\ lines' # lines
       => lines'[Len(lines')].kind = "policy.decision"]_vars

(* An answer that calls the session terminal, on which clients stop        *)
(* following, carries the event that ended it (getEvents reads the record  *)
(* before the lines).                                                      *)
TerminalAnswerComplete ==
  \A r \in Readers :
    reader[r].at = "answered" /\ reader[r].record.state \in Terminal =>
      \E i \in 1 .. reader[r].count : lines[i].kind = TerminalKind[reader[r].record.state]

(* Every call is answered unless a crash cuts it off: one failed task does *)
(* not hold up the chain (enqueue).                                        *)
CallsSettle == \A o \in Ops : status[o] = "pending" ~> status[o] # "pending"

(* ADR 0004: "assigns an increasing session sequence before every append". *)
IncreasingSequence ==
  \A i, j \in DOMAIN lines : i < j => lines[i].sequence < lines[j].sequence
=============================================================================
