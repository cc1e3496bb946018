---------------------------- MODULE SupervisorHost ----------------------------
(***************************************************************************)
(* Supervisor processes over one evidence directory and one port: their    *)
(* start and shutdown (apps/local-supervisor/src/server.ts, main.ts,       *)
(* launcher.ts, open and close of service.ts), the files they share (the   *)
(* lock, the token and the trust registry of state.ts), and those who      *)
(* start them: a VS Code window (supervisorRuntime.ts) and the command     *)
(* line (commands/supervisorStart.ts).                                     *)
(*                                                                         *)
(* The contract sessions and relays that close() ends are modules          *)
(* ContractSession and CodexRelay; here it succeeds or rejects.  A process *)
(* may be killed at any step.  An operator removes the lock of a killed    *)
(* process after making sure that no supervisor is alive.                  *)
(***************************************************************************)
EXTENDS Integers, FiniteSets

CONSTANTS
  None, Foreign,  (* nobody; a program that is no supervisor                *)
  Procs,          (* bound: processes that are launched                     *)
  Window, Shell,  (* commands in the window and on the command line         *)
  Requests,       (* bound: requests to trust a workspace                   *)
  Workspaces,
  MaxFaults       (* bound: processes killed and shutdowns that reject      *)

ASSUME HostAssumption ==
  /\ Window \cap Shell = {} /\ MaxFaults \in Nat
  /\ None \notin Procs \cup Workspaces /\ Foreign \notin Procs /\ None # Foreign

VARIABLES
  proc,       (* each process: where it is and the token it goes by         *)
  lock,       (* supervisor.lock: who wrote it                              *)
  stored,     (* auth-token: who generated it                               *)
  port,       (* who listens                                                *)
  registry,   (* trusted-workspaces.json                                    *)
  child,      (* the window's child                                         *)
  spawned,    (* every process the window has spawned (history)             *)
  command,    (* each command: where it is and who it will find             *)
  trust,      (* each request to trust a workspace                          *)
  faults

files == << lock, stored, registry >>
starters == << child, spawned, command >>
vars == << proc, files, port, starters, trust, faults >>

Commands == Window \cup Shell
Fresh == [at |-> "unborn", token |-> None, exit |-> "none"]
Alive == {p \in Procs : proc[p].at \notin {"unborn", "gone"}}
Opened == {"loading", "generating", "opening", "listening", "serving", "closing"}
InProgress == {"reading", "writing"}

TypeOK ==
  /\ proc \in [Procs -> [at : {"unborn", "locking", "gone"} \cup Opened,
                         token : Procs \cup {None},
                         exit : {"none", "code", "signal"}]]
  /\ lock \in Procs \cup {None} /\ stored \in Procs \cup {None}
  /\ port \in Procs \cup {None, Foreign}
  /\ registry \subseteq Workspaces
  /\ child \in Procs \cup {None} /\ spawned \subseteq Procs
  /\ command \in [Commands -> {"idle", "probing", "unreachable", "waiting", "connected"}]
  /\ trust \in [Requests -> [at : {"new", "answered", "lost"} \cup InProgress,
                             workspace : Workspaces \cup {None}, by : Procs \cup {None},
                             read : SUBSET Workspaces, overlapped : BOOLEAN]]
  /\ faults \in 0 .. MaxFaults

NewRequest == [at |-> "new", workspace |-> None, by |-> None, read |-> {}, overlapped |-> FALSE]

Init ==
  /\ proc = [p \in Procs |-> Fresh]
  /\ lock = None /\ stored = None /\ port = None /\ registry = {}
  /\ child = None /\ spawned = {}
  /\ command = [c \in Commands |-> "idle"]
  /\ trust = [r \in Requests |-> NewRequest]
  /\ faults = 0

-----------------------------------------------------------------------------
(* A process: SupervisorService.open(), then listen().                     *)
At(p, here) == proc[p].at = here
Goes(p, there) == proc' = [proc EXCEPT ![p].at = there]
Exits(p, how) == proc' = [proc EXCEPT ![p] = [at |-> "gone", token |-> None, exit |-> how]]
Releases == lock' = None

(* Mutant: a process that does not get the lock removes it as it leaves.   *)
AcquireLockCleaning(p) ==
  /\ At(p, "locking")
  /\ IF lock = None
       THEN lock' = p /\ Goes(p, "loading")
       ELSE lock' = None /\ Exits(p, "code")
  /\ UNCHANGED << stored, registry, port, starters, trust, faults >>

(* acquireExclusiveStoreLock(): the file is created, or it exists.         *)
AcquireLock(p) ==
  /\ At(p, "locking")
  /\ IF lock = None
       THEN lock' = p /\ Goes(p, "loading")
       ELSE UNCHANGED lock /\ Exits(p, "code")
  /\ UNCHANGED << stored, registry, port, starters, trust, faults >>

(* createOrLoadAuthToken(): the stored token, or a new one that a rename   *)
(* stores.                                                                 *)
LoadToken(p) ==
  /\ At(p, "loading")
  /\ proc' = [proc EXCEPT ![p] =
       IF stored = None THEN [@ EXCEPT !.at = "generating", !.token = p]
       ELSE [@ EXCEPT !.at = "opening", !.token = stored]]
  /\ UNCHANGED << files, port, starters, trust, faults >>

(* Mutant: the new token is used and never stored.                         *)
StoreTokenLate(p) ==
  /\ At(p, "generating")
  /\ UNCHANGED stored
  /\ Goes(p, "opening")
  /\ UNCHANGED << lock, registry, port, starters, trust, faults >>

StoreToken(p) ==
  /\ At(p, "generating")
  /\ stored' = p
  /\ Goes(p, "opening")
  /\ UNCHANGED << lock, registry, port, starters, trust, faults >>

(* The ledger's directory opens or fails; a failed start gives up the lock. *)
OpenLedger(p) ==
  /\ At(p, "opening")
  /\ \/ Goes(p, "listening") /\ UNCHANGED lock
     \/ Exits(p, "code") /\ Releases
  /\ UNCHANGED << stored, registry, port, starters, trust, faults >>

Listen(p) ==
  /\ At(p, "listening")
  /\ IF port = None
       THEN port' = p /\ Goes(p, "serving") /\ UNCHANGED lock
       ELSE Exits(p, "code") /\ Releases /\ UNCHANGED port
  /\ UNCHANGED << stored, registry, starters, trust, faults >>

(* SIGINT or SIGTERM: close() stops listening first, and waits for the     *)
(* requests it is serving.                                                 *)
Shutdown(p) ==
  /\ At(p, "serving")
  /\ port' = None
  /\ Goes(p, "closing")
  /\ UNCHANGED << files, starters, trust, faults >>

Serves(p, r) == trust[r].by = p /\ trust[r].at \in InProgress

Closed(p) ==
  /\ At(p, "closing")
  /\ \A r \in Requests : ~Serves(p, r)
  /\ Releases
  /\ Exits(p, "code")
  /\ UNCHANGED << stored, registry, port, starters, trust, faults >>

(* The end of a session rejects: the lock is not released.                 *)
CloseRejects(p) ==
  /\ At(p, "closing") /\ faults < MaxFaults
  /\ \A r \in Requests : ~Serves(p, r)
  /\ faults' = faults + 1
  /\ Exits(p, "code")
  /\ UNCHANGED << files, port, starters, trust >>

Kill(p) ==
  /\ p \in Alive /\ faults < MaxFaults
  /\ faults' = faults + 1
  /\ Exits(p, "signal")
  /\ port' = IF port = p THEN None ELSE port
  /\ trust' = [r \in Requests |-> IF Serves(p, r) THEN [NewRequest EXCEPT !.at = "lost"]
                              ELSE trust[r]]
  /\ UNCHANGED << files, starters >>

RemoveStaleLock ==
  /\ Alive = {} /\ lock # None
  /\ lock' = None
  /\ UNCHANGED << proc, stored, registry, port, starters, trust, faults >>

(* Another program takes the free port, or leaves it.                      *)
ForeignPort ==
  /\ \/ port = None /\ port' = Foreign
     \/ port = Foreign /\ port' = None
  /\ UNCHANGED << proc, files, starters, trust, faults >>

-----------------------------------------------------------------------------
(* The commands: ensureRunning() of the window's one SupervisorRuntime and *)
(* supervisorStartCommand().                                               *)
To(c, there) == command' = [command EXCEPT ![c] = there]

Ask(c) ==
  /\ command[c] = "idle"
  /\ To(c, "probing")
  /\ UNCHANGED << proc, files, port, child, spawned, trust, faults >>

(* A probe is answered by whoever listens; what is no supervisor is never  *)
(* started over.  The command line's start waits for it to go away.        *)
Probe(c) ==
  /\ command[c] \in {"probing", "waiting"}
  /\ CASE port = Foreign -> (command[c] = "waiting" => c \in Window) /\ To(c, "idle")
       [] port = None -> command[c] = "probing" /\ To(c, "unreachable")
       [] OTHER -> To(c, "connected")
  /\ UNCHANGED << proc, files, port, child, spawned, trust, faults >>

Launch(p) == At(p, "unborn") /\ Goes(p, "locking")
Spawn(p) == Launch(p) /\ child' = p /\ spawned' = spawned \cup {p}

(* exitCode stays null when a signal ended the child.                      *)
SpawnInWindow(c) ==
  /\ c \in Window /\ command[c] = "unreachable"
  /\ To(c, "waiting")
  /\ IF child = None \/ proc[child].exit = "code"
       THEN \E p \in Procs : Spawn(p)
       ELSE UNCHANGED << proc, child, spawned >>
  /\ UNCHANGED << files, port, trust, faults >>

SpawnInShell(c) ==
  /\ c \in Shell /\ command[c] = "unreachable"
  /\ To(c, "waiting")
  /\ \E p \in Procs : Launch(p)
  /\ UNCHANGED << files, port, child, spawned, trust, faults >>

StartTimesOut(c) ==
  /\ command[c] = "waiting"
  /\ To(c, "idle")
  /\ UNCHANGED << proc, files, port, child, spawned, trust, faults >>

(* The connection is given up; the next command probes again.              *)
Done(c) ==
  /\ command[c] = "connected"
  /\ To(c, "idle")
  /\ UNCHANGED << proc, files, port, child, spawned, trust, faults >>

-----------------------------------------------------------------------------
(* trustWorkspace(): read the registry, write it with the workspace added. *)
Others(r) == {q \in Requests \ {r} : trust[q].at \in InProgress}

ReadRegistry(r, w) ==
  /\ trust[r].at = "new" /\ port \in Procs
  /\ trust' = [q \in Requests |->
       IF q = r THEN [at |-> "reading", workspace |-> w, by |-> port, read |-> {},
                      overlapped |-> Others(r) # {}]
       ELSE IF q \in Others(r) THEN [trust[q] EXCEPT !.overlapped = TRUE] ELSE trust[q]]
  /\ UNCHANGED << proc, files, port, starters, faults >>

RegistryRead(r) ==
  /\ trust[r].at = "reading"
  /\ trust' = [trust EXCEPT ![r] = [@ EXCEPT !.at = "writing", !.read = registry]]
  /\ UNCHANGED << proc, files, port, starters, faults >>

(* Mutant: the workspaces that were read are left out.                     *)
WriteOwnEntry(r) ==
  /\ trust[r].at = "writing"
  /\ registry' = {trust[r].workspace}
  /\ trust' = [trust EXCEPT ![r] = [@ EXCEPT !.at = "answered", !.by = None, !.read = {}]]
  /\ UNCHANGED << proc, lock, stored, port, starters, faults >>

WriteRegistry(r) ==
  /\ trust[r].at = "writing"
  /\ registry' = trust[r].read \cup {trust[r].workspace}
  /\ trust' = [trust EXCEPT ![r] = [@ EXCEPT !.at = "answered", !.by = None, !.read = {}]]
  /\ UNCHANGED << proc, lock, stored, port, starters, faults >>

-----------------------------------------------------------------------------
Next ==
  \/ \E p \in Procs :
       \/ AcquireLock(p) \/ LoadToken(p) \/ StoreToken(p) \/ OpenLedger(p) \/ Listen(p)
       \/ Shutdown(p) \/ Closed(p) \/ CloseRejects(p) \/ Kill(p)
  \/ RemoveStaleLock \/ ForeignPort
  \/ \E c \in Commands :
       Ask(c) \/ Probe(c) \/ SpawnInWindow(c) \/ SpawnInShell(c) \/ StartTimesOut(c) \/ Done(c)
  \/ \E r \in Requests :
       (\E w \in Workspaces : ReadRegistry(r, w)) \/ RegistryRead(r) \/ WriteRegistry(r)

Spec == Init /\ [][Next]_vars

-----------------------------------------------------------------------------
(* Whoever has the evidence directory open holds its lock, so that no two  *)
(* supervisors ever write it; a lock is left behind only by a process that *)
(* was killed or whose close() rejected (acquireExclusiveStoreLock, open,  *)
(* close, startSupervisor's failed listen).  And a window never has two    *)
(* children alive, however its commands interleave (ensureRunning).        *)
OwnerHoldsLock ==
  /\ \A p \in Procs : proc[p].at \in Opened => lock = p
  /\ lock # None /\ lock \notin Alive => faults > 0
  /\ \A p, q \in spawned \cap Alive : p = q

(* The supervisor that serves goes by the token that its clients read from *)
(* the file, across restarts, crashes in the middle of storing it and      *)
(* concurrent starts (createOrLoadAuthToken under the lock).               *)
ServesStoredToken ==
  \A p \in Procs : proc[p].at \in {"listening", "serving"} => proc[p].token = stored

(* A trust that was answered lasts, across crashes and restarts, unless    *)
(* another request to trust overlapped it (trustWorkspace).                *)
AnsweredTrustLasts ==
  \A r \in Requests :
    trust[r].at = "answered" /\ ~trust[r].overlapped => trust[r].workspace \in registry
=============================================================================
