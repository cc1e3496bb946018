------------------------- MODULE SupervisorHostProofs -------------------------
(***************************************************************************)
(* Theorems about SupervisorHost, for any number of processes, commands,   *)
(* requests, workspaces, kills and rejected shutdowns.                     *)
(***************************************************************************)
EXTENDS SupervisorHost, TLAPS

(* The owner of the open directory is in the lock file, and a lock is in   *)
(* the file of nobody who has not got that far.                            *)
LockInv ==
  /\ \A p \in Procs : proc[p].at \in Opened => lock = p
  /\ \A p \in Procs : proc[p].at \in {"unborn", "locking"} => lock # p
  /\ lock # None /\ lock \notin Alive => faults > 0

(* Of the processes that the window spawned only the last may be alive.    *)
ChildInv ==
  /\ \A p \in Procs : proc[p].exit # "none" => proc[p].at = "gone"
  /\ \A p \in spawned : proc[p].at # "unborn"
  /\ \A p \in spawned \cap Alive : p = child

(* A process that generated a token goes by its own until it is stored.    *)
TokenInv ==
  /\ \A p \in Procs : proc[p].at = "generating" => proc[p].token = p
  /\ \A p \in Procs : proc[p].at \in {"opening", "listening", "serving"} =>
       proc[p].token = stored

(* Requests that are in progress together know of each other, and one that *)
(* is about to write has read every answered workspace that nobody else    *)
(* was trusting at the time.                                               *)
Trusted(r) == trust[r].at = "answered" /\ ~trust[r].overlapped

TrustInv ==
  /\ \A r \in Requests : trust[r].at \in InProgress => trust[r].workspace \in Workspaces
  /\ \A r, q \in Requests :
       r # q /\ trust[r].at \in InProgress /\ trust[q].at \in InProgress =>
         trust[r].overlapped
  /\ \A r \in Requests : Trusted(r) => trust[r].workspace \in registry
  /\ \A r, q \in Requests :
       Trusted(r) /\ trust[q].at = "writing" => trust[r].workspace \in trust[q].read

Inv == TypeOK /\ LockInv /\ ChildInv /\ TokenInv /\ TrustInv

-----------------------------------------------------------------------------
(* Nobody is born, nothing is stored.                                      *)
LEMMA InitInv == Init => Inv
  BY HostAssumption
     DEF Init, Inv, TypeOK, LockInv, ChildInv, TokenInv, TrustInv, Trusted, Fresh, NewRequest,
         Alive, Opened, InProgress, Commands

(* The shapes of the state.                                                *)
LEMMA TypeStep == ASSUME TypeOK, TrustInv, [Next]_vars PROVE TypeOK'
<1> DEFINE ProcState == [at : {"unborn", "locking", "gone"} \cup Opened,
                         token : Procs \cup {None}, exit : {"none", "code", "signal"}]
           TrustState == [at : {"new", "answered", "lost"} \cup InProgress,
                          workspace : Workspaces \cup {None}, by : Procs \cup {None},
                          read : SUBSET Workspaces, overlapped : BOOLEAN]
<1> USE HostAssumption DEF TypeOK, files, starters, Opened, InProgress
<1>1. ASSUME NEW p \in Procs, AcquireLock(p) PROVE TypeOK'
  BY <1>1 DEF AcquireLock, Goes, Exits
<1>2. ASSUME NEW p \in Procs, LoadToken(p) PROVE TypeOK'
  <2>1. proc[p] \in ProcState /\ stored \in Procs \cup {None}
    OBVIOUS
  <2>2. [proc[p] EXCEPT !.at = "generating", !.token = p] \in ProcState
    BY <2>1
  <2>3. [proc[p] EXCEPT !.at = "opening", !.token = stored] \in ProcState
    BY <2>1
  <2> QED
    BY <1>2, <2>2, <2>3 DEF LoadToken
<1>3. ASSUME NEW p \in Procs, StoreToken(p) PROVE TypeOK'
  BY <1>3 DEF StoreToken, Goes
<1>4. ASSUME NEW p \in Procs, OpenLedger(p) PROVE TypeOK'
  BY <1>4 DEF OpenLedger, Goes, Exits, Releases
<1>5. ASSUME NEW p \in Procs, Listen(p) PROVE TypeOK'
  BY <1>5 DEF Listen, Goes, Exits, Releases
<1>6. ASSUME NEW p \in Procs, Shutdown(p) PROVE TypeOK'
  BY <1>6 DEF Shutdown, Goes
<1>7. ASSUME NEW p \in Procs, Closed(p) \/ CloseRejects(p) PROVE TypeOK'
  BY <1>7 DEF Closed, CloseRejects, Exits, Releases
<1>8. ASSUME NEW p \in Procs, Kill(p) PROVE TypeOK'
  <2>1. [NewRequest EXCEPT !.at = "lost"] \in TrustState
    BY DEF NewRequest
  <2>2. trust' \in [Requests -> TrustState]
    BY <1>8, <2>1 DEF Kill
  <2> QED
    BY <1>8, <2>2 DEF Kill, Exits
<1>9. ASSUME RemoveStaleLock \/ ForeignPort PROVE TypeOK'
  BY <1>9 DEF RemoveStaleLock, ForeignPort
<1>10. ASSUME NEW c \in Commands,
              Ask(c) \/ Probe(c) \/ StartTimesOut(c) \/ Done(c)
       PROVE  TypeOK'
  BY <1>10 DEF Ask, Probe, StartTimesOut, Done, To
<1>11. ASSUME NEW c \in Commands, SpawnInWindow(c) \/ SpawnInShell(c) PROVE TypeOK'
  BY <1>11 DEF SpawnInWindow, SpawnInShell, Spawn, Launch, Goes, To
<1>12. ASSUME NEW r \in Requests, NEW w \in Workspaces, ReadRegistry(r, w) PROVE TypeOK'
  <2>1. ASSUME NEW q \in Requests PROVE [trust[q] EXCEPT !.overlapped = TRUE] \in TrustState
    <3>1. trust[q] \in TrustState
      OBVIOUS
    <3> QED
      BY <3>1
  <2>2. [at |-> "reading", workspace |-> w, by |-> port, read |-> {},
         overlapped |-> Others(r) # {}] \in TrustState
    BY <1>12 DEF ReadRegistry
  <2>3. trust' \in [Requests -> TrustState]
    BY <1>12, <2>1, <2>2 DEF ReadRegistry
  <2> QED
    BY <1>12, <2>3 DEF ReadRegistry
<1>13. ASSUME NEW r \in Requests, RegistryRead(r) \/ WriteRegistry(r) PROVE TypeOK'
  <2>1. trust[r] \in TrustState
    OBVIOUS
  <2>2. [trust[r] EXCEPT !.at = "writing", !.read = registry] \in TrustState
    BY <2>1
  <2>3. [trust[r] EXCEPT !.at = "answered", !.by = None, !.read = {}] \in TrustState
    BY <2>1
  <2>4. trust' \in [Requests -> TrustState]
    <3>1. CASE RegistryRead(r)
      BY <3>1, <2>2 DEF RegistryRead
    <3>2. CASE WriteRegistry(r)
      BY <3>2, <2>3 DEF WriteRegistry
    <3> QED
      BY <1>13, <3>1, <3>2
  <2>5. WriteRegistry(r) => trust[r].workspace \in Workspaces /\ trust[r].read \subseteq Workspaces
    BY <2>1 DEF WriteRegistry, TrustInv
  <2> QED
    BY <1>13, <2>4, <2>5 DEF RegistryRead, WriteRegistry
<1>14. CASE UNCHANGED vars
  BY <1>14 DEF vars
<1> QED
  BY <1>1, <1>2, <1>3, <1>4, <1>5, <1>6, <1>7, <1>8, <1>9, <1>10, <1>11, <1>12, <1>13, <1>14
     DEF Next
(* What looking for the token changes of a process.                        *)
LEMMA LoadFacts ==
  ASSUME TypeOK, NEW p \in Procs, LoadToken(p)
  PROVE  /\ proc[p].at = "loading" /\ UNCHANGED << lock, faults, child, spawned >>
         /\ proc'[p].at \in {"generating", "opening"} /\ proc'[p].exit = proc[p].exit
         /\ \A q \in Procs \ {p} : proc'[q] = proc[q]
<1> USE DEF TypeOK, Opened, At, files, starters
<1>1. CASE stored = None
  BY <1>1 DEF LoadToken
<1>2. CASE stored # None
  BY <1>2 DEF LoadToken
<1> QED
  BY <1>1, <1>2

-----------------------------------------------------------------------------
(* Who owns the directory: the lock changes hands by creation, release and *)
(* the operator's removal only.                                            *)
LEMMA LockStep == ASSUME TypeOK, LockInv, [Next]_vars PROVE LockInv'
<1> USE HostAssumption DEF TypeOK, LockInv, files, starters, Opened, Alive
<1>1. ASSUME NEW p \in Procs, AcquireLock(p) PROVE LockInv'
  BY <1>1 DEF AcquireLock, At, Goes, Exits
<1>2. ASSUME NEW p \in Procs, LoadToken(p) \/ StoreToken(p) \/ Shutdown(p) PROVE LockInv'
  <2>1. CASE LoadToken(p)
    BY <2>1, LoadFacts
  <2>2. CASE StoreToken(p) \/ Shutdown(p)
    BY <2>2 DEF StoreToken, Shutdown, At, Goes
  <2> QED
    BY <1>2, <2>1, <2>2
<1>3. ASSUME NEW p \in Procs, OpenLedger(p) PROVE LockInv'
  BY <1>3 DEF OpenLedger, At, Goes, Exits, Releases
<1>4. ASSUME NEW p \in Procs, Listen(p) PROVE LockInv'
  BY <1>4 DEF Listen, At, Goes, Exits, Releases
<1>5. ASSUME NEW p \in Procs, Closed(p) PROVE LockInv'
  BY <1>5 DEF Closed, At, Exits, Releases
<1>6. ASSUME NEW p \in Procs, CloseRejects(p) \/ Kill(p) PROVE LockInv'
  BY <1>6 DEF CloseRejects, Kill, At, Exits
<1>7. ASSUME RemoveStaleLock PROVE LockInv'
  BY <1>7 DEF RemoveStaleLock
<1>8. ASSUME NEW c \in Commands, SpawnInWindow(c) \/ SpawnInShell(c) PROVE LockInv'
  BY <1>8 DEF SpawnInWindow, SpawnInShell, Spawn, Launch, At, Goes
<1>9. ASSUME UNCHANGED << proc, lock, faults >> PROVE LockInv'
  BY <1>9
<1> QED
  BY <1>1, <1>2, <1>3, <1>4, <1>5, <1>6, <1>7, <1>8, <1>9
     DEF Next, vars, ForeignPort, Ask, Probe, StartTimesOut, Done, ReadRegistry, RegistryRead,
         WriteRegistry

(* Who is the window's child: a new one is spawned only over one that left *)
(* with an exit code, and whoever left does not come back.                 *)
LEMMA ChildStep == ASSUME TypeOK, ChildInv, [Next]_vars PROVE ChildInv'
<1> USE HostAssumption DEF TypeOK, ChildInv, files, starters, Opened, Alive
<1>1. ASSUME NEW p \in Procs, AcquireLock(p) \/ OpenLedger(p) \/ Listen(p) PROVE ChildInv'
  BY <1>1 DEF AcquireLock, OpenLedger, Listen, At, Goes, Exits
<1>2. ASSUME NEW p \in Procs, LoadToken(p) \/ StoreToken(p) \/ Shutdown(p) PROVE ChildInv'
  <2>1. CASE LoadToken(p)
    BY <2>1, LoadFacts
  <2>2. CASE StoreToken(p) \/ Shutdown(p)
    BY <2>2 DEF StoreToken, Shutdown, At, Goes
  <2> QED
    BY <1>2, <2>1, <2>2
<1>3. ASSUME NEW p \in Procs, Closed(p) \/ CloseRejects(p) \/ Kill(p) PROVE ChildInv'
  BY <1>3 DEF Closed, CloseRejects, Kill, At, Exits
<1>4. ASSUME NEW c \in Commands, SpawnInWindow(c) PROVE ChildInv'
  BY <1>4 DEF SpawnInWindow, Spawn, Launch, At, Goes
<1>5. ASSUME NEW c \in Commands, SpawnInShell(c) PROVE ChildInv'
  BY <1>5 DEF SpawnInShell, Launch, At, Goes
<1>6. ASSUME UNCHANGED << proc, child, spawned >> PROVE ChildInv'
  BY <1>6
<1> QED
  BY <1>1, <1>2, <1>3, <1>4, <1>5, <1>6
     DEF Next, vars, RemoveStaleLock, ForeignPort, Ask, Probe, StartTimesOut, Done, ReadRegistry,
         RegistryRead, WriteRegistry

(* Which token is served: only the owner stores one, so that nobody else   *)
(* has read another.                                                       *)
LEMMA TokenStep == ASSUME TypeOK, LockInv, TokenInv, [Next]_vars PROVE TokenInv'
<1> USE HostAssumption DEF TypeOK, TokenInv, files, starters, Opened
<1>1. ASSUME NEW p \in Procs, AcquireLock(p) \/ OpenLedger(p) \/ Listen(p) \/ Shutdown(p)
      PROVE  TokenInv'
  BY <1>1 DEF AcquireLock, OpenLedger, Listen, Shutdown, At, Goes, Exits
<1>2. ASSUME NEW p \in Procs, LoadToken(p) PROVE TokenInv'
  BY <1>2 DEF LoadToken, At
<1>3. ASSUME NEW p \in Procs, StoreToken(p) PROVE TokenInv'
  <2>1. \A q \in Procs : proc[q].at \in Opened => q = p
    BY <1>3 DEF StoreToken, At, LockInv
  <2> QED
    BY <1>3, <2>1 DEF StoreToken, At, Goes
<1>4. ASSUME NEW p \in Procs, Closed(p) \/ CloseRejects(p) \/ Kill(p) PROVE TokenInv'
  BY <1>4 DEF Closed, CloseRejects, Kill, At, Exits
<1>5. ASSUME NEW c \in Commands, SpawnInWindow(c) \/ SpawnInShell(c) PROVE TokenInv'
  BY <1>5 DEF SpawnInWindow, SpawnInShell, Spawn, Launch, At, Goes
<1>6. ASSUME UNCHANGED << proc, stored >> PROVE TokenInv'
  BY <1>6
<1> QED
  BY <1>1, <1>2, <1>3, <1>4, <1>5, <1>6
     DEF Next, vars, RemoveStaleLock, ForeignPort, Ask, Probe, StartTimesOut, Done, ReadRegistry,
         RegistryRead, WriteRegistry

(* What trusting leaves in the registry: only requests that are in         *)
(* progress together can drop each other's entry.                          *)
LEMMA TrustStep == ASSUME TypeOK, TrustInv, [Next]_vars PROVE TrustInv'
<1> USE HostAssumption DEF TypeOK, TrustInv, Trusted, files, starters, InProgress
<1>1. ASSUME NEW p \in Procs, Kill(p) PROVE TrustInv'
  BY <1>1 DEF Kill, NewRequest
<1>2. ASSUME NEW r \in Requests, NEW w \in Workspaces, ReadRegistry(r, w) PROVE TrustInv'
  <2>1. \A q \in Requests \ {r} :
          /\ trust'[q].at = trust[q].at /\ trust'[q].workspace = trust[q].workspace
          /\ trust'[q].read = trust[q].read
          /\ trust'[q].overlapped = (trust[q].overlapped \/ trust[q].at \in InProgress)
    <3> SUFFICES ASSUME NEW q \in Requests \ {r}
                 PROVE  /\ trust'[q].at = trust[q].at /\ trust'[q].workspace = trust[q].workspace
                        /\ trust'[q].read = trust[q].read
                        /\ trust'[q].overlapped = (trust[q].overlapped \/ trust[q].at \in InProgress)
      OBVIOUS
    <3>1. trust[q].overlapped \in BOOLEAN
      OBVIOUS
    <3>2. CASE q \in Others(r)
      <4>1. /\ trust'[q] = [trust[q] EXCEPT !.overlapped = TRUE]
            /\ trust[q].at \in InProgress
        BY <1>2, <3>2 DEF ReadRegistry, Others
      <4>2. trust[q] \in [at : {"new", "answered", "lost"} \cup InProgress,
                          workspace : Workspaces \cup {None}, by : Procs \cup {None},
                          read : SUBSET Workspaces, overlapped : BOOLEAN]
        OBVIOUS
      <4> QED
        BY <4>1, <4>2
    <3>3. CASE q \notin Others(r)
      <4>1. trust'[q] = trust[q] /\ trust[q].at \notin InProgress
        BY <1>2, <3>3 DEF ReadRegistry, Others
      <4> QED
        BY <3>1, <4>1
    <3> QED
      BY <3>2, <3>3
  <2>2. /\ trust'[r].at = "reading" /\ trust'[r].workspace = w
        /\ (\E q \in Requests \ {r} : trust[q].at \in InProgress) => trust'[r].overlapped
    BY <1>2 DEF ReadRegistry, Others
  <2>3. registry' = registry
    BY <1>2 DEF ReadRegistry
  <2> QED
    BY <2>1, <2>2, <2>3
<1>3. ASSUME NEW r \in Requests, RegistryRead(r) PROVE TrustInv'
  BY <1>3 DEF RegistryRead
<1>4. ASSUME NEW r \in Requests, WriteRegistry(r) PROVE TrustInv'
  BY <1>4 DEF WriteRegistry
<1>5. ASSUME UNCHANGED << trust, registry >> PROVE TrustInv'
  BY <1>5
<1> QED
  BY <1>1, <1>2, <1>3, <1>4, <1>5
     DEF Next, vars, AcquireLock, LoadToken, StoreToken, OpenLedger, Listen, Shutdown, Closed,
         CloseRejects, RemoveStaleLock, ForeignPort, Ask, Probe, SpawnInWindow, SpawnInShell,
         StartTimesOut, Done

LEMMA StepInv == Inv /\ [Next]_vars => Inv'
  BY TypeStep, LockStep, ChildStep, TokenStep, TrustStep DEF Inv

-----------------------------------------------------------------------------
(* The inductive invariant of supervisor processes over one directory.     *)
THEOREM Invariance == Spec => []Inv
BY InitInv, StepInv, PTL DEF Spec

(* Whoever has the evidence directory open holds its lock; a lock left     *)
(* behind is a killed process's or a rejected close()'s; a window never    *)
(* has two children alive (acquireExclusiveStoreLock, ensureRunning).      *)
THEOREM OwnerHoldsLockHolds == Spec => []OwnerHoldsLock
<1>1. Inv => OwnerHoldsLock
  BY DEF Inv, LockInv, ChildInv, OwnerHoldsLock
<1> QED
  BY <1>1, Invariance, PTL

(* The supervisor that serves goes by the token that is stored             *)
(* (createOrLoadAuthToken).                                                *)
THEOREM ServesStoredTokenHolds == Spec => []ServesStoredToken
<1>1. Inv => ServesStoredToken
  BY DEF Inv, TokenInv, ServesStoredToken
<1> QED
  BY <1>1, Invariance, PTL

(* A trust that was answered, and that no other request overlapped, lasts  *)
(* (trustWorkspace).                                                       *)
THEOREM AnsweredTrustLastsHolds == Spec => []AnsweredTrustLasts
<1>1. Inv => AnsweredTrustLasts
  BY DEF Inv, TrustInv, Trusted, AnsweredTrustLasts
<1> QED
  BY <1>1, Invariance, PTL
=============================================================================
