----------------------------- MODULE RelayEnding -----------------------------
(***************************************************************************)
(* What a relay promises to the service that registered it.  The relay     *)
(* decides once how its session ends, on a ground that it has then: what   *)
(* the agent said of its turn, its exit, a start that failed, or a cancel  *)
(* on record.  With that decision the agent is stopped; it was started     *)
(* once, before, or never.  The relay's one ending follows in the log,     *)
(* then its record, and only then is the relay forgotten.  Somebody else   *)
(* may complete the session besides.  CodexRelay is shown to implement     *)
(* this specification.                                                     *)
(***************************************************************************)
EXTENDS Naturals

VARIABLES
  agent,      (* the child process                                          *)
  start,      (* what became of starting it                                 *)
  said,       (* ends of the turn the agent told of, and its exit           *)
  cancel,     (* a cancel, and whether it is on record                      *)
  state,      (* the state the relay ends its session in                    *)
  endings,    (* terminal events in the log                                 *)
  record,     (* the session's state                                        *)
  registered,
  others      (* somebody else completes the session                        *)

grounds == << start, said, cancel >>
log == << endings, record, registered, others >>

Init ==
  /\ agent = "none" /\ start = "underway" /\ said = {} /\ cancel = "no"
  /\ state = "running" /\ endings = 0 /\ record = "running"
  /\ registered = TRUE /\ others = FALSE

Spawn ==
  /\ agent = "none" /\ state = "running" /\ agent' = "running"
  /\ UNCHANGED << grounds, state, log >>

StartFails ==
  /\ start = "underway" /\ start' = "failed"
  /\ UNCHANGED << agent, said, cancel, state, log >>

Speaks(end) ==
  /\ agent = "running" /\ state = "running" /\ said' = said \cup {end}
  /\ UNCHANGED << agent, start, cancel, state, log >>

Exits ==
  /\ agent \in {"running", "killed"} /\ agent' = "exited" /\ said' = said \cup {"exit"}
  /\ UNCHANGED << start, cancel, state, log >>

Cancel ==
  /\ cancel = "no" /\ state = "running" /\ cancel' = "asked"
  /\ UNCHANGED << agent, start, said, state, log >>

(* A ground may be lost: handled too late, not recorded, or with the host. *)
Forgets ==
  said' \subseteq said /\ start' \in {start, "over"} /\ cancel' \in {cancel, "over"}

Forget == Forgets /\ UNCHANGED << agent, state, log >>

CancelRecorded ==
  /\ cancel = "asked" /\ cancel' = "armed" /\ said' \subseteq said
  /\ UNCHANGED << agent, start, state, log >>

Due ==
  (said \ {"exit"})
    \cup {s \in {"failed"} : start = "failed" \/ "exit" \in said}
    \cup {s \in {"interrupted"} : cancel = "armed"}

Decide ==
  /\ state = "running" /\ state' \in Due
  /\ agent' = IF agent = "running" THEN "killed" ELSE agent
  /\ Forgets /\ UNCHANGED log

Write ==
  /\ state # "running" /\ (endings = 0 \/ others) /\ endings' = endings + 1
  /\ Forgets /\ UNCHANGED << agent, state, record, registered, others >>

Release ==
  /\ state # "running" /\ (endings = 1 \/ others)
  /\ registered /\ registered' = FALSE /\ record' = state
  /\ Forgets /\ UNCHANGED << agent, state, endings, others >>

OtherCompletes ==
  /\ others' = TRUE
  /\ \/ UNCHANGED << endings, record >>
     \/ others /\ endings' = endings + 1 /\ UNCHANGED record
     \/ others /\ record' = "completed" /\ UNCHANGED endings
  /\ UNCHANGED << agent, grounds, state, registered >>

Next ==
  \/ Spawn \/ StartFails \/ Exits \/ Cancel \/ Forget \/ CancelRecorded
  \/ \E end \in {"completed", "failed", "interrupted"} : Speaks(end)
  \/ Decide \/ Write \/ Release \/ OtherCompletes

Spec == Init /\ [][Next]_<< agent, grounds, state, log >>
=============================================================================
