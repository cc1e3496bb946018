----------------------------- MODULE SessionLog -----------------------------
(***************************************************************************)
(* What the evidence of a session promises to those who write it, whatever *)
(* the supervisor does inside, crashes and rejected file writes included:  *)
(* a log to which a call adds one entry, at the end, at one moment between *)
(* the call and its answer.  A call that was answered has its entry; one   *)
(* that failed or that a restart cut off may have left one.  EvidenceLedger *)
(* is shown to implement this specification.                               *)
(***************************************************************************)
EXTENDS Sequences, Functions

CONSTANT Ops

VARIABLES
  log,    (* the call behind each entry                                     *)
  answer  (* what each caller has been told                                 *)

Init == log = << >> /\ answer = [o \in Ops |-> "new"]

Invoke(o) ==
  /\ answer[o] = "new"
  /\ answer' = [answer EXCEPT ![o] = "pending"]
  /\ UNCHANGED log

TakeEffect(o) ==
  /\ answer[o] = "pending" /\ o \notin Range(log)
  /\ log' = Append(log, o)
  /\ UNCHANGED answer

Return(o) ==
  /\ answer[o] = "pending" /\ o \in Range(log)
  /\ answer' = [answer EXCEPT ![o] = "ok"]
  /\ UNCHANGED log

Fail(o) ==
  /\ answer[o] = "pending"
  /\ answer' = [answer EXCEPT ![o] = "failed"]
  /\ UNCHANGED log

Restart ==
  /\ answer' = [o \in Ops |-> IF answer[o] = "pending" THEN "lost" ELSE answer[o]]
  /\ UNCHANGED log

Next ==
  \/ \E o \in Ops : Invoke(o) \/ TakeEffect(o) \/ Return(o) \/ Fail(o)
  \/ Restart

Spec == Init /\ [][Next]_<< log, answer >>
=============================================================================
