---------------------------- MODULE SessionOutcome ----------------------------
(***************************************************************************)
(* What ending a contract session promises to those who ask for it,        *)
(* whatever the supervisor does inside and however its store fails.  The   *)
(* outcome is decided at one moment, for good, and is what the log last    *)
(* said.  Every ending in the log is what somebody who waited at that      *)
(* moment had asked for, or an interruption once the deadline had passed.  *)
(* All who wait are told the same, at that moment or when the attempt      *)
(* fails; a request that was told of a failure has no effect later, and    *)
(* none is answered well before the outcome is decided.  ContractSession   *)
(* is shown to implement this specification.                               *)
(***************************************************************************)
EXTENDS Sequences

CONSTANT Clients

VARIABLES
  asked,   (* the ending each client asked for                              *)
  answer,  (* what each client was told                                     *)
  owner,   (* what the supervisor's owner, who closes it, was told          *)
  overdue, (* the deadline has passed                                       *)
  events,  (* the endings in the log                                        *)
  outcome

Endings == {"completed", "failed", "interrupted"}

Init ==
  /\ asked = [c \in Clients |-> "nothing"]
  /\ answer = [c \in Clients |-> "none"]
  /\ owner = "none" /\ overdue = FALSE
  /\ events = << >> /\ outcome = "running"

(* Who asks has to wait, unless the session has ended.                     *)
Replies == IF outcome = "running" THEN {"pending"} ELSE {"pending", "ok", "error"}

Ask(c, state) ==
  /\ answer[c] = "none"
  /\ asked' = [asked EXCEPT ![c] = state]
  /\ \E reply \in Replies : answer' = [answer EXCEPT ![c] = reply]
  /\ UNCHANGED << owner, overdue, events, outcome >>

Close ==
  /\ owner = "none"
  /\ owner' \in Replies
  /\ UNCHANGED << asked, answer, overdue, events, outcome >>

PassDeadline ==
  /\ outcome = "running" /\ events = << >> /\ ~overdue
  /\ overdue' = TRUE
  /\ UNCHANGED << asked, answer, owner, events, outcome >>

AnswerAll(reply) ==
  /\ answer' = [c \in Clients |-> IF answer[c] = "pending" THEN reply ELSE answer[c]]
  /\ owner' = IF owner = "pending" THEN reply ELSE owner

Fail == AnswerAll("error") /\ UNCHANGED << asked, overdue, events, outcome >>

(* The endings that somebody waits for.                                    *)
Due ==
  IF overdue THEN {"interrupted"}
  ELSE {asked[c] : c \in {d \in Clients : answer[d] = "pending"}}
         \cup {s \in {"interrupted"} : owner = "pending"}

(* The write may fail for its callers and leave the ending behind.         *)
Write ==
  /\ outcome = "running"
  /\ \E state \in Due : events' = Append(events, state)
  /\ AnswerAll("error") \/ UNCHANGED << answer, owner >>
  /\ UNCHANGED << asked, overdue, outcome >>

Decide ==
  /\ outcome = "running" /\ events # << >>
  /\ outcome' = events[Len(events)] /\ outcome' \in Due
  /\ \E reply \in {"ok", "error"} : AnswerAll(reply)
  /\ UNCHANGED << asked, overdue, events >>

Next ==
  \/ \E c \in Clients, state \in Endings : Ask(c, state)
  \/ Close \/ PassDeadline \/ Fail \/ Write \/ Decide

Spec == Init /\ [][Next]_<< asked, answer, owner, overdue, events, outcome >>
=============================================================================
