------------------------------ MODULE ActionGate ------------------------------
(***************************************************************************)
(* What a session's interceptor is to whoever owns the session: a gate     *)
(* that lets requests in until it is drained, work behind it that may or   *)
(* may not verify the session, an executor that can be stopped, and a      *)
(* completion that is refused as long as the session is not verified.      *)
(* Requests that only a stopped executor is left for are doomed: they can  *)
(* cost the session its verification and never earn it one.                *)
(*                                                                         *)
(* ContractExecution is shown to implement this specification, and         *)
(* ContractSession, which owns an interceptor, is built from its actions.  *)
(***************************************************************************)
VARIABLES
  required,  (* the contract requires verification before completion        *)
  accepting, (* requests are let in                                         *)
  work,      (* the requests that are unfinished                            *)
  verified,  (* completion would not be refused                             *)
  stopped,   (* the executor was stopped                                    *)
  drain      (* progress of the owner's drain, gated or not                 *)

Work == {"idle", "busy", "doomed"}

Init ==
  /\ required \in BOOLEAN
  /\ accepting = TRUE /\ work = "idle" /\ verified = ~required
  /\ stopped = FALSE /\ drain = "open"

LetIn ==
  /\ accepting
  /\ work' = IF stopped /\ work # "busy" THEN "doomed" ELSE "busy"
  /\ UNCHANGED << required, accepting, verified, stopped, drain >>

(* The executor's outcomes: only of work that is not doomed may one verify. *)
Verdicts ==
  IF ~required THEN {TRUE} ELSE IF work = "busy" THEN BOOLEAN ELSE {verified, FALSE}

(* A request goes on or settles, whatever is retained of it.               *)
GoOn ==
  /\ work # "idle"
  /\ work' \in {"idle", work} \cup {w \in {"doomed"} : stopped}
  /\ verified' \in Verdicts
  /\ UNCHANGED << required, accepting, stopped, drain >>

(* Only a call that has reached the executor may still succeed.            *)
Stops == stopped' = TRUE /\ work' \in {work} \cup {w \in {"doomed"} : work = "busy"}

Stop == Stops /\ UNCHANGED << required, accepting, verified, drain >>

DrainStart(gated) ==
  /\ drain \in {"open", "drained", "drained-gated"}
  /\ accepting' = FALSE
  /\ drain' = IF gated THEN "draining-gated" ELSE "draining"
  /\ UNCHANGED << required, work, verified, stopped >>

(* Nothing is left: the drain is over, or a completion is refused and the  *)
(* gate open again before the refusal is thrown.                           *)
DrainEnd ==
  /\ work = "idle"
  /\ \/ drain = "draining" /\ drain' = "drained" /\ UNCHANGED accepting
     \/ drain = "draining-gated" /\ verified /\ drain' = "drained-gated" /\ UNCHANGED accepting
     \/ drain = "draining-gated" /\ ~verified /\ drain' = "refusing" /\ accepting' = TRUE
  /\ UNCHANGED << required, work, verified, stopped >>

RefusalThrown ==
  /\ drain = "refusing" /\ drain' = "open"
  /\ UNCHANGED << required, accepting, work, verified, stopped >>

Next ==
  \/ LetIn \/ GoOn \/ Stop
  \/ \E gated \in BOOLEAN : DrainStart(gated)
  \/ DrainEnd \/ RefusalThrown

Spec == Init /\ [][Next]_<< required, accepting, work, verified, stopped, drain >>
=============================================================================
