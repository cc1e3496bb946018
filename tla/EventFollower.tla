---------------------------- MODULE EventFollower ----------------------------
(***************************************************************************)
(* A client that follows the events of a session until it has ended:       *)
(* followEvents() of the adapter SDK ("follow"), agent-contract watch and  *)
(* followSessionLog() of the VS Code extension ("watch"), waitForRun() of  *)
(* agent-contract run, which polls the record alone ("wait"); and          *)
(* getEvents() of service.ts, which answers them.                          *)
(*                                                                         *)
(* A request may fail or stay unanswered at any point; the client then     *)
(* gives up.  Events are their positions in the log.                       *)
(***************************************************************************)
EXTENDS Integers, Sequences, SequencesExt

CONSTANTS
  Modes,      (* bound: which of the clients                                *)
  Wanted,     (* kinds that agent-contract watch asks for                   *)
  Terminal,   (* states of an ended session                                 *)
  MaxResumes  (* bound: times following is taken up again                  *)

VARIABLES
  log, session,  (* of the supervisor                                       *)
  follower,      (* the client: where it is, its cursor, what it was told   *)
  got,           (* positions of the events that it was given               *)
  resumes

FollowerTypeOK ==
  /\ follower \in [mode : Modes, at : {"idle", "read", "done", "gone"}, cursor : Nat,
                   ended : BOOLEAN]
  /\ got \in Seq(Nat) /\ resumes \in 0 .. MaxResumes

FollowerInit ==
  /\ follower \in [mode : Modes, at : {"idle"}, cursor : {0}, ended : {FALSE}]
  /\ got = << >> /\ resumes = 0

(* getEvents() reads the record, and after that the events.                *)
ReadRecord ==
  /\ follower.at = "idle"
  /\ follower' = [follower EXCEPT !.at = "read", !.ended = session.state \in Terminal]
  /\ UNCHANGED << got, resumes >>

Matches(i) == follower.mode = "watch" => log[i] \in Wanted
After(cursor) ==
  LET filtered[n \in cursor .. Len(log)] ==
        IF n = cursor THEN << >>
        ELSE IF Matches(n) THEN Append(filtered[n - 1], n) ELSE filtered[n - 1]
  IN  filtered[Len(log)]

AfterAnswer(ended) == IF ended THEN "done" ELSE "idle"

(* agent-contract watch and the extension write what the answer holds and  *)
(* take their cursor from it; waitForRun() has read the record only.       *)
Watch ==
  /\ follower.at = "read" /\ follower.mode # "follow"
  /\ IF follower.mode = "wait"
       THEN /\ follower' = [follower EXCEPT !.at = AfterAnswer(follower.ended), !.ended = FALSE]
            /\ UNCHANGED got
       ELSE /\ follower' = [follower EXCEPT !.at = AfterAnswer(follower.ended), !.ended = FALSE,
                                            !.cursor = Len(log)]
            /\ got' = got \o After(follower.cursor)
  /\ UNCHANGED resumes

(* Mutant: the cursor is moved to an event before the callback has it.     *)
CursorAfterAhead(events, n) ==
  IF events = << >> THEN follower.cursor ELSE events[IF n < Len(events) THEN n + 1 ELSE n]

CursorAfter(events, n) == IF n = 0 THEN follower.cursor ELSE events[n]

(* The SDK hands one event after the other to a callback and moves its     *)
(* cursor behind it; the callback may throw.                               *)
Deliver ==
  LET events == After(follower.cursor) IN
  /\ follower.at = "read" /\ follower.mode = "follow"
  /\ \E n \in 0 .. Len(events) :
       /\ got' = got \o SubSeq(events, 1, n)
       /\ follower' = [follower EXCEPT
                         !.cursor = CursorAfter(events, n), !.ended = FALSE,
                         !.at = IF n < Len(events) THEN "gone" ELSE AfterAnswer(follower.ended)]
  /\ UNCHANGED resumes

(* A timeout or a lost connection.  That it comes after the record was     *)
(* read is no different for the client: reading changes nothing.           *)
RequestFails ==
  /\ follower.at = "idle"
  /\ follower' = [follower EXCEPT !.at = "gone"]
  /\ UNCHANGED << got, resumes >>

(* An SDK caller knows the last event its callback handled and may follow  *)
(* again after it; the others start over.                                  *)
Resume ==
  /\ follower.at = "gone" /\ follower.mode = "follow" /\ resumes < MaxResumes
  /\ resumes' = resumes + 1
  /\ follower' = [follower EXCEPT !.at = "idle"]
  /\ UNCHANGED got

FollowerWorks == ReadRecord \/ Watch \/ Deliver
=============================================================================
