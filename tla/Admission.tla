----------------------------- MODULE Admission -----------------------------
(***************************************************************************)
(* What the gateway promises about the sessions it admits, free of slots,  *)
(* gauges, wait groups and contexts.                                       *)
(*                                                                         *)
(* Never more than MaxSessions requests hold the gateway, and never more   *)
(* than MaxStreams streams of a session run; a request or a stream is      *)
(* refused for room only when there is none.  A session ends when none of  *)
(* its streams runs.  Once the gateway has closed, nobody new is let in,   *)
(* and it says that it stopped only when the sessions it found have ended. *)
(***************************************************************************)
EXTENDS Naturals, FiniteSets

CONSTANTS Requests, Streams, MaxSessions, MaxStreams

VARIABLES
    standing,   \* "new", "away", "let in", "held", "open" or "over"
    run,        \* of each stream: "none", "refused", "running" or "over"
    closed,     \* nobody new is let in
    found,      \* the sessions found when the gateway closed
    stopped     \* the gateway has said that it stopped

vars == <<standing, run, closed, found, stopped>>

Init ==
    /\ standing = [r \in Requests |-> "new"]
    /\ run = [r \in Requests |-> [s \in Streams |-> "none"]]
    /\ closed = FALSE
    /\ found = {}
    /\ stopped = FALSE

In(places) == {r \in Requests : standing[r] \in places}
Room == Cardinality(In({"held", "open"})) < MaxSessions

Running(r) == {s \in Streams : run[r][s] = "running"}
RoomIn(r) == Cardinality(Running(r)) < MaxStreams

Goes(r, from, to) ==
    /\ standing[r] = from
    /\ standing' = [standing EXCEPT ![r] = to]
    /\ UNCHANGED <<run, closed, found, stopped>>

TurnAway(r) == Goes(r, "new", "away")
LetIn(r)    == ~closed /\ Goes(r, "new", "let in")
Take(r)     == Room /\ Goes(r, "let in", "held")
NoRoom(r)   == ~Room /\ Goes(r, "let in", "away")
Withdraw(r) == Goes(r, "held", "away")
Open(r)     == Goes(r, "held", "open")
End(r)      == Running(r) = {} /\ Goes(r, "open", "over")

Runs(r, s, from, to) ==
    /\ run[r][s] = from
    /\ run' = [run EXCEPT ![r][s] = to]
    /\ UNCHANGED <<standing, closed, found, stopped>>

Start(r, s)  == standing[r] = "open" /\ RoomIn(r) /\ Runs(r, s, "none", "running")
Refuse(r, s) == standing[r] = "open" /\ ~RoomIn(r) /\ Runs(r, s, "none", "refused")
Finish(r, s) == standing[r] = "open" /\ Runs(r, s, "running", "over")

(* A session that has just ended may be found or not.                       *)
Close ==
    /\ ~closed
    /\ closed' = TRUE
    /\ In({"open"}) \subseteq found'
    /\ found' \subseteq In({"open", "over"})
    /\ UNCHANGED <<standing, run, stopped>>

Stop ==
    /\ closed /\ ~stopped
    /\ found \subseteq In({"over"})
    /\ stopped' = TRUE
    /\ UNCHANGED <<standing, run, closed, found>>

Session(r) ==
    TurnAway(r) \/ LetIn(r) \/ Take(r) \/ NoRoom(r) \/ Withdraw(r) \/ Open(r) \/ End(r)
Stream(r, s) == Start(r, s) \/ Refuse(r, s) \/ Finish(r, s)

Next ==
    \/ Close \/ Stop
    \/ \E r \in Requests : Session(r)
    \/ \E r \in Requests, s \in Streams : Stream(r, s)

Spec == Init /\ [][Next]_vars
=============================================================================
