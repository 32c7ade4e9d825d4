------------------------------ MODULE Gateway ------------------------------
(***************************************************************************)
(* Sessions of the gateway: gateway/internal/session/server.go.  Handler   *)
(* admits a WebTransport session and starts a goroutine for it, which      *)
(* serveSession spends on the control handshake and then on accepting the  *)
(* session's data streams, each proxied by a goroutine of its own (module  *)
(* Tunnel); Shutdown stops all of it.                                      *)
(*                                                                         *)
(* A request, its handler and its session have one name.  `at' is the      *)
(* place of the goroutine that serves it; an action is what that goroutine *)
(* does between two points where another one can see a difference.         *)
(***************************************************************************)
EXTENDS Integers, FiniteSets

CONSTANTS
    Requests,       \* the CONNECT requests the gateway receives
    Streams,        \* the data streams a client opens on its session
    MaxSessions,    \* cfg.MaxSessions
    MaxStreams      \* cfg.MaxStreams

ASSUME RequestsAssumption == IsFiniteSet(Requests) /\ IsFiniteSet(Streams)
ASSUME MaximaAssumption == {MaxSessions, MaxStreams} \subseteq Nat \ {0}

VARIABLES
    at,             \* where each request stands
    slots,          \* len(s.slots)
    wg,             \* the counter of s.wg
    sessionsGauge,  \* metrics.Sessions
    alive,          \* the WebTransport session is open
    ctxDone,        \* the context of serveSession is done
    stream,         \* each data stream of each session
    sem,            \* len(sem) of each session
    streamsGauge,   \* metrics.Streams
    closing,        \* s.closing
    shutdown,       \* "no", "storing", "waiting", "complete" or "timedOut"
    served          \* history: the requests whose goroutine ran at shutdown

counters == <<slots, wg, sessionsGauge>>
streams  == <<stream, sem, streamsGauge>>
stopping == <<closing, shutdown, served>>
vars == <<at, counters, alive, ctxDone, streams, stopping>>

(* "admitting" past the checks of Handler, "upgrading" holding a slot;      *)
(* then serveSession: "control" accepts and reads the hello, "accepting"    *)
(* data streams, "draining" waits for them, "ending" closes the session;    *)
(* "freed" has given its slot back and not told the wait group.             *)
At == {"new", "rejected", "admitting", "upgrading", "control", "accepting",
       "draining", "ending", "freed", "done"}
HasSlot    == {"upgrading", "control", "accepting", "draining", "ending"}
InSession  == {"control", "accepting", "draining", "ending"}
InWait     == InSession \cup {"freed"}

(* "running" is in proxy.Run, "leaving" has given its place in sem back and *)
(* not told the wait group `streams'; "refused" found sem full.             *)
StreamAt == {"none", "refused", "running", "leaving", "over"}

Init ==
    /\ at = [r \in Requests |-> "new"]
    /\ slots = 0 /\ wg = 0 /\ sessionsGauge = 0
    /\ alive = [r \in Requests |-> FALSE]
    /\ ctxDone = [r \in Requests |-> FALSE]
    /\ stream = [r \in Requests |-> [s \in Streams |-> "none"]]
    /\ sem = [r \in Requests |-> 0]
    /\ streamsGauge = 0
    /\ closing = FALSE
    /\ shutdown = "no"
    /\ served = {}

Move(r, place) == at' = [at EXCEPT ![r] = place]
Running(r) == {s \in Streams : stream[r][s] = "running"}
-----------------------------------------------------------------------------
(* Handler.  Path, origin and rate limit reject whatever they like here;    *)
(* the limiter is module Limiter.  Names in _Mutant are wrong on purpose.   *)

Enter(r) ==
    /\ at[r] = "new"
    /\ \E place \in (IF closing THEN {"rejected"} ELSE {"admitting", "rejected"}) :
          Move(r, place)
    /\ UNCHANGED <<counters, alive, ctxDone, streams, stopping>>

SlotFree == slots < MaxSessions

TakeSlot(r) ==
    /\ at[r] = "admitting"
    /\ IF SlotFree
       THEN Move(r, "upgrading") /\ slots' = slots + 1
       ELSE Move(r, "rejected") /\ UNCHANGED slots
    /\ UNCHANGED <<wg, sessionsGauge, alive, ctxDone, streams, stopping>>

SlotsAfterFailure_Mutant == slots
SlotsAfterFailure == slots - 1

UpgradeFails(r) ==
    /\ at[r] = "upgrading"
    /\ Move(r, "rejected")
    /\ slots' = SlotsAfterFailure
    /\ UNCHANGED <<wg, sessionsGauge, alive, ctxDone, streams, stopping>>

(* A session upgraded once wt.Close() has run is dead from the start.       *)
Upgrade(r) ==
    /\ at[r] = "upgrading"
    /\ Move(r, "control")
    /\ wg' = wg + 1
    /\ sessionsGauge' = sessionsGauge + 1
    /\ alive' = [alive EXCEPT ![r] = shutdown \in {"no", "storing"}]
    /\ ctxDone' = [ctxDone EXCEPT ![r] = ~alive'[r]]
    /\ UNCHANGED <<slots, streams, stopping>>
-----------------------------------------------------------------------------
(* serveSession.                                                            *)

(* The control stream, the hello, the token and the route are right, and    *)
(* the welcome is written; or any of them fails, or ControlTimeout passes.  *)
Welcome(r) ==
    /\ at[r] = "control"
    /\ alive[r]
    /\ Move(r, "accepting")
    /\ UNCHANGED <<counters, alive, ctxDone, streams, stopping>>

ControlFails(r) ==
    /\ at[r] = "control"
    /\ Move(r, "ending")
    /\ UNCHANGED <<counters, alive, ctxDone, streams, stopping>>

PlaceFree(r) == sem[r] < MaxStreams

AcceptStream(r, s) ==
    /\ at[r] = "accepting"
    /\ alive[r]
    /\ stream[r][s] = "none"
    /\ IF PlaceFree(r)
       THEN /\ stream' = [stream EXCEPT ![r][s] = "running"]
            /\ sem' = [sem EXCEPT ![r] = @ + 1]
            /\ streamsGauge' = streamsGauge + 1
       ELSE /\ stream' = [stream EXCEPT ![r][s] = "refused"]
            /\ UNCHANGED <<sem, streamsGauge>>
    /\ UNCHANGED <<at, counters, alive, ctxDone, stopping>>

(* proxy.Run returns; the deferred calls of its goroutine follow.           *)
RunReturns(r, s) ==
    /\ stream[r][s] = "running"
    /\ stream' = [stream EXCEPT ![r][s] = "leaving"]
    /\ sem' = [sem EXCEPT ![r] = @ - 1]
    /\ streamsGauge' = streamsGauge - 1
    /\ UNCHANGED <<at, counters, alive, ctxDone, stopping>>

StreamDone(r, s) ==
    /\ stream[r][s] = "leaving"
    /\ stream' = [stream EXCEPT ![r][s] = "over"]
    /\ UNCHANGED <<at, counters, alive, ctxDone, sem, streamsGauge, stopping>>

(* AcceptStream(ctx) returns an error.                                      *)
AcceptFails(r) ==
    /\ at[r] = "accepting"
    /\ ctxDone[r]
    /\ Move(r, "draining")
    /\ UNCHANGED <<counters, alive, ctxDone, streams, stopping>>

(* streams.Wait() returns.                                                  *)
Drained_SkipMutant(r) == TRUE
Drained_NeverMutant(r) == \A s \in Streams : stream[r][s] = "over"
Drained(r) == \A s \in Streams : stream[r][s] \notin {"running", "leaving"}

Drain(r) ==
    /\ at[r] = "draining"
    /\ Drained(r)
    /\ Move(r, "ending")
    /\ UNCHANGED <<counters, alive, ctxDone, streams, stopping>>

(* CloseWithError(), cancel() and the release of the slot.                  *)
Free(r) ==
    /\ at[r] = "ending"
    /\ Move(r, "freed")
    /\ alive' = [alive EXCEPT ![r] = FALSE]
    /\ ctxDone' = [ctxDone EXCEPT ![r] = TRUE]
    /\ slots' = slots - 1
    /\ sessionsGauge' = sessionsGauge - 1
    /\ UNCHANGED <<wg, streams, stopping>>

Leave(r) ==
    /\ at[r] = "freed"
    /\ Move(r, "done")
    /\ wg' = wg - 1
    /\ UNCHANGED <<slots, sessionsGauge, alive, ctxDone, streams, stopping>>
-----------------------------------------------------------------------------
(* SessionLifetime passes; the client or the network ends the session.      *)
LifetimeExpires(r) ==
    /\ at[r] \in InSession
    /\ ~ctxDone[r]
    /\ ctxDone' = [ctxDone EXCEPT ![r] = TRUE]
    /\ UNCHANGED <<at, counters, alive, streams, stopping>>

SessionLost(r) ==
    /\ at[r] \in InSession
    /\ alive[r]
    /\ alive' = [alive EXCEPT ![r] = FALSE]
    /\ ctxDone' = [ctxDone EXCEPT ![r] = TRUE]
    /\ UNCHANGED <<at, counters, streams, stopping>>
-----------------------------------------------------------------------------
(* Shutdown: closing.Store(true), wt.Close(), then wg.Wait() or a timeout.  *)

StoreClosing ==
    /\ shutdown = "no"
    /\ shutdown' = "storing"
    /\ closing' = TRUE
    /\ served' = {r \in Requests : at[r] \in InWait}
    /\ UNCHANGED <<at, counters, alive, ctxDone, streams>>

CloseServer ==
    /\ shutdown = "storing"
    /\ shutdown' = "waiting"
    /\ alive' = [r \in Requests |-> FALSE]
    /\ ctxDone' = [r \in Requests |-> ctxDone[r] \/ alive[r]]
    /\ UNCHANGED <<at, counters, streams, closing, served>>

WaitOver_Mutant == sessionsGauge = 0
WaitOver == wg = 0

ShutdownComplete ==
    /\ shutdown = "waiting"
    /\ WaitOver
    /\ shutdown' = "complete"
    /\ UNCHANGED <<at, counters, alive, ctxDone, streams, closing, served>>

ShutdownTimesOut ==
    /\ shutdown = "waiting"
    /\ shutdown' = "timedOut"
    /\ UNCHANGED <<at, counters, alive, ctxDone, streams, closing, served>>
-----------------------------------------------------------------------------
Handler(r) == Enter(r) \/ TakeSlot(r) \/ UpgradeFails(r) \/ Upgrade(r)

ServeSession(r) ==
    Welcome(r) \/ ControlFails(r) \/ AcceptFails(r) \/ Drain(r) \/ Free(r) \/ Leave(r)

Stream(r, s) == AcceptStream(r, s) \/ RunReturns(r, s) \/ StreamDone(r, s)

Environment(r) == LifetimeExpires(r) \/ SessionLost(r)

Shutdown == StoreClosing \/ CloseServer \/ ShutdownComplete \/ ShutdownTimesOut

Next ==
    \/ Shutdown
    \/ \E r \in Requests : Handler(r) \/ ServeSession(r) \/ Environment(r)
    \/ \E r \in Requests, s \in Streams : Stream(r, s)

Spec == Init /\ [][Next]_vars

(* Goroutines run, Upgrade returns, the deadlines of the control handshake  *)
(* and of the session pass, and proxy.Run returns once its context is done  *)
(* (SessionEndClosesUpstream of module Tunnel).  The welcome that accepts a *)
(* hello is written after the deadline was cleared and no context reaches   *)
(* that write: that it returns is assumed, as it is the first frame on its  *)
(* stream and far below the window any stream opens with.  Nobody is asked  *)
(* to open or end a session, and Shutdown need not be called.               *)
Fairness ==
    /\ \A r \in Requests :
          /\ WF_vars(TakeSlot(r))
          /\ WF_vars(UpgradeFails(r) \/ Upgrade(r))
          /\ WF_vars(Welcome(r) \/ ControlFails(r))
          /\ WF_vars(AcceptFails(r))
          /\ WF_vars(Drain(r)) /\ WF_vars(Free(r)) /\ WF_vars(Leave(r))
          /\ WF_vars(LifetimeExpires(r))
    /\ \A r \in Requests, s \in Streams :
          /\ WF_vars(ctxDone[r] /\ RunReturns(r, s))
          /\ WF_vars(StreamDone(r, s))
    /\ WF_vars(CloseServer)
    /\ WF_vars(ShutdownComplete)

FairSpec == Spec /\ Fairness
-----------------------------------------------------------------------------
Count(places) == Cardinality({r \in Requests : at[r] \in places})

(* Every variable keeps its type; no counter goes below zero.               *)
TypeOK ==
    /\ at \in [Requests -> At]
    /\ {slots, wg, sessionsGauge, streamsGauge} \subseteq Nat
    /\ alive \in [Requests -> BOOLEAN]
    /\ ctxDone \in [Requests -> BOOLEAN]
    /\ stream \in [Requests -> [Streams -> StreamAt]]
    /\ sem \in [Requests -> Nat]
    /\ closing \in BOOLEAN
    /\ shutdown \in {"no", "storing", "waiting", "complete", "timedOut"}
    /\ served \in SUBSET Requests

(* A slot is held exactly from admission to the end of the session, on      *)
(* every way out of Handler and serveSession, and never more than           *)
(* MaxSessions are (server.go:75-97); the gauge and the wait group tell the *)
(* same story.                                                              *)
SlotsExact ==
    /\ slots = Count(HasSlot)
    /\ slots <= MaxSessions
    /\ sessionsGauge = Count(InSession)
    /\ wg = Count(InWait)

(* Likewise the places of a session's streams (server.go:141-165): exactly  *)
(* the streams being proxied hold one, never more than MaxStreams.          *)
StreamsExact ==
    /\ \A r \in Requests :
          sem[r] = Cardinality(Running(r)) /\ sem[r] <= MaxStreams
    /\ streamsGauge =
          Cardinality({p \in Requests \X Streams : stream[p[1]][p[2]] = "running"})

(* Both counts at once: what admission and the accept loop decide by.       *)
CountsExact == SlotsExact /\ StreamsExact

(* The gateway closes a session, frees its slot and leaves the wait group   *)
(* only when none of its streams is still served (server.go:143, 154-155).  *)
DrainedBeforeEnd ==
    \A r \in Requests :
        at[r] \in {"ending", "freed", "done"} =>
            \A s \in Streams : stream[r][s] \notin {"running", "leaving"}

(* Shutdown() returns nil only when every session it found has come to its  *)
(* end, its last deferred call included (server.go:168-179).                *)
ShutdownDrains == shutdown = "complete" => \A r \in served : at[r] = "done"

(* The gateway implements Admission.  A request holds the gateway from the  *)
(* slot it takes to the slot it gives back; a stream is over when           *)
(* proxy.Run has returned.                                                  *)
PlaceOf(p) ==
    CASE p = "new" -> "new"
      [] p = "rejected" -> "away"
      [] p = "admitting" -> "let in"
      [] p = "upgrading" -> "held"
      [] p \in InSession -> "open"
      [] p \in {"freed", "done"} -> "over"

standing == [r \in Requests |-> PlaceOf(at[r])]
run == [r \in Requests |-> [s \in Streams |->
           IF stream[r][s] = "leaving" THEN "over" ELSE stream[r][s]]]

Promise == INSTANCE Admission WITH
    closed <- closing, found <- served, stopped <- (shutdown = "complete")

(* Every step of the gateway is one of Admission or changes nothing it      *)
(* speaks of: slots and places are refused only when all are taken, none    *)
(* is taken beyond the limit, a session ends only with its streams, nobody  *)
(* is let in behind Shutdown, and Shutdown reports success only for         *)
(* sessions that are over (server.go:50-179).                               *)
ImplementsAdmission == Promise!Spec

(* A slot comes back: whatever the client does or fails to do, a session    *)
(* ends within its deadlines and its goroutine with it (server.go:92-167).  *)
SlotComesBack == \A r \in Requests : at[r] = "upgrading" ~> at[r] \in {"done", "rejected"}

(* Shutdown ends every session, and then returns (server.go:168-179).       *)
ShutdownEnds ==
    closing ~> /\ shutdown \in {"complete", "timedOut"}
               /\ \A r \in served : at[r] = "done"
=============================================================================
