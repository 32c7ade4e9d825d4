----------------------------- MODULE Transport -----------------------------
(***************************************************************************)
(* The shared session of packages/client/src/transport.ts and the life of  *)
(* the sockets of socket.ts that ride on it: lazy establishment, the       *)
(* promise every waiter shares, the backoff, the control handshake, the    *)
(* connection limit, the loss of the session and close().                  *)
(*                                                                         *)
(* JavaScript runs one callback at a time, so an action is everything the  *)
(* code does between two awaits.  A socket calls connect() once (socket.ts *)
(* refuses a second call), hence starts at most one session: the session a *)
(* socket starts is named after the socket, and `link' holds its life from *)
(* the call of connectSession() to the end of the browser's WebTransport.  *)
(* What socket.ts does with bytes is in module SocketQueue.                *)
(***************************************************************************)
EXTENDS Naturals, FiniteSets

CONSTANTS
    Sockets,            \* the sockets the application creates
    MaxConnections,     \* options.maxConnections
    None                \* `undefined' where a session or a promise may be

ASSUME SocketsAssumption == IsFiniteSet(Sockets)
ASSUME NoneAssumption == None \notin Sockets
ASSUME LimitAssumption == MaxConnections \in Nat \ {0}

VARIABLES
    pc,             \* where each socket's open() stands
    using,          \* the session each pending or open socket rides on
    destroyed,      \* socket.destroyed (closeEmitted is set with it)
    sockets,        \* this.sockets: the connections counted by the limit
    link,           \* the session attempt started by each socket
    connecting,     \* this.connecting: whose attempt new opens wait for
    session,        \* this.session
    sessionId,      \* this.sessionId
    status,         \* this.status
    terminal,       \* this.terminal
    failures,       \* this.failures
    generation      \* this.generation (totalSessions is always equal to it)

socketVars  == <<pc, using, destroyed, sockets>>
sessionVars == <<link, connecting, session, sessionId, status, terminal,
                 failures, generation>>
vars == <<pc, using, destroyed, sockets, link, connecting, session,
          sessionId, status, terminal, failures, generation>>

(* "new" before connect(); "session" awaiting ensureSession(); "stream"     *)
(* awaiting createBidirectionalStream(); "adopt" the stream is returned and *)
(* open() has not resumed; "failed" openStream() threw and the catch of     *)
(* open() has not run; "live" connected; "refused" and "aborted" the two    *)
(* unsuccessful ends of open().                                             *)
PC == {"new", "session", "stream", "adopt", "failed", "live", "refused",
       "aborted"}

(* "backoff" and "handshake" are the awaits of connectSession(); a failed   *)
(* attempt never yields a session; "open", "lost" (its closed promise has   *)
(* settled, sessionFailed() has not run) and "closed" are sessions.         *)
Link == {"none", "backoff", "handshake", "failed", "open", "lost", "closed"}
Running     == {"backoff", "handshake"}
Established == {"open", "lost", "closed"}

Status == {"idle", "backoff", "connecting", "ready", "closed"}

Init ==
    /\ pc = [s \in Sockets |-> "new"]
    /\ using = [s \in Sockets |-> None]
    /\ destroyed = [s \in Sockets |-> FALSE]
    /\ sockets = {}
    /\ link = [s \in Sockets |-> "none"]
    /\ connecting = None
    /\ session = None
    /\ sessionId = None
    /\ status = "idle"
    /\ terminal = FALSE
    /\ failures = 0
    /\ generation = 0
-----------------------------------------------------------------------------
(* The helpers the handlers share.  The definitions whose name ends in      *)
(* _Mutant are wrong on purpose: each replaces the definition after it to   *)
(* show that a property notices.                                            *)

(* ensureSession(): the session or the attempt an open waits for, if any.  *)
Shared == IF session # None THEN session ELSE connecting

(* noteFailure(): the status a failure leaves behind.                      *)
FailureStatus_StaleMutant(closed) == "ready"
FailureStatus(closed) == IF closed THEN "closed" ELSE "idle"

(* The sockets that sessionFailed() and close() destroy.                   *)
Members_Mutant == {}
Members == sockets

(* destroy() of a set of sockets: only the first call of each has effects, *)
(* and one of them is release().                                           *)
Released_Mutant(victims) == sockets
Released(victims) == sockets \ {s \in victims : ~destroyed[s]}

DestroyAll(victims) ==
    /\ destroyed' = [s \in Sockets |-> destroyed[s] \/ s \in victims]
    /\ sockets' = Released(victims)

(* The promise of the attempt has settled and, when it is not the caller's *)
(* own, the owner's `finally' has run: its continuation was queued first.  *)
Settled(s) == connecting = s \/ connecting # using[s]

ClearedBy(s) == IF connecting = s THEN None ELSE connecting
-----------------------------------------------------------------------------
(* connect() and openStream() up to the first await.                       *)

OpenFails(s) ==
    /\ pc' = [pc EXCEPT ![s] = "failed"]
    /\ UNCHANGED <<using, destroyed, sockets, sessionVars>>

OpenShares(s) ==
    /\ Shared # None
    /\ pc' = [pc EXCEPT ![s] = "session"]
    /\ using' = [using EXCEPT ![s] = Shared]
    /\ UNCHANGED <<destroyed, sockets, sessionVars>>

(* connectSession() calls the factory outside its try block: when the      *)
(* factory throws, the promise rejects and nothing else happens.           *)
DialOutcome == {"handshake", "failed"}

OpenStarts(s) ==
    /\ Shared = None
    /\ pc' = [pc EXCEPT ![s] = "session"]
    /\ using' = [using EXCEPT ![s] = s]
    /\ connecting' = s
    /\ \/ /\ failures > 0
          /\ link' = [link EXCEPT ![s] = "backoff"]
          /\ status' = "backoff"
       \/ \E outcome \in DialOutcome :
             link' = [link EXCEPT ![s] = outcome] /\ status' = "connecting"
    /\ UNCHANGED <<destroyed, sockets, session, sessionId, terminal, failures,
                   generation>>

Open(s) ==
    /\ pc[s] = "new"
    /\ IF terminal \/ Cardinality(sockets) >= MaxConnections
       THEN OpenFails(s)
       ELSE OpenShares(s) \/ OpenStarts(s)
-----------------------------------------------------------------------------
(* connectSession() after each of its awaits.                              *)

BackoffElapsed_Mutant(o) ==
    /\ link[o] = "backoff"
    /\ ~terminal
    /\ \E outcome \in DialOutcome : link' = [link EXCEPT ![o] = outcome]
    /\ status' = "connecting"
    /\ UNCHANGED <<socketVars, connecting, session, sessionId, terminal,
                   failures, generation>>

BackoffElapsed(o) ==
    /\ link[o] = "backoff"
    /\ \E outcome \in DialOutcome : link' = [link EXCEPT ![o] = outcome]
    /\ status' = "connecting"
    /\ UNCHANGED <<socketVars, connecting, session, sessionId, terminal,
                   failures, generation>>

HandshakeOk(o) ==
    /\ link[o] = "handshake"
    /\ link' = [link EXCEPT ![o] = "open"]
    /\ session' = o
    /\ sessionId' = o
    /\ generation' = generation + 1
    /\ failures' = 0
    /\ status' = "ready"
    /\ UNCHANGED <<socketVars, connecting, terminal>>

HandshakeFails(o) ==
    /\ link[o] = "handshake"
    /\ link' = [link EXCEPT ![o] = "failed"]
    /\ failures' = failures + 1
    /\ status' = FailureStatus(terminal)
    /\ UNCHANGED <<socketVars, connecting, session, sessionId, terminal,
                   generation>>

(* The await of ensureSession() returns, or throws.                        *)
SessionReady(s) ==
    /\ pc[s] = "session"
    /\ link[using[s]] \in Established
    /\ Settled(s)
    /\ pc' = [pc EXCEPT ![s] = "stream"]
    /\ connecting' = ClearedBy(s)
    /\ UNCHANGED <<using, destroyed, sockets, link, session, sessionId,
                   status, terminal, failures, generation>>

SessionUnavailable(s) ==
    /\ pc[s] = "session"
    /\ link[using[s]] = "failed"
    /\ Settled(s)
    /\ pc' = [pc EXCEPT ![s] = "failed"]
    /\ connecting' = ClearedBy(s)
    /\ UNCHANGED <<using, destroyed, sockets, link, session, sessionId,
                   status, terminal, failures, generation>>

(* The await of createBidirectionalStream() returns, or throws.            *)
StreamCreated(s) ==
    /\ pc[s] = "stream"
    /\ link[using[s]] = "open"
    /\ pc' = [pc EXCEPT ![s] = "adopt"]
    /\ sockets' = sockets \cup {s}
    /\ UNCHANGED <<using, destroyed, sessionVars>>

StreamRefused(s) ==
    /\ pc[s] = "stream"
    /\ pc' = [pc EXCEPT ![s] = "failed"]
    /\ UNCHANGED <<using, destroyed, sockets, sessionVars>>

(* open() resumes: a socket destroyed meanwhile aborts its stream and      *)
(* returns; it does not release its place in `sockets'.                    *)
Adopt(s) ==
    /\ pc[s] = "adopt"
    /\ pc' = [pc EXCEPT ![s] = IF destroyed[s] THEN "aborted" ELSE "live"]
    /\ UNCHANGED <<using, destroyed, sockets, sessionVars>>

OpenRejected(s) ==
    /\ pc[s] = "failed"
    /\ pc' = [pc EXCEPT ![s] = "refused"]
    /\ DestroyAll({s})
    /\ UNCHANGED <<using, sessionVars>>
-----------------------------------------------------------------------------
(* The end of a socket, of the session, of the transport.                  *)

(* readLoop() sees the end of the stream, or an error of it.               *)
ReadLoopEnds(s) ==
    /\ pc[s] = "live"
    /\ ~destroyed[s]
    /\ DestroyAll({s})
    /\ UNCHANGED <<pc, using, sessionVars>>

Destroy(s) ==
    /\ ~destroyed[s]
    /\ DestroyAll({s})
    /\ UNCHANGED <<pc, using, sessionVars>>

(* The browser settles session.closed: the network or the gateway ended it. *)
SessionLost(o) ==
    /\ link[o] = "open"
    /\ link' = [link EXCEPT ![o] = "lost"]
    /\ UNCHANGED <<socketVars, connecting, session, sessionId, status,
                   terminal, failures, generation>>

(* sessionFailed(), queued by the settled promise.                         *)
SessionFailed(o) ==
    /\ link[o] = "lost"
    /\ link' = [link EXCEPT ![o] = "closed"]
    /\ IF session = None \/ terminal
       THEN UNCHANGED <<destroyed, sockets, session, sessionId, status,
                        failures>>
       ELSE /\ session' = None
            /\ sessionId' = None
            /\ failures' = failures + 1
            /\ status' = FailureStatus(terminal)
            /\ DestroyAll(Members)
    /\ UNCHANGED <<pc, using, connecting, terminal, generation>>

(* close() may be called again: a session that an attempt under way at the *)
(* first call has produced since is closed by the second.                  *)
Close ==
    /\ terminal' = TRUE
    /\ status' = "closed"
    /\ session' = None
    /\ DestroyAll(Members)
    /\ link' = [o \in Sockets |->
                  IF o = session /\ link[o] = "open" THEN "closed" ELSE link[o]]
    /\ UNCHANGED <<pc, using, connecting, sessionId, failures, generation>>
-----------------------------------------------------------------------------
Application(s) == Open(s) \/ Destroy(s)

SocketStep(s) ==
    \/ SessionReady(s)
    \/ SessionUnavailable(s)
    \/ StreamCreated(s)
    \/ StreamRefused(s)
    \/ Adopt(s)
    \/ OpenRejected(s)
    \/ ReadLoopEnds(s)

SessionStep(o) ==
    \/ BackoffElapsed(o)
    \/ HandshakeOk(o)
    \/ HandshakeFails(o)
    \/ SessionLost(o)
    \/ SessionFailed(o)

Next ==
    \/ Close
    \/ \E s \in Sockets : Application(s) \/ SocketStep(s) \/ SessionStep(s)

Spec == Init /\ [][Next]_vars

(* Continuations of settled promises and timers always run.                *)
Scheduling ==
    \A s \in Sockets :
        /\ WF_vars(SessionReady(s) \/ SessionUnavailable(s))
        /\ WF_vars(Adopt(s))
        /\ WF_vars(OpenRejected(s))
        /\ WF_vars(BackoffElapsed(s))
        /\ WF_vars(SessionFailed(s))

(* The browser and the gateway settle what the client awaits: the gateway  *)
(* bounds the control handshake with deadlines, the browser rejects the    *)
(* pending calls of a session that has gone.                               *)
Answers ==
    \A s \in Sockets :
        /\ WF_vars(HandshakeOk(s) \/ HandshakeFails(s))
        /\ WF_vars(StreamCreated(s) \/ StreamRefused(s))

FairSpec == Spec /\ Scheduling /\ Answers
-----------------------------------------------------------------------------
(* Every variable keeps its type: in particular an open that waits always  *)
(* waits for a session someone has started (transport.ts:66-75).           *)
TypeOK ==
    /\ pc \in [Sockets -> PC]
    /\ using \in [Sockets -> Sockets \cup {None}]
    /\ \A s \in Sockets :
          pc[s] \in {"session", "stream", "adopt", "live"} => using[s] # None
    /\ destroyed \in [Sockets -> BOOLEAN]
    /\ sockets \in SUBSET Sockets
    /\ link \in [Sockets -> Link]
    /\ connecting \in Sockets \cup {None}
    /\ session \in Sockets \cup {None}
    /\ sessionId \in Sockets \cup {None}
    /\ status \in Status
    /\ terminal \in BOOLEAN
    /\ failures \in Nat
    /\ generation \in Nat

(* However many sockets open at once, and whatever fails or is closed       *)
(* meanwhile, at most one WebTransport session is being set up or open      *)
(* (ensureSession, transport.ts:66-75).                                     *)
OneSession ==
    \A o, p \in Sockets :
        {link[o], link[p]} \subseteq Running \cup {"open"} => o = p

(* A connection that is not destroyed rides on the current session: none    *)
(* outlives the session it was opened on, even one whose stream was being   *)
(* created when the session was lost (sessionFailed, transport.ts:134-140). *)
MembersOnCurrentSession ==
    \A s \in sockets : ~destroyed[s] => using[s] # None /\ using[s] = session

(* The limit counts exactly the connected sockets among those whose open()  *)
(* succeeded (release, transport.ts:62-64; finishClose, socket.ts:158-165). *)
CountedIffLive ==
    \A s \in Sockets : pc[s] = "live" => (s \in sockets <=> ~destroyed[s])

(* Until close(), `state' tells the truth about the session: it is ready    *)
(* exactly when there is one, the id is that session's, and a failure is    *)
(* remembered only while there is none (the backoff of the next attempt     *)
(* rests on it).  transport.ts:34-43, 77-146.                               *)
StateTellsSession ==
    ~terminal =>
        /\ status = "ready" <=> session # None
        /\ sessionId = session
        /\ session # None => failures = 0

(* The connection limit as docs/architecture.md:3 states it: the transport  *)
(* owns "the client-side connection limit".  openStream (transport.ts:53)   *)
(* checks it two awaits before it adds the socket: the code violates it.    *)
ConnectionLimit == Cardinality(sockets) <= MaxConnections

(* After close() nothing is left of the session: "changing connection       *)
(* settings atomically replaces and cleans up" the transport                *)
(* (react-pg.tsx:50).  An attempt under way at close() still makes its      *)
(* session current, and the transport ready (transport.ts:115-120).         *)
ClosedHasNoSession == terminal => session = None

(* Every open() comes to an end, connected or destroyed: nobody waits for a *)
(* promise that is never settled, whichever way the attempt it shares ends  *)
(* (transport.ts:66-132).                                                   *)
OpenSettles ==
    \A s \in Sockets :
        pc[s] = "session" ~> pc[s] \in {"live", "refused", "aborted"}

(* "A lost WebTransport session fails all member connections"               *)
(* (docs/architecture.md:13; sessionFailed, transport.ts:134-140).          *)
SessionLossReachesMembers ==
    \A s \in Sockets :
        (~terminal /\ pc[s] \in {"adopt", "live"} /\ link[using[s]] = "lost")
            ~> destroyed[s]
-----------------------------------------------------------------------------
(* The transport implements SharedSession: `current' is this.session, the   *)
(* members are the counted sockets that are not destroyed.                  *)
Promise == INSTANCE SharedSession WITH
    Ids     <- Sockets,
    None    <- None,
    current <- session,
    used    <- {o \in Sockets : link[o] \in Established},
    members <- {s \in sockets : ~destroyed[s]},
    gone    <- {s \in Sockets : /\ pc[s] \in {"adopt", "live", "aborted"}
                                /\ destroyed[s]
                                /\ s \notin sockets}

(* Sessions replace one another and never return, members join the current  *)
(* session and fall with it, for every interleaving of opens, losses,       *)
(* destroys and close() (transport.ts:45-160).                              *)
ImplementsSharedSession == Promise!Spec
=============================================================================
