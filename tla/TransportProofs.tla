-------------------------- MODULE TransportProofs --------------------------
(***************************************************************************)
(* Theorems about Transport, for every set of sockets and every limit.     *)
(*                                                                         *)
(* The safety invariants are not inductive by themselves: OneSession rests *)
(* on `connecting' naming the one attempt under way and on no session      *)
(* being current meanwhile, MembersOnCurrentSession on a session that is   *)
(* open being the current one.  IInv says so.                              *)
(***************************************************************************)
EXTENDS Transport, TLAPS

(* ensureSession(): an attempt under way is the one `connecting' names, and *)
(* the socket that owns it still waits for it.                              *)
ConnectingInv ==
    /\ \A o \in Sockets : link[o] \in Running => connecting = o /\ session = None
    /\ \A s \in Sockets : connecting = s => pc[s] = "session" /\ using[s] = s
    /\ \A s \in Sockets : pc[s] = "new" => link[s] = "none"

(* connectSession(), sessionFailed(), close(): an open session is current.  *)
SessionInv ==
    /\ session # None => link[session] \in Established
    /\ \A o \in Sockets : link[o] = "open" => session = o
    /\ \A o \in Sockets : ~terminal /\ link[o] = "lost" => session = o

(* openStream(), release(): who is counted.                                 *)
MemberInv ==
    /\ \A s \in sockets : pc[s] \in {"adopt", "live", "aborted"}
    /\ \A s \in Sockets :
          pc[s] \in {"adopt", "live"} /\ ~destroyed[s] => s \in sockets
    /\ \A s \in Sockets : pc[s] = "aborted" => destroyed[s]

IInv ==
    /\ TypeOK
    /\ ConnectingInv
    /\ SessionInv
    /\ MemberInv
    /\ MembersOnCurrentSession
    /\ CountedIffLive
    /\ StateTellsSession
-----------------------------------------------------------------------------
USE NoneAssumption

LEMMA InitIInv == Init => IInv
<1> SUFFICES ASSUME Init PROVE IInv
  OBVIOUS
<1> USE DEF Init
<1>1. TypeOK
  BY DEF TypeOK, PC, Link, Status
<1>2. ConnectingInv /\ SessionInv
  BY DEF ConnectingInv, SessionInv, Running
<1>3. MemberInv /\ MembersOnCurrentSession /\ CountedIffLive /\ StateTellsSession
  BY DEF MemberInv, MembersOnCurrentSession, CountedIffLive, StateTellsSession
<1> QED
  BY <1>1, <1>2, <1>3 DEF IInv

(* connect() up to its first await keeps the invariant (openStream,         *)
(* ensureSession, and connectSession up to its first await).                *)
LEMMA OpenIInv ==
  ASSUME IInv, NEW s \in Sockets, Open(s)
  PROVE  IInv'
<1> USE DEF IInv, TypeOK, PC, Link, Status, ConnectingInv, SessionInv, Running,
            Established, MemberInv, MembersOnCurrentSession, CountedIffLive,
            StateTellsSession, sessionVars
<1>1. CASE OpenFails(s)
  BY <1>1, SMT DEF OpenFails, Open
<1>2. CASE OpenShares(s)
  BY <1>2, SMT DEF OpenShares, Open, Shared
<1>3. CASE OpenStarts(s)
  BY <1>3, SMT DEF OpenStarts, Open, Shared, DialOutcome
<1> QED
  BY <1>1, <1>2, <1>3 DEF Open

(* What destroy() of a set of sockets does: it destroys them all, and       *)
(* releases those that were not destroyed yet.                              *)
LEMMA DestroyAllFacts ==
  ASSUME TypeOK, NEW victims \in SUBSET Sockets, DestroyAll(victims)
  PROVE  /\ destroyed' \in [Sockets -> BOOLEAN]
         /\ sockets' \in SUBSET Sockets
         /\ \A s \in Sockets : destroyed'[s] <=> destroyed[s] \/ s \in victims
         /\ \A s \in Sockets :
               s \in sockets' <=> s \in sockets /\ (s \notin victims \/ destroyed[s])
BY DEF TypeOK, DestroyAll, Released

(* connectSession() and sessionFailed(): the callbacks of one attempt.      *)
LEMMA SessionIInv ==
  ASSUME IInv, NEW o \in Sockets, SessionStep(o)
  PROVE  IInv'
<1> USE DEF IInv, TypeOK, PC, Link, Status, ConnectingInv, SessionInv, Running,
            Established, MemberInv, MembersOnCurrentSession, CountedIffLive,
            StateTellsSession, socketVars
<1>1. CASE BackoffElapsed(o)
  BY <1>1, SMT DEF BackoffElapsed, DialOutcome
<1>2. CASE HandshakeOk(o)
  BY <1>2, SMT DEF HandshakeOk
<1>3. CASE HandshakeFails(o)
  BY <1>3, SMT DEF HandshakeFails, FailureStatus
<1>4. CASE SessionLost(o)
  BY <1>4, SMT DEF SessionLost
<1>5. CASE SessionFailed(o)
  <2>1. CASE session = None \/ terminal
    BY <1>5, <2>1, SMT DEF SessionFailed
  <2>2. CASE ~(session = None \/ terminal)
    <3>1. DestroyAll(sockets) /\ sockets \in SUBSET Sockets
      BY <1>5, <2>2 DEF SessionFailed, Members
    <3> QED
      BY <1>5, <2>2, <3>1, DestroyAllFacts, SMT DEF SessionFailed, FailureStatus
  <2> QED
    BY <2>1, <2>2
<1> QED
  BY <1>1, <1>2, <1>3, <1>4, <1>5 DEF SessionStep

(* The continuations of open() and openStream(), and the read loop.         *)
LEMMA SocketIInv ==
  ASSUME IInv, NEW s \in Sockets, SocketStep(s)
  PROVE  IInv'
<1> USE DEF IInv, TypeOK, PC, Link, Status, ConnectingInv, SessionInv, Running,
            Established, MemberInv, MembersOnCurrentSession, CountedIffLive,
            StateTellsSession, sessionVars
<1>1. CASE SessionReady(s)
  BY <1>1, SMT DEF SessionReady, ClearedBy
<1>2. CASE SessionUnavailable(s)
  BY <1>2, SMT DEF SessionUnavailable, ClearedBy
<1>3. CASE StreamCreated(s)
  BY <1>3, SMT DEF StreamCreated
<1>4. CASE StreamRefused(s)
  BY <1>4, SMT DEF StreamRefused
<1>5. CASE Adopt(s)
  BY <1>5, SMT DEF Adopt
<1>6. CASE OpenRejected(s)
  BY <1>6, DestroyAllFacts, SMT DEF OpenRejected
<1>7. CASE ReadLoopEnds(s)
  BY <1>7, DestroyAllFacts, SMT DEF ReadLoopEnds
<1> QED
  BY <1>1, <1>2, <1>3, <1>4, <1>5, <1>6, <1>7 DEF SocketStep

LEMMA DestroyIInv ==
  ASSUME IInv, NEW s \in Sockets, Destroy(s)
  PROVE  IInv'
BY DestroyAllFacts, SMT DEF IInv, TypeOK, ConnectingInv, SessionInv, MemberInv,
   MembersOnCurrentSession, CountedIffLive, StateTellsSession, sessionVars, Destroy

LEMMA CloseIInv ==
  ASSUME IInv, Close
  PROVE  IInv'
<1>1. DestroyAll(sockets) /\ sockets \in SUBSET Sockets
  BY DEF Close, Members, IInv, TypeOK
<1>2. /\ TypeOK
      /\ destroyed' \in [Sockets -> BOOLEAN]
      /\ sockets' = {s \in sockets : destroyed[s]}
      /\ \A s \in Sockets : destroyed'[s] <=> destroyed[s] \/ s \in sockets
  BY <1>1, DestroyAllFacts DEF IInv
<1> QED
  BY <1>2, SMT DEF IInv, TypeOK, Link, Status, ConnectingInv, SessionInv,
     Running, Established, MemberInv, MembersOnCurrentSession, CountedIffLive,
     StateTellsSession, Close

LEMMA StutterIInv ==
  ASSUME IInv, UNCHANGED vars
  PROVE  IInv'
BY DEF IInv, TypeOK, ConnectingInv, SessionInv, MemberInv,
   MembersOnCurrentSession, CountedIffLive, StateTellsSession, vars

(* Every reachable state satisfies the inductive invariant.                 *)
THEOREM Invariance == Spec => []IInv
<1>1. Init => IInv
  BY InitIInv
<1>2. IInv /\ [Next]_vars => IInv'
  BY OpenIInv, SessionIInv, SocketIInv, DestroyIInv, CloseIInv, StutterIInv
     DEF Next, Application
<1> QED
  BY <1>1, <1>2, PTL DEF Spec

(* Type correctness of the transport.                                       *)
THEOREM TypeCorrect == Spec => []TypeOK
<1>1. IInv => TypeOK
  BY DEF IInv
<1> QED
  BY <1>1, Invariance, PTL

(* However many sockets open, at most one session is set up or open at a    *)
(* time (ensureSession, transport.ts:66-75).                                *)
THEOREM OneSessionTheorem == Spec => []OneSession
<1>1. IInv => OneSession
  BY SMT DEF IInv, ConnectingInv, SessionInv, OneSession, Running
<1> QED
  BY <1>1, Invariance, PTL

(* No connection outlives its session (sessionFailed, transport.ts:134-140). *)
THEOREM MembersTheorem == Spec => []MembersOnCurrentSession
<1>1. IInv => MembersOnCurrentSession
  BY DEF IInv
<1> QED
  BY <1>1, Invariance, PTL

(* The limit counts exactly the connected sockets among those whose open()  *)
(* succeeded (release, transport.ts:62-64).                                 *)
THEOREM CountedTheorem == Spec => []CountedIffLive
<1>1. IInv => CountedIffLive
  BY DEF IInv
<1> QED
  BY <1>1, Invariance, PTL

(* Until close() the public state tells the truth about the session         *)
(* (transport.ts:34-43).                                                    *)
THEOREM StateTheorem == Spec => []StateTellsSession
<1>1. IInv => StateTellsSession
  BY DEF IInv
<1> QED
  BY <1>1, Invariance, PTL-----------------------------------------------------------------------------
(* Refinement: each action is a step of SharedSession, or changes nothing   *)
(* SharedSession speaks of.                                                 *)
used    == {o \in Sockets : link[o] \in Established}
members == {s \in sockets : ~destroyed[s]}
gone    == {s \in Sockets : /\ pc[s] \in {"adopt", "live", "aborted"}
                            /\ destroyed[s]
                            /\ s \notin sockets}
promise == <<session, used, members, gone>>

(* Destroying sockets that are not counted is invisible.                    *)
LEMMA DestroyPromise ==
  ASSUME IInv, NEW s \in Sockets, DestroyAll({s}),
         UNCHANGED <<link, session>>,
         \A p \in Sockets \ {s} : pc'[p] = pc[p],
         pc'[s] = pc[s] \/ (pc[s] = "failed" /\ pc'[s] = "refused")
  PROVE  Promise!Leave(s) \/ UNCHANGED promise
<1>0. TypeOK /\ MemberInv
  BY DEF IInv
<1>1. /\ destroyed' \in [Sockets -> BOOLEAN]
      /\ sockets' \in SUBSET Sockets
      /\ \A p \in Sockets : destroyed'[p] <=> destroyed[p] \/ p = s
      /\ \A p \in Sockets :
            p \in sockets' <=> p \in sockets /\ (p # s \/ destroyed[p])
  BY <1>0, DestroyAllFacts
<1>2. UNCHANGED <<session, used>>
  BY DEF used
<1>3. CASE s \in members
  <2>1. members' = members \ {s}
    BY <1>1, <1>3, <1>0, SMT DEF members, TypeOK
  <2>2. gone' = gone \cup {s}
    BY <1>1, <1>3, <1>0, SMT DEF members, gone, TypeOK, MemberInv
  <2> QED
    BY <1>2, <1>3, <2>1, <2>2 DEF Promise!Leave, used, members, gone
<1>4. CASE s \notin members
  <2>1. members' = members
    BY <1>1, <1>4, <1>0, SMT DEF members, TypeOK
  <2>2. gone' = gone
    BY <1>1, <1>4, <1>0, SMT DEF members, gone, TypeOK, MemberInv
  <2> QED
    BY <1>2, <2>1, <2>2 DEF promise
<1> QED
  BY <1>3, <1>4

(* sessionFailed() and close() of the current session lose it at once.      *)
LEMMA LosePromise ==
  ASSUME IInv, DestroyAll(sockets), UNCHANGED <<pc, used>>, session' = None
  PROVE  Promise!Lose \/ UNCHANGED promise
<1>0. TypeOK /\ MemberInv /\ MembersOnCurrentSession
  BY DEF IInv
<1>1. /\ sockets \in SUBSET Sockets
      /\ destroyed' \in [Sockets -> BOOLEAN]
      /\ sockets' \in SUBSET Sockets
      /\ \A p \in Sockets : destroyed'[p] <=> destroyed[p] \/ p \in sockets
      /\ \A p \in Sockets : p \in sockets' <=> p \in sockets /\ destroyed[p]
  <2>1. sockets \in SUBSET Sockets
    BY <1>0 DEF TypeOK
  <2> QED
    BY <1>0, <2>1, DestroyAllFacts
<1>2. members' = {}
  BY <1>1, <1>0, SMT DEF members, TypeOK
<1>3. gone' = gone \cup members
  BY <1>1, <1>0, SMT DEF members, gone, TypeOK, MemberInv
<1>4. CASE session # None
  BY <1>2, <1>3, <1>4 DEF Promise!Lose, used, members, gone
<1>5. CASE session = None
  <2>1. members = {}
    BY <1>0, <1>5 DEF members, MembersOnCurrentSession
  <2> QED
    BY <1>2, <1>3, <1>5, <2>1 DEF promise
<1> QED
  BY <1>4, <1>5

LEMMA SessionStepPromise ==
  ASSUME IInv, NEW o \in Sockets, SessionStep(o)
  PROVE  Promise!Next \/ UNCHANGED promise
<1>0. TypeOK /\ ConnectingInv
  BY DEF IInv
<1>1. CASE BackoffElapsed(o) \/ HandshakeFails(o)
  <2>1. UNCHANGED <<pc, destroyed, sockets, session>>
    BY <1>1 DEF BackoffElapsed, HandshakeFails, socketVars
  <2>2. used' = used
    BY <1>0, <1>1, SMT DEF BackoffElapsed, HandshakeFails, DialOutcome, used,
       Established, TypeOK
  <2> QED
    BY <2>1, <2>2 DEF promise, members, gone
<1>2. CASE HandshakeOk(o)
  <2>1. UNCHANGED <<pc, destroyed, sockets>> /\ session' = o
    BY <1>2 DEF HandshakeOk, socketVars
  <2>2. used' = used \cup {o} /\ o \notin used
    BY <1>0, <1>2, SMT DEF HandshakeOk, used, Established, TypeOK
  <2>3. session = None
    BY <1>0, <1>2 DEF HandshakeOk, ConnectingInv, Running
  <2>4. Promise!Establish(o)
    BY <2>1, <2>2, <2>3 DEF Promise!Establish, used, members, gone
  <2> QED
    BY <2>4 DEF Promise!Next
<1>3. CASE SessionLost(o)
  <2>1. UNCHANGED <<pc, destroyed, sockets, session>>
    BY <1>3 DEF SessionLost, socketVars
  <2>2. used' = used
    BY <1>0, <1>3, SMT DEF SessionLost, used, Established, TypeOK
  <2> QED
    BY <2>1, <2>2 DEF promise, members, gone
<1>4. CASE SessionFailed(o)
  <2>1. used' = used /\ pc' = pc
    BY <1>0, <1>4, SMT DEF SessionFailed, used, Established, TypeOK
  <2>2. CASE session = None \/ terminal
    BY <1>4, <2>1, <2>2 DEF SessionFailed, promise, members, gone
  <2>3. CASE ~(session = None \/ terminal)
    <3>1. DestroyAll(sockets) /\ session' = None
      BY <1>4, <2>3 DEF SessionFailed, Members
    <3> QED
      BY <2>1, <3>1, LosePromise DEF Promise!Next
  <2> QED
    BY <2>2, <2>3
<1> QED
  BY <1>1, <1>2, <1>3, <1>4 DEF SessionStep

LEMMA SocketStepPromise ==
  ASSUME IInv, NEW s \in Sockets, Application(s) \/ SocketStep(s)
  PROVE  Promise!Next \/ UNCHANGED promise
<1>0. TypeOK /\ SessionInv /\ MemberInv /\ ConnectingInv
  BY DEF IInv
<1>1. CASE Open(s)
  <2>1. UNCHANGED <<destroyed, sockets, session>>
    BY <1>1 DEF Open, OpenFails, OpenShares, OpenStarts, sessionVars
  <2>2. used' = used
    BY <1>0, <1>1, SMT DEF Open, OpenFails, OpenShares, OpenStarts, sessionVars,
       DialOutcome, used, Established, TypeOK, ConnectingInv
  <2>3. gone' = gone
    BY <1>0, <1>1, <2>1, SMT DEF Open, OpenFails, OpenShares, OpenStarts, gone,
       TypeOK
  <2> QED
    BY <2>1, <2>2, <2>3 DEF promise, members
<1>2. CASE SessionReady(s) \/ SessionUnavailable(s) \/ StreamRefused(s) \/ Adopt(s)
  <2>1. UNCHANGED <<destroyed, sockets, session, link>>
    BY <1>2 DEF SessionReady, SessionUnavailable, StreamRefused, Adopt, sessionVars
  <2>2. gone' = gone
    BY <1>0, <1>2, <2>1, SMT DEF SessionReady, SessionUnavailable, StreamRefused,
       Adopt, gone, TypeOK
  <2> QED
    BY <2>1, <2>2 DEF promise, members, used
<1>3. CASE StreamCreated(s)
  <2>1. /\ UNCHANGED <<destroyed, session, used>>
        /\ sockets' = sockets \cup {s}
        /\ pc' = [pc EXCEPT ![s] = "adopt"]
        /\ pc[s] = "stream"
    BY <1>3 DEF StreamCreated, sessionVars, used
  <2>2. session # None
    BY <1>0, <1>3 DEF StreamCreated, SessionInv, TypeOK
  <2>3. gone' = gone
    BY <1>0, <2>1, SMT DEF gone, TypeOK
  <2>4. CASE destroyed[s]
    BY <2>1, <2>3, <2>4 DEF promise, members
  <2>5. CASE ~destroyed[s]
    <3>1. members' = members \cup {s}
      BY <2>1, <2>5 DEF members
    <3>2. s \notin members \cup gone
      BY <1>0, <2>1, SMT DEF members, gone, MemberInv
    <3>3. Promise!Join(s)
      BY <2>1, <2>2, <2>3, <3>1, <3>2 DEF Promise!Join, used, members, gone
    <3> QED
      BY <3>3 DEF Promise!Next
  <2> QED
    BY <2>4, <2>5
<1>4. CASE OpenRejected(s) \/ ReadLoopEnds(s) \/ Destroy(s)
  <2>1. /\ DestroyAll({s})
        /\ UNCHANGED <<link, session>>
        /\ \A p \in Sockets \ {s} : pc'[p] = pc[p]
        /\ pc'[s] = pc[s] \/ (pc[s] = "failed" /\ pc'[s] = "refused")
    BY <1>0, <1>4, SMT DEF OpenRejected, ReadLoopEnds, Destroy, sessionVars, TypeOK
  <2> QED
    BY <2>1, DestroyPromise DEF Promise!Next
<1> QED
  BY <1>1, <1>2, <1>3, <1>4 DEF Application, SocketStep

(* The transport implements SharedSession (transport.ts:45-160).            *)
THEOREM Refinement == Spec => ImplementsSharedSession
<1>1. Init => Promise!Init
  BY DEF Init, Promise!Init, Established
<1>2. IInv /\ [Next]_vars => [Promise!Next]_(Promise!vars)
  <2> SUFFICES ASSUME IInv, [Next]_vars
               PROVE  Promise!Next \/ UNCHANGED Promise!vars
    OBVIOUS
  <2>0. UNCHANGED promise => UNCHANGED Promise!vars
    BY DEF promise, Promise!vars, used, members, gone
  <2>1. CASE Close
    <3>1. DestroyAll(sockets) /\ session' = None /\ pc' = pc
      BY <2>1 DEF Close, Members
    <3>2. used' = used
      BY <2>1, SMT DEF Close, used, Established, IInv, TypeOK
    <3> QED
      BY <2>0, <3>1, <3>2, LosePromise DEF Promise!Next
  <2>2. CASE UNCHANGED vars
    BY <2>2 DEF vars, Promise!vars
  <2>3. CASE \E s \in Sockets : Application(s) \/ SocketStep(s) \/ SessionStep(s)
    BY <2>0, <2>3, SessionStepPromise, SocketStepPromise
  <2> QED
    BY <2>1, <2>2, <2>3 DEF Next
<1> QED
  BY <1>1, <1>2, Invariance, PTL DEF Spec, ImplementsSharedSession, Promise!Spec
=============================================================================
