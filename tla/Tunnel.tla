------------------------------- MODULE Tunnel -------------------------------
(***************************************************************************)
(* One PostgreSQL connection from end to end: the socket of                *)
(* packages/client/src/socket.ts at one end of a data stream, proxy.Run of *)
(* gateway/internal/proxy/proxy.go at the other, and the upstream socket   *)
(* it dials.  Run has three goroutines: copyOne(upstream, stream), here    *)
(* `up', copyOne(stream, upstream), here `down', and the main one, which   *)
(* waits for their results on errch and for the context of the session.    *)
(*                                                                         *)
(* Chunks are numbers, in the order they are sent.  QUIC and TCP deliver   *)
(* in order; what fails is a stream (reset, stopped), a session or the     *)
(* upstream connection, at any moment.                                     *)
(***************************************************************************)
EXTENDS Naturals, Sequences, SequencesExt

CONSTANTS
    MaxUp,      \* bound: chunks the client writes
    MaxDown     \* bound: chunks PostgreSQL sends

ASSUME BoundsAssumption == MaxUp \in Nat /\ MaxDown \in Nat

VARIABLES
    \* the client socket
    send,       \* its side of the stream: "open", "fin" or "reset"
    recv,       \* the side it reads: "open", "ended" or "cancelled"
    sentUp,     \* history: the chunks written to the stream
    gotDown,    \* history: the chunks it emitted as data
    \* the stream
    upNet,      \* chunks on their way to the gateway
    downNet,    \* chunks on their way to the client
    gwFin,      \* the gateway has called stream.Close(), which sends FIN
    \* proxy.Run
    run,        \* "dialing", "dialFailed", "copying", "halfDone", "returned"
    up, upBuf,      \* "idle", "read", "write" or "done", and the chunk held
    down, downBuf,
    errch,      \* the results sent and not yet received
    \* the upstream connection
    conn,       \* the gateway's end: "none", "open" or "closed"
    upFin,      \* the gateway has called CloseWrite()
    peer,       \* PostgreSQL's end: "open", "fin" or "reset"
    sentDown,   \* history: the chunks PostgreSQL sent
    downSock,   \* chunks the gateway has not read
    gotUp,      \* history: the chunks PostgreSQL received
    \* the session
    ctxDone,    \* the context of serveSession is done
    sessionOpen,
    faulted     \* history: something other than an orderly end happened

client   == <<send, recv, sentUp, gotDown>>
stream   == <<upNet, downNet, gwFin>>
upstream == <<conn, upFin, peer, sentDown, downSock, gotUp>>
session  == <<ctxDone, sessionOpen>>
copies   == <<up, upBuf, down, downBuf, errch>>
vars == <<client, stream, run, copies, upstream, session, faulted>>

Init ==
    /\ send = "open" /\ recv = "open" /\ sentUp = <<>> /\ gotDown = <<>>
    /\ upNet = <<>> /\ downNet = <<>> /\ gwFin = FALSE
    /\ run = "dialing"
    /\ up = "idle" /\ upBuf = <<>> /\ down = "idle" /\ downBuf = <<>>
    /\ errch = <<>>
    /\ conn = "none" /\ upFin = FALSE /\ peer = "open"
    /\ sentDown = <<>> /\ downSock = <<>> /\ gotUp = <<>>
    /\ ctxDone = FALSE /\ sessionOpen = TRUE
    /\ faulted = FALSE
-----------------------------------------------------------------------------
(* The client socket.  finishClose() at the end of the incoming side does   *)
(* not close or abort the writer (socket.ts:109-120, 158-165).              *)

ClientWrites ==
    /\ send = "open" /\ recv = "open"
    /\ Len(sentUp) < MaxUp
    /\ sentUp' = Append(sentUp, Len(sentUp) + 1)
    /\ upNet' = Append(upNet, Len(sentUp) + 1)
    /\ UNCHANGED <<send, recv, gotDown, downNet, gwFin, run, copies, upstream,
                   session, faulted>>

ClientEnds ==
    /\ send = "open"
    /\ sessionOpen
    /\ send' = "fin"
    /\ UNCHANGED <<recv, sentUp, gotDown, stream, run, copies, upstream,
                   session, faulted>>

ClientReads ==
    /\ recv = "open" /\ sessionOpen
    /\ downNet # <<>>
    /\ gotDown' = Append(gotDown, Head(downNet))
    /\ downNet' = Tail(downNet)
    /\ UNCHANGED <<send, recv, sentUp, upNet, gwFin, run, copies, upstream,
                   session, faulted>>

ClientSeesEnd ==
    /\ recv = "open" /\ sessionOpen
    /\ downNet = <<>> /\ gwFin
    /\ recv' = "ended"
    /\ UNCHANGED <<send, sentUp, gotDown, stream, run, copies, upstream, session, faulted>>

(* destroy(), or the loss of the session, which destroys the socket.        *)
ClientDestroys ==
    /\ recv = "open"
    /\ recv' = "cancelled"
    /\ send' = IF send = "open" THEN "reset" ELSE send
    /\ faulted' = TRUE
    /\ UNCHANGED <<sentUp, gotDown, stream, run, copies, upstream, session>>
-----------------------------------------------------------------------------
(* PostgreSQL.                                                              *)

PeerSends ==
    /\ conn = "open" /\ peer = "open"
    /\ Len(sentDown) < MaxDown
    /\ sentDown' = Append(sentDown, Len(sentDown) + 1)
    /\ downSock' = Append(downSock, Len(sentDown) + 1)
    /\ UNCHANGED <<client, stream, run, copies, conn, upFin, peer, gotUp,
                   session, faulted>>

(* It closes when its client is done (upFin), and may at any other time.    *)
PeerEnds ==
    /\ conn = "open" /\ peer = "open"
    /\ peer' = "fin"
    /\ UNCHANGED <<client, stream, run, copies, conn, upFin, sentDown, downSock,
                   gotUp, session, faulted>>

PeerResets ==
    /\ conn = "open" /\ peer # "reset"
    /\ peer' = "reset"
    /\ faulted' = TRUE
    /\ UNCHANGED <<client, stream, run, copies, conn, upFin, sentDown, downSock,
                   gotUp, session>>
-----------------------------------------------------------------------------
(* serveSession() and the network.                                          *)

(* SessionLifetime, or the client, or the network, ends the session.        *)
LifetimeExpires ==
    /\ ~ctxDone
    /\ ctxDone' = TRUE
    /\ faulted' = TRUE
    /\ UNCHANGED <<client, stream, run, copies, upstream, sessionOpen>>

SessionLost ==
    /\ sessionOpen
    /\ sessionOpen' = FALSE
    /\ ctxDone' = TRUE
    /\ faulted' = TRUE
    /\ UNCHANGED <<client, stream, run, copies, upstream>>

(* The deferred CloseWithError(), once every Run has returned.              *)
SessionCloses ==
    /\ sessionOpen /\ ctxDone
    /\ run \in {"returned", "dialFailed"}
    /\ sessionOpen' = FALSE
    /\ UNCHANGED <<client, stream, run, copies, upstream, ctxDone, faulted>>
-----------------------------------------------------------------------------
(* proxy.Run before the copies: a dial that fails returns at once.          *)

Dial ==
    /\ run = "dialing"
    /\ ~ctxDone
    /\ run' = "copying"
    /\ conn' = "open"
    /\ up' = "read"
    /\ down' = "read"
    /\ UNCHANGED <<client, stream, upBuf, downBuf, errch, upFin, peer, sentDown,
                   downSock, gotUp, session, faulted>>

DialFails ==
    /\ run = "dialing"
    /\ run' = "dialFailed"
    /\ faulted' = TRUE
    /\ UNCHANGED <<client, stream, copies, upstream, session>>

(* copyOne(upstream, stream): the end of a copy, with or without error,     *)
(* half-closes the upstream connection and sends its result.                *)
(* The definitions whose name ends in _Mutant are wrong on purpose: each    *)
(* shows that a property notices.                                           *)
HalfClosed_Mutant == upFin
HalfClosed == upFin \/ conn = "open"

UpDone(result) ==
    /\ up' = "done"
    /\ upBuf' = <<>>
    /\ upFin' = HalfClosed
    /\ errch' = Append(errch, result)
    /\ UNCHANGED <<client, stream, run, down, downBuf, conn, peer, sentDown,
                   downSock, gotUp, session>>

UpReads ==
    /\ up = "read"
    /\ sessionOpen /\ send # "reset" /\ upNet # <<>>
    /\ up' = "write"
    /\ upBuf' = <<Head(upNet)>>
    /\ upNet' = Tail(upNet)
    /\ UNCHANGED <<client, downNet, gwFin, run, down, downBuf, errch, upstream,
                   session, faulted>>

UpWrites ==
    /\ up = "write"
    /\ conn = "open" /\ peer # "reset"
    /\ up' = "read"
    /\ gotUp' = gotUp \o upBuf
    /\ upBuf' = <<>>
    /\ UNCHANGED <<client, stream, run, down, downBuf, errch, conn, upFin, peer,
                   sentDown, downSock, session, faulted>>

UpEof ==
    /\ up = "read"
    /\ sessionOpen /\ send = "fin" /\ upNet = <<>>
    /\ UpDone("nil")
    /\ UNCHANGED faulted

(* The stream is reset or gone; or a write fails, for the connection is     *)
(* closed or reset, or the deadline passes because PostgreSQL takes nothing. *)
UpFails ==
    \/ /\ up = "read"
       /\ ~sessionOpen \/ send = "reset"
       /\ UpDone("error")
       /\ UNCHANGED faulted
    \/ /\ up = "write"
       /\ UpDone(IF conn = "closed" THEN "closed" ELSE "error")
       /\ faulted' = (faulted \/ conn # "closed")

(* copyOne(stream, upstream): its half-close is stream.Close().             *)
DownDone(result) ==
    /\ down' = "done"
    /\ downBuf' = <<>>
    /\ gwFin' = TRUE
    /\ errch' = Append(errch, result)
    /\ UNCHANGED <<client, upNet, downNet, run, up, upBuf, upstream, session>>

DownReads ==
    /\ down = "read"
    /\ conn = "open" /\ peer # "reset" /\ downSock # <<>>
    /\ down' = "write"
    /\ downBuf' = <<Head(downSock)>>
    /\ downSock' = Tail(downSock)
    /\ UNCHANGED <<client, stream, run, up, upBuf, errch, conn, upFin, peer,
                   sentDown, gotUp, session, faulted>>

DownWrites ==
    /\ down = "write"
    /\ sessionOpen /\ recv = "open" /\ ~gwFin
    /\ down' = "read"
    /\ downNet' = downNet \o downBuf
    /\ downBuf' = <<>>
    /\ UNCHANGED <<client, upNet, gwFin, run, up, upBuf, errch, upstream,
                   session, faulted>>

DownEof ==
    /\ down = "read"
    /\ conn = "open" /\ peer = "fin" /\ downSock = <<>>
    /\ DownDone("nil")
    /\ UNCHANGED faulted

(* The connection is closed or reset; or the stream takes no more: stopped, *)
(* closed or gone.                                                          *)
DownFails ==
    \/ /\ down = "read"
       /\ conn = "closed" \/ peer = "reset"
       /\ DownDone(IF conn = "closed" THEN "closed" ELSE "error")
       /\ faulted' = (faulted \/ conn # "closed")
    \/ /\ down = "write"
       /\ ~sessionOpen \/ recv # "open" \/ gwFin
       /\ DownDone("error")
       /\ UNCHANGED faulted

(* The deadline of the upstream connection has passed: nothing has moved    *)
(* either way for IdleTimeout, if there is one, or a write to the stream    *)
(* took longer; then bytes that have come meanwhile are not read.           *)
DownIdles ==
    /\ down = "read"
    /\ conn = "open"
    /\ DownDone("error")
    /\ faulted' = TRUE

(* The main goroutine.  Close() of both ends: FIN towards the client, and   *)
(* the upstream connection gone, with what it still held.                   *)
CloseBoth ==
    /\ conn' = "closed"
    /\ gwFin' = TRUE

EndsRun_Mutant(result) == TRUE
EndsRun(result) == result = "error"

FirstResult ==
    /\ run = "copying"
    /\ errch # <<>>
    /\ run' = "halfDone"
    /\ errch' = Tail(errch)
    /\ IF EndsRun(Head(errch)) THEN CloseBoth ELSE UNCHANGED <<conn, gwFin>>
    /\ UNCHANGED <<client, upNet, downNet, up, upBuf, down, downBuf, upFin, peer,
                   sentDown, downSock, gotUp, session, faulted>>

(* Both the second result and the context end Run, whose deferred calls     *)
(* close both ends.                                                         *)
RunReturns ==
    /\ run' = "returned"
    /\ CloseBoth
    /\ UNCHANGED <<client, upNet, downNet, up, upBuf, down, downBuf, upFin, peer,
                   sentDown, downSock, gotUp, session, faulted>>

SecondResult ==
    /\ run = "halfDone"
    /\ errch # <<>>
    /\ errch' = Tail(errch)
    /\ RunReturns

ContextDone_Mutant ==
    /\ run = "copying"
    /\ ctxDone
    /\ RunReturns
    /\ UNCHANGED errch

ContextDone ==
    /\ run \in {"copying", "halfDone"}
    /\ ctxDone
    /\ RunReturns
    /\ UNCHANGED errch
-----------------------------------------------------------------------------
Client  == ClientWrites \/ ClientEnds \/ ClientReads \/ ClientSeesEnd \/ ClientDestroys
Peer    == PeerSends \/ PeerEnds \/ PeerResets
Session == LifetimeExpires \/ SessionLost \/ SessionCloses
Up      == UpReads \/ UpWrites \/ UpEof \/ UpFails
Down    == DownReads \/ DownWrites \/ DownEof \/ DownFails
Main    == Dial \/ DialFails \/ FirstResult \/ SecondResult \/ ContextDone

Next == Client \/ Peer \/ Session \/ Up \/ Down \/ DownIdles \/ Main

Spec == Init /\ [][Next]_vars

(* Goroutines run, dial returns (ConnectTimeout), the client's read loop    *)
(* reads, the socket of a lost session is destroyed, and PostgreSQL closes  *)
(* a connection whose client has closed its side.  The idle deadline need   *)
(* not pass: IdleTimeout may be zero, or the other side keep talking.  Nor  *)
(* need the session end: the properties are about a tunnel whose session    *)
(* goes on, and say so where its end releases what would otherwise be held. *)
Fairness ==
    /\ WF_vars(Dial \/ DialFails)
    /\ WF_vars(FirstResult) /\ WF_vars(SecondResult) /\ WF_vars(ContextDone)
    /\ WF_vars(Up) /\ WF_vars(Down)
    /\ WF_vars(ClientReads) /\ WF_vars(ClientSeesEnd)
    /\ WF_vars(~sessionOpen /\ ClientDestroys)
    /\ WF_vars(SessionCloses)
    /\ WF_vars(upFin /\ PeerEnds)

FairSpec == Spec /\ Fairness
-----------------------------------------------------------------------------
(* Every variable keeps its type, and no result is sent twice on errch      *)
(* (proxy.go:43: two senders, two places).                                  *)
TypeOK ==
    /\ send \in {"open", "fin", "reset"}
    /\ recv \in {"open", "ended", "cancelled"}
    /\ run \in {"dialing", "dialFailed", "copying", "halfDone", "returned"}
    /\ {up, down} \subseteq {"idle", "read", "write", "done"}
    /\ Len(upBuf) = (IF up = "write" THEN 1 ELSE 0)
    /\ Len(downBuf) = (IF down = "write" THEN 1 ELSE 0)
    /\ errch \in Seq({"nil", "closed", "error"}) /\ Len(errch) <= 2
    /\ conn \in {"none", "open", "closed"}
    /\ peer \in {"open", "fin", "reset"}
    /\ {gwFin, upFin, ctxDone, sessionOpen, faulted} \subseteq BOOLEAN

(* Each end receives a prefix of what the other sent, whatever breaks.      *)
(* While nothing has broken nothing is missing from the way in between      *)
(* (copyOne, proxy.go:44-51), and with "half-close support"                 *)
(* (docs/architecture.md:9) each end sees the end of the other's bytes      *)
(* after all of them, whichever side ends first (proxy.go:47-49, 67-79).    *)
Intact ==
    /\ IsPrefix(gotUp, sentUp)
    /\ IsPrefix(gotDown, sentDown)
    /\ ~faulted => /\ gotUp \o upBuf \o upNet = sentUp
                   /\ gotDown \o downNet \o downBuf \o downSock = sentDown
                   /\ upFin => gotUp = sentUp
                   /\ recv = "ended" => gotDown = sentDown

(* Each direction is a Channel from end to end, step by step, until the     *)
(* other end of the socket, the session or PostgreSQL breaks it: what is    *)
(* read on one side of proxy.Run is the next chunk of the other, and the    *)
(* half-closes of copyOne (proxy.go:44-51) pass on the end of the bytes and *)
(* not an end of their own.                                                 *)
UpChannel == INSTANCE Channel WITH
    Chunk  <- 1..MaxUp,
    sent   <- sentUp,
    got    <- gotUp,
    ended  <- send # "open",
    seen   <- upFin,
    broken <- faulted

DownChannel == INSTANCE Channel WITH
    Chunk  <- 1..MaxDown,
    sent   <- sentDown,
    got    <- gotDown,
    ended  <- peer # "open",
    seen   <- recv = "ended",
    broken <- faulted

ImplementsChannels == UpChannel!Spec /\ DownChannel!Spec

(* "closing the WebTransport session closes every member connection"        *)
(* (docs/architecture.md:9; proxy.go:64-66, 76-78).                         *)
SessionEndClosesUpstream == ctxDone ~> (conn = "closed" \/ run = "dialFailed")

(* "Closing a data stream closes its upstream socket" (docs/protocol.md:21):*)
(* when the client ends or destroys its socket, the upstream connection is  *)
(* closed (socket.ts:122-153, proxy.go:52-80).                              *)
ClientCloseReachesUpstream ==
    send # "open" ~> (conn = "closed" \/ run = "dialFailed")

(* The same of a socket closed because PostgreSQL, or the idle deadline,    *)
(* ended the stream: "Graceful stream and socket cleanup" (security.md:13). *)
(* The client never closes its side, so Run stays in its second select and  *)
(* keeps its place among the session's streams until the session ends: the  *)
(* read of the stream has no deadline, the idle one is the upstream's.      *)
EndedStreamIsReleased == recv = "ended" ~> (run = "returned" \/ ctxDone)

(* A stream whose upstream cannot be dialled is cleaned up too:             *)
(* "Graceful stream and socket cleanup" (security.md:13).  Run returns      *)
(* before it has deferred stream.Close() (proxy.go:25-28), so the client's  *)
(* socket stays open, until the session ends, on a stream nobody serves.    *)
DialFailureReachesClient == run = "dialFailed" ~> (recv # "open" \/ ctxDone)
=============================================================================
