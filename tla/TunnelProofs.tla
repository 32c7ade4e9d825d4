---------------------------- MODULE TunnelProofs ----------------------------
(***************************************************************************)
(* Theorems about Tunnel, for every number of chunks: whatever breaks,     *)
(* each end has a prefix of what the other sent, and while nothing has     *)
(* broken nothing is missing and an end is seen after all bytes; either    *)
(* way is a Channel, step by step; and every variable keeps its type.      *)
(*                                                                         *)
(* The argument has three parts: how Run, its copies and both connections  *)
(* can stand to each other before a fault, and the bytes on either way.    *)
(***************************************************************************)
EXTENDS Tunnel, SequenceTheorems, TLAPS

Result == {"nil", "closed", "error"}

Done(c) == IF c = "done" THEN 1 ELSE 0

(* What a reset, a lost session or an error on errch says: a fault.         *)
FaultInv ==
    /\ ctxDone \/ ~sessionOpen => faulted
    /\ recv \in {"open", "ended", "cancelled"}
    /\ send = "reset" \/ recv = "cancelled" \/ peer = "reset" => faulted
    /\ errch \in Seq(Result)
    /\ ~faulted => \A i \in 1..Len(errch) : errch[i] # "error"

(* The results of the copies are those on errch and those Run has received. *)
(* Without a fault, the connection and the stream are closed behind copies  *)
(* that are done only.                                                      *)
RunInv ==
    /\ up \in {"idle", "read", "write", "done"} /\ down \in {"idle", "read", "write", "done"}
    /\ run \in {"dialing", "dialFailed", "copying", "halfDone", "returned"}
    /\ run \in {"dialing", "dialFailed"} <=> up = "idle"
    /\ run \in {"dialing", "dialFailed"} <=> down = "idle"
    /\ run \in {"dialing", "dialFailed"} => conn = "none" /\ ~gwFin /\ Len(errch) = 0
    /\ run = "copying" => Len(errch) = Done(up) + Done(down)
    /\ run = "halfDone" => Len(errch) + 1 = Done(up) + Done(down)
    /\ ~faulted /\ conn = "closed" => up = "done" /\ down = "done"
    /\ ~faulted /\ gwFin => down = "done"
    /\ gwFin \in BOOLEAN /\ upFin \in BOOLEAN /\ faulted \in BOOLEAN
    /\ sessionOpen \in BOOLEAN /\ ctxDone \in BOOLEAN

Chunks == Seq(Nat)

(* From the client to PostgreSQL.                                           *)
UpInv ==
    /\ sentUp \in Chunks /\ gotUp \in Chunks /\ upBuf \in Chunks /\ upNet \in Chunks
    /\ up # "write" => upBuf = <<>>
    /\ \E rest \in Chunks : sentUp = gotUp \o rest
    /\ up # "done" \/ ~faulted => sentUp = gotUp \o (upBuf \o upNet)
    /\ ~faulted /\ (upFin \/ up = "done") => send = "fin" /\ upNet = <<>> /\ up = "done"

(* From PostgreSQL to the client.                                           *)
DownInv ==
    /\ sentDown \in Chunks /\ gotDown \in Chunks /\ downNet \in Chunks
    /\ downBuf \in Chunks /\ downSock \in Chunks
    /\ down # "write" => downBuf = <<>>
    /\ \E rest \in Chunks : sentDown = gotDown \o (downNet \o rest)
    /\ down # "done" \/ ~faulted => sentDown = gotDown \o (downNet \o (downBuf \o downSock))
    /\ ~faulted /\ down = "done" => peer = "fin" /\ downSock = <<>>
    /\ ~faulted /\ recv = "ended" => gwFin /\ downNet = <<>>

TunnelInv == FaultInv /\ RunInv /\ UpInv /\ DownInv
-----------------------------------------------------------------------------
LEMMA ChunksAssociate ==
  \A a, b, c \in Chunks : (a \o b) \o c = a \o (b \o c)
BY ConcatAssociative DEF Chunks

LEMMA ChunksConcat ==
  /\ <<>> \in Chunks
  /\ \A a \in Chunks : a \o <<>> = a /\ <<>> \o a = a
  /\ \A a, b \in Chunks : a \o b \in Chunks
BY ConcatProperties, ConcatEmptySeq, EmptySeq DEF Chunks

LEMMA ChunksAppend ==
  ASSUME NEW n \in Nat
  PROVE  \E one \in Chunks : \A a \in Chunks : Append(a, n) = a \o one
<1>1. <<n>> \in Chunks
  BY DEF Chunks
<1>2. \A a \in Chunks : Append(a, n) = a \o <<n>>
  BY AppendIsConcat DEF Chunks
<1> QED
  BY <1>1, <1>2

LEMMA ChunksHead ==
  ASSUME NEW q \in Chunks, q # <<>>
  PROVE  /\ <<Head(q)>> \in Chunks /\ Tail(q) \in Chunks /\ Head(q) \in Nat
         /\ q = <<Head(q)>> \o Tail(q)
<1>1. /\ Head(q) \in Nat /\ Tail(q) \in Chunks /\ Len(Tail(q)) = Len(q) - 1
      /\ \A i \in 1..Len(Tail(q)) : Tail(q)[i] = q[i + 1]
  BY HeadTailProperties DEF Chunks
<1>2. <<Head(q)>> \in Chunks /\ Len(<<Head(q)>>) = 1 /\ <<Head(q)>>[1] = q[1]
  BY <1>1 DEF Chunks
<1>3. /\ <<Head(q)>> \o Tail(q) \in Chunks
      /\ Len(<<Head(q)>> \o Tail(q)) = Len(q)
      /\ \A i \in 1..Len(q) : (<<Head(q)>> \o Tail(q))[i] =
             IF i <= 1 THEN <<Head(q)>>[i] ELSE Tail(q)[i - 1]
  BY <1>1, <1>2, ConcatProperties, LenProperties DEF Chunks
<1>4. \A i \in 1..Len(q) : (<<Head(q)>> \o Tail(q))[i] = q[i]
  BY <1>1, <1>2, <1>3, LenProperties DEF Chunks
<1> QED
  BY <1>1, <1>2, <1>3, <1>4, SeqEqual DEF Chunks

LEMMA PrefixOfConcat ==
  ASSUME NEW s \in Chunks, NEW t \in Chunks
  PROVE  IsPrefix(s, s \o t)
<1>1. s \o t \in Seq(Nat) /\ Len(s) <= Len(s \o t)
  BY ConcatProperties, LenProperties DEF Chunks
<1>2. \A i \in 1..Len(s) : SubSeq(s, 1, Len(s))[i] = SubSeq(s \o t, 1, Len(s))[i]
  BY <1>1, ConcatProperties, LenProperties DEF Chunks
<1>3. /\ SubSeq(s, 1, Len(s)) \in Seq(Nat) /\ SubSeq(s \o t, 1, Len(s)) \in Seq(Nat)
      /\ Len(SubSeq(s, 1, Len(s))) = Len(s) /\ Len(SubSeq(s \o t, 1, Len(s))) = Len(s)
  BY <1>1, LenProperties DEF Chunks
<1>4. SubSeq(s, 1, Len(s)) = SubSeq(s \o t, 1, Len(s))
  BY <1>2, <1>3, SeqEqual
<1> QED
  BY <1>1, <1>4 DEF IsPrefix
-----------------------------------------------------------------------------
LEMMA TunnelInit == Init => TunnelInv
<1> SUFFICES ASSUME Init PROVE TunnelInv
  OBVIOUS
<1>1. <<>> \in Seq(Result) /\ Len(<<>>) = 0
  BY EmptySeq
<1>2. FaultInv
  <2>1. errch = <<>>
    BY DEF Init
  <2>2. errch \in Seq(Result) /\ \A i \in 1..Len(errch) : errch[i] # "error"
    BY <1>1, <2>1
  <2> QED
    BY <2>2 DEF Init, FaultInv
<1>3. <<>> = <<>> \o <<>> /\ <<>> = <<>> \o (<<>> \o <<>>)
      /\ <<>> = <<>> \o (<<>> \o (<<>> \o <<>>)) /\ <<>> \in Chunks
  BY ChunksConcat
<1>4. UpInv
  BY <1>3 DEF Init, UpInv
<1>5. DownInv
  BY <1>3 DEF Init, DownInv
<1>6. RunInv
  <2>1. /\ run = "dialing" /\ up = "idle" /\ down = "idle" /\ conn = "none" /\ gwFin = FALSE
        /\ errch = <<>>
        /\ upFin = FALSE /\ faulted = FALSE /\ sessionOpen = TRUE /\ ctxDone = FALSE
    BY DEF Init
  <2>2. /\ gwFin \in BOOLEAN /\ upFin \in BOOLEAN /\ faulted \in BOOLEAN
        /\ sessionOpen \in BOOLEAN /\ ctxDone \in BOOLEAN /\ ~gwFin
    BY <2>1
  <2>3. run = "dialing" /\ up = "idle" /\ down = "idle" /\ conn = "none"
    BY <2>1
  <2> QED
    BY <1>1, <2>1, <2>2, <2>3, SMT DEF RunInv
<1> QED
  BY <1>2, <1>4, <1>5, <1>6 DEF TunnelInv

(* errch: a copy sends one result, Run receives one.                        *)
LEMMA SendResult ==
  ASSUME FaultInv, NEW result \in Result, errch' = Append(errch, result),
         ~faulted' => ~faulted /\ result # "error"
  PROVE  /\ errch' \in Seq(Result) /\ Len(errch') = Len(errch) + 1
         /\ ~faulted' => \A i \in 1..Len(errch') : errch'[i] # "error"
<1>1. /\ Append(errch, result) \in Seq(Result)
      /\ Len(Append(errch, result)) = Len(errch) + 1 /\ Len(errch) \in Nat
      /\ \A i \in 1..Len(errch) : Append(errch, result)[i] = errch[i]
      /\ Append(errch, result)[Len(errch) + 1] = result
  BY AppendProperties, LenProperties DEF FaultInv
<1>2. \A i \in 1..Len(errch) + 1 : i \in 1..Len(errch) \/ i = Len(errch) + 1
  BY <1>1
<1> QED
  BY <1>1, <1>2 DEF FaultInv

LEMMA TakeResult ==
  ASSUME FaultInv, errch # <<>>, errch' = Tail(errch), faulted' = faulted
  PROVE  /\ errch' \in Seq(Result) /\ Len(errch') = Len(errch) - 1 /\ Len(errch) \in Nat
         /\ ~faulted' => \A i \in 1..Len(errch') : errch'[i] # "error"
         /\ ~faulted => Head(errch) # "error"
<1>1. /\ Head(errch) \in Result /\ Tail(errch) \in Seq(Result)
      /\ Len(Tail(errch)) = Len(errch) - 1
      /\ \A i \in 1..Len(Tail(errch)) : Tail(errch)[i] = errch[i + 1]
  BY HeadTailProperties DEF FaultInv
<1>2. Len(errch) \in Nat \ {0}
  BY EmptySeq DEF FaultInv
<1>3. Head(errch) = errch[1] /\ 1 \in 1..Len(errch)
  BY <1>2 DEF FaultInv
<1>4. \A i \in 1..Len(Tail(errch)) : i + 1 \in 1..Len(errch)
  BY <1>1, <1>2
<1> QED
  BY <1>1, <1>2, <1>3, <1>4 DEF FaultInv
-----------------------------------------------------------------------------
(* The control of Run, its copies and both connections.                     *)

(* What a copy that ends without a fault has come to.                       *)
LEMMA DownEndsWithoutFault ==
  ASSUME TunnelInv, DownFails \/ DownIdles
  PROVE  faulted'
<1>1. CASE DownIdles
  BY <1>1 DEF DownIdles
<1>2. CASE down = "read" /\ faulted' = (faulted \/ conn # "closed")
  BY <1>2 DEF TunnelInv, RunInv
<1>3. CASE down = "write" /\ (~sessionOpen \/ recv # "open" \/ gwFin) /\ UNCHANGED faulted
  BY <1>3 DEF TunnelInv, RunInv, FaultInv, DownInv
<1> QED
  BY <1>1, <1>2, <1>3 DEF DownFails

LEMMA UpEndsWithoutFault ==
  ASSUME TunnelInv, UpFails
  PROVE  faulted'
<1>1. CASE up = "read" /\ (~sessionOpen \/ send = "reset") /\ UNCHANGED faulted
  BY <1>1 DEF TunnelInv, FaultInv
<1>2. CASE up = "write" /\ faulted' = (faulted \/ conn # "closed")
  <2>1. faulted \/ conn # "closed"
    BY <1>2 DEF TunnelInv, RunInv
  <2> QED
    BY <1>2, <2>1
<1> QED
  BY <1>1, <1>2 DEF UpFails

LEMMA UpDoneControl ==
  ASSUME TunnelInv, NEW result \in Result, UpDone(result), up \in {"read", "write"},
         faulted => faulted', ~faulted' => result # "error", faulted' \in BOOLEAN
  PROVE  FaultInv' /\ RunInv'
<1>1. /\ errch' \in Seq(Result) /\ Len(errch') = Len(errch) + 1
      /\ ~faulted' => \A i \in 1..Len(errch') : errch'[i] # "error"
  BY SendResult DEF TunnelInv, UpDone
<1>2. FaultInv'
  BY <1>1 DEF TunnelInv, FaultInv, UpDone, client, session
<1>3. Len(errch) \in Nat
  BY LenProperties DEF TunnelInv, FaultInv
<1>4. /\ run' = run /\ up' = "done" /\ down' = down /\ conn' = conn /\ gwFin' = gwFin
      /\ sessionOpen' = sessionOpen /\ ctxDone' = ctxDone /\ upFin' \in BOOLEAN
  BY DEF TunnelInv, RunInv, UpDone, HalfClosed, client, stream, session
<1>5. RunInv'
  BY <1>1, <1>3, <1>4, SMT DEF TunnelInv, RunInv, Done
<1> QED
  BY <1>2, <1>5

LEMMA DownDoneControl ==
  ASSUME TunnelInv, NEW result \in Result, DownDone(result), down \in {"read", "write"},
         faulted => faulted', ~faulted' => result # "error", faulted' \in BOOLEAN
  PROVE  FaultInv' /\ RunInv'
<1>1. /\ errch' \in Seq(Result) /\ Len(errch') = Len(errch) + 1
      /\ ~faulted' => \A i \in 1..Len(errch') : errch'[i] # "error"
  BY SendResult DEF TunnelInv, DownDone
<1>2. FaultInv'
  BY <1>1 DEF TunnelInv, FaultInv, DownDone, client, session, upstream
<1>3. Len(errch) \in Nat
  BY LenProperties DEF TunnelInv, FaultInv
<1>4. /\ run' = run /\ down' = "done" /\ up' = up /\ conn' = conn /\ gwFin' = TRUE
      /\ sessionOpen' = sessionOpen /\ ctxDone' = ctxDone /\ upFin' = upFin
  BY DEF DownDone, upstream, session
<1>5. RunInv'
  BY <1>1, <1>3, <1>4, SMT DEF TunnelInv, RunInv, Done
<1> QED
  BY <1>2, <1>5

LEMMA ClientControl ==
  ASSUME TunnelInv, Client
  PROVE  FaultInv' /\ RunInv'
<1>1. UNCHANGED <<errch, run, up, down, conn, gwFin, upFin, session, peer>>
  BY DEF Client, ClientWrites, ClientEnds, ClientReads, ClientSeesEnd, ClientDestroys,
     copies, stream, upstream
<1>2. (faulted => faulted') /\ faulted' \in BOOLEAN
  BY DEF Client, ClientWrites, ClientEnds, ClientReads, ClientSeesEnd, ClientDestroys,
     TunnelInv, RunInv
<1>3. /\ recv' \in {"open", "ended", "cancelled"}
      /\ send' = "reset" \/ recv' = "cancelled" => faulted' \/ send = "reset" \/ recv = "cancelled"
  BY DEF Client, ClientWrites, ClientEnds, ClientReads, ClientSeesEnd, ClientDestroys,
     TunnelInv, FaultInv
<1>4. FaultInv'
  BY <1>1, <1>2, <1>3 DEF TunnelInv, FaultInv, session
<1>5. RunInv'
  BY <1>1, <1>2, SMT DEF TunnelInv, RunInv, session, Done
<1> QED
  BY <1>4, <1>5

LEMMA PeerControl ==
  ASSUME TunnelInv, Peer
  PROVE  FaultInv' /\ RunInv'
<1>1. UNCHANGED <<errch, run, up, down, conn, gwFin, upFin, session, send, recv>>
  BY DEF Peer, PeerSends, PeerEnds, PeerResets, copies, stream, client
<1>2. (faulted => faulted') /\ faulted' \in BOOLEAN /\ (peer' = "reset" => faulted' \/ peer = "reset")
  BY DEF Peer, PeerSends, PeerEnds, PeerResets, TunnelInv, RunInv
<1>3. FaultInv'
  BY <1>1, <1>2 DEF TunnelInv, FaultInv, session
<1>4. RunInv'
  BY <1>1, <1>2, SMT DEF TunnelInv, RunInv, session, Done
<1> QED
  BY <1>3, <1>4

LEMMA SessionControl ==
  ASSUME TunnelInv, Session
  PROVE  FaultInv' /\ RunInv'
<1>1. UNCHANGED <<errch, run, up, down, conn, gwFin, upFin, send, recv, peer>>
  BY DEF Session, LifetimeExpires, SessionLost, SessionCloses, copies, stream, client, upstream
<1>2. /\ faulted => faulted'
      /\ faulted' \in BOOLEAN /\ ctxDone' \in BOOLEAN /\ sessionOpen' \in BOOLEAN
      /\ ctxDone' \/ ~sessionOpen' => faulted'
  BY DEF Session, LifetimeExpires, SessionLost, SessionCloses, TunnelInv, RunInv, FaultInv
<1>3. FaultInv'
  BY <1>1, <1>2 DEF TunnelInv, FaultInv
<1>4. RunInv'
  BY <1>1, <1>2, SMT DEF TunnelInv, RunInv, Done
<1> QED
  BY <1>3, <1>4

LEMMA UpControl ==
  ASSUME TunnelInv, Up
  PROVE  FaultInv' /\ RunInv'
<1>1. CASE UpReads \/ UpWrites
  <2>1. /\ UNCHANGED <<errch, run, down, conn, gwFin, upFin, session, send, recv, peer, faulted>>
        /\ up \in {"read", "write"} /\ up' \in {"read", "write"}
    BY <1>1 DEF UpReads, UpWrites, client, stream, session, upstream
  <2>2. FaultInv'
    BY <2>1 DEF TunnelInv, FaultInv, session
  <2>3. RunInv'
    BY <2>1, SMT DEF TunnelInv, RunInv, session, Done
  <2> QED
    BY <2>2, <2>3
<1>2. CASE UpEof
  BY <1>2, UpDoneControl DEF UpEof, Result, TunnelInv, RunInv
<1>3. CASE UpFails
  <2>1. PICK result \in Result : UpDone(result) /\ up \in {"read", "write"}
    BY <1>3 DEF UpFails, Result
  <2>2. faulted'
    BY <1>3, UpEndsWithoutFault
  <2>3. faulted' \in BOOLEAN
    BY <1>3 DEF UpFails, TunnelInv, RunInv
  <2> QED
    BY <2>1, <2>2, <2>3, UpDoneControl
<1> QED
  BY <1>1, <1>2, <1>3 DEF Up

LEMMA DownControl ==
  ASSUME TunnelInv, Down \/ DownIdles
  PROVE  FaultInv' /\ RunInv'
<1>1. CASE DownReads \/ DownWrites
  <2>1. /\ UNCHANGED <<errch, run, up, conn, gwFin, upFin, session, send, recv, peer, faulted>>
        /\ down \in {"read", "write"} /\ down' \in {"read", "write"}
    BY <1>1 DEF DownReads, DownWrites, client, stream, session, upstream
  <2>2. FaultInv'
    BY <2>1 DEF TunnelInv, FaultInv, session
  <2>3. RunInv'
    BY <2>1, SMT DEF TunnelInv, RunInv, session, Done
  <2> QED
    BY <2>2, <2>3
<1>2. CASE DownEof
  BY <1>2, DownDoneControl DEF DownEof, Result, TunnelInv, RunInv
<1>3. CASE DownFails \/ DownIdles
  <2>1. PICK result \in Result : DownDone(result) /\ down \in {"read", "write"}
    BY <1>3 DEF DownFails, DownIdles, Result
  <2>2. faulted'
    BY <1>3, DownEndsWithoutFault
  <2>3. faulted' \in BOOLEAN
    BY <1>3 DEF DownFails, DownIdles, TunnelInv, RunInv
  <2> QED
    BY <2>1, <2>2, <2>3, DownDoneControl
<1> QED
  BY <1>1, <1>2, <1>3 DEF Down

LEMMA MainControl ==
  ASSUME TunnelInv, Main
  PROVE  FaultInv' /\ RunInv'
<1>1. CASE Dial \/ DialFails
  <2>1. UNCHANGED <<errch, gwFin, upFin, session, send, recv, peer>>
    BY <1>1 DEF Dial, DialFails, client, stream, copies, upstream
  <2>2. (faulted => faulted') /\ faulted' \in BOOLEAN
    BY <1>1 DEF Dial, DialFails, TunnelInv, RunInv
  <2>3. FaultInv'
    BY <2>1, <2>2 DEF TunnelInv, FaultInv, session
  <2>4. RunInv'
    <3>1. CASE Dial
      <4>1. /\ run' = "copying" /\ conn' = "open" /\ up' = "read" /\ down' = "read"
            /\ faulted' = faulted /\ run = "dialing"
        BY <3>1 DEF Dial
      <4> QED
        BY <4>1, <2>1, <2>2, SMT DEF TunnelInv, RunInv, session, Done
    <3>2. CASE DialFails
      <4>1. run' = "dialFailed" /\ run = "dialing" /\ UNCHANGED <<conn, up, down>>
        BY <3>2 DEF DialFails, copies, upstream
      <4> QED
        BY <4>1, <2>1, <2>2, SMT DEF TunnelInv, RunInv, session, Done
    <3> QED
      BY <1>1, <3>1, <3>2
  <2> QED
    BY <2>3, <2>4
<1>2. CASE FirstResult
  <2>1. /\ UNCHANGED <<up, down, upFin, session, send, recv, peer, faulted>>
        /\ errch # <<>> /\ errch' = Tail(errch) /\ run = "copying" /\ run' = "halfDone"
    BY <1>2 DEF FirstResult, client
  <2>2. /\ errch' \in Seq(Result) /\ Len(errch') = Len(errch) - 1 /\ Len(errch) \in Nat
        /\ ~faulted' => \A i \in 1..Len(errch') : errch'[i] # "error"
        /\ ~faulted => Head(errch) # "error"
    BY <2>1, TakeResult DEF TunnelInv
  <2>3. \/ UNCHANGED <<conn, gwFin>>
        \/ conn' = "closed" /\ gwFin' = TRUE /\ faulted
    BY <1>2, <2>2 DEF FirstResult, EndsRun, CloseBoth, TunnelInv, RunInv
  <2>4. FaultInv'
    BY <2>1, <2>2 DEF TunnelInv, FaultInv, session
  <2>5. RunInv'
    <3>1. CASE UNCHANGED <<conn, gwFin>>
      BY <2>1, <2>2, <3>1, SMT DEF TunnelInv, RunInv, session, Done
    <3>2. CASE conn' = "closed" /\ gwFin' = TRUE /\ faulted
      BY <2>1, <2>2, <3>2, SMT DEF TunnelInv, RunInv, session, Done
    <3> QED
      BY <2>3, <3>1, <3>2
  <2> QED
    BY <2>4, <2>5
<1>3. CASE SecondResult
  <2>1. /\ UNCHANGED <<up, down, upFin, session, send, recv, peer, faulted>>
        /\ errch # <<>> /\ errch' = Tail(errch) /\ run = "halfDone" /\ run' = "returned"
        /\ conn' = "closed" /\ gwFin' = TRUE
    BY <1>3 DEF SecondResult, RunReturns, CloseBoth, client
  <2>2. /\ errch' \in Seq(Result) /\ Len(errch') = Len(errch) - 1 /\ Len(errch) \in Nat
        /\ ~faulted' => \A i \in 1..Len(errch') : errch'[i] # "error"
    BY <2>1, TakeResult DEF TunnelInv
  <2>3. Len(errch) # 0
    BY <2>1, EmptySeq DEF TunnelInv, FaultInv
  <2>4. up = "done" /\ down = "done"
    BY <2>1, <2>2, <2>3, SMT DEF TunnelInv, RunInv, Done
  <2>5. FaultInv'
    BY <2>1, <2>2 DEF TunnelInv, FaultInv, session
  <2>6. RunInv'
    BY <2>1, <2>4, SMT DEF TunnelInv, RunInv, session, Done
  <2> QED
    BY <2>5, <2>6
<1>4. CASE ContextDone
  <2>1. /\ UNCHANGED <<errch, up, down, upFin, session, send, recv, peer, faulted>>
        /\ run' = "returned" /\ conn' = "closed" /\ gwFin' = TRUE
        /\ faulted /\ up # "idle" /\ down # "idle"
    BY <1>4 DEF ContextDone, RunReturns, CloseBoth, client, TunnelInv, RunInv, FaultInv
  <2>2. FaultInv'
    BY <2>1 DEF TunnelInv, FaultInv, session
  <2>3. RunInv'
    BY <2>1, SMT DEF TunnelInv, RunInv, session, Done
  <2> QED
    BY <2>2, <2>3
<1> QED
  BY <1>1, <1>2, <1>3, <1>4 DEF Main
-----------------------------------------------------------------------------
(* The way up.                                                              *)

(* What leaves the chunks of this way alone keeps its invariant.            *)
LEMMA UpFrame ==
  ASSUME TunnelInv, UNCHANGED <<sentUp, gotUp, upBuf, upNet, upFin>>,
         up' = up \/ (up = "idle" /\ up' = "read"),
         send = "fin" => send' = "fin", faulted => faulted'
  PROVE  UpInv'
<1>1. \E rest \in Chunks : sentUp' = gotUp' \o rest
  BY DEF TunnelInv, UpInv
<1>2. /\ sentUp' \in Chunks /\ gotUp' \in Chunks /\ upBuf' \in Chunks /\ upNet' \in Chunks
      /\ up' # "write" => upBuf' = <<>>
      /\ up' # "done" \/ ~faulted' => sentUp' = gotUp' \o (upBuf' \o upNet')
      /\ ~faulted' /\ (upFin' \/ up' = "done") => send' = "fin" /\ upNet' = <<>> /\ up' = "done"
  BY DEF TunnelInv, UpInv
<1> QED
  BY <1>1, <1>2 DEF UpInv

LEMMA UpOfUpDone ==
  ASSUME TunnelInv, NEW result, UpDone(result), up \in {"read", "write"},
         faulted' \/ (up = "read" /\ send = "fin" /\ upNet = <<>>), faulted => faulted'
  PROVE  UpInv'
<1>1. /\ up' = "done" /\ upBuf' = <<>> /\ UNCHANGED <<send, sentUp, gotUp, upNet>>
  BY DEF UpDone, client, stream
<1>2. <<>> \in Chunks
  BY ChunksConcat
<1>3. ~faulted' => sentUp' = gotUp' \o (upBuf' \o upNet')
  BY <1>1 DEF TunnelInv, UpInv
<1>4. \E rest \in Chunks : sentUp' = gotUp' \o rest
  BY <1>1 DEF TunnelInv, UpInv
<1>5. ~faulted' => send' = "fin" /\ upNet' = <<>>
  BY <1>1
<1> QED
  BY <1>1, <1>2, <1>3, <1>4, <1>5 DEF TunnelInv, UpInv

LEMMA UpOfClientWrites ==
  ASSUME TunnelInv, ClientWrites
  PROVE  UpInv'
<1> DEFINE n == Len(sentUp) + 1
<1>1. n \in Nat
  BY LenProperties DEF TunnelInv, UpInv, Chunks
<1>2. /\ sentUp' = Append(sentUp, n) /\ upNet' = Append(upNet, n) /\ send = "open"
      /\ UNCHANGED <<send, gotUp, upBuf, up, upFin, faulted>>
  BY DEF ClientWrites, copies, upstream
<1>3. sentUp \in Chunks /\ upNet \in Chunks /\ gotUp \in Chunks /\ upBuf \in Chunks
  BY DEF TunnelInv, UpInv
<1> HIDE DEF n
<1>4. PICK one \in Chunks : sentUp' = sentUp \o one /\ upNet' = upNet \o one
  <2>1. PICK one \in Chunks : \A a \in Chunks : Append(a, n) = a \o one
    BY <1>1, ChunksAppend
  <2> QED
    BY <1>2, <1>3, <2>1
<1>0. sentUp' \in Chunks /\ upNet' \in Chunks
  BY <1>3, <1>4, ChunksConcat
<1>5. PICK rest \in Chunks : sentUp = gotUp \o rest
  BY DEF TunnelInv, UpInv
<1>6. rest \o one \in Chunks /\ sentUp' = gotUp' \o (rest \o one)
  <2>1. rest \o one \in Chunks
    BY <1>4, <1>5, ChunksConcat
  <2>2. (gotUp \o rest) \o one = gotUp \o (rest \o one)
    <3>1. gotUp \in Chunks /\ rest \in Chunks /\ one \in Chunks
      BY <1>3, <1>4, <1>5
    <3> QED
      BY <3>1, ChunksAssociate
  <2> QED
    BY <1>2, <1>4, <1>5, <2>1, <2>2
<1>7. up' # "done" \/ ~faulted' => sentUp' = gotUp' \o (upBuf' \o upNet')
  <2> DEFINE held == upBuf \o upNet
  <2>1. held \in Chunks /\ held \o one = upBuf \o upNet'
    <3>1. held \in Chunks
      BY <1>3, ChunksConcat
    <3>2. (upBuf \o upNet) \o one = upBuf \o (upNet \o one)
      BY <1>3, <1>4, ChunksAssociate
    <3> QED
      BY <1>4, <3>1, <3>2
  <2>2. up # "done" \/ ~faulted => sentUp = gotUp \o held
    BY DEF TunnelInv, UpInv
  <2> HIDE DEF held
  <2>3. (gotUp \o held) \o one = gotUp \o (held \o one)
    <3>1. gotUp \in Chunks /\ held \in Chunks /\ one \in Chunks
      BY <1>3, <1>4, <2>1
    <3> QED
      BY <3>1, ChunksAssociate
  <2> QED
    BY <1>0, <1>2, <1>4, <2>1, <2>2, <2>3
<1>8. up' # "write" => upBuf' = <<>>
  BY <1>2 DEF TunnelInv, UpInv
<1>9. ~(~faulted' /\ (upFin' \/ up' = "done"))
  BY <1>2 DEF TunnelInv, UpInv
<1> QED
  BY <1>0, <1>2, <1>3, <1>6, <1>7, <1>8, <1>9 DEF UpInv

LEMMA UpOfUpReads ==
  ASSUME TunnelInv, UpReads
  PROVE  UpInv'
<1>1. /\ up = "read" /\ up' = "write" /\ upNet # <<>>
      /\ upBuf' = <<Head(upNet)>> /\ upNet' = Tail(upNet)
      /\ UNCHANGED <<send, sentUp, gotUp, upFin, faulted>>
  BY DEF UpReads, client, upstream
<1>2. sentUp \in Chunks /\ upNet \in Chunks /\ gotUp \in Chunks /\ upBuf = <<>>
  BY <1>1 DEF TunnelInv, UpInv
<1>3. upBuf' \in Chunks /\ upNet' \in Chunks /\ upNet = upBuf' \o upNet'
  BY <1>1, <1>2, ChunksHead
<1>4. sentUp = gotUp \o (upBuf \o upNet)
  BY <1>1 DEF TunnelInv, UpInv
<1>5. upBuf \o upNet = upNet
  BY <1>2, ChunksConcat
<1>6. sentUp' = gotUp' \o (upBuf' \o upNet')
  BY <1>1, <1>3, <1>4, <1>5
<1>7. \E rest \in Chunks : sentUp' = gotUp' \o rest
  BY <1>1, <1>2, <1>4, <1>5
<1>8. ~(~faulted' /\ (upFin' \/ up' = "done"))
  BY <1>1 DEF TunnelInv, UpInv
<1> QED
  BY <1>1, <1>2, <1>3, <1>6, <1>7, <1>8 DEF UpInv

LEMMA UpOfUpWrites ==
  ASSUME TunnelInv, UpWrites
  PROVE  UpInv'
<1>1. /\ up = "write" /\ up' = "read" /\ gotUp' = gotUp \o upBuf /\ upBuf' = <<>>
      /\ UNCHANGED <<send, sentUp, upNet, upFin, faulted>>
  BY DEF UpWrites, client, stream
<1>2. sentUp \in Chunks /\ upNet \in Chunks /\ gotUp \in Chunks /\ upBuf \in Chunks
  BY DEF TunnelInv, UpInv
<1>3. gotUp' \in Chunks /\ upBuf' \in Chunks /\ upBuf' \o upNet' = upNet
  BY <1>1, <1>2, ChunksConcat
<1>4. sentUp = gotUp \o (upBuf \o upNet)
  BY <1>1 DEF TunnelInv, UpInv
<1>5. (gotUp \o upBuf) \o upNet = gotUp \o (upBuf \o upNet)
  BY <1>2, ChunksAssociate
<1>6. sentUp' = gotUp' \o upNet
  BY <1>1, <1>4, <1>5
<1>7. ~(~faulted' /\ (upFin' \/ up' = "done"))
  BY <1>1 DEF TunnelInv, UpInv
<1> QED
  BY <1>1, <1>2, <1>3, <1>6, <1>7 DEF UpInv

LEMMA UpStep ==
  ASSUME TunnelInv, [Next]_vars
  PROVE  UpInv'
<1>1. CASE Client
  <2>1. CASE ClientWrites
    BY <2>1, UpOfClientWrites
  <2>2. CASE ClientEnds \/ ClientReads \/ ClientSeesEnd \/ ClientDestroys
    <3>1. /\ UNCHANGED <<sentUp, gotUp, upBuf, upNet, upFin, up>>
          /\ send = "fin" => send' = "fin"
          /\ faulted => faulted'
      BY <2>2 DEF ClientEnds, ClientReads, ClientSeesEnd, ClientDestroys, stream, copies,
         upstream
    <3> QED
      BY <3>1, UpFrame
  <2> QED
    BY <1>1, <2>1, <2>2 DEF Client
<1>2. CASE Peer \/ Session \/ Down \/ DownIdles \/ Main \/ UNCHANGED vars
  <2>1. /\ UNCHANGED <<sentUp, gotUp, upBuf, upNet, upFin, send>>
        /\ up' = up \/ (up = "idle" /\ up' = "read")
        /\ faulted => faulted'
    <3>1. CASE Peer \/ Session \/ UNCHANGED vars
      BY <3>1 DEF Peer, Session, PeerSends, PeerEnds, PeerResets, LifetimeExpires, SessionLost,
         SessionCloses, client, stream, copies, upstream, vars
    <3>2. CASE Down \/ DownIdles
      <4>1. CASE DownReads \/ DownWrites \/ DownEof
        BY <4>1 DEF DownReads, DownWrites, DownEof, DownDone, client, stream, upstream
      <4>2. CASE DownFails \/ DownIdles
        <5>1. faulted'
          BY <4>2, DownEndsWithoutFault
        <5>2. PICK result : DownDone(result)
          BY <4>2 DEF DownFails, DownIdles
        <5> QED
          BY <5>1, <5>2 DEF DownDone, client, upstream
      <4> QED
        BY <3>2, <4>1, <4>2 DEF Down
    <3>3. CASE Main
      <4>1. run = "dialing" => up = "idle"
        BY DEF TunnelInv, RunInv
      <4>2. CASE Dial
        BY <4>1, <4>2 DEF Dial, client, stream
      <4>3. CASE DialFails
        BY <4>3 DEF DialFails, client, stream, copies, upstream
      <4>4. CASE FirstResult
        BY <4>4 DEF FirstResult, client
      <4>5. CASE SecondResult \/ ContextDone
        BY <4>5 DEF SecondResult, ContextDone, RunReturns, client
      <4> QED
        BY <3>3, <4>2, <4>3, <4>4, <4>5 DEF Main
    <3> QED
      BY <1>2, <3>1, <3>2, <3>3
  <2> QED
    BY <2>1, UpFrame
<1>3. CASE Up
  <2>1. CASE UpEof
    BY <2>1, UpOfUpDone DEF UpEof
  <2>2. CASE UpFails
    <3>1. PICK result : UpDone(result) /\ up \in {"read", "write"}
      BY <2>2 DEF UpFails
    <3>2. faulted'
      BY <2>2, UpEndsWithoutFault
    <3> QED
      BY <3>1, <3>2, UpOfUpDone
  <2> QED
    BY <1>3, <2>1, <2>2, UpOfUpReads, UpOfUpWrites DEF Up
<1> QED
  BY <1>1, <1>2, <1>3 DEF Next
-----------------------------------------------------------------------------
(* The way down.                                                            *)

LEMMA DownFrame ==
  ASSUME TunnelInv, UNCHANGED <<sentDown, gotDown, downBuf, downNet, downSock>>,
         down' = down \/ (down = "idle" /\ down' = "read"),
         ~faulted' => /\ peer = "fin" => peer' = "fin"
                      /\ recv' = "ended" => gwFin' /\ downNet' = <<>>,
         faulted => faulted'
  PROVE  DownInv'
<1>1. \E rest \in Chunks : sentDown' = gotDown' \o (downNet' \o rest)
  BY DEF TunnelInv, DownInv
<1>2. /\ sentDown' \in Chunks /\ gotDown' \in Chunks /\ downNet' \in Chunks
      /\ downBuf' \in Chunks /\ downSock' \in Chunks
      /\ down' # "write" => downBuf' = <<>>
      /\ down' # "done" \/ ~faulted' => sentDown' = gotDown' \o (downNet' \o (downBuf' \o downSock'))
      /\ ~faulted' /\ down' = "done" => peer' = "fin" /\ downSock' = <<>>
  BY DEF TunnelInv, DownInv
<1> QED
  BY <1>1, <1>2 DEF DownInv

LEMMA DownOfDownDone ==
  ASSUME TunnelInv, NEW result, DownDone(result), down \in {"read", "write"},
         faulted' \/ (down = "read" /\ peer = "fin" /\ downSock = <<>>), faulted => faulted'
  PROVE  DownInv'
<1>1. /\ down' = "done" /\ downBuf' = <<>> /\ gwFin' = TRUE
      /\ UNCHANGED <<recv, peer, sentDown, gotDown, downNet, downSock>>
  BY DEF DownDone, client, upstream
<1>2. <<>> \in Chunks
  BY ChunksConcat
<1>3. ~faulted' => sentDown' = gotDown' \o (downNet' \o (downBuf' \o downSock'))
  BY <1>1 DEF TunnelInv, DownInv
<1>4. \E rest \in Chunks : sentDown' = gotDown' \o (downNet' \o rest)
  BY <1>1 DEF TunnelInv, DownInv
<1>5. ~faulted' => /\ peer' = "fin" /\ downSock' = <<>>
                   /\ recv' = "ended" => gwFin' /\ downNet' = <<>>
  BY <1>1 DEF TunnelInv, DownInv
<1> QED
  BY <1>1, <1>2, <1>3, <1>4, <1>5 DEF TunnelInv, DownInv

LEMMA DownOfPeerSends ==
  ASSUME TunnelInv, PeerSends
  PROVE  DownInv'
<1> DEFINE n == Len(sentDown) + 1
<1>1. n \in Nat
  BY LenProperties DEF TunnelInv, DownInv, Chunks
<1>2. /\ sentDown' = Append(sentDown, n) /\ downSock' = Append(downSock, n) /\ peer = "open"
      /\ UNCHANGED <<recv, peer, gwFin, gotDown, downNet, downBuf, down, faulted>>
  BY DEF PeerSends, copies, client, stream
<1>3. /\ sentDown \in Chunks /\ gotDown \in Chunks /\ downNet \in Chunks
      /\ downBuf \in Chunks /\ downSock \in Chunks
  BY DEF TunnelInv, DownInv
<1> HIDE DEF n
<1>4. PICK one \in Chunks : sentDown' = sentDown \o one /\ downSock' = downSock \o one
  <2>1. PICK one \in Chunks : \A a \in Chunks : Append(a, n) = a \o one
    BY <1>1, ChunksAppend
  <2> QED
    BY <1>2, <1>3, <2>1
<1>5. sentDown' \in Chunks /\ downSock' \in Chunks
  BY <1>3, <1>4, ChunksConcat
<1>6. PICK rest \in Chunks : sentDown = gotDown \o (downNet \o rest)
  BY DEF TunnelInv, DownInv
<1>7. \A rest1 \in Chunks : sentDown = gotDown \o (downNet \o rest1)
        => sentDown' = gotDown' \o (downNet' \o (rest1 \o one))
  <2> SUFFICES ASSUME NEW rest1 \in Chunks, sentDown = gotDown \o (downNet \o rest1)
               PROVE  sentDown' = gotDown' \o (downNet' \o (rest1 \o one))
    OBVIOUS
  <2>1. gotDown \in Chunks /\ downNet \in Chunks /\ one \in Chunks
    BY <1>3, <1>4
  <2>2. (downNet \o rest1) \o one = downNet \o (rest1 \o one)
    BY <2>1, ChunksAssociate
  <2> DEFINE held == downNet \o rest1
  <2>3. held \in Chunks
    BY <2>1, ChunksConcat
  <2>4. sentDown = gotDown \o held /\ held \o one = downNet \o (rest1 \o one)
    BY <2>2
  <2> HIDE DEF held
  <2>5. (gotDown \o held) \o one = gotDown \o (held \o one)
    <3>1. gotDown \in Chunks /\ held \in Chunks /\ one \in Chunks
      BY <2>1, <2>3
    <3> QED
      BY <3>1, ChunksAssociate
  <2> QED
    BY <1>2, <1>4, <2>4, <2>5
<1>8. \E rest1 \in Chunks : sentDown' = gotDown' \o (downNet' \o rest1)
  <2>1. rest \o one \in Chunks
    BY <1>4, <1>6, ChunksConcat
  <2> QED
    BY <1>6, <1>7, <2>1
<1>9. down' # "done" \/ ~faulted' => sentDown' = gotDown' \o (downNet' \o (downBuf' \o downSock'))
  <2>1. downBuf \o downSock \in Chunks
    BY <1>3, ChunksConcat
  <2>2. downBuf \in Chunks /\ downSock \in Chunks /\ one \in Chunks
    BY <1>3, <1>4
  <2>3. (downBuf \o downSock) \o one = downBuf \o (downSock \o one)
    BY <2>2, ChunksAssociate
  <2>4. down # "done" \/ ~faulted => sentDown = gotDown \o (downNet \o (downBuf \o downSock))
    BY DEF TunnelInv, DownInv
  <2> DEFINE held == downBuf \o downSock
  <2>5. held \in Chunks /\ held \o one = downBuf' \o downSock'
    BY <1>2, <1>4, <2>1, <2>3
  <2>6. down # "done" \/ ~faulted => sentDown = gotDown \o (downNet \o held)
    BY <2>4
  <2> HIDE DEF held
  <2> QED
    BY <1>2, <1>7, <2>5, <2>6
<1>10. down' # "write" => downBuf' = <<>>
  BY <1>2 DEF TunnelInv, DownInv
<1>11. /\ ~(~faulted' /\ down' = "done")
       /\ ~faulted' /\ recv' = "ended" => gwFin' /\ downNet' = <<>>
  BY <1>2 DEF TunnelInv, DownInv
<1> QED
  BY <1>2, <1>3, <1>5, <1>8, <1>9, <1>10, <1>11 DEF DownInv

LEMMA DownOfDownReads ==
  ASSUME TunnelInv, DownReads
  PROVE  DownInv'
<1>1. /\ down = "read" /\ down' = "write" /\ downSock # <<>>
      /\ downBuf' = <<Head(downSock)>> /\ downSock' = Tail(downSock)
      /\ UNCHANGED <<recv, peer, gwFin, sentDown, gotDown, downNet, faulted>>
  BY DEF DownReads, client, stream
<1>2. /\ sentDown \in Chunks /\ gotDown \in Chunks /\ downNet \in Chunks
      /\ downSock \in Chunks /\ downBuf = <<>>
  BY <1>1 DEF TunnelInv, DownInv
<1>3. downBuf' \in Chunks /\ downSock' \in Chunks /\ downSock = downBuf' \o downSock'
  BY <1>1, <1>2, ChunksHead
<1>4. sentDown = gotDown \o (downNet \o (downBuf \o downSock))
  BY <1>1 DEF TunnelInv, DownInv
<1>5. downBuf \o downSock = downSock
  BY <1>2, ChunksConcat
<1>6. sentDown' = gotDown' \o (downNet' \o (downBuf' \o downSock'))
  BY <1>1, <1>3, <1>4, <1>5
<1>7. \E rest \in Chunks : sentDown' = gotDown' \o (downNet' \o rest)
  BY <1>1, <1>2, <1>4, <1>5
<1>8. ~faulted' /\ recv' = "ended" => gwFin' /\ downNet' = <<>>
  BY <1>1 DEF TunnelInv, DownInv
<1> QED
  BY <1>1, <1>2, <1>3, <1>6, <1>7, <1>8 DEF DownInv

LEMMA DownOfDownWrites ==
  ASSUME TunnelInv, DownWrites
  PROVE  DownInv'
<1>1. /\ down = "write" /\ down' = "read" /\ downNet' = downNet \o downBuf /\ downBuf' = <<>>
      /\ recv = "open"
      /\ UNCHANGED <<recv, peer, gwFin, sentDown, gotDown, downSock, faulted>>
  BY DEF DownWrites, client, upstream
<1>2. /\ sentDown \in Chunks /\ gotDown \in Chunks /\ downNet \in Chunks
      /\ downSock \in Chunks /\ downBuf \in Chunks
  BY DEF TunnelInv, DownInv
<1>3. downNet' \in Chunks /\ downBuf' \in Chunks /\ downBuf' \o downSock' = downSock
  BY <1>1, <1>2, ChunksConcat
<1>4. sentDown = gotDown \o (downNet \o (downBuf \o downSock))
  BY <1>1 DEF TunnelInv, DownInv
<1>5. (downNet \o downBuf) \o downSock = downNet \o (downBuf \o downSock)
  BY <1>2, ChunksAssociate
<1>6. sentDown' = gotDown' \o (downNet' \o downSock)
  BY <1>1, <1>4, <1>5
<1> QED
  BY <1>1, <1>2, <1>3, <1>6 DEF DownInv

LEMMA DownOfClientReads ==
  ASSUME TunnelInv, ClientReads
  PROVE  DownInv'
<1>1. /\ recv = "open" /\ downNet # <<>>
      /\ gotDown' = Append(gotDown, Head(downNet)) /\ downNet' = Tail(downNet)
      /\ UNCHANGED <<recv, peer, gwFin, sentDown, downSock, down, downBuf, faulted>>
  BY DEF ClientReads, copies, upstream
<1>2. /\ sentDown \in Chunks /\ gotDown \in Chunks /\ downNet \in Chunks
      /\ downSock \in Chunks /\ downBuf \in Chunks
  BY DEF TunnelInv, DownInv
<1>3. /\ Tail(downNet) \in Chunks
      /\ \E one \in Chunks : Append(gotDown, Head(downNet)) = gotDown \o one /\ downNet = one \o Tail(downNet)
  <2>1. /\ <<Head(downNet)>> \in Chunks /\ Tail(downNet) \in Chunks /\ Head(downNet) \in Nat
        /\ downNet = <<Head(downNet)>> \o Tail(downNet)
    BY <1>1, <1>2, ChunksHead
  <2>2. Append(gotDown, Head(downNet)) = gotDown \o <<Head(downNet)>>
    BY <1>2, <2>1, AppendIsConcat DEF Chunks
  <2> QED
    BY <2>1, <2>2
<1>4. PICK one \in Chunks : gotDown' = gotDown \o one /\ downNet = one \o downNet'
  BY <1>1, <1>3
<1>5. downNet' \in Chunks /\ gotDown' \in Chunks
  BY <1>1, <1>2, <1>3, <1>4, ChunksConcat
<1>6. \A rest \in Chunks : gotDown \o (downNet \o rest) = gotDown' \o (downNet' \o rest)
  <2> SUFFICES ASSUME NEW rest \in Chunks
               PROVE  gotDown \o (downNet \o rest) = gotDown' \o (downNet' \o rest)
    OBVIOUS
  <2> DEFINE net == downNet'
  <2> DEFINE more == net \o rest
  <2>1. one \in Chunks /\ net \in Chunks /\ gotDown \in Chunks
    BY <1>2, <1>4, <1>5
  <2>2. downNet = one \o net /\ gotDown' = gotDown \o one
    BY <1>4
  <2>3. (one \o net) \o rest = one \o more
    <3> HIDE DEF net
    <3> QED
      BY <2>1, ChunksAssociate
  <2>4. more \in Chunks
    <3> HIDE DEF net
    <3> QED
      BY <2>1, ChunksConcat
  <2> HIDE DEF more
  <2>5. (gotDown \o one) \o more = gotDown \o (one \o more)
    BY <2>1, <2>4, ChunksAssociate
  <2> QED
    BY <2>2, <2>3, <2>5 DEF more
<1>7. \E rest \in Chunks : sentDown' = gotDown' \o (downNet' \o rest)
  BY <1>1, <1>6 DEF TunnelInv, DownInv
<1>8. down' # "done" \/ ~faulted' => sentDown' = gotDown' \o (downNet' \o (downBuf' \o downSock'))
  <2>1. downBuf \o downSock \in Chunks
    BY <1>2, ChunksConcat
  <2> QED
    BY <1>1, <1>6, <2>1 DEF TunnelInv, DownInv
<1>9. /\ down' # "write" => downBuf' = <<>>
      /\ ~faulted' /\ down' = "done" => peer' = "fin" /\ downSock' = <<>>
  BY <1>1 DEF TunnelInv, DownInv
<1> QED
  BY <1>1, <1>2, <1>5, <1>7, <1>8, <1>9 DEF DownInv

LEMMA DownStep ==
  ASSUME TunnelInv, [Next]_vars
  PROVE  DownInv'
<1>0. recv = "ended" /\ ~faulted => gwFin /\ downNet = <<>>
  BY DEF TunnelInv, DownInv
<1>1. CASE Client
  <2>1. CASE ClientReads
    BY <2>1, DownOfClientReads
  <2>2. CASE ClientWrites \/ ClientEnds \/ ClientSeesEnd \/ ClientDestroys
    <3>1. /\ UNCHANGED <<sentDown, gotDown, downBuf, downNet, downSock, down, peer, gwFin>>
          /\ ~faulted' => ~faulted
      BY <2>2 DEF ClientWrites, ClientEnds, ClientSeesEnd, ClientDestroys, stream, copies,
         upstream
    <3>2. recv' = recv \/ recv' = "cancelled" \/ (recv' = "ended" /\ downNet = <<>> /\ gwFin)
      BY <2>2 DEF ClientWrites, ClientEnds, ClientSeesEnd, ClientDestroys
    <3>3. ~faulted' => /\ peer = "fin" => peer' = "fin"
                       /\ recv' = "ended" => gwFin' /\ downNet' = <<>>
      BY <1>0, <3>1, <3>2
    <3> QED
      BY <3>1, <3>3, DownFrame
  <2> QED
    BY <1>1, <2>1, <2>2 DEF Client
<1>2. CASE Peer
  <2>1. CASE PeerSends
    BY <2>1, DownOfPeerSends
  <2>2. CASE PeerEnds \/ PeerResets
    <3>1. /\ UNCHANGED <<sentDown, gotDown, downBuf, downNet, downSock, down, recv, gwFin>>
          /\ ~faulted' => ~faulted
          /\ ~faulted' => peer' = "fin"
      BY <2>2 DEF PeerEnds, PeerResets, client, stream, copies
    <3> QED
      BY <1>0, <3>1, DownFrame
  <2> QED
    BY <1>2, <2>1, <2>2 DEF Peer
<1>3. CASE Session \/ Up \/ UNCHANGED vars
  <2>1. /\ UNCHANGED <<sentDown, gotDown, downBuf, downNet, downSock, down, recv, gwFin, peer>>
        /\ ~faulted' => ~faulted
    <3>1. CASE Session \/ UNCHANGED vars
      BY <3>1 DEF Session, LifetimeExpires, SessionLost, SessionCloses, client, stream, copies,
         upstream, vars
    <3>2. CASE UpReads \/ UpWrites \/ UpEof
      BY <3>2 DEF UpReads, UpWrites, UpEof, UpDone, client, stream, upstream
    <3>3. CASE UpFails
      <4>1. faulted'
        BY <3>3, UpEndsWithoutFault
      <4>2. PICK result : UpDone(result)
        BY <3>3 DEF UpFails
      <4> QED
        BY <4>1, <4>2 DEF UpDone, client, stream
    <3> QED
      BY <1>3, <3>1, <3>2, <3>3 DEF Up
  <2> QED
    BY <1>0, <2>1, DownFrame
<1>4. CASE Down \/ DownIdles
  <2>1. CASE DownEof
    BY <2>1, DownOfDownDone DEF DownEof
  <2>2. CASE DownFails \/ DownIdles
    <3>1. PICK result : DownDone(result) /\ down \in {"read", "write"}
      BY <2>2 DEF DownFails, DownIdles
    <3>2. faulted'
      BY <2>2, DownEndsWithoutFault
    <3> QED
      BY <3>1, <3>2, DownOfDownDone
  <2> QED
    BY <1>4, <2>1, <2>2, DownOfDownReads, DownOfDownWrites DEF Down
<1>5. CASE Main
  <2>1. /\ UNCHANGED <<sentDown, gotDown, downBuf, downNet, downSock, recv, peer>>
        /\ ~faulted' => ~faulted
        /\ down' = down \/ (down = "idle" /\ down' = "read")
        /\ gwFin => gwFin'
    <3>1. run = "dialing" => down = "idle"
      BY DEF TunnelInv, RunInv
    <3>2. CASE Dial
      BY <3>1, <3>2 DEF Dial, client, stream
    <3>3. CASE DialFails
      BY <3>3 DEF DialFails, client, stream, copies, upstream
    <3>4. CASE FirstResult
      BY <3>4 DEF FirstResult, CloseBoth, client
    <3>5. CASE SecondResult \/ ContextDone
      BY <3>5 DEF SecondResult, ContextDone, RunReturns, CloseBoth, client
    <3> QED
      BY <1>5, <3>2, <3>3, <3>4, <3>5 DEF Main
  <2> QED
    BY <1>0, <2>1, DownFrame
<1> QED
  BY <1>1, <1>2, <1>3, <1>4, <1>5 DEF Next
-----------------------------------------------------------------------------
LEMMA ControlStep ==
  ASSUME TunnelInv, [Next]_vars
  PROVE  FaultInv' /\ RunInv'
<1>1. CASE UNCHANGED vars
  BY <1>1 DEF vars, client, stream, copies, upstream, session, TunnelInv, FaultInv, RunInv, Done
<1> QED
  BY <1>1, ClientControl, PeerControl, SessionControl, UpControl, DownControl, MainControl DEF Next

LEMMA InvariantIsIntact == TunnelInv => Intact
<1> SUFFICES ASSUME TunnelInv PROVE Intact
  OBVIOUS
<1>1. /\ sentUp \in Chunks /\ gotUp \in Chunks /\ upBuf \in Chunks /\ upNet \in Chunks
      /\ sentDown \in Chunks /\ gotDown \in Chunks /\ downNet \in Chunks
      /\ downBuf \in Chunks /\ downSock \in Chunks
  BY DEF TunnelInv, UpInv, DownInv
<1>2. IsPrefix(gotUp, sentUp)
  <2>1. PICK rest \in Chunks : sentUp = gotUp \o rest
    BY DEF TunnelInv, UpInv
  <2> QED
    BY <1>1, <2>1, PrefixOfConcat
<1>3. IsPrefix(gotDown, sentDown)
  <2>1. PICK rest \in Chunks : sentDown = gotDown \o (downNet \o rest)
    BY DEF TunnelInv, DownInv
  <2>2. downNet \o rest \in Chunks
    BY <1>1, <2>1, ChunksConcat
  <2> QED
    BY <1>1, <2>1, <2>2, PrefixOfConcat
<1>4. ASSUME ~faulted
      PROVE  /\ gotUp \o upBuf \o upNet = sentUp
             /\ gotDown \o downNet \o downBuf \o downSock = sentDown
  <2>1. sentUp = gotUp \o (upBuf \o upNet) /\ sentDown = gotDown \o (downNet \o (downBuf \o downSock))
    BY <1>4 DEF TunnelInv, UpInv, DownInv
  <2>2. (gotUp \o upBuf) \o upNet = gotUp \o (upBuf \o upNet)
    <3>1. gotUp \in Chunks /\ upBuf \in Chunks /\ upNet \in Chunks
      BY <1>1
    <3> QED
      BY <3>1, ChunksAssociate
  <2>3. ((gotDown \o downNet) \o downBuf) \o downSock = gotDown \o (downNet \o (downBuf \o downSock))
    <3> DEFINE ahead == gotDown \o downNet
    <3> DEFINE behind == downBuf \o downSock
    <3>1. ahead \in Chunks /\ behind \in Chunks
      BY <1>1, ChunksConcat
    <3>2. (gotDown \o downNet) \o behind = gotDown \o (downNet \o behind)
      <4>1. gotDown \in Chunks /\ downNet \in Chunks /\ behind \in Chunks
        BY <1>1, <3>1
      <4> HIDE DEF behind
      <4> QED
        BY <4>1, ChunksAssociate
    <3>3. (ahead \o downBuf) \o downSock = ahead \o (downBuf \o downSock)
      <4>1. ahead \in Chunks /\ downBuf \in Chunks /\ downSock \in Chunks
        BY <1>1, <3>1
      <4> HIDE DEF ahead
      <4> QED
        BY <4>1, ChunksAssociate
    <3> QED
      BY <3>2, <3>3
  <2> QED
    BY <2>1, <2>2, <2>3
<1>5. ASSUME ~faulted, upFin PROVE gotUp = sentUp
  <2>1. upNet = <<>> /\ upBuf = <<>> /\ sentUp = gotUp \o (upBuf \o upNet)
    BY <1>5 DEF TunnelInv, UpInv
  <2> QED
    BY <1>1, <2>1, ChunksConcat
<1>6. ASSUME ~faulted, recv = "ended" PROVE gotDown = sentDown
  <2>1. gwFin /\ downNet = <<>>
    BY <1>6 DEF TunnelInv, DownInv
  <2>2. down = "done"
    BY <1>6, <2>1 DEF TunnelInv, RunInv
  <2>3. downSock = <<>> /\ downBuf = <<>>
    BY <1>6, <2>2 DEF TunnelInv, DownInv
  <2>4. sentDown = gotDown \o (<<>> \o (<<>> \o <<>>))
    BY <1>6, <2>1, <2>3 DEF TunnelInv, DownInv
  <2> QED
    BY <1>1, <2>4, ChunksConcat
<1> QED
  BY <1>2, <1>3, <1>4, <1>5, <1>6 DEF Intact

(* Whatever breaks, neither end has anything the other did not send, in     *)
(* that order; while nothing has broken nothing is missing in between, and  *)
(* the end of a side is seen after all of its bytes (proxy.go:40-80).       *)
THEOREM IntactTheorem == Spec => []Intact
<1>1. TunnelInv /\ [Next]_vars => TunnelInv'
  BY ControlStep, UpStep, DownStep DEF TunnelInv
<1> QED
  BY <1>1, TunnelInit, InvariantIsIntact, PTL DEF Spec
-----------------------------------------------------------------------------
(* What a copy holds, and what it has passed on: one chunk while it writes, *)
(* one result and, on the way up, the half-close when it is done.           *)
HeldInv ==
    /\ up = "write" => Len(upBuf) = 1
    /\ down = "write" => Len(downBuf) = 1
    /\ upFin => up = "done"
    /\ Len(errch) <= Done(up) + Done(down)
    /\ send \in {"open", "fin", "reset"}
    /\ conn \in {"none", "open", "closed"}
    /\ peer \in {"open", "fin", "reset"}

LEMMA HeldInit == Init => HeldInv
<1>1. ASSUME Init PROVE Len(errch) = 0 /\ up = "idle" /\ down = "idle"
  BY <1>1, EmptySeq DEF Init
<1> QED
  BY <1>1 DEF Init, HeldInv, Done

LEMMA ResultSent ==
  ASSUME TunnelInv, NEW result, errch' = Append(errch, result)
  PROVE  Len(errch') = Len(errch) + 1 /\ Len(errch) \in Nat
BY AppendProperties, LenProperties DEF TunnelInv, FaultInv

LEMMA HeldStep ==
  ASSUME TunnelInv, HeldInv, [Next]_vars
  PROVE  HeldInv'
<1>0. Len(errch) \in Nat
  BY LenProperties DEF TunnelInv, FaultInv
<1>1. CASE Client
  <2>1. UNCHANGED <<up, upBuf, down, downBuf, errch, upFin, conn, peer>>
    BY <1>1 DEF Client, ClientWrites, ClientEnds, ClientReads, ClientSeesEnd, ClientDestroys,
       copies, upstream
  <2>2. send' \in {"open", "fin", "reset"}
    BY <1>1 DEF Client, ClientWrites, ClientEnds, ClientReads, ClientSeesEnd, ClientDestroys,
       HeldInv
  <2> QED
    BY <2>1, <2>2 DEF HeldInv, Done
<1>2. CASE Peer
  <2>1. UNCHANGED <<up, upBuf, down, downBuf, errch, upFin, conn, send>>
    BY <1>2 DEF Peer, PeerSends, PeerEnds, PeerResets, copies, client
  <2>2. peer' \in {"open", "fin", "reset"}
    BY <1>2 DEF Peer, PeerSends, PeerEnds, PeerResets, HeldInv
  <2> QED
    BY <2>1, <2>2 DEF HeldInv, Done
<1>3. CASE Session \/ UNCHANGED vars
  <2>1. UNCHANGED <<up, upBuf, down, downBuf, errch, upFin, conn, peer, send>>
    BY <1>3 DEF Session, LifetimeExpires, SessionLost, SessionCloses, copies, client, upstream, vars
  <2> QED
    BY <2>1 DEF HeldInv, Done
<1>4. CASE Up
  <2>1. CASE UpReads
    <3>1. /\ up = "read" /\ up' = "write" /\ upBuf' = <<Head(upNet)>>
          /\ UNCHANGED <<down, downBuf, errch, upFin, conn, peer, send>>
      BY <2>1 DEF UpReads, upstream, client
    <3>2. Len(upBuf') = 1
      BY <3>1
    <3> QED
      BY <3>1, <3>2 DEF HeldInv, Done
  <2>2. CASE UpWrites
    <3>1. /\ up = "write" /\ up' = "read"
          /\ UNCHANGED <<down, downBuf, errch, upFin, conn, peer, send>>
      BY <2>2 DEF UpWrites, client
    <3> QED
      BY <3>1 DEF HeldInv, Done
  <2>3. CASE UpEof \/ UpFails
    <3>1. PICK result : UpDone(result) /\ up \in {"read", "write"}
      BY <2>3 DEF UpEof, UpFails
    <3>2. /\ up' = "done" /\ errch' = Append(errch, result)
          /\ UNCHANGED <<down, downBuf, conn, peer, send>>
      BY <3>1 DEF UpDone, client
    <3>3. Len(errch') = Len(errch) + 1
      BY <3>2, ResultSent
    <3>4. Done(up') + Done(down') = Done(up) + Done(down) + 1
      BY <3>1, <3>2 DEF Done
    <3>5. Done(up) + Done(down) \in Nat
      BY DEF Done
    <3>6. Len(errch') <= Done(up') + Done(down')
      BY <1>0, <3>3, <3>4, <3>5 DEF HeldInv
    <3> QED
      BY <3>2, <3>6 DEF HeldInv
  <2> QED
    BY <1>4, <2>1, <2>2, <2>3 DEF Up
<1>5. CASE Down \/ DownIdles
  <2>1. CASE DownReads
    <3>1. /\ down = "read" /\ down' = "write" /\ downBuf' = <<Head(downSock)>>
          /\ UNCHANGED <<up, upBuf, errch, upFin, conn, peer, send>>
      BY <2>1 DEF DownReads, client
    <3>2. Len(downBuf') = 1
      BY <3>1
    <3> QED
      BY <3>1, <3>2 DEF HeldInv, Done
  <2>2. CASE DownWrites
    <3>1. /\ down = "write" /\ down' = "read"
          /\ UNCHANGED <<up, upBuf, errch, upFin, conn, peer, send>>
      BY <2>2 DEF DownWrites, client, upstream
    <3> QED
      BY <3>1 DEF HeldInv, Done
  <2>3. CASE DownEof \/ DownFails \/ DownIdles
    <3>1. PICK result : DownDone(result) /\ down \in {"read", "write"}
      BY <2>3 DEF DownEof, DownFails, DownIdles
    <3>2. /\ down' = "done" /\ errch' = Append(errch, result)
          /\ UNCHANGED <<up, upBuf, upFin, conn, peer, send>>
      BY <3>1 DEF DownDone, client, upstream
    <3>3. Len(errch') = Len(errch) + 1
      BY <3>2, ResultSent
    <3>4. Done(up') + Done(down') = Done(up) + Done(down) + 1
      BY <3>1, <3>2 DEF Done
    <3>5. Done(up) + Done(down) \in Nat
      BY DEF Done
    <3>6. Len(errch') <= Done(up') + Done(down')
      BY <1>0, <3>3, <3>4, <3>5 DEF HeldInv
    <3> QED
      BY <3>2, <3>6 DEF HeldInv
  <2> QED
    BY <1>5, <2>1, <2>2, <2>3 DEF Down
<1>6. CASE Main
  <2>1. CASE Dial \/ DialFails
    <3>1. /\ UNCHANGED <<upBuf, downBuf, errch, upFin, peer, send>>
          /\ up = "idle" /\ down = "idle"
          /\ up' \in {"idle", "read"} /\ down' \in {"idle", "read"}
          /\ conn' \in {conn, "open"}
      BY <2>1 DEF Dial, DialFails, copies, client, upstream, TunnelInv, RunInv
    <3> QED
      BY <3>1 DEF HeldInv, Done
  <2>2. CASE FirstResult \/ SecondResult \/ ContextDone
    <3>1. /\ UNCHANGED <<up, upBuf, down, downBuf, upFin, peer, send>>
          /\ conn' \in {conn, "closed"}
          /\ errch' = errch \/ (errch # <<>> /\ errch' = Tail(errch))
      BY <2>2 DEF FirstResult, SecondResult, ContextDone, RunReturns, CloseBoth, client
    <3>2. Len(errch') = Len(errch) \/ Len(errch') = Len(errch) - 1
      <4>1. CASE errch # <<>> /\ errch' = Tail(errch)
        BY <4>1, HeadTailProperties DEF TunnelInv, FaultInv
      <4> QED
        BY <3>1, <4>1
    <3>3. Done(up) + Done(down) \in Nat /\ Done(up') + Done(down') = Done(up) + Done(down)
      BY <3>1 DEF Done
    <3>4. Len(errch') <= Done(up') + Done(down')
      BY <1>0, <3>2, <3>3 DEF HeldInv
    <3> QED
      BY <3>1, <3>4 DEF HeldInv
  <2> QED
    BY <1>6, <2>1, <2>2 DEF Main
<1> QED
  BY <1>1, <1>2, <1>3, <1>4, <1>5, <1>6 DEF Next

LEMMA TunnelInvariance == Spec => [](TunnelInv /\ HeldInv)
<1>1. TunnelInv /\ HeldInv /\ [Next]_vars => (TunnelInv /\ HeldInv)'
  BY ControlStep, UpStep, DownStep, HeldStep DEF TunnelInv
<1> QED
  BY <1>1, TunnelInit, HeldInit, PTL DEF Spec

(* Every variable keeps its type, a copy holds a chunk exactly while it     *)
(* writes, and the two copies never send more results than errch has room   *)
(* for, so that neither blocks when Run has returned (proxy.go:43-60).      *)
THEOREM TypeCorrect == Spec => []TypeOK
<1>1. TunnelInv /\ HeldInv => TypeOK
  <2> SUFFICES ASSUME TunnelInv, HeldInv PROVE TypeOK
    OBVIOUS
  <2>1. Len(<<>>) = 0
    BY EmptySeq
  <2>2. /\ Len(upBuf) = (IF up = "write" THEN 1 ELSE 0)
        /\ Len(downBuf) = (IF down = "write" THEN 1 ELSE 0)
    BY <2>1 DEF HeldInv, TunnelInv, UpInv, DownInv
  <2>3. Len(errch) <= 2
    <3>1. Len(errch) \in Nat
      BY LenProperties DEF TunnelInv, FaultInv
    <3> QED
      BY <3>1 DEF HeldInv, Done
  <2> QED
    BY <2>2, <2>3 DEF TypeOK, HeldInv, TunnelInv, FaultInv, RunInv, Result
<1> QED
  BY <1>1, TunnelInvariance, PTL
-----------------------------------------------------------------------------
(* Refinement: what happens between the ends of a way is invisible to its   *)
(* Channel, and each visible step is one of the Channel's.                  *)

NextOf(sent, got, one) ==
    /\ Len(got) < Len(sent)
    /\ got \o one = Append(got, sent[Len(got) + 1])

(* The next chunk of what was sent is the first that is still under way.    *)
LEMMA NextChunk ==
  ASSUME NEW got \in Chunks, NEW one \in Chunks, Len(one) = 1, NEW rest \in Chunks,
         NEW sent \in Chunks, sent = got \o (one \o rest)
  PROVE  NextOf(sent, got, one)
<1> DEFINE more == one \o rest
<1>1. /\ more \in Chunks /\ Len(more) = 1 + Len(rest) /\ more[1] = one[1]
      /\ Len(rest) \in Nat /\ Len(got) \in Nat
  <2>1. Len(rest) \in Nat /\ Len(got) \in Nat
    BY LenProperties DEF Chunks
  <2>2. /\ one \o rest \in Seq(Nat) /\ Len(one \o rest) = Len(one) + Len(rest)
        /\ \A i \in 1..(Len(one) + Len(rest)) :
              (one \o rest)[i] = IF i <= Len(one) THEN one[i] ELSE rest[i - Len(one)]
    BY ConcatProperties DEF Chunks
  <2>3. 1 \in 1..(Len(one) + Len(rest)) /\ 1 <= Len(one)
    BY <2>1
  <2> QED
    BY <2>1, <2>2, <2>3 DEF Chunks
<1> HIDE DEF more
<1>2. /\ sent \in Chunks /\ Len(sent) = Len(got) + Len(more)
      /\ sent[Len(got) + 1] = more[(Len(got) + 1) - Len(got)]
  <2>1. sent = got \o more
    BY DEF more
  <2>2. Len(got) + 1 \in 1..(Len(got) + Len(more)) /\ ~(Len(got) + 1 <= Len(got))
    BY <1>1
  <2>3. /\ got \o more \in Seq(Nat) /\ Len(got \o more) = Len(got) + Len(more)
        /\ \A i \in 1..(Len(got) + Len(more)) :
              (got \o more)[i] = IF i <= Len(got) THEN got[i] ELSE more[i - Len(got)]
    BY <1>1, ConcatProperties DEF Chunks
  <2> QED
    BY <2>1, <2>2, <2>3 DEF Chunks
<1>3. sent[Len(got) + 1] = one[1]
  BY <1>1, <1>2
<1>4. one = <<one[1]>> /\ one[1] \in Nat
  <2>1. one[1] \in Nat
    <3>1. 1 \in 1..Len(one)
      OBVIOUS
    <3> QED
      BY <3>1, ElementOfSeq DEF Chunks
  <2>2. Len(<<one[1]>>) = 1 /\ <<one[1]>>[1] = one[1] /\ <<one[1]>> \in Seq(Nat)
    BY <2>1
  <2>3. \A i \in 1..Len(one) : one[i] = <<one[1]>>[i]
    BY <2>2
  <2> QED
    BY <2>1, <2>2, <2>3, SeqEqual DEF Chunks
<1>5. Append(got, one[1]) = got \o <<one[1]>>
  BY <1>4, AppendIsConcat DEF Chunks
<1>6. Len(got) < Len(sent)
  BY <1>1, <1>2
<1> QED
  BY <1>3, <1>4, <1>5, <1>6 DEF NextOf

(* A step that moves no chunk breaks the channel, ends it for one side of   *)
(* it that is broken already, or shows nothing.                             *)
LEMMA UpFaults ==
  ASSUME TunnelInv, faulted', UNCHANGED <<sentUp, gotUp>>,
         send # "open" => send' # "open", upFin => upFin', upFin' \in BOOLEAN,
         UNCHANGED upFin \/ UNCHANGED send
  PROVE  UpChannel!Next \/ UNCHANGED UpChannel!vars
<1>0. faulted \in BOOLEAN /\ upFin \in BOOLEAN
  BY DEF TunnelInv, RunInv
<1>1. CASE ~faulted
  <2>1. (send' # "open") \in {(send # "open"), TRUE} /\ upFin' \in {upFin, TRUE}
    BY <1>0
  <2>2. UpChannel!Break
    BY <1>1, <2>1 DEF UpChannel!Break
  <2> QED
    BY <2>2 DEF UpChannel!Next
<1>2. CASE faulted /\ send = "open" /\ send' # "open"
  <2>1. UpChannel!End
    BY <1>0, <1>2 DEF UpChannel!End
  <2> QED
    BY <2>1 DEF UpChannel!Next
<1>3. CASE faulted /\ ~upFin /\ upFin' /\ UNCHANGED send
  <2>1. UpChannel!SeeEnd
    BY <1>0, <1>3 DEF UpChannel!SeeEnd
  <2> QED
    BY <2>1 DEF UpChannel!Next
<1>4. CASE faulted /\ UNCHANGED upFin /\ (send' = "open" <=> send = "open")
  BY <1>0, <1>4 DEF UpChannel!vars
<1> QED
  BY <1>0, <1>1, <1>2, <1>3, <1>4

LEMMA UpRefines ==
  ASSUME TunnelInv, HeldInv, [Next]_vars
  PROVE  UpChannel!Next \/ UNCHANGED UpChannel!vars
<1>0. /\ faulted \in BOOLEAN /\ upFin \in BOOLEAN
      /\ sentUp \in Chunks /\ gotUp \in Chunks /\ upBuf \in Chunks /\ upNet \in Chunks
  BY DEF TunnelInv, RunInv, UpInv
<1>1. CASE ClientWrites
  <2>1. Len(sentUp) + 1 \in 1..MaxUp
    BY <1>0, <1>1, LenProperties, BoundsAssumption DEF ClientWrites, Chunks
  <2>2. UpChannel!Send(Len(sentUp) + 1)
    BY <1>1 DEF ClientWrites, UpChannel!Send, upstream
  <2> QED
    BY <2>1, <2>2 DEF UpChannel!Next
<1>2. CASE ClientEnds
  <2>1. UpChannel!End
    BY <1>2 DEF ClientEnds, UpChannel!End, upstream
  <2> QED
    BY <2>1 DEF UpChannel!Next
<1>3. CASE ClientDestroys
  <2>1. /\ faulted' /\ UNCHANGED <<sentUp, gotUp, upFin>> /\ upFin' \in BOOLEAN
        /\ send # "open" => send' # "open"
    BY <1>0, <1>3 DEF ClientDestroys, upstream
  <2> QED
    BY <2>1, UpFaults
<1>4. CASE UpWrites
  <2>1. /\ up = "write" /\ gotUp' = gotUp \o upBuf
        /\ UNCHANGED <<sentUp, send, upFin, faulted>>
    BY <1>4 DEF UpWrites, client
  <2>2. Len(upBuf) = 1 /\ ~upFin /\ sentUp = gotUp \o (upBuf \o upNet)
    BY <2>1 DEF HeldInv, TunnelInv, UpInv
  <2>3. Len(gotUp) < Len(sentUp) /\ gotUp' = Append(gotUp, sentUp[Len(gotUp) + 1])
    <3>1. NextOf(sentUp, gotUp, upBuf)
      <4>1. /\ gotUp \in Chunks /\ upBuf \in Chunks /\ Len(upBuf) = 1 /\ upNet \in Chunks
            /\ sentUp \in Chunks
            /\ sentUp = gotUp \o (upBuf \o upNet)
        BY <1>0, <2>2
      <4> QED
        BY <4>1, NextChunk
    <3> QED
      BY <2>1, <3>1 DEF NextOf
  <2>4. UpChannel!Deliver
    BY <2>1, <2>2, <2>3 DEF UpChannel!Deliver
  <2> QED
    BY <2>4 DEF UpChannel!Next
<1>5. CASE UpEof
  <2>1. /\ up = "read" /\ send = "fin" /\ upNet = <<>>
        /\ UNCHANGED <<sentUp, gotUp, send, faulted>> /\ upFin' \in BOOLEAN /\ (upFin => upFin')
    BY <1>0, <1>5 DEF UpEof, UpDone, HalfClosed, client
  <2>2. gotUp = sentUp
    <3>1. upBuf = <<>> /\ sentUp = gotUp \o (<<>> \o <<>>)
      BY <2>1 DEF TunnelInv, UpInv
    <3> QED
      BY <1>0, <3>1, ChunksConcat
  <2>3. CASE ~upFin /\ upFin'
    <3>1. UpChannel!SeeEnd
      BY <2>1, <2>2, <2>3 DEF UpChannel!SeeEnd
    <3> QED
      BY <3>1 DEF UpChannel!Next
  <2>4. CASE upFin' = upFin
    BY <2>1, <2>4 DEF UpChannel!vars
  <2> QED
    BY <1>0, <2>1, <2>3, <2>4
<1>6. CASE UpFails
  <2>1. PICK result : UpDone(result)
    BY <1>6 DEF UpFails
  <2>2. /\ UNCHANGED <<sentUp, gotUp, send>> /\ upFin' \in BOOLEAN /\ (upFin => upFin')
    BY <1>0, <2>1 DEF UpDone, HalfClosed, client
  <2>3. faulted'
    BY <1>6, UpEndsWithoutFault
  <2> QED
    BY <2>2, <2>3, UpFaults
<1>7. CASE \/ ClientReads \/ ClientSeesEnd \/ Peer \/ Session \/ UpReads \/ Down \/ DownIdles
           \/ Main \/ UNCHANGED vars
  <2>1. UNCHANGED <<sentUp, gotUp, send, upFin>>
    <3>1. CASE ClientReads \/ ClientSeesEnd \/ UpReads
      BY <3>1 DEF ClientReads, ClientSeesEnd, UpReads, client, upstream
    <3>2. CASE Peer \/ Session \/ UNCHANGED vars
      BY <3>2 DEF Peer, Session, PeerSends, PeerEnds, PeerResets, LifetimeExpires, SessionLost,
         SessionCloses, client, upstream, vars
    <3>3. CASE Down \/ DownIdles
      BY <3>3 DEF Down, DownReads, DownWrites, DownEof, DownFails, DownIdles, DownDone, client,
         upstream
    <3>4. CASE Main
      BY <3>4 DEF Main, Dial, DialFails, FirstResult, SecondResult, ContextDone, RunReturns,
         client, upstream
    <3> QED
      BY <1>7, <3>1, <3>2, <3>3, <3>4
  <2>2. faulted' = faulted \/ faulted'
    <3>1. CASE \/ ClientReads \/ ClientSeesEnd \/ UpReads \/ Peer \/ Session \/ UNCHANGED vars
      BY <3>1 DEF ClientReads, ClientSeesEnd, UpReads, Peer, Session, PeerSends, PeerEnds,
         PeerResets, LifetimeExpires, SessionLost, SessionCloses, vars
    <3>2. CASE DownReads \/ DownWrites \/ DownEof
      BY <3>2 DEF DownReads, DownWrites, DownEof
    <3>3. CASE DownFails \/ DownIdles
      BY <3>3, DownEndsWithoutFault
    <3>4. CASE Main
      BY <3>4 DEF Main, Dial, DialFails, FirstResult, SecondResult, ContextDone, RunReturns
    <3> QED
      BY <1>7, <3>1, <3>2, <3>3, <3>4 DEF Down
  <2>3. CASE faulted' = faulted
    BY <2>1, <2>3 DEF UpChannel!vars
  <2>4. CASE faulted'
    BY <1>0, <2>1, <2>4, UpFaults
  <2> QED
    BY <2>2, <2>3, <2>4
<1> QED
  BY <1>1, <1>2, <1>3, <1>4, <1>5, <1>6, <1>7 DEF Next, Client, Up

LEMMA DownFaults ==
  ASSUME TunnelInv, faulted', UNCHANGED <<sentDown, gotDown>>,
         peer # "open" => peer' # "open", recv = "ended" => recv' = "ended",
         ~faulted \/ (peer' = "open" <=> peer = "open") \/ UNCHANGED recv
  PROVE  DownChannel!Next \/ UNCHANGED DownChannel!vars
<1>0. faulted \in BOOLEAN
  BY DEF TunnelInv, RunInv
<1>1. CASE ~faulted
  <2>1. (peer' # "open") \in {(peer # "open"), TRUE} /\ (recv' = "ended") \in {(recv = "ended"), TRUE}
    OBVIOUS
  <2>2. DownChannel!Break
    BY <1>1, <2>1 DEF DownChannel!Break
  <2> QED
    BY <2>2 DEF DownChannel!Next
<1>2. CASE faulted /\ peer = "open" /\ peer' # "open"
  <2>1. DownChannel!End
    BY <1>0, <1>2 DEF DownChannel!End
  <2> QED
    BY <2>1 DEF DownChannel!Next
<1>3. CASE faulted /\ recv # "ended" /\ recv' = "ended" /\ (peer' = "open" <=> peer = "open")
  <2>1. DownChannel!SeeEnd
    BY <1>0, <1>3 DEF DownChannel!SeeEnd
  <2> QED
    BY <2>1 DEF DownChannel!Next
<1>4. CASE faulted /\ (recv' = "ended" <=> recv = "ended") /\ (peer' = "open" <=> peer = "open")
  BY <1>0, <1>4 DEF DownChannel!vars
<1> QED
  BY <1>0, <1>1, <1>2, <1>3, <1>4

LEMMA DownRefines ==
  ASSUME TunnelInv, HeldInv, [Next]_vars
  PROVE  DownChannel!Next \/ UNCHANGED DownChannel!vars
<1>0. /\ faulted \in BOOLEAN
      /\ sentDown \in Chunks /\ gotDown \in Chunks /\ downNet \in Chunks
      /\ downBuf \in Chunks /\ downSock \in Chunks
  BY DEF TunnelInv, RunInv, DownInv
<1>1. CASE PeerSends
  <2>1. Len(sentDown) + 1 \in 1..MaxDown
    BY <1>0, <1>1, LenProperties, BoundsAssumption DEF PeerSends, Chunks
  <2>2. DownChannel!Send(Len(sentDown) + 1)
    BY <1>1 DEF PeerSends, DownChannel!Send, client
  <2> QED
    BY <2>1, <2>2 DEF DownChannel!Next
<1>2. CASE PeerEnds
  <2>1. DownChannel!End
    BY <1>2 DEF PeerEnds, DownChannel!End, client
  <2> QED
    BY <2>1 DEF DownChannel!Next
<1>3. CASE PeerResets \/ ClientDestroys
  <2>1. /\ faulted' /\ UNCHANGED <<sentDown, gotDown>>
        /\ peer # "open" => peer' # "open"
        /\ recv = "ended" => recv' = "ended"
        /\ UNCHANGED recv \/ UNCHANGED peer
    BY <1>3 DEF PeerResets, ClientDestroys, client, upstream
  <2> QED
    BY <2>1, DownFaults
<1>4. CASE ClientReads
  <2>1. /\ recv = "open" /\ downNet # <<>> /\ gotDown' = Append(gotDown, Head(downNet))
        /\ UNCHANGED <<sentDown, recv, peer, faulted>>
    BY <1>4 DEF ClientReads, upstream
  <2> DEFINE one == <<Head(downNet)>>
  <2>2. /\ one \in Chunks /\ Len(one) = 1
        /\ Tail(downNet) \in Chunks /\ downNet = one \o Tail(downNet)
        /\ gotDown' = gotDown \o one
    <3>1. /\ <<Head(downNet)>> \in Chunks /\ Tail(downNet) \in Chunks /\ Head(downNet) \in Nat
          /\ downNet = <<Head(downNet)>> \o Tail(downNet)
      BY <1>0, <2>1, ChunksHead
    <3>2. Append(gotDown, Head(downNet)) = gotDown \o <<Head(downNet)>>
      BY <1>0, <3>1, AppendIsConcat DEF Chunks
    <3>3. Len(<<Head(downNet)>>) = 1
      BY <3>1
    <3> QED
      BY <2>1, <3>1, <3>2, <3>3
  <2> HIDE DEF one
  <2>3. PICK rest \in Chunks : sentDown = gotDown \o (downNet \o rest)
    BY DEF TunnelInv, DownInv
  <2> DEFINE more == Tail(downNet) \o rest
  <2>4. more \in Chunks /\ sentDown = gotDown \o (one \o more)
    <3> DEFINE tail == Tail(downNet)
    <3>1. tail \in Chunks /\ downNet = one \o tail
      BY <2>2
    <3>2. more = tail \o rest
      OBVIOUS
    <3> HIDE DEF tail, more
    <3>3. more \in Chunks
      BY <2>3, <3>1, <3>2, ChunksConcat
    <3>4. (one \o tail) \o rest = one \o (tail \o rest)
      BY <2>2, <2>3, <3>1, ChunksAssociate
    <3> QED
      BY <2>3, <3>1, <3>2, <3>3, <3>4
  <2> HIDE DEF more
  <2>5. NextOf(sentDown, gotDown, one)
    BY <1>0, <2>2, <2>4, NextChunk
  <2>6. Len(gotDown) < Len(sentDown) /\ gotDown' = Append(gotDown, sentDown[Len(gotDown) + 1])
    BY <2>2, <2>5 DEF NextOf
  <2>7. DownChannel!Deliver
    BY <2>1, <2>6 DEF DownChannel!Deliver
  <2> QED
    BY <2>7 DEF DownChannel!Next
<1>5. CASE ClientSeesEnd
  <2>1. /\ recv = "open" /\ recv' = "ended" /\ gwFin /\ downNet = <<>>
        /\ UNCHANGED <<sentDown, gotDown, peer, faulted>>
    BY <1>5 DEF ClientSeesEnd, upstream
  <2>2. ASSUME ~faulted
        PROVE  peer # "open" /\ gotDown = sentDown
    <3>1. down = "done"
      BY <2>1, <2>2 DEF TunnelInv, RunInv
    <3>2. peer = "fin" /\ downSock = <<>> /\ downBuf = <<>>
      BY <2>2, <3>1 DEF TunnelInv, DownInv
    <3>3. sentDown = gotDown \o (<<>> \o (<<>> \o <<>>))
      BY <2>1, <2>2, <3>2 DEF TunnelInv, DownInv
    <3> QED
      BY <1>0, <3>2, <3>3, ChunksConcat
  <2>3. DownChannel!SeeEnd
    BY <1>0, <2>1, <2>2 DEF DownChannel!SeeEnd
  <2> QED
    BY <2>3 DEF DownChannel!Next
<1>6. CASE \/ ClientWrites \/ ClientEnds \/ Session \/ Up \/ Down \/ DownIdles \/ Main
           \/ UNCHANGED vars
  <2>1. UNCHANGED <<sentDown, gotDown, peer, recv>>
    <3>1. CASE ClientWrites \/ ClientEnds \/ Session \/ UNCHANGED vars
      BY <3>1 DEF ClientWrites, ClientEnds, Session, LifetimeExpires, SessionLost,
         SessionCloses, client, upstream, vars
    <3>2. CASE Up
      BY <3>2 DEF Up, UpReads, UpWrites, UpEof, UpFails, UpDone, client, upstream
    <3>3. CASE Down \/ DownIdles
      BY <3>3 DEF Down, DownReads, DownWrites, DownEof, DownFails, DownIdles, DownDone, client,
         upstream
    <3>4. CASE Main
      BY <3>4 DEF Main, Dial, DialFails, FirstResult, SecondResult, ContextDone, RunReturns,
         client, upstream
    <3> QED
      BY <1>6, <3>1, <3>2, <3>3, <3>4
  <2>2. faulted' = faulted \/ faulted'
    <3>1. CASE ClientWrites \/ ClientEnds \/ Session \/ UNCHANGED vars
      BY <3>1 DEF ClientWrites, ClientEnds, Session, LifetimeExpires, SessionLost,
         SessionCloses, vars
    <3>2. CASE UpReads \/ UpWrites \/ UpEof \/ DownReads \/ DownWrites \/ DownEof
      BY <3>2 DEF UpReads, UpWrites, UpEof, DownReads, DownWrites, DownEof
    <3>3. CASE UpFails \/ DownFails \/ DownIdles
      BY <3>3, UpEndsWithoutFault, DownEndsWithoutFault
    <3>4. CASE Main
      BY <3>4 DEF Main, Dial, DialFails, FirstResult, SecondResult, ContextDone, RunReturns
    <3> QED
      BY <1>6, <3>1, <3>2, <3>3, <3>4 DEF Up, Down
  <2>3. CASE faulted' = faulted
    BY <2>1, <2>3 DEF DownChannel!vars
  <2>4. CASE faulted'
    BY <2>1, <2>4, DownFaults
  <2> QED
    BY <2>2, <2>3, <2>4
<1> QED
  BY <1>1, <1>2, <1>3, <1>4, <1>5, <1>6 DEF Next, Client, Peer

(* Both ways of a tunnel are channels (proxy.go:40-80, socket.ts:57-140).   *)
THEOREM Refinement == Spec => ImplementsChannels
<1>1. Init => UpChannel!Init /\ DownChannel!Init
  BY DEF Init, UpChannel!Init, DownChannel!Init
<1>2. TunnelInv /\ HeldInv /\ [Next]_vars
        => [UpChannel!Next]_(UpChannel!vars) /\ [DownChannel!Next]_(DownChannel!vars)
  BY UpRefines, DownRefines
<1> QED
  BY <1>1, <1>2, TunnelInvariance, PTL DEF Spec, ImplementsChannels, UpChannel!Spec,
     DownChannel!Spec
=============================================================================
