-------------------------- MODULE HandshakeProofs --------------------------
(***************************************************************************)
(* Theorems about Handshake, for every size of a frame and of a chunk,     *)
(* with tokens or without.                                                 *)
(*                                                                         *)
(* The client sees only the answer.  That an answer of ok means that every *)
(* check was passed holds because of where the gateway stands: Passed says *)
(* which checks lie behind it at each point, Decided that there is no byte *)
(* of an answer before the answer is decided, once and for all.            *)
(***************************************************************************)
EXTENDS Handshake, SequenceTheorems, TLAPS

Admissible ==
    /\ hello.version = version /\ ~hello.tooBig
    /\ JwtEnabled => hello.signed /\ ~hello.tooLong /\ hello.route # "unknown"

(* The checks behind the gateway at each point of serveSession().           *)
Passed ==
    /\ gateway \in {"payload", "check"} => ~hello.tooBig
    /\ gateway = "check" => hello.version = version
    /\ answer = "ok" => Admissible

Decided ==
    /\ gateway \in {"accept", "header", "payload", "check"} => answer = "none" /\ sent = 0
    /\ gateway = "write" \/ sent # 0 => answer # "none"

(* The client has read an answer only if there is one.                      *)
Heard ==
    /\ client = "ok" => told = "ok"
    /\ told # "none" => told = answer /\ sent # 0
    /\ told = "ok" => client = "ok"

(* How much of the answer the client has been given at each point of        *)
(* connectSession().                                                        *)
Counted ==
    /\ client \in {"ready", "stream", "token", "write"} => buffered = <<>> /\ given = 0
    /\ client = "payload" => given >= Header

IInv ==
    TypeOK /\ WholeFrame /\ Counted /\ Passed /\ Decided /\ Heard /\ RefusedForCause

LEMMA Sizes == Header \in Nat \ {0} /\ Payload \in Nat \ {0} /\ Maximum \in Nat
  BY FrameAssumption

LEMMA FrameType ==
  /\ Frame \in Seq(1 .. Header + Payload)
  /\ Len(Frame) = Header + Payload
  /\ \A i \in 1 .. Header + Payload : Frame[i] = i
  BY Sizes DEF Frame

(* A part of the frame.                                                     *)
LEMMA Part ==
  ASSUME NEW m \in 1 .. Header + 1, NEW n \in m - 1 .. Header + Payload
  PROVE  /\ SubSeq(Frame, m, n) \in Seq(1 .. Header + Payload)
         /\ Len(SubSeq(Frame, m, n)) = n - m + 1
         /\ \A i \in 1 .. n - m + 1 : SubSeq(Frame, m, n)[i] = m + i - 1
  <1>1. m \in Int /\ n \in Int /\ m - 1 <= n /\ n <= Header + Payload /\ 1 <= m
    BY Sizes
  <1>2. \A i \in m .. n : Frame[i] \in 1 .. Header + Payload
    BY <1>1, Sizes, FrameType
  <1>3. /\ SubSeq(Frame, m, n) \in Seq(1 .. Header + Payload)
        /\ Len(SubSeq(Frame, m, n)) = IF m <= n THEN n - m + 1 ELSE 0
        /\ \A i \in 1 .. n - m + 1 : SubSeq(Frame, m, n)[i] = Frame[m + i - 1]
    BY <1>1, <1>2, SubSeqProperties
  <1>4. \A i \in 1 .. n - m + 1 : Frame[m + i - 1] = m + i - 1
    BY <1>1, Sizes, FrameType
  <1> QED
    BY <1>1, <1>3, <1>4

LEMMA NoPart == SubSeq(Frame, 1, 0) = <<>>
  <1> DEFINE f == Frame
  <1> HIDE DEF f
  <1>1. SubSeq(f, 1, 0) = <<>>
    BY SubSeqEmpty
  <1> QED
    BY <1>1 DEF f

(* What is left of the first n bytes behind the header.                     *)
LEMMA AfterHeader ==
  ASSUME NEW n \in Header + 1 .. Header + Payload
  PROVE  SubSeq(SubSeq(Frame, 1, n), Header + 1, n) = SubSeq(Frame, Header + 1, n)
  <1> DEFINE s == SubSeq(Frame, 1, n)
             t == SubSeq(Frame, Header + 1, n)
             u == SubSeq(s, Header + 1, n)
  <1>1. /\ s \in Seq(1 .. Header + Payload) /\ Len(s) = n
        /\ \A i \in 1 .. n : s[i] = i
    <2>1. 1 \in 1 .. Header + 1 /\ n \in 1 - 1 .. Header + Payload
      BY Sizes
    <2>2. /\ s \in Seq(1 .. Header + Payload) /\ Len(s) = n - 1 + 1
          /\ \A i \in 1 .. n - 1 + 1 : s[i] = 1 + i - 1
      BY <2>1, Part
    <2> HIDE DEF s
    <2> QED
      BY <2>2, Sizes
  <1>2. /\ t \in Seq(1 .. Header + Payload) /\ Len(t) = n - Header
        /\ \A i \in 1 .. n - Header : t[i] = Header + i
    <2>1. Header + 1 \in 1 .. Header + 1 /\ n \in (Header + 1) - 1 .. Header + Payload
      BY Sizes
    <2>2. /\ t \in Seq(1 .. Header + Payload) /\ Len(t) = n - (Header + 1) + 1
          /\ \A i \in 1 .. n - (Header + 1) + 1 : t[i] = (Header + 1) + i - 1
      BY <2>1, Part
    <2> HIDE DEF t
    <2> QED
      BY <2>2, Sizes
  <1>3. /\ u \in Seq(1 .. Header + Payload) /\ Len(u) = n - Header
        /\ \A i \in 1 .. n - Header : u[i] = s[Header + i]
    <2> HIDE DEF s
    <2>1. \A i \in Header + 1 .. n : s[i] \in 1 .. Header + Payload
      BY <1>1, Sizes
    <2>2. /\ u \in Seq(1 .. Header + Payload)
          /\ Len(u) = IF Header + 1 <= n THEN n - (Header + 1) + 1 ELSE 0
          /\ \A i \in 1 .. n - (Header + 1) + 1 : u[i] = s[(Header + 1) + i - 1]
      BY <2>1, Sizes, SubSeqProperties
    <2> HIDE DEF u
    <2>3. \A i \in 1 .. n - Header : (Header + 1) + i - 1 = Header + i
      BY Sizes
    <2> QED
      BY <2>2, <2>3, Sizes
  <1> HIDE DEF s, t, u
  <1>4. \A i \in 1 .. n - Header : u[i] = t[i]
    BY <1>1, <1>2, <1>3, Sizes
  <1>5. u = t
    BY <1>2, <1>3, <1>4, SeqEqual
  <1> QED
    BY <1>5 DEF s, t, u

THEOREM InitInvariant == Init => IInv
  <1> SUFFICES ASSUME Init PROVE IInv
    OBVIOUS
  <1>1. <<>> \in Seq(1 .. Header + Payload)
    BY EmptySeq
  <1>2. given \in 0 .. sent
    BY DEF Init
  <1>3. sent \in {0, Header, Header + Payload}
    BY DEF Init
  <1>4. TypeOK
    BY <1>1, <1>2, <1>3 DEF Init, TypeOK, Awaiting, Answers, HelloAt, Serving
  <1> QED
    BY <1>4 DEF Init, IInv, WholeFrame, Counted, Passed, Decided, Heard,
                RefusedForCause, Answers

(* The reader is given a chunk: what was read and the chunk are what was    *)
(* given (framing.ts:26-31).                                                *)
LEMMA ReadChunkKeeps ==
  ASSUME IInv, ReadChunk
  PROVE  TypeOK' /\ WholeFrame' /\ Counted'
  <1>1. PICK n \in given + 1 .. sent :
           /\ buffered' = buffered \o [i \in 1 .. n - given |-> given + i]
           /\ given' = n
    BY Zenon DEF ReadChunk
  <1> DEFINE m == IF client = "header" THEN 1 ELSE Header + 1
  <1>2. UNCHANGED <<hello, version, client, payload, told, gatewayVars, helloAt,
                    clientUp, gatewayUp>>
    BY Zenon DEF ReadChunk
  <1>3. client \in {"header", "payload"}
    BY Zenon DEF ReadChunk
  <1>4. /\ sent \in {0, Header, Header + Payload} /\ given \in 0 .. sent
        /\ client = "payload" => given >= Header
    BY DEF IInv, TypeOK, Counted
  <1>5. /\ given \in Nat /\ n \in Nat /\ given < n /\ n <= sent /\ n <= Header + Payload
        /\ m \in 1 .. Header + 1 /\ given \in m - 1 .. Header + Payload
        /\ n >= Header \/ client = "header"
    BY <1>3, <1>4, Sizes
  <1>6. buffered = SubSeq(Frame, m, given)
    BY <1>3 DEF IInv, WholeFrame
  <1>7. [i \in 1 .. n - given |-> given + i] = SubSeq(Frame, given + 1, n)
    BY <1>5, Sizes, SMT DEF Frame
  <1>8. SubSeq(Frame, m, given) \o SubSeq(Frame, given + 1, n) = SubSeq(Frame, m, n)
    <2>1. /\ m \in 1 .. Len(Frame) + 1 /\ given \in m - 1 .. Len(Frame)
          /\ n \in given .. Len(Frame)
      BY <1>5, Sizes, FrameType
    <2> HIDE DEF m
    <2> QED
      BY <2>1, FrameType, ConcatAdjacentSubSeq
  <1>9. buffered' = SubSeq(Frame, m, n)
    BY <1>1, <1>6, <1>7, <1>8, Zenon
  <1>10. buffered' \in Seq(1 .. Header + Payload)
    BY <1>5, <1>9, Part
  <1>11. given' \in 0 .. sent
    BY <1>1, <1>5
  <1>12. TypeOK'
    BY <1>2, <1>10, <1>11, Zenon DEF IInv, TypeOK, gatewayVars
  <1>13. WholeFrame'
    BY <1>1, <1>2, <1>3, <1>9, Zenon DEF IInv, WholeFrame, Frame
  <1>14. Counted'
    BY <1>1, <1>2, <1>3, <1>5, Zenon DEF IInv, Counted
  <1> QED
    BY <1>12, <1>13, <1>14

(* exact() returns the header: the rest stays in the buffer (framing.ts:33). *)
LEMMA HeaderReadKeeps ==
  ASSUME IInv, HeaderRead
  PROVE  TypeOK' /\ WholeFrame' /\ Counted'
  <1>1. /\ client = "header" /\ Len(buffered) >= Header
        /\ buffered' = SubSeq(buffered, Header + 1, Len(buffered))
        /\ UNCHANGED <<hello, version, payload, told, gatewayVars, helloAt, given,
                       gatewayUp>>
    BY Zenon DEF HeaderRead, Rest
  <1>2. \/ client' = "failed" /\ clientUp' = FALSE
        \/ client' = "payload" /\ UNCHANGED clientUp
    BY Zenon DEF HeaderRead, Fail, ClosedByClient
  <1>3. sent \in {0, Header, Header + Payload} /\ given \in 0 .. sent
    BY DEF IInv, TypeOK
  <1>4. buffered = SubSeq(Frame, 1, given)
    BY <1>1 DEF IInv, WholeFrame
  <1>5. Len(buffered) = given
    BY <1>3, <1>4, Sizes, Part
  <1>6. given \in Header .. Header + Payload
    BY <1>1, <1>3, <1>5, Sizes
  <1>7. buffered' = SubSeq(Frame, Header + 1, given)
    <2>1. CASE given = Header
      BY <1>1, <1>5, <2>1, Sizes, SubSeqEmpty
    <2>2. CASE given # Header
      BY <1>1, <1>4, <1>5, <1>6, <2>2, Sizes, AfterHeader
    <2> QED
      BY <2>1, <2>2
  <1>8. buffered' \in Seq(1 .. Header + Payload)
    <2>1. Header + 1 \in 1 .. Header + 1 /\ given \in (Header + 1) - 1 .. Header + Payload
      BY <1>6, Sizes
    <2> QED
      BY <1>7, <2>1, Part
  <1>9. TypeOK'
    BY <1>1, <1>2, <1>8, Zenon DEF IInv, TypeOK, gatewayVars, Awaiting
  <1>10. WholeFrame'
    BY <1>1, <1>2, <1>7, Zenon DEF IInv, WholeFrame, Frame
  <1>11. Counted'
    <2>1. given >= Header
      BY <1>6, Sizes
    <2> QED
      BY <1>1, <1>2, <2>1, Zenon DEF Counted
  <1> QED
    BY <1>9, <1>10, <1>11

(* exact() returns the payload, all that is left of the frame.              *)
LEMMA PayloadReadKeeps ==
  ASSUME IInv, PayloadRead
  PROVE  TypeOK' /\ WholeFrame' /\ Counted' /\ sent # 0
  <1>1. /\ client = "payload" /\ Len(buffered) >= Payload
        /\ payload' = SubSeq(buffered, 1, Payload)
        /\ buffered' = SubSeq(buffered, Payload + 1, Len(buffered))
        /\ UNCHANGED <<hello, version, gatewayVars, helloAt, given, gatewayUp>>
    BY Zenon DEF PayloadRead, Rest
  <1>2. /\ client' \in {"failed", "ok"} /\ clientUp' \in {FALSE, clientUp}
        /\ told' \in {told, answer}
    BY Zenon DEF PayloadRead, Fail, ClosedByClient
  <1>3. /\ sent \in {0, Header, Header + Payload} /\ given \in 0 .. sent
        /\ given >= Header
    BY <1>1 DEF IInv, TypeOK, Counted
  <1>4. buffered = SubSeq(Frame, Header + 1, given)
    BY <1>1 DEF IInv, WholeFrame
  <1>5. Header + 1 \in 1 .. Header + 1 /\ given \in (Header + 1) - 1 .. Header + Payload
    BY <1>3, Sizes
  <1>6. buffered \in Seq(1 .. Header + Payload) /\ Len(buffered) = given - (Header + 1) + 1
    BY <1>4, <1>5, Part
  <1>7. given = Header + Payload /\ Len(buffered) = Payload /\ sent # 0
    BY <1>1, <1>3, <1>6, Sizes
  <1>8. payload' = SubSeq(Frame, Header + 1, Header + Payload)
    BY <1>1, <1>4, <1>6, <1>7, SubSeqFull
  <1>9. buffered' = <<>>
    BY <1>1, <1>7, Sizes, SubSeqEmpty
  <1>10. /\ buffered' \in Seq(1 .. Header + Payload)
         /\ payload' \in Seq(1 .. Header + Payload)
    BY <1>4, <1>6, <1>7, <1>8, <1>9, EmptySeq
  <1>11. TypeOK'
    BY <1>1, <1>2, <1>10, Zenon DEF IInv, TypeOK, gatewayVars
  <1>12. WholeFrame'
    BY <1>2, <1>8, Zenon DEF WholeFrame, Frame
  <1>13. Counted'
    BY <1>2, Zenon DEF Counted
  <1> QED
    BY <1>7, <1>11, <1>12, <1>13

LEMMA NextTypeOK ==
  ASSUME IInv, Next, ~ReadChunk, ~HeaderRead, ~PayloadRead
  PROVE  TypeOK'
  <1> USE DEF IInv, TypeOK, gatewayVars, wireVars, clientVars
  <1>1. CASE Ready \/ StreamMade \/ HelloWritten \/ TokenGiven
    BY <1>1, Zenon DEF Ready, StreamMade, HelloWritten, TokenGiven, Advance, Awaiting
  <1>2. CASE ClientFails
    BY <1>2, Zenon DEF ClientFails, Fail, ClosedByClient
  <1>3. CASE ReadDone
    BY <1>3, Zenon DEF ReadDone, Fail, ClosedByClient
  <1>4. CASE HelloArrives
    BY <1>4, Zenon DEF HelloArrives, HelloAt
  <1>5. CASE Lost \/ EndReaches
    BY <1>5, Zenon DEF Lost, EndReaches
  <1>6. CASE AcceptControl \/ AcceptFails \/ SessionServed \/ LifetimeEnds \/ WriteFails
    BY <1>6, Zenon DEF AcceptControl, AcceptFails, SessionServed, LifetimeEnds, WriteFails, Goto, Serving
  <1>7. CASE DeadlinePasses
    BY <1>7, Zenon DEF DeadlinePasses
  <1>8. CASE ReadFails \/ HelloHeader \/ HelloPayload \/ Check
    <2>1. /\ answer' \in Answers \cup {"none"}
          /\ gateway' \in Serving
          /\ expired' \in BOOLEAN
      BY <1>8, Zenon DEF ReadFails, HelloHeader, HelloPayload, Check, Decide, Goto,
                         Answers, Serving
    <2>2. UNCHANGED <<hello, version, clientVars, sent, ended, wireVars>>
      BY <1>8, Zenon DEF ReadFails, HelloHeader, HelloPayload, Check, Decide, Goto
    <2> QED
      BY <2>1, <2>2, Zenon
  <1>9. CASE WriteHeader \/ WritePayload
    <2>1. sent' \in {0, Header, Header + Payload} /\ given' \in 0 .. sent'
      BY <1>9, Sizes DEF WriteHeader, WritePayload, FrameSize
    <2> QED
      BY <1>9, <2>1, Zenon DEF WriteHeader, WritePayload, Serving
  <1>10. CASE CloseControl \/ CloseSession
    BY <1>10, Zenon DEF CloseControl, CloseSession, UpAfterClose, Serving
  <1> QED
    BY <1>1, <1>2, <1>3, <1>4, <1>5, <1>6, <1>7, <1>8, <1>9, <1>10, Zenon
       DEF Next, Client, Serve

LEMMA NextBytes ==
  ASSUME IInv, Next, ~ReadChunk, ~HeaderRead, ~PayloadRead
  PROVE  WholeFrame' /\ Counted'
  <1> USE DEF IInv, WholeFrame, Counted, Frame
  <1>1. CASE Ready \/ StreamMade \/ TokenGiven
    BY <1>1, Zenon DEF Ready, StreamMade, TokenGiven, Advance, wireVars
  <1>2. CASE HelloWritten
    <2>1. /\ client' = "header" /\ buffered' = <<>> /\ given' = 0
          /\ UNCHANGED payload
      BY <1>2, Zenon DEF HelloWritten, Advance, wireVars
    <2> QED
      BY <2>1, NoPart, Zenon
  <1>3. CASE ClientFails \/ ReadDone
    BY <1>3, Zenon DEF ClientFails, ReadDone, Fail
  <1>4. CASE \/ HelloArrives \/ Lost \/ EndReaches
             \/ AcceptControl \/ AcceptFails \/ DeadlinePasses \/ LifetimeEnds \/ Serve
    <2>1. UNCHANGED <<client, buffered, payload, given>>
      BY <1>4, Zenon
         DEF HelloArrives, Lost, EndReaches, AcceptControl, AcceptFails, DeadlinePasses,
             Serve, ReadFails, HelloHeader, HelloPayload, Check, Decide, WriteHeader,
             WritePayload, WriteFails, CloseControl, CloseSession, SessionServed,
             LifetimeEnds, Goto,
             clientVars, wireVars
    <2> QED
      BY <2>1, Zenon
  <1> QED
    BY <1>1, <1>2, <1>3, <1>4, Zenon DEF Next, Client

(* The gateway's steps keep what its place says of the checks.              *)
LEMMA NextChecks ==
  ASSUME IInv, Next
  PROVE  Passed' /\ Decided'
  <1> USE DEF IInv, Passed, Decided
  <1>1. CASE \/ Client \/ HelloArrives \/ Lost \/ EndReaches \/ DeadlinePasses
    <2>1. UNCHANGED <<hello, version, gateway, answer, sent>>
      BY <1>1, Zenon
         DEF Client, Ready, StreamMade, TokenGiven, HelloWritten, Advance, ClientFails,
             ReadChunk, ReadDone, HeaderRead, PayloadRead, HelloArrives, Lost,
             EndReaches, DeadlinePasses, gatewayVars
    <2> QED
      BY <2>1, Zenon DEF Admissible
  <1>2. CASE AcceptControl \/ AcceptFails \/ WriteFails \/ SessionServed \/ LifetimeEnds
    <2>1. /\ UNCHANGED <<hello, version, answer, sent>>
          /\ \/ gateway = "accept" /\ gateway' = "header"
             \/ gateway' \in {"close", "finish"}
      BY <1>2, Zenon DEF AcceptControl, AcceptFails, WriteFails, SessionServed, LifetimeEnds, Goto
    <2> QED
      BY <2>1, Zenon DEF Admissible
  <1>3. CASE ReadFails \/ HelloHeader
    BY <1>3, Zenon DEF ReadFails, HelloHeader, Decide, Goto, Admissible
  <1>4. CASE HelloPayload
    BY <1>4, Zenon DEF HelloPayload, Decide, Goto, Admissible
  <1>5. CASE Check
    BY <1>5, Zenon DEF Check, Authentic, RouteServed, Decide, Admissible
  <1>6. CASE WriteHeader \/ WritePayload
    <2>1. /\ gateway = "write" /\ gateway' \in {"write", "streams", "finish"}
          /\ UNCHANGED <<hello, version, answer>>
      BY <1>6, Zenon DEF WriteHeader, WritePayload
    <2> QED
      BY <2>1, Zenon DEF Admissible
  <1>7. CASE CloseControl \/ CloseSession
    BY <1>7, Zenon DEF CloseControl, CloseSession, Admissible
  <1> QED
    BY <1>1, <1>2, <1>3, <1>4, <1>5, <1>6, <1>7, Zenon DEF Next, Serve

LEMMA NextHeard ==
  ASSUME IInv, Next
  PROVE  Heard'
  <1>1. CASE PayloadRead
    <2>1. sent # 0 /\ UNCHANGED <<answer, sent>>
      BY <1>1, PayloadReadKeeps, Zenon DEF PayloadRead, gatewayVars
    <2>2. client = "payload"
      BY <1>1, Zenon DEF PayloadRead
    <2>3. answer # "none" /\ told \notin {"ok"}
      BY <2>1, <2>2, Zenon DEF IInv, Heard, Decided
    <2> QED
      BY <1>1, <2>1, <2>3, Zenon DEF PayloadRead, Accepted, Fail, IInv, Heard
  <1>2. CASE Client /\ ~PayloadRead
    <2>1. /\ UNCHANGED <<told, answer, sent>>
          /\ client \notin {"ok", "failed"} /\ client' # "ok"
      BY <1>2, Zenon
         DEF Client, Ready, StreamMade, TokenGiven, HelloWritten, Advance, ClientFails,
             ReadChunk, ReadDone, HeaderRead, Fail, gatewayVars, Awaiting
    <2> QED
      BY <2>1, Zenon DEF IInv, Heard
  <1>3. CASE \/ HelloArrives \/ Lost \/ EndReaches
             \/ AcceptControl \/ AcceptFails \/ DeadlinePasses
             \/ WriteFails \/ CloseControl \/ CloseSession \/ SessionServed \/ LifetimeEnds
    <2>1. UNCHANGED <<client, told, answer, sent>>
      BY <1>3, Zenon
         DEF HelloArrives, Lost, EndReaches, AcceptControl, AcceptFails, DeadlinePasses,
             WriteFails, CloseControl, CloseSession, SessionServed, LifetimeEnds, Goto,
             clientVars, gatewayVars
    <2> QED
      BY <2>1, Zenon DEF IInv, Heard
  <1>4. CASE ReadFails \/ HelloHeader \/ HelloPayload \/ Check
    <2>1. UNCHANGED <<client, told, sent>>
      BY <1>4, Zenon DEF ReadFails, HelloHeader, HelloPayload, Check, Decide, Goto, clientVars
    <2>2. sent = 0
      BY <1>4, Zenon DEF ReadFails, HelloHeader, HelloPayload, Check, Goto, IInv, Decided
    <2> QED
      BY <2>1, <2>2, Zenon DEF IInv, Heard
  <1>5. CASE WriteHeader \/ WritePayload
    <2>1. UNCHANGED <<client, told, answer>>
      BY <1>5, Zenon DEF WriteHeader, WritePayload, clientVars
    <2>2. sent' # 0
      BY <1>5, Sizes, SMT DEF WriteHeader, WritePayload, FrameSize
    <2> QED
      BY <2>1, <2>2, Zenon DEF IInv, Heard
  <1> QED
    BY <1>1, <1>2, <1>3, <1>4, <1>5, Zenon DEF Next, Serve

LEMMA NextCause ==
  ASSUME IInv, Next
  PROVE  RefusedForCause'
  <1> USE DEF IInv, RefusedForCause, Answers
  <1>1. CASE ReadFails \/ HelloHeader \/ HelloPayload
    BY <1>1, Zenon
       DEF ReadFails, HelloHeader, HelloPayload, Decide, Goto, Broken, wireVars, Decided
  <1>2. CASE Check
    BY <1>2, Zenon DEF Check, Authentic, RouteServed, Decide, wireVars
  <1>3. CASE CloseSession
    BY <1>3, Zenon DEF CloseSession, UpAfterClose
  <1>4. CASE Client
    <2>1. UNCHANGED <<hello, version, answer, expired, gatewayUp>>
      BY <1>4, Zenon
         DEF Client, Ready, StreamMade, TokenGiven, HelloWritten, Advance, ClientFails,
             ReadChunk, ReadDone, HeaderRead, PayloadRead, gatewayVars, wireVars
    <2> QED
      BY <2>1, Zenon
  <1>5. CASE Lost \/ EndReaches
    <2>1. UNCHANGED <<hello, version, answer, expired>>
      BY <1>5, Zenon DEF Lost, EndReaches, gatewayVars
    <2>2. gatewayUp' = gatewayUp \/ gatewayUp' = FALSE
      BY <1>5, Zenon DEF Lost, EndReaches
    <2>3. ~gatewayUp => ~gatewayUp'
      BY <2>2, Zenon
    <2> QED
      BY <2>1, <2>3, Zenon
  <1>6. CASE DeadlinePasses
    BY <1>6, Zenon DEF DeadlinePasses, wireVars
  <1>7. CASE \/ HelloArrives \/ AcceptControl \/ AcceptFails \/ WriteHeader
             \/ WritePayload \/ WriteFails \/ CloseControl \/ SessionServed \/ LifetimeEnds
    <2>1. UNCHANGED <<hello, version, answer, expired, gatewayUp>>
      BY <1>7, Zenon
         DEF HelloArrives, AcceptControl, AcceptFails, WriteHeader, WritePayload,
             WriteFails, CloseControl, SessionServed, LifetimeEnds, Goto, gatewayVars, wireVars
    <2> QED
      BY <2>1, Zenon
  <1> QED
    BY <1>1, <1>2, <1>3, <1>4, <1>5, <1>6, <1>7, Zenon DEF Next, Serve

THEOREM NextInvariant == IInv /\ [Next]_vars => IInv'
  <1> SUFFICES ASSUME IInv, [Next]_vars PROVE IInv'
    OBVIOUS
  <1>1. CASE Next
    <2>1. TypeOK' /\ WholeFrame' /\ Counted'
      BY <1>1, ReadChunkKeeps, HeaderReadKeeps, PayloadReadKeeps, NextTypeOK, NextBytes, Zenon
    <2> QED
      BY <1>1, <2>1, NextChecks, NextHeard, NextCause, Zenon DEF IInv
  <1>2. CASE UNCHANGED vars
    <2> USE <1>2 DEF vars, clientVars, gatewayVars, wireVars, IInv
    <2>1. TypeOK'
      BY Zenon DEF TypeOK
    <2>2. WholeFrame' /\ Counted'
      BY Zenon DEF WholeFrame, Frame, Counted
    <2>3. Passed' /\ Decided' /\ Heard'
      BY Zenon DEF Passed, Admissible, Decided, Heard
    <2>4. RefusedForCause'
      BY Zenon DEF RefusedForCause
    <2> QED
      BY <2>1, <2>2, <2>3, <2>4
  <1> QED
    BY <1>1, <1>2

THEOREM Invariance == Spec => []IInv
  BY InitInvariant, NextInvariant, PTL DEF Spec

(* Every variable keeps its type, and the client is given only what was     *)
(* written.                                                                 *)
THEOREM TypeCorrect == Spec => []TypeOK
  BY Invariance, PTL DEF IInv

(* readControl() decodes exactly what was written, for every size of the    *)
(* header and the payload and for every way to cut them into chunks         *)
(* (framing.ts:23-43).                                                      *)
THEOREM FrameTheorem == Spec => []WholeFrame
  BY Invariance, PTL DEF IInv

LEMMA HeardIsTrue ==
  ASSUME IInv
  PROVE  OkMeansAdmitted /\ RefusalTold
  BY Zenon DEF IInv, Heard, Passed, Admissible, OkMeansAdmitted, RefusalTold

(* The client takes a session for its own only if the gateway answered ok   *)
(* to a hello that passed every check (framing.ts:37-46, server.go:110-139). *)
THEOREM AdmittedTheorem == Spec => []OkMeansAdmitted
  BY Invariance, HeardIsTrue, PTL

(* The client reports the answer that the gateway sent, and none other      *)
(* (framing.ts:37-46).                                                      *)
THEOREM ToldTheorem == Spec => []RefusalTold
  BY Invariance, HeardIsTrue, PTL

(* A hello that passes every check is refused only for the deadline or the  *)
(* end of the session (server.go:110-134).                                  *)
THEOREM CauseTheorem == Spec => []RefusedForCause
  BY Invariance, PTL DEF IInv
=============================================================================
