----------------------------- MODULE Handshake -----------------------------
(***************************************************************************)
(* The control handshake, both ends of it: connectSession() of the client  *)
(* (transport.ts, framing.ts) and the first half of serveSession() of the  *)
(* gateway (server.go, control.go, auth.go), on one session.  Transport    *)
(* has the client's end as HandshakeOk and HandshakeFails, Gateway the     *)
(* gateway's as Welcome and ControlFails.                                  *)
(*                                                                         *)
(* A message is a header and a payload.  What the gateway decides of the   *)
(* hello depends on a few facts of it, which are its fields here; of the   *)
(* answer the model has every byte, for the client reassembles it from     *)
(* whatever chunks its reader is given.  Byte i of the answer is i.        *)
(***************************************************************************)
EXTENDS Naturals, Sequences

CONSTANTS
    Header,         \* bytes of a frame's header: 4 in the code
    Payload,        \* bytes of the payload of an answer
    Maximum,        \* bytes of payload that readControl() accepts
    JwtEnabled,     \* auth.Validator.Enabled
    Versions        \* protocol versions of the two builds

ASSUME FrameAssumption ==
    /\ {Header, Payload} \subseteq Nat \ {0}
    /\ Maximum \in Nat
    /\ JwtEnabled \in BOOLEAN

VARIABLES
    hello,          \* the facts of the hello that the gateway checks
    version,        \* ProtocolVersion of the gateway
    client,         \* where connectSession() stands
    buffered,       \* readControl(): bytes read and not used
    payload,        \* readControl(): the bytes it decodes
    told,           \* the answer that readControl() returned
    helloAt,        \* how much of the control stream has reached the gateway
    gateway,        \* where serveSession() stands
    answer,         \* the answer it has decided on
    sent,           \* bytes of the answer it has written
    ended,          \* control.Close() was called
    expired,        \* the deadline of the control stream has passed
    given,          \* bytes of the answer given to the client's reader
    clientUp,       \* the session is open, as the client sees it
    gatewayUp       \* and as the gateway does

clientVars  == <<client, buffered, payload, told>>
gatewayVars == <<gateway, answer, sent, ended, expired>>
wireVars    == <<helloAt, given, clientUp, gatewayUp>>
vars == <<hello, version, clientVars, gatewayVars, wireVars>>

(* tooBig: the frame exceeds MaxControlBytes; signed: the token verifies;   *)
(* tooLong: it exceeds MaxTokenBytes; route: the claim, "" when absent.     *)
Hello == [version : Versions, tooBig : BOOLEAN, signed : BOOLEAN,
          tooLong : BOOLEAN, route : {"", "served", "unknown"}]

Answers  == {"ok", "invalid control message", "authentication failed",
             "route not permitted"}
HelloAt  == {"none", "stream", "header", "whole"}
Awaiting == {"ready", "stream", "token", "write", "header", "payload"}
Serving  == {"accept", "header", "payload", "check", "write", "finish",
             "close", "streams"}

Init ==
    /\ hello \in Hello
    /\ version \in Versions
    /\ client = "ready" /\ buffered = <<>> /\ payload = <<>> /\ told = "none"
    /\ helloAt = "none"
    /\ gateway = "accept" /\ answer = "none" /\ sent = 0
    /\ ended = FALSE /\ expired = FALSE
    /\ given = 0 /\ clientUp = TRUE /\ gatewayUp = TRUE
-----------------------------------------------------------------------------
(* connectSession().  Every await rejects once the session has gone, but    *)
(* the one of options.token().  Names in _Mutant are wrong on purpose.      *)

ClosedByClient_Mutant == clientUp
ClosedByClient == FALSE

Fail ==
    /\ client' = "failed"
    /\ clientUp' = ClosedByClient

(* What exact() was asked for.                                              *)
Wanted == IF client = "header" THEN Header ELSE Payload

Advance(from, to) ==
    /\ client = from
    /\ clientUp
    /\ client' = to
    /\ UNCHANGED <<hello, version, buffered, payload, told, gatewayVars, wireVars>>

Ready       == Advance("ready", "stream")
StreamMade  == Advance("stream", "token")
HelloWritten == Advance("write", "header")

TokenGiven ==
    /\ client = "token"
    /\ client' = "write"
    /\ UNCHANGED <<hello, version, buffered, payload, told, gatewayVars, wireVars>>

(* options.token() throws, or the session has gone.                         *)
ClientFails ==
    /\ client \in Awaiting
    /\ client = "token" \/ ~clientUp
    /\ client \in {"header", "payload"} => Len(buffered) < Wanted
    /\ Fail
    /\ UNCHANGED <<hello, version, buffered, payload, told, gatewayVars, helloAt,
                   given, gatewayUp>>

(* reader.read() gives a chunk, of any length, of what was written.         *)
ReadChunk ==
    /\ client \in {"header", "payload"}
    /\ Len(buffered) < Wanted
    /\ clientUp
    /\ \E n \in given + 1 .. sent :
          /\ buffered' = buffered \o [i \in 1 .. n - given |-> given + i]
          /\ given' = n
    /\ UNCHANGED <<hello, version, client, payload, told, gatewayVars, helloAt,
                   clientUp, gatewayUp>>

ReadDone ==
    /\ client \in {"header", "payload"}
    /\ Len(buffered) < Wanted
    /\ ended /\ given = sent
    /\ Fail
    /\ UNCHANGED <<hello, version, buffered, payload, told, gatewayVars, helloAt,
                   given, gatewayUp>>

(* exact() returns: the header, whose length readControl() checks.          *)
Rest(n) == SubSeq(buffered, n + 1, Len(buffered))

HeaderRead ==
    /\ client = "header"
    /\ Len(buffered) >= Header
    /\ buffered' = Rest(Header)
    /\ IF Payload > Maximum
       THEN Fail
       ELSE client' = "payload" /\ UNCHANGED clientUp
    /\ UNCHANGED <<hello, version, payload, told, gatewayVars, helloAt, given,
                   gatewayUp>>

(* exact() returns the payload: the version of the answer, then whether it  *)
(* is ok.                                                                   *)
Accepted == answer = "ok"

PayloadRead ==
    /\ client = "payload"
    /\ Len(buffered) >= Payload
    /\ payload' = SubSeq(buffered, 1, Payload)
    /\ buffered' = Rest(Payload)
    /\ IF version # hello.version
       THEN Fail /\ UNCHANGED told
       ELSE /\ told' = answer
            /\ IF Accepted THEN client' = "ok" /\ UNCHANGED clientUp ELSE Fail
    /\ UNCHANGED <<hello, version, gatewayVars, helloAt, given, gatewayUp>>
-----------------------------------------------------------------------------
(* The stream reaches the gateway, with the hello or ahead of it.           *)
HelloArrives ==
    /\ clientUp /\ gatewayUp
    /\ \/ /\ helloAt = "none" /\ client \notin {"ready", "stream"}
          /\ helloAt' = "stream"
       \/ /\ helloAt = "stream" /\ client # "token"
          /\ helloAt' = "header"
       \/ helloAt = "header" /\ helloAt' = "whole"
    /\ UNCHANGED <<hello, version, clientVars, gatewayVars, given, clientUp, gatewayUp>>

(* Either end learns that the other has closed the session, or that the     *)
(* network has lost it.                                                     *)
Lost ==
    /\ \/ clientUp' = FALSE /\ UNCHANGED gatewayUp
       \/ gatewayUp' = FALSE /\ UNCHANGED clientUp
    /\ UNCHANGED <<hello, version, clientVars, gatewayVars, helloAt, given>>

EndReaches ==
    /\ clientUp # gatewayUp
    /\ clientUp' = FALSE
    /\ gatewayUp' = FALSE
    /\ UNCHANGED <<hello, version, clientVars, gatewayVars, helloAt, given>>
-----------------------------------------------------------------------------
(* serveSession().                                                          *)

Goto(from, to) ==
    /\ gateway = from
    /\ gateway' = to
    /\ UNCHANGED <<hello, version, clientVars, answer, sent, ended, expired, wireVars>>

(* AcceptStream(controlCtx): the stream has come; or the session ends, or   *)
(* ControlTimeout passes.                                                   *)
AcceptControl == gatewayUp /\ helloAt # "none" /\ Goto("accept", "header")
AcceptFails   == Goto("accept", "close")

(* The deadline set on the control stream, until it is cleared.             *)
DeadlinePasses ==
    /\ gateway \in {"header", "payload", "check"} \/ (gateway = "write" /\ answer # "ok")
    /\ ~expired
    /\ expired' = TRUE
    /\ UNCHANGED <<hello, version, clientVars, gateway, answer, sent, ended, wireVars>>

Broken == expired \/ ~gatewayUp

(* The stream fails before the frame is there: the answer is written to a   *)
(* stream that takes nothing.                                               *)
Decide(what) ==
    /\ answer' = what
    /\ gateway' = "write"
    /\ UNCHANGED <<hello, version, clientVars, sent, ended, wireVars>>

ReadFails ==
    /\ gateway \in {"header", "payload"}
    /\ Broken
    /\ Decide("invalid control message")
    /\ UNCHANGED expired

(* ReadFrame(): the length, then the payload and its version.               *)
HelloHeader ==
    /\ gateway = "header"
    /\ ~Broken /\ helloAt \in {"header", "whole"}
    /\ \/ /\ hello.tooBig
          /\ Decide("invalid control message")
          /\ UNCHANGED expired
       \/ ~hello.tooBig /\ Goto("header", "payload")

HelloPayload ==
    /\ gateway = "payload"
    /\ ~Broken /\ helloAt = "whole"
    /\ \/ /\ hello.version # version
          /\ Decide("invalid control message")
          /\ UNCHANGED expired
       \/ hello.version = version /\ Goto("payload", "check")

(* Validate(), and the route of the claims.                                 *)
Authentic_Mutant == ~JwtEnabled \/ hello.signed
Authentic == ~JwtEnabled \/ (hello.signed /\ ~hello.tooLong)

RouteServed == ~JwtEnabled \/ hello.route # "unknown"

Check ==
    /\ gateway = "check"
    /\ \/ ~Authentic /\ Decide("authentication failed") /\ UNCHANGED expired
       \/ Authentic /\ ~RouteServed /\ Decide("route not permitted") /\ UNCHANGED expired
       \/ Authentic /\ RouteServed /\ Decide("ok") /\ expired' = FALSE

(* WriteFrame(): the header, then the payload.  Writing fails when the      *)
(* deadline has passed or the session is gone, or before the first byte if  *)
(* the answer exceeds MaxControlBytes.                                      *)
WriteHeader ==
    /\ gateway = "write" /\ sent = 0
    /\ ~Broken
    /\ sent' = Header
    /\ UNCHANGED <<hello, version, clientVars, gateway, answer, ended, expired, wireVars>>

FrameSize == Header + Payload

WritePayload ==
    /\ gateway = "write" /\ sent = Header
    /\ ~Broken
    /\ sent' = FrameSize
    /\ gateway' = IF answer = "ok" THEN "streams" ELSE "finish"
    /\ UNCHANGED <<hello, version, clientVars, answer, ended, expired, wireVars>>

WriteFails == (Broken \/ sent = 0) /\ Goto("write", "finish")

(* control.Close(); then the deferred CloseWithError().                     *)
CloseControl ==
    /\ gateway = "finish"
    /\ gateway' = "close"
    /\ ended' = TRUE
    /\ UNCHANGED <<hello, version, clientVars, answer, sent, expired, wireVars>>

UpAfterClose_Mutant == gatewayUp
UpAfterClose == FALSE

CloseSession ==
    /\ gateway = "close"
    /\ gateway' = "gone"
    /\ gatewayUp' = UpAfterClose
    /\ UNCHANGED <<hello, version, clientVars, answer, sent, ended, expired, helloAt,
                   given, clientUp>>

(* The accept loop of the data streams ends with the session (module        *)
(* Gateway), and control.Close() is among its deferred calls.               *)
SessionServed == ~gatewayUp /\ Goto("streams", "finish")

(* The context of serveSession() is done after SessionLifetime: the accept  *)
(* loop ends although the session is up.                                    *)
LifetimeEnds == Goto("streams", "finish")
-----------------------------------------------------------------------------
Client ==
    \/ Ready
    \/ StreamMade
    \/ TokenGiven
    \/ HelloWritten
    \/ ClientFails
    \/ ReadChunk
    \/ ReadDone
    \/ HeaderRead
    \/ PayloadRead

Serve ==
    \/ ReadFails
    \/ HelloHeader
    \/ HelloPayload
    \/ Check
    \/ WriteHeader
    \/ WritePayload
    \/ WriteFails
    \/ CloseControl
    \/ CloseSession
    \/ SessionServed

Next ==
    \/ Client
    \/ HelloArrives
    \/ Lost
    \/ EndReaches
    \/ AcceptControl
    \/ AcceptFails
    \/ DeadlinePasses
    \/ LifetimeEnds
    \/ Serve

Spec == Init /\ [][Next]_vars

(* What the client does without the network: options.token() settles, a     *)
(* call on a dead session rejects, and bytes that were read are used.       *)
Settles == TokenGiven \/ ClientFails \/ HeaderRead \/ PayloadRead

(* The gateway runs, its deadlines pass, and the end of a session at one    *)
(* end reaches the other.  That the network delivers a byte, makes a stream *)
(* or says ready is not assumed.  SessionLifetime, an hour by default, is   *)
(* relied upon only by a client that waits for an answer already written.   *)
Fairness ==
    /\ WF_vars(Settles)
    /\ WF_vars(AcceptFails)
    /\ WF_vars(DeadlinePasses)
    /\ WF_vars(client \in Awaiting /\ LifetimeEnds)
    /\ WF_vars(Serve)
    /\ WF_vars(EndReaches)

FairSpec == Spec /\ Fairness
-----------------------------------------------------------------------------
Frame == [i \in 1 .. Header + Payload |-> i]

(* Every variable keeps its type; the client has been given no byte that    *)
(* was not written.                                                         *)
TypeOK ==
    /\ hello \in Hello /\ version \in Versions
    /\ client \in Awaiting \cup {"ok", "failed"}
    /\ buffered \in Seq(1 .. Header + Payload)
    /\ payload \in Seq(1 .. Header + Payload)
    /\ told \in Answers \cup {"none"}
    /\ helloAt \in HelloAt
    /\ gateway \in Serving \cup {"gone"}
    /\ answer \in Answers \cup {"none"}
    /\ sent \in {0, Header, Header + Payload}
    /\ given \in 0 .. sent
    /\ ended \in BOOLEAN /\ expired \in BOOLEAN
    /\ clientUp \in BOOLEAN /\ gatewayUp \in BOOLEAN

(* "Receivers reject empty, oversized, malformed, and unsupported-version   *)
(* messages" (docs/protocol.md:15), and the gateway unverified tokens: the  *)
(* client takes the session for its own only if the gateway answered ok to  *)
(* a hello that passes every check (framing.ts:37-46, server.go:110-139).   *)
OkMeansAdmitted ==
    client = "ok" =>
        /\ answer = "ok"
        /\ hello.version = version /\ ~hello.tooBig
        /\ JwtEnabled => hello.signed /\ ~hello.tooLong /\ hello.route # "unknown"

(* Whatever chunks the reader gives, readControl() decodes exactly the      *)
(* payload that was written, and never mistakes part of it for the whole    *)
(* (framing.ts:23-43).                                                      *)
WholeFrame ==
    /\ payload # <<>> =>
          payload = SubSeq(Frame, Header + 1, Header + Payload)
    /\ client = "header" => buffered = SubSeq(Frame, 1, given)
    /\ client = "payload" => buffered = SubSeq(Frame, Header + 1, given)

(* The error the client reports is the one the gateway sent, never another. *)
RefusalTold ==
    told # "none" => /\ told = answer
                     /\ (told = "ok" <=> client = "ok")

(* A hello that passes every check is refused only because the deadline     *)
(* passed or the session ended first (server.go:110-134).                   *)
RefusedForCause ==
    answer \in Answers \ {"ok"} =>
        \/ hello.tooBig \/ hello.version # version
        \/ expired \/ ~gatewayUp
        \/ JwtEnabled /\ (~hello.signed \/ hello.tooLong \/ hello.route = "unknown")

(* The client sets no deadline of its own, and yet its attempt ends, even   *)
(* if the network delivers nothing of what was sent: ControlTimeout ends it *)
(* until the gateway has written ok, SessionLifetime from then on, and the  *)
(* close of the session frees the client (transport.ts:100-131,             *)
(* server.go:100-141).                                                      *)
ClientSettles == <>(client \in {"ok", "failed"})

(* When the client gives up, the gateway's end of the session ends too, and *)
(* with it the slot it holds, without waiting for SessionLifetime           *)
(* (transport.ts:128, server.go:100-102).                                   *)
GatewayLetsGo == client = "failed" ~> gateway = "gone"
=============================================================================
