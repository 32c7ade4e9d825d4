---------------------------- MODULE SocketQueue ----------------------------
(***************************************************************************)
(* The outgoing half of PgWebTransportSocket (packages/client/src/         *)
(* socket.ts): write() with its watermarks, the pump that feeds the        *)
(* writable side of the WebTransport stream, end() and destroy().          *)
(*                                                                         *)
(* An action is what the code does between two awaits.  Chunks are records *)
(* of a name and a length; their bytes do not matter.  end(chunk) is       *)
(* write(chunk) followed by end(), with nothing in between.                *)
(***************************************************************************)
EXTENDS Integers, Sequences, SequencesExt

CONSTANTS
    Low, High, Maximum,     \* transport.queueLimits
    Sizes,                  \* the lengths of chunks
    MaxWrites               \* bound: calls of write()

(* The constructor of PgWebTransport refuses any other limits.             *)
ASSUME LimitsAssumption ==
    /\ {Low, High, Maximum} \subseteq Nat
    /\ Low < High /\ High <= Maximum
ASSUME SizesAssumption == Sizes \subseteq Nat /\ MaxWrites \in Nat

VARIABLES
    writer,         \* this.writer is set: open() has adopted the stream
    queue,          \* this.queue
    queuedBytes,    \* this.queuedBytes
    pump,           \* "idle", or where pump() awaits: "ready" or "writing"
    item,           \* what pump() has shifted, as a sequence of at most one
    pressured,      \* this.pressured
    writable,       \* this.writable
    destroyed,      \* this.destroyed
    ending,         \* end(): "no", "polling", "closing" or "done"
    sink,           \* the chunks the WebTransport stream has taken
    sinkState,      \* "open", "closing", "closed", "aborted" or "errored"
    accepted,       \* history: the chunks write() queued, in order
    writes,         \* history: the number of calls of write()
    callback,       \* history: what each call's callback was called with
    owed            \* history: write() returned false, no drain since

vars == <<writer, queue, queuedBytes, pump, item, pressured, writable,
          destroyed, ending, sink, sinkState, accepted, writes, callback, owed>>

past == <<accepted, writes, callback, owed>>
life == <<writer, writable, destroyed, ending>>

Chunk == [id : 1..MaxWrites, size : Sizes]

Init ==
    /\ writer = FALSE
    /\ queue = <<>>
    /\ queuedBytes = 0
    /\ pump = "idle"
    /\ item = <<>>
    /\ pressured = FALSE
    /\ writable = TRUE
    /\ destroyed = FALSE
    /\ ending = "no"
    /\ sink = <<>>
    /\ sinkState = "open"
    /\ accepted = <<>>
    /\ writes = 0
    /\ callback = [i \in 1..MaxWrites |-> <<>>]
    /\ owed = FALSE
-----------------------------------------------------------------------------
(* The definitions whose name ends in _Mutant are wrong on purpose.        *)

(* pump() is entered: from write(), from open(), or for the next turn of   *)
(* its loop.  q is the queue it sees.                                      *)
MayShift_Mutant(q, hasWriter, idle) == hasWriter /\ ~destroyed /\ q # <<>>
MayShift(q, hasWriter, idle) == hasWriter /\ ~destroyed /\ q # <<>> /\ idle

Rest(q) == Tail(q)

PumpFrom(q, hasWriter, idle) ==
    IF MayShift(q, hasWriter, idle)
    THEN pump' = "ready" /\ item' = <<Head(q)>> /\ queue' = Rest(q)
    ELSE /\ pump' = IF idle THEN "idle" ELSE pump
         /\ item' = IF idle THEN <<>> ELSE item
         /\ queue' = q

(* The limit of write(): what is queued and in flight, and the new chunk.  *)
Overflows(size) == queuedBytes + size > Maximum

(* What pump() tests after a write to emit drain.                          *)
Drains_Mutant(bytes) == pressured /\ bytes < Low
Drains_EqualMutant(bytes) == pressured /\ bytes = Low
Drains(bytes) == pressured /\ bytes <= Low

(* What end() waits for before it closes the writer.                       *)
Flushed_NeverMutant == destroyed
Flushed_EarlyMutant == queue = <<>> \/ destroyed
Flushed == (queue = <<>> /\ pump = "idle") \/ destroyed

(* destroy(): the effects of a first call.  The pump keeps what it awaits. *)
Destroyed ==
    /\ destroyed' = TRUE
    /\ writable' = FALSE
    /\ IF destroyed
       THEN UNCHANGED <<queue, queuedBytes, sinkState>>
       ELSE /\ queue' = <<>>
            /\ queuedBytes' = 0
            /\ sinkState' = IF writer /\ sinkState \in {"open", "closing"}
                            THEN "aborted" ELSE sinkState

Answer(ids, result) ==
    callback' = [i \in DOMAIN callback |->
                    IF i \in ids THEN Append(callback[i], result) ELSE callback[i]]
-----------------------------------------------------------------------------
(* open(), once openStream() has returned and the socket is not destroyed.  *)
Open ==
    /\ ~writer
    /\ ~destroyed
    /\ writer' = TRUE
    /\ PumpFrom(queue, TRUE, pump = "idle")
    /\ UNCHANGED <<queuedBytes, pressured, writable, destroyed, ending, sink,
                   sinkState, past>>

(* write(), refused: after the end, or over the limit.                     *)
WriteRefused(size) ==
    /\ destroyed \/ ~writable \/ Overflows(size)
    /\ Answer({writes + 1}, "error")
    /\ Destroyed
    /\ UNCHANGED <<writer, pump, item, pressured, ending, sink, accepted, owed>>

WriteQueued(size) ==
    LET chunk == [id |-> writes + 1, size |-> size]
        bytes == queuedBytes + size
    IN  /\ ~destroyed /\ writable /\ ~Overflows(size)
        /\ queuedBytes' = bytes
        /\ pressured' = (pressured \/ bytes >= High)
        /\ owed' = (owed \/ pressured')
        /\ accepted' = Append(accepted, chunk)
        /\ PumpFrom(Append(queue, chunk), writer, pump = "idle")
        /\ UNCHANGED <<life, sink, sinkState, callback>>

Write(size) ==
    /\ writes < MaxWrites
    /\ writes' = writes + 1
    /\ WriteRefused(size) \/ WriteQueued(size)

(* writer.ready resolves: the chunk goes to writer.write().                *)
PumpReady_Mutant ==
    /\ pump = "ready"
    /\ sinkState = "open"
    /\ pump' = "writing"
    /\ Answer({item[1].id}, "ok")
    /\ UNCHANGED <<life, queue, queuedBytes, item, pressured, sink, sinkState,
                   accepted, writes, owed>>

PumpReady ==
    /\ pump = "ready"
    /\ sinkState = "open"
    /\ pump' = "writing"
    /\ UNCHANGED <<life, queue, queuedBytes, item, pressured, sink, sinkState, past>>

(* writer.write() resolves.  A write in flight may still succeed after     *)
(* abort(): the stream lets it finish.                                     *)
PumpWritten ==
    LET bytes == queuedBytes - item[1].size
    IN  /\ pump = "writing"
        /\ sinkState # "errored"
        /\ sink' = sink \o item
        /\ queuedBytes' = bytes
        /\ Answer({item[1].id}, "ok")
        /\ pressured' = (pressured /\ ~Drains(bytes))
        /\ owed' = (owed /\ ~Drains(bytes))
        /\ PumpFrom(queue, TRUE, TRUE)
        /\ UNCHANGED <<life, sinkState, accepted, writes>>

(* writer.ready or writer.write() rejects: the callbacks of what is still  *)
(* queued, not of the chunk in flight, and the socket fails.               *)
PumpFails ==
    /\ pump # "idle"
    /\ sinkState \in {"aborted", "errored"} \/ (pump = "ready" /\ sinkState # "open")
    /\ Answer({c.id : c \in ToSet(queue)}, "error")
    /\ pump' = "idle"
    /\ item' = <<>>
    /\ destroyed' = TRUE
    /\ writable' = FALSE
    /\ queue' = <<>>
    /\ queuedBytes' = IF destroyed THEN queuedBytes ELSE 0
    /\ UNCHANGED <<writer, pressured, ending, sink, sinkState, accepted, writes,
                   owed>>
-----------------------------------------------------------------------------
(* The last part of end(): close the writer, if there is one.              *)
CloseWriter ==
    \/ /\ ~writer
       /\ ending' = "done"
       /\ UNCHANGED <<sinkState, destroyed, queue, queuedBytes>>
    \/ /\ writer /\ sinkState = "open"
       /\ ending' = "closing"
       /\ sinkState' = "closing"
       /\ UNCHANGED <<destroyed, queue, queuedBytes>>
    \/ /\ writer /\ sinkState # "open"
       /\ ending' = "done"
       /\ Destroyed

End ==
    /\ ending = "no"
    /\ writable' = FALSE
    /\ IF Flushed
       THEN CloseWriter
       ELSE ending' = "polling" /\ UNCHANGED <<sinkState, destroyed, queue, queuedBytes>>
    /\ UNCHANGED <<writer, pump, item, pressured, sink, past>>

(* The timer of end() finds the queue flushed.                             *)
EndPoll ==
    /\ ending = "polling"
    /\ Flushed
    /\ writable' = FALSE
    /\ CloseWriter
    /\ UNCHANGED <<writer, pump, item, pressured, sink, past>>

(* writer.close() resolves once the writes before it have, or rejects.     *)
SinkClosed ==
    /\ sinkState = "closing"
    /\ pump # "writing"
    /\ sinkState' = "closed"
    /\ ending' = "done"
    /\ UNCHANGED <<writer, queue, queuedBytes, pump, item, pressured, writable,
                   destroyed, sink, past>>

CloseRejected ==
    /\ ending = "closing"
    /\ sinkState \in {"aborted", "errored"}
    /\ ending' = "done"
    /\ Destroyed
    /\ UNCHANGED <<writer, pump, item, pressured, sink, past>>

(* The stream breaks: the peer stops it, or the session is lost.           *)
SinkErrors ==
    /\ writer
    /\ sinkState \in {"open", "closing"}
    /\ sinkState' = "errored"
    /\ UNCHANGED <<life, queue, queuedBytes, pump, item, pressured, sink, past>>

(* readLoop() sees the end of the incoming side: finishClose() alone, which *)
(* leaves the queue and the writer as they are.                            *)
RemoteEnds ==
    /\ writer
    /\ ~destroyed
    /\ destroyed' = TRUE
    /\ writable' = FALSE
    /\ UNCHANGED <<writer, queue, queuedBytes, pump, item, pressured, ending,
                   sink, sinkState, past>>

(* destroy(), by the application, by a read error or by the lost session.   *)
Destroy ==
    /\ ~destroyed
    /\ Destroyed
    /\ UNCHANGED <<writer, pump, item, pressured, ending, sink, past>>
-----------------------------------------------------------------------------
Next ==
    \/ Open
    \/ \E size \in Sizes : Write(size)
    \/ PumpReady
    \/ PumpWritten
    \/ PumpFails
    \/ End
    \/ EndPoll
    \/ SinkClosed
    \/ CloseRejected
    \/ SinkErrors
    \/ RemoteEnds
    \/ Destroy

Spec == Init /\ [][Next]_vars

(* The socket connects, promises settle and timers fire.                   *)
Fairness ==
    /\ WF_vars(Open)
    /\ WF_vars(PumpReady \/ PumpFails)
    /\ WF_vars(PumpWritten \/ PumpFails)
    /\ WF_vars(EndPoll)
    /\ WF_vars(SinkClosed \/ CloseRejected)

FairSpec == Spec /\ Fairness
-----------------------------------------------------------------------------
(* The bytes of the chunks: of the first n of them, for n up to all.        *)
Bytes(chunks) ==
    LET first[n \in 0..Len(chunks)] ==
            IF n = 0 THEN 0 ELSE first[n - 1] + chunks[n].size
    IN  first[Len(chunks)]

Ids(chunks) == {c.id : c \in ToSet(chunks)}

(* Every variable keeps its type; a chunk is in flight exactly while the    *)
(* pump awaits (socket.ts:85-107).                                          *)
TypeOK ==
    /\ {writer, pressured, writable, destroyed, owed} \subseteq BOOLEAN
    /\ {queue, item, sink, accepted} \subseteq Seq(Chunk)
    /\ Len(item) = (IF pump = "idle" THEN 0 ELSE 1)
    /\ queuedBytes \in -Maximum..Maximum
    /\ pump \in {"idle", "ready", "writing"}
    /\ ending \in {"no", "polling", "closing", "done"}
    /\ sinkState \in {"open", "closing", "closed", "aborted", "errored"}
    /\ writes \in 0..MaxWrites
    /\ callback \in [1..MaxWrites -> Seq({"ok", "error"})]

(* While the socket lives, no chunk that write() took is lost, doubled or   *)
(* out of order, whatever write(), open() and the pump do in between        *)
(* (socket.ts:57-107); afterwards the stream holds a prefix of them.        *)
NothingLost ==
    /\ ~destroyed => sink \o item \o queue = accepted
    /\ IsPrefix(sink, accepted)

(* The pressure of a live socket tells its memory: queuedBytes counts       *)
(* exactly what is queued or in flight, never more than the maximum         *)
(* (socket.ts:72-79), and a drain that is owed can still come, as pressure  *)
(* is on and more than the low watermark is left to be written              *)
(* (socket.ts:80, 96-99).                                                   *)
NoLostDrain ==
    ~destroyed => /\ queuedBytes = Bytes(item \o queue) /\ queuedBytes <= Maximum
                  /\ owed <=> pressured
                  /\ pressured => queuedBytes > Low

(* A callback tells the truth, once: without error only for a chunk the     *)
(* stream took, with an error only for one it did not (socket.ts:95, 102),  *)
(* even when the pump fails after destroy() or a write in flight outlives   *)
(* it.                                                                      *)
CallbacksTrue ==
    \A i \in 1..MaxWrites :
        /\ Len(callback[i]) <= 1
        /\ "ok" \in ToSet(callback[i]) => i \in Ids(sink)
        /\ "error" \in ToSet(callback[i]) => i \notin Ids(sink)

(* The outgoing half is a Channel from write() to the WebTransport stream,  *)
(* step by step: the stream is closed, by end(), behind the last chunk that *)
(* write() took, and takes no chunk afterwards (socket.ts:57-140).          *)
Outgoing == INSTANCE Channel WITH
    sent   <- accepted,
    got    <- sink,
    ended  <- ~writable,
    seen   <- sinkState = "closed",
    broken <- destroyed \/ sinkState \in {"aborted", "errored"}

ImplementsChannel == Outgoing!Spec

(* A writer told to wait is told to go on, unless the socket is destroyed   *)
(* (socket.ts:80, 96-99).                                                   *)
DrainComes == owed ~> (~owed \/ destroyed)

(* end() with bytes to flush closes the stream behind them, even when it    *)
(* was called before the socket connected (socket.ts:129-133).              *)
EndCloses == ending = "polling" ~> (sinkState = "closed" /\ sink = accepted) \/ destroyed
=============================================================================
