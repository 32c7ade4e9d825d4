------------------------- MODULE SocketQueueProofs -------------------------
(***************************************************************************)
(* Theorems about SocketQueue, for every choice of limits, chunk sizes and *)
(* number of writes: no chunk is lost, doubled or reordered, callbacks     *)
(* tell the truth, the bytes queued and in flight are counted exactly and  *)
(* no drain is lost; the outgoing half is a Channel, step by step; and     *)
(* every variable keeps its type.                                          *)
(***************************************************************************)
EXTENDS SocketQueue, SequenceTheorems, WellFoundedInduction, TLAPS

Chunks == Seq(Chunk)

QueueTypes ==
    /\ queue \in Chunks /\ item \in Chunks /\ sink \in Chunks /\ accepted \in Chunks
    /\ writes \in Nat
    /\ pump \in {"idle", "ready", "writing"}
    /\ pump = "idle" => item = <<>>
    /\ pump # "idle" => Len(item) = 1

(* What was accepted is in the stream, in flight or queued, in that order;  *)
(* only a destroyed socket has dropped a rest.                              *)
Path ==
    /\ \E rest \in Chunks : accepted = sink \o (item \o (queue \o rest))
    /\ ~destroyed => accepted = sink \o (item \o queue)

QueueInv == QueueTypes /\ Path
-----------------------------------------------------------------------------
(* IsPrefix and concatenation.                                              *)
LEMMA PrefixOfConcat ==
  ASSUME NEW S, NEW s \in Seq(S), NEW t \in Seq(S)
  PROVE  IsPrefix(s, s \o t)
<1>1. s \o t \in Seq(S) /\ Len(s) <= Len(s \o t)
  BY ConcatProperties, LenProperties
<1>2. \A i \in 1..Len(s) : SubSeq(s, 1, Len(s))[i] = SubSeq(s \o t, 1, Len(s))[i]
  BY <1>1, ConcatProperties, LenProperties
<1>3. SubSeq(s, 1, Len(s)) \in Seq(S) /\ SubSeq(s \o t, 1, Len(s)) \in Seq(S)
  BY <1>1, LenProperties
<1>4. Len(SubSeq(s, 1, Len(s))) = Len(s) /\ Len(SubSeq(s \o t, 1, Len(s))) = Len(s)
  BY <1>1, LenProperties
<1>5. SubSeq(s, 1, Len(s)) = SubSeq(s \o t, 1, Len(s))
  BY <1>2, <1>3, <1>4, SeqEqual
<1> QED
  BY <1>1, <1>5 DEF IsPrefix

LEMMA HeadThenTail ==
  ASSUME NEW S, NEW q \in Seq(S), q # <<>>
  PROVE  /\ <<Head(q)>> \in Seq(S) /\ Tail(q) \in Seq(S) /\ Len(<<Head(q)>>) = 1
         /\ <<Head(q)>> \o Tail(q) = q
<1>1. /\ Head(q) \in S /\ Tail(q) \in Seq(S) /\ Len(Tail(q)) = Len(q) - 1
      /\ \A i \in 1..Len(Tail(q)) : Tail(q)[i] = q[i + 1]
  BY HeadTailProperties
<1>2. <<Head(q)>> \in Seq(S) /\ Len(<<Head(q)>>) = 1 /\ <<Head(q)>>[1] = q[1]
  BY <1>1
<1>3. /\ <<Head(q)>> \o Tail(q) \in Seq(S)
      /\ Len(<<Head(q)>> \o Tail(q)) = Len(q)
      /\ \A i \in 1..Len(q) : (<<Head(q)>> \o Tail(q))[i] =
             IF i <= 1 THEN <<Head(q)>>[i] ELSE Tail(q)[i - 1]
  BY <1>1, <1>2, ConcatProperties, LenProperties
<1>4. \A i \in 1..Len(q) : (<<Head(q)>> \o Tail(q))[i] = q[i]
  BY <1>1, <1>2, <1>3, LenProperties
<1> QED
  BY <1>1, <1>2, <1>3, <1>4, SeqEqual

LEMMA ChunksAssociate ==
  \A a, b, c \in Chunks : (a \o b) \o c = a \o (b \o c)
BY ConcatAssociative DEF Chunks

(* pump() moves the head of its queue into its hands, and nothing else.     *)
LEMMA PumpFromKeeps ==
  ASSUME NEW q \in Chunks, NEW w, NEW idle \in BOOLEAN, PumpFrom(q, w, idle),
         item \in Chunks, pump \in {"idle", "ready", "writing"},
         ~idle => pump # "idle" /\ Len(item) = 1
  PROVE  /\ queue' \in Chunks /\ item' \in Chunks
         /\ pump' \in {"idle", "ready", "writing"}
         /\ pump' = "idle" => item' = <<>>
         /\ pump' # "idle" => Len(item') = 1
         /\ item' \o queue' = (IF idle THEN <<>> ELSE item) \o q
<1>1. CASE MayShift(q, w, idle)
  <2>1. /\ pump' = "ready" /\ item' = <<Head(q)>> /\ queue' = Tail(q)
        /\ q # <<>> /\ idle
    BY <1>1 DEF PumpFrom, MayShift, Rest
  <2> QED
    BY <2>1, HeadThenTail, ConcatEmptySeq DEF Chunks
<1>2. CASE ~MayShift(q, w, idle) /\ idle
  <2>1. pump' = "idle" /\ item' = <<>> /\ queue' = q
    BY <1>2 DEF PumpFrom
  <2> QED
    BY <1>2, <2>1 DEF Chunks
<1>3. CASE ~MayShift(q, w, idle) /\ ~idle
  BY <1>3 DEF PumpFrom
<1> QED
  BY <1>1, <1>2, <1>3
-----------------------------------------------------------------------------
LEMMA QueueInit == Init => QueueInv
<1> SUFFICES ASSUME Init PROVE QueueInv
  OBVIOUS
<1>1. <<>> \in Chunks /\ <<>> \o (<<>> \o (<<>> \o <<>>)) = <<>> /\ <<>> \o (<<>> \o <<>>) = <<>>
  BY EmptySeq, ConcatEmptySeq DEF Chunks
<1> QED
  BY <1>1 DEF Init, QueueInv, QueueTypes, Path

LEMMA QueueFrame ==
  ASSUME QueueInv, UNCHANGED <<queue, item, sink, accepted, pump>>,
         writes' \in Nat, destroyed => destroyed'
  PROVE  QueueInv'
BY DEF QueueInv, QueueTypes, Path

(* Dropping the queue, and what is in flight, of a destroyed socket.        *)
LEMMA QueueDropped ==
  ASSUME QueueInv, destroyed', queue' \in {queue, <<>>}, UNCHANGED <<sink, accepted>>,
         \/ UNCHANGED <<item, pump>>
         \/ item' = <<>> /\ pump' = "idle" /\ queue' = <<>>,
         writes' \in Nat
  PROVE  QueueInv'
<1> PICK rest \in Chunks : accepted = sink \o (item \o (queue \o rest))
  BY DEF QueueInv, Path
<1>1. /\ queue \in Chunks /\ item \in Chunks /\ <<>> \in Chunks
      /\ queue \o rest \in Chunks /\ item \o (queue \o rest) \in Chunks
      /\ \A s \in Chunks : <<>> \o s = s
  BY EmptySeq, ConcatProperties, ConcatEmptySeq DEF Chunks, QueueInv, QueueTypes
<1>2. QueueTypes'
  BY <1>1 DEF QueueInv, QueueTypes
<1>3. CASE queue' = queue /\ UNCHANGED item
  BY <1>2, <1>3 DEF QueueInv, Path
<1>4. CASE queue' = <<>> /\ UNCHANGED item
  <2>1. accepted' = sink' \o (item' \o (queue' \o (queue \o rest)))
    BY <1>1, <1>4
  <2> QED
    BY <1>1, <1>2, <2>1 DEF QueueInv, Path
<1>5. CASE queue' = <<>> /\ item' = <<>>
  <2>1. accepted' = sink' \o (item' \o (queue' \o (item \o (queue \o rest))))
    BY <1>1, <1>5
  <2> QED
    BY <1>1, <1>2, <2>1 DEF QueueInv, Path
<1> QED
  BY <1>3, <1>4, <1>5

LEMMA DestroyedInv ==
  ASSUME QueueInv, Destroyed, UNCHANGED <<item, pump, sink, accepted>>, writes' \in Nat
  PROVE  QueueInv'
<1>1. destroyed' /\ queue' \in {queue, <<>>}
  BY DEF Destroyed
<1> QED
  BY <1>1, QueueDropped

LEMMA OpenInv ==
  ASSUME QueueInv, Open
  PROVE  QueueInv'
<1>1. /\ queue \in Chunks /\ item \in Chunks /\ pump \in {"idle", "ready", "writing"}
      /\ pump = "idle" => item = <<>>
      /\ pump # "idle" => Len(item) = 1
      /\ PumpFrom(queue, TRUE, pump = "idle")
      /\ ~destroyed /\ UNCHANGED <<destroyed, sink, accepted, writes>>
  BY DEF QueueInv, QueueTypes, Open, past
<1>2. /\ queue' \in Chunks /\ item' \in Chunks
      /\ pump' \in {"idle", "ready", "writing"}
      /\ pump' = "idle" => item' = <<>>
      /\ pump' # "idle" => Len(item') = 1
      /\ item' \o queue' = item \o queue
  BY <1>1, PumpFromKeeps
<1>3. <<>> \in Chunks /\ queue' \o <<>> = queue'
  BY <1>2, EmptySeq, ConcatEmptySeq DEF Chunks
<1>4. accepted' = sink' \o (item' \o queue')
  BY <1>1, <1>2 DEF QueueInv, Path
<1> QED
  BY <1>1, <1>2, <1>3, <1>4 DEF QueueInv, QueueTypes, Path

LEMMA WriteInv ==
  ASSUME QueueInv, NEW size \in Sizes, Write(size)
  PROVE  QueueInv'
<1>1. CASE WriteRefused(size)
  BY <1>1, DestroyedInv DEF Write, WriteRefused, QueueInv, QueueTypes
<1>2. CASE WriteQueued(size)
  <2> DEFINE chunk == [id |-> writes + 1, size |-> size]
             q == Append(queue, chunk)
  <2>1. /\ queue \in Chunks /\ item \in Chunks /\ sink \in Chunks /\ accepted \in Chunks
        /\ pump \in {"idle", "ready", "writing"}
        /\ pump = "idle" => item = <<>>
        /\ pump # "idle" => Len(item) = 1
    BY DEF QueueInv, QueueTypes
  <2>2. /\ chunk \in Chunk /\ writes' \in Nat
        /\ PumpFrom(q, writer, pump = "idle")
        /\ ~destroyed /\ accepted' = Append(accepted, chunk)
        /\ UNCHANGED <<destroyed, sink>>
    BY <1>2, SizesAssumption DEF Write, WriteQueued, Chunk, QueueInv, QueueTypes, life
  <2>3. q \in Chunks /\ q = queue \o <<chunk>> /\ accepted' = accepted \o <<chunk>>
        /\ accepted' \in Chunks /\ <<chunk>> \in Chunks
    BY <2>1, <2>2, AppendProperties, AppendIsConcat DEF Chunks
  <2> HIDE DEF chunk, q
  <2>4. /\ queue' \in Chunks /\ item' \in Chunks
        /\ pump' \in {"idle", "ready", "writing"}
        /\ pump' = "idle" => item' = <<>>
        /\ pump' # "idle" => Len(item') = 1
        /\ item' \o queue' = item \o q
    BY <2>1, <2>2, <2>3, PumpFromKeeps
  <2>5. accepted' = sink' \o (item' \o queue')
    <3>1. accepted' = (sink \o (item \o queue)) \o <<chunk>>
      BY <2>2, <2>3 DEF QueueInv, Path
    <3>2. item \o queue \in Chunks
      BY <2>1, ConcatProperties DEF Chunks
    <3> DEFINE last == <<chunk>>
    <3> last \in Chunks /\ item \in Chunks /\ queue \in Chunks /\ sink \in Chunks
      BY <2>1, <2>3
    <3> HIDE DEF last
    <3>3. (sink \o (item \o queue)) \o last = sink \o ((item \o queue) \o last)
      BY <3>2, ChunksAssociate
    <3>4. (item \o queue) \o last = item \o (queue \o last)
      BY ChunksAssociate
    <3> QED
      BY <2>2, <2>3, <2>4, <3>1, <3>3, <3>4 DEF last
  <2>6. <<>> \in Chunks /\ queue' \o <<>> = queue'
    BY <2>4, EmptySeq, ConcatEmptySeq DEF Chunks
  <2> QED
    BY <2>1, <2>2, <2>3, <2>4, <2>5, <2>6 DEF QueueInv, QueueTypes, Path
<1> QED
  BY <1>1, <1>2 DEF Write

LEMMA PumpWrittenInv ==
  ASSUME QueueInv, PumpWritten
  PROVE  QueueInv'
<1> PICK rest \in Chunks : accepted = sink \o (item \o (queue \o rest))
  BY DEF QueueInv, Path
<1>1. /\ queue \in Chunks /\ item \in Chunks /\ sink \in Chunks /\ accepted \in Chunks
      /\ pump \in {"idle", "ready", "writing"} /\ PumpFrom(queue, TRUE, TRUE)
      /\ sink' = sink \o item /\ UNCHANGED <<destroyed, accepted, writes>>
  BY DEF PumpWritten, QueueInv, QueueTypes, life
<1>2. /\ queue' \in Chunks /\ item' \in Chunks
      /\ pump' \in {"idle", "ready", "writing"}
      /\ pump' = "idle" => item' = <<>>
      /\ pump' # "idle" => Len(item') = 1
      /\ item' \o queue' = queue
  <2>1. <<>> \o queue = queue
    BY <1>1, ConcatEmptySeq DEF Chunks
  <2> QED
    BY <1>1, <2>1, PumpFromKeeps
<1>3. sink' \in Chunks /\ queue \o rest \in Chunks
  BY <1>1, ConcatProperties DEF Chunks
<1>4. accepted' = sink' \o (item' \o (queue' \o rest))
  <2> DEFINE left == queue \o rest
  <2> left \in Chunks /\ item \in Chunks /\ sink \in Chunks
    BY <1>1, <1>3
  <2> HIDE DEF left
  <2>0. (sink \o item) \o left = sink \o (item \o left)
    BY ChunksAssociate
  <2>1. sink \o (item \o (queue \o rest)) = sink' \o (queue \o rest)
    BY <1>1, <2>0 DEF left
  <2>2. queue \o rest = item' \o (queue' \o rest)
    <3>1. queue' \in Chunks /\ item' \in Chunks
      BY <1>2
    <3>2. (item' \o queue') \o rest = item' \o (queue' \o rest)
      BY <3>1, ChunksAssociate
    <3> QED
      BY <1>2, <3>2
  <2> QED
    BY <1>1, <2>1, <2>2
<1>5. ~destroyed' => accepted' = sink' \o (item' \o queue')
  <2>1. sink \o (item \o queue) = sink' \o queue
    BY <1>1, ChunksAssociate
  <2> QED
    BY <1>1, <1>2, <2>1 DEF QueueInv, Path
<1> QED
  BY <1>1, <1>2, <1>3, <1>4, <1>5 DEF QueueInv, QueueTypes, Path

LEMMA CloseWriterInv ==
  ASSUME QueueInv, CloseWriter, UNCHANGED <<item, pump, sink, accepted, writes>>
  PROVE  QueueInv'
<1>1. writes' \in Nat
  BY DEF QueueInv, QueueTypes
<1>2. CASE Destroyed
  BY <1>1, <1>2, DestroyedInv
<1>3. CASE UNCHANGED <<queue, destroyed>>
  BY <1>1, <1>3, QueueFrame
<1> QED
  BY <1>2, <1>3 DEF CloseWriter

LEMMA QueueStepInv == QueueInv /\ [Next]_vars => QueueInv'
<1> SUFFICES ASSUME QueueInv, [Next]_vars PROVE QueueInv'
  OBVIOUS
<1>0. writes \in Nat
  BY DEF QueueInv, QueueTypes
<1>1. CASE PumpReady
  BY <1>1 DEF PumpReady, life, past, QueueInv, QueueTypes, Path
<1>2. CASE PumpFails
  BY <1>0, <1>2, QueueDropped DEF PumpFails
<1>3. CASE End
  <2>1. CASE Flushed
    BY <1>3, <2>1, CloseWriterInv DEF End, past
  <2>2. CASE ~Flushed
    BY <1>0, <1>3, <2>2, QueueFrame DEF End, past
  <2> QED
    BY <2>1, <2>2
<1>4. CASE EndPoll
  BY <1>4, CloseWriterInv DEF EndPoll, past
<1>5. CASE SinkClosed
  BY <1>0, <1>5, QueueFrame DEF SinkClosed, past
<1>6. CASE CloseRejected
  BY <1>0, <1>6, DestroyedInv DEF CloseRejected, past
<1>7. CASE SinkErrors
  BY <1>0, <1>7, QueueFrame DEF SinkErrors, past, life
<1>8. CASE RemoteEnds
  BY <1>0, <1>8, QueueFrame DEF RemoteEnds, past
<1>9. CASE Destroy
  BY <1>0, <1>9, DestroyedInv DEF Destroy, past
<1>10. CASE UNCHANGED vars
  BY <1>0, <1>10, QueueFrame DEF vars
<1> QED
  BY <1>1, <1>2, <1>3, <1>4, <1>5, <1>6, <1>7, <1>8, <1>9, <1>10,
     OpenInv, WriteInv, PumpWrittenInv DEF Next

LEMMA QueueInvGives == QueueInv => NothingLost
<1> SUFFICES ASSUME QueueInv PROVE NothingLost
  OBVIOUS
<1> PICK rest \in Chunks : accepted = sink \o (item \o (queue \o rest))
  BY DEF QueueInv, Path
<1>1. queue \in Chunks /\ item \in Chunks /\ sink \in Chunks
  BY DEF QueueInv, QueueTypes
<1>2. item \o (queue \o rest) \in Chunks
  BY <1>1, ConcatProperties DEF Chunks
<1>3. IsPrefix(sink, accepted)
  BY <1>1, <1>2, PrefixOfConcat DEF Chunks
<1>4. ~destroyed => (sink \o item) \o queue = accepted
  BY <1>1, ChunksAssociate DEF QueueInv, Path
<1> QED
  BY <1>3, <1>4 DEF NothingLost

(* The outgoing queue hands the stream exactly what write() accepted, in    *)
(* order, and a prefix of it once the socket is destroyed.                  *)
THEOREM NothingLostTheorem == Spec => []NothingLost
BY QueueInit, QueueStepInv, QueueInvGives, PTL DEF Spec
-----------------------------------------------------------------------------
(* Callbacks.  The ids on the path of the chunks do not repeat, and a chunk *)
(* that is still in flight or queued has not been answered.                 *)
Distinct(q) == \A i, j \in 1..Len(q) : q[i].id = q[j].id => i = j

Answers == {<<>>, <<"ok">>, <<"error">>}

CallInv ==
    /\ callback \in [1..MaxWrites -> Answers]
    /\ Ids(sink) \cap Ids(queue) = {}
    /\ Ids(item) \cap Ids(queue) = {}
    /\ Distinct(queue)
    /\ \A i \in Ids(sink) \cup Ids(item) \cup Ids(queue) : i <= writes
    /\ \A i \in 1..MaxWrites :
           i > writes \/ i \in Ids(item) \cup Ids(queue) => callback[i] = <<>>
    /\ \A i \in 1..MaxWrites :
           /\ callback[i] = <<"ok">> => i \in Ids(sink)
           /\ callback[i] = <<"error">> => i \notin Ids(sink)

LEMMA IdsOf ==
  ASSUME NEW s \in Chunks
  PROVE  Ids(s) = {s[i].id : i \in 1..Len(s)}
BY LenProperties DEF Ids, ToSet, Chunks

LEMMA IdsAreNumbers ==
  ASSUME NEW s \in Chunks
  PROVE  Ids(s) \subseteq 1..MaxWrites
<1>1. \A i \in 1..Len(s) : s[i] \in Chunk
  BY ElementOfSeq DEF Chunks
<1> QED
  BY <1>1, IdsOf DEF Chunk

LEMMA IdsEmpty == <<>> \in Chunks /\ Ids(<<>>) = {} /\ Distinct(<<>>)
<1>1. <<>> \in Chunks /\ Len(<<>>) = 0
  BY EmptySeq DEF Chunks
<1> QED
  BY <1>1, IdsOf DEF Distinct

LEMMA IdsConcat ==
  ASSUME NEW s \in Chunks, NEW t \in Chunks
  PROVE  Ids(s \o t) = Ids(s) \cup Ids(t)
<1>1. /\ s \o t \in Chunks
      /\ Len(s) \in Nat /\ Len(t) \in Nat
      /\ Len(s \o t) = Len(s) + Len(t)
      /\ \A i \in 1..Len(s) + Len(t) :
             (s \o t)[i] = IF i <= Len(s) THEN s[i] ELSE t[i - Len(s)]
  BY ConcatProperties, LenProperties DEF Chunks
<1> DEFINE st == s \o t
           m == Len(s)
           n == Len(t)
<1>2. /\ Ids(st) = {st[i].id : i \in 1..m + n}
      /\ Ids(s) = {s[i].id : i \in 1..m}
      /\ Ids(t) = {t[i].id : i \in 1..n}
  BY <1>1, IdsOf
<1>3. \A i \in 1..m + n : st[i] = IF i <= m THEN s[i] ELSE t[i - m]
  BY <1>1
<1>4. m \in Nat /\ n \in Nat
  BY <1>1
<1> HIDE DEF st, m, n
<1>5. Ids(st) \subseteq Ids(s) \cup Ids(t)
  <2> SUFFICES ASSUME NEW i \in 1..m + n PROVE st[i].id \in Ids(s) \cup Ids(t)
    BY <1>2
  <2>1. CASE i <= m
    BY <1>2, <1>3, <1>4, <2>1
  <2>2. CASE i > m
    <3>1. i - m \in 1..n /\ st[i] = t[i - m]
      BY <1>3, <1>4, <2>2
    <3> QED
      BY <1>2, <3>1
  <2> QED
    BY <1>4, <2>1, <2>2
<1>6. Ids(s) \subseteq Ids(st)
  <2> SUFFICES ASSUME NEW i \in 1..m PROVE s[i].id \in Ids(st)
    BY <1>2
  <2>1. i \in 1..m + n /\ st[i] = s[i]
    BY <1>3, <1>4
  <2> QED
    BY <1>2, <2>1
<1>7. Ids(t) \subseteq Ids(st)
  <2> SUFFICES ASSUME NEW i \in 1..n PROVE t[i].id \in Ids(st)
    BY <1>2
  <2>1. m + i \in 1..m + n /\ st[m + i] = t[i]
    BY <1>3, <1>4
  <2> QED
    BY <1>2, <2>1
<1> QED
  BY <1>5, <1>6, <1>7 DEF st

LEMMA IdsSplit ==
  ASSUME NEW q \in Chunks, q # <<>>, Distinct(q)
  PROVE  /\ Ids(q) = Ids(<<Head(q)>>) \cup Ids(Tail(q))
         /\ Ids(<<Head(q)>>) \cap Ids(Tail(q)) = {}
         /\ Distinct(Tail(q))
<1>1. /\ <<Head(q)>> \in Chunks /\ Tail(q) \in Chunks /\ Len(<<Head(q)>>) = 1
      /\ <<Head(q)>> \o Tail(q) = q
  BY HeadThenTail DEF Chunks
<1>2. /\ Len(q) \in Nat \ {0} /\ Len(Tail(q)) = Len(q) - 1
      /\ \A i \in 1..Len(Tail(q)) : Tail(q)[i] = q[i + 1]
  BY HeadTailProperties, EmptySeq DEF Chunks
<1>3. Ids(q) = Ids(<<Head(q)>>) \cup Ids(Tail(q))
  BY <1>1, IdsConcat
<1> DEFINE t == Tail(q)
           n == Len(t)
<1>4. Ids(<<Head(q)>>) = {q[1].id}
  BY <1>1, IdsOf
<1>5. Ids(t) = {t[i].id : i \in 1..n}
  BY <1>1, IdsOf
<1>6. n \in Nat /\ Len(q) = n + 1 /\ \A i \in 1..n : t[i] = q[i + 1]
  BY <1>2
<1> HIDE DEF t, n
<1>7. q[1].id \notin Ids(t)
  <2> SUFFICES ASSUME NEW i \in 1..n, t[i].id = q[1].id PROVE FALSE
    BY <1>5
  <2>1. i + 1 \in 1..Len(q) /\ 1 \in 1..Len(q) /\ q[i + 1].id = q[1].id
    BY <1>6
  <2> QED
    BY <1>6, <2>1 DEF Distinct
<1>8. \A i, j \in 1..n : t[i].id = t[j].id => i = j
  <2> SUFFICES ASSUME NEW i \in 1..n, NEW j \in 1..n, t[i].id = t[j].id PROVE i = j
    OBVIOUS
  <2>1. i + 1 \in 1..Len(q) /\ j + 1 \in 1..Len(q) /\ q[i + 1].id = q[j + 1].id
    BY <1>6
  <2>2. i + 1 = j + 1
    BY <2>1 DEF Distinct
  <2> QED
    BY <1>6, <2>2
<1> QED
  BY <1>3, <1>4, <1>7, <1>8 DEF t, n, Distinct

LEMMA IdsAppend ==
  ASSUME NEW q \in Chunks, NEW c \in Chunk, Distinct(q), c.id \notin Ids(q)
  PROVE  /\ Append(q, c) \in Chunks
         /\ Ids(Append(q, c)) = Ids(q) \cup {c.id}
         /\ Distinct(Append(q, c))
<1>1. /\ Append(q, c) \in Chunks /\ Len(Append(q, c)) = Len(q) + 1 /\ Len(q) \in Nat
      /\ \A i \in 1..Len(q) : Append(q, c)[i] = q[i]
      /\ Append(q, c)[Len(q) + 1] = c
  BY AppendProperties, LenProperties DEF Chunks
<1> DEFINE a == Append(q, c)
           n == Len(q)
<1>2. Ids(a) = {a[i].id : i \in 1..n + 1} /\ Ids(q) = {q[i].id : i \in 1..n}
  BY <1>1, IdsOf
<1>3. n \in Nat /\ (\A i \in 1..n : a[i] = q[i]) /\ a[n + 1] = c /\ Len(a) = n + 1
  BY <1>1
<1>4. \A i, j \in 1..n : q[i].id = q[j].id => i = j
  BY DEF Distinct
<1> HIDE DEF a, n
<1>5. Ids(a) = Ids(q) \cup {c.id}
  <2>1. \A i \in 1..n + 1 : i \in 1..n \/ i = n + 1
    BY <1>3
  <2>2. \A i \in 1..n : i \in 1..n + 1
    BY <1>3
  <2>3. n + 1 \in 1..n + 1
    BY <1>3
  <2> QED
    BY <1>2, <1>3, <2>1, <2>2, <2>3
<1>6. \A i, j \in 1..n + 1 : a[i].id = a[j].id => i = j
  <2> SUFFICES ASSUME NEW i \in 1..n + 1, NEW j \in 1..n + 1, a[i].id = a[j].id PROVE i = j
    OBVIOUS
  <2>1. \A k \in 1..n : a[k].id \in Ids(q)
    BY <1>2, <1>3
  <2>2. CASE i \in 1..n /\ j \in 1..n
    BY <1>3, <1>4, <2>2
  <2>3. CASE i = n + 1
    BY <1>3, <2>1, <2>3
  <2>4. CASE j = n + 1
    BY <1>3, <2>1, <2>4
  <2> QED
    BY <1>3, <2>2, <2>3, <2>4
<1> QED
  BY <1>1, <1>3, <1>5, <1>6 DEF a, Distinct

LEMMA AnswerEffect ==
  ASSUME NEW ids, NEW result \in {"ok", "error"}, Answer(ids, result),
         callback \in [1..MaxWrites -> Answers],
         \A i \in 1..MaxWrites : i \in ids => callback[i] = <<>>
  PROVE  /\ callback' \in [1..MaxWrites -> Answers]
         /\ \A i \in 1..MaxWrites :
                callback'[i] = IF i \in ids THEN <<result>> ELSE callback[i]
<1>1. Append(<<>>, result) = <<result>>
  OBVIOUS
<1>2. callback' = [i \in 1..MaxWrites |->
                       IF i \in ids THEN Append(callback[i], result) ELSE callback[i]]
  BY DEF Answer
<1>3. \A i \in 1..MaxWrites :
          callback'[i] = IF i \in ids THEN <<result>> ELSE callback[i]
  BY <1>1, <1>2
<1>4. <<result>> \in Answers
  BY DEF Answers
<1> QED
  BY <1>2, <1>3, <1>4

LEMMA AnswersDiffer == <<"ok">> # <<"error">> /\ <<"ok">> # <<>> /\ <<"error">> # <<>>
<1>1. <<"ok">>[1] = "ok" /\ <<"error">>[1] = "error" /\ Len(<<"ok">>) = 1
      /\ Len(<<"error">>) = 1 /\ Len(<<>>) = 0
  OBVIOUS
<1> QED
  BY <1>1

LEMMA PumpFromIds ==
  ASSUME NEW q \in Chunks, NEW w, NEW idle \in BOOLEAN, PumpFrom(q, w, idle),
         Distinct(q), item \in Chunks, idle \/ Ids(item) \cap Ids(q) = {}
  PROVE  /\ Ids(item') \cup Ids(queue') = (IF idle THEN {} ELSE Ids(item)) \cup Ids(q)
         /\ Ids(item') \cap Ids(queue') = {}
         /\ Ids(queue') \subseteq Ids(q)
         /\ Distinct(queue')
<1>1. CASE MayShift(q, w, idle)
  <2>1. item' = <<Head(q)>> /\ queue' = Tail(q) /\ q # <<>> /\ idle
    BY <1>1 DEF PumpFrom, MayShift, Rest
  <2> QED
    BY <2>1, IdsSplit
<1>2. CASE ~MayShift(q, w, idle) /\ idle
  <2>1. item' = <<>> /\ queue' = q
    BY <1>2 DEF PumpFrom
  <2> QED
    BY <1>2, <2>1, IdsEmpty
<1>3. CASE ~MayShift(q, w, idle) /\ ~idle
  <2>1. item' = item /\ queue' = q
    BY <1>3 DEF PumpFrom
  <2> QED
    BY <1>3, <2>1
<1> QED
  BY <1>1, <1>2, <1>3
-----------------------------------------------------------------------------
LEMMA CallInit == Init => CallInv
BY IdsEmpty, AnswersDiffer DEF Init, CallInv, Answers

LEMMA CallFrame ==
  ASSUME CallInv, UNCHANGED <<callback, sink, writes>>,
         item' \in {item, <<>>}, queue' \in {queue, <<>>}
  PROVE  CallInv'
<1>1. Ids(item') \in {Ids(item), {}} /\ Ids(queue') \in {Ids(queue), {}} /\ Distinct(queue')
  BY IdsEmpty DEF CallInv
<1> QED
  BY <1>1 DEF CallInv

LEMMA OpenCalls ==
  ASSUME QueueTypes, CallInv, Open
  PROVE  CallInv'
<1>1. /\ PumpFrom(queue, TRUE, pump = "idle") /\ UNCHANGED <<callback, sink, writes>>
      /\ pump = "idle" => item = <<>>
      /\ item \in Chunks /\ queue \in Chunks
  BY DEF Open, past, QueueTypes
<1>2. /\ Ids(item') \cup Ids(queue') = Ids(item) \cup Ids(queue)
      /\ Ids(item') \cap Ids(queue') = {}
      /\ Ids(queue') \subseteq Ids(queue)
      /\ Distinct(queue')
  BY <1>1, PumpFromIds, IdsEmpty DEF CallInv
<1> QED
  BY <1>1, <1>2 DEF CallInv

LEMMA RefusedCalls ==
  ASSUME QueueTypes, CallInv, NEW size \in Sizes, Write(size), WriteRefused(size)
  PROVE  CallInv'
<1>1. /\ writes' = writes + 1 /\ writes + 1 \in 1..MaxWrites /\ writes \in Nat
      /\ Answer({writes + 1}, "error")
      /\ UNCHANGED <<item, sink>> /\ queue' \in {queue, <<>>}
  BY SizesAssumption DEF Write, WriteRefused, Destroyed, QueueTypes
<1>2. Ids(queue') \subseteq Ids(queue) /\ Distinct(queue') /\ Ids(item') = Ids(item)
      /\ Ids(sink') = Ids(sink)
  BY <1>1, IdsEmpty DEF CallInv
<1>3. callback[writes + 1] = <<>>
  BY <1>1 DEF CallInv
<1>4. /\ callback' \in [1..MaxWrites -> Answers]
      /\ \A i \in 1..MaxWrites :
             callback'[i] = IF i = writes + 1 THEN <<"error">> ELSE callback[i]
  BY <1>1, <1>3, AnswerEffect DEF CallInv
<1>5. writes + 1 \notin Ids(sink) \cup Ids(item) \cup Ids(queue)
  BY <1>1 DEF CallInv
<1>6. \A i \in Ids(sink') \cup Ids(item') \cup Ids(queue') : i <= writes'
  <2> SUFFICES ASSUME NEW i \in Ids(sink) \cup Ids(item) \cup Ids(queue) PROVE i <= writes + 1
    BY <1>1, <1>2
  <2>1. i <= writes /\ i \in 1..MaxWrites
    BY IdsAreNumbers DEF CallInv, QueueTypes
  <2> QED
    BY <1>1, <2>1
<1>7. \A i \in 1..MaxWrites :
          i > writes' \/ i \in Ids(item') \cup Ids(queue') => callback'[i] = <<>>
  <2> SUFFICES ASSUME NEW i \in 1..MaxWrites,
                      i > writes + 1 \/ i \in Ids(item) \cup Ids(queue)
               PROVE  callback'[i] = <<>>
    BY <1>1, <1>2
  <2>1. i # writes + 1 /\ (i > writes \/ i \in Ids(item) \cup Ids(queue))
    BY <1>1, <1>5
  <2> QED
    BY <1>4, <2>1 DEF CallInv
<1>8. \A i \in 1..MaxWrites :
          /\ callback'[i] = <<"ok">> => i \in Ids(sink')
          /\ callback'[i] = <<"error">> => i \notin Ids(sink')
  BY <1>2, <1>4, <1>5, AnswersDiffer DEF CallInv
<1> QED
  BY <1>2, <1>4, <1>6, <1>7, <1>8 DEF CallInv

LEMMA QueuedCalls ==
  ASSUME QueueTypes, CallInv, NEW size \in Sizes, Write(size), WriteQueued(size)
  PROVE  CallInv'
<1> DEFINE chunk == [id |-> writes + 1, size |-> size]
           q == Append(queue, chunk)
<1>1. /\ writes' = writes + 1 /\ writes + 1 \in 1..MaxWrites /\ writes \in Nat
      /\ chunk \in Chunk /\ chunk.id = writes + 1
      /\ PumpFrom(q, writer, pump = "idle")
      /\ UNCHANGED <<callback, sink>>
      /\ pump = "idle" => item = <<>>
      /\ item \in Chunks /\ queue \in Chunks /\ sink \in Chunks
  BY SizesAssumption DEF Write, WriteQueued, Chunk, QueueTypes
<1>2. writes + 1 \notin Ids(sink) \cup Ids(item) \cup Ids(queue)
  BY <1>1 DEF CallInv
<1>3. q \in Chunks /\ Ids(q) = Ids(queue) \cup {writes + 1} /\ Distinct(q)
  BY <1>1, <1>2, IdsAppend DEF CallInv
<1> HIDE DEF chunk, q
<1>4. /\ Ids(item') \cup Ids(queue') = Ids(item) \cup Ids(queue) \cup {writes + 1}
      /\ Ids(item') \cap Ids(queue') = {}
      /\ Ids(queue') \subseteq Ids(queue) \cup {writes + 1}
      /\ Distinct(queue')
  <2>1. Ids(item) \cap Ids(q) = {}
    BY <1>2, <1>3 DEF CallInv
  <2>2. pump = "idle" => Ids(item) = {}
    BY <1>1, IdsEmpty
  <2> QED
    BY <1>1, <1>3, <2>1, <2>2, PumpFromIds
<1>5. Ids(sink') \cap Ids(queue') = {}
  BY <1>1, <1>2, <1>4 DEF CallInv
<1>6. \A i \in Ids(sink') \cup Ids(item') \cup Ids(queue') : i <= writes'
  <2> SUFFICES ASSUME NEW i \in Ids(sink) \cup Ids(item) \cup Ids(queue) \cup {writes + 1}
               PROVE  i <= writes + 1
    BY <1>1, <1>4
  <2>1. CASE i = writes + 1
    BY <1>1, <2>1
  <2>2. CASE i # writes + 1
    <3>1. i <= writes /\ i \in 1..MaxWrites
      BY <1>1, <2>2, IdsAreNumbers DEF CallInv
    <3> QED
      BY <1>1, <3>1
  <2> QED
    BY <2>1, <2>2
<1>7. \A i \in 1..MaxWrites :
          i > writes' \/ i \in Ids(item') \cup Ids(queue') => callback'[i] = <<>>
  <2> SUFFICES ASSUME NEW i \in 1..MaxWrites,
                      i > writes + 1 \/ i \in Ids(item) \cup Ids(queue) \cup {writes + 1}
               PROVE  callback[i] = <<>>
    BY <1>1, <1>4
  <2>1. i > writes \/ i \in Ids(item) \cup Ids(queue)
    BY <1>1
  <2> QED
    BY <2>1 DEF CallInv
<1> QED
  BY <1>1, <1>4, <1>5, <1>6, <1>7 DEF CallInv

LEMMA WrittenCalls ==
  ASSUME QueueTypes, CallInv, PumpWritten
  PROVE  CallInv'
<1>1. /\ item \in Chunks /\ queue \in Chunks /\ sink \in Chunks /\ writes \in Nat
      /\ Len(item) = 1 /\ PumpFrom(queue, TRUE, TRUE)
      /\ sink' = sink \o item /\ writes' = writes
      /\ Answer({item[1].id}, "ok")
  BY DEF PumpWritten, QueueTypes
<1> DEFINE x == item[1].id
<1>2. Ids(item) = {x}
  BY <1>1, IdsOf
<1>3. Ids(sink') = Ids(sink) \cup {x}
  BY <1>1, <1>2, IdsConcat
<1>4. x \in 1..MaxWrites /\ x <= writes /\ callback[x] = <<>>
  BY <1>1, <1>2, IdsAreNumbers DEF CallInv
<1>5. /\ Ids(item') \cup Ids(queue') = Ids(queue)
      /\ Ids(item') \cap Ids(queue') = {}
      /\ Ids(queue') \subseteq Ids(queue)
      /\ Distinct(queue')
  BY <1>1, PumpFromIds DEF CallInv
<1>6. /\ callback' \in [1..MaxWrites -> Answers]
      /\ \A i \in 1..MaxWrites : callback'[i] = IF i = x THEN <<"ok">> ELSE callback[i]
  BY <1>1, <1>4, AnswerEffect DEF CallInv
<1>7. x \notin Ids(queue)
  BY <1>2 DEF CallInv
<1> HIDE DEF x
<1>8. /\ Ids(sink') \cap Ids(queue') = {}
      /\ \A i \in Ids(sink') \cup Ids(item') \cup Ids(queue') : i <= writes'
  BY <1>1, <1>3, <1>4, <1>5, <1>7 DEF CallInv
<1>9. \A i \in 1..MaxWrites :
          i > writes' \/ i \in Ids(item') \cup Ids(queue') => callback'[i] = <<>>
  <2> SUFFICES ASSUME NEW i \in 1..MaxWrites, i > writes \/ i \in Ids(queue)
               PROVE  callback'[i] = <<>>
    BY <1>1, <1>5
  <2>1. i # x
    BY <1>1, <1>4, <1>7
  <2> QED
    BY <1>6, <2>1 DEF CallInv
<1>10. \A i \in 1..MaxWrites :
          /\ callback'[i] = <<"ok">> => i \in Ids(sink')
          /\ callback'[i] = <<"error">> => i \notin Ids(sink')
  BY <1>3, <1>6, AnswersDiffer DEF CallInv
<1> QED
  BY <1>5, <1>6, <1>8, <1>9, <1>10 DEF CallInv

LEMMA FailsCalls ==
  ASSUME QueueTypes, CallInv, PumpFails
  PROVE  CallInv'
<1>1. /\ queue' = <<>> /\ item' = <<>> /\ UNCHANGED <<sink, writes>>
      /\ Answer(Ids(queue), "error") /\ writes \in Nat
  BY DEF PumpFails, Ids, QueueTypes
<1>2. Ids(queue') = {} /\ Ids(item') = {} /\ Distinct(queue') /\ Ids(sink') = Ids(sink)
  BY <1>1, IdsEmpty
<1>3. /\ callback' \in [1..MaxWrites -> Answers]
      /\ \A i \in 1..MaxWrites :
             callback'[i] = IF i \in Ids(queue) THEN <<"error">> ELSE callback[i]
  BY <1>1, AnswerEffect DEF CallInv
<1>4. \A i \in 1..MaxWrites : i > writes => callback'[i] = <<>>
  <2> SUFFICES ASSUME NEW i \in 1..MaxWrites, i > writes PROVE callback'[i] = <<>>
    OBVIOUS
  <2>1. i \notin Ids(queue)
    BY <1>1 DEF CallInv
  <2> QED
    BY <1>3, <2>1 DEF CallInv
<1> QED
  BY <1>1, <1>2, <1>3, <1>4, AnswersDiffer DEF CallInv

LEMMA CallStepInv == QueueTypes /\ CallInv /\ [Next]_vars => CallInv'
<1> SUFFICES ASSUME QueueTypes, CallInv, [Next]_vars PROVE CallInv'
  OBVIOUS
<1>1. CASE Open
  BY <1>1, OpenCalls
<1>2. ASSUME NEW size \in Sizes, Write(size) PROVE CallInv'
  BY <1>2, RefusedCalls, QueuedCalls DEF Write
<1>3. CASE PumpWritten
  BY <1>3, WrittenCalls
<1>4. CASE PumpFails
  BY <1>4, FailsCalls
<1>5. \/ UNCHANGED <<callback, sink, writes, item>> /\ queue' \in {queue, <<>>}
      \/ Open \/ PumpWritten \/ PumpFails \/ \E size \in Sizes : Write(size)
  BY DEF Next, PumpReady, End, EndPoll, CloseWriter, Destroyed, SinkClosed, CloseRejected,
         SinkErrors, RemoteEnds, Destroy, past, vars
<1> QED
  BY <1>1, <1>2, <1>3, <1>4, <1>5, CallFrame

LEMMA CallInvGives == CallInv => CallbacksTrue
<1> SUFFICES ASSUME CallInv, NEW i \in 1..MaxWrites
             PROVE  /\ Len(callback[i]) <= 1
                    /\ "ok" \in ToSet(callback[i]) => i \in Ids(sink)
                    /\ "error" \in ToSet(callback[i]) => i \notin Ids(sink)
  BY DEF CallbacksTrue
<1>1. callback[i] \in Answers
  BY DEF CallInv
<1>2. /\ Len(<<>>) = 0 /\ Len(<<"ok">>) = 1 /\ Len(<<"error">>) = 1
      /\ ToSet(<<>>) = {} /\ ToSet(<<"ok">>) = {"ok"} /\ ToSet(<<"error">>) = {"error"}
  BY DEF ToSet
<1>3. /\ callback[i] = <<"ok">> => i \in Ids(sink)
      /\ callback[i] = <<"error">> => i \notin Ids(sink)
  BY DEF CallInv
<1>4. CASE callback[i] = <<>>
  BY <1>2, <1>4
<1>5. CASE callback[i] = <<"ok">>
  BY <1>2, <1>3, <1>5
<1>6. CASE callback[i] = <<"error">>
  BY <1>2, <1>3, <1>6
<1> QED
  BY <1>1, <1>4, <1>5, <1>6 DEF Answers

(* Every callback is called at most once, without an error only for a chunk *)
(* the stream has taken, with one only for a chunk it never takes.          *)
THEOREM CallbacksTheorem == Spec => []CallbacksTrue
<1>1. QueueInv => QueueTypes
  BY DEF QueueInv
<1> QED
  BY <1>1, QueueInit, QueueStepInv, CallInit, CallStepInv, CallInvGives, PTL DEF Spec
-----------------------------------------------------------------------------
(* The bytes of a sequence of chunks.                                      *)

(* Induction over the natural numbers, said of sets: the theorem of the     *)
(* library that a set of them has a least element takes no operator.        *)
LEMMA SetInduction ==
  ASSUME NEW T \in SUBSET Nat, 0 \in T, \A n \in T : n + 1 \in T
  PROVE  T = Nat
<1> SUFFICES ASSUME Nat \ T # {} PROVE FALSE
  OBVIOUS
<1> DEFINE Less == OpToRel(<, Nat)
<1>1. \A y, z \in Nat : <<y, z>> \in Less <=> y < z
  BY Zenon DEF OpToRel
<1>2. IsWellFoundedOn(Less, Nat)
  BY NatLessThanWellFounded
<1> HIDE DEF Less
<1>3. PICK x \in Nat \ T : \A y \in Nat \ T : ~(<<y, x>> \in Less)
  BY <1>2, WFMin
<1>4. x # 0 /\ x - 1 \in Nat /\ x = (x - 1) + 1 /\ x - 1 < x
  BY <1>3
<1>5. x - 1 \in Nat \ T
  BY <1>3, <1>4
<1> QED
  BY <1>1, <1>3, <1>4, <1>5

(* f gives the bytes of the first n chunks of s, for n up to m.             *)
Sums(f, s, m) ==
    f = [n \in 0..m |-> IF n = 0 THEN 0 ELSE f[n - 1] + s[n].size]

Steps(f, s, m) == f[0] = 0 /\ \A n \in 1..m : f[n] = f[n - 1] + s[n].size

LEMMA SumsSteps ==
  ASSUME NEW f, NEW s, NEW m \in Nat, Sums(f, s, m)
  PROVE  Steps(f, s, m)
<1> DEFINE F(n) == IF n = 0 THEN 0 ELSE f[n - 1] + s[n].size
<1>1. f = [n \in 0..m |-> F(n)]
  BY Zenon DEF Sums
<1> HIDE DEF F
<1>2. \A n \in 0..m : f[n] = F(n)
  BY <1>1
<1>3. 0 \in 0..m /\ \A n \in 1..m : n \in 0..m /\ n # 0
  BY SMT
<1> QED
  BY <1>2, <1>3, Zenon DEF F, Steps

Adds(f, s, m) == m \in Nat /\ f \in [0..m -> Int] /\ Sums(f, s, m)

(* The first k chunks of t are those of s behind the first a.               *)
Part(t, k, s, m, a) ==
    /\ k \in Nat /\ a \in Nat /\ a + k <= m
    /\ \A n \in 1..k : s[a + n].size = t[n].size /\ t[n].size \in Nat

Difference(g, k, f, a) == \A n \in 0..k : g[n] = f[a + n] - f[a]

(* The sums of a part of a sequence are differences of sums of the whole.   *)
LEMMA SumsOfPart ==
  ASSUME NEW f, NEW s, NEW m, Adds(f, s, m),
         NEW g, NEW t, NEW k, Sums(g, t, k),
         NEW a, Part(t, k, s, m, a)
  PROVE  Difference(g, k, f, a)
<1> /\ m \in Nat /\ f \in [0..m -> Int] /\ k \in Nat /\ a \in Nat /\ a + k <= m
    /\ Sums(f, s, m)
  BY DEF Adds, Part
<1> Steps(f, s, m) /\ Steps(g, t, k)
  BY SumsSteps, Zenon
<1> DEFINE T == {n \in Nat : n <= k => g[n] = f[a + n] - f[a]}
<1>1. 0 \in T
  <2>1. a \in 0..m /\ a + 0 = a
    OBVIOUS
  <2>2. f[a] \in Int /\ g[0] = 0
    BY <2>1 DEF Steps
  <2> QED
    BY <2>1, <2>2
<1>2. ASSUME NEW n \in T PROVE n + 1 \in T
  <2> SUFFICES ASSUME n + 1 <= k PROVE g[n + 1] = f[a + (n + 1)] - f[a]
    OBVIOUS
  <2>1. /\ n \in Nat /\ g[n] = f[a + n] - f[a]
        /\ n + 1 \in 1..k /\ (n + 1) - 1 = n
        /\ a + (n + 1) \in 1..m /\ (a + (n + 1)) - 1 = a + n
        /\ a \in 0..m /\ a + n \in 0..m
    BY <1>2
  <2>2. g[n + 1] = g[n] + t[n + 1].size
    BY <2>1 DEF Steps
  <2>3. f[a + (n + 1)] = f[a + n] + s[a + (n + 1)].size
    BY <2>1 DEF Steps
  <2>4. s[a + (n + 1)].size = t[n + 1].size /\ t[n + 1].size \in Nat
    BY <2>1 DEF Part
  <2>5. f[a] \in Int /\ f[a + n] \in Int
    BY <2>1
  <2> DEFINE size == t[n + 1].size
  <2>6. size \in Nat /\ g[n + 1] = (f[a + n] - f[a]) + size
        /\ f[a + (n + 1)] = f[a + n] + size
    BY <2>1, <2>2, <2>3, <2>4, Zenon
  <2> HIDE DEF size
  <2> QED
    BY <2>5, <2>6
<1>3. T = Nat
  <2>1. T \in SUBSET Nat
    OBVIOUS
  <2> HIDE DEF T
  <2> QED
    BY <1>1, <1>2, <2>1, SetInduction
<1>4. \A n \in Nat : n \in T
  BY <1>3, Zenon
<1> QED
  BY <1>4 DEF Difference

LEMMA SumsExist ==
  ASSUME NEW s, NEW m \in Nat, \A n \in 1..m : s[n].size \in Nat
  PROVE  \E f \in [0..m -> Nat] : Sums(f, s, m)
<1> DEFINE T == {k \in Nat : k <= m => \E f \in [0..k -> Nat] : Sums(f, s, k)}
<1>1. 0 \in T
  <2> DEFINE f == [n \in 0..0 |-> 0]
  <2>1. f \in [0..0 -> Nat] /\ \A n \in 0..0 : n = 0
    BY SMT
  <2>2. f = [n \in 0..0 |-> IF n = 0 THEN 0 ELSE f[n - 1] + s[n].size]
    BY <2>1
  <2> QED
    BY <2>1, <2>2 DEF Sums
<1>2. ASSUME NEW k \in T PROVE k + 1 \in T
  <2> SUFFICES ASSUME k + 1 <= m
               PROVE  \E f \in [0..k + 1 -> Nat] : Sums(f, s, k + 1)
    OBVIOUS
  <2>1. PICK f \in [0..k -> Nat] : Sums(f, s, k)
    BY <1>2
  <2>2a. k \in Nat /\ k \in 0..k
    <3>1. k \in Nat
      BY <1>2, Zenon
    <3> QED
      BY <3>1
  <2>2. /\ k \in Nat /\ k \in 0..k
        /\ f[0] = 0 /\ \A n \in 1..k : f[n] = f[n - 1] + s[n].size
    BY <2>1, <2>2a, SumsSteps, Zenon DEF Steps
  <2>3. s[k + 1].size \in Nat
    BY <2>2
  <2> DEFINE g == [n \in 0..k + 1 |-> IF n = k + 1 THEN f[k] + s[k + 1].size ELSE f[n]]
             G(n) == IF n = 0 THEN 0 ELSE g[n - 1] + s[n].size
  <2>4. g \in [0..k + 1 -> Nat]
    BY <2>1, <2>2, <2>3
  <2>5. ASSUME NEW n \in 0..k + 1 PROVE g[n] = G(n)
    <3>1. CASE n = 0
      BY <2>2, <3>1
    <3>2. CASE n \in 1..k
      <4>1. n - 1 \in 0..k + 1 /\ n - 1 # k + 1 /\ n # k + 1 /\ n # 0
        BY <2>2, <3>2
      <4>2. g[n - 1] = f[n - 1] /\ g[n] = f[n]
        BY <4>1
      <4> QED
        BY <2>2, <3>2, <4>1, <4>2
    <3>3. CASE n = k + 1
      <4>1. n - 1 = k /\ k \in 0..k + 1 /\ k # k + 1 /\ n # 0
        BY <2>2, <3>3
      <4>2. g[k] = f[k] /\ g[n] = f[k] + s[k + 1].size
        BY <3>3, <4>1
      <4> QED
        BY <3>3, <4>1, <4>2
    <3> QED
      BY <2>2, <3>1, <3>2, <3>3
  <2>6. g = [n \in 0..k + 1 |-> g[n]]
    OBVIOUS
  <2> HIDE DEF g
  <2>7. g = [n \in 0..k + 1 |-> G(n)]
    BY <2>5, <2>6
  <2> QED
    BY <2>4, <2>7 DEF Sums
<1>3. T = Nat
  <2>1. T \in SUBSET Nat
    OBVIOUS
  <2> HIDE DEF T
  <2> QED
    BY <1>1, <1>2, <2>1, SetInduction
<1>4. m \in T
  BY <1>3, Zenon
<1> QED
  BY <1>4

LEMMA SizesOf ==
  ASSUME NEW s \in Chunks
  PROVE  Len(s) \in Nat /\ \A n \in 1..Len(s) : s[n] \in Chunk /\ s[n].size \in Nat
<1>1. Len(s) \in Nat /\ \A n \in 1..Len(s) : s[n] \in Chunk
  BY LenProperties, ElementOfSeq DEF Chunks
<1> QED
  BY <1>1, SizesAssumption DEF Chunk

LEMMA BytesAreSums ==
  ASSUME NEW s \in Chunks
  PROVE  \E f \in [0..Len(s) -> Nat] : Sums(f, s, Len(s)) /\ Bytes(s) = f[Len(s)]
<1>1. Len(s) \in Nat /\ \A n \in 1..Len(s) : s[n].size \in Nat
  BY SizesOf
<1>2. PICK f \in [0..Len(s) -> Nat] : Sums(f, s, Len(s))
  BY <1>1, SumsExist
<1>3. ASSUME NEW g, Sums(g, s, Len(s)) PROVE g = f
  <2>1. \A n \in 0..Len(s) : g[n] = f[0 + n] - f[0]
    <3>1. Adds(f, s, Len(s)) /\ Part(s, Len(s), s, Len(s), 0)
      BY <1>1, <1>2 DEF Adds, Part
    <3>2. Difference(g, Len(s), f, 0)
      BY <1>3, <3>1, SumsOfPart, Zenon
    <3> QED
      BY <3>2 DEF Difference
  <2>2. f[0] = 0
    BY <1>1, <1>2, SumsSteps, Zenon DEF Steps
  <2>3. \A n \in 0..Len(s) : g[n] = f[n]
    BY <1>1, <2>1, <2>2
  <2>4. g = [n \in 0..Len(s) |-> g[n]]
    <3> DEFINE G(n) == IF n = 0 THEN 0 ELSE g[n - 1] + s[n].size
    <3>1. g = [n \in 0..Len(s) |-> G(n)]
      BY <1>3, Zenon DEF Sums
    <3> HIDE DEF G
    <3> QED
      BY <3>1
  <2> QED
    BY <2>3, <2>4
<1> DEFINE first == CHOOSE g : Sums(g, s, Len(s))
<1>4. Sums(first, s, Len(s))
  BY <1>2, Zenon
<1>5. first = f
  BY <1>3, <1>4, Zenon
<1>6. Bytes(s) = first[Len(s)]
  BY Zenon DEF Bytes, Sums
<1> QED
  BY <1>2, <1>5, <1>6, Zenon

(* The bytes of a sequence made of two are those of both together; nothing  *)
(* has none, and one chunk has its size.                                    *)
LEMMA BytesConcat ==
  ASSUME NEW s \in Chunks, NEW t \in Chunks
  PROVE  Bytes(s) \in Nat /\ Bytes(t) \in Nat /\ Bytes(s \o t) = Bytes(s) + Bytes(t)
<1> DEFINE st == s \o t
           j == Len(s)
           k == Len(t)
           m == Len(st)
<1>1. /\ st \in Chunks /\ j \in Nat /\ k \in Nat /\ m = j + k
      /\ \A i \in 1..j + k : st[i] = IF i <= j THEN s[i] ELSE t[i - j]
  BY ConcatProperties, LenProperties DEF Chunks
<1>2. /\ \A n \in 1..j : s[n].size \in Nat
      /\ \A n \in 1..k : t[n].size \in Nat
  BY SizesOf
<1> PICK f \in [0..m -> Nat] : Sums(f, st, m) /\ Bytes(st) = f[m]
  BY <1>1, BytesAreSums
<1> PICK g \in [0..j -> Nat] : Sums(g, s, j) /\ Bytes(s) = g[j]
  BY BytesAreSums
<1> PICK h \in [0..k -> Nat] : Sums(h, t, k) /\ Bytes(t) = h[k]
  BY BytesAreSums
<1> HIDE DEF st, j, k, m
<1>3. Adds(f, st, m) /\ m \in Nat
  BY <1>1 DEF Adds
<1>4. g[j] = f[0 + j] - f[0]
  <2>1. Part(s, j, st, m, 0)
    BY <1>1, <1>2 DEF Part
  <2>2. Difference(g, j, f, 0)
    BY <1>3, <2>1, SumsOfPart, Zenon
  <2> QED
    BY <1>1, <2>2 DEF Difference
<1>5. h[k] = f[j + k] - f[j]
  <2>1. Part(t, k, st, m, j)
    <3> SUFFICES ASSUME NEW n \in 1..k PROVE st[j + n] = t[n]
      BY <1>1, <1>2 DEF Part
    <3>1. j + n \in 1..j + k /\ ~(j + n <= j) /\ (j + n) - j = n
      BY <1>1
    <3> QED
      BY <1>1, <3>1
  <2>2. Difference(h, k, f, j)
    BY <1>3, <2>1, SumsOfPart, Zenon
  <2> QED
    BY <1>1, <2>2 DEF Difference
<1>6. f[0] = 0
  BY <1>3, SumsSteps, Zenon DEF Steps
<1>7. j \in 0..m /\ k \in 0..k /\ j \in 0..j /\ 0 + j = j /\ j + k = m /\ m \in 0..m
  BY <1>1
<1>8. f[j] \in Nat /\ f[m] \in Nat /\ g[j] \in Nat /\ h[k] \in Nat
  BY <1>7
<1>9. g[j] = f[j] /\ h[k] = f[m] - f[j]
  BY <1>4, <1>5, <1>6, <1>7, <1>8
<1>10. Bytes(s) \in Nat /\ Bytes(t) \in Nat /\ Bytes(st) = Bytes(s) + Bytes(t)
  BY <1>8, <1>9
<1> QED
  BY <1>10 DEF st

LEMMA BytesOfOne ==
  ASSUME NEW c \in Chunk
  PROVE  <<c>> \in Chunks /\ Bytes(<<c>>) = c.size
<1>1. <<c>> \in Chunks /\ Len(<<c>>) = 1 /\ <<c>>[1] = c
  BY DEF Chunks
<1>2. PICK f \in [0..1 -> Nat] : Sums(f, <<c>>, 1) /\ Bytes(<<c>>) = f[1]
  BY <1>1, BytesAreSums
<1>3. f[0] = 0 /\ f[1] = f[1 - 1] + <<c>>[1].size
  <2>1. Steps(f, <<c>>, 1)
    BY <1>2, SumsSteps
  <2> QED
    BY <2>1 DEF Steps
<1>4. c.size \in Nat
  BY SizesAssumption DEF Chunk
<1> QED
  BY <1>1, <1>2, <1>3, <1>4

LEMMA BytesOfNone == <<>> \in Chunks /\ Bytes(<<>>) = 0
<1>1. <<>> \in Chunks /\ Len(<<>>) = 0
  BY EmptySeq DEF Chunks
<1>2. PICK f \in [0..0 -> Nat] : Sums(f, <<>>, 0) /\ Bytes(<<>>) = f[0]
  BY <1>1, BytesAreSums
<1> QED
  BY <1>1, <1>2, SumsSteps DEF Steps
-----------------------------------------------------------------------------
(* The count of bytes.  A destroyed socket keeps a count that no longer     *)
(* means anything: destroy() sets it to nothing under a write in flight     *)
(* (socket.ts:137-153), which then takes its size off it; what stays true   *)
(* is that the count and the chunk in flight keep within the maximum.       *)
ByteInv ==
    /\ queuedBytes \in Int
    /\ {pressured, owed} \subseteq BOOLEAN
    /\ Bytes(item) <= Maximum
    /\ queuedBytes <= Maximum /\ queuedBytes - Bytes(item) >= -Maximum
    /\ ~destroyed => /\ queuedBytes = Bytes(item \o queue)
                     /\ owed <=> pressured
                     /\ pressured => queuedBytes > Low

LEMMA Limits == /\ Low \in Nat /\ High \in Nat /\ Maximum \in Nat
                /\ Low < High /\ High <= Maximum
BY LimitsAssumption

LEMMA ByteInit == Init => ByteInv
<1> SUFFICES ASSUME Init PROVE ByteInv
  OBVIOUS
<1>1. Bytes(<<>>) = 0 /\ <<>> \o <<>> = <<>>
  BY BytesOfNone, ConcatEmptySeq DEF Chunks
<1>2. /\ queue = <<>> /\ item = <<>> /\ queuedBytes = 0
      /\ pressured = FALSE /\ owed = FALSE
  BY DEF Init
<1>3. Bytes(item) = 0 /\ Bytes(item \o queue) = 0
  BY <1>1, <1>2
<1>4. 0 \in Int /\ 0 <= Maximum /\ 0 - 0 >= -Maximum
  BY Limits
<1> QED
  BY <1>2, <1>3, <1>4, Zenon DEF ByteInv

(* A step that neither takes in nor writes a chunk.                         *)
LEMMA ByteFrame ==
  ASSUME QueueTypes, ByteInv, UNCHANGED <<pressured, owed>>,
         destroyed => destroyed',
         \/ UNCHANGED <<queue, queuedBytes, item>>
         \/ destroyed' /\ queuedBytes' \in {queuedBytes, 0} /\ item' \in {item, <<>>}
  PROVE  ByteInv'
<1>1. Bytes(<<>>) = 0 /\ Bytes(item) \in Nat /\ Maximum \in Nat
  BY BytesOfNone, BytesConcat, Limits DEF QueueTypes
<1>2. CASE UNCHANGED <<queue, queuedBytes, item>>
  BY <1>2 DEF ByteInv
<1>3. CASE destroyed' /\ queuedBytes' \in {queuedBytes, 0} /\ item' \in {item, <<>>}
  <2>1. Bytes(item') \in {Bytes(item), 0}
    BY <1>1, <1>3
  <2> DEFINE b == Bytes(item)
             bNext == Bytes(item')
  <2>2a. queuedBytes' \in {queuedBytes, 0}
    BY <1>3
  <2>2. /\ b \in Nat /\ bNext \in {b, 0} /\ b <= Maximum
        /\ queuedBytes <= Maximum /\ queuedBytes - b >= -Maximum /\ queuedBytes \in Int
    BY <1>1, <2>1 DEF ByteInv
  <2> HIDE DEF b, bNext
  <2>3. bNext <= Maximum /\ queuedBytes' <= Maximum /\ queuedBytes' - bNext >= -Maximum
        /\ queuedBytes' \in Int
    <3>1. CASE queuedBytes' = 0
      BY <1>1, <2>2, <3>1
    <3>2. CASE queuedBytes' = queuedBytes
      BY <1>1, <2>2, <3>2
    <3> QED
      BY <2>2a, <3>1, <3>2
  <2>4. {pressured', owed'} \subseteq BOOLEAN
    BY DEF ByteInv
  <2> QED
    BY <1>3, <2>3, <2>4 DEF ByteInv, bNext
<1> QED
  BY <1>2, <1>3

LEMMA OpenBytes ==
  ASSUME QueueTypes, ByteInv, Open
  PROVE  ByteInv'
<1>1. /\ queue \in Chunks /\ item \in Chunks /\ pump \in {"idle", "ready", "writing"}
      /\ pump = "idle" => item = <<>>
      /\ pump # "idle" => Len(item) = 1
      /\ PumpFrom(queue, TRUE, pump = "idle")
      /\ ~destroyed /\ UNCHANGED <<destroyed, queuedBytes, pressured, owed>>
  BY DEF QueueTypes, Open, past
<1>2. /\ queue' \in Chunks /\ item' \in Chunks /\ item' \o queue' = item \o queue
  BY <1>1, PumpFromKeeps
<1>3. /\ Bytes(item') \in Nat /\ Bytes(queue') \in Nat
      /\ Bytes(item' \o queue') = Bytes(item') + Bytes(queue')
  BY <1>2, BytesConcat
<1>4. queuedBytes = Bytes(item') + Bytes(queue') /\ queuedBytes <= Maximum
  BY <1>1, <1>2, <1>3 DEF ByteInv
<1>5. Bytes(item') <= Maximum /\ queuedBytes - Bytes(item') >= -Maximum
  BY <1>3, <1>4, Limits
<1> QED
  BY <1>1, <1>3, <1>4, <1>5, Zenon DEF ByteInv

LEMMA RefusedBytes ==
  ASSUME QueueTypes, ByteInv, NEW size \in Sizes, Write(size), WriteRefused(size)
  PROVE  ByteInv'
BY ByteFrame DEF WriteRefused, Destroyed

LEMMA QueuedBytes ==
  ASSUME QueueTypes, ByteInv, NEW size \in Sizes, Write(size), WriteQueued(size)
  PROVE  ByteInv'
<1> DEFINE chunk == [id |-> writes + 1, size |-> size]
           q == Append(queue, chunk)
<1>1. /\ chunk \in Chunk /\ chunk.size = size /\ size \in Nat
      /\ PumpFrom(q, writer, pump = "idle")
      /\ pump \in {"idle", "ready", "writing"}
      /\ pump = "idle" => item = <<>>
      /\ pump # "idle" => Len(item) = 1
      /\ item \in Chunks /\ queue \in Chunks
  BY SizesAssumption DEF Write, WriteQueued, Chunk, QueueTypes
<1>2. /\ ~destroyed /\ destroyed' = destroyed
      /\ ~(queuedBytes + size > Maximum) /\ queuedBytes' = queuedBytes + size
      /\ pressured' = (pressured \/ queuedBytes + size >= High)
      /\ owed' = (owed \/ pressured')
  BY DEF WriteQueued, Overflows, life
<1>3. q \in Chunks /\ q = queue \o <<chunk>> /\ <<chunk>> \in Chunks
      /\ Bytes(<<chunk>>) = size
  BY <1>1, AppendProperties, AppendIsConcat, BytesOfOne DEF Chunks
<1> HIDE DEF chunk, q
<1>4. /\ queue' \in Chunks /\ item' \in Chunks /\ item' \o queue' = item \o q
  BY <1>1, <1>3, PumpFromKeeps
<1>5. /\ Bytes(item \o queue) = Bytes(item) + Bytes(queue)
      /\ Bytes(q) = Bytes(queue) + size
      /\ Bytes(item \o q) = Bytes(item) + Bytes(q)
      /\ Bytes(item') \in Nat /\ Bytes(queue') \in Nat
      /\ Bytes(item' \o queue') = Bytes(item') + Bytes(queue')
      /\ Bytes(item) \in Nat /\ Bytes(queue) \in Nat
  <2>1. Bytes(queue \o <<chunk>>) = Bytes(queue) + Bytes(<<chunk>>)
    BY <1>1, <1>3, BytesConcat
  <2> QED
    BY <1>1, <1>3, <1>4, <2>1, BytesConcat
<1>6. queuedBytes = Bytes(item) + Bytes(queue)
  BY <1>2, <1>5 DEF ByteInv
<1>7. queuedBytes' = Bytes(item' \o queue') /\ queuedBytes' = Bytes(item') + Bytes(queue')
  BY <1>1, <1>2, <1>4, <1>5, <1>6
<1>8. queuedBytes' \in Int /\ queuedBytes' <= Maximum /\ queuedBytes' >= 0
  BY <1>1, <1>2, <1>5, <1>6, <1>7, Limits
<1>9. Bytes(item') <= Maximum /\ queuedBytes' - Bytes(item') >= -Maximum
  BY <1>5, <1>7, <1>8, Limits
<1>10. {pressured', owed'} \subseteq BOOLEAN /\ (owed' <=> pressured')
  BY <1>2, Zenon DEF ByteInv
<1>11. pressured' => queuedBytes' > Low
  <2>1. CASE pressured
    <3>1. queuedBytes > Low /\ queuedBytes \in Int
      BY <1>2, <2>1 DEF ByteInv
    <3> QED
      BY <1>1, <1>2, <3>1, Limits
  <2>2. CASE queuedBytes + size >= High
    <3>1. queuedBytes \in Int
      BY DEF ByteInv
    <3> QED
      BY <1>1, <1>2, <2>2, <3>1, Limits
  <2> QED
    BY <1>2, <2>1, <2>2, Zenon
<1> QED
  BY <1>2, <1>7, <1>8, <1>9, <1>10, <1>11, Zenon DEF ByteInv

LEMMA WrittenBytes ==
  ASSUME QueueTypes, ByteInv, PumpWritten
  PROVE  ByteInv'
<1> DEFINE bytes == queuedBytes - item[1].size
<1>1. /\ queue \in Chunks /\ item \in Chunks /\ Len(item) = 1
      /\ pump \in {"idle", "ready", "writing"} /\ PumpFrom(queue, TRUE, TRUE)
      /\ queuedBytes' = bytes /\ destroyed' = destroyed
      /\ pressured' = (pressured /\ ~(pressured /\ bytes <= Low))
      /\ owed' = (owed /\ ~(pressured /\ bytes <= Low))
  BY DEF PumpWritten, QueueTypes, Drains, life
<1>2. item = <<item[1]>> /\ item[1] \in Chunk
  <2>1. item[1] \in Chunk
    <3>1. item \in Seq(Chunk) /\ 1 \in 1..Len(item)
      BY <1>1 DEF Chunks
    <3> QED
      BY <3>1, ElementOfSeq
  <2>2. item = <<item[1]>>
    <3>1. Len(<<item[1]>>) = 1 /\ <<item[1]>> \in Chunks
      BY <2>1 DEF Chunks
    <3>2. \A i \in 1..1 : item[i] = <<item[1]>>[i]
      <4>1. \A i \in 1..1 : i = 1
        BY SMT
      <4> QED
        BY <4>1
    <3> QED
      BY <1>1, <3>1, <3>2, SeqEqual DEF Chunks
  <2> QED
    BY <2>1, <2>2
<1>3. Bytes(item) = item[1].size
  BY <1>2, BytesOfOne
<1>4. /\ queue' \in Chunks /\ item' \in Chunks
      /\ item' \o queue' = queue
  <2>1. <<>> \o queue = queue
    BY <1>1, ConcatEmptySeq DEF Chunks
  <2>2. pump = "idle" => item = <<>>
    BY DEF QueueTypes
  <2> QED
    BY <1>1, <2>1, <2>2, PumpFromKeeps
<1>5. /\ Bytes(item \o queue) = Bytes(item) + Bytes(queue)
      /\ Bytes(item' \o queue') = Bytes(item') + Bytes(queue')
      /\ Bytes(item') \in Nat /\ Bytes(queue') \in Nat
      /\ Bytes(item) \in Nat /\ Bytes(queue) \in Nat
  BY <1>1, <1>4, BytesConcat
<1>6. bytes = queuedBytes - Bytes(item) /\ Bytes(queue) = Bytes(item') + Bytes(queue')
  BY <1>3, <1>4, <1>5
<1>7. /\ queuedBytes \in Int /\ queuedBytes <= Maximum
      /\ queuedBytes - Bytes(item) >= -Maximum /\ {pressured, owed} \subseteq BOOLEAN
  BY DEF ByteInv
<1> HIDE DEF bytes
<1>8. bytes \in Int /\ bytes <= Maximum
  BY <1>5, <1>6, <1>7, Limits
<1>9. {pressured', owed'} \subseteq BOOLEAN
  BY <1>1, <1>7, Zenon
<1>10. CASE ~destroyed
  <2>1. queuedBytes = Bytes(item) + Bytes(queue) /\ (owed <=> pressured)
    BY <1>5, <1>10 DEF ByteInv
  <2>2. bytes = Bytes(item') + Bytes(queue')
    BY <1>5, <1>6, <1>7, <2>1
  <2>3. Bytes(item') <= Maximum /\ bytes - Bytes(item') >= -Maximum
    BY <1>5, <1>8, <2>2, Limits
  <2>4. bytes <= Low \/ bytes > Low
    BY <1>8, Limits
  <2>5. (owed' <=> pressured') /\ (pressured' => bytes > Low)
    BY <1>1, <1>7, <2>1, <2>4, Zenon
  <2>6. queuedBytes' = Bytes(item' \o queue')
    BY <1>1, <1>5, <2>2
  <2>7. queuedBytes' = bytes
    BY <1>1
  <2> QED
    BY <1>8, <1>9, <2>3, <2>5, <2>6, <2>7, Zenon DEF ByteInv
<1>11. CASE destroyed
  <2>1. item' = <<>> /\ Bytes(<<>>) = 0
    BY <1>1, <1>11, BytesOfNone DEF PumpFrom, MayShift
  <2>2. bytes - 0 >= -Maximum /\ 0 <= Maximum
    BY <1>5, <1>6, <1>7, Limits
  <2>3. queuedBytes' = bytes /\ destroyed'
    BY <1>1, <1>11
  <2> QED
    BY <1>8, <1>9, <2>1, <2>2, <2>3, Zenon DEF ByteInv
<1> QED
  BY <1>10, <1>11

LEMMA ByteStepInv == QueueTypes /\ ByteInv /\ [Next]_vars => ByteInv'
<1> SUFFICES ASSUME QueueTypes, ByteInv, [Next]_vars PROVE ByteInv'
  OBVIOUS
<1>1. ASSUME NEW size \in Sizes, Write(size) PROVE ByteInv'
  BY <1>1, RefusedBytes, QueuedBytes DEF Write
<1>2. CASE PumpReady
  BY <1>2, ByteFrame DEF PumpReady, life, past
<1>3. CASE PumpFails
  BY <1>3, ByteFrame DEF PumpFails
<1>4. CASE End \/ EndPoll
  BY <1>4, ByteFrame DEF End, EndPoll, CloseWriter, Destroyed, past
<1>5. CASE SinkClosed \/ SinkErrors \/ RemoteEnds
  BY <1>5, ByteFrame DEF SinkClosed, SinkErrors, RemoteEnds, past, life
<1>6. CASE CloseRejected \/ Destroy
  BY <1>6, ByteFrame DEF CloseRejected, Destroy, Destroyed, past
<1>7. CASE UNCHANGED vars
  BY <1>7, ByteFrame DEF vars
<1> QED
  BY <1>1, <1>2, <1>3, <1>4, <1>5, <1>6, <1>7, OpenBytes, WrittenBytes DEF Next

LEMMA ByteInvGives == ByteInv => NoLostDrain
BY DEF ByteInv, NoLostDrain

(* The pressure of a live socket tells its memory, for every limits and     *)
(* sizes: the count is what is queued or in flight, within the maximum, and *)
(* while a drain is owed there is more than the low watermark to write, so  *)
(* that the write which crosses it is still to come (socket.ts:72-99).      *)
THEOREM NoLostDrainTheorem == Spec => []NoLostDrain
<1>1. QueueInv => QueueTypes
  BY DEF QueueInv
<1> QED
  BY <1>1, QueueInit, QueueStepInv, ByteInit, ByteStepInv, ByteInvGives, PTL DEF Spec
-----------------------------------------------------------------------------
(* The rest of the type invariant.                                          *)
FlagTypes ==
    /\ {writer, writable, destroyed} \subseteq BOOLEAN
    /\ ending \in {"no", "polling", "closing", "done"}
    /\ sinkState \in {"open", "closing", "closed", "aborted", "errored"}
    /\ writes \in 0..MaxWrites

LEMMA FlagInit == Init => FlagTypes
<1>1. 0 \in 0..MaxWrites
  BY SizesAssumption
<1> QED
  BY <1>1 DEF Init, FlagTypes

LEMMA FlagStep == FlagTypes /\ [Next]_vars => FlagTypes'
<1> SUFFICES ASSUME FlagTypes, [Next]_vars PROVE FlagTypes'
  OBVIOUS
<1> USE DEF FlagTypes
<1>1. ASSUME NEW size \in Sizes, Write(size) PROVE FlagTypes'
  <2>1. writes' \in 0..MaxWrites
    BY <1>1, SizesAssumption DEF Write
  <2> QED
    BY <1>1, <2>1 DEF Write, WriteRefused, WriteQueued, Destroyed, life
<1>2. CASE Open \/ PumpReady \/ PumpWritten \/ PumpFails
  BY <1>2 DEF Open, PumpReady, PumpWritten, PumpFails, life, past
<1>3. CASE End \/ EndPoll
  BY <1>3 DEF End, EndPoll, CloseWriter, Destroyed, past
<1>4. CASE SinkClosed \/ CloseRejected \/ SinkErrors
  BY <1>4 DEF SinkClosed, CloseRejected, SinkErrors, Destroyed, past, life
<1>5. CASE RemoteEnds \/ Destroy
  BY <1>5 DEF RemoteEnds, Destroy, Destroyed, past
<1>6. CASE UNCHANGED vars
  BY <1>6 DEF vars
<1> QED
  BY <1>1, <1>2, <1>3, <1>4, <1>5, <1>6 DEF Next

LEMMA AnswersAreSequences == Answers \subseteq Seq({"ok", "error"})
BY DEF Answers

LEMMA TypesGive == QueueInv /\ CallInv /\ ByteInv /\ FlagTypes => TypeOK
<1> SUFFICES ASSUME QueueInv, CallInv, ByteInv, FlagTypes PROVE TypeOK
  OBVIOUS
<1>1. /\ {queue, item, sink, accepted} \subseteq Seq(Chunk)
      /\ Len(item) = (IF pump = "idle" THEN 0 ELSE 1)
      /\ pump \in {"idle", "ready", "writing"}
  BY DEF QueueInv, QueueTypes, Chunks
<1>2. callback \in [1..MaxWrites -> Seq({"ok", "error"})]
  BY AnswersAreSequences DEF CallInv
<1>3. queuedBytes \in -Maximum..Maximum
  <2>1. Bytes(item) \in Nat
    BY BytesConcat DEF QueueInv, QueueTypes
  <2> QED
    BY <2>1, Limits DEF ByteInv
<1>4. {writer, pressured, writable, destroyed, owed} \subseteq BOOLEAN
  BY DEF ByteInv, FlagTypes
<1> QED
  BY <1>1, <1>2, <1>3, <1>4 DEF FlagTypes, TypeOK

(* Every variable keeps its type in every behaviour; in particular the      *)
(* count of bytes stays between minus the maximum and the maximum even when *)
(* a write in flight is counted off after destroy() (socket.ts:95-96, 145). *)
THEOREM TypeCorrect == Spec => []TypeOK
<1>1. QueueInv => QueueTypes
  BY DEF QueueInv
<1> QED
  BY <1>1, QueueInit, QueueStepInv, CallInit, CallStepInv, ByteInit, ByteStepInv,
     FlagInit, FlagStep, TypesGive, PTL DEF Spec
-----------------------------------------------------------------------------
(* Refinement.  Once end() has closed the writer of a live socket, nothing  *)
(* is queued or in flight and nothing more will be; and the stream closes   *)
(* under no write, destroyed or not.                                        *)
CloseInv ==
    /\ ~destroyed /\ sinkState \in {"closing", "closed"}
         => ~writable /\ queue = <<>> /\ pump = "idle"
    /\ sinkState = "closed" => pump # "writing"

LEMMA CloseInit == Init => CloseInv
BY DEF Init, CloseInv

LEMMA CloseStepInv == CloseInv /\ [Next]_vars => CloseInv'
<1> SUFFICES ASSUME CloseInv, [Next]_vars PROVE CloseInv'
  OBVIOUS
<1> USE DEF CloseInv
<1>1. ASSUME NEW size \in Sizes, Write(size) PROVE CloseInv'
  <2>1. CASE WriteRefused(size)
    BY <2>1 DEF WriteRefused, Destroyed
  <2>2. CASE WriteQueued(size)
    BY <2>2 DEF WriteQueued, PumpFrom, life
  <2> QED
    BY <1>1, <2>1, <2>2 DEF Write
<1>2. CASE Open
  BY <1>2 DEF Open, PumpFrom, MayShift
<1>3. CASE PumpReady \/ PumpWritten \/ PumpFails
  BY <1>3 DEF PumpReady, PumpWritten, PumpFails, PumpFrom, life
<1>4. CASE End \/ EndPoll
  BY <1>4 DEF End, EndPoll, CloseWriter, Destroyed, Flushed
<1>5. CASE SinkClosed \/ CloseRejected \/ SinkErrors
  BY <1>5 DEF SinkClosed, CloseRejected, SinkErrors, Destroyed, life
<1>6. CASE RemoteEnds \/ Destroy
  BY <1>6 DEF RemoteEnds, Destroy, Destroyed
<1>7. CASE UNCHANGED vars
  BY <1>7 DEF vars
<1> QED
  BY <1>1, <1>2, <1>3, <1>4, <1>5, <1>6, <1>7 DEF Next

Broken == destroyed \/ sinkState \in {"aborted", "errored"}

(* A step that moves no chunk into or out of the socket, and closes no      *)
(* stream, ends the channel for the writer, breaks it, or shows nothing.    *)
LEMMA QuietStep ==
  ASSUME FlagTypes, FlagTypes', UNCHANGED <<accepted, sink>>,
         Broken => Broken', ~writable => ~writable',
         sinkState' = "closed" <=> sinkState = "closed"
  PROVE  Outgoing!Next \/ UNCHANGED Outgoing!vars
<1>0. writable \in BOOLEAN /\ writable' \in BOOLEAN /\ destroyed \in BOOLEAN /\ destroyed' \in BOOLEAN
  BY DEF FlagTypes
<1>1. CASE ~Broken /\ Broken'
  <2>1. /\ (~writable') \in {(~writable), TRUE}
        /\ (sinkState' = "closed") \in {(sinkState = "closed"), TRUE}
    BY <1>0
  <2>2. Outgoing!Break
    BY <1>0, <1>1, <2>1 DEF Outgoing!Break, Broken
  <2> QED
    BY <2>2 DEF Outgoing!Next
<1>2. CASE (Broken' <=> Broken) /\ writable /\ ~writable'
  <2>1. Outgoing!End
    BY <1>0, <1>2 DEF Outgoing!End, Broken
  <2> QED
    BY <2>1 DEF Outgoing!Next
<1>3. CASE (Broken' <=> Broken) /\ (writable' <=> writable)
  BY <1>0, <1>3 DEF Outgoing!vars, Broken
<1> QED
  BY <1>0, <1>1, <1>2, <1>3

LEMMA DestroyedIsQuiet ==
  ASSUME FlagTypes, FlagTypes', UNCHANGED <<accepted, sink>>, Destroyed
  PROVE  Outgoing!Next \/ UNCHANGED Outgoing!vars
<1>1. /\ Broken' /\ ~writable'
      /\ sinkState' = "closed" <=> sinkState = "closed"
  BY DEF Destroyed, Broken
<1> QED
  BY <1>1, QuietStep

LEMMA CloseWriterIsQuiet ==
  ASSUME FlagTypes, FlagTypes', UNCHANGED <<accepted, sink>>, CloseWriter, writable' = FALSE
  PROVE  Outgoing!Next \/ UNCHANGED Outgoing!vars
<1>1. CASE Destroyed
  BY <1>1, DestroyedIsQuiet
<1>2. CASE /\ UNCHANGED destroyed
           /\ sinkState' = sinkState \/ (sinkState = "open" /\ sinkState' = "closing")
  <2>1. /\ Broken => Broken'
        /\ sinkState' = "closed" <=> sinkState = "closed"
    BY <1>2 DEF Broken
  <2> QED
    BY <2>1, QuietStep
<1> QED
  BY <1>1, <1>2 DEF CloseWriter

NextOf(taken, one, all) ==
    /\ Len(taken) < Len(all)
    /\ taken \o one = Append(taken, all[Len(taken) + 1])

LEMMA NextChunk ==
  ASSUME NEW taken \in Chunks, NEW one \in Chunks, Len(one) = 1, NEW rest \in Chunks,
         NEW all \in Chunks, all = taken \o (one \o rest)
  PROVE  NextOf(taken, one, all)
<1> DEFINE more == one \o rest
<1>1. /\ more \in Chunks /\ Len(more) = 1 + Len(rest) /\ more[1] = one[1]
      /\ Len(rest) \in Nat /\ Len(taken) \in Nat
  <2>1. Len(rest) \in Nat /\ Len(taken) \in Nat
    BY LenProperties DEF Chunks
  <2>2. /\ one \o rest \in Seq(Chunk) /\ Len(one \o rest) = Len(one) + Len(rest)
        /\ \A i \in 1..(Len(one) + Len(rest)) :
              (one \o rest)[i] = IF i <= Len(one) THEN one[i] ELSE rest[i - Len(one)]
    BY ConcatProperties DEF Chunks
  <2>3. 1 \in 1..(Len(one) + Len(rest)) /\ 1 <= Len(one)
    BY <2>1
  <2> QED
    BY <2>1, <2>2, <2>3 DEF Chunks
<1> HIDE DEF more
<1>2. /\ Len(all) = Len(taken) + Len(more)
      /\ all[Len(taken) + 1] = more[(Len(taken) + 1) - Len(taken)]
  <2>1. all = taken \o more
    BY DEF more
  <2>2. Len(taken) + 1 \in 1..(Len(taken) + Len(more)) /\ ~(Len(taken) + 1 <= Len(taken))
    BY <1>1
  <2>3. /\ Len(taken \o more) = Len(taken) + Len(more)
        /\ \A i \in 1..(Len(taken) + Len(more)) :
              (taken \o more)[i] = IF i <= Len(taken) THEN taken[i] ELSE more[i - Len(taken)]
    BY <1>1, ConcatProperties DEF Chunks
  <2> QED
    BY <2>1, <2>2, <2>3
<1>3. all[Len(taken) + 1] = one[1]
  BY <1>1, <1>2
<1>4. one = <<one[1]>> /\ one[1] \in Chunk
  <2>1. one[1] \in Chunk
    <3>1. 1 \in 1..Len(one)
      OBVIOUS
    <3> QED
      BY <3>1, ElementOfSeq DEF Chunks
  <2>2. Len(<<one[1]>>) = 1 /\ <<one[1]>>[1] = one[1] /\ <<one[1]>> \in Seq(Chunk)
    BY <2>1
  <2>3. \A i \in 1..Len(one) : one[i] = <<one[1]>>[i]
    <3>1. \A i \in 1..Len(one) : i = 1
      BY SMT
    <3> QED
      BY <2>2, <3>1
  <2> QED
    BY <2>1, <2>2, <2>3, SeqEqual DEF Chunks
<1>5. Append(taken, one[1]) = taken \o <<one[1]>>
  BY <1>4, AppendIsConcat DEF Chunks
<1>6. Len(taken) < Len(all)
  BY <1>1, <1>2
<1> QED
  BY <1>3, <1>4, <1>5, <1>6 DEF NextOf

LEMMA WrittenDelivers ==
  ASSUME QueueInv, CloseInv, PumpWritten
  PROVE  Outgoing!Next
<1>1. /\ sink \in Chunks /\ item \in Chunks /\ queue \in Chunks /\ accepted \in Chunks
      /\ Len(item) = 1 /\ sink' = sink \o item /\ sinkState # "closed"
      /\ UNCHANGED <<accepted, writable, destroyed, sinkState>>
  BY DEF QueueInv, QueueTypes, CloseInv, PumpWritten, life
<1> PICK rest \in Chunks : accepted = sink \o (item \o (queue \o rest))
  BY DEF QueueInv, Path
<1> DEFINE more == queue \o rest
<1>2. more \in Chunks /\ accepted = sink \o (item \o more)
  BY <1>1, ConcatProperties DEF Chunks
<1> HIDE DEF more
<1>3. NextOf(sink, item, accepted)
  BY <1>1, <1>2, NextChunk
<1>4. Len(sink) < Len(accepted) /\ sink' = Append(sink, accepted[Len(sink) + 1])
  BY <1>1, <1>3 DEF NextOf
<1>5. Outgoing!Deliver
  BY <1>1, <1>4 DEF Outgoing!Deliver
<1> QED
  BY <1>5 DEF Outgoing!Next

LEMMA ClosedIsSeen ==
  ASSUME QueueInv, CloseInv, FlagTypes, SinkClosed
  PROVE  Outgoing!Next
<1>1. /\ sinkState = "closing" /\ sinkState' = "closed"
      /\ UNCHANGED <<accepted, sink, writable, destroyed>>
      /\ destroyed \in BOOLEAN /\ writable \in BOOLEAN
  BY DEF SinkClosed, past, FlagTypes
<1>2. ASSUME ~destroyed PROVE ~writable /\ sink = accepted
  <2>1. ~writable /\ queue = <<>> /\ item = <<>> /\ sink \in Chunks
    BY <1>1, <1>2 DEF CloseInv, QueueInv, QueueTypes
  <2>2. accepted = sink \o (<<>> \o <<>>) /\ <<>> \o <<>> = <<>> /\ sink \o <<>> = sink
    BY <1>2, <2>1, ConcatEmptySeq, EmptySeq DEF QueueInv, Path, Chunks
  <2> QED
    BY <2>1, <2>2
<1>3. Outgoing!SeeEnd
  BY <1>1, <1>2 DEF Outgoing!SeeEnd
<1> QED
  BY <1>3 DEF Outgoing!Next

LEMMA QueuedSends ==
  ASSUME QueueInv, NEW size \in Sizes, Write(size), WriteQueued(size)
  PROVE  Outgoing!Next
<1> DEFINE chunk == [id |-> writes + 1, size |-> size]
<1>1. chunk \in Chunk
  BY SizesAssumption DEF Write, Chunk, QueueInv, QueueTypes
<1>2. Outgoing!Send(chunk)
  BY DEF WriteQueued, Outgoing!Send, life
<1> QED
  BY <1>1, <1>2 DEF Outgoing!Next

LEMMA OutgoingStep ==
  ASSUME QueueInv, CloseInv, FlagTypes, [Next]_vars
  PROVE  Outgoing!Next \/ UNCHANGED Outgoing!vars
<1>0. FlagTypes'
  BY FlagStep
<1>1. ASSUME NEW size \in Sizes, Write(size)
      PROVE  Outgoing!Next \/ UNCHANGED Outgoing!vars
  <2>1. CASE WriteRefused(size)
    BY <1>0, <2>1, DestroyedIsQuiet DEF WriteRefused
  <2> QED
    BY <1>1, <2>1, QueuedSends DEF Write
<1>2. CASE Open \/ PumpReady \/ UNCHANGED vars
  <2>1. UNCHANGED <<accepted, sink, writable, destroyed, sinkState>>
    BY <1>2 DEF Open, PumpReady, past, life, vars
  <2> QED
    BY <2>1 DEF Outgoing!vars
<1>3. CASE PumpFails
  <2>1. /\ UNCHANGED <<accepted, sink, sinkState>> /\ Broken' /\ ~writable'
    BY <1>3 DEF PumpFails, Broken
  <2> QED
    BY <1>0, <2>1, QuietStep
<1>4. CASE End
  <2>1. UNCHANGED <<accepted, sink>> /\ writable' = FALSE
    BY <1>4 DEF End, past
  <2>2. CASE CloseWriter
    BY <1>0, <2>1, <2>2, CloseWriterIsQuiet
  <2>3. CASE UNCHANGED <<sinkState, destroyed>>
    <3>1. Broken => Broken'
      BY <2>3 DEF Broken
    <3> QED
      BY <1>0, <2>1, <2>3, <3>1, QuietStep
  <2> QED
    BY <1>4, <2>2, <2>3 DEF End
<1>5. CASE EndPoll
  BY <1>0, <1>5, CloseWriterIsQuiet DEF EndPoll, past
<1>6. CASE CloseRejected \/ Destroy
  BY <1>0, <1>6, DestroyedIsQuiet DEF CloseRejected, Destroy, past
<1>7. CASE SinkErrors \/ RemoteEnds
  <2>1. /\ UNCHANGED <<accepted, sink>> /\ Broken' /\ (~writable => ~writable')
        /\ sinkState' = "closed" <=> sinkState = "closed"
    BY <1>7 DEF SinkErrors, RemoteEnds, Broken, past, life
  <2> QED
    BY <1>0, <2>1, QuietStep
<1> QED
  BY <1>1, <1>2, <1>3, <1>4, <1>5, <1>6, <1>7, WrittenDelivers, ClosedIsSeen DEF Next

(* From write() to the WebTransport stream the socket is a channel, for     *)
(* every limits and sizes of chunks, however write(), end(), destroy() and  *)
(* the pump interleave (socket.ts:57-153).                                  *)
THEOREM Refinement == Spec => ImplementsChannel
<1>1. Init => Outgoing!Init
  BY DEF Init, Outgoing!Init
<1>2. QueueInv /\ CloseInv /\ FlagTypes /\ [Next]_vars => [Outgoing!Next]_(Outgoing!vars)
  BY OutgoingStep
<1> QED
  BY <1>1, <1>2, QueueInit, QueueStepInv, CloseInit, CloseStepInv, FlagInit, FlagStep, PTL
     DEF Spec, ImplementsChannel, Outgoing!Spec
=============================================================================
