--------------------------- MODULE ChannelProofs ---------------------------
(***************************************************************************)
(* What a Channel comes to, for every set of chunks.  SocketQueueProofs    *)
(* shows that the way from write() to the stream is one, TunnelProofs that *)
(* either way between the stream and PostgreSQL is.                        *)
(***************************************************************************)
EXTENDS Channel, SequenceTheorems, TLAPS

Types ==
    /\ sent \in Seq(Chunk) /\ got \in Seq(Chunk)
    /\ ended \in BOOLEAN /\ seen \in BOOLEAN /\ broken \in BOOLEAN

ChannelInv == Types /\ InOrder /\ EndBehindAll

LEMMA ChannelInit == Init => ChannelInv
<1> SUFFICES ASSUME Init PROVE ChannelInv
  OBVIOUS
<1>1. <<>> \in Seq(Chunk) /\ Len(<<>>) = 0
  BY EmptySeq
<1>2. sent = <<>> /\ got = <<>> /\ ended = FALSE /\ seen = FALSE /\ broken = FALSE
  BY DEF Init
<1>3. InOrder
  BY <1>1, <1>2 DEF InOrder
<1>4. Types /\ EndBehindAll
  BY <1>1, <1>2 DEF Types, EndBehindAll
<1> QED
  BY <1>3, <1>4 DEF ChannelInv

LEMMA SendKeeps ==
  ASSUME ChannelInv, NEW chunk \in Chunk, Send(chunk)
  PROVE  ChannelInv'
<1>1. /\ sent \in Seq(Chunk) /\ got \in Seq(Chunk) /\ ~ended
      /\ sent' = Append(sent, chunk) /\ UNCHANGED <<got, ended, seen, broken>>
  BY DEF ChannelInv, Types, Send
<1>2. /\ sent' \in Seq(Chunk) /\ Len(sent') = Len(sent) + 1
      /\ Len(sent) \in Nat /\ Len(got) \in Nat
      /\ \A i \in 1..Len(sent) : sent'[i] = sent[i]
  BY <1>1, AppendProperties, LenProperties
<1>3. InOrder'
  <2>1. Len(got) <= Len(sent) /\ \A i \in 1..Len(got) : got[i] = sent[i]
    BY DEF ChannelInv, InOrder
  <2>2. \A i \in 1..Len(got) : i \in 1..Len(sent)
    BY <1>2, <2>1
  <2>3. Len(got) <= Len(sent')
    BY <1>2, <2>1
  <2>4. \A i \in 1..Len(got) : got[i] = sent'[i]
    BY <1>2, <2>1, <2>2
  <2> QED
    BY <1>1, <2>3, <2>4 DEF InOrder
<1>4. EndBehindAll'
  BY <1>1 DEF ChannelInv, EndBehindAll
<1>5. Types'
  BY <1>1, <1>2 DEF ChannelInv, Types
<1> QED
  BY <1>3, <1>4, <1>5 DEF ChannelInv

LEMMA DeliverKeeps ==
  ASSUME ChannelInv, Deliver
  PROVE  ChannelInv'
<1> DEFINE next == sent[Len(got) + 1]
<1>1. /\ sent \in Seq(Chunk) /\ got \in Seq(Chunk) /\ ~seen
      /\ Len(got) < Len(sent) /\ Len(sent) \in Nat /\ Len(got) \in Nat
      /\ got' = Append(got, next) /\ UNCHANGED <<sent, ended, seen, broken>>
  BY LenProperties DEF ChannelInv, Types, Deliver
<1>2. next \in Chunk
  <2>1. Len(got) + 1 \in 1..Len(sent)
    BY <1>1
  <2> QED
    BY <1>1, <2>1, ElementOfSeq
<1>3. /\ got' \in Seq(Chunk) /\ Len(got') = Len(got) + 1
      /\ \A i \in 1..Len(got) : got'[i] = got[i]
      /\ got'[Len(got) + 1] = next
  <2> HIDE DEF next
  <2> QED
    BY <1>1, <1>2, AppendProperties
<1>4. InOrder'
  <2>1. \A i \in 1..Len(got) : got[i] = sent[i]
    BY DEF ChannelInv, InOrder
  <2>2. \A i \in 1..Len(got') : i \in 1..Len(got) \/ i = Len(got) + 1
    BY <1>1, <1>3
  <2>3. \A i \in 1..Len(got') : got'[i] = sent[i]
    BY <1>3, <2>1, <2>2
  <2>4. Len(got') <= Len(sent)
    BY <1>1, <1>3
  <2> QED
    BY <1>1, <2>3, <2>4 DEF InOrder
<1>5. Types'
  BY <1>1, <1>3 DEF ChannelInv, Types
<1>6. EndBehindAll'
  BY <1>1 DEF ChannelInv, EndBehindAll
<1> QED
  BY <1>4, <1>5, <1>6 DEF ChannelInv

LEMMA StepKeeps ==
  ASSUME ChannelInv, Next \/ UNCHANGED vars
  PROVE  ChannelInv'
<1>1. CASE End \/ SeeEnd \/ Break \/ UNCHANGED vars
  <2>1. UNCHANGED <<sent, got>>
    BY <1>1 DEF End, SeeEnd, Break, vars
  <2>2. InOrder'
    BY <2>1 DEF ChannelInv, InOrder
  <2>3. Types'
    BY <1>1, <2>1 DEF End, SeeEnd, Break, vars, ChannelInv, Types
  <2>4. EndBehindAll'
    <3>1. CASE End \/ SeeEnd
      BY <2>1, <3>1 DEF End, SeeEnd, ChannelInv, Types, EndBehindAll
    <3>2. CASE Break
      BY <3>2 DEF Break, EndBehindAll
    <3>3. CASE UNCHANGED vars
      BY <3>3 DEF vars, ChannelInv, EndBehindAll
    <3> QED
      BY <1>1, <3>1, <3>2, <3>3
  <2> QED
    BY <2>2, <2>3, <2>4 DEF ChannelInv
<1> QED
  BY <1>1, SendKeeps, DeliverKeeps DEF Next

(* A channel delivers a beginning of what was sent, and its end, unless it  *)
(* broke, only behind all of it.                                            *)
THEOREM ChannelKeeps == Spec => [](InOrder /\ EndBehindAll)
<1>1. ChannelInv /\ [Next]_vars => ChannelInv'
  BY StepKeeps
<1>2. ChannelInv => InOrder /\ EndBehindAll
  BY DEF ChannelInv
<1> QED
  BY <1>1, <1>2, ChannelInit, PTL DEF Spec
=============================================================================
