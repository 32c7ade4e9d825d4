--------------------------- MODULE GatewayProofs ---------------------------
(***************************************************************************)
(* Theorems about Gateway, for every number of requests, of streams and    *)
(* every limit: the accounting of slots, what Shutdown waits for, and that *)
(* every step is one of Admission.                                         *)
(***************************************************************************)
EXTENDS Gateway, FiniteSetTheorems, TLAPS

Holders(places) == {r \in Requests : at[r] \in places}

(* Counting requests: what one of them does to the count when it moves.     *)
LEMMA CountMoves ==
  ASSUME NEW places, NEW r \in Requests, NEW place,
         at \in [Requests -> At], Move(r, place)
  PROVE  /\ Count(places) \in Nat
         /\ Count(places)' \in Nat
         /\ (at[r] \in places <=> place \in places) => Count(places)' = Count(places)
         /\ at[r] \notin places /\ place \in places => Count(places)' = Count(places) + 1
         /\ at[r] \in places /\ place \notin places => Count(places)' = Count(places) - 1
<1>1. IsFiniteSet(Holders(places)) /\ IsFiniteSet(Holders(places)')
  BY RequestsAssumption, FS_Subset DEF Holders
<1>2. Cardinality(Holders(places)) \in Nat /\ Cardinality(Holders(places)') \in Nat
  BY <1>1, FS_CardinalityType
<1>3. CASE at[r] \in places <=> place \in places
  <2>1. Holders(places)' = Holders(places)
    BY <1>3 DEF Holders, Move
  <2> QED
    BY <1>2, <1>3, <2>1 DEF Count, Holders
<1>4. CASE at[r] \notin places /\ place \in places
  <2>1. Holders(places)' = Holders(places) \cup {r} /\ r \notin Holders(places)
    BY <1>4 DEF Holders, Move
  <2>2. Cardinality(Holders(places)') = Cardinality(Holders(places)) + 1
    BY <1>1, <2>1, FS_AddElement
  <2> QED
    BY <1>2, <1>4, <2>2 DEF Count, Holders
<1>5. CASE at[r] \in places /\ place \notin places
  <2>1. Holders(places)' = Holders(places) \ {r} /\ r \in Holders(places)
    BY <1>5 DEF Holders, Move
  <2>2. Cardinality(Holders(places)') = Cardinality(Holders(places)) - 1
    BY <1>1, <2>1, FS_RemoveElement
  <2> QED
    BY <1>2, <1>5, <2>2 DEF Count, Holders
<1> QED
  BY <1>3, <1>4, <1>5

LEMMA CountStays ==
  ASSUME NEW places, UNCHANGED at
  PROVE  Count(places)' = Count(places)
BY DEF Count

LEMMA NoneCounted ==
  ASSUME NEW places, Count(places) = 0
  PROVE  \A r \in Requests : at[r] \notin places
<1>1. IsFiniteSet(Holders(places))
  BY RequestsAssumption, FS_Subset DEF Holders
<1>2. Holders(places) = {}
  BY <1>1, FS_EmptySet DEF Count, Holders
<1> QED
  BY <1>2 DEF Holders
-----------------------------------------------------------------------------
(* The same for the streams being proxied, of one session and of all.       *)
Proxied == {p \in Requests \X Streams : stream[p[1]][p[2]] = "running"}

StreamsType == stream \in [Requests -> [Streams -> StreamAt]]

LEMMA FiniteStreams ==
  /\ IsFiniteSet(Proxied) /\ Cardinality(Proxied) \in Nat
  /\ \A r \in Requests :
        IsFiniteSet(Running(r)) /\ Cardinality(Running(r)) \in Nat
<1>1. IsFiniteSet(Requests \X Streams)
  BY RequestsAssumption, FS_Product
<1>2. IsFiniteSet(Proxied)
  BY <1>1, FS_Subset DEF Proxied
<1>3. \A r \in Requests : IsFiniteSet(Running(r))
  BY RequestsAssumption, FS_Subset DEF Running
<1> QED
  BY <1>2, <1>3, FS_CardinalityType

(* A stream that starts adds one to both counts, one that returns takes one *)
(* from both, and any other change leaves them.                             *)
LEMMA StreamMoves ==
  ASSUME StreamsType, NEW r \in Requests, NEW s \in Streams, NEW x,
         stream' = [stream EXCEPT ![r][s] = x]
  PROVE  /\ \A q \in Requests \ {r} : Running(q)' = Running(q)
         /\ stream[r][s] # "running" /\ x = "running" =>
               /\ Cardinality(Running(r)') = Cardinality(Running(r)) + 1
               /\ Cardinality(Proxied') = Cardinality(Proxied) + 1
         /\ stream[r][s] = "running" /\ x # "running" =>
               /\ Cardinality(Running(r)') = Cardinality(Running(r)) - 1
               /\ Cardinality(Proxied') = Cardinality(Proxied) - 1
         /\ stream[r][s] # "running" /\ x # "running" =>
               Running(r)' = Running(r) /\ Proxied' = Proxied
<1>1. /\ \A q \in Requests \ {r} : stream'[q] = stream[q]
      /\ \A d \in Streams : stream'[r][d] = IF d = s THEN x ELSE stream[r][d]
  BY DEF StreamsType
<1>2. \A q \in Requests \ {r} : Running(q)' = Running(q)
  BY <1>1 DEF Running
<1>3. \A p \in Requests \X Streams :
        stream'[p[1]][p[2]] = IF p = <<r, s>> THEN x ELSE stream[p[1]][p[2]]
  BY <1>1
<1>4. CASE stream[r][s] # "running" /\ x = "running"
  <2>1. Running(r)' = Running(r) \cup {s} /\ s \notin Running(r)
    BY <1>1, <1>4 DEF Running
  <2>2. Proxied' = Proxied \cup {<<r, s>>} /\ <<r, s>> \notin Proxied
    BY <1>3, <1>4 DEF Proxied
  <2> QED
    BY <1>2, <1>4, <2>1, <2>2, FiniteStreams, FS_AddElement
<1>5. CASE stream[r][s] = "running" /\ x # "running"
  <2>1. Running(r)' = Running(r) \ {s} /\ s \in Running(r)
    BY <1>1, <1>5 DEF Running
  <2>2. Proxied' = Proxied \ {<<r, s>>} /\ <<r, s>> \in Proxied
    BY <1>3, <1>5 DEF Proxied
  <2> QED
    BY <1>2, <1>5, <2>1, <2>2, FiniteStreams, FS_RemoveElement
<1>6. CASE stream[r][s] # "running" /\ x # "running"
  <2>1. Running(r)' = Running(r)
    BY <1>1, <1>6 DEF Running
  <2>2. Proxied' = Proxied
    BY <1>3, <1>6 DEF Proxied
  <2> QED
    BY <1>2, <1>6, <2>1, <2>2
<1>7. CASE stream[r][s] = "running" /\ x = "running"
  BY <1>2, <1>7
<1> QED
  BY <1>4, <1>5, <1>6, <1>7
-----------------------------------------------------------------------------
(* Streams exist only from the welcome on, and a request that Shutdown      *)
(* found in service stays in service until its last deferred call.          *)
EarlyInv ==
    \A r \in Requests :
        at[r] \in {"new", "rejected", "admitting", "upgrading", "control"} =>
            \A s \in Streams : stream[r][s] = "none"

ServedInv == \A r \in served : at[r] \in InWait \cup {"done"}

PlacesInv == EarlyInv /\ DrainedBeforeEnd /\ ServedInv /\ ShutdownDrains

IInv == TypeOK /\ SlotsExact /\ StreamsExact /\ PlacesInv

LEMMA InitIInv == Init => IInv
<1> SUFFICES ASSUME Init PROVE IInv
  OBVIOUS
<1>1. TypeOK
  <2>1. {slots, wg, sessionsGauge, streamsGauge} \subseteq Nat
    BY DEF Init
  <2>2. alive \in [Requests -> BOOLEAN] /\ ctxDone \in [Requests -> BOOLEAN]
    BY DEF Init
  <2>3. closing \in BOOLEAN /\ served \in SUBSET Requests
    BY DEF Init
  <2> QED
    BY <2>1, <2>2, <2>3 DEF Init, TypeOK, At, StreamAt
<1>2. SlotsExact
  <2>1. Holders(HasSlot) = {} /\ Holders(InSession) = {} /\ Holders(InWait) = {}
    BY DEF Init, Holders, HasSlot, InSession, InWait
  <2> QED
    BY <2>1, FS_EmptySet, MaximaAssumption DEF Init, SlotsExact, Count, Holders
<1>3. StreamsExact
  <2>1. Proxied = {} /\ \A r \in Requests : Running(r) = {}
    BY DEF Init, Proxied, Running
  <2>2. streamsGauge = Cardinality(Proxied)
    BY <2>1, FS_EmptySet DEF Init
  <2>3. \A r \in Requests : sem[r] = Cardinality(Running(r)) /\ sem[r] <= MaxStreams
    BY <2>1, FS_EmptySet, MaximaAssumption DEF Init
  <2> QED
    BY <2>2, <2>3 DEF StreamsExact, Proxied
<1>4. PlacesInv
  BY DEF Init, PlacesInv, EarlyInv, DrainedBeforeEnd, ServedInv, ShutdownDrains
<1> QED
  BY <1>1, <1>2, <1>3, <1>4 DEF IInv

(* A step that leaves the streams alone leaves their accounting alone.      *)
LEMMA StreamsStay ==
  ASSUME StreamsExact, UNCHANGED streams
  PROVE  StreamsExact'
BY DEF StreamsExact, streams, Running

LEMMA SlotsStay ==
  ASSUME SlotsExact, UNCHANGED <<at, counters>>
  PROVE  SlotsExact'
BY CountStays DEF SlotsExact, counters

(* What each step of Handler and of serveSession does to the counters.      *)
Gain(places, place) == IF place \in places THEN 1 ELSE 0

LEMMA CounterMoves ==
  ASSUME TypeOK, NEW r \in Requests, Handler(r) \/ ServeSession(r),
         NEW place \in At, Move(r, place)
  PROVE  /\ slots' = slots + Gain(HasSlot, place) - Gain(HasSlot, at[r])
         /\ sessionsGauge' = sessionsGauge + Gain(InSession, place) - Gain(InSession, at[r])
         /\ wg' = wg + Gain(InWait, place) - Gain(InWait, at[r])
         /\ place \in HasSlot /\ at[r] \notin HasSlot => slots < MaxSessions
         /\ alive' \in [Requests -> BOOLEAN] /\ ctxDone' \in [Requests -> BOOLEAN]
<1>0. /\ slots \in Nat /\ wg \in Nat /\ sessionsGauge \in Nat
      /\ at'[r] = place
      /\ alive \in [Requests -> BOOLEAN] /\ ctxDone \in [Requests -> BOOLEAN]
  BY DEF TypeOK, Move
<1> USE DEF Gain, HasSlot, InSession, InWait, Move, counters
<1>1. CASE Enter(r)
  BY <1>0, <1>1 DEF Enter, TypeOK
<1>2. CASE TakeSlot(r)
  BY <1>0, <1>2 DEF TakeSlot, SlotFree, TypeOK
<1>3. CASE UpgradeFails(r)
  BY <1>0, <1>3 DEF UpgradeFails, SlotsAfterFailure, TypeOK
<1>4. CASE Upgrade(r)
  <2>1. alive' \in [Requests -> BOOLEAN]
    BY <1>0, <1>4 DEF Upgrade
  <2>2. ctxDone' \in [Requests -> BOOLEAN]
    BY <1>0, <1>4 DEF Upgrade
  <2>3. place = "control" /\ at[r] = "upgrading"
    BY <1>0, <1>4 DEF Upgrade, TypeOK
  <2>4. slots' = slots /\ wg' = wg + 1 /\ sessionsGauge' = sessionsGauge + 1
    BY <1>4 DEF Upgrade
  <2> QED
    BY <1>0, <2>1, <2>2, <2>3, <2>4
<1>5. CASE Welcome(r)
  BY <1>0, <1>5 DEF Welcome, TypeOK
<1>6. CASE ControlFails(r)
  BY <1>0, <1>6 DEF ControlFails, TypeOK
<1>7. CASE AcceptFails(r)
  BY <1>0, <1>7 DEF AcceptFails, TypeOK
<1>8. CASE Drain(r)
  BY <1>0, <1>8 DEF Drain, TypeOK
<1>9. CASE Free(r)
  BY <1>0, <1>9 DEF Free, TypeOK
<1>10. CASE Leave(r)
  BY <1>0, <1>10 DEF Leave, TypeOK
<1> QED
  BY <1>1, <1>2, <1>3, <1>4, <1>5, <1>6, <1>7, <1>8, <1>9, <1>10
     DEF Handler, ServeSession

(* The steps of Handler and of serveSession.                                *)
LEMMA MovesIInv ==
  ASSUME IInv, NEW r \in Requests, Handler(r) \/ ServeSession(r)
  PROVE  IInv'
<1>0. TypeOK /\ SlotsExact /\ StreamsExact /\ PlacesInv
  BY DEF IInv
<1>1. UNCHANGED streams
  BY DEF Handler, ServeSession, Enter, TakeSlot, UpgradeFails, Upgrade, Welcome,
     ControlFails, AcceptFails, Drain, Free, Leave
<1>2. StreamsExact'
  BY <1>0, <1>1, StreamsStay
<1>3. \E place \in At : Move(r, place)
  BY DEF Handler, ServeSession, Enter, TakeSlot, UpgradeFails, Upgrade, Welcome,
     ControlFails, AcceptFails, Drain, Free, Leave, At
<1>4. PICK place \in At : Move(r, place)
  BY <1>3
<1>5. at \in [Requests -> At] /\ at' \in [Requests -> At] /\ at'[r] = place
  BY <1>0, <1>4 DEF TypeOK, Move
<1>6. SlotsExact'
  <2>1. /\ Count(HasSlot) \in Nat /\ Count(HasSlot)' \in Nat
        /\ (at[r] \in HasSlot <=> place \in HasSlot) => Count(HasSlot)' = Count(HasSlot)
        /\ at[r] \notin HasSlot /\ place \in HasSlot => Count(HasSlot)' = Count(HasSlot) + 1
        /\ at[r] \in HasSlot /\ place \notin HasSlot => Count(HasSlot)' = Count(HasSlot) - 1
    BY <1>4, <1>5, CountMoves
  <2>2. /\ Count(InSession) \in Nat /\ Count(InSession)' \in Nat
        /\ (at[r] \in InSession <=> place \in InSession) => Count(InSession)' = Count(InSession)
        /\ at[r] \notin InSession /\ place \in InSession => Count(InSession)' = Count(InSession) + 1
        /\ at[r] \in InSession /\ place \notin InSession => Count(InSession)' = Count(InSession) - 1
    BY <1>4, <1>5, CountMoves
  <2>3. /\ Count(InWait) \in Nat /\ Count(InWait)' \in Nat
        /\ (at[r] \in InWait <=> place \in InWait) => Count(InWait)' = Count(InWait)
        /\ at[r] \notin InWait /\ place \in InWait => Count(InWait)' = Count(InWait) + 1
        /\ at[r] \in InWait /\ place \notin InWait => Count(InWait)' = Count(InWait) - 1
    BY <1>4, <1>5, CountMoves
  <2>4. /\ slots' = slots + Gain(HasSlot, place) - Gain(HasSlot, at[r])
        /\ sessionsGauge' = sessionsGauge + Gain(InSession, place) - Gain(InSession, at[r])
        /\ wg' = wg + Gain(InWait, place) - Gain(InWait, at[r])
        /\ place \in HasSlot /\ at[r] \notin HasSlot => slots < MaxSessions
    BY <1>0, <1>4, CounterMoves
  <2>7. slots' = Count(HasSlot)' /\ slots' <= MaxSessions
    BY <1>0, <2>1, <2>4, MaximaAssumption DEF SlotsExact, Gain
  <2>8. sessionsGauge' = Count(InSession)'
    BY <1>0, <2>2, <2>4 DEF SlotsExact, Gain
  <2>9. wg' = Count(InWait)'
    BY <1>0, <2>3, <2>4 DEF SlotsExact, Gain
  <2> QED
    BY <2>7, <2>8, <2>9 DEF SlotsExact
<1>7. TypeOK'
  <2>1. {slots, wg, sessionsGauge}' \subseteq Nat
    <3>1. /\ Count(HasSlot)' \in Nat /\ Count(InSession)' \in Nat
          /\ Count(InWait)' \in Nat
      BY <1>4, <1>5, CountMoves
    <3> QED
      BY <1>6, <3>1 DEF SlotsExact
  <2>2. alive' \in [Requests -> BOOLEAN] /\ ctxDone' \in [Requests -> BOOLEAN]
    BY <1>0, <1>4, CounterMoves
  <2>3. UNCHANGED stopping
    BY DEF Handler, ServeSession, Enter, TakeSlot, UpgradeFails, Upgrade, Welcome,
       ControlFails, AcceptFails, Drain, Free, Leave
  <2> QED
    BY <1>0, <1>1, <1>5, <2>1, <2>2, <2>3 DEF TypeOK, streams, stopping
<1>8. PlacesInv'
  BY <1>0, <1>1, <1>4, <1>5, SMT DEF Handler, ServeSession, Enter, TakeSlot,
     UpgradeFails, Upgrade, Welcome, ControlFails, AcceptFails, Drain, Free, Leave,
     Move, Drained, PlacesInv, EarlyInv, DrainedBeforeEnd, ServedInv,
     ShutdownDrains, InSession, InWait, TypeOK, At, streams, stopping
<1> QED
  BY <1>2, <1>6, <1>7, <1>8 DEF IInv

(* The steps of a data stream, as one change of its state.                  *)
StreamChange(r, s, x) ==
    /\ stream' = [stream EXCEPT ![r][s] = x]
    /\ sem' = [sem EXCEPT ![r] = @ + Gain({"running"}, x)
                                   - Gain({"running"}, stream[r][s])]
    /\ streamsGauge' = streamsGauge + Gain({"running"}, x)
                                    - Gain({"running"}, stream[r][s])
    /\ x = "running" => sem[r] < MaxStreams /\ stream[r][s] = "none"
    /\ at[r] = "accepting" \/ stream[r][s] \in {"running", "leaving"}
    /\ at[r] = "accepting" \/ x \in {"leaving", "over"}

LEMMA StreamIInv ==
  ASSUME IInv, NEW r \in Requests, NEW s \in Streams, Stream(r, s)
  PROVE  IInv'
<1>0. TypeOK /\ SlotsExact /\ StreamsExact /\ PlacesInv /\ StreamsType
  BY DEF IInv, TypeOK, StreamsType
<1>1. UNCHANGED <<at, counters, alive, ctxDone, stopping>>
  BY DEF Stream, AcceptStream, RunReturns, StreamDone
<1>a. \E x \in StreamAt : StreamChange(r, s, x)
  <2>1. sem \in [Requests -> Nat] /\ streamsGauge \in Nat /\ sem = [sem EXCEPT ![r] = @]
    BY <1>0 DEF TypeOK
  <2>2. CASE AcceptStream(r, s) /\ PlaceFree(r)
    <3>1. "running" \in StreamAt
      BY DEF StreamAt
    <3>2. /\ stream' = [stream EXCEPT ![r][s] = "running"]
          /\ sem' = [sem EXCEPT ![r] = @ + 1] /\ streamsGauge' = streamsGauge + 1
          /\ sem[r] < MaxStreams /\ stream[r][s] = "none" /\ at[r] = "accepting"
      BY <2>2 DEF AcceptStream, PlaceFree
    <3>3. StreamChange(r, s, "running")
      BY <2>1, <3>2 DEF StreamChange, Gain
    <3> QED
      BY <3>1, <3>3
  <2>3. CASE AcceptStream(r, s) /\ ~PlaceFree(r)
    <3>1. "refused" \in StreamAt
      BY DEF StreamAt
    <3>2. /\ stream' = [stream EXCEPT ![r][s] = "refused"]
          /\ sem' = sem /\ streamsGauge' = streamsGauge
          /\ stream[r][s] = "none" /\ at[r] = "accepting"
      BY <2>3 DEF AcceptStream
    <3>3. StreamChange(r, s, "refused")
      BY <2>1, <3>2 DEF StreamChange, Gain
    <3> QED
      BY <3>1, <3>3
  <2>4. CASE RunReturns(r, s)
    <3>1. "leaving" \in StreamAt
      BY DEF StreamAt
    <3>2. /\ stream' = [stream EXCEPT ![r][s] = "leaving"]
          /\ sem' = [sem EXCEPT ![r] = @ - 1] /\ streamsGauge' = streamsGauge - 1
          /\ stream[r][s] = "running"
      BY <2>4 DEF RunReturns
    <3>3. /\ Gain({"running"}, "leaving") = 0 /\ Gain({"running"}, stream[r][s]) = 1
          /\ sem[r] + 0 - 1 = sem[r] - 1 /\ streamsGauge + 0 - 1 = streamsGauge - 1
      BY <2>1, <3>2 DEF Gain
    <3>4. StreamChange(r, s, "leaving")
      BY <3>2, <3>3 DEF StreamChange
    <3> QED
      BY <3>1, <3>4
  <2>5. CASE StreamDone(r, s)
    <3>1. "over" \in StreamAt
      BY DEF StreamAt
    <3>2. /\ stream' = [stream EXCEPT ![r][s] = "over"]
          /\ sem' = sem /\ streamsGauge' = streamsGauge
          /\ stream[r][s] = "leaving"
      BY <2>5 DEF StreamDone
    <3>3. StreamChange(r, s, "over")
      BY <2>1, <3>2 DEF StreamChange, Gain
    <3> QED
      BY <3>1, <3>3
  <2> QED
    BY <2>2, <2>3, <2>4, <2>5 DEF Stream
<1>b. PICK x \in StreamAt : StreamChange(r, s, x)
  BY <1>a
<1>2. /\ stream' = [stream EXCEPT ![r][s] = x]
      /\ sem' = [sem EXCEPT ![r] = @ + Gain({"running"}, x)
                                     - Gain({"running"}, stream[r][s])]
      /\ streamsGauge' = streamsGauge + Gain({"running"}, x)
                                      - Gain({"running"}, stream[r][s])
      /\ x = "running" => sem[r] < MaxStreams /\ stream[r][s] = "none"
      /\ at[r] = "accepting" \/ stream[r][s] \in {"running", "leaving"}
      /\ at[r] = "accepting" \/ x \in {"leaving", "over"}
  BY <1>b DEF StreamChange
<1>3. /\ \A q \in Requests \ {r} : Running(q)' = Running(q)
      /\ Cardinality(Running(r)') = Cardinality(Running(r)) + Gain({"running"}, x)
                                       - Gain({"running"}, stream[r][s])
      /\ Cardinality(Proxied') = Cardinality(Proxied) + Gain({"running"}, x)
                                       - Gain({"running"}, stream[r][s])
  <2>1. Cardinality(Running(r)) \in Nat /\ Cardinality(Proxied) \in Nat
    BY FiniteStreams
  <2>2. /\ \A q \in Requests \ {r} : Running(q)' = Running(q)
        /\ stream[r][s] # "running" /\ x = "running" =>
              /\ Cardinality(Running(r)') = Cardinality(Running(r)) + 1
              /\ Cardinality(Proxied') = Cardinality(Proxied) + 1
        /\ stream[r][s] = "running" /\ x # "running" =>
              /\ Cardinality(Running(r)') = Cardinality(Running(r)) - 1
              /\ Cardinality(Proxied') = Cardinality(Proxied) - 1
        /\ stream[r][s] # "running" /\ x # "running" =>
              Running(r)' = Running(r) /\ Proxied' = Proxied
    BY <1>0, <1>2, StreamMoves
  <2>3. CASE x = "running"
    BY <1>2, <2>1, <2>2, <2>3 DEF Gain
  <2>4. CASE x # "running" /\ stream[r][s] = "running"
    BY <2>1, <2>2, <2>4 DEF Gain
  <2>5. CASE x # "running" /\ stream[r][s] # "running"
    BY <2>1, <2>2, <2>5 DEF Gain
  <2> QED
    BY <2>3, <2>4, <2>5
<1>4. /\ \A q \in Requests : Cardinality(Running(q)') \in Nat
      /\ Cardinality(Proxied') \in Nat
  <2>1. IsFiniteSet(Requests \X Streams)
    BY RequestsAssumption, FS_Product
  <2>2. IsFiniteSet(Proxied')
    BY <2>1, FS_Subset DEF Proxied
  <2>3. \A q \in Requests : IsFiniteSet(Running(q)')
    BY RequestsAssumption, FS_Subset DEF Running
  <2> QED
    BY <2>2, <2>3, FS_CardinalityType
<1>5. StreamsExact'
  <2>1. streamsGauge' = Cardinality(Proxied')
    BY <1>0, <1>2, <1>3 DEF StreamsExact, Proxied
  <2>2. \A q \in Requests : sem'[q] = Cardinality(Running(q)') /\ sem'[q] <= MaxStreams
    <3> SUFFICES ASSUME NEW q \in Requests
                 PROVE  sem'[q] = Cardinality(Running(q)') /\ sem'[q] <= MaxStreams
      OBVIOUS
    <3>1. sem \in [Requests -> Nat] /\ sem[q] = Cardinality(Running(q)) /\ sem[q] <= MaxStreams
      BY <1>0 DEF TypeOK, StreamsExact
    <3>2. CASE q # r
      BY <1>2, <1>3, <3>1, <3>2
    <3>3. CASE q = r
      <4>1. sem'[r] = sem[r] + Gain({"running"}, x) - Gain({"running"}, stream[r][s])
        BY <1>2, <3>1, <3>3
      <4>2. sem'[r] = Cardinality(Running(r)')
        BY <1>3, <3>1, <3>3, <4>1
      <4>3. sem'[r] <= MaxStreams
        BY <1>2, <3>1, <3>3, <4>1, MaximaAssumption DEF Gain
      <4> QED
        BY <3>3, <4>2, <4>3
    <3> QED
      BY <3>2, <3>3
  <2> QED
    BY <2>1, <2>2 DEF StreamsExact, Proxied
<1>6. TypeOK'
  <2>1. stream' \in [Requests -> [Streams -> StreamAt]]
    BY <1>0, <1>2 DEF StreamsType
  <2>2. sem' \in [Requests -> Nat]
    <3>1. DOMAIN sem' = Requests /\ sem' = [q \in Requests |-> sem'[q]]
      BY <1>0, <1>2 DEF TypeOK
    <3> QED
      BY <1>4, <1>5, <3>1 DEF StreamsExact
  <2>3. streamsGauge' \in Nat
    BY <1>4, <1>5 DEF StreamsExact, Proxied
  <2> QED
    BY <1>0, <1>1, <2>1, <2>2, <2>3 DEF TypeOK, counters, stopping
<1>7. PlacesInv'
  <2>1. \A q \in Requests, d \in Streams :
          stream'[q][d] = IF q = r /\ d = s THEN x ELSE stream[q][d]
    BY <1>0, <1>2 DEF StreamsType
  <2>2. EarlyInv'
    BY <1>0, <1>1, <1>2, <2>1 DEF PlacesInv, EarlyInv
  <2>3. DrainedBeforeEnd'
    BY <1>0, <1>1, <1>2, <2>1 DEF PlacesInv, DrainedBeforeEnd
  <2>4. ServedInv' /\ ShutdownDrains'
    BY <1>0, <1>1 DEF PlacesInv, ServedInv, ShutdownDrains, stopping
  <2> QED
    BY <2>2, <2>3, <2>4 DEF PlacesInv
<1> QED
  BY <1>0, <1>1, <1>5, <1>6, <1>7, SlotsStay DEF IInv

(* The deadlines, the network and Shutdown.                                 *)
LEMMA OutsideIInv ==
  ASSUME IInv, Shutdown \/ \E r \in Requests : Environment(r)
  PROVE  IInv'
<1>0. TypeOK /\ SlotsExact /\ StreamsExact /\ PlacesInv
  BY DEF IInv
<1> USE DEF Shutdown, StoreClosing, CloseServer, ShutdownComplete, ShutdownTimesOut,
            Environment, LifetimeExpires, SessionLost
<1>1. UNCHANGED <<at, counters, streams>>
  OBVIOUS
<1>2. SlotsExact' /\ StreamsExact'
  BY <1>0, <1>1, SlotsStay, StreamsStay
<1>3. TypeOK'
  <2>1. alive' \in [Requests -> BOOLEAN] /\ ctxDone' \in [Requests -> BOOLEAN]
    BY <1>0 DEF TypeOK
  <2>2. /\ closing' \in BOOLEAN /\ served' \in SUBSET Requests
        /\ shutdown' \in {"no", "storing", "waiting", "complete", "timedOut"}
    BY <1>0 DEF TypeOK, stopping
  <2> QED
    BY <1>0, <1>1, <2>1, <2>2 DEF TypeOK, counters, streams
<1>4. EarlyInv' /\ DrainedBeforeEnd'
  BY <1>0, <1>1 DEF PlacesInv, EarlyInv, DrainedBeforeEnd, streams
<1>5. ServedInv'
  BY <1>0, <1>1 DEF PlacesInv, ServedInv, stopping
<1>6. ShutdownDrains'
  <2>1. CASE ShutdownComplete
    <3>1. Count(InWait) = 0
      BY <1>0, <2>1 DEF WaitOver, SlotsExact
    <3>2. \A r \in Requests : at[r] \notin InWait
      BY <3>1, NoneCounted
    <3> QED
      BY <1>0, <1>1, <1>3, <2>1, <3>2 DEF PlacesInv, ServedInv, ShutdownDrains, TypeOK
  <2>2. CASE ~ShutdownComplete
    BY <1>0, <1>1, <2>2 DEF PlacesInv, ShutdownDrains, stopping
  <2> QED
    BY <2>1, <2>2
<1> QED
  BY <1>2, <1>3, <1>4, <1>5, <1>6 DEF IInv, PlacesInv

LEMMA StutterIInv ==
  ASSUME IInv, UNCHANGED vars
  PROVE  IInv'
<1>1. UNCHANGED <<at, counters, streams>> /\ UNCHANGED <<alive, ctxDone, stopping>>
  BY DEF vars
<1>2. SlotsExact' /\ StreamsExact'
  BY <1>1, SlotsStay, StreamsStay DEF IInv
<1>3. TypeOK' /\ PlacesInv'
  BY <1>1 DEF IInv, TypeOK, PlacesInv, EarlyInv, DrainedBeforeEnd, ServedInv,
     ShutdownDrains, counters, streams, stopping
<1> QED
  BY <1>2, <1>3 DEF IInv

(* Every reachable state of the gateway satisfies the inductive invariant.  *)
THEOREM Invariance == Spec => []IInv
<1>1. Init => IInv
  BY InitIInv
<1>2. IInv /\ [Next]_vars => IInv'
  BY MovesIInv, StreamIInv, OutsideIInv, StutterIInv DEF Next
<1> QED
  BY <1>1, <1>2, PTL DEF Spec

(* Type correctness of the gateway: no counter goes below zero.             *)
THEOREM TypeCorrect == Spec => []TypeOK
<1>1. IInv => TypeOK
  BY DEF IInv
<1> QED
  BY <1>1, Invariance, PTL

(* The slots, the gauge and the wait group are exact, and no more than      *)
(* MaxSessions slots are ever held (server.go:75-97).                       *)
THEOREM SlotsTheorem == Spec => []SlotsExact
<1>1. IInv => SlotsExact
  BY DEF IInv
<1> QED
  BY <1>1, Invariance, PTL

(* The places of each session's streams are exact, and no more than         *)
(* MaxStreams are ever held (server.go:141-165).                            *)
THEOREM StreamsTheorem == Spec => []StreamsExact
<1>1. IInv => StreamsExact
  BY DEF IInv
<1> QED
  BY <1>1, Invariance, PTL

(* Admission and the accept loop decide by exact counts, for every number   *)
(* of sessions and streams (server.go:75-97, 141-165).                      *)
THEOREM CountsTheorem == Spec => []CountsExact
<1>1. IInv => CountsExact
  BY DEF IInv, CountsExact
<1> QED
  BY <1>1, Invariance, PTL

(* A session is closed, and its slot freed, only when none of its streams   *)
(* is still served (server.go:143).                                         *)
THEOREM DrainTheorem == Spec => []DrainedBeforeEnd
<1>1. IInv => DrainedBeforeEnd
  BY DEF IInv, PlacesInv
<1> QED
  BY <1>1, Invariance, PTL

(* Shutdown() returns nil only when every session it found is over          *)
(* (server.go:168-179).                                                     *)
THEOREM ShutdownTheorem == Spec => []ShutdownDrains
<1>1. IInv => ShutdownDrains
  BY DEF IInv, PlacesInv
<1> QED
  BY <1>1, Invariance, PTL
-----------------------------------------------------------------------------
(* Refinement of Admission.  What it speaks of, and what follows from the   *)
(* order of Shutdown's first two steps.                                     *)
promise == <<at, stream, closing, served, shutdown>>

StoredInv == closing = (shutdown # "no")

RInv == IInv /\ StoredInv

LEMMA StoredStep ==
  ASSUME StoredInv, [Next]_vars
  PROVE  StoredInv'
BY DEF StoredInv, Next, vars, Handler, ServeSession, Environment, Stream, Shutdown,
   Enter, TakeSlot, UpgradeFails, Upgrade, Welcome, ControlFails, AcceptFails, Drain,
   Free, Leave, AcceptStream, RunReturns, StreamDone, LifetimeExpires, SessionLost,
   StoreClosing, CloseServer, ShutdownComplete, ShutdownTimesOut, stopping

LEMMA PromiseStays == UNCHANGED promise => UNCHANGED Promise!vars
BY DEF promise, Promise!vars, standing, run, PlaceOf

(* The places of a session's streams and the slots, as Admission counts.    *)
LEMMA RoomExact ==
  ASSUME TypeOK, CountsExact
  PROVE  /\ Promise!Room <=> SlotFree
         /\ \A r \in Requests : Promise!Running(r) = Running(r)
         /\ \A r \in Requests : Promise!RoomIn(r) <=> PlaceFree(r)
<1>1. \A r \in Requests : standing[r] \in {"held", "open"} <=> at[r] \in HasSlot
  BY DEF TypeOK, At, standing, PlaceOf, HasSlot, InSession
<1>2. Promise!In({"held", "open"}) = Holders(HasSlot)
  BY <1>1 DEF Promise!In, Holders
<1>s. \A S : Promise!Cardinality(S) = Cardinality(S)
  BY DEF Promise!Cardinality, Cardinality
<1>3. Promise!Room <=> SlotFree
  BY <1>s, <1>2 DEF Promise!Room, SlotFree, CountsExact, SlotsExact, Count, Holders
<1>4. \A r \in Requests : Promise!Running(r) = Running(r)
  BY DEF Promise!Running, Running, run
<1>5. \A r \in Requests : Promise!RoomIn(r) <=> PlaceFree(r)
  BY <1>s, <1>4 DEF Promise!RoomIn, PlaceFree, CountsExact, StreamsExact
<1> QED
  BY <1>3, <1>4, <1>5

(* A request that moves, and one that does not move for Admission.          *)
LEMMA PlaceGoes ==
  ASSUME TypeOK, NEW r \in Requests, NEW p \in At, Move(r, p),
         UNCHANGED <<stream, stopping>>
  PROVE  /\ PlaceOf(p) # PlaceOf(at[r]) => Promise!Goes(r, PlaceOf(at[r]), PlaceOf(p))
         /\ PlaceOf(p) = PlaceOf(at[r]) => UNCHANGED Promise!vars
<1>1. standing[r] = PlaceOf(at[r]) /\ standing' = [standing EXCEPT ![r] = PlaceOf(p)]
  BY DEF standing, Move, TypeOK
<1>2. UNCHANGED <<run, closing, served, shutdown>>
  BY DEF run, stopping
<1>3. PlaceOf(p) = PlaceOf(at[r]) => standing' = standing
  BY <1>1 DEF standing
<1> QED
  BY <1>1, <1>2, <1>3 DEF Promise!Goes, Promise!vars

LEMMA MovesPromise ==
  ASSUME RInv, NEW r \in Requests, Handler(r) \/ ServeSession(r)
  PROVE  Promise!Session(r) \/ UNCHANGED Promise!vars
<1>0. TypeOK /\ CountsExact
  BY DEF RInv, IInv, CountsExact
<1>1. UNCHANGED <<stream, stopping>>
  BY DEF Handler, ServeSession, Enter, TakeSlot, UpgradeFails, Upgrade, Welcome,
     ControlFails, AcceptFails, Drain, Free, Leave, streams
<1>2. \A p \in At : Move(r, p) =>
          /\ PlaceOf(p) # PlaceOf(at[r]) => Promise!Goes(r, PlaceOf(at[r]), PlaceOf(p))
          /\ PlaceOf(p) = PlaceOf(at[r]) => UNCHANGED Promise!vars
  BY <1>0, <1>1, PlaceGoes
<1>3. CASE Enter(r)
  <2>1. /\ at[r] = "new"
        /\ Move(r, "rejected") \/ (~closing /\ Move(r, "admitting"))
    BY <1>3 DEF Enter
  <2>2. \/ Promise!Goes(r, "new", "away")
        \/ ~closing /\ Promise!Goes(r, "new", "let in")
    BY <1>2, <2>1 DEF At, PlaceOf, InSession
  <2> QED
    BY <2>2 DEF Promise!Session, Promise!TurnAway, Promise!LetIn
<1>4. CASE TakeSlot(r)
  <2>1. /\ at[r] = "admitting"
        /\ \/ SlotFree /\ Move(r, "upgrading")
           \/ ~SlotFree /\ Move(r, "rejected")
    BY <1>4 DEF TakeSlot
  <2>2. \/ SlotFree /\ Promise!Goes(r, "let in", "held")
        \/ ~SlotFree /\ Promise!Goes(r, "let in", "away")
    BY <1>2, <2>1 DEF At, PlaceOf, InSession
  <2>3. Promise!Room <=> SlotFree
    BY <1>0, RoomExact
  <2> QED
    BY <2>2, <2>3 DEF Promise!Session, Promise!Take, Promise!NoRoom
<1>5. CASE UpgradeFails(r)
  BY <1>2, <1>5 DEF UpgradeFails, At, PlaceOf, Promise!Session, Promise!Withdraw
<1>6. CASE Upgrade(r)
  BY <1>2, <1>6 DEF Upgrade, At, PlaceOf, InSession, Promise!Session, Promise!Open
<1>7. CASE Welcome(r) \/ ControlFails(r) \/ AcceptFails(r) \/ Drain(r)
  <2>1. \E p \in InSession : Move(r, p) /\ at[r] \in InSession
    BY <1>7 DEF Welcome, ControlFails, AcceptFails, Drain, InSession
  <2>2. \A p \in InSession : p \in At /\ PlaceOf(p) = "open"
    BY DEF InSession, At, PlaceOf
  <2> QED
    BY <1>2, <2>1, <2>2
<1>8. CASE Free(r)
  <2>1. Running(r) = {}
    BY <1>8 DEF Free, RInv, IInv, PlacesInv, DrainedBeforeEnd, Running
  <2>2. Promise!Running(r) = {}
    BY <1>0, <2>1, RoomExact
  <2> QED
    BY <1>2, <1>8, <2>2 DEF Free, At, PlaceOf, InSession, Promise!Session, Promise!End
<1>9. CASE Leave(r)
  BY <1>2, <1>9 DEF Leave, At, PlaceOf, InSession
<1> QED
  BY <1>3, <1>4, <1>5, <1>6, <1>7, <1>8, <1>9 DEF Handler, ServeSession

(* A stream that changes, and one whose goroutine leaves.                   *)
LEMMA StreamPromise ==
  ASSUME RInv, NEW r \in Requests, NEW s \in Streams, Stream(r, s)
  PROVE  Promise!Stream(r, s) \/ UNCHANGED Promise!vars
<1>0. TypeOK /\ CountsExact /\ StreamsType
  BY DEF RInv, IInv, CountsExact, TypeOK, StreamsType
<1>1. UNCHANGED <<at, closing, served, shutdown>> /\ UNCHANGED standing
  BY DEF Stream, AcceptStream, RunReturns, StreamDone, stopping, standing
<1>2. ASSUME NEW x, stream' = [stream EXCEPT ![r][s] = x]
      PROVE  run' = [run EXCEPT ![r][s] = IF x = "leaving" THEN "over" ELSE x]
  <2> DEFINE y == IF x = "leaving" THEN "over" ELSE x
             next == [run EXCEPT ![r][s] = y]
  <2>1. \A q \in Requests, d \in Streams :
            stream'[q][d] = IF q = r /\ d = s THEN x ELSE stream[q][d]
    BY <1>0, <1>2 DEF StreamsType
  <2>2. \A q \in Requests, d \in Streams :
            run'[q][d] = IF q = r /\ d = s THEN y ELSE run[q][d]
    BY <2>1 DEF run
  <2>3. \A q \in Requests, d \in Streams :
            next[q][d] = IF q = r /\ d = s THEN y ELSE run[q][d]
    BY DEF run
  <2>4. /\ run' = [q \in Requests |-> [d \in Streams |-> run'[q][d]]]
        /\ next = [q \in Requests |-> [d \in Streams |-> next[q][d]]]
    BY DEF run
  <2> QED
    BY <2>2, <2>3, <2>4
<1>3. run[r][s] = IF stream[r][s] = "leaving" THEN "over" ELSE stream[r][s]
  BY DEF run
<1>4. CASE AcceptStream(r, s)
  <2>1. standing[r] = "open" /\ run[r][s] = "none"
    BY <1>3, <1>4 DEF AcceptStream, standing, PlaceOf, InSession
  <2>2. CASE PlaceFree(r)
    BY <1>0, <1>1, <1>2, <1>4, <2>1, <2>2, RoomExact
       DEF AcceptStream, Promise!Stream, Promise!Start, Promise!Runs
  <2>3. CASE ~PlaceFree(r)
    BY <1>0, <1>1, <1>2, <1>4, <2>1, <2>3, RoomExact
       DEF AcceptStream, Promise!Stream, Promise!Refuse, Promise!Runs
  <2> QED
    BY <2>2, <2>3
<1>5. CASE RunReturns(r, s)
  <2>1. stream[r][s] = "running" /\ stream' = [stream EXCEPT ![r][s] = "leaving"]
    BY <1>5 DEF RunReturns
  <2>2. at[r] \in {"accepting", "draining"}
    BY <1>0, <2>1 DEF RInv, IInv, PlacesInv, EarlyInv, DrainedBeforeEnd, TypeOK, At
  <2>3. standing[r] = "open"
    BY <2>2 DEF standing, PlaceOf, InSession
  <2> QED
    BY <1>1, <1>2, <1>3, <2>1, <2>3 DEF Promise!Stream, Promise!Finish, Promise!Runs
<1>6. CASE StreamDone(r, s)
  <2>1. stream[r][s] = "leaving" /\ stream' = [stream EXCEPT ![r][s] = "over"]
    BY <1>6 DEF StreamDone
  <2>2. run' = [run EXCEPT ![r][s] = run[r][s]]
    BY <1>2, <1>3, <2>1
  <2>3. run' = run
    BY <2>2 DEF run
  <2> QED
    BY <1>1, <2>3 DEF Promise!vars
<1> QED
  BY <1>4, <1>5, <1>6 DEF Stream

LEMMA OutsidePromise ==
  ASSUME RInv, Shutdown \/ \E r \in Requests : Environment(r)
  PROVE  Promise!Close \/ Promise!Stop \/ UNCHANGED Promise!vars
<1>0. TypeOK /\ ServedInv /\ StoredInv
  BY DEF RInv, IInv, PlacesInv
<1>1. UNCHANGED <<at, stream>> /\ UNCHANGED <<standing, run>>
  BY DEF Shutdown, StoreClosing, CloseServer, ShutdownComplete, ShutdownTimesOut,
     Environment, LifetimeExpires, SessionLost, streams, standing, run
<1>2. CASE StoreClosing
  <2>1. ~closing /\ closing'
    BY <1>0, <1>2 DEF StoreClosing, StoredInv
  <2>2. /\ Promise!In({"open"}) \subseteq served'
        /\ served' \subseteq Promise!In({"open", "over"})
    BY <1>0, <1>2 DEF StoreClosing, Promise!In, standing, PlaceOf, TypeOK, At, InSession, InWait
  <2>3. (shutdown = "complete") = (shutdown' = "complete")
    BY <1>2 DEF StoreClosing
  <2> QED
    BY <1>0, <1>1, <2>1, <2>2, <2>3 DEF Promise!Close, TypeOK
<1>3. CASE ShutdownComplete
  <2>1. closing /\ shutdown = "waiting" /\ shutdown' = "complete" /\ UNCHANGED <<closing, served>>
    BY <1>0, <1>3 DEF ShutdownComplete, StoredInv
  <2>2. Count(InWait) = 0
    BY <1>3 DEF ShutdownComplete, WaitOver, RInv, IInv, SlotsExact
  <2>3. \A r \in served : at[r] = "done"
    BY <1>0, <2>2, NoneCounted DEF ServedInv, TypeOK
  <2>4. served \subseteq Promise!In({"over"})
    BY <1>0, <2>3 DEF Promise!In, standing, PlaceOf, InSession, TypeOK
  <2> QED
    BY <1>1, <2>1, <2>4 DEF Promise!Stop
<1>4. CASE ~StoreClosing /\ ~ShutdownComplete
  <2>1. UNCHANGED <<closing, served>> /\ (shutdown = "complete") = (shutdown' = "complete")
    BY <1>4 DEF Shutdown, CloseServer, ShutdownTimesOut, Environment, LifetimeExpires,
       SessionLost, stopping
  <2> QED
    BY <1>1, <2>1 DEF Promise!vars
<1> QED
  BY <1>2, <1>3, <1>4

(* The gateway implements Admission (server.go:50-179).                     *)
THEOREM Refinement == Spec => ImplementsAdmission
<1>1. Init => RInv
  BY InitIInv DEF Init, RInv, StoredInv
<1>2. RInv /\ [Next]_vars => RInv'
  BY MovesIInv, StreamIInv, OutsideIInv, StutterIInv, StoredStep DEF Next, RInv
<1>3. Init => Promise!Init
  <2> SUFFICES ASSUME Init PROVE Promise!Init
    OBVIOUS
  <2>1. PlaceOf("new") = "new"
    BY DEF PlaceOf, InSession
  <2>2. standing = [r \in Requests |-> "new"]
    BY <2>1 DEF Init, standing
  <2>3. run = [r \in Requests |-> [s \in Streams |-> "none"]]
    BY DEF Init, run
  <2> QED
    BY <2>2, <2>3 DEF Init, Promise!Init
<1>4. RInv /\ [Next]_vars => [Promise!Next]_(Promise!vars)
  <2> SUFFICES ASSUME RInv, [Next]_vars
               PROVE  Promise!Next \/ UNCHANGED Promise!vars
    OBVIOUS
  <2>1. CASE Next
    BY <2>1, MovesPromise, StreamPromise, OutsidePromise DEF Next, Promise!Next
  <2>2. CASE UNCHANGED vars
    BY <2>2, PromiseStays DEF vars, promise, streams, stopping
  <2> QED
    BY <2>1, <2>2
<1> QED
  BY <1>1, <1>2, <1>3, <1>4, PTL DEF Spec, ImplementsAdmission, Promise!Spec
=============================================================================
