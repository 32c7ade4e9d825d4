--------------------------- MODULE LimiterProofs ---------------------------
(***************************************************************************)
(* Theorems about Limiter, for every rate, burst and number of keys.       *)
(*                                                                         *)
(* RateBound speaks of pairs of past calls; to keep it, a call must know   *)
(* what the level of its bucket says of them.  That is Account: from any   *)
(* allowed call on, what was allowed and what is left together do not      *)
(* exceed the capacity and the refill since.                               *)
(***************************************************************************)
EXTENDS Limiter, SequenceTheorems, TLAPS

(* What n calls cost, and what a stretch of t ticks adds.  The steps below  *)
(* reason about these by the lemmas alone, never about the products.        *)
Cost(n) == n * Token
Gain(t) == t * Refill

Account ==
    \A k \in Keys : \A i \in 1..Len(allowed[k]) :
        /\ allowed[k][i] <= updated[k]
        /\ Cost(Len(allowed[k]) - i + 1) + tokens[k]
               <= Capacity + Gain(updated[k] - allowed[k][i])

Rated ==
    \A k \in Keys : \A j \in 1..Len(allowed[k]) : \A i \in 1..j :
        Cost(j - i + 1) <= Capacity + Gain(allowed[k][j] - allowed[k][i])

Fresh == \A k \in Keys \ known : allowed[k] = <<>>

IInv == TypeOK /\ Account /\ Fresh /\ Rated

(* A product of natural numbers is one.                                     *)
LEMMA Product ==
  ASSUME NEW a \in Nat, NEW b \in Nat
  PROVE  a * b \in Nat
  BY SMT

LEMMA Rates == Capacity \in Nat /\ Token \in Nat /\ Refill \in Nat
  BY RatesAssumption, Product DEF Capacity

(* One more call costs one more token.                                      *)
LEMMA CostOfOneMore ==
  ASSUME NEW n \in Nat
  PROVE  Cost(n) \in Nat /\ Cost(n + 1) = Cost(n) + Token /\ Cost(1) = Token
  <1>1. Token \in Nat
    BY Rates
  <1>2. n * Token \in Nat
    BY <1>1, Product
  <1>3. (n + 1) * Token = n * Token + Token /\ 1 * Token = Token
    BY <1>1
  <1> QED
    BY <1>2, <1>3 DEF Cost

(* The refill of two stretches of time that meet is that of the whole.      *)
LEMMA GainOfStretches ==
  ASSUME NEW s \in Nat, NEW t \in Nat
  PROVE  Gain(s) \in Nat /\ Gain(s + t) = Gain(s) + Gain(t) /\ Gain(0) = 0
  <1>1. Refill \in Nat
    BY Rates
  <1>2. s * Refill \in Nat
    BY <1>1, Product
  <1>3. (s + t) * Refill = s * Refill + t * Refill /\ 0 * Refill = 0
    BY <1>1
  <1> QED
    BY <1>2, <1>3 DEF Gain

(* What appending a number to a sequence of numbers does.                   *)
LEMMA Appended ==
  ASSUME NEW s \in Seq(Nat), NEW n \in Nat
  PROVE  /\ Len(s) \in Nat
         /\ Len(Append(s, n)) = Len(s) + 1
         /\ Append(s, n)[Len(s) + 1] = n
         /\ \A i \in 1..Len(s) : i \in Nat /\ s[i] \in Nat /\ Append(s, n)[i] = s[i]
  <1>1. Len(s) \in Nat
    BY LenProperties
  <1>2. \A i \in 1..Len(s) : i \in Nat /\ s[i] \in Nat
    BY <1>1, ElementOfSeq
  <1>3. /\ Len(Append(s, n)) = Len(s) + 1
        /\ Append(s, n)[Len(s) + 1] = n
        /\ \A i \in 1..Len(s) : Append(s, n)[i] = s[i]
    BY AppendProperties
  <1> QED
    BY <1>1, <1>2, <1>3

(* A bucket refilled up to now holds at most its capacity, and no more than *)
(* it held and the time since has added (limiter.go:31-34).                 *)
LEMMA RefilledBounds ==
  ASSUME TypeOK, NEW k \in Keys
  PROVE  /\ Refilled(k) \in Nat
         /\ Refilled(k) <= Capacity
         /\ k \in known => Refilled(k) <= tokens[k] + Gain(now - updated[k])
  <1>1. Capacity \in Nat
    BY Rates
  <1>2. tokens[k] \in Nat /\ now - updated[k] \in Nat
    BY DEF TypeOK
  <1>3. Gain(now - updated[k]) \in Nat
    BY <1>2, GainOfStretches
  <1>4. Refilled(k) = IF k \notin known \/ tokens[k] + Gain(now - updated[k]) > Capacity
                        THEN Capacity
                        ELSE tokens[k] + Gain(now - updated[k])
    BY DEF Refilled, Gain
  <1> QED
    BY <1>1, <1>2, <1>3, <1>4

THEOREM InitInvariant == Init => IInv
  <1> SUFFICES ASSUME Init PROVE IInv
    OBVIOUS
  <1>1. TypeOK
    BY Rates DEF Init, TypeOK
  <1>2. \A k \in Keys : Len(allowed[k]) = 0
    BY DEF Init
  <1> QED
    BY <1>1, <1>2 DEF IInv, Account, Fresh, Rated, Init

(* The account of a key, once its bucket has been refilled up to now.       *)
LEMMA AccountNow ==
  ASSUME IInv, NEW k \in Keys, NEW i \in 1..Len(allowed[k])
  PROVE  /\ allowed[k][i] \in Nat /\ allowed[k][i] <= now
         /\ Cost(Len(allowed[k]) - i + 1) + Refilled(k)
                <= Capacity + Gain(now - allowed[k][i])
  <1>1. /\ now \in Nat /\ tokens[k] \in Nat
        /\ updated[k] \in Nat /\ updated[k] <= now
        /\ allowed[k] \in Seq(Nat)
    BY DEF IInv, TypeOK
  <1>2. allowed[k][i] \in Nat
    BY <1>1, ElementOfSeq
  <1>2a. Len(allowed[k]) - i + 1 \in Nat
    <2>1. Len(allowed[k]) \in Nat
      BY <1>1, LenProperties
    <2> QED
      BY <2>1
  <1>3. allowed[k][i] <= updated[k]
    BY DEF IInv, Account
  <1>4. /\ now - updated[k] \in Nat /\ updated[k] - allowed[k][i] \in Nat
        /\ now - allowed[k][i] = (now - updated[k]) + (updated[k] - allowed[k][i])
        /\ allowed[k][i] <= now
    <2> DEFINE past == allowed[k][i]
               last == updated[k]
    <2>1. past \in Nat /\ last \in Nat /\ now \in Nat /\ past <= last /\ last <= now
      BY <1>1, <1>2, <1>3
    <2> HIDE DEF past, last
    <2>2. /\ now - last \in Nat /\ last - past \in Nat
          /\ now - past = (now - last) + (last - past) /\ past <= now
      BY <2>1
    <2> QED
      BY <2>2 DEF past, last
  <1> DEFINE cost == Cost(Len(allowed[k]) - i + 1)
             before == Gain(updated[k] - allowed[k][i])
             since == Gain(now - updated[k])
  <1>5. before \in Nat /\ since \in Nat /\ Gain(now - allowed[k][i]) = since + before
    BY <1>4, GainOfStretches
  <1>6. cost + tokens[k] <= Capacity + before
    BY DEF IInv, Account
  <1>7. Refilled(k) \in Nat /\ Refilled(k) <= tokens[k] + since
    <2>1. k \in known
      BY <1>1 DEF IInv, Fresh
    <2> QED
      BY <2>1, RefilledBounds DEF IInv
  <1>8. cost \in Nat
    BY <1>2a, CostOfOneMore
  <1>9. Capacity \in Nat
    BY Rates
  <1> HIDE DEF cost, before, since
  <1>10. cost + Refilled(k) <= Capacity + (since + before)
    BY <1>1, <1>5, <1>6, <1>7, <1>8, <1>9
  <1> QED
    BY <1>2, <1>4, <1>5, <1>10 DEF cost

(* A granted call, and every earlier one up to it: what they cost and what  *)
(* the bucket is left with.                                                 *)
LEMMA AccountGranted ==
  ASSUME IInv, NEW k \in Keys, Refilled(k) >= Token,
         NEW i \in 1..(Len(allowed[k]) + 1)
  PROVE  /\ Append(allowed[k], now)[i] \in Nat
         /\ Append(allowed[k], now)[i] <= now
         /\ Cost(Len(allowed[k]) - i + 2) \in Nat
         /\ Gain(now - Append(allowed[k], now)[i]) \in Nat
         /\ Cost(Len(allowed[k]) - i + 2) + (Refilled(k) - Token)
                <= Capacity + Gain(now - Append(allowed[k], now)[i])
  <1>1. /\ Capacity \in Nat /\ Token \in Nat
        /\ Refilled(k) \in Nat /\ Refilled(k) <= Capacity
    BY Rates, RefilledBounds DEF IInv
  <1>2. now \in Nat /\ allowed[k] \in Seq(Nat)
    BY DEF IInv, TypeOK
  <1>3. Len(allowed[k]) \in Nat
    BY <1>2, LenProperties
  <1> DEFINE level == Refilled(k)
  <1>4. CASE i \in 1..Len(allowed[k])
    <2> DEFINE n == Len(allowed[k]) - i + 1
               cost == Cost(n)
               past == allowed[k][i]
               gain == Gain(now - past)
    <2>1. Append(allowed[k], now)[i] = past
      BY <1>2, <1>4, Appended
    <2>2. past \in Nat /\ past <= now
      BY <1>4, AccountNow
    <2>3. cost + level <= Capacity + gain
      BY <1>4, AccountNow
    <2>4. n \in Nat /\ Len(allowed[k]) - i + 2 = n + 1
      BY <1>3, <1>4
    <2>5. now - past \in Nat
      <3> HIDE DEF past
      <3> QED
        BY <1>2, <2>2
    <2>6. gain \in Nat
      BY <2>5, GainOfStretches
    <2> HIDE DEF n, past
    <2>7. cost \in Nat /\ Cost(n + 1) = cost + Token
      BY <2>4, CostOfOneMore
    <2> HIDE DEF cost, gain, level
    <2>8. (cost + Token) \in Nat /\ (cost + Token) + (level - Token) <= Capacity + gain
      BY <1>1, <2>3, <2>6, <2>7 DEF level
    <2> QED
      BY <2>1, <2>2, <2>4, <2>6, <2>7, <2>8 DEF gain, level
  <1>5. CASE i = Len(allowed[k]) + 1
    <2>1. Append(allowed[k], now)[i] = now
      BY <1>2, <1>5, Appended
    <2>2. now - now = 0 /\ Len(allowed[k]) - i + 2 = 1
      BY <1>2, <1>3, <1>5
    <2>3. Cost(1) = Token /\ Gain(0) = 0
      BY CostOfOneMore, GainOfStretches
    <2> HIDE DEF level
    <2>4. Token + (level - Token) <= Capacity + 0 /\ now <= now
      BY <1>1, <1>2 DEF level
    <2>5. Token \in Nat /\ 0 \in Nat
      BY <1>1
    <2> QED
      BY <1>2, <2>1, <2>2, <2>3, <2>4, <2>5, Zenon DEF level
  <1> QED
    BY <1>3, <1>4, <1>5

THEOREM NextInvariant == IInv /\ [Next]_vars => IInv'
  <1> SUFFICES ASSUME IInv, [Next]_vars PROVE IInv'
    OBVIOUS
  <1> USE DEF IInv
  <1>1. CASE Tick
    BY <1>1 DEF Tick, TypeOK, Account, Fresh, Rated, Capacity, Cost, Gain
  <1>2. ASSUME NEW k \in Keys, Refuse(k) PROVE IInv'
    <2>1. TypeOK'
      BY <1>2, RefilledBounds DEF Refuse, Update, TypeOK
    <2>2. Account'
      BY <1>2, AccountNow DEF Refuse, Update, TypeOK, Account
    <2>3. Fresh' /\ Rated'
      BY <1>2 DEF Refuse, Update, Fresh, Rated
    <2> QED
      BY <2>1, <2>2, <2>3
  <1>3. ASSUME NEW k \in Keys, Grant(k) PROVE IInv'
    <2>1. /\ Refilled(k) \in Nat /\ Refilled(k) <= Capacity
          /\ Capacity \in Nat /\ Token \in Nat /\ now \in Nat
          /\ Refilled(k) >= Token
          /\ allowed[k] \in Seq(Nat) /\ Len(allowed[k]) \in Nat
      BY <1>3, RefilledBounds, Rates DEF Grant, TypeOK
    <2>2. /\ tokens' = [tokens EXCEPT ![k] = Refilled(k) - Token]
          /\ updated' = [updated EXCEPT ![k] = now]
          /\ allowed' = [allowed EXCEPT ![k] = Append(allowed[k], now)]
          /\ known' = known \cup {k} /\ now' = now
      BY <1>3 DEF Grant, Update
    <2>3. TypeOK'
      BY <2>1, <2>2 DEF TypeOK
    <2>4. /\ allowed'[k] = Append(allowed[k], now)
          /\ Len(allowed'[k]) = Len(allowed[k]) + 1
          /\ tokens'[k] = Refilled(k) - Token /\ updated'[k] = now
      BY <2>1, <2>2, Appended DEF TypeOK
    <2>4a. /\ Append(allowed[k], now)[Len(allowed[k]) + 1] = now
           /\ \A i \in 1..Len(allowed[k]) : Append(allowed[k], now)[i] = allowed[k][i]
      BY <2>1, Appended
    <2>5. \A q \in Keys \ {k} :
             allowed'[q] = allowed[q] /\ tokens'[q] = tokens[q] /\ updated'[q] = updated[q]
      BY <2>2 DEF TypeOK
    <2>6. Account'
      <3> SUFFICES ASSUME NEW q \in Keys, NEW i \in 1..Len(allowed'[q])
                   PROVE  /\ allowed'[q][i] <= updated'[q]
                          /\ Cost(Len(allowed'[q]) - i + 1) + tokens'[q]
                                <= Capacity + Gain(updated'[q] - allowed'[q][i])
        BY DEF Account, Capacity, Cost, Gain
      <3>1. CASE q # k
        BY <2>5, <3>1 DEF Account
      <3>2. CASE q = k
        <4>1. i \in 1..(Len(allowed[k]) + 1)
          BY <2>4, <3>2
        <4>2. Len(allowed'[k]) - i + 1 = Len(allowed[k]) - i + 2
          BY <2>1, <2>4, <4>1
        <4>3. /\ Append(allowed[k], now)[i] <= now
              /\ Cost(Len(allowed[k]) - i + 2) + (Refilled(k) - Token)
                    <= Capacity + Gain(now - Append(allowed[k], now)[i])
          BY <2>1, <4>1, AccountGranted
        <4> QED
          BY <2>4, <3>2, <4>2, <4>3, Zenon
      <3> QED
        BY <3>1, <3>2
    <2>7. Fresh'
      BY <2>2 DEF Fresh, TypeOK
    <2>8. Rated'
      <3> SUFFICES ASSUME NEW q \in Keys, NEW j \in 1..Len(allowed'[q]), NEW i \in 1..j
                   PROVE  Cost(j - i + 1) <= Capacity + Gain(allowed'[q][j] - allowed'[q][i])
        BY DEF Rated, Capacity, Cost, Gain
      <3>1. CASE q # k
        BY <2>5, <3>1 DEF Rated
      <3>2. CASE q = k /\ j \in 1..Len(allowed[k])
        <4>1. i \in 1..Len(allowed[k])
          BY <2>1, <3>2
        <4>2. allowed'[q][j] = allowed[k][j] /\ allowed'[q][i] = allowed[k][i]
          BY <2>4, <2>4a, <3>2, <4>1, Zenon
        <4> QED
          BY <3>2, <4>2 DEF Rated
      <3>3. CASE q = k /\ j = Len(allowed[k]) + 1
        <4>1. i \in 1..(Len(allowed[k]) + 1) /\ j - i + 1 = Len(allowed[k]) - i + 2
          BY <2>1, <3>3
        <4>2. allowed'[q][j] = now /\ allowed'[q][i] = Append(allowed[k], now)[i]
          BY <2>4, <2>4a, <3>3, Zenon
        <4> DEFINE cost == Cost(Len(allowed[k]) - i + 2)
                   gain == Gain(now - Append(allowed[k], now)[i])
                   level == Refilled(k)
        <4>3. cost \in Nat /\ gain \in Nat /\ cost + (level - Token) <= Capacity + gain
          BY <2>1, <4>1, AccountGranted
        <4>4. level \in Nat /\ level >= Token /\ Capacity \in Nat /\ Token \in Nat
          BY <2>1
        <4> HIDE DEF cost, gain, level
        <4>5. cost <= Capacity + gain
          BY <4>3, <4>4
        <4> QED
          BY <4>1, <4>2, <4>5, Zenon DEF cost, gain
      <3>4. q = k => j \in 1..Len(allowed[k]) \/ j = Len(allowed[k]) + 1
        <4>1. q = k => j \in 1..(Len(allowed[k]) + 1)
          BY <2>4, Zenon
        <4> QED
          BY <2>1, <4>1
      <3> QED
        BY <3>1, <3>2, <3>3, <3>4, Zenon
    <2> QED
      BY <2>3, <2>6, <2>7, <2>8
  <1>4. CASE UNCHANGED vars
    BY <1>4 DEF vars, TypeOK, Account, Fresh, Rated
  <1> QED
    BY <1>1, <1>2, <1>3, <1>4 DEF Next, Allow

THEOREM Invariance == Spec => []IInv
  BY InitInvariant, NextInvariant, PTL DEF Spec

(* A bucket never holds less than nothing, nor more than its capacity.      *)
THEOREM TypeCorrect == Spec => []TypeOK
  BY Invariance, PTL DEF IInv

LEMMA RatedIsRateBound == Rated => RateBound
  BY DEF Rated, RateBound, Cost, Gain

(* The promise of the limiter, for every rate, burst and clock: over any    *)
(* stretch between two allowed calls of a key, no more are allowed than the *)
(* burst and what the stretch refills (limiter.go:23-43).                   *)
THEOREM RateBoundTheorem == Spec => []RateBound
  BY Invariance, RatedIsRateBound, PTL DEF IInv
-----------------------------------------------------------------------------
(* The other half: what a key does not get, it has used.  A bucket is full, *)
(* or it was full at some allowed call, and since then nothing was lost:    *)
(* what was allowed from that call on and what is left make up the capacity *)
(* and the refill since (limiter.go:31-42).  A refusal costs nothing, and a *)
(* refill that is cut off leaves the bucket full.                           *)
SpentSince(k, i) ==
    tokens[k] + Cost(Len(allowed[k]) - i + 1)
        >= Capacity + Gain(updated[k] - allowed[k][i])

Spent ==
    \A k \in known :
        tokens[k] >= Capacity \/ \E i \in 1..Len(allowed[k]) : SpentSince(k, i)

(* The same of a bucket refilled up to now.                                 *)
LEMMA SpentNow ==
  ASSUME IInv, Spent, NEW k \in Keys
  PROVE  \/ Refilled(k) = Capacity
         \/ \E i \in 1..Len(allowed[k]) :
               /\ k \in known
               /\ Refilled(k) + Cost(Len(allowed[k]) - i + 1)
                     >= Capacity + Gain(now - allowed[k][i])
  <1>1. /\ Capacity \in Nat /\ now \in Nat /\ tokens[k] \in Nat
        /\ updated[k] \in Nat /\ updated[k] <= now /\ now - updated[k] \in Nat
        /\ allowed[k] \in Seq(Nat) /\ Len(allowed[k]) \in Nat
    BY Rates DEF IInv, TypeOK
  <1> DEFINE since == Gain(now - updated[k])
  <1>2. since \in Nat
    BY <1>1, GainOfStretches
  <1>3. Refilled(k) = IF k \notin known \/ tokens[k] + since > Capacity
                        THEN Capacity ELSE tokens[k] + since
    BY DEF Refilled, Gain
  <1> HIDE DEF since
  <1>4. CASE Refilled(k) = Capacity
    BY <1>4
  <1>5. CASE Refilled(k) # Capacity
    <2>1. k \in known /\ Refilled(k) = tokens[k] + since /\ ~(tokens[k] >= Capacity)
      BY <1>1, <1>2, <1>3, <1>5
    <2>2. PICK i \in 1..Len(allowed[k]) : SpentSince(k, i)
      BY <2>1 DEF Spent
    <2> DEFINE past == allowed[k][i]
               last == updated[k]
               before == Gain(last - past)
               cost == Cost(Len(allowed[k]) - i + 1)
    <2>3. past \in Nat /\ past <= last
      BY <1>1, ElementOfSeq DEF IInv, Account
    <2>3a. last \in Nat /\ last <= now
      BY <1>1
    <2>3b. Len(allowed[k]) - i + 1 \in Nat
      BY <1>1
    <2>4. tokens[k] + cost >= Capacity + before
      BY <2>2 DEF SpentSince
    <2> HIDE DEF past, last
    <2>5. /\ last - past \in Nat /\ now - last \in Nat
          /\ now - past = (last - past) + (now - last)
      BY <1>1, <2>3, <2>3a
    <2>6. before \in Nat /\ Gain(now - past) = before + since
      BY <2>5, GainOfStretches DEF since, last
    <2>7. cost \in Nat
      BY <2>3b, CostOfOneMore
    <2> HIDE DEF before, cost
    <2>8. Refilled(k) + cost >= Capacity + Gain(now - past)
      BY <1>1, <1>2, <2>1, <2>4, <2>6, <2>7
    <2> QED
      BY <2>1, <2>8 DEF past, cost
  <1> QED
    BY <1>4, <1>5

LEMMA InitSpent == Init => Spent
  BY DEF Init, Spent

(* A refusal leaves the account as the refill has made it.                  *)
LEMMA RefuseSpent ==
  ASSUME IInv, Spent, NEW k \in Keys, Refuse(k)
  PROVE  Spent'
  <1>1. /\ tokens' = [tokens EXCEPT ![k] = Refilled(k)]
        /\ updated' = [updated EXCEPT ![k] = now]
        /\ known' = known \cup {k} /\ allowed' = allowed
    BY DEF Refuse, Update
  <1>2. tokens \in [Keys -> Nat] /\ updated \in [Keys -> Nat] /\ known \subseteq Keys
    BY DEF IInv, TypeOK
  <1>3. SUFFICES ASSUME NEW q \in known'
                 PROVE  \/ tokens'[q] >= Capacity
                        \/ \E i \in 1..Len(allowed'[q]) :
                              tokens'[q] + Cost(Len(allowed'[q]) - i + 1)
                                  >= Capacity + Gain(updated'[q] - allowed'[q][i])
    BY DEF Spent, SpentSince, Capacity, Cost, Gain
  <1>4. CASE q # k
    <2>1. q \in known /\ tokens'[q] = tokens[q] /\ updated'[q] = updated[q]
      BY <1>1, <1>2, <1>4
    <2> QED
      BY <1>1, <2>1 DEF Spent, SpentSince
  <1>5. CASE q = k
    <2>1. tokens'[q] = Refilled(k) /\ updated'[q] = now
      BY <1>1, <1>2, <1>5
    <2>2. Capacity \in Nat
      BY Rates
    <2>3. CASE Refilled(k) = Capacity
      BY <2>1, <2>2, <2>3
    <2>4. CASE \E i \in 1..Len(allowed[k]) :
                  Refilled(k) + Cost(Len(allowed[k]) - i + 1)
                      >= Capacity + Gain(now - allowed[k][i])
      BY <1>1, <1>5, <2>1, <2>4, Zenon
    <2> QED
      BY <2>3, <2>4, SpentNow
  <1> QED
    BY <1>4, <1>5

(* A call that is allowed adds its cost on one side and takes it off the    *)
(* other; allowed on a full bucket, it is the call to count from.           *)
LEMMA GrantSpent ==
  ASSUME IInv, Spent, NEW k \in Keys, Grant(k)
  PROVE  Spent'
  <1>1. /\ tokens' = [tokens EXCEPT ![k] = Refilled(k) - Token]
        /\ updated' = [updated EXCEPT ![k] = now]
        /\ allowed' = [allowed EXCEPT ![k] = Append(allowed[k], now)]
        /\ known' = known \cup {k} /\ Refilled(k) >= Token
    BY DEF Grant, Update
  <1>2. /\ tokens \in [Keys -> Nat] /\ updated \in [Keys -> Nat] /\ known \subseteq Keys
        /\ allowed \in [Keys -> Seq(Nat)] /\ now \in Nat
        /\ Refilled(k) \in Nat /\ Capacity \in Nat /\ Token \in Nat
    BY Rates, RefilledBounds DEF IInv, TypeOK
  <1>3. /\ Len(allowed[k]) \in Nat
        /\ Len(Append(allowed[k], now)) = Len(allowed[k]) + 1
        /\ Append(allowed[k], now)[Len(allowed[k]) + 1] = now
        /\ \A i \in 1..Len(allowed[k]) : Append(allowed[k], now)[i] = allowed[k][i]
    BY <1>2, Appended
  <1>4. SUFFICES ASSUME NEW q \in known'
                 PROVE  \/ tokens'[q] >= Capacity
                        \/ \E i \in 1..Len(allowed'[q]) :
                              tokens'[q] + Cost(Len(allowed'[q]) - i + 1)
                                  >= Capacity + Gain(updated'[q] - allowed'[q][i])
    BY DEF Spent, SpentSince, Capacity, Cost, Gain
  <1>5. CASE q # k
    <2>1. /\ q \in known /\ tokens'[q] = tokens[q] /\ updated'[q] = updated[q]
          /\ allowed'[q] = allowed[q]
      BY <1>1, <1>2, <1>5
    <2> QED
      BY <2>1, Zenon DEF Spent, SpentSince
  <1>6. CASE q = k
    <2>1. /\ tokens'[q] = Refilled(k) - Token /\ updated'[q] = now
          /\ allowed'[q] = Append(allowed[k], now)
      BY <1>1, <1>2, <1>6
    <2>2. SUFFICES \E i \in 1..(Len(allowed[k]) + 1) :
                      (Refilled(k) - Token) + Cost((Len(allowed[k]) + 1) - i + 1)
                          >= Capacity + Gain(now - Append(allowed[k], now)[i])
      BY <1>3, <2>1, Zenon
    <2>3. CASE Refilled(k) = Capacity
      <3>1. /\ (Len(allowed[k]) + 1) - (Len(allowed[k]) + 1) + 1 = 1 /\ now - now = 0
            /\ Len(allowed[k]) + 1 \in 1..(Len(allowed[k]) + 1)
        BY <1>2, <1>3
      <3>2. Cost(1) = Token /\ Gain(0) = 0
        BY CostOfOneMore, GainOfStretches
      <3>3. (Refilled(k) - Token) + Token >= Capacity + 0
        BY <1>2, <2>3
      <3> QED
        BY <1>3, <3>1, <3>2, <3>3, Zenon
    <2>4. CASE \E i \in 1..Len(allowed[k]) :
                  Refilled(k) + Cost(Len(allowed[k]) - i + 1)
                      >= Capacity + Gain(now - allowed[k][i])
      <3>1. PICK i \in 1..Len(allowed[k]) :
                    Refilled(k) + Cost(Len(allowed[k]) - i + 1)
                        >= Capacity + Gain(now - allowed[k][i])
        BY <2>4
      <3> DEFINE n == Len(allowed[k]) - i + 1
                 gain == Gain(now - allowed[k][i])
                 cost == Cost(n)
                 level == Refilled(k)
      <3>2. /\ n \in Nat /\ (Len(allowed[k]) + 1) - i + 1 = n + 1
            /\ i \in 1..(Len(allowed[k]) + 1)
        BY <1>3
      <3>3. now - allowed[k][i] \in Nat
        <4>1. allowed[k][i] \in Nat /\ allowed[k][i] <= now
          BY AccountNow
        <4> QED
          BY <1>2, <4>1
      <3>4. gain \in Nat
        BY <3>3, GainOfStretches
      <3> HIDE DEF n
      <3>5. cost \in Nat /\ Cost(n + 1) = cost + Token
        BY <3>2, CostOfOneMore
      <3>6. level + cost >= Capacity + gain
        BY <3>1 DEF n
      <3>7. level \in Nat
        BY <1>2
      <3> HIDE DEF gain, cost, level
      <3>8. (level - Token) + (cost + Token) >= Capacity + gain
        BY <1>2, <3>4, <3>5, <3>6, <3>7
      <3> QED
        BY <1>3, <3>2, <3>5, <3>8, Zenon DEF gain, level
    <2> QED
      BY <2>3, <2>4, SpentNow
  <1> QED
    BY <1>5, <1>6

THEOREM NextSpent == IInv /\ Spent /\ [Next]_vars => Spent'
  <1> SUFFICES ASSUME IInv, Spent, [Next]_vars PROVE Spent'
    OBVIOUS
  <1>1. CASE Tick
    BY <1>1 DEF Tick, Spent, SpentSince, Capacity, Cost, Gain
  <1>2. ASSUME NEW k \in Keys, Allow(k) PROVE Spent'
    BY <1>2, RefuseSpent, GrantSpent DEF Allow
  <1>3. CASE UNCHANGED vars
    BY <1>3 DEF vars, Spent, SpentSince, Capacity, Cost, Gain
  <1> QED
    BY <1>1, <1>2, <1>3 DEF Next

(* A call of a key that is refused would have been over the rate of the     *)
(* stretch since the bucket was last full.                                  *)
LEMMA RefusedForRate ==
  ASSUME IInv, Spent, NEW k \in Keys, Refuse(k)
  PROVE  OverRate(k)
  <1>1. /\ Refilled(k) < Token /\ Refilled(k) \in Nat /\ Token \in Nat /\ Token > 0
        /\ Capacity \in Nat /\ Burst \in Nat
    BY Rates, RatesAssumption, RefilledBounds DEF Refuse, IInv
  <1>2. CASE Refilled(k) = Capacity
    <2>1. Burst * Token < Token
      BY <1>1, <1>2 DEF Capacity
    <2>2. Burst = 0
      <3> SUFFICES ASSUME Burst # 0 PROVE FALSE
        OBVIOUS
      <3>1. PICK n \in Nat : Burst = n + 1
        <4>1. Burst - 1 \in Nat /\ Burst = (Burst - 1) + 1
          BY <1>1
        <4> QED
          BY <4>1
      <3>2. Cost(n) \in Nat /\ Cost(n + 1) = Cost(n) + Token
        BY CostOfOneMore
      <3>3. Cost(Burst) < Token
        BY <2>1 DEF Cost
      <3> QED
        BY <1>1, <3>1, <3>2, <3>3
    <2> QED
      BY <2>2 DEF OverRate
  <1>3. CASE \E i \in 1..Len(allowed[k]) :
                Refilled(k) + Cost(Len(allowed[k]) - i + 1)
                    >= Capacity + Gain(now - allowed[k][i])
    <2>1. PICK i \in 1..Len(allowed[k]) :
                  Refilled(k) + Cost(Len(allowed[k]) - i + 1)
                      >= Capacity + Gain(now - allowed[k][i])
      BY <1>3
    <2> DEFINE n == Len(allowed[k]) - i + 1
               gain == Gain(now - allowed[k][i])
               cost == Cost(n)
               level == Refilled(k)
    <2>2. n \in Nat /\ Len(allowed[k]) - i + 2 = n + 1
      <3>1. Len(allowed[k]) \in Nat
        BY LenProperties DEF IInv, TypeOK
      <3> QED
        BY <3>1
    <2>3. gain \in Nat
      <3>1. allowed[k][i] \in Nat /\ allowed[k][i] <= now /\ now \in Nat
        BY AccountNow DEF IInv, TypeOK
      <3>2. now - allowed[k][i] \in Nat
        BY <3>1
      <3> QED
        BY <3>2, GainOfStretches
    <2> HIDE DEF n
    <2>4. cost \in Nat /\ Cost(n + 1) = cost + Token
      BY <2>2, CostOfOneMore
    <2>5. level + cost >= Capacity + gain /\ level \in Nat /\ level < Token
      BY <1>1, <2>1 DEF n
    <2> HIDE DEF gain, cost, level
    <2>6. cost + Token > Capacity + gain
      BY <1>1, <2>3, <2>4, <2>5
    <2>7. Cost(Len(allowed[k]) - i + 2) > Capacity + Gain(now - allowed[k][i])
      BY <2>2, <2>4, <2>6 DEF gain
    <2>8. (Len(allowed[k]) - i + 2) * Token > Capacity + (now - allowed[k][i]) * Refill
      BY <2>7, Zenon DEF Cost, Gain
    <2> QED
      BY <2>8 DEF OverRate
  <1> QED
    BY <1>2, <1>3, SpentNow

(* The limiter refuses nobody without a cause: in every behaviour a call is *)
(* refused only when it would break the promise RateBound over some stretch *)
(* that ends now, for every rate, burst and clock (limiter.go:32-39).       *)
THEOREM RefusedOnlyOverRateTheorem == Spec => RefusedOnlyOverRate
  <1>1. IInv /\ Spent /\ [Next]_vars => [\A k \in Keys : Refuse(k) => OverRate(k)]_vars
    BY RefusedForRate
  <1>2. Spec => [](IInv /\ Spent)
    BY InitInvariant, NextInvariant, InitSpent, NextSpent, PTL DEF Spec
  <1> QED
    BY <1>1, <1>2, PTL DEF Spec, RefusedOnlyOverRate
=============================================================================
