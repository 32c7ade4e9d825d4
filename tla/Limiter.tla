------------------------------ MODULE Limiter ------------------------------
(***************************************************************************)
(* The token bucket of gateway/internal/session/limiter.go, which bounds   *)
(* how often one origin and address may open a session.                    *)
(*                                                                         *)
(* The code counts in fractions of a token (float64) and of a second.      *)
(* Here a token is Token units and a tick of the clock refills Refill      *)
(* units: with a tick of one second, 60 and RatePerMinute.  Rounding of    *)
(* float64 is left out.  A call of Allow is one action: it holds the mutex *)
(* from before it reads the clock.                                         *)
(***************************************************************************)
EXTENDS Integers, Sequences

CONSTANTS
    Keys,       \* origin and address, together
    Burst,      \* tokens a bucket holds
    Token,      \* units in a token
    Refill,     \* units per tick
    MaxTime     \* bound: ticks of the clock

ASSUME RatesAssumption == {Burst, Token, Refill, MaxTime} \subseteq Nat /\ Token > 0

VARIABLES
    now,        \* the clock
    known,      \* the keys in l.buckets
    tokens,     \* bucket.tokens, in units
    updated,    \* bucket.updated
    allowed     \* history: when each key was allowed

vars == <<now, known, tokens, updated, allowed>>

Capacity == Burst * Token

Init ==
    /\ now = 0
    /\ known = {}
    /\ tokens = [k \in Keys |-> 0]
    /\ updated = [k \in Keys |-> 0]
    /\ allowed = [k \in Keys |-> <<>>]

(* The bucket of a key, refilled up to now; a new one is full.             *)
Refilled_Mutant(k) ==
    IF k \in known THEN tokens[k] + (now - updated[k]) * Refill ELSE Capacity
Refilled_LateMutant(k) ==
    IF k \in known THEN tokens[k] ELSE Capacity
Refilled(k) ==
    LET level == tokens[k] + (now - updated[k]) * Refill
    IN  IF k \notin known \/ level > Capacity THEN Capacity ELSE level

Update(k, level) ==
    /\ known' = known \cup {k}
    /\ tokens' = [tokens EXCEPT ![k] = level]
    /\ updated' = [updated EXCEPT ![k] = now]
    /\ UNCHANGED now

Grant(k) ==
    /\ Refilled(k) >= Token
    /\ Update(k, Refilled(k) - Token)
    /\ allowed' = [allowed EXCEPT ![k] = Append(@, now)]

Refuse(k) ==
    /\ Refilled(k) < Token
    /\ Update(k, Refilled(k))
    /\ UNCHANGED allowed

Allow(k) == Grant(k) \/ Refuse(k)

Tick ==
    /\ now < MaxTime
    /\ now' = now + 1
    /\ UNCHANGED <<known, tokens, updated, allowed>>

Next == Tick \/ \E k \in Keys : Allow(k)

Spec == Init /\ [][Next]_vars
-----------------------------------------------------------------------------
(* Every variable keeps its type; a bucket never holds more than its        *)
(* capacity nor less than nothing.                                          *)
TypeOK ==
    /\ now \in Nat
    /\ known \in SUBSET Keys
    /\ tokens \in [Keys -> Nat]
    /\ \A k \in Keys : tokens[k] <= Capacity
    /\ updated \in [Keys -> Nat]
    /\ \A k \in Keys : updated[k] <= now
    /\ allowed \in [Keys -> Seq(Nat)]

(* Over any stretch of time, a key is allowed at most Burst times plus what *)
(* the stretch refills: the promise of a token bucket, over every pair of   *)
(* allowed calls (limiter.go:23-43).                                        *)
RateBound ==
    \A k \in Keys : \A j \in 1..Len(allowed[k]) : \A i \in 1..j :
        (j - i + 1) * Token <= Capacity + (allowed[k][j] - allowed[k][i]) * Refill

(* One more call of k, now, would be over the rate of some stretch.         *)
OverRate(k) ==
    \/ Burst = 0
    \/ \E i \in 1..Len(allowed[k]) :
          (Len(allowed[k]) - i + 2) * Token
              > Capacity + (now - allowed[k][i]) * Refill

(* A call is refused only for that reason: refusals themselves cost         *)
(* nothing, and nothing a key did not use is lost (limiter.go:32-39).       *)
RefusedOnlyOverRate == [][\A k \in Keys : Refuse(k) => OverRate(k)]_vars
=============================================================================
