----------------------------- MODULE Dashboard -----------------------------
(***************************************************************************)
(* The dashboard (dashboard/index.ts): run() walks through the uses of a   *)
(* pool, while "Close & recreate pool" ends the pool, which waits for its  *)
(* clients, closes the transport and makes new ones.                       *)
(*                                                                         *)
(* What the statements return and the log are left out.  The pool is       *)
(* external: once it is ending it refuses new requests, serves none that   *)
(* wait, and is over when every client is back.                            *)
(***************************************************************************)
EXTENDS Integers, Sequences

CONSTANTS
    PoolMax,        \* clients of the pool
    MaxMishaps      \* bound: connections lost, creations that throw, clicks on recreate

ASSUME DashAssumption == PoolMax \in Nat

VARIABLES
    step,           \* step of run(), 0: not running, its button enabled
    waits,          \* "no"; "answer" if the step will be answered, "ever" if not
    out,            \* clients checked out by run()
    kept,           \* clients of the pool that failed runs never released
    poolState,      \* "open", "ending", "closed" (the transport closes) or "none"
    mishaps         \* bound

dashVars == <<step, waits, out, kept, poolState, mishaps>>

(* The steps that await: the clients asked of the pool, those released once *)
(* it succeeds, and those that stay checked out when it fails.              *)
Awaits(takes, gives, strands) == [takes |-> takes, gives |-> gives, strands |-> strands]
Steps_Mutant ==
    << Awaits(1, 1, {0}), Awaits(3, 0, 0..2), Awaits(0, 3, {3}),
       Awaits(1, 1, {0}), Awaits(1, 0, {0}), Awaits(0, 0, {1}), Awaits(1, 1, {1}),
       Awaits(0, 0, {}), Awaits(0, 0, {1}),
       Awaits(1, 0, {0}), Awaits(0, 1, {}), Awaits(1, 1, {0}) >>
Steps ==
    << Awaits(1, 1, {0}),       \* a parameterized query
       Awaits(3, 0, 0..2),      \* three clients are connected
       Awaits(0, 3, {3}),       \* and run a transaction each
       Awaits(1, 1, {0}),       \* a prepared statement
       Awaits(1, 0, {0}),       \* the listener is connected,
       Awaits(0, 0, {1}),       \* listens,
       Awaits(1, 1, {1}),       \* pg_notify() by another client,
       Awaits(0, 0, {}),        \* the notification is awaited,
       Awaits(0, 1, {1}),       \* unlisten
       Awaits(1, 0, {0}),       \* the sleeper is connected,
       Awaits(0, 1, {}),        \* sleeps and is cancelled, by timers
       Awaits(1, 1, {0}) >>     \* a large result

Notified == 8

DashInit(open) ==
    /\ step = 0 /\ waits = "no" /\ out = 0 /\ kept = 0
    /\ poolState = IF open THEN "open" ELSE "none"
    /\ mishaps = 0

Mishap == mishaps < MaxMishaps /\ mishaps' = mishaps + 1
-----------------------------------------------------------------------------
(* The catch and finally of run(): what is checked out stays so.            *)
Fails(stranded) ==
    /\ step' = 0 /\ waits' = "no"
    /\ out' = 0 /\ kept' = kept + stranded

(* run() goes on with step k; a pool that is not open rejects, and one with *)
(* no room waits for clients that nobody is left to release.                *)
Enter(k, left) ==
    LET takes == Steps[k].takes IN
    IF k > Len(Steps) THEN step' = 0 /\ waits' = "no" /\ out' = left /\ UNCHANGED kept
    ELSE IF takes > 0 /\ poolState # "open" THEN Fails(left)
    ELSE /\ step' = k /\ UNCHANGED kept
         /\ IF left + kept + takes <= PoolMax
            THEN waits' = "answer" /\ out' = left + takes
            ELSE waits' = "ever" /\ out' = left

Run ==
    /\ step = 0
    /\ Enter(1, 0)
    /\ UNCHANGED <<poolState, mishaps>>

StepDone ==
    /\ waits = "answer"
    /\ Enter(step + 1, out - Steps[step].gives)
    /\ UNCHANGED <<poolState, mishaps>>

(* A connection is lost: the step rejects; but nothing rejects the promise  *)
(* of the notification.                                                     *)
ConnectionDrops ==
    /\ waits = "answer" /\ Mishap
    /\ \/ \E n \in Steps[step].strands : Fails(n)
       \/ step = Notified /\ waits' = "ever" /\ UNCHANGED <<step, out, kept>>
    /\ UNCHANGED poolState
-----------------------------------------------------------------------------
(* "Close & recreate pool"; clicked again before it is done it only throws. *)
Recreate ==
    /\ poolState = "open" /\ Mishap
    /\ poolState' = "ending"
    /\ UNCHANGED <<step, waits, out, kept>>

PoolOver ==
    /\ poolState = "ending" /\ out + kept = 0
    /\ poolState' = "closed"
    /\ UNCHANGED <<step, waits, out, kept, mishaps>>

(* The transport is closed; create() makes the new ones, or throws because  *)
(* of the settings, and leaves the page with the ended pool.                *)
Create ==
    /\ poolState = "closed"
    /\ poolState' = "open"
    /\ UNCHANGED <<step, waits, out, kept, mishaps>>

CreateThrows ==
    /\ poolState = "closed" /\ Mishap
    /\ poolState' = "none"
    /\ UNCHANGED <<step, waits, out, kept>>

DashNext ==
    \/ Run \/ StepDone \/ ConnectionDrops
    \/ Recreate \/ PoolOver \/ Create \/ CreateThrows

(* Statements are answered and timers fire; nobody has to click, and        *)
(* connections need not fail.                                               *)
DashFairness == WF_dashVars(StepDone) /\ WF_dashVars(PoolOver \/ Create)

DashSpec == DashInit(TRUE) /\ [][DashNext]_dashVars /\ DashFairness
-----------------------------------------------------------------------------
(* Every variable keeps its type.                                            *)
DashTypeOK ==
    /\ step \in 0..Len(Steps) /\ waits \in {"no", "answer", "ever"}
    /\ out \in 0..PoolMax /\ kept \in 0..PoolMax
    /\ poolState \in {"open", "ending", "closed", "none"}

(* Both buttons come back, whenever they are clicked: run() ends, and a pool *)
(* that is to be recreated is over in the end.  Only clients that a failed   *)
(* run left checked out, and the notification that never comes, may keep     *)
(* them waiting.                                                             *)
ButtonsComeBack ==
    /\ step # 0 ~> (step = 0 \/ kept > 0 \/ waits = "ever")
    /\ poolState = "ending" ~> (poolState # "ending" \/ kept > 0 \/ waits = "ever")
=============================================================================
