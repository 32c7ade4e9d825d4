------------------------------ MODULE Cursors ------------------------------
(***************************************************************************)
(* The shared cursors (cursors/index.ts): every open tab publishes its     *)
(* cursor with NOTIFY on one channel and shows the cursors it hears of.    *)
(*                                                                         *)
(* A message is its sender and whether it says "leave": the other kinds    *)
(* are handled alike.  Positions, names and the looks of a cursor are left *)
(* out, with the numbers that keep late echoes from moving it back; and so *)
(* is time: timers may fire at any moment, and a cursor is stale once      *)
(* nothing can be heard of it.                                             *)
(***************************************************************************)
EXTENDS Integers, Sequences, FiniteSets

CONSTANTS
    Tabs,           \* browser tabs; a tab that left does not come back
    MaxInbox,       \* bound: notifications on their way to a tab
    MaxTroubles     \* bound: lost listeners, failed publishes and setups, reconnects of a live tab

VARIABLES
    phase,          \* phase[t]: "none", "opening", "live", "broken", "ending" or, left, "gone"
    pending,        \* pendingKind: "no", "alive" or "leave"
    timer,          \* publishTimer is set
    publishing,     \* a publish is under way
    flying,         \* flying[t]: messages of t the database has not run yet
    late,           \* late[t]: messages of t whose query rejected, and which may yet run
    cursorInbox,    \* cursorInbox[t]: notifications for t, oldest first
    participants,   \* participants[t]: whom t shows
    left,           \* history: left[t]: tabs whose leave t has received
    strayed,        \* history: tabs of which a message ran after its query rejected
    troubles        \* bound

publishVars == <<pending, timer, publishing, flying>>
lateVars == <<late, strayed>>
showVars == <<participants, left>>
cursorVars == <<phase, publishVars, lateVars, cursorInbox, showVars, troubles>>

CursorInit(open) ==
    /\ phase = [t \in Tabs |-> IF open THEN "none" ELSE "gone"]
    /\ pending = [t \in Tabs |-> "no"]
    /\ timer = [t \in Tabs |-> FALSE]
    /\ publishing = [t \in Tabs |-> FALSE]
    /\ flying = [t \in Tabs |-> {}] /\ late = [t \in Tabs |-> {}] /\ strayed = {}
    /\ cursorInbox = [t \in Tabs |-> <<>>]
    /\ participants = [t \in Tabs |-> IF open THEN {t} ELSE {}]
    /\ left = [t \in Tabs |-> {}]
    /\ troubles = 0

Open(t) == phase[t] # "gone"
HasPool(t) == phase[t] \in {"opening", "live", "broken"}
PoolSet(t) == HasPool(t) \/ phase[t] = "ending"
Trouble == troubles < MaxTroubles /\ troubles' = troubles + 1
-----------------------------------------------------------------------------
(* queuePublish(): remembers the kind and arms the timer; while a publish   *)
(* is under way its finally does so.                                        *)
QueuePublish(t, kind, busy) ==
    /\ pending' = [pending EXCEPT ![t] = kind]
    /\ timer' = [timer EXCEPT ![t] = @ \/ (PoolSet(t) /\ ~busy)]

(* A pointer move, another name, or the heartbeat's interval.               *)
Heartbeat(t) ==
    /\ Open(t)
    /\ QueuePublish(t, "alive", publishing[t])
    /\ UNCHANGED <<phase, publishing, flying, lateVars, cursorInbox, showVars, troubles>>

(* flushPublish() up to its await: one publish at a time.  A pool that is   *)
(* ending rejects the query at once, so that the kind is lost.              *)
Publish(t, kind) ==
    /\ pending' = [pending EXCEPT ![t] = "no"]
    /\ IF HasPool(t)
       THEN /\ publishing' = [publishing EXCEPT ![t] = TRUE]
            /\ flying' = [flying EXCEPT ![t] = @ \cup {[from |-> t, kind |-> kind]}]
       ELSE UNCHANGED <<publishing, flying>>
FlushPublish_Mutant(t, kind) ==
    IF PoolSet(t) /\ kind # "no"
    THEN Publish(t, kind)
    ELSE pending' = [pending EXCEPT ![t] = kind] /\ UNCHANGED <<publishing, flying>>
FlushPublish(t, kind) ==
    IF PoolSet(t) /\ kind # "no" /\ ~publishing[t]
    THEN Publish(t, kind)
    ELSE pending' = [pending EXCEPT ![t] = kind] /\ UNCHANGED <<publishing, flying>>

TimerFires(t) ==
    /\ Open(t) /\ timer[t]
    /\ timer' = [timer EXCEPT ![t] = FALSE]
    /\ FlushPublish(t, pending[t])
    /\ UNCHANGED <<phase, lateVars, cursorInbox, showVars, troubles>>

(* The finally of flushPublish(), if the tab is still there.                *)
PublishEnds(t) ==
    /\ publishing' = [publishing EXCEPT ![t] = FALSE]
    /\ IF Open(t) /\ pending[t] # "no"
       THEN QueuePublish(t, pending[t], FALSE)
       ELSE UNCHANGED <<pending, timer>>

(* pg_notify() runs: every session that listens is sent the message, the    *)
(* sender's own one too.                                                    *)
Broadcast(m) ==
    /\ \A u \in Tabs : Len(cursorInbox[u]) < MaxInbox
    /\ cursorInbox' = [u \in Tabs |->
           IF phase[u] = "live" THEN Append(cursorInbox[u], m) ELSE cursorInbox[u]]

NotifyRuns(t, m) ==
    /\ m \in flying[t] /\ Broadcast(m)
    /\ flying' = [flying EXCEPT ![t] = @ \ {m}]
    /\ PublishEnds(t)
    /\ UNCHANGED <<phase, lateVars, showVars, troubles>>

(* The query rejects, or dies with its tab.  When its connection was lost,  *)
(* the database may still have it before it, and run it at any later time.  *)
PublishFails_Mutant(t, m) ==
    /\ m \in flying[t] /\ Trouble
    /\ flying' = [flying EXCEPT ![t] = @ \ {m}]
    /\ UNCHANGED <<phase, pending, timer, publishing, lateVars, cursorInbox, showVars>>
PublishFails(t, m) ==
    /\ m \in flying[t] /\ Trouble
    /\ flying' = [flying EXCEPT ![t] = @ \ {m}]
    /\ \/ UNCHANGED late
       \/ late' = [late EXCEPT ![t] = @ \cup {m}]
    /\ PublishEnds(t)
    /\ UNCHANGED <<phase, strayed, cursorInbox, showVars>>

LateRuns(t, m) ==
    /\ m \in late[t] /\ Broadcast(m)
    /\ late' = [late EXCEPT ![t] = @ \ {m}]
    /\ strayed' = strayed \cup {t}
    /\ UNCHANGED <<phase, publishVars, showVars, troubles>>
-----------------------------------------------------------------------------
(* receive(), with renderParticipant() and removeParticipant(): the own     *)
(* cursor is never removed, and a newcomer is answered with a heartbeat.    *)
Receive(t) ==
    /\ Open(t) /\ cursorInbox[t] # <<>>
    /\ cursorInbox' = [cursorInbox EXCEPT ![t] = Tail(@)]
    /\ LET m == Head(cursorInbox[t])
       IN  IF m.kind = "leave"
           THEN /\ participants' = [participants EXCEPT ![t] = @ \ ({m.from} \ {t})]
                /\ left' = [left EXCEPT ![t] = @ \cup {m.from}]
                /\ UNCHANGED <<pending, timer>>
           ELSE /\ participants' = [participants EXCEPT ![t] = @ \cup {m.from}]
                /\ IF m.from \in participants[t] THEN UNCHANGED <<pending, timer>>
                   ELSE QueuePublish(t, "alive", publishing[t])
                /\ UNCHANGED left
    /\ UNCHANGED <<phase, publishing, flying, lateVars, troubles>>

(* The sweep of cursors not heard of for 24 s, three heartbeats: those of   *)
(* tabs that left or have no pool to publish with, and all others once t    *)
(* does not listen.                                                         *)
Sweep(t, p) ==
    /\ Open(t) /\ p \in participants[t] \ {t}
    /\ phase[p] \in {"gone", "none", "ending"} \/ phase[t] # "live"
    /\ flying[p] = {}
    /\ \A i \in DOMAIN cursorInbox[t] : cursorInbox[t][i].from # p
    /\ participants' = [participants EXCEPT ![t] = @ \ {p}]
    /\ UNCHANGED <<phase, publishVars, lateVars, cursorInbox, left, troubles>>
-----------------------------------------------------------------------------
(* connect(): disconnect() drops the listener and what is pending.  The old *)
(* pool stays set while its end() waits for a publish under way; then the   *)
(* new one takes its place.  Overlapping calls are left out.                *)
Connect(t) ==
    /\ \/ phase[t] = "live" /\ Trouble
       \/ phase[t] = "broken" /\ UNCHANGED troubles
    /\ phase' = [phase EXCEPT ![t] = "ending"]
    /\ pending' = [pending EXCEPT ![t] = "no"]
    /\ timer' = [timer EXCEPT ![t] = FALSE]
    /\ cursorInbox' = [cursorInbox EXCEPT ![t] = <<>>]
    /\ UNCHANGED <<publishing, flying, lateVars, showVars>>

PoolOpens(t) ==
    /\ phase[t] \in {"none", "ending"} /\ flying[t] = {}
    /\ phase' = [phase EXCEPT ![t] = "opening"]
    /\ UNCHANGED <<publishVars, lateVars, cursorInbox, showVars, troubles>>

Listens(t) ==
    /\ phase[t] = "opening"
    /\ phase' = [phase EXCEPT ![t] = "live"]
    /\ QueuePublish(t, "alive", publishing[t])
    /\ UNCHANGED <<publishing, flying, lateVars, cursorInbox, showVars, troubles>>

(* The setup fails, or the listener reports an error: the page says so and  *)
(* waits for the user.                                                      *)
ListenerLost(t) ==
    /\ phase[t] \in {"opening", "live"} /\ Trouble
    /\ phase' = [phase EXCEPT ![t] = "broken"]
    /\ cursorInbox' = [cursorInbox EXCEPT ![t] = <<>>]
    /\ UNCHANGED <<publishVars, lateVars, showVars>>

(* pagehide: the leave is sent if no publish is under way, and the tab goes *)
(* before it is answered.                                                   *)
PageHide(t) ==
    /\ Open(t)
    /\ FlushPublish(t, "leave")
    /\ phase' = [phase EXCEPT ![t] = "gone"]
    /\ timer' = [timer EXCEPT ![t] = FALSE]
    /\ cursorInbox' = [cursorInbox EXCEPT ![t] = <<>>]
    /\ participants' = [participants EXCEPT ![t] = {}]
    /\ UNCHANGED <<lateVars, left, troubles>>

TabStep(t) ==
    \/ TimerFires(t)
    \/ \E m \in flying[t] : NotifyRuns(t, m)
    \/ Receive(t)
    \/ \E p \in Tabs : Sweep(t, p)
    \/ PoolOpens(t) \/ Listens(t)

CursorNext ==
    \E t \in Tabs :
        \/ Heartbeat(t) \/ TabStep(t)
        \/ \E m \in flying[t] : PublishFails(t, m)
        \/ \E m \in late[t] : LateRuns(t, m)
        \/ Connect(t) \/ ListenerLost(t) \/ PageHide(t)

(* The interval goes on, timers fire and queries are answered.  Each kind   *)
(* of step is fair by itself, as a heartbeat can always be queued; only the *)
(* bound on the inbox disables NotifyRuns, hence SF.  A query that rejected *)
(* need never run.                                                          *)
CursorFairness ==
    \A t \in Tabs :
        /\ WF_cursorVars(Heartbeat(t)) /\ WF_cursorVars(TimerFires(t))
        /\ SF_cursorVars(\E m \in flying[t] : NotifyRuns(t, m))
        /\ WF_cursorVars(Receive(t))
        /\ WF_cursorVars(\E p \in Tabs : Sweep(t, p))
        /\ WF_cursorVars(PoolOpens(t) \/ Listens(t))

CursorSpec == CursorInit(TRUE) /\ [][CursorNext]_cursorVars /\ CursorFairness
-----------------------------------------------------------------------------
(* Every variable keeps its type.                                            *)
CursorTypeOK ==
    /\ phase \in [Tabs -> {"none", "opening", "live", "broken", "ending", "gone"}]
    /\ pending \in [Tabs -> {"no", "alive", "leave"}]
    /\ timer \in [Tabs -> BOOLEAN] /\ publishing \in [Tabs -> BOOLEAN]
    /\ participants \in [Tabs -> SUBSET Tabs] /\ left \in [Tabs -> SUBSET Tabs]
    /\ strayed \subseteq Tabs
    /\ \A t \in Tabs : \A m \in flying[t] \cup late[t] :
           m.from = t /\ m.kind \in {"alive", "leave"}

(* A tab whose leave was received is shown again only if a publish of it ran *)
(* after its query had rejected: otherwise its last state is not overtaken   *)
(* by the leave, whichever pool connections they take.                       *)
AfterLeaveGone ==
    \A t \in Tabs : \A p \in left[t] \ {t} : p \in participants[t] => p \in strayed

(* Presence converges.  A tab that left disappears everywhere, even if its   *)
(* leave was lost; and two tabs that stay connected come to show each other, *)
(* whoever was first.                                                        *)
PresenceConverges ==
    \A t \in Tabs : \A p \in Tabs \ {t} :
        /\ phase[p] = "gone" ~> (p \notin participants[t] \/ ~Open(t))
        /\ (phase[t] = "live" /\ HasPool(p))
               ~> (p \in participants[t] \/ phase[t] # "live" \/ ~HasPool(p))
=============================================================================
