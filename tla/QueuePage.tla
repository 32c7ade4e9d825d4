----------------------------- MODULE QueuePage -----------------------------
(***************************************************************************)
(* The queue example (pgmq/index.ts): a page that lists the messages of    *)
(* the selected queue and archives or deletes one, while other consumers   *)
(* and an interval refresh work on the same queues.                        *)
(*                                                                         *)
(* Ids are counted per queue, so that a message is a queue and an id.  A   *)
(* query has been asked, has run in the database, and is answered, in      *)
(* three steps; the layout of what is rendered is left out.                *)
(***************************************************************************)
EXTENDS Integers, Sequences, FiniteSets

CONSTANTS
    Queues, Ids,
    NoQueue,
    ClickSlots,     \* bound: clicks under way at once
    MaxMoves        \* bound: changed selections, reconnects, queues dropped, queries refused

Messages == Queues \X Ids

VARIABLES
    message,        \* message[m]: where it is in the database
    present,        \* the queues that exist (pgmq.meta)
    ending,         \* connect() waits for the old pool to end
    selected,       \* selectedQueue
    cards,          \* queues that have a card with an Inspect button
    listed,         \* the rendered rows: queue they were read from, dataset.queue, ids
    refreshing,     \* "no", or what refresh() waits for: "reading", "listing"
    gotQueues,      \* the queues refresh() was answered, <<>> before that
    loads,          \* calls of refreshMessages() under way
    clicks,         \* clicks[s]: handleMessageAction() under way
    confirmed,      \* history: confirmed[m]: times the user was told of success
    moves           \* bound

queueVars == <<message, present, ending, selected, cards, listed, refreshing,
               gotQueues, loads, clicks, confirmed, moves>>
databaseVars == <<message, present>>
viewVars == <<selected, cards, listed>>
refreshVars == <<refreshing, gotQueues>>

NoRows == [from |-> NoQueue, queue |-> NoQueue, ids |-> {}]
NoClick == [stage |-> "idle", queue |-> NoQueue, id |-> 0]

QueueInit(open) ==
    /\ message = [m \in Messages |-> IF open THEN "waiting" ELSE "gone"]
    /\ present = IF open THEN Queues ELSE {}
    /\ ending = FALSE
    /\ selected = NoQueue /\ cards = {} /\ listed = NoRows
    /\ refreshing = IF open THEN "reading" ELSE "no"
    /\ gotQueues = <<>>
    /\ loads = {}
    /\ clicks = [s \in ClickSlots |-> NoClick]
    /\ confirmed = [m \in Messages |-> 0]
    /\ moves = IF open THEN 0 ELSE MaxMoves

Move == moves < MaxMoves /\ moves' = moves + 1
-----------------------------------------------------------------------------
(* Another consumer takes a message, or an operator drops a queue.          *)
Consume(m) ==
    /\ message[m] = "waiting"
    /\ message' = [message EXCEPT ![m] = "gone"]
    /\ UNCHANGED <<present, ending, viewVars, refreshVars, loads, clicks, confirmed, moves>>

DropQueue(q) ==
    /\ q \in present /\ Move
    /\ present' = present \ {q}
    /\ message' = [m \in Messages |-> IF m[1] = q THEN "gone" ELSE message[m]]
    /\ UNCHANGED <<ending, viewVars, refreshVars, loads, clicks, confirmed>>
-----------------------------------------------------------------------------
(* refresh(), by the button, the interval, connect() or after an action;    *)
(* one at a time.                                                           *)
RefreshStarts ==
    IF refreshing = "no"
    THEN refreshing' = "reading" /\ gotQueues' = <<>>
    ELSE UNCHANGED refreshVars

(* The finally of refresh(); the click that started it enables its button.  *)
RefreshEnds ==
    /\ refreshing' = "no" /\ gotQueues' = <<>>
    /\ clicks' = [s \in ClickSlots |->
           IF clicks[s].stage = "refreshing" THEN NoClick ELSE clicks[s]]

Interval ==
    /\ refreshing = "no" /\ ~ending
    /\ present # {} \/ cards # {}
    /\ RefreshStarts
    /\ UNCHANGED <<databaseVars, ending, viewVars, loads, clicks, confirmed, moves>>

(* The three queries of refresh() run.                                      *)
ReadQueues ==
    /\ refreshing = "reading" /\ gotQueues = <<>>
    /\ gotQueues' = <<present>>
    /\ UNCHANGED <<databaseVars, ending, viewVars, refreshing, loads, clicks, confirmed, moves>>

(* The answers are there: cards, counts and archive are rendered, a         *)
(* selection that is gone is dropped, and the list is read.                 *)
RefreshRenders ==
    /\ refreshing = "reading"
    /\ gotQueues # <<>>
    /\ selected' = IF selected \in gotQueues[1] THEN selected ELSE NoQueue
    /\ cards' = gotQueues[1]
    /\ IF selected' = NoQueue
       THEN listed' = NoRows /\ UNCHANGED loads /\ RefreshEnds
       ELSE /\ UNCHANGED listed
            /\ IF ending THEN UNCHANGED loads /\ RefreshEnds
               ELSE /\ loads' = loads \cup {[queue |-> selected', by |-> "refresh", got |-> <<>>]}
                    /\ refreshing' = "listing"
                    /\ UNCHANGED <<gotQueues, clicks>>
    /\ UNCHANGED <<databaseVars, ending, confirmed, moves>>

(* The queries reject; without the finally no refresh would ever run again.  *)
RefreshFails_Mutant ==
    /\ refreshing = "reading" /\ Move
    /\ refreshing' = "listing"
    /\ UNCHANGED <<databaseVars, ending, viewVars, gotQueues, clicks, loads, confirmed>>
RefreshFails ==
    /\ refreshing = "reading" /\ Move
    /\ RefreshEnds
    /\ UNCHANGED <<databaseVars, ending, viewVars, loads, confirmed>>

(* A click on a card.                                                       *)
Select(q) ==
    /\ q \in cards
    /\ IF selected = NoQueue THEN UNCHANGED moves ELSE Move
    /\ selected' = q
    /\ loads' = IF ending THEN loads
                ELSE loads \cup {[queue |-> q, by |-> "click", got |-> <<>>]}
    /\ UNCHANGED <<databaseVars, ending, cards, listed, refreshVars, clicks, confirmed>>

(* demo_pgmq_messages() runs; it raises when the queue is gone.             *)
LoadRuns(l) ==
    /\ l.got = <<>>
    /\ IF l.queue \in present
       THEN /\ loads' = (loads \ {l}) \cup
                   {[l EXCEPT !.got = <<{i \in Ids : message[<<l.queue, i>>] = "waiting"}>>]}
            /\ UNCHANGED <<refreshVars, clicks>>
       ELSE /\ loads' = loads \ {l}
            /\ IF l.by = "refresh" THEN RefreshEnds ELSE UNCHANGED <<refreshVars, clicks>>
    /\ UNCHANGED <<databaseVars, ending, viewVars, confirmed, moves>>

(* Its answer is rendered if its queue is still the selected one.           *)
LoadShown_Mutant(l) ==
    /\ l.got # <<>>
    /\ loads' = loads \ {l}
    /\ listed' = [from |-> l.queue, queue |-> selected, ids |-> l.got[1]]
    /\ IF l.by = "refresh" THEN RefreshEnds ELSE UNCHANGED <<refreshVars, clicks>>
    /\ UNCHANGED <<databaseVars, ending, selected, cards, confirmed, moves>>
LoadShown(l) ==
    /\ l.got # <<>>
    /\ loads' = loads \ {l}
    /\ listed' = IF selected = l.queue
                 THEN [from |-> l.queue, queue |-> selected, ids |-> l.got[1]]
                 ELSE listed
    /\ IF l.by = "refresh" THEN RefreshEnds ELSE UNCHANGED <<refreshVars, clicks>>
    /\ UNCHANGED <<databaseVars, ending, selected, cards, confirmed, moves>>
-----------------------------------------------------------------------------
(* Archive or Delete of a row is clicked.  The button is disabled for the   *)
(* while, but a row has two, and new ones after the next rendering.         *)
Press(s, i) ==
    /\ \A t \in ClickSlots : clicks[t].stage = "idle" => s <= t
    /\ clicks[s].stage = "idle" /\ i \in listed.ids /\ ~ending
    /\ clicks' = [clicks EXCEPT ![s] = [stage |-> "asked", queue |-> listed.queue, id |-> i]]
    /\ UNCHANGED <<databaseVars, ending, viewVars, refreshVars, loads, confirmed, moves>>

(* The helper runs and answers whether it changed anything.  A change is    *)
(* told and refresh() awaited, which returns at once when one is under way. *)
(* "Message no longer exists.", or the error of a queue that is gone, is    *)
(* shown and nothing is refreshed.                                          *)
ActionDone_Mutant(s) ==
    /\ clicks[s].stage = "asked"
    /\ LET m == <<clicks[s].queue, clicks[s].id>>
       IN  /\ message' = [message EXCEPT ![m] =
                  IF @ = "waiting" THEN "taken" ELSE @]
           /\ confirmed' = [confirmed EXCEPT ![m] = @ + 1]
    /\ clicks' = [clicks EXCEPT ![s] = NoClick]
    /\ UNCHANGED <<present, ending, viewVars, refreshVars, loads, moves>>
ActionDone(s) ==
    /\ clicks[s].stage = "asked"
    /\ LET m == <<clicks[s].queue, clicks[s].id>>
       IN  /\ message[m] = "waiting"
           /\ message' = [message EXCEPT ![m] = "taken"]
           /\ confirmed' = [confirmed EXCEPT ![m] = @ + 1]
    /\ IF refreshing = "no" /\ ~ending
       THEN RefreshStarts /\ clicks' = [clicks EXCEPT ![s].stage = "refreshing"]
       ELSE UNCHANGED refreshVars /\ clicks' = [clicks EXCEPT ![s] = NoClick]
    /\ UNCHANGED <<present, ending, viewVars, loads, moves>>

ActionMissing(s) ==
    /\ clicks[s].stage = "asked"
    /\ message[<<clicks[s].queue, clicks[s].id>>] # "waiting"
    /\ clicks' = [clicks EXCEPT ![s] = NoClick]
    /\ UNCHANGED <<databaseVars, ending, viewVars, refreshVars, loads, confirmed, moves>>
-----------------------------------------------------------------------------
(* The connection form: connect() ends the pool, which refuses new queries  *)
(* and waits for those under way, and then opens another and refreshes.     *)
Reconnect ==
    /\ ~ending /\ Move
    /\ ending' = TRUE
    /\ UNCHANGED <<databaseVars, viewVars, refreshVars, loads, clicks, confirmed>>

PoolEnds ==
    /\ ending
    /\ \A s \in ClickSlots : clicks[s].stage # "asked"
    /\ \A l \in loads : l.got # <<>>
    /\ refreshing = "reading" => gotQueues # <<>>
    /\ ending' = FALSE
    /\ RefreshStarts
    /\ UNCHANGED <<databaseVars, viewVars, loads, clicks, confirmed, moves>>

PageWork ==
    \/ Interval \/ ReadQueues \/ RefreshRenders \/ PoolEnds
    \/ \E l \in loads : LoadRuns(l) \/ LoadShown(l)
    \/ \E s \in ClickSlots : ActionDone(s) \/ ActionMissing(s)

QueueNext ==
    \/ \E m \in Messages : Consume(m)
    \/ \E q \in Queues : DropQueue(q) \/ Select(q)
    \/ \E s \in ClickSlots, i \in Ids : Press(s, i)
    \/ RefreshFails \/ Reconnect
    \/ PageWork

(* Queries are answered and the interval goes on, its box being checked.    *)
QueueFairness ==
    /\ WF_queueVars(Interval) /\ WF_queueVars(ReadQueues)
    /\ WF_queueVars(RefreshRenders) /\ WF_queueVars(PoolEnds)
    /\ WF_queueVars(\E l \in loads : l.by = "refresh" /\ (LoadRuns(l) \/ LoadShown(l)))
    /\ WF_queueVars(\E l \in loads : l.by = "click" /\ (LoadRuns(l) \/ LoadShown(l)))
    /\ \A s \in ClickSlots : WF_queueVars(ActionDone(s) \/ ActionMissing(s))

QueueSpec == QueueInit(TRUE) /\ [][QueueNext]_queueVars /\ QueueFairness
-----------------------------------------------------------------------------
(* Every variable keeps its type.                                            *)
QueueTypeOK ==
    /\ message \in [Messages -> {"waiting", "taken", "gone"}]
    /\ present \in SUBSET Queues /\ cards \in SUBSET Queues
    /\ ending \in BOOLEAN
    /\ selected \in Queues \cup {NoQueue}
    /\ listed \in [from : Queues \cup {NoQueue}, queue : Queues \cup {NoQueue}, ids : SUBSET Ids]
    /\ refreshing \in {"no", "reading", "listing"}
    /\ \A l \in loads : l.queue \in Queues /\ l.by \in {"refresh", "click"}
    /\ \A s \in ClickSlots :
           clicks[s].stage \in {"idle", "asked", "refreshing"}

(* The buttons of a row act on the queue the row was read from, however     *)
(* often the selection changes while a list is being read: ids repeat from  *)
(* queue to queue.                                                          *)
RowsNameTheirQueue == listed.from = listed.queue

(* A message is told archived or deleted at most once, and only if it was:   *)
(* double clicks, re-rendered buttons and other consumers notwithstanding.   *)
ToldOnce ==
    \A m \in Messages :
        confirmed[m] > 0 => confirmed[m] = 1 /\ (message[m] = "taken" \/ m[1] \notin present)

(* A row whose message was taken goes away by itself, although the refresh   *)
(* after an action may be skipped and lists may be read in any order.        *)
RowsFade ==
    \A m \in Messages :
        (listed.queue = m[1] /\ m[2] \in listed.ids /\ message[m] # "waiting")
            ~> ~(listed.queue = m[1] /\ m[2] \in listed.ids)
=============================================================================
