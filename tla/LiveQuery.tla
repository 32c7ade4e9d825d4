----------------------------- MODULE LiveQuery -----------------------------
(***************************************************************************)
(* The live queries of the React examples (shared/react-pg.tsx): one       *)
(* notification hub keeps a pool client that LISTENs, and every notice     *)
(* makes the queries that watch its channel read their tables again.       *)
(*                                                                         *)
(* Commits are numbered; a read sees all commits up to its snapshot, so    *)
(* that the rows a query shows are the number of that snapshot.  Pool and  *)
(* database are external.  Timers may fire at any time.                    *)
(***************************************************************************)
EXTENDS Integers, FiniteSets

CONSTANTS
    Channels,       \* the channels the hub LISTENs on
    Queries,        \* the live queries of the page
    Watches,        \* Watches[q]: the channels that invalidate q
    Clients,        \* identities of pool clients, used again once at rest
    NoClient,
    MaxCommits,     \* bound: commits of the database
    MaxFaults,      \* bound: connections lost and setups refused
    MaxReads        \* bound: reads of one query under way

ASSUME NoClientAssumption == NoClient \notin Clients

VARIABLES
    commits,        \* commits of the database so far
    held,           \* pool clients checked out by the hub
    down,           \* held clients whose connection is lost
    deaths,         \* deaths[c]: error and end events still to be emitted
    listens,        \* listens[c]: channels the session of c LISTENs on
    inbox,          \* inbox[c]: notices on their way, <<channel, commit>>
    hubClient,      \* this.client
    starting,       \* this.starting: "no", "pool" or "listen" (where connect() is)
    own,            \* the client connect() is setting up
    retry,          \* this.retry is set
    keepalive,      \* this.keepalive runs
    closed,         \* this.closed; the provider has been unmounted
    closing,        \* the client that close() is about to release
    ahead,          \* a LISTEN is queued before the UNLISTEN of close()
    told,           \* told[q]: newest commit of the debounce timer, 0: no timer
    asked,          \* asked[q]: reads the database has not run yet
    answers,        \* answers[q]: snapshots read and not yet applied
    shown,          \* shown[q]: snapshot of the rows on the page
    failed,         \* failed[q]: the query shows an error
    faults          \* faults so far

hubVars == <<hubClient, starting, own, retry, keepalive, closed, closing, ahead>>
wireVars == <<held, down, deaths, listens, inbox>>
queryVars == <<told, asked, answers, shown, failed>>
liveVars == <<commits, faults, hubVars, wireVars, queryVars>>

(* A page that is open has mounted its queries and started its hub; one    *)
(* that is not looks like one that was left before anything happened.      *)
LiveInit(open) ==
    /\ commits = 0 /\ faults = 0
    /\ held = {} /\ down = {}
    /\ deaths = [c \in Clients |-> {}]
    /\ listens = [c \in Clients |-> {}]
    /\ inbox = [c \in Clients |-> {}]
    /\ hubClient = NoClient /\ own = NoClient /\ closing = NoClient
    /\ starting = IF open THEN "pool" ELSE "no"
    /\ closed = ~open
    /\ retry = FALSE /\ keepalive = FALSE /\ ahead = FALSE
    /\ told = [q \in Queries |-> 0]
    /\ asked = [q \in Queries |-> IF open THEN 1 ELSE 0]
    /\ answers = [q \in Queries |-> {}]
    /\ shown = [q \in Queries |-> 0]
    /\ failed = [q \in Queries |-> FALSE]
-----------------------------------------------------------------------------
(* Another session commits: the trigger notifies the listening sessions.   *)
CommitRow(ch) ==
    /\ commits < MaxCommits /\ ~closed
    /\ commits' = commits + 1
    /\ inbox' = [c \in Clients |->
           IF ch \in listens[c] THEN inbox[c] \cup {<<ch, commits'>>} ELSE inbox[c]]
    /\ UNCHANGED <<faults, hubVars, queryVars, held, down, deaths, listens>>

(* pool.connect() resolves.                                                *)
PoolGives(c) ==
    /\ starting = "pool"
    /\ c \notin held /\ deaths[c] = {}
    /\ IF closed
       THEN /\ starting' = "no"
            /\ UNCHANGED <<held, hubClient, own>>
       ELSE /\ starting' = "listen"
            /\ held' = held \cup {c} /\ hubClient' = c /\ own' = c
    /\ UNCHANGED <<commits, faults, queryVars, down, deaths, listens, inbox,
                   retry, keepalive, closed, closing, ahead>>

(* LISTEN of one channel succeeds; after the last one the keepalive starts *)
(* and connect() returns.                                                  *)
ListenDone(ch) ==
    /\ starting = "listen"
    /\ own \in held \ down
    /\ ch \notin listens[own]
    /\ listens' = [listens EXCEPT ![own] = @ \cup {ch}]
    /\ ahead' = FALSE
    /\ IF listens'[own] = Channels
       THEN starting' = "no" /\ own' = NoClient /\ keepalive' = TRUE
       ELSE UNCHANGED <<starting, own, keepalive>>
    /\ UNCHANGED <<commits, faults, queryVars, held, down, deaths, inbox,
                   hubClient, retry, closed, closing>>

(* The pool takes the client back; with an error, or once the pool has     *)
(* ended, its connection goes.                                             *)
Release(c) ==
    /\ held' = held \ {c}
    /\ down' = down \ {c}
    /\ listens' = [listens EXCEPT ![c] = {}]
    /\ inbox' = [inbox EXCEPT ![c] = {}]

(* pool.connect() or a LISTEN rejects: the catch branch of connect().      *)
ConnectFails ==
    /\ \/ starting = "pool" /\ faults < MaxFaults /\ faults' = faults + 1
       \/ starting = "listen" /\ own \in down \cup (Clients \ held) /\ UNCHANGED faults
    /\ starting' = "no" /\ own' = NoClient
    /\ hubClient' = NoClient
    /\ IF hubClient = NoClient
       THEN UNCHANGED <<held, down, listens, inbox>>
       ELSE Release(hubClient)
    /\ retry' = ~closed
    /\ ahead' = FALSE
    /\ UNCHANGED <<commits, queryVars, deaths, keepalive, closed, closing>>

RetryFires ==
    /\ retry
    /\ retry' = FALSE
    /\ starting' = IF hubClient = NoClient /\ starting = "no" THEN "pool" ELSE starting
    /\ UNCHANGED <<commits, faults, wireVars, queryVars, hubClient, own, keepalive,
                   closed, closing, ahead>>
-----------------------------------------------------------------------------
(* The connection of a held client is lost, with what was on its way; the  *)
(* client will emit error and end, and queries on it will reject.          *)
ConnectionLost(c) ==
    /\ c \in held \ down
    /\ faults < MaxFaults /\ faults' = faults + 1
    /\ down' = down \cup {c}
    /\ deaths' = [deaths EXCEPT ![c] = {"error", "end"}]
    /\ listens' = [listens EXCEPT ![c] = {}]
    /\ inbox' = [inbox EXCEPT ![c] = {}]
    /\ UNCHANGED <<commits, hubVars, queryVars, held>>

(* disconnected(): an event of a client that is no longer the hub's is     *)
(* ignored.  A failing keepalive query only repeats these events.          *)
Disconnected_SilentMutant(c, event) ==
    /\ event \in deaths[c]
    /\ deaths' = [deaths EXCEPT ![c] = @ \ {event}]
    /\ IF c # hubClient
       THEN UNCHANGED <<hubClient, keepalive, retry, held, down, listens, inbox>>
       ELSE /\ hubClient' = NoClient /\ keepalive' = FALSE
            /\ Release(c)
            /\ UNCHANGED retry
    /\ UNCHANGED <<commits, faults, queryVars, starting, own, closed, closing, ahead>>
Disconnected(c, event) ==
    /\ event \in deaths[c]
    /\ deaths' = [deaths EXCEPT ![c] = @ \ {event}]
    /\ IF c # hubClient
       THEN UNCHANGED <<hubClient, keepalive, retry, held, down, listens, inbox>>
       ELSE /\ hubClient' = NoClient /\ keepalive' = FALSE
            /\ Release(c)
            /\ retry' = ~closed
    /\ UNCHANGED <<commits, faults, queryVars, starting, own, closed, closing, ahead>>
-----------------------------------------------------------------------------
(* A notice reaches the handlers of its channel: each watching query        *)
(* restarts its debounce timer.                                             *)
Notice(c, ch, n) ==
    /\ <<ch, n>> \in inbox[c]
    /\ inbox' = [inbox EXCEPT ![c] = @ \ {<<ch, n>>}]
    /\ told' = [q \in Queries |->
           IF ~closed /\ ch \in Watches[q] /\ told[q] < n THEN n ELSE told[q]]
    /\ UNCHANGED <<commits, faults, hubVars, held, down, deaths, listens,
                   asked, answers, shown, failed>>

(* The timer fires: refresh() asks the database, beside reads under way.    *)
Refresh_Mutant(q) ==
    /\ told[q] > 0 /\ asked[q] + Cardinality(answers[q]) < MaxReads
    /\ told' = [told EXCEPT ![q] = 0]
    /\ asked' = [asked EXCEPT ![q] = IF @ = 0 /\ answers[q] = {} THEN 1 ELSE @]
    /\ UNCHANGED <<commits, faults, hubVars, wireVars, answers, shown, failed>>
Refresh(q) ==
    /\ told[q] > 0 /\ asked[q] + Cardinality(answers[q]) < MaxReads
    /\ told' = [told EXCEPT ![q] = 0]
    /\ asked' = [asked EXCEPT ![q] = @ + 1]
    /\ UNCHANGED <<commits, faults, hubVars, wireVars, answers, shown, failed>>

ReadRuns(q) ==
    /\ asked[q] > 0
    /\ asked' = [asked EXCEPT ![q] = @ - 1]
    /\ answers' = [answers EXCEPT ![q] = @ \cup {commits}]
    /\ UNCHANGED <<commits, faults, hubVars, wireVars, told, shown, failed>>

(* Answers come on connections of their own, in any order; the last one     *)
(* applied is the one shown, and an error keeps the rows.                   *)
ReadShown(q, n) ==
    /\ n \in answers[q]
    /\ answers' = [answers EXCEPT ![q] = @ \ {n}]
    /\ shown' = [shown EXCEPT ![q] = n]
    /\ failed' = [failed EXCEPT ![q] = FALSE]
    /\ UNCHANGED <<commits, faults, hubVars, wireVars, told, asked>>

ReadFails(q) ==
    /\ asked[q] > 0
    /\ faults < MaxFaults /\ faults' = faults + 1
    /\ asked' = [asked EXCEPT ![q] = @ - 1]
    /\ failed' = [failed EXCEPT ![q] = TRUE]
    /\ UNCHANGED <<commits, hubVars, wireVars, told, answers, shown>>
-----------------------------------------------------------------------------
(* The timers of the queries are cleared; what their reads still answer is  *)
(* dropped.                                                                  *)
DropQueries ==
    /\ told' = [q \in Queries |-> 0]
    /\ asked' = [q \in Queries |-> 0]
    /\ answers' = [q \in Queries |-> {}]
    /\ shown' = [q \in Queries |-> 0]
    /\ failed' = [q \in Queries |-> FALSE]

(* The provider is unmounted: handlers and timers go, and close() queues     *)
(* UNLISTEN on the hub's client.                                             *)
Unmount_Mutant ==
    /\ ~closed
    /\ closed' = TRUE
    /\ keepalive' = FALSE
    /\ hubClient' = NoClient /\ closing' = hubClient
    /\ ahead' = (hubClient # NoClient /\ starting = "listen")
    /\ DropQueries
    /\ UNCHANGED <<commits, faults, wireVars, retry, starting, own>>
Unmount ==
    /\ ~closed
    /\ closed' = TRUE
    /\ retry' = FALSE /\ keepalive' = FALSE
    /\ hubClient' = NoClient /\ closing' = hubClient
    /\ ahead' = (hubClient # NoClient /\ starting = "listen")
    /\ DropQueries
    /\ UNCHANGED <<commits, faults, wireVars, starting, own>>

(* UNLISTEN is answered, or rejects, and close() releases the client.       *)
CloseReleases ==
    /\ closing # NoClient
    /\ closing \in down \/ ~ahead
    /\ Release(closing)
    /\ closing' = NoClient
    /\ UNCHANGED <<commits, faults, queryVars, deaths, hubClient, starting, own,
                   retry, keepalive, closed, ahead>>

HubStep ==
    \/ \E c \in Clients : PoolGives(c)
    \/ \E ch \in Channels : ListenDone(ch)
    \/ starting = "listen" /\ ConnectFails
    \/ RetryFires
    \/ \E c \in Clients, event \in {"error", "end"} : Disconnected(c, event)
    \/ CloseReleases

Faults ==
    \/ starting = "pool" /\ ConnectFails
    \/ \E c \in Clients : ConnectionLost(c)
    \/ \E q \in Queries : ReadFails(q)

QueryStep(q) ==
    \/ Refresh(q)
    \/ ReadRuns(q)
    \/ \E n \in answers[q] : ReadShown(q, n)

LiveNext ==
    \/ \E ch \in Channels : CommitRow(ch)
    \/ HubStep
    \/ Faults
    \/ \E c \in Clients : \E m \in inbox[c] : Notice(c, m[1], m[2])
    \/ \E q \in Queries : QueryStep(q)
    \/ Unmount

(* Answers, events and timers come in the end; faults, commits and leaving  *)
(* the page are nobody's duty.                                               *)
LiveFairness ==
    /\ WF_liveVars(HubStep)
    /\ \A q \in Queries : WF_liveVars(QueryStep(q))

LiveSpec == LiveInit(TRUE) /\ [][LiveNext]_liveVars /\ LiveFairness
-----------------------------------------------------------------------------
(* Every variable keeps its type.                                            *)
LiveTypeOK ==
    /\ commits \in Nat /\ faults \in Nat
    /\ held \in SUBSET Clients /\ down \in SUBSET Clients
    /\ deaths \in [Clients -> SUBSET {"error", "end"}]
    /\ listens \in [Clients -> SUBSET Channels]
    /\ inbox \in [Clients -> SUBSET (Channels \X Nat)]
    /\ hubClient \in Clients \cup {NoClient}
    /\ own \in Clients \cup {NoClient}
    /\ closing \in Clients \cup {NoClient}
    /\ starting \in {"no", "pool", "listen"}
    /\ {retry, keepalive, closed, ahead} \subseteq BOOLEAN
    /\ told \in [Queries -> Nat] /\ asked \in [Queries -> Nat]
    /\ answers \in [Queries -> SUBSET Nat]
    /\ shown \in [Queries -> Nat] /\ failed \in [Queries -> BOOLEAN]

(* The hub holds at most one client of the pool and never loses track of    *)
(* it: a checked-out client is the one it listens on or the one close() is  *)
(* releasing.  Otherwise pool.end() would wait for ever.                     *)
ClientsAccounted == held = {hubClient, closing} \ {NoClient}

(* An open hub is never left idle without a client: it has one, connects, or *)
(* has a retry timer, and its keepalive runs exactly while it listens.  A    *)
(* closed hub never takes a client or arms a retry again.                    *)
HubNeverIdle ==
    IF closed THEN hubClient = NoClient /\ ~retry
    ELSE /\ hubClient # NoClient \/ starting # "no" \/ retry
         /\ keepalive <=> hubClient # NoClient /\ starting = "no"

(* Both together: what the pages rely on of the hub's bookkeeping.           *)
HubSound == ClientsAccounted /\ HubNeverIdle

(* However connections are lost while it is set up or used, an open hub      *)
(* listens on every channel again.                                           *)
ListensAgain == []<>(closed \/ (hubClient # NoClient /\ listens[hubClient] = Channels))

(* A query that was told of a commit shows rows that have it, or an error,   *)
(* unless the page was left.                                                 *)
NoticeIsRead ==
    \A q \in Queries, n \in 1..MaxCommits :
        told[q] = n ~> (shown[q] >= n \/ failed[q] \/ closed)
=============================================================================
