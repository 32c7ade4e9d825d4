# pgquic: specifications, model checks and proofs

pgquic lets a browser speak the PostgreSQL wire protocol. A TypeScript client
(`src/packages/client`) carries each connection on a bidirectional stream of one
shared WebTransport session; a Go gateway (`src/gateway`) admits the session,
performs a control handshake on its first stream, and proxies every further
stream byte for byte to PostgreSQL. This directory holds TLA+ modules of the
parts whose correctness depends on the order of events, TLC configurations that
check them, and proofs that TLAPS checks.

`PROJECT.json` is the index: components, runs, theorems, hazards, findings, and
for every definition the source lines it stands for.

## 1. The system

| Component | State | Operations | Modelled in |
|---|---|---|---|
| Client transport, `transport.ts` | current session, shared promise `connecting`, member `sockets`, `status`, `failures`, `terminal` | `openStream`, `ensureSession`, `connectSession`, `sessionFailed`, `release`, `close` | `Transport`, `SharedSession` |
| Client socket, `socket.ts` | write queue and its byte count, pump, flags `destroyed`, `writable`, `pressured`, the stream | `connect`/`open`, `write`, `end`, `destroy`, `pump`, `readLoop`, `finishClose` | `Transport` (its life), `SocketQueue` (its output), `Tunnel` (its stream) |
| Control handshake, `framing.ts`, `control.go`, `auth.go` | read buffer; position of either end; deadline of the control stream | `readControl`, `writeControl`; `ReadFrame`, `Validate`, `WriteFrame` | `Handshake` |
| Gateway sessions, `session/server.go` | `slots`, wait groups, gauges, `closing`, places of each session's streams | `Handler`, `serveSession`, `Shutdown` | `Gateway`, `Admission` |
| Rate limiter, `session/limiter.go` | a bucket per origin and address | `Allow` | `Limiter` |
| Stream proxy, `proxy/proxy.go` | two copies, `errch`, both ends | `Run`, `copyOne`, `closeWrite` | `Tunnel` |
| Configuration, metrics, `main.go` | read-only settings; gauges | | in part, in `Gateway`, as assumptions and gauges |
| Provider, notification hub and live queries, `shared/react-pg.tsx` (commerce and others) | the hub's client and its setup, retry and keepalive; per query the timer, reads under way, rows | `connect`, `disconnected`, `close`; `refresh`, notices, mounting and unmounting | `LiveQuery` |
| Queue example, `pgmq/index.ts` | `selectedQueue`, rendered rows, `refreshing`, actions under way | `refresh`, `refreshMessages`, `handleMessageAction`, `connect` | `QueuePage` |
| Cron example, `pg-cron/index.ts` | rendered jobs, dialog, form | `refresh`, `saveJob`, `handleJobAction` | `CronPage` |
| Cursor example, `cursors/index.ts` | pool and listener, pending publish, participants | `queuePublish`, `flushPublish`, `receive`, sweep, `pagehide`, `connect` | `Cursors` |
| Leave board, `security/*.tsx`, `50-security.sql` | table and audit in the database; per browser login, rows, `busy`, dialog | logins, live rows, `command`; `create_request`, `submit_request`, `cancel_request`, `decide_request` | `LeaveBoard` |
| Dashboard, `dashboard/index.ts` | step of `run`, clients checked out, pool | `run`, recreation of the pool | `Dashboard` |
| Benchmark, deployment, build | | | not at all (section 8) |

How they interact. Sockets call the transport (`openStream`) and await the
promise of a session that another socket may have started. The transport calls
back into its sockets (`destroy`) when it loses the session or is closed; a
socket calls `release`. Client and gateway share the control stream, then one
stream per connection. In the gateway a handler hands the session to a goroutine,
which starts one goroutine per stream; `proxy.Run` starts two more. They share
counters, semaphores and contexts; `Shutdown` meets them at any stage.

What is hard. In the client every `await` lets other callbacks run: a session
may be lost, replaced or closed between the resolution of a promise and the code
after it; `pump` is entered from three places; `end` and `destroy` meet a write
in flight. In the gateway goroutines interleave freely, deferred calls run in an
order that matters, deadlines pass at any moment, and one end of a stream can
close in four ways while the other is busy. Between the two, an end learns of the
other's failure only when the network tells it. Nothing is persisted, so there is
no crash recovery: a crash of either end is the loss of the session for the other.
The example pages add what any page on such connections meets: answers of several
pool connections that overtake each other, rows that are stale when their buttons
are clicked, notices lost while a listener reconnects, pages left with work under
way, other sessions that write the same rows.

What makes each part correct:

- transport: one session however many sockets open at once; sockets only on the
  current session; a lost session takes all its sockets; every open ends; the
  reported state is true; the connection limit holds (it does not, section 6);
- write queue: no chunk lost, doubled or reordered; memory bounded; a writer told
  to wait is told to go on; callbacks true and at most once; FIN behind the data;
- handshake: admission only after every check; the client decodes exactly what
  was written; neither end waits for ever;
- sessions: slots, places and gauges exact on every path; streams drained before
  the session is closed; shutdown reports success only when it is true;
- proxy: bytes in order and complete until something breaks; half-close after the
  data; a closed client or session always closes the upstream connection;
- limiter: over any stretch of time at most the burst and the refill, and nothing
  refused below that;
- hub and live queries: a pool client is never lost nor held twice; an open hub
  listens again after every loss; a notice is followed by a read that has it;
- pages: rows and buttons belong to what they were read for; what the user is told
  happened, once; buttons come back and gone rows, cursors and tabs disappear;
- leave board: the audit is the history; of racing commands one wins; no login
  sees another's rows.

## 2. Modules

`Transport`. A JavaScript callback runs to its next `await` without interruption,
so an action is what the code does between two awaits. `pc[s]` is where the
`open()` of socket `s` stands, `link[o]` where the attempt (then the session)
started by socket `o` stands. A socket connects once, so it starts at most one
session, and the session takes its name. `Open` is `connect()` through the limit
check, `ensureSession()` and the synchronous part of `connectSession()`;
`BackoffElapsed`, `HandshakeOk`, `HandshakeFails` are the continuations of
`connectSession()`; `SessionReady`/`SessionUnavailable` and
`StreamCreated`/`StreamRefused` those of `openStream()`; `Adopt` and
`OpenRejected` those of `open()`; `SessionLost` and `SessionFailed` separate the
settling of `closed` from the callback that notices; `Close` may be repeated.

`SharedSession` is what the transport promises, without any await: there is a
current session or none, sockets join the current one, leave, or fall with it,
and none ever comes back. `Transport!ImplementsSharedSession` states the
refinement; the mapping is at the end of `Transport.tla`.

`SocketQueue`. `write()`, the pump between its awaits (`ready`, then `write`),
`end()` with its polling, `destroy()`, the end of the incoming side, and the
stream (`sink`) with its own states. Chunks have a name and a length.

`Tunnel`. One connection from the socket to PostgreSQL: the two halves of the
stream, the two copies with the chunk each may hold, the main goroutine of `Run`
with its two `select`s, the upstream connection, the context. Every read, write,
half-close and result is a step of its own.

`Channel` is what one direction of such a connection promises, without any of the
machinery: chunks come out in the order they went in, none twice and none skipped;
nothing goes in behind the writer's end; while nothing has broken, the end is seen
only behind the last chunk. A channel that breaks may stop and may show an end, but
what it has delivered stays in order. `SocketQueue!ImplementsChannel` is that of
the way from `write()` to the WebTransport stream (`Outgoing`),
`Tunnel!ImplementsChannels` that of both ways between the stream and PostgreSQL
(`UpChannel`, `DownChannel`).

`Gateway`. `at[r]` is the place of the handler, then of the goroutine, of request
`r`. Actions follow the acquisitions and releases of `Handler` and `serveSession`
in the order of the deferred calls: streams drained, session closed and slot given
back (`Free`), wait group told (`Leave`). `Shutdown` is three steps and a timeout.
`Admission` is what this promises, without slots, semaphores, gauges, wait groups and
contexts: a request is let in, takes one of `MaxSessions` or is turned away because
all are taken, its session runs at most `MaxStreams` streams and ends when none runs;
once closed the gateway lets nobody in, and it says that it stopped only when the
sessions it found are over. A refusal has to be justified: a gateway that
turned everyone away at the limit less one would not implement it.

`Handshake`. Both ends of the control stream on one session. The hello is the set
of facts the gateway checks (`tooBig`, `version`, `signed`, `tooLong`, `route`);
of the answer the model has every byte, because `readControl` reassembles it from
chunks cut anywhere. The deadline of the control stream may pass at any point
before it is cleared; the lifetime of the session may end it afterwards.

`Limiter`. A bucket per key in exact integer arithmetic: `Token` units make a
token, a tick refills `Refill` units. `Allow` is one action, as it holds the mutex.

`LiveQuery`. The hub's `connect()` from `pool.connect()` to its last `LISTEN`, the
two events by which a client reports its death, the retry, `close()` with its
`UNLISTEN`; per query the debounce, the reads the database has not run, those it
has run and not delivered. Commits are numbered, so that the rows a query shows are
the number of their snapshot, and the order of answers is free.

`QueuePage`. A query has been asked, has run, is answered: three steps, so that the
selection, the interval refresh, a second click and another consumer fall in
between. A row carries the queue it was read from as well as the queue its buttons
name. `CronPage`. The list, the dialogs and the two kinds of command against a table
that another session changes. A command is asked, runs and is answered in steps of
its own, so that an edit that is saved and a click on Pause may run in one order and be
answered in the other; an answer may be lost with its connection before the query has
run or after; a job to be created paused takes two queries. What pg_cron does is
external: `cron.schedule` of a known name keeps its job, and
`schedule_in_database` gives it the call's values. `Cursors`. Each tab with its
pending publish, the publish under way, its listener and what it shows; `NOTIFY`
delivers to whoever listens, in the order in which publishes run. A publish whose query
rejected may stay behind in the database (`late`) and run after all, even behind the
leave of its tab. A reconnection keeps the old pool set until its `end()` resolves
(phase `ending`). `LeaveBoard`. The database functions with their guards and the audit
trigger in one transaction each, and per browser login, rows, `busy` and the commands
that outlive their page; one whose connection is lost may have run, may never run, or
may still do so when the page has already shown its error.
`Dashboard`. The steps of `run()` by the clients that each takes from the pool,
gives back, or strands when it fails.

`Examples` puts the six pages side by side. Each page has a pool, a transport and
tables of its own, so a behaviour of the sum is one of a page: a run opens one page
and the others stay shut, which keeps the number of states the sum, not the
product, of theirs.

How they compose. `Transport` has the client's end of a handshake as two actions
and assumes that one of them is eventually taken; `Handshake!ClientSettles`
discharges that. `Gateway` has the gateway's end as `Welcome`/`ControlFails`
(likewise ended by `Handshake`'s deadline) and a whole tunnel as
`AcceptStream`/`RunReturns`, and assumes that a proxy returns once its context is
done; `Tunnel!SessionEndClosesUpstream` is that property of `Run`. `Tunnel` takes
the socket's queue as a channel that delivers to the stream in order and ends behind
its bytes, which `SocketQueue!ImplementsChannel` and `EndCloses` justify; that queue and
tunnel in series deliver from `write()` to PostgreSQL in order is this argument, not a
theorem of its own. The example pages take a connection of the pool as reliable
until it is lost, which `Tunnel!Intact` justifies. The composition is by these stated
obligations, not by a product of the state spaces.

Definitions whose name ends in `_Mutant` are deliberate mistakes, each next to
the definition it would replace; no specification uses them. They serve to
confirm that every property can be broken by a plausible bug.

## 3. Runs that must pass

Each `MC` module instantiates a specification; distinct states are given so that
a change in size is noticed.

| Run | Instance | States | Shows |
|---|---|---|---|
| `transport` | 3 sockets, limit 2, two of them destroyed by the application at any time | 248 k | `MembersOnCurrentSession`, `CountedIffLive`, `StateTellsSession`, the refinement of `SharedSession`, `OpenSettles`, `SessionLossReachesMembers` |
| `queue` | limits 1, 2, 4; four writes of 0, 1 or 2 bytes | 30 k | `NothingLost`, `NoLostDrain`, `CallbacksTrue`, the refinement of `Channel`, `DrainComes`, `EndCloses` |
| `tunnel` | two chunks each way | 108 k | `Intact`, the refinement of `Channel` either way, `SessionEndClosesUpstream`, `ClientCloseReachesUpstream` |
| `gateway` | 2 requests for 1 slot, 2 streams for 1 place | 28 k | `CountsExact`, `ShutdownDrains`, the refinement of `Admission`, `SlotComesBack`, `ShutdownEnds` |
| `handshake` | header and payload of two bytes, two versions, tokens on | 83 k | `OkMeansAdmitted`, `ClientSettles`, `GatewayLetsGo` |
| `limiter` | 2 keys, burst 2, token 3 units, refill 2, 6 ticks | 135 k | `RateBound`, `RefusedOnlyOverRate` |
| `examples` | each page in turn, with the bounds below | 299 k | `HubSound`, `RowsNameTheirQueue`, `ToldOnce`, `NoSilentActive`, `EditKeepsDatabase`, `AfterLeaveGone`, `AuditTellsHistory`, `OneVerdict`, `RowsOfLogin` |
| `examples_live` | the same with less of what no liveness is about | 38 k | `ListensAgain`, `NoticeIsRead`, `RowsFade`, `PresenceConverges`, `ButtonsComeBack` |

Why these bounds. Two sockets already share a session; the third meets the limit
or a replaced session while the others still hold the old one. Sessions are named
after sockets, so three sockets also mean three successive sessions. `failures` and
`generation` are bounded by that and need no bound of their own. In the queue,
lengths 0, 1 and 2 against watermarks 1 and 2 and the maximum 4 make every
comparison hold, fail and meet equality, and four writes overflow the maximum with
a write in flight. In the tunnel two chunks allow one in a copy's hand, one on the
wire and the end behind both. In the gateway the second request meets the full
limit and the freed slot. In the handshake two-byte frames can be cut inside the
header, at its end, inside the payload, and across both. The limiter's token and
refill are coprime so that levels do not fall on multiples of a token.

In the pages two of everything that can be confused: channels of which one is
listened to and the other not yet, hub clients of which one dies while the next is
set up, queues with the same id, clicks on one message, tabs, browsers, commands on
a request. Three requests give one that races, one to be created next to it, and
one that another login owns. Commits, faults, reads, selections, events, troubles
and mishaps are bounded, each where the module declares it; two faults are enough
for one during the recovery from another. `examples_live` gives the cursors one trouble
instead of two: a listener lost, a publish rejected or a reconnection out of nothing; the
reconnection that a lost listener calls for costs none.

`CHECK_DEADLOCK FALSE` is set everywhere because every one of these systems may
come to rest: all sockets closed, shutdown over, all calls made, the page left. That
nobody rests while waiting for another is what the liveness properties say.

## 4. Fairness

Only what the code or its runtime guarantees:

- client: continuations of settled promises and timers run. That `ready`, a
  stream or a message settles is assumed in `Transport!Answers`, and there only
  because the gateway's deadlines and the browser's rejection of calls on a dead
  session make it true; `Handshake` derives it. `options.token()` is assumed to
  settle: a token function that never does leaves an attempt pending, in the code
  as in the model.
- gateway: goroutines run; deadlines that the code sets pass (`ConnectTimeout`,
  `ControlTimeout`, and in `Gateway` `SessionLifetime`). `Handshake` relies on the
  lifetime in one case only, a client that waits for an answer which was written and
  never arrives: the deadline of the control stream has been cleared by then
  (`server.go:135`). `Tunnel` does not rely on it: its properties are about a tunnel
  whose session goes on. The idle deadline is not assumed to pass: it may be zero, and
  traffic in one direction postpones it. That the write of the accepting welcome returns
  is assumed in `Gateway` (`Welcome`/`ControlFails`): no deadline and no context
  reaches it, but it is one small frame, the first on its stream.
- PostgreSQL closes a connection whose client has shut down its side; nothing else
  is expected of it.
- the network: the end of a session reaches the other end in time. In `Handshake`
  nothing else is: no byte need be delivered, in either direction, and no stream made.
- the user: opens, writes, closes nothing unless he likes to.
- the pages: queries are answered or fail, events are delivered, timers that are
  armed fire (`LiveFairness`, `QueueFairness`, `CursorFairness`, `DashFairness`).
  Clicks, other sessions, faults and commits are nobody's duty, and a query that
  rejected need never run. `Cursors` asks
  strong fairness of `NotifyRuns`, because the bound on an inbox may disable it again
  and again, which no database does; `QueuePage` asks fairness of the reads of a
  refresh and of a click apart, as each is answered by itself. A setup that
  keeps failing for ever is excluded by the bound on faults: each retry comes, and
  the last one succeeds.

`transport` restricts `Destroy` by the application to two of its three sockets, since
TLC needs the whole behaviour graph for liveness; all end by themselves, with the
session or with `close()`. The theorems of section 5 have no such restriction.

## 5. What is proved

The proofs hold for every value of the constants, under the named assumptions of
each module: finite sets, positive limits, positive frame sizes, natural rates, that
the constants which stand for "nobody" are nobody (`NoClientAssumption`,
`BoardAssumption`), that the cron page's own database is a database and has room for
the job it starts with (`CronAssumption`), and that the dashboard's pool has a natural
number of clients (`DashAssumption`). Every invariant and every action property that
a run checks is a theorem, and so are the four refinements; what remains to TLC alone
is liveness.

`TransportProofs`: type correctness, `OneSession`, `MembersOnCurrentSession`,
`CountedIffLive`, `StateTellsSession`, and that `Transport` implements
`SharedSession`. `OneSession` is not inductive: it rests on `ConnectingInv` (an
attempt under way is the one `connecting` names, its owner still waits for it, no
session is current meanwhile). `MembersOnCurrentSession` rests on `SessionInv` (an
open session is the current one) and `MemberInv` (who is counted, by place). The
refinement follows action by action from that invariant.

`SocketQueueProofs`: `NothingLost` and `CallbacksTrue`. `Path` says that what was
accepted is the stream, the chunk in flight and the queue, in that order, and after
`destroy()` with a rest that was dropped; only then is the prefix of a destroyed
socket inductive. `CallInv` adds that the names along this path are distinct and
which answer each place of a chunk allows: none while it is queued or in flight,
success only behind the pump. The steps use lemmas about heads, tails and
concatenations, so that they never compare elements one by one.

`NoLostDrain` speaks of the bytes of a sequence, a recursive function. That the
function exists, and that the bytes of two sequences one behind the other are the sum
of both (`BytesConcat`), is an induction over the length. It is done with
`SetInduction`, induction said of the set of lengths for which a fact holds instead of
an operator, which follows from the well-foundedness of the naturals. `ByteInv` is then the
property with the types of what it counts: what `pump()` shifts moves from the queue
to its hand and counts until it is written, so that the low watermark is met by the
same bytes that raised the pressure. `TypeCorrect` follows from these invariants and
the types of a few flags. `Refinement`: a chunk enters the channel in `Write`, leaves
it in `PumpWritten`, the end enters with `End` and is seen with `SinkClosed`, and
everything else stutters or breaks it. What this needs beyond `Path` is `CloseInv`: the
writer is closed only after `end()`, with queue and hand empty, so that nothing can
be delivered behind the end.

`TunnelProofs`: `Intact`. Each direction has an invariant of its own (`UpInv`,
`DownInv`): the bytes sent are those received, those in the copy's hand and those on
the wire, exactly so until a fault; with a fault a prefix remains. That the end of
one side is seen only behind all bytes needs `RunInv`, which relates each copy's
place to `errch`, to the step of `Run` and to what is closed, and `FaultInv`, which
says what every reset, error result and lost session reveals. `HeldInv` (a copy holds
a chunk exactly while it writes) completes the types. `Refinement` takes each way by
itself (`UpRefines`, `DownRefines`): a step of one way is a step of its channel, and
every step of the rest is a stutter, or a fault that breaks the channel once
(`UpFaults`, `DownFaults`).

`ChannelProofs`: what a `Channel` promises comes to (`ChannelKeeps`: what is taken out
is a prefix of what went in, and the end of an unbroken one is seen behind all of it).

`GatewayProofs`: type correctness, `SlotsExact` and `StreamsExact` (together
`CountsExact`), `DrainedBeforeEnd`, `ShutdownDrains`, for any number of requests,
streams, and any limits. The lemmas say what one request that moves does to the
cardinality of a set of places; that counters never fall below zero is then a
consequence of counting. `ShutdownDrains` needs to know that the sessions found at
shutdown are in the wait group until they are done. `Refinement` maps each place of a
goroutine to what `Admission` calls it; since counts are exact (`RoomExact`), the code's
comparisons of lengths and limits are `Admission`'s of sessions and streams. It also needs
that `closing` is set exactly when `Shutdown` has begun (`StoredInv`), that streams
run only in sessions that have been welcomed and not ended, and that a wait group of zero
means that every session found is done. The first step of the goroutine's deferred calls
ends the session for `Admission`; what comes after is a stutter.

`HandshakeProofs`: type correctness, `WholeFrame`, `OkMeansAdmitted`,
`RefusalTold`, `RefusedForCause`, for frames of any size cut in any way.
`Counted` and `WholeFrame` together make the buffer always the part of the frame
between what was consumed and what was given; `Passed` and `Decided` tie each
place of the gateway to the checks behind it and fix the answer before its first
byte; `Heard` carries it to the client.

`LimiterProofs`: type correctness, `RateBound` and `RefusedOnlyOverRate` for any
burst, rate and clock.
`RateBound` speaks of pairs of past calls; `Account` adds what the current level
says of each of them: the calls since, their cost and what is left do not exceed
the capacity and the refill since. The steps use the lemmas about `Cost` and
`Gain` and never see the products. `RefusedOnlyOverRate` is the other direction:
`Spent` says that a known bucket is full or that some stretch, from an allowed call on,
accounts for all that is missing from it: the calls since have used up at least the
capacity and the refill but for what is left. Capping the refill makes it full, and the
next call begins a stretch.

`ExamplesProofs`: the types and every safety property of the pages, for any
numbers of clients, queues, jobs, tabs, browsers and commands. Each page has its
invariant, and a step of the sum is a step of one page or a stutter of it.

- `HubSound` needs that `close()` is releasing a client only after the hub is closed
  and that `connect()` waits for the pool only while the hub has none.
- `RowsNameTheirQueue` and `ToldOnce`: rows are applied only while their queue is
  selected (`ViewInv`); a message is told as often as its row was taken by the page.
- `NoSilentActive`: "paused" may be told last of a job that is active, when answers
  cross, when an answer is lost or when another session sets it active. What holds is
  that a command which names "active" has then run since the job was really paused, so
  that no success is told of a pause that did not run. This is inductive with `Paused` of
  the commands that have run and are not answered (`JobInv`). It and `EditKeepsDatabase`
  need that ids are given once and that a name is that of one job, so that no job is
  told paused before it exists.
- `AfterLeaveGone`: one publish of a tab is under way at a time and a tab that is gone
  starts none; so a leave is the last that any inbox holds of its sender (`InboxInv`),
  and who received it hears nothing more of it (`LeftInv`). Both are said of tabs none of
  whose publishes ran after its query had rejected (`strayed`): of the others the
  code cannot keep it, and the sweep has to take them away.
- `OneVerdict` and `AuditTellsHistory`: a command of which a success is still to be
  shown left its request where it put it, since nothing is granted at a final status;
  a request of which the audit speaks is there, so that a draft is its first row and
  its owner never changes.
- `RowsOfLogin`: rows and the answer under way are those of who is signed in, and
  what a login may see it may see for good.
- The types, `ExamplesTypeOK`, have two parts that are more than types. Ids of jobs, wherever the page
  has copied them, are those the sequence gave (`JobIds`). The clients that `run()` of the
  dashboard holds are, at each step that will be answered, the number in `HeldAt`, and
  with those that failed runs left they are never more than the pool has (`RunInv`):
  so no step releases a client that it does not have.

Proved and not checked by a run of their own: the type invariants of `Transport`,
`Gateway`, `Handshake`, `Limiter`, `SocketQueue`, `Tunnel` and of the pages, `OneSession`,
`SlotsExact`, `StreamsExact`, `DrainedBeforeEnd`, `WholeFrame`, `RefusalTold` and
`RefusedForCause`.

Only model-checked: all liveness (fairness and ENABLED are outside the prover).

## 6. Where the code disagrees with its documents

Four runs end in a counterexample on purpose. Each checks one statement of a
document or a test, and TLC finds a behaviour of the code that breaks it.

- `transport_limit`, `ConnectionLimit`: the limit is checked two awaits before the
  socket is counted (`transport.ts:53,57`); sockets that open together exceed it.
- `transport_reopens`, `ClosedHasNoSession`: an attempt under way at `close()`
  finishes its handshake, becomes the session and sets the status to ready
  (`transport.ts:115`).
- `tunnel_ended`, `EndedStreamIsReleased`: a socket that reads the end of its
  stream neither closes nor aborts its writer (`socket.ts:158`); `Run` waits for
  the other direction with a read that has no deadline, since the idle timeout is the
  upstream connection's (`proxy.go:36`), and the place is held until the session ends.
- `tunnel_dial`, `DialFailureReachesClient`: a failed dial returns before
  `stream.Close()` is deferred (`proxy.go:25`); the client's socket stays open until
  the session ends.

`OneSession`, `MembersOnCurrentSession` and the refinement hold in spite of the
first two: those concern the limit and `close()`, not sharing.

Another disagreement is described here without a run. `submit_request` does not test
for overlaps again (`50-security.sql:233`), so that of two overlapping drafts both may
be submitted, although the dialog says that PostgreSQL checks overlaps
(`overlays.tsx:71`); only `create_request` does.

Other behaviour that the models show and that no document denies is listed with the
hazards: a socket destroyed while `openStream` is pending is counted afterwards and
never released (`socket.ts:39`); a hub closed during its last `LISTEN` leaves its
keepalive running (`react-pg.tsx:298`); an older answer may be applied after a newer
one and stays until the next notice; notices sent while the hub reconnects are lost,
and nothing reads again; a publish that runs late shows a tab again that has left, until
the sweep; the scheduler page may leave "paused" as its last word on a job that is active,
when the answers of two commands cross or that of a resume is lost
(`pg-cron/index.ts:383-397`); a failed `run()` of the dashboard leaves clients checked out, and a recreation then waits for
them; overlapping calls of `connect()` leak a pool.

## 7. Abstractions

- Time is absent except in the limiter: a timer is an action that may happen
  while it is armed. Jitter and length of the backoff are left out.
- Bytes are chunks, except in the answer of the handshake. JSON, JWT verification
  and TLS are a verdict; wording of messages is left out; an answer has its own
  name so that `RefusalTold` can compare.
- In `Transport` any settled promise may be continued before any other, which is
  more than the microtask queue does, with one exception: the owner of an attempt
  clears `connecting` before those who share the attempt go on (`Settled`), as its
  continuation was registered first. `StreamCreated` adds the socket to `sockets`
  in the step in which the promise resolves; nothing runs in between.
- `end()` is called at most once per socket in `SocketQueue`. The reading half of
  the socket is in `Tunnel`.
- In `Tunnel` copy buffers hold one chunk; a write is whole or fails. A failing
  network is the loss of the session or the reset of a stream.
- `Gateway` takes path, origin and rate checks as one arbitrary refusal. The hello
  is checked in `Handshake` alone, on one session; the lifetime of a session is in
  `Gateway` and `Tunnel` alone.
- `Handshake` is checked with tokens enabled, which has every branch; the proofs
  cover both settings.
- In the pages, what is rendered is left out except where a property speaks of it.
  Of a leave request's dates only overlap is kept; a cursor has no position; a job is
  its name, database and whether it is active. A request, a message or a job is read
  with all its columns at once, as one statement does.
- The database is external: a statement is one step, which is what its isolation and
  row locks ensure for the single statements the pages use; a notification is
  delivered to the sessions that listen when its transaction commits.
- `connect()` of a page is started once at a time (the hazard of overlapping calls is
  listed), and `LeaveBoard` has one read of the rows under way, as reads that overtake
  each other are the subject of `LiveQuery`.
- The limiter's `float64` is exact here; rounding may move a decision at the very
  boundary of a token, which neither property of `Limiter` sees.
- Some properties do not reach all of the hazard they stand by. `CountedIffLive` is
  about connected sockets, not about one that was destroyed while opening and is counted
  for ever. `ButtonsComeBack` excepts a dashboard whose failed run kept clients or whose
  notification was lost, as the code does nothing about either.
- `CronPage` has one save and one click under way at a time; a query that runs only
  after its connection was lost is one of another session's.

## 8. Not modelled

- `index.ts`, `types.ts`, configuration parsing, `main.go`, the counters of
  `metrics.go`: no state that another step depends on.
- Browser shims, bundling, build, release, CI: nothing at run time.
- The benchmark example measures and keeps no state. The history and settings dialogs
  of the cron page, the archive of the queue page, the activity feed and the security
  drawer only read and render.
- The development database but for the rules of queues, leave requests and commerce
  that the pages depend on: schemas and sample data.
- QUIC's credit of streams and flow control: enforced by libraries that are not
  part of the repository.

## 9. Plan

What would add most next:

1. `SharedSession` extended by the limit and by `close()`, once the code keeps
   them, so that the refinement covers the first two findings.
2. The socket's queue and the tunnel in one module, with its chunks and its
   `destroy()`, so that the way from `write()` to PostgreSQL is a theorem and not an
   argument; then its reading half the same.
3. Convergence of the live queries, once the hub reads again after a reconnection.
4. Overlapping calls of `connect()` in the pages, with the pools they leak.

## 10. Running

`tlc -config X.cfg M` with the module named in `PROJECT.json` for the run, and
`tlapm M.tla` for the eight `Proofs` modules. The longest run is `transport`, about
two minutes with two workers; `examples` and `examples_live` take about one and a half
each, and so does each of the longest proofs, `ExamplesProofs` and `TunnelProofs`, or
twice that.
