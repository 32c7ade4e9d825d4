--------------------------- MODULE ExamplesProofs ---------------------------
(***************************************************************************)
(* Theorems about the example pages, for every choice of their constants:  *)
(* the bookkeeping of the notification hub, one verdict on a leave         *)
(* request, its audit and rows for nobody but their login, the buttons of  *)
(* the queue page, the pauses and edits of the cron page, the leaves of    *)
(* the cursor page, the clients of the dashboard's run, and the types of   *)
(* them all.  Each part proves an invariant of one page; the last shows    *)
(* that the pages side by side keep them.                                  *)
(***************************************************************************)
EXTENDS Examples, SequenceTheorems, TLAPS

HubTypes ==
    /\ hubClient \in Clients \cup {NoClient}
    /\ closing \in Clients \cup {NoClient}
    /\ starting \in {"no", "pool", "listen"}
    /\ closed \in BOOLEAN /\ retry \in BOOLEAN /\ keepalive \in BOOLEAN

(* close() may be releasing a client only once the hub is closed, and        *)
(* connect() waits for the pool only while the hub has no client.            *)
HubInv ==
    /\ HubTypes
    /\ HubSound
    /\ closing # NoClient => closed
    /\ starting = "pool" => hubClient = NoClient

(* What HubInv speaks of; steps that leave it alone preserve HubInv.         *)
hub == <<held, hubClient, closing, starting, closed, retry, keepalive>>

LEMMA HubFrame ==
  ASSUME HubInv, UNCHANGED hub
  PROVE  HubInv'
BY DEF HubInv, HubTypes, HubSound, ClientsAccounted, HubNeverIdle, hub

LEMMA HubInit ==
  ASSUME NEW open \in BOOLEAN, LiveInit(open)
  PROVE  HubInv
<1>1. CASE open
  BY <1>1, NoClientAssumption
     DEF LiveInit, HubInv, HubTypes, HubSound, ClientsAccounted, HubNeverIdle
<1>2. CASE ~open
  BY <1>2, NoClientAssumption
     DEF LiveInit, HubInv, HubTypes, HubSound, ClientsAccounted, HubNeverIdle
<1> QED
  BY <1>1, <1>2

LEMMA PoolGivesInv ==
  ASSUME HubInv, NEW c \in Clients, PoolGives(c)
  PROVE  HubInv'
<1>1. CASE closed
  BY <1>1 DEF PoolGives, HubInv, HubTypes, HubSound, ClientsAccounted, HubNeverIdle
<1>2. CASE ~closed
  <2>1. held = {} /\ held' = {c} /\ hubClient' = c /\ closing' = NoClient
    BY <1>2, NoClientAssumption DEF PoolGives, HubInv, HubTypes, HubSound, ClientsAccounted
  <2>2. starting' = "listen" /\ ~closed' /\ ~keepalive' /\ UNCHANGED retry
    BY <1>2 DEF PoolGives, HubInv, HubTypes, HubSound, HubNeverIdle
  <2>3. c # NoClient /\ UNCHANGED <<retry, keepalive, closed>>
    BY NoClientAssumption DEF PoolGives
  <2>4. ClientsAccounted'
    BY <2>1, <2>3 DEF ClientsAccounted
  <2>5. HubNeverIdle'
    BY <2>1, <2>2, <2>3, Zenon DEF HubNeverIdle
  <2>6. HubTypes'
    BY <2>1, <2>2, <2>3, Zenon DEF HubInv, HubTypes
  <2> QED
    BY <2>1, <2>2, <2>4, <2>5, <2>6 DEF HubInv, HubSound
<1> QED
  BY <1>1, <1>2

LEMMA ListenDoneInv ==
  ASSUME HubInv, NEW ch \in Channels, ListenDone(ch)
  PROVE  HubInv'
<1>1. ~closed => hubClient # NoClient
  BY DEF ListenDone, HubInv, HubTypes, HubSound, ClientsAccounted
<1>2. UNCHANGED <<held, hubClient, closing, closed, retry>>
  BY DEF ListenDone
<1>3. \/ UNCHANGED <<starting, keepalive>>
      \/ starting' = "no" /\ keepalive' = TRUE
  BY DEF ListenDone
<1>4. starting = "listen"
  BY DEF ListenDone
<1>5. ClientsAccounted'
  BY <1>2 DEF HubInv, HubSound, ClientsAccounted
<1>6. HubNeverIdle'
  <2>1. CASE closed
    BY <1>2, <2>1, Zenon DEF HubInv, HubSound, HubNeverIdle
  <2>2. CASE ~closed /\ UNCHANGED <<starting, keepalive>>
    BY <1>2, <2>2, Zenon DEF HubInv, HubSound, HubNeverIdle
  <2>3. CASE ~closed /\ starting' = "no" /\ keepalive' = TRUE
    BY <1>1, <1>2, <2>3, Zenon DEF HubNeverIdle
  <2> QED
    BY <1>3, <2>1, <2>2, <2>3
<1>7. HubTypes'
  BY <1>2, <1>3, Zenon DEF HubInv, HubTypes
<1>8. (closing # NoClient => closed)' /\ (starting = "pool" => hubClient = NoClient)'
  BY <1>2, <1>3, <1>4 DEF HubInv
<1> QED
  BY <1>5, <1>6, <1>7, <1>8 DEF HubInv, HubSound

LEMMA ConnectFailsInv ==
  ASSUME HubInv, ConnectFails
  PROVE  HubInv'
<1>1. starting' = "no" /\ hubClient' = NoClient /\ retry' = ~closed
      /\ UNCHANGED <<keepalive, closed, closing>>
  BY DEF ConnectFails
<1>2. held' = held \ {hubClient}
  BY NoClientAssumption DEF ConnectFails, Release, HubInv, HubTypes, HubSound, ClientsAccounted
<1>3. starting # "no" /\ (closed => hubClient = NoClient)
  BY DEF ConnectFails, HubInv, HubSound, HubNeverIdle
<1>4. ClientsAccounted'
  BY <1>1, <1>2, <1>3 DEF HubInv, HubTypes, HubSound, ClientsAccounted
<1>5. HubNeverIdle'
  BY <1>1, <1>3 DEF HubInv, HubTypes, HubSound, HubNeverIdle
<1> QED
  BY <1>1, <1>4, <1>5 DEF HubInv, HubTypes, HubSound

LEMMA RetryFiresInv ==
  ASSUME HubInv, RetryFires
  PROVE  HubInv'
BY DEF RetryFires, wireVars, HubInv, HubTypes, HubSound, ClientsAccounted, HubNeverIdle

LEMMA DisconnectedInv ==
  ASSUME HubInv, NEW c \in Clients, NEW event, Disconnected(c, event)
  PROVE  HubInv'
<1>1. CASE c # hubClient
  BY <1>1, HubFrame DEF Disconnected, hub
<1>2. CASE c = hubClient
  <2>1. ~closed /\ closing = NoClient
    BY <1>2, NoClientAssumption DEF HubInv, HubSound, HubNeverIdle
  <2>2. /\ held' = held \ {c} /\ hubClient' = NoClient
        /\ keepalive' = FALSE /\ retry' = TRUE
        /\ UNCHANGED <<starting, closed, closing>>
    BY <1>2, <2>1 DEF Disconnected, Release
  <2> QED
    BY <1>2, <2>1, <2>2
       DEF HubInv, HubTypes, HubSound, ClientsAccounted, HubNeverIdle
<1> QED
  BY <1>1, <1>2

LEMMA UnmountInv ==
  ASSUME HubInv, Unmount
  PROVE  HubInv'
<1>1. closing = NoClient
  BY DEF Unmount, HubInv
<1> QED
  BY <1>1 DEF Unmount, wireVars, HubInv, HubTypes, HubSound, ClientsAccounted, HubNeverIdle

LEMMA CloseReleasesInv ==
  ASSUME HubInv, CloseReleases
  PROVE  HubInv'
<1>1. closed /\ hubClient = NoClient
  BY DEF CloseReleases, HubInv, HubSound, HubNeverIdle
<1> QED
  BY <1>1 DEF CloseReleases, Release, HubInv, HubTypes, HubSound, ClientsAccounted, HubNeverIdle

LEMMA HubStepInv == HubInv /\ [LiveNext]_liveVars => HubInv'
<1> SUFFICES ASSUME HubInv, [LiveNext]_liveVars PROVE HubInv'
  OBVIOUS
<1>1. ASSUME NEW ch \in Channels, CommitRow(ch) PROVE HubInv'
  BY <1>1, HubFrame DEF CommitRow, hubVars, hub
<1>2. CASE HubStep
  BY <1>2, PoolGivesInv, ListenDoneInv, ConnectFailsInv, RetryFiresInv, DisconnectedInv,
     CloseReleasesInv DEF HubStep
<1>3. CASE Faults
  <2>1. ASSUME NEW c \in Clients, ConnectionLost(c) PROVE HubInv'
    BY <2>1, HubFrame DEF ConnectionLost, hubVars, hub
  <2>2. ASSUME NEW q \in Queries, ReadFails(q) PROVE HubInv'
    BY <2>2, HubFrame DEF ReadFails, hubVars, wireVars, hub
  <2> QED
    BY <1>3, <2>1, <2>2, ConnectFailsInv DEF Faults
<1>4. ASSUME NEW c \in Clients, NEW msg \in inbox[c], Notice(c, msg[1], msg[2]) PROVE HubInv'
  BY <1>4, HubFrame DEF Notice, hubVars, hub
<1>5. ASSUME NEW q \in Queries, QueryStep(q) PROVE HubInv'
  <2>1. UNCHANGED <<hubVars, wireVars>>
    BY <1>5 DEF QueryStep, Refresh, ReadRuns, ReadShown
  <2> QED
    BY <2>1, HubFrame DEF hubVars, wireVars, hub
<1>6. CASE UNCHANGED liveVars
  BY <1>6, HubFrame DEF liveVars, hubVars, wireVars, hub
<1> QED
  BY <1>1, <1>2, <1>3, <1>4, <1>5, <1>6, UnmountInv DEF LiveNext
-----------------------------------------------------------------------------
RequestType == [owner : Logins \cup {Nobody}, status : Statuses]

CommandType ==
    [stage : {"new", "asked", "ran", "done"}, at : Browsers \cup {Nobody},
     by : Logins \cup {Nobody}, op : {"none", "draft"} \cup {"submitted"} \cup Final,
     req : Requests \cup {Nobody}]

TableTypes == requests \in [Requests -> RequestType]

UnderWay(c) == calls[c].stage \in {"asked", "ran"}

(* Commands are of a signed-in login; their page, if it is still there, is  *)
(* signed in as that login.                                                 *)
CommandInv ==
    /\ login \in [Browsers -> Logins \cup {Nobody}]
    /\ calls \in [Calls -> CommandType]
    /\ \A c \in Calls :
           UnderWay(c) =>
               /\ calls[c].req \in Requests /\ calls[c].by \in Logins
               /\ calls[c].op # "none"
               /\ calls[c].at # Nobody => login[calls[c].at] = calls[c].by

(* What a final change that ran, told or not, has left its request at.      *)
VerdictInv ==
    /\ \A c \in Calls :
           calls[c].stage = "ran" /\ calls[c].op \in Final =>
               requests[calls[c].req].status = calls[c].op
    /\ \A t \in toldOk : t[1] \in Requests
    /\ OneVerdict

BoardInv == TableTypes /\ CommandInv /\ VerdictInv
-----------------------------------------------------------------------------
LEMMA FreshTypes == /\ Done \in CommandType /\ Done.stage = "done"
                    /\ NoCommand \in CommandType /\ NoCommand.stage = "new"
BY DEF Done, NoCommand, CommandType

LEMMA LeftPage ==
  ASSUME NEW k \in CommandType
  PROVE  LET l == [k EXCEPT !.at = Nobody]
         IN  /\ l \in CommandType /\ l.at = Nobody
             /\ l.stage = k.stage /\ l.by = k.by /\ l.op = k.op /\ l.req = k.req
BY DEF CommandType

LEMMA RanStage ==
  ASSUME NEW k \in CommandType
  PROVE  LET l == [k EXCEPT !.stage = "ran"]
         IN  /\ l \in CommandType /\ l.stage = "ran"
             /\ l.at = k.at /\ l.by = k.by /\ l.op = k.op /\ l.req = k.req
BY DEF CommandType

LEMMA BoardInvInit ==
  ASSUME NEW open \in BOOLEAN, BoardInit(open)
  PROVE  BoardInv
<1> DEFINE k == [NoCommand EXCEPT !.stage = IF open THEN "new" ELSE "done"]
<1>1. k \in CommandType /\ k.stage \in {"new", "done"}
  BY DEF NoCommand, CommandType
<1>2. calls = [c \in Calls |-> k]
  BY DEF BoardInit
<1> HIDE DEF k
<1>3. TableTypes
  BY BoardAssumption DEF BoardInit, TableTypes, RequestType
<1>4. CommandInv
  BY <1>1, <1>2 DEF BoardInit, CommandInv, UnderWay
<1>5. VerdictInv
  BY <1>1, <1>2 DEF BoardInit, VerdictInv, OneVerdict
<1> QED
  BY <1>3, <1>4, <1>5 DEF BoardInv

(* Steps of the page that neither change a request nor take a command on.   *)
LEMMA BoardFrame ==
  ASSUME BoardInv, UNCHANGED <<tableVars, login, calls, toldOk>>
  PROVE  BoardInv'
BY DEF BoardInv, TableTypes, CommandInv, UnderWay, VerdictInv, OneVerdict, tableVars

LEMMA SignInBoard ==
  ASSUME BoardInv, NEW b \in Browsers, NEW p \in Logins, SignIn(b, p)
  PROVE  BoardInv'
<1>1. TableTypes' /\ VerdictInv'
  BY DEF SignIn, tableVars, BoardInv, TableTypes, VerdictInv, OneVerdict
<1>2. \A c \in Calls : UnderWay(c) => calls[c].at # b
  BY BoardAssumption DEF SignIn, BoardInv, CommandInv
<1>3. login' = [login EXCEPT ![b] = p] /\ calls' = calls
  BY DEF SignIn
<1>4. \A c \in Calls : calls[c].at \in Browsers \cup {Nobody}
  BY DEF BoardInv, CommandInv, CommandType
<1>5. CommandInv'
  BY <1>2, <1>3, <1>4 DEF BoardInv, CommandInv, UnderWay
<1> QED
  BY <1>1, <1>5 DEF BoardInv

LEMMA LogoutBoard ==
  ASSUME BoardInv, NEW b \in Browsers, Logout(b)
  PROVE  BoardInv'
<1>1. /\ UNCHANGED <<requests, toldOk>>
      /\ login' = [login EXCEPT ![b] = Nobody]
      /\ calls' = [c \in Calls |-> IF calls[c].at = b THEN [calls[c] EXCEPT !.at = Nobody]
                                   ELSE calls[c]]
  BY DEF Logout, tableVars
<1>2. /\ calls' \in [Calls -> CommandType]
      /\ \A c \in Calls : /\ calls'[c].stage = calls[c].stage /\ calls'[c].op = calls[c].op
                          /\ calls'[c].by = calls[c].by /\ calls'[c].req = calls[c].req
                          /\ calls'[c].at = IF calls[c].at = b THEN Nobody ELSE calls[c].at
  BY <1>1, LeftPage DEF BoardInv, CommandInv
<1>3. TableTypes' /\ VerdictInv'
  BY <1>1, <1>2 DEF BoardInv, TableTypes, VerdictInv, OneVerdict
<1>4. \A c \in Calls : calls[c].at \in Browsers \cup {Nobody}
  BY DEF BoardInv, CommandInv, CommandType
<1>5. CommandInv'
  BY <1>1, <1>2, <1>4 DEF BoardInv, CommandInv, UnderWay
<1> QED
  BY <1>3, <1>5 DEF BoardInv

LEMMA AskBoard ==
  ASSUME BoardInv, NEW b \in Browsers, NEW c \in Calls, NEW r \in Requests,
         NEW op \in {"draft", "submitted"} \cup Final, NEW key, Ask(b, c, op, r, key),
         login[b] # Nobody, UNCHANGED <<tableVars, login, toldOk>>
  PROVE  BoardInv'
<1> DEFINE k == [stage |-> "asked", at |-> b, by |-> login[b], op |-> op, req |-> r]
<1>1. login[b] \in Logins
  BY DEF BoardInv, CommandInv
<1>2. k \in CommandType /\ k.stage = "asked" /\ k.at = b /\ k.by = login[b] /\ k.op = op
      /\ k.req = r
  BY <1>1 DEF CommandType
<1>3. calls' = [calls EXCEPT ![c] = k]
  BY DEF Ask
<1>4. op # "none"
  BY DEF Final
<1> HIDE DEF k
<1>5. CommandInv'
  BY <1>1, <1>2, <1>3, <1>4 DEF BoardInv, CommandInv, UnderWay
<1>6. TableTypes' /\ VerdictInv'
  BY <1>2, <1>3 DEF BoardInv, CommandInv, TableTypes, VerdictInv, OneVerdict, tableVars
<1> QED
  BY <1>5, <1>6 DEF BoardInv

(* Whoever may change a request finds it at no final status.                *)
LEMMA GrantedNotFinal ==
  ASSUME NEW p, NEW r, NEW op \in {"draft", "submitted"} \cup Final, Granted(p, op, r)
  PROVE  requests[r].status \notin Final
<1>1. CASE op = "draft"
  BY <1>1 DEF Granted, Final, NoRequest
<1>2. CASE op = "submitted"
  BY <1>2 DEF Granted, Final
<1>3. CASE op = "cancelled"
  BY <1>3 DEF Granted, Final
<1>4. CASE op \in {"approved", "rejected"}
  BY <1>4 DEF Granted, Final
<1> QED
  BY <1>1, <1>2, <1>3, <1>4 DEF Final

LEMMA RunsBoard ==
  ASSUME BoardInv, NEW c \in Calls, CommandRuns(c)
  PROVE  BoardInv'
<1> DEFINE k == calls[c]
           row == [owner |-> IF k.op = "draft" THEN k.by ELSE requests[k.req].owner,
                   status |-> k.op]
<1>1. /\ k \in CommandType /\ k.stage = "asked" /\ Granted(k.by, k.op, k.req)
      /\ requests' = [requests EXCEPT ![k.req] = row]
      /\ calls' = [calls EXCEPT ![c] = [calls[c] EXCEPT !.stage = "ran"]]
      /\ UNCHANGED <<login, toldOk>>
  BY DEF CommandRuns, pageVars, BoardInv, CommandInv
<1>2. k.req \in Requests /\ k.by \in Logins /\ k.op \in {"draft", "submitted"} \cup Final
  BY <1>1 DEF BoardInv, CommandInv, UnderWay, CommandType
<1>3. requests[k.req].status \notin Final
  BY <1>1, <1>2, GrantedNotFinal
<1>4. row \in RequestType /\ row.status = k.op
  BY <1>2 DEF BoardInv, TableTypes, RequestType, Final, Statuses
<1>5. LET l == [calls[c] EXCEPT !.stage = "ran"]
      IN  /\ l \in CommandType /\ l.stage = "ran"
          /\ l.at = k.at /\ l.by = k.by /\ l.op = k.op /\ l.req = k.req
  BY <1>1, RanStage
<1> HIDE DEF row
<1>6. /\ calls' \in [Calls -> CommandType]
      /\ \A d \in Calls : /\ calls'[d].op = calls[d].op /\ calls'[d].req = calls[d].req
                          /\ calls'[d].by = calls[d].by /\ calls'[d].at = calls[d].at
                          /\ calls'[d].stage = IF d = c THEN "ran" ELSE calls[d].stage
  BY <1>1, <1>5 DEF BoardInv, CommandInv
<1> HIDE DEF k
<1>7. TableTypes'
  BY <1>1, <1>2, <1>4 DEF BoardInv, TableTypes
<1>8. CommandInv'
  BY <1>1, <1>6 DEF BoardInv, CommandInv, UnderWay, k
<1>9. \A r \in Requests :
          requests'[r].status = IF r = k.req THEN k.op ELSE requests[r].status
  BY <1>1, <1>2, <1>4 DEF BoardInv, TableTypes
<1>10. ASSUME NEW d \in Calls, calls'[d].stage = "ran", calls'[d].op \in Final
       PROVE  requests'[calls'[d].req].status = calls'[d].op
  <2>1. CASE d = c
    BY <1>2, <1>6, <1>9, <2>1 DEF k
  <2>2. CASE d # c
    <3>1. calls[d].stage = "ran" /\ calls[d].op \in Final /\ calls[d].req \in Requests
      BY <1>6, <1>10, <2>2 DEF BoardInv, CommandInv, UnderWay
    <3>2. requests[calls[d].req].status = calls[d].op
      BY <3>1 DEF BoardInv, VerdictInv
    <3> QED
      BY <1>3, <1>6, <1>9, <3>1, <3>2
  <2> QED
    BY <2>1, <2>2
<1>11. OneVerdict' /\ \A t \in toldOk' : t[1] \in Requests
  BY <1>1, <1>3, <1>9 DEF BoardInv, VerdictInv, OneVerdict
<1> QED
  BY <1>7, <1>8, <1>10, <1>11 DEF BoardInv, VerdictInv

(* What becomes of a command whose page is done with it.                    *)
After(c, k) == k = Done \/ (k = [calls[c] EXCEPT !.at = Nobody] /\ calls[c].stage = "asked")

LEMMA SettleBoard ==
  ASSUME BoardInv, NEW c \in Calls, NEW k, After(c, k), Settle(c, k),
         UNCHANGED <<tableVars, login>>,
         \/ UNCHANGED toldOk
         \/ calls[c].stage = "ran" /\ toldOk' = toldOk \cup {<<calls[c].req, calls[c].op>>}
  PROVE  BoardInv'
<1>1. /\ k \in CommandType /\ calls' = [calls EXCEPT ![c] = k]
      /\ \/ k.stage = "done"
         \/ /\ k.stage = "asked" /\ calls[c].stage = "asked" /\ k.at = Nobody
            /\ k.by = calls[c].by /\ k.op = calls[c].op /\ k.req = calls[c].req
  <2>1. calls[c] \in CommandType /\ calls' = [calls EXCEPT ![c] = k]
    BY DEF Settle, BoardInv, CommandInv
  <2>2. CASE k = Done
    BY <2>1, <2>2, FreshTypes
  <2>3. CASE k = [calls[c] EXCEPT !.at = Nobody] /\ calls[c].stage = "asked"
    BY <2>1, <2>3, LeftPage
  <2> QED
    BY <2>2, <2>3 DEF After
<1>2. TableTypes' /\ CommandInv'
  BY <1>1 DEF BoardInv, CommandInv, UnderWay, TableTypes, tableVars
<1>3. \A d \in Calls :
          calls'[d].stage = "ran" /\ calls'[d].op \in Final =>
              requests'[calls'[d].req].status = calls'[d].op
  BY <1>1 DEF BoardInv, CommandInv, VerdictInv, tableVars
<1>4. requests' = requests
  BY DEF tableVars
<1>5. CASE UNCHANGED toldOk
  BY <1>3, <1>4, <1>2, <1>5 DEF BoardInv, VerdictInv, OneVerdict
<1>6. CASE calls[c].stage = "ran" /\ toldOk' = toldOk \cup {<<calls[c].req, calls[c].op>>}
  <2>1. calls[c].req \in Requests
    BY <1>6 DEF BoardInv, CommandInv, UnderWay
  <2>2. calls[c].op \in Final => requests[calls[c].req].status = calls[c].op
    BY <1>6 DEF BoardInv, VerdictInv
  <2>3. \A t \in toldOk' : t[1] \in Requests /\ (t[2] \in Final => requests[t[1]].status = t[2])
    BY <1>6, <2>1, <2>2 DEF BoardInv, VerdictInv, OneVerdict
  <2> QED
    BY <1>2, <1>3, <1>4, <2>3 DEF BoardInv, VerdictInv, OneVerdict
<1> QED
  BY <1>5, <1>6

-----------------------------------------------------------------------------
(* The dialog for a new request is only open on a page somebody is signed   *)
(* in at.                                                                   *)
DialogInv ==
    /\ DOMAIN creating = Browsers
    /\ \A b \in Browsers : creating[b] => login[b] # Nobody

(* The rules of can_see_request() that do not look at the status.           *)
Sees(p, r) ==
    \/ requests[r].owner = p \/ p \in Auditors
    \/ requests[r].owner \in Employees /\ ManagerOf[requests[r].owner] = p

Own(b, visible) ==
    \A r \in DOMAIN visible : r \in Requests /\ login[b] # Nobody /\ Sees(login[b], r)

(* Rows on a page, and the answer on its way to it, are of its login.       *)
RowsInv ==
    /\ DOMAIN rows = Browsers /\ DOMAIN read = Browsers
    /\ \A b \in Browsers : Own(b, rows[b]) /\ Own(b, read[b].rows)

PageInv == DialogInv /\ RowsInv

LEMMA EmptyDomain == DOMAIN <<>> = {} /\ NoAnswer.rows = <<>>
BY DEF NoAnswer

LEMMA PageInit ==
  ASSUME NEW open \in BOOLEAN, BoardInit(open)
  PROVE  PageInv
BY EmptyDomain DEF BoardInit, PageInv, DialogInv, RowsInv, Own

LEMMA PageFrame ==
  ASSUME PageInv, UNCHANGED <<requests, login, rows, read, creating>>
  PROVE  PageInv'
BY DEF PageInv, DialogInv, RowsInv, Own, Sees

LEMMA SignInPage ==
  ASSUME BoardInv, PageInv, NEW b \in Browsers, NEW p \in Logins, SignIn(b, p)
  PROVE  PageInv'
<1>1. /\ login[b] = Nobody /\ login' = [login EXCEPT ![b] = p]
      /\ UNCHANGED <<requests, rows, read, creating>> /\ DOMAIN login = Browsers
  BY DEF SignIn, tableVars, BoardInv, CommandInv
<1>2. ~creating[b] /\ DOMAIN rows[b] = {} /\ DOMAIN read[b].rows = {}
  BY <1>1 DEF PageInv, DialogInv, RowsInv, Own
<1>3. DialogInv'
  BY <1>1, <1>2 DEF PageInv, DialogInv
<1>4. RowsInv'
  BY <1>1, <1>2 DEF PageInv, RowsInv, Own, Sees
<1> QED
  BY <1>3, <1>4 DEF PageInv

LEMMA LogoutPage ==
  ASSUME BoardInv, PageInv, NEW b \in Browsers, Logout(b)
  PROVE  PageInv'
<1>1. /\ login' = [login EXCEPT ![b] = Nobody]
      /\ rows' = [rows EXCEPT ![b] = <<>>]
      /\ read' = [read EXCEPT ![b] = NoAnswer]
      /\ creating' = [creating EXCEPT ![b] = FALSE]
      /\ UNCHANGED requests /\ DOMAIN login = Browsers
  BY DEF Logout, tableVars, BoardInv, CommandInv
<1>2. DialogInv'
  BY <1>1 DEF PageInv, DialogInv
<1>3. RowsInv'
  BY <1>1, EmptyDomain DEF PageInv, RowsInv, Own, Sees
<1> QED
  BY <1>2, <1>3 DEF PageInv

LEMMA VisibleIsOwn ==
  ASSUME NEW b \in Browsers, login[b] # Nobody, NEW p, p = login[b]
  PROVE  Own(b, Visible(p))
<1>1. DOMAIN Visible(p) = {x \in Requests : CanSee(p, x)}
  BY DEF Visible
<1> QED
  BY <1>1 DEF Own, CanSee, Sees

LEMMA ReadPage ==
  ASSUME PageInv, NEW b \in Browsers, RowsRead(b)
  PROVE  PageInv'
<1> DEFINE answer == [of |-> login[b], rows |-> Visible(login[b])]
<1>1. /\ read' = [read EXCEPT ![b] = answer]
      /\ UNCHANGED <<requests, login, rows, creating>>
      /\ Own(b, Visible(login[b]))
  BY VisibleIsOwn DEF RowsRead, tableVars
<1>2. answer.rows = Visible(login[b])
  OBVIOUS
<1> HIDE DEF answer
<1>3. \A x \in Browsers : read'[x].rows = IF x = b THEN Visible(login[b]) ELSE read[x].rows
  BY <1>1, <1>2 DEF PageInv, RowsInv
<1>4. \A x \in Browsers : Own(x, rows'[x]) /\ Own(x, read'[x].rows)
  BY <1>1, <1>3 DEF PageInv, RowsInv
<1>5. \A x \in Browsers : Own(x, rows[x])' /\ Own(x, read[x].rows)'
  BY <1>1, <1>4 DEF Own, Sees
<1> QED
  BY <1>1, <1>5 DEF PageInv, RowsInv, DialogInv

LEMMA ShownPage ==
  ASSUME PageInv, NEW b \in Browsers, RowsShown(b)
  PROVE  PageInv'
<1>1. /\ rows' = [rows EXCEPT ![b] = read[b].rows]
      /\ read' = [read EXCEPT ![b] = NoAnswer]
      /\ UNCHANGED <<requests, login, creating>>
  BY DEF RowsShown, tableVars
<1>2. Own(b, read[b].rows) /\ Own(b, NoAnswer.rows)
  BY EmptyDomain DEF PageInv, RowsInv, Own
<1>3. \A x \in Browsers : Own(x, rows'[x]) /\ Own(x, read'[x].rows)
  BY <1>1, <1>2 DEF PageInv, RowsInv
<1>4. \A x \in Browsers : Own(x, rows[x])' /\ Own(x, read[x].rows)'
  BY <1>1, <1>3 DEF Own, Sees
<1> QED
  BY <1>1, <1>4 DEF PageInv, RowsInv, DialogInv

LEMMA DialogPage ==
  ASSUME PageInv, NEW b \in Browsers, OpenDialog(b) \/ CloseRequestDialog(b)
  PROVE  PageInv'
<1>1. /\ UNCHANGED <<requests, login, rows, read>>
      /\ \/ creating' = [creating EXCEPT ![b] = TRUE] /\ login[b] \in Employees
         \/ creating' = [creating EXCEPT ![b] = FALSE]
  BY DEF OpenDialog, CloseRequestDialog, tableVars
<1>2. RowsInv'
  BY <1>1 DEF PageInv, RowsInv, Own, Sees
<1>3. DialogInv'
  BY <1>1, BoardAssumption DEF PageInv, DialogInv, Logins
<1> QED
  BY <1>2, <1>3 DEF PageInv

(* A change of a request takes it from nobody's view: its owner stays.      *)
LEMMA RunsPage ==
  ASSUME BoardInv, PageInv, NEW c \in Calls, CommandRuns(c)
  PROVE  PageInv'
<1> DEFINE k == calls[c]
           row == [owner |-> IF k.op = "draft" THEN k.by ELSE requests[k.req].owner,
                   status |-> k.op]
<1>1. /\ Granted(k.by, k.op, k.req) /\ k.req \in Requests
      /\ requests' = [requests EXCEPT ![k.req] = row]
      /\ UNCHANGED <<login, rows, read, creating>>
  BY DEF CommandRuns, pageVars, BoardInv, CommandInv, UnderWay
<1>2. k.op = "draft" => requests[k.req].owner = Nobody
  BY <1>1 DEF Granted, NoRequest
<1>3. \A r \in Requests :
          requests[r].owner # Nobody => requests'[r].owner = requests[r].owner
  BY <1>1, <1>2 DEF BoardInv, TableTypes
<1>4. \A r \in Requests, b \in Browsers :
          login[b] # Nobody /\ Sees(login[b], r) => Sees(login[b], r)'
  BY <1>1, <1>3, BoardAssumption DEF Sees, Logins
<1>5. \A b \in Browsers : Own(b, rows[b])' /\ Own(b, read[b].rows)'
  BY <1>1, <1>4 DEF PageInv, RowsInv, Own
<1> QED
  BY <1>1, <1>5 DEF PageInv, RowsInv, DialogInv

LEMMA SettlePage ==
  ASSUME BoardInv, PageInv, NEW c \in Calls, CommandRefused(c) \/ CommandFails(c) \/ CommandTold(c)
  PROVE  PageInv'
<1> DEFINE k == calls[c]
<1>1. UnderWay(c) /\ UNCHANGED <<requests, login, read>>
  BY DEF CommandRefused, CommandFails, CommandTold, UnderWay, tableVars
<1>2. DialogInv'
  <2>1. \/ UNCHANGED creating
        \/ creating' = [creating EXCEPT ![k.at] = FALSE]
    BY DEF CommandRefused, CommandFails, CommandTold, Settle
  <2> QED
    BY <1>1, <2>1 DEF PageInv, DialogInv
<1>3. CASE UNCHANGED rows
  BY <1>1, <1>2, <1>3 DEF PageInv, RowsInv, Own, Sees
<1>4. CASE k.at # Nobody /\ rows' = [rows EXCEPT ![k.at] = Visible(k.by)]
  <2>1. k.at \in Browsers /\ login[k.at] = k.by /\ k.by \in Logins /\ k.by # Nobody
    BY <1>1, <1>4, BoardAssumption DEF BoardInv, CommandInv, CommandType
  <2>2. Own(k.at, Visible(k.by))
    BY <2>1, VisibleIsOwn
  <2> HIDE DEF k
  <2>3. \A x \in Browsers : Own(x, rows'[x]) /\ Own(x, read[x].rows)
    BY <1>4, <2>1, <2>2 DEF PageInv, RowsInv
  <2>4. \A x \in Browsers : Own(x, rows[x])' /\ Own(x, read[x].rows)'
    BY <1>1, <2>3 DEF Own, Sees
  <2> QED
    BY <1>1, <1>2, <1>4, <2>4 DEF PageInv, RowsInv
<1> QED
  BY <1>3, <1>4 DEF CommandRefused, CommandFails, CommandTold
-----------------------------------------------------------------------------
LEMMA BoardStepInv == BoardInv /\ PageInv /\ [BoardNext]_boardVars => BoardInv' /\ PageInv'
<1> SUFFICES ASSUME BoardInv, PageInv, [BoardNext]_boardVars PROVE BoardInv' /\ PageInv'
  OBVIOUS
<1>1. ASSUME NEW b \in Browsers, NEW p \in Logins, SignIn(b, p) PROVE BoardInv' /\ PageInv'
  BY <1>1, SignInBoard, SignInPage
<1>2. ASSUME NEW b \in Browsers, Logout(b) PROVE BoardInv' /\ PageInv'
  BY <1>2, LogoutBoard, LogoutPage
<1>3. ASSUME NEW b \in Browsers, RowsRead(b) PROVE BoardInv' /\ PageInv'
  BY <1>3, BoardFrame, ReadPage DEF RowsRead
<1>4. ASSUME NEW b \in Browsers, RowsShown(b) PROVE BoardInv' /\ PageInv'
  BY <1>4, BoardFrame, ShownPage DEF RowsShown
<1>5. ASSUME NEW b \in Browsers, OpenDialog(b) \/ CloseRequestDialog(b)
      PROVE  BoardInv' /\ PageInv'
  BY <1>5, BoardFrame, DialogPage DEF OpenDialog, CloseRequestDialog
<1>6. ASSUME NEW b \in Browsers, NEW c \in Calls, NEW r \in Requests, AskCreate(b, c, r)
      PROVE  BoardInv' /\ PageInv'
  <2>1. login[b] # Nobody
    BY <1>6 DEF AskCreate, PageInv, DialogInv
  <2>2. BoardInv'
    BY <1>6, <2>1, AskBoard DEF AskCreate
  <2>3. PageInv'
    BY <1>6, PageFrame DEF AskCreate, tableVars
  <2> QED
    BY <2>2, <2>3
<1>7. ASSUME NEW b \in Browsers, NEW c \in Calls, NEW r \in Requests,
             NEW op \in {"submitted", "cancelled", "approved", "rejected"},
             AskChange(b, c, op, r)
      PROVE  BoardInv' /\ PageInv'
  <2>1. login[b] # Nobody
    BY <1>7, BoardAssumption DEF AskChange, Offered, Logins
  <2>2. op \in {"draft", "submitted"} \cup Final
    BY DEF Final
  <2>3. BoardInv'
    BY <1>7, <2>1, <2>2, AskBoard DEF AskChange
  <2>4. PageInv'
    BY <1>7, PageFrame DEF AskChange, tableVars
  <2> QED
    BY <2>3, <2>4
<1>8. ASSUME NEW c \in Calls, CommandRuns(c) PROVE BoardInv' /\ PageInv'
  BY <1>8, RunsBoard, RunsPage
<1>9. ASSUME NEW c \in Calls, CommandRefused(c) \/ CommandFails(c) \/ CommandTold(c)
      PROVE  BoardInv' /\ PageInv'
  <2>1. UNCHANGED <<tableVars, login>> /\ \E k : After(c, k) /\ Settle(c, k)
    BY <1>9 DEF CommandRefused, CommandFails, CommandTold, After
  <2>2. \/ UNCHANGED toldOk
        \/ calls[c].stage = "ran" /\ toldOk' = toldOk \cup {<<calls[c].req, calls[c].op>>}
    BY <1>9 DEF CommandRefused, CommandFails, CommandTold
  <2> QED
    BY <1>9, <2>1, <2>2, SettleBoard, SettlePage
<1>10. CASE UNCHANGED boardVars
  BY <1>10, BoardFrame, PageFrame DEF boardVars, tableVars
<1> QED
  BY <1>1, <1>2, <1>3, <1>4, <1>5, <1>6, <1>7, <1>8, <1>9, <1>10 DEF BoardNext
-----------------------------------------------------------------------------
LoadType == [queue : Queues, by : {"refresh", "click"}, got : {<<>>} \cup {<<s>> : s \in SUBSET Ids}]
ClickType ==
    [stage : {"idle", "asked", "refreshing"}, queue : Queues \cup {NoQueue}, id : Ids \cup {0}]

(* Lists are read for queues, and rendered as the queue's they were read    *)
(* from; what a click asks for is a message.                                *)
ViewInv ==
    /\ present \subseteq Queues /\ cards \subseteq Queues
    /\ gotQueues \in {<<>>} \cup {<<s>> : s \in SUBSET Queues}
    /\ selected \in Queues \cup {NoQueue}
    /\ loads \subseteq LoadType
    /\ listed.from = listed.queue /\ listed.ids \subseteq Ids
    /\ listed.ids # {} => listed.queue \in Queues
    /\ clicks \in [ClickSlots -> ClickType]
    /\ \A s \in ClickSlots :
           clicks[s].stage = "asked" => clicks[s].queue \in Queues /\ clicks[s].id \in Ids

(* A queue that was dropped has nothing waiting, and what was told happened.*)
ToldInv ==
    /\ message \in [Messages -> {"waiting", "taken", "gone"}]
    /\ confirmed \in [Messages -> Nat]
    /\ \A m \in Messages : m[1] \notin present => message[m] # "waiting"
    /\ \A m \in Messages :
           \/ confirmed[m] = 0
           \/ confirmed[m] = 1 /\ (message[m] = "taken" \/ m[1] \notin present)

LEMMA ViewInit ==
  ASSUME NEW open \in BOOLEAN, QueueInit(open)
  PROVE  ViewInv
BY DEF QueueInit, ViewInv, NoRows, NoClick, ClickType

LEMMA ToldInit ==
  ASSUME NEW open \in BOOLEAN, QueueInit(open)
  PROVE  ToldInv
<1>1. \A m \in Messages : m[1] \in Queues
  BY DEF Messages
<1>2. CASE open
  <2>1. /\ message = [m \in Messages |-> "waiting"] /\ present = Queues
        /\ confirmed = [m \in Messages |-> 0]
    BY <1>2 DEF QueueInit
  <2>2. message \in [Messages -> {"waiting", "taken", "gone"}]
    BY <2>1
  <2>3. confirmed \in [Messages -> Nat] /\ \A m \in Messages : confirmed[m] = 0
    BY <2>1
  <2>4. \A m \in Messages : m[1] \in present
    BY <1>1, <2>1
  <2>5. \A m \in Messages : m[1] \notin present => message[m] # "waiting"
    BY <2>4
  <2> QED
    BY <2>2, <2>3, <2>5 DEF ToldInv
<1>3. CASE ~open
  BY <1>1, <1>3 DEF QueueInit, ToldInv
<1> QED
  BY <1>2, <1>3

LEMMA ViewFrame ==
  ASSUME ViewInv, present' \subseteq present,
         UNCHANGED <<cards, gotQueues, selected, loads, listed, clicks>>
  PROVE  ViewInv'
BY DEF ViewInv

LEMMA RefreshViews ==
  ASSUME ViewInv
  PROVE  /\ RefreshStarts => gotQueues' \in {<<>>, gotQueues}
         /\ RefreshEnds => /\ gotQueues' = <<>> /\ clicks' \in [ClickSlots -> ClickType]
                           /\ \A s \in ClickSlots :
                                  clicks'[s].stage = "asked" => clicks'[s] = clicks[s]
<1>1. NoClick.stage # "asked" /\ NoClick \in ClickType
  BY DEF NoClick, ClickType
<1> QED
  BY <1>1 DEF ViewInv, RefreshStarts, RefreshEnds, refreshVars

(* Steps that only start or end a refresh, and take loads away.             *)
LEMMA ViewRefresh ==
  ASSUME ViewInv, UNCHANGED <<present, cards, selected, listed>>, loads' \subseteq LoadType,
         \/ RefreshStarts /\ UNCHANGED clicks
         \/ RefreshEnds
         \/ UNCHANGED <<refreshVars, clicks>>
  PROVE  ViewInv'
<1>1. gotQueues' \in {<<>>, gotQueues} /\ clicks' \in [ClickSlots -> ClickType]
  BY RefreshViews DEF ViewInv, refreshVars
<1>2. \A s \in ClickSlots : clicks'[s].stage = "asked" => clicks'[s] = clicks[s]
  BY RefreshViews
<1> QED
  BY <1>1, <1>2 DEF ViewInv

LEMMA LoadsView ==
  ASSUME ViewInv, NEW l \in loads, LoadRuns(l)
  PROVE  ViewInv'
<1> DEFINE s == {i \in Ids : message[<<l.queue, i>>] = "waiting"}
<1>1. l \in LoadType /\ s \subseteq Ids
  BY DEF ViewInv
<1>2. [l EXCEPT !.got = <<s>>] \in LoadType
  BY <1>1 DEF LoadType
<1>3. loads' \subseteq LoadType
  BY <1>2 DEF LoadRuns, ViewInv
<1>4. UNCHANGED <<present, cards, selected, listed>>
  BY DEF LoadRuns, databaseVars, viewVars
<1>5. RefreshEnds \/ UNCHANGED <<refreshVars, clicks>>
  BY DEF LoadRuns
<1> QED
  BY <1>3, <1>4, <1>5, ViewRefresh

LEMMA ShownView ==
  ASSUME ViewInv, NEW l \in loads, LoadShown(l)
  PROVE  ViewInv'
<1>1. l.got[1] \subseteq Ids /\ l.queue \in Queues
  BY DEF LoadShown, ViewInv, LoadType
<1>2. /\ UNCHANGED <<present, cards, selected>> /\ loads' \subseteq LoadType
      /\ \/ listed' = listed
         \/ selected = l.queue /\ listed' = [from |-> l.queue, queue |-> selected, ids |-> l.got[1]]
      /\ RefreshEnds \/ UNCHANGED <<refreshVars, clicks>>
  BY DEF LoadShown, databaseVars, viewVars, ViewInv
<1>3. /\ listed'.from = listed'.queue /\ listed'.ids \subseteq Ids
      /\ listed'.ids # {} => listed'.queue \in Queues
  BY <1>1, <1>2 DEF ViewInv
<1>4. gotQueues' \in {<<>>, gotQueues} /\ clicks' \in [ClickSlots -> ClickType]
  BY <1>2, RefreshViews DEF ViewInv, refreshVars
<1>5. \A s \in ClickSlots : clicks'[s].stage = "asked" => clicks'[s] = clicks[s]
  BY <1>2, RefreshViews
<1> QED
  BY <1>2, <1>3, <1>4, <1>5 DEF ViewInv

LEMMA RendersView ==
  ASSUME ViewInv, RefreshRenders
  PROVE  ViewInv'
<1>1. gotQueues[1] \subseteq Queues
  BY DEF RefreshRenders, ViewInv
<1>2. /\ present' = present /\ cards' = gotQueues[1]
      /\ selected' = IF selected \in gotQueues[1] THEN selected ELSE NoQueue
      /\ listed' \in {NoRows, listed}
      /\ loads' = loads \/
           /\ selected' # NoQueue
           /\ loads' = loads \cup {[queue |-> selected', by |-> "refresh", got |-> <<>>]}
      /\ RefreshEnds \/ UNCHANGED <<gotQueues, clicks>>
  BY DEF RefreshRenders, databaseVars
<1>3. loads' \subseteq LoadType
  BY <1>1, <1>2 DEF ViewInv, LoadType
<1>4. /\ listed'.from = listed'.queue /\ listed'.ids \subseteq Ids
      /\ listed'.ids # {} => listed'.queue \in Queues
  BY <1>2 DEF ViewInv, NoRows
<1>5. gotQueues' \in {<<>>, gotQueues} /\ clicks' \in [ClickSlots -> ClickType]
  BY <1>2, RefreshViews DEF ViewInv
<1>6. \A s \in ClickSlots : clicks'[s].stage = "asked" => clicks'[s] = clicks[s]
  BY <1>2, RefreshViews
<1> QED
  BY <1>1, <1>2, <1>3, <1>4, <1>5, <1>6 DEF ViewInv

LEMMA SelectView ==
  ASSUME ViewInv, NEW q \in Queues, Select(q)
  PROVE  ViewInv'
<1>1. [queue |-> q, by |-> "click", got |-> <<>>] \in LoadType
  BY DEF LoadType
<1> QED
  BY <1>1 DEF Select, databaseVars, refreshVars, ViewInv

LEMMA PressView ==
  ASSUME ViewInv, NEW s \in ClickSlots, NEW i \in Ids, Press(s, i)
  PROVE  ViewInv'
<1> DEFINE k == [stage |-> "asked", queue |-> listed.queue, id |-> i]
<1>1. k \in ClickType /\ k.queue \in Queues /\ k.id \in Ids /\ clicks' = [clicks EXCEPT ![s] = k]
  BY DEF Press, ViewInv, ClickType
<1>2. UNCHANGED <<present, cards, gotQueues, selected, loads, listed>>
  BY DEF Press, databaseVars, viewVars, refreshVars
<1> HIDE DEF k
<1> QED
  BY <1>1, <1>2 DEF ViewInv

LEMMA ActionView ==
  ASSUME ViewInv, NEW s \in ClickSlots, ActionDone(s) \/ ActionMissing(s)
  PROVE  ViewInv'
<1>1. /\ UNCHANGED <<present, cards, selected, loads, listed>>
      /\ gotQueues' \in {<<>>, gotQueues}
  BY RefreshViews DEF ActionDone, ActionMissing, databaseVars, viewVars, refreshVars
<1>2. \/ clicks' = [clicks EXCEPT ![s] = NoClick]
      \/ clicks' = [clicks EXCEPT ![s] = [clicks[s] EXCEPT !.stage = "refreshing"]]
  BY DEF ActionDone, ActionMissing
<1>3. /\ NoClick.stage # "asked" /\ NoClick \in ClickType
      /\ [clicks[s] EXCEPT !.stage = "refreshing"].stage # "asked"
      /\ [clicks[s] EXCEPT !.stage = "refreshing"] \in ClickType
  <2>1. clicks[s] \in ClickType
    BY DEF ViewInv
  <2> QED
    BY <2>1 DEF NoClick, ClickType
<1>4. /\ clicks' \in [ClickSlots -> ClickType]
      /\ \A t \in ClickSlots : clicks'[t].stage = "asked" => clicks'[t] = clicks[t]
  BY <1>2, <1>3 DEF ViewInv
<1> QED
  BY <1>1, <1>4 DEF ViewInv

LEMMA ViewStepInv == ViewInv /\ [QueueNext]_queueVars => ViewInv'
<1> SUFFICES ASSUME ViewInv, [QueueNext]_queueVars PROVE ViewInv'
  OBVIOUS
<1>0. loads \subseteq LoadType
  BY DEF ViewInv
<1>1. ASSUME NEW m \in Messages, Consume(m) PROVE ViewInv'
  BY <1>1, ViewFrame DEF Consume, viewVars, refreshVars
<1>2. ASSUME NEW q \in Queues, DropQueue(q) PROVE ViewInv'
  BY <1>2, ViewFrame DEF DropQueue, viewVars, refreshVars
<1>3. CASE Interval
  BY <1>0, <1>3, ViewRefresh DEF Interval, databaseVars, viewVars
<1>4. CASE ReadQueues
  BY <1>4 DEF ReadQueues, databaseVars, viewVars, ViewInv
<1>5. CASE RefreshFails
  BY <1>0, <1>5, ViewRefresh DEF RefreshFails, databaseVars, viewVars
<1>6. CASE Reconnect
  BY <1>6, ViewFrame DEF Reconnect, databaseVars, viewVars, refreshVars
<1>7. CASE PoolEnds
  BY <1>0, <1>7, ViewRefresh DEF PoolEnds, databaseVars, viewVars
<1>8. CASE UNCHANGED queueVars
  BY <1>8, ViewFrame DEF queueVars
<1> QED
  BY <1>1, <1>2, <1>3, <1>4, <1>5, <1>6, <1>7, <1>8, LoadsView, ShownView, RendersView,
     SelectView, PressView, ActionView DEF QueueNext, PageWork

LEMMA ToldStepInv == ViewInv /\ ToldInv /\ [QueueNext]_queueVars => ToldInv'
<1> SUFFICES ASSUME ViewInv, ToldInv, [QueueNext]_queueVars PROVE ToldInv'
  OBVIOUS
<1>1. ASSUME NEW m \in Messages, Consume(m) PROVE ToldInv'
  BY <1>1 DEF Consume, ToldInv
<1>2. ASSUME NEW q \in Queues, DropQueue(q) PROVE ToldInv'
  BY <1>2 DEF DropQueue, ToldInv
<1>3. ASSUME NEW s \in ClickSlots, ActionDone(s) PROVE ToldInv'
  <2> DEFINE m == <<clicks[s].queue, clicks[s].id>>
  <2>1. m \in Messages
    BY <1>3 DEF ActionDone, ViewInv, Messages
  <2>2. /\ message[m] = "waiting" /\ message' = [message EXCEPT ![m] = "taken"]
        /\ confirmed' = [confirmed EXCEPT ![m] = @ + 1] /\ present' = present
    BY <1>3 DEF ActionDone
  <2> HIDE DEF m
  <2>3. confirmed[m] = 0
    BY <2>1, <2>2 DEF ToldInv
  <2> QED
    BY <2>1, <2>2, <2>3 DEF ToldInv
<1>4. UNCHANGED <<message, present, confirmed>>
        \/ (\E m \in Messages : Consume(m)) \/ (\E q \in Queues : DropQueue(q))
        \/ (\E s \in ClickSlots : ActionDone(s))
  BY DEF QueueNext, PageWork, Interval, ReadQueues, RefreshRenders, RefreshFails, Select,
         LoadRuns, LoadShown, Press, ActionMissing, Reconnect, PoolEnds, databaseVars, queueVars
<1>5. CASE UNCHANGED <<message, present, confirmed>>
  BY <1>5 DEF ToldInv
<1> QED
  BY <1>1, <1>2, <1>3, <1>4, <1>5

LEMMA ToldGives == ToldInv => ToldOnce
BY DEF ToldInv, ToldOnce
-----------------------------------------------------------------------------
AuditRow == [req : Requests, actor : Logins, from : Statuses, to : Statuses]

(* Besides the history: a request of which the audit speaks is there, so    *)
(* that a draft is its first row and its owner does not change afterwards.  *)
AuditInv ==
    /\ audit \in Seq(AuditRow)
    /\ AuditTellsHistory
    /\ \A r \in Requests : RowsAbout(r) # {} => requests[r].status # "none"

LEMMA AuditInit ==
  ASSUME NEW open \in BOOLEAN, BoardInit(open)
  PROVE  AuditInv
<1>1. audit = <<>> /\ requests = Seed
  BY DEF BoardInit
<1>2. audit \in Seq(AuditRow) /\ \A r \in Requests : RowsAbout(r) = {}
  BY <1>1, EmptySeq DEF RowsAbout
<1> QED
  BY <1>1, <1>2 DEF AuditInv, AuditTellsHistory

LEMMA AuditFrame ==
  ASSUME AuditInv, UNCHANGED tableVars
  PROVE  AuditInv'
<1>1. requests' = requests /\ audit' = audit
  BY DEF tableVars
<1>2. \A r : RowsAbout(r)' = RowsAbout(r)
  BY <1>1 DEF RowsAbout
<1> QED
  BY <1>1, <1>2 DEF AuditInv, AuditTellsHistory

(* What a change appends: from the status the request has, by its owner or, *)
(* for a decision, the owner's manager.                                     *)
LEMMA RunsAppends ==
  ASSUME BoardInv, NEW c \in Calls, CommandRuns(c)
  PROVE  \E q \in Requests, row \in AuditRow, owner \in Logins \cup {Nobody} :
             /\ audit' = Append(audit, row) /\ row.req = q
             /\ row.from = requests[q].status /\ row.from \notin Final
             /\ row.to \in {"draft", "submitted"} \cup Final
             /\ requests' = [requests EXCEPT ![q] = [owner |-> owner, status |-> row.to]]
             /\ owner = requests[q].owner \/ requests[q].status = "none"
             /\ row.actor = IF row.to \in {"approved", "rejected"} THEN ManagerOf[owner]
                            ELSE owner
<1> DEFINE k == calls[c]
           q == k.req
           owner == IF k.op = "draft" THEN k.by ELSE requests[q].owner
           row == [req |-> q, actor |-> k.by, from |-> requests[q].status, to |-> k.op]
<1>1. /\ k \in CommandType /\ k.stage = "asked" /\ Granted(k.by, k.op, q)
      /\ requests' = [requests EXCEPT ![q] = [owner |-> owner, status |-> k.op]]
      /\ audit' = Append(audit, row)
  BY DEF CommandRuns, BoardInv, CommandInv
<1>2. q \in Requests /\ k.by \in Logins /\ k.op \in {"draft", "submitted"} \cup Final
  BY <1>1 DEF BoardInv, CommandInv, UnderWay, CommandType
<1>3. requests[q].status \notin Final /\ requests[q].status \in Statuses
      /\ requests[q].owner \in Logins \cup {Nobody}
  BY <1>1, <1>2, GrantedNotFinal DEF BoardInv, TableTypes, RequestType
<1>4. row \in AuditRow
  BY <1>2, <1>3 DEF AuditRow, Statuses, Final
<1>5. owner = requests[q].owner \/ requests[q].status = "none"
  BY <1>1 DEF Granted, NoRequest
<1>6. k.by = IF k.op \in {"approved", "rejected"} THEN ManagerOf[owner] ELSE owner
  <2>1. CASE k.op = "draft"
    BY <2>1
  <2>2. CASE k.op = "submitted"
    BY <1>1, <2>2 DEF Granted
  <2>3. CASE k.op = "cancelled"
    BY <1>1, <2>3 DEF Granted
  <2>4. CASE k.op \in {"approved", "rejected"}
    BY <1>1, <2>4 DEF Granted
  <2> QED
    BY <1>2, <2>1, <2>2, <2>3, <2>4 DEF Final
<1>7. owner \in Logins \cup {Nobody}
  BY <1>2, <1>3
<1> QED
  BY <1>1, <1>2, <1>3, <1>4, <1>5, <1>6, <1>7

LEMMA AuditRuns ==
  ASSUME BoardInv, AuditInv, NEW c \in Calls, CommandRuns(c)
  PROVE  AuditInv'
<1>1. PICK q \in Requests, row \in AuditRow, owner \in Logins \cup {Nobody} :
             /\ audit' = Append(audit, row) /\ row.req = q
             /\ row.from = requests[q].status /\ row.from \notin Final
             /\ row.to \in {"draft", "submitted"} \cup Final
             /\ requests' = [requests EXCEPT ![q] = [owner |-> owner, status |-> row.to]]
             /\ owner = requests[q].owner \/ requests[q].status = "none"
             /\ row.actor = IF row.to \in {"approved", "rejected"} THEN ManagerOf[owner]
                            ELSE owner
  BY RunsAppends
<1> DEFINE n == Len(audit)
<1>2. n \in Nat /\ audit \in Seq(AuditRow) /\ DOMAIN audit = 1..n
  BY LenProperties DEF AuditInv
<1>3. /\ audit' \in Seq(AuditRow) /\ DOMAIN audit' = 1..n + 1 /\ audit'[n + 1] = row
      /\ \A i \in 1..n : audit'[i] = audit[i]
  BY <1>1, <1>2, AppendProperties, LenProperties
<1> HIDE DEF n
<1>4. /\ requests'[q].owner = owner /\ requests'[q].status = row.to
      /\ \A r \in Requests \ {q} : requests'[r] = requests[r]
  BY <1>1 DEF BoardInv, TableTypes
<1>5. \A r \in Requests \ {q} : RowsAbout(r)' = RowsAbout(r)
  BY <1>1, <1>2, <1>3 DEF RowsAbout
<1>6. RowsAbout(q)' = RowsAbout(q) \cup {n + 1} /\ RowsAbout(q) \subseteq 1..n
  BY <1>1, <1>2, <1>3 DEF RowsAbout
<1>7. \A r \in Requests : RowsAbout(r) \subseteq 1..n
  BY <1>2 DEF RowsAbout
<1>8. row.to # "none"
  BY <1>1 DEF Final
<1>9. ASSUME NEW r \in Requests, RowsAbout(r)' # {} PROVE requests'[r].status # "none"
  BY <1>4, <1>5, <1>8, <1>9 DEF AuditInv
<1>10. AuditTellsHistory'
  <2> SUFFICES ASSUME NEW r \in Requests
      PROVE  /\ RowsAbout(r)' = {} => requests'[r].status = Seed[r].status
             /\ \A i \in RowsAbout(r)' :
                   /\ audit'[i].from \notin Final
                   /\ audit'[i].actor = IF audit'[i].to \in {"approved", "rejected"}
                                        THEN ManagerOf[requests'[r].owner]
                                        ELSE requests'[r].owner
                   /\ (\A j \in RowsAbout(r)' : i <= j) => audit'[i].from = Seed[r].status
                   /\ (\A j \in RowsAbout(r)' : j <= i) => audit'[i].to = requests'[r].status
                   /\ \A j \in RowsAbout(r)' :
                          j < i /\ ~(\E k \in RowsAbout(r)' : j < k /\ k < i) =>
                              audit'[i].from = audit'[j].to
    BY DEF AuditTellsHistory
  <2> DEFINE at == RowsAbout(r)
  <2>1. /\ at = {} => requests[r].status = Seed[r].status
        /\ \A i \in at :
              /\ audit[i].from \notin Final
              /\ audit[i].actor = IF audit[i].to \in {"approved", "rejected"}
                                  THEN ManagerOf[requests[r].owner] ELSE requests[r].owner
              /\ (\A j \in at : i <= j) => audit[i].from = Seed[r].status
              /\ (\A j \in at : j <= i) => audit[i].to = requests[r].status
              /\ \A j \in at :
                     j < i /\ ~(\E k \in at : j < k /\ k < i) => audit[i].from = audit[j].to
    BY DEF AuditInv, AuditTellsHistory
  <2>2. at \subseteq 1..n /\ \A i \in at : audit'[i] = audit[i]
    BY <1>3, <1>7
  <2>3. CASE r # q
    <3>1. RowsAbout(r)' = at /\ requests'[r] = requests[r]
      BY <1>4, <1>5, <2>3
    <3> HIDE DEF at
    <3> QED
      BY <2>1, <2>2, <3>1
  <2>4. CASE r = q
    <3>1. RowsAbout(r)' = at \cup {n + 1}
      BY <1>6, <2>4
    <3>2. at # {} => requests[r].status # "none"
      BY DEF AuditInv
    <3> HIDE DEF at
    <3>3. at # {} => owner = requests[r].owner
      BY <1>1, <2>4, <3>2
    <3>4. ASSUME NEW i \in at
          PROVE  /\ audit'[i].from \notin Final
                 /\ audit'[i].actor = IF audit'[i].to \in {"approved", "rejected"}
                                      THEN ManagerOf[owner] ELSE owner
                 /\ (\A j \in at \cup {n + 1} : i <= j) => audit'[i].from = Seed[r].status
                 /\ ~(\A j \in at \cup {n + 1} : j <= i)
                 /\ \A j \in at \cup {n + 1} :
                        j < i /\ ~(\E k \in at \cup {n + 1} : j < k /\ k < i) =>
                            audit'[i].from = audit'[j].to
      <4>1. i \in 1..n /\ audit'[i] = audit[i]
        BY <2>2
      <4>2. \A j \in at : audit'[j] = audit[j]
        BY <2>2
      <4>3. ~(n + 1 <= i) /\ ~(n + 1 < i)
        BY <1>2, <4>1
      <4>4. audit'[i].from \notin Final
            /\ audit'[i].actor = IF audit'[i].to \in {"approved", "rejected"}
                                 THEN ManagerOf[owner] ELSE owner
        BY <2>1, <3>3, <4>1
      <4>5. (\A j \in at \cup {n + 1} : i <= j) => audit'[i].from = Seed[r].status
        BY <2>1, <4>1
      <4>6. ASSUME NEW j \in at \cup {n + 1}, j < i,
                   ~(\E k \in at \cup {n + 1} : j < k /\ k < i)
            PROVE  audit'[i].from = audit'[j].to
        <5>1. j \in at /\ ~(\E k \in at : j < k /\ k < i)
          BY <4>3, <4>6
        <5> QED
          BY <2>1, <4>1, <4>2, <4>6, <5>1
      <4> QED
        BY <4>3, <4>4, <4>5, <4>6
    <3>5. (\A j \in at \cup {n + 1} : n + 1 <= j) => row.from = Seed[r].status
      <4> SUFFICES ASSUME \A j \in at \cup {n + 1} : n + 1 <= j PROVE at = {}
        BY <1>1, <2>1, <2>4
      <4> QED
        BY <1>2, <2>2
    <3>6. ASSUME NEW j \in at \cup {n + 1}, j < n + 1,
                 ~(\E k \in at \cup {n + 1} : j < k /\ k < n + 1)
          PROVE  row.from = audit'[j].to
      <4>1. j \in at
        BY <1>2, <3>6
      <4>2. ASSUME NEW k \in at PROVE k <= j
        <5>1. k \in 1..n /\ j \in 1..n
          BY <2>2, <4>1
        <5>2. ~(j < k /\ k < n + 1)
          BY <3>6
        <5> QED
          BY <1>2, <5>1, <5>2
      <4> QED
        BY <1>1, <2>1, <2>2, <2>4, <4>1, <4>2
    <3>7. audit'[n + 1] = row /\ requests'[r].owner = owner /\ requests'[r].status = row.to
      BY <1>3, <1>4, <2>4
    <3>8. ASSUME NEW i \in at \cup {n + 1}
          PROVE  /\ audit'[i].from \notin Final
                 /\ audit'[i].actor = IF audit'[i].to \in {"approved", "rejected"}
                                      THEN ManagerOf[owner] ELSE owner
                 /\ (\A j \in at \cup {n + 1} : i <= j) => audit'[i].from = Seed[r].status
                 /\ (\A j \in at \cup {n + 1} : j <= i) => audit'[i].to = row.to
                 /\ \A j \in at \cup {n + 1} :
                        j < i /\ ~(\E k \in at \cup {n + 1} : j < k /\ k < i) =>
                            audit'[i].from = audit'[j].to
      <4>1. CASE i \in at
        BY <3>4, <4>1
      <4>2. CASE i = n + 1
        BY <1>1, <3>5, <3>6, <3>7, <4>2
      <4> QED
        BY <4>1, <4>2
    <3> QED
      BY <3>1, <3>7, <3>8
  <2> QED
    BY <2>3, <2>4
<1> QED
  BY <1>3, <1>9, <1>10 DEF AuditInv

LEMMA AuditStepInv == BoardInv /\ AuditInv /\ [BoardNext]_boardVars => AuditInv'
<1> SUFFICES ASSUME BoardInv, AuditInv, [BoardNext]_boardVars PROVE AuditInv'
  OBVIOUS
<1>1. UNCHANGED tableVars \/ \E c \in Calls : CommandRuns(c)
  BY DEF BoardNext, SignIn, Logout, RowsRead, RowsShown, OpenDialog, CloseRequestDialog,
     AskCreate, AskChange, CommandRefused, CommandFails, CommandTold, boardVars, tableVars
<1> QED
  BY <1>1, AuditFrame, AuditRuns
-----------------------------------------------------------------------------
JobRow ==
    [id : Nat, name : Names \cup {NoName}, active : BOOLEAN, db : Databases \cup {Home}]
JobForm ==
    [name : Names \cup {NoName}, active : BOOLEAN, db : Databases \cup {Home},
     original : Databases \cup {Home}, cross : BOOLEAN]
SaveType == [step : {"none", "asked", "pause", "ran"}, job : Nat, form : JobForm]
CallType == [stage : {"no", "asked", "ran"}, action : {"none", "toggle", "delete"}, row : JobRow]
ReadType == [stage : {"no", "asked", "read"}, rows : SUBSET JobRow]

JobTypes ==
    /\ nextJob \in Nat /\ cron \in SUBSET JobRow /\ jobs \in SUBSET JobRow
    /\ reading \in ReadType
    /\ dialog \in [kind : {"none", "create", "edit"}, row : JobRow]
    /\ saving \in SaveType
    /\ click \in CallType
    /\ pausedTold \in SUBSET Nat /\ reactivated \in SUBSET Nat

(* The user was told that job i is paused, or a command which paused it has *)
(* run and is to be answered.                                               *)
Paused(i) ==
    \/ i \in pausedTold
    \/ saving.step = "ran" /\ saving.job = i /\ ~saving.form.active
    \/ click.stage = "ran" /\ click.action # "delete" /\ click.row.id = i /\ click.row.active

(* The sequence gives every id once, so that no job is paused before it is  *)
(* there; the job of a second query is there already.  A name is that of    *)
(* one job: schedule() of an existing one keeps its job.                    *)
JobInv ==
    /\ JobTypes
    /\ \A r \in cron : r.id < nextJob
    /\ \A r, s \in cron : r.id = s.id => r = s
    /\ \A r, s \in cron : r.name = s.name /\ r.name # NoName => r = s
    /\ \A i \in Nat : Paused(i) => i < nextJob
    /\ saving.step = "pause" => saving.job < nextJob
    /\ \A r \in cron : Paused(r.id) /\ r.active => r.id \in reactivated

LEMMA JobConstants ==
  /\ NoRow \in JobRow /\ NoForm \in JobForm
  /\ NoSave \in SaveType /\ NoSave.step = "none"
  /\ NoDialog \in [kind : {"none", "create", "edit"}, row : JobRow]
  /\ NoCall \in CallType /\ NoCall.stage = "no"
  /\ NoRead \in ReadType
<1>1. NoRow \in JobRow /\ NoForm \in JobForm
  BY DEF NoRow, NoForm, JobRow, JobForm
<1> QED
  BY <1>1 DEF NoSave, NoDialog, NoCall, NoRead, SaveType, CallType, ReadType

LEMMA JobInit ==
  ASSUME NEW open \in BOOLEAN, CronInit(open)
  PROVE  JobInv
<1> DEFINE first == [id |-> 1, name |-> NoName, active |-> TRUE, db |-> Home]
<1>1. first \in JobRow /\ first.id = 1
  BY DEF JobRow
<1>2. /\ cron = {first} /\ nextJob = 2 /\ jobs = {} /\ reading = NoRead /\ dialog = NoDialog
      /\ saving = NoSave /\ click = NoCall /\ pausedTold = {} /\ reactivated = {}
  BY DEF CronInit
<1> HIDE DEF first
<1>3. JobTypes
  BY <1>1, <1>2, JobConstants DEF JobTypes
<1>4. \A i : ~Paused(i)
  BY <1>2, JobConstants DEF Paused
<1> QED
  BY <1>1, <1>2, <1>3, <1>4, JobConstants DEF JobInv

LEMMA RefreshingType ==
  JobTypes => Refreshing \in ReadType
BY JobConstants DEF JobTypes, Refreshing, ReadType

(* Steps that pause no job and change at most the page, or take jobs away.  *)
LEMMA JobFrame ==
  ASSUME JobInv, JobTypes', cron' \subseteq cron, UNCHANGED <<nextJob, reactivated>>,
         \A i \in Nat : Paused(i)' => Paused(i),
         saving' = saving \/ saving'.step # "pause"
  PROVE  JobInv'
<1>1. \A r \in cron : r.id \in Nat
  BY DEF JobInv, JobTypes, JobRow
<1> QED
  BY <1>1 DEF JobInv

(* What the user is told, and what is still to be answered, did not grow.   *)
LEMMA PausedFrame ==
  ASSUME pausedTold' = pausedTold,
         saving' = saving \/ saving'.step # "ran",
         click' = click \/ click'.stage # "ran"
  PROVE  \A i \in Nat : Paused(i)' => Paused(i)
BY DEF Paused

(* A row of the table is changed, but not its id or name, by a command that *)
(* names "active" unless that stays; no other job is paused by it.          *)
LEMMA JobAltered ==
  ASSUME JobInv, JobTypes', NEW r \in cron, NEW s \in JobRow, s.id = r.id, s.name = r.name,
         cron' = Altered(r, s), nextJob' = nextJob,
         saving'.step # "pause" \/ saving' = saving,
         \A i \in Nat : Paused(i)' => Paused(i) \/ i = r.id,
         \/ Commanded(r.id, s.active)
         \/ reactivated' = reactivated /\ s.active = r.active /\ (Paused(r.id)' => Paused(r.id))
  PROVE  JobInv'
<1>1. cron' = (cron \ {r}) \cup {s}
  BY DEF Altered
<1>2. \A x \in cron : x.id \in Nat /\ (x.id = r.id => x = r)
  BY DEF JobInv, JobTypes, JobRow
<1>3. \A x \in cron : x.name = r.name /\ r.name # NoName => x = r
  BY DEF JobInv
<1>4. /\ \A x \in cron' : x.id < nextJob'
      /\ \A x, y \in cron' : x.id = y.id => x = y
      /\ \A x, y \in cron' : x.name = y.name /\ x.name # NoName => x = y
  BY <1>1, <1>2, <1>3 DEF JobInv
<1>5. \A i \in Nat : Paused(i)' => i < nextJob'
  BY DEF JobInv
<1>6. \A x \in cron' : Paused(x.id)' /\ x.active => x.id \in reactivated'
  <2> SUFFICES ASSUME NEW x \in cron', Paused(x.id)', x.active PROVE x.id \in reactivated'
    OBVIOUS
  <2>1. CASE x = s
    <3>1. CASE Commanded(r.id, s.active)
      BY <2>1, <3>1 DEF Commanded
    <3>2. CASE reactivated' = reactivated /\ s.active = r.active /\ (Paused(r.id)' => Paused(r.id))
      BY <2>1, <3>2 DEF JobInv
    <3> QED
      BY <3>1, <3>2
  <2>2. CASE x # s
    <3>1. x \in cron /\ x.id # r.id /\ x.id \in Nat
      BY <1>1, <1>2, <2>2
    <3>2. x.id \in reactivated
      BY <3>1 DEF JobInv
    <3> QED
      BY <3>1, <3>2 DEF Commanded
  <2> QED
    BY <2>1, <2>2
<1>7. saving'.step = "pause" => saving'.job < nextJob'
  BY DEF JobInv
<1> QED
  BY <1>4, <1>5, <1>6, <1>7 DEF JobInv

LEMMA AlteredType ==
  ASSUME JobTypes, NEW r, NEW s \in JobRow, cron' = Altered(r, s)
  PROVE  cron' \in SUBSET JobRow
BY DEF JobTypes, Altered

LEMMA CommandedType ==
  ASSUME JobTypes, NEW i \in Nat, NEW active, Commanded(i, active)
  PROVE  reactivated' \in SUBSET Nat
BY DEF JobTypes, Commanded

LEMMA OtherAltersJobs ==
  ASSUME JobInv, NEW r \in cron, NEW active \in BOOLEAN, NEW db \in Databases,
         OtherAlters(r, active, db)
  PROVE  JobInv'
<1> DEFINE s == [r EXCEPT !.active = active, !.db = db]
<1>1. r \in JobRow /\ r.id \in Nat
  BY DEF JobInv, JobTypes, JobRow
<1>2. s \in JobRow /\ s.id = r.id /\ s.name = r.name /\ s.active = active
  BY <1>1 DEF JobRow
<1>3. /\ cron' = Altered(r, s)
      /\ UNCHANGED <<nextJob, jobs, reading, dialog, saving, click, pausedTold>>
      /\ \/ active = r.active /\ reactivated' = reactivated
         \/ Commanded(r.id, active)
  BY DEF OtherAlters, commandVars
<1> HIDE DEF s
<1>4. JobTypes'
  BY <1>1, <1>2, <1>3, AlteredType, CommandedType DEF JobInv, JobTypes
<1>5. \A i \in Nat : Paused(i)' => Paused(i)
  BY <1>3, PausedFrame
<1> QED
  BY <1>1, <1>2, <1>3, <1>4, <1>5, JobAltered

LEMMA SaveEditJobs ==
  ASSUME JobInv, SaveEdit
  PROVE  JobInv'
<1> DEFINE f == saving.form
<1>1. PICK r \in cron :
        /\ r.id = saving.job
        /\ cron' = Altered(r, [r EXCEPT !.active = f.active, !.db = NewDatabase(f, r.db)])
        /\ Commanded(r.id, f.active)
  BY DEF SaveEdit
<1> DEFINE s == [r EXCEPT !.active = f.active, !.db = NewDatabase(f, r.db)]
<1>2. r \in JobRow /\ r.id \in Nat /\ saving \in SaveType /\ f \in JobForm
  BY DEF JobInv, JobTypes, JobRow, SaveType
<1>3. f.active \in BOOLEAN /\ NewDatabase(f, r.db) \in Databases \cup {Home}
  BY <1>2 DEF JobForm, JobRow, NewDatabase
<1>4. s \in JobRow /\ s.id = r.id /\ s.name = r.name /\ s.active = f.active
  BY <1>2, <1>3 DEF JobRow
<1>5. cron' = Altered(r, s)
  BY <1>1
<1>6. /\ UNCHANGED <<nextJob, jobs, reading, dialog, click, pausedTold>>
      /\ saving' = [saving EXCEPT !.step = "ran"]
  BY DEF SaveEdit
<1>7. saving' \in SaveType /\ saving'.step = "ran" /\ saving'.job = r.id
  BY <1>1, <1>2, <1>6 DEF SaveType
<1> HIDE DEF s, f
<1>8. JobTypes'
  BY <1>1, <1>2, <1>4, <1>5, <1>6, <1>7, AlteredType, CommandedType DEF JobInv, JobTypes
<1>9. \A i \in Nat : Paused(i)' => Paused(i) \/ i = r.id
  BY <1>6, <1>7 DEF Paused
<1> QED
  BY <1>1, <1>4, <1>5, <1>6, <1>7, <1>8, <1>9, JobAltered

LEMMA SavePauseJobs ==
  ASSUME JobInv, SavePause
  PROVE  JobInv'
<1>1. PICK r \in cron : /\ r.id = saving.job
                        /\ cron' = Altered(r, [r EXCEPT !.active = FALSE])
                        /\ Commanded(r.id, FALSE)
  BY DEF SavePause
<1> DEFINE s == [r EXCEPT !.active = FALSE]
<1>2. r \in JobRow /\ r.id \in Nat /\ saving \in SaveType
  BY DEF JobInv, JobTypes, JobRow
<1>3. s \in JobRow /\ s.id = r.id /\ s.name = r.name /\ s.active = FALSE
  BY <1>2 DEF JobRow
<1>4. /\ cron' = Altered(r, s) /\ UNCHANGED <<nextJob, jobs, reading, dialog, click, pausedTold>>
      /\ saving' = [saving EXCEPT !.step = "ran"]
  BY <1>1 DEF SavePause
<1>5. saving' \in SaveType /\ saving'.step = "ran" /\ saving'.job = r.id
  BY <1>1, <1>2, <1>4 DEF SaveType
<1> HIDE DEF s
<1>6. JobTypes'
  BY <1>1, <1>2, <1>3, <1>4, <1>5, AlteredType, CommandedType DEF JobInv, JobTypes
<1>7. \A i \in Nat : Paused(i)' => Paused(i) \/ i = r.id
  BY <1>4, <1>5 DEF Paused
<1> QED
  BY <1>1, <1>3, <1>4, <1>5, <1>6, <1>7, JobAltered

(* What is told was to be answered.                                         *)
LEMMA ToldJobs ==
  ASSUME JobInv, SaveTold \/ ClickTold
  PROVE  JobInv'
<1>1. /\ UNCHANGED <<cron, nextJob, jobs, reactivated>>
      /\ reading' \in ReadType
  BY RefreshingType DEF SaveTold, ClickTold, JobInv
<1>2. saving \in SaveType /\ click \in CallType
  BY DEF JobInv, JobTypes
<1>3. CASE SaveTold
  <2>1. /\ saving.step = "ran" /\ Told(saving.job, saving.form.active)
        /\ saving' = NoSave /\ dialog' = NoDialog /\ click' = click /\ saving.job \in Nat
    BY <1>2, <1>3 DEF SaveTold, SaveType
  <2>2. \A i \in Nat : Paused(i)' => Paused(i)
    BY <2>1, JobConstants DEF Told, Paused
  <2>3. pausedTold' \in SUBSET Nat
    BY <2>1 DEF Told, JobInv, JobTypes
  <2>4. JobTypes'
    BY <1>1, <2>1, <2>3, JobConstants DEF JobInv, JobTypes
  <2> QED
    BY <1>1, <2>1, <2>2, <2>4, JobConstants, JobFrame
<1>4. CASE ClickTold
  <2>1. /\ click.stage = "ran" /\ click' = NoCall /\ UNCHANGED <<dialog, saving>>
        /\ \/ pausedTold' = pausedTold
           \/ click.action # "delete" /\ Told(click.row.id, ~click.row.active)
        /\ click.row.id \in Nat /\ click.action \in {"none", "toggle", "delete"}
    BY <1>2, <1>4 DEF ClickTold, CallType, JobRow
  <2>2. \A i \in Nat : Paused(i)' => Paused(i)
    BY <2>1, JobConstants DEF Told, Paused
  <2>3. pausedTold' \in SUBSET Nat
    BY <2>1 DEF Told, JobInv, JobTypes
  <2>4. JobTypes'
    BY <1>1, <2>1, <2>3, JobConstants DEF JobInv, JobTypes
  <2> QED
    BY <1>1, <2>1, <2>2, <2>4, JobFrame
<1> QED
  BY <1>3, <1>4

LEMMA ClickJobs ==
  ASSUME JobInv, ClickRuns
  PROVE  JobInv'
<1>1. PICK r \in Hit :
        IF click.action = "delete"
        THEN cron' = cron \ {r} /\ UNCHANGED reactivated
        ELSE /\ cron' = Altered(r, [r EXCEPT !.active = ~click.row.active])
             /\ Commanded(r.id, ~click.row.active)
  BY DEF ClickRuns
<1>2. /\ r \in cron /\ r \in JobRow /\ r.id \in Nat
      /\ UNCHANGED <<nextJob, jobs, reading, dialog, saving, pausedTold>>
      /\ click' = [click EXCEPT !.stage = "ran"] /\ click \in CallType
  BY <1>1 DEF ClickRuns, Hit, JobInv, JobTypes, JobRow
<1>3. /\ click' \in CallType /\ click'.stage = "ran"
      /\ click'.action = click.action /\ click'.row = click.row
  BY <1>2 DEF CallType
<1>4. CASE click.action = "delete"
  <2>1. cron' \subseteq cron /\ reactivated' = reactivated
    BY <1>1, <1>4
  <2>2. JobTypes'
    BY <1>2, <1>3, <2>1 DEF JobInv, JobTypes
  <2>3. \A i \in Nat : Paused(i)' => Paused(i)
    BY <1>2, <1>3, <1>4 DEF Paused
  <2> QED
    BY <1>2, <2>1, <2>2, <2>3, JobFrame
<1>5. CASE click.action # "delete"
  <2> DEFINE s == [r EXCEPT !.active = ~click.row.active]
  <2>1. s \in JobRow /\ s.id = r.id /\ s.name = r.name /\ s.active = ~click.row.active
    BY <1>2 DEF JobRow
  <2>2. cron' = Altered(r, s) /\ Commanded(r.id, s.active)
    BY <1>1, <1>5, <2>1
  <2>3. r.id = click.row.id
    BY <1>1, <1>5 DEF Hit
  <2> HIDE DEF s
  <2>4. JobTypes'
    BY <1>2, <1>3, <2>1, <2>2, AlteredType, CommandedType DEF JobInv, JobTypes
  <2>5. \A i \in Nat : Paused(i)' => Paused(i) \/ i = r.id
    BY <1>2, <1>3, <2>3 DEF Paused
  <2> QED
    BY <1>2, <2>1, <2>2, <2>4, <2>5, JobAltered
<1> QED
  BY <1>4, <1>5

LEMMA SaveCreateJobs ==
  ASSUME JobInv, SaveCreate
  PROVE  JobInv'
<1> DEFINE f == saving.form
<1> DEFINE same == {r \in cron : r.name = f.name /\ f.name # NoName}
<1> DEFINE old == CHOOSE r \in same : TRUE
<1> DEFINE id == IF same = {} THEN nextJob ELSE old.id
<1> DEFINE row == [id |-> id, name |-> f.name, active |-> f.active \/ ~f.cross, db |-> f.db]
<1> DEFINE both(r) == [r EXCEPT !.active = f.active, !.db = f.db]
<1>1. /\ nextJob' = IF same = {} THEN nextJob + 1 ELSE nextJob
      /\ cron' = IF same = {} THEN cron \cup {row}
                 ELSE IF f.cross THEN {IF r \in same THEN both(r) ELSE r : r \in cron} ELSE cron
      /\ IF f.cross THEN Commanded(id, f.active) ELSE UNCHANGED reactivated
      /\ saving' = [saving EXCEPT !.job = id, !.step = IF SecondQuery(f) THEN "pause" ELSE "ran"]
      /\ saving.step = "asked"
      /\ UNCHANGED <<jobs, reading, dialog, click, pausedTold>>
  BY DEF SaveCreate
<1>2. saving \in SaveType /\ f \in JobForm /\ cron \in SUBSET JobRow /\ nextJob \in Nat
  BY DEF JobInv, JobTypes, SaveType
<1>3. /\ f.active \in BOOLEAN /\ f.cross \in BOOLEAN /\ f.db \in Databases \cup {Home}
      /\ f.name \in Names \cup {NoName}
  BY <1>2 DEF JobForm
<1>4. /\ same # {} => old \in cron /\ old.name = f.name /\ f.name # NoName
      /\ same \in SUBSET {old}
  <2>1. same # {} => old \in same
    OBVIOUS
  <2>2. \A r \in same : old \in same /\ r = old
    <3> HIDE DEF old
    <3> QED
      BY <2>1 DEF JobInv
  <2> QED
    BY <2>1, <2>2
<1>5. id \in Nat /\ nextJob' \in Nat /\ id < nextJob' /\ nextJob <= nextJob'
  <2>1. \A r \in cron : r.id \in Nat /\ r.id < nextJob
    BY <1>2 DEF JobInv, JobRow
  <2> HIDE DEF same, old
  <2>2. CASE same = {}
    BY <1>1, <1>2, <2>2
  <2>3. CASE same # {}
    <3>1. nextJob' = nextJob /\ id = old.id /\ old \in cron
      BY <1>1, <1>4, <2>3
    <3> HIDE DEF id
    <3> QED
      BY <1>2, <2>1, <3>1
  <2> QED
    BY <2>2, <2>3
<1>6. \A r \in cron : /\ both(r) \in JobRow /\ both(r).id = r.id /\ both(r).name = r.name
                      /\ both(r).active = f.active
  BY <1>2, <1>3 DEF JobRow
<1>7. row \in JobRow /\ row.id = id /\ row.name = f.name /\ row.active = (f.active \/ ~f.cross)
  <2> HIDE DEF id, f
  <2> QED
    BY <1>3, <1>5 DEF JobRow
<1> HIDE DEF row, id, both, old
<1>8. cron' \in SUBSET JobRow
  BY <1>1, <1>2, <1>6, <1>7
<1>9. /\ saving' \in SaveType /\ saving'.job = id /\ saving'.form = f
      /\ saving'.step = IF SecondQuery(f) THEN "pause" ELSE "ran"
  <2>1. /\ saving'.job = id /\ saving'.form = f
        /\ saving'.step = IF SecondQuery(f) THEN "pause" ELSE "ran"
    BY <1>1, <1>2 DEF SaveType
  <2> HIDE DEF f, same
  <2> QED
    BY <1>1, <1>2, <1>5, <2>1 DEF SaveType
<1>10. \A i \in Nat : Paused(i)' => Paused(i) \/ (i = id /\ f.cross /\ ~f.active)
  <2> HIDE DEF same
  <2> QED
    BY <1>1, <1>3, <1>9 DEF Paused, SecondQuery
<1>11. reactivated' \in SUBSET Nat
  <2> HIDE DEF f, same
  <2> QED
    BY <1>1, <1>3, <1>5, CommandedType DEF JobInv, JobTypes
<1>12. JobTypes'
  <2> HIDE DEF f, same
  <2> QED
    BY <1>1, <1>5, <1>8, <1>9, <1>11 DEF JobInv, JobTypes
<1>13. \A i \in Nat : Paused(i)' => i < nextJob'
  <2>1. \A i \in Nat : Paused(i) => i < nextJob
    BY DEF JobInv
  <2> QED
    BY <1>2, <1>5, <1>10, <2>1
<1>14. \A r \in cron : /\ r.id \in Nat /\ r.id < nextJob
                       /\ Paused(r.id) /\ r.active => r.id \in reactivated
  BY <1>2 DEF JobInv, JobRow
<1>15. CASE same = {}
  <2>1. cron' = cron \cup {row} /\ id = nextJob
    BY <1>1, <1>15 DEF id
  <2>2. \A r \in cron : r.id # row.id /\ r.id < nextJob'
    BY <1>2, <1>5, <1>7, <1>14, <2>1
  <2>3. \A r \in cron : f.name # NoName => r.name # row.name
    BY <1>7, <1>15
  <2>4. ~Paused(id)
    BY <1>2, <2>1 DEF JobInv
  <2>5. \A i \in Nat : i = id /\ Paused(i)' => ~row.active
    <3> HIDE DEF f, same
    <3> QED
      BY <1>7, <1>10, <2>4
  <2>6. \A r \in cron : /\ Paused(r.id)' => Paused(r.id)
                        /\ r.id \in reactivated => r.id \in reactivated'
    <3> HIDE DEF f
    <3> QED
      BY <1>1, <1>7, <1>10, <1>14, <2>2 DEF Commanded
  <2>7. \A r \in cron' : Paused(r.id)' /\ r.active => r.id \in reactivated'
    <3> HIDE DEF f
    <3> QED
      BY <1>5, <1>7, <1>14, <2>1, <2>5, <2>6
  <2>8. \A r, s \in cron' : r.id = s.id => r = s
    BY <2>1, <2>2 DEF JobInv
  <2>9. \A r, s \in cron' : r.name = s.name /\ r.name # NoName => r = s
    BY <1>7, <2>1, <2>3 DEF JobInv
  <2>10. \A r \in cron' : r.id < nextJob'
    BY <1>5, <1>7, <2>1, <2>2
  <2> QED
    BY <1>5, <1>9, <1>12, <1>13, <2>7, <2>8, <2>9, <2>10 DEF JobInv
<1>16. CASE same # {} /\ f.cross
  <2>1. cron' = {IF r \in same THEN both(r) ELSE r : r \in cron} /\ old \in cron /\ same = {old}
    BY <1>1, <1>4, <1>16
  <2>2. id = old.id /\ nextJob' = nextJob /\ Commanded(id, f.active)
    BY <1>1, <1>16 DEF id
  <2>3. cron' = Altered(old, both(old))
    <3>1. \A r \in cron : r \in same <=> r = old
      BY <2>1
    <3>2. cron' = {IF r = old THEN both(old) ELSE r : r \in cron}
      BY <2>1, <3>1
    <3> QED
      BY <2>1, <3>2 DEF Altered
  <2>4. saving'.step # "pause"
    BY <1>9, <1>16 DEF SecondQuery
  <2>5. /\ both(old) \in JobRow /\ both(old).id = old.id /\ both(old).name = old.name
        /\ both(old).active = f.active
    BY <1>6, <2>1
  <2>6. \A i \in Nat : Paused(i)' => Paused(i) \/ i = old.id
    BY <1>10, <2>2
  <2> HIDE DEF f, same
  <2> QED
    BY <1>12, <2>1, <2>2, <2>3, <2>4, <2>5, <2>6, JobAltered
<1>17. CASE same # {} /\ ~f.cross
  <2>1. cron' = cron /\ reactivated' = reactivated /\ nextJob' = nextJob
    BY <1>1, <1>17
  <2>2. \A i \in Nat : Paused(i)' => Paused(i)
    BY <1>10, <1>17
  <2>3. saving'.step = "pause" => saving'.job < nextJob'
    BY <1>5, <1>9
  <2>4. \A r \in cron' : Paused(r.id)' /\ r.active => r.id \in reactivated'
    BY <1>14, <2>1, <2>2
  <2> HIDE DEF f, same
  <2> QED
    BY <1>12, <1>13, <2>1, <2>3, <2>4 DEF JobInv
<1> QED
  BY <1>15, <1>16, <1>17

LEMMA JobStepInv == JobInv /\ [CronNext]_cronVars => JobInv'
<1> SUFFICES ASSUME JobInv, [CronNext]_cronVars PROVE JobInv'
  OBVIOUS
<1>1. ASSUME NEW r \in cron, OtherUnschedules(r) PROVE JobInv'
  <2>1. UNCHANGED <<nextJob, jobs, reading, dialog, saving, click, pausedTold, reactivated>>
    BY <1>1 DEF OtherUnschedules, commandVars
  <2>2. cron' \subseteq cron
    BY <1>1 DEF OtherUnschedules
  <2>3. JobTypes'
    BY <2>1, <2>2 DEF JobInv, JobTypes
  <2> QED
    BY <2>1, <2>2, <2>3, JobFrame, PausedFrame
<1>2. CASE JobsAsked \/ JobsRead \/ JobsRendered \/ JobsFail
  <2>1. reading' \in ReadType /\ jobs' \in SUBSET JobRow
    BY <1>2, RefreshingType, JobConstants
       DEF JobsAsked, JobsRead, JobsRendered, JobsFail, JobInv, JobTypes, ReadType
  <2>2. UNCHANGED <<cron, nextJob, dialog, saving, click, pausedTold, reactivated>>
    BY <1>2 DEF JobsAsked, JobsRead, JobsRendered, JobsFail, commandVars
  <2>3. JobTypes'
    BY <2>1, <2>2 DEF JobInv, JobTypes
  <2> QED
    BY <2>2, <2>3, JobFrame, PausedFrame
<1>3. CASE OpenCreateDialog \/ CloseDialog
  <2>1. UNCHANGED <<cron, nextJob, jobs, reading, saving, click, pausedTold, reactivated>>
    BY <1>3 DEF OpenCreateDialog, CloseDialog
  <2>2. JobTypes'
    BY <1>3, <2>1, JobConstants DEF OpenCreateDialog, CloseDialog, JobInv, JobTypes
  <2> QED
    BY <2>1, <2>2, JobFrame, PausedFrame
<1>4. ASSUME NEW row \in jobs, OpenEditDialog(row) PROVE JobInv'
  <2>1. UNCHANGED <<cron, nextJob, jobs, reading, saving, click, pausedTold, reactivated>>
    BY <1>4 DEF OpenEditDialog
  <2>2. JobTypes'
    BY <1>4, <2>1 DEF OpenEditDialog, JobInv, JobTypes
  <2> QED
    BY <2>1, <2>2, JobFrame, PausedFrame
<1>5. ASSUME NEW n \in Names \cup {NoName}, NEW active \in BOOLEAN, NEW cross \in BOOLEAN,
             NEW db \in Databases, SubmitCreate(n, active, db, cross)
      PROVE  JobInv'
  <2>1. saving' \in SaveType /\ saving'.step = "asked"
    BY <1>5 DEF SubmitCreate, JobForm, SaveType
  <2>2. UNCHANGED <<cron, nextJob, jobs, reading, dialog, click, pausedTold, reactivated>>
    BY <1>5 DEF SubmitCreate
  <2>3. JobTypes'
    BY <2>1, <2>2 DEF JobInv, JobTypes
  <2> QED
    BY <2>1, <2>2, <2>3, JobFrame, PausedFrame
<1>6. ASSUME NEW active \in BOOLEAN, NEW db \in Databases, SubmitEdit(active, db) PROVE JobInv'
  <2>1. dialog.row \in JobRow
    BY DEF JobInv, JobTypes
  <2>2. saving' \in SaveType /\ saving'.step = "asked"
    BY <1>6, <2>1 DEF SubmitEdit, JobForm, JobRow, SaveType
  <2>3. UNCHANGED <<cron, nextJob, jobs, reading, dialog, click, pausedTold, reactivated>>
    BY <1>6 DEF SubmitEdit
  <2>4. JobTypes'
    BY <2>2, <2>3 DEF JobInv, JobTypes
  <2> QED
    BY <2>2, <2>3, <2>4, JobFrame, PausedFrame
<1>7. CASE SaveFails
  <2>1. UNCHANGED <<cron, nextJob, jobs, reading, dialog, click, pausedTold, reactivated>>
    BY <1>7 DEF SaveFails
  <2>2. saving' \in SaveType /\ saving'.step = "none"
    BY <1>7, JobConstants DEF SaveFails
  <2>3. JobTypes'
    BY <2>1, <2>2 DEF JobInv, JobTypes
  <2> QED
    BY <2>1, <2>2, <2>3, JobFrame, PausedFrame
<1>8. ASSUME NEW w \in jobs, NEW action \in {"toggle", "delete"}, Click(w, action) PROVE JobInv'
  <2>1. UNCHANGED <<cron, nextJob, jobs, reading, dialog, saving, pausedTold, reactivated>>
    BY <1>8 DEF Click
  <2>2. click' \in CallType /\ click'.stage = "asked"
    BY <1>8 DEF Click, CallType, JobInv, JobTypes
  <2>3. JobTypes'
    BY <2>1, <2>2 DEF JobInv, JobTypes
  <2> QED
    BY <2>1, <2>2, <2>3, JobFrame, PausedFrame
<1>9. CASE ClickFails
  <2>1. UNCHANGED <<cron, nextJob, jobs, reading, dialog, saving, pausedTold, reactivated>>
    BY <1>9 DEF ClickFails
  <2>2. click' \in CallType /\ click'.stage = "no"
    BY <1>9, JobConstants DEF ClickFails
  <2>3. JobTypes'
    BY <2>1, <2>2 DEF JobInv, JobTypes
  <2> QED
    BY <2>1, <2>2, <2>3, JobFrame, PausedFrame
<1>10. CASE UNCHANGED cronVars
  <2>1. UNCHANGED <<cron, nextJob, jobs, reading, dialog, saving, click, pausedTold, reactivated>>
    BY <1>10 DEF cronVars
  <2>2. JobTypes'
    BY <2>1 DEF JobInv, JobTypes
  <2> QED
    BY <2>1, <2>2, JobFrame, PausedFrame
<1> QED
  BY <1>1, <1>2, <1>3, <1>4, <1>5, <1>6, <1>7, <1>8, <1>9, <1>10, OtherAltersJobs, SaveEditJobs,
     SaveCreateJobs, SavePauseJobs, ClickJobs, ToldJobs DEF CronNext

LEMMA EventsStep == events \in Nat /\ [CronNext]_cronVars => events' \in Nat
<1> SUFFICES ASSUME events \in Nat, [CronNext]_cronVars PROVE events' \in Nat
  OBVIOUS
<1>1. events' = events \/ events' = events + 1
  BY DEF CronNext, cronVars, OtherAlters, OtherUnschedules, JobsAsked, JobsRead, JobsRendered,
     JobsFail, OpenCreateDialog, OpenEditDialog, CloseDialog, SubmitCreate, SubmitEdit, SaveEdit,
     SaveCreate, SavePause, SaveTold, SaveFails, Click, ClickRuns, ClickTold, ClickFails, Event
<1> QED
  BY <1>1

(* A changed row that keeps its database, or is told as an event.           *)
LEMMA AlteredKeeps ==
  ASSUME JobInv, NEW r \in cron, NEW s, s.id = r.id, cron' = Altered(r, s)
  PROVE  \A x \in cron, y \in cron' : x.id = y.id /\ x.db # y.db => x = r /\ y = s
BY DEF JobInv, Altered

LEMMA KeepsStep ==
  ASSUME JobInv, events \in Nat, CronNext, NEW r \in cron, NEW s \in cron', r.id = s.id, r.db # s.db
  PROVE  events' # events \/ saving.form.cross \/ saving.form.db # saving.form.original
<1>0. \A x \in cron, y \in cron : x.id = y.id => x = y
  BY DEF JobInv
<1>1. ASSUME cron' \subseteq cron PROVE FALSE
  BY <1>0, <1>1
<1>2. ASSUME NEW q \in cron, NEW active, NEW db, OtherAlters(q, active, db) PROVE events' # events
  BY <1>2 DEF OtherAlters, Event
<1>3. CASE SaveEdit
  <2> DEFINE f == saving.form
  <2>1. PICK q \in cron :
           cron' = Altered(q, [q EXCEPT !.active = f.active, !.db = NewDatabase(f, q.db)])
    BY <1>3 DEF SaveEdit
  <2> DEFINE t == [q EXCEPT !.active = f.active, !.db = NewDatabase(f, q.db)]
  <2>2. q \in JobRow
    BY DEF JobInv, JobTypes
  <2>3. t.id = q.id /\ (f.db = f.original => t.db = q.db)
    BY <2>2 DEF JobRow, NewDatabase
  <2>4. cron' = Altered(q, t)
    BY <2>1
  <2> HIDE DEF t
  <2>5. r = q /\ s = t
    BY <2>3, <2>4, AlteredKeeps
  <2> QED
    BY <2>3, <2>5
<1>4. CASE SaveCreate
  <2> DEFINE f == saving.form
  <2> DEFINE same == {x \in cron : x.name = f.name /\ f.name # NoName}
  <2>1. CASE same = {}
    <3>1. PICK row : row.id = nextJob /\ cron' = cron \cup {row}
      BY <1>4, <2>1 DEF SaveCreate
    <3>2. nextJob \in Nat /\ \A x \in cron : x.id \in Nat /\ x.id < nextJob
      BY DEF JobInv, JobTypes, JobRow
    <3>3. s # row
      BY <3>1, <3>2
    <3> QED
      BY <1>0, <3>1, <3>3
  <2>2. CASE same # {} /\ ~f.cross
    <3>1. cron' = cron
      BY <1>4, <2>2 DEF SaveCreate
    <3> QED
      BY <1>1, <3>1
  <2> QED
    BY <2>1, <2>2
<1>5. CASE SavePause
  <2>1. PICK q \in cron : cron' = Altered(q, [q EXCEPT !.active = FALSE])
    BY <1>5 DEF SavePause
  <2>2. q \in JobRow
    BY DEF JobInv, JobTypes
  <2> DEFINE t == [q EXCEPT !.active = FALSE]
  <2>3. t.id = q.id /\ t.db = q.db /\ cron' = Altered(q, t)
    BY <2>1, <2>2 DEF JobRow
  <2> HIDE DEF t
  <2> QED
    BY <2>3, AlteredKeeps
<1>6. CASE ClickRuns
  <2>1. PICK q \in Hit : \/ cron' = cron \ {q}
                         \/ cron' = Altered(q, [q EXCEPT !.active = ~click.row.active])
    BY <1>6 DEF ClickRuns
  <2>2. q \in cron /\ q \in JobRow
    BY DEF Hit, JobInv, JobTypes
  <2>3. CASE cron' = cron \ {q}
    BY <1>1, <2>3
  <2>4. CASE cron' = Altered(q, [q EXCEPT !.active = ~click.row.active])
    <3> DEFINE t == [q EXCEPT !.active = ~click.row.active]
    <3>1. t.id = q.id /\ t.db = q.db /\ cron' = Altered(q, t)
      BY <2>2, <2>4 DEF JobRow
    <3> HIDE DEF t
    <3> QED
      BY <2>2, <3>1, AlteredKeeps
  <2> QED
    BY <2>1, <2>3, <2>4
<1>7. \/ cron' \subseteq cron
      \/ \E q \in cron, active \in BOOLEAN, db \in Databases : OtherAlters(q, active, db)
      \/ SaveEdit \/ SaveCreate \/ SavePause \/ ClickRuns
  BY DEF CronNext, OtherUnschedules, JobsAsked, JobsRead, JobsRendered,
     JobsFail, OpenCreateDialog, OpenEditDialog, CloseDialog, SubmitCreate, SubmitEdit,
     SaveTold, SaveFails, Click, ClickTold, ClickFails
<1> QED
  BY <1>1, <1>2, <1>3, <1>4, <1>5, <1>6, <1>7
-----------------------------------------------------------------------------
(* The cursor page: a tab which said it leaves is never shown again, for    *)
(* any number of tabs.  A leave is the last message that any tab receives   *)
(* of its sender.                                                           *)
CursorMessage == [from : Tabs, kind : {"alive", "leave"}]

(* A tab that is gone and has nothing under way is not heard of any more.   *)
Silent(p) == phase[p] = "gone" /\ flying[p] = {}

(* A leave is published by a tab that is gone, and is the last that any tab *)
(* receives of it: one publish is under way at a time, and a tab that is    *)
(* gone starts none.  Of a tab that has strayed nothing is said: the query  *)
(* of a message before the leave had rejected, and ran after all.           *)
LeaveTypes ==
    /\ phase \in [Tabs -> {"none", "opening", "live", "broken", "ending", "gone"}]
    /\ pending \in [Tabs -> {"no", "alive", "leave"}] /\ publishing \in [Tabs -> BOOLEAN]
    /\ flying \in [Tabs -> SUBSET CursorMessage]
    /\ late \in [Tabs -> SUBSET CursorMessage] /\ \A p \in Tabs : \A m \in late[p] : m.from = p
    /\ strayed \in SUBSET Tabs
    /\ cursorInbox \in [Tabs -> Seq(CursorMessage)]
    /\ participants \in [Tabs -> SUBSET Tabs] /\ left \in [Tabs -> SUBSET Tabs]

FlyingInv ==
    \A p \in Tabs :
        /\ ~publishing[p] => flying[p] = {}
        /\ \A m \in flying[p] : /\ flying[p] = {m} /\ m.from = p
                                /\ m.kind = "leave" => phase[p] = "gone"

(* What is in an inbox of p: a message, a leave, or a leave and then more.  *)
Heard(q, p) == \E i \in 1..Len(q) : q[i].from = p
HasLeave(q, p) == \E i \in 1..Len(q) : q[i].from = p /\ q[i].kind = "leave"
LeaveLast(q, p) ==
    \A i \in 1..Len(q) : q[i].from = p /\ q[i].kind = "leave" =>
        \A j \in i + 1..Len(q) : q[j].from # p

InboxInv ==
    \A t \in Tabs : \A p \in Tabs \ strayed :
        /\ LeaveLast(cursorInbox[t], p)
        /\ HasLeave(cursorInbox[t], p) => Silent(p)

LeftInv ==
    \A t \in Tabs : \A p \in left[t] \ strayed :
        /\ Silent(p) /\ ~Heard(cursorInbox[t], p)
        /\ p # t => p \notin participants[t]

PendingInv == \A t \in Tabs : pending[t] = "leave" => phase[t] = "gone"

LeaveInv == LeaveTypes /\ FlyingInv /\ InboxInv /\ LeftInv /\ PendingInv

LEMMA EmptyInbox ==
  ASSUME NEW p
  PROVE  ~Heard(<<>>, p) /\ ~HasLeave(<<>>, p) /\ LeaveLast(<<>>, p)
BY EmptySeq DEF Heard, HasLeave, LeaveLast

LEMMA AppendedInbox ==
  ASSUME NEW q \in Seq(CursorMessage), NEW m \in CursorMessage, NEW p
  PROVE  /\ Append(q, m) \in Seq(CursorMessage)
         /\ Heard(Append(q, m), p) => Heard(q, p) \/ m.from = p
         /\ HasLeave(Append(q, m), p) => HasLeave(q, p) \/ (m.from = p /\ m.kind = "leave")
         /\ LeaveLast(q, p) /\ (HasLeave(q, p) => m.from # p) => LeaveLast(Append(q, m), p)
<1> DEFINE a == Append(q, m)
<1> DEFINE n == Len(q)
<1>1. /\ a \in Seq(CursorMessage) /\ Len(a) = n + 1 /\ n \in Nat /\ a[n + 1] = m
      /\ \A i \in 1..n : a[i] = q[i]
  BY AppendProperties, LenProperties
<1> HIDE DEF a, n
<1>2. \A i \in 1..n + 1 : i \in 1..n \/ i = n + 1
  BY <1>1
<1>3. Heard(a, p) => Heard(q, p) \/ m.from = p
  BY <1>1, <1>2 DEF Heard, n
<1>4. HasLeave(a, p) => HasLeave(q, p) \/ (m.from = p /\ m.kind = "leave")
  BY <1>1, <1>2 DEF HasLeave, n
<1>5. ASSUME LeaveLast(q, p), HasLeave(q, p) => m.from # p PROVE LeaveLast(a, p)
  <2> SUFFICES ASSUME NEW i \in 1..n + 1, a[i].from = p, a[i].kind = "leave",
                      NEW j \in i + 1..n + 1
               PROVE  a[j].from # p
    BY <1>1 DEF LeaveLast
  <2>1. i \in 1..n /\ (j \in i + 1..n \/ j = n + 1)
    BY <1>1
  <2>2. q[i].from = p /\ q[i].kind = "leave"
    BY <1>1, <2>1
  <2>3. HasLeave(q, p)
    BY <2>1, <2>2 DEF HasLeave, n
  <2>4. CASE j = n + 1
    BY <1>1, <1>5, <2>3, <2>4
  <2>5. CASE j \in i + 1..n
    <3>1. q[j].from # p
      BY <1>5, <2>1, <2>2, <2>5 DEF LeaveLast, n
    <3>2. j \in 1..n
      BY <1>1, <2>1, <2>5
    <3> QED
      BY <1>1, <3>1, <3>2
  <2> QED
    BY <2>1, <2>4, <2>5
<1> QED
  BY <1>1, <1>3, <1>4, <1>5 DEF a

LEMMA TakenInbox ==
  ASSUME NEW q \in Seq(CursorMessage), q # <<>>, NEW p
  PROVE  /\ Tail(q) \in Seq(CursorMessage) /\ Head(q) \in CursorMessage
         /\ Heard(Tail(q), p) => Heard(q, p)
         /\ HasLeave(Tail(q), p) => HasLeave(q, p)
         /\ LeaveLast(q, p) => LeaveLast(Tail(q), p)
         /\ Head(q).from = p => Heard(q, p)
         /\ Head(q).from = p /\ Head(q).kind = "leave" =>
                /\ HasLeave(q, p)
                /\ LeaveLast(q, p) => ~Heard(Tail(q), p)
<1> DEFINE a == Tail(q)
<1> DEFINE n == Len(q)
<1>1. /\ a \in Seq(CursorMessage) /\ Head(q) \in CursorMessage
      /\ Len(a) = n - 1 /\ \A i \in 1..Len(a) : a[i] = q[i + 1]
  BY HeadTailProperties
<1>2. n \in Nat \ {0} /\ Head(q) = q[1]
  BY EmptySeq, LenProperties
<1> HIDE DEF a, n
<1>3. \A i \in 1..n - 1 : i + 1 \in 1..n /\ a[i] = q[i + 1]
  BY <1>1, <1>2
<1>4. 1 \in 1..n
  BY <1>2
<1>5. /\ Heard(a, p) => Heard(q, p)
      /\ HasLeave(a, p) => HasLeave(q, p)
  BY <1>1, <1>3 DEF Heard, HasLeave, n
<1>6. /\ Head(q).from = p => Heard(q, p)
      /\ Head(q).from = p /\ Head(q).kind = "leave" => HasLeave(q, p)
  BY <1>2, <1>4 DEF Heard, HasLeave, n
<1>7. ASSUME LeaveLast(q, p) PROVE LeaveLast(a, p)
  <2> SUFFICES ASSUME NEW i \in 1..n - 1, a[i].from = p, a[i].kind = "leave",
                      NEW j \in i + 1..n - 1
               PROVE  a[j].from # p
    BY <1>1 DEF LeaveLast
  <2>1. i + 1 \in 1..n /\ j + 1 \in (i + 1) + 1..n /\ j \in 1..n - 1
    BY <1>2
  <2>2. a[i] = q[i + 1] /\ a[j] = q[j + 1]
    BY <1>3, <2>1
  <2> QED
    BY <1>7, <2>1, <2>2 DEF LeaveLast, n
<1>8. ASSUME Head(q).from = p, Head(q).kind = "leave", LeaveLast(q, p) PROVE ~Heard(a, p)
  <2>1. \A j \in 1 + 1..n : q[j].from # p
    BY <1>2, <1>4, <1>8 DEF LeaveLast, n
  <2>2. \A i \in 1..n - 1 : i + 1 \in 1 + 1..n
    BY <1>2
  <2> QED
    BY <1>1, <1>3, <2>1, <2>2 DEF Heard
<1> QED
  BY <1>1, <1>5, <1>6, <1>7, <1>8 DEF a

LEMMA LeaveInit ==
  ASSUME NEW open \in BOOLEAN, CursorInit(open)
  PROVE  LeaveInv
<1>1. /\ phase \in [Tabs -> {"none", "opening", "live", "broken", "ending", "gone"}]
      /\ publishing \in [Tabs -> BOOLEAN] /\ flying = [t \in Tabs |-> {}]
      /\ late = [t \in Tabs |-> {}] /\ strayed = {}
      /\ cursorInbox = [t \in Tabs |-> <<>>] /\ left = [t \in Tabs |-> {}]
      /\ participants \in [Tabs -> SUBSET Tabs] /\ pending = [t \in Tabs |-> "no"]
  BY DEF CursorInit
<1>2. LeaveTypes
  BY <1>1, EmptySeq DEF LeaveTypes
<1>3. FlyingInv /\ LeftInv /\ PendingInv
  BY <1>1 DEF FlyingInv, LeftInv, PendingInv
<1>4. InboxInv
  BY <1>1, EmptyInbox DEF InboxInv
<1> QED
  BY <1>2, <1>3, <1>4 DEF LeaveInv

(* Inboxes that stay or are emptied, and tabs that stay silent.             *)
LEMMA LeaveFrame ==
  ASSUME LeaveInv, LeaveTypes', FlyingInv', PendingInv',
         \A p \in Tabs : Silent(p) => Silent(p)',
         \A t \in Tabs : cursorInbox'[t] = cursorInbox[t] \/ cursorInbox'[t] = <<>>,
         \A t \in Tabs : participants'[t] \subseteq participants[t],
         left' = left, strayed' = strayed
  PROVE  LeaveInv'
<1>1. InboxInv'
  <2> SUFFICES ASSUME NEW t \in Tabs, NEW p \in Tabs \ strayed
               PROVE  (LeaveLast(cursorInbox[t], p) /\ (HasLeave(cursorInbox[t], p) => Silent(p)))'
    BY DEF InboxInv
  <2>1. CASE cursorInbox'[t] = cursorInbox[t]
    <3>1. LeaveLast(cursorInbox[t], p)' <=> LeaveLast(cursorInbox[t], p)
      BY <2>1 DEF LeaveLast
    <3>2. HasLeave(cursorInbox[t], p)' <=> HasLeave(cursorInbox[t], p)
      BY <2>1 DEF HasLeave
    <3> QED
      BY <3>1, <3>2 DEF LeaveInv, InboxInv
  <2>2. CASE cursorInbox'[t] = <<>>
    <3>1. LeaveLast(cursorInbox[t], p)' /\ ~HasLeave(cursorInbox[t], p)'
      BY <2>2, EmptySeq DEF LeaveLast, HasLeave
    <3> QED
      BY <3>1
  <2> QED
    BY <2>1, <2>2
<1>2. LeftInv'
  <2> SUFFICES ASSUME NEW t \in Tabs, NEW p \in left[t] \ strayed
               PROVE  (Silent(p) /\ ~Heard(cursorInbox[t], p) /\ (p # t => p \notin participants[t]))'
    BY DEF LeftInv
  <2>1. p \in Tabs /\ Silent(p)' /\ (p # t => p \notin participants[t]) /\ ~Heard(cursorInbox[t], p)
    BY DEF LeaveInv, LeaveTypes, LeftInv
  <2>2. ~Heard(cursorInbox[t], p)'
    <3>1. CASE cursorInbox'[t] = cursorInbox[t]
      BY <2>1, <3>1 DEF Heard
    <3>2. CASE cursorInbox'[t] = <<>>
      BY <3>2, EmptySeq DEF Heard
    <3> QED
      BY <3>1, <3>2
  <2> QED
    BY <2>1, <2>2
<1> QED
  BY <1>1, <1>2 DEF LeaveInv

(* Steps that leave the publishes of all tabs alone.                        *)
LEMMA LeaveQuiet ==
  ASSUME LeaveInv, UNCHANGED <<publishing, flying>>, LeaveTypes',
         \A p \in Tabs : phase[p] = "gone" => phase'[p] = "gone"
  PROVE  FlyingInv' /\ \A p \in Tabs : Silent(p) => Silent(p)'
BY DEF LeaveInv, FlyingInv, Silent

(* flushPublish() of t with the leave of a tab that goes, or an alive one.  *)
LEMMA LeaveFlush ==
  ASSUME LeaveInv, NEW t \in Tabs, NEW kind \in {"no", "alive", "leave"}, FlushPublish(t, kind),
         \/ phase' = phase /\ kind # "leave"
         \/ Open(t) /\ phase' = [phase EXCEPT ![t] = "gone"]
  PROVE  /\ FlyingInv' /\ \A p \in Tabs : Silent(p) => Silent(p)'
         /\ publishing' \in [Tabs -> BOOLEAN]
         /\ flying' \in [Tabs -> SUBSET CursorMessage]
         /\ phase' \in [Tabs -> {"none", "opening", "live", "broken", "ending", "gone"}]
<1>1. phase' \in [Tabs -> {"none", "opening", "live", "broken", "ending", "gone"}]
  BY DEF LeaveInv, LeaveTypes
<1>2. \A p \in Tabs : phase[p] = "gone" => phase'[p] = "gone"
  BY DEF LeaveInv, LeaveTypes
<1>3. CASE UNCHANGED <<publishing, flying>>
  BY <1>1, <1>2, <1>3 DEF LeaveInv, LeaveTypes, FlyingInv, Silent
<1>4. CASE ~UNCHANGED <<publishing, flying>>
  <2> DEFINE m == [from |-> t, kind |-> kind]
  <2>1. /\ HasPool(t) /\ kind # "no" /\ ~publishing[t]
        /\ publishing' = [publishing EXCEPT ![t] = TRUE]
        /\ flying' = [flying EXCEPT ![t] = @ \cup {m}]
    BY <1>4 DEF FlushPublish, Publish
  <2>2. m \in CursorMessage /\ m.from = t /\ m.kind = kind
    BY <2>1 DEF CursorMessage
  <2>3. flying[t] = {} /\ phase[t] # "gone"
    BY <2>1 DEF LeaveInv, FlyingInv, HasPool
  <2> HIDE DEF m
  <2>4. flying'[t] = {m} /\ \A p \in Tabs \ {t} : flying'[p] = flying[p] /\ publishing'[p] = publishing[p]
    BY <2>1, <2>3 DEF LeaveInv, LeaveTypes
  <2>5. publishing' \in [Tabs -> BOOLEAN] /\ flying' \in [Tabs -> SUBSET CursorMessage]
        /\ publishing'[t]
    BY <2>1, <2>2 DEF LeaveInv, LeaveTypes
  <2>6. kind = "leave" => phase'[t] = "gone"
    BY DEF LeaveInv, LeaveTypes
  <2>7. FlyingInv'
    <3> SUFFICES ASSUME NEW p \in Tabs
                 PROVE  /\ ~publishing'[p] => flying'[p] = {}
                        /\ \A n \in flying'[p] : /\ flying'[p] = {n} /\ n.from = p
                                                 /\ n.kind = "leave" => phase'[p] = "gone"
      BY DEF FlyingInv
    <3>1. CASE p = t
      BY <2>2, <2>4, <2>5, <2>6, <3>1
    <3>2. CASE p # t
      BY <1>2, <2>4, <3>2 DEF LeaveInv, FlyingInv
    <3> QED
      BY <3>1, <3>2
  <2>8. \A p \in Tabs : Silent(p) => Silent(p)'
    BY <1>2, <2>3, <2>4 DEF Silent
  <2> QED
    BY <1>1, <2>5, <2>7, <2>8
<1> QED
  BY <1>3, <1>4

(* The end of a publish.                                                    *)
LEMMA PublishKeeps ==
  ASSUME LeaveInv, NEW t \in Tabs, PublishEnds(t)
  PROVE  pending' = pending /\ publishing' = [publishing EXCEPT ![t] = FALSE]
BY DEF PublishEnds, QueuePublish, LeaveInv, LeaveTypes

LEMMA LeavePublished ==
  ASSUME LeaveInv, NEW t \in Tabs, NEW m \in flying[t],
         flying' = [flying EXCEPT ![t] = @ \ {m}], publishing' = [publishing EXCEPT ![t] = FALSE],
         phase' = phase
  PROVE  /\ FlyingInv' /\ flying'[t] = {} /\ \A p \in Tabs : Silent(p) => Silent(p)' /\ p # t
         /\ publishing' \in [Tabs -> BOOLEAN]
         /\ flying' \in [Tabs -> SUBSET CursorMessage]
<1>1. flying[t] = {m}
  BY DEF LeaveInv, FlyingInv
<1>2. /\ publishing' \in [Tabs -> BOOLEAN] /\ flying' \in [Tabs -> SUBSET CursorMessage]
      /\ flying'[t] = {} /\ ~publishing'[t]
      /\ \A p \in Tabs \ {t} : flying'[p] = flying[p] /\ publishing'[p] = publishing[p]
  BY <1>1 DEF LeaveInv, LeaveTypes
<1>3. FlyingInv'
  BY <1>2 DEF LeaveInv, FlyingInv
<1>4. \A p \in Tabs : Silent(p) => Silent(p)' /\ p # t
  BY <1>1, <1>2 DEF Silent
<1> QED
  BY <1>2, <1>3, <1>4

LEMMA BroadcastInbox ==
  ASSUME LeaveInv, NEW m \in CursorMessage, Broadcast(m)
  PROVE  /\ cursorInbox' \in [Tabs -> Seq(CursorMessage)]
         /\ \A u \in Tabs, p \in Tabs :
                /\ Heard(cursorInbox'[u], p) => Heard(cursorInbox[u], p) \/ m.from = p
                /\ HasLeave(cursorInbox'[u], p) =>
                       HasLeave(cursorInbox[u], p) \/ (m.from = p /\ m.kind = "leave")
                /\ LeaveLast(cursorInbox[u], p) /\ (HasLeave(cursorInbox[u], p) => m.from # p) =>
                       LeaveLast(cursorInbox'[u], p)
<1>1. cursorInbox' = [u \in Tabs |->
          IF phase[u] = "live" THEN Append(cursorInbox[u], m) ELSE cursorInbox[u]]
  BY DEF Broadcast
<1>2. \A u \in Tabs : /\ cursorInbox[u] \in Seq(CursorMessage)
                      /\ cursorInbox'[u] \in {cursorInbox[u], Append(cursorInbox[u], m)}
  BY <1>1 DEF LeaveInv, LeaveTypes
<1>3. \A u \in Tabs : Append(cursorInbox[u], m) \in Seq(CursorMessage)
  BY <1>2, AppendedInbox
<1>4. cursorInbox' \in [Tabs -> Seq(CursorMessage)]
  BY <1>1, <1>2, <1>3
<1>5. ASSUME NEW u \in Tabs, NEW p \in Tabs
      PROVE  /\ Heard(cursorInbox'[u], p) => Heard(cursorInbox[u], p) \/ m.from = p
             /\ HasLeave(cursorInbox'[u], p) =>
                    HasLeave(cursorInbox[u], p) \/ (m.from = p /\ m.kind = "leave")
             /\ LeaveLast(cursorInbox[u], p) /\ (HasLeave(cursorInbox[u], p) => m.from # p) =>
                    LeaveLast(cursorInbox'[u], p)
  <2>1. CASE cursorInbox'[u] = cursorInbox[u]
    BY <2>1
  <2>2. CASE cursorInbox'[u] = Append(cursorInbox[u], m)
    BY <1>2, <2>2, AppendedInbox
  <2> QED
    BY <1>2, <2>1, <2>2
<1> QED
  BY <1>4, <1>5

LEMMA LeaveNotify ==
  ASSUME LeaveInv, NEW t \in Tabs, NEW m \in flying[t], NotifyRuns(t, m)
  PROVE  LeaveInv'
<1>1. /\ flying' = [flying EXCEPT ![t] = @ \ {m}] /\ publishing' = [publishing EXCEPT ![t] = FALSE]
      /\ UNCHANGED <<phase, participants, left, late, strayed>> /\ pending' = pending /\ Broadcast(m)
  BY PublishKeeps DEF NotifyRuns, showVars, lateVars
<1>2. /\ FlyingInv' /\ flying'[t] = {} /\ \A p \in Tabs : Silent(p) => Silent(p)' /\ p # t
      /\ publishing' \in [Tabs -> BOOLEAN] /\ flying' \in [Tabs -> SUBSET CursorMessage]
  BY <1>1, LeavePublished
<1>3. m \in CursorMessage /\ m.from = t /\ (m.kind = "leave" => phase[t] = "gone")
  BY DEF LeaveInv, LeaveTypes, FlyingInv
<1>4. m.kind = "leave" => Silent(t)'
  BY <1>1, <1>2, <1>3 DEF Silent
<1>5. /\ cursorInbox' \in [Tabs -> Seq(CursorMessage)]
      /\ \A u \in Tabs, p \in Tabs :
            /\ Heard(cursorInbox'[u], p) => Heard(cursorInbox[u], p) \/ m.from = p
            /\ HasLeave(cursorInbox'[u], p) =>
                   HasLeave(cursorInbox[u], p) \/ (m.from = p /\ m.kind = "leave")
            /\ LeaveLast(cursorInbox[u], p) /\ (HasLeave(cursorInbox[u], p) => m.from # p) =>
                   LeaveLast(cursorInbox'[u], p)
  BY <1>1, <1>3, BroadcastInbox
<1>6. LeaveTypes' /\ PendingInv'
  BY <1>1, <1>2, <1>5 DEF LeaveInv, LeaveTypes, PendingInv
<1>7. \A u \in Tabs : \A p \in Tabs \ strayed :
          LeaveLast(cursorInbox'[u], p) /\ (HasLeave(cursorInbox'[u], p) => Silent(p)')
  BY <1>2, <1>3, <1>4, <1>5 DEF LeaveInv, InboxInv
<1>8. \A u \in Tabs : \A p \in left[u] \ strayed :
          Silent(p)' /\ ~Heard(cursorInbox'[u], p) /\ (p # u => p \notin participants[u])
  BY <1>2, <1>3, <1>5 DEF LeaveInv, LeaveTypes, LeftInv
<1>9. InboxInv'
  BY <1>1, <1>7 DEF InboxInv, LeaveLast, HasLeave
<1>10. LeftInv'
  BY <1>1, <1>8 DEF LeftInv, Heard
<1> QED
  BY <1>2, <1>6, <1>9, <1>10 DEF LeaveInv

(* A message whose query had rejected runs: its tab has strayed.            *)
LEMMA LeaveLate ==
  ASSUME LeaveInv, NEW t \in Tabs, NEW m \in late[t], LateRuns(t, m)
  PROVE  LeaveInv'
<1>1. /\ UNCHANGED <<phase, pending, publishing, flying, participants, left>> /\ Broadcast(m)
      /\ late' = [late EXCEPT ![t] = @ \ {m}] /\ strayed' = strayed \cup {t}
  BY DEF LateRuns, publishVars, showVars
<1>2. m \in CursorMessage /\ m.from = t
  BY DEF LeaveInv, LeaveTypes
<1>3. /\ cursorInbox' \in [Tabs -> Seq(CursorMessage)]
      /\ \A u \in Tabs, p \in Tabs \ {t} :
            /\ Heard(cursorInbox'[u], p) => Heard(cursorInbox[u], p)
            /\ HasLeave(cursorInbox'[u], p) => HasLeave(cursorInbox[u], p)
            /\ LeaveLast(cursorInbox[u], p) => LeaveLast(cursorInbox'[u], p)
  BY <1>1, <1>2, BroadcastInbox
<1>4. LeaveTypes' /\ PendingInv'
  BY <1>1, <1>3 DEF LeaveInv, LeaveTypes, PendingInv
<1>5. FlyingInv' /\ \A p \in Tabs : Silent(p) => Silent(p)'
  BY <1>1, <1>4, LeaveQuiet
<1>6. \A u \in Tabs : \A p \in Tabs \ strayed' :
          LeaveLast(cursorInbox'[u], p) /\ (HasLeave(cursorInbox'[u], p) => Silent(p)')
  BY <1>1, <1>3, <1>5 DEF LeaveInv, InboxInv
<1>7. \A u \in Tabs : \A p \in left[u] \ strayed' :
          Silent(p)' /\ ~Heard(cursorInbox'[u], p) /\ (p # u => p \notin participants[u])
  BY <1>1, <1>3, <1>5 DEF LeaveInv, LeaveTypes, LeftInv
<1>8. InboxInv'
  BY <1>6 DEF InboxInv, LeaveLast, HasLeave
<1>9. LeftInv'
  BY <1>1, <1>7 DEF LeftInv, Heard
<1> QED
  BY <1>4, <1>5, <1>8, <1>9 DEF LeaveInv

LEMMA LeaveReceive ==
  ASSUME LeaveInv, NEW t \in Tabs, Receive(t)
  PROVE  LeaveInv'
<1> DEFINE q == cursorInbox[t]
<1> DEFINE m == Head(q)
<1>1. /\ q # <<>> /\ cursorInbox' = [cursorInbox EXCEPT ![t] = Tail(q)]
      /\ UNCHANGED <<phase, publishing, flying, late, strayed>>
      /\ \/ /\ m.kind = "leave"
            /\ participants' = [participants EXCEPT ![t] = @ \ ({m.from} \ {t})]
            /\ left' = [left EXCEPT ![t] = @ \cup {m.from}]
         \/ /\ m.kind # "leave"
            /\ participants' = [participants EXCEPT ![t] = @ \cup {m.from}]
            /\ left' = left
      /\ pending' = pending \/ pending' = [pending EXCEPT ![t] = "alive"]
  BY DEF Receive, QueuePublish, lateVars
<1>2. q \in Seq(CursorMessage)
  BY DEF LeaveInv, LeaveTypes
<1>3. cursorInbox'[t] = Tail(q) /\ \A u \in Tabs \ {t} : cursorInbox'[u] = cursorInbox[u]
  BY <1>1 DEF LeaveInv, LeaveTypes
<1>4. m \in CursorMessage /\ Tail(q) \in Seq(CursorMessage)
  BY <1>1, <1>2, HeadTailProperties
<1>5. m.from \in Tabs
  BY <1>4 DEF CursorMessage
<1>6. \A p : Silent(p)' <=> Silent(p)
  BY <1>1 DEF Silent
<1>7. ASSUME NEW p \in Tabs \ strayed
      PROVE  /\ Heard(Tail(q), p) => Heard(q, p)
             /\ HasLeave(Tail(q), p) => HasLeave(q, p)
             /\ LeaveLast(Tail(q), p) /\ (HasLeave(q, p) => Silent(p))
             /\ m.from = p => Heard(q, p)
             /\ m.from = p /\ m.kind = "leave" => Silent(p) /\ ~Heard(Tail(q), p)
  <2>1. LeaveLast(q, p) /\ (HasLeave(q, p) => Silent(p))
    BY DEF LeaveInv, InboxInv
  <2> HIDE DEF q
  <2> QED
    BY <1>1, <1>2, <2>1, TakenInbox
<1> HIDE DEF m
<1>8. LeaveTypes'
  <2>1. cursorInbox' \in [Tabs -> Seq(CursorMessage)]
    BY <1>1, <1>4 DEF LeaveInv, LeaveTypes
  <2>2. participants' \in [Tabs -> SUBSET Tabs] /\ left' \in [Tabs -> SUBSET Tabs]
    <3>1. participants \in [Tabs -> SUBSET Tabs] /\ left \in [Tabs -> SUBSET Tabs]
      BY DEF LeaveInv, LeaveTypes
    <3>2. /\ participants[t] \ ({m.from} \ {t}) \in SUBSET Tabs
          /\ participants[t] \cup {m.from} \in SUBSET Tabs
          /\ left[t] \cup {m.from} \in SUBSET Tabs
      BY <1>5, <3>1
    <3>3. /\ \E v \in SUBSET Tabs : participants' = [participants EXCEPT ![t] = v]
          /\ left' = left \/ \E v \in SUBSET Tabs : left' = [left EXCEPT ![t] = v]
      BY <1>1, <3>2
    <3> QED
      BY <3>1, <3>3
  <2>3. pending' \in [Tabs -> {"no", "alive", "leave"}]
    BY <1>1 DEF LeaveInv, LeaveTypes
  <2> QED
    BY <1>1, <2>1, <2>2, <2>3 DEF LeaveInv, LeaveTypes
<1>9. FlyingInv'
  BY <1>1, <1>8, LeaveQuiet
<1>10. InboxInv'
  <2> SUFFICES ASSUME NEW u \in Tabs, NEW p \in Tabs \ strayed
               PROVE  (LeaveLast(cursorInbox[u], p) /\ (HasLeave(cursorInbox[u], p) => Silent(p)))'
    BY <1>1 DEF InboxInv
  <2>1. CASE u # t
    <3>1. cursorInbox'[u] = cursorInbox[u]
      BY <1>3, <2>1
    <3>2. LeaveLast(cursorInbox[u], p)' <=> LeaveLast(cursorInbox[u], p)
      BY <3>1 DEF LeaveLast
    <3>3. HasLeave(cursorInbox[u], p)' <=> HasLeave(cursorInbox[u], p)
      BY <3>1 DEF HasLeave
    <3> QED
      BY <1>6, <3>2, <3>3 DEF LeaveInv, InboxInv
  <2>2. CASE u = t
    <3>1. cursorInbox'[u] = Tail(q)
      BY <1>3, <2>2
    <3> HIDE DEF q
    <3>2. LeaveLast(cursorInbox[u], p)' <=> LeaveLast(Tail(q), p)
      BY <3>1 DEF LeaveLast
    <3>3. HasLeave(cursorInbox[u], p)' <=> HasLeave(Tail(q), p)
      BY <3>1 DEF HasLeave
    <3> QED
      BY <1>6, <1>7, <3>2, <3>3
  <2> QED
    BY <2>1, <2>2
<1>11. LeftInv'
  <2> SUFFICES ASSUME NEW u \in Tabs, NEW p \in left'[u] \ strayed
               PROVE  Silent(p)' /\ ~Heard(cursorInbox[u], p)' /\ (p # u => p \notin participants'[u])
    BY <1>1 DEF LeftInv
  <2>0. p \in Tabs \ strayed
    BY <1>8 DEF LeaveTypes
  <2>1. CASE u # t
    <3>1. p \in left[u] /\ participants'[u] = participants[u] /\ cursorInbox'[u] = cursorInbox[u]
      BY <1>1, <1>3, <2>1 DEF LeaveInv, LeaveTypes
    <3>2. Heard(cursorInbox[u], p)' <=> Heard(cursorInbox[u], p)
      BY <3>1 DEF Heard
    <3> QED
      BY <1>6, <3>1, <3>2 DEF LeaveInv, LeftInv
  <2>2. CASE u = t
    <3>1. cursorInbox'[u] = Tail(q)
      BY <1>3, <2>2
    <3>2. Heard(cursorInbox[u], p)' <=> Heard(Tail(q), p)
      <4> HIDE DEF q
      <4> QED
        BY <3>1 DEF Heard
    <3>3. CASE p \in left[t]
      <4>1. Silent(p) /\ ~Heard(q, p) /\ (p # t => p \notin participants[t])
        BY <3>3 DEF LeaveInv, LeftInv
      <4>2. m.from # p
        BY <1>7, <2>0, <4>1
      <4>3. p # t => p \notin participants'[t]
        BY <1>1, <4>1, <4>2 DEF LeaveInv, LeaveTypes
      <4> QED
        BY <1>6, <1>7, <2>0, <2>2, <3>2, <4>1, <4>3
    <3>4. CASE p \notin left[t]
      <4>1. m.kind = "leave" /\ p = m.from
        BY <1>1, <2>2, <3>4 DEF LeaveInv, LeaveTypes
      <4>2. p # t => p \notin participants'[t]
        BY <1>1, <4>1 DEF LeaveInv, LeaveTypes
      <4> QED
        BY <1>6, <1>7, <2>0, <2>2, <3>2, <4>1, <4>2
    <3> QED
      BY <3>3, <3>4
  <2> QED
    BY <2>1, <2>2
<1>12. PendingInv'
  BY <1>1 DEF LeaveInv, LeaveTypes, PendingInv
<1> QED
  BY <1>8, <1>9, <1>10, <1>11, <1>12 DEF LeaveInv

LEMMA LeaveStepInv == LeaveInv /\ [CursorNext]_cursorVars => LeaveInv'
<1> SUFFICES ASSUME LeaveInv, [CursorNext]_cursorVars PROVE LeaveInv'
  OBVIOUS
<1>0. LeaveTypes /\ FlyingInv /\ PendingInv
  BY DEF LeaveInv
<1>1. ASSUME NEW t \in Tabs, Heartbeat(t) PROVE LeaveInv'
  <2>1. /\ UNCHANGED <<phase, publishing, flying, cursorInbox, participants, left, late, strayed>>
        /\ pending' = [pending EXCEPT ![t] = "alive"] /\ phase[t] # "gone"
    BY <1>1 DEF Heartbeat, QueuePublish, showVars, lateVars, Open
  <2>2. LeaveTypes' /\ PendingInv'
    BY <1>0, <2>1 DEF LeaveTypes, PendingInv
  <2> QED
    BY <2>1, <2>2, LeaveQuiet, LeaveFrame
<1>2. ASSUME NEW t \in Tabs, TimerFires(t) PROVE LeaveInv'
  <2>1. /\ FlushPublish(t, pending[t]) /\ UNCHANGED <<phase, cursorInbox, participants, left, late, strayed>>
        /\ phase[t] # "gone"
    BY <1>2 DEF TimerFires, showVars, lateVars, Open
  <2>2. pending[t] \in {"no", "alive", "leave"} /\ pending[t] # "leave"
    BY <1>0, <2>1 DEF LeaveTypes, PendingInv
  <2>3. /\ FlyingInv' /\ \A p \in Tabs : Silent(p) => Silent(p)'
        /\ publishing' \in [Tabs -> BOOLEAN] /\ flying' \in [Tabs -> SUBSET CursorMessage]
    BY <2>1, <2>2, LeaveFlush
  <2>4. pending' \in {pending, [pending EXCEPT ![t] = "no"], [pending EXCEPT ![t] = pending[t]]}
    BY <2>1 DEF FlushPublish, Publish
  <2>5. LeaveTypes' /\ PendingInv'
    BY <1>0, <2>1, <2>2, <2>3, <2>4 DEF LeaveTypes, PendingInv
  <2> QED
    BY <2>1, <2>3, <2>5, LeaveFrame
<1>3. ASSUME NEW t \in Tabs, NEW m \in flying[t], PublishFails(t, m) PROVE LeaveInv'
  <2>1. /\ flying' = [flying EXCEPT ![t] = @ \ {m}] /\ pending' = pending
        /\ publishing' = [publishing EXCEPT ![t] = FALSE]
        /\ UNCHANGED <<phase, cursorInbox, participants, left, strayed>>
        /\ late' = late \/ late' = [late EXCEPT ![t] = @ \cup {m}]
    BY <1>3, PublishKeeps DEF PublishFails, showVars
  <2>2. /\ FlyingInv' /\ \A p \in Tabs : Silent(p) => Silent(p)'
        /\ publishing' \in [Tabs -> BOOLEAN] /\ flying' \in [Tabs -> SUBSET CursorMessage]
    BY <2>1, LeavePublished
  <2>3. m \in CursorMessage /\ m.from = t
    BY <1>0 DEF LeaveTypes, FlyingInv
  <2>4. late' \in [Tabs -> SUBSET CursorMessage] /\ \A p \in Tabs : \A n \in late'[p] : n.from = p
    <3>1. late \in [Tabs -> SUBSET CursorMessage] /\ \A p \in Tabs : \A n \in late[p] : n.from = p
      BY <1>0 DEF LeaveTypes
    <3>2. CASE late' = late
      BY <3>1, <3>2
    <3>3. CASE late' = [late EXCEPT ![t] = @ \cup {m}]
      BY <2>3, <3>1, <3>3
    <3> QED
      BY <2>1, <3>2, <3>3
  <2>5. LeaveTypes' /\ PendingInv'
    BY <1>0, <2>1, <2>2, <2>4 DEF LeaveTypes, PendingInv
  <2> QED
    BY <2>1, <2>2, <2>5, LeaveFrame
<1>4. ASSUME NEW t \in Tabs, NEW p \in Tabs, Sweep(t, p) PROVE LeaveInv'
  <2>1. /\ UNCHANGED <<phase, pending, publishing, flying, cursorInbox, left, late, strayed>>
        /\ participants' = [participants EXCEPT ![t] = @ \ {p}]
    BY <1>4 DEF Sweep, publishVars, lateVars
  <2>2. LeaveTypes' /\ PendingInv' /\ \A u \in Tabs : participants'[u] \subseteq participants[u]
    BY <1>0, <2>1 DEF LeaveTypes, PendingInv
  <2> QED
    BY <2>1, <2>2, LeaveQuiet, LeaveFrame
<1>5. ASSUME NEW t \in Tabs, Connect(t) PROVE LeaveInv'
  <2>1. /\ phase[t] # "gone" /\ phase' = [phase EXCEPT ![t] = "ending"]
        /\ pending' = [pending EXCEPT ![t] = "no"] /\ cursorInbox' = [cursorInbox EXCEPT ![t] = <<>>]
        /\ UNCHANGED <<publishing, flying, participants, left, late, strayed>>
    BY <1>5 DEF Connect, showVars, lateVars
  <2>2. /\ LeaveTypes' /\ PendingInv' /\ \A p \in Tabs : phase[p] = "gone" => phase'[p] = "gone"
        /\ \A u \in Tabs : cursorInbox'[u] = cursorInbox[u] \/ cursorInbox'[u] = <<>>
    BY <1>0, <2>1, EmptySeq DEF LeaveTypes, PendingInv
  <2> QED
    BY <2>1, <2>2, LeaveQuiet, LeaveFrame
<1>6. ASSUME NEW t \in Tabs, PoolOpens(t) PROVE LeaveInv'
  <2>1. /\ phase[t] # "gone" /\ phase' = [phase EXCEPT ![t] = "opening"]
        /\ UNCHANGED <<pending, cursorInbox, publishing, flying, participants, left, late, strayed>>
    BY <1>6 DEF PoolOpens, publishVars, showVars, lateVars
  <2>2. LeaveTypes' /\ PendingInv' /\ \A p \in Tabs : phase[p] = "gone" => phase'[p] = "gone"
    BY <1>0, <2>1 DEF LeaveTypes, PendingInv
  <2> QED
    BY <2>1, <2>2, LeaveQuiet, LeaveFrame
<1>7. ASSUME NEW t \in Tabs, Listens(t) PROVE LeaveInv'
  <2>1. /\ phase[t] # "gone" /\ phase' = [phase EXCEPT ![t] = "live"]
        /\ pending' = [pending EXCEPT ![t] = "alive"]
        /\ UNCHANGED <<cursorInbox, publishing, flying, participants, left, late, strayed>>
    BY <1>7 DEF Listens, QueuePublish, showVars, lateVars
  <2>2. LeaveTypes' /\ PendingInv' /\ \A p \in Tabs : phase[p] = "gone" => phase'[p] = "gone"
    BY <1>0, <2>1 DEF LeaveTypes, PendingInv
  <2> QED
    BY <2>1, <2>2, LeaveQuiet, LeaveFrame
<1>8. ASSUME NEW t \in Tabs, ListenerLost(t) PROVE LeaveInv'
  <2>1. /\ phase[t] # "gone" /\ phase' = [phase EXCEPT ![t] = "broken"]
        /\ cursorInbox' = [cursorInbox EXCEPT ![t] = <<>>]
        /\ UNCHANGED <<pending, publishing, flying, participants, left, late, strayed>>
    BY <1>8 DEF ListenerLost, publishVars, showVars, lateVars
  <2>2. /\ LeaveTypes' /\ PendingInv' /\ \A p \in Tabs : phase[p] = "gone" => phase'[p] = "gone"
        /\ \A u \in Tabs : cursorInbox'[u] = cursorInbox[u] \/ cursorInbox'[u] = <<>>
    BY <1>0, <2>1, EmptySeq DEF LeaveTypes, PendingInv
  <2> QED
    BY <2>1, <2>2, LeaveQuiet, LeaveFrame
<1>9. ASSUME NEW t \in Tabs, PageHide(t) PROVE LeaveInv'
  <2>1. /\ FlushPublish(t, "leave") /\ Open(t) /\ phase' = [phase EXCEPT ![t] = "gone"]
        /\ cursorInbox' = [cursorInbox EXCEPT ![t] = <<>>]
        /\ participants' = [participants EXCEPT ![t] = {}] /\ UNCHANGED <<left, late, strayed>>
    BY <1>9 DEF PageHide, lateVars
  <2>2. /\ FlyingInv' /\ \A p \in Tabs : Silent(p) => Silent(p)'
        /\ publishing' \in [Tabs -> BOOLEAN] /\ flying' \in [Tabs -> SUBSET CursorMessage]
    BY <2>1, LeaveFlush
  <2>3. pending' \in {[pending EXCEPT ![t] = "no"], [pending EXCEPT ![t] = "leave"]}
    BY <2>1 DEF FlushPublish, Publish
  <2>4. /\ \A u \in Tabs : cursorInbox'[u] = cursorInbox[u] \/ cursorInbox'[u] = <<>>
        /\ \A u \in Tabs : participants'[u] \subseteq participants[u]
    BY <1>0, <2>1 DEF LeaveTypes
  <2>5. LeaveTypes' /\ PendingInv'
    BY <1>0, <2>1, <2>2, <2>3, EmptySeq DEF LeaveTypes, PendingInv
  <2> QED
    BY <2>1, <2>2, <2>4, <2>5, LeaveFrame
<1>10. CASE UNCHANGED cursorVars
  <2>1. UNCHANGED <<phase, pending, publishing, flying, cursorInbox, participants, left, late, strayed>>
    BY <1>10 DEF cursorVars, publishVars, showVars, lateVars
  <2>2. LeaveTypes' /\ PendingInv'
    BY <1>0, <2>1 DEF LeaveTypes, PendingInv
  <2> QED
    BY <2>1, <2>2, LeaveQuiet, LeaveFrame
<1> QED
  BY <1>1, <1>2, <1>3, <1>4, <1>5, <1>6, <1>7, <1>8, <1>9, <1>10, LeaveNotify, LeaveLate, LeaveReceive
     DEF CursorNext, TabStep

LEMMA LeaveGives == LeaveInv => AfterLeaveGone
BY DEF LeaveInv, LeftInv, AfterLeaveGone
-----------------------------------------------------------------------------
(* The types of the wire and of the queries, beside those of the hub.       *)
WireTypes ==
    /\ commits \in Nat /\ faults \in Nat
    /\ held \in SUBSET Clients /\ down \in SUBSET Clients
    /\ deaths \in [Clients -> SUBSET {"error", "end"}]
    /\ listens \in [Clients -> SUBSET Channels]
    /\ inbox \in [Clients -> SUBSET (Channels \X Nat)]
    /\ own \in Clients \cup {NoClient} /\ ahead \in BOOLEAN

QueryTypes ==
    /\ told \in [Queries -> Nat] /\ asked \in [Queries -> Nat]
    /\ answers \in [Queries -> SUBSET Nat]
    /\ shown \in [Queries -> Nat] /\ failed \in [Queries -> BOOLEAN]

LEMMA LiveStart ==
  ASSUME NEW open \in BOOLEAN, LiveInit(open)
  PROVE  WireTypes /\ QueryTypes
BY DEF LiveInit, WireTypes, QueryTypes

LEMMA ReleaseTypes ==
  ASSUME WireTypes, NEW c, Release(c)
  PROVE  /\ held' \in SUBSET Clients /\ down' \in SUBSET Clients
         /\ listens' \in [Clients -> SUBSET Channels]
         /\ inbox' \in [Clients -> SUBSET (Channels \X Nat)]
BY DEF WireTypes, Release

LEMMA WireStep == HubInv /\ WireTypes /\ [LiveNext]_liveVars => WireTypes'
<1> SUFFICES ASSUME HubInv, WireTypes, [LiveNext]_liveVars PROVE WireTypes'
  OBVIOUS
<1>1. ASSUME NEW ch \in Channels, CommitRow(ch) PROVE WireTypes'
  <2>1. commits' \in Nat /\ <<ch, commits'>> \in Channels \X Nat
    BY <1>1 DEF CommitRow, WireTypes
  <2>2. inbox' \in [Clients -> SUBSET (Channels \X Nat)]
    BY <1>1, <2>1 DEF CommitRow, WireTypes
  <2> QED
    BY <1>1, <2>1, <2>2 DEF CommitRow, hubVars, WireTypes
<1>2. ASSUME NEW c \in Clients, PoolGives(c) PROVE WireTypes'
  BY <1>2 DEF PoolGives, WireTypes
<1>3. ASSUME NEW ch \in Channels, ListenDone(ch) PROVE WireTypes'
  BY <1>3 DEF ListenDone, WireTypes
<1>4. CASE ConnectFails
  <2>1. /\ held' \in SUBSET Clients /\ down' \in SUBSET Clients
        /\ listens' \in [Clients -> SUBSET Channels]
        /\ inbox' \in [Clients -> SUBSET (Channels \X Nat)]
    BY <1>4, ReleaseTypes DEF ConnectFails, WireTypes
  <2>2. faults' \in Nat /\ commits' = commits /\ deaths' = deaths
    BY <1>4 DEF ConnectFails, WireTypes
  <2> QED
    BY <1>4, <2>1, <2>2 DEF ConnectFails, WireTypes
<1>5. CASE RetryFires
  BY <1>5 DEF RetryFires, wireVars, WireTypes
<1>6. ASSUME NEW c \in Clients, ConnectionLost(c) PROVE WireTypes'
  BY <1>6 DEF ConnectionLost, hubVars, WireTypes
<1>7. ASSUME NEW c \in Clients, NEW event \in {"error", "end"}, Disconnected(c, event)
      PROVE  WireTypes'
  <2>1. /\ held' \in SUBSET Clients /\ down' \in SUBSET Clients
        /\ listens' \in [Clients -> SUBSET Channels]
        /\ inbox' \in [Clients -> SUBSET (Channels \X Nat)]
    BY <1>7, ReleaseTypes DEF Disconnected, WireTypes
  <2>2. deaths' \in [Clients -> SUBSET {"error", "end"}]
    BY <1>7 DEF Disconnected, WireTypes
  <2> QED
    BY <1>7, <2>1, <2>2 DEF Disconnected, WireTypes
<1>8. ASSUME NEW c \in Clients, NEW ch, NEW n, Notice(c, ch, n) PROVE WireTypes'
  BY <1>8 DEF Notice, hubVars, WireTypes
<1>9. ASSUME NEW q \in Queries, QueryStep(q) PROVE WireTypes'
  BY <1>9 DEF QueryStep, Refresh, ReadRuns, ReadShown, hubVars, wireVars, WireTypes
<1>10. ASSUME NEW q \in Queries, ReadFails(q) PROVE WireTypes'
  BY <1>10 DEF ReadFails, hubVars, wireVars, WireTypes
<1>11. CASE Unmount
  BY <1>11 DEF Unmount, wireVars, WireTypes
<1>12. CASE CloseReleases
  <2>1. /\ held' \in SUBSET Clients /\ down' \in SUBSET Clients
        /\ listens' \in [Clients -> SUBSET Channels]
        /\ inbox' \in [Clients -> SUBSET (Channels \X Nat)]
    BY <1>12, ReleaseTypes DEF CloseReleases
  <2> QED
    BY <1>12, <2>1 DEF CloseReleases, WireTypes
<1>13. CASE UNCHANGED liveVars
  BY <1>13 DEF liveVars, hubVars, wireVars, WireTypes
<1> QED
  BY <1>1, <1>2, <1>3, <1>4, <1>5, <1>6, <1>7, <1>8, <1>9, <1>10, <1>11, <1>12, <1>13
     DEF LiveNext, HubStep, Faults

LEMMA QueriesStep == WireTypes /\ QueryTypes /\ [LiveNext]_liveVars => QueryTypes'
<1> SUFFICES ASSUME WireTypes, QueryTypes, [LiveNext]_liveVars PROVE QueryTypes'
  OBVIOUS
<1>1. ASSUME NEW c \in Clients, NEW m \in inbox[c], Notice(c, m[1], m[2]) PROVE QueryTypes'
  <2>1. m[2] \in Nat
    BY DEF WireTypes
  <2>2. told' \in [Queries -> Nat]
    BY <1>1, <2>1 DEF Notice, QueryTypes
  <2> QED
    BY <1>1, <2>2 DEF Notice, QueryTypes
<1>2. ASSUME NEW q \in Queries, Refresh(q) PROVE QueryTypes'
  BY <1>2 DEF Refresh, QueryTypes
<1>3. ASSUME NEW q \in Queries, ReadRuns(q) PROVE QueryTypes'
  <2>1. asked[q] - 1 \in Nat /\ commits \in Nat
    BY <1>3 DEF ReadRuns, QueryTypes, WireTypes
  <2> QED
    BY <1>3, <2>1 DEF ReadRuns, QueryTypes
<1>4. ASSUME NEW q \in Queries, NEW n \in answers[q], ReadShown(q, n) PROVE QueryTypes'
  <2>1. n \in Nat
    BY DEF QueryTypes
  <2> QED
    BY <1>4, <2>1 DEF ReadShown, QueryTypes
<1>5. ASSUME NEW q \in Queries, ReadFails(q) PROVE QueryTypes'
  <2>1. asked[q] - 1 \in Nat
    BY <1>5 DEF ReadFails, QueryTypes
  <2> QED
    BY <1>5, <2>1 DEF ReadFails, QueryTypes
<1>6. CASE Unmount
  BY <1>6 DEF Unmount, DropQueries, QueryTypes
<1>7. CASE UNCHANGED queryVars
  BY <1>7 DEF queryVars, QueryTypes
<1>8. \/ UNCHANGED queryVars \/ Unmount
      \/ \E c \in Clients : \E m \in inbox[c] : Notice(c, m[1], m[2])
      \/ \E q \in Queries : QueryStep(q) \/ ReadFails(q)
  BY DEF LiveNext, HubStep, Faults, CommitRow, PoolGives, ListenDone, ConnectFails, RetryFires,
     ConnectionLost, Disconnected, CloseReleases, liveVars
<1> QED
  BY <1>1, <1>2, <1>3, <1>4, <1>5, <1>6, <1>7, <1>8 DEF QueryStep

LEMMA LiveGives == HubInv /\ WireTypes /\ QueryTypes => LiveTypeOK
BY DEF HubInv, HubTypes, WireTypes, QueryTypes, LiveTypeOK
-----------------------------------------------------------------------------
(* What ViewInv and ToldInv leave open of the queue page.                   *)
QueueRest ==
    /\ ending \in BOOLEAN /\ refreshing \in {"no", "reading", "listing"}
    /\ listed \in [from : Queues \cup {NoQueue}, queue : Queues \cup {NoQueue}, ids : SUBSET Ids]

LEMMA RestInit ==
  ASSUME NEW open \in BOOLEAN, QueueInit(open)
  PROVE  QueueRest
BY DEF QueueInit, QueueRest, NoRows

LEMMA RestStep == ViewInv /\ QueueRest /\ [QueueNext]_queueVars => QueueRest'
<1> SUFFICES ASSUME ViewInv, QueueRest, [QueueNext]_queueVars PROVE QueueRest'
  OBVIOUS
<1>1. ending' \in BOOLEAN
  <2>1. \/ UNCHANGED ending \/ ending' = TRUE \/ ending' = FALSE
    BY DEF QueueNext, PageWork, Consume, DropQueue, Interval, ReadQueues, RefreshRenders,
       RefreshFails, Select, LoadRuns, LoadShown, Press, ActionDone, ActionMissing, Reconnect,
       PoolEnds, queueVars
  <2> QED
    BY <2>1 DEF QueueRest
<1>2. refreshing' \in {"no", "reading", "listing"}
  <2>1. \/ UNCHANGED refreshing \/ refreshing' \in {"no", "reading", "listing"}
    BY DEF QueueNext, PageWork, Consume, DropQueue, Interval, ReadQueues, RefreshRenders,
       RefreshFails, Select, LoadRuns, LoadShown, Press, ActionDone, ActionMissing, Reconnect,
       PoolEnds, queueVars, RefreshStarts, RefreshEnds, refreshVars
  <2> QED
    BY <2>1 DEF QueueRest
<1>3. ASSUME NEW l \in loads, LoadShown(l)
      PROVE  listed' \in [from : Queues \cup {NoQueue}, queue : Queues \cup {NoQueue},
                          ids : SUBSET Ids]
  <2>1. l \in LoadType /\ l.got # <<>> /\ selected \in Queues \cup {NoQueue}
    BY <1>3 DEF LoadShown, ViewInv
  <2>2. l.queue \in Queues /\ l.got[1] \in SUBSET Ids
    BY <2>1 DEF LoadType
  <2>3. listed' \in {listed, [from |-> l.queue, queue |-> selected, ids |-> l.got[1]]}
    BY <1>3 DEF LoadShown
  <2> QED
    BY <2>1, <2>2, <2>3 DEF QueueRest
<1>4. \/ UNCHANGED listed \/ listed' = NoRows
      \/ \E l \in loads : LoadShown(l)
  BY DEF QueueNext, PageWork, Consume, DropQueue, Interval, ReadQueues, RefreshRenders,
       RefreshFails, Select, LoadRuns, Press, ActionDone, ActionMissing, Reconnect,
       PoolEnds, queueVars, viewVars
<1> QED
  BY <1>1, <1>2, <1>3, <1>4 DEF QueueRest, NoRows

LEMMA RestGives == ViewInv /\ ToldInv /\ QueueRest => QueueTypeOK
BY DEF ViewInv, ToldInv, QueueRest, QueueTypeOK, LoadType, ClickType

(* What BoardInv and PageInv leave open of the leave board.                  *)
BoardRest ==
    /\ busy \in [Browsers -> Requests \cup {"create", Nobody}]
    /\ creating \in [Browsers -> BOOLEAN]

LEMMA BoardRestInit ==
  ASSUME NEW open \in BOOLEAN, BoardInit(open)
  PROVE  BoardRest
BY DEF BoardInit, BoardRest

LEMMA BoardRestStep == BoardInv /\ BoardRest /\ [BoardNext]_boardVars => BoardRest'
<1> SUFFICES ASSUME BoardInv, BoardRest, [BoardNext]_boardVars PROVE BoardRest'
  OBVIOUS
<1>1. ASSUME NEW b \in Browsers, RowsRead(b) \/ RowsShown(b) PROVE BoardRest'
  BY <1>1 DEF RowsRead, RowsShown, BoardRest
<1>2. ASSUME NEW b \in Browsers, Logout(b) \/ OpenDialog(b) \/ CloseRequestDialog(b)
      PROVE  BoardRest'
  BY <1>2 DEF Logout, OpenDialog, CloseRequestDialog, BoardRest
<1>3. ASSUME NEW b \in Browsers, NEW c \in Calls, NEW r \in Requests,
             AskCreate(b, c, r) \/ \E op \in {"submitted", "cancelled", "approved", "rejected"} :
                                       AskChange(b, c, op, r)
      PROVE  BoardRest'
  BY <1>3 DEF AskCreate, AskChange, Ask, BoardRest
<1>4. ASSUME NEW c \in Calls, CommandRuns(c) PROVE BoardRest'
  BY <1>4 DEF CommandRuns, pageVars, BoardRest
<1>5. ASSUME NEW c \in Calls, CommandRefused(c) \/ CommandFails(c) \/ CommandTold(c)
      PROVE  BoardRest'
  BY <1>5 DEF CommandRefused, CommandFails, CommandTold, Settle, BoardRest
<1>6. ASSUME NEW b \in Browsers, NEW p \in Logins, SignIn(b, p) PROVE BoardRest'
  BY <1>6 DEF SignIn, BoardRest
<1>7. CASE UNCHANGED boardVars
  BY <1>7 DEF boardVars, BoardRest
<1> QED
  BY <1>1, <1>2, <1>3, <1>4, <1>5, <1>6, <1>7 DEF BoardNext

LEMMA BoardRestGives == BoardInv /\ PageInv /\ BoardRest => BoardTypeOK
BY DEF BoardInv, PageInv, RowsInv, Own, TableTypes, RequestType, CommandInv, CommandType,
   BoardRest, BoardTypeOK

(* What LeaveInv leaves open of the cursor page.                             *)
TimerType == timer \in [Tabs -> BOOLEAN]

LEMMA TimerInit ==
  ASSUME NEW open \in BOOLEAN, CursorInit(open)
  PROVE  TimerType
BY DEF CursorInit, TimerType

LEMMA TimerStep == TimerType /\ [CursorNext]_cursorVars => TimerType'
<1> SUFFICES ASSUME TimerType, [CursorNext]_cursorVars PROVE TimerType'
  OBVIOUS
<1>1. CASE \/ UNCHANGED timer
           \/ \E t \in Tabs : timer' = [timer EXCEPT ![t] = FALSE]
  BY <1>1 DEF TimerType
<1>2. \/ UNCHANGED timer
      \/ \E t \in Tabs : \/ timer' = [timer EXCEPT ![t] = FALSE]
                         \/ QueuePublish(t, "alive", publishing[t])
                         \/ QueuePublish(t, pending[t], FALSE)
  BY DEF CursorNext, TabStep, Heartbeat, TimerFires, NotifyRuns, PublishFails, PublishEnds,
     LateRuns, Receive, Sweep, PoolOpens, Listens, Connect, ListenerLost, PageHide, cursorVars, publishVars
<1> QED
  BY <1>1, <1>2 DEF QueuePublish, TimerType

LEMMA TimerGives == LeaveInv /\ TimerType => CursorTypeOK
BY DEF LeaveInv, LeaveTypes, FlyingInv, TimerType, CursorTypeOK, CursorMessage
-----------------------------------------------------------------------------
(* The ids of jobs, wherever the page has them, were given by the sequence.  *)
JobIds ==
    /\ nextJob \in 2..MaxJobs + 1
    /\ \A r \in cron \cup jobs \cup reading.rows : r.id \in 1..MaxJobs
    /\ pausedTold \subseteq 1..MaxJobs /\ reactivated \subseteq 1..MaxJobs
    /\ saving.step \in {"pause", "ran"} => saving.job \in 1..MaxJobs
    /\ click.stage # "no" => click.row.id \in 1..MaxJobs

LEMMA IdsInit ==
  ASSUME NEW open \in BOOLEAN, CronInit(open)
  PROVE  JobIds
BY CronAssumption DEF CronInit, JobIds, NoRead, NoSave, NoCall

LEMMA RefreshingRows == Refreshing.rows \subseteq reading.rows
BY DEF Refreshing, NoRead

LEMMA AlteredIds ==
  ASSUME JobInv, JobIds, NEW r \in cron, NEW s, s.id = r.id
  PROVE  \A x \in Altered(r, s) : x.id \in 1..MaxJobs
BY DEF JobIds, Altered

LEMMA CommandedIds ==
  ASSUME JobIds, NEW i \in 1..MaxJobs, NEW active, Commanded(i, active)
  PROVE  reactivated' \subseteq 1..MaxJobs
BY DEF JobIds, Commanded

LEMMA IdsOther ==
  ASSUME JobInv, JobIds, NEW r \in cron, NEW active \in BOOLEAN, NEW db \in Databases,
         OtherAlters(r, active, db)
  PROVE  JobIds'
<1>1. /\ r \in JobRow /\ r.id \in 1..MaxJobs
      /\ UNCHANGED <<nextJob, jobs, reading, saving, click, pausedTold>>
  BY DEF JobInv, JobTypes, JobIds, OtherAlters, commandVars
<1>2. [r EXCEPT !.active = active, !.db = db].id = r.id
  BY <1>1 DEF JobRow
<1>3. \A x \in cron' : x.id \in 1..MaxJobs
  BY <1>2, AlteredIds DEF OtherAlters
<1>4. reactivated' = reactivated \/ Commanded(r.id, active)
  BY DEF OtherAlters
<1>5. reactivated' \subseteq 1..MaxJobs
  BY <1>1, <1>4, CommandedIds DEF JobIds
<1> QED
  BY <1>1, <1>3, <1>5 DEF JobIds

LEMMA IdsSaveEdit ==
  ASSUME JobInv, JobIds, SaveEdit
  PROVE  JobIds'
<1> DEFINE f == saving.form
<1>1. PICK r \in cron :
        /\ r.id = saving.job
        /\ cron' = Altered(r, [r EXCEPT !.active = f.active, !.db = NewDatabase(f, r.db)])
        /\ Commanded(r.id, f.active)
  BY DEF SaveEdit
<1>2. r \in JobRow /\ r.id \in 1..MaxJobs /\ saving \in SaveType
  BY DEF JobInv, JobTypes, JobIds
<1>3. [r EXCEPT !.active = f.active, !.db = NewDatabase(f, r.db)].id = r.id
  BY <1>2 DEF JobRow
<1>4. \A x \in cron' : x.id \in 1..MaxJobs
  BY <1>1, <1>3, AlteredIds
<1>5. /\ UNCHANGED <<nextJob, jobs, reading, click, pausedTold>>
      /\ saving'.job = r.id
  BY <1>1, <1>2 DEF SaveEdit, SaveType
<1>6. reactivated' \subseteq 1..MaxJobs
  BY <1>1, <1>2, CommandedIds
<1> QED
  BY <1>2, <1>4, <1>5, <1>6 DEF JobIds

LEMMA IdsSavePause ==
  ASSUME JobInv, JobIds, SavePause
  PROVE  JobIds'
<1>1. PICK r \in cron : /\ r.id = saving.job
                        /\ cron' = Altered(r, [r EXCEPT !.active = FALSE])
                        /\ Commanded(r.id, FALSE)
  BY DEF SavePause
<1>2. r \in JobRow /\ r.id \in 1..MaxJobs /\ saving \in SaveType
  BY DEF JobInv, JobTypes, JobIds
<1>3. [r EXCEPT !.active = FALSE].id = r.id
  BY <1>2 DEF JobRow
<1>4. \A x \in cron' : x.id \in 1..MaxJobs
  BY <1>1, <1>3, AlteredIds
<1>5. /\ UNCHANGED <<nextJob, jobs, reading, click, pausedTold>>
      /\ saving'.job = r.id
  BY <1>1, <1>2 DEF SavePause, SaveType
<1>6. reactivated' \subseteq 1..MaxJobs
  BY <1>1, <1>2, CommandedIds
<1> QED
  BY <1>2, <1>4, <1>5, <1>6 DEF JobIds

LEMMA IdsSaveCreate ==
  ASSUME JobInv, JobIds, SaveCreate
  PROVE  JobIds'
<1> DEFINE f     == saving.form
           same  == {r \in cron : r.name = f.name /\ f.name # NoName}
           id    == IF same = {} THEN nextJob ELSE (CHOOSE r \in same : TRUE).id
           row   == [id |-> id, name |-> f.name, active |-> f.active \/ ~f.cross, db |-> f.db]
           altered(r) == [r EXCEPT !.active = f.active, !.db = f.db]
<1>1. /\ same # {} \/ nextJob <= MaxJobs
      /\ \/ same = {} /\ cron' = cron \cup {row}
         \/ cron' = {IF r \in same THEN altered(r) ELSE r : r \in cron}
         \/ cron' = cron
      /\ nextJob' = IF same = {} THEN nextJob + 1 ELSE nextJob
      /\ reactivated' = reactivated \/ Commanded(id, f.active)
      /\ saving' = [saving EXCEPT !.job = id, !.step = IF SecondQuery(f) THEN "pause" ELSE "ran"]
      /\ UNCHANGED <<jobs, reading, click, pausedTold>>
  BY DEF SaveCreate
<1>0. nextJob \in 2..MaxJobs + 1 /\ MaxJobs \in Nat /\ saving \in SaveType
  BY CronAssumption DEF JobIds, JobInv, JobTypes
<1>2. id \in 1..MaxJobs /\ row.id = id
  <2>0. row.id = id
    OBVIOUS
  <2>1. CASE same = {}
    <3>1. id = nextJob /\ nextJob <= MaxJobs
      BY <1>1, <2>1
    <3> HIDE DEF id, same, row
    <3> QED
      BY <1>0, <2>0, <3>1
  <2>2. CASE same # {}
    <3>1. (CHOOSE r \in same : TRUE) \in cron
      BY <2>2
    <3>2. id \in 1..MaxJobs
      BY <2>2, <3>1 DEF JobIds
    <3> QED
      BY <2>0, <3>2
  <2> QED
    BY <2>1, <2>2
<1>3. \A r \in cron : altered(r).id = r.id /\ r.id \in 1..MaxJobs
  BY DEF JobInv, JobTypes, JobRow, JobIds
<1>4. saving'.job = id
  BY <1>0, <1>1 DEF SaveType
<1> HIDE DEF f, same, id, row, altered
<1>5. nextJob' \in 2..MaxJobs + 1
  BY <1>0, <1>1
<1>6. \A x \in cron' : x.id \in 1..MaxJobs
  BY <1>1, <1>2, <1>3
<1>7. reactivated' \subseteq 1..MaxJobs
  BY <1>1, <1>2, CommandedIds DEF JobIds
<1> QED
  BY <1>1, <1>2, <1>4, <1>5, <1>6, <1>7 DEF JobIds

LEMMA IdsClick ==
  ASSUME JobInv, JobIds, ClickRuns
  PROVE  JobIds'
<1>1. PICK r \in Hit :
        IF click.action = "delete"
        THEN cron' = cron \ {r} /\ UNCHANGED reactivated
        ELSE /\ cron' = Altered(r, [r EXCEPT !.active = ~click.row.active])
             /\ Commanded(r.id, ~click.row.active)
  BY DEF ClickRuns
<1>2. r \in cron /\ r \in JobRow /\ r.id \in 1..MaxJobs /\ click \in CallType
  BY DEF Hit, JobInv, JobTypes, JobIds
<1>3. [r EXCEPT !.active = ~click.row.active].id = r.id
  BY <1>2 DEF JobRow
<1>4. (\A x \in cron' : x.id \in 1..MaxJobs) /\ reactivated' \subseteq 1..MaxJobs
  <2>1. CASE click.action = "delete"
    BY <1>1, <2>1 DEF JobIds
  <2>2. CASE click.action # "delete"
    BY <1>1, <1>2, <1>3, <2>2, AlteredIds, CommandedIds
  <2> QED
    BY <2>1, <2>2
<1>5. /\ UNCHANGED <<nextJob, jobs, reading, saving, pausedTold>>
      /\ click'.row = click.row /\ click.stage # "no"
  BY <1>2 DEF ClickRuns, CallType
<1> QED
  BY <1>4, <1>5 DEF JobIds

LEMMA IdsTold ==
  ASSUME JobInv, JobIds, SaveTold \/ ClickTold
  PROVE  JobIds'
<1>1. /\ UNCHANGED <<cron, nextJob, jobs, reactivated>> /\ reading'.rows \subseteq reading.rows
      /\ saving' = saving \/ saving'.step = "none"
      /\ click' = click \/ click'.stage = "no"
  BY RefreshingRows, JobConstants DEF SaveTold, ClickTold
<1>2. pausedTold' \subseteq 1..MaxJobs
  BY DEF SaveTold, ClickTold, Told, JobIds
<1> QED
  BY <1>1, <1>2 DEF JobIds

LEMMA IdsStep == JobInv /\ JobIds /\ [CronNext]_cronVars => JobIds'
<1> SUFFICES ASSUME JobInv, JobIds, [CronNext]_cronVars PROVE JobIds'
  OBVIOUS
<1>1. ASSUME NEW r \in cron, OtherUnschedules(r) PROVE JobIds'
  BY <1>1 DEF OtherUnschedules, commandVars, JobIds
<1>2. CASE JobsAsked
  <2>1. /\ UNCHANGED <<cron, nextJob, jobs, saving, click, pausedTold, reactivated>>
        /\ reading'.rows \subseteq reading.rows
    BY <1>2, RefreshingRows DEF JobsAsked, commandVars
  <2> QED
    BY <2>1 DEF JobIds
<1>3. CASE JobsRead \/ JobsRendered \/ JobsFail
  <2>1. jobs' \subseteq jobs \cup reading.rows /\ reading'.rows \subseteq cron
    BY <1>3 DEF JobsRead, JobsRendered, JobsFail, NoRead
  <2>2. UNCHANGED <<cron, nextJob, saving, click, pausedTold, reactivated>>
    BY <1>3 DEF JobsRead, JobsRendered, JobsFail, commandVars
  <2> QED
    BY <2>1, <2>2 DEF JobIds
<1>4. CASE \/ UNCHANGED cronVars \/ OpenCreateDialog \/ CloseDialog
           \/ \E w \in jobs : OpenEditDialog(w)
           \/ \E w \in jobs, action \in {"toggle", "delete"} : Click(w, action)
           \/ SaveFails \/ ClickFails
           \/ \E n \in Names \cup {NoName}, active, cross \in BOOLEAN, db \in Databases :
                  SubmitCreate(n, active, db, cross)
           \/ \E active \in BOOLEAN, db \in Databases : SubmitEdit(active, db)
  <2>1. /\ UNCHANGED <<cron, nextJob, jobs, reading, pausedTold, reactivated>>
        /\ saving' = saving \/ saving'.step \in {"none", "asked"}
        /\ click' = click \/ click'.stage = "no" \/ \E w \in jobs : click'.row = w
    BY <1>4, JobConstants DEF cronVars, OpenCreateDialog, CloseDialog, OpenEditDialog, Click,
       SaveFails, ClickFails, SubmitCreate, SubmitEdit
  <2> QED
    BY <2>1 DEF JobIds
<1> QED
  BY <1>1, <1>2, <1>3, <1>4, IdsOther, IdsSaveEdit, IdsSaveCreate, IdsSavePause, IdsClick, IdsTold
     DEF CronNext

LEMMA IdsGive == JobInv /\ JobIds => CronTypeOK
BY CronAssumption
   DEF JobInv, JobTypes, JobRow, SaveType, CallType, JobIds, CronTypeOK
-----------------------------------------------------------------------------
(* Clients checked out while a step of run() waits for its answer.          *)
HeldAt == << 1, 3, 3, 1, 1, 1, 2, 1, 1, 1, 1, 1 >>

(* run() has checked out what its step needs: more would be more than the   *)
(* pool has, and fewer would be given back twice.                           *)
RunInv ==
    /\ step \in 0..12 /\ waits \in {"no", "answer", "ever"}
    /\ out \in Nat /\ kept \in Nat /\ out + kept <= PoolMax
    /\ poolState \in {"open", "ending", "closed", "none"}
    /\ step = 0 => waits = "no" /\ out = 0
    /\ waits = "answer" => step # 0 /\ out = HeldAt[step]

LEMMA StepTable ==
  /\ Len(Steps) = 12
  /\ \A k \in 1..12 :
         /\ Steps[k].takes \in Nat /\ Steps[k].gives \in Nat
         /\ Steps[k].gives <= HeldAt[k]
         /\ \A n \in Steps[k].strands : n \in Nat /\ n <= HeldAt[k]
  /\ \A k \in 1..11 : HeldAt[k] - Steps[k].gives + Steps[k + 1].takes = HeldAt[k + 1]
  /\ Steps[1].takes = 1 /\ HeldAt[1] = 1 /\ HeldAt[12] = 1 /\ Steps[12].gives = 1
  /\ \A k \in 1..12 : HeldAt[k] \in Nat
<1>1. Len(Steps) = 12
  BY DEF Steps
<1>2. /\ Steps[1] = Awaits(1, 1, {0}) /\ Steps[2] = Awaits(3, 0, 0..2)
      /\ Steps[3] = Awaits(0, 3, {3}) /\ Steps[4] = Awaits(1, 1, {0})
      /\ Steps[5] = Awaits(1, 0, {0}) /\ Steps[6] = Awaits(0, 0, {1})
      /\ Steps[7] = Awaits(1, 1, {1}) /\ Steps[8] = Awaits(0, 0, {})
      /\ Steps[9] = Awaits(0, 1, {1}) /\ Steps[10] = Awaits(1, 0, {0})
      /\ Steps[11] = Awaits(0, 1, {}) /\ Steps[12] = Awaits(1, 1, {0})
  BY DEF Steps
<1>3. /\ HeldAt[1] = 1 /\ HeldAt[2] = 3 /\ HeldAt[3] = 3 /\ HeldAt[4] = 1
      /\ HeldAt[5] = 1 /\ HeldAt[6] = 1 /\ HeldAt[7] = 2 /\ HeldAt[8] = 1
      /\ HeldAt[9] = 1 /\ HeldAt[10] = 1 /\ HeldAt[11] = 1 /\ HeldAt[12] = 1
  BY DEF HeldAt
<1>4. \A t, g, s : /\ Awaits(t, g, s).takes = t /\ Awaits(t, g, s).gives = g
                   /\ Awaits(t, g, s).strands = s
  BY DEF Awaits
<1>5. \A k \in 1..12 : k = 1 \/ k = 2 \/ k = 3 \/ k = 4 \/ k = 5 \/ k = 6 \/ k = 7 \/ k = 8
                       \/ k = 9 \/ k = 10 \/ k = 11 \/ k = 12
  OBVIOUS
<1>6. \A k \in 1..12 : /\ Steps[k].takes \in Nat /\ Steps[k].gives \in Nat
                       /\ Steps[k].gives <= HeldAt[k] /\ HeldAt[k] \in Nat
  BY <1>2, <1>3, <1>4, <1>5
<1>7. ASSUME NEW k \in 1..12, NEW n \in Steps[k].strands PROVE n \in Nat /\ n <= HeldAt[k]
  BY <1>2, <1>3, <1>4, <1>5
<1>8. ASSUME NEW k \in 1..11 PROVE HeldAt[k] - Steps[k].gives + Steps[k + 1].takes = HeldAt[k + 1]
  BY <1>2, <1>3, <1>4, <1>5
<1> QED
  BY <1>1, <1>2, <1>3, <1>4, <1>6, <1>7, <1>8

LEMMA EnterRuns ==
  ASSUME RunInv, NEW k \in 1..13, NEW l \in Nat, l <= out, Enter(k, l), UNCHANGED poolState,
         k <= 12 => l + Steps[k].takes = HeldAt[k], k = 13 => l = 0
  PROVE  RunInv'
<1>1. k <= 12 => Steps[k].takes \in Nat /\ HeldAt[k] \in Nat
  BY StepTable
<1>2. CASE k = 13
  BY <1>2, StepTable, DashAssumption DEF Enter, RunInv
<1>3. CASE k <= 12 /\ Fails(l)
  BY <1>3, DashAssumption DEF Fails, RunInv
<1>4. CASE k <= 12 /\ ~Fails(l)
  <2>1. step' = k /\ kept' = kept
    BY <1>4, StepTable DEF Enter
  <2>2. \/ l + kept + Steps[k].takes <= PoolMax /\ waits' = "answer" /\ out' = l + Steps[k].takes
        \/ waits' = "ever" /\ out' = l
    BY <1>4, StepTable DEF Enter
  <2> QED
    BY <1>1, <1>4, <2>1, <2>2, DashAssumption DEF RunInv
<1> QED
  BY <1>2, <1>3, <1>4

LEMMA RunInit ==
  ASSUME NEW open \in BOOLEAN, DashInit(open)
  PROVE  RunInv
BY DashAssumption DEF DashInit, RunInv

LEMMA RunStepInv == RunInv /\ [DashNext]_dashVars => RunInv'
<1> SUFFICES ASSUME RunInv, [DashNext]_dashVars PROVE RunInv'
  OBVIOUS
<1>1. CASE Run
  BY <1>1, StepTable, EnterRuns DEF Run, RunInv
<1>2. CASE StepDone
  <2>1. step \in 1..12 /\ out = HeldAt[step]
    BY <1>2 DEF StepDone, RunInv
  <2>2. Steps[step].gives \in Nat /\ Steps[step].gives <= out
    BY <2>1, StepTable
  <2>3. out - Steps[step].gives \in Nat /\ out - Steps[step].gives <= out
    BY <2>2 DEF RunInv
  <2>4. step + 1 <= 12 => out - Steps[step].gives + Steps[step + 1].takes = HeldAt[step + 1]
    BY <2>1, StepTable
  <2>5. step + 1 = 13 => out - Steps[step].gives = 0
    BY <2>1, StepTable
  <2> QED
    BY <1>2, <2>1, <2>3, <2>4, <2>5, EnterRuns DEF StepDone
<1>3. CASE ConnectionDrops
  <2>1. step \in 1..12 /\ out = HeldAt[step] /\ UNCHANGED poolState
    BY <1>3 DEF ConnectionDrops, RunInv
  <2>2. ASSUME NEW n \in Steps[step].strands, Fails(n) PROVE RunInv'
    <3>1. n \in Nat /\ n <= out
      BY <2>1, <2>2, StepTable
    <3> QED
      BY <2>1, <2>2, <3>1, DashAssumption DEF Fails, RunInv
  <2>3. CASE waits' = "ever" /\ UNCHANGED <<step, out, kept>>
    BY <2>1, <2>3 DEF RunInv
  <2> QED
    BY <1>3, <2>2, <2>3 DEF ConnectionDrops
<1>4. CASE Recreate \/ PoolOver \/ Create \/ CreateThrows
  BY <1>4 DEF Recreate, PoolOver, Create, CreateThrows, RunInv
<1>5. CASE UNCHANGED dashVars
  BY <1>5 DEF dashVars, RunInv
<1> QED
  BY <1>1, <1>2, <1>3, <1>4, <1>5 DEF DashNext

LEMMA RunTypes == RunInv => DashTypeOK
BY StepTable, DashAssumption DEF RunInv, DashTypeOK
-----------------------------------------------------------------------------
PagesInv ==
    /\ HubInv /\ BoardInv /\ PageInv /\ ViewInv /\ ToldInv /\ LeaveInv
    /\ AuditInv /\ JobInv /\ events \in Nat
    /\ WireTypes /\ QueryTypes /\ QueueRest /\ BoardRest /\ TimerType /\ JobIds /\ RunInv

LEMMA ExamplesStart == ExamplesInit => PagesInv
<1> SUFFICES ASSUME ExamplesInit PROVE PagesInv
  OBVIOUS
<1>1. PICK page : /\ LiveInit(page = "live queries") /\ QueueInit(page = "queue")
                  /\ CronInit(page = "cron") /\ CursorInit(page = "cursors")
                  /\ BoardInit(page = "leave board") /\ DashInit(page = "dashboard")
  BY DEF ExamplesInit
<1>2. /\ (page = "live queries") \in BOOLEAN /\ (page = "queue") \in BOOLEAN
      /\ (page = "leave board") \in BOOLEAN
      /\ (page = "cron") \in BOOLEAN /\ (page = "cursors") \in BOOLEAN
      /\ (page = "dashboard") \in BOOLEAN
  OBVIOUS
<1>3. HubInv /\ BoardInv /\ PageInv /\ ViewInv /\ ToldInv
  BY <1>1, <1>2, HubInit, BoardInvInit, PageInit, ViewInit, ToldInit
<1>4. AuditInv /\ JobInv /\ LeaveInv
  BY <1>1, <1>2, AuditInit, JobInit, LeaveInit
<1>5. events \in Nat
  BY <1>1 DEF CronInit
<1>6. WireTypes /\ QueryTypes /\ QueueRest /\ BoardRest
  BY <1>1, <1>2, LiveStart, RestInit, BoardRestInit
<1>7. TimerType /\ JobIds /\ RunInv
  BY <1>1, <1>2, TimerInit, IdsInit, RunInit
<1> QED
  BY <1>3, <1>4, <1>5, <1>6, <1>7 DEF PagesInv

LEMMA ExamplesSteps ==
  [ExamplesNext]_examplesVars =>
      /\ [LiveNext]_liveVars /\ [QueueNext]_queueVars /\ [BoardNext]_boardVars
      /\ [CronNext]_cronVars /\ [CursorNext]_cursorVars /\ [DashNext]_dashVars
BY DEF ExamplesNext, examplesVars

LEMMA ExamplesInvariant == ExamplesSpec => []PagesInv
<1>1. PagesInv /\ [ExamplesNext]_examplesVars => PagesInv'
  BY ExamplesSteps, HubStepInv, BoardStepInv, ViewStepInv, ToldStepInv, LeaveStepInv,
     AuditStepInv, JobStepInv, EventsStep, WireStep, QueriesStep, RestStep, BoardRestStep,
     TimerStep, IdsStep, RunStepInv DEF PagesInv
<1> QED
  BY ExamplesStart, <1>1, PTL DEF ExamplesSpec

(* The variables of every page keep their types; among them: a job's id is   *)
(* one the sequence gave, and run() never has more clients of the pool than  *)
(* there are, nor releases one it does not have.                             *)
THEOREM TypesTheorem == ExamplesSpec => []ExamplesTypeOK
<1>1. PagesInv => ExamplesTypeOK
  BY LiveGives, RestGives, BoardRestGives, TimerGives, IdsGive, RunTypes
     DEF PagesInv, ExamplesTypeOK
<1> QED
  BY <1>1, ExamplesInvariant, PTL

(* The hub never loses a client of the pool, is never idle without one, and *)
(* once closed takes none, whatever connections are lost and whenever the   *)
(* page is left.                                                            *)
THEOREM HubTheorem == ExamplesSpec => []HubSound
<1>1. PagesInv => HubSound
  BY DEF PagesInv, HubInv
<1> QED
  BY <1>1, ExamplesInvariant, PTL

(* Of commands that race on one request, one verdict stands, and whoever    *)
(* was shown the success of a final change was shown that one.              *)
THEOREM OneVerdictTheorem == ExamplesSpec => []OneVerdict
<1>1. PagesInv => OneVerdict
  BY DEF PagesInv, BoardInv, VerdictInv
<1> QED
  BY <1>1, ExamplesInvariant, PTL

(* The audit is a gapless history of every request from its seed to its     *)
(* present status, with no row behind a final one and none by a stranger.   *)
THEOREM AuditTheorem == ExamplesSpec => []AuditTellsHistory
<1>1. PagesInv => AuditTellsHistory
  BY DEF PagesInv, AuditInv
<1> QED
  BY <1>1, ExamplesInvariant, PTL

(* The page of a login shows no rows but those it may see.                  *)
THEOREM RowsOfLoginTheorem == ExamplesSpec => []RowsOfLogin
<1>1. PagesInv => RowsOfLogin
  BY DEF PagesInv, PageInv, RowsInv, Own, Sees, RowsOfLogin
<1> QED
  BY <1>1, ExamplesInvariant, PTL

(* The buttons of a row act on the queue the row was read from, however     *)
(* selections, reconnects and answers interleave.                           *)
THEOREM RowsNameTheirQueueTheorem == ExamplesSpec => []RowsNameTheirQueue
<1>1. PagesInv => RowsNameTheirQueue
  BY DEF PagesInv, ViewInv, RowsNameTheirQueue
<1> QED
  BY <1>1, ExamplesInvariant, PTL

(* No message is told archived or deleted twice, or without having been.    *)
THEOREM ToldOnceTheorem == ExamplesSpec => []ToldOnce
<1>1. PagesInv => ToldOnce
  BY ToldGives DEF PagesInv
<1> QED
  BY <1>1, ExamplesInvariant, PTL

(* A job of which the user was last told that it is paused is active only if *)
(* a command naming "active" has run since the one which paused it: no      *)
(* success is told of a pause that did not run, whichever answers are lost  *)
(* or cross, and whatever other sessions alter.                             *)
THEOREM NoSilentActiveTheorem == ExamplesSpec => []NoSilentActive
<1>1. JobInv => NoSilentActive
  BY DEF JobInv, JobTypes, JobRow, Paused, NoSilentActive
<1> QED
  BY <1>1, ExamplesInvariant, PTL DEF PagesInv

(* An edit submitted from a stale row does not move a job back to the       *)
(* database it had.                                                         *)
THEOREM EditKeepsDatabaseTheorem == ExamplesSpec => EditKeepsDatabase
<1>1. ASSUME PagesInv, [ExamplesNext]_examplesVars
      PROVE  [\A r \in cron, s \in cron' :
                 r.id = s.id /\ r.db # s.db =>
                     events' # events \/ saving.form.cross
                         \/ saving.form.db # saving.form.original]_cronVars
  BY <1>1, ExamplesSteps, KeepsStep DEF PagesInv
<1> QED
  BY <1>1, ExamplesInvariant, PTL DEF ExamplesSpec, EditKeepsDatabase

(* A tab that said it leaves is not shown again, though publishes, lost     *)
(* listeners and sweeps interleave, unless the database ran a publish of it *)
(* whose query had rejected.                                                *)
THEOREM AfterLeaveGoneTheorem == ExamplesSpec => []AfterLeaveGone
<1>1. PagesInv => AfterLeaveGone
  BY LeaveGives DEF PagesInv
<1> QED
  BY <1>1, ExamplesInvariant, PTL
=============================================================================
