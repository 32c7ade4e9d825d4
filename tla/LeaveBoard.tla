----------------------------- MODULE LeaveBoard -----------------------------
(***************************************************************************)
(* The leave board (security/*.tsx) and its database rules                 *)
(* (50-security.sql): employees draft, submit and cancel vacation          *)
(* requests, their manager decides them, each browser shows what the login *)
(* it has may see, and every change is audited in its transaction.         *)
(*                                                                         *)
(* A request is its owner and its status; of its dates only whether two    *)
(* requests overlap is kept.  Reads that overtake each other are the       *)
(* subject of LiveQuery: here one is under way at a time.                  *)
(***************************************************************************)
EXTENDS Integers, Sequences, FiniteSets

CONSTANTS
    Browsers,
    Employees, Managers, Auditors,  \* the logins, by database role
    Nobody,
    ManagerOf,      \* ManagerOf[e]: the manager of an employee
    Requests,       \* identities of requests
    Week,           \* Week[r]: requests of one week overlap
    Seed,           \* Seed[r]: the owner and status the database starts with
    Calls           \* identities of commands (numbers): each is given once

Logins == Employees \cup Managers \cup Auditors

Statuses == {"none", "draft", "submitted", "cancelled", "approved", "rejected"}

ASSUME BoardAssumption ==
    /\ Nobody \notin Logins \cup Browsers
    /\ Seed \in [Requests -> [owner : Logins \cup {Nobody}, status : Statuses]]

VARIABLES
    requests,       \* requests[r]: owner and status; status "none": not there
    audit,          \* the audit rows, oldest first
    login,          \* login[b]: who is signed in, Nobody: the login form
    rows,           \* rows[b]: statuses as shown, of the requests returned
    read,           \* read[b]: the answer under way, and whom it was read for
    busy,           \* busy[b]: the key of the last command not done
    creating,       \* creating[b]: the dialog for a new request is open
    calls,          \* calls[c]: a command
    toldOk          \* history: the changes whose success a user was shown

boardVars == <<requests, audit, login, rows, read, busy, creating, calls, toldOk>>
tableVars == <<requests, audit>>
pageVars == <<login, rows, read, busy, creating>>

NoRequest == [owner |-> Nobody, status |-> "none"]
NoAnswer == [of |-> Nobody, rows |-> <<>>]
NoCommand == [stage |-> "new", at |-> Nobody, by |-> Nobody, op |-> "none", req |-> Nobody]

BoardInit(open) ==
    /\ requests = Seed
    /\ audit = <<>>
    /\ login = [b \in Browsers |-> Nobody]
    /\ rows = [b \in Browsers |-> <<>>]
    /\ read = [b \in Browsers |-> NoAnswer]
    /\ busy = [b \in Browsers |-> Nobody]
    /\ creating = [b \in Browsers |-> FALSE]
    /\ calls = [c \in Calls |-> [NoCommand EXCEPT !.stage = IF open THEN "new" ELSE "done"]]
    /\ toldOk = {}
-----------------------------------------------------------------------------
(* can_see_request(): one's own, of direct reports, or all of them.         *)
CanSee(p, r) ==
    /\ requests[r].status # "none"
    /\ \/ requests[r].owner = p
       \/ requests[r].owner \in Employees /\ ManagerOf[requests[r].owner] = p
       \/ p \in Auditors

Visible(p) == [r \in {x \in Requests : CanSee(p, x)} |-> requests[r].status]

(* The personas' form is submitted: the board opens with a session of that  *)
(* login.  Disconnecting unmounts it; its commands go on without it.        *)
SignIn(b, p) ==
    /\ login[b] = Nobody /\ \E c \in Calls : calls[c].stage = "new"
    /\ login' = [login EXCEPT ![b] = p]
    /\ UNCHANGED <<tableVars, rows, read, busy, creating, calls, toldOk>>

Logout_Mutant(b) ==
    /\ login[b] # Nobody
    /\ login' = [login EXCEPT ![b] = Nobody]
    /\ rows' = [rows EXCEPT ![b] = <<>>]
    /\ busy' = [busy EXCEPT ![b] = Nobody]
    /\ creating' = [creating EXCEPT ![b] = FALSE]
    /\ calls' = [c \in Calls |-> IF calls[c].at = b THEN [calls[c] EXCEPT !.at = Nobody]
                                 ELSE calls[c]]
    /\ UNCHANGED <<tableVars, read, toldOk>>
Logout(b) ==
    /\ login[b] # Nobody
    /\ login' = [login EXCEPT ![b] = Nobody]
    /\ rows' = [rows EXCEPT ![b] = <<>>]
    /\ read' = [read EXCEPT ![b] = NoAnswer]
    /\ busy' = [busy EXCEPT ![b] = Nobody]
    /\ creating' = [creating EXCEPT ![b] = FALSE]
    /\ calls' = [c \in Calls |-> IF calls[c].at = b THEN [calls[c] EXCEPT !.at = Nobody]
                                 ELSE calls[c]]
    /\ UNCHANGED <<tableVars, toldOk>>

(* The live query reads, on mounting and after a notice, and shows.         *)
RowsRead(b) ==
    /\ login[b] # Nobody /\ read[b] = NoAnswer /\ rows[b] # Visible(login[b])
    /\ read' = [read EXCEPT ![b] = [of |-> login[b], rows |-> Visible(login[b])]]
    /\ UNCHANGED <<tableVars, login, rows, busy, creating, calls, toldOk>>

RowsShown(b) ==
    /\ login[b] # Nobody /\ read[b] # NoAnswer
    /\ rows' = [rows EXCEPT ![b] = read[b].rows]
    /\ read' = [read EXCEPT ![b] = NoAnswer]
    /\ UNCHANGED <<tableVars, login, busy, creating, calls, toldOk>>
-----------------------------------------------------------------------------
(* The buttons of a row, as the rows shown have it.                         *)
Offered(b, op, r) ==
    LET p == login[b] IN
    /\ r \in DOMAIN rows[b]
    /\ \/ /\ p \in Employees /\ requests[r].owner = p
          /\ \/ op = "submitted" /\ rows[b][r] = "draft"
             \/ op = "cancelled" /\ rows[b][r] \in {"draft", "submitted"}
       \/ /\ p \in Managers /\ requests[r].owner \in Employees
          /\ ManagerOf[requests[r].owner] = p
          /\ op \in {"approved", "rejected"} /\ rows[b][r] = "submitted"

(* command(): its key disables the buttons of that row, until any command   *)
(* of the page is done.                                                     *)
Ask(b, c, op, r, key) ==
    /\ calls[c].stage = "new" /\ \A d \in Calls : d < c => calls[d].stage # "new"
    /\ busy' = [busy EXCEPT ![b] = key]
    /\ calls' = [calls EXCEPT ![c] =
           [stage |-> "asked", at |-> b, by |-> login[b], op |-> op, req |-> r]]

AskChange(b, c, op, r) ==
    /\ Offered(b, op, r) /\ busy[b] # r
    /\ Ask(b, c, op, r, r)
    /\ UNCHANGED <<tableVars, login, rows, read, creating, toldOk>>

OpenDialog(b) ==
    /\ login[b] \in Employees /\ ~creating[b]
    /\ \E c \in Calls : calls[c].stage = "new"
    /\ creating' = [creating EXCEPT ![b] = TRUE]
    /\ UNCHANGED <<tableVars, login, rows, read, busy, calls, toldOk>>

CloseRequestDialog(b) ==
    /\ creating[b]
    /\ creating' = [creating EXCEPT ![b] = FALSE]
    /\ UNCHANGED <<tableVars, login, rows, read, busy, calls, toldOk>>

AskCreate(b, c, r) ==
    /\ creating[b] /\ busy[b] # "create"
    /\ requests[r] = NoRequest /\ \A d \in Calls : calls[d].req # r
    /\ Ask(b, c, "draft", r, "create")
    /\ UNCHANGED <<tableVars, login, rows, read, creating, toldOk>>
-----------------------------------------------------------------------------
Overlaps(p, r) ==
    \E x \in Requests :
        /\ requests[x].owner = p /\ requests[x].status \in {"submitted", "approved"}
        /\ Week[x] = Week[r]

(* What create_request(), submit_request(), cancel_request() and            *)
(* decide_request() ask for, of the login of the session.                   *)
Granted_Mutant(p, op, r) ==
    CASE op = "draft" -> p \in Employees /\ requests[r] = NoRequest /\ ~Overlaps(p, r)
      [] op = "submitted" -> requests[r] = [owner |-> p, status |-> "draft"]
      [] op = "cancelled" -> requests[r].owner = p
      [] OTHER -> /\ p \in Managers /\ requests[r].status = "submitted"
                  /\ requests[r].owner \in Employees /\ ManagerOf[requests[r].owner] = p
Granted(p, op, r) ==
    CASE op = "draft" -> p \in Employees /\ requests[r] = NoRequest /\ ~Overlaps(p, r)
      [] op = "submitted" -> requests[r] = [owner |-> p, status |-> "draft"]
      [] op = "cancelled" -> /\ requests[r].owner = p
                             /\ requests[r].status \in {"draft", "submitted"}
      [] OTHER -> /\ p \in Managers /\ requests[r].status = "submitted"
                  /\ requests[r].owner \in Employees /\ ManagerOf[requests[r].owner] = p

(* The function runs: the change and, by the trigger, its audit row.        *)
CommandRuns(c) ==
    LET k == calls[c] IN
    /\ k.stage = "asked" /\ Granted(k.by, k.op, k.req)
    /\ requests' = [requests EXCEPT ![k.req] =
           [owner |-> IF k.op = "draft" THEN k.by ELSE @.owner, status |-> k.op]]
    /\ audit' = Append(audit, [req |-> k.req, actor |-> k.by,
                               from |-> requests[k.req].status, to |-> k.op])
    /\ calls' = [calls EXCEPT ![c].stage = "ran"]
    /\ UNCHANGED <<pageVars, toldOk>>

(* The end of command(), if its page is still there: busy is cleared, and   *)
(* the dialog for a new request closed, whether it failed or not.           *)
Done == [NoCommand EXCEPT !.stage = "done"]

Settle(c, after) ==
    LET k == calls[c]
        here == k.at # Nobody
    IN  /\ busy' = IF here THEN [busy EXCEPT ![k.at] = Nobody] ELSE busy
        /\ creating' = IF here /\ k.op = "draft" THEN [creating EXCEPT ![k.at] = FALSE]
                       ELSE creating
        /\ calls' = [calls EXCEPT ![c] = after]

CommandRefused(c) ==
    /\ calls[c].stage = "asked" /\ ~Granted(calls[c].by, calls[c].op, calls[c].req)
    /\ Settle(c, Done)
    /\ UNCHANGED <<tableVars, login, rows, read, toldOk>>

(* Its connection is lost before the function has run, after, or while its  *)
(* query is still to run: the page shows the error and is done with it.     *)
CommandFails(c) ==
    LET k == calls[c] IN
    /\ k.stage \in {"asked", "ran"}
    /\ \/ Settle(c, Done)
       \/ k.stage = "asked" /\ Settle(c, [k EXCEPT !.at = Nobody])
    /\ UNCHANGED <<tableVars, login, rows, read, toldOk>>

(* The rows are read again and the success is shown.                        *)
CommandTold(c) ==
    LET k == calls[c] IN
    /\ k.stage = "ran"
    /\ Settle(c, Done)
    /\ IF k.at # Nobody
       THEN /\ rows' = [rows EXCEPT ![k.at] = Visible(k.by)]
            /\ toldOk' = toldOk \cup {<<k.req, k.op>>}
       ELSE UNCHANGED <<rows, toldOk>>
    /\ UNCHANGED <<tableVars, login, read>>

BoardNext ==
    \/ \E b \in Browsers :
           \/ \E p \in Logins : SignIn(b, p)
           \/ Logout(b) \/ RowsRead(b) \/ RowsShown(b)
           \/ OpenDialog(b) \/ CloseRequestDialog(b)
           \/ \E c \in Calls, r \in Requests :
                  \/ AskCreate(b, c, r)
                  \/ \E op \in {"submitted", "cancelled", "approved", "rejected"} :
                         AskChange(b, c, op, r)
    \/ \E c \in Calls : CommandRuns(c) \/ CommandRefused(c) \/ CommandFails(c) \/ CommandTold(c)

BoardSpec == BoardInit(TRUE) /\ [][BoardNext]_boardVars
-----------------------------------------------------------------------------
(* Every variable keeps its type.                                            *)
BoardTypeOK ==
    /\ \A r \in Requests :
           /\ requests[r].owner \in Logins \cup {Nobody}
           /\ requests[r].status \in Statuses
    /\ login \in [Browsers -> Logins \cup {Nobody}]
    /\ \A b \in Browsers : DOMAIN rows[b] \subseteq Requests
    /\ busy \in [Browsers -> Requests \cup {"create", Nobody}]
    /\ creating \in [Browsers -> BOOLEAN]
    /\ \A c \in Calls : calls[c].stage \in {"new", "asked", "ran", "done"}

Final == {"cancelled", "approved", "rejected"}

(* Where the audit speaks of a request.                                      *)
RowsAbout(r) == {i \in DOMAIN audit : audit[i].req = r}

(* The audit tells the life of every request: each row goes on from the      *)
(* status the one before left, the last has the present status, nothing      *)
(* follows a final one, and each was made by whom the rules name: the owner, *)
(* or for a decision the owner's manager.                                    *)
AuditTellsHistory ==
    \A r \in Requests :
        LET about == RowsAbout(r)
            owner == requests[r].owner
        IN  /\ about = {} => requests[r].status = Seed[r].status
            /\ \A i \in about :
                   LET row == audit[i] IN
                   /\ row.from \notin Final
                   /\ row.actor = IF row.to \in {"approved", "rejected"}
                                  THEN ManagerOf[owner] ELSE owner
                   /\ (\A j \in about : i <= j) => row.from = Seed[r].status
                   /\ (\A j \in about : j <= i) => row.to = requests[r].status
                   /\ \A j \in about :
                          j < i /\ ~(\E k \in about : j < k /\ k < i) => row.from = audit[j].to

(* Of a cancellation and a decision that race, from rows that were stale or  *)
(* from two tabs, one wins: a user who was shown the success of a final      *)
(* change was shown what the request stays at.                               *)
OneVerdict ==
    \A t \in toldOk : t[2] \in Final => requests[t[1]].status = t[2]

(* The page never shows a login rows that were read for another one, though  *)
(* browsers sign out and in again while reads and commands are under way.    *)
RowsOfLogin ==
    \A b \in Browsers : \A r \in DOMAIN rows[b] :
        login[b] # Nobody /\ (requests[r].owner = login[b] \/ login[b] \in Auditors
            \/ (requests[r].owner \in Employees /\ ManagerOf[requests[r].owner] = login[b]))
=============================================================================
