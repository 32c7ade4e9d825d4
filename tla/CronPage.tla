------------------------------ MODULE CronPage ------------------------------
(***************************************************************************)
(* The scheduler example (pg-cron/index.ts): a page that lists, creates,   *)
(* edits, pauses and unschedules the jobs of pg_cron, from a list that     *)
(* other sessions may have made stale.                                     *)
(*                                                                         *)
(* A job is its id, name, database and whether it is active; schedule,     *)
(* command and user go the way of the database.  The history of runs is    *)
(* left out.  pg_cron is external.                                         *)
(***************************************************************************)
EXTENDS Integers, FiniteSets

CONSTANTS
    Names, NoName,  \* job names; NoName for a job without one
    Databases,      \* where a job may run; Home is the page's own
    Home,
    MaxJobs,        \* bound: jobs ever scheduled
    MaxEvents       \* bound: changes by others, reads that fail, submits and clicks

(* The page's database is one of them, and pg_cron has a job to begin with.  *)
ASSUME CronAssumption == Home \in Databases /\ MaxJobs \in Nat \ {0}

VARIABLES
    cron,           \* the table cron.job
    nextJob,        \* the sequence of job ids
    jobs,           \* the page's copy of the table, as rendered
    reading,        \* refreshing, and the rows once read
    pageOpen,       \* there is a pool
    dialog,         \* the open dialog: its kind and the row it shows
    saving,         \* saveJob() under way: its step, job and form
    click,          \* handleJobAction() under way, with the row it captured
    pausedTold,     \* history: jobs of which the user was last told that they are paused
    reactivated,    \* history: jobs that a command has set active since they were paused
    events          \* bound

cronVars == <<cron, nextJob, jobs, reading, pageOpen, dialog, saving, click, pausedTold,
              reactivated, events>>
commandVars == <<dialog, saving, click>>

NoRow == [id |-> 0, name |-> NoName, active |-> FALSE, db |-> Home]
NoForm == [name |-> NoName, active |-> FALSE, db |-> Home, original |-> Home, cross |-> FALSE]
NoDialog == [kind |-> "none", row |-> NoRow]
NoSave == [step |-> "none", job |-> 0, form |-> NoForm]
NoCall == [stage |-> "no", action |-> "none", row |-> NoRow]
NoRead == [stage |-> "no", rows |-> {}]

CronInit(open) ==
    /\ cron = {[id |-> 1, name |-> NoName, active |-> TRUE, db |-> Home]}
    /\ nextJob = 2
    /\ jobs = {}
    /\ reading = NoRead
    /\ pageOpen = open
    /\ dialog = NoDialog /\ saving = NoSave /\ click = NoCall
    /\ pausedTold = {} /\ reactivated = {}
    /\ events = 0

Event == pageOpen /\ events < MaxEvents /\ events' = events + 1
Altered(r, s) == (cron \ {r}) \cup {s}

(* A command that names "active" has run.                                   *)
Commanded(id, active) ==
    reactivated' = IF active THEN reactivated \cup {id} ELSE reactivated \ {id}
-----------------------------------------------------------------------------
(* Another session, or a command of this one whose query runs only after    *)
(* its connection was lost, alters or unschedules a job.                    *)
OtherAlters(r, active, db) ==
    /\ Event /\ <<active, db>> # <<r.active, r.db>>
    /\ cron' = Altered(r, [r EXCEPT !.active = active, !.db = db])
    /\ IF active = r.active THEN UNCHANGED reactivated ELSE Commanded(r.id, active)
    /\ UNCHANGED <<nextJob, jobs, reading, pageOpen, commandVars, pausedTold>>

OtherUnschedules(r) ==
    /\ Event
    /\ cron' = cron \ {r}
    /\ UNCHANGED <<nextJob, jobs, reading, pageOpen, commandVars, pausedTold, reactivated>>

(* refresh(): one at a time; the rows are read and then rendered, or the    *)
(* read fails.                                                              *)
Refreshing == IF reading = NoRead THEN [NoRead EXCEPT !.stage = "asked"] ELSE reading

JobsAsked ==
    /\ pageOpen /\ reading = NoRead
    /\ reading' = Refreshing
    /\ UNCHANGED <<cron, nextJob, jobs, pageOpen, commandVars, pausedTold,
                   reactivated, events>>

JobsRead ==
    /\ reading.stage = "asked"
    /\ reading' = [stage |-> "read", rows |-> cron]
    /\ UNCHANGED <<cron, nextJob, jobs, pageOpen, commandVars, pausedTold,
                   reactivated, events>>

JobsRendered ==
    /\ reading.stage = "read"
    /\ jobs' = reading.rows /\ reading' = NoRead
    /\ UNCHANGED <<cron, nextJob, pageOpen, commandVars, pausedTold,
                   reactivated, events>>

JobsFail ==
    /\ reading.stage = "asked" /\ Event
    /\ reading' = NoRead
    /\ UNCHANGED <<cron, nextJob, jobs, pageOpen, commandVars, pausedTold, reactivated>>
-----------------------------------------------------------------------------
(* The dialogs: the edit dialog shows the page's row of the job.            *)
OpenCreateDialog ==
    /\ pageOpen /\ dialog = NoDialog
    /\ dialog' = [NoDialog EXCEPT !.kind = "create"]
    /\ UNCHANGED <<cron, nextJob, jobs, reading, pageOpen, saving, click, pausedTold,
                   reactivated, events>>

OpenEditDialog(row) ==
    /\ dialog = NoDialog
    /\ dialog' = [kind |-> "edit", row |-> row]
    /\ UNCHANGED <<cron, nextJob, jobs, reading, pageOpen, saving, click, pausedTold,
                   reactivated, events>>

CloseDialog ==
    /\ dialog # NoDialog
    /\ dialog' = NoDialog
    /\ UNCHANGED <<cron, nextJob, jobs, reading, pageOpen, saving, click, pausedTold,
                   reactivated, events>>

(* saveJob() reads what the user left in the form; the name of an existing  *)
(* job is fixed, and a cross-database job needs one.                        *)
SubmitCreate(n, active, db, cross) ==
    /\ dialog.kind = "create" /\ saving = NoSave /\ Event
    /\ cross => n # NoName
    /\ saving' = [step |-> "asked", job |-> 0,
                  form |-> [name |-> n, active |-> active, db |-> IF cross THEN db ELSE Home,
                            original |-> Home, cross |-> cross]]
    /\ UNCHANGED <<cron, nextJob, jobs, reading, pageOpen, dialog, click, pausedTold,
                   reactivated>>

SubmitEdit(active, db) ==
    /\ dialog.kind = "edit" /\ saving = NoSave /\ Event
    /\ saving' = [step |-> "asked", job |-> dialog.row.id,
                  form |-> [name |-> dialog.row.name, active |-> active, db |-> db,
                            original |-> dialog.row.db, cross |-> FALSE]]
    /\ UNCHANGED <<cron, nextJob, jobs, reading, pageOpen, dialog, click, pausedTold,
                   reactivated>>

(* cron.alter_job() with the form's values; what is null stays as it is.  A *)
(* query runs and is answered in two steps: what runs meanwhile on another  *)
(* connection of the pool may be answered first.                            *)
NewDatabase_Mutant(f, db) == f.db
NewDatabase(f, db) == IF f.db = f.original THEN db ELSE f.db

SaveEdit ==
    /\ saving.step = "asked" /\ saving.job # 0
    /\ LET f == saving.form
       IN  \E r \in cron :
               /\ r.id = saving.job
               /\ cron' = Altered(r, [r EXCEPT !.active = f.active,
                                               !.db = NewDatabase(f, r.db)])
               /\ Commanded(r.id, f.active)
    /\ saving' = [saving EXCEPT !.step = "ran"]
    /\ UNCHANGED <<nextJob, jobs, reading, pageOpen, dialog, click, pausedTold, events>>

(* cron.schedule() or schedule_in_database(): an existing name keeps its    *)
(* job.  Only the latter takes "active"; a job to be paused is altered by a *)
(* second query.                                                            *)
SecondQuery_Mutant(f) == FALSE
SecondQuery(f) == ~f.active /\ ~f.cross

SaveCreate ==
    /\ saving.step = "asked" /\ saving.job = 0
    /\ LET f     == saving.form
           same  == {r \in cron : r.name = f.name /\ f.name # NoName}
           id    == IF same = {} THEN nextJob ELSE (CHOOSE r \in same : TRUE).id
           row   == [id |-> id, name |-> f.name, active |-> f.active \/ ~f.cross, db |-> f.db]
       IN  /\ same # {} \/ nextJob <= MaxJobs
           /\ cron' = IF same = {} THEN cron \cup {row}
                      ELSE IF f.cross
                      THEN {IF r \in same THEN [r EXCEPT !.active = f.active, !.db = f.db] ELSE r :
                                r \in cron}
                      ELSE cron
           /\ nextJob' = IF same = {} THEN nextJob + 1 ELSE nextJob
           /\ IF f.cross THEN Commanded(id, f.active) ELSE UNCHANGED reactivated
           /\ saving' = [saving EXCEPT !.job = id,
                                       !.step = IF SecondQuery(f) THEN "pause" ELSE "ran"]
    /\ UNCHANGED <<jobs, reading, pageOpen, dialog, click, pausedTold, events>>

SavePause ==
    /\ saving.step = "pause"
    /\ \E r \in cron :
           /\ r.id = saving.job
           /\ cron' = Altered(r, [r EXCEPT !.active = FALSE])
           /\ Commanded(r.id, FALSE)
    /\ saving' = [saving EXCEPT !.step = "ran"]
    /\ UNCHANGED <<nextJob, jobs, reading, pageOpen, dialog, click, pausedTold, events>>

(* The last query is answered: the user is told, and refresh().             *)
Told(id, active) ==
    pausedTold' = IF active THEN pausedTold \ {id} ELSE pausedTold \cup {id}

SaveTold ==
    /\ saving.step = "ran"
    /\ Told(saving.job, saving.form.active)
    /\ saving' = NoSave /\ dialog' = NoDialog
    /\ reading' = Refreshing
    /\ UNCHANGED <<cron, nextJob, jobs, pageOpen, click, reactivated, events>>

(* A query is refused, finds no such job, or loses its connection before it *)
(* has run or after: the error is shown, the dialog stays open, and what    *)
(* was done stays done.                                                     *)
SaveFails ==
    /\ saving # NoSave
    /\ saving' = NoSave
    /\ UNCHANGED <<cron, nextJob, jobs, reading, pageOpen, dialog, click, pausedTold,
                   reactivated, events>>
-----------------------------------------------------------------------------
(* Pause, Resume or Delete of a row: the page's copy of the job decides.    *)
(* One click and one save are under way at a time.                          *)
Click(row, action) ==
    /\ click = NoCall /\ dialog = NoDialog /\ Event
    /\ click' = [stage |-> "asked", action |-> action, row |-> row]
    /\ UNCHANGED <<cron, nextJob, jobs, reading, pageOpen, dialog, saving, pausedTold,
                   reactivated>>

(* alter_job() by id; unschedule() by name when there is one.               *)
Hit == {r \in cron : IF click.action = "delete" /\ click.row.name # NoName
                     THEN r.name = click.row.name ELSE r.id = click.row.id}

ClickRuns ==
    /\ click.stage = "asked"
    /\ \E r \in Hit :
           IF click.action = "delete"
           THEN cron' = cron \ {r} /\ UNCHANGED reactivated
           ELSE /\ cron' = Altered(r, [r EXCEPT !.active = ~click.row.active])
                /\ Commanded(r.id, ~click.row.active)
    /\ click' = [click EXCEPT !.stage = "ran"]
    /\ UNCHANGED <<nextJob, jobs, reading, pageOpen, dialog, saving, pausedTold, events>>

ClickTold ==
    /\ click.stage = "ran"
    /\ IF click.action = "delete" THEN UNCHANGED pausedTold
       ELSE Told(click.row.id, ~click.row.active)
    /\ click' = NoCall
    /\ reading' = Refreshing
    /\ UNCHANGED <<cron, nextJob, jobs, pageOpen, dialog, saving, reactivated, events>>

ClickFails ==
    /\ click # NoCall
    /\ click' = NoCall
    /\ UNCHANGED <<cron, nextJob, jobs, reading, pageOpen, dialog, saving, pausedTold,
                   reactivated, events>>

CronNext ==
    \/ \E r \in cron :
           \/ OtherUnschedules(r)
           \/ \E active \in BOOLEAN, db \in Databases : OtherAlters(r, active, db)
    \/ JobsAsked \/ JobsRead \/ JobsRendered \/ JobsFail
    \/ OpenCreateDialog \/ CloseDialog
    \/ \E row \in jobs : OpenEditDialog(row)
    \/ \E n \in Names \cup {NoName}, active, cross \in BOOLEAN, db \in Databases :
           SubmitCreate(n, active, db, cross)
    \/ \E active \in BOOLEAN, db \in Databases : SubmitEdit(active, db)
    \/ SaveEdit \/ SaveCreate \/ SavePause \/ SaveTold \/ SaveFails
    \/ \E row \in jobs, action \in {"toggle", "delete"} : Click(row, action)
    \/ ClickRuns \/ ClickTold \/ ClickFails

CronSpec == CronInit(TRUE) /\ [][CronNext]_cronVars
-----------------------------------------------------------------------------
(* Every variable keeps its type, and ids are unique.                        *)
CronTypeOK ==
    /\ \A r \in cron \cup jobs :
           r.id \in 1..MaxJobs /\ r.name \in Names \cup {NoName} /\ r.db \in Databases
    /\ \A r, s \in cron : r.id = s.id => r = s
    /\ nextJob \in 2..MaxJobs + 1
    /\ pausedTold \cup reactivated \subseteq 1..MaxJobs
    /\ saving.step \in {"none", "asked", "pause", "ran"}
    /\ click.stage \in {"no", "asked", "ran"}
    /\ click.action \in {"none", "toggle", "delete"}

(* A job of which the user was last told that it is paused (scheduled or     *)
(* saved without "active", or "paused") is active only if a command that     *)
(* names "active" has run since it was really paused: no success is told of  *)
(* a pause that did not run, the second query of a new job among them        *)
(* (index.ts:355-361, 383-387).                                              *)
NoSilentActive ==
    \A r \in cron : r.id \in pausedTold /\ r.active => r.id \in reactivated

(* A job changes its database only by another session or by an edit whose    *)
(* user changed it: an edit from a stale row does not move the job back.     *)
EditKeepsDatabase ==
    [][ \A r \in cron, s \in cron' :
            r.id = s.id /\ r.db # s.db =>
                events' # events \/ saving.form.cross \/ saving.form.db # saving.form.original ]_cronVars
=============================================================================
