------------------------------ MODULE Examples ------------------------------
(***************************************************************************)
(* The browser examples side by side (examples/browser): each is a page of *)
(* its own with its own pool and transport, and they share no table or     *)
(* channel.  A run of this specification therefore opens one of them; the  *)
(* others stay as if they had been left before anything happened.          *)
(***************************************************************************)
EXTENDS LiveQuery, QueuePage, CronPage, Cursors, LeaveBoard, Dashboard

ExamplesInit ==
    \E page \in {"live queries", "queue", "cron", "cursors", "leave board", "dashboard"} :
        /\ LiveInit(page = "live queries")
        /\ QueueInit(page = "queue")
        /\ CronInit(page = "cron")
        /\ CursorInit(page = "cursors")
        /\ BoardInit(page = "leave board")
        /\ DashInit(page = "dashboard")

ExamplesNext ==
    \/ LiveNext /\ UNCHANGED <<queueVars, cronVars, cursorVars, boardVars, dashVars>>
    \/ QueueNext /\ UNCHANGED <<liveVars, cronVars, cursorVars, boardVars, dashVars>>
    \/ CronNext /\ UNCHANGED <<liveVars, queueVars, cursorVars, boardVars, dashVars>>
    \/ CursorNext /\ UNCHANGED <<liveVars, queueVars, cronVars, boardVars, dashVars>>
    \/ BoardNext /\ UNCHANGED <<liveVars, queueVars, cronVars, cursorVars, dashVars>>
    \/ DashNext /\ UNCHANGED <<liveVars, queueVars, cronVars, cursorVars, boardVars>>

examplesVars == <<liveVars, queueVars, cronVars, cursorVars, boardVars, dashVars>>

ExamplesSpec ==
    /\ ExamplesInit /\ [][ExamplesNext]_examplesVars
    /\ LiveFairness /\ QueueFairness /\ CursorFairness /\ DashFairness
-----------------------------------------------------------------------------
(* The variables of every page keep their types.                             *)
ExamplesTypeOK ==
    LiveTypeOK /\ QueueTypeOK /\ CronTypeOK /\ CursorTypeOK /\ BoardTypeOK /\ DashTypeOK
=============================================================================
