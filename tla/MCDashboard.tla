------------------------------ MODULE MCDashboard ------------------------------
(***************************************************************************)
(* Small instances of PagedWalk and EventBoard for TLC. The two lists share  *)
(* nothing, so a behaviour is one of the walk or one of the board: which one *)
(* is chosen at the start.                                                   *)
(***************************************************************************)
EXTENDS PagedWalk, EventBoard

VARIABLE part

dashboardVars == <<vars, boardVars, part>>

\* Bound: a search has pages of one row, and pages of none are read newest first.
DashboardInit ==
    /\ Init /\ BoardInit
    /\ part \in {"walk", "board"}
    /\ walk.fields # {} => walk.search
    /\ part = "walk" /\ walk.search => walk.limit = 1
    /\ walk.limit = 0 => walk.sort = "desc"
    /\ part = "board" =>
          walk.sort = "desc" /\ walk.limit = None /\ ~walk.search
              /\ walk.fields = {}

\* Bound: no view is open while a request is between its two statements. Views
\* do not show what is featured, and what else such a request writes, one that
\* features nothing writes too.
OneAtATime ==
    view.pc = "idle" \/ \A w \in Writers : writer[w].pc = "idle"

\* Bound: rows that no field tells apart are created in the order of their names.
InOrder ==
    \A r, q \in Rows :
        createdAt'[r] # 0 /\ createdAt'[q] = 0 /\
        (\A f \in Fields : r \in f <=> q \in f) => r < q

DashboardNext ==
    \/ part = "walk" /\ Next /\ InOrder /\ UNCHANGED <<boardVars, part>>
    \/ part = "board" /\ BoardNext /\ OneAtATime' /\ UNCHANGED <<vars, part>>

DashboardSpec ==
    /\ DashboardInit /\ [][DashboardNext]_dashboardVars
    /\ WF_vars(FindMany) /\ WF_vars(CountAndRespond)
===============================================================================
