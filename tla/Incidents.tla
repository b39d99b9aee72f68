------------------------------ MODULE Incidents -----------------------------
(***************************************************************************)
(* What the alerting half of PulseWatch promises about alert events: an    *)
(* event is raised once and only for a rule that exists, is never reopened *)
(* once it is closed, goes away exactly when its rule does (by itself or   *)
(* with all the rules of its server), and is announced only after it was   *)
(* recorded, on the channels it was recorded for.                          *)
(***************************************************************************)
VARIABLES
    open,        \* ids of the recorded events with resolved_at NULL
    closed,      \* ids of the recorded events with resolved_at set
    deleted,     \* the rules deleted so far
    raised,      \* ids of every event ever recorded
    owed,        \* the notices (event, channel) those events call for
    announced    \* the notices that were enqueued

incidentVars == <<open, closed, deleted, raised, owed, announced>>

IncidentInit ==
    /\ open = {} /\ closed = {} /\ deleted = {}
    /\ raised = {} /\ owed = {} /\ announced = {}

\* One evaluation records all the events of the rules it found breached.
Raise ==
    LET new  == open' \ open
        orders == owed' \ owed IN
    /\ new # {} /\ new \cap raised = {}
    /\ \A i \in new : i.rule \notin deleted
    /\ \A n \in orders : n.event \in new
    /\ open' = open \cup new
    /\ raised' = raised \cup new
    /\ owed' = owed \cup orders
    /\ UNCHANGED <<closed, deleted, announced>>

\* Auto-resolve closes some of the open events.
Close ==
    LET done == open \ open' IN
    /\ done # {}
    /\ open' = open \ done
    /\ closed' = closed \cup done
    /\ UNCHANGED <<deleted, raised, owed, announced>>

\* Deleting rules takes all their events with them, and no others.
Purge ==
    LET rules == deleted' \ deleted IN
    /\ rules # {}
    /\ deleted' = deleted \cup rules
    /\ open' = {i \in open : i.rule \notin rules}
    /\ closed' = {i \in closed : i.rule \notin rules}
    /\ UNCHANGED <<raised, owed, announced>>

\* Notices of one event are enqueued.
Announce ==
    LET told == announced' \ announced IN
    /\ told # {} /\ told \subseteq owed
    /\ \A m, n \in told : m.event = n.event
    /\ announced' = announced \cup told
    /\ UNCHANGED <<open, closed, deleted, raised, owed>>

IncidentNext == Raise \/ Close \/ Purge \/ Announce

IncidentSpec == IncidentInit /\ [][IncidentNext]_incidentVars
=============================================================================
