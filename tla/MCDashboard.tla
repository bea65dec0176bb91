----------------------------- MODULE MCDashboard -----------------------------
(* The dashboard for TLC: its session, its realtime connection and a        *)
(* conversation's thread share no state, so one run checks a behaviour of   *)
(* each, and the others rest.                                               *)
EXTENDS Session, Thread, Realtime

VARIABLE part  \* which of them runs

dashboardVars == <<sessionVars, threadVars, realtimeVars, part>>

DashboardInit ==
  SessionInit /\ ThreadInit /\ RealtimeInit /\ part \in {"session", "thread", "realtime"}

DashboardNext ==
  \/ part = "session" /\ SessionNext /\ UNCHANGED <<threadVars, realtimeVars, part>>
  \/ part = "thread" /\ ThreadNext /\ UNCHANGED <<sessionVars, realtimeVars, part>>
  \/ part = "realtime" /\ RealtimeNext /\ UNCHANGED <<sessionVars, threadVars, part>>

DashboardSpec ==
  /\ DashboardInit /\ [][DashboardNext]_dashboardVars
  /\ SessionFairness /\ RealtimeFairness

\* Type correctness of the dashboard's parts.
DashboardTypeOK == SessionTypeOK /\ ThreadTypeOK /\ RealtimeTypeOK
=============================================================================
