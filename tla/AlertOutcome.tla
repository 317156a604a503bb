---------------------------- MODULE AlertOutcome ----------------------------
(***************************************************************************)
(* What the operator promises of the alerts of a MonitorPod, however it    *)
(* sends them: whether an AlertRecord is created for each alert that is    *)
(* sent (recordAlerts), and the total number of alerts sent                *)
(* (AlertsSentCount; api/v1alpha1/monitorpod_types.go).  An alert is sent  *)
(* when it has reached a target, it is recorded and counted at most once   *)
(* and in this order, it reaches nobody after that, and nothing but an     *)
(* alert raises the count.  A record, a count, or both may fail to come    *)
(* about.                                                                  *)
(*                                                                         *)
(* reached[a] is the set of targets that have accepted alert a.            *)
(***************************************************************************)
EXTENDS Naturals

CONSTANTS Alerts,      \* alerts of one MonitorPod
          Targets,     \* those it sends them to
          Recording    \* whether it keeps records

VARIABLES reached, recorded, counted, count, gone

aoVars == <<reached, recorded, counted, count, gone>>

AOInit ==
    /\ reached = [a \in Alerts |-> {}]
    /\ recorded = {}
    /\ counted = {}
    /\ count = 0
    /\ gone = FALSE

\* A target accepts an alert that is neither recorded nor counted yet.
AODeliver(a, t) ==
    /\ a \notin recorded \cup counted
    /\ reached' = [reached EXCEPT ![a] = @ \cup {t}]
    /\ UNCHANGED <<recorded, counted, count, gone>>

AORecord(a) ==
    /\ Recording
    /\ reached[a] # {} /\ a \notin recorded \cup counted
    /\ recorded' = recorded \cup {a}
    /\ UNCHANGED <<reached, counted, count, gone>>

AOCount(a) ==
    /\ reached[a] # {} /\ a \notin counted /\ ~gone
    /\ counted' = counted \cup {a}
    /\ count' = count + 1
    /\ UNCHANGED <<reached, recorded, gone>>

\* The MonitorPod is deleted, and its count with it.
AODelete ==
    /\ gone' = TRUE
    /\ UNCHANGED <<reached, recorded, counted, count>>

AONext ==
    \/ \E a \in Alerts :
          (\E t \in Targets : AODeliver(a, t)) \/ AORecord(a) \/ AOCount(a)
    \/ AODelete

AOSpec == AOInit /\ [][AONext]_aoVars
=============================================================================
