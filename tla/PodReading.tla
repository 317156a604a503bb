----------------------------- MODULE PodReading -----------------------------
(***************************************************************************)
(* What the operator promises of the logs it reads, however its loops and  *)
(* streams are made: "it finds the Pods a MonitorPod's selector matches    *)
(* and listens to their log streams" (README.md, MonitorPod Controller).   *)
(* A MonitorPod runs with at most one spec, and its Pods are read for that *)
(* spec only.  A round opens no Pod but one that is up and matched, ends   *)
(* every other, and interrupts none that it should keep reading; a new     *)
(* spec, or none, ends all reading for the old one at once.                *)
(*                                                                         *)
(* running[k] is the spec MonitorPod k runs with; reading[k] are the Pods  *)
(* read for it; up are the Pods that run.                                  *)
(***************************************************************************)
CONSTANTS Monitors,  \* MonitorPods
          Pods,
          Selects,   \* the Pods each spec's selector matches
          None       \* no spec

VARIABLES running, reading, up

prVars == <<running, reading, up>>

PRInit ==
    /\ running = [k \in Monitors |-> None]
    /\ reading = [k \in Monitors |-> {}]
    /\ up \subseteq Pods

\* A MonitorPod is given a spec, or none.
PRSet(k) ==
    /\ running' \in {[running EXCEPT ![k] = s] : s \in (DOMAIN Selects) \cup {None}}
    /\ reading' = [reading EXCEPT ![k] = {}]
    /\ UNCHANGED up

PRRound(k) ==
    /\ running[k] # None
    /\ LET wanted == Selects[running[k]] \cap up
       IN  \E opened \in SUBSET (wanted \ reading[k]) :
              reading' = [reading EXCEPT ![k] = (@ \cap wanted) \cup opened]
    /\ UNCHANGED <<running, up>>

\* A stream breaks or comes to its end.
PREnd(k, p) ==
    /\ reading' = [reading EXCEPT ![k] = @ \ {p}]
    /\ UNCHANGED <<running, up>>

PRPods ==
    /\ up' \subseteq Pods
    /\ UNCHANGED <<running, reading>>

PRRestart ==
    /\ running' = [k \in Monitors |-> None]
    /\ reading' = [k \in Monitors |-> {}]
    /\ UNCHANGED up

PRNext ==
    \/ \E k \in Monitors : PRSet(k) \/ PRRound(k) \/ \E p \in Pods : PREnd(k, p)
    \/ PRPods
    \/ PRRestart

PRSpec == PRInit /\ [][PRNext]_prVars
=============================================================================
