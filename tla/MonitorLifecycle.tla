--------------------------- MODULE MonitorLifecycle ---------------------------
(***************************************************************************)
(* How a MonitorPod becomes log streams: MonitorPodReconciler, the         *)
(* MonitorManager's registry of cancel functions, the monitor loops and    *)
(* the log stream goroutines of                                            *)
(* internal/controller/monitorpod_controller.go, with the parts of         *)
(* controller-runtime they depend on: the API server's optimistic          *)
(* concurrency, the informer cache that lags it, and the work queue with   *)
(* its single worker (MaxConcurrentReconciles is left at 1).               *)
(*                                                                         *)
(* Pods are what the Pod informer shows; one namespace.  A selector is the *)
(* set of Pods it matches.  A MonitorPod's status is its Ready reason and  *)
(* MonitoredPodsCount.  What a stream does with its lines is LogStream's   *)
(* subject; here its goroutine starts and returns.                             *)
(*                                                                         *)
(* Loops and Streams are goroutine identities, reused once nothing refers  *)
(* to them.  events only bounds the environment.                            *)
(***************************************************************************)
EXTENDS Naturals, FiniteSets

CONSTANTS
    Keys,        \* namespaced names of MonitorPods
    Pods,        \* namespaced names of Pods
    Specs,       \* MonitorPod specs
    Selects,     \* the Pods a spec's selector matches, for valid specs
    Loops,       \* identities of runMonitorLoop goroutines
    Streams,     \* identities of streamPodLogs goroutines
    None,        \* no object, no key, no goroutine
    MaxEvents    \* bound on writes, Pod events, failures and restarts together

\* The specs whose label selector parses.
Valid == DOMAIN Selects

ASSUME LifecycleConfig ==
    /\ Valid \subseteq Specs
    /\ Selects \in [Valid -> SUBSET Pods]
    /\ IsFiniteSet(Pods)
    /\ None \notin Keys /\ None \notin Specs /\ None \notin Loops
    /\ None \notin Streams

VARIABLES
    api,         \* MonitorPods in the API server
    cache,       \* MonitorPods in the informer cache
    pods,        \* phase of each Pod in the informer cache
    dirty,       \* the work queue: keys to be reconciled
    rec,         \* the worker: progress of the current Reconcile
    monitors,    \* MonitorManager.monitors: key -> loop whose cancel it holds
    loopKey,     \* the MonitorPod of each loop goroutine, None if it returned
    loopSpec,    \* the spec the loop was started with (mp.Spec)
    loopDone,    \* the loops whose context is done
    active,      \* activePodMonitors of each loop: Pod -> stream
    strKey,      \* the MonitorPod of each stream goroutine, None if it returned
    strPod,      \* the Pod it reads
    strLoop,     \* the loop that started it, the parent of its context
    strDone,     \* the streams whose context is done
    broken,      \* history: streams that broke, while an entry holds them
    lostStatus,  \* history: keys whose last status update failed for good
    events

objVars  == <<api, cache>>
loopVars == <<monitors, loopKey, loopSpec, loopDone, active>>
strVars  == <<strKey, strPod, strLoop, strDone, broken>>
vars == <<objVars, pods, dirty, rec, loopVars, strVars, lostStatus, events>>

Phases == {"Absent", "Pending", "Running", "Finished"}
Reasons == {"none", "InvalidSelector", "ListPodsFailed", "SetupComplete"}

Obj == [rv : Nat, spec : Specs, ready : Reasons, count : Nat]

Rec == [pc : {"idle", "get", "list", "status"}, key : Keys \cup {None},
        obj : Obj \cup {None}, changed : BOOLEAN, requeue : BOOLEAN]

Idle == [pc |-> "idle", key |-> None, obj |-> None,
         changed |-> FALSE, requeue |-> FALSE]

NoPods == [p \in Pods |-> None]

TypeOK ==
    /\ api \in [Keys -> Obj \cup {None}]
    /\ cache \in [Keys -> Obj \cup {None}]
    /\ pods \in [Pods -> Phases]
    /\ dirty \subseteq Keys
    /\ rec \in Rec
    /\ rec.pc # "idle" => rec.key \in Keys
    /\ rec.pc \in {"list", "status"} => rec.obj \in Obj
    /\ monitors \in [Keys -> Loops \cup {None}]
    /\ loopKey \in [Loops -> Keys \cup {None}]
    /\ loopSpec \in [Loops -> Valid \cup {None}]
    /\ loopDone \subseteq Loops
    /\ active \in [Loops -> [Pods -> Streams \cup {None}]]
    /\ strKey \in [Streams -> Keys \cup {None}]
    /\ strPod \in [Streams -> Pods \cup {None}]
    /\ strLoop \in [Streams -> Loops \cup {None}]
    /\ strDone \subseteq Streams
    /\ broken \subseteq Streams
    /\ lostStatus \subseteq Keys
    /\ events \in Nat

NoLoop == [l \in Loops |-> None]
NoStream == [s \in Streams |-> None]

NewObj(s, r) == [rv |-> r, spec |-> s, ready |-> "none", count |-> 0]

\* The process starts on a cluster with Pods and MonitorPods of any kind: the
\* cache syncs before it works, and the initial list enqueues what there is.
Init ==
    /\ api \in [Keys -> {None} \cup {NewObj(s, 1) : s \in Specs}]
    /\ cache = api
    /\ pods \in [Pods -> Phases]
    /\ dirty = {k \in Keys : api[k] # None}
    /\ rec = Idle
    /\ monitors = [k \in Keys |-> None]
    /\ loopKey = NoLoop /\ loopSpec = NoLoop /\ loopDone = {}
    /\ active = [l \in Loops |-> NoPods]
    /\ strKey = NoStream /\ strPod = NoStream /\ strLoop = NoStream
    /\ strDone = {} /\ broken = {}
    /\ lostStatus = {}
    /\ events = 0
-----------------------------------------------------------------------------
(* The users of the API, and the other writer of a MonitorPod's status.    *)

Event ==
    /\ events < MaxEvents
    /\ events' = events + 1

\* A resource version is only compared for equality: any number will do that
\* no copy of the object carries.
NewRv(k) ==
    CHOOSE r \in 1..4 :
        /\ api[k] # None => r # api[k].rv
        /\ cache[k] # None => r # cache[k].rv
        /\ rec.obj # None => r # rec.obj.rv

Write(k, o) ==
    /\ Event
    /\ api' = [api EXCEPT ![k] = o]
    /\ UNCHANGED <<cache, pods, dirty, rec, loopVars, strVars, lostStatus>>

Create(k) ==
    \E s \in Specs :
        /\ api[k] = None
        /\ Write(k, NewObj(s, NewRv(k)))

EditSpec(k) ==
    \E s \in Specs :
        /\ api[k] # None
        /\ api[k].spec # s
        /\ Write(k, [api[k] EXCEPT !.spec = s, !.rv = NewRv(k)])

Delete(k) == api[k] # None /\ Write(k, None)

\* dispatchAlert counts an alert in the status: of the fields kept here only
\* the resource version changes.
CountAlert(k) ==
    /\ api[k] # None
    /\ Write(k, [api[k] EXCEPT !.rv = NewRv(k)])

MutInformerSpecOnly(k) ==
    /\ cache[k] # api[k]
    /\ cache' = [cache EXCEPT ![k] = api[k]]
    /\ dirty' = IF cache[k] # None /\ api[k] # None /\ cache[k].spec = api[k].spec
                THEN dirty ELSE dirty \cup {k}
    /\ UNCHANGED <<api, pods, rec, loopVars, strVars, lostStatus, events>>

\* The informer catches up with a MonitorPod and enqueues it.  There is no
\* predicate: status updates count.
Informer(k) ==
    /\ cache[k] # api[k]
    /\ cache' = [cache EXCEPT ![k] = api[k]]
    /\ dirty' = dirty \cup {k}
    /\ UNCHANGED <<api, pods, rec, loopVars, strVars, lostStatus, events>>

Matching(s) == Selects[s]

MutNoWatchers(p) == {}

\* The cached MonitorPods whose selector parses and matches the Pod
\* (findMonitorPodsForPod).
Watchers(p) ==
    {k \in Keys : /\ cache[k] # None
                  /\ cache[k].spec \in Valid
                  /\ p \in Matching(cache[k].spec)}

\* A Pod appears, changes phase or disappears.
PodChange(p, ph) ==
    /\ Event
    /\ pods[p] # ph
    /\ pods' = [pods EXCEPT ![p] = ph]
    /\ dirty' = dirty \cup Watchers(p)
    /\ UNCHANGED <<objVars, rec, loopVars, strVars, lostStatus>>
-----------------------------------------------------------------------------
(* Cancelling a loop's context: the contexts of its streams derive from it. *)

Living(s) == strKey[s] # None

Children(l) == {s \in Streams : Living(s) /\ strLoop[s] = l}

MutCancelLoopOnly(k) ==
    LET l == monitors[k] IN
    /\ loopDone' = IF l # None THEN loopDone \cup {l} ELSE loopDone
    /\ strDone' = strDone

\* cancel() of the loop registered for k, if there is one.
CancelRegistered(k) ==
    LET l == monitors[k] IN
    /\ loopDone' = IF l # None THEN loopDone \cup {l} ELSE loopDone
    /\ strDone' = IF l # None THEN strDone \cup Children(l) ELSE strDone

FreeLoops == {l \in Loops : loopKey[l] = None}

MutStartWithoutCancel(k, s) ==
    \E new \in FreeLoops :
        /\ monitors' = [monitors EXCEPT ![k] = new]
        /\ loopKey' = [loopKey EXCEPT ![new] = k]
        /\ loopSpec' = [loopSpec EXCEPT ![new] = s]
        /\ UNCHANGED <<loopDone, active, strVars>>

\* MonitorManager.StartOrUpdateMonitor: always a new loop, even for an
\* unchanged spec.
StartOrUpdateMonitor(k, s) ==
    \E new \in FreeLoops :
        /\ CancelRegistered(k)
        /\ monitors' = [monitors EXCEPT ![k] = new]
        /\ loopKey' = [loopKey EXCEPT ![new] = k]
        /\ loopSpec' = [loopSpec EXCEPT ![new] = s]
        /\ UNCHANGED <<active, strKey, strPod, strLoop, broken>>

MutStopWithoutCancel(k) ==
    /\ monitors' = [monitors EXCEPT ![k] = None]
    /\ UNCHANGED <<loopKey, loopSpec, loopDone, active, strVars>>

\* MonitorManager.StopMonitor.
StopMonitor(k) ==
    /\ CancelRegistered(k)
    /\ monitors' = [monitors EXCEPT ![k] = None]
    /\ UNCHANGED <<loopKey, loopSpec, active, strKey, strPod, strLoop, broken>>
-----------------------------------------------------------------------------
(* The worker: MonitorPodReconciler.Reconcile.                             *)

Dequeue(k) ==
    /\ rec.pc = "idle"
    /\ k \in dirty
    /\ dirty' = dirty \ {k}
    /\ rec' = [Idle EXCEPT !.pc = "get", !.key = k]
    /\ UNCHANGED <<objVars, pods, loopVars, strVars, lostStatus, events>>

GetNotFound ==
    /\ rec.pc = "get"
    /\ cache[rec.key] = None
    /\ StopMonitor(rec.key)
    /\ rec' = Idle
    /\ UNCHANGED <<objVars, pods, dirty, lostStatus, events>>

MutGetFailsLosesKey ==
    /\ rec.pc = "get"
    /\ Event
    /\ rec' = Idle
    /\ dirty' = dirty \cup {rec'.key}
    /\ UNCHANGED <<objVars, pods, loopVars, strVars, lostStatus>>

GetFails ==
    /\ rec.pc = "get"
    /\ Event
    /\ rec' = Idle
    /\ dirty' = dirty \cup {rec.key}
    /\ UNCHANGED <<objVars, pods, loopVars, strVars, lostStatus>>

\* The status is set on the object read, now to be compared with what it was.
Settle(read, o, requeue) ==
    rec' = [rec EXCEPT
        !.pc = "status",
        !.obj = o,
        !.changed = o.ready # read.ready \/ o.count # read.count,
        !.requeue = requeue]

GetInvalid ==
    /\ rec.pc = "get"
    /\ cache[rec.key] # None
    /\ cache[rec.key].spec \notin Valid
    /\ Settle(cache[rec.key], [cache[rec.key] EXCEPT !.ready = "InvalidSelector"], FALSE)
    /\ UNCHANGED <<objVars, pods, dirty, loopVars, strVars, lostStatus, events>>

GetValid ==
    /\ rec.pc = "get"
    /\ cache[rec.key] # None
    /\ cache[rec.key].spec \in Valid
    /\ rec' = [rec EXCEPT !.pc = "list", !.obj = cache[rec.key]]
    /\ UNCHANGED <<objVars, pods, dirty, loopVars, strVars, lostStatus, events>>

MutListFailsNoRetry ==
    /\ rec.pc = "list"
    /\ Event
    /\ Settle(rec.obj, [rec.obj EXCEPT !.ready = "ListPodsFailed"], FALSE)
    /\ UNCHANGED <<objVars, pods, dirty, loopVars, strVars, lostStatus>>

ListFails ==
    /\ rec.pc = "list"
    /\ Event
    /\ Settle(rec.obj, [rec.obj EXCEPT !.ready = "ListPodsFailed"], TRUE)
    /\ UNCHANGED <<objVars, pods, dirty, loopVars, strVars, lostStatus>>

\* Every matched Pod counts, whatever its phase.
Listed(s) == {p \in Matching(s) : pods[p] # "Absent"}

ListOk ==
    /\ rec.pc = "list"
    /\ Settle(rec.obj,
              [rec.obj EXCEPT !.ready = "SetupComplete",
                              !.count = Cardinality(Listed(rec.obj.spec))],
              FALSE)
    /\ StartOrUpdateMonitor(rec.key, rec.obj.spec)
    /\ UNCHANGED <<objVars, pods, dirty, lostStatus, events>>

Finish ==
    /\ rec' = Idle
    /\ dirty' = IF rec.requeue THEN dirty \cup {rec.key} ELSE dirty
    /\ UNCHANGED <<cache, pods, loopVars, strVars>>

Current == api[rec.key] # None /\ api[rec.key].rv = rec.obj.rv

StatusSame ==
    /\ rec.pc = "status"
    /\ ~rec.changed
    /\ Finish
    /\ lostStatus' = lostStatus \ {rec.key}
    /\ UNCHANGED <<api, events>>

StatusUpdated ==
    /\ rec.pc = "status" /\ rec.changed /\ Current
    /\ Finish
    /\ api' = [api EXCEPT ![rec.key] = [rec.obj EXCEPT !.rv = NewRv(rec.key)]]
    /\ lostStatus' = lostStatus \ {rec.key}
    /\ UNCHANGED events

\* A conflict, or NotFound after a deletion: logged, not retried.
StatusConflict ==
    /\ rec.pc = "status" /\ rec.changed /\ ~Current
    /\ Finish
    /\ lostStatus' = lostStatus \ {rec.key}
    /\ UNCHANGED <<api, events>>

\* Any other failure of the update: logged, not retried.
StatusFails ==
    /\ rec.pc = "status" /\ rec.changed
    /\ Event
    /\ Finish
    /\ lostStatus' = lostStatus \cup {rec.key}
    /\ UNCHANGED api

Reconcile ==
    \/ GetNotFound \/ GetInvalid \/ GetValid \/ ListOk
    \/ StatusSame \/ StatusUpdated \/ StatusConflict
-----------------------------------------------------------------------------
(* runMonitorLoop.                                                         *)

FreeStreams ==
    {s \in Streams : ~Living(s) /\ \A l \in Loops, p \in Pods : active[l][p] # s}

Running(l) == {p \in Matching(loopSpec[l]) : pods[p] = "Running"}

MutGoneOnly(l) == {p \in Pods : active[l][p] # None /\ pods[p] = "Absent"}

\* Pods that have an entry but are no longer running or there.
Stale(l) == {p \in Pods : active[l][p] # None /\ p \notin Running(l)}

MutFreshAlways(l) == Running(l)

\* Running Pods without an entry.  An entry stays when its stream ends.
Fresh(l) == {p \in Running(l) : active[l][p] = None}

\* One tick of the 15 s ticker.  select may prefer the tick to a done
\* context; the streams it then starts are born cancelled.
Tick(l) ==
    /\ loopKey[l] # None
    /\ Stale(l) \cup Fresh(l) # {}
    /\ \E f \in [Fresh(l) -> FreeStreams] :
        /\ \A p, q \in Fresh(l) : f[p] = f[q] => p = q
        /\ LET started == {f[p] : p \in Fresh(l)}
               podOf(s) == CHOOSE p \in Fresh(l) : f[p] = s
               stopped == {active[l][p] : p \in Stale(l)}
           IN
           /\ active' = [active EXCEPT ![l] =
                  [p \in Pods |-> IF p \in Fresh(l) THEN f[p]
                                  ELSE IF p \in Stale(l) THEN None
                                  ELSE active[l][p]]]
           /\ strKey' = [s \in Streams |->
                  IF s \in started THEN loopKey[l] ELSE strKey[s]]
           /\ strPod' = [s \in Streams |->
                  IF s \in started THEN podOf(s) ELSE strPod[s]]
           /\ strLoop' = [s \in Streams |->
                  IF s \in started THEN l ELSE strLoop[s]]
           /\ strDone' = (strDone \cup {s \in stopped : Living(s)})
                         \cup (IF l \in loopDone THEN started ELSE {})
           /\ broken' = broken \ stopped
    /\ UNCHANGED <<objVars, pods, dirty, rec, monitors, loopKey, loopSpec,
                   loopDone, lostStatus, events>>

\* The loop sees its context done, cancels its streams and returns.
LoopExit(l) ==
    /\ loopKey[l] # None
    /\ l \in loopDone
    /\ loopKey' = [loopKey EXCEPT ![l] = None]
    /\ loopSpec' = [loopSpec EXCEPT ![l] = None]
    /\ loopDone' = loopDone \ {l}
    /\ active' = [active EXCEPT ![l] = NoPods]
    /\ strDone' = strDone \cup {s \in Streams :
                                  Living(s) /\ \E p \in Pods : active[l][p] = s}
    /\ broken' = broken \ {active[l][p] : p \in Pods}
    /\ UNCHANGED <<objVars, pods, dirty, rec, monitors,
                   strKey, strPod, strLoop, lostStatus, events>>
-----------------------------------------------------------------------------
(* streamPodLogs, seen from outside.                                       *)

Ended(s) ==
    /\ strKey' = [strKey EXCEPT ![s] = None]
    /\ strPod' = [strPod EXCEPT ![s] = None]
    /\ strLoop' = [strLoop EXCEPT ![s] = None]
    /\ strDone' = strDone \ {s}
    /\ UNCHANGED <<objVars, pods, dirty, rec, loopVars, lostStatus>>

\* The context is done: req.Stream or the read fails, or the select sees it.
\* The Pod may also have ended and closed the stream.
StreamEnds(s) ==
    /\ Living(s)
    /\ s \in strDone \/ pods[strPod[s]] # "Running"
    /\ Ended(s)
    /\ UNCHANGED <<broken, events>>

\* The stream fails to open, or breaks, under a running Pod: logged, and the
\* goroutine returns.
StreamBreaks(s) ==
    /\ Living(s)
    /\ Event
    /\ Ended(s)
    /\ broken' = IF \E l \in Loops, p \in Pods : active[l][p] = s
                 THEN broken \cup {s} ELSE broken
-----------------------------------------------------------------------------
\* The process dies and is started again on what is stored.
Restart ==
    /\ Event
    /\ rec' = Idle
    /\ monitors' = [k \in Keys |-> None]
    /\ loopKey' = NoLoop /\ loopSpec' = NoLoop /\ loopDone' = {}
    /\ active' = [l \in Loops |-> NoPods]
    /\ strKey' = NoStream /\ strPod' = NoStream /\ strLoop' = NoStream
    /\ strDone' = {} /\ broken' = {}
    /\ cache' = api
    /\ dirty' = {k \in Keys : api[k] # None}
    /\ UNCHANGED <<api, pods, lostStatus>>

Next ==
    \/ \E k \in Keys : Create(k) \/ EditSpec(k) \/ Delete(k) \/ CountAlert(k)
    \/ \E k \in Keys : Informer(k) \/ Dequeue(k)
    \/ \E p \in Pods, ph \in Phases : PodChange(p, ph)
    \/ Reconcile \/ GetFails \/ ListFails \/ StatusFails
    \/ \E l \in Loops : Tick(l) \/ LoopExit(l)
    \/ \E s \in Streams : StreamEnds(s) \/ StreamBreaks(s)
    \/ Restart

Spec == Init /\ [][Next]_vars

\* The informer delivers, the worker works, goroutines that can run do, and a
\* loop that is not restarted for 15 s ticks.
Fairness ==
    /\ \A k \in Keys : WF_vars(Informer(k)) /\ SF_vars(Dequeue(k))
    /\ WF_vars(Reconcile)
    /\ \A l \in Loops : WF_vars(Tick(l)) /\ WF_vars(LoopExit(l))
    /\ \A s \in Streams : WF_vars(StreamEnds(s))

FairSpec == Spec /\ Fairness
-----------------------------------------------------------------------------
\* The loops and streams that still work for a MonitorPod.
LiveLoops(k) == {l \in Loops : loopKey[l] = k /\ l \notin loopDone}
Wired(s) == Living(s) /\ s \notin strDone

\* A MonitorPod never has two loops at work, and the one it has is the one
\* whose cancel function the manager holds (StartOrUpdateMonitor cancels the
\* old loop, StopMonitor forgets none).
OneLiveLoop ==
    \A l \in Loops : loopKey[l] # None /\ l \notin loopDone =>
                         monitors[loopKey[l]] = l

\* A Pod's log is never read twice for one MonitorPod, however reconciles,
\* ticks, cancellations and goroutine exits interleave.
NoDoubleStream ==
    \A s, t \in Streams :
        Wired(s) /\ Wired(t) /\ strKey[s] = strKey[t] /\ strPod[s] = strPod[t]
            => s = t

\* No stream that is still wired has lost its loop: cancelling the registered
\* loop reaches it.
NoOrphanStream ==
    \A s \in Streams : Wired(s) =>
        /\ monitors[strKey[s]] = strLoop[s]
        /\ active[strLoop[s]][strPod[s]] = s

\* What is run and read for k, as far as contexts that are not done tell.
RunningSpec(k) == IF monitors[k] = None THEN None ELSE loopSpec[monitors[k]]
Reading(k) == {strPod[s] : s \in {t \in Streams : Wired(t) /\ strKey[t] = k}}

PR == INSTANCE PodReading WITH
          Monitors <- Keys,
          running <- [k \in Keys |-> RunningSpec(k)],
          reading <- [k \in Keys |-> Reading(k)],
          up <- {p \in Pods : pods[p] = "Running"}

\* Loops that outlive their cancellation, ticks that race it and goroutines
\* that return late show in nothing that is read: a tick opens only running
\* Pods that the spec of the registered loop matches, ends the others and
\* interrupts none, and replacing the loop ends in one step all it has opened.
ReadsAsTold == PR!PRSpec

\* Nothing is pending for k: no request is queued and none is in progress.
Quiet(k) == k \notin dirty /\ rec.key # k

\* Once the worker is done with k, k has a loop for the cached spec, or none
\* when the MonitorPod is gone, whatever failed or changed on the way.  (An
\* invalid selector leaves the previous loop in place.)
SettledMonitor ==
    \A k \in Keys : Quiet(k) =>
        /\ cache[k] = None => monitors[k] = None
        /\ cache[k] # None /\ cache[k].spec \in Valid =>
               /\ monitors[k] # None
               /\ loopSpec[monitors[k]] = cache[k].spec

\* A status update lost to a conflict is never the last word: unless its last
\* update failed for another reason, once k is quiet its status says what its
\* spec and Pods call for.
SettledStatus ==
    \A k \in Keys :
        Quiet(k) /\ cache[k] = api[k] /\ api[k] # None /\ k \notin lostStatus =>
            IF api[k].spec \in Valid
            THEN /\ api[k].ready = "SetupComplete"
                 /\ api[k].count = Cardinality(Listed(api[k].spec))
            ELSE api[k].ready = "InvalidSelector"

\* When a MonitorPod is gone for good, so are in the end its loops and streams.
DeletedStops ==
    \A k \in Keys :
        <>[](api[k] = None) =>
            <>[](/\ \A l \in Loops : loopKey[l] # k
                 /\ \A s \in Streams : strKey[s] # k)

Wanted(k, p) ==
    /\ api[k] # None
    /\ api[k].spec \in Valid
    /\ p \in Matching(api[k].spec)
    /\ pods[p] = "Running"

Streaming(k, p) ==
    \E s \in Streams : strKey[s] = k /\ strPod[s] = p /\ s \notin strDone

\* The entry of a stream that broke keeps the registered loop from starting
\* another.
Abandoned(k, p) == monitors[k] # None /\ active[monitors[k]][p] \in broken

\* A Pod that stays running and matched is in the end streamed, and for good;
\* only the leftover entry of a stream that broke can prevent it, and a new
\* loop forgets those.
KeepsStreaming ==
    \A k \in Keys, p \in Pods :
        <>[]Wanted(k, p) => <>[]Streaming(k, p) \/ <>[]Abandoned(k, p)
=============================================================================
