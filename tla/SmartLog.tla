------------------------------- MODULE SmartLog -------------------------------
(***************************************************************************)
(* The round an alert makes through the whole operator: a line of a Pod's  *)
(* log is read, offered to the limiter, sent and counted in the status of  *)
(* the MonitorPod; the count is an event of the MonitorPod, for which its  *)
(* reconciler replaces the monitor loop; and the new loop's stream reads   *)
(* the log from its beginning.                                             *)
(*                                                                         *)
(* One MonitorPod with one rule and a rateLimit, and one running Pod.  The *)
(* limiter is the module RateLimiter as it stands (that a call of Allow    *)
(* may be one step is shown in LimiterCalls); of MonitorLifecycle,         *)
(* LogStream and AlertDispatch only what the round needs is kept: when the *)
(* loop was started, how far its stream has read, and where each dispatch  *)
(* is.  Lines that match no rule, failing reads and streams that break are *)
(* theirs alone.                                                           *)
(*                                                                         *)
(* A tick is several seconds.  What takes the operator milliseconds takes  *)
(* no time here, and the clock waits for it (Urgent).  What may take       *)
(* seconds is sending an alert and reading the old part of a log: each     *)
(* behaviour has bounds of its own for them, latency and catchup.  Nothing *)
(* relates them to the limiter's period, since nothing in the code does.   *)
(***************************************************************************)
EXTENDS Naturals, Sequences

CONSTANTS
    Rule,         \* the rate limit key, "namespace/MonitorPod/rule"
    Limit,        \* spec.rateLimit.limit
    Period,       \* spec.rateLimit.period, in ticks: any that parses
    Delay,        \* from the start of a loop to its first tick, 15 s
    Latencies,    \* what may be the longest that enriching and sending takes
    Catchups,     \* what may be the longest that reading old lines takes
    None,         \* no loop, no stream
    MaxLines,     \* bound on the log
    MaxTime,      \* bound on the clock
    MaxTouches,   \* bound on events of the MonitorPod or its Pod from outside
    MaxRestarts   \* bound on restarts of the operator

ASSUME SmartLogConfig ==
    /\ Limit \in Nat \ {0}
    /\ Period \in Nat /\ Delay \in Nat \ {0}
    /\ Latencies \subseteq Nat /\ Catchups \subseteq Nat
    /\ MaxLines \in Nat
    /\ None \notin Nat

VARIABLES
    now, data, hist, base, denied, restarts,   \* the limiter's
    written,    \* matching lines the container has written
    loopAt,     \* when the registered loop was started, None if there is none
    pos,        \* lines its stream has read, None if it has no stream
    pending,    \* an event of the MonitorPod is on its way to the reconciler
    jobs,       \* dispatches in flight
    offered,    \* history: the lines offered to the limiter
    sent,       \* history: how often each line was alerted
    outside,    \* history: an event from outside has come since the last grant
    lapses,     \* history: how often the limiter forgot a round under way
    touches,
    latency,    \* the bounds of this behaviour
    catchup

limiterVars == <<now, data, hist, base, denied, restarts>>
loopVars == <<loopAt, pos, pending>>
histVars == <<offered, sent, outside, lapses>>
pace == <<latency, catchup>>
vars == <<limiterVars, written, loopVars, jobs, histVars, touches, pace>>

L == INSTANCE RateLimiter WITH
         Keys <- {Rule},
         Limit <- [k \in {Rule} |-> Limit], Period <- [k \in {Rule} |-> Period],
         MaxTime <- MaxTime, MaxRestarts <- MaxRestarts,
         now <- now, data <- data, hist <- hist, base <- base,
         denied <- denied, restarts <- restarts

Lines == 1..MaxLines

\* A line is read again only by another stream, a Delay later: a dispatch is
\* known by its line and the time.
Job == [line : Lines, at : Nat, place : {"limit", "send", "count"}]

TypeOK ==
    /\ L!TypeOK
    /\ written \in 0..MaxLines
    /\ loopAt \in Nat \cup {None}
    /\ pos \in 0..written \cup {None}
    /\ pos # None => loopAt # None
    /\ pending \in BOOLEAN
    /\ jobs \subseteq Job
    /\ offered \subseteq Lines
    /\ sent \in [Lines -> Nat]
    /\ outside \in BOOLEAN /\ lapses \in Nat
    /\ touches \in Nat
    /\ latency \in Latencies /\ catchup \in Catchups

Init ==
    /\ L!Init
    /\ written = 0
    /\ loopAt = None /\ pos = None
    /\ pending = TRUE
    /\ jobs = {}
    /\ offered = {} /\ sent = [i \in Lines |-> 0]
    /\ outside = TRUE /\ lapses = 0
    /\ touches = 0
    /\ latency \in Latencies /\ catchup \in Catchups
-----------------------------------------------------------------------------
(* The container and the stream.                                           *)

WriteLine ==
    /\ written < MaxLines
    /\ written' = written + 1
    /\ UNCHANGED <<limiterVars, loopVars, jobs, histVars, touches, pace>>

MutRead ==
    /\ pos # None
    /\ pos' = pos + 1
    /\ jobs' = jobs \cup {[line |-> pos + 1, at |-> now, place |-> "limit"]}
    /\ UNCHANGED <<limiterVars, written, loopAt, pending, histVars>>
    /\ UNCHANGED <<touches, pace>>

\* The stream reads a line, it matches, and a dispatch is started.
Read ==
    /\ pos # None
    /\ pos < written
    /\ pos' = pos + 1
    /\ jobs' = jobs \cup {[line |-> pos + 1, at |-> now, place |-> "limit"]}
    /\ UNCHANGED <<limiterVars, written, loopAt, pending, histVars>>
    /\ UNCHANGED <<touches, pace>>
-----------------------------------------------------------------------------
(* The dispatches.                                                         *)

Moved(j, place) == jobs' = (jobs \ {j}) \cup {[j EXCEPT !.place = place]}
Ended(j) == jobs' = jobs \ {j}

Grant(j) ==
    /\ j.place = "limit"
    /\ L!AllowFirst(Rule) \/ L!AllowAgain(Rule)
    /\ Moved(j, "send")
    /\ offered' = offered \cup {j.line}
    /\ outside' = FALSE
    /\ UNCHANGED <<written, loopVars, sent, lapses, touches, pace>>

MutSuppress(j) ==
    /\ j.place = "limit"
    /\ L!Deny(Rule)
    /\ Moved(j, "count")
    /\ offered' = offered \cup {j.line}
    /\ UNCHANGED <<written, loopVars, sent, outside, lapses, touches, pace>>

Suppress(j) ==
    /\ j.place = "limit"
    /\ L!Deny(Rule)
    /\ Ended(j)
    /\ offered' = offered \cup {j.line}
    /\ UNCHANGED <<written, loopVars, sent, outside, lapses, touches, pace>>

\* A receiver has accepted the alert, within latency ...
Deliver(j) ==
    /\ j.place = "send"
    /\ Moved(j, "count")
    /\ sent' = [sent EXCEPT ![j.line] = @ + 1]
    /\ UNCHANGED <<limiterVars, written, loopVars, offered, outside, lapses>>
    /\ UNCHANGED <<touches, pace>>

\* ... or none has: no channel is Ready, no template renders, no POST succeeds.
DeliverFails(j) ==
    /\ j.place = "send"
    /\ Ended(j)
    /\ UNCHANGED <<limiterVars, written, loopVars, histVars, touches, pace>>

\* The count is an update of the MonitorPod, and so an event of it; ...
Count(j) ==
    /\ j.place = "count"
    /\ Ended(j)
    /\ pending' = TRUE
    /\ UNCHANGED <<limiterVars, written, loopAt, pos, histVars, touches, pace>>

\* ... if it succeeds.
CountFails(j) ==
    /\ j.place = "count"
    /\ Ended(j)
    /\ UNCHANGED <<limiterVars, written, loopVars, histVars, touches, pace>>

Dispatch(j) ==
    \/ Grant(j) \/ Suppress(j)
    \/ Deliver(j) \/ DeliverFails(j)
    \/ Count(j) \/ CountFails(j)
-----------------------------------------------------------------------------
(* The reconciler and the loop.                                            *)

MutReconcile ==
    /\ pending
    /\ pending' = FALSE
    /\ loopAt' = now /\ pos' = None
    /\ data' = [data EXCEPT ![Rule] = L!NoInfo]
    /\ UNCHANGED <<now, hist, base, denied, restarts>>
    /\ UNCHANGED <<written, jobs, histVars, touches, pace>>

\* Any event replaces the loop and cancels its stream; dispatches go on.
Reconcile ==
    /\ pending
    /\ pending' = FALSE
    /\ loopAt' = now /\ pos' = None
    /\ UNCHANGED <<limiterVars, written, jobs, histVars, touches, pace>>

TickDue == loopAt # None /\ pos = None /\ now >= loopAt + Delay

MutLoopTick ==
    /\ TickDue
    /\ pos' = written
    /\ UNCHANGED <<limiterVars, written, loopAt, pending, jobs, histVars>>
    /\ UNCHANGED <<touches, pace>>

\* The first tick starts a stream, with neither SinceTime nor TailLines.
LoopTick ==
    /\ TickDue
    /\ pos' = 0
    /\ UNCHANGED <<limiterVars, written, loopAt, pending, jobs, histVars>>
    /\ UNCHANGED <<touches, pace>>
-----------------------------------------------------------------------------
(* The world outside.                                                      *)

\* Someone edits the MonitorPod, or an event of its Pod is mapped to it.
Touch ==
    /\ touches < MaxTouches
    /\ touches' = touches + 1
    /\ pending' = TRUE
    /\ outside' = TRUE
    /\ UNCHANGED <<limiterVars, written, loopAt, pos, jobs>>
    /\ UNCHANGED <<offered, sent, lapses, pace>>

\* The operator's process is replaced: the limiter's map and all goroutines are
\* gone, and the initial List is an event of every MonitorPod.
Crash ==
    /\ L!Restart
    /\ jobs' = {}
    /\ loopAt' = None /\ pos' = None
    /\ pending' = TRUE
    /\ outside' = TRUE
    /\ UNCHANGED <<written, offered, sent, lapses, touches, pace>>

\* A line that was offered before is read again, or about to be offered again.
Replaying ==
    \/ pos # None /\ \E i \in offered : i > pos
    \/ \E j \in jobs : j.place = "limit" /\ j.line \in offered

\* A round is under way: an alert on its way, the event of its count, the loop
\* started for it, or the replay.
Outstanding ==
    \/ pending
    \/ loopAt # None /\ pos = None
    \/ Replaying
    \/ \E j \in jobs : j.place # "limit"

\* What the clock waits for.
Urgent ==
    \/ pending
    \/ TickDue
    \/ /\ pos # None /\ \E i \in offered : i > pos
       /\ now >= loopAt + Delay + catchup
    \/ \E j \in jobs : j.place # "send" \/ now >= j.at + latency

\* With the next tick the limiter forgets the alerts that the round under way
\* goes back to.
Lapsing ==
    /\ Outstanding /\ ~outside
    /\ L!Exists(Rule) /\ now = data[Rule].LastSentAt + Period

Tick ==
    /\ ~Urgent
    /\ L!Tick
    /\ lapses' = lapses + (IF Lapsing THEN 1 ELSE 0)
    /\ UNCHANGED <<written, loopVars, jobs, offered, sent, outside>>
    /\ UNCHANGED <<touches, pace>>

Next ==
    \/ WriteLine \/ Read
    \/ \E j \in jobs : Dispatch(j)
    \/ Reconcile \/ LoopTick
    \/ Touch \/ Crash \/ Tick

Spec == Init /\ [][Next]_vars
-----------------------------------------------------------------------------
\* The feedback is paid for: beyond Limit grants for every printed line, event
\* from outside and restart, Limit more are given only where the limiter has
\* forgotten the last alert before the round that it set off was over (the
\* count of dispatchAlert, StartOrUpdateMonitor, streamPodLogs without
\* SinceTime, InMemoryRateLimiter.Allow).
ReplayBounded ==
    Len(hist[Rule]) <= Limit * (written + touches + restarts + lapses)

\* It never does if the period is as long as a round takes, the sending, the
\* loop's first tick and the replay together: then the feedback ends by itself.
\* With a shorter period (any that parses is taken) it need not.
LapseFree == latency + Delay + catchup <= Period => lapses = 0

\* Restarts of the loop and of the operator lose no line: once the stream has
\* caught up, all that was printed has been offered to the limiter, also what
\* was printed between two streams or was in flight at a crash.
NothingMissed ==
    pos = written /\ (\A j \in jobs : j.place # "limit") => offered = 1..written

\* A line that was printed once is alerted once.
OncePerPrint == \A i \in Lines : sent[i] <= 1
=============================================================================
