---------------------------- MODULE AlertDispatch ----------------------------
(***************************************************************************)
(* dispatchAlert of internal/controller/monitorpod_controller.go and the   *)
(* senders it starts: from a matched event to the POSTs, the AlertRecord   *)
(* and the count in the status of the MonitorPod.                          *)
(*                                                                         *)
(* Dispatches of one MonitorPod run concurrently, a goroutine per matched  *)
(* event, and share the object they count in with its reconciler.  That    *)
(* object is kept as the list of its versions, each with its               *)
(* AlertsSentCount; the resourceVersion is a position in the list.  Reads  *)
(* come from the informer's cache, a version that may be old, and an       *)
(* update succeeds only on the version that is current.                    *)
(*                                                                         *)
(* What a dispatch reads and nothing else here depends on (the limiter's   *)
(* answer, which Alerts are Ready, whether the URL Secret resolves) is     *)
(* chosen when it is read.                                                 *)
(***************************************************************************)
EXTENDS Naturals, Sequences, FiniteSets

CONSTANTS
    Dispatches,   \* calls of dispatchAlert
    Channels,     \* Alerts
    Members,      \* the Alerts the target names, in order, perhaps repeated
    AI,           \* whether aiEnrichment is enabled
    RecordAlerts, \* spec.recordAlerts
    MaxTries,     \* maxRetries of the senders and of the AI request
    Steps,        \* Steps of retry.DefaultRetry
    MaxVersions   \* bound: the reconciler updates only below this version

ASSUME DispatchConfig ==
    /\ IsFiniteSet(Dispatches)
    /\ Members \in Seq(Channels)
    /\ AI \in BOOLEAN /\ RecordAlerts \in BOOLEAN
    /\ MaxTries \in Nat \ {0} /\ Steps \in Nat \ {0}

VARIABLES
    pc,        \* pc[d]: where dispatch d is
    jobs,      \* jobs[d]: its senders, by position in Members
    records,   \* the dispatches with an AlertRecord
    versions,  \* AlertsSentCount of each version of the MonitorPod
    gone,      \* the MonitorPod has been deleted
    cache,     \* the version in the cache, 0 when deleted
    held,      \* held[d]: the version d is about to update, 0 if none
    tries,     \* tries[d]: conflicts d has met
    writer,    \* the version the reconciler is about to update, 0 if none
    counted,   \* history: the dispatches whose update was accepted
    provider,  \* the AIProvider in the cache: its type's section and Ready
    asked      \* asked[d]: attempts at it of d's enrichment, in vain

vars == <<pc, jobs, records, versions, gone, cache, held, tries, writer,
          counted, provider, asked>>
object == <<versions, gone, cache, writer, counted>>

\* A sender: requests made without an answer below 500, requests the other
\* side accepted, and how many of those went without an answer.
Job == [state : {"start", "try", "ok", "failed"},
        tried : 0..MaxTries, accepted : 0..MaxTries, lost : 0..MaxTries]

NewJob == [state |-> "start", tried |-> 0, accepted |-> 0, lost |-> 0]

Senders == UNION {[R -> Job] : R \in SUBSET DOMAIN Members}
NoSenders == [i \in {} |-> NewJob]

Places == {"idle", "target", "ai", "ask", "send", "record", "count",
           "done", "dead", "panic"}

TypeOK ==
    /\ pc \in [Dispatches -> Places]
    /\ jobs \in [Dispatches -> Senders]
    /\ records \subseteq Dispatches
    /\ versions \in Seq(Nat) /\ versions # <<>>
    /\ gone \in BOOLEAN
    /\ cache \in 0..Len(versions)
    /\ held \in [Dispatches -> 0..Len(versions)]
    /\ tries \in [Dispatches -> 0..Steps]
    /\ writer \in 0..Len(versions)
    /\ counted \subseteq Dispatches
    /\ provider \in [section : BOOLEAN, ready : BOOLEAN]
    /\ asked \in [Dispatches -> 0..(MaxTries - 1)]

Init ==
    /\ pc = [d \in Dispatches |-> "idle"]
    /\ jobs = [d \in Dispatches |-> NoSenders]
    /\ records = {}
    /\ versions = <<0>> /\ gone = FALSE /\ cache = 1
    /\ held = [d \in Dispatches |-> 0]
    /\ tries = [d \in Dispatches |-> 0]
    /\ writer = 0
    /\ counted = {}
    /\ provider = [section |-> TRUE, ready |-> TRUE]
    /\ asked = [d \in Dispatches |-> 0]

Goto(d, place) == pc' = [pc EXCEPT ![d] = place]
-----------------------------------------------------------------------------
(* Before the senders.                                                     *)

\* The rate limit: none is set, or Allow grants or suppresses.
Limit(d) ==
    /\ pc[d] = "idle"
    /\ \E granted \in BOOLEAN : Goto(d, IF granted THEN "target" ELSE "done")
    /\ UNCHANGED <<jobs, records, object, held, tries, provider, asked>>

\* getAlertsFromTarget: the members that exist and are Ready.  A target that
\* is missing or of another kind yields none.
Resolve(d) ==
    /\ pc[d] = "target"
    /\ \E ready \in SUBSET Channels :
          LET alerts == {i \in DOMAIN Members : Members[i] \in ready}
          IN  /\ jobs' = [jobs EXCEPT ![d] = [i \in alerts |-> NewJob]]
              /\ Goto(d, IF alerts = {} THEN "done" ELSE IF AI THEN "ai" ELSE "send")
    /\ UNCHANGED <<records, object, held, tries, provider, asked>>

\* enrichWithAI returns an error before any request: the provider is missing
\* or not Ready, the prompt does not render, its type is unknown or its key is
\* empty.
EnrichFails(d) ==
    /\ pc[d] = "ai"
    /\ Goto(d, "send")
    /\ UNCHANGED <<jobs, records, object, held, tries, provider, asked>>

EnrichAsks(d) ==
    /\ pc[d] = "ai"
    /\ provider.ready /\ provider.section
    /\ Goto(d, "ask")
    /\ UNCHANGED <<jobs, records, object, held, tries, provider, asked>>

\* callLanguageModel dereferences the section of the provider's type: a nil
\* one ends the process, with everything that runs in it.
EnrichPanics(d) ==
    /\ pc[d] = "ai"
    /\ provider.ready /\ ~provider.section
    /\ pc' = [e \in Dispatches |->
                 IF e = d THEN "panic"
                 ELSE IF pc[e] \in {"idle", "done", "panic"} THEN pc[e] ELSE "dead"]
    /\ writer' = 0
    /\ UNCHANGED <<jobs, records, versions, gone, cache, counted, held, tries, provider, asked>>
\* An answer below 500 ends the attempts, with an analysis or (a 4xx, a text
\* that does not parse) an error; so does the deadline of the enrichment.
AskEnds(d) ==
    /\ pc[d] = "ask"
    /\ Goto(d, "send")
    /\ asked' = [asked EXCEPT ![d] = 0]
    /\ UNCHANGED <<jobs, records, object, held, tries, provider>>

MutAskDrops(d) ==
    /\ pc[d] = "ask"
    /\ LET last == asked[d] + 1 = MaxTries
       IN  /\ asked' = [asked EXCEPT ![d] = IF last THEN 0 ELSE @ + 1]
           /\ Goto(d, IF last THEN "done" ELSE "ask")
    /\ UNCHANGED <<jobs, records, object, held, tries, provider>>

\* An answer of 500 or more, or no connection: try again, or give up after
\* the last attempt.
AskAgain(d) ==
    /\ pc[d] = "ask"
    /\ LET last == asked[d] + 1 = MaxTries
       IN  /\ asked' = [asked EXCEPT ![d] = IF last THEN 0 ELSE @ + 1]
           /\ Goto(d, IF last THEN "send" ELSE "ask")
    /\ UNCHANGED <<jobs, records, object, held, tries, provider>>
-----------------------------------------------------------------------------
(* The senders: sendWebhookAlert and sendFeishuAlert.                      *)

SetJob(d, i, job) == jobs' = [jobs EXCEPT ![d][i] = job]

\* The sender returns before its first request: the spec of its type is nil,
\* the type is unknown, the template does not render, the URL Secret does not
\* resolve or the request cannot be built.
SenderReturns(d, i) ==
    /\ pc[d] = "send"
    /\ jobs[d][i].state = "start"
    /\ SetJob(d, i, [jobs[d][i] EXCEPT !.state = "failed"])
    /\ UNCHANGED <<pc, records, object, held, tries, provider, asked>>

Sending(d, i) == pc[d] = "send" /\ jobs[d][i].state \in {"start", "try"}

MutRetryAccepted(job) ==
    [state |-> IF job.tried + 1 < MaxTries THEN "try" ELSE "ok",
     tried |-> job.tried + 1, accepted |-> job.accepted + 1, lost |-> job.lost]

\* The other side accepted the request and said so.
Succeed(job) ==
    [state |-> "ok",
     tried |-> job.tried, accepted |-> job.accepted + 1, lost |-> job.lost]

MutOneTryMore(job, n) ==
    [state |-> IF job.tried < MaxTries THEN "try" ELSE "failed",
     tried |-> job.tried + 1, accepted |-> job.accepted + n, lost |-> job.lost + n]

\* One more attempt came to nothing, though the other side accepted n requests
\* of it: try again, or give up after the last.
Again(job, n) ==
    [state |-> IF job.tried + 1 < MaxTries THEN "try" ELSE "failed",
     tried |-> job.tried + 1, accepted |-> job.accepted + n, lost |-> job.lost + n]

PostAccepted(d, i) ==
    /\ Sending(d, i)
    /\ SetJob(d, i, Succeed(jobs[d][i]))
    /\ UNCHANGED <<pc, records, object, held, tries, provider, asked>>

\* An answer from 400 on and below 500 is not tried again.
PostRejected(d, i) ==
    /\ Sending(d, i)
    /\ SetJob(d, i, [jobs[d][i] EXCEPT !.state = "failed"])
    /\ UNCHANGED <<pc, records, object, held, tries, provider, asked>>

\* An answer of 500 or more, a refused connection, or no answer in 15 seconds;
\* in the last case the request may have been accepted.
PostFails(d, i) ==
    /\ Sending(d, i)
    /\ \E n \in {0, 1} : SetJob(d, i, Again(jobs[d][i], n))
    /\ UNCHANGED <<pc, records, object, held, tries, provider, asked>>

Post(d, i) ==
    \/ SenderReturns(d, i)
    \/ PostAccepted(d, i) \/ PostRejected(d, i) \/ PostFails(d, i)

MutNoWait(d) == \E i \in DOMAIN jobs[d] : jobs[d][i].state \in {"ok", "failed"}

\* wg.Wait
Returned(d) == \A i \in DOMAIN jobs[d] : jobs[d][i].state \in {"ok", "failed"}

Successes(d) == {i \in DOMAIN jobs[d] : jobs[d][i].state = "ok"}

AllReturn(d) ==
    /\ pc[d] = "send"
    /\ Returned(d)
    /\ Goto(d, IF Successes(d) = {} THEN "done"
               ELSE IF RecordAlerts THEN "record" ELSE "count")
    /\ UNCHANGED <<jobs, records, object, held, tries, provider, asked>>
-----------------------------------------------------------------------------
(* After them.                                                             *)

\* The AlertRecord is created, or that fails and is logged.
Record(d) ==
    /\ pc[d] = "record"
    /\ records' \in {records, records \cup {d}}
    /\ Goto(d, "count")
    /\ UNCHANGED <<jobs, object, held, tries, provider, asked>>

\* RetryOnConflict: read the MonitorPod, ...
CountGet(d) ==
    /\ pc[d] = "count" /\ held[d] = 0
    /\ IF cache = 0
       THEN Goto(d, "done") /\ UNCHANGED held
       ELSE held' = [held EXCEPT ![d] = cache] /\ UNCHANGED pc
    /\ UNCHANGED <<jobs, records, object, tries, provider, asked>>

Current(v) == ~gone /\ v = Len(versions)

MutCountBlindly(d) ==
    /\ pc[d] = "count" /\ held[d] # 0
    /\ ~gone
    /\ versions' = Append(versions, versions[held[d]] + 1)
    /\ counted' = counted \cup {d}
    /\ Goto(d, "done")
    /\ UNCHANGED <<jobs, records, gone, cache, writer, held, tries, provider, asked>>

\* ... raise the count and update, ...
CountUpdate(d) ==
    /\ pc[d] = "count" /\ held[d] # 0
    /\ Current(held[d])
    /\ versions' = Append(versions, versions[held[d]] + 1)
    /\ counted' = counted \cup {d}
    /\ Goto(d, "done")
    /\ UNCHANGED <<jobs, records, gone, cache, writer, held, tries, provider, asked>>

MutConflictForever(d) ==
    /\ pc[d] = "count" /\ held[d] # 0
    /\ ~gone /\ ~Current(held[d])
    /\ held' = [held EXCEPT ![d] = 0]
    /\ UNCHANGED <<pc, jobs, records, object, tries, provider, asked>>

\* ... and start over on a conflict, up to Steps times.
CountConflict(d) ==
    /\ pc[d] = "count" /\ held[d] # 0
    /\ ~gone /\ ~Current(held[d])
    /\ tries' = [tries EXCEPT ![d] = @ + 1]
    /\ held' = [held EXCEPT ![d] = 0]
    /\ Goto(d, IF tries[d] + 1 = Steps THEN "done" ELSE "count")
    /\ UNCHANGED <<jobs, records, object, provider, asked>>

\* Any other error ends the attempts: the MonitorPod is gone, or the API
\* server cannot be reached.  (An update that was accepted but whose answer is
\* lost is CountUpdate: the dispatch is over either way.)
CountFails(d) ==
    /\ pc[d] = "count" /\ held[d] # 0
    /\ Goto(d, "done")
    /\ UNCHANGED <<jobs, records, object, held, tries, provider, asked>>

Dispatch(d) ==
    \/ Limit(d) \/ Resolve(d)
    \/ EnrichFails(d) \/ EnrichPanics(d) \/ EnrichAsks(d) \/ AskEnds(d) \/ AskAgain(d)
    \/ \E i \in DOMAIN jobs[d] : Post(d, i)
    \/ AllReturn(d)
    \/ Record(d) \/ CountGet(d) \/ CountUpdate(d) \/ CountConflict(d) \/ CountFails(d)
-----------------------------------------------------------------------------
(* The rest of the operator and of the cluster.                            *)

\* Reconcile of the MonitorPod writes back the status it read.
ReconcileGet ==
    /\ writer = 0 /\ cache # 0
    /\ Len(versions) < MaxVersions
    /\ writer' = cache
    /\ UNCHANGED <<pc, jobs, records, versions, gone, cache, counted, held, tries, provider, asked>>

MutReconcileBlindly ==
    /\ writer # 0
    /\ versions' = IF gone THEN versions ELSE Append(versions, versions[writer])
    /\ writer' = 0
    /\ UNCHANGED <<pc, jobs, records, gone, cache, counted, held, tries, provider, asked>>

ReconcileUpdate ==
    /\ writer # 0
    /\ versions' = IF Current(writer) THEN Append(versions, versions[writer]) ELSE versions
    /\ writer' = 0
    /\ UNCHANGED <<pc, jobs, records, gone, cache, counted, held, tries, provider, asked>>

\* The informer delivers a later version, or the deletion.
CacheSync ==
    /\ cache # 0
    /\ \/ cache' \in (cache + 1)..Len(versions)
       \/ gone /\ cache' = 0
    /\ UNCHANGED <<pc, jobs, records, versions, gone, writer, counted, held, tries, provider, asked>>

Delete ==
    /\ ~gone
    /\ gone' = TRUE
    /\ UNCHANGED <<pc, jobs, records, versions, cache, writer, counted, held, tries, provider, asked>>

\* A user fills or empties the section of the provider's type, and its
\* reconciler follows.
EditProvider ==
    /\ provider' = [provider EXCEPT !.section = ~@]
    /\ UNCHANGED <<pc, jobs, records, object, held, tries, asked>>

ReconcileProvider ==
    /\ provider' = [provider EXCEPT !.ready = provider.section]
    /\ UNCHANGED <<pc, jobs, records, object, held, tries, asked>>

\* The operator's Pod is replaced: what runs in it is lost.
Crash ==
    /\ pc' = [d \in Dispatches |->
                 IF pc[d] \in {"idle", "done", "panic"} THEN pc[d] ELSE "dead"]
    /\ writer' = 0
    /\ UNCHANGED <<jobs, records, versions, gone, cache, counted, held, tries, provider, asked>>

Environment ==
    \/ ReconcileGet \/ ReconcileUpdate \/ CacheSync \/ Delete
    \/ EditProvider \/ ReconcileProvider \/ Crash

Next == (\E d \in Dispatches : Dispatch(d)) \/ Environment

Spec == Init /\ [][Next]_vars

\* The goroutines of the operator run, and every request has a timeout.
FairSpec == Spec /\ \A d \in Dispatches : WF_vars(pc[d] # "idle" /\ Dispatch(d))
-----------------------------------------------------------------------------
\* AlertsSentCount is the number of dispatches whose update was accepted:
\* neither a concurrent dispatch nor the reconciler overwrites one, and none
\* is counted twice.
NoLostCount == versions[Len(versions)] = Cardinality(counted)

\* A dispatch records and counts only when every sender has returned and the
\* other side of one of them has accepted the alert.
RecordJustified ==
    \A d \in records \cup counted :
        /\ \A i \in DOMAIN jobs[d] : jobs[d][i].state \in {"ok", "failed"}
        /\ \E i \in DOMAIN jobs[d] : jobs[d][i].accepted > 0

\* A sender delivers an alert twice only when an answer was lost, and never
\* more than MaxTries times.
DuplicatesExplained ==
    \A d \in Dispatches : \A i \in DOMAIN jobs[d] :
        LET job == jobs[d][i]
        IN  job.accepted <= job.lost + 1 /\ job.accepted <= MaxTries

\* The targets, by position, that have accepted the alert of d.
Reached(d) == {i \in DOMAIN jobs[d] : jobs[d][i].accepted > 0}

AO == INSTANCE AlertOutcome WITH
          Alerts <- Dispatches, Targets <- DOMAIN Members, Recording <- RecordAlerts,
          reached <- [d \in Dispatches |-> Reached(d)], recorded <- records,
          count <- versions[Len(versions)]

\* With its retries, caches, conflicts and crashes, dispatchAlert keeps the
\* promise: the current count moves by one, with an alert that has reached a
\* target, in the step in which that alert's update is accepted, and an alert
\* reaches nobody once it is recorded or counted.
KeepsOutcome == AO!AOSpec

\* dispatchAlert returns, unless the process ends: whatever the receivers, the
\* provider and the API server do, the goroutines started for matched events
\* do not pile up.
DispatchEnds ==
    \A d \in Dispatches : pc[d] # "idle" ~> pc[d] \in {"done", "dead", "panic"}

\* What a dispatch has left: stages to go through, attempts at the provider
\* and of its senders, and rounds of the count, each a read and an update.
Stage == [idle |-> 0, target |-> 1, ai |-> 2, ask |-> 3, send |-> 4,
          record |-> 5, count |-> 6, done |-> 7, dead |-> 7, panic |-> 7]

StagesLeft(d) == {n \in 1..7 : Stage[pc[d]] < n}

QuestionsLeft(d) ==
    {n \in 0..(MaxTries - 1) : Stage[pc[d]] <= Stage["ask"] /\ asked[d] <= n}

AttemptsLeft(d) ==
    {a \in (DOMAIN Members) \X (0..MaxTries) :
        \/ Stage[pc[d]] <= Stage["target"]
        \/ /\ a[1] \in DOMAIN jobs[d] /\ jobs[d][a[1]].state \in {"start", "try"}
           /\ jobs[d][a[1]].tried <= a[2]}

RoundsLeft(d) ==
    {r \in (0..Steps) \X {"read", "update"} :
        \/ tries[d] < r[1]
        \/ tries[d] = r[1] /\ (r[2] = "read" => held[d] = 0)}

GivesNothingBack(d) ==
    /\ StagesLeft(d)' \subseteq StagesLeft(d)
    /\ QuestionsLeft(d)' \subseteq QuestionsLeft(d)
    /\ AttemptsLeft(d)' \subseteq AttemptsLeft(d)
    /\ RoundsLeft(d)' \subseteq RoundsLeft(d)

UsesUp(d) ==
    \/ StagesLeft(d)' # StagesLeft(d)
    \/ QuestionsLeft(d)' # QuestionsLeft(d)
    \/ AttemptsLeft(d)' # AttemptsLeft(d)
    \/ RoundsLeft(d)' # RoundsLeft(d)

\* Every step of a dispatch uses up something of this finite stock, and no step,
\* its own or another actor's, gives any of it back: retries inside retries do
\* not start each other over, and an update of the MonitorPod by the reconciler
\* or by another dispatch costs this one a round, never a repetition.
WorkShrinks ==
    [][\A d \in Dispatches : GivesNothingBack(d) /\ (Dispatch(d) => UsesUp(d))]_vars

\* Whatever comes of the enrichment, an answer, an error or the deadline, the
\* alert goes on to the senders: only the end of the process can stop it.
AIOnlyDelays ==
    \A d \in Dispatches : pc[d] = "ai" ~> pc[d] \in {"send", "dead", "panic"}

\* AI enrichment that fails leaves the alert to be sent without it.
AIFailureHarmless == \A d \in Dispatches : pc[d] # "panic"
=============================================================================
