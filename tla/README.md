# smart-log in TLA+

smart-log is a Kubernetes operator. It follows the logs of the Pods a MonitorPod
selects, matches them against the MonitorPod's rules and sends an alert to the
Alerts or AlertGroups it names, limited in rate, optionally enriched by a language
model and optionally kept as AlertRecords. This directory models the operator's own
code (`internal/controller`, about 1,700 lines of Go), checks the models with TLC on
small instances and proves the most important properties with TLAPS for every
instance. In what follows MPC is `internal/controller/monitorpod_controller.go`.

## The system

| Part | State it keeps | Operations | Modules |
|---|---|---|---|
| InMemoryRateLimiter (MPC 74-125) | a map from "namespace/MonitorPod/rule" to a count and the time of the last grant | `Allow`; a restart empties the map | `LimiterCalls`, which implements `RateLimiter` |
| MonitorPodReconciler and MonitorManager (MPC 152-288, 1080-1115) | the registry of cancel functions; per loop the map `activePodMonitors`; the MonitorPod's status | `Reconcile`, `StartOrUpdateMonitor`, `StopMonitor`, the loop's 15 s tick, its end, the Pod watch | `MonitorLifecycle`, abstract promise `PodReading` |
| Log stream (MPC 290-368) | scanner position, buffer, flush timer | the select loop, `processBuffer` | `LogStream` |
| Alert dispatch (MPC 385-478, 541-774, 835-868) | one goroutine per matched event, one per sender; AlertRecords; `AlertsSentCount` | `dispatchAlert`, `getAlertsFromTarget`, the two senders, the record, the count | `AlertDispatch`, abstract promise `AlertOutcome` |
| AI enrichment (MPC 885-1078) | none | `enrichWithAI`, `callLanguageModel` with its attempts and deadline | actions of `AlertDispatch` |
| Alert, AlertGroup and AIProvider reconcilers | Ready conditions, `ReadyAlerts`, `TotalAlerts` | validation, status update, watches of Secrets and Alerts | `AlertConfig` |
| AlertRecordCleaner (`alertrecord_cleaner.go`) | the rest of the List of a cycle | delete expired AlertRecords every 3 minutes | `AlertRecords`, abstract promise `RecordRetention` |
| sanitizeForKubernetes (MPC 370-383) | none | label text of a rule's name | `RecordLabel` |
| the round of an alert through all of it | when the loop started, how far its stream has read, where each dispatch is, the limiter | see `SmartLog` below | `SmartLog` |
| payloads, templates, signatures, API types, `main.go`, manifests | none that matters here | | not modelled |

How they interact: the reconciler starts a loop with the MonitorPod as read; the loop
starts a stream per running Pod under its own context; a stream starts a dispatch per
matched event (`go m.dispatchAlert`, MPC 322); a dispatch asks the shared limiter,
reads Alerts whose Ready condition the configuration controllers maintain, and writes
`AlertsSentCount` into the status of the MonitorPod, which the reconciler writes too
and whose changes are again events for the reconciler. Everything is read from
informer caches that lag behind the API server; writes go to the API server and fail
on an outdated resourceVersion.

What is hard: loops replaced while their goroutines still run; failures in the middle
of a reconcile; the order of specs, Secrets and member Alerts in three controllers; a
select whose default branch blocks; retries of requests whose answer was lost; read,
modify and write of one status by several writers; and, everywhere, a cached value
that is older than the decision taken on it. `PROJECT.json` lists each under
"hazards" with the line where it bites and the properties that watch it.

What makes each part correct:

- limiter: calls that overlap act one after the other; at most Limit grants in any Period
  (of one process), refusals only when a burst is still warm, so that suppression ends by
  itself;
- lifecycle: one live loop per MonitorPod, one live stream per MonitorPod and Pod, no
  stream that cancelling the registered loop does not reach; when all is handled the
  loop runs the stored spec; deleted means stopped, running and matched means streamed;
- stream: no line lost, doubled or reordered, each event that some regex matches alerted
  once by its first such rule, events split by the timer only, cancellation ends the stream;
- dispatch: nothing counted or recorded that no receiver accepted, no count lost,
  duplicates only after a lost answer, every dispatch ends;
- records: nothing removed that has not expired, what has expired goes in the end, and
  no record refused for its rule's name except where the label's length forces it;
- the round: a replayed log is stopped by the limiter while it remembers the alert that
  set off the replay, and restarts miss no line;
- configuration: every status ends up as validation says of what is stored, and is
  never written next to a spec it was not computed from.

## Modules

- `RateLimiter` is the code's counter with `Allow` as one step, one of the three actions
  `AllowFirst`, `AllowAgain` and `Deny`. `hist`, `base` and `denied` are history variables.
- `LimiterCalls` takes `Allow` apart: a caller locks `rl.mu`, copies the entry, drops it if
  it has expired, writes the new one and unlocks on return, and goroutines of the same and
  of other keys and a restart come in between wherever the code lets them (the clock, in
  whole ticks, moves between calls). The mapping to `RateLimiter` (`Seen`) still shows an entry that the holder of the mutex has
  dropped and not yet replaced.
- `MonitorLifecycle`: `rec` is the one worker's progress through `Reconcile`, cut at
  every call to the API server (`get`, `list`, `status`); `monitors`, `loopKey`,
  `loopSpec`, `loopDone` and `active` are the registry, the loop goroutines, what they
  were started with, their contexts and their `activePodMonitors`; `strKey`, `strPod`,
  `strLoop`, `strDone` the stream goroutines. A selector is the set of Pods it matches.
  Cancelling a loop's context cancels its streams' contexts in the same step, as derived
  contexts do. `CountAlert` is the dispatch's write to the status. `broken`, a history
  variable, names the streams that broke while an entry holds them.
- `PodReading` is what the operator promises of the logs it reads, without loops,
  contexts or goroutines: per MonitorPod the spec it runs with and the Pods it reads. The
  mapping (`RunningSpec`, `Reading`) takes the spec of the registered loop and the Pods of
  the streams at work for it.
- `LogStream`: a line is its kind, and a regex the set of texts it matches (`Language`),
  matched once against the joined text of an event as `processBuffer` does: an anchored
  pattern may match a line alone and not the event it is in, and a pattern may span
  lines. `Scan` is a state of its own (`pc = "scan"`), in which timer and context may
  change unnoticed. `lo..pos` is what the buffer holds; `multiline` is the configuration
  of the behaviour.
- `AlertDispatch`: `pc[d]` follows `dispatchAlert`; `jobs[d]` are its senders. `versions`
  is the MonitorPod's history at the API server, and what a dispatch or the reconciler
  is about to update is a position in it. `EnrichPanics` is the nil dereference of
  `callLanguageModel`: a panic in a goroutine ends the process with all others in it.
  `pc[d] = "ask"` are the attempts of the AI request, counted in `asked[d]`.
  The answers a dispatch gets from parts that nothing else here depends on (limiter,
  Ready Alerts, Secrets, receivers) are nondeterministic.
- `AlertOutcome` is what is promised of an alert: it reaches targets, then is recorded at
  most once, then counted at most once. It knows no senders, retries, caches or versions;
  the mapping takes the positions whose receiver has accepted the alert as its targets
  and the newest version's count as the count.
- `AlertConfig`: the three reconcilers are one set of actions, with what differs between
  them (references, order of validation, mapping of events, retry, whether an unchanged
  status is written) as operators over the kind of object. Caches change before event
  handlers run, so a controller may see a change before or after it hears of it, and
  each reference is read in a step of its own.
- `RecordLabel` is `sanitizeForKubernetes` over classes of characters (letter or digit,
  dash, anything else), so that every shape of a name is a short sequence. What a step of
  it keeps of a text is a set of positions, and the result the text at these positions in
  order (`TextAt`), so that the proofs can count positions instead of unfolding recursion.
  `CutAtDash` says of the name itself when its label is not valid.
- `AlertRecords` extends it with the records: `api`, `cache` and the cleaner's List
  `todo`, which may be older than the cache, and which is worked off by name while
  dispatches and users write. Clocks differ by up to `Ahead`. `past` (the versions each
  name has had), `purged` and `refused` are history variables. `RecordRetention` is what
  the operator promises of a record, without caches, Lists or cycles.
- `SmartLog` composes what the other modules treat alone, over time: a line is read
  (`Read`), offered to the limiter (`Grant`, `Suppress`: the module `RateLimiter` as it
  stands, through `INSTANCE`), sent and counted; the count makes the MonitorPod
  `pending`; `Reconcile` replaces the loop; after `Delay` its first tick opens a stream
  that starts at the beginning of the log (`LoopTick`). One MonitorPod, rule and Pod. How
  long sending an alert and reading the old part of a log may take (`latency`, `catchup`) is
  chosen anew in each behaviour, and nothing relates it to the period: the code takes any
  period that parses. `lapses` counts how often the limiter forgets its last alert while
  the round that this alert set off is still under way.
- `MC...` modules give the instances their values; `...Proofs` modules hold the proofs.

Definitions whose name begins with `Mut` are mutated forms of the definition that
follows them, each a plausible bug; they are used only to show that the property named
for them in `PROJECT.json` can fail.

## Runs

| Run | Shows | Bounds |
|---|---|---|
| `limiter_safety` | `AtomicAllow`, `WindowBound`, `DenialJustified` | three goroutines, two of them for one key; two keys (limit 2 in 2 ticks, 1 in 1), clock to 5, one restart: more than two windows of each key, before and after a restart |
| `lifecycle_safety` | `OneLiveLoop`, `NoDoubleStream`, `NoOrphanStream`, `SettledMonitor`, `SettledStatus`, `ReadsAsTold` | one MonitorPod, two Pods, three specs (one invalid), two loops, three streams, two events |
| `lifecycle_liveness` | `DeletedStops`, `KeepsStreaming` | one MonitorPod, one Pod, two events, of which a broken stream may be one |
| `stream` | `NoLoss`, `InOrder`, `SplitOnlyByFlush`, `AlertedOnce`, `CancelEnds`, `LineSurfaces` | logs of up to four lines of every kind, in either mode; three rules: a regex over two lines, one anchored at both ends, one that a single line satisfies |
| `stream_flush_blocked` | violation of `FlushTakesEffect` | two lines |
| `dispatch_counting` | `NoLostCount`, `KeepsOutcome` | two dispatches that record their alerts, a channel and two attempts each, and the reconciler, three versions besides the dispatches', three conflicts |
| `dispatch_senders` | `RecordJustified`, `DuplicatesExplained`, `DispatchEnds`, `AIOnlyDelays`, `WorkShrinks` | one dispatch, two channels, the code's three attempts and five conflicts |
| `dispatch_nil_section` | violation of `AIFailureHarmless` | one dispatch |
| `config_settles` | `SettledReady`, `StatusOfSpec`, `ReadyFollows` | a Secret, an Alert and its group, or a Secret and an AIProvider; a second Secret; one event; two conflicts |
| `records` | `KeepsUnexpired`, `ExpiredGoes`, `RefusedOnlyWhenCut` | two names, TTLs that parse, do not parse or are absent, clock to 2 and ahead by one, two events; labels of at most 2 characters, rule names of every shape up to 3 and longer ones |
| `smartlog_replay` | `ReplayBounded`, `LapseFree`, `NothingMissed` | limit 2 in 2 ticks, two lines, one outside event, one restart, clock to 7, sending within 0, 1 or 2 ticks and replays within 0 or 1: two rounds that lapse, or more that do not |
| `smartlog_replayed_alert` | violation of `OncePerPrint` | one line, no outside event, no restart |

Every passing run except that of the lifecycle's liveness checks its module's type invariant too
(`dispatch_senders` leaves it to `dispatch_counting`).

Why the bounds are enough: an "event" (`MaxEvents`) is a write by a user, a change of a
Pod, a failing call, a broken stream or a restart; the steps of the operator itself are
not bounded. One event is enough for every pair "something happens during a reconcile",
two for a second one during the recovery from the first. Goroutine identities are reused
once nothing refers to them; with two loops one is always free for the replacement while
the old one shuts down, and when none is free `StartOrUpdateMonitor` waits, which only
delays. In the stream, events of up to four lines contain every meeting of a new event,
a continuation, an empty line, a flush and the end. An empty line continues an event
under a pattern for first lines and begins one under a negated pattern for
continuations: the instance has an empty line of either sort, so its behaviours include
those of both configurations. Resource versions are compared for equality only, so
`NewRv` reuses numbers that no copy carries. Deadlock is not checked: an instance stops
when its bound is used up and the operator has nothing left to do. In `records` the
label's length stands for 63: what matters is whether the cut falls on a dash, which
short names decide as long ones do; a TTL is compared with an age only, so one duration
below, at and above the clock is every case. In `smartlog_replay` a round takes from
half the period to twice it: the premise of `LapseFree` holds with equality in some
behaviours and fails in others, where the last alert is forgotten in mid-round and the
same line is granted again. Symmetry is used in safety runs only, on identities that no
definition distinguishes.

### Fairness

- `MonitorLifecycle`: the informer delivers (weak), the worker works (weak), the queue is
  first in, first out, so a key is not passed over for ever (strong on `Dequeue`), a
  goroutine that sees its context done returns (weak), and a loop that is not restarted
  for 15 s ticks (weak on `Tick`, including that the List from the cache succeeds). None
  is assumed of users, Pods or failures.
- `LogStream`: the goroutine runs when it can, and timers go off. The container need not
  write another line: that is what `FlushTakesEffect` fails on.
- `AlertDispatch`: a dispatch that has begun goes on; every request of the senders has
  the timeout of 15 s and that to the provider the configured one.
- `AlertRecords`: the ticker ticks, a cycle goes on to its end, and the informer delivers.
  Nothing is assumed of deletes: one that fails is an event.
- `SmartLog` has no fairness but urgency: the clock (in ticks of several seconds) waits
  for whatever the operator does in milliseconds, for sending no longer than `latency` and
  for the old part of a log no longer than `catchup` (`Urgent`). New lines may be read at
  any time. A clock that may run ahead of ready goroutines would let a replay come later
  than the timer that starts it.
- `LimiterCalls` has none either; its clock waits for the holder of the mutex, who waits
  for nothing.
- `AlertConfig`: the informers deliver, and some handler or worker runs while one can.
  This is less than the code's goroutines give each of them.

## Proofs

The modules have their proofs in modules of their own; the theorems hold for all
constants that satisfy the module's `ASSUME`.

- `RateLimiterProofs`: `TypeCorrect`, `WindowBoundHolds`, `DenialJustifiedHolds`. The
  inductive invariant links an entry to the history: the last `Count` grants of a key are
  at most a Period apart from one to the next, the grant before them is more than a
  Period older, and `LastSentAt` is the last grant's time. `WindowBound` alone is not
  inductive: it does not say what the counter means.
- `LimiterCallsProofs`: `CallTypeCorrect`, `AtomicAllowHolds`, and from it, through
  `INSTANCE RateLimiterProofs` on the map as it looks, `CallWindowBound` and
  `CallDenialJustified`, for any number of goroutines. The invariant is that only the
  holder of the mutex is inside `Allow`, that what it has copied is what the map holds, and
  that what it has dropped had expired.
- `MonitorLifecycleProofs`: `TypeCorrect`, `OneLiveLoopHolds`, `NoOrphanStreamHolds`,
  `NoDoubleStreamHolds`, `SettledMonitorHolds`, `SettledStatusHolds`, `ReadsAsToldHolds`.
  The strengthening ties a stream that is not cancelled to the registered loop and to its
  entry in `activePodMonitors`; two live streams for one Pod would then be one entry.
  `SettledMonitor` needs what the worker holds between its steps: the request in progress
  carries the spec its loop will get, and a difference from the cache means that the key
  is queued again. `SettledStatus` needs to know, in every state and for every key, who
  will still see to its status (`AllTracked`): a request queued or an event on its way,
  or the worker, which is right about it as far as it has come, or nobody, because what
  is stored is right or the update was lost for another reason than a conflict.
  `ReadsAsTold` needs `EntryInv`: the stream an entry of `activePodMonitors` refers to
  was started for that loop and Pod or has returned, and is never another that took over
  its identity. With it every step of the lifecycle is one of `PodReading` or changes
  nothing it speaks of.
- `LogStreamProofs`: `TypeCorrect`, `NoLossHolds`, `InOrderHolds`, `AlertedOnceHolds`,
  `SplitOnlyByFlushHolds`, for any rules and any languages of their regexes. The invariant
  says that events are intervals in order below `lo`, that only empty lines lie between
  them, and that alerts correspond to events. `AlertedOnce` speaks of the events as the log
  itself divides into them (`IsEvent`: from one opening to the next); it needs that every
  such piece below `lo` is one of the events taken, and the other way round.
- `AlertDispatchProofs`: `TypeCorrect`, `NoLostCountHolds`, `RecordJustifiedHolds`,
  `DuplicatesExplainedHolds`, `KeepsOutcomeHolds`, `WorkShrinksHolds`, for any number of
  dispatches, channels and attempts. The invariant says what a sender has tried, lost and
  had accepted in each of its states, and what holds at each place of a dispatch:
  recorded or counted only after a delivery, and nothing recorded before the record step.
  `NoLostCount` equates the newest version's count with the number of dispatches that
  wrote one, and needs that a dispatch about to write is not in `counted` yet.
  `KeepsOutcome` needs that besides (`OutcomeInv`) no sender exists before the target is
  resolved, so that resolving it takes back nothing an alert has reached, and that only a
  dispatch asked to record gets there. `WorkShrinks` is the core of `DispatchEnds` that
  the prover can reach: what a dispatch has left (at most 7 stages, `MaxTries` questions
  to the provider, `MaxTries + 1` states of each sender and `2 * (Steps + 1)` reads and
  updates of the count) loses something with every step of the dispatch and gains nothing
  by anybody's, so it takes finitely many steps. That it does take them is fairness, and
  stays with TLC.
- `AlertConfigProofs`: `TypeCorrect`, `StatusOfSpecHolds`, `SettledReadyHolds`, for any
  objects, references and specs. `StatusOfSpec` needs that copies with one resource version
  have one spec (`Versions`). `SettledReady` needs, in every state and for every object
  (`Tracked`): a request for it is queued or will be (`Told`), or the worker is right
  about it as far as it has come (`Right`), or its stored status is right or about to be
  replaced in the cache (`AtRest`). A change of what a spec mentions disturbs the last two
  and brings about the first, because the handlers watch everything validation reads.
- `AlertRecordsProofs`: `TypeCorrect`, `ValidUnlessCut`, for names and labels of any
  length: the label made of a name is valid exactly when not `CutAtDash`. The letters of a
  name keep their order; the place a letter gets is its rank among the positions kept, so
  the character at the cut can be named in the name itself, and no induction is needed.
  `RefusedOnlyWhenCutHolds` follows from it. `KeepsUnexpiredHolds`: the cleaner implements
  `RecordRetention` for any names, TTLs and `Ahead`. The invariant is that what is stored,
  cached or still on the List is a version that a record of that name has had; so an
  expired entry of the List, however old, witnesses the guard of the abstract removal.
- `SmartLogProofs`: `TypeCorrect`, `WindowComposed` (the limiter's theorem about windows,
  taken from `RateLimiterProofs` through `INSTANCE`, holds with replays, restarts and all),
  `NothingMissedHolds`, `ReplayBoundedHolds`, `LapseFreeHolds` and, from the last two,
  `PromptRoundsEnd`. `SmartLogConfig` assumes nothing of the period but that it is a number.
  What the feedback may cost is a bill (`Paid`): what has been granted, what is left of the
  burst in progress, and `Limit` for each burst still due never exceed `Limit` for each
  printed line, outside event, restart and lapse. A burst is due for a line not yet
  offered, and for a round that is not `Warm`, one that the limiter may have forgotten by
  the time its replay comes: something outside set it off, which is charged, or the clock
  has moved past the period, which is a lapse and charged too. `LapseFree` needs `Prompt`:
  with nothing from outside since the last grant, an event of the MonitorPod comes at most
  `latency` after it, and so does the start of the loop; the first tick follows `Delay`
  later and the end of the replay `catchup` after that.

Every invariant, action property and refinement of the passing runs is stated by a
theorem. Model-checked only are the liveness properties (`DeletedStops`,
`KeepsStreaming`, `CancelEnds`, `LineSurfaces`, `DispatchEnds`, `AIOnlyDelays`,
`ReadyFollows`, `ExpiredGoes`): they need fairness, and with it ENABLED, which is beyond
the prover.

## Where the code differs from what is written about it

Three runs end in a violation, each listed under "findings" in `PROJECT.json`: the flush
timer waits behind `Scan`; a removed provider section ends the process; and a line
printed once is alerted more than once. The last is the round of `SmartLog`: a new
stream reads the log from its beginning (MPC 304), and counting an alert (MPC 766) is an
event that restarts the loop, so an alert makes the log be read again 15 seconds later.
With a rate limit whose period is as long as such a round takes, sending and replay
included, the limiter stops the repetition (`LapseFree`, `PromptRoundsEnd`) until the
next restart or event. Nothing in the code sees to that: with `period: 10s`, or with
slow receivers (three attempts of 15 s and the provider's timeout) against `1m`, each
replay may be granted again, and without `rateLimit` each one is. Others were seen while
modelling and have no run:

- A stream that fails to open or breaks under a running Pod (a kubelet restart, a line of
  more than 64 KiB) keeps its entry in `activePodMonitors` and is not started again by a
  tick (MPC 278); only an event of the MonitorPod or of a matching Pod helps. This is the
  exception `Abandoned` of `KeepsStreaming`.
- A rule's regex is matched against the whole event, lines joined (MPC 317), where
  `monitorpod_types.go:116` says that it matches log lines: with `multiline`, a rule
  anchored by `^` or `$` (without `(?m)`) does not match a line in the middle of an event,
  and the line is not alerted.
- The rate limit is no leaky bucket (README.md:20): `Allow` forgets the count only after a
  whole Period without a grant, so steady traffic below the rate is suppressed too.
- `Limit` holds within one process only: the limiter's map does not survive a restart,
  and up to twice Limit alerts may fall into one Period around it.
- The grant is taken before the target, the template and the Secret are looked at
  (MPC 630), and is not given back: dispatches that fail use up the window.
- A failed enrichment leaves `.AI` nil (MPC 692): a template that uses it unguarded does
  not render, and the alert is lost instead of being sent without an analysis.
- `MonitoredPodsCount` counts the Pods that match, in any phase, not "the Pods being
  monitored" (`api/v1alpha1/monitorpod_types.go:145`); `MonitoredPods` is never set.
- `AlertsSentCount` misses alerts whose answer was lost or whose update failed
  (`monitorpod_types.go:151`), and README.md's "every triggered alert" as an AlertRecord
  excludes those that no channel accepted and those whose creation failed.
- A record is refused when the label of its rule's name ends in the dash on which it was
  cut (MPC 380; `RefusedOnlyWhenCut` says exactly when), and whenever the MonitorPod's
  name, a label as it stands (MPC 729), has more than 63 characters.
- `alertRecordTTL` is not validated: a record whose TTL does not parse stays for good.
- The cleaner deletes by name, without the version it looked at: a record re-created
  under the name of an expired one, or whose TTL was prolonged after the List, goes with
  it. `RecordRetention` therefore speaks of the versions of a name.
- `ReadyAlerts` counts the members before the first bad one (`alertgroup_types.go:37`).
- `ExcludeRegex` (`monitorpod_types.go:119`) and `ContainerNames` (line 32) are not used;
  only the first container is followed (MPC 303).
- A selector that no longer parses leaves the previous loop running (MPC 182).

## Not modelled

Text (payloads, templates, signatures, prompts) is abstracted to whether producing it
fails; regular expressions to the sets of texts they match; periods and timeouts to
the order of events. The List calls of the event mapping functions and of the loop
are taken to succeed, as reads of a synced cache do. Panics other than the provider's are not
modelled. Deployment, certificates, probes, leader election and metrics are outside:
the operator runs as one replica, as `deploy/deploy.yaml` has it.

## Plan

1. Finite stocks like that of `WorkShrinks` for the other components whose liveness is
   only model-checked: the cancelled stream and the cleaner's cycle.
2. `SmartLog` with several rules or MonitorPods, which share the limiter's map only
   (`LimiterCalls` has several keys already).
3. `AlertConfig` as an implementation of an abstract "status follows validation".

The number of runs is kept small: new questions join an existing run of their module
where its bounds allow, or take the place of the run whose question is weakest.
