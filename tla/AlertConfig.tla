----------------------------- MODULE AlertConfig -----------------------------
(***************************************************************************)
(* The controllers that keep the Ready conditions: AlertReconciler,        *)
(* AlertGroupReconciler and AIProviderReconciler of internal/controller.   *)
(*                                                                         *)
(* An Alert or AIProvider is Ready when the section of its type is set and *)
(* the Secrets it refers to have their key; an AlertGroup is Ready when    *)
(* its members are.  Each controller has a queue and one worker, reads     *)
(* through informer caches and is notified by event handlers that run some *)
(* time after a cache has changed, so a controller may look at an object   *)
(* before or after it hears of it.                                         *)
(*                                                                         *)
(* Objects are named by model values, one namespace; a Secret's spec says  *)
(* whether it has the key.  A status is the Ready condition and how many   *)
(* references were found good before the first bad one.  events only       *)
(* bounds the environment.                                                 *)
(***************************************************************************)
EXTENDS Naturals, Sequences, FiniteSets

CONSTANTS
    Secrets, Alerts, Groups, Providers,   \* names of objects
    AlertSpecs,     \* [type, webhook, feishu, sign]: Secrets or None
    ProviderSpecs,  \* [type, gemini, openai]: Secrets or None
    GroupSpecs,     \* alertNames: sequences of Alerts
    Clusters,       \* the sets of objects the process may find when it starts
    None,
    Steps,          \* Steps of retry.DefaultRetry
    ReadsFail,      \* whether reading a reference may fail
    MaxEvents       \* bound on writes of users, failures and restarts

Objects == Secrets \cup Alerts \cup Groups \cup Providers
Owned == Alerts \cup Groups \cup Providers

SpecsOfSecrets == {"key", "nokey"}

SpecsOf(o) ==
    CASE o \in Secrets   -> SpecsOfSecrets
      [] o \in Alerts    -> AlertSpecs
      [] o \in Groups    -> GroupSpecs
      [] o \in Providers -> ProviderSpecs

\* The API server names objects by kind and name: those of two kinds differ.
ASSUME ConfigAssumption ==
    /\ None \notin Objects
    /\ Secrets \cap Owned = {}
    /\ Alerts \cap (Groups \cup Providers) = {} /\ Groups \cap Providers = {}
    /\ \A s \in AlertSpecs :
          /\ s.type \in {"Webhook", "Feishu"}
          /\ {s.webhook, s.feishu, s.sign} \subseteq Secrets \cup {None}
          /\ s.feishu = None => s.sign = None
    /\ \A s \in ProviderSpecs :
          /\ s.type \in {"Gemini", "OpenAI"}
          /\ {s.gemini, s.openai} \subseteq Secrets \cup {None}
    /\ GroupSpecs \subseteq Seq(Alerts)
    /\ Clusters \subseteq SUBSET Objects
    /\ Steps \in Nat \ {0} /\ ReadsFail \in BOOLEAN /\ MaxEvents \in Nat

OwnerOf(o) == CASE o \in Alerts    -> "Alert"
                [] o \in Groups    -> "AlertGroup"
                [] o \in Providers -> "AIProvider"

\* "Alert", "AlertGroup" and "AIProvider", as far as they own something.
Controllers == {OwnerOf(o) : o \in Owned}

VARIABLES
    api,      \* the objects in the API server
    cache,    \* the objects in the informer caches
    pending,  \* pending[c]: the objects whose change c is still to be told of
    queue,    \* queue[c]: the requests of controller c
    worker,   \* worker[c]: progress of its current Reconcile
    unread,   \* history: objects whose last verdict is a failed read
    events

vars == <<api, cache, pending, queue, worker, unread, events>>

Status == [ready : BOOLEAN, why : {"new", "undefined", "notFound", "bad", "unreadable", "good"},
           passed : Nat, total : Nat]

NoStatus == [ready |-> FALSE, why |-> "new", passed |-> 0, total |-> 0]

Obj(o) == [rv : Nat, spec : SpecsOf(o), status : Status]

Idle == [pc |-> "idle", key |-> None, obj |-> None, passed |-> 0,
         status |-> NoStatus, tries |-> 0]

TypeOK ==
    /\ \A view \in {api, cache} :
          DOMAIN view = Objects /\ \A o \in Objects : view[o] \in Obj(o) \cup {None}
    /\ pending \in [Controllers -> SUBSET Objects]
    /\ DOMAIN queue = Controllers
    /\ \A c \in Controllers : queue[c] \subseteq {o \in Owned : OwnerOf(o) = c}
    /\ DOMAIN worker = Controllers
    /\ \A c \in Controllers :
          LET w == worker[c] IN
          /\ w.pc \in {"idle", "get", "check", "update"}
          /\ w.pc # "idle" => w.key \in Owned /\ OwnerOf(w.key) = c
          /\ w.pc \in {"check", "update"} => w.obj \in Obj(w.key)
          /\ w.passed \in Nat /\ w.status \in Status /\ w.tries \in 0..(Steps - 1)
    /\ unread \subseteq Owned
    /\ events \in 0..MaxEvents

NewObj(s, r) == [rv |-> r, spec |-> s, status |-> NoStatus]

\* The process starts on a cluster with some objects; the initial lists notify
\* every controller of all of them.
Init ==
    /\ \E present \in Clusters, specs \in [Secrets -> SpecsOfSecrets],
          alerts \in [Alerts -> AlertSpecs], groups \in [Groups -> GroupSpecs],
          providers \in [Providers -> ProviderSpecs] :
          api = [o \in Objects |->
                    IF o \notin present THEN None
                    ELSE NewObj(CASE o \in Secrets   -> specs[o]
                                  [] o \in Alerts    -> alerts[o]
                                  [] o \in Groups    -> groups[o]
                                  [] o \in Providers -> providers[o], 1)]
    /\ cache = api
    /\ pending = [c \in Controllers |-> {}]
    /\ queue = [c \in Controllers |-> {o \in Owned : OwnerOf(o) = c /\ api[o] # None}]
    /\ worker = [c \in Controllers |-> Idle]
    /\ unread = {}
    /\ events = 0
-----------------------------------------------------------------------------
(* What a spec refers to.                                                  *)

\* The section of the object's type; a group needs none.
Defined(o, s) ==
    CASE o \in Alerts    -> (IF s.type = "Webhook" THEN s.webhook ELSE s.feishu) # None
      [] o \in Providers -> (IF s.type = "Gemini" THEN s.gemini ELSE s.openai) # None
      [] o \in Groups    -> TRUE

\* What is validated, in this order.
Refs(o, s) ==
    CASE o \in Alerts    -> IF s.type = "Webhook" THEN <<s.webhook>>
                            ELSE IF s.sign = None THEN <<s.feishu>>
                            ELSE <<s.feishu, s.sign>>
      [] o \in Providers -> IF s.type = "Gemini" THEN <<s.gemini>> ELSE <<s.openai>>
      [] o \in Groups    -> s

MutMentions(o, s) ==
    CASE o \in Alerts    -> {s.webhook, s.feishu}
      [] o \in Providers -> {IF s.type = "Gemini" THEN s.gemini ELSE s.openai}
      [] o \in Groups    -> {s[i] : i \in DOMAIN s}

\* What a change of makes the controller look at the object again
\* (findAlertsForSecret, findAIProvidersForSecret, findAlertGroupsForAlert):
\* of an Alert both sections, whatever its type.
Mentions(o, s) ==
    CASE o \in Alerts    -> {s.webhook, s.feishu, s.sign}
      [] o \in Providers -> {IF s.type = "Gemini" THEN s.gemini ELSE s.openai}
      [] o \in Groups    -> {s[i] : i \in DOMAIN s}

\* A reference is good when the Secret has its key, or the Alert is Ready.
Good(r, view) ==
    /\ view[r] # None
    /\ IF r \in Secrets THEN view[r].spec = "key" ELSE view[r].status.ready
-----------------------------------------------------------------------------
(* The users of the API.                                                   *)

Event ==
    /\ events < MaxEvents
    /\ events' = events + 1

\* A resource version is only compared for equality: any number will do that
\* no copy of the object carries.
NewRv(o) ==
    CHOOSE r \in 1..4 :
        /\ api[o] # None => r # api[o].rv
        /\ cache[o] # None => r # cache[o].rv
        /\ \A c \in Controllers :
              worker[c].key = o /\ worker[c].obj # None => r # worker[c].obj.rv

Write(o, v) ==
    /\ Event
    /\ api' = [api EXCEPT ![o] = v]
    /\ UNCHANGED <<cache, pending, queue, worker, unread>>

Create(o) == \E s \in SpecsOf(o) : api[o] = None /\ Write(o, NewObj(s, NewRv(o)))

Edit(o) ==
    \E s \in SpecsOf(o) :
        /\ api[o] # None /\ api[o].spec # s
        /\ Write(o, [api[o] EXCEPT !.spec = s, !.rv = NewRv(o)])

Delete(o) == api[o] # None /\ Write(o, None)
-----------------------------------------------------------------------------
(* The informers and the event handlers (SetupWithManager).                *)

MutWatchers(o) ==
    CASE o \in Secrets   -> {"Alert", "AIProvider"}
      [] o \in Alerts    -> {"Alert"}
      [] o \in Groups    -> {"AlertGroup"}
      [] o \in Providers -> {"AIProvider"}

\* Whom a change of o is reported to.
Watchers(o) ==
    CASE o \in Secrets   -> {"Alert", "AIProvider"}
      [] o \in Alerts    -> {"Alert", "AlertGroup"}
      [] o \in Groups    -> {"AlertGroup"}
      [] o \in Providers -> {"AIProvider"}

Informer(o) ==
    /\ cache[o] # api[o]
    /\ cache' = [cache EXCEPT ![o] = api[o]]
    /\ pending' = [c \in Controllers |->
                      IF c \in Watchers(o) THEN pending[c] \cup {o} ELSE pending[c]]
    /\ UNCHANGED <<api, queue, worker, unread, events>>

\* The requests of a change of o: o itself, or the objects of the controller
\* that mention it, as the cache has them now.
Requests(c, o) ==
    IF o \in Owned /\ OwnerOf(o) = c THEN {o}
    ELSE {k \in Owned : /\ OwnerOf(k) = c
                        /\ cache[k] # None
                        /\ o \in Mentions(k, cache[k].spec)}

Handle(c, o) ==
    /\ o \in pending[c]
    /\ pending' = [pending EXCEPT ![c] = @ \ {o}]
    /\ queue' = [queue EXCEPT ![c] = @ \cup Requests(c, o)]
    /\ UNCHANGED <<api, cache, worker, unread, events>>
-----------------------------------------------------------------------------
(* Reconcile.                                                              *)

Dequeue(c, k) ==
    /\ worker[c].pc = "idle"
    /\ k \in queue[c]
    /\ queue' = [queue EXCEPT ![c] = @ \ {k}]
    /\ worker' = [worker EXCEPT ![c] = [Idle EXCEPT !.pc = "get", !.key = k]]
    /\ UNCHANGED <<api, cache, pending, unread, events>>

Done(c) ==
    /\ worker' = [worker EXCEPT ![c] = Idle]
    /\ UNCHANGED queue

\* An error is returned, and the request is queued again.
Retry(c) ==
    /\ worker' = [worker EXCEPT ![c] = Idle]
    /\ queue' = [queue EXCEPT ![c] = @ \cup {worker[c].key}]

GetGone(c) ==
    /\ worker[c].pc = "get"
    /\ cache[worker[c].key] = None
    /\ Done(c)
    /\ UNCHANGED <<api, cache, pending, unread, events>>

Get(c) ==
    /\ worker[c].pc = "get"
    /\ cache[worker[c].key] # None
    /\ worker' = [worker EXCEPT ![c].pc = "check",
                                ![c].obj = cache[worker[c].key],
                                ![c].passed = 0]
    /\ UNCHANGED <<api, cache, pending, queue, unread, events>>

\* The references of the object being reconciled.
RefsOf(c) == Refs(worker[c].key, worker[c].obj.spec)

\* There is a next reference, and it is good.
NextGood(c) ==
    /\ Defined(worker[c].key, worker[c].obj.spec)
    /\ worker[c].passed < Len(RefsOf(c))
    /\ Good(RefsOf(c)[worker[c].passed + 1], cache)

CheckPasses(c) ==
    /\ worker[c].pc = "check"
    /\ NextGood(c)
    /\ worker' = [worker EXCEPT ![c].passed = @ + 1]
    /\ UNCHANGED <<api, cache, pending, queue, unread, events>>

\* The status a verdict leads to.  Only groups keep the counts; of the others
\* the message names the first bad reference.
Verdict(o, s, why, n) ==
    [ready |-> why = "good", why |-> why, passed |-> n,
     total |-> IF o \in Groups THEN Len(s) ELSE 0]

\* What validation says when passed references were good.
Why(o, s, n, view) ==
    IF ~Defined(o, s) THEN "undefined"
    ELSE IF n = Len(Refs(o, s)) THEN "good"
    ELSE IF view[Refs(o, s)[n + 1]] = None THEN "notFound" ELSE "bad"

\* The first bad reference ends the validation, or there is none.
CheckEnds(c) ==
    LET w == worker[c] IN
    /\ w.pc = "check" /\ ~NextGood(c)
    /\ worker' = [worker EXCEPT
           ![c].pc = "update",
           ![c].status = Verdict(w.key, w.obj.spec, Why(w.key, w.obj.spec, w.passed, cache), w.passed)]
    /\ unread' = unread \ {w.key}
    /\ UNCHANGED <<api, cache, pending, queue, events>>

\* Reading a reference fails: the object is declared not Ready, and nothing
\* is retried.
CheckFails(c) ==
    LET w == worker[c] IN
    /\ w.pc = "check"
    /\ ReadsFail /\ Event
    /\ Defined(w.key, w.obj.spec) /\ w.passed < Len(RefsOf(c))
    /\ worker' = [worker EXCEPT
           ![c].pc = "update",
           ![c].status = Verdict(w.key, w.obj.spec, "unreadable", w.passed)]
    /\ unread' = unread \cup {w.key}
    /\ UNCHANGED <<api, cache, pending, queue>>

\* Alert and AIProvider are updated only when their status changes.
Unchanged(c) ==
    /\ worker[c].pc = "update"
    /\ c # "AlertGroup" /\ worker[c].status = worker[c].obj.status
    /\ Done(c)
    /\ UNCHANGED <<api, cache, pending, unread, events>>

Writing(c) ==
    /\ worker[c].pc = "update"
    /\ c = "AlertGroup" \/ worker[c].status # worker[c].obj.status

Current(c) ==
    LET o == worker[c].key IN api[o] # None /\ api[o].rv = worker[c].obj.rv

MutUpdatedBlindly(c) ==
    LET o == worker[c].key IN
    /\ Writing(c)
    /\ api[o] # None
    /\ api' = IF api[o].status = worker[c].status THEN api
              ELSE [api EXCEPT ![o].status = worker[c].status, ![o].rv = NewRv(o)]
    /\ Done(c)
    /\ UNCHANGED <<cache, pending, unread, events>>

\* An update that changes nothing does not make a new version.
Updated(c) ==
    LET o == worker[c].key IN
    /\ Writing(c) /\ Current(c)
    /\ api' = IF api[o].status = worker[c].status THEN api
              ELSE [api EXCEPT ![o].status = worker[c].status, ![o].rv = NewRv(o)]
    /\ Done(c)
    /\ UNCHANGED <<cache, pending, unread, events>>

Again(c) ==
    worker' = [worker EXCEPT ![c] = [Idle EXCEPT !.pc = "get",
                                                 !.key = worker[c].key,
                                                 !.tries = worker[c].tries + 1]]

MutConflict(c) ==
    /\ Writing(c)
    /\ api[worker[c].key] # None /\ ~Current(c)
    /\ IF c # "AlertGroup" /\ worker[c].tries < Steps
       THEN Again(c) /\ UNCHANGED queue
       ELSE Retry(c)
    /\ UNCHANGED <<api, cache, pending, unread, events>>

\* RetryOnConflict reads again, up to Steps times; the group's reconciler
\* returns the error.
Conflict(c) ==
    /\ Writing(c)
    /\ api[worker[c].key] # None /\ ~Current(c)
    /\ IF c # "AlertGroup" /\ worker[c].tries + 1 < Steps
       THEN Again(c) /\ UNCHANGED queue
       ELSE Retry(c)
    /\ UNCHANGED <<api, cache, pending, unread, events>>

\* The object is gone from the API server.
UpdateGone(c) ==
    /\ Writing(c)
    /\ api[worker[c].key] = None
    /\ Retry(c)
    /\ UNCHANGED <<api, cache, pending, unread, events>>

\* The object cannot be read, or the update fails: the error is returned.
CallFails(c) ==
    /\ worker[c].pc = "get" \/ Writing(c)
    /\ Event
    /\ Retry(c)
    /\ UNCHANGED <<api, cache, pending, unread>>

Reconcile(c) ==
    \/ GetGone(c) \/ Get(c) \/ CheckPasses(c) \/ CheckEnds(c)
    \/ Unchanged(c) \/ Updated(c) \/ Conflict(c) \/ UpdateGone(c)

\* The controller's one worker.
Work(c) == (\E k \in queue[c] : Dequeue(c, k)) \/ Reconcile(c)

\* The process dies and is started again on what is stored.
Restart ==
    /\ Event
    /\ cache' = api
    /\ pending' = [c \in Controllers |-> {}]
    /\ queue' = [c \in Controllers |-> {o \in Owned : OwnerOf(o) = c /\ api[o] # None}]
    /\ worker' = [c \in Controllers |-> Idle]
    /\ UNCHANGED <<api, unread>>

Next ==
    \/ \E o \in Objects : Create(o) \/ Edit(o) \/ Delete(o) \/ Informer(o)
    \/ \E c \in Controllers : \/ \E o \in Objects : Handle(c, o)
                              \/ Work(c) \/ CheckFails(c) \/ CallFails(c)
    \/ Restart

Spec == Init /\ [][Next]_vars

\* The informers deliver, and some handler or worker runs while one can.  (Each
\* has its own goroutine; no more than this is needed.)
Fairness ==
    /\ WF_vars(\E o \in Objects : Informer(o))
    /\ WF_vars(\E c \in Controllers : (\E o \in Objects : Handle(c, o)) \/ Work(c))

FairSpec == Spec /\ Fairness
-----------------------------------------------------------------------------
\* All changes have been delivered and k waits for nothing.
Settled(k) ==
    /\ cache = api
    /\ \A c \in Controllers : pending[c] = {}
    /\ k \notin queue[OwnerOf(k)] /\ worker[OwnerOf(k)].key # k

\* How many references of o are good before the first that is not.
GoodPrefix(o, s, view) ==
    IF ~Defined(o, s) THEN 0
    ELSE Cardinality({i \in DOMAIN Refs(o, s) :
                         \A j \in 1..i : Good(Refs(o, s)[j], view)})

\* Whatever the order in which the controllers hear of specs, Secrets and
\* member Alerts, and however often their updates conflict or fail, a settled
\* object's status is what validation says of what is stored.  (A failed read
\* of a reference is never retried.)
SettledReady ==
    \A k \in Owned :
        Settled(k) /\ api[k] # None /\ k \notin unread =>
            LET s == api[k].spec
                n == GoodPrefix(k, s, api)
            IN  api[k].status = Verdict(k, s, Why(k, s, n, api), n)

\* A status is written only next to the spec it was computed from.
StatusOfSpec ==
    [][\A k \in Owned :
          api[k] # None /\ api'[k] # None /\ api'[k].status # api[k].status
              => worker[OwnerOf(k)].obj.spec = api'[k].spec]_vars

\* The configuration is complete: of a group, that of every member.
Complete(k) ==
    LET Ok(o) == /\ api[o] # None /\ Defined(o, api[o].spec)
                 /\ \A i \in DOMAIN Refs(o, api[o].spec) :
                       Good(Refs(o, api[o].spec)[i], api)
    IN  IF k \in Groups
        THEN api[k] # None /\ \A i \in DOMAIN api[k].spec : Ok(api[k].spec[i])
        ELSE Ok(k)

Ready(k) == api[k] # None /\ api[k].status.ready

\* The last verdict on k, or on a member of k, is a failed read.
Doubtful(k) ==
    \/ k \in unread
    \/ /\ k \in Groups /\ api[k] # None
       /\ \E i \in DOMAIN api[k].spec : api[k].spec[i] \in unread

\* Once users and failures leave the objects alone (events are bounded), every
\* object becomes and stays Ready when its configuration is complete and not
\* Ready when it is not, across two controllers for a group; unless a failed
\* read, which is never retried, has the last word.
ReadyFollows ==
    \A k \in Owned : <>[](Doubtful(k) \/ (Ready(k) <=> Complete(k)))
=============================================================================
