-------------------------- MODULE AlertConfigProofs --------------------------
(***************************************************************************)
(* Theorems about AlertConfig for every set of objects and specs: type     *)
(* correctness, that a status is only written next to the spec it was      *)
(* computed from, and that the statuses settle on what validation says.    *)
(***************************************************************************)
EXTENDS AlertConfig, FiniteSetTheorems, TLAPS

Copies == UNION {Obj(o) : o \in Owned}

\* The fields of a worker.
Workers == [pc : {"idle", "get", "check", "update"}, key : Owned \cup {None},
            obj : Copies \cup {None},
            passed : Nat, status : Status, tries : 0..(Steps - 1)]

Busy(c) == worker[c].pc \in {"check", "update"}

WorkerInv ==
    \A c \in Controllers :
        /\ worker[c] \in Workers
        /\ worker[c].pc = "idle" => worker[c].key = None
        /\ Busy(c) => worker[c].obj # None

\* Copies of an object with one resource version have one spec.
SameSpec(v, w) == v # None /\ w # None /\ v.rv = w.rv => v.spec = w.spec

Versions ==
    \A k \in Owned :
        /\ SameSpec(api[k], cache[k])
        /\ \A c \in Controllers : Busy(c) /\ worker[c].key = k => SameSpec(api[k], worker[c].obj)

-----------------------------------------------------------------------------
(* Names, owners and resource versions.                                    *)

LEMMA Owners ==
    /\ \A o \in Owned : OwnerOf(o) \in Controllers /\ o \in Objects
    /\ \A o \in Alerts : OwnerOf(o) = "Alert" /\ SpecsOf(o) = AlertSpecs
    /\ \A o \in Groups : OwnerOf(o) = "AlertGroup" /\ SpecsOf(o) = GroupSpecs
    /\ \A o \in Providers : OwnerOf(o) = "AIProvider" /\ SpecsOf(o) = ProviderSpecs
    /\ \A o \in Secrets : SpecsOf(o) = SpecsOfSecrets
BY ConfigAssumption DEF OwnerOf, SpecsOf, Owned, Objects, Controllers

LEMMA FourNumbers ==
    \A x, y, z : \E r \in 1..4 : r # x /\ r # y /\ r # z
<1> SUFFICES ASSUME NEW x, NEW y, NEW z
             PROVE  \E r \in 1..4 : r # x /\ r # y /\ r # z
  OBVIOUS
<1>1. 1 \in 1..4 /\ 2 \in 1..4 /\ 3 \in 1..4 /\ 4 \in 1..4
  OBVIOUS
<1>2. 1 # 2 /\ 1 # 3 /\ 1 # 4 /\ 2 # 3 /\ 2 # 4 /\ 3 # 4
  OBVIOUS
<1> QED
  BY <1>1, <1>2, Zenon

\* There is a fresh resource version: besides the store and the cache, only
\* the worker of the object's own controller holds a copy.
LEMMA Fresh ==
    ASSUME TypeOK, WorkerInv, NEW o \in Objects
    PROVE  /\ NewRv(o) \in Nat
           /\ api[o] # None => NewRv(o) # api[o].rv
           /\ cache[o] # None => NewRv(o) # cache[o].rv
           /\ \A c \in Controllers :
                 worker[c].key = o /\ worker[c].obj # None => NewRv(o) # worker[c].obj.rv
<1> DEFINE Ok(r) == /\ api[o] # None => r # api[o].rv
                    /\ cache[o] # None => r # cache[o].rv
                    /\ \A c \in Controllers :
                          worker[c].key = o /\ worker[c].obj # None => r # worker[c].obj.rv
<1>1. \A c \in Controllers : worker[c].key = o => c = OwnerOf(o)
  <2> SUFFICES ASSUME NEW c \in Controllers, worker[c].key = o
               PROVE  c = OwnerOf(o)
    OBVIOUS
  <2>1. worker[c].pc # "idle"
    BY ConfigAssumption DEF WorkerInv
  <2> QED
    BY <2>1 DEF TypeOK
<1>2. PICK r \in 1..4 : r # api[o].rv /\ r # cache[o].rv /\ r # worker[OwnerOf(o)].obj.rv
  BY FourNumbers
<1>3. Ok(r)
  BY <1>1, <1>2
<1>4. NewRv(o) \in 1..4 /\ Ok(NewRv(o))
  BY <1>3 DEF NewRv
<1> QED
  BY <1>4
-----------------------------------------------------------------------------
(* Type correctness, the shape of workers and the versions of copies.      *)

ViewOK(v) == DOMAIN v = Objects /\ \A o \in Objects : v[o] \in Obj(o) \cup {None}

WorkerOK(c, w) ==
    /\ w \in Workers
    /\ w.pc = "idle" => w.key = None
    /\ w.pc # "idle" => w.key \in Owned /\ OwnerOf(w.key) = c
    /\ w.pc \in {"check", "update"} => w.obj \in Obj(w.key) /\ w.obj # None

\* TypeOK and WorkerInv, with one predicate for each worker.
Typed ==
    /\ ViewOK(api) /\ ViewOK(cache)
    /\ pending \in [Controllers -> SUBSET Objects]
    /\ DOMAIN queue = Controllers
    /\ \A c \in Controllers : queue[c] \subseteq {o \in Owned : OwnerOf(o) = c}
    /\ DOMAIN worker = Controllers
    /\ \A c \in Controllers : WorkerOK(c, worker[c])
    /\ unread \subseteq Owned
    /\ events \in 0..MaxEvents

TInv == Typed /\ Versions

LEMMA TypedIs == Typed <=> TypeOK /\ WorkerInv
<1>1. ViewOK(api) /\ ViewOK(cache) <=>
        \A view \in {api, cache} :
          DOMAIN view = Objects /\ \A o \in Objects : view[o] \in Obj(o) \cup {None}
  BY DEF ViewOK
<1>2. (\A c \in Controllers : WorkerOK(c, worker[c])) <=>
        /\ \A c \in Controllers :
             LET w == worker[c] IN
             /\ w.pc \in {"idle", "get", "check", "update"}
             /\ w.pc # "idle" => w.key \in Owned /\ OwnerOf(w.key) = c
             /\ w.pc \in {"check", "update"} => w.obj \in Obj(w.key)
             /\ w.passed \in Nat /\ w.status \in Status /\ w.tries \in 0..(Steps - 1)
        /\ WorkerInv
  BY DEF WorkerOK, WorkerInv, Workers, Busy
<1> QED
  BY <1>1, <1>2 DEF Typed, TypeOK

LEMMA CopiesOf ==
    ASSUME NEW o \in Owned, NEW v \in Obj(o)
    PROVE  v \in Copies
<1> DEFINE S(k) == Obj(k)
<1>1. v \in S(o)
  OBVIOUS
<1> HIDE DEF S
<1>2. v \in UNION {S(k) : k \in Owned}
  BY <1>1
<1> QED
  BY <1>2 DEF S, Copies

LEMMA IdleOK ==
    ASSUME NEW c
    PROVE  WorkerOK(c, Idle)
<1>1. NoStatus \in Status
  BY DEF NoStatus, Status
<1>2. 0 \in 0..(Steps - 1)
  BY ConfigAssumption
<1>3. Idle \in Workers
  <2> DEFINE st == NoStatus
             times == 0..(Steps - 1)
  <2>1. st \in Status /\ 0 \in times
    BY <1>1, <1>2
  <2> HIDE DEF st, times
  <2>2. [pc |-> "idle", key |-> None, obj |-> None, passed |-> 0, status |-> st, tries |-> 0]
          \in [pc : {"idle", "get", "check", "update"}, key : Owned \cup {None},
               obj : Copies \cup {None}, passed : Nat, status : Status, tries : times]
    BY <2>1
  <2> QED
    BY <2>2 DEF Idle, Workers, st, times
<1>4. Idle.pc = "idle" /\ Idle.key = None
  BY DEF Idle
<1> QED
  BY <1>3, <1>4 DEF WorkerOK

LEMMA ViewTypes ==
    /\ \A o : None \in Obj(o) \cup {None}
    /\ \A o \in Objects : \A s, r : s \in SpecsOf(o) /\ r \in Nat => NewObj(s, r) \in Obj(o)
    /\ \A view, o, v : ViewOK(view) /\ v \in Obj(o) \cup {None} => ViewOK([view EXCEPT ![o] = v])
<1>1. \A o \in Objects : \A s, r : s \in SpecsOf(o) /\ r \in Nat => NewObj(s, r) \in Obj(o)
  BY DEF NewObj, NoStatus, Obj, Status
<1>2. ASSUME NEW view, NEW o, NEW v, ViewOK(view), v \in Obj(o) \cup {None}
      PROVE  ViewOK([view EXCEPT ![o] = v])
  BY <1>2 DEF ViewOK
<1> QED
  BY <1>1, <1>2

\* A step that replaces one worker by a good one keeps all good.
LEMMA OneWorker ==
    ASSUME Typed, NEW c \in Controllers, NEW w, WorkerOK(c, w)
    PROVE  LET ws == [worker EXCEPT ![c] = w]
           IN  DOMAIN ws = Controllers /\ \A d \in Controllers : WorkerOK(d, ws[d])
BY DEF Typed

LEMMA InitTyped == Init => Typed
<1> SUFFICES ASSUME Init PROVE Typed
  OBVIOUS
<1>1. ViewOK(api)
  <2>1. PICK present \in Clusters, specs \in [Secrets -> SpecsOfSecrets],
             alerts \in [Alerts -> AlertSpecs], groups \in [Groups -> GroupSpecs],
             providers \in [Providers -> ProviderSpecs] :
               api = [o \in Objects |->
                    IF o \notin present THEN None
                    ELSE NewObj(CASE o \in Secrets   -> specs[o]
                                  [] o \in Alerts    -> alerts[o]
                                  [] o \in Groups    -> groups[o]
                                  [] o \in Providers -> providers[o], 1)]
    BY DEF Init
  <2> DEFINE S(o) == CASE o \in Secrets   -> specs[o]
                       [] o \in Alerts    -> alerts[o]
                       [] o \in Groups    -> groups[o]
                       [] o \in Providers -> providers[o]
  <2>2. \A o \in Objects : S(o) \in SpecsOf(o)
    BY ConfigAssumption DEF SpecsOf, Objects, Owned
  <2>3. \A o \in Objects : NewObj(S(o), 1) \in Obj(o)
    BY <2>2, ViewTypes
  <2> HIDE DEF S
  <2>4. api = [o \in Objects |-> IF o \notin present THEN None ELSE NewObj(S(o), 1)]
    BY <2>1 DEF S
  <2> QED
    BY <2>3, <2>4 DEF ViewOK
<1>2. \A c \in Controllers : WorkerOK(c, worker[c])
  BY IdleOK DEF Init
<1>3. ViewOK(cache)
  BY <1>1 DEF Init
<1>4. /\ pending \in [Controllers -> SUBSET Objects]
      /\ DOMAIN queue = Controllers
      /\ \A c \in Controllers : queue[c] \subseteq {o \in Owned : OwnerOf(o) = c}
      /\ DOMAIN worker = Controllers
      /\ unread \subseteq Owned
  BY DEF Init
<1>5. events \in 0..MaxEvents
  BY ConfigAssumption DEF Init
<1> QED
  BY <1>1, <1>2, <1>3, <1>4, <1>5 DEF Typed

LEMMA InitVersions == Init => Versions
<1> SUFFICES ASSUME Init PROVE Versions
  OBVIOUS
<1>1. cache = api /\ \A c \in Controllers : ~Busy(c)
  BY DEF Init, Busy, Idle
<1> QED
  BY <1>1 DEF Versions, SameSpec

-----------------------------------------------------------------------------
(* Typed is preserved, action by action.                                   *)

LEMMA WriteTyped ==
    ASSUME Typed, NEW o \in Objects, NEW v \in Obj(o) \cup {None}, Write(o, v)
    PROVE  Typed'
<1>1. ViewOK(api)'
  BY ViewTypes DEF Typed, Write, ViewOK
<1>2. events' \in 0..MaxEvents
  BY ConfigAssumption DEF Typed, Write, Event
<1> QED
  BY <1>1, <1>2 DEF Typed, Write, ViewOK

LEMMA UsersTyped ==
    ASSUME Typed, NEW o \in Objects, Create(o) \/ Edit(o) \/ Delete(o)
    PROVE  Typed'
<1>1. NewRv(o) \in Nat
  BY TypedIs, Fresh
<1>2. CASE Create(o)
  BY <1>1, <1>2, ViewTypes, WriteTyped DEF Create
<1>3. CASE Edit(o)
  <2>1. PICK s \in SpecsOf(o) : /\ api[o] # None
                                /\ Write(o, [api[o] EXCEPT !.spec = s, !.rv = NewRv(o)])
    BY <1>3 DEF Edit
  <2>2. api[o] \in Obj(o)
    BY <2>1 DEF Typed, ViewOK
  <2>3. [api[o] EXCEPT !.spec = s, !.rv = NewRv(o)] \in Obj(o)
    BY <1>1, <2>1, <2>2 DEF Obj
  <2> QED
    BY <2>1, <2>3, WriteTyped
<1>4. CASE Delete(o)
  BY <1>4, WriteTyped DEF Delete
<1> QED
  BY <1>2, <1>3, <1>4

LEMMA InformerTyped ==
    ASSUME Typed, NEW o \in Objects, Informer(o)
    PROVE  Typed'
<1>1. ViewOK(cache')
  <2>1. api[o] \in Obj(o) \cup {None}
    BY DEF Typed, ViewOK
  <2> QED
    BY <2>1, ViewTypes DEF Typed, Informer
<1>2. pending' \in [Controllers -> SUBSET Objects]
  BY DEF Typed, Informer
<1> QED
  BY <1>1, <1>2 DEF Typed, Informer, ViewOK

LEMMA RequestsOwned ==
    ASSUME NEW c \in Controllers, NEW o
    PROVE  Requests(c, o) \subseteq {k \in Owned : OwnerOf(k) = c}
BY DEF Requests

LEMMA HandleTyped ==
    ASSUME Typed, NEW c \in Controllers, NEW o, Handle(c, o)
    PROVE  Typed'
<1>1. pending' \in [Controllers -> SUBSET Objects]
  BY DEF Typed, Handle
<1>2. /\ DOMAIN queue' = Controllers
      /\ \A d \in Controllers : queue'[d] \subseteq {k \in Owned : OwnerOf(k) = d}
  BY RequestsOwned DEF Typed, Handle
<1> QED
  BY <1>1, <1>2 DEF Typed, Handle, ViewOK

LEMMA RestartTyped ==
    ASSUME Typed, Restart
    PROVE  Typed'
<1>1. ViewOK(cache')
  BY DEF Typed, Restart
<1>2. events' \in 0..MaxEvents
  BY ConfigAssumption DEF Typed, Restart, Event
<1>3. /\ DOMAIN queue' = Controllers
      /\ \A d \in Controllers : queue'[d] \subseteq {k \in Owned : OwnerOf(k) = d}
      /\ pending' \in [Controllers -> SUBSET Objects]
  BY DEF Restart
<1>4. DOMAIN worker' = Controllers /\ \A d \in Controllers : WorkerOK(d, worker'[d])
  BY IdleOK DEF Restart
<1> QED
  BY <1>1, <1>2, <1>3, <1>4 DEF Typed, Restart, ViewOK

\* What a Reconcile step may do to the store, the worker and the queue.
LEMMA WorkTyped ==
    ASSUME Typed, NEW c \in Controllers, NEW w, WorkerOK(c, w),
           worker' = [worker EXCEPT ![c] = w],
           ViewOK(api'), UNCHANGED <<cache, pending>>,
           DOMAIN queue' = Controllers,
           \A d \in Controllers : queue'[d] \subseteq {k \in Owned : OwnerOf(k) = d},
           unread' \subseteq Owned, events' \in 0..MaxEvents
    PROVE  Typed'
<1>1. DOMAIN worker' = Controllers /\ \A d \in Controllers : WorkerOK(d, worker'[d])
  BY OneWorker
<1> QED
  BY <1>1 DEF Typed, ViewOK

LEMMA RetryQueue ==
    ASSUME Typed, NEW c \in Controllers, worker[c].pc # "idle",
           NEW q, q = [queue EXCEPT ![c] = @ \cup {worker[c].key}]
    PROVE  /\ DOMAIN q = Controllers
           /\ \A d \in Controllers : q[d] \subseteq {k \in Owned : OwnerOf(k) = d}
BY DEF Typed, WorkerOK

LEMMA VerdictStatus ==
    ASSUME NEW o \in Owned, NEW s \in SpecsOf(o), NEW n \in Nat,
           NEW why \in {"new", "undefined", "notFound", "bad", "unreadable", "good"}
    PROVE  Verdict(o, s, why, n) \in Status
<1>1. o \in Groups => Len(s) \in Nat
  <2> HAVE o \in Groups
  <2>1. s \in Seq(Alerts)
    BY Owners, ConfigAssumption
  <2> QED
    BY <2>1
<1> QED
  BY <1>1 DEF Verdict, Status

LEMMA WhyIs ==
    \A o, s, n, view : Why(o, s, n, view) \in {"undefined", "good", "notFound", "bad"}
BY DEF Why

LEMMA NextGet ==
    ASSUME NEW c, NEW k \in Owned, OwnerOf(k) = c, NEW t \in 0..(Steps - 1)
    PROVE  /\ WorkerOK(c, [Idle EXCEPT !.pc = "get", !.key = k, !.tries = t])
           /\ WorkerOK(c, [Idle EXCEPT !.pc = "get", !.key = k])
<1>1. Idle \in Workers
  BY IdleOK DEF WorkerOK
<1> DEFINE w1 == [Idle EXCEPT !.pc = "get", !.key = k, !.tries = t]
           w2 == [Idle EXCEPT !.pc = "get", !.key = k]
<1>2. w1 \in Workers /\ w1.pc = "get" /\ w1.key = k
  BY <1>1 DEF Workers
<1>3. w2 \in Workers /\ w2.pc = "get" /\ w2.key = k
  BY <1>1 DEF Workers
<1> HIDE DEF w1, w2
<1>4. WorkerOK(c, w1)
  BY <1>2 DEF WorkerOK
<1>5. WorkerOK(c, w2)
  BY <1>3 DEF WorkerOK
<1> QED
  BY <1>4, <1>5 DEF w1, w2

\* The worker that a step leaves at c.
LEMMA DequeueTyped ==
    ASSUME Typed, NEW c \in Controllers, NEW k, Dequeue(c, k)
    PROVE  Typed'
<1> DEFINE w == [Idle EXCEPT !.pc = "get", !.key = k]
<1>1. WorkerOK(c, w)
  <2>1. k \in Owned /\ OwnerOf(k) = c
    BY DEF Typed, Dequeue
  <2>2. 0 \in 0..(Steps - 1)
    BY ConfigAssumption
  <2> QED
    BY <2>1, <2>2, NextGet
<1>2. /\ DOMAIN queue' = Controllers
      /\ \A d \in Controllers : queue'[d] \subseteq {o \in Owned : OwnerOf(o) = d}
  BY DEF Typed, Dequeue
<1> QED
  BY <1>1, <1>2, WorkTyped DEF Typed, Dequeue, ViewOK

LEMMA ReadTyped ==
    ASSUME Typed, NEW c \in Controllers, GetGone(c) \/ Get(c) \/ CheckPasses(c)
    PROVE  Typed'
<1>1. CASE GetGone(c)
  BY <1>1, IdleOK, WorkTyped DEF Typed, GetGone, Done, ViewOK
<1>2. CASE Get(c)
  <2> DEFINE v == worker[c]
             w == [v EXCEPT !.pc = "check", !.obj = cache[v.key], !.passed = 0]
  <2>1. WorkerOK(c, v) /\ v.pc = "get"
    BY <1>2 DEF Typed, Get
  <2>2. cache[v.key] \in Obj(v.key) /\ cache[v.key] # None
    BY <1>2, <2>1, Owners DEF Typed, Get, ViewOK, WorkerOK
  <2>3. worker' = [worker EXCEPT ![c] = w]
    BY <1>2 DEF Typed, Get
  <2>4. WorkerOK(c, w)
    <3>1. v \in Workers /\ v.key \in Owned /\ OwnerOf(v.key) = c
      BY <2>1 DEF WorkerOK
    <3>2. /\ w \in Workers /\ w.pc = "check" /\ w.key = v.key
          /\ w.obj = cache[v.key]
      BY <2>2, <3>1, CopiesOf DEF Workers
    <3> HIDE DEF w
    <3> QED
      BY <2>2, <3>1, <3>2 DEF WorkerOK
  <2> QED
    BY <1>2, <2>3, <2>4, WorkTyped DEF Typed, Get, ViewOK
<1>3. CASE CheckPasses(c)
  <2> DEFINE v == worker[c]
             w == [v EXCEPT !.passed = @ + 1]
  <2>1. WorkerOK(c, v) /\ v.pc = "check"
    BY <1>3 DEF Typed, CheckPasses
  <2>2. worker' = [worker EXCEPT ![c] = w]
    BY <1>3 DEF Typed, CheckPasses
  <2>3. w \in Workers /\ w.pc = "check" /\ w.key = v.key /\ w.obj = v.obj
    BY <2>1 DEF WorkerOK, Workers
  <2>4. WorkerOK(c, w)
    <3> HIDE DEF w
    <3> QED
      BY <2>1, <2>3 DEF WorkerOK
  <2> QED
    BY <1>3, <2>2, <2>4, WorkTyped DEF Typed, CheckPasses, ViewOK
<1> QED
  BY <1>1, <1>2, <1>3

LEMMA ConcludeTyped ==
    ASSUME Typed, NEW c \in Controllers, CheckEnds(c) \/ CheckFails(c)
    PROVE  Typed'
<1> DEFINE v == worker[c]
           W(st) == [v EXCEPT !.pc = "update", !.status = st]
<1>1. WorkerOK(c, v) /\ v.pc = "check"
  BY DEF Typed, CheckEnds, CheckFails
<1>2. v.key \in Owned /\ v.obj \in Obj(v.key) /\ v.obj # None /\ v.passed \in Nat
  BY <1>1 DEF WorkerOK, Workers
<1>3. v.obj.spec \in SpecsOf(v.key)
  BY <1>2 DEF Obj
<1>4. ASSUME NEW st \in Status
      PROVE  WorkerOK(c, W(st))
  <2> DEFINE w == W(st)
  <2>1. v \in Workers /\ v.key \in Owned /\ OwnerOf(v.key) = c
    BY <1>1 DEF WorkerOK
  <2>2. w \in Workers /\ w.pc = "update" /\ w.key = v.key /\ w.obj = v.obj
    BY <1>4, <2>1 DEF Workers
  <2> HIDE DEF w
  <2>3. WorkerOK(c, w)
    BY <1>2, <2>1, <2>2 DEF WorkerOK
  <2> QED
    BY <2>3 DEF w
<1>5. PICK why \in {"undefined", "good", "notFound", "bad", "unreadable"} :
        worker' = [worker EXCEPT ![c].pc = "update",
                                 ![c].status = Verdict(v.key, v.obj.spec, why, v.passed)]
  BY WhyIs DEF CheckEnds, CheckFails
<1> DEFINE st == Verdict(v.key, v.obj.spec, why, v.passed)
<1>6. st \in Status
  BY <1>2, <1>3, VerdictStatus
<1> HIDE DEF st
<1>7. worker' = [worker EXCEPT ![c] = W(st)]
  BY <1>5 DEF Typed, st
<1>8. unread' \subseteq Owned /\ events' \in 0..MaxEvents
  BY <1>2, ConfigAssumption DEF Typed, CheckEnds, CheckFails, Event
<1> QED
  BY <1>4, <1>6, <1>7, <1>8, WorkTyped DEF Typed, CheckEnds, CheckFails, ViewOK

LEMMA UpdateTyped ==
    ASSUME Typed, NEW c \in Controllers,
           Unchanged(c) \/ Updated(c) \/ Conflict(c) \/ UpdateGone(c) \/ CallFails(c)
    PROVE  Typed'
<1> DEFINE o == worker[c].key
<1>1. worker[c].pc # "idle" /\ o \in Owned /\ o \in Objects /\ worker[c].status \in Status
  BY Owners DEF Typed, Unchanged, Updated, Conflict, UpdateGone, CallFails, Writing,
                  WorkerOK, Workers
<1>2. CASE Unchanged(c)
  BY <1>2, IdleOK, WorkTyped DEF Typed, Unchanged, Done, ViewOK
<1>3. CASE Updated(c)
  <2> DEFINE v == [api[o] EXCEPT !.status = worker[c].status, !.rv = NewRv(o)]
  <2>1. api' = api \/ api' = [api EXCEPT ![o] = v]
    BY <1>1, <1>3 DEF Typed, ViewOK, Updated
  <2>2. NewRv(o) \in Nat
    BY <1>1, TypedIs, Fresh
  <2>3. api[o] \in Obj(o)
    BY <1>1, <1>3 DEF Typed, ViewOK, Updated, Current
  <2>4. v \in Obj(o)
    BY <1>1, <2>2, <2>3 DEF Obj
  <2> HIDE DEF v
  <2>5. ViewOK(api')
    BY <2>1, <2>4, ViewTypes DEF Typed
  <2> QED
    BY <1>3, <2>5, IdleOK, WorkTyped DEF Typed, Updated, Done
<1>4. CASE Retry(c) /\ UNCHANGED <<api, cache, pending, unread>> /\ events' \in 0..MaxEvents
  <2>1. /\ DOMAIN queue' = Controllers
        /\ \A d \in Controllers : queue'[d] \subseteq {k \in Owned : OwnerOf(k) = d}
    BY <1>1, <1>4, RetryQueue DEF Retry
  <2> QED
    BY <1>4, <2>1, IdleOK, WorkTyped DEF Typed, Retry, ViewOK
<1>5. CASE Conflict(c) /\ Again(c) /\ UNCHANGED queue /\ worker[c].tries + 1 < Steps
  <2> DEFINE w == [Idle EXCEPT !.pc = "get", !.key = o, !.tries = worker[c].tries + 1]
  <2>1. WorkerOK(c, w)
    <3>1. OwnerOf(o) = c /\ worker[c].tries + 1 \in 0..(Steps - 1)
      BY <1>1, <1>5, ConfigAssumption DEF Typed, WorkerOK, Workers
    <3> QED
      BY <1>1, <3>1, NextGet
  <2>2. worker' = [worker EXCEPT ![c] = w]
    BY <1>5 DEF Again
  <2> QED
    BY <1>5, <2>1, <2>2, WorkTyped DEF Typed, Conflict, ViewOK
<1>6. CASE Conflict(c)
  BY <1>4, <1>5, <1>6 DEF Conflict, Typed
<1>7. CASE UpdateGone(c)
  BY <1>4, <1>7 DEF UpdateGone, Typed
<1>8. CASE CallFails(c)
  <2>1. events' \in 0..MaxEvents
    BY <1>8, ConfigAssumption DEF CallFails, Event, Typed
  <2> QED
    BY <1>4, <1>8, <2>1 DEF CallFails
<1> QED
  BY <1>2, <1>3, <1>6, <1>7, <1>8

LEMMA NextTyped == Typed /\ [Next]_vars => Typed'
<1> SUFFICES ASSUME Typed, [Next]_vars PROVE Typed'
  OBVIOUS
<1>1. CASE \E o \in Objects : Create(o) \/ Edit(o) \/ Delete(o) \/ Informer(o)
  BY <1>1, UsersTyped, InformerTyped
<1>2. CASE \E c \in Controllers : \E o \in Objects : Handle(c, o)
  BY <1>2, HandleTyped
<1>3. CASE \E c \in Controllers : Work(c) \/ CheckFails(c) \/ CallFails(c)
  BY <1>3, DequeueTyped, ReadTyped, ConcludeTyped, UpdateTyped DEF Work, Reconcile
<1>4. CASE Restart
  BY <1>4, RestartTyped
<1>5. CASE UNCHANGED vars
  BY <1>5 DEF vars, Typed, ViewOK
<1> QED
  BY <1>1, <1>2, <1>3, <1>4, <1>5 DEF Next

\* The store and the caches hold objects, and a worker at work has a request
\* of its own controller and a copy of that object (AlertReconciler,
\* AlertGroupReconciler, AIProviderReconciler).
THEOREM TypeCorrect == Spec => []TypeOK
<1>1. Spec => []Typed
  BY InitTyped, NextTyped, PTL DEF Spec
<1>2. Typed => TypeOK
  BY TypedIs
<1> QED
  BY <1>1, <1>2, PTL
-----------------------------------------------------------------------------
(* Versions: one resource version, one spec.                               *)

\* A worker's copy is one it had.
NoNewCopy ==
    \A c \in Controllers :
        worker'[c].pc \in {"check", "update"} =>
            Busy(c) /\ worker'[c].key = worker[c].key /\ worker'[c].obj = worker[c].obj

\* A store step leaves the copies alone and makes a version no copy has.
LEMMA WriteVersions ==
    ASSUME TInv, NEW o \in Objects, NEW v,
           v # None => v.rv = NewRv(o),
           api' = [api EXCEPT ![o] = v], cache' = cache,
           NoNewCopy
    PROVE  Versions'
<1> USE DEF TInv
<1>1. /\ cache[o] # None => NewRv(o) # cache[o].rv
      /\ \A c \in Controllers :
            worker[c].key = o /\ worker[c].obj # None => NewRv(o) # worker[c].obj.rv
  BY TypedIs, Fresh
<1>2. api'[o] = v /\ \A k \in Owned : k # o => api'[k] = api[k]
  BY Owners DEF Typed, ViewOK
<1>3. \A k \in Owned : SameSpec(api'[k], cache'[k])
  BY <1>1, <1>2 DEF Versions, SameSpec
<1>4. \A k \in Owned, c \in Controllers :
        Busy(c) /\ worker[c].key = k => SameSpec(api'[k], worker[c].obj)
  BY <1>1, <1>2 DEF Versions, SameSpec, Busy, Typed, WorkerOK
<1> QED
  BY <1>3, <1>4 DEF Versions, NoNewCopy, Busy

LEMMA NextVersions == TInv /\ [Next]_vars => Versions'
<1> SUFFICES ASSUME TInv, [Next]_vars PROVE Versions'
  OBVIOUS
<1> USE DEF TInv
<1>1. ASSUME NEW o \in Objects, Create(o) \/ Edit(o) \/ Delete(o)
      PROVE  Versions'
  <2>1. PICK v : Write(o, v) /\ (v # None => v.rv = NewRv(o))
    <3>1. CASE Create(o)
      BY <3>1 DEF Create, NewObj
    <3>2. CASE Edit(o)
      <4>1. PICK s \in SpecsOf(o) : /\ api[o] # None
                                    /\ Write(o, [api[o] EXCEPT !.spec = s, !.rv = NewRv(o)])
        BY <3>2 DEF Edit
      <4>2. api[o] \in Obj(o)
        BY <4>1 DEF Typed, ViewOK
      <4>3. [api[o] EXCEPT !.spec = s, !.rv = NewRv(o)].rv = NewRv(o)
        BY <4>2 DEF Obj
      <4> QED
        BY <4>1, <4>3
    <3>3. CASE Delete(o)
      BY <3>3 DEF Delete
    <3> QED
      BY <1>1, <3>1, <3>2, <3>3
  <2> QED
    <3>1. NoNewCopy
      BY <2>1 DEF Write, NoNewCopy, Busy
    <3>2. api' = [api EXCEPT ![o] = v] /\ cache' = cache
      BY <2>1 DEF Write
    <3> QED
      BY <2>1, <3>1, <3>2, WriteVersions
<1>2. ASSUME NEW o \in Objects, Informer(o)
      PROVE  Versions'
  <2>1. \A k \in Owned : SameSpec(api'[k], cache'[k])
    BY <1>2, Owners DEF Informer, Versions, SameSpec, Typed, ViewOK
  <2> QED
    BY <1>2, <2>1 DEF Informer, Versions, Busy
<1>3. ASSUME NEW c \in Controllers, NEW o, Handle(c, o)
      PROVE  Versions'
  BY <1>3 DEF Handle, Versions, Busy
\* A step of a worker that leaves it with no copy, or with the one it had.
<1>4. ASSUME NEW c \in Controllers, NEW w,
             worker' = [worker EXCEPT ![c] = w], UNCHANGED <<api, cache>>,
             w.pc \in {"check", "update"} =>
                Busy(c) /\ w.key = worker[c].key /\ w.obj = worker[c].obj
      PROVE  Versions'
  <2>1. worker'[c] = w /\ \A d \in Controllers : d # c => worker'[d] = worker[d]
    BY <1>4 DEF Typed
  <2> QED
    BY <1>4, <2>1 DEF Versions, Busy
<1>5. ASSUME NEW c \in Controllers, Done(c) \/ Retry(c), UNCHANGED <<api, cache>>
      PROVE  Versions'
  BY <1>4, <1>5 DEF Done, Retry, Idle
<1>6. ASSUME NEW c \in Controllers, NEW k, Dequeue(c, k)
      PROVE  Versions'
  BY <1>4, <1>6 DEF Dequeue, Idle
<1>7. ASSUME NEW c \in Controllers, Get(c)
      PROVE  Versions'
  <2>1. /\ worker'[c].key = worker[c].key /\ worker'[c].obj = cache[worker[c].key]
        /\ \A d \in Controllers : d # c => worker'[d] = worker[d]
    BY <1>7 DEF Get, Typed, WorkerOK, Workers
  <2>2. worker[c].key \in Owned /\ SameSpec(api[worker[c].key], cache[worker[c].key])
    BY <1>7 DEF Versions, Get, Typed, WorkerOK
  <2>3. api' = api /\ cache' = cache
    BY <1>7 DEF Get
  <2>4. \A d \in Controllers, k \in Owned :
          Busy(d)' /\ worker'[d].key = k => SameSpec(api[k], worker'[d].obj)
    BY <2>1, <2>2 DEF Versions, Busy
  <2> QED
    BY <2>3, <2>4 DEF Versions
<1>8. ASSUME NEW c \in Controllers, CheckPasses(c) \/ CheckEnds(c) \/ CheckFails(c)
      PROVE  Versions'
  <2>1. /\ worker'[c].key = worker[c].key /\ worker'[c].obj = worker[c].obj /\ Busy(c)
        /\ \A d \in Controllers : d # c => worker'[d] = worker[d]
    BY <1>8 DEF CheckPasses, CheckEnds, CheckFails, Typed, WorkerOK, Workers, Busy
  <2> QED
    BY <1>8, <2>1 DEF Versions, CheckPasses, CheckEnds, CheckFails, Busy
<1>9. ASSUME NEW c \in Controllers, Updated(c)
      PROVE  Versions'
  <2> DEFINE o == worker[c].key
             v == [api[o] EXCEPT !.status = worker[c].status, !.rv = NewRv(o)]
  <2>1. o \in Owned /\ o \in Objects /\ api[o] # None
    BY <1>9, Owners DEF Updated, Writing, Current, Typed, WorkerOK
  <2>2. v.rv = NewRv(o)
    BY <2>1 DEF Typed, ViewOK, Obj
  <2>3. NoNewCopy
    BY <1>9 DEF Updated, Done, Typed, NoNewCopy, Busy, Idle
  <2> HIDE DEF v
  <2>4. api' = [api EXCEPT ![o] = v] \/ api' = api
    BY <1>9, <2>1 DEF Updated, Typed, ViewOK, v
  <2>5. cache' = cache
    BY <1>9 DEF Updated
  <2>6. CASE api' = [api EXCEPT ![o] = v]
    BY <2>1, <2>2, <2>3, <2>5, <2>6, WriteVersions
  <2>7. CASE api' = api
    BY <2>3, <2>5, <2>7 DEF Versions, NoNewCopy, Busy
  <2> QED
    BY <2>4, <2>6, <2>7
<1>10. ASSUME NEW c \in Controllers, Again(c), UNCHANGED <<api, cache>>
       PROVE  Versions'
  BY <1>4, <1>10 DEF Again, Idle
<1>11. ASSUME Restart PROVE Versions'
  <2>1. \A c \in Controllers : ~Busy(c)'
    BY <1>11 DEF Restart, Busy, Idle
  <2> QED
    BY <1>11, <2>1 DEF Restart, Versions, SameSpec
<1>12. ASSUME UNCHANGED vars PROVE Versions'
  BY <1>12 DEF vars, Versions, Busy
<1>13. ASSUME NEW c \in Controllers, Reconcile(c)
       PROVE  Versions'
  BY <1>5, <1>7, <1>8, <1>9, <1>10, <1>13
     DEF Reconcile, GetGone, Unchanged, Conflict, UpdateGone
<1>14. ASSUME NEW c \in Controllers, CallFails(c)
       PROVE  Versions'
  BY <1>5, <1>14 DEF CallFails
<1> QED
  BY <1>1, <1>2, <1>3, <1>6, <1>8, <1>11, <1>12, <1>13, <1>14 DEF Next, Work

LEMMA SpecTInv == Spec => []TInv
<1>1. Init => TInv
  BY InitTyped, InitVersions DEF TInv
<1>2. TInv /\ [Next]_vars => TInv'
  BY NextTyped, NextVersions DEF TInv
<1> QED
  BY <1>1, <1>2, PTL DEF Spec

\* A status is written only next to the spec it was computed from: what the
\* update carries is the object as it was read, and the API server refuses it
\* when the object has changed since (updateAlertStatus,
\* updateAIProviderStatus, Reconcile of AlertGroupReconciler).
THEOREM StatusOfSpecHolds == Spec => StatusOfSpec
<1> DEFINE Safe == \A k \in Owned :
          api[k] # None /\ api'[k] # None /\ api'[k].status # api[k].status
              => worker[OwnerOf(k)].obj.spec = api'[k].spec
<1>1. TInv /\ [Next]_vars => [Safe]_vars
  <2> SUFFICES ASSUME TInv, Next PROVE Safe
    BY DEF vars
  <2> SUFFICES ASSUME NEW k \in Owned, api[k] # None, api'[k] # None,
                      api'[k].status # api[k].status
               PROVE  worker[OwnerOf(k)].obj.spec = api'[k].spec
    OBVIOUS
  <2> USE DEF TInv
  <2>1. api[k] \in Obj(k) /\ DOMAIN api = Objects
    BY Owners DEF Typed, ViewOK
  <2>2. ASSUME NEW o \in Objects, Create(o) \/ Edit(o) \/ Delete(o)
        PROVE  FALSE
    <3>1. o = k
      <4>1. PICK v : api' = [api EXCEPT ![o] = v]
        BY <2>2 DEF Create, Edit, Delete, Write
      <4>2. o # k => api'[k] = api[k]
        BY <2>1, <4>1, Owners
      <4> QED
        BY <4>2
    <3>2. Edit(k)
      BY <2>1, <2>2, <3>1 DEF Create, Delete, Write
    <3>3. PICK s : api'[k] = [api[k] EXCEPT !.spec = s, !.rv = NewRv(k)]
      BY <2>1, <3>2, Owners DEF Edit, Write
    <3> QED
      BY <2>1, <3>3 DEF Obj
  <2>3. PICK c \in Controllers : Updated(c)
    BY <2>2 DEF Next, Work, Reconcile, Informer, Handle, Dequeue, GetGone, Get, CheckPasses,
                CheckEnds, CheckFails, Unchanged, Conflict, UpdateGone, CallFails, Restart
  <2>4. k = worker[c].key
    <3>1. worker[c].key # k => api'[k] = api[k]
      BY <2>1, <2>3, Owners DEF Updated
    <3> QED
      BY <3>1
  <2>5. c = OwnerOf(k) /\ Busy(c) /\ worker[c].obj # None
    BY <2>3, <2>4 DEF Updated, Writing, Busy, Typed, WorkerOK
  <2>6. api[k].spec = worker[c].obj.spec
    BY <2>3, <2>4, <2>5 DEF Updated, Current, Versions, SameSpec
  <2>7. api'[k] = [api[k] EXCEPT !.status = worker[c].status, !.rv = NewRv(k)]
    BY <2>1, <2>3, <2>4, Owners DEF Updated
  <2>8. api'[k].spec = api[k].spec
    BY <2>1, <2>7 DEF Obj
  <2> QED
    BY <2>5, <2>6, <2>8
<1>2. Spec => [][Safe]_vars
  BY <1>1, SpecTInv, PTL DEF Spec
<1> QED
  BY <1>2 DEF StatusOfSpec
-----------------------------------------------------------------------------
(* What validation says, as the state of a validation in progress.         *)

\* n references were looked at and are good.
Checked(k, s, n, view) ==
    /\ n \in 0..Len(Refs(k, s))
    /\ n > 0 => Defined(k, s)
    /\ \A i \in 1..n : Good(Refs(k, s)[i], view)

\* The validation ends there.
Stops(k, s, n, view) ==
    ~(Defined(k, s) /\ n < Len(Refs(k, s)) /\ Good(Refs(k, s)[n + 1], view))

\* st is the verdict of a complete validation.
Judged(k, s, st, view) ==
    \E n \in Nat : /\ Checked(k, s, n, view) /\ Stops(k, s, n, view)
                  /\ st = Verdict(k, s, Why(k, s, n, view), n)

LEMMA RefsSeq ==
    ASSUME NEW k \in Owned, NEW s \in SpecsOf(k)
    PROVE  /\ Len(Refs(k, s)) \in Nat
           /\ DOMAIN Refs(k, s) = 1..Len(Refs(k, s))
           /\ \A i \in DOMAIN Refs(k, s) : Refs(k, s)[i] \in Mentions(k, s)
           /\ Defined(k, s) => \A i \in DOMAIN Refs(k, s) : Refs(k, s)[i] \in Objects
<1>1. CASE k \in Alerts
  <2>1. s \in AlertSpecs /\ k \notin Groups /\ k \notin Providers
    BY <1>1, Owners, ConfigAssumption
  <2>2. {s.webhook, s.feishu, s.sign} \subseteq Secrets \cup {None}
    BY <2>1, ConfigAssumption
  <2>3. Mentions(k, s) = {s.webhook, s.feishu, s.sign}
    BY <1>1, <2>1 DEF Mentions
  <2>4. CASE s.type = "Webhook"
    <3>1. Refs(k, s) = <<s.webhook>> /\ (Defined(k, s) <=> s.webhook # None)
      BY <1>1, <2>1, <2>4 DEF Refs, Defined
    <3> QED
      BY <2>2, <2>3, <3>1 DEF Objects
  <2>5. CASE s.type # "Webhook" /\ s.sign = None
    <3>1. Refs(k, s) = <<s.feishu>> /\ (Defined(k, s) <=> s.feishu # None)
      BY <1>1, <2>1, <2>5 DEF Refs, Defined
    <3> QED
      BY <2>2, <2>3, <3>1 DEF Objects
  <2>6. CASE s.type # "Webhook" /\ s.sign # None
    <3>1. Refs(k, s) = <<s.feishu, s.sign>> /\ (Defined(k, s) <=> s.feishu # None)
      BY <1>1, <2>1, <2>6 DEF Refs, Defined
    <3> QED
      BY <2>2, <2>3, <2>6, <3>1 DEF Objects
  <2> QED
    BY <2>4, <2>5, <2>6
<1>2. CASE k \in Providers
  <2>1. s \in ProviderSpecs /\ k \notin Groups /\ k \notin Alerts
    BY <1>2, Owners, ConfigAssumption
  <2>2. {s.gemini, s.openai} \subseteq Secrets \cup {None}
    BY <2>1, ConfigAssumption
  <2> DEFINE r == IF s.type = "Gemini" THEN s.gemini ELSE s.openai
  <2>3. Mentions(k, s) = {r} /\ Refs(k, s) = <<r>> /\ (Defined(k, s) <=> r # None)
    BY <1>2, <2>1 DEF Mentions, Refs, Defined
  <2>4. r \in Secrets \cup {None}
    BY <2>2
  <2> HIDE DEF r
  <2> QED
    BY <2>3, <2>4 DEF Objects
<1>3. CASE k \in Groups
  <2>1. s \in Seq(Alerts) /\ k \notin Alerts /\ k \notin Providers
    BY <1>3, Owners, ConfigAssumption
  <2>2. Mentions(k, s) = {s[i] : i \in DOMAIN s} /\ Refs(k, s) = s
    BY <1>3, <2>1 DEF Mentions, Refs
  <2> QED
    BY <2>1, <2>2 DEF Objects
<1> QED
  BY <1>1, <1>2, <1>3 DEF Owned

\* The number of good references that SettledReady counts.
LEMMA PrefixCounts ==
    ASSUME NEW k \in Owned, NEW s \in SpecsOf(k), NEW n, NEW view,
           Checked(k, s, n, view), Stops(k, s, n, view)
    PROVE  GoodPrefix(k, s, view) = n
<1> DEFINE refs == Refs(k, s)
<1>1. /\ Len(refs) \in Nat /\ DOMAIN refs = 1..Len(refs)
      /\ n \in 0..Len(refs) /\ (n > 0 => Defined(k, s))
      /\ \A i \in 1..n : Good(refs[i], view)
  BY RefsSeq DEF Checked
<1>2. CASE ~Defined(k, s)
  BY <1>1, <1>2 DEF GoodPrefix
<1>3. CASE Defined(k, s)
  <2> DEFINE P(i) == Good(refs[i], view)
             S == {i \in DOMAIN refs : \A j \in 1..i : P(j)}
  <2>1. n = Len(refs) \/ ~P(n + 1)
    <3>1. \A m \in Nat : n \in 0..m => n = m \/ n < m
      OBVIOUS
    <3>2. n = Len(refs) \/ n < Len(refs)
      BY <1>1, <3>1
    <3> QED
      BY <1>3, <3>2, Zenon DEF Stops
  <2>2. \A i \in 1..n : P(i)
    BY <1>1
  <2>3. GoodPrefix(k, s, view) = Cardinality(S)
    BY <1>3 DEF GoodPrefix
  <2> DEFINE m == Len(refs)
  <2>6. m \in Nat /\ DOMAIN refs = 1..m /\ n \in 0..m /\ (n = m \/ ~P(n + 1))
    BY <1>1, <2>1
  <2> HIDE DEF P, m, refs
  <2>7. ASSUME NEW i \in 1..m, \A j \in 1..i : P(j)
        PROVE  i \in 1..n
    <3>1. i > n => n + 1 \in 1..i
      BY <2>6
    <3> QED
      BY <2>6, <2>7, <3>1
  <2>8. ASSUME NEW i \in 1..n
        PROVE  i \in 1..m /\ \A j \in 1..i : P(j)
    BY <2>2, <2>6
  <2>4. S = 1..n
    BY <2>6, <2>7, <2>8
  <2>5. Cardinality(1..n) = n
    BY <1>1, FS_Interval
  <2> QED
    BY <2>3, <2>4, <2>5
<1> QED
  BY <1>2, <1>3

LEMMA JudgedIs ==
    ASSUME NEW k \in Owned, NEW s \in SpecsOf(k), NEW st, NEW view, Judged(k, s, st, view)
    PROVE  LET n == GoodPrefix(k, s, view) IN st = Verdict(k, s, Why(k, s, n, view), n)
<1>1. PICK n \in Nat : /\ Checked(k, s, n, view) /\ Stops(k, s, n, view)
                       /\ st = Verdict(k, s, Why(k, s, n, view), n)
  BY DEF Judged
<1>2. GoodPrefix(k, s, view) = n
  BY <1>1, PrefixCounts
<1> QED
  BY <1>1, <1>2

\* Validation reads nothing but what the spec mentions.
LEMMA OnlyMentions ==
    ASSUME NEW k \in Owned, NEW s \in SpecsOf(k), NEW v1, NEW v2,
           \A r \in Mentions(k, s) \cap Objects : v1[r] = v2[r]
    PROVE  /\ \A n : Checked(k, s, n, v1) => Checked(k, s, n, v2)
           /\ \A st : Judged(k, s, st, v1) => Judged(k, s, st, v2)
<1> DEFINE refs == Refs(k, s)
<1>1. Len(refs) \in Nat /\ DOMAIN refs = 1..Len(refs)
  BY RefsSeq
<1>2. ASSUME Defined(k, s), NEW i \in 1..Len(refs)
      PROVE  v1[refs[i]] = v2[refs[i]] /\ (Good(refs[i], v1) <=> Good(refs[i], v2))
  <2>1. refs[i] \in Mentions(k, s) \cap Objects
    BY <1>1, <1>2, RefsSeq
  <2>2. v1[refs[i]] = v2[refs[i]]
    BY <2>1
  <2> QED
    BY <2>2 DEF Good
<1>3. ASSUME NEW n, Checked(k, s, n, v1)
      PROVE  Checked(k, s, n, v2)
  BY <1>1, <1>2, <1>3 DEF Checked
<1>4. ASSUME NEW n \in Nat, Checked(k, s, n, v1), Stops(k, s, n, v1)
      PROVE  Stops(k, s, n, v2)
  BY <1>1, <1>2, <1>4 DEF Stops
<1>5. ASSUME NEW n \in Nat, Checked(k, s, n, v1)
      PROVE  Why(k, s, n, v1) = Why(k, s, n, v2)
  <2>1. n \in 0..Len(refs)
    BY <1>5 DEF Checked
  <2>2. Defined(k, s) /\ n # Len(refs) => v1[refs[n + 1]] = v2[refs[n + 1]]
    <3>1. \A m \in Nat : n \in 0..m => n = m \/ n + 1 \in 1..m
      OBVIOUS
    <3>2. n = Len(refs) \/ n + 1 \in 1..Len(refs)
      BY <1>1, <2>1, <3>1
    <3> QED
      BY <1>2, <3>2, Zenon
  <2>3. CASE Defined(k, s) /\ n # Len(refs)
    BY <2>2, <2>3 DEF Why
  <2>4. CASE ~(Defined(k, s) /\ n # Len(refs))
    BY <2>4 DEF Why
  <2> QED
    BY <2>3, <2>4
<1> QED
  BY <1>3, <1>4, <1>5 DEF Judged
-----------------------------------------------------------------------------
(* No object is forgotten.                                                 *)

\* k is queued, or an event that leads to a request for it is on its way.
Told(k) ==
    \/ k \in queue[OwnerOf(k)]
    \/ \E o \in pending[OwnerOf(k)] : k \in Requests(OwnerOf(k), o)

\* The worker is right about k, as the caches are now.
Right(k, w) ==
    /\ w.key = k
    /\ \/ w.pc = "get"
       \/ /\ w.pc = "check" /\ w.obj = cache[k]
          /\ Checked(k, w.obj.spec, w.passed, cache)
       \/ /\ w.pc = "update" /\ w.obj = cache[k]
          /\ k \in unread \/ Judged(k, w.obj.spec, w.status, cache)

\* The stored status of k is right, or a new version of k is on its way.
AtRest(k) ==
    \/ cache[k] = None
    \/ cache[k] # api[k]
    \/ k \in unread
    \/ Judged(k, cache[k].spec, cache[k].status, cache)

Tracked(k) ==
    \/ Told(k)
    \/ Right(k, worker[OwnerOf(k)])
    \/ worker[OwnerOf(k)].key # k /\ AtRest(k)

TrackedAll == \A k \in Owned : Tracked(k)

\* Who is told of a change of k, or of what k refers to, asks for k.
LEMMA Telling ==
    ASSUME NEW k \in Owned
    PROVE  /\ OwnerOf(k) \in Watchers(k) /\ k \in Requests(OwnerOf(k), k)
           /\ \A s \in SpecsOf(k), o \in Objects :
                 o \in Mentions(k, s) =>
                    /\ OwnerOf(k) \in Watchers(o)
                    /\ cache[k] # None /\ cache[k].spec = s => k \in Requests(OwnerOf(k), o)
<1>1. OwnerOf(k) \in Watchers(k) /\ k \in Requests(OwnerOf(k), k)
  BY Owners, ConfigAssumption DEF Watchers, Requests, Owned
<1>2. ASSUME NEW s \in SpecsOf(k), NEW o \in Objects, o \in Mentions(k, s)
      PROVE  /\ OwnerOf(k) \in Watchers(o)
             /\ o \in Owned => OwnerOf(o) # OwnerOf(k)
  <2>1. CASE k \in Alerts
    <3>1. s \in AlertSpecs
      BY <2>1, Owners
    <3>2. o \in Secrets
      BY <1>2, <2>1, <3>1, ConfigAssumption DEF Mentions
    <3> QED
      BY <2>1, <3>2, Owners, ConfigAssumption DEF Watchers, Owned
  <2>2. CASE k \in Providers
    <3>1. s \in ProviderSpecs /\ k \notin Alerts
      BY <2>2, Owners, ConfigAssumption
    <3>2. o \in Secrets
      BY <1>2, <2>2, <3>1, ConfigAssumption DEF Mentions
    <3> QED
      BY <2>2, <3>2, Owners, ConfigAssumption DEF Watchers, Owned
  <2>3. CASE k \in Groups
    <3>1. s \in Seq(Alerts) /\ k \notin Alerts /\ k \notin Providers
      BY <2>3, Owners, ConfigAssumption
    <3>2. o \in Alerts
      BY <1>2, <2>3, <3>1 DEF Mentions
    <3> QED
      BY <2>3, <3>2, Owners, ConfigAssumption DEF Watchers, Owned
  <2> QED
    BY <2>1, <2>2, <2>3 DEF Owned
<1>3. ASSUME NEW s \in SpecsOf(k), NEW o \in Objects, o \in Mentions(k, s),
             cache[k] # None, cache[k].spec = s
      PROVE  k \in Requests(OwnerOf(k), o)
  BY <1>2, <1>3 DEF Requests
<1> QED
  BY <1>1, <1>2, <1>3

\* What was told stays told while the queue and the events only grow.
LEMMA ToldStays ==
    ASSUME NEW k \in Owned, Told(k), cache'[k] = cache[k],
           queue[OwnerOf(k)] \subseteq queue'[OwnerOf(k)],
           pending[OwnerOf(k)] \subseteq pending'[OwnerOf(k)]
    PROVE  Told(k)'
<1>1. \A o : k \in Requests(OwnerOf(k), o) => k \in Requests(OwnerOf(k), o)'
  BY DEF Requests
<1> QED
  BY <1>1 DEF Told

\* A step that is not about k leaves it tracked.
LEMMA Frame ==
    ASSUME TInv, NEW k \in Owned, Tracked(k), UNCHANGED <<cache, pending>>,
           queue[OwnerOf(k)] \subseteq queue'[OwnerOf(k)],
           k \in unread => k \in unread',
           api'[k] = api[k] \/ cache[k] = None \/ cache[k] # api'[k],
           \/ worker'[OwnerOf(k)] = worker[OwnerOf(k)]
           \/ worker[OwnerOf(k)].key # k /\ worker'[OwnerOf(k)].key # k
    PROVE  Tracked(k)'
<1> DEFINE c == OwnerOf(k)
<1>1. CASE Told(k)
  <2>1. Told(k)'
    BY <1>1, ToldStays
  <2> QED
    BY <2>1 DEF Tracked
<1>2. CASE Right(k, worker[c])
  <2>1. worker'[c] = worker[c]
    BY <1>2 DEF Right
  <2>2. Right(k, worker[c])'
    BY <1>2, <2>1 DEF Right
  <2> QED
    BY <2>2 DEF Tracked
<1>3. CASE worker[c].key # k /\ AtRest(k)
  BY <1>3 DEF AtRest, Tracked
<1> QED
  BY <1>1, <1>2, <1>3 DEF Tracked

LEMMA InitTracked == Init => TrackedAll
<1> SUFFICES ASSUME Init, NEW k \in Owned PROVE Tracked(k)
  BY DEF TrackedAll
<1>1. OwnerOf(k) \in Controllers
  BY Owners
<1>2. CASE api[k] # None
  BY <1>1, <1>2 DEF Init, Tracked, Told
<1>3. CASE api[k] = None
  <2>1. worker[OwnerOf(k)].key # k
    BY <1>1, ConfigAssumption DEF Init, Idle, Objects, Owned
  <2> QED
    BY <1>3, <2>1 DEF Init, Tracked, AtRest
<1> QED
  BY <1>2, <1>3

LEMMA UsersTrack ==
    ASSUME TInv, NEW o \in Objects, Create(o) \/ Edit(o) \/ Delete(o),
           NEW k \in Owned, Tracked(k)
    PROVE  Tracked(k)'
<1> USE DEF TInv
<1>1. PICK v : Write(o, v) /\ (v # None => v.rv = NewRv(o))
  <2>1. CASE Create(o)
    BY <2>1 DEF Create, NewObj
  <2>2. CASE Edit(o)
    <3>1. PICK s \in SpecsOf(o) : /\ api[o] # None
                                  /\ Write(o, [api[o] EXCEPT !.spec = s, !.rv = NewRv(o)])
      BY <2>2 DEF Edit
    <3>2. api[o] \in Obj(o)
      BY <3>1 DEF Typed, ViewOK
    <3>3. [api[o] EXCEPT !.spec = s, !.rv = NewRv(o)].rv = NewRv(o)
      BY <3>2 DEF Obj
    <3> QED
      BY <3>1, <3>3
  <2>3. CASE Delete(o)
    BY <2>3 DEF Delete
  <2> QED
    BY <2>1, <2>2, <2>3
<1>2. api' = [api EXCEPT ![o] = v] /\ UNCHANGED <<cache, pending, queue, worker, unread>>
  BY <1>1 DEF Write
<1>3. cache[o] # None => NewRv(o) # cache[o].rv
  BY TypedIs, Fresh
<1>4. api'[k] = api[k] \/ cache[k] = None \/ cache[k] # api'[k]
  BY <1>1, <1>2, <1>3, Owners DEF Typed, ViewOK
<1> QED
  BY <1>2, <1>4, Frame

LEMMA InformerTracks ==
    ASSUME TInv, NEW o \in Objects, Informer(o), NEW k \in Owned, Tracked(k)
    PROVE  Tracked(k)'
<1> USE DEF TInv
<1> DEFINE c == OwnerOf(k)
<1>1. c \in Controllers /\ k \in Objects
  BY Owners
<1>2. /\ cache' = [cache EXCEPT ![o] = api[o]] /\ DOMAIN cache = Objects
      /\ UNCHANGED <<api, queue, worker, unread>>
  BY DEF Informer, Typed, ViewOK
<1>3. c \in Watchers(o) => pending'[c] = pending[c] \cup {o}
  BY <1>1 DEF Informer
<1>4. pending[c] \subseteq pending'[c]
  BY <1>1 DEF Informer
<1>5. CASE o = k
  <2>1. o \in pending'[c]
    BY <1>3, <1>5, Telling
  <2>2. k \in Requests(c, o)'
    BY <1>5 DEF Requests
  <2> QED
    BY <2>1, <2>2 DEF Told, Tracked
<1>6. CASE o # k /\ cache[k] = None
  <2>1. cache'[k] = None
    BY <1>1, <1>2, <1>6
  <2>2. worker[c].pc \in {"check", "update"} => worker[c].obj # None
    BY <1>1 DEF Typed, WorkerOK
  <2>3. Right(k, worker[c]) => Right(k, worker[c])'
    <3>1. Right(k, worker[c]) => worker[c].key = k /\ worker[c].pc = "get"
      BY <1>6, <2>2 DEF Right
    <3> QED
      BY <1>2, <3>1 DEF Right
  <2>4. Told(k) => Told(k)'
    BY <1>2, <1>4, <1>6, <2>1, ToldStays
  <2>5. worker' = worker
    BY <1>2
  <2> QED
    BY <2>1, <2>3, <2>4, <2>5 DEF Tracked, AtRest
<1>7. CASE o # k /\ cache[k] # None
  <2> DEFINE s == cache[k].spec
  <2>1. s \in SpecsOf(k)
    BY <1>1, <1>7 DEF Typed, ViewOK, Obj
  <2>2. cache'[k] = cache[k]
    BY <1>1, <1>2, <1>7
  <2>3. CASE o \in Mentions(k, s)
    <3>1. o \in pending'[c] /\ k \in Requests(c, o)
      BY <1>3, <1>7, <2>1, <2>3, Telling
    <3>2. k \in Requests(c, o)'
      BY <2>2, <3>1 DEF Requests
    <3> QED
      BY <3>1, <3>2 DEF Told, Tracked
  <2>4. CASE o \notin Mentions(k, s)
    <3>1. \A r \in Mentions(k, s) \cap Objects : cache[r] = cache'[r]
      BY <1>2, <2>4
    <3>2. /\ \A n : Checked(k, s, n, cache) => Checked(k, s, n, cache')
          /\ \A st : Judged(k, s, st, cache) => Judged(k, s, st, cache')
      BY <2>1, <3>1, OnlyMentions
    <3>3. Told(k) => Told(k)'
      BY <1>2, <1>4, <2>2, ToldStays
    <3>4. Right(k, worker[c]) => Right(k, worker[c])'
      BY <1>2, <2>2, <3>2 DEF Right
    <3>5. AtRest(k) => AtRest(k)'
      BY <1>2, <2>2, <3>2 DEF AtRest
    <3>6. worker' = worker
      BY <1>2
    <3> QED
      BY <3>3, <3>4, <3>5, <3>6 DEF Tracked
  <2> QED
    BY <2>3, <2>4
<1> QED
  BY <1>5, <1>6, <1>7

LEMMA HandleTracks ==
    ASSUME TInv, NEW c \in Controllers, NEW o, Handle(c, o), NEW k \in Owned, Tracked(k)
    PROVE  Tracked(k)'
<1> USE DEF TInv
<1> DEFINE d == OwnerOf(k)
<1>1. d \in Controllers /\ UNCHANGED <<api, cache, worker, unread>>
  BY Owners DEF Handle
<1>2. /\ \A r : r \in pending[d] => r \in pending'[d] \/ (c = d /\ r = o)
      /\ queue[d] \subseteq queue'[d]
      /\ c = d => Requests(d, o) \subseteq queue'[d]
  BY <1>1 DEF Handle, Typed
<1>3. \A r : k \in Requests(d, r) => k \in Requests(d, r)'
  BY <1>1 DEF Requests
<1>4. Told(k) => Told(k)'
  BY <1>2, <1>3 DEF Told
<1>5. (Right(k, worker[d]) => Right(k, worker[d])') /\ (AtRest(k) => AtRest(k)')
  BY <1>1 DEF Right, AtRest
<1> QED
  BY <1>1, <1>4, <1>5 DEF Tracked

LEMMA DequeueTracks ==
    ASSUME TInv, NEW c \in Controllers, NEW o, Dequeue(c, o), NEW k \in Owned, Tracked(k)
    PROVE  Tracked(k)'
<1> USE DEF TInv
<1> DEFINE d == OwnerOf(k)
<1>1. d \in Controllers /\ UNCHANGED <<api, cache, pending, unread>>
  BY Owners DEF Dequeue
<1>2. worker'[c].pc = "get" /\ worker'[c].key = o
  BY DEF Dequeue, Typed, Idle
<1>3. CASE c = d /\ o = k
  BY <1>2, <1>3 DEF Right, Tracked
<1>4. CASE c = d /\ o # k
  <2>1. worker[d].key # k /\ worker'[d].key # k
    BY <1>1, <1>2, <1>4, ConfigAssumption DEF Dequeue, Typed, WorkerOK, Objects, Owned
  <2>2. \A r : k \in Requests(d, r) => k \in Requests(d, r)'
    BY <1>1 DEF Requests
  <2>3. Told(k) => Told(k)'
    BY <1>1, <1>4, <2>2 DEF Dequeue, Typed, Told
  <2>4. AtRest(k) => AtRest(k)'
    BY <1>1 DEF AtRest
  <2> QED
    BY <2>1, <2>3, <2>4 DEF Tracked, Right
<1>5. CASE c # d
  <2>1. worker'[d] = worker[d] /\ queue'[d] = queue[d]
    BY <1>1, <1>5 DEF Dequeue, Typed
  <2> QED
    BY <1>1, <2>1, Frame
<1> QED
  BY <1>3, <1>4, <1>5

LEMMA RestartTracks ==
    ASSUME Restart, NEW k \in Owned
    PROVE  Tracked(k)'
<1>1. OwnerOf(k) \in Controllers
  BY Owners
<1>2. CASE api[k] # None
  <2>1. k \in queue'[OwnerOf(k)]
    BY <1>1, <1>2 DEF Restart
  <2> QED
    BY <2>1 DEF Tracked, Told
<1>3. CASE api[k] = None
  <2>1. worker'[OwnerOf(k)].key # k /\ cache'[k] = None
    BY <1>1, <1>3, ConfigAssumption DEF Restart, Idle, Objects, Owned
  <2> QED
    BY <2>1 DEF Tracked, AtRest
<1> QED
  BY <1>2, <1>3

\* A Reconcile of another object.
LEMMA OtherTracks ==
    ASSUME TInv, NEW c \in Controllers, Reconcile(c) \/ CheckFails(c) \/ CallFails(c),
           NEW k \in Owned, worker[c].key # k, Tracked(k)
    PROVE  Tracked(k)'
<1> USE DEF TInv
<1> DEFINE d == OwnerOf(k)
<1>1. d \in Controllers /\ k \in Objects /\ UNCHANGED <<cache, pending>>
  BY Owners DEF Reconcile, GetGone, Get, CheckPasses, CheckEnds, CheckFails, Unchanged,
                Updated, Conflict, UpdateGone, CallFails
<1>2. queue' = queue \/ queue' = [queue EXCEPT ![c] = @ \cup {worker[c].key}]
  BY DEF Reconcile, GetGone, Get, CheckPasses, CheckEnds, CheckFails, Unchanged,
         Updated, Conflict, UpdateGone, CallFails, Done, Retry
<1>3. queue[d] \subseteq queue'[d]
  BY <1>1, <1>2 DEF Typed
<1>4. unread' \in {unread, unread \ {worker[c].key}, unread \cup {worker[c].key}}
  BY DEF Reconcile, GetGone, Get, CheckPasses, CheckEnds, CheckFails, Unchanged,
         Updated, Conflict, UpdateGone, CallFails
<1>5. api'[k] = api[k]
  <2>1. CASE Updated(c)
    BY <1>1, <2>1 DEF Updated, Typed, ViewOK
  <2>2. CASE ~Updated(c)
    BY <2>2 DEF Reconcile, GetGone, Get, CheckPasses, CheckEnds, CheckFails, Unchanged,
                Conflict, UpdateGone, CallFails
  <2> QED
    BY <2>1, <2>2
<1>6. \E w : worker' = [worker EXCEPT ![c] = w] /\ w.key \in {None, worker[c].key}
  <2>1. worker[c] \in Workers
    BY DEF Typed, WorkerOK
  <2>2. Idle.key = None /\ \A t : [Idle EXCEPT !.pc = "get", !.key = worker[c].key,
                                               !.tries = t].key = worker[c].key
    BY DEF Idle
  <2>3. CASE \/ GetGone(c) \/ Unchanged(c) \/ Updated(c) \/ Conflict(c)
             \/ UpdateGone(c) \/ CallFails(c)
    BY <2>2, <2>3 DEF GetGone, Unchanged, Updated, Conflict, UpdateGone, CallFails,
                      Done, Retry, Again
  <2>4. CASE Get(c)
    <3> DEFINE w == [worker[c] EXCEPT !.pc = "check", !.obj = cache[worker[c].key],
                                      !.passed = 0]
    <3>1. worker' = [worker EXCEPT ![c] = w]
      BY <2>4 DEF Get, Typed
    <3>2. w.key = worker[c].key
      BY <2>1 DEF Workers
    <3> QED
      BY <3>1, <3>2
  <2>5. CASE CheckPasses(c)
    <3> DEFINE w == [worker[c] EXCEPT !.passed = @ + 1]
    <3>1. worker' = [worker EXCEPT ![c] = w]
      BY <2>5 DEF CheckPasses, Typed
    <3>2. w.key = worker[c].key
      BY <2>1 DEF Workers
    <3> QED
      BY <3>1, <3>2
  <2>6. CASE CheckEnds(c) \/ CheckFails(c)
    <3>1. PICK st : worker' = [worker EXCEPT ![c].pc = "update", ![c].status = st]
      BY <2>6 DEF CheckEnds, CheckFails
    <3> DEFINE w == [worker[c] EXCEPT !.pc = "update", !.status = st]
    <3>2. worker' = [worker EXCEPT ![c] = w]
      BY <3>1 DEF Typed
    <3>3. w.key = worker[c].key
      BY <2>1 DEF Workers
    <3> QED
      BY <3>2, <3>3
  <2> QED
    BY <2>3, <2>4, <2>5, <2>6 DEF Reconcile
<1>7. k # None
  BY ConfigAssumption DEF Objects, Owned
<1>8. \/ worker'[d] = worker[d]
      \/ worker[d].key # k /\ worker'[d].key # k
  BY <1>1, <1>6, <1>7 DEF Typed
<1> QED
  BY <1>1, <1>3, <1>4, <1>5, <1>8, Frame

\* The object comes back to the queue, or its status is right.
LEMMA Leaves ==
    ASSUME TInv, NEW c \in Controllers, NEW k \in Owned, worker[c].key = k, c = OwnerOf(k),
           \/ Retry(c)
           \/ Again(c)
           \/ Done(c) /\ AtRest(k)'
    PROVE  Tracked(k)'
<1> USE DEF TInv
<1>1. CASE Retry(c)
  BY <1>1 DEF Retry, Typed, Tracked, Told
<1>2. CASE Again(c)
  BY <1>2 DEF Again, Typed, Tracked, Right, Idle
<1>3. CASE Done(c) /\ AtRest(k)'
  <2>1. worker'[c].key # k
    BY <1>3, ConfigAssumption DEF Done, Typed, Idle, Objects, Owned
  <2> QED
    BY <1>3, <2>1 DEF Tracked
<1> QED
  BY <1>1, <1>2, <1>3

LEMMA ReadTracks ==
    ASSUME TInv, NEW c \in Controllers, GetGone(c) \/ Get(c) \/ CheckPasses(c),
           NEW k \in Owned, worker[c].key = k, c = OwnerOf(k), Tracked(k)
    PROVE  Tracked(k)'
<1> USE DEF TInv
<1>1. CASE GetGone(c)
  <2>1. AtRest(k)'
    BY <1>1 DEF GetGone, AtRest
  <2> QED
    BY <1>1, <2>1, Leaves DEF GetGone
<1>2. worker[c] \in Workers /\ worker[c].key = k /\ DOMAIN worker = Controllers
  BY DEF Typed, WorkerOK
<1>3. CASE Get(c)
  <2>1. /\ worker'[c].key = k /\ worker'[c].pc = "check" /\ worker'[c].obj = cache[k]
        /\ worker'[c].passed = 0
    BY <1>2, <1>3 DEF Get, Workers
  <2>2. cache' = cache /\ cache[k].spec \in SpecsOf(k)
    BY <1>3, Owners DEF Get, Typed, ViewOK, Obj
  <2>3. Len(Refs(k, cache[k].spec)) \in Nat
    BY <2>2, RefsSeq
  <2>4. Checked(k, cache[k].spec, 0, cache)
    BY <2>3 DEF Checked
  <2> QED
    BY <2>1, <2>2, <2>4 DEF Tracked, Right
<1>4. CASE CheckPasses(c)
  <2>1. /\ worker'[c].key = k /\ worker'[c].pc = "check" /\ worker'[c].obj = worker[c].obj
        /\ worker'[c].passed = worker[c].passed + 1 /\ worker[c].passed \in Nat
    BY <1>2, <1>4 DEF CheckPasses, Workers
  <2>2. UNCHANGED <<api, cache, pending, queue, unread>>
    BY <1>4 DEF CheckPasses
  <2>3. CASE Told(k)
    BY <2>2, <2>3, ToldStays DEF Tracked
  <2>4. CASE Right(k, worker[c])
    <3> DEFINE s == worker[c].obj.spec
               n == worker[c].passed
    <3>1. worker[c].obj = cache[k] /\ Checked(k, s, n, cache)
      BY <1>4, <2>4 DEF Right, CheckPasses
    <3>2. s \in SpecsOf(k)
      BY <1>2, <1>4 DEF CheckPasses, Typed, WorkerOK, Obj
    <3>3. Defined(k, s) /\ n < Len(Refs(k, s)) /\ Good(Refs(k, s)[n + 1], cache)
      BY <1>2, <1>4 DEF CheckPasses, NextGood, RefsOf
    <3>4. Len(Refs(k, s)) \in Nat
      BY <3>2, RefsSeq
    <3>5. Checked(k, s, n + 1, cache)
      BY <2>1, <3>1, <3>3, <3>4 DEF Checked
    <3> QED
      BY <2>1, <2>2, <3>1, <3>5 DEF Tracked, Right
  <2> QED
    BY <1>2, <2>3, <2>4 DEF Tracked
<1> QED
  BY <1>1, <1>3, <1>4

LEMMA ConcludeTracks ==
    ASSUME TInv, NEW c \in Controllers, CheckEnds(c) \/ CheckFails(c),
           NEW k \in Owned, worker[c].key = k, c = OwnerOf(k), Tracked(k)
    PROVE  Tracked(k)'
<1> USE DEF TInv
<1> DEFINE w == worker[c]
           s == w.obj.spec
           n == w.passed
<1>1. w \in Workers /\ w.key = k /\ DOMAIN worker = Controllers /\ w.pc = "check"
  BY DEF Typed, WorkerOK, CheckEnds, CheckFails
<1>2. UNCHANGED <<api, cache, pending, queue>>
  BY DEF CheckEnds, CheckFails
<1>3. CASE Told(k)
  BY <1>2, <1>3, ToldStays DEF Tracked
<1>4. CASE Right(k, w)
  <2>1. w.obj = cache[k] /\ Checked(k, s, n, cache) /\ n \in Nat
    BY <1>1, <1>4 DEF Right, Workers
  <2>2. CASE CheckFails(c)
    <3>1. worker'[c].key = k /\ worker'[c].pc = "update" /\ worker'[c].obj = w.obj
      BY <1>1, <2>2 DEF CheckFails, Workers
    <3>2. k \in unread'
      BY <1>1, <2>2 DEF CheckFails
    <3> QED
      BY <1>2, <2>1, <3>1, <3>2 DEF Tracked, Right
  <2>3. CASE CheckEnds(c)
    <3> DEFINE st == Verdict(k, s, Why(k, s, n, cache), n)
    <3>1. /\ worker'[c].key = k /\ worker'[c].pc = "update" /\ worker'[c].obj = w.obj
          /\ worker'[c].status = st
      BY <1>1, <2>3 DEF CheckEnds, Workers
    <3>2. Stops(k, s, n, cache)
      BY <1>1, <2>3 DEF CheckEnds, NextGood, RefsOf, Stops
    <3>3. Judged(k, s, st, cache)
      BY <2>1, <3>2 DEF Judged
    <3> HIDE DEF st
    <3>4. Right(k, worker[c])'
      BY <1>2, <2>1, <3>1, <3>3 DEF Right
    <3> QED
      BY <3>4 DEF Tracked
  <2> QED
    BY <2>2, <2>3
<1> QED
  BY <1>1, <1>3, <1>4 DEF Tracked

LEMMA UpdateTracks ==
    ASSUME TInv, NEW c \in Controllers,
           Unchanged(c) \/ Updated(c) \/ Conflict(c) \/ UpdateGone(c) \/ CallFails(c),
           NEW k \in Owned, worker[c].key = k, c = OwnerOf(k), Tracked(k)
    PROVE  Tracked(k)'
<1> USE DEF TInv
<1> DEFINE w == worker[c]
<1>1. w \in Workers /\ w.key = k /\ DOMAIN worker = Controllers /\ k \in Objects
  BY Owners DEF Typed, WorkerOK
<1>2. CASE Conflict(c) \/ UpdateGone(c) \/ CallFails(c)
  BY <1>2, Leaves DEF Conflict, UpdateGone, CallFails
<1>3. CASE (Unchanged(c) \/ Updated(c)) /\ Told(k)
  <2>1. UNCHANGED <<cache, pending, queue>>
    BY <1>3 DEF Unchanged, Updated, Done
  <2> QED
    BY <1>3, <2>1, ToldStays DEF Tracked
<1>4. CASE (Unchanged(c) \/ Updated(c)) /\ Right(k, w)
  <2>1. /\ w.obj = cache[k] /\ UNCHANGED <<cache, unread>> /\ Done(c)
        /\ k \in unread \/ Judged(k, cache[k].spec, w.status, cache)
    BY <1>4 DEF Right, Unchanged, Updated, Writing
  <2>2. CASE Unchanged(c)
    <3>1. w.status = cache[k].status
      BY <2>1, <2>2 DEF Unchanged
    <3>2. AtRest(k)'
      BY <2>1, <3>1 DEF AtRest
    <3> QED
      BY <2>1, <3>2, <1>1, Leaves
  <2>3. CASE Updated(c) /\ api[k].status = w.status
    <3>1. api' = api
      BY <1>1, <2>3 DEF Updated
    <3>2. AtRest(k)'
      BY <2>1, <2>3, <3>1 DEF AtRest
    <3> QED
      BY <2>1, <3>2, <1>1, Leaves
  <2>4. CASE Updated(c) /\ api[k].status # w.status
    <3>1. api[k] \in Obj(k) /\ DOMAIN api = Objects
      BY <1>1, <2>4 DEF Updated, Current, Typed, ViewOK
    <3>2. api'[k] = [api[k] EXCEPT !.status = w.status, !.rv = NewRv(k)]
      BY <1>1, <2>4, <3>1 DEF Updated
    <3>3. api'[k].rv = NewRv(k)
      BY <3>1, <3>2 DEF Obj
    <3>4. cache[k] # None => NewRv(k) # cache[k].rv
      BY <1>1, TypedIs, Fresh
    <3>5. AtRest(k)'
      BY <2>1, <3>3, <3>4 DEF AtRest
    <3> QED
      BY <2>1, <3>5, <1>1, Leaves
  <2> QED
    BY <1>4, <2>2, <2>3, <2>4
<1> QED
  BY <1>1, <1>2, <1>3, <1>4 DEF Tracked

LEMMA NextTracked == TInv /\ TrackedAll /\ [Next]_vars => TrackedAll'
<1> SUFFICES ASSUME TInv, TrackedAll, [Next]_vars, NEW k \in Owned PROVE Tracked(k)'
  BY DEF TrackedAll
<1>1. Tracked(k) /\ OwnerOf(k) \in Controllers
  BY Owners DEF TrackedAll
<1>2. CASE \E o \in Objects : Create(o) \/ Edit(o) \/ Delete(o) \/ Informer(o)
  BY <1>1, <1>2, UsersTrack, InformerTracks
<1>3. CASE \E c \in Controllers : \E o \in Objects : Handle(c, o)
  BY <1>1, <1>3, HandleTracks
<1>4. ASSUME NEW c \in Controllers, Reconcile(c) \/ CheckFails(c) \/ CallFails(c)
      PROVE  Tracked(k)'
  <2>1. CASE worker[c].key # k
    BY <1>1, <1>4, <2>1, OtherTracks
  <2>2. CASE worker[c].key = k
    <3>1. k # None
      BY ConfigAssumption DEF Objects, Owned
    <3>2. c = OwnerOf(k)
      BY <2>2, <3>1 DEF TInv, Typed, WorkerOK
    <3> QED
      BY <1>1, <1>4, <2>2, <3>2, ReadTracks, ConcludeTracks, UpdateTracks DEF Reconcile
  <2> QED
    BY <2>1, <2>2
<1>5. CASE \E c \in Controllers : \E o \in queue[c] : Dequeue(c, o)
  BY <1>1, <1>5, DequeueTracks
<1>6. CASE Restart
  BY <1>6, RestartTracks
<1>7. CASE UNCHANGED vars
  BY <1>1, <1>7, Frame DEF vars
<1> QED
  BY <1>2, <1>3, <1>4, <1>5, <1>6, <1>7 DEF Next, Work

\* In whatever order the controllers hear of specs, Secrets and member Alerts,
\* and however often their calls conflict or fail, a status on which nothing is
\* still to come is the verdict on what is stored (the Reconcile functions and
\* findAlertsForSecret, findAIProvidersForSecret, findAlertGroupsForAlert).
THEOREM SettledReadyHolds == Spec => []SettledReady
<1>1. Init => TInv /\ TrackedAll
  BY InitTyped, InitVersions, InitTracked DEF TInv
<1>2. TInv /\ TrackedAll /\ [Next]_vars => (TInv /\ TrackedAll)'
  BY NextTyped, NextVersions, NextTracked DEF TInv
<1>3. TInv /\ TrackedAll => SettledReady
  <2> SUFFICES ASSUME TInv, TrackedAll, NEW k \in Owned,
                      Settled(k), api[k] # None, k \notin unread
               PROVE  LET s == api[k].spec
                          n == GoodPrefix(k, s, api)
                      IN  api[k].status = Verdict(k, s, Why(k, s, n, api), n)
    BY DEF SettledReady
  <2>1. Tracked(k) /\ OwnerOf(k) \in Controllers
    BY Owners DEF TrackedAll
  <2>2. ~Told(k) /\ worker[OwnerOf(k)].key # k /\ cache = api
    BY <2>1 DEF Settled, Told
  <2>3. Judged(k, api[k].spec, api[k].status, api)
    BY <2>1, <2>2 DEF Tracked, Right, AtRest
  <2>4. api[k].spec \in SpecsOf(k)
    BY Owners DEF TInv, Typed, ViewOK, Obj
  <2> QED
    BY <2>3, <2>4, JudgedIs
<1> QED
  BY <1>1, <1>2, <1>3, PTL DEF Spec
=============================================================================
