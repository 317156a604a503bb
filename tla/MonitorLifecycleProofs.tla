------------------------ MODULE MonitorLifecycleProofs ------------------------
(***************************************************************************)
(* Theorems about MonitorLifecycle for any MonitorPods, Pods, specs and    *)
(* selectors and any supply of goroutines.                                 *)
(*                                                                         *)
(* Registry is the inductive invariant of the manager: the loops at work   *)
(* are exactly those whose cancel function the manager holds, and a wired  *)
(* stream is the entry of such a loop.  Progress adds what the worker has  *)
(* established for the key it is busy with, AllTracked who will see to the *)
(* status of each key, and EntryInv what the entries of a loop refer to,   *)
(* which is what the refinement of PodReading needs.                       *)
(***************************************************************************)
EXTENDS MonitorLifecycle, FiniteSetTheorems, TLAPS

\* The registry of the manager and the loops agree.
LoopInv ==
    /\ \A l \in Loops : loopKey[l] # None /\ l \notin loopDone =>
                            monitors[loopKey[l]] = l
    /\ \A k \in Keys : monitors[k] # None =>
                           /\ loopKey[monitors[k]] = k
                           /\ monitors[k] \notin loopDone
                           /\ loopSpec[monitors[k]] \in Valid
    /\ \A l \in Loops : loopKey[l] = None => l \notin loopDone
    /\ \A l \in Loops : loopKey[l] # None => loopSpec[l] \in Valid

\* A wired stream is the entry for its Pod of a loop at work for its key.
StreamInv ==
    /\ \A s \in Streams : Living(s) => strPod[s] \in Pods /\ strLoop[s] \in Loops
    /\ \A s \in Streams : Wired(s) =>
           /\ loopKey[strLoop[s]] = strKey[s]
           /\ strLoop[s] \notin loopDone
           /\ active[strLoop[s]][strPod[s]] = s

\* What the worker holds: the object it read has a selector that parses.
WorkerInv == rec.pc = "list" => rec.obj.spec \in Valid

Registry == TypeOK /\ LoopInv /\ StreamInv /\ WorkerInv

-----------------------------------------------------------------------------
(* Typing.                                                                 *)

\* The version given to a new revision of an object is a natural number, and
\* none that the cache holds.
LEMMA NewRvFresh ==
    ASSUME NEW k \in Keys
    PROVE  NewRv(k) \in Nat /\ (cache[k] # None => NewRv(k) # cache[k].rv)
<1> DEFINE P(r) == /\ api[k] # None => r # api[k].rv
                   /\ cache[k] # None => r # cache[k].rv
                   /\ rec.obj # None => r # rec.obj.rv
<1>1. \E r \in 1..4 : P(r)
  <2>1. P(1) \/ P(2) \/ P(3) \/ P(4)
    OBVIOUS
  <2>2. 1 \in 1..4 /\ 2 \in 1..4 /\ 3 \in 1..4 /\ 4 \in 1..4
    OBVIOUS
  <2> QED  BY <2>1, <2>2
<1> HIDE DEF P
<1>2. (CHOOSE r \in 1..4 : P(r)) \in 1..4 /\ P(CHOOSE r \in 1..4 : P(r))
  BY <1>1
<1>3. NewRv(k) \in 1..4 /\ P(NewRv(k))
  BY <1>2 DEF NewRv, P
<1> QED  BY <1>3 DEF P

\* MonitoredPodsCount is a natural number.
LEMMA ListedNat ==
    ASSUME NEW s \in Valid
    PROVE  Cardinality(Listed(s)) \in Nat
<1>1. Listed(s) \subseteq Pods /\ IsFiniteSet(Pods)
  BY LifecycleConfig DEF Listed, Matching
<1>2. IsFiniteSet(Listed(s))
  BY <1>1, FS_Subset
<1> QED  BY <1>2, FS_CardinalityType

\* The initial states satisfy the invariant.
LEMMA InitRegistry == Init => Registry
<1> SUFFICES ASSUME Init PROVE Registry
  OBVIOUS
<1>1. \A s \in Specs : NewObj(s, 1) \in Obj
  BY DEF NewObj, Obj, Reasons
<1>2. TypeOK
  BY <1>1 DEF Init, TypeOK, Idle, Rec, NoLoop, NoStream, NoPods
<1>3. LoopInv /\ StreamInv /\ WorkerInv
  BY LifecycleConfig DEF Init, LoopInv, StreamInv, WorkerInv, Living, Wired, Idle, NoLoop,
     NoStream
<1> QED  BY <1>2, <1>3 DEF Registry

\* A step that touches no goroutine and no cancel function keeps the registry.
LEMMA Untouched ==
    ASSUME LoopInv, StreamInv, UNCHANGED <<loopVars, strVars>>
    PROVE  LoopInv' /\ StreamInv'
BY DEF LoopInv, StreamInv, loopVars, strVars, Living, Wired

\* Writes to the API server.
LEMMA WriteType ==
    ASSUME TypeOK, NEW k \in Keys, NEW o \in Obj \cup {None}, Write(k, o)
    PROVE  TypeOK'
BY DEF TypeOK, Write, Event, loopVars, strVars

LEMMA WriteRegistry ==
    ASSUME Registry, NEW k \in Keys,
           Create(k) \/ EditSpec(k) \/ Delete(k) \/ CountAlert(k)
    PROVE  Registry'
<1>1. PICK o \in Obj \cup {None} : Write(k, o)
  <2>1. NewRv(k) \in Nat
    BY NewRvFresh
  <2>2. \A s \in Specs : NewObj(s, NewRv(k)) \in Obj
    BY <2>1 DEF NewObj, Obj, Reasons
  <2>3. api[k] # None => api[k] \in Obj
    BY DEF Registry, TypeOK
  <2>4. ASSUME api[k] # None, NEW s \in Specs
        PROVE  [api[k] EXCEPT !.spec = s, !.rv = NewRv(k)] \in Obj
    BY <2>1, <2>3, <2>4 DEF Obj
  <2>5. api[k] # None => [api[k] EXCEPT !.rv = NewRv(k)] \in Obj
    BY <2>1, <2>3 DEF Obj
  <2> QED  BY <2>2, <2>4, <2>5 DEF Create, EditSpec, Delete, CountAlert
<1>2. TypeOK'
  BY <1>1, WriteType DEF Registry
<1>3. LoopInv' /\ StreamInv'
  BY <1>1, Untouched DEF Write, Registry
<1>4. WorkerInv'
  BY <1>1 DEF Registry, WorkerInv, Write
<1> QED  BY <1>2, <1>3, <1>4 DEF Registry
-----------------------------------------------------------------------------
(* The steps of the informers and of the worker.                           *)

\* Queue and cache steps, and those of the worker that start or stop nothing.
LEMMA QueueRegistry ==
    ASSUME Registry,
           \/ \E k \in Keys : Informer(k) \/ Dequeue(k)
           \/ \E p \in Pods, ph \in Phases : PodChange(p, ph)
           \/ GetFails \/ GetValid
    PROVE  Registry'
<1> USE DEF Registry
<1>1. LoopInv' /\ StreamInv'
  BY Untouched DEF Informer, Dequeue, PodChange, GetFails, GetValid
<1>2. ASSUME NEW k \in Keys, Informer(k) PROVE TypeOK' /\ WorkerInv'
  BY <1>2 DEF Informer, TypeOK, WorkerInv, loopVars, strVars
<1>3. ASSUME NEW k \in Keys, Dequeue(k) PROVE TypeOK' /\ WorkerInv'
  <2>1. rec' \in Rec /\ rec'.pc = "get" /\ rec'.key = k
    BY <1>3 DEF Dequeue, Idle, Rec
  <2>2. dirty' \subseteq Keys
    BY <1>3 DEF Dequeue, TypeOK
  <2>3. UNCHANGED <<api, cache, pods, lostStatus, events>>
    BY <1>3 DEF Dequeue, objVars
  <2>4. UNCHANGED <<loopVars, strVars>>
    BY <1>3 DEF Dequeue
  <2> QED  BY <2>1, <2>2, <2>3, <2>4 DEF TypeOK, WorkerInv, loopVars, strVars
<1>4. ASSUME NEW p \in Pods, NEW ph \in Phases, PodChange(p, ph)
      PROVE  TypeOK' /\ WorkerInv'
  <2>1. Watchers(p) \subseteq Keys
    BY DEF Watchers
  <2> QED  BY <1>4, <2>1 DEF PodChange, Event, TypeOK, WorkerInv, objVars, loopVars, strVars
<1>5. CASE GetFails
  <2>1. rec' \in Rec /\ rec'.pc = "idle"
    BY <1>5 DEF GetFails, Idle, Rec
  <2>2. dirty' \subseteq Keys
    BY <1>5 DEF GetFails, TypeOK
  <2>3. UNCHANGED <<api, cache, pods, lostStatus>> /\ events' \in Nat
    BY <1>5 DEF GetFails, objVars, Event, TypeOK
  <2>4. UNCHANGED <<loopVars, strVars>>
    BY <1>5 DEF GetFails
  <2> QED  BY <1>1, <2>1, <2>2, <2>3, <2>4 DEF TypeOK, WorkerInv, loopVars, strVars
<1>6. CASE GetValid
  <2>1. rec.key \in Keys
    BY <1>6 DEF GetValid, TypeOK
  <2>2. cache[rec.key] \in Obj
    BY <1>6, <2>1 DEF GetValid, TypeOK
  <2>3. rec' \in Rec /\ rec'.obj = cache[rec.key] /\ rec'.key = rec.key
        /\ rec'.pc = "list"
    BY <1>6, <2>2 DEF GetValid, TypeOK, Rec
  <2>4. UNCHANGED <<api, cache, pods, dirty, lostStatus, events>>
    BY <1>6 DEF GetValid, objVars
  <2>5. UNCHANGED <<loopVars, strVars>>
    BY <1>6 DEF GetValid
  <2>6. cache[rec.key].spec \in Valid
    BY <1>6 DEF GetValid
  <2> QED  BY <1>1, <2>1, <2>2, <2>3, <2>4, <2>5, <2>6
           DEF TypeOK, WorkerInv, loopVars, strVars
<1> QED  BY <1>1, <1>2, <1>3, <1>4, <1>5, <1>6

\* What Settle leaves in the worker.
LEMMA SettleRec ==
    ASSUME rec \in Rec, NEW old, NEW o \in Obj, NEW r \in BOOLEAN, Settle(old, o, r)
    PROVE  /\ rec' \in Rec /\ rec'.pc = "status" /\ rec'.key = rec.key
           /\ rec'.obj = o /\ rec'.requeue = r
BY DEF Settle, Rec

\* An object with another Ready condition.
LEMMA ObjReady ==
    ASSUME NEW b \in Obj, NEW r \in Reasons
    PROVE  [b EXCEPT !.ready = r] \in Obj
BY DEF Obj

LEMMA SettledRegistry ==
    ASSUME Registry, GetInvalid \/ ListFails
    PROVE  Registry'
<1> USE DEF Registry
<1>1. LoopInv' /\ StreamInv'
  BY Untouched DEF GetInvalid, ListFails
<1>2. rec.key \in Keys /\ rec \in Rec
  BY DEF TypeOK, GetInvalid, ListFails
<1>3. CASE GetInvalid
  <2> DEFINE o == [cache[rec.key] EXCEPT !.ready = "InvalidSelector"]
  <2>1. o \in Obj
    <3>1. cache[rec.key] \in Obj
      BY <1>2, <1>3 DEF GetInvalid, TypeOK
    <3> QED  BY <3>1, ObjReady DEF Reasons
  <2>2. Settle(cache[rec.key], o, FALSE)
    BY <1>3 DEF GetInvalid
  <2> HIDE DEF o
  <2>3. rec' \in Rec /\ rec'.pc = "status" /\ rec'.key = rec.key /\ rec'.obj = o
    BY <1>2, <2>1, <2>2, SettleRec
  <2> QED  BY <1>1, <1>2, <1>3, <2>1, <2>3
           DEF GetInvalid, TypeOK, WorkerInv, objVars, loopVars, strVars
<1>4. CASE ListFails
  <2> DEFINE o == [rec.obj EXCEPT !.ready = "ListPodsFailed"]
  <2>1. o \in Obj
    <3>1. rec.obj \in Obj
      BY <1>4 DEF ListFails, TypeOK
    <3> QED  BY <3>1, ObjReady DEF Reasons
  <2>2. Settle(rec.obj, o, TRUE)
    BY <1>4 DEF ListFails
  <2> HIDE DEF o
  <2>3. rec' \in Rec /\ rec'.pc = "status" /\ rec'.key = rec.key /\ rec'.obj = o
    BY <1>2, <2>1, <2>2, SettleRec
  <2> QED  BY <1>1, <1>2, <1>4, <2>1, <2>3
           DEF ListFails, Event, TypeOK, WorkerInv, objVars, loopVars, strVars
<1> QED  BY <1>3, <1>4

LEMMA StatusRegistry ==
    ASSUME Registry,
           StatusSame \/ StatusUpdated \/ StatusConflict \/ StatusFails
    PROVE  Registry'
<1> USE DEF Registry
<1>1. Finish /\ rec.pc = "status" /\ rec.key \in Keys /\ rec.obj \in Obj
  BY DEF StatusSame, StatusUpdated, StatusConflict, StatusFails, TypeOK
<1>2. LoopInv' /\ StreamInv'
  BY <1>1, Untouched DEF Finish
<1>3. rec' = Idle /\ Idle \in Rec
  BY <1>1 DEF Finish, Idle, Rec
<1>4. WorkerInv'
  BY <1>3 DEF WorkerInv, Idle
<1>5. api' \in [Keys -> Obj \cup {None}]
  <2>1. NewRv(rec.key) \in Nat
    BY <1>1, NewRvFresh
  <2>2. [rec.obj EXCEPT !.rv = NewRv(rec.key)] \in Obj
    BY <1>1, <2>1 DEF Obj
  <2> QED  BY <2>2 DEF StatusSame, StatusUpdated, StatusConflict, StatusFails, TypeOK
<1>6. lostStatus' \subseteq Keys /\ events' \in Nat
  BY <1>1 DEF StatusSame, StatusUpdated, StatusConflict, StatusFails, Event, TypeOK
<1>7. TypeOK'
  BY <1>1, <1>3, <1>5, <1>6 DEF Finish, TypeOK, Idle, loopVars, strVars
<1> QED  BY <1>2, <1>4, <1>7
-----------------------------------------------------------------------------
(* The manager: cancelling the registered loop reaches its streams.        *)

LEMMA CancelWorks ==
    ASSUME TypeOK, LoopInv, StreamInv, NEW k \in Keys, CancelRegistered(k)
    PROVE  /\ loopDone' \subseteq Loops /\ strDone' \subseteq Streams
           /\ loopDone \subseteq loopDone' /\ strDone \subseteq strDone'
           /\ \A l \in Loops : loopKey[l] = k => l \in loopDone'
           /\ \A l \in loopDone' \ loopDone : loopKey[l] = k
           /\ \A s \in Streams : Living(s) /\ s \notin strDone' =>
                                     strLoop[s] \notin loopDone'
<1>1. CASE monitors[k] = None
  BY <1>1, LifecycleConfig
     DEF CancelRegistered, TypeOK, LoopInv, StreamInv, Wired
<1>2. CASE monitors[k] # None
  BY <1>2, LifecycleConfig
     DEF CancelRegistered, TypeOK, LoopInv, StreamInv, Wired, Children
<1> QED  BY <1>1, <1>2

LEMMA StopRegistry ==
    ASSUME Registry, GetNotFound
    PROVE  Registry'
<1> USE DEF Registry
<1> DEFINE k == rec.key
<1>1. k \in Keys /\ StopMonitor(k) /\ CancelRegistered(k) /\ rec' = Idle
  BY DEF GetNotFound, TypeOK, StopMonitor
<1> HIDE DEF k
<1>2. /\ loopDone' \subseteq Loops /\ strDone' \subseteq Streams
      /\ loopDone \subseteq loopDone' /\ strDone \subseteq strDone'
      /\ \A l \in Loops : loopKey[l] = k => l \in loopDone'
      /\ \A l \in loopDone' \ loopDone : loopKey[l] = k
      /\ \A s \in Streams : Living(s) /\ s \notin strDone' =>
                                strLoop[s] \notin loopDone'
  BY <1>1, CancelWorks
<1>3. TypeOK'
  BY <1>1, <1>2
     DEF TypeOK, GetNotFound, StopMonitor, Idle, Rec, objVars
<1>4. LoopInv'
  <2>1. \A q \in Keys \ {k} : monitors'[q] = monitors[q]
    BY <1>1 DEF StopMonitor, TypeOK
  <2>2. monitors'[k] = None
    BY <1>1 DEF StopMonitor, TypeOK
  <2>3. loopKey' = loopKey /\ loopSpec' = loopSpec
    BY <1>1 DEF StopMonitor
  <2> QED  BY <1>1, <1>2, <2>1, <2>2, <2>3, LifecycleConfig DEF LoopInv, TypeOK
<1>5. StreamInv'
  BY <1>1, <1>2 DEF StreamInv, StopMonitor, Living, Wired
<1>6. WorkerInv'
  BY <1>1 DEF WorkerInv, Idle
<1> QED  BY <1>3, <1>4, <1>5, <1>6

LEMMA StartRegistry ==
    ASSUME Registry, ListOk
    PROVE  Registry'
<1> USE DEF Registry
<1> DEFINE k == rec.key
           sp == rec.obj.spec
           o == [rec.obj EXCEPT !.ready = "SetupComplete",
                                !.count = Cardinality(Listed(sp))]
<1>1. k \in Keys /\ sp \in Valid /\ rec \in Rec
  BY DEF ListOk, TypeOK, WorkerInv
<1>2. Cardinality(Listed(sp)) \in Nat
  BY <1>1, ListedNat
<1>3. o \in Obj
  BY <1>2 DEF ListOk, TypeOK, Obj, Reasons
<1>4. Settle(rec.obj, o, FALSE)
  BY DEF ListOk
<1>5. PICK new \in FreeLoops :
          /\ CancelRegistered(k)
          /\ monitors' = [monitors EXCEPT ![k] = new]
          /\ loopKey' = [loopKey EXCEPT ![new] = k]
          /\ loopSpec' = [loopSpec EXCEPT ![new] = sp]
          /\ UNCHANGED <<active, strKey, strPod, strLoop, broken>>
  BY DEF ListOk, StartOrUpdateMonitor
<1> HIDE DEF k, sp, o
<1>6. rec' \in Rec /\ rec'.pc = "status" /\ rec'.key = k /\ rec'.obj = o
  BY <1>1, <1>3, <1>4, SettleRec DEF k
<1>7. /\ loopDone' \subseteq Loops /\ strDone' \subseteq Streams
      /\ loopDone \subseteq loopDone' /\ strDone \subseteq strDone'
      /\ \A l \in Loops : loopKey[l] = k => l \in loopDone'
      /\ \A l \in loopDone' \ loopDone : loopKey[l] = k
      /\ \A s \in Streams : Living(s) /\ s \notin strDone' =>
                                strLoop[s] \notin loopDone'
  BY <1>1, <1>5, CancelWorks
<1>8. new \in Loops /\ loopKey[new] = None
  BY <1>5 DEF FreeLoops
<1>9. TypeOK'
  BY <1>1, <1>3, <1>5, <1>6, <1>7, <1>8 DEF TypeOK, ListOk, objVars
<1>10. LoopInv'
  <2>1. /\ monitors'[k] = new
        /\ \A q \in Keys \ {k} : monitors'[q] = monitors[q]
    BY <1>1, <1>5 DEF TypeOK
  <2>2. /\ loopKey'[new] = k /\ loopSpec'[new] = sp
        /\ \A l \in Loops \ {new} : loopKey'[l] = loopKey[l]
                                    /\ loopSpec'[l] = loopSpec[l]
    BY <1>5, <1>8 DEF TypeOK
  <2>3. new \notin loopDone'
    BY <1>1, <1>7, <1>8, LifecycleConfig DEF LoopInv
  <2>4. \A l \in Loops : loopKey'[l] # None /\ l \notin loopDone' =>
                             monitors'[loopKey'[l]] = l
    BY <1>1, <1>7, <1>8, <2>1, <2>2, <2>3, LifecycleConfig DEF LoopInv, TypeOK
  <2>5. \A q \in Keys : monitors'[q] # None =>
            /\ loopKey'[monitors'[q]] = q
            /\ monitors'[q] \notin loopDone'
            /\ loopSpec'[monitors'[q]] \in Valid
    <3> SUFFICES ASSUME NEW q \in Keys, monitors'[q] # None
                 PROVE  /\ loopKey'[monitors'[q]] = q
                        /\ monitors'[q] \notin loopDone'
                        /\ loopSpec'[monitors'[q]] \in Valid
      OBVIOUS
    <3>1. CASE q = k
      BY <1>1, <2>1, <2>2, <2>3, <3>1
    <3>2. CASE q # k
      <4>1. monitors'[q] = monitors[q] /\ monitors[q] \in Loops
        BY <2>1, <3>2 DEF TypeOK
      <4>2. /\ loopKey[monitors[q]] = q /\ monitors[q] \notin loopDone
            /\ loopSpec[monitors[q]] \in Valid
        BY <4>1 DEF LoopInv
      <4>3. monitors[q] # new
        BY <1>8, <4>2, LifecycleConfig
      <4> QED  BY <1>7, <2>2, <3>2, <4>1, <4>2, <4>3
    <3> QED  BY <3>1, <3>2
  <2>6. \A l \in Loops : loopKey'[l] = None => l \notin loopDone'
    BY <1>1, <1>7, <2>2, LifecycleConfig DEF LoopInv
  <2>7. \A l \in Loops : loopKey'[l] # None => loopSpec'[l] \in Valid
    BY <1>1, <2>2 DEF LoopInv
  <2> QED  BY <2>4, <2>5, <2>6, <2>7 DEF LoopInv
<1>11. StreamInv'
  <2>1. \A l \in Loops \ {new} : loopKey'[l] = loopKey[l]
    BY <1>5, <1>8 DEF TypeOK
  <2>2. \A s \in Streams : Wired(s) => strLoop[s] # new
    BY <1>8 DEF StreamInv, Wired, Living
  <2> QED  BY <1>5, <1>7, <2>1, <2>2 DEF StreamInv, Living, Wired
<1>12. WorkerInv'
  BY <1>6 DEF WorkerInv
<1> QED  BY <1>9, <1>10, <1>11, <1>12
-----------------------------------------------------------------------------
(* The loops and the streams.                                              *)

\* A tick: entries of Pods no longer running go and their streams are
\* cancelled; each new entry is a stream of its own that nobody refers to.
LEMMA TickRegistry ==
    ASSUME Registry, NEW l \in Loops, Tick(l)
    PROVE  Registry'
<1> USE DEF Registry
<1>1. PICK f \in [Fresh(l) -> FreeStreams] :
        /\ \A p, q \in Fresh(l) : f[p] = f[q] => p = q
        /\ active' = [active EXCEPT ![l] =
               [p \in Pods |-> IF p \in Fresh(l) THEN f[p]
                               ELSE IF p \in Stale(l) THEN None
                               ELSE active[l][p]]]
        /\ strKey' = [s \in Streams |->
               IF s \in {f[p] : p \in Fresh(l)} THEN loopKey[l] ELSE strKey[s]]
        /\ strPod' = [s \in Streams |->
               IF s \in {f[p] : p \in Fresh(l)}
               THEN CHOOSE p \in Fresh(l) : f[p] = s ELSE strPod[s]]
        /\ strLoop' = [s \in Streams |->
               IF s \in {f[p] : p \in Fresh(l)} THEN l ELSE strLoop[s]]
        /\ strDone' = (strDone \cup {s \in {active[l][p] : p \in Stale(l)} : Living(s)})
                      \cup (IF l \in loopDone THEN {f[p] : p \in Fresh(l)} ELSE {})
  BY DEF Tick
<1> DEFINE started == {f[p] : p \in Fresh(l)}
           podOf(s) == CHOOSE p \in Fresh(l) : f[p] = s
<1>2. UNCHANGED <<api, cache, pods, dirty, rec, monitors, loopKey, loopSpec,
                  loopDone, lostStatus, events>>
  BY DEF Tick, objVars
<1>3. loopKey[l] \in Keys /\ loopSpec[l] \in Valid
  BY DEF Tick, TypeOK, LoopInv
<1>4. Fresh(l) \subseteq Pods
  BY <1>3, LifecycleConfig DEF Fresh, Running, Matching
<1>5. /\ started \subseteq Streams
      /\ \A s \in started : ~Living(s) /\ \A m \in Loops, p \in Pods : active[m][p] # s
  BY DEF FreeStreams
<1>6. \A s \in started : podOf(s) \in Fresh(l) /\ f[podOf(s)] = s
  OBVIOUS
<1>7. /\ \A s \in started : strKey'[s] = loopKey[l] /\ strPod'[s] = podOf(s)
                            /\ strLoop'[s] = l
      /\ \A s \in Streams \ started : strKey'[s] = strKey[s]
                            /\ strPod'[s] = strPod[s] /\ strLoop'[s] = strLoop[s]
  BY <1>1, <1>5
<1>8. /\ \A p \in Fresh(l) : active'[l][p] = f[p]
      /\ \A p \in Pods \ (Fresh(l) \cup Stale(l)) : active'[l][p] = active[l][p]
      /\ \A m \in Loops \ {l} : active'[m] = active[m]
  BY <1>1, <1>4 DEF TypeOK
<1>9. /\ strDone \subseteq strDone'
      /\ \A p \in Stale(l) : Living(active[l][p]) => active[l][p] \in strDone'
      /\ l \in loopDone => started \subseteq strDone'
  BY <1>1
<1>10. \A p \in Fresh(l) : f[p] \in Streams
  BY DEF FreeStreams
<1>11. TypeOK'
  <2>1. active' \in [Loops -> [Pods -> Streams \cup {None}]]
    <3>1. [p \in Pods |-> IF p \in Fresh(l) THEN f[p]
                          ELSE IF p \in Stale(l) THEN None
                          ELSE active[l][p]] \in [Pods -> Streams \cup {None}]
      BY <1>10 DEF TypeOK
    <3> QED  BY <1>1, <3>1 DEF TypeOK
  <2>2. strDone' \subseteq Streams
    <3>1. \A p \in Stale(l) : active[l][p] \in Streams
      BY DEF Stale, TypeOK
    <3> QED  BY <1>1, <1>5, <3>1 DEF TypeOK
  <2>3. strKey' \in [Streams -> Keys \cup {None}]
    BY <1>1, <1>3 DEF TypeOK
  <2>4. strPod' \in [Streams -> Pods \cup {None}]
    <3>1. \A s \in Streams : strPod'[s] \in Pods \cup {None}
      BY <1>4, <1>6, <1>7 DEF TypeOK
    <3> QED  BY <1>1, <3>1
  <2>5. strLoop' \in [Streams -> Loops \cup {None}]
    BY <1>1 DEF TypeOK
  <2>6. broken' \subseteq Streams
    BY DEF Tick, TypeOK
  <2> QED  BY <1>2, <2>1, <2>2, <2>3, <2>4, <2>5, <2>6 DEF TypeOK
<1>12. LoopInv' /\ WorkerInv'
  BY <1>2 DEF LoopInv, WorkerInv
<1> HIDE DEF started, podOf
<1>13. \A s \in Streams : Living(s)' => strPod'[s] \in Pods /\ strLoop'[s] \in Loops
  <2> SUFFICES ASSUME NEW s \in Streams, Living(s)'
               PROVE  strPod'[s] \in Pods /\ strLoop'[s] \in Loops
    OBVIOUS
  <2>1. CASE s \in started
    BY <1>4, <1>6, <1>7, <2>1
  <2>2. CASE s \notin started
    BY <1>7, <2>2 DEF StreamInv, Living
  <2> QED  BY <2>1, <2>2
<1>14. \A s \in Streams : Wired(s)' =>
           /\ loopKey'[strLoop'[s]] = strKey'[s]
           /\ strLoop'[s] \notin loopDone'
           /\ active'[strLoop'[s]][strPod'[s]] = s
  <2> SUFFICES ASSUME NEW s \in Streams, Wired(s)'
               PROVE  /\ loopKey'[strLoop'[s]] = strKey'[s]
                      /\ strLoop'[s] \notin loopDone'
                      /\ active'[strLoop'[s]][strPod'[s]] = s
    OBVIOUS
  <2>1. CASE s \in started
    BY <1>2, <1>6, <1>7, <1>8, <1>9, <2>1 DEF Wired
  <2>2. CASE s \notin started
    <3>1. Wired(s) /\ s \notin strDone'
      BY <1>7, <1>9, <2>2 DEF Wired, Living
    <3>2. /\ loopKey[strLoop[s]] = strKey[s] /\ strLoop[s] \notin loopDone
          /\ active[strLoop[s]][strPod[s]] = s
          /\ strLoop[s] \in Loops /\ strPod[s] \in Pods
      BY <3>1 DEF StreamInv, Wired
    <3>3. active'[strLoop[s]][strPod[s]] = s
      <4>1. CASE strLoop[s] # l
        BY <1>8, <3>2, <4>1
      <4>2. CASE strLoop[s] = l
        <5>1. strPod[s] \notin Stale(l)
          BY <1>9, <3>1, <3>2, <4>2 DEF Wired
        <5>2. strPod[s] \notin Fresh(l)
          BY <3>2, <4>2, LifecycleConfig DEF Fresh
        <5> QED  BY <1>8, <3>2, <4>2, <5>1, <5>2
      <4> QED  BY <4>1, <4>2
    <3> QED  BY <1>2, <1>7, <2>2, <3>2, <3>3
  <2> QED  BY <2>1, <2>2
<1> QED  BY <1>11, <1>12, <1>13, <1>14 DEF StreamInv

LEMMA ExitRegistry ==
    ASSUME Registry, NEW l \in Loops, LoopExit(l)
    PROVE  Registry'
<1> USE DEF Registry
<1>1. /\ \A m \in Loops \ {l} : /\ loopKey'[m] = loopKey[m]
                                /\ loopSpec'[m] = loopSpec[m]
                                /\ active'[m] = active[m]
      /\ loopKey'[l] = None
      /\ loopDone' = loopDone \ {l} /\ l \in loopDone
      /\ strDone \subseteq strDone' /\ strDone' \subseteq Streams
      /\ UNCHANGED <<monitors, rec, strKey, strPod, strLoop>>
  BY DEF LoopExit, TypeOK
<1>2. TypeOK'
  BY <1>1 DEF LoopExit, TypeOK, NoPods, objVars
<1>3. \A k \in Keys : monitors[k] # l
  BY <1>1, LifecycleConfig DEF LoopInv, TypeOK
<1>4. LoopInv'
  BY <1>1, <1>3 DEF LoopInv, TypeOK
<1>5. StreamInv'
  <2>1. \A s \in Streams : Wired(s) => strLoop[s] # l
    BY <1>1 DEF StreamInv
  <2> QED  BY <1>1, <2>1 DEF StreamInv, Living, Wired
<1>6. WorkerInv'
  BY <1>1 DEF WorkerInv
<1> QED  BY <1>2, <1>4, <1>5, <1>6

LEMMA EndRegistry ==
    ASSUME Registry, NEW s \in Streams, StreamEnds(s) \/ StreamBreaks(s)
    PROVE  Registry'
<1> USE DEF Registry
<1>1. Ended(s) /\ events' \in Nat /\ broken' \subseteq Streams
  BY DEF StreamEnds, StreamBreaks, Event, TypeOK
<1>2. TypeOK'
  BY <1>1 DEF Ended, TypeOK, objVars, loopVars
<1>3. LoopInv' /\ WorkerInv'
  BY <1>1 DEF Ended, LoopInv, WorkerInv, loopVars
<1>4. /\ strKey'[s] = None
      /\ \A t \in Streams \ {s} : /\ strKey'[t] = strKey[t] /\ strPod'[t] = strPod[t]
                                  /\ strLoop'[t] = strLoop[t]
                                  /\ t \in strDone' <=> t \in strDone
      /\ UNCHANGED <<loopKey, loopDone, active>>
  BY <1>1 DEF Ended, TypeOK, loopVars
<1>5. StreamInv'
  BY <1>4 DEF StreamInv, Living, Wired
<1> QED  BY <1>2, <1>3, <1>5

LEMMA RestartRegistry ==
    ASSUME Registry, Restart
    PROVE  Registry'
<1> USE DEF Registry
<1>1. TypeOK'
  BY DEF Restart, Event, TypeOK, Idle, Rec, NoLoop, NoStream, NoPods
<1>2. LoopInv' /\ StreamInv' /\ WorkerInv'
  BY LifecycleConfig DEF Restart, LoopInv, StreamInv, WorkerInv, Living, Wired, Idle,
     NoLoop, NoStream
<1> QED  BY <1>1, <1>2

\* Every step preserves the invariant of the manager.
LEMMA NextRegistry == Registry /\ [Next]_vars => Registry'
<1> SUFFICES ASSUME Registry, [Next]_vars PROVE Registry'
  OBVIOUS
<1>1. CASE UNCHANGED vars
  BY <1>1 DEF vars, objVars, loopVars, strVars, Registry, TypeOK, LoopInv, StreamInv,
     WorkerInv, Living, Wired
<1>2. CASE \E k \in Keys : Create(k) \/ EditSpec(k) \/ Delete(k) \/ CountAlert(k)
  BY <1>2, WriteRegistry
<1>3. CASE \/ \E k \in Keys : Informer(k) \/ Dequeue(k)
           \/ \E p \in Pods, ph \in Phases : PodChange(p, ph)
           \/ GetFails
  BY <1>3, QueueRegistry
<1>4. CASE Reconcile \/ ListFails \/ StatusFails
  BY <1>4, QueueRegistry, SettledRegistry, StatusRegistry, StopRegistry, StartRegistry
     DEF Reconcile
<1>5. CASE \E l \in Loops : Tick(l) \/ LoopExit(l)
  BY <1>5, TickRegistry, ExitRegistry
<1>6. CASE \E s \in Streams : StreamEnds(s) \/ StreamBreaks(s)
  BY <1>6, EndRegistry
<1>7. CASE Restart
  BY <1>7, RestartRegistry
<1> QED  BY <1>1, <1>2, <1>3, <1>4, <1>5, <1>6, <1>7 DEF Next
-----------------------------------------------------------------------------
\* The type invariant of the lifecycle.
THEOREM TypeCorrect == Spec => []TypeOK
<1>1. Registry => TypeOK
  BY DEF Registry
<1> QED  BY InitRegistry, NextRegistry, <1>1, PTL DEF Spec

\* A MonitorPod never has two loops at work: the one it has is registered.
THEOREM OneLiveLoopHolds == Spec => []OneLiveLoop
<1>1. Registry => OneLiveLoop
  BY DEF Registry, LoopInv, OneLiveLoop
<1> QED  BY InitRegistry, NextRegistry, <1>1, PTL DEF Spec

\* A wired stream belongs to the registered loop of its MonitorPod.
THEOREM NoOrphanStreamHolds == Spec => []NoOrphanStream
<1>1. Registry => NoOrphanStream
  BY LifecycleConfig DEF Registry, LoopInv, StreamInv, NoOrphanStream, Wired, Living
<1> QED  BY InitRegistry, NextRegistry, <1>1, PTL DEF Spec

\* A Pod's log is never read twice for one MonitorPod: two wired streams for
\* the same Pod would be the same entry of the same registered loop.
THEOREM NoDoubleStreamHolds == Spec => []NoDoubleStream
<1>1. Registry => NoDoubleStream
  <2> SUFFICES ASSUME Registry, NEW s \in Streams, NEW t \in Streams,
                      Wired(s), Wired(t), strKey[s] = strKey[t], strPod[s] = strPod[t]
               PROVE  s = t
    BY DEF NoDoubleStream
  <2>1. strLoop[s] = monitors[strKey[s]] /\ strLoop[t] = monitors[strKey[t]]
    BY DEF Registry, LoopInv, StreamInv, Wired, Living
  <2>2. active[strLoop[s]][strPod[s]] = s /\ active[strLoop[t]][strPod[t]] = t
    BY DEF Registry, StreamInv
  <2> QED  BY <2>1, <2>2
<1> QED  BY InitRegistry, NextRegistry, <1>1, PTL DEF Spec
-----------------------------------------------------------------------------
(* Once the worker is done with a key, its loop is the right one.          *)

Settled(k) ==
    /\ cache[k] = None => monitors[k] = None
    /\ cache[k] # None /\ cache[k].spec \in Valid =>
           /\ monitors[k] # None
           /\ loopSpec[monitors[k]] = cache[k].spec

\* What the worker has established for the key it is busy with, as long as the
\* key has not been queued again.
Progress ==
    /\ rec.pc = "idle" => rec.key = None
    /\ rec.pc = "list" /\ rec.key \notin dirty =>
           cache[rec.key] # None /\ cache[rec.key].spec = rec.obj.spec
    /\ rec.pc = "status" /\ rec.key \notin dirty /\ ~rec.requeue => Settled(rec.key)

SInv == Registry /\ SettledMonitor /\ Progress

LEMMA InitSInv == Init => SInv
<1> SUFFICES ASSUME Init PROVE SInv
  OBVIOUS
<1>1. SettledMonitor
  BY LifecycleConfig DEF Init, SettledMonitor, Quiet
<1>2. Progress
  BY DEF Init, Progress, Idle
<1> QED  BY InitRegistry, <1>1, <1>2 DEF SInv

\* A step that leaves the cache, the queue, the worker and what a key's loop
\* is alone keeps what is settled.
LEMMA SettledUnchanged ==
    ASSUME SettledMonitor, Progress, TypeOK,
           UNCHANGED <<cache, dirty, rec, monitors>>,
           \A k \in Keys : monitors[k] # None =>
                               loopSpec'[monitors[k]] = loopSpec[monitors[k]]
    PROVE  SettledMonitor' /\ Progress'
<1>1. \A k \in Keys : Settled(k) => Settled(k)'
  BY DEF Settled
<1>2. SettledMonitor'
  BY DEF SettledMonitor, Quiet
<1>3. Progress'
  BY <1>1 DEF Progress, TypeOK
<1> QED  BY <1>2, <1>3

\* Stopping or starting the loop of k settles k and leaves the others alone.
LEMMA StopSettles ==
    ASSUME TypeOK, NEW k \in Keys, StopMonitor(k)
    PROVE  /\ monitors'[k] = None
           /\ \A q \in Keys \ {k} : monitors'[q] = monitors[q]
           /\ loopSpec' = loopSpec
BY DEF StopMonitor, TypeOK

LEMMA StartSettles ==
    ASSUME TypeOK, LoopInv, NEW k \in Keys, NEW sp, StartOrUpdateMonitor(k, sp)
    PROVE  /\ monitors'[k] \in Loops /\ loopSpec'[monitors'[k]] = sp
           /\ \A q \in Keys \ {k} :
                  /\ monitors'[q] = monitors[q]
                  /\ monitors[q] # None =>
                         loopSpec'[monitors[q]] = loopSpec[monitors[q]]
<1>1. PICK new \in FreeLoops :
          /\ monitors' = [monitors EXCEPT ![k] = new]
          /\ loopSpec' = [loopSpec EXCEPT ![new] = sp]
  BY DEF StartOrUpdateMonitor
<1>2. new \in Loops /\ loopKey[new] = None
  BY <1>1 DEF FreeLoops
<1>3. \A q \in Keys : monitors[q] # None => monitors[q] # new
  BY <1>2, LifecycleConfig DEF LoopInv
<1> QED  BY <1>1, <1>2, <1>3 DEF TypeOK

LEMMA NextSettled == SInv /\ [Next]_vars => SettledMonitor' /\ Progress'
<1> SUFFICES ASSUME SInv, [Next]_vars PROVE SettledMonitor' /\ Progress'
  OBVIOUS
<1> USE DEF SInv
<1>0. TypeOK /\ LoopInv
  BY DEF Registry
<1>1. CASE UNCHANGED vars
  BY <1>0, <1>1, SettledUnchanged DEF vars, objVars, loopVars
<1>2. CASE \/ \E k \in Keys : Create(k) \/ EditSpec(k) \/ Delete(k) \/ CountAlert(k)
           \/ \E s \in Streams : StreamEnds(s) \/ StreamBreaks(s)
  BY <1>0, <1>2, SettledUnchanged
     DEF Create, EditSpec, Delete, CountAlert, Write, StreamEnds, StreamBreaks, Ended,
         objVars, loopVars
<1>3. ASSUME NEW l \in Loops, Tick(l) PROVE SettledMonitor' /\ Progress'
  BY <1>0, <1>3, SettledUnchanged DEF Tick, objVars
<1>4. ASSUME NEW l \in Loops, LoopExit(l) PROVE SettledMonitor' /\ Progress'
  <2>1. \A k \in Keys : monitors[k] # None => monitors[k] # l
    BY <1>0, <1>4 DEF LoopExit, LoopInv
  <2>2. \A k \in Keys : monitors[k] # None =>
            loopSpec'[monitors[k]] = loopSpec[monitors[k]]
    BY <1>0, <1>4, <2>1 DEF LoopExit, TypeOK
  <2> QED  BY <1>0, <1>4, <2>2, SettledUnchanged DEF LoopExit, objVars
<1>5. ASSUME NEW k \in Keys, Informer(k) PROVE SettledMonitor' /\ Progress'
  <2>1. /\ \A q \in Keys \ {k} : cache'[q] = cache[q]
        /\ dirty' = dirty \cup {k}
        /\ UNCHANGED <<rec, monitors, loopSpec>>
    BY <1>0, <1>5 DEF Informer, TypeOK, loopVars
  <2>2. SettledMonitor'
    BY <2>1 DEF SettledMonitor, Quiet
  <2>3. Progress'
    BY <1>0, <2>1 DEF Progress, Settled, TypeOK
  <2> QED  BY <2>2, <2>3
<1>6. ASSUME NEW k \in Keys, Dequeue(k) PROVE SettledMonitor' /\ Progress'
  <2>1. /\ rec.pc = "idle" /\ rec'.pc = "get" /\ rec'.key = k
        /\ dirty' = dirty \ {k}
        /\ UNCHANGED <<cache, monitors, loopSpec>>
    BY <1>6 DEF Dequeue, Idle, objVars, loopVars
  <2>2. rec.key = None
    BY <2>1 DEF Progress
  <2>3. SettledMonitor'
    BY <2>1, <2>2, LifecycleConfig DEF SettledMonitor, Quiet
  <2>4. Progress'
    BY <2>1 DEF Progress
  <2> QED  BY <2>3, <2>4
<1>7. ASSUME NEW p \in Pods, NEW ph \in Phases, PodChange(p, ph)
      PROVE  SettledMonitor' /\ Progress'
  <2>1. dirty \subseteq dirty' /\ UNCHANGED <<cache, rec, monitors, loopSpec>>
    BY <1>7 DEF PodChange, objVars, loopVars
  <2> QED  BY <2>1 DEF SettledMonitor, Quiet, Progress, Settled
<1>8. CASE GetNotFound
  <2>1. /\ rec.key \in Keys /\ cache[rec.key] = None /\ rec' = Idle
        /\ StopMonitor(rec.key) /\ UNCHANGED <<cache, dirty>>
    BY <1>0, <1>8 DEF GetNotFound, TypeOK, objVars
  <2>2. /\ monitors'[rec.key] = None
        /\ \A q \in Keys \ {rec.key} : monitors'[q] = monitors[q]
        /\ loopSpec' = loopSpec
    BY <1>0, <2>1, StopSettles
  <2>3. SettledMonitor'
    BY <2>1, <2>2 DEF SettledMonitor, Quiet
  <2>4. Progress'
    BY <2>1 DEF Progress, Idle
  <2> QED  BY <2>3, <2>4
<1>9. CASE GetFails
  <2>1. /\ rec' = Idle /\ dirty' = dirty \cup {rec.key}
        /\ UNCHANGED <<cache, monitors, loopSpec>>
    BY <1>9 DEF GetFails, objVars, loopVars
  <2>2. SettledMonitor'
    BY <2>1 DEF SettledMonitor, Quiet
  <2>3. Progress'
    BY <2>1 DEF Progress, Idle
  <2> QED  BY <2>2, <2>3
<1>10. CASE GetInvalid
  <2>1. /\ rec.key \in Keys /\ rec \in Rec /\ cache[rec.key] # None
        /\ cache[rec.key] \in Obj /\ cache[rec.key].spec \notin Valid
        /\ Settle(cache[rec.key],
                  [cache[rec.key] EXCEPT !.ready = "InvalidSelector"], FALSE)
        /\ UNCHANGED <<cache, dirty, monitors, loopSpec>>
    BY <1>0, <1>10 DEF GetInvalid, TypeOK, objVars, loopVars
  <2>2. rec'.pc = "status" /\ rec'.key = rec.key
    BY <2>1 DEF Settle, Rec
  <2>3. SettledMonitor'
    BY <2>1, <2>2 DEF SettledMonitor, Quiet
  <2>4. Progress'
    BY <2>1, <2>2 DEF Progress, Settled
  <2> QED  BY <2>3, <2>4
<1>11. CASE GetValid
  <2>1. /\ rec \in Rec /\ rec.key \in Keys /\ cache[rec.key] # None
        /\ rec' = [rec EXCEPT !.pc = "list", !.obj = cache[rec.key]]
        /\ UNCHANGED <<cache, dirty, monitors, loopSpec>>
    BY <1>0, <1>11 DEF GetValid, TypeOK, objVars, loopVars
  <2>2. rec'.pc = "list" /\ rec'.key = rec.key /\ rec'.obj = cache[rec.key]
    BY <2>1 DEF Rec
  <2>3. SettledMonitor'
    BY <2>1, <2>2 DEF SettledMonitor, Quiet
  <2>4. Progress'
    BY <2>1, <2>2 DEF Progress
  <2> QED  BY <2>3, <2>4
<1>12. CASE ListFails
  <2>1. /\ rec \in Rec
        /\ Settle(rec.obj, [rec.obj EXCEPT !.ready = "ListPodsFailed"], TRUE)
        /\ UNCHANGED <<cache, dirty, monitors, loopSpec>>
    BY <1>0, <1>12 DEF ListFails, TypeOK, objVars, loopVars
  <2>2. rec'.pc = "status" /\ rec'.key = rec.key /\ rec'.requeue = TRUE
    BY <2>1 DEF Settle, Rec
  <2>3. SettledMonitor'
    BY <2>1, <2>2 DEF SettledMonitor, Quiet
  <2>4. Progress'
    BY <2>1, <2>2 DEF Progress
  <2> QED  BY <2>3, <2>4
<1>13. CASE ListOk
  <2> DEFINE k == rec.key
             sp == rec.obj.spec
  <2>1. /\ rec \in Rec /\ k \in Keys /\ rec.pc = "list" /\ sp \in Valid
        /\ StartOrUpdateMonitor(k, sp)
        /\ UNCHANGED <<cache, dirty>>
    BY <1>0, <1>13 DEF ListOk, TypeOK, objVars, Registry, WorkerInv
  <2>2. rec'.pc = "status" /\ rec'.key = k
    BY <1>13, <2>1 DEF ListOk, Settle, Rec
  <2>3. k \notin dirty => cache[k] # None /\ cache[k].spec = sp
    BY <2>1 DEF Progress
  <2> HIDE DEF k, sp
  <2>4. /\ monitors'[k] \in Loops /\ loopSpec'[monitors'[k]] = sp
        /\ \A q \in Keys \ {k} :
               /\ monitors'[q] = monitors[q]
               /\ monitors[q] # None => loopSpec'[monitors[q]] = loopSpec[monitors[q]]
    BY <1>0, <2>1, StartSettles
  <2>5. SettledMonitor'
    BY <2>1, <2>2, <2>4 DEF SettledMonitor, Quiet, k
  <2>6. k \notin dirty => /\ cache'[k] # None /\ monitors'[k] # None
                          /\ loopSpec'[monitors'[k]] = cache'[k].spec
    BY <2>1, <2>3, <2>4, LifecycleConfig
  <2>7. Progress'
    BY <2>1, <2>2, <2>6 DEF Progress, Settled
  <2> QED  BY <2>5, <2>7
<1>14. CASE StatusSame \/ StatusUpdated \/ StatusConflict \/ StatusFails
  <2>1. /\ rec.pc = "status" /\ rec' = Idle /\ rec.key \in Keys /\ rec \in Rec
        /\ dirty' = IF rec.requeue THEN dirty \cup {rec.key} ELSE dirty
        /\ UNCHANGED <<cache, monitors, loopSpec>>
    BY <1>0, <1>14 DEF StatusSame, StatusUpdated, StatusConflict, StatusFails, Finish,
       TypeOK, loopVars
  <2>2. rec.key \notin dirty' => Settled(rec.key)
    BY <2>1 DEF Progress
  <2>3. SettledMonitor'
    BY <2>1, <2>2 DEF SettledMonitor, Settled, Quiet
  <2>4. Progress'
    BY <2>1 DEF Progress, Idle
  <2> QED  BY <2>3, <2>4
<1>15. CASE Restart
  <2>1. /\ \A k \in Keys : monitors'[k] = None /\ (cache'[k] # None => k \in dirty')
        /\ rec'.pc = "idle" /\ rec'.key = None
    BY <1>15 DEF Restart, Idle
  <2> QED  BY <2>1 DEF SettledMonitor, Quiet, Progress
<1> QED  BY <1>1, <1>2, <1>3, <1>4, <1>5, <1>6, <1>7, <1>8, <1>9, <1>10, <1>11, <1>12,
             <1>13, <1>14, <1>15 DEF Next, Reconcile

\* Once the worker is done with a MonitorPod and nothing is queued for it, its
\* loop runs the cached spec, or there is none when the MonitorPod is gone.
THEOREM SettledMonitorHolds == Spec => []SettledMonitor
<1>1. SInv /\ [Next]_vars => SInv'
  BY NextRegistry, NextSettled DEF SInv
<1>2. SInv => SettledMonitor
  BY DEF SInv
<1> QED  BY InitSInv, <1>1, <1>2, PTL DEF Spec
-----------------------------------------------------------------------------
(* The status is in the end the right one.  No write need succeed for that, *)
(* only be noticed: Tracked says who will see to the status of a key.       *)

\* The status of o says what its spec and the Pods call for.
Right(o) ==
    IF o.spec \in Valid
    THEN o.ready = "SetupComplete" /\ o.count = Cardinality(Listed(o.spec))
    ELSE o.ready = "InvalidSelector"

\* The worker is about to write a right status, computed from what the cache
\* holds; if there is nothing to write, the cache already has it.
Announced(k) ==
    /\ cache[k] # None
    /\ cache[k].spec = rec.obj.spec /\ cache[k].rv = rec.obj.rv
    /\ Right(rec.obj)
    /\ ~rec.changed => cache[k].ready = rec.obj.ready /\ cache[k].count = rec.obj.count

\* k is queued, or the worker is busy with it and works on what the cache
\* holds, or an event for it is on its way, or its status is right or lost.
Tracked(k) ==
    \/ k \in dirty
    \/ rec.key = k /\ rec.pc = "get"
    \/ rec.key = k /\ rec.pc = "list" /\ rec.obj = cache[k]
    \/ rec.key = k /\ rec.pc = "status" /\ (rec.requeue \/ Announced(k))
    \/ /\ rec.key # k
       /\ cache[k] = None \/ cache[k] # api[k] \/ k \in lostStatus \/ Right(cache[k])

AllTracked == \A k \in Keys : Tracked(k)

\* What keeps a key tracked in a step that leaves its request alone.
LEMMA TrackedStays ==
    ASSUME NEW k \in Keys, Tracked(k),
           dirty \subseteq dirty', UNCHANGED <<rec, cache, pods>>,
           k \in lostStatus => k \in lostStatus',
           cache[k] # None /\ cache[k] # api[k] => cache[k] # api'[k]
    PROVE  Tracked(k)'
BY DEF Tracked, Announced, Right, Listed, Matching

LEMMA TrackedOther ==
    ASSUME NEW k \in Keys, Tracked(k), k # rec.key, k # rec'.key,
           dirty \ {rec'.key} \subseteq dirty', UNCHANGED <<cache, pods>>,
           k \in lostStatus => k \in lostStatus',
           cache[k] # None /\ cache[k] # api[k] => cache[k] # api'[k]
    PROVE  Tracked(k)'
BY DEF Tracked, Right, Listed, Matching

\* The initial states track every key.
LEMMA InitTracked == Init => AllTracked
BY LifecycleConfig DEF Init, AllTracked, Tracked, Idle

\* Users and the counting of alerts: what they write, the cache does not hold.
LEMMA WriteTracked ==
    ASSUME Registry, AllTracked, NEW k \in Keys,
           Create(k) \/ EditSpec(k) \/ Delete(k) \/ CountAlert(k)
    PROVE  AllTracked'
<1>0. TypeOK
  BY DEF Registry
<1>1. NewRv(k) \in Nat /\ (cache[k] # None => NewRv(k) # cache[k].rv)
  BY NewRvFresh
<1>2. PICK o : /\ Write(k, o)
               /\ o = None \/ o.rv = NewRv(k)
  <2>1. \A s \in Specs : NewObj(s, NewRv(k)).rv = NewRv(k)
    BY DEF NewObj
  <2>2. api[k] # None => api[k] \in Obj
    BY <1>0 DEF TypeOK
  <2>3. ASSUME api[k] # None, NEW s \in Specs
        PROVE  [api[k] EXCEPT !.spec = s, !.rv = NewRv(k)].rv = NewRv(k)
    BY <2>2, <2>3 DEF Obj
  <2>4. api[k] # None => [api[k] EXCEPT !.rv = NewRv(k)].rv = NewRv(k)
    BY <2>2 DEF Obj
  <2> QED  BY <2>1, <2>3, <2>4 DEF Create, EditSpec, Delete, CountAlert
<1>3. /\ api'[k] = o /\ \A q \in Keys \ {k} : api'[q] = api[q]
      /\ UNCHANGED <<cache, pods, dirty, rec, lostStatus>>
  BY <1>0, <1>2 DEF Write, TypeOK
<1>4. cache[k] # None => cache[k] # api'[k]
  BY <1>1, <1>2, <1>3
<1> QED  BY <1>3, <1>4, TrackedStays DEF AllTracked

\* The informers queue whom their news concerns: a Pod that comes or goes
\* changes what is right for its watchers only.
LEMMA InformerTracked ==
    ASSUME TypeOK, AllTracked, NEW k \in Keys, Informer(k)
    PROVE  AllTracked'
<1>1. /\ \A q \in Keys \ {k} : cache'[q] = cache[q]
      /\ dirty' = dirty \cup {k}
      /\ UNCHANGED <<rec, pods, api, lostStatus>>
  BY DEF Informer, TypeOK
<1>2. ASSUME NEW q \in Keys \ {k} PROVE Tracked(q)'
  <2>1. Tracked(q)
    BY DEF AllTracked
  <2> QED  BY <1>1, <2>1 DEF Tracked, Announced, Right, Listed, Matching
<1>3. Tracked(k)'
  BY <1>1 DEF Tracked
<1> QED  BY <1>2, <1>3 DEF AllTracked

LEMMA PodTracked ==
    ASSUME TypeOK, Progress, AllTracked, NEW p \in Pods, NEW ph \in Phases, PodChange(p, ph)
    PROVE  AllTracked'
<1>1. /\ \A q \in Pods \ {p} : pods'[q] = pods[q]
      /\ dirty' = dirty \cup Watchers(p)
      /\ UNCHANGED <<rec, api, cache, lostStatus>>
  BY DEF PodChange, TypeOK, objVars
<1>2. ASSUME NEW s \in Valid, p \notin Matching(s) PROVE Listed(s)' = Listed(s)
  BY <1>1, <1>2, LifecycleConfig DEF Listed, Matching
<1>3. ASSUME NEW k \in Keys PROVE Tracked(k)'
  <2>1. CASE k \in dirty \/ k \in Watchers(p)
    BY <1>1, <2>1 DEF Tracked
  <2>2. CASE k \notin dirty /\ k \notin Watchers(p)
    <3>1. Tracked(k)
      BY DEF AllTracked
    <3>2. cache[k] # None /\ cache[k].spec \in Valid => p \notin Matching(cache[k].spec)
      BY <2>2 DEF Watchers
    <3>3. cache[k] # None /\ Right(cache[k]) => Right(cache[k])'
      BY <1>1, <1>2, <3>2 DEF Right
    <3>4. Announced(k) => Announced(k)'
      BY <1>1, <1>2, <3>2 DEF Right, Announced
    <3> QED  BY <1>1, <2>2, <3>1, <3>3, <3>4 DEF Tracked
  <2> QED  BY <2>1, <2>2
<1> QED  BY <1>3 DEF AllTracked

\* The worker takes a request up, reads the object, and lists the Pods; each
\* time what it works on is what the cache holds, or an event is on its way.
LEMMA DequeueTracked ==
    ASSUME TypeOK, Progress, AllTracked, NEW k \in Keys, Dequeue(k)
    PROVE  AllTracked'
<1>1. /\ rec.key = None /\ rec'.pc = "get" /\ rec'.key = k
      /\ dirty' = dirty \ {k}
      /\ UNCHANGED <<cache, pods, api, lostStatus>>
  BY DEF Dequeue, Progress, Idle, objVars
<1>2. Tracked(k)'
  BY <1>1 DEF Tracked
<1>3. \A q \in Keys \ {k} : Tracked(q)'
  BY <1>1, TrackedOther, LifecycleConfig DEF AllTracked
<1> QED  BY <1>2, <1>3 DEF AllTracked

LEMMA GetEndsTracked ==
    ASSUME TypeOK, AllTracked, GetNotFound \/ GetFails
    PROVE  AllTracked'
<1>1. PICK k \in Keys : rec.key = k
  BY DEF GetNotFound, GetFails, TypeOK
<1>2. /\ rec'.key = None
      /\ dirty \subseteq dirty' /\ (k \in dirty' \/ cache[k] = None)
      /\ UNCHANGED <<cache, pods, api, lostStatus>>
  BY <1>1 DEF GetNotFound, GetFails, Idle, objVars
<1>3. Tracked(k)'
  BY <1>2, LifecycleConfig DEF Tracked
<1>4. \A q \in Keys \ {k} : Tracked(q)'
  BY <1>1, <1>2, TrackedOther, LifecycleConfig DEF AllTracked
<1> QED  BY <1>3, <1>4 DEF AllTracked

LEMMA GetTracked ==
    ASSUME TypeOK, AllTracked, GetInvalid \/ GetValid
    PROVE  AllTracked'
<1>1. PICK k \in Keys : rec.key = k
  BY DEF GetInvalid, GetValid, TypeOK
<1>2. /\ rec \in Rec /\ cache[k] # None /\ cache[k] \in Obj
      /\ UNCHANGED <<cache, pods, dirty, api, lostStatus>>
  BY <1>1 DEF GetInvalid, GetValid, TypeOK, objVars
<1>3. Tracked(k)' /\ rec'.key = k
  <2>1. CASE GetValid
    <3>1. rec'.pc = "list" /\ rec'.key = k /\ rec'.obj = cache[k]
      BY <1>1, <1>2, <2>1 DEF GetValid, Rec
    <3> QED  BY <1>2, <3>1 DEF Tracked
  <2>2. CASE GetInvalid
    <3>1. PICK o : /\ Settle(cache[k], o, FALSE)
                   /\ o.spec = cache[k].spec /\ o.rv = cache[k].rv
                   /\ o.count = cache[k].count /\ o.ready = "InvalidSelector"
                   /\ o.spec \notin Valid
      <4>1. [cache[k] EXCEPT !.ready = "InvalidSelector"] \in
                [rv : {cache[k].rv}, spec : {cache[k].spec},
                 ready : {"InvalidSelector"}, count : {cache[k].count}]
        BY <1>2 DEF Obj
      <4> QED  BY <1>1, <2>2, <4>1 DEF GetInvalid
    <3>2. /\ rec'.pc = "status" /\ rec'.key = k /\ rec'.obj = o
          /\ rec'.changed = (o.ready # cache[k].ready \/ o.count # cache[k].count)
      BY <1>1, <1>2, <3>1 DEF Settle, Rec
    <3>3. Announced(k)'
      BY <1>2, <3>1, <3>2 DEF Announced, Right
    <3> QED  BY <3>2, <3>3 DEF Tracked
  <2> QED  BY <2>1, <2>2
<1>4. \A q \in Keys \ {k} : Tracked(q)'
  BY <1>1, <1>2, <1>3, TrackedOther DEF AllTracked
<1> QED  BY <1>3, <1>4 DEF AllTracked

LEMMA ListTracked ==
    ASSUME Registry, Progress, AllTracked, ListOk \/ ListFails
    PROVE  AllTracked'
<1>1. PICK k \in Keys : rec.key = k
  BY DEF ListOk, ListFails, Registry, TypeOK
<1>2. PICK read \in Obj : rec.obj = read
  BY DEF ListOk, ListFails, Registry, TypeOK
<1>3. /\ rec \in Rec /\ rec.pc = "list" /\ read.spec \in Valid
      /\ UNCHANGED <<cache, pods, dirty, api, lostStatus>>
  BY <1>2 DEF ListOk, ListFails, Registry, WorkerInv, TypeOK, objVars
<1>4. Tracked(k)' /\ rec'.key = k
  <2>1. CASE ListFails
    <3>1. rec'.pc = "status" /\ rec'.key = k /\ rec'.requeue = TRUE
      BY <1>1, <1>3, <2>1 DEF ListFails, Settle, Rec
    <3> QED  BY <3>1 DEF Tracked
  <2>2. CASE ListOk
    <3>1. PICK o : /\ Settle(read, o, FALSE)
                   /\ o.spec = read.spec /\ o.rv = read.rv
                   /\ o.ready = "SetupComplete"
                   /\ o.count = Cardinality(Listed(read.spec))
      <4> DEFINE n == Cardinality(Listed(read.spec))
      <4>1. [read EXCEPT !.ready = "SetupComplete", !.count = n] \in
                [rv : {read.rv}, spec : {read.spec}, ready : {"SetupComplete"}, count : {n}]
        BY <1>2 DEF Obj
      <4>2. Settle(read, [read EXCEPT !.ready = "SetupComplete", !.count = n], FALSE)
        BY <1>2, <2>2 DEF ListOk
      <4> HIDE DEF n
      <4>3. PICK o : /\ Settle(read, o, FALSE)
                     /\ o.spec = read.spec /\ o.rv = read.rv
                     /\ o.ready = "SetupComplete" /\ o.count = n
        BY <4>1, <4>2
      <4> QED  BY <4>3 DEF n
    <3>2. /\ rec'.pc = "status" /\ rec'.key = k /\ rec'.obj = o
          /\ rec'.changed = (o.ready # read.ready \/ o.count # read.count)
      BY <1>1, <1>3, <3>1 DEF Settle, Rec
    <3>3. CASE k \in dirty
      BY <1>3, <3>2, <3>3 DEF Tracked
    <3>4. CASE k \notin dirty
      <4>1. read = cache[k] /\ cache[k] # None
        BY <1>1, <1>2, <1>3, <3>4 DEF AllTracked, Tracked, Progress
      <4>2. Right(o)'
        BY <1>3, <3>1 DEF Right, Listed, Matching
      <4>3. Announced(k)'
        BY <1>3, <3>1, <3>2, <4>1, <4>2 DEF Announced
      <4> QED  BY <3>2, <4>3 DEF Tracked
    <3> QED  BY <3>2, <3>3, <3>4
  <2> QED  BY <2>1, <2>2
<1>5. \A q \in Keys \ {k} : Tracked(q)'
  BY <1>1, <1>3, <1>4, TrackedOther DEF AllTracked
<1> QED  BY <1>4, <1>5 DEF AllTracked

\* The worker is done: the status is written or need not be, or somebody else
\* has written in between and an event is on its way, or the write failed.
LEMMA StatusTracked ==
    ASSUME TypeOK, AllTracked,
           StatusSame \/ StatusUpdated \/ StatusConflict \/ StatusFails
    PROVE  AllTracked'
<1>1. PICK k \in Keys : rec.key = k
  BY DEF StatusSame, StatusUpdated, StatusConflict, StatusFails, TypeOK
<1>2. /\ rec.pc = "status" /\ rec'.key = None /\ rec.obj \in Obj
      /\ dirty \subseteq dirty' /\ (rec.requeue => k \in dirty')
      /\ UNCHANGED <<cache, pods>>
      /\ \A q \in Keys \ {k} : q \in lostStatus => q \in lostStatus'
      /\ \A q \in Keys \ {k} : api'[q] = api[q]
  BY <1>1 DEF StatusSame, StatusUpdated, StatusConflict, StatusFails, Finish, Idle, TypeOK
<1>3. Announced(k) => cache[k] # api'[k] \/ k \in lostStatus' \/ Right(cache[k])
  <2>1. CASE StatusSame
    BY <2>1 DEF StatusSame, Announced, Right
  <2>2. CASE StatusUpdated
    <3>1. api'[k] = [rec.obj EXCEPT !.rv = NewRv(k)]
      BY <1>1, <2>2 DEF StatusUpdated, TypeOK
    <3>2. api'[k].rv = NewRv(k)
      BY <1>2, <3>1 DEF Obj
    <3> QED  BY <3>2, NewRvFresh DEF Announced
  <2>3. CASE StatusConflict
    BY <1>1, <2>3 DEF StatusConflict, Current, Announced
  <2>4. CASE StatusFails
    BY <1>1, <2>4 DEF StatusFails
  <2> QED  BY <2>1, <2>2, <2>3, <2>4
<1>4. Right(cache[k]) => Right(cache[k])'
  BY <1>2 DEF Right, Listed, Matching
<1>5. Tracked(k)'
  BY <1>1, <1>2, <1>3, <1>4, LifecycleConfig DEF AllTracked, Tracked
<1>6. \A q \in Keys \ {k} : Tracked(q)'
  BY <1>1, <1>2, TrackedOther, LifecycleConfig DEF AllTracked
<1> QED  BY <1>5, <1>6 DEF AllTracked

LEMMA NextTracked == SInv /\ AllTracked /\ [Next]_vars => AllTracked'
<1> SUFFICES ASSUME SInv, AllTracked, [Next]_vars PROVE AllTracked'
  OBVIOUS
<1>0. TypeOK /\ Registry /\ Progress
  BY DEF SInv, Registry
<1>1. CASE \/ UNCHANGED vars
           \/ \E l \in Loops : Tick(l) \/ LoopExit(l)
           \/ \E s \in Streams : StreamEnds(s) \/ StreamBreaks(s)
  <2>1. UNCHANGED <<rec, cache, pods, dirty, api, lostStatus>>
    BY <1>1 DEF vars, objVars, Tick, LoopExit, StreamEnds, StreamBreaks, Ended
  <2> QED  BY <2>1, TrackedStays DEF AllTracked
<1>2. CASE \E k \in Keys : Create(k) \/ EditSpec(k) \/ Delete(k) \/ CountAlert(k)
  BY <1>0, <1>2, WriteTracked
<1>3. CASE \/ \E k \in Keys : Informer(k) \/ Dequeue(k)
           \/ \E p \in Pods, ph \in Phases : PodChange(p, ph)
  BY <1>0, <1>3, InformerTracked, DequeueTracked, PodTracked
<1>4. CASE Reconcile \/ GetFails \/ ListFails \/ StatusFails
  BY <1>0, <1>4, GetEndsTracked, GetTracked, ListTracked, StatusTracked DEF Reconcile
<1>5. CASE Restart
  <2>1. /\ rec'.key = None /\ cache' = api
        /\ \A k \in Keys : api[k] # None => k \in dirty'
    BY <1>5 DEF Restart, Idle
  <2> QED  BY <2>1, LifecycleConfig DEF AllTracked, Tracked
<1> QED  BY <1>1, <1>2, <1>3, <1>4, <1>5 DEF Next

\* Once a MonitorPod is quiet and its cache has caught up, its status says what
\* its spec and Pods call for, unless the last update failed other than by a
\* conflict: of any number of conflicts, edits, Pod events and restarts, none
\* leaves a wrong status behind.
THEOREM SettledStatusHolds == Spec => []SettledStatus
<1>1. Init => SInv /\ AllTracked
  BY InitSInv, InitTracked
<1>2. SInv /\ AllTracked /\ [Next]_vars => (SInv /\ AllTracked)'
  BY NextRegistry, NextSettled, NextTracked DEF SInv
<1>3. SInv /\ AllTracked => SettledStatus
  BY DEF AllTracked, Tracked, SettledStatus, Quiet, Right
<1> QED  BY <1>1, <1>2, <1>3, PTL DEF Spec
-----------------------------------------------------------------------------
(* MonitorLifecycle implements PodReading.  Beyond Registry that needs what *)
(* an entry of activePodMonitors refers to: the stream that was started for *)
(* it or one that has returned, never one of another loop or Pod that got   *)
(* the same identity.                                                       *)

EntryInv ==
    \A l \in Loops, p \in Pods :
        active[l][p] # None /\ Living(active[l][p]) =>
            strLoop[active[l][p]] = l /\ strPod[active[l][p]] = p

RInv == Registry /\ EntryInv

\* What a tick does to the streams: those it starts were free, and of the
\* others only entries of its own loop are cancelled.
LEMMA TickStreams ==
    ASSUME Registry, NEW l \in Loops, Tick(l)
    PROVE  \E f \in [Fresh(l) -> FreeStreams] :
              /\ Fresh(l) \subseteq Pods
              /\ \A p \in Fresh(l) :
                    /\ f[p] \in Streams /\ ~Living(f[p])
                    /\ \A m \in Loops, q \in Pods : active[m][q] # f[p]
                    /\ strKey'[f[p]] = loopKey[l] /\ strPod'[f[p]] = p
                    /\ strLoop'[f[p]] = l /\ active'[l][p] = f[p]
                    /\ l \in loopDone => f[p] \in strDone'
              /\ \A s \in Streams : (\A p \in Fresh(l) : f[p] # s) =>
                    /\ strKey'[s] = strKey[s] /\ strPod'[s] = strPod[s]
                    /\ strLoop'[s] = strLoop[s]
                    /\ s \in strDone' <=>
                          s \in strDone \/ (Living(s) /\ \E p \in Stale(l) : active[l][p] = s)
              /\ \A p \in Pods : p \notin Fresh(l) => active'[l][p] \in {None, active[l][p]}
              /\ \A m \in Loops : m # l => active'[m] = active[m]
<1> USE DEF Registry
<1>1. PICK f \in [Fresh(l) -> FreeStreams] :
        /\ \A p, q \in Fresh(l) : f[p] = f[q] => p = q
        /\ active' = [active EXCEPT ![l] =
               [p \in Pods |-> IF p \in Fresh(l) THEN f[p]
                               ELSE IF p \in Stale(l) THEN None
                               ELSE active[l][p]]]
        /\ strKey' = [s \in Streams |->
               IF s \in {f[p] : p \in Fresh(l)} THEN loopKey[l] ELSE strKey[s]]
        /\ strPod' = [s \in Streams |->
               IF s \in {f[p] : p \in Fresh(l)}
               THEN CHOOSE p \in Fresh(l) : f[p] = s ELSE strPod[s]]
        /\ strLoop' = [s \in Streams |->
               IF s \in {f[p] : p \in Fresh(l)} THEN l ELSE strLoop[s]]
        /\ strDone' = (strDone \cup {s \in {active[l][p] : p \in Stale(l)} : Living(s)})
                      \cup (IF l \in loopDone THEN {f[p] : p \in Fresh(l)} ELSE {})
  BY DEF Tick
<1>2. loopKey[l] \in Keys /\ loopSpec[l] \in Valid
  BY DEF Tick, TypeOK, LoopInv
<1>3. Fresh(l) \subseteq Pods
  BY <1>2, LifecycleConfig DEF Fresh, Running, Matching
<1>4. \A p \in Fresh(l) : /\ f[p] \in Streams /\ ~Living(f[p])
                          /\ \A m \in Loops, q \in Pods : active[m][q] # f[p]
  BY DEF FreeStreams
<1>5. ASSUME NEW p \in Fresh(l)
      PROVE  /\ strKey'[f[p]] = loopKey[l] /\ strPod'[f[p]] = p
             /\ strLoop'[f[p]] = l /\ active'[l][p] = f[p]
             /\ l \in loopDone => f[p] \in strDone'
  <2>1. f[p] \in {f[q] : q \in Fresh(l)} /\ f[p] \in Streams
    BY <1>4
  <2>2. (CHOOSE q \in Fresh(l) : f[q] = f[p]) = p
    BY <1>1
  <2>3. active'[l][p] = f[p]
    BY <1>1, <1>3 DEF TypeOK
  <2> QED  BY <1>1, <2>1, <2>2, <2>3
<1>6. ASSUME NEW s \in Streams, \A p \in Fresh(l) : f[p] # s
      PROVE  /\ strKey'[s] = strKey[s] /\ strPod'[s] = strPod[s]
             /\ strLoop'[s] = strLoop[s]
             /\ s \in strDone' <=>
                   s \in strDone \/ (Living(s) /\ \E p \in Stale(l) : active[l][p] = s)
  BY <1>1, <1>6
<1>7. /\ \A p \in Pods : p \notin Fresh(l) => active'[l][p] \in {None, active[l][p]}
      /\ \A m \in Loops : m # l => active'[m] = active[m]
  BY <1>1 DEF TypeOK
<1> QED  BY <1>3, <1>4, <1>5, <1>6, <1>7

LEMMA TickEntries ==
    ASSUME RInv, NEW l \in Loops, Tick(l)
    PROVE  EntryInv'
<1> SUFFICES ASSUME NEW m \in Loops, NEW p \in Pods,
                    active'[m][p] # None, strKey'[active'[m][p]] # None
             PROVE  strLoop'[active'[m][p]] = m /\ strPod'[active'[m][p]] = p
  BY DEF EntryInv, Living
<1>1. PICK f \in [Fresh(l) -> FreeStreams] :
          /\ \A q \in Fresh(l) :
                /\ \A n \in Loops, r \in Pods : active[n][r] # f[q]
                /\ strPod'[f[q]] = q /\ strLoop'[f[q]] = l /\ active'[l][q] = f[q]
          /\ \A s \in Streams : (\A q \in Fresh(l) : f[q] # s) =>
                /\ strKey'[s] = strKey[s] /\ strPod'[s] = strPod[s]
                /\ strLoop'[s] = strLoop[s]
          /\ \A q \in Pods : q \notin Fresh(l) => active'[l][q] \in {None, active[l][q]}
          /\ \A n \in Loops : n # l => active'[n] = active[n]
  BY TickStreams DEF RInv
<1>2. CASE m = l /\ p \in Fresh(l)
  BY <1>1, <1>2
<1>3. CASE ~(m = l /\ p \in Fresh(l))
  <2>1. active'[m][p] = active[m][p]
    BY <1>1, <1>3
  <2>2. active[m][p] \in Streams
    BY <2>1 DEF RInv, Registry, TypeOK
  <2>3. /\ strLoop'[active[m][p]] = strLoop[active[m][p]]
        /\ strPod'[active[m][p]] = strPod[active[m][p]]
        /\ strKey'[active[m][p]] = strKey[active[m][p]]
    BY <1>1, <2>2
  <2> QED  BY <2>1, <2>3 DEF RInv, EntryInv, Living
<1> QED  BY <1>2, <1>3

LEMMA NextEntries ==
    ASSUME RInv, [Next]_vars
    PROVE  EntryInv'
<1>1. CASE UNCHANGED <<active, strKey, strPod, strLoop>>
  BY <1>1 DEF RInv, EntryInv, Living
<1>2. ASSUME NEW l \in Loops, Tick(l) PROVE EntryInv'
  BY <1>2, TickEntries
<1>3. ASSUME NEW l \in Loops, LoopExit(l) PROVE EntryInv'
  <2>1. /\ active'[l] = NoPods
        /\ \A m \in Loops : m # l => active'[m] = active[m]
        /\ UNCHANGED <<strKey, strPod, strLoop>>
    BY <1>3 DEF LoopExit, RInv, Registry, TypeOK
  <2> QED  BY <2>1 DEF RInv, EntryInv, Living, NoPods
<1>4. ASSUME NEW s \in Streams, Ended(s) PROVE EntryInv'
  <2>1. /\ strKey'[s] = None /\ active' = active
        /\ \A t \in Streams : t # s => /\ strKey'[t] = strKey[t]
                                       /\ strPod'[t] = strPod[t]
                                       /\ strLoop'[t] = strLoop[t]
    BY <1>4 DEF Ended, loopVars, RInv, Registry, TypeOK
  <2> SUFFICES ASSUME NEW l \in Loops, NEW p \in Pods,
                      active[l][p] # None, strKey'[active[l][p]] # None
               PROVE  strLoop'[active[l][p]] = l /\ strPod'[active[l][p]] = p
    BY <2>1 DEF EntryInv, Living
  <2>2. active[l][p] \in Streams /\ active[l][p] # s
    BY <2>1 DEF RInv, Registry, TypeOK
  <2> QED  BY <2>1, <2>2 DEF RInv, EntryInv, Living
<1>5. CASE Restart
  <2>1. \A l \in Loops, p \in Pods : active'[l][p] = None
    BY <1>5 DEF Restart, NoPods
  <2> QED  BY <2>1 DEF EntryInv
<1>6. CASE \/ \E k \in Keys : \/ Create(k) \/ EditSpec(k) \/ Delete(k) \/ CountAlert(k)
                              \/ Informer(k) \/ Dequeue(k)
           \/ \E p \in Pods, ph \in Phases : PodChange(p, ph)
           \/ Reconcile \/ GetFails \/ ListFails \/ StatusFails
           \/ UNCHANGED vars
  BY <1>1, <1>6
     DEF Create, EditSpec, Delete, CountAlert, Write, Informer, Dequeue, PodChange,
         Reconcile, GetNotFound, StopMonitor, GetInvalid, GetValid, ListOk,
         StartOrUpdateMonitor, StatusSame, StatusUpdated, StatusConflict,
         StatusFails, Finish, GetFails, ListFails, loopVars, strVars, vars
<1> QED
  BY <1>2, <1>3, <1>4, <1>5, <1>6 DEF Next, StreamEnds, StreamBreaks

\* What PodReading sees of a state.
told == <<[k \in Keys |-> RunningSpec(k)], [k \in Keys |-> Reading(k)],
          {p \in Pods : pods[p] = "Running"}>>

LEMMA InitTold == Init => RInv /\ PR!PRInit
<1> SUFFICES ASSUME Init PROVE RInv /\ PR!PRInit
  OBVIOUS
<1>1. EntryInv
  BY DEF Init, EntryInv, NoPods
<1>2. \A k \in Keys : RunningSpec(k) = None
  BY DEF Init, RunningSpec
<1>3. \A k \in Keys : Reading(k) = {}
  BY LifecycleConfig DEF Init, Reading, Wired, Living, NoStream
<1> QED  BY <1>1, <1>2, <1>3, InitRegistry DEF RInv, PR!PRInit

LEMMA SameTold ==
    ASSUME UNCHANGED <<monitors, loopSpec, strKey, strPod, strDone, pods>>
    PROVE  UNCHANGED told
<1>1. \A k \in Keys : RunningSpec(k)' = RunningSpec(k)
  BY DEF RunningSpec
<1>2. \A k \in Keys : Reading(k)' = Reading(k)
  BY DEF Reading, Wired, Living
<1> QED  BY <1>1, <1>2 DEF told

\* A wired stream of k hangs on the loop registered for k.
LEMMA WiredToRegistered ==
    ASSUME Registry, NEW s \in Streams, Wired(s)
    PROVE  /\ strKey[s] \in Keys /\ strPod[s] \in Pods /\ strLoop[s] \in Loops
           /\ monitors[strKey[s]] = strLoop[s] /\ loopKey[strLoop[s]] = strKey[s]
           /\ strLoop[s] \notin loopDone
           /\ active[strLoop[s]][strPod[s]] = s
BY DEF Registry, TypeOK, LoopInv, StreamInv, Wired, Living

\* Cancelling the registered loop of k ends all reading for k, and no other.
LEMMA CancelTold ==
    ASSUME Registry, NEW k \in Keys, CancelRegistered(k),
           UNCHANGED <<strKey, strPod, strLoop>>
    PROVE  /\ Reading(k)' = {}
           /\ \A q \in Keys : q # k => Reading(q)' = Reading(q)
<1>1. ASSUME NEW s \in Streams, Wired(s), strKey[s] = k PROVE ~Wired(s)'
  <2>1. monitors[k] = strLoop[s] /\ strLoop[s] # None
    BY <1>1, WiredToRegistered, LifecycleConfig
  <2>2. s \in Children(monitors[k])
    BY <1>1, <2>1 DEF Children, Wired
  <2> QED  BY <2>1, <2>2 DEF CancelRegistered, Wired
<1>2. \A s \in Streams : Wired(s)' => Wired(s)
  BY DEF CancelRegistered, Wired, Living
<1>3. ASSUME NEW s \in Streams, Wired(s), strKey[s] # k PROVE Wired(s)'
  <2>1. /\ monitors[strKey[s]] = strLoop[s] /\ strKey[s] \in Keys
        /\ loopKey[strLoop[s]] = strKey[s]
    BY <1>3, WiredToRegistered
  <2>2. monitors[k] # None => loopKey[monitors[k]] = k
    BY DEF Registry, LoopInv
  <2>3. monitors[k] # None => s \notin Children(monitors[k])
    BY <1>3, <2>1, <2>2 DEF Children
  <2> QED  BY <1>3, <2>3 DEF CancelRegistered, Wired, Living
<1>4. Reading(k)' = {}
  BY <1>1, <1>2 DEF Reading
<1>5. ASSUME NEW q \in Keys, q # k PROVE Reading(q)' = Reading(q)
  BY <1>2, <1>3, <1>5 DEF Reading
<1> QED  BY <1>4, <1>5

LEMMA StopTold ==
    ASSUME Registry, GetNotFound
    PROVE  \E k \in Keys : PR!PRSet(k)
<1> DEFINE k == rec.key
<1>1. /\ k \in Keys /\ StopMonitor(k) /\ CancelRegistered(k)
      /\ UNCHANGED <<loopSpec, strKey, strPod, strLoop, pods>>
  BY DEF GetNotFound, Registry, TypeOK, StopMonitor
<1>2. PICK q \in Keys : q = k
  BY <1>1
<1> HIDE DEF k
<1>3. monitors'[q] = None /\ \A r \in Keys : r # q => monitors'[r] = monitors[r]
  BY <1>1, <1>2 DEF StopMonitor, Registry, TypeOK
<1>4. RunningSpec(q)' = None /\ \A r \in Keys : r # q => RunningSpec(r)' = RunningSpec(r)
  BY <1>1, <1>3 DEF RunningSpec
<1>5. Reading(q)' = {} /\ \A r \in Keys : r # q => Reading(r)' = Reading(r)
  BY <1>1, <1>2, CancelTold
<1>6. PR!PRSet(q)
  <2> DEFINE running == [r \in Keys |-> RunningSpec(r)]
             reading == [r \in Keys |-> Reading(r)]
  <2>1. running' = [running EXCEPT ![q] = None]
    BY <1>4
  <2>2. reading' = [reading EXCEPT ![q] = {}]
    BY <1>5
  <2>3. running' \in {[running EXCEPT ![q] = s] : s \in (DOMAIN Selects) \cup {None}}
    BY <2>1
  <2> QED  BY <1>1, <2>2, <2>3 DEF PR!PRSet
<1> QED  BY <1>6

LEMMA StartTold ==
    ASSUME Registry, ListOk
    PROVE  \E k \in Keys : PR!PRSet(k)
<1>1. PICK q \in Keys : q = rec.key
  BY DEF ListOk, Registry, TypeOK
<1>2. PICK sp \in Valid : sp = rec.obj.spec
  BY DEF ListOk, Registry, WorkerInv
<1>3. PICK new \in FreeLoops :
          /\ CancelRegistered(q)
          /\ monitors' = [monitors EXCEPT ![q] = new]
          /\ loopSpec' = [loopSpec EXCEPT ![new] = sp]
          /\ UNCHANGED <<strKey, strPod, strLoop>>
  BY <1>1, <1>2 DEF ListOk, StartOrUpdateMonitor
<1>4. new \in Loops /\ loopKey[new] = None /\ new # None
  BY <1>3, LifecycleConfig DEF FreeLoops
<1>5. RunningSpec(q)' = sp
  <2>1. monitors'[q] = new /\ loopSpec'[new] = sp
    BY <1>3, <1>4 DEF Registry, TypeOK
  <2> QED  BY <1>4, <2>1 DEF RunningSpec
<1>6. ASSUME NEW r \in Keys, r # q PROVE RunningSpec(r)' = RunningSpec(r)
  <2>1. monitors'[r] = monitors[r]
    BY <1>3, <1>6 DEF Registry, TypeOK
  <2>2. monitors[r] # None => monitors[r] \in Loops /\ monitors[r] # new
    BY <1>4, LifecycleConfig DEF Registry, TypeOK, LoopInv
  <2>3. monitors[r] # None => loopSpec'[monitors[r]] = loopSpec[monitors[r]]
    BY <1>3, <2>2 DEF Registry, TypeOK
  <2> QED  BY <2>1, <2>3 DEF RunningSpec
<1>7. Reading(q)' = {} /\ \A r \in Keys : r # q => Reading(r)' = Reading(r)
  BY <1>3, CancelTold
<1>8. PR!PRSet(q)
  <2> DEFINE running == [r \in Keys |-> RunningSpec(r)]
             reading == [r \in Keys |-> Reading(r)]
  <2>1. running' = [running EXCEPT ![q] = sp]
    BY <1>5, <1>6
  <2>2. reading' = [reading EXCEPT ![q] = {}]
    BY <1>7
  <2>3. running' \in {[running EXCEPT ![q] = s] : s \in (DOMAIN Selects) \cup {None}}
    BY <2>1 DEF Valid
  <2> QED  BY <2>2, <2>3 DEF PR!PRSet, ListOk
<1> QED  BY <1>8

\* A stream that is wired, and not of loop l, is none of its entries; one that
\* is, is the entry of its own Pod.
LEMMA WiredEntry ==
    ASSUME RInv, NEW s \in Streams, Wired(s), NEW l \in Loops, NEW p \in Pods,
           active[l][p] = s
    PROVE  strLoop[s] = l /\ strPod[s] = p
BY LifecycleConfig DEF RInv, EntryInv, Wired

\* A tick of a loop that is cancelled shows in nothing.
LEMMA CancelledTickTold ==
    ASSUME RInv, NEW l \in Loops, Tick(l), l \in loopDone
    PROVE  UNCHANGED told
<1>1. PICK f \in [Fresh(l) -> FreeStreams] :
          /\ \A p \in Fresh(l) : ~Living(f[p]) /\ f[p] \in strDone'
          /\ \A s \in Streams : (\A p \in Fresh(l) : f[p] # s) =>
                /\ strKey'[s] = strKey[s] /\ strPod'[s] = strPod[s]
                /\ s \in strDone' <=>
                      s \in strDone \/ (Living(s) /\ \E p \in Stale(l) : active[l][p] = s)
  BY TickStreams DEF RInv
<1>2. ASSUME NEW s \in Streams
      PROVE  /\ Wired(s)' <=> Wired(s)
             /\ Wired(s) => strKey'[s] = strKey[s] /\ strPod'[s] = strPod[s]
  <2>1. CASE \E p \in Fresh(l) : f[p] = s
    BY <1>1, <2>1 DEF Wired
  <2>2. CASE ~\E p \in Fresh(l) : f[p] = s
    <3>1. Wired(s) => ~\E p \in Stale(l) : active[l][p] = s
      BY WiredEntry, WiredToRegistered DEF RInv, Stale
    <3> QED  BY <1>1, <2>2, <3>1 DEF Wired, Living
  <2> QED  BY <2>1, <2>2
<1>3. \A k \in Keys : Reading(k)' = Reading(k)
  BY <1>2 DEF Reading
<1>4. UNCHANGED <<monitors, loopSpec, pods>>
  BY DEF Tick
<1> QED  BY <1>3, <1>4 DEF told, RunningSpec

\* A tick of the loop that is registered is a round: every wired stream it
\* leaves is for a Pod its spec wants, and it leaves all of those.
LEMMA TickTold ==
    ASSUME RInv, NEW l \in Loops, Tick(l), l \notin loopDone
    PROVE  \E k \in Keys : PR!PRRound(k)
<1> DEFINE wanted == Selects[loopSpec[l]] \cap {p \in Pods : pods[p] = "Running"}
<1>1. PICK k \in Keys : k = loopKey[l]
  BY DEF Tick, RInv, Registry, TypeOK
<1>2. monitors[k] = l /\ l # None /\ k # None /\ RunningSpec(k) = loopSpec[l]
  BY <1>1, LifecycleConfig DEF RInv, Registry, LoopInv, RunningSpec
<1>3. wanted = Running(l)
  <2>1. Selects[loopSpec[l]] \subseteq Pods
    BY <1>1, <1>2, LifecycleConfig DEF RInv, Registry, LoopInv
  <2> QED  BY <2>1 DEF Running, Matching
<1>4. PICK f \in [Fresh(l) -> FreeStreams] :
          /\ Fresh(l) \subseteq Pods
          /\ \A p \in Fresh(l) : ~Living(f[p]) /\ strKey'[f[p]] = k /\ strPod'[f[p]] = p
          /\ \A s \in Streams : (\A p \in Fresh(l) : f[p] # s) =>
                /\ strKey'[s] = strKey[s] /\ strPod'[s] = strPod[s]
                /\ s \in strDone' <=>
                      s \in strDone \/ (Living(s) /\ \E p \in Stale(l) : active[l][p] = s)
  BY <1>1, TickStreams DEF RInv
<1> HIDE DEF wanted
<1>5. ASSUME NEW s \in Streams, Wired(s)
      PROVE  /\ strKey'[s] = strKey[s] /\ strPod'[s] = strPod[s]
             /\ Wired(s)' <=> (strKey[s] = k => strPod[s] \in wanted)
  <2>1. ~\E p \in Fresh(l) : f[p] = s
    BY <1>4, <1>5 DEF Wired
  <2>2. /\ strLoop[s] \in Loops /\ strPod[s] \in Pods /\ strKey[s] \in Keys
        /\ active[strLoop[s]][strPod[s]] = s /\ monitors[strKey[s]] = strLoop[s]
        /\ loopKey[strLoop[s]] = strKey[s]
    BY <1>5, WiredToRegistered DEF RInv
  <2>3. (\E p \in Stale(l) : active[l][p] = s) <=> strKey[s] = k /\ strPod[s] \notin wanted
    <3>1. ASSUME NEW p \in Stale(l), active[l][p] = s
          PROVE  strKey[s] = k /\ strPod[s] \notin wanted
      <4>1. p \in Pods /\ p \notin Running(l)
        BY DEF Stale
      <4>2. strLoop[s] = l /\ strPod[s] = p
        BY <1>5, <3>1, <4>1, WiredEntry
      <4> QED  BY <1>1, <1>3, <2>2, <4>1, <4>2
    <3>2. ASSUME strKey[s] = k, strPod[s] \notin wanted
          PROVE  strPod[s] \in Stale(l) /\ active[l][strPod[s]] = s
      BY <1>2, <1>3, <2>2, <3>2, LifecycleConfig DEF Stale
    <3> QED  BY <3>1, <3>2
  <2> QED  BY <1>4, <1>5, <2>1, <2>3 DEF Wired, Living
<1>6. ASSUME NEW s \in Streams, Wired(s)', ~Wired(s)
      PROVE  strKey'[s] = k /\ strPod'[s] \in wanted
  <2>1. PICK p \in Fresh(l) : f[p] = s
    BY <1>4, <1>6 DEF Wired, Living
  <2> QED  BY <1>3, <1>4, <2>1 DEF Fresh
<1>7. ASSUME NEW q \in Keys, q # k PROVE Reading(q)' = Reading(q)
  BY <1>5, <1>6, <1>7 DEF Reading
<1>8. Reading(k)' \subseteq wanted
  <2> SUFFICES ASSUME NEW s \in Streams, Wired(s)', strKey'[s] = k
               PROVE  strPod'[s] \in wanted
    BY DEF Reading
  <2> QED  BY <1>5, <1>6
<1>9. Reading(k) \cap wanted \subseteq Reading(k)'
  <2> SUFFICES ASSUME NEW s \in Streams, Wired(s), strKey[s] = k, strPod[s] \in wanted
               PROVE  strPod[s] \in Reading(k)'
    BY DEF Reading
  <2>1. Wired(s)' /\ strKey'[s] = k /\ strPod'[s] = strPod[s]
    BY <1>5
  <2> QED  BY <2>1 DEF Reading
<1>10. PR!PRRound(k)
  <2> DEFINE running == [r \in Keys |-> RunningSpec(r)]
             reading == [r \in Keys |-> Reading(r)]
             opened == Reading(k)' \ Reading(k)
  <2>1. Reading(k)' = (Reading(k) \cap wanted) \cup opened /\ opened \subseteq wanted \ Reading(k)
    BY <1>8, <1>9
  <2>2. reading' = [reading EXCEPT ![k] = (@ \cap wanted) \cup opened]
    BY <1>7, <2>1
  <2>3. running[k] # None /\ running[k] = loopSpec[l]
    BY <1>1, <1>2, LifecycleConfig DEF RInv, Registry, LoopInv
  <2>4. UNCHANGED <<running, pods>>
    BY DEF Tick, RunningSpec
  <2>5. opened \in SUBSET (wanted \ reading[k])
    BY <2>1
  <2> HIDE DEF opened
  <2> QED  BY <2>2, <2>3, <2>4, <2>5 DEF PR!PRRound, wanted
<1> QED  BY <1>10

\* By the time a cancelled loop returns, its streams have been cancelled.
LEMMA ExitTold ==
    ASSUME RInv, NEW l \in Loops, LoopExit(l)
    PROVE  UNCHANGED told
<1>1. ASSUME NEW s \in Streams PROVE Wired(s)' <=> Wired(s)
  <2>1. Wired(s) => ~\E p \in Pods : active[l][p] = s
    BY WiredEntry, WiredToRegistered DEF RInv, LoopExit
  <2> QED  BY <2>1 DEF LoopExit, Wired, Living
<1>2. \A k \in Keys : Reading(k)' = Reading(k)
  BY <1>1 DEF Reading, LoopExit
<1>3. ASSUME NEW k \in Keys PROVE RunningSpec(k)' = RunningSpec(k)
  <2>1. monitors[k] # None => monitors[k] \in Loops /\ monitors[k] # l
    BY DEF RInv, Registry, TypeOK, LoopInv, LoopExit
  <2> QED  BY <2>1 DEF RInv, Registry, TypeOK, LoopExit, RunningSpec
<1> QED  BY <1>2, <1>3 DEF told, LoopExit

\* A stream that returns ends the reading of its Pod, unless it was cancelled.
LEMMA EndTold ==
    ASSUME Registry, NEW s \in Streams, Ended(s)
    PROVE  (\E k \in Keys, p \in Pods : PR!PREnd(k, p)) \/ UNCHANGED told
<1>1. /\ ~Wired(s)'
      /\ \A t \in Streams : t # s => /\ strKey'[t] = strKey[t] /\ strPod'[t] = strPod[t]
                                     /\ Wired(t)' <=> Wired(t)
      /\ UNCHANGED <<pods, monitors, loopSpec>>
  BY DEF Ended, Registry, TypeOK, Wired, Living, loopVars
<1>2. \A k \in Keys : RunningSpec(k)' = RunningSpec(k)
  BY <1>1 DEF RunningSpec
<1>3. CASE ~Wired(s)
  <2>1. \A k \in Keys : Reading(k)' = Reading(k)
    BY <1>1, <1>3 DEF Reading
  <2> QED  BY <1>1, <1>2, <2>1 DEF told
<1>4. CASE Wired(s)
  <2>1. PICK k \in Keys, p \in Pods : k = strKey[s] /\ p = strPod[s]
    BY <1>4, WiredToRegistered
  <2>2. ASSUME NEW t \in Streams, Wired(t), strKey[t] = k, strPod[t] = p PROVE t = s
    <3>1. /\ monitors[strKey[s]] = strLoop[s] /\ active[strLoop[s]][strPod[s]] = s
          /\ monitors[strKey[t]] = strLoop[t] /\ active[strLoop[t]][strPod[t]] = t
      BY <1>4, <2>2, WiredToRegistered
    <3> QED  BY <2>1, <2>2, <3>1
  <2>3. \A q \in Keys : q # k => Reading(q)' = Reading(q)
    BY <1>1, <2>1 DEF Reading
  <2>4. Reading(k)' = Reading(k) \ {p}
    <3>1. ASSUME NEW r \in Reading(k)' PROVE r \in Reading(k) /\ r # p
      BY <1>1, <2>2, <3>1 DEF Reading
    <3>2. ASSUME NEW r \in Reading(k), r # p PROVE r \in Reading(k)'
      BY <1>1, <2>1, <3>2 DEF Reading
    <3> QED  BY <3>1, <3>2
  <2>5. [q \in Keys |-> Reading(q)]' = [[q \in Keys |-> Reading(q)] EXCEPT ![k] = @ \ {p}]
    BY <2>3, <2>4
  <2>6. PR!PREnd(k, p)
    BY <1>1, <1>2, <2>5 DEF PR!PREnd
  <2> QED  BY <2>6
<1> QED  BY <1>3, <1>4

LEMMA RestartTold ==
    ASSUME Restart
    PROVE  PR!PRRestart
<1>1. \A k \in Keys : RunningSpec(k)' = None
  BY DEF Restart, RunningSpec
<1>2. \A k \in Keys : Reading(k)' = {}
  BY DEF Restart, Reading, Wired, Living, NoStream
<1> QED  BY <1>1, <1>2 DEF Restart, PR!PRRestart

LEMMA NextTold ==
    ASSUME RInv, [Next]_vars
    PROVE  [PR!PRNext]_(PR!prVars)
<1>1. UNCHANGED told => UNCHANGED PR!prVars
  BY DEF told, PR!prVars
<1>2. CASE GetNotFound \/ ListOk
  BY <1>2, StopTold, StartTold DEF RInv, PR!PRNext
<1>3. ASSUME NEW l \in Loops, Tick(l) \/ LoopExit(l) PROVE [PR!PRNext]_(PR!prVars)
  BY <1>1, <1>3, TickTold, CancelledTickTold, ExitTold DEF PR!PRNext
<1>4. ASSUME NEW s \in Streams, Ended(s) PROVE [PR!PRNext]_(PR!prVars)
  BY <1>1, <1>4, EndTold DEF RInv, PR!PRNext
<1>5. CASE Restart
  BY <1>5, RestartTold DEF PR!PRNext
<1>6. ASSUME NEW p \in Pods, NEW ph \in Phases, PodChange(p, ph)
      PROVE  [PR!PRNext]_(PR!prVars)
  <2>1. UNCHANGED <<monitors, loopSpec, strKey, strPod, strDone>>
    BY <1>6 DEF PodChange, loopVars, strVars
  <2>2. UNCHANGED <<[k \in Keys |-> RunningSpec(k)], [k \in Keys |-> Reading(k)]>>
    BY <2>1 DEF RunningSpec, Reading, Wired, Living
  <2>3. PR!PRPods
    BY <2>2 DEF PR!PRPods
  <2> QED  BY <2>3 DEF PR!PRNext
<1>7. CASE \/ \E k \in Keys : \/ Create(k) \/ EditSpec(k) \/ Delete(k) \/ CountAlert(k)
                              \/ Informer(k) \/ Dequeue(k)
           \/ GetInvalid \/ GetValid \/ StatusSame \/ StatusUpdated \/ StatusConflict
           \/ GetFails \/ ListFails \/ StatusFails
           \/ UNCHANGED vars
  <2>1. UNCHANGED <<monitors, loopSpec, strKey, strPod, strDone, pods>>
    BY <1>7 DEF Create, EditSpec, Delete, CountAlert, Write, Informer, Dequeue,
       GetInvalid, GetValid, StatusSame, StatusUpdated, StatusConflict,
       StatusFails, Finish, GetFails, ListFails, loopVars, strVars, vars
  <2> QED  BY <1>1, <2>1, SameTold
<1> QED
  BY <1>2, <1>3, <1>4, <1>5, <1>6, <1>7 DEF Next, Reconcile, StreamEnds, StreamBreaks

\* The lifecycle implements PodReading: what is read changes only as the
\* registered loop's spec and the Pods say.  Cancelled loops that still tick,
\* streams that return late and the reuse of goroutines show in nothing.
THEOREM ReadsAsToldHolds == Spec => ReadsAsTold
<1>1. Init => RInv /\ PR!PRInit
  BY InitTold
<1>2. RInv /\ [Next]_vars => RInv' /\ [PR!PRNext]_(PR!prVars)
  BY NextRegistry, NextEntries, NextTold DEF RInv
<1> QED  BY <1>1, <1>2, PTL DEF Spec, ReadsAsTold, PR!PRSpec
=============================================================================
