-------------------------- MODULE LimiterCallsProofs --------------------------
(***************************************************************************)
(* Theorems about LimiterCalls for every set of callers, keys, limits and  *)
(* periods: the mutex makes each call of Allow one step of RateLimiter, so *)
(* that what is proved of RateLimiter holds of overlapping calls.          *)
(*                                                                         *)
(* CallInv says why: only the holder of the mutex is inside, what it has   *)
(* copied is what the map holds, and what it has dropped had expired.      *)
(***************************************************************************)
EXTENDS LimiterCalls, TLAPS

Inside(c) ==
    /\ at[c] # "out" => mu = c
    /\ at[c] = "copied" => info[c] = data[Key[c]]
    /\ at[c] = "dropped" => Found(c) /\ Old(c) /\ data[Key[c]] = NoInfo
    /\ at[c] = "out" => mu # c

CallInv == \A c \in Callers : Inside(c)

IInv == CallTypeOK /\ CallInv
-----------------------------------------------------------------------------
LEMMA InfoTypes ==
    ASSUME CallTypeOK, NEW c \in Callers
    PROVE  /\ now \in Nat /\ restarts \in Nat
           /\ Key[c] \in Keys /\ Limit[Key[c]] \in Nat /\ Period[Key[c]] \in Nat
           /\ info[c] \in RateLimiterInfo /\ data[Key[c]] \in RateLimiterInfo
           /\ info[c].Count \in Nat /\ info[c].LastSentAt \in Nat
BY CallsConfig, LimiterConfig DEF CallTypeOK, TypeOK, RateLimiterInfo

\* A grant of the limiter's own keeps its types.
LEMMA GrantType ==
    ASSUME TypeOK, NEW k \in Keys, NEW n \in Nat,
           Granted(k, [Count |-> n, LastSentAt |-> now])
    PROVE  TypeOK'
<1> DEFINE new == [Count |-> n, LastSentAt |-> now]
<1>1. new \in RateLimiterInfo /\ now \in Nat
  BY DEF TypeOK, RateLimiterInfo
<1> HIDE DEF new
<1> USE DEF new
<1>2. data' = [data EXCEPT ![k] = new] /\ hist' = [hist EXCEPT ![k] = Append(@, now)]
      /\ UNCHANGED <<now, base, denied, restarts>>
  BY DEF Granted
<1> HIDE DEF new
<1> QED  BY <1>1, <1>2 DEF TypeOK

LEMMA ReturnType ==
    ASSUME CallTypeOK, NEW c \in Callers, Return(c), TypeOK'
    PROVE  CallTypeOK'
<1>1. NoInfo \in RateLimiterInfo
  BY DEF NoInfo, RateLimiterInfo
<1> QED  BY <1>1 DEF CallTypeOK, Return

LEMMA TypeStep ==
    ASSUME CallTypeOK, [CallNext]_allVars
    PROVE  CallTypeOK'
<1>0. NoInfo \in RateLimiterInfo /\ TypeOK
  BY DEF NoInfo, RateLimiterInfo, CallTypeOK
<1>1. ASSUME NEW c \in Callers, CallStep(c) PROVE CallTypeOK'
  <2>0. /\ now \in Nat /\ Key[c] \in Keys /\ info[c].Count \in Nat
        /\ data[Key[c]] \in RateLimiterInfo
    BY InfoTypes
  <2>1. CASE Lock(c)
    <3>1. TypeOK'
      BY <1>0, <2>1 DEF Lock, vars, TypeOK
    <3> QED  BY <2>1, <3>1 DEF Lock, CallTypeOK
  <2>2. CASE Copy(c)
    <3>1. TypeOK'
      BY <1>0, <2>2 DEF Copy, vars, TypeOK
    <3> QED  BY <2>0, <2>2, <3>1 DEF Copy, CallTypeOK
  <2>3. CASE Drop(c)
    <3>1. TypeOK'
      BY <1>0, <2>3 DEF Drop, TypeOK
    <3> QED  BY <2>3, <3>1 DEF Drop, CallTypeOK
  <2>4. CASE PutFirst(c)
    BY <1>0, <2>0, <2>4, GrantType, ReturnType DEF PutFirst
  <2>5. CASE PutAgain(c)
    BY <1>0, <2>0, <2>5, GrantType, ReturnType DEF PutAgain
  <2>6. CASE Refuse(c)
    <3>1. TypeOK'
      BY <1>0, <2>0, <2>6 DEF Refuse, TypeOK
    <3> QED  BY <2>6, <3>1, ReturnType DEF Refuse
  <2> QED  BY <1>1, <2>1, <2>2, <2>3, <2>4, <2>5, <2>6 DEF CallStep
<1>2. CASE CallTick
  <2>1. TypeOK'
    BY <1>0, <1>2 DEF CallTick, Tick, TypeOK
  <2> QED  BY <1>2, <2>1 DEF CallTick, callVars, CallTypeOK
<1>3. CASE CallRestart
  <2>1. TypeOK'
    BY <1>0, <1>3 DEF CallRestart, Restart, TypeOK
  <2> QED  BY <1>0, <1>3, <2>1 DEF CallRestart, CallTypeOK
<1>4. CASE UNCHANGED allVars
  <2>1. TypeOK'
    BY <1>0, <1>4 DEF allVars, vars, TypeOK
  <2> QED  BY <1>4, <2>1 DEF allVars, callVars, CallTypeOK
<1> QED  BY <1>1, <1>2, <1>3, <1>4 DEF CallNext
-----------------------------------------------------------------------------
\* While one caller is inside, the others are out.
LEMMA OthersOut ==
    ASSUME IInv, NEW c \in Callers, at[c] # "out"
    PROVE  mu = c /\ \A o \in Callers \ {c} : at[o] = "out"
BY DEF IInv, CallInv, Inside

\* Who is out stays out of a step of another's.
LEMMA OutStays ==
    ASSUME NEW o, at[o] = "out", at'[o] = "out", mu' # o
    PROVE  Inside(o)'
BY DEF Inside

LEMMA ReturnInv ==
    ASSUME IInv, NEW c \in Callers, at[c] # "out", Return(c)
    PROVE  CallInv'
<1>1. \A o \in Callers : at'[o] = "out"
  BY OthersOut DEF Return, IInv, CallTypeOK
<1>2. \A o \in Callers : mu' # o
  BY CallsConfig DEF Return
<1> QED  BY <1>1, <1>2 DEF CallInv, Inside

LEMMA InvStep ==
    ASSUME IInv, [CallNext]_allVars, CallTypeOK'
    PROVE  CallInv'
<1>0. CallTypeOK
  BY DEF IInv
<1>1. ASSUME NEW c \in Callers, CallStep(c) PROVE CallInv'
  <2>1. CASE Lock(c)
    <3>1. \A o \in Callers : at[o] = "out"
      BY <2>1, CallsConfig DEF Lock, IInv, CallInv, Inside
    <3>2. mu' = c /\ at'[c] = "locked" /\ \A o \in Callers \ {c} : at'[o] = "out"
      BY <1>0, <2>1, <3>1 DEF Lock, CallTypeOK
    <3> QED  BY <3>2 DEF CallInv, Inside
  <2>2. CASE Copy(c)
    <3>1. mu = c /\ \A o \in Callers \ {c} : at[o] = "out"
      BY <2>2, OthersOut DEF Copy
    <3>2. /\ mu' = mu /\ at'[c] = "copied" /\ info'[c] = data[Key[c]] /\ data' = data
          /\ \A o \in Callers \ {c} : at'[o] = at[o]
      BY <1>0, <2>2 DEF Copy, CallTypeOK, vars
    <3> QED  BY <3>1, <3>2 DEF CallInv, Inside
  <2>3. CASE Drop(c)
    <3>1. mu = c /\ \A o \in Callers \ {c} : at[o] = "out"
      BY <2>3, OthersOut DEF Drop
    <3>2. /\ mu' = mu /\ at'[c] = "dropped" /\ info' = info /\ now' = now
          /\ \A o \in Callers \ {c} : at'[o] = at[o]
      BY <1>0, <2>3 DEF Drop, CallTypeOK
    <3>3. data'[Key[c]] = NoInfo
      BY <1>0, <2>3, InfoTypes DEF Drop, CallTypeOK, TypeOK
    <3>4. Found(c)' /\ Old(c)'
      BY <2>3, <3>2 DEF Drop, Found, Old
    <3> QED  BY <3>1, <3>2, <3>3, <3>4 DEF CallInv, Inside
  <2>4. CASE PutFirst(c) \/ PutAgain(c) \/ Refuse(c)
    BY <2>4, ReturnInv DEF PutFirst, PutAgain, Refuse
  <2> QED  BY <1>1, <2>1, <2>2, <2>3, <2>4 DEF CallStep
<1>2. CASE CallTick
  <2>1. \A o \in Callers : at[o] = "out"
    BY <1>2, CallsConfig DEF CallTick, IInv, CallInv, Inside
  <2>2. at' = at /\ mu' = mu /\ mu = NoCaller
    BY <1>2 DEF CallTick, callVars
  <2> QED  BY <2>1, <2>2, CallsConfig DEF CallInv, Inside
<1>3. CASE CallRestart
  BY <1>3, CallsConfig DEF CallRestart, CallInv, Inside
<1>4. CASE UNCHANGED allVars
  BY <1>4 DEF allVars, vars, callVars, IInv, CallInv, Inside, Found, Old
<1> QED  BY <1>1, <1>2, <1>3, <1>4 DEF CallNext

LEMMA InitIInv == CallInit => IInv
<1> SUFFICES ASSUME CallInit PROVE IInv
  OBVIOUS
<1>1. CallTypeOK
  BY LimiterConfig
     DEF CallInit, Init, CallTypeOK, TypeOK, NoInfo, Never, RateLimiterInfo
<1>2. CallInv
  BY CallsConfig DEF CallInit, CallInv, Inside
<1> QED  BY <1>1, <1>2 DEF IInv

LEMMA InvHolds == CallSpec => []IInv
<1>1. IInv /\ [CallNext]_allVars => IInv'
  BY TypeStep, InvStep DEF IInv
<1> QED  BY InitIInv, <1>1, PTL DEF CallSpec

\* The limiter and the local variables of its callers keep their types
\* (InMemoryRateLimiter.Allow, called by any number of goroutines).
THEOREM CallTypeCorrect == CallSpec => []CallTypeOK
<1>1. IInv => CallTypeOK
  BY DEF IInv
<1> QED  BY InvHolds, <1>1, PTL
-----------------------------------------------------------------------------
(* The calls implement the atomic limiter.                                 *)

LEMMA SeenType == CallTypeOK => Seen \in [Keys -> RateLimiterInfo]
<1> SUFFICES ASSUME CallTypeOK, NEW k \in Keys,
                    mu # NoCaller /\ at[mu] = "dropped" /\ Key[mu] = k
             PROVE  info[mu] \in RateLimiterInfo
  BY DEF Seen, CallTypeOK, TypeOK
<1> QED  BY DEF CallTypeOK

\* With nobody in the middle of a replacement the map is as it looks.
LEMMA SeenData ==
    ASSUME TypeOK, mu = NoCaller \/ at[mu] # "dropped"
    PROVE  Seen = data
BY DEF Seen, TypeOK

LEMMA SeenDataNext == (TypeOK /\ (mu = NoCaller \/ at[mu] # "dropped") => Seen = data)'
<1>1. TypeOK /\ (mu = NoCaller \/ at[mu] # "dropped") => Seen = data
  BY SeenData
<1> QED  BY <1>1, PTL

\* In the middle of one, only the entry of its key looks different.
LEMMA SeenDropped ==
    ASSUME CallTypeOK, NEW c \in Callers, mu = c, at[c] = "dropped"
    PROVE  /\ Seen[Key[c]] = info[c]
           /\ \A k \in Keys \ {Key[c]} : Seen[k] = data[k]
BY CallsConfig DEF Seen, CallTypeOK

\* A grant of the call is one of the map as it looks.
LEMMA GrantSeen ==
    ASSUME IInv, CallTypeOK', NEW c \in Callers, at[c] # "out", Return(c), NEW entry,
           Granted(Key[c], entry)
    PROVE  Atomic!Granted(Key[c], entry)
<1>0. TypeOK /\ TypeOK' /\ CallTypeOK
  BY DEF IInv, CallTypeOK
<1>1. Seen' = data' /\ mu = c
  BY <1>0, SeenDataNext, OthersOut DEF Return
<1>2. \A k \in Keys \ {Key[c]} : Seen[k] = data[k]
  BY <1>0, <1>1, SeenData, SeenDropped
<1>3. Seen \in [Keys -> RateLimiterInfo] /\ data \in [Keys -> RateLimiterInfo]
  BY <1>0, SeenType DEF TypeOK
<1>4. data' = [data EXCEPT ![Key[c]] = entry]
  BY DEF Granted
<1>5. [data EXCEPT ![Key[c]] = entry] = [Seen EXCEPT ![Key[c]] = entry]
  BY <1>2, <1>3
<1>6. hist' = [hist EXCEPT ![Key[c]] = Append(@, now)]
      /\ UNCHANGED <<now, base, denied, restarts>>
  BY DEF Granted
<1> QED  BY <1>1, <1>4, <1>5, <1>6 DEF Atomic!Granted

LEMMA AtomicStep ==
    ASSUME IInv, [CallNext]_allVars, IInv'
    PROVE  [Atomic!Next]_(Atomic!vars)
<1>0. /\ CallTypeOK /\ TypeOK /\ CallTypeOK' /\ TypeOK'
      /\ data \in [Keys -> RateLimiterInfo]
  BY DEF IInv, CallTypeOK, TypeOK
<1>1. ASSUME NEW c \in Callers, CallStep(c) PROVE [Atomic!Next]_(Atomic!vars)
  <2>0. /\ Key[c] \in Keys /\ c # NoCaller
        /\ at[c] # "out" => mu = c
        /\ at[c] = "copied" => info[c] = data[Key[c]]
        /\ at[c] = "dropped" => Found(c) /\ Old(c)
    BY CallsConfig DEF IInv, CallInv, Inside
  <2>1. CASE Lock(c)
    <3>1. mu' = c /\ at'[c] = "locked" /\ UNCHANGED vars
      BY <1>0, <2>1 DEF Lock, CallTypeOK
    <3>2. Seen' = data' /\ Seen = data
      BY <1>0, <2>1, <3>1, SeenData, SeenDataNext DEF Lock
    <3> QED  BY <3>1, <3>2 DEF vars, Atomic!vars
  <2>2. CASE Copy(c)
    <3>1. mu' = c /\ mu = c /\ at[c] = "locked" /\ at'[c] = "copied" /\ UNCHANGED vars
      BY <1>0, <2>0, <2>2 DEF Copy, CallTypeOK
    <3>2. Seen' = data' /\ Seen = data
      BY <1>0, <3>1, SeenData, SeenDataNext
    <3> QED  BY <3>1, <3>2 DEF vars, Atomic!vars
  <2>3. CASE Drop(c)
    <3>1. /\ mu' = c /\ mu = c /\ at[c] = "copied" /\ at'[c] = "dropped"
          /\ info' = info /\ info[c] = data[Key[c]]
          /\ data' = [data EXCEPT ![Key[c]] = NoInfo]
          /\ UNCHANGED <<now, hist, base, denied, restarts>>
      BY <1>0, <2>0, <2>3 DEF Drop, CallTypeOK
    <3>2. Seen = data
      BY <1>0, <3>1, SeenData
    <3>3. Seen' = [k \in Keys |-> IF Key[c] = k THEN info[c] ELSE data'[k]]
      BY <2>0, <3>1 DEF Seen
    <3>4. Seen' = data
      BY <1>0, <3>1, <3>3
    <3> QED  BY <3>1, <3>2, <3>4 DEF Atomic!vars
  <2>4. CASE PutFirst(c)
    <3>1. Atomic!Granted(Key[c], [Count |-> 1, LastSentAt |-> now])
      BY <1>0, <2>4, GrantSeen DEF PutFirst
    <3>2. CASE at[c] = "dropped"
      <4>1. Seen[Key[c]] = info[c]
        BY <1>0, <2>0, <3>2, SeenDropped
      <4>2. Atomic!Expired(Key[c])
        BY <2>0, <3>2, <4>1 DEF Atomic!Expired, Atomic!Exists, Found, Old
      <4> QED  BY <2>0, <3>1, <4>2 DEF Atomic!Next, Atomic!AllowFirst
    <3>3. CASE at[c] = "copied" /\ ~Found(c)
      <4>1. Seen = data
        BY <1>0, <2>0, <3>3, SeenData
      <4>2. ~Atomic!Exists(Key[c])
        BY <2>0, <3>3, <4>1 DEF Atomic!Exists, Found
      <4> QED  BY <2>0, <3>1, <4>2 DEF Atomic!Next, Atomic!AllowFirst
    <3> QED  BY <2>4, <3>2, <3>3 DEF PutFirst
  <2>5. CASE PutAgain(c) \/ Refuse(c)
    <3>1. at[c] = "copied" /\ Found(c) /\ ~Old(c) /\ Return(c)
      BY <2>5 DEF PutAgain, Refuse
    <3>2. Seen = data /\ info[c] = Seen[Key[c]]
      BY <1>0, <2>0, <3>1, SeenData
    <3>3. Atomic!Exists(Key[c]) /\ ~Atomic!Expired(Key[c])
      BY <3>1, <3>2 DEF Atomic!Exists, Atomic!Expired, Found, Old
    <3>4. CASE PutAgain(c)
      <4>1. /\ Seen[Key[c]].Count < Limit[Key[c]]
            /\ Granted(Key[c], [Count |-> Seen[Key[c]].Count + 1, LastSentAt |-> now])
        BY <3>2, <3>4 DEF PutAgain
      <4>2. Atomic!Granted(Key[c], [Count |-> Seen[Key[c]].Count + 1, LastSentAt |-> now])
        BY <1>0, <3>1, <4>1, GrantSeen
      <4> QED  BY <2>0, <3>3, <4>1, <4>2 DEF Atomic!Next, Atomic!AllowAgain
    <3>5. CASE Refuse(c)
      <4>1. /\ Seen[Key[c]].Count >= Limit[Key[c]]
            /\ denied' = [denied EXCEPT ![Key[c]] = [at |-> now, set |-> TRUE]]
            /\ UNCHANGED <<now, data, hist, base, restarts>>
        BY <3>2, <3>5 DEF Refuse
      <4>2. Seen' = data'
        BY <1>0, <3>1, SeenDataNext DEF Return
      <4> QED  BY <2>0, <3>2, <3>3, <4>1, <4>2 DEF Atomic!Next, Atomic!Deny
    <3> QED  BY <2>5, <3>4, <3>5
  <2> QED  BY <1>1, <2>1, <2>2, <2>3, <2>4, <2>5 DEF CallStep
<1>2. CASE CallTick
  <2>1. mu = NoCaller /\ mu' = NoCaller
    BY <1>2 DEF CallTick, callVars
  <2>2. Seen = data /\ Seen' = data'
    BY <1>0, <2>1, SeenData, SeenDataNext
  <2> QED  BY <1>2, <2>2 DEF CallTick, Tick, Atomic!Tick, Atomic!Next
<1>3. CASE CallRestart
  <2>1. Seen' = data'
    BY <1>0, <1>3, SeenDataNext DEF CallRestart
  <2> QED
    BY <1>3, <2>1
       DEF CallRestart, Restart, NoInfo, Atomic!Restart, Atomic!NoInfo, Atomic!Next
<1>4. CASE UNCHANGED allVars
  <2>1. Seen' = Seen
    BY <1>4 DEF allVars, vars, callVars, Seen
  <2> QED  BY <1>4, <2>1 DEF allVars, vars, Atomic!vars
<1> QED  BY <1>1, <1>2, <1>3, <1>4 DEF CallNext

\* The mutex makes every call of Allow one step on the entry as it then is,
\* whatever overlaps and wherever the process dies (rl.mu in
\* InMemoryRateLimiter.Allow; copy, delete and write of the entry).
THEOREM AtomicAllowHolds == CallSpec => AtomicAllow
<1>1. CallInit => Atomic!Init
  <2> SUFFICES ASSUME CallInit PROVE Atomic!Init
    OBVIOUS
  <2>1. IInv /\ mu = NoCaller
    BY InitIInv DEF CallInit
  <2>2. Seen = data
    BY <2>1, SeenData DEF IInv, CallTypeOK
  <2> QED
    BY <2>2 DEF CallInit, Init, Atomic!Init, NoInfo, Atomic!NoInfo, Never, Atomic!Never
<1>2. IInv /\ IInv' /\ [CallNext]_allVars => [Atomic!Next]_(Atomic!vars)
  BY AtomicStep
<1> QED  BY <1>1, <1>2, InvHolds, PTL DEF CallSpec, AtomicAllow, Atomic!Spec
-----------------------------------------------------------------------------
(* What is proved of the atomic limiter holds of the calls.                *)

AP == INSTANCE RateLimiterProofs WITH
          Keys <- Keys, Limit <- Limit, Period <- Period,
          MaxTime <- MaxTime, MaxRestarts <- MaxRestarts,
          now <- now, data <- Seen, hist <- hist, base <- base,
          denied <- denied, restarts <- restarts

LEMMA SameSpec == CallSpec => AP!Spec
<1>1. Atomic!Init <=> AP!Init
  BY DEF Atomic!Init, AP!Init, Atomic!NoInfo, AP!NoInfo, Atomic!Never, AP!Never
<1>2. [Atomic!Next]_(Atomic!vars) <=> [AP!Next]_(AP!vars)
  BY DEF Atomic!Next, AP!Next, Atomic!AllowFirst, AP!AllowFirst, Atomic!AllowAgain,
         AP!AllowAgain, Atomic!Deny, AP!Deny, Atomic!Tick, AP!Tick, Atomic!Restart,
         AP!Restart, Atomic!Granted, AP!Granted, Atomic!Exists, AP!Exists,
         Atomic!Expired, AP!Expired, Atomic!NoInfo, AP!NoInfo, Atomic!vars, AP!vars
<1> QED
  BY <1>1, <1>2, AtomicAllowHolds, PTL DEF AtomicAllow, Atomic!Spec, AP!Spec

LEMMA CallsConfigured == AP!LimiterConfig
BY LimiterConfig DEF AP!LimiterConfig

\* However many goroutines call Allow at once, within one process no key is
\* granted more than Limit times in any Period.
THEOREM CallWindowBound == CallSpec => []WindowBound
<1>1. AP!Spec => []AP!WindowBound
  BY AP!WindowBoundHolds, CallsConfigured
<1>2. AP!WindowBound <=> WindowBound
  BY DEF AP!WindowBound, WindowBound
<1> QED  BY <1>1, <1>2, SameSpec, PTL

\* However calls overlap, a refusal is owed to a burst that is still warm: no
\* caller is refused on what another call has left behind half done.
THEOREM CallDenialJustified == CallSpec => DenialJustified
<1>1. AP!Spec => AP!DenialJustified
  BY AP!DenialJustifiedHolds, CallsConfigured
<1>2. [\A k \in Keys : denied'[k] # denied[k] => AP!WarmBurst(k)]_(AP!vars)
      => [\A k \in Keys : denied'[k] # denied[k] => WarmBurst(k)]_vars
  BY DEF AP!vars, AP!WarmBurst, vars, WarmBurst
<1> QED  BY <1>1, <1>2, SameSpec, PTL DEF AP!DenialJustified, DenialJustified
=============================================================================
