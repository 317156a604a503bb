----------------------------- MODULE RateLimiter -----------------------------
(***************************************************************************)
(* The InMemoryRateLimiter of internal/controller/monitorpod_controller.go.*)
(*                                                                         *)
(* Dispatch goroutines of all MonitorPods share one limiter.  Here a call  *)
(* of Allow is one step; LimiterCalls takes it apart and shows that its    *)
(* mutex makes it one.  The clock is Go's monotonic clock in abstract      *)
(* ticks and advances between calls.  dispatchAlert only calls Allow when  *)
(* spec.rateLimit.limit > 0, hence LimiterConfig.  The limit and period of *)
(* a key do not change here.                                               *)
(*                                                                         *)
(* hist, base and denied are history variables: the grant times of each    *)
(* key, how many of them a previous process gave, and the time of the last *)
(* refusal.                                                                *)
(***************************************************************************)
EXTENDS Naturals, Sequences

CONSTANTS Keys, Limit, Period,
          MaxTime,       \* bound on the clock
          MaxRestarts    \* bound on restarts of the controller process

ASSUME LimiterConfig ==
    /\ Limit \in [Keys -> Nat \ {0}]
    /\ Period \in [Keys -> Nat]

VARIABLES
    now,       \* time.Now()
    data,      \* rl.data: key -> RateLimiterInfo
    hist,      \* the times of the grants of each key
    base,      \* the number of grants given before the last restart
    denied,    \* when each key was last refused, Never if it was not
    restarts   \* restarts so far

vars == <<now, data, hist, base, denied, restarts>>

RateLimiterInfo == [Count : Nat, LastSentAt : Nat]

\* The zero value a Go map returns for a key it does not hold.  An entry
\* always has Count >= 1, so Count = 0 is "not exists".
NoInfo == [Count |-> 0, LastSentAt |-> 0]

Never == [at |-> 0, set |-> FALSE]

TypeOK ==
    /\ now \in Nat
    /\ data \in [Keys -> RateLimiterInfo]
    /\ hist \in [Keys -> Seq(Nat)]
    /\ base \in [Keys -> Nat]
    /\ denied \in [Keys -> [at : Nat, set : BOOLEAN]]
    /\ restarts \in Nat

Init ==
    /\ now = 0
    /\ data = [k \in Keys |-> NoInfo]
    /\ hist = [k \in Keys |-> <<>>]
    /\ base = [k \in Keys |-> 0]
    /\ denied = [k \in Keys |-> Never]
    /\ restarts = 0
-----------------------------------------------------------------------------
Exists(k) == data[k].Count # 0

\* The entry is dropped once more than a period has passed since the last
\* grant (not since the first one).
Expired(k) == Exists(k) /\ now - data[k].LastSentAt > Period[k]

Granted(k, info) ==
    /\ data' = [data EXCEPT ![k] = info]
    /\ hist' = [hist EXCEPT ![k] = Append(@, now)]
    /\ UNCHANGED <<now, base, denied, restarts>>

\* No entry, or an expired one that the call deletes first.
AllowFirst(k) ==
    /\ ~Exists(k) \/ Expired(k)
    /\ Granted(k, [Count |-> 1, LastSentAt |-> now])

AllowAgain(k) ==
    /\ Exists(k) /\ ~Expired(k)
    /\ data[k].Count < Limit[k]
    /\ Granted(k, [Count |-> data[k].Count + 1, LastSentAt |-> now])

\* Allow returns false and leaves the entry, its LastSentAt included, alone.
Deny(k) ==
    /\ Exists(k) /\ ~Expired(k)
    /\ data[k].Count >= Limit[k]
    /\ denied' = [denied EXCEPT ![k] = [at |-> now, set |-> TRUE]]
    /\ UNCHANGED <<now, data, hist, base, restarts>>

\* Time passes between calls.
Tick ==
    /\ now < MaxTime
    /\ now' = now + 1
    /\ UNCHANGED <<data, hist, base, denied, restarts>>

\* The controller process restarts: NewInMemoryRateLimiter makes an empty map.
Restart ==
    /\ restarts < MaxRestarts
    /\ restarts' = restarts + 1
    /\ data' = [k \in Keys |-> NoInfo]
    /\ base' = [k \in Keys |-> Len(hist[k])]
    /\ UNCHANGED <<now, hist, denied>>

Next ==
    \/ \E k \in Keys : AllowFirst(k) \/ AllowAgain(k) \/ Deny(k)
    \/ Tick
    \/ Restart

Spec == Init /\ [][Next]_vars
-----------------------------------------------------------------------------
\* At most Limit alerts in any period: within one process, Limit + 1
\* consecutive grants of a key span more than its Period
\* (InMemoryRateLimiter.Allow, RateLimitSpec.Limit).
WindowBound ==
    \A k \in Keys : \A i \in (base[k] + 1)..Len(hist[k]) :
        i + Limit[k] <= Len(hist[k]) =>
            hist[k][i + Limit[k]] - hist[k][i] > Period[k]

\* A refusal is always owed to a burst that is still warm: Limit grants of
\* this process in a row, each at most a Period after the one before, the
\* last at most a Period ago.  So a refused key recovers by itself: refusals
\* never extend the suppression (Allow leaves LastSentAt alone on refusal).
WarmBurst(k) ==
    LET n == Len(hist[k]) IN
    /\ n - base[k] >= Limit[k]
    /\ now - hist[k][n] <= Period[k]
    /\ \A i \in (n + 1 - Limit[k])..(n - 1) :
           hist[k][i + 1] - hist[k][i] <= Period[k]

DenialJustified ==
    [][\A k \in Keys : denied'[k] # denied[k] => WarmBurst(k)]_vars
=============================================================================
