----------------------------- MODULE LimiterCalls -----------------------------
(***************************************************************************)
(* InMemoryRateLimiter.Allow as the goroutines of dispatchAlert run it,    *)
(* one access of the map at a time: a call locks the mutex, copies the     *)
(* entry, drops it if it has expired, writes the new one and unlocks on    *)
(* return.  Callers of different keys share the mutex and the map.         *)
(*                                                                         *)
(* A call waits for nothing once it holds the mutex: the clock, whose      *)
(* ticks are far longer, moves only between calls.                         *)
(***************************************************************************)
EXTENDS RateLimiter

CONSTANTS
    Callers,     \* dispatch goroutines
    Key,         \* Key[c]: the rate limit key of caller c
    NoCaller     \* the mutex is free

ASSUME CallsConfig ==
    /\ Key \in [Callers -> Keys]
    /\ NoCaller \notin Callers

VARIABLES
    mu,      \* rl.mu: the caller that holds it, or NoCaller
    at,      \* where each caller is in Allow
    info     \* its local variable info

callVars == <<mu, at, info>>
allVars == <<vars, callVars>>

CallTypeOK ==
    /\ TypeOK
    /\ mu \in Callers \cup {NoCaller}
    /\ at \in [Callers -> {"out", "locked", "copied", "dropped"}]
    /\ info \in [Callers -> RateLimiterInfo]

CallInit ==
    /\ Init
    /\ mu = NoCaller
    /\ at = [c \in Callers |-> "out"]
    /\ info = [c \in Callers |-> NoInfo]
-----------------------------------------------------------------------------
Lock(c) ==
    /\ at[c] = "out"
    /\ mu = NoCaller
    /\ mu' = c
    /\ at' = [at EXCEPT ![c] = "locked"]
    /\ UNCHANGED <<vars, info>>

MutCopy(c) ==
    /\ at[c] = "locked"
    /\ info' = [info EXCEPT ![c] = data[Key[c]]]
    /\ at' = [at EXCEPT ![c] = "copied"]
    /\ mu' = NoCaller
    /\ UNCHANGED vars

\* info, exists := rl.data[key]
Copy(c) ==
    /\ at[c] = "locked"
    /\ info' = [info EXCEPT ![c] = data[Key[c]]]
    /\ at' = [at EXCEPT ![c] = "copied"]
    /\ UNCHANGED <<vars, mu>>

Found(c) == info[c].Count # 0
Old(c) == now - info[c].LastSentAt > Period[Key[c]]

\* An expired entry is deleted before a new one is written.
Drop(c) ==
    /\ at[c] = "copied" /\ Found(c) /\ Old(c)
    /\ data' = [data EXCEPT ![Key[c]] = NoInfo]
    /\ at' = [at EXCEPT ![c] = "dropped"]
    /\ UNCHANGED <<now, hist, base, denied, restarts, mu, info>>

\* The deferred unlock; the local variable dies.
Return(c) ==
    /\ mu' = NoCaller
    /\ at' = [at EXCEPT ![c] = "out"]
    /\ info' = [info EXCEPT ![c] = NoInfo]

MutPutFirst(c) ==
    /\ at[c] = "dropped" \/ (at[c] = "copied" /\ ~Found(c))
    /\ Granted(Key[c], [Count |-> IF Found(c) THEN info[c].Count - Limit[Key[c]] ELSE 1,
                        LastSentAt |-> now])
    /\ Return(c)

PutFirst(c) ==
    /\ at[c] = "dropped" \/ (at[c] = "copied" /\ ~Found(c))
    /\ Granted(Key[c], [Count |-> 1, LastSentAt |-> now])
    /\ Return(c)

MutPutAgain(c) ==
    /\ at[c] = "copied" /\ Found(c) /\ ~Old(c)
    /\ info[c].Count <= Limit[Key[c]]
    /\ Granted(Key[c], [Count |-> info[c].Count + 1, LastSentAt |-> now])
    /\ Return(c)

PutAgain(c) ==
    /\ at[c] = "copied" /\ Found(c) /\ ~Old(c)
    /\ info[c].Count < Limit[Key[c]]
    /\ Granted(Key[c], [Count |-> info[c].Count + 1, LastSentAt |-> now])
    /\ Return(c)

MutRefuse(c) ==
    /\ at[c] = "copied" /\ Found(c) /\ ~Old(c)
    /\ info[c].Count >= Limit[Key[c]]
    /\ data' = [data EXCEPT ![Key[c]] = [Count |-> info[c].Count, LastSentAt |-> now]]
    /\ denied' = [denied EXCEPT ![Key[c]] = [at |-> now, set |-> TRUE]]
    /\ UNCHANGED <<now, hist, base, restarts>>
    /\ Return(c)

Refuse(c) ==
    /\ at[c] = "copied" /\ Found(c) /\ ~Old(c)
    /\ info[c].Count >= Limit[Key[c]]
    /\ denied' = [denied EXCEPT ![Key[c]] = [at |-> now, set |-> TRUE]]
    /\ UNCHANGED <<now, data, hist, base, restarts>>
    /\ Return(c)

CallStep(c) ==
    \/ Lock(c) \/ Copy(c) \/ Drop(c)
    \/ PutFirst(c) \/ PutAgain(c) \/ Refuse(c)

CallTick ==
    /\ mu = NoCaller
    /\ Tick
    /\ UNCHANGED callVars

\* The process dies in the middle of whatever its goroutines do.
CallRestart ==
    /\ Restart
    /\ mu' = NoCaller
    /\ at' = [c \in Callers |-> "out"]
    /\ info' = [c \in Callers |-> NoInfo]

CallNext ==
    \/ \E c \in Callers : CallStep(c)
    \/ CallTick
    \/ CallRestart

CallSpec == CallInit /\ [][CallNext]_allVars
-----------------------------------------------------------------------------
\* The map as the other callers would see it: the entry that the holder of the
\* mutex has dropped is still there until the new one is written.
Seen == [k \in Keys |->
            IF mu # NoCaller /\ at[mu] = "dropped" /\ Key[mu] = k
            THEN info[mu] ELSE data[k]]

Atomic == INSTANCE RateLimiter WITH
              Keys <- Keys, Limit <- Limit, Period <- Period,
              MaxTime <- MaxTime, MaxRestarts <- MaxRestarts,
              now <- now, data <- Seen, hist <- hist, base <- base,
              denied <- denied, restarts <- restarts

\* However calls of the same and of different keys overlap, and wherever the
\* process dies, each call of Allow that grants or refuses does so in one step
\* of RateLimiter, on the entry as it then is: no grant is decided on a count
\* that another call has changed since it was read.
AtomicAllow == Atomic!Spec
=============================================================================
