---------------------------- MODULE SmartLogProofs ----------------------------
(***************************************************************************)
(* Theorems about SmartLog for every limit, period and delay, and for      *)
(* dispatches and replays of any length: no line is missed, the limiter's  *)
(* windows hold, what the round of alert, count, restart and replay may    *)
(* cost is bounded, and it ends if the period is as long as a round takes. *)
(***************************************************************************)
EXTENDS SmartLog, FiniteSetTheorems, TLAPS

Info == data[Rule]
Known == Info.Count # 0

AtLimit == {j \in jobs : j.place = "limit"}
Granteds == jobs \ AtLimit

\* What the clock and the places say of each other.
Timing ==
    /\ \A j \in AtLimit : j.at = now
    /\ \A j \in Granteds : Known /\ j.at <= Info.LastSentAt /\ now <= j.at + latency
    /\ Known => Info.LastSentAt <= now /\ Info.Count <= Limit
    /\ loopAt # None =>
          /\ loopAt <= now
          /\ pos = None => now <= loopAt + Delay
          /\ pos = None => \A j \in AtLimit : j.at <= loopAt

\* What the stream has read has been offered or is about to be.
Reading ==
    /\ offered \subseteq 1..written
    /\ \A j \in jobs : j.line <= written
    /\ pos # None => 1..pos \subseteq offered \cup {j.line : j \in AtLimit}
    /\ pos # None => \A j \in AtLimit : j.line <= pos
    /\ Known => offered # {}
    /\ \A j \in Granteds : j.line \in offered

\* With nothing from outside since the last grant, whatever is under way goes
\* back to a grant that the limiter's entry is no older than.
Prompt ==
    ~outside =>
        /\ Known
        /\ pending => now <= Info.LastSentAt + latency
        /\ loopAt # None => loopAt <= Info.LastSentAt + latency

\* The limiter still remembers an alert that the round under way goes back to.
Warm == Outstanding => Known /\ now <= Info.LastSentAt + Period

Unoffered == (1..written) \ offered

\* The bursts that may still begin with nothing more happening outside: each
\* line not yet offered, and a replay that may find the limiter cold.
Safe == offered = {} \/ (Warm /\ ~outside)
Due == Cardinality(Unoffered) + (IF Safe THEN 0 ELSE 1)

\* What is left of the burst in progress.
Left == IF Known THEN Limit - Info.Count ELSE 0

\* Each printed line, outside event, restart and lapse pays for one burst.
Charged == written + touches + restarts + lapses
Spent == Len(hist[Rule]) + Left
Paid == Spent + Limit * Due <= Limit * Charged

IInv == TypeOK /\ Timing /\ Reading /\ Prompt /\ LapseFree /\ Paid
-----------------------------------------------------------------------------
(* What the limiter's actions do here.                                     *)

\* One entry and one history.
LEMMA OneKey ==
    ASSUME TypeOK
    PROVE  /\ now \in Nat /\ restarts \in Nat
           /\ Info \in [Count : Nat, LastSentAt : Nat]
           /\ hist[Rule] \in Seq(Nat) /\ Len(hist[Rule]) \in Nat
BY DEF TypeOK, L!TypeOK, L!RateLimiterInfo, Info

\* A grant lengthens the history by one and leaves a warm entry; it begins a
\* burst only if the limiter remembers nothing that is not over.
LEMMA GrantStep ==
    ASSUME TypeOK, NEW j \in jobs, Grant(j)
    PROVE  /\ L!TypeOK' /\ now' = now /\ restarts' = restarts
           /\ Len(hist'[Rule]) = Len(hist[Rule]) + 1
           /\ Info'.LastSentAt = now
           /\ \/ /\ Info'.Count = 1
                 /\ ~Known \/ now > Info.LastSentAt + Period
              \/ /\ Info'.Count = Info.Count + 1
                 /\ Known /\ Info.Count < Limit
<1>0. /\ now \in Nat /\ restarts \in Nat
      /\ Info \in [Count : Nat, LastSentAt : Nat]
      /\ hist[Rule] \in Seq(Nat) /\ Len(hist[Rule]) \in Nat
      /\ Period \in Nat
  BY OneKey, SmartLogConfig
<1>1. ASSUME NEW n \in Nat, L!Granted(Rule, [Count |-> n, LastSentAt |-> now])
      PROVE  /\ L!TypeOK' /\ now' = now /\ restarts' = restarts
             /\ Len(hist'[Rule]) = Len(hist[Rule]) + 1
             /\ Info' = [Count |-> n, LastSentAt |-> now]
  <2>1. /\ data' = [data EXCEPT ![Rule] = [Count |-> n, LastSentAt |-> now]]
        /\ hist' = [hist EXCEPT ![Rule] = Append(@, now)]
        /\ UNCHANGED <<now, base, denied, restarts>>
    BY <1>1 DEF L!Granted
  <2>2. data \in [{Rule} -> [Count : Nat, LastSentAt : Nat]]
        /\ hist \in [{Rule} -> Seq(Nat)]
    BY DEF TypeOK, L!TypeOK, L!RateLimiterInfo
  <2>3. Info' = [Count |-> n, LastSentAt |-> now]
    BY <2>1, <2>2 DEF Info
  <2>4. Len(hist'[Rule]) = Len(hist[Rule]) + 1
    BY <1>0, <2>1, <2>2
  <2>5. L!TypeOK'
    BY <1>0, <2>1, <2>2 DEF TypeOK, L!TypeOK, L!RateLimiterInfo
  <2> QED
    BY <2>1, <2>3, <2>4, <2>5
<1>2. CASE L!AllowFirst(Rule)
  <2>1. ~Known \/ now > Info.LastSentAt + Period
    BY <1>0, <1>2 DEF L!AllowFirst, L!Exists, L!Expired, Known, Info
  <2>2. L!Granted(Rule, [Count |-> 1, LastSentAt |-> now])
    BY <1>2 DEF L!AllowFirst
  <2> QED
    BY <1>1, <2>1, <2>2
<1>3. CASE L!AllowAgain(Rule)
  <2>1. /\ Known /\ Info.Count < Limit
        /\ L!Granted(Rule, [Count |-> Info.Count + 1, LastSentAt |-> now])
    BY <1>3 DEF L!AllowAgain, L!Exists, Known, Info
  <2> QED
    BY <1>0, <1>1, <2>1
<1> QED
  BY <1>2, <1>3 DEF Grant

\* A refusal leaves the entry, and the entry is not over.
LEMMA SuppressStep ==
    ASSUME TypeOK, NEW j \in jobs, Suppress(j)
    PROVE  /\ L!TypeOK' /\ now' = now /\ restarts' = restarts
           /\ data' = data /\ hist' = hist
           /\ Known /\ now <= Info.LastSentAt + Period
BY OneKey, SmartLogConfig
   DEF Suppress, L!Deny, L!Exists, L!Expired, Known, Info, TypeOK, L!TypeOK

\* A restart forgets the entry and keeps the history.
LEMMA CrashStep ==
    ASSUME TypeOK, Crash
    PROVE  /\ L!TypeOK' /\ now' = now /\ restarts' = restarts + 1
           /\ hist' = hist /\ ~Known'
BY OneKey
   DEF Crash, L!Restart, L!NoInfo, L!RateLimiterInfo, Known, Info, TypeOK, L!TypeOK

LEMMA TickStep ==
    ASSUME TypeOK, Tick
    PROVE  /\ L!TypeOK' /\ now' = now + 1 /\ restarts' = restarts
           /\ data' = data /\ hist' = hist
BY OneKey DEF Tick, L!Tick, TypeOK, L!TypeOK

\* The other steps leave the limiter alone.
LEMMA OtherStep ==
    ASSUME TypeOK, UNCHANGED limiterVars
    PROVE  L!TypeOK' /\ Info' = Info /\ Known' = Known
BY DEF limiterVars, TypeOK, L!TypeOK, Info, Known
-----------------------------------------------------------------------------
(* Type correctness.                                                       *)

LEMMA InitType == Init => TypeOK
BY SmartLogConfig
   DEF Init, TypeOK, L!Init, L!TypeOK, L!NoInfo, L!Never, L!RateLimiterInfo, Lines

LEMMA MovedType ==
    ASSUME TypeOK, NEW j \in jobs, NEW place \in {"limit", "send", "count"},
           Moved(j, place) \/ Ended(j)
    PROVE  jobs' \subseteq Job
BY DEF TypeOK, Moved, Ended, Job

\* Every step keeps the types.
LEMMA TypeStep ==
    ASSUME TypeOK, [Next]_vars
    PROVE  TypeOK'
<1> USE SmartLogConfig DEF pace
<1>1. CASE WriteLine
  BY <1>1, OtherStep DEF WriteLine, TypeOK, loopVars, histVars
<1>2. CASE Read
  <2>1. L!TypeOK'
    BY <1>2, OtherStep DEF Read
  <2>2. pos \in Nat /\ pos + 1 \in 1..written /\ now \in Nat
    BY <1>2, OneKey DEF Read, TypeOK
  <2>3. jobs' \subseteq Job
    BY <1>2, <2>2 DEF Read, TypeOK, Job, Lines
  <2> QED
    BY <1>2, <2>1, <2>2, <2>3 DEF Read, TypeOK, histVars
<1>3. ASSUME NEW j \in jobs, Dispatch(j)
      PROVE  TypeOK'
  <2>0. j.line \in Lines
    BY DEF TypeOK, Job
  <2>1. CASE Grant(j)
    BY <2>0, <2>1, GrantStep, MovedType DEF Grant, TypeOK, loopVars
  <2>2. CASE Suppress(j)
    BY <2>0, <2>2, SuppressStep, MovedType DEF Suppress, TypeOK, loopVars
  <2>3. CASE Deliver(j)
    <3>1. jobs' \subseteq Job /\ L!TypeOK'
      BY <2>3, OtherStep, MovedType DEF Deliver
    <3>2. sent' \in [Lines -> Nat]
      BY <2>0, <2>3 DEF Deliver, TypeOK
    <3> QED
      BY <2>3, <3>1, <3>2 DEF Deliver, TypeOK, loopVars
  <2>4. CASE DeliverFails(j)
    BY <2>4, OtherStep, MovedType DEF DeliverFails, TypeOK, loopVars, histVars
  <2>5. CASE Count(j)
    BY <2>5, OtherStep, MovedType DEF Count, TypeOK, histVars
  <2>6. CASE CountFails(j)
    BY <2>6, OtherStep, MovedType DEF CountFails, TypeOK, loopVars, histVars
  <2> QED
    BY <1>3, <2>1, <2>2, <2>3, <2>4, <2>5, <2>6 DEF Dispatch
<1>4. CASE Reconcile
  BY <1>4, OneKey, OtherStep DEF Reconcile, TypeOK, histVars
<1>5. CASE LoopTick
  BY <1>5, OtherStep DEF LoopTick, TickDue, TypeOK, histVars
<1>6. CASE Touch
  BY <1>6, OtherStep DEF Touch, TypeOK, histVars
<1>7. CASE Crash
  BY <1>7, CrashStep DEF Crash, TypeOK, histVars
<1>8. CASE Tick
  <2>1. lapses' \in Nat
    BY <1>8 DEF Tick, TypeOK
  <2> QED
    BY <1>8, <2>1, TickStep DEF Tick, TypeOK, loopVars
<1>9. CASE UNCHANGED vars
  BY <1>9, OtherStep DEF vars, TypeOK, loopVars, histVars
<1> QED
  BY <1>1, <1>2, <1>3, <1>4, <1>5, <1>6, <1>7, <1>8, <1>9 DEF Next

\* Type correctness of the composed system (smart-log's alert round).
THEOREM TypeCorrect == Spec => []TypeOK
<1>1. Init => TypeOK
  BY InitType
<1>2. TypeOK /\ [Next]_vars => TypeOK'
  BY TypeStep
<1> QED
  BY <1>1, <1>2, PTL DEF Spec
\* The bounds of a behaviour are numbers and stay what they are.
LEMMA Pace == TypeOK => latency \in Nat /\ catchup \in Nat
BY SmartLogConfig DEF TypeOK

LEMMA PaceStep == [Next]_vars => latency' = latency /\ catchup' = catchup
BY DEF Next, WriteLine, Read, Dispatch, Grant, Suppress, Deliver, DeliverFails, Count,
       CountFails, Reconcile, LoopTick, Touch, Crash, Tick, vars, pace
-----------------------------------------------------------------------------
(* The limiter's own theorems apply.                                       *)

\* No step of the composition does to the limiter what it does not do itself.
LEMMA LimiterKept == Spec => L!Spec
<1>1. Init => L!Init
  BY DEF Init
<1>2. ASSUME [Next]_vars
      PROVE  [L!Next]_(L!vars)
  <2>1. ASSUME NEW j \in jobs, Dispatch(j)
        PROVE  [L!Next]_(L!vars)
    <3>1. CASE Grant(j)
      BY <3>1 DEF Grant, L!Next
    <3>2. CASE Suppress(j)
      BY <3>2 DEF Suppress, L!Next
    <3> QED
      BY <2>1, <3>1, <3>2
         DEF Dispatch, Deliver, DeliverFails, Count, CountFails, limiterVars, L!vars
  <2>2. CASE Crash
    BY <2>2 DEF Crash, L!Next
  <2>3. CASE Tick
    BY <2>3 DEF Tick, L!Next
  <2> QED
    BY <1>2, <2>1, <2>2, <2>3
       DEF Next, WriteLine, Read, Reconcile, LoopTick, Touch, vars, limiterVars, L!vars
<1> QED
  BY <1>1, <1>2, PTL DEF Spec, L!Spec
-----------------------------------------------------------------------------
(* The clock, the places of the dispatches and what has been read.         *)

\* A dispatch that leaves "limit", for "send" or for good.
LEMMA LimitLeft ==
    ASSUME NEW j \in jobs, TypeOK, j.place = "limit", Moved(j, "send") \/ Ended(j)
    PROVE  /\ AtLimit' = AtLimit \ {j}
           /\ \A g \in Granteds' : g \in Granteds \/ (g.line = j.line /\ g.at = j.at)
           /\ Ended(j) => Granteds' = Granteds
BY DEF TypeOK, Job, Moved, Ended, AtLimit, Granteds

\* A dispatch that was granted goes on or ends.
LEMMA GrantedMoves ==
    ASSUME NEW j \in jobs, TypeOK, j.place # "limit", Moved(j, "count") \/ Ended(j)
    PROVE  /\ AtLimit' = AtLimit
           /\ \A g \in Granteds' : \E o \in Granteds : g.line = o.line /\ g.at = o.at
BY DEF TypeOK, Job, Moved, Ended, AtLimit, Granteds

\* A step that concerns neither the clock, the limiter, the stream nor the
\* dispatches at the limit.
LEMMA QuietStep ==
    ASSUME TypeOK, Timing, Reading,
           now' = now, data' = data, written' \in Nat, written' >= written,
           UNCHANGED <<loopAt, pos, offered, latency>>, AtLimit' = AtLimit,
           \A j \in jobs' : \E o \in jobs : j.line = o.line,
           \A g \in Granteds' : \E o \in Granteds : g.line = o.line /\ g.at = o.at
    PROVE  Timing' /\ Reading'
<1>1. Info' = Info /\ Known' = Known
  BY DEF Info, Known
<1>2. Timing'
  BY <1>1 DEF Timing
<1>3. \A j \in jobs : j.line \in Nat
  BY DEF TypeOK, Job, Lines
<1>4. Reading'
  BY <1>1, <1>3 DEF Reading, TypeOK
<1> QED
  BY <1>2, <1>4

LEMMA InitTiming == Init => Timing /\ Reading
BY SmartLogConfig
   DEF Init, Timing, Reading, L!Init, L!NoInfo, Known, Info, AtLimit, Granteds

\* Every step keeps the two invariants.
LEMMA TimingStep ==
    ASSUME TypeOK, Timing, Reading, [Next]_vars
    PROVE  Timing' /\ Reading'
<1> USE SmartLogConfig
<1>0. /\ now \in Nat /\ Info \in [Count : Nat, LastSentAt : Nat]
      /\ written \in Nat /\ None \notin Nat
      /\ \A j \in jobs : j.line \in Nat /\ j.line >= 1 /\ j.at \in Nat
      /\ pos \in Nat \cup {None} /\ loopAt \in Nat \cup {None}
      /\ latency \in Nat /\ latency' = latency
  <2>1. /\ written \in Nat /\ None \notin Nat
        /\ pos \in Nat \cup {None} /\ loopAt \in Nat \cup {None}
    BY DEF TypeOK
  <2>2. \A j \in jobs : j.line \in Nat /\ j.line >= 1 /\ j.at \in Nat
    BY DEF TypeOK, Job, Lines
  <2> QED  BY OneKey, Pace, PaceStep, <2>1, <2>2
<1>1. CASE WriteLine
  <2>1. AtLimit' = AtLimit /\ Granteds' = Granteds /\ jobs' = jobs
    BY <1>1 DEF WriteLine, AtLimit, Granteds
  <2> QED
    BY <1>0, <1>1, <2>1, QuietStep DEF WriteLine, limiterVars, loopVars, histVars
<1>2. CASE Read
  <2> DEFINE new == [line |-> pos + 1, at |-> now, place |-> "limit"]
  <2>1. /\ AtLimit' = AtLimit \cup {new} /\ Granteds' = Granteds
        /\ jobs' = jobs \cup {new}
        /\ new.line = pos + 1 /\ new.at = now
    BY <1>2 DEF Read, AtLimit, Granteds
  <2>2. /\ pos \in Nat /\ pos' = pos + 1 /\ pos + 1 <= written /\ pos # None
        /\ UNCHANGED <<now, written, loopAt, offered>>
        /\ Info' = Info /\ Known' = Known
    BY <1>0, <1>2 DEF Read, limiterVars, histVars, Info, Known
  <2> HIDE DEF new
  <2>3. Timing'
    BY <1>0, <2>1, <2>2 DEF Timing
  <2>4. Reading'
    <3>1. 1..pos' \subseteq offered \cup {j.line : j \in AtLimit'}
      BY <1>0, <2>1, <2>2 DEF Reading
    <3>2. \A j \in AtLimit' : j.line <= pos'
      BY <1>0, <2>1, <2>2 DEF Reading, AtLimit
    <3> QED
      BY <1>0, <2>1, <2>2, <3>1, <3>2 DEF Reading
  <2> QED
    BY <2>3, <2>4
<1>3. ASSUME NEW j \in jobs, Dispatch(j)
      PROVE  Timing' /\ Reading'
  <2>1. CASE Grant(j)
    <3>1. /\ j \in AtLimit /\ AtLimit' = AtLimit \ {j}
          /\ \A g \in Granteds' : g \in Granteds \/ (g.line = j.line /\ g.at = j.at)
      BY <2>1, LimitLeft DEF Grant, AtLimit
    <3>2. /\ now' = now /\ Info'.LastSentAt = now /\ Known'
          /\ Info'.Count \in Nat /\ Info'.Count <= Limit
      BY <1>0, <2>1, GrantStep DEF Known
    <3>3. UNCHANGED <<written, loopAt, pos>> /\ offered' = offered \cup {j.line}
      BY <2>1 DEF Grant, loopVars
    <3>4. \A i \in jobs' : \E o \in jobs : i.line = o.line
      BY <2>1 DEF Grant, Moved, TypeOK, Job
    <3>5. Timing'
      <4>1. j.at = now
        BY <3>1 DEF Timing
      <4>2. \A g \in Granteds : g.at \in Nat /\ g.at <= now /\ now <= g.at + latency
        BY <1>0 DEF Timing, Granteds
      <4>3. \A g \in Granteds' : g.at <= now /\ now <= g.at + latency
        BY <1>0, <3>1, <4>1, <4>2
      <4> QED
        BY <1>0, <3>1, <3>2, <3>3, <4>3 DEF Timing
    <3>6. Reading'
      <4>1. j.line \in 1..written
        BY <1>0 DEF Reading
      <4>2. offered' \subseteq 1..written'
        BY <3>3, <4>1 DEF Reading
      <4>3. \A i \in jobs' : i.line <= written'
        BY <3>3, <3>4 DEF Reading
      <4>4. pos' # None => 1..pos' \subseteq offered' \cup {i.line : i \in AtLimit'}
        BY <3>1, <3>3 DEF Reading
      <4>5. pos' # None => \A i \in AtLimit' : i.line <= pos'
        BY <3>1, <3>3 DEF Reading
      <4>6. \A g \in Granteds' : g.line \in offered'
        BY <3>1, <3>3 DEF Reading
      <4> QED
        BY <3>3, <4>2, <4>3, <4>4, <4>5, <4>6 DEF Reading
    <3> QED
      BY <3>5, <3>6
  <2>2. CASE Suppress(j)
    <3>1. /\ j \in AtLimit /\ AtLimit' = AtLimit \ {j} /\ Granteds' = Granteds
          /\ jobs' = jobs \ {j}
      BY <2>2, LimitLeft DEF Suppress, AtLimit, Ended
    <3>2. now' = now /\ Info' = Info /\ Known' = Known
      BY <2>2, SuppressStep DEF Known, Info
    <3>3. UNCHANGED <<written, loopAt, pos>> /\ offered' = offered \cup {j.line}
      BY <2>2 DEF Suppress, loopVars
    <3>5. Timing'
      BY <1>0, <3>1, <3>2, <3>3 DEF Timing
    <3>6. Reading'
      <4>1. j.line \in 1..written
        BY <1>0 DEF Reading
      <4>2. offered' \subseteq 1..written'
        BY <3>3, <4>1 DEF Reading
      <4>3. pos' # None => 1..pos' \subseteq offered' \cup {i.line : i \in AtLimit'}
        BY <3>1, <3>3 DEF Reading
      <4>4. pos' # None => \A i \in AtLimit' : i.line <= pos'
        BY <3>1, <3>3 DEF Reading
      <4> QED
        BY <3>1, <3>2, <3>3, <4>2, <4>3, <4>4 DEF Reading
    <3> QED
      BY <3>5, <3>6
  <2>3. ASSUME Deliver(j) \/ DeliverFails(j) \/ Count(j) \/ CountFails(j)
        PROVE  Timing' /\ Reading'
    <3>1. /\ j.place # "limit" /\ (Moved(j, "count") \/ Ended(j))
          /\ UNCHANGED <<limiterVars, written, loopAt, pos, offered>>
      BY <2>3 DEF Deliver, DeliverFails, Count, CountFails, loopVars, histVars
    <3>2. /\ AtLimit' = AtLimit
          /\ \A g \in Granteds' : \E o \in Granteds : g.line = o.line /\ g.at = o.at
      BY <3>1, GrantedMoves
    <3>3. \A i \in jobs' : \E o \in jobs : i.line = o.line
      BY <3>1 DEF Moved, Ended, TypeOK, Job
    <3> QED
      BY <1>0, <3>1, <3>2, <3>3, QuietStep DEF limiterVars
  <2> QED
    BY <1>3, <2>1, <2>2, <2>3 DEF Dispatch
<1>4. CASE Reconcile
  <2>1. /\ loopAt' = now /\ pos' = None
        /\ UNCHANGED <<now, data, written, jobs, offered>>
    BY <1>4 DEF Reconcile, limiterVars, histVars
  <2> QED
    BY <1>0, <2>1 DEF Timing, Reading, AtLimit, Granteds, Info, Known
<1>5. CASE LoopTick
  <2>1. /\ loopAt # None /\ pos = None /\ now >= loopAt + Delay /\ pos' = 0
        /\ UNCHANGED <<now, data, written, loopAt, jobs, offered>>
    BY <1>5 DEF LoopTick, TickDue, limiterVars, histVars
  <2>2. AtLimit = {}
    BY <1>0, <2>1 DEF Timing, AtLimit
  <2>3. AtLimit' = {} /\ Granteds' = Granteds /\ Info' = Info /\ Known' = Known
    BY <2>1, <2>2 DEF AtLimit, Granteds, Info, Known
  <2> QED
    BY <1>0, <2>1, <2>3 DEF Timing, Reading
<1>6. CASE Touch
  <2>1. AtLimit' = AtLimit /\ Granteds' = Granteds /\ jobs' = jobs
    BY <1>6 DEF Touch, AtLimit, Granteds
  <2> QED
    BY <1>0, <1>6, <2>1, QuietStep DEF Touch, limiterVars, histVars
<1>7. CASE Crash
  <2>1. /\ jobs' = {} /\ loopAt' = None /\ pos' = None /\ now' = now /\ ~Known'
        /\ UNCHANGED <<written, offered>>
    BY <1>7, CrashStep DEF Crash, histVars
  <2>2. AtLimit' = {} /\ Granteds' = {}
    BY <2>1 DEF AtLimit, Granteds
  <2> QED
    BY <1>0, <2>1, <2>2 DEF Timing, Reading
<1>8. CASE Tick
  <2>1. /\ now' = now + 1 /\ data' = data
        /\ UNCHANGED <<written, loopAt, pos, jobs, offered>>
    BY <1>8, TickStep DEF Tick, loopVars, histVars
  <2>2. /\ AtLimit = {} /\ \A j \in jobs : ~(now >= j.at + latency)
        /\ ~(loopAt # None /\ pos = None /\ now >= loopAt + Delay)
    BY <1>8 DEF Tick, Urgent, TickDue, AtLimit
  <2>3. AtLimit' = {} /\ Granteds' = Granteds /\ Info' = Info /\ Known' = Known
    BY <2>1, <2>2 DEF AtLimit, Granteds, Info, Known
  <2>4. Timing'
    BY <1>0, <2>1, <2>2, <2>3 DEF Timing, Granteds
  <2>5. Reading'
    BY <1>0, <2>1, <2>2, <2>3 DEF Reading
  <2> QED
    BY <2>4, <2>5
<1>9. CASE UNCHANGED vars
  <2>1. AtLimit' = AtLimit /\ Granteds' = Granteds /\ jobs' = jobs
    BY <1>9 DEF vars, AtLimit, Granteds
  <2> QED
    BY <1>0, <1>9, <2>1, QuietStep DEF vars, limiterVars, loopVars, histVars
<1> QED
  BY <1>1, <1>2, <1>3, <1>4, <1>5, <1>6, <1>7, <1>8, <1>9 DEF Next
-----------------------------------------------------------------------------
(* A prompt round does not lapse.                                          *)

LEMMA InitPrompt == Init => Prompt /\ LapseFree
BY DEF Init, Prompt, LapseFree

\* Every step keeps the rounds close to the grants they go back to.
LEMMA PromptStep ==
    ASSUME TypeOK, Timing, Prompt, [Next]_vars
    PROVE  Prompt'
<1>0. /\ now \in Nat /\ Info \in [Count : Nat, LastSentAt : Nat]
      /\ loopAt \in Nat \cup {None} /\ latency \in Nat /\ latency' = latency
  BY OneKey, Pace, PaceStep DEF TypeOK
<1>1. ASSUME UNCHANGED <<data, outside, loopAt, pending>>, now' = now
      PROVE  Prompt'
  BY <1>0, <1>1 DEF Prompt, Known, Info
<1>2. CASE WriteLine \/ Read \/ LoopTick \/ UNCHANGED vars
  BY <1>1, <1>2
     DEF WriteLine, Read, LoopTick, vars, limiterVars, loopVars, histVars
<1>3. ASSUME NEW j \in jobs, Dispatch(j)
      PROVE  Prompt'
  <2>1. CASE Grant(j)
    <3>1. now' = now /\ Info'.LastSentAt = now /\ Info'.Count \in Nat /\ Info'.Count # 0
      BY <1>0, <2>1, GrantStep DEF Known
    <3>2. loopAt' = loopAt
      BY <2>1 DEF Grant, loopVars
    <3>3. loopAt # None => loopAt \in Nat /\ loopAt <= now
      BY <1>0 DEF Timing
    <3> QED
      BY <1>0, <3>1, <3>2, <3>3 DEF Prompt, Known
  <2>2. CASE Suppress(j)
    BY <1>1, <2>2, SuppressStep DEF Suppress, loopVars
  <2>3. CASE Deliver(j) \/ DeliverFails(j) \/ CountFails(j)
    BY <1>1, <2>3 DEF Deliver, DeliverFails, CountFails, limiterVars, loopVars, histVars
  <2>4. CASE Count(j)
    <3>1. /\ UNCHANGED <<now, data, outside, loopAt>> /\ j.place = "count"
      BY <2>4 DEF Count, limiterVars, histVars
    <3>2. Known /\ now <= Info.LastSentAt + latency
      <4>1. j \in Granteds /\ j.at \in Nat
        BY <3>1 DEF Granteds, AtLimit, TypeOK, Job
      <4> QED
        BY <1>0, <4>1 DEF Timing
    <3> QED
      BY <1>0, <3>1, <3>2 DEF Prompt, Known, Info
  <2> QED
    BY <1>3, <2>1, <2>2, <2>3, <2>4 DEF Dispatch
<1>4. CASE Reconcile
  <2>1. /\ UNCHANGED <<now, data, outside>> /\ loopAt' = now /\ pending /\ ~pending'
    BY <1>4 DEF Reconcile, limiterVars, histVars
  <2> QED
    BY <1>0, <2>1 DEF Prompt, Known, Info
<1>5. CASE Touch \/ Crash
  BY <1>5 DEF Touch, Crash, Prompt
<1>6. CASE Tick
  <2>1. UNCHANGED <<data, outside, loopAt, pending>> /\ ~pending
    BY <1>6, TickStep DEF Tick, Urgent, loopVars
  <2> QED
    BY <1>0, <2>1 DEF Prompt, Known, Info
<1> QED
  BY <1>2, <1>3, <1>4, <1>5, <1>6 DEF Next

\* When the clock may tick, what is under way is not overdue.
LEMMA NotOverdue ==
    ASSUME TypeOK, Timing, Prompt, Outstanding, ~outside, ~Urgent
    PROVE  Known /\ now < Info.LastSentAt + latency + Delay + catchup
<1>0. /\ now \in Nat /\ Info \in [Count : Nat, LastSentAt : Nat]
      /\ latency \in Nat /\ catchup \in Nat /\ Delay \in Nat
  BY OneKey, Pace, SmartLogConfig
<1>1. Known /\ (loopAt # None => loopAt <= Info.LastSentAt + latency)
  BY DEF Prompt
<1>2. loopAt # None => loopAt \in Nat
  BY DEF TypeOK
<1>3. CASE loopAt # None /\ pos = None
  BY <1>0, <1>1, <1>2, <1>3 DEF Urgent, TickDue
<1>4. CASE pos # None /\ \E i \in offered : i > pos
  <2>1. loopAt # None /\ ~(now >= loopAt + Delay + catchup)
    BY <1>4 DEF Urgent, TypeOK
  <2> QED
    BY <1>0, <1>1, <1>2, <2>1
<1>5. CASE \E j \in jobs : j.place # "limit"
  <2>1. PICK j \in jobs : j.place # "limit"
    BY <1>5
  <2>2. j.at \in Nat /\ j.at <= Info.LastSentAt /\ ~(now >= j.at + latency)
    BY <2>1 DEF Timing, Granteds, AtLimit, TypeOK, Job, Urgent
  <2> QED
    BY <1>0, <1>1, <2>2
<1>6. ~pending /\ \A j \in jobs : j.place # "limit"
  BY DEF Urgent
<1> QED
  BY <1>3, <1>4, <1>5, <1>6 DEF Outstanding, Replaying

LEMMA LapseStep ==
    ASSUME TypeOK, Timing, Prompt, LapseFree, [Next]_vars
    PROVE  LapseFree'
<1>1. SUFFICES ASSUME latency + Delay + catchup <= Period
               PROVE  lapses' = 0
  BY PaceStep DEF LapseFree
<1>2. lapses = 0
  BY <1>1 DEF LapseFree
<1>3. CASE Tick
  <2>1. ~Lapsing
    <3>1. SUFFICES ASSUME Lapsing PROVE FALSE
      OBVIOUS
    <3>2. Known /\ now < Info.LastSentAt + latency + Delay + catchup
      BY <1>3, <3>1, NotOverdue DEF Tick, Lapsing
    <3>3. now = Info.LastSentAt + Period
      BY <3>1 DEF Lapsing, Info
    <3> QED
      BY <1>1, <3>2, <3>3, OneKey, Pace, SmartLogConfig
  <2> QED
    BY <1>2, <1>3, <2>1 DEF Tick
<1>4. CASE ~Tick
  <2>1. lapses' = lapses
    BY <1>4
       DEF Next, WriteLine, Read, Dispatch, Grant, Suppress, Deliver, DeliverFails,
           Count, CountFails, Reconcile, LoopTick, Touch, Crash, vars, histVars
  <2> QED
    BY <1>2, <2>1
<1> QED
  BY <1>3, <1>4
-----------------------------------------------------------------------------
(* The round is paid for.                                                  *)

\* Multiplication by the limit, as far as it is needed.
LEMMA LimitTimes ==
    /\ \A a \in Nat : Limit * a \in Nat
    /\ \A a, b \in Nat : a <= b => Limit * a <= Limit * b
    /\ \A a \in Nat : Limit * (a + 1) = Limit * a + Limit
BY SmartLogConfig

\* Nothing new to pay: neither the bill nor what is due grows.
LEMMA PaidKept ==
    \A h, d, c, h2, d2, c2 \in Nat :
        /\ h + Limit * d <= Limit * c
        /\ \/ h2 <= h /\ d2 <= d /\ c <= c2
           \/ h2 <= h /\ d2 <= d + 1 /\ c + 1 <= c2
           \/ h2 <= h + Limit /\ d2 + 1 <= d /\ c <= c2
        => h2 + Limit * d2 <= Limit * c2
<1> SUFFICES ASSUME NEW h \in Nat, NEW d \in Nat, NEW c \in Nat,
                    NEW h2 \in Nat, NEW d2 \in Nat, NEW c2 \in Nat,
                    h + Limit * d <= Limit * c,
                    \/ h2 <= h /\ d2 <= d /\ c <= c2
                    \/ h2 <= h /\ d2 <= d + 1 /\ c + 1 <= c2
                    \/ h2 <= h + Limit /\ d2 + 1 <= d /\ c <= c2
             PROVE  h2 + Limit * d2 <= Limit * c2
  OBVIOUS
<1>1. /\ Limit * d \in Nat /\ Limit * d2 \in Nat
      /\ Limit * c \in Nat /\ Limit * c2 \in Nat
      /\ Limit * (d + 1) = Limit * d + Limit /\ Limit * (c + 1) = Limit * c + Limit
      /\ Limit * (d2 + 1) = Limit * d2 + Limit
      /\ Limit \in Nat
  BY LimitTimes, SmartLogConfig
<1>2. /\ c <= c2 => Limit * c <= Limit * c2
      /\ c + 1 <= c2 => Limit * (c + 1) <= Limit * c2
      /\ d2 <= d => Limit * d2 <= Limit * d
      /\ d2 <= d + 1 => Limit * d2 <= Limit * (d + 1)
      /\ d2 + 1 <= d => Limit * (d2 + 1) <= Limit * d
  BY LimitTimes, d + 1 \in Nat, c + 1 \in Nat, d2 + 1 \in Nat
<1> QED
  BY <1>1, <1>2

\* What is due and what has been spent are numbers.
Numeric ==
    /\ IsFiniteSet(Unoffered) /\ Cardinality(Unoffered) \in Nat
    /\ Due \in Nat /\ Left \in Nat /\ Left <= Limit
    /\ Charged \in Nat /\ Spent \in Nat /\ Len(hist[Rule]) <= Spent

LEMMA Numbers == TypeOK /\ Timing => Numeric
<1> SUFFICES ASSUME TypeOK, Timing PROVE Numeric
  OBVIOUS
<1>1. IsFiniteSet(1..written)
  BY FS_Interval DEF TypeOK
<1>2. IsFiniteSet(Unoffered) /\ Cardinality(Unoffered) \in Nat
  BY <1>1, FS_Subset, FS_CardinalityType DEF Unoffered
<1>3. Left \in Nat /\ Left <= Limit
  BY OneKey, SmartLogConfig DEF Left, Timing
<1>4. Due \in Nat
  BY <1>2 DEF Due
<1>5. Charged \in Nat
  BY OneKey, SmartLogConfig DEF Charged, TypeOK
<1>6. Spent \in Nat /\ Len(hist[Rule]) <= Spent
  BY <1>3, OneKey DEF Spent
<1> QED
  BY <1>2, <1>3, <1>4, <1>5, <1>6 DEF Numeric

LEMMA NumbersNext == (TypeOK /\ Timing => Numeric)'
BY Numbers, PTL

\* A line that is offered is no longer due.
LEMMA OfferedLine ==
    ASSUME TypeOK, Timing, Reading, NEW j \in jobs,
           offered' = offered \cup {j.line}, written' = written
    PROVE  /\ Cardinality(Unoffered') <= Cardinality(Unoffered)
           /\ j.line \notin offered =>
                  Cardinality(Unoffered') + 1 = Cardinality(Unoffered)
<1>1. Unoffered' = Unoffered \ {j.line}
  BY DEF Unoffered
<1>2. j.line \in 1..written
  BY DEF TypeOK, Job, Lines, Reading
<1>3. IsFiniteSet(Unoffered) /\ Cardinality(Unoffered) \in Nat
  BY Numbers DEF Numeric
<1>4. CASE j.line \in offered
  <2>1. Unoffered' = Unoffered
    BY <1>1, <1>4 DEF Unoffered
  <2> QED
    BY <1>3, <1>4, <2>1
<1>5. CASE j.line \notin offered
  <2>1. j.line \in Unoffered
    BY <1>2, <1>5 DEF Unoffered
  <2>2. Cardinality(Unoffered') = Cardinality(Unoffered) - 1
    BY <1>1, <1>3, <2>1, FS_RemoveElement
  <2> QED
    BY <1>3, <1>5, <2>2
<1> QED
  BY <1>4, <1>5

LEMMA InitPaid == Init => Paid
<1> SUFFICES ASSUME Init PROVE Paid
  OBVIOUS
<1>1. /\ hist[Rule] = <<>> /\ ~Known /\ offered = {} /\ written = 0
      /\ touches = 0 /\ restarts = 0 /\ lapses = 0
  BY DEF Init, L!Init, L!NoInfo, Known, Info
<1>2. Unoffered = {}
  BY <1>1 DEF Unoffered
<1>3. Due = 0 /\ Left = 0 /\ Charged = 0
  BY <1>1, <1>2, FS_EmptySet DEF Due, Safe, Left, Charged
<1>4. Len(hist[Rule]) = 0
  BY <1>1
<1> QED
  BY <1>3, <1>4, LimitTimes DEF Paid, Spent

\* What a step may spend.
LEMMA PaidStep ==
    ASSUME TypeOK, Timing, Paid, TypeOK', Timing',
           \/ Spent' <= Spent /\ Due' <= Due /\ Charged <= Charged'
           \/ Spent' <= Spent /\ Due' <= Due + 1 /\ Charged + 1 <= Charged'
           \/ Spent' <= Spent + Limit /\ Due' + 1 <= Due /\ Charged <= Charged'
    PROVE  Paid'
<1> DEFINE h == Spent
           d == Due
           c == Charged
           h2 == Spent'
           d2 == Due'
           c2 == Charged'
<1>1. h \in Nat /\ d \in Nat /\ c \in Nat
  BY Numbers DEF Numeric
<1>2. h2 \in Nat /\ d2 \in Nat /\ c2 \in Nat
  BY NumbersNext DEF Numeric
<1>3. /\ h + Limit * d <= Limit * c
      /\ \/ h2 <= h /\ d2 <= d /\ c <= c2
         \/ h2 <= h /\ d2 <= d + 1 /\ c + 1 <= c2
         \/ h2 <= h + Limit /\ d2 + 1 <= d /\ c <= c2
  BY DEF Paid
<1> HIDE DEF h, d, c, h2, d2, c2
<1>4. h2 + Limit * d2 <= Limit * c2
  BY <1>1, <1>2, <1>3, PaidKept
<1> USE DEF h2, d2, c2
<1> QED
  BY <1>4 DEF Paid

\* A grant uses what is left of the burst, or begins one that was due.
LEMMA PaidGrant ==
    ASSUME TypeOK, Timing, Reading, Paid, TypeOK', Timing', Reading',
           NEW j \in jobs, Grant(j)
    PROVE  Paid'
<1> USE SmartLogConfig
<1>0. /\ now \in Nat /\ Info \in [Count : Nat, LastSentAt : Nat]
      /\ Len(hist[Rule]) \in Nat
      /\ loopAt \in Nat \cup {None}
      /\ Cardinality(Unoffered) \in Nat /\ Cardinality(Unoffered') \in Nat
      /\ Charged \in Nat
      /\ Period \in Nat
  BY OneKey, Numbers, NumbersNext DEF TypeOK, Numeric
<1>1. /\ now' = now /\ restarts' = restarts /\ Info'.LastSentAt = now
      /\ Len(hist'[Rule]) = Len(hist[Rule]) + 1
      /\ \/ Info'.Count = 1 /\ (~Known \/ now > Info.LastSentAt + Period)
         \/ Info'.Count = Info.Count + 1 /\ Known /\ Info.Count < Limit
  BY GrantStep
<1>2. /\ offered' = offered \cup {j.line} /\ j.place = "limit" /\ ~outside'
      /\ UNCHANGED <<written, loopAt, pos, pending, touches, lapses>>
  BY DEF Grant, loopVars
<1>3. Known' /\ Charged' = Charged
  BY <1>0, <1>1, <1>2 DEF Known, Charged
<1>4. Safe'
  BY <1>0, <1>1, <1>2, <1>3 DEF Safe, Warm
<1>5. Due' = Cardinality(Unoffered')
  BY <1>0, <1>4 DEF Due
<1>6. CASE Info'.Count = 1 /\ (~Known \/ now > Info.LastSentAt + Period)
  <2>1. Spent' <= Spent + Limit
    <3>1. Left' = Limit - 1
      BY <1>3, <1>6 DEF Left
    <3>2. Left \in Nat
      BY Numbers, <1>0 DEF Left, Timing
    <3> QED
      BY <1>0, <1>1, <3>1, <3>2 DEF Spent
  <2>2. CASE j.line \in offered
    <3>1. Outstanding /\ offered # {}
      BY <1>2, <2>2 DEF Outstanding, Replaying
    <3>2. ~Safe
      BY <1>0, <1>6, <3>1 DEF Safe, Warm
    <3>3. Due = Cardinality(Unoffered) + 1
      BY <3>2 DEF Due
    <3>4. Cardinality(Unoffered') <= Cardinality(Unoffered)
      BY <1>2, OfferedLine
    <3> QED
      BY <1>0, <1>3, <1>5, <2>1, <3>3, <3>4, PaidStep
  <2>3. CASE j.line \notin offered
    <3>1. Cardinality(Unoffered') + 1 = Cardinality(Unoffered)
      BY <1>2, <2>3, OfferedLine
    <3>2. Due >= Cardinality(Unoffered)
      BY <1>0 DEF Due
    <3> QED
      BY <1>0, <1>3, <1>5, <2>1, <3>1, <3>2, Numbers, PaidStep DEF Numeric
  <2> QED
    BY <2>2, <2>3
<1>7. CASE Info'.Count = Info.Count + 1 /\ Known /\ Info.Count < Limit
  <2>1. Left = Limit - Info.Count /\ Left' = Limit - Info.Count - 1
    BY <1>0, <1>3, <1>7 DEF Left
  <2>2. Spent' <= Spent
    BY <1>0, <1>1, <2>1 DEF Spent
  <2>3. Due' <= Due
    <3>1. Cardinality(Unoffered') <= Cardinality(Unoffered)
      BY <1>2, OfferedLine
    <3> QED
      BY <1>0, <1>5, <3>1 DEF Due
  <2> QED
    BY <1>0, <1>3, <2>2, <2>3, PaidStep
<1> QED
  BY <1>1, <1>6, <1>7

\* A step that neither grants nor charges may make no replay unsafe.
LEMMA PaidSafe ==
    ASSUME TypeOK, Timing, Paid, TypeOK', Timing',
           data' = data, hist' = hist, Charged' = Charged,
           written' = written, offered' = offered, Safe => Safe'
    PROVE  Paid'
<1>1. Spent' = Spent
  BY DEF Spent, Left, Known, Info
<1>2. Unoffered' = Unoffered
  BY DEF Unoffered
<1>3. Due' <= Due /\ Spent \in Nat /\ Charged \in Nat
  BY <1>2, Numbers DEF Due, Numeric
<1> QED
  BY <1>1, <1>3, PaidStep

\* Every step keeps the round paid for.
LEMMA PaidNext ==
    ASSUME IInv, [Next]_vars, TypeOK', Timing', Reading'
    PROVE  Paid'
<1> USE SmartLogConfig
<1> USE DEF IInv
<1>a. /\ loopAt \in Nat \cup {None} /\ pos \in Nat \cup {None}
      /\ written \in Nat /\ touches \in Nat /\ lapses \in Nat
      /\ None \notin Nat /\ Period \in Nat
  BY DEF TypeOK
<1>0. /\ now \in Nat /\ Info \in [Count : Nat, LastSentAt : Nat]
      /\ loopAt \in Nat \cup {None} /\ pos \in Nat \cup {None}
      /\ written \in Nat /\ touches \in Nat /\ restarts \in Nat /\ lapses \in Nat
      /\ None \notin Nat /\ Period \in Nat
      /\ Cardinality(Unoffered) \in Nat /\ IsFiniteSet(Unoffered)
      /\ Spent \in Nat /\ Charged \in Nat /\ Due \in Nat
  BY <1>a, OneKey, Numbers DEF Numeric
<1>1. CASE WriteLine
  <2>1. /\ written' = written + 1
        /\ UNCHANGED <<now, data, hist, restarts, touches, loopAt, pos, pending, jobs>>
        /\ UNCHANGED <<offered, outside, lapses>>
    BY <1>1 DEF WriteLine, limiterVars, loopVars, histVars
  <2>2. Spent' = Spent /\ Charged' = Charged + 1
    BY <1>0, <2>1 DEF Spent, Left, Known, Info, Charged
  <2>3. Safe' = Safe
    BY <2>1 DEF Safe, Warm, Outstanding, Replaying, Known, Info
  <2>4. Unoffered' = Unoffered \/ Unoffered' = Unoffered \cup {written + 1}
    BY <1>0, <2>1 DEF Unoffered
  <2>5. Cardinality(Unoffered') <= Cardinality(Unoffered) + 1
    <3>1. Cardinality(Unoffered \cup {written + 1}) \in
              {Cardinality(Unoffered), Cardinality(Unoffered) + 1}
      BY <1>0, FS_AddElement
    <3> QED
      BY <1>0, <2>4, <3>1
  <2>6. Cardinality(Unoffered') \in Nat
    BY NumbersNext DEF Numeric
  <2>7. Due' <= Due + 1
    BY <1>0, <2>3, <2>5, <2>6 DEF Due
  <2> QED
    BY <1>0, <2>2, <2>7, PaidStep
<1>2. CASE Read
  <2> DEFINE new == [line |-> pos + 1, at |-> now, place |-> "limit"]
  <2>1. /\ UNCHANGED <<now, data, hist, restarts, touches, written, loopAt, pending>>
        /\ UNCHANGED <<offered, outside, lapses>>
        /\ pos # None /\ pos \in Nat /\ pos' = pos + 1
        /\ jobs' = jobs \cup {new} /\ new.line = pos + 1 /\ new.place = "limit"
    BY <1>0, <1>2 DEF Read, limiterVars, histVars
  <2> HIDE DEF new
  <2>2. \A i \in offered : i \in Nat
    BY DEF TypeOK, Lines
  <2>3. Replaying' => Replaying
    <3>1. CASE \E i \in offered : i > pos + 1
      BY <2>1, <2>2, <3>1 DEF Replaying
    <3>2. CASE \E j \in jobs' : j.place = "limit" /\ j.line \in offered
      <4>1. PICK j \in jobs' : j.place = "limit" /\ j.line \in offered
        BY <3>2
      <4>2. CASE j \in jobs
        BY <4>1, <4>2 DEF Replaying
      <4>3. CASE j = new
        <5>1. pos + 1 \in offered /\ pos + 1 > pos
          BY <2>1, <4>1, <4>3
        <5> QED
          BY <2>1, <5>1 DEF Replaying
      <4> QED
        BY <2>1, <4>1, <4>2, <4>3
    <3> QED
      BY <2>1, <3>1, <3>2 DEF Replaying
  <2>4. Outstanding' => Outstanding
    BY <2>1, <2>3 DEF Outstanding
  <2>5. Safe => Safe'
    BY <2>1, <2>4 DEF Safe, Warm, Known, Info
  <2> QED
    BY <2>1, <2>5, PaidSafe DEF Charged
<1>3. ASSUME NEW j \in jobs, Dispatch(j)
      PROVE  Paid'
  <2>1. CASE Grant(j)
    BY <2>1, PaidGrant
  <2>2. CASE Suppress(j)
    <3>1. /\ now' = now /\ restarts' = restarts /\ data' = data /\ hist' = hist
          /\ Known /\ now <= Info.LastSentAt + Period
      BY <2>2, SuppressStep
    <3>2. /\ j.place = "limit" /\ offered' = offered \cup {j.line}
          /\ UNCHANGED <<written, touches, outside, lapses>>
      BY <2>2 DEF Suppress
    <3>3. Safe => Safe'
      BY <3>1, <3>2 DEF Safe, Warm, Reading, Known, Info
    <3>4. Cardinality(Unoffered') <= Cardinality(Unoffered) /\ Cardinality(Unoffered') \in Nat
      BY <3>2, OfferedLine, NumbersNext DEF Numeric
    <3>5. Due' <= Due
      BY <1>0, <3>3, <3>4 DEF Due
    <3>6. Spent' = Spent /\ Charged' = Charged
      BY <3>1, <3>2 DEF Spent, Left, Known, Info, Charged
    <3> QED
      BY <1>0, <3>5, <3>6, PaidStep
  <2>3. ASSUME Deliver(j) \/ DeliverFails(j) \/ CountFails(j)
        PROVE  Paid'
    <3>1. /\ j.place # "limit" /\ (Moved(j, "count") \/ Ended(j))
          /\ UNCHANGED <<limiterVars, written, loopAt, pos, pending, touches>>
          /\ UNCHANGED <<offered, outside, lapses>>
      BY <2>3 DEF Deliver, DeliverFails, CountFails, loopVars, histVars
    <3>2. Outstanding' => Outstanding
      BY <3>1 DEF Outstanding
    <3>3. Safe => Safe'
      BY <3>1, <3>2 DEF Safe, Warm, Known, Info, limiterVars
    <3> QED
      BY <3>1, <3>3, PaidSafe DEF limiterVars, Charged
  <2>4. CASE Count(j)
    <3>1. /\ j.place # "limit" /\ (Moved(j, "count") \/ Ended(j)) /\ pending' = TRUE
          /\ UNCHANGED <<limiterVars, written, offered, touches, outside, lapses>>
      BY <2>4 DEF Count, histVars
    <3>2. Outstanding
      BY <3>1 DEF Outstanding
    <3>3. Safe => Safe'
      BY <3>1, <3>2 DEF Safe, Warm, Known, Info, limiterVars
    <3> QED
      BY <3>1, <3>3, PaidSafe DEF limiterVars, Charged
  <2> QED
    BY <1>3, <2>1, <2>2, <2>3, <2>4 DEF Dispatch
<1>4. CASE Reconcile
  <2>1. /\ pending /\ pending' = FALSE /\ loopAt' = now /\ pos' = None /\ jobs' = jobs
        /\ UNCHANGED <<now, data, hist, restarts, touches, written, offered>>
        /\ UNCHANGED <<outside, lapses>>
    BY <1>4 DEF Reconcile, limiterVars, histVars
  <2>2. Safe => Safe'
    BY <2>1 DEF Safe, Warm, Outstanding, Known, Info
  <2> QED
    BY <2>1, <2>2, PaidSafe DEF Charged
<1>5. CASE LoopTick
  <2>1. /\ loopAt # None /\ pos = None /\ pos' = 0 /\ jobs' = jobs
        /\ UNCHANGED <<now, data, hist, restarts, touches, written, offered>>
        /\ UNCHANGED <<outside, lapses>>
    BY <1>5 DEF LoopTick, TickDue, limiterVars, histVars
  <2>2. Safe => Safe'
    BY <2>1 DEF Safe, Warm, Outstanding, Known, Info
  <2> QED
    BY <2>1, <2>2, PaidSafe DEF Charged
<1>6. CASE Touch
  <2>1. /\ touches' = touches + 1
        /\ UNCHANGED <<data, hist, restarts, written, offered, lapses>>
    BY <1>6 DEF Touch, limiterVars, histVars
  <2>2. Spent' = Spent /\ Charged' = Charged + 1 /\ Unoffered' = Unoffered
    BY <1>0, <2>1 DEF Spent, Left, Known, Info, Charged, Unoffered
  <2>3. Due' <= Due + 1
    BY <1>0, <2>2 DEF Due
  <2> QED
    BY <1>0, <2>2, <2>3, PaidStep
<1>7. CASE Crash
  <2>1. /\ restarts' = restarts + 1 /\ hist' = hist /\ ~Known'
        /\ UNCHANGED <<touches, written, offered, lapses>>
    BY <1>7, CrashStep DEF Crash, histVars
  <2>2. Spent' <= Spent /\ Charged' = Charged + 1 /\ Unoffered' = Unoffered
    <3>1. Left' = 0 /\ Left \in Nat /\ Len(hist[Rule]) \in Nat
      BY <2>1, OneKey, Numbers DEF Left, Numeric
    <3> QED
      BY <1>0, <2>1, <3>1 DEF Spent, Charged, Unoffered
  <2>3. Due' <= Due + 1
    BY <1>0, <2>2 DEF Due
  <2>4. Spent' \in Nat
    BY NumbersNext DEF Numeric
  <2> QED
    BY <1>0, <2>2, <2>3, <2>4, PaidStep
<1>8. CASE Tick
  <2>1. /\ now' = now + 1 /\ data' = data /\ hist' = hist /\ restarts' = restarts
        /\ UNCHANGED <<touches, written, loopAt, pos, pending, jobs, offered, outside>>
        /\ lapses' = lapses + (IF Lapsing THEN 1 ELSE 0)
    BY <1>8, TickStep DEF Tick, loopVars
  <2>2. Outstanding' = Outstanding /\ Unoffered' = Unoffered /\ Spent' = Spent
    BY <2>1 DEF Outstanding, Replaying, Unoffered, Spent, Left, Known, Info
  <2>3. CASE Lapsing
    <3>1. Charged' = Charged + 1
      BY <1>0, <2>1, <2>3 DEF Charged
    <3>2. Due' <= Due + 1
      BY <1>0, <2>2 DEF Due
    <3> QED
      BY <1>0, <2>2, <3>1, <3>2, PaidStep
  <2>4. CASE ~Lapsing
    <3>1. lapses' = lapses
      BY <1>0, <2>1, <2>4
    <3>2. ASSUME Safe
          PROVE  Safe'
      <4>1. CASE offered = {}
        BY <2>1, <4>1 DEF Safe
      <4>2. CASE Warm /\ ~outside
        <5>1. ASSUME Outstanding
              PROVE  Known /\ now + 1 <= Info.LastSentAt + Period
          <6>1. Known /\ now <= Info.LastSentAt + Period
            BY <4>2, <5>1 DEF Warm
          <6>2. now # Info.LastSentAt + Period
            BY <2>4, <4>2, <5>1, <6>1 DEF Lapsing, L!Exists, Known, Info
          <6> QED
            BY <1>0, <6>1, <6>2
        <5> QED
          BY <2>1, <2>2, <4>2, <5>1 DEF Safe, Warm, Known, Info
      <4> QED
        BY <3>2, <4>1, <4>2 DEF Safe
    <3> QED
      BY <2>1, <3>1, <3>2, PaidSafe DEF Charged
  <2> QED
    BY <2>3, <2>4
<1>9. CASE UNCHANGED vars
  <2>1. /\ UNCHANGED <<limiterVars, written, loopVars, jobs, touches>>
        /\ UNCHANGED <<offered, outside, lapses>>
    BY <1>9 DEF vars, histVars
  <2>2. Safe' = Safe
    BY <2>1 DEF Safe, Warm, Outstanding, Replaying, Known, Info, limiterVars, loopVars
  <2> QED
    BY <2>1, <2>2, PaidSafe DEF limiterVars, Charged
<1> QED
  BY <1>1, <1>2, <1>3, <1>4, <1>5, <1>6, <1>7, <1>8, <1>9 DEF Next
-----------------------------------------------------------------------------
LEMMA InvHolds == Spec => []IInv
<1>1. Init => IInv
  BY InitType, InitTiming, InitPrompt, InitPaid DEF IInv
<1>2. IInv /\ [Next]_vars => IInv'
  BY TypeStep, TimingStep, PromptStep, LapseStep, PaidNext DEF IInv
<1> QED
  BY <1>1, <1>2, PTL DEF Spec

\* The feedback is paid for, for every limit and period and however long
\* sending and reading take: no more is granted than Limit alerts for each
\* printed line, outside event, restart and lapse (PodLogOptions without
\* SinceTime, the count of dispatchAlert, StartOrUpdateMonitor).
THEOREM ReplayBoundedHolds == Spec => []ReplayBounded
<1>1. ASSUME IInv
      PROVE  ReplayBounded
  <2>1. /\ Spent \in Nat /\ Due \in Nat /\ Charged \in Nat
        /\ Len(hist[Rule]) <= Spent /\ Len(hist[Rule]) \in Nat
    BY <1>1, Numbers, OneKey DEF IInv, Numeric
  <2>2. Limit * Due \in Nat /\ Limit * Charged \in Nat
    BY <2>1, LimitTimes
  <2>3. Spent + Limit * Due <= Limit * Charged
    BY <1>1 DEF IInv, Paid
  <2>4. Len(hist[Rule]) <= Limit * Charged
    BY <2>1, <2>2, <2>3
  <2> QED
    BY <2>4 DEF ReplayBounded, Charged
<1> QED
  BY <1>1, InvHolds, PTL

\* No round lapses whose sending, first tick and replay fit into the period
\* (rateLimit.period against the timeouts of the senders and the 15 s ticker).
THEOREM LapseFreeHolds == Spec => []LapseFree
<1>1. IInv => LapseFree
  BY DEF IInv
<1> QED
  BY <1>1, InvHolds, PTL

\* So with such a period the feedback ends by itself: what is granted is bounded
\* by the lines printed and what happens outside, however often the log is
\* replayed.
THEOREM PromptRoundsEnd ==
    Spec => [](latency + Delay + catchup <= Period =>
                   Len(hist[Rule]) <= Limit * (written + touches + restarts))
<1>1. TypeOK /\ ReplayBounded /\ LapseFree =>
          (latency + Delay + catchup <= Period =>
               Len(hist[Rule]) <= Limit * (written + touches + restarts))
  <2> SUFFICES ASSUME TypeOK, ReplayBounded, lapses = 0
               PROVE  Len(hist[Rule]) <= Limit * (written + touches + restarts)
    BY DEF LapseFree
  <2>1. written + touches + restarts + lapses = written + touches + restarts
    BY OneKey DEF TypeOK
  <2> QED
    BY <2>1 DEF ReplayBounded
<1> QED
  BY <1>1, TypeCorrect, ReplayBoundedHolds, LapseFreeHolds, PTL

\* Nothing printed stays unseen: once a stream has caught up, every line has
\* been offered to the limiter, whatever was restarted in between (streamPodLogs
\* from the beginning of the log, runMonitorLoop's cancelled streams).
THEOREM NothingMissedHolds == Spec => []NothingMissed
<1>1. ASSUME IInv
      PROVE  NothingMissed
  <2> SUFFICES ASSUME pos = written, \A j \in jobs : j.place # "limit"
               PROVE  offered = 1..written
    BY DEF NothingMissed
  <2>1. AtLimit = {} /\ pos # None
    BY <1>1, SmartLogConfig DEF AtLimit, IInv, TypeOK
  <2>2. 1..written \subseteq offered \cup {j.line : j \in AtLimit} /\ offered \subseteq 1..written
    BY <1>1, <2>1 DEF IInv, Reading
  <2> QED
    BY <2>1, <2>2
<1> QED
  BY <1>1, InvHolds, PTL
-----------------------------------------------------------------------------
(* The limiter's theorems in the composition.                              *)

LP == INSTANCE RateLimiterProofs WITH
         Keys <- {Rule},
         Limit <- [k \in {Rule} |-> Limit], Period <- [k \in {Rule} |-> Period],
         MaxTime <- MaxTime, MaxRestarts <- MaxRestarts,
         now <- now, data <- data, hist <- hist, base <- base,
         denied <- denied, restarts <- restarts

\* The parameters given here satisfy the limiter's assumption.
LEMMA Config == LP!LimiterConfig
BY SmartLogConfig DEF LP!LimiterConfig

\* With streams that replay, loops that restart and crashes, the rate limit of
\* the MonitorPod still holds within each process (InMemoryRateLimiter.Allow,
\* called by the dispatches of every stream).
THEOREM WindowComposed == Spec => []L!WindowBound
<1>1. LP!Spec => []LP!WindowBound
  BY LP!WindowBoundHolds, Config
<1>2. L!Init <=> LP!Init
  BY DEF L!Init, LP!Init, L!NoInfo, LP!NoInfo, L!Never, LP!Never
<1>3. [L!Next]_(L!vars) <=> [LP!Next]_(LP!vars)
  BY DEF L!Next, LP!Next, L!AllowFirst, LP!AllowFirst, L!AllowAgain,
         LP!AllowAgain, L!Deny, LP!Deny, L!Tick, LP!Tick, L!Restart,
         LP!Restart, L!Granted, LP!Granted, L!Exists, LP!Exists, L!Expired,
         LP!Expired, L!NoInfo, LP!NoInfo, L!vars, LP!vars
<1>4. L!WindowBound <=> LP!WindowBound
  BY DEF L!WindowBound, LP!WindowBound
<1> QED
  BY <1>1, <1>2, <1>3, <1>4, LimiterKept, PTL DEF L!Spec, LP!Spec
=============================================================================
