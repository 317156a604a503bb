--------------------------- MODULE LogStreamProofs ---------------------------
(***************************************************************************)
(* Theorems about LogStream for every kind of line, list of rules and log. *)
(*                                                                         *)
(* Cover says what has been taken from the buffer: everything with text    *)
(* below lo, in order.  Two lemmas carry the proof: TakenStep for the      *)
(* steps that run processBuffer, and KeptCover for those that leave events *)
(* and alerts alone.  SplitInv and PieceInv add that the events are cut    *)
(* exactly where the log and the flushes say, Answered that the alerts are *)
(* those of the events whose text some rule matches.                       *)
(***************************************************************************)
EXTENDS LogStream, WellFoundedInduction, SequenceTheorems, TLAPS

\* The ranges of s lie below b, in order and without overlap.
Ordered(s, b) ==
    /\ \A e \in 1..Len(s) : /\ s[e].from \in Nat /\ s[e].to \in Nat
                            /\ 1 <= s[e].from /\ s[e].from <= s[e].to
                            /\ s[e].to < b
    /\ \A d, e \in 1..Len(s) : d < e => s[d].to < s[e].from

\* Line i is in one of the ranges of s.
Within(s, i) == \E e \in 1..Len(s) : s[e].from <= i /\ i <= s[e].to

\* The events ev cover the lines with text below b; the alerts al are in order.
CoverBelow(ev, al, b) ==
    /\ Ordered(ev, b) /\ Ordered(al, b)
    /\ \A i \in 1..(b - 1) : Text(i) => Within(ev, i)

Cover == CoverBelow(events, alerts, lo)

\* Where the buffer is empty.
EmptyInv ==
    /\ pc = "exit" => lo = pos + 1
    /\ ~multiline => lo = pos + 1

IInv == TypeOK /\ Cover /\ EmptyInv
-----------------------------------------------------------------------------
\* Among the rules that match there is a first one.
LEMMA MinExists ==
    ASSUME NEW T, T \subseteq Nat, T # {}
    PROVE  \E x \in T : \A y \in T : x <= y
<1> DEFINE R == OpToRel(<, Nat)
<1>1. IsWellFoundedOn(R, Nat)
  BY NatLessThanWellFounded
<1>2. \A a, b \in Nat : a < b => <<a, b>> \in R
  BY DEF OpToRel
<1> HIDE DEF R
<1>3. PICK x \in T : \A y \in T : ~(<<y, x>> \in R)
  BY <1>1, WFMin
<1>4. ASSUME NEW y \in T PROVE x <= y
  <2>1. ~(y < x)
    BY <1>2, <1>3
  <2> QED  BY <2>1
<1> QED  BY <1>4

\* The rule of an alert is the first of those that match its text.
LEMMA FirstRuleLeast ==
    ASSUME NEW f, NEW t, Matched(f, t) # {}
    PROVE  /\ FirstRule(f, t) \in Nat /\ FirstRule(f, t) \in Matched(f, t)
           /\ \A q \in Matched(f, t) : FirstRule(f, t) <= q
<1> DEFINE M == Matched(f, t)
<1>1. M \subseteq Nat
  BY StreamConfig DEF Matched
<1>2. FirstRule(f, t) = CHOOSE x \in M : \A y \in M : x <= y
  BY DEF FirstRule, M
<1> HIDE DEF M
<1>3. \E x \in M : \A y \in M : x <= y
  BY <1>1, MinExists DEF M
<1>4. FirstRule(f, t) \in M /\ \A y \in M : FirstRule(f, t) <= y
  BY <1>2, <1>3
<1> QED  BY <1>1, <1>4 DEF M

\* A range from b on may be appended to ranges below b.
LEMMA OrderedAppend ==
    ASSUME NEW R, NEW s \in Seq(R), NEW x \in R, NEW b \in Nat, NEW c \in Nat,
           Ordered(s, b), x.from \in Nat, x.to \in Nat,
           1 <= b, b <= x.from, x.from <= x.to, x.to < c
    PROVE  Ordered(Append(s, x), c)
<1> DEFINE u == Append(s, x)
           n == Len(s)
<1>1. /\ n \in Nat /\ Len(u) = n + 1 /\ u[n + 1] = x
      /\ \A e \in 1..n : u[e] = s[e]
  OBVIOUS
<1> HIDE DEF u
<1>2. \A e \in 1..n : /\ s[e].from \in Nat /\ s[e].to \in Nat
                      /\ 1 <= s[e].from /\ s[e].from <= s[e].to /\ s[e].to < b
  BY DEF Ordered
<1>3. \A d, e \in 1..n : d < e => s[d].to < s[e].from
  BY DEF Ordered
<1> HIDE DEF n
<1>4. ASSUME NEW e \in 1..(n + 1)
      PROVE  /\ u[e].from \in Nat /\ u[e].to \in Nat
             /\ 1 <= u[e].from /\ u[e].from <= u[e].to /\ u[e].to < c
  <2>1. CASE e = n + 1
    BY <1>1, <2>1
  <2>2. CASE e \in 1..n
    <3>1. u[e] = s[e]
      BY <1>1, <2>2
    <3> QED  BY <1>2, <2>2, <3>1
  <2> QED  BY <1>1, <2>1, <2>2
<1>5. ASSUME NEW d \in 1..(n + 1), NEW e \in 1..(n + 1), d < e
      PROVE  u[d].to < u[e].from
  <2>1. d \in 1..n /\ u[d] = s[d]
    BY <1>1, <1>5
  <2>2. CASE e = n + 1
    <3>1. s[d].to \in Nat /\ s[d].to < b
      BY <1>2, <2>1
    <3> QED  BY <1>1, <2>1, <2>2, <3>1
  <2>3. CASE e \in 1..n
    <3>1. u[e] = s[e]
      BY <1>1, <2>3
    <3> QED  BY <1>3, <1>5, <2>1, <2>3, <3>1
  <2> QED  BY <1>1, <2>2, <2>3
<1> QED  BY <1>1, <1>4, <1>5 DEF Ordered, u

\* Ranges below b are ranges below anything larger.
LEMMA OrderedWeaken ==
    ASSUME NEW s, NEW b \in Nat, NEW c \in Nat, b <= c, Ordered(s, b)
    PROVE  Ordered(s, c)
<1>1. ASSUME NEW e \in 1..Len(s) PROVE s[e].to < c
  BY DEF Ordered
<1> QED  BY <1>1 DEF Ordered

\* What processBuffer makes of the events and of the alerts.
EventsAfter(f, t) ==
    IF f <= t THEN Append(events, [from |-> f, to |-> t]) ELSE events

AlertsAfter(f, t) ==
    IF f <= t /\ Matched(f, t) # {}
    THEN Append(alerts, [from |-> f, to |-> t, rule |-> FirstRule(f, t)])
    ELSE alerts

\* processBuffer on f..t, the only lines with text from lo on and below hi.
LEMMA TakenEvents ==
    ASSUME TypeOK, Cover, NEW f \in Nat, NEW t \in Nat, lo <= f,
           NEW hi \in Nat, lo <= hi, t < hi,
           \A i \in lo..(hi - 1) : Text(i) => i \in f..t
    PROVE  /\ EventsAfter(f, t) \in Seq(Event)
           /\ Ordered(EventsAfter(f, t), hi)
           /\ \A i \in 1..(hi - 1) : Text(i) => Within(EventsAfter(f, t), i)
<1>0. lo \in Nat /\ 1 <= lo /\ events \in Seq(Event)
  BY DEF TypeOK
<1>a. Ordered(events, lo) /\ \A i \in 1..(lo - 1) : Text(i) => Within(events, i)
  BY DEF Cover, CoverBelow
<1>1. CASE f > t
  <2>1. EventsAfter(f, t) = events
    BY <1>1 DEF EventsAfter
  <2>2. ASSUME NEW i \in 1..(hi - 1), Text(i) PROVE i \in 1..(lo - 1)
    <3>1. lo <= i => i \in lo..(hi - 1)
      BY <1>0
    <3>2. i \notin f..t
      BY <1>1
    <3>3. ~(lo <= i)
      BY <2>2, <3>1, <3>2
    <3> QED  BY <1>0, <3>3
  <2>3. Ordered(events, hi)
    BY <1>0, <1>a, OrderedWeaken
  <2> QED  BY <1>0, <1>a, <2>1, <2>2, <2>3
<1>2. CASE f <= t
  <2> DEFINE x == [from |-> f, to |-> t]
             u == Append(events, x)
             n == Len(events)
  <2>1. EventsAfter(f, t) = u /\ x \in Event /\ x.from = f /\ x.to = t
    BY <1>2 DEF EventsAfter, Event
  <2> HIDE DEF x
  <2>2. Ordered(u, hi)
    BY <1>0, <1>2, <1>a, <2>1, OrderedAppend
  <2>3. /\ n \in Nat /\ Len(u) = n + 1 /\ u[n + 1] = x /\ u \in Seq(Event)
        /\ \A e \in 1..n : u[e] = events[e]
    BY <1>0, <2>1
  <2> HIDE DEF n, u
  <2>4. ASSUME NEW i \in 1..(hi - 1), Text(i) PROVE Within(u, i)
    <3>1. CASE i < lo
      <4>1. i \in 1..(lo - 1)
        BY <1>0, <3>1
      <4>2. PICK e \in 1..n : events[e].from <= i /\ i <= events[e].to
        BY <1>a, <2>4, <4>1 DEF Within, n
      <4>3. e \in 1..(n + 1) /\ u[e] = events[e]
        BY <2>3
      <4> QED  BY <2>3, <4>2, <4>3 DEF Within
    <3>2. CASE i >= lo
      <4>1. i \in f..t
        <5>1. i \in lo..(hi - 1)
          BY <1>0, <3>2
        <5> QED  BY <2>4, <5>1
      <4>2. u[n + 1].from <= i /\ i <= u[n + 1].to
        BY <2>1, <2>3, <4>1
      <4> QED  BY <2>3, <4>2 DEF Within
    <3> QED  BY <1>0, <3>1, <3>2
  <2> QED  BY <2>1, <2>2, <2>3, <2>4
<1> QED  BY <1>1, <1>2

LEMMA TakenAlerts ==
    ASSUME TypeOK, Cover, NEW f \in Nat, NEW t \in Nat, lo <= f,
           NEW hi \in Nat, lo <= hi, t < hi
    PROVE  AlertsAfter(f, t) \in Seq(Alert) /\ Ordered(AlertsAfter(f, t), hi)
<1>0. lo \in Nat /\ 1 <= lo /\ alerts \in Seq(Alert) /\ Ordered(alerts, lo)
  BY DEF TypeOK, Cover, CoverBelow
<1>1. CASE ~(f <= t /\ Matched(f, t) # {})
  BY <1>0, <1>1, OrderedWeaken DEF AlertsAfter
<1>2. CASE f <= t /\ Matched(f, t) # {}
  <2> DEFINE x == [from |-> f, to |-> t, rule |-> FirstRule(f, t)]
  <2>1. FirstRule(f, t) \in Nat
    BY <1>2, FirstRuleLeast
  <2>2. /\ AlertsAfter(f, t) = Append(alerts, x) /\ x \in Alert
        /\ x.from = f /\ x.to = t
    BY <1>2, <2>1 DEF AlertsAfter, Alert
  <2> HIDE DEF x
  <2>3. Ordered(Append(alerts, x), hi)
    BY <1>0, <1>2, <2>2, OrderedAppend
  <2> QED  BY <1>0, <2>2, <2>3
<1> QED  BY <1>1, <1>2

LEMMA TakenStep ==
    ASSUME TypeOK, Cover, NEW f \in Nat, NEW t \in Nat, lo <= f, t <= Len(log),
           NEW hi \in Nat, lo <= hi, t < hi,
           \A i \in lo..(hi - 1) : Text(i) => i \in f..t,
           ProcessBuffer(f, t), log' = log, lo' = hi
    PROVE  /\ events' \in Seq(Event) /\ alerts' \in Seq(Alert)
           /\ Cover'
<1> DEFINE ev == EventsAfter(f, t)
           al == AlertsAfter(f, t)
<1>1. events' = ev /\ alerts' = al
  BY DEF ProcessBuffer, EventsAfter, AlertsAfter
<1>2. ev \in Seq(Event) /\ al \in Seq(Alert) /\ CoverBelow(ev, al, hi)
  BY TakenEvents, TakenAlerts DEF CoverBelow
<1> HIDE DEF ev, al
<1> QED  BY <1>1, <1>2 DEF Cover, CoverBelow, Text

\* A step that takes nothing from the buffer and leaves what was taken from
\* it alone.
LEMMA KeptCover ==
    ASSUME TypeOK, Cover, events' = events, alerts' = alerts, lo' = lo,
           \A i \in 1..(lo - 1) : log'[i] = log[i]
    PROVE  Cover'
<1>1. \A i \in 1..(lo - 1) : Text(i)' <=> Text(i)
  BY DEF Text
<1>2. \A i \in 1..(lo - 1) : Text(i)' => Within(events, i)
  BY <1>1 DEF Cover, CoverBelow
<1>3. Ordered(events, lo) /\ Ordered(alerts, lo)
  BY DEF Cover, CoverBelow
<1> QED  BY <1>2, <1>3 DEF Cover, CoverBelow
-----------------------------------------------------------------------------
LEMMA InitIInv == Init => IInv
<1> SUFFICES ASSUME Init PROVE IInv
  OBVIOUS
<1>1. TypeOK
  <2>1. /\ <<>> \in Seq(Kinds) /\ <<>> \in Seq(Event) /\ <<>> \in Seq(Alert)
        /\ Len(<<>>) = 0 /\ 0 \in 0..0 /\ 1 \in 1..(0 + 1)
    OBVIOUS
  <2> QED  BY <2>1 DEF Init, TypeOK
<1>2. Cover
  BY DEF Init, Cover, CoverBelow, Ordered
<1> QED  BY <1>1, <1>2 DEF Init, IInv, EmptyInv

\* What a step that runs the loop may assume.
LEMMA LoopTypes ==
    ASSUME TypeOK
    PROVE  /\ pos \in Nat /\ lo \in Nat /\ Len(log) \in Nat
           /\ 1 <= lo /\ lo <= pos + 1 /\ pos <= Len(log)
BY DEF TypeOK

LEMMA ExitIInv ==
    ASSUME IInv, Exit
    PROVE  IInv'
<1>1. TypeOK /\ Cover
  BY DEF IInv
<1>2. /\ events' \in Seq(Event) /\ alerts' \in Seq(Alert) /\ Cover'
  <2>1. \A i \in lo..((pos + 1) - 1) : Text(i) => i \in lo..pos
    BY <1>1, LoopTypes
  <2>2. pos + 1 \in Nat /\ lo <= pos + 1 /\ pos < pos + 1
    BY <1>1, LoopTypes
  <2>3. ProcessBuffer(lo, pos) /\ log' = log /\ lo' = pos + 1
    BY DEF Exit
  <2> QED  BY <1>1, <2>1, <2>2, <2>3, LoopTypes, TakenStep
<1>3. TypeOK'
  BY <1>1, <1>2, LoopTypes DEF TypeOK, Exit
<1>4. EmptyInv'
  BY DEF EmptyInv, Exit
<1> QED  BY <1>2, <1>3, <1>4 DEF IInv

\* A line that goes to the buffer or to an event of its own leaves no text
\* behind; n stands for the line scanned.
LEMMA SingleIInv ==
    ASSUME IInv, ScanSingle
    PROVE  IInv'
<1> DEFINE n == pos + 1
           f == IF log[n] \in Blank THEN n + 1 ELSE n
<1>1. /\ TypeOK /\ Cover /\ lo = n
      /\ n \in Nat /\ f \in Nat /\ n <= f /\ 1 <= n /\ n <= Len(log)
  BY LoopTypes DEF IInv, EmptyInv, ScanSingle
<1>2. /\ ProcessBuffer(f, n) /\ log' = log /\ lo' = n + 1 /\ pos' = n
      /\ pc' = "select" /\ UNCHANGED <<multiline, closed, ctxDone, timer, cuts>>
  BY DEF ScanSingle, Next1
<1>3. ASSUME NEW i \in lo..((n + 1) - 1), Text(i) PROVE i \in f..n
  <2>1. i = n
    BY <1>1
  <2> QED  BY <1>1, <1>3, <2>1 DEF Text
<1>a. n < n + 1 /\ n + 1 \in Nat /\ lo <= n + 1 /\ lo <= f /\ Len(log) \in Nat
  BY <1>1, LoopTypes
<1> HIDE DEF n, f
<1>4. /\ events' \in Seq(Event) /\ alerts' \in Seq(Alert) /\ Cover'
  BY <1>1, <1>2, <1>3, <1>a, TakenStep
<1>5. TypeOK'
  <2>1. n \in 0..Len(log) /\ n + 1 \in 1..(n + 1)
    BY <1>1, <1>a
  <2> QED  BY <1>1, <1>2, <1>4, <2>1 DEF TypeOK
<1>6. EmptyInv'
  BY <1>2 DEF EmptyInv
<1> QED  BY <1>4, <1>5, <1>6 DEF IInv

LEMMA StartIInv ==
    ASSUME IInv, ScanStart
    PROVE  IInv'
<1> DEFINE n == pos + 1
           hi == IF log[n] \in Blank THEN n + 1 ELSE n
<1>1. /\ TypeOK /\ Cover /\ pos \in Nat /\ lo \in Nat
      /\ n \in Nat /\ hi \in Nat /\ lo <= n /\ 1 <= hi /\ n <= hi /\ hi <= n + 1
      /\ 1 <= n /\ n <= Len(log) /\ pos < n
  BY LoopTypes DEF IInv, ScanStart
<1>2. /\ ProcessBuffer(lo, pos) /\ log' = log /\ lo' = hi /\ pos' = n
      /\ pc' = "select" /\ timer' = "armed" /\ UNCHANGED <<multiline, closed, ctxDone, cuts>>
      /\ multiline
  BY DEF ScanStart, Begin, Next1
<1>3. ASSUME NEW i \in lo..(hi - 1), Text(i) PROVE i \in lo..pos
  <2>1. i = n => log[n] \in Blank
    BY <1>1
  <2>2. i # n
    BY <1>3, <2>1 DEF Text
  <2> QED  BY <1>1, <2>2
<1>a. lo <= hi /\ pos < hi /\ pos <= Len(log) /\ lo <= lo
  BY <1>1, LoopTypes
<1> HIDE DEF n, hi
<1>4. /\ events' \in Seq(Event) /\ alerts' \in Seq(Alert) /\ Cover'
  BY <1>1, <1>2, <1>3, <1>a, TakenStep
<1>5. TypeOK'
  <2>1. n \in 0..Len(log) /\ hi \in 1..(n + 1)
    BY <1>1, LoopTypes
  <2> QED  BY <1>1, <1>2, <1>4, <2>1 DEF TypeOK
<1>6. EmptyInv'
  BY <1>2 DEF EmptyInv
<1> QED  BY <1>4, <1>5, <1>6 DEF IInv

LEMMA ContinuationIInv ==
    ASSUME IInv, ScanContinuation
    PROVE  IInv'
<1> DEFINE n == pos + 1
<1>1. /\ TypeOK /\ Cover /\ pos \in Nat /\ lo \in Nat /\ n \in Nat
      /\ 1 <= lo /\ lo <= n /\ 1 <= n /\ n <= Len(log) /\ Len(log) \in Nat
  BY LoopTypes DEF IInv, ScanContinuation
<1>2. /\ log' = log /\ pos' = n /\ pc' = "select" /\ timer' = "armed"
      /\ UNCHANGED <<multiline, closed, ctxDone, cuts, events, alerts>>
      /\ lo' = IF lo = n /\ log[n] \in Blank THEN n + 1 ELSE lo
      /\ multiline
  BY DEF ScanContinuation, Begin, Next1
<1>3. Cover'
  <2>1. CASE lo = n /\ log[n] \in Blank
    <3>1. ProcessBuffer(n + 1, n)
      BY <1>1, <1>2 DEF ProcessBuffer
    <3>2. \A i \in lo..((n + 1) - 1) : Text(i) => i \in (n + 1)..n
      BY <1>1, <2>1 DEF Text
    <3>3. n + 1 \in Nat /\ lo <= n + 1 /\ n < n + 1 /\ lo' = n + 1
      BY <1>1, <1>2, <2>1
    <3> QED  BY <1>1, <1>2, <3>1, <3>2, <3>3, TakenStep
  <2>2. CASE ~(lo = n /\ log[n] \in Blank)
    BY <1>1, <1>2, <2>2, KeptCover
  <2> QED  BY <2>1, <2>2
<1>4. TypeOK'
  <2>1. n \in 0..Len(log) /\ n + 1 \in 1..(n + 1) /\ lo \in 1..(n + 1)
    BY <1>1
  <2> HIDE DEF n
  <2> QED  BY <1>1, <1>2, <2>1 DEF TypeOK
<1>5. EmptyInv'
  BY <1>2 DEF EmptyInv
<1> QED  BY <1>3, <1>4, <1>5 DEF IInv

LEMMA FlushIInv ==
    ASSUME IInv, SelectFlush
    PROVE  IInv'
<1>1. TypeOK /\ Cover
  BY DEF IInv
<1>2. /\ ProcessBuffer(lo, pos) /\ log' = log /\ lo' = pos + 1 /\ pos' = pos
      /\ pc' = pc /\ timer' = "off" /\ cuts' = cuts \cup {pos}
      /\ UNCHANGED <<multiline, closed, ctxDone>>
  BY DEF SelectFlush
<1>3. /\ events' \in Seq(Event) /\ alerts' \in Seq(Alert) /\ Cover'
  <2>1. \A i \in lo..((pos + 1) - 1) : Text(i) => i \in lo..pos
    BY <1>1, LoopTypes
  <2>2. pos + 1 \in Nat /\ lo <= pos + 1 /\ pos < pos + 1
    BY <1>1, LoopTypes
  <2> QED  BY <1>1, <1>2, <2>1, <2>2, LoopTypes, TakenStep
<1>4. TypeOK'
  BY <1>1, <1>2, <1>3, LoopTypes DEF TypeOK
<1>5. EmptyInv'
  BY <1>2 DEF EmptyInv
<1> QED  BY <1>3, <1>4, <1>5 DEF IInv

LEMMA ProduceIInv ==
    ASSUME IInv, NEW c \in Kinds, Produce(c)
    PROVE  IInv'
<1>1. TypeOK /\ Cover
  BY DEF IInv
<1>2. /\ log' = Append(log, c)
      /\ UNCHANGED <<multiline, closed, ctxDone, pc, pos, lo, timer, events, alerts, cuts>>
  BY DEF Produce
<1>3. /\ log' \in Seq(Kinds) /\ Len(log') = Len(log) + 1
      /\ \A i \in 1..Len(log) : log'[i] = log[i]
  BY <1>1, <1>2 DEF TypeOK
<1>4. \A i \in 1..(lo - 1) : log'[i] = log[i]
  <2>1. ASSUME NEW i \in 1..(lo - 1) PROVE i \in 1..Len(log)
    BY <1>1, LoopTypes
  <2> QED  BY <1>3, <2>1
<1>5. Cover'
  BY <1>1, <1>2, <1>4, KeptCover
<1>6. TypeOK'
  <2>1. pos \in 0..(Len(log) + 1)
    BY <1>1, LoopTypes
  <2> QED  BY <1>1, <1>2, <1>3, <2>1 DEF TypeOK
<1>7. EmptyInv'
  BY <1>2 DEF EmptyInv, IInv
<1> QED  BY <1>5, <1>6, <1>7 DEF IInv

\* The steps that change neither the log nor the buffer.
LEMMA IdleIInv ==
    ASSUME IInv, UNCHANGED <<multiline, log, pos, lo, events, alerts, cuts>>,
           pc' \in {"select", "scan", "exit"}, pc' = "exit" => pc = "exit",
           timer' \in {"off", "armed", "fired"},
           closed' \in BOOLEAN, ctxDone' \in BOOLEAN
    PROVE  IInv'
<1>1. Cover'
  BY KeptCover DEF IInv
<1>2. TypeOK'
  BY DEF IInv, TypeOK
<1> QED  BY <1>1, <1>2 DEF IInv, EmptyInv

LEMMA NextIInv == IInv /\ [Next]_vars => IInv'
<1> SUFFICES ASSUME IInv, [Next]_vars PROVE IInv'
  OBVIOUS
<1> USE DEF Loop
<1>0. TypeOK
  BY DEF IInv
<1>1. ASSUME NEW c \in Kinds, Produce(c) PROVE IInv'
  BY <1>1, ProduceIInv
<1>2. CASE Close
  BY <1>0, <1>2, IdleIInv DEF Close, TypeOK
<1>3. CASE Cancel
  BY <1>0, <1>3, IdleIInv DEF Cancel, TypeOK
<1>4. CASE TimerFires
  BY <1>0, <1>4, IdleIInv DEF TimerFires, TypeOK
<1>5. CASE SelectDone
  BY <1>5, ExitIInv DEF SelectDone
<1>6. CASE SelectFlush
  BY <1>6, FlushIInv
<1>7. CASE SelectDefault
  BY <1>0, <1>7, IdleIInv DEF SelectDefault, TypeOK
<1>8. CASE ScanSingle
  BY <1>8, SingleIInv
<1>9. CASE ScanStart
  BY <1>9, StartIInv
<1>10. CASE ScanContinuation
  BY <1>10, ContinuationIInv
<1>11. CASE ScanEnd
  BY <1>11, ExitIInv DEF ScanEnd
<1>12. CASE UNCHANGED vars
  BY <1>0, <1>12, IdleIInv DEF vars, TypeOK
<1> QED
  BY <1>1, <1>2, <1>3, <1>4, <1>5, <1>6, <1>7, <1>8, <1>9, <1>10, <1>11, <1>12
     DEF Next

LEMMA SpecIInv == Spec => []IInv
BY InitIInv, NextIInv, PTL DEF Spec
-----------------------------------------------------------------------------
\* streamPodLogs keeps its state within its types: the buffer never reaches
\* beyond what was scanned.
THEOREM TypeCorrect == Spec => []TypeOK
<1>1. IInv => TypeOK
  BY DEF IInv
<1> QED  BY <1>1, SpecIInv, PTL

\* Every line with text that was scanned is in an event or in the buffer, and
\* the goroutine returns with an empty buffer.
THEOREM NoLossHolds == Spec => []NoLoss
<1>1. IInv => NoLoss
  <2> SUFFICES ASSUME IInv PROVE NoLoss
    OBVIOUS
  <2>1. pos \in Nat /\ lo \in Nat /\ lo <= pos + 1
    BY LoopTypes DEF IInv
  <2>2. ASSUME NEW i \in 1..pos, Text(i), i < lo PROVE Emitted(i)
    <3>1. i \in 1..(lo - 1)
      BY <2>1, <2>2
    <3> QED  BY <2>2, <3>1 DEF IInv, Cover, CoverBelow, Within, Emitted
  <2>3. ASSUME NEW i \in 1..pos, Emitted(i) PROVE i < lo
    <3>1. PICK e \in 1..Len(events) : events[e].from <= i /\ i <= events[e].to
      BY <2>3 DEF Emitted
    <3>2. events[e].to \in Nat /\ events[e].to < lo
      BY DEF IInv, Cover, CoverBelow, Ordered
    <3> QED  BY <2>1, <3>1, <3>2
  <2> QED  BY <2>2, <2>3 DEF NoLoss, IInv, EmptyInv
<1> QED  BY <1>1, SpecIInv, PTL

\* Events are taken in the order of the log and do not overlap.
THEOREM InOrderHolds == Spec => []InOrder
<1>1. IInv => InOrder
  BY DEF IInv, Cover, CoverBelow, Ordered, InOrder
<1> QED  BY <1>1, SpecIInv, PTL
-----------------------------------------------------------------------------
\* The buffer, too, begins where an event may.
SplitInv ==
    multiline => /\ \A e \in 1..Len(events) : Opens(events[e].from)
                 /\ pc # "exit" => Opens(lo)

\* Opens, of the log g and the openings S.
OpensIn(g, S, i) == \E j \in S : j <= i /\ \A n \in j..(i - 1) : g[n] \in Blank

\* What is scanned of the log does not change, and openings stay openings.
LEMMA OpensKept ==
    ASSUME TypeOK, NEW i \in Nat, i <= pos + 1, Opens(i), NEW g, NEW S,
           \A j \in 1..pos : g[j] = log[j], Openings \subseteq S
    PROVE  OpensIn(g, S, i)
<1>1. pos \in Nat /\ \A j \in Openings : j \in Nat /\ 1 <= j
  BY DEF TypeOK, Openings
<1>2. PICK j \in Openings : j <= i /\ \A n \in j..(i - 1) : ~Text(n)
  BY DEF Opens
<1>3. ASSUME NEW n \in j..(i - 1) PROVE g[n] \in Blank
  <2>0. j \in Nat /\ 1 <= j
    BY <1>1
  <2>1. n \in 1..pos
    BY <1>1, <2>0
  <2> QED  BY <1>2, <2>1 DEF Text
<1> QED  BY <1>2, <1>3 DEF OpensIn

\* Events that were there, and at most one more: the buffer.
LEMMA EventsOpen ==
    ASSUME IInv, SplitInv, multiline, NEW g, NEW S,
           \A j \in 1..pos : g[j] = log[j], Openings \subseteq S,
           NEW u, u = events \/ (pc # "exit" /\ u = EventsAfter(lo, pos))
    PROVE  \A e \in 1..Len(u) : OpensIn(g, S, u[e].from)
<1>1. TypeOK /\ lo \in Nat /\ lo <= pos + 1 /\ pos \in Nat /\ events \in Seq(Event)
  BY LoopTypes DEF IInv, TypeOK
<1>2. ASSUME NEW e \in 1..Len(events) PROVE OpensIn(g, S, events[e].from)
  <2> DEFINE f == events[e].from
  <2>1. f \in Nat /\ f <= events[e].to /\ events[e].to \in Nat /\ events[e].to < lo
    BY DEF IInv, Cover, CoverBelow, Ordered
  <2>2. Opens(f)
    BY DEF SplitInv
  <2> HIDE DEF f
  <2>3. f <= pos + 1
    BY <1>1, <2>1
  <2>4. OpensIn(g, S, f)
    BY <1>1, <2>1, <2>2, <2>3, OpensKept
  <2> QED  BY <2>4 DEF f
<1>3. CASE u = events
  BY <1>2, <1>3
<1>4. CASE pc # "exit" /\ u = Append(events, [from |-> lo, to |-> pos])
  <2>1. OpensIn(g, S, lo)
    BY <1>1, <1>4, OpensKept DEF SplitInv
  <2>2. ASSUME NEW e \in 1..Len(u) PROVE OpensIn(g, S, u[e].from)
    <3>1. CASE e = Len(events) + 1
      BY <1>1, <1>4, <2>1, <3>1
    <3>2. CASE e \in 1..Len(events)
      <4>1. u[e] = events[e]
        BY <1>1, <1>4, <3>2
      <4> QED  BY <1>2, <3>2, <4>1
    <3> QED  BY <1>1, <1>4, <3>1, <3>2
  <2> QED  BY <2>2
<1> QED  BY <1>3, <1>4 DEF EventsAfter

LEMMA StepSplit ==
    ASSUME IInv, SplitInv, multiline' = multiline,
           NEW g, log' = g, NEW S, Openings' = S, NEW u, events' = u, NEW k, lo' = k,
           \A j \in 1..pos : g[j] = log[j], Openings \subseteq S,
           u = events \/ (pc # "exit" /\ u = EventsAfter(lo, pos)),
           multiline /\ pc' # "exit" => OpensIn(g, S, k)
    PROVE  SplitInv'
<1>1. multiline => \A e \in 1..Len(u) : OpensIn(g, S, u[e].from)
  BY EventsOpen
<1>2. multiline => \A e \in 1..Len(events') : OpensIn(log', Openings', events'[e].from)
  BY <1>1, Zenon
<1>3. multiline /\ pc' # "exit" => OpensIn(log', Openings', lo')
  OBVIOUS
<1>4. ASSUME multiline' PROVE (\A e \in 1..Len(events) : Opens(events[e].from))'
  BY <1>2, <1>4, Zenon DEF OpensIn, Opens, Text
<1>5. ASSUME multiline', pc' # "exit" PROVE Opens(lo)'
  BY <1>3, <1>5, Zenon DEF OpensIn, Opens, Text
<1> QED  BY <1>4, <1>5, Zenon DEF SplitInv

LEMMA NextSplit == IInv /\ SplitInv /\ [Next]_vars => SplitInv'
<1> SUFFICES ASSUME IInv, SplitInv, [Next]_vars PROVE SplitInv'
  OBVIOUS
<1> USE DEF Loop
<1>0. TypeOK /\ lo \in Nat /\ pos \in Nat /\ lo <= pos + 1 /\ pos <= Len(log)
  BY LoopTypes DEF IInv
<1> DEFINE starts(g, n) == {j \in 1..n : g[j] \in Starts}
           S(g, n, c) == {1} \cup {x + 1 : x \in c} \cup starts(g, n)
<1>a. Openings = S(log, pos, cuts) /\ Openings' = S(log', pos', cuts')
  BY DEF Openings
<1>b. Opens(lo) => OpensIn(log, Openings, lo)
  BY DEF Opens, OpensIn, Text
<1>1. ASSUME NEW c \in Kinds, Produce(c) PROVE SplitInv'
  <2> DEFINE g == Append(log, c)
  <2>1. /\ log' = g /\ UNCHANGED <<multiline, events, lo, pos, cuts, pc>>
    BY <1>1 DEF Produce
  <2>2. \A j \in 1..pos : g[j] = log[j]
    BY <1>0 DEF TypeOK
  <2>3. Openings' = S(g, pos, cuts)
    BY <1>a, <2>1, Zenon
  <2> HIDE DEF g
  <2>4. Openings \subseteq S(g, pos, cuts)
    BY <1>a, <2>2
  <2>5. multiline /\ pc # "exit" => OpensIn(g, S(g, pos, cuts), lo)
    BY <1>0, <2>2, <2>4, OpensKept DEF SplitInv
  <2> HIDE DEF S
  <2> QED  BY <2>1, <2>2, <2>3, <2>4, <2>5, StepSplit
<1>2. CASE UNCHANGED <<multiline, log, pos, lo, events, cuts>> /\ (pc' # "exit" => pc # "exit")
  BY <1>2 DEF SplitInv, Opens, Openings, Text
<1>3. CASE Exit /\ pc # "exit"
  <2>1. /\ log' = log /\ events' = EventsAfter(lo, pos) /\ lo' = pos + 1
        /\ pos' = pos /\ cuts' = cuts /\ pc' = "exit"
        /\ multiline' = multiline
    BY <1>3 DEF Exit, ProcessBuffer, EventsAfter
  <2>2. Openings' = Openings
    BY <2>1 DEF Openings
  <2> QED  BY <1>3, <2>1, <2>2, StepSplit
<1>4. CASE SelectFlush
  <2> DEFINE T == S(log, pos, cuts \cup {pos})
  <2>1. /\ log' = log /\ events' = EventsAfter(lo, pos) /\ lo' = pos + 1
        /\ pos' = pos /\ cuts' = cuts \cup {pos} /\ pc' = pc /\ pc # "exit"
        /\ multiline' = multiline
    BY <1>4 DEF SelectFlush, ProcessBuffer, EventsAfter
  <2>2. Openings' = T
    BY <1>a, <2>1, Zenon
  <2>3. Openings \subseteq T /\ pos + 1 \in T
    BY <1>a
  <2> HIDE DEF T, S
  <2>4. OpensIn(log, T, pos + 1)
    BY <1>0, <2>3 DEF OpensIn
  <2> QED  BY <2>1, <2>2, <2>3, <2>4, StepSplit
<1>5. CASE ScanSingle
  BY <1>5 DEF ScanSingle, SplitInv
<1>6. CASE ScanStart
  <2> DEFINE n == pos + 1
             k == IF log[n] \in Blank THEN n + 1 ELSE n
             T == S(log, n, cuts)
  <2>1. /\ log' = log /\ events' = EventsAfter(lo, pos) /\ lo' = k
        /\ pos' = n /\ cuts' = cuts /\ pc' = "select" /\ pc # "exit"
        /\ multiline' = multiline
    BY <1>6 DEF ScanStart, ProcessBuffer, EventsAfter, Begin, Next1
  <2>2. Openings' = T
    BY <1>a, <2>1, Zenon
  <2>3. Openings \subseteq T /\ n \in T
    BY <1>0, <1>6, <1>a DEF ScanStart, Next1
  <2>4. OpensIn(log, T, k)
    <3> HIDE DEF T, S
    <3>1. CASE log[n] \in Blank
      BY <1>0, <2>3, <3>1 DEF OpensIn
    <3>2. CASE log[n] \notin Blank
      BY <1>0, <2>3, <3>2 DEF OpensIn
    <3> QED  BY <3>1, <3>2
  <2> HIDE DEF T, S, k, n
  <2> QED  BY <2>1, <2>2, <2>3, <2>4, StepSplit
<1>7. CASE ScanContinuation
  <2> DEFINE n == pos + 1
             k == IF lo = n /\ log[n] \in Blank THEN n + 1 ELSE lo
             T == S(log, n, cuts)
  <2>1. /\ log' = log /\ events' = events /\ lo' = k
        /\ pos' = n /\ cuts' = cuts /\ pc' = "select" /\ pc # "exit" /\ multiline
        /\ multiline' = multiline
    BY <1>7 DEF ScanContinuation, Begin, Next1
  <2>2. Openings' = T
    BY <1>a, <2>1, Zenon
  <2>3. Openings \subseteq T
    BY <1>0, <1>a
  <2>4. OpensIn(log, T, k)
    <3>1. PICK j \in Openings : j <= lo /\ \A m \in j..(lo - 1) : log[m] \in Blank
      BY <2>1, <1>b DEF SplitInv, OpensIn
    <3>2. j \in T /\ j \in Nat
      BY <1>0, <2>3, <3>1 DEF Openings, TypeOK
    <3> HIDE DEF T, S
    <3>3. CASE lo = n /\ log[n] \in Blank
      <4>1. \A m \in j..((n + 1) - 1) : log[m] \in Blank
        BY <1>0, <3>1, <3>2, <3>3
      <4> QED  BY <1>0, <3>1, <3>2, <3>3, <4>1 DEF OpensIn
    <3>4. CASE ~(lo = n /\ log[n] \in Blank)
      BY <3>1, <3>2, <3>4 DEF OpensIn
    <3> QED  BY <3>3, <3>4
  <2> HIDE DEF T, S, k, n
  <2> QED  BY <2>1, <2>2, <2>3, <2>4, StepSplit
<1>8. CASE SelectDone
  BY <1>3, <1>8 DEF SelectDone
<1>9. CASE ScanEnd
  BY <1>3, <1>9 DEF ScanEnd
<1>10. CASE Close \/ Cancel \/ TimerFires \/ SelectDefault \/ UNCHANGED vars
  BY <1>2, <1>10 DEF Close, Cancel, TimerFires, SelectDefault, vars
<1> QED
  BY <1>1, <1>4, <1>5, <1>6, <1>7, <1>8, <1>9, <1>10 DEF Next

LEMMA InitSplit == Init => SplitInv
<1> SUFFICES ASSUME Init PROVE SplitInv
  OBVIOUS
<1>1. 1 \in Openings /\ lo = 1 /\ events = <<>>
  BY DEF Init, Openings
<1>2. Opens(lo)
  BY <1>1 DEF Opens
<1> QED  BY <1>1, <1>2 DEF SplitInv

\* Only the flush timer splits an event.
THEOREM SplitOnlyByFlushHolds == Spec => []SplitOnlyByFlush
<1>1. SplitInv => SplitOnlyByFlush
  BY DEF SplitInv, SplitOnlyByFlush
<1> QED  BY <1>1, InitSplit, SpecIInv, NextSplit, PTL DEF Spec
-----------------------------------------------------------------------------
(* Where events end, and what is alerted.                                  *)

\* The range x begins with text of the log g and is cut where the openings S
\* say; last is the line at which the goroutine returned, 0 before that.
PieceIn(g, S, last, x) ==
    /\ g[x.from] \notin Blank
    /\ multiline => /\ \A j \in S : ~(x.from < j /\ j <= x.to)
                    /\ x.to + 1 \in S \/ x.to = last
    /\ ~multiline => x.from = x.to

Returned == IF pc = "exit" THEN pos ELSE 0

\* Every event is such a piece, and the buffer is the beginning of one.
PieceInv ==
    /\ \A e \in 1..Len(events) : PieceIn(log, Openings, Returned, events[e])
    /\ lo <= pos => Text(lo)
    /\ \A j \in Openings : j <= lo

\* Events that were there stay pieces, and the one taken now is a piece.
LEMMA StepPiece ==
    ASSUME IInv, PieceInv, NEW g, NEW S, NEW last, NEW u, NEW f \in Nat, NEW t \in Nat,
           \A j \in 1..pos : g[j] = log[j],
           Openings \subseteq S, S \subseteq Openings \cup {pos + 1},
           pc = "exit" => last = pos,
           u = events \/ (u = EventsAfter(f, t)
                            /\ (f <= t => PieceIn(g, S, last, [from |-> f, to |-> t])))
    PROVE  \A e \in 1..Len(u) : PieceIn(g, S, last, u[e])
<1>1. lo \in Nat /\ lo <= pos + 1 /\ pos \in Nat /\ events \in Seq(Event)
  BY LoopTypes DEF IInv, TypeOK
<1>2. ASSUME NEW e \in 1..Len(events) PROVE PieceIn(g, S, last, events[e])
  <2> DEFINE x == events[e]
  <2>1. x.from \in Nat /\ 1 <= x.from /\ x.from <= x.to /\ x.to \in Nat /\ x.to < lo
    BY DEF IInv, Cover, CoverBelow, Ordered
  <2>2. PieceIn(log, Openings, Returned, x)
    BY DEF PieceInv
  <2> HIDE DEF x
  <2>3. g[x.from] \notin Blank
    <3>1. x.from \in 1..pos
      BY <1>1, <2>1
    <3> QED  BY <2>2, <3>1 DEF PieceIn
  <2>4. ASSUME multiline, NEW j \in S PROVE ~(x.from < j /\ j <= x.to)
    <3>1. CASE j \in Openings
      BY <2>2, <2>4, <3>1 DEF PieceIn
    <3>2. CASE j = pos + 1
      BY <1>1, <2>1, <3>2
    <3> QED  BY <2>4, <3>1, <3>2
  <2>5. ASSUME multiline PROVE x.to + 1 \in S \/ x.to = last
    <3>1. x.to = Returned => x.to = last
      BY <2>1 DEF Returned
    <3> QED  BY <2>2, <2>5, <3>1 DEF PieceIn
  <2>6. ~multiline => x.from = x.to
    BY <2>2 DEF PieceIn
  <2>7. PieceIn(g, S, last, x)
    BY <2>3, <2>4, <2>5, <2>6 DEF PieceIn
  <2> QED  BY <2>7 DEF x
<1>3. CASE u = events
  BY <1>2, <1>3
<1>4. CASE u # events
  <2> DEFINE x == [from |-> f, to |-> t]
  <2>1. u = Append(events, x) /\ PieceIn(g, S, last, x)
    BY <1>4 DEF EventsAfter
  <2> HIDE DEF x
  <2>2. ASSUME NEW e \in 1..Len(u) PROVE PieceIn(g, S, last, u[e])
    <3>1. CASE e = Len(events) + 1
      <4>1. u[e] = x
        BY <1>1, <2>1, <3>1
      <4> QED  BY <2>1, <4>1
    <3>2. CASE e \in 1..Len(events)
      <4>1. u[e] = events[e]
        BY <1>1, <2>1, <3>2
      <4> QED  BY <1>2, <3>2, <4>1
    <3> QED  BY <1>1, <2>1, <3>1, <3>2
  <2> QED  BY <2>2
<1> QED  BY <1>3, <1>4

LEMMA NextPiece == IInv /\ PieceInv /\ [Next]_vars => PieceInv'
<1> SUFFICES ASSUME IInv, PieceInv, [Next]_vars PROVE PieceInv'
  OBVIOUS
<1> USE DEF Loop
<1> DEFINE S(g, n, c) == {1} \cup {x + 1 : x \in c} \cup {j \in 1..n : g[j] \in Starts}
           Pieces == \A e \in 1..Len(events) : PieceIn(log, Openings, Returned, events[e])
<1>0. TypeOK /\ lo \in Nat /\ pos \in Nat /\ lo <= pos + 1 /\ pos <= Len(log) /\ 1 <= lo
  BY LoopTypes DEF IInv
<1>a. Openings = S(log, pos, cuts) /\ Openings' = S(log', pos', cuts')
  BY DEF Openings
<1>b. \A j \in Openings : j <= lo
  BY DEF PieceInv
<1>d. \A j \in Openings : j \in Nat
  BY <1>0 DEF Openings, TypeOK
<1>c. ASSUME NEW f \in Nat, NEW t \in Nat, multiline' = multiline,
             \A j \in 1..pos : log'[j] = log[j],
             Openings \subseteq Openings', Openings' \subseteq Openings \cup {pos + 1},
             pc = "exit" => Returned' = pos,
             events' = events \/ (events' = EventsAfter(f, t)
                 /\ (f <= t => PieceIn(log', Openings', Returned', [from |-> f, to |-> t])))
      PROVE  Pieces'
  <2>1. PICK g, T, last, u : g = log' /\ T = Openings' /\ last = Returned' /\ u = events'
    OBVIOUS
  <2> HIDE DEF S
  <2>2. \A e \in 1..Len(u) : PieceIn(g, T, last, u[e])
    BY <1>c, <2>1, StepPiece
  <2> QED  BY <1>c, <2>1, <2>2 DEF PieceIn
<1>1. ASSUME NEW c \in Kinds, Produce(c) PROVE PieceInv'
  <2>1. /\ log' = Append(log, c) /\ Returned' = Returned
        /\ UNCHANGED <<multiline, events, lo, pos, cuts, pc>>
    BY <1>1 DEF Produce, Returned
  <2>2. \A j \in 1..pos : log'[j] = log[j]
    BY <1>0, <2>1 DEF TypeOK
  <2>3. Openings' = Openings
    BY <2>1, <2>2 DEF Openings
  <2>4. Pieces'
    BY <1>c, <2>1, <2>2, <2>3, 0 \in Nat DEF Returned
  <2>5. (lo <= pos => Text(lo))'
    BY <1>0, <2>1, <2>2 DEF PieceInv, Text
  <2> QED  BY <1>b, <2>1, <2>3, <2>4, <2>5 DEF PieceInv
<1>2. CASE UNCHANGED <<multiline, log, pos, lo, events, cuts>> /\ (pc = "exit" => pc' = "exit")
  <2>1. Openings' = Openings
    BY <1>2 DEF Openings
  <2>2. Pieces'
    BY <1>2, <1>c, <2>1, 0 \in Nat DEF Returned
  <2>3. (lo <= pos => Text(lo))'
    BY <1>2 DEF PieceInv, Text
  <2> QED  BY <1>2, <1>b, <2>1, <2>2, <2>3 DEF PieceInv
<1>3. CASE Exit /\ pc # "exit"
  <2>1. /\ log' = log /\ events' = EventsAfter(lo, pos) /\ lo' = pos + 1
        /\ pos' = pos /\ cuts' = cuts /\ pc' = "exit" /\ multiline' = multiline
    BY <1>3 DEF Exit, ProcessBuffer, EventsAfter
  <2>2. Openings' = Openings /\ Returned' = pos
    BY <2>1 DEF Openings, Returned
  <2>3. lo <= pos => PieceIn(log, Openings, pos, [from |-> lo, to |-> pos])
    <3>1. lo <= pos => multiline /\ Text(lo)
      BY <1>0 DEF IInv, EmptyInv, PieceInv
    <3> QED  BY <1>0, <1>b, <1>d, <3>1 DEF PieceIn, Text
  <2>4. Pieces'
    BY <1>0, <1>c, <2>1, <2>2, <2>3
  <2> QED  BY <1>0, <1>b, <1>d, <2>1, <2>2, <2>4 DEF PieceInv
<1>4. CASE SelectFlush
  <2>1. /\ log' = log /\ events' = EventsAfter(lo, pos) /\ lo' = pos + 1
        /\ pos' = pos /\ cuts' = cuts \cup {pos} /\ pc' = pc /\ pc # "exit"
        /\ multiline' = multiline
    BY <1>4 DEF SelectFlush, ProcessBuffer, EventsAfter
  <2>2. Openings' = Openings \cup {pos + 1}
    BY <1>a, <2>1
  <2>3. lo <= pos => PieceIn(log, Openings', Returned', [from |-> lo, to |-> pos])
    <3>1. lo <= pos => multiline /\ Text(lo)
      BY <1>0 DEF IInv, EmptyInv, PieceInv
    <3>2. \A j \in Openings' : ~(lo < j /\ j <= pos)
      <4>1. ASSUME NEW j \in Openings', lo < j PROVE ~(j <= pos)
        <5>1. j \in Nat
          BY <1>0, <1>d, <2>2
        <5>2. j = pos + 1
          BY <1>0, <1>b, <2>2, <4>1, <5>1
        <5> QED  BY <1>0, <5>2
      <4> QED  BY <4>1
    <3> QED  BY <2>2, <3>1, <3>2 DEF PieceIn, Text
  <2>4. Pieces'
    BY <1>0, <1>c, <2>1, <2>2, <2>3
  <2>5. \A j \in Openings' : j <= pos + 1
    BY <1>0, <1>b, <1>d, <2>2
  <2> QED  BY <1>0, <2>1, <2>4, <2>5 DEF PieceInv
<1>5. CASE ScanSingle
  <2> DEFINE n == pos + 1
             f == IF log[n] \in Blank THEN n + 1 ELSE n
  <2>1. /\ log' = log /\ events' = EventsAfter(f, n) /\ lo' = n + 1
        /\ pos' = n /\ cuts' = cuts /\ pc' = "select" /\ pc # "exit"
        /\ multiline' = multiline /\ ~multiline
    BY <1>5 DEF ScanSingle, ProcessBuffer, EventsAfter, Next1
  <2>2. Openings \subseteq Openings' /\ Openings' \subseteq Openings \cup {n}
    BY <1>0, <1>a, <2>1
  <2>3. f <= n => PieceIn(log, Openings', Returned', [from |-> f, to |-> n])
    BY <1>0, <2>1 DEF PieceIn
  <2>4. Pieces'
    BY <1>0, <1>c, <2>1, <2>2, <2>3
  <2>5. \A j \in Openings' : j <= n + 1
    BY <1>0, <1>b, <1>d, <2>2
  <2> QED  BY <1>0, <2>1, <2>4, <2>5 DEF PieceInv
<1>6. CASE ScanStart
  <2> DEFINE n == pos + 1
             k == IF log[n] \in Blank THEN n + 1 ELSE n
  <2>1. /\ log' = log /\ events' = EventsAfter(lo, pos) /\ lo' = k
        /\ pos' = n /\ cuts' = cuts /\ pc' = "select" /\ pc # "exit"
        /\ multiline' = multiline /\ multiline /\ log[n] \in Starts
    BY <1>6 DEF ScanStart, ProcessBuffer, EventsAfter, Begin, Next1
  <2>2. Openings' = Openings \cup {n}
    BY <1>0, <1>a, <2>1
  <2>3. lo <= pos => PieceIn(log, Openings', Returned', [from |-> lo, to |-> pos])
    <3>1. lo <= pos => Text(lo)
      BY DEF PieceInv
    <3>2. \A j \in Openings' : ~(lo < j /\ j <= pos)
      <4>1. ASSUME NEW j \in Openings', lo < j PROVE ~(j <= pos)
        <5>1. j \in Nat
          BY <1>0, <1>d, <2>2
        <5>2. j = pos + 1
          BY <1>0, <1>b, <2>2, <4>1, <5>1
        <5> QED  BY <1>0, <5>2
      <4> QED  BY <4>1
    <3> QED  BY <2>1, <2>2, <3>1, <3>2 DEF PieceIn, Text
  <2>4. Pieces'
    BY <1>0, <1>c, <2>1, <2>2, <2>3
  <2>5. \A j \in Openings' : j <= k
    BY <1>0, <1>b, <1>d, <2>2
  <2>6. (lo <= pos => Text(lo))'
    BY <1>0, <2>1 DEF Text
  <2> QED  BY <2>1, <2>4, <2>5, <2>6 DEF PieceInv
<1>7. CASE ScanContinuation
  <2> DEFINE n == pos + 1
             k == IF lo = n /\ log[n] \in Blank THEN n + 1 ELSE lo
  <2>1. /\ log' = log /\ events' = events /\ lo' = k
        /\ pos' = n /\ cuts' = cuts /\ pc' = "select" /\ pc # "exit" /\ multiline
        /\ multiline' = multiline /\ log[n] \notin Starts
    BY <1>7 DEF ScanContinuation, Begin, Next1
  <2>2. Openings' = Openings
    BY <1>0, <1>a, <2>1
  <2>4. Pieces'
    BY <1>c, <2>1, <2>2, 0 \in Nat
  <2>5. \A j \in Openings' : j <= k
    BY <1>0, <1>b, <1>d, <2>2
  <2>6. (lo <= pos => Text(lo))'
    BY <1>0, <2>1 DEF Text, PieceInv
  <2> QED  BY <2>1, <2>4, <2>5, <2>6 DEF PieceInv
<1>8. CASE SelectDone
  BY <1>3, <1>8 DEF SelectDone
<1>9. CASE ScanEnd
  BY <1>3, <1>9 DEF ScanEnd
<1>10. CASE Close \/ Cancel \/ TimerFires \/ SelectDefault \/ UNCHANGED vars
  BY <1>2, <1>10 DEF Close, Cancel, TimerFires, SelectDefault, vars
<1> QED
  BY <1>1, <1>4, <1>5, <1>6, <1>7, <1>8, <1>9, <1>10 DEF Next
-----------------------------------------------------------------------------
\* Matched, of the log g.
MatchedIn(g, f, t) == {r \in 1..NRules : SubSeq(g, f, t) \in Language[r]}

\* The text of lines f..t does not change as the log grows.
LEMMA MatchedKept ==
    ASSUME NEW g \in Seq(Kinds), NEW h \in Seq(Kinds), NEW f \in Nat, NEW t \in Nat,
           1 <= f, t <= Len(g), t <= Len(h), \A i \in f..t : g[i] = h[i]
    PROVE  MatchedIn(g, f, t) = MatchedIn(h, f, t)
<1>1. f \in Int /\ t \in Int /\ \A i \in f..t : g[i] \in Kinds /\ h[i] \in Kinds
  OBVIOUS
<1> DEFINE a == SubSeq(g, f, t)
           b == SubSeq(h, f, t)
<1>2. /\ a \in Seq(Kinds) /\ Len(a) = IF f <= t THEN t - f + 1 ELSE 0
      /\ \A i \in 1..(t - f + 1) : a[i] = g[f + i - 1]
  BY <1>1, SubSeqProperties
<1>3. /\ b \in Seq(Kinds) /\ Len(b) = IF f <= t THEN t - f + 1 ELSE 0
      /\ \A i \in 1..(t - f + 1) : b[i] = h[f + i - 1]
  BY <1>1, SubSeqProperties
<1> HIDE DEF a, b
<1>4. ASSUME NEW i \in 1..Len(a) PROVE a[i] = b[i]
  <2>1. i \in 1..(t - f + 1) /\ f + i - 1 \in f..t
    BY <1>2
  <2> QED  BY <1>2, <1>3, <2>1
<1>5. a = b
  BY <1>2, <1>3, <1>4, SeqEqual
<1> QED  BY <1>5 DEF MatchedIn, a, b

SameRange(a, e) == a.from = e.from /\ a.to = e.to

\* Alert a is by the first rule that matches its text in the log g.
FirstMatch(g, a) ==
    /\ a.rule \in MatchedIn(g, a.from, a.to)
    /\ \A q \in MatchedIn(g, a.from, a.to) : a.rule <= q

\* The alerts al answer exactly those of the events ev that some rule matches.
Answers(g, ev, al) ==
    /\ \A a \in 1..Len(al) : /\ \E e \in 1..Len(ev) : SameRange(al[a], ev[e])
                             /\ FirstMatch(g, al[a])
    /\ \A e \in 1..Len(ev) : MatchedIn(g, ev[e].from, ev[e].to) # {} =>
                                 \E a \in 1..Len(al) : SameRange(al[a], ev[e])

Answered == Answers(log, events, alerts)

\* processBuffer answers the event it takes.
LEMMA AnswersTaken ==
    ASSUME TypeOK, Answered, NEW f \in Nat, NEW t \in Nat
    PROVE  Answers(log, EventsAfter(f, t), AlertsAfter(f, t))
<1>0. events \in Seq(Event) /\ alerts \in Seq(Alert) /\ Len(events) \in Nat /\ Len(alerts) \in Nat
  BY DEF TypeOK
<1>1. Matched(f, t) = MatchedIn(log, f, t)
  BY DEF Matched, MatchedIn
<1> DEFINE x == [from |-> f, to |-> t]
           y == [from |-> f, to |-> t, rule |-> FirstRule(f, t)]
           ev == EventsAfter(f, t)
           al == AlertsAfter(f, t)
<1>2. x.from = f /\ x.to = t /\ y.from = f /\ y.to = t /\ y.rule = FirstRule(f, t)
  OBVIOUS
<1>3. CASE f > t
  BY <1>3 DEF EventsAfter, AlertsAfter, Answered
<1>4. CASE f <= t
  <2>1. /\ Len(ev) = Len(events) + 1 /\ ev[Len(events) + 1] = x
        /\ \A e \in 1..Len(events) : ev[e] = events[e]
    BY <1>0, <1>4 DEF EventsAfter
  <2>2. \/ al = alerts /\ MatchedIn(log, f, t) = {}
        \/ /\ MatchedIn(log, f, t) # {}
           /\ Len(al) = Len(alerts) + 1 /\ al[Len(alerts) + 1] = y
           /\ \A a \in 1..Len(alerts) : al[a] = alerts[a]
    BY <1>0, <1>1, <1>4 DEF AlertsAfter
  <2>3. MatchedIn(log, f, t) # {} => FirstMatch(log, y)
    BY <1>1, <1>2, FirstRuleLeast DEF FirstMatch
  <2> HIDE DEF x, y, ev, al
  <2>4. SameRange(y, x)
    BY <1>2 DEF SameRange
  <2>5. ASSUME NEW a \in 1..Len(al)
        PROVE  (\E e \in 1..Len(ev) : SameRange(al[a], ev[e])) /\ FirstMatch(log, al[a])
    <3>1. CASE a \in 1..Len(alerts)
      <4>1. al[a] = alerts[a]
        BY <2>2, <3>1
      <4>2. PICK e \in 1..Len(events) : SameRange(alerts[a], events[e])
        BY <3>1 DEF Answered, Answers
      <4>3. e \in 1..Len(ev) /\ ev[e] = events[e]
        BY <1>0, <2>1
      <4>4. FirstMatch(log, alerts[a])
        BY <3>1 DEF Answered, Answers
      <4> QED  BY <4>1, <4>2, <4>3, <4>4
    <3>2. CASE a \notin 1..Len(alerts)
      <4>1. al[a] = y /\ MatchedIn(log, f, t) # {}
        BY <1>0, <2>2, <3>2
      <4>2. Len(events) + 1 \in 1..Len(ev)
        BY <1>0, <2>1
      <4> QED  BY <2>1, <2>3, <2>4, <4>1, <4>2
    <3> QED  BY <3>1, <3>2
  <2>6. ASSUME NEW e \in 1..Len(ev), MatchedIn(log, ev[e].from, ev[e].to) # {}
        PROVE  \E a \in 1..Len(al) : SameRange(al[a], ev[e])
    <3>1. CASE e \in 1..Len(events)
      <4>1. ev[e] = events[e]
        BY <2>1, <3>1
      <4>2. PICK a \in 1..Len(alerts) : SameRange(alerts[a], events[e])
        BY <2>6, <3>1, <4>1 DEF Answered, Answers
      <4>3. a \in 1..Len(al) /\ al[a] = alerts[a]
        BY <1>0, <2>2
      <4> QED  BY <4>1, <4>2, <4>3
    <3>2. CASE e \notin 1..Len(events)
      <4>1. ev[e] = x
        BY <1>0, <2>1, <3>2
      <4>2. MatchedIn(log, f, t) # {}
        BY <1>2, <2>6, <4>1
      <4>3. Len(alerts) + 1 \in 1..Len(al) /\ al[Len(alerts) + 1] = y
        BY <1>0, <2>2, <4>2
      <4> QED  BY <2>4, <4>1, <4>3
    <3> QED  BY <3>1, <3>2
  <2>7. Answers(log, ev, al)
    BY <2>5, <2>6 DEF Answers
  <2> QED  BY <2>7 DEF ev, al
<1> QED  BY <1>3, <1>4

LEMMA NextAnswered == IInv /\ Answered /\ [Next]_vars => Answered'
<1> SUFFICES ASSUME IInv, Answered, [Next]_vars PROVE Answered'
  OBVIOUS
<1> USE DEF Loop
<1>0. TypeOK /\ lo \in Nat /\ pos \in Nat /\ lo <= pos + 1 /\ pos <= Len(log)
  BY LoopTypes DEF IInv
<1>1. ASSUME NEW c \in Kinds, Produce(c) PROVE Answered'
  <2>1. /\ log' = Append(log, c) /\ events' = events /\ alerts' = alerts
    BY <1>1 DEF Produce
  <2>2. /\ log \in Seq(Kinds) /\ log' \in Seq(Kinds) /\ Len(log') = Len(log) + 1
        /\ Len(log) \in Nat /\ \A i \in 1..Len(log) : log'[i] = log[i]
    BY <1>0, <2>1 DEF TypeOK
  <2>3. ASSUME NEW f \in Nat, NEW t \in Nat, 1 <= f, t <= Len(log)
        PROVE  MatchedIn(log', f, t) = MatchedIn(log, f, t)
    <3>1. \A i \in f..t : log'[i] = log[i]
      BY <2>2, <2>3
    <3>2. t <= Len(log')
      BY <2>2, <2>3
    <3> QED  BY <2>2, <2>3, <3>1, <3>2, MatchedKept
  <2>4. ASSUME NEW e \in 1..Len(events)
        PROVE  MatchedIn(log', events[e].from, events[e].to)
                   = MatchedIn(log, events[e].from, events[e].to)
    <3>1. /\ events[e].from \in Nat /\ events[e].to \in Nat /\ 1 <= events[e].from
          /\ events[e].to < lo
      BY DEF IInv, Cover, CoverBelow, Ordered
    <3> QED  BY <1>0, <2>2, <2>3, <3>1
  <2>5. ASSUME NEW a \in 1..Len(alerts)
        PROVE  MatchedIn(log', alerts[a].from, alerts[a].to)
                   = MatchedIn(log, alerts[a].from, alerts[a].to)
    <3>1. /\ alerts[a].from \in Nat /\ alerts[a].to \in Nat /\ 1 <= alerts[a].from
          /\ alerts[a].to < lo
      BY DEF IInv, Cover, CoverBelow, Ordered
    <3> QED  BY <1>0, <2>2, <2>3, <3>1
  <2>6. Answers(log', events, alerts)
    BY <2>4, <2>5 DEF Answered, Answers, FirstMatch
  <2> QED  BY <2>1, <2>6 DEF Answered
<1>2. CASE UNCHANGED <<log, events, alerts>>
  BY <1>2 DEF Answered
<1>3. ASSUME NEW f \in Nat, NEW t \in Nat, ProcessBuffer(f, t), log' = log
      PROVE  Answered'
  <2>1. events' = EventsAfter(f, t) /\ alerts' = AlertsAfter(f, t)
    BY <1>3 DEF ProcessBuffer, EventsAfter, AlertsAfter
  <2>2. Answers(log, EventsAfter(f, t), AlertsAfter(f, t))
    BY <1>0, AnswersTaken
  <2> QED  BY <1>3, <2>1, <2>2 DEF Answered
<1>4. CASE SelectFlush \/ SelectDone \/ ScanEnd
  BY <1>0, <1>3, <1>4 DEF SelectFlush, SelectDone, ScanEnd, Exit
<1>5. CASE ScanSingle
  <2> DEFINE f == IF log[Next1] \in Blank THEN Next1 + 1 ELSE Next1
  <2>1. ProcessBuffer(f, Next1) /\ log' = log
    BY <1>5 DEF ScanSingle
  <2>2. f \in Nat /\ Next1 \in Nat
    BY <1>0 DEF Next1
  <2> HIDE DEF f
  <2> QED  BY <1>3, <2>1, <2>2
<1>6. CASE ScanStart
  BY <1>0, <1>3, <1>6 DEF ScanStart
<1>7. CASE Close \/ Cancel \/ TimerFires \/ SelectDefault \/ ScanContinuation \/ UNCHANGED vars
  BY <1>2, <1>7 DEF Close, Cancel, TimerFires, SelectDefault, ScanContinuation, vars
<1> QED
  BY <1>1, <1>4, <1>5, <1>6, <1>7 DEF Next

\* Every event is one by the log and the cuts alone, ...
LEMMA TakenIsEvent ==
    ASSUME IInv, SplitInv, PieceInv, NEW e \in 1..Len(events)
    PROVE  IsEvent(events[e].from, events[e].to)
<1> DEFINE f == events[e].from
           t == events[e].to
<1>1. f \in Nat /\ t \in Nat /\ 1 <= f /\ f <= t
  BY DEF IInv, Cover, CoverBelow, Ordered
<1>2. PieceIn(log, Openings, Returned, events[e])
  BY DEF PieceInv
<1>3. multiline => Opens(f)
  BY DEF SplitInv
<1>4. t = Returned => pc = "exit" /\ t = pos
  BY <1>1 DEF Returned
<1> QED  BY <1>2, <1>3, <1>4 DEF PieceIn, IsEvent, Text

\* ... and every one that has left the buffer was taken.
LEMMA EventIsTaken ==
    ASSUME IInv, PieceInv, NEW t \in 1..(lo - 1), NEW f \in 1..t, IsEvent(f, t)
    PROVE  \E e \in 1..Len(events) : events[e].from = f /\ events[e].to = t
<1>0. lo \in Nat /\ pos \in Nat /\ lo <= pos + 1 /\ t \in Nat /\ f \in Nat /\ f <= t
      /\ t <= pos /\ f \in 1..(lo - 1)
  BY LoopTypes DEF IInv
<1>1. PICK e \in 1..Len(events) : events[e].from <= f /\ f <= events[e].to
  BY <1>0 DEF IsEvent, IInv, Cover, CoverBelow, Within
<1> DEFINE a == events[e].from
           b == events[e].to
<1>2. a \in Nat /\ b \in Nat /\ 1 <= a /\ a <= b /\ b < lo /\ a <= f /\ f <= b
  BY <1>1 DEF IInv, Cover, CoverBelow, Ordered
<1>3. /\ ~(log[a] \in Blank)
      /\ multiline => (\A j \in Openings : ~(a < j /\ j <= b))
                      /\ (b + 1 \in Openings \/ b = Returned)
      /\ ~multiline => a = b
  BY DEF PieceInv, PieceIn
<1> HIDE DEF a, b
<1>4. CASE multiline
  <2>1. PICK j \in Openings : j <= f /\ \A n \in j..(f - 1) : ~Text(n)
    BY <1>4 DEF IsEvent, Opens
  <2>2. j \in Nat
    BY DEF Openings, IInv, TypeOK
  <2>3. a = f
    <3>1. j <= a
      BY <1>0, <1>2, <1>3, <1>4, <2>1, <2>2
    <3>2. a < f => a \in j..(f - 1)
      BY <1>0, <1>2, <2>2, <3>1
    <3>3. ~(a < f)
      BY <1>3, <2>1, <3>2 DEF Text
    <3> QED  BY <1>0, <1>2, <3>3
  <2>4. ~(t < b)
    <3>1. t + 1 \in Openings \/ t = pos
      BY <1>4 DEF IsEvent
    <3> QED  BY <1>0, <1>2, <1>3, <1>4, <2>3, <3>1
  <2>5. ~(b < t)
    <3>1. \A i \in Openings : ~(f < i /\ i <= t)
      BY <1>4 DEF IsEvent
    <3>2. b = Returned => b = pos
      BY <1>2 DEF Returned
    <3> QED  BY <1>0, <1>2, <1>3, <1>4, <2>3, <3>1, <3>2
  <2>6. b = t
    BY <1>0, <1>2, <2>4, <2>5
  <2> QED  BY <2>3, <2>6 DEF a, b
<1>5. CASE ~multiline
  <2>1. f = t /\ a = b
    BY <1>3, <1>5 DEF IsEvent
  <2>2. a = f /\ b = t
    BY <1>0, <1>2, <2>1
  <2> QED  BY <2>2 DEF a, b
<1> QED  BY <1>4, <1>5

\* Every event whose whole text some rule matches leads to one alert, by the
\* first such rule, and there are no other alerts (processBuffer on every way
\* out of the buffer).
THEOREM AlertedOnceHolds == Spec => []AlertedOnce
<1>1. IInv /\ SplitInv /\ PieceInv /\ Answered => AlertedOnce
  <2> SUFFICES ASSUME IInv, SplitInv, PieceInv, Answered PROVE AlertedOnce
    OBVIOUS
  <2>0. \A f, t : Matched(f, t) = MatchedIn(log, f, t)
    BY DEF Matched, MatchedIn
  <2>1. ASSUME NEW a \in 1..Len(alerts)
        PROVE  /\ IsEvent(alerts[a].from, alerts[a].to)
               /\ alerts[a].rule \in Matched(alerts[a].from, alerts[a].to)
               /\ \A q \in Matched(alerts[a].from, alerts[a].to) : alerts[a].rule <= q
    <3>1. PICK e \in 1..Len(events) : SameRange(alerts[a], events[e])
      BY DEF Answered, Answers
    <3>2. FirstMatch(log, alerts[a])
      BY DEF Answered, Answers
    <3>3. IsEvent(events[e].from, events[e].to)
      BY TakenIsEvent
    <3> QED  BY <2>0, <3>1, <3>2, <3>3 DEF SameRange, FirstMatch
  <2>2. ASSUME NEW t \in 1..(lo - 1), NEW f \in 1..t, IsEvent(f, t), Matched(f, t) # {}
        PROVE  \E a \in 1..Len(alerts) :
                   {b \in 1..Len(alerts) : alerts[b].from = f /\ alerts[b].to = t} = {a}
    <3>1. PICK e \in 1..Len(events) : events[e].from = f /\ events[e].to = t
      BY <2>2, EventIsTaken
    <3>2. MatchedIn(log, events[e].from, events[e].to) # {}
      BY <2>0, <2>2, <3>1
    <3>3. PICK a \in 1..Len(alerts) : SameRange(alerts[a], events[e])
      BY <3>2 DEF Answered, Answers
    <3>4. ASSUME NEW b \in 1..Len(alerts), alerts[b].from = f, alerts[b].to = t
          PROVE  b = a
      <4>1. alerts[a].from = f /\ alerts[a].to = t
        BY <3>1, <3>3 DEF SameRange
      <4>2. f <= t /\ f \in Nat /\ t \in Nat
        BY LoopTypes DEF IInv
      <4>3. b < a => alerts[b].to < alerts[a].from
        BY DEF IInv, Cover, CoverBelow, Ordered
      <4>4. a < b => alerts[a].to < alerts[b].from
        BY DEF IInv, Cover, CoverBelow, Ordered
      <4>5. ~(b < a) /\ ~(a < b)
        BY <3>4, <4>1, <4>2, <4>3, <4>4
      <4> QED  BY <4>5
    <3>5. {b \in 1..Len(alerts) : alerts[b].from = f /\ alerts[b].to = t} = {a}
      BY <3>1, <3>3, <3>4 DEF SameRange
    <3> QED  BY <3>5
  <2> QED  BY <2>1, <2>2 DEF AlertedOnce
<1>2. Init => PieceInv /\ Answered
  BY DEF Init, PieceInv, Answered, Answers, Openings
<1> QED  BY <1>1, <1>2, SpecIInv, InitSplit, NextSplit, NextPiece, NextAnswered, PTL DEF Spec
=============================================================================
