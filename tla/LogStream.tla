------------------------------ MODULE LogStream ------------------------------
(***************************************************************************)
(* streamPodLogs of internal/controller/monitorpod_controller.go: one      *)
(* goroutine that scans the log of a Pod's first container, groups lines   *)
(* into events and dispatches an alert for each event a rule matches.      *)
(*                                                                         *)
(* A line is its kind: whether it begins an event (multiline pattern and   *)
(* negate together), is empty or exceeds the scanner's 64 KiB.  A regex is *)
(* the set of the texts it matches, and is matched once against the whole  *)
(* text of an event, its lines joined: a pattern anchored at both ends may *)
(* match a line alone and no event of several lines, and one that spans    *)
(* two lines matches only if both are in one event.  The buffer always     *)
(* holds the lines lo..pos of the log, lo = pos + 1 standing for an empty  *)
(* buffer.                                                                 *)
(*                                                                         *)
(* The loop selects among the done context, the flush timer and, when      *)
(* neither is ready, Scan, which blocks until there is a line or the       *)
(* stream ends (a line that the end cuts short is a line).  go.mod asks    *)
(* for Go 1.24: resetting a timer discards a tick that was not received.   *)
(***************************************************************************)
EXTENDS Naturals, Sequences

CONSTANTS
    Kinds,       \* kinds of lines
    Starts,      \* kinds that begin a new event
    Blank,       \* kinds with no text
    TooLong,     \* kinds the scanner gives up on
    NRules,      \* length of spec.rules
    Language,    \* Language[r]: the texts that spec.rules[r].regex matches
    MaxLines     \* bound on the log

ASSUME StreamConfig ==
    /\ Starts \subseteq Kinds /\ Blank \subseteq Kinds /\ TooLong \subseteq Kinds
    /\ Blank \cap TooLong = {}
    /\ NRules \in Nat
    /\ Language \in [1..NRules -> SUBSET Seq(Kinds)]

VARIABLES
    multiline, \* multilineRegex # nil: spec.multiline is set and compiles
    log,       \* what the container has written
    closed,    \* the stream has ended at the server
    ctxDone,   \* the stream's context is done
    pc,        \* "select", "scan" (in scanner.Scan) or "exit"
    pos,       \* lines scanned
    lo,        \* first line in the buffer
    timer,     \* flushTimer: "off", "armed" or "fired"
    events,    \* history: the line ranges processBuffer has taken
    alerts,    \* the alerts dispatched: range and rule
    cuts       \* history: pos at each flush by the timer

vars == <<multiline, log, closed, ctxDone, pc, pos, lo, timer, events, alerts, cuts>>

Event == [from : Nat, to : Nat]
Alert == [from : Nat, to : Nat, rule : Nat]

TypeOK ==
    /\ multiline \in BOOLEAN
    /\ log \in Seq(Kinds)
    /\ closed \in BOOLEAN /\ ctxDone \in BOOLEAN
    /\ pc \in {"select", "scan", "exit"}
    /\ pos \in 0..Len(log)
    /\ lo \in 1..(pos + 1)
    /\ timer \in {"off", "armed", "fired"}
    /\ events \in Seq(Event)
    /\ alerts \in Seq(Alert)
    /\ cuts \subseteq Nat

Init ==
    /\ multiline \in BOOLEAN
    /\ log = <<>>
    /\ closed = FALSE /\ ctxDone = FALSE
    /\ pc = "select"
    /\ pos = 0 /\ lo = 1
    /\ timer = "off"
    /\ events = <<>> /\ alerts = <<>>
    /\ cuts = {}
-----------------------------------------------------------------------------
(* The container, the API server and the monitor loop.                     *)

Produce(c) ==
    /\ ~closed
    /\ Len(log) < MaxLines
    /\ log' = Append(log, c)
    /\ UNCHANGED <<multiline, closed, ctxDone, pc, pos, lo, timer, events, alerts, cuts>>

Close ==
    /\ ~closed
    /\ closed' = TRUE
    /\ UNCHANGED <<multiline, log, ctxDone, pc, pos, lo, timer, events, alerts, cuts>>

Cancel ==
    /\ ~ctxDone
    /\ ctxDone' = TRUE
    /\ UNCHANGED <<multiline, log, closed, pc, pos, lo, timer, events, alerts, cuts>>

\* 500 ms after the last line of multiline mode.
TimerFires ==
    /\ timer = "armed"
    /\ timer' = "fired"
    /\ UNCHANGED <<multiline, log, closed, ctxDone, pc, pos, lo, events, alerts, cuts>>
-----------------------------------------------------------------------------
(* processBuffer on the lines from..to.                                    *)

Matched(from, to) == {r \in 1..NRules : SubSeq(log, from, to) \in Language[r]}

MutLastRule(from, to) ==
    CHOOSE r \in Matched(from, to) : \A q \in Matched(from, to) : r >= q

\* The first rule, in the order of the spec, that matches.
FirstRule(from, to) ==
    CHOOSE r \in Matched(from, to) : \A q \in Matched(from, to) : r <= q

ProcessBuffer(from, to) ==
    /\ events' = IF from <= to THEN Append(events, [from |-> from, to |-> to])
                               ELSE events
    /\ alerts' = IF from <= to /\ Matched(from, to) # {}
                 THEN Append(alerts, [from |-> from, to |-> to,
                                      rule |-> FirstRule(from, to)])
                 ELSE alerts

MutExitDropsBuffer ==
    /\ lo' = pos + 1
    /\ pc' = "exit"
    /\ UNCHANGED <<multiline, log, closed, ctxDone, pos, timer, events, alerts, cuts>>

Exit ==
    /\ ProcessBuffer(lo, pos)
    /\ lo' = pos + 1
    /\ pc' = "exit"
    /\ UNCHANGED <<multiline, log, closed, ctxDone, pos, timer, cuts>>
-----------------------------------------------------------------------------
(* The loop.                                                               *)

SelectDone ==
    /\ pc = "select"
    /\ ctxDone
    /\ Exit

MutFlushKeepsBuffer ==
    /\ pc = "select"
    /\ timer = "fired"
    /\ ProcessBuffer(lo, pos)
    /\ timer' = "off"
    /\ cuts' = cuts \cup {pos}
    /\ UNCHANGED <<multiline, log, closed, ctxDone, pc, pos, lo>>

MutFlushOffByOne ==
    /\ pc = "select"
    /\ timer = "fired"
    /\ ProcessBuffer(lo, pos)
    /\ lo' = pos + 2
    /\ timer' = "off"
    /\ cuts' = cuts \cup {pos}
    /\ UNCHANGED <<multiline, log, closed, ctxDone, pc, pos>>

SelectFlush ==
    /\ pc = "select"
    /\ timer = "fired"
    /\ ProcessBuffer(lo, pos)
    /\ lo' = pos + 1
    /\ timer' = "off"
    /\ cuts' = cuts \cup {pos}
    /\ UNCHANGED <<multiline, log, closed, ctxDone, pc, pos>>

SelectDefault ==
    /\ pc = "select"
    /\ ~ctxDone /\ timer # "fired"
    /\ pc' = "scan"
    /\ UNCHANGED <<multiline, log, closed, ctxDone, pos, lo, timer, events, alerts, cuts>>

Next1 == pos + 1

MutSingleOnlyBuffers ==
    /\ pc = "scan" /\ ~multiline
    /\ pos < Len(log) /\ log[Next1] \notin TooLong
    /\ pos' = Next1
    /\ pc' = "select"
    /\ UNCHANGED <<multiline, log, closed, ctxDone, lo, timer, events, alerts, cuts>>

\* Scan returned a line, in single-line mode: it is an event by itself,
\* unless it is empty.
ScanSingle ==
    /\ pc = "scan" /\ ~multiline
    /\ pos < Len(log) /\ log[Next1] \notin TooLong
    /\ pos' = Next1 /\ lo' = Next1 + 1
    /\ ProcessBuffer(IF log[Next1] \in Blank THEN Next1 + 1 ELSE Next1, Next1)
    /\ pc' = "select"
    /\ UNCHANGED <<multiline, log, closed, ctxDone, timer, cuts>>

\* Where the buffer begins once line Next1 is appended: an empty line leaves
\* an empty buffer empty.
Begin(from) == IF from = Next1 /\ log[Next1] \in Blank THEN Next1 + 1 ELSE from

\* The line begins an event: what was buffered is taken first.
ScanStart ==
    /\ pc = "scan" /\ multiline
    /\ pos < Len(log) /\ log[Next1] \notin TooLong
    /\ log[Next1] \in Starts
    /\ ProcessBuffer(lo, pos)
    /\ pos' = Next1 /\ lo' = Begin(Next1)
    /\ timer' = "armed"
    /\ pc' = "select"
    /\ UNCHANGED <<multiline, log, closed, ctxDone, cuts>>

MutContinuationFlushes ==
    /\ pc = "scan" /\ multiline
    /\ pos < Len(log) /\ log[Next1] \notin TooLong
    /\ log[Next1] \notin Starts
    /\ ProcessBuffer(lo, pos)
    /\ pos' = Next1 /\ lo' = Begin(Next1)
    /\ timer' = "armed"
    /\ pc' = "select"
    /\ UNCHANGED <<multiline, log, closed, ctxDone, cuts>>

ScanContinuation ==
    /\ pc = "scan" /\ multiline
    /\ pos < Len(log) /\ log[Next1] \notin TooLong
    /\ log[Next1] \notin Starts
    /\ pos' = Next1 /\ lo' = Begin(lo)
    /\ timer' = "armed"
    /\ pc' = "select"
    /\ UNCHANGED <<multiline, log, closed, ctxDone, events, alerts, cuts>>

MutScanEndNoContext ==
    /\ pc = "scan"
    /\ \/ closed /\ pos = Len(log)
       \/ pos < Len(log) /\ log[Next1] \in TooLong
    /\ Exit

\* Scan returned false: the stream ended, its context was cancelled, or the
\* next line is too long.
ScanEnd ==
    /\ pc = "scan"
    /\ \/ closed /\ pos = Len(log)
       \/ ctxDone
       \/ pos < Len(log) /\ log[Next1] \in TooLong
    /\ Exit

Loop ==
    \/ SelectDone \/ SelectFlush \/ SelectDefault
    \/ ScanSingle \/ ScanStart \/ ScanContinuation \/ ScanEnd

Next ==
    \/ \E c \in Kinds : Produce(c)
    \/ Close \/ Cancel \/ TimerFires
    \/ Loop

Spec == Init /\ [][Next]_vars

\* The goroutine runs whenever it can, and timers go off.
FairSpec == Spec /\ WF_vars(Loop) /\ WF_vars(TimerFires)
-----------------------------------------------------------------------------
Text(i) == log[i] \notin Blank

Emitted(i) == \E e \in 1..Len(events) : events[e].from <= i /\ i <= events[e].to

\* Every line with text that was scanned is in an event or still in the
\* buffer, nothing is in both, and a goroutine that has returned leaves
\* nothing behind (processBuffer on every way out of the loop).
NoLoss ==
    /\ \A i \in 1..pos : Text(i) => (Emitted(i) <=> i < lo)
    /\ pc = "exit" => lo = pos + 1

\* Events come out in the order of the log and do not overlap.
InOrder ==
    \A d, e \in 1..Len(events) : d < e => events[d].to < events[e].from

\* The lines that may open an event: the first of the stream, the first after
\* a flush, and those that begin one.
Openings == {1} \cup {c + 1 : c \in cuts} \cup {j \in 1..pos : log[j] \in Starts}

\* Line i opens an event, or only empty lines lie between it and one that does.
Opens(i) == \E j \in Openings : j <= i /\ \A n \in j..(i - 1) : ~Text(n)

\* Only the flush timer splits an event: apart from empty lines, each begins
\* at a line that begins one, at the first line of the stream or after a flush.
SplitOnlyByFlush == multiline => \A e \in 1..Len(events) : Opens(events[e].from)

\* The lines f..t are an event by the log and the cuts alone: in single-line
\* mode a line with text; in multiline mode from a line that opens an event up
\* to, but not including, the next line that may open one, or to the last line
\* scanned once the goroutine has returned.
IsEvent(f, t) ==
    /\ Text(f)
    /\ multiline => /\ Opens(f)
                    /\ \A j \in Openings : ~(f < j /\ j <= t)
                    /\ t + 1 \in Openings \/ (pc = "exit" /\ t = pos)
    /\ ~multiline => f = t

\* Every event of the log whose whole text some rule matches leads to exactly
\* one alert once it has left the buffer, by the first such rule, and nothing
\* else does: no part of an event and no two events together.
AlertedOnce ==
    /\ \A a \in 1..Len(alerts) :
           LET f == alerts[a].from
               t == alerts[a].to
               r == alerts[a].rule
           IN  /\ IsEvent(f, t)
               /\ r \in Matched(f, t)
               /\ \A q \in Matched(f, t) : r <= q
    /\ \A t \in 1..(lo - 1) : \A f \in 1..t :
           IsEvent(f, t) /\ Matched(f, t) # {} =>
               \E a \in 1..Len(alerts) :
                   {b \in 1..Len(alerts) : alerts[b].from = f /\ alerts[b].to = t} = {a}

\* A cancelled stream ends, even one blocked in Scan.
CancelEnds == ctxDone ~> pc = "exit"

\* In single-line mode every line with text becomes an event without waiting
\* for the next one, as long as the stream lives.
LineSurfaces ==
    \A i \in 1..MaxLines :
        (~multiline /\ i <= Len(log) /\ Text(i)) ~> (pc = "exit" \/ Emitted(i))

\* The flush timer flushes: once it has gone off, the buffered event is taken.
FlushTakesEffect == timer = "fired" ~> lo = pos + 1
=============================================================================
