----------------------------- MODULE AlertRecords -----------------------------
(***************************************************************************)
(* AlertRecords from their creation in dispatchAlert                       *)
(* (internal/controller/monitorpod_controller.go) to their removal by the  *)
(* AlertRecordCleaner (alertrecord_cleaner.go), which main.go starts with  *)
(* an interval of three minutes.                                           *)
(*                                                                         *)
(* The cleaner works through a List from the informer's cache, which may   *)
(* be old when it is taken and older when its last record is reached, and  *)
(* deletes by name, without a precondition.  The List is kept as todo: the *)
(* records still to be looked at, in any order.  Creation timestamps are   *)
(* the API server's; the cleaner compares them with its own clock, which   *)
(* may be ahead.                                                           *)
(*                                                                         *)
(* past, purged and refused are history variables.                         *)
(***************************************************************************)
EXTENDS RecordLabel, Integers

CONSTANTS
    Names,       \* names of AlertRecords
    RuleNames,   \* names of rules
    Durations,   \* TTLs that parse, in ticks
    Bad,         \* a TTL that does not parse
    Empty,       \* alertRecordTTL not set
    None,        \* no record, no TTL annotation, no refusal
    Ahead,       \* how far the operator's clock may be ahead, in ticks
    MaxTime,     \* bound on the clock
    MaxEvents    \* bound on users' writes, failures and restarts together

TTLs == Durations \cup {Bad, None}
Versions == [made : Nat, ttl : TTLs]

ASSUME RecordsConfig ==
    /\ RuleNames \subseteq Seq(Classes)
    /\ Durations \subseteq Int
    /\ Bad \notin Durations /\ None \notin Durations
    /\ None \notin Versions
    /\ Ahead \in Nat

VARIABLES
    now,      \* the API server's clock
    api,      \* the record of each name in the API server
    cache,    \* the record in the informer cache
    todo,     \* what is left of the cleaner's List
    past,     \* the versions each name has had
    purged,   \* the names the cleaner has deleted
    refused,  \* the rule name of the last record that was refused
    events

vars == <<now, api, cache, todo, past, purged, refused, events>>

NoRecords == [n \in Names |-> None]

TypeOK ==
    /\ now \in Nat
    /\ api \in [Names -> Versions \cup {None}]
    /\ cache \in [Names -> Versions \cup {None}]
    /\ todo \in [Names -> Versions \cup {None}]
    /\ past \in [Names -> SUBSET Versions]
    /\ purged \subseteq Names
    /\ refused \in RuleNames \cup {None}
    /\ events \in Nat

Init ==
    /\ now = 0
    /\ api = NoRecords /\ cache = NoRecords /\ todo = NoRecords
    /\ past = [n \in Names |-> {}]
    /\ purged = {}
    /\ refused = None
    /\ events = 0
-----------------------------------------------------------------------------
(* Writes of records.                                                      *)

Write(n, v) ==
    /\ api' = [api EXCEPT ![n] = v]
    /\ past' = [past EXCEPT ![n] = @ \cup {v}]
    /\ UNCHANGED <<now, cache, todo, purged>>

MutAnnotation(ttl) == ttl

\* Only a TTL that is set is written to the annotation, parsed or not.
Annotation(ttl) == IF ttl = Empty THEN None ELSE ttl

\* The rules whose name comes out as a label the API server accepts.
Recordable == {rule \in RuleNames : ValidLabel(SanitizeForKubernetes(rule))}

\* dispatchAlert creates the record of an alert of such a rule, under a name
\* of its own.
Create(n, ttl) ==
    /\ past[n] = {}
    /\ Recordable # {}
    /\ Write(n, [made |-> now, ttl |-> Annotation(ttl)])
    /\ UNCHANGED <<refused, events>>

Event ==
    /\ events < MaxEvents
    /\ events' = events + 1

\* The API server refuses the label: logged, and the alert has no record.
CreateRefused(rule) ==
    /\ Event
    /\ rule \notin Recordable
    /\ refused' = rule
    /\ UNCHANGED <<now, api, cache, todo, past, purged>>

\* A user creates a record, perhaps again under a name that was in use, ...
UserCreates(n, ttl) ==
    /\ Event
    /\ api[n] = None
    /\ Write(n, [made |-> now, ttl |-> ttl])
    /\ UNCHANGED refused

\* ... changes its annotation ...
UserEdits(n, ttl) ==
    /\ Event
    /\ api[n] # None
    /\ Write(n, [api[n] EXCEPT !.ttl = ttl])
    /\ UNCHANGED refused

\* ... or deletes it.
UserDeletes(n) ==
    /\ Event
    /\ api[n] # None
    /\ api' = [api EXCEPT ![n] = None]
    /\ UNCHANGED <<now, cache, todo, past, purged, refused>>

Informer(n) ==
    /\ cache[n] # api[n]
    /\ cache' = [cache EXCEPT ![n] = api[n]]
    /\ UNCHANGED <<now, api, todo, past, purged, refused, events>>
-----------------------------------------------------------------------------
(* The cleaner.                                                            *)

\* A tick of the cleaner; the previous cycle has ended.  (A List that fails
\* ends the cycle at once.)
CycleBegins ==
    /\ todo = NoRecords
    /\ todo' = cache
    /\ UNCHANGED <<now, api, cache, past, purged, refused, events>>

MutExpired(v, clock) == v.ttl \in Durations /\ clock >= v.made + v.ttl

\* The annotation is there, parses, and the time it gives is over.
Expired(v, clock) == v.ttl \in Durations /\ clock > v.made + v.ttl

Clock == now..(now + Ahead)

Handled(n) == todo' = [todo EXCEPT ![n] = None]

MutKeepEndsCycle(n) ==
    /\ todo[n] # None
    /\ \E clock \in Clock : ~Expired(todo[n], clock)
    /\ IF todo[n].ttl = Bad THEN todo' = NoRecords ELSE Handled(n)
    /\ UNCHANGED <<now, api, cache, past, purged, refused, events>>

\* continue: no TTL, a bad one, or one that is not over.
Keep(n) ==
    /\ todo[n] # None
    /\ \E clock \in Clock : ~Expired(todo[n], clock)
    /\ Handled(n)
    /\ UNCHANGED <<now, api, cache, past, purged, refused, events>>

\* Delete, of whatever has that name now.
Purge(n) ==
    /\ todo[n] # None
    /\ \E clock \in Clock : Expired(todo[n], clock)
    /\ api[n] # None
    /\ api' = [api EXCEPT ![n] = None]
    /\ purged' = purged \cup {n}
    /\ Handled(n)
    /\ UNCHANGED <<now, cache, past, refused, events>>

\* NotFound is no error.
PurgeGone(n) ==
    /\ todo[n] # None
    /\ \E clock \in Clock : Expired(todo[n], clock)
    /\ api[n] = None
    /\ Handled(n)
    /\ UNCHANGED <<now, api, cache, past, purged, refused, events>>

\* Any other error is logged.
PurgeFails(n) ==
    /\ Event
    /\ todo[n] # None
    /\ \E clock \in Clock : Expired(todo[n], clock)
    /\ Handled(n)
    /\ UNCHANGED <<now, api, cache, past, purged, refused>>

Cleanup == \E n \in Names : Keep(n) \/ Purge(n) \/ PurgeGone(n)
-----------------------------------------------------------------------------
Tick ==
    /\ now < MaxTime
    /\ now' = now + 1
    /\ UNCHANGED <<api, cache, todo, past, purged, refused, events>>

\* The operator restarts: its List is forgotten and its cache filled anew.
Restart ==
    /\ Event
    /\ todo' = NoRecords
    /\ cache' = api
    /\ UNCHANGED <<now, api, past, purged, refused>>

Next ==
    \/ \E n \in Names, ttl \in Durations \cup {Bad, Empty} : Create(n, ttl)
    \/ \E rule \in RuleNames : CreateRefused(rule)
    \/ \E n \in Names, ttl \in TTLs : UserCreates(n, ttl) \/ UserEdits(n, ttl)
    \/ \E n \in Names : UserDeletes(n) \/ Informer(n) \/ PurgeFails(n)
    \/ CycleBegins \/ Cleanup
    \/ Tick \/ Restart

Spec == Init /\ [][Next]_vars

\* The ticker ticks, a cycle goes on to its end, and the informer delivers.
FairSpec ==
    /\ Spec
    /\ WF_vars(CycleBegins) /\ WF_vars(Cleanup)
    /\ \A n \in Names : WF_vars(Informer(n))
-----------------------------------------------------------------------------
RR == INSTANCE RecordRetention WITH
          Names <- Names, Durations <- Durations, Versions <- Versions,
          None <- None, Ahead <- Ahead,
          now <- now, api <- api, past <- past, purged <- purged

\* However old the cleaner's List is and whatever users do meanwhile, no
\* record is removed of which no version has expired.
KeepsUnexpired == RR!RRSpec

Overdue(n) == api[n] # None /\ Expired(api[n], now)

\* An expired record does not stay: failing deletes, records with a bad TTL
\* and restarts only delay its removal.
ExpiredGoes == \A n \in Names : Overdue(n) ~> ~Overdue(n)

\* A record is refused for its rule's name only when truncation leaves a dash
\* at its end; any other name, an empty or a Chinese one included, is recorded.
RefusedOnlyWhenCut == refused # None => CutAtDash(refused)
=============================================================================
