--------------------------- MODULE RecordRetention ---------------------------
(***************************************************************************)
(* What the operator promises of AlertRecords, however its cleaner works:  *)
(* it removes a record only after the TTL that one of the record's         *)
(* versions carried ("alertRecordTTL ... deletes expired records",         *)
(* README.md), and one that never carried a TTL it never removes.  Users   *)
(* create, edit and delete records as they like.                           *)
(*                                                                         *)
(* past[n] are the versions that a record named n has had; purged is the   *)
(* set of names the operator has removed.                                  *)
(***************************************************************************)
EXTENDS Integers

CONSTANTS Names,      \* names of AlertRecords
          Durations,  \* TTLs that parse, in ticks
          Versions,   \* what a record can be: when it was made and its TTL
          None,       \* no record
          Ahead       \* how far the operator's clock may be ahead, in ticks

VARIABLES now, api, past, purged

rrVars == <<now, api, past, purged>>

RRInit ==
    /\ now = 0
    /\ api = [n \in Names |-> None]
    /\ past = [n \in Names |-> {}]
    /\ purged = {}

\* Time passes.
RRTick ==
    /\ now' > now
    /\ UNCHANGED <<api, past, purged>>

\* A record is created or edited, by the operator or a user, ...
RRWrite(n) ==
    /\ api'[n] \in Versions
    /\ api' = [api EXCEPT ![n] = api'[n]]
    /\ past' = [past EXCEPT ![n] = @ \cup {api'[n]}]
    /\ UNCHANGED <<now, purged>>

\* ... or deleted by a user.
RRDelete(n) ==
    /\ api' = [api EXCEPT ![n] = None]
    /\ UNCHANGED <<now, past, purged>>

\* The operator removes a record of which some version has expired.
RRPurge(n) ==
    /\ \E v \in past[n] : v.ttl \in Durations /\ now + Ahead > v.made + v.ttl
    /\ api' = [api EXCEPT ![n] = None]
    /\ purged' = purged \cup {n}
    /\ UNCHANGED <<now, past>>

RRNext ==
    \/ RRTick
    \/ \E n \in Names : RRWrite(n) \/ RRDelete(n) \/ RRPurge(n)

RRSpec == RRInit /\ [][RRNext]_rrVars
=============================================================================
