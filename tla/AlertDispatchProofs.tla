------------------------- MODULE AlertDispatchProofs -------------------------
(***************************************************************************)
(* Theorems about AlertDispatch for every set of dispatches, target,       *)
(* number of attempts and way the versions of the MonitorPod interleave.   *)
(*                                                                         *)
(* JobOK says what a sender has done by the time it is in a state, and     *)
(* DispatchOK what holds of a dispatch at each place; the count then       *)
(* follows from the fact that an update is accepted on the current version *)
(* only, by a dispatch that has not counted yet.  OutcomeInv adds for the  *)
(* refinement of AlertOutcome that no sender exists before its target is   *)
(* resolved and none records unasked; the last section shows that every    *)
(* step uses up work and none restores it.                                 *)
(***************************************************************************)
EXTENDS AlertDispatch, FiniteSetTheorems, TLAPS

JobOK(job) ==
    /\ job.lost <= job.tried
    /\ job.state \in {"start", "try"} => job.tried < MaxTries
    /\ job.state # "ok" => job.accepted <= job.lost
    /\ job.state = "ok" => /\ job.accepted > 0 /\ job.accepted <= job.lost + 1
                           /\ job.tried < MaxTries

Delivered(s) ==
    /\ \A i \in DOMAIN s : s[i].state \in {"ok", "failed"}
    /\ \E i \in DOMAIN s : s[i].state = "ok"

\* What holds of a dispatch at place p with senders s; r, c and n say whether
\* it has a record, is counted, and how many conflicts it has met.
PlaceOK(p, s, r, c, n) ==
    /\ p \in {"record", "count"} \/ r \/ c => Delivered(s)
    /\ p \in {"idle", "target", "ai", "ask", "send", "record"} => ~r /\ ~c /\ n = 0
    /\ p = "count" => ~c /\ n < Steps

DispatchOK(d) == PlaceOK(pc[d], jobs[d], d \in records, d \in counted, tries[d])

JobsInv == \A d \in Dispatches : \A i \in DOMAIN jobs[d] : JobOK(jobs[d][i])
PlaceInv == \A d \in Dispatches : DispatchOK(d)

IInv == TypeOK /\ JobsInv /\ PlaceInv /\ NoLostCount
-----------------------------------------------------------------------------
LEMMA InitIInv == Init => IInv
<1> SUFFICES ASSUME Init PROVE IInv
  OBVIOUS
<1>1. TypeOK
  <2>1. /\ <<0>> \in Seq(Nat) /\ <<0>> # <<>> /\ Len(<<0>>) = 1
    OBVIOUS
  <2>2. 0 \in 0..Steps /\ 0 \in 0..(MaxTries - 1)
    BY DispatchConfig
  <2>3. /\ versions \in Seq(Nat) /\ versions # <<>> /\ Len(versions) = 1
        /\ cache \in 0..Len(versions) /\ writer \in 0..Len(versions)
    BY <2>1 DEF Init
  <2>4. jobs \in [Dispatches -> Senders]
    <3>1. NoSenders \in [{} -> Job] /\ DOMAIN NoSenders = {}
      BY DEF NoSenders
    <3>2. NoSenders \in Senders
      BY <3>1 DEF Senders
    <3> QED  BY <3>1, <3>2 DEF Init
  <2>5. held \in [Dispatches -> 0..Len(versions)] /\ tries \in [Dispatches -> 0..Steps]
    BY <2>2, <2>3 DEF Init
  <2>6. pc \in [Dispatches -> Places]
    BY DEF Init, Places
  <2>7. asked \in [Dispatches -> 0..(MaxTries - 1)]
    BY <2>2 DEF Init
  <2> QED  BY <2>3, <2>4, <2>5, <2>6, <2>7 DEF Init, TypeOK
<1>2. JobsInv
  BY DEF Init, JobsInv, NoSenders
<1>3. PlaceInv
  BY DEF Init, PlaceInv, DispatchOK, PlaceOK
<1>4. NoLostCount
  BY FS_EmptySet DEF Init, NoLostCount
<1> QED  BY <1>1, <1>2, <1>3, <1>4 DEF IInv

\* A step of one dispatch that leaves its senders and the object alone.
LEMMA PlaceStep ==
    ASSUME IInv, NEW d \in Dispatches, NEW p \in Places, Goto(d, p),
           UNCHANGED <<jobs, object>>, records' = records \/ records' = records \cup {d},
           NEW h \in [Dispatches -> 0..Len(versions)], held' = h,
           NEW n \in [Dispatches -> 0..Steps], tries' = n,
           \A e \in Dispatches : e # d => n[e] = tries[e],
           provider' = provider,
           asked' = asked \/ asked' \in [Dispatches -> 0..(MaxTries - 1)],
           PlaceOK(p, jobs[d], d \in records', d \in counted, n[d])
    PROVE  IInv'
<1>1. TypeOK'
  BY DEF IInv, TypeOK, Goto, object
<1>2. JobsInv'
  BY DEF IInv, JobsInv, object
<1>3. ASSUME NEW e \in Dispatches PROVE DispatchOK(e)'
  <2>1. CASE e = d
    <3>1. pc'[d] = p
      BY DEF Goto, IInv, TypeOK
    <3> QED  BY <2>1, <3>1 DEF DispatchOK, object
  <2>2. CASE e # d
    <3>1. pc'[e] = pc[e] /\ (e \in records' <=> e \in records) /\ tries'[e] = tries[e]
      BY <2>2 DEF Goto, IInv, TypeOK
    <3>2. PlaceOK(pc[e], jobs[e], e \in records, e \in counted, tries[e])
      BY DEF IInv, PlaceInv, DispatchOK
    <3> QED  BY <3>1, <3>2 DEF DispatchOK, object, PlaceOK
  <2> QED  BY <2>1, <2>2
<1>4. NoLostCount'
  BY DEF IInv, NoLostCount, object
<1> QED  BY <1>1, <1>2, <1>3, <1>4 DEF IInv, PlaceInv

\* A step of one sender.
LEMMA JobStep ==
    ASSUME IInv, NEW d \in Dispatches, NEW i \in DOMAIN jobs[d], pc[d] = "send",
           NEW job \in Job, JobOK(job), SetJob(d, i, job),
           UNCHANGED <<pc, records, object, held, tries, provider, asked>>
    PROVE  IInv'
<1> DEFINE s == [jobs[d] EXCEPT ![i] = job]
<1>1. jobs \in [Dispatches -> Senders] /\ jobs' = [jobs EXCEPT ![d] = s]
  BY DEF IInv, TypeOK, SetJob
<1>2. /\ s \in Senders /\ DOMAIN s = DOMAIN jobs[d]
      /\ \A k \in DOMAIN s : s[k] = IF k = i THEN job ELSE jobs[d][k]
  <2>1. PICK R \in SUBSET DOMAIN Members : jobs[d] \in [R -> Job]
    BY <1>1 DEF Senders
  <2>2. s \in [R -> Job]
    BY <2>1
  <2> QED  BY <2>1, <2>2 DEF Senders
<1>3. \A k \in DOMAIN s : JobOK(s[k])
  BY <1>2 DEF IInv, JobsInv
<1> HIDE DEF s
<1>4. \A e \in Dispatches : jobs'[e] = IF e = d THEN s ELSE jobs[e]
  BY <1>1
<1>5. JobsInv'
  BY <1>3, <1>4 DEF IInv, JobsInv
<1>6. jobs' \in [Dispatches -> Senders]
  BY <1>1, <1>2
<1>8. TypeOK'
  BY <1>6 DEF IInv, TypeOK, object
<1>9. ASSUME NEW e \in Dispatches PROVE DispatchOK(e)'
  <2>1. PlaceOK(pc[e], jobs[e], e \in records, e \in counted, tries[e])
    BY DEF IInv, PlaceInv, DispatchOK
  <2>2. CASE e = d
    <3>1. PlaceOK(pc[e], s, e \in records, e \in counted, tries[e])
      BY <2>1, <2>2 DEF PlaceOK
    <3> QED  BY <1>4, <2>2, <3>1 DEF DispatchOK, object
  <2>3. CASE e # d
    BY <1>4, <2>1, <2>3 DEF DispatchOK, object
  <2> QED  BY <2>2, <2>3
<1>10. NoLostCount'
  BY DEF IInv, NoLostCount, object
<1> QED  BY <1>5, <1>8, <1>9, <1>10 DEF IInv, PlaceInv

\* What one attempt makes of a sender.
LEMMA PostJobs ==
    ASSUME NEW job \in Job, JobOK(job), job.state \in {"start", "try"},
           NEW n \in {0, 1}
    PROVE  \A next \in {[job EXCEPT !.state = "failed"], Succeed(job), Again(job, n)} :
               next \in Job /\ JobOK(next)
<1>1. MaxTries \in Nat
  BY DispatchConfig
<1>2. /\ job.tried \in 0..MaxTries /\ job.accepted \in 0..MaxTries
      /\ job.lost \in 0..MaxTries /\ job.tried < MaxTries /\ job.lost <= job.tried /\ job.accepted <= job.lost
  BY DEF Job, JobOK
<1> DEFINE failed == [job EXCEPT !.state = "failed"]
<1>a. /\ failed \in Job /\ failed.state = "failed" /\ failed.tried = job.tried
      /\ failed.accepted = job.accepted /\ failed.lost = job.lost
  BY DEF Job
<1> HIDE DEF failed
<1>3. failed \in Job /\ JobOK(failed)
  BY <1>1, <1>2, <1>a DEF JobOK
<1>4. Succeed(job) \in Job /\ JobOK(Succeed(job))
  BY <1>1, <1>2 DEF Succeed, Job, JobOK
<1>5. Again(job, n) \in Job /\ JobOK(Again(job, n))
  BY <1>1, <1>2 DEF Again, Job, JobOK
<1> QED  BY <1>3, <1>4, <1>5 DEF failed

LEMMA PostIInv ==
    ASSUME IInv, NEW d \in Dispatches, NEW i \in DOMAIN jobs[d], Post(d, i)
    PROVE  IInv'
<1> USE DEF Post, SenderReturns, PostAccepted, PostRejected, PostFails
<1> DEFINE job == jobs[d][i]
<1>1. job \in Job /\ JobOK(job)
  <2>1. PICK R \in SUBSET DOMAIN Members : jobs[d] \in [R -> Job]
    BY DEF IInv, TypeOK, Senders
  <2> QED  BY <2>1 DEF IInv, JobsInv
<1>2. pc[d] = "send" /\ job.state \in {"start", "try"}
  BY DEF Sending
<1>3. UNCHANGED <<pc, records, object, held, tries, provider, asked>>
  OBVIOUS
<1>4. PICK n \in {0, 1} :
          \E next \in {[job EXCEPT !.state = "failed"], Succeed(job), Again(job, n)} :
              SetJob(d, i, next)
  OBVIOUS
<1> HIDE DEF job
<1>5. PICK next \in Job : JobOK(next) /\ SetJob(d, i, next)
  BY <1>1, <1>2, <1>4, PostJobs
<1> QED  BY <1>2, <1>3, <1>5, JobStep
-----------------------------------------------------------------------------
\* The steps of a dispatch that leave its senders and the object alone.
LEMMA LimitIInv ==
    ASSUME IInv, NEW d \in Dispatches, Limit(d)
    PROVE  IInv'
<1>1. PICK p \in {"target", "done"} : Goto(d, p)
  BY DEF Limit
<1>2. PlaceOK(p, jobs[d], d \in records, d \in counted, tries[d])
  BY <1>1 DEF Limit, IInv, PlaceInv, DispatchOK, PlaceOK
<1>3. held \in [Dispatches -> 0..Len(versions)] /\ tries \in [Dispatches -> 0..Steps]
  BY DEF IInv, TypeOK
<1> QED  BY <1>1, <1>2, <1>3, PlaceStep DEF Limit, Places

LEMMA EnrichIInv ==
    ASSUME IInv, NEW d \in Dispatches,
           EnrichFails(d) \/ EnrichAsks(d) \/ AskEnds(d) \/ AskAgain(d)
    PROVE  IInv'
<1> USE DEF EnrichFails, EnrichAsks, AskEnds, AskAgain
<1>1. PICK p \in {"ask", "send"} : Goto(d, p)
  BY DEF AskAgain
<1>2. PlaceOK(p, jobs[d], d \in records, d \in counted, tries[d])
  BY <1>1 DEF IInv, PlaceInv, DispatchOK, PlaceOK
<1>3. held \in [Dispatches -> 0..Len(versions)] /\ tries \in [Dispatches -> 0..Steps]
  BY DEF IInv, TypeOK
<1>4. asked' = asked \/ asked' \in [Dispatches -> 0..(MaxTries - 1)]
  <2>1. asked \in [Dispatches -> 0..(MaxTries - 1)] /\ MaxTries \in Nat \ {0}
    BY DispatchConfig DEF IInv, TypeOK
  <2>0. asked[d] \in 0..(MaxTries - 1)
    BY <2>1
  <2>2. /\ 0 \in 0..(MaxTries - 1)
        /\ asked[d] + 1 # MaxTries => asked[d] + 1 \in 0..(MaxTries - 1)
    BY <2>1, <2>0
  <2> QED  BY <2>1, <2>2
<1>5. UNCHANGED <<jobs, records, object, held, tries, provider>>
  OBVIOUS
<1> QED  BY <1>1, <1>2, <1>3, <1>4, <1>5, PlaceStep DEF Places

\* wg.Wait returns when every sender has, and the count follows a success.
LEMMA AllReturnIInv ==
    ASSUME IInv, NEW d \in Dispatches, AllReturn(d)
    PROVE  IInv'
<1>1. PICK p \in {"done", "record", "count"} :
          /\ Goto(d, p)
          /\ p # "done" => Successes(d) # {}
  BY DEF AllReturn
<1>2. p # "done" => Delivered(jobs[d])
  BY <1>1 DEF AllReturn, Returned, Successes, Delivered
<1>3. PlaceOK(p, jobs[d], d \in records, d \in counted, tries[d])
  BY <1>1, <1>2, DispatchConfig DEF AllReturn, IInv, PlaceInv, DispatchOK, PlaceOK
<1>4. held \in [Dispatches -> 0..Len(versions)] /\ tries \in [Dispatches -> 0..Steps]
  BY DEF IInv, TypeOK
<1> QED  BY <1>1, <1>3, <1>4, PlaceStep DEF AllReturn, Places

LEMMA RecordIInv ==
    ASSUME IInv, NEW d \in Dispatches, Record(d)
    PROVE  IInv'
<1>1. PlaceOK("count", jobs[d], d \in records', d \in counted, tries[d])
  BY DispatchConfig DEF Record, IInv, PlaceInv, DispatchOK, PlaceOK
<1>2. held \in [Dispatches -> 0..Len(versions)] /\ tries \in [Dispatches -> 0..Steps]
  BY DEF IInv, TypeOK
<1> QED  BY <1>1, <1>2, PlaceStep DEF Record, Places

LEMMA CountGetIInv ==
    ASSUME IInv, NEW d \in Dispatches, CountGet(d)
    PROVE  IInv'
<1>1. \A p \in {"count", "done"} :
          PlaceOK(p, jobs[d], d \in records, d \in counted, tries[d])
  BY DEF CountGet, IInv, PlaceInv, DispatchOK, PlaceOK
<1>2. /\ held \in [Dispatches -> 0..Len(versions)]
      /\ tries \in [Dispatches -> 0..Steps]
      /\ cache \in 0..Len(versions) /\ pc \in [Dispatches -> Places]
  BY DEF IInv, TypeOK
<1>3. CASE cache = 0
  BY <1>1, <1>2, <1>3, PlaceStep DEF CountGet, Places
<1>4. CASE cache # 0
  <2>1. Goto(d, "count")
    BY <1>2, <1>4 DEF CountGet, Goto
  <2>2. held' = [held EXCEPT ![d] = cache]
    BY <1>4 DEF CountGet
  <2>3. [held EXCEPT ![d] = cache] \in [Dispatches -> 0..Len(versions)]
    BY <1>2
  <2> QED  BY <1>1, <1>2, <2>1, <2>2, <2>3, PlaceStep DEF CountGet, Places
<1> QED  BY <1>3, <1>4

LEMMA CountConflictIInv ==
    ASSUME IInv, NEW d \in Dispatches, CountConflict(d)
    PROVE  IInv'
<1> DEFINE h == [held EXCEPT ![d] = 0]
           n == [tries EXCEPT ![d] = @ + 1]
<1>1. PICK p \in {"count", "done"} :
          Goto(d, p) /\ (p = "count" => tries[d] + 1 # Steps)
  BY DEF CountConflict
<1>2. /\ held \in [Dispatches -> 0..Len(versions)]
      /\ tries \in [Dispatches -> 0..Steps] /\ Steps \in Nat
      /\ Len(versions) \in Nat
  BY DispatchConfig DEF IInv, TypeOK
<1>3. PlaceOK("count", jobs[d], d \in records, d \in counted, tries[d])
  BY DEF CountConflict, IInv, PlaceInv, DispatchOK
<1>4. tries[d] < Steps /\ tries[d] \in Nat
  BY <1>2, <1>3 DEF PlaceOK
<1>5. h \in [Dispatches -> 0..Len(versions)] /\ n \in [Dispatches -> 0..Steps]
  BY <1>2, <1>4
<1>6. n[d] = tries[d] + 1 /\ \A e \in Dispatches : e # d => n[e] = tries[e]
  BY <1>2
<1>7. tries' = n /\ held' = h
  BY DEF CountConflict
<1> HIDE DEF h, n
<1>8. PlaceOK(p, jobs[d], d \in records, d \in counted, n[d])
  BY <1>1, <1>2, <1>3, <1>4, <1>6 DEF PlaceOK
<1> QED  BY <1>1, <1>5, <1>6, <1>7, <1>8, PlaceStep DEF CountConflict, Places

LEMMA CountFailsIInv ==
    ASSUME IInv, NEW d \in Dispatches, CountFails(d)
    PROVE  IInv'
<1>1. PlaceOK("done", jobs[d], d \in records, d \in counted, tries[d])
  BY DEF CountFails, IInv, PlaceInv, DispatchOK, PlaceOK
<1>2. held \in [Dispatches -> 0..Len(versions)] /\ tries \in [Dispatches -> 0..Steps]
  BY DEF IInv, TypeOK
<1> QED  BY <1>1, <1>2, PlaceStep DEF CountFails, Places
-----------------------------------------------------------------------------
\* The steps that change more than that.
LEMMA ResolveIInv ==
    ASSUME IInv, NEW d \in Dispatches, Resolve(d)
    PROVE  IInv'
<1>1. PICK R \in SUBSET DOMAIN Members, p \in {"done", "ai", "send"} :
          Goto(d, p) /\ jobs' = [jobs EXCEPT ![d] = [i \in R |-> NewJob]]
  BY DEF Resolve
<1> DEFINE s == [i \in R |-> NewJob]
<1>2. UNCHANGED <<records, object, held, tries, provider, asked>> /\ pc[d] = "target"
  BY DEF Resolve
<1>3. /\ pc \in [Dispatches -> Places] /\ jobs \in [Dispatches -> Senders]
      /\ MaxTries \in Nat \ {0}
  BY DispatchConfig DEF IInv, TypeOK
<1>4. NewJob \in Job /\ JobOK(NewJob)
  BY <1>3 DEF NewJob, Job, JobOK
<1>5. s \in Senders /\ \A i \in DOMAIN s : s[i] \in Job /\ JobOK(s[i])
  <2>1. s \in [R -> Job]
    BY <1>4
  <2> QED  BY <1>4, <2>1 DEF Senders
<1>6. jobs' = [jobs EXCEPT ![d] = s]
  BY <1>1
<1> HIDE DEF s
<1>7. jobs' \in [Dispatches -> Senders] /\ \A e \in Dispatches :
          jobs'[e] = IF e = d THEN s ELSE jobs[e]
  BY <1>3, <1>5, <1>6
<1>8. JobsInv'
  BY <1>5, <1>7 DEF IInv, JobsInv
<1>9. TypeOK'
  <2>1. pc' \in [Dispatches -> Places]
    BY <1>1, <1>3 DEF Goto, Places
  <2> QED  BY <1>2, <1>7, <2>1 DEF IInv, TypeOK, object
<1>10. ASSUME NEW e \in Dispatches PROVE DispatchOK(e)'
  <2>1. PlaceOK(pc[e], jobs[e], e \in records, e \in counted, tries[e])
    BY DEF IInv, PlaceInv, DispatchOK
  <2>2. CASE e = d
    <3>1. pc'[d] = p
      BY <1>1, <1>3 DEF Goto
    <3>2. PlaceOK(p, s, e \in records, e \in counted, tries[e])
      BY <1>1, <1>2, <2>1, <2>2 DEF PlaceOK
    <3> QED  BY <1>2, <1>7, <2>2, <3>1, <3>2 DEF DispatchOK, object
  <2>3. CASE e # d
    <3>1. pc'[e] = pc[e]
      BY <1>1, <1>3, <2>3 DEF Goto
    <3> QED  BY <1>2, <1>7, <2>1, <2>3, <3>1 DEF DispatchOK, object
  <2> QED  BY <2>2, <2>3
<1>11. NoLostCount'
  BY <1>2 DEF IInv, NoLostCount, object
<1> QED  BY <1>8, <1>9, <1>10, <1>11 DEF IInv, PlaceInv

\* The version a dispatch updates is the current one, and it raises the count
\* by itself alone.
LEMMA CountUpdateIInv ==
    ASSUME IInv, NEW d \in Dispatches, CountUpdate(d)
    PROVE  IInv'
<1> DEFINE n == Len(versions)
           v == Append(versions, versions[n] + 1)
<1>1. /\ versions' = v /\ counted' = counted \cup {d} /\ Goto(d, "done")
      /\ UNCHANGED <<jobs, records, gone, cache, writer, held, tries, provider, asked>>
      /\ pc[d] = "count"
  BY DEF CountUpdate, Current
<1>2. /\ pc \in [Dispatches -> Places] /\ versions \in Seq(Nat) /\ n \in Nat \ {0}
      /\ counted \subseteq Dispatches
  BY DEF IInv, TypeOK
<1>3. v \in Seq(Nat) /\ Len(v) = n + 1 /\ v[n + 1] = versions[n] + 1 /\ v # <<>>
  BY <1>2
<1>4. \A k \in 0..n : k \in 0..(n + 1)
  BY <1>2
<1> HIDE DEF v, n
<1>5. d \notin counted /\ Delivered(jobs[d])
  BY <1>1 DEF IInv, PlaceInv, DispatchOK, PlaceOK
<1>6. NoLostCount'
  <2>1. IsFiniteSet(counted)
    BY <1>2, DispatchConfig, FS_Subset
  <2>2. Cardinality(counted \cup {d}) = Cardinality(counted) + 1
    BY <1>5, <2>1, FS_AddElement
  <2>3. versions[n] = Cardinality(counted)
    BY DEF IInv, NoLostCount, n
  <2> QED  BY <1>1, <1>3, <2>2, <2>3 DEF NoLostCount
<1>7. TypeOK'
  <2>1. pc' \in [Dispatches -> Places]
    BY <1>1, <1>2 DEF Goto, Places
  <2>2. Len(versions') = n + 1
    BY <1>1, <1>3
  <2>3. /\ cache \in 0..n /\ writer \in 0..n /\ held \in [Dispatches -> 0..n]
    BY DEF IInv, TypeOK, n
  <2>4. /\ cache \in 0..(n + 1) /\ writer \in 0..(n + 1)
        /\ held \in [Dispatches -> 0..(n + 1)]
    BY <1>4, <2>3
  <2> QED  BY <1>1, <1>2, <1>3, <2>1, <2>2, <2>4 DEF IInv, TypeOK
<1>8. JobsInv'
  BY <1>1 DEF IInv, JobsInv
<1>9. ASSUME NEW e \in Dispatches PROVE DispatchOK(e)'
  <2>1. PlaceOK(pc[e], jobs[e], e \in records, e \in counted, tries[e])
    BY DEF IInv, PlaceInv, DispatchOK
  <2>2. CASE e = d
    <3>1. pc'[d] = "done"
      BY <1>1, <1>2 DEF Goto
    <3>2. PlaceOK("done", jobs[d], d \in records, TRUE, tries[d])
      BY <1>5 DEF PlaceOK
    <3> QED  BY <1>1, <2>2, <3>1, <3>2 DEF DispatchOK, PlaceOK
  <2>3. CASE e # d
    <3>1. pc'[e] = pc[e] /\ (e \in counted' <=> e \in counted)
      BY <1>1, <1>2, <2>3 DEF Goto
    <3> QED  BY <1>1, <2>1, <3>1 DEF DispatchOK, PlaceOK
  <2> QED  BY <2>2, <2>3
<1> QED  BY <1>6, <1>7, <1>8, <1>9 DEF IInv, PlaceInv
-----------------------------------------------------------------------------
\* What ends the process: no dispatch gains a record or a count by it.
LEMMA ProcessEndsIInv ==
    ASSUME IInv, NEW P \in [Dispatches -> Places], pc' = P, writer' = 0,
           \A d \in Dispatches : P[d] = pc[d] \/ P[d] \in {"dead", "panic"},
           UNCHANGED <<jobs, records, versions, gone, cache, counted, held, tries,
                       provider, asked>>
    PROVE  IInv'
<1>1. TypeOK'
  BY DEF IInv, TypeOK
<1>2. JobsInv'
  BY DEF IInv, JobsInv
<1>3. ASSUME NEW d \in Dispatches PROVE DispatchOK(d)'
  <2>1. PlaceOK(pc[d], jobs[d], d \in records, d \in counted, tries[d])
    BY DEF IInv, PlaceInv, DispatchOK
  <2>2. PlaceOK(P[d], jobs[d], d \in records, d \in counted, tries[d])
    BY <2>1 DEF PlaceOK
  <2> QED  BY <2>2 DEF DispatchOK
<1>4. NoLostCount'
  BY DEF IInv, NoLostCount
<1> QED  BY <1>1, <1>2, <1>3, <1>4 DEF IInv, PlaceInv

LEMMA EnrichPanicsIInv ==
    ASSUME IInv, NEW d \in Dispatches, EnrichPanics(d)
    PROVE  IInv'
<1> DEFINE P == [e \in Dispatches |->
                    IF e = d THEN "panic"
                    ELSE IF pc[e] \in {"idle", "done", "panic"} THEN pc[e] ELSE "dead"]
<1>1. /\ P \in [Dispatches -> Places]
      /\ \A e \in Dispatches : P[e] = pc[e] \/ P[e] \in {"dead", "panic"}
  BY DEF IInv, TypeOK, Places
<1>2. pc' = P
  BY DEF EnrichPanics
<1> HIDE DEF P
<1> QED  BY <1>1, <1>2, ProcessEndsIInv DEF EnrichPanics

LEMMA CrashIInv ==
    ASSUME IInv, Crash
    PROVE  IInv'
<1> DEFINE P == [e \in Dispatches |->
                    IF pc[e] \in {"idle", "done", "panic"} THEN pc[e] ELSE "dead"]
<1>1. /\ P \in [Dispatches -> Places]
      /\ \A e \in Dispatches : P[e] = pc[e] \/ P[e] \in {"dead", "panic"}
  BY DEF IInv, TypeOK, Places
<1>2. pc' = P
  BY DEF Crash
<1> HIDE DEF P
<1> QED  BY <1>1, <1>2, ProcessEndsIInv DEF Crash

\* A step that leaves the dispatches and the count of the current version
\* alone.
LEMMA ObjectStep ==
    ASSUME IInv, UNCHANGED <<pc, jobs, records, counted, held, tries, asked>>,
           NEW v \in Seq(Nat), versions' = v, Len(v) >= Len(versions), v # <<>>,
           v[Len(v)] = versions[Len(versions)],
           NEW c \in 0..Len(v), cache' = c, NEW w \in 0..Len(v), writer' = w,
           gone' \in BOOLEAN, provider' \in [section : BOOLEAN, ready : BOOLEAN]
    PROVE  IInv'
<1>1. held \in [Dispatches -> 0..Len(v)]
  <2>1. Len(v) \in Nat /\ Len(versions) \in Nat
    BY DEF IInv, TypeOK
  <2>2. \A k \in 0..Len(versions) : k \in 0..Len(v)
    BY <2>1
  <2> QED  BY <2>2 DEF IInv, TypeOK
<1>2. TypeOK'
  BY <1>1 DEF IInv, TypeOK
<1>3. JobsInv'
  BY DEF IInv, JobsInv
<1>4. PlaceInv'
  BY DEF IInv, PlaceInv, DispatchOK, PlaceOK
<1>5. NoLostCount'
  BY DEF IInv, NoLostCount
<1> QED  BY <1>2, <1>3, <1>4, <1>5 DEF IInv

\* The reconciler writes back the count it read: the current one, or nothing.
LEMMA ReconcileUpdateIInv ==
    ASSUME IInv, ReconcileUpdate
    PROVE  IInv'
<1> DEFINE n == Len(versions)
<1>1. /\ versions \in Seq(Nat) /\ versions # <<>> /\ n \in Nat \ {0}
      /\ cache \in 0..n /\ writer \in 0..n /\ gone \in BOOLEAN
      /\ provider \in [section : BOOLEAN, ready : BOOLEAN]
  BY DEF IInv, TypeOK
<1>2. CASE ~Current(writer)
  <2>1. versions' = versions
    BY <1>2 DEF ReconcileUpdate
  <2> QED  BY <1>1, <2>1, ObjectStep DEF ReconcileUpdate
<1>3. CASE Current(writer)
  <2> DEFINE v == Append(versions, versions[n])
  <2>1. v \in Seq(Nat) /\ Len(v) = n + 1 /\ v[n + 1] = versions[n] /\ v # <<>>
    BY <1>1
  <2>2. versions' = v
    BY <1>3 DEF ReconcileUpdate, Current
  <2> HIDE DEF v
  <2>3. v[Len(v)] = versions[Len(versions)] /\ Len(v) >= Len(versions)
    BY <1>1, <2>1
  <2>4. cache \in 0..Len(v) /\ 0 \in 0..Len(v)
    BY <1>1, <2>1
  <2> QED  BY <1>1, <2>1, <2>2, <2>3, <2>4, ObjectStep DEF ReconcileUpdate
<1> QED  BY <1>2, <1>3

LEMMA EnvironmentIInv ==
    ASSUME IInv, Environment
    PROVE  IInv'
<1> DEFINE n == Len(versions)
<1>1. /\ versions \in Seq(Nat) /\ versions # <<>> /\ n \in Nat \ {0}
      /\ cache \in 0..n /\ writer \in 0..n /\ gone \in BOOLEAN
      /\ provider \in [section : BOOLEAN, ready : BOOLEAN]
  BY DEF IInv, TypeOK
<1>2. CASE ReconcileGet
  BY <1>1, <1>2, ObjectStep DEF ReconcileGet
<1>3. CASE ReconcileUpdate
  BY <1>3, ReconcileUpdateIInv
<1>4. CASE CacheSync
  <2>1. cache' \in 0..n
    BY <1>1, <1>4 DEF CacheSync
  <2> QED  BY <1>1, <1>4, <2>1, ObjectStep DEF CacheSync
<1>5. CASE Delete
  BY <1>1, <1>5, ObjectStep DEF Delete
<1>6. CASE EditProvider
  <2>1. provider' \in [section : BOOLEAN, ready : BOOLEAN]
    BY <1>1, <1>6 DEF EditProvider
  <2> QED  BY <1>1, <1>6, <2>1, ObjectStep DEF EditProvider, object
<1>7. CASE ReconcileProvider
  <2>1. provider' \in [section : BOOLEAN, ready : BOOLEAN]
    BY <1>1, <1>7 DEF ReconcileProvider
  <2> QED  BY <1>1, <1>7, <2>1, ObjectStep DEF ReconcileProvider, object
<1>8. CASE Crash
  BY <1>8, CrashIInv
<1> QED  BY <1>2, <1>3, <1>4, <1>5, <1>6, <1>7, <1>8 DEF Environment
-----------------------------------------------------------------------------
LEMMA NextIInv == IInv /\ [Next]_vars => IInv'
<1> SUFFICES ASSUME IInv, [Next]_vars PROVE IInv'
  OBVIOUS
<1>1. ASSUME NEW d \in Dispatches, Dispatch(d) PROVE IInv'
  BY <1>1, LimitIInv, ResolveIInv, EnrichIInv, EnrichPanicsIInv, PostIInv,
     AllReturnIInv, RecordIInv, CountGetIInv, CountUpdateIInv, CountConflictIInv,
     CountFailsIInv DEF Dispatch
<1>2. CASE Environment
  BY <1>2, EnvironmentIInv
<1>3. CASE UNCHANGED vars
  BY <1>3 DEF vars, IInv, TypeOK, JobsInv, PlaceInv, DispatchOK, PlaceOK, NoLostCount
<1> QED  BY <1>1, <1>2, <1>3 DEF Next

LEMMA SpecIInv == Spec => []IInv
  BY InitIInv, NextIInv, PTL DEF Spec

\* Every variable keeps its type; in particular no sender makes more than
\* MaxTries attempts and no dispatch meets more than Steps conflicts.
THEOREM TypeCorrect == Spec => []TypeOK
<1>1. IInv => TypeOK
  BY DEF IInv
<1> QED  BY <1>1, SpecIInv, PTL

\* AlertsSentCount (MonitorPod.status) is the number of dispatches whose
\* update was accepted, however the dispatches and the reconciler interleave
\* and however old the versions they read are.
THEOREM NoLostCountHolds == Spec => []NoLostCount
<1>1. IInv => NoLostCount
  BY DEF IInv
<1> QED  BY <1>1, SpecIInv, PTL

\* dispatchAlert creates an AlertRecord and raises the count only for an
\* alert that every sender is done with and that one of them delivered.
THEOREM RecordJustifiedHolds == Spec => []RecordJustified
<1>1. ASSUME IInv PROVE RecordJustified
  <2>1. ASSUME NEW d \in records \cup counted
        PROVE  /\ \A i \in DOMAIN jobs[d] : jobs[d][i].state \in {"ok", "failed"}
               /\ \E i \in DOMAIN jobs[d] : jobs[d][i].accepted > 0
    <3>1. d \in Dispatches
      BY <1>1 DEF IInv, TypeOK
    <3>2. Delivered(jobs[d])
      BY <1>1, <3>1 DEF IInv, PlaceInv, DispatchOK, PlaceOK
    <3>3. PICK i \in DOMAIN jobs[d] : jobs[d][i].state = "ok"
      BY <3>2 DEF Delivered
    <3>4. jobs[d][i].accepted > 0
      BY <1>1, <3>1, <3>3 DEF IInv, JobsInv, JobOK
    <3> QED  BY <3>2, <3>4 DEF Delivered
  <2> QED  BY <2>1 DEF RecordJustified
<1> QED  BY <1>1, SpecIInv, PTL

\* The retries of sendWebhookAlert and sendFeishuAlert deliver an alert again
\* only after an answer was lost, and at most MaxTries times in all.
THEOREM DuplicatesExplainedHolds == Spec => []DuplicatesExplained
<1>1. ASSUME IInv PROVE DuplicatesExplained
  <2>1. ASSUME NEW d \in Dispatches, NEW i \in DOMAIN jobs[d]
        PROVE  /\ jobs[d][i].accepted <= jobs[d][i].lost + 1
               /\ jobs[d][i].accepted <= MaxTries
    <3>1. PICK R \in SUBSET DOMAIN Members : jobs[d] \in [R -> Job]
      BY <1>1 DEF IInv, TypeOK, Senders
    <3>2. jobs[d][i] \in Job /\ JobOK(jobs[d][i])
      BY <1>1, <3>1 DEF IInv, JobsInv
    <3> QED  BY <3>2, DispatchConfig DEF Job, JobOK
  <2> QED  BY <2>1 DEF DuplicatesExplained
<1> QED  BY <1>1, SpecIInv, PTL
-----------------------------------------------------------------------------
(* AlertDispatch implements AlertOutcome.  A step of a dispatch is a step  *)
(* of the promise or none; that no step takes back what an alert has       *)
(* reached, and none but Resolve begins a dispatch's senders, is the part  *)
(* IInv does not say.                                                      *)

OutcomeInv ==
    \A d \in Dispatches :
        /\ pc[d] \in {"idle", "target"} => DOMAIN jobs[d] = {}
        /\ pc[d] = "record" => RecordAlerts

LEMMA InitOutcome == Init => OutcomeInv /\ AO!AOInit
<1> SUFFICES ASSUME Init PROVE OutcomeInv /\ AO!AOInit
  OBVIOUS
<1>1. \A d \in Dispatches : DOMAIN jobs[d] = {} /\ pc[d] = "idle"
  BY DEF Init, NoSenders
<1>2. [d \in Dispatches |-> Reached(d)] = [d \in Dispatches |-> {}]
  BY <1>1 DEF Reached
<1>3. versions[Len(versions)] = 0
  BY DEF Init
<1> QED  BY <1>1, <1>2, <1>3 DEF OutcomeInv, AO!AOInit, Init

\* What moves on to a place, and what of the senders.
LEMMA NextOutcomeInv ==
    ASSUME IInv, OutcomeInv, [Next]_vars
    PROVE  OutcomeInv'
<1>1. pc \in [Dispatches -> Places] /\ jobs \in [Dispatches -> Senders]
  BY DEF IInv, TypeOK
<1> SUFFICES ASSUME NEW e \in Dispatches
             PROVE  /\ pc'[e] \in {"idle", "target"} => DOMAIN jobs'[e] = {}
                    /\ pc'[e] = "record" => RecordAlerts
  BY DEF OutcomeInv
<1>2. /\ pc[e] \in {"idle", "target"} => DOMAIN jobs[e] = {}
      /\ pc[e] = "record" => RecordAlerts
  BY DEF OutcomeInv
<1>3. ASSUME NEW d \in Dispatches, Resolve(d)
      PROVE  /\ pc'[e] \in {"idle", "target"} => DOMAIN jobs'[e] = {}
             /\ pc'[e] = "record" => RecordAlerts
  <2>1. PICK p \in {"done", "ai", "send"} : Goto(d, p)
    BY <1>3 DEF Resolve
  <2>2. e # d => jobs'[e] = jobs[e] /\ pc'[e] = pc[e]
    BY <1>1, <1>3, <2>1 DEF Resolve, Goto
  <2>3. pc'[d] = p
    BY <1>1, <2>1 DEF Goto
  <2> QED  BY <1>2, <2>2, <2>3
<1>4. ASSUME NEW d \in Dispatches, NEW i \in DOMAIN jobs[d], Post(d, i)
      PROVE  /\ pc'[e] \in {"idle", "target"} => DOMAIN jobs'[e] = {}
             /\ pc'[e] = "record" => RecordAlerts
  <2>1. pc[d] = "send" /\ pc' = pc
    BY <1>4 DEF Post, SenderReturns, PostAccepted, PostRejected, PostFails, Sending
  <2>2. e # d => jobs'[e] = jobs[e]
    BY <1>1, <1>4
       DEF Post, SenderReturns, PostAccepted, PostRejected, PostFails, SetJob
  <2> QED  BY <1>2, <2>1, <2>2
<1>5. ASSUME NEW d \in Dispatches, NEW p \in Places, Goto(d, p), jobs' = jobs,
             p = "target" => pc[d] = "idle", p = "record" => RecordAlerts, p # "idle"
      PROVE  /\ pc'[e] \in {"idle", "target"} => DOMAIN jobs'[e] = {}
             /\ pc'[e] = "record" => RecordAlerts
  BY <1>1, <1>2, <1>5 DEF Goto
<1>6. ASSUME NEW d \in Dispatches,
             \/ Limit(d) \/ EnrichFails(d) \/ EnrichAsks(d) \/ AskEnds(d)
             \/ AskAgain(d) \/ AllReturn(d) \/ Record(d)
             \/ CountUpdate(d) \/ CountConflict(d) \/ CountFails(d)
      PROVE  /\ pc'[e] \in {"idle", "target"} => DOMAIN jobs'[e] = {}
             /\ pc'[e] = "record" => RecordAlerts
  <2>1. jobs' = jobs
    BY <1>6 DEF Limit, EnrichFails, EnrichAsks, AskEnds, AskAgain, AllReturn,
       Record, CountUpdate, CountConflict, CountFails
  <2>2. PICK p \in Places :
            /\ Goto(d, p) /\ p # "idle"
            /\ (p = "target" => pc[d] = "idle") /\ (p = "record" => RecordAlerts)
    BY <1>6 DEF Limit, EnrichFails, EnrichAsks, AskEnds, AskAgain, AllReturn,
       Record, CountUpdate, CountConflict, CountFails, Places
  <2> QED  BY <1>5, <2>1, <2>2
<1>7. ASSUME NEW d \in Dispatches, CountGet(d)
      PROVE  /\ pc'[e] \in {"idle", "target"} => DOMAIN jobs'[e] = {}
             /\ pc'[e] = "record" => RecordAlerts
  BY <1>1, <1>2, <1>7 DEF CountGet, Goto
<1>8. ASSUME jobs' = jobs,
             pc' = pc \/ pc'[e] = pc[e] \/ pc'[e] \in {"dead", "panic"}
      PROVE  /\ pc'[e] \in {"idle", "target"} => DOMAIN jobs'[e] = {}
             /\ pc'[e] = "record" => RecordAlerts
  BY <1>2, <1>8
<1>9. ASSUME NEW d \in Dispatches, EnrichPanics(d)
      PROVE  /\ pc'[e] \in {"idle", "target"} => DOMAIN jobs'[e] = {}
             /\ pc'[e] = "record" => RecordAlerts
  BY <1>8, <1>9 DEF EnrichPanics
<1>10. ASSUME Environment \/ UNCHANGED vars
       PROVE  /\ pc'[e] \in {"idle", "target"} => DOMAIN jobs'[e] = {}
              /\ pc'[e] = "record" => RecordAlerts
  <2>1. jobs' = jobs /\ (pc' = pc \/ Crash)
    BY <1>10 DEF Environment, ReconcileGet, ReconcileUpdate, CacheSync, Delete,
       EditProvider, ReconcileProvider, Crash, vars
  <2>2. Crash => pc'[e] = pc[e] \/ pc'[e] \in {"dead", "panic"}
    BY DEF Crash
  <2> QED  BY <1>8, <2>1, <2>2
<1> QED
  BY <1>3, <1>4, <1>6, <1>7, <1>9, <1>10 DEF Next, Dispatch

\* What the promise sees of a state.
seen == <<[d \in Dispatches |-> Reached(d)], records, counted,
          versions[Len(versions)], gone>>

\* A sender's attempt is the alert's arrival at its target, or nothing new.
LEMMA PostOutcome ==
    ASSUME IInv, NEW d \in Dispatches, NEW i \in DOMAIN jobs[d], Post(d, i)
    PROVE  AO!AODeliver(d, i) \/ UNCHANGED seen
<1> USE DEF Post, SenderReturns, PostAccepted, PostRejected, PostFails
<1> DEFINE job == jobs[d][i]
           reached == [e \in Dispatches |-> Reached(e)]
<1>1. jobs \in [Dispatches -> Senders]
  BY DEF IInv, TypeOK
<1>2. PICK R \in SUBSET DOMAIN Members : jobs[d] \in [R -> Job]
  BY <1>1 DEF Senders
<1>3. job \in Job /\ JobOK(job)
  BY <1>2 DEF IInv, JobsInv
<1>4. pc[d] = "send" /\ UNCHANGED <<records, object>>
  BY DEF Sending
<1>5. d \notin records \cup counted
  BY <1>4 DEF IInv, PlaceInv, DispatchOK, PlaceOK
<1>6. PICK next \in Job : SetJob(d, i, next) /\ next.accepted >= job.accepted
  <2> DEFINE failed == [job EXCEPT !.state = "failed"]
  <2>1. PICK n \in {0, 1} :
            \E next \in {failed, Succeed(job), Again(job, n)} : SetJob(d, i, next)
    OBVIOUS
  <2>2. job.accepted \in Nat /\ job.state \in {"start", "try"}
    BY <1>3 DEF Job, Sending
  <2>3. failed.accepted = job.accepted
    BY <1>3 DEF Job
  <2>4. Succeed(job).accepted >= job.accepted /\ Again(job, n).accepted >= job.accepted
    BY <2>2 DEF Succeed, Again
  <2> HIDE DEF job
  <2>5. \A next \in {failed, Succeed(job), Again(job, n)} : next \in Job
    BY <1>3, <2>2, PostJobs
  <2> HIDE DEF failed
  <2>6. \A next \in {failed, Succeed(job), Again(job, n)} : next.accepted >= job.accepted
    BY <2>2, <2>3, <2>4
  <2> QED  BY <2>1, <2>5, <2>6
<1>7. /\ \A e \in Dispatches : e # d => jobs'[e] = jobs[e]
      /\ DOMAIN jobs'[d] = DOMAIN jobs[d] /\ jobs'[d][i] = next
      /\ \A k \in DOMAIN jobs[d] : k # i => jobs'[d][k] = jobs[d][k]
  BY <1>1, <1>2, <1>6 DEF SetJob
<1>8. \A e \in Dispatches : e # d => Reached(e)' = Reached(e)
  BY <1>7 DEF Reached
<1>9. Reached(d)' = Reached(d) \cup {i} \/ Reached(d)' = Reached(d)
  <2>1. \A k \in DOMAIN jobs[d] : k # i => (k \in Reached(d)' <=> k \in Reached(d))
    BY <1>7 DEF Reached
  <2>2. Reached(d) \subseteq DOMAIN jobs[d] /\ Reached(d)' \subseteq DOMAIN jobs[d]
    BY <1>7 DEF Reached
  <2>3. CASE next.accepted > 0
    <3>1. i \in Reached(d)'
      BY <1>7, <2>3 DEF Reached
    <3> QED  BY <2>1, <2>2, <3>1
  <2>4. CASE ~(next.accepted > 0)
    <3>1. i \notin Reached(d)'
      BY <1>7, <2>4 DEF Reached
    <3>2. i \notin Reached(d)
      <4>1. job.accepted \in Nat /\ next.accepted \in Nat
        BY <1>3, <1>6 DEF Job
      <4>2. ~(job.accepted > 0)
        BY <1>6, <2>4, <4>1
      <4> QED  BY <4>2 DEF Reached
    <3> QED  BY <2>1, <2>2, <3>1, <3>2
  <2> QED  BY <2>3, <2>4
<1>10. CASE Reached(d)' = Reached(d)
  <2>1. reached' = reached
    BY <1>8, <1>10
  <2> QED  BY <1>4, <2>1 DEF seen, object
<1>11. CASE Reached(d)' = Reached(d) \cup {i}
  <2>1. reached' = [reached EXCEPT ![d] = @ \cup {i}]
    BY <1>8, <1>11
  <2> QED  BY <1>4, <1>5, <2>1 DEF AO!AODeliver, object
<1> QED  BY <1>9, <1>10, <1>11

\* Senders begin with nothing delivered.
LEMMA ResolveOutcome ==
    ASSUME IInv, OutcomeInv, NEW d \in Dispatches, Resolve(d)
    PROVE  UNCHANGED seen
<1>1. PICK R : jobs' = [jobs EXCEPT ![d] = [i \in R |-> NewJob]]
  BY DEF Resolve
<1>2. Reached(d) = {}
  BY DEF Resolve, OutcomeInv, Reached
<1>3. Reached(d)' = {}
  <2>1. jobs'[d] = [i \in R |-> NewJob]
    BY <1>1 DEF IInv, TypeOK
  <2> QED  BY <2>1 DEF Reached, NewJob
<1>4. \A e \in Dispatches : e # d => Reached(e)' = Reached(e)
  <2>1. \A e \in Dispatches : e # d => jobs'[e] = jobs[e]
    BY <1>1 DEF IInv, TypeOK
  <2> QED  BY <2>1 DEF Reached
<1>5. UNCHANGED [e \in Dispatches |-> Reached(e)]
  BY <1>2, <1>3, <1>4
<1> QED  BY <1>5 DEF Resolve, seen, object

\* A dispatch that records or counts has delivered.
LEMMA DeliveredReached ==
    ASSUME IInv, NEW d \in Dispatches, pc[d] \in {"record", "count"}
    PROVE  Reached(d) # {}
<1>1. PICK i \in DOMAIN jobs[d] : jobs[d][i].state = "ok"
  BY DEF IInv, PlaceInv, DispatchOK, PlaceOK, Delivered
<1>2. jobs[d][i].accepted > 0
  BY <1>1 DEF IInv, JobsInv, JobOK
<1> QED  BY <1>2 DEF Reached

LEMMA JobsKept ==
    ASSUME UNCHANGED jobs
    PROVE  UNCHANGED [d \in Dispatches |-> Reached(d)]
BY DEF Reached

LEMMA RecordOutcome ==
    ASSUME IInv, OutcomeInv, NEW d \in Dispatches, Record(d)
    PROVE  AO!AORecord(d) \/ UNCHANGED seen
<1>1. CASE records' = records
  BY <1>1, JobsKept DEF Record, seen, object
<1>2. CASE records' = records \cup {d}
  <2>1. Reached(d) # {} /\ RecordAlerts
    BY DeliveredReached DEF Record, OutcomeInv
  <2>2. d \notin records \cup counted
    BY DEF Record, IInv, PlaceInv, DispatchOK, PlaceOK
  <2> QED  BY <1>2, <2>1, <2>2, JobsKept DEF Record, AO!AORecord, object
<1> QED  BY <1>1, <1>2 DEF Record

\* The version updated is the current one, so the count moves by one.
LEMMA CountOutcome ==
    ASSUME IInv, NEW d \in Dispatches, CountUpdate(d)
    PROVE  AO!AOCount(d)
<1>1. versions \in Seq(Nat) /\ Len(versions) \in Nat \ {0}
  BY DEF IInv, TypeOK
<1>2. versions' = Append(versions, versions[Len(versions)] + 1) /\ ~gone
  BY DEF CountUpdate, Current
<1>3. versions'[Len(versions')] = versions[Len(versions)] + 1
  BY <1>1, <1>2
<1>4. Reached(d) # {} /\ d \notin counted
  BY DeliveredReached DEF CountUpdate, IInv, PlaceInv, DispatchOK, PlaceOK
<1> QED  BY <1>2, <1>3, <1>4, JobsKept DEF CountUpdate, AO!AOCount

\* What the reconciler, the informer, users and a crash do changes no
\* outcome, except that a MonitorPod is deleted.
LEMMA EnvironmentOutcome ==
    ASSUME IInv, Environment
    PROVE  AO!AODelete \/ UNCHANGED seen
<1>1. versions \in Seq(Nat) /\ Len(versions) \in Nat \ {0}
  BY DEF IInv, TypeOK
<1>2. UNCHANGED <<jobs, records, counted>>
  BY DEF Environment, ReconcileGet, ReconcileUpdate, CacheSync, Delete,
     EditProvider, ReconcileProvider, Crash, object
<1>3. CASE ReconcileUpdate
  <2>1. versions'[Len(versions')] = versions[Len(versions)]
    BY <1>1, <1>3 DEF ReconcileUpdate, Current
  <2> QED  BY <1>2, <1>3, <2>1, JobsKept DEF ReconcileUpdate, seen
<1>4. CASE Delete
  BY <1>2, <1>4, JobsKept DEF Delete, AO!AODelete
<1>5. CASE UNCHANGED <<versions, gone>>
  BY <1>2, <1>5, JobsKept DEF seen
<1> QED
  BY <1>3, <1>4, <1>5 DEF Environment, ReconcileGet, CacheSync, EditProvider,
     ReconcileProvider, Crash, object

LEMMA NextOutcome ==
    ASSUME IInv, OutcomeInv, [Next]_vars
    PROVE  [AO!AONext]_(AO!aoVars)
<1>1. UNCHANGED seen => UNCHANGED AO!aoVars
  BY DEF seen, AO!aoVars
<1>2. ASSUME NEW d \in Dispatches, NEW i \in DOMAIN jobs[d], Post(d, i)
      PROVE  [AO!AONext]_(AO!aoVars)
  <2>1. i \in DOMAIN Members
    <3>1. PICK R \in SUBSET DOMAIN Members : jobs[d] \in [R -> Job]
      BY DEF IInv, TypeOK, Senders
    <3> QED  BY <3>1
  <2> QED  BY <1>1, <1>2, <2>1, PostOutcome DEF AO!AONext
<1>3. ASSUME NEW d \in Dispatches, Resolve(d) \/ Record(d) \/ CountUpdate(d)
      PROVE  [AO!AONext]_(AO!aoVars)
  BY <1>1, <1>3, ResolveOutcome, RecordOutcome, CountOutcome DEF AO!AONext
<1>4. ASSUME NEW d \in Dispatches,
             \/ Limit(d) \/ EnrichFails(d) \/ EnrichPanics(d) \/ EnrichAsks(d)
             \/ AskEnds(d) \/ AskAgain(d) \/ AllReturn(d)
             \/ CountGet(d) \/ CountConflict(d) \/ CountFails(d)
      PROVE  UNCHANGED seen
  <2>1. UNCHANGED <<jobs, records, versions, gone, counted>>
    BY <1>4 DEF Limit, EnrichFails, EnrichPanics, EnrichAsks, AskEnds, AskAgain,
       AllReturn, CountGet, CountConflict, CountFails, object
  <2> QED  BY <2>1, JobsKept DEF seen
<1>5. CASE Environment
  BY <1>1, <1>5, EnvironmentOutcome DEF AO!AONext
<1>6. CASE UNCHANGED vars
  BY <1>1, <1>6, JobsKept DEF vars, seen
<1> QED
  BY <1>1, <1>2, <1>3, <1>4, <1>5, <1>6 DEF Next, Dispatch

\* dispatchAlert implements AlertOutcome: whatever is retried, read from an
\* old cache, written by the reconciler or lost in a crash, an alert is
\* recorded and counted at most once, in this order, only after it has reached
\* a target and reaching none afterwards, and AlertsSentCount moves by one
\* with each alert and never otherwise.
THEOREM KeepsOutcomeHolds == Spec => KeepsOutcome
<1>1. Init => AO!AOInit /\ OutcomeInv
  BY InitOutcome
<1>2. IInv /\ OutcomeInv /\ [Next]_vars => OutcomeInv' /\ [AO!AONext]_(AO!aoVars)
  BY NextOutcomeInv, NextOutcome
<1> QED  BY <1>1, <1>2, SpecIInv, PTL DEF Spec, KeepsOutcome, AO!AOSpec
-----------------------------------------------------------------------------
(* The work a dispatch has left.                                           *)

Open(job) == job.state \in {"start", "try"}

LEMMA StageType == \A p \in Places : Stage[p] \in 0..7
BY DEF Places, Stage

LEMMA WorkTypes ==
    ASSUME IInv, NEW d \in Dispatches
    PROVE  /\ pc[d] \in Places /\ Stage[pc[d]] \in 0..7
           /\ asked[d] \in Nat /\ tries[d] \in 0..Steps /\ Steps \in Nat /\ MaxTries \in Nat
           /\ DOMAIN jobs[d] \subseteq DOMAIN Members
           /\ \A i \in DOMAIN jobs[d] : jobs[d][i] \in Job /\ jobs[d][i].tried \in 0..MaxTries
<1>1. MaxTries \in Nat \ {0} /\ Steps \in Nat
  BY DispatchConfig
<1>2. pc[d] \in Places /\ asked[d] \in 0..(MaxTries - 1) /\ tries[d] \in 0..Steps
  BY DEF IInv, TypeOK
<1>3. PICK R \in SUBSET DOMAIN Members : jobs[d] \in [R -> Job]
  BY DEF IInv, TypeOK, Senders
<1>4. \A i \in DOMAIN jobs[d] : jobs[d][i] \in Job /\ jobs[d][i].tried \in 0..MaxTries
  BY <1>3 DEF Job
<1> QED  BY <1>1, <1>2, <1>3, <1>4, StageType

\* What a step must keep to for a dispatch to get nothing back.
Onward(d) ==
    /\ Stage[pc[d]] <= Stage[pc'[d]]
    /\ Stage[pc'[d]] <= Stage["ask"] => asked[d] <= asked'[d]
    /\ \/ Stage[pc[d]] <= Stage["target"]
       \/ \A i \in DOMAIN jobs'[d] : Open(jobs'[d][i]) =>
              /\ i \in DOMAIN jobs[d] /\ Open(jobs[d][i])
              /\ jobs[d][i].tried <= jobs'[d][i].tried
    /\ \/ tries[d] < tries'[d]
       \/ tries[d] = tries'[d] /\ (held'[d] = 0 => held[d] = 0)

LEMMA OnwardShrinks ==
    ASSUME IInv, IInv', NEW d \in Dispatches, Onward(d)
    PROVE  GivesNothingBack(d)
<1>1. /\ Stage[pc[d]] \in 0..7 /\ asked[d] \in Nat /\ tries[d] \in Nat
      /\ \A i \in DOMAIN jobs[d] : jobs[d][i].tried \in Nat
      /\ MaxTries \in Nat /\ Steps \in Nat
  BY WorkTypes
<1>2. /\ Stage[pc'[d]] \in 0..7 /\ asked'[d] \in Nat /\ tries'[d] \in Nat
      /\ \A i \in DOMAIN jobs'[d] : jobs'[d][i].tried \in Nat
  <2>1. pc'[d] \in Places /\ asked'[d] \in 0..(MaxTries - 1) /\ tries'[d] \in 0..Steps
    BY DEF IInv, TypeOK
  <2>2. jobs'[d] \in Senders
    BY DEF IInv, TypeOK
  <2>3. PICK R \in SUBSET DOMAIN Members : jobs'[d] \in [R -> Job]
    BY <2>2 DEF Senders
  <2>4. \A i \in DOMAIN jobs'[d] : jobs'[d][i].tried \in 0..MaxTries
    BY <2>3 DEF Job
  <2> QED  BY <1>1, <2>1, <2>4, StageType
<1>3. StagesLeft(d)' \subseteq StagesLeft(d)
  BY <1>1, <1>2 DEF StagesLeft, Onward
<1>4. QuestionsLeft(d)' \subseteq QuestionsLeft(d)
  <2> SUFFICES ASSUME NEW n \in 0..(MaxTries - 1),
                      Stage[pc'[d]] <= Stage["ask"], asked'[d] <= n
               PROVE  Stage[pc[d]] <= Stage["ask"] /\ asked[d] <= n
    BY DEF QuestionsLeft
  <2>1. Stage["ask"] = 3 /\ n \in Nat
    BY <1>1 DEF Stage
  <2> QED  BY <1>1, <1>2, <2>1 DEF Onward
<1>5. AttemptsLeft(d)' \subseteq AttemptsLeft(d)
  <2> SUFFICES ASSUME NEW a \in (DOMAIN Members) \X (0..MaxTries),
                      a \in AttemptsLeft(d)'
               PROVE  a \in AttemptsLeft(d)
    BY DEF AttemptsLeft
  <2>1. Stage["target"] = 1 /\ a[2] \in Nat
    BY <1>1 DEF Stage
  <2>2. CASE Stage[pc[d]] <= Stage["target"]
    BY <2>2 DEF AttemptsLeft
  <2>3. CASE ~(Stage[pc[d]] <= Stage["target"])
    <3>1. ~(Stage[pc'[d]] <= Stage["target"])
      BY <1>1, <1>2, <2>1, <2>3 DEF Onward
    <3>2. /\ a[1] \in DOMAIN jobs'[d] /\ Open(jobs'[d][a[1]])
          /\ jobs'[d][a[1]].tried <= a[2]
      BY <3>1 DEF AttemptsLeft, Open
    <3>3. /\ a[1] \in DOMAIN jobs[d] /\ Open(jobs[d][a[1]])
          /\ jobs[d][a[1]].tried <= jobs'[d][a[1]].tried
      BY <2>3, <3>2 DEF Onward
    <3>4. jobs[d][a[1]].tried <= a[2]
      BY <1>1, <1>2, <2>1, <3>2, <3>3
    <3> QED  BY <3>3, <3>4 DEF AttemptsLeft, Open
  <2> QED  BY <2>2, <2>3
<1>6. RoundsLeft(d)' \subseteq RoundsLeft(d)
  <2> SUFFICES ASSUME NEW r \in (0..Steps) \X {"read", "update"}, r \in RoundsLeft(d)'
               PROVE  r \in RoundsLeft(d)
    BY DEF RoundsLeft
  <2>1. r[1] \in Nat
    BY <1>1
  <2> QED  BY <1>1, <1>2, <2>1 DEF RoundsLeft, Onward
<1> QED  BY <1>3, <1>4, <1>5, <1>6 DEF GivesNothingBack

\* Of a dispatch that a step does not concern, all stays but that the end of
\* the process ends it.
LEMMA StillOnward ==
    ASSUME IInv, NEW e \in Dispatches,
           pc'[e] = pc[e] \/ pc'[e] \in {"dead", "panic"},
           jobs'[e] = jobs[e], held'[e] = held[e], tries'[e] = tries[e],
           asked'[e] = asked[e]
    PROVE  Onward(e)
<1>1. /\ Stage[pc[e]] \in 0..7 /\ asked[e] \in Nat /\ tries[e] \in Nat
      /\ \A i \in DOMAIN jobs[e] : jobs[e][i].tried \in Nat
  BY WorkTypes
<1>2. Stage["dead"] = 7 /\ Stage["panic"] = 7
  BY DEF Stage
<1> QED  BY <1>1, <1>2 DEF Onward

\* A step of a dispatch that leaves its senders alone.
LEMMA GoesOnward ==
    ASSUME IInv, NEW d \in Dispatches, NEW p \in Places, Goto(d, p), jobs' = jobs,
           Stage[pc[d]] <= Stage[p],
           Stage[p] <= Stage["ask"] => asked[d] <= asked'[d],
           \/ tries[d] < tries'[d]
           \/ tries[d] = tries'[d] /\ (held'[d] = 0 => held[d] = 0)
    PROVE  Onward(d)
<1>1. pc'[d] = p
  BY DEF Goto, IInv, TypeOK
<1>2. \A i \in DOMAIN jobs[d] : jobs[d][i].tried <= jobs'[d][i].tried
  BY WorkTypes
<1> QED  BY <1>1, <1>2 DEF Onward

\* What each attempt leaves of a sender.
LEMMA PostWork ==
    ASSUME IInv, NEW d \in Dispatches, NEW i \in DOMAIN jobs[d], Post(d, i)
    PROVE  /\ \A e \in Dispatches : Onward(e)
           /\ UsesUp(d)
<1> USE DEF Post, SenderReturns, PostAccepted, PostRejected, PostFails
<1> DEFINE job == jobs[d][i]
<1>1. jobs \in [Dispatches -> Senders]
  BY DEF IInv, TypeOK
<1>2. PICK R \in SUBSET DOMAIN Members : jobs[d] \in [R -> Job]
  BY <1>1 DEF Senders
<1>3. job \in Job /\ job.tried \in 0..MaxTries /\ MaxTries \in Nat /\ i \in DOMAIN Members
  BY WorkTypes
<1>4. Open(job) /\ pc[d] = "send" /\ UNCHANGED <<pc, held, tries, asked>>
  BY DEF Sending, Open
<1>5. PICK next : SetJob(d, i, next) /\ (Open(next) => next.tried = job.tried + 1)
  <2>1. CASE SenderReturns(d, i) \/ PostRejected(d, i)
    <3>1. [job EXCEPT !.state = "failed"].state = "failed"
      BY <1>3 DEF Job
    <3> QED  BY <2>1, <3>1 DEF Open
  <2>2. CASE PostAccepted(d, i)
    BY <2>2 DEF Succeed, Open
  <2>3. CASE PostFails(d, i)
    BY <2>3 DEF Again
  <2> QED  BY <2>1, <2>2, <2>3
<1>6. /\ \A e \in Dispatches : e # d => jobs'[e] = jobs[e]
      /\ DOMAIN jobs'[d] = DOMAIN jobs[d] /\ jobs'[d][i] = next
      /\ \A k \in DOMAIN jobs[d] : k # i => jobs'[d][k] = jobs[d][k]
  BY <1>1, <1>2, <1>5 DEF SetJob
<1>7. ASSUME NEW e \in Dispatches, e # d PROVE Onward(e)
  BY <1>4, <1>6, <1>7, StillOnward
<1>8. Onward(d)
  <2>1. \A k \in DOMAIN jobs[d] : Open(jobs'[d][k]) =>
            Open(jobs[d][k]) /\ jobs[d][k].tried <= jobs'[d][k].tried
    <3> SUFFICES ASSUME NEW k \in DOMAIN jobs[d], Open(jobs'[d][k])
                 PROVE  Open(jobs[d][k]) /\ jobs[d][k].tried <= jobs'[d][k].tried
      OBVIOUS
    <3>1. CASE k = i
      BY <1>3, <1>4, <1>5, <1>6, <3>1
    <3>2. CASE k # i
      <4>1. jobs'[d][k] = jobs[d][k] /\ jobs[d][k].tried \in Nat
        BY <1>6, <3>2, WorkTypes
      <4> QED  BY <4>1
    <3> QED  BY <3>1, <3>2
  <2>2. Stage[pc[d]] \in Nat /\ asked[d] \in Nat /\ tries[d] \in Nat
    BY WorkTypes
  <2> QED  BY <1>4, <1>6, <2>1, <2>2 DEF Onward
<1>9. UsesUp(d)
  <2> DEFINE a == <<i, job.tried>>
  <2>1. Stage["send"] = 4 /\ Stage["target"] = 1
    BY DEF Stage
  <2>2. a \in (DOMAIN Members) \X (0..MaxTries) /\ a[1] = i /\ a[2] = job.tried
    BY <1>3
  <2>3. a \in AttemptsLeft(d)
    BY <1>3, <1>4, <2>2 DEF AttemptsLeft, Open
  <2>4. a \notin AttemptsLeft(d)'
    <3>1. ~(Stage[pc'[d]] <= Stage["target"])
      BY <1>4, <2>1
    <3>2. ~(Open(next) /\ next.tried <= job.tried)
      BY <1>3, <1>5
    <3>3. ~(/\ i \in DOMAIN jobs'[d] /\ jobs'[d][i].state \in {"start", "try"}
           /\ jobs'[d][i].tried <= job.tried)
      BY <1>6, <3>2 DEF Open
    <3> HIDE DEF job
    <3> QED  BY <3>1, <3>3 DEF AttemptsLeft
  <2> QED  BY <2>3, <2>4 DEF UsesUp
<1> QED  BY <1>7, <1>8, <1>9

LEMMA StageUp ==
    ASSUME IInv, NEW d \in Dispatches, NEW p \in Places, pc'[d] = p,
           Stage[pc[d]] < Stage[p]
    PROVE  UsesUp(d)
<1>1. Stage[pc[d]] \in 0..7 /\ Stage[p] \in 0..7
  BY WorkTypes, StageType
<1>2. Stage[p] \in StagesLeft(d) /\ Stage[p] \notin StagesLeft(d)'
  BY <1>1 DEF StagesLeft
<1> QED  BY <1>2 DEF UsesUp

\* The steps that take a dispatch to a later stage, its senders untouched.
LEMMA MoveWork ==
    ASSUME IInv, NEW d \in Dispatches,
           \/ Limit(d) \/ EnrichFails(d) \/ EnrichAsks(d) \/ AskEnds(d)
           \/ AllReturn(d) \/ Record(d) \/ CountUpdate(d) \/ CountFails(d)
    PROVE  Onward(d) /\ UsesUp(d)
<1> USE DEF Limit, EnrichFails, EnrichAsks, AskEnds, AllReturn, Record, CountUpdate, CountFails
<1>1. PICK p \in Places : Goto(d, p) /\ Stage[pc[d]] < Stage[p] /\ (AskEnds(d) => p = "send")
  BY DEF Places, Stage
<1>2. jobs' = jobs /\ held' = held /\ tries' = tries /\ (AskEnds(d) \/ asked' = asked)
  OBVIOUS
<1>3. pc'[d] = p
  BY <1>1 DEF Goto, IInv, TypeOK
<1>4. Stage["send"] = 4 /\ Stage["ask"] = 3
  BY DEF Stage
<1>5. asked[d] \in Nat /\ tries[d] \in Nat /\ Stage[pc[d]] \in Nat /\ Stage[p] \in Nat
  BY WorkTypes, StageType
<1>6. Stage[p] <= Stage["ask"] => asked[d] <= asked'[d]
  BY <1>1, <1>2, <1>4, <1>5
<1>7. Onward(d)
  BY <1>1, <1>2, <1>5, <1>6, GoesOnward
<1> QED  BY <1>1, <1>3, <1>7, StageUp

LEMMA ResolveWork ==
    ASSUME IInv, NEW d \in Dispatches, Resolve(d)
    PROVE  Onward(d) /\ UsesUp(d)
<1>1. PICK p \in {"done", "ai", "send"} : Goto(d, p)
  BY DEF Resolve
<1>2. pc'[d] = p /\ pc[d] = "target" /\ UNCHANGED <<held, tries, asked>>
  BY <1>1 DEF Resolve, Goto, IInv, TypeOK
<1>3. Stage["target"] = 1 /\ Stage[p] \in {2, 4, 7}
  BY DEF Stage
<1>4. asked[d] \in Nat /\ tries[d] \in Nat
  BY WorkTypes
<1>5. Onward(d)
  BY <1>2, <1>3, <1>4 DEF Onward
<1> QED  BY <1>2, <1>3, <1>5, StageUp DEF Places

\* An attempt at the provider: one question fewer, or the next stage.
LEMMA AskWork ==
    ASSUME IInv, NEW d \in Dispatches, AskAgain(d)
    PROVE  Onward(d) /\ UsesUp(d)
<1> DEFINE last == asked[d] + 1 = MaxTries
<1>1. asked[d] \in 0..(MaxTries - 1) /\ tries[d] \in Nat /\ MaxTries \in Nat
  BY WorkTypes DEF IInv, TypeOK
<1>2. pc[d] = "ask" /\ UNCHANGED <<jobs, held, tries>>
  BY DEF AskAgain
<1>3. Stage["ask"] = 3 /\ Stage["send"] = 4
  BY DEF Stage
<1>4. CASE last
  <2>1. Goto(d, "send")
    BY <1>4 DEF AskAgain
  <2>2. pc'[d] = "send"
    BY <2>1 DEF Goto, IInv, TypeOK
  <2> QED  BY <1>1, <1>2, <1>3, <2>1, <2>2, GoesOnward, StageUp DEF Places
<1>5. CASE ~last
  <2>1. Goto(d, "ask") /\ asked'[d] = asked[d] + 1
    BY <1>5 DEF AskAgain, IInv, TypeOK
  <2>2. Onward(d)
    BY <1>1, <1>2, <1>3, <2>1, GoesOnward DEF Places
  <2>3. asked[d] \in QuestionsLeft(d) /\ asked[d] \notin QuestionsLeft(d)'
    BY <1>1, <1>2, <1>3, <2>1 DEF QuestionsLeft
  <2> QED  BY <2>2, <2>3 DEF UsesUp
<1> QED  BY <1>4, <1>5

\* A read and an update of the count: half a round fewer, or the end.
LEMMA CountWork ==
    ASSUME IInv, NEW d \in Dispatches, CountGet(d) \/ CountConflict(d)
    PROVE  Onward(d) /\ UsesUp(d)
<1>1. /\ asked[d] \in Nat /\ tries[d] \in 0..Steps /\ Steps \in Nat
      /\ held \in [Dispatches -> 0..Len(versions)] /\ Len(versions) \in Nat
      /\ tries \in [Dispatches -> 0..Steps] /\ pc \in [Dispatches -> Places]
  <2>1. /\ held \in [Dispatches -> 0..Len(versions)]
        /\ tries \in [Dispatches -> 0..Steps] /\ pc \in [Dispatches -> Places]
    BY DEF IInv, TypeOK
  <2>2. Len(versions) \in Nat
    BY DEF IInv, TypeOK
  <2>3. asked[d] \in Nat /\ tries[d] \in 0..Steps /\ Steps \in Nat
    BY WorkTypes, <2>1
  <2> QED  BY <2>1, <2>2, <2>3
<1>2. /\ pc[d] = "count" /\ UNCHANGED <<jobs, asked>>
      /\ Stage["count"] = 6 /\ Stage["done"] = 7
  BY DEF CountGet, CountConflict, Stage
<1>3. CASE CountGet(d) /\ cache = 0
  <2>1. Goto(d, "done") /\ UNCHANGED <<held, tries>>
    BY <1>3 DEF CountGet
  <2>2. pc'[d] = "done"
    BY <1>1, <2>1 DEF Goto
  <2> QED  BY <1>1, <1>2, <2>1, <2>2, GoesOnward, StageUp DEF Places
<1>4. CASE CountGet(d) /\ cache # 0
  <2>1. pc' = pc /\ held[d] = 0 /\ held'[d] # 0 /\ tries' = tries
    BY <1>1, <1>4 DEF CountGet
  <2>2. Goto(d, "count")
    BY <1>1, <1>2, <2>1 DEF Goto
  <2>3. Onward(d)
    BY <1>1, <1>2, <2>1, <2>2, GoesOnward DEF Places
  <2> DEFINE r == <<tries[d], "read">>
  <2>4. r \in (0..Steps) \X {"read", "update"} /\ r[1] = tries[d] /\ r[2] = "read"
    BY <1>1
  <2>5. r \in RoundsLeft(d)
    BY <2>1, <2>4 DEF RoundsLeft
  <2>6. r \notin RoundsLeft(d)'
    <3>1. ~(tries'[d] < tries[d]) /\ held'[d] # 0
      BY <1>1, <2>1
    <3> QED  BY <2>4, <3>1 DEF RoundsLeft
  <2> QED  BY <2>3, <2>5, <2>6 DEF UsesUp
<1>5. CASE CountConflict(d)
  <2>1. PICK p \in {"count", "done"} : Goto(d, p)
    BY <1>5 DEF CountConflict
  <2>2. tries'[d] = tries[d] + 1
    BY <1>1, <1>5 DEF CountConflict
  <2>3. Onward(d)
    BY <1>1, <1>2, <2>1, <2>2, GoesOnward DEF Places
  <2> DEFINE r == <<tries[d], "update">>
  <2>4. r \in (0..Steps) \X {"read", "update"} /\ r[1] = tries[d] /\ r[2] = "update"
    BY <1>1
  <2>5. r \in RoundsLeft(d)
    BY <2>4 DEF RoundsLeft
  <2>6. r \notin RoundsLeft(d)'
    <3>1. ~(tries'[d] < tries[d]) /\ tries'[d] # tries[d]
      BY <1>1, <2>2
    <3> QED  BY <2>4, <3>1 DEF RoundsLeft
  <2> QED  BY <2>3, <2>5, <2>6 DEF UsesUp
<1> QED  BY <1>3, <1>4, <1>5

\* The end of the process uses up every dispatch that runs.
LEMMA PanicWork ==
    ASSUME IInv, NEW d \in Dispatches, EnrichPanics(d)
    PROVE  (\A e \in Dispatches : Onward(e)) /\ UsesUp(d)
<1>1. \A e \in Dispatches : pc'[e] = pc[e] \/ pc'[e] \in {"dead", "panic"}
  BY DEF EnrichPanics
<1>2. \A e \in Dispatches : Onward(e)
  BY <1>1, StillOnward DEF EnrichPanics
<1>3. pc[d] = "ai" /\ pc'[d] = "panic"
  BY DEF EnrichPanics
<1>4. Stage["ai"] = 2 /\ Stage["panic"] = 7
  BY DEF Stage
<1> QED  BY <1>2, <1>3, <1>4, StageUp DEF Places

\* The steps of one dispatch that concern no other.
LEMMA OthersOnward ==
    ASSUME IInv, NEW d \in Dispatches, NEW e \in Dispatches, e # d,
           \/ Limit(d) \/ Resolve(d) \/ EnrichFails(d) \/ EnrichAsks(d) \/ AskEnds(d)
           \/ AskAgain(d) \/ AllReturn(d) \/ Record(d) \/ CountGet(d)
           \/ CountUpdate(d) \/ CountConflict(d) \/ CountFails(d)
    PROVE  Onward(e)
<1> USE DEF Limit, Resolve, EnrichFails, EnrichAsks, AskEnds, AskAgain, AllReturn,
        Record, CountGet, CountUpdate, CountConflict, CountFails
<1>1. /\ pc \in [Dispatches -> Places] /\ jobs \in [Dispatches -> Senders]
      /\ held \in [Dispatches -> 0..Len(versions)]
      /\ tries \in [Dispatches -> 0..Steps]
      /\ asked \in [Dispatches -> 0..(MaxTries - 1)]
  BY DEF IInv, TypeOK
<1>2. pc'[e] = pc[e]
  BY <1>1 DEF Goto
<1>3. jobs'[e] = jobs[e]
  BY <1>1
<1>4. held'[e] = held[e] /\ tries'[e] = tries[e] /\ asked'[e] = asked[e]
  BY <1>1
<1> QED  BY <1>2, <1>3, <1>4, StillOnward

LEMMA EnvironmentOnward ==
    ASSUME IInv, Environment \/ UNCHANGED vars, NEW e \in Dispatches
    PROVE  Onward(e)
<1>1. UNCHANGED <<jobs, held, tries, asked>> /\ (pc' = pc \/ Crash)
  BY DEF Environment, ReconcileGet, ReconcileUpdate, CacheSync, Delete,
     EditProvider, ReconcileProvider, Crash, vars
<1>2. pc'[e] = pc[e] \/ pc'[e] \in {"dead", "panic"}
  BY <1>1 DEF Crash
<1> QED  BY <1>1, <1>2, StillOnward

\* dispatchAlert makes at most 7 + MaxTries steps, MaxTries + 1 for each member
\* of its target and 2 * (Steps + 1) for the count: each of its steps uses up
\* something of that stock, whoever else writes the MonitorPod and whatever
\* receivers and provider answer.  With a goroutine that is scheduled, that is
\* why it returns.
THEOREM WorkShrinksHolds == Spec => WorkShrinks
<1>1. ASSUME IInv, NEW d \in Dispatches, Dispatch(d)
      PROVE  (\A e \in Dispatches : Onward(e)) /\ UsesUp(d)
  <2>1. CASE \E i \in DOMAIN jobs[d] : Post(d, i)
    BY <1>1, <2>1, PostWork
  <2>2. CASE EnrichPanics(d)
    BY <1>1, <2>2, PanicWork
  <2>3. CASE \/ Limit(d) \/ EnrichFails(d) \/ EnrichAsks(d) \/ AskEnds(d)
             \/ AllReturn(d) \/ Record(d) \/ CountUpdate(d) \/ CountFails(d)
    BY <1>1, <2>3, MoveWork, OthersOnward
  <2>4. CASE Resolve(d)
    BY <1>1, <2>4, ResolveWork, OthersOnward
  <2>5. CASE AskAgain(d)
    BY <1>1, <2>5, AskWork, OthersOnward
  <2>6. CASE CountGet(d) \/ CountConflict(d)
    BY <1>1, <2>6, CountWork, OthersOnward
  <2> QED  BY <1>1, <2>1, <2>2, <2>3, <2>4, <2>5, <2>6 DEF Dispatch
<1>2. ASSUME IInv, IInv', [Next]_vars, NEW d \in Dispatches
      PROVE  GivesNothingBack(d) /\ (Dispatch(d) => UsesUp(d))
  <2>1. Onward(d)
    BY <1>1, <1>2, EnvironmentOnward DEF Next
  <2> QED  BY <1>1, <1>2, <2>1, OnwardShrinks
<1>3. IInv /\ IInv' /\ [Next]_vars
      => [\A d \in Dispatches : GivesNothingBack(d) /\ (Dispatch(d) => UsesUp(d))]_vars
  BY <1>2
<1> QED  BY <1>3, SpecIInv, PTL DEF Spec, WorkShrinks
=============================================================================
