-------------------------- MODULE RateLimiterProofs --------------------------
(***************************************************************************)
(* Theorems about RateLimiter for every set of keys, every limit and every *)
(* period.  The inductive invariant IInv says what an entry of the map     *)
(* remembers: Count is the length of the current burst, LastSentAt the     *)
(* time of its last grant, and the gap before the burst exceeds Period.    *)
(***************************************************************************)
EXTENDS RateLimiter, TLAPS

\* The grant times of a key never decrease and are not in the future.
Sorted(k) ==
    /\ \A i, j \in 1..Len(hist[k]) : i <= j => hist[k][i] <= hist[k][j]
    /\ \A i \in 1..Len(hist[k]) : hist[k][i] <= now

\* What the map entry of a key says about the grants of this process.
Burst(k) ==
    LET n == Len(hist[k])
        c == data[k].Count
    IN  /\ c + base[k] <= n
        /\ c = 0 => n = base[k]
        /\ c # 0 => data[k].LastSentAt = hist[k][n]
        /\ \A i \in (n + 1 - c)..(n - 1) :
               hist[k][i + 1] - hist[k][i] <= Period[k]
        /\ c # 0 /\ n - c > base[k] =>
               hist[k][n - c + 1] - hist[k][n - c] > Period[k]

KeyInv(k) == Sorted(k) /\ Burst(k)

IInv == TypeOK /\ \A k \in Keys : KeyInv(k)

-----------------------------------------------------------------------------
\* The initial states satisfy the inductive invariant.
LEMMA InitIInv == Init => IInv
BY LimiterConfig
   DEF Init, IInv, TypeOK, KeyInv, Sorted, Burst, NoInfo, Never, RateLimiterInfo

\* What a grant of k does to the history: the old grants stay where they are
\* and the last one is at now.
LEMMA GrantHist ==
    ASSUME TypeOK, NEW k \in Keys, NEW info \in RateLimiterInfo, Granted(k, info)
    PROVE  /\ Len(hist[k]) \in Nat
           /\ Len(hist'[k]) = Len(hist[k]) + 1
           /\ \A i \in 1..Len(hist[k]) : hist'[k][i] = hist[k][i]
           /\ hist'[k][Len(hist[k]) + 1] = now
           /\ data'[k] = info
           /\ base' = base /\ now' = now
           /\ \A q \in Keys \ {k} : hist'[q] = hist[q] /\ data'[q] = data[q]
           /\ TypeOK'
BY DEF TypeOK, Granted

\* A step that leaves the entry, the history and the base of a key alone and
\* does not turn the clock back keeps its invariant.
LEMMA KeyUnchanged ==
    ASSUME TypeOK, NEW q \in Keys, KeyInv(q), now' \in Nat, now' >= now,
           data'[q] = data[q], hist'[q] = hist[q], base'[q] = base[q]
    PROVE  KeyInv(q)'
<1>1. Sorted(q)'
  BY DEF KeyInv, Sorted, TypeOK
<1>2. Burst(q)'
  BY DEF KeyInv, Burst
<1> QED  BY <1>1, <1>2 DEF KeyInv

\* A grant keeps the history sorted.
LEMMA GrantSorted ==
    ASSUME TypeOK, NEW k \in Keys, NEW info \in RateLimiterInfo, Granted(k, info),
           Sorted(k)
    PROVE  Sorted(k)'
<1> DEFINE n == Len(hist[k])
<1>1. /\ n \in Nat /\ Len(hist'[k]) = n + 1
      /\ \A i \in 1..n : hist'[k][i] = hist[k][i]
      /\ hist'[k][n + 1] = now /\ now' = now
  BY GrantHist
<1>2. now \in Nat /\ \A i \in 1..n : hist[k][i] \in Nat
  BY DEF TypeOK
<1>a. /\ \A i, j \in 1..n : i <= j => hist[k][i] <= hist[k][j]
      /\ \A i \in 1..n : hist[k][i] <= now
  BY DEF Sorted
<1> HIDE DEF n
<1>3. \A i, j \in 1..(n + 1) : i <= j => hist'[k][i] <= hist'[k][j]
  <2> SUFFICES ASSUME NEW i \in 1..(n + 1), NEW j \in 1..(n + 1), i <= j
               PROVE  hist'[k][i] <= hist'[k][j]
    OBVIOUS
  <2>1. CASE j = n + 1
    <3>1. hist'[k][j] = now
      BY <2>1, <1>1
    <3>2. CASE i = n + 1
      BY <2>1, <3>2, <3>1, <1>2
    <3>3. CASE i \in 1..n
      BY <3>3, <3>1, <1>1, <1>a
    <3> QED  BY <3>2, <3>3, <1>1
  <2>2. CASE j \in 1..n
    <3>1. i \in 1..n
      BY <2>2, <1>1
    <3> QED  BY <2>2, <3>1, <1>1, <1>a
  <2> QED  BY <2>1, <2>2, <1>1
<1>4. \A i \in 1..(n + 1) : hist'[k][i] <= now'
  BY <1>1, <1>2 DEF Sorted, n
<1> QED  BY <1>1, <1>3, <1>4 DEF Sorted, n

\* The first grant of a burst: no entry, or the entry has expired.
LEMMA FirstBurst ==
    ASSUME TypeOK, NEW k \in Keys, KeyInv(k), AllowFirst(k)
    PROVE  KeyInv(k)'
<1> DEFINE n == Len(hist[k])
           info == [Count |-> 1, LastSentAt |-> now]
<1>1. info \in RateLimiterInfo /\ Granted(k, info)
  BY DEF AllowFirst, TypeOK, RateLimiterInfo
<1>2. /\ n \in Nat /\ Len(hist'[k]) = n + 1
      /\ \A i \in 1..n : hist'[k][i] = hist[k][i]
      /\ hist'[k][n + 1] = now /\ data'[k] = info /\ base' = base
  BY <1>1, GrantHist
<1>3. Sorted(k)'
  BY <1>1, GrantSorted DEF KeyInv
<1>4. /\ base[k] \in Nat /\ now \in Nat /\ Period[k] \in Nat
      /\ data[k].Count \in Nat /\ data[k].LastSentAt \in Nat
      /\ \A i \in 1..n : hist[k][i] \in Nat
  BY LimiterConfig DEF TypeOK, RateLimiterInfo
<1>5. n > base[k] => now - hist[k][n] > Period[k]
  BY <1>2, <1>4 DEF KeyInv, Burst, AllowFirst, Exists, Expired
<1>6. base[k] <= n
  BY <1>2, <1>4 DEF KeyInv, Burst
<1>7. data'[k].Count = 1 /\ data'[k].LastSentAt = now
  BY <1>2
<1> HIDE DEF n, info
<1>8. n > base[k] => hist'[k][n + 1] - hist'[k][n] > Period[k]
  BY <1>2, <1>4, <1>5
<1>9. Burst(k)'
  BY <1>2, <1>4, <1>6, <1>7, <1>8 DEF Burst
<1> QED  BY <1>3, <1>9 DEF KeyInv

\* A further grant of a burst, not more than Period after the last one.
LEMMA NextBurst ==
    ASSUME TypeOK, NEW k \in Keys, KeyInv(k), AllowAgain(k)
    PROVE  KeyInv(k)'
<1> DEFINE n == Len(hist[k])
           c == data[k].Count
           info == [Count |-> c + 1, LastSentAt |-> now]
<1>1. info \in RateLimiterInfo /\ Granted(k, info)
  BY DEF AllowAgain, TypeOK, RateLimiterInfo
<1>2. /\ n \in Nat /\ Len(hist'[k]) = n + 1
      /\ \A i \in 1..n : hist'[k][i] = hist[k][i]
      /\ hist'[k][n + 1] = now /\ data'[k] = info /\ base' = base
  BY <1>1, GrantHist
<1>3. Sorted(k)'
  BY <1>1, GrantSorted DEF KeyInv
<1>4. /\ base[k] \in Nat /\ now \in Nat /\ Period[k] \in Nat
      /\ c \in Nat /\ c # 0 /\ data[k].LastSentAt \in Nat
      /\ \A i \in 1..n : hist[k][i] \in Nat
  BY LimiterConfig DEF TypeOK, RateLimiterInfo, AllowAgain, Exists
<1>5. now - hist[k][n] <= Period[k]
  <2>1. data[k].LastSentAt = hist[k][n]
    BY <1>4 DEF KeyInv, Burst
  <2>2. ~ (now - data[k].LastSentAt > Period[k])
    BY DEF AllowAgain, Expired
  <2> QED  BY <2>1, <2>2, <1>4
<1>6. c + base[k] <= n
  BY DEF KeyInv, Burst
<1> HIDE DEF n, c
<1>7. \A i \in ((n + 1) + 1 - (c + 1))..((n + 1) - 1) :
           hist'[k][i + 1] - hist'[k][i] <= Period[k]
  <2> SUFFICES ASSUME NEW i \in (n + 1 - c)..n
               PROVE  hist'[k][i + 1] - hist'[k][i] <= Period[k]
    BY <1>2, <1>4
  <2>1. CASE i = n
    BY <2>1, <1>2, <1>4, <1>5, <1>6
  <2>2. CASE i \in (n + 1 - c)..(n - 1)
    <3>1. i \in 1..n /\ i + 1 \in 1..n
      BY <2>2, <1>2, <1>4, <1>6
    <3>2. hist[k][i + 1] - hist[k][i] <= Period[k]
      BY <2>2 DEF KeyInv, Burst, n, c
    <3> QED  BY <3>1, <3>2, <1>2
  <2> QED  BY <2>1, <2>2, <1>2, <1>4
<1>8. (n + 1) - (c + 1) > base[k] =>
           hist'[k][(n + 1) - (c + 1) + 1] - hist'[k][(n + 1) - (c + 1)] > Period[k]
  <2> SUFFICES ASSUME n - c > base[k]
               PROVE  hist'[k][n - c + 1] - hist'[k][n - c] > Period[k]
    BY <1>2, <1>4
  <2>1. n - c \in 1..n /\ n - c + 1 \in 1..n
    BY <1>2, <1>4
  <2>2. hist[k][n - c + 1] - hist[k][n - c] > Period[k]
    BY <1>4 DEF KeyInv, Burst, n, c
  <2> QED  BY <2>1, <2>2, <1>2
<1>9. data'[k].Count = c + 1 /\ data'[k].LastSentAt = now
  BY <1>2
<1> HIDE DEF info
<1>10. Burst(k)'
  BY <1>2, <1>4, <1>6, <1>7, <1>8, <1>9 DEF Burst
<1> QED  BY <1>3, <1>10 DEF KeyInv

\* Every step preserves the inductive invariant.
LEMMA NextIInv == IInv /\ [Next]_vars => IInv'
<1> SUFFICES ASSUME IInv, [Next]_vars PROVE IInv'
  OBVIOUS
<1> USE DEF IInv
<1>1. ASSUME NEW k \in Keys, AllowFirst(k) PROVE IInv'
  <2> DEFINE info == [Count |-> 1, LastSentAt |-> now]
  <2>1. info \in RateLimiterInfo /\ Granted(k, info)
    BY <1>1 DEF AllowFirst, TypeOK, RateLimiterInfo
  <2> HIDE DEF info
  <2>2. TypeOK' /\ KeyInv(k)'
    BY <1>1, <2>1, FirstBurst, GrantHist
  <2>3. ASSUME NEW q \in Keys \ {k} PROVE KeyInv(q)'
    <3>1. /\ hist'[q] = hist[q] /\ data'[q] = data[q]
          /\ base' = base /\ now' = now
      BY <2>1, GrantHist
    <3> QED  BY <3>1, KeyUnchanged DEF TypeOK
  <2> QED  BY <2>2, <2>3
<1>2. ASSUME NEW k \in Keys, AllowAgain(k) PROVE IInv'
  <2> DEFINE info == [Count |-> data[k].Count + 1, LastSentAt |-> now]
  <2>1. info \in RateLimiterInfo /\ Granted(k, info)
    BY <1>2 DEF AllowAgain, TypeOK, RateLimiterInfo
  <2> HIDE DEF info
  <2>2. TypeOK' /\ KeyInv(k)'
    BY <1>2, <2>1, NextBurst, GrantHist
  <2>3. ASSUME NEW q \in Keys \ {k} PROVE KeyInv(q)'
    <3>1. /\ hist'[q] = hist[q] /\ data'[q] = data[q]
          /\ base' = base /\ now' = now
      BY <2>1, GrantHist
    <3> QED  BY <3>1, KeyUnchanged DEF TypeOK
  <2> QED  BY <2>2, <2>3
<1>3. ASSUME NEW k \in Keys, Deny(k) PROVE IInv'
  <2>1. TypeOK'
    BY <1>3 DEF Deny, TypeOK
  <2>2. ASSUME NEW q \in Keys PROVE KeyInv(q)'
    BY <1>3, <2>1, KeyUnchanged DEF Deny, TypeOK
  <2> QED  BY <2>1, <2>2
<1>4. CASE Tick
  <2>1. TypeOK'
    BY <1>4 DEF Tick, TypeOK
  <2>2. ASSUME NEW q \in Keys PROVE KeyInv(q)'
    BY <1>4, <2>1, KeyUnchanged DEF Tick, TypeOK
  <2> QED  BY <2>1, <2>2
<1>5. CASE Restart
  <2>1. TypeOK'
    BY <1>5 DEF Restart, TypeOK, NoInfo, RateLimiterInfo
  <2>2. ASSUME NEW q \in Keys PROVE KeyInv(q)'
    <3>1. Sorted(q)'
      BY <1>5 DEF Restart, KeyInv, Sorted
    <3>2. Burst(q)'
      BY <1>5 DEF Restart, Burst, NoInfo, TypeOK
    <3> QED  BY <3>1, <3>2 DEF KeyInv
  <2> QED  BY <2>1, <2>2
<1>6. CASE UNCHANGED vars
  <2>1. TypeOK'
    BY <1>6 DEF vars, TypeOK
  <2>2. ASSUME NEW q \in Keys PROVE KeyInv(q)'
    BY <1>6, <2>1, KeyUnchanged DEF vars, TypeOK
  <2> QED  BY <2>1, <2>2
<1> QED  BY <1>1, <1>2, <1>3, <1>4, <1>5, <1>6 DEF Next

\* The type invariant of the limiter.
THEOREM TypeCorrect == Spec => []TypeOK
<1>1. IInv => TypeOK
  BY DEF IInv
<1> QED  BY InitIInv, NextIInv, <1>1, PTL DEF Spec

-----------------------------------------------------------------------------
\* A further grant of k keeps within the limit.
Room(k) ==
    LET n == Len(hist[k]) IN
    n - base[k] >= Limit[k] => now - hist[k][n + 1 - Limit[k]] > Period[k]

\* The heart of the limiter: whenever Allow grants, fewer than Limit grants
\* were given since the restart or the one Limit grants ago is more than a
\* Period old.  A further grant of a burst is covered by the gap that
\* precedes the burst, the first one by the expiry of the entry.
LEMMA GrantHasRoom ==
    ASSUME TypeOK, NEW k \in Keys, KeyInv(k), AllowFirst(k) \/ AllowAgain(k)
    PROVE  Room(k)
<1> DEFINE n == Len(hist[k])
           c == data[k].Count
           L == Limit[k]
<1>1. /\ n \in Nat /\ c \in Nat /\ L \in Nat /\ L # 0 /\ Period[k] \in Nat
      /\ base[k] \in Nat /\ now \in Nat /\ data[k].LastSentAt \in Nat
      /\ \A i \in 1..n : hist[k][i] \in Nat
  BY LimiterConfig DEF TypeOK, RateLimiterInfo
<1>2. /\ \A i, j \in 1..n : i <= j => hist[k][i] <= hist[k][j]
      /\ \A i \in 1..n : hist[k][i] <= now
  BY DEF KeyInv, Sorted
<1>3. /\ c + base[k] <= n
      /\ c = 0 => n = base[k]
      /\ c # 0 => data[k].LastSentAt = hist[k][n]
      /\ c # 0 /\ n - c > base[k] => hist[k][n - c + 1] - hist[k][n - c] > Period[k]
  BY DEF KeyInv, Burst
<1> SUFFICES ASSUME n - base[k] >= L PROVE now - hist[k][n + 1 - L] > Period[k]
  BY DEF Room
<1>4. n + 1 - L \in 1..n
  BY <1>1
<1>5. CASE AllowFirst(k)
  <2>0. c = 0 \/ now - data[k].LastSentAt > Period[k]
    BY <1>5 DEF AllowFirst, Exists, Expired
  <2> HIDE DEF n, c, L
  <2>1. c # 0 /\ now - data[k].LastSentAt > Period[k]
    BY <1>1, <1>3, <2>0
  <2>2. n \in 1..n
    BY <1>1, <1>4
  <2>3. hist[k][n + 1 - L] <= hist[k][n]
    BY <1>1, <1>2, <1>4, <2>2
  <2> QED  BY <1>1, <1>3, <1>4, <2>1, <2>2, <2>3
<1>6. CASE AllowAgain(k)
  <2>1. c # 0 /\ c < L
    BY <1>6 DEF AllowAgain, Exists
  <2> HIDE DEF n, c, L
  <2>2. /\ n - c \in 1..n /\ n - c + 1 \in 1..n
        /\ n - c > base[k] /\ n + 1 - L <= n - c
    BY <1>1, <2>1
  <2>3. hist[k][n + 1 - L] <= hist[k][n - c] /\ hist[k][n - c + 1] <= now
    BY <1>2, <1>4, <2>2
  <2> QED  BY <1>1, <1>3, <1>4, <2>1, <2>2, <2>3
<1> QED  BY <1>5, <1>6

\* A grant for which there was room keeps the window bound of its key.
LEMMA RoomKeepsWindow ==
    ASSUME TypeOK, NEW k \in Keys, NEW info \in RateLimiterInfo, Granted(k, info),
           Room(k), WindowBound
    PROVE  WindowBound'
<1>1. /\ Len(hist[k]) \in Nat
      /\ Len(hist'[k]) = Len(hist[k]) + 1
      /\ \A i \in 1..Len(hist[k]) : hist'[k][i] = hist[k][i]
      /\ hist'[k][Len(hist[k]) + 1] = now
      /\ base' = base /\ now' = now
      /\ \A q \in Keys \ {k} : hist'[q] = hist[q]
  BY GrantHist
<1> SUFFICES ASSUME NEW q \in Keys, NEW i \in (base'[q] + 1)..Len(hist'[q]),
                    i + Limit[q] <= Len(hist'[q])
             PROVE  hist'[q][i + Limit[q]] - hist'[q][i] > Period[q]
  BY DEF WindowBound
<1>2. Limit[q] \in Nat /\ Limit[q] # 0 /\ base[q] \in Nat /\ now \in Nat
  BY LimiterConfig DEF TypeOK
<1>3. CASE q # k
  BY <1>1, <1>3 DEF WindowBound
<1>4. CASE q = k /\ i + Limit[k] <= Len(hist[k])
  <2>1. i \in (base[k] + 1)..Len(hist[k])
    BY <1>1, <1>2, <1>4
  <2>2. hist[k][i + Limit[k]] - hist[k][i] > Period[k]
    BY <2>1, <1>4 DEF WindowBound
  <2>3. i \in 1..Len(hist[k]) /\ i + Limit[k] \in 1..Len(hist[k])
    BY <2>1, <1>1, <1>2, <1>4
  <2> QED  BY <1>1, <1>4, <2>2, <2>3
<1>5. CASE q = k /\ i + Limit[k] = Len(hist[k]) + 1
  <2> DEFINE n == Len(hist[k])
  <2>1. n \in Nat /\ i \in (base[k] + 1)..(n + 1) /\ i + Limit[k] = n + 1
    BY <1>1, <1>5
  <2>2. /\ Limit[k] \in Nat /\ Limit[k] # 0 /\ base[k] \in Nat
    BY <1>2, <1>5
  <2> HIDE DEF n
  <2>3. n - base[k] >= Limit[k] /\ i = n + 1 - Limit[k] /\ i \in 1..n
    <3>1. i \in Nat /\ base[k] + 1 <= i /\ Limit[k] >= 1
      BY <2>1, <2>2
    <3>2. i = n + 1 - Limit[k] /\ i <= n /\ 1 <= i
      BY <2>1, <2>2, <3>1
    <3>3. n - base[k] >= Limit[k]
      BY <2>1, <2>2, <3>1
    <3> QED  BY <2>1, <3>1, <3>2, <3>3
  <2>4. now - hist[k][i] > Period[k]
    BY <2>3 DEF Room, n
  <2>5. hist'[k][i] = hist[k][i] /\ hist'[k][i + Limit[k]] = now
    BY <1>1, <2>1, <2>3 DEF n
  <2> QED  BY <1>5, <2>4, <2>5
<1>6. q = k => i + Limit[k] <= Len(hist[k]) \/ i + Limit[k] = Len(hist[k]) + 1
  <2> SUFFICES ASSUME q = k
               PROVE  i + Limit[k] <= Len(hist[k]) \/ i + Limit[k] = Len(hist[k]) + 1
    OBVIOUS
  <2>1. i + Limit[k] <= Len(hist[k]) + 1 /\ i + Limit[k] \in Nat
    BY <1>1, <1>2
  <2> QED  BY <2>1, <1>1
<1> QED  BY <1>3, <1>4, <1>5, <1>6

\* Every step keeps the window bound.
LEMMA NextWindow == IInv /\ WindowBound /\ [Next]_vars => WindowBound'
<1> SUFFICES ASSUME IInv, WindowBound, [Next]_vars PROVE WindowBound'
  OBVIOUS
<1>1. ASSUME NEW k \in Keys, AllowFirst(k) \/ AllowAgain(k) PROVE WindowBound'
  <2>1. PICK info : info \in RateLimiterInfo /\ Granted(k, info)
    <3>1. /\ [Count |-> 1, LastSentAt |-> now] \in RateLimiterInfo
          /\ [Count |-> data[k].Count + 1, LastSentAt |-> now] \in RateLimiterInfo
      BY DEF IInv, TypeOK, RateLimiterInfo
    <3> QED  BY <1>1, <3>1 DEF AllowFirst, AllowAgain
  <2>2. Room(k)
    BY <1>1, GrantHasRoom DEF IInv
  <2> QED  BY <2>1, <2>2, RoomKeepsWindow DEF IInv
<1>2. ASSUME NEW k \in Keys, Deny(k) PROVE WindowBound'
  BY <1>2 DEF Deny, WindowBound
<1>3. CASE Tick
  BY <1>3 DEF Tick, WindowBound
<1>4. CASE Restart
  BY <1>4, LimiterConfig DEF Restart, WindowBound, IInv, TypeOK
<1>5. CASE UNCHANGED vars
  BY <1>5 DEF vars, WindowBound
<1> QED  BY <1>1, <1>2, <1>3, <1>4, <1>5 DEF Next

\* Within one process no key is granted more than Limit times in any Period.
THEOREM WindowBoundHolds == Spec => []WindowBound
<1>1. Init => WindowBound
  BY LimiterConfig DEF Init, WindowBound
<1> QED  BY InitIInv, NextIInv, <1>1, NextWindow, PTL DEF Spec

\* A refusal is always owed to Limit recent grants in a row: it neither
\* follows a silent key nor prolongs the suppression.
THEOREM DenialJustifiedHolds == Spec => DenialJustified
<1>1. IInv /\ [Next]_vars =>
          [\A k \in Keys : denied'[k] # denied[k] => WarmBurst(k)]_vars
  <2> SUFFICES ASSUME IInv, Next, NEW q \in Keys, denied'[q] # denied[q]
               PROVE  WarmBurst(q)
    OBVIOUS
  <2>1. Deny(q)
    <3>1. ASSUME NEW k \in Keys, AllowFirst(k) \/ AllowAgain(k) PROVE FALSE
      BY <3>1 DEF AllowFirst, AllowAgain, Granted
    <3>2. ASSUME NEW k \in Keys, Deny(k) PROVE k = q
      BY <3>2 DEF Deny, IInv, TypeOK
    <3>3. ~Tick /\ ~Restart
      BY DEF Tick, Restart
    <3> QED  BY <3>1, <3>2, <3>3 DEF Next
  <2> DEFINE n == Len(hist[q])
             c == data[q].Count
  <2>2. /\ n \in Nat /\ c \in Nat /\ Limit[q] \in Nat /\ Limit[q] # 0
        /\ base[q] \in Nat
    BY LimiterConfig DEF IInv, TypeOK, RateLimiterInfo
  <2>3. c >= Limit[q] /\ ~(now - data[q].LastSentAt > Period[q])
    BY <2>1 DEF Deny, Expired
  <2>4. /\ c + base[q] <= n
        /\ c # 0 => data[q].LastSentAt = hist[q][n]
        /\ \A i \in (n + 1 - c)..(n - 1) : hist[q][i + 1] - hist[q][i] <= Period[q]
    BY DEF IInv, KeyInv, Burst
  <2>5. /\ now \in Nat /\ Period[q] \in Nat /\ data[q].LastSentAt \in Nat
    BY LimiterConfig DEF IInv, TypeOK, RateLimiterInfo
  <2> HIDE DEF n, c
  <2>6. n - base[q] >= Limit[q] /\ now - hist[q][n] <= Period[q]
    BY <2>2, <2>3, <2>4, <2>5
  <2>7. \A i \in (n + 1 - Limit[q])..(n - 1) : hist[q][i + 1] - hist[q][i] <= Period[q]
    BY <2>2, <2>3, <2>4
  <2> QED  BY <2>6, <2>7 DEF WarmBurst, n
<1> QED  BY InitIInv, NextIInv, <1>1, PTL DEF Spec, DenialJustified
=============================================================================
