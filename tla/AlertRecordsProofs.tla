-------------------------- MODULE AlertRecordsProofs --------------------------
(***************************************************************************)
(* Theorems about AlertRecords for every set of names, rules and TTLs, and *)
(* any difference between the clocks: type correctness, that the cleaner   *)
(* implements RecordRetention, and which records are refused.              *)
(*                                                                         *)
(* The first part is about RecordLabel alone, for every name and every     *)
(* length of a label: exactly which names do not come out as a valid       *)
(* label.  It counts positions.  The letters of a name keep their order in *)
(* the sanitized name, and the position a letter gets there is its rank    *)
(* among the positions that are kept.                                      *)
(***************************************************************************)
EXTENDS AlertRecords, FiniteSetTheorems, TLAPS

(* Ranks of positions.                                                     *)

LEMMA PositionsFinite ==
    ASSUME NEW n \in Nat, NEW K \in SUBSET (1..n)
    PROVE  /\ IsFiniteSet(K) /\ Cardinality(K) \in Nat
           /\ \A T \in SUBSET K : IsFiniteSet(T) /\ Cardinality(T) \in Nat
                                  /\ Cardinality(T) <= Cardinality(K)
<1>1. IsFiniteSet(1..n)
  BY FS_Interval
<1>2. IsFiniteSet(K)
  BY <1>1, FS_Subset
<1> QED  BY <1>2, FS_Subset, FS_CardinalityType

LEMMA RankBounds ==
    ASSUME NEW n \in Nat, NEW K \in SUBSET (1..n), NEW i \in K
    PROVE  Rank(K, i) \in 1..Cardinality(K)
<1> DEFINE T == {m \in K : m <= i}
<1>1. i \in T /\ T \subseteq K
  OBVIOUS
<1>2. IsFiniteSet(T) /\ Cardinality(T) \in Nat /\ Cardinality(T) <= Cardinality(K)
  BY <1>1, PositionsFinite
<1>3. Cardinality(T) # 0
  BY <1>1, <1>2, FS_EmptySet
<1>4. Cardinality(K) \in Nat
  BY PositionsFinite
<1>5. Rank(K, i) = Cardinality(T)
  BY DEF Rank
<1> HIDE DEF T
<1> QED  BY <1>2, <1>3, <1>4, <1>5

LEMMA RankMonotone ==
    ASSUME NEW n \in Nat, NEW K \in SUBSET (1..n), NEW i \in K, NEW m \in K, i < m
    PROVE  Rank(K, i) < Rank(K, m)
<1> DEFINE S == {q \in K : q <= i}
           T == {q \in K : q <= m}
<1>0. m <= m /\ ~(m <= i) /\ \A q \in K : q <= i => q <= m
  <2>1. i \in Nat /\ m \in Nat /\ \A q \in K : q \in Nat
    OBVIOUS
  <2> QED  BY ONLY <2>1, i < m
<1>1. S \subseteq T /\ m \in T /\ m \notin S
  BY <1>0, Zenon
<1>2. IsFiniteSet(T) /\ Cardinality(T) \in Nat /\ Cardinality(S) \in Nat
  BY PositionsFinite
<1>3. Rank(K, i) = Cardinality(S) /\ Rank(K, m) = Cardinality(T)
  BY DEF Rank
<1> HIDE DEF S, T
<1>4. Cardinality(S) <= Cardinality(T) /\ Cardinality(S) # Cardinality(T)
  BY <1>1, <1>2, FS_Subset
<1> QED  BY <1>2, <1>3, <1>4

\* Every number up to the size of K is the rank of a position, and of one only.
LEMMA NthRank ==
    ASSUME NEW n \in Nat, NEW K \in SUBSET (1..n)
    PROVE  /\ \A j \in 1..Cardinality(K) : Nth(K, j) \in K /\ Rank(K, Nth(K, j)) = j
           /\ \A i \in K : Nth(K, Rank(K, i)) = i
<1> DEFINE c == Cardinality(K)
           f == [i \in K |-> Rank(K, i)]
<1>1. c \in Nat /\ IsFiniteSet(K)
  BY PositionsFinite
<1>2. \A i \in K : Rank(K, i) \in 1..c
  BY RankBounds
<1>3. \A i, m \in K : Rank(K, i) = Rank(K, m) => i = m
  <2> SUFFICES ASSUME NEW i \in K, NEW m \in K, Rank(K, i) = Rank(K, m) PROVE i = m
    OBVIOUS
  <2>1. Rank(K, i) \in Nat /\ ~(Rank(K, i) < Rank(K, m)) /\ ~(Rank(K, m) < Rank(K, i))
    BY <1>2
  <2>2. ~(i < m) /\ ~(m < i)
    BY <2>1, RankMonotone
  <2> QED  BY <2>2
<1>4. IsFiniteSet(1..c) /\ Cardinality(1..c) = c
  BY <1>1, FS_Interval
<1> HIDE DEF c
<1>5. f \in Injection(K, 1..c)
  BY <1>2, <1>3 DEF Injection, IsInjective
<1>6. f \in Surjection(K, 1..c)
  BY <1>4, <1>5, FS_Injection DEF c
<1>7. \A j \in 1..c : \E i \in K : Rank(K, i) = j
  BY <1>6 DEF Surjection
<1>8. \A j \in 1..c : Nth(K, j) \in K /\ Rank(K, Nth(K, j)) = j
  BY <1>7 DEF Nth
<1>9. \A i \in K : Nth(K, Rank(K, i)) = i
  BY <1>2, <1>3, <1>8
<1> QED  BY <1>8, <1>9 DEF c

\* How many positions lie between two, both included.
Between(K, i, m) == {q \in K : i <= q /\ q <= m}

LEMMA RankSpan ==
    ASSUME NEW n \in Nat, NEW K \in SUBSET (1..n), NEW i \in K, NEW m \in K, i <= m
    PROVE  Cardinality(Between(K, i, m)) = Rank(K, m) - Rank(K, i) + 1
<1> DEFINE S == {q \in K : q <= i}
           T == {q \in K : i <= q /\ q <= m}
           U == {q \in K : q <= m}
<1>0. /\ i <= i /\ i <= m
      /\ \A q \in K : /\ q <= i => q <= m
                      /\ q <= m => (q <= i \/ i <= q)
                      /\ q <= i /\ i <= q => q = i
  <2>1. i \in Nat /\ m \in Nat /\ \A q \in K : q \in Nat
    OBVIOUS
  <2> QED  BY ONLY <2>1, i <= m
<1>1. S \cup T = U /\ S \cap T = {i}
  <2>1. S \cup T = U
    <3>1. \A q \in K : q <= m <=> q <= i \/ (i <= q /\ q <= m)
      BY <1>0
    <3> QED  BY ONLY <3>1 DEF S, T, U
  <2>2. S \cap T = {i}
    BY <1>0
  <2> QED  BY <2>1, <2>2
<1>2. /\ IsFiniteSet(S) /\ IsFiniteSet(T)
      /\ Cardinality(S) \in Nat /\ Cardinality(T) \in Nat
  BY PositionsFinite
<1>3. Rank(K, i) = Cardinality(S) /\ Rank(K, m) = Cardinality(U)
  BY DEF Rank
<1> HIDE DEF S, T, U
<1>4. Cardinality(U) = Cardinality(S) + Cardinality(T) - Cardinality(S \cap T)
  BY <1>1, <1>2, FS_Union
<1>5. Cardinality(S \cap T) = 1
  BY <1>1, FS_Singleton
<1>6. Cardinality(T) = Cardinality(U) - Cardinality(S) + 1
  BY <1>2, <1>4, <1>5
<1> QED  BY <1>3, <1>6 DEF T, Between
-----------------------------------------------------------------------------
(* The text at some positions.                                             *)

LEMMA TextAtRank ==
    ASSUME NEW S, NEW s \in Seq(S), NEW K \in SUBSET (1..Len(s))
    PROVE  /\ TextAt(s, K) \in Seq(S)
           /\ Len(TextAt(s, K)) = Cardinality(K)
           /\ \A j \in 1..Cardinality(K) : TextAt(s, K)[j] = s[Nth(K, j)]
           /\ \A i \in K : TextAt(s, K)[Rank(K, i)] = s[i]
<1>0. Len(s) \in Nat
  OBVIOUS
<1>1. Cardinality(K) \in Nat
  BY <1>0, PositionsFinite
<1>2. \A j \in 1..Cardinality(K) : Nth(K, j) \in 1..Len(s)
  BY <1>0, NthRank
<1>3. \A j \in 1..Cardinality(K) : s[Nth(K, j)] \in S
  BY <1>2
<1>4. /\ TextAt(s, K) \in Seq(S)
      /\ Len(TextAt(s, K)) = Cardinality(K)
      /\ \A j \in 1..Cardinality(K) : TextAt(s, K)[j] = s[Nth(K, j)]
  BY <1>1, <1>3 DEF TextAt
<1>5. \A i \in K : Rank(K, i) \in 1..Cardinality(K) /\ Nth(K, Rank(K, i)) = i
  BY <1>0, RankBounds, NthRank
<1> QED  BY <1>4, <1>5

\* What Trim keeps of a text of letters and dashes.
Text == Seq({"l", "-"})
Inner(s) == {i \in 1..Len(s) : /\ \E a \in 1..i : s[a] # "-"
                               /\ \E b \in i..Len(s) : s[b] # "-"}

\* Trim leaves letters at both ends.
LEMMA TrimEnds ==
    ASSUME NEW s \in Text, Inner(s) # {}
    PROVE  LET c == Cardinality(Inner(s)) IN
           /\ c \in Nat \ {0}
           /\ s[Nth(Inner(s), 1)] = "l" /\ s[Nth(Inner(s), c)] = "l"
           /\ Nth(Inner(s), 1) \in Inner(s) /\ Nth(Inner(s), c) \in Inner(s)
           /\ \A i \in Inner(s) : Nth(Inner(s), 1) <= i /\ i <= Nth(Inner(s), c)
           /\ \A q \in 1..Len(s) : s[q] = "l" => q \in Inner(s)
<1> DEFINE I == Inner(s)
           c == Cardinality(I)
<1>1. /\ Len(s) \in Nat /\ I \in SUBSET (1..Len(s))
      /\ \A q \in 1..Len(s) : s[q] \in {"l", "-"}
  BY DEF Text, Inner
<1>2. c \in Nat \ {0}
  BY <1>1, PositionsFinite, FS_EmptySet
<1>3. \A q \in 1..Len(s) : s[q] = "l" => q \in I
  BY <1>1 DEF Inner
<1>4. \A i \in I : \E a, b \in I : a <= i /\ i <= b /\ s[a] = "l" /\ s[b] = "l"
  <2> SUFFICES ASSUME NEW i \in I
               PROVE  \E a, b \in I : a <= i /\ i <= b /\ s[a] = "l" /\ s[b] = "l"
    OBVIOUS
  <2>1. PICK a \in 1..i, b \in i..Len(s) : s[a] # "-" /\ s[b] # "-"
    BY DEF Inner
  <2>2. i \in 1..Len(s)
    BY <1>1
  <2>3. a \in 1..Len(s) /\ b \in 1..Len(s) /\ a <= i /\ i <= b
    BY <1>1, <2>2
  <2>4. s[a] = "l" /\ s[b] = "l"
    BY <1>1, <2>1, <2>3
  <2> QED  BY <1>3, <2>3, <2>4
<1> HIDE DEF I
<1>5. 1 \in 1..c /\ c \in 1..c
  BY <1>2
<1> HIDE DEF c
<1>6. PICK x \in I : x = Nth(I, 1) /\ Rank(I, x) = 1
  BY <1>1, <1>5, NthRank DEF c
<1>7. PICK y \in I : y = Nth(I, c) /\ Rank(I, y) = c
  BY <1>1, <1>5, NthRank DEF c
<1>8. \A i \in I : x <= i /\ i <= y
  <2> SUFFICES ASSUME NEW i \in I PROVE x <= i /\ i <= y
    OBVIOUS
  <2>1. Rank(I, i) \in 1..c
    BY <1>1, RankBounds DEF c
  <2>2. ~(Rank(I, i) < Rank(I, x)) /\ ~(Rank(I, y) < Rank(I, i))
    BY <1>2, <1>6, <1>7, <2>1
  <2>3. ~(i < x) /\ ~(y < i)
    BY <1>1, <2>2, RankMonotone
  <2> QED  BY <1>1, <2>3
<1>9. s[x] = "l" /\ s[y] = "l"
  <2>1. PICK a \in I : a <= x /\ s[a] = "l"
    BY <1>4
  <2>2. PICK b \in I : y <= b /\ s[b] = "l"
    BY <1>4
  <2>3. a = x /\ b = y
    BY <1>1, <1>8, <2>1, <2>2
  <2> QED  BY <2>1, <2>2, <2>3
<1> QED  BY <1>2, <1>3, <1>6, <1>7, <1>8, <1>9 DEF I, c

\* Between its ends nothing is missing, so a rank is a distance.
LEMMA TrimRank ==
    ASSUME NEW s \in Text, NEW x \in Inner(s), NEW i \in Inner(s), x <= i
    PROVE  Rank(Inner(s), i) - Rank(Inner(s), x) = i - x
<1> DEFINE I == Inner(s)
<1>1. Len(s) \in Nat /\ I \in SUBSET (1..Len(s))
  BY DEF Text, Inner
<1>2. x..i \subseteq I
  <2>1. PICK a \in 1..x : s[a] # "-"
    BY DEF Inner
  <2>2. PICK b \in i..Len(s) : s[b] # "-"
    BY DEF Inner
  <2>3. x \in 1..Len(s) /\ i \in 1..Len(s)
    BY <1>1
  <2>4. ASSUME NEW q \in x..i PROVE q \in I
    <3>1. q \in 1..Len(s) /\ a \in 1..q /\ b \in q..Len(s)
      BY <1>1, <2>3
    <3> QED  BY <2>1, <2>2, <3>1 DEF Inner
  <2> QED  BY <2>4
<1>3. x \in Int /\ i \in Int /\ \A q \in I : q \in Int
  BY <1>1
<1> HIDE DEF I
<1>4. Between(I, x, i) = x..i
  <2>1. \A q \in x..i : x <= q /\ q <= i
    BY <1>3
  <2>2. \A q \in I : x <= q /\ q <= i => q \in x..i
    BY <1>3
  <2> QED  BY <1>2, <2>1, <2>2 DEF Between
<1>5. Cardinality(x..i) = i - x + 1
  BY <1>3, FS_Interval
<1>6. Cardinality(Between(I, x, i)) = Rank(I, i) - Rank(I, x) + 1
  BY <1>1, RankSpan DEF I
<1>7. Rank(I, i) \in Int /\ Rank(I, x) \in Int
  <2>1. Rank(I, i) \in 1..Cardinality(I) /\ Rank(I, x) \in 1..Cardinality(I)
    BY <1>1, RankBounds DEF I
  <2>2. Cardinality(I) \in Nat
    BY <1>1, PositionsFinite
  <2> QED  BY <2>1, <2>2
<1>8. i - x + 1 = Rank(I, i) - Rank(I, x) + 1
  BY ONLY <1>4, <1>5, <1>6
<1>9. Rank(I, i) - Rank(I, x) = i - x
  BY ONLY <1>3, <1>7, <1>8
<1> QED  BY <1>9 DEF I
-----------------------------------------------------------------------------
(* Which names the API server refuses.                                     *)

\* In terms of the text that Trim is given: MaxLabel - 1 after its first
\* letter there is a dash, and a letter later on.
DashAtEnd(s) ==
    \E a, b \in 1..Len(s) :
        /\ s[a] = "l" /\ \A q \in 1..(a - 1) : s[q] # "l"
        /\ s[b] = "l" /\ a + MaxLabel - 1 < b
        /\ s[a + MaxLabel - 1] # "l"

\* Cut keeps the first characters.
LEMMA CutText ==
    ASSUME NEW t \in Text
    PROVE  /\ Len(t) <= MaxLabel => Cut(t) = t
           /\ Len(t) > MaxLabel => /\ Len(Cut(t)) = MaxLabel
                                   /\ Cut(t)[1] = t[1] /\ Cut(t)[MaxLabel] = t[MaxLabel]
BY LabelConfig DEF Cut, Text

LEMMA TrimLabel ==
    ASSUME NEW s \in Text
    PROVE  ValidLabel(Cut(Trim(s))) <=> ~DashAtEnd(s)
<1> DEFINE I == Inner(s)
           c == Cardinality(I)
           t == Trim(s)
<1>1. /\ Len(s) \in Nat /\ I \in SUBSET (1..Len(s)) /\ MaxLabel \in Nat \ {0}
      /\ \A q \in 1..Len(s) : s[q] \in {"l", "-"}
  BY LabelConfig DEF Text, Inner
<1>2. t = TextAt(s, I)
  BY DEF Trim, Inner
<1>3. /\ t \in Text /\ Len(t) = c /\ c \in Nat
      /\ \A j \in 1..c : t[j] = s[Nth(I, j)]
      /\ \A i \in I : t[Rank(I, i)] = s[i]
  BY <1>1, <1>2, TextAtRank, PositionsFinite DEF Text
<1>4. CASE I = {}
  <2>1. c = 0
    BY <1>4, FS_EmptySet
  <2> HIDE DEF c, t
  <2>2. t = <<>>
    BY <1>3, <2>1 DEF Text
  <2>3. ValidLabel(Cut(t))
    <3>1. Len(t) <= MaxLabel
      BY <1>1, <1>3, <2>1
    <3>2. Cut(t) = t
      BY <1>3, <3>1, CutText
    <3> QED  BY <2>2, <3>1, <3>2 DEF ValidLabel
  <2>4. ~DashAtEnd(s)
    BY <1>1, <1>4 DEF DashAtEnd, Inner
  <2> QED  BY <2>3, <2>4 DEF t
<1>5. CASE I # {}
  <2>1. PICK x \in I, y \in I :
            /\ c \in Nat \ {0} /\ x = Nth(I, 1) /\ y = Nth(I, c)
            /\ s[x] = "l" /\ s[y] = "l"
            /\ \A i \in I : x <= i /\ i <= y
            /\ \A q \in 1..Len(s) : s[q] = "l" => q \in I
    BY <1>5, TrimEnds
  <2> HIDE DEF c, t, I
  <2>2. /\ 1 \in 1..c /\ c \in 1..c
        /\ t[1] = "l" /\ t[c] = "l"
    BY <1>3, <2>1
  <2>3. /\ x \in 1..Len(s) /\ y \in 1..Len(s)
        /\ Rank(I, x) = 1 /\ Rank(I, y) = c
    BY <1>1, <2>1, <2>2, NthRank DEF c
  <2>4. y - x = c - 1
    BY <2>1, <2>3, TrimRank DEF I
  <2>5. \A q \in 1..(x - 1) : s[q] # "l"
    BY <1>1, <2>1, <2>3
  <2>6. ASSUME NEW j \in 1..c PROVE t[j] = s[x + j - 1]
    <3>1. PICK i \in I : i = Nth(I, j) /\ Rank(I, i) = j
      BY <1>1, NthRank DEF c
    <3>2. j - 1 = i - x
      BY <2>1, <2>3, <3>1, TrimRank DEF I
    <3>3. i = x + j - 1
      BY <1>1, <2>3, <3>2
    <3> QED  BY <1>3, <3>1, <3>3
  <2>7. ValidLabel(Cut(t)) <=> c <= MaxLabel \/ t[MaxLabel] = "l"
    <3>1. CASE c <= MaxLabel
      <4>1. Cut(t) = t
        BY <1>3, <3>1, CutText
      <4> QED  BY <1>3, <2>2, <3>1, <4>1 DEF ValidLabel
    <3>2. CASE c > MaxLabel
      <4>1. /\ Len(Cut(t)) = MaxLabel
            /\ Cut(t)[1] = "l" /\ Cut(t)[MaxLabel] = t[MaxLabel]
        BY <1>3, <2>2, <3>2, CutText
      <4>2. ~(c <= MaxLabel) /\ Cut(t) # <<>> /\ MaxLabel <= MaxLabel
        BY <1>1, <2>1, <3>2, <4>1
      <4> QED  BY <4>1, <4>2 DEF ValidLabel
    <3> QED  BY <1>1, <1>3, <3>1, <3>2
  <2>8. DashAtEnd(s) <=> c > MaxLabel /\ t[MaxLabel] # "l"
    <3>1. ASSUME DashAtEnd(s) PROVE c > MaxLabel /\ t[MaxLabel] # "l"
      <4>1. PICK a, b \in 1..Len(s) :
                /\ s[a] = "l" /\ \A q \in 1..(a - 1) : s[q] # "l"
                /\ s[b] = "l" /\ a + MaxLabel - 1 < b
                /\ s[a + MaxLabel - 1] # "l"
        BY <3>1 DEF DashAtEnd
      <4>2. a \in I /\ b \in I
        BY <2>1, <4>1
      <4>3. ~(x < a)
        BY <1>1, <2>1, <2>3, <4>1
      <4>4. a = x
        BY <2>1, <2>3, <4>2, <4>3
      <4>5. c > MaxLabel
        BY <1>1, <2>1, <2>3, <2>4, <4>1, <4>2, <4>4
      <4>6. t[MaxLabel] = s[x + MaxLabel - 1]
        BY <1>1, <1>3, <2>6, <4>5
      <4> QED  BY <4>1, <4>4, <4>5, <4>6
    <3>2. ASSUME c > MaxLabel, t[MaxLabel] # "l" PROVE DashAtEnd(s)
      <4>1. t[MaxLabel] = s[x + MaxLabel - 1]
        BY <1>1, <1>3, <2>6, <3>2
      <4>2. x + MaxLabel - 1 < y
        BY <1>1, <2>1, <2>3, <2>4, <3>2
      <4> QED  BY <2>1, <2>3, <2>5, <3>2, <4>1, <4>2 DEF DashAtEnd
    <3> QED  BY <3>1, <3>2
  <2>9. c \in Nat /\ MaxLabel \in Nat
    BY <1>1, <1>3
  <2> QED  BY <2>7, <2>8, <2>9 DEF t
<1> QED  BY <1>4, <1>5

\* The positions of a name that Dashed keeps.
Counted(name) ==
    {i \in 1..Len(name) : name[i] # "x" \/ i = 1 \/ name[i - 1] # "x"}

LEMMA DashedText ==
    ASSUME NEW name \in Seq(Classes)
    PROVE  /\ Dashed(name) \in Text
           /\ Len(Dashed(name)) = Cardinality(Counted(name))
           /\ \A i \in Counted(name) :
                 Dashed(name)[Rank(Counted(name), i)] = "l" <=> name[i] = "l"
<1> DEFINE s == [i \in 1..Len(name) |-> IF name[i] = "l" THEN "l" ELSE "-"]
           K == Counted(name)
<1>1. Len(name) \in Nat
  OBVIOUS
<1>2. s \in Seq({"l", "-"}) /\ Len(s) = Len(name)
  BY <1>1
<1>3. \A i \in 1..Len(name) : s[i] = "l" <=> name[i] = "l"
  OBVIOUS
<1>4. Dashed(name) = TextAt(s, K)
  BY DEF Dashed, Counted
<1>5. K \in SUBSET (1..Len(s))
  BY <1>2 DEF Counted
<1> HIDE DEF s, K
<1>6. /\ TextAt(s, K) \in Seq({"l", "-"})
      /\ Len(TextAt(s, K)) = Cardinality(K)
      /\ \A i \in K : TextAt(s, K)[Rank(K, i)] = s[i]
  BY <1>2, <1>5, TextAtRank
<1>7. \A i \in K : i \in 1..Len(name)
  BY <1>2, <1>5
<1> QED  BY <1>3, <1>4, <1>6, <1>7 DEF Text, K

\* In terms of the name itself.
LEMMA CutIsDashAtEnd ==
    ASSUME NEW name \in Seq(Classes)
    PROVE  CutAtDash(name) <=> DashAtEnd(Dashed(name))
<1> DEFINE K == Counted(name)
           c == Cardinality(K)
           d == Dashed(name)
<1>1. /\ Len(name) \in Nat /\ K \in SUBSET (1..Len(name)) /\ MaxLabel \in Nat \ {0}
      /\ \A i \in 1..Len(name) : name[i] = "l" => i \in K
  BY LabelConfig DEF Counted
<1>2. c \in Nat
  BY <1>1, PositionsFinite
<1>3. /\ d \in Text /\ Len(d) = c
      /\ \A i \in K : d[Rank(K, i)] = "l" <=> name[i] = "l"
  BY DashedText
<1>4. CutAtDash(name) <=>
        \E f, g \in K : /\ name[f] = "l" /\ \A i \in 1..(f - 1) : name[i] # "l"
                        /\ \E i \in K : /\ f <= i /\ i <= g
                                        /\ name[g] = "l" /\ name[i] # "l"
                                        /\ Cardinality(Between(K, f, i)) = MaxLabel
  <2> DEFINE CountedIn(f, i) ==
               {j \in f..i : name[j] # "x" \/ j = 1 \/ name[j - 1] # "x"}
  <2>1. ASSUME NEW f \in 1..Len(name), NEW g \in 1..Len(name), NEW i \in f..g
        PROVE  /\ i \in 1..Len(name) /\ f <= i /\ i <= g
               /\ CountedIn(f, i) = Between(K, f, i)
    BY <1>1, <2>1 DEF Counted, Between
  <2>2. ASSUME NEW f \in K, NEW g \in K, NEW i \in K, f <= i, i <= g
        PROVE  /\ f \in 1..Len(name) /\ g \in 1..Len(name) /\ i \in f..g
               /\ name[i] # "x" \/ i = 1 \/ name[i - 1] # "x"
    BY <1>1, <2>2 DEF Counted
  <2>3. ASSUME NEW i \in 1..Len(name), name[i] # "x" \/ i = 1 \/ name[i - 1] # "x"
        PROVE  i \in K
    BY <2>3 DEF Counted
  <2> HIDE DEF K
  <2>4. ASSUME CutAtDash(name)
        PROVE  \E f, g \in K :
                  /\ name[f] = "l" /\ \A i \in 1..(f - 1) : name[i] # "l"
                  /\ \E i \in K : /\ f <= i /\ i <= g
                                  /\ name[g] = "l" /\ name[i] # "l"
                                  /\ Cardinality(Between(K, f, i)) = MaxLabel
    <3>1. PICK f \in 1..Len(name), g \in 1..Len(name) :
              /\ name[f] = "l" /\ \A i \in 1..(f - 1) : ~(name[i] = "l")
              /\ \E i \in f..g :
                    /\ name[g] = "l" /\ ~(name[i] = "l")
                    /\ name[i] # "x" \/ i = 1 \/ name[i - 1] # "x"
                    /\ Cardinality(CountedIn(f, i)) = MaxLabel
      BY <2>4 DEF CutAtDash
    <3> HIDE DEF CountedIn
    <3>2. PICK i \in f..g :
              /\ name[g] = "l" /\ name[i] # "l"
              /\ name[i] # "x" \/ i = 1 \/ name[i - 1] # "x"
              /\ Cardinality(CountedIn(f, i)) = MaxLabel
      BY <3>1
    <3>3. /\ i \in 1..Len(name) /\ f <= i /\ i <= g
          /\ Cardinality(Between(K, f, i)) = MaxLabel
      BY <2>1, <3>2
    <3>4. f \in K /\ g \in K /\ i \in K
      BY <1>1, <2>3, <3>1, <3>2, <3>3
    <3> QED  BY <3>1, <3>2, <3>3, <3>4
  <2>5. ASSUME NEW f \in K, NEW g \in K,
               name[f] = "l" /\ \A i \in 1..(f - 1) : name[i] # "l",
               NEW i \in K, f <= i, i <= g, name[g] = "l", name[i] # "l",
               Cardinality(Between(K, f, i)) = MaxLabel
        PROVE  CutAtDash(name)
    <3>1. /\ f \in 1..Len(name) /\ g \in 1..Len(name) /\ i \in f..g
          /\ name[i] # "x" \/ i = 1 \/ name[i - 1] # "x"
      BY <2>2, <2>5
    <3> HIDE DEF CountedIn
    <3>2. Cardinality(CountedIn(f, i)) = MaxLabel
      BY <2>1, <2>5, <3>1
    <3> USE DEF CountedIn
    <3> QED  BY <2>5, <3>1, <3>2 DEF CutAtDash
  <2> QED  BY <2>4, <2>5
<1>5. \A i \in K : Rank(K, i) \in 1..c
  BY <1>1, RankBounds
<1>6. \A i, m \in K : i < m <=> Rank(K, i) < Rank(K, m)
  <2> SUFFICES ASSUME NEW i \in K, NEW m \in K
               PROVE  i < m <=> Rank(K, i) < Rank(K, m)
    OBVIOUS
  <2>1. /\ i < m => Rank(K, i) < Rank(K, m)
        /\ m < i => Rank(K, m) < Rank(K, i)
    BY <1>1, RankMonotone
  <2>2. i \in Nat /\ m \in Nat /\ Rank(K, i) \in Nat /\ Rank(K, m) \in Nat
    BY <1>1, <1>2, <1>5
  <2> QED  BY <2>1, <2>2
<1>7. \A j \in 1..c : \E i \in K : Rank(K, i) = j
  BY <1>1, NthRank
<1>8. \A i, m \in K : i <= m =>
          Cardinality(Between(K, i, m)) = Rank(K, m) - Rank(K, i) + 1
  BY <1>1, RankSpan
<1> HIDE DEF K, c, d
<1>9. ASSUME CutAtDash(name) PROVE DashAtEnd(d)
  <2>1. PICK f, g, i \in K :
            /\ name[f] = "l" /\ \A q \in 1..(f - 1) : name[q] # "l"
            /\ f <= i /\ i <= g /\ name[g] = "l" /\ name[i] # "l"
            /\ Cardinality(Between(K, f, i)) = MaxLabel
    BY <1>4, <1>9
  <2> DEFINE a == Rank(K, f)
             b == Rank(K, g)
             p == Rank(K, i)
  <2>2. a \in 1..c /\ b \in 1..c /\ p \in 1..c
    BY <1>5
  <2>3. d[a] = "l" /\ d[b] = "l" /\ d[p] # "l"
    BY <1>3, <2>1
  <2>4. \A q \in 1..(a - 1) : d[q] # "l"
    <3> SUFFICES ASSUME NEW q \in 1..(a - 1), d[q] = "l" PROVE FALSE
      OBVIOUS
    <3>1. q \in 1..c /\ q < a
      BY <1>2, <2>2
    <3>2. PICK j \in K : Rank(K, j) = q
      BY <1>7, <3>1
    <3>3. name[j] = "l" /\ j < f
      BY <1>3, <1>6, <3>1, <3>2
    <3>4. j \in 1..(f - 1)
      BY <1>1, <3>3
    <3> QED  BY <2>1, <3>3, <3>4
  <2>5. p - a + 1 = MaxLabel
    BY <1>8, <2>1
  <2>6. i < g
    <3>1. i # g
      BY <2>1
    <3>2. i \in Nat /\ g \in Nat
      BY <1>1
    <3> QED  BY <2>1, <3>1, <3>2
  <2>7. p < b
    BY <1>6, <2>6
  <2> HIDE DEF a, b, p
  <2>8. a + MaxLabel - 1 = p
    BY <1>1, <1>2, <2>2, <2>5
  <2> QED  BY <1>3, <2>2, <2>3, <2>4, <2>7, <2>8 DEF DashAtEnd
<1>10. ASSUME DashAtEnd(d) PROVE CutAtDash(name)
  <2>1. PICK a, b \in 1..c :
            /\ d[a] = "l" /\ \A q \in 1..(a - 1) : d[q] # "l"
            /\ d[b] = "l" /\ a + MaxLabel - 1 < b
            /\ d[a + MaxLabel - 1] # "l"
    BY <1>3, <1>10 DEF DashAtEnd
  <2>2. a + MaxLabel - 1 \in 1..c
    BY <1>1, <1>2, <2>1
  <2>3. PICK f, g, i \in K : Rank(K, f) = a /\ Rank(K, g) = b
                             /\ Rank(K, i) = a + MaxLabel - 1
    BY <1>7, <2>1, <2>2
  <2>4. name[f] = "l" /\ name[g] = "l" /\ name[i] # "l"
    BY <1>3, <2>1, <2>3
  <2>5. \A q \in 1..(f - 1) : name[q] # "l"
    <3> SUFFICES ASSUME NEW q \in 1..(f - 1), name[q] = "l" PROVE FALSE
      OBVIOUS
    <3>1. q \in 1..Len(name) /\ q < f
      BY <1>1
    <3>2. q \in K
      BY <1>1, <3>1
    <3>3. d[Rank(K, q)] = "l" /\ Rank(K, q) < a /\ Rank(K, q) \in 1..c
      BY <1>3, <1>5, <1>6, <2>3, <3>1, <3>2
    <3>4. Rank(K, q) \in 1..(a - 1)
      BY <1>2, <3>3
    <3> QED  BY <2>1, <3>3, <3>4
  <2>6. i < g /\ ~(i < f)
    <3>1. Rank(K, i) < Rank(K, g) /\ ~(Rank(K, i) < Rank(K, f))
      BY <1>1, <1>2, <2>1, <2>3
    <3> QED  BY <1>6, <3>1
  <2>7. f <= i /\ i <= g
    BY <1>1, <2>6
  <2>8. Cardinality(Between(K, f, i)) = MaxLabel
    <3>1. Cardinality(Between(K, f, i)) = Rank(K, i) - Rank(K, f) + 1
      BY <1>8, <2>7
    <3>2. a \in Int /\ MaxLabel \in Int
      BY <1>1, <1>2, <2>1
    <3> QED  BY ONLY <2>3, <3>1, <3>2
  <2> QED  BY <1>4, <2>4, <2>5, <2>7, <2>8
<1> QED  BY <1>9, <1>10 DEF d

\* A rule's name comes out as a valid label unless truncation leaves a dash at
\* its end: empty names, names without a letter, and runs of any length of
\* characters that a label cannot hold are all right (sanitizeForKubernetes).
THEOREM ValidUnlessCut ==
    ASSUME NEW name \in Seq(Classes)
    PROVE  ValidLabel(SanitizeForKubernetes(name)) <=> ~CutAtDash(name)
<1>1. Dashed(name) \in Text
  BY DashedText
<1> QED  BY <1>1, TrimLabel, CutIsDashAtEnd DEF SanitizeForKubernetes
-----------------------------------------------------------------------------
(* The records.                                                            *)

\* Whatever is stored, cached or still on the cleaner's List is a version that
\* the record of that name has had.
Known(copy) == \A n \in Names : copy[n] \in past[n] \cup {None}
Copies == Known(api) /\ Known(cache) /\ Known(todo)

IInv == TypeOK /\ Copies
-----------------------------------------------------------------------------
LEMMA InitInv == Init => IInv
BY DEF Init, IInv, TypeOK, Copies, Known, NoRecords

\* A write makes the new version one of the record's past.
LEMMA WriteStep ==
    ASSUME IInv, NEW n \in Names, NEW v \in Versions, Write(n, v),
           refused' \in RuleNames \cup {None}, events' \in Nat
    PROVE  IInv' /\ RR!RRWrite(n)
<1>1. TypeOK'
  BY DEF IInv, TypeOK, Write
<1>2. Copies'
  BY DEF IInv, TypeOK, Write, Copies, Known
<1>3. RR!RRWrite(n)
  <2>1. api'[n] = v /\ api' = [api EXCEPT ![n] = v]
    BY DEF IInv, TypeOK, Write
  <2> QED
    BY <2>1 DEF RR!RRWrite, Write
<1> QED
  BY <1>1, <1>2, <1>3 DEF IInv

\* Taking a record off the cleaner's List.
LEMMA HandledStep ==
    ASSUME IInv, NEW n \in Names, Handled(n)
    PROVE  /\ todo' \in [Names -> Versions \cup {None}]
           /\ \A m \in Names : todo'[m] \in past[m] \cup {None}
BY DEF IInv, TypeOK, Copies, Known, Handled

\* The cleaner deletes only what a version of the record allows.
LEMMA PurgeStep ==
    ASSUME IInv, NEW n \in Names, Purge(n)
    PROVE  IInv' /\ RR!RRPurge(n)
<1>1. TypeOK'
  BY HandledStep DEF IInv, TypeOK, Purge
<1>2. Copies'
  BY HandledStep DEF IInv, TypeOK, Purge, Copies, Known
<1>3. RR!RRPurge(n)
  <2>1. PICK clock \in Clock : Expired(todo[n], clock)
    BY DEF Purge
  <2>2. todo[n] \in past[n] /\ todo[n] \in Versions
    BY RecordsConfig DEF Purge, IInv, TypeOK, Copies, Known
  <2>3. todo[n].ttl \in Int /\ todo[n].made \in Nat /\ now \in Nat
    BY <2>1, <2>2, RecordsConfig DEF Expired, Versions, IInv, TypeOK
  <2>4. now + Ahead > todo[n].made + todo[n].ttl
    BY <2>1, <2>3, RecordsConfig DEF Expired, Clock
  <2>5. todo[n].ttl \in Durations
    BY <2>1 DEF Expired
  <2> QED
    BY <2>2, <2>4, <2>5 DEF RR!RRPurge, Purge
<1> QED
  BY <1>1, <1>2, <1>3 DEF IInv

\* Every step keeps the invariant and is a step of RecordRetention or none.
LEMMA Step ==
    ASSUME IInv, [Next]_vars
    PROVE  IInv' /\ [RR!RRNext]_(RR!rrVars)
<1>1. ASSUME NEW n \in Names, NEW ttl \in Durations \cup {Bad, Empty}, Create(n, ttl)
      PROVE  IInv' /\ [RR!RRNext]_(RR!rrVars)
  <2>1. [made |-> now, ttl |-> Annotation(ttl)] \in Versions
    BY DEF IInv, TypeOK, Versions, TTLs, Annotation
  <2>2. refused' \in RuleNames \cup {None} /\ events' \in Nat
    BY <1>1 DEF Create, IInv, TypeOK
  <2>3. Write(n, [made |-> now, ttl |-> Annotation(ttl)])
    BY <1>1 DEF Create
  <2> QED
    BY <2>1, <2>2, <2>3, WriteStep DEF RR!RRNext
<1>2. ASSUME NEW rule \in RuleNames, CreateRefused(rule)
      PROVE  IInv' /\ [RR!RRNext]_(RR!rrVars)
  BY <1>2 DEF CreateRefused, Event, IInv, TypeOK, Copies, Known, RR!rrVars
<1>3. ASSUME NEW n \in Names, NEW ttl \in TTLs, UserCreates(n, ttl)
      PROVE  IInv' /\ [RR!RRNext]_(RR!rrVars)
  <2>1. [made |-> now, ttl |-> ttl] \in Versions
    BY DEF IInv, TypeOK, Versions
  <2>2. refused' \in RuleNames \cup {None} /\ events' \in Nat
    BY <1>3 DEF UserCreates, Event, IInv, TypeOK
  <2> QED
    BY <1>3, <2>1, <2>2, WriteStep DEF UserCreates, RR!RRNext
<1>4. ASSUME NEW n \in Names, NEW ttl \in TTLs, UserEdits(n, ttl)
      PROVE  IInv' /\ [RR!RRNext]_(RR!rrVars)
  <2>1. [api[n] EXCEPT !.ttl = ttl] \in Versions
    <3>1. api[n] \in Versions
      BY <1>4 DEF UserEdits, IInv, TypeOK
    <3> QED
      BY <3>1 DEF Versions
  <2>2. refused' \in RuleNames \cup {None} /\ events' \in Nat
    BY <1>4 DEF UserEdits, Event, IInv, TypeOK
  <2> QED
    BY <1>4, <2>1, <2>2, WriteStep DEF UserEdits, RR!RRNext
<1>5. ASSUME NEW n \in Names, UserDeletes(n)
      PROVE  IInv' /\ [RR!RRNext]_(RR!rrVars)
  <2>1. IInv'
    BY <1>5 DEF UserDeletes, Event, IInv, TypeOK, Copies, Known
  <2>2. RR!RRDelete(n)
    BY <1>5 DEF UserDeletes, RR!RRDelete
  <2> QED
    BY <2>1, <2>2 DEF RR!RRNext
<1>6. ASSUME NEW n \in Names, Informer(n)
      PROVE  IInv' /\ [RR!RRNext]_(RR!rrVars)
  BY <1>6 DEF Informer, IInv, TypeOK, Copies, Known, RR!rrVars
<1>7. ASSUME NEW n \in Names, PurgeFails(n)
      PROVE  IInv' /\ [RR!RRNext]_(RR!rrVars)
  BY <1>7, HandledStep DEF PurgeFails, Event, IInv, TypeOK, Copies, Known, RR!rrVars
<1>8. CASE CycleBegins
  BY <1>8 DEF CycleBegins, IInv, TypeOK, Copies, Known, RR!rrVars
<1>9. ASSUME NEW n \in Names, Keep(n) \/ PurgeGone(n)
      PROVE  IInv' /\ [RR!RRNext]_(RR!rrVars)
  BY <1>9, HandledStep DEF Keep, PurgeGone, IInv, TypeOK, Copies, Known, RR!rrVars
<1>10. ASSUME NEW n \in Names, Purge(n)
       PROVE  IInv' /\ [RR!RRNext]_(RR!rrVars)
  BY <1>10, PurgeStep DEF RR!RRNext
<1>11. CASE Tick
  <2>1. IInv'
    BY <1>11 DEF Tick, IInv, TypeOK, Copies, Known
  <2>2. RR!RRTick
    BY <1>11 DEF Tick, RR!RRTick, IInv, TypeOK
  <2> QED
    BY <2>1, <2>2 DEF RR!RRNext
<1>12. CASE Restart
  BY <1>12 DEF Restart, Event, NoRecords, IInv, TypeOK, Copies, Known, RR!rrVars
<1>13. CASE UNCHANGED vars
  BY <1>13 DEF vars, IInv, TypeOK, Copies, Known, RR!rrVars
<1> QED
  BY <1>1, <1>2, <1>3, <1>4, <1>5, <1>6, <1>7, <1>8, <1>9, <1>10, <1>11, <1>12, <1>13
     DEF Next, Cleanup
-----------------------------------------------------------------------------
LEMMA InvHolds == Spec => []IInv
<1>1. Init => IInv
  BY InitInv
<1>2. IInv /\ [Next]_vars => IInv'
  BY Step
<1> QED
  BY <1>1, <1>2, PTL DEF Spec

\* Type correctness of records, cache and the cleaner's List.
THEOREM TypeCorrect == Spec => []TypeOK
<1>1. IInv => TypeOK
  BY DEF IInv
<1> QED
  BY <1>1, InvHolds, PTL

\* The cleaner implements the retention it promises (cleanup of
\* alertrecord_cleaner.go): however old its List, and whatever is created,
\* edited and deleted while it works, it removes a record only if one of the
\* versions of that name has expired, by its clock, which is at most Ahead.
THEOREM KeepsUnexpiredHolds == Spec => KeepsUnexpired
<1>1. Init => RR!RRInit
  BY DEF Init, RR!RRInit, NoRecords
<1>2. IInv /\ [Next]_vars => [RR!RRNext]_(RR!rrVars)
  BY Step
<1> QED
  BY <1>1, <1>2, InvHolds, PTL DEF Spec, KeepsUnexpired, RR!RRSpec

\* What the API server has refused is a name that is no label.
Refusal == refused # None => refused \in RuleNames \ Recordable

\* A record is refused for its rule's name only when truncation leaves a dash
\* at the end of the label: for rules of any name and labels of any length.
THEOREM RefusedOnlyWhenCutHolds == Spec => []RefusedOnlyWhenCut
<1>1. Init => Refusal
  BY DEF Init, Refusal
<1>2. Refusal /\ [Next]_vars => Refusal'
  <2> SUFFICES ASSUME Refusal, [Next]_vars PROVE Refusal'
    OBVIOUS
  <2>1. ASSUME NEW rule \in RuleNames, CreateRefused(rule) PROVE Refusal'
    BY <2>1 DEF CreateRefused, Refusal
  <2>2. refused' = refused \/ \E rule \in RuleNames : CreateRefused(rule)
    BY DEF Next, vars, Create, UserCreates, UserEdits, UserDeletes, Informer, PurgeFails,
       CycleBegins, Cleanup, Keep, Purge, PurgeGone, Tick, Restart
  <2> QED  BY <2>1, <2>2 DEF Refusal
<1>3. Refusal => RefusedOnlyWhenCut
  BY ValidUnlessCut, RecordsConfig DEF Refusal, Recordable, RefusedOnlyWhenCut
<1> QED
  BY <1>1, <1>2, <1>3, PTL DEF Spec
=============================================================================
