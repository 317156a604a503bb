----------------------------- MODULE RecordLabel -----------------------------
(***************************************************************************)
(* sanitizeForKubernetes of internal/controller/monitorpod_controller.go:  *)
(* the text of a rule's name as a label of its AlertRecords.               *)
(*                                                                         *)
(* A character is its class: "l" for a letter or digit of either case,     *)
(* "-" for a dash and "x" for anything else (a space, a dot, a Chinese     *)
(* character).  A name is a sequence of classes.                           *)
(***************************************************************************)
EXTENDS Naturals, Sequences, FiniteSets

CONSTANT MaxLabel   \* characters that a label's value can hold, 63

ASSUME LabelConfig == MaxLabel \in Nat \ {0}

Classes == {"l", "-", "x"}

\* The order of the positions in K, and the text that s has at them.
Rank(K, i) == Cardinality({m \in K : m <= i})
Nth(K, j) == CHOOSE i \in K : Rank(K, i) = j
TextAt(s, K) == [j \in 1..Cardinality(K) |-> s[Nth(K, j)]]

\* ReplaceAllString: each run of other characters becomes one dash.
Dashed(s) ==
    LET kept == {i \in 1..Len(s) : s[i] # "x" \/ i = 1 \/ s[i - 1] # "x"}
    IN  TextAt([i \in 1..Len(s) |-> IF s[i] = "l" THEN "l" ELSE "-"], kept)

MutTrimLeft(s) == TextAt(s, {i \in 1..Len(s) : \E a \in 1..i : s[a] # "-"})

\* strings.Trim: what lies between the first and the last that is no dash.
Trim(s) ==
    TextAt(s, {i \in 1..Len(s) : /\ \E a \in 1..i : s[a] # "-"
                                 /\ \E b \in i..Len(s) : s[b] # "-"})

Cut(s) == SubSeq(s, 1, IF Len(s) > MaxLabel THEN MaxLabel ELSE Len(s))

SanitizeForKubernetes(name) == Cut(Trim(Dashed(name)))

\* What the API server accepts as the value of a label.
ValidLabel(s) ==
    /\ Len(s) <= MaxLabel
    /\ s # <<>> => s[1] = "l" /\ s[Len(s)] = "l"
-----------------------------------------------------------------------------
\* When a name comes out as no valid label: a gap between two of its letters
\* begins at, or a dash of it lands on, the last character a label can hold.
\* Stated on the name itself: a position counts unless it continues a run of
\* other characters, and counting begins at the first letter.
CutAtDash(name) ==
    LET Letter(i) == name[i] = "l"
        Counts(i) == name[i] # "x" \/ i = 1 \/ name[i - 1] # "x"
    IN  \E f, g \in 1..Len(name) :
          /\ Letter(f) /\ \A i \in 1..(f - 1) : ~Letter(i)
          /\ \E i \in f..g :
                /\ Letter(g) /\ ~Letter(i) /\ Counts(i)
                /\ Cardinality({j \in f..i : Counts(j)}) = MaxLabel
=============================================================================
