----------------------------- MODULE MCLogStream -----------------------------
(***************************************************************************)
(* Instances of LogStream for TLC: lines that begin an event, continue it, *)
(* are empty or too long to scan.  An empty line continues an event when   *)
(* the pattern names first lines, and begins one when a negated pattern    *)
(* names the continuations (such as ^\s for stack traces): blank and gap   *)
(* stand for the two, and the behaviours with both include those of either *)
(* configuration.                                                          *)
(*                                                                         *)
(* The rules are a regex over two lines (head\ntrace), one anchored at     *)
(* both ends (^head$), and one that any trace line satisfies.  The first   *)
(* and the last match the same events, the second only a head by itself.   *)
(***************************************************************************)
EXTENDS LogStream, TLC

CONSTANTS head, quiet, trace, blank, gap, huge

MCKinds  == {head, quiet, trace, blank, gap, huge}
MCStarts == {head, quiet, gap}
MCBlank  == {blank, gap}

Texts == UNION {[1..n -> MCKinds] : n \in 1..MaxLines}

MCLanguage ==
    << {x \in Texts : \E i \in 1..(Len(x) - 1) : x[i] = head /\ x[i + 1] = trace},
       {<<head>>},
       {x \in Texts : \E i \in 1..Len(x) : x[i] = trace} >>
=============================================================================
