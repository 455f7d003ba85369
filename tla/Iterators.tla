----------------------------- MODULE Iterators ------------------------------
(***************************************************************************)
(* The iterators the code runs over its lists, from the left.  What an     *)
(* iterator does with an element is a function and not an operator, so     *)
(* that theorems can be stated about all of them (IteratorsProofs).        *)
(***************************************************************************)
EXTENDS Naturals, Sequences

(* Iterator::fold: step[x][e] is the accumulator after element e.          *)
Fold(v, init, step) ==
  LET acc[i \in 0 .. Len(v)] == IF i = 0 THEN init ELSE step[acc[i - 1]][v[i]]
  IN  acc[Len(v)]

(* Iterator::filter: the elements of v that are in S, in their order.      *)
Filter(v, S) ==
  Fold(v, <<>>,
       [kept \in Seq(S) |-> [e \in {v[i] : i \in DOMAIN v} |->
          IF e \in S THEN Append(kept, e) ELSE kept]])

(* The sums of the first numbers of v: none of them, one, up to all.       *)
PrefixSums(v) ==
  LET s[i \in 0 .. Len(v)] == IF i = 0 THEN 0 ELSE s[i - 1] + v[i]
  IN  s

SumOf(v) == PrefixSums(v)[Len(v)]

(* The same with a saturating addition: no sum is above the cap.           *)
CappedSums(v, cap) ==
  LET s[i \in 0 .. Len(v)] ==
        IF i = 0 THEN 0
        ELSE IF s[i - 1] + v[i] > cap THEN cap ELSE s[i - 1] + v[i]
  IN  s

CappedSumOf(v, cap) == CappedSums(v, cap)[Len(v)]

=============================================================================
