------------------------------ MODULE Filters ------------------------------
(* Iterator::filter and Vec::retain, Vec::push of what Vec::contains does  *)
(* not find, Iterator::sum: what several components do to a list.          *)
EXTENDS Integers, Sequences, SequencesExt

(* The elements of s that are in S, in their order. *)
Picked(s, S) == FoldLeft(LAMBDA r, e : IF e \in S THEN Append(r, e) ELSE r, <<>>, s)

(* The elements of t that are not in s yet join its end one by one.        *)
AllPushed(s, t) ==
  FoldLeft(LAMBDA r, e : IF e \in ToSet(r) THEN r ELSE Append(r, e), s, t)

(* Iterator::sum. *)
SumSeq(s) == FoldLeft(LAMBDA a, b : a + b, 0, s)
=============================================================================
