----------------------------- MODULE Positions -----------------------------
(***************************************************************************)
(* Parts of a sequence, without a fold: what is left of it when only some  *)
(* of its positions are kept, in their order.                              *)
(***************************************************************************)
EXTENDS Naturals, FiniteSets

\* The k-th smallest of a finite set of numbers.
Nth(S, k) == CHOOSE i \in S : Cardinality({j \in S : j <= i}) = k

\* The elements of seq at the positions in S.
KeepAt(seq, S) == [k \in 1 .. Cardinality(S) |-> seq[Nth(S, k)]]
=============================================================================
