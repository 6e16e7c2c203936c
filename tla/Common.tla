------------------------------- MODULE Common -------------------------------
(***************************************************************************)
(* What several models have in common: padding to an alignment, sums,      *)
(* parts of a list and lists joined in one.                                *)
(***************************************************************************)
EXTENDS Integers, FiniteSets, Sequences

\* calculate_padding()
PaddingTo(size, alignment) ==
  IF size % alignment # 0 THEN alignment - (size % alignment) ELSE 0

\* Total(w)[n] is the sum of the first n numbers of w.
Total(w) ==
  LET total[n \in 0 .. Len(w)] == IF n = 0 THEN 0 ELSE total[n - 1] + w[n]
  IN total

\* The numbers of a finite set, in increasing order.
InOrder(I) ==
  CHOOSE f \in [1 .. Cardinality(I) -> I] :
    \A m, n \in 1 .. Cardinality(I) : m < n => f[m] < f[n]

\* What a cleanup() leaves of a list: the elements at the positions in I, in
\* their order.
Kept(list, I) == [n \in 1 .. Cardinality(I) |-> list[InOrder(I)[n]]]

\* The lists of w, one after the other.
Joined(w) ==
  LET joined[n \in 0 .. Len(w)] == IF n = 0 THEN <<>> ELSE joined[n - 1] \o w[n]
  IN joined[Len(w)]
=============================================================================
