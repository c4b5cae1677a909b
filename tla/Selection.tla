------------------------------ MODULE Selection ------------------------------
(***************************************************************************)
(* The loops that walk a list and append what they keep to another, as a    *)
(* closed form: SelectSeq, which recurs, cannot be reasoned about.          *)
(***************************************************************************)
EXTENDS Naturals, Sequences, FiniteSets

\* How many of a set of positions are no later than i.
Rank(S, i) == Cardinality({j \in S : j <= i})

\* The elements of s at the positions S, in the order of s.
Selected(s, S) ==
  [n \in 1..Cardinality(S) |-> s[CHOOSE i \in S : Rank(S, i) = n]]

\* The elements of s that are in X.
Among(s, X) == Selected(s, {i \in 1..Len(s) : s[i] \in X})
=============================================================================
