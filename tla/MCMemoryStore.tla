---------------------------- MODULE MCMemoryStore ----------------------------
(* Instances of MemoryStore: the pattern of "t_" also matches "th".         *)
EXTENDS MemoryStore, TLC

CONSTANTS t1, t2

Patterns == [k \in Keys |-> IF k = "t_" THEN {"t_", "th"} \cap Keys ELSE {k}]

\* Limits that no run reaches, a re-indexing of the newest row, and limits of
\* the queries that two rows reach.
Roomy(async) ==
  [async |-> async, forgotten |-> 9, purged |-> 9, listed |-> 9, hits |-> 9,
   chunks |-> 9, candidates |-> 9, top |-> 9]
Tight(candidates, top) ==
  [Roomy(FALSE) EXCEPT !.purged = 1, !.listed = 1, !.hits = 1, !.chunks = 2,
                       !.candidates = candidates, !.top = top]
Recent == [Roomy(TRUE) EXCEPT !.listed = 1]
AllPolicies == {Recent, Roomy(FALSE), Tight(1, 2), Tight(2, 1)}
Asynchronous == {Roomy(TRUE)}

\* The second row belongs to a channel of its own.
Channels == {Ids, {1}}

SameThreads == Permutations(Threads)
=============================================================================
