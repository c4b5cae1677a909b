----------------------------- MODULE Retrieval -----------------------------
(***************************************************************************)
(* retrieve_for_context as a function of what the memory holds for one      *)
(* question: two searches, reciprocal rank fusion, filter, lexical rerank,  *)
(* and the answer of a remote service.  What rows the searches may meet     *)
(* while other threads write is MemoryStore's.                              *)
(*                                                                          *)
(* A memory is a record [rows, fts, chunks, remote]: of every memory_id the *)
(* words of the question it has, its embedding status, whether it is live   *)
(* and of the right channel; the memory_fts rows in table order; the rows   *)
(* of memory_vectors in table order, with their similarity; the ids the     *)
(* remote service returns.                                                  *)
(***************************************************************************)
EXTENDS Integers, SequencesExt, Selection

CONSTANTS
  FtsWords,  \* words of a question that build_fts_match_query takes
  HitLimit,  \* limit of both searches
  ScanLimit, \* vector_max_candidates
  RrfK       \* rrf_k

ASSUME RetrievalAssumption ==
  /\ FtsWords \in Nat /\ HitLimit \in Nat /\ ScanLimit \in Nat /\ RrfK \in Nat

\* What retrieval is given when the memory is switched off or nothing to see.
NoMemory == [rows |-> <<>>, fts |-> <<>>, chunks |-> <<>>, remote |-> <<>>]

Firsts(s, n) == SubSeq(s, 1, IF n < Len(s) THEN n ELSE Len(s))
Position(s, x) == CHOOSE i \in 1..Len(s) : s[i] = x

\* Sorted by descending keys, stably: the place of an element is how many are
\* ahead of it.
Ahead(s, key, i, j) ==
  \/ key[s[i]] > key[s[j]]
  \/ key[s[i]] = key[s[j]] /\ i <= j
Place(s, key, j) == Cardinality({i \in 1..Len(s) : Ahead(s, key, i, j)})
Descending(s, key) ==
  [n \in 1..Len(s) |-> s[CHOOSE j \in 1..Len(s) : Place(s, key, j) = n]]

-----------------------------------------------------------------------------
(* The two searches                                                         *)

\* build_fts_match_query: any of the first words of the question.
Matches(row) == \E w \in row.words : w <= FtsWords

\* fts_search: the first matches in table order.
FtsHits(mem) ==
  Firsts(Among(mem.fts, {m \in ToSet(mem.fts) : mem.rows[m].live /\ Matches(mem.rows[m])}),
         HitLimit)

\* search_cosine scans the first chunks in table order, whoever's they are;
\* retrieve_for_context keeps the best chunk of each memory.
VectorHits(mem) ==
  LET scan == Firsts(mem.chunks, ScanLimit)
      best == Firsts(Descending(scan, [c \in ToSet(scan) |-> c.sim]), HitLimit)
      new == {j \in 1..Len(best) : \A i \in 1..(j - 1) : best[i].memory # best[j].memory}
  IN Selected([j \in 1..Len(best) |-> best[j].memory], new)

-----------------------------------------------------------------------------
(* Fusion, filter, rerank                                                   *)

\* 1/(k + rank) for the ranks of a list, as integers of one unit.
Unit ==
  LET product[r \in 0..HitLimit] == IF r = 0 THEN 1 ELSE product[r - 1] * (RrfK + r)
  IN product[HitLimit]
Share(s, m) == IF Contains(s, m) THEN Unit \div (RrfK + Position(s, m)) ELSE 0

RrfScore(m, fts, vec) == Share(fts, m) + Share(vec, m)

\* reciprocal_rank_fusion: ties in the order of first mention.
Fused(fts, vec) ==
  Descending(fts \o Among(vec, ToSet(vec) \ ToSet(fts)),
             [m \in ToSet(fts \o vec) |-> RrfScore(m, fts, vec)])

\* Live, of the channel, and found by its words while it is not embedded.
Qualifies(mem, m, fts) ==
  /\ mem.rows[m].live
  /\ mem.rows[m].channel
  /\ mem.rows[m].pending => Contains(fts, m)

\* Mutation: the limit counts what the filter drops.
CutFirst(mem, pol) ==
  LET fts == IF pol.fts THEN FtsHits(mem) ELSE <<>>
      vec == VectorHits(mem)
  IN Among(Firsts(Fused(fts, vec), pol.rerankMax),
           {m \in ToSet(fts \o vec) : Qualifies(mem, m, fts)})

Candidates(mem, pol) ==
  LET fts == IF pol.fts THEN FtsHits(mem) ELSE <<>>
      vec == VectorHits(mem)
  IN Firsts(Among(Fused(fts, vec), {m \in ToSet(fts \o vec) : Qualifies(mem, m, fts)}),
            pol.rerankMax)

\* lexical_rerank: hit words first; a hundredth of the RRF score, which is
\* less than one word, decides between equals.
Reranked(mem, pol) ==
  LET cs == Candidates(mem, pol)
  IN IF pol.rerank
     THEN Descending(cs, [m \in ToSet(cs) |-> Cardinality(mem.rows[m].words)])
     ELSE cs

Local(mem, pol) == Firsts(Reranked(mem, pol), pol.topK)

\* _retrieve_remote_snippets; a service that fails returns nothing.
Remote(mem, pol) ==
  IF pol.remote = "on" THEN Firsts(mem.remote, pol.topK)
  ELSE IF pol.remote = "approval" THEN <<"policy">> ELSE <<>>

\* The ids of the snippets retrieve_for_context returns: what is local, then
\* what only the service knows.
Retrieve(mem, pol) ==
  LET local == Local(mem, pol)
      more == Among(Remote(mem, pol), ToSet(Remote(mem, pol)) \ ToSet(local))
  IN IF ~pol.enabled THEN <<>> ELSE Firsts(local \o more, pol.topK)
=============================================================================
