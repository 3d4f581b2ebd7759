----------------------------- MODULE Retrieval -----------------------------
(***************************************************************************)
(* What the query side computes between two awaits: the hybrid search's    *)
(* reciprocal rank fusion (query/retriever.py), the merge of sub-queries   *)
(* and the deduplication (query/engine.py), the cross-encoder's order      *)
(* (query/reranker.py) and the prompt's token budget                       *)
(* (query/prompt_builder.py).                                              *)
(*                                                                         *)
(* How alike a chunk and a question are is the business of the models and  *)
(* the vector store: DenseOrder, SparseOrder and RerankScore give it.      *)
(***************************************************************************)
EXTENDS Lists, Integers, SequencesExt

CONSTANTS
    Chunks,       \* chunk identifiers
    Payload,      \* Payload[c]: doc_id and hierarchy_level of the point of c
    ChunkIndex,   \* chunk_index of the point of c
    DenseOrder,   \* DenseOrder[q]: all chunks by dense similarity to sub-query q
    SparseOrder,  \* SparseOrder[q]: the chunks that share a term with q, by BM25
    RerankScore,  \* RerankScore[q][c]: the cross-encoder's score
    Tokens,       \* Tokens[c]: estimated tokens of the passage made of c
    WordLoss,     \* WordLoss[c]: tokens lost when its passage is cut at a word
    RrfK,         \* _RRF_K
    Scale,        \* unit of the integer scores
    Unset         \* no filter

Questions == DOMAIN DenseOrder

ASSUME RetrievalAssumption ==
    /\ DenseOrder \in [Questions -> Seq(Chunks)]
    /\ SparseOrder \in [Questions -> Seq(Chunks)]
    /\ RerankScore \in [Questions -> [Chunks -> Int]]
    /\ Tokens \in [Chunks -> Nat] /\ WordLoss \in [Chunks -> Nat]
    /\ RrfK \in Nat /\ Scale \in Nat

\* The entries of a list of results; place is where sorted() met an entry.
Hits == [id : Chunks, score : Int, place : Nat]

\* The position of c in s, which has no duplicates.
At(c, s) == CHOOSE i \in Positions(s) : s[i] = c

\* A list of chunks with their scores, and the list as sorted() leaves it: by
\* score, and in the old order where scores are equal.
Scored(s, score) == [i \in Positions(s) |-> [id |-> s[i], score |-> score[s[i]], place |-> i]]

Before(a, b) ==
    \/ a.score > b.score
    \/ a.score = b.score /\ a.place < b.place

Sorted(scored) ==
    [k \in Positions(scored) |->
        CHOOSE e \in ToSet(scored) :
            Cardinality({f \in ToSet(scored) : Before(f, e)}) = k - 1]

Ids(scored) == [i \in Positions(scored) |-> scored[i].id]

-----------------------------------------------------------------------------
(* HybridRetriever *)

\* Filter(must = conditions): the conditions the request does not set are Unset.
Matches(c, filter) ==
    \A k \in DOMAIN filter : filter[k] \in {Unset, Payload[c][k]}

\* Mutant: the keyword search is not given the filter.
SearchMutant(kind, q, visible, filter, limit) ==
    First(Keep(IF kind = "dense" THEN DenseOrder[q] ELSE SparseOrder[q],
               {c \in visible : kind = "dense" => Matches(c, filter)}), limit)

\* One search of the points that are visible at its moment.
Search(kind, q, visible, filter, limit) ==
    First(Keep(IF kind = "dense" THEN DenseOrder[q] ELSE SparseOrder[q],
               {c \in visible : Matches(c, filter)}), limit)

Weight(c, hits) ==
    IF c \in ToSet(hits) THEN Scale \div (RrfK + At(c, hits)) ELSE 0

\* _reciprocal_rank_fusion(): the two loops meet the dense hits first.
Fused(dense, sparse, k) ==
    LET met == dense \o Keep(sparse, ToSet(sparse) \ ToSet(dense))
        score == [c \in ToSet(met) |-> Weight(c, dense) + Weight(c, sparse)]
    IN  First(Sorted(Scored(met, score)), k)

\* retrieve(): the threshold comes after the cut to k, and nothing moves up.
Retrieved(dense, sparse, k, threshold) ==
    LET fused == Fused(dense, sparse, k)
    IN  Keep(fused, {e \in ToSet(fused) : e.score >= threshold})

-----------------------------------------------------------------------------
(* QueryEngine *)

\* _retrieve_multi(): a chunk several sub-queries found keeps its best score and
\* the place where it was met first.
Merged(results, k) ==
    LET met == FlattenSeq(results)
        ids == Ids(met)
        first == {i \in Positions(ids) : \A j \in 1..(i - 1) : ids[j] # ids[i]}
        best == [c \in ToSet(ids) |-> Max({e.score : e \in {f \in ToSet(met) : f.id = c}})]
    IN  First(Sorted(Scored(Take(ids, first), best)), k)

\* _deduplicate(): neighbours in a document share a key; the first one stays.
Neighbours(a, b) ==
    Payload[a].doc = Payload[b].doc /\ ChunkIndex[a] \div 2 = ChunkIndex[b] \div 2

Deduplicated(s) ==
    Take(s, {i \in Positions(s) : \A j \in 1..(i - 1) : ~Neighbours(s[j], s[i])})

\* CrossEncoderReranker.rerank()
Reranked(q, s, k) == First(Ids(Sorted(Scored(s, RerankScore[q]))), k)

-----------------------------------------------------------------------------
(* PromptBuilder.build() *)

Floor == 500       \* of the budget for passages
Fragment == 50     \* less than this is not worth a passage
Reserved == 350 + 1500  \* system prompt and response

\* What is left for passages, whatever the question and the history need.
Available(context, asked) ==
    IF context - Reserved - asked > Floor THEN context - Reserved - asked ELSE Floor

\* _trim_to_tokens(): at a word boundary if that costs less than a fifth.
Trimmed(c, remaining) ==
    IF 5 * WordLoss[c] < remaining THEN remaining - WordLoss[c] ELSE remaining

\* Mutant: a passage that does not fit is not cut.
IncludeMutant(p, c, available) ==
    LET remaining == available - p.used
    IN  IF p.full THEN p
        ELSE IF Tokens[c] > remaining /\ remaining < Fragment THEN [p EXCEPT !.full = TRUE]
        ELSE [cited |-> Append(p.cited, c), used |-> p.used + Tokens[c],
              full |-> p.used + Tokens[c] >= available]

\* One turn of the loop over the chunks.
Include(p, c, available) ==
    LET remaining == available - p.used
        size == IF Tokens[c] <= remaining THEN Tokens[c] ELSE Trimmed(c, remaining)
    IN  IF p.full THEN p
        ELSE IF Tokens[c] > remaining /\ remaining < Fragment THEN [p EXCEPT !.full = TRUE]
        ELSE [cited |-> Append(p.cited, c), used |-> p.used + size,
              full |-> p.used + size >= available]

Prompt(s, available) ==
    FoldLeft(LAMBDA p, c : Include(p, c, available),
             [cited |-> <<>>, used |-> 0, full |-> FALSE], s)
=============================================================================
