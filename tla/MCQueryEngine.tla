--------------------------- MODULE MCQueryEngine ---------------------------
(* A small instance of QueryEngine for TLC: a streamed and a plain request   *)
(* with similar questions and different filters, a cache that holds the      *)
(* answer of an earlier one, and a document that is replaced meanwhile and   *)
(* of which a failed store has left a part.                                  *)
EXTENDS QueryEngine

CONSTANTS d1, v1, v2, v3, v4, r0, r1, r2, c1, c2, c3, qa, qb

MCDocOf == [v \in Versions |-> d1]
MCVersionOf == [c \in Chunks |-> CASE c = c1 -> v2 [] c = c2 -> v1 [] c = c3 -> v3]

\* The store of v1 failed in its upsert, which was carried out all the same; that
\* of v2 found nothing 'indexed' to delete, and finished; that of v3 has begun, and
\* that of v4, which has no chunk the questions are about, has not.
MCAtStart ==
    [searchable |-> {c1, c2},
     progress |-> [v \in Versions |-> CASE v = v1 -> "landed"
                                        [] v = v2 -> "finished"
                                        [] v = v3 -> "storing"
                                        [] OTHER -> "new"]]

MCPayload == [c \in Chunks |-> [doc |-> MCDocOf[MCVersionOf[c]],
                                level |-> IF c = c2 THEN 2 ELSE 1]]
MCChunkIndex == [c \in Chunks |-> CASE c = c1 -> 0 [] c = c2 -> 2 [] c = c3 -> 3]

MCDenseOrder == [q \in {qa, qb} |-> IF q = qa THEN <<c1, c3, c2>> ELSE <<c3, c2, c1>>]
MCSparseOrder == [q \in {qa, qb} |-> IF q = qa THEN <<c3, c1>> ELSE <<c3, c1>>]
MCRerankScore == [q \in {qa, qb} |-> [c \in Chunks |-> IF c = c1 THEN 2 ELSE 1]]

MCTokens == [c \in Chunks |-> IF c = c3 THEN 460 ELSE 300]
MCWordLoss == [c \in Chunks |-> 15]

\* Cosine in percent; the questions of r1 and r2 are close to that of r0, but not
\* close enough to each other.
MCSimilarity ==
    [r \in Requests |-> [s \in Requests |-> CASE r = s -> 100
                                              [] {r, s} = {r0, r1} -> 93
                                              [] {r, s} = {r0, r2} -> 95
                                              [] OTHER -> 90]]
MCWarmAnswer == [r \in Warm |-> [text |-> "complete", cites |-> <<c1>>]]

NoFilter == [doc |-> Unset, level |-> Unset]

MCAsk == [r \in Requests |->
    IF r = r2
    THEN [mode |-> "query", use_cache |-> TRUE, use_reranker |-> FALSE, top_k |-> 2,
          filter |-> [doc |-> Unset, level |-> 2], score_threshold |-> 16000,
          context |-> 1000, asked |-> 10, question |-> qb, others |-> {}]
    ELSE [mode |-> "stream", use_cache |-> TRUE, use_reranker |-> TRUE, top_k |-> 2,
          filter |-> NoFilter, score_threshold |-> 10000,
          context |-> 2600, asked |-> 100, question |-> qa, others |-> {<<qa, qb>>}]]
=============================================================================
