---------------------------- MODULE QueryEngine ----------------------------
(***************************************************************************)
(* The query side: QueryEngine.stream() and query() of query/engine.py.    *)
(*                                                                         *)
(* One engine object serves all requests of the process.  A request runs   *)
(*   cache -> decompose -> search -> expand, rerank, prompt -> generate    *)
(*         -> check -> deliver -> cache                                    *)
(* and other requests run at every await in between, on the same object,   *)
(* the same cache (module SemanticCache) and an index the ingestion side   *)
(* changes meanwhile (module DocumentIndex).  What is computed without an  *)
(* await is in module Retrieval.                                           *)
(*                                                                         *)
(* A definition named ...Mutant is a plausible bug of the definition that  *)
(* follows it; no specification uses it.                                   *)
(***************************************************************************)
EXTENDS Retrieval

CONSTANTS
    Requests, Similarity, Threshold, MaxSweeps, Warm, WarmAnswer,  \* SemanticCache
    Docs, Versions, DocOf,                                         \* DocumentIndex
    None,
    VersionOf,  \* the version a chunk belongs to
    AtStart,    \* what is searchable, and how far each store is, when the behaviour begins
    MaxEvents,  \* bound: failures, departures, sweeps, expiries, index changes
    Ask         \* Ask[r]: the request, see TypeOK of the fields in Requested

Requested ==
    [mode : {"stream", "query"},
     use_cache : BOOLEAN,
     use_reranker : BOOLEAN,
     top_k : Nat \ {0},
     filter : [doc : Docs \cup {Unset}, level : (0..2) \cup {Unset}],
     score_threshold : Nat,
     context : Nat,    \* max_context_tokens
     asked : Nat,      \* tokens of the question and the history
     question : Questions,
     others : SUBSET {s \in Seq(Questions) : Len(s) \in 1..3}]  \* what a language model makes of it

VARIABLES
    searchable, progress, blurred,                                \* DocumentIndex
    vectors, responses, meta, alive, lookup, best, served, counted,
    filling, entry, sweep, todo, victim, sweeps, raced,           \* SemanticCache
    pc,           \* what a request does next, or how it ended
    sub,          \* its sub-queries
    found,        \* the results of its searches so far
    final,        \* final_chunks
    cites,        \* prompt.citations: the chunks, in the order of their numbers
    text,         \* what full_text holds
    reported,     \* sub_queries and reranked in its QueryResponse
    last,         \* engine._last_sub_queries and _last_reranked
    changed,      \* history: documents whose points changed while a request searched
    overwritten,  \* history: requests whose _last_sub_queries another one replaced
    events        \* how many of the events that MaxEvents bounds have happened

\* The answers of the engine, as they are cached.
Texts == {"empty", "partial", "complete", "truncated", "failed"}
Answers == [text : Texts, cites : Seq(Chunks)]

ChunksOf == [v \in Versions |-> {c \in Chunks : VersionOf[c] = v}]

Index == INSTANCE DocumentIndex
Cache == INSTANCE SemanticCache

\* A chunk belongs to one version of one document, and an answer cached earlier
\* respected its filter.
ASSUME EngineAssumption ==
    /\ \A r \in Requests : Ask[r] \in Requested
    /\ Cache!CacheAssumption
    /\ \A r \in Warm : WarmAnswer[r] \in Answers
    /\ \A r \in Warm : \A c \in ToSet(WarmAnswer[r].cites) : Matches(c, Ask[r].filter)
    /\ DocOf \in [Versions -> Docs] /\ VersionOf \in [Chunks -> Versions]
    /\ \A c \in Chunks : Payload[c].doc = DocOf[VersionOf[c]]
    /\ None \notin Seq(Chunks) \cup Seq(Hits)
    /\ AtStart.searchable \subseteq Chunks
    /\ AtStart.progress \in [Versions -> Index!Progress]
    /\ MaxEvents \in Nat

indexVars == <<searchable, progress, blurred>>
cacheVars == <<vectors, responses, meta, alive, lookup, best, served, counted,
               filling, entry, sweep, todo, victim, sweeps, raced>>
shared == <<last, overwritten>>
own == <<sub, found, final, cites, text, reported>>
vars == <<searchable, progress, blurred, vectors, responses, meta, alive, lookup, best, served,
          counted, filling, entry, sweep, todo, victim, sweeps, raced,
          pc, sub, found, final, cites, text, reported, last, changed, overwritten, events>>

Live == Requests \ Warm

NothingReported == [sub |-> <<>>, reranked |-> FALSE]

Running == {"lookup", "decompose", "search", "expand", "generate", "check",
            "deliver", "store"}

TypeOK ==
    /\ Cache!TypeOK
    /\ \A r \in Requests : {entry[r], responses[r], served[r]} \subseteq Answers \cup {None}
    /\ searchable \in SUBSET Chunks
    /\ progress \in [Versions -> Index!Progress]
    /\ blurred \in SUBSET Docs
    /\ pc \in [Live -> {"new", "over"} \cup Running]
    /\ sub \in [Live -> Seq(Questions)]
    /\ final \in [Live -> Seq(Chunks)]
    /\ cites \in [Live -> Seq(Chunks)]
    /\ text \in [Live -> Texts]
    /\ reported \in [Live -> [sub : Seq(Questions), reranked : BOOLEAN]]
    /\ last \in [sub : Seq(Questions), reranked : BOOLEAN]
    /\ changed \in [Live -> SUBSET Docs]
    /\ overwritten \in SUBSET Live
    /\ events \in 0..MaxEvents

\* The behaviour begins with an index as the storage layer leaves it.
Init ==
    /\ Cache!Init
    /\ searchable = AtStart.searchable
    /\ progress = AtStart.progress
    /\ blurred = {}
    /\ Index!Orderly
    /\ pc = [r \in Live |-> "new"]
    /\ sub = [r \in Live |-> <<>>]
    /\ found = [r \in Live |-> <<>>]
    /\ final = [r \in Live |-> <<>>]
    /\ cites = [r \in Live |-> <<>>]
    /\ text = [r \in Live |-> "empty"]
    /\ reported = [r \in Live |-> NothingReported]
    /\ last = NothingReported
    /\ changed = [r \in Live |-> {}]
    /\ overwritten = {}
    /\ events = 0

Goto(r, next) == pc' = [pc EXCEPT ![r] = next]

\* The call is over, one way or another, and its local variables go with it.
End(r) ==
    /\ pc' = [pc EXCEPT ![r] = "over"]
    /\ sub' = [sub EXCEPT ![r] = <<>>]
    /\ found' = [found EXCEPT ![r] = <<>>]
    /\ final' = [final EXCEPT ![r] = <<>>]
    /\ cites' = [cites EXCEPT ![r] = <<>>]
    /\ text' = [text EXCEPT ![r] = "empty"]
    /\ reported' = [reported EXCEPT ![r] = NothingReported]
    /\ changed' = [changed EXCEPT ![r] = {}]
    /\ overwritten' = overwritten \ {r}

-----------------------------------------------------------------------------
(* The cache check. *)

\* use_cache is off, or the question cannot be embedded: no look-up.
SkipCache(r) ==
    /\ pc[r] = "new"
    /\ Goto(r, "decompose")
    /\ UNCHANGED <<indexVars, cacheVars, own, shared, changed>>

\* Mutant: a hit is counted, but the pipeline is run all the same.
AfterLookupMutant(r) == IF lookup'[r] \in {"miss", "hit"} THEN "decompose" ELSE "lookup"

AfterLookup(r) ==
    CASE lookup'[r] = "miss" -> "decompose"
      [] lookup'[r] = "hit" -> "over"
      [] OTHER -> "lookup"

\* cache.get(): a hit is the answer.
CheckCache(r) ==
    /\ Ask[r].use_cache
    /\ pc[r] \in {"new", "lookup"}
    /\ \/ Cache!Lookup(r) \/ Cache!FetchResponse(r) \/ Cache!ReadMeta(r) \/ Cache!WriteMeta(r)
    /\ Goto(r, AfterLookup(r))
    /\ UNCHANGED <<indexVars, own, shared, changed>>

\* cache.get() raises, and with it the request fails.
CheckCacheFails(r) ==
    /\ Ask[r].use_cache
    /\ pc[r] \in {"new", "lookup"}
    /\ Cache!LookupFails(r)
    /\ Goto(r, "over")
    /\ UNCHANGED <<indexVars, own, shared, changed>>

-----------------------------------------------------------------------------
(* _retrieve_and_build() *)

\* The two searches of a sub-query, and what they come to once both are back.
Nothing == [dense |-> None, sparse |-> None, result |-> None]

\* A short question, a failed call and more than three or no sub-queries leave
\* the question as it is.
Decompose(r) ==
    /\ pc[r] = "decompose"
    /\ \E s \in Ask[r].others \cup {<<Ask[r].question>>} :
          /\ sub' = [sub EXCEPT ![r] = s]
          /\ last' = [last EXCEPT !.sub = s]
          /\ found' = [found EXCEPT ![r] = [i \in Positions(s) |-> Nothing]]
    /\ overwritten' = overwritten \cup {o \in Live \ {r} : pc[o] \in {"search", "expand"}}
    /\ Goto(r, "search")
    /\ UNCHANGED <<indexVars, cacheVars, final, cites, text, reported, changed>>

RerankPrefetch == 30

\* The candidates wanted from each sub-query.
Prefetch(r) == IF Ask[r].use_reranker THEN RerankPrefetch ELSE Ask[r].top_k

\* Mutant: points are found after they have been deleted.
VisibleMutant == {c \in Chunks : progress[VersionOf[c]] # "new"}

\* The points in the collection: a search asks for no status of theirs.
Visible == searchable

\* retrieve(), whose two searches run concurrently, and concurrently with those
\* of the other sub-queries: each sees the index as it is when Qdrant answers it.
SearchIndex(r, i, kind) ==
    /\ pc[r] = "search"
    /\ found[r][i][kind] = None
    /\ LET hits == Search(kind, sub[r][i], Visible, Ask[r].filter, 3 * Prefetch(r))
           both == [found[r][i] EXCEPT ![kind] = hits]
           whole == both.dense # None /\ both.sparse # None
       IN  /\ found' = [found EXCEPT ![r][i] =
                 IF whole THEN [Nothing EXCEPT !.dense = <<>>, !.sparse = <<>>,
                                !.result = Retrieved(both.dense, both.sparse, Prefetch(r),
                                                     Ask[r].score_threshold)]
                 ELSE both]
           /\ Goto(r, IF whole /\ \A j \in Positions(sub[r]) \ {i} : found[r][j].result # None
                      THEN "expand" ELSE "search")
    /\ UNCHANGED <<indexVars, cacheVars, sub, final, cites, text, reported, shared, changed>>

\* retrieval.chunks, deduplicated.
Candidates(r) ==
    LET results == [i \in Positions(found[r]) |-> found[r][i].result]
    IN  Deduplicated(Ids(IF Len(results) = 1 THEN results[1] ELSE Merged(results, Prefetch(r))))

\* Mutant: _last_reranked is only ever set, never cleared.
LastRerankedMutant(reranks) == last.reranked \/ reranks

LastReranked(reranks) == reranks

\* The texts have come from Postgres; all that follows runs to the first await
\* of the generator, with no await between update_top_k() and rerank() on the
\* engine's one reranker, nor before query() reads the engine's _last_... back.
ExpandAndBuild(r) ==
    /\ pc[r] = "expand"
    /\ LET candidates == Candidates(r)
           reranks == Ask[r].use_reranker /\ Len(candidates) > 1
           chunks == IF reranks THEN Reranked(Ask[r].question, candidates, Ask[r].top_k)
                     ELSE First(candidates, Ask[r].top_k)
       IN  /\ final' = [final EXCEPT ![r] = chunks]
           /\ cites' = [cites EXCEPT ![r] =
                           Prompt(chunks, Available(Ask[r].context, Ask[r].asked)).cited]
           /\ last' = [last EXCEPT !.reranked = LastReranked(reranks)]
           /\ reported' = IF Ask[r].mode = "query" THEN [reported EXCEPT ![r] = last']
                          ELSE reported
    /\ found' = [found EXCEPT ![r] = <<>>]
    /\ Goto(r, "generate")
    /\ UNCHANGED <<indexVars, cacheVars, sub, text, overwritten, changed>>

\* The embedding service, Qdrant or Postgres fails; nobody catches it.
RetrievalFails(r) ==
    /\ pc[r] \in {"search", "expand"}
    /\ End(r)
    /\ UNCHANGED <<indexVars, cacheVars, last>>

-----------------------------------------------------------------------------
(* Generation, check, delivery, caching. *)

AfterGeneration(r) == IF text'[r] # "empty" /\ cites[r] # <<>> THEN "check" ELSE "deliver"

Generated(r, t) ==
    /\ pc[r] = "generate"
    /\ text' = [text EXCEPT ![r] = t]
    /\ UNCHANGED <<indexVars, cacheVars, sub, found, final, cites, reported, shared, changed>>

\* A delta that is not empty; stream() passes it on.
Delta(r) ==
    /\ text[r] = "empty"
    /\ Generated(r, "partial")
    /\ UNCHANGED pc

\* The backend reports its stop.
Stop(r) ==
    /\ Generated(r, IF text[r] = "partial" THEN "complete" ELSE "empty")
    /\ Goto(r, AfterGeneration(r))

\* The stream ends without it (the answer has reached its length): the safety
\* net sends the last chunk all the same.
Exhausted(r) ==
    /\ Generated(r, IF text[r] = "partial" THEN "truncated" ELSE "empty")
    /\ Goto(r, AfterGeneration(r))

\* An exception, which a stop of the Groq backend without usage is too: a notice
\* is appended to what has been sent.
GenerationFails(r) ==
    /\ Generated(r, "failed")
    /\ Goto(r, AfterGeneration(r))

\* The hallucination detector; a failure of its own is a skipped check.
CheckGroundedness(r) ==
    /\ pc[r] = "check"
    /\ Goto(r, "deliver")
    /\ UNCHANGED <<indexVars, cacheVars, own, shared, changed>>

\* Mutant: an answer is cached whenever the cache is not bypassed.
StoresMutant(r) == Ask[r].use_cache

\* query() stores an empty answer, stream() does not.
Stores(r) == Ask[r].use_cache /\ (Ask[r].mode = "stream" => text[r] # "empty")

\* stream() yields the chunk it has held back.
Deliver(r) ==
    /\ pc[r] = "deliver"
    /\ IF Stores(r) THEN Goto(r, "store") /\ UNCHANGED <<own, overwritten, changed>>
       ELSE End(r)
    /\ UNCHANGED <<indexVars, cacheVars, last>>

\* Mutant: the citations are left out.
AnswerMutant(r) == [text |-> text[r]]

Answer(r) == [text |-> text[r], cites |-> cites[r]]

\* cache.set(), after the question has been embedded once more.
StoreInCache(r) ==
    /\ pc[r] = "store"
    /\ \/ Cache!BeginSet(r, Answer(r)) \/ Cache!SetVector(r) \/ Cache!SetResponse(r)
       \/ Cache!SetMeta(r) \/ Cache!SetExpiry(r)
    /\ IF filling'[r] = "done" THEN End(r)
       ELSE UNCHANGED <<pc, own, overwritten, changed>>
    /\ UNCHANGED <<indexVars, last>>

\* The question cannot be embedded, or cache.set() raises: the request does not
\* notice.
StoreFails(r) ==
    /\ pc[r] = "store"
    /\ IF filling[r] = "idle" THEN UNCHANGED cacheVars ELSE Cache!SetFails(r)
    /\ End(r)
    /\ UNCHANGED <<indexVars, last>>

\* The client of a stream goes away: the task is cancelled where it waits.
Disconnect(r) ==
    /\ Ask[r].mode = "stream"
    /\ pc[r] \in Running
    /\ End(r)
    /\ IF filling[r] \in Cache!Filling THEN Cache!SetFails(r) ELSE UNCHANGED cacheVars
    /\ UNCHANGED <<indexVars, last>>

-----------------------------------------------------------------------------
(* The ingestion side, as StorageWriter shows it: a store of a version goes on. *)

Searching == {r \in Live : pc[r] = "search"}

ChangeIndex(v) ==
    /\ Index!StoreStep(v)
    /\ indexVars' # indexVars
    /\ changed' = [r \in Live |-> IF r \in Searching /\ searchable' # searchable
                                  THEN changed[r] \cup {DocOf[v]} ELSE changed[r]]
    /\ UNCHANGED <<cacheVars, pc, own, shared>>

ExpireOrSweep ==
    /\ Cache!BeginSweep \/ \E e \in Requests : Cache!Expire(e)
    /\ UNCHANGED <<indexVars, pc, own, shared, changed>>

Sweep ==
    /\ Cache!RemoveEntry \/ \E e \in Requests : Cache!CheckExpiry(e)
    /\ UNCHANGED <<indexVars, pc, own, shared, changed>>

-----------------------------------------------------------------------------

Step(r) ==
    \/ CheckCache(r) \/ Decompose(r)
    \/ \E i \in Positions(sub[r]) : \E kind \in {"dense", "sparse"} : SearchIndex(r, i, kind)
    \/ ExpandAndBuild(r) \/ Delta(r) \/ Stop(r) \/ Exhausted(r)
    \/ CheckGroundedness(r) \/ Deliver(r) \/ StoreInCache(r)

Disturbance(r) ==
    \/ SkipCache(r) \/ CheckCacheFails(r) \/ RetrievalFails(r) \/ GenerationFails(r)
    \/ StoreFails(r) \/ Disconnect(r)

Event ==
    \/ \E r \in Live : Disturbance(r)
    \/ \E v \in Versions : ChangeIndex(v)
    \/ ExpireOrSweep

Next ==
    \/ (Sweep \/ \E r \in Live : Step(r)) /\ UNCHANGED events
    \/ events < MaxEvents /\ Event /\ events' = events + 1

Spec == Init /\ [][Next]_vars

-----------------------------------------------------------------------------

\* The engine uses the cache as it is meant to be used: one look-up, a set only
\* after it missed, and no operation but the cache's own touches Redis.
UsesCache == Cache!Spec

HitCountNotAbove == Cache!HitCountNotAbove
HitHasOneAuthor == Cache!HitHasOneAuthor
OrphansOnlyFromRaces == Cache!OrphansOnlyFromRaces
LiveEntryKept == Cache!LiveEntryKept

Hit(r) == lookup[r] = "hit"
Cited(r) == IF Hit(r) THEN ToSet(served[r].cites) ELSE ToSet(cites[r])

\* The cache knows questions, not filters: an answer that cites what the
\* request's filter excludes is a hit on the answer to a request with another
\* filter.  No other step, and no mixture of sub-queries, gets past the filter.
FilterBrokenOnlyByCache ==
    \A r \in Live : \A c \in Cited(r) :
        ~Matches(c, Ask[r].filter) =>
            Hit(r) /\ Ask[best[r]].filter # Ask[r].filter

\* An answer that cites two versions of one document was searched for while the
\* searchable chunks of the document changed (the two searches of a sub-query, and
\* the searches of several, are not one snapshot of the index), or one of the two
\* is what a store that failed has left, or the stores of the document overlapped.
MixedOnlyByChangeOrFailure ==
    \A r \in Live : \A c, e \in ToSet(cites[r]) :
        VersionOf[c] # VersionOf[e] /\ Payload[c].doc = Payload[e].doc =>
            \/ Payload[c].doc \in changed[r] \cup blurred
            \/ Index!Failed(VersionOf[c]) \/ Index!Failed(VersionOf[e])

\* A response reports the sub-queries of its own request unless another request
\* was decomposed while this one retrieved; whether it was reranked, and by how
\* much it was cut, is its own in any case, though all of it passes through the
\* one engine and its one reranker.
ReportsItsOwn ==
    \A r \in Live : Ask[r].mode = "query" /\ pc[r] \in {"generate", "check", "deliver"} =>
        /\ reported[r].sub # sub[r] => r \in overwritten
        /\ reported[r].reranked => Ask[r].use_reranker
        /\ Ask[r].use_reranker /\ Len(final[r]) > 1 => reported[r].reranked
        /\ Len(final[r]) <= Ask[r].top_k

\* What is cached is a whole answer, as its client is given it: never a part of
\* one, never the answer of a stream whose client has gone before its last chunk,
\* never an empty stream.
CachedWasDelivered ==
    \A e \in Live : entry[e] # None =>
        /\ pc[e] = "store" => entry[e] = Answer(e)
        /\ entry[e].text \in {"complete", "truncated", "failed", "empty"}
        /\ entry[e].text = "empty" => Ask[e].mode = "query"
        /\ pc[e] \in {"store", "over"}

\* The prompt takes the best chunks, without a gap, each under its own number,
\* at least one if there is any, and spends no more than the budget; it leaves
\* one out only when less than a fragment of the budget is left.
PromptWithinBudget ==
    \A r \in Live : final[r] # <<>> =>
        LET budget == Available(Ask[r].context, Ask[r].asked)
            prompt == Prompt(final[r], budget)
        IN  /\ cites[r] = First(final[r], Len(cites[r]))
            /\ cites[r] # <<>>
            /\ prompt.used <= budget
            /\ Len(cites[r]) < Len(final[r]) => prompt.used + Fragment > budget
=============================================================================
