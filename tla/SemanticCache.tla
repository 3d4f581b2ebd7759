--------------------------- MODULE SemanticCache ---------------------------
(***************************************************************************)
(* The semantic cache of query/cache.py on Redis.                          *)
(*                                                                         *)
(* An entry is a field in each of four hashes (vectors, queries, responses *)
(* and meta) and a key of its own that carries the time to live.  None of  *)
(* the operations is atomic: a look-up is up to four round trips, a set is *)
(* five commands of a pipeline without a transaction, and the sweep of     *)
(* expired entries checks and removes in separate round trips.  Requests   *)
(* are the cache's clients and give their entries their identity (a fresh  *)
(* uuid4 per set, and a request sets at most once).                        *)
(*                                                                         *)
(* The hash of the questions' texts is written and removed with the        *)
(* responses and read by nobody: it is part of the responses here.         *)
(*                                                                         *)
(* A definition named ...Mutant is a plausible bug of the definition that  *)
(* follows it; no specification uses it.                                   *)
(***************************************************************************)
EXTENDS Naturals, FiniteSets

CONSTANTS
    Requests,    \* clients, and the identifiers of the entries they set
    Similarity,  \* Similarity[r][s]: cosine of the questions of r and s, in percent
    Threshold,   \* 92 in the code
    MaxSweeps,   \* bound: runs of invalidate_expired
    Warm,        \* requests of an earlier run of the API, cached in full: Redis outlives it
    WarmAnswer,  \* what they were answered
    None

\* What the theorems assume; QueryEngine, whose runs use the cache, assumes it.
CacheAssumption ==
    /\ IsFiniteSet(Requests)
    /\ Warm \subseteq Requests
    /\ MaxSweeps \in Nat
    /\ None \notin Nat \cup Requests

VARIABLES
    vectors,    \* rag:cache:vectors: the identifiers that have a field
    responses,  \* rag:cache:responses
    meta,       \* hit_count in rag:cache:meta, None when there is no field
    alive,      \* rag:cache:expiry:<id>: identifiers whose key exists
    lookup,     \* get(): the round trip a request is at, or its outcome
    best,       \* best_id of a request's look-up
    served,     \* the response a look-up has fetched
    counted,    \* the hit_count a look-up has read
    filling,    \* set(): the command of a request's pipeline that is next
    entry,      \* the answer a request sets
    sweep,      \* invalidate_expired: "idle", "check" or "remove"
    todo,       \* identifiers it has still to look at
    victim,     \* the identifier it is about to remove
    sweeps,     \* how often it has run
    raced       \* history: entries a sweep or a hit count ran into while in use

redis == <<vectors, responses, meta, alive>>
getVars == <<lookup, best, served, counted>>
setVars == <<filling, entry>>
sweepVars == <<sweep, todo, victim, sweeps>>
cacheVars == <<vectors, responses, meta, alive, lookup, best, served, counted,
               filling, entry, sweep, todo, victim, sweeps, raced>>

LookupStates == {"new", "response", "meta", "count", "hit", "miss", "error"}
Filling == {"vectors", "responses", "meta", "expiry"}
FillStates == Filling \cup {"idle", "done", "failed"}

\* What an answer is, is its caller's business.
TypeOK ==
    /\ vectors \in SUBSET Requests
    /\ DOMAIN responses = Requests
    /\ meta \in [Requests -> Nat \cup {None}]
    /\ alive \in SUBSET Requests
    /\ lookup \in [Requests -> LookupStates]
    /\ best \in [Requests -> Requests \cup {None}]
    /\ DOMAIN served = Requests
    /\ counted \in [Requests -> Nat]
    /\ filling \in [Requests -> FillStates]
    /\ DOMAIN entry = Requests
    /\ sweep \in {"idle", "check", "remove"}
    /\ todo \in SUBSET Requests
    /\ victim \in Requests \cup {None}
    /\ sweeps \in 0..MaxSweeps
    /\ raced \in SUBSET Requests

Init ==
    /\ vectors = Warm
    /\ responses = [r \in Requests |-> IF r \in Warm THEN WarmAnswer[r] ELSE None]
    /\ meta = [r \in Requests |-> IF r \in Warm THEN 0 ELSE None]
    /\ alive = Warm
    /\ lookup = [r \in Requests |-> IF r \in Warm THEN "miss" ELSE "new"]
    /\ best = [r \in Requests |-> None]
    /\ served = [r \in Requests |-> None]
    /\ counted = [r \in Requests |-> 0]
    /\ filling = [r \in Requests |-> IF r \in Warm THEN "done" ELSE "idle"]
    /\ entry = responses
    /\ sweep = "idle"
    /\ todo = {}
    /\ victim = None
    /\ sweeps = 0
    /\ raced = {}

-----------------------------------------------------------------------------
(* get(): HGETALL vectors, HGET response, HGET meta, HSET meta. *)

\* The candidates for best_id: which of several equals wins is up to the order
\* of the fields of the hash.
MostSimilar(r) ==
    {e \in vectors : \A f \in vectors : Similarity[r][f] <= Similarity[r][e]}

\* Mutant: the best entry is good enough.
CloseEnoughMutant(r, e) == TRUE

CloseEnough(r, e) == Similarity[r][e] >= Threshold

Lookup(r) ==
    /\ lookup[r] = "new"
    /\ \/ /\ \A e \in MostSimilar(r) : ~CloseEnough(r, e)
          /\ lookup' = [lookup EXCEPT ![r] = "miss"]
          /\ UNCHANGED best
       \/ \E e \in MostSimilar(r) :
             /\ CloseEnough(r, e)
             /\ lookup' = [lookup EXCEPT ![r] = "response"]
             /\ best' = [best EXCEPT ![r] = e]
    /\ UNCHANGED <<redis, served, counted, setVars, sweepVars, raced>>

\* Without a response the look-up misses: it tries no second-best entry.
FetchResponse(r) ==
    /\ lookup[r] = "response"
    /\ served' = [served EXCEPT ![r] = responses[best[r]]]
    /\ lookup' = [lookup EXCEPT ![r] = IF responses[best[r]] = None THEN "miss" ELSE "meta"]
    /\ UNCHANGED <<redis, best, counted, setVars, sweepVars, raced>>

ReadMeta(r) ==
    /\ lookup[r] = "meta"
    /\ IF meta[best[r]] = None
       THEN /\ lookup' = [lookup EXCEPT ![r] = "hit"]
            /\ UNCHANGED counted
       ELSE /\ lookup' = [lookup EXCEPT ![r] = "count"]
            /\ counted' = [counted EXCEPT ![r] = meta[best[r]]]
    /\ UNCHANGED <<redis, best, served, setVars, sweepVars, raced>>

\* Mutant: the count is incremented for the hit and once more for the request.
CountMutant(r) == counted[r] + 2

Count(r) == counted[r] + 1

\* HSET makes the field anew if a sweep has removed it; its own failure is
\* swallowed and the hit stands.
WriteMeta(r) ==
    /\ lookup[r] = "count"
    /\ lookup' = [lookup EXCEPT ![r] = "hit"]
    /\ \/ /\ meta' = [meta EXCEPT ![best[r]] = Count(r)]
          /\ raced' = IF best[r] \in vectors THEN raced ELSE raced \cup {best[r]}
       \/ UNCHANGED <<meta, raced>>
    /\ UNCHANGED <<vectors, responses, alive, best, served, counted, setVars, sweepVars>>

\* Redis fails in one of the first three round trips; nobody catches it.
LookupFails(r) ==
    /\ lookup[r] \in {"new", "response", "meta"}
    /\ lookup' = [lookup EXCEPT ![r] = "error"]
    /\ UNCHANGED <<redis, best, served, counted, setVars, sweepVars, raced>>

-----------------------------------------------------------------------------
(* set(): a pipeline of HSET vectors, queries, responses, meta and SET expiry. *)

BeginSet(r, a) ==
    /\ filling[r] = "idle"
    /\ filling' = [filling EXCEPT ![r] = "vectors"]
    /\ entry' = [entry EXCEPT ![r] = a]
    /\ UNCHANGED <<redis, getVars, sweepVars, raced>>

SetVector(r) ==
    /\ filling[r] = "vectors"
    /\ vectors' = vectors \cup {r}
    /\ filling' = [filling EXCEPT ![r] = "responses"]
    /\ UNCHANGED <<responses, meta, alive, getVars, entry, sweepVars, raced>>

SetResponse(r) ==
    /\ filling[r] = "responses"
    /\ responses' = [responses EXCEPT ![r] = entry[r]]
    /\ filling' = [filling EXCEPT ![r] = "meta"]
    /\ UNCHANGED <<vectors, meta, alive, getVars, entry, sweepVars, raced>>

SetMeta(r) ==
    /\ filling[r] = "meta"
    /\ meta' = [meta EXCEPT ![r] = 0]
    /\ filling' = [filling EXCEPT ![r] = "expiry"]
    /\ UNCHANGED <<vectors, responses, alive, getVars, entry, sweepVars, raced>>

SetExpiry(r) ==
    /\ filling[r] = "expiry"
    /\ alive' = alive \cup {r}
    /\ filling' = [filling EXCEPT ![r] = "done"]
    /\ UNCHANGED <<vectors, responses, meta, getVars, entry, sweepVars, raced>>

\* The connection is lost: what the pipeline has written so far stays.
SetFails(r) ==
    /\ filling[r] \in Filling
    /\ filling' = [filling EXCEPT ![r] = "failed"]
    /\ UNCHANGED <<redis, getVars, entry, sweepVars, raced>>

-----------------------------------------------------------------------------
(* The time to live, and invalidate_expired(). *)

Expire(e) ==
    /\ alive' = alive \ {e}
    /\ e \in alive
    /\ UNCHANGED <<vectors, responses, meta, getVars, setVars, sweepVars, raced>>

BeginSweep ==
    /\ sweep = "idle"
    /\ sweeps < MaxSweeps
    /\ vectors # {}
    /\ sweep' = "check"
    /\ todo' = vectors
    /\ sweeps' = sweeps + 1
    /\ UNCHANGED <<redis, getVars, setVars, victim, raced>>

\* Mutant: an entry that is being served is taken to have expired.
ExpiredMutant(e) == e \notin alive \/ \E r \in Requests : best[r] = e

Expired(e) == e \notin alive

\* EXISTS rag:cache:expiry:<id>.
CheckExpiry(e) ==
    /\ sweep = "check"
    /\ e \in todo
    /\ IF Expired(e)
       THEN /\ sweep' = "remove"
            /\ victim' = e
            /\ raced' = IF filling[e] \in Filling THEN raced \cup {e} ELSE raced
            /\ UNCHANGED todo
       ELSE /\ todo' = todo \ {e}
            /\ sweep' = IF todo = {e} THEN "idle" ELSE "check"
            /\ UNCHANGED <<victim, raced>>
    /\ UNCHANGED <<redis, getVars, setVars, sweeps>>

\* Mutant: the field in rag:cache:meta is forgotten.
MetaWithoutMutant(e) == meta

MetaWithout(e) == [meta EXCEPT ![e] = None]

\* One transaction: HDEL in all four hashes.
RemoveEntry ==
    /\ sweep = "remove"
    /\ vectors' = vectors \ {victim}
    /\ responses' = [responses EXCEPT ![victim] = None]
    /\ meta' = MetaWithout(victim)
    /\ todo' = todo \ {victim}
    /\ sweep' = IF todo = {victim} THEN "idle" ELSE "check"
    /\ victim' = None
    /\ UNCHANGED <<alive, getVars, setVars, sweeps, raced>>

-----------------------------------------------------------------------------

\* What a request is to do: look up once, and set only what it did not find.
\* (The answer it sets, the new value of entry[r], may be any.)
Client(r) ==
    \/ filling[r] = "idle" /\ (Lookup(r) \/ LookupFails(r))
    \/ FetchResponse(r) \/ ReadMeta(r) \/ WriteMeta(r)
    \/ lookup[r] \in {"new", "miss"} /\ BeginSet(r, entry'[r])
    \/ SetVector(r) \/ SetResponse(r) \/ SetMeta(r) \/ SetExpiry(r) \/ SetFails(r)

Sweeper ==
    BeginSweep \/ RemoveEntry \/ \E e \in Requests : CheckExpiry(e) \/ Expire(e)

Next == Sweeper \/ \E r \in Requests : Client(r)

Spec == Init /\ [][Next]_cacheVars

-----------------------------------------------------------------------------

\* The look-ups an entry has been served to and that have finished counting.
Hits(e) == {r \in Requests : best[r] = e /\ lookup[r] = "hit"}

\* Two hits on one entry read the same hit_count and write the same successor:
\* the count can fall behind, but it never runs ahead of the hits, whatever
\* the order of look-ups, the set that zeroes it and the sweep that removes it.
HitCountNotAbove ==
    \A e \in Requests : meta[e] # None => meta[e] <= Cardinality(Hits(e))

\* A look-up that got a response got, in full, what the author of a similar
\* enough question set; that author had missed the cache itself, so no answer
\* is cached a second time under another question and drifts from its source.
HitHasOneAuthor ==
    \A r \in Requests : served[r] # None =>
        /\ best[r] \in Requests \ {r}
        /\ Similarity[r][best[r]] >= Threshold
        /\ served[r] = entry[best[r]]
        /\ lookup[best[r]] \in {"new", "miss"}

\* invalidate_expired() finds entries through the vectors.  What it can never
\* find again, a response or a hit count without its vector, is left only by
\* a sweep that met the entry while it was being set, or by a hit that was
\* being counted when the entry was removed.
OrphansOnlyFromRaces ==
    \A e \in Requests :
        e \notin vectors /\ (responses[e] # None \/ meta[e] # None) => e \in raced

\* An entry that was set to its end and has not expired stays, unless a sweep
\* had looked for its expiry key before the set had written it.
LiveEntryKept ==
    \A e \in alive : filling[e] = "done" /\ e \notin raced =>
        e \in vectors /\ responses[e] = entry[e]
=============================================================================
