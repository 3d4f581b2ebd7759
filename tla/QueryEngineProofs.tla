------------------------- MODULE QueryEngineProofs -------------------------
(***************************************************************************)
(* Proofs about QueryEngine: that its requests use the cache as module     *)
(* SemanticCache specifies, and what the theorems about the cache then say *)
(* of the engine; that only what was delivered is cached; what the         *)
(* computations of module Retrieval return; and with it that the answers   *)
(* respect their filters, mix versions only when one is replaced, report   *)
(* their own sub-queries and keep to the budget of the prompt.  All of it  *)
(* holds for every set of requests, any index, any ranking and answers.    *)
(***************************************************************************)
EXTENDS QueryEngine, ListProofs

CacheProofs == INSTANCE SemanticCacheProofs

-----------------------------------------------------------------------------
(* Where a request stands, as the cache sees it. *)

Phases == {"new", "over"} \cup Running

\* A request that has not answered yet has not begun to set its entry, and one
\* that is past the cache check did not find anything.
StandsWithCache ==
    \A r \in Live :
        /\ pc[r] \notin {"store", "over"} => filling[r] = "idle"
        /\ pc[r] = "new" => lookup[r] = "new"
        /\ pc[r] \notin {"new", "lookup", "over"} => lookup[r] \in {"new", "miss"}

StandInv ==
    /\ pc \in [Live -> Phases]
    /\ lookup \in [Requests -> Cache!LookupStates]
    /\ filling \in [Requests -> Cache!FillStates]
    /\ DOMAIN entry = Requests
    /\ StandsWithCache

LEMMA StandInit == Init => StandInv
  BY DEF Init, StandInv, StandsWithCache, Phases, Cache!Init, Cache!LookupStates,
         Cache!FillStates, Cache!Filling, Live

\* A step of a request that leaves the cache alone.
LEMMA PhaseStands ==
    ASSUME StandInv, UNCHANGED cacheVars, NEW r \in Live, NEW p \in Phases,
           pc' = [pc EXCEPT ![r] = p],
           p = "new" => pc[r] = "new",
           p \notin {"store", "over"} => pc[r] \notin {"store", "over"},
           p \notin {"new", "lookup", "over"} => pc[r] \notin {"lookup", "over"}
    PROVE  StandInv'
  BY DEF StandInv, StandsWithCache, cacheVars, Phases

\* What the cache does by itself.
LEMMA SweepStands ==
    ASSUME StandInv, UNCHANGED <<pc, lookup, filling, entry>> PROVE StandInv'
  BY DEF StandInv, StandsWithCache

LEMMA QuietStep ==
    ASSUME StandInv, NEW r \in Live,
           \/ SkipCache(r) \/ Decompose(r) \/ RetrievalFails(r) \/ Delta(r) \/ Stop(r)
           \/ Exhausted(r) \/ GenerationFails(r) \/ CheckGroundedness(r) \/ Deliver(r)
           \/ ExpandAndBuild(r)
           \/ \E i \in Positions(sub[r]) : \E kind \in {"dense", "sparse"} : SearchIndex(r, i, kind)
    PROVE  StandInv' /\ UNCHANGED cacheVars
<1> USE DEF Goto, End, Phases, Running, Generated
<1>1. CASE SkipCache(r)
  BY <1>1, PhaseStands DEF SkipCache
<1>2. CASE Decompose(r)
  BY <1>2, PhaseStands DEF Decompose
<1>3. CASE RetrievalFails(r)
  BY <1>3, PhaseStands DEF RetrievalFails
<1>4. CASE Delta(r)
  BY <1>4 DEF Delta, StandInv, StandsWithCache, cacheVars
<1>5. CASE Stop(r)
  <2>1. AfterGeneration(r) \in {"check", "deliver"}
    BY DEF AfterGeneration
  <2>2. QED
    BY <1>5, <2>1, PhaseStands DEF Stop
<1>6. CASE Exhausted(r)
  <2>1. AfterGeneration(r) \in {"check", "deliver"}
    BY DEF AfterGeneration
  <2>2. QED
    BY <1>6, <2>1, PhaseStands DEF Exhausted
<1>7. CASE GenerationFails(r)
  <2>1. AfterGeneration(r) \in {"check", "deliver"}
    BY DEF AfterGeneration
  <2>2. QED
    BY <1>7, <2>1, PhaseStands DEF GenerationFails
<1>8. CASE CheckGroundedness(r)
  BY <1>8, PhaseStands DEF CheckGroundedness
<1>9. CASE Deliver(r)
  BY <1>9, PhaseStands DEF Deliver
<1>10. CASE ExpandAndBuild(r)
  <2>1. pc[r] = "expand" /\ pc' = [pc EXCEPT ![r] = "generate"] /\ UNCHANGED cacheVars
    BY <1>10 DEF ExpandAndBuild
  <2>2. QED
    BY <2>1, PhaseStands
<1>11. ASSUME NEW i, NEW kind, SearchIndex(r, i, kind) PROVE StandInv' /\ UNCHANGED cacheVars
  <2>1. /\ pc[r] = "search" /\ UNCHANGED cacheVars
        /\ pc' = [pc EXCEPT ![r] = "expand"] \/ pc' = [pc EXCEPT ![r] = "search"]
    BY <1>11 DEF SearchIndex
  <2>2. QED
    BY <2>1, PhaseStands
<1>12. QED
  BY <1>1, <1>2, <1>3, <1>4, <1>5, <1>6, <1>7, <1>8, <1>9, <1>10, <1>11

-----------------------------------------------------------------------------
(* The steps that use the cache. *)

\* The cache check.
LEMMA CheckStep ==
    ASSUME StandInv, NEW r \in Live, CheckCache(r) \/ CheckCacheFails(r)
    PROVE  StandInv' /\ Cache!Client(r)
<1> USE DEF StandInv, StandsWithCache, Phases, Running, Goto, Cache!LookupStates, Live,
        Cache!setVars, Cache!redis, Cache!sweepVars
<1>1. CASE CheckCacheFails(r)
  BY <1>1 DEF CheckCacheFails, Cache!LookupFails, Cache!Client
<1>2. CASE CheckCache(r)
  <2>1. /\ filling[r] = "idle" /\ pc[r] \in {"new", "lookup"}
        /\ filling' = filling /\ entry' = entry
    BY <1>2 DEF CheckCache, Cache!Lookup, Cache!FetchResponse, Cache!ReadMeta, Cache!WriteMeta
  <2>2. Cache!Client(r)
    BY <1>2, <2>1 DEF CheckCache, Cache!Client
  <2>3. \E s \in {"miss", "response", "meta", "count", "hit"} : lookup' = [lookup EXCEPT ![r] = s]
    BY <1>2 DEF CheckCache, Cache!Lookup, Cache!FetchResponse, Cache!ReadMeta, Cache!WriteMeta
  <2>4. pc' = [pc EXCEPT ![r] = IF lookup'[r] = "miss" THEN "decompose"
                                 ELSE IF lookup'[r] = "hit" THEN "over" ELSE "lookup"]
    BY <1>2, <2>3 DEF CheckCache, AfterLookup
  <2>5. QED
    BY <2>1, <2>2, <2>3, <2>4
<1>3. QED
  BY <1>1, <1>2

\* Storing the answer, or failing to.
LEMMA StoreStep ==
    ASSUME StandInv, NEW r \in Live, StoreInCache(r) \/ StoreFails(r) \/ Disconnect(r)
    PROVE  StandInv' /\ [Cache!Client(r)]_cacheVars
<1> USE DEF StandInv, StandsWithCache, Phases, Running, End, Cache!FillStates, Cache!Filling,
        Live, Cache!getVars, Cache!redis, Cache!sweepVars
<1>1. CASE StoreInCache(r)
  <2>1. /\ pc[r] = "store" /\ lookup' = lookup /\ DOMAIN entry' = Requests
        /\ \E s \in Cache!FillStates : filling' = [filling EXCEPT ![r] = s]
    BY <1>1 DEF StoreInCache, Cache!BeginSet, Cache!SetVector, Cache!SetResponse, Cache!SetMeta,
       Cache!SetExpiry
  <2>2. pc' = pc \/ pc' = [pc EXCEPT ![r] = "over"]
    BY <1>1 DEF StoreInCache
  <2>3. StandInv'
    BY <2>1, <2>2
  <2>4. CASE Cache!BeginSet(r, Answer(r))
    <3>1. Cache!BeginSet(r, entry'[r])
      BY <2>4 DEF Cache!BeginSet
    <3>2. QED
      BY <3>1, <2>1, <2>3 DEF Cache!Client
  <2>5. CASE Cache!SetVector(r) \/ Cache!SetResponse(r) \/ Cache!SetMeta(r) \/ Cache!SetExpiry(r)
    BY <2>5, <2>3 DEF Cache!Client
  <2>6. QED
    BY <1>1, <2>4, <2>5 DEF StoreInCache
<1>2. CASE UNCHANGED cacheVars /\ pc' = [pc EXCEPT ![r] = "over"]
  <2>1. StandInv'
    BY <1>2, PhaseStands
  <2>2. QED
    BY <1>2, <2>1
<1>3. CASE Cache!SetFails(r) /\ pc' = [pc EXCEPT ![r] = "over"]
  <2>1. StandInv'
    BY <1>3 DEF Cache!SetFails
  <2>2. QED
    BY <1>3, <2>1 DEF Cache!Client
<1>4. QED
  BY <1>1, <1>2, <1>3 DEF StoreFails, Disconnect

-----------------------------------------------------------------------------
(* The engine implements the cache's specification. *)

LEMMA StandStep ==
    ASSUME StandInv, [Next]_vars PROVE StandInv' /\ [Cache!Next]_cacheVars
<1>1. ASSUME NEW r \in Live, Step(r) PROVE StandInv' /\ [Cache!Next]_cacheVars
  <2>1. r \in Requests
    BY DEF Live
  <2>2. QED
    BY <1>1, <2>1, QuietStep, CheckStep, StoreStep DEF Step, Cache!Next
<1>2. ASSUME NEW r \in Live, Disturbance(r) PROVE StandInv' /\ [Cache!Next]_cacheVars
  <2>1. r \in Requests
    BY DEF Live
  <2>2. QED
    BY <1>2, <2>1, QuietStep, CheckStep, StoreStep DEF Disturbance, Cache!Next
<1>3. ASSUME NEW v \in Versions, ChangeIndex(v) PROVE StandInv' /\ [Cache!Next]_cacheVars
  <2>1. UNCHANGED cacheVars /\ UNCHANGED pc
    BY <1>3 DEF ChangeIndex
  <2>2. QED
    BY <2>1, SweepStands DEF cacheVars
<1>4. CASE ExpireOrSweep
  <2>1. UNCHANGED <<pc, lookup, filling, entry>>
    BY <1>4 DEF ExpireOrSweep, Cache!BeginSweep, Cache!Expire, Cache!getVars, Cache!setVars
  <2>2. QED
    BY <1>4, <2>1, SweepStands DEF ExpireOrSweep, Cache!Sweeper, Cache!Next
<1>5. CASE Sweep
  <2>1. UNCHANGED <<pc, lookup, filling, entry>>
    BY <1>5 DEF Sweep, Cache!RemoveEntry, Cache!CheckExpiry, Cache!getVars, Cache!setVars
  <2>2. QED
    BY <1>5, <2>1, SweepStands DEF Sweep, Cache!Sweeper, Cache!Next
<1>6. CASE UNCHANGED vars
  <2>1. UNCHANGED cacheVars /\ UNCHANGED pc
    BY <1>6 DEF vars, cacheVars
  <2>2. QED
    BY <2>1, SweepStands DEF cacheVars
<1>7. QED
  BY <1>1, <1>2, <1>3, <1>4, <1>5, <1>6 DEF Next, Event

\* Whatever a request of the engine does, at whichever await it is overtaken or
\* stopped, is to the cache one look-up and at most one set, after a miss.
THEOREM EngineUsesCache == Spec => UsesCache
<1>1. Init => Cache!Init
  BY DEF Init
<1>2. StandInv /\ [Next]_vars => StandInv' /\ [Cache!Next]_Cache!cacheVars
  BY StandStep DEF cacheVars, Cache!cacheVars
<1>3. QED
  BY <1>1, <1>2, StandInit, PTL DEF Spec, UsesCache, Cache!Spec

-----------------------------------------------------------------------------
(* So what is proved of the cache holds of the engine. *)

\* The two instances of SemanticCache are one: the theorems' module and the
\* engine's.
LEMMA SameSpec == Cache!Spec <=> CacheProofs!Spec
  BY DEF Cache!Spec, Cache!Init, Cache!Next, Cache!Client, Cache!Sweeper,
      Cache!cacheVars, Cache!Lookup, Cache!LookupFails, Cache!FetchResponse,
      Cache!ReadMeta, Cache!WriteMeta, Cache!BeginSet, Cache!SetVector,
      Cache!SetResponse, Cache!SetMeta, Cache!SetExpiry, Cache!SetFails,
      Cache!BeginSweep, Cache!CheckExpiry, Cache!RemoveEntry, Cache!Expire,
      Cache!MostSimilar, Cache!CloseEnough, Cache!Count, Cache!Expired,
      Cache!MetaWithout, Cache!redis, Cache!getVars, Cache!setVars,
      Cache!sweepVars, Cache!Filling, CacheProofs!Spec, CacheProofs!Init,
      CacheProofs!Next, CacheProofs!Client, CacheProofs!Sweeper,
      CacheProofs!cacheVars, CacheProofs!Lookup, CacheProofs!LookupFails,
      CacheProofs!FetchResponse, CacheProofs!ReadMeta, CacheProofs!WriteMeta,
      CacheProofs!BeginSet, CacheProofs!SetVector, CacheProofs!SetResponse,
      CacheProofs!SetMeta, CacheProofs!SetExpiry, CacheProofs!SetFails,
      CacheProofs!BeginSweep, CacheProofs!CheckExpiry, CacheProofs!RemoveEntry,
      CacheProofs!Expire, CacheProofs!MostSimilar, CacheProofs!CloseEnough,
      CacheProofs!Count, CacheProofs!Expired, CacheProofs!MetaWithout,
      CacheProofs!redis, CacheProofs!getVars, CacheProofs!setVars,
      CacheProofs!sweepVars, CacheProofs!Filling

LEMMA SameAssumption == CacheProofs!CacheAssumption
  BY EngineAssumption DEF Cache!CacheAssumption, CacheProofs!CacheAssumption,
     Cache!IsFiniteSet, CacheProofs!IsFiniteSet

\* The engine's requests, however they overlap and fail, never take the hit_count
\* of an entry above the hits on it.
THEOREM EngineCounts == Spec => []HitCountNotAbove
<1>1. CacheProofs!Spec => []CacheProofs!HitCountNotAbove
  BY SameAssumption, CacheProofs!CountsAtMostTheHits
<1>2. CacheProofs!HitCountNotAbove => HitCountNotAbove
  BY DEF HitCountNotAbove, Cache!HitCountNotAbove, CacheProofs!HitCountNotAbove, Cache!Hits, CacheProofs!Hits,
     Cache!Cardinality, CacheProofs!Cardinality
<1>3. QED
  BY <1>1, <1>2, EngineUsesCache, SameSpec, PTL DEF UsesCache

\* A request of the engine that is served from the cache gets one whole answer of
\* one other request, which had missed.
THEOREM EngineHits == Spec => []HitHasOneAuthor
<1>1. CacheProofs!Spec => []CacheProofs!HitHasOneAuthor
  BY SameAssumption, CacheProofs!OneAuthorPerHit
<1>2. CacheProofs!HitHasOneAuthor => HitHasOneAuthor
  BY DEF HitHasOneAuthor, Cache!HitHasOneAuthor, CacheProofs!HitHasOneAuthor
<1>3. QED
  BY <1>1, <1>2, EngineUsesCache, SameSpec, PTL DEF UsesCache

\* No request that fails or is cancelled while it stores its answer leaves a field
\* in Redis that the sweep cannot find.
THEOREM EngineOrphans == Spec => []OrphansOnlyFromRaces
<1>1. CacheProofs!Spec => []CacheProofs!OrphansOnlyFromRaces
  BY SameAssumption, CacheProofs!OrphansAreRaces
<1>2. CacheProofs!OrphansOnlyFromRaces => OrphansOnlyFromRaces
  BY DEF OrphansOnlyFromRaces, Cache!OrphansOnlyFromRaces, CacheProofs!OrphansOnlyFromRaces
<1>3. QED
  BY <1>1, <1>2, EngineUsesCache, SameSpec, PTL DEF UsesCache

\* No request of the engine, and no sweep, takes away an entry before its time.
THEOREM EngineKeepsLive == Spec => []LiveEntryKept
<1>1. CacheProofs!Spec => []CacheProofs!LiveEntryKept
  BY SameAssumption, CacheProofs!LiveEntriesStay
<1>2. CacheProofs!LiveEntryKept => LiveEntryKept
  BY DEF LiveEntryKept, Cache!LiveEntryKept, CacheProofs!LiveEntryKept
<1>3. QED
  BY <1>1, <1>2, EngineUsesCache, SameSpec, PTL DEF UsesCache

-----------------------------------------------------------------------------
(* What is cached was delivered. *)

\* A request that is past its generation has its whole answer, and one that is
\* about to store it is one that stores it.
AnswerInv ==
    /\ text \in [Live -> Texts]
    /\ DOMAIN cites = Live
    /\ \A r \in Live :
          /\ pc[r] \in {"check", "deliver", "store"} => text[r] # "partial"
          /\ pc[r] = "store" => Stores(r)

DeliverInv == StandInv /\ AnswerInv /\ CachedWasDelivered

LEMMA DeliverInit == Init => DeliverInv
<1> SUFFICES ASSUME Init PROVE DeliverInv
  OBVIOUS
<1>1. AnswerInv
  BY DEF Init, AnswerInv, Texts
<1>2. \A e \in Live : entry[e] = None
  BY DEF Init, Cache!Init, Live
<1>3. QED
  BY <1>1, <1>2, StandInit DEF DeliverInv, CachedWasDelivered

\* A step that sets no entry, and of one request moves the phase, the text or
\* what is cited, as long as it is not storing.
LEMMA OneAdvances ==
    ASSUME DeliverInv, NEW r \in Live, entry' = entry, DOMAIN cites' = Live,
           pc[r] \notin {"store", "over"},
           \E t \in Texts : text' = [text EXCEPT ![r] = t],
           \A e \in Live \ {r} : cites'[e] = cites[e],
           \E p \in Phases :
               /\ pc' = [pc EXCEPT ![r] = p]
               /\ p \in {"check", "deliver", "store"} => text'[r] # "partial"
               /\ p = "store" => Stores(r) /\ text'[r] = text[r]
    PROVE  AnswerInv' /\ CachedWasDelivered'
<1> USE DEF DeliverInv, StandInv, AnswerInv, CachedWasDelivered
<1>1. entry[r] = None
  OBVIOUS
<1>2. AnswerInv'
  BY DEF Stores
<1>3. ASSUME NEW e \in Live, entry'[e] # None
      PROVE  /\ pc'[e] = "store" => entry'[e] = Answer(e)'
             /\ entry'[e].text \in {"complete", "truncated", "failed", "empty"}
             /\ entry'[e].text = "empty" => Ask[e].mode = "query"
             /\ pc'[e] \in {"store", "over"}
  BY <1>1, <1>3 DEF Answer
<1>4. QED
  BY <1>2, <1>3

\* The call of a request ends; another request's entry may not.
LEMMA OneEnds ==
    ASSUME DeliverInv, NEW r \in Live, entry' = entry, End(r)
    PROVE  AnswerInv' /\ CachedWasDelivered'
<1> USE DEF DeliverInv, StandInv, AnswerInv, CachedWasDelivered, End, Phases
<1>1. AnswerInv'
  BY DEF Stores, Texts
<1>2. ASSUME NEW e \in Live, entry'[e] # None
      PROVE  /\ pc'[e] = "store" => entry'[e] = Answer(e)'
             /\ entry'[e].text \in {"complete", "truncated", "failed", "empty"}
             /\ entry'[e].text = "empty" => Ask[e].mode = "query"
             /\ pc'[e] \in {"store", "over"}
  BY <1>2 DEF Answer
<1>3. QED
  BY <1>1, <1>2

\* Nothing but the cache's own affairs.
LEMMA OthersDeliver ==
    ASSUME DeliverInv, UNCHANGED <<pc, text, cites, entry>>
    PROVE  AnswerInv' /\ CachedWasDelivered'
  BY DEF DeliverInv, AnswerInv, CachedWasDelivered, Stores, Answer

\* A request runs up to its generation.
LEMMA RetrievalDelivers ==
    ASSUME DeliverInv, NEW r \in Live,
           \/ SkipCache(r) \/ CheckCache(r) \/ CheckCacheFails(r) \/ Decompose(r)
           \/ ExpandAndBuild(r)
           \/ \E i \in Positions(sub[r]) : \E kind \in {"dense", "sparse"} : SearchIndex(r, i, kind)
    PROVE  AnswerInv' /\ CachedWasDelivered'
<1> USE DEF Goto, Phases, Running, own
<1> DEFINE Early == Phases \ {"check", "deliver", "store"}
<1>1. /\ pc[r] \notin {"store", "over"} /\ text' = text /\ entry' = entry
      /\ DOMAIN cites' = DOMAIN cites /\ \A e \in Live \ {r} : cites'[e] = cites[e]
      /\ \E p \in Early : pc' = [pc EXCEPT ![r] = p]
  <2>1. CASE SkipCache(r)
    BY <2>1 DEF SkipCache, cacheVars
  <2>2. CASE CheckCache(r)
    <3>1. AfterLookup(r) \in {"decompose", "over", "lookup"}
      BY DEF AfterLookup
    <3>2. entry' = entry
      BY <2>2 DEF CheckCache, Cache!Lookup, Cache!FetchResponse, Cache!ReadMeta,
         Cache!WriteMeta, Cache!setVars
    <3>3. QED
      BY <2>2, <3>1, <3>2 DEF CheckCache
  <2>3. CASE CheckCacheFails(r)
    BY <2>3 DEF CheckCacheFails, Cache!LookupFails, Cache!setVars
  <2>4. CASE Decompose(r)
    BY <2>4 DEF Decompose, cacheVars
  <2>5. CASE ExpandAndBuild(r)
    <3>1. /\ pc[r] = "expand" /\ pc' = [pc EXCEPT ![r] = "generate"]
          /\ text' = text /\ entry' = entry
      BY <2>5 DEF ExpandAndBuild, cacheVars
    <3>2. \E x : cites' = [cites EXCEPT ![r] = x]
      BY <2>5 DEF ExpandAndBuild
    <3>3. QED
      BY <3>1, <3>2 DEF DeliverInv, AnswerInv
  <2>6. ASSUME NEW i, NEW kind, SearchIndex(r, i, kind)
        PROVE  /\ pc[r] = "search" /\ UNCHANGED <<text, entry, cites>>
               /\ pc' = [pc EXCEPT ![r] = "expand"] \/ pc' = [pc EXCEPT ![r] = "search"]
    BY <2>6 DEF SearchIndex, cacheVars
  <2>7. QED
    BY <2>1, <2>2, <2>3, <2>4, <2>5, <2>6
<1>2. text = [text EXCEPT ![r] = text[r]] /\ text[r] \in Texts
  BY DEF DeliverInv, AnswerInv
<1>3. QED
  BY <1>1, <1>2, OneAdvances DEF DeliverInv, AnswerInv

\* The answer is generated and checked.
LEMMA GenerationDelivers ==
    ASSUME DeliverInv, NEW r \in Live,
           Delta(r) \/ Stop(r) \/ Exhausted(r) \/ GenerationFails(r) \/ CheckGroundedness(r)
    PROVE  AnswerInv' /\ CachedWasDelivered'
<1> USE DEF Goto, Phases, Running, Generated, cacheVars, DeliverInv, AnswerInv, StandInv
<1>1. CASE Delta(r)
  <2>1. /\ pc[r] = "generate" /\ pc' = [pc EXCEPT ![r] = "generate"]
        /\ text' = [text EXCEPT ![r] = "partial"] /\ UNCHANGED <<cites, entry>>
    BY <1>1 DEF Delta
  <2>2. QED
    BY <2>1, OneAdvances DEF Texts
<1>2. ASSUME NEW t \in Texts \ {"partial"}, Generated(r, t), Goto(r, AfterGeneration(r))
      PROVE  AnswerInv' /\ CachedWasDelivered'
  <2>1. AfterGeneration(r) \in {"check", "deliver"}
    BY DEF AfterGeneration
  <2>2. QED
    BY <1>2, <2>1, OneAdvances
<1>3. CASE Stop(r)
  BY <1>2, <1>3 DEF Stop, Texts
<1>4. CASE Exhausted(r)
  BY <1>2, <1>4 DEF Exhausted, Texts
<1>5. CASE GenerationFails(r)
  BY <1>2, <1>5 DEF GenerationFails, Texts
<1>6. CASE CheckGroundedness(r)
  <2>1. /\ pc[r] = "check" /\ pc' = [pc EXCEPT ![r] = "deliver"]
        /\ text' = [text EXCEPT ![r] = text[r]] /\ UNCHANGED <<text, cites, entry>>
    BY <1>6 DEF CheckGroundedness, own
  <2>2. text[r] \in Texts \ {"partial"} /\ text'[r] = text[r]
    BY <2>1
  <2>3. \E t \in Texts : text' = [text EXCEPT ![r] = t]
    BY <2>1, <2>2
  <2>4. \E p \in Phases :
            /\ pc' = [pc EXCEPT ![r] = p]
            /\ p \in {"check", "deliver", "store"} => text'[r] # "partial"
            /\ p = "store" => Stores(r) /\ text'[r] = text[r]
    BY <2>1, <2>2
  <2>5. QED
    BY <2>1, <2>3, <2>4, OneAdvances
<1>7. QED
  BY <1>1, <1>3, <1>4, <1>5, <1>6

\* The answer is delivered and stored, or the request comes to nothing.
LEMMA EndDelivers ==
    ASSUME DeliverInv, NEW r \in Live,
           \/ Deliver(r) \/ StoreInCache(r) \/ StoreFails(r) \/ Disconnect(r) \/ RetrievalFails(r)
    PROVE  AnswerInv' /\ CachedWasDelivered'
<1>1. CASE entry' = entry /\ End(r)
  BY <1>1, OneEnds
<1>2. CASE Deliver(r) /\ Stores(r)
  <2>1. /\ pc[r] = "deliver" /\ pc' = [pc EXCEPT ![r] = "store"]
        /\ text' = [text EXCEPT ![r] = text[r]] /\ UNCHANGED <<text, cites, entry>>
    BY <1>2 DEF Deliver, Goto, own, cacheVars, DeliverInv, AnswerInv
  <2>2. QED
    BY <1>2, <2>1, OneAdvances DEF DeliverInv, AnswerInv, Phases, Running
<1>3. CASE Deliver(r) /\ ~Stores(r)
  BY <1>1, <1>3 DEF Deliver, cacheVars
<1>4. CASE StoreFails(r) \/ Disconnect(r) \/ RetrievalFails(r)
  BY <1>1, <1>4 DEF StoreFails, Disconnect, RetrievalFails, cacheVars, Cache!SetFails
<1>5. CASE StoreInCache(r) /\ ~Cache!BeginSet(r, Answer(r))
  <2>1. entry' = entry /\ (End(r) \/ UNCHANGED <<pc, text, cites>>)
    BY <1>5 DEF StoreInCache, own, Cache!SetVector, Cache!SetResponse, Cache!SetMeta,
       Cache!SetExpiry
  <2>2. QED
    BY <1>1, <2>1, OthersDeliver
<1>6. CASE StoreInCache(r) /\ Cache!BeginSet(r, Answer(r))
  <2>1. entry' = [entry EXCEPT ![r] = Answer(r)] /\ pc[r] = "store" /\ UNCHANGED <<pc, text, cites>>
    BY <1>6 DEF StoreInCache, own, Cache!BeginSet, DeliverInv, StandInv, Live
  <2>2. /\ Answer(r).text \in {"complete", "truncated", "failed", "empty"}
        /\ Answer(r).text = "empty" => Ask[r].mode = "query"
    BY <2>1, EngineAssumption
    DEF DeliverInv, AnswerInv, Answer, Stores, Texts, Requested, Live
  <2>3. AnswerInv'
    BY <2>1 DEF DeliverInv, AnswerInv, Stores
  <2>4. CachedWasDelivered'
    BY <2>1, <2>2 DEF DeliverInv, StandInv, CachedWasDelivered, Answer, Live
  <2>5. QED
    BY <2>3, <2>4
<1>7. QED
  BY <1>2, <1>3, <1>4, <1>5, <1>6

LEMMA DeliverStep == DeliverInv /\ [Next]_vars => DeliverInv'
<1> SUFFICES ASSUME DeliverInv, [Next]_vars PROVE DeliverInv'
  OBVIOUS
<1>1. StandInv'
  BY StandStep DEF DeliverInv
<1>2. ASSUME NEW r \in Live, Step(r) \/ Disturbance(r) PROVE AnswerInv' /\ CachedWasDelivered'
  BY <1>2, RetrievalDelivers, GenerationDelivers, EndDelivers DEF Step, Disturbance
<1>3. ASSUME NEW v \in Versions, ChangeIndex(v) PROVE AnswerInv' /\ CachedWasDelivered'
  BY <1>3, OthersDeliver DEF ChangeIndex, own, cacheVars
<1>4. ASSUME ExpireOrSweep \/ Sweep PROVE AnswerInv' /\ CachedWasDelivered'
  BY <1>4, OthersDeliver
  DEF ExpireOrSweep, Sweep, own, Cache!BeginSweep, Cache!Expire, Cache!RemoveEntry,
      Cache!CheckExpiry, Cache!setVars
<1>5. ASSUME UNCHANGED vars PROVE AnswerInv' /\ CachedWasDelivered'
  BY <1>5, OthersDeliver DEF vars
<1>6. QED
  BY <1>1, <1>2, <1>3, <1>4, <1>5 DEF Next, Event, DeliverInv

\* stream() and query() cache an answer only after it has been delivered in full:
\* not one that is still being generated, not one whose client has gone.
THEOREM OnlyDeliveredIsCached == Spec => []CachedWasDelivered
<1>1. DeliverInv => CachedWasDelivered
  BY DEF DeliverInv
<1>2. QED
  BY <1>1, DeliverInit, DeliverStep, PTL DEF Spec

-----------------------------------------------------------------------------
(* What the computations of module Retrieval return. *)

LEMMA SearchFacts ==
    ASSUME NEW kind, NEW q \in Questions, NEW visible, NEW filter, NEW limit \in Nat
    PROVE  /\ Search(kind, q, visible, filter, limit) \in Seq(Chunks)
           /\ \A c \in ToSet(Search(kind, q, visible, filter, limit)) :
                c \in visible /\ Matches(c, filter)
<1> DEFINE order == IF kind = "dense" THEN DenseOrder[q] ELSE SparseOrder[q]
           T == {c \in visible : Matches(c, filter)}
<1>1. order \in Seq(Chunks)
  BY RetrievalAssumption
<1>2. Search(kind, q, visible, filter, limit) = First(Keep(order, T), limit)
  BY DEF Search
<1>3. \A c \in T : c \in visible /\ Matches(c, filter)
  OBVIOUS
<1> HIDE DEF order, T
<1>4. Keep(order, T) \in Seq(Chunks) /\ ToSet(Keep(order, T)) \subseteq T
  BY <1>1, KeepFacts
<1>5. First(Keep(order, T), limit) \in Seq(Chunks)
      /\ ToSet(First(Keep(order, T), limit)) \subseteq T
  BY <1>4, FirstFacts
<1>6. QED
  BY <1>2, <1>3, <1>5

LEMMA IdsFacts ==
    ASSUME NEW s \in Seq(Hits)
    PROVE  /\ Ids(s) \in Seq(Chunks) /\ Len(Ids(s)) = Len(s)
           /\ ToSet(Ids(s)) = {e.id : e \in ToSet(s)}
<1>1. Len(s) \in Nat /\ \A i \in 1..Len(s) : s[i].id \in Chunks
  <2>1. \A e \in Hits : e.id \in Chunks
    BY DEF Hits
  <2>2. QED
    BY <2>1
<1>2. Ids(s) = [i \in 1..Len(s) |-> s[i].id]
  BY DEF Ids, Positions
<1>3. Ids(s) \in Seq(Chunks) /\ Len(Ids(s)) = Len(s)
  BY <1>1, <1>2
<1>4. ToSet(Ids(s)) = {s[i].id : i \in 1..Len(s)}
  BY <1>1, <1>2 DEF ToSet
<1>5. ToSet(s) = {s[i] : i \in 1..Len(s)}
  BY SeqFacts
<1>6. QED
  BY <1>3, <1>4, <1>5

\* A list with scores of its own, in whatever order.
LEMMA ScoredFacts ==
    ASSUME NEW s \in Seq(Chunks), NEW score, \A c \in ToSet(s) : score[c] \in Int
    PROVE  /\ Scored(s, score) \in Seq(Hits) /\ Len(Scored(s, score)) = Len(s)
           /\ \A i \in 1..Len(s) : Scored(s, score)[i].place = i
           /\ \A e \in ToSet(Scored(s, score)) : e.id \in ToSet(s)
<1>1. Len(s) \in Nat /\ \A i \in 1..Len(s) : s[i] \in Chunks /\ score[s[i]] \in Int
  BY SeqFacts
<1>2. Scored(s, score) = [i \in 1..Len(s) |-> [id |-> s[i], score |-> score[s[i]], place |-> i]]
  BY DEF Scored, Positions
<1>3. \A i \in 1..Len(s) : [id |-> s[i], score |-> score[s[i]], place |-> i] \in Hits
  BY <1>1 DEF Hits
<1> HIDE DEF Hits
<1>4. /\ Scored(s, score) \in Seq(Hits) /\ Len(Scored(s, score)) = Len(s)
      /\ \A i \in 1..Len(s) : Scored(s, score)[i].place = i /\ Scored(s, score)[i].id = s[i]
  BY <1>1, <1>2, <1>3
<1>5. ASSUME NEW e \in ToSet(Scored(s, score)) PROVE e.id \in ToSet(s)
  <2>1. PICK i \in 1..Len(Scored(s, score)) : Scored(s, score)[i] = e
    BY <1>4, SeqFacts
  <2>2. i \in 1..Len(s) /\ e.id = s[i]
    BY <1>4, <2>1
  <2>3. QED
    BY <2>2, SeqFacts
<1>6. QED
  BY <1>4, <1>5

\* sorted() loses nothing and adds nothing.
LEMMA SortedFacts ==
    ASSUME NEW s \in Seq(Hits), \A i \in 1..Len(s) : s[i].place = i
    PROVE  /\ Sorted(s) \in Seq(Hits) /\ Len(Sorted(s)) = Len(s)
           /\ ToSet(Sorted(s)) \subseteq ToSet(s)
<1> DEFINE P == ToSet(s)
           R == {q \in P \X P : Before(q[1], q[2])}
           N == Len(s)
<1>1. N \in Nat /\ P \subseteq Hits /\ P = {s[i] : i \in 1..N}
  BY SeqFacts
<1>2. IsFiniteSet(P) /\ Cardinality(P) = N
  <2>1. s \in Bijection(1..N, P)
    <3>1. s \in [1..N -> P]
      BY <1>1
    <3>2. \A i, j \in 1..N : s[i] = s[j] => i = j
      OBVIOUS
    <3> HIDE DEF N, P
    <3>3. QED
      BY <1>1, <3>1, <3>2 DEF Bijection, Injection, IsInjective, Surjection
  <2>2. ExistsBijection(1..N, P)
    BY <2>1 DEF ExistsBijection
  <2>3. IsFiniteSet(1..N)
    BY <1>1, PositionsFinite
  <2> HIDE DEF N, P
  <2>4. QED
    BY <1>1, <2>2, <2>3, FS_Bijection, FS_CountingElements
<1>3. \A a, b \in P : <<a, b>> \in R <=> Before(a, b)
  OBVIOUS
<1>4. StrictOrder(R, P)
  <2>1. \A a \in P : a.score \in Int /\ a.place \in Nat
    BY <1>1 DEF Hits
  <2>2. \A a, b \in P : a.place = b.place => a = b
    BY <1>1
  <2> HIDE DEF P, R
  <2>3. QED
    BY <1>3, <2>1, <2>2 DEF StrictOrder, Before
<1> HIDE DEF R
<1>5. \A e \in P : Cardinality({f \in P : Before(f, e)}) = Rank(P, R, e)
  <2>1. TAKE e \in P
  <2>2. {f \in P : Before(f, e)} = {f \in P : <<f, e>> \in R}
    BY <1>3
  <2>3. QED
    BY <2>2 DEF Rank
<1> DEFINE kth(k) == CHOOSE e \in P : Cardinality({f \in P : Before(f, e)}) = k - 1
<1>6. Sorted(s) = [k \in 1..N |-> kth(k)]
  BY DEF Sorted, Positions
<1>7. ASSUME NEW k \in 1..N PROVE kth(k) \in P
  <2>1. \E e \in P : Cardinality({f \in P : Before(f, e)}) = k - 1
    BY <1>2, <1>4, <1>5, RankTaken
  <2> HIDE DEF P
  <2>2. QED
    BY <2>1
<1> HIDE DEF P, N, kth
<1>8. Sorted(s) \in Seq(P) /\ Len(Sorted(s)) = N
  <2>1. Sorted(s) \in [1..N -> P]
    BY <1>6, <1>7
  <2>2. QED
    BY <1>1, <2>1, SeqFromFunction
<1>9. Sorted(s) \in Seq(Hits)
  BY <1>1, <1>8, SeqMonotonic
<1>10. QED
  BY <1>8, <1>9, SeqFacts DEF P, N

\* The best of a list, sorted: what both fusions return.
LEMMA BestFacts ==
    ASSUME NEW s \in Seq(Chunks), NEW score, \A c \in ToSet(s) : score[c] \in Int, NEW k \in Nat
    PROVE  LET top == First(Sorted(Scored(s, score)), k)
           IN  /\ top \in Seq(Hits) /\ Len(top) <= k
               /\ \A e \in ToSet(top) : e.id \in ToSet(s)
<1> DEFINE scored == Scored(s, score)
           top == First(Sorted(scored), k)
<1>1. /\ scored \in Seq(Hits) /\ Len(scored) = Len(s) /\ Len(s) \in Nat
      /\ \A i \in 1..Len(s) : scored[i].place = i
      /\ \A e \in ToSet(scored) : e.id \in ToSet(s)
  BY ScoredFacts
<1> HIDE DEF scored
<1>2. Sorted(scored) \in Seq(Hits) /\ ToSet(Sorted(scored)) \subseteq ToSet(scored)
  BY <1>1, SortedFacts
<1>3. /\ top \in Seq(Hits) /\ Len(top) <= k
      /\ ToSet(top) \subseteq ToSet(Sorted(scored))
  BY <1>2, FirstFacts
<1>4. QED
  BY <1>1, <1>2, <1>3 DEF scored

LEMMA WeightType ==
    ASSUME NEW hits \in Seq(Chunks), NEW c PROVE Weight(c, hits) \in Nat
<1>1. CASE c \in ToSet(hits)
  <2>1. \E i \in Positions(hits) : hits[i] = c
    BY <1>1, SeqFacts DEF Positions
  <2>2. At(c, hits) \in 1..Len(hits) /\ Len(hits) \in Nat
    BY <2>1 DEF At, Positions
  <2>3. RrfK + At(c, hits) \in Nat \ {0} /\ Scale \in Nat
    BY <2>2, RetrievalAssumption
  <2>4. \A a \in Nat, b \in Nat \ {0} : a \div b \in Nat
    OBVIOUS
  <2>5. Scale \div (RrfK + At(c, hits)) \in Nat
    BY <2>3, <2>4
  <2>6. QED
    BY <1>1, <2>5 DEF Weight
<1>2. QED
  BY <1>1 DEF Weight

LEMMA FusedFacts ==
    ASSUME NEW dense \in Seq(Chunks), NEW sparse \in Seq(Chunks), NEW k \in Nat
    PROVE  /\ Fused(dense, sparse, k) \in Seq(Hits)
           /\ \A e \in ToSet(Fused(dense, sparse, k)) : e.id \in ToSet(dense) \cup ToSet(sparse)
<1> DEFINE rest == Keep(sparse, ToSet(sparse) \ ToSet(dense))
           met == dense \o rest
           score == [c \in ToSet(met) |-> Weight(c, dense) + Weight(c, sparse)]
<1>1. rest \in Seq(Chunks) /\ ToSet(rest) \subseteq ToSet(sparse)
  BY KeepFacts
<1>2. met \in Seq(Chunks) /\ ToSet(met) \subseteq ToSet(dense) \cup ToSet(sparse)
  <2> HIDE DEF rest
  <2>1. met \in Seq(Chunks) /\ ToSet(met) = ToSet(dense) \cup ToSet(rest)
    BY <1>1, ConcatFacts
  <2>2. QED
    BY <1>1, <2>1
<1>3. \A c \in ToSet(met) : score[c] \in Int
  BY WeightType
<1>4. Fused(dense, sparse, k) = First(Sorted(Scored(met, score)), k)
  BY DEF Fused
<1> HIDE DEF met, score
<1>5. QED
  BY <1>2, <1>3, <1>4, BestFacts

LEMMA RetrievedFacts ==
    ASSUME NEW dense \in Seq(Chunks), NEW sparse \in Seq(Chunks), NEW k \in Nat, NEW threshold
    PROVE  /\ Retrieved(dense, sparse, k, threshold) \in Seq(Hits)
           /\ \A e \in ToSet(Retrieved(dense, sparse, k, threshold)) :
                e.id \in ToSet(dense) \cup ToSet(sparse)
<1> DEFINE fused == Fused(dense, sparse, k)
           T == {e \in ToSet(fused) : e.score >= threshold}
<1>1. /\ fused \in Seq(Hits)
      /\ \A e \in ToSet(fused) : e.id \in ToSet(dense) \cup ToSet(sparse)
  BY FusedFacts
<1>2. Retrieved(dense, sparse, k, threshold) = Keep(fused, T)
  BY DEF Retrieved
<1> HIDE DEF fused, T
<1>3. Keep(fused, T) \in Seq(Hits) /\ ToSet(Keep(fused, T)) \subseteq ToSet(fused)
  BY <1>1, KeepFacts
<1>4. QED
  BY <1>1, <1>2, <1>3

\* A finite set of numbers that is not empty has a greatest one.
LEMMA MaxFacts ==
    ASSUME NEW T \in SUBSET Int, IsFiniteSet(T), T # {} PROVE Max(T) \in T
<1> DEFINE A == Ascending(T)
           n == Cardinality(T)
<1>1. /\ n \in Nat /\ A \in [1..n -> T]
      /\ \A j, k \in 1..n : j < k => A[j] < A[k]
      /\ \A x \in T : \E k \in 1..n : A[k] = x
  BY AscendingFacts
<1> HIDE DEF A, n
<1>2. n \in 1..n
  <2>1. PICK k \in 1..n : TRUE
    BY <1>1
  <2>2. QED
    BY <1>1, <2>1
<1>3. ASSUME NEW x \in T PROVE A[n] >= x
  <2>1. PICK k \in 1..n : A[k] = x
    BY <1>1
  <2>2. A[k] \in Int /\ A[n] \in Int
    BY <1>1, <1>2
  <2>3. k = n \/ A[k] < A[n]
    BY <1>1, <1>2
  <2>4. QED
    BY <2>1, <2>2, <2>3
<1>4. \E x \in T : \A y \in T : x >= y
  BY <1>1, <1>2, <1>3
<1>5. QED
  BY <1>4 DEF Max

LEMMA TakenChunks ==
    ASSUME NEW s \in Seq(Chunks), NEW P \in SUBSET (1..Len(s))
    PROVE  Take(s, P) \in Seq(Chunks) /\ ToSet(Take(s, P)) = {s[i] : i \in P}
  BY TakeFacts

LEMMA MergedFacts ==
    ASSUME NEW results \in Seq(Seq(Hits)), NEW k \in Nat
    PROVE  /\ Merged(results, k) \in Seq(Hits)
           /\ \A e \in ToSet(Merged(results, k)) :
                \E i \in 1..Len(results) : \E f \in ToSet(results[i]) : e.id = f.id
<1> DEFINE met == FlattenSeq(results)
           ids == Ids(met)
           first == {i \in Positions(ids) : \A j \in 1..(i - 1) : ids[j] # ids[i]}
           scores(c) == {e.score : e \in {f \in ToSet(met) : f.id = c}}
           peak == [c \in ToSet(ids) |-> Max({e.score : e \in {f \in ToSet(met) : f.id = c}})]
           taken == Take(ids, first)
<1>1. met \in Seq(Hits) /\ ToSet(met) = UNION {ToSet(results[i]) : i \in 1..Len(results)}
  BY FlattenFacts
<1>2. Merged(results, k) = First(Sorted(Scored(taken, peak)), k)
  BY DEF Merged
<1> HIDE DEF met
<1>3. ids \in Seq(Chunks) /\ ToSet(ids) = {e.id : e \in ToSet(met)}
  BY <1>1, IdsFacts
<1>4. first \in SUBSET (1..Len(ids))
  BY DEF Positions
<1> HIDE DEF ids, first
<1> HIDE DEF taken
<1>5. taken \in Seq(Chunks) /\ ToSet(taken) \subseteq ToSet(ids)
  <2>1. taken \in Seq(Chunks) /\ ToSet(taken) = {ids[i] : i \in first}
    <3>1. ids \in Seq(Chunks)
      BY <1>3
    <3>2. Take(ids, first) \in Seq(Chunks) /\ ToSet(Take(ids, first)) = {ids[i] : i \in first}
      BY <3>1, <1>4, TakenChunks
    <3>3. QED
      BY <3>2 DEF taken
  <2>2. \A i \in first : ids[i] \in ToSet(ids)
    BY <1>3, <1>4, SeqFacts
  <2>3. QED
    BY <2>1, <2>2
<1>6. ASSUME NEW c \in ToSet(ids) PROVE peak[c] \in Int
  <2>1. scores(c) \in SUBSET Int /\ scores(c) # {}
    <3>1. ToSet(met) \subseteq Hits
      BY <1>1, SeqFacts
    <3>2. \A e \in Hits : e.score \in Int
      BY DEF Hits
    <3>3. QED
      BY <1>3, <3>1, <3>2
  <2>2. IsFiniteSet(scores(c))
    <3> DEFINE F == {i \in 1..Len(met) : met[i].id = c}
               g == [i \in F |-> met[i].score]
    <3>1. Len(met) \in Nat /\ ToSet(met) = {met[i] : i \in 1..Len(met)}
      BY <1>1, SeqFacts
    <3>2. F \in SUBSET (1..Len(met)) /\ IsFiniteSet(F)
      BY <3>1, PositionsFinite
    <3>3. g \in Surjection(F, scores(c))
      <4>1. scores(c) = {met[i].score : i \in F}
        BY <3>1
      <4> HIDE DEF F
      <4>2. QED
        BY <4>1 DEF Surjection
    <3> HIDE DEF F, g
    <3>4. QED
      BY <3>2, <3>3, FS_Surjection
  <2>3. Max(scores(c)) \in Int
    <3> HIDE DEF scores
    <3>1. QED
      BY <2>1, <2>2, MaxFacts
  <2>4. peak[c] = Max(scores(c))
    OBVIOUS
  <2>5. QED
    BY <2>3, <2>4
<1> HIDE DEF peak
<1>7. /\ Merged(results, k) \in Seq(Hits)
      /\ \A e \in ToSet(Merged(results, k)) : e.id \in ToSet(taken)
  BY <1>2, <1>5, <1>6, BestFacts
<1>8. ASSUME NEW e \in ToSet(Merged(results, k))
      PROVE  \E i \in 1..Len(results) : \E f \in ToSet(results[i]) : e.id = f.id
  <2>1. e.id \in ToSet(ids)
    BY <1>5, <1>7
  <2>2. PICK f \in ToSet(met) : e.id = f.id
    BY <1>3, <2>1
  <2>3. \E i \in 1..Len(results) : f \in ToSet(results[i])
    BY <1>1
  <2>4. QED
    BY <2>2, <2>3
<1>9. QED
  BY <1>7, <1>8

LEMMA DeduplicatedFacts ==
    ASSUME NEW s \in Seq(Chunks)
    PROVE  Deduplicated(s) \in Seq(Chunks) /\ ToSet(Deduplicated(s)) \subseteq ToSet(s)
<1> DEFINE P == {i \in Positions(s) : \A j \in 1..(i - 1) : ~Neighbours(s[j], s[i])}
<1>1. P \in SUBSET (1..Len(s)) /\ Deduplicated(s) = Take(s, P)
  BY DEF Positions, Deduplicated
<1> HIDE DEF P
<1>2. Take(s, P) \in Seq(Chunks) /\ ToSet(Take(s, P)) = {s[i] : i \in P}
  BY <1>1, TakeFacts
<1>3. \A i \in P : s[i] \in ToSet(s)
  BY <1>1, SeqFacts
<1>4. QED
  BY <1>1, <1>2, <1>3

LEMMA RerankedFacts ==
    ASSUME NEW q \in Questions, NEW s \in Seq(Chunks), NEW k \in Nat
    PROVE  LET reranked == Reranked(q, s, k)
           IN  /\ reranked \in Seq(Chunks) /\ ToSet(reranked) \subseteq ToSet(s)
               /\ Len(reranked) <= k /\ Len(reranked) <= Len(s)
<1> DEFINE scored == Scored(s, RerankScore[q])
           ids == Ids(Sorted(scored))
<1>1. \A c \in ToSet(s) : RerankScore[q][c] \in Int
  BY RetrievalAssumption, SeqFacts
<1>2. /\ scored \in Seq(Hits) /\ Len(scored) = Len(s) /\ Len(s) \in Nat
      /\ \A i \in 1..Len(s) : scored[i].place = i
      /\ \A e \in ToSet(scored) : e.id \in ToSet(s)
  BY <1>1, ScoredFacts
<1> HIDE DEF scored
<1>3. /\ Sorted(scored) \in Seq(Hits) /\ Len(Sorted(scored)) = Len(s)
      /\ ToSet(Sorted(scored)) \subseteq ToSet(scored)
  BY <1>2, SortedFacts
<1>4. ids \in Seq(Chunks) /\ Len(ids) = Len(s) /\ ToSet(ids) = {e.id : e \in ToSet(Sorted(scored))}
  BY <1>3, IdsFacts
<1>5. ToSet(ids) \subseteq ToSet(s)
  BY <1>2, <1>3, <1>4
<1> HIDE DEF ids
<1>6. Reranked(q, s, k) = First(ids, k)
  BY DEF Reranked, ids, scored
<1>7. /\ First(ids, k) \in Seq(Chunks) /\ ToSet(First(ids, k)) \subseteq ToSet(ids)
      /\ Len(First(ids, k)) <= k /\ Len(First(ids, k)) <= Len(ids)
  BY <1>4, FirstFacts
<1>8. QED
  BY <1>4, <1>5, <1>6, <1>7

-----------------------------------------------------------------------------
(* The loop of the prompt. *)

Prompts == [cited : Seq(Chunks), used : Nat, full : BOOLEAN]

\* What the loop of PromptBuilder.build() has done after i of the chunks.
PromptLoop(available, s, i, p) ==
    /\ p \in Prompts
    /\ Len(p.cited) <= i
    /\ \A j \in 1..Len(p.cited) : p.cited[j] = s[j]
    /\ p.used <= available
    /\ ~p.full => Len(p.cited) = i
    /\ p.full => p.used + Fragment > available
    /\ i = 0 => ~p.full /\ p.used = 0
    /\ i > 0 => Len(p.cited) > 0

PromptTurn(available, p, c) == Include(p, c, available)

Loop == INSTANCE FoldProofs WITH Op <- PromptTurn, Inv <- PromptLoop

LEMMA IncludeFacts ==
    ASSUME NEW available \in Int, available >= Floor, NEW s \in Seq(Chunks), NEW i \in 1..Len(s),
           NEW p, PromptLoop(available, s, i - 1, p)
    PROVE  PromptLoop(available, s, i, Include(p, s[i], available))
<1> DEFINE c == s[i]
           t == Tokens[c]
           u == p.used
           left == available - u
           size == IF t <= left THEN t ELSE Trimmed(c, left)
           q == Include(p, c, available)
           n == Len(p.cited)
<1>1. /\ c \in Chunks /\ t \in Nat /\ WordLoss[c] \in Nat
      /\ i \in Nat /\ Len(s) \in Nat /\ i > 0
  BY RetrievalAssumption
<1>2. /\ p \in Prompts
      /\ p.cited \in Seq(Chunks) /\ u \in Nat /\ p.full \in BOOLEAN /\ n \in Nat
  BY DEF PromptLoop, Prompts
<1>3. /\ n <= i - 1 /\ u <= available
      /\ \A j \in 1..n : p.cited[j] = s[j]
      /\ ~p.full => n = i - 1
      /\ p.full => u + Fragment > available
      /\ i - 1 = 0 => ~p.full /\ u = 0
      /\ i - 1 > 0 => n > 0
  BY DEF PromptLoop
<1>4. q = IF p.full THEN p
          ELSE IF t > left /\ left < Fragment THEN [p EXCEPT !.full = TRUE]
          ELSE [cited |-> Append(p.cited, c), used |-> u + size, full |-> u + size >= available]
  BY DEF Include
<1> HIDE DEF q, t, u, n
<1>5. CASE p.full
  <2>1. q = p
    BY <1>4, <1>5
  <2>2. i - 1 > 0
    BY <1>1, <1>3, <1>5
  <2>3. n > 0 /\ n <= i
    BY <1>1, <1>2, <1>3, <2>2
  <2>4. PromptLoop(available, s, i, p)
    BY <1>1, <1>2, <1>3, <1>5, <2>3 DEF PromptLoop, n, u
  <2>5. QED
    BY <2>1, <2>4 DEF q
<1>6. CASE ~p.full /\ t > left /\ left < Fragment
  <2>1. q = [p EXCEPT !.full = TRUE]
    BY <1>4, <1>6
  <2>2. q \in Prompts /\ q.cited = p.cited /\ q.used = p.used /\ q.full = TRUE
    BY <1>2, <2>1 DEF Prompts
  <2>3. u + Fragment > available
    BY <1>2, <1>6 DEF Fragment
  <2>4. i - 1 # 0
    BY <1>1, <1>2, <1>3, <2>3 DEF Floor, Fragment
  <2>5. n > 0 /\ n <= i
    BY <1>1, <1>2, <1>3, <2>4
  <2>6. PromptLoop(available, s, i, q)
    BY <1>1, <1>2, <1>3, <2>2, <2>3, <2>5 DEF PromptLoop, n, u
  <2>7. QED
    BY <2>6 DEF q
<1>7. CASE ~p.full /\ ~(t > left /\ left < Fragment)
  <2> DEFINE enough == u + size >= available
  <2>1. q = [cited |-> Append(p.cited, c), used |-> u + size, full |-> enough]
    BY <1>4, <1>7
  <2>2. size \in Nat /\ u + size <= available
    BY <1>1, <1>2, <1>3, <1>7 DEF Trimmed
  <2> HIDE DEF size
  <2>3. /\ Append(p.cited, c) \in Seq(Chunks) /\ Len(Append(p.cited, c)) = i
        /\ \A j \in 1..i : Append(p.cited, c)[j] = s[j]
    BY <1>1, <1>2, <1>3, <1>7 DEF n
  <2>4. u + size \in Nat /\ (enough => u + size + Fragment > available)
        /\ enough \in BOOLEAN
    BY <1>2, <2>2 DEF Fragment
  <2> HIDE DEF enough
  <2>5. /\ q \in Prompts /\ q.cited = Append(p.cited, c) /\ q.used = u + size /\ q.full = enough
    BY <2>1, <2>3, <2>4 DEF Prompts
  <2>6. PromptLoop(available, s, i, q)
    BY <1>1, <2>2, <2>3, <2>4, <2>5 DEF PromptLoop
  <2>7. QED
    BY <2>6 DEF q
<1>8. QED
  BY <1>5, <1>6, <1>7

LEMMA PromptFacts ==
    ASSUME NEW s \in Seq(Chunks), NEW available \in Int, available >= Floor
    PROVE  LET p == Prompt(s, available)
           IN  /\ p.cited \in Seq(Chunks) /\ ToSet(p.cited) \subseteq ToSet(s)
               /\ p.cited = First(s, Len(p.cited))
               /\ s # <<>> => p.cited # <<>>
               /\ p.used <= available
               /\ Len(p.cited) < Len(s) => p.used + Fragment > available
<1> DEFINE base == [cited |-> <<>>, used |-> 0, full |-> FALSE]
           p == Prompt(s, available)
           n == Len(p.cited)
<1>1. p = Loop!Folded(available, base, s)
  BY DEF Prompt, Loop!Folded, PromptTurn, FoldLeft, Loop!FoldLeft, MapThenFoldSet,
         Loop!MapThenFoldSet, Max, Loop!Max
<1>2. PromptLoop(available, s, 0, base)
  BY DEF PromptLoop, Prompts, Floor
<1>3. \A i \in 1..Len(s) : \A v :
         PromptLoop(available, s, i - 1, v) => PromptLoop(available, s, i, PromptTurn(available, v, s[i]))
  BY IncludeFacts DEF PromptTurn
<1>4. Len(s) \in Nat /\ DOMAIN s = 1..Len(s)
  BY SeqFacts
<1> HIDE DEF base
<1>5. PromptLoop(available, s, Len(s), Loop!Folded(available, base, s))
  BY <1>2, <1>3, <1>4, Loop!LoopRule
<1>6. PromptLoop(available, s, Len(s), p)
  BY <1>1, <1>5
<1> HIDE DEF p
<1>7. /\ p.cited \in Seq(Chunks) /\ n \in Nat /\ n <= Len(s) /\ p.used \in Nat
      /\ \A j \in 1..n : p.cited[j] = s[j]
  BY <1>6 DEF PromptLoop, Prompts
<1>8. p.cited = First(s, n)
  <2>1. /\ First(s, n) \in Seq(Chunks) /\ Len(First(s, n)) = n
        /\ \A j \in 1..n : First(s, n)[j] = s[j]
    BY <1>7, <1>4, FirstFacts DEF Least
  <2>2. QED
    BY <1>7, <2>1, SeqsEqual
<1>9. ToSet(p.cited) \subseteq ToSet(s)
  BY <1>7, <1>8, FirstFacts
<1>10. s # <<>> => p.cited # <<>>
  BY <1>4, <1>6, <1>7 DEF PromptLoop
<1>11. n < Len(s) => p.used + Fragment > available
  BY <1>6 DEF PromptLoop
<1>12. QED
  BY <1>6, <1>7, <1>8, <1>9, <1>10, <1>11 DEF PromptLoop, p

-----------------------------------------------------------------------------
(* Where a request stands with its work. *)

\* What the searches of one sub-query have come to.
Results == [dense : Seq(Chunks) \cup {None}, sparse : Seq(Chunks) \cup {None},
            result : Seq(Hits) \cup {None}]

\* The chunks among it.
Met(f) ==
    {c \in Chunks : \/ f.dense \in Seq(Chunks) /\ c \in ToSet(f.dense)
                    \/ f.sparse \in Seq(Chunks) /\ c \in ToSet(f.sparse)
                    \/ f.result \in Seq(Hits) /\ \E e \in ToSet(f.result) : e.id = c}

Gathered(r) == UNION {Met(found[r][i]) : i \in 1..Len(found[r])}

WorkTypes ==
    /\ searchable \in SUBSET Chunks
    /\ progress \in [Versions -> Index!Progress]
    /\ blurred \in SUBSET Docs
    /\ sub \in [Live -> Seq(Questions)]
    /\ found \in [Live -> Seq(Results)]
    /\ final \in [Live -> Seq(Chunks)]
    /\ cites \in [Live -> Seq(Chunks)]
    /\ reported \in [Live -> [sub : Seq(Questions), reranked : BOOLEAN]]
    /\ last \in [sub : Seq(Questions), reranked : BOOLEAN]
    /\ changed \in [Live -> SUBSET Docs]
    /\ overwritten \in SUBSET Live

\* A request searches for all its sub-queries, and goes on with all results.
Searches ==
    \A r \in Live :
        /\ pc[r] \in {"search", "expand"} => Len(found[r]) = Len(sub[r])
        /\ pc[r] = "expand" => \A i \in 1..Len(found[r]) : found[r][i].result \in Seq(Hits)

Filtered ==
    \A r \in Live : \A c \in Gathered(r) \cup ToSet(cites[r]) : Matches(c, Ask[r].filter)

\* What a request has found so far is searchable still, or its document has
\* changed since it began to search.
Current ==
    \A r \in Live : pc[r] = "search" => \A c \in Gathered(r) :
        c \in searchable \/ Payload[c].doc \in changed[r]

\* What it found of a document is of one version and of failed stores, or the
\* document has changed, or its stores have overlapped.
OneVersion(r, S) ==
    \A c, e \in S :
        VersionOf[c] # VersionOf[e] /\ Payload[c].doc = Payload[e].doc =>
            \/ Payload[c].doc \in changed[r] \cup blurred
            \/ Index!Failed(VersionOf[c]) \/ Index!Failed(VersionOf[e])

Consistent == \A r \in Live : OneVersion(r, Gathered(r)) /\ OneVersion(r, ToSet(cites[r]))

\* Until a request reads them back the engine's _last_sub_queries are its own,
\* or it is known to have lost them.
Remembers ==
    \A r \in Live :
        pc[r] \in {"search", "expand"} => last.sub = sub[r] \/ r \in overwritten

Prompted ==
    \A r \in Live : final[r] # <<>> =>
        cites[r] = Prompt(final[r], Available(Ask[r].context, Ask[r].asked)).cited

WorkInv ==
    /\ WorkTypes /\ Searches /\ Index!Orderly
    /\ Filtered /\ Current /\ Consistent
    /\ Remembers /\ ReportsItsOwn /\ Prompted

\* The answers in the cache are answers, and respect the filter they were made
\* under; a look-up that hits has one.
CachedAnswers ==
    \A r \in Requests :
        /\ {entry[r], responses[r], served[r]} \subseteq Answers \cup {None}
        /\ entry[r] # None => \A c \in ToSet(entry[r].cites) : Matches(c, Ask[r].filter)
        /\ lookup[r] \in {"meta", "count", "hit"} => served[r] # None

-----------------------------------------------------------------------------
(* The steps, as far as this invariant can tell them apart. *)

Quiet ==
    /\ UNCHANGED <<searchable, progress, blurred, sub, found, final, cites, reported, last, changed,
                   overwritten>>
    /\ \A r \in Live :
          /\ pc'[r] \in {"search", "expand"} => pc[r] = pc'[r]
          /\ pc'[r] \in {"generate", "check", "deliver"} =>
                pc[r] \in {"generate", "check", "deliver"}

EndsAlone(r) == End(r) /\ UNCHANGED <<searchable, progress, blurred, last>>

\* A step that moves one request to a phase, and nothing else of all this.
LEMMA MoveIsQuiet ==
    ASSUME StandInv, NEW r \in Live, NEW p,
           UNCHANGED <<searchable, progress, blurred, sub, found, final, cites, reported, last, changed,
                       overwritten>>,
           pc' = [pc EXCEPT ![r] = p], p \notin {"search", "expand"},
           p \in {"generate", "check", "deliver"} => pc[r] \in {"generate", "check", "deliver"}
    PROVE  Quiet
  BY DEF Quiet, StandInv

LEMMA RequestShape ==
    ASSUME StandInv, NEW r \in Live, Step(r) \/ Disturbance(r)
    PROVE  \/ Quiet \/ Decompose(r) \/ ExpandAndBuild(r) \/ EndsAlone(r)
           \/ \E i \in Positions(sub[r]) : \E kind \in {"dense", "sparse"} : SearchIndex(r, i, kind)
<1> USE DEF indexVars, own, shared, Goto, EndsAlone
<1>1. CASE CheckCache(r)
  <2>1. AfterLookup(r) \in {"decompose", "over", "lookup"}
    BY DEF AfterLookup
  <2>2. QED
    BY <1>1, <2>1, MoveIsQuiet DEF CheckCache
<1>2. CASE SkipCache(r)
  BY <1>2, MoveIsQuiet DEF SkipCache
<1>3. CASE CheckCacheFails(r)
  BY <1>3, MoveIsQuiet DEF CheckCacheFails
<1>4. CASE Delta(r)
  BY <1>4 DEF Delta, Generated, Quiet
<1>5. CASE Stop(r) \/ Exhausted(r) \/ GenerationFails(r)
  <2>1. AfterGeneration(r) \in {"check", "deliver"}
    BY DEF AfterGeneration
  <2>2. pc[r] = "generate" /\ UNCHANGED <<searchable, progress, blurred, sub, found, final, cites, reported,
                                          last, changed, overwritten>>
    BY <1>5 DEF Stop, Exhausted, GenerationFails, Generated
  <2>3. pc' = [pc EXCEPT ![r] = AfterGeneration(r)]
    BY <1>5 DEF Stop, Exhausted, GenerationFails
  <2>4. QED
    BY <2>1, <2>2, <2>3, MoveIsQuiet
<1>6. CASE CheckGroundedness(r)
  BY <1>6, MoveIsQuiet DEF CheckGroundedness
<1>7. CASE Deliver(r)
  BY <1>7, MoveIsQuiet DEF Deliver
<1>8. CASE StoreInCache(r)
  BY <1>8 DEF StoreInCache, Quiet
<1>9. CASE StoreFails(r) \/ Disconnect(r) \/ RetrievalFails(r)
  BY <1>9 DEF StoreFails, Disconnect, RetrievalFails
<1>10. QED
  BY <1>1, <1>2, <1>3, <1>4, <1>5, <1>6, <1>7, <1>8, <1>9 DEF Step, Disturbance

LEMMA StepShape ==
    ASSUME StandInv, [Next]_vars
    PROVE  \/ Quiet \/ \E v \in Versions : ChangeIndex(v)
           \/ \E r \in Live :
                 \/ Decompose(r) \/ ExpandAndBuild(r) \/ EndsAlone(r)
                 \/ \E i \in Positions(sub[r]) : \E kind \in {"dense", "sparse"} :
                       SearchIndex(r, i, kind)
<1>1. CASE Sweep \/ ExpireOrSweep \/ UNCHANGED vars
  BY <1>1 DEF Sweep, ExpireOrSweep, vars, own, shared, indexVars, Quiet
<1>2. ASSUME NEW r \in Live, Step(r) \/ Disturbance(r)
      PROVE  \/ Quiet
             \/ Decompose(r) \/ ExpandAndBuild(r) \/ EndsAlone(r)
             \/ \E i \in Positions(sub[r]) : \E kind \in {"dense", "sparse"} :
                   SearchIndex(r, i, kind)
  BY <1>2, RequestShape
<1>3. QED
  BY <1>1, <1>2 DEF Next, Event

-----------------------------------------------------------------------------
(* What the searches and the build of the prompt compute. *)

\* The places where nothing has been found yet.
LEMMA NothingFacts ==
    Nothing \in Results /\ Met(Nothing) = {}
  BY EngineAssumption DEF Nothing, Results, Met

\* One more search adds no chunk but those it returned.
LEMMA SearchAdds ==
    ASSUME NEW f \in Results, NEW kind \in {"dense", "sparse"}, NEW hits \in Seq(Chunks),
           NEW k \in Nat, NEW threshold
    PROVE  LET both == [f EXCEPT ![kind] = hits]
               whole == both.dense # None /\ both.sparse # None
               got == Retrieved(both.dense, both.sparse, k, threshold)
               g == IF whole THEN [Nothing EXCEPT !.dense = <<>>, !.sparse = <<>>, !.result = got]
                    ELSE both
           IN  /\ g \in Results /\ Met(g) \subseteq Met(f) \cup ToSet(hits)
               /\ whole => g.result \in Seq(Hits)
<1> DEFINE both == [f EXCEPT ![kind] = hits]
           whole == both.dense # None /\ both.sparse # None
           got == Retrieved(both.dense, both.sparse, k, threshold)
           g == IF whole THEN [Nothing EXCEPT !.dense = <<>>, !.sparse = <<>>, !.result = got]
                ELSE both
<1>1. /\ both \in Results /\ both.result = f.result
      /\ both.dense = f.dense \/ both.dense = hits
      /\ both.sparse = f.sparse \/ both.sparse = hits
  BY DEF Results
<1>2. CASE ~whole
  <2>1. g = both
    BY <1>2
  <2> HIDE DEF g, both
  <2>2. Met(both) \subseteq Met(f) \cup ToSet(hits)
    BY <1>1 DEF Met
  <2>3. QED
    BY <1>1, <1>2, <2>1, <2>2 DEF g, both
<1>3. CASE whole
  <2> HIDE DEF both
  <2>1. both.dense \in Seq(Chunks) /\ both.sparse \in Seq(Chunks)
    BY <1>1, <1>3 DEF Results
  <2>2. /\ got \in Seq(Hits)
        /\ \A e \in ToSet(got) : e.id \in ToSet(both.dense) \cup ToSet(both.sparse)
    BY <2>1, RetrievedFacts
  <2>3. g = [dense |-> <<>>, sparse |-> <<>>, result |-> got]
    BY <1>3 DEF Nothing
  <2> HIDE DEF got
  <2>4. g \in Results /\ g.dense = <<>> /\ g.sparse = <<>> /\ g.result = got
    <3> HIDE DEF g
    <3>1. QED
      BY <2>2, <2>3 DEF Results
  <2> HIDE DEF g
  <2>5. ASSUME NEW c \in Met(g) PROVE c \in Met(f) \cup ToSet(hits)
    <3>1. c \in Chunks /\ c \notin ToSet(<<>>)
      BY DEF Met, ToSet
    <3>2. \E e \in ToSet(got) : e.id = c
      BY <2>4, <3>1 DEF Met
    <3>3. c \in ToSet(both.dense) \/ c \in ToSet(both.sparse)
      BY <2>2, <3>2
    <3>4. QED
      BY <1>1, <2>1, <3>1, <3>3 DEF Met
  <2>6. QED
    BY <1>3, <2>2, <2>4, <2>5 DEF g, both, got
<1>4. QED
  BY <1>2, <1>3

\* The candidates are chunks that were found.
LEMMA CandidatesFacts ==
    ASSUME NEW r \in Live, found[r] \in Seq(Results),
           \A i \in 1..Len(found[r]) : found[r][i].result \in Seq(Hits),
           Prefetch(r) \in Nat
    PROVE  Candidates(r) \in Seq(Chunks) /\ ToSet(Candidates(r)) \subseteq Gathered(r)
<1> DEFINE n == Len(found[r])
           results == [i \in Positions(found[r]) |-> found[r][i].result]
           hits == IF Len(results) = 1 THEN results[1] ELSE Merged(results, Prefetch(r))
<1>1. n \in Nat /\ results = [i \in 1..n |-> found[r][i].result]
  BY DEF Positions
<1>2. results \in Seq(Seq(Hits)) /\ Len(results) = n
      /\ \A i \in 1..n : results[i] = found[r][i].result
  BY <1>1
<1> HIDE DEF results, n
<1>3. hits \in Seq(Hits)
      /\ \A e \in ToSet(hits) : \E i \in 1..n : \E f \in ToSet(results[i]) : e.id = f.id
  <2>1. CASE n = 1
    BY <1>2, <2>1
  <2>2. CASE n # 1
    BY <1>2, <2>2, MergedFacts
  <2>3. QED
    BY <2>1, <2>2
<1>4. Candidates(r) = Deduplicated(Ids(hits))
  BY DEF Candidates, results
<1> HIDE DEF hits
<1>5. Ids(hits) \in Seq(Chunks) /\ ToSet(Ids(hits)) = {e.id : e \in ToSet(hits)}
  BY <1>3, IdsFacts
<1>6. Candidates(r) \in Seq(Chunks) /\ ToSet(Candidates(r)) \subseteq ToSet(Ids(hits))
  BY <1>4, <1>5, DeduplicatedFacts
<1>7. ASSUME NEW c \in ToSet(Candidates(r)) PROVE c \in Gathered(r)
  <2>1. PICK i \in 1..n : \E f \in ToSet(results[i]) : f.id = c
    BY <1>3, <1>5, <1>6, <1>7
  <2>2. results[i] = found[r][i].result /\ found[r][i].result \in Seq(Hits)
    BY <1>2 DEF n
  <2>3. c \in Chunks
    BY <1>6, <1>7, SeqFacts
  <2>4. c \in Met(found[r][i])
    BY <2>1, <2>2, <2>3 DEF Met
  <2>5. QED
    BY <2>4 DEF Gathered, n
<1>8. QED
  BY <1>6, <1>7

-----------------------------------------------------------------------------
(* The invariant of the requests' work. *)

LEMMA AskFacts ==
    ASSUME NEW r \in Live
    PROVE  /\ Ask[r].top_k \in Nat \ {0} /\ Prefetch(r) \in Nat
           /\ Ask[r].question \in Questions /\ Ask[r].others \subseteq Seq(Questions)
           /\ Ask[r].use_reranker \in BOOLEAN
           /\ Available(Ask[r].context, Ask[r].asked) \in Int
           /\ Available(Ask[r].context, Ask[r].asked) >= Floor
<1>1. Ask[r] \in Requested
  BY EngineAssumption DEF Live
<1>2. /\ Ask[r].top_k \in Nat \ {0} /\ Ask[r].question \in Questions
      /\ Ask[r].others \subseteq Seq(Questions) /\ Ask[r].use_reranker \in BOOLEAN
      /\ Ask[r].context \in Nat /\ Ask[r].asked \in Nat
  BY <1>1 DEF Requested
<1>3. QED
  BY <1>2 DEF Prefetch, RerankPrefetch, Available, Floor, Reserved

LEMMA WorkInit == Init => WorkInv
<1> SUFFICES ASSUME Init PROVE WorkInv
  OBVIOUS
<1>1. WorkTypes
  BY EngineAssumption DEF Init, WorkTypes, NothingReported
<1>2. \A r \in Live : Gathered(r) = {} /\ ToSet(cites[r]) = {} /\ final[r] = <<>>
  BY DEF Init, Gathered, ToSet
<1>3. \A r \in Live : pc[r] = "new"
  BY DEF Init
<1>4. Index!Orderly
  BY DEF Init
<1>5. QED
  BY <1>1, <1>2, <1>3, <1>4
  DEF WorkInv, Searches, Filtered, Current, Consistent, OneVersion, Remembers, ReportsItsOwn,
      Prompted

\* A step that leaves the index as it is.
LEMMA OrderlyStays ==
    ASSUME Index!Orderly, UNCHANGED <<searchable, progress, blurred>> PROVE Index!Orderly'
  BY DEF Index!Orderly, Index!NewIsHidden, Index!OneStore, Index!InOrder,
     Index!SideBySideAfterFailure, Index!Siblings, Index!Failed

LEMMA QuietWorks ==
    ASSUME StandInv, WorkInv, Quiet PROVE WorkInv'
<1> USE DEF WorkInv, Quiet
<1>1. \A r \in Live : Gathered(r)' = Gathered(r)
  BY DEF Gathered
<1>2. WorkTypes' /\ Index!Orderly'
  BY OrderlyStays DEF WorkTypes
<1>3. Searches' /\ Remembers' /\ Prompted'
  BY DEF Searches, Remembers, Prompted
<1>4. Filtered' /\ Current' /\ Consistent'
  BY <1>1 DEF Filtered, Current, Consistent, OneVersion, Index!Failed
<1>5. ReportsItsOwn'
  <2>1. ASSUME NEW r \in Live, Ask[r].mode = "query", pc'[r] \in {"generate", "check", "deliver"}
        PROVE  /\ reported'[r].sub # sub'[r] => r \in overwritten'
               /\ reported'[r].reranked => Ask[r].use_reranker
               /\ Ask[r].use_reranker /\ Len(final'[r]) > 1 => reported'[r].reranked
               /\ Len(final'[r]) <= Ask[r].top_k
    <3>1. pc[r] \in {"generate", "check", "deliver"}
      BY <2>1
    <3>2. /\ reported[r].sub # sub[r] => r \in overwritten
          /\ reported[r].reranked => Ask[r].use_reranker
          /\ Ask[r].use_reranker /\ Len(final[r]) > 1 => reported[r].reranked
          /\ Len(final[r]) <= Ask[r].top_k
      BY <2>1, <3>1 DEF ReportsItsOwn
    <3>3. QED
      BY <3>2
  <2>2. QED
    BY <2>1 DEF ReportsItsOwn
<1>6. QED
  BY <1>2, <1>3, <1>4, <1>5

LEMMA EndWorks ==
    ASSUME StandInv, WorkInv, NEW r \in Live, EndsAlone(r) PROVE WorkInv'
<1> USE DEF WorkInv, EndsAlone
<1>1. /\ pc' = [pc EXCEPT ![r] = "over"] /\ DOMAIN pc = Live
      /\ sub' = [sub EXCEPT ![r] = <<>>] /\ found' = [found EXCEPT ![r] = <<>>]
      /\ final' = [final EXCEPT ![r] = <<>>] /\ cites' = [cites EXCEPT ![r] = <<>>]
      /\ reported' = [reported EXCEPT ![r] = NothingReported]
      /\ changed' = [changed EXCEPT ![r] = {}] /\ overwritten' = overwritten \ {r}
      /\ UNCHANGED <<searchable, progress, blurred, last>>
  BY DEF End, StandInv
<1>2. WorkTypes' /\ Index!Orderly'
  BY <1>1, OrderlyStays DEF WorkTypes, NothingReported
<1>3. \A q \in Live \ {r} : UNCHANGED <<pc[q], sub[q], found[q], final[q], cites[q], reported[q],
                                       changed[q], Gathered(q), q \in overwritten>>
  BY <1>1 DEF WorkTypes, Gathered
<1>4. /\ pc'[r] = "over" /\ Gathered(r)' = {} /\ ToSet(cites'[r]) = {}
      /\ final'[r] = <<>>
  BY <1>1 DEF WorkTypes, Gathered, ToSet
<1>5. Searches' /\ Remembers' /\ Prompted'
  BY <1>1, <1>3, <1>4 DEF Searches, Remembers, Prompted
<1>6. Filtered' /\ Current' /\ Consistent'
  <2>1. \A q \in Live : Gathered(q)' = Gathered(q) \/ Gathered(q)' = {}
    BY <1>3, <1>4
  <2>2. \A q \in Live : ToSet(cites'[q]) = ToSet(cites[q]) \/ ToSet(cites'[q]) = {}
    BY <1>3, <1>4
  <2>3. \A q \in Live : changed'[q] = changed[q] \/ (Gathered(q)' = {} /\ ToSet(cites'[q]) = {})
    BY <1>3, <1>4
  <2>4. \A q \in Live : pc'[q] = "search" => pc[q] = "search"
    BY <1>3, <1>4
  <2>5. Filtered'
    BY <2>1, <2>2 DEF Filtered
  <2>6. Current'
    BY <1>1, <2>1, <2>3, <2>4 DEF Current
  <2>7. Consistent'
    <3>1. \A v : Index!Failed(v)' <=> Index!Failed(v)
      BY <1>1 DEF Index!Failed
    <3>2. ASSUME NEW q \in Live
          PROVE  OneVersion(q, Gathered(q))' /\ OneVersion(q, ToSet(cites[q]))'
      <4>1. CASE Gathered(q)' = {} /\ ToSet(cites'[q]) = {}
        BY <4>1 DEF OneVersion
      <4>2. CASE changed'[q] = changed[q]
        BY <1>1, <2>1, <2>2, <3>1, <4>2 DEF Consistent, OneVersion
      <4>3. QED
        BY <2>3, <4>1, <4>2
    <3>3. QED
      BY <3>2 DEF Consistent
  <2>8. QED
    BY <2>5, <2>6, <2>7
<1>7. ReportsItsOwn'
  BY <1>1, <1>3, <1>4 DEF ReportsItsOwn
<1>8. QED
  BY <1>2, <1>5, <1>6, <1>7

\* The promises of the storage layer, step by step: what they come to holds again.
LEMMA IndexStays ==
    ASSUME Index!Orderly, progress \in [Versions -> Index!Progress], NEW v \in Versions,
           Index!StoreStep(v)
    PROVE  /\ Index!Orderly'
           /\ progress' \in [Versions -> Index!Progress]
           /\ blurred \subseteq blurred' /\ blurred' \subseteq blurred \cup {DocOf[v]}
           /\ \A w \in Versions : Index!Failed(w) => Index!Failed(w)'
           /\ \A c : c \in searchable' /\ c \notin searchable => c \in ChunksOf[v]
           /\ \A c : c \in searchable /\ c \notin searchable' =>
                  \E w \in Versions : DocOf[w] = DocOf[v] /\ c \in ChunksOf[w]
<1> USE DEF Index!Orderly, Index!Progress, Index!Failed
<1>1. \A w \in Versions : \A c \in ChunksOf[w] : \A x \in Versions : c \in ChunksOf[x] => x = w
  BY DEF ChunksOf
<1>2. CASE Index!Start(v)
  <2>1. /\ progress[v] = "new" /\ progress' = [progress EXCEPT ![v] = "storing"]
        /\ searchable' = searchable
        /\ \/ blurred' = blurred \cup {DocOf[v]}
           \/ /\ blurred' = blurred
              /\ \A w \in Versions \ {v} : DocOf[w] = DocOf[v] => progress[w] # "storing"
    BY <1>2 DEF Index!Start, Index!Siblings
  <2>2. Index!NewIsHidden'
    BY <2>1 DEF Index!NewIsHidden
  <2>3. Index!OneStore'
    BY <2>1 DEF Index!OneStore, Index!InOrder, Index!Siblings
  <2>4. Index!SideBySideAfterFailure'
    BY <2>1 DEF Index!SideBySideAfterFailure, Index!Siblings
  <2>5. QED
    BY <2>1, <2>2, <2>3, <2>4
<1>3. CASE Index!Finish(v) \/ Index!Abandon(v)
  <2>1. /\ progress[v] = "storing"
        /\ \E p \in {"finished", "failed"} : progress' = [progress EXCEPT ![v] = p]
        /\ searchable' = searchable /\ blurred' = blurred
    BY <1>3 DEF Index!Finish, Index!Abandon
  <2>2. Index!NewIsHidden' /\ Index!OneStore'
    BY <2>1 DEF Index!NewIsHidden, Index!OneStore, Index!InOrder, Index!Siblings
  <2>3. Index!SideBySideAfterFailure'
    BY <2>1 DEF Index!SideBySideAfterFailure, Index!Siblings
  <2>4. QED
    BY <2>1, <2>2, <2>3
<1>4. ASSUME Index!CarriedOut(v)
      PROVE  /\ progress[v] \in {"storing", "failed"}
             /\ progress' = [progress EXCEPT ![v] = IF progress[v] = "failed" THEN "landed"
                                                    ELSE progress[v]]
             /\ blurred' = blurred /\ progress' \in [Versions -> Index!Progress]
             /\ \A w \in Versions : Index!Failed(w) <=> Index!Failed(w)'
             /\ \A w \in Versions : progress'[w] = "storing" <=> progress[w] = "storing"
             /\ \A w \in Versions : progress'[w] = "new" <=> progress[w] = "new"
  BY <1>4 DEF Index!CarriedOut
<1>5. ASSUME NEW batch \in SUBSET (ChunksOf[v] \ searchable), Index!Add(v, batch)
      PROVE  /\ Index!Orderly'
             /\ \A c : c \in searchable' /\ c \notin searchable => c \in ChunksOf[v]
  <2>1. Index!CarriedOut(v) /\ searchable' = searchable \cup batch
    BY <1>5 DEF Index!Add
  <2>2. Index!OneStore'
    BY <1>4, <2>1 DEF Index!OneStore, Index!InOrder, Index!Siblings
  <2>3. \A w \in Versions \ {v} : ChunksOf[w] \cap searchable' = ChunksOf[w] \cap searchable
    BY <1>1, <2>1
  <2>4. Index!NewIsHidden'
    BY <1>4, <2>1, <2>3 DEF Index!NewIsHidden
  <2>5. ASSUME NEW w \in Versions \ {v}, DocOf[w] = DocOf[v], DocOf[v] \notin blurred,
               ChunksOf[w] \cap searchable # {}
        PROVE  Index!Failed(v) \/ Index!Failed(w)
    <3>1. CASE progress[v] = "failed"
      BY <3>1
    <3>2. CASE progress[v] = "storing"
      <4>1. Index!InOrder(v) /\ w \in Index!Siblings(v)
        BY <2>5, <3>2 DEF Index!InOrder, Index!Siblings
      <4>2. searchable \cap Index!ChunksOfAll(Index!FinishedSiblings(v)) = {}
        BY <1>5, <4>1 DEF Index!Add
      <4>3. progress[w] # "finished"
        BY <2>5, <4>1, <4>2 DEF Index!ChunksOfAll, Index!FinishedSiblings
      <4>4. progress[w] # "storing"
        BY <4>1 DEF Index!OneStore
      <4>5. progress[w] # "new"
        BY <2>5 DEF Index!NewIsHidden
      <4>6. QED
        BY <4>3, <4>4, <4>5
    <3>3. QED
      BY <1>4, <2>1, <3>1, <3>2
  <2>6. Index!SideBySideAfterFailure'
    <3> SUFFICES ASSUME NEW x \in Versions, NEW w \in Versions \ {x}, DocOf[w] = DocOf[x],
                        DocOf[x] \notin blurred,
                        ChunksOf[x] \cap searchable' # {}, ChunksOf[w] \cap searchable' # {}
                 PROVE  Index!Failed(x) \/ Index!Failed(w)
      BY <1>4, <2>1 DEF Index!SideBySideAfterFailure, Index!Siblings
    <3>1. CASE x = v
      BY <2>3, <2>5, <3>1
    <3>2. CASE w = v
      BY <2>3, <2>5, <3>2
    <3>3. CASE x # v /\ w # v
      BY <2>3, <3>3 DEF Index!SideBySideAfterFailure, Index!Siblings
    <3>4. QED
      BY <3>1, <3>2, <3>3
  <2>7. QED
    BY <2>1, <2>2, <2>4, <2>6
<1>6. ASSUME NEW old \in SUBSET Index!Siblings(v), Index!Remove(v, old)
      PROVE  /\ Index!Orderly'
             /\ searchable' \subseteq searchable
             /\ \A c : c \in searchable /\ c \notin searchable' =>
                    \E w \in Versions : DocOf[w] = DocOf[v] /\ c \in ChunksOf[w]
  <2>1. Index!CarriedOut(v) /\ searchable' = searchable \ Index!ChunksOfAll(old)
    BY <1>6 DEF Index!Remove
  <2>2. Index!OneStore' /\ Index!NewIsHidden'
    BY <1>4, <2>1 DEF Index!OneStore, Index!InOrder, Index!Siblings, Index!NewIsHidden
  <2>3. Index!SideBySideAfterFailure'
    BY <1>4, <2>1 DEF Index!SideBySideAfterFailure, Index!Siblings
  <2>4. \A c : c \in Index!ChunksOfAll(old) =>
            \E w \in Versions : DocOf[w] = DocOf[v] /\ c \in ChunksOf[w]
    BY DEF Index!ChunksOfAll, Index!Siblings
  <2>5. QED
    BY <2>1, <2>2, <2>3, <2>4
<1>7. CASE \E batch \in SUBSET (ChunksOf[v] \ searchable) : Index!Add(v, batch)
  <2>1. PICK batch \in SUBSET (ChunksOf[v] \ searchable) : Index!Add(v, batch)
    BY <1>7
  <2>2. Index!CarriedOut(v) /\ searchable \subseteq searchable'
    BY <2>1 DEF Index!Add
  <2>3. QED
    BY <1>4, <1>5, <2>1, <2>2
<1>8. CASE \E old \in SUBSET Index!Siblings(v) : Index!Remove(v, old)
  <2>1. PICK old \in SUBSET Index!Siblings(v) : Index!Remove(v, old)
    BY <1>8
  <2>2. Index!CarriedOut(v)
    BY <2>1 DEF Index!Remove
  <2>3. QED
    BY <1>4, <1>6, <2>1, <2>2
<1>9. QED
  BY <1>2, <1>3, <1>7, <1>8 DEF Index!StoreStep

LEMMA IndexWorks ==
    ASSUME StandInv, WorkInv, NEW v \in Versions, ChangeIndex(v) PROVE WorkInv'
<1> USE DEF WorkInv
<1>1. /\ UNCHANGED <<pc, sub, found, final, cites, reported, last, overwritten>>
      /\ \A r \in Live : Gathered(r)' = Gathered(r)
      /\ changed' = [r \in Live |-> IF r \in Searching /\ searchable' # searchable
                                    THEN changed[r] \cup {DocOf[v]} ELSE changed[r]]
  BY DEF ChangeIndex, own, shared, Gathered
<1>2. /\ Index!Orderly'
      /\ progress' \in [Versions -> Index!Progress]
      /\ blurred \subseteq blurred' /\ blurred' \subseteq blurred \cup {DocOf[v]}
      /\ \A w \in Versions : Index!Failed(w) => Index!Failed(w)'
      /\ \A c : c \in searchable' /\ c \notin searchable => c \in ChunksOf[v]
      /\ \A c : c \in searchable /\ c \notin searchable' =>
             \E w \in Versions : DocOf[w] = DocOf[v] /\ c \in ChunksOf[w]
  BY IndexStays DEF ChangeIndex, WorkTypes
<1>3. DocOf[v] \in Docs /\ ChunksOf[v] \subseteq Chunks
  BY EngineAssumption DEF ChunksOf
<1>4. \A c \in searchable : c \in searchable' \/ Payload[c].doc = DocOf[v]
  BY <1>2, EngineAssumption DEF ChunksOf
<1>5. WorkTypes'
  <2>1. searchable' \in SUBSET Chunks
    BY <1>2, <1>3 DEF WorkTypes
  <2>2. changed' \in [Live -> SUBSET Docs] /\ blurred' \in SUBSET Docs
    BY <1>1, <1>2, <1>3 DEF WorkTypes
  <2>3. QED
    BY <1>1, <1>2, <2>1, <2>2 DEF WorkTypes
<1>6. \A r \in Live : /\ changed[r] \subseteq changed'[r]
                      /\ pc[r] = "search" /\ searchable' # searchable => DocOf[v] \in changed'[r]
  BY <1>1 DEF Searching
<1>7. Searches' /\ Remembers' /\ Prompted' /\ ReportsItsOwn' /\ Filtered'
  BY <1>1 DEF Searches, Remembers, Prompted, ReportsItsOwn, Filtered
<1>8. Consistent'
  <2>1. \A c \in Chunks : VersionOf[c] \in Versions
    BY EngineAssumption
  <2>2. \A r \in Live : Gathered(r) \subseteq Chunks /\ ToSet(cites[r]) \subseteq Chunks
    BY DEF Gathered, Met, WorkTypes, ToSet
  <2>3. ASSUME NEW r \in Live, NEW S \in SUBSET Chunks, OneVersion(r, S)
        PROVE  \A c, e \in S : VersionOf[c] # VersionOf[e] /\ Payload[c].doc = Payload[e].doc =>
                  \/ Payload[c].doc \in changed'[r] \cup blurred'
                  \/ Index!Failed(VersionOf[c])' \/ Index!Failed(VersionOf[e])'
    BY <1>2, <1>6, <2>1, <2>3 DEF OneVersion
  <2>4. QED
    BY <1>1, <2>2, <2>3 DEF Consistent, OneVersion
<1>9. Current'
  BY <1>1, <1>4, <1>6 DEF Current
<1>10. QED
  BY <1>2, <1>5, <1>7, <1>8, <1>9

LEMMA DecomposeWorks ==
    ASSUME StandInv, WorkInv, NEW r \in Live, Decompose(r) PROVE WorkInv'
<1> USE DEF WorkInv
<1>1. PICK s \in Ask[r].others \cup {<<Ask[r].question>>} :
         /\ sub' = [sub EXCEPT ![r] = s]
         /\ last' = [last EXCEPT !.sub = s]
         /\ found' = [found EXCEPT ![r] = [i \in Positions(s) |-> Nothing]]
  BY DEF Decompose
<1>2. /\ overwritten' = overwritten \cup {o \in Live \ {r} : pc[o] \in {"search", "expand"}}
      /\ pc[r] = "decompose" /\ pc' = [pc EXCEPT ![r] = "search"] /\ DOMAIN pc = Live
      /\ UNCHANGED <<searchable, progress, blurred, final, cites, reported, changed>>
  BY DEF Decompose, Goto, indexVars, StandInv
<1>3. s \in Seq(Questions)
  <2>1. Ask[r].others \subseteq Seq(Questions) /\ Ask[r].question \in Questions
    BY AskFacts
  <2>2. <<Ask[r].question>> \in Seq(Questions)
    BY <2>1
  <2>3. QED
    BY <2>1, <2>2
<1>4. LET new == [i \in Positions(s) |-> Nothing]
      IN  new \in Seq(Results) /\ Len(new) = Len(s) /\ \A i \in 1..Len(s) : new[i] = Nothing
  BY <1>3, NothingFacts DEF Positions
<1>5. /\ sub'[r] = s /\ found'[r] \in Seq(Results) /\ Len(found'[r]) = Len(s)
      /\ \A i \in 1..Len(s) : found'[r][i] = Nothing
  BY <1>1, <1>4 DEF WorkTypes
<1>6. WorkTypes'
  BY <1>1, <1>2, <1>3, <1>4, <1>5 DEF WorkTypes
<1>7. \A q \in Live \ {r} : sub'[q] = sub[q] /\ found'[q] = found[q] /\ pc'[q] = pc[q]
  BY <1>1, <1>2 DEF WorkTypes
<1>8. Gathered(r)' = {} /\ \A q \in Live \ {r} : Gathered(q)' = Gathered(q)
  BY <1>5, <1>7, NothingFacts DEF Gathered
<1>9. Index!Orderly' /\ Searches' /\ Prompted'
  BY <1>2, <1>5, <1>7, OrderlyStays DEF Searches, Prompted
<1>10. Remembers'
  <2>1. last'.sub = s
    BY <1>1 DEF WorkTypes
  <2>2. \A q \in Live \ {r} : pc'[q] \in {"search", "expand"} => q \in overwritten'
    BY <1>2, <1>7
  <2>3. QED
    BY <1>5, <2>1, <2>2 DEF Remembers
<1>11. Filtered' /\ Current' /\ Consistent'
  <2>1. \A q \in Live : Gathered(q)' = Gathered(q) \/ Gathered(q)' = {}
    BY <1>8
  <2>2. \A q \in Live \ {r} : pc'[q] = pc[q]
    BY <1>7
  <2>3. Filtered'
    BY <1>2, <2>1 DEF Filtered
  <2>4. Current'
    BY <1>2, <1>8, <2>2 DEF Current
  <2>5. Consistent'
    BY <1>2, <2>1 DEF Consistent, OneVersion, Index!Failed
  <2>6. QED
    BY <2>3, <2>4, <2>5
<1>12. ReportsItsOwn'
  <2>1. \A q \in Live : pc'[q] \in {"generate", "check", "deliver"} =>
          pc[q] = pc'[q] /\ sub'[q] = sub[q] /\ (q \in overwritten => q \in overwritten')
    BY <1>2, <1>7
  <2>2. QED
    BY <1>2, <2>1 DEF ReportsItsOwn
<1>13. QED
  BY <1>6, <1>9, <1>10, <1>11, <1>12

LEMMA SearchWorks ==
    ASSUME StandInv, WorkInv, NEW r \in Live, NEW i \in Positions(sub[r]),
           NEW kind \in {"dense", "sparse"}, SearchIndex(r, i, kind)
    PROVE  WorkInv'
<1> USE DEF WorkInv
<1> DEFINE hits == Search(kind, sub[r][i], Visible, Ask[r].filter, 3 * Prefetch(r))
           both == [found[r][i] EXCEPT ![kind] = hits]
           whole == both.dense # None /\ both.sparse # None
           got == Retrieved(both.dense, both.sparse, Prefetch(r), Ask[r].score_threshold)
           g == IF whole THEN [Nothing EXCEPT !.dense = <<>>, !.sparse = <<>>, !.result = got]
                ELSE both
           next == IF whole /\ \A j \in Positions(sub[r]) \ {i} : found[r][j].result # None
                   THEN "expand" ELSE "search"
           n == Len(found[r])
<1>1. /\ pc[r] = "search" /\ pc' = [pc EXCEPT ![r] = next] /\ DOMAIN pc = Live
      /\ found' = [found EXCEPT ![r][i] = g]
      /\ UNCHANGED <<searchable, progress, blurred, sub, final, cites, reported, last, overwritten, changed>>
  BY DEF SearchIndex, Goto, indexVars, shared, StandInv
<1>2. /\ sub[r] \in Seq(Questions) /\ found[r] \in Seq(Results) /\ n = Len(sub[r])
      /\ n \in Nat /\ i \in 1..n /\ Positions(sub[r]) = 1..n
  BY <1>1 DEF WorkTypes, Searches, Positions
<1>3. sub[r][i] \in Questions /\ found[r][i] \in Results
  BY <1>2
<1>4. /\ hits \in Seq(Chunks)
      /\ \A c \in ToSet(hits) : c \in Visible /\ Matches(c, Ask[r].filter)
  <2>1. 3 * Prefetch(r) \in Nat
    BY AskFacts
  <2>2. QED
    BY <1>3, <2>1, SearchFacts
<1>5. /\ g \in Results /\ Met(g) \subseteq Met(found[r][i]) \cup ToSet(hits)
      /\ whole => g.result \in Seq(Hits)
  <2> HIDE DEF hits
  <2>1. Prefetch(r) \in Nat
    BY AskFacts
  <2>2. QED
    BY <1>3, <1>4, <2>1, SearchAdds
<1>6. next \in {"search", "expand"}
      /\ (next = "expand" => whole /\ \A j \in 1..n \ {i} : found[r][j].result # None)
  BY <1>2
<1> HIDE DEF hits, g, next, whole
<1>7. /\ found'[r] = [found[r] EXCEPT ![i] = g]
      /\ \A q \in Live \ {r} : found'[q] = found[q] /\ pc'[q] = pc[q]
      /\ pc'[r] = next
  BY <1>1 DEF WorkTypes
<1>8. /\ found'[r] \in Seq(Results) /\ Len(found'[r]) = n
      /\ \A j \in 1..n : found'[r][j] = IF j = i THEN g ELSE found[r][j]
  BY <1>2, <1>5, <1>7
<1>9. WorkTypes'
  BY <1>1, <1>8 DEF WorkTypes
<1>10. Index!Orderly' /\ Prompted'
  BY <1>1, OrderlyStays DEF Prompted
<1>11. Searches'
  <2>1. next = "expand" => \A j \in 1..n : found'[r][j].result \in Seq(Hits)
    <3>1. ASSUME NEW j \in 1..n PROVE found[r][j].result \in Seq(Hits) \cup {None}
      <4>1. found[r][j] \in Results
        BY <1>2
      <4>2. QED
        BY <4>1 DEF Results
    <3>2. QED
      BY <1>5, <1>6, <1>8, <3>1
  <2>2. QED
    BY <1>1, <1>2, <1>7, <1>8, <2>1 DEF Searches
<1>12. Remembers' /\ ReportsItsOwn'
  <2>1. \A q \in Live : pc'[q] = pc[q] \/ (pc[q] = "search" /\ pc'[q] \in {"search", "expand"})
    BY <1>1, <1>6, <1>7
  <2>2. Remembers'
    BY <1>1, <2>1 DEF Remembers
  <2>3. ReportsItsOwn'
    <3>1. \A q \in Live : pc'[q] \in {"generate", "check", "deliver"} => pc'[q] = pc[q]
      BY <2>1
    <3>2. QED
      BY <1>1, <3>1 DEF ReportsItsOwn
  <2>4. QED
    BY <2>2, <2>3
<1>13. Gathered(r)' \subseteq Gathered(r) \cup ToSet(hits)
  <2>1. ASSUME NEW j \in 1..n PROVE Met(found'[r][j]) \subseteq Gathered(r) \cup ToSet(hits)
    <3>1. Met(found[r][j]) \subseteq Gathered(r) /\ Met(found[r][i]) \subseteq Gathered(r)
      BY <1>2 DEF Gathered
    <3>2. QED
      BY <1>5, <1>8, <3>1
  <2>2. Gathered(r)' = UNION {Met(found'[r][j]) : j \in 1..n}
    BY <1>8 DEF Gathered
  <2>3. QED
    BY <2>1, <2>2
<1>14. \A q \in Live \ {r} : Gathered(q)' = Gathered(q)
  BY <1>7 DEF Gathered
<1>15. \A c \in ToSet(hits) : c \in searchable
  BY <1>4 DEF Visible
<1>16. \A c \in Gathered(r)' : c \in searchable \/ Payload[c].doc \in changed[r]
  BY <1>1, <1>13, <1>15 DEF Current
<1>17. Filtered'
  BY <1>1, <1>4, <1>13, <1>14 DEF Filtered
<1>18. Current'
  BY <1>1, <1>7, <1>14, <1>16 DEF Current
<1>19. Consistent'
  <2>1. OneVersion(r, Gathered(r))'
    <3> SUFFICES ASSUME NEW c \in Gathered(r)', NEW e \in Gathered(r)',
                        VersionOf[c] # VersionOf[e], Payload[c].doc = Payload[e].doc,
                        Payload[c].doc \notin changed[r] \cup blurred
                 PROVE  Index!Failed(VersionOf[c]) \/ Index!Failed(VersionOf[e])
      BY <1>1 DEF OneVersion, Index!Failed
    <3>1. c \in searchable /\ e \in searchable
      BY <1>16
    <3>2. /\ VersionOf[c] \in Versions /\ VersionOf[e] \in Versions
          /\ c \in ChunksOf[VersionOf[c]] /\ e \in ChunksOf[VersionOf[e]]
          /\ Payload[c].doc = DocOf[VersionOf[c]] /\ Payload[e].doc = DocOf[VersionOf[e]]
      BY <3>1, EngineAssumption DEF ChunksOf, WorkTypes
    <3>3. QED
      BY <3>1, <3>2 DEF Index!Orderly, Index!SideBySideAfterFailure, Index!Siblings
  <2>2. QED
    BY <1>1, <1>14, <2>1 DEF Consistent, OneVersion, Index!Failed
<1>20. QED
  BY <1>9, <1>10, <1>11, <1>12, <1>17, <1>18, <1>19

LEMMA ExpandWorks ==
    ASSUME StandInv, WorkInv, NEW r \in Live, ExpandAndBuild(r) PROVE WorkInv'
<1> USE DEF WorkInv
<1> DEFINE candidates == Candidates(r)
           reranks == Ask[r].use_reranker /\ Len(candidates) > 1
           chunks == IF reranks THEN Reranked(Ask[r].question, candidates, Ask[r].top_k)
                     ELSE First(candidates, Ask[r].top_k)
           cited == Prompt(chunks, Available(Ask[r].context, Ask[r].asked)).cited
<1>1. /\ pc[r] = "expand" /\ pc' = [pc EXCEPT ![r] = "generate"] /\ DOMAIN pc = Live
      /\ final' = [final EXCEPT ![r] = chunks] /\ cites' = [cites EXCEPT ![r] = cited]
      /\ last' = [last EXCEPT !.reranked = reranks]
      /\ reported' = IF Ask[r].mode = "query" THEN [reported EXCEPT ![r] = last'] ELSE reported
      /\ found' = [found EXCEPT ![r] = <<>>]
      /\ UNCHANGED <<searchable, progress, blurred, sub, overwritten, changed>>
  BY DEF ExpandAndBuild, Goto, indexVars, LastReranked, StandInv
<1>2. candidates \in Seq(Chunks) /\ ToSet(candidates) \subseteq Gathered(r)
  BY <1>1, AskFacts, CandidatesFacts DEF WorkTypes, Searches
<1> HIDE DEF candidates
<1>3. /\ chunks \in Seq(Chunks) /\ ToSet(chunks) \subseteq Gathered(r)
      /\ Len(chunks) <= Ask[r].top_k /\ Len(chunks) <= Len(candidates)
  <2>1. CASE reranks
    BY <1>2, <2>1, AskFacts, RerankedFacts
  <2>2. CASE ~reranks
    BY <1>2, <2>2, AskFacts, FirstFacts
  <2>3. QED
    BY <2>1, <2>2
<1>4. /\ reranks \in BOOLEAN
      /\ reranks => Ask[r].use_reranker
      /\ Ask[r].use_reranker /\ Len(chunks) > 1 => reranks
  <2>1. Len(candidates) \in Nat /\ Len(chunks) \in Nat /\ Len(chunks) <= Len(candidates)
    BY <1>2, <1>3
  <2>2. Len(chunks) > 1 => Len(candidates) > 1
    BY <2>1
  <2>3. reranks <=> Ask[r].use_reranker /\ Len(candidates) > 1
    OBVIOUS
  <2>4. reranks \in BOOLEAN
    OBVIOUS
  <2> HIDE DEF chunks, reranks
  <2>5. QED
    BY <2>2, <2>3, <2>4
<1> HIDE DEF chunks, reranks
<1>5. cited \in Seq(Chunks) /\ ToSet(cited) \subseteq ToSet(chunks)
  BY <1>3, AskFacts, PromptFacts
<1>6. cited = Prompt(chunks, Available(Ask[r].context, Ask[r].asked)).cited
  OBVIOUS
<1> HIDE DEF cited
<1>7. last' \in [sub : Seq(Questions), reranked : BOOLEAN]
      /\ last'.sub = last.sub /\ last'.reranked = reranks
  <2>1. last \in [sub : Seq(Questions), reranked : BOOLEAN]
    BY DEF WorkTypes
  <2>2. last' = [last EXCEPT !.reranked = reranks]
    BY <1>1
  <2>3. reranks \in BOOLEAN
    BY <1>4
  <2>4. QED
    BY <2>1, <2>2, <2>3
<1>8. WorkTypes'
  BY <1>1, <1>3, <1>5, <1>7 DEF WorkTypes
<1>9. \A q \in Live \ {r} : /\ pc'[q] = pc[q] /\ found'[q] = found[q] /\ final'[q] = final[q]
                           /\ cites'[q] = cites[q] /\ reported'[q] = reported[q]
                           /\ Gathered(q)' = Gathered(q)
  BY <1>1 DEF WorkTypes, Gathered
<1>10. /\ pc'[r] = "generate" /\ found'[r] = <<>> /\ Gathered(r)' = {}
       /\ final'[r] = chunks /\ cites'[r] = cited
       /\ Ask[r].mode = "query" => reported'[r] = last'
  BY <1>1 DEF WorkTypes, Gathered
<1>11. Index!Orderly' /\ Searches'
  BY <1>1, <1>9, <1>10, OrderlyStays DEF Searches
<1>12. Remembers'
  BY <1>1, <1>7, <1>9, <1>10 DEF Remembers
<1>13. Prompted'
  BY <1>6, <1>9, <1>10 DEF Prompted
<1>14. Filtered'
  BY <1>3, <1>5, <1>9, <1>10 DEF Filtered
<1>15. Current'
  BY <1>1, <1>9, <1>10 DEF Current
<1>16. Consistent'
  BY <1>1, <1>3, <1>5, <1>9, <1>10 DEF Consistent, OneVersion, Index!Failed
<1>17. ReportsItsOwn'
  <2>1. ASSUME Ask[r].mode = "query"
        PROVE  /\ reported'[r].sub # sub'[r] => r \in overwritten'
               /\ reported'[r].reranked => Ask[r].use_reranker
               /\ Ask[r].use_reranker /\ Len(final'[r]) > 1 => reported'[r].reranked
               /\ Len(final'[r]) <= Ask[r].top_k
    BY <1>1, <1>3, <1>4, <1>7, <1>10, <2>1 DEF Remembers
  <2>2. QED
    BY <1>1, <1>9, <2>1 DEF ReportsItsOwn
<1>18. QED
  BY <1>8, <1>11, <1>12, <1>13, <1>14, <1>15, <1>16, <1>17

LEMMA WorkStep == ASSUME StandInv, WorkInv, [Next]_vars PROVE WorkInv'
  BY StepShape, QuietWorks, EndWorks, IndexWorks, DecomposeWorks, SearchWorks, ExpandWorks

-----------------------------------------------------------------------------
(* The answers in the cache. *)

\* Only the engine's own call of set() sets an entry.
LEMMA EntryShape ==
    ASSUME StandInv, [Next]_vars
    PROVE  entry' = entry \/ \E r \in Live : entry' = [entry EXCEPT ![r] = Answer(r)]
<1>1. ASSUME NEW r \in Live, Step(r) \/ Disturbance(r)
      PROVE  entry' = entry \/ entry' = [entry EXCEPT ![r] = Answer(r)]
  <2>1. CASE StoreInCache(r)
    BY <2>1 DEF StoreInCache, Cache!BeginSet, Cache!SetVector, Cache!SetResponse, Cache!SetMeta,
       Cache!SetExpiry
  <2>2. CASE StoreFails(r) \/ Disconnect(r)
    BY <2>2 DEF StoreFails, Disconnect, Cache!SetFails, cacheVars
  <2>3. CASE CheckCache(r) \/ CheckCacheFails(r)
    BY <2>3 DEF CheckCache, CheckCacheFails, Cache!Lookup, Cache!FetchResponse, Cache!ReadMeta,
       Cache!WriteMeta, Cache!LookupFails, Cache!setVars
  <2>4. CASE \/ SkipCache(r) \/ Decompose(r) \/ RetrievalFails(r) \/ Delta(r) \/ Stop(r)
             \/ Exhausted(r) \/ GenerationFails(r) \/ CheckGroundedness(r) \/ Deliver(r)
             \/ ExpandAndBuild(r)
             \/ \E i \in Positions(sub[r]) : \E kind \in {"dense", "sparse"} : SearchIndex(r, i, kind)
    BY <2>4, QuietStep DEF cacheVars
  <2>5. QED
    BY <1>1, <2>1, <2>2, <2>3, <2>4 DEF Step, Disturbance
<1>2. CASE UNCHANGED vars
  BY <1>2 DEF vars
<1>3. CASE Sweep \/ ExpireOrSweep \/ \E v \in Versions : ChangeIndex(v)
  BY <1>3 DEF Sweep, ExpireOrSweep, ChangeIndex, cacheVars, Cache!BeginSweep, Cache!Expire,
     Cache!RemoveEntry, Cache!CheckExpiry, Cache!setVars
<1>4. QED
  BY <1>1, <1>2, <1>3 DEF Next, Event

\* What the commands of the cache do to the responses, and to what was fetched.
LEMMA ResponseShape ==
    ASSUME CacheProofs!TypeInv, [Cache!Next]_cacheVars, NEW q \in Requests
    PROVE  /\ responses'[q] \in {responses[q], entry[q], None}
           /\ \/ served'[q] = served[q]
              \/ \E e \in Requests : served'[q] = responses[e]
           /\ lookup'[q] \in {"meta", "count", "hit"} =>
                 \/ lookup[q] \in {"meta", "count", "hit"} /\ served'[q] = served[q]
                 \/ served'[q] # None
<1> USE DEF CacheProofs!TypeInv, CacheProofs!TypeOK, CacheProofs!LookedUp, CacheProofs!LookupStates,
        Cache!redis, Cache!getVars, Cache!setVars
<1>1. CASE UNCHANGED cacheVars
  BY <1>1 DEF cacheVars
<1>2. CASE Cache!Sweeper
  BY <1>2 DEF Cache!Sweeper, Cache!BeginSweep, Cache!RemoveEntry, Cache!CheckExpiry, Cache!Expire
<1>3. ASSUME NEW r \in Requests, Cache!Client(r)
      PROVE  /\ responses'[q] \in {responses[q], entry[q], None}
             /\ \/ served'[q] = served[q]
                \/ \E e \in Requests : served'[q] = responses[e]
             /\ lookup'[q] \in {"meta", "count", "hit"} =>
                   \/ lookup[q] \in {"meta", "count", "hit"} /\ served'[q] = served[q]
                   \/ served'[q] # None
  <2>1. CASE Cache!Lookup(r) \/ Cache!LookupFails(r)
    BY <2>1 DEF Cache!Lookup, Cache!LookupFails
  <2>2. CASE Cache!FetchResponse(r)
    BY <2>2 DEF Cache!FetchResponse
  <2>3. CASE Cache!ReadMeta(r) \/ Cache!WriteMeta(r)
    BY <2>3 DEF Cache!ReadMeta, Cache!WriteMeta
  <2>4. CASE \/ Cache!BeginSet(r, entry'[r]) \/ Cache!SetVector(r) \/ Cache!SetResponse(r)
             \/ Cache!SetMeta(r) \/ Cache!SetExpiry(r) \/ Cache!SetFails(r)
    BY <2>4 DEF Cache!BeginSet, Cache!SetVector, Cache!SetResponse, Cache!SetMeta,
       Cache!SetExpiry, Cache!SetFails
  <2>5. QED
    BY <1>3, <2>1, <2>2, <2>3, <2>4 DEF Cache!Client
<1>4. QED
  BY <1>1, <1>2, <1>3 DEF Cache!Next

LEMMA CachedInit == Init => CachedAnswers
<1> SUFFICES ASSUME Init, NEW r \in Requests
             PROVE  /\ {entry[r], responses[r], served[r]} \subseteq Answers \cup {None}
                    /\ entry[r] # None =>
                          \A c \in ToSet(entry[r].cites) : Matches(c, Ask[r].filter)
                    /\ lookup[r] \notin {"meta", "count", "hit"}
  BY DEF CachedAnswers
<1>1. /\ entry[r] = IF r \in Warm THEN WarmAnswer[r] ELSE None
      /\ responses[r] = IF r \in Warm THEN WarmAnswer[r] ELSE None
      /\ served[r] = None /\ lookup[r] \in {"miss", "new"}
  BY DEF Init, Cache!Init
<1>2. r \in Warm => WarmAnswer[r] \in Answers
                    /\ \A c \in ToSet(WarmAnswer[r].cites) : Matches(c, Ask[r].filter)
  BY EngineAssumption
<1>3. QED
  BY <1>1, <1>2

LEMMA CachedStep ==
    ASSUME DeliverInv, CacheProofs!TypeInv, WorkInv, CachedAnswers, [Next]_vars
    PROVE  CachedAnswers'
<1>1. \A r \in Live : Answer(r) \in Answers /\ Answer(r).cites = cites[r]
  BY DEF Answer, Answers, DeliverInv, AnswerInv, WorkInv, WorkTypes
<1>2. [Cache!Next]_cacheVars
  BY StandStep DEF DeliverInv
<1>3. ASSUME NEW q \in Requests
      PROVE  /\ entry'[q] \in Answers \cup {None}
             /\ entry'[q] # None => \A c \in ToSet(entry'[q].cites) : Matches(c, Ask[q].filter)
  <2>1. CASE entry' = entry
    BY <2>1 DEF CachedAnswers
  <2>2. ASSUME NEW r \in Live, entry' = [entry EXCEPT ![r] = Answer(r)]
        PROVE  /\ entry'[q] \in Answers \cup {None}
               /\ entry'[q] # None => \A c \in ToSet(entry'[q].cites) : Matches(c, Ask[q].filter)
    <3>1. CASE q = r
      <4>1. entry'[q] = Answer(r)
        BY <2>2, <3>1 DEF DeliverInv, StandInv, Live
      <4>2. QED
        BY <1>1, <3>1, <4>1 DEF WorkInv, Filtered
    <3>2. CASE q # r
      BY <2>2, <3>2 DEF CachedAnswers, DeliverInv, StandInv
    <3>3. QED
      BY <3>1, <3>2
  <2>3. QED
    BY <2>1, <2>2, EntryShape DEF DeliverInv
<1>4. ASSUME NEW q \in Requests
      PROVE  /\ {responses'[q], served'[q]} \subseteq Answers \cup {None}
             /\ lookup'[q] \in {"meta", "count", "hit"} => served'[q] # None
  BY <1>2, ResponseShape DEF CachedAnswers
<1>5. QED
  BY <1>3, <1>4 DEF CachedAnswers

-----------------------------------------------------------------------------
(* The theorems about the engine's requests. *)

EngineInv == DeliverInv /\ WorkInv /\ CachedAnswers /\ events \in 0..MaxEvents

LEMMA EventsStep == events \in 0..MaxEvents /\ [Next]_vars => events' \in 0..MaxEvents
  BY EngineAssumption DEF Next, vars

\* The invariant of the cache, which the engine has because it uses it rightly.
LEMMA EngineCacheInv == Spec => []CacheProofs!CacheInv
  BY SameAssumption, CacheProofs!CacheAlways, EngineUsesCache, SameSpec, PTL DEF UsesCache

LEMMA EngineAlways == Spec => []EngineInv
<1>1. Init => EngineInv
  <2>1. Init => events \in 0..MaxEvents
    BY EngineAssumption DEF Init
  <2>2. QED
    BY <2>1, DeliverInit, WorkInit, CachedInit DEF EngineInv
<1>2. CacheProofs!CacheInv /\ EngineInv /\ [Next]_vars => EngineInv'
  BY DeliverStep, WorkStep, CachedStep, EventsStep DEF EngineInv, DeliverInv, CacheProofs!CacheInv
<1>3. QED
  BY <1>1, <1>2, EngineCacheInv, PTL DEF Spec

\* Every await of stream() and query() finds and leaves the state of the request,
\* of the engine they share, of the cache and of the index in its types.
THEOREM EngineTypes == Spec => []TypeOK
<1>1. CacheProofs!CacheInv => Cache!TypeOK
  BY DEF CacheProofs!CacheInv, CacheProofs!TypeInv, CacheProofs!TypeOK, Cache!TypeOK,
     CacheProofs!LookupStates, Cache!LookupStates, CacheProofs!FillStates, Cache!FillStates,
     CacheProofs!Filling, Cache!Filling
<1>2. Cache!TypeOK /\ EngineInv => TypeOK
  BY DEF TypeOK, EngineInv, DeliverInv, StandInv, Phases, AnswerInv, WorkInv, WorkTypes,
     CachedAnswers
<1>3. QED
  BY <1>1, <1>2, EngineCacheInv, EngineAlways, PTL

\* Whatever the sub-queries, the fusion, the merge and the reranker make of the
\* searches, only a hit on the answer to a request with another filter cites
\* what the request's filter excludes.
THEOREM FilterHolds == Spec => []FilterBrokenOnlyByCache
<1>1. ASSUME EngineInv, HitHasOneAuthor PROVE FilterBrokenOnlyByCache
  <2>1. ASSUME NEW r \in Live, NEW c \in Cited(r), ~Matches(c, Ask[r].filter)
        PROVE  Hit(r) /\ Ask[best[r]].filter # Ask[r].filter
    <3>1. Hit(r) /\ c \in ToSet(served[r].cites)
      BY <1>1, <2>1 DEF Cited, EngineInv, WorkInv, Filtered
    <3>2. r \in Requests /\ served[r] # None
      BY <1>1, <3>1 DEF Live, Hit, EngineInv, CachedAnswers
    <3>3. best[r] \in Requests /\ served[r] = entry[best[r]]
      BY <1>1, <3>2 DEF HitHasOneAuthor, Cache!HitHasOneAuthor
    <3>4. Matches(c, Ask[best[r]].filter)
      BY <1>1, <3>1, <3>2, <3>3 DEF EngineInv, CachedAnswers
    <3>5. QED
      BY <2>1, <3>1, <3>4
  <2>2. QED
    BY <2>1 DEF FilterBrokenOnlyByCache
<1>2. QED
  BY <1>1, EngineAlways, EngineHits, PTL

\* The two searches of a sub-query, and the searches of several, see the index
\* each at a moment of its own, and a search sees what failed stores have left; an
\* answer mixes two versions of a document only if the document changed in between,
\* or by what a store that failed has left, or after stores that overlapped.
THEOREM VersionsMixOnlyByChangeOrFailure == Spec => []MixedOnlyByChangeOrFailure
<1>1. EngineInv => MixedOnlyByChangeOrFailure
  BY DEF EngineInv, WorkInv, Consistent, OneVersion, MixedOnlyByChangeOrFailure
<1>2. QED
  BY <1>1, EngineAlways, PTL

\* query() reads _last_sub_queries and _last_reranked of the engine all requests
\* share; what it reports is its own unless another request was decomposed
\* while it retrieved.
THEOREM ReportsAreItsOwn == Spec => []ReportsItsOwn
<1>1. EngineInv => ReportsItsOwn
  BY DEF EngineInv, WorkInv
<1>2. QED
  BY <1>1, EngineAlways, PTL

\* PromptBuilder.build() keeps to its budget for every list of chunks, every
\* size of theirs and every budget, and cites the best without a gap.
THEOREM PromptKeepsBudget == Spec => []PromptWithinBudget
<1>1. ASSUME EngineInv PROVE PromptWithinBudget
  <2>1. ASSUME NEW r \in Live, final[r] # <<>>
        PROVE  LET budget == Available(Ask[r].context, Ask[r].asked)
                   prompt == Prompt(final[r], budget)
               IN  /\ cites[r] = First(final[r], Len(cites[r]))
                   /\ cites[r] # <<>>
                   /\ prompt.used <= budget
                   /\ Len(cites[r]) < Len(final[r]) => prompt.used + Fragment > budget
    <3> DEFINE budget == Available(Ask[r].context, Ask[r].asked)
               prompt == Prompt(final[r], budget)
    <3>1. final[r] \in Seq(Chunks) /\ budget \in Int /\ budget >= Floor
      BY <1>1, AskFacts DEF EngineInv, WorkInv, WorkTypes
    <3>2. cites[r] = prompt.cited
      BY <1>1, <2>1 DEF EngineInv, WorkInv, Prompted
    <3> HIDE DEF budget
    <3>3. /\ prompt.cited = First(final[r], Len(prompt.cited))
          /\ prompt.cited # <<>>
          /\ prompt.used <= budget
          /\ Len(prompt.cited) < Len(final[r]) => prompt.used + Fragment > budget
      BY <2>1, <3>1, PromptFacts
    <3>4. QED
      BY <3>2, <3>3 DEF budget
  <2>2. QED
    BY <2>1 DEF PromptWithinBudget
<1>2. QED
  BY <1>1, EngineAlways, PTL
=============================================================================
