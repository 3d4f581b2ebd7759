------------------------ MODULE SemanticCacheProofs ------------------------
(***************************************************************************)
(* Proofs about SemanticCache, for any finite set of requests, whatever    *)
(* their questions' similarities, the threshold and the number of sweeps.  *)
(***************************************************************************)
EXTENDS SemanticCache, FiniteSetTheorems, TLAPS

-----------------------------------------------------------------------------
(* Type correctness. *)

\* A look-up that goes on after its first round trip has found an entry.
LookedUp ==
    \A r \in Requests :
        lookup[r] \in {"response", "meta", "count", "hit"} => best[r] \in Requests

TypeInv == TypeOK /\ LookedUp

\* Initially the variables have their types, a warm cache's included.
LEMMA TypeInit == ASSUME CacheAssumption, Init PROVE TypeInv
  BY DEF CacheAssumption, Init, TypeInv, TypeOK, LookedUp, LookupStates, FillStates, Filling

\* Every step of every client and of the sweeper keeps the types.
LEMMA TypeStep == ASSUME CacheAssumption, TypeInv, [Next]_cacheVars PROVE TypeInv'
<1> USE DEF CacheAssumption, TypeInv, TypeOK, LookedUp, LookupStates, FillStates, Filling,
        redis, getVars, setVars, sweepVars
<1>1. ASSUME NEW r \in Requests, Lookup(r) PROVE TypeInv'
  BY <1>1 DEF Lookup, MostSimilar
<1>2. ASSUME NEW r \in Requests, LookupFails(r) PROVE TypeInv'
  BY <1>2 DEF LookupFails
<1>3. ASSUME NEW r \in Requests, FetchResponse(r) PROVE TypeInv'
  BY <1>3 DEF FetchResponse
<1>4. ASSUME NEW r \in Requests, ReadMeta(r) PROVE TypeInv'
  BY <1>4 DEF ReadMeta
<1>5. ASSUME NEW r \in Requests, WriteMeta(r) PROVE TypeInv'
  BY <1>5 DEF WriteMeta, Count
<1>6. ASSUME NEW r \in Requests, NEW a, BeginSet(r, a) PROVE TypeInv'
  BY <1>6 DEF BeginSet
<1>7. ASSUME NEW r \in Requests, SetVector(r) PROVE TypeInv'
  BY <1>7 DEF SetVector
<1>8. ASSUME NEW r \in Requests, SetResponse(r) PROVE TypeInv'
  BY <1>8 DEF SetResponse
<1>9. ASSUME NEW r \in Requests, SetMeta(r) PROVE TypeInv'
  BY <1>9 DEF SetMeta
<1>10. ASSUME NEW r \in Requests, SetExpiry(r) PROVE TypeInv'
  BY <1>10 DEF SetExpiry
<1>11. ASSUME NEW r \in Requests, SetFails(r) PROVE TypeInv'
  BY <1>11 DEF SetFails
<1>12. ASSUME BeginSweep PROVE TypeInv'
  BY <1>12 DEF BeginSweep
<1>13. ASSUME NEW e \in Requests, CheckExpiry(e) PROVE TypeInv'
  BY <1>13 DEF CheckExpiry, Expired
<1>14. ASSUME RemoveEntry PROVE TypeInv'
  BY <1>14 DEF RemoveEntry, MetaWithout
<1>15. ASSUME NEW e \in Requests, Expire(e) PROVE TypeInv'
  BY <1>15 DEF Expire
<1>16. CASE UNCHANGED cacheVars
  BY <1>16 DEF cacheVars
<1>17. QED
  BY <1>1, <1>2, <1>3, <1>4, <1>5, <1>6, <1>7, <1>8, <1>9,
     <1>10, <1>11, <1>12, <1>13, <1>14, <1>15, <1>16
  DEF Next, Client, Sweeper

-----------------------------------------------------------------------------
(* What an entry is while it is set and looked up. *)

\* A request sets only what it did not find.
SetsAfterMiss == \A e \in Requests : filling[e] # "idle" => lookup[e] \in {"new", "miss"}

\* A field is written only by the command that writes it.
Fields ==
    \A e \in Requests :
        /\ e \in vectors => filling[e] \notin {"idle", "vectors"}
        /\ responses[e] # None => filling[e] # "idle" /\ responses[e] = entry[e]
        /\ e \in alive => filling[e] = "done"

\* A look-up that found something found another request's entry.
FoundAnother ==
    \A r \in Requests : best[r] # None =>
        /\ best[r] # r
        /\ Similarity[r][best[r]] >= Threshold
        /\ filling[best[r]] # "idle"

ServedFromFound ==
    \A r \in Requests :
        /\ lookup[r] = "new" => served[r] = None
        /\ served[r] # None => best[r] # None /\ served[r] = entry[best[r]]

EntryInv == SetsAfterMiss /\ Fields /\ FoundAnother /\ ServedFromFound

LEMMA EntryInit == ASSUME CacheAssumption, Init PROVE EntryInv
  BY DEF CacheAssumption, Init, EntryInv, SetsAfterMiss, Fields, FoundAnother, ServedFromFound

\* A step that sets an entry finds no look-up served from it: that look-up's
\* entry is of a request that has begun to set it before.
LEMMA EntryStep ==
    ASSUME CacheAssumption, TypeInv, EntryInv, [Next]_cacheVars PROVE EntryInv'
<1> USE DEF CacheAssumption, TypeInv, TypeOK, LookedUp, LookupStates, FillStates, Filling,
        redis, getVars, setVars, sweepVars,
        EntryInv, SetsAfterMiss, Fields, FoundAnother, ServedFromFound
<1>1. ASSUME NEW r \in Requests, filling[r] = "idle", Lookup(r)
      PROVE  EntryInv'
  BY <1>1 DEF Lookup, MostSimilar, CloseEnough
<1>2. ASSUME NEW r \in Requests, filling[r] = "idle", LookupFails(r)
      PROVE  EntryInv'
  BY <1>2 DEF LookupFails
<1>3. ASSUME NEW r \in Requests, FetchResponse(r) PROVE EntryInv'
  BY <1>3 DEF FetchResponse
<1>4. ASSUME NEW r \in Requests, ReadMeta(r) PROVE EntryInv'
  BY <1>4 DEF ReadMeta
<1>5. ASSUME NEW r \in Requests, WriteMeta(r) PROVE EntryInv'
  BY <1>5 DEF WriteMeta, Count
<1>6. ASSUME NEW r \in Requests, NEW a, lookup[r] \in {"new", "miss"}, BeginSet(r, a)
      PROVE  EntryInv'
  BY <1>6 DEF BeginSet
<1>7. ASSUME NEW r \in Requests, SetVector(r) PROVE EntryInv'
  BY <1>7 DEF SetVector
<1>8. ASSUME NEW r \in Requests, SetResponse(r) PROVE EntryInv'
  BY <1>8 DEF SetResponse
<1>9. ASSUME NEW r \in Requests, SetMeta(r) PROVE EntryInv'
  BY <1>9 DEF SetMeta
<1>10. ASSUME NEW r \in Requests, SetExpiry(r) PROVE EntryInv'
  BY <1>10 DEF SetExpiry
<1>11. ASSUME NEW r \in Requests, SetFails(r) PROVE EntryInv'
  BY <1>11 DEF SetFails
<1>12. ASSUME BeginSweep PROVE EntryInv'
  BY <1>12 DEF BeginSweep
<1>13. ASSUME NEW e \in Requests, CheckExpiry(e) PROVE EntryInv'
  BY <1>13 DEF CheckExpiry, Expired
<1>14. ASSUME RemoveEntry PROVE EntryInv'
  BY <1>14 DEF RemoveEntry, MetaWithout
<1>15. ASSUME NEW e \in Requests, Expire(e) PROVE EntryInv'
  BY <1>15 DEF Expire
<1>16. CASE UNCHANGED cacheVars
  BY <1>16 DEF cacheVars
<1>17. QED
  BY <1>1, <1>2, <1>3, <1>4, <1>5, <1>6, <1>7, <1>8, <1>9,
     <1>10, <1>11, <1>12, <1>13, <1>14, <1>15, <1>16
  DEF Next, Client, Sweeper

-----------------------------------------------------------------------------
(* Hit counts. *)

\* A look-up that is about to write a count has read one that was right.
CountedBefore ==
    \A r \in Requests : lookup[r] = "count" => counted[r] <= Cardinality(Hits(best[r]))

CountInv == HitCountNotAbove /\ CountedBefore

\* The hits on an entry are a finite set, so they can be counted.
LEMMA HitsFinite ==
    ASSUME CacheAssumption, NEW e
    PROVE  IsFiniteSet(Hits(e)) /\ Cardinality(Hits(e)) \in Nat
<1>1. Hits(e) \subseteq Requests
  BY DEF Hits
<1>2. IsFiniteSet(Hits(e))
  BY <1>1, FS_Subset DEF CacheAssumption
<1>3. QED
  BY <1>2, FS_CardinalityType

\* A finished look-up stays a hit on its entry.
LEMMA HitsStay ==
    ASSUME CacheAssumption, TypeInv, [Next]_cacheVars, NEW e
    PROVE  Hits(e) \subseteq Hits(e)'
<1> USE DEF TypeInv, TypeOK, Hits, redis, getVars, setVars, sweepVars
<1>1. ASSUME NEW r \in Requests, Lookup(r) PROVE Hits(e) \subseteq Hits(e)'
  BY <1>1 DEF Lookup
<1>2. ASSUME NEW r \in Requests, LookupFails(r) PROVE Hits(e) \subseteq Hits(e)'
  BY <1>2 DEF LookupFails
<1>3. ASSUME NEW r \in Requests, FetchResponse(r) PROVE Hits(e) \subseteq Hits(e)'
  BY <1>3 DEF FetchResponse
<1>4. ASSUME NEW r \in Requests, ReadMeta(r) PROVE Hits(e) \subseteq Hits(e)'
  BY <1>4 DEF ReadMeta
<1>5. ASSUME NEW r \in Requests, WriteMeta(r) PROVE Hits(e) \subseteq Hits(e)'
  BY <1>5 DEF WriteMeta, Count
<1>6. ASSUME NEW r \in Requests, NEW a, BeginSet(r, a) PROVE Hits(e) \subseteq Hits(e)'
  BY <1>6 DEF BeginSet
<1>7. ASSUME NEW r \in Requests, SetVector(r) PROVE Hits(e) \subseteq Hits(e)'
  BY <1>7 DEF SetVector
<1>8. ASSUME NEW r \in Requests, SetResponse(r) PROVE Hits(e) \subseteq Hits(e)'
  BY <1>8 DEF SetResponse
<1>9. ASSUME NEW r \in Requests, SetMeta(r) PROVE Hits(e) \subseteq Hits(e)'
  BY <1>9 DEF SetMeta
<1>10. ASSUME NEW r \in Requests, SetExpiry(r) PROVE Hits(e) \subseteq Hits(e)'
  BY <1>10 DEF SetExpiry
<1>11. ASSUME NEW r \in Requests, SetFails(r) PROVE Hits(e) \subseteq Hits(e)'
  BY <1>11 DEF SetFails
<1>12. ASSUME BeginSweep PROVE Hits(e) \subseteq Hits(e)'
  BY <1>12 DEF BeginSweep
<1>13. ASSUME NEW f \in Requests, CheckExpiry(f) PROVE Hits(e) \subseteq Hits(e)'
  BY <1>13 DEF CheckExpiry, Expired
<1>14. ASSUME RemoveEntry PROVE Hits(e) \subseteq Hits(e)'
  BY <1>14 DEF RemoveEntry, MetaWithout
<1>15. ASSUME NEW f \in Requests, Expire(f) PROVE Hits(e) \subseteq Hits(e)'
  BY <1>15 DEF Expire
<1>16. CASE UNCHANGED cacheVars
  BY <1>16 DEF cacheVars
<1>17. QED
  BY <1>1, <1>2, <1>3, <1>4, <1>5, <1>6, <1>7, <1>8, <1>9,
     <1>10, <1>11, <1>12, <1>13, <1>14, <1>15, <1>16
  DEF Next, Client, Sweeper

\* So the number of hits never falls.
LEMMA HitsGrow ==
    ASSUME CacheAssumption, TypeInv, [Next]_cacheVars, NEW e
    PROVE  Cardinality(Hits(e)) <= Cardinality(Hits(e)')
<1>1. Hits(e) \subseteq Hits(e)' /\ IsFiniteSet(Hits(e)')
  <2>1. Hits(e)' \subseteq Requests
    BY DEF Hits
  <2>2. QED
    BY <2>1, HitsStay, FS_Subset DEF CacheAssumption
<1>2. QED
  BY <1>1, FS_Subset

LEMMA CountInit == ASSUME CacheAssumption, Init PROVE CountInv
<1>1. \A e \in Requests : Cardinality(Hits(e)) \in Nat
  BY HitsFinite
<1>2. \A e \in Requests : meta[e] # None => meta[e] = 0
  BY DEF Init
<1>3. HitCountNotAbove
  BY <1>1, <1>2 DEF HitCountNotAbove
<1>4. CountedBefore
  BY DEF Init, CountedBefore, CacheAssumption
<1>5. QED
  BY <1>3, <1>4 DEF CountInv

\* The number of hits per entry.
HitsOf == [e \in Requests |-> Cardinality(Hits(e))]

LEMMA HitsOfGrows ==
    ASSUME CacheAssumption, TypeInv, [Next]_cacheVars
    PROVE  /\ HitsOf \in [Requests -> Nat]
           /\ HitsOf' \in [Requests -> Nat]
           /\ \A e \in Requests : HitsOf[e] <= HitsOf'[e]
<1>1. ASSUME NEW e \in Requests
      PROVE  Cardinality(Hits(e)) \in Nat /\ Cardinality(Hits(e)') \in Nat
  <2>1. IsFiniteSet(Hits(e)')
    BY FS_Subset DEF CacheAssumption, Hits
  <2>2. QED
    BY <2>1, HitsFinite, FS_CardinalityType
<1>2. QED
  BY <1>1, HitsGrow DEF HitsOf

\* Counting a hit adds one to the hits on its entry.
LEMMA OneHitMore ==
    ASSUME CacheAssumption, TypeInv, NEW r \in Requests, NEW e \in Requests,
           WriteMeta(r), best[r] = e
    PROVE  HitsOf[e] + 1 <= HitsOf'[e]
<1>1. r \notin Hits(e)
  BY DEF WriteMeta, Hits
<1>2. Hits(e) \cup {r} \subseteq Hits(e)'
  BY DEF WriteMeta, Hits, TypeInv, TypeOK, LookupStates
<1>3. IsFiniteSet(Hits(e)')
  BY FS_Subset DEF CacheAssumption, Hits
<1>4. /\ Cardinality(Hits(e) \cup {r}) = Cardinality(Hits(e)) + 1
      /\ IsFiniteSet(Hits(e) \cup {r})
  BY <1>1, HitsFinite, FS_AddElement
<1>5. Cardinality(Hits(e) \cup {r}) <= Cardinality(Hits(e)')
  BY <1>2, <1>3, FS_Subset
<1>6. QED
  BY <1>4, <1>5, HitsFinite DEF HitsOf

\* The lost update between two hits, the set that zeroes a count which a late
\* hit has made anew, and the sweep: no step takes a count above the hits.
LEMMA CountStep ==
    ASSUME CacheAssumption, TypeInv, CountInv, [Next]_cacheVars PROVE CountInv'
<1> DEFINE Counts(m, l, c, b, h) ==
        /\ \A e \in Requests : m[e] # None => m[e] <= h[e]
        /\ \A r \in Requests : l[r] = "count" => c[r] <= h[b[r]]
<1>a. Counts(meta, lookup, counted, best, HitsOf)
  BY DEF CountInv, HitCountNotAbove, CountedBefore, HitsOf, TypeInv, LookedUp
<1>b. TypeInv'
  BY TypeStep
<1> SUFFICES Counts(meta', lookup', counted', best', HitsOf')
  BY <1>b DEF CountInv, HitCountNotAbove, CountedBefore, HitsOf, TypeInv, LookedUp
<1> USE <1>a, <1>b, HitsOfGrows DEF CacheAssumption, TypeInv, TypeOK, LookedUp, LookupStates,
        redis, getVars, setVars, sweepVars
<1>1. ASSUME NEW r \in Requests, Lookup(r)
      PROVE  Counts(meta', lookup', counted', best', HitsOf')
  BY <1>1 DEF Lookup
<1>2. ASSUME NEW r \in Requests, LookupFails(r)
      PROVE  Counts(meta', lookup', counted', best', HitsOf')
  BY <1>2 DEF LookupFails
<1>3. ASSUME NEW r \in Requests, FetchResponse(r)
      PROVE  Counts(meta', lookup', counted', best', HitsOf')
  BY <1>3 DEF FetchResponse
<1>4. ASSUME NEW r \in Requests, ReadMeta(r)
      PROVE  Counts(meta', lookup', counted', best', HitsOf')
  BY <1>4 DEF ReadMeta
<1>5. ASSUME NEW r \in Requests, WriteMeta(r)
      PROVE  Counts(meta', lookup', counted', best', HitsOf')
  <2>1. best[r] \in Requests /\ HitsOf[best[r]] + 1 <= HitsOf'[best[r]]
    BY <1>5, OneHitMore DEF WriteMeta
  <2>2. counted[r] <= HitsOf[best[r]] /\ counted[r] \in Nat
    BY <1>5 DEF WriteMeta
  <2>3. meta' = meta \/ meta' = [meta EXCEPT ![best[r]] = counted[r] + 1]
    BY <1>5 DEF WriteMeta, Count
  <2>4. \A e \in Requests : meta'[e] # None => meta'[e] <= HitsOf'[e]
    BY <2>1, <2>2, <2>3
  <2>5. QED
    BY <1>5, <2>4 DEF WriteMeta
<1>6. ASSUME NEW r \in Requests, NEW a, BeginSet(r, a)
      PROVE  Counts(meta', lookup', counted', best', HitsOf')
  BY <1>6 DEF BeginSet
<1>7. ASSUME NEW r \in Requests, SetVector(r)
      PROVE  Counts(meta', lookup', counted', best', HitsOf')
  BY <1>7 DEF SetVector
<1>8. ASSUME NEW r \in Requests, SetResponse(r)
      PROVE  Counts(meta', lookup', counted', best', HitsOf')
  BY <1>8 DEF SetResponse
<1>9. ASSUME NEW r \in Requests, SetMeta(r)
      PROVE  Counts(meta', lookup', counted', best', HitsOf')
  BY <1>9 DEF SetMeta
<1>10. ASSUME NEW r \in Requests, SetExpiry(r)
      PROVE  Counts(meta', lookup', counted', best', HitsOf')
  BY <1>10 DEF SetExpiry
<1>11. ASSUME NEW r \in Requests, SetFails(r)
      PROVE  Counts(meta', lookup', counted', best', HitsOf')
  BY <1>11 DEF SetFails
<1>12. ASSUME BeginSweep
      PROVE  Counts(meta', lookup', counted', best', HitsOf')
  BY <1>12 DEF BeginSweep
<1>13. ASSUME NEW e \in Requests, CheckExpiry(e)
      PROVE  Counts(meta', lookup', counted', best', HitsOf')
  BY <1>13 DEF CheckExpiry, Expired
<1>14. ASSUME RemoveEntry
      PROVE  Counts(meta', lookup', counted', best', HitsOf')
  BY <1>14 DEF RemoveEntry, MetaWithout
<1>15. ASSUME NEW e \in Requests, Expire(e)
      PROVE  Counts(meta', lookup', counted', best', HitsOf')
  BY <1>15 DEF Expire
<1>16. CASE UNCHANGED cacheVars
  BY <1>16 DEF cacheVars
<1>17. QED
  BY <1>1, <1>2, <1>3, <1>4, <1>5, <1>6, <1>7, <1>8, <1>9,
     <1>10, <1>11, <1>12, <1>13, <1>14, <1>15, <1>16
  DEF Next, Client, Sweeper

-----------------------------------------------------------------------------
(* The sweep. *)

\* What the sweep looks at was set, and what it is about to remove had expired
\* or was being set.
SweepInv ==
    /\ \A e \in todo : filling[e] \notin {"idle", "vectors"}
    /\ sweep = "remove" =>
          /\ victim \in todo
          /\ victim \notin raced => filling[victim] \notin Filling /\ victim \notin alive

\* What an entry has been given it still has, unless the sweep ran into it.
KeptInv ==
    \A e \in Requests : e \notin raced =>
        /\ filling[e] \in {"responses", "meta", "expiry"} => e \in vectors
        /\ filling[e] \in {"meta", "expiry"} => responses[e] = entry[e]

RaceInv == SweepInv /\ KeptInv /\ OrphansOnlyFromRaces /\ LiveEntryKept

LEMMA RaceInit == ASSUME CacheAssumption, Init PROVE RaceInv
  BY DEF CacheAssumption, Init, RaceInv, SweepInv, KeptInv, OrphansOnlyFromRaces, LiveEntryKept

LEMMA RaceStep ==
    ASSUME CacheAssumption, TypeInv, EntryInv, RaceInv, [Next]_cacheVars PROVE RaceInv'
<1> USE DEF CacheAssumption, TypeInv, TypeOK, LookedUp, LookupStates, FillStates, Filling,
        redis, getVars, setVars, sweepVars, EntryInv, Fields,
        RaceInv, SweepInv, KeptInv, OrphansOnlyFromRaces, LiveEntryKept
<1>1. ASSUME NEW r \in Requests, Lookup(r) PROVE RaceInv'
  BY <1>1 DEF Lookup
<1>2. ASSUME NEW r \in Requests, LookupFails(r) PROVE RaceInv'
  BY <1>2 DEF LookupFails
<1>3. ASSUME NEW r \in Requests, FetchResponse(r) PROVE RaceInv'
  BY <1>3 DEF FetchResponse
<1>4. ASSUME NEW r \in Requests, ReadMeta(r) PROVE RaceInv'
  BY <1>4 DEF ReadMeta
<1>5. ASSUME NEW r \in Requests, WriteMeta(r) PROVE RaceInv'
  BY <1>5 DEF WriteMeta, Count
<1>6. ASSUME NEW r \in Requests, NEW a, BeginSet(r, a) PROVE RaceInv'
  BY <1>6 DEF BeginSet
<1>7. ASSUME NEW r \in Requests, SetVector(r) PROVE RaceInv'
  BY <1>7 DEF SetVector
<1>8. ASSUME NEW r \in Requests, SetResponse(r) PROVE RaceInv'
  BY <1>8 DEF SetResponse
<1>9. ASSUME NEW r \in Requests, SetMeta(r) PROVE RaceInv'
  BY <1>9 DEF SetMeta
<1>10. ASSUME NEW r \in Requests, SetExpiry(r) PROVE RaceInv'
  BY <1>10 DEF SetExpiry
<1>11. ASSUME NEW r \in Requests, SetFails(r) PROVE RaceInv'
  BY <1>11 DEF SetFails
<1>12. ASSUME BeginSweep PROVE RaceInv'
  BY <1>12 DEF BeginSweep
<1>13. ASSUME NEW e \in Requests, CheckExpiry(e) PROVE RaceInv'
  BY <1>13 DEF CheckExpiry, Expired
<1>14. ASSUME RemoveEntry PROVE RaceInv'
  BY <1>14 DEF RemoveEntry, MetaWithout
<1>15. ASSUME NEW e \in Requests, Expire(e) PROVE RaceInv'
  BY <1>15 DEF Expire
<1>16. CASE UNCHANGED cacheVars
  BY <1>16 DEF cacheVars
<1>17. QED
  BY <1>1, <1>2, <1>3, <1>4, <1>5, <1>6, <1>7, <1>8, <1>9,
     <1>10, <1>11, <1>12, <1>13, <1>14, <1>15, <1>16
  DEF Next, Client, Sweeper

-----------------------------------------------------------------------------
(* The theorems. *)

CacheInv == TypeInv /\ EntryInv /\ CountInv /\ RaceInv

LEMMA CacheInit == ASSUME CacheAssumption, Init PROVE CacheInv
  BY TypeInit, EntryInit, CountInit, RaceInit DEF CacheInv

LEMMA CacheStep == ASSUME CacheAssumption, CacheInv, [Next]_cacheVars PROVE CacheInv'
  BY TypeStep, EntryStep, CountStep, RaceStep DEF CacheInv

\* The whole inductive invariant holds of every reachable state of the cache.
LEMMA CacheAlways == ASSUME CacheAssumption PROVE Spec => []CacheInv
<1>1. Init => CacheInv
  BY CacheInit
<1>2. CacheInv /\ [Next]_cacheVars => CacheInv'
  BY CacheStep
<1>3. QED
  BY <1>1, <1>2, PTL DEF Spec

\* Every operation of SemanticCache finds and leaves Redis, and the state of
\* each client's get() and set(), in their types.
THEOREM CacheTypes == ASSUME CacheAssumption PROVE Spec => []TypeOK
<1>1. CacheInv => TypeOK
  BY DEF CacheInv, TypeInv
<1>2. QED
  BY <1>1, CacheAlways, PTL

\* The hit_count that _increment_hit_count() reads and writes back in two round
\* trips never exceeds the hits, however many look-ups, sets and sweeps overlap.
THEOREM CountsAtMostTheHits == ASSUME CacheAssumption PROVE Spec => []HitCountNotAbove
<1>1. CacheInv => HitCountNotAbove
  BY DEF CacheInv, CountInv
<1>2. QED
  BY <1>1, CacheAlways, PTL

\* The response that get() fetches in a round trip of its own is the one answer
\* that was set, for a question above the threshold, by a request that missed.
THEOREM OneAuthorPerHit == ASSUME CacheAssumption PROVE Spec => []HitHasOneAuthor
<1>1. CacheInv => HitHasOneAuthor
  BY DEF CacheInv, TypeInv, TypeOK, EntryInv, SetsAfterMiss, FoundAnother, ServedFromFound,
         HitHasOneAuthor
<1>2. QED
  BY <1>1, CacheAlways, PTL

\* A response or a hit count that invalidate_expired() cannot find any more, for
\* want of its vector, is of an entry a sweep met in the middle of its set() or
\* of a look-up's count.
THEOREM OrphansAreRaces == ASSUME CacheAssumption PROVE Spec => []OrphansOnlyFromRaces
<1>1. CacheInv => OrphansOnlyFromRaces
  BY DEF CacheInv, RaceInv
<1>2. QED
  BY <1>1, CacheAlways, PTL

\* invalidate_expired() takes no entry whose time to live has not run out, but
\* for one whose expiry key its set() had not yet written.
THEOREM LiveEntriesStay == ASSUME CacheAssumption PROVE Spec => []LiveEntryKept
<1>1. CacheInv => LiveEntryKept
  BY DEF CacheInv, RaceInv
<1>2. QED
  BY <1>1, CacheAlways, PTL
=============================================================================
