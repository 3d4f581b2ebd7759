------------------------------ MODULE Ingestion ------------------------------
(***************************************************************************)
(* From a document to the stores: what a worker does with a message        *)
(* (_process() of ingestion/workers/pdf_worker.py and html_worker.py) and  *)
(* the API with an upload (_process_inline() of api/ingest.py), the        *)
(* embedding service they call (ingestion/embedding/services.py), and the  *)
(* job that re-queues documents whose vectors are missing                  *)
(* (ingestion/storage/reconciliation.py).  What is computed without an     *)
(* await is in module Chunking.                                            *)
(*                                                                         *)
(* One job runs at a time, for the first message of the topic or for an    *)
(* upload.  Of a store only what it leaves behind matters here, wherever   *)
(* it stops; module StorageWriter looks into it, and at stores that        *)
(* overlap.  Module WorkerLoop looks at commits, takeovers, lost records   *)
(* and the two groups that read the topic: of the two workers only the one *)
(* whose parser the document is meant for can store it, the other one      *)
(* writes a dead letter.                                                   *)
(*                                                                         *)
(* A definition named ...Mutant is a plausible bug of the definition that  *)
(* follows it; no specification uses it.                                   *)
(***************************************************************************)
EXTENDS Chunking

CONSTANTS
    Docs,           \* documents
    Contents,       \* Contents[d]: what fetching document d may return
    Perishable,     \* documents whose source may cease to exist
    UploadTitle,    \* UploadTitle[d]: tokens of the title an upload of d brings, 0 for none
    MinTokens,      \* shorter texts are refused
    BatchSize,      \* EMBED_BATCH_SIZE
    EmbedRetries,   \* EMBED_MAX_RETRIES
    MessageRetries, \* KAFKA_MAX_RETRIES
    Limit,          \* documents a round of the reconciliation picks, 50 in the code
    MaxTopic,       \* bound: the topic is full, but for the rest of a round
    MaxFaults,      \* bound: failures and crashes
    None

Types == {"pdf", "docx", "html", "markdown", "txt", "code", "unknown"}

ASSUME IngestionAssumption ==
    /\ IsFiniteSet(Docs)
    /\ \A d \in Docs : Contents[d] \subseteq [type : Types, elements : Seq(Element)]
    /\ UploadTitle \in [Docs -> Nat]
    /\ FixedSize \in Nat /\ FixedOverlap \in Nat /\ FixedOverlap < FixedSize
    /\ ChildTokens \in Nat /\ LeastOverlap \in Nat /\ ChildOverlap < ChildTokens
    /\ ParentTokens \in Nat \ {0} /\ PreviewTokens \in Nat \ {0} /\ MaxTokens \in Nat \ {0}
    /\ ListedSections \in Nat
    /\ MinTokens \in Nat \ {0}
    /\ BatchSize \in Nat \ {0}
    /\ EmbedRetries \in Nat \ {0}
    /\ MessageRetries \in Nat \ {0}
    /\ Limit \in Nat /\ MaxTopic \in Nat /\ MaxFaults \in Nat
    /\ None \notin Nat \cup Docs

VARIABLES
    docType,  \* documents.doc_type
    gone,     \* documents that cannot be fetched any more
    topic,    \* messages not committed; the first one is processed next
    inline,   \* the document whose upload is being processed, or None
    step,     \* where the job is
    raw,      \* what it has fetched
    chunks,   \* the chunks of the message's document
    vectors,  \* chunk.vector: the position of the text it was computed from
    done,     \* how many chunks have been embedded
    tries,    \* failed attempts at the batch that follows
    stored,   \* what Postgres and Qdrant hold of a document
    wrote,    \* history: the last job of a document had written its rows
    faults    \* how many of the faults that MaxFaults bounds have happened

job == <<inline, step, raw, chunks, vectors, done, tries>>
vars == <<docType, gone, topic, inline, step, raw, chunks, vectors, done, tries, stored, wrote, faults>>

Message == [doc : Docs, retry : 0..(MessageRetries - 1)]

\* pending: there are rows left 'pending_vector'; live: there are rows 'indexed';
\* shown: what a search finds of the document.
Holdings ==
    [pending : BOOLEAN, live : BOOLEAN, shown : {"nothing", "part", "whole", "mixture"}]

\* How far a store can have got when it stops.
StoreStops == {"begun", "deleted", "retired", "written", "upserted"}

TypeOK ==
    /\ docType \in [Docs -> Types]
    /\ gone \in SUBSET Docs
    /\ topic \in Seq(Message)
    /\ inline \in Docs \cup {None}
    /\ step \in {"idle", "parse", "embed", "store"}
    /\ raw \in Seq(Element)
    /\ chunks \in Seq([level : 0..2, parent : Nat, tokens : Seq(Token)])
    /\ vectors \in Seq(Nat \cup {None})
    /\ done \in Nat
    /\ tries \in 0..(EmbedRetries - 1)
    /\ stored \in [Docs -> Holdings]
    /\ wrote \in [Docs -> BOOLEAN]
    /\ faults \in 0..MaxFaults
    /\ step = "idle" => inline = None

Init ==
    /\ docType \in [Docs -> Types]
    /\ \A d \in Docs : \E c \in Contents[d] : c.type = docType[d]
    /\ gone = {}
    /\ topic = <<>>
    /\ inline = None
    /\ step = "idle"
    /\ raw = <<>>
    /\ chunks = <<>>
    /\ vectors = <<>>
    /\ done = 0
    /\ tries = 0
    /\ stored = [d \in Docs |-> [pending |-> FALSE, live |-> FALSE, shown |-> "nothing"]]
    /\ wrote = [d \in Docs |-> FALSE]
    /\ faults = 0

Fault == faults < MaxFaults /\ faults' = faults + 1

Doc == IF inline = None THEN topic[1].doc ELSE inline

At(s) == step = s /\ (inline = None => topic # <<>>)

\* Local variables go with the call.
EndJob ==
    /\ inline' = None
    /\ step' = "idle"
    /\ raw' = <<>>
    /\ chunks' = <<>>
    /\ vectors' = <<>>
    /\ done' = 0
    /\ tries' = 0

\* The request is answered, or the message is committed and, if need be, the dead
\* letter is written.
Commit(written) ==
    /\ EndJob
    /\ topic' = IF inline = None THEN Tail(topic) ELSE topic
    /\ wrote' = [wrote EXCEPT ![Doc] = written]

-----------------------------------------------------------------------------
(* The intake, and the outside world. *)

\* A submission or an update, as module Intake publishes it, or a retry of the
\* other group of workers.
Submit(d) ==
    /\ Len(topic) < MaxTopic
    /\ d \notin gone
    /\ topic' = Append(topic, [doc |-> d, retry |-> 0])
    /\ UNCHANGED <<docType, gone, job, stored, wrote, faults>>

Vanish(d) ==
    /\ d \in Perishable \ gone
    /\ gone' = gone \cup {d}
    /\ UNCHANGED <<docType, topic, job, stored, wrote, faults>>

-----------------------------------------------------------------------------
(* Fetch, parse, chunk. *)

Fetched(d) == {c.elements : c \in {c \in Contents[d] : c.type = docType[d]}}

Fetch ==
    /\ At("idle")
    /\ Doc \notin gone
    /\ step' = "parse"
    /\ raw' \in Fetched(Doc)
    /\ UNCHANGED <<docType, gone, topic, inline, chunks, vectors, done, tries,
                   stored, wrote, faults>>

\* _process_inline(): the request has brought the document, or has fetched it.
Inline(d) ==
    /\ step = "idle"
    /\ inline' = d
    /\ step' = "parse"
    /\ raw' \in Fetched(d)
    /\ UNCHANGED <<docType, gone, topic, chunks, vectors, done, tries, stored, wrote, faults>>

\* What cannot be fetched any more fails every time; anything may fail once.
FetchError == IF Doc \in gone THEN UNCHANGED faults ELSE Fault

\* Mutant: the count is compared before it is incremented.
MayRetryMutant == topic[1].retry < MessageRetries

MayRetry == topic[1].retry + 1 < MessageRetries

\* RetryableError: the message is published again, the last time a dead letter.
FetchFailsTransiently ==
    /\ At("idle")
    /\ FetchError
    /\ IF MayRetry
       THEN /\ topic' = Append(Tail(topic), [topic[1] EXCEPT !.retry = @ + 1])
            /\ UNCHANGED <<job, wrote>>
       ELSE Commit(FALSE)
    /\ UNCHANGED <<docType, gone, stored>>

\* PoisonPillError, or an exception nobody foresaw.
FetchFailsForGood ==
    /\ At("idle")
    /\ FetchError
    /\ Commit(FALSE)
    /\ UNCHANGED <<docType, gone, stored>>

\* len(raw_text.strip()), in tokens
TooShort(s, type) ==
    LET t == Tokens(s, Parsed(s, type).parts)
        text == {i \in DOMAIN t : ~t[i].blank}
    IN  text = {} \/ Max(text) + 1 - Min(text) < MinTokens

\* The types one of the two workers has a parser for.
ParsedByWorkers == {"pdf", "docx", "html"}

\* The workers set a title only for pages, whose chunker makes no use of it.
Title ==
    [k \in 1..(IF inline = None THEN 0 ELSE UploadTitle[inline]) |->
        [of |-> 0, nth |-> k, blank |-> FALSE]]

\* The API takes a short page as it is, unless no chunk comes of it; every other
\* short text is refused.
Refused(s, type) ==
    \/ inline = None /\ type \notin ParsedByWorkers
    \/ (inline = None \/ type # "html") /\ TooShort(s, type)
    \/ inline # None /\ Chunked(s, type, Title) = <<>>

ParseAndChunk ==
    /\ At("parse")
    /\ IF Refused(raw, docType[Doc])
       THEN Commit(FALSE)
       ELSE /\ step' = "embed"
            /\ chunks' = Chunked(raw, docType[Doc], Title)
            /\ vectors' = [i \in DOMAIN chunks' |-> None]
            /\ UNCHANGED <<topic, inline, raw, done, tries, wrote>>
    /\ UNCHANGED <<docType, gone, stored, faults>>

-----------------------------------------------------------------------------
(* embed_chunks(): batch by batch, each with retries. *)

BatchEnd == Least(done + BatchSize, Len(chunks))

InBatch(i) == done < i /\ i <= BatchEnd

\* vectors[i] is attached to the chunk it was computed from.
EmbedBatch ==
    /\ At("embed")
    /\ vectors' = [i \in DOMAIN vectors |-> IF InBatch(i) THEN i ELSE vectors[i]]
    /\ done' = BatchEnd
    /\ tries' = 0
    /\ step' = IF BatchEnd = Len(chunks) THEN "store" ELSE "embed"
    /\ UNCHANGED <<docType, gone, topic, inline, raw, chunks, stored, wrote, faults>>

\* The vectors of a batch without the one of chunk k: zip() attaches what there
\* is, one by one, before it notices that the last one is missing.
Misplaced(k) ==
    [i \in DOMAIN vectors |->
        IF ~InBatch(i) \/ i = BatchEnd THEN vectors[i] ELSE IF i < k THEN i ELSE i + 1]

\* Mutant: what has been embedded of the batch counts as done.
DoneMutant == IF vectors' # vectors THEN BatchEnd - 1 ELSE done

DoneAfterFailure == done

\* The backend raises, or returns too few vectors; the batch is tried again, and
\* the last failure leaves embed_chunks().
EmbedFails ==
    /\ At("embed")
    /\ Fault
    /\ IF tries + 1 < EmbedRetries
       THEN /\ \/ UNCHANGED vectors
               \/ \E k \in DOMAIN vectors : InBatch(k) /\ vectors' = Misplaced(k)
            /\ tries' = tries + 1
            /\ done' = DoneAfterFailure
            /\ UNCHANGED <<topic, inline, step, raw, chunks, wrote>>
       ELSE Commit(FALSE)
    /\ UNCHANGED <<docType, gone, stored>>

-----------------------------------------------------------------------------
(* store(), as far as it gets. *)

\* Every row of the document is retired, those of failed stores too.
Retired(h) == [pending |-> FALSE, live |-> FALSE, shown |-> "nothing"]

\* The points are deleted by the rows there are; without an 'indexed' row there
\* is nothing to replace.
Replaced(h) == IF h.live THEN Retired(h) ELSE h

\* Mutant: the rows are inserted as 'indexed'.
WrittenMutant(h) == [h EXCEPT !.live = TRUE]

Written(h) == [h EXCEPT !.pending = TRUE]

Shows(h, what) == [h EXCEPT !.shown = IF @ = "nothing" THEN what ELSE "mixture"]

\* What a store that stopped after one of its statements leaves.
Left(h, after) ==
    CASE after = "begun" -> h
      [] after = "deleted" -> IF h.live THEN [h EXCEPT !.shown = "nothing"] ELSE h
      [] after = "retired" -> Replaced(h)
      [] after = "written" -> Written(Replaced(h))
      [] after = "upserted" -> Shows(Written(Replaced(h)), "part")

\* Its own rows end 'indexed'; rows of failed stores stay as they are.
Finished(h) == [Shows(Replaced(h), "whole") EXCEPT !.live = TRUE]

StoreSucceeds ==
    /\ At("store")
    /\ stored' = [stored EXCEPT ![Doc] = Finished(@)]
    /\ Commit(TRUE)
    /\ UNCHANGED <<docType, gone, faults>>

\* It had got as far as its rows.
WroteRows(after) == after \in {"written", "upserted"}

\* Any exception is unforeseen: a dead letter or an error, no retry.
StoreFails(after) ==
    /\ At("store")
    /\ Fault
    /\ stored' = [stored EXCEPT ![Doc] = Left(@, after)]
    /\ Commit(WroteRows(after))
    /\ UNCHANGED <<docType, gone>>

\* The process dies.  A message has not been committed, a request is gone.
Crash ==
    /\ step # "idle" /\ At(step)
    /\ Fault
    /\ \E after \in StoreStops :
          /\ after # "begun" => step = "store"
          /\ stored' = [stored EXCEPT ![Doc] = Left(@, after)]
          /\ wrote' = IF inline = None THEN wrote
                      ELSE [wrote EXCEPT ![Doc] = WroteRows(after)]
    /\ EndJob
    /\ UNCHANGED <<docType, gone, topic>>

-----------------------------------------------------------------------------
(* ReconciliationJob. *)

\* Mutant: a document with 'indexed' rows is not looked for.
StaleDocsMutant == {d \in Docs : stored[d].pending /\ ~stored[d].live}

\* By the time a round looks for them, rows left pending are old enough.
StaleDocs == {d \in Docs : stored[d].pending}

\* What a SELECT DISTINCT ... LIMIT without an order may return.
Selections ==
    {q \in [1..Least(Limit, Cardinality(StaleDocs)) -> StaleDocs] :
        \A i, j \in DOMAIN q : q[i] = q[j] => i = j}

\* Whether a document is already being processed is not asked.
Requeue(q, n) ==
    /\ Len(topic) < MaxTopic
    /\ topic' = topic \o [i \in 1..n |-> [doc |-> q[i], retry |-> 0]]
    /\ UNCHANGED <<docType, gone, job, stored, wrote>>

RunOnce ==
    /\ StaleDocs # {}
    /\ \E q \in Selections : Requeue(q, Len(q))
    /\ UNCHANGED faults

\* produce() raises, and the round ends with what it has published.
RunOnceFails ==
    /\ StaleDocs # {}
    /\ Fault
    /\ \E q \in Selections : \E n \in 0..Len(q) : n < Len(q) /\ Requeue(q, n)

-----------------------------------------------------------------------------

Job ==
    Fetch \/ FetchFailsTransiently \/ FetchFailsForGood \/ ParseAndChunk
    \/ EmbedBatch \/ EmbedFails \/ StoreSucceeds
    \/ \E after \in StoreStops : StoreFails(after)

Next ==
    \/ Job \/ Crash \/ RunOnce \/ RunOnceFails
    \/ \E d \in Docs : Submit(d) \/ Vanish(d) \/ Inline(d)

Spec == Init /\ [][Next]_vars

\* The worker goes on as long as there is a message: uploads are processed in
\* another process, and that one job runs at a time does not keep it from it.
WorkerGoesOn == []<>(topic = <<>>) \/ []<><<Job /\ inline = None>>_vars

\* A running worker goes on, and the reconciliation, were it started, comes round
\* again and again.  Strong fairness makes up for MaxTopic: the job itself never
\* waits for room in the topic.
FairSpec == Spec /\ WorkerGoesOn /\ SF_vars(RunOnce)

-----------------------------------------------------------------------------
(* What the chunks of a document are, while it is processed. *)

Chunks == {chunks[i] : i \in DOMAIN chunks}
TokensIn(set) == UNION {ToSet(c.tokens) : c \in set}

\* What a chunker may leave out of all its chunks: blank space and, of a document
\* with sections, what lies in none of them and behind the preview: tables, and
\* the text before the first title.
MayBeLost(t, s, doc) ==
    \/ t.blank
    \/ /\ doc.sections # <<>>
       /\ t \notin ToSet(First(Tokens(s, doc.parts), PreviewTokens))
       /\ \/ s[t.of].kind = "table"
          \/ \A e \in 1..t.of : s[e].kind # "title"

\* Nothing else of a document is lost, in whatever order its sentences, titles,
\* tables and topics come, and no document that is long enough has no chunks.
NothingLost ==
    At("embed") =>
        LET doc == Parsed(raw, docType[Doc])
        IN  /\ chunks # <<>>
            /\ \A t \in ToSet(Tokens(raw, doc.parts)) :
                  t \in TokensIn(Chunks) \/ MayBeLost(t, raw, doc)

\* The tree of a hierarchical document: rows are inserted in the order of the
\* chunks, and a parent's row must exist before those of its children; a child
\* is a part of its parent unless the parent was cut to its size.
ParentsHoldTheirChildren ==
    \A i \in DOMAIN chunks : chunks[i].parent # 0 =>
        LET parent == chunks[chunks[i].parent]
        IN  /\ chunks[i].parent < i
            /\ parent.level + 1 = chunks[i].level
            /\ chunks[i].level = 2 =>
                  \/ ToSet(chunks[i].tokens) \subseteq ToSet(parent.tokens)
                  \/ Len(parent.tokens) = ParentTokens

Ceiling(type, level) ==
    CASE Strategy(type) = "fixed" -> FixedSize
      [] Strategy(type) = "semantic" -> MaxTokens
      [] OTHER -> <<PreviewTokens, ParentTokens, ChildTokens>>[level + 1]

\* A chunk exceeds its size for two reasons only: in a semantic document, when it
\* is the whole of a single sentence, or one topic that came when another was
\* buffered; and as a summary, by the titles above a preview that has its size.
OversizedOnlyByTopicOrTitles ==
    At("embed") =>
        LET doc == Parsed(raw, docType[Doc])
            sentences == Sentences(raw, doc)
            segments == Segments(raw, sentences)
        IN  \A c \in Chunks : Len(c.tokens) > Ceiling(docType[Doc], c.level) =>
                \/ /\ Strategy(docType[Doc]) = "semantic"
                   /\ \/ Len(sentences) < 2
                      \/ c.tokens \in ToSet(Tail(segments))
                \/ /\ Strategy(docType[Doc]) = "hierarchical" /\ c.level = 0
                   /\ Len(c.tokens) <= Len(Header(doc, Title)) + PreviewTokens

-----------------------------------------------------------------------------
(* What is embedded, stored and found again. *)

\* Each chunk is stored with the vector of its own text, whatever batches failed
\* or came back short before.
OwnVectors ==
    At("store") => Len(vectors) = Len(chunks) /\ \A i \in DOMAIN vectors : vectors[i] = i

Idle(d) == inline # d /\ \A i \in DOMAIN topic : topic[i].doc # d

\* A document that is not searchable as one version, though nobody is working on
\* it, has rows for the reconciliation to find, unless its last job ended before
\* it had written any.
UnfinishedIsPending ==
    \A d \in Docs :
        Idle(d) /\ stored[d].shown # "whole" /\ ~stored[d].pending => ~wrote[d]

Healed(d) == stored[d] = [pending |-> FALSE, live |-> TRUE, shown |-> "whole"]

\* The one way out of the reconciliation's sight: a store has retired the rows it
\* would have found, and its message came to nothing.
OutOfSight(d) == Idle(d) /\ ~stored[d].pending /\ stored[d].shown = "nothing"

\* Documents that can be fetched at all times, and are long enough.
Sound == {d \in Docs \ Perishable : \A c \in Contents[d] : ~TooShort(c.elements, c.type)}

\* A round picks LIMIT documents in no order and forgets what it picked before:
\* documents that no worker can store may be all it ever picks.
Crowded ==
    Cardinality({d \in StaleDocs : d \notin Sound \/ docType[d] \notin ParsedByWorkers}) >= Limit

\* Rows that are pending for too long are healed in the end, by as many rounds
\* as it takes, if a worker can parse the document, unless documents that cannot
\* be stored fill the rounds for ever.
HealedInTheEnd ==
    \/ \A d \in Sound :
          docType[d] \in ParsedByWorkers /\ stored[d].pending ~> Healed(d) \/ OutOfSight(d)
    \/ <>[]Crowded
=============================================================================
