# Verification of the Distributed RAG Pipeline

TLA+ models of the pipeline in `src/`, checked with TLC and proved about with
TLAPS. Line numbers below are lines of `src/`.

## 1. The system

Documents enter over HTTP (`api/ingest.py`), are registered in Postgres by
`ingestion/intake/validator.py`, and are either ingested inline or published to
the Kafka topic `raw-documents`. Worker processes
(`ingestion/workers/`) parse, chunk and embed them, and
`ingestion/storage/writer.py` stores the chunks in Postgres and their vectors
in Qdrant. Queries (`query/engine.py`) look into a semantic cache in Redis,
retrieve vectors from Qdrant and texts from Postgres, and generate an answer.

| Component | State it keeps | Operations | Hard behaviour | What makes it correct |
|---|---|---|---|---|
| Storage writer (`ingestion/storage/writer.py`) | `chunks` and `documents` rows in Postgres, points in Qdrant | `store()`: a chain of awaited statements | two stores of one document interleave at every `await`; failures and crashes between statements; a Qdrant request that lands after its timeout | a point has a row; an `indexed` row has its vector; what is searchable is one finished version or what failed stores left |
| Worker loop (`ingestion/workers/base_worker.py`) | committed offset, fetch position, producer buffer | poll, process, retry, dead letter, commit | rebalances, crashes, refused commits, buffered records, several groups on one topic | at-least-once; a commit skips nothing; a document comes to an end |
| Worker manager (`ingestion/workers/worker_manager.py`) | processes, restart counters | start, restart, stop | a restart budget that is never refilled | a dead worker is restarted while the budget lasts |
| Intake validator and producer (`ingestion/intake/`) | `documents` row (hash, status), the Kafka buffer | validate, register, publish | concurrent submissions of one URL; a failure after the registration | a submitted document is ingested or refused for a reason that holds |
| Ingestion API (`api/ingest.py`) | `documents.status`, `last_error` | submit, ingest inline, report | an inline failure racing another store; a crash between a store and its answer | the status tells what happened to the document |
| Parsing workers (`pdf_worker.py`, `html_worker.py`) | none of their own | fetch, parse, chunk, store | classification of failures as transient or final | transient failures are retried |
| Reconciliation (`ingestion/storage/reconciliation.py`) | none of its own | re-queue documents with rows left `pending_vector` | nothing starts it; re-queues what cannot be stored | stuck documents get unstuck |
| Chunking (`ingestion/chunking/`) | none | pure functions from a parsed document to a list of chunks | window arithmetic, empty sections, topics of any length | nothing of a text is lost; children follow their parents |
| Embedding (`ingestion/embedding/services.py`) | `chunk.vector` of the chunks it is given | embed batch by batch, with retries | a batch that fails half-way | each chunk has the vector of its own text |
| Semantic cache (`query/cache.py`) | four Redis hashes and expiry keys | get, set, invalidate, count hits | non-atomic round trips, lost updates, entries that outlive their expiry | a hit returns one whole answer; nothing is left behind that no sweep finds |
| Query engine (`query/engine.py`) | attributes of one shared object | query, stream | concurrent requests share the attributes, clients leave, documents are replaced meanwhile | an answer reports, cites and caches what is its own request's |
| Retrieval and prompt (`query/retriever.py`, `reranker.py`, `prompt_builder.py`) | none | search, fuse, merge, deduplicate, rerank, fill the prompt | several reads of a changing index, a budget with a floor | filters hold; the prompt keeps its budget |
| Schema (`infrastructure/postgres/schema.sql`) | the tables | - | - | statuses mean what their comments say |
| API process, telemetry, scripts, Qdrant set-up | - | wiring | - | - |

The hazards of this code, each at its line with the properties that watch it,
are listed in `PROJECT.json`.

## 2. Modules

| Module | Models | Checked by |
|---|---|---|
| `StorageWriter` | `StorageWriter.store()` over Postgres and Qdrant | `MCStorageWriter` |
| `StorageWriterProofs` | theorems about it, and that it implements `DocumentIndex` | TLAPS |
| `WorkerLoop` | `BaseWorker.run()`, its Kafka group and producer, the manager's restarts | `MCWorkerLoop` |
| `WorkerLoopProofs` | theorems about it | TLAPS |
| `Intake` | a submission from the endpoint through validator, producer or inline ingestion to the status the workers leave | `MCIntake` |
| `IntakeProofs` | theorems about it | TLAPS |
| `Lists` | slices, comprehensions and sorted sets, as operators | in `Chunking` and `Retrieval` |
| `ListProofs` | what they and the community's `FlattenSeq` return, for lists of any length | TLAPS |
| `FoldProofs` | a rule for loops over lists | TLAPS |
| `Chunking` | the parser's sections and the three chunkers, as operators | in `Ingestion` |
| `Ingestion` | a job from fetching to storing, the embedding service, the reconciliation | `MCIngestion` |
| `IngestionProofs` | theorems about both | TLAPS |
| `DocumentIndex` | what the storage layer promises the query side (abstract) | implemented by `StorageWriter` |
| `SemanticCache` | `get()`, `set()` and `invalidate_expired()` over Redis | in `QueryEngine` |
| `SemanticCacheProofs` | theorems about it | TLAPS |
| `Retrieval` | search, fusion, merge, reranking and prompt budget, as operators | in `QueryEngine` |
| `QueryEngine` | concurrent `stream()` and `query()` on one engine, the cache and the index | `MCQueryEngine` |
| `QueryEngineProofs` | theorems about it and about `Retrieval` | TLAPS |

On the ingestion side four modules look at overlapping parts of the system, each
at the detail its hazards need. `StorageWriter` looks into one call of `store()`,
statement by statement, and at calls that overlap; in `Intake` and `WorkerLoop` a
call is a single step, in `Ingestion` it is what it leaves behind wherever it
stops. `WorkerLoop` looks into the consumer loop, of which `Intake` keeps what a
group has made of a message (due, busy, stored, given up, handled again)
and `Ingestion` the first message of the topic and its retries. `DocumentIndex`
joins the two sides: it is what `StorageWriter` implements and what `QueryEngine`
takes for its environment. `QueryEngine` runs on an instance of `SemanticCache`.

Definitions named `...Mutant` are plausible bugs of the definition they stand
before. No specification uses them; they show that each property can fail.

### StorageWriter

State and code: `row` is `chunks.status` (`absent` when there is no row),
`points` the points in Qdrant, `docStatus`, `total` and `tags` columns of
`documents`. Per call of `store()` (an *attempt*): `pc` is the awaited statement
it executes next, `run` whether it runs, `selected` its `old_ids`, `upserted`
the loop variable of the batches. `latest` and `overlapped` are history
variables that the properties read and no action does.

One action is one awaited statement, because that is where calls interleave:
`CountIndexed`, `SelectOldIds`, `DeletePoints` and `RetireRows` are
`_delete_old_chunks_if_update()` (lines 87-102), `WriteRows` is
`_write_postgres_batch()` (one `executemany`, which asyncpg runs as one
transaction), `UpsertBatch` one round of the loop at lines 182-189, `MarkChunks`
and `MarkDocument` the two UPDATEs of `_mark_indexed()`, and `AutoTag` lines
61-85. `Fail` ends an attempt before any of its statements: an exception, a
crash, or a Qdrant result that is not `completed`. If a Qdrant request was
outstanding it becomes `in_doubt`, and Qdrant may carry it out later
(`landed`). `Register` is the validator's UPDATE for changed content.

Left out: vectors, payloads, texts, and what the tags say. Every chunk has a
vector, because `embed_chunks()` attaches one to each chunk or raises; the branch
at lines 166-168 and the empty list of points at 180-181 are not taken. Chunk
identifiers are fresh for every attempt: the chunkers call `uuid4()`. Rows are
never removed, so the `if qdrant_ids` at line 97 is always taken.

### WorkerLoop

`log` is one partition of `raw-documents`; `committed` and `owner` are the
group coordinator's, `position` is librdkafka's, `current` and `phase` are
where `_handle_message()` stands, `queue` is the buffer of `_dlq_producer`,
`dlq` the dead-letter topic, `up` and `restarts` the manager's. `handled` and
`lost` are history variables, `stored` records that `_process()` returned.

`Poll`, `Succeed`, `FailTransiently`, `FailForGood` and `Commit` are the loop.
`produce()` only appends to the buffer; `Deliver` and `Drop` are what librdkafka
does with it afterwards. `Stop` is a crash, an exception out of `run()` or a
shutdown: in each the buffer is lost, since `run()` closes the consumer and
never flushes the producer. `Restart` is the manager's loop. `Assign`, `Evict`
and `Revoke` are the consumer group protocol as the code uses it (external).

One partition is modelled: the message key is the source type and the loop
handles partitions independently. `_process()` is atomic here: its statements
are those of `StorageWriter`, which lets two calls for one document overlap and
so does not depend on how the loop serialises them.

### Intake

`row` is the `documents` row of a URL (`content_hash`, `status`; the unique index
makes it one), `source` what fetching the URL returns, `url`, `bytes` and
`direct` the arguments of a request, `pc` where it stands or how it was answered,
`work` and `fetched` what each worker group has made of its message, `stored` the
content that was stored last. `registrant`, `overlapped` and `drifted` are history
variables: the request that registered a URL last, the URLs of which two
ingestions have been under way at once, and those of which a worker fetched
another content than was registered.

`IngestUrl`, `IngestFile` and `IngestText` are the endpoints up to
`_ingest_bytes()`; the upload directory is written before the validation, as in
the code. `Validate` is `validate()` up to the SELECT of `_check_duplicate()`,
`Insert` and `Update` are the statements of `_register_document()`, after which the
request is published or ingested inline. `Publish` is `publish()`: an error, or
30 seconds without a delivery report, leaves open whether the message is in the
topic. `Inline` is `_process_inline()` up to the mark 'indexed', `Answer` the tagging after
it (writer.py:61-85, an error of which is caught there) and the answer;
`RecordFailure` is the UPDATE of the except clause, which may fail itself. `Crash`
ends the API process anywhere, also between the store and the answer. `Fetch`,
`Finish` and `GiveUp` are the workers: they fetch the URL again and store it, or give
it up. No worker stores an empty list: what is too short is refused before, and of
every other text a chunker makes a chunk. `Redeliver` is an uncommitted offset or a
duplicated retry. Both worker groups handle every message, whatever
its document type, as the code does. `Edit` is the owner of a page (external).

Requests interleave at every step. In one API process the blocking `publish()`
keeps other requests waiting; several processes share the database, so the model
does not rely on that. Parsing, chunking and embedding are the alternatives of
`Inline` and `Finish`. A store is one step; an UPDATE of `documents` that commits but is
reported as an error is not represented. `RecordFailure` and `Store` name the row by its identifier
in the code and by its URL here, which is the same: rows are never removed.

### Chunking and Ingestion

`Chunking` is the data of the pipeline and has no state. A document is a sequence
of elements (sentences, titles, tables, blank space, what a parser drops), and a
token is a position in an element, so that a property can say where each token
went. `Parsed` is what `_parse()` makes of it: the text and, of a PDF, the sections
its titles begin. `FixedChunks`, `HierarchicalChunks` and `SemanticChunks` are the
three chunkers, `Strategy` is `select_chunker()`. `Windows` is the loop
`start += size - overlap` all of them use; `WithSection` appends the chunk of a
section and its children, `WithSegment` is one turn of the greedy merge of
`_merge_segments()`. Which sentences differ in topic is a property of the
sentences (`shift`). The summary of a document is its title, the titles of its first
sections and the preview of its text (`Summary`); only the preview is cut. Of the types
that have a summary only uploads bring a title (`UploadTitle`): the workers set one for
pages only. A text of
blank space only gives no chunks, whatever its type. A worker has refused such a
text before; `_process_inline()` takes a short page and fails when no chunk comes of
it, which is the last case of `Refused`.

`Ingestion` runs one job at a time over it. `topic` is the queue of messages that
are not committed, `inline` the document of an upload the API processes itself;
`step`, `raw`, `chunks`, `vectors`, `done` and `tries` are the local variables of
the job, `stored` what Postgres and Qdrant hold of a document. `wrote` is a history
variable. `Fetch`, `FetchFailsTransiently`, `FetchFailsForGood` and `ParseAndChunk`
are `_process()` and the loop's reactions; `Inline` is `_process_inline()`;
`EmbedBatch` and `EmbedFails` are a batch of `embed_chunks()`, whose `zip()` may have
attached the vectors of a short answer to the wrong chunks (`Misplaced`) before it
is tried again; `StoreSucceeds`, `StoreFails` and `Crash` leave what the store has
got to. `RunOnce` and `RunOnceFails` are a round of the reconciliation. `Submit` and
`Vanish` are the outside world.

Workers have parsers for PDF, DOCX and HTML only; plain text, Markdown and code
can be ingested inline and no other way (`ParsedByWorkers`), though the
reconciliation re-queues them all the same. The API takes a page that is too short
for the workers as it is. `MinTokens` stands for the differing least lengths of the
parsers, which are counted in characters. Only one of the two worker groups can
parse a given message; the other one writes a dead letter and changes nothing
here. Stores that overlap are the subject of `StorageWriter`.

### DocumentIndex

The abstract specification of the storage layer, for what a search can find. The
retriever looks at points in Qdrant and never at `chunks.status`
(retriever.py:209-250), so a version is searchable in parts, batch by batch, before
anything is marked, and what a failed store has left stays searchable beside its
retry. `searchable` is the set of chunks a search can find, `progress` how far the
store of each version is, `blurred` the documents whose stores have overlapped, of
which nothing is promised any more, as nothing locks a document. A running store adds
chunks only while no finished version of the document is searchable (`Add`), takes
other versions' away all at once (`Remove`), and finishes when all of it is searchable
(`Finish`); a failed one leaves what it has added (`Abandon`), and the request it left
outstanding may still be carried out (`CarriedOut`).

`StorageWriter` implements it (`SearchableAsPromised`). The refinement mapping takes
`searchable` for the points themselves, `progress` from where an attempt stands and
`blurred` for `overlapped`. What the query side builds on follows from the promises
(`Orderly`): two versions of a document are searchable side by side only if one of
them is what a failed store left (`SideBySideAfterFailure`).

### SemanticCache

`vectors`, `responses`, `meta` and `alive` are the Redis hashes and the expiry
keys. `lookup`, `best`, `served` and `counted` are where `get()` stands, `filling` and
`entry` where `set()` does, `sweep`, `todo` and `victim` where `invalidate_expired()`
does. One action is one round trip: `Lookup`, `FetchResponse`, `ReadMeta` and
`WriteMeta` are `get()`, `SetVector`, `SetResponse`, `SetMeta` and `SetExpiry` the
commands of the pipeline of `set()`, which is not a transaction, `CheckExpiry` and
`RemoveEntry` the two round trips of a sweep per entry. Redis may fail at each
(`LookupFails`, `SetFails`); an entry's key may expire at any time (`Expire`). Redis
outlives the API, so the cache may hold entries to begin with (`Warm`). `raced` is a
history variable. Similarities are a constant: any numbers will do.

### Retrieval and QueryEngine

`Retrieval` has the computations between two awaits: the filtered search and its
limits, reciprocal rank fusion with the threshold that comes after the cut, the
merge of sub-queries by best score, the deduplication of neighbouring chunks, the
reranker's stable order, and the prompt's budget with its floor, its cut passages
and its end. Scores are integers in units of `Scale`; the orders in which the dense
and the sparse search return chunks and the reranker's scores are constants. A sorted
list is written by rank: the k-th entry is the one that k - 1 others come before
(`Sorted`, `Before`), which is what Python's stable sort returns.

`QueryEngine` runs any number of requests over one engine. Per request, `pc` is
where it stands and `sub`, `found`, `final`, `cites`, `text` and `reported` are its
local variables; `last` is what the engine object keeps for all of them
(`_last_sub_queries`, `_last_reranked`). `changed` and `overwritten` are history
variables. One action is the code from one await to the next: `CheckCache` is one
round trip of `get()`, `Decompose` the sub-queries, `SearchIndex` one of the two
searches of one sub-query, which all run concurrently, `ExpandAndBuild` everything
between the texts' arrival and the generator's first await, `Delta`, `Stop`,
`Exhausted` and `GenerationFails` the stream of tokens, `CheckGroundedness` the
detector, `Deliver` the held-back last chunk, `StoreInCache` one command of `set()`.
`SkipCache`, `CheckCacheFails`, `RetrievalFails` and `StoreFails` are failures,
`Disconnect` is a client that leaves a stream, which cancels its task wherever it
waits. `ChangeIndex` is any step of the index's stores, overlapping and failing ones
included, `ExpireOrSweep` and `Sweep` are the cache's other clients. A search returns what is
searchable (`Visible`), whole versions or parts of several; the expansion reads rows,
which are never removed, and is one step with what follows it. The wording of
prompts, answers and verdicts is left out; the verdict of the detector changes
nothing a property is about.

## 3. Runs

| Run | Instance | Result |
|---|---|---|
| `storage_writer` | three stores of a document (with two chunks, one and one) and a store of another with an empty list, batches of one point | all properties hold (1.1 million states) |
| `storage_writer_stale` | the same | `NoStaleResults` (writer.py:13-14) is violated |
| `storage_writer_retry` | the same | `RetryLeavesNoDuplicates` (README.md:416) is violated |
| `storage_writer_both` | the same | `IndexedMeansBothStores` (schema.sql:27) is violated |
| `worker_loop` | one worker, two documents of which one cannot be parsed, two retries, two restarts, one fault | holds, with liveness (0.4 million states) |
| `worker_takeover` | two workers of one group, the same documents, one fault, no restart | holds, with liveness (0.3 million states) |
| `worker_lost` | one worker, one document, one restart, no fault | `NeverLost` (base_worker.py:6-7) is violated |
| `worker_retries` | two groups, one document, three retries, no fault | `RetriesAreLimited` (base_worker.py:274-275) is violated |
| `intake` | two submissions of a page, an upload or a text, with two acceptable contents and a refused one, two worker groups | all properties hold (0.5 million states) |
| `intake_duplicate` | two submissions of a page, one group | `DuplicateMeansIndexed` (validator.py:54) is violated |
| `ingestion` | a PDF, DOCX or text and a page that may vanish, shrink or be blank, in 23 shapes of content; two retries of everything, two faults, a topic of two, rounds of one | holds, with liveness (1.1 million states) |
| `query_engine` | a streamed and a plain request with similar questions and different filters, an entry of an earlier process, four stores of one document (one that failed and one that finished before, one that runs and one to come), one sweep | all properties hold (0.8 million states) |

Every run says `CHECK_DEADLOCK FALSE`: the systems really stop. A finite set of
stores, submissions or requests comes to its end, workers out of restarts stay
down, and an ingestion whose documents have vanished has nothing left to do.

**Bounds.** In `MCStorageWriter` an update after an update, a retry of a failed
store and an overlap of two stores all need at most three stores of one
document; two chunks with batches of one point let a store fail before, between
and after its batches; the second document is stored with an empty list.
In `MCWorkerLoop` `MaxRetries`, `MaxRestarts` and `MaxFaults` are the bounds:
with two retries a message is re-published once and given up once; one fault is
one eviction, refused commit, dropped or duplicated record, and crashes are
bounded by the restarts. `MCIntake` needs no bound on steps: a redelivery brings a
group back to where it was. Two submissions meet at one URL in every way: a
duplicate, an update, a race of two INSERTs, an inline ingestion next to a queued
one. The page has a content, the upload gets one, the text cannot be fetched; an
edit can give the page any of the contents. Requests, groups and
the acceptable contents are interchangeable, hence the symmetry.

In `MCIngestion` sizes are small numbers of tokens, with windows that overlap and
others that do not, parents that are cut and others that are not. The shapes of
content have text before and behind titles and tables, empty sections, blank space
at the edge of windows, topics shorter and longer than the ceiling in all orders, a
single sentence, and a page below the least length; an upload of the first document
brings a title, and a summary lists one section of the two that some PDFs have.
Batches of three make one, two and more batches. `MaxFaults` = 2 lets a job fail and
its successor fail again;
`MaxTopic` = 2 lets a document be queued twice or behind another; a round picks
`Limit` = 1 document of two, so that one can be picked before the other time and again.
In `MCQueryEngine` `MaxEvents` = 3 bounds failures, departures, expiries, the start of
a sweep and steps of the index's stores together; each step of the properties' stories
needs at most three of them (a document replaced in the middle of a search is a
removal, an addition and, if it matters, a beginning; a sweep that meets an entry being
set is one). The instance begins where those steps matter: a part of a failed store is
searchable beside the version that was stored after it, and the store that replaces
both has begun. Four stores tell a failed, a finished, a running and a new one apart. One request decomposes into two
sub-queries, the other does not; one reranks; the budget of one is at the floor
and that of the other above it, so that passages fit, are cut and are left out.

The proofs hold for all values.

**What holds.** Whatever overlaps, fails or lands late: a point always has a row
(`PointHasRow`), and a vector is lost only to another store of the same document
that selected and deleted it (`LostVectorWasDeleted`). While the stores of a
document do not overlap: `IndexedHasVector`, `OneIndexedVersion`,
`StaleNotSearchable`, `StaleIsFinal`, and `StoreContract`, the postcondition of a
store that got to its end. The loop never skips a message (`CommittedIsHandled`),
never commits backwards (`CommitsMoveForward`), loses a document only with a
record that left the producer's buffer undelivered (`LossIsUndelivered`), gives
up only after all retries (`GivenUpAfterRetries`), and brings every document to
an end unless such a record is lost or its last worker is out of restarts
(`EventuallySettled`). A document is `pending` only while its registrant is under
way, or with a reason the caller or the dead letters know (`PendingHasReason`). While ingestions of a URL do not overlap, its
status is the outcome of the last registration, also when the process died before it
answered (`StatusIsOutcome`), what is
`indexed` has the content of its hash unless the source drifted
(`IndexedIsRegistered`), and no failure overwrites `indexed`
(`FailureKeepsIndexed`); an INSERT that fails is a race (`ConflictIsARace`).

What a search can find of a document whose stores do not overlap
(`SearchableAsPromised`): a store adds its points, batch by batch and before anything
is marked, only when no finished version is left to be found; when it finishes all of
them are there, and the next one takes them away all at once. It is not one version in
full or none: a store that runs is searchable in part, and the points of a failed store
stay beside its retry's (`RetryLeavesNoDuplicates` is violated).

Of a text, nothing is lost in its chunks but blank space and, in a PDF with
titles, tables and what comes before the first title beyond the preview
(`NothingLost`); parents come before their children and contain them unless they
were cut (`ParentsHoldTheirChildren`). A chunk exceeds its size in a semantic document
only as a single sentence or as a topic that came while another one was buffered (so
the ceiling of the merge is not one), and elsewhere only as the summary of a PDF or a
DOCX, which is never cut: by its title and the titles of its first ten sections
(`OversizedOnlyByTopicOrTitles`).
Every chunk is stored with the vector of its own text (`OwnVectors`). A document
that nobody works on and that is not searchable as a whole has rows the
reconciliation finds, unless its last job ended before it wrote any
(`UnfinishedIsPending`); what has such rows is healed, or drops out of the
reconciliation's sight because a store retired the rows and then failed
(`HealedInTheEnd`). The latter does not hold for a document that is crowded out: when
as many documents as a round picks can no longer be stored, they can be all that is ever
picked, which is what `LIMIT 50` without an order does with fifty. In the instance a
round picks one, and without the exception (`Crowded`) TLC finds the page that has
vanished taking the place of the other document for ever.

A cached hit count never exceeds the hits (`HitCountNotAbove`), though it can fall
behind; a hit is one other request's whole answer (`HitHasOneAuthor`); only races of
a sweep leave fields no sweep finds (`OrphansOnlyFromRaces`), and an entry that has
not expired stays (`LiveEntryKept`). A passage outside the filter is cited only from
the cache, by another request's filter: the look-up does not know filters
(`FilterBrokenOnlyByCache`). Two versions of a document are cited together only if what
is searchable of it changed during the searches, its stores have overlapped, or one of
the two is what a failed store left (`MixedOnlyByChangeOrFailure`). A response reports
another request's sub-queries only if that one was decomposed in between, and never
another one's reranking (`ReportsItsOwn`). Only the whole answer of a client that
was still there is cached, failed ones included (`CachedWasDelivered`), and the
prompt keeps to its budget without skipping a chunk (`PromptWithinBudget`).

**What does not hold.** Six statements of the documentation, each a run that
TLC refutes and a finding in `PROJECT.json`: overlapping stores leave two
versions searchable; a retry leaves duplicates, as chunk identifiers are not
content hashes; a failure at the wrong place leaves `indexed` rows without
vectors; a document is lost when a worker stops with a full buffer; retries
exceed the limit, as groups read each other's; a document that was never stored
is refused as a duplicate "already indexed".

**Fairness.** Safety runs assume none. `FairSpec` of `WorkerLoop` assumes weak
fairness of a running worker's own steps (`while self._running`), of delivery
by librdkafka's background thread, of assignment and revocation by the
coordinator, and of the manager's restart (its loop wakes every two seconds).
It assumes nothing about publications, faults or crashes, nor that a document is
ever processed successfully: the retry counter ends every chain. `FairSpec` of
`Ingestion` assumes that a worker goes on while there is a message
(`WorkerGoesOn`, the same loop) and strong fairness of `RunOnce`: the reconciliation
is a loop over a sleep that never waits for room in the topic, and strong fairness
makes up for the bound `MaxTopic`, which can disable it. Nothing starts the
reconciliation in the code; `HealedInTheEnd` says what it would do if it were
started. The engine's requests need no fairness: their properties are about what is
answered, not that it is.

## 4. Proofs

Every theorem holds for all values of the constants that satisfy the module's
assumption. `WriterAssumption`: chunk identifiers are fresh (`uuid4()`), the
batch size is positive. `WorkerAssumption`: every worker has a group,
`KAFKA_MAX_RETRIES` is positive, `None` is not a worker or a number.
`IntakeAssumption`: refused contents are contents, and `None` is not a content, URL,
request or row. `CacheAssumption`: finitely many requests, and `None` is not one of
them. `IngestionAssumption`: contents are of known types and made of elements,
overlaps are smaller than windows, batch sizes, retries and least lengths are
positive, titles have any length. `RetrievalAssumption`: the orders and scores are of lists of chunks.
`EngineAssumption`: requests are well-formed; a chunk belongs to a version and its
payload names the version's document; what is searchable to begin with are chunks; an answer cached by an earlier process respected its request's filter; and
`None` is not a version or a list. TLC evaluates all of them in its runs.

`StorageWriterProofs`. None of the checked invariants is inductive by itself.
`AnyOrderInv`, which assumes nothing about the order of stores, says for each
attempt what its phase implies: its rows exist from its write on
(`RowsWritten`), what it selected are rows of other attempts (`SelectedOld`),
the batches it has sent are in Qdrant unless another attempt deleted them
(`SentOrDeleted`), and only marked chunks are `indexed`. It gives `TypeCorrect`,
`PointsHaveRows` and `VectorsLostToDeletions`. `ApartInv` is about documents whose
stores have not overlapped: only the last store to begin is active and nobody
has selected its chunks; from its write to its marking no other row is
`indexed`; before the deletion it has selected every row, and after it only
points that landed late are left; once it has marked its chunks, they are
`indexed`, in Qdrant, and the only ones. It is needed because the contract of a
store depends on what all earlier, possibly failed, stores have left. It gives
`VectorsOfApartStores`, `OneVersionIndexed`, `StaleHasNoPoint`,
`StoreKeepsContract` and the action property `SupersededForGood`.

`WorkerLoopProofs`. `LoopInv` relates the places where an offset lives: a busy
worker's current offset is the one before its position (`Busy`); every offset
below a worker's position has an outcome, but for the one it is processing
(`PolledIsHandled`, also for a worker that has lost the partition and does not
know it); and the owner's position is not behind the committed offset
(`OwnerAhead`). That a worker that is not the owner cannot commit is what keeps
an evicted one from moving the offset back. From it follow `AtLeastOnce` and
`CommitsNeverGoBack`. `Tracked` adds that every published document is settled,
waiting in a buffer, lost with one, or has a message without an outcome, and
gives `LostOnlyUndelivered`; `RetriesLogged` says that the log holds every lower
retry count of every message, buffered record and dead letter, and gives
`RetriesUsedUp`.

`IntakeProofs`. `RegistryInv` assumes nothing about the order of submissions: every
row has a registrant that has passed its registration (`HasRegistrant`), a queued
request has a message in every group (`QueuedDelivered`), and the registrant of a
`pending` row has not stored it (`PendingUnstored`), which holds because a new
registrant has no message yet. It gives `TypeCorrect` and `PendingExplained`.
`ApartInv` adds what holds of URLs whose ingestions have not overlapped: two
requests at work on a URL have been noticed (`Together`), so whoever writes to a row
is its registrant (`Latest`), and what a group has fetched is the registered
content or has drifted (`BusyContent`); the checked invariants follow from these
and from each other. It gives `ConflictsAreRaces`, `StatusesAreOutcomes`,
`IndexedAreRegistered` and the action property `FailuresKeepIndexed`. Each action is
first reduced to what it does to each entry (`...Effect`), which both parts use.

The last part of `StorageWriterProofs` shows that `StorageWriter` implements
`DocumentIndex` (`StorageImplementsIndex`): initial states map to initial states, and
each action is a step or a stutter of the index: `Begin` starts a store, `UpsertBatch`
adds, `DeletePoints` removes, `MarkChunks` finishes, `Fail` abandons, and what lands late
is carried out. It rests on `ApartInv`, which tells that a store that is alone with its
document has selected all older chunks before it deletes any and marks only chunks that
are in Qdrant, and on `ProgressInv`: only a store stopped in a Qdrant request does
anything after its end (`LateUnmarked`), what a store has marked stays `indexed` until it
is superseded (`MarkedOrStale`), and the chunks of a store are selected together
(`SelectedWhole`).

`ListProofs` and `FoldProofs` carry the lemmas about data. The library's induction
theorems take an operator, which no installed prover can instantiate; the induction
used here comes from the least element of a set of numbers (`LeastOf`, from the
well-foundedness of `<`). With it `ListProofs` shows what ranks, `Ascending`, `Take`,
`Keep`, `First` and `FlattenSeq` return. `FoldProofs` shows that the recursive function
behind the community's `FoldLeft` exists and what it computes turn by turn, and from
that the rule of a loop (`LoopRule`): what holds of the base, and is carried over by a
turn from each prefix to the next, holds of the result. The turn and the invariant are
constants of that module, so each loop of the code is an instance of it: the sections
of a document, the merge of segments, the passages of a prompt.

`SemanticCacheProofs`. `CacheInv` has three parts besides the types. `EntryInv`: a
request sets only what it did not find, a field is written only by the command that
writes it, and what a look-up found another request had begun to set. `CountInv`: the
number in `meta` and the numbers look-ups have read are bounded by the hits that have
finished, which is inductive because a look-up that writes a count adds a hit of its
own. `RaceInv`: what a sweep is about to remove has expired or is being set, and what
an entry has been given so far it still has, unless it is in `raced`. It gives
`CountsAtMostTheHits`, `OneAuthorPerHit`, `OrphansAreRaces` and `LiveEntriesStay` for
any similarities and any number of sweeps.

`QueryEngineProofs` shows that every step of the engine is a step of the cache's
clients or leaves the cache alone (`EngineUsesCache`, a refinement of `SemanticCache`).
It needs where the engine and the cache stand relative to each other (`StandInv`: a
request that has not answered yet has not begun to set, and one that is past the
cache check did not find anything). The cache's
theorems then hold in the engine without being proved again: `EngineCounts`,
`EngineHits`, `EngineOrphans`, `EngineKeepsLive`. `OnlyDeliveredIsCached` adds
(`DeliverInv`) that a request past its generation has its whole answer and that only
one that stores reaches that phase.

The properties of what is answered come from `WorkInv`, which follows the data of a
request from search to citation. What has been found so far (`Gathered`) matches the
filter (`Filtered`) and is searchable still unless its document has changed since the
request began to search (`Current`); so what it found of a document is of one version and
of failed stores, or the document is in `changed` or `blurred` (`Consistent`). `Current` is
what makes `MixedOnlyByChangeOrFailure` inductive, together with the promises of the index
(`Orderly`), which its steps keep: a later search finds only what is searchable then, side
by side with what the request has found. `Remembers` says that the engine's shared `_last_sub_queries` are the
request's own or known to be overwritten, `Prompted` that the citations are the
prompt's. `CachedAnswers` says that what is cached respects the filter of the request
that made it. The steps need what the computations return: a fusion, a merge, a
deduplication, a sorting or a cut adds no chunk (`FusedFacts`, `MergedFacts`,
`DeduplicatedFacts`, `SortedFacts`, `BestFacts`), for any orders and scores, and
`PromptFacts`, by the loop rule, that a prompt is a prefix within its budget. It gives
`EngineTypes`, `FilterHolds`, `VersionsMixOnlyByChangeOrFailure`, `ReportsAreItsOwn` and
`PromptKeepsBudget`.

`IngestionProofs`. Its first part is about the chunkers, for any document and any sizes
that `IngestionAssumption` allows. `WindowsFacts`: windows are not longer than their
size and between them have every token that is not blank. `SectionsFacts`: each token of
a title or sentence behind the first title is in a section. Two instances of the loop rule
follow: `SectionsDone`, the tree as it grows (every section so far is covered, every
child hangs on the section's chunk), and `SegmentsDone`, the merge (every segment so far
is in a chunk or in the buffer, and what exceeds the ceiling is one segment that is not
the first). `HeaderFacts` and `HierarchicalFacts` bound the summary by its titles and the
preview. `ChunkedFacts` puts them together for the three chunkers. `ContentInv` says
that while a job has chunks they are those of what it fetched, and gives
`NothingIsLost`, `ParentsComeFirst` and `OversizedIsTopicOrTitles`. `TypeCorrect` needs of the
chunkers that they return lists of chunks, which `ChunkedFacts` says. `OwnVectorsStored`
comes from `EmbedInv` (the vectors of all chunks up to `done` are their own, and `done` is
the end of a batch that succeeded), `UnfinishedStaysPending` from `PendingInv` (which
adds that what a search finds of an unfinished document has pending rows, and a whole
version has `indexed` ones).

With these every invariant and every action property that a run checks is proved. Only
model-checked are the liveness properties `EventuallySettled` and `HealedInTheEnd`,
which are out of the prover's reach, and the six refutations.

## 5. Plan

Done:

1. `StorageWriter`, `WorkerLoop`, `Intake` with their proofs.
2. `DocumentIndex`, implemented by `StorageWriter`, with the proof.
3. `SemanticCache` and `QueryEngine` over it and over `Retrieval`, with proofs about
   the cache and the refinement.
4. `Chunking` and `Ingestion`, with the reconciliation, with proofs.
5. Proofs about the computations: lists, loops, chunkers, retrieval and prompt, and with
   them the invariants of the engine's requests and of the chunks.

Left:

6. Overlapping jobs in `Ingestion` (they are in `StorageWriter` and `Intake` now), so
   that a re-queued document can meet the job that is still working on it.
7. A lemma that consecutive windows overlap by exactly the configured number of
   tokens, and with it how much of a text is embedded twice.
8. The safety half of `HealedInTheEnd`: that no step but a store's takes pending rows
   away.

**Not modelled.** Text extraction by third-party libraries, the encoders, language
models and BM25 arithmetic are numeric or external: the models take any outcome of
them. The wording of prompts, the parsing of models' answers, `stats()`, the cost
log, telemetry, health checks and the API process's wiring keep no state a
property depends on. The Qdrant set-up and the migration's alias swap, the
creation of topics and the scripts run once, before or beside the system. The
manager's own shutdown is only the stop of its workers.
