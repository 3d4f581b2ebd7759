--------------------------- MODULE StorageWriter ---------------------------
(***************************************************************************)
(* The two-store write of ingestion/storage/writer.py.                     *)
(*                                                                         *)
(* StorageWriter.store() keeps the chunks of a document in Postgres (rows  *)
(* with a status) and in Qdrant (points the retriever searches).  One call *)
(* is a chain of awaited statements; nothing locks the document, so calls  *)
(* for one document interleave at every await (two consumer groups read    *)
(* the same topic, and the API stores inline), and a call can stop after   *)
(* any of them: an exception leaves store(), or the process dies.  Every   *)
(* call works on chunks with fresh uuid4() identifiers.                    *)
(*                                                                         *)
(* A definition named ...Mutant is a plausible bug of the definition that  *)
(* follows it; no specification uses it.                                   *)
(***************************************************************************)
EXTENDS Naturals, Sequences

CONSTANTS
    Docs,       \* documents (rows of the documents table)
    Attempts,   \* calls of store(), one identifier each
    Chunks,     \* chunk identifiers
    DocOf,      \* the document an attempt stores
    ChunkList,  \* the list of chunks passed to an attempt
    BatchSize,  \* points per Qdrant upsert, 100 in the code
    None        \* no attempt

Own(a) == {ChunkList[a][i] : i \in 1..Len(ChunkList[a])}

\* uuid4() in every chunker: no identifier is used twice.
ASSUME WriterAssumption ==
    /\ DocOf \in [Attempts -> Docs]
    /\ ChunkList \in [Attempts -> Seq(Chunks)]
    /\ \A a \in Attempts : \A i, j \in 1..Len(ChunkList[a]) :
           ChunkList[a][i] = ChunkList[a][j] => i = j
    /\ \A a, b \in Attempts : a # b => Own(a) \cap Own(b) = {}
    /\ BatchSize \in Nat \ {0}
    /\ None \notin Attempts \cup {"unknown"}

VARIABLES
    row,        \* chunks.status per identifier; "absent" when there is no row
    points,     \* identifiers of the points in Qdrant
    total,      \* documents.total_chunks
    docStatus,  \* documents.status
    tags,       \* documents.tags: the attempt whose text they describe
    pc,         \* the statement an attempt executes next, or stopped before
    run,        \* whether an attempt is running
    selected,   \* old_ids, as read by an attempt
    upserted,   \* how many points of an attempt have been upserted
    latest,     \* history: the attempt of a document that began last
    overlapped  \* history: documents of which two stores have been active at once

stores == <<row, points, docStatus, total, tags>>
history == <<latest, overlapped>>
vars == <<row, points, docStatus, total, tags, pc, run, selected, upserted,
          latest, overlapped>>

RowStatus == {"absent", "pending_vector", "indexed", "stale"}

Phases == {"count", "select", "delete", "retire", "write", "upsert",
           "mark_chunks", "mark_document", "tag", "done", "skipped"}

\* "in_doubt": stopped while a Qdrant request was outstanding, which may still
\* be carried out ("landed") after the caller has gone.
RunStates == {"new", "active", "in_doubt", "landed", "over"}

TypeOK ==
    /\ row \in [Chunks -> RowStatus]
    /\ points \in SUBSET Chunks
    /\ docStatus \in [Docs -> {"pending", "indexed"}]
    /\ total \in [Docs -> Nat]
    /\ tags \in [Docs -> Attempts \cup {None}]
    /\ pc \in [Attempts -> Phases]
    /\ run \in [Attempts -> RunStates]
    /\ selected \in [Attempts -> SUBSET Chunks]
    /\ upserted \in [Attempts -> Nat]
    /\ latest \in [Docs -> Attempts \cup {None}]
    /\ overlapped \in SUBSET Docs

DocChunks(d) == UNION {Own(a) : a \in {b \in Attempts : DocOf[b] = d}}
DocRows(d) == {c \in DocChunks(d) : row[c] # "absent"}
IndexedRows(d) == {c \in DocChunks(d) : row[c] = "indexed"}

Init ==
    /\ row = [c \in Chunks |-> "absent"]
    /\ points = {}
    /\ docStatus = [d \in Docs |-> "pending"]
    /\ total = [d \in Docs |-> 0]
    /\ tags = [d \in Docs |-> None]
    /\ pc = [a \in Attempts |-> "count"]
    /\ run = [a \in Attempts |-> "new"]
    /\ selected = [a \in Attempts |-> {}]
    /\ upserted = [a \in Attempts |-> 0]
    /\ latest = [d \in Docs |-> None]
    /\ overlapped = {}

-----------------------------------------------------------------------------
(* The callers' side. *)

\* IntakeValidator registers changed content for a document that exists.
Register(d) ==
    /\ docStatus' = [docStatus EXCEPT ![d] = "pending"]
    /\ UNCHANGED <<row, points, total, tags, pc, run, selected, upserted, history>>

\* store() is called; with an empty list it logs and returns.
Begin(a) ==
    /\ run[a] = "new"
    /\ UNCHANGED <<stores, selected, upserted>>
    /\ \/ /\ ChunkList[a] = <<>>
          /\ run' = [run EXCEPT ![a] = "over"]
          /\ pc' = [pc EXCEPT ![a] = "skipped"]
          /\ UNCHANGED history
       \/ /\ ChunkList[a] # <<>>
          /\ run' = [run EXCEPT ![a] = "active"]
          /\ latest' = [latest EXCEPT ![DocOf[a]] = a]
          /\ overlapped' = IF \E b \in Attempts : DocOf[b] = DocOf[a] /\ run[b] = "active"
                            THEN overlapped \cup {DocOf[a]} ELSE overlapped
          /\ UNCHANGED pc

\* An exception leaves store(), or its process dies.  A Qdrant request that was
\* outstanding (a client timeout) can still be carried out later.
Fail(a) ==
    /\ run[a] = "active"
    /\ run' = [run EXCEPT ![a] = IF pc[a] \in {"delete", "upsert"}
                                 THEN "in_doubt" ELSE "over"]
    /\ UNCHANGED <<stores, pc, selected, upserted, history>>

-----------------------------------------------------------------------------
(* store(): one action per awaited statement. *)

At(a, phase) == run[a] = "active" /\ pc[a] = phase

Goto(a, phase) ==
    /\ pc' = [pc EXCEPT ![a] = phase]
    /\ UNCHANGED <<run, history>>

\* A Qdrant request is carried out, for a caller still waiting or one gone.
CarriedOut(a, phase, next) ==
    /\ run[a] \in {"active", "in_doubt"}
    /\ pc[a] = phase
    /\ pc' = [pc EXCEPT ![a] = next]
    /\ run' = [run EXCEPT ![a] = IF @ = "active" THEN "active" ELSE "landed"]
    /\ UNCHANGED history

\* Mutant: a document whose own status is not 'indexed' is taken to be new.
CountedRowsMutant(d) == {c \in IndexedRows(d) : docStatus[d] = "indexed"}

CountedRows(d) == IndexedRows(d)

CountIndexed(a) ==
    /\ At(a, "count")
    /\ Goto(a, IF CountedRows(DocOf[a]) = {} THEN "write" ELSE "select")
    /\ UNCHANGED <<stores, selected, upserted>>

\* Mutant: SELECT id ... AND status = 'indexed'.
OldIdsMutant(d) == IndexedRows(d)

OldIds(d) == DocRows(d)

\* Rows are never removed, so after a count above zero the list is not empty.
SelectOldIds(a) ==
    /\ At(a, "select")
    /\ selected' = [selected EXCEPT ![a] = OldIds(DocOf[a])]
    /\ Goto(a, "delete")
    /\ UNCHANGED <<stores, upserted>>

DeletePoints(a) ==
    /\ CarriedOut(a, "delete", "retire")
    /\ points' = points \ selected[a]
    /\ UNCHANGED <<row, docStatus, total, tags, selected, upserted>>

\* Mutant: a status of doc_status that chunk_status does not have.
SupersededMutant == "deleted"

Superseded == "stale"

RetireRows(a) ==
    /\ At(a, "retire")
    /\ row' = [c \in Chunks |-> IF c \in DocRows(DocOf[a]) THEN Superseded ELSE row[c]]
    /\ Goto(a, "write")
    /\ UNCHANGED <<points, docStatus, total, tags, selected, upserted>>

\* Mutant: the statement is not atomic and stops after the first row.
WrittenMutant(a) == {ChunkList[a][1]}

Written(a) == Own(a)

\* One executemany, one transaction: all rows or none.
WriteRows(a) ==
    /\ At(a, "write")
    /\ row' = [c \in Chunks |-> IF c \in Written(a) THEN "pending_vector" ELSE row[c]]
    /\ Goto(a, "upsert")
    /\ UNCHANGED <<points, docStatus, total, tags, selected, upserted>>

BatchEnd(a) ==
    IF upserted[a] + BatchSize < Len(ChunkList[a])
    THEN upserted[a] + BatchSize ELSE Len(ChunkList[a])

\* Mutant: the first batch is taken for the last one.
AfterBatchMutant(a) == "mark_chunks"

AfterBatch(a) == IF BatchEnd(a) = Len(ChunkList[a]) THEN "mark_chunks" ELSE "upsert"

UpsertBatch(a) ==
    /\ CarriedOut(a, "upsert", AfterBatch(a))
    /\ points' = points \cup {ChunkList[a][i] : i \in (upserted[a] + 1)..BatchEnd(a)}
    /\ upserted' = [upserted EXCEPT ![a] = BatchEnd(a)]
    /\ UNCHANGED <<row, docStatus, total, tags, selected>>

\* Mutant: UPDATE chunks SET status = 'indexed' WHERE doc_id = ...
MarkedMutant(a) == DocRows(DocOf[a])

Marked(a) == Own(a)

MarkChunks(a) ==
    /\ At(a, "mark_chunks")
    /\ row' = [c \in Chunks |-> IF c \in Marked(a) THEN "indexed" ELSE row[c]]
    /\ Goto(a, "mark_document")
    /\ UNCHANGED <<points, docStatus, total, tags, selected, upserted>>

MarkDocument(a) ==
    /\ At(a, "mark_document")
    /\ docStatus' = [docStatus EXCEPT ![DocOf[a]] = "indexed"]
    /\ total' = [total EXCEPT ![DocOf[a]] = Len(ChunkList[a])]
    /\ Goto(a, "tag")
    /\ UNCHANGED <<row, points, tags, selected, upserted>>

\* Auto-tagging: an empty answer or any failure leaves the tags as they are.
AutoTag(a) ==
    /\ At(a, "tag")
    /\ tags' \in {tags, [tags EXCEPT ![DocOf[a]] = a]}
    /\ pc' = [pc EXCEPT ![a] = "done"]
    /\ run' = [run EXCEPT ![a] = "over"]
    /\ UNCHANGED <<row, points, docStatus, total, selected, upserted, history>>

Step(a) ==
    \/ CountIndexed(a) \/ SelectOldIds(a) \/ DeletePoints(a) \/ RetireRows(a)
    \/ WriteRows(a) \/ UpsertBatch(a) \/ MarkChunks(a) \/ MarkDocument(a)
    \/ AutoTag(a)

Next ==
    \/ \E d \in Docs : Register(d)
    \/ \E a \in Attempts : Begin(a) \/ Fail(a) \/ Step(a)

Spec == Init /\ [][Next]_vars

-----------------------------------------------------------------------------
(* What holds however stores overlap and fail. *)

\* A point the retriever can return has a row, so ContextExpander finds a text
\* for it: rows are written first, and no interleaving removes or outruns them.
PointHasRow == \A c \in points : row[c] # "absent"

\* The phases after the deletion in _delete_old_chunks_if_update(): an attempt
\* with old_ids that runs or stopped there has deleted their points.
HasDeleted(a) == pc[a] \in {"retire", "write", "upsert", "mark_chunks",
                            "mark_document", "tag", "done"}

\* An 'indexed' row without its vector is always the work of another store of
\* the same document that selected the row and has deleted its point: no order
\* of the stores' statements, and no failure, loses a vector in another way.
LostVectorWasDeleted ==
    \A a \in Attempts : \A c \in Own(a) :
        row[c] = "indexed" /\ c \notin points =>
            \E b \in Attempts : /\ b # a
                                /\ DocOf[b] = DocOf[a]
                                /\ c \in selected[b]
                                /\ HasDeleted(b)

-----------------------------------------------------------------------------
(* What holds of a document as long as its stores have not overlapped. *)

Apart(d) == d \notin overlapped

\* An 'indexed' row misses its vector only because a store is, or stopped,
\* between deleting the old points and retiring their rows.
IndexedHasVector ==
    \A d \in Docs : Apart(d) => \A c \in IndexedRows(d) :
        c \in points \/ \E b \in Attempts : /\ DocOf[b] = d
                                            /\ pc[b] = "retire"
                                            /\ c \in selected[b]

\* The rows of a document that are 'indexed' come from one store, whatever
\* stores failed before, between or after.
OneIndexedVersion ==
    \A a, b \in Attempts : Apart(DocOf[a]) /\ DocOf[a] = DocOf[b] =>
        \A c \in Own(a), e \in Own(b) :
            row[c] = "indexed" /\ row[e] = "indexed" => a = b

\* A superseded chunk is not searchable; the one exception is a point of a
\* failed store whose outstanding upsert Qdrant carried out afterwards.
StaleNotSearchable ==
    \A a \in Attempts : Apart(DocOf[a]) => \A c \in Own(a) \cap points :
        row[c] = "stale" => run[a] = "landed"

\* What a store that got to its end has achieved, until the next one begins:
\* exactly its chunks are 'indexed', all of them are searchable, total_chunks
\* counts them, and whatever else of the document is still searchable is a row
\* a failed store left 'pending_vector', where the reconciliation finds it.
StoreContract ==
    \A a \in Attempts :
        /\ Apart(DocOf[a])
        /\ latest[DocOf[a]] = a
        /\ pc[a] \in {"tag", "done"}
        => /\ IndexedRows(DocOf[a]) = Own(a)
           /\ Own(a) \subseteq points
           /\ total[DocOf[a]] = Len(ChunkList[a])
           /\ \A b \in Attempts \ {a} : \A c \in points \cap Own(b) :
                  DocOf[b] = DocOf[a] => row[c] = "pending_vector" \/ run[b] = "landed"

\* A chunk once superseded never comes back.
StaleIsFinal ==
    [][\A d \in Docs : d \notin overlapped' =>
          \A c \in DocChunks(d) : row[c] = "stale" => row'[c] = "stale"]_vars

-----------------------------------------------------------------------------
(* What the query side may rely on: the specification of module DocumentIndex. *)

\* How far a store is, for one who sees only its effect on Qdrant; it has finished
\* when it has marked its chunks.
Running == [new |-> "new", active |-> "storing", in_doubt |-> "failed",
            landed |-> "landed", over |-> "failed"]

Progress ==
    [a \in Attempts |->
        IF pc[a] \in {"mark_document", "tag", "done"} THEN "finished"
        ELSE IF pc[a] = "skipped" THEN "new" ELSE Running[run[a]]]

\* What a search can find is the points, whatever the status of their rows.
Index == INSTANCE DocumentIndex WITH
    searchable <- points, progress <- Progress, blurred <- overlapped,
    Versions <- Attempts, ChunksOf <- [a \in Attempts |-> Own(a)]

\* What a search can find of a document whose stores do not overlap: a store adds
\* its chunks only when no finished version is left to be found, has all of them
\* there when it finishes, and the next one takes them away all at once; whatever
\* else is found is what a failed store left, or a request of its that Qdrant
\* carried out afterwards.
SearchableAsPromised == Index!Spec

-----------------------------------------------------------------------------
(* What the documentation says, and an overlap or a failure breaks. *)

Returned(d) == \A a \in Attempts : DocOf[a] = d => run[a] = "new" \/ pc[a] = "done"

\* writer.py on updates: the old chunks are deleted from Qdrant before the new
\* ones are inserted "to prevent stale results".  Once every store of a document
\* has returned, what a search can find of it comes from one of them.
NoStaleResults ==
    \A d \in Docs : Returned(d) =>
        \A a, b \in Attempts : DocOf[a] = d /\ DocOf[b] = d =>
            (points \cap Own(a) # {} /\ points \cap Own(b) # {} => a = b)

\* README on retries: upserts are "safe to retry without duplicates".  After a
\* store that returned, on stores that never overlapped, only it is searchable.
RetryLeavesNoDuplicates ==
    \A a \in Attempts : Apart(DocOf[a]) /\ latest[DocOf[a]] = a /\ pc[a] = "done" =>
        points \cap DocChunks(DocOf[a]) \subseteq Own(a)

Quiet(d) == \A a \in Attempts : DocOf[a] = d => run[a] \in {"new", "over", "landed"}

\* schema.sql on the chunk status 'indexed': "Written to both stores".
IndexedMeansBothStores ==
    \A d \in Docs : Quiet(d) /\ Apart(d) => IndexedRows(d) \subseteq points
=============================================================================
