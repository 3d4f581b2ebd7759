------------------------ MODULE StorageWriterProofs ------------------------
(***************************************************************************)
(* Proofs about StorageWriter, for every set of documents, every set of    *)
(* store() calls with any lists of fresh chunks, and every batch size:     *)
(* types, safety, and that it implements DocumentIndex.                    *)
(***************************************************************************)
EXTENDS StorageWriter, TLAPS

-----------------------------------------------------------------------------
(* Chunk lists. *)

\* The chunks of a store are chunk identifiers.
LEMMA OwnInChunks == \A a \in Attempts : Own(a) \subseteq Chunks
  BY WriterAssumption DEF Own

\* Each store is of one document and has a list of chunks.
LEMMA ConstantTypes ==
    /\ DocOf \in [Attempts -> Docs]
    /\ \A a \in Attempts : ChunkList[a] \in Seq(Chunks) /\ Len(ChunkList[a]) \in Nat
    /\ BatchSize \in Nat \ {0}
  BY WriterAssumption

\* Fresh identifiers: the stores of two calls share no chunk.
LEMMA OwnApart == \A a, b \in Attempts : \A c \in Own(a) : c \in Own(b) => a = b
  BY WriterAssumption

\* The chunks of a document are those of the calls that store it.
LEMMA DocChunksMember ==
    \A d, c : c \in DocChunks(d) <=> \E a \in Attempts : DocOf[a] = d /\ c \in Own(a)
  BY DEF DocChunks

-----------------------------------------------------------------------------
(* The inductive invariant, first the part that needs no assumption on the   *)
(* order of stores.                                                          *)

BeforeWrite == {"count", "select", "delete", "retire", "write", "skipped"}
AfterUpsert == {"mark_chunks", "mark_document", "tag", "done"}
AfterMark == {"mark_document", "tag", "done"}

\* The chunks of a store that have been sent to Qdrant.
Sent(a) == {ChunkList[a][i] : i \in 1..upserted[a]}

\* Another store of the same document selected the chunk and deleted its point.
DeletedByOther(a, c) ==
    \E b \in Attempts : /\ b # a
                        /\ DocOf[b] = DocOf[a]
                        /\ c \in selected[b]
                        /\ HasDeleted(b)

\* A call that has not begun stands at its first statement.
NewAtStart == \A a \in Attempts : run[a] = "new" => pc[a] = "count"

\* The rows of a store exist from its write on.
RowsWritten ==
    \A a \in Attempts : \A c \in Own(a) : row[c] = "absent" <=> pc[a] \in BeforeWrite

\* What a store selected are rows of other stores of its document.
SelectedOld ==
    \A b \in Attempts : \A c \in selected[b] :
        /\ row[c] # "absent"
        /\ c \notin Own(b)
        /\ c \in DocChunks(DocOf[b])

SentInRange ==
    \A a \in Attempts :
        /\ upserted[a] \in 0..Len(ChunkList[a])
        /\ pc[a] \in AfterUpsert => upserted[a] = Len(ChunkList[a])

SentOrDeleted == \A a \in Attempts : \A c \in Sent(a) : c \in points \/ DeletedByOther(a, c)

IndexedMarked ==
    \A a \in Attempts : \A c \in Own(a) : row[c] = "indexed" => pc[a] \in AfterMark

OrderInv ==
    /\ PointHasRow
    /\ RowsWritten
    /\ SelectedOld
    /\ SentInRange
    /\ SentOrDeleted
    /\ IndexedMarked

AnyOrderInv == TypeOK /\ NewAtStart /\ OrderInv

-----------------------------------------------------------------------------

\* Type correctness and the invariant of every order, initially.
LEMMA AnyOrderInit == Init => AnyOrderInv
<1> SUFFICES ASSUME Init PROVE AnyOrderInv
  OBVIOUS
<1>1. TypeOK
  BY DEF Init, TypeOK, RowStatus, Phases, RunStates
<1>2. RowsWritten /\ IndexedMarked /\ NewAtStart
  BY OwnInChunks DEF Init, RowsWritten, IndexedMarked, BeforeWrite, NewAtStart
<1>3. SentInRange /\ SentOrDeleted
  BY WriterAssumption DEF Init, SentInRange, SentOrDeleted, Sent, AfterUpsert
<1>4. QED
  BY <1>1, <1>2, <1>3 DEF AnyOrderInv, OrderInv, Init, PointHasRow, SelectedOld

\* Type correctness is inductive on its own.
LEMMA TypeStep == TypeOK /\ [Next]_vars => TypeOK'
<1> SUFFICES ASSUME TypeOK, [Next]_vars PROVE TypeOK'
  OBVIOUS
<1> USE DEF TypeOK, RowStatus, Phases, RunStates, stores, history
<1>1. ASSUME NEW d \in Docs, Register(d) PROVE TypeOK'
  BY <1>1 DEF Register
<1>2. ASSUME NEW a \in Attempts, Begin(a) PROVE TypeOK'
  <2>1. CASE ChunkList[a] = <<>>
    BY <1>2, <2>1 DEF Begin
  <2>2. CASE ChunkList[a] # <<>>
    <3>1. overlapped' \in {overlapped, overlapped \cup {DocOf[a]}}
      BY <1>2, <2>2 DEF Begin
    <3>2. DocOf[a] \in Docs
      BY ConstantTypes
    <3>3. QED
      BY <1>2, <2>2, <3>1, <3>2, ZenonT(30) DEF Begin
  <2>3. QED
    BY <2>1, <2>2
<1>3. ASSUME NEW a \in Attempts, Fail(a) PROVE TypeOK'
  BY <1>3 DEF Fail
<1>4. ASSUME NEW a \in Attempts, CountIndexed(a) PROVE TypeOK'
  BY <1>4 DEF CountIndexed, At, Goto
<1>5. ASSUME NEW a \in Attempts, SelectOldIds(a) PROVE TypeOK'
  BY <1>5, ConstantTypes, DocChunksMember, OwnInChunks DEF SelectOldIds, At, Goto, OldIds, DocRows
<1>6. ASSUME NEW a \in Attempts, DeletePoints(a) PROVE TypeOK'
  BY <1>6 DEF DeletePoints, CarriedOut
<1>7. ASSUME NEW a \in Attempts, RetireRows(a) PROVE TypeOK'
  BY <1>7 DEF RetireRows, At, Goto, Superseded
<1>8. ASSUME NEW a \in Attempts, WriteRows(a) PROVE TypeOK'
  BY <1>8 DEF WriteRows, At, Goto
<1>9. ASSUME NEW a \in Attempts, UpsertBatch(a) PROVE TypeOK'
  BY <1>9, ConstantTypes DEF UpsertBatch, CarriedOut, AfterBatch, BatchEnd
<1>10. ASSUME NEW a \in Attempts, MarkChunks(a) PROVE TypeOK'
  BY <1>10 DEF MarkChunks, At, Goto
<1>11. ASSUME NEW a \in Attempts, MarkDocument(a) PROVE TypeOK'
  BY <1>11, ConstantTypes DEF MarkDocument, At, Goto
<1>12. ASSUME NEW a \in Attempts, AutoTag(a) PROVE TypeOK'
  BY <1>12, ConstantTypes DEF AutoTag, At
<1>13. CASE UNCHANGED vars
  BY <1>13 DEF vars
<1>14. QED
  BY <1>1, <1>2, <1>3, <1>4, <1>5, <1>6, <1>7, <1>8, <1>9, <1>10, <1>11, <1>12, <1>13
  DEF Next, Step

-----------------------------------------------------------------------------
(* Every step preserves the invariant of every order. *)

\* An attempt past the deletion stays past it and keeps what it selected.
LEMMA DeletedStays ==
    ASSUME TypeOK, NewAtStart, [Next]_vars, NEW b \in Attempts, HasDeleted(b)
    PROVE  HasDeleted(b)' /\ selected'[b] = selected[b]
<1> DEFINE Kept == HasDeleted(b)' /\ selected'[b] = selected[b]
<1> USE DEF TypeOK, Phases, HasDeleted, stores, history, At, Goto, CarriedOut
<1>1. ASSUME NEW d \in Docs, Register(d) PROVE Kept
  BY <1>1 DEF Register
<1>2. ASSUME NEW a \in Attempts, Begin(a) PROVE Kept
  BY <1>2 DEF Begin, NewAtStart
<1>3. ASSUME NEW a \in Attempts, Fail(a) PROVE Kept
  BY <1>3 DEF Fail
<1>4. ASSUME NEW a \in Attempts, CountIndexed(a) PROVE Kept
  BY <1>4 DEF CountIndexed
<1>5. ASSUME NEW a \in Attempts, SelectOldIds(a) PROVE Kept
  BY <1>5 DEF SelectOldIds
<1>6. ASSUME NEW a \in Attempts, DeletePoints(a) PROVE Kept
  BY <1>6 DEF DeletePoints
<1>7. ASSUME NEW a \in Attempts, RetireRows(a) PROVE Kept
  BY <1>7 DEF RetireRows
<1>8. ASSUME NEW a \in Attempts, WriteRows(a) PROVE Kept
  BY <1>8 DEF WriteRows
<1>9. ASSUME NEW a \in Attempts, UpsertBatch(a) PROVE Kept
  BY <1>9 DEF UpsertBatch, AfterBatch
<1>10. ASSUME NEW a \in Attempts, MarkChunks(a) PROVE Kept
  BY <1>10 DEF MarkChunks
<1>11. ASSUME NEW a \in Attempts, MarkDocument(a) PROVE Kept
  BY <1>11 DEF MarkDocument
<1>12. ASSUME NEW a \in Attempts, AutoTag(a) PROVE Kept
  BY <1>12 DEF AutoTag
<1>13. CASE UNCHANGED vars
  BY <1>13 DEF vars
<1>14. QED
  BY <1>1, <1>2, <1>3, <1>4, <1>5, <1>6, <1>7, <1>8, <1>9, <1>10, <1>11, <1>12, <1>13
  DEF Next, Step

\* A chunk deleted by another store stays deleted by it.
LEMMA DeletedByOtherStays ==
    ASSUME TypeOK, NewAtStart, [Next]_vars
    PROVE  \A a \in Attempts : \A c : DeletedByOther(a, c) => DeletedByOther(a, c)'
<1> SUFFICES ASSUME NEW a \in Attempts, NEW c, DeletedByOther(a, c)
             PROVE  DeletedByOther(a, c)'
  OBVIOUS
<1>1. PICK b \in Attempts : b # a /\ DocOf[b] = DocOf[a] /\ c \in selected[b] /\ HasDeleted(b)
  BY DEF DeletedByOther
<1>2. QED
  BY <1>1, DeletedStays DEF DeletedByOther

\* A step that moves attempts between phases of one class and writes nothing.
LEMMA PhaseOnly ==
    ASSUME AnyOrderInv, [Next]_vars, UNCHANGED <<row, points, selected, upserted>>,
           \A a \in Attempts :
               /\ pc[a] \in BeforeWrite <=> pc'[a] \in BeforeWrite
               /\ pc[a] \in AfterUpsert <=> pc'[a] \in AfterUpsert
               /\ pc[a] \in AfterMark => pc'[a] \in AfterMark
    PROVE  OrderInv'
<1>1. RowsWritten' /\ IndexedMarked' /\ SelectedOld' /\ PointHasRow'
  BY DEF AnyOrderInv, OrderInv, RowsWritten, IndexedMarked, SelectedOld, PointHasRow,
     DocChunks, Own
<1>2. SentInRange'
  BY DEF AnyOrderInv, OrderInv, SentInRange
<1>3. SentOrDeleted'
  BY DeletedByOtherStays DEF AnyOrderInv, OrderInv, SentOrDeleted, Sent
<1>4. QED
  BY <1>1, <1>2, <1>3 DEF OrderInv

\* Every step keeps a call that has not begun at its first statement.
LEMMA NewAtStartStep == ASSUME TypeOK, NewAtStart, [Next]_vars PROVE NewAtStart'
<1> USE DEF TypeOK, NewAtStart, stores, history, At, Goto, CarriedOut
<1>1. ASSUME NEW d \in Docs, Register(d) PROVE NewAtStart'
  BY <1>1 DEF Register
<1>2. ASSUME NEW a \in Attempts, Begin(a) PROVE NewAtStart'
  BY <1>2 DEF Begin
<1>3. ASSUME NEW a \in Attempts, Fail(a) PROVE NewAtStart'
  BY <1>3 DEF Fail
<1>4. ASSUME NEW a \in Attempts, Step(a) PROVE NewAtStart'
  BY <1>4 DEF Step, CountIndexed, SelectOldIds, DeletePoints, RetireRows, WriteRows,
     UpsertBatch, MarkChunks, MarkDocument, AutoTag
<1>5. CASE UNCHANGED vars
  BY <1>5 DEF vars
<1>6. QED
  BY <1>1, <1>2, <1>3, <1>4, <1>5 DEF Next

\* Reading old_ids: the rows selected are those of other stores.
LEMMA SelectStep ==
    ASSUME AnyOrderInv, [Next]_vars, NEW a \in Attempts, SelectOldIds(a) PROVE OrderInv'
<1> USE DEF AnyOrderInv, OrderInv, SelectOldIds, At, Goto, TypeOK, stores
<1>1. OldIds(DocOf[a]) \cap Own(a) = {}
  BY DEF RowsWritten, BeforeWrite, OldIds, DocRows
<1>2. SelectedOld'
  <2> SUFFICES ASSUME NEW b \in Attempts, NEW c \in selected'[b]
               PROVE  row[c] # "absent" /\ c \notin Own(b) /\ c \in DocChunks(DocOf[b])
    BY DEF SelectedOld, DocChunks, Own
  <2>1. CASE b = a
    BY <2>1, <1>1 DEF OldIds, DocRows
  <2>2. CASE b # a
    BY <2>2 DEF SelectedOld
  <2>3. QED
    BY <2>1, <2>2
<1>3. PointHasRow' /\ RowsWritten' /\ IndexedMarked' /\ SentInRange'
  BY DEF PointHasRow, RowsWritten, IndexedMarked, SentInRange, BeforeWrite, AfterMark,
     AfterUpsert, Own
<1>4. SentOrDeleted'
  BY DeletedByOtherStays DEF SentOrDeleted, Sent
<1>5. QED
  BY <1>2, <1>3, <1>4

\* Deleting old points: who loses a point here has been deleted by the store.
LEMMA DeleteStep ==
    ASSUME AnyOrderInv, [Next]_vars, NEW a \in Attempts, DeletePoints(a) PROVE OrderInv'
<1> USE DEF AnyOrderInv, OrderInv, DeletePoints, CarriedOut, TypeOK
<1>1. SelectedOld' /\ PointHasRow' /\ RowsWritten' /\ IndexedMarked' /\ SentInRange'
  BY DEF SelectedOld, PointHasRow, RowsWritten, IndexedMarked, SentInRange, BeforeWrite,
     AfterMark, AfterUpsert, Own, DocChunks
<1>2. ASSUME NEW b \in Attempts, NEW c \in Sent(b), c \in points, c \in selected[a]
      PROVE  DeletedByOther(b, c)'
  <2>1. c \in Own(b)
    BY <1>2 DEF SentInRange, Sent, Own
  <2>2. b # a /\ DocOf[a] = DocOf[b]
    BY <1>2, <2>1, OwnApart, DocChunksMember DEF SelectedOld
  <2>3. QED
    BY <1>2, <2>2 DEF DeletedByOther, HasDeleted
<1>3. SentOrDeleted'
  BY <1>2, DeletedByOtherStays DEF SentOrDeleted, Sent
<1>4. QED
  BY <1>1, <1>3

\* Marking old rows stale removes no row and makes none indexed.
LEMMA RetireStep ==
    ASSUME AnyOrderInv, [Next]_vars, NEW a \in Attempts, RetireRows(a) PROVE OrderInv'
<1> USE DEF AnyOrderInv, OrderInv, RetireRows, At, Goto, TypeOK, Superseded
<1>1. \A c \in Chunks : row'[c] = "absent" <=> row[c] = "absent"
  BY DEF DocRows
<1>2. \A c \in Chunks : row'[c] = "indexed" => row[c] = "indexed"
  OBVIOUS
<1>3. PointHasRow' /\ RowsWritten' /\ IndexedMarked' /\ SentInRange'
  BY <1>1, <1>2, OwnInChunks DEF PointHasRow, RowsWritten, IndexedMarked, SentInRange,
     BeforeWrite, AfterMark, AfterUpsert, Own
<1>4. SelectedOld'
  BY <1>1 DEF SelectedOld, DocChunks, Own
<1>5. SentOrDeleted'
  BY DeletedByOtherStays DEF SentOrDeleted, Sent
<1>6. QED
  BY <1>3, <1>4, <1>5

\* Writing the rows: they exist from here on.
LEMMA WriteStep ==
    ASSUME AnyOrderInv, [Next]_vars, NEW a \in Attempts, WriteRows(a) PROVE OrderInv'
<1> USE DEF AnyOrderInv, OrderInv, WriteRows, At, Goto, TypeOK, Written
<1>1. RowsWritten'
  <2> SUFFICES ASSUME NEW b \in Attempts, NEW c \in Own(b)
               PROVE  row'[c] = "absent" <=> pc'[b] \in BeforeWrite
    BY DEF RowsWritten, BeforeWrite, Own
  <2>1. CASE b = a
    BY <2>1, OwnInChunks DEF BeforeWrite
  <2>2. CASE b # a
    BY <2>2, OwnInChunks, OwnApart DEF RowsWritten, BeforeWrite
  <2>3. QED
    BY <2>1, <2>2
<1>2. \A c \in Chunks : row[c] # "absent" => row'[c] # "absent"
  OBVIOUS
<1>3. PointHasRow' /\ SelectedOld' /\ SentInRange'
  BY <1>2 DEF PointHasRow, SelectedOld, SentInRange, AfterUpsert, DocChunks, Own
<1>4. IndexedMarked'
  BY OwnInChunks DEF IndexedMarked, AfterMark, Own
<1>5. SentOrDeleted'
  BY DeletedByOtherStays DEF SentOrDeleted, Sent
<1>6. QED
  BY <1>1, <1>3, <1>4, <1>5

\* Upserting a batch: every point added has a row, and is counted as sent.
LEMMA UpsertStep ==
    ASSUME AnyOrderInv, [Next]_vars, NEW a \in Attempts, UpsertBatch(a) PROVE OrderInv'
<1> USE DEF AnyOrderInv, OrderInv, UpsertBatch, CarriedOut, TypeOK, AfterBatch
<1> DEFINE Batch == {ChunkList[a][i] : i \in (upserted[a] + 1)..BatchEnd(a)}
<1>1. BatchEnd(a) \in upserted[a]..Len(ChunkList[a])
  BY ConstantTypes DEF SentInRange, BatchEnd
<1>2. SentInRange'
  BY <1>1, ConstantTypes DEF SentInRange, AfterUpsert
<1>3. Batch \subseteq Own(a)
  BY <1>1, ConstantTypes DEF Own, SentInRange
<1>4. PointHasRow'
  BY <1>3 DEF PointHasRow, RowsWritten, BeforeWrite
<1>5. RowsWritten' /\ SelectedOld' /\ IndexedMarked'
  BY DEF RowsWritten, SelectedOld, IndexedMarked, BeforeWrite, AfterMark, DocChunks, Own
<1>6. \A b \in Attempts : \A c \in Sent(b)' : c \in Sent(b) \/ c \in Batch
  BY <1>1, ConstantTypes DEF Sent, SentInRange
<1>7. SentOrDeleted'
  BY <1>6, DeletedByOtherStays DEF SentOrDeleted
<1>8. QED
  BY <1>2, <1>4, <1>5, <1>7

\* Marking the chunks indexed, after the last batch.
LEMMA MarkStep ==
    ASSUME AnyOrderInv, [Next]_vars, NEW a \in Attempts, MarkChunks(a) PROVE OrderInv'
<1> USE DEF AnyOrderInv, OrderInv, MarkChunks, At, Goto, TypeOK, Marked
<1>1. RowsWritten'
  BY OwnInChunks DEF RowsWritten, BeforeWrite, Own
<1>2. \A c \in Chunks : row[c] # "absent" => row'[c] # "absent"
  OBVIOUS
<1>3. PointHasRow' /\ SelectedOld' /\ SentInRange'
  BY <1>2 DEF PointHasRow, SelectedOld, SentInRange, AfterUpsert, DocChunks, Own
<1>4. IndexedMarked'
  BY OwnInChunks, OwnApart DEF IndexedMarked, AfterMark, Own
<1>5. SentOrDeleted'
  BY DeletedByOtherStays DEF SentOrDeleted, Sent
<1>6. QED
  BY <1>1, <1>3, <1>4, <1>5

\* Every step of the system preserves the invariant of every order.
LEMMA AnyOrderStep == AnyOrderInv /\ [Next]_vars => AnyOrderInv'
<1> SUFFICES ASSUME AnyOrderInv, [Next]_vars PROVE AnyOrderInv'
  OBVIOUS
<1>1. TypeOK' /\ NewAtStart'
  BY TypeStep, NewAtStartStep DEF AnyOrderInv
<1> DEFINE Classes == \A a \in Attempts :
               /\ pc[a] \in BeforeWrite <=> pc'[a] \in BeforeWrite
               /\ pc[a] \in AfterUpsert <=> pc'[a] \in AfterUpsert
               /\ pc[a] \in AfterMark => pc'[a] \in AfterMark
<1> DEFINE Quietly == Classes /\ UNCHANGED <<row, points, selected, upserted>>
<1>2. ASSUME NEW d \in Docs, Register(d) PROVE Quietly
  BY <1>2 DEF Register
<1>3. ASSUME NEW a \in Attempts, Begin(a) PROVE Quietly
  BY <1>3 DEF Begin, AnyOrderInv, TypeOK, NewAtStart, stores, BeforeWrite, AfterUpsert,
     AfterMark
<1>4. ASSUME NEW a \in Attempts, Fail(a) PROVE Quietly
  BY <1>4 DEF Fail, stores
<1>5. ASSUME NEW a \in Attempts, CountIndexed(a) PROVE Quietly
  BY <1>5 DEF CountIndexed, At, Goto, AnyOrderInv, TypeOK, stores, BeforeWrite,
     AfterUpsert, AfterMark
<1>6. ASSUME NEW a \in Attempts, MarkDocument(a) PROVE Quietly
  BY <1>6 DEF MarkDocument, At, Goto, AnyOrderInv, TypeOK, BeforeWrite, AfterUpsert,
     AfterMark
<1>7. ASSUME NEW a \in Attempts, AutoTag(a) PROVE Quietly
  BY <1>7 DEF AutoTag, At, AnyOrderInv, TypeOK, BeforeWrite, AfterUpsert, AfterMark
<1>8. CASE UNCHANGED vars
  <2>1. Quietly
    BY <1>8 DEF vars
  <2>2. QED
    BY <2>1, <1>1, PhaseOnly DEF AnyOrderInv
<1>9. CASE Quietly
  BY <1>9, <1>1, PhaseOnly DEF AnyOrderInv
<1>10. ASSUME NEW a \in Attempts, Step(a), ~Quietly PROVE OrderInv'
  BY <1>10, <1>5, <1>6, <1>7, SelectStep, DeleteStep, RetireStep, WriteStep, UpsertStep,
     MarkStep DEF Step
<1>11. QED
  BY <1>1, <1>2, <1>3, <1>4, <1>8, <1>9, <1>10 DEF Next, AnyOrderInv

\* Type correctness of the store's whole state.
THEOREM TypeCorrect == Spec => []TypeOK
<1>1. Init => TypeOK
  BY AnyOrderInit DEF AnyOrderInv
<1>2. QED
  BY <1>1, TypeStep, PTL DEF Spec

\* ... so it holds of every reachable state.
LEMMA AnyOrderAlways == Spec => []AnyOrderInv
  BY AnyOrderInit, AnyOrderStep, PTL DEF Spec

\* However stores overlap, fail and land late, every point has its row.
THEOREM PointsHaveRows == Spec => []PointHasRow
<1>1. AnyOrderInv => PointHasRow
  BY DEF AnyOrderInv, OrderInv
<1>2. QED
  BY <1>1, AnyOrderAlways, PTL

\* However stores overlap, fail and land late, an indexed row loses its vector
\* to a deletion by another store of its document and to nothing else.
THEOREM VectorsLostToDeletions == Spec => []LostVectorWasDeleted
<1>1. AnyOrderInv => LostVectorWasDeleted
  <2> SUFFICES ASSUME AnyOrderInv, NEW a \in Attempts, NEW c \in Own(a),
                      row[c] = "indexed", c \notin points
               PROVE  DeletedByOther(a, c)
    BY DEF LostVectorWasDeleted, DeletedByOther
  <2>1. upserted[a] = Len(ChunkList[a])
    BY DEF AnyOrderInv, OrderInv, IndexedMarked, SentInRange, AfterMark, AfterUpsert
  <2>2. c \in Sent(a)
    BY <2>1 DEF Sent, Own
  <2>3. QED
    BY <2>2 DEF AnyOrderInv, OrderInv, SentOrDeleted
<1>2. QED
  BY <1>1, AnyOrderAlways, PTL

-----------------------------------------------------------------------------
(* Documents whose stores have not overlapped: the rest of the inductive     *)
(* invariant.                                                                *)

Sibling(a, b) == DocOf[a] = DocOf[b]

\* The only active store of a document is the one that began last.
ActiveIsLatest ==
    \A a \in Attempts : Apart(DocOf[a]) /\ run[a] = "active" => latest[DocOf[a]] = a

\* Nobody has selected a chunk of the store that began last.
LatestUnselected ==
    \A a, b \in Attempts : Apart(DocOf[a]) /\ latest[DocOf[a]] = a =>
        \A c \in Own(a) : c \notin selected[b]

\* From its write to its marking, an active store finds no other row indexed.
NoneIndexed ==
    \A a, b \in Attempts :
        /\ Apart(DocOf[a])
        /\ Sibling(a, b)
        /\ run[a] = "active"
        /\ pc[a] \in {"write", "upsert", "mark_chunks"}
        => \A c \in Own(b) : row[c] # "indexed"

\* What an active store has written is pending until it marks it.
OwnPending ==
    \A a \in Attempts :
        /\ Apart(DocOf[a])
        /\ run[a] = "active"
        /\ pc[a] \in {"upsert", "mark_chunks"}
        => \A c \in Own(a) : row[c] = "pending_vector"

\* An active store about to delete has selected every row of the document ...
SelectedAll ==
    \A a, b \in Attempts :
        Apart(DocOf[a]) /\ Sibling(a, b) /\ run[a] = "active" /\ pc[a] = "delete" =>
            \A c \in Own(b) : row[c] # "absent" => c \in selected[a]

\* ... and after it only upserts that land late leave a point.
DeletedAll ==
    \A a, b \in Attempts :
        Apart(DocOf[a]) /\ Sibling(a, b) /\ run[a] = "active" /\ pc[a] = "retire" =>
            \A c \in Own(b) : c \in points => run[b] = "landed"

\* The store that began last, once it has marked its chunks.
LatestComplete ==
    \A a \in Attempts :
        /\ Apart(DocOf[a])
        /\ latest[DocOf[a]] = a
        /\ pc[a] \in AfterMark
        => /\ \A c \in Own(a) : row[c] = "indexed" /\ c \in points
           /\ \A b \in Attempts : Sibling(a, b) =>
                  \A c \in Own(b) : row[c] = "indexed" => a = b
           /\ pc[a] # "mark_document" => total[DocOf[a]] = Len(ChunkList[a])

VectorOrRetire ==
    \A a \in Attempts : Apart(DocOf[a]) =>
        \A c \in Own(a) : row[c] = "indexed" =>
            c \in points \/ \E b \in Attempts : /\ Sibling(a, b)
                                                /\ pc[b] = "retire"
                                                /\ c \in selected[b]

ApartInv ==
    /\ ActiveIsLatest
    /\ LatestUnselected
    /\ NoneIndexed
    /\ OwnPending
    /\ SelectedAll
    /\ DeletedAll
    /\ LatestComplete
    /\ VectorOrRetire
    /\ OneIndexedVersion
    /\ StaleNotSearchable

-----------------------------------------------------------------------------

\* A chunk belongs to the document of the one store that has it.
LEMMA DocOfChunk ==
    \A a \in Attempts : \A c \in Own(a) : \A d : c \in DocChunks(d) <=> DocOf[a] = d
  BY OwnApart, DocChunksMember

\* Overlapping is for ever.
LEMMA ApartBefore ==
    ASSUME [Next]_vars PROVE \A d : Apart(d)' => Apart(d)
<1> USE DEF Apart, history, stores
<1>1. ASSUME NEW a \in Attempts, Begin(a) PROVE overlapped \subseteq overlapped'
  BY <1>1 DEF Begin
<1>2. ASSUME NEW a \in Attempts, Fail(a) \/ Step(a) PROVE overlapped' = overlapped
  BY <1>2 DEF Fail, Step, CountIndexed, SelectOldIds, DeletePoints, RetireRows, WriteRows,
     UpsertBatch, MarkChunks, MarkDocument, AutoTag, Goto, CarriedOut
<1>3. QED
  BY <1>1, <1>2 DEF Next, vars, Register

\* Before any store, the invariant of stores kept apart holds.
LEMMA ApartInit == Init => ApartInv
<1> SUFFICES ASSUME Init PROVE ApartInv
  OBVIOUS
<1> USE ConstantTypes, OwnInChunks, WriterAssumption DEF Init
<1>1. ActiveIsLatest /\ LatestUnselected /\ NoneIndexed /\ OwnPending
  BY DEF ActiveIsLatest, LatestUnselected, NoneIndexed, OwnPending
<1>2. SelectedAll /\ DeletedAll
  BY DEF SelectedAll, DeletedAll
<1>3. LatestComplete
  BY DEF LatestComplete, AfterMark
<1>4. VectorOrRetire /\ OneIndexedVersion /\ StaleNotSearchable
  BY DEF VectorOrRetire, OneIndexedVersion, StaleNotSearchable
<1>5. QED
  BY <1>1, <1>2, <1>3, <1>4 DEF ApartInv

-----------------------------------------------------------------------------
(* Every step preserves it. *)

\* The last three conjuncts, when rows, points and selections stay.
LEMMA ApartRowsFrame ==
    ASSUME ApartInv, [Next]_vars, UNCHANGED <<row, points, selected>>,
           \A a \in Attempts : /\ run[a] = "landed" => run'[a] = "landed"
                               /\ pc[a] = "retire" => pc'[a] = "retire"
    PROVE  VectorOrRetire' /\ OneIndexedVersion' /\ StaleNotSearchable'
  BY ApartBefore DEF ApartInv, VectorOrRetire, OneIndexedVersion, StaleNotSearchable,
     Sibling, Own

\* A step that writes to no store, starts nothing and moves no active store.
LEMMA ApartFrame ==
    ASSUME ApartInv, [Next]_vars, UNCHANGED <<row, points, total, selected, latest>>,
           \A a \in Attempts :
               /\ run'[a] = "active" => run[a] = "active" /\ pc'[a] = pc[a]
               /\ run[a] = "landed" => run'[a] = "landed"
               /\ pc[a] = "retire" => pc'[a] = "retire"
               /\ pc'[a] \in AfterMark => pc[a] \in AfterMark
               /\ pc'[a] \in {"tag", "done"} => pc[a] \in {"tag", "done"}
    PROVE  ApartInv'
<1> USE ApartBefore DEF ApartInv
<1>1. ActiveIsLatest' /\ LatestUnselected' /\ NoneIndexed' /\ OwnPending'
  BY DEF ActiveIsLatest, LatestUnselected, NoneIndexed, OwnPending, Sibling, Own
<1>2. SelectedAll' /\ DeletedAll'
  BY DEF SelectedAll, DeletedAll, Sibling, Own
<1>3. LatestComplete'
  BY DEF LatestComplete, AfterMark, Sibling, Own
<1>4. VectorOrRetire' /\ OneIndexedVersion' /\ StaleNotSearchable'
  BY ApartRowsFrame
<1>5. QED
  BY <1>1, <1>2, <1>3, <1>4

\* A store that begins without overlapping becomes the latest one ...
LEMMA ApartBegin ==
    ASSUME AnyOrderInv, ApartInv, [Next]_vars, NEW x \in Attempts, Begin(x),
           ChunkList[x] # <<>>
    PROVE  ApartInv'
<1> USE ConstantTypes, ApartBefore DEF AnyOrderInv, TypeOK, ApartInv, Begin, stores, history
<1>1. /\ UNCHANGED <<row, points, total, selected, pc>>
      /\ pc[x] = "count"
      /\ run' = [run EXCEPT ![x] = "active"]
      /\ latest' = [latest EXCEPT ![DocOf[x]] = x]
  BY DEF NewAtStart
<1>2. \A a \in Attempts : a # x /\ Apart(DocOf[a])' /\ run[a] = "active" => ~Sibling(a, x)
  BY DEF Apart, Sibling
<1>3. ActiveIsLatest'
  BY <1>1, <1>2 DEF ActiveIsLatest, Sibling
<1>4. LatestUnselected'
  BY <1>1 DEF LatestUnselected, OrderInv, RowsWritten, SelectedOld, BeforeWrite, Own
<1>5. NoneIndexed' /\ OwnPending'
  BY <1>1 DEF NoneIndexed, OwnPending, Sibling, Own
<1>6. SelectedAll' /\ DeletedAll'
  BY <1>1 DEF SelectedAll, DeletedAll, Sibling, Own
<1>7. LatestComplete'
  BY <1>1 DEF LatestComplete, AfterMark, Sibling, Own
<1>8. \A a \in Attempts : run[a] = "landed" => run'[a] = "landed"
  BY <1>1
<1>9. VectorOrRetire' /\ OneIndexedVersion' /\ StaleNotSearchable'
  BY <1>1, <1>8, ApartRowsFrame
<1>10. QED
  BY <1>3, <1>4, <1>5, <1>6, <1>7, <1>9

\* Steps of the store x that write nothing: a change of phase alone.
LEMMA ApartPhase ==
    ASSUME AnyOrderInv, ApartInv, [Next]_vars, NEW x \in Attempts,
           UNCHANGED <<row, points, total, selected, latest, run>>, run[x] = "active",
           NEW p \in {"select", "write"}, pc[x] = "count", pc' = [pc EXCEPT ![x] = p],
           p = "write" => IndexedRows(DocOf[x]) = {}
    PROVE  ApartInv'
<1> USE ApartBefore DEF AnyOrderInv, TypeOK, ApartInv
<1>1. ActiveIsLatest' /\ LatestUnselected' /\ OwnPending'
  BY DEF ActiveIsLatest, LatestUnselected, OwnPending, Own
<1>2. NoneIndexed'
  BY DocOfChunk DEF NoneIndexed, Sibling, Own, IndexedRows
<1>3. SelectedAll' /\ DeletedAll'
  BY DEF SelectedAll, DeletedAll, Sibling, Own
<1>4. /\ \A a \in Attempts : pc'[a] \in AfterMark => pc'[a] = pc[a]
      /\ \A a \in Attempts : pc[a] = "retire" => pc'[a] = "retire"
  BY DEF AfterMark
<1>5. LatestComplete'
  BY <1>4 DEF LatestComplete, Sibling, Own
<1>6. VectorOrRetire' /\ OneIndexedVersion' /\ StaleNotSearchable'
  BY <1>4, ApartRowsFrame
<1>7. QED
  BY <1>1, <1>2, <1>3, <1>5, <1>6

\* While a store is active, it is the only active one and the latest one.
LEMMA OnlyActive ==
    ASSUME ActiveIsLatest, NEW x \in Attempts, run[x] = "active"
    PROVE  \A a \in Attempts :
               /\ Apart(DocOf[a])
               /\ Sibling(a, x)
               /\ run[a] = "active" \/ latest[DocOf[a]] = a
               => a = x
  BY DEF ActiveIsLatest, Sibling

\* ... when it reads old_ids, which no row of its own is among.
LEMMA ApartSelect ==
    ASSUME AnyOrderInv, ApartInv, [Next]_vars, NEW x \in Attempts, SelectOldIds(x)
    PROVE  ApartInv'
<1> USE ApartBefore DEF AnyOrderInv, TypeOK, ApartInv
<1>1. /\ UNCHANGED <<row, points, total, latest, run>>
      /\ run[x] = "active" /\ pc[x] = "select"
      /\ pc' = [pc EXCEPT ![x] = "delete"]
      /\ selected' = [selected EXCEPT ![x] = OldIds(DocOf[x])]
  BY DEF SelectOldIds, At, Goto, stores, history
<1>2. /\ \A a \in Attempts : pc'[a] \in AfterMark \cup {"retire"} => pc'[a] = pc[a]
      /\ \A a \in Attempts : pc[a] = "retire" => pc'[a] = "retire" /\ selected'[a] = selected[a]
  BY <1>1 DEF AfterMark
<1>3. ActiveIsLatest' /\ OwnPending'
  BY <1>1 DEF ActiveIsLatest, OwnPending, Own
<1>4. LatestUnselected'
  <2> SUFFICES ASSUME NEW a \in Attempts, NEW b \in Attempts, Apart(DocOf[a]),
                      latest[DocOf[a]] = a, NEW c \in Own(a), c \in selected'[b]
               PROVE  FALSE
    BY <1>1 DEF LatestUnselected, Own
  <2>1. CASE b # x
    BY <2>1, <1>1 DEF LatestUnselected
  <2>2. CASE b = x
    <3>1. c \in DocChunks(DocOf[x]) /\ row[c] # "absent"
      BY <2>2, <1>1 DEF OldIds, DocRows
    <3>2. a = x
      BY <3>1, <1>1, DocOfChunk, OnlyActive DEF Sibling
    <3>3. QED
      BY <3>1, <3>2, <1>1 DEF OrderInv, RowsWritten, BeforeWrite
  <2>3. QED
    BY <2>1, <2>2
<1>5. NoneIndexed' /\ DeletedAll'
  BY <1>1 DEF NoneIndexed, DeletedAll, Sibling, Own
<1>6. SelectedAll'
  <2> SUFFICES ASSUME NEW a \in Attempts, NEW b \in Attempts, Apart(DocOf[a])',
                      Sibling(a, b), run'[a] = "active", pc'[a] = "delete",
                      NEW c \in Own(b), row'[c] # "absent"
               PROVE  c \in selected'[a]
    BY DEF SelectedAll, Sibling, Own
  <2>1. CASE a = x
    <3>1. c \in DocRows(DocOf[x])
      BY <2>1, <1>1, DocOfChunk DEF Sibling, DocRows
    <3>2. QED
      BY <2>1, <3>1, <1>1 DEF OldIds
  <2>2. CASE a # x
    BY <2>2, <1>1 DEF SelectedAll
  <2>3. QED
    BY <2>1, <2>2
<1>7. LatestComplete'
  BY <1>1, <1>2 DEF LatestComplete, Sibling, Own
<1>8. VectorOrRetire'
  BY <1>1, <1>2 DEF VectorOrRetire, Sibling, Own
<1>9. OneIndexedVersion' /\ StaleNotSearchable'
  BY <1>1, SMTT(30) DEF OneIndexedVersion, StaleNotSearchable, Own
<1>10. QED
  BY <1>3, <1>4, <1>5, <1>6, <1>7, <1>8, <1>9

\* ... when the old points are deleted, none of them of the latest store.
LEMMA ApartDelete ==
    ASSUME AnyOrderInv, ApartInv, [Next]_vars, NEW x \in Attempts, DeletePoints(x)
    PROVE  ApartInv'
<1> USE ApartBefore DEF AnyOrderInv, TypeOK, ApartInv
<1>1. /\ UNCHANGED <<row, total, latest, selected>>
      /\ pc[x] = "delete" /\ pc' = [pc EXCEPT ![x] = "retire"]
      /\ points' = points \ selected[x]
  BY DEF DeletePoints, CarriedOut, history
<1>2. \A a \in Attempts : /\ run'[a] = "active" => run[a] = "active"
                          /\ run[a] = "landed" => run'[a] = "landed"
  BY DEF DeletePoints, CarriedOut
<1>3. /\ \A a \in Attempts : pc'[a] \in AfterMark => pc'[a] = pc[a]
      /\ \A a \in Attempts : pc[a] = "retire" => pc'[a] = "retire"
  BY <1>1 DEF AfterMark
<1>4. ActiveIsLatest' /\ LatestUnselected'
  BY <1>1, <1>2 DEF ActiveIsLatest, LatestUnselected, Own
<1>5. NoneIndexed' /\ OwnPending' /\ SelectedAll'
  BY <1>1, <1>2 DEF NoneIndexed, OwnPending, SelectedAll, Sibling, Own
<1>6. DeletedAll'
  <2> SUFFICES ASSUME NEW a \in Attempts, NEW b \in Attempts, Apart(DocOf[a]),
                      Sibling(a, b), run[a] = "active", pc'[a] = "retire",
                      NEW c \in Own(b), c \in points'
               PROVE  run[b] = "landed"
    BY <1>2 DEF DeletedAll, Sibling, Own
  <2>1. CASE a # x
    BY <2>1, <1>1 DEF DeletedAll
  <2>2. CASE a = x
    BY <2>2, <1>1 DEF SelectedAll, OrderInv, PointHasRow
  <2>3. QED
    BY <2>1, <2>2
<1>7. LatestComplete'
  BY <1>1, <1>3 DEF LatestComplete, LatestUnselected, Sibling, Own
<1>8. VectorOrRetire'
  <2> SUFFICES ASSUME NEW a \in Attempts, Apart(DocOf[a]), NEW c \in Own(a),
                      row[c] = "indexed", c \notin points'
               PROVE  \E b \in Attempts : /\ Sibling(a, b)
                                          /\ pc'[b] = "retire"
                                          /\ c \in selected'[b]
    BY <1>1 DEF VectorOrRetire, Sibling, Own
  <2>1. CASE c \in selected[x]
    BY <2>1, <1>1, DocOfChunk DEF OrderInv, SelectedOld, Sibling
  <2>2. CASE c \notin selected[x]
    BY <2>2, <1>1, <1>3 DEF VectorOrRetire
  <2>3. QED
    BY <2>1, <2>2
<1>9. OneIndexedVersion'
  BY <1>1 DEF OneIndexedVersion, Own
<1>10. StaleNotSearchable'
  <2> SUFFICES ASSUME NEW a \in Attempts, Apart(DocOf[a]), NEW c \in Own(a), c \in points',
                      row[c] = "stale"
               PROVE  run'[a] = "landed"
    BY <1>1 DEF StaleNotSearchable, Own
  <2>1. QED
    BY <1>1, <1>2 DEF StaleNotSearchable
<1>11. QED
  BY <1>4, <1>5, <1>6, <1>7, <1>8, <1>9, <1>10

\* ... when the old rows are retired, of which no point is left.
LEMMA ApartRetire ==
    ASSUME AnyOrderInv, ApartInv, [Next]_vars, NEW x \in Attempts, RetireRows(x)
    PROVE  ApartInv'
<1> USE ApartBefore DEF AnyOrderInv, TypeOK, ApartInv
<1>1. /\ UNCHANGED <<points, total, latest, run, selected>>
      /\ run[x] = "active" /\ pc[x] = "retire"
      /\ pc' = [pc EXCEPT ![x] = "write"]
  BY DEF RetireRows, At, Goto, history
<1>2. \A a \in Attempts : \A c \in Own(a) :
          row'[c] = IF Sibling(a, x) /\ row[c] # "absent" THEN "stale" ELSE row[c]
  BY OwnInChunks, DocOfChunk DEF RetireRows, DocRows, Superseded, Sibling
<1>3. \A a \in Attempts : a # x => pc'[a] = pc[a]
  BY <1>1
<1>4. ActiveIsLatest' /\ LatestUnselected'
  BY <1>1 DEF ActiveIsLatest, LatestUnselected, Own
<1>5. NoneIndexed'
  BY <1>1, <1>2, ZenonT(30) DEF NoneIndexed, Sibling, Own
<1>6. OwnPending'
  <2> SUFFICES ASSUME NEW a \in Attempts, Apart(DocOf[a]), run[a] = "active",
                      pc'[a] \in {"upsert", "mark_chunks"}, NEW c \in Own(a)
               PROVE  row'[c] = "pending_vector"
    BY <1>1 DEF OwnPending, Own
  <2>1. a # x /\ ~Sibling(a, x)
    BY <1>1, OnlyActive
  <2>2. QED
    BY <2>1, <1>2, <1>3 DEF OwnPending
<1>12. SelectedAll' /\ DeletedAll'
  <2>1. \A a \in Attempts : pc'[a] \in {"delete", "retire"} => a # x /\ pc[a] = pc'[a]
    BY <1>1
  <2>2. \A b \in Attempts : \A c \in Own(b) : row'[c] = "absent" <=> row[c] = "absent"
    BY <1>2
  <2>3. QED
    BY <1>1, <2>1, <2>2 DEF SelectedAll, DeletedAll, Sibling, Own
<1>7. LatestComplete'
  <2> SUFFICES ASSUME NEW a \in Attempts, Apart(DocOf[a]), latest[DocOf[a]] = a,
                      pc'[a] \in AfterMark
               PROVE  /\ \A c \in Own(a) : row'[c] = "indexed" /\ c \in points
                      /\ \A b \in Attempts : Sibling(a, b) =>
                             \A c \in Own(b) : row'[c] = "indexed" => a = b
                      /\ pc'[a] # "mark_document" => total[DocOf[a]] = Len(ChunkList[a])
    BY <1>1 DEF LatestComplete, Sibling, Own
  <2>1. a # x
    BY <1>1 DEF AfterMark
  <2>2. ~Sibling(a, x)
    BY <2>1, <1>1, OnlyActive
  <2>3. QED
    BY <2>1, <2>2, <1>2, <1>3, ZenonT(30) DEF LatestComplete, Sibling
<1>8. VectorOrRetire'
  <2> SUFFICES ASSUME NEW a \in Attempts, Apart(DocOf[a]), NEW c \in Own(a),
                      row'[c] = "indexed", c \notin points
               PROVE  \E b \in Attempts : /\ Sibling(a, b)
                                          /\ pc'[b] = "retire"
                                          /\ c \in selected'[b]
    BY <1>1 DEF VectorOrRetire, Sibling, Own
  <2>1. row[c] = "indexed" /\ ~Sibling(a, x)
    BY <1>2
  <2>2. QED
    BY <2>1, <1>1, <1>3 DEF VectorOrRetire
<1>9. OneIndexedVersion'
  <2>1. ASSUME NEW a \in Attempts, NEW b \in Attempts, Apart(DocOf[a])', DocOf[a] = DocOf[b],
               NEW c \in Own(a), NEW e \in Own(b), row'[c] = "indexed", row'[e] = "indexed"
        PROVE  a = b
    <3>1. row[c] = "indexed" /\ row[e] = "indexed"
      BY <2>1, <1>2
    <3>2. Apart(DocOf[a])
      BY <2>1
    <3>3. QED
      BY <2>1, <3>1, <3>2 DEF OneIndexedVersion
  <2>2. QED
    BY ONLY <2>1 DEF OneIndexedVersion, Own
<1>10. StaleNotSearchable'
  <2> SUFFICES ASSUME NEW a \in Attempts, Apart(DocOf[a]), NEW c \in Own(a), c \in points,
                      row'[c] = "stale"
               PROVE  run[a] = "landed"
    BY <1>1 DEF StaleNotSearchable, Own
  <2>1. CASE Sibling(a, x)
    BY <2>1, <1>1 DEF DeletedAll, Sibling
  <2>2. CASE ~Sibling(a, x)
    BY <2>2, <1>2 DEF StaleNotSearchable
  <2>3. QED
    BY <2>1, <2>2
<1>11. QED
  BY <1>4, <1>5, <1>6, <1>7, <1>8, <1>9, <1>10, <1>12

\* ... when it writes its rows, which nobody else has selected or indexed.
LEMMA ApartWrite ==
    ASSUME AnyOrderInv, ApartInv, [Next]_vars, NEW x \in Attempts, WriteRows(x)
    PROVE  ApartInv'
<1> USE ApartBefore DEF AnyOrderInv, TypeOK, ApartInv
<1>1. /\ UNCHANGED <<points, total, latest, run, selected>>
      /\ run[x] = "active" /\ pc[x] = "write"
      /\ pc' = [pc EXCEPT ![x] = "upsert"]
  BY DEF WriteRows, At, Goto, history
<1>2. \A a \in Attempts : \A c \in Own(a) :
          row'[c] = IF a = x THEN "pending_vector" ELSE row[c]
  BY OwnInChunks, OwnApart DEF WriteRows, Written
<1>3. \A a \in Attempts : \A c \in Own(a) :
          row'[c] # "pending_vector" => a # x /\ row[c] = row'[c]
  BY <1>2
<1>4. ActiveIsLatest' /\ LatestUnselected'
  BY <1>1 DEF ActiveIsLatest, LatestUnselected, Own
<1>5. NoneIndexed'
  <2> SUFFICES ASSUME NEW a \in Attempts, NEW b \in Attempts, Apart(DocOf[a]), Sibling(a, b),
                      run[a] = "active", pc'[a] \in {"write", "upsert", "mark_chunks"},
                      NEW c \in Own(b), row'[c] = "indexed"
               PROVE  FALSE
    BY <1>1 DEF NoneIndexed, Sibling, Own
  <2>1. row[c] = "indexed" /\ pc[a] \in {"write", "upsert", "mark_chunks"}
    BY <1>1, <1>3
  <2>2. QED
    BY <2>1 DEF NoneIndexed
<1>6. OwnPending'
  <2> SUFFICES ASSUME NEW a \in Attempts, Apart(DocOf[a]), run[a] = "active",
                      pc'[a] \in {"upsert", "mark_chunks"}, NEW c \in Own(a)
               PROVE  row'[c] = "pending_vector"
    BY <1>1 DEF OwnPending, Own
  <2>1. QED
    BY <1>1, <1>2 DEF OwnPending
<1>7. SelectedAll'
  <2> SUFFICES ASSUME NEW a \in Attempts, NEW b \in Attempts, Apart(DocOf[a]), Sibling(a, b),
                      run[a] = "active", pc'[a] = "delete", NEW c \in Own(b),
                      row'[c] # "absent"
               PROVE  c \in selected[a]
    BY <1>1 DEF SelectedAll, Sibling, Own
  <2>1. a # x /\ b # x
    BY <1>1, OnlyActive
  <2>2. QED
    BY <2>1, <1>1, <1>2 DEF SelectedAll
<1>8. DeletedAll'
  BY <1>1 DEF DeletedAll, Sibling, Own
<1>9. LatestComplete'
  <2> SUFFICES ASSUME NEW a \in Attempts, Apart(DocOf[a]), latest[DocOf[a]] = a,
                      pc'[a] \in AfterMark
               PROVE  /\ \A c \in Own(a) : row'[c] = "indexed" /\ c \in points
                      /\ \A b \in Attempts : Sibling(a, b) =>
                             \A c \in Own(b) : row'[c] = "indexed" => a = b
                      /\ pc'[a] # "mark_document" => total[DocOf[a]] = Len(ChunkList[a])
    BY <1>1 DEF LatestComplete, Sibling, Own
  <2>1. a # x /\ pc[a] = pc'[a]
    BY <1>1 DEF AfterMark
  <2>2. QED
    BY <2>1, <1>2, <1>3 DEF LatestComplete
<1>10. VectorOrRetire'
  <2> SUFFICES ASSUME NEW a \in Attempts, Apart(DocOf[a]), NEW c \in Own(a),
                      row'[c] = "indexed", c \notin points
               PROVE  \E b \in Attempts : /\ Sibling(a, b)
                                          /\ pc'[b] = "retire"
                                          /\ c \in selected'[b]
    BY <1>1 DEF VectorOrRetire, Sibling, Own
  <2>1. row[c] = "indexed" /\ \A b \in Attempts : pc[b] = "retire" => pc'[b] = "retire"
    BY <1>1, <1>3
  <2>2. QED
    BY <2>1, <1>1 DEF VectorOrRetire
<1>11. OneIndexedVersion'
  <2>1. ASSUME NEW a \in Attempts, NEW b \in Attempts, Apart(DocOf[a])', DocOf[a] = DocOf[b],
               NEW c \in Own(a), NEW e \in Own(b), row'[c] = "indexed", row'[e] = "indexed"
        PROVE  a = b
    <3>1. row[c] = "indexed" /\ row[e] = "indexed" /\ Apart(DocOf[a])
      BY <2>1, <1>3
    <3>2. QED
      BY <2>1, <3>1 DEF OneIndexedVersion
  <2>2. QED
    BY ONLY <2>1 DEF OneIndexedVersion, Own
<1>12. StaleNotSearchable'
  <2> SUFFICES ASSUME NEW a \in Attempts, Apart(DocOf[a]), NEW c \in Own(a), c \in points,
                      row'[c] = "stale"
               PROVE  run[a] = "landed"
    BY <1>1 DEF StaleNotSearchable, Own
  <2>1. QED
    BY <1>3 DEF StaleNotSearchable
<1>13. QED
  BY <1>4, <1>5, <1>6, <1>7, <1>8, <1>9, <1>10, <1>11, <1>12

\* ... when a batch reaches Qdrant, for a caller still waiting or one gone.
LEMMA ApartUpsert ==
    ASSUME AnyOrderInv, ApartInv, [Next]_vars, NEW x \in Attempts, UpsertBatch(x)
    PROVE  ApartInv'
<1> USE ApartBefore DEF AnyOrderInv, TypeOK, ApartInv
<1>1. /\ UNCHANGED <<row, total, latest, selected>>
      /\ run[x] \in {"active", "in_doubt"} /\ pc[x] = "upsert"
      /\ pc' = [pc EXCEPT ![x] = AfterBatch(x)]
      /\ run' = [run EXCEPT ![x] = IF @ = "active" THEN "active" ELSE "landed"]
  BY DEF UpsertBatch, CarriedOut, history
<1>2. \A c \in points' : c \in points \/ c \in Own(x)
  BY ConstantTypes DEF UpsertBatch, BatchEnd, Own, OrderInv, SentInRange
<1>3. points \subseteq points'
  BY DEF UpsertBatch
<1>4. \A a \in Attempts : /\ run'[a] = "active" => run[a] = "active"
                          /\ run[a] = "landed" => run'[a] = "landed"
  BY <1>1
<1>5. \A a \in Attempts :
          /\ a # x => pc'[a] = pc[a]
          /\ pc'[a] \in AfterMark => pc'[a] = pc[a]
          /\ pc'[a] \in {"delete", "retire"} <=> pc[a] \in {"delete", "retire"}
          /\ pc'[a] \in {"delete", "retire"} => pc'[a] = pc[a]
          /\ pc'[a] \in {"write", "upsert", "mark_chunks"} =>
                 pc[a] \in {"write", "upsert", "mark_chunks"}
          /\ pc'[a] \in {"upsert", "mark_chunks"} => pc[a] \in {"upsert", "mark_chunks"}
  BY <1>1 DEF AfterBatch, AfterMark
<1>6. ActiveIsLatest' /\ LatestUnselected'
  BY <1>1, <1>4 DEF ActiveIsLatest, LatestUnselected, Own
<1>7. NoneIndexed' /\ OwnPending' /\ SelectedAll'
  BY <1>1, <1>4, <1>5 DEF NoneIndexed, OwnPending, SelectedAll, Sibling, Own
<1>8. DeletedAll'
  <2> SUFFICES ASSUME NEW a \in Attempts, NEW b \in Attempts, Apart(DocOf[a]), Sibling(a, b),
                      run'[a] = "active", pc'[a] = "retire", NEW c \in Own(b), c \in points'
               PROVE  run'[b] = "landed"
    BY DEF DeletedAll, Sibling, Own
  <2>1. run[a] = "active" /\ pc[a] = "retire" /\ a # x
    BY <1>1, <1>4, <1>5
  <2>2. CASE c \in points
    BY <2>1, <2>2, <1>4 DEF DeletedAll
  <2>3. CASE c \in Own(x)
    <3>1. b = x
      BY <2>3, OwnApart
    <3>2. run[x] # "active"
      BY <3>1, <2>1, OnlyActive
    <3>3. QED
      BY <3>1, <3>2, <1>1
  <2>4. QED
    BY <2>2, <2>3, <1>2
<1>9. LatestComplete'
  BY <1>1, <1>3, <1>5 DEF LatestComplete, Sibling, Own
<1>10. VectorOrRetire'
  BY <1>1, <1>3, <1>5 DEF VectorOrRetire, Sibling, Own
<1>11. OneIndexedVersion'
  <2>1. ASSUME NEW a \in Attempts, NEW b \in Attempts, Apart(DocOf[a])', DocOf[a] = DocOf[b],
               NEW c \in Own(a), NEW e \in Own(b), row'[c] = "indexed", row'[e] = "indexed"
        PROVE  a = b
    BY <1>1, <2>1 DEF OneIndexedVersion
  <2>2. QED
    BY ONLY <2>1 DEF OneIndexedVersion, Own
<1>12. StaleNotSearchable'
  <2> SUFFICES ASSUME NEW a \in Attempts, Apart(DocOf[a]), NEW c \in Own(a), c \in points',
                      row[c] = "stale"
               PROVE  run'[a] = "landed"
    BY <1>1 DEF StaleNotSearchable, Own
  <2>1. CASE c \in points
    BY <2>1, <1>4 DEF StaleNotSearchable
  <2>2. CASE c \in Own(x)
    <3>1. a = x
      BY <2>2, OwnApart
    <3>2. run[x] # "active"
      BY <3>1, <1>1 DEF OwnPending
    <3>3. QED
      BY <3>1, <3>2, <1>1
  <2>3. QED
    BY <2>1, <2>2, <1>2
<1>13. QED
  BY <1>6, <1>7, <1>8, <1>9, <1>10, <1>11, <1>12

\* ... when it marks its chunks: all their points are there, since nobody has
\* selected them, and no other row of the document is indexed.
LEMMA ApartMark ==
    ASSUME AnyOrderInv, ApartInv, [Next]_vars, NEW x \in Attempts, MarkChunks(x)
    PROVE  ApartInv'
<1> USE ApartBefore DEF AnyOrderInv, TypeOK, ApartInv
<1>1. /\ UNCHANGED <<points, total, latest, run, selected>>
      /\ run[x] = "active" /\ pc[x] = "mark_chunks"
      /\ pc' = [pc EXCEPT ![x] = "mark_document"]
  BY DEF MarkChunks, At, Goto, history
<1>2. \A a \in Attempts : \A c \in Own(a) :
          row'[c] = IF a = x THEN "indexed" ELSE row[c]
  BY OwnInChunks, OwnApart DEF MarkChunks, Marked
<1>3. \A a \in Attempts : \A c \in Own(a) :
          row'[c] # "indexed" => a # x /\ row[c] = row'[c]
  BY <1>2
<1>4. \A a \in Attempts : a # x => pc'[a] = pc[a]
  BY <1>1
<1>5. ActiveIsLatest' /\ LatestUnselected'
  BY <1>1 DEF ActiveIsLatest, LatestUnselected, Own
<1>6. NoneIndexed'
  <2> SUFFICES ASSUME NEW a \in Attempts, NEW b \in Attempts, Apart(DocOf[a]), Sibling(a, b),
                      run[a] = "active", pc'[a] \in {"write", "upsert", "mark_chunks"},
                      NEW c \in Own(b)
               PROVE  row'[c] # "indexed"
    BY <1>1 DEF NoneIndexed, Sibling, Own
  <2>1. a # x /\ b # x
    BY <1>1, OnlyActive
  <2>2. QED
    BY <2>1, <1>2, <1>4 DEF NoneIndexed
<1>7. OwnPending'
  <2> SUFFICES ASSUME NEW a \in Attempts, Apart(DocOf[a]), run[a] = "active",
                      pc'[a] \in {"upsert", "mark_chunks"}, NEW c \in Own(a)
               PROVE  row'[c] = "pending_vector"
    BY <1>1 DEF OwnPending, Own
  <2>1. a # x
    BY <1>1
  <2>2. QED
    BY <2>1, <1>2, <1>4 DEF OwnPending
<1>8. SelectedAll'
  <2> SUFFICES ASSUME NEW a \in Attempts, NEW b \in Attempts, Apart(DocOf[a]), Sibling(a, b),
                      run[a] = "active", pc'[a] = "delete", NEW c \in Own(b),
                      row'[c] # "absent"
               PROVE  c \in selected[a]
    BY <1>1 DEF SelectedAll, Sibling, Own
  <2>1. a # x /\ b # x
    BY <1>1, OnlyActive
  <2>2. QED
    BY <2>1, <1>1, <1>2 DEF SelectedAll
<1>9. DeletedAll'
  BY <1>1 DEF DeletedAll, Sibling, Own
<1>10. ASSUME Apart(DocOf[x]) PROVE \A c \in Own(x) : c \in points
  <2> SUFFICES ASSUME NEW c \in Own(x) PROVE c \in points
    OBVIOUS
  <2>1. c \in Sent(x)
    BY <1>1 DEF Sent, Own, OrderInv, SentInRange, AfterUpsert
  <2>2. latest[DocOf[x]] = x
    BY <1>1, <1>10 DEF ActiveIsLatest
  <2>3. ~DeletedByOther(x, c)
    BY <2>2, <1>10 DEF LatestUnselected, DeletedByOther
  <2>4. QED
    BY <2>1, <2>3 DEF OrderInv, SentOrDeleted
<1>11. LatestComplete'
  <2> SUFFICES ASSUME NEW a \in Attempts, Apart(DocOf[a]), latest[DocOf[a]] = a,
                      pc'[a] \in AfterMark
               PROVE  /\ \A c \in Own(a) : row'[c] = "indexed" /\ c \in points
                      /\ \A b \in Attempts : Sibling(a, b) =>
                             \A c \in Own(b) : row'[c] = "indexed" => a = b
                      /\ pc'[a] # "mark_document" => total[DocOf[a]] = Len(ChunkList[a])
    BY <1>1 DEF LatestComplete, Sibling, Own
  <2>1. CASE a = x
    <3>1. \A c \in Own(a) : row'[c] = "indexed" /\ c \in points
      BY <2>1, <1>2, <1>10
    <3>2. \A b \in Attempts : Sibling(a, b) =>
              \A c \in Own(b) : row'[c] = "indexed" => a = b
      BY <2>1, <1>1, <1>2 DEF NoneIndexed
    <3>3. QED
      BY <2>1, <3>1, <3>2, <1>1
  <2>2. CASE a # x
    <3>1. ~Sibling(a, x)
      BY <2>2, <1>1, OnlyActive
    <3>2. QED
      BY <2>2, <3>1, <1>2, <1>4 DEF LatestComplete
  <2>3. QED
    BY <2>1, <2>2
<1>12. VectorOrRetire'
  <2> SUFFICES ASSUME NEW a \in Attempts, Apart(DocOf[a]), NEW c \in Own(a),
                      row'[c] = "indexed", c \notin points
               PROVE  \E b \in Attempts : /\ Sibling(a, b)
                                          /\ pc'[b] = "retire"
                                          /\ c \in selected'[b]
    BY <1>1 DEF VectorOrRetire, Sibling, Own
  <2>1. row[c] = "indexed" /\ \A b \in Attempts : pc[b] = "retire" => pc'[b] = "retire"
    BY <1>1, <1>2, <1>10
  <2>2. QED
    BY <2>1, <1>1 DEF VectorOrRetire
<1>13. OneIndexedVersion'
  <2>1. ASSUME NEW a \in Attempts, NEW b \in Attempts, Apart(DocOf[a])', DocOf[a] = DocOf[b],
               NEW c \in Own(a), NEW e \in Own(b), row'[c] = "indexed", row'[e] = "indexed"
        PROVE  a = b
    <3>1. Apart(DocOf[a])
      BY <2>1
    <3>2. CASE a # x /\ b # x
      BY <2>1, <3>1, <3>2, <1>2 DEF OneIndexedVersion
    <3>3. CASE (a = x \/ b = x) /\ a # b
      BY <2>1, <3>1, <3>3, <1>1, <1>2 DEF NoneIndexed, Sibling
    <3>4. QED
      BY <3>2, <3>3
  <2>2. QED
    BY ONLY <2>1 DEF OneIndexedVersion, Own
<1>14. StaleNotSearchable'
  <2> SUFFICES ASSUME NEW a \in Attempts, Apart(DocOf[a]), NEW c \in Own(a), c \in points,
                      row'[c] = "stale"
               PROVE  run[a] = "landed"
    BY <1>1 DEF StaleNotSearchable, Own
  <2>1. QED
    BY <1>3 DEF StaleNotSearchable
<1>15. QED
  BY <1>5, <1>6, <1>7, <1>8, <1>9, <1>11, <1>12, <1>13, <1>14

\* ... when it records its number of chunks.
LEMMA ApartMarkDocument ==
    ASSUME AnyOrderInv, ApartInv, [Next]_vars, NEW x \in Attempts, MarkDocument(x)
    PROVE  ApartInv'
<1> USE ApartBefore DEF AnyOrderInv, TypeOK, ApartInv
<1>1. /\ UNCHANGED <<row, points, latest, run, selected>>
      /\ run[x] = "active" /\ pc[x] = "mark_document"
      /\ pc' = [pc EXCEPT ![x] = "tag"]
      /\ total' = [total EXCEPT ![DocOf[x]] = Len(ChunkList[x])]
  BY DEF MarkDocument, At, Goto, history
<1>2. \A a \in Attempts :
          /\ pc'[a] \in AfterMark => pc[a] \in AfterMark
          /\ a # x => pc'[a] = pc[a]
          /\ pc[a] = "retire" <=> pc'[a] = "retire"
  BY <1>1 DEF AfterMark
<1>3. ActiveIsLatest' /\ LatestUnselected' /\ NoneIndexed' /\ OwnPending'
  BY <1>1 DEF ActiveIsLatest, LatestUnselected, NoneIndexed, OwnPending, Sibling, Own
<1>4. SelectedAll' /\ DeletedAll'
  BY <1>1 DEF SelectedAll, DeletedAll, Sibling, Own
<1>5. LatestComplete'
  <2> SUFFICES ASSUME NEW a \in Attempts, Apart(DocOf[a]), latest[DocOf[a]] = a,
                      pc'[a] \in AfterMark
               PROVE  /\ \A c \in Own(a) : row[c] = "indexed" /\ c \in points
                      /\ \A b \in Attempts : Sibling(a, b) =>
                             \A c \in Own(b) : row[c] = "indexed" => a = b
                      /\ pc'[a] # "mark_document" => total'[DocOf[a]] = Len(ChunkList[a])
    BY <1>1 DEF LatestComplete, Sibling, Own
  <2>1. pc'[a] # "mark_document" => total'[DocOf[a]] = Len(ChunkList[a])
    <3>1. CASE a = x
      BY <3>1, <1>1, ConstantTypes
    <3>2. CASE a # x
      <4>1. DocOf[a] # DocOf[x]
        BY <3>2, <1>1, OnlyActive DEF Sibling
      <4>2. QED
        BY <3>2, <4>1, <1>1, <1>2, ConstantTypes DEF LatestComplete
    <3>3. QED
      BY <3>1, <3>2
  <2>2. QED
    BY <2>1, <1>2 DEF LatestComplete
<1>6. VectorOrRetire' /\ OneIndexedVersion' /\ StaleNotSearchable'
  BY <1>1, <1>2, ApartRowsFrame
<1>7. QED
  BY <1>3, <1>4, <1>5, <1>6

\* Every step of the system preserves the invariant of stores kept apart.
LEMMA ApartStep == AnyOrderInv /\ ApartInv /\ [Next]_vars => ApartInv'
<1> SUFFICES ASSUME AnyOrderInv, ApartInv, [Next]_vars PROVE ApartInv'
  OBVIOUS
<1> DEFINE Idle ==
      /\ UNCHANGED <<row, points, total, selected, latest>>
      /\ \A a \in Attempts :
             /\ run'[a] = "active" => run[a] = "active" /\ pc'[a] = pc[a]
             /\ run[a] = "landed" => run'[a] = "landed"
             /\ pc[a] = "retire" => pc'[a] = "retire"
             /\ pc'[a] \in AfterMark => pc[a] \in AfterMark
             /\ pc'[a] \in {"tag", "done"} => pc[a] \in {"tag", "done"}
<1>1. Idle => ApartInv'
  <2> HIDE DEF Idle
  <2> SUFFICES ASSUME Idle PROVE ApartInv'
    OBVIOUS
  <2>1. QED
    BY ApartFrame DEF Idle
<1> USE DEF AnyOrderInv, TypeOK, stores, history
<1>2. ASSUME NEW d \in Docs, Register(d) PROVE ApartInv'
  BY <1>1, <1>2 DEF Register
<1>3. ASSUME NEW a \in Attempts, Begin(a) PROVE ApartInv'
  <2>1. CASE ChunkList[a] = <<>>
    <3>1. Idle
      BY <1>3, <2>1 DEF Begin, NewAtStart, AfterMark
    <3>2. QED
      BY <3>1, <1>1
  <2>2. CASE ChunkList[a] # <<>>
    BY <1>3, <2>2, ApartBegin
  <2>3. QED
    BY <2>1, <2>2
<1>4. ASSUME NEW a \in Attempts, Fail(a) PROVE ApartInv'
  <2>1. Idle
    BY <1>4 DEF Fail
  <2>2. QED
    BY <2>1, <1>1
<1>5. ASSUME NEW a \in Attempts, CountIndexed(a) PROVE ApartInv'
  <2> DEFINE p == IF CountedRows(DocOf[a]) = {} THEN "write" ELSE "select"
  <2>1. /\ UNCHANGED <<row, points, total, selected, latest, run>>
        /\ run[a] = "active" /\ pc[a] = "count"
        /\ p \in {"select", "write"} /\ pc' = [pc EXCEPT ![a] = p]
        /\ p = "write" => IndexedRows(DocOf[a]) = {}
    BY <1>5 DEF CountIndexed, At, Goto, CountedRows
  <2> HIDE DEF p
  <2>2. QED
    BY <2>1, ApartPhase
<1>6. ASSUME NEW a \in Attempts, AutoTag(a) PROVE ApartInv'
  <2>1. Idle
    BY <1>6 DEF AutoTag, At, AfterMark
  <2>2. QED
    BY <2>1, <1>1
<1>7. CASE UNCHANGED vars
  <2>1. Idle
    BY <1>7 DEF vars
  <2>2. QED
    BY <2>1, <1>1
<1>8. QED
  BY <1>2, <1>3, <1>4, <1>5, <1>6, <1>7, ApartSelect, ApartDelete, ApartRetire, ApartWrite,
     ApartUpsert, ApartMark, ApartMarkDocument DEF Next, Step

\* The whole inductive invariant holds of every reachable state.
LEMMA ApartAlways == Spec => [](AnyOrderInv /\ ApartInv)
<1>1. Init => AnyOrderInv /\ ApartInv
  BY AnyOrderInit, ApartInit
<1>2. AnyOrderInv /\ ApartInv /\ [Next]_vars => (AnyOrderInv /\ ApartInv)'
  BY AnyOrderStep, ApartStep
<1>3. QED
  BY <1>1, <1>2, PTL DEF Spec

\* Of a document whose stores never overlapped, an 'indexed' row misses its
\* vector only between writer.py's deletion of the points and its UPDATE of the
\* rows, wherever stores stopped.
THEOREM VectorsOfApartStores == Spec => []IndexedHasVector
<1>1. AnyOrderInv /\ ApartInv => IndexedHasVector
  <2> SUFFICES ASSUME AnyOrderInv, ApartInv, NEW d \in Docs, Apart(d),
                      NEW c \in IndexedRows(d), c \notin points
               PROVE  \E b \in Attempts : DocOf[b] = d /\ pc[b] = "retire" /\ c \in selected[b]
    BY DEF IndexedHasVector
  <2>1. PICK a \in Attempts : DocOf[a] = d /\ c \in Own(a)
    BY DocChunksMember DEF IndexedRows
  <2>2. QED
    BY <2>1 DEF IndexedRows, ApartInv, VectorOrRetire, Sibling
<1>2. QED
  BY <1>1, ApartAlways, PTL

\* The 'indexed' rows of a document whose stores never overlapped come from one
\* call of store().
THEOREM OneVersionIndexed == Spec => []OneIndexedVersion
<1>1. ApartInv => OneIndexedVersion
  BY DEF ApartInv
<1>2. QED
  BY <1>1, ApartAlways, PTL

\* A row _delete_old_chunks_if_update() made 'stale' has no point, unless an
\* upsert its caller had given up on was carried out late.
THEOREM StaleHasNoPoint == Spec => []StaleNotSearchable
<1>1. ApartInv => StaleNotSearchable
  BY DEF ApartInv
<1>2. QED
  BY <1>1, ApartAlways, PTL

\* What store() has achieved once _mark_indexed() is done, as long as it is the
\* last store of its document and none overlapped.
THEOREM StoreKeepsContract == Spec => []StoreContract
<1>1. AnyOrderInv /\ ApartInv => StoreContract
  <2> SUFFICES ASSUME AnyOrderInv, ApartInv, NEW a \in Attempts, Apart(DocOf[a]),
                      latest[DocOf[a]] = a, pc[a] \in {"tag", "done"}
               PROVE  /\ IndexedRows(DocOf[a]) = Own(a)
                      /\ Own(a) \subseteq points
                      /\ total[DocOf[a]] = Len(ChunkList[a])
                      /\ \A b \in Attempts \ {a} : \A c \in points \cap Own(b) :
                             DocOf[b] = DocOf[a] =>
                                 row[c] = "pending_vector" \/ run[b] = "landed"
    BY DEF StoreContract
  <2>1. /\ \A c \in Own(a) : row[c] = "indexed" /\ c \in points
        /\ \A b \in Attempts : Sibling(a, b) => \A c \in Own(b) : row[c] = "indexed" => a = b
        /\ total[DocOf[a]] = Len(ChunkList[a])
    BY DEF ApartInv, LatestComplete, AfterMark
  <2>2. IndexedRows(DocOf[a]) = Own(a)
    <3>1. \A c \in IndexedRows(DocOf[a]) : c \in Own(a)
      <4> SUFFICES ASSUME NEW c \in IndexedRows(DocOf[a]) PROVE c \in Own(a)
        OBVIOUS
      <4>1. PICK b \in Attempts : DocOf[b] = DocOf[a] /\ c \in Own(b)
        BY DocChunksMember DEF IndexedRows
      <4>2. QED
        BY <4>1, <2>1 DEF IndexedRows, Sibling
    <3>2. \A c \in Own(a) : c \in IndexedRows(DocOf[a])
      BY <2>1, DocChunksMember DEF IndexedRows
    <3>3. QED
      BY <3>1, <3>2
  <2>3. ASSUME NEW b \in Attempts \ {a}, NEW c \in points \cap Own(b), DocOf[b] = DocOf[a]
        PROVE  row[c] = "pending_vector" \/ run[b] = "landed"
    <3>1. row[c] \in RowStatus \ {"absent", "indexed"}
      BY <2>1, <2>3, OwnInChunks DEF AnyOrderInv, TypeOK, OrderInv, PointHasRow, Sibling
    <3>2. row[c] = "stale" => run[b] = "landed"
      BY <2>3 DEF ApartInv, StaleNotSearchable
    <3>3. QED
      BY <3>1, <3>2 DEF RowStatus
  <2>4. QED
    BY <2>1, <2>2, <2>3
<1>2. QED
  BY <1>1, ApartAlways, PTL

\* No step of any store, running or failing, makes a superseded chunk of a
\* document whose stores never overlapped anything else again.
THEOREM SupersededForGood == Spec => StaleIsFinal
<1> DEFINE Final == \A d \in Docs : d \notin overlapped' =>
                        \A c \in DocChunks(d) : row[c] = "stale" => row'[c] = "stale"
<1>1. ASSUME AnyOrderInv, ApartInv, [Next]_vars PROVE Final
  <2> SUFFICES ASSUME NEW d \in Docs, d \notin overlapped', NEW c \in DocChunks(d),
                      row[c] = "stale"
               PROVE  row'[c] = "stale"
    OBVIOUS
  <2> USE <1>1 DEF AnyOrderInv, TypeOK, stores, history, At, Goto, CarriedOut
  <2>1. Apart(d) /\ c \in Chunks
    BY ApartBefore, DocChunksMember, OwnInChunks DEF Apart
  <2>2. ASSUME NEW a \in Attempts, WriteRows(a) PROVE row'[c] = "stale"
    BY <2>1, <2>2 DEF WriteRows, Written, OrderInv, RowsWritten, BeforeWrite
  <2>3. ASSUME NEW a \in Attempts, MarkChunks(a) PROVE row'[c] = "stale"
    <3>1. c \notin Own(a)
      BY <2>1, <2>3, DocOfChunk DEF MarkChunks, ApartInv, OwnPending
    <3>2. QED
      BY <3>1, <2>1, <2>3 DEF MarkChunks, Marked
  <2>4. ASSUME NEW a \in Attempts, RetireRows(a) PROVE row'[c] = "stale"
    BY <2>1, <2>4 DEF RetireRows, Superseded
  <2>5. ASSUME NEW a \in Attempts, Begin(a) \/ Fail(a) PROVE row'[c] = "stale"
    BY <2>5 DEF Begin, Fail
  <2>6. ASSUME NEW a \in Attempts,
               CountIndexed(a) \/ SelectOldIds(a) \/ DeletePoints(a) \/ UpsertBatch(a)
                   \/ MarkDocument(a) \/ AutoTag(a)
        PROVE  row'[c] = "stale"
    BY <2>6 DEF CountIndexed, SelectOldIds, DeletePoints, UpsertBatch, MarkDocument, AutoTag
  <2>7. QED
    BY <2>2, <2>3, <2>4, <2>5, <2>6 DEF Next, Step, Register, vars
<1>2. AnyOrderInv /\ ApartInv /\ [Next]_vars => [Final]_vars
  BY <1>1
<1>3. QED
  BY <1>2, ApartAlways, PTL DEF Spec, StaleIsFinal

-----------------------------------------------------------------------------
(* The index: StorageWriter implements DocumentIndex, the searchable chunks being
   the points in Qdrant.  Initial states map to initial states, and every step of
   every store, whether it runs, fails or lands late, to a step of the index or to
   none. *)

\* A call that was given no chunks has returned.
SkippedIsOver == \A a \in Attempts : pc[a] = "skipped" => run[a] = "over"

\* Only a store stopped in a Qdrant request does anything afterwards.
LateUnmarked == \A a \in Attempts : run[a] \in {"in_doubt", "landed"} => pc[a] \notin AfterMark

\* What a store has marked stays so until it is superseded.
MarkedOrStale ==
    \A a \in Attempts : pc[a] \in AfterMark => \A c \in Own(a) : row[c] \in {"indexed", "stale"}

\* The rows of a store are written at once, and so selected together.
SelectedWhole ==
    \A a, b \in Attempts : (\E c \in Own(b) : c \in selected[a]) => Own(b) \subseteq selected[a]

ProgressInv == SkippedIsOver /\ LateUnmarked /\ MarkedOrStale /\ SelectedWhole

IndexInv == AnyOrderInv /\ ApartInv /\ ProgressInv

LEMMA ProgressInit == Init => ProgressInv
  BY OwnInChunks DEF Init, ProgressInv, SkippedIsOver, LateUnmarked, MarkedOrStale, SelectedWhole,
     AfterMark

\* Which phases and ways to run a step leads to.
LEMMA PhasesStep ==
    ASSUME AnyOrderInv, SkippedIsOver, LateUnmarked, [Next]_vars
    PROVE  SkippedIsOver' /\ LateUnmarked'
<1> USE DEF AnyOrderInv, TypeOK, Phases, RunStates, SkippedIsOver, LateUnmarked, AfterMark,
            At, Goto, CarriedOut, history, stores
<1>1. ASSUME NEW d \in Docs, Register(d) PROVE SkippedIsOver' /\ LateUnmarked'
  BY <1>1 DEF Register
<1>2. ASSUME NEW a \in Attempts, Begin(a) PROVE SkippedIsOver' /\ LateUnmarked'
  BY <1>2 DEF Begin
<1>3. ASSUME NEW a \in Attempts, Fail(a) PROVE SkippedIsOver' /\ LateUnmarked'
  BY <1>3 DEF Fail
<1>4. ASSUME NEW a \in Attempts, Step(a) PROVE SkippedIsOver' /\ LateUnmarked'
  BY <1>4 DEF Step, CountIndexed, SelectOldIds, DeletePoints, RetireRows, WriteRows,
     UpsertBatch, AfterBatch, MarkChunks, MarkDocument, AutoTag
<1>5. CASE UNCHANGED vars
  BY <1>5 DEF vars
<1>6. QED
  BY <1>1, <1>2, <1>3, <1>4, <1>5 DEF Next

\* Rows once marked are only ever superseded.
LEMMA MarkedStep ==
    ASSUME AnyOrderInv, MarkedOrStale, [Next]_vars PROVE MarkedOrStale'
<1> USE DEF AnyOrderInv, TypeOK, At, Goto, CarriedOut, history, stores
<1> SUFFICES ASSUME NEW a \in Attempts, pc'[a] \in AfterMark, NEW c \in Own(a)
             PROVE  row'[c] \in {"indexed", "stale"}
  BY DEF MarkedOrStale, Own
<1>0. c \in Chunks /\ (pc[a] \in AfterMark => row[c] \in {"indexed", "stale"})
  BY OwnInChunks DEF MarkedOrStale
<1>1. ASSUME NEW d \in Docs, Register(d) PROVE row'[c] \in {"indexed", "stale"}
  BY <1>0, <1>1 DEF Register
<1>2. ASSUME NEW b \in Attempts, Begin(b) \/ Fail(b) PROVE row'[c] \in {"indexed", "stale"}
  BY <1>0, <1>2 DEF Begin, Fail, AfterMark
<1>3. ASSUME NEW b \in Attempts, \/ CountIndexed(b) \/ SelectOldIds(b) \/ DeletePoints(b)
                                 \/ UpsertBatch(b)
      PROVE  row'[c] \in {"indexed", "stale"}
  BY <1>0, <1>3 DEF CountIndexed, SelectOldIds, DeletePoints, UpsertBatch, AfterBatch, AfterMark
<1>4. ASSUME NEW b \in Attempts, RetireRows(b) PROVE row'[c] \in {"indexed", "stale"}
  BY <1>0, <1>4 DEF RetireRows, Superseded, AfterMark
<1>5. ASSUME NEW b \in Attempts, WriteRows(b) PROVE row'[c] \in {"indexed", "stale"}
  <2>1. b # a /\ pc[a] \in AfterMark
    BY <1>5 DEF WriteRows, AfterMark
  <2>2. c \notin Own(b)
    BY <2>1, OwnApart
  <2>3. QED
    BY <1>0, <1>5, <2>1, <2>2 DEF WriteRows, Written
<1>6. ASSUME NEW b \in Attempts, MarkChunks(b) PROVE row'[c] \in {"indexed", "stale"}
  <2>1. b = a \/ pc[a] \in AfterMark
    BY <1>6 DEF MarkChunks
  <2>2. QED
    BY <1>0, <1>6, <2>1 DEF MarkChunks, Marked
<1>7. ASSUME NEW b \in Attempts, MarkDocument(b) \/ AutoTag(b)
      PROVE  row'[c] \in {"indexed", "stale"}
  BY <1>0, <1>7 DEF MarkDocument, AutoTag, AfterMark
<1>8. CASE UNCHANGED vars
  BY <1>0, <1>8 DEF vars
<1>9. QED
  BY <1>1, <1>2, <1>3, <1>4, <1>5, <1>6, <1>7, <1>8 DEF Next, Step

\* Only one statement changes what a store has selected.
LEMMA SelectedStep ==
    ASSUME AnyOrderInv, SelectedWhole, [Next]_vars PROVE SelectedWhole'
<1> USE DEF AnyOrderInv, TypeOK, At, Goto, CarriedOut, history, stores
<1>1. ASSUME NEW a \in Attempts, SelectOldIds(a) PROVE SelectedWhole'
  <2> SUFFICES ASSUME NEW e \in Attempts, NEW b \in Attempts, NEW c \in Own(b),
                      c \in selected'[e], NEW x \in Own(b)
               PROVE  x \in selected'[e]
    BY DEF SelectedWhole, Own
  <2>1. CASE e # a
    BY <1>1, <2>1 DEF SelectOldIds, SelectedWhole
  <2>2. CASE e = a
    <3>1. selected'[a] = DocRows(DocOf[a])
      BY <1>1 DEF SelectOldIds, OldIds
    <3>2. c \in DocChunks(DocOf[a]) /\ row[c] # "absent"
      BY <2>2, <3>1 DEF DocRows
    <3>3. row[x] # "absent"
      BY <3>2 DEF OrderInv, RowsWritten
    <3>4. x \in DocChunks(DocOf[a])
      BY <3>2, DocOfChunk
    <3>5. QED
      BY <2>2, <3>1, <3>3, <3>4 DEF DocRows
  <2>3. QED
    BY <2>1, <2>2
<1>2. CASE selected' = selected
  BY <1>2 DEF SelectedWhole, Own
<1>3. ASSUME NEW a \in Attempts, Begin(a) \/ Fail(a) \/ (Step(a) /\ ~SelectOldIds(a))
      PROVE  selected' = selected
  BY <1>3 DEF Begin, Fail, Step, CountIndexed, DeletePoints, RetireRows, WriteRows,
     UpsertBatch, MarkChunks, MarkDocument, AutoTag
<1>4. ASSUME NEW d \in Docs, Register(d) PROVE selected' = selected
  BY <1>4 DEF Register
<1>5. CASE UNCHANGED vars
  BY <1>2, <1>5 DEF vars
<1>6. QED
  BY <1>1, <1>2, <1>3, <1>4, <1>5 DEF Next

LEMMA IndexInvAlways == Spec => []IndexInv
<1>1. Init => ProgressInv
  BY ProgressInit
<1>2. AnyOrderInv /\ ProgressInv /\ [Next]_vars => ProgressInv'
  BY PhasesStep, MarkedStep, SelectedStep DEF ProgressInv
<1>3. QED
  BY <1>1, <1>2, ApartAlways, PTL DEF Spec, IndexInv

-----------------------------------------------------------------------------
(* Every step of a store is a step of the index, or none. *)

\* How far a store is, by its phase and the way it runs.
LEMMA ProgressIs ==
    ASSUME TypeOK, NEW a \in Attempts
    PROVE  /\ pc[a] \in AfterMark => Progress[a] = "finished"
           /\ pc[a] = "skipped" => Progress[a] = "new"
           /\ pc[a] \notin AfterMark \cup {"skipped"} =>
                  /\ run[a] = "new" => Progress[a] = "new"
                  /\ run[a] = "active" => Progress[a] = "storing"
                  /\ run[a] \in {"in_doubt", "over"} => Progress[a] = "failed"
                  /\ run[a] = "landed" => Progress[a] = "landed"
  BY DEF Progress, Running, TypeOK, RunStates, AfterMark

\* ... and after the step.
LEMMA ProgressWillBe ==
    ASSUME TypeOK', NEW a \in Attempts
    PROVE  /\ pc'[a] \in AfterMark => Progress'[a] = "finished"
           /\ pc'[a] = "skipped" => Progress'[a] = "new"
           /\ pc'[a] \notin AfterMark \cup {"skipped"} =>
                  /\ run'[a] = "new" => Progress'[a] = "new"
                  /\ run'[a] = "active" => Progress'[a] = "storing"
                  /\ run'[a] \in {"in_doubt", "over"} => Progress'[a] = "failed"
                  /\ run'[a] = "landed" => Progress'[a] = "landed"
  BY DEF Progress, Running, TypeOK, RunStates, AfterMark

\* A step of one store leaves the others where they are.
LEMMA ProgressOfOthers ==
    ASSUME NEW a \in Attempts, NEW p,
           \A b \in Attempts \ {a} : pc'[b] = pc[b] /\ run'[b] = run[b],
           Progress'[a] = p
    PROVE  Progress' = [Progress EXCEPT ![a] = p]
  BY DEF Progress

\* A step after which a store is as far as before, and no point has changed.
LEMMA NothingToSee ==
    ASSUME NEW a \in Attempts,
           \A b \in Attempts \ {a} : pc'[b] = pc[b] /\ run'[b] = run[b],
           Progress'[a] = Progress[a], points' = points, overlapped' = overlapped
    PROVE  UNCHANGED Index!indexVars
<1>1. Progress' = Progress
  BY DEF Progress
<1>2. QED
  BY <1>1 DEF Index!indexVars

\* A store begins: its document is blurred if another store is active.
LEMMA BeginRefines ==
    ASSUME IndexInv, IndexInv', NEW a \in Attempts, Begin(a)
    PROVE  [Index!Next]_Index!indexVars
<1> USE DEF IndexInv, AnyOrderInv, TypeOK
<1>1. pc[a] = "count" /\ Progress[a] = "new"
  BY ProgressIs DEF Begin, NewAtStart, AfterMark
<1>2. points' = points
  BY DEF Begin, stores
<1>3. CASE ChunkList[a] = <<>> /\ pc'[a] = "skipped" /\ overlapped' = overlapped
  <2>1. Progress'[a] = "new"
    BY <1>3, ProgressWillBe
  <2>2. \A b \in Attempts \ {a} : pc'[b] = pc[b] /\ run'[b] = run[b]
    BY DEF Begin
  <2>3. QED
    BY <1>1, <1>2, <1>3, <2>1, <2>2, NothingToSee
<1>4. CASE run'[a] = "active" /\ pc' = pc
  <2>1. Progress'[a] = "storing"
    BY <1>1, <1>4, ProgressWillBe DEF AfterMark
  <2>2. Progress' = [Progress EXCEPT ![a] = "storing"]
    BY <2>1, ProgressOfOthers DEF Begin
  <2>3. \/ overlapped' = overlapped \cup {DocOf[a]}
        \/ /\ overlapped' = overlapped
           /\ \A b \in Attempts : DocOf[b] = DocOf[a] => run[b] # "active"
    BY <1>4 DEF Begin, history
  <2>4. ASSUME NEW b \in Attempts, run[b] # "active" PROVE Progress[b] # "storing"
    BY <2>4, ProgressIs DEF RunStates
  <2>5. Index!Start(a)
    BY <1>1, <1>2, <2>2, <2>3, <2>4 DEF Index!Start, Index!Siblings
  <2>6. QED
    BY <2>5 DEF Index!Next, Index!StoreStep
<1>5. QED
  BY <1>3, <1>4 DEF Begin, history

\* An exception leaves the store where it is.
LEMMA FailRefines ==
    ASSUME IndexInv, IndexInv', NEW a \in Attempts, Fail(a)
    PROVE  [Index!Next]_Index!indexVars
<1> USE DEF IndexInv, AnyOrderInv, TypeOK
<1>1. /\ run[a] = "active" /\ run'[a] \in {"in_doubt", "over"} /\ pc' = pc
      /\ points' = points /\ overlapped' = overlapped
      /\ \A b \in Attempts \ {a} : run'[b] = run[b]
  BY DEF Fail, stores, history
<1>2. pc[a] # "skipped"
  BY <1>1 DEF ProgressInv, SkippedIsOver
<1>3. CASE pc[a] \in AfterMark
  BY <1>1, <1>3, ProgressIs, ProgressWillBe, NothingToSee
<1>4. CASE pc[a] \notin AfterMark
  <2>1. Progress[a] = "storing" /\ Progress'[a] = "failed"
    BY <1>1, <1>2, <1>4, ProgressIs, ProgressWillBe
  <2>2. Progress' = [Progress EXCEPT ![a] = "failed"]
    BY <1>1, <2>1, ProgressOfOthers
  <2>3. Index!Abandon(a)
    BY <1>1, <2>1, <2>2 DEF Index!Abandon
  <2>4. QED
    BY <2>3 DEF Index!Next, Index!StoreStep
<1>5. QED
  BY <1>3, <1>4

\* A statement that moves a running store on, and neither touches a point nor
\* marks the chunks.
LEMMA PhaseRefines ==
    ASSUME IndexInv, IndexInv', NEW a \in Attempts, run[a] = "active", run'[a] = run[a],
           \A b \in Attempts \ {a} : pc'[b] = pc[b] /\ run'[b] = run[b],
           pc'[a] # "skipped", pc[a] \in AfterMark <=> pc'[a] \in AfterMark,
           points' = points, overlapped' = overlapped
    PROVE  [Index!Next]_Index!indexVars
<1>1. pc[a] # "skipped"
  BY DEF IndexInv, ProgressInv, SkippedIsOver
<1>2. Progress'[a] = Progress[a]
  BY <1>1, ProgressIs, ProgressWillBe DEF IndexInv, AnyOrderInv
<1>3. QED
  BY <1>2, NothingToSee

\* A request to Qdrant is carried out, for a caller that waits or one gone.
LEMMA CarriedOutRefines ==
    ASSUME IndexInv, IndexInv', NEW a \in Attempts, NEW p, NEW q,
           p \in {"delete", "upsert"}, q \in Phases \ (AfterMark \cup {"skipped"}),
           CarriedOut(a, p, q)
    PROVE  Index!CarriedOut(a)
<1> USE DEF IndexInv, AnyOrderInv, TypeOK
<1>1. /\ run[a] \in {"active", "in_doubt"} /\ pc[a] = p /\ pc'[a] = q
      /\ run'[a] = IF run[a] = "active" THEN "active" ELSE "landed"
      /\ \A b \in Attempts \ {a} : pc'[b] = pc[b] /\ run'[b] = run[b]
      /\ overlapped' = overlapped
  BY DEF CarriedOut, history
<1>2. Progress[a] = IF run[a] = "active" THEN "storing" ELSE "failed"
  BY <1>1, ProgressIs DEF AfterMark
<1>3. Progress'[a] = IF run[a] = "active" THEN "storing" ELSE "landed"
  BY <1>1, ProgressWillBe
<1>4. Progress' = [Progress EXCEPT ![a] = IF run[a] = "active" THEN "storing" ELSE "landed"]
  BY <1>1, <1>3, ProgressOfOthers
<1>5. Progress' = [Progress EXCEPT ![a] = IF @ = "failed" THEN "landed" ELSE @]
  BY <1>2, <1>4
<1>6. QED
  BY <1>1, <1>2, <1>5 DEF Index!CarriedOut

\* A store that runs in order is active on a document kept apart.
LEMMA InOrderIs ==
    ASSUME IndexInv, NEW a \in Attempts, Index!InOrder(a)
    PROVE  Apart(DocOf[a]) /\ run[a] = "active"
<1>1. Progress[a] = "storing" /\ DocOf[a] \notin overlapped
  BY DEF Index!InOrder
<1>2. run[a] = "active"
  BY <1>1, ProgressIs DEF IndexInv, AnyOrderInv, TypeOK, RunStates
<1>3. QED
  BY <1>1, <1>2 DEF Apart

\* The finished stores of the same document.
LEMMA FinishedIs ==
    ASSUME IndexInv, NEW a \in Attempts, NEW b \in Index!FinishedSiblings(a)
    PROVE  b \in Attempts /\ b # a /\ DocOf[b] = DocOf[a] /\ pc[b] \in AfterMark
<1>1. b \in Attempts /\ b # a /\ DocOf[b] = DocOf[a] /\ Progress[b] = "finished"
  BY DEF Index!FinishedSiblings, Index!Siblings
<1>2. QED
  BY <1>1, ProgressIs DEF IndexInv, AnyOrderInv, TypeOK, RunStates

\* The deletion takes versions as a whole, and, of a document kept apart, all that
\* other stores have left.
LEMMA DeleteRefines ==
    ASSUME IndexInv, IndexInv', NEW a \in Attempts, DeletePoints(a)
    PROVE  [Index!Next]_Index!indexVars
<1> DEFINE old == IF Index!InOrder(a) THEN Index!Siblings(a)
                  ELSE {b \in Index!Siblings(a) : Own(b) \subseteq selected[a]}
<1>1. Index!CarriedOut(a)
  BY CarriedOutRefines DEF DeletePoints, Phases, AfterMark
<1>2. ASSUME NEW c \in selected[a] PROVE \E b \in old : c \in Own(b)
  <2>1. c \notin Own(a) /\ c \in DocChunks(DocOf[a])
    BY DEF IndexInv, AnyOrderInv, OrderInv, SelectedOld
  <2>2. PICK b \in Attempts : DocOf[b] = DocOf[a] /\ c \in Own(b)
    BY <2>1, DocChunksMember
  <2>3. Own(b) \subseteq selected[a]
    BY <2>2 DEF IndexInv, ProgressInv, SelectedWhole
  <2>4. QED
    BY <2>1, <2>2, <2>3 DEF Index!Siblings
<1>3. ASSUME NEW b \in old, NEW c \in Own(b), c \in points PROVE c \in selected[a]
  <2>1. b \in Attempts /\ DocOf[b] = DocOf[a]
    BY DEF Index!Siblings
  <2>2. CASE ~Index!InOrder(a)
    BY <1>3, <2>2
  <2>3. CASE Index!InOrder(a)
    <3>1. Apart(DocOf[a]) /\ run[a] = "active" /\ pc[a] = "delete"
      BY <2>3, InOrderIs DEF DeletePoints, CarriedOut
    <3>2. row[c] # "absent"
      BY <1>3 DEF IndexInv, AnyOrderInv, OrderInv, PointHasRow
    <3>3. QED
      BY <1>3, <2>1, <3>1, <3>2 DEF IndexInv, ApartInv, SelectedAll, Sibling
  <2>4. QED
    BY <2>2, <2>3
<1>4. points' = points \ Index!ChunksOfAll(old)
  <2>1. old \subseteq Attempts
    BY DEF Index!Siblings
  <2>2. \A c : c \in Index!ChunksOfAll(old) <=> \E b \in old : c \in Own(b)
    BY <2>1 DEF Index!ChunksOfAll
  <2>3. points' = points \ selected[a]
    BY DEF DeletePoints
  <2> HIDE DEF old
  <2>4. QED
    BY <1>2, <1>3, <2>2, <2>3
<1>5. old \in SUBSET Index!Siblings(a) /\ (Index!InOrder(a) => old = Index!Siblings(a))
  OBVIOUS
<1> HIDE DEF old
<1>6. Index!Remove(a, old)
  BY <1>1, <1>4, <1>5 DEF Index!Remove
<1>7. QED
  BY <1>5, <1>6 DEF Index!Next, Index!StoreStep

\* A batch holds chunks of the store alone; of a document kept apart, nothing
\* finished is searchable when a running store sends it.
LEMMA UpsertRefines ==
    ASSUME IndexInv, IndexInv', NEW a \in Attempts, UpsertBatch(a)
    PROVE  [Index!Next]_Index!indexVars
<1> DEFINE sent == {ChunkList[a][i] : i \in (upserted[a] + 1)..BatchEnd(a)}
<1> DEFINE batch == sent \ points
<1>1. Index!CarriedOut(a)
  <2>1. AfterBatch(a) \in Phases \ (AfterMark \cup {"skipped"})
    BY DEF AfterBatch, Phases, AfterMark
  <2>2. QED
    BY <2>1, CarriedOutRefines DEF UpsertBatch
<1>2. sent \subseteq Own(a)
  <2>1. BatchEnd(a) \in Nat /\ BatchEnd(a) <= Len(ChunkList[a])
    BY ConstantTypes DEF BatchEnd, IndexInv, AnyOrderInv, TypeOK
  <2>2. upserted[a] \in Nat
    BY DEF IndexInv, AnyOrderInv, TypeOK
  <2>3. \A i \in (upserted[a] + 1)..BatchEnd(a) : ChunkList[a][i] \in Own(a)
    BY <2>1, <2>2, ConstantTypes DEF Own
  <2>4. QED
    BY <2>3
<1>3. points' = points \cup sent
  BY DEF UpsertBatch
<1>4. ASSUME Index!InOrder(a), NEW b \in Index!FinishedSiblings(a), NEW c \in Own(b), c \in points
      PROVE  FALSE
  <2>1. Apart(DocOf[a]) /\ run[a] = "active" /\ pc[a] = "upsert"
    BY <1>4, InOrderIs DEF UpsertBatch, CarriedOut
  <2>2. b \in Attempts /\ b # a /\ DocOf[b] = DocOf[a] /\ pc[b] \in AfterMark
    BY <1>4, FinishedIs
  <2>3. row[c] # "indexed"
    BY <1>4, <2>1, <2>2 DEF IndexInv, ApartInv, NoneIndexed, Sibling
  <2>4. row[c] = "stale"
    BY <1>4, <2>2, <2>3 DEF IndexInv, ProgressInv, MarkedOrStale
  <2>5. run[b] = "landed"
    BY <1>4, <2>1, <2>2, <2>4 DEF IndexInv, ApartInv, StaleNotSearchable
  <2>6. QED
    BY <2>2, <2>5 DEF IndexInv, ProgressInv, LateUnmarked
<1>5. Index!InOrder(a) => points \cap Index!ChunksOfAll(Index!FinishedSiblings(a)) = {}
  <2>1. Index!FinishedSiblings(a) \subseteq Attempts
    BY DEF Index!FinishedSiblings, Index!Siblings
  <2>2. \A c : c \in Index!ChunksOfAll(Index!FinishedSiblings(a)) =>
            \E b \in Index!FinishedSiblings(a) : c \in Own(b)
    BY <2>1 DEF Index!ChunksOfAll
  <2>3. QED
    BY <1>4, <2>2
<1>6. batch \in SUBSET (Own(a) \ points) /\ points' = points \cup batch
  BY <1>2, <1>3
<1> HIDE DEF batch, sent
<1>7. Index!Add(a, batch)
  BY <1>1, <1>5, <1>6 DEF Index!Add
<1>8. QED
  BY <1>6, <1>7 DEF Index!Next, Index!StoreStep

\* The UPDATE that marks the chunks finishes the version: all of it is searchable.
LEMMA MarkRefines ==
    ASSUME IndexInv, IndexInv', NEW a \in Attempts, MarkChunks(a)
    PROVE  [Index!Next]_Index!indexVars
<1>1. /\ pc[a] = "mark_chunks" /\ pc'[a] = "mark_document" /\ run[a] = "active"
      /\ run' = run /\ points' = points /\ overlapped' = overlapped /\ latest' = latest
      /\ \A b \in Attempts \ {a} : pc'[b] = pc[b]
  BY DEF MarkChunks, At, Goto, history, IndexInv, AnyOrderInv, TypeOK
<1>2. Progress[a] = "storing" /\ Progress'[a] = "finished"
  BY <1>1, ProgressIs, ProgressWillBe DEF IndexInv, AnyOrderInv, AfterMark
<1>3. Progress' = [Progress EXCEPT ![a] = "finished"]
  BY <1>1, <1>2, ProgressOfOthers
<1>4. Index!InOrder(a) => Own(a) \subseteq points
  <2> SUFFICES ASSUME Index!InOrder(a) PROVE Own(a) \subseteq points
    OBVIOUS
  <2>1. Apart(DocOf[a])
    BY InOrderIs
  <2>2. latest'[DocOf[a]] = a /\ Apart(DocOf[a])'
    BY <1>1, <2>1 DEF IndexInv, ApartInv, ActiveIsLatest, Apart
  <2>3. \A c \in Own(a) : c \in points'
    BY <1>1, <2>2 DEF IndexInv, ApartInv, LatestComplete, AfterMark, Own
  <2>4. QED
    BY <1>1, <2>3
<1>5. Index!Finish(a)
  BY <1>1, <1>2, <1>3, <1>4 DEF Index!Finish
<1>6. QED
  BY <1>5 DEF Index!Next, Index!StoreStep

-----------------------------------------------------------------------------

LEMMA InitRefines == Init => Index!Init
  BY DEF Init, Index!Init, Progress, Running

LEMMA StepRefines ==
    IndexInv /\ IndexInv' /\ [Next]_vars => [Index!Next]_Index!indexVars
<1> SUFFICES ASSUME IndexInv, IndexInv', [Next]_vars PROVE [Index!Next]_Index!indexVars
  OBVIOUS
<1> DEFINE Goal == [Index!Next]_Index!indexVars
<1> SUFFICES Goal
  OBVIOUS
<1> HIDE DEF Goal
<1>1. ASSUME NEW d \in Docs, Register(d) PROVE Goal
  <2>1. pc' = pc /\ run' = run /\ overlapped' = overlapped /\ points' = points
    BY <1>1 DEF Register, history
  <2>2. QED
    BY <2>1 DEF Progress, Index!indexVars, Goal
<1>2. ASSUME NEW a \in Attempts, Begin(a) PROVE Goal
  BY <1>2, BeginRefines DEF Goal
<1>3. ASSUME NEW a \in Attempts, Fail(a) PROVE Goal
  BY <1>3, FailRefines DEF Goal
<1>4. ASSUME NEW a \in Attempts,
             \/ CountIndexed(a) \/ SelectOldIds(a) \/ RetireRows(a) \/ WriteRows(a)
             \/ MarkDocument(a)
      PROVE  Goal
  <2>1. /\ run[a] = "active" /\ run'[a] = run[a] /\ points' = points /\ overlapped' = overlapped
        /\ \A b \in Attempts \ {a} : pc'[b] = pc[b] /\ run'[b] = run[b]
        /\ pc'[a] # "skipped" /\ (pc[a] \in AfterMark <=> pc'[a] \in AfterMark)
    BY <1>4 DEF CountIndexed, SelectOldIds, RetireRows, WriteRows, MarkDocument, At, Goto,
       history, stores, AfterMark, IndexInv, AnyOrderInv, TypeOK
  <2>2. QED
    BY <2>1, PhaseRefines DEF Goal
<1>5. ASSUME NEW a \in Attempts, AutoTag(a) PROVE Goal
  <2>1. /\ pc[a] \in AfterMark /\ pc'[a] \in AfterMark
        /\ points' = points /\ overlapped' = overlapped
        /\ \A b \in Attempts \ {a} : pc'[b] = pc[b] /\ run'[b] = run[b]
    BY <1>5 DEF AutoTag, At, history, AfterMark, IndexInv, AnyOrderInv, TypeOK
  <2>2. Progress'[a] = Progress[a]
    BY <2>1, ProgressIs, ProgressWillBe DEF IndexInv, AnyOrderInv
  <2>3. QED
    BY <2>1, <2>2, NothingToSee DEF Goal
<1>6. ASSUME NEW a \in Attempts, DeletePoints(a) \/ UpsertBatch(a) \/ MarkChunks(a) PROVE Goal
  BY <1>6, DeleteRefines, UpsertRefines, MarkRefines DEF Goal
<1>7. CASE UNCHANGED vars
  <2>1. pc' = pc /\ run' = run /\ overlapped' = overlapped /\ points' = points
    BY <1>7 DEF vars
  <2>2. QED
    BY <2>1 DEF Progress, Index!indexVars, Goal
<1>8. QED
  BY <1>1, <1>2, <1>3, <1>4, <1>5, <1>6, <1>7 DEF Next, Step

\* store() and its failures, in any order, keep what the query side relies on: of
\* a document whose stores did not overlap a search finds the chunks of one
\* finished version at most, whole until they are deleted at once, and what failed
\* stores have left beside it.
THEOREM StorageImplementsIndex == Spec => SearchableAsPromised
  BY InitRefines, StepRefines, IndexInvAlways, PTL DEF Spec, SearchableAsPromised, Index!Spec
=============================================================================
