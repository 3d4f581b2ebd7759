-------------------------- MODULE MCStorageWriter --------------------------
(* A small instance of StorageWriter for TLC: three stores of one document,  *)
(* the first of two upsert batches, and a store of another document that is  *)
(* given no chunks.                                                          *)
EXTENDS StorageWriter

CONSTANTS d1, d2, a1, a2, a3, a4, c1, c2, c3, c4

MCDocOf == [a \in Attempts |-> IF a = a4 THEN d2 ELSE d1]
MCChunkList == [a \in Attempts |-> CASE a = a1 -> <<c1, c2>>
                                     [] a = a2 -> <<c3>>
                                     [] a = a3 -> <<c4>>
                                     [] a = a4 -> <<>>]
=============================================================================
