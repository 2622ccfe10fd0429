------------------------- MODULE MCGarbageCollector --------------------------
(* Small instances of GarbageCollector for TLC: some transactions only call         *)
(* ReaderOps, the others only WriterOps.                                     *)
EXTENDS GarbageCollector, TLC

CONSTANTS Readers, ReaderOps, WriterOps

MCOps == [t \in Txns |-> IF t \in Readers THEN ReaderOps ELSE WriterOps]

\* Transactions that call the same operations differ in nothing but their names.
TxnSymmetry == Permutations(Readers) \cup Permutations(Txns \ Readers)
=============================================================================
