---------------------------- MODULE MCLogAndIndex -----------------------------
(* What transactions leave outside the table, for TLC: their records in the  *)
(* log and their entries in an index, in small instances.  The two run one   *)
(* at a time: part says which one, and the other stays where it began.       *)
EXTENDS WriteAheadLog, Indexes, TLC

VARIABLE part

liVars == <<part, walVars, indexVars>>

LIInit ==
    /\ part \in {"log", "index"}
    /\ WALInit /\ IxInit /\ (do_persist => part = "log")

LINext ==
    \/ part = "log" /\ WALNext /\ UNCHANGED <<part, indexVars>>
    \/ part = "index" /\ IxNext /\ UNCHANGED <<part, walVars>>

\* The transactions of the index part differ in nothing but their names.
LISymmetry == Permutations(IxTxns)

LISpec == LIInit /\ [][LINext]_liVars
=============================================================================
