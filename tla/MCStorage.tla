------------------------------ MODULE MCStorage -------------------------------
(* Small instances of the components of the storage engine for TLC.  They    *)
(* run one at a time: part says which one, and the others stay where they    *)
(* began.                                                                    *)
EXTENDS BlockInsert, DeferredActions, Recovery, BlockCompaction, TLC

VARIABLE part

stVars == <<part, biVars, daVars, recVars, bcVars>>

STInit ==
    /\ part \in {"insert", "deferred", "recovery", "compaction"}
    /\ BIInit /\ DAInit /\ RecInit /\ BCInit

STNext ==
    \/ part = "insert" /\ BINext /\ UNCHANGED <<part, daVars, recVars, bcVars>>
    \/ part = "deferred" /\ DANext /\ UNCHANGED <<part, biVars, recVars, bcVars>>
    \/ part = "recovery" /\ RecNext /\ UNCHANGED <<part, biVars, deferVars, bcVars>>
    \/ part = "compaction" /\ BCNext /\ UNCHANGED <<part, biVars, daVars, recVars>>

\* Threads that call the same operations differ in nothing but their names.
STSymmetry == Permutations(Inserters \cup Updaters)

STSpec == STInit /\ [][STNext]_stVars
=============================================================================
