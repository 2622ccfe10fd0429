----------------------------- MODULE MCProgress ------------------------------
(* What must eventually happen, with fair scheduling of the threads, in      *)
(* small instances of the components.  They run one at a time, as in         *)
(* MCStorage.                                                                *)
EXTENDS MCGarbageCollector, BlockInsert, DeferredActions, WriteAheadLog

VARIABLE part

prVars == <<part, allVars, biVars, deferVars, walVars>>

PRInit ==
    /\ part \in {"txn", "insert", "deferred", "log"}
    /\ GCInit /\ BIInit /\ DAInit /\ WALInit /\ (do_persist => part = "log")

PRNext ==
    \/ part = "txn" /\ GCNext /\ UNCHANGED <<part, biVars, deferVars, walVars>>
    \/ part = "insert" /\ BINext /\ UNCHANGED <<part, allVars, deferVars, walVars>>
    \/ part = "deferred" /\ DANext /\ UNCHANGED <<part, tableVars, mgrVars, gcVars, biVars, walVars>>
    \/ part = "log" /\ WALNext /\ UNCHANGED <<part, allVars, biVars, deferVars>>

\* Threads run: a call that was made goes on.  Nobody has to call anything, except that
\* the collector and the tasks of the log loop for ever, that clients end the transactions
\* they began, and that a commit finalizes its log buffer.  The persist interval of the
\* consumer elapses again and again.
PRFairness ==
    /\ WF_allVars(part = "txn" /\ GCStep)
    /\ \A t \in Txns : WF_allVars(part = "txn" /\ InCall(t) /\ TxnStep(t) /\ UNCHANGED gcVars)
    /\ WF_biVars(part = "insert" /\ ScanStep)
    /\ \A t \in Inserters : WF_biVars(part = "insert" /\ InsertStep(t))
    /\ WF_daVars(part = "deferred" /\ RoundStep)
    /\ \A t \in Clients : WF_daVars(part = "deferred" /\ (ClientBegin(t) \/ ClientStep(t)))
    /\ \A t \in Loggers : WF_walVars(part = "log" /\ Finalize(t))
    /\ \A p \in Processors : WF_walVars(part = "log" /\ ProcessStep(p))
    /\ WF_walVars(part = "log" /\ ProcessBegin(Serializer))
    /\ WF_walVars(part = "log" /\ ConsumerStep) /\ SF_walVars(part = "log" /\ DecidePersist)

PRSpec == PRInit /\ [][PRNext]_prVars /\ PRFairness

\* Every call on the storage engine returns: those of transactions, inserts, and the rounds
\* of the collector.
EngineCallsReturn == CallsReturn /\ InsertsReturn /\ RoundsEnd

\* Who waits for the log is woken: a committed transaction, and a caller of ForceFlush.
LogWaitsEnd == CommitsAcknowledged /\ ForceFlushReturns
=============================================================================
