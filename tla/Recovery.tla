------------------------------- MODULE Recovery -------------------------------
(***************************************************************************)
(* storage::RecoveryManager, with the transactions whose log it replays:   *)
(* they run under snapshot isolation, the log keeps what DurableLog        *)
(* promises, the system crashes, and the log that survives is replayed     *)
(* into empty tables.  A crash cuts the log between two records.           *)
(***************************************************************************)
EXTENDS TimestampManager, Sequences

LOCAL INSTANCE SequencesExt

CONSTANTS
    Updaters,    \* transactions that write
    Tuples,      \* slots of the table
    MaxRedo      \* bound: writes of a transaction

ASSUME RecoveryAssumption == MaxRedo \in Nat \ {0}

NoWriter == "none"

VARIABLES
    updater,        \* each transaction: control, start and commit time, redo buffer, whether it
                    \* has flushed, number of writes
    tuple,          \* each slot: its committed version, and the one written in place
    redo_queue,     \* records handed to the log manager
    redo_log,       \* records in the log file
    durable_log,    \* how many of them fsync has covered
    persisted,      \* the transactions whose commit callback was called
    recovery        \* the recovery manager: control, position in the log, buffered_changes_map_,
                    \* deferred_txns_, tuple_slot_map_, the new table, the order of replay,
                    \* and whether a tuple was not found

logFileVars == <<redo_queue, redo_log, durable_log, persisted>>
recVars == <<updater, tuple, logFileVars, recovery>>

NoUpdater == [pc |-> "idle", start |-> 0, commit |-> 0, redo |-> <<>>, flushed |-> FALSE, writes |-> 0]
Absent == [present |-> FALSE, val |-> NoWriter, commit |-> 0]
NoTupleYet == [committed |-> Absent, writer |-> NoWriter, present |-> FALSE, val |-> NoWriter]

RecInit ==
    /\ TMInit
    /\ updater = [t \in Updaters |-> NoUpdater]
    /\ tuple = [s \in Tuples |-> NoTupleYet]
    /\ redo_queue = <<>> /\ redo_log = <<>> /\ durable_log = 0
    /\ persisted = {}
    /\ recovery = [pc |-> "idle", at |-> 0, buffered |-> <<>>, deferred |-> {}, map |-> <<>>, table |-> <<>>,
                   replayed |-> <<>>, lost |-> FALSE]

-----------------------------------------------------------------------------
(* Transactions until the crash.                                           *)

Up == recovery.pc = "idle"

BeginUpdater(t) ==
    /\ Up /\ updater[t].pc = "idle"
    /\ BeginTimestamp
    /\ updater' = [updater EXCEPT ![t].pc = "running", ![t].start = time]
    /\ UNCHANGED <<cached_oldest_txn_start_time, tuple, logFileVars, recovery>>

\* A slot is allocated again when its deletion is old enough for the collector.
FreeTuple(s) ==
    /\ tuple[s].writer = NoWriter /\ ~tuple[s].committed.present
    /\ tuple[s].committed.commit < OldestRunning

\* Update and Delete fail on a tuple that another transaction has written since.
Writable(t, s) ==
    IF tuple[s].writer = NoWriter
    THEN tuple[s].committed.present /\ tuple[s].committed.commit < updater[t].start
    ELSE tuple[s].writer = t /\ tuple[s].present

\* The write in place and its redo record; insert is not part of a record in the log.
WriteTuple(t, s) ==
    /\ Up /\ updater[t].pc = "running" /\ updater[t].writes < MaxRedo
    /\ FreeTuple(s) \/ Writable(t, s)
    /\ \E kind \in IF Writable(t, s) THEN {"redo", "delete"} ELSE {"redo"} :
          LET val == <<t, updater[t].writes>>
          IN /\ tuple' = [tuple EXCEPT ![s] = [@ EXCEPT !.writer = t, !.present = kind = "redo", !.val = val]]
             /\ updater' = [updater EXCEPT ![t].writes = @ + 1,
                   ![t].redo = Append(@, [txn |-> updater[t].start, kind |-> kind, slot |-> s, val |-> val,
                                          insert |-> ~Writable(t, s)])]
    /\ UNCHANGED <<tmVars, logFileVars, recovery>>

\* A full segment is handed over.
FlushSegment(t) ==
    /\ Up /\ updater[t].pc = "running" /\ updater[t].redo # <<>>
    /\ redo_queue' = redo_queue \o updater[t].redo
    /\ updater' = [updater EXCEPT ![t].redo = <<>>, ![t].flushed = TRUE]
    /\ UNCHANGED <<tmVars, tuple, redo_log, durable_log, persisted, recovery>>

\* UpdatingCommitCriticalSection: from here on the writes are visible.
CommitUpdater(t) ==
    /\ Up /\ updater[t].pc = "running" /\ updater[t].writes > 0
    /\ CheckOutTimestamp
    /\ updater' = [updater EXCEPT ![t].pc = "committed", ![t].commit = time]
    /\ tuple' = [s \in Tuples |->
          IF tuple[s].writer # t THEN tuple[s]
          ELSE [NoTupleYet EXCEPT !.committed = [present |-> tuple[s].present, val |-> tuple[s].val, commit |-> time]]]
    /\ UNCHANGED <<curr_running_txns, cached_oldest_txn_start_time, logFileVars, recovery>>

\* LogCommit: the commit record carries the cached oldest transaction.
LogCommitRecord(t) ==
    /\ Up /\ updater[t].pc = "committed"
    /\ updater' = [updater EXCEPT ![t].pc = "logged",
          ![t].redo = Append(@, [txn |-> updater[t].start, kind |-> "commit", oldest |-> cached_oldest_txn_start_time])]
    /\ UNCHANGED <<tmVars, tuple, logFileVars, recovery>>

FinalizeRedo(t) ==
    /\ Up /\ updater[t].pc = "logged"
    /\ redo_queue' = redo_queue \o updater[t].redo
    /\ updater' = [updater EXCEPT ![t].pc = "over", ![t].redo = <<>>]
    /\ UNCHANGED <<tmVars, tuple, redo_log, durable_log, persisted, recovery>>

\* Abort, with the rollback of the tuples; LogAbort only writes a record if the log has
\* some of this transaction.
AbortUpdater(t) ==
    /\ Up /\ updater[t].pc = "running" /\ updater[t].writes > 0
    /\ CheckOutTimestamp
    /\ tuple' = [s \in Tuples |-> IF tuple[s].writer = t THEN [NoTupleYet EXCEPT !.committed = tuple[s].committed] ELSE tuple[s]]
    /\ IF updater[t].flushed
       THEN /\ updater' = [updater EXCEPT ![t].pc = "logged",
                                          ![t].redo = <<[txn |-> updater[t].start, kind |-> "abort"]>>]
            /\ UNCHANGED curr_running_txns
       ELSE /\ updater' = [updater EXCEPT ![t].pc = "over", ![t].redo = <<>>]
            /\ RemoveTransaction(updater[t].start)
    /\ UNCHANGED <<cached_oldest_txn_start_time, logFileVars, recovery>>

\* The collector refreshes the cached value at the beginning of a round.
RefreshOldest ==
    /\ Up /\ OldestTransactionStartTime /\ cached_oldest_txn_start_time # OldestRunning
    /\ UNCHANGED <<time, curr_running_txns, recVars>>

-----------------------------------------------------------------------------
(* The log, as DurableLog has it.                                          *)

\* Process: what was queued is serialized, and the transactions that ended leave the
\* running ones.
SerializeRecords ==
    /\ Up /\ redo_queue # <<>>
    /\ redo_log' = redo_log \o redo_queue
    /\ redo_queue' = <<>>
    /\ RemoveTransactions({r.txn : r \in {x \in Range(redo_queue) : x.kind \in {"commit", "abort"}}})
    /\ UNCHANGED <<time, cached_oldest_txn_start_time, updater, tuple, durable_log, persisted, recovery>>

PersistRecords ==
    /\ Up /\ durable_log < Len(redo_log)
    /\ durable_log' = Len(redo_log)
    /\ persisted' = {r.txn : r \in {x \in Range(redo_log) : x.kind = "commit"}}
    /\ UNCHANGED <<tmVars, updater, tuple, redo_queue, redo_log, recovery>>

\* What was written after the last fsync may survive or not; what was in memory is gone.
\* updater and tuple keep what the properties compare with.
Crash ==
    /\ Up
    /\ \E n \in durable_log .. Len(redo_log) : redo_log' = SubSeq(redo_log, 1, n)
    /\ redo_queue' = <<>>
    /\ durable_log' = 0
    /\ updater' = [t \in Updaters |-> [NoUpdater EXCEPT !.start = updater[t].start, !.commit = updater[t].commit]]
    /\ tuple' = [s \in Tuples |-> [NoTupleYet EXCEPT !.committed = tuple[s].committed]]
    /\ recovery' = [recovery EXCEPT !.pc = "replay"]
    /\ time' = 1 /\ curr_running_txns' = {} /\ cached_oldest_txn_start_time' = 0
    /\ UNCHANGED persisted

-----------------------------------------------------------------------------
(* RecoverFromLogs, one log record at a time.                              *)

Buffered(r, txn) == IF txn \in DOMAIN r.buffered THEN r.buffered[txn] ELSE <<>>

Without(f, x) == [y \in DOMAIN f \ {x} |-> f[y]]

IsInsertRecord(r, record) == record.slot \notin DOMAIN r.map

\* A redo record of an unknown slot is an insert: it gets a new slot.
ReplayRedoRecord(r, record) ==
    IF IsInsertRecord(r, record)
    THEN [r EXCEPT !.table = Append(@, record.val), !.lost = @ \/ ~record.insert,
                   !.map = [s \in DOMAIN @ \cup {record.slot} |-> IF s = record.slot THEN Len(r.table) + 1 ELSE @[s]]]
    ELSE [r EXCEPT !.table[r.map[record.slot]] = record.val, !.lost = @ \/ record.insert]

\* GetTupleSlotMapping asserts that the slot is known.
ReplayDeleteRecord(r, record) ==
    IF record.slot \notin DOMAIN r.map THEN [r EXCEPT !.lost = TRUE]
    ELSE [r EXCEPT !.table[r.map[record.slot]] = NoWriter, !.map = Without(@, record.slot)]

ReplayRecord(r, record) == IF record.kind = "redo" THEN ReplayRedoRecord(r, record) ELSE ReplayDeleteRecord(r, record)

ProcessCommittedTransaction(r, txn) ==
    LET done == FoldLeft(ReplayRecord, r, Buffered(r, txn))
    IN [done EXCEPT !.buffered = Without(@, txn), !.replayed = Append(@, txn)]

\* A faulty variant: every transaction is replayed when its commit record is read.
ProcessDeferredAll(r, upper_bound) ==
    LET bound == SetToSortSeq(r.deferred, <)
    IN [FoldLeft(ProcessCommittedTransaction, r, bound) EXCEPT !.deferred = {}]

\* In the order of the start times, up to and including the bound.
ProcessDeferredTransactions(r, upper_bound) ==
    LET safe == {txn \in r.deferred : txn <= upper_bound}
    IN [FoldLeft(ProcessCommittedTransaction, r, SetToSortSeq(safe, <)) EXCEPT !.deferred = @ \ safe]

RecoverRecord ==
    /\ recovery.pc = "replay" /\ recovery.at < Len(redo_log)
    /\ LET record == redo_log[recovery.at + 1]
           r == [recovery EXCEPT !.at = @ + 1]
       IN recovery' =
          CASE record.kind = "abort" -> [r EXCEPT !.buffered = Without(@, record.txn)]
            [] record.kind = "commit" ->
                  ProcessDeferredTransactions([r EXCEPT !.deferred = @ \cup {record.txn}], record.oldest)
            [] OTHER ->
                  [r EXCEPT !.buffered = [x \in DOMAIN @ \cup {record.txn} |->
                       IF x = record.txn THEN Append(Buffered(r, x), record) ELSE @[x]]]
    /\ UNCHANGED <<tmVars, updater, tuple, logFileVars>>

\* The end of the log: the rest of the deferred transactions; changes that are still
\* buffered are dropped.
RecoverEnd ==
    /\ recovery.pc = "replay" /\ recovery.at = Len(redo_log)
    /\ recovery' = [ProcessDeferredTransactions(recovery, Max(recovery.deferred \cup {0})) EXCEPT !.pc = "done", !.buffered = <<>>]
    /\ UNCHANGED <<tmVars, updater, tuple, logFileVars>>

Recovered == recovery.pc = "done" /\ UNCHANGED <<tmVars, recVars>>

-----------------------------------------------------------------------------
UpdaterStep(t) ==
    \/ BeginUpdater(t) \/ \E s \in Tuples : WriteTuple(t, s)
    \/ FlushSegment(t) \/ CommitUpdater(t) \/ LogCommitRecord(t) \/ FinalizeRedo(t) \/ AbortUpdater(t)

RecNext ==
    \/ \E t \in Updaters : UpdaterStep(t)
    \/ RefreshOldest \/ SerializeRecords \/ PersistRecords \/ Crash
    \/ RecoverRecord \/ RecoverEnd \/ Recovered

RecSpec == RecInit /\ [][RecNext]_<<tmVars, recVars>>

-----------------------------------------------------------------------------
(* Properties.                                                             *)

\* "execute transactions in complete serial order" (recovery_manager.h:140): transactions are
\* replayed in the order of their start times, although their commit records are in the
\* order in which threads reached the log, and carry stale watermarks.
ReplayInStartOrder ==
    \A i, j \in DOMAIN recovery.replayed : i < j => recovery.replayed[i] < recovery.replayed[j]

\* A transaction whose commit callback was called survives, and nothing of a transaction
\* that did not commit comes back.
RecoversAcknowledged ==
    recovery.pc = "done" =>
        /\ persisted \subseteq Range(recovery.replayed)
        /\ \A i \in DOMAIN recovery.replayed : \E t \in Updaters :
              updater[t].start = recovery.replayed[i] /\ updater[t].commit > 0

\* When all commits are in the log that survived, the recovered table is the one
\* before the crash, slot by slot.
RecoversState ==
    recovery.pc = "done" /\ (\A t \in Updaters : updater[t].commit > 0 => updater[t].start \in Range(recovery.replayed)) =>
        \A s \in Tuples :
            IF tuple[s].committed.present
            THEN s \in DOMAIN recovery.map /\ recovery.table[recovery.map[s]] = tuple[s].committed.val
            ELSE s \notin DOMAIN recovery.map

\* "An update will contain a tuple slot that has been previously inserted"
\* (recovery_manager.h:278): whatever prefix of the log survives, every update and delete
\* that is replayed finds the tuple its transaction saw.
ReplayFindsTuples == ~recovery.lost

\* What recovery promises: the transactions whose commits were acknowledged, replayed in the
\* order of their start times, and with them the table as it was.
RecoversCommitted == ReplayInStartOrder /\ RecoversAcknowledged /\ RecoversState
=============================================================================
