---------------------------- MODULE WriteAheadLog -----------------------------
(***************************************************************************)
(* storage::LogManager: transactions push segments of redo records to the  *)
(* flush queue; LogSerializerTask, or a caller of ForceFlush, writes them  *)
(* into log buffers; DiskLogConsumerTask writes the buffers to the file,   *)
(* calls fsync and then the commit callbacks.                              *)
(*                                                                         *)
(* A record is written in Pieces values, so that it may begin in one       *)
(* buffer and end in the next.  The consumer's waits time out, so it can   *)
(* always wake up, and notifications need no model.                        *)
(***************************************************************************)
EXTENDS Naturals, Sequences, FiniteSets

LOCAL INSTANCE SequencesExt

CONSTANTS
    Loggers,     \* transactions
    ReadOnly,    \* those that write nothing
    Large,       \* those that may write two redo records, the others write one
    SegmentSize, \* records that fit into a segment
    Pieces,      \* values per record
    BufferSize,  \* values that fit into a log buffer
    NumBuffers,  \* log buffers
    Flushers     \* threads that call ForceFlush, once each

ASSUME WALAssumption ==
    /\ ReadOnly \subseteq Loggers /\ Large \subseteq Loggers
    /\ {SegmentSize, Pieces, BufferSize, NumBuffers} \subseteq Nat \ {0}

\* Bound: redo records of a transaction.
MaxWrites(t) == IF t \in ReadOnly THEN 0 ELSE IF t \in Large THEN 2 ELSE 1

Serializer == "serializer"
Processors == Flushers \cup {Serializer}
NoBuffer == [null |-> TRUE, data |-> <<>>]
EmptyBuffer == [null |-> FALSE, data |-> <<>>]

VARIABLES
    logger,        \* each transaction: control, redo buffer, redo records written, has_flushed_
    logging,       \* the transactions that the timestamp manager counts as running
    flush_queue,   \* flush_queue_: segments, which are sequences of records
    ser,           \* under serialization_latch_: its holder, the temporary queue, the position in its
                   \* first record, filled_buffer_, commits_in_buffer_, serialized_txns_, buffers_processed
    processor,     \* control of the threads that call Process
    empty_buffers, \* how many buffers the queue of empty buffers holds
    filled_buffer_queue,
    disk,          \* the log file, how much of it fsync has covered
    consumer,      \* the consumer: control, commit_callbacks_
    do_persist,    \* do_persist_
    running_tasks, \* the tasks whose run_task_ is set; whether the serializer is in its loop
    acknowledged,  \* the transactions whose commit callback was called
    due            \* history: what each ForceFlush must persist

walVars == <<logger, logging, flush_queue, ser, processor, empty_buffers, filled_buffer_queue,
             disk, consumer, do_persist, running_tasks, acknowledged, due>>
processVars == <<ser, processor, empty_buffers, filled_buffer_queue, running_tasks, due>>
consumerVars == <<disk, consumer, do_persist, acknowledged>>

\* do_persist_ is not initialised.
WALInit ==
    /\ logger = [t \in Loggers |-> [pc |-> "writing", redo |-> <<>>, writes |-> 0, flushed |-> FALSE]]
    /\ logging = Loggers
    /\ flush_queue = <<>>
    /\ ser = [latch |-> "", temp |-> <<>>, at |-> 1, buffer |-> NoBuffer, commits |-> {}, txns |-> {}, processed |-> FALSE]
    /\ processor = [p \in Processors |-> "idle"]
    /\ empty_buffers = NumBuffers
    /\ filled_buffer_queue = <<>>
    /\ disk = [file |-> <<>>, synced |-> 0]
    /\ consumer = [pc |-> "wait", callbacks |-> {}]
    /\ do_persist \in BOOLEAN
    /\ running_tasks = {"serializer", "looping", "consumer"}
    /\ acknowledged = {}
    /\ due = [p \in Flushers |-> {}]

-----------------------------------------------------------------------------
(* Transactions.                                                           *)

\* RedoBuffer::NewEntry: a full segment is handed to the log manager.
NewEntry(t, record, label) ==
    LET full == Len(logger[t].redo) = SegmentSize
    IN /\ logger' = [logger EXCEPT ![t].pc = label,
                        ![t].redo = IF full THEN <<record>> ELSE Append(@, record),
                        ![t].writes = IF label = "writing" THEN @ + 1 ELSE @,
                        ![t].flushed = @ \/ full]
       /\ flush_queue' = IF full THEN Append(flush_queue, logger[t].redo) ELSE flush_queue
       /\ UNCHANGED <<logging, processVars, consumerVars>>

StageWrite(t) ==
    /\ logger[t].pc = "writing" /\ logger[t].writes < MaxWrites(t)
    /\ NewEntry(t, [txn |-> t, kind |-> "redo", nth |-> logger[t].writes + 1], "writing")

LogCommit(t) ==
    /\ logger[t].pc = "writing" /\ (t \in ReadOnly <=> logger[t].writes = 0)
    /\ NewEntry(t, [txn |-> t, kind |-> "commit", nth |-> 0], "finalize")

\* An abort is logged if the transaction has flushed records; the records in the
\* buffer are discarded.
LogAbort(t) ==
    /\ logger[t].pc = "writing" /\ logger[t].flushed
    /\ logger' = [logger EXCEPT ![t].pc = "finalize", ![t].redo = <<[txn |-> t, kind |-> "abort", nth |-> 0]>>]
    /\ UNCHANGED <<logging, flush_queue, processVars, consumerVars>>

AbortUnlogged(t) ==
    /\ logger[t].pc = "writing" /\ ~logger[t].flushed
    /\ logger' = [logger EXCEPT ![t].pc = "over", ![t].redo = <<>>]
    /\ logging' = logging \ {t}
    /\ UNCHANGED <<flush_queue, processVars, consumerVars>>

\* RedoBuffer::Finalize.
Finalize(t) ==
    /\ logger[t].pc = "finalize"
    /\ flush_queue' = Append(flush_queue, logger[t].redo)
    /\ logger' = [logger EXCEPT ![t].pc = "over", ![t].redo = <<>>, ![t].flushed = TRUE]
    /\ UNCHANGED <<logging, processVars, consumerVars>>

-----------------------------------------------------------------------------
(* LogSerializerTask::Process, called by the serializer and by ForceFlush. *)

ProcessorAt(p, label) == processor' = [processor EXCEPT ![p] = label]

\* The records that were handed over before the call.
HandedOver == {t \in Loggers : logger[t].pc = "over" /\ logger[t].flushed}

ProcessBegin(p) ==
    /\ processor[p] = "idle" /\ ser.latch = ""
    /\ p \in Flushers => "serializer" \in running_tasks
    /\ ser' = [ser EXCEPT !.latch = p, !.processed = FALSE]
    /\ ProcessorAt(p, "grab")
    /\ due' = IF p \in Flushers THEN [due EXCEPT ![p] = HandedOver] ELSE due
    /\ UNCHANGED <<logger, logging, flush_queue, empty_buffers, filled_buffer_queue, running_tasks, consumerVars>>

GrabBuffers(p) ==
    /\ processor[p] = "grab"
    /\ IF flush_queue = <<>>
       THEN ProcessorAt(p, "hand") /\ UNCHANGED <<ser, flush_queue>>
       ELSE /\ ser' = [ser EXCEPT !.temp = flush_queue, !.processed = TRUE]
            /\ flush_queue' = <<>>
            /\ ProcessorAt(p, "serialize")
    /\ UNCHANGED <<logger, logging, empty_buffers, filled_buffer_queue, running_tasks, due, consumerVars>>

Unwritten(record) == record.txn \in ReadOnly

\* GetCurrentWriteBuffer: the queue of empty buffers blocks.
GetBuffer(p) ==
    /\ \/ processor[p] = "refill"
       \/ processor[p] = "serialize" /\ ser.temp # <<>> /\ ser.buffer.null /\ ~Unwritten(Head(Head(ser.temp)))
    /\ empty_buffers > 0
    /\ empty_buffers' = empty_buffers - 1
    /\ ser' = [ser EXCEPT !.buffer = EmptyBuffer]
    /\ ProcessorAt(p, "serialize")
    /\ UNCHANGED <<logger, logging, flush_queue, filled_buffer_queue, running_tasks, due, consumerVars>>

\* A faulty variant: a commit counts as written with its first value.
CompleteEarly(record) == TRUE

\* The record is written with its last value; the commit record of a read-only
\* transaction is not written at all.
Complete(record) == Unwritten(record) \/ ser.at = Pieces

\* What is left of the queue after its first record.
AfterRecord(queue) == IF Len(Head(queue)) = 1 THEN Tail(queue) ELSE <<Tail(Head(queue))>> \o Tail(queue)

HandFilledBuffer(buffer) ==
    filled_buffer_queue' = Append(filled_buffer_queue, [buffer |-> buffer, commits |-> ser.commits])

\* SerializeBuffer, one WriteValue at a time: a buffer that is full is handed to the
\* consumer with the callbacks collected so far, and the next one is waited for.
SerializeValue(p) ==
    /\ processor[p] = "serialize" /\ ser.temp # <<>>
    /\ LET record == Head(Head(ser.temp))
           buffer == IF Unwritten(record) THEN ser.buffer ELSE [ser.buffer EXCEPT !.data = Append(@, <<record, ser.at>>)]
           full == Len(buffer.data) = BufferSize
           done == Complete(record)
       IN /\ Unwritten(record) \/ ~ser.buffer.null
          /\ ser' = [ser EXCEPT
                !.buffer = IF full THEN NoBuffer ELSE buffer,
                !.at = IF done THEN 1 ELSE @ + 1,
                !.temp = IF done THEN AfterRecord(@) ELSE @,
                !.commits = (IF full THEN {} ELSE @) \cup (IF done /\ record.kind = "commit" THEN {record.txn} ELSE {}),
                !.txns = IF done /\ record.kind # "redo" THEN @ \cup {record.txn} ELSE @]
          /\ IF full THEN HandFilledBuffer(buffer) ELSE UNCHANGED filled_buffer_queue
          /\ ProcessorAt(p, IF full THEN "refill" ELSE "serialize")
    /\ UNCHANGED <<logger, logging, flush_queue, empty_buffers, running_tasks, due, consumerVars>>

SerializedAll(p) ==
    /\ processor[p] = "serialize" /\ ser.temp = <<>>
    /\ ProcessorAt(p, "grab")
    /\ UNCHANGED <<logger, logging, flush_queue, ser, empty_buffers, filled_buffer_queue, running_tasks, due, consumerVars>>

\* A faulty variant: the last buffer is handed over without its callbacks.
HandLastBufferNoCommits(p) ==
    /\ processor[p] = "hand"
    /\ filled_buffer_queue' = IF ser.processed THEN Append(filled_buffer_queue, [buffer |-> ser.buffer, commits |-> {}])
                              ELSE filled_buffer_queue
    /\ ser' = IF ser.processed THEN [ser EXCEPT !.buffer = NoBuffer, !.commits = {}] ELSE ser
    /\ ProcessorAt(p, "remove")
    /\ UNCHANGED <<logger, logging, flush_queue, empty_buffers, running_tasks, due, consumerVars>>

\* The last buffer is handed over as well; there is none if only read-only
\* transactions were serialized.
HandLastBuffer(p) ==
    /\ processor[p] = "hand"
    /\ IF ser.processed
       THEN HandFilledBuffer(ser.buffer) /\ ser' = [ser EXCEPT !.buffer = NoBuffer, !.commits = {}]
       ELSE UNCHANGED <<ser, filled_buffer_queue>>
    /\ ProcessorAt(p, "remove")
    /\ UNCHANGED <<logger, logging, flush_queue, empty_buffers, running_tasks, due, consumerVars>>

\* A faulty variant: the loop ends without a last Process.
ProcessEndNoLast(p) ==
    /\ processor[p] = "remove"
    /\ logging' = logging \ ser.txns
    /\ ser' = [ser EXCEPT !.txns = {}, !.latch = ""]
    /\ ProcessorAt(p, IF p \in Flushers THEN "signal" ELSE IF "serializer" \in running_tasks THEN "idle" ELSE "stopped")
    /\ UNCHANGED <<logger, flush_queue, empty_buffers, filled_buffer_queue, running_tasks, due, consumerVars>>

\* RemoveTransactions, and the latch is released.  The serializer ends with a last
\* Process after it was told to stop.
ProcessEnd(p) ==
    /\ processor[p] = "remove"
    /\ logging' = logging \ ser.txns
    /\ ser' = [ser EXCEPT !.txns = {}, !.latch = ""]
    /\ ProcessorAt(p, IF p \in Flushers THEN "signal" ELSE IF "looping" \in running_tasks THEN "idle" ELSE "stopped")
    /\ running_tasks' = IF p = Serializer /\ "serializer" \notin running_tasks THEN running_tasks \ {"looping"} ELSE running_tasks
    /\ UNCHANGED <<logger, flush_queue, empty_buffers, filled_buffer_queue, due, consumerVars>>

-----------------------------------------------------------------------------
(* The rest of ForceFlush.                                                 *)

SignalPersist(p) ==
    /\ processor[p] = "signal"
    /\ do_persist' = TRUE
    /\ ProcessorAt(p, "persisting")
    /\ UNCHANGED <<logger, logging, flush_queue, ser, empty_buffers, filled_buffer_queue, disk, consumer,
                   running_tasks, acknowledged, due>>

ForceFlushReturn(p) ==
    /\ processor[p] = "persisting" /\ ~do_persist
    /\ ProcessorAt(p, "returned")
    /\ UNCHANGED <<logger, logging, flush_queue, ser, empty_buffers, filled_buffer_queue, running_tasks, due, consumerVars>>

-----------------------------------------------------------------------------
(* DiskLogConsumerTask.                                                    *)

ConsumerAt(label) == consumer' = [consumer EXCEPT !.pc = label]

\* wait_for returns: signalled, or after the persist interval.
ConsumerWake ==
    /\ consumer.pc = "wait"
    /\ ConsumerAt("write")
    /\ UNCHANGED <<logger, logging, flush_queue, processVars, disk, do_persist, acknowledged>>

WriteBuffersToLogFile ==
    /\ consumer.pc \in {"write", "last_write"} /\ filled_buffer_queue # <<>>
    /\ LET logs == Head(filled_buffer_queue)
       IN /\ disk' = [disk EXCEPT !.file = @ \o logs.buffer.data]
          /\ consumer' = [consumer EXCEPT !.callbacks = @ \cup logs.commits]
          /\ empty_buffers' = IF logs.buffer.null THEN empty_buffers ELSE empty_buffers + 1
    /\ filled_buffer_queue' = Tail(filled_buffer_queue)
    /\ UNCHANGED <<logger, logging, flush_queue, ser, processor, do_persist, running_tasks, acknowledged, due>>

\* The queue is empty; the file is persisted if it is time (the interval or the
\* threshold), if somebody asked for it, or at the end.
DecidePersist ==
    /\ consumer.pc \in {"write", "last_write"} /\ filled_buffer_queue = <<>>
    /\ ConsumerAt(IF consumer.pc = "write" THEN "persist" ELSE "last_persist")
    /\ UNCHANGED <<logger, logging, flush_queue, processVars, disk, do_persist, acknowledged>>

DecideWait ==
    /\ consumer.pc = "write" /\ filled_buffer_queue = <<>>
    /\ ~do_persist /\ "consumer" \in running_tasks
    /\ ConsumerAt("wait")
    /\ UNCHANGED <<logger, logging, flush_queue, processVars, disk, do_persist, acknowledged>>

\* A faulty variant: the callbacks do not wait for fsync.
PersistLater ==
    /\ consumer.pc \in {"persist", "last_persist"}
    /\ acknowledged' = acknowledged \cup consumer.callbacks
    /\ do_persist' = FALSE
    /\ consumer' = [pc |-> IF consumer.pc = "last_persist" THEN "stopped"
                           ELSE IF "consumer" \in running_tasks THEN "wait" ELSE "last_write",
                    callbacks |-> {}]
    /\ UNCHANGED <<logger, logging, flush_queue, processVars, disk>>

\* PersistLogFile, under persist_lock_: fsync, then the callbacks; the flag is reset.
PersistLogFile ==
    /\ consumer.pc \in {"persist", "last_persist"}
    /\ disk' = [disk EXCEPT !.synced = Len(disk.file)]
    /\ acknowledged' = acknowledged \cup consumer.callbacks
    /\ do_persist' = IF consumer.pc = "persist" THEN FALSE ELSE do_persist
    /\ consumer' = [pc |-> IF consumer.pc = "last_persist" THEN "stopped"
                           ELSE IF "consumer" \in running_tasks THEN "wait" ELSE "last_write",
                    callbacks |-> {}]
    /\ UNCHANGED <<logger, logging, flush_queue, processVars>>

-----------------------------------------------------------------------------
(* PersistAndStop: the serializer is stopped, then the consumer.           *)

TransactionsOver == \A t \in Loggers : logger[t].pc = "over"

FlushersOver == \A p \in Flushers : processor[p] \in {"idle", "returned"}

StopSerializer ==
    /\ TransactionsOver /\ FlushersOver /\ "serializer" \in running_tasks
    /\ running_tasks' = running_tasks \ {"serializer"}
    /\ UNCHANGED <<logger, logging, flush_queue, ser, processor, empty_buffers, filled_buffer_queue, due, consumerVars>>

StopConsumer ==
    /\ processor[Serializer] = "stopped" /\ "consumer" \in running_tasks
    /\ running_tasks' = running_tasks \ {"consumer"}
    /\ UNCHANGED <<logger, logging, flush_queue, ser, processor, empty_buffers, filled_buffer_queue, due, consumerVars>>

LogStopped == consumer.pc = "stopped" /\ UNCHANGED walVars

-----------------------------------------------------------------------------
LoggerStep(t) == StageWrite(t) \/ LogCommit(t) \/ LogAbort(t) \/ AbortUnlogged(t) \/ Finalize(t)

ProcessStep(p) ==
    \/ GrabBuffers(p) \/ GetBuffer(p) \/ SerializeValue(p) \/ SerializedAll(p) \/ HandLastBuffer(p)
    \/ ProcessEnd(p) \/ SignalPersist(p) \/ ForceFlushReturn(p)

ConsumerStep == ConsumerWake \/ WriteBuffersToLogFile \/ DecidePersist \/ DecideWait \/ PersistLogFile

StopStep == StopSerializer \/ StopConsumer

WALNext ==
    \/ \E t \in Loggers : LoggerStep(t)
    \/ \E p \in Processors : ProcessBegin(p) \/ ProcessStep(p)
    \/ ConsumerStep \/ StopStep \/ LogStopped

WALSpec == WALInit /\ [][WALNext]_walVars

-----------------------------------------------------------------------------
(* Properties.                                                             *)

\* Everything that was serialized, in the order of the log: written to the file, in
\* the buffers handed over, in the current buffer.
SerializedLog ==
    disk.file \o FoldLeft(LAMBDA acc, logs : acc \o logs.buffer.data, <<>>, filled_buffer_queue) \o ser.buffer.data

LogEntry == [txn : Loggers, kind : {"redo", "commit", "abort"}, nth : 0 .. 2] \X (1 .. Pieces)

CommitOf(entry) == IF entry[1].kind = "commit" /\ entry[2] = Pieces THEN {entry[1].txn} ELSE {}

Abstract == INSTANCE DurableLog WITH
    Entry <- LogEntry, Commits <- CommitOf, Silent <- ReadOnly,
    log <- SerializedLog, durable <- disk.synced, acked <- acknowledged

\* The log manager implements DurableLog: whichever threads serialize, and however records
\* are split over buffers, the log only grows at its end, nothing in it is lost or
\* reordered, and "callbacks ... are invoked ... when the commit records are persisted on
\* disk" (log_manager.h:78).
LogRefines == Abstract!LogSpec

\* The values of a record are contiguous in the log, and the records of a transaction are
\* in their order ("It's important that we serialize the logs in order to ensure that a
\* single transaction's logs are ordered", log_serializer_task.h:122): ReadNextRecord
\* reads them back without looking at where buffers ended.
RecordsWhole ==
    LET l == SerializedLog
    IN \A i \in DOMAIN l :
          /\ l[i][2] = (IF i % Pieces = 0 THEN Pieces ELSE i % Pieces)
          /\ l[i][2] # 1 => l[i][1] = l[i - 1][1]
          /\ \A j \in 1 .. i : (l[j][1].txn = l[i][1].txn /\ l[j][1] # l[i][1]) =>
                 l[j][1].kind = "redo" /\ (l[i][1].kind = "redo" => l[j][1].nth < l[i][1].nth)

\* "it won't be GC'd until the LogManager marks it as serialized"
\* (transaction_manager.cpp:109): a transaction that stops running has its last record in
\* the log, or nothing of it is there.
SerializedBeforeRemoved ==
    \A t \in Loggers \ (logging \cup ReadOnly) :
        LET mine == {i \in DOMAIN SerializedLog : SerializedLog[i][1].txn = t}
        IN mine = {} \/ \E i \in mine : SerializedLog[i][1].kind # "redo" /\ SerializedLog[i][2] = Pieces

\* "The shutdown of the tasks will trigger any remaining logs to be serialized, writen to the
\* log file, and persisted" (log_manager.cpp:46): after PersistAndStop everything is on
\* disk and acknowledged, and all buffers are back.
StopPersistsAll ==
    consumer.pc = "stopped" =>
        /\ disk.synced = Len(SerializedLog) /\ flush_queue = <<>> /\ filled_buffer_queue = <<>>
        /\ empty_buffers = NumBuffers
        /\ logging = {}
        /\ \A i \in DOMAIN disk.file : CommitOf(disk.file[i]) \subseteq acknowledged

\* "Serialize and flush the logs to make sure all serialized records are persistent"
\* (log_manager.h:78): when ForceFlush returns, the records handed over before the call
\* are on disk.
ForceFlushPersists ==
    \A p \in Flushers : processor[p] = "returned" =>
        \A t \in due[p] \ ReadOnly : \E i \in 1 .. disk.synced : disk.file[i][1].txn = t /\ disk.file[i][1].kind # "redo"

\* A transaction that commits is acknowledged in the end ...
CommitsAcknowledged == \A t \in Loggers : logger[t].pc = "finalize" /\ logger[t].redo[Len(logger[t].redo)].kind = "commit"
                                              ~> t \in acknowledged

\* ... and ForceFlush returns, also when the serializer waits for empty buffers while
\* it holds the latch.
ForceFlushReturns == \A p \in Flushers : processor[p] = "grab" ~> processor[p] = "returned"

\* What is in the log of a transaction is whole and in order, and complete once the
\* transaction has stopped running.
TransactionsLogged == RecordsWhole /\ SerializedBeforeRemoved
=============================================================================
