# A verification project for the terrier transaction engine

terrier is an in-memory, multi-versioned database. Tuples are updated in place, without latches;
each tuple has a chain of undo records from which readers reconstruct older versions, and a garbage
collector prunes the chains while transactions run. Almost everything that can go wrong there goes
wrong between two threads, so this project models the transaction engine step by step in TLA+,
model-checks it with TLC, and proves its central invariants with TLAPS.

Paths below are relative to `src/src/` of the repository.

## 1. The system's parts

| Part | State | Operations | Talks to |
|---|---|---|---|
| Timestamp manager (`transaction/timestamp_manager.*`) | clock, running start times, cached oldest | check out a timestamp, begin, oldest running, remove | everything below |
| Data table (`storage/data_table.cpp`) | per slot: version pointer, allocated bit, presence bit, values | `Select`, `IsVisible`, `Update`, `Delete`, `InsertInto`, `Scan` | undo buffers of transactions |
| Slot and block allocation (`DataTable::Insert`, `storage/tuple_access_strategy.*`) | block list, insertion head, busy bit, insert head, bitmap | `Insert`, `CheckMoveHead`, `NewBlock`, `Allocate` | data table, compactor |
| Transaction manager (`transaction/transaction_manager.cpp`) | gate, completed transactions, per transaction: start and finish time, undo buffer, loose pointers, must-abort flag | `BeginTransaction`, `Commit`, `Abort` | all of these |
| Garbage collector (`storage/garbage_collector.cpp`) | unlink and deallocate queues, last unlinked time | `PerformGarbageCollection` | chains, completed transactions |
| Deferred actions (`include/transaction/deferred_action_manager.h`) | two queues of dated actions | register, process, `FullyPerformGC` | collector, catalog, indexes |
| Write-ahead log (`storage/write_ahead_log/`) | flush queue, empty and filled buffers, commit callbacks, file | hand over a buffer, serialize, write, persist, `ForceFlush`, `PersistAndStop` | transaction manager, timestamp manager |
| Recovery (`storage/recovery/`) | buffered changes per transaction, deferred transactions, slot map | replay committed, defer, replay deferred | log, tables, indexes |
| Block access control and compaction (`include/storage/block_access_controller.h`, `storage/block_compactor.cpp`, `storage/access_observer.cpp`) | block state, reader count, compaction queue, cold blocks | acquire and release in-place read, `WaitUntilHot`, compact, gather | data table, collector |
| Indexes (`storage/index/`) | key to slot multimaps | insert, insert unique, deferred delete, scans | tables, deferred actions |
| Catalog (`catalog/`) | rows in tables, DDL lock | create, drop, look up | transactions, deferred actions |
| Thread registry, worker pool (`include/common/`) | threads, task queue | register, stop; submit, wait, shut down | log, collector, network |
| Network, traffic cop (`network/`, `traffic_cop/`) | connection state machines | accept, read, process, write, close | transactions |
| Settings, metrics | tables of values and counters | get, set, record, aggregate | all |
| Parser, binder, optimizer, planner, execution | query trees, byte code | sequential transformations | catalog, tables |

### What is hard about it

* A version pointer is at once the head of a chain and a write lock. It is taken with one
  compare-and-swap, but given up implicitly, when a loop has stored the commit time into the owner's
  records one after the other.
* A reader copies the tuple column by column while a writer may be changing it, and decides afterwards,
  from the version pointer alone, whether its copy can be repaired from the chain.
* A commit is a loop over undo records. A gate keeps transactions that begin meanwhile from running until
  it is over; transactions that are already running need no gate, because the commit is newer than they are.
* An abort restores values in place, then takes a timestamp and flips its records like a commit, with
  no gate.
* The collector prunes chains under the feet of readers and writers; what keeps it safe is only the
  order in which it draws timestamps.
* The buffers of variable-length values change owner between tuples, undo records, aborted
  transactions and the collector, and must be freed exactly once.

### What correctness means, part by part

* Timestamp manager: the watermark is never newer than a live transaction, and never goes back.
* Data table and transaction manager: snapshot isolation with first-updater-wins; exclusive writes in place;
  sorted chains; every call returns.
* Collector: nothing reachable is freed, everything is freed once and in the end, and no read changes
  because of a pruned chain.
* Allocation: a slot is given to one insert; a full block is left behind.
* Deferred actions: run once, in order, not before everyone who was running at their registration is gone.
* Log: a commit callback runs only after the transaction's records are durable, and in the end it does;
  `ForceFlush` returns only after everything handed over before is durable.
* Recovery: the tables hold exactly the committed transactions whose commit record is in the log.
* Block access: in-place readers never meet a writer; a frozen block holds no version.

## 2. The modules

| Module | Models | Lines of the source |
|---|---|---|
| `TimestampManager` | clock, running set, watermark, `NewerThan`, `Committed` | `timestamp_manager.*`, `transaction_util.h` |
| `DataTable` | `Select`, `IsVisible`, `Update`, `Delete`, `InsertInto` | `data_table.cpp`, `undo_record.h`, `storage_util.cpp` |
| `TransactionManager` | `BeginTransaction`, `Commit`, `Abort`, `Rollback`; extends `DataTable` | `transaction_manager.cpp`, `gate.h` |
| `SnapshotIsolation` | the abstract specification: a store, snapshots, write sets | none: it is the promise |
| `GarbageCollector` | `PerformGarbageCollection` beside the transactions; extends `TransactionManager` | `garbage_collector.cpp` |
| `MCTransactionManager`, `MCGarbageCollector` | which operations each transaction calls, and symmetry | |
| `TransactionTypeProofs`, `TransactionLockProofs`, `TransactionWriteProofs` | the proofs | |

**State.** `pc[t]` says where the thread that runs transaction `t` stands, and `op[t]` holds the local
variables of the call it is in. `undo[t]` is its undo buffer, and `<<t, i>>` a pointer to record `i` of
it. `ver`, `alloc`, `present` and `val` are what a slot holds in memory: the version pointer, the bit in
the allocation bitmap, the not-null bit of the version pointer column (the logical delete bit) and the
values. A value is the pointer of the undo record of the write that produced it, so every write is
distinguishable, and with the slot and the column it names the varlen buffer that holds it
(`Buffer`). Every table column counts as variable-length, so every write allocates.

**Steps.** One action is one access to memory that another thread may change, together with the
thread-local work around it. Four places take more than one access in one step, each justified where it
is written: the before-image (`WriteImage`), whose content only counts if the head has not moved; the
collector's timestamp and its watermark (`GCBegin`); the allocated and the presence bit read by `Visible`;
and the rollback of one insert or delete, which only the owner of the lock performs. Memory is
sequentially consistent, as it is for the default `std::atomic` operations used on pointers and
timestamps; the plain copies of values are ordered by these.

**Timestamps.** A transaction id is `start_time + INT64_MIN`; comparison is of unsigned words. The model keeps
the sign and replaces the offset, so that ids are negative and the clock needs no bound. Overflow of the
63-bit clock is not modelled: the code does not handle it (`timestamp_manager.h:99`).

**What the environment does.** A client calls any operation in any order, on any slot that it could know
of, until the transaction must abort; it may commit or abort at any time. `SqlTable` calls `SetMustAbort`
when `Update` or `Delete` fails, which `WriteRead` includes, and after that nothing but `Abort` is called.
Logging is disabled, the collector is enabled: `LogCommit` and `LogAbort` then only remove the
transaction from the running set.

**History variables.** `history` (the committed versions), `freed` and `quiet` (what the collector has
deleted; how many rounds began when every transaction was over) are written but never decide a step of the
program; `freed` and the number of rounds only bound the collector's rounds.

**Faulty variants.** Operators introduced as a faulty variant, next to the definition they imitate, are
not part of any specification. Each shows that some property notices that mistake.

## 3. The abstract specification

`SnapshotIsolation` has a store of committed values, a snapshot and a write set per transaction, and the keys
that others have committed to since (`stale`). A read returns the snapshot overlaid with the
transaction's own writes; a write requires that no other active transaction has written the key and that it
is not stale; a commit applies the write set in one step.

`TransactionManager!SnapshotIsolated` states that the detailed system implements it, under this mapping:
a transaction commits at the step that takes its commit time (`CommitTimestamp`), long before all its
records carry it; the store is what `history` holds at the current clock; the write set of an active
transaction is what it has in place, as of its last completed call; and the result of a read is the buffer
handed back at `sel_done`. That a commit is one step although the records are flipped one by one, and that
readers agree on that step, is what the gate, the re-check of the version pointer and the chain walk
achieve together.

## 4. What the runs check

| Run | Instance | Shows |
|---|---|---|
| `locking` | 2 transactions, all operations, 2 slots (one holds a tuple), 2 writes each | `TypeOK`; `WriteLockHeld`, `ChainSorted`, `InPlaceExclusive`, `RollbackHoldsLock`, and `LockingInv`, the inductive invariant of the proofs |
| `isolation` | the same, no abort after writing a slot twice | `SnapshotIsolated` |
| `isolation_three` | 2 writers with one write each, 1 reader, 1 slot | `SnapshotIsolated` where a chain has records of two other transactions |
| `isolation_columns` | a writer of any subset of 2 columns, a reader | `SnapshotIsolated` where tuples and deltas can be torn |
| `abort_after_rewrite` | a writer with two updates, a reader | **violated**: see section 7 |
| `collect_writes` | 2 writers with two writes each, 1 slot, 2 rounds that begin while they run | `NoDoubleFree`, `NoBufferLeak`, `TwoRoundsFreeAll` |
| `collect_reads` | a writer, a reader, 2 rounds | `NoDanglingPointer`, `SnapshotBuffersLive`, `OldestIsOldest`, `WatermarkMonotone` |
| `collect_inserts` | an inserter that may update or delete, a deleter that may read, 1 empty slot, 2 rounds | `NoBufferLeak` for inserted tuples |
| `collect_isolation` | 2 transactions with one write each, 1 round | `SnapshotIsolated` while chains are pruned |
| `liveness` | 2 transactions that read and update, 1 round | `CallsReturn`, `RoundsEnd` |

**Bounds.** `MaxUndo` (writes per transaction) and `MaxGC` (rounds that begin before all transactions are
over; after that, rounds go on until everything is freed) are the only bounds. Two writes are what it
takes for a chain to hold two records of one transaction, for a transaction to write two slots and for a
commit or abort to be half flipped. Two rounds are what it takes to unlink and then deallocate while a
reader is still inside a chain. Three transactions are needed for a chain with records of two others,
which the third reads.

**Deadlock** is checked in all runs; the behaviours end in states in which every transaction is over (and
everything is collected), which have an explicit stuttering step.

**Fairness.** `GCFairSpec` assumes weak fairness of each thread's steps while it is inside a call
(`InCall`), and of the collector's steps: the operating system runs a thread that can run, and
`GarbageCollectorThread` loops for ever. Nothing is assumed about clients: a transaction may stay open for
ever, and calls of others must return all the same. The loops in question are the spin at the gate, the retry
loop of `Select`, the compare-and-swap loops of `Update` and `Delete`, and the truncation's retry. With
a bounded number of transactions the conditions they wait for become stable; with an unbounded stream of
commits a beginning transaction could be starved at the gate, which this does not exclude.

## 5. What is proved

For every set of transactions and slots, every number of columns and every bound on undo records
(`TransactionWriteProofs`):

* `TypeCorrect`: `Spec => []TypeOK`
* `WriteLockSafe`: `Spec => []WriteLockHeld`
* `ChainsSorted`: `Spec => []ChainSorted`
* `InPlaceSafe`: `Spec => []InPlaceExclusive`
* `RollbackSafe`: `Spec => []RollbackHoldsLock`

Assumptions: there is at least one column, the bound on undo records is a natural number, and the null
pointer is not a record.

None of these is inductive. The invariant that is, `LockingInv`, says in addition

* `ClockInv`: start times are in the past and distinct, so ids are distinct; a transaction's finish time is
  its id until it is over; commit and abort times are newer than the start;
* `RecordInv`: which timestamp each record carries, as a function of where its owner stands (`TsOf`): the
  id, or during the loops that flip, the final time for the records before the loop's index;
* `ChainInv`: pointers in version pointers, in records and in the local variables of writers lead to
  records installed on that very slot, and what is below a record is an earlier record of the same
  transaction or one committed before that transaction began;
* `ReadInv`: the same for the pointers that readers hold;
* `LockInv`: an uncommitted installed record of `t` is on a slot whose head is a record of `t`, not an
  earlier one;
* `InsertInv`: while an insert has not yet stored its version pointer, which it does blindly, nobody
  else has got past the visibility check on that slot.

The argument has three layers, one module each. `TransactionTypeProofs` shows that every step keeps the types.
`TransactionLockProofs` shows that steps which change no record and no version pointer keep the
invariant (`SameRecords`, `QuietStep`), and treats reads and rollback. `TransactionWriteProofs` treats
the steps that do change them: a new record that nobody can reach yet (`PrivateStep`), the two ways
to install it (`InstallInv`: the compare-and-swap works because the head that was checked for conflicts
is still the head, the blind store because of `InsertInv`), and the flip of one record (`FlipInv`: records
flip oldest first, and the head of a chain is its owner's newest record on it, so the lock is the last
thing to go). `NextInv` puts the actions together.

Only model-checked: `SnapshotIsolated`, everything about the collector, and the liveness properties
(fairness is out of the proof system's reach).

## 6. Not modelled

Scans (iterations of `Select`), statistics counters, metrics, and log records; and the components that
section 8 plans. Weak memory effects on the plain copies of values are left out. The parser, binder,
optimizer, planner and execution engine are sequential transformations with an input space out of a
model checker's reach. Sockets are pure I/O.

## 7. Findings

**A reader can see an aborted update** (`abort_after_rewrite`). `transaction_manager.cpp:170` argues that
`Abort` need not flip the timestamps of its records in a critical section, "because readers can never see
the aborted version either way". That holds while a chain has one record of the aborting
transaction. If the transaction updated a tuple twice, the chain begins `u2 -> u1`, where `u2` holds the
result of the first update as its before-image. A reader that begins after the abort time was taken, and
reads while `u1` is flipped and `u2` is not, finds `u2` uncommitted, applies its before-image and stops at
`u1`, whose timestamp is older than its start: it returns the result of the first update. The other runs
that check isolation therefore exclude this case (`AbortAfterRewrite = FALSE`: no abort after two writes to
one slot), and find nothing else.

## 8. Plan

In this order; each item is a module with its runs, composed with the modules it interacts with.

1. `BlockInsert`: slot and block allocation; discharges the assumption `Fresh` of `DataTable`. Two inserters,
   two blocks of two slots; with the busy bit of a new block set, or not, as in debug and release builds.
   To prove: a slot is handed out once.
2. `DeferredActions`: with the collector's watermark. Actions that register actions. To check: no action runs
   while a transaction that was running at its registration is; `FullyPerformGC` is enough for the nesting
   that the repository uses.
3. `WriteAheadLog`: transactions, serializer, consumer, `ForceFlush` and `PersistAndStop` as processes, a
   crash that keeps what was persisted. An abstract log (a durable prefix that grows) that it implements.
4. `Recovery`: composed with the abstract log.
5. `BlockAccess`: block states, in-place readers, writers and the compactor.
6. `UniqueIndex`: `InsertUnique` and deferred deletes over the transaction layer.
7. `WorkerPool`, thread registry and the connection state machine.
8. Proofs: `LockingInv` and the watermark for the collector's specification, so that `NoDanglingPointer`
   can be proved; then the proofs for items 1 to 3.
