--------------------------- MODULE GarbageCollector ---------------------------
(***************************************************************************)
(* storage::GarbageCollector, run by one thread beside the transactions of *)
(* TransactionManager: it unlinks the undo records that no transaction can *)
(* reach any more from the version chains, and deletes a finished          *)
(* transaction (its undo records and its loose varlen buffers) one round   *)
(* or more after its records were unlinked.                                *)
(*                                                                         *)
(* freed and quiet are history variables: the transactions deleted so far, *)
(* and the number of rounds completed that began when every transaction    *)
(* was over.                                                               *)
(***************************************************************************)
EXTENDS TransactionManager

CONSTANT MaxGC  \* bound: rounds that begin while transactions are running

ASSUME MaxGCAssumption == MaxGC \in Nat

VARIABLES
    gc,                  \* control and local variables of the thread
    last_unlinked,       \* last_unlinked_
    txns_to_deallocate,  \* txns_to_deallocate_: order does not matter
    txns_to_unlink,      \* txns_to_unlink_
    freed, quiet

gcVars == <<gc, last_unlinked, txns_to_deallocate, txns_to_unlink, freed, quiet>>
allVars == <<vars, gcVars>>

\* Locals: oldest is oldest_txn; txn, idx the record being processed; head and
\* curr are version_ptr and curr of TruncateVersionChain.
NoRound == [pc |-> "idle", rounds |-> 0, oldest |-> 0, txn |-> Null, idx |-> 0, head |-> Null,
            curr |-> Null, visited |-> {}, requeue |-> <<>>, processed |-> 0, quiet |-> FALSE]

AllOver == \A t \in Txns : pc[t] = "finished"

GCGoto(label) == gc' = [gc EXCEPT !.pc = label]

chainVars == <<undo, ver, alloc, loose_ptrs>>
queueVars == <<completed_txns, txns_to_deallocate, txns_to_unlink, freed>>
clockVars == <<time, cached_oldest_txn_start_time, last_unlinked, quiet>>

\* The collector may not touch what only the transactions' threads change.
GCFrame == UNCHANGED <<curr_running_txns, pc, op, txnVars, present, val, txn_gate, history>>

-----------------------------------------------------------------------------
(* PerformGarbageCollection: a fresh timestamp, then the watermark.        *)

\* A faulty variant: the clock as the watermark, whoever is running.
GCBeginNow ==
    /\ gc.pc = "idle"
    /\ gc.rounds < MaxGC \/ (AllOver /\ freed # Txns)
    /\ CheckOutTimestamp
    /\ cached_oldest_txn_start_time' = time + 1
    /\ gc' = [NoRound EXCEPT !.pc = "dealloc", !.oldest = time + 1, !.quiet = AllOver,
                 !.rounds = IF gc.rounds < MaxGC THEN gc.rounds + 1 ELSE gc.rounds]
    /\ GCFrame
    /\ UNCHANGED <<chainVars, queueVars, last_unlinked, quiet>>

\* (One step: nobody reads the clock value that is thrown away.)
GCBegin ==
    /\ gc.pc = "idle"
    /\ gc.rounds < MaxGC \/ (AllOver /\ freed # Txns)
    /\ CheckOutTimestamp
    /\ LET oldest == IF curr_running_txns = {} THEN time + 1 ELSE OldestRunning
       IN /\ cached_oldest_txn_start_time' = oldest
          /\ gc' = [NoRound EXCEPT !.pc = "dealloc", !.oldest = oldest, !.quiet = AllOver,
                       !.rounds = IF gc.rounds < MaxGC THEN gc.rounds + 1 ELSE gc.rounds]
    /\ GCFrame
    /\ UNCHANGED <<chainVars, queueVars, last_unlinked, quiet>>

\* A faulty variant: what is unlinked is deleted at the next round, whoever is
\* running.
DeallocateNextRound ==
    /\ gc.pc = "dealloc"
    /\ freed' = freed \cup txns_to_deallocate
    /\ txns_to_deallocate' = {}
    /\ GCGoto("grab")
    /\ GCFrame
    /\ UNCHANGED <<chainVars, completed_txns, txns_to_unlink, clockVars>>

ProcessDeallocateQueue ==
    /\ gc.pc = "dealloc"
    /\ LET safe == NewerThan(gc.oldest, last_unlinked)
       IN /\ freed' = IF safe THEN freed \cup txns_to_deallocate ELSE freed
          /\ txns_to_deallocate' = IF safe THEN {} ELSE txns_to_deallocate
    /\ GCGoto("grab")
    /\ GCFrame
    /\ UNCHANGED <<chainVars, completed_txns, txns_to_unlink, clockVars>>

-----------------------------------------------------------------------------
(* ProcessUnlinkQueue.                                                     *)

\* CompletedTransactionsForGC, spliced before what was requeued.
GrabCompleted ==
    /\ gc.pc = "grab"
    /\ txns_to_unlink' = completed_txns \o txns_to_unlink
    /\ completed_txns' = <<>>
    /\ GCGoto("unlink")
    /\ GCFrame
    /\ UNCHANGED <<chainVars, txns_to_deallocate, freed, clockVars>>

\* The loop over the undo buffer of t has come to record i: the record's chain is
\* truncated if this round has not done so yet.
AtRecord(t, i) ==
    LET r == undo[t][i]
        at == [gc EXCEPT !.txn = t, !.idx = i, !.head = Null, !.curr = Null]
    IN IF r.table /\ r.slot \notin gc.visited
       THEN [at EXCEPT !.pc = "trunc", !.visited = @ \cup {r.slot}]
       ELSE [at EXCEPT !.pc = "reclaim"]

\* The front of the unlink queue: deleted at once if it wrote nothing, processed
\* if no running transaction is as old as its finish, and else put back.
UnlinkNext ==
    /\ gc.pc = "unlink" /\ txns_to_unlink # <<>>
    /\ LET t == Head(txns_to_unlink)
           readOnly == undo[t] = <<>>
           safe == NewerThan(gc.oldest, finish_time[t])
       IN /\ freed' = IF readOnly THEN freed \cup {t} ELSE freed
          /\ gc' = IF readOnly THEN [gc EXCEPT !.processed = @ + 1]
                   ELSE IF safe THEN AtRecord(t, 1)
                   ELSE [gc EXCEPT !.requeue = <<t>> \o @]
    /\ txns_to_unlink' = Tail(txns_to_unlink)
    /\ GCFrame
    /\ UNCHANGED <<chainVars, completed_txns, txns_to_deallocate, clockVars>>

-----------------------------------------------------------------------------
(* TruncateVersionChain for the slot of the current record.                *)

TruncSlot == undo[gc.txn][gc.idx].slot

Old(p) == NewerThan(gc.oldest, Rec(p).ts)

TruncRead ==
    /\ gc.pc = "trunc"
    /\ LET p == ver[TruncSlot]
       IN gc' = [gc EXCEPT !.head = p, !.curr = p,
                           !.pc = IF p = Null THEN "reclaim" ELSE IF Old(p) THEN "trunc_cas" ELSE "trunc_walk"]
    /\ GCFrame
    /\ UNCHANGED <<chainVars, queueVars, clockVars>>

\* The head can go, and with it the chain; writers may have moved it meanwhile.
TruncCAS ==
    /\ gc.pc = "trunc_cas"
    /\ CompareAndSwapVersionPtr(TruncSlot, gc.head, Null)
    /\ GCGoto(IF ver[TruncSlot] = gc.head THEN "reclaim" ELSE "trunc")
    /\ GCFrame
    /\ UNCHANGED <<undo, alloc, loose_ptrs, queueVars, clockVars>>

TruncWalk ==
    /\ gc.pc = "trunc_walk"
    /\ LET next == Rec(gc.curr).next
       IN gc' = IF next = Null THEN [gc EXCEPT !.pc = "reclaim"]
                ELSE IF Old(next) THEN [gc EXCEPT !.pc = "trunc_store"]
                ELSE [gc EXCEPT !.curr = next]
    /\ GCFrame
    /\ UNCHANGED <<chainVars, queueVars, clockVars>>

TruncStore ==
    /\ gc.pc = "trunc_store"
    /\ undo' = [undo EXCEPT ![gc.curr[1]][gc.curr[2]].next = Null]
    /\ GCGoto(IF gc.curr = gc.head THEN "trunc_retry" ELSE "reclaim")
    /\ GCFrame
    /\ UNCHANGED <<ver, alloc, loose_ptrs, queueVars, clockVars>>

TruncRetry ==
    /\ gc.pc = "trunc_retry"
    /\ GCGoto(IF ~Committed(Rec(gc.head).ts) /\ ver[TruncSlot] # gc.head THEN "trunc" ELSE "reclaim")
    /\ GCFrame
    /\ UNCHANGED <<chainVars, queueVars, clockVars>>

-----------------------------------------------------------------------------
\* The buffers that a committed record made garbage (ReclaimBufferIfVarlen): the
\* tuple in place for a delete, the before-image for an update.
OutdatedBuffers(r) ==
    LET cols == CASE r.type = "DELETE" -> Cols
                  [] r.type = "UPDATE" -> DOMAIN r.delta
                  [] OTHER -> {}
        F[C \in SUBSET cols] ==
            IF C = {} THEN <<>>
            ELSE LET c == Least(C)
                 IN <<Buffer(r.slot, c, IF r.type = "DELETE" THEN val[r.slot][c] ELSE r.delta[c])>>
                    \o F[C \ {c}]
    IN F[cols]

\* A faulty variant: for aborted transactions too.
ReclaimAborted ==
    /\ gc.pc = "reclaim"
    /\ LET t == gc.txn
           r == undo[t][gc.idx]
           last == gc.idx = Len(undo[t])
       IN /\ alloc' = IF r.type = "DELETE" THEN [alloc EXCEPT ![r.slot] = FALSE] ELSE alloc
          /\ loose_ptrs' = [loose_ptrs EXCEPT ![t] = @ \o OutdatedBuffers(r)]
          /\ txns_to_deallocate' = IF last THEN txns_to_deallocate \cup {t} ELSE txns_to_deallocate
          /\ gc' = IF last
                   THEN [gc EXCEPT !.pc = "unlink", !.processed = @ + 1, !.txn = Null, !.idx = 0,
                                   !.head = Null, !.curr = Null]
                   ELSE AtRecord(t, gc.idx + 1)
    /\ GCFrame
    /\ UNCHANGED <<undo, ver, completed_txns, txns_to_unlink, freed, clockVars>>

\* ReclaimSlotIfDeleted and ReclaimBufferIfVarlen, for committed transactions;
\* then the next record, or the next transaction.
Reclaim ==
    /\ gc.pc = "reclaim"
    /\ LET t == gc.txn
           r == undo[t][gc.idx]
           last == gc.idx = Len(undo[t])
       IN /\ alloc' = IF ~aborted[t] /\ r.type = "DELETE"
                      THEN [alloc EXCEPT ![r.slot] = FALSE] ELSE alloc
          /\ loose_ptrs' = IF aborted[t] THEN loose_ptrs
                           ELSE [loose_ptrs EXCEPT ![t] = @ \o OutdatedBuffers(r)]
          /\ txns_to_deallocate' = IF last THEN txns_to_deallocate \cup {t} ELSE txns_to_deallocate
          /\ gc' = IF last
                   THEN [gc EXCEPT !.pc = "unlink", !.processed = @ + 1, !.txn = Null, !.idx = 0,
                                   !.head = Null, !.curr = Null]
                   ELSE AtRecord(t, gc.idx + 1)
    /\ GCFrame
    /\ UNCHANGED <<undo, ver, completed_txns, txns_to_unlink, freed, clockVars>>

\* A faulty variant: what could not be unlinked is lost.
GCEndWithoutRequeue ==
    /\ gc.pc = "unlink" /\ txns_to_unlink = <<>>
    /\ IF gc.processed > 0
       THEN last_unlinked' = time /\ CheckOutTimestamp
       ELSE UNCHANGED <<last_unlinked, time>>
    /\ quiet' = IF gc.quiet THEN quiet + 1 ELSE quiet
    /\ gc' = [NoRound EXCEPT !.rounds = gc.rounds]
    /\ GCFrame
    /\ UNCHANGED <<chainVars, queueVars, cached_oldest_txn_start_time>>

\* The unlink queue is empty: requeue, and date the round if it unlinked.
GCEnd ==
    /\ gc.pc = "unlink" /\ txns_to_unlink = <<>>
    /\ txns_to_unlink' = gc.requeue
    /\ IF gc.processed > 0
       THEN last_unlinked' = time /\ CheckOutTimestamp
       ELSE UNCHANGED <<last_unlinked, time>>
    /\ quiet' = IF gc.quiet THEN quiet + 1 ELSE quiet
    /\ gc' = [NoRound EXCEPT !.rounds = gc.rounds]
    /\ GCFrame
    /\ UNCHANGED <<chainVars, completed_txns, txns_to_deallocate, freed, cached_oldest_txn_start_time>>

-----------------------------------------------------------------------------
GCStep ==
    \/ GCBegin \/ ProcessDeallocateQueue \/ GrabCompleted \/ UnlinkNext
    \/ TruncRead \/ TruncCAS \/ TruncWalk \/ TruncStore \/ TruncRetry
    \/ Reclaim \/ GCEnd

GCInit ==
    /\ Init
    /\ gc = NoRound
    /\ last_unlinked = 0
    /\ txns_to_deallocate = {}
    /\ txns_to_unlink = <<>>
    /\ freed = {}
    /\ quiet = 0

\* Everything is over and collected.
AllCollected == AllOver /\ freed = Txns /\ gc.pc = "idle" /\ UNCHANGED allVars

GCNext ==
    \/ (\E t \in Txns : TxnStep(t)) /\ UNCHANGED gcVars
    \/ GCStep
    \/ AllCollected

GCSpec == GCInit /\ [][GCNext]_allVars

-----------------------------------------------------------------------------
(* Properties.                                                             *)

\* The records on the chain that starts at p.
Chain(p) ==
    LET Nth[n \in 0 .. Cardinality(Txns) * MaxUndo] ==
            IF n = 0 THEN p ELSE IF Nth[n - 1] = Null THEN Null ELSE Rec(Nth[n - 1]).next
    IN {Nth[n] : n \in DOMAIN Nth} \ {Null}

\* Pointers that some thread may follow, or compare with a version pointer.
Roots ==
    {ver[s] : s \in Slots} \cup {op[t].ptr : t \in Txns} \cup {gc.head, gc.curr}

\* No thread can reach a record of a deleted transaction
\* (garbage_collector.cpp:40): neither through a version pointer nor through a
\* pointer that it loaded before the record was unlinked.
NoDanglingPointer == \A p \in Roots : \A q \in Chain(p) : q[1] \notin freed

FreedBuffers == UNION {{loose_ptrs[t][i] : i \in DOMAIN loose_ptrs[t]} : t \in freed}

BuffersOf(s, v) == IF v = NoTuple THEN {} ELSE {Buffer(s, c, v[c]) : c \in Cols}

\* Deleting a transaction frees its loose varlen buffers
\* (transaction_context.h:60).  None of them belongs to a tuple that an active
\* transaction's snapshot holds, or that is committed now.
SnapshotBuffersLive ==
    \A s \in Slots : \A ts \in {time} \cup {start_time[t] : t \in {u \in Txns : Status(u) = "active"}} :
        BuffersOf(s, VersionAt(s, ts)) \cap FreedBuffers = {}

\* The rollback, GCLastUpdateOnAbort and ReclaimBufferIfVarlen never give the same
\* buffer to two transactions, or twice to one: it would be deleted twice.
NoDoubleFree ==
    \A t, u \in Txns : \A i \in DOMAIN loose_ptrs[t], j \in DOMAIN loose_ptrs[u] :
        loose_ptrs[t][i] = loose_ptrs[u][j] => t = u /\ i = j

\* Every buffer that a transaction ever wrote, installed or not.
WrittenBuffers ==
    UNION {UNION {{Buffer(undo[t][i].slot, c, <<t, i>>) :
                      c \in IF undo[t][i].type = "INSERT" THEN Cols ELSE DOMAIN undo[t][i].delta} :
                  i \in DOMAIN undo[t]} : t \in Txns}

\* Once every transaction is deleted, a buffer is freed or belongs to a tuple.
NoBufferLeak ==
    freed = Txns =>
        WrittenBuffers \subseteq FreedBuffers \cup UNION {BuffersOf(s, VersionAt(s, time)) : s \in Slots}

\* "This needs to be invoked twice to actually free memory"
\* (garbage_collector.h:56): two rounds after the last transaction are enough,
\* so the destructor finds its queues empty (garbage_collector.h:50).
TwoRoundsFreeAll == quiet >= 2 => freed = Txns

\* A round of the collector ends, however often writers move the head of the
\* chain that it truncates (garbage_collector.cpp:131 and :155).
RoundsEnd == gc.pc # "idle" ~> gc.pc = "idle"

\* What a deleted transaction owned is used by nobody any more: its records, and the
\* buffers that were freed with it.
NothingUsedAfterFree == NoDanglingPointer /\ SnapshotBuffersLive

\* Every buffer that is no longer needed is freed, exactly once.
BuffersFreedOnce == NoDoubleFree /\ NoBufferLeak
=============================================================================
