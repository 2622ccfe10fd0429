-------------------------- MODULE TransactionManager --------------------------
(***************************************************************************)
(* transaction::TransactionManager over a DataTable, with the garbage      *)
(* collector enabled and logging disabled: Begin, Commit and Abort, each a *)
(* sequence of steps of the thread that runs the transaction.              *)
(*                                                                         *)
(* history is a history variable: the committed versions of every slot     *)
(* with their commit times, to which reads are compared.  No action's      *)
(* guard depends on it.                                                    *)
(***************************************************************************)
EXTENDS DataTable

CONSTANTS
    InitSlots,         \* slots that hold a tuple in the initial state
    NoTuple,           \* history: the version of a slot that holds no tuple
    AbortAfterRewrite  \* may a transaction abort that wrote a slot twice?

VARIABLES
    txn_gate,       \* count_ of txn_gate_
    completed_txns, \* completed_txns_, newest first
    loose_ptrs,     \* loose_ptrs_: varlen buffers to free with the transaction
    history

mgrVars == <<txn_gate, completed_txns, loose_ptrs, history>>
vars == <<tmVars, tableVars, mgrVars>>

\* The buffer of a varlen value: the value and the place it was written to.
Buffer(s, c, v) == <<s, c, v>>

Written(t) == {undo[t][i].slot : i \in {j \in DOMAIN undo[t] : undo[t][j].table}}

Rewritten(t) ==
    \E i, j \in DOMAIN undo[t] :
        i # j /\ undo[t][i].table /\ undo[t][j].table /\ undo[t][i].slot = undo[t][j].slot

-----------------------------------------------------------------------------
(* BeginTransaction: the start time first, then through the gate.          *)

Begin(t) ==
    /\ pc[t] = "idle"
    /\ BeginTimestamp
    /\ start_time' = [start_time EXCEPT ![t] = time]
    /\ finish_time' = [finish_time EXCEPT ![t] = TxnId(time)]
    /\ Goto(t, "begin")
    /\ UNCHANGED <<cached_oldest_txn_start_time, op, must_abort, aborted, undo, slotVars, mgrVars>>

\* A faulty variant: BeginTransaction does not wait for commits in progress.
BeginThroughClosedGate(t) ==
    /\ pc[t] = "begin"
    /\ Goto(t, "running")
    /\ UNCHANGED <<tmVars, op, txnVars, undo, slotVars, mgrVars>>

TraverseGate(t) ==
    /\ pc[t] = "begin" /\ txn_gate = 0
    /\ Goto(t, "running")
    /\ UNCHANGED <<tmVars, op, txnVars, undo, slotVars, mgrVars>>

-----------------------------------------------------------------------------
(* Commit.                                                                 *)

CommitReadOnly(t) ==
    /\ pc[t] = "running" /\ ~must_abort[t] /\ undo[t] = <<>>
    /\ CheckOutTimestamp
    /\ finish_time' = [finish_time EXCEPT ![t] = time]
    /\ Goto(t, "commit_log")
    /\ UNCHANGED <<curr_running_txns, cached_oldest_txn_start_time, op, start_time,
                   must_abort, aborted, undo, slotVars, mgrVars>>

\* UpdatingCommitCriticalSection: close the gate ...
CommitLock(t) ==
    /\ pc[t] = "running" /\ ~must_abort[t] /\ undo[t] # <<>>
    /\ txn_gate' = txn_gate + 1
    /\ Goto(t, "commit_ts")
    /\ UNCHANGED <<tmVars, op, txnVars, undo, slotVars, completed_txns, loose_ptrs, history>>

\* A faulty variant: the finish time of the context, still the transaction's id,
\* in place of a fresh timestamp.
CommitWithId(t) ==
    /\ pc[t] = "commit_ts"
    /\ op' = [op EXCEPT ![t].ts = finish_time[t], ![t].idx = 1]
    /\ Goto(t, "commit_flip")
    /\ UNCHANGED <<tmVars, txnVars, undo, slotVars, mgrVars>>

\* ... take the commit time ...
CommitTimestamp(t) ==
    /\ pc[t] = "commit_ts"
    /\ CheckOutTimestamp
    /\ op' = [op EXCEPT ![t].ts = time, ![t].idx = 1]
    /\ history' = history \cup
         {[slot |-> s, ts |-> time, val |-> IF present[s] THEN val[s] ELSE NoTuple] : s \in Written(t)}
    /\ Goto(t, "commit_flip")
    /\ UNCHANGED <<curr_running_txns, cached_oldest_txn_start_time, txnVars, undo, slotVars,
                   txn_gate, completed_txns, loose_ptrs>>

\* A faulty variant: newest record first.
FlipNewestFirst(t) ==
    /\ op[t].idx <= Len(undo[t])
    /\ undo' = [undo EXCEPT ![t][Len(undo[t]) + 1 - op[t].idx].ts = op[t].ts]
    /\ op' = [op EXCEPT ![t].idx = @ + 1]
    /\ UNCHANGED <<pc, txnVars, slotVars, tmVars, mgrVars>>

\* ... and store it into every undo record, in the order of the undo buffer.
FlipRecord(t) ==
    /\ op[t].idx <= Len(undo[t])
    /\ undo' = [undo EXCEPT ![t][op[t].idx].ts = op[t].ts]
    /\ op' = [op EXCEPT ![t].idx = @ + 1]
    /\ UNCHANGED <<pc, txnVars, slotVars, tmVars, mgrVars>>

CommitFlip(t) == pc[t] = "commit_flip" /\ FlipRecord(t)

\* The gate opens when the critical section is left.
CommitUnlock(t) ==
    /\ pc[t] = "commit_flip" /\ op[t].idx > Len(undo[t])
    /\ txn_gate' = txn_gate - 1
    /\ finish_time' = [finish_time EXCEPT ![t] = op[t].ts]
    /\ op' = [op EXCEPT ![t] = NoOp]
    /\ Goto(t, "commit_log")
    /\ UNCHANGED <<tmVars, start_time, must_abort, aborted, undo, slotVars,
                   completed_txns, loose_ptrs, history>>

\* LogCommit without a log manager: the transaction leaves the running set.
CommitLog(t) ==
    /\ pc[t] = "commit_log"
    /\ RemoveTransaction(start_time[t])
    /\ Goto(t, "hand_off")
    /\ UNCHANGED <<time, cached_oldest_txn_start_time, op, txnVars, undo, slotVars, mgrVars>>

\* The last act of Commit and of Abort: hand the transaction to the collector.
HandOff(t) ==
    /\ pc[t] = "hand_off"
    /\ completed_txns' = <<t>> \o completed_txns
    /\ Goto(t, "finished")
    /\ UNCHANGED <<tmVars, op, txnVars, undo, slotVars, txn_gate, loose_ptrs, history>>

-----------------------------------------------------------------------------
(* Abort.                                                                  *)

AbortBegin(t) ==
    /\ pc[t] = "running"
    /\ AbortAfterRewrite \/ ~Rewritten(t)
    /\ op' = [op EXCEPT ![t] = [NoOp EXCEPT !.idx = 1]]
    /\ Goto(t, "abort_scan")
    /\ UNCHANGED <<tmVars, txnVars, undo, slotVars, mgrVars>>

\* The loop over the undo buffer: one Rollback per slot, none for a record that
\* was never installed.
AbortScan(t) ==
    LET i == op[t].idx
        r == undo[t][i]
        rolledBack == \E j \in 1 .. i - 1 : undo[t][j].slot = r.slot
    IN /\ pc[t] = "abort_scan" /\ i <= Len(undo[t])
       /\ IF rolledBack \/ ~r.table
          THEN op' = [op EXCEPT ![t].idx = i + 1] /\ UNCHANGED pc
          ELSE op' = [op EXCEPT ![t].ptr = ver[r.slot], ![t].cols = {}] /\ Goto(t, "abort_undo")
       /\ UNCHANGED <<tmVars, txnVars, undo, slotVars, mgrVars>>

\* Rollback has undone the record before p: on with p while it is this
\* transaction's, else back to the loop.
RollbackNext(t, p) ==
    IF p # Null /\ Rec(p).ts = finish_time[t]
    THEN /\ op' = [op EXCEPT ![t].ptr = p, ![t].cols = {}]
         /\ UNCHANGED pc
    ELSE /\ op' = [op EXCEPT ![t].ptr = Null, ![t].cols = {}, ![t].idx = @ + 1]
         /\ Goto(t, "abort_scan")

\* Rollback of an UPDATE, a column at a time (op[t].cols are done): the value in
\* place becomes a loose pointer and the before-image takes its place.
RollbackUpdate(t) ==
    LET r == Rec(op[t].ptr)
        c == Least(DOMAIN r.delta \ op[t].cols)
        done == op[t].cols \cup {c}
    IN /\ pc[t] = "abort_undo" /\ r.type = "UPDATE"
       /\ loose_ptrs' = [loose_ptrs EXCEPT ![t] = Append(@, Buffer(r.slot, c, val[r.slot][c]))]
       /\ val' = [val EXCEPT ![r.slot][c] = r.delta[c]]
       /\ IF done = DOMAIN r.delta THEN RollbackNext(t, r.next)
          ELSE op' = [op EXCEPT ![t].cols = done] /\ UNCHANGED pc
       /\ UNCHANGED <<tmVars, txnVars, undo, ver, alloc, present, txn_gate, completed_txns, history>>

\* Rollback of an INSERT gives the slot back, of a DELETE makes it present again.
RollbackInsertOrDelete(t) ==
    LET r == Rec(op[t].ptr)
        s == r.slot
        inserted == r.type = "INSERT"
    IN /\ pc[t] = "abort_undo" /\ r.type \in {"INSERT", "DELETE"}
       /\ loose_ptrs' = IF inserted
                        THEN [loose_ptrs EXCEPT ![t] = @ \o [c \in Cols |-> Buffer(s, c, val[s][c])]]
                        ELSE loose_ptrs
       /\ present' = [present EXCEPT ![s] = ~inserted]
       /\ alloc' = [alloc EXCEPT ![s] = @ /\ ~inserted]
       /\ RollbackNext(t, r.next)
       /\ UNCHANGED <<tmVars, txnVars, undo, ver, val, txn_gate, completed_txns, history>>

\* Only now the abort time, so that readers of the old values see no a-b-a.
AbortTimestamp(t) ==
    /\ pc[t] = "abort_scan" /\ op[t].idx > Len(undo[t])
    /\ CheckOutTimestamp
    /\ op' = [op EXCEPT ![t].ts = time, ![t].idx = 1]
    /\ Goto(t, "abort_flip")
    /\ UNCHANGED <<curr_running_txns, cached_oldest_txn_start_time, txnVars, undo, slotVars, mgrVars>>

AbortFlip(t) == pc[t] = "abort_flip" /\ FlipRecord(t)

\* GCLastUpdateOnAbort: the values of a last update that was never installed.
LastUpdateBuffers(t) ==
    IF undo[t] = <<>> \/ Rec(Last(t)).table THEN <<>>
    ELSE LET r == Rec(Last(t))
             F[C \in SUBSET DOMAIN r.delta] ==
                IF C = {} THEN <<>>
                ELSE <<Buffer(r.slot, Least(C), Last(t))>> \o F[C \ {Least(C)}]
         IN F[DOMAIN r.delta]

\* The finish time, the loose pointers, and LogAbort.
AbortFinish(t) ==
    /\ pc[t] = "abort_flip" /\ op[t].idx > Len(undo[t])
    /\ finish_time' = [finish_time EXCEPT ![t] = op[t].ts]
    /\ aborted' = [aborted EXCEPT ![t] = TRUE]
    /\ loose_ptrs' = [loose_ptrs EXCEPT ![t] = @ \o LastUpdateBuffers(t)]
    /\ RemoveTransaction(start_time[t])
    /\ op' = [op EXCEPT ![t] = NoOp]
    /\ Goto(t, "hand_off")
    /\ UNCHANGED <<time, cached_oldest_txn_start_time, start_time, must_abort, undo, slotVars,
                   txn_gate, completed_txns, history>>

-----------------------------------------------------------------------------
Init ==
    /\ TMInit
    /\ pc = [t \in Txns |-> "idle"]
    /\ op = [t \in Txns |-> NoOp]
    /\ start_time = [t \in Txns |-> 0]
    /\ finish_time = [t \in Txns |-> 0]
    /\ must_abort = [t \in Txns |-> FALSE]
    /\ aborted = [t \in Txns |-> FALSE]
    /\ undo = [t \in Txns |-> <<>>]
    /\ ver = [s \in Slots |-> Null]
    /\ alloc = [s \in Slots |-> s \in InitSlots]
    /\ present = [s \in Slots |-> s \in InitSlots]
    /\ val = [s \in Slots |-> [c \in Cols |-> InitVal]]
    /\ txn_gate = 0
    /\ completed_txns = <<>>
    /\ loose_ptrs = [t \in Txns |-> <<>>]
    /\ history = {[slot |-> s, ts |-> 0, val |-> val[s]] : s \in InitSlots}

\* A step of the thread that runs transaction t.
TxnStep(t) ==
    \/ Begin(t) \/ TraverseGate(t)
    \/ DTNext(t) /\ UNCHANGED <<tmVars, mgrVars>>
    \/ CommitReadOnly(t) \/ CommitLock(t) \/ CommitTimestamp(t) \/ CommitFlip(t)
    \/ CommitUnlock(t) \/ CommitLog(t)
    \/ AbortBegin(t) \/ AbortScan(t) \/ RollbackUpdate(t)
    \/ RollbackInsertOrDelete(t) \/ AbortTimestamp(t) \/ AbortFlip(t) \/ AbortFinish(t)
    \/ HandOff(t)

\* The modelled transactions are over.
AllFinished ==
    /\ \A t \in Txns : pc[t] = "finished"
    /\ UNCHANGED vars

Next == (\E t \in Txns : TxnStep(t)) \/ AllFinished

Spec == Init /\ [][Next]_vars

\* t's thread is inside a call, which it leaves if the scheduler lets it run.
\* What to call next, and whether to call anything, is the client's choice.
InCall(t) == pc[t] \notin {"idle", "running", "sel_done", "finished"}

-----------------------------------------------------------------------------
(* Properties.                                                             *)

\* The version of slot s that a snapshot at time ts holds.
VersionAt(s, ts) ==
    LET H == {h \in history : h.slot = s /\ h.ts <= ts}
    IN IF H = {} THEN NoTuple
       ELSE (CHOOSE h \in H : \A g \in H : g.ts <= h.ts).val

Status(t) ==
    CASE pc[t] = "idle" -> "idle"
      [] aborted[t] \/ pc[t] \in {"abort_scan", "abort_undo", "abort_flip"} -> "aborted"
      [] pc[t] \in {"commit_flip", "commit_log", "hand_off", "finished"} -> "committed"
      [] OTHER -> "active"

\* t has swung the version pointer but not finished writing in place.
InFlight(t, s) == pc[t] \in {"wr_apply", "ins_ptr", "ins_present", "ins_val"} /\ op[t].slot = s

\* Installed records of t on s, the one of an operation in flight excluded.
FinishedWrites(t, s) ==
    {i \in DOMAIN undo[t] :
        /\ undo[t][i].table /\ undo[t][i].slot = s
        /\ i = Len(undo[t]) =>
              pc[t] \notin {"wr_read", "wr_image", "wr_cas", "wr_apply", "ins_ptr", "ins_present", "ins_val"}}

WritesOf(t) ==
    [s \in {s \in Slots : Status(t) = "active" /\ FinishedWrites(t, s) # {}} |->
        IF InFlight(t, s) THEN ApplyDelta(Rec(Last(t)).delta, val[s])
        ELSE IF present[s] THEN val[s] ELSE NoTuple]

ResultOf(t) ==
    IF pc[t] # "sel_done" THEN Null
    ELSE IF op[t].kind = "ISVISIBLE" THEN [key |-> op[t].slot, exists |-> op[t].vis]
    ELSE [key |-> op[t].slot, value |-> IF op[t].vis THEN op[t].out ELSE NoTuple]

SI == INSTANCE SnapshotIsolation WITH
    Keys <- Slots,
    Values <- [Cols -> Vals] \cup {NoTuple},
    None <- Null,
    Initial <- [s \in Slots |-> IF s \in InitSlots THEN [c \in Cols |-> InitVal] ELSE NoTuple],
    store <- [s \in Slots |-> VersionAt(s, time)],
    status <- [t \in Txns |-> Status(t)],
    snapshot <- [t \in Txns |-> [s \in Slots |-> VersionAt(s, start_time[t])]],
    writes <- [t \in Txns |-> WritesOf(t)],
    stale <- [t \in Txns |-> {h.slot : h \in {h \in history :
                                 Status(t) = "active" /\ h.ts > start_time[t]}}],
    result <- [t \in Txns |-> ResultOf(t)]

\* BeginTransaction, Select, IsVisible, Insert, Update, Delete, Commit and Abort
\* give every caller snapshot isolation, whatever the threads' interleaving.
SnapshotIsolated == SI!SISpec

Labels ==
    {"idle", "begin", "running", "sel_ptr", "sel_copy", "sel_check", "sel_walk", "sel_done",
     "wr_read", "wr_image", "wr_cas", "wr_apply", "ins_ptr", "ins_present", "ins_val",
     "commit_ts", "commit_flip", "commit_log", "abort_scan", "abort_undo", "abort_flip",
     "hand_off", "finished"}

Images == UNION {[C -> Vals] : C \in SUBSET Cols}

Record == [type : {"INSERT", "UPDATE", "DELETE"}, slot : Slots, delta : Images,
           next : Ptrs \cup {Null}, ts : Timestamp, table : BOOLEAN]

Locals == [slot : Slots \cup {Null}, kind : {"SELECT", "ISVISIBLE", "INSERT", "UPDATE", "DELETE", Null},
           ptr : Ptrs \cup {Null}, cols : SUBSET Cols, out : Images, vis : BOOLEAN,
           idx : Nat, ts : Nat]

\* Every variable holds what its C++ counterpart can hold.
TypeOK ==
    /\ TMTypeOK
    /\ pc \in [Txns -> Labels] /\ op \in [Txns -> Locals]
    /\ start_time \in [Txns -> Nat] /\ finish_time \in [Txns -> Timestamp]
    /\ must_abort \in [Txns -> BOOLEAN] /\ aborted \in [Txns -> BOOLEAN]
    /\ undo \in [Txns -> Seq(Record)] /\ \A t \in Txns : Len(undo[t]) <= MaxUndo
    /\ ver \in [Slots -> Ptrs \cup {Null}]
    /\ alloc \in [Slots -> BOOLEAN] /\ present \in [Slots -> BOOLEAN]
    /\ val \in [Slots -> [Cols -> Vals]]
    /\ txn_gate \in Int

\* t has record i in the version chain of the record's slot.
Installed(t, i) ==
    /\ i \in DOMAIN undo[t] /\ undo[t][i].table
    /\ i = Len(undo[t]) => pc[t] \notin {"wr_read", "wr_image", "wr_cas", "ins_ptr"}

\* The version pointer is a write lock (data_table.cpp:102): as long as t has an
\* undo record in a chain that carries t's id, the head of that chain is t's and
\* carries the id too, so HasConflict keeps every other writer out.  The lock
\* must survive the loops that flip the records one by one.
WriteLockHeld ==
    \A t \in Txns : \A i \in DOMAIN undo[t] :
        Installed(t, i) /\ ~Committed(undo[t][i].ts) =>
            LET p == ver[undo[t][i].slot]
            IN p # Null /\ p[1] = t /\ ~Committed(Rec(p).ts)

\* The chain is newest-to-oldest sorted (garbage_collector.cpp:148).
ChainSorted ==
    \A t \in Txns : \A i \in DOMAIN undo[t] :
        Installed(t, i) /\ undo[t][i].next # Null =>
            ~NewerThan(Rec(undo[t][i].next).ts, undo[t][i].ts)

\* "Attempting to rollback on a TupleSlot where this txn does not hold the write
\* lock!" (transaction_manager.cpp:246): Rollback finds a record of its own
\* transaction at the head of the chain, whatever others tried in between.
RollbackHoldsLock ==
    \A t \in Txns : pc[t] = "abort_scan" /\ op[t].idx <= Len(undo[t]) =>
        LET r == undo[t][op[t].idx]
        IN r.table => ver[r.slot] # Null /\ Rec(ver[r.slot]).ts = finish_time[t]

\* t is about to write slot s in place.
WritesInPlace(t, s) ==
    \/ pc[t] \in {"wr_apply", "ins_present", "ins_val"} /\ op[t].slot = s
    \/ pc[t] = "abort_undo" /\ Rec(op[t].ptr).slot = s

\* Update, Delete, Insert and Rollback write tuples in place without a latch: no
\* two threads ever do so in the same slot, so no write is torn or lost.
InPlaceExclusive ==
    \A s \in Slots : \A t, u \in Txns : WritesInPlace(t, s) /\ WritesInPlace(u, s) => t = u

\* Whoever writes a tuple in place is alone, and a rollback has the write lock for it.
InPlaceWrites == InPlaceExclusive /\ RollbackHoldsLock

\* Every call returns: BeginTransaction gets through the gate, Select stops
\* retrying and walking, Update and Delete swing the pointer or find a conflict,
\* and Commit and Abort come to their ends.
CallsReturn == \A t \in Txns : InCall(t) ~> ~InCall(t)

\* "readers can never see the aborted version either way"
\* (transaction_manager.cpp:170): no Select returns a value that another
\* transaction wrote, unless that transaction has committed.
ReadersNeverSeeAborted ==
    \A t \in Txns :
        pc[t] = "sel_done" /\ op[t].kind = "SELECT" /\ op[t].vis =>
            \A c \in Cols : LET v == op[t].out[c]
                            IN v # InitVal /\ v[1] # t => Status(v[1]) = "committed"

-----------------------------------------------------------------------------
(* The inductive invariant behind WriteLockHeld and ChainSorted.           *)

Writing == {"wr_read", "wr_image", "wr_cas", "wr_apply", "ins_ptr", "ins_present", "ins_val"}
Flipping == {"commit_flip", "abort_flip"}
Over == {"commit_log", "hand_off", "finished"}

\* Clock values in use are in the past; start times, hence ids, are unique.
ClockInv ==
    \A t \in Txns : pc[t] # "idle" =>
        /\ start_time[t] < time
        /\ \A u \in Txns : u # t /\ pc[u] # "idle" => start_time[u] # start_time[t]
        /\ pc[t] \notin Over => finish_time[t] = TxnId(start_time[t])
        /\ pc[t] \in Over => finish_time[t] > start_time[t]
        /\ pc[t] \in Flipping => op[t].ts > start_time[t]
        /\ pc[t] \in Flipping \cup {"abort_scan", "abort_undo"} => op[t].idx > 0

\* The timestamp that record i of t carries.
TsOf(t, i) ==
    IF pc[t] \in Over THEN finish_time[t]
    ELSE IF pc[t] \in Flipping /\ i < op[t].idx THEN op[t].ts
    ELSE TxnId(start_time[t])

RecordInv ==
    \A t \in Txns :
        /\ pc[t] = "idle" => undo[t] = <<>>
        /\ \A i \in DOMAIN undo[t] : undo[t][i].ts = TsOf(t, i)
        /\ pc[t] \in Writing =>
              /\ undo[t] # <<>>
              /\ undo[t][Len(undo[t])].slot = op[t].slot /\ undo[t][Len(undo[t])].table
        /\ \A i \in DOMAIN undo[t] : undo[t][i].type = "UPDATE" => DOMAIN undo[t][i].delta # {}
        /\ pc[t] \in {"wr_read", "wr_image", "wr_cas"} =>
              op[t].cols = DOMAIN undo[t][Len(undo[t])].delta

\* p points to a record in the chain of s.
OnChain(p, s) == Installed(p[1], p[2]) /\ Rec(p).slot = s

\* What record i of t may have below it: an earlier record of t, or a version
\* that was committed when t began.
Below(t, i, p) ==
    IF p[1] = t THEN p[2] < i
    ELSE Committed(Rec(p).ts) /\ Rec(p).ts <= start_time[t]

\* The rollback of an update has columns left to restore.
Unfinished(r, cols) ==
    r.type = "UPDATE" => cols \subseteq DOMAIN r.delta /\ DOMAIN r.delta \ cols # {}

ChainInv ==
    /\ \A s \in Slots : ver[s] # Null => OnChain(ver[s], s)
    /\ \A t \in Txns : \A i \in DOMAIN undo[t] :
          undo[t][i].next # Null =>
              OnChain(undo[t][i].next, undo[t][i].slot) /\ Below(t, i, undo[t][i].next)
    /\ \A t \in Txns : pc[t] \in {"wr_image", "wr_cas"} /\ op[t].ptr # Null =>
          OnChain(op[t].ptr, op[t].slot) /\ Below(t, Len(undo[t]), op[t].ptr)
    /\ \A t \in Txns : pc[t] = "abort_undo" =>
          /\ op[t].ptr # Null /\ op[t].ptr[1] = t /\ Installed(t, op[t].ptr[2])
          /\ Unfinished(Rec(op[t].ptr), op[t].cols)

\* A reader holds pointers into the chain of the slot it reads.
ReadInv ==
    \A t \in Txns : pc[t] \in {"sel_ptr", "sel_copy", "sel_check", "sel_walk"} =>
        /\ op[t].slot \in Slots
        /\ pc[t] # "sel_ptr" /\ op[t].ptr # Null => OnChain(op[t].ptr, op[t].slot)

\* The head of the chain is the last of its owner's records, the last to flip.
LockInv ==
    \A t \in Txns : \A i \in DOMAIN undo[t] :
        Installed(t, i) /\ ~Committed(undo[t][i].ts) =>
            LET p == ver[undo[t][i].slot]
            IN p # Null /\ p[1] = t /\ p[2] >= i

\* Nobody else can install a record while an insert has yet to store its own,
\* because the tuple is not present.
InsertInv ==
    /\ \A u \in Txns : pc[u] = "ins_ptr" =>
          /\ ~present[op[u].slot]
          /\ \A t \in Txns : \A i \in DOMAIN undo[t] : Installed(t, i) => undo[t][i].slot # op[u].slot
          /\ \A t \in Txns \ {u} : pc[t] \in {"wr_image", "wr_cas", "ins_ptr"} => op[t].slot # op[u].slot
    /\ \A s \in Slots :
          (\A t \in Txns : \A i \in DOMAIN undo[t] : undo[t][i].slot # s) /\ ~alloc[s] => ~present[s]

LockingInv == TypeOK /\ ClockInv /\ RecordInv /\ ChainInv /\ ReadInv /\ LockInv /\ InsertInv
=============================================================================
