------------------------------- MODULE Indexes --------------------------------
(* A unique index over a table with versions: InsertUnique, Delete and the   *)
(* key lookup of BwTreeIndex and HashIndex, and their use by transactions    *)
(* (src/include/storage/index/bwtree_index.h, hash_index.h, and              *)
(* src/execution/sql/storage_interface.cpp).                                 *)
(*                                                                           *)
(* The table is what DataTable promises: a slot is inserted once, may be     *)
(* deleted once, and its versions are seen by timestamp.  The containers     *)
(* (Bw-tree, cuckoo hash map) are external: one operation on the values of a *)
(* key is one step.                                                          *)
EXTENDS Integers, Sequences, FiniteSets

CONSTANTS
    IxTxns,         \* transactions, each of which runs once
    Keys,
    NumRows         \* slots that the table hands out

ASSUME IxAssumption == NumRows \in Nat /\ "nobody" \notin IxTxns /\ "aborted" \notin IxTxns

VARIABLES
    ixClock,        \* the timestamp manager's counter
    ixTxn,          \* ixTxn[t]: status, start time, must-abort flag and the statement in progress
    rows,           \* rows[s]: key, who inserted and deleted the slot, and the head of its versions
    entries,        \* entries[k]: the slots that the index holds for the key
    undoInsert,     \* undoInsert[t]: the abort actions, entries to erase
    onCommit,       \* onCommit[t]: the commit actions, entries to be erased by a deferred action
    deferredErase   \* deferred actions: [key, slot, time], oldest first

indexVars == <<ixClock, ixTxn, rows, entries, undoInsert, onCommit, deferredErase>>

Nothing == [by |-> "nobody", time |-> 0]
By(t) == [by |-> t, time |-> 0]
NewTxn == [status |-> "new", start |-> 0, must |-> FALSE, step |-> "idle", slot |-> 0]
Used == {s \in 1 .. NumRows : rows[s].inserted # Nothing}
IxRunning == {t \in IxTxns : ixTxn[t].status \in {"running", "committing", "aborting"}}

IxInit ==
    /\ ixClock = 1
    /\ ixTxn = [t \in IxTxns |-> NewTxn]
    /\ rows = [s \in 1 .. NumRows |-> [key |-> "none", inserted |-> Nothing, deleted |-> Nothing, head |-> Nothing]]
    /\ entries = [k \in Keys |-> {}]
    /\ undoInsert = [t \in IxTxns |-> {}] /\ onCommit = [t \in IxTxns |-> {}]
    /\ deferredErase = <<>>

-----------------------------------------------------------------------------
(* DataTable, as the index sees it. *)

SeenBy(t, stamp) == stamp.by = t \/ (stamp.time # 0 /\ stamp.time < ixTxn[t].start)

\* IsVisible: inserted, and not deleted, in the transaction's snapshot.
IsVisibleTo(t, s) == SeenBy(t, rows[s].inserted) /\ ~SeenBy(t, rows[s].deleted)

\* HasConflict: the newest version is another's, or ended (committed or aborted) after the
\* transaction began.
HasConflictWith(t, s) == ~SeenBy(t, rows[s].head)

\* ScanKey: the entries of the key that are visible.
ScanKey(t, k) == {s \in entries[k] : IsVisibleTo(t, s)}

\* ERASE_KEY_ACTION: the last value goes with its key, whichever slot it is.
EraseEntry(k, s) ==
    [entries EXCEPT ![k] = IF Cardinality(@) = 1 THEN {} ELSE @ \ {s}]

-----------------------------------------------------------------------------
(* Statements. *)

IxBegin(t) ==
    /\ ixTxn[t].status = "new"
    /\ ixTxn' = [ixTxn EXCEPT ![t] = [@ EXCEPT !.status = "running", !.start = ixClock]]
    /\ ixClock' = ixClock + 1
    /\ UNCHANGED <<rows, entries, undoInsert, onCommit, deferredErase>>

Idle(t) == ixTxn[t].status = "running" /\ ixTxn[t].step = "idle"

\* TableInsert takes a slot; slots are handed out in order.
TableInsert(t, k) ==
    /\ Idle(t) /\ ~ixTxn[t].must
    /\ \E s \in 1 .. NumRows :
        /\ Used = 1 .. s - 1
        /\ rows' = [rows EXCEPT ![s] = [key |-> k, inserted |-> By(t), deleted |-> Nothing, head |-> By(t)]]
        /\ ixTxn' = [ixTxn EXCEPT ![t].step = "insert", ![t].slot = s]
    /\ UNCHANGED <<ixClock, entries, undoInsert, onCommit, deferredErase>>

\* A faulty variant: only visible slots count.
InsertUniqueVisible(t) ==
    LET s == ixTxn[t].slot
        k == rows[s].key
        predicate(v) == IsVisibleTo(t, v)
        satisfied == \E v \in entries[k] : predicate(v)
    IN /\ ixTxn[t].status = "running" /\ ixTxn[t].step = "insert"
       /\ ixTxn' = [ixTxn EXCEPT ![t].step = "idle", ![t].must = @ \/ satisfied]
       /\ entries' = [entries EXCEPT ![k] = IF satisfied THEN @ ELSE @ \cup {s}]
       /\ undoInsert' = [undoInsert EXCEPT ![t] = IF satisfied THEN @ ELSE @ \cup {s}]
       /\ UNCHANGED <<ixClock, rows, onCommit, deferredErase>>

\* A faulty variant: the abort action is registered although nothing was inserted.
InsertUniqueUndone(t) ==
    LET s == ixTxn[t].slot
        k == rows[s].key
        predicate(v) == HasConflictWith(t, v) \/ IsVisibleTo(t, v)
        satisfied == \E v \in entries[k] : predicate(v)
    IN /\ ixTxn[t].status = "running" /\ ixTxn[t].step = "insert"
       /\ ixTxn' = [ixTxn EXCEPT ![t].step = "idle", ![t].must = @ \/ satisfied]
       /\ entries' = [entries EXCEPT ![k] = IF satisfied THEN @ ELSE @ \cup {s}]
       /\ undoInsert' = [undoInsert EXCEPT ![t] = @ \cup {s}]
       /\ UNCHANGED <<ixClock, rows, onCommit, deferredErase>>

\* InsertUnique: the predicate over the values of the key, the insertion and its abort action;
\* a transaction that violates the constraint must abort.
InsertUnique(t) ==
    LET s == ixTxn[t].slot
        k == rows[s].key
        predicate(v) == HasConflictWith(t, v) \/ IsVisibleTo(t, v)
        satisfied == \E v \in entries[k] : predicate(v)
    IN /\ ixTxn[t].status = "running" /\ ixTxn[t].step = "insert"
       /\ ixTxn' = [ixTxn EXCEPT ![t].step = "idle", ![t].must = @ \/ satisfied]
       /\ entries' = [entries EXCEPT ![k] = IF satisfied THEN @ ELSE @ \cup {s}]
       /\ undoInsert' = [undoInsert EXCEPT ![t] = IF satisfied THEN @ ELSE @ \cup {s}]
       /\ UNCHANGED <<ixClock, rows, onCommit, deferredErase>>

\* TableDelete of a slot that ScanKey found: a write-write conflict fails the transaction.
TableDelete(t, k) ==
    /\ Idle(t) /\ ~ixTxn[t].must
    /\ \E s \in ScanKey(t, k) :
        IF HasConflictWith(t, s)
        THEN ixTxn' = [ixTxn EXCEPT ![t].must = TRUE] /\ UNCHANGED rows
        ELSE /\ rows' = [rows EXCEPT ![s].deleted = By(t), ![s].head = By(t)]
             /\ ixTxn' = [ixTxn EXCEPT ![t].step = "delete", ![t].slot = s]
    /\ UNCHANGED <<ixClock, entries, undoInsert, onCommit, deferredErase>>

\* Delete registers a commit action that will register the deferred erasure.
IndexDelete(t) ==
    /\ ixTxn[t].status = "running" /\ ixTxn[t].step = "delete"
    /\ onCommit' = [onCommit EXCEPT ![t] = @ \cup {ixTxn[t].slot}]
    /\ ixTxn' = [ixTxn EXCEPT ![t].step = "idle"]
    /\ UNCHANGED <<ixClock, rows, entries, undoInsert, deferredErase>>

-----------------------------------------------------------------------------
(* Commit, abort and the deferred actions. *)

Stamped(stamp, t) == IF stamp = By(t) THEN [stamp EXCEPT !.time = ixClock] ELSE stamp

IxCommit(t) ==
    /\ Idle(t) /\ ~ixTxn[t].must
    /\ ixTxn' = [ixTxn EXCEPT ![t].status = "committing"]
    /\ rows' = [s \in 1 .. NumRows |->
           [rows[s] EXCEPT !.inserted = Stamped(@, t), !.deleted = Stamped(@, t), !.head = Stamped(@, t)]]
    /\ ixClock' = ixClock + 1
    /\ UNCHANGED <<entries, undoInsert, onCommit, deferredErase>>

\* One commit action: RegisterDeferredAction dates it with the current time.
IxCommitAction(t) ==
    /\ ixTxn[t].status = "committing"
    /\ \E s \in onCommit[t] :
        /\ onCommit' = [onCommit EXCEPT ![t] = @ \ {s}]
        /\ deferredErase' = Append(deferredErase, [slot |-> s, time |-> ixClock])
    /\ UNCHANGED <<ixClock, ixTxn, rows, entries, undoInsert>>

IxCommitted(t) ==
    /\ ixTxn[t].status = "committing" /\ onCommit[t] = {}
    /\ ixTxn' = [ixTxn EXCEPT ![t].status = "done"]
    /\ undoInsert' = [undoInsert EXCEPT ![t] = {}]
    /\ UNCHANGED <<ixClock, rows, entries, onCommit, deferredErase>>

\* Abort: the actions one by one, before anything is rolled back.
IxAbort(t) ==
    /\ Idle(t)
    /\ ixTxn' = [ixTxn EXCEPT ![t].status = "aborting"]
    /\ UNCHANGED <<ixClock, rows, entries, undoInsert, onCommit, deferredErase>>

IxAbortAction(t) ==
    /\ ixTxn[t].status = "aborting"
    /\ \E s \in undoInsert[t] :
        /\ undoInsert' = [undoInsert EXCEPT ![t] = @ \ {s}]
        /\ entries' = EraseEntry(rows[s].key, s)
    /\ UNCHANGED <<ixClock, ixTxn, rows, onCommit, deferredErase>>

\* The rollback: an insertion is undone for good (the slot is not used again here), and the
\* head carries the time of the abort.
IxRollback(t) ==
    /\ ixTxn[t].status = "aborting" /\ undoInsert[t] = {}
    /\ rows' = [s \in 1 .. NumRows |->
           [rows[s] EXCEPT !.inserted = IF @ = By(t) THEN By("aborted") ELSE @,
                           !.deleted = IF @ = By(t) THEN Nothing ELSE @,
                           !.head = IF @ = By(t) THEN [by |-> "aborted", time |-> ixClock] ELSE @]]
    /\ ixTxn' = [ixTxn EXCEPT ![t].status = "done"]
    /\ onCommit' = [onCommit EXCEPT ![t] = {}]
    /\ ixClock' = ixClock + 1
    /\ UNCHANGED <<entries, undoInsert, deferredErase>>

\* A faulty variant: the action does not wait for older transactions.
RunEraseAtOnce ==
    /\ deferredErase # <<>>
    /\ LET s == Head(deferredErase).slot IN entries' = EraseEntry(rows[s].key, s)
    /\ deferredErase' = Tail(deferredErase)
    /\ UNCHANGED <<ixClock, ixTxn, rows, undoInsert, onCommit>>

\* DeferredActionManager::Process, the action at the front: run once nobody older is running.
RunErase ==
    /\ deferredErase # <<>>
    /\ \A t \in IxRunning : ixTxn[t].start >= Head(deferredErase).time
    /\ LET s == Head(deferredErase).slot IN entries' = EraseEntry(rows[s].key, s)
    /\ deferredErase' = Tail(deferredErase)
    /\ UNCHANGED <<ixClock, ixTxn, rows, undoInsert, onCommit>>

IxStep(t) ==
    \/ IxBegin(t) \/ InsertUnique(t) \/ IndexDelete(t) \/ IxCommit(t) \/ IxCommitAction(t) \/ IxCommitted(t)
    \/ IxAbort(t) \/ IxAbortAction(t) \/ IxRollback(t)
    \/ \E k \in Keys : TableInsert(t, k) \/ TableDelete(t, k)

\* All transactions have ended and nothing is left to erase.
IxFinished ==
    /\ \A t \in IxTxns : ixTxn[t].status = "done"
    /\ deferredErase = <<>>
    /\ UNCHANGED indexVars

IxNext == RunErase \/ (\E t \in IxTxns : IxStep(t)) \/ IxFinished

IxSpec == IxInit /\ [][IxNext]_indexVars

-----------------------------------------------------------------------------
\* A unique index finds at most one visible slot for a key, in every snapshot: the assertion
\* of ScanKey, which rests on the predicate of InsertUnique.
UniqueInSnapshot == \A t \in IxRunning, k \in Keys : Cardinality(ScanKey(t, k)) <= 1

\* A running transaction finds through the index every slot that it sees: entries are erased
\* neither before nobody sees the slot (deferred deletes) nor by the abort of another.
IndexComplete ==
    \A t \in IxRunning, s \in Used :
        /\ ixTxn[t].status = "running" /\ ~ixTxn[t].must
        /\ ~(ixTxn[t].step = "insert" /\ ixTxn[t].slot = s)
        /\ IsVisibleTo(t, s)
        => s \in ScanKey(t, rows[s].key)

\* Every erasure that is still to come finds its entry, and there is one for it alone: the
\* assertions "Delete on the index failed" and "Deferred delete on the index failed".
ErasureFindsEntry ==
    LET deferredSlots == [i \in 1 .. Len(deferredErase) |-> deferredErase[i].slot] IN
    /\ \A t \in IxTxns : \A s \in undoInsert[t] : s \in entries[rows[s].key]
    /\ \A i \in 1 .. Len(deferredErase) :
        /\ deferredSlots[i] \in entries[rows[deferredSlots[i]].key]
        /\ \A j \in 1 .. Len(deferredErase) : i # j => deferredSlots[i] # deferredSlots[j]

\* When nothing is running and no action is pending, the index holds exactly the live slots.
QuietIndexExact ==
    IxRunning = {} /\ deferredErase = <<>> =>
        \A k \in Keys : entries[k] = {s \in Used : rows[s].key = k /\ rows[s].inserted.time # 0 /\ rows[s].deleted = Nothing}

\* The index holds an entry for every erasure that is to come, and none that should have
\* been erased.
EntriesExact == ErasureFindsEntry /\ QuietIndexExact
=============================================================================
