------------------------------- MODULE DataTable -------------------------------
(***************************************************************************)
(* storage::DataTable: tuples updated in place, each with a chain of undo  *)
(* records from the newest to the oldest version.  The pointer to the head *)
(* of the chain (the version pointer) is also the tuple's write lock: a    *)
(* transaction that has swung it to its own undo record owns the tuple     *)
(* until that record's timestamp becomes a commit or abort time.           *)
(*                                                                         *)
(* Select, IsVisible, Update, Delete and Insert run on any number of       *)
(* threads without latches, so each is a sequence of steps: one for every  *)
(* access to memory that another thread may change.  pc[t] says where the  *)
(* thread running transaction t stands, op[t] holds its local variables.   *)
(***************************************************************************)
EXTENDS TimestampManager, Sequences

CONSTANTS
    Txns,     \* transactions, each run by one thread
    Slots,    \* tuple slots
    NumCols,  \* columns of the table, the reserved ones excluded
    Ops,      \* Ops[t]: the operations that t calls
    MaxUndo,  \* bound: undo records per transaction
    Null,     \* nullptr
    InitVal   \* what the columns hold before the modelled part

ASSUME NumColsAssumption == NumCols \in Nat \ {0}
ASSUME MaxUndoAssumption == MaxUndo \in Nat
ASSUME NullAssumption == Null \notin Txns \X (1 .. MaxUndo)

VARIABLES
    pc, op,             \* control and local variables of each transaction
    start_time, finish_time, must_abort, aborted,  \* TransactionContext
    undo,               \* undo_buffer_: undo[t][i] is the i-th record of t
    ver,                \* version pointer of a slot: <<t, i>> or Null
    alloc, present,     \* allocated bit; not-null bit of the version column
    val                 \* the values in place, one per column

txnVars == <<start_time, finish_time, must_abort, aborted>>
slotVars == <<ver, alloc, present, val>>
tableVars == <<pc, op, txnVars, undo, slotVars>>

Cols == 1 .. NumCols
Ptrs == Txns \X (1 .. MaxUndo)
Vals == Ptrs \cup {InitVal}

-----------------------------------------------------------------------------
\* UndoRecord of a pointer.
Rec(p) == undo[p[1]][p[2]]

\* The record that transaction t created last, and a pointer to it.
Last(t) == <<t, Len(undo[t])>>

\* What t writes with its current operation: distinct for every write, as the
\* buffer of a variable-length value is.
NewVal(t) == Last(t)

NoOp == [slot |-> Null, kind |-> Null, ptr |-> Null, cols |-> {},
         out |-> [c \in {} |-> InitVal], vis |-> FALSE, idx |-> 0, ts |-> 0]

\* UndoRecord::InitializeInsert / InitializeDelete / InitializeUpdate: the
\* record starts with the owner's id as timestamp and no successor.  The delta
\* of an update has room for the updated columns, filled in later.
NewRecord(t, kind, s, cols) ==
    [type |-> kind, slot |-> s, delta |-> [c \in cols |-> InitVal], next |-> Null,
     ts |-> finish_time[t], table |-> TRUE]

Visible(s) == alloc[s] /\ present[s]

\* Faulty variants: only a commit since the start, or only an active writer, is
\* a conflict.
HasConflictCommittedOnly(t, p) ==
    p # Null /\ Committed(Rec(p).ts) /\ NewerThan(Rec(p).ts, start_time[t])

HasConflictActiveOnly(t, p) ==
    p # Null /\ ~Committed(Rec(p).ts) /\ Rec(p).ts # finish_time[t]

HasConflict(t, p) ==
    /\ p # Null
    /\ LET ts == Rec(p).ts
       IN \/ ~Committed(ts) /\ ts # finish_time[t]
          \/ Committed(ts) /\ NewerThan(ts, start_time[t])

\* A slot that Allocate has not handed out: the insert head of a block only
\* moves forward, so Insert never returns the same slot twice.
Fresh(s) == ~alloc[s] /\ \A t \in Txns : \A i \in DOMAIN undo[t] : undo[t][i].slot # s

Goto(t, label) == pc' = [pc EXCEPT ![t] = label]

Least(C) == CHOOSE c \in C : \A d \in C : c <= d
-----------------------------------------------------------------------------
(* Select and IsVisible (which copies nothing and skips the first check).  *)

SelectBegin(t, s, kind) ==
    /\ pc[t] = "running" /\ ~must_abort[t] /\ ~Fresh(s) /\ kind \in Ops[t]
    /\ op' = [op EXCEPT ![t] = [NoOp EXCEPT !.slot = s, !.kind = kind]]
    /\ Goto(t, IF kind = "SELECT" /\ ~alloc[s] THEN "sel_done" ELSE "sel_ptr")
    /\ UNCHANGED <<txnVars, undo, slotVars>>

\* Top of the do loop: load the version pointer.
SelectPtr(t) ==
    /\ pc[t] = "sel_ptr"
    /\ LET cols == IF op[t].kind = "SELECT" THEN Cols ELSE {}
       IN op' = [op EXCEPT ![t].ptr = ver[op[t].slot], ![t].cols = cols,
                           ![t].out = [c \in cols |-> InitVal]]
    /\ Goto(t, "sel_copy")
    /\ UNCHANGED <<txnVars, undo, slotVars>>

\* Copy the tuple in place, a column at a time.
SelectCopy(t) ==
    /\ pc[t] = "sel_copy" /\ op[t].cols # {}
    /\ LET c == Least(op[t].cols)
       IN op' = [op EXCEPT ![t].out[c] = val[op[t].slot][c], ![t].cols = @ \ {c}]
    /\ UNCHANGED <<pc, txnVars, undo, slotVars>>

SelectVisible(t) ==
    /\ pc[t] = "sel_copy" /\ op[t].cols = {}
    /\ op' = [op EXCEPT ![t].vis = Visible(op[t].slot)]
    /\ Goto(t, "sel_check")
    /\ UNCHANGED <<txnVars, undo, slotVars>>

\* Faulty variants: a reader waits for the writer of the head, and the version
\* pointer is not compared again.
SelectCheckWaits(t) ==
    /\ pc[t] = "sel_check"
    /\ LET p == op[t].ptr
       IN Goto(t, CASE ver[op[t].slot] # p -> "sel_ptr"
                    [] p = Null -> "sel_done"
                    [] Rec(p).ts = finish_time[t] -> "sel_done"
                    [] OTHER -> IF Committed(Rec(p).ts) THEN "sel_walk" ELSE "sel_ptr")
    /\ UNCHANGED <<op, txnVars, undo, slotVars>>

SelectCheckOnce(t) ==
    /\ pc[t] = "sel_check"
    /\ LET p == op[t].ptr
       IN Goto(t, IF p = Null THEN "sel_done" ELSE IF Rec(p).ts = finish_time[t] THEN "sel_done"
                  ELSE "sel_walk")
    /\ UNCHANGED <<op, txnVars, undo, slotVars>>

\* Bottom of the do loop: the version pointer must not have moved.  A nullptr or
\* a record of the reader itself ends the read, else the chain is walked.
SelectCheck(t) ==
    /\ pc[t] = "sel_check"
    /\ LET p == op[t].ptr
       IN Goto(t, CASE ver[op[t].slot] # p -> "sel_ptr"
                    [] p = Null -> "sel_done"
                    [] Rec(p).ts = finish_time[t] -> "sel_done"
                    [] OTHER -> "sel_walk")
    /\ UNCHANGED <<op, txnVars, undo, slotVars>>

ApplyDelta(delta, out) ==
    [c \in DOMAIN out |-> IF c \in DOMAIN delta THEN delta[c] ELSE out[c]]

\* Undo one record that is newer than the reader's snapshot.
SelectWalk(t) ==
    /\ pc[t] = "sel_walk"
    /\ LET p == op[t].ptr
           r == Rec(p)
       IN IF p = Null \/ ~NewerThan(r.ts, start_time[t])
          THEN Goto(t, "sel_done") /\ UNCHANGED op
          ELSE /\ op' = [op EXCEPT ![t].ptr = r.next,
                     ![t].out = IF r.type = "UPDATE" THEN ApplyDelta(r.delta, @) ELSE @,
                     ![t].vis = CASE r.type = "INSERT" -> FALSE
                                  [] r.type = "DELETE" -> TRUE
                                  [] OTHER -> @]
               /\ UNCHANGED pc
    /\ UNCHANGED <<txnVars, undo, slotVars>>

\* The caller takes the result.
SelectReturn(t) ==
    /\ pc[t] = "sel_done"
    /\ op' = [op EXCEPT ![t] = NoOp]
    /\ Goto(t, "running")
    /\ UNCHANGED <<txnVars, undo, slotVars>>

-----------------------------------------------------------------------------
(* Update of a non-empty set of columns, and Delete.                       *)

WriteBegin(t, s, kind, cols) ==
    /\ pc[t] = "running" /\ ~must_abort[t] /\ ~Fresh(s) /\ kind \in Ops[t]
    /\ Len(undo[t]) < MaxUndo
    /\ undo' = [undo EXCEPT ![t] = Append(@, NewRecord(t, kind, s, cols))]
    /\ op' = [op EXCEPT ![t] = [NoOp EXCEPT !.slot = s, !.kind = kind, !.cols = cols]]
    /\ Goto(t, "wr_read")
    /\ UNCHANGED <<txnVars, slotVars>>

\* Top of the do loop.  On a conflict the record is marked as never installed,
\* and SqlTable marks the transaction as one that must abort.
WriteRead(t) ==
    /\ pc[t] = "wr_read"
    /\ LET s == op[t].slot
           p == ver[s]
       IN IF HasConflict(t, p) \/ ~Visible(s)
          THEN /\ undo' = [undo EXCEPT ![t][Len(undo[t])].table = FALSE]
               /\ must_abort' = [must_abort EXCEPT ![t] = TRUE]
               /\ op' = [op EXCEPT ![t] = NoOp]
               /\ Goto(t, "running")
          ELSE /\ op' = [op EXCEPT ![t].ptr = p]
               /\ Goto(t, "wr_image")
               /\ UNCHANGED <<undo, must_abort>>
    /\ UNCHANGED <<start_time, finish_time, aborted, slotVars>>

\* The before-image of the updated columns and the link to the old head.  (One
\* step: the image counts only if the head has not moved when it is swung, and
\* nothing in place changes while the head stays.)
WriteImage(t) ==
    /\ pc[t] = "wr_image"
    /\ LET s == op[t].slot
           i == Len(undo[t])
       IN undo' = [undo EXCEPT ![t][i].delta = [c \in op[t].cols |-> val[s][c]],
                               ![t][i].next = op[t].ptr]
    /\ Goto(t, "wr_cas")
    /\ UNCHANGED <<op, txnVars, slotVars>>

CompareAndSwapVersionPtr(s, expected, desired) ==
    ver' = [ver EXCEPT ![s] = IF @ = expected THEN desired ELSE @]

WriteCAS(t) ==
    /\ pc[t] = "wr_cas"
    /\ LET s == op[t].slot
       IN /\ CompareAndSwapVersionPtr(s, op[t].ptr, Last(t))
          /\ Goto(t, IF ver[s] = op[t].ptr THEN "wr_apply" ELSE "wr_read")
    /\ UNCHANGED <<op, txnVars, undo, alloc, present, val>>

\* With the write lock held: change the columns in place, one at a time.
UpdateApply(t) ==
    /\ pc[t] = "wr_apply" /\ op[t].kind = "UPDATE"
    /\ LET c == Least(op[t].cols)
           rest == op[t].cols \ {c}
       IN /\ val' = [val EXCEPT ![op[t].slot][c] = NewVal(t)]
          /\ op' = [op EXCEPT ![t] = IF rest = {} THEN NoOp ELSE [@ EXCEPT !.cols = rest]]
          /\ Goto(t, IF rest = {} THEN "running" ELSE "wr_apply")
    /\ UNCHANGED <<txnVars, undo, ver, alloc, present>>

DeleteApply(t) ==
    /\ pc[t] = "wr_apply" /\ op[t].kind = "DELETE"
    /\ present' = [present EXCEPT ![op[t].slot] = FALSE]
    /\ op' = [op EXCEPT ![t] = NoOp]
    /\ Goto(t, "running")
    /\ UNCHANGED <<txnVars, undo, ver, alloc, val>>

-----------------------------------------------------------------------------
(* Insert into a slot that Allocate has just handed out (InsertInto).      *)

InsertBegin(t, s) ==
    /\ pc[t] = "running" /\ ~must_abort[t] /\ Fresh(s) /\ "INSERT" \in Ops[t]
    /\ Len(undo[t]) < MaxUndo
    /\ alloc' = [alloc EXCEPT ![s] = TRUE]
    /\ undo' = [undo EXCEPT ![t] = Append(@, NewRecord(t, "INSERT", s, {}))]
    /\ op' = [op EXCEPT ![t] = [NoOp EXCEPT !.slot = s, !.kind = "INSERT", !.cols = Cols]]
    /\ Goto(t, "ins_ptr")
    /\ UNCHANGED <<txnVars, ver, present, val>>

\* AtomicallyWriteVersionPtr: a blind store.
InsertPtr(t) ==
    /\ pc[t] = "ins_ptr"
    /\ ver' = [ver EXCEPT ![op[t].slot] = Last(t)]
    /\ Goto(t, "ins_present")
    /\ UNCHANGED <<op, txnVars, undo, alloc, present, val>>

InsertPresent(t) ==
    /\ pc[t] = "ins_present"
    /\ present' = [present EXCEPT ![op[t].slot] = TRUE]
    /\ Goto(t, "ins_val")
    /\ UNCHANGED <<op, txnVars, undo, ver, alloc, val>>

InsertVal(t) ==
    /\ pc[t] = "ins_val"
    /\ LET c == Least(op[t].cols)
           rest == op[t].cols \ {c}
       IN /\ val' = [val EXCEPT ![op[t].slot][c] = NewVal(t)]
          /\ op' = [op EXCEPT ![t] = IF rest = {} THEN NoOp ELSE [@ EXCEPT !.cols = rest]]
          /\ Goto(t, IF rest = {} THEN "running" ELSE "ins_val")
    /\ UNCHANGED <<txnVars, undo, ver, alloc, present>>

-----------------------------------------------------------------------------
DTNext(t) ==
    \/ \E s \in Slots :
          \/ \E kind \in {"SELECT", "ISVISIBLE"} : SelectBegin(t, s, kind)
          \/ \E cols \in (SUBSET Cols) \ {{}} : WriteBegin(t, s, "UPDATE", cols)
          \/ WriteBegin(t, s, "DELETE", {})
          \/ InsertBegin(t, s)
    \/ SelectPtr(t) \/ SelectCopy(t) \/ SelectVisible(t) \/ SelectCheck(t)
    \/ SelectWalk(t) \/ SelectReturn(t)
    \/ WriteRead(t) \/ WriteImage(t) \/ WriteCAS(t)
    \/ UpdateApply(t) \/ DeleteApply(t)
    \/ InsertPtr(t) \/ InsertPresent(t) \/ InsertVal(t)
=============================================================================
