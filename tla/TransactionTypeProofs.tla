------------------------ MODULE TransactionTypeProofs ------------------------
(***************************************************************************)
(* Proofs about TransactionManager, for any number of transactions, slots, *)
(* columns and undo records.  Every step keeps the types, given the        *)
(* locking invariant (which pointers lead to a record depends on it); and  *)
(* what a step has to do for the version pointer to stay a write lock and  *)
(* for the version chains to stay sorted.                                  *)
(***************************************************************************)
EXTENDS TransactionManager, WellFoundedInduction, TLAPS

USE ZenonT(30)

-----------------------------------------------------------------------------
(* Facts about the operators.                                              *)

\* What a buffer of type Seq(S) is as a function.
LEMMA SeqDomain ==
    ASSUME NEW S, NEW q \in Seq(S)
    PROVE  /\ Len(q) \in Nat /\ DOMAIN q = 1 .. Len(q)
           /\ q \in [1 .. Len(q) -> S]
  BY SMTT(30)

\* The empty buffer.
LEMMA SeqEmpty ==
    ASSUME NEW S
    PROVE  <<>> \in Seq(S) /\ Len(<<>>) = 0
  BY SMTT(30)

\* Overwriting one element.
LEMMA SeqExcept ==
    ASSUME NEW S, NEW q \in Seq(S), NEW i \in 1 .. Len(q), NEW e \in S
    PROVE  /\ [q EXCEPT ![i] = e] \in Seq(S) /\ Len([q EXCEPT ![i] = e]) = Len(q)
           /\ \A j \in 1 .. Len(q) : [q EXCEPT ![i] = e][j] = IF j = i THEN e ELSE q[j]
  BY SMTT(30)

\* Adding an element at the end.
LEMMA SeqAppend ==
    ASSUME NEW S, NEW q \in Seq(S), NEW e \in S
    PROVE  /\ Append(q, e) \in Seq(S) /\ Len(Append(q, e)) = Len(q) + 1
           /\ \A j \in 1 .. Len(q) : Append(q, e)[j] = q[j]
           /\ Append(q, e)[Len(q) + 1] = e
  BY SMTT(30)

\* Least of a non-empty set of columns is one of them.
LEMMA LeastInSet ==
    ASSUME NEW C \in SUBSET Cols, C # {}
    PROVE  Least(C) \in C
<1>1. C \subseteq Nat
  BY NumColsAssumption, SMTT(30) DEF Cols
<1>2. PICK x \in C : \A y \in C : ~(<<y, x>> \in OpToRel(<, Nat))
  BY <1>1, WFMin, NatLessThanWellFounded
<1>3. OpToRel(<, Nat) = {ss \in Nat \X Nat : ss[1] < ss[2]}
  BY DEF OpToRel
<1>4. \A y \in C : ~(<<y, x>> \in {ss \in Nat \X Nat : ss[1] < ss[2]})
  BY <1>2, <1>3
<1>5. ASSUME NEW y \in C PROVE x <= y
  <2>1. x \in Nat /\ y \in Nat
    BY <1>1
  <2>2. ~(<<y, x>>[1] < <<y, x>>[2])
    BY <1>4, <2>1
  <2> QED BY <2>1, <2>2, SMTT(30)
<1> QED
  BY <1>5 DEF Least

\* A function from a set of columns to values is an image.
LEMMA ImageType ==
    /\ \A C \in SUBSET Cols : \A f \in [C -> Vals] : f \in Images
    /\ \A f \in Images : DOMAIN f \in SUBSET Cols /\ f \in [DOMAIN f -> Vals]
  BY DEF Images

\* A fresh set of local variables.
LEMMA NoOpType == NoOp \in Locals
<1>1. [c \in {} |-> InitVal] \in Images
  <2>1. [c \in {} |-> InitVal] \in [{} -> Vals]
    OBVIOUS
  <2> QED BY <2>1, ImageType
<1> QED
  BY <1>1 DEF NoOp, Locals

\* Overwriting record i of t changes nothing else in the undo buffers.
LEMMA UndoOverwrite ==
    ASSUME TypeOK, NEW t \in Txns, NEW i \in DOMAIN undo[t], NEW r \in Record,
           undo' = [undo EXCEPT ![t] = [undo[t] EXCEPT ![i] = r]]
    PROVE  /\ undo' \in [Txns -> Seq(Record)]
           /\ \A u \in Txns : Len(undo'[u]) = Len(undo[u]) /\ DOMAIN undo'[u] = DOMAIN undo[u]
           /\ \A u \in Txns : \A j \in DOMAIN undo[u] :
                 undo'[u][j] = IF u = t /\ j = i THEN r ELSE undo[u][j]
<1>1. undo \in [Txns -> Seq(Record)] /\ i \in 1 .. Len(undo[t])
  BY SMTT(30) DEF TypeOK
<1>2. /\ [undo[t] EXCEPT ![i] = r] \in Seq(Record)
      /\ Len([undo[t] EXCEPT ![i] = r]) = Len(undo[t])
      /\ \A j \in 1 .. Len(undo[t]) : [undo[t] EXCEPT ![i] = r][j] = IF j = i THEN r ELSE undo[t][j]
  BY <1>1, SeqExcept, SMTT(30)
<1>3. \A u \in Txns : undo'[u] = IF u = t THEN [undo[t] EXCEPT ![i] = r] ELSE undo[u]
  BY <1>1
<1> QED
  BY <1>1, <1>2, <1>3

\* Appending a record to t's buffer changes nothing else in the undo buffers.
LEMMA UndoAppend ==
    ASSUME TypeOK, NEW t \in Txns, NEW r \in Record,
           undo' = [undo EXCEPT ![t] = Append(@, r)]
    PROVE  /\ undo' \in [Txns -> Seq(Record)]
           /\ \A u \in Txns : Len(undo'[u]) = IF u = t THEN Len(undo[u]) + 1 ELSE Len(undo[u])
           /\ \A u \in Txns : DOMAIN undo'[u] = IF u = t THEN 1 .. (Len(undo[u]) + 1) ELSE DOMAIN undo[u]
           /\ \A u \in Txns : \A j \in DOMAIN undo[u] : undo'[u][j] = undo[u][j]
           /\ undo'[t][Len(undo[t]) + 1] = r
<1>1. undo \in [Txns -> Seq(Record)]
  BY DEF TypeOK
<1>2. /\ Append(undo[t], r) \in Seq(Record)
      /\ Len(Append(undo[t], r)) = Len(undo[t]) + 1
      /\ \A j \in 1 .. Len(undo[t]) : Append(undo[t], r)[j] = undo[t][j]
      /\ Append(undo[t], r)[Len(undo[t]) + 1] = r
  BY <1>1, SeqAppend, SMTT(30)
<1>3. \A u \in Txns : undo'[u] = IF u = t THEN Append(undo[t], r) ELSE undo[u]
  BY <1>1
<1> QED
  BY <1>1, <1>2, <1>3, SMTT(30)

\* The last record of a transaction that is writing, as a pointer and a value.
LEMMA LastType ==
    ASSUME TypeOK, RecordInv, NEW t \in Txns, pc[t] \in Writing
    PROVE  /\ Len(undo[t]) \in DOMAIN undo[t] /\ Len(undo[t]) \in 1 .. MaxUndo
           /\ Last(t) \in Ptrs /\ NewVal(t) \in Vals
<1>1. undo[t] \in Seq(Record) /\ undo[t] # <<>> /\ Len(undo[t]) <= MaxUndo
  BY DEF TypeOK, RecordInv
<1>2. Len(undo[t]) \in Nat \ {0}
  BY <1>1, SeqEmpty, SMTT(30)
<1> QED
  BY <1>1, <1>2, MaxUndoAssumption, SMTT(30) DEF Last, NewVal, Ptrs, Vals

-----------------------------------------------------------------------------
(* Type correctness of each step.                                          *)

\* A pointer to an installed record leads to one.
LEMMA RecordType ==
    ASSUME TypeOK, NEW p \in Ptrs, Installed(p[1], p[2])
    PROVE  Rec(p) \in Record
  BY SeqDomain, SMTT(30) DEF TypeOK, Installed, Rec, Ptrs

\* Local variables with another pointer, other columns or another time.
LEMMA LocalsUpdate ==
    ASSUME NEW o \in Locals
    PROVE  /\ \A p \in Ptrs \cup {Null} : [o EXCEPT !.ptr = p] \in Locals
           /\ \A c : [o EXCEPT !.cols = o.cols \ {c}] \in Locals
           /\ \A ts \in Nat : [o EXCEPT !.ts = ts, !.idx = 1] \in Locals
           /\ \A b \in BOOLEAN : [o EXCEPT !.vis = b] \in Locals
<1>1. o.cols \in SUBSET Cols
  BY DEF Locals
<1>2. \A p \in Ptrs \cup {Null} : [o EXCEPT !.ptr = p] \in Locals
  BY DEF Locals
<1>3. \A c : [o EXCEPT !.cols = o.cols \ {c}] \in Locals
  <2>1. ASSUME NEW C \in SUBSET Cols PROVE [o EXCEPT !.cols = C] \in Locals
    BY DEF Locals
  <2>2. \A c : o.cols \ {c} \in SUBSET Cols
    BY <1>1
  <2> QED BY <2>1, <2>2
<1>4. \A ts \in Nat : [o EXCEPT !.ts = ts, !.idx = 1] \in Locals
  <2>1. 1 \in Nat
    OBVIOUS
  <2> QED BY <2>1 DEF Locals
<1>5. \A b \in BOOLEAN : [o EXCEPT !.vis = b] \in Locals
  BY DEF Locals
<1> QED BY <1>2, <1>3, <1>4, <1>5

\* Local variables of a reader with another version of the tuple.
LEMMA ReaderUpdate ==
    ASSUME NEW o \in Locals, NEW out \in Images
    PROVE  /\ \A p \in Ptrs \cup {Null} : \A C \in SUBSET Cols :
                 [o EXCEPT !.ptr = p, !.cols = C, !.out = out] \in Locals
           /\ \A c : [o EXCEPT !.out = out, !.cols = o.cols \ {c}] \in Locals
<1>1. ASSUME NEW p \in Ptrs \cup {Null}, NEW C \in SUBSET Cols
      PROVE  [o EXCEPT !.ptr = p, !.cols = C, !.out = out] \in Locals
  BY DEF Locals
<1>2. ASSUME NEW C \in SUBSET Cols PROVE [o EXCEPT !.out = out, !.cols = C] \in Locals
  BY DEF Locals
<1>3. o.cols \in SUBSET Cols
  BY DEF Locals
<1>4. ASSUME NEW c PROVE [o EXCEPT !.out = out, !.cols = o.cols \ {c}] \in Locals
  <2>1. o.cols \ {c} \in SUBSET Cols
    BY <1>3
  <2> QED BY <1>2, <2>1
<1> QED BY <1>1, <1>4

\* Storing local variables.
LEMMA OpType ==
    ASSUME TypeOK, NEW t \in Txns, NEW o \in Locals, op' = [op EXCEPT ![t] = o]
    PROVE  op' \in [Txns -> Locals]
<1>1. op \in [Txns -> Locals]
  BY DEF TypeOK
<1> QED BY <1>1

\* Going on to another label.
LEMMA GotoType ==
    ASSUME TypeOK, NEW t \in Txns, NEW l \in Labels, Goto(t, l)
    PROVE  pc' \in [Txns -> Labels]
<1>1. pc \in [Txns -> Labels]
  BY DEF TypeOK
<1> QED BY <1>1 DEF Goto

\* A step of a thread on its local variables.
LEMMA LocalStepType ==
    ASSUME TypeOK, op' \in [Txns -> Locals], pc' \in [Txns -> Labels],
           UNCHANGED <<tmVars, txnVars, undo, slotVars, txn_gate>>
    PROVE  TypeOK'
<1> QED BY DEF TypeOK, TMTypeOK, tmVars, txnVars, slotVars

\* A step of a thread on its local variables and on a tuple.
LEMMA TupleStepType ==
    ASSUME TypeOK, op' \in [Txns -> Locals], pc' \in [Txns -> Labels],
           alloc' \in [Slots -> BOOLEAN], present' \in [Slots -> BOOLEAN],
           val' \in [Slots -> [Cols -> Vals]],
           UNCHANGED <<tmVars, txnVars, undo, ver, txn_gate>>
    PROVE  TypeOK'
<1> QED BY DEF TypeOK, TMTypeOK, tmVars, txnVars

\* Steps of Select and IsVisible.
LEMMA SelectType ==
    ASSUME LockingInv, NEW t \in Txns, UNCHANGED <<tmVars, mgrVars>>,
           \/ \E s \in Slots : \E kind \in {"SELECT", "ISVISIBLE"} : SelectBegin(t, s, kind)
           \/ SelectPtr(t) \/ SelectCopy(t) \/ SelectVisible(t) \/ SelectCheck(t)
           \/ SelectWalk(t) \/ SelectReturn(t)
    PROVE  TypeOK'
<1>0. TypeOK
  BY DEF LockingInv
<1> USE NoOpType DEF LockingInv, TypeOK, TMTypeOK, Goto, txnVars, slotVars, tmVars, mgrVars
<1>1. ASSUME NEW s \in Slots, NEW kind \in {"SELECT", "ISVISIBLE"}, SelectBegin(t, s, kind) PROVE TypeOK'
  BY <1>1 DEF SelectBegin, Labels, Locals
<1>2. CASE SelectPtr(t)
  <2> DEFINE cols == IF op[t].kind = "SELECT" THEN Cols ELSE {}
         q == ver[op[t].slot]
         out == [c \in cols |-> InitVal]
  <2>1. op' = [op EXCEPT ![t] = [op[t] EXCEPT !.ptr = q, !.cols = cols, !.out = out]]
    BY <1>2 DEF SelectPtr
  <2>2. q \in Ptrs \cup {Null}
    BY <1>2 DEF SelectPtr, ReadInv
  <2>3. cols \in SUBSET Cols /\ out \in Images
    <3>1. out \in [cols -> Vals]
      BY DEF Vals
    <3> QED BY <3>1, ImageType
  <2> HIDE DEF cols, q, out
  <2>4. [op[t] EXCEPT !.ptr = q, !.cols = cols, !.out = out] \in Locals
    <3>1. op[t] \in Locals
      OBVIOUS
    <3> HIDE DEF LockingInv, TypeOK, TMTypeOK
    <3> QED BY <2>2, <2>3, <3>1, ReaderUpdate
  <2> HIDE DEF LockingInv, TypeOK, TMTypeOK
  <2>5. op' \in [Txns -> Locals]
    BY <1>0, <2>1, <2>4, OpType
  <2>6. pc' \in [Txns -> Labels]
    BY <1>0, <1>2, GotoType DEF SelectPtr, Labels
  <2> QED BY <1>0, <1>2, <2>5, <2>6, LocalStepType DEF SelectPtr
<1>3. CASE SelectCopy(t)
  <2> DEFINE c == Least(op[t].cols)
             out == [op[t].out EXCEPT ![c] = val[op[t].slot][c]]
  <2>1. c \in Cols /\ op[t].slot \in Slots
    BY <1>3, LeastInSet DEF SelectCopy, ReadInv, Locals
  <2>2. val[op[t].slot][c] \in Vals
    BY <2>1
  <2>3. out \in Images
    <3>1. op[t].out \in Images BY DEF Locals
    <3>2. out \in [DOMAIN op[t].out -> Vals]
      BY <2>2, <3>1, ImageType
    <3> QED BY <3>1, <3>2, ImageType
  <2>4. op' = [op EXCEPT ![t] = [op[t] EXCEPT !.out = out, !.cols = op[t].cols \ {c}]]
    BY <1>3 DEF SelectCopy
  <2> HIDE DEF c, out
  <2>5. [op[t] EXCEPT !.out = out, !.cols = op[t].cols \ {c}] \in Locals
    <3>1. op[t] \in Locals
      OBVIOUS
    <3> HIDE DEF LockingInv, TypeOK, TMTypeOK
    <3> QED BY <2>3, <3>1, ReaderUpdate
  <2>6. pc' \in [Txns -> Labels]
    BY <1>3 DEF SelectCopy
  <2> HIDE DEF LockingInv, TypeOK, TMTypeOK
  <2>7. op' \in [Txns -> Locals]
    BY <1>0, <2>4, <2>5, OpType
  <2> QED BY <1>0, <1>3, <2>6, <2>7, LocalStepType DEF SelectCopy
<1>4. CASE SelectVisible(t)
  <2>1. op[t] \in Locals
    OBVIOUS
  <2> HIDE DEF LockingInv, TypeOK, TMTypeOK, Goto
  <2>2. [op[t] EXCEPT !.vis = Visible(op[t].slot)] \in Locals
    BY <2>1, LocalsUpdate DEF Visible
  <2>3. op' \in [Txns -> Locals]
    BY <1>0, <1>4, <2>2, OpType DEF SelectVisible
  <2>4. pc' \in [Txns -> Labels]
    BY <1>0, <1>4, GotoType DEF SelectVisible, Labels
  <2> QED BY <1>0, <1>4, <2>3, <2>4, LocalStepType DEF SelectVisible
<1>5. CASE SelectCheck(t)
  <2>1. op' \in [Txns -> Locals] /\ pc \in [Txns -> Labels]
    BY <1>5 DEF SelectCheck
  <2> HIDE DEF LockingInv, TypeOK, TMTypeOK
  <2>2. pc' \in [Txns -> Labels]
    BY <1>5, <2>1 DEF SelectCheck, Labels
  <2> QED BY <1>0, <1>5, <2>1, <2>2, LocalStepType DEF SelectCheck
<1>6. CASE SelectWalk(t)
  <2> DEFINE p == op[t].ptr
             r == Rec(p)
  <2>1. CASE p = Null \/ ~NewerThan(r.ts, start_time[t])
    BY <1>6, <2>1 DEF SelectWalk, Labels
  <2>2. CASE ~(p = Null \/ ~NewerThan(r.ts, start_time[t]))
    <3>1. r \in Record
      BY <1>6, <2>2, RecordType DEF SelectWalk, ReadInv, OnChain, Locals
    <3> DEFINE out == IF r.type = "UPDATE" THEN ApplyDelta(r.delta, op[t].out) ELSE op[t].out
               vis == CASE r.type = "INSERT" -> FALSE [] r.type = "DELETE" -> TRUE [] OTHER -> op[t].vis
    <3>2. out \in Images
      <4>1. op[t].out \in Images /\ r.delta \in Images BY <3>1 DEF Locals, Record
      <4>2. ApplyDelta(r.delta, op[t].out) \in [DOMAIN op[t].out -> Vals]
        BY <4>1, ImageType, SMTT(30) DEF ApplyDelta
      <4> QED BY <4>1, <4>2, ImageType
    <3>3. vis \in BOOLEAN
      BY <3>1 DEF Locals, Record
    <3>4. op' = [op EXCEPT ![t] = [op[t] EXCEPT !.ptr = r.next, !.out = out, !.vis = vis]] /\ UNCHANGED pc
      BY <1>6, <2>2 DEF SelectWalk
    <3> HIDE DEF out, vis
    <3>5. [op[t] EXCEPT !.ptr = r.next, !.out = out, !.vis = vis] \in Locals
      BY <3>1, <3>2, <3>3 DEF Locals, Record
    <3>6. pc' \in [Txns -> Labels]
      BY <3>4
    <3> HIDE DEF LockingInv, TypeOK, TMTypeOK, r
    <3>7. op' \in [Txns -> Locals]
      BY <1>0, <3>4, <3>5, OpType
    <3> QED BY <1>0, <1>6, <3>6, <3>7, LocalStepType DEF SelectWalk
  <2> QED BY <2>1, <2>2
<1>7. CASE SelectReturn(t)
  <2> HIDE DEF LockingInv, TypeOK, TMTypeOK
  <2>1. op' \in [Txns -> Locals]
    BY <1>0, <1>7, OpType DEF SelectReturn
  <2>2. pc' \in [Txns -> Labels]
    BY <1>0, <1>7, GotoType DEF SelectReturn, Labels
  <2> QED BY <1>0, <1>7, <2>1, <2>2, LocalStepType DEF SelectReturn
<1> HIDE DEF LockingInv, TypeOK
<1> QED
  BY <1>1, <1>2, <1>3, <1>4, <1>5, <1>6, <1>7

\* A new undo record.
LEMMA NewRecordType ==
    ASSUME TypeOK, NEW t \in Txns, NEW s \in Slots, NEW kind \in {"INSERT", "UPDATE", "DELETE"},
           NEW cols \in SUBSET Cols
    PROVE  NewRecord(t, kind, s, cols) \in Record
<1>1. [c \in cols |-> InitVal] \in [cols -> Vals]
  BY DEF Vals
<1>2. [c \in cols |-> InitVal] \in Images
  BY <1>1, ImageType
<1> QED
  BY <1>2 DEF TypeOK, NewRecord, Record

\* The slot that a transaction is writing to.
LEMMA LastSlot ==
    ASSUME TypeOK, RecordInv, NEW t \in Txns, pc[t] \in Writing
    PROVE  op[t].slot \in Slots
<1>1. undo[t][Len(undo[t])] \in Record
  BY LastType, SeqDomain, SMTT(30) DEF TypeOK
<1> QED
  BY <1>1 DEF RecordInv, Record

\* Steps of Update and Delete.
LEMMA WriteType ==
    ASSUME LockingInv, NEW t \in Txns, UNCHANGED <<tmVars, mgrVars>>,
           \/ \E s \in Slots : \E cols \in (SUBSET Cols) \ {{}} : WriteBegin(t, s, "UPDATE", cols)
           \/ \E s \in Slots : WriteBegin(t, s, "DELETE", {})
           \/ WriteRead(t) \/ WriteImage(t) \/ WriteCAS(t) \/ UpdateApply(t) \/ DeleteApply(t)
    PROVE  TypeOK'
<1>0. TypeOK
  BY DEF LockingInv
<1> USE NoOpType DEF LockingInv, TypeOK, TMTypeOK, Goto, txnVars, slotVars, tmVars, mgrVars
<1>1. ASSUME NEW s \in Slots, NEW kind \in {"UPDATE", "DELETE"}, NEW cols \in SUBSET Cols,
             WriteBegin(t, s, kind, cols)
      PROVE  TypeOK'
  <2>1. NewRecord(t, kind, s, cols) \in Record
    BY NewRecordType
  <2>2. /\ undo' \in [Txns -> Seq(Record)]
        /\ \A u \in Txns : Len(undo'[u]) = IF u = t THEN Len(undo[u]) + 1 ELSE Len(undo[u])
    BY <1>1, <2>1, UndoAppend DEF WriteBegin
  <2>3. \A u \in Txns : Len(undo'[u]) <= MaxUndo
    <3>1. Len(undo[t]) \in Nat /\ Len(undo[t]) < MaxUndo
      BY <1>1, SeqDomain DEF WriteBegin
    <3> QED BY <2>2, <3>1, MaxUndoAssumption, SMTT(30)
  <2>4. [NoOp EXCEPT !.slot = s, !.kind = kind, !.cols = cols] \in Locals
    BY DEF Locals
  <2> QED BY <1>1, <2>2, <2>3, <2>4 DEF WriteBegin, Labels
<1>2. CASE WriteRead(t)
  <2> DEFINE i == Len(undo[t])
             r == [undo[t][i] EXCEPT !.table = FALSE]
  <2>1. i \in DOMAIN undo[t] /\ op[t].slot \in Slots
    BY <1>2, LastType, LastSlot DEF WriteRead, Writing
  <2>2. r \in Record
    <3>1. undo[t][i] \in Record BY <2>1, SeqDomain, SMTT(30)
    <3> HIDE DEF i
    <3> QED BY <3>1 DEF Record
  <2>3. CASE HasConflict(t, ver[op[t].slot]) \/ ~Visible(op[t].slot)
    <3>1. undo' = [undo EXCEPT ![t] = [undo[t] EXCEPT ![i] = r]]
      BY <1>2, <2>3 DEF WriteRead
    <3>2. undo' \in [Txns -> Seq(Record)] /\ \A u \in Txns : Len(undo'[u]) <= MaxUndo
      BY <2>1, <2>2, <3>1, UndoOverwrite
    <3> QED BY <1>2, <2>3, <3>2 DEF WriteRead, Labels
  <2>4. CASE ~(HasConflict(t, ver[op[t].slot]) \/ ~Visible(op[t].slot))
    <3>1. op' = [op EXCEPT ![t] = [op[t] EXCEPT !.ptr = ver[op[t].slot]]]
      BY <1>2, <2>4 DEF WriteRead
    <3>o. op[t] \in Locals /\ ver[op[t].slot] \in Ptrs \cup {Null}
      BY <2>1
    <3>2. [op[t] EXCEPT !.ptr = ver[op[t].slot]] \in Locals
      <4> HIDE DEF LockingInv, TypeOK, TMTypeOK
      <4> QED BY <3>o, LocalsUpdate
    <3> QED BY <1>2, <2>4, <3>1, <3>2 DEF WriteRead, Labels
  <2> QED BY <2>3, <2>4
<1>3. CASE WriteImage(t)
  <2> DEFINE i == Len(undo[t])
             image == [c \in op[t].cols |-> val[op[t].slot][c]]
             r == [undo[t][i] EXCEPT !.delta = image, !.next = op[t].ptr]
  <2>1. i \in DOMAIN undo[t] /\ op[t].slot \in Slots
    BY <1>3, LastType, LastSlot DEF WriteImage, Writing
  <2>2. image \in Images
    <3>1. image \in [op[t].cols -> Vals] /\ op[t].cols \in SUBSET Cols
      BY <2>1, SMTT(30) DEF Locals
    <3> QED BY <3>1, ImageType
  <2>3. undo' = [undo EXCEPT ![t] = [undo[t] EXCEPT ![i] = r]]
    BY <1>3 DEF WriteImage
  <2> HIDE DEF image
  <2>4. r \in Record
    <3>1. undo[t][i] \in Record /\ op[t].ptr \in Ptrs \cup {Null} BY <2>1, SeqDomain, SMTT(30) DEF Locals
    <3> HIDE DEF i
    <3> QED BY <2>2, <3>1 DEF Record
  <2>5. undo' \in [Txns -> Seq(Record)] /\ \A u \in Txns : Len(undo'[u]) <= MaxUndo
    BY <2>1, <2>3, <2>4, UndoOverwrite
  <2>6. pc' \in [Txns -> Labels] /\ op' \in [Txns -> Locals]
    BY <1>3 DEF WriteImage, Labels
  <2> HIDE DEF i, r
  <2> QED BY <1>3, <2>5, <2>6 DEF WriteImage
<1>4. CASE WriteCAS(t)
  <2>1. op[t].slot \in Slots /\ Last(t) \in Ptrs
    BY <1>4, LastType, LastSlot DEF WriteCAS, Writing
  <2> QED BY <1>4, <2>1 DEF WriteCAS, CompareAndSwapVersionPtr, Labels
<1>5. CASE UpdateApply(t)
  <2>1. op[t].slot \in Slots /\ NewVal(t) \in Vals
    BY <1>5, LastType, LastSlot DEF UpdateApply, Writing
  <2>2. val' \in [Slots -> [Cols -> Vals]]
    BY <1>5, <2>1 DEF UpdateApply
  <2> DEFINE rest == op[t].cols \ {Least(op[t].cols)}
  <2>o. op[t] \in Locals
    OBVIOUS
  <2>3. [op[t] EXCEPT !.cols = rest] \in Locals
    <3> HIDE DEF LockingInv, TypeOK, TMTypeOK
    <3> QED BY <2>o, LocalsUpdate
  <2>4. op' = [op EXCEPT ![t] = IF rest = {} THEN NoOp ELSE [op[t] EXCEPT !.cols = rest]]
    BY <1>5 DEF UpdateApply
  <2>5. pc' = [pc EXCEPT ![t] = IF rest = {} THEN "running" ELSE "wr_apply"]
    BY <1>5 DEF UpdateApply
  <2> HIDE DEF rest
  <2>6. op' \in [Txns -> Locals] /\ pc' \in [Txns -> Labels]
    BY <2>3, <2>4, <2>5 DEF Labels
  <2>7. alloc' \in [Slots -> BOOLEAN] /\ present' \in [Slots -> BOOLEAN]
    BY <1>5 DEF UpdateApply
  <2> HIDE DEF LockingInv, TypeOK, TMTypeOK
  <2> QED BY <1>0, <1>5, <2>2, <2>6, <2>7, TupleStepType DEF UpdateApply
<1>6. CASE DeleteApply(t)
  BY <1>6 DEF DeleteApply, Labels
<1> HIDE DEF LockingInv, TypeOK
<1> QED
  BY <1>1, <1>2, <1>3, <1>4, <1>5, <1>6, SMTT(30)

\* Steps of Insert.
LEMMA InsertType ==
    ASSUME LockingInv, NEW t \in Txns, UNCHANGED <<tmVars, mgrVars>>,
           \/ \E s \in Slots : InsertBegin(t, s)
           \/ InsertPtr(t) \/ InsertPresent(t) \/ InsertVal(t)
    PROVE  TypeOK'
<1>0. TypeOK
  BY DEF LockingInv
<1> USE NoOpType DEF LockingInv, TypeOK, TMTypeOK, Goto, txnVars, slotVars, tmVars, mgrVars
<1>1. ASSUME NEW s \in Slots, InsertBegin(t, s) PROVE TypeOK'
  <2>1. NewRecord(t, "INSERT", s, {}) \in Record
    BY NewRecordType
  <2>2. /\ undo' \in [Txns -> Seq(Record)]
        /\ \A u \in Txns : Len(undo'[u]) = IF u = t THEN Len(undo[u]) + 1 ELSE Len(undo[u])
    BY <1>1, <2>1, UndoAppend DEF InsertBegin
  <2>3. \A u \in Txns : Len(undo'[u]) <= MaxUndo
    <3>1. Len(undo[t]) \in Nat /\ Len(undo[t]) < MaxUndo
      BY <1>1, SeqDomain DEF InsertBegin
    <3> QED BY <2>2, <3>1, MaxUndoAssumption, SMTT(30)
  <2>4. [NoOp EXCEPT !.slot = s, !.kind = "INSERT", !.cols = Cols] \in Locals
    BY DEF Locals
  <2> QED BY <1>1, <2>2, <2>3, <2>4 DEF InsertBegin, Labels
<1>2. CASE InsertPtr(t)
  <2>1. Last(t) \in Ptrs
    BY <1>2, LastType DEF InsertPtr, Writing
  <2> QED BY <1>2, <2>1 DEF InsertPtr, Labels
<1>3. CASE InsertPresent(t)
  BY <1>3 DEF InsertPresent, Labels
<1>4. CASE InsertVal(t)
  <2>1. op[t].slot \in Slots /\ NewVal(t) \in Vals
    BY <1>4, LastType, LastSlot DEF InsertVal, Writing
  <2>2. val' \in [Slots -> [Cols -> Vals]]
    BY <1>4, <2>1 DEF InsertVal
  <2> DEFINE rest == op[t].cols \ {Least(op[t].cols)}
  <2>o. op[t] \in Locals
    OBVIOUS
  <2>3. [op[t] EXCEPT !.cols = rest] \in Locals
    <3> HIDE DEF LockingInv, TypeOK, TMTypeOK
    <3> QED BY <2>o, LocalsUpdate
  <2>4. op' = [op EXCEPT ![t] = IF rest = {} THEN NoOp ELSE [op[t] EXCEPT !.cols = rest]]
    BY <1>4 DEF InsertVal
  <2>5. pc' = [pc EXCEPT ![t] = IF rest = {} THEN "running" ELSE "ins_val"]
    BY <1>4 DEF InsertVal
  <2> HIDE DEF rest
  <2>6. op' \in [Txns -> Locals] /\ pc' \in [Txns -> Labels]
    BY <2>3, <2>4, <2>5 DEF Labels
  <2>7. alloc' \in [Slots -> BOOLEAN] /\ present' \in [Slots -> BOOLEAN]
    BY <1>4 DEF InsertVal
  <2> HIDE DEF LockingInv, TypeOK, TMTypeOK
  <2> QED BY <1>0, <1>4, <2>2, <2>6, <2>7, TupleStepType DEF InsertVal
<1> HIDE DEF LockingInv, TypeOK
<1> QED
  BY <1>1, <1>2, <1>3, <1>4

\* Steps of BeginTransaction and Commit, and the hand-off.
LEMMA BeginCommitType ==
    ASSUME LockingInv, NEW t \in Txns,
           \/ Begin(t) \/ TraverseGate(t) \/ CommitReadOnly(t) \/ CommitLock(t)
           \/ CommitTimestamp(t) \/ CommitUnlock(t) \/ CommitLog(t) \/ HandOff(t)
    PROVE  TypeOK'
<1> USE NoOpType DEF LockingInv, TypeOK, TMTypeOK, Goto, txnVars, slotVars, tmVars, mgrVars, Timestamp
<1>1. CASE Begin(t)
  BY <1>1, SMTT(30) DEF Begin, BeginTimestamp, CheckOutTimestamp, TxnId, Labels
<1>2. CASE TraverseGate(t)
  BY <1>2 DEF TraverseGate, Labels
<1>3. CASE CommitReadOnly(t)
  BY <1>3, SMTT(30) DEF CommitReadOnly, CheckOutTimestamp, Labels
<1>4. CASE CommitLock(t)
  BY <1>4, SMTT(30) DEF CommitLock, Labels
<1>5. CASE CommitTimestamp(t)
  <2>o. op[t] \in Locals /\ time \in Nat
    OBVIOUS
  <2>1. [op[t] EXCEPT !.ts = time, !.idx = 1] \in Locals
    <3> HIDE DEF LockingInv, TypeOK, TMTypeOK
    <3> QED BY <2>o, LocalsUpdate
  <2>2. op' = [op EXCEPT ![t] = [op[t] EXCEPT !.ts = time, !.idx = 1]]
    BY <1>5 DEF CommitTimestamp
  <2> QED BY <1>5, <2>1, <2>2, SMTT(30) DEF CommitTimestamp, CheckOutTimestamp, Labels
<1>6. CASE CommitUnlock(t)
  <2>1. op[t].ts \in Int
    BY SMTT(30) DEF Locals
  <2> QED BY <1>6, <2>1, SMTT(30) DEF CommitUnlock, Labels
<1>7. CASE CommitLog(t)
  BY <1>7 DEF CommitLog, RemoveTransaction, Labels
<1>8. CASE HandOff(t)
  BY <1>8 DEF HandOff, Labels
<1> HIDE DEF LockingInv, TypeOK
<1> QED
  BY <1>1, <1>2, <1>3, <1>4, <1>5, <1>6, <1>7, <1>8

\* A record with another timestamp is a record.
LEMMA RedatedType ==
    ASSUME NEW r \in Record, NEW ts \in Nat
    PROVE  [r EXCEPT !.ts = ts] \in Record
  BY SMTT(30) DEF Record, Timestamp

\* Local variables with another loop index are local variables.
LEMMA AdvancedType ==
    ASSUME NEW o \in Locals, NEW i \in Nat
    PROVE  [o EXCEPT !.idx = i + 1] \in Locals
  BY SMTT(30) DEF Locals

\* The step that stores a commit or abort time into a record.
LEMMA FlipType ==
    ASSUME LockingInv, NEW t \in Txns, pc[t] \in Flipping, FlipRecord(t)
    PROVE  /\ TypeOK'
           /\ op[t].idx \in DOMAIN undo[t]
           /\ undo' = [undo EXCEPT ![t] = [undo[t] EXCEPT ![op[t].idx] = [undo[t][op[t].idx] EXCEPT !.ts = op[t].ts]]]
           /\ [undo[t][op[t].idx] EXCEPT !.ts = op[t].ts] \in Record
<1> USE DEF LockingInv, TypeOK, TMTypeOK, Goto, txnVars, slotVars, tmVars, mgrVars, Timestamp
<1> DEFINE i == op[t].idx
           r == [undo[t][i] EXCEPT !.ts = op[t].ts]
<1>1. i \in Nat /\ op[t].ts \in Nat
  BY DEF Locals
<1>2. i > 0
  BY DEF ClockInv, Flipping
<1>3. i \in DOMAIN undo[t]
  BY <1>1, <1>2, SeqDomain, SMTT(30) DEF FlipRecord
<1>4. undo' = [undo EXCEPT ![t] = [undo[t] EXCEPT ![i] = r]]
  BY DEF FlipRecord
<1>5. r \in Record
  <2>1. undo[t][i] \in Record
    BY <1>3, SeqDomain, SMTT(30)
  <2> QED BY <1>1, <2>1, RedatedType
<1>6. undo' \in [Txns -> Seq(Record)] /\ \A u \in Txns : Len(undo'[u]) <= MaxUndo
  BY <1>3, <1>4, <1>5, UndoOverwrite
<1>7. op' \in [Txns -> Locals]
  <2>1. op' = [op EXCEPT ![t] = [op[t] EXCEPT !.idx = i + 1]]
    BY DEF FlipRecord
  <2>2. [op[t] EXCEPT !.idx = i + 1] \in Locals
    BY <1>1, AdvancedType
  <2> QED BY <2>1, <2>2
<1> QED
  BY <1>3, <1>4, <1>5, <1>6, <1>7 DEF FlipRecord

\* Steps of Abort.
LEMMA AbortType ==
    ASSUME LockingInv, NEW t \in Txns,
           \/ AbortBegin(t) \/ AbortScan(t) \/ RollbackUpdate(t) \/ RollbackInsertOrDelete(t)
           \/ AbortTimestamp(t) \/ AbortFinish(t)
    PROVE  TypeOK'
<1>t. TypeOK
  BY DEF LockingInv
<1> USE NoOpType DEF LockingInv, TypeOK, TMTypeOK, Goto, txnVars, slotVars, tmVars, mgrVars, Timestamp
<1>0. op[t] \in Locals /\ op[t].idx \in Nat /\ op[t].ts \in Nat
  BY DEF Locals
<1>1. CASE AbortBegin(t)
  <2>1. [NoOp EXCEPT !.idx = 1] \in Locals
    BY DEF Locals
  <2> QED BY <1>1, <2>1 DEF AbortBegin, Labels
<1>2. CASE AbortScan(t)
  <2> DEFINE i == op[t].idx
             s == undo[t][i].slot
  <2>1. CASE op' = [op EXCEPT ![t].idx = i + 1] /\ UNCHANGED pc
    <3>1. op' = [op EXCEPT ![t] = [op[t] EXCEPT !.idx = i + 1]]
      BY <2>1
    <3>2. pc' \in [Txns -> Labels]
      BY <2>1
    <3> HIDE DEF LockingInv, TypeOK, TMTypeOK
    <3>3. op' \in [Txns -> Locals]
      BY <1>t, <1>0, <3>1, AdvancedType, OpType
    <3> QED BY <1>t, <1>2, <3>2, <3>3, LocalStepType DEF AbortScan
  <2>2. CASE /\ op' = [op EXCEPT ![t].ptr = ver[s], ![t].cols = {}] /\ Goto(t, "abort_undo")
             /\ undo[t][i].table
    <3>1. Installed(t, i)
      <4>0. pc[t] = "abort_scan" BY <1>2 DEF AbortScan
      <4>1. i > 0 BY <4>0 DEF ClockInv
      <4>2. i \in DOMAIN undo[t]
        <5>1. i <= Len(undo[t]) BY <1>2 DEF AbortScan
        <5>2. i \in Nat BY <1>0 DEF Locals
        <5>3. undo[t] \in Seq(Record) BY <1>0
        <5> HIDE DEF LockingInv, TypeOK
        <5> QED BY <4>1, <5>1, <5>2, <5>3, SeqDomain, SMTT(30)
      <4> HIDE DEF LockingInv, TypeOK, s
      <4> QED BY <4>0, <2>2, <4>2 DEF Installed
    <3>2. s \in Slots
      <4>1. undo[t][i] \in Record BY <1>0, <3>1, SeqDomain, SMTT(30) DEF Installed
      <4> QED BY <4>1 DEF Record
    <3>3. ver[s] \in Ptrs \cup {Null}
      BY <3>2
    <3>4. [op[t] EXCEPT !.ptr = ver[s], !.cols = {}] \in Locals
      BY <1>0, <3>3 DEF Locals
    <3>5. op' = [op EXCEPT ![t] = [op[t] EXCEPT !.ptr = ver[s], !.cols = {}]]
      BY <2>2
    <3> HIDE DEF LockingInv, TypeOK, TMTypeOK
    <3>6. op' \in [Txns -> Locals]
      BY <1>t, <3>4, <3>5, OpType
    <3>7. pc' \in [Txns -> Labels]
      BY <1>t, <2>2, GotoType DEF Labels
    <3> QED BY <1>t, <1>2, <3>6, <3>7, LocalStepType DEF AbortScan
  <2> QED BY <1>2, <2>1, <2>2 DEF AbortScan
<1>3. ASSUME NEW p \in Ptrs \cup {Null}, RollbackNext(t, p)
      PROVE  op' \in [Txns -> Locals] /\ pc' \in [Txns -> Labels]
  <2>1. CASE p # Null /\ Rec(p).ts = finish_time[t]
    <3>1. [op[t] EXCEPT !.ptr = p, !.cols = {}] \in Locals
      BY <1>0 DEF Locals
    <3>2. op' = [op EXCEPT ![t] = [op[t] EXCEPT !.ptr = p, !.cols = {}]] /\ UNCHANGED pc
      BY <1>3, <2>1 DEF RollbackNext
    <3>3. pc' \in [Txns -> Labels]
      BY <3>2
    <3> HIDE DEF LockingInv, TypeOK, TMTypeOK
    <3> QED BY <1>t, <3>1, <3>2, <3>3, OpType
  <2>2. CASE ~(p # Null /\ Rec(p).ts = finish_time[t])
    <3>1. [op[t] EXCEPT !.ptr = Null, !.cols = {}, !.idx = op[t].idx + 1] \in Locals
      <4>1. [op[t] EXCEPT !.ptr = Null, !.cols = {}] \in Locals
        BY <1>0 DEF Locals
      <4>2. [[op[t] EXCEPT !.ptr = Null, !.cols = {}] EXCEPT !.idx = op[t].idx + 1] \in Locals
        BY <1>0, <4>1, AdvancedType
      <4> QED BY <4>2
    <3>2. /\ op' = [op EXCEPT ![t] = [op[t] EXCEPT !.ptr = Null, !.cols = {}, !.idx = op[t].idx + 1]]
          /\ Goto(t, "abort_scan")
      BY <1>3, <2>2 DEF RollbackNext
    <3> HIDE DEF LockingInv, TypeOK, TMTypeOK
    <3>3. pc' \in [Txns -> Labels]
      BY <1>t, <3>2, GotoType DEF Labels
    <3> QED BY <1>t, <3>1, <3>2, <3>3, OpType
  <2> QED BY <2>1, <2>2
<1>4. pc[t] = "abort_undo" =>
        /\ Rec(op[t].ptr) \in Record /\ Rec(op[t].ptr).slot \in Slots
        /\ Rec(op[t].ptr).next \in Ptrs \cup {Null} /\ Rec(op[t].ptr).delta \in Images
  <2>1. pc[t] = "abort_undo" => op[t].ptr \in Ptrs /\ Installed(op[t].ptr[1], op[t].ptr[2])
    BY SMTT(30) DEF ChainInv, Locals
  <2> QED BY <2>1, RecordType DEF Record
<1>5. CASE RollbackUpdate(t)
  <2> DEFINE r == Rec(op[t].ptr)
             c == Least(DOMAIN r.delta \ op[t].cols)
  <2>1. c \in DOMAIN r.delta /\ r.delta[c] \in Vals
    <3>1. DOMAIN r.delta \ op[t].cols # {} /\ r.delta \in Images
      BY <1>4, <1>5 DEF RollbackUpdate, ChainInv, Unfinished
    <3>2. DOMAIN r.delta \ op[t].cols \in SUBSET Cols
      BY <3>1, ImageType
    <3>3. c \in DOMAIN r.delta \ op[t].cols
      BY <3>1, <3>2, LeastInSet
    <3> QED BY <3>1, <3>3, ImageType
  <2>2. r.slot \in Slots
    BY <1>4, <1>5 DEF RollbackUpdate
  <2>3. val' = [val EXCEPT ![r.slot][c] = r.delta[c]]
    BY <1>5 DEF RollbackUpdate
  <2>4. val' \in [Slots -> [Cols -> Vals]]
    BY <2>1, <2>2, <2>3
  <2>5. op' \in [Txns -> Locals] /\ pc' \in [Txns -> Labels]
    <3>1. CASE RollbackNext(t, r.next)
      BY <1>3, <1>4, <1>5, <3>1 DEF RollbackUpdate
    <3>2. CASE op' = [op EXCEPT ![t].cols = op[t].cols \cup {c}] /\ UNCHANGED pc
      <4>1. op' = [op EXCEPT ![t] = [op[t] EXCEPT !.cols = op[t].cols \cup {c}]]
        BY <3>2
      <4>2. c \in Cols
        BY <1>4, <1>5, <2>1, ImageType DEF RollbackUpdate
      <4> HIDE DEF c
      <4>3. [op[t] EXCEPT !.cols = op[t].cols \cup {c}] \in Locals
        BY <1>0, <4>2 DEF Locals
      <4>4. pc' \in [Txns -> Labels]
        BY <3>2
      <4> HIDE DEF LockingInv, TypeOK, TMTypeOK
      <4> QED BY <1>t, <4>1, <4>3, <4>4, OpType
    <3> QED BY <1>5, <3>1, <3>2 DEF RollbackUpdate
  <2>6. alloc' \in [Slots -> BOOLEAN] /\ present' \in [Slots -> BOOLEAN]
    BY <1>5 DEF RollbackUpdate
  <2> HIDE DEF LockingInv, TypeOK, TMTypeOK
  <2> QED BY <1>t, <1>5, <2>4, <2>5, <2>6, TupleStepType DEF RollbackUpdate
<1>6. CASE RollbackInsertOrDelete(t)
  <2>1. op' \in [Txns -> Locals] /\ pc' \in [Txns -> Labels]
    <3>1. pc[t] = "abort_undo" /\ RollbackNext(t, Rec(op[t].ptr).next)
      BY <1>6 DEF RollbackInsertOrDelete
    <3> QED BY <1>3, <1>4, <3>1
  <2>2. /\ alloc' \in [Slots -> BOOLEAN] /\ present' \in [Slots -> BOOLEAN]
        /\ val' \in [Slots -> [Cols -> Vals]]
    BY <1>6 DEF RollbackInsertOrDelete
  <2> HIDE DEF LockingInv, TypeOK, TMTypeOK
  <2> QED BY <1>t, <1>6, <2>1, <2>2, TupleStepType DEF RollbackInsertOrDelete
<1>7. CASE AbortTimestamp(t)
  <2>o. op[t] \in Locals /\ time \in Nat
    OBVIOUS
  <2>1. [op[t] EXCEPT !.ts = time, !.idx = 1] \in Locals
    <3> HIDE DEF LockingInv, TypeOK, TMTypeOK
    <3> QED BY <2>o, LocalsUpdate
  <2>2. op' = [op EXCEPT ![t] = [op[t] EXCEPT !.ts = time, !.idx = 1]]
    BY <1>7 DEF AbortTimestamp
  <2>3. time' \in Nat \ {0}
    BY <1>7, SMTT(30) DEF AbortTimestamp, CheckOutTimestamp
  <2>4. op' \in [Txns -> Locals] /\ pc' \in [Txns -> Labels]
    <3> HIDE DEF LockingInv, TypeOK, TMTypeOK, Goto
    <3> QED BY <1>t, <1>7, <2>1, <2>2, OpType, GotoType DEF AbortTimestamp, Labels
  <2> QED BY <1>7, <2>3, <2>4 DEF AbortTimestamp
<1>8. CASE AbortFinish(t)
  <2>1. TMTypeOK' /\ pc' \in [Txns -> Labels] /\ op' \in [Txns -> Locals]
    BY <1>8 DEF AbortFinish, RemoveTransaction, Labels
  <2>2. finish_time' \in [Txns -> Int] /\ aborted' \in [Txns -> BOOLEAN]
    BY <1>0, <1>8, SMTT(30) DEF AbortFinish
  <2> QED BY <1>8, <2>1, <2>2 DEF AbortFinish
<1> HIDE DEF LockingInv, TypeOK
<1> QED
  BY <1>1, <1>2, <1>5, <1>6, <1>7, <1>8

-----------------------------------------------------------------------------
(* Preservation of the locking invariant.                                  *)

\* Where the last record of a transaction may not be installed yet, or where
\* the transaction has none.
Unstable == {"idle", "wr_read", "wr_image", "wr_cas", "ins_ptr"}

\* A slot whose tuple appears has a record in its chain, and one that is
\* deallocated has a record.
SlotsJustified ==
    \A s \in Slots :
        /\ present'[s] /\ ~present[s] =>
              \E u \in Txns : \E i \in DOMAIN undo[u] : Installed(u, i) /\ undo[u][i].slot = s
        /\ alloc[s] /\ ~alloc'[s] =>
              \E u \in Txns : \E i \in DOMAIN undo[u] : undo[u][i].slot = s

\* The pointers that are followed lead to undo records or are null.
LEMMA PointerTypes ==
    ASSUME TypeOK
    PROVE  /\ \A s \in Slots : ver[s] \in Ptrs \cup {Null}
           /\ \A u \in Txns : \A i \in DOMAIN undo[u] :
                 undo[u][i] \in Record /\ undo[u][i].next \in Ptrs \cup {Null}
           /\ \A u \in Txns : op[u].ptr \in Ptrs \cup {Null}
<1>1. \A u \in Txns : \A i \in DOMAIN undo[u] : undo[u][i] \in Record
  BY SeqDomain, SMTT(30) DEF TypeOK
<1> QED
  BY <1>1 DEF TypeOK, Record, Locals

\* A step of t that leaves all undo records and version pointers alone; b is
\* where t goes and o are its new local variables.
LEMMA SameRecords ==
    ASSUME LockingInv, TypeOK', NEW t \in Txns, NEW b \in Labels, NEW o \in Locals, NEW f \in Timestamp,
           undo' = undo, ver' = ver, start_time' = start_time, time' >= time,
           pc' = [pc EXCEPT ![t] = b], op' = [op EXCEPT ![t] = o],
           finish_time' = [finish_time EXCEPT ![t] = f],
           pc[t] \notin Unstable, b \notin Unstable,
           b \notin Over => f = TxnId(start_time[t]),
           b \in Over => f > start_time[t],
           b \in Flipping => o.ts > start_time[t],
           b \in Flipping \cup {"abort_scan", "abort_undo"} => o.idx > 0,
           \A i \in DOMAIN undo[t] : TsOf(t, i)' = TsOf(t, i),
           b \in Writing => pc[t] \in Writing /\ o.slot = op[t].slot,
           b = "abort_undo" =>
              /\ o.ptr # Null /\ o.ptr[1] = t /\ Installed(t, o.ptr[2])
              /\ Unfinished(Rec(o.ptr), o.cols),
           b \in {"sel_ptr", "sel_copy", "sel_check", "sel_walk"} =>
              o.slot \in Slots /\ (b # "sel_ptr" /\ o.ptr # Null => OnChain(o.ptr, o.slot)),
           SlotsJustified
    PROVE  LockingInv'
<1> USE DEF LockingInv
<1>1. \A u \in Txns : /\ pc'[u] = IF u = t THEN b ELSE pc[u]
                      /\ op'[u] = IF u = t THEN o ELSE op[u]
                      /\ finish_time'[u] = IF u = t THEN f ELSE finish_time[u]
  BY DEF TypeOK
<1>2. \A u \in Txns : \A i : Installed(u, i)' <=> Installed(u, i)
  BY <1>1, SMTT(30) DEF Installed, Unstable
<1>4. ClockInv'
  BY <1>1, SMTT(30) DEF ClockInv, TypeOK, TMTypeOK, Unstable
<1>5. RecordInv'
  <2>1. \A u \in Txns : \A i \in DOMAIN undo[u] : TsOf(u, i)' = TsOf(u, i)
    BY <1>1, SMTT(30) DEF TsOf
  <2> QED BY <1>1, <2>1, SMTT(30) DEF RecordInv, Unstable
<1>6. \A p \in Ptrs : \A s : OnChain(p, s)' <=> OnChain(p, s)
  BY <1>2 DEF OnChain, Ptrs, Rec
<1>7. \A u \in Txns : \A i : \A p \in Ptrs : Below(u, i, p)' <=> Below(u, i, p)
  BY DEF Below, Rec
<1>8. ChainInv'
  <2>1. ASSUME NEW s \in Slots, ver[s] # Null PROVE OnChain(ver[s], s)'
    BY <1>6, <2>1, PointerTypes DEF ChainInv
  <2>2. ASSUME NEW u \in Txns, NEW i \in DOMAIN undo[u], undo[u][i].next # Null
        PROVE  OnChain(undo[u][i].next, undo[u][i].slot)' /\ Below(u, i, undo[u][i].next)'
    BY <1>6, <1>7, <2>2, PointerTypes DEF ChainInv
  <2>3. ASSUME NEW u \in Txns, pc'[u] \in {"wr_image", "wr_cas"}, op'[u].ptr # Null
        PROVE  OnChain(op[u].ptr, op[u].slot)' /\ Below(u, Len(undo[u]), op[u].ptr)'
    <3>1. u # t /\ pc[u] \in {"wr_image", "wr_cas"} /\ op'[u] = op[u]
      BY <1>1, <2>3 DEF Unstable
    <3> QED BY <3>1, <2>3, <1>6, <1>7, PointerTypes DEF ChainInv
  <2>4. ASSUME NEW u \in Txns, pc'[u] = "abort_undo"
        PROVE  /\ op'[u].ptr # Null /\ op'[u].ptr[1] = u /\ Installed(u, op[u].ptr[2])'
               /\ Unfinished(Rec(op[u].ptr)', op'[u].cols)
    <3>1. CASE u = t
      BY <1>1, <1>2, <2>4, <3>1 DEF Rec
    <3>2. CASE u # t
      <4>1. pc[u] = "abort_undo" /\ op'[u] = op[u]
        BY <1>1, <2>4, <3>2
      <4>2. /\ op[u].ptr # Null /\ op[u].ptr[1] = u /\ Installed(u, op[u].ptr[2])
            /\ Unfinished(Rec(op[u].ptr), op[u].cols)
        BY <4>1 DEF ChainInv
      <4> QED BY <4>1, <4>2, <1>2 DEF Rec
    <3> QED BY <3>1, <3>2
  <2> QED BY <2>1, <2>2, <2>3, <2>4 DEF ChainInv
<1>9. ReadInv'
  <2>1. ASSUME NEW u \in Txns, pc'[u] \in {"sel_ptr", "sel_copy", "sel_check", "sel_walk"}
        PROVE  /\ op'[u].slot \in Slots
               /\ pc'[u] # "sel_ptr" /\ op'[u].ptr # Null => OnChain(op[u].ptr, op[u].slot)'
    <3>1. o.ptr \in Ptrs \cup {Null}
      BY DEF Locals
    <3>2. CASE u = t
      BY <3>1, <3>2, <2>1, <1>1, <1>6
    <3>3. CASE u # t
      BY <3>3, <2>1, <1>1, <1>6, PointerTypes, SMTT(30) DEF ReadInv
    <3> QED BY <3>2, <3>3
  <2> QED BY <2>1 DEF ReadInv
<1>10. LockInv'
  BY <1>2, SMTT(30) DEF LockInv
<1>11. InsertInv'
  <2>1. ASSUME NEW u \in Txns, pc'[u] = "ins_ptr"
        PROVE  u # t /\ pc[u] = "ins_ptr" /\ op'[u] = op[u] /\ op[u].slot \in Slots
    <3>1. u # t /\ pc[u] = "ins_ptr" /\ op'[u] = op[u]
      BY <2>1, <1>1 DEF Unstable
    <3> QED BY <3>1, LastSlot DEF Writing
  <2>2. ASSUME NEW u \in Txns, pc'[u] = "ins_ptr" PROVE ~present'[op'[u].slot]
    <3>1. ~present[op[u].slot]
      BY <2>1, <2>2 DEF InsertInv
    <3>2. \A v \in Txns : \A i \in DOMAIN undo[v] : Installed(v, i) => undo[v][i].slot # op[u].slot
      BY <2>1, <2>2 DEF InsertInv
    <3> QED BY <2>1, <2>2, <3>1, <3>2, SMTT(30) DEF SlotsJustified
  <2>3. ASSUME NEW u \in Txns, pc'[u] = "ins_ptr", NEW v \in Txns, NEW i \in DOMAIN undo[v], Installed(v, i)'
        PROVE  undo[v][i].slot # op'[u].slot
    BY <2>1, <2>3, <1>2, SMTT(30) DEF InsertInv
  <2>4. ASSUME NEW u \in Txns, pc'[u] = "ins_ptr", NEW v \in Txns \ {u},
               pc'[v] \in {"wr_image", "wr_cas", "ins_ptr"}
        PROVE  op'[v].slot # op'[u].slot
    BY <2>1, <2>4, <1>1, SMTT(30) DEF InsertInv, Unstable
  <2>5. ASSUME NEW s \in Slots, ~alloc'[s], \A v \in Txns : \A i \in DOMAIN undo[v] : undo[v][i].slot # s
        PROVE  ~present'[s]
    <3>1. ~alloc[s]
      BY <2>5, SMTT(30) DEF SlotsJustified
    <3>2. ~present[s]
      BY <2>5, <3>1 DEF InsertInv
    <3> QED BY <2>5, <3>2 DEF SlotsJustified
  <2> QED BY <2>2, <2>3, <2>4, <2>5, SMTT(30) DEF InsertInv
<1> QED
  BY <1>4, <1>5, <1>8, <1>9, <1>10, <1>11

\* The same for a step of t before its commit or abort time is taken.
LEMMA QuietStep ==
    ASSUME LockingInv, TypeOK', NEW t \in Txns, NEW b \in Labels, NEW o \in Locals,
           undo' = undo, ver' = ver, UNCHANGED <<start_time, finish_time, time>>,
           pc' = [pc EXCEPT ![t] = b], op' = [op EXCEPT ![t] = o],
           pc[t] \notin Unstable \cup Over \cup Flipping, b \notin Unstable \cup Over \cup Flipping,
           b \in {"abort_scan", "abort_undo"} => o.idx > 0,
           b \in Writing => pc[t] \in Writing /\ o.slot = op[t].slot,
           b = "abort_undo" =>
              /\ o.ptr # Null /\ o.ptr[1] = t /\ Installed(t, o.ptr[2])
              /\ Unfinished(Rec(o.ptr), o.cols),
           b \in {"sel_ptr", "sel_copy", "sel_check", "sel_walk"} =>
              o.slot \in Slots /\ (b # "sel_ptr" /\ o.ptr # Null => OnChain(o.ptr, o.slot)),
           SlotsJustified
    PROVE  LockingInv'
<1>1. finish_time' = [finish_time EXCEPT ![t] = finish_time[t]] /\ finish_time[t] \in Timestamp
  BY DEF LockingInv, TypeOK
<1>2. finish_time[t] = TxnId(start_time[t])
  BY DEF LockingInv, ClockInv, Unstable
<1>3. \A i \in DOMAIN undo[t] : TsOf(t, i)' = TsOf(t, i)
  BY DEF TsOf, LockingInv, TypeOK
<1>4. time' >= time /\ start_time' = start_time
  BY SMTT(30) DEF LockingInv, TypeOK, TMTypeOK
<1>5. b \notin Unstable /\ b \notin Over /\ b \notin Flipping /\ pc[t] \notin Unstable
  OBVIOUS
<1> HIDE DEF LockingInv, TypeOK
<1> QED
  BY <1>1, <1>2, <1>3, <1>4, <1>5, SameRecords

\* A slot's bits do not change.
LEMMA SameSlots == ASSUME UNCHANGED <<alloc, present>> PROVE SlotsJustified
  BY DEF SlotsJustified

\* Steps of Select and IsVisible.
LEMMA SelectInv ==
    ASSUME LockingInv, NEW t \in Txns, UNCHANGED <<tmVars, mgrVars>>,
           \/ \E s \in Slots : \E kind \in {"SELECT", "ISVISIBLE"} : SelectBegin(t, s, kind)
           \/ SelectPtr(t) \/ SelectCopy(t) \/ SelectVisible(t) \/ SelectCheck(t)
           \/ SelectWalk(t) \/ SelectReturn(t)
    PROVE  LockingInv'
<1>0. TypeOK'
  BY SelectType
<1>1. TypeOK /\ op \in [Txns -> Locals] /\ op'[t] \in Locals /\ pc \in [Txns -> Labels] /\ pc'[t] \in Labels
  BY <1>0 DEF LockingInv, TypeOK
<1>2. op' = [op EXCEPT ![t] = op'[t]]
  BY <1>1 DEF SelectBegin, SelectPtr, SelectCopy, SelectVisible, SelectCheck, SelectWalk, SelectReturn
<1>3. pc' = [pc EXCEPT ![t] = pc'[t]]
  BY <1>1 DEF SelectBegin, SelectPtr, SelectCopy, SelectVisible, SelectCheck, SelectWalk, SelectReturn, Goto
<1>4. undo' = undo /\ ver' = ver /\ UNCHANGED <<start_time, finish_time, time, alloc, present>>
  BY DEF SelectBegin, SelectPtr, SelectCopy, SelectVisible, SelectCheck, SelectWalk, SelectReturn,
         txnVars, slotVars, tmVars
<1>5. /\ pc[t] \in {"running", "sel_ptr", "sel_copy", "sel_check", "sel_walk", "sel_done"}
      /\ pc'[t] \in {"running", "sel_ptr", "sel_copy", "sel_check", "sel_walk", "sel_done"}
  BY <1>1 DEF SelectBegin, SelectPtr, SelectCopy, SelectVisible, SelectCheck, SelectWalk, SelectReturn, Goto
<1>6. pc'[t] \in {"sel_ptr", "sel_copy", "sel_check", "sel_walk"} =>
        op'[t].slot \in Slots /\ (pc'[t] # "sel_ptr" /\ op'[t].ptr # Null => OnChain(op'[t].ptr, op'[t].slot))
  <2> USE <1>1
  <2>1. ASSUME NEW s \in Slots, NEW kind \in {"SELECT", "ISVISIBLE"}, SelectBegin(t, s, kind)
        PROVE  pc'[t] \in {"sel_ptr", "sel_done"} /\ op'[t].slot \in Slots
    BY <2>1 DEF SelectBegin, Goto, Locals, NoOp
  <2>2. CASE SelectPtr(t)
    <3>1. op'[t].slot = op[t].slot /\ op'[t].ptr = ver[op[t].slot] /\ op[t].slot \in Slots
      BY <2>2 DEF SelectPtr, Locals, LockingInv, ReadInv
    <3> QED BY <3>1 DEF LockingInv, ChainInv
  <2>3. CASE SelectCopy(t) \/ SelectVisible(t) \/ SelectCheck(t)
    <3>1. op'[t].slot = op[t].slot /\ op'[t].ptr = op[t].ptr
      BY <2>3, SMTT(30) DEF SelectCopy, SelectVisible, SelectCheck, Locals
    <3>2. pc[t] \in {"sel_copy", "sel_check"}
      BY <2>3 DEF SelectCopy, SelectVisible, SelectCheck
    <3> QED BY <3>1, <3>2 DEF LockingInv, ReadInv
  <2>4. CASE SelectWalk(t)
    <3> DEFINE p == op[t].ptr
    <3>0. op'[t] = op[t] \/
          (p # Null /\ \E out, vis : op'[t] = [op[t] EXCEPT !.ptr = Rec(p).next, !.out = out, !.vis = vis])
      <4>1. CASE p = Null \/ ~NewerThan(Rec(p).ts, start_time[t])
        BY <2>4, <4>1 DEF SelectWalk
      <4>2. CASE ~(p = Null \/ ~NewerThan(Rec(p).ts, start_time[t]))
        <5> DEFINE out == IF Rec(p).type = "UPDATE" THEN ApplyDelta(Rec(p).delta, op[t].out) ELSE op[t].out
                   vis == CASE Rec(p).type = "INSERT" -> FALSE
                            [] Rec(p).type = "DELETE" -> TRUE
                            [] OTHER -> op[t].vis
        <5>1. op' = [op EXCEPT ![t].ptr = Rec(p).next, ![t].out = out, ![t].vis = vis]
          BY <2>4, <4>2 DEF SelectWalk
        <5> HIDE DEF out, vis
        <5>2. op'[t] = [op[t] EXCEPT !.ptr = Rec(p).next, !.out = out, !.vis = vis]
          BY <5>1
        <5> QED BY <4>2, <5>2
      <4> QED BY <4>1, <4>2
    <3>1. pc[t] = "sel_walk" /\ op'[t].slot = op[t].slot
      <4>1. pc[t] = "sel_walk"
        BY <2>4 DEF SelectWalk
      <4> QED BY <3>0, <4>1 DEF Locals
    <3>2. op[t].slot \in Slots /\ (p # Null => OnChain(p, op[t].slot))
      BY <3>1 DEF LockingInv, ReadInv
    <3>3. op'[t].ptr = p \/ (p # Null /\ op'[t].ptr = Rec(p).next)
      BY <3>0 DEF Locals
    <3>4. CASE op'[t].ptr = p
      BY <3>1, <3>2, <3>4
    <3>5. CASE p # Null /\ op'[t].ptr = Rec(p).next /\ op'[t].ptr # Null
      <4>1. p \in Ptrs
        BY <3>5, PointerTypes
      <4>2. p[1] \in Txns /\ p[2] \in DOMAIN undo[p[1]] /\ Rec(p).slot = op[t].slot
        BY <3>2, <3>5, <4>1 DEF OnChain, Installed, Ptrs
      <4>3. OnChain(Rec(p).next, op[t].slot)
        BY <3>5, <4>2 DEF LockingInv, ChainInv, Rec
      <4> QED BY <3>1, <3>2, <3>5, <4>3
    <3> QED BY <3>1, <3>2, <3>3, <3>4, <3>5
  <2>5. CASE SelectReturn(t)
    BY <2>5 DEF SelectReturn, Goto
  <2> QED BY <2>1, <2>2, <2>3, <2>4, <2>5
<1>7. pc[t] \notin Unstable \cup Over \cup Flipping /\ pc'[t] \notin Unstable \cup Over \cup Flipping
  BY <1>5 DEF Unstable, Over, Flipping
<1>8. pc'[t] \notin {"abort_scan", "abort_undo"} /\ pc'[t] \notin Writing
  BY <1>5 DEF Writing
<1>9. SlotsJustified
  BY <1>4, SameSlots
<1> QED
  BY <1>0, <1>1, <1>2, <1>3, <1>4, <1>6, <1>7, <1>8, <1>9, QuietStep

\* A transaction that rolls back still carries its id, and no record that does
\* is committed.
LEMMA RollingBack ==
    ASSUME LockingInv, NEW t \in Txns, pc[t] \in {"abort_scan", "abort_undo"}
    PROVE  /\ finish_time[t] = TxnId(start_time[t]) /\ ~Committed(finish_time[t])
           /\ \A i \in DOMAIN undo[t] : undo[t][i].ts = finish_time[t]
           /\ op[t] \in Locals /\ op[t].idx \in Nat /\ op[t].idx > 0
<1>1. finish_time[t] = TxnId(start_time[t]) /\ op[t].idx > 0
  BY DEF LockingInv, ClockInv, Over
<1>2. \A i \in DOMAIN undo[t] : undo[t][i].ts = TxnId(start_time[t])
  BY DEF LockingInv, RecordInv, TsOf, Over, Flipping
<1>3. start_time[t] \in Nat /\ op[t] \in Locals /\ op[t].idx \in Nat
  BY DEF LockingInv, TypeOK, Locals
<1> QED
  BY <1>1, <1>2, <1>3, SMTT(30) DEF TxnId, Committed

\* A version pointer leads into the chain of its slot.
LEMMA HeadOnChain ==
    ASSUME LockingInv, NEW s \in Slots, ver[s] # Null
    PROVE  OnChain(ver[s], s)
  BY DEF LockingInv, ChainInv

\* A pointer into a chain leads to a record of the transaction it names.
LEMMA OwnRecord ==
    ASSUME NEW p, NEW s, OnChain(p, s)
    PROVE  p[2] \in DOMAIN undo[p[1]] /\ Rec(p) = undo[p[1]][p[2]]
<1>1. Installed(p[1], p[2])
  BY DEF OnChain
<1> QED
  BY <1>1 DEF Installed, Rec

\* The record below one of t is t's own exactly when it carries t's id, and
\* Rollback goes on with it.
LEMMA RollbackOwn ==
    ASSUME LockingInv, NEW t \in Txns, pc[t] = "abort_undo", NEW p, p = Rec(op[t].ptr).next,
           p # Null, Rec(p).ts = finish_time[t]
    PROVE  p[1] = t /\ Installed(t, p[2]) /\ (Rec(p).type = "UPDATE" => DOMAIN Rec(p).delta # {})
<1>1. op[t].ptr \in Ptrs /\ op[t].ptr[1] = t /\ op[t].ptr[2] \in DOMAIN undo[t]
  BY DEF LockingInv, ChainInv, Installed, TypeOK, Locals
<1>2. p = undo[t][op[t].ptr[2]].next
  BY <1>1 DEF Rec
<1>3. p \in Ptrs
  BY <1>1, <1>2, PointerTypes DEF LockingInv
<1>4. OnChain(p, undo[t][op[t].ptr[2]].slot) /\ Below(t, op[t].ptr[2], p)
  BY <1>1, <1>2 DEF LockingInv, ChainInv
<1>5. p[1] = t
  BY <1>4, RollingBack DEF Below
<1>6. Installed(t, p[2]) /\ p[2] \in DOMAIN undo[t]
  BY <1>4, <1>5 DEF OnChain, Installed
<1> QED
  BY <1>5, <1>6 DEF LockingInv, RecordInv, Rec

\* The steps of Abort that undo t's writes in place.
LEMMA RollbackInv ==
    ASSUME LockingInv, NEW t \in Txns,
           AbortBegin(t) \/ AbortScan(t) \/ RollbackUpdate(t) \/ RollbackInsertOrDelete(t)
    PROVE  LockingInv'
<1>0. TypeOK'
  BY AbortType
<1>1. TypeOK /\ op \in [Txns -> Locals] /\ op'[t] \in Locals /\ pc \in [Txns -> Labels] /\ pc'[t] \in Labels
  BY <1>0 DEF LockingInv, TypeOK
<1>2. op' = [op EXCEPT ![t] = op'[t]]
  BY <1>1 DEF AbortBegin, AbortScan, RollbackUpdate, RollbackInsertOrDelete, RollbackNext
<1>3. pc' = [pc EXCEPT ![t] = pc'[t]]
  BY <1>1 DEF AbortBegin, AbortScan, RollbackUpdate, RollbackInsertOrDelete, RollbackNext, Goto
<1>4. undo' = undo /\ ver' = ver /\ UNCHANGED <<start_time, finish_time, time>>
  BY DEF AbortBegin, AbortScan, RollbackUpdate, RollbackInsertOrDelete, txnVars, slotVars, tmVars
<1>5. /\ pc[t] \in {"running", "abort_scan", "abort_undo"}
      /\ pc'[t] \in {"abort_scan", "abort_undo"}
  BY <1>1 DEF AbortBegin, AbortScan, RollbackUpdate, RollbackInsertOrDelete, RollbackNext, Goto
<1> DEFINE q == op'[t].ptr
           Good == /\ op'[t].idx > 0
                   /\ pc'[t] = "abort_undo" =>
                        /\ q # Null /\ q[1] = t /\ Installed(t, q[2])
                        /\ Unfinished(Rec(q), op'[t].cols)
<1>6. ASSUME pc[t] = "abort_undo", RollbackNext(t, Rec(op[t].ptr).next)
      PROVE  Good
  <2> DEFINE p == Rec(op[t].ptr).next
  <2>1. CASE p # Null /\ Rec(p).ts = finish_time[t]
    <3>1. op'[t] = [op[t] EXCEPT !.ptr = p, !.cols = {}]
      BY <1>1, <1>6, <2>1 DEF RollbackNext
    <3>2. op'[t].ptr = p /\ op'[t].cols = {} /\ op'[t].idx = op[t].idx
      BY <1>1, <3>1 DEF Locals
    <3> HIDE DEF p
    <3>3. p[1] = t /\ Installed(t, p[2]) /\ (Rec(p).type = "UPDATE" => DOMAIN Rec(p).delta # {})
      BY <1>6, <2>1, RollbackOwn DEF p
    <3>4. Unfinished(Rec(p), {})
      BY <3>3 DEF Unfinished
    <3> QED BY <1>6, <2>1, <3>2, <3>3, <3>4, RollingBack
  <2>2. CASE ~(p # Null /\ Rec(p).ts = finish_time[t])
    <3>1. op'[t] = [op[t] EXCEPT !.ptr = Null, !.cols = {}, !.idx = op[t].idx + 1] /\ pc'[t] = "abort_scan"
      BY <1>1, <1>6, <2>2 DEF RollbackNext, Goto
    <3>2. op'[t].idx = op[t].idx + 1
      BY <1>1, <3>1 DEF Locals
    <3> QED BY <1>6, <3>1, <3>2, RollingBack, SMTT(30)
  <2> QED BY <2>1, <2>2
<1>7. Good /\ SlotsJustified
  <2>1. CASE AbortBegin(t)
    <3>1. op'[t].idx = 1 /\ pc'[t] = "abort_scan"
      BY <1>1, <2>1 DEF AbortBegin, Goto, NoOp
    <3>2. UNCHANGED <<alloc, present>>
      BY <2>1 DEF AbortBegin, slotVars
    <3> QED BY <3>1, <3>2, SameSlots, SMTT(30)
  <2>2. CASE AbortScan(t)
    <3> DEFINE i == op[t].idx
               s == undo[t][i].slot
    <3>1. i \in DOMAIN undo[t] /\ undo[t][i] \in Record
      <4>1. pc[t] = "abort_scan" /\ i <= Len(undo[t]) /\ undo[t] \in Seq(Record)
        BY <2>2 DEF AbortScan, LockingInv, TypeOK
      <4>2. i \in Nat /\ i > 0
        BY <4>1, RollingBack
      <4> QED BY <4>1, <4>2, SeqDomain, SMTT(30)
    <3>2. SlotsJustified
      BY <2>2, SameSlots DEF AbortScan, slotVars
    <3>3. CASE op' = [op EXCEPT ![t].idx = i + 1] /\ UNCHANGED pc
      <4>1. op'[t].idx = i + 1 /\ pc'[t] = "abort_scan"
        BY <1>1, <2>2, <3>3 DEF AbortScan, Locals
      <4>2. pc[t] = "abort_scan"
        BY <2>2 DEF AbortScan
      <4>3. i \in Nat
        BY <4>2, RollingBack
      <4> QED BY <3>2, <4>1, <4>3, SMTT(30)
    <3>4. CASE op' = [op EXCEPT ![t].ptr = ver[s], ![t].cols = {}] /\ undo[t][i].table
      <4>1. pc[t] = "abort_scan"
        BY <2>2 DEF AbortScan
      <4>2. op'[t].ptr = ver[s] /\ op'[t].cols = {} /\ op'[t].idx = i
        BY <1>1, <3>4 DEF Locals
      <4>3. Installed(t, i) /\ ~Committed(undo[t][i].ts) /\ s \in Slots
        BY <3>1, <3>4, <4>1, RollingBack DEF Installed, Record
      <4>4. ver[s] # Null /\ ver[s][1] = t
        BY <3>1, <4>3 DEF LockingInv, LockInv
      <4>5. Installed(t, ver[s][2])
        BY <4>3, <4>4 DEF LockingInv, ChainInv, OnChain
      <4>6. Unfinished(Rec(ver[s]), {})
        <5>1. ver[s][2] \in DOMAIN undo[t] /\ Rec(ver[s]) = undo[t][ver[s][2]]
          BY <4>4, <4>5 DEF Installed, Rec
        <5>2. undo[t][ver[s][2]].type = "UPDATE" => DOMAIN undo[t][ver[s][2]].delta # {}
          BY <5>1 DEF LockingInv, RecordInv
        <5> QED BY <5>1, <5>2 DEF Unfinished
      <4> HIDE DEF s
      <4> QED BY <3>2, <4>1, <4>2, <4>4, <4>5, <4>6, RollingBack
    <3>5. \/ op' = [op EXCEPT ![t].idx = i + 1] /\ UNCHANGED pc
          \/ op' = [op EXCEPT ![t].ptr = ver[s], ![t].cols = {}] /\ undo[t][i].table
      BY <2>2 DEF AbortScan
    <3> QED BY <3>3, <3>4, <3>5
  <2>3. CASE RollbackUpdate(t)
    <3> DEFINE r == Rec(op[t].ptr)
               c == Least(DOMAIN r.delta \ op[t].cols)
    <3>1. SlotsJustified /\ pc[t] = "abort_undo"
      BY <2>3, SameSlots DEF RollbackUpdate
    <3>2. CASE RollbackNext(t, r.next)
      BY <1>6, <3>1, <3>2
    <3>3. CASE op' = [op EXCEPT ![t].cols = op[t].cols \cup {c}] /\ op[t].cols \cup {c} # DOMAIN r.delta
      <4>1. op[t].ptr # Null /\ op[t].ptr[1] = t /\ Installed(t, op[t].ptr[2]) /\ Unfinished(r, op[t].cols)
        BY <3>1 DEF LockingInv, ChainInv
      <4>2. r.type = "UPDATE"
        BY <2>3 DEF RollbackUpdate
      <4>3. r.delta \in Images
        <5>1. op[t].ptr \in Ptrs
          BY <1>1, <4>1, PointerTypes
        <5>2. r \in Record
          BY <1>1, <4>1, <5>1, RecordType
        <5> QED BY <5>2 DEF Record
      <4>4. c \in DOMAIN r.delta \ op[t].cols
        BY <4>1, <4>2, <4>3, ImageType, LeastInSet DEF Unfinished
      <4>5. op'[t].ptr = op[t].ptr /\ op'[t].cols = op[t].cols \cup {c} /\ op'[t].idx = op[t].idx
        <5> HIDE DEF c
        <5> QED BY <1>1, <3>3 DEF Locals
      <4> HIDE DEF c
      <4>6. Unfinished(r, op'[t].cols)
        BY <3>3, <4>1, <4>2, <4>4, <4>5 DEF Unfinished
      <4> QED BY <3>1, <4>1, <4>5, <4>6, RollingBack
    <3> QED BY <2>3, <3>2, <3>3 DEF RollbackUpdate
  <2>4. CASE RollbackInsertOrDelete(t)
    <3>1. pc[t] = "abort_undo" /\ RollbackNext(t, Rec(op[t].ptr).next)
      BY <2>4 DEF RollbackInsertOrDelete
    <3>2. op[t].ptr[2] \in DOMAIN undo[t] /\ Installed(t, op[t].ptr[2]) /\ Rec(op[t].ptr) = undo[t][op[t].ptr[2]]
      BY <3>1 DEF LockingInv, ChainInv, Installed, Rec
    <3>3. \A s \in Slots : (present'[s] /\ ~present[s]) \/ (alloc[s] /\ ~alloc'[s]) => s = Rec(op[t].ptr).slot
      BY <1>1, <2>4 DEF RollbackInsertOrDelete, TypeOK
    <3>4. SlotsJustified
      <4>1. \A s \in Slots : s = Rec(op[t].ptr).slot =>
              \E i \in DOMAIN undo[t] : Installed(t, i) /\ undo[t][i].slot = s
        BY <3>2
      <4>2. \A s \in Slots : s = Rec(op[t].ptr).slot =>
              /\ \E u \in Txns : \E i \in DOMAIN undo[u] : Installed(u, i) /\ undo[u][i].slot = s
              /\ \E u \in Txns : \E i \in DOMAIN undo[u] : undo[u][i].slot = s
        BY <4>1
      <4>3. ASSUME NEW s \in Slots, present'[s], ~present[s]
            PROVE  \E u \in Txns : \E i \in DOMAIN undo[u] : Installed(u, i) /\ undo[u][i].slot = s
        <5>1. s = Rec(op[t].ptr).slot
          BY <3>3, <4>3
        <5> QED BY <4>2, <5>1
      <4>4. ASSUME NEW s \in Slots, alloc[s], ~alloc'[s]
            PROVE  \E u \in Txns : \E i \in DOMAIN undo[u] : undo[u][i].slot = s
        <5>1. s = Rec(op[t].ptr).slot
          BY <3>3, <4>4
        <5> QED BY <4>2, <5>1
      <4> QED BY <4>3, <4>4 DEF SlotsJustified
    <3> QED BY <1>6, <3>1, <3>4
  <2> QED BY <2>1, <2>2, <2>3, <2>4
<1>8. pc[t] \notin Unstable \cup Over \cup Flipping /\ pc'[t] \notin Unstable \cup Over \cup Flipping
  BY <1>5 DEF Unstable, Over, Flipping
<1>9. pc'[t] \notin {"sel_ptr", "sel_copy", "sel_check", "sel_walk"} /\ pc'[t] \notin Writing
  BY <1>5 DEF Writing
<1> QED
  BY <1>0, <1>1, <1>2, <1>3, <1>4, <1>7, <1>8, <1>9, QuietStep
=============================================================================
