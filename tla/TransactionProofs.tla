-------------------------- MODULE TransactionProofs --------------------------
(***************************************************************************)
(* The locking invariant is inductive: it is kept when a version pointer   *)
(* is swung to a new record, by compare-and-swap or by the blind store of  *)
(* an insert, and by commit and abort.  From it follow the type invariant, *)
(* the write lock, the order of the chains, and the exclusion of writes in *)
(* place.                                                                  *)
(***************************************************************************)
EXTENDS TransactionStepProofs

USE ZenonT(30)

\* Only t's records carry t's id.
LEMMA ForeignTimestamp ==
    ASSUME LockingInv, NEW t \in Txns, pc[t] # "idle", NEW u \in Txns, u # t,
           NEW i \in DOMAIN undo[u]
    PROVE  undo[u][i].ts \in Int /\ undo[u][i].ts # TxnId(start_time[t])
<1>1. undo[u][i].ts = TsOf(u, i) /\ pc[u] # "idle"
  <2>1. pc[u] = "idle" => undo[u] = <<>>
    BY DEF LockingInv, RecordInv
  <2> QED BY <2>1, SMTT(30) DEF LockingInv, RecordInv
<1>2. /\ start_time[t] \in Nat /\ start_time[u] \in Nat /\ finish_time[u] \in Int /\ op[u].ts \in Nat
  BY DEF LockingInv, TypeOK, Timestamp, Locals
<1>3. /\ start_time[u] # start_time[t]
      /\ pc[u] \in Over => finish_time[u] > start_time[u]
  BY <1>1 DEF LockingInv, ClockInv
<1> QED
  BY <1>1, <1>2, <1>3, SMTT(30) DEF TsOf, TxnId

\* A writer that meets no conflict has a committed version of its snapshot, or
\* its own, below its record.
LEMMA NoConflict ==
    ASSUME LockingInv, NEW t \in Txns, pc[t] = "wr_read", NEW s \in Slots,
           ver[s] # Null, ~HasConflict(t, ver[s])
    PROVE  OnChain(ver[s], s) /\ Below(t, Len(undo[t]), ver[s])
<1> DEFINE p == ver[s]
<1>1. TypeOK /\ p \in Ptrs /\ OnChain(p, s)
  BY PointerTypes DEF LockingInv, ChainInv
<1>2. p[1] \in Txns /\ p[2] \in DOMAIN undo[p[1]] /\ Rec(p) = undo[p[1]][p[2]]
  BY <1>1 DEF OnChain, Installed, Ptrs, Rec
<1>3. CASE p[1] = t
  <2>1. p[2] # Len(undo[t])
    BY <1>1, <1>3 DEF OnChain, Installed
  <2>2. undo[t] \in Seq(Record)
    BY <1>1 DEF TypeOK
  <2>3. p[2] < Len(undo[t])
    BY <1>2, <1>3, <2>1, <2>2, SeqDomain, SMTT(30)
  <2> QED BY <1>1, <1>3, <2>3 DEF Below
<1>4. CASE p[1] # t
  <2>1. finish_time[t] = TxnId(start_time[t]) /\ start_time[t] \in Nat
    BY DEF LockingInv, ClockInv, TypeOK, Over
  <2>2. Rec(p).ts \in Int /\ Rec(p).ts # finish_time[t]
    BY <1>2, <1>4, <2>1, ForeignTimestamp
  <2>3. Committed(Rec(p).ts) /\ ~NewerThan(Rec(p).ts, start_time[t])
    BY <2>2 DEF HasConflict
  <2>4. Rec(p).ts <= start_time[t]
    BY <2>1, <2>2, <2>3, SMTT(30) DEF NewerThan, Committed
  <2> QED BY <1>1, <1>4, <2>3, <2>4 DEF Below
<1> QED
  BY <1>3, <1>4

\* The last record of a writer before it is installed, as the next lemmas use it.
LEMMA LastRecord ==
    ASSUME LockingInv, NEW t \in Txns, pc[t] \in {"wr_read", "wr_image", "wr_cas"}
    PROVE  LET n == Len(undo[t])
               r == undo[t][n]
           IN /\ n \in Nat \ {0} /\ n \in DOMAIN undo[t] /\ DOMAIN undo[t] = 1 .. n /\ r \in Record
              /\ r.ts = finish_time[t] /\ r.slot = op[t].slot /\ r.slot \in Slots /\ r.table
              /\ op[t].cols = DOMAIN r.delta /\ (r.type = "UPDATE" => DOMAIN r.delta # {})
              /\ r.next # Null => OnChain(r.next, r.slot) /\ Below(t, n, r.next)
<1> DEFINE n == Len(undo[t])
           r == undo[t][n]
<1>1. TypeOK /\ RecordInv /\ pc[t] \in Writing
  BY DEF LockingInv, Writing
<1>2. n \in DOMAIN undo[t] /\ n \in Nat \ {0} /\ undo[t] \in Seq(Record) /\ DOMAIN undo[t] = 1 .. n
  BY <1>1, LastType, SeqDomain, SMTT(30) DEF TypeOK
<1>3. r \in Record
  BY <1>2, SeqDomain
<1>4. finish_time[t] = TxnId(start_time[t])
  BY DEF LockingInv, ClockInv, Over
<1>5. r.ts = finish_time[t]
  BY <1>2, <1>4 DEF LockingInv, RecordInv, TsOf, Over, Flipping
<1>6. r.slot = op[t].slot /\ r.table /\ op[t].cols = DOMAIN r.delta
  BY <1>1 DEF RecordInv
<1>7. r.type = "UPDATE" => DOMAIN r.delta # {}
  BY <1>1, <1>2 DEF RecordInv
<1>8. r.next # Null => OnChain(r.next, r.slot) /\ Below(t, n, r.next)
  BY <1>2 DEF LockingInv, ChainInv
<1>9. r.slot \in Slots
  BY <1>3 DEF Record
<1> QED
  BY <1>2, <1>3, <1>5, <1>6, <1>7, <1>8, <1>9

\* Such a writer replaces its last record by q, goes to b and has the local
\* variables o.
Overwrite(t, b, o, n, q) ==
    /\ n = Len(undo[t]) /\ undo' = [undo EXCEPT ![t] = [undo[t] EXCEPT ![n] = q]]
    /\ ver' = ver /\ UNCHANGED <<start_time, finish_time, time, present, alloc>>
    /\ pc' = [pc EXCEPT ![t] = b] /\ op' = [op EXCEPT ![t] = o]
    /\ b \in {"running", "wr_read", "wr_image", "wr_cas"}
    /\ q.ts = finish_time[t] /\ q.slot = op[t].slot
    /\ q.type = "UPDATE" => DOMAIN q.delta # {}
    /\ b = "running" => ~q.table
    /\ b # "running" => o.slot = op[t].slot /\ q.table /\ o.cols = DOMAIN q.delta
    /\ q.next # Null => OnChain(q.next, q.slot) /\ Below(t, n, q.next)
    /\ b \in {"wr_image", "wr_cas"} =>
         /\ o.ptr # Null => OnChain(o.ptr, o.slot) /\ Below(t, n, o.ptr)
         /\ \A u \in Txns \ {t} : pc[u] = "ins_ptr" => op[u].slot # o.slot

\* That keeps the invariant.
LEMMA OverwriteStep ==
    ASSUME LockingInv, TypeOK', NEW t \in Txns, NEW b, NEW o \in Locals, NEW q \in Record, NEW n,
           pc[t] \in {"wr_read", "wr_image", "wr_cas"}, Overwrite(t, b, o, n, q)
    PROVE  LockingInv'
<1> USE DEF Overwrite
<1>1. /\ n \in Nat \ {0} /\ n \in DOMAIN undo[t] /\ DOMAIN undo[t] = 1 .. n
      /\ undo[t][n].slot = op[t].slot /\ TypeOK
  BY LastRecord DEF LockingInv
<1>2. /\ \A u \in Txns : Len(undo'[u]) = Len(undo[u]) /\ DOMAIN undo'[u] = DOMAIN undo[u]
      /\ \A u \in Txns : \A j \in DOMAIN undo[u] :
            undo'[u][j] = IF u = t /\ j = n THEN q ELSE undo[u][j]
  BY <1>1, UndoOverwrite
<1>3. /\ \A u \in Txns \ {t} : undo'[u] = undo[u]
      /\ Len(undo'[t]) = n /\ DOMAIN undo'[t] = 1 .. n /\ undo'[t][n] = q
      /\ \A i \in 1 .. n - 1 : i \in DOMAIN undo[t] /\ undo'[t][i] = undo[t][i]
  <2>1. \A u \in Txns \ {t} : undo'[u] = undo[u]
    BY <1>1 DEF TypeOK
  <2> QED BY <1>1, <1>2, <2>1, SMTT(30)
<1>4. /\ pc[t] \in {"running", "wr_read", "wr_image", "wr_cas"}
      /\ b \in {"running", "wr_read", "wr_image", "wr_cas", "ins_ptr"} /\ b # "ins_ptr"
      /\ IF pc[t] = "running" THEN Len(undo[t]) = n - 1
         ELSE Len(undo[t]) = n /\ q.slot = undo[t][n].slot
      /\ b # "running" => q.slot = o.slot /\ q.table
      /\ b \in {"wr_read", "wr_image", "wr_cas"} => o.cols = DOMAIN q.delta
  BY <1>1
<1>5. PrivateChange(t, b, o, n, q)
  <2>1. ver' = ver /\ UNCHANGED <<start_time, finish_time, time, present>>
    OBVIOUS
  <2>2. \A s \in Slots : alloc[s] => alloc'[s]
    OBVIOUS
  <2> QED BY <1>3, <1>4, <2>1, <2>2 DEF PrivateChange
<1> QED
  BY <1>1, <1>5, PrivateStep

\* The steps of Update and Delete up to the compare-and-swap, and a failed one.
LEMMA WriteInv ==
    ASSUME LockingInv, NEW t \in Txns, UNCHANGED <<tmVars, mgrVars>>,
           \/ WriteRead(t) \/ WriteImage(t)
           \/ WriteCAS(t) /\ ver[op[t].slot] # op[t].ptr
    PROVE  LockingInv'
<1> DEFINE n == Len(undo[t])
           r == undo[t][n]
           s == op[t].slot
<1>0. TypeOK /\ TypeOK'
  BY WriteType DEF LockingInv
<1>1. pc[t] \in {"wr_read", "wr_image", "wr_cas"}
  BY DEF WriteRead, WriteImage, WriteCAS
<1>2. /\ n \in Nat \ {0} /\ n \in DOMAIN undo[t] /\ DOMAIN undo[t] = 1 .. n /\ r \in Record
      /\ r.ts = finish_time[t] /\ r.slot = s /\ s \in Slots /\ r.table
      /\ op[t].cols = DOMAIN r.delta /\ (r.type = "UPDATE" => DOMAIN r.delta # {})
      /\ r.next # Null => OnChain(r.next, r.slot) /\ Below(t, n, r.next)
  BY <1>1, LastRecord
<1>3. op[t] \in Locals /\ op \in [Txns -> Locals] /\ op[t].ptr \in Ptrs \cup {Null}
  BY <1>0 DEF TypeOK, Locals
<1>4. UNCHANGED <<start_time, finish_time, time, present, alloc>>
  BY DEF WriteRead, WriteImage, WriteCAS, txnVars, slotVars, tmVars
<1>5. undo = [undo EXCEPT ![t] = [undo[t] EXCEPT ![n] = r]]
  BY <1>0, <1>2, SMTT(30) DEF TypeOK
<1> HIDE DEF n, r, s
<1>6. ASSUME HasConflict(t, ver[s]) \/ ~Visible(s), WriteRead(t) PROVE LockingInv'
  <2> DEFINE q == [r EXCEPT !.table = FALSE]
  <2>1. /\ undo' = [undo EXCEPT ![t] = [undo[t] EXCEPT ![n] = q]]
        /\ op' = [op EXCEPT ![t] = NoOp] /\ pc' = [pc EXCEPT ![t] = "running"] /\ ver' = ver
    BY <1>6 DEF WriteRead, Goto, slotVars, n, r, s
  <2>2. /\ q \in Record /\ q.ts = r.ts /\ q.slot = r.slot /\ q.type = r.type /\ q.delta = r.delta
        /\ q.next = r.next /\ ~q.table
    BY <1>2 DEF Record
  <2> HIDE DEF q
  <2>3. Overwrite(t, "running", NoOp, n, q)
    BY <1>2, <1>4, <2>1, <2>2 DEF Overwrite, n, s
  <2> QED BY <1>0, <1>1, <2>2, <2>3, NoOpType, OverwriteStep, SMTT(30)
<1>7. ASSUME ~(HasConflict(t, ver[s]) \/ ~Visible(s)), WriteRead(t) PROVE LockingInv'
  <2> DEFINE o == [op[t] EXCEPT !.ptr = ver[s]]
  <2>1. /\ undo' = undo /\ ver' = ver /\ pc[t] = "wr_read"
        /\ op' = [op EXCEPT ![t] = o] /\ pc' = [pc EXCEPT ![t] = "wr_image"]
    BY <1>7 DEF WriteRead, Goto, slotVars, s
  <2>2. ver[s] \in Ptrs \cup {Null}
    BY <1>0, <1>2, PointerTypes
  <2>3. o \in Locals /\ o.slot = s /\ o.cols = op[t].cols /\ o.ptr = ver[s]
    BY <1>3, <2>2 DEF Locals, s
  <2>4. o.ptr # Null => OnChain(o.ptr, o.slot) /\ Below(t, n, o.ptr)
    BY <1>2, <1>7, <2>1, <2>3, NoConflict DEF n
  <2>5. \A u \in Txns \ {t} : pc[u] = "ins_ptr" => op[u].slot # o.slot
    BY <1>7, <2>3 DEF Visible, LockingInv, InsertInv
  <2> HIDE DEF o
  <2>6. Overwrite(t, "wr_image", o, n, r)
    BY <1>2, <1>4, <1>5, <2>1, <2>3, <2>4, <2>5 DEF Overwrite, n, s
  <2> QED BY <1>0, <1>1, <1>2, <2>3, <2>6, OverwriteStep, SMTT(30)
<1>8. CASE WriteImage(t)
  <2> DEFINE image == [c \in op[t].cols |-> val[s][c]]
             q == [r EXCEPT !.delta = image, !.next = op[t].ptr]
  <2>1. /\ undo' = [undo EXCEPT ![t] = [undo[t] EXCEPT ![n] = q]] /\ ver' = ver /\ pc[t] = "wr_image"
        /\ op' = [op EXCEPT ![t] = op[t]] /\ pc' = [pc EXCEPT ![t] = "wr_cas"]
    BY <1>3, <1>8 DEF WriteImage, Goto, slotVars, n, r, s
  <2>2. image \in Images /\ DOMAIN image = op[t].cols
    <3>1. image \in [op[t].cols -> Vals] /\ op[t].cols \in SUBSET Cols
      BY <1>0, <1>2, <1>3, SMTT(30) DEF Locals, TypeOK
    <3> QED BY <3>1, ImageType
  <2> HIDE DEF image
  <2>3. /\ q \in Record /\ q.ts = r.ts /\ q.slot = r.slot /\ q.type = r.type /\ q.delta = image
        /\ q.next = op[t].ptr /\ q.table
    BY <1>2, <1>3, <2>2 DEF Record
  <2> HIDE DEF q
  <2>4. op[t].ptr # Null => OnChain(op[t].ptr, s) /\ Below(t, n, op[t].ptr)
    BY <2>1 DEF LockingInv, ChainInv, n, s
  <2>5. \A u \in Txns \ {t} : pc[u] = "ins_ptr" => op[u].slot # op[t].slot
    BY <2>1 DEF LockingInv, InsertInv
  <2>6. Overwrite(t, "wr_cas", op[t], n, q)
    BY <1>2, <1>4, <2>1, <2>2, <2>3, <2>4, <2>5 DEF Overwrite, n, s
  <2> QED BY <1>0, <1>1, <1>3, <2>3, <2>6, OverwriteStep, SMTT(30)
<1>9. CASE WriteCAS(t) /\ ver[s] # op[t].ptr
  <2>1. /\ undo' = undo /\ ver' = ver /\ op' = [op EXCEPT ![t] = op[t]] /\ pc' = [pc EXCEPT ![t] = "wr_read"]
    BY <1>0, <1>3, <1>9 DEF WriteCAS, CompareAndSwapVersionPtr, Goto, s, TypeOK
  <2>2. Overwrite(t, "wr_read", op[t], n, r)
    BY <1>2, <1>4, <1>5, <2>1 DEF Overwrite, n, s
  <2> QED BY <1>0, <1>1, <1>2, <1>3, <2>2, OverwriteStep, SMTT(30)
<1> QED
  BY <1>6, <1>7, <1>8, <1>9 DEF s

\* The loops that flip go from the first record to the last: when one of u's
\* records still carries the id, so do the later ones.
LEMMA LaterUncommitted ==
    ASSUME LockingInv, NEW u \in Txns, NEW i \in DOMAIN undo[u], NEW j \in DOMAIN undo[u],
           j >= i, ~Committed(undo[u][i].ts)
    PROVE  undo[u][j].ts = TxnId(start_time[u]) /\ ~Committed(undo[u][j].ts)
<1>1. undo[u][i].ts = TsOf(u, i) /\ undo[u][j].ts = TsOf(u, j) /\ pc[u] # "idle"
  <2>1. pc[u] = "idle" => undo[u] = <<>>
    BY DEF LockingInv, RecordInv
  <2> QED BY <2>1, SMTT(30) DEF LockingInv, RecordInv
<1>2. start_time[u] \in Nat /\ finish_time[u] \in Int /\ op[u].ts \in Nat /\ op[u].idx \in Nat
  BY DEF LockingInv, TypeOK, Timestamp, Locals
<1>3. i \in Nat /\ j \in Nat
  BY SMTT(30) DEF LockingInv, TypeOK
<1>4. pc[u] \in Over => finish_time[u] > start_time[u]
  BY <1>1 DEF LockingInv, ClockInv
<1> QED
  BY <1>1, <1>2, <1>3, <1>4, SMTT(30) DEF TsOf, TxnId, Committed

\* A version pointer is swung to t's last record: the compare-and-swap of Update
\* and Delete, and the store of Insert.
LEMMA InstallInv ==
    ASSUME LockingInv, NEW t \in Txns, UNCHANGED <<tmVars, mgrVars>>,
           (WriteCAS(t) /\ ver[op[t].slot] = op[t].ptr) \/ InsertPtr(t)
    PROVE  LockingInv'
<1> USE DEF LockingInv
<1> DEFINE s == op[t].slot
<1>0. TypeOK'
  BY WriteType, InsertType
<1>n. PICK n : n = Len(undo[t])
  OBVIOUS
<1>1. /\ pc[t] \in {"wr_cas", "ins_ptr"} /\ UNCHANGED <<op, undo, start_time, finish_time, time, alloc, present>>
      /\ \A u \in Txns : pc'[u] = IF u # t THEN pc[u]
                                  ELSE IF pc[t] = "wr_cas" THEN "wr_apply" ELSE "ins_present"
      /\ pc[t] = "wr_cas" => ver[s] = op[t].ptr
  BY DEF WriteCAS, InsertPtr, Goto, txnVars, tmVars, TypeOK
<1>2. ver' = [ver EXCEPT ![s] = <<t, n>>]
  BY <1>n DEF WriteCAS, InsertPtr, CompareAndSwapVersionPtr, Last
<1>3. n \in DOMAIN undo[t] /\ n \in Nat /\ undo[t][n].slot = s /\ undo[t][n].table /\ s \in Slots
  BY <1>1, <1>n, LastType, LastSlot, SMTT(30) DEF RecordInv, Writing
<1> HIDE DEF s
<1>4. \A x \in Slots : ver'[x] = IF x = s THEN <<t, n>> ELSE ver[x]
  BY <1>2, <1>3 DEF TypeOK
<1>5. Installed(t, n)' /\ \A u \in Txns : \A i : Installed(u, i) => Installed(u, i)'
  <2>1. pc'[t] \notin {"wr_read", "wr_image", "wr_cas", "ins_ptr"}
    BY <1>1
  <2>2. \A u \in Txns : u # t => pc'[u] = pc[u]
    BY <1>1
  <2>3. Installed(t, n)'
    BY <1>1, <1>3, <2>1 DEF Installed
  <2>4. \A u \in Txns : \A i : Installed(u, i) => Installed(u, i)'
    BY <1>1, <2>1, <2>2 DEF Installed
  <2> QED BY <2>3, <2>4
<1>6. \A u \in Txns : \A i : Installed(u, i)' => Installed(u, i) \/ (u = t /\ i = n)
  BY <1>1, <1>n DEF Installed
<1>7. \A p \in Ptrs : \A x : OnChain(p, x) => OnChain(p, x)'
  BY <1>1, <1>5 DEF OnChain, Ptrs, Rec
<1>8. \A u \in Txns : \A i : \A p : Below(u, i, p) => Below(u, i, p)'
  BY <1>1 DEF Below, Rec
<1>9. ClockInv'
  BY <1>1 DEF ClockInv, Over, Flipping
<1>10. RecordInv'
  <2>1. \A u \in Txns : \A i \in DOMAIN undo[u] : TsOf(u, i)' = TsOf(u, i)
    BY <1>1 DEF TsOf, Over, Flipping
  <2> QED BY <1>1, <2>1, SMTT(30) DEF RecordInv, Writing
<1>11. ChainInv'
  <2>1. ASSUME NEW x \in Slots, ver'[x] # Null PROVE OnChain(ver[x], x)'
    <3>1. CASE x = s
      <4>1. ver'[x] = <<t, n>>
        BY <1>4, <3>1
      <4>2. ver'[x][1] = t /\ ver'[x][2] = n
        BY <4>1, SMTT(30)
      <4>3. Installed(ver[x][1], ver[x][2])'
        BY <1>5, <4>2
      <4>4. Rec(ver[x])'.slot = x
        BY <1>1, <1>3, <3>1, <4>2 DEF Rec
      <4> QED BY <4>3, <4>4 DEF OnChain
    <3>2. CASE x # s
      BY <1>4, <1>7, <2>1, <3>2, PointerTypes DEF ChainInv
    <3> QED BY <3>1, <3>2
  <2>2. ASSUME NEW u \in Txns, NEW i \in DOMAIN undo[u], undo[u][i].next # Null
        PROVE  OnChain(undo[u][i].next, undo[u][i].slot)' /\ Below(u, i, undo[u][i].next)'
    BY <1>1, <1>7, <1>8, <2>2, PointerTypes DEF ChainInv
  <2>3. ASSUME NEW u \in Txns, pc'[u] \in {"wr_image", "wr_cas"}, op[u].ptr # Null
        PROVE  OnChain(op[u].ptr, op[u].slot)' /\ Below(u, Len(undo[u]), op[u].ptr)'
    <3>1. pc[u] \in {"wr_image", "wr_cas"}
      BY <1>1, <2>3
    <3> QED BY <1>1, <1>7, <1>8, <2>3, <3>1, PointerTypes DEF ChainInv
  <2>4. ASSUME NEW u \in Txns, pc'[u] = "abort_undo"
        PROVE  /\ op[u].ptr # Null /\ op[u].ptr[1] = u /\ Installed(u, op[u].ptr[2])'
               /\ Unfinished(Rec(op[u].ptr)', op[u].cols)
    <3>1. pc[u] = "abort_undo" /\ Rec(op[u].ptr)' = Rec(op[u].ptr)
      BY <1>1, <2>4 DEF Rec
    <3> QED BY <1>1, <1>5, <3>1, SMTT(30) DEF ChainInv
  <2> QED BY <1>1, <2>1, <2>2, <2>3, <2>4 DEF ChainInv
<1>12. ReadInv'
  <2>1. ASSUME NEW u \in Txns, pc'[u] \in {"sel_ptr", "sel_copy", "sel_check", "sel_walk"}
        PROVE  /\ op[u].slot \in Slots
               /\ pc'[u] # "sel_ptr" /\ op[u].ptr # Null => OnChain(op[u].ptr, op[u].slot)'
    <3>1. pc'[u] = pc[u]
      BY <1>1, <2>1
    <3> QED BY <1>1, <1>7, <2>1, <3>1, PointerTypes DEF ReadInv
  <2> QED BY <1>1, <2>1 DEF ReadInv
<1>13. LockInv'
  <2>1. ASSUME NEW u \in Txns, NEW i \in DOMAIN undo[u], Installed(u, i)', ~Committed(undo[u][i].ts)
        PROVE  LET p == ver'[undo[u][i].slot] IN p # Null /\ p[1] = u /\ p[2] >= i
    <3>0. undo[u][i].slot \in Slots
      BY PointerTypes DEF Record
    <3>1. CASE undo[u][i].slot # s
      <4>1. Installed(u, i)
        BY <1>3, <1>6, <2>1, <3>1
      <4> QED BY <1>4, <2>1, <3>0, <3>1, <4>1, SMTT(30) DEF LockInv
    <3>2. CASE undo[u][i].slot = s /\ u = t
      <4>1. i <= n /\ <<t, n>> # Null
        <5>1. undo[t] \in Seq(Record) /\ Last(t) \in Ptrs
          BY <1>1, LastType DEF TypeOK, Writing
        <5> QED BY <1>n, <3>2, <5>1, NullAssumption, SeqDomain, SMTT(30) DEF Last, Ptrs
      <4> QED BY <1>3, <1>4, <3>2, <4>1, SMTT(30)
    <3>3. CASE undo[u][i].slot = s /\ u # t
      <4>1. Installed(u, i)
        BY <1>6, <2>1, <3>3
      <4>2. ver[s] # Null /\ ver[s][1] = u /\ ver[s][2] >= i
        BY <2>1, <3>3, <4>1 DEF LockInv
      <4>3. pc[t] = "wr_cas"
        BY <1>1, <3>3, <4>1 DEF InsertInv, s
      <4>4. Committed(Rec(ver[s]).ts)
        BY <1>1, <3>3, <4>2, <4>3 DEF ChainInv, Below, s
      <4>5. ver[s][2] \in DOMAIN undo[u] /\ Rec(ver[s]) = undo[u][ver[s][2]]
        BY <1>3, <4>2 DEF ChainInv, OnChain, Installed, Rec
      <4>6. ~Committed(Rec(ver[s]).ts)
        BY <2>1, <4>2, <4>5, LaterUncommitted, SMTT(30)
      <4> QED BY <4>4, <4>6
    <3> QED BY <3>1, <3>2, <3>3
  <2>2. undo' = undo
    BY <1>1
  <2> QED BY <2>1, <2>2 DEF LockInv
<1>14. InsertInv'
  <2>1. ASSUME NEW u \in Txns, pc'[u] = "ins_ptr"
        PROVE  /\ ~present[op[u].slot]
               /\ \A w \in Txns : \A i \in DOMAIN undo[w] : Installed(w, i)' => undo[w][i].slot # op[u].slot
               /\ \A w \in Txns \ {u} : pc'[w] \in {"wr_image", "wr_cas", "ins_ptr"} => op[w].slot # op[u].slot
    <3>1. u # t /\ pc[u] = "ins_ptr"
      BY <1>1, <2>1
    <3>2. op[t].slot # op[u].slot
      BY <1>1, <3>1 DEF InsertInv
    <3>3. ~present[op[u].slot]
      BY <3>1 DEF InsertInv
    <3>4. ASSUME NEW w \in Txns, NEW i \in DOMAIN undo[w], Installed(w, i)' PROVE undo[w][i].slot # op[u].slot
      BY <1>3, <1>6, <3>1, <3>2, <3>4 DEF InsertInv, s
    <3>5. ASSUME NEW w \in Txns \ {u}, pc'[w] \in {"wr_image", "wr_cas", "ins_ptr"} PROVE op[w].slot # op[u].slot
      BY <1>1, <3>1, <3>5 DEF InsertInv
    <3> QED BY <3>3, <3>4, <3>5
  <2>2. ASSUME NEW x \in Slots, ~alloc[x], \A u \in Txns : \A i \in DOMAIN undo[u] : undo[u][i].slot # x
        PROVE  ~present[x]
    BY <2>2 DEF InsertInv
  <2> QED BY <1>1, <2>1, <2>2 DEF InsertInv
<1> QED
  BY <1>0, <1>9, <1>10, <1>11, <1>12, <1>13, <1>14

-----------------------------------------------------------------------------
(* Commit, abort, and what follows from the invariant.                    *)

\* The loops that flip the records' timestamps, of Commit and of Abort.
LEMMA FlipInv ==
    ASSUME LockingInv, NEW t \in Txns, CommitFlip(t) \/ AbortFlip(t)
    PROVE  LockingInv'
<1> USE DEF LockingInv
<1>0. TypeOK' /\ pc[t] \in Flipping /\ FlipRecord(t)
  BY FlipType DEF CommitFlip, AbortFlip, Flipping
<1>n. PICK n : n = op[t].idx
  OBVIOUS
<1>1. n \in DOMAIN undo[t] /\ n \in Nat /\ undo[t][n] \in Record /\ op[t] \in Locals /\ op[t].ts \in Nat
  <2>1. n \in Nat /\ n > 0 /\ n <= Len(undo[t]) /\ undo[t] \in Seq(Record)
    BY <1>0, <1>n DEF FlipRecord, TypeOK, Locals, ClockInv, Flipping
  <2>2. n \in DOMAIN undo[t]
    BY <2>1, SeqDomain, SMTT(30)
  <2> QED BY <2>1, <2>2, SeqDomain, SMTT(30) DEF TypeOK, Locals
<1> DEFINE r == [undo[t][n] EXCEPT !.ts = op[t].ts]
<1>2. /\ UNCHANGED <<pc, ver, start_time, finish_time, time, alloc, present>>
      /\ \A u \in Txns : op'[u] = IF u = t THEN [op[t] EXCEPT !.idx = n + 1] ELSE op[u]
  BY <1>0, <1>n DEF FlipRecord, txnVars, slotVars, tmVars, TypeOK
<1>3. /\ r \in Record /\ r.ts = op[t].ts /\ r.slot = undo[t][n].slot /\ r.type = undo[t][n].type
      /\ r.delta = undo[t][n].delta /\ r.next = undo[t][n].next /\ r.table = undo[t][n].table
  BY <1>1, SMTT(30) DEF Record, Timestamp
<1>4. undo' = [undo EXCEPT ![t] = [undo[t] EXCEPT ![n] = r]]
  BY <1>0, <1>n DEF FlipRecord
<1> HIDE DEF r
<1>5. /\ \A u \in Txns : Len(undo'[u]) = Len(undo[u]) /\ DOMAIN undo'[u] = DOMAIN undo[u]
      /\ \A u \in Txns : \A j \in DOMAIN undo[u] :
            undo'[u][j] = IF u = t /\ j = n THEN r ELSE undo[u][j]
  BY <1>1, <1>3, <1>4, UndoOverwrite
<1>6. \A u \in Txns : \A j \in DOMAIN undo[u] :
        /\ undo'[u][j].slot = undo[u][j].slot /\ undo'[u][j].type = undo[u][j].type
        /\ undo'[u][j].delta = undo[u][j].delta /\ undo'[u][j].next = undo[u][j].next
        /\ undo'[u][j].table = undo[u][j].table
        /\ ~(u = t /\ j = n) => undo'[u][j].ts = undo[u][j].ts
  BY <1>3, <1>5
<1>7. op'[t].idx = n + 1 /\ op'[t].ts = op[t].ts /\ op'[t].ptr = op[t].ptr /\ op'[t].slot = op[t].slot
  BY <1>1, <1>2 DEF Locals
<1>8. undo[t][n].ts = TxnId(start_time[t]) /\ ~Committed(undo[t][n].ts) /\ Committed(undo'[t][n].ts)
  <2>1. undo[t][n].ts = TxnId(start_time[t])
    BY <1>0, <1>1, <1>n, SMTT(30) DEF RecordInv, TsOf, Over, Flipping
  <2>2. start_time[t] \in Nat
    BY DEF TypeOK
  <2> QED BY <1>1, <1>3, <1>5, <2>1, <2>2, SMTT(30) DEF TxnId, Committed
<1>9. \A u \in Txns : \A i : Installed(u, i)' <=> Installed(u, i)
  BY <1>2, <1>5, <1>6, SMTT(30) DEF Installed
<1>10. ClockInv'
  BY <1>0, <1>1, <1>2, <1>7, SMTT(30) DEF ClockInv
<1>11. RecordInv'
  <2>1. ASSUME NEW u \in Txns, NEW i \in DOMAIN undo[u] PROVE undo'[u][i].ts = TsOf(u, i)'
    <3>0. i \in Nat
      BY SMTT(30) DEF TypeOK
    <3>1. CASE u # t
      BY <1>2, <1>6, <3>1, SMTT(30) DEF RecordInv, TsOf
    <3>2. CASE u = t
      <4>1. undo[t][i].ts = IF i < n THEN op[t].ts ELSE TxnId(start_time[t])
        BY <1>0, <1>n, <3>2 DEF RecordInv, TsOf, Over, Flipping
      <4>2. TsOf(t, i)' = IF i < n + 1 THEN op[t].ts ELSE TxnId(start_time[t])
        BY <1>0, <1>2, <1>7 DEF TsOf, Over, Flipping
      <4> QED BY <1>1, <1>3, <1>5, <1>6, <3>0, <3>2, <4>1, <4>2, SMTT(30)
    <3> QED BY <3>1, <3>2
  <2>2. ASSUME NEW u \in Txns
        PROVE  /\ pc[u] = "idle" => undo'[u] = <<>>
               /\ pc[u] \in Writing =>
                     /\ undo'[u] # <<>>
                     /\ undo'[u][Len(undo'[u])].slot = op'[u].slot /\ undo'[u][Len(undo'[u])].table
               /\ pc[u] \in {"wr_read", "wr_image", "wr_cas"} =>
                     op'[u].cols = DOMAIN undo'[u][Len(undo'[u])].delta
    <3>1. CASE u = t
      BY <1>0, <3>1 DEF Flipping, Writing
    <3>2. CASE u # t
      <4>1. undo'[u] = undo[u] /\ op'[u] = op[u]
        BY <1>2, <1>4, <3>2 DEF TypeOK
      <4> QED BY <4>1 DEF RecordInv
    <3> QED BY <3>1, <3>2
  <2>3. \A u \in Txns : \A i \in DOMAIN undo[u] : undo'[u][i].type = "UPDATE" => DOMAIN undo'[u][i].delta # {}
    BY <1>6, SMTT(30) DEF RecordInv
  <2> QED BY <1>2, <1>5, <2>1, <2>2, <2>3, SMTT(30) DEF RecordInv
<1>12. \A p \in Ptrs : \A x : OnChain(p, x) => OnChain(p, x)'
  BY <1>6, <1>9, SMTT(30) DEF OnChain, Ptrs, Rec, Installed
<1>13. \A u \in Txns : \A i : \A p \in Ptrs : \A x : OnChain(p, x) /\ Below(u, i, p) => Below(u, i, p)'
  <2>1. ASSUME NEW u \in Txns, NEW i, NEW p \in Ptrs, NEW x, OnChain(p, x), Below(u, i, p), p[1] # u
        PROVE  Committed(Rec(p)'.ts) /\ Rec(p)'.ts <= start_time[u]
    <3>1. p[1] \in Txns /\ p[2] \in DOMAIN undo[p[1]] /\ Committed(Rec(p).ts) /\ Rec(p).ts <= start_time[u]
      BY <2>1 DEF OnChain, Installed, Ptrs, Below
    <3>2. ~(p[1] = t /\ p[2] = n)
      BY <1>8, <3>1 DEF Rec
    <3>3. Rec(p)'.ts = Rec(p).ts
      BY <1>6, <3>1, <3>2 DEF Rec
    <3> QED BY <3>1, <3>3
  <2> QED BY <1>2, <2>1 DEF Below
<1>14. ChainInv'
  <2>1. ASSUME NEW x \in Slots, ver[x] # Null PROVE OnChain(ver[x], x)'
    BY <1>2, <1>12, <2>1, PointerTypes DEF ChainInv
  <2>2. ASSUME NEW u \in Txns, NEW i \in DOMAIN undo[u], undo'[u][i].next # Null
        PROVE  OnChain(undo[u][i].next, undo[u][i].slot)' /\ Below(u, i, undo[u][i].next)'
    <3>1. undo'[u][i].next = undo[u][i].next /\ undo'[u][i].slot = undo[u][i].slot
      BY <1>6
    <3> QED BY <1>12, <1>13, <2>2, <3>1, PointerTypes DEF ChainInv
  <2>3. ASSUME NEW u \in Txns, pc[u] \in {"wr_image", "wr_cas"}, op'[u].ptr # Null
        PROVE  OnChain(op[u].ptr, op[u].slot)' /\ Below(u, Len(undo[u]), op[u].ptr)'
    <3>1. u # t /\ op'[u] = op[u] /\ Len(undo'[u]) = Len(undo[u])
      BY <1>0, <1>2, <1>5, <2>3 DEF Flipping
    <3> QED BY <1>12, <1>13, <2>3, <3>1, PointerTypes DEF ChainInv
  <2>4. ASSUME NEW u \in Txns, pc[u] = "abort_undo"
        PROVE  /\ op'[u].ptr # Null /\ op'[u].ptr[1] = u /\ Installed(u, op[u].ptr[2])'
               /\ Unfinished(Rec(op[u].ptr)', op'[u].cols)
    <3>1. u # t /\ op'[u] = op[u]
      BY <1>0, <1>2, <2>4 DEF Flipping
    <3>2. undo'[u] = undo[u]
      BY <1>4, <3>1 DEF TypeOK
    <3>3. /\ op[u].ptr # Null /\ op[u].ptr[1] = u /\ Installed(u, op[u].ptr[2])
          /\ Unfinished(Rec(op[u].ptr), op[u].cols)
      BY <2>4 DEF ChainInv
    <3>4. Rec(op[u].ptr)' = Rec(op[u].ptr)
      BY <3>1, <3>2, <3>3 DEF Rec
    <3> QED BY <1>9, <3>1, <3>3, <3>4
  <2> QED BY <1>2, <1>5, <2>1, <2>2, <2>3, <2>4, SMTT(30) DEF ChainInv
<1>15. ReadInv'
  <2>1. ASSUME NEW u \in Txns, pc[u] \in {"sel_ptr", "sel_copy", "sel_check", "sel_walk"}
        PROVE  /\ op'[u].slot \in Slots
               /\ pc[u] # "sel_ptr" /\ op'[u].ptr # Null => OnChain(op[u].ptr, op[u].slot)'
    <3>1. op'[u].ptr = op[u].ptr /\ op'[u].slot = op[u].slot
      BY <1>2, <1>7
    <3> QED BY <1>12, <2>1, <3>1, PointerTypes DEF ReadInv
  <2> QED BY <1>2, <2>1 DEF ReadInv
<1>16. LockInv'
  <2>1. ASSUME NEW u \in Txns, NEW i \in DOMAIN undo[u], Installed(u, i)', ~Committed(undo'[u][i].ts)
        PROVE  LET p == ver[undo'[u][i].slot] IN p # Null /\ p[1] = u /\ p[2] >= i
    <3>1. ~(u = t /\ i = n)
      BY <1>8, <2>1
    <3>2. Installed(u, i) /\ ~Committed(undo[u][i].ts) /\ undo'[u][i].slot = undo[u][i].slot
      BY <1>6, <1>9, <2>1, <3>1
    <3> QED BY <3>2 DEF LockInv
  <2> QED BY <1>2, <1>5, <2>1, SMTT(30) DEF LockInv
<1>17. InsertInv'
  <2>1. \A u \in Txns : op'[u].slot = op[u].slot
    BY <1>2, <1>7
  <2>2. ASSUME NEW x \in Slots, ~alloc[x], \A u \in Txns : \A i \in DOMAIN undo[u] : undo'[u][i].slot # x
        PROVE  ~present[x]
    BY <1>6, <2>2, SMTT(30) DEF InsertInv
  <2>3. ASSUME NEW u \in Txns, pc[u] = "ins_ptr"
        PROVE  /\ ~present[op'[u].slot]
               /\ \A w \in Txns : \A i \in DOMAIN undo[w] : Installed(w, i)' => undo'[w][i].slot # op'[u].slot
               /\ \A w \in Txns \ {u} : pc[w] \in {"wr_image", "wr_cas", "ins_ptr"} => op'[w].slot # op'[u].slot
    <3>1. /\ ~present[op[u].slot]
          /\ \A w \in Txns : \A i \in DOMAIN undo[w] : Installed(w, i) => undo[w][i].slot # op[u].slot
          /\ \A w \in Txns \ {u} : pc[w] \in {"wr_image", "wr_cas", "ins_ptr"} => op[w].slot # op[u].slot
      BY <2>3 DEF InsertInv
    <3> QED BY <1>6, <1>9, <2>1, <3>1, SMTT(30)
  <2> QED BY <1>2, <1>5, <2>2, <2>3, SMTT(30) DEF InsertInv
<1> QED
  BY <1>0, <1>10, <1>11, <1>14, <1>15, <1>16, <1>17

\* The initial state: no transaction, no undo record, all chains empty.
LEMMA InitInv == Init => LockingInv
<1> SUFFICES ASSUME Init PROVE LockingInv
  OBVIOUS
<1> USE DEF Init
<1>1. TypeOK
  <2>1. undo \in [Txns -> Seq(Record)] /\ \A t \in Txns : Len(undo[t]) <= MaxUndo
    <3>1. \A t \in Txns : undo[t] = <<>> /\ Len(undo[t]) = 0
      BY SeqEmpty
    <3> QED BY <3>1, MaxUndoAssumption, SeqEmpty, SMTT(30)
  <2>2. op \in [Txns -> Locals]
    BY NoOpType
  <2>3. val \in [Slots -> [Cols -> Vals]]
    BY DEF Vals
  <2> QED BY <2>1, <2>2, <2>3, SMTT(30) DEF TypeOK, TMTypeOK, TMInit, Labels, Timestamp
<1>2. \A t \in Txns : pc[t] = "idle" /\ DOMAIN undo[t] = {} /\ undo[t] = <<>>
  BY SMTT(30)
<1>3. ClockInv /\ RecordInv /\ ReadInv /\ LockInv
  BY <1>2 DEF ClockInv, RecordInv, ReadInv, LockInv, Writing
<1>4. ChainInv
  BY <1>2 DEF ChainInv
<1>5. InsertInv
  BY <1>2 DEF InsertInv
<1> QED
  BY <1>1, <1>3, <1>4, <1>5 DEF LockingInv

\* Every step of the program keeps the locking invariant.
LEMMA NextInv == LockingInv /\ [Next]_vars => LockingInv'
<1> SUFFICES ASSUME LockingInv, [Next]_vars PROVE LockingInv'
  OBVIOUS
<1>1. ASSUME NEW t \in Txns, DTNext(t), UNCHANGED <<tmVars, mgrVars>> PROVE LockingInv'
  <2>1. ASSUME NEW s \in Slots, NEW kind \in {"SELECT", "ISVISIBLE"}, SelectBegin(t, s, kind) PROVE LockingInv'
    BY <1>1, <2>1, SelectInv
  <2>2. ASSUME NEW s \in Slots, NEW cols \in (SUBSET Cols) \ {{}}, WriteBegin(t, s, "UPDATE", cols) PROVE LockingInv'
    <3>1. TypeOK'
      BY <1>1, <2>2, WriteType
    <3>2. StartRecord(t, s, "UPDATE", cols, cols)
      BY <1>1, <2>2 DEF WriteBegin, Goto, txnVars, slotVars, tmVars, StartRecord
    <3> QED BY <3>1, <3>2, StartRecordInv
  <2>3. ASSUME NEW s \in Slots, WriteBegin(t, s, "DELETE", {}) PROVE LockingInv'
    <3>1. TypeOK'
      BY <1>1, <2>3, WriteType
    <3>2. StartRecord(t, s, "DELETE", {}, {})
      BY <1>1, <2>3 DEF WriteBegin, Goto, txnVars, slotVars, tmVars, StartRecord
    <3> QED BY <3>1, <3>2, StartRecordInv, SMTT(30)
  <2>4. ASSUME NEW s \in Slots, InsertBegin(t, s) PROVE LockingInv'
    <3>1. TypeOK'
      BY <1>1, <2>4, InsertType
    <3>2. \A x \in Slots : alloc[x] => alloc'[x]
      BY <2>4 DEF InsertBegin, LockingInv, TypeOK
    <3>3. StartRecord(t, s, "INSERT", {}, Cols)
      BY <1>1, <2>4, <3>2 DEF InsertBegin, Goto, txnVars, tmVars, StartRecord
    <3> QED BY <3>1, <3>3, StartRecordInv
  <2>5. CASE SelectPtr(t) \/ SelectCopy(t) \/ SelectVisible(t) \/ SelectCheck(t) \/ SelectWalk(t) \/ SelectReturn(t)
    BY <1>1, <2>5, SelectInv
  <2>6. CASE WriteRead(t) \/ WriteImage(t) \/ WriteCAS(t) \/ InsertPtr(t)
    BY <1>1, <2>6, WriteInv, InstallInv
  <2>7. CASE UpdateApply(t) \/ DeleteApply(t) \/ InsertPresent(t) \/ InsertVal(t)
    BY <1>1, <2>7, InPlaceInv
  <2> QED BY <1>1, <2>1, <2>2, <2>3, <2>4, <2>5, <2>6, <2>7 DEF DTNext
<1>2. ASSUME NEW t \in Txns, TxnStep(t) PROVE LockingInv'
  <2>1. CASE Begin(t)
    BY <2>1, BeginInv
  <2>2. CASE TraverseGate(t) \/ CommitLock(t)
    BY <2>2, GateInv
  <2>3. CASE \/ CommitReadOnly(t) \/ CommitTimestamp(t) \/ CommitUnlock(t) \/ CommitLog(t)
             \/ HandOff(t) \/ AbortTimestamp(t) \/ AbortFinish(t)
    BY <2>3, FinishInv
  <2>4. CASE CommitFlip(t) \/ AbortFlip(t)
    BY <2>4, FlipInv
  <2>5. CASE AbortBegin(t) \/ AbortScan(t) \/ RollbackUpdate(t) \/ RollbackInsertOrDelete(t)
    BY <2>5, RollbackInv
  <2> QED BY <1>1, <1>2, <2>1, <2>2, <2>3, <2>4, <2>5 DEF TxnStep
<1>3. CASE UNCHANGED vars
  <2>1. /\ UNCHANGED <<time, curr_running_txns, cached_oldest_txn_start_time>>
        /\ UNCHANGED <<pc, op, start_time, finish_time, must_abort, aborted, undo>>
        /\ UNCHANGED <<ver, alloc, present, val, txn_gate>>
    BY <1>3 DEF vars, tmVars, tableVars, txnVars, slotVars, mgrVars
  <2>2. TypeOK'
    BY <2>1 DEF LockingInv, TypeOK, TMTypeOK
  <2>3. \A u \in Txns : \A i : (Installed(u, i)' <=> Installed(u, i)) /\ TsOf(u, i)' = TsOf(u, i)
    BY <2>1 DEF Installed, TsOf
  <2>4. ClockInv' /\ RecordInv'
    <3>1. ClockInv'
      BY <2>1 DEF LockingInv, ClockInv
    <3>2. RecordInv'
      BY <2>1, <2>3 DEF LockingInv, RecordInv
    <3> QED BY <3>1, <3>2
  <2>5. ChainInv'
    <3>1. ASSUME NEW x \in Slots, ver[x] # Null PROVE OnChain(ver[x], x)'
      <4>1. OnChain(ver[x], x)
        BY <3>1 DEF LockingInv, ChainInv
      <4> QED BY <2>1, <4>1 DEF OnChain, Installed, Rec
    <3>2. ASSUME NEW u \in Txns, NEW i \in DOMAIN undo[u], undo[u][i].next # Null
          PROVE  OnChain(undo[u][i].next, undo[u][i].slot)' /\ Below(u, i, undo[u][i].next)'
      <4>1. OnChain(undo[u][i].next, undo[u][i].slot) /\ Below(u, i, undo[u][i].next)
        BY <3>2 DEF LockingInv, ChainInv
      <4> QED BY <2>1, <4>1 DEF OnChain, Installed, Below, Rec
    <3>3. \A u \in Txns : pc[u] \in {"wr_image", "wr_cas"} /\ op[u].ptr # Null =>
             OnChain(op[u].ptr, op[u].slot)' /\ Below(u, Len(undo[u]), op[u].ptr)'
      BY <2>1 DEF LockingInv, ChainInv, OnChain, Installed, Below, Rec
    <3>4. \A u \in Txns : pc[u] = "abort_undo" =>
             /\ op[u].ptr # Null /\ op[u].ptr[1] = u /\ Installed(u, op[u].ptr[2])'
             /\ Unfinished(Rec(op[u].ptr), op[u].cols)'
      BY <2>1 DEF LockingInv, ChainInv, Installed, Rec
    <3> QED BY <2>1, <3>1, <3>2, <3>3, <3>4 DEF ChainInv
  <2>6. ReadInv'
    BY <2>1 DEF LockingInv, ReadInv, OnChain, Installed, Rec
  <2>7. LockInv' /\ InsertInv'
    BY <2>1, <2>3, SMTT(30) DEF LockingInv, LockInv, InsertInv
  <2> QED BY <2>2, <2>4, <2>5, <2>6, <2>7 DEF LockingInv
<1> QED
  BY <1>2, <1>3 DEF Next, AllFinished

\* What the locking invariant says of the write lock and of the chains.
LEMMA InvImplies == LockingInv => TypeOK /\ WriteLockHeld /\ ChainSorted
<1> SUFFICES ASSUME LockingInv PROVE TypeOK /\ WriteLockHeld /\ ChainSorted
  OBVIOUS
<1>1. TypeOK
  BY DEF LockingInv
<1>2. WriteLockHeld
  <2>1. ASSUME NEW t \in Txns, NEW i \in DOMAIN undo[t], Installed(t, i), ~Committed(undo[t][i].ts)
        PROVE  LET p == ver[undo[t][i].slot] IN p # Null /\ p[1] = t /\ ~Committed(Rec(p).ts)
    <3> DEFINE s == undo[t][i].slot
               p == ver[s]
    <3>1. p # Null /\ p[1] = t /\ p[2] >= i
      BY <2>1 DEF LockingInv, LockInv
    <3>2. s \in Slots
      BY <1>1, PointerTypes DEF Record
    <3>3. OnChain(p, s)
      BY <3>1, <3>2, HeadOnChain
    <3> HIDE DEF p, s
    <3>4. p[2] \in DOMAIN undo[t] /\ Rec(p) = undo[t][p[2]]
      BY <3>1, <3>3, OwnRecord
    <3>5. ~Committed(Rec(p).ts)
      BY <2>1, <3>1, <3>4, LaterUncommitted, SMTT(30)
    <3> QED BY <3>1, <3>5 DEF p, s
  <2> QED BY <2>1 DEF WriteLockHeld
<1>3. ChainSorted
  <2>1. ASSUME NEW t \in Txns, NEW i \in DOMAIN undo[t], undo[t][i].next # Null
        PROVE  ~NewerThan(Rec(undo[t][i].next).ts, undo[t][i].ts)
    <3> DEFINE p == undo[t][i].next
    <3>1. OnChain(p, undo[t][i].slot) /\ Below(t, i, p) /\ p \in Ptrs
      BY <1>1, <2>1, PointerTypes DEF LockingInv, ChainInv
    <3> HIDE DEF p
    <3>2. p[1] \in Txns /\ p[2] \in DOMAIN undo[p[1]] /\ Rec(p) = undo[p[1]][p[2]]
      BY <3>1, OwnRecord DEF Ptrs
    <3>3. /\ start_time[t] \in Nat /\ finish_time[t] \in Int /\ op[t].ts \in Nat /\ op[t].idx \in Nat
          /\ i \in Nat /\ p[2] \in Nat
      <4>1. start_time[t] \in Nat /\ finish_time[t] \in Int
        BY <1>1 DEF TypeOK, Timestamp
      <4>2. op[t] \in Locals
        BY <1>1 DEF TypeOK
      <4>3. undo[t] \in Seq(Record) /\ undo[p[1]] \in Seq(Record)
        BY <1>1, <3>2 DEF TypeOK
      <4>4. DOMAIN undo[t] \subseteq Nat /\ DOMAIN undo[p[1]] \subseteq Nat
        BY <4>3, SMTT(30)
      <4> QED BY <2>1, <3>2, <4>1, <4>2, <4>4 DEF Locals
    <3>4. pc[t] # "idle" /\ undo[t][i].ts = TsOf(t, i)
      <4>1. pc[t] = "idle" => undo[t] = <<>>
        BY DEF LockingInv, RecordInv
      <4> QED BY <4>1, SMTT(30) DEF LockingInv, RecordInv
    <3>5. /\ pc[t] \in Over => finish_time[t] > start_time[t]
          /\ pc[t] \in Flipping => op[t].ts > start_time[t]
      BY <3>4 DEF LockingInv, ClockInv
    <3>6. CASE p[1] = t
      <4>1. Rec(p).ts = TsOf(t, p[2]) /\ p[2] < i
        BY <3>1, <3>2, <3>6 DEF LockingInv, RecordInv, Below
      <4> QED BY <3>3, <3>4, <3>5, <4>1, SMTT(30) DEF TsOf, TxnId, NewerThan, Committed, p
    <3>7. CASE p[1] # t
      <4>1. Committed(Rec(p).ts) /\ Rec(p).ts <= start_time[t]
        BY <3>1, <3>7 DEF Below
      <4>2. Rec(p).ts \in Int
        BY <1>1, <3>2, PointerTypes DEF Record, Timestamp
      <4> QED BY <3>3, <3>4, <3>5, <4>1, <4>2, SMTT(30) DEF TsOf, TxnId, NewerThan, Committed, p
    <3> QED BY <3>6, <3>7
  <2> QED BY <2>1 DEF ChainSorted
<1> QED
  BY <1>1, <1>2, <1>3

\* Every variable keeps its type.
THEOREM TypeCorrect == Spec => []TypeOK
  BY InitInv, NextInv, InvImplies, PTL DEF Spec

\* At most one transaction at a time can write a tuple: a transaction with an
\* unfinished record in a chain owns the head of that chain, and keeps it
\* through Commit's and Abort's loops until the last of its records is flipped
\* (the version pointer as a write lock, data_table.cpp:102).
THEOREM WriteLockSafe == Spec => []WriteLockHeld
  BY InitInv, NextInv, InvImplies, PTL DEF Spec

\* Version chains run from the newest to the oldest record, which both Select
\* and the collector's truncation rely on (garbage_collector.cpp:148).
THEOREM ChainsSorted == Spec => []ChainSorted
  BY InitInv, NextInv, InvImplies, PTL DEF Spec

\* Until a transaction commits or has rolled back, it owns every slot it wrote.
LEMMA OwnsSlot ==
    ASSUME LockingInv, NEW t \in Txns, NEW i \in DOMAIN undo[t], Installed(t, i),
           pc[t] \notin Over \cup Flipping
    PROVE  /\ ver[undo[t][i].slot] # Null /\ ver[undo[t][i].slot][1] = t
           /\ Rec(ver[undo[t][i].slot]).ts = finish_time[t]
<1> DEFINE s == undo[t][i].slot
           p == ver[s]
<1>1. pc[t] # "idle" /\ undo[t][i].ts = TsOf(t, i)
  <2>1. pc[t] = "idle" => undo[t] = <<>>
    BY DEF LockingInv, RecordInv
  <2> QED BY <2>1, SMTT(30) DEF LockingInv, RecordInv
<1>2. start_time[t] \in Nat
  BY DEF LockingInv, TypeOK
<1>3. finish_time[t] = TxnId(start_time[t]) /\ ~Committed(undo[t][i].ts)
  BY <1>1, <1>2, SMTT(30) DEF LockingInv, ClockInv, TsOf, TxnId, Committed
<1>4. p # Null /\ p[1] = t /\ p[2] >= i
  BY <1>3 DEF LockingInv, LockInv
<1>5. s \in Slots
  BY PointerTypes DEF Record, LockingInv
<1>6. OnChain(p, s)
  BY <1>4, <1>5, HeadOnChain
<1> HIDE DEF p, s
<1>7. p[2] \in DOMAIN undo[t] /\ Rec(p) = undo[t][p[2]]
  BY <1>4, <1>6, OwnRecord
<1>8. Rec(p).ts = TxnId(start_time[t])
  BY <1>3, <1>4, <1>7, LaterUncommitted, SMTT(30)
<1> QED
  BY <1>3, <1>4, <1>8 DEF p, s

\* The locking invariant implies that writers in place exclude each other, and
\* that Rollback starts at the owner's record.
LEMMA InvExcludes == LockingInv => InPlaceWrites
<1> SUFFICES ASSUME LockingInv PROVE InPlaceWrites
  OBVIOUS
<1>1. ASSUME NEW t \in Txns, NEW s \in Slots, WritesInPlace(t, s) PROVE ver[s][1] = t
  <2>1. CASE pc[t] \in {"wr_apply", "ins_present", "ins_val"} /\ op[t].slot = s
    <3> DEFINE n == Len(undo[t])
    <3>1. undo[t] \in Seq(Record) /\ undo[t] # <<>> /\ undo[t][n].slot = s /\ undo[t][n].table
      BY <2>1 DEF LockingInv, TypeOK, RecordInv, Writing
    <3>2. n \in DOMAIN undo[t]
      BY <3>1, SMTT(30)
    <3>3. Installed(t, n) /\ pc[t] \notin Over \cup Flipping
      BY <2>1, <3>1, <3>2 DEF Installed, Over, Flipping
    <3> HIDE DEF n
    <3> QED BY <3>1, <3>2, <3>3, OwnsSlot
  <2>2. CASE pc[t] = "abort_undo" /\ Rec(op[t].ptr).slot = s
    <3>1. op[t].ptr[1] = t /\ Installed(t, op[t].ptr[2]) /\ undo[t][op[t].ptr[2]].slot = s
      BY <2>2 DEF LockingInv, ChainInv, Rec
    <3>2. op[t].ptr[2] \in DOMAIN undo[t] /\ pc[t] \notin Over \cup Flipping
      BY <2>2, <3>1 DEF Installed, Over, Flipping
    <3> QED BY <3>1, <3>2, OwnsSlot
  <2> QED BY <1>1, <2>1, <2>2 DEF WritesInPlace
<1>2. InPlaceExclusive
  BY <1>1 DEF InPlaceExclusive
<1>3. ASSUME NEW t \in Txns, pc[t] = "abort_scan", op[t].idx <= Len(undo[t]), undo[t][op[t].idx].table
      PROVE  ver[undo[t][op[t].idx].slot] # Null /\ Rec(ver[undo[t][op[t].idx].slot]).ts = finish_time[t]
  <2>1. op[t].idx \in Nat /\ op[t].idx > 0 /\ undo[t] \in Seq(Record)
    <3>1. op[t] \in Locals /\ undo[t] \in Seq(Record)
      BY DEF LockingInv, TypeOK
    <3>2. op[t].idx > 0
      BY <1>3 DEF LockingInv, ClockInv
    <3> QED BY <3>1, <3>2 DEF Locals
  <2>2. op[t].idx \in DOMAIN undo[t]
    BY <1>3, <2>1, SMTT(30)
  <2>3. Installed(t, op[t].idx) /\ pc[t] \notin Over \cup Flipping
    BY <1>3, <2>2 DEF Installed, Over, Flipping
  <2> QED BY <2>2, <2>3, OwnsSlot
<1>4. RollbackHoldsLock
  BY <1>3 DEF RollbackHoldsLock
<1> QED
  BY <1>2, <1>4 DEF InPlaceWrites

\* Two threads never write a tuple in place at the same time (data_table.cpp:120,
\* transaction_manager.cpp:247), and the assertion of TransactionManager::Rollback holds
\* (transaction_manager.cpp:246).
THEOREM InPlaceSafe == Spec => []InPlaceWrites
  BY InitInv, NextInv, InvExcludes, PTL DEF Spec

\* The protocol of DataTable and TransactionManager keeps the invariant that all of this
\* rests on.
THEOREM LockingSafe == Spec => []LockingInv
  BY InitInv, NextInv, PTL DEF Spec
=============================================================================
