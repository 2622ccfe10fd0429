------------------------ MODULE TransactionStepProofs -----------------------
(***************************************************************************)
(* The locking invariant is kept while an undo record is appended and      *)
(* filled in, before any version chain reaches it, and by the steps that   *)
(* write tuples in place, begin a transaction, close and open its gate,    *)
(* and finish it.                                                          *)
(***************************************************************************)
EXTENDS TransactionTypeProofs

USE ZenonT(30)

-----------------------------------------------------------------------------
(* Records that no chain reaches.                                          *)

\* A step of t on its last undo record n while no chain reaches that record:
\* it is appended, filled in, given up, or nothing happens to it.  It is r
\* afterwards; t goes to b with the local variables o.
PrivateChange(t, b, o, n, r) ==
    /\ ver' = ver /\ UNCHANGED <<start_time, finish_time, time, present>>
    /\ pc' = [pc EXCEPT ![t] = b] /\ op' = [op EXCEPT ![t] = o]
    /\ pc[t] \in {"running", "wr_read", "wr_image", "wr_cas"}
    /\ b \in {"running", "wr_read", "wr_image", "wr_cas", "ins_ptr"}
    /\ \A u \in Txns \ {t} : undo'[u] = undo[u]
    /\ Len(undo'[t]) = n /\ DOMAIN undo'[t] = 1 .. n /\ undo'[t][n] = r
    /\ \A i \in 1 .. n - 1 : i \in DOMAIN undo[t] /\ undo'[t][i] = undo[t][i]
    /\ IF pc[t] = "running" THEN Len(undo[t]) = n - 1
       ELSE Len(undo[t]) = n /\ r.slot = undo[t][n].slot
    /\ r.ts = finish_time[t]
    /\ r.type = "UPDATE" => DOMAIN r.delta # {}
    /\ b = "running" => ~r.table
    /\ b # "running" => r.slot = o.slot /\ r.table
    /\ b \in {"wr_read", "wr_image", "wr_cas"} => o.cols = DOMAIN r.delta
    /\ r.next # Null => OnChain(r.next, r.slot) /\ Below(t, n, r.next)
    /\ b \in {"wr_image", "wr_cas"} =>
         /\ o.ptr # Null => OnChain(o.ptr, o.slot) /\ Below(t, n, o.ptr)
         /\ \A u \in Txns \ {t} : pc[u] = "ins_ptr" => op[u].slot # o.slot
    /\ b = "ins_ptr" =>
         /\ ~present[o.slot]
         /\ \A u \in Txns : \A i \in DOMAIN undo[u] : Installed(u, i) => undo[u][i].slot # o.slot
         /\ \A u \in Txns \ {t} : pc[u] \in {"wr_image", "wr_cas", "ins_ptr"} => op[u].slot # o.slot
    /\ \A s \in Slots : alloc[s] => alloc'[s]

\* Such a step keeps the invariant.
LEMMA PrivateStep ==
    ASSUME LockingInv, TypeOK', NEW t \in Txns, NEW b, NEW o \in Locals, NEW n \in Nat \ {0}, NEW r \in Record,
           PrivateChange(t, b, o, n, r)
    PROVE  LockingInv'
<1> USE DEF LockingInv, PrivateChange
<1>1. \A u \in Txns : /\ pc'[u] = IF u = t THEN b ELSE pc[u]
                      /\ op'[u] = IF u = t THEN o ELSE op[u]
  BY DEF TypeOK
<1>2. \A i \in DOMAIN undo[t] : i \in 1 .. n /\ (i # n => undo'[t][i] = undo[t][i])
  <2>1. undo[t] \in Seq(Record)
    BY DEF TypeOK
  <2> QED BY <2>1, SeqDomain, SMTT(30)
<1>3. \A u \in Txns : \A i : Installed(u, i)' <=> Installed(u, i)
  <2>1. \A i : Installed(t, i)' <=> Installed(t, i)
    <3>1. ~Installed(t, n)'
      BY <1>1 DEF Installed
    <3>2. ~Installed(t, n)
      BY <1>2, SMTT(30) DEF Installed
    <3>3. ASSUME NEW i, i # n PROVE Installed(t, i)' <=> Installed(t, i)
      <4>1. i \in DOMAIN undo'[t] <=> i \in DOMAIN undo[t]
        BY <1>2, <3>3, SMTT(30)
      <4>2. i \in DOMAIN undo[t] /\ i = Len(undo[t]) => pc[t] = "running"
        BY <1>2, <3>3
      <4> QED BY <1>2, <3>3, <4>1, <4>2 DEF Installed
    <3> QED BY <3>1, <3>2, <3>3
  <2>2. \A u \in Txns \ {t} : \A i : Installed(u, i)' <=> Installed(u, i)
    BY <1>1, SMTT(30) DEF Installed
  <2> QED BY <2>1, <2>2
<1>4. ~Installed(t, n)
  BY <1>2, SMTT(30) DEF Installed
<1>5. \A u \in Txns : \A i : Installed(u, i) => undo'[u][i] = undo[u][i]
  BY <1>2, <1>4, SMTT(30) DEF Installed
<1>6. \A p \in Ptrs : \A s : OnChain(p, s) => OnChain(p, s)' /\ Rec(p)' = Rec(p)
  BY <1>3, <1>5, SMTT(30) DEF OnChain, Ptrs, Rec
<1>7. \A u \in Txns : \A i : \A p \in Ptrs : \A s : OnChain(p, s) /\ Below(u, i, p) => Below(u, i, p)'
  BY <1>6 DEF Below
<1>8. finish_time[t] = TxnId(start_time[t]) /\ pc[t] # "idle"
  BY DEF ClockInv, Over
<1>9. ClockInv'
  BY <1>1, SMTT(30) DEF ClockInv, Over, Flipping
<1>10. RecordInv'
  <2>1. ASSUME NEW u \in Txns, u # t
        PROVE  /\ pc'[u] = "idle" => undo'[u] = <<>>
               /\ \A i \in DOMAIN undo'[u] : undo'[u][i].ts = TsOf(u, i)'
               /\ pc'[u] \in Writing =>
                     /\ undo'[u] # <<>>
                     /\ undo'[u][Len(undo'[u])].slot = op'[u].slot /\ undo'[u][Len(undo'[u])].table
               /\ \A i \in DOMAIN undo'[u] : undo'[u][i].type = "UPDATE" => DOMAIN undo'[u][i].delta # {}
               /\ pc'[u] \in {"wr_read", "wr_image", "wr_cas"} =>
                     op'[u].cols = DOMAIN undo'[u][Len(undo'[u])].delta
    <3>1. \A i \in DOMAIN undo[u] : TsOf(u, i)' = TsOf(u, i)
      BY <1>1, <2>1, SMTT(30) DEF TsOf
    <3> QED BY <1>1, <2>1, <3>1, SMTT(30) DEF RecordInv
  <2>2. \A i \in DOMAIN undo'[t] : undo'[t][i].ts = TsOf(t, i)'
    <3>1. \A i \in DOMAIN undo[t] : undo[t][i].ts = finish_time[t]
      BY <1>8, SMTT(30) DEF RecordInv, TsOf, Over, Flipping
    <3>2. \A i \in DOMAIN undo'[t] : TsOf(t, i)' = finish_time[t]
      BY <1>1, <1>8, SMTT(30) DEF TsOf, Over, Flipping
    <3> QED BY <3>1, <3>2, SMTT(30)
  <2>3. \A i \in DOMAIN undo'[t] : undo'[t][i].type = "UPDATE" => DOMAIN undo'[t][i].delta # {}
    <3>1. \A i \in DOMAIN undo[t] : undo[t][i].type = "UPDATE" => DOMAIN undo[t][i].delta # {}
      BY DEF RecordInv
    <3>2. \A i \in DOMAIN undo'[t] : i = n \/ (i \in DOMAIN undo[t] /\ undo'[t][i] = undo[t][i])
      BY SMTT(30)
    <3> HIDE DEF LockingInv
    <3> QED BY <3>1, <3>2, SMTT(30)
  <2>4. undo'[t] # <<>>
    BY SeqDomain
  <2> HIDE DEF LockingInv
  <2> QED BY <1>1, <2>1, <2>2, <2>3, <2>4, SMTT(30) DEF RecordInv, Writing
<1>11. ChainInv'
  <2>1. ASSUME NEW s \in Slots, ver[s] # Null PROVE OnChain(ver[s], s)'
    BY <1>6, <2>1, PointerTypes DEF ChainInv
  <2>2. ASSUME NEW u \in Txns, NEW i \in DOMAIN undo'[u], undo'[u][i].next # Null
        PROVE  OnChain(undo[u][i].next, undo[u][i].slot)' /\ Below(u, i, undo[u][i].next)'
    <3> DEFINE p == undo'[u][i].next
    <3>1. OnChain(p, undo'[u][i].slot) /\ Below(u, i, p) /\ p \in Ptrs
      <4>1. CASE u = t /\ i = n
        BY <2>2, <4>1 DEF Record
      <4>2. CASE ~(u = t /\ i = n)
        <5>1. i \in DOMAIN undo[u] /\ undo'[u][i] = undo[u][i]
          BY <2>2, <4>2, SMTT(30)
        <5> QED BY <2>2, <5>1, PointerTypes, SMTT(30) DEF ChainInv
      <4> QED BY <4>1, <4>2
    <3> QED BY <1>6, <1>7, <3>1
  <2>3. ASSUME NEW u \in Txns, pc'[u] \in {"wr_image", "wr_cas"}, op'[u].ptr # Null
        PROVE  OnChain(op[u].ptr, op[u].slot)' /\ Below(u, Len(undo[u]), op[u].ptr)'
    <3> DEFINE p == op'[u].ptr
    <3>1. OnChain(p, op'[u].slot) /\ Below(u, Len(undo'[u]), p) /\ p \in Ptrs
      <4>1. CASE u = t
        BY <1>1, <2>3, <4>1, SMTT(30) DEF Locals
      <4>2. CASE u # t
        BY <1>1, <2>3, <4>2, PointerTypes, SMTT(30) DEF ChainInv
      <4> QED BY <4>1, <4>2
    <3> QED BY <1>6, <1>7, <3>1
  <2>4. ASSUME NEW u \in Txns, pc'[u] = "abort_undo"
        PROVE  /\ op'[u].ptr # Null /\ op'[u].ptr[1] = u /\ Installed(u, op[u].ptr[2])'
               /\ Unfinished(Rec(op[u].ptr)', op'[u].cols)
    <3>1. u # t /\ pc[u] = "abort_undo" /\ op'[u] = op[u]
      BY <1>1, <2>4, SMTT(30)
    <3>2. /\ op[u].ptr # Null /\ op[u].ptr[1] = u /\ Installed(u, op[u].ptr[2])
          /\ Unfinished(Rec(op[u].ptr), op[u].cols)
      BY <3>1 DEF ChainInv
    <3>3. Rec(op[u].ptr)' = Rec(op[u].ptr)
      BY <3>1, <3>2, SMTT(30) DEF Rec
    <3> QED BY <1>3, <3>1, <3>2, <3>3
  <2> QED BY <2>1, <2>2, <2>3, <2>4 DEF ChainInv
<1>12. ReadInv'
  <2>1. ASSUME NEW u \in Txns, pc'[u] \in {"sel_ptr", "sel_copy", "sel_check", "sel_walk"}
        PROVE  /\ op'[u].slot \in Slots
               /\ pc'[u] # "sel_ptr" /\ op'[u].ptr # Null => OnChain(op[u].ptr, op[u].slot)'
    <3>1. pc'[u] = pc[u] /\ op'[u] = op[u]
      BY <1>1, <2>1, SMTT(30)
    <3> QED BY <1>6, <2>1, <3>1, PointerTypes, SMTT(30) DEF ReadInv
  <2> QED BY <2>1 DEF ReadInv
<1>13. LockInv'
  BY <1>3, <1>5, SMTT(30) DEF LockInv, Installed
<1>14. InsertInv'
  <2>1. ASSUME NEW u \in Txns, pc'[u] = "ins_ptr"
        PROVE  /\ ~present[op'[u].slot]
               /\ \A w \in Txns : \A i \in DOMAIN undo[w] : Installed(w, i) => undo[w][i].slot # op'[u].slot
               /\ \A w \in Txns \ {u} : pc'[w] \in {"wr_image", "wr_cas", "ins_ptr"} => op'[w].slot # op'[u].slot
    <3>1. CASE u = t
      BY <1>1, <2>1, <3>1, SMTT(30)
    <3>2. CASE u # t
      <4>1. pc[u] = "ins_ptr" /\ op'[u] = op[u]
        BY <1>1, <2>1, <3>2, SMTT(30)
      <4>2. ASSUME NEW w \in Txns \ {u}, pc'[w] \in {"wr_image", "wr_cas", "ins_ptr"}
            PROVE  op'[w].slot # op[u].slot
        <5>1. CASE w = t
          BY <1>1, <3>2, <4>1, <4>2, <5>1, SMTT(30)
        <5>2. CASE w # t
          BY <1>1, <4>1, <4>2, <5>2, SMTT(30) DEF InsertInv
        <5> QED BY <5>1, <5>2
      <4> QED BY <4>1, <4>2, SMTT(30) DEF InsertInv
    <3> QED BY <3>1, <3>2
  <2>2. ASSUME NEW u \in Txns, pc'[u] = "ins_ptr", NEW w \in Txns, NEW i \in DOMAIN undo'[w], Installed(w, i)'
        PROVE  undo'[w][i].slot # op'[u].slot
    <3>1. Installed(w, i) /\ i \in DOMAIN undo[w] /\ undo'[w][i] = undo[w][i]
      BY <1>3, <1>5, <2>2, SMTT(30) DEF Installed
    <3> QED BY <2>1, <2>2, <3>1, SMTT(30)
  <2>3. ASSUME NEW s \in Slots, ~alloc'[s], \A u \in Txns : \A i \in DOMAIN undo'[u] : undo'[u][i].slot # s
        PROVE  ~present[s]
    <3>1. \A u \in Txns : \A i \in DOMAIN undo[u] : undo[u][i].slot # s
      <4>1. \A u \in Txns \ {t} : \A i \in DOMAIN undo[u] : undo[u][i].slot # s
        BY <2>3, SMTT(30)
      <4>2. \A i \in DOMAIN undo[t] : i # n => undo[t][i].slot # s
        BY <1>2, <2>3, SMTT(30)
      <4>3. n \in DOMAIN undo[t] => undo[t][n].slot # s
        <5>1. undo[t] \in Seq(Record) /\ undo'[t][n].slot # s
          BY <2>3, SMTT(30) DEF TypeOK
        <5>2. n \in DOMAIN undo[t] => Len(undo[t]) # n - 1
          BY <5>1, SeqDomain, SMTT(30)
        <5> QED BY <5>1, <5>2
      <4> QED BY <4>1, <4>2, <4>3, SMTT(30)
    <3>2. ~alloc[s]
      BY <2>3
    <3> QED BY <3>1, <3>2 DEF InsertInv
  <2> QED BY <2>1, <2>2, <2>3 DEF InsertInv
<1> QED
  BY <1>9, <1>10, <1>11, <1>12, <1>13, <1>14

\* A write starts: the transaction's buffer gets a new record at its end.
StartRecord(t, s, kind, cols, all) ==
    /\ pc[t] = "running"
    /\ kind = "UPDATE" => cols # {}
    /\ kind = "INSERT" => Fresh(s)
    /\ kind # "INSERT" => all = cols
    /\ undo' = [undo EXCEPT ![t] = Append(@, NewRecord(t, kind, s, cols))]
    /\ op' = [op EXCEPT ![t] = [NoOp EXCEPT !.slot = s, !.kind = kind, !.cols = all]]
    /\ pc' = [pc EXCEPT ![t] = IF kind = "INSERT" THEN "ins_ptr" ELSE "wr_read"]
    /\ UNCHANGED <<start_time, finish_time, time, ver, present>>
    /\ \A x \in Slots : alloc[x] => alloc'[x]

\* Update, Delete and Insert begin with a new undo record.
LEMMA NewRecordInv ==
    ASSUME LockingInv, TypeOK', NEW t \in Txns, NEW s \in Slots, NEW kind \in {"INSERT", "UPDATE", "DELETE"},
           NEW cols \in SUBSET Cols, NEW all \in SUBSET Cols, pc[t] = "running",
           kind = "UPDATE" => cols # {},
           kind = "INSERT" => Fresh(s),
           kind # "INSERT" => all = cols,
           undo' = [undo EXCEPT ![t] = Append(@, NewRecord(t, kind, s, cols))],
           op' = [op EXCEPT ![t] = [NoOp EXCEPT !.slot = s, !.kind = kind, !.cols = all]],
           pc' = [pc EXCEPT ![t] = IF kind = "INSERT" THEN "ins_ptr" ELSE "wr_read"],
           UNCHANGED <<start_time, finish_time, time, ver, present>>,
           \A x \in Slots : alloc[x] => alloc'[x]
    PROVE  LockingInv'
<1> DEFINE n == Len(undo[t]) + 1
           r == NewRecord(t, kind, s, cols)
           o == [NoOp EXCEPT !.slot = s, !.kind = kind, !.cols = all]
           b == IF kind = "INSERT" THEN "ins_ptr" ELSE "wr_read"
<1>1. TypeOK /\ RecordInv /\ InsertInv
  BY DEF LockingInv
<1>2. r \in Record
  BY <1>1, NewRecordType
<1>3. /\ r.ts = finish_time[t] /\ r.slot = s /\ r.table /\ r.next = Null /\ DOMAIN r.delta = cols
      /\ r.type = kind
  BY DEF NewRecord
<1>4. o \in Locals /\ o.slot = s /\ o.cols = all
  BY NoOpType DEF Locals, NoOp
<1>5. n \in Nat \ {0} /\ Len(undo[t]) = n - 1 /\ DOMAIN undo[t] = 1 .. (n - 1)
  BY <1>1, SeqDomain, SMTT(30) DEF TypeOK
<1> HIDE DEF r
<1>6. /\ \A u \in Txns \ {t} : undo'[u] = undo[u]
      /\ Len(undo'[t]) = n /\ DOMAIN undo'[t] = 1 .. n /\ undo'[t][n] = r
      /\ \A i \in 1 .. n - 1 : i \in DOMAIN undo[t] /\ undo'[t][i] = undo[t][i]
  <2>1. undo' = [undo EXCEPT ![t] = Append(@, r)]
    BY DEF r
  <2>2. \A u \in Txns \ {t} : undo'[u] = undo[u]
    BY <1>1, <2>1 DEF TypeOK
  <2> QED BY <1>1, <1>2, <1>5, <2>1, <2>2, UndoAppend
<1>7. b = "ins_ptr" =>
        /\ ~present[s]
        /\ \A u \in Txns : \A i \in DOMAIN undo[u] : Installed(u, i) => undo[u][i].slot # s
        /\ \A u \in Txns \ {t} : pc[u] \in {"wr_image", "wr_cas", "ins_ptr"} => op[u].slot # s
  <2> SUFFICES ASSUME Fresh(s) PROVE
        /\ ~present[s]
        /\ \A u \in Txns : \A i \in DOMAIN undo[u] : Installed(u, i) => undo[u][i].slot # s
        /\ \A u \in Txns \ {t} : pc[u] \in {"wr_image", "wr_cas", "ins_ptr"} => op[u].slot # s
    OBVIOUS
  <2>1. ~present[s]
    BY <1>1 DEF Fresh, InsertInv
  <2>2. \A u \in Txns : \A i \in DOMAIN undo[u] : undo[u][i].slot # s
    BY DEF Fresh
  <2>3. ASSUME NEW u \in Txns, pc[u] \in {"wr_image", "wr_cas", "ins_ptr"} PROVE op[u].slot # s
    <3>1. Len(undo[u]) \in DOMAIN undo[u] /\ undo[u][Len(undo[u])].slot = op[u].slot
      BY <1>1, <2>3, LastType DEF RecordInv, Writing
    <3> QED BY <2>2, <3>1
  <2> QED BY <2>1, <2>2, <2>3
<1> HIDE DEF o, n
<1>8. op' = [op EXCEPT ![t] = o] /\ pc' = [pc EXCEPT ![t] = b]
  BY DEF o
<1> HIDE DEF b
<1>9. b \in {"wr_read", "ins_ptr"} /\ (b = "wr_read" => all = cols)
  BY DEF b
<1>10. /\ pc[t] \in {"running", "wr_read", "wr_image", "wr_cas"}
       /\ b \in {"running", "wr_read", "wr_image", "wr_cas", "ins_ptr"}
       /\ IF pc[t] = "running" THEN Len(undo[t]) = n - 1
          ELSE Len(undo[t]) = n /\ r.slot = undo[t][n].slot
       /\ r.type = "UPDATE" => DOMAIN r.delta # {}
       /\ b = "running" => ~r.table
       /\ b # "running" => r.slot = o.slot /\ r.table
       /\ b \in {"wr_read", "wr_image", "wr_cas"} => o.cols = DOMAIN r.delta
       /\ r.next # Null => OnChain(r.next, r.slot) /\ Below(t, n, r.next)
       /\ b \notin {"wr_image", "wr_cas"}
  BY <1>3, <1>4, <1>5, <1>9
<1>11. b = "ins_ptr" =>
        /\ ~present[o.slot]
        /\ \A u \in Txns : \A i \in DOMAIN undo[u] : Installed(u, i) => undo[u][i].slot # o.slot
        /\ \A u \in Txns \ {t} : pc[u] \in {"wr_image", "wr_cas", "ins_ptr"} => op[u].slot # o.slot
  BY <1>4, <1>7
<1>12. PrivateChange(t, b, o, n, r)
  <2>1. ver' = ver /\ UNCHANGED <<start_time, finish_time, time, present>>
    OBVIOUS
  <2> QED BY <1>3, <1>6, <1>8, <1>10, <1>11, <2>1 DEF PrivateChange
<1> QED
  BY <1>2, <1>4, <1>5, <1>12, PrivateStep

\* The same, of the step as a whole.
LEMMA StartRecordInv ==
    ASSUME LockingInv, TypeOK', NEW t \in Txns, NEW s \in Slots, NEW kind \in {"INSERT", "UPDATE", "DELETE"},
           NEW cols \in SUBSET Cols, NEW all \in SUBSET Cols, StartRecord(t, s, kind, cols, all)
    PROVE  LockingInv'
<1> USE DEF StartRecord
<1> QED
  BY NewRecordInv

-----------------------------------------------------------------------------
(* Steps that leave the chains alone.                                      *)

\* The steps of Update, Delete and Insert that write in place under the lock.
LEMMA InPlaceInv ==
    ASSUME LockingInv, NEW t \in Txns, UNCHANGED <<tmVars, mgrVars>>,
           UpdateApply(t) \/ DeleteApply(t) \/ InsertPresent(t) \/ InsertVal(t)
    PROVE  LockingInv'
<1>0. TypeOK'
  BY WriteType, InsertType
<1>1. TypeOK /\ op \in [Txns -> Locals] /\ op'[t] \in Locals /\ pc \in [Txns -> Labels] /\ pc'[t] \in Labels
  BY <1>0 DEF LockingInv, TypeOK
<1>2. op' = [op EXCEPT ![t] = op'[t]]
  BY <1>1 DEF UpdateApply, DeleteApply, InsertPresent, InsertVal
<1>3. pc' = [pc EXCEPT ![t] = pc'[t]]
  BY <1>1 DEF UpdateApply, DeleteApply, InsertPresent, InsertVal, Goto
<1>4. undo' = undo /\ ver' = ver /\ UNCHANGED <<start_time, finish_time, time>>
  BY DEF UpdateApply, DeleteApply, InsertPresent, InsertVal, txnVars, slotVars, tmVars
<1>5. /\ pc[t] \in {"wr_apply", "ins_present", "ins_val"}
      /\ pc'[t] \in {"running", "wr_apply", "ins_present", "ins_val"}
  BY <1>1 DEF UpdateApply, DeleteApply, InsertPresent, InsertVal, Goto
<1>6. pc'[t] \in Writing => op'[t].slot = op[t].slot
  <2> DEFINE rest == op[t].cols \ {Least(op[t].cols)}
  <2>1. CASE UpdateApply(t) \/ InsertVal(t)
    <3>1. /\ op'[t] = IF rest = {} THEN NoOp ELSE [op[t] EXCEPT !.cols = rest]
          /\ rest = {} => pc'[t] = "running"
      <4>1. CASE UpdateApply(t)
        BY <1>1, <4>1 DEF UpdateApply, Goto
      <4>2. CASE InsertVal(t)
        BY <1>1, <4>2 DEF InsertVal, Goto
      <4> QED BY <2>1, <4>1, <4>2
    <3> HIDE DEF rest
    <3> QED BY <1>1, <3>1 DEF Writing, Locals
  <2>2. CASE DeleteApply(t) \/ InsertPresent(t)
    BY <1>1, <2>2 DEF DeleteApply, InsertPresent, Writing, Goto
  <2> QED BY <2>1, <2>2
<1>7. SlotsJustified
  <2>1. CASE UpdateApply(t) \/ InsertVal(t)
    BY <2>1, SameSlots DEF UpdateApply, InsertVal
  <2>2. CASE DeleteApply(t)
    BY <1>1, <2>2 DEF DeleteApply, SlotsJustified, TypeOK
  <2>3. CASE InsertPresent(t)
    <3> DEFINE i == Len(undo[t])
    <3>1. pc[t] = "ins_present" /\ UNCHANGED alloc /\ present' = [present EXCEPT ![op[t].slot] = TRUE]
      BY <2>3 DEF InsertPresent
    <3>2. i \in DOMAIN undo[t] /\ undo[t][i].slot = op[t].slot /\ undo[t][i].table
      BY <3>1, LastType DEF LockingInv, RecordInv, Writing
    <3>3. Installed(t, i)
      BY <3>1, <3>2 DEF Installed
    <3> HIDE DEF i
    <3>4. \A s \in Slots : present'[s] /\ ~present[s] => s = op[t].slot
      BY <1>1, <3>1 DEF TypeOK
    <3> QED BY <3>1, <3>2, <3>3, <3>4 DEF SlotsJustified
  <2> QED BY <2>1, <2>2, <2>3
<1>8. pc[t] \notin Unstable \cup Over \cup Flipping /\ pc'[t] \notin Unstable \cup Over \cup Flipping
  BY <1>5 DEF Unstable, Over, Flipping
<1>9. /\ pc'[t] \notin {"sel_ptr", "sel_copy", "sel_check", "sel_walk"}
      /\ pc'[t] \notin {"abort_scan", "abort_undo"} /\ pc[t] \in Writing
  BY <1>5 DEF Writing
<1> QED
  BY <1>0, <1>1, <1>2, <1>3, <1>4, <1>6, <1>7, <1>8, <1>9, QuietStep

\* Passing the gate, and closing it.
LEMMA GateInv ==
    ASSUME LockingInv, NEW t \in Txns, TraverseGate(t) \/ CommitLock(t)
    PROVE  LockingInv'
<1>0. TypeOK'
  BY BeginCommitType
<1>1. TypeOK /\ op \in [Txns -> Locals] /\ op[t] \in Locals /\ pc \in [Txns -> Labels] /\ pc'[t] \in Labels
  BY <1>0 DEF LockingInv, TypeOK
<1>2. pc' = [pc EXCEPT ![t] = pc'[t]] /\ op' = [op EXCEPT ![t] = op[t]]
  BY <1>1 DEF TraverseGate, CommitLock, Goto
<1>3. undo' = undo /\ ver' = ver /\ UNCHANGED <<start_time, finish_time, time, alloc, present>>
  BY DEF TraverseGate, CommitLock, txnVars, slotVars, tmVars
<1>4. pc[t] \in {"begin", "running"} /\ pc'[t] \in {"running", "commit_ts"}
  BY <1>1 DEF TraverseGate, CommitLock, Goto
<1>5. pc[t] \notin Unstable \cup Over \cup Flipping /\ pc'[t] \notin Unstable \cup Over \cup Flipping
  BY <1>4 DEF Unstable, Over, Flipping
<1>6. /\ pc'[t] \notin {"sel_ptr", "sel_copy", "sel_check", "sel_walk"}
      /\ pc'[t] \notin {"abort_scan", "abort_undo"} /\ pc'[t] \notin Writing
  BY <1>4 DEF Writing
<1>7. SlotsJustified
  BY <1>3, SameSlots
<1> QED
  BY <1>0, <1>1, <1>2, <1>3, <1>5, <1>6, <1>7, QuietStep

\* The steps of Commit and Abort that take a timestamp, leave a loop that flips
\* records, or leave the running set.
LEMMA FinishInv ==
    ASSUME LockingInv, NEW t \in Txns,
           \/ CommitReadOnly(t) \/ CommitTimestamp(t) \/ CommitUnlock(t) \/ CommitLog(t)
           \/ HandOff(t) \/ AbortTimestamp(t) \/ AbortFinish(t)
    PROVE  LockingInv'
<1> DEFINE b == pc'[t]
           o == op'[t]
           f == finish_time'[t]
<1>0. TypeOK'
  BY BeginCommitType, AbortType
<1>1. /\ TypeOK /\ op \in [Txns -> Locals] /\ o \in Locals /\ pc \in [Txns -> Labels] /\ b \in Labels
      /\ finish_time \in [Txns -> Timestamp] /\ f \in Timestamp
      /\ time \in Nat /\ start_time[t] \in Nat /\ op[t].ts \in Nat /\ undo[t] \in Seq(Record)
  BY <1>0 DEF LockingInv, TypeOK, TMTypeOK, Locals
<1>2. op' = [op EXCEPT ![t] = o] /\ finish_time' = [finish_time EXCEPT ![t] = f]
  BY <1>1 DEF CommitReadOnly, CommitTimestamp, CommitUnlock, CommitLog, HandOff, AbortTimestamp,
              AbortFinish, txnVars
<1>3. pc' = [pc EXCEPT ![t] = b]
  BY <1>1 DEF CommitReadOnly, CommitTimestamp, CommitUnlock, CommitLog, HandOff, AbortTimestamp,
              AbortFinish, Goto
<1>4. undo' = undo /\ ver' = ver /\ start_time' = start_time /\ UNCHANGED <<alloc, present>>
  BY DEF CommitReadOnly, CommitTimestamp, CommitUnlock, CommitLog, HandOff, AbortTimestamp,
         AbortFinish, txnVars, slotVars
<1>5. time' >= time
  BY <1>1, SMTT(30) DEF CommitReadOnly, CommitTimestamp, CommitUnlock, CommitLog, HandOff, AbortTimestamp,
              AbortFinish, CheckOutTimestamp, tmVars
<1>6. pc[t] # "idle" /\ start_time[t] < time
  BY DEF CommitReadOnly, CommitTimestamp, CommitUnlock, CommitLog, HandOff, AbortTimestamp,
         AbortFinish, LockingInv, ClockInv
<1> DEFINE Good == /\ pc[t] \notin Unstable
                   /\ b \in Over => f > start_time[t]
                   /\ b \notin Over => b \in Flipping /\ f = TxnId(start_time[t])
                                       /\ o.ts > start_time[t] /\ o.idx > 0
                   /\ \A i \in DOMAIN undo[t] : TsOf(t, i)' = TsOf(t, i)
<1>7. Good
  <2>1. CASE CommitReadOnly(t)
    <3>1. pc[t] = "running" /\ b = "commit_log" /\ undo[t] = <<>> /\ f = time
      BY <1>1, <2>1 DEF CommitReadOnly, Goto
    <3> HIDE DEF b, f
    <3> QED BY <1>6, <3>1, SMTT(30) DEF Unstable, Over
  <2>2. CASE CommitTimestamp(t) \/ AbortTimestamp(t)
    <3>1. pc[t] \in {"commit_ts", "abort_scan"} /\ b \in Flipping /\ f = finish_time[t]
      BY <1>1, <2>2 DEF CommitTimestamp, AbortTimestamp, Goto, txnVars, Flipping
    <3>2. o = [op[t] EXCEPT !.ts = time, !.idx = 1]
      BY <1>1, <2>2 DEF CommitTimestamp, AbortTimestamp
    <3>3. o.ts = time /\ o.idx = 1
      BY <1>1, <3>2 DEF Locals
    <3>4. f = TxnId(start_time[t])
      BY <1>6, <3>1 DEF LockingInv, ClockInv, Over
    <3>5. \A i \in DOMAIN undo[t] : TsOf(t, i) = TxnId(start_time[t])
      BY <3>1 DEF TsOf, Over, Flipping
    <3>6. \A i \in DOMAIN undo[t] : TsOf(t, i)' = TxnId(start_time[t])
      BY <1>1, <1>4, <3>1, <3>3, SMTT(30) DEF TsOf, Over, Flipping
    <3>7. pc[t] \notin Unstable /\ b \notin Over
      BY <3>1 DEF Unstable, Over, Flipping
    <3> HIDE DEF b, o, f
    <3> QED BY <1>6, <3>1, <3>3, <3>4, <3>5, <3>6, <3>7, SMTT(30)
  <2>3. CASE CommitUnlock(t) \/ AbortFinish(t)
    <3>1. pc[t] \in Flipping /\ op[t].idx > Len(undo[t]) /\ b \in Over /\ f = op[t].ts
      BY <1>1, <2>3 DEF CommitUnlock, AbortFinish, Goto, Flipping, Over
    <3>2. f > start_time[t]
      BY <1>6, <3>1 DEF LockingInv, ClockInv
    <3>3. pc[t] \notin Over /\ pc[t] \notin Unstable
      BY <3>1 DEF Flipping, Over, Unstable
    <3>4. \A i \in DOMAIN undo[t] : i < op[t].idx
      <4>1. op[t].idx \in Nat
        BY <1>1 DEF LockingInv, TypeOK, Locals
      <4> QED BY <1>1, <3>1, <4>1, SMTT(30)
    <3>5. \A i \in DOMAIN undo[t] : TsOf(t, i) = op[t].ts /\ TsOf(t, i)' = f
      BY <3>1, <3>3, <3>4 DEF TsOf
    <3> HIDE DEF b, o, f
    <3> QED BY <3>1, <3>2, <3>3, <3>5
  <2>4. CASE CommitLog(t) \/ HandOff(t)
    <3>1. pc[t] \in Over /\ b \in Over /\ f = finish_time[t]
      BY <1>1, <2>4 DEF CommitLog, HandOff, Goto, Over, txnVars
    <3>2. f > start_time[t]
      BY <1>6, <3>1 DEF LockingInv, ClockInv
    <3>3. \A i \in DOMAIN undo[t] : TsOf(t, i) = finish_time[t] /\ TsOf(t, i)' = f
      BY <3>1 DEF TsOf
    <3>4. pc[t] \notin Unstable
      BY <3>1 DEF Over, Unstable
    <3> HIDE DEF b, o, f
    <3> QED BY <3>1, <3>2, <3>3, <3>4
  <2> QED BY <2>1, <2>2, <2>3, <2>4
<1>8. b \in Over \cup Flipping
  BY <1>7
<1>9. /\ b \notin {"sel_ptr", "sel_copy", "sel_check", "sel_walk"} /\ b \notin Unstable
      /\ b # "abort_undo" /\ b # "abort_scan" /\ b \notin Writing
      /\ b \in Flipping => b \notin Over
  BY <1>8 DEF Writing, Over, Flipping, Unstable
<1>10. SlotsJustified
  BY <1>4, SameSlots
<1> HIDE DEF b, o, f
<1> QED
  BY <1>0, <1>1, <1>2, <1>3, <1>4, <1>5, <1>7, <1>9, <1>10, SameRecords

\* BeginTransaction: a start time that no other transaction has.
LEMMA BeginInv ==
    ASSUME LockingInv, NEW t \in Txns, Begin(t)
    PROVE  LockingInv'
<1> USE DEF LockingInv
<1>0. TypeOK'
  BY BeginCommitType
<1>1. /\ pc[t] = "idle" /\ time' = time + 1 /\ time \in Nat
      /\ \A u \in Txns : /\ pc'[u] = IF u = t THEN "begin" ELSE pc[u]
                         /\ start_time'[u] = IF u = t THEN time ELSE start_time[u]
                         /\ finish_time'[u] = IF u = t THEN TxnId(time) ELSE finish_time[u]
      /\ UNCHANGED <<op, undo, ver, alloc, present>>
  BY DEF Begin, BeginTimestamp, CheckOutTimestamp, Goto, slotVars, TypeOK, TMTypeOK
<1>2. DOMAIN undo[t] = {}
  BY <1>1, SMTT(30) DEF RecordInv
<1>3. \A u \in Txns : \A i : Installed(u, i)' <=> Installed(u, i)
  BY <1>1, <1>2 DEF Installed
<1>4. \A u \in Txns : \A i : Installed(u, i) => u # t
  BY <1>2 DEF Installed
<1>5. ClockInv'
  <2>1. \A u \in Txns : start_time[u] \in Nat /\ (pc[u] # "idle" => start_time[u] < time)
    BY DEF ClockInv, TypeOK
  <2>2. ASSUME NEW u \in Txns, pc'[u] # "idle"
        PROVE  /\ start_time'[u] < time'
               /\ \A w \in Txns : w # u /\ pc'[w] # "idle" => start_time'[w] # start_time'[u]
    <3>1. start_time'[u] < time'
      BY <1>1, <2>1, <2>2, SMTT(30)
    <3>2. ASSUME NEW w \in Txns, w # u, pc'[w] # "idle" PROVE start_time'[w] # start_time'[u]
      <4>1. CASE u # t /\ w # t
        BY <1>1, <2>2, <3>2, <4>1 DEF ClockInv
      <4>2. CASE u = t \/ w = t
        BY <1>1, <2>1, <2>2, <3>2, <4>2, SMTT(30)
      <4> QED BY <4>1, <4>2
    <3> QED BY <3>1, <3>2
  <2>3. ASSUME NEW u \in Txns, pc'[u] # "idle"
        PROVE  /\ pc'[u] \notin Over => finish_time'[u] = TxnId(start_time'[u])
               /\ pc'[u] \in Over => finish_time'[u] > start_time'[u]
               /\ pc'[u] \in Flipping => op[u].ts > start_time'[u]
               /\ pc'[u] \in Flipping \cup {"abort_scan", "abort_undo"} => op[u].idx > 0
    <3>1. CASE u = t
      BY <1>1, <3>1 DEF Over, Flipping
    <3>2. CASE u # t
      BY <1>1, <2>3, <3>2 DEF ClockInv
    <3> QED BY <3>1, <3>2
  <2> QED BY <1>1, <2>2, <2>3 DEF ClockInv
<1>6. RecordInv'
  <2>1. \A u \in Txns : \A i \in DOMAIN undo[u] : TsOf(u, i)' = TsOf(u, i)
    BY <1>1, <1>2 DEF TsOf
  <2> QED BY <1>1, <1>2, <2>1, SMTT(30) DEF RecordInv, Writing
<1>7. \A p \in Ptrs : \A s : OnChain(p, s)' <=> OnChain(p, s)
  BY <1>1, <1>3 DEF OnChain, Ptrs, Rec
<1>8. \A u \in Txns \ {t} : \A i : \A p \in Ptrs : Below(u, i, p)' <=> Below(u, i, p)
  BY <1>1 DEF Below, Rec
<1>9. UNCHANGED <<op, undo, ver, alloc, present>>
  BY <1>1
<1>10. TypeOK /\ ChainInv /\ ReadInv /\ LockInv /\ InsertInv
  OBVIOUS
<1>11. \A u \in Txns : pc'[u] # "begin" => pc[u] = pc'[u]
  BY <1>1
<1>12. /\ \A s \in Slots : ver[s] # Null => ver[s] \in Ptrs
       /\ \A u \in Txns : \A i \in DOMAIN undo[u] : undo[u][i].next # Null => undo[u][i].next \in Ptrs
       /\ \A u \in Txns : op[u].ptr # Null => op[u].ptr \in Ptrs
  BY <1>10, PointerTypes
<1> HIDE DEF LockingInv
<1>13. ChainInv'
  <2>1. ASSUME NEW s \in Slots, ver'[s] # Null PROVE OnChain(ver[s], s)'
    <3>1. OnChain(ver[s], s)
      BY <1>9, <1>10, <2>1 DEF ChainInv
    <3> QED BY <1>7, <1>9, <1>12, <2>1, <3>1
  <2>2. ASSUME NEW u \in Txns, NEW i \in DOMAIN undo'[u], undo'[u][i].next # Null
        PROVE  OnChain(undo[u][i].next, undo[u][i].slot)' /\ Below(u, i, undo[u][i].next)'
    <3>1. OnChain(undo[u][i].next, undo[u][i].slot) /\ Below(u, i, undo[u][i].next)
      BY <1>9, <1>10, <2>2 DEF ChainInv
    <3>2. u # t
      BY <1>2, <1>9, <2>2
    <3> QED BY <1>7, <1>8, <1>9, <1>12, <2>2, <3>1, <3>2
  <2>3. ASSUME NEW u \in Txns, pc'[u] \in {"wr_image", "wr_cas"}, op'[u].ptr # Null
        PROVE  OnChain(op[u].ptr, op[u].slot)' /\ Below(u, Len(undo[u]), op[u].ptr)'
    <3>1. pc[u] = pc'[u] /\ u # t
      BY <1>1, <2>3
    <3>2. OnChain(op[u].ptr, op[u].slot) /\ Below(u, Len(undo[u]), op[u].ptr)
      BY <1>9, <1>10, <2>3, <3>1 DEF ChainInv
    <3> QED BY <1>7, <1>8, <1>9, <1>12, <2>3, <3>1, <3>2
  <2>4. ASSUME NEW u \in Txns, pc'[u] = "abort_undo"
        PROVE  /\ op'[u].ptr # Null /\ op'[u].ptr[1] = u /\ Installed(u, op[u].ptr[2])'
               /\ Unfinished(Rec(op[u].ptr), op[u].cols)'
    <3>1. pc[u] = "abort_undo" /\ Rec(op[u].ptr)' = Rec(op[u].ptr)
      BY <1>9, <1>11, <2>4 DEF Rec
    <3>2. /\ op[u].ptr # Null /\ op[u].ptr[1] = u /\ Installed(u, op[u].ptr[2])
          /\ Unfinished(Rec(op[u].ptr), op[u].cols)
      BY <1>10, <3>1 DEF ChainInv
    <3> QED BY <1>3, <1>9, <3>1, <3>2 DEF Unfinished
  <2> QED BY <2>1, <2>2, <2>3, <2>4 DEF ChainInv
<1>14. ReadInv'
  <2> SUFFICES ASSUME NEW u \in Txns, pc'[u] \in {"sel_ptr", "sel_copy", "sel_check", "sel_walk"}
               PROVE  /\ op'[u].slot \in Slots
                      /\ pc'[u] # "sel_ptr" /\ op'[u].ptr # Null => OnChain(op[u].ptr, op[u].slot)'
    BY DEF ReadInv
  <2>1. pc[u] = pc'[u]
    BY <1>11
  <2> QED BY <1>7, <1>9, <1>10, <1>12, <2>1 DEF ReadInv
<1>15. LockInv'
  BY <1>3, <1>9, <1>10 DEF LockInv
<1>16. InsertInv'
  BY <1>3, <1>9, <1>10, <1>11, SMTT(30) DEF InsertInv
<1> QED
  BY <1>0, <1>5, <1>6, <1>13, <1>14, <1>15, <1>16 DEF LockingInv
=============================================================================
