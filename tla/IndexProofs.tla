----------------------------- MODULE IndexProofs ------------------------------
(***************************************************************************)
(* A unique index is unique, complete and exact: for any number of         *)
(* transactions, keys and slots.  The inductive invariant is IndexInv.     *)
(***************************************************************************)
EXTENDS Indexes, FiniteSetTheorems, TLAPS

USE ZenonT(30)

Slots == 1 .. NumRows
Stamp == [by : IxTxns \cup {"nobody", "aborted"}, time : Nat]
Statuses == {"new", "running", "committing", "aborting", "done"}
Active(t) == ixTxn[t].status \in {"running", "aborting"}
Ended(t) == ixTxn[t].status \in {"committing", "done"}
InQueue(s) == \E i \in 1 .. Len(deferredErase) : deferredErase[i].slot = s

IndexType ==
    /\ ixClock \in Nat
    /\ ixTxn \in [IxTxns -> [status : Statuses, start : Nat, must : BOOLEAN, step : {"idle", "insert", "delete"}, slot : Nat]]
    /\ rows \in [Slots -> [key : Keys \cup {"none"}, inserted : Stamp, deleted : Stamp, head : Stamp]]
    /\ entries \in [Keys -> SUBSET Slots]
    /\ undoInsert \in [IxTxns -> SUBSET Slots] /\ onCommit \in [IxTxns -> SUBSET Slots]
    /\ deferredErase \in Seq([slot : Slots, time : Nat])

\* A transaction that has not ended has stamps without a time; afterwards they have the time
\* of its commit, which is in the past and not before it began.
Valid(x) ==
    /\ x.time < ixClock
    /\ x.by = "nobody" => x.time = 0
    /\ x.by \in IxTxns /\ x.time = 0 => Active(x.by)
    /\ x.by \in IxTxns /\ x.time # 0 => Ended(x.by) /\ ixTxn[x.by].start <= x.time

\* The head of a slot's versions is its deletion, or its insertion, or what a transaction
\* left that was rolled back later.
HeadOf(s) ==
    /\ rows[s].deleted # Nothing => rows[s].head = rows[s].deleted
    /\ rows[s].deleted = Nothing =>
        \/ rows[s].head = rows[s].inserted /\ rows[s].inserted.by # "aborted"
        \/ /\ rows[s].head.by = "aborted" /\ rows[s].head.time # 0
           /\ \/ rows[s].inserted.time # 0 /\ rows[s].inserted.time < rows[s].head.time
              \/ rows[s].inserted.by = "aborted"
RowOf(s) ==
    /\ Valid(rows[s].inserted) /\ Valid(rows[s].deleted) /\ Valid(rows[s].head)
    /\ rows[s].inserted # Nothing => rows[s].key \in Keys
    /\ rows[s].inserted.by = "nobody" => rows[s].deleted = Nothing
    /\ rows[s].inserted.by = "aborted" => rows[s].inserted.time = 0 /\ rows[s].deleted = Nothing
    /\ rows[s].deleted.by # "aborted"
    /\ rows[s].inserted.time = 0 => rows[s].deleted \in {Nothing, rows[s].inserted}
    /\ rows[s].deleted.time # 0 => rows[s].inserted.time <= rows[s].deleted.time
RowInv == \A s \in Slots : RowOf(s) /\ HeadOf(s)

\* What a transaction is about to do.
TxnOf(t) ==
    /\ ixTxn[t].start < ixClock
    /\ ixTxn[t].step # "idle" => ixTxn[t].status = "running" /\ ixTxn[t].slot \in Slots
    /\ ixTxn[t].step = "insert" => rows[ixTxn[t].slot].inserted = By(t) /\ rows[ixTxn[t].slot].deleted = Nothing
    /\ ixTxn[t].step = "delete" => rows[ixTxn[t].slot].deleted = By(t)
    /\ ixTxn[t].status \in {"new", "done"} => undoInsert[t] = {} /\ onCommit[t] = {}
TxnInv == \A t \in IxTxns : TxnOf(t)

\* An entry is one that its transaction can still take back, or of a slot that is there, or
\* one that will be erased.
EntryOf(k, s) ==
    /\ rows[s].key = k /\ rows[s].inserted.by \in IxTxns
    /\ rows[s].inserted.time = 0 => s \in undoInsert[rows[s].inserted.by]
    /\ rows[s].deleted.time # 0 => s \in onCommit[rows[s].deleted.by] \/ InQueue(s)
EntryInv == \A k \in Keys : \A s \in entries[k] : EntryOf(k, s)

\* A slot that is there has an entry, and one that was deleted has it until all those that
\* might see it have ended.
ThereOf(s) ==
    /\ rows[s].inserted.time # 0 /\ rows[s].deleted.time = 0 => s \in entries[rows[s].key]
    /\ rows[s].deleted.time # 0 /\ s \notin entries[rows[s].key] =>
        \A t \in IxRunning : rows[s].deleted.time < ixTxn[t].start
ThereInv == \A s \in Slots : ThereOf(s)
OwnOf(t, s) ==
    ixTxn[t].status = "running" =>
        /\ rows[s].inserted = By(t) /\ ~ixTxn[t].must /\ ~(ixTxn[t].step = "insert" /\ ixTxn[t].slot = s)
            => s \in entries[rows[s].key]
        /\ rows[s].deleted = By(t) /\ ~(ixTxn[t].step = "delete" /\ ixTxn[t].slot = s) => s \in onCommit[t]
OwnInv == \A t \in IxTxns, s \in Slots : OwnOf(t, s)

\* Erasures that are to come have an entry each.
UndoInv == \A t \in IxTxns : \A s \in undoInsert[t] : rows[s].inserted.by = t /\ s \in entries[rows[s].key]
CommitInv ==
    \A t \in IxTxns : \A s \in onCommit[t] :
        rows[s].deleted.by = t /\ ~InQueue(s) /\ (rows[s].deleted.time # 0 => s \in entries[rows[s].key])
QueueInv ==
    \A i \in 1 .. Len(deferredErase) :
        LET s == deferredErase[i].slot
        IN /\ s \in entries[rows[s].key] /\ rows[s].deleted.time # 0
           /\ rows[s].deleted.time < deferredErase[i].time /\ deferredErase[i].time <= ixClock
           /\ \A j \in 1 .. Len(deferredErase) : deferredErase[j].slot = s => i = j

\* Of two entries of a key one was deleted before the other was inserted, for everybody.
Follows(v, s) ==
    \/ rows[v].deleted = rows[s].inserted
    \/ rows[v].deleted.time # 0 /\ rows[v].deleted.time < ixTxn[rows[s].inserted.by].start
FollowInv == \A k \in Keys : \A v, s \in entries[k] : v # s => Follows(v, s) \/ Follows(s, v)

IndexInv ==
    IndexType /\ RowInv /\ TxnInv /\ EntryInv /\ ThereInv /\ OwnInv /\ UndoInv /\ CommitInv /\ QueueInv /\ FollowInv

-----------------------------------------------------------------------------
LEMMA StampTypes ==
    ASSUME IndexType
    PROVE  \A s \in Slots :
               /\ rows[s].inserted \in Stamp /\ rows[s].deleted \in Stamp /\ rows[s].head \in Stamp
               /\ rows[s].inserted.time \in Nat /\ rows[s].deleted.time \in Nat /\ rows[s].head.time \in Nat
               /\ rows[s].inserted.by \in IxTxns \cup {"nobody", "aborted"}
               /\ rows[s].deleted.by \in IxTxns \cup {"nobody", "aborted"}
               /\ rows[s].head.by \in IxTxns \cup {"nobody", "aborted"}
  BY SMTT(30) DEF IndexType, Stamp

LEMMA StampNames ==
    /\ Nothing \in Stamp /\ Nothing.time = 0 /\ Nothing.by = "nobody"
    /\ \A t \in IxTxns : By(t) \in Stamp /\ By(t).by = t /\ By(t).time = 0 /\ By(t) # Nothing
    /\ By("aborted") \in Stamp /\ By("aborted").by = "aborted" /\ By("aborted").time = 0 /\ By("aborted") # Nothing
    /\ \A x \in Stamp : x.time = 0 /\ x.by = "nobody" => x = Nothing
    /\ \A x \in Stamp : \A t : x.time = 0 /\ x.by = t => x = By(t)
    /\ "nobody" \notin IxTxns /\ "aborted" \notin IxTxns /\ "nobody" # "aborted"
<1>1. "nobody" \notin IxTxns /\ "aborted" \notin IxTxns /\ "nobody" # "aborted"
  BY IxAssumption
<1>2. 0 \in Nat
  BY SMTT(30)
<1>3. \A b : [by |-> b, time |-> 0].by = b /\ [by |-> b, time |-> 0].time = 0
  OBVIOUS
<1>4. \A b \in IxTxns \cup {"nobody", "aborted"} : [by |-> b, time |-> 0] \in Stamp
  BY <1>2 DEF Stamp
<1>5. \A x \in Stamp : x = [by |-> x.by, time |-> x.time]
  BY SMTT(30) DEF Stamp
<1> QED BY <1>1, <1>3, <1>4, <1>5 DEF Nothing, By

LEMMA NamesOfStamps ==
    /\ Nothing.time = 0 /\ Nothing.by = "nobody" /\ Nothing.by \notin IxTxns
    /\ \A t \in IxTxns : By(t).by = t /\ By(t).time = 0 /\ By(t) # Nothing
  BY StampNames

LEMMA StampsDiffer == \A t, u \in IxTxns : t # u => By(t) # By(u)
  BY StampNames

LEMMA Elements == ASSUME NEW D, NEW q \in Seq(D) PROVE \A i \in 1 .. Len(q) : q[i] \in D
  BY SMTT(30)

LEMMA EntrySlots ==
    ASSUME IndexType
    PROVE  /\ \A k \in Keys : \A s \in entries[k] : s \in Slots
           /\ \A t \in IxTxns : \A s \in undoInsert[t] : s \in Slots
           /\ \A t \in IxTxns : \A s \in onCommit[t] : s \in Slots
           /\ \A i \in 1 .. Len(deferredErase) : deferredErase[i].slot \in Slots /\ deferredErase[i].time \in Nat
<1>1. \A i \in 1 .. Len(deferredErase) : deferredErase[i] \in [slot : Slots, time : Nat]
  BY Elements DEF IndexType
<1> QED BY <1>1 DEF IndexType

LEMMA StartTypes == IndexType => \A t \in IxTxns : ixTxn[t].start \in Nat /\ ixTxn[t].status \in Statuses
  BY DEF IndexType

\* What a stamp says of its transaction, and the other way round.
LEMMA StampStates ==
    ASSUME IndexInv, NEW s \in Slots, NEW t \in IxTxns
    PROVE  /\ Active(t) /\ rows[s].inserted.by = t => rows[s].inserted.time = 0 /\ rows[s].inserted = By(t)
           /\ Active(t) /\ rows[s].deleted.by = t => rows[s].deleted.time = 0 /\ rows[s].deleted = By(t)
           /\ Active(t) /\ rows[s].head.by = t => rows[s].head.time = 0 /\ rows[s].head = By(t)
           /\ rows[s].inserted = By(t) => Active(t)
           /\ rows[s].deleted = By(t) => Active(t)
           /\ rows[s].head = By(t) => Active(t)
           /\ ~(Active(t) /\ Ended(t))
<1>1. Valid(rows[s].inserted) /\ Valid(rows[s].deleted) /\ Valid(rows[s].head)
  BY DEF IndexInv, RowInv, RowOf
<1>2. ~(Active(t) /\ Ended(t))
  BY DEF Active, Ended
<1>3. rows[s].inserted \in Stamp /\ rows[s].deleted \in Stamp /\ rows[s].head \in Stamp
  BY StampTypes DEF IndexInv
<1>4. ASSUME NEW x \in Stamp, Valid(x)
      PROVE  (Active(t) /\ x.by = t => x.time = 0 /\ x = By(t)) /\ (x = By(t) => Active(t))
  BY <1>2, <1>4, StampNames DEF Valid
<1> QED BY <1>1, <1>2, <1>3, <1>4

-----------------------------------------------------------------------------
(* What the invariant says.                                                *)

\* Two slots of a key that both have an entry are not both visible.
LEMMA OneVisible ==
    ASSUME IndexInv, NEW t \in IxRunning, NEW k \in Keys, NEW v \in entries[k], NEW s \in entries[k],
           v # s, IsVisibleTo(t, v), IsVisibleTo(t, s), Follows(v, s)
    PROVE  FALSE
<1> USE DEF IndexInv
<1> DEFINE u == rows[s].inserted.by
<1>1. v \in Slots /\ s \in Slots /\ t \in IxTxns /\ u \in IxTxns
  BY EntrySlots DEF IxRunning, EntryInv, EntryOf
<1>2. SeenBy(t, rows[s].inserted) /\ ~SeenBy(t, rows[v].deleted)
  BY DEF IsVisibleTo
<1>3. CASE rows[v].deleted = rows[s].inserted
  BY <1>2, <1>3
<1>4. CASE rows[v].deleted.time # 0 /\ rows[v].deleted.time < ixTxn[u].start
  <2>1. rows[v].deleted.time \in Nat /\ rows[s].inserted.time \in Nat /\ ixTxn[u].start \in Nat /\ ixTxn[t].start \in Nat
    BY <1>1, StampTypes, StartTypes
  <2>2. CASE u = t
    BY <1>2, <1>4, <2>2 DEF SeenBy
  <2>3. CASE u # t
    <3>1. rows[s].inserted.time # 0 /\ rows[s].inserted.time < ixTxn[t].start
      BY <1>2, <2>3 DEF SeenBy
    <3>2. ixTxn[u].start <= rows[s].inserted.time
      BY <1>1, <3>1 DEF RowInv, RowOf, Valid
    <3>3. rows[v].deleted.time < ixTxn[t].start
      BY <1>4, <2>1, <3>1, <3>2, SMTT(30)
    <3> QED BY <1>2, <1>4, <3>3 DEF SeenBy
  <2> QED BY <2>2, <2>3
<1> QED BY <1>3, <1>4 DEF Follows

LEMMA AtMostOne ==
    ASSUME NEW S, \A x, y \in S : x = y
    PROVE  Cardinality(S) <= 1
<1>1. CASE S = {}
  BY <1>1, FS_EmptySet, SMTT(30)
<1>2. ASSUME NEW x \in S PROVE Cardinality(S) = 1
  <2>1. S = {x}
    OBVIOUS
  <2> QED BY <2>1, FS_Singleton
<1> QED BY <1>1, <1>2, SMTT(30)

LEMMA IndexIsUnique == IndexInv => UniqueInSnapshot
<1> SUFFICES ASSUME IndexInv, NEW t \in IxRunning, NEW k \in Keys PROVE Cardinality(ScanKey(t, k)) <= 1
  BY DEF UniqueInSnapshot
<1>1. ASSUME NEW v \in ScanKey(t, k), NEW s \in ScanKey(t, k), v # s PROVE FALSE
  <2>1. v \in entries[k] /\ s \in entries[k] /\ IsVisibleTo(t, v) /\ IsVisibleTo(t, s)
    BY DEF ScanKey
  <2>2. Follows(v, s) \/ Follows(s, v)
    BY <1>1, <2>1 DEF IndexInv, FollowInv
  <2> QED BY <1>1, <2>1, <2>2, OneVisible
<1> QED BY <1>1, AtMostOne

LEMMA IndexIsComplete == IndexInv => IndexComplete
<1> SUFFICES ASSUME IndexInv, NEW t \in IxRunning, NEW s \in Used, ixTxn[t].status = "running", ~ixTxn[t].must,
                    ~(ixTxn[t].step = "insert" /\ ixTxn[t].slot = s), IsVisibleTo(t, s)
             PROVE  s \in ScanKey(t, rows[s].key)
  BY DEF IndexComplete
<1> USE DEF IndexInv
<1>1. s \in Slots /\ t \in IxTxns /\ Active(t)
  BY DEF Used, IxRunning, Slots, Active
<1>2. SeenBy(t, rows[s].inserted) /\ ~SeenBy(t, rows[s].deleted)
  BY DEF IsVisibleTo
<1>3. CASE rows[s].inserted.by = t
  <2>1. rows[s].inserted = By(t)
    BY <1>1, <1>3, StampStates
  <2> QED BY <1>1, <2>1 DEF OwnInv, OwnOf, ScanKey
<1>4. CASE rows[s].inserted.time # 0
  <2>1. ThereOf(s)
    BY <1>1 DEF ThereInv
  <2>2. s \in entries[rows[s].key]
    BY <1>2, <1>4, <2>1 DEF ThereOf, SeenBy
  <2> QED BY <2>2 DEF ScanKey
<1> QED BY <1>2, <1>3, <1>4 DEF SeenBy

LEMMA IndexIsExact == IndexInv => EntriesExact
<1> SUFFICES ASSUME IndexInv PROVE ErasureFindsEntry /\ QuietIndexExact
  BY DEF EntriesExact
<1> USE DEF IndexInv
<1>1. ErasureFindsEntry
  <2>1. \A t \in IxTxns : \A s \in undoInsert[t] : s \in entries[rows[s].key]
    BY DEF UndoInv
  <2> DEFINE deferredSlots == [i \in 1 .. Len(deferredErase) |-> deferredErase[i].slot]
  <2>2. \A i \in 1 .. Len(deferredErase) : deferredSlots[i] = deferredErase[i].slot
    OBVIOUS
  <2> HIDE DEF deferredSlots
  <2>3. ASSUME NEW i \in 1 .. Len(deferredErase)
        PROVE  /\ deferredSlots[i] \in entries[rows[deferredSlots[i]].key]
               /\ \A j \in 1 .. Len(deferredErase) : i # j => deferredSlots[i] # deferredSlots[j]
    <3>1. /\ deferredErase[i].slot \in entries[rows[deferredErase[i].slot].key]
          /\ \A j \in 1 .. Len(deferredErase) : deferredErase[j].slot = deferredErase[i].slot => i = j
      BY DEF QueueInv
    <3> QED BY <2>2, <3>1
  <2> QED BY <2>1, <2>3 DEF ErasureFindsEntry, deferredSlots
<1>2. QuietIndexExact
  <2> SUFFICES ASSUME IxRunning = {}, deferredErase = <<>>, NEW k \in Keys, NEW s
               PROVE  s \in entries[k] <=> s \in Used /\ rows[s].key = k /\ rows[s].inserted.time # 0 /\ rows[s].deleted = Nothing
    BY DEF QuietIndexExact
  <2>1. \A i \in 1 .. Len(deferredErase) : FALSE
    BY SMTT(30)
  <2>2. \A t \in IxTxns : ~Active(t) /\ onCommit[t] = {}
    <3>1. ASSUME NEW t \in IxTxns PROVE ixTxn[t].status \in {"new", "done"}
      BY StartTypes DEF IxRunning, Statuses
    <3> QED BY <3>1 DEF TxnInv, TxnOf, Active
  <2>3. ASSUME s \in entries[k]
        PROVE  s \in Used /\ rows[s].key = k /\ rows[s].inserted.time # 0 /\ rows[s].deleted = Nothing
    <3>1. s \in Slots /\ EntryOf(k, s) /\ RowOf(s)
      BY <2>3, EntrySlots DEF EntryInv, RowInv
    <3>2. rows[s].key = k /\ rows[s].inserted.by \in IxTxns /\ rows[s].deleted \in Stamp
      BY <3>1, StampTypes DEF EntryOf
    <3>3. rows[s].inserted.time # 0
      BY <2>2, <3>1, <3>2 DEF RowOf, Valid
    <3>4. rows[s].deleted.by \notin IxTxns
      <4>1. CASE rows[s].deleted.time = 0
        BY <2>2, <3>1, <4>1 DEF RowOf, Valid
      <4>2. CASE rows[s].deleted.time # 0
        BY <2>1, <2>2, <3>1, <4>2 DEF EntryOf, InQueue
      <4> QED BY <4>1, <4>2
    <3>5. rows[s].deleted.by = "nobody"
      BY <3>1, <3>4, StampTypes DEF RowOf
    <3>6. rows[s].deleted = Nothing
      BY <3>1, <3>2, <3>5, StampNames DEF RowOf, Valid
    <3>7. rows[s].inserted # Nothing
      BY <3>2, StampNames
    <3> QED BY <3>1, <3>2, <3>3, <3>6, <3>7 DEF Used, Slots
  <2>4. ASSUME s \in Used, rows[s].key = k, rows[s].inserted.time # 0, rows[s].deleted = Nothing PROVE s \in entries[k]
    <3>1. s \in Slots
      BY <2>4 DEF Used, Slots
    <3> QED BY <2>4, <3>1, StampNames DEF ThereInv, ThereOf
  <2> QED BY <2>3, <2>4
<1> QED BY <1>1, <1>2

-----------------------------------------------------------------------------
(* Steps that leave most of the state alone.                               *)

\* A stamp that is valid in the next state.
ValidLater(x) ==
    /\ x.time < ixClock'
    /\ x.by = "nobody" => x.time = 0
    /\ x.by \in IxTxns /\ x.time = 0 => ixTxn'[x.by].status \in {"running", "aborting"}
    /\ x.by \in IxTxns /\ x.time # 0 =>
        ixTxn'[x.by].status \in {"committing", "done"} /\ ixTxn'[x.by].start <= x.time

Later == ixClock \in Nat /\ ixClock' \in Nat /\ ixClock <= ixClock'
SameRow(s) ==
    /\ rows'[s].key = rows[s].key /\ rows'[s].inserted = rows[s].inserted
    /\ rows'[s].deleted = rows[s].deleted /\ rows'[s].head = rows[s].head

\* Transactions that have begun keep their start, and stay on their side of the commit.
Progresses ==
    /\ Later
    /\ \A u \in IxTxns :
        /\ Active(u) => ixTxn'[u].status \in {"running", "aborting"}
        /\ Ended(u) => ixTxn'[u].status \in {"committing", "done"}
        /\ Active(u) \/ Ended(u) => ixTxn'[u].start = ixTxn[u].start

LEMMA StampsKept ==
    ASSUME Progresses, NEW x \in Stamp, Valid(x)
    PROVE  ValidLater(x)
<1>1. x.time \in Nat
  BY DEF Stamp
<1>2. x.time < ixClock'
  BY <1>1, SMTT(30) DEF Progresses, Later, Valid
<1> QED BY <1>2 DEF Progresses, Valid, ValidLater

LEMMA RowLater ==
    ASSUME NEW s \in Slots, SameRow(s), RowOf(s), HeadOf(s),
           ValidLater(rows[s].inserted), ValidLater(rows[s].deleted), ValidLater(rows[s].head)
    PROVE  RowOf(s)' /\ HeadOf(s)'
<1>1. RowOf(s)'
  <2>1. Valid(rows[s].inserted)' /\ Valid(rows[s].deleted)' /\ Valid(rows[s].head)'
    BY DEF SameRow, Valid, ValidLater, Active, Ended
  <2> QED BY <2>1 DEF SameRow, RowOf, Nothing
<1>2. HeadOf(s)'
  BY DEF SameRow, HeadOf, Nothing
<1> QED BY <1>1, <1>2

LEMMA RowKept ==
    ASSUME IndexInv, Progresses, NEW s \in Slots, SameRow(s)
    PROVE  RowOf(s)' /\ HeadOf(s)'
<1>1. RowOf(s) /\ HeadOf(s)
  BY DEF IndexInv, RowInv
<1>2. rows[s].inserted \in Stamp /\ rows[s].deleted \in Stamp /\ rows[s].head \in Stamp
  BY StampTypes DEF IndexInv
<1>3. ValidLater(rows[s].inserted) /\ ValidLater(rows[s].deleted) /\ ValidLater(rows[s].head)
  BY <1>1, <1>2, StampsKept DEF RowOf
<1> QED BY <1>1, <1>3, RowLater

LEMMA RowsKept ==
    ASSUME IndexInv, Progresses, rows' = rows
    PROVE  RowInv'
<1> SUFFICES ASSUME NEW s \in Slots PROVE RowOf(s)' /\ HeadOf(s)'
  BY DEF RowInv
<1> QED BY RowKept DEF SameRow

\* A transaction that a step leaves alone.
LEMMA TxnKept ==
    ASSUME IndexInv, Later, NEW u \in IxTxns, ixTxn'[u] = ixTxn[u],
           undoInsert'[u] = undoInsert[u], onCommit'[u] = onCommit[u],
           \A s \in Slots : /\ rows[s].inserted = By(u) => rows'[s].inserted = By(u)
                            /\ rows[s].deleted = By(u) => rows'[s].deleted = By(u)
                            /\ rows[s].inserted = By(u) /\ rows[s].deleted = Nothing => rows'[s].deleted = Nothing
    PROVE  TxnOf(u)'
<1>1. TxnOf(u) /\ ixTxn[u].start \in Nat
  BY StartTypes DEF IndexInv, TxnInv
<1>2. ixTxn'[u].start < ixClock'
  BY <1>1, SMTT(30) DEF Later, TxnOf
<1>3. ixTxn[u].step # "idle" => ixTxn[u].slot \in Slots
  BY <1>1 DEF TxnOf
<1> DEFINE s == ixTxn[u].slot
<1>4. ixTxn[u].step = "insert" => s \in Slots /\ rows[s].inserted = By(u) /\ rows[s].deleted = Nothing
  BY <1>1, <1>3 DEF TxnOf
<1>5. ixTxn[u].step = "delete" => s \in Slots /\ rows[s].deleted = By(u)
  BY <1>1, <1>3 DEF TxnOf
<1> HIDE DEF s
<1>6. ixTxn'[u].step = "insert" => rows'[s].inserted = By(u) /\ rows'[s].deleted = Nothing
  BY <1>4
<1>7. ixTxn'[u].step = "delete" => rows'[s].deleted = By(u)
  BY <1>5
<1> QED BY <1>1, <1>2, <1>6, <1>7 DEF TxnOf, By, Nothing, s

LEMMA PendingKept ==
    ASSUME IndexInv, rows' = rows, entries' = entries, undoInsert' = undoInsert, onCommit' = onCommit,
           deferredErase' = deferredErase
    PROVE  EntryInv' /\ UndoInv' /\ CommitInv'
<1>1. EntryInv'
  BY SMTT(30) DEF IndexInv, EntryInv, EntryOf, InQueue
<1>2. UndoInv'
  BY SMTT(30) DEF IndexInv, UndoInv
<1>3. CommitInv'
  BY SMTT(30) DEF IndexInv, CommitInv, InQueue
<1> QED BY <1>1, <1>2, <1>3

LEMMA KeyOf ==
    ASSUME IndexInv, NEW s \in Slots,
           \/ rows[s].inserted.time # 0 \/ rows[s].deleted.time # 0
           \/ rows[s].inserted.by \in IxTxns \/ rows[s].deleted.by \in IxTxns
    PROVE  rows[s].key \in Keys
<1>1. RowOf(s)
  BY DEF IndexInv, RowInv
<1>2. rows[s].inserted # Nothing
  BY <1>1, StampNames DEF RowOf
<1> QED BY <1>1, <1>2 DEF RowOf

LEMMA QueueSame == ASSUME deferredErase' = deferredErase, NEW s PROVE InQueue(s)' <=> InQueue(s)
  BY DEF InQueue

LEMMA QueueKept ==
    ASSUME IndexInv, Later, deferredErase' = deferredErase,
           \A s \in Slots : InQueue(s) => rows'[s].key = rows[s].key /\ rows'[s].deleted = rows[s].deleted,
           \A k \in Keys : \A s \in entries[k] : InQueue(s) => s \in entries'[k]
    PROVE  QueueInv'
<1> SUFFICES ASSUME NEW i \in 1 .. Len(deferredErase), NEW s, s = deferredErase[i].slot
             PROVE  /\ s \in entries'[rows'[s].key] /\ rows'[s].deleted.time # 0
                    /\ rows'[s].deleted.time < deferredErase[i].time /\ deferredErase[i].time <= ixClock'
                    /\ \A j \in 1 .. Len(deferredErase) : deferredErase[j].slot = s => i = j
  BY DEF QueueInv
<1>1. s \in Slots /\ InQueue(s) /\ deferredErase[i].time \in Nat
  BY EntrySlots DEF IndexInv, InQueue
<1>2. /\ s \in entries[rows[s].key] /\ rows[s].deleted.time # 0
      /\ rows[s].deleted.time < deferredErase[i].time /\ deferredErase[i].time <= ixClock
      /\ \A j \in 1 .. Len(deferredErase) : deferredErase[j].slot = s => i = j
  BY DEF IndexInv, QueueInv
<1>3. deferredErase[i].time <= ixClock'
  BY <1>1, <1>2, SMTT(30) DEF Later
<1>4. rows[s].key \in Keys
  BY <1>1, <1>2, KeyOf
<1> QED BY <1>1, <1>2, <1>3, <1>4

\* Entries of stamps that have begun: their order stays.
LEMMA EntryBegun ==
    ASSUME IndexInv, NEW k \in Keys, NEW s \in entries[k]
    PROVE  /\ s \in Slots /\ rows[s].inserted.by \in IxTxns /\ rows[s].inserted # Nothing /\ rows[s].key = k
           /\ Active(rows[s].inserted.by) \/ Ended(rows[s].inserted.by)
<1>1. s \in Slots /\ EntryOf(k, s)
  BY EntrySlots DEF IndexInv, EntryInv
<1>2. rows[s].inserted.by \in IxTxns /\ rows[s].key = k
  BY <1>1 DEF EntryOf
<1>3. Valid(rows[s].inserted)
  BY <1>1 DEF IndexInv, RowInv, RowOf
<1> QED BY <1>1, <1>2, <1>3, StampNames DEF Valid

LEMMA FollowStays ==
    ASSUME IndexInv, Progresses, NEW k \in Keys, NEW v \in entries[k], NEW s \in entries[k], Follows(v, s),
           rows'[s].inserted = rows[s].inserted, rows[v].deleted # Nothing => rows'[v].deleted = rows[v].deleted
    PROVE  Follows(v, s)'
<1>1. /\ rows[s].inserted.by \in IxTxns /\ rows[s].inserted # Nothing
      /\ Active(rows[s].inserted.by) \/ Ended(rows[s].inserted.by)
  BY EntryBegun
<1>2. ixTxn'[rows[s].inserted.by].start = ixTxn[rows[s].inserted.by].start
  BY <1>1 DEF Progresses
<1>3. rows[v].deleted # Nothing
  BY <1>1, StampNames DEF Follows
<1> QED BY <1>2, <1>3 DEF Follows

LEMMA FollowKept ==
    ASSUME IndexInv, Progresses,
           \A k \in Keys : \A s \in entries'[k] :
               /\ s \in entries[k] /\ rows'[s].inserted = rows[s].inserted
               /\ rows[s].deleted # Nothing => rows'[s].deleted = rows[s].deleted
    PROVE  FollowInv'
<1> SUFFICES ASSUME NEW k \in Keys, NEW v \in entries'[k], NEW s \in entries'[k], v # s
             PROVE  Follows(v, s)' \/ Follows(s, v)'
  BY DEF FollowInv
<1>1. /\ v \in entries[k] /\ rows'[v].inserted = rows[v].inserted /\ (rows[v].deleted # Nothing => rows'[v].deleted = rows[v].deleted)
      /\ s \in entries[k] /\ rows'[s].inserted = rows[s].inserted /\ (rows[s].deleted # Nothing => rows'[s].deleted = rows[s].deleted)
  OBVIOUS
<1>2. Follows(v, s) \/ Follows(s, v)
  BY <1>1 DEF IndexInv, FollowInv
<1> QED BY <1>1, <1>2, FollowStays

LEMMA ThereKept ==
    ASSUME IndexInv, rows' = rows,
           \A k \in Keys : \A s \in entries[k] : rows[s].inserted.time # 0 => s \in entries'[k],
           \A t \in IxRunning' : t \in IxRunning /\ ixTxn'[t].start = ixTxn[t].start
    PROVE  ThereInv'
<1> SUFFICES ASSUME NEW s \in Slots PROVE ThereOf(s)'
  BY DEF ThereInv
<1>1. ThereOf(s)
  BY DEF IndexInv, ThereInv
<1>2. rows[s].inserted.time # 0 => rows[s].key \in Keys
  BY KeyOf
<1>3. rows[s].inserted.time # 0 /\ rows[s].deleted.time = 0 => s \in entries'[rows[s].key]
  BY <1>1, <1>2 DEF ThereOf
<1>4. rows[s].deleted.time # 0 => rows[s].inserted.time # 0
  BY StampNames DEF IndexInv, RowInv, RowOf
<1>5. ASSUME rows[s].deleted.time # 0, s \notin entries'[rows[s].key], NEW t \in IxRunning'
      PROVE  rows[s].deleted.time < ixTxn'[t].start
  <2>1. s \notin entries[rows[s].key]
    BY <1>2, <1>4, <1>5
  <2> QED BY <1>1, <1>5, <2>1 DEF ThereOf
<1> QED BY <1>3, <1>5 DEF ThereOf

LEMMA OwnKept ==
    ASSUME IndexInv, NEW u \in IxTxns, NEW s \in Slots, ixTxn'[u] = ixTxn[u], rows'[s] = rows[s],
           rows[s].inserted = By(u) /\ s \in entries[rows[s].key] => s \in entries'[rows[s].key],
           onCommit'[u] = onCommit[u]
    PROVE  OwnOf(u, s)'
<1>1. OwnOf(u, s)
  BY DEF IndexInv, OwnInv
<1> QED BY <1>1, SMTT(30) DEF OwnOf, By

LEMMA IndexInitInv == IxInit => IndexInv
<1> SUFFICES ASSUME IxInit PROVE IndexInv
  OBVIOUS
<1>1. /\ ixClock = 1 /\ entries = [k \in Keys |-> {}] /\ undoInsert = [t \in IxTxns |-> {}]
      /\ onCommit = [t \in IxTxns |-> {}] /\ deferredErase = <<>>
  BY DEF IxInit
<1>2. \A t \in IxTxns : /\ ixTxn[t].status = "new" /\ ixTxn[t].start = 0 /\ ixTxn[t].step = "idle"
                        /\ undoInsert[t] = {} /\ onCommit[t] = {}
  BY <1>1 DEF IxInit, NewTxn
<1>3. \A s \in Slots : rows[s].inserted = Nothing /\ rows[s].deleted = Nothing /\ rows[s].head = Nothing
  BY DEF IxInit, Slots
<1>4. \A i \in 1 .. Len(deferredErase) : FALSE
  BY <1>1, SMTT(30)
<1>5. 0 \in Nat /\ 1 \in Nat /\ 0 < 1 /\ <<>> \in Seq([slot : Slots, time : Nat])
  BY SMTT(30)
<1>6. IndexType
  <2>1. rows \in [Slots -> [key : Keys \cup {"none"}, inserted : Stamp, deleted : Stamp, head : Stamp]]
    BY StampNames DEF IxInit, Slots
  <2>2. ixTxn \in [IxTxns -> [status : Statuses, start : Nat, must : BOOLEAN, step : {"idle", "insert", "delete"}, slot : Nat]]
    <3>1. NewTxn \in [status : Statuses, start : Nat, must : BOOLEAN, step : {"idle", "insert", "delete"}, slot : Nat]
      BY <1>5 DEF NewTxn, Statuses
    <3> QED BY <3>1 DEF IxInit
  <2> QED BY <1>1, <1>5, <2>1, <2>2 DEF IndexType
<1>7. RowInv
  <2> SUFFICES ASSUME NEW s \in Slots PROVE RowOf(s) /\ HeadOf(s)
    BY DEF RowInv
  <2>1. Valid(Nothing)
    BY <1>1, <1>5, StampNames DEF Valid
  <2> QED BY <1>3, <2>1, StampNames DEF RowOf, HeadOf
<1>8. TxnInv
  BY <1>1, <1>2, <1>5 DEF TxnInv, TxnOf
<1>9. EntryInv /\ FollowInv /\ UndoInv /\ CommitInv
  BY <1>1 DEF EntryInv, FollowInv, UndoInv, CommitInv
<1>10. ThereInv
  BY <1>3, StampNames DEF ThereInv, ThereOf
<1>11. OwnInv
  BY <1>2 DEF OwnInv, OwnOf
<1>12. QueueInv
  BY <1>4 DEF QueueInv
<1> QED BY <1>6, <1>7, <1>8, <1>9, <1>10, <1>11, <1>12 DEF IndexInv

LEMMA IndexBegin ==
    ASSUME IndexInv, NEW t \in IxTxns, IxBegin(t)
    PROVE  IndexInv'
<1> USE DEF IndexInv
<1>1. /\ ixTxn[t].status = "new" /\ ixTxn' = [ixTxn EXCEPT ![t] = [@ EXCEPT !.status = "running", !.start = ixClock]]
      /\ ixClock' = ixClock + 1 /\ rows' = rows /\ entries' = entries /\ undoInsert' = undoInsert
      /\ onCommit' = onCommit /\ deferredErase' = deferredErase
  BY DEF IxBegin
<1>2. /\ ixTxn' \in [IxTxns -> [status : Statuses, start : Nat, must : BOOLEAN, step : {"idle", "insert", "delete"}, slot : Nat]]
      /\ ixTxn'[t].status = "running" /\ ixTxn'[t].start = ixClock /\ ixTxn'[t].step = ixTxn[t].step
      /\ \A u \in IxTxns : u # t => ixTxn'[u] = ixTxn[u]
  BY <1>1 DEF IndexType, Statuses
<1>3. ixClock \in Nat /\ ixClock' \in Nat /\ ixClock <= ixClock' /\ ixClock < ixClock'
  BY <1>1, SMTT(30) DEF IndexType
<1>4. ~Active(t) /\ ~Ended(t)
  BY <1>1 DEF Active, Ended
<1>5. Progresses /\ Later
  BY <1>2, <1>3, <1>4 DEF Progresses, Later, Active, Ended
<1>6. IndexType'
  BY <1>1, <1>2, <1>3 DEF IndexType
<1>7. RowInv' /\ EntryInv' /\ UndoInv' /\ CommitInv'
  BY <1>1, <1>5, RowsKept, PendingKept
<1>8. QueueInv' /\ FollowInv'
  BY <1>1, <1>5, QueueKept, FollowKept
<1>9. TxnInv'
  <2> SUFFICES ASSUME NEW u \in IxTxns PROVE TxnOf(u)'
    BY DEF TxnInv
  <2>1. CASE u # t
    BY <1>1, <1>2, <1>5, <2>1, TxnKept
  <2>2. CASE u = t
    <3>1. ixTxn'[t].step = "idle"
      BY <1>1, <1>2 DEF TxnInv, TxnOf
    <3> QED BY <1>2, <1>3, <2>2, <3>1 DEF TxnOf
  <2> QED BY <2>1, <2>2
<1>10. \A s \in Slots : rows[s].inserted.by # t /\ rows[s].deleted.by # t
  BY <1>4 DEF RowInv, RowOf, Valid
<1>11. ThereInv'
  <2> SUFFICES ASSUME NEW s \in Slots PROVE ThereOf(s)'
    BY DEF ThereInv
  <2>1. ThereOf(s)
    BY DEF ThereInv
  <2>2. ASSUME rows[s].deleted.time # 0, s \notin entries[rows[s].key], NEW u \in IxRunning'
        PROVE  rows[s].deleted.time < ixTxn'[u].start
    <3>1. CASE u = t
      BY <1>2, <3>1 DEF RowInv, RowOf, Valid
    <3>2. CASE u # t
      <4>1. u \in IxRunning /\ ixTxn'[u] = ixTxn[u]
        BY <1>2, <3>2 DEF IxRunning
      <4> QED BY <2>1, <2>2, <4>1 DEF ThereOf
    <3> QED BY <3>1, <3>2
  <2> QED BY <1>1, <2>1, <2>2 DEF ThereOf
<1>12. OwnInv'
  <2> SUFFICES ASSUME NEW u \in IxTxns, NEW s \in Slots PROVE OwnOf(u, s)'
    BY DEF OwnInv
  <2>1. CASE u # t
    BY <1>1, <1>2, <2>1, OwnKept
  <2>2. CASE u = t
    <3>1. rows'[s].inserted # By(t) /\ rows'[s].deleted # By(t)
      BY <1>1, <1>10, StampNames
    <3> QED BY <2>2, <3>1 DEF OwnOf, By
  <2> QED BY <2>1, <2>2
<1> QED BY <1>6, <1>7, <1>8, <1>9, <1>11, <1>12

\* Steps of a running transaction that change neither the table nor the index: a conflict,
\* a violated constraint, the beginning of an abort.
LEMMA IndexTurn ==
    ASSUME IndexInv, NEW t \in IxTxns, ixTxn[t].status = "running",
           rows' = rows, entries' = entries, undoInsert' = undoInsert, onCommit' = onCommit,
           deferredErase' = deferredErase, ixClock' = ixClock,
           ixTxn' \in [IxTxns -> [status : Statuses, start : Nat, must : BOOLEAN, step : {"idle", "insert", "delete"}, slot : Nat]],
           ixTxn'[t].status \in {"running", "aborting"}, ixTxn'[t].start = ixTxn[t].start, ixTxn'[t].step = "idle",
           ixTxn'[t].status = "running" => ixTxn'[t].must /\ ixTxn[t].step # "delete",
           \A u \in IxTxns : u # t => ixTxn'[u] = ixTxn[u]
    PROVE  IndexInv'
<1> USE DEF IndexInv
<1>1. ixClock \in Nat /\ ixClock <= ixClock'
  BY SMTT(30) DEF IndexType
<1>2. Active(t) /\ ~Ended(t)
  BY DEF Active, Ended
<1>3. Progresses /\ Later
  BY <1>1, <1>2 DEF Progresses, Later, Active, Ended
<1>4. IndexType'
  BY DEF IndexType
<1>5. RowInv' /\ EntryInv' /\ UndoInv' /\ CommitInv'
  BY <1>3, RowsKept, PendingKept
<1>6. QueueInv' /\ FollowInv'
  BY <1>3, QueueKept, FollowKept
<1>7. TxnInv'
  <2> SUFFICES ASSUME NEW u \in IxTxns PROVE TxnOf(u)'
    BY DEF TxnInv
  <2>1. CASE u # t
    BY <1>3, <2>1, TxnKept
  <2>2. CASE u = t
    BY <2>2 DEF TxnInv, TxnOf
  <2> QED BY <2>1, <2>2
<1>8. ThereInv'
  <2>1. \A u \in IxRunning' : u \in IxRunning /\ ixTxn'[u].start = ixTxn[u].start
    BY DEF IxRunning
  <2> QED BY <2>1, ThereKept
<1>9. OwnInv'
  <2> SUFFICES ASSUME NEW u \in IxTxns, NEW s \in Slots PROVE OwnOf(u, s)'
    BY DEF OwnInv
  <2>1. CASE u # t
    BY <2>1, OwnKept
  <2>2. CASE u = t
    BY <2>2 DEF OwnOf, OwnInv, By
  <2> QED BY <2>1, <2>2
<1> QED BY <1>4, <1>5, <1>6, <1>7, <1>8, <1>9

\* A step of a running transaction that keeps its status: what becomes of the others.
LEMMA OneMoves ==
    ASSUME IndexInv, NEW t \in IxTxns, Active(t), ixClock' = ixClock,
           ixTxn'[t].status = ixTxn[t].status, ixTxn'[t].start = ixTxn[t].start,
           \A u \in IxTxns : u # t => ixTxn'[u] = ixTxn[u]
    PROVE  /\ Progresses /\ Later /\ IxRunning' = IxRunning
           /\ \A u \in IxTxns : ixTxn'[u].start = ixTxn[u].start /\ ixTxn'[u].status = ixTxn[u].status
<1>1. ixClock \in Nat /\ ixClock <= ixClock'
  BY SMTT(30) DEF IndexInv, IndexType
<1>2. \A u \in IxTxns : ixTxn'[u].start = ixTxn[u].start /\ ixTxn'[u].status = ixTxn[u].status
  OBVIOUS
<1>3. Progresses /\ Later
  BY <1>1, <1>2 DEF Progresses, Later, Active, Ended
<1>4. IxRunning' = IxRunning
  BY <1>2 DEF IxRunning
<1> QED BY <1>2, <1>3, <1>4

LEMMA IndexTableInsert ==
    ASSUME IndexInv, NEW t \in IxTxns, NEW k \in Keys, TableInsert(t, k)
    PROVE  IndexInv'
<1> USE DEF IndexInv
<1>1. /\ ixTxn[t].status = "running" /\ ixTxn[t].step = "idle" /\ ~ixTxn[t].must
      /\ ixClock' = ixClock /\ entries' = entries /\ undoInsert' = undoInsert /\ onCommit' = onCommit
      /\ deferredErase' = deferredErase
  BY DEF TableInsert, Idle
<1>2. PICK s \in Slots :
        /\ Used = 1 .. s - 1
        /\ rows' = [rows EXCEPT ![s] = [key |-> k, inserted |-> By(t), deleted |-> Nothing, head |-> By(t)]]
        /\ ixTxn' = [ixTxn EXCEPT ![t].step = "insert", ![t].slot = s]
  BY DEF TableInsert, Slots
<1>3. s \in Nat /\ s \notin 1 .. s - 1
  BY IxAssumption, SMTT(30) DEF Slots
<1>4. rows[s].inserted = Nothing
  BY <1>2, <1>3 DEF Used, Slots
<1>5. /\ ixTxn' \in [IxTxns -> [status : Statuses, start : Nat, must : BOOLEAN, step : {"idle", "insert", "delete"}, slot : Nat]]
      /\ ixTxn'[t].status = ixTxn[t].status /\ ixTxn'[t].start = ixTxn[t].start /\ ixTxn'[t].must = ixTxn[t].must
      /\ ixTxn'[t].step = "insert" /\ ixTxn'[t].slot = s
      /\ \A u \in IxTxns : u # t => ixTxn'[u] = ixTxn[u]
  BY <1>2, <1>3 DEF IndexType
<1>6. Active(t) /\ ~Ended(t)
  BY <1>1 DEF Active, Ended
<1>7. Progresses /\ Later /\ IxRunning' = IxRunning /\ \A u \in IxTxns : ixTxn'[u].start = ixTxn[u].start
  BY <1>1, <1>5, <1>6, OneMoves
<1>8. /\ rows' \in [Slots -> [key : Keys \cup {"none"}, inserted : Stamp, deleted : Stamp, head : Stamp]]
      /\ rows'[s].key = k /\ rows'[s].inserted = By(t) /\ rows'[s].deleted = Nothing /\ rows'[s].head = By(t)
      /\ \A v \in Slots : v # s => rows'[v] = rows[v]
  <2>1. [key |-> k, inserted |-> By(t), deleted |-> Nothing, head |-> By(t)]
          \in [key : Keys \cup {"none"}, inserted : Stamp, deleted : Stamp, head : Stamp]
    BY StampNames
  <2> QED BY <1>2, <2>1 DEF IndexType
\* The slot is new to the index.
<1>9. /\ \A j \in Keys : s \notin entries[j]
      /\ \A u \in IxTxns : s \notin undoInsert[u] /\ s \notin onCommit[u]
      /\ ~InQueue(s) /\ rows[s].deleted = Nothing
  <2>1. rows[s].deleted = Nothing /\ rows[s].inserted.by \notin IxTxns /\ rows[s].deleted.by \notin IxTxns /\ rows[s].deleted.time = 0
    BY <1>4, StampNames DEF RowInv, RowOf
  <2>2. \A j \in Keys : s \notin entries[j]
    BY <2>1, EntryBegun
  <2>3. \A u \in IxTxns : s \notin undoInsert[u] /\ s \notin onCommit[u]
    <3> SUFFICES ASSUME NEW u \in IxTxns PROVE s \notin undoInsert[u] /\ s \notin onCommit[u]
      OBVIOUS
    <3>1. s \notin undoInsert[u]
      BY <2>1 DEF UndoInv
    <3>2. s \notin onCommit[u]
      BY <2>1 DEF CommitInv
    <3> QED BY <3>1, <3>2
  <2>4. ~InQueue(s)
    BY <2>1 DEF InQueue, QueueInv
  <2> QED BY <2>1, <2>2, <2>3, <2>4
<1>10. IndexType'
  BY <1>1, <1>5, <1>8 DEF IndexType
<1>11. RowInv'
  <2> SUFFICES ASSUME NEW v \in Slots PROVE RowOf(v)' /\ HeadOf(v)'
    BY DEF RowInv
  <2>1. CASE v # s
    BY <1>7, <1>8, <2>1, RowKept DEF SameRow
  <2>2. CASE v = s
    <3>1. 0 < ixClock
      <4>1. ixTxn[t].start < ixClock /\ ixTxn[t].start \in Nat /\ ixClock \in Nat
        BY StartTypes DEF TxnInv, TxnOf, IndexType
      <4> QED BY <4>1, SMTT(30)
    <3>2. ValidLater(By(t)) /\ ValidLater(Nothing)
      BY <1>1, <1>5, <3>1, StampNames DEF ValidLater
    <3>3. RowOf(s)'
      BY <1>8, <3>2, StampNames DEF RowOf, Valid, ValidLater, Active, Ended, By, Nothing
    <3>4. HeadOf(s)'
      <4>1. rows'[s].head = rows'[s].inserted /\ rows'[s].inserted.by # "aborted"
        BY <1>8, StampNames
      <4> QED BY <1>8, <4>1 DEF HeadOf, Nothing
    <3> QED BY <2>2, <3>3, <3>4
  <2> QED BY <2>1, <2>2
<1>12. TxnInv'
  <2> SUFFICES ASSUME NEW u \in IxTxns PROVE TxnOf(u)'
    BY DEF TxnInv
  <2>1. CASE u # t
    <3>1. ASSUME NEW v \in Slots, rows[v].inserted = By(u) \/ rows[v].deleted = By(u) PROVE rows'[v] = rows[v]
      <4>1. rows[s].inserted = Nothing /\ rows[s].deleted = Nothing /\ By(u) # Nothing
        BY <1>4, <1>9, NamesOfStamps
      <4>2. v # s
        BY <3>1, <4>1
      <4> QED BY <1>8, <4>2
    <3> QED BY <1>1, <1>5, <1>7, <2>1, <3>1, TxnKept
  <2>2. CASE u = t
    BY <1>1, <1>5, <1>8, <2>2 DEF TxnInv, TxnOf, By, Nothing
  <2> QED BY <2>1, <2>2
<1>13. EntryInv'
  <2> SUFFICES ASSUME NEW j \in Keys, NEW v \in entries[j] PROVE EntryOf(j, v)'
    BY <1>1 DEF EntryInv
  <2>1. rows'[v] = rows[v] /\ EntryOf(j, v)
    BY <1>8, <1>9, EntrySlots DEF EntryInv
  <2> QED BY <1>1, <2>1, SMTT(30) DEF EntryOf, InQueue
<1>14. ThereInv'
  <2> SUFFICES ASSUME NEW v \in Slots PROVE ThereOf(v)'
    BY DEF ThereInv
  <2>1. CASE v = s
    <3>1. rows'[s].inserted.time = 0 /\ rows'[s].deleted.time = 0
      BY <1>8, StampNames
    <3> QED BY <2>1, <3>1 DEF ThereOf
  <2>2. CASE v # s
    <3>1. rows'[v] = rows[v] /\ ThereOf(v) /\ \A u \in IxRunning : ixTxn'[u].start = ixTxn[u].start
      BY <1>7, <1>8, <2>2 DEF ThereInv, IxRunning
    <3> QED BY <1>1, <1>7, <3>1 DEF ThereOf
  <2> QED BY <2>1, <2>2
<1>15. OwnInv'
  <2> SUFFICES ASSUME NEW u \in IxTxns, NEW v \in Slots PROVE OwnOf(u, v)'
    BY DEF OwnInv
  <2>1. CASE u # t /\ v # s
    BY <1>1, <1>5, <1>8, <2>1, OwnKept
  <2>2. CASE u # t /\ v = s
    <3>1. rows'[v].inserted # By(u) /\ rows'[v].deleted # By(u)
      BY <1>8, <2>2, StampNames, StampsDiffer
    <3> QED BY <3>1 DEF OwnOf, By
  <2>3. CASE u = t /\ v = s
    <3>1. rows'[v].deleted # By(u) /\ ixTxn'[u].step = "insert" /\ ixTxn'[u].slot = v
      BY <1>5, <1>8, <2>3, StampNames
    <3> QED BY <3>1 DEF OwnOf, By
  <2>4. CASE u = t /\ v # s
    <3>1. rows'[v] = rows[v] /\ OwnOf(t, v)
      BY <1>8, <2>4 DEF OwnInv
    <3> QED BY <1>1, <1>5, <2>4, <3>1 DEF OwnOf, By
  <2> QED BY <2>1, <2>2, <2>3, <2>4
<1>16. UndoInv'
  <2>1. \A u \in IxTxns : \A v \in undoInsert[u] : rows'[v] = rows[v]
    BY <1>8, <1>9, EntrySlots
  <2> QED BY <1>1, <2>1, SMTT(30) DEF UndoInv
<1>17. CommitInv'
  <2>1. \A u \in IxTxns : \A v \in onCommit[u] : rows'[v] = rows[v]
    BY <1>8, <1>9, EntrySlots
  <2> QED BY <1>1, <2>1, SMTT(30) DEF CommitInv, InQueue
<1>18. QueueInv'
  <2>1. \A v \in Slots : InQueue(v) => rows'[v] = rows[v]
    BY <1>8, <1>9
  <2> QED BY <1>1, <1>7, <2>1, QueueKept
<1>19. FollowInv'
  <2>1. \A j \in Keys : \A v \in entries[j] : rows'[v] = rows[v]
    BY <1>8, <1>9, EntrySlots
  <2> QED BY <1>1, <1>7, <2>1, FollowKept
<1> QED BY <1>10, <1>11, <1>12, <1>13, <1>14, <1>15, <1>16, <1>17, <1>18, <1>19

LEMMA IndexRefused ==
    ASSUME IndexInv, NEW t \in IxTxns, ixTxn[t].status = "running", ixTxn[t].step # "delete",
           rows' = rows, entries' = entries, undoInsert' = undoInsert, onCommit' = onCommit,
           deferredErase' = deferredErase, ixClock' = ixClock,
           ixTxn' = [ixTxn EXCEPT ![t] = [@ EXCEPT !.step = "idle", !.must = TRUE]]
    PROVE  IndexInv'
<1>1. /\ ixTxn' \in [IxTxns -> [status : Statuses, start : Nat, must : BOOLEAN, step : {"idle", "insert", "delete"}, slot : Nat]]
      /\ ixTxn'[t].status = "running" /\ ixTxn'[t].start = ixTxn[t].start /\ ixTxn'[t].step = "idle" /\ ixTxn'[t].must
      /\ \A u \in IxTxns : u # t => ixTxn'[u] = ixTxn[u]
  BY DEF IndexInv, IndexType, Statuses
<1> QED BY <1>1, IndexTurn

LEMMA IndexAbort ==
    ASSUME IndexInv, NEW t \in IxTxns, IxAbort(t)
    PROVE  IndexInv'
<1>1. /\ ixTxn[t].status = "running" /\ ixTxn[t].step = "idle"
      /\ rows' = rows /\ entries' = entries /\ undoInsert' = undoInsert /\ onCommit' = onCommit
      /\ deferredErase' = deferredErase /\ ixClock' = ixClock
      /\ ixTxn' = [ixTxn EXCEPT ![t].status = "aborting"]
  BY DEF IxAbort, Idle
<1>2. /\ ixTxn' \in [IxTxns -> [status : Statuses, start : Nat, must : BOOLEAN, step : {"idle", "insert", "delete"}, slot : Nat]]
      /\ ixTxn'[t].status = "aborting" /\ ixTxn'[t].start = ixTxn[t].start /\ ixTxn'[t].step = "idle"
      /\ \A u \in IxTxns : u # t => ixTxn'[u] = ixTxn[u]
  BY <1>1 DEF IndexInv, IndexType, Statuses
<1>3. "aborting" # "running"
  OBVIOUS
<1> QED BY <1>1, <1>2, <1>3, IndexTurn

\* A slot with an entry that gives a transaction neither a conflict nor a tuple was deleted
\* before it began, or by itself.
LEMMA GoneForMe ==
    ASSUME IndexInv, NEW t \in IxTxns, Active(t), NEW k \in Keys, NEW v \in entries[k],
           ~HasConflictWith(t, v), ~IsVisibleTo(t, v)
    PROVE  rows[v].deleted = By(t) \/ (rows[v].deleted.time # 0 /\ rows[v].deleted.time < ixTxn[t].start)
<1>1. v \in Slots /\ rows[v].inserted.by \in IxTxns /\ HeadOf(v)
  BY EntryBegun DEF IndexInv, RowInv
<1>2. SeenBy(t, rows[v].head)
  BY DEF HasConflictWith
<1>3. CASE rows[v].deleted # Nothing
  <2>1. SeenBy(t, rows[v].deleted)
    BY <1>1, <1>2, <1>3 DEF HeadOf
  <2> QED BY <1>1, <2>1, StampStates DEF SeenBy
<1>4. CASE rows[v].deleted = Nothing
  <2>1. ~SeenBy(t, rows[v].deleted)
    BY <1>4, StampNames DEF SeenBy
  <2>2. ~SeenBy(t, rows[v].inserted)
    BY <2>1 DEF IsVisibleTo
  <2>3. rows[v].inserted.by # "aborted"
    BY <1>1, StampNames
  <2>4. /\ rows[v].head.by = "aborted" /\ rows[v].inserted.time # 0 /\ rows[v].inserted.time < rows[v].head.time
    BY <1>1, <1>2, <1>4, <2>2, <2>3 DEF HeadOf
  <2>5. rows[v].head.time < ixTxn[t].start
    BY <1>2, <2>4, StampNames DEF SeenBy
  <2>6. rows[v].inserted.time \in Nat /\ rows[v].head.time \in Nat /\ ixTxn[t].start \in Nat
    BY <1>1, StampTypes, StartTypes DEF IndexInv
  <2>7. rows[v].inserted.time < ixTxn[t].start
    BY <2>4, <2>5, <2>6, SMTT(30)
  <2> QED BY <2>2, <2>4, <2>7 DEF SeenBy
<1> QED BY <1>3, <1>4

LEMMA IndexInserted ==
    ASSUME IndexInv, NEW t \in IxTxns, ixTxn[t].status = "running", ixTxn[t].step = "insert",
           NEW s, s = ixTxn[t].slot, NEW k, k = rows[s].key,
           \A v \in entries[k] : ~HasConflictWith(t, v) /\ ~IsVisibleTo(t, v),
           ixTxn' = [ixTxn EXCEPT ![t] = [@ EXCEPT !.step = "idle"]],
           entries' = [entries EXCEPT ![k] = @ \cup {s}], undoInsert' = [undoInsert EXCEPT ![t] = @ \cup {s}],
           ixClock' = ixClock, rows' = rows, onCommit' = onCommit, deferredErase' = deferredErase
    PROVE  IndexInv'
<1> USE DEF IndexInv
<1>1. /\ ixTxn' \in [IxTxns -> [status : Statuses, start : Nat, must : BOOLEAN, step : {"idle", "insert", "delete"}, slot : Nat]]
      /\ ixTxn'[t].status = ixTxn[t].status /\ ixTxn'[t].start = ixTxn[t].start /\ ixTxn'[t].must = ixTxn[t].must
      /\ ixTxn'[t].step = "idle"
      /\ \A u \in IxTxns : u # t => ixTxn'[u] = ixTxn[u]
  BY DEF IndexType
<1>2. Active(t) /\ s \in Slots /\ rows[s].inserted = By(t) /\ rows[s].deleted = Nothing
  BY DEF Active, TxnInv, TxnOf
<1>3. k \in Keys
  BY <1>2, StampNames DEF RowInv, RowOf
<1>4. Progresses /\ Later /\ IxRunning' = IxRunning /\ \A u \in IxTxns : ixTxn'[u].start = ixTxn[u].start
  BY <1>1, <1>2, OneMoves
<1>5. /\ entries' \in [Keys -> SUBSET Slots] /\ entries'[k] = entries[k] \cup {s}
      /\ \A j \in Keys : j # k => entries'[j] = entries[j]
  BY <1>2, <1>3 DEF IndexType
<1>6. /\ undoInsert' \in [IxTxns -> SUBSET Slots] /\ undoInsert'[t] = undoInsert[t] \cup {s}
      /\ \A u \in IxTxns : u # t => undoInsert'[u] = undoInsert[u]
  BY <1>2 DEF IndexType
<1>7. \A j \in Keys : \A v : v \in entries'[j] <=> v \in entries[j] \/ (j = k /\ v = s)
  BY <1>5
<1>8. \A u \in IxTxns : \A v : v \in undoInsert'[u] <=> v \in undoInsert[u] \/ (u = t /\ v = s)
  BY <1>6
<1>9. IndexType'
  BY <1>1, <1>5, <1>6 DEF IndexType
<1>10. RowInv'
  BY <1>4, RowsKept
<1>11. TxnInv'
  <2> SUFFICES ASSUME NEW u \in IxTxns PROVE TxnOf(u)'
    BY DEF TxnInv
  <2>1. CASE u # t
    BY <1>1, <1>4, <1>6, <2>1, TxnKept
  <2>2. CASE u = t
    <3>1. ixTxn[t].start < ixClock
      BY DEF TxnInv, TxnOf
    <3> QED BY <1>1, <2>2, <3>1 DEF TxnOf
  <2> QED BY <2>1, <2>2
<1>12. EntryInv'
  <2> SUFFICES ASSUME NEW j \in Keys, NEW v \in entries'[j] PROVE EntryOf(j, v)'
    BY DEF EntryInv
  <2>1. CASE j = k /\ v = s
    BY <1>2, <1>6, <2>1, StampNames DEF EntryOf
  <2>2. CASE v \in entries[j]
    <3>1. EntryOf(j, v)
      BY <2>2 DEF EntryInv
    <3> QED BY <1>8, <3>1 DEF EntryOf, InQueue
  <2> QED BY <1>7, <2>1, <2>2
<1>13. \A j \in Keys : \A v \in entries[j] : v \in entries'[j]
  BY <1>7
<1>14. ThereInv'
  BY <1>4, <1>13, ThereKept DEF IxRunning
<1>15. OwnInv'
  <2> SUFFICES ASSUME NEW u \in IxTxns, NEW v \in Slots PROVE OwnOf(u, v)'
    BY DEF OwnInv
  <2>1. rows[v].inserted = By(u) => rows[v].key \in Keys
    BY KeyOf, StampNames
  <2>2. CASE u # t
    BY <1>1, <1>13, <2>1, <2>2, OwnKept
  <2>3. CASE u = t
    <3>1. OwnOf(t, v)
      BY DEF OwnInv
    <3>2. rows[v].inserted = By(t) /\ ~ixTxn[t].must => v \in entries'[rows[v].key]
      BY <1>3, <1>7, <1>13, <2>1, <2>3, <3>1 DEF OwnOf
    <3>3. rows[v].deleted = By(t) => v \in onCommit[t]
      BY <3>1 DEF OwnOf
    <3> QED BY <1>1, <2>3, <3>2, <3>3 DEF OwnOf, By
  <2> QED BY <2>2, <2>3
<1>16. UndoInv'
  <2> SUFFICES ASSUME NEW u \in IxTxns, NEW v \in undoInsert'[u] PROVE rows[v].inserted.by = u /\ v \in entries'[rows[v].key]
    BY DEF UndoInv
  <2>1. CASE u = t /\ v = s
    BY <1>2, <1>3, <1>7, <2>1, StampNames
  <2>2. CASE v \in undoInsert[u]
    <3>1. v \in Slots /\ rows[v].inserted.by = u /\ v \in entries[rows[v].key]
      BY <2>2, EntrySlots DEF UndoInv
    <3>2. rows[v].key \in Keys
      BY <3>1, KeyOf
    <3> QED BY <1>13, <3>1, <3>2
  <2> QED BY <1>8, <2>1, <2>2
<1>17. CommitInv'
  <2> SUFFICES ASSUME NEW u \in IxTxns, NEW v \in onCommit[u]
               PROVE  rows[v].deleted.by = u /\ ~InQueue(v) /\ (rows[v].deleted.time # 0 => v \in entries'[rows[v].key])
    BY DEF CommitInv, InQueue
  <2>1. /\ v \in Slots /\ rows[v].deleted.by = u /\ ~InQueue(v)
        /\ rows[v].deleted.time # 0 => v \in entries[rows[v].key]
    BY EntrySlots DEF CommitInv
  <2>2. rows[v].key \in Keys
    BY <2>1, KeyOf
  <2> QED BY <1>13, <2>1, <2>2
<1>18. QueueInv'
  BY <1>4, <1>13, QueueKept
<1>19. FollowInv'
  <2> SUFFICES ASSUME NEW j \in Keys, NEW v \in entries'[j], NEW w \in entries'[j], v # w
               PROVE  Follows(v, w)' \/ Follows(w, v)'
    BY DEF FollowInv
  <2>1. ASSUME NEW x \in entries[k] PROVE Follows(x, s)'
    <3>1. rows[x].deleted = By(t) \/ (rows[x].deleted.time # 0 /\ rows[x].deleted.time < ixTxn[t].start)
      BY <1>2, <1>3, GoneForMe
    <3>2. rows'[s].inserted = By(t) /\ rows'[s].inserted.by = t
      BY <1>2, StampNames
    <3> QED BY <1>1, <3>1, <3>2 DEF Follows
  <2>2. CASE v \in entries[j] /\ w \in entries[j]
    <3>1. Follows(v, w) \/ Follows(w, v)
      BY <2>2 DEF FollowInv
    <3> QED BY <1>4, <2>2, <3>1, FollowStays
  <2>3. CASE v \in entries[j] /\ j = k /\ w = s
    BY <2>1, <2>3
  <2>4. CASE w \in entries[j] /\ j = k /\ v = s
    BY <2>1, <2>4
  <2>5. v \in entries[j] \/ (j = k /\ v = s)
    BY <1>7
  <2>6. w \in entries[j] \/ (j = k /\ w = s)
    BY <1>7
  <2> QED BY <2>2, <2>3, <2>4, <2>5, <2>6
<1> QED BY <1>9, <1>10, <1>11, <1>12, <1>14, <1>15, <1>16, <1>17, <1>18, <1>19

LEMMA IndexInsertUnique ==
    ASSUME IndexInv, NEW t \in IxTxns, InsertUnique(t)
    PROVE  IndexInv'
<1> USE DEF IndexInv
<1> DEFINE s == ixTxn[t].slot
           k == rows[s].key
           satisfied == \E v \in entries[k] : HasConflictWith(t, v) \/ IsVisibleTo(t, v)
<1>1. /\ ixTxn[t].status = "running" /\ ixTxn[t].step = "insert"
      /\ ixTxn' = [ixTxn EXCEPT ![t] = [@ EXCEPT !.step = "idle", !.must = ixTxn[t].must \/ satisfied]]
      /\ entries' = [entries EXCEPT ![k] = IF satisfied THEN @ ELSE @ \cup {s}]
      /\ undoInsert' = [undoInsert EXCEPT ![t] = IF satisfied THEN @ ELSE @ \cup {s}]
      /\ ixClock' = ixClock /\ rows' = rows /\ onCommit' = onCommit /\ deferredErase' = deferredErase
  BY DEF InsertUnique
<1>2. ixTxn[t].must \in BOOLEAN
  BY DEF IndexType
<1>3. CASE satisfied
  <2>1. entries' = entries /\ undoInsert' = undoInsert
    BY <1>1, <1>3 DEF IndexType
  <2>2. ixTxn' = [ixTxn EXCEPT ![t] = [@ EXCEPT !.step = "idle", !.must = TRUE]]
    <3>1. (ixTxn[t].must \/ satisfied) = TRUE
      BY <1>3
    <3> HIDE DEF satisfied
    <3> QED BY <1>1, <3>1
  <2>3. ixTxn[t].step # "delete"
    BY <1>1
  <2> HIDE DEF satisfied, k, s
  <2> QED BY <1>1, <2>1, <2>2, <2>3, IndexRefused
<1>4. CASE ~satisfied
  <2>1. entries' = [entries EXCEPT ![k] = @ \cup {s}] /\ undoInsert' = [undoInsert EXCEPT ![t] = @ \cup {s}]
    BY <1>1, <1>4
  <2>2. \A v \in entries[k] : ~HasConflictWith(t, v) /\ ~IsVisibleTo(t, v)
    BY <1>4
  <2>3. ixTxn' = [ixTxn EXCEPT ![t] = [@ EXCEPT !.step = "idle"]]
    <3>1. (ixTxn[t].must \/ satisfied) = ixTxn[t].must
      BY <1>2, <1>4
    <3> HIDE DEF satisfied
    <3>2. [ixTxn[t] EXCEPT !.step = "idle", !.must = ixTxn[t].must] = [ixTxn[t] EXCEPT !.step = "idle"]
      BY DEF IndexType
    <3> QED BY <1>1, <3>1, <3>2
  <2> HIDE DEF satisfied
  <2> QED BY <1>1, <2>1, <2>2, <2>3, IndexInserted
<1> QED BY <1>3, <1>4

\* TableDelete of a slot that the transaction sees.
LEMMA IndexDeleted ==
    ASSUME IndexInv, NEW t \in IxTxns, Idle(t), NEW k \in Keys, NEW s \in entries[k],
           IsVisibleTo(t, s), ~HasConflictWith(t, s),
           rows' = [rows EXCEPT ![s].deleted = By(t), ![s].head = By(t)],
           ixTxn' = [ixTxn EXCEPT ![t].step = "delete", ![t].slot = s],
           ixClock' = ixClock, entries' = entries, undoInsert' = undoInsert, onCommit' = onCommit,
           deferredErase' = deferredErase
    PROVE  IndexInv'
<1> USE DEF IndexInv
<1>1. s \in Slots /\ rows[s].inserted.by \in IxTxns /\ rows[s].key = k
  BY EntryBegun
<1>2. s \in Nat
  BY <1>1, IxAssumption, SMTT(30) DEF Slots
<1>3. /\ ixTxn' \in [IxTxns -> [status : Statuses, start : Nat, must : BOOLEAN, step : {"idle", "insert", "delete"}, slot : Nat]]
      /\ ixTxn'[t].status = ixTxn[t].status /\ ixTxn'[t].start = ixTxn[t].start /\ ixTxn'[t].must = ixTxn[t].must
      /\ ixTxn'[t].step = "delete" /\ ixTxn'[t].slot = s
      /\ \A u \in IxTxns : u # t => ixTxn'[u] = ixTxn[u]
  BY <1>2 DEF IndexType
<1>4. /\ rows' \in [Slots -> [key : Keys \cup {"none"}, inserted : Stamp, deleted : Stamp, head : Stamp]]
      /\ rows'[s].key = rows[s].key /\ rows'[s].inserted = rows[s].inserted /\ rows'[s].deleted = By(t) /\ rows'[s].head = By(t)
      /\ \A v \in Slots : v # s => rows'[v] = rows[v]
  <2>1. rows \in [Slots -> [key : Keys \cup {"none"}, inserted : Stamp, deleted : Stamp, head : Stamp]] /\ By(t) \in Stamp
    BY StampNames DEF IndexType
  <2> HIDE DEF IndexInv
  <2> QED BY <1>1, <2>1
<1>5. Active(t) /\ ixTxn[t].status = "running" /\ ixTxn[t].step = "idle"
  BY DEF Idle, Active
<1>6. Progresses /\ Later /\ IxRunning' = IxRunning /\ \A u \in IxTxns : ixTxn'[u].start = ixTxn[u].start
  BY <1>3, <1>5, OneMoves
<1>7. rows[s].deleted = Nothing /\ (rows[s].inserted = By(t) \/ rows[s].inserted.time # 0)
  <2>1. HeadOf(s)
    BY <1>1 DEF RowInv
  <2>2. rows[s].deleted = Nothing
    BY <2>1 DEF HeadOf, HasConflictWith, IsVisibleTo
  <2>3. rows[s].inserted.by = t \/ rows[s].inserted.time # 0
    BY DEF IsVisibleTo, SeenBy
  <2> QED BY <1>1, <1>5, <2>2, <2>3, StampStates
<1>8. /\ \A u \in IxTxns : s \notin onCommit[u] /\ (u # t => rows[s].inserted # By(u))
      /\ ~InQueue(s)
  <2>1. ASSUME NEW u \in IxTxns PROVE s \notin onCommit[u]
    <3>1. rows[s].deleted.by # u
      BY <1>7, NamesOfStamps
    <3> QED BY <3>1 DEF CommitInv
  <2>2. ASSUME NEW u \in IxTxns, u # t PROVE rows[s].inserted # By(u)
    BY <1>7, <2>2, NamesOfStamps
  <2>3. ~InQueue(s)
    <3>1. rows[s].deleted.time = 0
      BY <1>7, NamesOfStamps
    <3> QED BY <3>1 DEF InQueue, QueueInv
  <2> QED BY <2>1, <2>2, <2>3
<1>9. IndexType'
  BY <1>3, <1>4 DEF IndexType
<1>10. RowInv'
  <2> SUFFICES ASSUME NEW v \in Slots PROVE RowOf(v)' /\ HeadOf(v)'
    BY DEF RowInv
  <2>1. CASE v # s
    BY <1>4, <1>6, <2>1, RowKept DEF SameRow
  <2>2. CASE v = s
    <3>1. Valid(rows[s].inserted) /\ rows[s].inserted \in Stamp /\ Valid(rows[s].deleted)
      BY <1>1, StampTypes DEF RowInv, RowOf
    <3>2. ValidLater(rows[s].inserted) /\ ValidLater(Nothing)
      BY <1>6, <1>7, <3>1, StampsKept, StampNames
    <3>3. ValidLater(By(t))
      <4>1. 0 < ixClock'
        BY <3>2, StampNames DEF ValidLater
      <4> QED BY <1>3, <1>5, <4>1, StampNames DEF ValidLater
    <3>4. rows[s].inserted # Nothing /\ rows[s].inserted.by # "nobody" /\ rows[s].inserted.by # "aborted"
      BY <1>1, StampNames
    <3>5. rows[s].inserted.time = 0 => rows[s].inserted = By(t)
      BY <1>7
    <3>6. RowOf(s)'
      <4>1. By(t).by # "aborted" /\ By(t).time = 0
        BY StampNames
      <4>2. Valid(rows[s].inserted)' /\ Valid(rows[s].deleted)' /\ Valid(rows[s].head)'
        BY <1>4, <3>2, <3>3 DEF Valid, ValidLater, Active, Ended
      <4> QED BY <1>1, <1>4, <3>4, <3>5, <4>1, <4>2 DEF RowOf
    <3>7. HeadOf(s)'
      <4>1. rows'[s].head = rows'[s].deleted /\ rows'[s].deleted # Nothing
        BY <1>4, NamesOfStamps
      <4> QED BY <4>1 DEF HeadOf, Nothing
    <3> QED BY <2>2, <3>6, <3>7
  <2> QED BY <2>1, <2>2
<1>11. TxnInv'
  <2> SUFFICES ASSUME NEW u \in IxTxns PROVE TxnOf(u)'
    BY DEF TxnInv
  <2>1. CASE u # t
    <3>1. ASSUME NEW v \in Slots, rows[v].inserted = By(u) \/ rows[v].deleted = By(u) PROVE rows'[v] = rows[v]
      <4>1. rows[s].inserted # By(u) /\ rows[s].deleted = Nothing /\ By(u) # Nothing
        BY <1>7, <1>8, <2>1, NamesOfStamps
      <4>2. v # s
        BY <3>1, <4>1
      <4> QED BY <1>4, <4>2
    <3> QED BY <1>3, <1>6, <2>1, <3>1, TxnKept
  <2>2. CASE u = t
    <3>1. ixTxn[t].start < ixClock
      BY DEF TxnInv, TxnOf
    <3> QED BY <1>1, <1>3, <1>4, <1>5, <2>2, <3>1 DEF TxnOf, By
  <2> QED BY <2>1, <2>2
<1>12. EntryInv'
  <2> SUFFICES ASSUME NEW j \in Keys, NEW v \in entries[j] PROVE EntryOf(j, v)'
    BY DEF EntryInv
  <2>1. EntryOf(j, v) /\ v \in Slots
    BY EntrySlots DEF EntryInv
  <2>2. CASE v = s
    <3>2. rows'[s].deleted = By(t) /\ rows'[s].key = rows[s].key /\ rows'[s].inserted = rows[s].inserted
      BY <1>4
    <3>3. rows'[s].deleted.time = 0
      BY <3>2, StampNames
    <3>1. rows'[v].deleted.time = 0 /\ rows'[v].key = rows[v].key /\ rows'[v].inserted = rows[v].inserted
      BY <2>2, <3>2, <3>3
    <3> QED BY <2>1, <3>1 DEF EntryOf
  <2>3. CASE v # s
    <3>1. rows'[v] = rows[v]
      BY <1>4, <2>1, <2>3
    <3>2. InQueue(v)' <=> InQueue(v)
      BY QueueSame
    <3> QED BY <2>1, <3>1, <3>2 DEF EntryOf
  <2> QED BY <2>2, <2>3
<1>13. ThereInv'
  <2> SUFFICES ASSUME NEW v \in Slots PROVE ThereOf(v)'
    BY DEF ThereInv
  <2>1. CASE v = s
    <3>2. rows'[s].deleted = By(t) /\ rows'[s].key = k
      BY <1>1, <1>4
    <3>1. rows'[s].deleted.time = 0 /\ s \in entries'[rows'[s].key]
      BY <3>2, NamesOfStamps
    <3> QED BY <2>1, <3>1 DEF ThereOf
  <2>2. CASE v # s
    <3>1. rows'[v] = rows[v] /\ ThereOf(v) /\ \A u \in IxRunning : ixTxn'[u].start = ixTxn[u].start
      BY <1>4, <1>6, <2>2 DEF ThereInv, IxRunning
    <3> QED BY <1>6, <3>1 DEF ThereOf
  <2> QED BY <2>1, <2>2
<1>14. OwnInv'
  <2> SUFFICES ASSUME NEW u \in IxTxns, NEW v \in Slots PROVE OwnOf(u, v)'
    BY DEF OwnInv
  <2>1. CASE u # t /\ v # s
    BY <1>3, <1>4, <2>1, OwnKept
  <2>2. CASE v = s
    <3>1. s \in entries'[rows'[s].key] /\ (u # t => rows'[s].deleted # By(u))
      BY <1>1, <1>4, StampsDiffer
    <3> QED BY <1>3, <2>2, <3>1 DEF OwnOf, By
  <2>3. CASE u = t /\ v # s
    <3>1. rows'[v] = rows[v] /\ OwnOf(t, v)
      BY <1>4, <2>3 DEF OwnInv
    <3> QED BY <1>3, <1>5, <2>3, <3>1 DEF OwnOf, By
  <2> QED BY <2>1, <2>2, <2>3
<1>15. UndoInv'
  <2> SUFFICES ASSUME NEW u \in IxTxns, NEW v \in undoInsert[u] PROVE rows'[v].inserted.by = u /\ v \in entries[rows'[v].key]
    BY DEF UndoInv
  <2>1. v \in Slots /\ rows[v].inserted.by = u /\ v \in entries[rows[v].key]
    BY EntrySlots DEF UndoInv
  <2> QED BY <1>4, <2>1
<1>16. CommitInv'
  <2>1. ASSUME NEW u \in IxTxns, NEW v \in onCommit[u] PROVE rows'[v] = rows[v]
    <3>1. v \in Slots
      BY EntrySlots
    <3>2. v # s
      BY <1>8
    <3> QED BY <1>4, <3>1, <3>2
  <2>3. ASSUME NEW u \in IxTxns, NEW v \in onCommit'[u]
        PROVE  rows'[v].deleted.by = u /\ ~InQueue(v)' /\ (rows'[v].deleted.time # 0 => v \in entries'[rows'[v].key])
    <3>1. rows'[v] = rows[v] /\ v \in onCommit[u]
      BY <2>1
    <3>2. InQueue(v)' <=> InQueue(v)
      BY QueueSame
    <3> QED BY <3>1, <3>2 DEF CommitInv
  <2> QED BY <2>3 DEF CommitInv
<1>17. QueueInv'
  <2>1. \A v \in Slots : InQueue(v) => rows'[v] = rows[v]
    BY <1>4, <1>8
  <2> QED BY <1>6, <2>1, QueueKept
<1>18. FollowInv'
  <2>1. ASSUME NEW j \in Keys, NEW v \in entries[j]
        PROVE  rows'[v].inserted = rows[v].inserted /\ (rows[v].deleted # Nothing => rows'[v].deleted = rows[v].deleted)
    <3>1. v \in Slots
      BY EntrySlots
    <3> QED BY <1>4, <1>7, <3>1
  <2> QED BY <1>6, <2>1, FollowKept
<1> QED BY <1>9, <1>10, <1>11, <1>12, <1>13, <1>14, <1>15, <1>16, <1>17, <1>18

LEMMA IndexTableDelete ==
    ASSUME IndexInv, NEW t \in IxTxns, NEW k \in Keys, TableDelete(t, k)
    PROVE  IndexInv'
<1>1. /\ Idle(t) /\ ixClock' = ixClock /\ entries' = entries /\ undoInsert' = undoInsert /\ onCommit' = onCommit
      /\ deferredErase' = deferredErase
  BY DEF TableDelete
<1>2. PICK s \in ScanKey(t, k) :
        IF HasConflictWith(t, s)
        THEN ixTxn' = [ixTxn EXCEPT ![t].must = TRUE] /\ rows' = rows
        ELSE /\ rows' = [rows EXCEPT ![s].deleted = By(t), ![s].head = By(t)]
             /\ ixTxn' = [ixTxn EXCEPT ![t].step = "delete", ![t].slot = s]
  BY DEF TableDelete
<1>3. s \in entries[k] /\ IsVisibleTo(t, s)
  BY DEF ScanKey
<1>4. CASE HasConflictWith(t, s)
  <2>1. ixTxn[t].status = "running" /\ ixTxn[t].step = "idle"
    BY <1>1 DEF Idle
  <2>2. [ixTxn[t] EXCEPT !.must = TRUE] = [ixTxn[t] EXCEPT !.step = "idle", !.must = TRUE]
    BY <2>1 DEF IndexInv, IndexType
  <2>3. ixTxn' = [ixTxn EXCEPT ![t] = [@ EXCEPT !.step = "idle", !.must = TRUE]] /\ rows' = rows
    BY <1>2, <1>4, <2>2
  <2>4. ixTxn[t].step # "delete"
    BY <2>1
  <2> QED BY <1>1, <2>1, <2>3, <2>4, IndexRefused
<1>5. CASE ~HasConflictWith(t, s)
  BY <1>1, <1>2, <1>3, <1>5, IndexDeleted
<1> QED BY <1>4, <1>5

LEMMA IndexDeleteRegistered ==
    ASSUME IndexInv, NEW t \in IxTxns, IndexDelete(t)
    PROVE  IndexInv'
<1> USE DEF IndexInv
<1> DEFINE s == ixTxn[t].slot
<1>1. /\ ixTxn[t].status = "running" /\ ixTxn[t].step = "delete"
      /\ onCommit' = [onCommit EXCEPT ![t] = @ \cup {s}]
      /\ ixTxn' = [ixTxn EXCEPT ![t].step = "idle"]
      /\ ixClock' = ixClock /\ rows' = rows /\ entries' = entries /\ undoInsert' = undoInsert
      /\ deferredErase' = deferredErase
  BY DEF IndexDelete
<1>2. s \in Slots /\ rows[s].deleted = By(t)
  BY <1>1 DEF TxnInv, TxnOf
<1> HIDE DEF s
<1>3. /\ ixTxn' \in [IxTxns -> [status : Statuses, start : Nat, must : BOOLEAN, step : {"idle", "insert", "delete"}, slot : Nat]]
      /\ ixTxn'[t].status = ixTxn[t].status /\ ixTxn'[t].start = ixTxn[t].start /\ ixTxn'[t].must = ixTxn[t].must
      /\ ixTxn'[t].step = "idle"
      /\ \A u \in IxTxns : u # t => ixTxn'[u] = ixTxn[u]
  BY <1>1 DEF IndexType
<1>4. /\ onCommit' \in [IxTxns -> SUBSET Slots]
      /\ \A u \in IxTxns : u # t => onCommit'[u] = onCommit[u]
      /\ onCommit'[t] = onCommit[t] \cup {s}
  BY <1>1, <1>2 DEF IndexType
<1>5. \A u \in IxTxns : \A v : v \in onCommit'[u] <=> v \in onCommit[u] \/ (u = t /\ v = s)
  BY <1>4
<1>6. Active(t)
  BY <1>1 DEF Active
<1>7. Progresses /\ Later /\ IxRunning' = IxRunning /\ \A u \in IxTxns : ixTxn'[u].start = ixTxn[u].start
  BY <1>1, <1>3, <1>6, OneMoves
<1>8. IndexType'
  BY <1>1, <1>3, <1>4 DEF IndexType
<1>9. RowInv' /\ ThereInv'
  BY <1>1, <1>7, RowsKept, ThereKept DEF IxRunning
<1>10. QueueInv' /\ FollowInv'
  BY <1>1, <1>7, QueueKept, FollowKept
<1>11. TxnInv'
  <2> SUFFICES ASSUME NEW u \in IxTxns PROVE TxnOf(u)'
    BY DEF TxnInv
  <2>1. CASE u # t
    BY <1>1, <1>3, <1>4, <1>7, <2>1, TxnKept
  <2>2. CASE u = t
    <3>1. ixTxn[t].start < ixClock
      BY DEF TxnInv, TxnOf
    <3> QED BY <1>1, <1>3, <2>2, <3>1 DEF TxnOf
  <2> QED BY <2>1, <2>2
<1>12. EntryInv'
  <2> SUFFICES ASSUME NEW j \in Keys, NEW v \in entries[j] PROVE EntryOf(j, v)'
    BY <1>1 DEF EntryInv
  <2>1. EntryOf(j, v) /\ v \in Slots
    BY EntrySlots DEF EntryInv
  <2>2. rows[v].deleted.time # 0 => v \in onCommit'[rows[v].deleted.by] \/ InQueue(v)
    <3>1. rows[v].deleted.time # 0 => rows[v].deleted.by \in IxTxns
      BY <2>1, StampTypes DEF RowInv, RowOf, Valid
    <3> QED BY <1>5, <2>1, <3>1 DEF EntryOf
  <2> QED BY <1>1, <2>1, <2>2 DEF EntryOf, InQueue
<1>13. OwnInv'
  <2> SUFFICES ASSUME NEW u \in IxTxns, NEW v \in Slots PROVE OwnOf(u, v)'
    BY DEF OwnInv
  <2>1. CASE u # t
    BY <1>1, <1>3, <1>4, <2>1, OwnKept
  <2>2. CASE u = t
    <3>1. OwnOf(t, v)
      BY DEF OwnInv
    <3>2. rows[v].inserted = By(t) /\ ~ixTxn[t].must => v \in entries[rows[v].key]
      BY <1>1, <3>1 DEF OwnOf
    <3>3. rows[v].deleted = By(t) => v \in onCommit'[t]
      BY <1>1, <1>4, <3>1 DEF OwnOf, s
    <3> QED BY <1>1, <1>3, <2>2, <3>2, <3>3 DEF OwnOf, By
  <2> QED BY <2>1, <2>2
<1>14. UndoInv'
  BY <1>1, SMTT(30) DEF UndoInv
<1>15. CommitInv'
  <2> SUFFICES ASSUME NEW u \in IxTxns, NEW v \in onCommit'[u]
               PROVE  rows[v].deleted.by = u /\ ~InQueue(v) /\ (rows[v].deleted.time # 0 => v \in entries[rows[v].key])
    BY <1>1 DEF CommitInv, InQueue
  <2>1. CASE v \in onCommit[u]
    BY <2>1 DEF CommitInv
  <2>2. CASE u = t /\ v = s
    <3>1. rows[s].deleted.by = t /\ rows[s].deleted.time = 0
      BY <1>2, StampNames
    <3>2. ~InQueue(s)
      BY <3>1 DEF InQueue, QueueInv
    <3> QED BY <2>2, <3>1, <3>2
  <2>3. v \in onCommit[u] \/ (u = t /\ v = s)
    BY <1>5
  <2> QED BY <2>1, <2>2, <2>3
<1> QED BY <1>8, <1>9, <1>10, <1>11, <1>12, <1>13, <1>14, <1>15

\* A commit gives the transaction's stamps the time of the commit and leaves the others alone.
LEMMA StampedIs ==
    ASSUME IndexType, NEW x \in Stamp, NEW t \in IxTxns
    PROVE  /\ Stamped(x, t) \in Stamp /\ Stamped(x, t).by = x.by
           /\ x # By(t) => Stamped(x, t) = x
           /\ x = By(t) => Stamped(x, t).time = ixClock
<1>1. x = [by |-> x.by, time |-> x.time] /\ ixClock \in Nat /\ x.by \in IxTxns \cup {"nobody", "aborted"}
  BY SMTT(30) DEF Stamp, IndexType
<1>2. /\ [x EXCEPT !.time = ixClock].by = x.by /\ [x EXCEPT !.time = ixClock].time = ixClock
      /\ [x EXCEPT !.time = ixClock] \in Stamp
  BY <1>1, SMTT(30) DEF Stamp
<1> QED BY <1>2 DEF Stamped

LEMMA StampedTimes ==
    ASSUME IndexType, 0 < ixClock, NEW x \in Stamp, NEW y \in Stamp, NEW t \in IxTxns
    PROVE  /\ Stamped(x, t).time = 0 => x.time = 0 /\ x # By(t) /\ Stamped(x, t) = x
           /\ Stamped(x, t) = Nothing <=> x = Nothing
           /\ x.time # 0 => Stamped(x, t) = x
           /\ x.by # t => Stamped(x, t) = x
           /\ x = y => Stamped(x, t) = Stamped(y, t)
           /\ \A u \in IxTxns : u # t => (Stamped(x, t) = By(u) <=> x = By(u))
           /\ Stamped(x, t) # By(t)
<1>1. ixClock # 0
  BY SMTT(30) DEF IndexType
<1>2. /\ Stamped(x, t) \in Stamp /\ Stamped(x, t).by = x.by
      /\ x # By(t) => Stamped(x, t) = x
      /\ x = By(t) => Stamped(x, t).time = ixClock
  BY StampedIs
<1>3. By(t).time = 0 /\ By(t).by = t /\ By(t) # Nothing /\ Nothing.time = 0
  BY StampNames
<1>4. Stamped(x, t).time = 0 => x.time = 0 /\ x # By(t) /\ Stamped(x, t) = x
  BY <1>1, <1>2
<1>5. (Stamped(x, t) = Nothing <=> x = Nothing) /\ (x.time # 0 => Stamped(x, t) = x) /\ (x.by # t => Stamped(x, t) = x)
  BY <1>2, <1>3, <1>4
<1>6. ASSUME NEW u \in IxTxns, u # t PROVE Stamped(x, t) = By(u) <=> x = By(u)
  <2>1. By(u).time = 0 /\ By(u) # By(t)
    BY <1>6, StampNames, StampsDiffer
  <2> QED BY <1>2, <1>4, <2>1
<1>7. Stamped(x, t) # By(t)
  BY <1>2, <1>3, <1>4
<1> QED BY <1>4, <1>5, <1>6, <1>7

LEMMA RowStamped ==
    ASSUME IndexInv, 0 < ixClock, NEW t \in IxTxns, Active(t), NEW s \in Slots,
           rows'[s].key = rows[s].key, rows'[s].inserted = Stamped(rows[s].inserted, t),
           rows'[s].deleted = Stamped(rows[s].deleted, t), rows'[s].head = Stamped(rows[s].head, t),
           \A x \in Stamp : Valid(x) /\ (x.by = t => x = By(t)) => ValidLater(Stamped(x, t))
    PROVE  RowOf(s)' /\ HeadOf(s)'
<1> DEFINE a == rows[s].inserted
           d == rows[s].deleted
           h == rows[s].head
<1> USE DEF IndexInv
<1>1. a \in Stamp /\ d \in Stamp /\ h \in Stamp /\ RowOf(s) /\ HeadOf(s)
  BY StampTypes DEF RowInv
<1>2. /\ a.by = t => a = By(t)
      /\ d.by = t => d = By(t)
      /\ h.by = t => h = By(t)
  BY StampStates
<1>3. By(t).time = 0 /\ By(t).by = t /\ t # "aborted" /\ t # "nobody"
  BY StampNames
<1>4. Valid(rows[s].inserted)' /\ Valid(rows[s].deleted)' /\ Valid(rows[s].head)'
  <2>1. ValidLater(Stamped(a, t)) /\ ValidLater(Stamped(d, t)) /\ ValidLater(Stamped(h, t))
    BY <1>1, <1>2 DEF RowOf
  <2> QED BY <2>1 DEF Valid, ValidLater, Active, Ended
<1>5. /\ Stamped(a, t).by = a.by /\ Stamped(d, t).by = d.by /\ Stamped(h, t).by = h.by
      /\ Stamped(a, t).time = 0 => a.time = 0 /\ a # By(t) /\ Stamped(a, t) = a
      /\ Stamped(d, t) = Nothing <=> d = Nothing
      /\ Stamped(a, t) = Nothing <=> a = Nothing
      /\ Stamped(d, t).time = 0 => d # By(t)
      /\ a.time # 0 => Stamped(a, t) = a
      /\ a.by # t => Stamped(a, t) = a
      /\ d.by # t => Stamped(d, t) = d
      /\ h.by # t => Stamped(h, t) = h
  <2> HIDE DEF a, d, h
  <2>1. /\ Stamped(a, t).by = a.by
        /\ Stamped(a, t).time = 0 => a.time = 0 /\ a # By(t) /\ Stamped(a, t) = a
        /\ Stamped(a, t) = Nothing <=> a = Nothing
        /\ a.time # 0 => Stamped(a, t) = a
        /\ a.by # t => Stamped(a, t) = a
    BY <1>1, StampedIs, StampedTimes
  <2>2. /\ Stamped(d, t).by = d.by
        /\ Stamped(d, t) = Nothing <=> d = Nothing
        /\ Stamped(d, t).time = 0 => d # By(t)
        /\ d.by # t => Stamped(d, t) = d
    BY <1>1, StampedIs, StampedTimes
  <2>3. Stamped(h, t).by = h.by /\ (h.by # t => Stamped(h, t) = h)
    BY <1>1, StampedIs, StampedTimes
  <2> QED BY <2>1, <2>2, <2>3
<1>6. d = Stamped(d, t) \/ d = By(t)
  BY <1>1, StampedIs
<1>7. Stamped(a, t).time = 0 => Stamped(d, t) \in {Nothing, Stamped(a, t)}
  <2>1. ASSUME Stamped(a, t).time = 0 PROVE Stamped(d, t) \in {Nothing, Stamped(a, t)}
    <3>1. a.time = 0 /\ a # By(t) /\ Stamped(a, t) = a
      BY <1>5, <2>1
    <3>2. d = Nothing \/ d = a
      BY <1>1, <3>1 DEF RowOf
    <3>3. d # By(t)
      BY <3>1, <3>2, StampNames
    <3> QED BY <1>6, <3>1, <3>2, <3>3
  <2> QED BY <2>1
<1>8. Stamped(d, t).time # 0 => Stamped(a, t).time <= Stamped(d, t).time
  <2>1. CASE d = By(t)
    <3>1. Stamped(d, t).time = ixClock
      BY <1>1, <2>1, StampedIs
    <3>2. Stamped(a, t).time = ixClock \/ Stamped(a, t).time = a.time
      BY <1>1, StampedIs
    <3>3. a.time < ixClock /\ a.time \in Nat /\ ixClock \in Nat
      BY <1>1, StampTypes DEF RowOf, Valid, IndexType
    <3> HIDE DEF a, d
    <3> QED BY <3>1, <3>2, <3>3, SMTT(30)
  <2>2. CASE d # By(t) /\ d.time # 0
    <3>1. a # By(t)
      BY <1>1, <1>3, <2>2, StampNames DEF RowOf
    <3>2. Stamped(a, t) = a /\ Stamped(d, t) = d
      BY <1>1, <2>2, <3>1, StampedIs
    <3> QED BY <1>1, <2>2, <3>2 DEF RowOf
  <2> QED BY <1>6, <2>1, <2>2
<1>9. a.by = "nobody" => d = Nothing
  BY <1>1 DEF RowOf
<1>10. a.by = "aborted" => a.time = 0 /\ d = Nothing
  BY <1>1 DEF RowOf
<1>11. (a # Nothing => rows[s].key \in Keys) /\ d.by # "aborted"
  BY <1>1 DEF RowOf
<1>12. RowOf(s)'
  <2>1. Stamped(a, t).by = "nobody" => Stamped(d, t) = Nothing
    BY <1>5, <1>9
  <2>2. Stamped(a, t).by = "aborted" => Stamped(a, t).time = 0 /\ Stamped(d, t) = Nothing
    BY <1>3, <1>5, <1>10
  <2>3. (Stamped(a, t) # Nothing => rows[s].key \in Keys) /\ Stamped(d, t).by # "aborted"
    BY <1>5, <1>11
  <2> HIDE DEF IndexInv
  <2> QED BY <1>4, <1>7, <1>8, <2>1, <2>2, <2>3 DEF RowOf, Nothing
<1>13. HeadOf(s)'
  <2>1. Stamped(d, t) # Nothing => Stamped(h, t) = Stamped(d, t)
    BY <1>1, <1>5 DEF HeadOf
  <2>2. ASSUME Stamped(d, t) = Nothing
        PROVE  \/ Stamped(h, t) = Stamped(a, t) /\ Stamped(a, t).by # "aborted"
               \/ /\ Stamped(h, t).by = "aborted" /\ Stamped(h, t).time # 0
                  /\ \/ Stamped(a, t).time # 0 /\ Stamped(a, t).time < Stamped(h, t).time
                     \/ Stamped(a, t).by = "aborted"
    <3>1. d = Nothing
      BY <1>5, <2>2
    <3>2. CASE h = a /\ a.by # "aborted"
      BY <1>5, <3>2
    <3>3. CASE h.by = "aborted" /\ h.time # 0 /\ ((a.time # 0 /\ a.time < h.time) \/ a.by = "aborted")
      BY <1>3, <1>5, <3>3
    <3> QED BY <1>1, <3>1, <3>2, <3>3 DEF HeadOf
  <2> HIDE DEF IndexInv
  <2> QED BY <2>1, <2>2 DEF HeadOf, Nothing
<1> QED BY <1>12, <1>13

\* What commits is in the index.
LEMMA OwnEntries ==
    ASSUME IndexInv, NEW t \in IxTxns, Idle(t), ~ixTxn[t].must, NEW s \in Slots
    PROVE  /\ rows[s].inserted = By(t) \/ rows[s].deleted = By(t) => s \in entries[rows[s].key]
           /\ rows[s].deleted = By(t) => s \in onCommit[t]
<1> USE DEF IndexInv
<1>1. OwnOf(t, s) /\ RowOf(s) /\ ThereOf(s)
  BY DEF OwnInv, RowInv, ThereInv
<1>2. ixTxn[t].status = "running" /\ ixTxn[t].step # "insert" /\ ixTxn[t].step # "delete"
  BY DEF Idle
<1>3. /\ rows[s].inserted = By(t) => s \in entries[rows[s].key]
      /\ rows[s].deleted = By(t) => s \in onCommit[t]
  BY <1>1, <1>2 DEF OwnOf
<1>4. ASSUME rows[s].deleted = By(t) PROVE s \in entries[rows[s].key]
  <2>1. rows[s].deleted.time = 0 /\ rows[s].deleted # Nothing
    BY <1>4, StampNames
  <2>2. CASE rows[s].inserted.time = 0
    BY <1>1, <1>3, <1>4, <2>1, <2>2 DEF RowOf
  <2>3. CASE rows[s].inserted.time # 0
    BY <1>1, <2>1, <2>3 DEF ThereOf
  <2> QED BY <2>2, <2>3
<1> QED BY <1>3, <1>4

LEMMA IndexCommit ==
    ASSUME IndexInv, NEW t \in IxTxns, IxCommit(t)
    PROVE  IndexInv'
<1> USE DEF IndexInv
<1>1. /\ Idle(t) /\ ~ixTxn[t].must /\ ixClock' = ixClock + 1
      /\ ixTxn' = [ixTxn EXCEPT ![t].status = "committing"]
      /\ entries' = entries /\ undoInsert' = undoInsert /\ onCommit' = onCommit /\ deferredErase' = deferredErase
  BY DEF IxCommit
<1>2. \A s \in Slots :
        /\ rows'[s].key = rows[s].key /\ rows'[s].inserted = Stamped(rows[s].inserted, t)
        /\ rows'[s].deleted = Stamped(rows[s].deleted, t) /\ rows'[s].head = Stamped(rows[s].head, t)
  <2> SUFFICES ASSUME NEW s \in Slots
               PROVE  /\ rows'[s].key = rows[s].key /\ rows'[s].inserted = Stamped(rows[s].inserted, t)
                      /\ rows'[s].deleted = Stamped(rows[s].deleted, t) /\ rows'[s].head = Stamped(rows[s].head, t)
    OBVIOUS
  <2>1. rows'[s] = [rows[s] EXCEPT !.inserted = Stamped(@, t), !.deleted = Stamped(@, t), !.head = Stamped(@, t)]
    BY DEF IxCommit, Slots
  <2>2. rows[s] \in [key : Keys \cup {"none"}, inserted : Stamp, deleted : Stamp, head : Stamp]
    BY DEF IndexType
  <2> HIDE DEF IndexInv
  <2> QED BY <2>1, <2>2
<1>3. rows' \in [Slots -> [key : Keys \cup {"none"}, inserted : Stamp, deleted : Stamp, head : Stamp]]
  <2>1. rows' = [s \in Slots |->
           [rows[s] EXCEPT !.inserted = Stamped(@, t), !.deleted = Stamped(@, t), !.head = Stamped(@, t)]]
    BY DEF IxCommit, Slots
  <2> SUFFICES ASSUME NEW s \in Slots
               PROVE  [rows[s] EXCEPT !.inserted = Stamped(@, t), !.deleted = Stamped(@, t), !.head = Stamped(@, t)]
                        \in [key : Keys \cup {"none"}, inserted : Stamp, deleted : Stamp, head : Stamp]
    BY <2>1
  <2>2. rows[s] \in [key : Keys \cup {"none"}, inserted : Stamp, deleted : Stamp, head : Stamp]
    BY DEF IndexType
  <2>3. Stamped(rows[s].inserted, t) \in Stamp /\ Stamped(rows[s].deleted, t) \in Stamp /\ Stamped(rows[s].head, t) \in Stamp
    BY StampTypes, StampedIs
  <2> HIDE DEF IndexInv
  <2> QED BY <2>2, <2>3
<1>4. /\ ixTxn' \in [IxTxns -> [status : Statuses, start : Nat, must : BOOLEAN, step : {"idle", "insert", "delete"}, slot : Nat]]
      /\ ixTxn'[t].status = "committing" /\ ixTxn'[t].start = ixTxn[t].start /\ ixTxn'[t].step = "idle"
      /\ \A u \in IxTxns : u # t => ixTxn'[u] = ixTxn[u]
  BY <1>1 DEF IndexType, Idle, Statuses
<1>5. /\ ixClock \in Nat /\ ixClock' \in Nat /\ 0 < ixClock /\ ixTxn[t].start <= ixClock /\ ixTxn[t].start < ixClock'
      /\ ixClock # 0 /\ ixClock <= ixClock' /\ ixClock < ixClock'
  <2>1. ixTxn[t].start < ixClock /\ ixTxn[t].start \in Nat /\ ixClock \in Nat
    BY StartTypes DEF TxnInv, TxnOf, IndexType
  <2> HIDE DEF IndexInv
  <2> QED BY <1>1, <2>1, SMTT(30)
<1>6. Later /\ Active(t)
  BY <1>1, <1>5 DEF Later, Active, Idle
<1>7. IxRunning' = IxRunning /\ \A u \in IxTxns : ixTxn'[u].start = ixTxn[u].start
  BY <1>1, <1>4 DEF IxRunning, Idle
<1>8. \A s \in Slots : /\ rows[s].inserted \in Stamp /\ rows[s].deleted \in Stamp /\ rows[s].head \in Stamp
                       /\ rows'[s].inserted.by = rows[s].inserted.by /\ rows'[s].deleted.by = rows[s].deleted.by
  <2> SUFFICES ASSUME NEW s \in Slots
               PROVE  /\ rows[s].inserted \in Stamp /\ rows[s].deleted \in Stamp /\ rows[s].head \in Stamp
                      /\ rows'[s].inserted.by = rows[s].inserted.by /\ rows'[s].deleted.by = rows[s].deleted.by
    OBVIOUS
  <2>1. rows[s].inserted \in Stamp /\ rows[s].deleted \in Stamp /\ rows[s].head \in Stamp
    BY StampTypes
  <2>2. Stamped(rows[s].inserted, t).by = rows[s].inserted.by /\ Stamped(rows[s].deleted, t).by = rows[s].deleted.by
    BY <2>1, StampedIs
  <2> QED BY <1>2, <2>1, <2>2
<1>9. \A s \in Slots :
        /\ rows'[s].inserted.time = 0 => rows[s].inserted.time = 0 /\ rows'[s].inserted = rows[s].inserted
        /\ rows'[s].deleted.time = 0 => rows[s].deleted.time = 0 /\ rows'[s].deleted = rows[s].deleted
        /\ rows[s].inserted.time # 0 => rows'[s].inserted = rows[s].inserted
        /\ rows[s].deleted.time # 0 => rows'[s].deleted = rows[s].deleted
        /\ rows[s].inserted = By(t) \/ rows'[s].inserted = rows[s].inserted
        /\ rows[s].deleted = By(t) \/ rows'[s].deleted = rows[s].deleted
        /\ \A u \in IxTxns : u # t => /\ rows'[s].inserted = By(u) <=> rows[s].inserted = By(u)
                                      /\ rows'[s].deleted = By(u) <=> rows[s].deleted = By(u)
        /\ rows'[s].deleted = Nothing <=> rows[s].deleted = Nothing
  <2> SUFFICES ASSUME NEW s \in Slots
               PROVE  /\ rows'[s].inserted.time = 0 => rows[s].inserted.time = 0 /\ rows'[s].inserted = rows[s].inserted
                      /\ rows'[s].deleted.time = 0 => rows[s].deleted.time = 0 /\ rows'[s].deleted = rows[s].deleted
                      /\ rows[s].inserted.time # 0 => rows'[s].inserted = rows[s].inserted
                      /\ rows[s].deleted.time # 0 => rows'[s].deleted = rows[s].deleted
                      /\ rows[s].inserted = By(t) \/ rows'[s].inserted = rows[s].inserted
                      /\ rows[s].deleted = By(t) \/ rows'[s].deleted = rows[s].deleted
                      /\ \A u \in IxTxns : u # t => /\ rows'[s].inserted = By(u) <=> rows[s].inserted = By(u)
                                                    /\ rows'[s].deleted = By(u) <=> rows[s].deleted = By(u)
                      /\ rows'[s].deleted = Nothing <=> rows[s].deleted = Nothing
    OBVIOUS
  <2>1. rows'[s].inserted = Stamped(rows[s].inserted, t) /\ rows'[s].deleted = Stamped(rows[s].deleted, t)
    BY <1>2
  <2>2. rows[s].inserted \in Stamp /\ rows[s].deleted \in Stamp
    BY <1>8
  <2>3. /\ Stamped(rows[s].inserted, t).time = 0 => rows[s].inserted.time = 0 /\ Stamped(rows[s].inserted, t) = rows[s].inserted
        /\ rows[s].inserted.time # 0 => Stamped(rows[s].inserted, t) = rows[s].inserted
        /\ \A u \in IxTxns : u # t => (Stamped(rows[s].inserted, t) = By(u) <=> rows[s].inserted = By(u))
        /\ rows[s].inserted = By(t) \/ Stamped(rows[s].inserted, t) = rows[s].inserted
    <3> DEFINE a == rows[s].inserted
    <3>1. a \in Stamp /\ IndexType /\ 0 < ixClock
      BY <1>5, <2>2
    <3> HIDE DEF a, IndexInv
    <3>2. /\ Stamped(a, t).time = 0 => a.time = 0 /\ Stamped(a, t) = a
          /\ a.time # 0 => Stamped(a, t) = a
          /\ \A u \in IxTxns : u # t => (Stamped(a, t) = By(u) <=> a = By(u))
          /\ a = By(t) \/ Stamped(a, t) = a
      BY <3>1, StampedTimes, StampedIs
    <3> QED BY <3>2 DEF a
  <2>4. /\ Stamped(rows[s].deleted, t).time = 0 => rows[s].deleted.time = 0 /\ Stamped(rows[s].deleted, t) = rows[s].deleted
        /\ rows[s].deleted.time # 0 => Stamped(rows[s].deleted, t) = rows[s].deleted
        /\ \A u \in IxTxns : u # t => (Stamped(rows[s].deleted, t) = By(u) <=> rows[s].deleted = By(u))
        /\ Stamped(rows[s].deleted, t) = Nothing <=> rows[s].deleted = Nothing
        /\ rows[s].deleted = By(t) \/ Stamped(rows[s].deleted, t) = rows[s].deleted
    <3> DEFINE d == rows[s].deleted
    <3>1. d \in Stamp /\ IndexType /\ 0 < ixClock
      BY <1>5, <2>2
    <3> HIDE DEF d, IndexInv
    <3>2. /\ Stamped(d, t).time = 0 => d.time = 0 /\ Stamped(d, t) = d
          /\ d.time # 0 => Stamped(d, t) = d
          /\ \A u \in IxTxns : u # t => (Stamped(d, t) = By(u) <=> d = By(u))
          /\ Stamped(d, t) = Nothing <=> d = Nothing
          /\ d = By(t) \/ Stamped(d, t) = d
      BY <3>1, StampedTimes, StampedIs
    <3> QED BY <3>2 DEF d
  <2> HIDE DEF IndexInv
  <2> QED BY <2>1, <2>3, <2>4
<1>10. IndexType'
  BY <1>1, <1>3, <1>4, <1>5 DEF IndexType
<1>11. RowInv'
  <2>1. ASSUME NEW x \in Stamp, Valid(x), x.by = t => x = By(t) PROVE ValidLater(Stamped(x, t))
    <3>1. CASE x = By(t)
      <4>1. Stamped(x, t).by = t /\ Stamped(x, t).time = ixClock
        BY <3>1, StampedIs, StampNames
      <4>2. ixTxn'[t].start <= ixClock /\ ixTxn'[t].status = "committing" /\ t # "nobody"
        BY <1>4, <1>5, StampNames
      <4> QED BY <1>5, <4>1, <4>2 DEF ValidLater
    <3>2. CASE x # By(t)
      <4>1. Stamped(x, t) = x /\ x.by # t
        BY <2>1, <3>2, StampedIs
      <4>2. x.time < ixClock' /\ x.time \in Nat
        <5>1. x.time \in Nat /\ x.time < ixClock
          BY <2>1 DEF Stamp, Valid
        <5> HIDE DEF IndexInv
        <5> QED BY <1>5, <5>1, SMTT(30)
      <4>3. x.by \in IxTxns => ixTxn'[x.by] = ixTxn[x.by]
        BY <1>4, <4>1
      <4> QED BY <2>1, <4>1, <4>2, <4>3 DEF Valid, ValidLater, Active, Ended
    <3> QED BY <3>1, <3>2
  <2> SUFFICES ASSUME NEW s \in Slots PROVE RowOf(s)' /\ HeadOf(s)'
    BY DEF RowInv
  <2> HIDE DEF IndexInv
  <2> QED BY <1>2, <1>5, <1>6, <2>1, RowStamped
<1>12. TxnInv'
  <2> SUFFICES ASSUME NEW u \in IxTxns PROVE TxnOf(u)'
    BY DEF TxnInv
  <2>1. CASE u # t
    <3>1. \A s \in Slots : /\ rows[s].inserted = By(u) => rows'[s].inserted = By(u)
                           /\ rows[s].deleted = By(u) => rows'[s].deleted = By(u)
                           /\ rows[s].inserted = By(u) /\ rows[s].deleted = Nothing => rows'[s].deleted = Nothing
      BY <1>9, <2>1
    <3> QED BY <1>1, <1>4, <1>6, <2>1, <3>1, TxnKept
  <2>2. CASE u = t
    BY <1>4, <1>5, <2>2 DEF TxnOf
  <2> QED BY <2>1, <2>2
<1>13. EntryInv'
  <2> SUFFICES ASSUME NEW j \in Keys, NEW v \in entries[j] PROVE EntryOf(j, v)'
    BY <1>1 DEF EntryInv
  <2>1. EntryOf(j, v) /\ v \in Slots
    BY EntrySlots DEF EntryInv
  <2>2. InQueue(v)' <=> InQueue(v)
    BY <1>1, QueueSame
  <2>3. rows'[v].key = j /\ rows'[v].inserted.by = rows[v].inserted.by /\ rows'[v].deleted.by = rows[v].deleted.by
    BY <1>2, <1>8, <2>1 DEF EntryOf
  <2>4. rows'[v].inserted.time = 0 => v \in undoInsert[rows[v].inserted.by]
    BY <1>9, <2>1 DEF EntryOf
  <2>5. rows'[v].deleted.time # 0 => v \in onCommit[rows[v].deleted.by] \/ InQueue(v)
    <3>1. CASE rows[v].deleted = By(t)
      BY <1>1, <2>1, <3>1, OwnEntries, StampNames
    <3>2. CASE rows'[v].deleted = rows[v].deleted
      BY <2>1, <3>2 DEF EntryOf
    <3> QED BY <1>9, <2>1, <3>1, <3>2
  <2> QED BY <1>1, <2>1, <2>2, <2>3, <2>4, <2>5 DEF EntryOf
<1>14. ThereInv'
  <2> SUFFICES ASSUME NEW v \in Slots PROVE ThereOf(v)'
    BY DEF ThereInv
  <2>1. ThereOf(v) /\ rows'[v].key = rows[v].key
    BY <1>2 DEF ThereInv
  <2>2. rows'[v].inserted.time # 0 /\ rows'[v].deleted.time = 0 => v \in entries[rows[v].key]
    <3>1. CASE rows[v].inserted = By(t)
      BY <1>1, <3>1, OwnEntries
    <3>2. CASE rows'[v].inserted = rows[v].inserted
      BY <1>9, <2>1, <3>2 DEF ThereOf
    <3> QED BY <1>9, <3>1, <3>2
  <2>3. rows'[v].deleted.time # 0 /\ v \notin entries[rows[v].key] => \A u \in IxRunning : rows'[v].deleted.time < ixTxn[u].start
    <3>1. CASE rows[v].deleted = By(t)
      BY <1>1, <3>1, OwnEntries
    <3>2. CASE rows'[v].deleted = rows[v].deleted
      BY <2>1, <3>2 DEF ThereOf
    <3> QED BY <1>9, <3>1, <3>2
  <2>4. \A u \in IxRunning : ixTxn'[u].start = ixTxn[u].start
    BY <1>7 DEF IxRunning
  <2> QED BY <1>1, <1>7, <2>1, <2>2, <2>3, <2>4 DEF ThereOf
<1>15. OwnInv'
  <2> SUFFICES ASSUME NEW u \in IxTxns, NEW v \in Slots PROVE OwnOf(u, v)'
    BY DEF OwnInv
  <2>1. CASE u # t
    <3>1. OwnOf(u, v) /\ ixTxn'[u] = ixTxn[u] /\ rows'[v].key = rows[v].key
      BY <1>2, <1>4, <2>1 DEF OwnInv
    <3>2. (rows'[v].inserted = By(u) <=> rows[v].inserted = By(u)) /\ (rows'[v].deleted = By(u) <=> rows[v].deleted = By(u))
      BY <1>9, <2>1
    <3> HIDE DEF IndexInv
    <3> QED BY <1>1, <3>1, <3>2 DEF OwnOf, By
  <2>2. CASE u = t
    BY <1>4, <2>2 DEF OwnOf
  <2> QED BY <2>1, <2>2
<1>16. UndoInv'
  <2> SUFFICES ASSUME NEW u \in IxTxns, NEW v \in undoInsert[u] PROVE rows'[v].inserted.by = u /\ v \in entries[rows'[v].key]
    BY <1>1 DEF UndoInv
  <2>1. v \in Slots /\ rows[v].inserted.by = u /\ v \in entries[rows[v].key]
    BY EntrySlots DEF UndoInv
  <2> QED BY <1>2, <1>8, <2>1
<1>17. CommitInv'
  <2> SUFFICES ASSUME NEW u \in IxTxns, NEW v \in onCommit[u]
               PROVE  rows'[v].deleted.by = u /\ ~InQueue(v)' /\ (rows'[v].deleted.time # 0 => v \in entries[rows'[v].key])
    BY <1>1 DEF CommitInv
  <2>1. v \in Slots /\ (InQueue(v)' <=> InQueue(v))
    BY <1>1, EntrySlots, QueueSame
  <2>2. rows[v].deleted.by = u /\ ~InQueue(v) /\ (rows[v].deleted.time # 0 => v \in entries[rows[v].key])
    BY DEF CommitInv
  <2>3. rows'[v].deleted.time # 0 => v \in entries[rows[v].key]
    <3>1. CASE rows[v].deleted = By(t)
      BY <1>1, <2>1, <3>1, OwnEntries
    <3>2. CASE rows'[v].deleted = rows[v].deleted
      BY <2>2, <3>2
    <3> QED BY <1>9, <2>1, <3>1, <3>2
  <2> QED BY <1>2, <1>8, <2>1, <2>2, <2>3
<1>18. QueueInv'
  <2>1. ASSUME NEW v \in Slots, InQueue(v) PROVE rows'[v].key = rows[v].key /\ rows'[v].deleted = rows[v].deleted
    <3>1. rows[v].deleted.time # 0
      BY <2>1 DEF InQueue, QueueInv
    <3> QED BY <1>2, <1>9, <3>1
  <2> HIDE DEF IndexInv
  <2> QED BY <1>1, <1>6, <2>1, QueueKept
<1>19. FollowInv'
  <2>1. ASSUME NEW k \in Keys, NEW v \in entries[k], NEW s \in entries[k], Follows(v, s) PROVE Follows(v, s)'
    <3>1. v \in Slots /\ s \in Slots /\ rows[s].inserted.by \in IxTxns
      BY EntryBegun
    <3>2. CASE rows[v].deleted = rows[s].inserted
      <4>1. rows'[v].deleted = rows'[s].inserted
        BY <1>2, <3>1, <3>2
      <4> QED BY <4>1 DEF Follows
    <3>3. CASE rows[v].deleted.time # 0 /\ rows[v].deleted.time < ixTxn[rows[s].inserted.by].start
      <4>1. rows'[v].deleted = rows[v].deleted /\ rows'[s].inserted.by = rows[s].inserted.by
        BY <1>8, <1>9, <3>1, <3>3
      <4>2. ixTxn'[rows[s].inserted.by].start = ixTxn[rows[s].inserted.by].start
        BY <1>7, <3>1
      <4> QED BY <3>3, <4>1, <4>2 DEF Follows
    <3> QED BY <2>1, <3>2, <3>3 DEF Follows
  <2> SUFFICES ASSUME NEW k \in Keys, NEW v \in entries[k], NEW s \in entries[k], v # s PROVE Follows(v, s)' \/ Follows(s, v)'
    BY <1>1 DEF FollowInv
  <2>2. Follows(v, s) \/ Follows(s, v)
    BY DEF FollowInv
  <2> HIDE DEF IndexInv
  <2> QED BY <2>1, <2>2
<1> QED BY <1>10, <1>11, <1>12, <1>13, <1>14, <1>15, <1>16, <1>17, <1>18, <1>19

LEMMA Appended ==
    ASSUME NEW D, NEW q \in Seq(D), NEW e \in D
    PROVE  /\ Append(q, e) \in Seq(D)
           /\ \A i \in 1 .. Len(Append(q, e)) : (i \in 1 .. Len(q) /\ Append(q, e)[i] = q[i]) \/ (i = Len(q) + 1 /\ Append(q, e)[i] = e)
           /\ \A i \in 1 .. Len(q) : i \in 1 .. Len(Append(q, e)) /\ Append(q, e)[i] = q[i]
           /\ Len(q) + 1 \in 1 .. Len(Append(q, e)) /\ Append(q, e)[Len(q) + 1] = e
  BY SMTT(30)

\* A step that changes no transaction.
LEMMA NobodyMoves ==
    ASSUME IndexInv, ixClock' = ixClock, ixTxn' = ixTxn
    PROVE  Progresses /\ Later /\ IxRunning' = IxRunning
<1>1. ixClock \in Nat /\ ixClock <= ixClock'
  BY SMTT(30) DEF IndexInv, IndexType
<1> QED BY <1>1 DEF Progresses, Later, Active, Ended, IxRunning

LEMMA IndexCommitAction ==
    ASSUME IndexInv, NEW t \in IxTxns, IxCommitAction(t)
    PROVE  IndexInv'
<1> USE DEF IndexInv
<1>1. PICK s \in onCommit[t] :
        /\ onCommit' = [onCommit EXCEPT ![t] = @ \ {s}]
        /\ deferredErase' = Append(deferredErase, [slot |-> s, time |-> ixClock])
  BY DEF IxCommitAction
<1>2. /\ ixTxn[t].status = "committing" /\ ixClock' = ixClock /\ ixTxn' = ixTxn /\ rows' = rows /\ entries' = entries
      /\ undoInsert' = undoInsert
  BY DEF IxCommitAction
<1> DEFINE q == deferredErase
           e == [slot |-> s, time |-> ixClock]
<1>3. /\ s \in Slots /\ rows[s].deleted.by = t /\ ~InQueue(s) /\ ixClock \in Nat
      /\ q \in Seq([slot : Slots, time : Nat]) /\ e \in [slot : Slots, time : Nat] /\ e.slot = s /\ e.time = ixClock
  <2>1. s \in Slots /\ ixClock \in Nat
    BY EntrySlots DEF IndexType
  <2> QED BY <2>1 DEF CommitInv, IndexType
<1>4. rows[s].deleted.time # 0 /\ rows[s].deleted.time < ixClock /\ s \in entries[rows[s].key]
  <2>1. Valid(rows[s].deleted) /\ ~Active(t)
    BY <1>2, <1>3 DEF RowInv, RowOf, Active
  <2>2. rows[s].deleted.time # 0 => s \in entries[rows[s].key]
    BY DEF CommitInv
  <2>3. rows[s].deleted.time # 0 /\ rows[s].deleted.time < ixClock
    BY <1>3, <2>1 DEF Valid
  <2> QED BY <2>2, <2>3
<1>5. /\ deferredErase' = Append(q, e) /\ Append(q, e) \in Seq([slot : Slots, time : Nat])
      /\ \A i \in 1 .. Len(Append(q, e)) : (i \in 1 .. Len(q) /\ Append(q, e)[i] = q[i]) \/ (i = Len(q) + 1 /\ Append(q, e)[i] = e)
      /\ \A i \in 1 .. Len(q) : i \in 1 .. Len(Append(q, e)) /\ Append(q, e)[i] = q[i]
      /\ Len(q) + 1 \in 1 .. Len(Append(q, e)) /\ Append(q, e)[Len(q) + 1] = e
  <2> DEFINE D == [slot : Slots, time : Nat]
  <2> HIDE DEF q, e, D
  <2>1. deferredErase' = Append(q, e)
    BY <1>1 DEF q, e
  <2>2. q \in Seq(D) /\ e \in D
    BY <1>3 DEF D
  <2>3. Append(q, e) \in Seq(D)
    BY <2>2, Appended
  <2>4. /\ \A i \in 1 .. Len(Append(q, e)) : (i \in 1 .. Len(q) /\ Append(q, e)[i] = q[i]) \/ (i = Len(q) + 1 /\ Append(q, e)[i] = e)
        /\ \A i \in 1 .. Len(q) : i \in 1 .. Len(Append(q, e)) /\ Append(q, e)[i] = q[i]
        /\ Len(q) + 1 \in 1 .. Len(Append(q, e)) /\ Append(q, e)[Len(q) + 1] = e
    <3> HIDE DEF IndexInv
    <3> QED BY <2>2, Appended
  <2> QED BY <2>1, <2>3, <2>4 DEF D
<1> DEFINE p == Append(q, e)
<1> HIDE DEF p, e
<1>6. ASSUME NEW v PROVE InQueue(v)' <=> InQueue(v) \/ v = s
  <2>1. InQueue(v)' <=> \E i \in 1 .. Len(p) : p[i].slot = v
    BY <1>5 DEF InQueue, p
  <2>2. (\E i \in 1 .. Len(p) : p[i].slot = v) <=> (\E i \in 1 .. Len(q) : q[i].slot = v) \/ v = s
    BY <1>3, <1>5 DEF p
  <2> QED BY <2>1, <2>2 DEF InQueue
<1>7. /\ onCommit' \in [IxTxns -> SUBSET Slots] /\ onCommit'[t] = onCommit[t] \ {s}
      /\ \A u \in IxTxns : u # t => onCommit'[u] = onCommit[u]
  BY <1>1 DEF IndexType
<1>8. Progresses /\ Later /\ IxRunning' = IxRunning
  BY <1>2, NobodyMoves
<1>9. IndexType'
  BY <1>2, <1>5, <1>7 DEF IndexType
<1>10. RowInv' /\ ThereInv'
  BY <1>2, <1>8, RowsKept, ThereKept
<1>11. FollowInv'
  BY <1>2, <1>8, FollowKept
<1>12. TxnInv'
  <2> SUFFICES ASSUME NEW u \in IxTxns PROVE TxnOf(u)'
    BY DEF TxnInv
  <2>1. CASE u # t
    BY <1>2, <1>7, <1>8, <2>1, TxnKept
  <2>2. CASE u = t
    <3>1. TxnOf(t)
      BY DEF TxnInv
    <3> QED BY <1>2, <2>2, <3>1 DEF TxnOf
  <2> QED BY <2>1, <2>2
<1>13. EntryInv'
  <2> SUFFICES ASSUME NEW j \in Keys, NEW v \in entries[j] PROVE EntryOf(j, v)'
    BY <1>2 DEF EntryInv
  <2>1. EntryOf(j, v) /\ v \in Slots
    BY EntrySlots DEF EntryInv
  <2>2. rows[v].deleted.time # 0 => v \in onCommit'[rows[v].deleted.by] \/ InQueue(v)'
    <3>1. CASE v = s \/ InQueue(v)
      BY <1>6, <3>1
    <3>2. CASE v # s /\ v \in onCommit[rows[v].deleted.by] /\ rows[v].deleted.time # 0
      <4>1. rows[v].deleted.by \in IxTxns
        <5>1. Valid(rows[v].deleted) /\ rows[v].deleted.by # "aborted" /\ rows[v].deleted.by \in IxTxns \cup {"nobody", "aborted"}
          BY <2>1, StampTypes DEF RowInv, RowOf
        <5> QED BY <3>2, <5>1 DEF Valid
      <4> QED BY <1>7, <3>2, <4>1
    <3> QED BY <2>1, <3>1, <3>2 DEF EntryOf
  <2> QED BY <1>2, <2>1, <2>2 DEF EntryOf
<1>14. OwnInv'
  <2> SUFFICES ASSUME NEW u \in IxTxns, NEW v \in Slots PROVE OwnOf(u, v)'
    BY DEF OwnInv
  <2>1. CASE u # t
    BY <1>2, <1>7, <2>1, OwnKept
  <2>2. CASE u = t
    BY <1>2, <2>2 DEF OwnOf
  <2> QED BY <2>1, <2>2
<1>15. UndoInv'
  <2> SUFFICES ASSUME NEW u \in IxTxns, NEW v \in undoInsert[u] PROVE rows[v].inserted.by = u /\ v \in entries[rows[v].key]
    BY <1>2 DEF UndoInv
  <2> QED BY DEF UndoInv
<1>16. CommitInv'
  <2> SUFFICES ASSUME NEW u \in IxTxns, NEW v \in onCommit'[u]
               PROVE  rows[v].deleted.by = u /\ ~InQueue(v)' /\ (rows[v].deleted.time # 0 => v \in entries[rows[v].key])
    BY <1>2 DEF CommitInv
  <2>1. v \in onCommit[u] /\ (u = t => v # s)
    BY <1>7
  <2>2. rows[v].deleted.by = u /\ ~InQueue(v) /\ (rows[v].deleted.time # 0 => v \in entries[rows[v].key])
    BY <2>1 DEF CommitInv
  <2>3. v # s
    BY <1>3, <2>1, <2>2
  <2> QED BY <1>6, <2>2, <2>3
<1>17. QueueInv'
  <2> SUFFICES ASSUME NEW i \in 1 .. Len(p), NEW v, v = p[i].slot
               PROVE  /\ v \in entries[rows[v].key] /\ rows[v].deleted.time # 0
                      /\ rows[v].deleted.time < p[i].time /\ p[i].time <= ixClock
                      /\ \A j \in 1 .. Len(p) : p[j].slot = v => i = j
    BY <1>2, <1>5 DEF QueueInv, p
  <2>1. CASE i \in 1 .. Len(q) /\ p[i] = q[i]
    <3>1. v \in entries[rows[v].key] /\ rows[v].deleted.time # 0 /\ rows[v].deleted.time < p[i].time /\ p[i].time <= ixClock
      BY <2>1 DEF QueueInv
    <3>2. \A j \in 1 .. Len(q) : q[j].slot = v => i = j
      BY <2>1 DEF QueueInv
    <3>3. v # s
      BY <1>3, <2>1 DEF InQueue
    <3>4. ASSUME NEW j \in 1 .. Len(p), p[j].slot = v PROVE i = j
      <4>1. j \in 1 .. Len(q) /\ p[j] = q[j]
        BY <1>3, <1>5, <3>3, <3>4 DEF p
      <4> QED BY <3>2, <3>4, <4>1
    <3> QED BY <3>1, <3>4
  <2>2. CASE i = Len(q) + 1 /\ p[i] = e
    <3>1. v = s /\ p[i].time = ixClock
      BY <1>3, <2>2
    <3>2. ixClock <= ixClock
      <4> HIDE DEF IndexInv
      <4> QED BY <1>3, SMTT(30)
    <3>3. ASSUME NEW j \in 1 .. Len(p), p[j].slot = v PROVE i = j
      <4>1. ~(j \in 1 .. Len(q) /\ p[j] = q[j])
        BY <1>3, <3>1, <3>3 DEF InQueue
      <4> QED BY <1>5, <2>2, <4>1 DEF p
    <3> QED BY <1>4, <3>1, <3>2, <3>3
  <2> QED BY <1>5, <2>1, <2>2 DEF p
<1> QED BY <1>9, <1>10, <1>11, <1>12, <1>13, <1>14, <1>15, <1>16, <1>17

LEMMA IndexCommitted ==
    ASSUME IndexInv, NEW t \in IxTxns, IxCommitted(t)
    PROVE  IndexInv'
<1> USE DEF IndexInv
<1>1. /\ ixTxn[t].status = "committing" /\ onCommit[t] = {}
      /\ ixTxn' = [ixTxn EXCEPT ![t].status = "done"] /\ undoInsert' = [undoInsert EXCEPT ![t] = {}]
      /\ ixClock' = ixClock /\ rows' = rows /\ entries' = entries /\ onCommit' = onCommit /\ deferredErase' = deferredErase
  BY DEF IxCommitted
<1>2. /\ ixTxn' \in [IxTxns -> [status : Statuses, start : Nat, must : BOOLEAN, step : {"idle", "insert", "delete"}, slot : Nat]]
      /\ ixTxn'[t].status = "done" /\ ixTxn'[t].start = ixTxn[t].start /\ ixTxn'[t].step = ixTxn[t].step
      /\ \A u \in IxTxns : u # t => ixTxn'[u] = ixTxn[u]
  BY <1>1 DEF IndexType, Statuses
<1>3. /\ undoInsert' \in [IxTxns -> SUBSET Slots] /\ undoInsert'[t] = {}
      /\ \A u \in IxTxns : u # t => undoInsert'[u] = undoInsert[u]
  BY <1>1 DEF IndexType
<1>4. ixClock \in Nat /\ ixClock <= ixClock'
  BY <1>1, SMTT(30) DEF IndexType
<1>5. Ended(t) /\ ~Active(t)
  BY <1>1 DEF Ended, Active
<1>6. Progresses /\ Later
  <2>1. \A u \in IxTxns : ixTxn'[u].start = ixTxn[u].start
    BY <1>2
  <2>2. Later
    BY <1>1, <1>4 DEF Later
  <2>3. ASSUME NEW u \in IxTxns
        PROVE  /\ Active(u) => ixTxn'[u].status \in {"running", "aborting"}
               /\ Ended(u) => ixTxn'[u].status \in {"committing", "done"}
    <3>1. CASE u = t
      BY <1>2, <1>5, <3>1
    <3>2. CASE u # t
      BY <1>2, <3>2 DEF Active, Ended
    <3> QED BY <3>1, <3>2
  <2> QED BY <2>1, <2>2, <2>3 DEF Progresses
<1>7. \A u \in IxRunning' : u \in IxRunning /\ ixTxn'[u].start = ixTxn[u].start
  BY <1>2 DEF IxRunning
<1>8. IndexType'
  BY <1>1, <1>2, <1>3 DEF IndexType
<1>9. RowInv' /\ ThereInv'
  BY <1>1, <1>6, <1>7, RowsKept, ThereKept
<1>10. QueueInv' /\ FollowInv'
  BY <1>1, <1>6, QueueKept, FollowKept
<1>11. TxnInv'
  <2> SUFFICES ASSUME NEW u \in IxTxns PROVE TxnOf(u)'
    BY DEF TxnInv
  <2>1. CASE u # t
    BY <1>1, <1>2, <1>3, <1>6, <2>1, TxnKept
  <2>2. CASE u = t
    <3>1. TxnOf(t)
      BY DEF TxnInv
    <3>2. ixTxn[t].step = "idle" /\ ixTxn[t].start < ixClock
      BY <1>1, <3>1 DEF TxnOf
    <3> QED BY <1>1, <1>2, <1>3, <2>2, <3>2 DEF TxnOf
  <2> QED BY <2>1, <2>2
<1>12. EntryInv'
  <2> SUFFICES ASSUME NEW j \in Keys, NEW v \in entries[j] PROVE EntryOf(j, v)'
    BY <1>1 DEF EntryInv
  <2>1. EntryOf(j, v) /\ v \in Slots /\ (InQueue(v)' <=> InQueue(v))
    BY <1>1, EntrySlots, QueueSame DEF EntryInv
  <2>2. rows[v].inserted.time = 0 => v \in undoInsert'[rows[v].inserted.by]
    <3>1. rows[v].inserted.time = 0 => rows[v].inserted.by # t
      BY <1>5, <2>1 DEF RowInv, RowOf, Valid
    <3>2. rows[v].inserted.by \in IxTxns
      BY <2>1 DEF EntryOf
    <3> QED BY <1>3, <2>1, <3>1, <3>2 DEF EntryOf
  <2> QED BY <1>1, <2>1, <2>2 DEF EntryOf
<1>13. OwnInv'
  <2> SUFFICES ASSUME NEW u \in IxTxns, NEW v \in Slots PROVE OwnOf(u, v)'
    BY DEF OwnInv
  <2>1. CASE u # t
    BY <1>1, <1>2, <2>1, OwnKept
  <2>2. CASE u = t
    BY <1>2, <2>2 DEF OwnOf
  <2> QED BY <2>1, <2>2
<1>14. UndoInv'
  <2> SUFFICES ASSUME NEW u \in IxTxns, NEW v \in undoInsert'[u] PROVE rows[v].inserted.by = u /\ v \in entries[rows[v].key]
    BY <1>1 DEF UndoInv
  <2>1. v \in undoInsert[u]
    BY <1>3
  <2> QED BY <2>1 DEF UndoInv
<1>15. CommitInv'
  <2> SUFFICES ASSUME NEW u \in IxTxns, NEW v \in onCommit[u]
               PROVE  rows[v].deleted.by = u /\ ~InQueue(v)' /\ (rows[v].deleted.time # 0 => v \in entries[rows[v].key])
    BY <1>1 DEF CommitInv
  <2>1. InQueue(v)' <=> InQueue(v)
    BY <1>1, QueueSame
  <2> QED BY <2>1 DEF CommitInv
<1> QED BY <1>8, <1>9, <1>10, <1>11, <1>12, <1>13, <1>14, <1>15

\* EraseEntry removes the slot and nothing else, when the slot is there.
LEMMA ErasesOne ==
    ASSUME IndexType, NEW k \in Keys, NEW s \in entries[k]
    PROVE  EraseEntry(k, s) = [entries EXCEPT ![k] = @ \ {s}]
<1>1. entries[k] \in SUBSET Slots
  BY DEF IndexType
<1>2. IsFiniteSet(Slots)
  <2>1. NumRows \in Int /\ 1 \in Int
    BY IxAssumption, SMTT(30)
  <2> QED BY <2>1, FS_Interval DEF Slots
<1>3. IsFiniteSet(entries[k])
  BY <1>1, <1>2, FS_Subset
<1>4. Cardinality(entries[k]) = 1 => entries[k] \ {s} = {}
  <2>1. ASSUME Cardinality(entries[k]) = 1 PROVE entries[k] \ {s} = {}
    <3>1. PICK x : entries[k] = {x}
      BY <1>3, <2>1, FS_Singleton
    <3> QED BY <3>1
  <2> QED BY <2>1
<1> QED BY <1>4 DEF EraseEntry

LEMMA Erased ==
    ASSUME IndexInv, NEW k \in Keys, NEW s \in entries[k], entries' = EraseEntry(k, s)
    PROVE  /\ entries' \in [Keys -> SUBSET Slots]
           /\ \A j \in Keys : \A v \in entries'[j] : v \in entries[j] /\ v # s
           /\ \A j \in Keys : \A v \in entries[j] : v # s => v \in entries'[j]
<1> USE DEF IndexInv
<1>1. entries' = [entries EXCEPT ![k] = @ \ {s}]
  BY ErasesOne
<1>2. entries \in [Keys -> SUBSET Slots] /\ rows[s].key = k
  BY EntryBegun DEF IndexType
<1>3. \A j \in Keys : s \in entries[j] => j = k
  BY <1>2 DEF EntryInv, EntryOf
<1> HIDE DEF IndexInv
<1>4. entries' \in [Keys -> SUBSET Slots] /\ entries'[k] = entries[k] \ {s} /\ \A j \in Keys : j # k => entries'[j] = entries[j]
  BY <1>1, <1>2
<1> QED BY <1>3, <1>4

LEMMA IndexAbortAction ==
    ASSUME IndexInv, NEW t \in IxTxns, IxAbortAction(t)
    PROVE  IndexInv'
<1> USE DEF IndexInv
<1>1. PICK s \in undoInsert[t] : undoInsert' = [undoInsert EXCEPT ![t] = @ \ {s}] /\ entries' = EraseEntry(rows[s].key, s)
  BY DEF IxAbortAction
<1>2. /\ ixTxn[t].status = "aborting" /\ ixClock' = ixClock /\ ixTxn' = ixTxn /\ rows' = rows /\ onCommit' = onCommit
      /\ deferredErase' = deferredErase
  BY DEF IxAbortAction
<1>3. s \in Slots /\ rows[s].inserted.by = t /\ s \in entries[rows[s].key]
  BY EntrySlots DEF UndoInv
<1>4. rows[s].inserted = By(t) /\ rows[s].inserted.time = 0 /\ rows[s].deleted.time = 0 /\ rows[s].key \in Keys
  <2>1. rows[s].inserted = By(t) /\ rows[s].inserted.time = 0
    BY <1>2, <1>3, StampStates DEF Active
  <2>2. rows[s].deleted.time = 0
    BY <1>3, <2>1, StampNames DEF RowInv, RowOf
  <2> QED BY <1>3, <2>1, <2>2, KeyOf
<1>5. /\ entries' \in [Keys -> SUBSET Slots]
      /\ \A j \in Keys : \A v \in entries'[j] : v \in entries[j] /\ v # s
      /\ \A j \in Keys : \A v \in entries[j] : v # s => v \in entries'[j]
  BY <1>1, <1>3, <1>4, Erased
<1>6. /\ undoInsert' \in [IxTxns -> SUBSET Slots] /\ undoInsert'[t] = undoInsert[t] \ {s}
      /\ \A u \in IxTxns : u # t => undoInsert'[u] = undoInsert[u]
  BY <1>1 DEF IndexType
<1>7. Progresses /\ Later /\ IxRunning' = IxRunning
  BY <1>2, NobodyMoves
<1>8. \A v : InQueue(v) => v # s
  BY <1>4 DEF InQueue, QueueInv
<1>9. IndexType'
  BY <1>2, <1>5, <1>6 DEF IndexType
<1>10. RowInv'
  BY <1>2, <1>7, RowsKept
<1>11. ThereInv'
  BY <1>2, <1>4, <1>5, <1>7, ThereKept
<1>12. QueueInv'
  BY <1>2, <1>5, <1>7, <1>8, QueueKept
<1>13. FollowInv'
  BY <1>2, <1>5, <1>7, FollowKept
<1>14. TxnInv'
  <2> SUFFICES ASSUME NEW u \in IxTxns PROVE TxnOf(u)'
    BY DEF TxnInv
  <2>1. CASE u # t
    BY <1>2, <1>6, <1>7, <2>1, TxnKept
  <2>2. CASE u = t
    <3>1. TxnOf(t)
      BY DEF TxnInv
    <3> QED BY <1>2, <2>2, <3>1 DEF TxnOf
  <2> QED BY <2>1, <2>2
<1>15. EntryInv'
  <2> SUFFICES ASSUME NEW j \in Keys, NEW v \in entries'[j] PROVE EntryOf(j, v)'
    BY DEF EntryInv
  <2>1. v \in entries[j] /\ v # s
    BY <1>5
  <2>2. EntryOf(j, v) /\ (InQueue(v)' <=> InQueue(v))
    BY <1>2, <2>1, QueueSame DEF EntryInv
  <2>3. rows[v].inserted.time = 0 => v \in undoInsert'[rows[v].inserted.by]
    BY <1>6, <2>1, <2>2 DEF EntryOf
  <2> QED BY <1>2, <2>2, <2>3 DEF EntryOf
<1>16. OwnInv'
  <2> SUFFICES ASSUME NEW u \in IxTxns, NEW v \in Slots PROVE OwnOf(u, v)'
    BY DEF OwnInv
  <2>1. CASE u # t
    <3>1. rows[v].inserted = By(u) => v # s /\ rows[v].key \in Keys
      <4>1. rows[v].inserted = By(u) => rows[v].inserted.by = u
        BY StampNames
      <4> QED BY <1>4, <2>1, <4>1, StampsDiffer, KeyOf
    <3>2. rows[v].inserted = By(u) /\ v \in entries[rows[v].key] => v \in entries'[rows[v].key]
      BY <1>5, <3>1
    <3> QED BY <1>2, <2>1, <3>2, OwnKept
  <2>2. CASE u = t
    BY <1>2, <2>2 DEF OwnOf
  <2> QED BY <2>1, <2>2
<1>17. UndoInv'
  <2> SUFFICES ASSUME NEW u \in IxTxns, NEW v \in undoInsert'[u] PROVE rows[v].inserted.by = u /\ v \in entries'[rows[v].key]
    BY <1>2 DEF UndoInv
  <2>1. v \in undoInsert[u] /\ (u = t => v # s)
    BY <1>6
  <2>2. v \in Slots /\ rows[v].inserted.by = u /\ v \in entries[rows[v].key]
    BY <2>1, EntrySlots DEF UndoInv
  <2>3. v # s /\ rows[v].key \in Keys
    BY <1>3, <2>1, <2>2, KeyOf
  <2> QED BY <1>5, <2>2, <2>3
<1>18. CommitInv'
  <2> SUFFICES ASSUME NEW u \in IxTxns, NEW v \in onCommit[u]
               PROVE  rows[v].deleted.by = u /\ ~InQueue(v)' /\ (rows[v].deleted.time # 0 => v \in entries'[rows[v].key])
    BY <1>2 DEF CommitInv
  <2>1. v \in Slots /\ (InQueue(v)' <=> InQueue(v))
    BY <1>2, EntrySlots, QueueSame
  <2>2. rows[v].deleted.by = u /\ ~InQueue(v) /\ (rows[v].deleted.time # 0 => v \in entries[rows[v].key])
    BY DEF CommitInv
  <2>3. rows[v].deleted.time # 0 => v # s /\ rows[v].key \in Keys
    BY <1>4, <2>1, KeyOf
  <2> QED BY <1>5, <2>1, <2>2, <2>3
<1> QED BY <1>9, <1>10, <1>11, <1>12, <1>13, <1>14, <1>15, <1>16, <1>17, <1>18

LEMMA Shortened ==
    ASSUME NEW D, NEW q \in Seq(D), q # <<>>
    PROVE  /\ Tail(q) \in Seq(D) /\ Head(q) = q[1] /\ 1 \in 1 .. Len(q)
           /\ \A i \in 1 .. Len(Tail(q)) : i + 1 \in 1 .. Len(q) /\ i + 1 # 1 /\ Tail(q)[i] = q[i + 1]
           /\ \A i \in 1 .. Len(q) : i = 1 \/ (i - 1 \in 1 .. Len(Tail(q)) /\ Tail(q)[i - 1] = q[i])
           /\ \A i, j \in 1 .. Len(Tail(q)) : i + 1 = j + 1 => i = j
  BY SMTT(30)

\* The entry that a deferred action erases is of a slot that nobody can see, and nobody is
\* going to take back its insertion.
LEMMA NotTakenBack ==
    ASSUME IndexInv, NEW s \in Slots, NEW d \in Nat, rows[s].deleted.time # 0, rows[s].deleted.time < d,
           \A t \in IxRunning : ixTxn[t].start >= d, NEW u \in IxTxns, s \in undoInsert[u]
    PROVE  FALSE
<1> USE DEF IndexInv
<1>1. rows[s].inserted.by = u /\ RowOf(s) /\ Valid(rows[s].inserted)
  BY DEF UndoInv, RowInv, RowOf
<1>2. /\ rows[s].inserted.time \in Nat /\ rows[s].deleted.time \in Nat /\ rows[s].inserted \in Stamp
      /\ ixTxn[u].start \in Nat /\ ixTxn[u].status \in Statuses
  BY StampTypes, StartTypes
<1>3. u \in IxRunning
  <2>1. ixTxn[u].status # "new" /\ ixTxn[u].status # "done"
    BY DEF TxnInv, TxnOf
  <2> QED BY <1>2, <2>1 DEF IxRunning, Statuses
<1>4. rows[s].inserted.time # 0
  BY <1>1, StampNames DEF RowOf
<1>5. ixTxn[u].start <= rows[s].inserted.time /\ rows[s].inserted.time <= rows[s].deleted.time /\ ixTxn[u].start >= d
  BY <1>1, <1>3, <1>4 DEF Valid, RowOf
<1> HIDE DEF IndexInv
<1> QED BY <1>2, <1>5, SMTT(30)

LEMMA IndexErase ==
    ASSUME IndexInv, RunErase
    PROVE  IndexInv'
<1> USE DEF IndexInv
<1> DEFINE q == deferredErase
           p == Tail(q)
           d == Head(q).time
           s == Head(q).slot
<1>1. /\ q # <<>> /\ (\A u \in IxRunning : ixTxn[u].start >= d) /\ entries' = EraseEntry(rows[s].key, s)
      /\ deferredErase' = p /\ ixClock' = ixClock /\ ixTxn' = ixTxn /\ rows' = rows /\ undoInsert' = undoInsert
      /\ onCommit' = onCommit
  BY DEF RunErase
<1>2. /\ p \in Seq([slot : Slots, time : Nat]) /\ Head(q) = q[1] /\ 1 \in 1 .. Len(q)
      /\ \A i \in 1 .. Len(p) : i + 1 \in 1 .. Len(q) /\ i + 1 # 1 /\ p[i] = q[i + 1]
      /\ \A i \in 1 .. Len(q) : i = 1 \/ (i - 1 \in 1 .. Len(p) /\ p[i - 1] = q[i])
      /\ \A i, j \in 1 .. Len(p) : i + 1 = j + 1 => i = j
  <2> DEFINE D == [slot : Slots, time : Nat]
  <2>1. q \in Seq(D) /\ q # <<>>
    BY <1>1 DEF IndexType
  <2> HIDE DEF q, D, IndexInv
  <2>2. /\ p \in Seq(D) /\ Head(q) = q[1] /\ 1 \in 1 .. Len(q)
        /\ \A i \in 1 .. Len(p) : i + 1 \in 1 .. Len(q) /\ i + 1 # 1 /\ p[i] = q[i + 1]
        /\ \A i \in 1 .. Len(q) : i = 1 \/ (i - 1 \in 1 .. Len(p) /\ p[i - 1] = q[i])
        /\ \A i, j \in 1 .. Len(p) : i + 1 = j + 1 => i = j
    BY <2>1, Shortened
  <2> QED BY <2>2 DEF D
<1>3. /\ s \in Slots /\ d \in Nat /\ s \in entries[rows[s].key] /\ rows[s].deleted.time # 0 /\ rows[s].deleted.time < d
      /\ \A j \in 1 .. Len(q) : q[j].slot = s => 1 = j
  BY <1>2, EntrySlots DEF QueueInv
<1> HIDE DEF p, s, d
<1>4. rows[s].key \in Keys
  BY <1>3, KeyOf
<1>5. /\ entries' \in [Keys -> SUBSET Slots]
      /\ \A j \in Keys : \A v \in entries'[j] : v \in entries[j] /\ v # s
      /\ \A j \in Keys : \A v \in entries[j] : v # s => v \in entries'[j]
  BY <1>1, <1>3, <1>4, Erased
<1>6. ASSUME NEW v PROVE InQueue(v)' <=> InQueue(v) /\ v # s
  <2>1. InQueue(v)' <=> \E i \in 1 .. Len(p) : p[i].slot = v
    BY <1>1 DEF InQueue
  <2>2. ASSUME NEW i \in 1 .. Len(p), p[i].slot = v PROVE (\E j \in 1 .. Len(q) : q[j].slot = v) /\ v # s
    <3>1. i + 1 \in 1 .. Len(q) /\ i + 1 # 1 /\ q[i + 1].slot = v
      BY <1>2, <2>2
    <3> DEFINE n == i + 1
    <3> HIDE DEF n, IndexInv
    <3>2. n \in 1 .. Len(q) /\ n # 1 /\ q[n].slot = v
      BY <3>1 DEF n
    <3> QED BY <1>3, <3>2
  <2>3. ASSUME NEW i \in 1 .. Len(q), q[i].slot = v, v # s PROVE \E j \in 1 .. Len(p) : p[j].slot = v
    <3>1. i # 1
      BY <1>2, <2>3 DEF s
    <3> QED BY <1>2, <2>3, <3>1
  <2> QED BY <2>1, <2>2, <2>3 DEF InQueue
<1>7. Progresses /\ Later /\ IxRunning' = IxRunning
  BY <1>1, NobodyMoves
<1>8. IndexType'
  BY <1>1, <1>2, <1>5 DEF IndexType
<1>9. RowInv'
  BY <1>1, <1>7, RowsKept
<1>10. FollowInv'
  BY <1>1, <1>5, <1>7, FollowKept
<1>11. TxnInv'
  <2> SUFFICES ASSUME NEW u \in IxTxns PROVE TxnOf(u)'
    BY DEF TxnInv
  <2> QED BY <1>1, <1>7, TxnKept
<1>12. EntryInv'
  <2> SUFFICES ASSUME NEW j \in Keys, NEW v \in entries'[j] PROVE EntryOf(j, v)'
    BY DEF EntryInv
  <2>1. v \in entries[j] /\ v # s
    BY <1>5
  <2>2. EntryOf(j, v) /\ (InQueue(v)' <=> InQueue(v))
    BY <1>6, <2>1 DEF EntryInv
  <2> QED BY <1>1, <2>2 DEF EntryOf
<1>13. ThereInv'
  <2> SUFFICES ASSUME NEW v \in Slots PROVE ThereOf(v)'
    BY DEF ThereInv
  <2>1. ThereOf(v)
    BY DEF ThereInv
  <2>2. rows[v].inserted.time # 0 /\ rows[v].deleted.time = 0 => v \in entries'[rows[v].key]
    <3>1. ASSUME rows[v].inserted.time # 0, rows[v].deleted.time = 0 PROVE v \in entries'[rows[v].key]
      <4>1. v # s /\ v \in entries[rows[v].key]
        BY <1>3, <2>1, <3>1 DEF ThereOf
      <4>2. rows[v].key \in Keys
        BY <3>1, KeyOf
      <4> QED BY <1>5, <4>1, <4>2
    <3> QED BY <3>1
  <2>3. ASSUME rows[v].deleted.time # 0, v \notin entries'[rows[v].key], NEW u \in IxRunning
        PROVE  rows[v].deleted.time < ixTxn[u].start
    <3>1. CASE v = s
      <4>1. ixTxn[u].start \in Nat /\ rows[s].deleted.time \in Nat /\ ixTxn[u].start >= d
        BY <1>1, <1>3, StartTypes, StampTypes DEF IxRunning
      <4> HIDE DEF IndexInv
      <4>2. rows[s].deleted.time < ixTxn[u].start
        BY <1>3, <4>1, SMTT(30)
      <4> QED BY <3>1, <4>2
    <3>2. CASE v # s
      <4>1. v \notin entries[rows[v].key]
        BY <1>5, <2>3, <3>2, KeyOf
      <4> QED BY <2>1, <2>3, <4>1 DEF ThereOf
    <3> QED BY <3>1, <3>2
  <2> QED BY <1>1, <1>7, <2>2, <2>3 DEF ThereOf
<1>14. OwnInv'
  <2> SUFFICES ASSUME NEW u \in IxTxns, NEW v \in Slots PROVE OwnOf(u, v)'
    BY DEF OwnInv
  <2>1. rows[v].inserted = By(u) => v # s /\ rows[v].key \in Keys
    <3>1. rows[v].inserted = By(u) => rows[v].inserted.by = u /\ rows[v].inserted.time = 0
      BY StampNames
    <3>2. rows[s].inserted.time # 0
      BY <1>3, StampNames DEF RowInv, RowOf
    <3> QED BY <3>1, <3>2, KeyOf
  <2>2. rows[v].inserted = By(u) /\ v \in entries[rows[v].key] => v \in entries'[rows[v].key]
    BY <1>5, <2>1
  <2> QED BY <1>1, <2>2, OwnKept
<1>15. UndoInv'
  <2> SUFFICES ASSUME NEW u \in IxTxns, NEW v \in undoInsert[u] PROVE rows[v].inserted.by = u /\ v \in entries'[rows[v].key]
    BY <1>1 DEF UndoInv
  <2>1. v \in Slots /\ rows[v].inserted.by = u /\ v \in entries[rows[v].key]
    BY EntrySlots DEF UndoInv
  <2>2. v # s /\ rows[v].key \in Keys
    BY <1>1, <1>3, <2>1, NotTakenBack, KeyOf
  <2> QED BY <1>5, <2>1, <2>2
<1>16. CommitInv'
  <2> SUFFICES ASSUME NEW u \in IxTxns, NEW v \in onCommit[u]
               PROVE  rows[v].deleted.by = u /\ ~InQueue(v)' /\ (rows[v].deleted.time # 0 => v \in entries'[rows[v].key])
    BY <1>1 DEF CommitInv
  <2>1. v \in Slots /\ rows[v].deleted.by = u /\ ~InQueue(v) /\ (rows[v].deleted.time # 0 => v \in entries[rows[v].key])
    BY EntrySlots DEF CommitInv
  <2>2. v # s /\ rows[v].key \in Keys
    <3>1. InQueue(s)
      BY <1>2 DEF InQueue, s
    <3> QED BY <2>1, <3>1, KeyOf
  <2> QED BY <1>5, <1>6, <2>1, <2>2
<1>17. QueueInv'
  <2> SUFFICES ASSUME NEW i \in 1 .. Len(p), NEW v, v = p[i].slot
               PROVE  /\ v \in entries'[rows[v].key] /\ rows[v].deleted.time # 0
                      /\ rows[v].deleted.time < p[i].time /\ p[i].time <= ixClock
                      /\ \A j \in 1 .. Len(p) : p[j].slot = v => i = j
    BY <1>1 DEF QueueInv
  <2>1. i + 1 \in 1 .. Len(q) /\ i + 1 # 1 /\ p[i] = q[i + 1]
    BY <1>2
  <2>2. /\ v \in entries[rows[v].key] /\ rows[v].deleted.time # 0 /\ rows[v].deleted.time < p[i].time /\ p[i].time <= ixClock
        /\ \A j \in 1 .. Len(q) : q[j].slot = v => i + 1 = j
    BY <2>1 DEF QueueInv
  <2>3. v # s
    BY <1>3, <2>1
  <2>4. rows[v].key \in Keys
    <3>1. v \in Slots
      BY <2>1, EntrySlots
    <3> QED BY <2>2, <3>1, KeyOf
  <2>5. ASSUME NEW j \in 1 .. Len(p), p[j].slot = v PROVE i = j
    <3>1. j + 1 \in 1 .. Len(q) /\ q[j + 1].slot = v
      BY <1>2, <2>5
    <3>2. i + 1 = j + 1
      BY <2>2, <3>1
    <3> QED BY <1>2, <3>2
  <2> QED BY <1>5, <2>2, <2>3, <2>4, <2>5
<1> QED BY <1>8, <1>9, <1>10, <1>11, <1>12, <1>13, <1>14, <1>15, <1>16, <1>17

LEMMA IndexRollback ==
    ASSUME IndexInv, NEW t \in IxTxns, IxRollback(t)
    PROVE  IndexInv'
<1> USE DEF IndexInv
<1> DEFINE ab == By("aborted")
           at == [by |-> "aborted", time |-> ixClock]
<1>1. /\ ixTxn[t].status = "aborting" /\ undoInsert[t] = {} /\ ixClock' = ixClock + 1
      /\ ixTxn' = [ixTxn EXCEPT ![t].status = "done"] /\ onCommit' = [onCommit EXCEPT ![t] = {}]
      /\ entries' = entries /\ undoInsert' = undoInsert /\ deferredErase' = deferredErase
      /\ rows' = [s \in Slots |->
           [rows[s] EXCEPT !.inserted = IF @ = By(t) THEN ab ELSE @,
                           !.deleted = IF @ = By(t) THEN Nothing ELSE @,
                           !.head = IF @ = By(t) THEN at ELSE @]]
  BY DEF IxRollback, Slots
<1>2. /\ ixClock \in Nat /\ ixClock' \in Nat /\ 0 < ixClock /\ 0 < ixClock' /\ ixTxn[t].start < ixClock'
      /\ ixClock # 0 /\ ixClock <= ixClock' /\ ixClock < ixClock'
  <2>1. ixTxn[t].start < ixClock /\ ixTxn[t].start \in Nat /\ ixClock \in Nat
    BY StartTypes DEF TxnInv, TxnOf, IndexType
  <2>2. ixClock' = ixClock + 1
    BY <1>1
  <2> HIDE DEF IndexInv
  <2> QED BY <2>1, <2>2, SMTT(30)
<1>3. ab \in Stamp /\ ab.by = "aborted" /\ ab.time = 0 /\ ab # Nothing /\ at \in Stamp /\ at.by = "aborted" /\ at.time = ixClock
  <2>1. ab \in Stamp /\ ab.by = "aborted" /\ ab.time = 0 /\ ab # Nothing
    BY StampNames
  <2>2. at \in Stamp
    BY <1>2 DEF Stamp
  <2> QED BY <2>1, <2>2
<1>4. /\ rows' \in [Slots -> [key : Keys \cup {"none"}, inserted : Stamp, deleted : Stamp, head : Stamp]]
      /\ \A s \in Slots :
            /\ rows'[s].key = rows[s].key
            /\ rows'[s].inserted = IF rows[s].inserted = By(t) THEN ab ELSE rows[s].inserted
            /\ rows'[s].deleted = IF rows[s].deleted = By(t) THEN Nothing ELSE rows[s].deleted
            /\ rows'[s].head = IF rows[s].head = By(t) THEN at ELSE rows[s].head
  <2>1. rows \in [Slots -> [key : Keys \cup {"none"}, inserted : Stamp, deleted : Stamp, head : Stamp]] /\ Nothing \in Stamp
    BY StampNames DEF IndexType
  <2> HIDE DEF IndexInv, ab, at
  <2>2. ASSUME NEW s \in Slots
        PROVE  /\ rows'[s] \in [key : Keys \cup {"none"}, inserted : Stamp, deleted : Stamp, head : Stamp]
               /\ rows'[s].key = rows[s].key
               /\ rows'[s].inserted = IF rows[s].inserted = By(t) THEN ab ELSE rows[s].inserted
               /\ rows'[s].deleted = IF rows[s].deleted = By(t) THEN Nothing ELSE rows[s].deleted
               /\ rows'[s].head = IF rows[s].head = By(t) THEN at ELSE rows[s].head
    <3> DEFINE a == IF rows[s].inserted = By(t) THEN ab ELSE rows[s].inserted
               d == IF rows[s].deleted = By(t) THEN Nothing ELSE rows[s].deleted
               h == IF rows[s].head = By(t) THEN at ELSE rows[s].head
    <3>1. rows'[s] = [rows[s] EXCEPT !.inserted = a, !.deleted = d, !.head = h]
      BY <1>1
    <3>2. rows[s] \in [key : Keys \cup {"none"}, inserted : Stamp, deleted : Stamp, head : Stamp]
      BY <2>1
    <3>3. a \in Stamp /\ d \in Stamp /\ h \in Stamp
      BY <1>3, <2>1, <3>2
    <3> HIDE DEF a, d, h
    <3>4. /\ rows'[s] \in [key : Keys \cup {"none"}, inserted : Stamp, deleted : Stamp, head : Stamp]
          /\ rows'[s].key = rows[s].key /\ rows'[s].inserted = a /\ rows'[s].deleted = d /\ rows'[s].head = h
      BY <3>1, <3>2, <3>3
    <3> QED BY <3>4 DEF a, d, h
  <2>3. rows' = [s \in Slots |-> rows'[s]]
    BY <1>1
  <2> DEFINE R == [key : Keys \cup {"none"}, inserted : Stamp, deleted : Stamp, head : Stamp]
  <2>4. \A s \in Slots : rows'[s] \in R
    BY <2>2
  <2> HIDE DEF R
  <2>5. rows' \in [Slots -> R]
    BY <2>3, <2>4
  <2> QED BY <2>2, <2>5 DEF R
<1> HIDE DEF ab, at
<1>5. /\ ixTxn' \in [IxTxns -> [status : Statuses, start : Nat, must : BOOLEAN, step : {"idle", "insert", "delete"}, slot : Nat]]
      /\ ixTxn'[t].status = "done" /\ ixTxn'[t].start = ixTxn[t].start /\ ixTxn'[t].step = ixTxn[t].step
      /\ \A u \in IxTxns : u # t => ixTxn'[u] = ixTxn[u]
  BY <1>1 DEF IndexType, Statuses
<1>6. /\ onCommit' \in [IxTxns -> SUBSET Slots] /\ onCommit'[t] = {}
      /\ \A u \in IxTxns : u # t => onCommit'[u] = onCommit[u]
  BY <1>1 DEF IndexType
<1>7. Later /\ Active(t) /\ \A u \in IxTxns : ixTxn'[u].start = ixTxn[u].start
  BY <1>1, <1>2, <1>5 DEF Later, Active
<1>8. \A u \in IxRunning' : u \in IxRunning /\ ixTxn'[u].start = ixTxn[u].start
  BY <1>5 DEF IxRunning
<1>9. By(t).time = 0 /\ By(t).by = t /\ By(t) # Nothing /\ Nothing.time = 0 /\ t # "aborted" /\ t # "nobody"
  BY StampNames
<1>10. \A k \in Keys : \A s \in entries[k] : rows[s].inserted # By(t) /\ rows'[s].inserted = rows[s].inserted
  <2>1. ASSUME NEW k \in Keys, NEW s \in entries[k] PROVE rows[s].inserted # By(t) /\ s \in Slots
    <3>1. EntryOf(k, s) /\ s \in Slots
      BY EntrySlots DEF EntryInv
    <3>2. undoInsert[t] = {}
      BY <1>1
    <3> HIDE DEF IndexInv
    <3> QED BY <1>9, <3>1, <3>2 DEF EntryOf
  <2> QED BY <1>4, <2>1
<1>11. IndexType'
  BY <1>1, <1>2, <1>4, <1>5, <1>6 DEF IndexType
<1>12. ASSUME NEW x \in Stamp, Valid(x), x.by # t PROVE ValidLater(x)
  <2>1. x.time < ixClock'
    <3>1. x.time \in Nat /\ x.time < ixClock
      BY <1>12 DEF Stamp, Valid
    <3> HIDE DEF IndexInv
    <3> QED BY <1>2, <3>1, SMTT(30)
  <2>2. x.by \in IxTxns => ixTxn'[x.by] = ixTxn[x.by]
    BY <1>5, <1>12
  <2> QED BY <1>12, <2>1, <2>2 DEF Valid, ValidLater, Active, Ended
<1>13. /\ ValidLater(ab) /\ ValidLater(at) /\ ValidLater(Nothing)
  <2>1. "aborted" \notin IxTxns /\ "aborted" # "nobody" /\ "nobody" \notin IxTxns /\ Nothing.by = "nobody"
    BY StampNames
  <2>2. ValidLater(ab)
    BY <1>2, <1>3, <2>1 DEF ValidLater
  <2>3. ValidLater(at)
    BY <1>2, <1>3, <2>1 DEF ValidLater
  <2>4. ValidLater(Nothing)
    BY <1>2, <1>9, <2>1 DEF ValidLater
  <2> QED BY <2>2, <2>3, <2>4
<1>14. RowInv'
  <2> SUFFICES ASSUME NEW s \in Slots PROVE RowOf(s)' /\ HeadOf(s)'
    BY DEF RowInv
  <2>1. /\ RowOf(s) /\ HeadOf(s) /\ rows[s].inserted \in Stamp /\ rows[s].deleted \in Stamp /\ rows[s].head \in Stamp
        /\ rows[s].inserted.time \in Nat
    BY StampTypes DEF RowInv
  <2>2. /\ rows[s].inserted.by = t => rows[s].inserted = By(t)
        /\ rows[s].deleted.by = t => rows[s].deleted = By(t)
        /\ rows[s].head.by = t => rows[s].head = By(t)
    BY <1>7, StampStates
  <2>3. CASE rows[s].inserted = By(t)
    <3>1. rows[s].key \in Keys /\ rows[s].deleted \in {Nothing, By(t)}
      BY <1>9, <2>1, <2>3 DEF RowOf
    <3>2. rows[s].head = By(t)
      BY <1>9, <2>1, <2>3, <3>1 DEF HeadOf
    <3>3. rows'[s].inserted = ab /\ rows'[s].deleted = Nothing /\ rows'[s].head = at /\ rows'[s].key \in Keys
      BY <1>4, <2>3, <3>1, <3>2
    <3>4. Valid(rows[s].inserted)' /\ Valid(rows[s].deleted)' /\ Valid(rows[s].head)'
      BY <1>13, <3>3 DEF Valid, ValidLater, Active, Ended
    <3>5. Nothing.time = 0 /\ Nothing.by # "aborted"
      BY StampNames
    <3> HIDE DEF IndexInv
    <3>6. RowOf(s)'
      BY <1>3, <3>3, <3>4, <3>5 DEF RowOf, Nothing
    <3>7. HeadOf(s)'
      BY <1>2, <1>3, <3>3 DEF HeadOf, Nothing
    <3> QED BY <3>6, <3>7
  <2>4. CASE rows[s].inserted # By(t) /\ rows[s].deleted = By(t)
    <3>1. rows[s].inserted.time # 0 /\ rows[s].head = By(t)
      BY <1>9, <2>1, <2>4 DEF RowOf, HeadOf
    <3>2. rows'[s].inserted = rows[s].inserted /\ rows'[s].deleted = Nothing /\ rows'[s].head = at /\ rows'[s].key = rows[s].key
      BY <1>4, <2>4, <3>1
    <3>3. Valid(rows[s].inserted) /\ rows[s].inserted.by # t
      BY <2>1, <2>2, <2>4 DEF RowOf
    <3>4. Valid(rows[s].inserted)' /\ Valid(rows[s].deleted)' /\ Valid(rows[s].head)'
      <4>1. ValidLater(rows[s].inserted)
        BY <1>12, <2>1, <3>3
      <4> QED BY <1>13, <3>2, <4>1 DEF Valid, ValidLater, Active, Ended
    <3>5. Nothing.time = 0 /\ Nothing.by # "aborted"
      BY StampNames
    <3>6. /\ rows[s].inserted # Nothing => rows[s].key \in Keys
          /\ rows[s].inserted.by # "aborted"
          /\ rows[s].inserted.time < ixClock
      BY <2>1, <3>1, <3>3 DEF RowOf, Valid
    <3> HIDE DEF IndexInv
    <3>7. RowOf(s)'
      BY <3>2, <3>4, <3>5, <3>6 DEF RowOf, Nothing
    <3>8. HeadOf(s)'
      BY <1>2, <1>3, <3>1, <3>2, <3>6 DEF HeadOf, Nothing
    <3> QED BY <3>7, <3>8
  <2>5. CASE rows[s].inserted # By(t) /\ rows[s].deleted # By(t)
    <3>1. rows[s].head # By(t)
      BY <1>9, <2>1, <2>5 DEF HeadOf
    <3>2. SameRow(s)
      BY <1>4, <2>5, <3>1 DEF SameRow
    <3>3. ValidLater(rows[s].inserted) /\ ValidLater(rows[s].deleted) /\ ValidLater(rows[s].head)
      BY <1>12, <2>1, <2>2, <2>5, <3>1 DEF RowOf
    <3> HIDE DEF IndexInv
    <3> QED BY <2>1, <3>2, <3>3, RowLater
  <2> QED BY <2>3, <2>4, <2>5
<1>15. TxnInv'
  <2> SUFFICES ASSUME NEW u \in IxTxns PROVE TxnOf(u)'
    BY DEF TxnInv
  <2>1. CASE u # t
    <3>1. ASSUME NEW s \in Slots
          PROVE  /\ rows[s].inserted = By(u) => rows'[s].inserted = By(u)
                 /\ rows[s].deleted = By(u) => rows'[s].deleted = By(u)
                 /\ rows[s].inserted = By(u) /\ rows[s].deleted = Nothing => rows'[s].deleted = Nothing
      <4>1. By(u) # By(t)
        BY <2>1, StampsDiffer
      <4> HIDE DEF IndexInv
      <4> QED BY <1>4, <1>9, <4>1
    <3> QED BY <1>1, <1>5, <1>6, <1>7, <2>1, <3>1, TxnKept
  <2>2. CASE u = t
    <3>1. TxnOf(t)
      BY DEF TxnInv
    <3>2. ixTxn[t].step = "idle"
      BY <1>1, <3>1 DEF TxnOf
    <3> QED BY <1>1, <1>2, <1>5, <1>6, <2>2, <3>2 DEF TxnOf
  <2> QED BY <2>1, <2>2
<1>16. EntryInv'
  <2> SUFFICES ASSUME NEW j \in Keys, NEW v \in entries[j] PROVE EntryOf(j, v)'
    BY <1>1 DEF EntryInv
  <2>1. EntryOf(j, v) /\ v \in Slots /\ (InQueue(v)' <=> InQueue(v))
    BY <1>1, EntrySlots, QueueSame DEF EntryInv
  <2>2. rows'[v].key = j /\ rows'[v].inserted = rows[v].inserted
    BY <1>4, <1>10, <2>1 DEF EntryOf
  <2>3. ASSUME rows'[v].deleted.time # 0 PROVE v \in onCommit'[rows'[v].deleted.by] \/ InQueue(v)
    <3>1. rows'[v].deleted = rows[v].deleted /\ rows[v].deleted # By(t)
      BY <1>4, <1>9, <2>1, <2>3
    <3>2. rows[v].deleted.by \in IxTxns /\ rows[v].deleted.by # t
      <4>1. Valid(rows[v].deleted) /\ rows[v].deleted.by # "aborted" /\ rows[v].deleted.by \in IxTxns \cup {"nobody", "aborted"}
        BY <2>1, StampTypes DEF RowInv, RowOf
      <4>2. rows[v].deleted.by # t
        BY <1>7, <2>1, <3>1, StampStates
      <4> QED BY <2>3, <3>1, <4>1, <4>2 DEF Valid
    <3> QED BY <1>6, <2>1, <2>3, <3>1, <3>2 DEF EntryOf
  <2> QED BY <1>1, <2>1, <2>2, <2>3 DEF EntryOf
<1>17. ThereInv'
  <2> SUFFICES ASSUME NEW v \in Slots PROVE ThereOf(v)'
    BY DEF ThereInv
  <2>1. ThereOf(v) /\ rows'[v].key = rows[v].key
    BY <1>4 DEF ThereInv
  <2>2. ASSUME rows'[v].inserted.time # 0, rows'[v].deleted.time = 0 PROVE v \in entries[rows[v].key]
    <3>1. rows[v].inserted.time # 0
      BY <1>3, <1>4, <2>2
    <3>2. rows[v].deleted.time = 0
      BY <1>4, <1>9, <2>2
    <3> QED BY <2>1, <3>1, <3>2 DEF ThereOf
  <2>3. ASSUME rows'[v].deleted.time # 0, v \notin entries[rows[v].key], NEW u \in IxRunning'
        PROVE  rows'[v].deleted.time < ixTxn'[u].start
    <3>1. rows'[v].deleted = rows[v].deleted
      BY <1>4, <1>9, <2>3
    <3>2. u \in IxRunning /\ ixTxn'[u].start = ixTxn[u].start
      BY <1>8
    <3> QED BY <2>1, <2>3, <3>1, <3>2 DEF ThereOf
  <2> QED BY <1>1, <2>1, <2>2, <2>3 DEF ThereOf
<1>18. OwnInv'
  <2> SUFFICES ASSUME NEW u \in IxTxns, NEW v \in Slots PROVE OwnOf(u, v)'
    BY DEF OwnInv
  <2>1. CASE u # t
    <3>1. OwnOf(u, v) /\ ixTxn'[u] = ixTxn[u] /\ rows'[v].key = rows[v].key /\ onCommit'[u] = onCommit[u]
      BY <1>4, <1>5, <1>6, <2>1 DEF OwnInv
    <3>2. By(u) # ab /\ By(u) # Nothing
      BY <1>3, StampNames
    <3>3. (rows'[v].inserted = By(u) => rows[v].inserted = By(u)) /\ (rows'[v].deleted = By(u) => rows[v].deleted = By(u))
      BY <1>4, <3>2
    <3> HIDE DEF IndexInv
    <3> QED BY <1>1, <3>1, <3>3 DEF OwnOf, By
  <2>2. CASE u = t
    BY <1>5, <2>2 DEF OwnOf
  <2> QED BY <2>1, <2>2
<1>19. UndoInv'
  <2> SUFFICES ASSUME NEW u \in IxTxns, NEW v \in undoInsert[u] PROVE rows'[v].inserted.by = u /\ v \in entries[rows'[v].key]
    BY <1>1 DEF UndoInv
  <2>1. v \in Slots /\ rows[v].inserted.by = u /\ v \in entries[rows[v].key] /\ u # t
    BY <1>1, EntrySlots DEF UndoInv
  <2>2. rows[v].inserted # By(t)
    BY <1>9, <2>1
  <2> QED BY <1>4, <2>1, <2>2
<1>20. CommitInv'
  <2> SUFFICES ASSUME NEW u \in IxTxns, NEW v \in onCommit'[u]
               PROVE  rows'[v].deleted.by = u /\ ~InQueue(v)' /\ (rows'[v].deleted.time # 0 => v \in entries[rows'[v].key])
    BY <1>1 DEF CommitInv
  <2>1. u # t /\ v \in onCommit[u] /\ (InQueue(v)' <=> InQueue(v))
    BY <1>1, <1>6, QueueSame
  <2>2. v \in Slots /\ rows[v].deleted.by = u /\ ~InQueue(v) /\ (rows[v].deleted.time # 0 => v \in entries[rows[v].key])
    BY <2>1, EntrySlots DEF CommitInv
  <2>3. rows'[v].deleted = rows[v].deleted /\ rows'[v].key = rows[v].key
    BY <1>4, <1>9, <2>1, <2>2
  <2> QED BY <2>1, <2>2, <2>3
<1>21. QueueInv'
  <2>1. ASSUME NEW v \in Slots, InQueue(v) PROVE rows'[v].key = rows[v].key /\ rows'[v].deleted = rows[v].deleted
    <3>1. rows[v].deleted.time # 0
      BY <2>1 DEF InQueue, QueueInv
    <3> QED BY <1>4, <1>9, <3>1
  <2> HIDE DEF IndexInv
  <2> QED BY <1>1, <1>7, <2>1, QueueKept
<1>22. FollowInv'
  <2>1. ASSUME NEW k \in Keys, NEW v \in entries[k], NEW s \in entries[k], Follows(v, s) PROVE Follows(v, s)'
    <3>1. v \in Slots /\ s \in Slots /\ rows[s].inserted.by \in IxTxns
      BY EntryBegun
    <3>2. rows'[s].inserted = rows[s].inserted /\ rows[s].inserted # By(t)
      BY <1>10
    <3>3. rows[v].deleted # By(t)
      BY <1>9, <2>1, <3>2 DEF Follows
    <3>4. rows'[v].deleted = rows[v].deleted /\ ixTxn'[rows[s].inserted.by].start = ixTxn[rows[s].inserted.by].start
      BY <1>4, <1>7, <3>1, <3>3
    <3> QED BY <2>1, <3>2, <3>4 DEF Follows
  <2> SUFFICES ASSUME NEW k \in Keys, NEW v \in entries[k], NEW s \in entries[k], v # s PROVE Follows(v, s)' \/ Follows(s, v)'
    BY <1>1 DEF FollowInv
  <2>2. Follows(v, s) \/ Follows(s, v)
    BY DEF FollowInv
  <2> HIDE DEF IndexInv
  <2> QED BY <2>1, <2>2
<1> QED BY <1>11, <1>14, <1>15, <1>16, <1>17, <1>18, <1>19, <1>20, <1>21, <1>22

LEMMA IndexStep == IndexInv /\ [IxNext]_indexVars => IndexInv'
<1> SUFFICES ASSUME IndexInv, [IxNext]_indexVars PROVE IndexInv'
  OBVIOUS
<1>1. CASE RunErase
  BY <1>1, IndexErase
<1>2. ASSUME NEW t \in IxTxns, IxStep(t) PROVE IndexInv'
  <2>1. CASE IxBegin(t) \/ IxAbort(t) \/ InsertUnique(t) \/ IndexDelete(t)
    BY <2>1, IndexBegin, IndexAbort, IndexInsertUnique, IndexDeleteRegistered
  <2>2. CASE IxCommit(t) \/ IxCommitAction(t) \/ IxCommitted(t)
    BY <2>2, IndexCommit, IndexCommitAction, IndexCommitted
  <2>3. CASE IxAbortAction(t) \/ IxRollback(t)
    BY <2>3, IndexAbortAction, IndexRollback
  <2>4. CASE \E k \in Keys : TableInsert(t, k) \/ TableDelete(t, k)
    BY <2>4, IndexTableInsert, IndexTableDelete
  <2> QED BY <1>2, <2>1, <2>2, <2>3, <2>4 DEF IxStep
<1>3. CASE UNCHANGED indexVars
  <2>1. /\ ixClock' = ixClock /\ ixTxn' = ixTxn /\ rows' = rows /\ entries' = entries /\ undoInsert' = undoInsert
        /\ onCommit' = onCommit /\ deferredErase' = deferredErase
    BY <1>3, SMTT(30) DEF indexVars
  <2> USE DEF IndexInv
  <2>2. Progresses /\ Later /\ IxRunning' = IxRunning
    BY <2>1, NobodyMoves
  <2>3. RowInv' /\ ThereInv' /\ QueueInv' /\ FollowInv'
    BY <2>1, <2>2, RowsKept, ThereKept, QueueKept, FollowKept
  <2>4. EntryInv' /\ UndoInv' /\ CommitInv'
    BY <2>1, PendingKept
  <2>5. TxnInv'
    <3> SUFFICES ASSUME NEW u \in IxTxns PROVE TxnOf(u)'
      BY DEF TxnInv
    <3> QED BY <2>1, <2>2, TxnKept
  <2>6. OwnInv'
    <3> SUFFICES ASSUME NEW u \in IxTxns, NEW v \in Slots PROVE OwnOf(u, v)'
      BY DEF OwnInv
    <3> QED BY <2>1, OwnKept
  <2>7. IndexType'
    BY <2>1 DEF IndexType
  <2> QED BY <2>3, <2>4, <2>5, <2>6, <2>7
<1> QED BY <1>1, <1>2, <1>3 DEF IxNext, IxFinished

\* What holds of the table, the entries of the index and the pending erasures at every step
\* of InsertUnique, Delete, commit, abort and the deferred actions.
THEOREM IndexInvariant == IxSpec => []IndexInv
  BY IndexInitInv, IndexStep, PTL DEF IxSpec

\* A unique index never shows a transaction two slots for a key, however many transactions
\* insert, delete, commit and abort: the predicate of InsertUnique (conflicting or visible
\* values) is enough, with erasures that are deferred.
THEOREM UniqueIndex == IxSpec => []UniqueInSnapshot
  BY IndexInvariant, IndexIsUnique, PTL

\* Every slot that a running transaction sees in the table it finds through the index: no
\* abort action and no deferred erasure removes the entry of a visible slot.
THEOREM CompleteIndex == IxSpec => []IndexComplete
  BY IndexInvariant, IndexIsComplete, PTL

\* Each erasure that is registered (abort actions of InsertUnique, deferred actions of
\* Delete) finds its entry, and when all are done the index holds the live slots and no others.
THEOREM ExactIndex == IxSpec => []EntriesExact
  BY IndexInvariant, IndexIsExact, PTL
=============================================================================
