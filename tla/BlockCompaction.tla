--------------------------- MODULE BlockCompaction ----------------------------
(***************************************************************************)
(* A full block that is compacted and frozen: BlockAccessController,       *)
(* BlockCompactor and AccessObserver, beside transactions that update or   *)
(* delete tuples of the block and readers that read it in place when it is *)
(* frozen.                                                                 *)
(*                                                                         *)
(* A transaction sees what had ended when it began, so instead of its      *)
(* times the model keeps that set (snapshot).  A round of the garbage      *)
(* collector is one step; GarbageCollector has its steps.  Transactions    *)
(* make one call each.                                                     *)
(***************************************************************************)
EXTENDS Naturals, Sequences, FiniteSets

LOCAL INSTANCE SequencesExt

CONSTANTS
    Mutators,       \* transactions that write
    Deleters,       \* those that delete a tuple; the others update one
    ArrowReaders,   \* transactions that read the block, in place if they can
    BlockSlots,     \* slots of the block
    MaxPasses,      \* bound: calls of ProcessCompactionQueue
    Observed,       \* whether the collector has an access observer
    ColdThreshold   \* COLD_DATA_EPOCH_THRESHOLD

ASSUME BCAssumption ==
    /\ Deleters \subseteq Mutators
    /\ {BlockSlots, MaxPasses, ColdThreshold} \subseteq Nat /\ Observed \in BOOLEAN

Offsets == 1 .. BlockSlots
Untouched == 0

VARIABLES
    controller,    \* the block's state and its count of in-place readers
    slots,         \* each slot: allocated, present, which memory its varlen value is in, version chain
    mutator, arrow_reader,  \* control and locals of the threads
    live, ended, snapshot,  \* running transactions; of those that write, which are over, what each sees
    compactor,     \* control, entries left in to_process, passes and compactions begun, locals
    compaction_queue,       \* compaction_queue_: the number of its entries
    deferred,      \* deferred actions: what they do, and who was running at their registration
    observer,      \* gc_epoch_ and last_touched_ of the block
    deleted_varlens         \* the loose buffers that were deleted

bcTxnVars == <<live, ended, snapshot>>
bcVars == <<controller, slots, mutator, arrow_reader, bcTxnVars, compactor, compaction_queue, deferred,
            observer, deleted_varlens>>

BCInit ==
    /\ controller = [state |-> "HOT", readers |-> 0]
    /\ slots = [s \in Offsets |-> [alloc |-> TRUE, present |-> TRUE, varlen |-> <<"insert", s>>, chain |-> <<>>]]
    /\ mutator = [t \in Mutators |-> [pc |-> "idle", op |-> "", slot |-> 0]]
    /\ arrow_reader = [t \in ArrowReaders |-> [pc |-> "idle", varlen |-> <<>>]]
    /\ live = {} /\ ended = {} /\ snapshot = [t \in Mutators |-> {}]
    /\ compactor = [pc |-> "idle", left |-> 0, passes |-> 0, txns |-> 0, at |-> 1, loose |-> {}, moved |-> FALSE,
                    empty |-> <<>>, filled |-> <<>>, listed |-> FALSE]
    /\ compaction_queue = 1
    /\ deferred = <<>>
    /\ observer = [epoch |-> 1, touched |-> Untouched]
    /\ deleted_varlens = {}

-----------------------------------------------------------------------------
(* Version chains.  A record of a chain: its transaction, its type, and    *)
(* who was running when the transaction ended.                             *)

\* The transaction of the compaction that is under way.
CompactionTxn == <<"compaction", compactor.txns>>

Undo(t, op, s) == [txn |-> t, op |-> op, before |-> slots[s].varlen, waits |-> {}]

BeginSees(t) == snapshot' = [x \in DOMAIN snapshot \cup {t} |-> IF x = t THEN ended ELSE snapshot[x]]

\* HasConflict, with the newest record of the chain.
HasConflict(t, s) ==
    slots[s].chain # <<>> /\ LET u == Head(slots[s].chain).txn IN u # t /\ u \notin snapshot[t]

Install(t, op, s) == [slots[s] EXCEPT !.chain = <<Undo(t, op, s)>> \o @, !.present = op # "DELETE"]

\* The transaction is over: its records wait for those that are running.
EndTxn(t) ==
    /\ live' = live \ {t}
    /\ ended' = ended \cup {t}
    /\ snapshot' = [snapshot EXCEPT ![t] = {}]

Stamp(ss, t) ==
    [s \in Offsets |-> [ss[s] EXCEPT !.chain =
        [i \in DOMAIN @ |-> IF @[i].txn = t THEN [@[i] EXCEPT !.waits = live \ {t}] ELSE @[i]]]]

\* Rollback of t's records; they stay in the chain, but reclaim nothing.
RolledBack(ss, t) ==
    [s \in Offsets |->
        IF ss[s].chain = <<>> \/ Head(ss[s].chain).txn # t THEN ss[s]
        ELSE LET r == Head(ss[s].chain)
             IN [ss[s] EXCEPT !.present = r.op # "INSERT", !.alloc = r.op # "INSERT", !.varlen = r.before,
                              !.chain = <<[r EXCEPT !.op = "ABORTED"]>> \o Tail(@)]]

-----------------------------------------------------------------------------
(* DataTable::Update and Delete, with BlockAccessController::WaitUntilHot. *)

MutatorAt(t, label) == mutator' = [mutator EXCEPT ![t].pc = label]
MutatorFrame == UNCHANGED <<arrow_reader, compactor, compaction_queue, deferred, observer, deleted_varlens>>

MutatorBegin(t, s) ==
    /\ mutator[t].pc = "idle"
    /\ mutator' = [mutator EXCEPT ![t] = [pc |-> "wait", op |-> IF t \in Deleters THEN "DELETE" ELSE "UPDATE", slot |-> s]]
    /\ live' = live \cup {t} /\ BeginSees(t)
    /\ MutatorFrame /\ UNCHANGED <<controller, slots, ended>>

\* The state is loaded; in FREEZING the loop goes on.
WaitLoad(t) ==
    /\ mutator[t].pc = "wait" /\ controller.state # "FREEZING"
    /\ MutatorAt(t, CASE controller.state = "COOLING" -> "preempt"
                      [] controller.state = "FROZEN" -> "store_hot"
                      [] controller.state = "HOT" -> "wait_readers")
    /\ MutatorFrame /\ UNCHANGED <<controller, slots, bcTxnVars>>

\* COOLING: compare-and-swap, and on to the store of the next case.
WaitPreempt(t) ==
    /\ mutator[t].pc = "preempt"
    /\ IF controller.state = "COOLING"
       THEN controller' = [controller EXCEPT !.state = "HOT"] /\ MutatorAt(t, "store_hot")
       ELSE UNCHANGED controller /\ MutatorAt(t, "wait")
    /\ MutatorFrame /\ UNCHANGED <<slots, bcTxnVars>>

WaitStoreHot(t) ==
    /\ mutator[t].pc = "store_hot"
    /\ controller' = [controller EXCEPT !.state = "HOT"]
    /\ MutatorAt(t, "wait_readers")
    /\ MutatorFrame /\ UNCHANGED <<slots, bcTxnVars>>

WaitReaders(t) ==
    /\ mutator[t].pc = "wait_readers" /\ controller.readers = 0
    /\ MutatorAt(t, "install")
    /\ MutatorFrame /\ UNCHANGED <<controller, slots, bcTxnVars>>

\* The record is installed, unless there is a conflict or no tuple.
MutatorInstall(t) ==
    /\ mutator[t].pc = "install"
    /\ LET s == mutator[t].slot
       IN IF HasConflict(t, s) \/ ~slots[s].present
          THEN MutatorAt(t, "abort") /\ UNCHANGED slots
          ELSE /\ MutatorAt(t, IF mutator[t].op = "UPDATE" THEN "in_place" ELSE "end")
               /\ slots' = [slots EXCEPT ![s] = Install(t, mutator[t].op, s)]
    /\ MutatorFrame /\ UNCHANGED <<controller, bcTxnVars>>

MutatorWrite(t) ==
    /\ mutator[t].pc = "in_place"
    /\ slots' = [slots EXCEPT ![mutator[t].slot].varlen = <<"update", t>>]
    /\ MutatorAt(t, "end")
    /\ MutatorFrame /\ UNCHANGED <<controller, bcTxnVars>>

MutatorCommit(t) ==
    /\ mutator[t].pc = "end"
    /\ slots' = Stamp(slots, t)
    /\ EndTxn(t) /\ MutatorAt(t, "over")
    /\ MutatorFrame /\ UNCHANGED controller

MutatorAbort(t) ==
    /\ mutator[t].pc \in {"end", "abort"}
    /\ slots' = Stamp(RolledBack(slots, t), t)
    /\ EndTxn(t) /\ MutatorAt(t, "over")
    /\ MutatorFrame /\ UNCHANGED controller

-----------------------------------------------------------------------------
(* Readers.                                                                *)

ReaderFrame ==
    UNCHANGED <<ended, snapshot, slots, mutator, compactor, compaction_queue, deferred, observer, deleted_varlens>>

\* A faulty variant: a block that is about to be frozen counts as frozen.
ReaderBeginEarly(t) ==
    /\ arrow_reader[t].pc = "idle"
    /\ IF controller.state # "HOT"
       THEN /\ controller' = [controller EXCEPT !.readers = @ + 1]
            /\ arrow_reader' = [arrow_reader EXCEPT ![t].pc = "in_place"]
       ELSE /\ \E s \in Offsets : arrow_reader' = [arrow_reader EXCEPT ![t] = [pc |-> "select", varlen |-> slots[s].varlen]]
            /\ UNCHANGED controller
    /\ live' = live \cup {t}
    /\ ReaderFrame

\* TryAcquireInPlaceRead (its loop only hides failures of the compare-and-swap); if
\* the block is not frozen the reader makes a snapshot, from values that it finds
\* through the entries of the tuples.
ReaderBegin(t) ==
    /\ arrow_reader[t].pc = "idle"
    /\ IF controller.state = "FROZEN"
       THEN /\ controller' = [controller EXCEPT !.readers = @ + 1]
            /\ arrow_reader' = [arrow_reader EXCEPT ![t].pc = "in_place"]
       ELSE /\ \E s \in Offsets : arrow_reader' = [arrow_reader EXCEPT ![t] = [pc |-> "select", varlen |-> slots[s].varlen]]
            /\ UNCHANGED controller
    /\ live' = live \cup {t}
    /\ ReaderFrame

\* ReleaseInPlaceRead.
ReaderEnd(t) ==
    /\ arrow_reader[t].pc \in {"in_place", "select"}
    /\ controller' = [controller EXCEPT !.readers = IF arrow_reader[t].pc = "in_place" THEN @ - 1 ELSE @]
    /\ arrow_reader' = [arrow_reader EXCEPT ![t] = [pc |-> "over", varlen |-> <<>>]]
    /\ live' = live \ {t}
    /\ ReaderFrame

-----------------------------------------------------------------------------
(* BlockCompactor::ProcessCompactionQueue.                                 *)

CompactorAt(label) == compactor' = [compactor EXCEPT !.pc = label]
CompactorFrame == UNCHANGED <<mutator, arrow_reader, observer, deleted_varlens>>

PassBegin ==
    /\ compactor.pc = "idle" /\ compactor.passes < MaxPasses /\ compaction_queue > 0
    /\ compactor' = [compactor EXCEPT !.pc = "front", !.left = compaction_queue, !.passes = @ + 1]
    /\ compaction_queue' = 0
    /\ CompactorFrame /\ UNCHANGED <<controller, slots, bcTxnVars, deferred>>

InOrder(S) == SetToSortSeq(S, <)
Empty == {s \in Offsets : ~slots[s].alloc}

\* The front of the queue; FREEZING would throw.  A compaction begins its transaction.
PassFront ==
    /\ compactor.pc = "front" /\ compactor.left > 0
    /\ CASE controller.state = "HOT" ->
              LET t == <<"compaction", compactor.txns + 1>>
              IN /\ compactor' = [compactor EXCEPT !.pc = "gaps", !.txns = @ + 1, !.moved = FALSE,
                                                   !.listed = FALSE, !.empty = InOrder(Empty)]
                 /\ live' = live \cup {t} /\ BeginSees(t)
         [] controller.state = "COOLING" ->
              compactor' = [compactor EXCEPT !.pc = "check", !.at = 1] /\ UNCHANGED <<live, snapshot>>
         [] OTHER -> CompactorAt("pop") /\ UNCHANGED <<live, snapshot>>
    /\ CompactorFrame /\ UNCHANGED <<controller, slots, ended, compaction_queue, deferred>>

\* EliminateGaps on one block: gaps in their order, tuples from the last one.  The
\* tuples are listed at the first gap; giver is past the only block before that, and
\* in front of it if the list is used up.
CompactGap ==
    /\ compactor.pc = "gaps" /\ compactor.empty # <<>>
    /\ LET filled == IF compactor.listed THEN compactor.filled ELSE InOrder(Offsets \ Empty)
       IN IF filled = <<>> THEN CompactorAt("undefined")
          ELSE IF Last(filled) < Head(compactor.empty) THEN CompactorAt("cool")
          ELSE compactor' = [compactor EXCEPT !.pc = "move", !.filled = filled, !.listed = TRUE]
    /\ CompactorFrame /\ UNCHANGED <<controller, slots, bcTxnVars, compaction_queue, deferred>>

\* MoveTuple.  It fails if the compaction does not see the tuple; the copy goes to a
\* slot that nobody else uses.
CompactMove ==
    /\ compactor.pc = "move"
    /\ LET from == Last(compactor.filled)
           to == Head(compactor.empty)
           t == CompactionTxn
       IN IF slots[from].present \/ HasConflict(t, from)
          THEN /\ slots' = [slots EXCEPT ![to] = [Install(t, "INSERT", to) EXCEPT !.alloc = TRUE, !.varlen = <<"move", to, t>>]]
               /\ CompactorAt("delete")
          ELSE CompactorAt("abort") /\ UNCHANGED slots
    /\ CompactorFrame /\ UNCHANGED <<controller, bcTxnVars, compaction_queue, deferred>>

\* Delete waits for readers that came before the block was hot.  It fails if somebody
\* else wrote the tuple; the copy is rolled back then.
CompactDelete ==
    /\ compactor.pc = "delete" /\ controller.readers = 0
    /\ LET from == Last(compactor.filled)
       IN IF slots[from].present /\ ~HasConflict(CompactionTxn, from)
          THEN /\ slots' = [slots EXCEPT ![from] = Install(CompactionTxn, "DELETE", from)]
               /\ compactor' = [compactor EXCEPT !.moved = TRUE, !.pc = "gaps", !.empty = Tail(@), !.filled = Front(@)]
          ELSE CompactorAt("abort") /\ UNCHANGED slots
    /\ CompactorFrame /\ UNCHANGED <<controller, bcTxnVars, compaction_queue, deferred>>

CompactCool ==
    /\ compactor.pc = "cool" \/ (compactor.pc = "gaps" /\ compactor.empty = <<>>)
    /\ controller' = [controller EXCEPT !.state = "COOLING"]
    /\ CompactorAt("register")
    /\ CompactorFrame /\ UNCHANGED <<slots, bcTxnVars, compaction_queue, deferred>>

RegisterAction(do, loose) == deferred' = Append(deferred, [do |-> do, loose |-> loose, running |-> live])

\* A faulty variant: the block goes back to the queue at once.
CompactRegisterNow ==
    /\ compactor.pc = "register"
    /\ compaction_queue' = IF compactor.moved THEN compaction_queue ELSE compaction_queue + 1
    /\ CompactorAt("commit")
    /\ CompactorFrame /\ UNCHANGED <<controller, slots, bcTxnVars, deferred>>

\* Without a move nothing would be observed of the block: it is put in the queue by
\* a deferred action.
CompactRegister ==
    /\ compactor.pc = "register"
    /\ IF compactor.moved THEN UNCHANGED deferred ELSE RegisterAction("put_in_queue", {})
    /\ CompactorAt("commit")
    /\ CompactorFrame /\ UNCHANGED <<controller, slots, bcTxnVars, compaction_queue>>

CompactEnd ==
    /\ compactor.pc \in {"commit", "abort"}
    /\ slots' = Stamp(IF compactor.pc = "abort" THEN RolledBack(slots, CompactionTxn) ELSE slots, CompactionTxn)
    /\ EndTxn(CompactionTxn) /\ CompactorAt("pop")
    /\ CompactorFrame /\ UNCHANGED <<controller, compaction_queue, deferred>>

\* A slot of CheckForVersionsAndGaps.  On failure the block is not popped.
CheckSlot ==
    /\ compactor.pc = "check" /\ compactor.at <= BlockSlots
    /\ LET s == compactor.at
           gap == slots[s].alloc /\ \E x \in 1 .. s - 1 : ~slots[x].alloc
           version == slots[s].alloc /\ slots[s].chain # <<>>
       IN IF gap \/ version THEN CompactorAt("front") ELSE compactor' = [compactor EXCEPT !.at = @ + 1]
    /\ CompactorFrame /\ UNCHANGED <<controller, slots, bcTxnVars, compaction_queue, deferred>>

CheckDone ==
    /\ compactor.pc = "check" /\ compactor.at > BlockSlots
    /\ IF controller.state = "COOLING"
       THEN controller' = [controller EXCEPT !.state = "FREEZING"]
            /\ compactor' = [compactor EXCEPT !.pc = "gather", !.at = 1, !.loose = {}]
       ELSE CompactorAt("front") /\ UNCHANGED controller
    /\ CompactorFrame /\ UNCHANGED <<slots, bcTxnVars, compaction_queue, deferred>>

\* GatherVarlens, a slot at a time: the value moves to the Arrow buffer.
GatherSlot ==
    /\ compactor.pc = "gather" /\ compactor.at <= BlockSlots
    /\ LET s == compactor.at
       IN IF slots[s].alloc
          THEN /\ slots' = [slots EXCEPT ![s].varlen = <<"arrow", s>>]
               /\ compactor' = [compactor EXCEPT !.at = @ + 1,
                                    !.loose = IF slots[s].varlen[1] = "arrow" THEN @ ELSE @ \cup {slots[s].varlen}]
          ELSE compactor' = [compactor EXCEPT !.at = @ + 1] /\ UNCHANGED slots
    /\ CompactorFrame /\ UNCHANGED <<controller, bcTxnVars, compaction_queue, deferred>>

Freeze ==
    /\ compactor.pc = "gather" /\ compactor.at > BlockSlots
    /\ controller' = [controller EXCEPT !.state = "FROZEN"]
    /\ CompactorAt("loose")
    /\ CompactorFrame /\ UNCHANGED <<slots, bcTxnVars, compaction_queue, deferred>>

\* A faulty variant: the old values are deleted at once.
RegisterLooseNow ==
    /\ compactor.pc = "loose"
    /\ deleted_varlens' = deleted_varlens \cup compactor.loose
    /\ CompactorAt("pop")
    /\ UNCHANGED <<mutator, arrow_reader, observer, controller, slots, bcTxnVars, compaction_queue, deferred>>

RegisterLoose ==
    /\ compactor.pc = "loose"
    /\ RegisterAction("delete", compactor.loose)
    /\ CompactorAt("pop")
    /\ CompactorFrame /\ UNCHANGED <<controller, slots, bcTxnVars, compaction_queue>>

PassPop ==
    /\ compactor.pc = "pop"
    /\ compactor' = [compactor EXCEPT !.left = @ - 1, !.loose = {}, !.at = 1, !.empty = <<>>, !.filled = <<>>,
                                      !.pc = IF compactor.left = 1 THEN "idle" ELSE "front"]
    /\ CompactorFrame /\ UNCHANGED <<controller, slots, bcTxnVars, compaction_queue, deferred>>

-----------------------------------------------------------------------------
(* A round of the garbage collector: the observer's clock, the records     *)
(* that nobody needs, the deferred actions that are due.                   *)

Unlinkable(r) == r.txn \in ended /\ r.waits \cap live = {}

\* Newest first: what follows an unlinkable record is unlinkable too.
Unlinked(s) == {i \in DOMAIN slots[s].chain : Unlinkable(slots[s].chain[i])}

Collected(s) ==
    LET gone == Unlinked(s)
    IN [slots[s] EXCEPT !.chain = SubSeq(@, 1, Len(@) - Cardinality(gone)),
                        !.alloc = @ /\ ~\E i \in gone : slots[s].chain[i].op = "DELETE"]

DueActions == {i \in DOMAIN deferred : \A j \in 1 .. i : deferred[j].running \cap live = {}}

Collect ==
    /\ \E s \in Offsets : Unlinked(s) # {}
       \/ DueActions # {}
       \/ observer.touched # Untouched
    /\ LET cold == Observed /\ observer.touched # Untouched /\ observer.touched + ColdThreshold < observer.epoch + 1
           touched == Observed /\ \E s \in Offsets : Unlinked(s) # {}
           due == DueActions
       IN /\ observer' = [epoch |-> IF Observed THEN observer.epoch + 1 ELSE observer.epoch,
                          touched |-> IF touched THEN observer.epoch + 1 ELSE IF cold THEN Untouched ELSE observer.touched]
          /\ slots' = [s \in Offsets |-> Collected(s)]
          /\ deferred' = SubSeq(deferred, Cardinality(due) + 1, Len(deferred))
          /\ compaction_queue' = compaction_queue + (IF cold THEN 1 ELSE 0)
                                 + Cardinality({i \in due : deferred[i].do = "put_in_queue"})
          /\ deleted_varlens' = deleted_varlens \cup UNION {deferred[i].loose : i \in due}
    /\ UNCHANGED <<controller, mutator, arrow_reader, bcTxnVars, compactor>>

-----------------------------------------------------------------------------
MutatorStep(t) ==
    \/ WaitLoad(t) \/ WaitPreempt(t) \/ WaitStoreHot(t) \/ WaitReaders(t)
    \/ MutatorInstall(t) \/ MutatorWrite(t) \/ MutatorCommit(t) \/ MutatorAbort(t)

CompactorStep ==
    \/ PassBegin \/ PassFront \/ CompactGap \/ CompactMove \/ CompactDelete \/ CompactCool \/ CompactRegister \/ CompactEnd
    \/ CheckSlot \/ CheckDone \/ GatherSlot \/ Freeze \/ RegisterLoose \/ PassPop

BCOver == compactor.pc \in {"idle", "undefined"} /\ UNCHANGED bcVars

BCNext ==
    \/ \E t \in Mutators : MutatorStep(t) \/ \E s \in Offsets : MutatorBegin(t, s)
    \/ \E t \in ArrowReaders : ReaderBegin(t) \/ ReaderEnd(t)
    \/ CompactorStep \/ Collect \/ BCOver

BCSpec == BCInit /\ [][BCNext]_bcVars

\* Threads run, transactions end, and the collector comes round again and again.
BCFairness ==
    /\ \A t \in Mutators : WF_bcVars(MutatorStep(t))
    /\ \A t \in ArrowReaders : WF_bcVars(ReaderEnd(t))
    /\ WF_bcVars(CompactorStep) /\ WF_bcVars(Collect)

BCFairSpec == BCSpec /\ BCFairness

-----------------------------------------------------------------------------
(* Properties.                                                             *)

\* "Transactions need to wait for active readers to finish and flip block status back to
\* hot before proceeding" (block_access_controller.h:31): no writer that is past
\* WaitUntilHot writes in place while a reader reads in place.
InPlaceReadersAlone ==
    (\E t \in Mutators : mutator[t].pc = "in_place") => ~\E r \in ArrowReaders : arrow_reader[r].pc = "in_place"

\* "Transactions are not allowed to write to the block" that is being transformed
\* (block_access_controller.h:26): the values that GatherVarlens moves are nobody's.
FreezingUndisturbed ==
    compactor.pc = "gather" => ~\E t \in Mutators : mutator[t].pc = "in_place"

\* "The deferred event framework guarantees that readers will not read garbage"
\* (block_compactor.cpp:261): neither a reader with an old entry nor the block itself
\* refers to a buffer that was deleted.
VarlensLive ==
    /\ \A r \in ArrowReaders : arrow_reader[r].varlen \notin deleted_varlens
    /\ \A s \in Offsets : slots[s].present => slots[s].varlen \notin deleted_varlens

\* "we know these finds will not return end()" (block_compactor.cpp:112): there is a
\* tuple for every gap that is to be filled.
GiverExists == compactor.pc # "undefined"

\* "The compaction can fail due to live versions or contention" (block_compactor.h:55):
\* it fails, and does not go on for ever.
PassesEnd == compactor.pc # "idle" ~> compactor.pc = "idle"
=============================================================================
