----------------------------- MODULE BlockInsert ------------------------------
(***************************************************************************)
(* DataTable::Insert up to the point where it has a slot: the walk over    *)
(* the list of blocks, the busy bit in insert_head_, the insertion head    *)
(* and the creation of blocks; and DataTable::Scan, which iterates over    *)
(* the list meanwhile.                                                     *)
(*                                                                         *)
(* The list only grows at its end, so an iterator is a position, and       *)
(* EndOfList is the list's sentinel: an iterator that reached it stays     *)
(* there when blocks are added.  A step is one access to shared memory.  A *)
(* new block is private until it is in the list.                           *)
(***************************************************************************)
EXTENDS Naturals, Sequences, FiniteSets

CONSTANTS
    Inserters,     \* inserting threads
    Inserts,       \* bound: inserts per thread
    NumSlots,      \* slots per block
    SizeLimit,     \* the size limit of the block store
    SizeLimitMax,  \* the size limit after SetSizeLimit
    NDEBUG,        \* TRUE in release builds: TERRIER_ASSERT evaluates nothing
    Scans          \* whether a thread scans the table

ASSUME BIAssumption ==
    /\ Inserts \in Nat /\ NumSlots \in Nat \ {0}
    /\ SizeLimit \in Nat \ {0} /\ SizeLimitMax >= SizeLimit
    /\ NDEBUG \in BOOLEAN /\ Scans \in BOOLEAN

EndOfList == 0

VARIABLES
    blocks,         \* blocks_: the insert head, busy bit and allocation bitmap of each
    insertion_head, \* insertion_head_
    header_latch,   \* header_latch_: its holder, or EndOfList
    size_limit,     \* size_limit_ of the block store
    ins,            \* each inserting thread: control, block, word loaded, inserts to begin
    handed,         \* history: the slots handed out, with the insert that got each
    scan            \* the scanning thread: control, iterator, history

listVars == <<blocks, insertion_head, header_latch>>
biVars == <<listVars, size_limit, ins, handed, scan>>

NewBlock(allocated, busy) == [head |-> Cardinality(allocated), busy |-> busy, alloc |-> allocated]

NextBlock(it) == IF it = Len(blocks) THEN EndOfList ELSE it + 1

BeginSlot == [block |-> 1, off |-> 0]

Word(b) == <<blocks[b].head, blocks[b].busy>>

InsertFrom(t, label) == ins' = [ins EXCEPT ![t].pc = label]

HandOut(t, slot) == handed' = handed \cup {<<t, ins[t].todo, slot>>}

BIInit ==
    /\ blocks = <<NewBlock({}, FALSE)>>
    /\ insertion_head = 1
    /\ header_latch = EndOfList
    /\ size_limit = SizeLimit
    /\ ins = [t \in Inserters |-> [pc |-> "idle", block |-> EndOfList, val |-> <<0, FALSE>>, todo |-> Inserts]]
    /\ handed = {}
    /\ scan = [pc |-> IF Scans THEN "idle" ELSE "done", it |-> BeginSlot, due |-> {}, seen |-> {}]

-----------------------------------------------------------------------------
(* Insert.                                                                 *)

\* The insertion head is read without the latch.
InsertWalk(t) ==
    /\ ins[t].pc = "idle" /\ ins[t].todo > 0
    /\ ins' = [ins EXCEPT ![t].pc = "probe", ![t].todo = @ - 1, ![t].block = insertion_head]
    /\ UNCHANGED <<listVars, size_limit, handed, scan>>

\* No block left: a new one, with its first slot taken, at the end of the list.  Its
\* busy bit is set inside TERRIER_ASSERT.  A full block store throws.
InsertNewBlock(t) ==
    /\ ins[t].pc = "probe" /\ ins[t].block = EndOfList
    /\ IF Len(blocks) < size_limit
       THEN /\ blocks' = Append(blocks, NewBlock({0}, ~NDEBUG))
            /\ ins' = [ins EXCEPT ![t].pc = "clear", ![t].block = Len(blocks) + 1]
            /\ HandOut(t, <<Len(blocks) + 1, 0>>)
       ELSE /\ InsertFrom(t, "idle")
            /\ UNCHANGED <<blocks, handed>>
    /\ UNCHANGED <<insertion_head, header_latch, size_limit, scan>>

\* SetBlockBusyStatus: the load ...
LoadHead(t) ==
    /\ ins[t].pc = "probe" /\ ins[t].block # EndOfList
    /\ ins' = [ins EXCEPT ![t].pc = "set", ![t].val = <<blocks[ins[t].block].head, FALSE>>]
    /\ UNCHANGED <<listVars, size_limit, handed, scan>>

\* A faulty variant: the bit is tested, then set.
SetBusyAlways(t) ==
    /\ ins[t].pc = "set"
    /\ blocks' = [blocks EXCEPT ![ins[t].block].busy = TRUE]
    /\ InsertFrom(t, "allocate")
    /\ UNCHANGED <<insertion_head, header_latch, size_limit, handed, scan>>

\* ... and the compare-and-swap; a block that somebody inserts into is passed by.
SetBusy(t) ==
    /\ ins[t].pc = "set"
    /\ LET b == ins[t].block
       IN IF Word(b) = ins[t].val
          THEN blocks' = [blocks EXCEPT ![b].busy = TRUE] /\ InsertFrom(t, "allocate")
          ELSE ins' = [ins EXCEPT ![t].pc = "probe", ![t].block = NextBlock(b)] /\ UNCHANGED blocks
    /\ UNCHANGED <<insertion_head, header_latch, size_limit, handed, scan>>

\* Allocate: the insert head is read; the block may be full.
AllocateRead(t) ==
    /\ ins[t].pc = "allocate"
    /\ LET head == blocks[ins[t].block].head
       IN ins' = [ins EXCEPT ![t].pc = IF head = NumSlots THEN "clear_full" ELSE "flip", ![t].val = <<head, TRUE>>]
    /\ UNCHANGED <<listVars, size_limit, handed, scan>>

\* Flip, whose result only an assertion looks at.
AllocateFlip(t) ==
    /\ ins[t].pc = "flip"
    /\ LET pos == ins[t].val[1]
       IN /\ blocks' = [blocks EXCEPT ![ins[t].block].alloc = @ \cup {pos}]
          /\ HandOut(t, <<ins[t].block, pos>>)
    /\ InsertFrom(t, "bump")
    /\ UNCHANGED <<insertion_head, header_latch, size_limit, scan>>

AllocateBump(t) ==
    /\ ins[t].pc = "bump"
    /\ blocks' = [blocks EXCEPT ![ins[t].block].head = @ + 1]
    /\ InsertFrom(t, "clear")
    /\ UNCHANGED <<insertion_head, header_latch, size_limit, handed, scan>>

\* ClearBlockBusyStatus: load, then compare-and-swap; a failure is not looked at.
ClearLoad(t) ==
    /\ ins[t].pc \in {"clear", "clear_full"}
    /\ ins' = [ins EXCEPT ![t].pc = IF @ = "clear" THEN "clear_cas" ELSE "clear_full_cas",
                          ![t].val = Word(ins[t].block)]
    /\ UNCHANGED <<listVars, size_limit, handed, scan>>

\* With its slot the insert goes on alone (InsertInto, in DataTable).
ClearBusy(t) ==
    /\ ins[t].pc \in {"clear_cas", "clear_full_cas"}
    /\ blocks' = IF Word(ins[t].block) = ins[t].val THEN [blocks EXCEPT ![ins[t].block].busy = FALSE] ELSE blocks
    /\ InsertFrom(t, IF ins[t].pc = "clear_cas" THEN "idle" ELSE "move")
    /\ UNCHANGED <<insertion_head, header_latch, size_limit, handed, scan>>

HeadAfter(t) == IF ins[t].block = insertion_head THEN NextBlock(insertion_head) ELSE insertion_head

\* CheckMoveHead, under header_latch_, for a block found full.
MoveHead(t) ==
    /\ ins[t].pc = "move" /\ header_latch = EndOfList
    /\ insertion_head' = HeadAfter(t)
    /\ IF HeadAfter(t) = EndOfList
       THEN InsertFrom(t, "push") /\ header_latch' = t
       ELSE ins' = [ins EXCEPT ![t].pc = "probe", ![t].block = NextBlock(@)] /\ UNCHANGED header_latch
    /\ UNCHANGED <<blocks, size_limit, handed, scan>>

\* No block is left behind the head: a new one, to which the head is set.  If
\* the block store throws, the latch is released and the head stays at the end.
PushHead(t) ==
    /\ ins[t].pc = "push"
    /\ header_latch' = EndOfList
    /\ IF Len(blocks) < size_limit
       THEN /\ blocks' = Append(blocks, NewBlock({}, FALSE))
            /\ insertion_head' = Len(blocks) + 1
            /\ ins' = [ins EXCEPT ![t].pc = "probe", ![t].block = @ + 1]
       ELSE /\ InsertFrom(t, "idle")
            /\ UNCHANGED <<blocks, insertion_head>>
    /\ UNCHANGED <<size_limit, handed, scan>>

\* ObjectPool::SetSizeLimit on the block store, through the settings.
SetSizeLimit ==
    /\ size_limit # SizeLimitMax
    /\ size_limit' = SizeLimitMax
    /\ UNCHANGED <<listVars, ins, handed, scan>>

-----------------------------------------------------------------------------
(* Scan, one slot at a time; blocks_latch_ makes each access to the list   *)
(* atomic.                                                                 *)

insertVars == <<listVars, size_limit, ins, handed>>

\* end(): the next slot of the last block, or nothing if that block is full.
EndSlot ==
    LET last == Len(blocks)
    IN IF blocks[last].head = NumSlots THEN [block |-> EndOfList, off |-> 0]
       ELSE [block |-> last, off |-> blocks[last].head]

\* The slots of the inserts that have returned.
Returned == {h[3] : h \in {g \in handed : ins[g[1]].pc = "idle" \/ ins[g[1]].todo # g[2]}}

ScanBegin ==
    /\ scan.pc = "idle"
    /\ scan' = [scan EXCEPT !.pc = "test", !.due = Returned]
    /\ UNCHANGED insertVars

\* A faulty variant: a scan ends where the insertion head is.
ScanTestHead ==
    /\ scan.pc = "test"
    /\ scan' = [scan EXCEPT !.pc =
                   IF scan.it = EndSlot \/ scan.it.block = insertion_head THEN "done"
                   ELSE IF scan.it.block = EndOfList THEN "null" ELSE "select"]
    /\ UNCHANGED insertVars

\* *start_pos != end(); a slot without a block would be dereferenced next.
ScanTest ==
    /\ scan.pc = "test"
    /\ scan' = [scan EXCEPT !.pc = IF scan.it = EndSlot THEN "done"
                                   ELSE IF scan.it.block = EndOfList THEN "null" ELSE "select"]
    /\ UNCHANGED insertVars

\* Select on the slot (Visible tests the allocation bitmap), and operator++.
ScanSelect ==
    /\ scan.pc = "select"
    /\ LET it == scan.it
       IN scan' = [scan EXCEPT !.pc = "test",
                      !.seen = IF it.off \in blocks[it.block].alloc THEN @ \cup {<<it.block, it.off>>} ELSE @,
                      !.it = IF it.off = NumSlots - 1 THEN [block |-> NextBlock(it.block), off |-> 0]
                             ELSE [it EXCEPT !.off = @ + 1]]
    /\ UNCHANGED insertVars

-----------------------------------------------------------------------------
InsertStep(t) ==
    \/ InsertNewBlock(t) \/ LoadHead(t) \/ SetBusy(t)
    \/ AllocateRead(t) \/ AllocateFlip(t) \/ AllocateBump(t)
    \/ ClearLoad(t) \/ ClearBusy(t) \/ MoveHead(t) \/ PushHead(t)

ScanStep == ScanBegin \/ ScanTest \/ ScanSelect

InsertsDone ==
    /\ \A t \in Inserters : ins[t].pc = "idle" /\ ins[t].todo = 0
    /\ scan.pc \in {"done", "null"}
    /\ UNCHANGED biVars

BINext ==
    \/ \E t \in Inserters : InsertWalk(t) \/ InsertStep(t)
    \/ SetSizeLimit \/ ScanStep \/ InsertsDone

BISpec == BIInit /\ [][BINext]_biVars

-----------------------------------------------------------------------------
(* Properties.                                                             *)

BITypeOK ==
    /\ \A b \in DOMAIN blocks : /\ blocks[b].head \in 0 .. NumSlots
                                /\ blocks[b].alloc \subseteq 0 .. NumSlots - 1
    /\ insertion_head \in 0 .. Len(blocks)
    /\ header_latch \in Inserters \cup {EndOfList}
    /\ \A t \in Inserters : ins[t].block \in 0 .. Len(blocks)

\* A slot is handed to one insert ("Different threads cannot insert into the
\* same block at the same time", tuple_access_strategy.cpp:53).
SlotHandedOnce == \A g, h \in handed : g[3] = h[3] => g = h

\* A thread that is between setting and clearing the busy bit is alone on the block, so
\* that the assertion of ClearBlockBusyStatus holds (tuple_access_strategy.h:265).
BusyExclusive ==
    LET holds(t) == ins[t].pc \in {"allocate", "flip", "bump", "clear", "clear_full", "clear_cas", "clear_full_cas"}
    IN \A t \in Inserters : holds(t) =>
           /\ blocks[ins[t].block].busy
           /\ \A u \in Inserters \ {t} : holds(u) => ins[u].block # ins[t].block

\* "Insertion header points to the first block that has free tuple slots"
\* (data_table.cpp:159), so no block with a free slot lies before it.
HeadSkipsNothing ==
    insertion_head # EndOfList => \A b \in 1 .. insertion_head - 1 : blocks[b].head = NumSlots

\* "If there are no more free blocks, create a new empty block and point the
\* insertion_head to it" (data_table.cpp:141): outside of CheckMoveHead, the head is a block.
HeadIsABlock == header_latch = EndOfList => insertion_head # EndOfList

\* A scan that returns has seen every slot whose insert returned before the scan
\* began, also when blocks are added meanwhile (data_table.cpp:74).
ScanComplete == scan.pc = "done" => scan.due \subseteq scan.seen

\* "The tuples materialized are guaranteed to be visible and valid"
\* (data_table.h:147): no slot without a block is dereferenced.
ScanNeverNull == scan.pc # "null"

\* Every insert gets a slot, or the block store's exception, however busy the
\* blocks are (data_table.cpp:170).
InsertsReturn == \A t \in Inserters : ins[t].pc # "idle" ~> ins[t].pc = "idle"
=============================================================================
