-------------------------- MODULE BlockInsertProofs --------------------------
(***************************************************************************)
(* Proofs about BlockInsert, for any number of inserting threads, inserts, *)
(* slots per block and blocks, in builds that evaluate assertions: a slot  *)
(* is handed to one insert, the busy bit is a lock, and a scan sees every  *)
(* slot that was handed out before it began.                               *)
(***************************************************************************)
EXTENDS BlockInsert, FiniteSetTheorems, TLAPS

USE ZenonT(30)

Offsets == 0 .. NumSlots - 1
Block == [head : 0 .. NumSlots, busy : BOOLEAN, alloc : SUBSET Offsets]
Holding == {"allocate", "flip", "bump", "clear", "clear_full", "clear_cas", "clear_full_cas"}
AtBlock == Holding \cup {"set", "move", "push"}
InsertLabels == AtBlock \cup {"idle", "probe"}

Thread == [pc : InsertLabels, block : Nat, val : (0 .. NumSlots) \X BOOLEAN, todo : Nat]

\* The types of the list and of the inserting threads.
ListType ==
    /\ blocks \in Seq(Block) /\ Len(blocks) > 0
    /\ insertion_head \in 0 .. Len(blocks)
    /\ header_latch \in Inserters \cup {EndOfList}
    /\ ins \in [Inserters -> Thread]
    /\ \A t \in Inserters : /\ ins[t].block <= Len(blocks)
                            /\ ins[t].pc \in AtBlock => ins[t].block > 0

\* The busy bit is a lock: who is past setting it has it, and is alone on the block.  The
\* compare-and-swap expects a clear bit, and the head that an insert has read is still
\* the head of the block.
BusyInv ==
    /\ \A t \in Inserters : ins[t].pc \in Holding => blocks[ins[t].block].busy
    /\ \A t, u \in Inserters :
          t # u /\ ins[t].pc \in Holding /\ ins[u].pc \in Holding => ins[t].block # ins[u].block
    /\ \A t \in Inserters : ins[t].pc = "set" => ins[t].val[2] = FALSE
    /\ \A t \in Inserters : ins[t].pc \in {"flip", "bump"} =>
          ins[t].val[1] = blocks[ins[t].block].head /\ ins[t].val[1] < NumSlots

\* The slot of h is the one that its insert has marked and not yet counted.
Uncounted(h) ==
    /\ ins[h[1]].pc = "bump" /\ ins[h[1]].todo = h[2]
    /\ h[3] = <<ins[h[1]].block, ins[h[1]].val[1]>>

\* The slot of h is marked in the bitmap and lies below the insert head, or will.
Placed(h) ==
    /\ h[3][1] \in 1 .. Len(blocks) /\ h[3][2] \in blocks[h[3][1]].alloc
    /\ h[3][2] < blocks[h[3][1]].head \/ Uncounted(h)

\* Slots that were handed out are marked in the bitmap and lie below the insert head, and
\* there is one insert for each.
HandedInv ==
    /\ handed \subseteq Inserters \X Nat \X (Nat \X Nat)
    /\ \A h \in handed : Placed(h)
    /\ SlotHandedOnce

\* The iterator has passed the slot s.
Passed(it, s) == it.block = EndOfList \/ s[1] < it.block \/ (s[1] = it.block /\ s[2] < it.off)

ScanLabels == {"idle", "test", "select", "done", "null"}

\* What a scan has to see lies below the insert heads, and what the iterator has passed of
\* it was seen.
ScanInv ==
    /\ scan \in [pc : ScanLabels, it : [block : Nat, off : Offsets],
                 due : SUBSET (Nat \X Nat), seen : SUBSET (Nat \X Nat)]
    /\ scan.it.block <= Len(blocks)
    /\ scan.pc = "idle" => scan.it = BeginSlot
    /\ scan.pc = "select" => scan.it.block # EndOfList
    /\ \A s \in scan.due :
          /\ s[1] \in 1 .. Len(blocks) /\ s[2] < blocks[s[1]].head /\ s[2] \in blocks[s[1]].alloc
          /\ Passed(scan.it, s) => s \in scan.seen
    /\ ScanComplete

BIInv == ListType /\ BusyInv /\ HandedInv /\ ScanInv

-----------------------------------------------------------------------------
(* What steps do to the list.                                              *)

\* Blocks are added at the end only, insert heads only advance, and no slot is unmarked.
ListGrows ==
    /\ Len(blocks) <= Len(blocks')
    /\ \A b \in 1 .. Len(blocks) : blocks[b].head <= blocks'[b].head /\ blocks[b].alloc \subseteq blocks'[b].alloc

\* One block changes.
LEMMA UpdateBlock ==
    ASSUME blocks \in Seq(Block), NEW b \in 1 .. Len(blocks), NEW x \in Block,
           blocks' = [blocks EXCEPT ![b] = x]
    PROVE  /\ blocks' \in Seq(Block) /\ Len(blocks') = Len(blocks)
           /\ blocks'[b] = x
           /\ \A c \in 1 .. Len(blocks) : c # b => blocks'[c] = blocks[c]
  BY SMTT(30)

\* A block is added.
LEMMA AddBlock ==
    ASSUME blocks \in Seq(Block), NEW x \in Block, blocks' = Append(blocks, x)
    PROVE  /\ blocks' \in Seq(Block) /\ Len(blocks') = Len(blocks) + 1
           /\ blocks'[Len(blocks) + 1] = x
           /\ \A c \in 1 .. Len(blocks) : blocks'[c] = blocks[c]
  BY SMTT(30)

\* What is in the list.
LEMMA BlockTypes ==
    ASSUME NEW l \in Seq(Block)
    PROVE  /\ Len(l) \in Nat
           /\ \A b \in 1 .. Len(l) :
                 /\ l[b] \in Block
                 /\ l[b].head \in Nat /\ l[b].head <= NumSlots
                 /\ l[b].alloc \subseteq Offsets /\ l[b].busy \in BOOLEAN
<1>1. \A b \in 1 .. Len(l) : l[b] \in Block
  BY SMTT(30)
<1> QED
  BY <1>1, BIAssumption, SMTT(30) DEF Block

\* The blocks that are added.
LEMMA NewBlocks ==
    /\ NewBlock({}, FALSE) = [head |-> 0, busy |-> FALSE, alloc |-> {}]
    /\ NewBlock({0}, TRUE) = [head |-> 1, busy |-> TRUE, alloc |-> {0}]
    /\ NewBlock({}, FALSE) \in Block /\ NewBlock({0}, TRUE) \in Block
<1>1. Cardinality({}) = 0
  BY FS_EmptySet
<1>2. Cardinality({0}) = 1
  BY FS_Singleton
<1>3. NewBlock({}, FALSE) = [head |-> 0, busy |-> FALSE, alloc |-> {}]
  BY <1>1 DEF NewBlock
<1>4. NewBlock({0}, TRUE) = [head |-> 1, busy |-> TRUE, alloc |-> {0}]
  BY <1>2 DEF NewBlock
<1>5. 0 \in 0 .. NumSlots /\ 1 \in 0 .. NumSlots /\ {} \in SUBSET Offsets /\ {0} \in SUBSET Offsets
  BY BIAssumption, SMTT(30) DEF Offsets
<1>6. NewBlock({}, FALSE) \in Block
  BY <1>1, <1>5 DEF NewBlock, Block
<1>7. NewBlock({0}, TRUE) \in Block
  BY <1>2, <1>5 DEF NewBlock, Block
<1> QED
  BY <1>3, <1>4, <1>6, <1>7

\* What a scan has seen and has to see is not disturbed by inserts.
LEMMA ScanUndisturbed ==
    ASSUME ListType, ScanInv, ListGrows, scan' = scan, ListType'
    PROVE  ScanInv'
<1>1. /\ Len(blocks) \in Nat /\ \A b \in 1 .. Len(blocks) : blocks[b].head \in Nat
      /\ Len(blocks') \in Nat /\ \A b \in 1 .. Len(blocks') : blocks'[b].head \in Nat
  BY BlockTypes DEF ListType
<1>3. ASSUME NEW s \in scan.due
      PROVE  s[1] \in 1 .. Len(blocks') /\ s[2] < blocks'[s[1]].head /\ s[2] \in blocks'[s[1]].alloc
  <2>1. s[1] \in 1 .. Len(blocks) /\ s[2] < blocks[s[1]].head /\ s[2] \in blocks[s[1]].alloc /\ s[2] \in Nat
    BY DEF ScanInv
  <2> QED
    BY <1>1, <2>1, SMTT(30) DEF ListGrows
<1> QED
  BY <1>1, <1>3, SMTT(30) DEF ScanInv, ListGrows, Passed, ScanComplete

\* A step of a thread that does not count a slot leaves the slots that were handed out.
LEMMA HandedUndisturbed ==
    ASSUME ListType, HandedInv, ListGrows, ListType', handed' = handed,
           NEW t \in Inserters, ins[t].pc # "bump",
           \A u \in Inserters : u # t => ins'[u] = ins[u]
    PROVE  HandedInv'
<1>1. /\ Len(blocks) \in Nat /\ \A b \in 1 .. Len(blocks) : blocks[b].head \in Nat
      /\ Len(blocks') \in Nat /\ \A b \in 1 .. Len(blocks') : blocks'[b].head \in Nat
  BY BlockTypes DEF ListType
<1>2. \A h \in handed : Uncounted(h) => Uncounted(h)'
  BY DEF Uncounted, HandedInv, Placed
<1>4. ASSUME NEW h \in handed
      PROVE  /\ h[3][1] \in 1 .. Len(blocks')
             /\ h[3][2] \in blocks'[h[3][1]].alloc
             /\ h[3][2] < blocks'[h[3][1]].head \/ Uncounted(h)'
  <2>1. h[3][1] \in 1 .. Len(blocks) /\ h[3][2] \in Nat
    BY DEF HandedInv, Placed
  <2> QED
    BY <1>1, <1>2, <2>1, SMTT(30) DEF HandedInv, Placed, ListGrows
<1> QED
  BY <1>4 DEF HandedInv, Placed, SlotHandedOnce

\* One thread moves.
LEMMA ThreadMoves ==
    ASSUME ins \in [Inserters -> Thread], NEW t \in Inserters, NEW r \in Thread,
           ins' = [ins EXCEPT ![t] = r]
    PROVE  /\ ins' \in [Inserters -> Thread] /\ ins'[t] = r
           /\ \A u \in Inserters : u # t => ins'[u] = ins[u]
  OBVIOUS

-----------------------------------------------------------------------------
(* The steps of an insert.                                                 *)

\* A step that leaves the blocks alone; r is what the thread has afterwards.
LEMMA LocalStep ==
    ASSUME BIInv, NEW t \in Inserters, NEW r \in Thread,
           blocks' = blocks, handed' = handed, scan' = scan,
           insertion_head' \in 0 .. Len(blocks), header_latch' \in Inserters \cup {EndOfList},
           ins' = [ins EXCEPT ![t] = r], ins[t].pc # "bump",
           r.block <= Len(blocks), r.pc \in AtBlock => r.block > 0,
           r.pc \in Holding => ins[t].pc \in Holding /\ r.block = ins[t].block,
           r.pc = "set" => r.val[2] = FALSE,
           r.pc \in {"flip", "bump"} => r.val[1] = blocks[r.block].head /\ r.val[1] < NumSlots
    PROVE  BIInv'
<1>1. /\ ins' \in [Inserters -> Thread] /\ ins'[t] = r
      /\ \A u \in Inserters : u # t => ins'[u] = ins[u]
  BY ThreadMoves DEF BIInv, ListType
<1>2. ListType'
  BY <1>1 DEF BIInv, ListType
<1>3. BusyInv'
  BY <1>1, SMTT(30) DEF BIInv, BusyInv
<1>4. ListGrows
  BY BlockTypes, SMTT(30) DEF BIInv, ListType, ListGrows
<1> QED
  BY <1>1, <1>2, <1>3, <1>4, HandedUndisturbed, ScanUndisturbed DEF BIInv

\* What LocalStep needs to know about the thread.
LEMMA ThreadTypes ==
    ASSUME BIInv, NEW t \in Inserters
    PROVE  /\ ins[t] \in Thread /\ ins[t].block \in Nat /\ ins[t].block <= Len(blocks)
           /\ ins[t].pc \in AtBlock => ins[t].block \in 1 .. Len(blocks) /\ blocks[ins[t].block] \in Block
           /\ Len(blocks) \in Nat \ {0} /\ insertion_head \in 0 .. Len(blocks)
<1>1. ins[t] \in Thread /\ ins[t].block \in Nat
  BY DEF BIInv, ListType, Thread
<1>2. Len(blocks) \in Nat \ {0} /\ \A b \in 1 .. Len(blocks) : blocks[b] \in Block
  BY BlockTypes, SMTT(30) DEF BIInv, ListType
<1> QED
  BY <1>1, <1>2, SMTT(30) DEF BIInv, ListType

\* InsertWalk reads the insertion head.
LEMMA InsertWalkInv == ASSUME BIInv, NEW t \in Inserters, InsertWalk(t) PROVE BIInv'
<1> DEFINE r == [ins[t] EXCEPT !.pc = "probe", !.todo = @ - 1, !.block = insertion_head]
<1>1. ins[t] \in Thread /\ insertion_head \in 0 .. Len(blocks) /\ Len(blocks) \in Nat
  BY ThreadTypes
<1>2. r \in Thread /\ r.pc = "probe" /\ r.block = insertion_head
  <2>1. ins[t].todo \in Nat /\ ins[t].todo - 1 \in Nat /\ insertion_head \in Nat /\ "probe" \in InsertLabels
    BY <1>1, SMTT(30) DEF InsertWalk, Thread, InsertLabels
  <2> QED
    BY <1>1, <2>1 DEF Thread
<1>3. ins' = [ins EXCEPT ![t] = r] /\ ins[t].pc # "bump"
  BY DEF InsertWalk
<1>4. /\ blocks' = blocks /\ handed' = handed /\ scan' = scan
      /\ insertion_head' \in 0 .. Len(blocks) /\ header_latch' \in Inserters \cup {EndOfList}
  BY <1>1 DEF InsertWalk, listVars, BIInv, ListType
<1>5. /\ r.block <= Len(blocks) /\ (r.pc \in AtBlock => r.block > 0)
      /\ r.pc \in Holding => ins[t].pc \in Holding /\ r.block = ins[t].block
      /\ r.pc = "set" => r.val[2] = FALSE
      /\ r.pc \in {"flip", "bump"} => r.val[1] = blocks[r.block].head /\ r.val[1] < NumSlots
  BY <1>1, <1>2, SMTT(30) DEF AtBlock, Holding
<1> HIDE DEF r
<1> QED
  BY <1>2, <1>3, <1>4, <1>5, LocalStep

\* LoadHead reads the insert head of a block and expects its busy bit to be clear.
LEMMA LoadHeadInv == ASSUME BIInv, NEW t \in Inserters, LoadHead(t) PROVE BIInv'
<1> DEFINE r == [ins[t] EXCEPT !.pc = "set", !.val = <<blocks[ins[t].block].head, FALSE>>]
<1>1. ins[t] \in Thread /\ ins[t].block \in 1 .. Len(blocks)
  BY ThreadTypes, SMTT(30) DEF LoadHead, EndOfList
<1>2. blocks[ins[t].block].head \in 0 .. NumSlots
  BY <1>1, BlockTypes, SMTT(30) DEF BIInv, ListType
<1>3. r \in Thread /\ r.pc = "set" /\ r.block = ins[t].block /\ r.val[2] = FALSE
  BY <1>1, <1>2 DEF Thread, InsertLabels, AtBlock
<1>4. ins' = [ins EXCEPT ![t] = r] /\ ins[t].pc # "bump"
  BY DEF LoadHead
<1>5. /\ blocks' = blocks /\ handed' = handed /\ scan' = scan
      /\ insertion_head' \in 0 .. Len(blocks) /\ header_latch' \in Inserters \cup {EndOfList}
  BY DEF LoadHead, listVars, BIInv, ListType
<1>6. /\ r.block <= Len(blocks) /\ (r.pc \in AtBlock => r.block > 0)
      /\ r.pc \in Holding => ins[t].pc \in Holding /\ r.block = ins[t].block
      /\ r.pc = "set" => r.val[2] = FALSE
      /\ r.pc \in {"flip", "bump"} => r.val[1] = blocks[r.block].head /\ r.val[1] < NumSlots
  BY <1>1, <1>3, SMTT(30) DEF AtBlock, Holding
<1> HIDE DEF r
<1> QED
  BY <1>1, <1>3, <1>4, <1>5, <1>6, LocalStep

\* AllocateRead finds the block full, or the slot that it will mark.
LEMMA AllocateReadInv == ASSUME BIInv, NEW t \in Inserters, AllocateRead(t) PROVE BIInv'
<1> DEFINE h == blocks[ins[t].block].head
           k == IF h = NumSlots THEN "clear_full" ELSE "flip"
           r == [ins[t] EXCEPT !.pc = k, !.val = <<h, TRUE>>]
<1>1. ins[t] \in Thread /\ ins[t].pc = "allocate" /\ ins[t].block \in 1 .. Len(blocks)
  BY ThreadTypes DEF AllocateRead, AtBlock, Holding
<1>2. h \in 0 .. NumSlots /\ k \in {"clear_full", "flip"} /\ (k = "flip" => h < NumSlots)
  BY <1>1, BlockTypes, BIAssumption, SMTT(30) DEF BIInv, ListType
<1>3. /\ r \in Thread /\ r.pc \in {"clear_full", "flip"} /\ r.block = ins[t].block
      /\ r.pc = "flip" => r.val[1] = h /\ h < NumSlots
  <2> HIDE DEF h, k
  <2> QED
    BY <1>1, <1>2 DEF Thread, InsertLabels, AtBlock, Holding
<1>4. ins' = [ins EXCEPT ![t] = r]
  BY DEF AllocateRead
<1>5. /\ blocks' = blocks /\ handed' = handed /\ scan' = scan
      /\ insertion_head' \in 0 .. Len(blocks) /\ header_latch' \in Inserters \cup {EndOfList}
  BY DEF AllocateRead, listVars, BIInv, ListType
<1>6. /\ r.block <= Len(blocks) /\ (r.pc \in AtBlock => r.block > 0)
      /\ r.pc \in Holding => ins[t].pc \in Holding /\ r.block = ins[t].block
      /\ r.pc = "set" => r.val[2] = FALSE
      /\ r.pc \in {"flip", "bump"} => r.val[1] = blocks[r.block].head /\ r.val[1] < NumSlots
  BY <1>1, <1>3, SMTT(30) DEF AtBlock, Holding
<1> HIDE DEF r
<1> QED
  BY <1>1, <1>3, <1>4, <1>5, <1>6, LocalStep

\* ClearLoad reads the word that ClearBusy expects.
LEMMA ClearLoadInv == ASSUME BIInv, NEW t \in Inserters, ClearLoad(t) PROVE BIInv'
<1> DEFINE r == [ins[t] EXCEPT !.pc = IF @ = "clear" THEN "clear_cas" ELSE "clear_full_cas",
                               !.val = Word(ins[t].block)]
<1>1. /\ ins[t] \in Thread /\ ins[t].pc \in {"clear", "clear_full"}
      /\ ins[t].block \in 1 .. Len(blocks)
  BY ThreadTypes DEF ClearLoad, AtBlock, Holding
<1>2. Word(ins[t].block) \in (0 .. NumSlots) \X BOOLEAN
  BY <1>1, BlockTypes, SMTT(30) DEF BIInv, ListType, Word
<1>3. r \in Thread /\ r.pc \in {"clear_cas", "clear_full_cas"} /\ r.block = ins[t].block
  BY <1>1, <1>2 DEF Thread, InsertLabels, AtBlock, Holding
<1>4. ins' = [ins EXCEPT ![t] = r]
  BY DEF ClearLoad
<1>5. /\ blocks' = blocks /\ handed' = handed /\ scan' = scan
      /\ insertion_head' \in 0 .. Len(blocks) /\ header_latch' \in Inserters \cup {EndOfList}
  BY DEF ClearLoad, listVars, BIInv, ListType
<1>6. /\ r.block <= Len(blocks) /\ (r.pc \in AtBlock => r.block > 0)
      /\ r.pc \in Holding => ins[t].pc \in Holding /\ r.block = ins[t].block
      /\ r.pc = "set" => r.val[2] = FALSE
      /\ r.pc \in {"flip", "bump"} => r.val[1] = blocks[r.block].head /\ r.val[1] < NumSlots
  BY <1>1, <1>3, SMTT(30) DEF AtBlock, Holding
<1> HIDE DEF r
<1> QED
  BY <1>1, <1>3, <1>4, <1>5, <1>6, LocalStep

\* A step that changes the block b at which the thread is, and nobody else has.
LEMMA BlockStep ==
    ASSUME BIInv, NEW t \in Inserters, NEW b \in 1 .. Len(blocks),
           blocks' \in Seq(Block), Len(blocks') = Len(blocks),
           \A c \in 1 .. Len(blocks) : c # b => blocks'[c] = blocks[c],
           blocks[b].head <= blocks'[b].head, blocks[b].alloc \subseteq blocks'[b].alloc,
           insertion_head' = insertion_head, header_latch' = header_latch,
           ins' \in [Inserters -> Thread], \A u \in Inserters : u # t => ins'[u] = ins[u],
           \A u \in Inserters : u # t /\ ins[u].pc \in Holding => ins[u].block # b,
           ins'[t].block = b, ins'[t].pc # "set",
           ins'[t].pc \in Holding => blocks'[b].busy,
           ins'[t].pc \in {"flip", "bump"} => ins'[t].val[1] = blocks'[b].head /\ ins'[t].val[1] < NumSlots
    PROVE  ListType' /\ ListGrows /\ BusyInv'
<1>1. Len(blocks) \in Nat
  BY ThreadTypes
<1>2. ListType'
  BY <1>1, SMTT(30) DEF BIInv, ListType
<1>3. ListGrows
  BY <1>1, BlockTypes, SMTT(30) DEF ListGrows, BIInv, ListType
<1>4. ASSUME NEW u \in Inserters, u # t, ins[u].pc \in Holding
      PROVE  blocks'[ins[u].block] = blocks[ins[u].block]
  <2>1. ins[u].block \in 1 .. Len(blocks)
    BY <1>4, ThreadTypes DEF AtBlock
  <2> QED
    BY <1>4, <2>1
<1>5. \A u \in Inserters : ins'[u].pc \in Holding => blocks'[ins'[u].block].busy
  BY <1>4, SMTT(30) DEF BIInv, BusyInv
<1>6. \A u, v \in Inserters :
         u # v /\ ins'[u].pc \in Holding /\ ins'[v].pc \in Holding => ins'[u].block # ins'[v].block
  BY SMTT(30) DEF BIInv, BusyInv
<1>7. \A u \in Inserters : ins'[u].pc = "set" => ins'[u].val[2] = FALSE
  BY SMTT(30) DEF BIInv, BusyInv
<1>8. \A u \in Inserters : ins'[u].pc \in {"flip", "bump"} =>
          ins'[u].val[1] = blocks'[ins'[u].block].head /\ ins'[u].val[1] < NumSlots
  BY <1>4, SMTT(30) DEF BIInv, BusyInv, Holding
<1>9. BusyInv'
  BY <1>5, <1>6, <1>7, <1>8 DEF BusyInv
<1> QED
  BY <1>2, <1>3, <1>9

\* SetBusy takes the lock of a block that nobody has, or goes on to the next block.
LEMMA SetBusyInv == ASSUME BIInv, NEW t \in Inserters, SetBusy(t) PROVE BIInv'
<1> DEFINE b == ins[t].block
<1>1. /\ ins[t] \in Thread /\ ins[t].pc = "set" /\ b \in 1 .. Len(blocks)
      /\ blocks[b] \in Block /\ Len(blocks) \in Nat
  BY ThreadTypes DEF SetBusy, AtBlock
<1>2. CASE Word(b) = ins[t].val
  <2> DEFINE r == [ins[t] EXCEPT !.pc = "allocate"]
             x == [blocks[b] EXCEPT !.busy = TRUE]
  <2>1. blocks[b].busy = FALSE
    <3>1. Word(b)[2] = blocks[b].busy
      BY DEF Word
    <3>2. ins[t].val[2] = FALSE
      BY <1>1 DEF BIInv, BusyInv
    <3> QED
      BY <1>2, <3>1, <3>2
  <2>2. x \in Block /\ x.busy = TRUE /\ x.head = blocks[b].head /\ x.alloc = blocks[b].alloc
    BY <1>1 DEF Block
  <2>3. r \in Thread /\ r.pc = "allocate" /\ r.block = b
    BY <1>1 DEF Thread, InsertLabels, AtBlock, Holding
  <2>4. blocks' = [blocks EXCEPT ![b] = x] /\ ins' = [ins EXCEPT ![t] = r]
    BY <1>2 DEF SetBusy, InsertFrom
  <2>5. insertion_head' = insertion_head /\ header_latch' = header_latch /\ handed' = handed /\ scan' = scan
    BY DEF SetBusy
  <2> HIDE DEF r, x
  <2>6. \A u \in Inserters : u # t /\ ins[u].pc \in Holding => ins[u].block # b
    BY <2>1 DEF BIInv, BusyInv
  <2>7. /\ blocks' \in Seq(Block) /\ Len(blocks') = Len(blocks)
        /\ blocks'[b] = x /\ \A c \in 1 .. Len(blocks) : c # b => blocks'[c] = blocks[c]
    BY <1>1, <2>2, <2>4, UpdateBlock DEF BIInv, ListType
  <2>8. /\ ins' \in [Inserters -> Thread] /\ ins'[t] = r
        /\ \A u \in Inserters : u # t => ins'[u] = ins[u]
    BY <2>3, <2>4, ThreadMoves DEF BIInv, ListType
  <2>9. blocks[b].head <= blocks'[b].head /\ blocks[b].alloc \subseteq blocks'[b].alloc
    BY <1>1, <2>2, <2>7, BIAssumption, SMTT(30) DEF Block
  <2>10. ListType' /\ ListGrows /\ BusyInv'
    BY <1>1, <2>2, <2>3, <2>5, <2>6, <2>7, <2>8, <2>9, BlockStep
  <2> QED
    BY <1>1, <2>5, <2>8, <2>10, HandedUndisturbed, ScanUndisturbed DEF BIInv
<1>3. CASE Word(b) # ins[t].val
  <2> DEFINE r == [ins[t] EXCEPT !.pc = "probe", !.block = NextBlock(b)]
  <2>1. NextBlock(b) \in Nat /\ NextBlock(b) <= Len(blocks) /\ "probe" \in InsertLabels
    BY <1>1, SMTT(30) DEF NextBlock, EndOfList, InsertLabels
  <2>2. r \in Thread /\ r.pc = "probe" /\ r.block = NextBlock(b)
    BY <1>1, <2>1 DEF Thread
  <2>3. ins' = [ins EXCEPT ![t] = r] /\ ins[t].pc # "bump"
    BY <1>3, <1>1 DEF SetBusy
  <2>4. /\ blocks' = blocks /\ handed' = handed /\ scan' = scan
        /\ insertion_head' \in 0 .. Len(blocks) /\ header_latch' \in Inserters \cup {EndOfList}
    BY <1>3 DEF SetBusy, BIInv, ListType
  <2>5. /\ r.block <= Len(blocks) /\ (r.pc \in AtBlock => r.block > 0)
        /\ r.pc \in Holding => ins[t].pc \in Holding /\ r.block = ins[t].block
        /\ r.pc = "set" => r.val[2] = FALSE
        /\ r.pc \in {"flip", "bump"} => r.val[1] = blocks[r.block].head /\ r.val[1] < NumSlots
    BY <1>1, <2>1, <2>2 DEF AtBlock, Holding
  <2> HIDE DEF r
  <2> QED
    BY <2>2, <2>3, <2>4, <2>5, LocalStep
<1> QED
  BY <1>2, <1>3

\* AllocateFlip hands out the slot at the insert head, which nobody has.
LEMMA AllocateFlipInv == ASSUME BIInv, NEW t \in Inserters, AllocateFlip(t) PROVE BIInv'
<1> DEFINE b == ins[t].block
           pos == ins[t].val[1]
           new == <<t, ins[t].todo, <<b, pos>>>>
           r == [ins[t] EXCEPT !.pc = "bump"]
           x == [blocks[b] EXCEPT !.alloc = @ \cup {pos}]
<1>1. /\ ins[t] \in Thread /\ ins[t].pc = "flip" /\ b \in 1 .. Len(blocks)
      /\ blocks[b] \in Block /\ Len(blocks) \in Nat
  BY ThreadTypes DEF AllocateFlip, AtBlock, Holding
<1>2. pos = blocks[b].head /\ pos \in Nat /\ pos < NumSlots /\ ins[t].todo \in Nat
  BY <1>1, BIAssumption, SMTT(30) DEF BIInv, BusyInv, Thread
<1>3. /\ x \in Block /\ x.busy = blocks[b].busy /\ x.head = blocks[b].head
      /\ x.alloc = blocks[b].alloc \cup {pos}
  BY <1>1, <1>2, BIAssumption, SMTT(30) DEF Block, Offsets
<1>4. r \in Thread /\ r.pc = "bump" /\ r.block = b /\ r.todo = ins[t].todo /\ r.val = ins[t].val
  BY <1>1 DEF Thread, InsertLabels, AtBlock, Holding
<1>5. /\ blocks' = [blocks EXCEPT ![b] = x] /\ ins' = [ins EXCEPT ![t] = r]
      /\ handed' = handed \cup {new}
      /\ insertion_head' = insertion_head /\ header_latch' = header_latch /\ scan' = scan
  BY DEF AllocateFlip, InsertFrom, HandOut
<1> HIDE DEF r, x
<1>6. \A u \in Inserters : u # t /\ ins[u].pc \in Holding => ins[u].block # b
  BY <1>1 DEF BIInv, BusyInv, Holding
<1>7. /\ blocks' \in Seq(Block) /\ Len(blocks') = Len(blocks)
      /\ blocks'[b] = x /\ \A c \in 1 .. Len(blocks) : c # b => blocks'[c] = blocks[c]
  BY <1>1, <1>3, <1>5, UpdateBlock DEF BIInv, ListType
<1>8. /\ ins' \in [Inserters -> Thread] /\ ins'[t] = r
      /\ \A u \in Inserters : u # t => ins'[u] = ins[u]
  BY <1>4, <1>5, ThreadMoves DEF BIInv, ListType
<1>9. blocks[b].head <= blocks'[b].head /\ blocks[b].alloc \subseteq blocks'[b].alloc
  BY <1>2, <1>3, <1>7, SMTT(30)
<1>10. /\ ins'[t].block = b /\ ins'[t].pc # "set"
       /\ ins'[t].pc \in Holding => blocks'[b].busy
       /\ ins'[t].pc \in {"flip", "bump"} => ins'[t].val[1] = blocks'[b].head /\ ins'[t].val[1] < NumSlots
  BY <1>1, <1>2, <1>3, <1>4, <1>7, <1>8 DEF BIInv, BusyInv, Holding
<1>11. ListType' /\ ListGrows /\ BusyInv'
  BY <1>1, <1>5, <1>6, <1>7, <1>8, <1>9, <1>10, BlockStep, SMTT(30)
<1>12. \A h \in handed : h[3] # <<b, pos>>
  <2> SUFFICES ASSUME NEW h \in handed, h[3] = <<b, pos>> PROVE FALSE
    OBVIOUS
  <2>1. h[1] \in Inserters /\ Uncounted(h)
    BY <1>2, SMTT(30) DEF BIInv, HandedInv, Placed
  <2>2. h[1] # t /\ ins[h[1]].pc = "bump" /\ ins[h[1]].block = b
    BY <1>1, <2>1, SMTT(30) DEF Uncounted
  <2> QED
    BY <1>6, <2>1, <2>2 DEF Holding
<1>13. HandedInv'
  <2>1. handed' \subseteq Inserters \X Nat \X (Nat \X Nat)
    BY <1>1, <1>2, <1>5, SMTT(30) DEF BIInv, HandedInv, Placed
  <2>2. ASSUME NEW h, h = new PROVE Placed(h)'
    BY <1>1, <1>3, <1>4, <1>7, <1>8, <2>2 DEF Uncounted, Placed
  <2>3. ASSUME NEW h \in handed PROVE Placed(h)'
    <3>1. /\ h[3][1] \in 1 .. Len(blocks) /\ h[3][2] \in blocks[h[3][1]].alloc
          /\ h[3][2] < blocks[h[3][1]].head \/ Uncounted(h)
      BY DEF BIInv, HandedInv, Placed
    <3>2. blocks'[h[3][1]].head = blocks[h[3][1]].head /\ blocks[h[3][1]].alloc \subseteq blocks'[h[3][1]].alloc
      BY <1>3, <1>7, <3>1
    <3>3. Uncounted(h) => Uncounted(h)'
      BY <1>1, <1>8 DEF Uncounted, BIInv, HandedInv
    <3> QED
      BY <1>7, <3>1, <3>2, <3>3 DEF Placed
  <2>4. SlotHandedOnce'
    BY <1>5, <1>12, SMTT(30) DEF BIInv, HandedInv, SlotHandedOnce
  <2>5. \A h \in handed' : Placed(h)'
    BY <1>5, <2>2, <2>3
  <2> QED
    BY <2>1, <2>4, <2>5 DEF HandedInv
<1> QED
  BY <1>5, <1>11, <1>13, ScanUndisturbed DEF BIInv

\* AllocateBump counts the slot that was marked.
LEMMA AllocateBumpInv == ASSUME BIInv, NEW t \in Inserters, AllocateBump(t) PROVE BIInv'
<1> DEFINE b == ins[t].block
           r == [ins[t] EXCEPT !.pc = "clear"]
           x == [blocks[b] EXCEPT !.head = @ + 1]
<1>1. /\ ins[t] \in Thread /\ ins[t].pc = "bump" /\ b \in 1 .. Len(blocks)
      /\ blocks[b] \in Block /\ Len(blocks) \in Nat
  BY ThreadTypes DEF AllocateBump, AtBlock, Holding
<1>2. ins[t].val[1] = blocks[b].head /\ blocks[b].head \in Nat /\ blocks[b].head < NumSlots
  BY <1>1, BIAssumption, SMTT(30) DEF BIInv, BusyInv, Thread
<1>3. /\ x \in Block /\ x.busy = blocks[b].busy /\ x.head = blocks[b].head + 1
      /\ x.alloc = blocks[b].alloc
  BY <1>1, <1>2, BIAssumption, SMTT(30) DEF Block
<1>4. r \in Thread /\ r.pc = "clear" /\ r.block = b
  BY <1>1 DEF Thread, InsertLabels, AtBlock, Holding
<1>5. /\ blocks' = [blocks EXCEPT ![b] = x] /\ ins' = [ins EXCEPT ![t] = r]
      /\ insertion_head' = insertion_head /\ header_latch' = header_latch
      /\ handed' = handed /\ scan' = scan
  BY DEF AllocateBump, InsertFrom
<1> HIDE DEF r, x
<1>6. \A u \in Inserters : u # t /\ ins[u].pc \in Holding => ins[u].block # b
  BY <1>1 DEF BIInv, BusyInv, Holding
<1>7. /\ blocks' \in Seq(Block) /\ Len(blocks') = Len(blocks)
      /\ blocks'[b] = x /\ \A c \in 1 .. Len(blocks) : c # b => blocks'[c] = blocks[c]
  BY <1>1, <1>3, <1>5, UpdateBlock DEF BIInv, ListType
<1>8. /\ ins' \in [Inserters -> Thread] /\ ins'[t] = r
      /\ \A u \in Inserters : u # t => ins'[u] = ins[u]
  BY <1>4, <1>5, ThreadMoves DEF BIInv, ListType
<1>9. blocks[b].head <= blocks'[b].head /\ blocks[b].alloc \subseteq blocks'[b].alloc
  BY <1>2, <1>3, <1>7, SMTT(30)
<1>10. /\ ins'[t].block = b /\ ins'[t].pc # "set"
       /\ ins'[t].pc \in Holding => blocks'[b].busy
       /\ ins'[t].pc \in {"flip", "bump"} => ins'[t].val[1] = blocks'[b].head /\ ins'[t].val[1] < NumSlots
  BY <1>1, <1>2, <1>3, <1>4, <1>7, <1>8 DEF BIInv, BusyInv, Holding
<1>11. ListType' /\ ListGrows /\ BusyInv'
  BY <1>1, <1>5, <1>6, <1>7, <1>8, <1>9, <1>10, BlockStep, SMTT(30)
<1>12. ASSUME NEW h \in handed
       PROVE  /\ h[3][1] \in 1 .. Len(blocks')
              /\ h[3][2] \in blocks'[h[3][1]].alloc
              /\ h[3][2] < blocks'[h[3][1]].head \/ Uncounted(h)'
  <2>1. /\ h[3][1] \in 1 .. Len(blocks) /\ h[3][2] \in blocks[h[3][1]].alloc
        /\ h[3][2] < blocks[h[3][1]].head \/ Uncounted(h)
        /\ h[1] \in Inserters /\ h[3][2] \in Nat
    BY DEF BIInv, HandedInv, Placed
  <2>2. /\ blocks[h[3][1]].head \in Nat /\ blocks'[h[3][1]].head \in Nat
        /\ blocks[h[3][1]].head <= blocks'[h[3][1]].head
        /\ blocks[h[3][1]].alloc \subseteq blocks'[h[3][1]].alloc
    BY <1>7, <1>11, <2>1, BlockTypes DEF ListGrows, BIInv, ListType
  <2>3. CASE Uncounted(h) /\ h[1] = t
    BY <1>2, <1>3, <1>7, <2>1, <2>2, <2>3, SMTT(30) DEF Uncounted
  <2>4. CASE Uncounted(h) /\ h[1] # t
    BY <1>7, <1>8, <2>1, <2>2, <2>4 DEF Uncounted
  <2>5. CASE h[3][2] < blocks[h[3][1]].head
    BY <1>7, <2>1, <2>2, <2>5, SMTT(30)
  <2> QED
    BY <2>1, <2>3, <2>4, <2>5
<1>13. HandedInv'
  BY <1>5, <1>12 DEF BIInv, HandedInv, Placed, SlotHandedOnce
<1> QED
  BY <1>5, <1>11, <1>13, ScanUndisturbed DEF BIInv

\* ClearBusy gives the block back.  Nobody else can have changed its word, but a failure of
\* the compare-and-swap would do no harm here.
LEMMA ClearBusyInv == ASSUME BIInv, NEW t \in Inserters, ClearBusy(t) PROVE BIInv'
<1> DEFINE b == ins[t].block
           k == IF ins[t].pc = "clear_cas" THEN "idle" ELSE "move"
           r == [ins[t] EXCEPT !.pc = k]
           x == [blocks[b] EXCEPT !.busy = FALSE]
<1>1. /\ ins[t] \in Thread /\ ins[t].pc \in {"clear_cas", "clear_full_cas"} /\ b \in 1 .. Len(blocks)
      /\ blocks[b] \in Block /\ Len(blocks) \in Nat
  BY ThreadTypes DEF ClearBusy, AtBlock, Holding
<1>2. k \in {"idle", "move"} /\ k \in InsertLabels
  BY DEF InsertLabels, AtBlock
<1>3. r \in Thread /\ r.pc = k /\ r.block = b /\ ins' = [ins EXCEPT ![t] = r]
  <2>1. ins' = [ins EXCEPT ![t] = r]
    BY DEF ClearBusy, InsertFrom
  <2> HIDE DEF k
  <2> QED
    BY <1>1, <1>2, <2>1 DEF Thread
<1>4. x \in Block /\ x.head = blocks[b].head /\ x.alloc = blocks[b].alloc
  BY <1>1 DEF Block
<1>5. /\ insertion_head' = insertion_head /\ header_latch' = header_latch
      /\ handed' = handed /\ scan' = scan
  BY DEF ClearBusy
<1> HIDE DEF r, x, k
<1>6. CASE Word(b) = ins[t].val
  <2>1. blocks' = [blocks EXCEPT ![b] = x]
    BY <1>6 DEF ClearBusy, x
  <2>2. /\ blocks' \in Seq(Block) /\ Len(blocks') = Len(blocks)
        /\ blocks'[b] = x /\ \A c \in 1 .. Len(blocks) : c # b => blocks'[c] = blocks[c]
    BY <1>1, <1>4, <2>1, UpdateBlock DEF BIInv, ListType
  <2>3. /\ ins' \in [Inserters -> Thread] /\ ins'[t] = r
        /\ \A u \in Inserters : u # t => ins'[u] = ins[u]
    BY <1>3, ThreadMoves DEF BIInv, ListType
  <2>4. \A u \in Inserters : u # t /\ ins[u].pc \in Holding => ins[u].block # b
    BY <1>1 DEF BIInv, BusyInv, Holding
  <2>5. blocks[b].head <= blocks'[b].head /\ blocks[b].alloc \subseteq blocks'[b].alloc
    BY <1>1, <1>4, <2>2, BIAssumption, SMTT(30) DEF Block
  <2>6. /\ ins'[t].block = b /\ ins'[t].pc # "set"
        /\ ins'[t].pc \in Holding => blocks'[b].busy
        /\ ins'[t].pc \in {"flip", "bump"} => ins'[t].val[1] = blocks'[b].head /\ ins'[t].val[1] < NumSlots
    BY <1>2, <1>3, <2>3 DEF Holding
  <2>7. ListType' /\ ListGrows /\ BusyInv'
    BY <1>1, <1>5, <2>2, <2>3, <2>4, <2>5, <2>6, BlockStep
  <2> QED
    BY <1>1, <1>5, <2>3, <2>7, HandedUndisturbed, ScanUndisturbed DEF BIInv
<1>7. CASE Word(b) # ins[t].val
  <2>1. blocks' = blocks
    BY <1>7 DEF ClearBusy
  <2>2. /\ r.block <= Len(blocks) /\ (r.pc \in AtBlock => r.block > 0)
        /\ r.pc \in Holding => ins[t].pc \in Holding /\ r.block = ins[t].block
        /\ r.pc = "set" => r.val[2] = FALSE
        /\ r.pc \in {"flip", "bump"} => r.val[1] = blocks[r.block].head /\ r.val[1] < NumSlots
    BY <1>1, <1>2, <1>3, SMTT(30) DEF Holding
  <2>3. insertion_head' \in 0 .. Len(blocks) /\ header_latch' \in Inserters \cup {EndOfList}
    BY <1>5 DEF BIInv, ListType
  <2>4. ins[t].pc # "bump"
    BY <1>1
  <2> QED
    BY <1>3, <1>5, <2>1, <2>2, <2>3, <2>4, LocalStep
<1> QED
  BY <1>6, <1>7

\* MoveHead advances the insertion head past a full block, under the latch.
LEMMA MoveHeadInv == ASSUME BIInv, NEW t \in Inserters, MoveHead(t) PROVE BIInv'
<1> DEFINE b == ins[t].block
           r == IF HeadAfter(t) = EndOfList THEN [ins[t] EXCEPT !.pc = "push"]
                ELSE [ins[t] EXCEPT !.pc = "probe", !.block = NextBlock(b)]
<1>1. /\ ins[t] \in Thread /\ ins[t].pc = "move" /\ b \in 1 .. Len(blocks)
      /\ Len(blocks) \in Nat \ {0} /\ insertion_head \in 0 .. Len(blocks)
  BY ThreadTypes DEF MoveHead, AtBlock
<1>2. NextBlock(b) \in Nat /\ NextBlock(b) <= Len(blocks) /\ {"probe", "push"} \subseteq InsertLabels
  BY <1>1, SMTT(30) DEF NextBlock, EndOfList, InsertLabels, AtBlock
<1>3. HeadAfter(t) \in 0 .. Len(blocks)
  BY <1>1, SMTT(30) DEF HeadAfter, NextBlock, EndOfList
<1>4. /\ r \in Thread /\ ins' = [ins EXCEPT ![t] = r]
      /\ (r.pc = "push" /\ r.block = b) \/ (r.pc = "probe" /\ r.block = NextBlock(b))
  <2>1. CASE HeadAfter(t) = EndOfList
    BY <1>1, <1>2, <2>1 DEF Thread, MoveHead, InsertFrom
  <2>2. CASE HeadAfter(t) # EndOfList
    BY <1>1, <1>2, <2>2 DEF Thread, MoveHead
  <2> QED
    BY <2>1, <2>2
<1>5. /\ blocks' = blocks /\ handed' = handed /\ scan' = scan
      /\ insertion_head' \in 0 .. Len(blocks) /\ header_latch' \in Inserters \cup {EndOfList}
  BY <1>3 DEF MoveHead, BIInv, ListType
<1> HIDE DEF r
<1>6. /\ r.block <= Len(blocks) /\ (r.pc \in AtBlock => r.block > 0)
      /\ r.pc \in Holding => ins[t].pc \in Holding /\ r.block = ins[t].block
      /\ r.pc = "set" => r.val[2] = FALSE
      /\ r.pc \in {"flip", "bump"} => r.val[1] = blocks[r.block].head /\ r.val[1] < NumSlots
  BY <1>1, <1>2, <1>4, SMTT(30) DEF Holding, AtBlock
<1>7. ins[t].pc # "bump"
  BY <1>1
<1> QED
  BY <1>4, <1>5, <1>6, <1>7, LocalStep

\* A step that adds the block x at the end of the list; the thread t goes on at y.
LEMMA AddStep ==
    ASSUME BIInv, NEW t \in Inserters,
           blocks' \in Seq(Block), Len(blocks') = Len(blocks) + 1,
           \A c \in 1 .. Len(blocks) : blocks'[c] = blocks[c],
           insertion_head' \in 0 .. Len(blocks) + 1, header_latch' \in Inserters \cup {EndOfList},
           ins' \in [Inserters -> Thread], \A u \in Inserters : u # t => ins'[u] = ins[u],
           ins'[t].pc \in {"clear", "probe"}, ins'[t].block <= Len(blocks) + 1,
           ins'[t].pc = "clear" => ins'[t].block = Len(blocks) + 1 /\ blocks'[Len(blocks) + 1].busy
    PROVE  ListType' /\ ListGrows /\ BusyInv'
<1>1. /\ Len(blocks) \in Nat \ {0}
      /\ \A b \in 1 .. Len(blocks) : blocks[b].head \in Nat
      /\ \A u \in Inserters : /\ ins[u] \in Thread /\ ins[u].block \in Nat /\ ins[u].block <= Len(blocks)
                              /\ ins[u].pc \in AtBlock => ins[u].block \in 1 .. Len(blocks)
  BY ThreadTypes, BlockTypes DEF BIInv, ListType
<1>2. ListType'
  BY <1>1, SMTT(30) DEF ListType, AtBlock, Holding
<1>3. ListGrows
  BY <1>1, SMTT(30) DEF ListGrows
<1>4. ASSUME NEW u \in Inserters, ins'[u].pc \in Holding
      PROVE  \/ u = t /\ ins'[u].block = Len(blocks) + 1
             \/ u # t /\ ins'[u] = ins[u] /\ ins'[u].block \in 1 .. Len(blocks)
  BY <1>1, <1>4 DEF AtBlock, Holding
<1>5. \A u \in Inserters : ins'[u].pc \in Holding => blocks'[ins'[u].block].busy
  BY <1>1, <1>4, SMTT(30) DEF BIInv, BusyInv, Holding
<1>6. \A u, v \in Inserters :
        u # v /\ ins'[u].pc \in Holding /\ ins'[v].pc \in Holding => ins'[u].block # ins'[v].block
  BY <1>1, <1>4, SMTT(30) DEF BIInv, BusyInv
<1>7. \A u \in Inserters : /\ ins'[u].pc = "set" => ins'[u].val[2] = FALSE
                           /\ ins'[u].pc \in {"flip", "bump"} =>
                                 ins'[u].val[1] = blocks'[ins'[u].block].head /\ ins'[u].val[1] < NumSlots
  BY <1>1, <1>4, SMTT(30) DEF BIInv, BusyInv, Holding
<1> QED
  BY <1>2, <1>3, <1>5, <1>6, <1>7 DEF BusyInv

\* PushHead adds an empty block and sets the insertion head to it, or releases the latch.
LEMMA PushHeadInv == ASSUME BIInv, NEW t \in Inserters, PushHead(t) PROVE BIInv'
<1>1. /\ ins[t] \in Thread /\ ins[t].pc = "push" /\ ins[t].block \in 1 .. Len(blocks)
      /\ Len(blocks) \in Nat \ {0} /\ insertion_head \in 0 .. Len(blocks)
  BY ThreadTypes DEF PushHead, AtBlock
<1>2. {"probe", "idle"} \subseteq InsertLabels /\ ins[t].block + 1 \in Nat
  BY <1>1, SMTT(30) DEF InsertLabels, AtBlock
<1>3. handed' = handed /\ scan' = scan /\ header_latch' \in Inserters \cup {EndOfList}
  BY DEF PushHead
<1>4. CASE Len(blocks) < size_limit
  <2> DEFINE r == [ins[t] EXCEPT !.pc = "probe", !.block = ins[t].block + 1]
  <2>1. r \in Thread /\ r.pc = "probe" /\ r.block = ins[t].block + 1
    BY <1>1, <1>2 DEF Thread
  <2>2. ins' = [ins EXCEPT ![t] = r] /\ insertion_head' = Len(blocks) + 1
    BY <1>4 DEF PushHead
  <2>3. /\ blocks' \in Seq(Block) /\ Len(blocks') = Len(blocks) + 1
        /\ \A c \in 1 .. Len(blocks) : blocks'[c] = blocks[c]
    BY <1>4, NewBlocks, AddBlock DEF BIInv, ListType, PushHead
  <2> HIDE DEF r
  <2>4. /\ ins' \in [Inserters -> Thread] /\ ins'[t] = r
        /\ \A u \in Inserters : u # t => ins'[u] = ins[u]
    BY <2>1, <2>2, ThreadMoves DEF BIInv, ListType
  <2>5. /\ ins'[t].pc \in {"clear", "probe"} /\ ins'[t].block <= Len(blocks) + 1
        /\ ins'[t].pc = "clear" => ins'[t].block = Len(blocks) + 1 /\ blocks'[Len(blocks) + 1].busy
        /\ insertion_head' \in 0 .. Len(blocks) + 1
    BY <1>1, <2>1, <2>2, <2>4, SMTT(30)
  <2>6. ListType' /\ ListGrows /\ BusyInv'
    BY <1>3, <2>3, <2>4, <2>5, AddStep
  <2>7. ins[t].pc # "bump"
    BY <1>1
  <2> QED
    BY <1>3, <2>4, <2>6, <2>7, HandedUndisturbed, ScanUndisturbed DEF BIInv
<1>5. CASE ~(Len(blocks) < size_limit)
  <2> DEFINE r == [ins[t] EXCEPT !.pc = "idle"]
  <2>1. r \in Thread /\ r.pc = "idle" /\ r.block = ins[t].block
    BY <1>1, <1>2 DEF Thread
  <2>2. ins' = [ins EXCEPT ![t] = r] /\ blocks' = blocks /\ insertion_head' \in 0 .. Len(blocks)
    BY <1>1, <1>5 DEF PushHead, InsertFrom
  <2> HIDE DEF r
  <2>3. /\ r.block <= Len(blocks) /\ (r.pc \in AtBlock => r.block > 0)
        /\ r.pc \in Holding => ins[t].pc \in Holding /\ r.block = ins[t].block
        /\ r.pc = "set" => r.val[2] = FALSE
        /\ r.pc \in {"flip", "bump"} => r.val[1] = blocks[r.block].head /\ r.val[1] < NumSlots
    BY <1>1, <2>1, SMTT(30) DEF Holding
  <2>4. ins[t].pc # "bump"
    BY <1>1
  <2> QED
    BY <1>3, <2>1, <2>2, <2>3, <2>4, LocalStep
<1> QED
  BY <1>4, <1>5

\* InsertNewBlock adds a block that the insert alone has, with its first slot taken.
LEMMA InsertNewBlockInv ==
    ASSUME BIInv, NEW t \in Inserters, InsertNewBlock(t), ~NDEBUG PROVE BIInv'
<1>1. /\ ins[t] \in Thread /\ ins[t].pc = "probe" /\ ins[t].block \in Nat /\ ins[t].block <= Len(blocks)
      /\ Len(blocks) \in Nat \ {0} /\ insertion_head \in 0 .. Len(blocks)
  BY ThreadTypes DEF InsertNewBlock
<1>2. {"clear", "idle"} \subseteq InsertLabels /\ Len(blocks) + 1 \in Nat
  BY <1>1, SMTT(30) DEF InsertLabels, AtBlock, Holding
<1>3. /\ scan' = scan /\ insertion_head' = insertion_head
      /\ header_latch' \in Inserters \cup {EndOfList} /\ insertion_head' \in 0 .. Len(blocks) + 1
  BY <1>1, SMTT(30) DEF InsertNewBlock, BIInv, ListType
<1>4. CASE Len(blocks) < size_limit
  <2> DEFINE n == Len(blocks) + 1
             r == [ins[t] EXCEPT !.pc = "clear", !.block = n]
             g == <<t, ins[t].todo, <<n, 0>>>>
  <2>1. r \in Thread /\ r.pc = "clear" /\ r.block = n /\ ins[t].todo \in Nat
    BY <1>1, <1>2 DEF Thread
  <2>2. ins' = [ins EXCEPT ![t] = r] /\ handed' = handed \cup {g}
    BY <1>4 DEF InsertNewBlock, HandOut
  <2>3. blocks' = Append(blocks, NewBlock({0}, TRUE))
    <3>1. (~NDEBUG) = TRUE
      OBVIOUS
    <3> QED
      BY <1>4, <3>1 DEF InsertNewBlock
  <2>4. /\ blocks' \in Seq(Block) /\ Len(blocks') = n /\ blocks'[n] = NewBlock({0}, TRUE)
        /\ \A c \in 1 .. Len(blocks) : blocks'[c] = blocks[c]
    BY <2>3, NewBlocks, AddBlock DEF BIInv, ListType
  <2>5. blocks'[n].busy /\ blocks'[n].head = 1 /\ 0 \in blocks'[n].alloc
    <3>1. blocks'[n] = [head |-> 1, busy |-> TRUE, alloc |-> {0}]
      BY <2>4, NewBlocks
    <3> QED
      BY <3>1, SMTT(30)
  <2> HIDE DEF r
  <2>6. /\ ins' \in [Inserters -> Thread] /\ ins'[t] = r
        /\ \A u \in Inserters : u # t => ins'[u] = ins[u]
    BY <2>1, <2>2, ThreadMoves DEF BIInv, ListType
  <2>7. /\ ins'[t].pc \in {"clear", "probe"} /\ ins'[t].block <= Len(blocks) + 1
        /\ ins'[t].pc = "clear" => ins'[t].block = Len(blocks) + 1 /\ blocks'[Len(blocks) + 1].busy
    BY <1>1, <2>1, <2>5, <2>6, SMTT(30)
  <2>8. ListType' /\ ListGrows /\ BusyInv'
    BY <1>3, <2>4, <2>6, <2>7, AddStep
  <2>9. /\ handed' \subseteq Inserters \X Nat \X (Nat \X Nat) /\ g[3] = <<n, 0>>
        /\ g[3][1] = n /\ g[3][2] = 0
    BY <1>2, <2>1, <2>2, SMTT(30) DEF BIInv, HandedInv
  <2>10. ASSUME NEW h \in handed PROVE Placed(h)' /\ h[3] # g[3]
    <3>1. /\ h[1] \in Inserters /\ h[3][2] \in Nat /\ Placed(h) /\ h[3][1] \in 1 .. Len(blocks)
      BY DEF BIInv, HandedInv, Placed
    <3>2. Uncounted(h) => Uncounted(h)'
      BY <1>1, <2>6, <3>1 DEF Uncounted
    <3>3. blocks'[h[3][1]] = blocks[h[3][1]] /\ h[3][1] \in 1 .. Len(blocks')
      BY <1>1, <2>4, <3>1, SMTT(30)
    <3> QED
      BY <1>1, <2>9, <3>1, <3>2, <3>3, SMTT(30) DEF Placed
  <2>11. ASSUME NEW h, h = g PROVE Placed(h)'
    <3>1. h[3][1] = n /\ h[3][2] = 0 /\ n \in 1 .. Len(blocks')
      BY <1>1, <2>4, <2>9, <2>11, SMTT(30)
    <3> QED
      BY <2>5, <3>1, SMTT(30) DEF Placed
  <2>12. \A h \in handed' : Placed(h)'
    BY <2>2, <2>10, <2>11
  <2>13. SlotHandedOnce'
    BY <2>2, <2>10 DEF SlotHandedOnce, BIInv, HandedInv
  <2>14. HandedInv'
    BY <2>9, <2>12, <2>13 DEF HandedInv
  <2> QED
    BY <1>3, <2>8, <2>14, ScanUndisturbed DEF BIInv
<1>5. CASE ~(Len(blocks) < size_limit)
  <2> DEFINE r == [ins[t] EXCEPT !.pc = "idle"]
  <2>1. r \in Thread /\ r.pc = "idle" /\ r.block = ins[t].block
    BY <1>1, <1>2 DEF Thread
  <2>2. /\ ins' = [ins EXCEPT ![t] = r] /\ blocks' = blocks /\ handed' = handed
        /\ insertion_head' \in 0 .. Len(blocks)
    BY <1>1, <1>3, <1>5 DEF InsertNewBlock, InsertFrom
  <2> HIDE DEF r
  <2>3. /\ r.block <= Len(blocks) /\ (r.pc \in AtBlock => r.block > 0)
        /\ r.pc \in Holding => ins[t].pc \in Holding /\ r.block = ins[t].block
        /\ r.pc = "set" => r.val[2] = FALSE
        /\ r.pc \in {"flip", "bump"} => r.val[1] = blocks[r.block].head /\ r.val[1] < NumSlots
    BY <1>1, <2>1 DEF AtBlock, Holding
  <2>4. ins[t].pc # "bump"
    BY <1>1
  <2> QED
    BY <1>3, <2>1, <2>2, <2>3, <2>4, LocalStep
<1> QED
  BY <1>4, <1>5

-----------------------------------------------------------------------------
(* The steps of a scan.                                                    *)

\* A scan leaves the list and the inserts alone.
LEMMA ScanLeaves == ASSUME BIInv, insertVars' = insertVars, ScanInv' PROVE BIInv'
<1>1. /\ blocks' = blocks /\ insertion_head' = insertion_head /\ header_latch' = header_latch
      /\ ins' = ins /\ handed' = handed
  BY DEF insertVars, listVars
<1>2. ListType' /\ BusyInv'
  BY <1>1 DEF BIInv, ListType, BusyInv
<1>3. HandedInv'
  BY <1>1 DEF BIInv, HandedInv, Placed, Uncounted, SlotHandedOnce
<1> QED
  BY <1>2, <1>3 DEF BIInv

\* When a scan begins, what it has to see is below the insert heads, and ahead of it.
LEMMA ScanBeginInv == ASSUME BIInv, ScanBegin PROVE BIInv'
<1>1. /\ scan.it = BeginSlot /\ scan.pc = "idle" /\ blocks' = blocks
      /\ scan' = [scan EXCEPT !.pc = "test", !.due = Returned]
  BY DEF ScanBegin, insertVars, listVars, BIInv, ScanInv
<1>2. ASSUME NEW s \in Returned
      PROVE  /\ s \in Nat \X Nat
             /\ s[1] \in 1 .. Len(blocks) /\ s[2] < blocks[s[1]].head /\ s[2] \in blocks[s[1]].alloc
  <2>1. PICK h \in handed : h[3] = s /\ (ins[h[1]].pc = "idle" \/ ins[h[1]].todo # h[2])
    BY DEF Returned
  <2>2. ~Uncounted(h)
    BY <2>1 DEF Uncounted
  <2> QED
    BY <2>1, <2>2 DEF BIInv, HandedInv, Placed
<1>3. \A s \in Returned : ~Passed(scan.it, s)
  BY <1>1, <1>2, SMTT(30) DEF Passed, BeginSlot, EndOfList
<1>4. /\ scan'.pc = "test" /\ scan'.it = scan.it /\ scan'.due = Returned /\ scan'.seen = scan.seen
      /\ scan' \in [pc : ScanLabels, it : [block : Nat, off : Offsets],
                    due : SUBSET (Nat \X Nat), seen : SUBSET (Nat \X Nat)]
  <2>1. Returned \in SUBSET (Nat \X Nat) /\ "test" \in ScanLabels
    BY <1>2 DEF ScanLabels
  <2> QED
    BY <1>1, <2>1 DEF BIInv, ScanInv
<1>5. ScanInv'
  BY <1>1, <1>2, <1>3, <1>4 DEF BIInv, ScanInv, ScanComplete, Passed
<1> QED
  BY <1>5, ScanLeaves DEF ScanBegin

\* When the iterator meets end(), it has passed everything that lies below the insert heads.
LEMMA ScanTestInv == ASSUME BIInv, ScanTest PROVE BIInv'
<1> DEFINE k == IF scan.it = EndSlot THEN "done" ELSE IF scan.it.block = EndOfList THEN "null" ELSE "select"
<1>1. scan' = [scan EXCEPT !.pc = k] /\ blocks' = blocks
  BY DEF ScanTest, insertVars, listVars
<1>2. /\ k \in {"done", "null", "select"} /\ (k = "select" => scan.it.block # EndOfList)
      /\ k = "done" => scan.it = EndSlot
  OBVIOUS
<1> HIDE DEF k
<1>3. /\ scan'.pc = k /\ scan'.it = scan.it /\ scan'.due = scan.due /\ scan'.seen = scan.seen
      /\ scan' \in [pc : ScanLabels, it : [block : Nat, off : Offsets],
                    due : SUBSET (Nat \X Nat), seen : SUBSET (Nat \X Nat)]
  BY <1>1, <1>2 DEF BIInv, ScanInv, ScanLabels
<1>4. ASSUME scan.it = EndSlot, NEW s \in scan.due PROVE Passed(scan.it, s)
  <2>1. s[1] \in 1 .. Len(blocks) /\ s[2] < blocks[s[1]].head /\ Len(blocks) \in Nat
    BY BlockTypes DEF BIInv, ScanInv, ListType
  <2>2. CASE blocks[Len(blocks)].head = NumSlots
    BY <1>4, <2>2, SMTT(30) DEF EndSlot, Passed
  <2>3. CASE blocks[Len(blocks)].head # NumSlots
    <3>1. scan.it.block = Len(blocks) /\ scan.it.off = blocks[Len(blocks)].head
      BY <1>4, <2>3, SMTT(30) DEF EndSlot
    <3> QED
      BY <2>1, <3>1, SMTT(30) DEF Passed
  <2> QED
    BY <2>2, <2>3
<1>5. ScanComplete'
  BY <1>2, <1>3, <1>4 DEF ScanComplete, BIInv, ScanInv
<1>6. ScanInv'
  BY <1>1, <1>2, <1>3, <1>5 DEF BIInv, ScanInv, Passed
<1> QED
  BY <1>6, ScanLeaves DEF ScanTest

\* The slot that a scan looks at is the only one that the iterator passes then.
LEMMA ScanSelectInv == ASSUME BIInv, ScanSelect PROVE BIInv'
<1> DEFINE b == scan.it.block
           o == scan.it.off
           nit == IF o = NumSlots - 1 THEN [block |-> NextBlock(b), off |-> 0] ELSE [scan.it EXCEPT !.off = o + 1]
           sn == IF o \in blocks[b].alloc THEN scan.seen \cup {<<b, o>>} ELSE scan.seen
<1>1. scan' = [scan EXCEPT !.pc = "test", !.seen = sn, !.it = nit] /\ blocks' = blocks /\ scan.pc = "select"
  BY DEF ScanSelect, insertVars, listVars
<1>2. /\ b \in 1 .. Len(blocks) /\ o \in Offsets /\ o \in Nat /\ scan.it \in [block : Nat, off : Offsets]
      /\ Len(blocks) \in Nat /\ \A c \in 1 .. Len(blocks) : blocks[c].head \in Nat /\ blocks[c].head <= NumSlots
  BY <1>1, BlockTypes, SMTT(30) DEF BIInv, ScanInv, ListType, EndOfList, Offsets
<1>3. /\ nit \in [block : Nat, off : Offsets] /\ nit.block <= Len(blocks)
      /\ \/ o = NumSlots - 1 /\ nit.block = b + 1 /\ nit.off = 0
         \/ o = NumSlots - 1 /\ b = Len(blocks) /\ nit.block = EndOfList
         \/ o < NumSlots - 1 /\ nit.block = b /\ nit.off = o + 1
  <2>1. CASE o = NumSlots - 1
    BY <1>2, <2>1, BIAssumption, SMTT(30) DEF NextBlock, EndOfList, Offsets
  <2>2. CASE o # NumSlots - 1
    <3>1. o + 1 \in Offsets /\ o < NumSlots - 1
      BY <1>2, <2>2, BIAssumption, SMTT(30) DEF Offsets
    <3> QED
      BY <1>2, <2>2, <3>1, SMTT(30)
  <2> QED
    BY <2>1, <2>2
<1>4. sn \in SUBSET (Nat \X Nat) /\ scan.seen \subseteq sn /\ (o \in blocks[b].alloc => <<b, o>> \in sn)
  BY <1>2, SMTT(30) DEF BIInv, ScanInv
<1> HIDE DEF nit, sn
<1>5. /\ scan'.pc = "test" /\ scan'.it = nit /\ scan'.due = scan.due /\ scan'.seen = sn
      /\ scan' \in [pc : ScanLabels, it : [block : Nat, off : Offsets],
                    due : SUBSET (Nat \X Nat), seen : SUBSET (Nat \X Nat)]
  BY <1>1, <1>3, <1>4 DEF BIInv, ScanInv, ScanLabels
<1>6. ASSUME NEW s \in scan.due, Passed(nit, s) PROVE s \in sn
  <2>1. /\ s = <<s[1], s[2]>> /\ s[1] \in 1 .. Len(blocks) /\ s[2] \in Nat /\ s[2] < NumSlots
        /\ s[2] \in blocks[s[1]].alloc /\ (Passed(scan.it, s) => s \in scan.seen)
    BY <1>2, BIAssumption, SMTT(30) DEF BIInv, ScanInv
  <2>2. Passed(scan.it, s) \/ (s[1] = b /\ s[2] = o)
    BY <1>2, <1>3, <1>6, <2>1, BIAssumption, SMTT(30) DEF Passed, EndOfList
  <2> QED
    BY <1>4, <2>1, <2>2
<1>7. ScanInv'
  BY <1>1, <1>3, <1>5, <1>6 DEF BIInv, ScanInv, Passed, ScanComplete
<1> QED
  BY <1>7, ScanLeaves DEF ScanSelect

-----------------------------------------------------------------------------
(* The invariant, and what follows from it.                                *)

\* The invariant holds of the table that DataTable's constructor leaves.
LEMMA BIInitInv == BIInit => BIInv
<1> SUFFICES ASSUME BIInit PROVE BIInv
  OBVIOUS
<1>1. /\ blocks \in Seq(Block) /\ Len(blocks) = 1
  <2> DEFINE x == NewBlock({}, FALSE)
  <2>1. x \in Block /\ blocks = <<x>>
    BY NewBlocks DEF BIInit
  <2> HIDE DEF x
  <2> QED
    BY <2>1, SMTT(30)
<1>2. 0 \in Offsets /\ 0 \in 0 .. NumSlots /\ "idle" \in InsertLabels /\ {"idle", "done"} \subseteq ScanLabels
  BY BIAssumption, SMTT(30) DEF Offsets, InsertLabels, ScanLabels
<1>3. /\ ins \in [Inserters -> Thread]
      /\ \A t \in Inserters : ins[t].pc = "idle" /\ ins[t].block = 0
  BY <1>2, BIAssumption DEF BIInit, Thread, EndOfList
<1>4. ListType
  <2>1. insertion_head \in 0 .. Len(blocks) /\ header_latch \in Inserters \cup {EndOfList}
    BY <1>1, SMTT(30) DEF BIInit
  <2>2. \A t \in Inserters : ins[t].block <= Len(blocks) /\ ins[t].pc \notin AtBlock
    BY <1>1, <1>3, SMTT(30) DEF AtBlock, Holding
  <2> QED
    BY <1>1, <1>3, <2>1, <2>2, SMTT(30) DEF ListType
<1>5. BusyInv
  BY <1>3 DEF BusyInv, Holding
<1>6. HandedInv
  BY DEF HandedInv, SlotHandedOnce, BIInit
<1>7. ScanInv
  <2> DEFINE k == IF Scans THEN "idle" ELSE "done"
  <2>1. k \in {"idle", "done"}
    OBVIOUS
  <2>2. scan = [pc |-> k, it |-> BeginSlot, due |-> {}, seen |-> {}]
    BY DEF BIInit
  <2> HIDE DEF k
  <2>3. BeginSlot \in [block : Nat, off : Offsets] /\ BeginSlot.block = 1
    BY <1>2 DEF BeginSlot
  <2> QED
    BY <1>1, <1>2, <2>1, <2>2, <2>3, SMTT(30) DEF ScanInv, ScanComplete
<1> QED
  BY <1>4, <1>5, <1>6, <1>7 DEF BIInv

\* Every step of an insert or of a scan keeps the invariant, in builds that set the busy
\* bit of a new block.
LEMMA BIStepInv == ASSUME ~NDEBUG, BIInv, [BINext]_biVars PROVE BIInv'
<1>1. CASE \E t \in Inserters : InsertWalk(t) \/ InsertStep(t)
  <2>1. PICK t \in Inserters : InsertWalk(t) \/ InsertStep(t)
    BY <1>1
  <2> QED
    BY <2>1, InsertWalkInv, InsertNewBlockInv, LoadHeadInv, SetBusyInv, AllocateReadInv, AllocateFlipInv,
       AllocateBumpInv, ClearLoadInv, ClearBusyInv, MoveHeadInv, PushHeadInv DEF InsertStep
<1>2. CASE ScanStep
  BY <1>2, ScanBeginInv, ScanTestInv, ScanSelectInv DEF ScanStep
<1>3. CASE SetSizeLimit \/ InsertsDone \/ UNCHANGED biVars
  <2>1. /\ blocks' = blocks /\ insertion_head' = insertion_head /\ header_latch' = header_latch
        /\ ins' = ins /\ handed' = handed /\ scan' = scan
    BY <1>3 DEF SetSizeLimit, InsertsDone, biVars, listVars
  <2>2. ListType' /\ BusyInv' /\ ScanInv'
    BY <2>1 DEF BIInv, ListType, BusyInv, ScanInv, Passed, ScanComplete
  <2>3. HandedInv'
    BY <2>1 DEF BIInv, HandedInv, Placed, Uncounted, SlotHandedOnce
  <2> QED
    BY <2>2, <2>3 DEF BIInv
<1> QED
  BY <1>1, <1>2, <1>3 DEF BINext

\* The invariant of inserting and scanning, in builds that evaluate assertions.
THEOREM InsertInvariant == ASSUME ~NDEBUG PROVE BISpec => []BIInv
<1>1. BIInit => BIInv
  BY BIInitInv
<1>2. BIInv /\ [BINext]_biVars => BIInv'
  BY BIStepInv
<1> QED
  BY <1>1, <1>2, PTL DEF BISpec

\* DataTable::Insert never hands a slot to two inserts, however many threads insert: the
\* busy bit of a block, the insert head and the bitmap together see to it.
THEOREM SlotsHandedOnce == ASSUME ~NDEBUG PROVE BISpec => []SlotHandedOnce
<1>1. BIInv => SlotHandedOnce
  BY DEF BIInv, HandedInv
<1> QED
  BY <1>1, InsertInvariant, PTL

\* SetBlockBusyStatus and ClearBlockBusyStatus make a lock of the busy bit: between them
\* a thread is alone on its block and finds the bit set.
THEOREM BusyIsALock == ASSUME ~NDEBUG PROVE BISpec => []BusyExclusive
<1>1. BIInv => BusyExclusive
  BY DEF BIInv, BusyInv, BusyExclusive, Holding
<1> QED
  BY <1>1, InsertInvariant, PTL

\* DataTable::Scan sees every slot whose insert returned before the scan began, whatever
\* blocks are added while it runs and however often end() moves.
THEOREM ScansComplete == ASSUME ~NDEBUG PROVE BISpec => []ScanComplete
<1>1. BIInv => ScanComplete
  BY DEF BIInv, ScanInv
<1> QED
  BY <1>1, InsertInvariant, PTL
=============================================================================
