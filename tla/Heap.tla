-------------------------------- MODULE Heap --------------------------------
(***************************************************************************)
(* The kernel heap of NovaOS (kernel/mm/heap.c): a first-fit list of      *)
(* header-prefixed blocks over the arena [heap_start, heap_end), split on *)
(* allocation, coalesced on free, and grown by heap_expand with frames    *)
(* from the frame allocator mapped at heap_end.                           *)
(*                                                                         *)
(* A block is [addr, size, free]; addresses are byte offsets from         *)
(* heap_start.  The list of first_block/next is kept in list order as a   *)
(* sequence (the prev links are the reverse of next and no code path      *)
(* reads them).  Callers are owners that each hold at most one pointer    *)
(* returned by kmalloc, with the size they asked for.  kzalloc is kmalloc *)
(* followed by a memset of the data, which the model does not track.      *)
(* Frames are counted, not named: pmm_alloc_page fails once MaxFrames are *)
(* taken, and vmm_map_page never fails on its own.                        *)
(***************************************************************************)
EXTENDS Naturals, Sequences, FiniteSets, SequencesExt

CONSTANTS
  Owners,     \* callers of kmalloc/kfree/krealloc
  PageSize,   \* PAGE_SIZE
  InitPages,  \* heap_init's initial size, in pages
  MaxFrames,  \* frames the frame allocator can give the heap
  Sizes,      \* byte counts callers ask for
  NoPtr       \* an owner that holds no allocation

ASSUME
  /\ PageSize \in Nat \ {0} /\ InitPages \in Nat \ {0}
  /\ MaxFrames \in Nat /\ InitPages <= MaxFrames
  /\ Sizes \subseteq Nat \ {0}

\* sizeof(heap_block_t) and MIN_BLOCK_SIZE.
HeaderSize   == 32
MinBlockSize == 32

Align8(n)    == ((n + 7) \div 8) * 8
PageAlign(n) == ((n + PageSize - 1) \div PageSize) * PageSize

Blocks == [addr : Nat, size : Nat, free : BOOLEAN]

VARIABLES
  blocks,     \* the block list from first_block
  heapEnd,    \* heap_end - heap_start
  heapSize,   \* heap_size
  frames,     \* frames taken from pmm_alloc_page and not given back
  live        \* live[o]: [ptr, n] from kmalloc, or NoPtr

vars == <<blocks, heapEnd, heapSize, frames, live>>

\* The heap metadata as one record, so that kmalloc, kfree and krealloc
\* compose as they call each other.
Cur == [blocks |-> blocks, end |-> heapEnd, size |-> heapSize, frames |-> frames]
Store(h) ==
  /\ blocks' = h.blocks /\ heapEnd' = h.end
  /\ heapSize' = h.size /\ frames' = h.frames

-----------------------------------------------------------------------------
\* A heap_expand that counts the pages it needed as taken, whether or not
\* pmm_alloc_page could give them.
ExpandNoLimit(h, bytes) ==
  LET pages == PageAlign(bytes) \div PageSize
  IN  IF pages <= MaxFrames - h.frames
      THEN [h |-> [h EXCEPT !.end = @ + pages * PageSize,
                            !.size = @ + pages * PageSize,
                            !.frames = @ + pages],
            ok |-> TRUE]
      ELSE [h |-> [h EXCEPT !.frames = @ + pages], ok |-> FALSE]

\* heap_expand(bytes): one frame per page, each mapped at heap_end + i * PAGE;
\* when pmm_alloc_page runs dry, the frames already taken stay mapped and
\* taken, and heap_end does not move.
Expand(h, bytes) ==
  LET pages == PageAlign(bytes) \div PageSize
      avail == MaxFrames - h.frames
  IN  IF pages <= avail
      THEN [h |-> [h EXCEPT !.end = @ + pages * PageSize,
                            !.size = @ + pages * PageSize,
                            !.frames = @ + pages],
            ok |-> TRUE]
      ELSE [h |-> [h EXCEPT !.frames = @ + avail], ok |-> FALSE]

\* A find_free_block that does not look at the free flag.
FindFreeBlockAnyBlock(bl, total) ==
  LET fit == {i \in 1..Len(bl) : bl[i].size >= total}
  IN  IF fit = {} THEN 0 ELSE Min(fit)

\* find_free_block: index of the first free block of at least total bytes.
FindFreeBlock(bl, total) ==
  LET fit == {i \in 1..Len(bl) : bl[i].free /\ bl[i].size >= total}
  IN  IF fit = {} THEN 0 ELSE Min(fit)

\* A split_block that gives the new block the whole size of the old one.
SplitBlockWholeSize(bl, i, total) ==
  IF bl[i].size >= total + HeaderSize + MinBlockSize
  THEN SubSeq(bl, 1, i - 1)
       \o << [bl[i] EXCEPT !.size = total],
             [addr |-> bl[i].addr + total, size |-> bl[i].size, free |-> TRUE] >>
       \o SubSeq(bl, i + 1, Len(bl))
  ELSE bl

\* split_block(block i, total): only when the remainder holds a header and
\* a minimum block.
SplitBlock(bl, i, total) ==
  IF bl[i].size >= total + HeaderSize + MinBlockSize
  THEN SubSeq(bl, 1, i - 1)
       \o << [bl[i] EXCEPT !.size = total],
             [addr |-> bl[i].addr + total, size |-> bl[i].size - total,
              free |-> TRUE] >>
       \o SubSeq(bl, i + 1, Len(bl))
  ELSE bl

\* A coalesce_blocks that steps on after a merge.
RECURSIVE CoalesceBlocksStepOn(_)
CoalesceBlocksStepOn(bl) ==
  IF Len(bl) < 2 THEN bl
  ELSE IF bl[1].free /\ bl[2].free
  THEN <<[bl[1] EXCEPT !.size = @ + bl[2].size]>>
       \o CoalesceBlocksStepOn(SubSeq(bl, 3, Len(bl)))
  ELSE <<bl[1]>> \o CoalesceBlocksStepOn(Tail(bl))

\* coalesce_blocks: walk the list, merging a free block with a free next
\* block and staying on it, else stepping on.
RECURSIVE CoalesceBlocks(_)
CoalesceBlocks(bl) ==
  IF Len(bl) < 2 THEN bl
  ELSE IF bl[1].free /\ bl[2].free
  THEN CoalesceBlocks(<<[bl[1] EXCEPT !.size = @ + bl[2].size]>>
                      \o SubSeq(bl, 3, Len(bl)))
  ELSE <<bl[1]>> \o CoalesceBlocks(Tail(bl))

\* kmalloc(n) on heap h: [h, ptr] with ptr 0 for NULL.
Kmalloc(h, n) ==
  LET total  == Align8(IF HeaderSize + n < MinBlockSize THEN MinBlockSize
                       ELSE HeaderSize + n)
      found  == FindFreeBlock(h.blocks, total)
      expand == IF total * 2 < PageSize THEN PageSize ELSE total * 2
      e      == Expand(h, expand)
      grown  == Append(h.blocks, [addr |-> e.h.end - expand, size |-> expand,
                                  free |-> TRUE])
      Use(bl, i) ==
        LET sp == SplitBlock(bl, i, total)
        IN  [sp EXCEPT ![i].free = FALSE]
  IN  IF found # 0
      THEN [h |-> [h EXCEPT !.blocks = Use(h.blocks, found)],
            ptr |-> h.blocks[found].addr + HeaderSize]
      ELSE IF ~e.ok
      THEN [h |-> e.h, ptr |-> 0]
      ELSE [h |-> [e.h EXCEPT !.blocks = Use(grown, Len(grown))],
            ptr |-> e.h.end - expand + HeaderSize]

\* kfree(ptr) of a pointer kmalloc returned and that was not freed: the
\* magic and double-free checks pass; mark free and coalesce.
Kfree(h, ptr) ==
  LET i == CHOOSE k \in 1..Len(h.blocks) : h.blocks[k].addr + HeaderSize = ptr
  IN  [h EXCEPT !.blocks = CoalesceBlocks([h.blocks EXCEPT ![i].free = TRUE])]

BlockOf(h, ptr) == CHOOSE k \in 1..Len(h.blocks) : h.blocks[k].addr + HeaderSize = ptr

-----------------------------------------------------------------------------
\* heap_init(heap_start, InitPages * PAGE_SIZE): one free block over the
\* arena.
Init ==
  /\ blocks = <<[addr |-> 0, size |-> InitPages * PageSize, free |-> TRUE]>>
  /\ heapEnd = InitPages * PageSize
  /\ heapSize = InitPages * PageSize
  /\ frames = InitPages
  /\ live = [o \in Owners |-> NoPtr]

\* An owner calls kmalloc(n) (or kzalloc(n)).
Malloc(o, n) ==
  LET r == Kmalloc(Cur, n) IN
  /\ live[o] = NoPtr
  /\ Store(r.h)
  /\ live' = [live EXCEPT ![o] = IF r.ptr = 0 THEN NoPtr
                                 ELSE [ptr |-> r.ptr, n |-> n]]

\* An owner calls kfree on its pointer.
Free(o) ==
  /\ live[o] # NoPtr
  /\ Store(Kfree(Cur, live[o].ptr))
  /\ live' = [live EXCEPT ![o] = NoPtr]

\* krealloc(ptr, n) on the owner's pointer.
Realloc(o, n) ==
  /\ live[o] # NoPtr
  /\ LET p   == live[o].ptr
         cur == blocks[BlockOf(Cur, p)].size - HeaderSize
         r   == Kmalloc(Cur, n)
     IN  IF n = 0
         THEN /\ Store(Kfree(Cur, p))
              /\ live' = [live EXCEPT ![o] = NoPtr]
         ELSE IF n <= cur
         THEN /\ UNCHANGED <<blocks, heapEnd, heapSize, frames>>
              /\ live' = [live EXCEPT ![o].n = n]
         ELSE IF r.ptr = 0
         THEN /\ Store(r.h)
              /\ UNCHANGED live
         ELSE /\ Store(Kfree(r.h, p))
              /\ live' = [live EXCEPT ![o] = [ptr |-> r.ptr, n |-> n]]

Next ==
  \E o \in Owners :
    \/ \E n \in Sizes : Malloc(o, n)
    \/ Free(o)
    \/ \E n \in Sizes \cup {0} : Realloc(o, n)

Spec == Init /\ [][Next]_vars

-----------------------------------------------------------------------------
BlockEnd(b) == b.addr + b.size

TypeOK ==
  /\ blocks \in Seq(Blocks)
  /\ heapEnd \in Nat /\ heapSize \in Nat
  /\ frames \in 0..MaxFrames
  /\ \A o \in Owners : live[o] = NoPtr \/ live[o] \in [ptr : Nat, n : Sizes]

\* The list is well formed: in address order, each block at least a
\* header, no block overlapping the next, all inside [heap_start, heap_end).
\* split_block writes the new header at block + size, and kmalloc places
\* an expansion at heap_end - expand_size.
WellFormed ==
  /\ \A i \in 1..Len(blocks) : blocks[i].size >= HeaderSize
  /\ \A i \in 1..Len(blocks) - 1 : BlockEnd(blocks[i]) <= blocks[i + 1].addr
  /\ Len(blocks) > 0 => BlockEnd(blocks[Len(blocks)]) <= heapEnd

\* Adjacent free blocks do not coexist (spec.md 8.3): kfree coalesces and
\* kmalloc never leaves a free block next to another.
NoAdjacentFree ==
  \A i \in 1..Len(blocks) - 1 : ~(blocks[i].free /\ blocks[i + 1].free)

\* Every live allocation lies in the data of a used block of its own, so no
\* two callers ever share a byte; krealloc's in-place case keeps the size
\* within the block.
LiveDisjoint ==
  /\ \A o \in Owners : live[o] # NoPtr =>
       \E i \in 1..Len(blocks) :
         /\ blocks[i].addr + HeaderSize = live[o].ptr
         /\ ~blocks[i].free
         /\ live[o].n <= blocks[i].size - HeaderSize
  /\ \A o1, o2 \in Owners :
       o1 # o2 /\ live[o1] # NoPtr /\ live[o2] # NoPtr =>
         live[o1].ptr # live[o2].ptr

\* The sum of the block sizes equals the arena size (spec.md 8.3 and the
\* used + free = total of 4.3).
SizesSumToArena ==
  FoldSeq(LAMBDA b, acc : acc + b.size, 0, blocks) = heapSize

\* Every frame the heap took from the frame allocator backs a page of the
\* arena: heap_expand either grows heap_end by what it mapped or gives
\* everything back.
FramesAccounted == frames * PageSize = heapEnd
=============================================================================
