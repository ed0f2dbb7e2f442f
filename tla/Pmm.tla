-------------------------------- MODULE Pmm --------------------------------
(***************************************************************************)
(* The physical frame allocator of NovaOS (unnamed/part_010, pmm.c): one  *)
(* bit per 4 KiB frame in the static array page_bitmap, the count         *)
(* used_pages, and the first-fit searches find_free_page and              *)
(* find_free_pages.  Frames are page numbers; an address is its frame     *)
(* number times PAGE_SIZE, so the model works with frame numbers.         *)
(*                                                                         *)
(* The callers are abstracted to owners that hold the runs of frames they *)
(* were given (process.c takes runs of four frames for stacks, heap.c and *)
(* the page-table code single frames) and give them back with             *)
(* pmm_free_page / pmm_free_pages; a stray free of a frame that is        *)
(* already free exercises the double-free check.                          *)
(***************************************************************************)
EXTENDS Integers, Sequences, FiniteSets, SequencesExt

CONSTANTS
  Owners,       \* the callers that hold frames
  TotalPages,   \* total_pages: frames of managed memory
  BitmapPages,  \* frames page_bitmap has bits for (MAX_PAGES), > TotalPages
  InitMarks,    \* the frames pmm_init passes to pmm_mark_used, in order
  Counts        \* the counts callers pass to pmm_alloc_pages

ASSUME
  /\ TotalPages \in Nat /\ BitmapPages \in Nat /\ TotalPages < BitmapPages
  /\ InitMarks \in Seq(Nat)
  /\ Counts \subseteq Nat \ {0}

\* The bits of page_bitmap, and the (uint32_t)-1 of a failed search.
Pages  == 0..BitmapPages - 1
NoPage == -1

\* A run of frames handed to a caller.
Runs == [base : Pages, count : 1..BitmapPages]
Frames(r) == {r.base + j : j \in 0..r.count - 1}

VARIABLES
  bitmap,     \* the frames whose bit is set in page_bitmap
  usedPages,  \* used_pages
  held        \* held[o]: the runs owner o was given and has not freed

vars == <<bitmap, usedPages, held>>

-----------------------------------------------------------------------------
(* The searches, pmm.c 51-81.                                              *)

\* A find_free_page that scans the whole of page_bitmap.
FindFreePageWholeBitmap(bm) ==
  LET free == {i \in Pages : i \notin bm}
  IN  IF free = {} THEN NoPage ELSE Min(free)

\* find_free_page: the first clear bit below total_pages.
FindFreePage(bm) ==
  LET free == {i \in 0..TotalPages - 1 : i \notin bm}
  IN  IF free = {} THEN NoPage ELSE Min(free)

\* The bound total_pages - count + 1 of the outer loop, computed in 64-bit
\* unsigned arithmetic.  When count > total_pages + 1 it wraps to nearly
\* 2^64 and the loop runs on past total_pages; the model lets it run to the
\* end of page_bitmap.
LoopBound(count) ==
  IF count <= TotalPages + 1 THEN TotalPages - count + 1
  ELSE BitmapPages - count + 1

\* A search whose inner loop stops one frame short.
RECURSIVE ScanShort(_, _, _)
ScanShort(bm, i, count) ==
  IF i >= LoopBound(count) THEN NoPage
  ELSE LET hits == {j \in 0..count - 2 : i + j \in bm}
       IN  IF hits = {} THEN i ELSE ScanShort(bm, i + Min(hits) + 1, count)

\* A search that skips one frame too many after a set bit.
RECURSIVE ScanSkipMore(_, _, _)
ScanSkipMore(bm, i, count) ==
  IF i >= LoopBound(count) THEN NoPage
  ELSE LET hits == {j \in 0..count - 1 : i + j \in bm}
       IN  IF hits = {} THEN i ELSE ScanSkipMore(bm, i + Min(hits) + 2, count)

\* The outer loop from start i: the inner loop stops at the first set bit
\* i + j and `i += j` plus the loop's `i++` resumes at i + j + 1.
RECURSIVE Scan(_, _, _)
Scan(bm, i, count) ==
  IF i >= LoopBound(count) THEN NoPage
  ELSE LET hits == {j \in 0..count - 1 : i + j \in bm}
       IN  IF hits = {} THEN i ELSE Scan(bm, i + Min(hits) + 1, count)

\* find_free_pages.
FindFreePages(bm, count) ==
  CASE count = 0 -> NoPage
    [] count = 1 -> FindFreePage(bm)
    [] OTHER     -> Scan(bm, 0, count)

\* The reference: the lowest run of count clear bits inside managed memory.
FirstFitRef(bm, count) ==
  LET fits == {i \in 0..TotalPages - count :
                 \A j \in 0..count - 1 : i + j \notin bm}
  IN  IF fits = {} THEN NoPage ELSE Min(fits)

-----------------------------------------------------------------------------
(* Bitmap updates on a record [bm, used] standing for page_bitmap and      *)
(* used_pages.                                                            *)

\* pmm_mark_used(frame p).
MarkUsed(s, p) ==
  IF p >= TotalPages \/ p \in s.bm THEN s
  ELSE [bm |-> s.bm \cup {p}, used |-> s.used + 1]

\* pmm_free_page without the double-free check.
FreeFrameNoCheck(s, p) ==
  IF p = 0 \/ p >= TotalPages THEN s
  ELSE [bm |-> s.bm \ {p}, used |-> s.used - 1]

\* pmm_free_page(frame p): NULL, out-of-range and double frees do nothing.
FreeFrame(s, p) ==
  IF p = 0 \/ p >= TotalPages \/ p \notin s.bm THEN s
  ELSE [bm |-> s.bm \ {p}, used |-> s.used - 1]

\* pmm_free_pages(frame p, count).
FreeRun(s, p, count) ==
  FoldLeft(LAMBDA acc, j : FreeFrame(acc, p + j), s, [j \in 1..count |-> j - 1])

Store(s) == /\ bitmap' = s.bm /\ usedPages' = s.used
Cur    == [bm |-> bitmap, used |-> usedPages]

-----------------------------------------------------------------------------
\* pmm_init: clear the bitmap, then mark page 0, the kernel's frames and
\* the bitmap's own frames.
Init ==
  LET s == FoldLeft(MarkUsed, [bm |-> {}, used |-> 0], InitMarks)
  IN  /\ bitmap = s.bm
      /\ usedPages = s.used
      /\ held = [o \in Owners |-> {}]

\* pmm_alloc_page; a failed search returns 0 and changes nothing.
AllocPage(o) ==
  LET p == FindFreePage(bitmap) IN
  /\ p # NoPage
  /\ bitmap' = bitmap \cup {p}
  /\ usedPages' = usedPages + 1
  /\ held' = [held EXCEPT ![o] = @ \cup {[base |-> p, count |-> 1]}]

\* pmm_alloc_pages that counts one page whatever the count.
AllocPagesCountOne(o, count) ==
  LET p == FindFreePages(bitmap, count) IN
  /\ p # NoPage
  /\ bitmap' = bitmap \cup {p + j : j \in 0..count - 1}
  /\ usedPages' = usedPages + 1
  /\ held' = [held EXCEPT ![o] = @ \cup {[base |-> p, count |-> count]}]

\* pmm_alloc_pages(count); count 0 and a failed search return 0.
AllocPages(o, count) ==
  LET p == FindFreePages(bitmap, count) IN
  /\ p # NoPage
  /\ bitmap' = bitmap \cup {p + j : j \in 0..count - 1}
  /\ usedPages' = usedPages + count
  /\ held' = [held EXCEPT ![o] = @ \cup {[base |-> p, count |-> count]}]

\* The owner gives a run back: pmm_free_page for one frame,
\* pmm_free_pages for a run.
Free(o, r) ==
  /\ r \in held[o]
  /\ Store(FreeRun(Cur, r.base, r.count))
  /\ held' = [held EXCEPT ![o] = @ \ {r}]

\* A second pmm_free_page of a frame that is already free.
StrayFree(p) ==
  /\ p \notin bitmap
  /\ Store(FreeFrame(Cur, p))
  /\ UNCHANGED held

Next ==
  \/ \E o \in Owners :
       \/ AllocPage(o)
       \/ \E c \in Counts : AllocPages(o, c)
       \/ \E r \in held[o] : Free(o, r)
  \/ \E p \in Pages : StrayFree(p)

Spec == Init /\ [][Next]_vars

-----------------------------------------------------------------------------
HeldRuns == UNION {held[o] : o \in Owners}

TypeOK ==
  /\ bitmap \subseteq Pages
  /\ usedPages \in 0..BitmapPages
  /\ held \in [Owners -> SUBSET Runs]

\* used_pages is the number of set bits: alloc_pages adds its count,
\* mark_used counts a frame only when its bit was clear, and free_page
\* uncounts only a set bit (pmm_get_free_pages reports the difference).
UsedCounted == usedPages = Cardinality(bitmap)

\* No frame is handed out twice: the runs held are pairwise disjoint, their
\* bits are set, and none overlaps a frame pmm_init reserved.
Exclusive ==
  /\ \A r1, r2 \in HeldRuns : r1 # r2 => Frames(r1) \cap Frames(r2) = {}
  /\ \A r \in HeldRuns : Frames(r) \subseteq bitmap
  /\ \A r \in HeldRuns : Frames(r) \cap ToSet(InitMarks) = {}

\* Every frame handed out is one of the frames of managed memory, and never
\* frame 0, whose address 0 means failure (pmm.h: returns 0 when out of
\* memory).
WithinPool == \A r \in HeldRuns : Frames(r) \subseteq 1..TotalPages - 1

\* find_free_pages, with its skip-ahead, finds the lowest run of count
\* free frames whenever there is one, for every count the callers use.
FirstFit == \A c \in Counts : FindFreePages(bitmap, c) = FirstFitRef(bitmap, c)
=============================================================================
