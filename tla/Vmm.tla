-------------------------------- MODULE Vmm --------------------------------
(***************************************************************************)
(* The virtual memory manager of NovaOS (kernel/mm/vmm.c) and the page    *)
(* table walk process.c does for user processes (manual_map_page).        *)
(*                                                                         *)
(* Physical memory is a set of page numbers Pages; mem[f] is the content  *)
(* of page f read as a page table: an index of a level to an entry, which *)
(* is Absent (PAGE_PRESENT clear) or the page number the entry points to. *)
(* A virtual page is the tuple of its four indices <<PML4, PDPT, PD, PT>>, *)
(* each drawn from Idx (0..511 in the code, scaled down); UpperIdx are    *)
(* the PML4 indices 256..511 of the kernel half.  Flags other than        *)
(* PAGE_PRESENT and the page offset are left out.  pmm_alloc_page is the  *)
(* first fit of Pmm: the lowest free page, or 0 when none is left.        *)
(***************************************************************************)
EXTENDS Integers, FiniteSets, SequencesExt

CONSTANTS
  Pages,      \* the physical page numbers, 0 among them
  Idx,        \* the indices of one table level
  UpperIdx,   \* the PML4 indices of the kernel half
  KRoot,      \* the boot PML4 that vmm_init finds in CR3
  BootMem,    \* the tables the boot loader left, [Pages -> [Idx -> Entry]]
  BootFree,   \* the pages pmm_init left free
  InitMaps,   \* the <<virt, phys>> pairs vmm_init maps, in order
  KVAddrs,    \* the pages kernel callers map, unmap and look up
  UVAddrs,    \* the pages process_create_user maps in a new space
  PhysArgs    \* the physical pages callers map

Absent == -1
Entry == Pages \cup {Absent}
ZeroPage == [i \in Idx |-> Absent]
LowerIdx == Idx \ UpperIdx
VAddrs == KVAddrs \cup UVAddrs \cup {m[1] : m \in Range(InitMaps)}

VARIABLES
  mem,     \* the page tables in physical memory
  free,    \* the pages free in the PMM bitmap
  cur,     \* current_pml4
  spaces,  \* the PML4s vmm_create_address_space returned, not destroyed
  call     \* the last call: [op, v, p, val]

vars == <<mem, free, cur, spaces, call>>

-----------------------------------------------------------------------------
(* Table operations on a record s = [mem, free] of physical memory and    *)
(* the PMM bitmap.                                                         *)

\* get_or_create_table(table t, index i): the table the entry points to,
\* or a new zeroed table from pmm_alloc_page, or 0 when it fails.
GetOrCreateTable(s, t, i) ==
  IF s.mem[t][i] # Absent
  THEN [mem |-> s.mem, free |-> s.free, tbl |-> s.mem[t][i]]
  ELSE IF s.free = {}
  THEN [mem |-> s.mem, free |-> s.free, tbl |-> 0]
  ELSE LET f == Min(s.free)
       IN  [mem |-> [s.mem EXCEPT ![f] = ZeroPage, ![t][i] = f],
            free |-> s.free \ {f}, tbl |-> f]

\* vmm_map_page(v, p) in the space rooted at pml4: the three tables
\* are found or made in turn, and the first failure returns -1 with the
\* tables made before it left in place.
MapIn(s, pml4, v, p) ==
  LET s1 == GetOrCreateTable(s, pml4, v[1])
      s2 == GetOrCreateTable(s1, s1.tbl, v[2])
      s3 == GetOrCreateTable(s2, s2.tbl, v[3])
  IN  IF s1.tbl = 0 THEN [mem |-> s1.mem, free |-> s1.free, ret |-> -1]
      ELSE IF s2.tbl = 0 THEN [mem |-> s2.mem, free |-> s2.free, ret |-> -1]
      ELSE IF s3.tbl = 0 THEN [mem |-> s3.mem, free |-> s3.free, ret |-> -1]
      ELSE [mem |-> [s3.mem EXCEPT ![s3.tbl][v[4]] = p],
            free |-> s3.free, ret |-> 0]

\* The page table that holds v's entry, or Absent when a level above it
\* is not present: the walk of vmm_unmap_page and vmm_get_physical.
PageTable(m, pml4, v) ==
  LET pdpt == m[pml4][v[1]]
      pd   == IF pdpt = Absent THEN Absent ELSE m[pdpt][v[2]]
  IN  IF pd = Absent THEN Absent ELSE m[pd][v[3]]

\* The entry that translates v, or Absent.
Translate(m, pml4, v) ==
  LET pt == PageTable(m, pml4, v)
  IN  IF pt = Absent THEN Absent ELSE m[pt][v[4]]

\* manual_map_page's get-or-create: it never checks pmm_alloc_page, so
\* when no page is free it zeroes page 0 and installs it as the table.
ManualTable(s, t, i) ==
  IF s.mem[t][i] # Absent
  THEN [mem |-> s.mem, free |-> s.free, tbl |-> s.mem[t][i]]
  ELSE LET f == IF s.free = {} THEN 0 ELSE Min(s.free)
       IN  [mem |-> [s.mem EXCEPT ![f] = ZeroPage, ![t][i] = f],
            free |-> s.free \ {f}, tbl |-> f]

\* manual_map_page(pml4, v, p).
ManualMapIn(s, pml4, v, p) ==
  LET s1 == ManualTable(s, pml4, v[1])
      s2 == ManualTable(s1, s1.tbl, v[2])
      s3 == ManualTable(s2, s2.tbl, v[3])
  IN  [mem |-> [s3.mem EXCEPT ![s3.tbl][v[4]] = p], free |-> s3.free]

Present(m, t, is) == {m[t][i] : i \in {i \in is : m[t][i] # Absent}}

\* A destroy whose outer loop runs over all 512 PML4 entries.
LowerTablesWholePml4(m, pml4) ==
  LET pdpts == Present(m, pml4, Idx)
      pds   == UNION {Present(m, d, Idx) : d \in pdpts}
      pts   == UNION {Present(m, d, Idx) : d \in pds}
  IN  pdpts \cup pds \cup pts \cup {pml4}

\* The tables below the lower half of pml4 that
\* vmm_destroy_address_space frees, the PML4 itself included.
LowerTables(m, pml4) ==
  LET pdpts == Present(m, pml4, LowerIdx)
      pds   == UNION {Present(m, d, Idx) : d \in pdpts}
      pts   == UNION {Present(m, d, Idx) : d \in pds}
  IN  pdpts \cup pds \cup pts \cup {pml4}

\* pmm_free_page of each of them: a free of page 0 does nothing.
FreeAll(fr, ps) == fr \cup (ps \ {0})

-----------------------------------------------------------------------------
(* vmm_init: the boot tables with the identity map of low memory and the *)
(* kernel image in the higher half mapped page by page.  A failed          *)
(* vmm_map_page is ignored.                                                *)
Booted ==
  FoldLeft(LAMBDA s, m : LET r == MapIn(s, KRoot, m[1], m[2])
                         IN  [mem |-> r.mem, free |-> r.free],
           [mem |-> BootMem, free |-> BootFree], InitMaps)

Init ==
  /\ mem = Booted.mem
  /\ free = Booted.free
  /\ cur = KRoot
  /\ spaces = {}
  /\ call = [op |-> "init", v |-> <<>>, p |-> -1, val |-> 0]

-----------------------------------------------------------------------------
(* The calls.  Each sets call to its name, arguments and return value.    *)

Mem == [mem |-> mem, free |-> free]

\* vmm_map_page(v, p, PAGE_FLAGS_KERNEL) from heap_expand and the kernel's
\* own tests, in the current space.
MapPage(v, p) ==
  LET r == MapIn(Mem, cur, v, p)
  IN  /\ mem' = r.mem
      /\ free' = r.free
      /\ call' = [op |-> "map", v |-> v, p |-> p, val |-> r.ret]
      /\ UNCHANGED <<cur, spaces>>

\* vmm_unmap_page(v): clears the entry, frees no table.
UnmapPage(v) ==
  LET pt == PageTable(mem, cur, v)
  IN  /\ mem' = IF pt = Absent THEN mem ELSE [mem EXCEPT ![pt][v[4]] = Absent]
      /\ call' = [op |-> "unmap", v |-> v, p |-> -1, val |-> 0]
      /\ UNCHANGED <<free, cur, spaces>>

\* vmm_get_physical(v): the page, or 0 when v is not mapped.
GetPhysical(v) ==
  LET e == Translate(mem, cur, v)
  IN  /\ call' = [op |-> "get_physical", v |-> v, p |-> -1,
                  val |-> IF e = Absent THEN 0 ELSE e]
      /\ UNCHANGED <<mem, free, cur, spaces>>

\* vmm_is_mapped(v): vmm_get_physical(v) != 0.
IsMapped(v) ==
  LET e == Translate(mem, cur, v)
  IN  /\ call' = [op |-> "is_mapped", v |-> v, p |-> -1,
                  val |-> IF e = Absent \/ e = 0 THEN 0 ELSE 1]
      /\ UNCHANGED <<mem, free, cur, spaces>>

\* A create whose copy loop starts at entry 0.
CreateAddressSpaceWholeCopy ==
  \/ /\ free = {}
     /\ call' = [op |-> "create", v |-> <<>>, p |-> -1, val |-> 0]
     /\ UNCHANGED <<mem, free, cur, spaces>>
  \/ /\ free # {}
     /\ LET f == Min(free)
        IN  /\ mem' = [mem EXCEPT ![f] = mem[cur]]
            /\ free' = free \ {f}
            /\ spaces' = spaces \cup {f}
            /\ call' = [op |-> "create", v |-> <<>>, p |-> -1, val |-> f]
     /\ UNCHANGED cur

\* A create that does not check pmm_alloc_page.
CreateAddressSpaceNoCheck ==
  LET f == IF free = {} THEN 0 ELSE Min(free)
  IN  /\ mem' = [mem EXCEPT ![f] = [i \in Idx |->
                   IF i \in UpperIdx THEN mem[cur][i] ELSE Absent]]
      /\ free' = free \ {f}
      /\ spaces' = spaces \cup {f}
      /\ call' = [op |-> "create", v |-> <<>>, p |-> -1, val |-> f]
      /\ UNCHANGED cur

\* vmm_create_address_space: a zeroed PML4 whose kernel half is a copy of
\* the current one, or 0 when pmm_alloc_page fails.
CreateAddressSpace ==
  \/ /\ free = {}
     /\ call' = [op |-> "create", v |-> <<>>, p |-> -1, val |-> 0]
     /\ UNCHANGED <<mem, free, cur, spaces>>
  \/ /\ free # {}
     /\ LET f == Min(free)
        IN  /\ mem' = [mem EXCEPT ![f] = [i \in Idx |->
                         IF i \in UpperIdx THEN mem[cur][i] ELSE Absent]]
            /\ free' = free \ {f}
            /\ spaces' = spaces \cup {f}
            /\ call' = [op |-> "create", v |-> <<>>, p |-> -1, val |-> f]
     /\ UNCHANGED cur

\* manual_map_page(pml4, v, p, PAGE_FLAGS_USER) from process_create_user,
\* on a space it created and has not switched to.
ManualMapPage(r, v, p) ==
  LET s == ManualMapIn(Mem, r, v, p)
  IN  /\ r \in spaces
      /\ mem' = s.mem
      /\ free' = s.free
      /\ call' = [op |-> "manual_map", v |-> v, p |-> p, val |-> r]
      /\ UNCHANGED <<cur, spaces>>

\* vmm_destroy_address_space(r), called by process_create_user on a
\* space it created and never switched to.
DestroyAddressSpace(r) ==
  /\ r \in spaces
  /\ r # cur
  /\ free' = FreeAll(free, LowerTables(mem, r))
  /\ spaces' = spaces \ {r}
  /\ call' = [op |-> "destroy", v |-> <<>>, p |-> -1, val |-> r]
  /\ UNCHANGED <<mem, cur>>

\* vmm_switch_page_directory(r).
SwitchPageDirectory(r) ==
  /\ cur' = r
  /\ call' = [op |-> "switch", v |-> <<>>, p |-> -1, val |-> r]
  /\ UNCHANGED <<mem, free, spaces>>

Next ==
  \/ \E v \in KVAddrs, p \in PhysArgs : MapPage(v, p)
  \/ \E v \in KVAddrs : UnmapPage(v) \/ GetPhysical(v) \/ IsMapped(v)
  \/ CreateAddressSpace
  \/ \E r \in spaces, v \in UVAddrs, p \in PhysArgs : ManualMapPage(r, v, p)
  \/ \E r \in spaces : DestroyAddressSpace(r)
  \/ \E r \in spaces \cup {KRoot} : SwitchPageDirectory(r)

Spec == Init /\ [][Next]_vars

-----------------------------------------------------------------------------
(* Properties.                                                             *)

TypeOK ==
  /\ mem \in [Pages -> [Idx -> Entry]]
  /\ free \subseteq Pages \ {0}
  /\ spaces \subseteq Pages \ {0}
  /\ cur \in spaces \cup {KRoot}
  /\ call.op \in {"init", "map", "unmap", "get_physical", "is_mapped",
                  "create", "manual_map", "destroy", "switch"}

\* Every page that is a table of a live space: its PML4 and every PDPT, PD
\* and PT reachable from it.
Tables(m, pml4) ==
  LET pdpts == Present(m, pml4, Idx)
      pds   == UNION {Present(m, d, Idx) : d \in pdpts}
      pts   == UNION {Present(m, d, Idx) : d \in pds}
  IN  {pml4} \cup pdpts \cup pds \cup pts

\* No table of the kernel space or of a space a process still holds is
\* free in the PMM: vmm_destroy_address_space frees only the lower half,
\* whose tables no other space shares, and get_or_create_table takes its
\* pages from the PMM.  A page freed while still a table is handed out
\* again and zeroed, and every space sharing it loses its mappings.
TablesOwned ==
  \A r \in spaces \cup {KRoot} : Tables(mem, r) \cap free = {}

\* vmm_is_mapped answers whether the page has a translation in the current
\* space, as vmm.h documents it.
MappedReported ==
  call.op = "is_mapped" => (call.val = 1 <=> Translate(mem, cur, call.v) # Absent)

\* The translations of the kernel space, the one vmm_init set up.
KTrans == [v \in VAddrs |-> Translate(mem, KRoot, v)]

Abs == INSTANCE AddressSpace
         WITH kmap <- KTrans, kactive <- (cur = KRoot), None <- Absent,
              Phys <- Pages, UpperAddrs <- {v \in VAddrs : v[1] \in UpperIdx}

\* The page tables implement the kernel's address space as AddressSpace
\* describes it: vmm_map_page sets one translation, vmm_unmap_page clears
\* one, vmm_get_physical returns it, and no other call changes one.
KernelRefines == Abs!Spec
====
