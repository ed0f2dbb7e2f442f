------------------------------- MODULE MCVmm -------------------------------
(***************************************************************************)
(* Vmm for TLC: two indices per level, the second PML4 index the kernel  *)
(* half.  Page 0 is low memory and page 1 the kernel image, both          *)
(* reserved; the boot PML4 is page 2 with the kernel half's PDPT in page  *)
(* 3, and page 13 is a page a caller took for data.  vmm_init maps pages *)
(* a and b of low memory to themselves and u, the                        *)
(* kernel image in the higher half, to page 1, which takes five of the    *)
(* nine free pages.  c lies under a PDPT entry of its own.                *)
(***************************************************************************)
EXTENDS Vmm

MCPages == 0..13
MCIdx == {0, 1}
a == <<0, 0, 0, 0>>
b == <<0, 0, 0, 1>>
c == <<0, 1, 0, 0>>
u == <<1, 0, 0, 0>>
MCBootMem ==
  [p \in MCPages |-> IF p = 2 THEN [i \in MCIdx |-> IF i = 1 THEN 3 ELSE Absent]
                     ELSE [i \in MCIdx |-> Absent]]
MCBootFree == 4..12
MCInitMaps == << <<a, 0>>, <<b, 1>>, <<u, 1>> >>
MCKVAddrs == {a, c, u}
MCUVAddrs == {a, b}

\* The behaviours in which every manual_map_page found a free page for
\* each table it made: no live space has page 0 among its tables.
NoZeroTable == \A r \in spaces \cup {KRoot} : 0 \notin Tables(mem, r)
====
