---------------------------- MODULE AddressSpace ----------------------------
(***************************************************************************)
(* What vmm.h promises of the kernel's address space, with no page        *)
(* tables: a map from virtual pages to physical pages.  vmm_map_page sets *)
(* a translation or fails with -1 and changes none, vmm_unmap_page clears *)
(* one, vmm_get_physical returns it or 0.  The calls act on the current   *)
(* space; while another space is current they reach the kernel's only     *)
(* through the kernel half, which vmm_create_address_space shares with    *)
(* every space it makes (kactive is whether the kernel's space is         *)
(* current).  The other calls leave the kernel's translations alone.      *)
(***************************************************************************)
EXTENDS Integers, SequencesExt

CONSTANTS
  VAddrs,      \* the virtual pages
  UpperAddrs,  \* those in the kernel half
  Phys,        \* the physical pages
  None,        \* no translation
  InitMaps,    \* the <<virt, phys>> pairs vmm_init maps, in order
  KVAddrs,     \* the pages kernel callers map, unmap and look up
  PhysArgs     \* the physical pages callers map

VARIABLES
  kmap,     \* the kernel's translations
  kactive,  \* the kernel's space is the current one
  call      \* the last call: [op, v, p, val]

\* The map vmm_init leaves: each page it maps translates to the last
\* physical page it was given.
InitKMap ==
  FoldLeft(LAMBDA f, m : [f EXCEPT ![m[1]] = m[2]],
           [v \in VAddrs |-> None], InitMaps)

\* The call reaches the kernel's translation of v.
Reaches(v) == kactive \/ v \in UpperAddrs

Init ==
  /\ kmap = InitKMap
  /\ kactive = TRUE
  /\ call = [op |-> "init", v |-> <<>>, p |-> -1, val |-> 0]

Map(v, p) ==
  /\ \/ /\ call' = [op |-> "map", v |-> v, p |-> p, val |-> 0]
        /\ kmap' = IF Reaches(v) THEN [kmap EXCEPT ![v] = p] ELSE kmap
     \/ /\ call' = [op |-> "map", v |-> v, p |-> p, val |-> -1]
        /\ kmap' = kmap
  /\ UNCHANGED kactive

Unmap(v) ==
  /\ call' = [op |-> "unmap", v |-> v, p |-> -1, val |-> 0]
  /\ kmap' = IF Reaches(v) THEN [kmap EXCEPT ![v] = None] ELSE kmap
  /\ UNCHANGED kactive

\* Outside the kernel half of another space the answer is not the
\* kernel's to give.
Lookup(v) ==
  /\ \E x \in IF Reaches(v) THEN {IF kmap[v] = None THEN 0 ELSE kmap[v]}
                            ELSE Phys :
       call' = [op |-> "get_physical", v |-> v, p |-> -1, val |-> x]
  /\ UNCHANGED <<kmap, kactive>>

\* vmm_is_mapped is left free here; what it answers is stated apart.
IsMapped(v) ==
  /\ \E x \in {0, 1} :
       call' = [op |-> "is_mapped", v |-> v, p |-> -1, val |-> x]
  /\ UNCHANGED <<kmap, kactive>>

Switch ==
  /\ call'.op = "switch"
  /\ kactive' \in BOOLEAN
  /\ UNCHANGED kmap

\* Creating, filling and destroying another space.
Other ==
  /\ call'.op \in {"create", "manual_map", "destroy"}
  /\ UNCHANGED <<kmap, kactive>>

Next ==
  \/ \E v \in KVAddrs, p \in PhysArgs : Map(v, p)
  \/ \E v \in KVAddrs : Unmap(v) \/ Lookup(v) \/ IsMapped(v)
  \/ Switch
  \/ Other

Spec == Init /\ [][Next]_<<kmap, kactive, call>>
====
