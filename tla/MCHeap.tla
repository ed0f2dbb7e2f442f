------------------------------- MODULE MCHeap -------------------------------
(***************************************************************************)
(* Heap for TLC: two callers, a one-page arena, four frames, and        *)
(* requests of 64 bytes (a vfs_node_t-sized object), 1000 bytes (one      *)
(* block that fits a page) and 3000 bytes (an expansion of 6064 bytes,    *)
(* which is not a whole number of pages).                                 *)
(***************************************************************************)
EXTENDS Heap

CONSTANTS a, b

MCOwners == {a, b}
=============================================================================
