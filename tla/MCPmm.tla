------------------------------- MODULE MCPmm -------------------------------
(***************************************************************************)
(* Pmm for TLC: two owners, seven frames of managed memory in a bitmap of *)
(* eleven, frame 0 and one kernel frame reserved by pmm_init, and a      *)
(* bitmap address that truncates to a frame past total_pages.            *)
(***************************************************************************)
EXTENDS Pmm

CONSTANTS o1, o2

MCOwners == {o1, o2}
MCInitMarks == <<0, 1, 9>>
=============================================================================
