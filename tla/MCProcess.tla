------------------------------ MODULE MCProcess ------------------------------
(***************************************************************************)
(* Process for TLC: two process_t structures and a table of one slot, so  *)
(* that a second creation finds it full; 22 frames, frame 0 and the      *)
(* kernel's frame 1 reserved, so that one kernel task (4 frames) and one  *)
(* user process (4 + 4 + 1 + 4 + 3 frames) fit.                           *)
(***************************************************************************)
EXTENDS Process

CONSTANTS p1, p2

MCProcs == {p1, p2}
MCProcInitMarks == <<0, 1>>
==============================================================================
