-------------------------------- MODULE MCVfs --------------------------------
(***************************************************************************)
(* Vfs for TLC: one simplefs handle, two names, at most two descriptors,   *)
(* two mounts and three vfs_node_t objects of heap room.  MCRootDir is a   *)
(* volume whose root directory holds a file and a directory; the volume    *)
(* simplefs_format leaves behind is EmptyDir.                               *)
(***************************************************************************)
EXTENDS Vfs

CONSTANTS fs1, n1, n2

MCNames      == {n1, n2}
MCPaths      == {<<>>, <<n1>>, <<n2>>, <<n2, n1>>}
MCMountPaths == {<<>>, <<n2>>}
MCRootDir    ==
  << [name |-> n1, ino |-> 1, type |-> TypeFile, size |-> 2],
     [name |-> n2, ino |-> 2, type |-> TypeDir, size |-> 0] >>
EmptyDir     == << >>
MCOffsets    == {-1, 1}
=============================================================================
