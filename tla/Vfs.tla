--------------------------------- MODULE Vfs ---------------------------------
(***************************************************************************)
(* The virtual filesystem of NovaOS (kernel/fs/vfs.c) with the node        *)
(* operations the in-tree filesystem plugs into it (kernel/fs/simplefs.c): *)
(* the global descriptor table, the mount table, vfs_root, the registered  *)
(* filesystems, and the vfs_node_t objects simplefs allocates on the heap. *)
(*                                                                         *)
(* A path is the sequence of its components: <<>> is "/", <<n>> is "/n".   *)
(* The disk is the formatted SimpleFS volume and is read-only here (no     *)
(* code path writes a file): RootDir is the ordinal entries of the root    *)
(* directory block.  A heap node is a record [fs, ino, type, size, data],  *)
(* data saying whether its fs_data (the in-memory inode) was set; a free   *)
(* node id stands for heap room for one more vfs_node_t, so kmalloc fails  *)
(* when none is left.  Every call runs with interrupts masked (inside the  *)
(* int 0x80 gate or at bring-up), so each is one step.  ret is the last    *)
(* call and the value it returned.                                         *)
(***************************************************************************)
EXTENDS Integers, Sequences, FiniteSets, SequencesExt

CONSTANTS
  Fss,          \* filesystem_t handles (simplefs_create results)
  Names,        \* file names
  Paths,        \* absolute paths callers pass, as sequences of names
  MountPaths,   \* paths callers mount at
  RootDir,      \* the root directory's entries, in slot order
  RootSize,     \* the root inode's size
  MaxEntries,   \* BLOCK_SIZE / sizeof(simplefs_direntry_t)
  MaxOpen,      \* MAX_OPEN_FILES
  MaxMounts,    \* MAX_MOUNTS
  NodeIds,      \* heap room for vfs_node_t objects
  NULL,
  Offsets,      \* offsets callers pass to vfs_seek
  OffsetBits,   \* width of uint64_t (file->offset, new_offset)
  IntBits       \* width of the int vfs_seek returns

TypeDir  == 2   \* SIMPLEFS_TYPE_DIR = FILE_TYPE_DIRECTORY
TypeFile == 1   \* SIMPLEFS_TYPE_FILE = FILE_TYPE_REGULAR
\* SEEK_SET, SEEK_CUR, SEEK_END.
SeekSet == 0
SeekCur == 1
SeekEnd == 2

Entries == [name : Names, ino : Nat, type : {TypeFile, TypeDir}, size : Nat]

ASSUME
  /\ RootDir \in Seq(Entries \cup {[name |-> "", ino |-> 0]})
  /\ Paths \subseteq Seq(Names) /\ MountPaths \subseteq Seq(Names)
  /\ NULL \notin NodeIds

Fds    == 0..MaxOpen - 1
Slots  == 0..MaxMounts - 1
Nodes  == [fs : Fss, ino : Nat, type : {TypeFile, TypeDir}, size : Nat,
           data : BOOLEAN]
OpenFiles == [node : NodeIds, offset : Nat]
Mounts    == [path : MountPaths, fs : Fss, root : NodeIds]

VARIABLES
  fdTab,       \* file_descriptors: an open file, or NULL when !in_use
  mounts,      \* mounts: a mount, or NULL when !in_use
  vfsRoot,     \* vfs_root
  registered,  \* registered_fs[0 .. num_registered_fs - 1]
  heap,        \* heap[id]: the vfs_node_t at id, or NULL when free
  ret          \* the last call and the value it returned

vars == <<fdTab, mounts, vfsRoot, registered, heap, ret>>

-----------------------------------------------------------------------------
(* Heap nodes.                                                              *)

\* kmalloc(sizeof(vfs_node_t)): some free id, or NULL when the heap has no room.
Alloc(h, rec) ==
  LET free == {i \in NodeIds : h[i] = NULL}
  IN  IF free = {} THEN [h |-> h, id |-> NULL]
      ELSE LET i == CHOOSE x \in free : TRUE
           IN  [h |-> [h EXCEPT ![i] = rec], id |-> i]

\* simplefs_fs_get_root: the root inode and a directory node holding it.
GetRoot(h, fs) ==
  Alloc(h, [fs |-> fs, ino |-> 0, type |-> TypeDir, size |-> RootSize,
            data |-> TRUE])

\* simplefs_vfs_readdir(dir, i): a fresh node for a used slot of the root
\* directory block; fs_data is left unset (memset 0).
Readdir(h, dir, i) ==
  IF \/ dir = NULL
     \/ ~h[dir].data \/ h[dir].type # TypeDir
     \/ i >= MaxEntries \/ i >= Len(RootDir) \/ RootDir[i + 1].ino = 0
  THEN [h |-> h, id |-> NULL]
  ELSE LET e == RootDir[i + 1]
       IN  Alloc(h, [fs |-> h[dir].fs, ino |-> e.ino, type |-> e.type,
                     size |-> e.size, data |-> FALSE])

\* The slots finddir looks at: readdir up to the first slot it refuses.
Listed(h, dir) ==
  LET stop == {i \in 0..MaxEntries : Readdir(h, dir, i).id = NULL}
  IN  0..Min(stop) - 1

\* simplefs_vfs_finddir: readdir slot by slot, kfree each node that does
\* not match and return the one that does; the frees leave the heap as it
\* was, so only the match stays allocated.
FindDir(h, dir, name) ==
  LET hits == {i \in Listed(h, dir) : RootDir[i + 1].name = name}
  IN  IF hits = {} THEN [h |-> h, id |-> NULL]
      ELSE Readdir(h, dir, Min(hits))

\* vfs_resolve_path after its "/" and no-root cases: finddir component by
\* component; every found node stays allocated.
RECURSIVE Walk(_, _, _)
Walk(h, cur, path) ==
  IF path = <<>> THEN [h |-> h, id |-> cur]
  ELSE LET f == FindDir(h, cur, Head(path))
       IN  IF f.id = NULL THEN f ELSE Walk(f.h, f.id, Tail(path))

ResolvePath(h, path) ==
  IF path = <<>> THEN [h |-> h, id |-> vfsRoot]
  ELSE IF vfsRoot = NULL THEN [h |-> h, id |-> NULL]
  ELSE Walk(h, vfsRoot, path)

\* simplefs_vfs_read of a node: -1 without an inode or for a directory,
\* 0 at or past the end, else the bytes up to the end of the file.
NodeRead(nd, off, n) ==
  IF ~nd.data \/ nd.type # TypeFile THEN -1
  ELSE IF off >= nd.size THEN 0
  ELSE IF n < nd.size - off THEN n ELSE nd.size - off

\* (int) of a uint64_t: its low IntBits bits, signed.
ToInt(x) ==
  LET lo == x % 2^IntBits
  IN  IF lo >= 2^(IntBits - 1) THEN lo - 2^IntBits ELSE lo

\* vfs_alloc_fd: the lowest slot not in use, or -1.
AllocFd(tab) ==
  LET free == {f \in Fds : tab[f] = NULL}
  IN  IF free = {} THEN -1 ELSE Min(free)

\* vfs_get_fd: the open file of an fd in range and in use.
Valid(fd) == fd \in Fds /\ fdTab[fd] # NULL

-----------------------------------------------------------------------------
\* vfs_init.
Init ==
  /\ fdTab = [f \in Fds |-> NULL]
  /\ mounts = [s \in Slots |-> NULL]
  /\ vfsRoot = NULL
  /\ registered = <<>>
  /\ heap = [i \in NodeIds |-> NULL]
  /\ ret = [op |-> "init", val |-> 0]

\* A call that fails without changing anything.
Fail(op) ==
  /\ ret' = [op |-> op, val |-> -1]
  /\ UNCHANGED <<fdTab, mounts, vfsRoot, registered, heap>>

\* A vfs_register_filesystem whose bound check is off by one.
RegisterFilesystemPastEnd(fs) ==
  IF Len(registered) > MaxMounts THEN Fail("register")
  ELSE /\ registered' = Append(registered, fs)
       /\ ret' = [op |-> "register", val |-> 0]
       /\ UNCHANGED <<fdTab, mounts, vfsRoot, heap>>

\* vfs_register_filesystem(fs).
RegisterFilesystem(fs) ==
  IF Len(registered) >= MaxMounts THEN Fail("register")
  ELSE /\ registered' = Append(registered, fs)
       /\ ret' = [op |-> "register", val |-> 0]
       /\ UNCHANGED <<fdTab, mounts, vfsRoot, heap>>

\* vfs_mount(path, fs): the first free slot, a new root node from
\* get_root, and vfs_root when the path is "/".
Mount(path, fs) ==
  LET free == {s \in Slots : mounts[s] = NULL}
      r    == GetRoot(heap, fs)
  IN  IF free = {} \/ r.id = NULL THEN Fail("mount")
      ELSE /\ mounts' = [mounts EXCEPT ![Min(free)] =
                           [path |-> path, fs |-> fs, root |-> r.id]]
           /\ heap' = r.h
           /\ vfsRoot' = IF path = <<>> THEN r.id ELSE vfsRoot
           /\ ret' = [op |-> "mount", val |-> 0]
           /\ UNCHANGED <<fdTab, registered>>

\* vfs_unmount(path): clear the first slot mounted at path.
Unmount(path) ==
  LET hit == {s \in Slots : mounts[s] # NULL /\ mounts[s].path = path}
  IN  IF hit = {} THEN Fail("unmount")
      ELSE /\ mounts' = [mounts EXCEPT ![Min(hit)] = NULL]
           /\ ret' = [op |-> "unmount", val |-> 0]
           /\ UNCHANGED <<fdTab, vfsRoot, registered, heap>>

\* vfs_open(path, flags): resolve, node->open (0 for simplefs), then
\* vfs_alloc_fd.  Nodes finddir allocated stay allocated on every path.
Open(path) ==
  LET r  == ResolvePath(heap, path)
      fd == AllocFd(fdTab)
  IN  /\ heap' = r.h
      /\ IF r.id = NULL \/ fd = -1
         THEN ret' = [op |-> "open", val |-> -1] /\ UNCHANGED fdTab
         ELSE /\ fdTab' = [fdTab EXCEPT ![fd] = [node |-> r.id, offset |-> 0]]
              /\ ret' = [op |-> "open", val |-> fd]
      /\ UNCHANGED <<mounts, vfsRoot, registered>>

\* vfs_close(fd): node->close does nothing for simplefs; vfs_free_fd.
Close(fd) ==
  IF ~Valid(fd) THEN Fail("close")
  ELSE /\ fdTab' = [fdTab EXCEPT ![fd] = NULL]
       /\ ret' = [op |-> "close", val |-> 0]
       /\ UNCHANGED <<mounts, vfsRoot, registered, heap>>

\* vfs_read(fd, buf, n): node->read from the offset, which advances by a
\* positive result.
Read(fd, n) ==
  IF ~Valid(fd) THEN Fail("read")
  ELSE LET k == NodeRead(heap[fdTab[fd].node], fdTab[fd].offset, n)
       IN  /\ ret' = [op |-> "read", val |-> k]
           /\ fdTab' = IF k > 0 THEN [fdTab EXCEPT ![fd].offset = @ + k]
                       ELSE fdTab
           /\ UNCHANGED <<mounts, vfsRoot, registered, heap>>

\* vfs_write and vfs_mkdir: simplefs_vfs_write is a stub returning -1 and
\* simplefs_create leaves create_dir NULL, so both fail.
Write == Fail("write")
Mkdir == Fail("mkdir")

\* vfs_seek(fd, off, whence): the new offset in uint64_t arithmetic, stored,
\* and returned as an int.
Seek(fd, off, whence) ==
  IF ~Valid(fd) \/ whence \notin {SeekSet, SeekCur, SeekEnd} THEN Fail("seek")
  ELSE LET base == CASE whence = SeekSet -> 0
                     [] whence = SeekCur -> fdTab[fd].offset
                     [] whence = SeekEnd -> heap[fdTab[fd].node].size
           new  == (base + off) % 2^OffsetBits
       IN  /\ fdTab' = [fdTab EXCEPT ![fd].offset = new]
           /\ ret' = [op |-> "seek", val |-> ToInt(new)]
           /\ UNCHANGED <<mounts, vfsRoot, registered, heap>>

\* vfs_stat(path, buf): resolve and copy the node; the node stays allocated.
Stat(path) ==
  LET r == ResolvePath(heap, path)
  IN  /\ heap' = r.h
      /\ ret' = [op |-> "stat", val |-> IF r.id = NULL THEN -1 ELSE 0]
      /\ UNCHANGED <<fdTab, mounts, vfsRoot, registered>>

\* vfs_readdir(fd, dirent, i): dir->readdir and a copy into the dirent; the
\* node readdir allocated is not freed.
ReaddirFd(fd, i) ==
  IF ~Valid(fd) THEN Fail("readdir")
  ELSE LET r == Readdir(heap, fdTab[fd].node, i)
       IN  /\ heap' = r.h
           /\ ret' = [op |-> "readdir", val |-> IF r.id = NULL THEN -1 ELSE 0]
           /\ UNCHANGED <<fdTab, mounts, vfsRoot, registered>>

FdArgs == -1..MaxOpen

Next ==
  \/ \E fs \in Fss : RegisterFilesystem(fs)
  \/ \E p \in MountPaths, fs \in Fss : Mount(p, fs)
  \/ \E p \in MountPaths : Unmount(p)
  \/ \E p \in Paths : Open(p) \/ Stat(p)
  \/ \E fd \in FdArgs :
       \/ Close(fd)
       \/ Read(fd, 1)
       \/ \E off \in Offsets, w \in SeekSet..SeekEnd + 1 : Seek(fd, off, w)
       \/ \E i \in 0..MaxEntries : ReaddirFd(fd, i)
  \/ Write
  \/ Mkdir

Spec == Init /\ [][Next]_vars

-----------------------------------------------------------------------------
Referenced(i) ==
  \/ i = vfsRoot
  \/ \E s \in Slots : mounts[s] # NULL /\ mounts[s].root = i
  \/ \E f \in Fds : fdTab[f] # NULL /\ fdTab[f].node = i

TypeOK ==
  /\ fdTab \in [Fds -> OpenFiles \cup {NULL}]
  /\ mounts \in [Slots -> Mounts \cup {NULL}]
  /\ vfsRoot \in NodeIds \cup {NULL}
  /\ registered \in Seq(Fss) /\ Len(registered) <= MaxMounts
  /\ heap \in [NodeIds -> Nodes \cup {NULL}]
  /\ ret \in [op : STRING, val : Int]

\* vfs_root is the root of a live mount at "/" (spec.md 3: the mount whose
\* path is "/" designates the VFS root), across vfs_mount and vfs_unmount.
RootIsMounted ==
  vfsRoot # NULL =>
    \E s \in Slots : mounts[s] # NULL /\ mounts[s].path = <<>>
                     /\ mounts[s].root = vfsRoot

\* Every vfs_node_t on the heap is reachable from vfs_root, a mount or a
\* descriptor, so the node objects of open, stat, readdir and close are
\* given back.
NoNodeLeak ==
  \A i \in NodeIds : heap[i] # NULL => Referenced(i)

\* A file opened through vfs_open can be read: its node carries the inode
\* simplefs_vfs_read needs (spec.md 4.10: read advances the offset by the
\* bytes transferred).
OpenFilesReadable ==
  \A f \in Fds : fdTab[f] # NULL /\ heap[fdTab[f].node].type = TypeFile =>
                  heap[fdTab[f].node].data

\* A call that returns -1 leaves the descriptor table as it was (spec.md 6:
\* errors surface as -1); vfs_seek is the call that could break it.
FailLeavesFds == [][ret'.val = -1 => UNCHANGED fdTab]_vars

=============================================================================
