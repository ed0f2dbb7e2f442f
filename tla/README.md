# TLA+ models of NovaOS

This directory holds TLA+ specifications of the NovaOS kernel in `src/`, along with the TLC
configurations that check them. NovaOS is a single-CPU x86_64 kernel written in C.
`PROJECT.json` gives the same information in machine-readable form:
- which source lines each definition models (`map`);
- the runs;
- the mutants that show each property can fail;
- the findings;
- the hazards.

## 1. The system

The spec names components C1–C14. The source implements them as follows.

| Component | Source | State | Operations |
|---|---|---|---|
| C1 bring-up | `kernel/main.c` | none of its own | `init_subsystems` (fixed order), `test_multitasking` |
| C2 frame allocator | `unnamed/part_010` (pmm.c) | bitmap, `used_pages`, `total_pages` | init, alloc/free page(s), mark used |
| C3 address spaces | `kernel/mm/vmm.c` | 4-level tables, `current_pml4` cache | map/unmap, get_physical, create/destroy/switch address space |
| C4 heap | `kernel/mm/heap.c` | block list, `heap_end`, `heap_size` | kmalloc/kzalloc/kmalloc_aligned/kfree/krealloc, expand |
| C5 GDT/TSS | `arch/x86_64/gdt.c`, `syscall.c` 290–357 (an older five-entry gdt.c is in `unnamed/part_008`) | static descriptors, one `rsp0` | `gdt_init`, `tss_init` |
| C6 vectors | `unnamed/part_009` (isr.c), `unnamed/part_011`, `idt.c` | `interrupt_handlers[256]` | register/unregister, `isr_common_handler` |
| C7 PIC + PIT | `unnamed/part_008` (pic), `drivers/timer.c` | PIC ISR/IMR, `timer_ticks` | EOI, `timer_handler`, waits |
| C8 tasks | `kernel/sched/process.c` | task table, `current_process`, task control blocks | create kernel/user task, exit, sleep, wakeup, kill |
| C9 scheduler | `kernel/sched/scheduler.c` | intrusive ready list (head, tail, next/prev) | add, remove, pick, schedule, yield, block, unblock |
| C10 syscalls | `kernel/arch/x86_64/syscall.c` | handler table | dispatcher; exit, write, read, open, close, getpid, sleep, yield, time, putchar, getchar |
| C11 VFS | `kernel/fs/vfs.c` | mounts, global fd table, `vfs_root` | mount/unmount, resolve, open/close/read/write/seek/stat/readdir |
| C12 block layer | `drivers/block.c` | device table | register, read, write |
| C13 ATA PIO | `drivers/ata.c` | drive table | identify, read/write sectors |
| C14 SimpleFS | `kernel/fs/simplefs.c` | superblock, inodes on disk | format, inode read/write, readdir, finddir |

The console (`unnamed/part_007`) and the string helpers (`unnamed/part_016`) have no interesting state.
`unnamed/part_006` is an older copy of process.c.

### How the parts interact

The scheduler and the task model are the centre of the system:
- Tasks enter the kernel through `int 0x80`, which reaches the syscall dispatcher.
- The syscalls `sleep`, `yield` and `exit` call `process_sleep`, `scheduler_yield` and `process_exit`.
- Those functions raise vector 32 (`int 0x20` or `int $32`).
- Vector 32 dispatches through `isr_common_handler` to `scheduler_schedule`.
- The PIT's IRQ0 uses the same vector.

`main.c` runs `timer_init(100)` and then `scheduler_init`. Each one registers a handler for vector 32. The handler table has one slot per vector, so `scheduler_schedule` replaces `timer_handler`, which has two consequences:
- **Ticks are frozen.** `timer_ticks` is never incremented, so it stays 0.
- **IRQ0 is never acknowledged.** Only `timer_handler` sends `pic_send_eoi`, and the entry stubs do not acknowledge the controller (spec §4.5–4.6; the stubs are not in `src/`). IRQ0's in-service bit stays set after the first delivery, so the timer preempts exactly once.

All gates are interrupt gates, so IF is clear in every handler and syscall. Together with the single IRQ0, this means every kernel operation a task performs is atomic.

The memory managers and the filesystem stack are sequential libraries:
- the heap calls the VMM, which calls the PMM;
- the VFS calls SimpleFS, which calls the block layer, which calls ATA.

Their hazards are boundary and partial-failure cases, not interleavings of tasks. The one concurrency among them is between the ATA driver and the drive it polls, which runs on its own.

### Hard behaviours by component

- **Scheduler/tasks:**
  - `scheduler_remove_process` trusts a task's links.
  - `pick_next` ignores the task's state.
  - Zombie and dead tasks are never reaped.
  - A task that blocks while alone keeps running.
  - The idle task never yields.
  - A ring-3 task that exits halts with IF clear.
- **Vectors/PIC/PIT:** the handler slot is overwritten and the EOI is lost.
- **PMM:** the contiguous search can underflow; a double free is only warned about.
- **Heap:**
  - a partial expansion leaks frames;
  - the expansion gap;
  - `kmalloc_aligned` followed by `kfree`;
  - split and coalesce keep the block sizes summing to the heap size (spec §8.3).
- **VMM:** `current_pml4` goes stale after the scheduler's CR3 load; physical page 0 looks unmapped; `manual_map_page` installs page 0 as a table when frames run out.
- **VFS:**
  - open can fail after the node is opened;
  - unmounting `/` leaves a stale root;
  - seek offsets wrap or truncate.
- **SimpleFS:** readdir leaks nodes and leaves children unreadable.
- **Block/ATA:**
  - a write the drive fails to commit is reported written (ERR is never read after the data or the flush);
  - a DRQ left over from a timed-out command can serve the next command;
  - the cache flush is written while the drive is busy;
  - LBA28 truncation; `block_read` can overrun the caller's buffer.

Each is listed under `hazards` in `PROJECT.json` at the line where it bites.

## 2. Plan

Modules in order of importance:

1. **`ReadyQueue` + `Scheduler` + `MCScheduler`** (this development):
   - the task lifecycle and the linked ready list;
   - vector-32 scheduling;
   - refinement of the round-robin FIFO.
2. **`Pmm`** (done): the frame bitmap.
   - Invariants: used + free = total, and no frame is handed out twice.
   - `find_free_pages` written as an operator and checked against a reference definition of "first run of `count` free frames".
3. **`Heap`** (done): the block list with split, coalesce and expansion.
   - The list is ordered and non-overlapping, and no two adjacent blocks are both free.
   - A `kmalloc` result is never inside another live block.
   - The block sizes sum to `heap_size`; every frame taken backs the arena.
   - Still to do: compose with `Pmm` for `heap_expand`, naming the frames instead of counting them.
4. **`Vmm` + `AddressSpace`** (done): the page tables as pages of physical memory, refining a map from page to frame.
   - `create_address_space` shares the upper half.
   - Still to do: check the `current_pml4` cache against the CR3 the scheduler loads, by composing `Vmm` with `Scheduler`.
5. **`Syscall` + `Gdt`** (done): the dispatcher table and handlers over the scheduler, the descriptor tables built byte for byte, and the shared `rsp0`.
6. **`Vfs`** (done for vfs.c and the simplefs node operations):
   - the mount table and the global descriptor table;
   - open/close/seek;
   - readdir leaks.
7. **`Ata` + `Storage`** (done): the status-register polling protocol against a drive model, composed with the block I/O of `test_filesystem`, `simplefs_format`, `simplefs_create` and the mount.

## 3. What is modelled

### `ReadyQueue.tla`: the abstract promise

A sequence `queue` of distinct tasks with these actions:
- `Enqueue`: append at the tail;
- `Dequeue`: remove a queued task;
- `Rotate`: the pick, which moves the head to the tail;
- `DequeueAndRotate`: `scheduler_block`, which removes the running task and picks, in one step.

### `Scheduler.tla`: scheduler.c, process.c and vector 32

Variables:

| Variable | Code |
|---|---|
| `state[t]` | `process->state` |
| `sleepUntil[t]` | `process->sleep_until` |
| `rq` | `ready_queue_head`, `ready_queue_tail` and each task's `next`/`prev` |
| `current` | `current_process` (`NIL` for the boot thread) |
| `pc[t]` | whether a task is still calling the kernel or is parked in the `while(1) hlt` after `process_exit` |
| `irq0InService` | the PIC's in-service bit for IRQ0 |

`Now` is the frozen tick count, 0.

Definitions:
- **`AddProcess` and `RemoveProcess`** are the list functions statement by statement. Remove does no membership check, exactly as in the code.
- **`Schedule(st, su, L)`** is `scheduler_schedule` with `pick_next` and `process_wakeup_sleeping`, called on the state the entering operation left. It has three outcomes:
  - empty queue: only the wakeups happen;
  - the head is the current task: it is rotated and left READY;
  - otherwise a switch: the old task is demoted if it was RUNNING, and the new one becomes RUNNING and current.

  The register copy, the CR3 load and the statistics counters are left out. No property reads them.
- **Actions:**
  - `TimerIrq`: IRQ0 while not in service and IF is set;
  - `Exit`, `Sleep`, `Yield`, `Block`, `Unblock` and `Kill`: each is the whole C function, including the trailing `int 0x20` or `scheduler_yield`, which makes it a `Schedule`.
  - `scheduler_block` and `scheduler_unblock` have no caller in `src/`: they are modelled as the API a driver or IPC path would call, and the properties about them say what would happen if one did.
- **Inputs:**
  - `Prog[t]` says which operations task `t`'s code calls;
  - in `Next`, ring-3 tasks only reach exit, sleep (with n ≥ 1, the rounding in `sys_sleep`) and yield; `Syscall` replaces this by the dispatcher itself.
- **`Init`** is the state after `process_init`, the creations and the `scheduler_add_process` calls of `test_multitasking`, in the order main.c makes them.

`MCScheduler.tla` gives the task sets and programs:
- `u` is the ring-3 task;
- `t1`–`t3` are kernel tasks;
- `idle` is the idle task;
- `ProgInTree` is what the tasks in main.c actually call.

### Fairness

`WF` on `TimerIrq`: the PIT keeps raising IRQ0, so it is taken whenever it is deliverable.

`WF` on each task's `TaskStep`: a task on the CPU keeps executing and its loop reaches its next kernel call. This holds for t1–t3 and the user task in main.c. The idle task's `Prog` is empty, so the fairness asks nothing of it.

### `Syscall.tla`: the int 0x80 dispatcher (`arch/x86_64/syscall.c`) over the scheduler

`Syscall` extends `Scheduler` and `Gdt`. Ring-3 tasks reach the kernel only through `Dispatch`; kernel tasks and the timer act as in `Scheduler` (`KernelStep`).

| Variable | Code |
|---|---|
| `trap` | the last `int 0x80` of a ring-3 task: caller, `regs->rax` on entry, the argument register, `regs->rax` on return |
| `inSyscall` | ring-3 tasks switched away inside a handler, whose trap frame is still on the stack `TSS.rsp0` names |

Definitions:
- **`SyscallTable`** is `syscall_init`: a cleared table folded over `Registrations` with `SyscallRegister`, which ignores numbers past the table. It is a definition because it is fixed before any task runs.
- **`Handler(num)`** is the dispatcher's two checks in its order: the bound, then the empty slot.
- **`Dispatch(c, num, a)`** is `syscall_dispatcher` with the handler it calls. An empty slot returns -1. exit, sleep and yield are the scheduler's `Exit`, `Sleep` and `Yield`. `SysSleep` returns at once for 0 ms and otherwise sleeps `Ticks(ms)`, `(ms + 9) / 10` modulo the word. The other handlers only compute rax (`SysWrite`, `SysOpen`, `SysVfs`, `SysGetpid`, `SysTime`, `SysPutchar`, `SysGetchar`).
- **`Frame(t)`** is the frame the scheduler's `iretq` returns through when it switches to `t`. The scheduler saved `regs->cs` and `regs->ss` when `t` was switched out, so this is `t`'s initial context (`KernelContext`, `UserContext`), unless a ring-3 `t` was switched out inside a handler. Then it is the nested `int 0x20` taken in ring 0, with the null SS the processor loads on entry from ring 3.

Properties:
- `UnregisteredRejected` is correctness property 6 of the spec.
- `SleepRoundsUp` is §4.9's rounding and the `sleep_ms(0)` boundary case.
- `SegmentsLoadable` decodes every selector load against the tables `Gdt` builds. The loads are:
  - `gdt_init`'s reloads and `ltr`, under which the boot thread runs until the first switch;
  - each switch's `iretq`, at the privilege of the frame's cs; a ring-3 frame also needs IOPL 0 and no I/O bitmap;
  - each `int 0x80` from ring 3, through a DPL-3 gate onto `rsp0`.
- `KernelStackExclusive` says no `int 0x80` lands on `interrupt_stack` while another ring-3 task's frame is live there.

`MCSyscall.tla` adds to `MCScheduler` the pids `alloc_pid` hands out in main.c's creation order, an address for `kernel_tss` in the kernel BSS, and a variant with two ring-3 tasks.

### `Gdt.tla`: the descriptor tables (`arch/x86_64/gdt.c`, `tss_init`, `idt_set_gate`)

The GDT is the 56 bytes of `uint64_t gdt[7]`, a function from offset to byte:
- `GdtSetGate` and `GdtSetTss` pack their arguments into the fields of the packed `gdt_entry_t` and `tss_descriptor_t`. They use the code's own masks and shifts, through the `Bitwise` module.
- `Gdt` is `gdt_init`'s sequence of calls.
- `TssInit` is `tss_init`'s `rsp0` and `iomap_base`.
- `IdtGate` gives the selector and type attribute of the gate for each vector.

A 64-bit address is four 16-bit words, because TLC's integers have 32 bits.

The second half of the module is the reference: the processor's reading of a descriptor (Intel SDM vol. 3). It uses arithmetic on bytes, independent of the packing, and says which CS, SS, data-segment, TSS and gate loads are accepted. The tables are constants, so TLC evaluates them once.

### `Pmm.tla`: the frame allocator (pmm.c, `unnamed/part_010`)

Variables:
- `bitmap`: the set bits of `page_bitmap`;
- `usedPages`: `used_pages`;
- `held[o]`: the runs of frames that caller `o` holds.

Search operators:
- `FindFreePage` is `find_free_page`.
- `Scan` is the outer loop of `find_free_pages`, written as a RECURSIVE operator that includes the `i += j` skip-ahead.
- `LoopBound` is the loop bound `total_pages - count + 1` in unsigned arithmetic. When that wraps, the scan runs on past `total_pages`.
- `FirstFitRef` is the reference definition the search is checked against.

Bitmap updates:
- `MarkUsed`, `FreeFrame` and `FreeRun` are the bitmap updates of `pmm_mark_used`, `pmm_free_page` and `pmm_free_pages`.
- `Init` folds `MarkUsed` over the frames that `pmm_init` marks.

Actions:
- `AllocPage`, `AllocPages` and `Free`, one per operation;
- `StrayFree`, a double free of a frame that is already free, which reaches the code's double-free check.

`MCPmm.tla` sets up the instance:
- two owners;
- seven managed frames in a bitmap of eleven;
- frame 0 and one kernel frame reserved;
- a third mark past `total_pages`, standing for the bitmap's virtual address that `pmm_init` truncates.

### `Process.tla`: task creation (`kernel/sched/process.c`) over the frame allocator

`Process` extends `Pmm`: the `process_t` structures kzalloc can return (`Procs`) are owners of frames.

Variables:
- `table`: `process_table`, `MaxProcesses` slots (256 in the code, scaled down);
- `nextPid` and `processCount`: `next_pid` and `process_count`;
- `pid[p]`: the pid `alloc_pid` gave structure `p`.

Actions, each one whole call from entry to its return:
- `CreateKernelTask(p)`: `alloc_pid`, a four-frame kernel stack, `add_process`. A failed stack allocation, or a full table, returns NULL after giving the stack back.
- `CreateUser(p)`: the kernel stack, the user stack, the PML4 of `vmm_create_address_space`, four code frames, and the PDPT, PD and PT that the first `manual_map_page` makes (all eight user pages share one page table), then `add_process`. Every early return frees what the code frees, in its order. `DestroySpace` frees the PML4 and the tables under it, as `vmm_destroy_address_space` does.
- A `kzalloc` that fails returns before `alloc_pid` and changes nothing, so it is a stutter step.

Not in this module:
- a table frame that `pmm_alloc_page` could not supply is page 0, which takes no frame here; what the walk then does through page 0 is `Vmm`'s (`vmm_zero_table`);
- the context fields are `Syscall`'s, and the lifecycle after creation is `Scheduler`'s.

`NoOrphanFrames` says that every set bit is a frame `pmm_init` reserved or one a process in the table holds. `MCProcess.tla` has two structures, one slot and 22 frames: one kernel task and one user process fit. `proc_leak.cfg` checks it and finds it violated (see the disagreements in section 4).

### `Heap.tla`: the kernel heap (`kernel/mm/heap.c`)

Variables:
- `blocks`: the list from `first_block`, in list order, as records `[addr, size, free]`. Addresses are byte offsets from `heap_start`. The `prev` links are not kept: they mirror `next` and no path reads them.
- `heapEnd` and `heapSize`: `heap_end - heap_start` and `heap_size`.
- `frames`: frames taken from `pmm_alloc_page` and not given back. `pmm_alloc_page` fails once `MaxFrames` are taken.
- `live[o]`: the pointer caller `o` holds and the size it asked for, or `NoPtr`.

Helpers, each one C function:
- `Expand` (`heap_expand`), `FindFreeBlock`, `SplitBlock`, `CoalesceBlocks` (a RECURSIVE walk that stays on a block after merging into it).
- `Kmalloc` and `Kfree` act on a record of the heap state, so that `krealloc` can call both in one step.

Actions:
- `Malloc` is `kmalloc` or `kzalloc` (the memset is data the model does not track).
- `Free` is `kfree` of a live pointer. The bad-magic and double-free paths need a stray pointer, which no caller in the tree produces.
- `Realloc` has the four outcomes of `krealloc`: size 0 frees; a size that fits keeps the pointer; a failed `kmalloc` keeps the old block; otherwise the data moves and the old block is freed.

`MCHeap.tla` sets up two callers, a one-page arena, and requests of 64, 1000 and 3000 bytes. 3000 is the case where the doubled request is not a whole number of pages.

### `Vfs.tla`: the virtual filesystem (`kernel/fs/vfs.c`) and the node operations of `kernel/fs/simplefs.c`

Variables:
- `fdTab`: `file_descriptors`, each slot an open file `[node, offset]` or `NULL` when not in use. `ref_count` is always 1 and `flags` are never read, so neither is kept.
- `mounts`: the mount table, each slot `[path, fs, root]` or `NULL`.
- `vfsRoot` and `registered`: `vfs_root` and `registered_fs`.
- `heap`: the `vfs_node_t` objects simplefs has allocated. A node is `[fs, ino, type, size, data]`, where `data` says whether its `fs_data` (the inode) was set. The ids stand for heap room: when none is free, `kmalloc` fails.
- `ret`: the last call and the value it returned.

A path is the sequence of its components (`<<>>` is `/`). The volume is read-only, because no code path writes a file. `RootDir` lists the root directory's entries in slot order.

Node operations of simplefs:
- `GetRoot`, `Readdir` and `FindDir`. `FindDir` frees every node it passes over and keeps the match, so the walk's net effect on the heap is the match alone.
- `Walk` and `ResolvePath` are `vfs_resolve_path`.
- `NodeRead` is the result of `simplefs_vfs_read`. Its block loop is abstracted to "the bytes up to the end of the file", which no reachable node gets to.

There is one action per call: `RegisterFilesystem`, `Mount`, `Unmount`, `Open`, `Close`, `Read`, `Write`, `Seek`, `Stat`, `Mkdir` and `ReaddirFd`. Every error return is `Fail`. `Seek` computes in `uint64_t` (`OffsetBits`) and returns `(int)` (`IntBits`).

`MCVfs.tla` sets up the instance:
- one filesystem handle;
- a root directory with a file `n1` and a directory `n2`;
- two descriptors, two mounts and room for two nodes.

`simplefs_format` leaves the root directory empty (`EmptyDir`). With an empty root only `/` resolves, so the instance uses a volume with entries, as written by a tool other than this kernel.

### `Vmm.tla`: the page tables (`kernel/mm/vmm.c`, `manual_map_page` in process.c) and `AddressSpace.tla`

**State.**
- `mem[f]` is physical page `f` read as a table: each index maps to `Absent` (PAGE_PRESENT clear) or to the page the entry points to.
- A virtual page is the tuple of its four indices. `Idx` (0..511 in the code) is scaled to {0, 1}; PML4 index 1 stands for the kernel half (256..511).
- `free` is the PMM's free pages. `pmm_alloc_page` is first fit: the lowest free page, or 0.
- `cur` is `current_pml4`. `spaces` are the PML4s `vmm_create_address_space` returned that are not yet destroyed.
- `call` records the last call with its arguments and result.
- Flags other than present, and the offset within a page, are left out.

**Helpers.**
- `GetOrCreateTable` is `get_or_create_table`, memset included.
- `MapIn` is `vmm_map_page`: three get-or-creates, the first failure returning -1 with the tables made before it left in place.
- `PageTable` and `Translate` are the walks of `vmm_unmap_page` and `vmm_get_physical`.
- `ManualTable` and `ManualMapIn` are process.c's `manual_map_page`, which uses `pmm_alloc_page`'s result without checking it.
- `LowerTables` is what `vmm_destroy_address_space` frees: the PDPTs, PDs and PTs under the lower half of the PML4, and the PML4 itself.

**Init and actions.**
- `Init` is the state after `vmm_init` (`Booted`): the boot PML4 with the kernel half's PDPT, plus the identity map of low memory and the higher-half kernel image, mapped one page at a time.
- Kernel callers: `MapPage`, `UnmapPage`, `GetPhysical`, `IsMapped` and `SwitchPageDirectory`.
- `process_create_user`: `CreateAddressSpace`, `ManualMapPage` and `DestroyAddressSpace`. Destroy is only applied to a space that is not current, as process.c does.

**`AddressSpace.tla`** is the map vmm.h describes: virtual page to physical page.
- `vmm_map_page` sets one entry or fails and changes nothing.
- `vmm_unmap_page` clears one entry.
- `vmm_get_physical` returns the entry, or 0.
- A call made while another space is current reaches the kernel's map only through the shared kernel half.

`KernelRefines` maps the kernel space's translations (`KTrans`) and `cur = KRoot` onto it.

`MCVmm.tla` sets up the instance: pages 0..13. Page 0 is low memory and page 1 the kernel image. The boot PML4 is page 2 and the kernel-half PDPT page 3. Page 13 is a data page that callers map. `vmm_init` leaves four free pages.

### `Ata.tla` and `Storage.tla`: the disk driver (`drivers/ata.c`, `drivers/block.c`) and the boot's disk path

`Ata` has two actors whose steps interleave: the driver polling the status register, and the drive running commands at its own pace.
- `media` is the drive's sectors; `dev` the drive's status bits (BSY, DRQ, ERR), the command in progress, its LBA and its sector buffer.
- `pc` is where the driver is; `req` the call in progress; `polls` the status reads left in the current wait (`Budget` stands for the 100000 of `timeout_ms * 1000`); `reg` says `ata_init` registered the drive as hda; `call` records the last call that returned, with its result.
- The drive's steps (`DevDataReady`, `DevCommit`, `DevFlushDone`, `DevError`) follow the ATA protocol, which is not code of the repository. `WriteCommand` drops a command written while BSY is set; one written while DRQ is set is undefined by the protocol and `AbortOnCommand` picks what the drive does. `WriteFaults` lets the drive fail the commit of a written sector.
- The driver's steps are the code: `IssueIdentify` (`ata_identify`), `WaitReady`, `PollAgain` and `TimeOut` (the two wait loops), `IssueCommand` (drive select, count, the LBA split of `Lba28`, the command), `WaitDrq`, `TransferIn` (256 `inw`), `DataOut` (256 `outw`), `FlushCommand` and `WaitFlush` (the flush whose wait result is ignored). `Finish` is the return, and for IDENTIFY the registration in `ata_init`.

`Storage` instantiates `Ata` and adds the callers: `fpc` is where `test_filesystem` and the calls after it are, `froot` the sector the root inode was taken from.
- `StartTest` is `block_get_device("hda")`; `Issue` hands the current step's `read_block` or `write_block` to the driver; `Resume` takes its result the way the caller does (a failed format write ends the test, `simplefs_fs_init` checks the magic, `get_root` keeps the inode it read, readdir reads a listed entry's inode); `Readdir` is a syscall's lookup under `/`.
- `FormatWrites` is `simplefs_format`'s six writes in their order; `Request` the block each step asks for; `InodeBlock` the block `simplefs_read_inode` computes.
- Each driver and drive action is its own disjunct of `Next` with the callers' state unchanged.

`ReadReturnsRequested` and `WriteReachesDrive` are the driver's promises as action properties over the calls that return. `MountedRootFormatted` is scenario S6. No fairness is assumed: the properties are safety, and a drive may take as long as it likes.

## 4. Runs

| Run | Expect | Properties | Bounds | Shows |
|---|---|---|---|---|
| `sched_list` | pass | `TypeOK`, `QueueLinked`, `OneRunning`, `UnregisteredRejected`, `SleepRoundsUp`, `SegmentsLoadable` | `MCSyscall`: u + 3 kernel tasks, every operation, kernel sleeps of 0 and 1 ticks, every call number 0..16 from u, ms in {0, 15, 1000}, fds {1, 3}, 16-bit words (~658k states, under 1.5 minutes with 2 workers) | The list stays well formed under every sequence of add, remove, rotate, block and unblock, and only the current task is ever RUNNING. Call numbers outside the registered set get -1 and change nothing; sleep rounds up to whole ticks; every selector the boot, a task switch and `int 0x80` load is accepted by the processor. |
| `sched_refines` | pass | `RefinesReadyQueue` | 3 kernel tasks; only t1 blocks, t2 and t3 may unblock it | The linked list refines the FIFO through add, remove, pick, block and unblock. (A lone blocker that later unblocks is `sched_lost_task`; the two cannot share a passing run.) |
| `sched_lost_task` | violation | `RefinesReadyQueue` | 3 kernel tasks with unblock | Finding 1 below. |
| `sched_rr` | pass | `RoundRobin` | u + 3 tasks that sleep/yield | Cooperative tasks all get the CPU forever. |
| `pmm_alloc` | pass | `TypeOK`, `UsedCounted`, `Exclusive`, `WithinPool`, `FirstFit` | 2 owners, 7 frames, counts {1, 2, 4} | used_pages equals the set bits; runs are disjoint, inside memory, and never frame 0; the skip-ahead search is first-fit. |
| `heap_list` | pass | `TypeOK`, `WellFormed`, `NoAdjacentFree`, `LiveDisjoint` | 2 callers, sizes {64, 1000, 3000}, 3 frames | Under every sequence of kmalloc, kfree and krealloc, including failed expansions, the list stays ordered, coalesced and unshared. |
| `vfs_ops` | pass | `TypeOK` | 1 fs, 2 names, 2 fds, 2 mounts, 2 nodes | Every sequence of VFS calls keeps the descriptor, mount and filesystem tables and the node heap within bounds (registration stops at `MAX_MOUNTS`). No VFS call frees a node another table names, so a dangling-node property would hold by the shape of the code; the real node question is the leak `vfs_unreadable` reproduces. |
| `storage_boot` | pass | `MountedRootFormatted`, `ReadReturnsRequested`, `WriteReachesDrive` | 4 blocks, 2 LBA bits, 2 status reads per wait, prior disk contents `{Stale, Junk}` (~1.6k states) | Through identify, format, create, mount and readdir, against a drive that may be slow, time out or set ERR, a good read returns the sector asked for, a good write is on the drive, and the mounted root is the one format wrote. |
| `storage_write_error` | violation | `MountedRootFormatted` | as `storage_boot`, `WriteFaults = TRUE` | Finding 4 below. |
| `sched_intree` | violation | `RoundRobin` | the 5 tasks of `test_multitasking` | Finding 2 below. |
| `vmm_ops` | pass | `TypeOK`, `TablesOwned`, `KernelRefines` | pages 0..13, 2 indices per level, 3 kernel pages, 2 user pages; constraint `NoZeroTable` (~526k states, about 2 minutes) | While every `manual_map_page` finds its frames, no table of a live space is free, and the kernel's tables implement `AddressSpace` through map, unmap, lookup, create, fill, destroy and switch. |
| `vmm_zero_table` | violation | `TablesOwned` | as `vmm_ops`, no constraint | Finding 3 below. |

Findings:
1. **A blocked task loses the queue** (`sched_lost_task`). A task blocks while it is the only task queued. It keeps running as BLOCKED, unblocks two others and blocks again. `remove_process` on it then sets head and tail to NULL, and the READY tasks are lost.
2. **The idle task keeps the CPU** (`sched_intree`). Once the idle task is scheduled it never gives the CPU back, because its `hlt` loop never yields and IRQ0 is never acknowledged. This contradicts the round robin of spec §4.8 and scenario S4.
3. **Page 0 becomes a page table** (`vmm_zero_table`). `manual_map_page` never checks `pmm_alloc_page`. When the pool is empty, it zeroes physical page 0 and installs it as the PDPT. The user addresses of `process_create_user` have equal PDPT and PD indices, so the PD and the PT collapse into page 0 too. `vmm_destroy_address_space` on such a space then frees the pages it maps as if they were tables. The PMM hands them out again while another space still maps them through its own alias of page 0. The same path breaks `KernelRefines`: a freed data page comes back as a kernel table.
4. **A failed write is reported written** (`storage_write_error`). `ata_write_sectors` writes the 256 data words and the cache-flush command, then calls `ata_wait_ready` and ignores its result; it never reads ERR. A drive that cannot commit the root inode's block sets ERR, the call returns 0, and `simplefs_format` returns 0 with block 1 still zeroed. `simplefs_create` finds the magic, `vfs_mount` takes inode 0 from the zeroed block, and the VFS serves a root of type 0 whose readdir returns nothing. The spec's error list says a set drive error bit is "surfaced as -1 from the driver", and scenario S6 has the mounted root be the directory format wrote. The same run of `Ata` alone breaks `WriteReachesDrive`.

Other disagreements, found while modelling and not kept as runs (the project keeps at most twelve). Each is stated as a property in its module, and adding that property to the named cfg reproduces it:
- **Finished or sleeping tasks are resumed** (`SwitchOnlyToReady`, `sched_resurrect.cfg`). Exited (ZOMBIE), killed (DEAD) and still-sleeping tasks stay queued and `pick_next` switches to them again. The spec's §4.7 lifecycle forbids this.
- **Files opened by path cannot be read** (`OpenFilesReadable`, `vfs_unreadable.cfg`). `simplefs_vfs_readdir` never sets the child's `fs_data`, and `simplefs_vfs_read` returns -1 without it.
- **A stale DRQ serves the next read** (`ReadReturnsRequested` of `Ata`, `ata_stale.cfg`). A read whose `ata_wait_drq` times out returns -1, but the drive still raises DRQ for it later. `ata_wait_ready` looks only at BSY, so the next call writes its command while DRQ is set; a drive that drops such a command (as QEMU's does, `AbortOnCommand = FALSE`) then hands the old sector to the new read, which returns 0. In the kernel's own calls this cannot show: after the mount every read is of the root's block 3, so `storage_boot` passes.
- **Bytes outside every heap block** (`SizesSumToArena` in `heap_list.cfg`). `kmalloc` puts the block it expanded for at `heap_end - expand_size`, but `heap_expand` rounded the growth up to a page. A 3000-byte request expands by 6064 bytes and maps 8192. The 2128 bytes between the old end and the new block belong to no block, while spec §8.3 says the block sizes sum to the arena. The gap is wasted but never handed out: `WellFormed` still holds.
- **Page 0 reads as unmapped** (`MappedReported` in `vmm_ops.cfg`). `vmm_init` identity-maps page 0. `vmm_get_physical(0)` then returns 0, the value that means "not mapped", so `vmm_is_mapped(0)` is false.
- **Allocations past the end of memory** (`WithinPool` in `pmm_alloc.cfg`, with `Counts = {2, 9}`). `pmm_alloc_pages(count)` with count > total_pages + 1 wraps the search bound and returns frames past the end of managed memory. The in-tree callers only ask for 4 frames.
- **Frames leaked by a failed expansion** (`FramesAccounted` in `heap_list.cfg`, with `MaxFrames = 2`). `heap_expand` stops at the first `pmm_alloc_page` failure without giving back the frames it already took and mapped, and `heap_end` does not move. Those frames are lost to both allocators.
- **`vfs_root` outlives its mount** (`RootIsMounted` in `vfs_ops.cfg`). `vfs_unmount("/")` clears the slot but not `vfs_root`, so `/` still resolves into the unmounted filesystem.
- **VFS nodes are never freed** (`NoNodeLeak` in `vfs_ops.cfg`). Every node `simplefs_vfs_readdir` returns comes from `kmalloc`, and nothing frees the one `finddir` keeps. `vfs_stat`, `vfs_readdir`, `vfs_close`, an open that finds the table full and a path that fails at a later component all leak one.
- **A huge sleep does not sleep** (`SleepRoundsUp`, `sched_sleep_wrap.cfg`). `sys_sleep` computes `(ms + 9) / 10` in `uint64_t`; for ms within 9 of 2^64 the sum wraps and the task calls `process_sleep(0)`. The cfg scales the word to 16 bits and passes ms = 2^16 - 1.
- **Two ring-3 tasks share one kernel entry stack** (`KernelStackExclusive`, `sched_rsp0.cfg`). `tss_set_kernel_stack` is never called, so `rsp0` always names `interrupt_stack`. A ring-3 task switched away inside `sys_sleep` leaves its trap frame there; a second ring-3 task's `int 0x80` lands on the same stack and overwrites it. The tree creates one ring-3 task, so this is latent; the cfg makes `t1` a second one.
- **A failed user creation loses its code frames** (`NoOrphanFrames`, `proc_leak.cfg`). When `add_process` finds the table full, `process_create_user` destroys the address space and frees both stacks, but never frees the four frames of `user_code_phys`. They stay marked in the bitmap, and no pointer to them survives. Any number of `process_create_user` calls made after 256 creations lose four frames each, because `remove_process` has no caller and slots are never given back.
- **Uptime does not advance across a sleep** (scenario S5). With the ticks frozen, `sys_time` returns 0 before and after `sleep_ms(10)` (`SysTime` with `Now = 0`); S5 asks for at least 10 more. This is the frozen-tick consequence of `sched_intree`'s finding, so it has no property of its own.
- **A seek that succeeds reports -1** (`FailLeavesFds` in `vfs_ops.cfg`). `vfs_seek(fd, -1, SEEK_SET)` stores 2^64 - 1 and returns `(int)` of it, which is -1.

### Why these bounds are enough

- **Three tasks** are the fewest that exercise every pointer case of add and remove: an empty list, a lone task, and head, middle and tail positions.
- **A fourth task** (the ring-3 one) adds the user-mode guard and a task that is never removed.
- **Seven frames with counts 1, 2 and 4** give free runs that are fragmented by reserved and held frames. That is enough for the skip-ahead to jump over set bits at every offset inside a run.
- **Two VFS nodes** are enough to hold a mounted root and one node from `finddir`, and to make the next `kmalloc` fail. **Two descriptors** fill the table. **Offsets of 3 bits and an int of 2 bits** keep the arithmetic of `vfs_seek` (wrap below zero, truncation to int) in a state space TLC explores in seconds. The -1 case is the same at every width.
- **Three heap frames** let a 3000-byte expansion succeed once and then fail, so every branch of `krealloc` is taken. Two frames make the failure partial.
- **Two indices per level** give each table level a used and a free slot. The PML4's second slot is the kernel half, shared by every space. Four free pages after `vmm_init` let a kernel mapping, a new space and its tables exhaust the pool, so every failure branch of `get_or_create_table` and `vmm_create_address_space` is taken. With `NoZeroTable` a destroyed space's tables are freed and reused, which is where a missing memset or a wrong destroy loop shows.
- **Four disk blocks, 2 LBA bits** are the blocks `simplefs_format` writes (superblock, two inode blocks, the root's directory block). **Two status reads per wait** let every wait either succeed, poll again, or time out, and let the drive finish after the driver gave up. The prior contents `Stale` (an earlier format) and `Junk` make a misdirected or lost write visible at the mount.
- **Sleeps of 0 and 1** cover both sides of `Now >= sleep_until` with the tick count frozen.
- **Call numbers 0..16** are every slot of the table and one past it (16 stands for every larger number, which the dispatcher treats alike). **ms in {0, 15, 1000}** are the early return, a value that is not a multiple of a tick, and the value `user_mode_entry` passes. **Fds 1 and 3** are a console and a non-console descriptor. **16-bit words** keep `Ticks` exact for those ms while letting `sched_sleep_wrap.cfg` reach the wrap.

Every mutant in `PROJECT.json` is caught within a few steps, which shows these bounds reach the cases that matter.

### Deadlock

`CHECK_DEADLOCK FALSE` is set where every task can end halted after `process_exit`, or blocked, with IRQ0 in service. The real CPU then sits in `hlt` forever. `sched_rr` checks for deadlock. In `storage_boot` a failed call ends `test_filesystem` and a failed IDENTIFY leaves no disk; the kernel then does no more disk I/O, so the storage model stops too.

## 5. What is not modelled, and why

- **Atomicity.** The model makes each operation atomic because no interrupt can split it while IRQ0 is stuck in service. If the EOI were fixed, `scheduler_block`/`unblock` from kernel tasks (IF set) would race the timer. That race is listed as an interleaving hazard for the atomicity question.
- **Left out of the scheduler model:**
  - the register and context copies;
  - CR3;
  - `total_time`, `total_switches` and `ready_count` (only printed);
  - `scheduler_start`/`stop` (the flag is true from before the first interrupt).
- **Task creation** appears in `Scheduler` only through `Init`; its frame accounting is `Process`, which no run checks (the twelve run slots are taken), only `proc_leak.cfg`. The page-table work of `process_create_user` is in `Vmm`. The scheduler's CR3 load, which leaves `current_pml4` stale, needs the two composed.
- **`vmm_map_pages` and `vmm_unmap_pages`** are loops over the single-page calls and have no caller. `vmm_get_current_page_directory` only reads CR3. The boot page tables are not in `src/`: `BootMem` has the kernel-half PDPT and nothing else.
- **The heap's counters** (`allocation_count`, the statistics) are only reported. `kmalloc_aligned` has no caller.
- **Sector bytes.** `Storage` names a sector by the write that produced it; the byte layout, `vfs_read`'s block loop and `simplefs_write_inode` (no caller) are left out. `Vfs` still takes the volume as a constant: the two are not composed, since after a good format the root directory is empty.
- **The other three ATA slots** find no drive in the kernel's setup and nothing uses them. `ata_identify`'s "status 0, no drive" path is the drive-absent case, in which the kernel does no disk I/O. Multi-sector transfers (`read_blocks`, `write_blocks`) and `block_read`/`block_write` have no caller.
- **Power loss.** A flush written while the drive is busy is dropped (modelled); losing the cached sector needs a power cut, and every boot formats the disk anyway.
- **User buffers.** The bytes `sys_write` and `sys_read` move, and the path `sys_open` passes, are not modelled: a call carries one small argument. So the unvalidated user pointers (the spec's known gap) are a hazard without a property; checking them needs the user/supervisor bit of the page tables, which `Vmm` leaves out.
- **What open, read and close do to the VFS.** `Syscall` lets them return any value the VFS can (-1 or 0); their effect on the descriptor table is checked in `Vfs`. Composing the two would multiply two large state spaces without a property that needs both.
- **The earlier GDT** in `unnamed/part_008` (five entries, no TSS) is not what the kernel builds; `Gdt` follows `arch/x86_64/gdt.c`.
- **The console, string helpers, build scripts and documents** have no state that a property could be about.
