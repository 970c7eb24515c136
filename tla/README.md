# A TLA+ model of MonkeyOS

MonkeyOS is a small Unix-like kernel in Rust: an executor of asynchronous tasks,
Linux-style processes, threads, signals and futexes on top of it, and the memory
and file-system code they need. This directory holds TLA+ modules that model
most of its state, TLC configurations that model-check them on small instances, and
proofs, checked by TLAPS, of the most important invariants for every size of
instance. Paths below are relative to `src/`.

`PROJECT.json` lists the components, the TLC runs, the lines each definition
models, the hazards and the theorems. Run a configuration with
`tlc -config X.cfg M` (the table below says which `M`), check a proof with
`tlapm M.tla`.

## The system

| part | state | operations | talks to |
|---|---|---|---|
| executor (`crates/executor`) | run queue, task map, current task per hart | spawn, poll, push back, release | everything |
| processes and threads (`kernel/src/tasks/task.rs`, `syscall/task.rs`) | pcb (children, threads, exit code, memory, files), tcb (signals, masks, clear_child_tid) | clone, exit, exit_group, wait4, setsid, execve | executor, signals, futexes, address space, files |
| futexes (`syscall/task.rs`, `tasks/async_ops.rs`) | queue of task ids per address | wait, wake, requeue, wake at thread exit | signals, time |
| signals (`user/signal.rs`, `user/entry.rs`, `syscall/signal.rs`) | pending set, counts of real-time signals, mask, actions | kill, tkill, tgkill, sigaction, sigprocmask, sigsuspend, sigtimedwait, delivery, rt_sigreturn | every blocking call |
| page allocator (`crates/runtime/src/frame.rs`, `kernel/src/main.rs`) | bitmap per memory region | alloc, alloc_much, Drop of a tracker, dealloc of a page-table page | address space, drivers |
| kernel heap (`crates/runtime/src/heap.rs`) | buddy heap and a large-block list | alloc, dealloc, emergency_reset | everything |
| address space (`tasks/memset.rs`, `syscall/mm.rs`, `user/mod.rs`) | areas with their frames, page table | mmap, munmap, brk, mprotect, shm attach, copy-on-write fault, fork, exec | page allocator, files |
| program loading (`tasks/exec.rs`, `tasks/elf.rs`) | template cache | execve | address space, files |
| files (`tasks/filetable.rs`, `filesystem/fs/src/file.rs`, `syscall/fd.rs`) | descriptor table, offset and flags of an open file | open, close, dup, read, write, lseek, fcntl | file systems, pipes, sockets |
| pipes, poll, select, epoll (`filesystem/fs/src/pipe.rs`, `syscall/fd.rs`) | byte queue | read, write, poll | files |
| System V IPC (`syscall/shm.rs`, `tasks/shm.rs`) | segments, semaphores, message queues | get, at, dt, ctl, semop, msgsnd, msgrcv | address space |
| file systems (`filesystem/*`) | ramfs trees, mounts, adapters for ext4 and FAT | lookup, create, read, write, truncate, mount | files, block devices |
| sockets (`kernel/src/socket.rs`, `syscall/socket.rs`) | receive buffers, listen state | bind, listen, accept, send, receive | files, network stack |
| drivers, boot, terminal | device registers | interrupts, block and character I/O | executor, files |

Scheduling is what makes the system hard to test. Tasks are polled one at a time
and run until they await; a waker does nothing, so a suspended task is polled
again and again and looks at the state for itself each time. `entry_point`
polls every system call together with a second future (`future::or`) that
delivers signals and looks for an exit code. The atomic steps of the models are
therefore what a task does between two awaits; what one task read before an
await may be stale after it.

## Modules

| module | models | abstract contract |
|---|---|---|
| `Executor` | `crates/executor` | `TaskPool`, a fair pool of tasks |
| `Process` | process table: clone, exit, wait4, kill, setsid, handlers and rt_sigreturn, initproc's `command` | `ProcTree`, a tree whose nodes are live, exited and reaped once |
| `Futex` | `sys_futex`, `WaitFutex`, `futex_wake`, `futex_requeue`, the wake at exit | `WaitSets`, sets of sleepers |
| `Signals` | sending, masks, actions, `check_signal`, `handle_signal`, both loops that run user code | |
| `FrameAlloc` (uses `FrameRuns`) | the page allocator and its two kinds of owner | |
| `RegionScan` | the search loop of `FrameRegionMap::alloc_much`, page by page | `FrameRuns`, "the starts of free runs" |
| `Heap` | the large-block pool of the kernel heap | |
| `Memory` (uses `MemArea`) | areas, page tables and frames of processes: mmap, munmap, brk, fork, page faults, exec, shared memory segments | |
| `Vfs` (uses `RamFile`) | paths, mounts, the RAM file system, open files, and the calls of `syscall/fd.rs` on them | |
| `Files` (uses `FdTable`) | descriptors, pipes, socket pairs, the terminal, poll, select, epoll | |
| `Sockets` (uses `Loopback`, `FdTable`) | stream sockets over the loopback | |
| `Ipc` | System V message queues and semaphores | |

`MemArea`, `RamFile`, `FdTable` and `Loopback` have no state of their own: they
are the operations of one data structure, used by the module that holds it.
`MCx` instantiates module `x` for TLC; `xProof` holds its theorems (`FrameAllocProof`
those of `RegionScan` as well, `VfsProof` those of `RamFile`, `TaskProof` those of
`Executor`, `Signals` and `Files`; `ProcessSteps` and `MemorySpace` hold lemmas for
`ProcessProof` and `MemoryProof`). Definitions
named in a comment "A mutant" are faulty variants of the definition that follows
them and are used by no specification; they show which mistake each property
would catch.

### Executor

`task_queue` is `TASK_QUEUE`, `item[h]` the item hart `h` moved out of it while it
polls, `cores[h]` the answer of `current_task()`, `task_map` the keys of
`TASK_MAP`. `PopFront`, `PollPending` and `PollReady` are the body of
`run_ready_task`; `TaskIdAlloc`, `Spawn`, `SpawnBlank`, `DropUnspawned` and
`ReleaseTask` are what the code of a task does to the executor while it is polled.

Every other module relies on `TaskPool` alone: any queued task may be polled
next, and each is polled again eventually.

### Process

A process control block is named by the id of its main thread. `sched` says
whether a task object is unspawned, queued or gone; the `Weak` references of
`pcb.threads` and `UserTask.parent` can be upgraded exactly while somebody holds
an `Arc` (`Upgradable`, `HasArc`). `call` is the system call a task is suspended
in: `wait4`, or the yield of `sys_clone` between making a task and spawning it.
`handler` is the signal handler a thread is in, with the call of the main flow that
it interrupted. System calls made in a handler are polled by the loop of
`handle_signal`, which looks at the exit code of the process and nothing else: a
thread that calls `exit` there leaves `pcb.threads` and runs on, and one that
waits there does not see the process end. When the interrupted call ends
(`outer_ready`), `future::or` drops the handler wherever it is. `rt_sigreturn`
outside a handler ends a task without `thread_exit` (`sched` is "broken"), and the
task a dropped handler was cloning is never spawned ("dropped").
`CheckSignals` is one poll of `entry_point`'s checks, `HandleSignals` the loop of
`check_signal`, `Leave` what `thread_exit` and `exit` share. Memory and file table are
one flag, `cleaned`. `reaped` records history for the properties. Masks and nested
handlers are in `Signals`. execve is left out: it changes no variable of the module.

### Futex

The table is a set of keys and a queue per address. A thread in a wait is polled
(`Poll`) and finds itself off the table, or a pending signal; with a timeout the
deadline (`WaitUntilsec`) may pass at any time. A timed-out wait leaves its
entry behind, as the code does; `expired` remembers for which threads that
happened. `Vec::drain` panics on a range that is too long, which
`futex_requeue` does not prevent: `panicked` stops the model there.

### Signals

One thread, with the others as environment. `pc` is the place in `entry_point`,
`live` the handler inside `handle_signal`, `ctx` the handlers user code is in;
these differ when `future::or` drops the future that runs a handler (`OrFirst`).
`Outcome` is the decision of `handle_signal`, early returns included. The frame
on the user stack is abstract: a handler remembers the mask and the context it
interrupted and where its return address points. The handlers of riscv64,
aarch64 and loongarch64, which need a restorer, are modelled.

### FrameAlloc and RegionScan

`bits[k]` is the bitmap of region `k`, with the padding of its last word. Owners
are counted per frame (`trackers`, `tables`) so that handing a frame out twice
can be seen; `written` stands for the contents. Giving a frame back takes two
steps, since clearing and unlocking are separate: `Drop` clears first,
`PageAllocImpl::dealloc` gives the frame back first. The kernel runs tasks on one
hart, and the TLC run has one; the proofs hold for any set of harts except where
the theorem says otherwise.

### Heap

`allocations` is the list of records `LargeAllocator` keeps, `held` the blocks
its callers have. An allocation takes the lowest gap between the blocks in use;
when there is none, `emergency_reset` may drop records of blocks in use. What happens after that is followed for a bounded number of operations (`reset`),
and a request the pool refuses goes to the buddy allocator, which is a vendored
crate and outside the model.

### Memory and MemArea

`space[p]` is what a process has: its areas in order, each with the frames it
tracks, the page table, the heap end and the attached segments. A frame holds one
abstract value, the file one value per page. `MemArea` has `sub` as the code has
it: the part below, the part above, the pages unmapped and the pages written back.
The field `base` of an area is a ghost: the page where `mmap` placed, or would have
placed, page 0 of the file, which survives every cut (`Home`).
`user_cow_int` is the page fault handler, with a definition per branch:
copy on write, a page of an area, null, program pages, heap, gap, stack, late TLS.
`exec_with_process` clears the old memory before it looks for the new file.
Every handler runs without an await, so it is one step. Frames are shared through
reference counts (`Refs`), as `Arc` counts them.

### Vfs and RamFile

A node is a directory with its entries in order, duplicates included, a file, or
a device. `RamFile` has length, frames and bytes of a file and what `readat`,
`writeat` and `truncate` do to them when frames are refused. `Open` is
`File::open`: the mount that answers, the walk, and `O_CREAT`, which creates an
entry whether or not the name is taken. A node that nothing refers to is dropped
with its frames (`Drops`). Calls that only open a file and look at it are actions
too, since with the root unmounted each of them panics.

### Files and FdTable

`table[p]` is the descriptor table, `limit[p]` the limit `prlimit64` sets, which
the code compares with the index before it uses it, and not with the length of
the table. `files` are the open files that descriptors share; a file that neither
a table nor a waiting call refers to is dropped, which is how a reader learns of
the end of a pipe. A call that waits is kept in `call[t]` and tried again by
`Retry`. `told` is what the program was told is open; `excused` are the
descriptors that `dup3` answered beyond the limit without setting them, and the
ones `pipe2` or `socketpair` leaves open when the second one is refused.

### Sockets, Loopback and Ipc

The network stack is vendored; `Loopback` is its path for connections within the
machine: servers by port, accepted and waiting connections, segments, and
`close`, which marks both ends and leaves an empty segment in each, and panics
when the other end is not accepted yet, or has turned to another port: `connect` on
an accepted socket overwrites its far address (`reconnect`). `Sockets` has the calls, and `Socket` with
the rest of a segment that a short read leaves. `halted` is the socket whose call
panicked or spins on a lock for ever.
`Ipc` has message queues and semaphore sets as tables by key.

## Runs

| run | module | distinct states | shows |
|---|---|---|---|
| `executor` | `MCExecutor` | 38,000 | a future is in one place (`Exclusive`); nobody overtakes; `TaskPool` is implemented, fairness included |
| `process` | `MCProcess` | 143,000 | `UserTask::release`'s assertion holds, no zombie is lost, memory is cleared only under threads that called `exit` in a handler, a process is stranded in three ways only, `ProcTree` is implemented, threads of an ended process end unless they wait in a handler, `wait4` returns |
| `process_echild` | `MCProcess` | violation | a `wait4` whose last child another thread collects never returns |
| `futex` | `MCFutex` | 146,000 | the table is exact apart from threads that timed out; before any timeout the queues implement `WaitSets`; woken threads return |
| `futex_exit` | `MCFutex` | violation | the one wake-up of an exiting thread goes to a stale entry |
| `alloc` | `MCAlloc` | 238,000 | one owner per frame and cleared hand-outs; the search for a run agrees with `FrameRuns` for every bitmap and length; heap blocks overlap only after an emergency reset; the pool refuses only what fits nowhere |
| `signals` | `MCSignals` | 141,000 | real-time instances are conserved, masks leak only where a handler is dropped, handlers do not nest otherwise, signals are delivered and the end of the process is noticed |
| `signals_mask` | `MCSignals` | violation | a call that completes while a handler is suspended leaves the handler's mask |
| `memory` | `MCMemory` | 159,000 | a private page that can be written is in no other process; a page table shows a frame that the process no longer holds only after a split; a page of the file changes only to what was mapped from that page, or, from an area that does not start with page 0, from a later one; an address the kernel chooses is free |
| `vfs` | `MCVfs` | 104,000 | no byte of old contents reappears; a length without frames needs a refused frame; an unlinked name is gone although names repeat; a listing in several calls is complete, entries added meanwhile included |
| `files` | `MCFiles` | 174,000 | what the program was told is open is open; readers see the end of file; a write that can go on does; ppoll, select and epoll notice |
| `sockets` | `MCSockets` | 386,000 | bytes are conserved except for what recvfrom cuts; reads hang only after the end was read; the kernel panics only for sockets whose other end is missing or has connected elsewhere; a descriptor changes its meaning only by a late accept; queues keep the order of each type |

`alloc` and `sockets` check modules that share no state in one run: `Init`
chooses the one that moves.

Deadlock is not an error in these models: programs may stop making calls, all
processes may end, and a panicked kernel stays put.

**Bounds.** Executor: two harts and four ids make queues in which two tasks are
polled while two wait and one is made. Process: three ids make a process with
two threads and a child that both wait for, two children, or three generations;
exit code 256 does not fit its field of the status word; signal 9 ends a process and
12 is caught, and up to two of them are sent and not handled yet (`MaxSent`), so that
a thread is killed in a handler, or a second handler follows the first. Futex: three threads on two addresses for wake and
requeue (one to wake, one to move, one to act), or two threads that may use
timeouts, so that the two queues can hold a stale and a current entry of the same
thread; `Init` chooses.
Frames: a region of five pages with three padding bits and one of a single page,
areas that are not page-aligned, runs of up to four. RegionScan: six pages,
lengths 0 to 7, so that every run touches either end or neither. Heap: a pool of
ten units, blocks of two and three, and thresholds scaled down so that sweep,
small reset and half reset all happen with five blocks. Signals: SIGUSR1,
SIGSEGV, SIGALRM and one real-time signal, with handlers that have a restorer, a
bad one or none (`SigInit` chooses which signal may get the bad one); one queued
instance beyond the pending one; user code at most two handlers deep. Memory: two
processes, eight frames, fourteen pages with one or two in each of the ranges the
fault handler tells apart, one `mmap` and four steps in all (map, fork, write in
either, unmap or exit; map, unmap a middle, fork, exit). Mappings are one or three pages
long and `munmap` starts at three places (`Cuts`), so that it cuts the front, the
end, a hole that leaves a page on either side, and the stack. Vfs: two
descriptors, two frames of two bytes, so that the second file is refused; four
calls that have an effect (create, write, cut, grow; create twice, open, unlink),
and besides any number of `getdents` with one entry each, so that a listing takes
several calls and is finished after entries were added in the middle of it. Files: a process
of two threads and one that it forks, a table of four with limits below and above
it, pipes of two bytes with small writes of one, four calls and all their
retries. Sockets: two threads, two ports to bind, three servers and four
connections, segments of two bytes read one at a time, four calls and all their
retries; a client and a server take two of them each. Ipc: six calls on
queues of three messages of two types. The bounds `MaxCalls`, `MaxSteps` and `MaxIpc` cut behaviours, not states
in which something is forbidden.

**Fairness.** `Executor` assumes that a hart keeps running its loop and that a
poll returns: user code is left at the latest by the timer interrupt, and
`entry_point` yields after 50 rounds. From this TLC derives `TaskPool`'s
fairness, weak fairness per task. The other modules assume weak fairness of what
the kernel does when it polls a task (`Resume`, `Poll`, `Kernel`), of
`command`'s loop, and in `Files` of `Retry`, the next poll of a call that waits.
No fairness is assumed of what programs do: that a blocked call of `Signals`
completes (`OrFirst`, `Unblock`), that a handler returns, or that a program reads,
writes or closes a pipe.

## Proofs

All proofs follow the same outline: an inductive invariant, a lemma per action
that preserves it, and a temporal step.

* **`ProcessSteps` and `ProcessProof`.** `ProcessSteps` has the lemmas that a new
  process, an exit, a fatal signal, a handler and a clone preserve `IInv`; `ProcessProof` has the
  remaining actions and the theorems. `IInv` adds to the checked invariants: ids beyond the
  counter are untouched (`Ids`), every task that can run is in the thread list
  of its process or called `exit` in the handler it is in (`ThreadLists`), a task in `clone` owns its unspawned task
  (`CloneCalls`), and a process that was torn down or collected has an exit code
  (`ExitCodes`). `ThreadLists` says what `should_cleanup_process`
  is worth: it looks at the thread list, and the list misses only those threads. `TreeRefinement` maps
  the table to `ProcTree`.
* **`FrameAllocProof`.** `FInv` is type correctness, `OneOwner` and
  `BitmapExact`. The alignment and padding arithmetic (`RoundUp`, `AreaFacts`)
  shows that a zero bit stands for a page of the region. `FailsOnlyFull` needs
  that counting the free bits can only overestimate a run. That frames are handed
  out cleared and that nobody clears another's frame is proved for one hart,
  since `PageAllocImpl::dealloc` clears after it has given the frame back.
  Its last section is about `RegionScan`: the window of the loop is free and no
  earlier window fits; when the loop ends this is exactly `FrameRuns`.
* **`FutexProof`.** First what the operations on a queue do to who is in it and how
  often: `push`, `drain`, `extend` and `retain` (a recursive function, so that its
  lemmas go by induction over the length). `IInv` is `TableExact` without counting and
  without a bound on queues, for the threads none of whose waits timed out; it is
  inductive because a thread that runs is in no queue, and because requeueing moves
  where the thread waits together with its entry. `WaitSetsTheorem` is the refinement:
  while nobody's wait has timed out, the sleepers of an address are the members of its queue, each
  of them once, so taking the first `n` entries wakes `n` sleepers, and the lengths the
  code compares are the numbers of sleepers `WaitSets` speaks of.
* **`VfsProof`, files.** What `writeat` and `truncate` make of a file (`WrittenTo`,
  `CutTo`) for every page size, position, length and number of free frames. From
  it: the bytes behind the length stay zero; a length has frames unless one was
  refused; reading such a file stays inside the frames; and what was written is
  read back.
* **`VfsProof`, calls.** `NoStaleBytes` and `LengthBacked` for every sequence of calls, page
  size and number of nodes, descriptors and frames. `IInv` says of every node
  that it is a directory, a device, or a file without old bytes; of the open files that
  their positions are numbers; and of all files together that they hold no more frames than there are, since
  `writeat` is told how many are left. There is a lemma per call; what most calls do to
  files is one of four things: nothing, dropping some or adding an empty one
  (`Shrinks`), writing (`PutInv`) or cutting (`CutInv`). `ReadsTheorem` says that no read, at any position and of
  any length, indexes past the frames of its file before frames have run out; the
  model's calls read only a few sizes.
* **`TaskProof`, the executor.** `Exclusive` and `TasksConserved` are inductive only together:
  a spawn may push a task because `made` is disjoint from the queue, a poll may
  push it back because an item is not in the queue. `CurrentTask`,
  which only the proof looks at, says that `current_task()` answers the task
  that is being polled. `PoolRefinement` shows that
  every step of the executor is a step of `TaskPool` or leaves its variables
  unchanged; the fairness part is left to TLC.
* **`TaskProof`, signals.** `RealTimeConserved`, `MaskLeaksOnlyByDrop` and
  `HandlersDoNotNest` are inductive together with `HandlerOf`: the signal of the
  handler that runs is still pending, so that the step that ends it takes off one
  instance, and, as long as no handler was dropped or left early, it interrupted
  the main flow, so that the mask and the registers it gives back are the program's.
* **`TaskProof`, descriptors.** `FilesInv` is `DescriptorsKnown` with the types of
  the tables, the limits and the beliefs. `alloc_fd` answers a slot that is
  free, growing the table by empty slots when there is none (`AllocIs`), and
  `set_fd` and `clear_fd` change one slot (`OpensIs`), so a call that sets what it
  answers moves table and belief together. The other calls leave both alone, or
  copy both (fork). `AllocKnown` also covers the calls that fail between the two.
* **`MemorySpace` and `MemoryProof`.** `WritableExclusive` is not inductive: it
  speaks of the frames that areas track, of the pages that are mapped writable, and
  counts holders. `Isolated` says instead that a process tracks a frame at most once
  and tracks none of a segment, and that what it can write through a private page no
  other process tracks. `MemorySpace` shows what the operations of one address space
  do to the frames tracked and writable in it (`From(new, old, fresh)`: whatever is
  tracked was tracked before or is fresh, and whatever is writable was writable
  before or is fresh): mapping, unmapping with its three ways to cut an area, growing
  the heap, filling a page. `MemoryProof` shows that such a step of one process keeps
  the others isolated when its fresh frames were free, and that a fork does because it takes the
  write permission from both sides of every page that it shares; it has a lemma per call and per case of
  the fault handler. Copying on a write is safe because `Arc::strong_count` tells
  whether anyone else tracks the frame.

Assumptions are the named `ASSUME`s of the modules: positive bounds, at least
one hart, exit codes and signal numbers in range, and memory areas that do not
overlap, finitely many threads, processes, nodes and files, an image, a stack and a
heap that lie inside the address space, and a descriptor table with room for the
three standard files. Facts about recursive functions are proved by induction over
a length or a number; since the provers cannot instantiate the library's induction theorems, the step from
"the least counterexample" is made explicitly with `WFMin` (`NatInd`, `MinIn`).
Only model-checked, because the prover has no reasoning for it or no
proof has been written: all liveness properties and the fairness part of
`PoolSpec`; `NoOvertaking`; the action properties of `Vfs` (`UnlinkedIsGone`,
`ListingExact`) and of `Memory` (`DanglingOnlyBySplit`, `WriteBackInPlace`,
`AutoPlacementFree`); and everything about `Heap`, `Sockets` and `Ipc`, most of whose
operations sort, filter and fold sequences.

## Where code and comments disagree

The three violations are what the code does, not artefacts of the bounds:

* `sys_wait4` looks for children once. When two threads wait and one collects
  the only child, the other is never told ECHILD.
* `FUTEX_WAIT` with a timeout does not remove its entry, so the wake-up an
  exiting thread owes to one waiter may reach nobody.
* `handle_signal` restores the mask after its loop, which is not reached when
  the system call that was interrupted completes first.

Other behaviour that the models have and no property forbids: `wait4(-1,
WNOHANG)` looks at the first child only; a process whose main thread calls `exit`
first, or `rt_sigreturn` outside a handler (`user/mod.rs:411`), or is dropped before
it is spawned, never gets an exit code (`StrandedOnlyByMain` says that there is no
other way); SIGKILL can be blocked; a thread that calls `exit` in a handler goes on,
and memory and files may be cleared under it (`CleanedQuiet`: under no other); a
thread that waits in a handler does not see its process end (`user/signal.rs:394`);
requeueing more threads than wait panics;
`MemArea::sub` with a hole keeps the page table entries of the hole, and loses
track of the pages above it (`tasks/memset.rs:133`); what a file area that was mapped
with an offset, or lost its front, writes back lands too far to the front
(`tasks/memset.rs:183`, `:217`); `exec` of a missing file has
already cleared the memory (`tasks/exec.rs:186`); a touch of a mapping beyond the
end of its file faults for ever (`user/mod.rs:191`); `get_robust_list` writes
through copy-on-write (`syscall/mm.rs:256`); `renameat2` copies and keeps the old
name (`syscall/fd.rs:141`); after `umount("/")` every path panics
(`filesystem/fs/src/dentry.rs:39`); `sendfile` past the end of its input sends
cleared bytes (`syscall/fd.rs:724`); a writer whose reader is gone waits for ever
(`filesystem/fs/src/pipe.rs:24`); `readv` loses what it read when a later buffer
finds nothing (`syscall/fd.rs:76`); an epoll set watches whatever a reused number
means (`syscall/fd.rs:1038`); `F_SETFL` replaces the access mode
(`syscall/fd.rs:589`); a second `bind` shares the first one's port
(`syscall/socket.rs:134`); a `connect` on an accepted socket makes the close of its
old peer panic (`vendor/lose-net-stack/src/connection/tcp.rs:479`); a blocking `msgsnd` to a full queue answers success
(`syscall/shm.rs:366`); `msgrcv` removes a message before it finds that it cannot
deliver it (`syscall/shm.rs:385`).

## Not modelled

* Datagram sockets, and packets that come from the network: the stack is vendored,
  and the task that would feed it from the network device (`handle_net`) is not
  spawned.
* The ext4 and FAT adapters and procfs: each call is passed on to a vendored file
  system, which holds the state that matters, or formats a text. `Vfs` models the
  kernel as it boots without a block device, with the RAM file system as root.
* Device drivers, boot, interrupt entry and locks: register access and vendored
  crates. A critical section is one step in every module.
* The buddy allocator behind the heap, a vendored crate.
* The cache of program templates, ELF parsing, relocation and the layout of the
  initial stack; their failures are outcomes of `exec_with_process`.
* Calls without effect on kernel state: `mprotect`, `msync`, `semop`, clocks,
  `uname` and the like, terminal settings, socket options, file times, modes and
  owners, `set_robust_list`, whose fields nothing reads. The `flock` of the code
  keeps no lock.
* The table of system calls, and the list of test programs in `initproc.rs`, of
  which `command` is modelled.
