# Verification of perrOS

perrOS is a set of operating-systems exercises on xv6 and on plain Linux: a
shell and a stride scheduler (p2), two user-level allocators and a separate
stack and heap (p3), threads, locks and condition variables (p4), and a file
system checker (p5). Each exercise is a copy of xv6 with changes. This
directory models the parts in which the authors changed or added logic of their
own, and of the xv6 below them those where processes, the disk and crashes
interleave: pipes, the buffer cache, the disk driver and the inodes. The models
are checked on small instances with TLC, and the most important results are
proved for all instances with TLAPS.

    tlc -workers 2 -config lock.cfg MCTicketLock      # one run, see the table of runs
    tlapm TicketLockProof.tla                         # one proof module

Contents: 1 inventory, 2 modules and how they correspond to the code, 3 runs,
4 bounds, 5 fairness, 6 proofs, 7 what the code does not promise, 8 what is not
modelled.

Paths below leave out the leading `src/`; `kernel/` and `user/` alone mean those
of `p4/xv6/`.

## 1. Inventory

### Components that are modelled

**Process table of the threaded kernel** (`kernel/proc.c`, `proc.h`,
`sysproc.c`, the exits of `trap.c`). State: 64 slots of `struct proc` with state,
pid, parent, killed, isThread, channel and page table; the next pid. Operations:
fork, clone, exit, wait, join, kill, exec, ticket_sleep, wake, the scheduler and
the yield of the clock. All go through one spinlock, `ptable.lock`, but not all
of what they do happens under it: fork and clone fill the new slot without it,
and exit drops it in the middle of its scan to kill and join each of its
threads. That is where the interleavings are. Correct means: nobody sleeps
through the death it waits for; parents outlive the pointers to them; nobody runs
in a freed page table; exit kills its own threads and nobody else's; a killed
process leaves; exit ends.

**Ticket lock** (`user/locklib.c`, once more `lock_release` in `kernel/proc.c`).
State: two ints in user memory, `ticket` and `turn`. Operations: lock_init,
lock_acquire (draw a ticket, spin), lock_release. Hard: the ints wrap, and a
thread may be killed while it spins or holds the lock. Correct means exclusive,
first come first served, no starvation.

**Condition variables** (`user/cvarlib.c`, `ticket_sleep` and `proc_wakeup` of
`kernel/proc.c`). State: a ring of pids with head and tail per variable.
Operations: cv_wait, cv_signal. cv_wait appends the caller's pid and traps;
ticket_sleep takes `ptable.lock`, releases the *user* lock, and sleeps. Hard:
the window between the unlock and the sleep; the empty/full tests of the ring;
pids of killed threads that stay in it. Correct means: no wake-up is lost, and
lock and conditions together are a monitor.

**Producer/consumer program** (`user/race.c`), the client that shows whether
lock and condition variables suffice to wait for a full or empty buffer.

**Stride scheduler** (`p2/stride/xv6/kernel/proc.c`). State: tickets, stride and
pass value of every slot, the pass value chosen last. Operations: scheduler,
yield, sleep, wakeup, kill, fork, exit, wait, settickets. Hard: fork writes the
stride data of a child that is already runnable; woken and new processes are set
back to the last minimum; several processors choose in turn, so a process that has
run for long comes back behind what the others have chosen; pass values wrap. Correct
means: fewer processes than there are processors are ever behind, nobody who is chosen
while another waits gets more than a stride ahead of it, time does not go back, and
everybody who can run does.

**Allocators** (`p3/mem/mem.c`). State: a stack of slabs in the first quarter
of a region, a next-fit list of free nodes in the rest, a cursor into that list,
headers in the memory itself. Operations: Mem_Init, Mem_Alloc, Mem_Free, from
many threads, each allocator under a mutex of its own, the clearing of a block
under none. Correct means: blocks handed out are aligned, large enough, inside
the region and apart; nothing gets lost in splits and merges; the cursor always
is on the list; slabs come cleared.

**Shared address space** (`growproc`, `proc_clone`, `fork` in `kernel/proc.c`,
`allocuvm`, `deallocuvm`, `copyuvm` in `kernel/vm.c`, `sys_sbrk`). State: every
struct proc has a copy of `sz` of its own, next to the page table that it
shares. Operations: sbrk, clone, fork. Hard: the copies are read without the
lock and written under it. Correct means: all threads of a process agree on its
size, exactly the pages below it are mapped, no page is lost, no panic.

**Separate stack and heap** (`growproc`, `fork`, `exit` and `wait` in
`p3/xv6/xv6/kernel/proc.c`, `allocuvm`, `deallocuvm`, `freevm`, `copyuvm` in
`vm.c`, the page fault in `trap.c`, `exec.c`, the argument tests in `syscall.c`).
State: `sz`, where program and heap end, and `stackSz`, where the stack begins;
a page table; the pages left. Operations: sbrk up and down, the fault that grows
the stack by a page, fork, exec, exit, wait. Hard: two regions grow towards each
other, each with a test of its own for the page between them; sizes are not
whole pages; kalloc may fail at any page while other processes take and give
pages. Correct means: the two numbers say exactly what is mapped, a page stays
free between the regions, a word, a block of a size that is not negative and a string
that ends in time are there when a system call accepts them as arguments, no page is
lost.

**Pipes and descriptors** (`kernel/pipe.c`, `file.c`, `sysfile.c`, the
descriptors in fork and exit). State: the file table with its reference counts,
the descriptors of every process, the ring of a pipe with nread, nwrite and the
two flags that say which side is open. Operations: pipe, read, write, close,
dup, fork, exit, kill. Hard: fileclose lets go of the file table before it
closes the pipe; reader and writer sleep on each other; killed processes leave
in the middle; pipe() can fail at four places. Correct means: counts are what
descriptors say, the page of a pipe lives as long as somebody may use it, nobody
sleeps without a cause, and what comes out is what went in.

**Pipeline of the shell** (the PIPE case of `user/sh.c`): three processes, one
pipe, and six descriptors that all have to be closed by the right process.
Correct means that the pipeline ends.

**Buffer cache and disk queue** (`kernel/bio.c`, `kernel/ide.c`). State: buffers
with sector, B_BUSY, B_VALID, B_DIRTY and data in an LRU list; the queue of
requests; the command the controller works on. Operations: bread, bwrite,
brelse, iderw, ideintr. Hard: bget scans again after every sleep; bget and iderw
sleep on the same channel; the interrupt comes at any time and belongs to the head
of the queue. Correct means: a sector is in one buffer at most and the buffer is
the sector; processes see a store of sectors; every request ends.

**Inodes and directories** (`kernel/fs.c`, the calls of `sysfile.c` that name
files). State: inodes, bitmap and directory blocks on the disk; the inode cache
with reference counts, I_BUSY and I_VALID. Operations: open, create, mkdir, link,
unlink, close, the first write of a file, and everything below them (iget, ilock,
iput with itrunc, ialloc, balloc, bfree, namex, dirlookup, dirlink). Hard: there is
no log, so a crash may leave any prefix of the writes; iput drops the cache lock
while it truncates; calls hold one inode while they lock the next; link counts
before it knows. Correct means: the image can be used after any crash, references
and copies are right, nothing leaks, no deadlock.

### How they interact

The components of p4 meet in `struct proc` and `ptable.lock`. The condition
variables use the ticket lock (in user mode and, through `ticket_sleep`, in the
kernel) and the system calls ticket_sleep and wake of the process table; `CondVar`
contains the part of both that it needs, and `BoundedBuffer` extends it with the
program. The shared address space is a second view on the same slots: `ProcTable`
has who lives in which page table and when it is freed, `SharedSpace` how large it
is. `ShellPipe` extends `Pipe` with the processes of a pipeline. Inodes use
buffers: `Inodes` takes the write of a block as one step that nobody else sees
half done, and `BufCache` shows that bread, bwrite and brelse give just that
(`IsSectorStore`). exit of a killed process comes from `trap()`, the yield from the
clock; both are actions of the modules with processes in them. The allocators, the
p2 scheduler and the p3 address space are programs, or kernels, of their own.

### Hazards

`PROJECT.json` lists, line by line, what is hard to test in this code, and which
property would catch it. The largest groups: steps of fork, clone and exit
outside `ptable.lock`; sleeping against waking (wait, join, ticket_sleep, pipes,
buffers); tickets that wrap; stale reads (`p->pid` in exit, `sz` in fork, clone and
sbrk, a buffer after a sleep, a copy of an inode); several processors that choose in turn;
half-done operations (a join that gives up because its caller was killed, a growth
that runs out of memory, a link that cannot be made, a crash between two writes);
counts that every error path must keep; long sequences of splits and merges in
the allocator; and starvation under stride scheduling.

Some entries have no property, and a note instead: the code is exposed to what they
describe, so that a property that holds can only speak of the time before, or of the
others. Section 7 says what happens then, and with which definition TLC shows it.

## 2. Modules

| Module | Models | Extended or instantiated by |
|---|---|---|
| `ProcTable` | `kernel/proc.c` | `MCProcTable`, `ProcTableProof` |
| `FifoLock` | what the ticket lock promises | `TicketLock` |
| `TicketLock` | `user/locklib.c` | `MCTicketLock`, `TicketLockProof`, which `SchedulingProof` instantiates |
| `Monitor` | what lock and condition variables promise together | `CondVar` |
| `CondVar` | `user/cvarlib.c`, ticket_sleep, proc_wakeup | `BoundedBuffer` |
| `BoundedBuffer` | `user/race.c` | `SchedulingProof` |
| `StrideSched` | `p2/stride/xv6/kernel/proc.c` | `SchedulingProof` |
| `Heap` | what Mem_Alloc and Mem_Free promise | `MemAlloc` |
| `MemAlloc` | `p3/mem/mem.c` | |
| `SharedSpace` | sbrk, clone and fork on `sz` and the page table | `MCSharedSpace`, `SharedSpaceProof` |
| `StackHeap` | sbrk, page fault, fork, exec, exit, wait of p3 on pages | `MCStackHeap`, `StackHeapProof` |
| `Stream` | what a pipe promises to its two sides | `ShellPipe` |
| `Pipe` | `kernel/pipe.c`, descriptors of `file.c`, `sysfile.c`, `proc.c` | `ShellPipe` |
| `ShellPipe` | the PIPE case of `user/sh.c` and its commands | `ShellPipeProof` |
| `SectorStore` | what buffer cache and driver promise together | `BufCache`, `BufCacheProof` |
| `BufCache` | `kernel/bio.c`, `kernel/ide.c` | `BufCacheProof` |
| `Inodes` | `kernel/fs.c`, the calls of `sysfile.c` that name files | `MCInodes`, `InodesInv` |
| `InodesInv` | nothing of its own: the inductive invariant of `Inodes` | `InodesProof` |

The MC modules hold values of constants that a .cfg cannot write down; the Proof
modules hold theorems and the invariants they need. `SchedulingProof` has two parts
that share nothing: the threads that wait for each other in user mode, and the p2
scheduler.

The granularity is the same everywhere: what happens under one lock, or between
two points at which another processor or the clock could get in *and see the
difference*, is one action. `PROJECT.json` maps every definition to its lines.

Operators whose comment begins with "Variant" are not part of a specification:
each is the same definition with a plausible mistake in it, and shows that a
property notices that mistake (section 3).

**ProcTable.** A process is named by its slot. The variables are the fields of
`struct proc`, and for every slot the place in the kernel where it continues
(`pc`) with its local variables (`idx`, the slot being filled or scanned;
`jpid`, a pid argument). fork is `ForkAlloc` (allocproc under the lock),
`ForkFill`, `ForkFlag`, `Publish`, because nothing of it but allocproc holds the
lock; clone likewise, and `AllocFails` is the error return of both. exit is
`StartExit`; then `ExitMeetsThread` for every thread the scan meets, which ends
where the lock is dropped, `ExitReads` (`p->pid`, unlocked), `ExitKills`,
`ExitReads` once more, and `JoinReaps`, `JoinGivesUp` or `JoinSleeps` of
`proc_join`; then `ExitEnds`. `ScanTo` is one stretch of the loop with its
wake-ups and its hand-over of children. `Yield` is possible at every place where
the lock is not held. Slot reuse is faithful to the code: allocproc resets
neither killed, nor isThread, nor parent.

`disturbed` is a history variable. It becomes true for good at the first event
after which the tree of processes is no longer what the authors meant: a kill
that exit has not sent, a thread that calls clone or join, an exec of a process
whose page table others use. Every operation is allowed in the run; three of the
properties speak of the time until then (section 7 says what breaks afterwards, and
why).

**TicketLock.** `Take` is the FetchAndAdd on `ticket`, `Enter` the end of the
spin, `Leave` the FetchAndAdd on `turn`; `Width` is the number of values of an
int. `Die` is a thread killed by the kernel in either place. `FifoLock` is a queue
of threads, of which the first may be inside; `HandedOnInOrder` is its
specification under the mapping `queue <- WaitingLine`, the threads by the
distance of their ticket from `turn`, so dead threads stay in the line.

**CondVar.** What a thread does between lock_acquire and lock_release is exclusive
anyway, so the ring operations of cv_wait (`CvWait`) and cv_signal (`CvSignal`)
are one step each; ticket_sleep is `TsLock`, `TsRelease`, `TsSleep`; `Wake` needs
`ptable.lock` and so falls before or after, never between. `Kill` and `Die` take a
thread out at every place where trap() can; its ticket and its ring entry stay.
`Monitor` is the textbook monitor, and `IsMonitor` maps the holder of the ticket
lock and the ring of pids to its holder and its wait queues.

**BoundedBuffer.** `Produce` and `Consume` are the two loops of race.c with the
`while` around cv_wait as in the source; `Unlock` the end of the loop body.

**StrideSched.** `Schedule` is the scan for the smallest pass value with the
assignment to `globalMinPassVal` and the advance; any number of processors may hold a
running process each. fork is `Fork`, or, when it is interrupted or another processor
overtakes it (`Preempts`), `ForkRun` (the child becomes RUNNABLE), three `ForkFill` and
`ForkStore`, in the order of the code; the last assignment reads `globalMinPassVal` and
stores what it has read, and the store may fall together with the advance of the same
pass value by another processor's scheduler. `Wakeup(W)` is wakeup1 for whatever channel
the processes W sleep on. Init starts the first process with stride 0, as userinit
does. Two history variables tell whose pass value is from another time (`odd`: killed in
its sleep, or its fork came late) and who has been chosen while another waited
(`overtook`).

**MemAlloc.** Addresses are offsets from `regionStartPtr`. Headers that hold MAGIC
are `busy`, the free list is a sequence in address order, `dirty` are the 16-byte
cells that may hold something other than zeros. Mem_Alloc of the special size is
`AllocSlab`, then either `AllocNextFit` or `Clear`; the clearing runs outside the
locks and writes `Zeroed(p)`, exactly the bytes the code writes. `Found` scans
from the cursor around as the do-while does, `Carve` splits, `Coalesce` merges
right then left. `Heap` is a set of blocks, aligned and apart.

**SharedSpace.** Sizes are in half pages, so that PGROUNDUP matters. `Grow`,
`GrowFails` and `GrowPanics` are the outcomes of growproc; `Updated` is its scan
for the threads that get the new size. clone is `Clone`, `CloneSize`, `CloneFlag`;
fork is `Fork`, `ForkBound`, `ForkCopy` (or `ForkFails`, `ForkPanics`), `ForkSize`.
`locked` says that an error return of growproc has left `ptable.lock` locked; from
there on nothing that needs the lock happens. `disturbed` says that somebody has
run in the middle of the clone or fork of another, or that a child of fork has
called growproc.

**StackHeap.** Addresses are in half pages: an even address is the first byte of a
page, an odd one a byte inside it. The loops of allocuvm and copyuvm go page by
page, since kalloc is shared: sbrk is `SbrkUp`, then `SbrkPage` until `SbrkDone`
or `SbrkNoMemory` (deallocuvm of what was there); `SbrkDown` is one step. fork and exec
build `fresh`, a page table of their own, the same way. `StackGrows` and
`StackNoMemory` are the page fault: any address that is not mapped may be
touched, and the handler's test decides. mappages and copyuvm panic as in the
code, as steps that set `panicked`.

**Pipe.** A system call is one step for every hold of `ftable.lock` or of the lock
of the pipe; `sleep()` is a step of its own, because kill() takes `ptable.lock`
only and can come between the test of `killed` and the sleep. fileclose is `Close`
and, for the last reference to an end, `PipeClose`; exit is a close of every
descriptor, one at a time (`SysExit`, `ExitClose`), pipe() on its error path a close
of what it holds in rf and wf (`pf`, `FileClose`). **ShellPipe** is the program of three processes line by
line (`prog`) and two commands that read, write, start helpers, leave or are
killed as they like; it starts from a console on some descriptors and a file table
that other processes use in part. `Stream` is two growing sequences of bytes.

**BufCache.** bget is `GetCached`, `GetBusy` (sleep), `GetFresh` (recycle the
least recently used) or `GetNone` (panic), iderw is `Iderw` (enqueue, start,
sleep) and `IderwLook`; `IdeIntr` is ideintr, `DiskWorks` the controller. Processes
use sectors as fs.c does: read, perhaps change and write, give back; the sectors
in `Inner` may be read while another is held, as the bitmap is. `SectorStore` is a
disk whose sectors are taken, seen, changed, written and given.

**Inodes.** Every write of a block is a step; what a process does between two
writes under one inode's lock goes with the write that follows, and waiting for
the lock is the step's guard. `Walk` is namex with iget, ilock, dirlookup and
iunlockput of each component; the calls follow, with their error paths (open may
still let go of the inode, for want of a file or a descriptor: `Opened`). `PutStep`
is the part of iput that truncates and frees, which the caller of any other step
may have to do next (`putting`). `Crash` forgets everything but the disk.

## 3. Runs

Every property has in `PROJECT.json` a mutant of the code that violates it under
the same run. The last column is the number of distinct states.

| Run | Module | Shows | States |
|---|---|---|---|
| `proc` | MCProcTable | every system call, kill(0), slot reuse: `NoLostChild`, `NoLostThread`; until disturbed, `ParentIsOlder`, `SpaceAlive`, `ExitKillsOwnThreads` | 3,753,229 |
| `proc_fair` | MCProcTable | under the scheduler's fairness: `KilledExits`, `ExitCompletes` | 2,554 |
| `lock` | MCTicketLock | `HandedOnInOrder` (refinement of FifoLock), `NoStarvation`, with kills and wrapping counters | 37,286 |
| `buffer` | BoundedBuffer | with two threads that may be killed: `NoLostWaiter`, `BufferBounds`, `IsMonitor` (refinement of Monitor), `KeepsFlowing` | 377,711 |
| `stride` | StrideSched | on two processors: `NoLaggard`, `NoRunaway`, `TimeNeverTurnsBack` | 3,044,921 |
| `stride_starve` | StrideSched | violation of `RunnableRuns`: starvation, see section 7 | |
| `mem` | MemAlloc | `StoreSound`, `ScanIsNextFit`, `SlabsComeCleared`, `IsHeap` (refinement of Heap), no deadlock | 75,566 |
| `space` | MCSharedSpace | sbrk, clone and fork interleaved, with failures: `PagesConserved`; until disturbed, `SizesAgree`, `MappedIsSize` | 2,182,320 |
| `stack` | MCStackHeap | `LayoutSound`, `GuardPage`, `ArgsAreMapped`, `PagesConserved` | 1,422,513 |
| `pipe` | ShellPipe | `CountsAreDescriptors`, `SleepersHaveCause`, `IsStream` (refinement of Stream), `PipelineEnds` | 287,918 |
| `disk` | BufCache | `CacheCoherent`, `WaitersHaveCause`, `IsSectorStore` (refinement of SectorStore), `IoEnds` | 215,232 |
| `inodes` | MCInodes | with crashes: `ImageSound`, `RefsCounted`, `CopiesAgree`, `NothingLeaks`, `NoDeadlock` | 419,639 |

What the properties are about:

* `NoLostChild`, `NoLostThread`: whoever sleeps in wait, or in a join of its own
  thread (also the one inside exit), has no zombie it could collect. It relates
  the sleeper's channel, the parent pointers that fork writes without the lock
  and exit rewrites, and the wake-ups of exit.
* `ParentIsOlder`: no parent pointer survives the slot it names, although slots
  are reused and children are handed to initproc one after the other.
  `SpaceAlive`, `ExitKillsOwnThreads`: the exit of an owner gets all its threads,
  and nobody else, before its parent frees the page table.
* `KilledExits`, `ExitCompletes`: liveness of kill and of the scan of exit, which
  waits for every thread in turn.
* `NoLostWaiter`: a waiter is in the ring or in the hands of a signaller, also
  while it has released the lock and does not sleep yet.
* `NoLaggard`, `NoRunaway`, `TimeNeverTurnsBack`: what makes the shares proportional. A
  process that is behind keeps a processor until it has caught up, so there must be
  fewer of them than processors; of two that are ready, whoever is chosen over the other
  is at most a stride ahead; and no step but a kill and a late fork brings back a pass
  value that everybody has left behind. All three hold for any number of processors.
* `StoreSound`, `ScanIsNextFit`: what a free list with embedded headers must keep
  through any mix of calls; `SlabsComeCleared`, `IsHeap` what callers see.
* `SizesAgree`, `MappedIsSize`: argptr and argstr check user pointers against the
  caller's own copy of sz, so this is what system calls rely on; `PagesConserved`
  is the same for kalloc.
* `LayoutSound`, `GuardPage`: the two numbers of a p3 process against its page
  table, through every order of growth, shrinking and failure; `ArgsAreMapped`
  what the tests of fetchint, fetchstr and argptr guarantee, which know only those two
  numbers: it fails as soon as one of the numbers is changed and a page is not there.
  It says nothing of sizes below 0 and of strings without an end (section 7).
* `CountsAreDescriptors`: reference counts against descriptors and what pipe() holds,
  and the open flags and the page of a pipe against those who may still use
  it. `SleepersHaveCause`: a reader sleeps only while the pipe is empty and a writer
  is left, a writer only while it is full and a reader is left. `PipelineEnds`: no
  end of the pipe is left open by anybody, however the processes leave.
* `CacheCoherent`, `WaitersHaveCause`: one buffer per sector, valid and clean
  buffers equal to the disk, no lost wake-up. `IoEnds`: every request is served.
* `ImageSound`: what holds of the disk after every single write, hence after every
  crash: no entry names a free inode, no inode counts fewer links than it has, no
  block has two owners or is free for the next. `RefsCounted`, `CopiesAgree`: the
  cache. `NothingLeaks`: with no call under way and no crash, the disk has exactly
  what can be reached. `NoDeadlock`: some call can always go on.

## 4. Bounds

* ProcTable: 4 slots are initproc, a process and two more, which may be a child and
  a thread, two threads or two children, and a slot that is reused: `MaxPid = 5` pids
  are handed out in all. One processor gives every interleaving of two steps that the
  lock permits, since a process may be preempted wherever it does not hold the lock
  and stays where it is. The threads call kill, with the arguments 0 (every unused slot)
  and 3.
  `proc_fair` has `MaxPid = 4`, and no fork and no ticket_sleep (section 7). `join(-1)`
  stands for any thread.
* Lock: four threads, five values, so the counters wrap after five acquires and
  the window of tickets is as long as it can be.
* BoundedBuffer: two producers and one consumer of a buffer of one, the capacity
  in race.c, which has one thread of each kind: two threads that wait on the same
  condition, and one on the other, is the smallest instance in which a wake-up can be
  overtaken by a newcomer. The ring has four entries for three threads (the code: 64
  for at most 62), the counters four values; a producer and the consumer may be killed.
* StrideSched: three slots on two processors, as the Makefile has them: two run, one
  waits or sleeps. Strides 2 and 1 (and 0, of the first process); `MaxPass = 3` lets the
  fast process be chosen three times while the slow one is chosen once, with every
  operation in between; forks into one of the slots may be overtaken (`Preempts`), so
  at most one fork at a time is. `ULong` is far above it, since a wrap takes
  2^32 / 1500 turns; section 7 has the instance in which it happens.
* MemAlloc: a region of 128 bytes: two slabs of 16 bytes and 96 bytes for next fit,
  which is the least in which a free node can have two free neighbours and a
  leftover of exactly one header occurs. The sizes 0, 16, 20 and 40 give blocks of 0, 1,
  2 and 3 cells.
* SharedSpace: three slots, amounts of sbrk that are negative, zero, half a page and
  one and a half; `Top = 6` (half pages) and `Memory = 5` pages are small enough that
  both limits are reached.
* StackHeap: three processes, six pages of addresses and eight of memory: programs of
  half a page to the whole space, sbrk by -5, -2, 1 and 3 half pages, so that every
  boundary is met from both sides, and two or three processes that run out of
  memory in one another's loops; a uint with twice as many values as there are addresses
  (`UInt`), so that the sums of argptr wrap. The slots other than the first process are alike,
  hence the symmetry; no liveness is checked under it.
* Pipe: the shell, its two commands and a process one of them starts; three entries
  in the file table, four descriptors each, one page: each of the four failures of
  pipe() occurs. Two bytes of ring and two writes of three bytes, by one writer or by
  two: each fills the ring, sleeps in its middle and continues, the reader finds one byte
  or two, and the counters wrap; one kill. A read that leaves bytes behind does not
  occur.
* BufCache: two processes, three sectors, two buffers: a sector must be recycled for
  another, both processes may want the same, and both may hold one and want another
  (the panic of bget).
* Inodes: two processes with three calls between them, three inodes, three blocks,
  directories of two entries, five trees to start from, one crash. Three calls are
  enough for a call that meets another in the middle twice, and for a number that is
  freed, reused and looked at by somebody who still had the old one. The two processes
  are alike, hence the symmetry; only invariants are checked under it.

`CHECK_DEADLOCK FALSE` stands where the system really stops: pids or calls run out
(`MaxPid`, `MaxCalls`), a killed thread's turn never comes (`lock`, `buffer`), the bound on
pass values is reached, growproc has left the lock locked, the kernel has panicked
(`space`, `stack`, `disk`), or the pipeline has ended. `mem` checks for deadlock, and
`inodes` has `NoDeadlock`.

## 5. Fairness

* `ProcTable!FairSpec`: `scheduler()` visits every slot in turn under the lock, so
  a process that is RUNNABLE again and again is picked (`SF` on `Schedule`); the
  clock interrupts every processor (`WF` on `Yield`); a process inside the kernel
  continues whenever it is let in (`SF` on `KernelStep`, strong because it may be
  preempted at every place), and trap() throws a killed process out of user mode
  (`SF` on `ForcedExit`). Nothing is assumed of what user code calls.
* `TicketLock!LockFairSpec`: every thread is scheduled again and again, and a holder
  releases in the end, which is the caller's duty. `NoStarvation` excuses the case
  that a thread was killed, since then the turn of that thread never comes.
* `BoundedBuffer!BufFairSpec`: each thread of race.c, scheduled again and again,
  takes its next step. Weak fairness of the whole thread is enough. `KeepsFlowing`
  excuses the case that a thread was killed, for the same reason as above.
* `StrideSched!FairSpec` asks that a choice that stays the right one is made, and
  that a process that runs gives up the processor. It does *not* ask that
  every process is chosen: that is what the scheduler should bring about.
* `ShellPipe!FairSpec`: weak fairness of each process: whoever can run runs again and
  again (xv6's scheduler is round robin). A command that can read, write or leave does
  one of them; the bound on bytes makes it leave in the end. Kills are not fair.
* `BufCache!FairSpec`: processes inside bget, iderw and brelse run on, the controller
  finishes its command, the interrupt is delivered. brelse is in, since fs.c gives back
  every buffer it has read; what a process asks for is not.

## 6. Proofs

| Module | Theorems | Assumes |
|---|---|---|
| `ProcTableProof` | `TypeCorrect`, `ChildrenAreNotLost`, `ThreadsAreNotLost`, `ParentsAreOlder`, `SpacesAreAlive`, `OnlyOwnThreadsKilled` | `ConstantsAssumption`: at least two slots, any number of processors; initproc neither exits nor is killed |
| `TicketLockProof` | `LockIsExclusive`, `LockIsFifo` | `LockAssumption`: finitely many threads, fewer than an int has values |
| `SchedulingProof` | `LibraryLockIsFifo`, `BufferStaysInBounds`, `NoWakeUpIsLost`, `LockAndConditionsAreMonitor` | `CondAssumption`, `BufferAssumption`: finitely many threads, of which the process table holds fewer at a time than a queue has slots and an int has values; one condition is not the other |
| `SchedulingProof` | `LaggardsAreFew`, `NobodyRunsAway`, `TimeMovesForward` | `StrideAssumption`: any number of slots and processors; and `Calm`: no pass value overflows |
| `SharedSpaceProof` | `TeamAgrees`, `PagesAreTheSize`, `KernelDoesNotPanic`, `NoPageIsLost` | `SpaceAssumption` |
| `StackHeapProof` | `TypeCorrect`, `LayoutIsSound`, `GuardStays`, `ArgumentsAreMapped`, `PagesAreConserved` | `StackHeapAssumption`: finitely many processes, USERTOP above three pages and at most half of what a uint can hold |
| `BufCacheProof` | `CacheIsCoherent`, `NoWakeupIsLost`, `CacheIsAStore` | `DiskAssumption`: finitely many processes and buffers, at least one buffer, `None` distinct |
| `InodesProof` | `ReferencesCounted`, `CopiesAreTheDisk`, `DiskIsSound`, `CallsNeverDeadlock` | `InodesAssumption`: finitely many processes and inodes, names and paths of any kind, and disks to start from that are `Consistent`: blocks have one owner, counts are not too low, no directory is below itself |
| `ShellPipeProof` | `DescriptorsAreCounted`, `SleepersAreWoken`, `PipeIsStream` | `PipeAssumption`: finitely many processes, a table and descriptors, a ring whose size divides the number of values of its counters and is smaller; `ShellAssumption`: descriptors for a redirection, at least one page |

Every theorem holds for all values of the constants. `Calm` is the left side of
the implication in the statement: when pass values wrap the scheduler takes the one who
has just wrapped for the one furthest behind (section 7).

**ProcTable.** The inductive invariant is `IInv`. `NoLostChild` alone is not
inductive for three reasons. The wake-up of exit goes to a channel, so the
sleeper must be known to sleep on the right one (`Sleepers`). A slot under
construction is filled by a process that holds no lock; nobody else may touch its
fields, and only one process may fill it (`Fills`, with `Phases`, which ties the
place in the kernel to the state in the table, and `Scans`, which bounds the
locals of exit). And exit moves its children to initproc without a wake-up
unless they are zombies, so that a process that were its own child would hand
itself over (`NotOwnChild`; `Boot` says the same of initproc). There is a lemma for
allocation, one for reaping, one for a stretch of the scan of exit
(`ExitScanning`), one for wake-ups (`Waking`), and then a case for every action.
`NoLostThread` needs the same conjuncts. Owners only: for siblings it is false.

What holds until somebody disturbs rests on a second invariant, `FInv`, over the first.
`ParentIsOlder` and `SpaceAlive` are about what stays behind when a process is gone, so
the invariant must say when nothing does: `Disposed`, that exit has nobody left below
the slot its scan has reached. It holds only because nobody joins the family behind the
scan (`Embryos`: an unpublished child is the one its parent is filling, and a parent
that fills does not exit) and no thread of the family creates or waits
(`ThreadPhases`). `Blank` says what allocproc may rely on although it resets nothing,
`Pids` that a pid is given once: that is why the kill which exit sends with the lock
dropped, by pid, hits the thread it has met. `Pids`, `Locals` and `Blank` hold
whatever is called; the rest is `Family`, and each step keeps it or disturbs.

**TicketLock.** `LockInv`: the tickets that are out fill the window from `turn` to
`ticket` (`Window`), each is out once (`Distinct`), there are as many as threads
(`Length`), holders are at its start (`HolderFirst`). `Length` is what carries the
proof over the wrap: the window is shorter than the circle, hence its two ends
never meet. The order theorem is a refinement proof: the window, read as a sequence
(`LineFull`: every place has exactly one thread), is FifoLock's queue, and each
action maps to one of FifoLock's or to a stutter.

**CondVar and BoundedBuffer.** The proof goes up in four steps. First, the lock inside the
library is the ticket lock: with places mapped by `Where`, every step is a step of
`TicketLock` or a stutter (`ItsLock`), so its theorems hold here by instantiation,
mutual exclusion and order. Second, `BufferBounds`, from mutual exclusion and what a
thread has tested when it changes the buffer. Third, the queues: `QueueInv` ties the
slots of each array from head up to tail to the threads in cv_wait and back. `Entries`: who
is in a slot has not returned; `Once`: no thread is in two, nor in one while
somebody has its pid in hand; `Caused`: who waits is in a slot or in a hand. An array
never fills, since each thread is in it once and the process table holds fewer of them
than it has slots (`Room`); this is where the sizes of the code matter. `ReadOff`
gets `Line`, computed with remainders around the end of the array, from the two
pointers. Fourth, the monitor: lines grow at the end and shrink at the front
(`LineGrows`, `LineShrinks`). What makes the mapping delicate is that cv_wait enqueues
before it releases the lock; a thread still inside is the last of its line
(`InsideIsLast`), so the line without it is the monitor's queue (`LeftFor`), and the
release is the step at which it joins.

**StrideSched.** `NoLaggard` carries itself: the scheduler takes the smallest pass value of
those that wait, so whoever is behind it afterwards was running, and there was a processor
left (`ScheduleKeeps`, with `FewerAreFew`); every other step lets processes in at
`globalMinPassVal` or calls them odd (`Enters`). `NoRunaway` needs `Behind`: once somebody
has been chosen over w, `globalMinPassVal` is not ahead of w, so a wake-up brings nobody too
far. `TimeNeverTurnsBack` needs nothing but types (`Onward`).

**SharedSpace.** The invariant is `GInv`, which is `~disturbed => Inv`: `Family` describes teams
(threads have the owner as parent and live in its page table, everybody else in a
table of their own); `Makes` says what a clone or fork under way has put into the
slot; `Solo` that there is at most one of them, which is what an undisturbed
history gives. The scan of growproc then updates exactly the copies of those that
share the table (the lemma on `Updated`).

`NoPageIsLost` needs none of this. Its invariant `Whole` knows nothing of who shares what
with whom: no size is beyond USERTOP, no page is either, and copyuvm works with an
argument that once was a size. Then every outcome of growproc takes no more pages than
kalloc has and `RepageConserves` does the rest.

**StackHeap.** No history is needed: the theorems hold in whatever order
processes interleave and wherever memory runs out. `Inv` has one formula for each
process, `Sound`, by the place it has reached in a loop of the kernel: between
calls the mapped pages are those of `sz` and `stackSz` (`Image`); in sbrk, `Growing`,
they are those and the part of the new range that is not in `todo`; in fork and exec,
`Copying` and `Loading`, the same of the table that is built. `Based` is what makes
the two tests of growproc and trap fit together: the base of the stack is a whole
page, and heap and base are a page apart unless exec put the heap there. `Apart`
keeps two forks out of one slot; `Remap` is the one panic that is left. The lemma
`OneMoves` reduces every action to the process that moves, since no process writes
the page table of another but the slot it fills. `Conserved`, for the pages, is inductive
with `Inv` only: a loop that maps a page changes the count by one because the page was
not there before, which is what `Growing`, `Copying` and `Loading` say of `todo`; and
the table that fork hands to the child replaces an empty one, since a slot without a
process maps nothing. Pages are counted as entries, pairs of a slot and a page
(`Entries`), so that the sum over the slots is one cardinality and a new table changes it
by the difference (`TableChange`, `Trade`).

**BufCache.** `CacheCoherent` says nothing of busy buffers, and is not inductive: what
brelse makes idle must have been clean. `Inv` therefore says of every buffer who has
it (`Single`: one buffer to a sector, one owner to a buffer) and when it is clean:
`Tidy`, always except while its owner has handed it to the driver (`Lent`). `Placed`
says for each place of a process what it waits for: the buffer of a sleeper in bget is
busy, the buffer of one in iderw is queued, or clean by now. That is the proof that
no wake-up is lost, although both sleep on the same channel and kill wakes either.
`Line` is about the queue: no buffer is in it twice, each has its owner waiting, and
the controller works on the first one, with the bytes that one has. The lemma
`MoveKeeps` takes care of the steps that only move a process, `GotKeeps` of
bget returning a buffer, recycled or not. The refinement needs
`Filled` as well, that a valid buffer has bytes. Holder and view of a sector are
choices (`CHOOSE`) that are determined because a sector has one buffer (`OwnerMeans`,
`SightMeans`); then bget maps to Take or TakeAndSee, bwrite to Change, the controller to
Write, the interrupt of a read to See, brelse to Give, and everything else to a stutter.

**Pipe and ShellPipe.** The proof goes up from the file table. `CountsAre` is inductive
with `Phases` (which slots a process may have in use, by its place in a call) and `Fresh`
(a file that pipe() holds is counted once and has no type until pipealloc is done): one
slot changes at a time, fork apart, and the number of slots that name a file follows
(`SlotPut`, `SlotCopy`, `CountsFollow`). Hence a file whose count falls to 0 is named
nowhere, and one that pipe() holds is named nowhere else (`HeldAlone`). So an end of a
pipe has one holder, a file or a close that has not come to pipeclose (`OneHolder`), and
the open flags say whether there is one (`EndsOpen`); a process inside a read or a write
has a descriptor of that end (`Busy`), which keeps the pipe: close is not possible
meanwhile, since the process itself would have to call it. On top of that `Waits` says
what a process has seen when it sleeps: the lock of the pipe covers it from the test to
the sleep, and afterwards whoever changes the counters or the flags wakes it. That takes
`NeverOverfull`, no more bytes in a pipe than it has room for, across the wrap of nread
and nwrite (`PutFits`, `TakeFits`). `DescriptorsAreCounted` and `SleepersAreWoken` follow.

The refinement of `Stream` is the last part. The bytes are numbered as they are written,
so what has been sent is 1, 2, 3 ... (`BytesAre`). `Ring` says where they are: if n bytes
have gone in and m come out, nwrite and nread are n and m modulo the values of a counter,
and byte k, for k in m+1..n, lies in slot (k-1) modulo the size of the ring (`RingOf`). That
a put spoils no byte that is still to be read, and a read finds the next one although both
remainders have come round, is arithmetic (`RemainderTwice`: the size of the ring divides
the number of counter values; `NearRemaindersDiffer`: fewer bytes than slots). `Young`: sh.c
makes its pipe once; `Asking`: a read or write under way wants a byte at least. Each step
of a process is then a Write, a Read, an End or a Close of the stream, or a stutter
(`StreamStep`).

**Inodes.** The invariant, in `InodesInv`, has two layers.

`Base` is types, the places at which a call has which locals (`Phases`), and
`RefsCounted`. It is inductive alone. Every step but those of iput's second half is one
of two kinds: a process *visits* the cache (gets an inode or not, locks it, gets what it
names, and leaves it as it is, unlocked, or given up: `MoveOf`, `StepOf`), or it *edits*
a copy under the lock (`EditOf`). For each action one lemma says which
(`OpenLockMoves` ... `UnlinkNlinkEdits`), and then that the count of an inode changes by
what the process's own pointers change (`StepBase`, `EditBase`); so the error paths
of link and create are cases of one lemma. This gives `ReferencesCounted`.

`Inv` adds what the other three theorems need. `Locks`: I_BUSY has one holder, and which,
by the place of the call. `Agree`: a copy differs from the disk only while its holder is
between the change and iupdate (`Drifts`). `Puts` and `Fresh` are about numbers that
change hands. Nobody meets an inode that iput truncates with its lock dropped, except
one who has been given the same number by ialloc, since iupdate frees the inode before
iput drops its reference; that one waits for the lock, and I_VALID is off when it
gets it (`Maker`, `PutTypesInv`, `PutEndsInv`). Nobody meets an inode that create is
filling, until its entry is written. `Known`: what a call has read of an inode still
holds while it has the lock, or a reference, whatever others do; that ip is not a
directory when link takes it up again after walking a second path, that the entry unlink
has found is still there.

`Tidy` is the tree. `ImageSound` speaks of what can be reached on the disk, and is far
from inductive: it says nothing of links that are counted and not made, of inodes that
calls have in the cache only, or of parts that are not reachable now. `Tidy`
therefore speaks of a *picture*, made of the disk and the copies: for every inode its
count, the block it owns and whether it is a directory; the contents of blocks; the links
that calls have counted and not yet made, or taken and not yet discounted (`Pend`); and
the inodes without a name yet (`InMaking`). It is `Sound` when blocks have one owner and
unused ones are empty (`Owners`), every count is at least the names, the `..` of the
subdirectories and what is pending (`Counted`), a directory leads back to the one place
it is named at (`Tree`), and no directory is below itself (`NoCircle`). What a
write can do to a picture is shown without any process in it: it names less (`Fewer`),
one count changes together with what is owed to it (`Recounted`), an entry goes
(`EntryGone`) or comes (`EntryMade`), `..` is written (`UpSound`), a block is taken
(`BlockTidy`). Each action is then one of these. The order of the writes in the code
is what makes them apply: link counts before it writes the entry, unlink clears
the entry before it discounts, iput frees the block before the inode gives it up, on the
disk, but after nobody can name it. A crash forgets the copies: the picture of the disk
alone names no more than the one before it (`CrashTidy`).

`DiskIsSound` needs one argument about reachability and no recursion, since `Reach` is
the least set that is closed under naming: the inodes that are complete (linked, named
or the root, and not in the making: `Complete`) are closed, hence hold it. That is why the
proof of the theorem is possible although it is about a closure.
`CallsNeverDeadlock`: whoever waits with a lock in hand is in create, at an inode that
nobody else knows, or in unlink, at what the directory names that it has locked
(`HoldsAndWaits`, `WaitsBelow`). If every call waited for another, the directories that
unlinks have locked would each name another of them, and `NoCircle` says that no set of
directories is like that, reachable or not.

Not provable here, and only model-checked: liveness (`KilledExits`,
`ExitCompletes`, `NoStarvation`, `KeepsFlowing`, `PipelineEnds`, `IoEnds`), since the
prover has no support for fairness and ENABLED. Only model-checked although a proof may
be possible: `NothingLeaks` of `Inodes`, the invariants of `MemAlloc`, and its
refinement of `Heap`. `NothingLeaks` says that counts are exact, and holds
only without crashes and strays; the invariant above has them as bounds, which is what a
crash leaves. What is said of MemAlloc computes with sequences of blocks at every step.

## 7. What the code does not promise

One run is a violation on purpose. `p2/stride/xv6/README:28` says that process
creation and wake-up cause no starvation. `stride_starve` shows they do: a woken or new
process starts at the pass value chosen *last*, so processes that fork, exit or
sleep and wake one another can keep the minimum where it is, and one that is a single
stride ahead, or sits in a higher slot, is never chosen.

Two models carry a history variable `disturbed`, and five properties of their runs speak
of the time until it becomes true. What comes after:

| Property | Disturbance | Where and why |
|---|---|---|
| `ParentIsOlder` | a thread clones | `kernel/proc.c:210`: exit scans once; a thread that it has not reached yet clones into a slot it has passed, and that thread keeps a parent that is gone |
| `SpaceAlive` | kill, exec | `kernel/proc.c:582`: an owner that is itself killed gives up its join, exits, and its parent frees the page table under a thread that still runs; exec frees the table without asking for threads |
| `ExitKillsOwnThreads` | a thread joins | `kernel/proc.c:219`: exit reads `p->pid` after it has dropped the lock; a sibling may have joined the thread and the slot may be somebody else's |
| `SizesAgree`, `NoPanic` | somebody runs inside a clone | `kernel/proc.c:520`: a clone copies `sz` before growproc can see it as a thread |
| `SizesAgree` | a child of fork grows | `kernel/proc.c:131`: growproc of an ordinary child gives its size to the threads of its parent |
| `MappedIsSize` | somebody runs inside a fork | `kernel/proc.c:165`: fork reads `sz` twice |

Further properties one would expect are violated in the model, and the
counterexample is a behaviour of the code. No doc or test promises them in so
many words, or the effect is a known limit of the exercise, so there is no run for
them. The definitions stay in the modules; to see a counterexample, check the
property alone, under Spec unless the table says FairSpec, in the run's
configuration with these changes.

| Property | Run and changes | Where and why |
|---|---|---|
| `BornUnkilled` | MCProcTable, as `proc` | `kernel/proc.c:445`: kill(0) finds an unused slot and marks it; allocproc (46) does not clear the mark, and the next process is born killed |
| `JoinWaitsForAnother` | MCProcTable, as `proc` | `kernel/proc.c:561`: the join of a thread counts the thread itself |
| `NoLostJoin` | MCProcTable: NPROC 5, NCPU 1, MaxPid 6; ProcOps fork clone exit kill; ThreadOps join exit; JoinArgs 6; KillArgs 2 | `kernel/proc.c:223`: exit wakes siblings in the middle of the scan, before it may drop the lock again; a sibling can go back to sleep before the zombie is there |
| `KilledDoesNotSleep`, `KilledExits` (FairSpec) | MCProcTable: NPROC 4, NCPU 2, MaxPid 3; ProcOps clone exit; ThreadOps ticket_sleep; KillArgs 2 | `kernel/proc.c:599`: ticket_sleep does not look at killed and sleeps on no channel, so the owner's exit waits for ever |
| `StrideMatchesTickets` | as `stride` | `p2/stride/xv6/kernel/proc.c:168`: settickets of the child is overwritten by the parent's fork |
| `MovesByItsStride` | as `stride` | same file, 106: userinit leaves the stride of the first process at 0 |
| `WakeupOnlyRaises` | as `stride` | same file, 406: wakeup1 also lowers the pass value of those that are ahead |
| `GlobalMinNeverFalls` | as `stride`, also without Preempts and Kills | `p2/stride/xv6/kernel/proc.c:298`: with two processors what was chosen early and yields late is behind what the other processor has chosen meanwhile; the next choice takes the minimum back, and who was chosen meanwhile is more than a stride ahead of it |
| `RunnableRuns` by overflow | StrideSched, BusyFairSpec, NPROC 4, NCPU 1, STRIDE 12, INIT_TICKET_VAL 2, Tickets 2 3 6, ULong 16, MaxPass 30, no Preempts, Interrupts, Kills | same file, 304: unsigned long has 32 bits here; who has just wrapped is chosen until it has caught up |
| `SizesAreChecked` | as `stack` | `p3/xv6/xv6/kernel/syscall.c:73`: argptr adds its size, an int, to an address and does not look at its sign; a negative one makes the sum small, and the block passes. read, write and the others hand their count on as it is |
| `StringsAreMapped` | as `stack` | same file, 45: fetchstr tests the start of a string only and looks for its end up to USERTOP; a string at the end of the heap that has none leads it into the pages that are kept free |
| `SpecialSizeComesCleared` | as `mem` | `p3/mem/mem.c:493`: initToZero takes every block outside the slabs to start at its header, and skips 16 bytes |
| `NoSlabTwice` | as `mem`, with EarlyCallers | `p3/mem/mem.c:78`: initializedOnce is set first, Mem_Alloc may pop while Mem_Init pushes |
| `LockGivenBack` | as `space` | `kernel/proc.c:116`: the error returns of growproc keep `ptable.lock` |
| `SbrkReturnsItsOwn` | as `space` | `kernel/sysproc.c:52`: the old size is read before the lock is taken, so two threads can be given the same memory |

Some limits are part of the properties themselves:

* `NoStarvation` and `KeepsFlowing` end with the first kill: nobody takes the turn
  of a killed thread (`user/locklib.c:20`), and a signal may be spent on the pid of one
  (`user/cvarlib.c:42`).
* `NoLaggard` leaves out those who were killed in their sleep, which kill wakes without a
  new pass value (`p2/stride/xv6/kernel/proc.c:434`), and children that could run before
  fork had given them one (165), until they have been chosen; `TimeNeverTurnsBack` the steps in which
  that happens. What they do is confined to them: `NoLaggard` and `NoRunaway` hold of
  everybody else.
* `SleepersHaveCause` lets readers of a pipe that is not empty sleep on once a process
  has been killed: a killed writer that finds the pipe full returns without a wake-up
  (`kernel/pipe.c:84`). And a kill that falls between the test of `killed` and the sleep
  leaves the process asleep until the other side moves.
* `IoEnds` ends with the panic of bget: two processes that hold every buffer and want
  another (`kernel/bio.c`, "bget: no buffers"). The code has ten.
* `NothingLeaks` leaves out the directory that was removed between nameiparent and
  ilock (`kernel/sysfile.c:222`): create and link still put an entry into it, which is
  lost with it. The history variable `stray` marks that. It leaves out crashes as
  well: what a crash leaks, fsck has to find.
* `LayoutSound` has one panic: exec does not compare the end of a program with the
  page it puts the stack on, and mappages panics with "remap" (`p3/xv6/xv6/kernel/exec.c`).
  `GuardPage` leaves out programs that fill the page below.
* In p3, sbrk down to exactly zero frees the pages and returns an error
  (`SbrkDown`), after which the process has no code to return to; the growth of the stack
  excludes the first byte of the page below it (`trap.c:79`, an access there ends the
  process).

## 8. What is not modelled

* **Thread library** (`user/threadlib.c`): the initialiser of its table of stacks marks
  only entry 0 free (line 17), so that the stack of every further thread that is alive
  at the same time is never given back, and threads scan and claim entries without a lock
  (line 32): it keeps no promise that two threads could rely on. What it builds on, clone and join, is in
  `ProcTable` and `SharedSpace`. **malloc of xv6** (`user/umalloc.c`) is the allocator of
  the original system; `MemAlloc` has the one written here.
* **File system checker** (`p5/fsck.c`): one sequential pass over an image file, whose
  repair names the inode numbers of one given image, so that there is no general
  promise to check it against.
* **Shell of p2** (`p2/shell/mysh.c`): parsing, and calls of Linux. The processes and
  descriptors of a pipeline are in `ShellPipe`, for xv6's shell.
* **Spinlocks, physical pages, page tables, traps, devices, boot**: hardware
  programming, taken over. Their effect is in the modules: a region under a spinlock is
  one step, kalloc a counter of free pages, a page table a set of pages, trap() the exit
  of a killed process.
* **exec of p4**: only its effect on page tables (`ProcTable!Exec`).
* **p1**, **disk images and the lfs reader**, **user programs and tests**: no state of
  their own that lasts. The tests tell which calls are typical and what is expected.

The repository holds four copies of xv6. Where they agree, the p4 copy is modelled.

Left out within the modelled parts:

* process table: descriptors closed by exit (in `Pipe`), memory exhaustion inside
  clone after allocproc, sleep and wakeup on other channels (ticks), `n_schedule` and
  getpinfo; stride scheduler: a store of fork between the two reads of the same pass value
  in one scan of the scheduler; shared address space: TLB invalidation on other processors after
  growproc; allocators: negative sizes, and callers that write beyond a block;
  condition variables: signals sent without the lock (no caller does).
* stack and heap: contents of pages, pages of the kernel and of page tables, failures
  of mappages, the first process before its exec, and the arguments of init, which the
  code lets use the first page. A word is taken to be as long as half a page.
* pipes: files that are inodes are only counted; the wrap of nread and nwrite is in the
  arithmetic and in the proofs, but beyond the bytes of the run.
* disk: read errors, the second disk, spurious interrupts, the polling of idewait.
* inodes: a file has one block at most, and bytes are left out; the cache has a slot
  for every inode, so running out of slots (NINODE) does not occur; `.` is not
  stored; one open file for each process; chdir, mknod, fstat and read are left
  out. A process that finds no inode, block or entry left stops there, as the
  code panics.
