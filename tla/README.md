# low-level-lab in TLA+

This directory models the parts of the repository whose logic is worth checking: the
operating-system simulators of `ostep/homework`, its concurrent C programs, the author's own
lock-based counters and one of the kernel modules. The modules are checked with TLC on small
instances; what matters most is proved with TLAPS for every instance. `PROJECT.json` holds
the machine-readable index: components, runs, the map from definitions to source lines,
findings, hazards and theorems.

## 1. Inventory

The repository collects independent programs; components interact inside a
program, hardly between programs.

| Component | State | Operations | What is hard | Correct when |
|---|---|---|---|---|
| AFS simulator (`dist-afs/afs.py`) | server contents, callback lists, per-client cache with dirty, valid and reference count, descriptors | open, read, write, close, callback, main loop | interleaved clients; a callback hits a copy that is open or dirty | no valid clean copy is stale; sessions see whole files; counts are exact |
| SSD simulator (`file-ssd/ssd.py`) | page states and data, two maps, log cursor, blocks in use, collector position | read, write, trim, garbage collection | the collector copies through the same log it cleans; a full device; stale reverse map | the host reads what it wrote; flash is erased before it is programmed |
| Producer/consumer (`threads-cv`) | circular buffer, mutex, two condition variables, threads, main | fill, get, wait, signal, join | lost or stolen signals, spurious wakeups, end markers in the queue | FIFO, exactly once, terminates |
| x86 simulator (`threads-locks/x86.py`) and its lock programs | registers, condition codes, memory, thread list, interrupt counter | load, execute, interrupt, yield, halt, switch | an interrupt between any two instructions | contexts never leak; locks exclude; no increment is lost |
| MLFQ simulator (`cpu-sched-mlfq/mlfq.py`) | queues, per-job slices, allotments and priorities, events | boost, event, tick, I/O, demotion | boost, event and demotion on one tick | jobs are in one place; allotments hold; work-conserving |
| Counters (`ostep/ch29-lock-based-data-structures`) | plain, mutex-protected and per-CPU counts | increment, get, join | load/store race; a second mutex taken inside the first | locked counters exact; the global count lags by a bounded amount |
| vsfs and fsck (`file-implementation`, `file-journaling`) | inodes, data blocks, bitmaps, directories, names | create, mkdir, link, unlink, write; one corruption | exhaustion halfway through a create or mkdir | bitmaps, links, blocks and names describe one tree; a corruption shows |
| LFS (`file-lfs/lfs.py`) | log, inode map and checkpoint, in memory and on disk | create, mkdir, write, delete, link, checkpoint | what is on disk and what is in memory drift apart | counts count names; the checkpoint leads to the latest versions |
| FFS (`file-ffs/ffs.py`) | cylinder groups, bitmaps, names | file, directory, delete, read, dump, verify | arithmetic of group and index; spreading policies | the verifier's sums hold, no block is shared |
| RAID (`file-raid`) | block mappings; four heads, one queue, request phases | read, write; per-disk turns | parity read-modify-write by disks that work at once | right blocks, known parity, last write stays |
| Disk (`file-disks`) | head, rotation, queue, window, late requests | schedule, seek, rotate, transfer, keys | window, late requests and estimates together | every request once, in the estimated time |
| malloc (`vm-freespace`) | free list, size map | malloc, free | coalescing of an unsorted list; repeated frees | free and used space tile the heap |
| Multiprocessor scheduler (`cpu-sched-multi`) | queues, caches, affinity | tick, steal | stealing against affinity | no job lost or doubled; ends |
| Process states (`cpu-intro`, `file-devices`) | process states, I/O completions | tick | several completions on a tick, four policy pairs | states agree with one CPU; ends |
| Schedulers (`cpu-sched`, `cpu-sched-lottery`) | run queue, tickets | slice, draw | bounds of the number of draws | the statistics are those of a reference |
| Page replacement (`vm-beyondphys-policy`) | cache, counts, clock bits | access | seven policies over one list | counts right, OPT best, UNOPT worst |
| Translation (`vm-mechanism`, `vm-segmentation`, `vm-paging`, `vm-smalltables`) | registers or tables | set-up, translate | overlaps; tables beside data in one memory | every valid address has a place of its own |
| Checksums (`file-integrity`) | running sums | next byte | modulo 255 and 256 | a changed byte shows |
| fork trees (`cpu-api/fork.py`) | parents, children, process list | fork, exit | re-parenting, names used again | the records are one tree |
| Vectors (`threads-bugs`) | locks, vectors | `vector_add` in five versions | deadlock, live-lock, lost additions | per version |
| Identity queue (`eudyptula/18-identity-queue`) | list, mutex, wait queue, module state | write, thread, load, unload | writers race with each other and with the thread | no lost wake-up, nothing lost or freed twice |
| Thread API, semaphores, other kernel modules, coreutils clones | little or none | | | not modelled |
| nand2tetris, Y86-64 | symbol tables | assemble, translate | text | not modelled |
| STM32, Arduino, boot loaders, assembly exercises, TLPI, eBPF | registers, system calls | set-up, I/O | hardware | not modelled |

`PROJECT.json` gives the status of every part and, for those left out, the reason.

## 2. Modules

| Module | Models | Extends or instantiates |
|---|---|---|
| `WholeFileSessions` | abstract: an open takes a snapshot, a close of a written file publishes it | |
| `AFS` | `afs.py` | refines `WholeFileSessions` |
| `AFSProofs` | theorems about `AFS` | `AFS` |
| `LogicalDisk` | abstract: a disk of logical pages that may fail | |
| `SSD` | `ssd.py` | refines `LogicalDisk` |
| `SSDProofs` | theorems about `SSD` | `SSD` |
| `BoundedQueue` | abstract: a bounded FIFO queue with takers | |
| `ProducerConsumer` | `main-two-cvs-while.c`, `main-common.c` | refines `BoundedQueue` |
| `ProducerConsumerProofs` | theorems about `ProducerConsumer` | `ProducerConsumer` |
| `X86ISA` | loader and instruction set of `x86.py` | |
| `X86Programs` | the `.s` lock programs as data | `X86ISA` |
| `X86Threads` | abstract: a machine with a register file per thread | |
| `X86` | CPU, contexts, scheduler, interrupts | `X86Programs`, refines `X86Threads` |
| `X86Proofs` | theorems about `X86` | `X86` |
| `WorkConserving` | abstract: any work-conserving schedule of jobs with I/O | |
| `MLFQ` | `mlfq.py` | refines `WorkConserving` |
| `MLFQProofs` | theorems about `MLFQ` | `MLFQ` |
| `X86Intro` | `threads-intro/x86.py`: its instruction set, its machine and the bounds of its races | `X86Programs` |
| `Counters` | `approx_counter.c`, `atomic_counter.c`, `nonatomic_counter.c`, `main.c` | |
| `Vectors` | the `vector-*.c` programs | |
| `IdentityQueue` | `identity_queue.c` | |
| `ThreadsProofs` | theorems about these three | `Counters`, `Vectors`, `IdentityQueue` |
| `VSFS`, `Fsck` | `vsfs.py`, `fsck.py` | `Fsck` instantiates `VSFS` |
| `VSFSProofs` | theorem about `VSFS` | `VSFS` |
| `Malloc` | `malloc.py` | |
| `MallocProofs` | theorem about `Malloc` | `Malloc` |
| `LFS`, `FFS` | `lfs.py`, `ffs.py` | |
| `Disk`, `DiskPrecise` | `disk.py`, `disk-precise.py` | `DiskPrecise` instantiates `Disk` |
| `Raid`, `RaidGraphics` | `raid.py`, `raid-graphics.py` | |
| `ProcessRun`, `ProcessRunIntro` | both copies of `process-run.py` | the second instantiates the first |
| `Multi`, `Scheduler`, `Lottery` | `multi.py`, `scheduler.py`, `lottery.py` | |
| `PagingPolicy` | `paging-policy.py` | |
| `Translation`, `MultiLevel` | `relocation.py`, `segmentation.py`, `paging-linear-translate.py`; `paging-multilevel-translate.py` | |
| `Checksum`, `Fork` | `checksum.py`, `fork.py` | |
| `MCLabs` | the programs of one run, side by side | `Counters`, `Vectors`, `IdentityQueue`, `VSFS`, `Malloc`; instantiates the modules of the other programs |
| `MCX86`, `MCMLFQ` | values of constants for TLC | the module of that name; `MCX86` also `X86Intro` |

A definition whose name ends in `Faulty` stands before the definition it is a
plausible mistake in (a dropped guard, an off-by-one, a missing reset). No
specification uses it; replacing the definition by it must make a property fail.

### AFS

`contents` and `callbacks` are the server's `contents` and `cache`; `cache` holds the
clients' dictionaries, with `NotCached` for an absent key; `sess` says which file each
descriptor of a client's trace has open. A trace is any sequence of operations that opens a
descriptor once, uses it and closes it, at most `MaxActs` long; the random generator and the
`-A` option produce such traces. `server.put` runs the other clients' callbacks before it
returns, so a micro-operation (`Open`, `Read`, `Write`, `Close`) is one step, and the main
loop interleaves the clients' micro-operations. `Abort` is the assertion of `cache.get`.
The variable `overlap`, chosen at the start, says whether a client may open a file it already
has open. Traces that overlap are mapped to sessions in which nothing happens, so that the
refinement speaks of the others. `Finish` is the step that finds the trace used up.

### SSD

One command and the watermark test after it are one step; the collector has one step
per block it visits and one per page it copies, and no command runs meanwhile, as in
the code. `Cursor` is the set of pages `get_cursor` may hand out (one or none):
`NextFreeBlock` is the first block from `current_block` on, wrapping around, whose
first page is not valid. `Program` is the erase of a block that was never erased,
`physical_program`, both map updates and `update_cursor`. `GCDrop` is the copy that the
full device refuses and whose answer `garbage_collect` ignores; `dropped` records it.
`HostView` is what `read` answers for each logical page.

### ProducerConsumer

A step is what a thread does between two of the code's pause points. The mutex and
the condition variables are external and modelled by how pthreads defines them: a wait
releases and sleeps atomically, a signal wakes some sleeper of that variable, a woken
thread takes the mutex again, and a sleeper may wake without a signal. `main` joins the
producers and then acts as a producer of end markers. `ensure` is a step to the status
`"error"`. The incorrect programs of the directory are the mistakes `LockFaulty` (the
`if` instead of the `while`) and `SleepersFaulty` (one condition variable).

### X86

`Load` is the two-pass loader: labels and variables get addresses and the operands of
a program's text become records. `Exec` gives the effect of one instruction. `X86` has
the CPU's context, the saved contexts, the thread list and the interrupt counter;
`ExecuteAndSwitch` and `Halt` contain the whole save, `next` and `restore`. Interrupts
are random (`Reload` chooses any count up to `IntFreq`) or the schedule is given by
hand. `flag-withcallret.s` is not among the programs: its line 38 stores through
`%cx` although the address was put into `%ax`, and `flag.s` is known not to exclude.

### MLFQ

One turn of the main loop is the sequence `Boost`/`NoBoost`, `HandleEvent` for every
event due, then `Idle` or `Pick` followed by `Finish`, `StartIO` or `Tick`. When a boost is
due, `Sweep` first moves the jobs of the lower queues to the highest, one a step and the
lowest queue first (a job that does I/O is left out, as in the code); `Boost` is the loop
over all jobs after it. Options and job list are chosen in `Init`. `Pick` contains the two calls of `Abort`. `used` is a
history variable: the ticks a job ran since it came to its level.

### Counters

`main` runs the three programs one after the other. `count += 1` without a mutex is a
load and a store. Thread i has core id i, so that the per-CPU mutexes are uncontended.

### X86Intro

The copy of the simulator in `threads-intro` is older: no manual schedule, fewer
registers, an operand parser that sees one register of two. `RaceBounds` says what the
final value of the shared word can be for each program of the chapter.

### VSFS, Fsck

The state is one record: inodes, data blocks, the two bitmaps and the three name lists the
generator keeps. One step is one operation of the generator, failures included (no inode, no
block, a full directory, an existing name); a failed operation must leave the image as
consistent as it was. `Fsck` takes the operations the programs share from `VSFS`, has
allocators that choose at random, and does one of the twelve corruptions.

### LFS

Blocks are appended to `disk`; block 0 is the checkpoint. An operation is the code's
sequence of reads through memory or through the on-disk checkpoint (`use_disk_cr`), appends
and map updates, in one step as nothing interrupts it; with `no_force` the checkpoint is
written only on request. After a link the version on disk keeps the old reference count (the
chunk of the linked file is not written), which `CheckpointCurrent` leaves out.

### FFS

A command of the input file and the verification after it are one step; the phases
`"verify"` and `"no inode"` are its assertions. Group numbers and indices are computed as in
the code, so that `do_delete` divides by the wrong constant (see the finding);
`BooksBalance` therefore speaks of square geometries.

### Disk, DiskPrecise

Positions are whole numbers of degrees and of track units. A step is what the code does at
one turn of its loop, or one key or timer callback with `-G`. `DiskSound`: every request,
late ones included, is served once; no rotation goes on without end; SATF's choice takes the
time it was estimated to take; a window of BSATF is finished before the next begins.
`DiskPrecise` differs in two places, given by the constant `Precise`.

### Raid, RaidGraphics

`Raid` computes the physical operations of a request under the four levels. `RaidSound`:
they touch exactly the blocks of the request, the parity written is known from what was
read, and none runs off a disk. In `RaidGraphics` four heads take their parts of requests
from one queue at once; `content` and `got` are history variables that say which write a
block holds.

### ProcessRun, ProcessRunIntro

One step is one clock tick with all the switches it causes. `deadline` bounds the simulation: the
sum of all computing and I/O time. The intro copy adds the instruction that handles a
completion.

### Multi, Scheduler, Lottery

A step of `Multi` is one tick: caches warm or cool, finished and expired jobs leave, idle
CPUs fetch or steal. `multi.py:356` looks for the CPU's number among all fields of the job
instead of in its affinity, so that a job can be moved to a queue it may not run from;
`StolenByNumber` says that this is the only way to trap a job. `CachesFit` ties a cache to the
history field `entered`, the job that got warm last: it is the first in the list, and what is in
the list fits, but a job whose working set is larger than the cache leaves it empty (section 4).
`Scheduler` compares the
program's statistics with a reference; `Lottery` lets any ticket win.

### Malloc

An operation is `malloc` with any policy or `free` of any pointer ever returned, one that was
freed before included. The base address is the default of `-b`. A stable sort is written by
where each element goes (`Position`), and the loop that coalesces by the runs of entries that
touch: a joined entry ends where its last part ends, so that an entry starts a new run exactly
when it does not begin where the entry before it ends. `HeapTiled`: free and used regions
partition the heap, an address-ordered list that coalesces has no two entries that could be
one, and the program stops on its own assertion or lookup only after an allocation of no bytes
or a failed one.

### PagingPolicy, Translation, MultiLevel, Checksum, Fork

`PagingPolicy` compares OPT and UNOPT with every choice of victims. `Translation` and `MultiLevel`
choose random registers, tables and free pages in every way; the valid addresses must have
distinct physical places, and tables must survive what is put beside them. `Checksum` compares
the sums of the data with those of all data that differ in a byte or in the order of two.
`Fork` checks that parents, children and the process list are one tree after any forks and exits.

### Vectors

A step is one lock, try-lock, unlock or one load-add-store of an element. The deadlocking
version may stop only with threads in opposite order (`DeadlockOnlyByOrder`; `Stuck` states
take the step that the programs, which hang, would not). Two history variables say what whole
additions, each made at once when its locks are all held, would have left in the vectors and
how many of them a worker has made: in the locking versions a vector that nobody has locked
holds just that, and every worker makes all of its additions. `vector-try-wait` can go round
for ever, so that no liveness is stated.

### IdentityQueue

Writers take the steps of `identity_create` one by one, the thread those of
`wait_event_interruptible` and `identity_get`. The wait queue and the mutex are external.
Unloading needs every writer to be out, as an open file holds the module.

## 3. Runs

Each run is `tlc -config <cfg> <module>`; states are the distinct states found.

| Run | Checks | Bounds and why they are enough | States |
|---|---|---|---|
| `afs` | `TypeOK`, `ExitsWhenAllDone`, `CallbackPromise`, `ValidIsCurrent`; without overlapping opens `RefcntExact`, `ImplementsSessions` | 2 clients, 1 file, 2 descriptors, 6 operations each, with and without overlapping opens: both clients can fetch, write, close, be called back while open and open again; `Abort` needs all 6 | 1 399 524 |
| `afs_refcnt` | `RefcntCountsOpens` is violated | the same with 5 operations and overlapping opens | |
| `ssd` | `TypeOK`, `LossOnlyByDrop`, `ProgramsErasedPages`, `ImplementsDisk` | all three layers, 2 blocks of 2 pages, 4 logical pages, 2 data values: no spare block, so that collections fail and drop; wrap-around after every fourth write | 873 683 |
| `ssd_gc` | `MappedPagesHoldData`, `NeverFull` | log only, 3 blocks of 2, 4 logical pages: exactly one spare block, the least with which the collector can keep up | 404 065 |
| `ssd_loss` | `MappedPagesHoldData` is violated | log only, 3 blocks of 2, as many logical as physical pages | |
| `producer_consumer` | `TypeOK`, `NoEnsureFailure`, `AllDelivered`, `ImplementsQueue`, `Terminates` | 2 producers, 3 consumers and main, 2 slots, 2 values each, one spurious wakeup: more sleepers of either kind than signals | 490 789 |
| `labs` | 14 invariants, see below | see below | 1 759 691 |
| `x86_locks` | `MutualExclusion`, `CountExact`, `RacesBounded`, `ImplementsThreads`, `Terminates` | 6 lock programs and the 4 of the introduction, 2 threads, 2 rounds, an interrupt after any 1 to 4 instructions, and a manual schedule | 117 913 |
| `x86_callret` | `HolderSetsMutex` is violated | one program | |
| `mlfq` | `EachJobInOnePlace`, `NoGaming`, `ImplementsSchedule`, `Terminates` | 3 jobs, 3 queues, every combination of two start times, run times, I/O frequencies, boost periods, I/O times and both flags; a boost falls on arrivals, completions and demotions | 323 027 |
| `mlfq_boost` | `AllotmentBounds` is violated | 1 job, boost every 3 ticks | |
| `ffs_delete` | `VerifyNeverFails` is violated | `MCLabs` over its non-square geometry as well: 2 groups of 3 blocks and 2 inodes | |

The run `labs` holds the programs that share nothing with any other. Each behaviour is one
of one program, chosen by `lab`; an invariant speaks of the states of its program and
includes that module's type invariant.

| Invariant | Program and what it says | Bounds |
|---|---|---|
| `CountersExact` | counters: locked ones are exact, the global count lags by at most a threshold per CPU, the racing one loses no more than it can | 3 threads, 3 rounds, threshold 2: a remainder stays per CPU |
| `ImageConsistent` | vsfs: after every request, failed ones included, one tree | 5 inodes, 1 or 5 blocks, 6 requests: blocks, then inodes, run out |
| `CorruptionShows` | fsck: every corruption but a renaming can be seen. checksum: a changed byte shows in all sums, an exchange in Fletcher's only (modulo 255) | 4 inodes and blocks, 4 requests; 4 bytes of 6 values around the moduli |
| `LogConsistent` | LFS: counts count the entries, the checkpoint leads to the latest versions | 4 commands, 4 inodes in 2 chunks, directories of 2 slots: chunks, inodes, pointers and slots run out |
| `BooksBalance` | FFS: the verifier passes and no block or inode is shared | 2 x 2 and 3 x 3 groups, every policy, 5 commands, files larger than a group |
| `SchedulesSoundly` | process-run: states agree with one CPU, it is used, the simulation ends. scheduler: times and optimality. lottery: enough draws | 2 or 3 of 7 programs, I/O of 0 to 4 ticks, all policies; up to 3 (4) jobs |
| `JobsPlaced` | multi: no job lost or doubled, an end unless one is stolen by number, affinities kept when running, caches not overfull and headed by the job that got warm last, empty after one too large | 3 or 4 jobs, 1 to 3 CPUs, five machines |
| `HeapTiled` | malloc: the heap is tiled, touching entries are joined; the program stops only after an allocation of size 0 or a failed one | 6 units, 6 operations, 3 policies, 5 orders, headers and alignment |
| `AddsSafely` | vectors: deadlock by opposite order only; additions under locks are atomic and complete | 3 threads, vectors of 2, five versions, both flags |
| `QueueSound` | identity queue: no lost wake-up, no bad delete, nothing lost, ids unique unless writers overlap | 2 writers, 2 writes each, one load and unload |
| `DiskSound` | both disks, as above | 3 tracks of different density, 11 drives, up to 4 requests and 4 late ones, one served twice |
| `RaidSound` | raid, raid-graphics, as above | 11 arrays, addresses at both ends of the disks; all triples of reads and writes in two stripes, windows 1, 2 and unlimited |
| `TreeSound` | fork: one tree | 5 names, 6 actions, both re-parenting rules |
| `AddressesRight` | paging-policy: counts, recency, best and worst. translators: distinct places | all lists of 7 references to 4 pages, caches of 0 to 3; small memories, all random choices |

What the abstract specifications say. `WholeFileSessions`: what a client reads is the
snapshot of its open plus its own writes, and a close publishes the whole file.
`LogicalDisk`: until the device fails a page holds what was written last. `BoundedQueue`:
values leave in the order they came in and never exceed the capacity. `X86Threads`: no
register, condition code or program counter is shared. `WorkConserving`: the processor
idles only when nobody is ready, jobs get exactly their time, and an I/O takes exactly
its time.

**Fairness.** `ProducerConsumer` assumes weak fairness of every thread's own steps and
of main's joins: the kernel runs every runnable thread and a free mutex is granted.
Loops are finite, so nothing stronger is needed although pthread mutexes are not fair.
`X86` and `MLFQ` assume only that the simulator, a sequential loop, keeps going
(`WF_vars(Next)`); which thread or job runs is decided by the model of the code. The other
specifications state no fairness.

**Deadlock** is checked in every run; a program that has ended takes the step `Ended`.

## 4. Findings

* `afs_refcnt` (`afs.py:408`). A client that opens a file again, while it still has an
  invalidated copy of it open, replaces the entry by one with reference count 1. The count
  no longer "tracks how many times the file has been opened (but not yet closed)"
  (`dist-afs/README.md:241`). Whole-file sessions are therefore checked for traces without
  overlapping opens; cache coherence holds, and is proved, with them.
* `ssd_loss` (`ssd.py:268`). The collector ignores that a copy was refused and erases the
  block: the mapped page is lost. This needs a device without spare space, as in the
  README's own example (`file-ssd/README.md:409`). With one spare block
  nothing is lost, which `NothingLost` proves (section 5).
* `x86_callret` (`looping-race-withlock-withcallret.s:29`). The lock routine reads its
  argument from `-4(%sp)` instead of `4(%sp)`: it takes the word at address 0 and never
  `mutex`. It still excludes, since all threads use the same wrong word.
* `mlfq_boost` (`mlfq.py:249`). A boost leaves `allotLeft` as counted for the level the job
  came from, so that the job may stay at the highest level beyond its allotment, or, from a
  lowest queue with allotment 0, for ever. Without boosts `NoGaming` holds.
* `ffs_delete` (`ffs.py:290`). Block and inode numbers are made with `blocks_per_group` and
  `inodes_per_group` and taken apart by `do_delete` with `num_groups`. Unless the three are
  equal a delete frees bits of other files or none, and the assertion at `ffs.py:435` or the
  sums at `ffs.py:426` stop the program.

What else the modelling met. No run is about these, because no document says otherwise (but for
the first of `multi.py` below, where a comment does); the invariants state them as exceptions
where they matter.

* `identity_queue.c:108`: writers that overlap can get one id; a signal while a writer waits
  for the mutex leaks the identity it has just made.
* `multi.py:87`: here a comment does say otherwise. `cache_contents` is never empty, and one job
  may be in it "whose working set may indeed be too big" (`multi.py:56-58`); `adjust_size` drives
  out everybody and then that job, so that it is never warm, the others have to warm up again
  each time its warm-up ends, and the list is empty. `CachesFit`, in `JobsPlaced`, states what the
  code does, and the run reaches it (a working set of 5, caches of 4). With the example of
  `cpu-sched-multi/README.md` (`-M 100 -L 1:100:50,2:100:150`) job 2 runs cold to its end.
* `multi.py:356`: a job stolen by number can sit in a queue no CPU of its affinity reads.
* `lfs.py`: a link leaves the old reference count on disk.
* `malloc.py`: allocations of size 0 can collide with others.
* `file-devices/process-run.py:254`: an I/O of length 0 never completes; the `cpu-intro`
  copy completes it.
* `disk.py`: `-a 5 -z 40,72,120 -S 20 -R 4` takes a turn more than estimated, and the
  numbers of `-l 1,2` stay text, which ends in a `KeyError`. `disk-precise.py`: `-p BSATF -w
  2 -a 5 -L 4,10,0` fails the assertion at line 514 because the window is cut to the queue
  (:555); `-a 5,12 -c` ends in a `TypeError` (:492).
* `raid-graphics.py`: with a full stripe in flight the parity disk of RAID-4 can take a
  request that has only data for it (:677); reads and unaligned triples are taken for full
  stripes, and the counts that end the simulation are then wrong; several writes of one
  stripe in flight can lose a parity update.
* `segmentation.py`: given registers may overlap when segment 1 does not begin above segment
  0, and may lie past the end of memory. `relocation.py`: a limit as large as memory with a
  random base is searched for without end.
* `lottery.py`: a job without work uses up a draw, so that others stay unfinished; without
  tickets the draw divides by zero. `paging-policy.py`: a cache of size 0 ends in an
  `IndexError`.

## 5. Theorems

All proofs are checked to the last leaf; the assumptions are the named `ASSUME`s of
the components, which say that sizes are naturals (positive where the code needs it)
and that special values are distinct from ordinary ones. Where a theorem needs more, the
hypothesis is part of its statement and is named below.

**AFSProofs.** For any numbers of clients, files and descriptors and any traces:

* `TypeCorrect`; `CacheCoherence` (`CallbackPromise`, `ValidIsCurrent`): a cached file is on
  its client's callback list and a valid clean copy equals the server's contents. Neither
  half is inductive alone: a close makes other copies stale and reaches them only because
  their holders are on the lists; the lists stay right because `server.put` does not remove a
  client from them. `HoldersKnown` is the first half;
* `LoopEndsRight` (`ExitsWhenAllDone`), from `LoopCounts`: until the main loop ends,
  `numrunning` is the number of clients that are not done;
* `ReferenceCounts` (`RefcntExact`): without overlapping opens the reference count is the
  number of open descriptors and the assertion of `cache.get` holds. The invariant is `Apart`:
  a client has a file open by one descriptor (`OneOpen`), an open file is cached with count 1
  and a cached file nobody has open has count 0 and is clean (`CountedOnce`). Cleanness is
  what lets an open fetch over an invalidated copy without losing a write;
* `SessionSemantics` (`ImplementsSessions`): `AFS` refines `WholeFileSessions`. The private
  copy of a session is the cached data, `Apart` says that it is there, and coherence says that
  an open that finds a valid copy takes what the server holds.

**SSDProofs.** For every geometry and every watermark: `TypeCorrect`; `DataSafety`
(`LossOnlyByDrop`); `FlashDiscipline` (`ProgramsErasedPages`); and `Refinement`, that the
three layers implement `LogicalDisk`. The inductive invariant adds to `TypeOK` and
`LossOnlyByDrop`:

* `LogShape`: blocks fill from their first page and only the current block is partly
  filled. `get_cursor` looks at the first page of a block only; this is why that is enough;
* `NeverProgrammed`: a page that was never erased has no reverse mapping, so a collection
  finds nothing live in such a block;
* `InPlace`: the direct and ideal layers map a page to itself and never collect;
* `Collecting`: during a collection the victim is not the block being written, and unless
  a copy was dropped every mapped page still in it is yet to be copied. Hence the erase at
  the end wipes nothing that is mapped.

For the refinement, programming a page changes the host's view of its logical page only
(`ProgramView`), a copy of the collector writes what was there, and the erase touches no
mapped page. Once a copy was dropped the disk has failed and may read anything.

`KeepsUp` (`NeverFull`) and `NothingLost` (`MappedPagesHoldData`) hold under `SpareBlock`: the
high watermark is at most the number of blocks, and the logical pages fit into all blocks but
one. `SpareInv`: between commands a block's worth of pages can be programmed, at most one of
them is missing when a collection starts, and a collection has room for what it still has to
copy. The step that needs `SpareBlock` is a collector that goes round once and finds nothing
to clean (`NothingYet`). A block it passed over is full
of live pages; were all blocks but the current one so, with one more live page in the current
block, then more logical pages would be mapped than `SpareBlock` admits, since the reverse map
sends live pages to distinct logical pages. The program's own defaults (`-l 50 -B 7 -p 10 -G
10`) leave space for the pages but set the watermark above the 7 blocks: the collector never
starts and the theorems say nothing of them; `-G 7` or less is needed.

**ProducerConsumerProofs.** For any number of threads, slots and values:

* `TypeCorrect` and `BufferSafety` (`NoEnsureFailure`). The invariant adds `Excluded` (between
  lock and unlock a thread holds the mutex), `RoomToWork` (what the loop tested still holds
  when it works, because the test and the work are under one lock), `Ring` (the used slots are
  the `num_full` ones from `use_ptr` on) and `ProducersBounded`;
* `QueueRefinement` (`ImplementsQueue`): the slots read from `use_ptr` on are the queue; a fill
  appends to it and a get takes its head, across the wrap of either index;
* `Delivery` (`AllDelivered`), if there is a consumer: at exit every value was consumed once
  and the buffer is empty. Without consumers the program exits with values in the buffer, so
  the hypothesis is needed. `DeliveryInv`: a value that was filled in is either delivered or in
  exactly one slot (`ItemsOnce`); end markers stand behind all values (`MarkersLast`), so that
  whoever took one saw no value left (`StreamEnds`); markers made are markers in the buffer
  plus consumers that took one (`MarkersCounted`); `Phases` orders main, producers and markers.

**MLFQProofs.** For any job list, number of queues, quanta, allotments, options and boost
period: `TypeCorrect`; `NeverAborts`, that neither call of `Abort` is reached; `JobsKept`
(`EachJobInOnePlace`); `AllotmentsHold` (`NoGaming`); and `WorkConserved`, that `MLFQ` refines
`WorkConserving`. `PlaceInv` is `TypeOK` with

* `Placement`: no job is at two positions of the queues or in two events, none in a queue and
  in an event, and an unfinished job is in one of them;
* `AtHome`: a queued job is in the queue of its priority, but for the highest queue while a
  boost sweeps;
* `FinishedCounted`, on which the end of the loop rests; `SlicePositive`; and `Chosen`, that the
  loop runs a job only when a queue holds one.

`Accounted` is what `AllotmentsHold` adds: without boosts and `-S`, the ticks a job used at its
level are the slices it has given up and what it used of this one. In the refinement a job waits
until the time of its one event.

**X86Proofs.** For any number of threads, any schedule that names all of them, any interrupt
frequency and any of the programs: `OnlyLiveThreadsRun`, that the CPU never runs a halted
thread, and `ContextsKept` (`ImplementsThreads`), that `X86` refines `X86Threads`. `SchedInv`
says that the schedule names every thread, so that `next` finds a live one, and that the
thread whose turn it is lives; the context of the running thread is the CPU's, that of the
others the saved one. What an instruction does is not expanded: the proof is the same for
every program.

**ThreadsProofs.** Three programs with threads that share memory.

`CountersCorrect` (`CountersExact`) for any number of threads and rounds and any
threshold. `CountersInv`: one thread is between lock and unlock and what it loaded is
still the count (`Exclusive`, `LoadedCurrent`); the atomic count is the sum of the increments
made, the global count plus what the CPUs hold back is that sum (`AtomicSum`, `ApproxSum`),
where the units added to the global count and not yet reset count once; a racing store leaves
at least 1, the second store of a thread at least 2 (`NonatomicRaces`). A sum over threads is
the cardinality of a set of pairs (`Total`), which needs no induction.

`AdditionsSafe` (`AddsSafely`) for any number of threads, rounds and elements and both flags.
`VectorsInv` is the type with: a thread's place in `vector_add` stays inside the program and
the vector (`Inside`); a lock is held by the one thread whose place says so, and the global
lock by the thread between its take and its release (`Ownership`); what a thread in the loop
has still to add is all that separates its destination from the whole additions (`Atomic`).
For the deadlock (`NoDeadlock`): were everyone waiting, whoever waits for its second lock
would find it held by another worker that waits for its own second one. With try-lock nobody
waits there, with the global lock one worker at a time is there, with `-p` the other worker
uses other vectors, and in one order vector 0 is always the first. So nobody waits for a second
lock, no vector is locked, and the holder of the global lock can go on.

`QueueCorrect` (`QueueSound`) for any finite set of writers. `QInv` adds to the types: the list
is not empty when the thread or the unloading looks past the test, because no one else removes
(`OneConsumer`); a sleeper with a nonempty list has a writer on its way to wake it
(`NoLostWakeUp`); while writers do not overlap, the next id is beyond all ids given
(`FreshIds`); and identities made are freed, leaked, listed or in the hands of a writer
(`Accounted`).

**VSFSProofs.** `ImagesConsistent` (`ImageConsistent`) for any numbers of inodes, data blocks
and requests, any names and any size of a directory. `VSFSInv` is `Sound` with the number of
requests made. `Sound` is

* `Typed`; `Allocated`: the bitmaps say which inodes and blocks are in use, and a block in use
  is one inode's;
* `EntriesSound`: only the blocks of directories have entries, which are for inodes in use and
  have distinct names in each directory;
* `Counted`: a reference count is the number of entries that lead to the inode. `Refs` is the
  set of these entries, and every operation adds or removes single entries (three for
  `mkdir`), so that cardinalities change by one at a time and no sum over a list is needed;
* `Remembered`: every path in the generator's lists is an entry, with the inode it remembers,
  of the directory the path without its last name leads to, and that directory is remembered
  too. This local form says what the walk from the root says, and an operation on one
  directory leaves it alone for the paths of the others.

There is one lemma per effect (a name added or removed, a file made or removed, a block written)
and one per operation, its failures included. The exhaustion of blocks halfway through `mkdir`
is the delicate case: the inode is freed again before anything refers to it. There the proof
found the model ambiguous: the two cases of a `CASE` in `createFile` for a directory overlapped
when no block was left. TLC takes the first, which is what the code does, so no run could tell;
the definition now says so itself.

**MallocProofs.** `HeapSafe` (`HeapTiled`) for any heap of at least one byte, any header size,
alignment, search policy and list order, and any requests. `HeapInv` is the type with

* `Space`, until the program stops: no byte is in two free entries, in two allocated regions
  or in one of each, and every byte of the heap is in one of them;
* `NoEmptyRegion`: while no allocation was of no bytes, no entry and no region is empty. This
  is why `addToMap` cannot meet an address in use: the first byte of the region it records
  would be free and owned;
* `InOrder`: the list that is sorted by address and coalesced has a gap between any two
  entries. Joining only neighbours of the list would not give this in another order;
* `Numbered`: pointers are numbered by calls, so that an index below their number without a
  pointer means a failed allocation, which is the one other way to stop (`CollidesAtZero`).

`TakenShrinks` says what `malloc` takes out of the list, `GivenBack` what `free` puts into it.
Sorting is a rearrangement because the positions are ranks in a linear order, and a finite set
has as many ranks as elements (`Ranks`); coalescing keeps the bytes because every entry is in
one run and the bytes of a run are those from its first entry to its last (`RunBytes`). Where
a fact would go by induction over the list the proof takes the least place at which it
fails (`LeastIn`).

**Only model-checked.**

* Liveness: `Terminates` of `ProducerConsumer`, `X86` and `MLFQ`. The prover has no fairness.
* `MutualExclusion`, `CountExact` and `RacesBounded` of the x86 programs: they are about the
  execution of particular programs, which the loader computes with folds over their text.
* `JobsPlaced`, `BooksBalance`, `RaidSound` and `DiskSound`: a tick of `Multi`, the block search of
  `FFS`, the parts of a RAID request and the numbers of blocks on the tracks are folds or sums.
  What a fold computes for every input is an induction with an operator as parameter.
* `SchedulesSoundly` and `AddressesRight`: folds again, and references (the best order of jobs,
  the fewest misses any choice of victims can give) that are recursive themselves. The parts
  about `Translation` and `MultiLevel` have none and could be proved alone.
* `TreeSound`: `collect_children` is recursive, and that it shows every process once is an
  induction over the tree.
* `LogConsistent`: the walk along a path is a recursive function. What it needs of the walk is
  little (a result is a directory in use, none or a crash), so this is the next to prove.
* `CorruptionShows`: that every one of the corruptions shows, from the invariant of `VSFS`, is
  within reach; the other half is about `Checksum`, which uses `Bitwise`, and the prover cannot
  take that.

## 6. Not modelled

Random generators, printing, statistics and timing are left out everywhere but where a
property is about them: any input a generator could produce is allowed instead. Whole parts
left out:

* `cpu-api/generator.py` writes C programs as text and has no state;
* `threads-sema` holds templates with empty bodies; the five `threads-api` programs show a
  race, a deadlock and two ways to wait that `Counters`, `Vectors` and `ProducerConsumer`
  contain; `threads-cv/main-two-cvs-while-extra-unlock.c` differs from the modelled program
  by one misplaced unlock;
* `vm-beyondphys/mem.c`, the coreutils clones, the other eudyptula modules: a loop to be
  timed, pure I/O, short drivers whose list and wait-queue logic is in `IdentityQueue`;
* nand2tetris and Y86-64: translators from text to text, whose correctness is about text;
* firmware, boot loaders, system-call exercises, hardware descriptions and vendored code
  (`stm32-c/vendor`, `nand2tetris/c/unity`, `nand2tetris/tools`): no state machine of their
  own to check.

## 7. Plan

The parts of the system with logic of their own are modelled, and most of those whose steps
are not loops over data are proved about. What is left:

1. `LFS`: well-formed blocks all over the log, reference counts as the cardinality of a set of
   entries as for `VSFS`, and the checkpoint region as a function of the chunks written.
2. `Fsck` on top of the invariant of `VSFS`; `MultiLevel` and `Translation` for every size.
3. `Multi`, `FFS`, `Fork`, after their loops are defined without folds, as those of `Malloc` are:
   a tick as a relation between the places of jobs, the blocks `allocate_blocks` finds as a set
   of stated size, the tree as a parent relation.
