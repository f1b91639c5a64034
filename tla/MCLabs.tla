------------------------------- MODULE MCLabs -------------------------------
(***************************************************************************)
(* One run over programs that have nothing to do with each other: a        *)
(* behaviour is one of one program, chosen by lab.  Five programs have     *)
(* variables of their own, which rest in an initial state while another    *)
(* program runs; the state of every other program is in st, with the kind  *)
(* of corruption fsck did in aux.                                          *)
(***************************************************************************)
EXTENDS Counters, Vectors, IdentityQueue, VSFS, Malloc

VARIABLES lab, st, aux

own == <<vars, vec, mod, fs, heap>>
allVars == <<own, lab, st, aux>>

Nothing == 0

-----------------------------------------------------------------------------
F == INSTANCE Fsck WITH fs <- st, corruption <- aux, InodeCounts <- {4}, DataCounts <- {4},
                        NumRequests <- 4

-----------------------------------------------------------------------------
Mode(use_disk_cr, no_force, policy) ==
    [use_disk_cr |-> use_disk_cr, no_force |-> no_force, random |-> policy]

L == INSTANCE LFS WITH
        lfs <- st,
        Modes <- {Mode(FALSE, FALSE, FALSE), Mode(FALSE, FALSE, TRUE),
                  Mode(FALSE, TRUE, FALSE), Mode(TRUE, TRUE, FALSE)},
        NumChunks <- 2, InodesPerChunk <- 2, NumInodePtrs <- 2, DirSlots <- 2,
        Paths <- {<<n>> : n \in {"a", "b", "c"}} \cup {<<n, m>> : n, m \in {"a", "b"}},
        Writes <- {<<0, 2>>, <<1, 2>>, <<2, 1>>, <<1, 0>>},
        MaxCommands <- 4

-----------------------------------------------------------------------------
(* A geometry and a placement policy. *)
Opt(n, d, i, large, spread_i, spread_d, contig, faraway) ==
    [num_groups |-> n, blocks_per_group |-> d, inodes_per_group |-> i,
     large_file_exception |-> large, spread_inodes |-> spread_i, spread_data_blocks |-> spread_d,
     contig_allocation_policy |-> contig, allocate_faraway |-> faraway]

(* One geometry is not square: there deleting breaks the books, as
   VerifyNeverFails shows, and BooksBalance speaks of the others only. *)
G == INSTANCE FFS WITH
        ffs <- st,
        Options <- {Opt(2, 2, 2, 0, FALSE, FALSE, 1, 2), Opt(3, 3, 3, 1, FALSE, FALSE, 1, 2),
                    Opt(3, 3, 3, 2, TRUE, TRUE, 1, 1), Opt(2, 2, 2, 1, FALSE, FALSE, 2, 1),
                    Opt(2, 3, 2, 0, FALSE, FALSE, 1, 1)},
        Paths <- {<<"a">>, <<"b">>, <<"a", "a">>, <<"a", "b">>}, Sizes <- {0, 1, 3},
        MaxCommands <- 5

-----------------------------------------------------------------------------
Compute(n) == [op |-> "c", n |-> n]
IO == [op |-> "i"]
PollIO == [op |-> "p"]
Programs == {<<Compute(2)>>, <<IO>>, <<Compute(1), IO, Compute(1)>>, <<IO, IO>>, <<PollIO, IO>>,
             <<Compute(3), IO>>, <<IO, Compute(2)>>}

(* Pairs and triples of programs. *)
TheWorkloads == [1 .. 2 -> Programs] \cup [1 .. 3 -> Programs]
TheIoLengths == {0, 1, 2, 4}

P == INSTANCE ProcessRun WITH sched <- st, Workloads <- TheWorkloads, IoLengths <- TheIoLengths
Q == INSTANCE ProcessRunIntro WITH sched <- st, Workloads <- TheWorkloads, IoLengths <- TheIoLengths

-----------------------------------------------------------------------------
J(r, w, a) == [run_time |-> r, working_set_size |-> w, affinity |-> a]
Machine(per_cpu_queues, num_cpus, time_slice, peek_interval, warmup_time, warm_rate, random_order) ==
    [per_cpu_queues |-> per_cpu_queues, num_cpus |-> num_cpus, time_slice |-> time_slice,
     peek_interval |-> peek_interval, warmup_time |-> warmup_time, warm_rate |-> warm_rate,
     cache_size |-> 4, random_order |-> random_order]

U == INSTANCE Multi WITH
        sys <- st,
        JobLists <- [1 .. 3 -> {J(r, w, a) : r \in {1, 4}, w \in {0, 3}, a \in {{}, {0}, {1}}}]
                      \cup {<<J(6, 5, {}), J(5, 2, {0}), J(6, 1, {0, 1}), J(3, 1, {})>>},
        Machines <- {Machine(TRUE, 1, 2, 3, 1, 2, FALSE), Machine(FALSE, 2, 2, 0, 1, 2, FALSE),
                     Machine(FALSE, 2, 2, 0, 0, 2, TRUE), Machine(TRUE, 2, 2, 2, 2, 2, FALSE),
                     Machine(TRUE, 3, 3, 1, 1, 3, TRUE)}

-----------------------------------------------------------------------------
TheSettings ==
    {s \in [size : {6}, headerSize : {0, 1}, align : {-1, 2},
            policy : {"BEST", "WORST", "FIRST"},
            order : {"ADDRSORT", "SIZESORT+", "SIZESORT-", "INSERT-FRONT", "INSERT-BACK"},
            coalesce : BOOLEAN] : (s.headerSize = 0) = (s.align = -1)}

-----------------------------------------------------------------------------
Drive(policy, window, skew, zoning, seekSpeed, rotateSpeed, graphics) ==
    [policy |-> policy, window |-> window, skew |-> skew, zoning |-> zoning,
     seekSpeed |-> seekSpeed, rotateSpeed |-> rotateSpeed, graphics |-> graphics]
Zones == <<40, 72, 120>>

(* At speed 4 the edges of the blocks are multiples of the speed, at 7 not. *)
TheDrives ==
    {Drive(policy, window, 1, Zones, 20, 4, FALSE) :
        policy \in {"FIFO", "SATF", "SSTF", "BSATF"}, window \in {-1, 2}}
      \cup {Drive("FIFO", -1, 0, Zones, 8, 7, FALSE), Drive("SATF", 1, 0, Zones, 20, 4, FALSE),
            Drive("BSATF", 2, 1, <<120, 72, 120>>, 20, 4, TRUE)}

(* -1 is a late block number that stays text. *)
TheIOs ==
    {[requests |-> requests, late |-> late] :
        requests \in {<<5>>, <<8, 0, 8>>, <<9, 10, 5, 4>>}, late \in {<<>>, <<2, 10, 3, 0>>, <<-1>>}}
      \cup {[requests |-> <<>>, late |-> <<1>>]}

D == INSTANCE Disk WITH disk <- st, Options <- TheDrives, Workloads <- TheIOs, MaxKeys <- 2,
                        Precise <- FALSE
E == INSTANCE DiskPrecise WITH disk <- st, Options <- TheDrives, Workloads <- TheIOs, MaxKeys <- 2

-----------------------------------------------------------------------------
Array(level, numDisks, chunkSize, raid5type) ==
    [level |-> level, numDisks |-> numDisks, chunkSize |-> chunkSize, raid5type |-> raid5type]

(* The last addresses are near the ends of disks of 10000 blocks. *)
R == INSTANCE Raid WITH
        raid <- st,
        Arrays <- {Array(0, 3, 2, "LS"), Array(0, 1, 1, "LS"), Array(1, 4, 2, "LS"),
                   Array(1, 2, 1, "LS"), Array(4, 2, 1, "LS"), Array(4, 4, 3, "LS"),
                   Array(4, 5, 1, "LS"), Array(5, 4, 1, "LS"), Array(5, 4, 1, "LA"),
                   Array(5, 3, 2, "LA"), Array(5, 5, 2, "LS")},
        Addresses <- {0, 1, 5, 7, 18, 9999, 19998, 29995}, ReqSizes <- {0, 1, 3, 8},
        MaxRequests <- 2

Req(logical, op) == [logical |-> logical, op |-> op]

(* Triples of reads and writes of one and of two stripes, and queues with full
   stripes, real and apparent. *)
S == INSTANCE RaidGraphics WITH
        sim <- st,
        Setups <- {[mapping |-> mapping, seek_speed |-> 20, window |-> window] :
                      mapping \in {0, 1, 4, 5}, window \in {-1, 1, 2}},
        Queues <- [1 .. 3 -> {Req(l, op) : l \in {0, 1, 4}, op \in {"read", "write"}}] \cup
                  {<<Req(0, "write"), Req(1, "write"), Req(2, "write"), Req(0, "write")>>,
                   <<Req(0, "read"), Req(3, "read"), Req(6, "read"),
                     Req(12, "write"), Req(13, "write"), Req(14, "write")>>,
                   <<Req(0, "read"), Req(1, "read"), Req(2, "read")>>,
                   <<Req(0, "write"), Req(1, "write"), Req(2, "read")>>,
                   <<Req(1, "write"), Req(2, "write"), Req(3, "write")>>,
                   <<Req(1, "read"), Req(2, "write"), Req(3, "read"), Req(0, "read"), Req(5, "read")>>},
        MaxKeys <- 2

-----------------------------------------------------------------------------
K == INSTANCE Fork WITH forker <- st, Names <- {"a", "b", "c", "d", "e"}, root_name <- "a",
                        MaxActions <- 6

(* The jobs' run times; 0 is a job that has nothing to do. *)
T == INSTANCE Scheduler WITH
        sched <- st, Policies <- {"FIFO", "SJF", "RR"}, Quanta <- {1, 2, 3},
        JobLists <- UNION {[1 .. n -> {0, 1, 2, 5}] : n \in 1 .. 3} \cup {<<3, 1, 2, 7>>, <<7, 4, 4, 6>>}

Z == INSTANCE Lottery WITH
        lottery <- st, Quanta <- {1, 2},
        JobLists <- UNION {[1 .. n -> [runtime : 0 .. 3, tickets : 0 .. 2]] : n \in 1 .. 3}

-----------------------------------------------------------------------------
Replacement(policies, bits) == [policy : policies, cachesize : 0 .. 3, clockbits : bits]

(* Only the equality of pages matters: they are numbered as they come. *)
TheReferences ==
    {a \in [1 .. 7 -> 1 .. 4] : \A k \in 1 .. 7 : \A p \in 1 .. a[k] - 1 : \E j \in 1 .. k - 1 : a[j] = p}

A == INSTANCE PagingPolicy WITH
        cache <- st, AddrLists <- TheReferences,
        Setups <- Replacement({"FIFO", "LRU", "MRU", "RAND", "OPT", "UNOPT"}, {1})
                    \cup Replacement({"CLOCK"}, {0, 1, 2})

X == INSTANCE Translation WITH
        mmu <- st,
        Relocations <- [prog : {"relocation"}, asize : {0, 4, 8}, psize : {8, 12},
                        limit : {-1, 3, 12}, base : {-1, 0, 5}],
        Segmentations <- [prog : {"segmentation"}, asize : {4, 7}, psize : {7, 16}, len0 : {-1, 2},
                          len1 : {-1, 3, 16}, base0 : {-1, 4, 6}, base1 : {-1, 1, 6, 8}],
        Pagings <- [prog : {"paging"}, asize : {8}, psize : {8, 16}, pagesize : {2, 4}]

(* Memory runs out in one, the other has room for tables of both halves. *)
Y == INSTANCE MultiLevel WITH
        os <- st, PageSize <- 2, DataByte <- 0,
        Memories <- {[physPages |-> 4, allocated |-> 3], [physPages |-> 8, allocated |-> 2]}

C == INSTANCE Checksum WITH check <- st, Values <- {0, 1, 15, 128, 254, 255}, MaxSize <- 4

-----------------------------------------------------------------------------
LabsInit ==
    /\ Init
    /\ QueueInit
    /\ \/ lab \in {"counters", "vectors", "identity", "vsfs", "malloc"} /\ st = Nothing /\ aux = Nothing
       \/ lab = "fsck" /\ F!Init
       \/ lab = "lfs" /\ L!Init /\ aux = Nothing
       \/ lab = "ffs" /\ G!Init /\ aux = Nothing
       \/ lab = "process-run" /\ P!Init /\ aux = Nothing
       \/ lab = "process-run-intro" /\ Q!Init /\ aux = Nothing
       \/ lab = "multi" /\ U!Init /\ aux = Nothing
       \/ lab = "disk" /\ D!Init /\ aux = Nothing
       \/ lab = "disk-precise" /\ E!Init /\ aux = Nothing
       \/ lab = "raid" /\ R!Init /\ aux = Nothing
       \/ lab = "raid-graphics" /\ S!Init /\ aux = Nothing
       \/ lab = "fork" /\ K!Init /\ aux = Nothing
       \/ lab = "scheduler" /\ T!Init /\ aux = Nothing
       \/ lab = "lottery" /\ Z!Init /\ aux = Nothing
       \/ lab = "paging-policy" /\ A!Init /\ aux = Nothing
       \/ lab = "translation" /\ X!Init /\ aux = Nothing
       \/ lab = "multilevel" /\ Y!Init /\ aux = Nothing
       \/ lab = "checksum" /\ C!Init /\ aux = Nothing
    /\ IF lab = "vectors" THEN VectorsInit ELSE vec = CHOOSE v \in InitialVectors : TRUE
    /\ IF lab = "vsfs" THEN VSFSInit ELSE fs = CHOOSE f \in EmptyImages : TRUE
    /\ IF lab = "malloc" THEN HeapInit ELSE heap = CHOOSE h \in NewHeaps : TRUE

LabsNext ==
    \/ lab = "counters" /\ Next /\ UNCHANGED <<vec, mod, fs, heap, lab, st, aux>>
    \/ lab = "vectors" /\ VectorsNext /\ UNCHANGED <<vars, mod, fs, heap, lab, st, aux>>
    \/ lab = "identity" /\ QueueNext /\ UNCHANGED <<vars, vec, fs, heap, lab, st, aux>>
    \/ lab = "vsfs" /\ VSFSNext /\ UNCHANGED <<vars, vec, mod, heap, lab, st, aux>>
    \/ lab = "malloc" /\ HeapNext /\ UNCHANGED <<vars, vec, mod, fs, lab, st, aux>>
    \/ lab = "fsck" /\ F!Next /\ UNCHANGED <<own, lab>>
    \/ lab = "lfs" /\ L!Next /\ UNCHANGED <<own, lab, aux>>
    \/ lab = "ffs" /\ G!Next /\ UNCHANGED <<own, lab, aux>>
    \/ lab = "process-run" /\ P!Next /\ UNCHANGED <<own, lab, aux>>
    \/ lab = "process-run-intro" /\ Q!Next /\ UNCHANGED <<own, lab, aux>>
    \/ lab = "multi" /\ U!Next /\ UNCHANGED <<own, lab, aux>>
    \/ lab = "disk" /\ D!Next /\ UNCHANGED <<own, lab, aux>>
    \/ lab = "disk-precise" /\ E!Next /\ UNCHANGED <<own, lab, aux>>
    \/ lab = "raid" /\ R!Next /\ UNCHANGED <<own, lab, aux>>
    \/ lab = "raid-graphics" /\ S!Next /\ UNCHANGED <<own, lab, aux>>
    \/ lab = "fork" /\ K!Next /\ UNCHANGED <<own, lab, aux>>
    \/ lab = "scheduler" /\ T!Next /\ UNCHANGED <<own, lab, aux>>
    \/ lab = "lottery" /\ Z!Next /\ UNCHANGED <<own, lab, aux>>
    \/ lab = "paging-policy" /\ A!Next /\ UNCHANGED <<own, lab, aux>>
    \/ lab = "translation" /\ X!Next /\ UNCHANGED <<own, lab, aux>>
    \/ lab = "multilevel" /\ Y!Next /\ UNCHANGED <<own, lab, aux>>
    \/ lab = "checksum" /\ C!Next /\ UNCHANGED <<own, lab, aux>>

LabsSpec == LabsInit /\ [][LabsNext]_allVars

-----------------------------------------------------------------------------
(* fsck: the image is consistent until it is corrupted and, but for a changed
   name, inconsistent after.  checksum: a changed byte shows in every sum, an
   exchange of two in Fletcher's only. *)
CorruptionShows ==
    /\ lab = "fsck" => F!CorruptionShows
    /\ lab = "checksum" => C!CorruptionShows

(* LFS: directory entries and reference counts in the latest versions agree,
   and what the checkpoint region leads to is what the program remembers,
   except where the code leaves it behind. *)
LogConsistent == lab = "lfs" => L!TypeOK /\ L!NamesAndRefsAgree /\ L!CheckpointCurrent

(* FFS: the books agree with the files, and space is refused only when there
   is none. *)
BooksBalance == lab = "ffs" => G!TypeOK /\ G!BooksBalance

(* FFS: do_verify never stops the program, ffs.py:426-437.  It does, after a
   delete on the geometry that is not square. *)
VerifyNeverFails == lab = "ffs" => G!VerifyNeverFails

(* process-run, both copies: processes and I/Os agree, the CPU idles only when
   nothing can run, and the simulation ends.  scheduler: the times are those
   of a reference, round robin starves nobody and shortest job first is best.
   lottery: the tickets add up and the draws suffice. *)
SchedulesSoundly ==
    /\ lab = "process-run" => P!TypeOK /\ P!SchedulesSoundly
    /\ lab = "process-run-intro" => Q!SchedulesSoundly
    /\ lab = "scheduler" => T!SchedulesSoundly
    /\ lab = "lottery" => Z!SchedulesSoundly

(* multi: no job is lost or in two places, all end unless one is stolen by a
   CPU outside its affinity.  A cache holds what fits, first the job that got
   warm last; unlike what the comment at multi.py:56-58 says, it is left empty
   by a job whose working set is too big for it. *)
JobsPlaced == lab = "multi" => U!TypeOK /\ U!JobsPlaced /\ U!CachesFit

(* Both disks: every request is served once, no turn is endless and, until the
   program is started again, batches stay in order and a request takes the
   time the policy estimated: where the edges of the blocks are multiples of
   the speed, and but for a turn more when a block begins where the head
   stands.  The window of disk.py never runs empty while requests wait; that
   of disk-precise.py can, in fairness mode when late requests come. *)
DiskSound ==
    /\ lab = "disk" => D!DiskSound
    /\ lab = "disk-precise" => E!DiskSound

(* raid: a request touches its blocks only and reads what its parity needs.
   raid-graphics: four disks at once serve every request, the last write stays
   and, one request at a time, the parity is that of the data. *)
RaidSound ==
    /\ lab = "raid" => R!RaidSound
    /\ lab = "raid-graphics" => S!RaidSound

(* fork: the records of parents and children describe one tree. *)
TreeSound == lab = "fork" => K!TreeSound

(* paging-policy: the cache and its counts agree, LRU keeps what was used last,
   OPT misses least and UNOPT most.  The translators: every valid address has
   its own place in memory, except that segments given by hand can leave the
   memory, or overlap when segment 1 does not begin above segment 0; page
   tables survive what is put beside them. *)
AddressesRight ==
    /\ lab = "paging-policy" => A!PagesSound
    /\ lab = "translation" => X!TranslatesSafely
    /\ lab = "multilevel" => Y!TranslatesSafely
=============================================================================
