-------------------------------- MODULE FFS --------------------------------
(***************************************************************************)
(* Placement in the fast file system of ostep/homework/file-ffs/ffs.py:    *)
(* inodes and data blocks are spread over cylinder groups, a file goes     *)
(* near its directory, a directory to the emptiest group.  Commands come   *)
(* from an input file, and do_verify checks the books after each.          *)
(*                                                                         *)
(* A path is the sequence of its names.  Symbols, spans and dumps are      *)
(* output and left out.                                                    *)
(*                                                                         *)
(* A definition whose name ends in Faulty is a plausible mistake in the    *)
(* definition that follows it; no specification uses it.                   *)
(***************************************************************************)
EXTENDS Integers, Sequences, SequencesExt, FiniteSets, FiniteSetsExt

CONSTANTS Options,      \* geometries and policies: the fields of ffs.opt
          Paths, Sizes,
          MaxCommands

VARIABLE ffs

Free == -2              \* BITMAP_FREE
None == -1
Root == <<>>

Groups(f) == 0 .. f.opt.num_groups - 1
BlocksIn(f) == 0 .. f.opt.blocks_per_group - 1
InodesIn(f) == 0 .. f.opt.inodes_per_group - 1

(* What the constructor leaves: the root directory in group 0. *)
Fresh(opt) ==
    [opt               |-> opt,
     inode_bitmap      |-> [g \in 0 .. opt.num_groups - 1 |->
                              [i \in 0 .. opt.inodes_per_group - 1 |->
                                 IF g = 0 /\ i = 0 THEN 0 ELSE Free]],
     data_bitmap       |-> [g \in 0 .. opt.num_groups - 1 |->
                              [b \in 0 .. opt.blocks_per_group - 1 |->
                                 IF g = 0 /\ b = 0 THEN 0 ELSE Free]],
     total_data_free   |-> opt.num_groups * opt.blocks_per_group - 1,
     total_inodes_free |-> opt.num_groups * opt.inodes_per_group - 1,
     names             |-> [p \in {Root} |-> 0],
     directories       |-> {0},
     inode_blocks      |-> [i \in {0} |-> {0}],
     commands          |-> 0,
     phase             |-> "run"]

Init == \E opt \in Options : ffs = Fresh(opt)

-----------------------------------------------------------------------------
FreeCount(bitmap) == Cardinality({i \in DOMAIN bitmap : bitmap[i] = Free})
FreeInodes(f, g) == FreeCount(f.inode_bitmap[g])

(* find_most_free_inodes_multiple: of every how_many-th group, the first one
   with the most free inodes in the how_many groups that start there. *)
find_most_free_inodes_multiple(f, how_many) ==
    LET starts == {g \in Groups(f) : g % how_many = 0}
        sum(g) == MapThenSumSet(LAMBDA k : FreeInodes(f, (g + k) % f.opt.num_groups), 0 .. how_many - 1)
    IN  CHOOSE g \in starts : \A h \in starts : sum(g) > sum(h) \/ (sum(g) = sum(h) /\ g <= h)

(* find_free_inodes_near: the groups around the target, above and below in
   turn. *)
find_free_inodes_near(f, target) ==
    LET n == f.opt.num_groups
        visit(i) == IF i % 2 = 0 THEN (target + 1 + i \div 2) % n
                    ELSE (target - 1 - i \div 2) % n
        found == {i \in 0 .. n - 2 : FreeInodes(f, visit(i)) > 0}
    IN  IF found = {} THEN 1 ELSE visit(Min(found))

pick_group(f, parent, type) ==
    LET target == f.names[parent] \div f.opt.inodes_per_group IN
    IF type = "directory" \/ f.opt.spread_inodes
    THEN find_most_free_inodes_multiple(f, f.opt.allocate_faraway)
    ELSE IF FreeInodes(f, target) > 0 THEN target
    ELSE find_free_inodes_near(f, target)

(* find_min_data_usage: the first group with the most free blocks. *)
find_min_data_usage(f) ==
    CHOOSE g \in Groups(f) : \A h \in Groups(f) :
        LET a == FreeCount(f.data_bitmap[g])
            b == FreeCount(f.data_bitmap[h])
        IN  a > b \/ (a = b /\ g <= h)

-----------------------------------------------------------------------------
(* allocate_blocks: from index 0 of the target group on, a block is taken
   when it starts a run of enough free blocks; the search goes on in the next
   group at the end of one, or once large_file_exception blocks are taken
   there.  Back at the target, a run of one is enough. *)
RangeFreeFaulty(bitmap, index, chunks) ==
    \A i \in index + 1 .. index + chunks - 1 : i \in DOMAIN bitmap /\ bitmap[i] = Free
RangeFree(bitmap, index, chunks) ==
    \A i \in index .. index + chunks - 1 : i \in DOMAIN bitmap /\ bitmap[i] = Free

SearchStep(f, target, size, s) ==
    LET taken == RangeFree(s.bitmaps[s.group], s.index, Min({size - Len(s.allocated), s.chunks}))
        allocated == IF taken THEN Append(s.allocated, <<s.group, s.index>>) ELSE s.allocated
        in_group == s.in_group + IF taken THEN 1 ELSE 0
        leave == \/ s.index + 1 = f.opt.blocks_per_group
                 \/ f.opt.large_file_exception > 0 /\ in_group = f.opt.large_file_exception
        next == (s.group + 1) % f.opt.num_groups
        bitmaps == IF taken THEN [s.bitmaps EXCEPT ![s.group][s.index] = None] ELSE s.bitmaps
    IN  IF Len(s.allocated) = size THEN s
        ELSE [bitmaps   |-> bitmaps,
              allocated |-> allocated,
              in_group  |-> IF leave THEN 0 ELSE in_group,
              index     |-> IF leave THEN 0 ELSE s.index + 1,
              group     |-> IF leave THEN next ELSE s.group,
              chunks    |-> IF leave /\ next = target THEN 1 ELSE s.chunks]

(* Every turn round the groups after the first takes a block, if one is free. *)
allocate_blocks(f, target, size) ==
    LET turns == f.opt.num_groups * f.opt.blocks_per_group * (f.opt.blocks_per_group + 1)
        start == [bitmaps |-> f.data_bitmap, allocated |-> <<>>, in_group |-> 0, index |-> 0,
                  group |-> target, chunks |-> f.opt.contig_allocation_policy]
    IN  FoldLeft(LAMBDA s, k : SearchStep(f, target, size, s), start, [k \in 1 .. turns |-> k])
            .allocated

-----------------------------------------------------------------------------
Crashed(f) == [f EXCEPT !.phase = "crashed"]

FirstFreeInode(f, g) ==
    LET free == {i \in InodesIn(f) : f.inode_bitmap[g][i] = Free}
    IN  IF free = {} THEN None ELSE Min(free)

(* A file of no blocks runs the search into blocks that are taken.  The model
   stops where a group without a free inode was picked, or an inode in use. *)
do_create(f, path, size, type) ==
    LET parent == Front(path)
        group == pick_group(f, parent, type)
        inode_index == FirstFreeInode(f, group)
        inum == inode_index + group * f.opt.inodes_per_group
        target == IF f.opt.spread_data_blocks THEN find_min_data_usage(f) ELSE group
        allocated == ToSet(allocate_blocks(f, target, size))
    IN  IF f.total_inodes_free = 0 \/ f.total_data_free < size \/ parent \notin DOMAIN f.names
        THEN f
        ELSE IF f.names[parent] \notin f.directories THEN Crashed(f)
        ELSE IF path \in DOMAIN f.names THEN f
        ELSE IF size = 0 THEN Crashed(f)
        ELSE IF inode_index = None \/ inum \in Range(f.names) THEN [f EXCEPT !.phase = "no inode"]
        ELSE [f EXCEPT
                !.inode_bitmap[group][inode_index] = inum,
                !.data_bitmap = [g \in Groups(f) |-> [b \in BlocksIn(f) |->
                                   IF <<g, b>> \in allocated THEN inum ELSE @[g][b]]],
                !.total_data_free = @ - size,
                !.total_inodes_free = @ - 1,
                !.names = path :> inum @@ @,
                !.directories = IF type = "directory" THEN @ \cup {inum} ELSE @,
                !.inode_blocks = inum :> {x[2] + x[1] * f.opt.blocks_per_group : x \in allocated} @@ @]

(* The groups of the blocks and of the inode are computed with num_groups. *)
do_delete(f, path) ==
    LET n == f.opt.num_groups
        inum == f.names[path]
        blocks == f.inode_blocks[inum]
        freed == {<<b \div n, b % n>> : b \in blocks}
        inode == <<inum \div n, inum % n>>
    IN  IF Front(path) \notin DOMAIN f.names THEN f
        ELSE IF f.names[Front(path)] \notin f.directories THEN Crashed(f)
        ELSE IF path \notin DOMAIN f.names THEN f
        ELSE IF inum \in f.directories THEN f
        ELSE IF \/ \E x \in freed : x[1] \notin Groups(f) \/ x[2] \notin BlocksIn(f)
                \/ inode[1] \notin Groups(f) \/ inode[2] \notin InodesIn(f)
        THEN Crashed(f)
        ELSE [f EXCEPT
                !.data_bitmap = [g \in Groups(f) |-> [b \in BlocksIn(f) |->
                                   IF <<g, b>> \in freed THEN Free ELSE @[g][b]]],
                !.inode_bitmap[inode[1]][inode[2]] = Free,
                !.names = [p \in DOMAIN @ \ {path} |-> @[p]],
                !.total_inodes_free = @ + 1,
                !.total_data_free = @ + Cardinality(blocks),
                !.inode_blocks[inum] = {}]

Used(bitmaps) ==
    Cardinality({<<g, i>> \in UNION {{g} \X DOMAIN bitmaps[g] : g \in DOMAIN bitmaps} :
                    bitmaps[g][i] # Free})

do_verify(f) ==
    /\ Used(f.data_bitmap) + f.total_data_free = f.opt.num_groups * f.opt.blocks_per_group
    /\ Used(f.inode_bitmap) + f.total_inodes_free = f.opt.num_groups * f.opt.inodes_per_group
    /\ \A p \in DOMAIN f.names : \A b \in f.inode_blocks[f.names[p]] :
         f.data_bitmap[b \div f.opt.blocks_per_group][b % f.opt.blocks_per_group] = f.names[p]

-----------------------------------------------------------------------------
Command(result) ==
    /\ ffs.phase = "run"
    /\ ffs.commands < MaxCommands
    /\ ffs' = [result EXCEPT !.commands = @ + 1,
                             !.phase = IF @ = "run" /\ ~do_verify(result) THEN "verify" ELSE @]

CreateFile == \E p \in Paths, size \in Sizes : Command(do_create(ffs, p, size, "regular"))
MakeDir == \E p \in Paths : Command(do_create(ffs, p, 1, "directory"))
DeleteFile == \E p \in Paths : Command(do_delete(ffs, p))
Ended == (ffs.phase # "run" \/ ffs.commands = MaxCommands) /\ UNCHANGED ffs

Next == CreateFile \/ MakeDir \/ DeleteFile \/ Ended

-----------------------------------------------------------------------------
TypeOK ==
    /\ ffs.total_data_free \in 0 .. ffs.opt.num_groups * ffs.opt.blocks_per_group
    /\ ffs.total_inodes_free \in 0 .. ffs.opt.num_groups * ffs.opt.inodes_per_group
    /\ ffs.phase \in {"run", "verify", "crashed", "no inode"}

(* The books balance after every command: do_verify never stops the program,
   its assertions being those of ffs.py:426-437. *)
VerifyNeverFails == ffs.phase # "verify"

(* So they do where the mistakes do no harm: with as many groups as blocks
   and inodes in one, do_delete computes the right places.  There, with
   allocate_faraway 1, pick_group finds a group with a free inode ("it is
   guaranteed here", ffs.py:333), and no two names share inode or block. *)
Square(opt) ==
    opt.num_groups = opt.blocks_per_group /\ opt.num_groups = opt.inodes_per_group
BooksBalance ==
    Square(ffs.opt) /\ ffs.opt.allocate_faraway = 1 =>
        /\ ffs.phase \notin {"verify", "no inode"}
        /\ \A p, q \in DOMAIN ffs.names : p # q =>
             /\ ffs.names[p] # ffs.names[q]
             /\ ffs.inode_blocks[ffs.names[p]] \cap ffs.inode_blocks[ffs.names[q]] = {}
=============================================================================
