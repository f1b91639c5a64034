-------------------------------- MODULE LFS --------------------------------
(***************************************************************************)
(* The log-structured file system of ostep/homework/file-lfs/lfs.py.       *)
(* Everything is appended to the disk: directory blocks, data blocks,      *)
(* inodes and chunks of the inode map; only the checkpoint block at        *)
(* address 0, which points to the chunks, is overwritten.  The inode map   *)
(* and the checkpoint region are also kept in memory.                      *)
(*                                                                         *)
(* A path is the sequence of its names.  Commands are those of -L, with    *)
(* any path; what a data block contains is left out.                       *)
(*                                                                         *)
(* A definition whose name ends in Faulty is a plausible mistake in the    *)
(* definition that follows it; no specification uses it.                   *)
(***************************************************************************)
EXTENDS Integers, Sequences, SequencesExt, FiniteSets, FiniteSetsExt

CONSTANTS Modes,        \* values of the options -D, -N and -a
          NumChunks, InodesPerChunk, NumInodePtrs, DirSlots,
          Paths,
          Writes,       \* pairs of an offset and a number of blocks
          MaxCommands

VARIABLE lfs

Inums == 0 .. NumChunks * InodesPerChunk - 1
Chunks == 0 .. NumChunks - 1
Ptrs == 0 .. NumInodePtrs - 1
Slots == 0 .. DirSlots - 1
ROOT_INODE == 0
None == -1
Crash == -2     \* an assertion, or an exception, ended the program

NoEntry == <<"-", None>>
EmptyDirblock == [block_type |-> "data_dir", entries |-> [s \in Slots |-> NoEntry]]
make_new_dirblock(parent, current) ==
    [EmptyDirblock EXCEPT !.entries[0] = <<".", current>>, !.entries[1] = <<"..", parent>>]
make_inode(itype, size, refs) ==
    [block_type |-> "inode", type |-> itype, size |-> size, refs |-> refs,
     pointers |-> [p \in Ptrs |-> None]]
DataBlock == [block_type |-> "data"]

inum_to_chunk(inum) == inum \div InodesPerChunk
make_imap_chunk(L, c) ==
    [block_type |-> "imap",
     entries |-> [k \in 0 .. InodesPerChunk - 1 |-> L.inode_map[c * InodesPerChunk + k]]]
Checkpoint(cr) == [block_type |-> "checkpoint", entries |-> cr]

(* Addresses count from 0; Python reads the address -1 as the last block. *)
At(L, addr) == IF addr = None THEN Last(L.disk) ELSE L.disk[addr + 1]
NextAddr(L) == Len(L.disk)

log(L, block) == [L EXCEPT !.disk = Append(@, block)]
remap(L, inum, addr) == [L EXCEPT !.inode_map[inum] = addr]

Fresh(mode) ==
    LET cr == [c \in Chunks |-> IF c = 0 THEN 3 ELSE None]
        blank == [disk |-> <<>>, cr |-> cr, mode |-> mode, commands |-> 0, phase |-> "run",
                  inode_map |-> [i \in Inums |-> IF i = ROOT_INODE THEN 2 ELSE None]]
        root == [make_inode("dir", 1, 2) EXCEPT !.pointers[0] = 1]
    IN  [blank EXCEPT !.disk = <<Checkpoint(cr), make_new_dirblock(ROOT_INODE, ROOT_INODE), root,
                                 make_imap_chunk(blank, 0)>>]

Init == \E mode \in Modes : lfs = Fresh(mode)

-----------------------------------------------------------------------------
(* allocate_inode: the inode numbers it may answer. *)
FreeInums(L) ==
    LET free == {i \in Inums : L.inode_map[i] = None}
    IN  IF free = {} THEN {None} ELSE IF L.mode.random THEN free ELSE {Min(free)}

(* The address of an inode, from memory or from the disk. *)
InodeAddress(L, inum, use_disk_cr) ==
    IF use_disk_cr
    THEN At(L, At(L, 0).entries[inum_to_chunk(inum)]).entries[inum % InodesPerChunk]
    ELSE L.inode_map[inum]

(* The assertions of get_inode_from_inumber. *)
Readable(L, inum) ==
    /\ L.mode.use_disk_cr => At(L, At(L, 0).entries[inum_to_chunk(inum)]).block_type = "imap"
    /\ InodeAddress(L, inum, L.mode.use_disk_cr) # None
    /\ At(L, InodeAddress(L, inum, L.mode.use_disk_cr)).block_type = "inode"
get_inode(L, inum) == At(L, InodeAddress(L, inum, L.mode.use_disk_cr))

(* The slots of a directory that hold a name, in the order of a search. *)
SlotsOf(L, inode, name) ==
    {<<p, s>> \in Ptrs \X Slots :
        inode.pointers[p] # None /\ At(L, inode.pointers[p]).entries[s][1] = name}
FirstSlot(slots) ==
    CHOOSE x \in slots : \A y \in slots : x[1] < y[1] \/ (x[1] = y[1] /\ x[2] <= y[2])

IsDirectory(L, inum) == Readable(L, inum) /\ get_inode(L, inum).type = "dir"

lookup(L, parent, name) ==
    IF ~IsDirectory(L, parent) THEN Crash
    ELSE LET inode == get_inode(L, parent)
             slots == SlotsOf(L, inode, name)
             x == FirstSlot(slots)
         IN  IF slots = {} THEN None ELSE At(L, inode.pointers[x[1]]).entries[x[2]][2]

(* walk_path: the directory a path leads to, None or Crash.  The test of
   inode['type'] in the loop looks at the directory just searched, so that a
   path through a regular file ends in the assertion of the next lookup. *)
walk_parent(L, path) ==
    LET dir[k \in 0 .. Len(path) - 1] ==
            IF k = 0 THEN ROOT_INODE
            ELSE IF dir[k - 1] \in {None, Crash} THEN dir[k - 1]
            ELSE lookup(L, dir[k - 1], path[k])
    IN  dir[Len(path) - 1]

walk(L, path) ==
    LET parent == walk_parent(L, path)
    IN  IF parent \in {None, Crash} THEN parent ELSE lookup(L, parent, Last(path))

-----------------------------------------------------------------------------
WriteChunk(L, c) == [log(L, make_imap_chunk(L, c)) EXCEPT !.cr[c] = NextAddr(L)]

update_imapFaulty(L, inum, other) == WriteChunk(L, inum_to_chunk(inum))
update_imap(L, inum, other) ==
    LET c == inum_to_chunk(inum)
        d == inum_to_chunk(other)
    IN  IF c = d THEN WriteChunk(L, c) ELSE WriteChunk(WriteChunk(L, c), d)

cr_sync(L) == [L EXCEPT !.disk[1] = Checkpoint(L.cr)]
Synced(L) == IF L.mode.no_force THEN L ELSE cr_sync(L)
Crashed(L) == [L EXCEPT !.phase = "crashed"]

(* add_dir_entry: there is a free slot, or the inode can take another block. *)
DirHasRoom(L, inode) == SlotsOf(L, inode, "-") # {} \/ inode.size # NumInodePtrs

(* The directory block with the new entry is logged, and a new version of the
   directory's inode points to it (but is not logged yet). *)
LogEntry(L, inode, name, inum) ==
    LET slots == SlotsOf(L, inode, "-")
        x == FirstSlot(slots)
    IN  IF slots # {}
        THEN log(L, [At(L, inode.pointers[x[1]]) EXCEPT !.entries[x[2]] = <<name, inum>>])
        ELSE log(L, [EmptyDirblock EXCEPT !.entries[0] = <<name, inum>>])
WithEntry(L, inode) ==
    LET slots == SlotsOf(L, inode, "-")
        index == IF slots # {} THEN FirstSlot(slots)[1] ELSE inode.size
    IN  [inode EXCEPT !.size = IF slots # {} THEN @ ELSE @ + 1,
                      !.pointers[index] = NextAddr(L)]

file_create(L, path, is_file, inum) ==
    LET parent == walk_parent(L, path)
        found == walk(L, path)
        dir == get_inode(L, parent)
        newdir == IF is_file THEN WithEntry(L, dir)
                  ELSE [WithEntry(L, dir) EXCEPT !.refs = @ + 1]
        A == LogEntry(L, dir, Last(path), inum)
        B == IF is_file THEN A ELSE log(A, make_new_dirblock(parent, inum))
        node == IF is_file THEN make_inode("reg", 0, 1)
                ELSE [make_inode("dir", 1, 2) EXCEPT !.pointers[0] = NextAddr(A)]
        C == log(log(B, newdir), node)
        D == remap(remap(C, parent, NextAddr(B)), inum, NextAddr(B) + 1)
    IN  CASE found = Crash -> Crashed(L)
          [] found >= 0 \/ parent = None \/ inum = None -> L
          [] OTHER -> IF ~DirHasRoom(L, dir) THEN L
                      ELSE Synced(update_imap(D, parent, inum))

(* Only the chunk of the directory is written.  A destination in a directory
   that does not exist ends in an exception. *)
file_link(L, src, dst) ==
    LET inum == walk(L, src)
        node == get_inode(L, inum)
        parent == walk_parent(L, dst)
        dir == get_inode(L, parent)
        A == LogEntry(L, dir, Last(dst), inum)
        B == log(log(A, WithEntry(L, dir)), [node EXCEPT !.refs = @ + 1])
        C == remap(remap(B, parent, NextAddr(A)), inum, NextAddr(A) + 1)
    IN  IF inum = Crash \/ (inum >= 0 /\ ~Readable(L, inum)) THEN Crashed(L)
        ELSE IF inum = None THEN L
        ELSE IF node.type # "reg" THEN L
        ELSE IF walk(L, dst) = Crash \/ parent = None THEN Crashed(L)
        ELSE IF walk(L, dst) >= 0 \/ ~DirHasRoom(L, dir) THEN L
        ELSE Synced(WriteChunk(C, inum_to_chunk(parent)))

file_write(L, path, offset, num_blks) ==
    LET inum == walk(L, path)
        node == get_inode(L, inum)
        end == Min({NumInodePtrs, offset + num_blks})
        A == [L EXCEPT !.disk = @ \o [k \in 1 .. end - offset |-> DataBlock]]
        newnode == [node EXCEPT
                      !.size = Max({end, @}),
                      !.pointers = [p \in Ptrs |-> IF offset <= p /\ p < end
                                                   THEN NextAddr(L) + p - offset ELSE @[p]]]
        B == remap(log(A, newnode), inum, NextAddr(A))
    IN  IF inum = Crash \/ (inum >= 0 /\ ~Readable(L, inum)) THEN Crashed(L)
        ELSE IF inum = None THEN L
        ELSE IF node.type # "reg" \/ offset \notin Ptrs THEN L
        ELSE Synced(WriteChunk(B, inum_to_chunk(inum)))

(* One name less: the inode is freed with the last one. *)
DropName(L, inum, node) ==
    IF node.refs > 1
    THEN remap(log(L, [node EXCEPT !.refs = @ - 1]), inum, NextAddr(L))
    ELSE remap(L, inum, None)

file_delete(L, path) ==
    LET inum == walk(L, path)
        node == get_inode(L, inum)
        parent == walk_parent(L, path)
        dir == get_inode(L, parent)
        x == FirstSlot(SlotsOf(L, dir, Last(path)))
        A == log(L, [At(L, dir.pointers[x[1]]) EXCEPT !.entries[x[2]] = NoEntry])
        B == remap(log(A, [dir EXCEPT !.pointers[x[1]] = NextAddr(L)]), parent, NextAddr(A))
    IN  IF inum = Crash \/ (inum >= 0 /\ ~Readable(L, inum)) THEN Crashed(L)
        ELSE IF inum = None THEN L
        ELSE IF node.type # "reg" THEN L
        ELSE IF node.refs = 1 /\ L.inode_map[inum] = None THEN Crashed(L)
        ELSE Synced(update_imap(DropName(B, inum, node), inum, parent))

-----------------------------------------------------------------------------
Command(result) ==
    /\ lfs.phase = "run"
    /\ lfs.commands < MaxCommands
    /\ lfs' = [result EXCEPT !.commands = @ + 1]

CreateFile == \E p \in Paths, i \in FreeInums(lfs) : Command(file_create(lfs, p, TRUE, i))
CreateDir == \E p \in Paths, i \in FreeInums(lfs) : Command(file_create(lfs, p, FALSE, i))
DeleteFile == \E p \in Paths : Command(file_delete(lfs, p))
LinkFile == \E src, dst \in Paths : Command(file_link(lfs, src, dst))
WriteFile == \E p \in Paths, w \in Writes : Command(file_write(lfs, p, w[1], w[2]))
Sync == Command(cr_sync(lfs))

Ended ==
    /\ lfs.phase = "crashed" \/ lfs.commands = MaxCommands
    /\ UNCHANGED lfs

Next == CreateFile \/ CreateDir \/ DeleteFile \/ LinkFile \/ WriteFile \/ Sync \/ Ended

-----------------------------------------------------------------------------
TypeOK ==
    /\ lfs.inode_map \in [Inums -> 2 .. NextAddr(lfs) - 1 \cup {None}]
    /\ lfs.cr \in [Chunks -> 3 .. NextAddr(lfs) - 1 \cup {None}]
    /\ \A i \in Inums : lfs.inode_map[i] # None =>
         LET node == At(lfs, lfs.inode_map[i]) IN
         /\ node.block_type = "inode"
         /\ \A p \in Ptrs : node.pointers[p] # None =>
              At(lfs, node.pointers[p]).block_type = IF node.type = "dir" THEN "data_dir" ELSE "data"

Live == {i \in Inums : lfs.inode_map[i] # None}
Inode(i) == At(lfs, lfs.inode_map[i])

(* The entries of live directories that name an inode. *)
References(i) ==
    {<<d, p, s>> \in Live \X Ptrs \X Slots :
        /\ Inode(d).type = "dir"
        /\ Inode(d).pointers[p] # None
        /\ At(lfs, Inode(d).pointers[p]).entries[s][2] = i}

(* As long as inodes are found through memory, every entry of a directory
   leads to a live inode, and reference counts count the entries: no file is
   freed while a name is left, and none stays without a name. *)
NamesAndRefsAgree ==
    ~lfs.mode.use_disk_cr => \A i \in Inums :
        IF i \in Live THEN Inode(i).refs = Cardinality(References(i)) ELSE References(i) = {}

(* With forced checkpoints, a reader of the disk alone finds every inode the
   memory knows and no other, of the same version but for its reference
   count: a link writes the chunk of the directory, not of the file. *)
CheckpointCurrent ==
    ~lfs.mode.use_disk_cr /\ ~lfs.mode.no_force => \A i \in Inums :
        LET c == At(lfs, 0).entries[inum_to_chunk(i)]
            addr == IF c = None THEN None ELSE At(lfs, c).entries[i % InodesPerChunk]
        IN  IF i \in Live
            THEN addr # None /\ [At(lfs, addr) EXCEPT !.refs = Inode(i).refs] = Inode(i)
            ELSE addr = None
=============================================================================
