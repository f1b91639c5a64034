-------------------------------- MODULE VSFS --------------------------------
(***************************************************************************)
(* The very simple file system of                                          *)
(* ostep/homework/file-implementation/vsfs.py: bitmaps, inodes and data    *)
(* blocks, the operations on them, and the workload generator that tries   *)
(* random operations until one succeeds, numRequests times.                *)
(*                                                                         *)
(* A path is the sequence of its names, << >> being "/".  A bitmap is the  *)
(* set of numbers whose bit is 1, a directory the set of its entries; what *)
(* a file contains is left out.                                            *)
(*                                                                         *)
(* A definition whose name ends in Faulty is a plausible mistake in the    *)
(* definition that follows it; no specification uses it.                   *)
(***************************************************************************)
EXTENDS Integers, Sequences, SequencesExt, FiniteSets, FiniteSetsExt

CONSTANTS InodeCounts, DataCounts,   \* values of -i and -d
          NumRequests,
          Names,        \* the names makeName draws from
          MaxUsed       \* entries a directory block holds

ASSUME VSFSAssumption ==
    /\ InodeCounts \subseteq Nat \ {0}
    /\ DataCounts \subseteq Nat \ {0}
    /\ NumRequests \in Nat \ {0}

VARIABLE fs

Inums(f) == DOMAIN f.inodes
Blocks(f) == DOMAIN f.data
None == -1
ROOT == 0
Root == <<>>

FreeInode == [ftype |-> "free", addr |-> None, refCnt |-> 1]
FreeBlock == [ftype |-> "free", dirList |-> {}]
Directory(self, parent) == [ftype |-> "d", dirList |-> {<<".", self>>, <<"..", parent>>}]

EmptyFS(numInodes, numData) ==
    [ibitmap    |-> {ROOT},
     inodes     |-> [i \in 0 .. numInodes - 1 |->
                        IF i = ROOT THEN [ftype |-> "d", addr |-> 0, refCnt |-> 2] ELSE FreeInode],
     dbitmap    |-> {0},
     data       |-> [b \in 0 .. numData - 1 |-> IF b = 0 THEN Directory(ROOT, ROOT) ELSE FreeBlock],
     files      |-> <<>>,
     dirs       |-> {Root},
     nameToInum |-> [p \in {Root} |-> ROOT],
     requests   |-> 0,
     phase      |-> "run"]

EmptyImages == {EmptyFS(i, d) : i \in InodeCounts, d \in DataCounts}

VSFSInit == fs \in EmptyImages

-----------------------------------------------------------------------------
(* bitmap.alloc: the first number that is free, or -1. *)
Alloc(bitmap, numbers) ==
    IF numbers \subseteq bitmap THEN None ELSE Min(numbers \ bitmap)

inodeFreeFaulty(f, inum) == [f EXCEPT !.inodes[inum] = FreeInode]
inodeFree(f, inum) ==
    [f EXCEPT !.ibitmap = @ \ {inum},
              !.inodes[inum].ftype = "free", !.inodes[inum].addr = None]

dataFree(f, bnum) == [f EXCEPT !.dbitmap = @ \ {bnum}, !.data[bnum] = FreeBlock]

getParent(path) == Front(path)

(* The block of the directory with this path. *)
BlockOf(f, path) == f.inodes[f.nameToInum[path]].addr

EntryExists(f, b, name) == \E e \in f.data[b].dirList : e[1] = name

HasRoom(f, b) == Cardinality(f.data[b].dirList) < MaxUsed

Renamed(f, path, inum) ==
    [p \in DOMAIN f.nameToInum \cup {path} |-> IF p = path THEN inum ELSE f.nameToInum[p]]

-----------------------------------------------------------------------------
(* Every operation answers the file system it leaves and its return code. *)
Succeeds(f) == [fs |-> f, rc |-> 0]
Fails(f) == [fs |-> f, rc |-> -1]

(* The last name of a file frees its block and its inode. *)
deleteFile(f, tfile) ==
    LET inum == f.nameToInum[tfile]
        node == f.inodes[inum]
        pinum == f.nameToInum[getParent(tfile)]
        pblock == f.inodes[pinum].addr
        g == IF node.refCnt = 1
             THEN inodeFree(IF node.addr # None THEN dataFree(f, node.addr) ELSE f, inum)
             ELSE [f EXCEPT !.inodes[inum].refCnt = @ - 1]
        h == IF node.ftype = "d" THEN [g EXCEPT !.inodes[pinum].refCnt = @ - 1] ELSE g
    IN  Succeeds([h EXCEPT !.data[pblock].dirList = {e \in @ : e[1] # Last(tfile)},
                           !.files = RemoveFirst(@, tfile)])

createLink(f, target, newfile, parent) ==
    LET pblock == BlockOf(f, parent)
        tinum == f.nameToInum[target]
        path == Append(parent, newfile)
    IN  IF ~HasRoom(f, pblock) \/ EntryExists(f, pblock, newfile)
        THEN Fails(f)
        ELSE Succeeds([f EXCEPT !.inodes[tinum].refCnt = @ + 1,
                                !.data[pblock].dirList = @ \cup {<<newfile, tinum>>},
                                !.files = Append(@, path),
                                !.nameToInum = Renamed(f, path, tinum)])

(* inum and fblock are what the allocators answer.  A directory that gets no
   block gives its inode back. *)
createFile(f, parent, newfile, ftype, inum, fblock) ==
    LET parentInum == f.nameToInum[parent]
        pblock == f.inodes[parentInum].addr
        path == Append(parent, newfile)
        entry == <<newfile, inum>>
        given == [f EXCEPT !.ibitmap = @ \cup {inum}]
        listed == [given EXCEPT
                            !.data[pblock].dirList = @ \cup {entry},
                            !.nameToInum = Renamed(f, path, inum)]
    IN  IF ~HasRoom(f, pblock) \/ EntryExists(f, pblock, newfile) \/ inum = None
        THEN Fails(f)
        ELSE
          CASE ftype = "d" /\ fblock = None -> Fails(inodeFree(given, inum))
            [] ftype = "d" /\ fblock # None ->
                 Succeeds([listed EXCEPT
                     !.dbitmap = @ \cup {fblock},
                     !.data[fblock] = Directory(inum, parentInum),
                     !.inodes = [f.inodes EXCEPT
                                   ![inum] = [ftype |-> "d", addr |-> fblock, refCnt |-> 2],
                                   ![parentInum].refCnt = @ + 1],
                     !.dirs = @ \cup {path}])
            [] OTHER ->
                 Succeeds([listed EXCEPT
                     !.inodes[inum] = [ftype |-> "f", addr |-> None, refCnt |-> 1],
                     !.files = Append(@, path)])

(* A file holds at most one block. *)
writeFile(f, tfile, fblock) ==
    LET inum == f.nameToInum[tfile] IN
    IF f.inodes[inum].addr # None \/ fblock = None
    THEN Fails(f)
    ELSE Succeeds([f EXCEPT !.dbitmap = @ \cup {fblock},
                            !.data[fblock] = [FreeBlock EXCEPT !.ftype = "f"],
                            !.inodes[inum].addr = fblock])

-----------------------------------------------------------------------------
(* One turn of the loop in run: an operation is tried, and the program stops
   with an error as soon as inodes or blocks have run out. *)
Exhausted(f) == f.ibitmap = Inums(f) \/ f.dbitmap = Blocks(f)

Attempt(result) ==
    LET done == fs.requests + IF result.rc = 0 THEN 1 ELSE 0 IN
    /\ fs.phase = "run"
    /\ fs' = [result.fs EXCEPT
                !.requests = done,
                !.phase = IF Exhausted(result.fs) THEN "exit"
                          ELSE IF done = NumRequests THEN "done" ELSE "run"]

inodeAlloc(f) == Alloc(f.ibitmap, Inums(f))
dataAlloc(f) == Alloc(f.dbitmap, Blocks(f))

(* Without files there is nothing to append to, delete or link to. *)
NoFiles == fs.files = <<>> /\ Attempt(Fails(fs))

doAppend == \E p \in ToSet(fs.files) : Attempt(writeFile(fs, p, dataAlloc(fs)))
doDelete == \E p \in ToSet(fs.files) : Attempt(deleteFile(fs, p))
doLink ==
    \E parent \in fs.dirs, name \in Names, target \in ToSet(fs.files) :
        Attempt(createLink(fs, target, name, parent))
doCreate(ftype) ==
    \E parent \in fs.dirs, name \in Names :
        Attempt(createFile(fs, parent, name, ftype, inodeAlloc(fs), dataAlloc(fs)))

VSFSEnded == fs.phase # "run" /\ UNCHANGED fs

VSFSNext == NoFiles \/ doAppend \/ doDelete \/ doLink \/ doCreate("f") \/ doCreate("d") \/ VSFSEnded

VSFSSpec == VSFSInit /\ [][VSFSNext]_fs

-----------------------------------------------------------------------------
VSFSTypeOK ==
    /\ fs.ibitmap \subseteq Inums(fs)
    /\ \A i \in Inums(fs) :
         fs.inodes[i] \in [ftype : {"free", "f", "d"}, addr : Blocks(fs) \cup {None}, refCnt : Nat]
    /\ fs.dbitmap \subseteq Blocks(fs)
    /\ \A b \in Blocks(fs) :
         /\ fs.data[b].ftype \in {"free", "f", "d"}
         /\ fs.data[b].dirList \subseteq (Names \cup {".", ".."}) \X (Inums(fs) \cup {None})
    /\ fs.requests \in 0 .. NumRequests

(* The directory entries, dots included, that name an inode. *)
References(f, i) ==
    UNION {{b} \X {e \in f.data[b].dirList : e[2] = i} : b \in Blocks(f)}

Live(f) == {i \in Inums(f) : f.inodes[i].ftype # "free"}
Owners(f, b) == {i \in Live(f) : f.inodes[i].addr = b}

(* What a checker of the image would ask: the bitmaps agree with the inodes
   and the blocks, a reference count counts directory entries, a block in use
   has one owner, of its type, and names are unique in a directory. *)
Consistent(f) ==
    /\ f.ibitmap = Live(f)
    /\ f.dbitmap = {b \in Blocks(f) : f.data[b].ftype # "free"}
    /\ \A i \in Live(f) :
         /\ f.inodes[i].refCnt = Cardinality(References(f, i))
         /\ f.inodes[i].ftype = "d" => f.inodes[i].addr # None
         /\ f.inodes[i].addr # None => f.data[f.inodes[i].addr].ftype = f.inodes[i].ftype
    /\ \A b \in f.dbitmap : Cardinality(Owners(f, b)) = 1
    /\ \A b \in f.dbitmap : \A d, e \in f.data[b].dirList :
         d[2] \in Live(f) /\ (d[1] = e[1] => d = e)

(* Lookup of a path from the root through the directory blocks. *)
Resolves(f, path) ==
    \E walk \in [0 .. Len(path) -> Live(f)] :
        /\ walk[0] = ROOT
        /\ walk[Len(path)] = f.nameToInum[path]
        /\ \A k \in 1 .. Len(path) :
             /\ f.inodes[walk[k - 1]].ftype = "d"
             /\ <<path[k], walk[k]>> \in f.data[f.inodes[walk[k - 1]].addr].dirList

(* After every operation, failed ones included, the image is consistent and
   each name the generator may use next leads to the inode it remembers. *)
ImageConsistent ==
    /\ VSFSTypeOK
    /\ Consistent(fs)
    /\ \A p \in fs.dirs \cup ToSet(fs.files) : Resolves(fs, p)
=============================================================================
