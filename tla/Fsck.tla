-------------------------------- MODULE Fsck --------------------------------
(***************************************************************************)
(* ostep/homework/file-journaling/fsck.py: the file system of vsfs.py with *)
(* random allocators, built by random requests and then corrupted once;    *)
(* the reader is asked what is wrong with it.                              *)
(*                                                                         *)
(* The operations the two programs have in common are those of module      *)
(* VSFS.  A definition whose name ends in Faulty is a plausible mistake in *)
(* the definition that follows it; no specification uses it.               *)
(***************************************************************************)
EXTENDS Integers, Sequences, SequencesExt, FiniteSets

CONSTANTS InodeCounts, DataCounts, NumRequests, Names, MaxUsed

VARIABLES fs,
          corruption    \* the kind that was done, or NotYet

vars == <<fs, corruption>>

V == INSTANCE VSFS

NotYet == -1
Init == V!VSFSInit /\ corruption = NotYet

EmptyFS(numInodes, numData) == V!EmptyFS(numInodes, numData)
inodeFree(f, inum) == V!inodeFree(f, inum)
dataFree(f, bnum) == V!dataFree(f, bnum)
getParent(path) == V!getParent(path)
EntryExists(f, b, name) == V!EntryExists(f, b, name)
deleteFile(f, tfile) == V!deleteFile(f, tfile)
createLink(f, target, newfile, parent) == V!createLink(f, target, newfile, parent)
createFile(f, parent, newfile, ftype, inum, fblock) ==
    V!createFile(f, parent, newfile, ftype, inum, fblock)
writeFile(f, tfile, fblock) == V!writeFile(f, tfile, fblock)

(* bitmap.alloc, findFree: any number that is free, or -1. *)
AllocFaulty(bitmap, numbers) == numbers
Alloc(bitmap, numbers) ==
    IF numbers \subseteq bitmap THEN {V!None} ELSE numbers \ bitmap

-----------------------------------------------------------------------------
inodeAlloc == Alloc(fs.ibitmap, V!Inums(fs))
dataAlloc == Alloc(fs.dbitmap, V!Blocks(fs))

Attempt(result) == V!Attempt(result) /\ UNCHANGED corruption

NoFiles == fs.files = <<>> /\ Attempt(V!Fails(fs))
doAppend == \E p \in ToSet(fs.files), b \in dataAlloc : Attempt(writeFile(fs, p, b))

(* int(random.random()) is 0: the oldest file is always the one. *)
doDelete == fs.files # <<>> /\ Attempt(deleteFile(fs, fs.files[1]))

doLink ==
    \E parent \in fs.dirs, name \in Names, target \in ToSet(fs.files) :
        Attempt(createLink(fs, target, name, parent))
doCreate(ftype) ==
    \E parent \in fs.dirs, name \in Names, inum \in inodeAlloc, b \in dataAlloc :
        Attempt(createFile(fs, parent, name, ftype, inum, b))

-----------------------------------------------------------------------------
(* pickRandom, findFreeData: one of the inodes, or blocks, of a type. *)
OfType(table, match) == {i \in DOMAIN table : table[i].ftype = match}

Flip(S, x) == IF x \in S THEN S \ {x} ELSE S \cup {x}

(* What each kind of corruption may leave. *)
FlippedDataBit(f) == {[f EXCEPT !.dbitmap = Flip(@, b)] : b \in V!Blocks(f)}
FlippedInodeBit(f) == {[f EXCEPT !.ibitmap = Flip(@, i)] : i \in V!Inums(f)}
BadRefCnt(f, ftype) ==
    {[f EXCEPT !.inodes[i].refCnt = @ + d] : <<i, d>> \in OfType(f.inodes, ftype) \X {-1, 1}}
Orphan(f, ftype) ==
    {[f EXCEPT !.inodes[i] = [ftype |-> ftype, addr |-> V!None, refCnt |-> 1]] :
        i \in OfType(f.inodes, "free")}
DeadBlock(f, ftype) ==
    {[f EXCEPT !.inodes[i].addr = b] :
        <<i, b>> \in OfType(f.inodes, ftype) \X OfType(f.data, "free")}
SwitchedType(f, ftype, other) ==
    {[f EXCEPT !.inodes[i].ftype = other] : i \in OfType(f.inodes, ftype)}

(* setDirEntry on one entry of one directory. *)
Altered(f, b, old, new) == [f EXCEPT !.data[b].dirList = (@ \ {old}) \cup {new}]
DirBlocks(f) == {f.inodes[i].addr : i \in OfType(f.inodes, "d")}
BadEntryInum(f) ==
    UNION {{Altered(f, b, e, <<e[1], i>>) :
              <<e, i>> \in f.data[b].dirList \X Alloc(f.ibitmap, V!Inums(f))} : b \in DirBlocks(f)}
BadEntryName(f) ==
    UNION {{Altered(f, b, e, <<n, e[2]>>) : <<e, n>> \in f.data[b].dirList \X Names} :
              b \in DirBlocks(f)}

Corrupted(f, num) ==
    CASE num = 0 -> FlippedDataBit(f)
      [] num = 1 -> FlippedInodeBit(f)
      [] num = 2 -> BadRefCnt(f, "f")
      [] num = 3 -> Orphan(f, "f")
      [] num = 4 -> DeadBlock(f, "f")
      [] num = 5 -> SwitchedType(f, "f", "d")
      [] num = 6 -> BadEntryInum(f)
      [] num = 7 -> BadEntryName(f)
      [] num = 8 -> BadRefCnt(f, "d")
      [] num = 9 -> Orphan(f, "d")
      [] num = 10 -> DeadBlock(f, "d")
      [] num = 11 -> SwitchedType(f, "d", "f")

(* With nothing to corrupt in the way asked for, an assertion ends the run. *)
corrupt ==
    /\ fs.phase = "done"
    /\ \E num \in 0 .. 11 :
         /\ corruption' = num
         /\ \/ \E g \in Corrupted(fs, num) : fs' = [g EXCEPT !.phase = "corrupted"]
            \/ Corrupted(fs, num) = {} /\ fs' = [fs EXCEPT !.phase = "assert"]

Stopped == fs.phase # "run" /\ UNCHANGED vars

Next ==
    \/ NoFiles
    \/ doAppend
    \/ doDelete
    \/ doLink
    \/ doCreate("f")
    \/ doCreate("d")
    \/ corrupt
    \/ Stopped

-----------------------------------------------------------------------------
(* The exercise has an answer: the image is sound until it is corrupted, and
   every corruption but the change of a name leaves one that no sequence of
   operations could have left, so that a checker would notice. *)
CorruptionShows ==
    /\ fs.phase \in {"run", "exit", "done", "assert"} => V!ImageConsistent
    /\ fs.phase = "corrupted" /\ corruption # 7 => ~V!Consistent(fs)
=============================================================================
