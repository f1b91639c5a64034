-------------------------------- MODULE Raid --------------------------------
(***************************************************************************)
(* ostep/homework/file-raid/raid.py: reads and writes of logical blocks    *)
(* become reads and writes of the blocks of several disks.                 *)
(*                                                                         *)
(* Sizes are in blocks (convert is left out), times in tenths of a         *)
(* millisecond, and a run makes MaxRequests requests.  Printing is left    *)
(* out, but the physical operations it lists are kept in ios.              *)
(***************************************************************************)
EXTENDS Integers, Sequences, SequencesExt, FiniteSets, FiniteSetsExt

CONSTANTS Arrays,       \* level, numDisks, chunkSize, raid5type
          Addresses,    \* of random requests
          ReqSizes,
          MaxRequests

VARIABLE raid

blocksPerTrack == 100
numTracks == 100
blocksPerDisk == numTracks * blocksPerTrack
seekTime == 100
xferTime == 1

NewDisk == [currAddr |-> -10000, countIO |-> 0, countSeq |-> 0, countNseq |-> 0,
            countRand |-> 0, utilTime |-> 0]

(* The constructor refuses an odd number of mirrors. *)
Init ==
    \E a \in Arrays, size \in ReqSizes, sequential \in BOOLEAN :
        /\ a.level # 0 => a.numDisks >= 2
        /\ a.level = 1 => a.numDisks % 2 = 0
        /\ raid = [array      |-> a,
                   size       |-> size,
                   sequential |-> sequential,
                   off        |-> 0,
                   requests   |-> 0,
                   addr       |-> 0,        \* of the last request
                   isWrite    |-> FALSE,
                   ios        |-> <<>>,     \* what it did
                   disks      |-> [d \in 0 .. a.numDisks - 1 |-> NewDisk],
                   phase      |-> "run"]

-----------------------------------------------------------------------------
(* Where a block is: disk and offset. *)
cnum(a, b) == b \div a.chunkSize
Place(a, b, width, disk) ==
    [disk |-> disk, off |-> (cnum(a, b) \div width) * a.chunkSize + (b % a.chunkSize)]

bmap0(a, b) == Place(a, b, a.numDisks, cnum(a, b) % a.numDisks)

(* The first of the two disks. *)
bmap1(a, b) ==
    LET pairs == a.numDisks \div 2 IN Place(a, b, pairs, 2 * (cnum(a, b) % pairs))

bmap4(a, b) == Place(a, b, a.numDisks - 1, cnum(a, b) % (a.numDisks - 1))
pmap4(a, stripe) == a.numDisks - 1

blocksInStripe(a) == (a.numDisks - 1) * a.chunkSize

(* RAID 5, left-asymmetric (LA) or left-symmetric (LS). *)
pmap5(a, stripe) == (a.numDisks - 1) - (stripe % a.numDisks)
bmap5(a, b) ==
    LET stripe == b \div blocksInStripe(a)
        column == cnum(a, b) % (a.numDisks - 1)
    IN  Place(a, b, a.numDisks - 1,
              IF a.raid5type = "LS" THEN (column - stripe) % a.numDisks
              ELSE IF column >= pmap5(a, stripe) THEN column + 1 ELSE column)

bmap(a, b) == IF a.level = 4 THEN bmap4(a, b) ELSE bmap5(a, b)
pmap(a, stripe) == IF a.level = 4 THEN pmap4(a, stripe) ELSE pmap5(a, stripe)

-----------------------------------------------------------------------------
(* Physical operations, in the order in which they are issued. *)
Read(p) == [op |-> "read", disk |-> p.disk, off |-> p.off]
Write(p) == [op |-> "write", disk |-> p.disk, off |-> p.off]
For(n, m, Op(_)) == [k \in 1 .. m - n |-> Op(n + k - 1)]
ForEach(n, m, Ops(_)) == FlattenSeq(For(n, m, Ops))

enqueue0(a, addr, size, isWrite) ==
    For(addr, addr + size, LAMBDA b : IF isWrite THEN Write(bmap0(a, b)) ELSE Read(bmap0(a, b)))

enqueue1(a, addr, size, isWrite) ==
    LET Mirror(b) == [bmap1(a, b) EXCEPT !.disk = @ + 1]
        Of(b) == IF isWrite THEN <<Write(bmap1(a, b)), Write(Mirror(b))>>
                 ELSE <<Read(IF bmap1(a, b).off % 2 = 0 THEN bmap1(a, b) ELSE Mirror(b))>>
    IN  ForEach(addr, addr + size, Of)

(* Blocks begin .. end - 1 of one stripe: read the old blocks and their
   parity, or the rest of the stripe, whichever is less; then write. *)
doPartialWrite(a, stripe, begin, end) ==
    LET n == end - begin
        stripeBegin == stripe * blocksInStripe(a)
        stripeEnd == stripeBegin + blocksInStripe(a)
        Old(b) == Read(bmap(a, b))
        New(b) == Write(bmap(a, b))
        Offset(b) == bmap(a, b).off
        \* The offsets of the blocks, each where it occurs first.
        offList == FoldLeft(LAMBDA offs, o : IF o \in ToSet(offs) THEN offs ELSE Append(offs, o),
                            <<>>, For(begin, end, Offset))
        Parity(Op(_)) == [k \in DOMAIN offList |-> Op([disk |-> pmap(a, stripe), off |-> offList[k]])]
        subtractive == For(begin, end, Old) \o Parity(Read)
        additive == For(stripeBegin, begin, Old) \o For(end, stripeEnd, Old)
    IN  (IF n + 1 <= blocksInStripe(a) - n THEN subtractive ELSE additive)
            \o For(begin, end, New) \o Parity(Write)

enqueue45(a, addr, size, isWrite) ==
    LET width == blocksInStripe(a)
        first == addr \div width
        last == (addr + size - 1) \div width
        Part(stripe) ==
            doPartialWrite(a, stripe, IF stripe = first THEN addr ELSE stripe * width,
                           Min({(stripe + 1) * width, addr + size}))
    IN  IF isWrite THEN ForEach(first, last + 1, Part)
        ELSE For(addr, addr + size, LAMBDA b : Read(bmap(a, b)))

enqueue(a, addr, size, isWrite) ==
    CASE a.level = 0 -> enqueue0(a, addr, size, isWrite)
      [] a.level = 1 -> enqueue1(a, addr, size, isWrite)
      [] OTHER -> enqueue45(a, addr, size, isWrite)

-----------------------------------------------------------------------------
(* A disk takes an address: near the last one or after a seek. *)
DiskEnqueue(d, addr) ==
    LET diff == IF addr < d.currAddr THEN d.currAddr - addr ELSE addr - d.currAddr
        near == d.currAddr \div numTracks = addr \div numTracks \/ diff < blocksPerTrack
    IN  [currAddr  |-> addr,
         countIO   |-> d.countIO + 1,
         countSeq  |-> d.countSeq + (IF near /\ diff = 1 THEN 1 ELSE 0),
         countNseq |-> d.countNseq + (IF near /\ diff # 1 THEN 1 ELSE 0),
         countRand |-> d.countRand + (IF near THEN 0 ELSE 1),
         utilTime  |-> d.utilTime + (IF near THEN diff * xferTime ELSE seekTime + xferTime)]

(* An address past the end of the disk stops the program there. *)
Issue(r, io) ==
    IF r.phase = "assert" THEN r
    ELSE IF io.off >= blocksPerDisk THEN [r EXCEPT !.phase = "assert"]
    ELSE [r EXCEPT !.disks[io.disk] = DiskEnqueue(@, io.off), !.ios = Append(@, io)]

-----------------------------------------------------------------------------
Request ==
    /\ raid.phase = "run" /\ raid.requests < MaxRequests
    /\ \E addr \in (IF raid.sequential THEN {raid.off} ELSE Addresses), isWrite \in BOOLEAN :
         raid' = FoldLeft(Issue,
                          [raid EXCEPT !.requests = @ + 1,
                                       !.off = IF raid.sequential THEN @ + raid.size ELSE @,
                                       !.addr = addr, !.isWrite = isWrite, !.ios = <<>>],
                          enqueue(raid.array, addr, raid.size, isWrite))

(* After the last request the disks' times are compared: the slowest counts. *)
go ==
    /\ raid.phase = "run" /\ raid.requests = MaxRequests
    /\ raid' = [raid EXCEPT !.phase = "done"]

Stopped == raid.phase # "run" /\ UNCHANGED raid

Next == Request \/ go \/ Stopped

-----------------------------------------------------------------------------
Of(op) == {[disk |-> io.disk, off |-> io.off] : io \in {i \in ToSet(raid.ios) : i.op = op}}
Asked == raid.addr .. raid.addr + raid.size - 1
Data(b) == CASE raid.array.level = 0 -> bmap0(raid.array, b)
             [] raid.array.level = 1 -> bmap1(raid.array, b)
             [] OTHER -> bmap(raid.array, b)
Copies(b) == {Data(b)} \cup (IF raid.array.level = 1 THEN {[Data(b) EXCEPT !.disk = @ + 1]} ELSE {})

(* The blocks of the stripes of a request, and those that share a parity
   block. *)
Around ==
    IF raid.array.level \in {0, 1} THEN Asked
    ELSE UNION {LET s == b \div blocksInStripe(raid.array) IN
                s * blocksInStripe(raid.array) .. (s + 1) * blocksInStripe(raid.array) - 1 : b \in Asked}
Row(off) == {b \in Around : Data(b).off = off}

(* A request reads or writes each of its blocks, and writes no other. *)
RightBlocks ==
    IF raid.isWrite
    THEN /\ \A b \in Asked : Copies(b) \subseteq Of("write")
         /\ \A b \in Around \ Asked : Copies(b) \cap Of("write") = {}
    ELSE Of("write") = {} /\ \A b \in Asked : Cardinality(Copies(b) \cap Of("read")) = 1

(* What a write reads is enough to compute the parity it writes: the blocks
   that do not change, or the ones that do and the old parity.  The parity is
   on a disk of its own. *)
ParityKnown ==
    raid.isWrite /\ raid.array.level \in {4, 5} =>
        \A off \in {Data(b).off : b \in Asked} :
            LET others == (DOMAIN raid.disks) \ {Data(b).disk : b \in Row(off)}
                parity == {[disk |-> d, off |-> off] : d \in others}
                Old(blocks) == {Data(b) : b \in blocks}
            IN  /\ Cardinality(parity) = 1 /\ parity \subseteq Of("write")
                /\ \/ Old(Row(off) \ Asked) \subseteq Of("read")
                   \/ Old(Row(off) \cap Asked) \cup parity \subseteq Of("read")

(* A request that ends before the last whole chunks of the disks never runs
   off a disk, the stripe it reads for its parity included. *)
FitsDisks ==
    LET a == raid.array
        width == CASE a.level = 0 -> a.numDisks [] a.level = 1 -> a.numDisks \div 2
                   [] OTHER -> a.numDisks - 1
    IN  raid.addr + raid.size <= (blocksPerDisk \div a.chunkSize) * a.chunkSize * width =>
            raid.phase # "assert"

RaidSound ==
    /\ raid.requests > 0 /\ raid.phase # "assert" => RightBlocks /\ ParityKnown
    /\ FitsDisks
=============================================================================
