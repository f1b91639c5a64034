----------------------------- MODULE Translation -----------------------------
(***************************************************************************)
(* Three address translators: base and bounds (ostep/homework/             *)
(* vm-mechanism/relocation.py), two segments that grow towards each other  *)
(* (vm-segmentation/segmentation.py) and a linear page table (vm-paging/   *)
(* paging-linear-translate.py).  Each sets its registers or its table up,  *)
(* by options or at random, and then translates virtual addresses.         *)
(*                                                                         *)
(* Sizes are numbers (convert is left out), and those of the page table    *)
(* powers of two, as the program asks.  A register that is -1 is chosen at *)
(* random.                                                                 *)
(***************************************************************************)
EXTENDS Integers, Sequences, FiniteSets

CONSTANTS Relocations,      \* prog, asize, psize, limit, base
          Segmentations,    \* prog, asize, psize, len0, len1, base0, base1
          Pagings           \* prog, asize, psize, pagesize

VARIABLE mmu

Random == -1
NoPage == -1
Invalid == -1000        \* instead of an address, which can be below 0

Init ==
    \E o \in Relocations \cup Segmentations \cup Pagings :
        mmu = [opt |-> o, phase |-> "start", reg |-> <<>>, answer |-> Invalid]

Goes(phase, reg) == mmu' = [mmu EXCEPT !.phase = phase, !.reg = reg]
Opt == mmu.opt

-----------------------------------------------------------------------------
(* A random length is a quarter to a half of the address space. *)
Lengths(given) == IF given = Random THEN Opt.asize \div 4 .. (Opt.asize - 1) \div 2 ELSE {given}

(* relocation.py.  The search for a base has no end when the limit leaves no
   room. *)
Bases(limit) ==
    IF Opt.base = Random THEN {b \in 0 .. Opt.psize - 1 : b + limit < Opt.psize} ELSE {Opt.base}

SetUpRelocation ==
    /\ mmu.phase = "start" /\ Opt.prog = "relocation"
    /\ IF Opt.psize <= 1 \/ Opt.asize = 0 \/ Opt.psize <= Opt.asize THEN Goes("error", <<>>)
       ELSE \E limit \in Lengths(Opt.limit) :
              \/ Bases(limit) = {} /\ Goes("searching", <<>>)
              \/ \E base \in Bases(limit) :
                   Goes(IF base + limit > Opt.psize THEN "error" ELSE "ready", <<base, limit>>)

Relocated(vaddr) == IF vaddr >= mmu.reg[2] THEN Invalid ELSE vaddr + mmu.reg[1]

-----------------------------------------------------------------------------
(* segmentation.py.  The base of segment 1 is its upper end for the user, its
   lower end inside. *)
Bases0(len0) ==
    IF Opt.base0 = Random THEN {b \in 0 .. Opt.psize - 1 : b + len0 < Opt.psize} ELSE {Opt.base0}
Bases1(len0, base0, len1) ==
    IF Opt.base1 # Random THEN {Opt.base1 - len1}
    ELSE {b \in 0 .. Opt.psize - 1 : b + len1 < Opt.psize /\ (b > base0 + len0 \/ b + len1 < base0)}

Refused ==
    \/ Opt.psize <= 4 \/ Opt.asize = 0 \/ Opt.psize <= Opt.asize
    \/ (Opt.base0 = Random \/ Opt.base1 = Random) /\ Opt.psize <= 2 * Opt.asize
RefusedRegisters(base0, len0, base1, len1) ==
    \/ Opt.psize < base0 + len0 - 1 \/ Opt.psize < base1
    \/ 2 * len0 > Opt.asize \/ 2 * len1 > Opt.asize
    \/ len0 + base0 > base1 /\ base1 > base0

SetUpSegmentation ==
    /\ mmu.phase = "start" /\ Opt.prog = "segmentation"
    /\ IF Refused THEN Goes("error", <<>>)
       ELSE \E len0 \in Lengths(Opt.len0), len1 \in Lengths(Opt.len1) :
              \/ Bases0(len0) = {} /\ Goes("searching", <<>>)
              \/ \E base0 \in Bases0(len0) :
                   \/ Bases1(len0, base0, len1) = {} /\ Goes("searching", <<>>)
                   \/ \E base1 \in Bases1(len0, base0, len1) :
                        Goes(IF RefusedRegisters(base0, len0, base1, len1) THEN "error" ELSE "ready",
                             <<base0, len0, base1, len1>>)

Segmented(vaddr) ==
    LET base0 == mmu.reg[1]
        len0 == mmu.reg[2]
        base1 == mmu.reg[3]
        below == base1 + mmu.reg[4] + (vaddr - Opt.asize)
    IN  IF 2 * vaddr >= Opt.asize
        THEN IF below < base1 THEN Invalid ELSE below
        ELSE IF vaddr >= len0 THEN Invalid ELSE vaddr + base0

-----------------------------------------------------------------------------
(* paging-linear-translate.py.  The page table gets one entry after the other. *)
pages == Opt.psize \div Opt.pagesize
vpages == Opt.asize \div Opt.pagesize
UsedPages(pt) == {pt[v] : v \in DOMAIN pt}

StartPaging ==
    /\ mmu.phase = "start" /\ Opt.prog = "paging"
    /\ Goes(IF Opt.psize <= Opt.asize THEN "error" ELSE "table", <<>>)
AddEntry(u) ==
    /\ mmu.phase = "table"
    /\ u = NoPage \/ u \notin UsedPages(mmu.reg)
    /\ Goes(IF Len(mmu.reg) + 1 = vpages THEN "ready" ELSE "table", Append(mmu.reg, u))

Paged(vaddr) ==
    LET pfn == mmu.reg[(vaddr \div Opt.pagesize) + 1]
    IN  IF pfn = NoPage THEN Invalid ELSE pfn * Opt.pagesize + (vaddr % Opt.pagesize)

-----------------------------------------------------------------------------
Answer(vaddr) ==
    CASE Opt.prog = "relocation" -> Relocated(vaddr)
      [] Opt.prog = "segmentation" -> Segmented(vaddr)
      [] Opt.prog = "paging" -> Paged(vaddr)

(* An address outside the address space ends the programs that let the user
   choose it: with a message, or with an IndexError of the page table. *)
Access(vaddr) ==
    /\ mmu.phase = "ready"
    /\ mmu' = IF vaddr < Opt.asize THEN [mmu EXCEPT !.answer = Answer(vaddr)]
              ELSE [mmu EXCEPT !.phase = "error"]

Ended == mmu.phase \in {"error", "searching"} /\ UNCHANGED mmu

Next ==
    \/ SetUpRelocation \/ SetUpSegmentation \/ StartPaging
    \/ \E u \in (IF mmu.phase = "table" THEN 0 .. pages - 1 \cup {NoPage} ELSE {}) : AddEntry(u)
    \/ \E vaddr \in 0 .. (IF Opt.prog = "relocation" THEN Opt.asize - 1 ELSE Opt.asize) : Access(vaddr)
    \/ Ended

-----------------------------------------------------------------------------
Valid == {v \in 0 .. Opt.asize - 1 : Answer(v) # Invalid}
InMemory == \A v \in Valid : Answer(v) \in 0 .. Opt.psize - 1
Apart == \A v, w \in Valid : v # w => Answer(v) # Answer(w)

(* Base and bounds, and pages: every valid address has a place of its own in
   physical memory, and pages keep offsets.

   Segments chosen at random are in memory and apart.  Of segments that are
   given, the tests miss an end of the memory, and an overlap when segment 1
   does not begin above segment 0.  Always as many addresses are valid as the
   lengths say. *)
TranslatesSafely ==
    mmu.phase = "ready" =>
        CASE Opt.prog = "relocation" -> InMemory /\ Apart
          [] Opt.prog = "paging" ->
               /\ InMemory /\ Apart
               /\ \A v \in Valid : Answer(v) % Opt.pagesize = v % Opt.pagesize
          [] Opt.prog = "segmentation" ->
               /\ Opt.base1 = Random => Apart /\ (Opt.base0 = Random => InMemory)
               /\ mmu.reg[3] > mmu.reg[1] => Apart
               /\ Cardinality(Valid) = mmu.reg[2] + mmu.reg[4]
=============================================================================
