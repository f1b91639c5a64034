----------------------------- MODULE MultiLevel -----------------------------
(***************************************************************************)
(* The two-level page tables of ostep/homework/vm-smalltables/             *)
(* paging-multilevel-translate.py.  The page directory, the pages of the   *)
(* page table and the data are pages of one physical memory, taken at      *)
(* random from those not in use.                                           *)
(*                                                                         *)
(* The sizes are parameters: a page has PageSize bytes, as many entries as *)
(* it has bytes, and the directory points to as many pages of entries.     *)
(* The valid bit is worth physPages, the unset entry is one less (0x7f of  *)
(* 128 pages).                                                             *)
(***************************************************************************)
EXTENDS Integers, Sequences, FiniteSets

CONSTANTS PageSize,
          Memories,     \* [physPages, allocated]
          DataByte      \* what fillPage writes

VARIABLE os

vaPages == PageSize * PageSize
Bytes(page) == page * PageSize .. (page + 1) * PageSize - 1

Init ==
    \E m \in Memories :
        os = [physPages |-> m.physPages,
              toDo      |-> m.allocated,
              usedPages |-> {},
              memory    |-> [a \in 0 .. m.physPages * PageSize - 1 |-> 0],
              pdbr      |-> -1,
              mapped    |-> [vp \in {} |-> 0],  \* what was asked for
              phase     |-> "start"]            \* or "alloc", "assert"

-----------------------------------------------------------------------------
FreePages(s) == 0 .. s.physPages - 1 \ s.usedPages
Take(s, page) == [s EXCEPT !.usedPages = @ \cup {page}]
initPageDir(s, page) ==
    [s EXCEPT !.memory = [a \in DOMAIN @ |-> IF a \in Bytes(page) THEN s.physPages - 1 ELSE @[a]]]
fillPage(s, page) ==
    [s EXCEPT !.memory = [a \in DOMAIN @ |-> IF a \in Bytes(page) THEN DataByte ELSE @[a]]]

(* The addresses of the entries for a virtual page, and what an entry says. *)
pdeAddr(s, vp) == s.pdbr * PageSize + (vp \div PageSize)
pteAddr(page, vp) == page * PageSize + (vp % PageSize)
IsValid(s, addr) == s.memory[addr] >= s.physPages
Pointer(s, addr) == s.memory[addr] % s.physPages
SetEntry(s, addr, page) == [s EXCEPT !.memory[addr] = s.physPages + page]

Failed(s) == [s EXCEPT !.phase = "assert"]

(* allocVirtualPage, once there is a page for the entry. *)
Enter(s, vp, ptePage, pp) ==
    IF IsValid(s, pteAddr(ptePage, vp)) \/ Pointer(s, pteAddr(ptePage, vp)) # s.physPages - 1 THEN Failed(s)
    ELSE SetEntry(s, pteAddr(ptePage, vp), pp)

allocVirtualPage(s, vp, pp) ==
    LET pde == pdeAddr(s, vp) IN
    IF IsValid(s, pde) THEN {Enter(s, vp, Pointer(s, pde), pp)}
    ELSE IF Pointer(s, pde) # s.physPages - 1 \/ FreePages(s) = {} THEN {Failed(s)}
    ELSE {Enter(initPageDir(SetEntry(Take(s, page), pde, page), page), vp, page, pp) : page \in FreePages(s)}

(* procAlloc: the directory, then one virtual page after the other. *)
AllocDirectory(page) ==
    /\ os.phase = "start"
    /\ os' = [initPageDir(Take(os, page), page) EXCEPT !.pdbr = page, !.phase = "alloc"]

AllocPage(vp) ==
    /\ os.phase = "alloc"
    /\ os.toDo > 0
    /\ vp \notin DOMAIN os.mapped
    /\ \/ FreePages(os) = {} /\ os' = Failed(os)
       \/ \E pp \in FreePages(os) : \E s \in allocVirtualPage(Take(os, pp), vp, pp) :
            os' = IF s.phase = "assert" THEN s
                  ELSE [fillPage(s, pp) EXCEPT
                          !.toDo = @ - 1,
                          !.mapped = [v \in (DOMAIN @) \cup {vp} |-> IF v = vp THEN pp ELSE @[v]]]

(* -1 is a fault of the directory, -2 one of the page table. *)
translate(s, vaddr) ==
    LET vp == vaddr \div PageSize
        pde == pdeAddr(s, vp)
        pte == pteAddr(Pointer(s, pde), vp)
    IN  IF ~IsValid(s, pde) THEN -1
        ELSE IF ~IsValid(s, pte) THEN -2
        ELSE Pointer(s, pte) * PageSize + (vaddr % PageSize)

(* Translations change nothing. *)
Allocated == os.phase = "alloc" /\ os.toDo = 0
Ended == (Allocated \/ os.phase = "assert") /\ UNCHANGED os

Next ==
    \/ \E page \in FreePages(os) : AllocDirectory(page)
    \/ \E vp \in 0 .. vaPages - 1 : AllocPage(vp)
    \/ Ended

-----------------------------------------------------------------------------
(* Tables and data are interleaved in one memory and none damages another: an
   address translates into the page it was given, with its data, and faults at
   the level where nothing was allocated. *)
TablesIntact ==
    os.phase = "alloc" =>
        \A vaddr \in 0 .. vaPages * PageSize - 1 :
            LET vp == vaddr \div PageSize
                near == {v \in DOMAIN os.mapped : v \div PageSize = vp \div PageSize}
                paddr == translate(os, vaddr)
            IN  IF vp \in DOMAIN os.mapped
                THEN paddr = os.mapped[vp] * PageSize + (vaddr % PageSize) /\ os.memory[paddr] = DataByte
                ELSE paddr = IF near = {} THEN -1 ELSE -2

(* The only assertion that can fail is the one about free pages. *)
FailsOnlyWhenFull == os.phase = "assert" => FreePages(os) = {}

TranslatesSafely == TablesIntact /\ FailsOnlyWhenFull
=============================================================================
