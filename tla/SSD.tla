-------------------------------- MODULE SSD --------------------------------
(***************************************************************************)
(* The flash-translation-layer simulator, ostep/homework/file-ssd/ssd.py:  *)
(* an ideal, a direct-mapped and a log-structured SSD behind one interface *)
(* of logical reads, writes and trims, and the garbage collector that the  *)
(* main loop runs after every command once enough blocks are in use.       *)
(*                                                                         *)
(* One command and the watermark test after it are one step.  The garbage  *)
(* collector is broken into one step per block it visits and one per live  *)
(* page it copies; no command runs meanwhile.  Counters of operations and  *)
(* estimated times are left out.                                           *)
(*                                                                         *)
(* A definition whose name ends in Faulty is a plausible mistake in the    *)
(* definition that follows it; no specification uses it.                   *)
(***************************************************************************)
EXTENDS Integers, FiniteSets

CONSTANTS Types,            \* of "direct", "log" and "ideal", those considered
          NumLogicalPages, NumBlocks, PagesPerBlock,
          HighWaterMark, LowWaterMark,
          Data,             \* what the host writes
          Blank             \* ' ', the data of a page that was not programmed

NumPages == NumBlocks * PagesPerBlock
Pages == 0 .. NumPages - 1
Blocks == 0 .. NumBlocks - 1
LogicalPages == 0 .. NumLogicalPages - 1

(* With direct mapping a logical page is the physical page of that number. *)
ASSUME SSDAssumption ==
    /\ Types \subseteq {"direct", "log", "ideal"}
    /\ NumLogicalPages \in Nat \ {0}
    /\ NumBlocks \in Nat \ {0}
    /\ PagesPerBlock \in Nat \ {0}
    /\ HighWaterMark \in Nat \ {0}
    /\ LowWaterMark \in Nat
    /\ Blank \notin Data
    /\ Types \subseteq {"log"} \/ NumLogicalPages <= NumPages

VARIABLES ssd_type,
          state,             \* per page: "invalid", "erased" or "valid"
          data,
          forward_map,       \* logical page -> physical page, or None
          reverse_map,       \* physical page -> logical page, or None
          current_block,     \* the block the log is written to ...
          current_page,      \* ... and its next page, or None
          gc_used_blocks,    \* the blocks opened and not erased since
          gc_current_block,  \* where the next collection starts
          gc_visited,        \* blocks the running collection is done with
          gc_todo,           \* live pages of its block still to be copied
          pc,                \* "host", "scan" or "copy"
          dropped            \* has a write of the collector failed?

ftl == <<state, data, forward_map, reverse_map, current_block, current_page,
         gc_used_blocks>>
gc == <<gc_current_block, gc_visited, gc_todo>>
vars == <<ssd_type, ftl, gc, pc, dropped>>

None == -1

First(b) == b * PagesPerBlock
PagesOf(b) == First(b) .. First(b) + PagesPerBlock - 1
BlockOf(p) == p \div PagesPerBlock

Init ==
    /\ ssd_type \in Types
    /\ state = [p \in Pages |-> "invalid"]
    /\ data = [p \in Pages |-> Blank]
    /\ forward_map = [l \in LogicalPages |-> None]
    /\ reverse_map = [p \in Pages |-> None]
    /\ current_block = 0
    /\ current_page = None
    /\ gc_used_blocks = {}
    /\ gc_current_block = 0
    /\ gc_visited = 0
    /\ gc_todo = {}
    /\ pc = "host"
    /\ dropped = FALSE

-----------------------------------------------------------------------------
(* The log.                                                                *)

FreeBlocks == {b \in Blocks : state[First(b)] # "valid"}

(* get_cursor tries the blocks from current_block on, wrapping around: the
   first free one, if there is any. *)
Distance(b) == (b - current_block) % NumBlocks
NextFreeBlockFaulty ==
    {b \in Blocks : \A o \in Blocks : Distance(b) <= Distance(o)}
NextFreeBlock ==
    {b \in FreeBlocks : \A o \in FreeBlocks : Distance(b) <= Distance(o)}

(* The page to program next; there is none on a full device. *)
Cursor ==
    IF current_page = None THEN {First(b) : b \in NextFreeBlock}
    ELSE {current_page}

DeviceFull == Cursor = {}

(* is_block_free erases a block that was never erased before it is opened. *)
ErasedOnOpen(b) ==
    IF current_page = None /\ state[First(b)] = "invalid" THEN PagesOf(b) ELSE {}

AdvancedFaulty(p) == p + 1
Advanced(p) == IF (p + 1) % PagesPerBlock = 0 THEN None ELSE p + 1

(* program at the cursor, then update both maps and the cursor. *)
Program(p, l, v) ==
    LET wiped == ErasedOnOpen(BlockOf(p)) IN
    /\ state' = [q \in Pages |-> IF q = p THEN "valid"
                                 ELSE IF q \in wiped THEN "erased"
                                 ELSE state[q]]
    /\ data' = [q \in Pages |-> IF q = p THEN v
                                ELSE IF q \in wiped THEN Blank
                                ELSE data[q]]
    /\ forward_map' = [forward_map EXCEPT ![l] = p]
    /\ reverse_map' = [reverse_map EXCEPT ![p] = l]
    /\ current_block' = BlockOf(p)
    /\ current_page' = Advanced(p)
    /\ gc_used_blocks' = gc_used_blocks \cup {BlockOf(p)}

(* write_logging on a device that is not full. *)
WriteLogging(l, v) == \E p \in Cursor : Program(p, l, v)

-----------------------------------------------------------------------------
(* Updates in place.                                                       *)

(* The valid pages of its block that write_direct programs back. *)
ReprogrammedFaulty(l) ==
    {q \in PagesOf(BlockOf(l)) : state[q] = "valid" /\ q > l}
Reprogrammed(l) == {q \in PagesOf(BlockOf(l)) : state[q] = "valid" /\ q # l}

MapInPlace(l) ==
    /\ forward_map' = [forward_map EXCEPT ![l] = l]
    /\ reverse_map' = [reverse_map EXCEPT ![l] = l]
    /\ UNCHANGED <<current_block, current_page>>

WriteDirect(l, v) ==
    LET wiped == PagesOf(BlockOf(l)) \ Reprogrammed(l) IN
    /\ state' = [q \in Pages |-> IF q = l THEN "valid"
                                 ELSE IF q \in wiped THEN "erased"
                                 ELSE state[q]]
    /\ data' = [q \in Pages |-> IF q = l THEN v
                                ELSE IF q \in wiped THEN Blank
                                ELSE data[q]]
    /\ gc_used_blocks' = gc_used_blocks \ {BlockOf(l)}
    /\ MapInPlace(l)

WriteIdeal(l, v) ==
    /\ state' = [state EXCEPT ![l] = "valid"]
    /\ data' = [data EXCEPT ![l] = v]
    /\ UNCHANGED gc_used_blocks
    /\ MapInPlace(l)

-----------------------------------------------------------------------------
(* Commands of the host, each followed by upkeep.                          *)

UpkeepFaulty ==
    /\ pc' = IF Cardinality(gc_used_blocks') > HighWaterMark
             THEN "scan" ELSE "host"
    /\ UNCHANGED <<ssd_type, gc, dropped>>
Upkeep ==
    /\ pc' = IF Cardinality(gc_used_blocks') >= HighWaterMark
             THEN "scan" ELSE "host"
    /\ UNCHANGED <<ssd_type, gc, dropped>>

Write(l, v) ==
    /\ pc = "host"
    /\ \/ ssd_type = "direct" /\ WriteDirect(l, v)
       \/ ssd_type = "ideal" /\ WriteIdeal(l, v)
       \/ ssd_type = "log" /\ WriteLogging(l, v)
    /\ Upkeep

Trim(l) ==
    /\ pc = "host"
    /\ forward_map[l] # None
    /\ forward_map' = [forward_map EXCEPT ![l] = None]
    /\ UNCHANGED <<state, data, reverse_map, current_block, current_page,
                   gc_used_blocks>>
    /\ Upkeep

(* A read, and any command refused: an address out of range, a trim of an
   uninitialized page, a write to a full device. *)
NoEffect ==
    /\ pc = "host"
    /\ UNCHANGED ftl
    /\ Upkeep

-----------------------------------------------------------------------------
(* garbage_collect.                                                        *)

(* The block the loop is at: from gc_current_block on, wrapping around. *)
Victim == (gc_current_block + gc_visited) % NumBlocks

LivePagesFaulty(b) ==
    {p \in PagesOf(b) : /\ p < First(b) + PagesPerBlock - 1
                        /\ reverse_map[p] # None
                        /\ forward_map[reverse_map[p]] = p}
LivePages(b) ==
    {p \in PagesOf(b) : /\ reverse_map[p] # None
                        /\ forward_map[reverse_map[p]] = p}

PassedOverFaulty(b) ==
    \/ state[First(b)] = "erased"
    \/ LivePages(b) = PagesOf(b)
PassedOver(b) ==
    \/ b = current_block
    \/ state[First(b)] = "erased"
    \/ LivePages(b) = PagesOf(b)

(* The loop goes on with the next block, or returns after the last one. *)
NextVictim ==
    IF gc_visited + 1 < NumBlocks
    THEN gc_visited' = gc_visited + 1 /\ pc' = "scan"
    ELSE gc_visited' = 0 /\ pc' = "host"

GCSkip ==
    /\ pc = "scan"
    /\ PassedOver(Victim)
    /\ NextVictim
    /\ UNCHANGED <<ssd_type, ftl, gc_current_block, gc_todo, dropped>>

GCCollect ==
    /\ pc = "scan"
    /\ ~PassedOver(Victim)
    /\ gc_todo' = LivePages(Victim)
    /\ pc' = "copy"
    /\ UNCHANGED <<ssd_type, ftl, gc_current_block, gc_visited, dropped>>

(* The live pages are copied in ascending order. *)
IsNextLivePage(p) == \A q \in gc_todo : p <= q

GCCopy ==
    /\ pc = "copy"
    /\ \E p \in gc_todo :
         /\ IsNextLivePage(p)
         /\ WriteLogging(reverse_map[p], data[p])
         /\ gc_todo' = gc_todo \ {p}
    /\ UNCHANGED <<ssd_type, gc_current_block, gc_visited, pc, dropped>>

(* write answers 'failure: device full', which the collector does not look
   at. *)
GCDrop ==
    /\ pc = "copy"
    /\ DeviceFull
    /\ \E p \in gc_todo : IsNextLivePage(p) /\ gc_todo' = gc_todo \ {p}
    /\ dropped' = TRUE
    /\ UNCHANGED <<ssd_type, ftl, gc_current_block, gc_visited, pc>>

GCErase ==
    /\ pc = "copy"
    /\ gc_todo = {}
    /\ state' = [p \in Pages |-> IF p \in PagesOf(Victim) THEN "erased" ELSE state[p]]
    /\ data' = [p \in Pages |-> IF p \in PagesOf(Victim) THEN Blank ELSE data[p]]
    /\ gc_used_blocks' = gc_used_blocks \ {Victim}
    /\ IF Cardinality(gc_used_blocks') <= LowWaterMark
       THEN gc_current_block' = Victim /\ gc_visited' = 0 /\ pc' = "host"
       ELSE NextVictim /\ UNCHANGED gc_current_block
    /\ UNCHANGED <<ssd_type, forward_map, reverse_map, current_block,
                   current_page, gc_todo, dropped>>

Next ==
    \/ \E l \in LogicalPages : Trim(l) \/ \E v \in Data : Write(l, v)
    \/ NoEffect
    \/ GCSkip
    \/ GCCollect
    \/ GCCopy
    \/ GCDrop
    \/ GCErase

Spec == Init /\ [][Next]_vars

-----------------------------------------------------------------------------
TypeOK ==
    /\ ssd_type \in Types
    /\ state \in [Pages -> {"invalid", "erased", "valid"}]
    /\ data \in [Pages -> Data \cup {Blank}]
    /\ forward_map \in [LogicalPages -> Pages \cup {None}]
    /\ reverse_map \in [Pages -> LogicalPages \cup {None}]
    /\ current_block \in Blocks
    /\ current_page \in Pages \cup {None}
    /\ gc_used_blocks \subseteq Blocks
    /\ gc_current_block \in Blocks
    /\ gc_visited \in Blocks
    /\ gc_todo \subseteq Pages
    /\ pc \in {"host", "scan", "copy"}
    /\ dropped \in BOOLEAN

(* A mapped logical page is stored in a programmed flash page that is mapped
   back to it, so no two logical pages share one: commands, collections and
   erases never leave a mapping to a page that was wiped.  ssd.py:261 says
   live pages "should be copied to current writing location". *)
MappedPagesHoldData ==
    \A l \in LogicalPages : forward_map[l] # None =>
        /\ state[forward_map[l]] = "valid"
        /\ reverse_map[forward_map[l]] = l

(* A mapped page is only ever lost by a copy of the collector that the full
   device refused (the answer of write at ssd.py:268 is ignored). *)
LossOnlyByDrop == ~dropped => MappedPagesHoldData

(* The assert of write_logging: the page the cursor would program next is
   erased, or its block is about to be.  Flash cannot be programmed twice. *)
ProgramsErasedPages ==
    ssd_type = "log" => \A p \in Cursor :
        state[p] = "erased" \/ p \in ErasedOnOpen(BlockOf(p))

(* Garbage collection keeps up: with one block of spare space the log takes
   every write the host issues.  A copy of the collector that it refused would
   show in MappedPagesHoldData. *)
NeverFull == ssd_type = "log" /\ pc = "host" => ~DeviceFull

(* What the host reads from each logical page. *)
HostView ==
    [l \in LogicalPages |->
        IF forward_map[l] = None THEN None ELSE data[forward_map[l]]]

(* All three translation layers, garbage collection included, implement the
   logical disk: no command and no collection changes what the host reads,
   except the write and the trim of that page.  The device fails when the
   collector drops a page. *)
Disk == INSTANCE LogicalDisk WITH
    Uninit <- None, Lost <- Blank, failed <- dropped, disk <- HostView

ImplementsDisk == Disk!Spec
=============================================================================
