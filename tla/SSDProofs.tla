----------------------------- MODULE SSDProofs -----------------------------
(***************************************************************************)
(* The SSD simulator for every number of blocks, pages and logical pages   *)
(* and every setting of the watermarks: flash is programmed only after an  *)
(* erase, and only a dropped copy of the collector loses a mapped page.    *)
(* With one block of spare space no copy is dropped and the log is never   *)
(* full (SpareInv).                                                        *)
(*                                                                         *)
(* The inductive invariant says how the log fills the blocks (LogShape),   *)
(* that a page never erased was never programmed (NeverProgrammed), that   *)
(* the other two layers write in place and never collect (InPlace), and    *)
(* what a collection may rely on until it erases its victim (Collecting).  *)
(***************************************************************************)
EXTENDS SSD, FiniteSetTheorems, TLAPS

(* Blocks are written from the first page on; only the current block can be
   partly written. *)
LogShape ==
    ssd_type = "log" =>
        /\ current_page # None =>
             current_page \in PagesOf(current_block) \ {First(current_block)}
        /\ \A b \in Blocks : \A p \in PagesOf(b) :
             state[p] = IF current_page # None /\ b = current_block
                        THEN IF p < current_page THEN "valid" ELSE "erased"
                        ELSE state[First(b)]

NeverProgrammed ==
    ssd_type = "log" =>
        \A p \in Pages : state[p] = "invalid" => reverse_map[p] = None

InPlace ==
    ssd_type # "log" =>
        /\ pc = "host"
        /\ gc_used_blocks = {}
        /\ dropped = FALSE
        /\ \A l \in LogicalPages : forward_map[l] \in {None, l}

(* While a collection copies, its victim is not written to, and as long as
   nothing was dropped the mapped pages still in it are the ones to copy. *)
Collecting ==
    pc = "copy" =>
        /\ Victim # current_block
        /\ gc_todo \subseteq PagesOf(Victim)
        /\ \A p \in gc_todo : /\ reverse_map[p] # None
                              /\ forward_map[reverse_map[p]] = p
        /\ gc_todo # {} => state[First(Victim)] = "valid"
        /\ ~dropped => \A l \in LogicalPages :
             forward_map[l] \in PagesOf(Victim) => forward_map[l] \in gc_todo

IInv ==
    /\ TypeOK
    /\ LogShape
    /\ NeverProgrammed
    /\ InPlace
    /\ Collecting
    /\ LossOnlyByDrop

-----------------------------------------------------------------------------

(* Division of a page number into block and offset. *)
LEMMA DivMod ==
    ASSUME NEW P \in Nat \ {0}, NEW b \in Nat, NEW r \in 0 .. P - 1
    PROVE  (b * P + r) \div P = b /\ (b * P + r) % P = r
<1> DEFINE n == b * P + r
           d == n \div P
           m == n % P
<1>1. n \in Nat
  OBVIOUS
<1>2. d \in Int /\ m \in 0 .. P - 1 /\ n = P * d + m
  BY <1>1
<1> HIDE DEF d, m
<1>3. P * (b - d) = m - r
  BY <1>2
<1>4. CASE b - d >= 1
  <2>1. P * (b - d) >= P
    BY <1>2, <1>4
  <2>2. QED
    BY <1>2, <1>3, <2>1
<1>5. CASE b - d <= -1
  <2>1. P * (b - d) <= -P
    BY <1>2, <1>5
  <2>2. QED
    BY <1>2, <1>3, <2>1
<1>6. CASE b = d
  <2>1. m = r
    BY <1>2, <1>6
  <2>2. QED
    BY <1>6, <2>1 DEF d, m
<1>7. QED
  BY <1>2, <1>4, <1>5, <1>6

LEMMA PageNumbers ==
    /\ NumPages \in Nat
    /\ \A b \in Blocks : First(b) \in Nat /\ First(b) \in Pages
    /\ \A b \in Blocks : PagesOf(b) \subseteq Pages /\ First(b) \in PagesOf(b)
    /\ \A b \in Blocks : \A p \in PagesOf(b) : BlockOf(p) = b
    /\ \A p \in Pages : BlockOf(p) \in Blocks /\ p \in PagesOf(BlockOf(p))
<1> USE SSDAssumption
<1>1. NumPages \in Nat
  BY DEF NumPages
<1>2. ASSUME NEW b \in Blocks
      PROVE  First(b) \in Nat /\ First(b) + PagesPerBlock <= NumPages
  <2> DEFINE k == NumBlocks - (b + 1)
  <2>1. b \in Nat /\ k \in Nat /\ NumBlocks = b + 1 + k
    BY DEF Blocks
  <2>2. NumPages = b * PagesPerBlock + PagesPerBlock + k * PagesPerBlock
    BY <2>1 DEF NumPages
  <2>3. b * PagesPerBlock \in Nat /\ k * PagesPerBlock \in Nat
    BY <2>1
  <2>4. QED
    BY <2>2, <2>3 DEF First
<1>3. \A b \in Blocks : PagesOf(b) \subseteq Pages /\ First(b) \in PagesOf(b)
                        /\ First(b) \in Pages
  BY <1>1, <1>2 DEF PagesOf, Pages
<1>4. ASSUME NEW b \in Blocks, NEW p \in PagesOf(b)
      PROVE  BlockOf(p) = b
  <2> DEFINE r == p - First(b)
  <2>1. r \in 0 .. PagesPerBlock - 1 /\ p = b * PagesPerBlock + r /\ b \in Nat
    BY <1>2 DEF PagesOf, First, Blocks
  <2> HIDE DEF r
  <2>2. QED
    BY <2>1, DivMod DEF BlockOf
<1>5. ASSUME NEW p \in Pages
      PROVE  BlockOf(p) \in Blocks /\ p \in PagesOf(BlockOf(p))
  <2> DEFINE d == p \div PagesPerBlock
             m == p % PagesPerBlock
  <2>1. d \in Nat /\ m \in 0 .. PagesPerBlock - 1 /\ p = PagesPerBlock * d + m
    BY <1>1 DEF Pages
  <2> HIDE DEF d, m
  <2>2. p < NumBlocks * PagesPerBlock
    BY <1>1 DEF Pages, NumPages
  <2>3. d < NumBlocks
    <3>1. CASE d >= NumBlocks
      <4>1. PagesPerBlock * d >= NumBlocks * PagesPerBlock
        BY <2>1, <3>1
      <4>2. QED
        BY <2>1, <2>2, <4>1 DEF Pages
    <3>2. QED
      BY <2>1, <3>1
  <2>4. BlockOf(p) = d
    BY DEF BlockOf, d
  <2>5. QED
    BY <2>1, <2>3, <2>4 DEF Blocks, PagesOf, First
<1>6. QED
  BY <1>1, <1>2, <1>3, <1>4, <1>5

(* update_cursor stays within the block. *)
LEMMA AdvancedInBlock ==
    ASSUME NEW b \in Blocks, NEW p \in PagesOf(b)
    PROVE  \/ Advanced(p) = None /\ p = First(b) + PagesPerBlock - 1
           \/ Advanced(p) = p + 1 /\ p + 1 \in PagesOf(b)
<1> USE SSDAssumption
<1> DEFINE r == p - First(b)
<1>1. r \in 0 .. PagesPerBlock - 1 /\ p = b * PagesPerBlock + r /\ b \in Nat
  BY PageNumbers DEF PagesOf, First, Blocks
<1> HIDE DEF r
<1>2. CASE r = PagesPerBlock - 1
  <2>1. p + 1 = (b + 1) * PagesPerBlock + 0
    BY <1>1, <1>2
  <2>2. b + 1 \in Nat /\ 0 \in 0 .. PagesPerBlock - 1
    BY <1>1
  <2> DEFINE c == b + 1
  <2> HIDE DEF c
  <2>3. (c * PagesPerBlock + 0) % PagesPerBlock = 0
    BY <2>2, DivMod DEF c
  <2>4. (p + 1) % PagesPerBlock = 0
    BY <2>1, <2>3 DEF c
  <2>5. QED
    BY <1>1, <1>2, <2>4 DEF Advanced, First
<1>3. CASE r + 1 \in 0 .. PagesPerBlock - 1
  <2> DEFINE o == r + 1
  <2>1. o \in 0 .. PagesPerBlock - 1 /\ p + 1 = b * PagesPerBlock + o /\ o # 0
    BY <1>1, <1>3
  <2> HIDE DEF o
  <2>2. (b * PagesPerBlock + o) % PagesPerBlock = o
    BY <1>1, <2>1, DivMod
  <2>3. QED
    BY <1>1, <2>1, <2>2 DEF Advanced, PagesOf, First
<1>4. QED
  BY <1>1, <1>2, <1>3

LEMMA VictimType ==
    ASSUME gc_current_block \in Blocks, gc_visited \in Blocks
    PROVE  Victim \in Blocks
BY SSDAssumption DEF Victim, Blocks

(* Where the log is written next: at an erased page of the current block, or
   at the first page of a block with nothing in it. *)
LEMMA CursorFacts ==
    ASSUME IInv, ssd_type = "log", NEW p \in Cursor
    PROVE  /\ p \in Pages
           /\ BlockOf(p) \in Blocks
           /\ p \in PagesOf(BlockOf(p))
           /\ state[p] # "valid"
           /\ \/ /\ current_page # None
                 /\ p = current_page
                 /\ BlockOf(p) = current_block
                 /\ state[p] = "erased"
              \/ /\ current_page = None
                 /\ p = First(BlockOf(p))
<1>1. CASE current_page # None
  <2>1. p = current_page /\ current_page \in PagesOf(current_block)
    BY <1>1 DEF Cursor, IInv, LogShape
  <2>2. current_block \in Blocks /\ current_page \in Pages
    BY <1>1 DEF IInv, TypeOK
  <2>3. BlockOf(p) = current_block
    BY <2>1, <2>2, PageNumbers
  <2>4. state[p] = "erased"
    BY <1>1, <2>1, <2>2 DEF IInv, LogShape, None, PagesOf
  <2>5. QED
    BY <1>1, <2>1, <2>2, <2>3, <2>4
<1>2. CASE current_page = None
  <2>1. PICK b \in FreeBlocks : p = First(b)
    BY <1>2 DEF Cursor, NextFreeBlock
  <2>2. b \in Blocks /\ state[First(b)] # "valid"
    BY <2>1 DEF FreeBlocks
  <2>3. BlockOf(p) = b /\ p \in PagesOf(b) /\ p \in Pages
    BY <2>1, <2>2, PageNumbers
  <2>4. QED
    BY <1>2, <2>1, <2>2, <2>3
<1>3. QED
  BY <1>1, <1>2

(* Programming a page at the cursor. *)
LEMMA ProgramStep ==
    ASSUME IInv, ssd_type = "log", UNCHANGED ssd_type,
           NEW p \in Cursor, NEW l \in LogicalPages, NEW v \in Data \cup {Blank},
           Program(p, l, v)
    PROVE  /\ state' \in [Pages -> {"invalid", "erased", "valid"}]
           /\ data' \in [Pages -> Data \cup {Blank}]
           /\ forward_map' \in [LogicalPages -> Pages \cup {None}]
           /\ reverse_map' \in [Pages -> LogicalPages \cup {None}]
           /\ current_block' \in Blocks
           /\ current_page' \in Pages \cup {None}
           /\ gc_used_blocks' \subseteq Blocks
           /\ LogShape'
           /\ NeverProgrammed'
           /\ MappedPagesHoldData => MappedPagesHoldData'
<1> DEFINE b == BlockOf(p)
<1>1. /\ p \in Pages /\ b \in Blocks /\ p \in PagesOf(b) /\ state[p] # "valid"
      /\ \/ current_page # None /\ p = current_page /\ b = current_block
         \/ current_page = None /\ p = First(b)
  BY CursorFacts
<1> HIDE DEF b
<1>2. \/ Advanced(p) = None /\ p = First(b) + PagesPerBlock - 1
      \/ Advanced(p) = p + 1 /\ p + 1 \in PagesOf(b)
  BY <1>1, AdvancedInBlock
<1>3. PagesOf(b) \subseteq Pages
  BY <1>1, PageNumbers
<1>4. /\ state' \in [Pages -> {"invalid", "erased", "valid"}]
      /\ data' \in [Pages -> Data \cup {Blank}]
      /\ forward_map' \in [LogicalPages -> Pages \cup {None}]
      /\ reverse_map' \in [Pages -> LogicalPages \cup {None}]
      /\ current_block' = b
      /\ current_page' = Advanced(p)
      /\ gc_used_blocks' \subseteq Blocks
  BY <1>1 DEF Program, IInv, TypeOK, b
<1>5. current_page' \in Pages \cup {None}
  BY <1>2, <1>3, <1>4
<1>6. state'[p] = "valid"
  BY <1>1 DEF Program
<1>7. ASSUME NEW q \in Pages, q # p
      PROVE  IF q \in ErasedOnOpen(b) THEN state'[q] = "erased"
             ELSE state'[q] = state[q]
  BY <1>7 DEF Program, b
<1>8. \A q \in PagesOf(b) : q # p =>
        state'[q] = IF current_page # None /\ q < p THEN "valid" ELSE "erased"
  <2> SUFFICES ASSUME NEW q \in PagesOf(b), q # p
               PROVE  state'[q] = IF current_page # None /\ q < p
                                  THEN "valid" ELSE "erased"
    OBVIOUS
  <2>1. CASE current_page # None
    <3>1. ErasedOnOpen(b) = {}
      BY <2>1 DEF ErasedOnOpen
    <3>2. state'[q] = state[q]
      BY <1>3, <1>7, <3>1
    <3>3. QED
      BY <1>1, <2>1, <3>2 DEF IInv, LogShape
  <2>2. CASE current_page = None
    <3>1. state[q] = state[First(b)] /\ state[First(b)] # "valid"
      BY <1>1, <2>2 DEF IInv, LogShape
    <3>2. CASE state[First(b)] = "invalid"
      BY <1>3, <1>7, <2>2, <3>2 DEF ErasedOnOpen
    <3>3. CASE state[First(b)] = "erased"
      <4>1. ErasedOnOpen(b) = {}
        BY <3>3 DEF ErasedOnOpen
      <4>2. QED
        BY <1>3, <1>7, <2>2, <3>1, <3>3, <4>1
    <3>4. First(b) \in Pages
      BY <1>1, PageNumbers
    <3>5. QED
      BY <3>1, <3>2, <3>3, <3>4 DEF IInv, TypeOK
  <2>3. QED
    BY <2>1, <2>2
<1>9. ASSUME NEW c \in Blocks, c # b, NEW q \in PagesOf(c)
      PROVE  state'[q] = state[q] /\ q \in Pages /\ q # p
  <2>1. q \in Pages /\ BlockOf(q) = c
    BY <1>9, PageNumbers
  <2>2. q \notin PagesOf(b)
    BY <1>1, <1>9, <2>1, PageNumbers
  <2>3. q # p /\ q \notin ErasedOnOpen(b)
    BY <1>1, <2>2 DEF ErasedOnOpen
  <2>4. QED
    BY <1>7, <2>1, <2>3
<1>10. LogShape'
  <2>1. ASSUME current_page' # None
        PROVE  current_page' \in PagesOf(current_block') \ {First(current_block')}
    <3>1. current_page' = p + 1 /\ p + 1 \in PagesOf(b)
      BY <1>2, <1>4, <2>1
    <3>2. First(b) \in Nat /\ p >= First(b) /\ p \in Nat
      BY <1>1, PageNumbers DEF PagesOf, Pages
    <3>3. QED
      BY <1>4, <3>1, <3>2
  <2>2. ASSUME NEW c \in Blocks, NEW q \in PagesOf(c)
        PROVE  state'[q] = IF current_page' # None /\ c = current_block'
                           THEN IF q < current_page' THEN "valid" ELSE "erased"
                           ELSE state'[First(c)]
    <3>1. CASE c # b
      <4>1. First(c) \in PagesOf(c)
        BY PageNumbers
      <4>2. state'[q] = state[q] /\ state'[First(c)] = state[First(c)]
        BY <1>9, <3>1, <4>1
      <4>3. state[q] = state[First(c)]
        BY <1>1, <3>1 DEF IInv, LogShape
      <4>4. QED
        BY <1>4, <3>1, <4>2, <4>3
    <3>2. CASE c = b
      <4>1. First(b) \in Nat /\ p \in Nat /\ q \in Nat /\ First(b) <= q
            /\ q < First(b) + PagesPerBlock /\ First(b) \in PagesOf(b)
        BY <1>1, <3>2, PageNumbers, SSDAssumption DEF PagesOf, Pages
      <4>2. CASE current_page = None /\ Advanced(p) = None
        BY <1>1, <1>2, <1>4, <1>6, <3>2, <4>1, <4>2, SSDAssumption DEF None
      <4>3. CASE current_page = None /\ Advanced(p) # None
        BY <1>1, <1>2, <1>4, <1>6, <1>8, <3>2, <4>1, <4>3 DEF None
      <4>4. CASE current_page # None /\ Advanced(p) = None
        <5>1. p = First(b) + PagesPerBlock - 1
          BY <1>1, <1>2, <4>1, <4>4 DEF None
        <5>2. ASSUME NEW r \in PagesOf(b) PROVE state'[r] = "valid"
          <6>1. r = p \/ (r # p /\ r < p)
            BY <4>1, <5>1, SSDAssumption DEF PagesOf
          <6>2. QED
            BY <1>6, <1>8, <4>4, <6>1
        <5>3. QED
          BY <1>4, <3>2, <4>1, <4>4, <5>2
      <4>5. CASE current_page # None /\ Advanced(p) # None
        BY <1>1, <1>2, <1>4, <1>6, <1>8, <3>2, <4>1, <4>5 DEF None
      <4>6. QED
        BY <4>2, <4>3, <4>4, <4>5
    <3>3. QED
      BY <3>1, <3>2
  <2>3. QED
    BY <2>1, <2>2 DEF LogShape
<1>11. NeverProgrammed'
  <2> SUFFICES ASSUME NEW q \in Pages, state'[q] = "invalid"
               PROVE  reverse_map'[q] = None
    BY DEF NeverProgrammed
  <2>1. q # p /\ state[q] = "invalid"
    BY <1>6, <1>7
  <2>2. reverse_map'[q] = reverse_map[q]
    BY <1>1, <2>1 DEF Program, IInv, TypeOK
  <2>3. QED
    BY <2>1, <2>2 DEF IInv, NeverProgrammed
<1>12. ASSUME MappedPagesHoldData PROVE MappedPagesHoldData'
  <2> SUFFICES ASSUME NEW k \in LogicalPages, forward_map'[k] # None
               PROVE  /\ state'[forward_map'[k]] = "valid"
                      /\ reverse_map'[forward_map'[k]] = k
    BY DEF MappedPagesHoldData
  <2>1. CASE k = l
    BY <1>1, <1>6, <2>1 DEF Program, IInv, TypeOK
  <2>2. CASE k # l
    <3>1. forward_map'[k] = forward_map[k]
      BY <2>2 DEF Program, IInv, TypeOK
    <3> DEFINE q == forward_map[k]
    <3>2. q \in Pages /\ state[q] = "valid" /\ reverse_map[q] = k
      BY <1>12, <3>1 DEF MappedPagesHoldData, IInv, TypeOK
    <3>3. q # p
      BY <1>1, <3>2
    <3>4. q \notin ErasedOnOpen(b)
      <4>1. CASE current_page # None
        BY <4>1 DEF ErasedOnOpen
      <4>2. CASE current_page = None
        BY <1>1, <3>2, <4>2 DEF ErasedOnOpen, IInv, LogShape
      <4>3. QED
        BY <4>1, <4>2
    <3>5. state'[q] = "valid" /\ reverse_map'[q] = k
      BY <1>1, <1>7, <3>2, <3>3, <3>4 DEF Program, IInv, TypeOK
    <3>6. QED
      BY <3>1, <3>5
  <2>3. QED
    BY <2>1, <2>2
<1>13. QED
  BY <1>1, <1>4, <1>5, <1>10, <1>11, <1>12

-----------------------------------------------------------------------------
(* The steps of the host. *)

LEMMA UpkeepKinds ==
    ASSUME Upkeep
    PROVE  /\ pc' \in {"scan", "host"}
           /\ gc_used_blocks' = {} => pc' = "host"
           /\ UNCHANGED <<ssd_type, gc, dropped>>
<1>1. Cardinality({}) = 0
  BY FS_EmptySet
<1>2. QED
  BY <1>1, SSDAssumption DEF Upkeep

LEMMA WriteStep ==
    ASSUME IInv, NEW l \in LogicalPages, NEW v \in Data, Write(l, v)
    PROVE  IInv'
<1> USE DEF IInv
<1>1. /\ pc = "host" /\ Upkeep
      /\ pc' \in {"scan", "host"}
      /\ gc_used_blocks' = {} => pc' = "host"
      /\ UNCHANGED <<ssd_type, gc, dropped>>
  BY UpkeepKinds DEF Write
<1>2. CASE ssd_type = "log"
  <2>1. PICK p \in Cursor : Program(p, l, v)
    BY <1>2 DEF Write, WriteLogging
  <2>2. QED
    BY <1>1, <1>2, <2>1, ProgramStep
    DEF TypeOK, gc, InPlace, Collecting, LossOnlyByDrop
<1>3. CASE ssd_type # "log"
  <2>1. NumLogicalPages <= NumPages
    BY <1>3, SSDAssumption DEF TypeOK
  <2>2. l \in Pages
    BY <2>1, PageNumbers, SSDAssumption DEF LogicalPages, Pages
  <2>3. \A k \in LogicalPages : forward_map[k] \in {None, k}
    BY <1>3 DEF InPlace
  <2>4. /\ forward_map' = [forward_map EXCEPT ![l] = l]
        /\ reverse_map' = [reverse_map EXCEPT ![l] = l]
        /\ UNCHANGED <<current_block, current_page>>
        /\ gc_used_blocks' = {}
    BY <1>3 DEF Write, WriteDirect, WriteIdeal, MapInPlace, InPlace
  <2>5. /\ state' \in [Pages -> {"invalid", "erased", "valid"}]
        /\ data' \in [Pages -> Data \cup {Blank}]
    BY <1>3 DEF Write, WriteDirect, WriteIdeal, TypeOK
  <2>6. /\ state'[l] = "valid"
        /\ \A q \in Pages : state[q] = "valid" => state'[q] = "valid"
    BY <1>3, <2>2 DEF Write, WriteDirect, WriteIdeal, Reprogrammed, TypeOK
  <2>7. TypeOK'
    BY <1>1, <2>2, <2>4, <2>5 DEF TypeOK, gc
  <2>8. InPlace'
    BY <1>1, <1>3, <2>3, <2>4 DEF InPlace, TypeOK
  <2>9. MappedPagesHoldData'
    <3> SUFFICES ASSUME NEW k \in LogicalPages, forward_map'[k] # None
                 PROVE  /\ state'[forward_map'[k]] = "valid"
                        /\ reverse_map'[forward_map'[k]] = k
      BY DEF MappedPagesHoldData
    <3>1. CASE k = l
      BY <2>2, <2>4, <2>6, <3>1 DEF TypeOK
    <3>2. CASE k # l
      <4>1. forward_map'[k] = forward_map[k] /\ forward_map[k] = k /\ k \in Pages
        BY <2>3, <2>4, <3>2 DEF TypeOK
      <4>2. state[k] = "valid" /\ reverse_map[k] = k
        BY <1>3, <4>1 DEF LossOnlyByDrop, MappedPagesHoldData, InPlace
      <4>3. QED
        BY <2>2, <2>4, <2>6, <3>2, <4>1, <4>2 DEF TypeOK
    <3>3. QED
      BY <3>1, <3>2
  <2>10. QED
    BY <1>1, <1>3, <2>7, <2>8, <2>9
    DEF LogShape, NeverProgrammed, Collecting, LossOnlyByDrop
<1>4. QED
  BY <1>2, <1>3

LEMMA TrimStep ==
    ASSUME IInv, NEW l \in LogicalPages, Trim(l)
    PROVE  IInv'
<1> USE DEF IInv
<1>1. /\ pc = "host"
      /\ pc' \in {"scan", "host"}
      /\ gc_used_blocks' = {} => pc' = "host"
      /\ UNCHANGED <<ssd_type, gc, dropped>>
      /\ forward_map' = [forward_map EXCEPT ![l] = None]
      /\ UNCHANGED <<state, data, reverse_map, current_block, current_page,
                     gc_used_blocks>>
  BY UpkeepKinds DEF Trim
<1>2. TypeOK'
  BY <1>1 DEF TypeOK, gc
<1>3. LogShape' /\ NeverProgrammed' /\ InPlace' /\ Collecting'
  BY <1>1 DEF TypeOK, LogShape, NeverProgrammed, InPlace, Collecting
<1>4. LossOnlyByDrop'
  BY <1>1 DEF TypeOK, LossOnlyByDrop, MappedPagesHoldData
<1>5. QED
  BY <1>2, <1>3, <1>4

LEMMA NoEffectStep ==
    ASSUME IInv, NoEffect
    PROVE  IInv'
<1> USE DEF IInv
<1>1. /\ pc = "host"
      /\ pc' \in {"scan", "host"}
      /\ gc_used_blocks' = {} => pc' = "host"
      /\ UNCHANGED <<ssd_type, gc, dropped, ftl>>
  BY UpkeepKinds DEF NoEffect
<1>2. QED
  BY <1>1
  DEF TypeOK, gc, ftl, LogShape, NeverProgrammed, InPlace, Collecting,
      LossOnlyByDrop, MappedPagesHoldData

-----------------------------------------------------------------------------
(* The steps of the collector. *)

LEMMA NextVictimType ==
    ASSUME gc_visited \in Blocks, NextVictim
    PROVE  gc_visited' \in Blocks /\ pc' \in {"scan", "host"}
BY SSDAssumption DEF NextVictim, Blocks

LEMMA SkipStep ==
    ASSUME IInv, GCSkip
    PROVE  IInv'
<1> USE DEF IInv
<1>1. /\ pc = "scan" /\ ssd_type = "log"
      /\ gc_visited' \in Blocks /\ pc' \in {"scan", "host"}
      /\ UNCHANGED <<ssd_type, ftl, gc_current_block, gc_todo, dropped>>
  BY NextVictimType DEF GCSkip, InPlace, TypeOK
<1>2. QED
  BY <1>1
  DEF TypeOK, ftl, LogShape, NeverProgrammed, InPlace, Collecting,
      LossOnlyByDrop, MappedPagesHoldData

LEMMA CollectStep ==
    ASSUME IInv, GCCollect
    PROVE  IInv'
<1> USE DEF IInv
<1>1. /\ pc = "scan" /\ ssd_type = "log" /\ ~PassedOver(Victim)
      /\ gc_todo' = LivePages(Victim) /\ pc' = "copy"
      /\ UNCHANGED <<ssd_type, ftl, gc_current_block, gc_visited, dropped>>
  BY DEF GCCollect, InPlace
<1>2. Victim \in Blocks /\ Victim' = Victim
  BY <1>1, VictimType DEF TypeOK, Victim
<1>3. LivePages(Victim) \subseteq PagesOf(Victim) /\ PagesOf(Victim) \subseteq Pages
  BY <1>2, PageNumbers DEF LivePages
<1>4. TypeOK'
  BY <1>1, <1>3 DEF TypeOK, ftl
<1>5. Collecting'
  <2>1. Victim # current_block /\ state[First(Victim)] # "erased"
    BY <1>1 DEF PassedOver
  <2>2. \A p \in LivePages(Victim) : /\ reverse_map[p] # None
                                     /\ forward_map[reverse_map[p]] = p
    BY DEF LivePages
  <2>3. ASSUME LivePages(Victim) # {} PROVE state[First(Victim)] = "valid"
    <3>1. PICK p \in LivePages(Victim) : TRUE
      BY <2>3
    <3>2. p \in Pages /\ p \in PagesOf(Victim) /\ state[p] # "invalid"
      BY <1>1, <1>3, <2>2 DEF NeverProgrammed
    <3>3. state[First(Victim)] # "invalid"
      BY <1>1, <1>2, <2>1, <3>2 DEF LogShape
    <3>4. First(Victim) \in Pages
      BY <1>2, PageNumbers
    <3>5. QED
      BY <2>1, <3>3, <3>4 DEF TypeOK
  <2>4. ASSUME ~dropped, NEW l \in LogicalPages,
               forward_map[l] \in PagesOf(Victim)
        PROVE  forward_map[l] \in LivePages(Victim)
    <3>1. forward_map[l] \in Pages /\ forward_map[l] # None
      BY <1>3, <2>4 DEF Pages, None
    <3>2. reverse_map[forward_map[l]] = l
      BY <2>4, <3>1 DEF LossOnlyByDrop, MappedPagesHoldData
    <3>3. l # None
      BY SSDAssumption DEF LogicalPages, None
    <3>4. QED
      BY <2>4, <3>2, <3>3 DEF LivePages
  <2>5. QED
    BY <1>1, <1>2, <1>3, <2>1, <2>2, <2>3, <2>4 DEF Collecting, ftl, First, PagesOf
<1>6. QED
  BY <1>1, <1>4, <1>5
  DEF ftl, LogShape, NeverProgrammed, InPlace, LossOnlyByDrop, MappedPagesHoldData

LEMMA CopyStep ==
    ASSUME IInv, GCCopy
    PROVE  IInv'
<1> USE DEF IInv
<1>1. PICK o \in gc_todo :
        /\ IsNextLivePage(o)
        /\ WriteLogging(reverse_map[o], data[o])
        /\ gc_todo' = gc_todo \ {o}
  BY DEF GCCopy
<1>2. /\ pc = "copy" /\ ssd_type = "log"
      /\ UNCHANGED <<ssd_type, gc_current_block, gc_visited, pc, dropped>>
  BY DEF GCCopy, InPlace
<1>3. PICK p \in Cursor : Program(p, reverse_map[o], data[o])
  BY <1>1 DEF WriteLogging
<1>4. /\ o \in Pages /\ reverse_map[o] \in LogicalPages
      /\ data[o] \in Data \cup {Blank}
  BY <1>2 DEF Collecting, TypeOK
<1>5. /\ state' \in [Pages -> {"invalid", "erased", "valid"}]
      /\ data' \in [Pages -> Data \cup {Blank}]
      /\ forward_map' \in [LogicalPages -> Pages \cup {None}]
      /\ reverse_map' \in [Pages -> LogicalPages \cup {None}]
      /\ current_block' \in Blocks
      /\ current_page' \in Pages \cup {None}
      /\ gc_used_blocks' \subseteq Blocks
      /\ LogShape'
      /\ NeverProgrammed'
      /\ MappedPagesHoldData => MappedPagesHoldData'
  BY <1>2, <1>3, <1>4, ProgramStep
<1>6. TypeOK'
  BY <1>1, <1>2, <1>5 DEF TypeOK
<1>7. Collecting'
  <2>1. Victim \in Blocks /\ Victim' = Victim
    BY <1>2, VictimType DEF TypeOK, Victim
  <2>2. /\ Victim # current_block /\ state[First(Victim)] = "valid"
        /\ gc_todo \subseteq PagesOf(Victim)
        /\ \A q \in gc_todo : /\ reverse_map[q] # None
                              /\ forward_map[reverse_map[q]] = q
    BY <1>1, <1>2 DEF Collecting
  <2>3. p \in Pages /\ BlockOf(p) \in Blocks /\ BlockOf(p) # Victim
    BY <1>2, <2>2, CursorFacts
  <2>4. /\ p \notin PagesOf(Victim)
        /\ PagesOf(Victim) \subseteq Pages
        /\ First(Victim) \in PagesOf(Victim)
        /\ \A q \in PagesOf(Victim) : q \notin PagesOf(BlockOf(p))
    BY <2>1, <2>3, PageNumbers
  <2>5. current_block' = BlockOf(p)
    BY <1>3 DEF Program
  <2>6. state'[First(Victim)] = "valid"
    BY <1>3, <2>2, <2>4 DEF Program, ErasedOnOpen
  <2>7. \A q \in PagesOf(Victim) : reverse_map'[q] = reverse_map[q]
    BY <1>3, <2>4 DEF Program, TypeOK
  <2>8. ASSUME ~dropped, NEW l \in LogicalPages,
               forward_map'[l] \in PagesOf(Victim)
        PROVE  forward_map'[l] \in gc_todo \ {o}
    <3>1. l # reverse_map[o]
      BY <1>3, <1>4, <2>4, <2>8 DEF Program, TypeOK
    <3>2. forward_map'[l] = forward_map[l]
      BY <1>3, <1>4, <3>1 DEF Program, TypeOK
    <3>3. forward_map[l] \in gc_todo
      BY <1>2, <2>8, <3>2 DEF Collecting
    <3>4. forward_map[l] # None
      BY <3>3, <2>2, <2>4 DEF Pages, None
    <3>5. reverse_map[forward_map[l]] = l
      BY <2>8, <3>4 DEF LossOnlyByDrop, MappedPagesHoldData
    <3>6. QED
      BY <3>1, <3>2, <3>3, <3>5
  <2>9. ASSUME NEW q \in gc_todo \ {o}
        PROVE  reverse_map'[q] # None /\ forward_map'[reverse_map'[q]] = q
    <3>1. /\ reverse_map'[q] = reverse_map[q]
          /\ reverse_map[q] \in LogicalPages
          /\ reverse_map[q] # reverse_map[o]
          /\ forward_map[reverse_map[q]] = q
      BY <1>1, <2>2, <2>4, <2>7 DEF TypeOK
    <3>2. forward_map'[reverse_map[q]] = forward_map[reverse_map[q]]
      BY <1>3, <1>4, <3>1 DEF Program, TypeOK
    <3>3. QED
      BY <2>2, <3>1, <3>2
  <2>10. QED
    BY <1>1, <1>2, <2>1, <2>2, <2>3, <2>5, <2>6, <2>8, <2>9
    DEF Collecting, First, PagesOf
<1>8. QED
  BY <1>2, <1>5, <1>6, <1>7 DEF InPlace, LossOnlyByDrop

LEMMA DropStep ==
    ASSUME IInv, GCDrop
    PROVE  IInv'
<1> USE DEF IInv
<1>1. /\ pc = "copy" /\ ssd_type = "log" /\ dropped' = TRUE
      /\ gc_todo' \subseteq gc_todo
      /\ UNCHANGED <<ssd_type, ftl, gc_current_block, gc_visited, pc>>
  BY DEF GCDrop, InPlace
<1>2. TypeOK'
  BY <1>1 DEF TypeOK, ftl
<1>3. Victim' = Victim
  BY <1>1 DEF Victim
<1>4. Collecting'
  BY <1>1, <1>3 DEF Collecting, ftl, First, PagesOf
<1>5. QED
  BY <1>1, <1>2, <1>4
  DEF ftl, LogShape, NeverProgrammed, InPlace, LossOnlyByDrop

LEMMA EraseStep ==
    ASSUME IInv, GCErase
    PROVE  IInv'
<1> USE DEF IInv
<1>1. /\ pc = "copy" /\ gc_todo = {} /\ ssd_type = "log"
      /\ state' = [p \in Pages |-> IF p \in PagesOf(Victim) THEN "erased" ELSE state[p]]
      /\ data' = [p \in Pages |-> IF p \in PagesOf(Victim) THEN Blank ELSE data[p]]
      /\ gc_used_blocks' = gc_used_blocks \ {Victim}
      /\ UNCHANGED <<ssd_type, forward_map, reverse_map, current_block,
                     current_page, gc_todo, dropped>>
  BY DEF GCErase, InPlace
<1>2. Victim \in Blocks /\ Victim # current_block
  BY <1>1, VictimType DEF TypeOK, Collecting
<1>3. /\ gc_visited' \in Blocks /\ gc_current_block' \in Blocks
      /\ pc' \in {"scan", "host"}
  <2>1. 0 \in Blocks
    BY SSDAssumption DEF Blocks
  <2>2. QED
    BY <1>2, <2>1, NextVictimType DEF GCErase, TypeOK
<1>4. TypeOK'
  BY <1>1, <1>3 DEF TypeOK
<1>5. LogShape'
  <2>1. ASSUME NEW b \in Blocks, NEW p \in PagesOf(b)
        PROVE  state'[p] = IF current_page # None /\ b = current_block
                           THEN IF p < current_page THEN "valid" ELSE "erased"
                           ELSE state'[First(b)]
    <3>1. /\ p \in Pages /\ BlockOf(p) = b
          /\ First(b) \in Pages /\ BlockOf(First(b)) = b /\ First(b) \in PagesOf(b)
      BY PageNumbers
    <3>2. CASE b = Victim
      BY <1>1, <1>2, <3>1, <3>2
    <3>3. CASE b # Victim
      <4>1. p \notin PagesOf(Victim) /\ First(b) \notin PagesOf(Victim)
        BY <1>2, <3>1, <3>3, PageNumbers
      <4>2. state'[p] = state[p] /\ state'[First(b)] = state[First(b)]
        BY <1>1, <3>1, <4>1
      <4>3. QED
        BY <1>1, <4>2 DEF LogShape
    <3>4. QED
      BY <3>2, <3>3
  <2>2. QED
    BY <1>1, <2>1 DEF LogShape
<1>6. NeverProgrammed'
  BY <1>1 DEF NeverProgrammed
<1>7. LossOnlyByDrop'
  <2> SUFFICES ASSUME ~dropped, NEW l \in LogicalPages, forward_map[l] # None
               PROVE  /\ state'[forward_map[l]] = "valid"
                      /\ reverse_map[forward_map[l]] = l
    BY <1>1 DEF LossOnlyByDrop, MappedPagesHoldData
  <2>1. /\ forward_map[l] \in Pages
        /\ state[forward_map[l]] = "valid"
        /\ reverse_map[forward_map[l]] = l
    BY DEF LossOnlyByDrop, MappedPagesHoldData, TypeOK
  <2>2. forward_map[l] \notin PagesOf(Victim)
    BY <1>1 DEF Collecting
  <2>3. QED
    BY <1>1, <2>1, <2>2
<1>8. QED
  BY <1>1, <1>3, <1>4, <1>5, <1>6, <1>7 DEF InPlace, Collecting

-----------------------------------------------------------------------------
LEMMA InitIInv == Init => IInv
<1> SUFFICES ASSUME Init PROVE IInv
  OBVIOUS
<1>1. TypeOK
  <2>1. 0 \in Blocks
    BY SSDAssumption DEF Blocks
  <2>2. QED
    BY <2>1 DEF Init, TypeOK
<1>2. LogShape
  BY PageNumbers DEF Init, LogShape
<1>3. QED
  BY <1>1, <1>2
  DEF Init, IInv, NeverProgrammed, InPlace, Collecting, LossOnlyByDrop,
      MappedPagesHoldData

LEMMA NextIInv == IInv /\ [Next]_vars => IInv'
<1> SUFFICES ASSUME IInv, [Next]_vars PROVE IInv'
  OBVIOUS
<1>1. ASSUME NEW l \in LogicalPages, Trim(l) PROVE IInv'
  BY <1>1, TrimStep
<1>2. ASSUME NEW l \in LogicalPages, NEW v \in Data, Write(l, v) PROVE IInv'
  BY <1>2, WriteStep
<1>3. CASE NoEffect
  BY <1>3, NoEffectStep
<1>4. CASE GCSkip
  BY <1>4, SkipStep
<1>5. CASE GCCollect
  BY <1>5, CollectStep
<1>6. CASE GCCopy
  BY <1>6, CopyStep
<1>7. CASE GCDrop
  BY <1>7, DropStep
<1>8. CASE GCErase
  BY <1>8, EraseStep
<1>9. CASE UNCHANGED vars
  <2>1. Victim' = Victim
    BY <1>9 DEF vars, gc, Victim
  <2>2. QED
    BY <1>9, <2>1
    DEF IInv, vars, ftl, gc, TypeOK, LogShape, NeverProgrammed, InPlace,
        Collecting, LossOnlyByDrop, MappedPagesHoldData
<1>10. QED
  BY <1>1, <1>2, <1>3, <1>4, <1>5, <1>6, <1>7, <1>8, <1>9 DEF Next

LEMMA Invariance == Spec => []IInv
BY InitIInv, NextIInv, PTL DEF Spec

(* Every reachable state of the simulator is well typed. *)
THEOREM TypeCorrect == Spec => []TypeOK
<1>1. IInv => TypeOK
  BY DEF IInv
<1>2. QED
  BY <1>1, Invariance, PTL

(* Whatever the sizes and watermarks, a mapped page is programmed and mapped
   back to its logical page unless the collector dropped a copy on a full
   device: garbage_collect has no other way of losing data. *)
THEOREM DataSafety == Spec => []LossOnlyByDrop
<1>1. IInv => LossOnlyByDrop
  BY DEF IInv
<1>2. QED
  BY <1>1, Invariance, PTL

(* The assert of write_logging never fails: the log programs erased pages
   only, dropped copies or not. *)
THEOREM FlashDiscipline == Spec => []ProgramsErasedPages
<1>1. IInv => ProgramsErasedPages
  <2> SUFFICES ASSUME IInv, ssd_type = "log", NEW p \in Cursor
               PROVE  state[p] = "erased" \/ p \in ErasedOnOpen(BlockOf(p))
    BY DEF ProgramsErasedPages
  <2>1. /\ p \in Pages /\ p \in PagesOf(BlockOf(p)) /\ state[p] # "valid"
        /\ state[p] = "erased" \/ (current_page = None /\ p = First(BlockOf(p)))
    BY CursorFacts
  <2>2. QED
    BY <2>1 DEF ErasedOnOpen, IInv, TypeOK
<1>2. QED
  BY <1>1, Invariance, PTL

-----------------------------------------------------------------------------
(* The simulation of LogicalDisk. *)

(* Programming a page of the log, for the host or for the collector, changes
   what the host reads from that logical page only. *)
LEMMA ProgramView ==
    ASSUME IInv, ~dropped, ssd_type = "log",
           NEW p \in Cursor, NEW l \in LogicalPages, NEW v \in Data \cup {Blank},
           Program(p, l, v)
    PROVE  HostView' = [HostView EXCEPT ![l] = v]
<1>1. /\ p \in Pages /\ p # None /\ state[p] # "valid"
      /\ BlockOf(p) \in Blocks
  BY CursorFacts DEF Pages, None
<1>2. /\ forward_map \in [LogicalPages -> Pages \cup {None}]
      /\ forward_map' = [forward_map EXCEPT ![l] = p]
      /\ data'[p] = v
  BY <1>1 DEF Program, IInv, TypeOK
<1>3. ASSUME NEW k \in LogicalPages, k # l, forward_map[k] # None
      PROVE  data'[forward_map[k]] = data[forward_map[k]]
  <2> DEFINE q == forward_map[k]
  <2>1. q \in Pages /\ state[q] = "valid"
    BY <1>2, <1>3 DEF IInv, LossOnlyByDrop, MappedPagesHoldData
  <2>2. q \notin ErasedOnOpen(BlockOf(p))
    BY <1>1, <2>1 DEF ErasedOnOpen, IInv, LogShape
  <2>3. QED
    BY <1>1, <2>1, <2>2 DEF Program
<1>4. HostView' = [k \in LogicalPages |->
                     IF k = l THEN v ELSE HostView[k]]
  BY <1>1, <1>2, <1>3 DEF HostView
<1>5. QED
  BY <1>4 DEF HostView

(* A write in place changes what the host reads from that page only. *)
LEMMA InPlaceView ==
    ASSUME IInv, ssd_type # "log", NEW l \in LogicalPages, NEW v \in Data,
           Write(l, v)
    PROVE  HostView' = [HostView EXCEPT ![l] = v]
<1>1. /\ \A k \in LogicalPages : forward_map[k] \in {None, k}
      /\ ~dropped
  BY DEF IInv, InPlace
<1>2. NumLogicalPages <= NumPages
  BY SSDAssumption DEF IInv, TypeOK
<1>3. l \in Pages /\ l # None
  BY <1>2, PageNumbers, SSDAssumption DEF LogicalPages, Pages, None
<1>4. /\ forward_map \in [LogicalPages -> Pages \cup {None}]
      /\ forward_map' = [forward_map EXCEPT ![l] = l]
      /\ data'[l] = v
  BY <1>3 DEF Write, WriteDirect, WriteIdeal, MapInPlace, IInv, TypeOK
<1>5. ASSUME NEW k \in LogicalPages, k # l, forward_map[k] # None
      PROVE  data'[forward_map[k]] = data[forward_map[k]]
  <2>1. forward_map[k] = k /\ k \in Pages /\ state[k] = "valid"
    BY <1>1, <1>4, <1>5 DEF IInv, LossOnlyByDrop, MappedPagesHoldData
  <2>2. QED
    BY <1>5, <2>1 DEF Write, WriteDirect, WriteIdeal, Reprogrammed, IInv, TypeOK
<1>6. HostView' = [k \in LogicalPages |->
                     IF k = l THEN v ELSE HostView[k]]
  BY <1>3, <1>4, <1>5 DEF HostView
<1>7. QED
  BY <1>6 DEF HostView

(* Every step is a step of the disk or leaves what the host reads alone. *)
LEMMA Simulation ==
    ASSUME IInv, IInv', [Next]_vars
    PROVE  [Disk!Next]_<<HostView, dropped>>
<1> USE DEF Disk!Next, Disk!Write, Disk!Trim, Disk!Fail, Disk!Decay
<1>1. CASE dropped
  <2>1. dropped' = dropped
    BY <1>1 DEF Next, Write, Trim, NoEffect, Upkeep, GCSkip, GCCollect, GCCopy,
                GCDrop, GCErase, vars
  <2>2. HostView' \in [LogicalPages -> Data \cup {None, Blank}]
    BY DEF IInv, TypeOK, HostView
  <2>3. QED
    BY <1>1, <2>1, <2>2
<1>2. CASE ~dropped
  <2>1. ASSUME NEW l \in LogicalPages, Trim(l)
        PROVE  Disk!Trim(l)
    <3>1. /\ forward_map' = [forward_map EXCEPT ![l] = None]
          /\ data' = data /\ dropped' = dropped
      BY <2>1 DEF Trim, Upkeep
    <3>2. QED
      BY <3>1 DEF HostView, IInv, TypeOK
  <2>2. ASSUME NEW l \in LogicalPages, NEW v \in Data, Write(l, v)
        PROVE  Disk!Write(l, v)
    <3>1. dropped' = dropped
      BY <2>2 DEF Write, Upkeep
    <3>2. CASE ssd_type # "log"
      BY <2>2, <3>1, <3>2, InPlaceView
    <3>3. CASE ssd_type = "log"
      <4>1. PICK p \in Cursor : Program(p, l, v)
        BY <2>2, <3>3 DEF Write, WriteLogging
      <4>2. QED
        BY <1>2, <3>1, <3>3, <4>1, ProgramView
    <3>4. QED
      BY <3>2, <3>3
  <2>3. CASE NoEffect \/ GCSkip \/ GCCollect \/ UNCHANGED vars
    <3>1. UNCHANGED <<ftl, dropped>>
      BY <2>3 DEF NoEffect, GCSkip, GCCollect, Upkeep, vars
    <3>2. QED
      BY <3>1 DEF ftl, HostView
  <2>4. CASE GCCopy
    <3>1. /\ pc = "copy" /\ ssd_type = "log" /\ dropped' = dropped
      BY <2>4 DEF GCCopy, IInv, InPlace
    <3>2. PICK o \in gc_todo : WriteLogging(reverse_map[o], data[o])
      BY <2>4 DEF GCCopy
    <3>3. PICK p \in Cursor : Program(p, reverse_map[o], data[o])
      BY <3>2 DEF WriteLogging
    <3>4. /\ o \in Pages /\ o # None /\ reverse_map[o] \in LogicalPages
          /\ data[o] \in Data \cup {Blank}
          /\ forward_map[reverse_map[o]] = o
      BY <3>1 DEF IInv, Collecting, TypeOK, Pages, None
    <3>5. HostView' = [HostView EXCEPT ![reverse_map[o]] = data[o]]
      BY <1>2, <3>1, <3>3, <3>4, ProgramView
    <3>6. HostView[reverse_map[o]] = data[o]
      BY <3>4 DEF HostView
    <3>7. HostView' = HostView
      BY <3>5, <3>6 DEF HostView
    <3>8. QED
      BY <3>1, <3>7
  <2>5. CASE GCDrop
    <3>1. dropped' = TRUE /\ UNCHANGED ftl
      BY <2>5 DEF GCDrop
    <3>2. HostView' = HostView
      BY <3>1 DEF ftl, HostView
    <3>3. QED
      BY <1>2, <3>1, <3>2
  <2>6. CASE GCErase
    <3>1. /\ pc = "copy" /\ gc_todo = {}
          /\ data' = [p \in Pages |-> IF p \in PagesOf(Victim) THEN Blank ELSE data[p]]
          /\ forward_map' = forward_map /\ dropped' = dropped
      BY <2>6 DEF GCErase
    <3>2. ASSUME NEW l \in LogicalPages, forward_map[l] # None
          PROVE  data'[forward_map[l]] = data[forward_map[l]]
      <4>1. forward_map[l] \in Pages /\ forward_map[l] \notin PagesOf(Victim)
        BY <1>2, <3>1, <3>2 DEF IInv, Collecting, TypeOK
      <4>2. QED
        BY <3>1, <4>1
    <3>3. HostView' = HostView
      BY <3>1, <3>2 DEF HostView
    <3>4. QED
      BY <3>1, <3>3
  <2>7. QED
    BY <2>1, <2>2, <2>3, <2>4, <2>5, <2>6 DEF Next
<1>3. QED
  BY <1>1, <1>2

(* The three translation layers implement the logical disk: until a copy is
   dropped the host reads what it wrote last, whatever the log, the erases
   and the collector do with the flash pages. *)
THEOREM Refinement == Spec => ImplementsDisk
<1>1. Init => Disk!Init
  BY DEF Init, HostView, Disk!Init
<1>2. IInv /\ IInv' /\ [Next]_vars => [Disk!Next]_<<HostView, dropped>>
  BY Simulation
<1>3. QED
  BY <1>1, <1>2, Invariance, PTL DEF Spec, ImplementsDisk, Disk!Spec

-----------------------------------------------------------------------------
(* Garbage collection keeps up with the log.  A device that keeps one block  *)
(* of spare flash pages, and starts to collect at the latest when all blocks *)
(* are in use, never refuses a write and never drops a copy.                 *)

SpareBlock ==
    /\ HighWaterMark <= NumBlocks
    /\ NumLogicalPages <= (NumBlocks - 1) * PagesPerBlock

Room == {p \in Pages : state[p] # "valid"}

FullyLive(b) == LivePages(b) = PagesOf(b)
Seen(k) == (gc_current_block + k) % NumBlocks

(* The collection was called for by a write, whose page is still mapped, and
   has found nothing to collect so far. *)
NothingYet ==
    /\ \E l \in LogicalPages : forward_map[l] \in PagesOf(current_block)
    /\ \A k \in 0 .. gc_visited - 1 :
         Seen(k) = current_block \/ FullyLive(Seen(k))

(* Between commands a block's worth of pages can be programmed.  A write
   takes one of them; the collection it calls for gives a block back, unless
   nothing was missing or there is nothing to collect. *)
SpareInv ==
    ssd_type = "log" =>
        /\ ~dropped
        /\ gc_used_blocks = {b \in Blocks : state[First(b)] = "valid"}
        /\ pc = "host" => gc_visited = 0 /\ Cardinality(Room) >= PagesPerBlock
        /\ pc = "scan" =>
             /\ Cardinality(Room) >= PagesPerBlock - 1
             /\ Cardinality(Room) >= PagesPerBlock \/ NothingYet
        /\ pc = "copy" => Cardinality(Room) >= Cardinality(gc_todo)

LEMMA LeastNumber ==
    ASSUME NEW S \in SUBSET Nat, S # {}
    PROVE  \E x \in S : \A y \in S : x <= y
<1>1. PICK x \in S : \A y \in S : ~(<<y, x>> \in OpToRel(<, Nat))
  BY NatLessThanWellFounded, WFMin
<1>2. ASSUME NEW y \in S PROVE x <= y
  <2>1. x \in Nat /\ y \in Nat
    OBVIOUS
  <2>2. ~(y < x)
    BY <1>1, <2>1, Zenon DEF OpToRel
  <2>3. QED
    BY <2>1, <2>2
<1>3. QED
  BY <1>2

LEMMA PageSets ==
    /\ IsFiniteSet(Pages) /\ Cardinality(Pages) = NumPages
    /\ \A S \in SUBSET Pages : IsFiniteSet(S) /\ Cardinality(S) \in Nat
    /\ \A S \in SUBSET Pages : \A T \in SUBSET S : Cardinality(T) <= Cardinality(S)
    /\ \A b \in Blocks : Cardinality(PagesOf(b)) = PagesPerBlock
<1> USE SSDAssumption
<1>1. IsFiniteSet(Pages) /\ Cardinality(Pages) = NumPages
  <2>1. NumPages \in Nat
    BY PageNumbers
  <2>2. QED
    BY <2>1, FS_Interval DEF Pages
<1>2. \A S \in SUBSET Pages : IsFiniteSet(S) /\ Cardinality(S) \in Nat
  BY <1>1, FS_Subset, FS_CardinalityType
<1>3. \A S \in SUBSET Pages : \A T \in SUBSET S : Cardinality(T) <= Cardinality(S)
  BY <1>2, FS_Subset
<1>4. ASSUME NEW b \in Blocks PROVE Cardinality(PagesOf(b)) = PagesPerBlock
  <2>1. First(b) \in Nat
    BY PageNumbers
  <2> DEFINE f == First(b)
  <2> HIDE DEF f
  <2>2. Cardinality(f .. f + PagesPerBlock - 1) = PagesPerBlock
    BY <2>1, FS_Interval DEF f
  <2>3. QED
    BY <2>2 DEF PagesOf, f
<1>5. QED
  BY <1>1, <1>2, <1>3, <1>4

(* A block with nothing in it is room enough. *)
LEMMA FreeBlockIsRoom ==
    ASSUME NEW st, NEW b \in Blocks, \A p \in PagesOf(b) : st[p] # "valid"
    PROVE  Cardinality({p \in Pages : st[p] # "valid"}) >= PagesPerBlock
<1> DEFINE R == {p \in Pages : st[p] # "valid"}
<1>1. PagesOf(b) \subseteq R /\ R \subseteq Pages
  BY PageNumbers
<1>2. Cardinality(PagesOf(b)) <= Cardinality(R)
  BY <1>1, PageSets
<1>3. QED
  BY <1>2, PageSets

(* A log of states st with its cursor at page cp of block cb writes a block
   from its first page on. *)
LEMMA BlockIsFree ==
    ASSUME NEW st, NEW cp, NEW cb, NEW b \in Blocks,
           cp # None => cp \in PagesOf(cb) \ {First(cb)},
           \A p \in PagesOf(b) :
             st[p] = IF cp # None /\ b = cb
                     THEN IF p < cp THEN "valid" ELSE "erased"
                     ELSE st[First(b)],
           st[First(b)] # "valid"
    PROVE  \A p \in PagesOf(b) : st[p] # "valid"
<1>1. First(b) \in PagesOf(b) /\ First(b) \in Nat
  BY PageNumbers
<1>2. CASE cp # None /\ b = cb
  <2>1. First(b) < cp
    BY <1>1, <1>2, SSDAssumption DEF PagesOf
  <2>2. QED
    BY <1>1, <1>2, <2>1
<1>3. CASE ~(cp # None /\ b = cb)
  BY <1>3
<1>4. QED
  BY <1>2, <1>3

(* As long as there is room there is a page to program. *)
LEMMA RoomIsNotFull ==
    ASSUME IInv, ssd_type = "log", Room # {}
    PROVE  ~DeviceFull
<1>1. CASE current_page # None
  BY <1>1 DEF DeviceFull, Cursor
<1>2. CASE current_page = None
  <2>1. PICK p \in Pages : state[p] # "valid"
    BY DEF Room
  <2>2. BlockOf(p) \in Blocks /\ p \in PagesOf(BlockOf(p))
    BY PageNumbers
  <2>3. BlockOf(p) \in FreeBlocks
    BY <1>2, <2>1, <2>2 DEF FreeBlocks, IInv, LogShape
  <2> DEFINE D == {Distance(b) : b \in FreeBlocks}
  <2>4. \A b \in FreeBlocks : Distance(b) \in Nat
    BY SSDAssumption DEF Distance, FreeBlocks, Blocks, IInv, TypeOK
  <2>5. D \in SUBSET Nat /\ D # {}
    BY <2>3, <2>4
  <2>6. PICK x \in D : \A y \in D : x <= y
    <3> HIDE DEF D
    <3>1. QED
      BY <2>5, LeastNumber
  <2>7. PICK b \in FreeBlocks : x = Distance(b)
    OBVIOUS
  <2>8. b \in NextFreeBlock
    BY <2>6, <2>7 DEF NextFreeBlock
  <2>9. QED
    BY <1>2, <2>8 DEF DeviceFull, Cursor
<1>3. QED
  BY <1>1, <1>2

(* Programming a page takes it out of the room and its block into use. *)
LEMMA ProgramTakesOne ==
    ASSUME IInv, ssd_type = "log", UNCHANGED ssd_type,
           NEW p \in Cursor, NEW l \in LogicalPages, NEW v \in Data \cup {Blank},
           Program(p, l, v),
           gc_used_blocks = {b \in Blocks : state[First(b)] = "valid"}
    PROVE  /\ Cardinality(Room') = Cardinality(Room) - 1
           /\ gc_used_blocks' = {b \in Blocks : state'[First(b)] = "valid"}
           /\ forward_map'[l] \in PagesOf(current_block')
<1> DEFINE b == BlockOf(p)
<1>1. /\ p \in Pages /\ b \in Blocks /\ p \in PagesOf(b) /\ state[p] # "valid"
      /\ \/ current_page # None /\ p = current_page /\ b = current_block
         \/ current_page = None /\ p = First(b)
  BY CursorFacts
<1>2. \A q \in ErasedOnOpen(b) : state[q] # "valid"
  <2>1. CASE current_page = None /\ state[First(b)] = "invalid"
    <3>1. \A q \in PagesOf(b) : state[q] # "valid"
      BY <1>1, <2>1, BlockIsFree DEF IInv, LogShape
    <3>2. QED
      BY <3>1 DEF ErasedOnOpen
  <2>2. CASE ~(current_page = None /\ state[First(b)] = "invalid")
    BY <2>2 DEF ErasedOnOpen
  <2>3. QED
    BY <2>1, <2>2
<1>3. /\ state'[p] = "valid"
      /\ \A q \in Pages : q # p => (state'[q] = "valid" <=> state[q] = "valid")
  BY <1>1, <1>2 DEF Program
<1>4. Room' = Room \ {p} /\ p \in Room
  BY <1>1, <1>3 DEF Room
<1>5. Cardinality(Room') = Cardinality(Room) - 1
  <2>1. IsFiniteSet(Room)
    BY PageSets DEF Room
  <2>2. QED
    BY <1>4, <2>1, FS_RemoveElement
<1>6. state'[First(b)] = "valid"
  <2>1. First(b) \in Pages /\ First(b) \in Nat /\ First(b) \in PagesOf(b)
    BY <1>1, PageNumbers
  <2>2. CASE current_page = None
    BY <1>1, <1>3, <2>2
  <2>3. CASE current_page # None
    <3>1. p \in PagesOf(b) \ {First(b)}
      BY <1>1, <2>3 DEF IInv, LogShape
    <3>2. First(b) < p
      BY <2>1, <3>1, SSDAssumption DEF PagesOf
    <3>3. state[First(b)] = "valid"
      BY <1>1, <2>1, <2>3, <3>2 DEF IInv, LogShape
    <3>4. QED
      BY <1>3, <2>1, <3>1, <3>3
  <2>4. QED
    BY <2>2, <2>3
<1>7. \A c \in Blocks : c # b =>
        (state'[First(c)] = "valid" <=> state[First(c)] = "valid")
  <2> SUFFICES ASSUME NEW c \in Blocks, c # b
               PROVE  state'[First(c)] = "valid" <=> state[First(c)] = "valid"
    OBVIOUS
  <2>1. First(c) \in Pages /\ BlockOf(First(c)) = c
    BY PageNumbers
  <2>2. QED
    BY <1>3, <2>1 DEF b
<1>8. /\ gc_used_blocks' = gc_used_blocks \cup {b}
      /\ forward_map'[l] = p /\ current_block' = b
  BY DEF Program, b, IInv, TypeOK
<1>9. gc_used_blocks' = {c \in Blocks : state'[First(c)] = "valid"}
  <2> HIDE DEF b
  <2>1. QED
    BY <1>1, <1>6, <1>7, <1>8
<1>10. forward_map'[l] \in PagesOf(current_block')
  BY <1>1, <1>8 DEF PagesOf, First
<1>11. QED
  BY <1>5, <1>9, <1>10 DEF First

(* When every block but the current one is fully live, and so is a page of
   that one, more logical pages are mapped than the spare block leaves. *)
LEMMA SomethingToCollect ==
    ASSUME IInv, ~dropped, SpareBlock,
           NEW l \in LogicalPages, forward_map[l] \in PagesOf(current_block),
           \A b \in Blocks : b = current_block \/ FullyLive(b)
    PROVE  FALSE
<1> USE SSDAssumption
<1> DEFINE L == {p \in Pages : /\ reverse_map[p] # None
                               /\ forward_map[reverse_map[p]] = p}
           C == PagesOf(current_block)
           q == forward_map[l]
           f == [p \in L |-> reverse_map[p]]
<1>1. current_block \in Blocks /\ C \subseteq Pages /\ Cardinality(C) = PagesPerBlock
  BY PageNumbers, PageSets DEF IInv, TypeOK
<1>2. Cardinality(L) <= NumLogicalPages
  <2>1. IsFiniteSet(LogicalPages) /\ Cardinality(LogicalPages) = NumLogicalPages
    <3> DEFINE m == NumLogicalPages - 1
    <3>1. 0 \in Int /\ m \in Nat /\ LogicalPages = 0 .. m /\ NumLogicalPages = m + 1
      BY DEF LogicalPages
    <3> HIDE DEF m
    <3>2. IsFiniteSet(0 .. m) /\ Cardinality(0 .. m) = IF 0 > m THEN 0 ELSE m - 0 + 1
      BY <3>1, FS_Interval
    <3>3. QED
      BY <3>1, <3>2
  <2>2. f \in [L -> LogicalPages]
    BY DEF IInv, TypeOK
  <2>3. \A x \in L, y \in L : f[x] = f[y] => x = y
    OBVIOUS
  <2>4. f \in Injection(L, LogicalPages)
    BY <2>2, <2>3 DEF Injection, IsInjective
  <2>5. QED
    <3> HIDE DEF f, L
    <3>1. QED
      BY <2>1, <2>4, FS_Injection
<1>3. q \in L /\ q \in C
  <2>1. q \in Pages /\ q # None
    BY <1>1 DEF Pages, None
  <2>2. reverse_map[q] = l
    BY <2>1 DEF IInv, LossOnlyByDrop, MappedPagesHoldData
  <2>3. l # None
    BY DEF LogicalPages, None
  <2>4. QED
    BY <2>1, <2>2, <2>3
<1>4. Pages \ C \subseteq L
  <2> SUFFICES ASSUME NEW p \in Pages, p \notin C PROVE p \in L
    OBVIOUS
  <2>1. BlockOf(p) \in Blocks /\ p \in PagesOf(BlockOf(p))
    BY PageNumbers
  <2>2. p \in LivePages(BlockOf(p))
    BY <2>1 DEF FullyLive
  <2>3. QED
    BY <2>2 DEF LivePages
<1>5. Cardinality(Pages \ C) = NumPages - PagesPerBlock
  <2>1. C = Pages \cap C /\ IsFiniteSet(Pages) /\ Cardinality(Pages) = NumPages
    BY <1>1, PageSets
  <2>2. Cardinality(Pages \ C) = Cardinality(Pages) - Cardinality(Pages \cap C)
    <3> HIDE DEF C
    <3>1. QED
      BY <2>1, FS_Difference
  <2>3. QED
    BY <1>1, <2>1, <2>2
<1>6. Cardinality((Pages \ C) \cup {q}) = NumPages - PagesPerBlock + 1
  <2>1. IsFiniteSet(Pages \ C)
    BY PageSets
  <2>2. q \notin Pages \ C
    BY <1>3
  <2>3. QED
    <3> HIDE DEF C, q
    <3>1. QED
      BY <1>5, <2>1, <2>2, FS_AddElement
<1>7. Cardinality((Pages \ C) \cup {q}) <= Cardinality(L)
  <2>1. L \in SUBSET Pages /\ (Pages \ C) \cup {q} \in SUBSET L
    BY <1>3, <1>4
  <2> HIDE DEF C, q, L
  <2>2. QED
    BY <2>1, PageSets
<1>8. NumPages = (NumBlocks - 1) * PagesPerBlock + PagesPerBlock
  BY DEF NumPages
<1>9. Cardinality(L) \in Nat
  BY PageSets
<1>10. PICK m \in Int : m = (NumBlocks - 1) * PagesPerBlock
  OBVIOUS
<1>11. QED
  <2> HIDE DEF L, C, q
  <2>1. NumLogicalPages <= m
    BY <1>10 DEF SpareBlock
  <2>2. NumPages = m + PagesPerBlock
    BY <1>8, <1>10
  <2>3. QED
    BY <1>2, <1>6, <1>7, <1>9, <2>1, <2>2

-----------------------------------------------------------------------------
(* The steps of the host and of the collector, and the spare room. *)

(* After a write the collector runs if less than a block's worth is left. *)
LEMMA SpareWrite ==
    ASSUME IInv, IInv', SpareInv, SpareBlock,
           NEW l \in LogicalPages, NEW v \in Data, Write(l, v)
    PROVE  SpareInv'
<1>1. /\ pc = "host" /\ Upkeep /\ UNCHANGED <<ssd_type, gc, dropped>>
      /\ pc' \in {"scan", "host"}
  BY UpkeepKinds DEF Write
<1> SUFFICES ASSUME ssd_type = "log" PROVE SpareInv'
  BY <1>1 DEF SpareInv
<1>2. PICK p \in Cursor : Program(p, l, v)
  BY DEF Write, WriteLogging
<1>3. /\ ~dropped /\ gc_visited = 0 /\ Cardinality(Room) >= PagesPerBlock
      /\ gc_used_blocks = {b \in Blocks : state[First(b)] = "valid"}
  BY <1>1 DEF SpareInv
<1>4. /\ Cardinality(Room') = Cardinality(Room) - 1
      /\ gc_used_blocks' = {b \in Blocks : state'[First(b)] = "valid"}
      /\ forward_map'[l] \in PagesOf(current_block')
  BY <1>1, <1>2, <1>3, ProgramTakesOne
<1>5. Cardinality(Room) \in Nat
  BY PageSets DEF Room
<1>6. Cardinality(Room') >= PagesPerBlock - 1
  BY <1>3, <1>4, <1>5, SSDAssumption
<1>7. NothingYet'
  <2>1. gc_visited' = 0
    BY <1>1, <1>3 DEF gc
  <2>2. 0 .. gc_visited' - 1 = {}
    BY <2>1
  <2>3. QED
    BY <1>4, <2>2 DEF NothingYet, PagesOf, First
<1>8. ASSUME pc' = "host" PROVE Cardinality(Room') >= PagesPerBlock
  <2>1. ~(Cardinality(gc_used_blocks') >= HighWaterMark)
    BY <1>1, <1>8 DEF Upkeep
  <2>2. Cardinality(Blocks) = NumBlocks
    <3> DEFINE m == NumBlocks - 1
    <3>1. m \in Nat /\ Blocks = 0 .. m /\ NumBlocks = m + 1
      BY SSDAssumption DEF Blocks
    <3> HIDE DEF m
    <3>2. Cardinality(0 .. m) = IF 0 > m THEN 0 ELSE m - 0 + 1
      BY <3>1, FS_Interval
    <3>3. QED
      BY <3>1, <3>2
  <2>3. gc_used_blocks' # Blocks
    BY <2>1, <2>2, SSDAssumption DEF SpareBlock
  <2>4. PICK b \in Blocks : state'[First(b)] # "valid"
    BY <1>4, <2>3
  <2>5. /\ current_page' # None =>
             current_page' \in PagesOf(current_block') \ {First(current_block')}
        /\ \A q \in PagesOf(b) :
             state'[q] = IF current_page' # None /\ b = current_block'
                         THEN IF q < current_page' THEN "valid" ELSE "erased"
                         ELSE state'[First(b)]
    BY <1>1 DEF IInv, LogShape, PagesOf, First
  <2>6. \A q \in PagesOf(b) : state'[q] # "valid"
    BY <2>4, <2>5, BlockIsFree
  <2>7. Cardinality({q \in Pages : state'[q] # "valid"}) >= PagesPerBlock
    BY <2>6, FreeBlockIsRoom
  <2>8. QED
    BY <2>7 DEF Room
<1>9. QED
  BY <1>1, <1>3, <1>4, <1>6, <1>7, <1>8 DEF SpareInv, First, gc

(* The other commands take no page. *)
LEMMA SpareIdle ==
    ASSUME SpareInv, pc = "host", Upkeep, UNCHANGED <<state, gc_used_blocks>>
    PROVE  SpareInv'
<1>1. UNCHANGED <<ssd_type, gc, dropped>> /\ pc' \in {"scan", "host"}
  BY UpkeepKinds
<1>2. Room' = Room
  BY DEF Room
<1> SUFFICES ASSUME ssd_type = "log" PROVE SpareInv'
  BY <1>1 DEF SpareInv
<1>3. /\ ~dropped /\ gc_visited = 0 /\ Cardinality(Room) >= PagesPerBlock
      /\ gc_used_blocks = {b \in Blocks : state[First(b)] = "valid"}
  BY DEF SpareInv
<1>4. Cardinality(Room) \in Nat
  BY PageSets DEF Room
<1>5. Cardinality(Room) >= PagesPerBlock - 1
  BY <1>3, <1>4, SSDAssumption
<1>6. QED
  BY <1>1, <1>2, <1>3, <1>5 DEF SpareInv, gc, First

(* Every block is visited before the loop ends. *)
LEMMA AllSeen ==
    ASSUME gc_current_block \in Blocks, NEW b \in Blocks
    PROVE  \E k \in 0 .. NumBlocks - 1 : Seen(k) = b
<1> USE SSDAssumption DEF Blocks, Seen
<1>1. CASE b >= gc_current_block
  <2>1. /\ b - gc_current_block \in 0 .. NumBlocks - 1
        /\ gc_current_block + (b - gc_current_block) = b
        /\ b % NumBlocks = b
    BY <1>1
  <2>2. QED
    BY <2>1
<1>2. CASE b < gc_current_block
  <2>1. /\ b - gc_current_block + NumBlocks \in 0 .. NumBlocks - 1
        /\ gc_current_block + (b - gc_current_block + NumBlocks) = b + NumBlocks
        /\ (b + NumBlocks) % NumBlocks = b
    BY <1>2
  <2>2. QED
    BY <2>1
<1>3. QED
  BY <1>1, <1>2

(* A block passed over was free, or takes its part in NothingYet; at the end
   of the loop there was something to collect. *)
LEMMA SpareSkip ==
    ASSUME IInv, SpareInv, SpareBlock, GCSkip
    PROVE  SpareInv'
<1>1. /\ pc = "scan" /\ ssd_type = "log" /\ PassedOver(Victim) /\ NextVictim
      /\ UNCHANGED <<ssd_type, ftl, gc_current_block, gc_todo, dropped>>
  BY DEF GCSkip, IInv, InPlace
<1>2. /\ ~dropped /\ gc_used_blocks = {b \in Blocks : state[First(b)] = "valid"}
      /\ Cardinality(Room) >= PagesPerBlock - 1
      /\ Cardinality(Room) >= PagesPerBlock \/ NothingYet
  BY <1>1 DEF SpareInv
<1>3. /\ Victim \in Blocks /\ Victim = Seen(gc_visited) /\ gc_visited \in Nat
      /\ gc_visited < NumBlocks /\ gc_current_block \in Blocks
  BY VictimType, SSDAssumption DEF IInv, TypeOK, Victim, Seen, Blocks
<1>4. \/ Cardinality(Room) >= PagesPerBlock
      \/ /\ NothingYet
         /\ \A k \in 0 .. gc_visited : Seen(k) = current_block \/ FullyLive(Seen(k))
  <2> SUFFICES ASSUME ~(Cardinality(Room) >= PagesPerBlock), NothingYet
               PROVE  \A k \in 0 .. gc_visited :
                        Seen(k) = current_block \/ FullyLive(Seen(k))
    BY <1>2
  <2>1. state[First(Victim)] = "valid"
    <3> SUFFICES ASSUME state[First(Victim)] # "valid" PROVE FALSE
      OBVIOUS
    <3>1. \A p \in PagesOf(Victim) : state[p] # "valid"
      BY <1>1, <1>3, BlockIsFree DEF IInv, LogShape
    <3>2. QED
      BY <1>3, <3>1, FreeBlockIsRoom DEF Room
  <2>2. Victim = current_block \/ FullyLive(Victim)
    BY <1>1, <2>1 DEF PassedOver, FullyLive
  <2>3. \A k \in 0 .. gc_visited : k = gc_visited \/ k \in 0 .. gc_visited - 1
    BY <1>3
  <2>4. QED
    BY <1>3, <2>2, <2>3 DEF NothingYet
<1>5. /\ Room' = Room
      /\ gc_used_blocks' = {b \in Blocks : state'[First(b)] = "valid"}
      /\ \A k : Seen(k)' = Seen(k) /\ FullyLive(k)' = FullyLive(k)
      /\ forward_map' = forward_map /\ current_block' = current_block
      /\ ~dropped' /\ ssd_type' = ssd_type
  BY <1>1, <1>2 DEF ftl, Room, Seen, FullyLive, LivePages, PagesOf, First
<1>6. CASE gc_visited + 1 < NumBlocks
  <2>1. pc' = "scan" /\ gc_visited' = gc_visited + 1
    BY <1>1, <1>6 DEF NextVictim
  <2>2. 0 .. gc_visited' - 1 = 0 .. gc_visited
    BY <1>3, <2>1
  <2>3. Cardinality(Room) >= PagesPerBlock \/ NothingYet'
    BY <1>4, <1>5, <2>2 DEF NothingYet, PagesOf, First
  <2>4. QED
    BY <1>2, <1>5, <2>1, <2>3 DEF SpareInv
<1>7. CASE ~(gc_visited + 1 < NumBlocks)
  <2>1. pc' = "host" /\ gc_visited' = 0
    BY <1>1, <1>7 DEF NextVictim
  <2>2. gc_visited = NumBlocks - 1
    BY <1>3, <1>7, SSDAssumption
  <2>3. Cardinality(Room) >= PagesPerBlock
    <3> SUFFICES ASSUME ~(Cardinality(Room) >= PagesPerBlock) PROVE FALSE
      OBVIOUS
    <3>1. /\ NothingYet
          /\ \A k \in 0 .. NumBlocks - 1 :
               Seen(k) = current_block \/ FullyLive(Seen(k))
      BY <1>4, <2>2
    <3>2. \A b \in Blocks : b = current_block \/ FullyLive(b)
      BY <1>3, <3>1, AllSeen
    <3>3. PICK l \in LogicalPages : forward_map[l] \in PagesOf(current_block)
      BY <3>1 DEF NothingYet
    <3>4. QED
      BY <1>2, <3>2, <3>3, SomethingToCollect
  <2>4. QED
    BY <1>5, <2>1, <2>3 DEF SpareInv
<1>8. QED
  BY <1>6, <1>7

(* A victim is not fully live, so the room left takes its copies. *)
LEMMA SpareCollect ==
    ASSUME IInv, SpareInv, GCCollect
    PROVE  SpareInv'
<1>1. /\ pc = "scan" /\ ssd_type = "log" /\ ~PassedOver(Victim)
      /\ gc_todo' = LivePages(Victim) /\ pc' = "copy"
      /\ UNCHANGED <<ssd_type, ftl, gc_current_block, gc_visited, dropped>>
  BY DEF GCCollect, IInv, InPlace
<1>2. Victim \in Blocks
  BY VictimType DEF IInv, TypeOK
<1> DEFINE V == PagesOf(Victim)
           L == LivePages(Victim)
<1>3. V \subseteq Pages /\ L \subseteq V /\ L # V
  BY <1>1, <1>2, PageNumbers DEF LivePages, PassedOver
<1>4. Cardinality(V) = PagesPerBlock
  BY <1>2, PageSets
<1>5. Cardinality(L) <= PagesPerBlock - 1
  <2> HIDE DEF V, L
  <2>1. IsFiniteSet(V) /\ Cardinality(V) \in Nat /\ Cardinality(L) \in Nat
    BY <1>3, PageSets
  <2>2. Cardinality(L) <= Cardinality(V) /\ Cardinality(V) # Cardinality(L)
    BY <1>3, <2>1, FS_Subset
  <2>3. QED
    BY <1>4, <2>1, <2>2
<1>6. Room' = Room /\ state' = state /\ gc_used_blocks' = gc_used_blocks
  BY <1>1 DEF ftl, Room
<1>7. Cardinality(L) \in Nat /\ Cardinality(Room) \in Nat
  BY <1>3, PageSets DEF Room
<1>8. Cardinality(Room) >= PagesPerBlock - 1
  BY <1>1 DEF SpareInv
<1>9. Cardinality(Room') >= Cardinality(gc_todo')
  <2> HIDE DEF L
  <2>1. gc_todo' = L
    BY <1>1 DEF L
  <2>2. QED
    BY <1>5, <1>6, <1>7, <1>8, <2>1, SSDAssumption
<1>10. QED
  BY <1>1, <1>6, <1>9 DEF SpareInv, First

(* Each copy takes one page, for one page less to copy. *)
LEMMA SpareCopy ==
    ASSUME IInv, SpareInv, GCCopy
    PROVE  SpareInv'
<1>1. PICK o \in gc_todo : /\ WriteLogging(reverse_map[o], data[o])
                           /\ gc_todo' = gc_todo \ {o}
  BY DEF GCCopy
<1>2. /\ pc = "copy" /\ ssd_type = "log"
      /\ UNCHANGED <<ssd_type, gc_current_block, gc_visited, pc, dropped>>
  BY DEF GCCopy, IInv, InPlace
<1>3. PICK p \in Cursor : Program(p, reverse_map[o], data[o])
  BY <1>1 DEF WriteLogging
<1>4. /\ o \in Pages /\ reverse_map[o] \in LogicalPages
      /\ data[o] \in Data \cup {Blank}
  BY <1>2 DEF IInv, Collecting, TypeOK
<1>5. /\ ~dropped /\ gc_used_blocks = {b \in Blocks : state[First(b)] = "valid"}
      /\ Cardinality(Room) >= Cardinality(gc_todo)
  BY <1>2 DEF SpareInv
<1>6. /\ Cardinality(Room') = Cardinality(Room) - 1
      /\ gc_used_blocks' = {b \in Blocks : state'[First(b)] = "valid"}
  BY <1>2, <1>3, <1>4, <1>5, ProgramTakesOne
<1>7. Cardinality(gc_todo') = Cardinality(gc_todo) - 1
  <2>1. IsFiniteSet(gc_todo)
    BY PageSets DEF IInv, TypeOK
  <2>2. QED
    BY <1>1, <2>1, FS_RemoveElement
<1>8. Cardinality(Room) \in Nat /\ Cardinality(gc_todo) \in Nat
  BY PageSets DEF Room, IInv, TypeOK
<1>9. Cardinality(Room') >= Cardinality(gc_todo')
  BY <1>5, <1>6, <1>7, <1>8
<1>10. QED
  BY <1>2, <1>5, <1>6, <1>9 DEF SpareInv, First

(* No copy is dropped. *)
LEMMA SpareDrop ==
    ASSUME IInv, SpareInv, GCDrop
    PROVE  FALSE
<1>1. pc = "copy" /\ ssd_type = "log" /\ DeviceFull /\ gc_todo # {}
  BY DEF GCDrop, IInv, InPlace
<1>2. Cardinality(Room) >= Cardinality(gc_todo)
  BY <1>1 DEF SpareInv
<1>3. IsFiniteSet(gc_todo) /\ Cardinality(gc_todo) \in Nat /\ Cardinality(gc_todo) # 0
  BY <1>1, PageSets, FS_EmptySet DEF IInv, TypeOK
<1>4. Room # {}
  <2> SUFFICES ASSUME Room = {} PROVE FALSE
    OBVIOUS
  <2>1. Cardinality(Room) = 0
    BY FS_EmptySet
  <2>2. QED
    BY <1>2, <1>3, <2>1
<1>5. QED
  BY <1>1, <1>4, RoomIsNotFull

(* An erase gives a block back. *)
LEMMA SpareErase ==
    ASSUME IInv, SpareInv, GCErase
    PROVE  SpareInv'
<1>1. /\ pc = "copy" /\ ssd_type = "log"
      /\ state' = [p \in Pages |-> IF p \in PagesOf(Victim) THEN "erased" ELSE state[p]]
      /\ gc_used_blocks' = gc_used_blocks \ {Victim}
      /\ UNCHANGED <<ssd_type, dropped>>
      /\ pc' \in {"scan", "host"} /\ (pc' = "host" => gc_visited' = 0)
  BY DEF GCErase, NextVictim, IInv, InPlace
<1>2. Victim \in Blocks
  BY VictimType DEF IInv, TypeOK
<1>3. /\ ~dropped /\ gc_used_blocks = {b \in Blocks : state[First(b)] = "valid"}
  BY <1>1 DEF SpareInv
<1>4. \A p \in PagesOf(Victim) : state'[p] # "valid"
  BY <1>1, <1>2, PageNumbers
<1>5. Cardinality(Room') >= PagesPerBlock
  <2>1. Cardinality({p \in Pages : state'[p] # "valid"}) >= PagesPerBlock
    BY <1>2, <1>4, FreeBlockIsRoom
  <2>2. QED
    BY <2>1 DEF Room
<1>6. gc_used_blocks' = {b \in Blocks : state'[First(b)] = "valid"}
  <2>1. ASSUME NEW b \in Blocks
        PROVE  state'[First(b)] = IF b = Victim THEN "erased" ELSE state[First(b)]
    <3>1. First(b) \in Pages /\ First(b) \in PagesOf(b) /\ BlockOf(First(b)) = b
      BY PageNumbers
    <3>2. First(b) \in PagesOf(Victim) <=> b = Victim
      BY <1>2, <3>1, PageNumbers
    <3>3. QED
      BY <1>1, <3>1, <3>2
  <2> DEFINE vb == Victim
  <2>2. vb = Victim
    OBVIOUS
  <2> HIDE DEF vb
  <2>3. QED
    BY <1>1, <1>3, <2>1, <2>2
<1>7. Cardinality(Room') \in Nat
  <2>1. Room' \in SUBSET Pages
    BY DEF Room
  <2>2. QED
    BY <2>1, PageSets
<1>8. Cardinality(Room') >= PagesPerBlock - 1
  BY <1>5, <1>7, SSDAssumption
<1>9. QED
  BY <1>1, <1>3, <1>5, <1>6, <1>8 DEF SpareInv, First

LEMMA SpareInit == Init => SpareInv
<1> SUFFICES ASSUME Init PROVE SpareInv
  OBVIOUS
<1>1. \A b \in Blocks : First(b) \in Pages
  BY PageNumbers
<1>2. {b \in Blocks : state[First(b)] = "valid"} = {}
  BY <1>1 DEF Init
<1>3. 0 \in Blocks
  BY SSDAssumption DEF Blocks
<1>4. \A p \in PagesOf(0) : state[p] # "valid"
  BY <1>3, PageNumbers DEF Init
<1>5. Cardinality(Room) >= PagesPerBlock
  BY <1>3, <1>4, FreeBlockIsRoom DEF Room
<1>6. QED
  BY <1>2, <1>5 DEF Init, SpareInv

LEMMA SpareNext ==
    ASSUME SpareBlock, IInv, IInv', SpareInv, [Next]_vars
    PROVE  SpareInv'
<1>1. ASSUME NEW l \in LogicalPages, Trim(l) PROVE SpareInv'
  BY <1>1, SpareIdle DEF Trim
<1>2. ASSUME NEW l \in LogicalPages, NEW v \in Data, Write(l, v) PROVE SpareInv'
  BY <1>2, SpareWrite
<1>3. CASE NoEffect
  BY <1>3, SpareIdle DEF NoEffect, ftl
<1>4. CASE GCSkip
  BY <1>4, SpareSkip
<1>5. CASE GCCollect
  BY <1>5, SpareCollect
<1>6. CASE GCCopy
  BY <1>6, SpareCopy
<1>7. CASE GCDrop
  BY <1>7, SpareDrop
<1>8. CASE GCErase
  BY <1>8, SpareErase
<1>9. CASE UNCHANGED vars
  <2>1. /\ Room' = Room /\ NothingYet' = NothingYet
        /\ gc_used_blocks' = gc_used_blocks /\ state' = state
        /\ UNCHANGED <<ssd_type, pc, dropped, gc_visited, gc_todo>>
    BY <1>9 DEF vars, ftl, gc, Room, NothingYet, Seen, FullyLive, LivePages,
                PagesOf, First
  <2>2. QED
    BY <2>1 DEF SpareInv, First
<1>10. QED
  BY <1>1, <1>2, <1>3, <1>4, <1>5, <1>6, <1>7, <1>8, <1>9 DEF Next

LEMMA SpareInvariance ==
    ASSUME SpareBlock
    PROVE  Spec => [](IInv /\ SpareInv)
<1>1. IInv /\ IInv' /\ SpareInv /\ [Next]_vars => SpareInv'
  BY SpareNext
<1>2. QED
  BY <1>1, SpareInit, Invariance, PTL DEF Spec

(* With a spare block, and a high watermark the device can reach, the log
   takes every write the host issues: garbage collection keeps up whatever
   is written and trimmed, at any sizes and any low watermark. *)
THEOREM KeepsUp ==
    ASSUME SpareBlock
    PROVE  Spec => []NeverFull
<1>1. IInv /\ SpareInv => NeverFull
  <2> SUFFICES ASSUME IInv, SpareInv, ssd_type = "log", pc = "host"
               PROVE  ~DeviceFull
    BY DEF NeverFull
  <2>1. Cardinality(Room) >= PagesPerBlock
    BY DEF SpareInv
  <2>2. Room # {}
    <3> SUFFICES ASSUME Room = {} PROVE FALSE
      OBVIOUS
    <3>1. Cardinality(Room) = 0
      BY FS_EmptySet
    <3>2. QED
      BY <2>1, <3>1, SSDAssumption
  <2>3. QED
    BY <2>2, RoomIsNotFull
<1>2. QED
  BY <1>1, SpareInvariance, PTL

(* Under the same conditions no mapped page is ever lost. *)
THEOREM NothingLost ==
    ASSUME SpareBlock
    PROVE  Spec => []MappedPagesHoldData
<1>1. IInv /\ SpareInv => MappedPagesHoldData
  BY DEF IInv, SpareInv, InPlace, LossOnlyByDrop
<1>2. QED
  BY <1>1, SpareInvariance, PTL
=============================================================================
