-------------------------------- MODULE Malloc --------------------------------
(***************************************************************************)
(* The free-space manager of ostep/homework/vm-freespace/malloc.py: a heap *)
(* with a free list, three search policies, five list orders, optional     *)
(* coalescing, headers and alignment, driven by a list of operations in    *)
(* which a pointer may be freed more than once.                            *)
(*                                                                         *)
(* An entry of the free list is <<address, size>>.  A definition whose     *)
(* name ends in Faulty is a plausible mistake in the definition that       *)
(* follows it; no specification uses it.                                   *)
(***************************************************************************)
EXTENDS Integers, Sequences, SequencesExt, FiniteSets, FiniteSetsExt

CONSTANTS Settings,     \* size, headerSize, policy, order, coalesce, align
          AllocSizes,   \* sizes asked for
          MaxOps

baseAddr == 1000        \* the default of -b
NoAlign == -1
Nowhere == -1

(* What the constructor asserts, of a heap that has a byte and a header of some
   size or none. *)
ASSUME SettingsAssumption ==
    /\ Settings \subseteq
         [size : Nat \ {0}, headerSize : Nat, align : {NoAlign} \cup (Nat \ {0}),
          policy : {"BEST", "WORST", "FIRST"},
          order : {"ADDRSORT", "SIZESORT+", "SIZESORT-", "INSERT-FRONT", "INSERT-BACK"},
          coalesce : BOOLEAN]
    /\ AllocSizes \subseteq Nat
    /\ MaxOps \in Nat

VARIABLE heap

NewHeaps ==
    {[opt      |-> o,
      freelist |-> <<<<baseAddr, o.size>>>>,
      sizemap  |-> [a \in {} |-> 0],
      p        |-> [c \in {} |-> 0],    \* addresses returned, by number of the call
      c        |-> 0,                   \* allocations asked for
      ops      |-> 0,
      empty    |-> FALSE,               \* some allocation was of no bytes
      error    |-> FALSE] : o \in Settings}

HeapInit == heap \in NewHeaps

-----------------------------------------------------------------------------
(* The size looked for: aligned, and with room for the header. *)
Needed(h, size) ==
    LET left == size % h.opt.align IN
    size + h.opt.headerSize +
        (IF h.opt.align = NoAlign \/ left = 0 THEN 0 ELSE h.opt.align - left)

(* The place in the list that the policy chooses, the first of equals. *)
Chosen(h, size) ==
    LET fits == {i \in DOMAIN h.freelist : h.freelist[i][2] >= size}
        Smallest == {i \in fits : \A j \in fits : h.freelist[i][2] <= h.freelist[j][2]}
        Largest == {i \in fits : \A j \in fits : h.freelist[i][2] >= h.freelist[j][2]}
    IN  CASE fits = {} -> 0
          [] fits # {} /\ h.opt.policy = "FIRST" -> Min(fits)
          [] fits # {} /\ h.opt.policy = "BEST" -> Min(Smallest)
          [] fits # {} /\ h.opt.policy = "WORST" -> Min(Largest)

Extended(f, x, v) == [y \in DOMAIN f \cup {x} |-> IF y = x THEN v ELSE f[y]]

(* addToMap asserts that the address is not in use. *)
addToMap(h, addr, size) ==
    IF addr \in DOMAIN h.sizemap THEN [h EXCEPT !.error = TRUE]
    ELSE [h EXCEPT !.sizemap = Extended(h.sizemap, addr, size)]

TakenFaulty(h, i, size) ==
    LET e == h.freelist[i] IN
    IF e[2] > size THEN [h.freelist EXCEPT ![i] = <<e[1] + size, e[2]>>] ELSE RemoveAt(h.freelist, i)
Taken(h, i, size) ==
    LET e == h.freelist[i] IN
    IF e[2] > size THEN [h.freelist EXCEPT ![i] = <<e[1] + size, e[2] - size>>]
    ELSE RemoveAt(h.freelist, i)

malloc(h, request) ==
    LET size == Needed(h, request)
        i == Chosen(h, size)
    IN  IF i = 0 THEN [ptr |-> Nowhere, heap |-> h]
        ELSE [ptr |-> h.freelist[i][1],
              heap |-> addToMap([h EXCEPT !.freelist = Taken(h, i, size)], h.freelist[i][1], size)]

-----------------------------------------------------------------------------
(* sorted(list, key) keeps the order of elements with equal keys: where the
   element at i goes. *)
Position(keys, i) ==
    Cardinality({j \in DOMAIN keys : keys[j] < keys[i] \/ (keys[j] = keys[i] /\ j <= i)})
SortedBy(list, keys) ==
    [k \in DOMAIN list |-> list[CHOOSE i \in DOMAIN list : Position(keys, i) = k]]

Returned(order, list, e) ==
    LET longer == Append(list, e)
        addresses == [i \in DOMAIN longer |-> longer[i][1]]
        sizes == [i \in DOMAIN longer |-> longer[i][2]]
    IN  CASE order = "INSERT-BACK" -> longer
          [] order = "INSERT-FRONT" -> <<e>> \o list
          [] order = "ADDRSORT" -> SortedBy(longer, addresses)
          [] order = "SIZESORT+" -> SortedBy(longer, sizes)
          [] order = "SIZESORT-" -> SortedBy(longer, [i \in DOMAIN sizes |-> -sizes[i]])

(* An entry that begins where the one before it in the list ends joins it.  A
   joined entry ends where the last of its parts ends, so that the list falls
   into runs, and each run becomes one entry. *)
End(e) == e[1] + e[2]
RunStarts(list) == {i \in DOMAIN list : i = 1 \/ list[i][1] # End(list[i - 1])}
RunStart(list, k) ==
    CHOOSE i \in RunStarts(list) : Cardinality({j \in RunStarts(list) : j <= i}) = k
RunEnd(list, i) == Max({j \in i .. Len(list) : \A m \in i + 1 .. j : m \notin RunStarts(list)})
Coalesced(list) ==
    [k \in 1 .. Cardinality(RunStarts(list)) |->
        LET i == RunStart(list, k) IN <<list[i][1], End(list[RunEnd(list, i)]) - list[i][1]>>]

free(h, addr) ==
    LET list == Returned(h.opt.order, h.freelist, <<addr, h.sizemap[addr]>>) IN
    IF addr \notin DOMAIN h.sizemap THEN h
    ELSE [h EXCEPT !.freelist = IF h.opt.coalesce THEN Coalesced(list) ELSE list,
                   !.sizemap = [a \in DOMAIN h.sizemap \ {addr} |-> h.sizemap[a]]]

-----------------------------------------------------------------------------
(* The operations of -A, in any order: +size and -index. *)
Ready == heap.ops < MaxOps /\ ~heap.error

AllocOp(size) ==
    /\ Ready
    /\ LET r == malloc(heap, size) IN
       heap' = [r.heap EXCEPT
                  !.p = IF r.ptr = Nowhere THEN @ ELSE Extended(@, heap.c, r.ptr),
                  !.c = @ + 1,
                  !.empty = @ \/ Needed(heap, size) = 0,
                  !.ops = @ + 1]

(* The index is compared with the number of successful allocations, though it
   counts the failed ones: looking up a failed one raises an error. *)
FreeOp(index) ==
    /\ Ready
    /\ index < Cardinality(DOMAIN heap.p)
    /\ heap' = IF index \in DOMAIN heap.p
               THEN [free(heap, heap.p[index]) EXCEPT !.ops = @ + 1]
               ELSE [heap EXCEPT !.error = TRUE]

HeapEnded == ~Ready /\ UNCHANGED heap

HeapNext ==
    \/ \E size \in AllocSizes : AllocOp(size)
    \/ \E index \in 0 .. MaxOps : FreeOp(index)
    \/ HeapEnded

HeapSpec == HeapInit /\ [][HeapNext]_heap

-----------------------------------------------------------------------------
HeapTypeOK ==
    /\ \A i \in DOMAIN heap.freelist : heap.freelist[i] \in Nat \X Nat
    /\ heap.sizemap \in [DOMAIN heap.sizemap -> Nat]
    /\ Range(heap.p) \subseteq Nat

(* The bytes an entry covers. *)
Bytes(e) == e[1] .. End(e) - 1
FreeEntries(h) == {<<"free", i>> : i \in DOMAIN h.freelist}
Entry(h, r) == IF r[1] = "free" THEN h.freelist[r[2]] ELSE <<r[2], h.sizemap[r[2]]>>
Regions(h) == FreeEntries(h) \cup {<<"used", a>> : a \in DOMAIN h.sizemap}

(* Every byte of the heap is in one free or one allocated region. *)
Tiled(h) ==
    \A b \in baseAddr .. baseAddr + h.opt.size - 1 :
        Cardinality({r \in Regions(h) : b \in Bytes(Entry(h, r))}) = 1

(* With the list in address order, coalescing leaves no two entries that could
   be one; in the other orders neighbours in memory may stay apart. *)
Whole(h) ==
    h.opt.coalesce /\ h.opt.order = "ADDRSORT" /\ ~h.empty =>
        \A i, j \in DOMAIN h.freelist : h.freelist[j][1] # End(h.freelist[i])

(* Two allocations collide only when one of them was for no bytes at all. *)
CollidesAtZero(h) ==
    h.error => \/ h.empty
               \/ \E k \in 0 .. h.c - 1 : k \notin DOMAIN h.p

(* No sequence of allocations and frees, repeated and stale frees included,
   loses or doubles a byte of the heap. *)
HeapTiled ==
    /\ HeapTypeOK
    /\ CollidesAtZero(heap)
    /\ ~heap.error => Tiled(heap) /\ Whole(heap)
=============================================================================
