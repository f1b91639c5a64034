---------------------------- MODULE PagingPolicy ----------------------------
(***************************************************************************)
(* The page cache of ostep/homework/vm-beyondphys-policy/                  *)
(* paging-policy.py under its seven replacement policies.                  *)
(*                                                                         *)
(* The clock is one in name: it looks at pages at random, one after the    *)
(* other, and evicts the first whose reference count is 0.                 *)
(*                                                                         *)
(* A definition whose name ends in Faulty is a plausible mistake in the    *)
(* definition that follows it; no specification uses it.                   *)
(***************************************************************************)
EXTENDS Integers, Sequences, SequencesExt, FiniteSets, FiniteSetsExt, Functions

CONSTANTS Setups,       \* policy, cachesize, clockbits
          AddrLists     \* lists of pages

VARIABLE cache

Init ==
    \E setup \in Setups, addrs \in AddrLists :
        cache = [policy    |-> setup.policy,
                 cachesize |-> setup.cachesize,
                 clockbits |-> setup.clockbits,
                 addrList  |-> addrs,
                 addrIndex |-> 1,
                 count     |-> 0,
                 memory    |-> <<>>,
                 ref       |-> [p \in {} |-> 0],
                 hits      |-> 0,
                 miss      |-> 0,
                 phase     |-> "access"]    \* or "scan", "IndexError"

Page(c) == c.addrList[c.addrIndex]

-----------------------------------------------------------------------------
(* The index of a page's next reference, or one past the last index. *)
whenReferenced(c, page) ==
    LET future == {k \in c.addrIndex + 1 .. Len(c.addrList) : c.addrList[k] = page}
    IN  IF future = {} THEN Len(c.addrList) + 1 ELSE Min(future)

(* OPT: the last of the pages that are needed latest; UNOPT: the first of those
   needed soonest. *)
LatestFaulty(c) ==
    CHOOSE k \in 1 .. c.count : \A j \in 1 .. c.count :
        whenReferenced(c, c.memory[j]) >= whenReferenced(c, c.memory[k])
Latest(c) ==
    LET when(k) == whenReferenced(c, c.memory[k]) IN
    CHOOSE k \in 1 .. c.count : \A j \in 1 .. c.count :
        when(j) < when(k) \/ (when(j) = when(k) /\ j <= k)
Soonest(c) ==
    LET when(k) == whenReferenced(c, c.memory[k]) IN
    CHOOSE k \in 1 .. c.count : \A j \in 1 .. c.count :
        when(j) > when(k) \/ (when(j) = when(k) /\ j >= k)

(* The indices a policy other than CLOCK may evict. *)
Victims(c) ==
    CASE c.policy \in {"FIFO", "LRU"} -> {1}
      [] c.policy = "MRU" -> {c.count}
      [] c.policy = "RAND" -> 1 .. c.count
      [] c.policy = "OPT" -> {Latest(c)}
      [] c.policy = "UNOPT" -> {Soonest(c)}

(* The end of a turn: the reference count of the page, for every policy. *)
Referenced(c) ==
    LET n == Page(c)
        more == Min({c.ref[n] + 1, c.clockbits})
    IN  [c EXCEPT !.ref = [p \in (DOMAIN @) \cup {n} |->
                             IF p # n THEN @[p] ELSE IF n \in DOMAIN @ THEN more ELSE 1],
                  !.addrIndex = @ + 1,
                  !.phase = "access"]

Loaded(c) == Referenced([c EXCEPT !.memory = Append(@, Page(c))])

-----------------------------------------------------------------------------
Accessing == cache.phase = "access" /\ cache.addrIndex <= Len(cache.addrList)
IsHit == Contains(cache.memory, Page(cache))
Missed == [cache EXCEPT !.miss = @ + 1]

Hit ==
    /\ Accessing
    /\ IsHit
    /\ LET moved == IF cache.policy \in {"LRU", "MRU"}
                    THEN Append(RemoveFirst(cache.memory, Page(cache)), Page(cache))
                    ELSE cache.memory
       IN  cache' = Referenced([cache EXCEPT !.hits = @ + 1, !.memory = moved])

MissNotFull ==
    /\ Accessing
    /\ ~IsHit
    /\ cache.count # cache.cachesize
    /\ cache' = Loaded([Missed EXCEPT !.count = @ + 1])

(* A cache of no pages is full at once and has nothing to evict. *)
MissFull ==
    /\ Accessing
    /\ ~IsHit
    /\ cache.count = cache.cachesize
    /\ IF cache.count = 0 THEN cache' = [Missed EXCEPT !.phase = "IndexError"]
       ELSE IF cache.policy = "CLOCK" THEN cache' = [Missed EXCEPT !.phase = "scan"]
       ELSE \E k \in Victims(cache) : cache' = Loaded([Missed EXCEPT !.memory = RemoveAt(@, k)])

Scan(k) ==
    /\ cache.phase = "scan"
    /\ LET page == cache.memory[k] IN
       cache' = IF cache.ref[page] >= 1 THEN [cache EXCEPT !.ref[page] = @ - 1]
                ELSE Loaded([cache EXCEPT !.memory = RemoveAt(@, k),
                                          !.ref = Restrict(@, (DOMAIN @) \ {page})])

Ended == ~Accessing /\ cache.phase # "scan" /\ UNCHANGED cache

Next == Hit \/ MissNotFull \/ MissFull \/ (\E k \in 1 .. cache.count : Scan(k)) \/ Ended

-----------------------------------------------------------------------------
Seen == SubSeq(cache.addrList, 1, cache.addrIndex - 1)

(* The cache holds what it counts, each page once; the scan never looks up a
   page without a reference count, and counts do not outlive their pages. *)
CacheSound ==
    /\ IsInjective(cache.memory)
    /\ Len(cache.memory) = cache.count
    /\ cache.count <= cache.cachesize
    /\ cache.policy = "CLOCK" =>
         /\ DOMAIN cache.ref = ToSet(cache.memory)
         /\ Range(cache.ref) \subseteq 0 .. Max({1, cache.clockbits})

(* LRU keeps the pages used last, in the order of their last use. *)
LastUse(page) == Max({k \in DOMAIN Seen : Seen[k] = page})
KeepsRecent ==
    cache.policy = "LRU" /\ cache.phase = "access" =>
        /\ \A j, k \in DOMAIN cache.memory : j < k => LastUse(cache.memory[j]) < LastUse(cache.memory[k])
        /\ \A p \in ToSet(Seen) \ ToSet(cache.memory) : \A q \in ToSet(cache.memory) : LastUse(p) < LastUse(q)

(* The numbers of misses any choice of victims can end with. *)
Serve(states, page) ==
    UNION {IF page \in s[1] THEN {s}
           ELSE IF Cardinality(s[1]) < cache.cachesize THEN {<<s[1] \cup {page}, s[2] + 1>>}
           ELSE {<<(s[1] \ {v}) \cup {page}, s[2] + 1>> : v \in s[1]} : s \in states}
Possible == {s[2] : s \in FoldLeft(Serve, {<<{}, 0>>}, cache.addrList)}

(* No choice of victims misses less often than OPT, and none more often than
   UNOPT. *)
BestAndWorst ==
    cache.phase = "access" /\ cache.addrIndex > Len(cache.addrList) =>
        /\ cache.policy = "OPT" => cache.miss = Min(Possible)
        /\ cache.policy = "UNOPT" => cache.miss = Max(Possible)

PagesSound == CacheSound /\ KeepsRecent /\ BestAndWorst
=============================================================================
