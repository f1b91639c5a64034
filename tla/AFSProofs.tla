----------------------------- MODULE AFSProofs -----------------------------
(***************************************************************************)
(* Proofs about the AFS simulator, for every number of clients, files,     *)
(* descriptors and every trace length, with and without overlapping opens. *)
(***************************************************************************)
EXTENDS AFS, FiniteSetTheorems, TLAPS

(* What every client's own micro-operation leaves typed. *)
LEMMA EntryTyping ==
    ASSUME NEW e \in Entry
    PROVE  /\ [e EXCEPT !.refcnt = @ + 1] \in Entry
           /\ [e EXCEPT !.valid = FALSE] \in Entry
           /\ \A v \in Nat : [e EXCEPT !.data = v, !.dirty = TRUE] \in Entry
           /\ Released(e) \in Entry
           /\ Kept(Released(e)) \in Entry \cup {NotCached}
<1>1. /\ e = [data |-> e.data, dirty |-> e.dirty,
              refcnt |-> e.refcnt, valid |-> e.valid]
      /\ e.data \in Nat /\ e.dirty \in BOOLEAN
      /\ e.refcnt \in Int /\ e.valid \in BOOLEAN
  BY DEF Entry
<1>2. [e EXCEPT !.refcnt = @ + 1] \in Entry
  BY <1>1 DEF Entry
<1>3. [e EXCEPT !.valid = FALSE] \in Entry
  BY <1>1 DEF Entry
<1>4. ASSUME NEW v \in Nat
      PROVE  [e EXCEPT !.data = v, !.dirty = TRUE] \in Entry
  BY <1>1 DEF Entry
<1>5. Released(e) \in Entry
  BY <1>1 DEF Entry, Released
<1>6. QED
  BY <1>2, <1>3, <1>4, <1>5 DEF Kept

(* Every reachable state of the simulator is well typed. *)
THEOREM TypeCorrect == Spec => []TypeOK
<1>1. Init => TypeOK
  BY AFSAssumption, FS_CardinalityType DEF Init, TypeOK, Files
<1>2. TypeOK /\ [Next]_vars => TypeOK'
  <2> SUFFICES ASSUME TypeOK, [Next]_vars PROVE TypeOK'
    OBVIOUS
  <2> USE AFSAssumption DEF TypeOK
  <2>1. ASSUME NEW c \in Clients, NEW d \in FDs, NEW f \in Files, Open(c, d, f)
        PROVE  TypeOK'
    <3>1. Fetched(c, f) \in Entry
      <4>1. CASE LocalCopy(c, f)
        <5>1. cache[c][f] \in Entry
          BY <4>1 DEF LocalCopy
        <5>2. QED
          BY <4>1, <5>1, EntryTyping DEF Fetched
      <4>2. CASE ~LocalCopy(c, f)
        <5>1. contents[f] \in Nat
          OBVIOUS
        <5>2. QED
          BY <4>2, <5>1 DEF Fetched, Entry
      <4>3. QED
        BY <4>1, <4>2
    <3>2. Promised(c, f) \in SUBSET Files
      BY DEF Promised
    <3>3. QED
      BY <2>1, <3>1, <3>2 DEF Open, Stepping
  <2>2. ASSUME NEW c \in Clients, NEW d \in FDs, Read(c, d)
        PROVE  TypeOK'
    <3>1. cache[c][sess[c][d]].data \in Nat
      BY <2>2 DEF Read, IsOpen, Entry
    <3>2. QED
      BY <2>2, <3>1 DEF Read, Stepping
  <2>3. ASSUME NEW c \in Clients, NEW d \in FDs, Write(c, d)
        PROVE  TypeOK'
    <3> DEFINE f == sess[c][d]
    <3>1. f \in Files /\ cache[c][f] \in Entry
      BY <2>3 DEF Write, IsOpen
    <3>2. [cache[c][f] EXCEPT !.data = value, !.dirty = TRUE] \in Entry
      BY <3>1, EntryTyping
    <3>3. cache[c][f].data \in Nat
      BY <3>1 DEF Entry
    <3>4. QED
      BY <2>3, <3>1, <3>2, <3>3 DEF Write, Stepping
  <2>4. ASSUME NEW c \in Clients, NEW d \in FDs, Close(c, d)
        PROVE  TypeOK'
    <3> DEFINE f == sess[c][d]
               e == cache[c][f]
    <3>1. f \in Files /\ e \in Entry
      BY <2>4 DEF Close, IsOpen
    <3>2. Kept(Released(e)) \in Entry \cup {NotCached}
      BY <3>1, EntryTyping
    <3>3. ASSUME NEW k \in Clients
          PROVE  Invalidated(k, f) \in Entry \cup {NotCached}
      <4>1. cache[k][f] \in Entry \cup {NotCached}
        BY <3>1
      <4>2. QED
        BY <4>1, EntryTyping DEF Invalidated
    <3>4. e.data \in Nat
      BY <3>1 DEF Entry
    <3>5. cache' \in [Clients -> [Files -> Entry \cup {NotCached}]]
      BY <2>4, <3>1, <3>2, <3>3 DEF Close
    <3>6. QED
      BY <2>4, <3>1, <3>4, <3>5 DEF Close, Stepping, PromisesAfterPut
  <2>5. ASSUME NEW c \in Clients, NEW d \in FDs, Abort(c, d)
        PROVE  TypeOK'
    BY <2>5 DEF Abort, Stepping
  <2>6. ASSUME NEW c \in Clients, Finish(c)
        PROVE  TypeOK'
    BY <2>6 DEF Finish
  <2>7. CASE UNCHANGED vars
    BY <2>7 DEF vars
  <2>8. QED
    BY <2>1, <2>2, <2>3, <2>4, <2>5, <2>6, <2>7 DEF Next, Step, Ended
<1>3. QED
  BY <1>1, <1>2, PTL DEF Spec

-----------------------------------------------------------------------------
(* The callback lists and the validity bits are inductive only together: a
   close that publishes new contents makes other copies stale, and reaches
   them because the server promised to call their holders back. *)
Coherence == CallbackPromise /\ ValidIsCurrent

(* For any number of clients and files a valid clean copy equals the server's
   contents, whatever the clients' opens, writes, callbacks and closes do and
   however they interleave: an open never returns stale contents. *)
THEOREM CacheCoherence == Spec => [](CallbackPromise /\ ValidIsCurrent)
<1>1. Init => Coherence
  BY DEF Init, Coherence, CallbackPromise, ValidIsCurrent, LocalCopy
<1>2. TypeOK /\ Coherence /\ [Next]_vars => Coherence'
  <2> SUFFICES ASSUME TypeOK, Coherence, [Next]_vars PROVE Coherence'
    OBVIOUS
  <2> USE DEF TypeOK, Coherence, CallbackPromise, ValidIsCurrent, LocalCopy
  <2>1. ASSUME NEW c \in Clients, NEW d \in FDs, NEW f \in Files, Open(c, d, f)
        PROVE  Coherence'
    <3>1. CallbackPromise'
      BY <2>1 DEF Open, Promised
    <3>2. ValidIsCurrent'
      <4> SUFFICES ASSUME NEW k \in Clients, NEW g \in Files, LocalCopy(k, g)',
                          ~cache'[k][g].dirty
                   PROVE  cache'[k][g].data = contents'[g]
        OBVIOUS
      <4>1. CASE k = c /\ g = f
        <5>1. cache'[k][g] = Fetched(c, f) /\ contents' = contents
          BY <2>1, <4>1 DEF Open
        <5>2. CASE LocalCopy(c, f)
          <6>1. cache[c][f] \in Entry
            BY <5>2
          <6>2. QED
            BY <5>1, <5>2, <6>1, <4>1 DEF Fetched, Entry
        <5>3. CASE ~LocalCopy(c, f)
          BY <5>1, <5>3, <4>1 DEF Fetched
        <5>4. QED
          BY <5>2, <5>3
      <4>2. CASE ~(k = c /\ g = f)
        BY <2>1, <4>2 DEF Open
      <4>3. QED
        BY <4>1, <4>2
    <3>3. QED
      BY <3>1, <3>2
  <2>2. ASSUME NEW c \in Clients, NEW d \in FDs, Read(c, d)
        PROVE  Coherence'
    BY <2>2 DEF Read
  <2>3. ASSUME NEW c \in Clients, NEW d \in FDs, Write(c, d)
        PROVE  Coherence'
    <3> DEFINE f == sess[c][d]
    <3>1. f \in Files /\ cache[c][f] \in Entry
      BY <2>3 DEF Write, IsOpen
    <3>2. cache'[c][f].dirty
      BY <2>3, <3>1 DEF Write, Entry
    <3>3. \A k \in Clients, g \in Files :
             ~(k = c /\ g = f) => cache'[k][g] = cache[k][g]
      BY <2>3, <3>1 DEF Write
    <3>4. contents' = contents /\ callbacks' = callbacks
      BY <2>3 DEF Write
    <3>5. CallbackPromise'
      BY <2>3, <3>3, <3>4 DEF Write
    <3>6. ValidIsCurrent'
      <4> SUFFICES ASSUME NEW k \in Clients, NEW g \in Files, LocalCopy(k, g)',
                          ~cache'[k][g].dirty
                   PROVE  cache'[k][g].data = contents'[g]
        OBVIOUS
      <4>1. ~(k = c /\ g = f)
        BY <3>2
      <4>2. cache'[k][g] = cache[k][g] /\ contents'[g] = contents[g]
        BY <3>3, <3>4, <4>1
      <4>3. QED
        BY <4>2
    <3>7. QED
      BY <3>5, <3>6
  <2>4. ASSUME NEW c \in Clients, NEW d \in FDs, Close(c, d)
        PROVE  Coherence'
    <3> DEFINE f == sess[c][d]
               e == cache[c][f]
    <3>1. f \in Files /\ e \in Entry /\ e # NotCached
      BY <2>4 DEF Close, IsOpen
    <3>2. callbacks' = callbacks
      BY <2>4 DEF Close, PromisesAfterPut
    <3>3. cache'[c][f] = Kept(Released(e))
      BY <2>4, <3>1 DEF Close
    <3>4. ASSUME NEW k \in Clients, NEW g \in Files, g # f
          PROVE  cache'[k][g] = cache[k][g] /\ contents'[g] = contents[g]
      BY <2>4, <3>1, <3>4 DEF Close
    <3>5. ASSUME NEW k \in Clients, k # c
          PROVE  cache'[k][f] = IF e.dirty THEN Invalidated(k, f) ELSE cache[k][f]
      BY <2>4, <3>1, <3>5 DEF Close
    <3>6. contents'[f] = IF e.dirty THEN e.data ELSE contents[f]
      BY <2>4, <3>1 DEF Close
    <3>7. CallbackPromise'
      <4> SUFFICES ASSUME NEW k \in Clients, NEW g \in Files,
                          cache'[k][g] # NotCached
                   PROVE  g \in callbacks[k]
        BY <3>2
      <4>1. CASE g # f
        BY <3>4, <4>1
      <4>2. CASE g = f /\ k = c
        BY <3>1, <4>2
      <4>3. CASE g = f /\ k # c
        <5>1. cache[k][f] # NotCached
          BY <3>5, <4>3 DEF Invalidated
        <5>2. QED
          BY <3>1, <4>3, <5>1
      <4>4. QED
        BY <4>1, <4>2, <4>3
    <3>8. ValidIsCurrent'
      <4> SUFFICES ASSUME NEW k \in Clients, NEW g \in Files, LocalCopy(k, g)',
                          ~cache'[k][g].dirty
                   PROVE  cache'[k][g].data = contents'[g]
        OBVIOUS
      <4>1. CASE g # f
        BY <3>4, <4>1
      <4>2. CASE g = f /\ k = c
        <5>1. cache'[c][f] = Released(e)
          BY <3>3, <4>2 DEF Kept
        <5>2. cache'[c][f].data = e.data
          BY <5>1 DEF Released
        <5>3. cache'[c][f].valid = (e.dirty \/ e.valid)
          BY <5>1 DEF Released
        <5>4. e.dirty \/ e.valid
          BY <5>3, <4>2
        <5>5. QED
          BY <5>2, <5>4, <3>1, <3>6, <4>2
      <4>3. CASE g = f /\ k # c
        <5>1. CASE e.dirty
          <6>1. f \in callbacks[k] \/ cache[k][f] = NotCached
            BY <3>1
          <6>2. CASE cache[k][f] = NotCached
            BY <5>1, <6>2, <3>5, <4>3 DEF Invalidated
          <6>3. CASE f \in callbacks[k] /\ cache[k][f] # NotCached
            <7>1. cache[k][f] \in Entry
              BY <6>3, <3>1
            <7>2. cache'[k][f].valid = FALSE
              BY <5>1, <6>3, <7>1, <3>5, <4>3 DEF Invalidated, Entry
            <7>3. QED
              BY <7>2, <4>3
          <6>4. QED
            BY <6>1, <6>2, <6>3
        <5>2. CASE ~e.dirty
          BY <5>2, <3>5, <3>6, <3>1, <4>3
        <5>3. QED
          BY <5>1, <5>2
      <4>4. QED
        BY <4>1, <4>2, <4>3
    <3>9. QED
      BY <3>7, <3>8
  <2>5. ASSUME NEW c \in Clients, NEW d \in FDs, Abort(c, d)
        PROVE  Coherence'
    BY <2>5 DEF Abort
  <2>6. ASSUME NEW c \in Clients, Finish(c)
        PROVE  Coherence'
    BY <2>6 DEF Finish
  <2>7. CASE UNCHANGED vars
    BY <2>7 DEF vars
  <2>8. QED
    BY <2>1, <2>2, <2>3, <2>4, <2>5, <2>6, <2>7 DEF Next, Step, Ended
<1>3. QED
  BY <1>1, <1>2, TypeCorrect, PTL DEF Spec, Coherence

(* In particular the server knows, for any number of clients, every client
   that holds a copy, valid or not. *)
THEOREM HoldersKnown == Spec => []CallbackPromise
  BY CacheCoherence, PTL

-----------------------------------------------------------------------------
(* The main loop's count of unfinished clients is exact until it ends. *)
LoopCounts ==
    status # "exited" => numrunning = Cardinality({c \in Clients : ~done[c]})

(* The main loop never stops while a client is in the middle of its trace. *)
THEOREM LoopEndsRight == Spec => []ExitsWhenAllDone
<1> DEFINE Inv == LoopCounts /\ ExitsWhenAllDone
<1>1. Init => Inv
  BY DEF Init, LoopCounts, ExitsWhenAllDone
<1>2. TypeOK /\ Inv /\ [Next]_vars => Inv'
  <2> SUFFICES ASSUME TypeOK, Inv, [Next]_vars PROVE Inv'
    OBVIOUS
  <2>1. ASSUME NEW c \in Clients, Finish(c)
        PROVE  Inv'
    <3> DEFINE Undone == {k \in Clients : ~done[k]}
    <3>1. c \in Undone /\ Undone' = Undone \ {c}
      BY <2>1 DEF Finish, TypeOK
    <3>2. IsFiniteSet(Undone)
      BY AFSAssumption, FS_Subset
    <3>3. Cardinality(Undone) \in Nat /\ Cardinality(Undone') = Cardinality(Undone) - 1
      BY <3>1, <3>2, FS_RemoveElement, FS_CardinalityType
    <3>4. numrunning = Cardinality(Undone) /\ numrunning' = numrunning - 1
      BY <2>1 DEF Finish, LoopCounts
    <3>5. ExitsWhenAllDone'
      <4> SUFFICES ASSUME numrunning = 1 PROVE Undone' = {}
        BY <2>1 DEF Finish, ExitsWhenAllDone, TypeOK
      <4>1. IsFiniteSet(Undone') /\ Cardinality(Undone') = 0
        BY <3>1, <3>2, <3>3, <3>4, FS_RemoveElement
      <4>2. QED
        BY <4>1, FS_EmptySet
    <3>6. QED
      BY <3>3, <3>4, <3>5 DEF LoopCounts
  <2>2. ASSUME NEW c \in Clients, Step(c), ~Finish(c)
        PROVE  Inv'
    <3>1. /\ UNCHANGED <<done, numrunning>>
          /\ status = "running" /\ status' \in {"running", "aborted"}
      BY <2>2 DEF Step, Open, Read, Write, Close, Abort, Stepping
    <3>2. QED
      BY <3>1 DEF LoopCounts, ExitsWhenAllDone
  <2>3. CASE UNCHANGED vars
    BY <2>3 DEF vars, LoopCounts, ExitsWhenAllDone
  <2>4. QED
    BY <2>1, <2>2, <2>3 DEF Next, Ended
<1>3. QED
  BY <1>1, <1>2, TypeCorrect, PTL DEF Spec

-----------------------------------------------------------------------------
(* What is true of the cache when no client opens a file it has open.  One
   descriptor of a client has the file at most; an entry is counted once while
   it is open and not at all while it is not; and only an open entry is dirty. *)
OneOpen ==
    \A c \in Clients, d1, d2 \in FDs :
        IsOpen(c, d1) /\ sess[c][d1] = sess[c][d2] => d1 = d2
CountedOnce ==
    /\ \A c \in Clients, d \in FDs :
         IsOpen(c, d) => cache[c][sess[c][d]] # NotCached /\ cache[c][sess[c][d]].refcnt = 1
    /\ \A c \in Clients, f \in Files :
         OpenFDs(c, f) = {} /\ cache[c][f] # NotCached =>
             cache[c][f].refcnt = 0 /\ ~cache[c][f].dirty
Apart == ~overlap => OneOpen /\ CountedOnce /\ status # "aborted"

(* Whether traces overlap is settled from the start. *)
LEMMA OverlapFixed == [Next]_vars => overlap' = overlap
<1> SUFFICES ASSUME [Next]_vars PROVE overlap' = overlap
  OBVIOUS
<1>1. ASSUME NEW c \in Clients, NEW d \in FDs,
             Read(c, d) \/ Write(c, d) \/ Close(c, d) \/ Abort(c, d)
      PROVE  overlap' = overlap
  BY <1>1 DEF Read, Write, Close, Abort, Stepping
<1>2. ASSUME NEW c \in Clients, NEW d \in FDs, NEW f \in Files, Open(c, d, f)
      PROVE  overlap' = overlap
  BY <1>2 DEF Open, Stepping
<1>3. ASSUME NEW c \in Clients, Finish(c)
      PROVE  overlap' = overlap
  BY <1>3 DEF Finish
<1>4. CASE UNCHANGED vars
  BY <1>4 DEF vars
<1>5. QED
  BY <1>1, <1>2, <1>3, <1>4 DEF Next, Step, Ended

LEMMA ApartInit == Init => Apart
  BY DEF Init, Apart, OneOpen, CountedOnce, IsOpen, OpenFDs, Files, Unused

LEMMA ApartNext == TypeOK /\ Apart /\ [Next]_vars => Apart'
<1> SUFFICES ASSUME TypeOK, Apart, [Next]_vars, ~overlap, overlap' = overlap
             PROVE  OneOpen' /\ CountedOnce' /\ status' # "aborted"
  BY OverlapFixed DEF Apart
<1> USE DEF TypeOK, Apart, OneOpen, CountedOnce, IsOpen, OpenFDs
<1>1. ASSUME NEW c \in Clients, NEW d \in FDs, NEW f \in Files, Open(c, d, f)
      PROVE  OneOpen' /\ CountedOnce' /\ status' # "aborted"
  <2>1. OneOpen'
    BY <1>1 DEF Open, Unused
  <2>2. OpenFDs(c, f) = {}
    BY <1>1 DEF Open
  <2>3. Fetched(c, f) # NotCached /\ Fetched(c, f).refcnt = 1
    <3>1. CASE LocalCopy(c, f)
      <4>1. cache[c][f] \in Entry /\ cache[c][f].refcnt = 0
        BY <2>2, <3>1 DEF LocalCopy
      <4>2. Fetched(c, f) = [cache[c][f] EXCEPT !.refcnt = @ + 1]
        BY <3>1 DEF Fetched
      <4>3. Fetched(c, f) \in Entry
        BY <4>1, <4>2, EntryTyping
      <4>4. Fetched(c, f).refcnt = 1
        BY <4>1, <4>2 DEF Entry
      <4>5. QED
        BY <4>3, <4>4, AFSAssumption
    <3>2. CASE ~LocalCopy(c, f)
      <4>1. contents[f] \in Nat
        OBVIOUS
      <4>2. Fetched(c, f) \in Entry /\ Fetched(c, f).refcnt = 1
        BY <3>2, <4>1 DEF Fetched, Entry
      <4>3. QED
        BY <4>2, AFSAssumption
    <3>3. QED
      BY <3>1, <3>2
  <2>4. /\ cache'[c][f] = Fetched(c, f)
        /\ \A k \in Clients, g \in Files : ~(k = c /\ g = f) => cache'[k][g] = cache[k][g]
    BY <1>1 DEF Open
  <2>5. /\ sess'[c][d] = f
        /\ \A k \in Clients, b \in FDs : ~(k = c /\ b = d) => sess'[k][b] = sess[k][b]
    BY <1>1 DEF Open
  <2>6. sess[c][d] = Unused /\ Unused \notin Files
    BY <1>1, AFSAssumption DEF Open, Unused, Files
  <2>7. CountedOnce'
    <3>1. ASSUME NEW k \in Clients, NEW b \in FDs, IsOpen(k, b)'
          PROVE  (cache[k][sess[k][b]] # NotCached /\ cache[k][sess[k][b]].refcnt = 1)'
      BY <2>2, <2>3, <2>4, <2>5, <3>1
    <3>2. ASSUME NEW k \in Clients, NEW g \in Files, OpenFDs(k, g)' = {},
                 cache'[k][g] # NotCached
          PROVE  cache'[k][g].refcnt = 0 /\ ~cache'[k][g].dirty
      <4>1. ~(k = c /\ g = f)
        BY <2>5, <3>2
      <4>2. ASSUME NEW b \in FDs PROVE sess[k][b] # g
        <5>1. sess'[k][b] # g
          BY <3>2
        <5>2. QED
          BY <2>5, <2>6, <5>1
      <4>3. OpenFDs(k, g) = {}
        BY <4>2
      <4>4. QED
        BY <2>4, <3>2, <4>1, <4>3
    <3>3. QED
      BY <3>1, <3>2
  <2>8. QED
    BY <1>1, <2>1, <2>7 DEF Open
<1>2. ASSUME NEW c \in Clients, NEW d \in FDs, Read(c, d)
      PROVE  OneOpen' /\ CountedOnce' /\ status' # "aborted"
  BY <1>2 DEF Read
<1>3. ASSUME NEW c \in Clients, NEW d \in FDs, Write(c, d)
      PROVE  OneOpen' /\ CountedOnce' /\ status' # "aborted"
  <2> PICK f \in Files : f = sess[c][d]
    BY <1>3 DEF Write
  <2>1. cache[c][f] \in Entry /\ d \in OpenFDs(c, f)
    BY <1>3 DEF Write
  <2>2. cache'[c][f] \in Entry /\ cache'[c][f].refcnt = cache[c][f].refcnt
    <3>1. cache'[c][f] = [cache[c][f] EXCEPT !.data = value, !.dirty = TRUE] /\ value \in Nat
      BY <1>3 DEF Write
    <3>2. cache'[c][f] \in Entry
      <4> HIDE DEF TypeOK, Apart, OneOpen, CountedOnce, OpenFDs
      <4>1. [cache[c][f] EXCEPT !.data = value, !.dirty = TRUE] \in Entry
        BY <2>1, <3>1, EntryTyping
      <4>2. QED
        BY <3>1, <4>1
    <3>3. cache'[c][f].refcnt = cache[c][f].refcnt
      BY <2>1, <3>1 DEF Entry
    <3>4. QED
      BY <3>2, <3>3
  <2>3. \A k \in Clients, g \in Files :
           ~(k = c /\ g = f) => cache'[k][g] = cache[k][g]
    BY <1>3, <2>1 DEF Write
  <2>4. sess' = sess /\ status' = status
    BY <1>3 DEF Write
  <2>5. CountedOnce'
    <3>1. ASSUME NEW k \in Clients, NEW b \in FDs, IsOpen(k, b)'
          PROVE  (cache[k][sess[k][b]] # NotCached /\ cache[k][sess[k][b]].refcnt = 1)'
      <4>1. sess'[k][b] = sess[k][b] /\ IsOpen(k, b)
        BY <2>4, <3>1
      <4>2. CASE k = c /\ sess[k][b] = f
        BY <2>2, <4>1, <4>2, AFSAssumption
      <4>3. CASE ~(k = c /\ sess[k][b] = f)
        BY <2>3, <4>1, <4>3
      <4>4. QED
        BY <4>2, <4>3
    <3>2. ASSUME NEW k \in Clients, NEW g \in Files, OpenFDs(k, g)' = {}
          PROVE  cache'[k][g] # NotCached => cache'[k][g].refcnt = 0 /\ ~cache'[k][g].dirty
      <4>1. OpenFDs(k, g) = {}
        BY <2>4, <3>2
      <4>2. ~(k = c /\ g = f)
        BY <2>1, <4>1
      <4>3. QED
        BY <2>3, <4>1, <4>2
    <3>3. QED
      BY <3>1, <3>2
  <2>6. QED
    BY <2>4, <2>5
<1>4. ASSUME NEW c \in Clients, NEW d \in FDs, Close(c, d)
      PROVE  OneOpen' /\ CountedOnce' /\ status' # "aborted"
  <2> PICK f \in Files : f = sess[c][d]
    BY <1>4 DEF Close
  <2> PICK e \in Entry : e = cache[c][f]
    BY <1>4 DEF Close
  <2>1. f \in Files /\ e \in Entry /\ e.refcnt = 1 /\ OpenFDs(c, f) = {d}
    BY <1>4 DEF Close
  <2>2. sess' = [sess EXCEPT ![c][d] = Closed] /\ status' = status
    BY <1>4 DEF Close
  <2>3. OpenFDs(c, f)' = {}
    BY <2>1, <2>2 DEF Closed, Files
  <2>4. cache'[c][f] = Kept(Released(e))
    BY <1>4, <2>1 DEF Close
  <2>5. cache'[c][f] # NotCached => cache'[c][f].refcnt = 0 /\ ~cache'[c][f].dirty
    BY <2>1, <2>4 DEF Kept, Released
  <2>6. ASSUME NEW k \in Clients, NEW g \in Files, ~(k = c /\ g = f)
        PROVE  /\ OpenFDs(k, g)' = OpenFDs(k, g)
               /\ cache'[k][g] = NotCached <=> cache[k][g] = NotCached
               /\ cache[k][g] # NotCached =>
                     /\ cache'[k][g].refcnt = cache[k][g].refcnt
                     /\ cache'[k][g].dirty = cache[k][g].dirty
    <3>1. OpenFDs(k, g)' = OpenFDs(k, g)
      BY <2>1, <2>2, <2>6 DEF Closed, Files
    <3>2. \/ cache'[k][g] = cache[k][g]
          \/ cache'[k][g] = Invalidated(k, f) /\ g = f
      BY <1>4, <2>1, <2>6 DEF Close
    <3>3. CASE cache'[k][g] = cache[k][g]
      BY <3>1, <3>3
    <3>4. CASE cache'[k][g] = Invalidated(k, f) /\ g = f /\ cache[k][g] # NotCached
      <4>1. cache[k][g] \in Entry
        BY <3>4
      <4>2. CASE cache'[k][g] = [cache[k][g] EXCEPT !.valid = FALSE]
        <5>1. cache'[k][g] \in Entry
          BY <4>1, <4>2, EntryTyping
        <5>2. cache'[k][g].refcnt = cache[k][g].refcnt /\ cache'[k][g].dirty = cache[k][g].dirty
          BY <4>1, <4>2 DEF Entry
        <5>3. QED
          BY <3>1, <3>4, <5>1, <5>2, AFSAssumption
      <4>3. QED
        BY <3>1, <3>3, <3>4, <4>2 DEF Invalidated
    <3>5. CASE cache'[k][g] = Invalidated(k, f) /\ g = f /\ cache[k][g] = NotCached
      BY <3>1, <3>5 DEF Invalidated
    <3>6. QED
      BY <3>2, <3>3, <3>4, <3>5
  <2>7. OneOpen'
    BY <2>1, <2>2 DEF Closed, Files
  <2>8. CountedOnce'
    <3>1. ASSUME NEW k \in Clients, NEW b \in FDs, IsOpen(k, b)'
          PROVE  (cache[k][sess[k][b]] # NotCached /\ cache[k][sess[k][b]].refcnt = 1)'
      <4>1. ~(k = c /\ b = d) /\ sess'[k][b] = sess[k][b]
        BY <2>2, <3>1 DEF Closed, Files
      <4>2. ~(k = c /\ sess[k][b] = f) /\ sess[k][b] \in Files
        BY <2>1, <3>1, <4>1
      <4>3. QED
        BY <2>6, <4>1, <4>2
    <3>2. ASSUME NEW k \in Clients, NEW g \in Files
          PROVE  (OpenFDs(k, g) = {} /\ cache[k][g] # NotCached =>
                    cache[k][g].refcnt = 0 /\ ~cache[k][g].dirty)'
      <4>1. CASE k = c /\ g = f
        BY <2>5, <4>1
      <4>2. CASE ~(k = c /\ g = f)
        <5>1. OpenFDs(k, g) = {} /\ cache[k][g] # NotCached =>
                cache[k][g].refcnt = 0 /\ ~cache[k][g].dirty
          OBVIOUS
        <5>2. QED
          BY <2>6, <4>2, <5>1
      <4>3. QED
        BY <4>1, <4>2
    <3>3. QED
      BY <3>1, <3>2
  <2>9. QED
    BY <2>2, <2>7, <2>8
<1>5. ASSUME NEW c \in Clients, NEW d \in FDs, Abort(c, d)
      PROVE  OneOpen' /\ CountedOnce' /\ status' # "aborted"
  BY <1>5 DEF Abort
<1>6. ASSUME NEW c \in Clients, Finish(c)
      PROVE  OneOpen' /\ CountedOnce' /\ status' # "aborted"
  BY <1>6 DEF Finish
<1>7. CASE UNCHANGED vars
  BY <1>7 DEF vars
<1>8. QED
  BY <1>1, <1>2, <1>3, <1>4, <1>5, <1>6, <1>7 DEF Next, Step, Ended

(* For any number of clients, files and descriptors: without overlapping opens
   the reference count is the number of opens, and the program never meets its
   own assertion. *)
THEOREM ReferenceCounts == Spec => []RefcntExact
<1>1. TypeOK /\ Apart => RefcntExact
  <2> SUFFICES ASSUME TypeOK, OneOpen, CountedOnce, NEW c \in Clients, NEW f \in Files
               PROVE  IF cache[c][f] = NotCached THEN OpenFDs(c, f) = {}
                      ELSE cache[c][f].refcnt = Cardinality(OpenFDs(c, f))
    BY DEF RefcntExact, RefcntCountsOpens, Apart
  <2>1. CASE OpenFDs(c, f) = {}
    BY <2>1, FS_EmptySet DEF CountedOnce
  <2>2. ASSUME NEW d \in OpenFDs(c, f)
        PROVE  cache[c][f] # NotCached /\ cache[c][f].refcnt = Cardinality(OpenFDs(c, f))
    <3>1. OpenFDs(c, f) = {d}
      BY DEF OneOpen, OpenFDs, IsOpen
    <3>2. Cardinality({d}) = 1
      BY FS_Singleton
    <3>3. QED
      BY <3>1, <3>2 DEF CountedOnce, OpenFDs, IsOpen
  <2>3. QED
    BY <2>1, <2>2
<1>2. QED
  BY <1>1, ApartInit, ApartNext, TypeCorrect, PTL DEF Spec

-----------------------------------------------------------------------------
(* A table of the sessions that changed in one place. *)
LEMMA OnePlace ==
    ASSUME NEW F, NEW G, NEW v, NEW c \in Clients, NEW d \in FDs,
           F = [k \in Clients |-> [b \in FDs |-> F[k][b]]],
           G = [k \in Clients |-> [b \in FDs |-> G[k][b]]],
           \A k \in Clients, b \in FDs :
              G[k][b] = IF k = c /\ b = d THEN v ELSE F[k][b]
    PROVE  G = [F EXCEPT ![c][d] = v]
<1> DEFINE H == [F EXCEPT ![c][d] = v]
<1>1. ASSUME NEW k \in Clients
      PROVE  G[k] = H[k]
  <2>1. G[k] = [b \in FDs |-> IF k = c /\ b = d THEN v ELSE F[k][b]]
    OBVIOUS
  <2>2. H[k] = [b \in FDs |-> IF k = c /\ b = d THEN v ELSE F[k][b]]
    <3>1. H[k] = IF k = c THEN [F[c] EXCEPT ![d] = v] ELSE F[k]
      OBVIOUS
    <3>2. F[k] = [b \in FDs |-> F[k][b]]
      OBVIOUS
    <3>3. QED
      BY <3>1, <3>2
  <2>3. QED
    BY <2>1, <2>2
<1>2. H = [k \in Clients |-> H[k]] /\ G = [k \in Clients |-> G[k]]
  OBVIOUS
<1>3. QED
  BY <1>1, <1>2

LEMMA ViewTable ==
    /\ View = [k \in Clients |-> [b \in FDs |-> View[k][b]]]
    /\ View' = [k \in Clients |-> [b \in FDs |-> View'[k][b]]]
    /\ Wrote = [k \in Clients |-> [b \in FDs |-> Wrote[k][b]]]
    /\ Wrote' = [k \in Clients |-> [b \in FDs |-> Wrote'[k][b]]]
  BY DEF View, Wrote

LEMMA ViewAt ==
    ASSUME NEW k \in Clients, NEW b \in FDs
    PROVE  /\ View[k][b] = IF sess[k][b] \in Files THEN cache[k][sess[k][b]].data ELSE 0
           /\ View'[k][b] = IF sess'[k][b] \in Files THEN cache'[k][sess'[k][b]].data ELSE 0
           /\ Wrote[k][b] = IF sess[k][b] \in Files THEN cache[k][sess[k][b]].dirty ELSE FALSE
           /\ Wrote'[k][b] = IF sess'[k][b] \in Files THEN cache'[k][sess'[k][b]].dirty ELSE FALSE
  BY DEF View, Wrote, IsOpen

(* A session whose descriptor and copy a step left alone. *)
LEMMA ViewKept ==
    ASSUME NEW k \in Clients, NEW b \in FDs, sess'[k][b] = sess[k][b],
           sess[k][b] \in Files => /\ cache'[k][sess[k][b]].data = cache[k][sess[k][b]].data
                                  /\ cache'[k][sess[k][b]].dirty = cache[k][sess[k][b]].dirty
    PROVE  View'[k][b] = View[k][b] /\ Wrote'[k][b] = Wrote[k][b]
<1> DEFINE s == sess[k][b]
           t == sess'[k][b]
<1>1. CASE s \in Files
  <2>1. View[k][b] = cache[k][s].data /\ Wrote[k][b] = cache[k][s].dirty
    BY <1>1, ViewAt
  <2>2. View'[k][b] = cache'[k][t].data /\ Wrote'[k][b] = cache'[k][t].dirty
    BY <1>1, ViewAt
  <2>3. cache'[k][t] = cache'[k][s]
    OBVIOUS
  <2>4. QED
    BY <1>1, <2>1, <2>2, <2>3
<1>2. CASE s \notin Files
  BY <1>2, ViewAt
<1>3. QED
  BY <1>1, <1>2

(* An open: the fetched or local copy is the published contents. *)
LEMMA OpenSnapshots ==
    ASSUME TypeOK, Apart, ValidIsCurrent, ~overlap,
           NEW c \in Clients, NEW d \in FDs, NEW f \in Files, Open(c, d, f)
    PROVE  /\ View' = [View EXCEPT ![c][d] = contents[f]]
           /\ Wrote' = Wrote
<1>1. OpenFDs(c, f) = {} /\ sess[c][d] = Unused /\ Unused \notin Files
  BY AFSAssumption DEF Open, Unused, Files
<1>2. Fetched(c, f).data = contents[f] /\ Fetched(c, f).dirty = FALSE
  <2>1. CASE LocalCopy(c, f)
    <3>1. cache[c][f] \in Entry /\ ~cache[c][f].dirty /\ cache[c][f].data = contents[f]
      BY <1>1, <2>1 DEF LocalCopy, TypeOK, Apart, CountedOnce, ValidIsCurrent
    <3>2. QED
      BY <2>1, <3>1 DEF Fetched, Entry
  <2>2. CASE ~LocalCopy(c, f)
    BY <2>2 DEF Fetched
  <2>3. QED
    BY <2>1, <2>2
<1>3. /\ cache'[c][f] = Fetched(c, f)
      /\ \A k \in Clients, g \in Files : ~(k = c /\ g = f) => cache'[k][g] = cache[k][g]
  BY DEF Open, TypeOK
<1>4. /\ sess'[c][d] = f
      /\ \A k \in Clients, b \in FDs : ~(k = c /\ b = d) => sess'[k][b] = sess[k][b]
  BY DEF Open, TypeOK
<1>5. ASSUME NEW k \in Clients, NEW b \in FDs
      PROVE  /\ View'[k][b] = IF k = c /\ b = d THEN contents[f] ELSE View[k][b]
             /\ Wrote'[k][b] = Wrote[k][b]
  <2>1. CASE k = c /\ b = d
    BY <1>1, <1>2, <1>3, <1>4, <2>1, ViewAt
  <2>2. CASE ~(k = c /\ b = d)
    <3>1. sess[k][b] \in Files => cache'[k][sess[k][b]] = cache[k][sess[k][b]]
      BY <1>1, <1>3 DEF OpenFDs
    <3>2. sess'[k][b] = sess[k][b]
      BY <1>4, <2>2
    <3>3. View'[k][b] = View[k][b] /\ Wrote'[k][b] = Wrote[k][b]
        BY <3>1, <3>2, ViewKept
    <3>4. QED
      BY <2>2, <3>3
  <2>3. QED
    BY <2>1, <2>2
<1>6. View' = [View EXCEPT ![c][d] = contents[f]]
  BY <1>5, OnePlace, ViewTable
<1>7. Wrote' = Wrote
  BY <1>5, ViewTable
<1>8. QED
  BY <1>6, <1>7

(* A write changes the private copy of its own session and no other. *)
LEMMA WriteIsPrivate ==
    ASSUME TypeOK, Apart, ~overlap, NEW c \in Clients, NEW d \in FDs, Write(c, d)
    PROVE  /\ View' = [View EXCEPT ![c][d] = value]
           /\ Wrote' = [Wrote EXCEPT ![c][d] = TRUE]
<1> PICK f \in Files : f = sess[c][d]
  BY DEF Write, IsOpen
<1>1. cache[c][f] \in Entry /\ sess' = sess
  BY DEF Write, TypeOK
<1>2. cache'[c][f] = [cache[c][f] EXCEPT !.data = value, !.dirty = TRUE]
  BY DEF Write, TypeOK
<1>3. cache'[c][f].data = value /\ cache'[c][f].dirty = TRUE
  BY <1>1, <1>2 DEF Entry
<1>4. \A k \in Clients, g \in Files : ~(k = c /\ g = f) => cache'[k][g] = cache[k][g]
  BY DEF Write, TypeOK
<1>5. \A b \in FDs : sess[c][b] = f => b = d
  BY DEF Apart, OneOpen, IsOpen
<1>6. ASSUME NEW k \in Clients, NEW b \in FDs
      PROVE  /\ View'[k][b] = IF k = c /\ b = d THEN value ELSE View[k][b]
             /\ Wrote'[k][b] = IF k = c /\ b = d THEN TRUE ELSE Wrote[k][b]
  <2>1. CASE k = c /\ b = d
    BY <1>1, <1>3, <2>1, ViewAt
  <2>2. CASE ~(k = c /\ b = d)
    <3>1. sess[k][b] \in Files => cache'[k][sess[k][b]] = cache[k][sess[k][b]]
      BY <1>4, <1>5, <2>2
    <3>2. sess'[k][b] = sess[k][b]
      BY <1>1
    <3>3. View'[k][b] = View[k][b] /\ Wrote'[k][b] = Wrote[k][b]
        BY <3>1, <3>2, ViewKept
    <3>4. QED
      BY <2>2, <3>3
  <2>3. QED
    BY <2>1, <2>2
<1>7. View' = [View EXCEPT ![c][d] = value]
  <2>1. \A k \in Clients, b \in FDs :
           View'[k][b] = IF k = c /\ b = d THEN value ELSE View[k][b]
    BY <1>6
  <2>2. QED
    BY <2>1, OnePlace, ViewTable
<1>8. Wrote' = [Wrote EXCEPT ![c][d] = TRUE]
  <2>1. \A k \in Clients, b \in FDs :
           Wrote'[k][b] = IF k = c /\ b = d THEN Wrote'[c][d] ELSE Wrote[k][b]
    BY <1>6
  <2>2. Wrote' = [Wrote EXCEPT ![c][d] = Wrote'[c][d]]
    BY <2>1, OnePlace, ViewTable
  <2>3. Wrote'[c][d] = TRUE
    BY <1>6
  <2>4. QED
    BY <2>2, <2>3
<1>9. QED
  BY <1>7, <1>8

(* A close ends its own session; the callbacks it causes leave the open
   copies of the other clients as they are. *)
LEMMA CloseIsPrivate ==
    ASSUME TypeOK, Apart, ~overlap, NEW c \in Clients, NEW d \in FDs, Close(c, d)
    PROVE  /\ View' = [View EXCEPT ![c][d] = 0]
           /\ Wrote' = [Wrote EXCEPT ![c][d] = FALSE]
<1> PICK f \in Files : f = sess[c][d]
  BY DEF Close, IsOpen
<1>1. /\ sess'[c][d] = Closed /\ Closed \notin Files
      /\ \A k \in Clients, b \in FDs : ~(k = c /\ b = d) => sess'[k][b] = sess[k][b]
  BY AFSAssumption DEF Close, TypeOK, Closed, Files
<1>2. \A b \in FDs : sess[c][b] = f => b = d
  BY DEF Apart, OneOpen, IsOpen
<1>3. ASSUME NEW k \in Clients, NEW g \in Files, ~(k = c /\ g = f), cache[k][g] # NotCached
      PROVE  cache'[k][g].data = cache[k][g].data /\ cache'[k][g].dirty = cache[k][g].dirty
  <2>1. \/ cache'[k][g] = cache[k][g]
        \/ cache'[k][g] = Invalidated(k, f) /\ g = f
    BY <1>3 DEF Close, TypeOK
  <2>2. cache[k][g] \in Entry
    BY <1>3 DEF TypeOK
  <2>3. cache'[k][g] \in {cache[k][g], [cache[k][g] EXCEPT !.valid = FALSE]}
    BY <2>1 DEF Invalidated
  <2>4. QED
    BY <2>2, <2>3 DEF Entry
<1>4. ASSUME NEW k \in Clients, NEW b \in FDs
      PROVE  /\ View'[k][b] = IF k = c /\ b = d THEN 0 ELSE View[k][b]
             /\ Wrote'[k][b] = IF k = c /\ b = d THEN FALSE ELSE Wrote[k][b]
  <2>1. CASE k = c /\ b = d
    BY <1>1, <2>1, ViewAt
  <2>2. CASE ~(k = c /\ b = d) /\ sess[k][b] \in Files
    <3>1. ~(k = c /\ sess[k][b] = f) /\ cache[k][sess[k][b]] # NotCached
      BY <1>2, <2>2 DEF Apart, CountedOnce, IsOpen
    <3>2. sess'[k][b] = sess[k][b]
      BY <1>1, <2>2
    <3>3. /\ cache'[k][sess[k][b]].data = cache[k][sess[k][b]].data
          /\ cache'[k][sess[k][b]].dirty = cache[k][sess[k][b]].dirty
      BY <1>3, <2>2, <3>1
    <3>4. View'[k][b] = View[k][b] /\ Wrote'[k][b] = Wrote[k][b]
        BY <3>2, <3>3, ViewKept
    <3>5. QED
      BY <2>2, <3>4
  <2>3. CASE ~(k = c /\ b = d) /\ sess[k][b] \notin Files
    <3>1. sess'[k][b] = sess[k][b]
      BY <1>1, <2>3
    <3>2. View'[k][b] = View[k][b] /\ Wrote'[k][b] = Wrote[k][b]
        BY <2>3, <3>1, ViewKept
    <3>3. QED
      BY <2>3, <3>2
  <2>4. QED
    BY <2>1, <2>2, <2>3
<1>5. View' = [View EXCEPT ![c][d] = 0]
  <2>1. \A k \in Clients, b \in FDs :
           View'[k][b] = IF k = c /\ b = d THEN 0 ELSE View[k][b]
    BY <1>4
  <2>2. QED
    BY <2>1, OnePlace, ViewTable
<1>6. Wrote' = [Wrote EXCEPT ![c][d] = FALSE]
  <2>1. \A k \in Clients, b \in FDs :
           Wrote'[k][b] = IF k = c /\ b = d THEN Wrote'[c][d] ELSE Wrote[k][b]
    BY <1>4
  <2>2. Wrote' = [Wrote EXCEPT ![c][d] = Wrote'[c][d]]
    BY <2>1, OnePlace, ViewTable
  <2>3. Wrote'[c][d] = FALSE
    BY <1>4
  <2>4. QED
    BY <2>2, <2>3
<1>7. QED
  BY <1>5, <1>6

(* The caches, reference counts, callbacks and validity bits implement
   whole-file sessions for every number of clients, files and descriptors:
   each micro-operation is the operation of that name on private copies, and
   the rest of the main loop is invisible. *)
THEOREM SessionSemantics == Spec => ImplementsSessions
<1>1. ASSUME Init PROVE Sessions!Init
  <2>1. contents \in [Files -> Nat] /\ [f \in Files |-> f] \in [Files -> Nat]
    BY <1>1 DEF Init, Files
  <2>2. View = PerFD(0) /\ Wrote = PerFD(FALSE)
    <3>1. \A c \in Clients, d \in FDs : sess[c][d] = -1 /\ -1 \notin Files
      BY <1>1 DEF Init, Unused, Files
    <3>2. QED
      BY <3>1 DEF View, Wrote, IsOpen, PerFD
  <2>3. sess = PerFD(Unused) /\ seen = [c \in Clients |-> 0]
    BY <1>1 DEF Init, PerFD
  <2>4. QED
    BY <2>1, <2>2, <2>3 DEF Sessions!Init, InSessions, PerFD
<1>2. TypeOK /\ Apart /\ ValidIsCurrent /\ [Next]_vars => [Sessions!Next]_(Sessions!vars)
  <2> SUFFICES ASSUME TypeOK, Apart, ValidIsCurrent, [Next]_vars, overlap' = overlap
               PROVE  [Sessions!Next]_(Sessions!vars)
    BY OverlapFixed
  <2>1. CASE overlap
    BY <2>1 DEF Sessions!vars, InSessions, PerFD
  <2> SUFFICES ASSUME ~overlap, ~overlap'
               PROVE  [Sessions!Next]_(Sessions!vars)
    BY <2>1
  <2>2. ASSUME NEW c \in Clients, NEW d \in FDs, NEW f \in Files, Open(c, d, f)
        PROVE  Sessions!Open(c, d, f)
    BY <2>2, OpenSnapshots DEF Open, Sessions!Open, InSessions
  <2>3. ASSUME NEW c \in Clients, NEW d \in FDs, Read(c, d)
        PROVE  Sessions!Read(c, d)
    <3>1. View' = View /\ Wrote' = Wrote
      BY <2>3 DEF Read, View, Wrote, IsOpen
    <3>2. View[c][d] = cache[c][sess[c][d]].data
      BY <2>3, ViewAt DEF Read, IsOpen
    <3>3. QED
      BY <2>3, <3>1, <3>2 DEF Read, IsOpen, Sessions!Read, InSessions
  <2>4. ASSUME NEW c \in Clients, NEW d \in FDs, Write(c, d)
        PROVE  Sessions!Write(c, d)
    <3>1. View[c][d] = cache[c][sess[c][d]].data
      BY <2>4, ViewAt DEF Write, IsOpen
    <3>2. value \in Nat /\ View'[c][d] = value
      BY <2>4, WriteIsPrivate, ViewTable DEF TypeOK
    <3>3. QED
      BY <2>4, <3>1, <3>2, WriteIsPrivate DEF Write, IsOpen, Sessions!Write, InSessions
  <2>5. ASSUME NEW c \in Clients, NEW d \in FDs, Close(c, d)
        PROVE  Sessions!Close(c, d)
    <3>1. View[c][d] = cache[c][sess[c][d]].data /\ Wrote[c][d] = cache[c][sess[c][d]].dirty
      BY <2>5, ViewAt DEF Close, IsOpen
    <3>2. QED
      BY <2>5, <3>1, CloseIsPrivate DEF Close, IsOpen, Sessions!Close, InSessions
  <2>6. ASSUME NEW c \in Clients, NEW d \in FDs, Abort(c, d)
        PROVE  UNCHANGED Sessions!vars
    BY <2>6 DEF Abort, Sessions!vars, InSessions, View, Wrote, IsOpen
  <2>7. ASSUME NEW c \in Clients, Finish(c)
        PROVE  UNCHANGED Sessions!vars
    BY <2>7 DEF Finish, Sessions!vars, InSessions, View, Wrote, IsOpen
  <2>8. CASE UNCHANGED vars
    BY <2>8 DEF vars, Sessions!vars, InSessions, View, Wrote, IsOpen
  <2>9. QED
    BY <2>2, <2>3, <2>4, <2>5, <2>6, <2>7, <2>8 DEF Next, Step, Ended, Sessions!Next
<1>3. QED
  BY <1>1, <1>2, ApartInit, ApartNext, TypeCorrect, CacheCoherence, PTL
     DEF Spec, ImplementsSessions, Sessions!Spec
=============================================================================
