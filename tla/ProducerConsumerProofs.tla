----------------------- MODULE ProducerConsumerProofs -----------------------
(***************************************************************************)
(* The producer/consumer program for every number of producers, consumers, *)
(* slots and values: no value is overwritten and no empty slot is read,    *)
(* the buffer is a queue, and every item is consumed once.                 *)
(*                                                                         *)
(* NoEnsureFailure is not inductive.  The argument needs that a thread     *)
(* between lock and unlock holds the mutex (Excluded), so that what the    *)
(* loop tested is still so when it works (RoomToWork), and that the slots  *)
(* in use are the num_full ones from use_ptr on (Ring).                    *)
(***************************************************************************)
EXTENDS ProducerConsumer, SequenceTheorems, FiniteSetTheorems, TLAPS

InCritical(t) == pc[t] \in {"test", "work", "signal", "unlock"}

Excluded == \A t \in Threads : InCritical(t) => mutex = t

RoomToWork == \A t \in Threads : pc[t] = "work" => ~MustWait(t)

Wrap(n) == IF n < Max THEN n ELSE n - Max

InUse(s) ==
    IF use_ptr + num_full <= Max
    THEN use_ptr <= s /\ s < use_ptr + num_full
    ELSE use_ptr <= s \/ s < use_ptr + num_full - Max

Ring ==
    /\ fill_ptr = Wrap(use_ptr + num_full)
    /\ \A s \in Slots : buffer[s] # EMPTY <=> InUse(s)

(* A producer that is not done has values left to produce. *)
ProducersBounded ==
    \A p \in Producers : pc[p] # "done" => iter[p] < Loops

IInv ==
    /\ TypeOK
    /\ Excluded
    /\ RoomToWork
    /\ Ring
    /\ ProducersBounded
    /\ status # "error"

-----------------------------------------------------------------------------
(* The wrap-around of do_fill and do_get, without the remainder. *)
LEMMA NextSlotWraps ==
    ASSUME NEW s \in Slots
    PROVE  NextSlot(s) = Wrap(s + 1) /\ NextSlot(s) \in Slots
<1>1. CASE s + 1 = Max
  BY <1>1, ProducerConsumerAssumption DEF NextSlot, Wrap, Slots
<1>2. CASE s + 1 < Max
  BY <1>2, ProducerConsumerAssumption DEF NextSlot, Wrap, Slots
<1>3. QED
  BY <1>1, <1>2, ProducerConsumerAssumption DEF Slots

(* base + i is one of the items. *)
LEMMA ValuesAreItems ==
    ASSUME NEW p \in Producers, NEW i \in 0 .. Loops - 1
    PROVE  p * Loops + i \in Items
<1> USE ProducerConsumerAssumption
<1> DEFINE k == NumProducers - (p + 1)
<1>1. p \in Nat /\ k \in Nat /\ NumProducers = p + 1 + k
  BY DEF Producers
<1>2. NumProducers * Loops = p * Loops + Loops + k * Loops
  BY <1>1
<1>3. p * Loops \in Nat /\ k * Loops \in Nat
  BY <1>1
<1>4. QED
  BY <1>2, <1>3 DEF Items

LEMMA ThreadTypes ==
    /\ Free \notin Threads
    /\ Main \in Threads
    /\ Main \notin Consumers
    /\ Fillers \cap Consumers = {}
    /\ Consumers \subseteq Threads
    /\ Producers \subseteq Threads
BY ProducerConsumerAssumption DEF Free, Threads, Fillers, Producers, Consumers, Main

LEMMA InitIInv == Init => IInv
<1> SUFFICES ASSUME Init PROVE IInv
  OBVIOUS
<1> USE ProducerConsumerAssumption
<1>1. TypeOK
  BY ThreadTypes DEF Init, TypeOK, Slots, EMPTY
<1>2. Excluded /\ RoomToWork
  BY DEF Init, Excluded, RoomToWork, InCritical
<1>3. Ring
  BY DEF Init, Ring, Wrap, InUse, Slots
<1>4. ProducersBounded
  BY ThreadTypes DEF Init, ProducersBounded
<1>5. QED
  BY <1>1, <1>2, <1>3, <1>4 DEF IInv, Init

(* A thread that works alone: nobody else is between lock and unlock. *)
LEMMA Alone ==
    ASSUME IInv, NEW t \in Threads, InCritical(t), NEW u \in Threads, u # t
    PROVE  ~InCritical(u)
BY DEF IInv, Excluded

(* Steps that move one thread and leave buffer, items and status alone. *)
LEMMA MoveStep ==
    ASSUME IInv, NEW t \in Threads,
           UNCHANGED <<shared, tmp, status, delivered>>,
           Lock(t) \/ Test(t) \/ Wait(t) \/ Wakeup(t) \/ Signal(t) \/ Unlock(t)
    PROVE  IInv'
<1> USE ProducerConsumerAssumption DEF IInv, At, GoTo
<1>1. TypeOK'
  <2>1. CASE Lock(t)
    BY <2>1 DEF Lock, TypeOK, shared
  <2>2. CASE Test(t)
    BY <2>2 DEF Test, TypeOK, shared
  <2>3. CASE Wait(t)
    BY <2>3 DEF Wait, TypeOK, shared
  <2>4. CASE Wakeup(t)
    BY <2>4 DEF Wakeup, TypeOK, shared
  <2>5. CASE Signal(t)
    BY <2>5 DEF Signal, Sleepers, TypeOK, shared
  <2>6. CASE Unlock(t)
    BY <2>6 DEF Unlock, TypeOK, shared
  <2>7. QED
    BY <2>1, <2>2, <2>3, <2>4, <2>5, <2>6
<1>2. Excluded'
  <2>1. CASE Lock(t)
    BY <2>1, ThreadTypes DEF Lock, TypeOK, Excluded, InCritical
  <2>2. CASE Test(t)
    BY <2>2 DEF Test, TypeOK, Excluded, InCritical
  <2>3. CASE Wait(t)
    BY <2>3 DEF Wait, TypeOK, Excluded, InCritical
  <2>4. CASE Wakeup(t)
    BY <2>4 DEF Wakeup, TypeOK, Excluded, InCritical
  <2>5. CASE Signal(t)
    BY <2>5 DEF Signal, Sleepers, TypeOK, Excluded, InCritical
  <2>6. CASE Unlock(t)
    BY <2>6 DEF Unlock, TypeOK, Excluded, InCritical
  <2>7. QED
    BY <2>1, <2>2, <2>3, <2>4, <2>5, <2>6
<1>3. RoomToWork'
  <2> SUFFICES ASSUME NEW u \in Threads, pc'[u] = "work"
               PROVE  ~MustWait(u)
    BY DEF RoomToWork, MustWait, shared
  <2>1. CASE pc[u] = "work"
    BY <2>1 DEF RoomToWork
  <2>2. CASE pc[u] # "work"
    BY <2>2 DEF TypeOK, Lock, Test, Wait, Wakeup, Signal, Sleepers, Unlock
  <2>3. QED
    BY <2>1, <2>2
<1>4. Ring'
  BY DEF Ring, Wrap, InUse, shared
<1>5. ProducersBounded'
  <2> SUFFICES ASSUME NEW p \in Producers, pc'[p] # "done"
               PROVE  iter'[p] < Loops
    BY DEF ProducersBounded
  <2>1. p \in Threads /\ iter[p] \in Nat
    BY ThreadTypes DEF TypeOK
  <2>2. CASE Unlock(t) /\ p = t
    <3>1. t \in Producers /\ t \notin Consumers /\ t # Main
      BY <2>2 DEF Producers, Consumers, Main
    <3>2. Finished(t) <=> iter[t] + 1 = Loops
      BY <3>1 DEF Finished
    <3>3. iter[t] < Loops
      BY <2>2, <3>1 DEF Unlock, ProducersBounded
    <3>4. iter'[t] = iter[t] + 1 /\ ~Finished(t)
      BY <2>1, <2>2 DEF Unlock, TypeOK
    <3>5. QED
      BY <2>1, <2>2, <3>2, <3>3, <3>4
  <2>3. CASE ~(Unlock(t) /\ p = t)
    <3>1. iter'[p] = iter[p]
      BY <2>1, <2>3 DEF TypeOK, Lock, Test, Wait, Wakeup, Signal, Unlock
    <3>2. pc[p] # "done"
      BY <2>1, <2>3 DEF TypeOK, Lock, Test, Wait, Wakeup, Signal, Sleepers, Unlock
    <3>3. QED
      BY <3>1, <3>2 DEF ProducersBounded
  <2>4. QED
    BY <2>2, <2>3
<1>6. QED
  BY <1>1, <1>2, <1>3, <1>4, <1>5

(* do_fill finds its slot empty. *)
LEMMA FillEffect ==
    ASSUME IInv, NEW t \in Threads, DoFill(t)
    PROVE  /\ pc[t] = "work" /\ t \in Fillers /\ num_full < Max
           /\ fill_ptr \in Slots /\ use_ptr \in Slots /\ num_full \in 0 .. Max
           /\ buffer[fill_ptr] = EMPTY
           /\ buffer' = [buffer EXCEPT ![fill_ptr] = Value(t)]
           /\ fill_ptr' = NextSlot(fill_ptr)
           /\ num_full' = num_full + 1
           /\ pc' = [pc EXCEPT ![t] = "signal"]
           /\ UNCHANGED <<use_ptr, tmp, delivered, mutex, iter, spurious, status>>
           /\ Value(t) \in Items \cup {END_OF_STREAM}
           /\ Value(t) # EMPTY
<1> USE ProducerConsumerAssumption DEF IInv, At, GoTo
<1>1. /\ pc[t] = "work" /\ t \in Fillers /\ num_full < Max
      /\ fill_ptr \in Slots /\ use_ptr \in Slots /\ num_full \in 0 .. Max
  BY ThreadTypes DEF DoFill, RoomToWork, MustWait, TypeOK
<1>2. buffer[fill_ptr] = EMPTY
  BY <1>1 DEF Ring, Wrap, InUse, Slots
<1>3. /\ buffer' = [buffer EXCEPT ![fill_ptr] = Value(t)]
      /\ fill_ptr' = NextSlot(fill_ptr)
      /\ num_full' = num_full + 1
      /\ pc' = [pc EXCEPT ![t] = "signal"]
      /\ UNCHANGED <<use_ptr, tmp, delivered, mutex, iter, spurious, status>>
  BY <1>2 DEF DoFill, Ensure
<1>4. Value(t) \in Items \cup {END_OF_STREAM}
  <2>1. CASE t = Main
    BY <2>1 DEF Value
  <2>2. CASE t \in Producers
    <3>1. iter[t] \in 0 .. Loops - 1
      BY <1>1, <2>2 DEF ProducersBounded, TypeOK
    <3>2. t # Main
      BY <2>2 DEF Producers, Main
    <3>3. QED
      BY <2>2, <3>1, <3>2, ValuesAreItems DEF Value
  <2>3. QED
    BY <1>1, <2>1, <2>2 DEF Fillers
<1>5. Value(t) # EMPTY
  BY <1>4 DEF Items, EMPTY, END_OF_STREAM
<1>6. QED
  BY <1>1, <1>2, <1>3, <1>4, <1>5

(* It keeps the ring. *)
LEMMA FillStep ==
    ASSUME IInv, NEW t \in Threads, DoFill(t)
    PROVE  IInv'
<1> USE ProducerConsumerAssumption DEF IInv, At, GoTo
<1>1. /\ pc[t] = "work" /\ t \in Fillers /\ num_full < Max
      /\ fill_ptr \in Slots /\ use_ptr \in Slots /\ num_full \in 0 .. Max
  BY FillEffect
<1>3. /\ buffer' = [buffer EXCEPT ![fill_ptr] = Value(t)]
      /\ fill_ptr' = NextSlot(fill_ptr)
      /\ num_full' = num_full + 1
      /\ pc' = [pc EXCEPT ![t] = "signal"]
      /\ UNCHANGED <<use_ptr, tmp, delivered, mutex, iter, spurious, status>>
  BY FillEffect
<1>4. Value(t) \in Items \cup {END_OF_STREAM}
  BY FillEffect
<1>5. Value(t) # EMPTY
  BY FillEffect
<1>6. TypeOK'
  BY <1>1, <1>3, <1>4, NextSlotWraps DEF TypeOK
<1>7. Excluded' /\ RoomToWork'
  <2>1. \A u \in Threads : u # t => ~InCritical(u)
    BY <1>1, Alone DEF InCritical
  <2>2. QED
    BY <1>1, <1>3, <2>1 DEF Excluded, RoomToWork, InCritical, TypeOK
<1>8. Ring'
  <2>1. fill_ptr' = Wrap(fill_ptr + 1)
    BY <1>1, <1>3, NextSlotWraps
  <2>2. fill_ptr' = Wrap(use_ptr + num_full + 1)
    BY <1>1, <2>1 DEF Ring, Wrap, Slots
  <2>3. ASSUME NEW s \in Slots
        PROVE  buffer'[s] # EMPTY <=> InUse(s)'
    <3>1. CASE s = fill_ptr
      BY <1>1, <1>3, <1>5, <3>1 DEF Ring, Wrap, InUse, Slots, TypeOK
    <3>2. CASE s # fill_ptr
      <4>1. buffer'[s] = buffer[s]
        BY <1>3, <3>2 DEF TypeOK
      <4>2. InUse(s)' <=> InUse(s)
        BY <1>1, <1>3, <3>2 DEF Ring, Wrap, InUse, Slots
      <4>3. QED
        BY <4>1, <4>2 DEF Ring
    <3>3. QED
      BY <3>1, <3>2
  <2>4. QED
    BY <1>1, <1>3, <2>2, <2>3 DEF Ring, Wrap, Slots
<1>9. ProducersBounded'
  BY <1>1, <1>3, ThreadTypes DEF ProducersBounded, TypeOK
<1>10. QED
  BY <1>3, <1>6, <1>7, <1>8, <1>9

(* do_get finds a value. *)
LEMMA GetEffect ==
    ASSUME IInv, NEW t \in Threads, DoGet(t)
    PROVE  /\ pc[t] = "work" /\ t \in Consumers /\ num_full > 0
           /\ fill_ptr \in Slots /\ use_ptr \in Slots /\ num_full \in 0 .. Max
           /\ tmp' = [tmp EXCEPT ![t] = buffer[use_ptr]]
           /\ delivered' = Consumed(buffer[use_ptr])
           /\ buffer' = [buffer EXCEPT ![use_ptr] = EMPTY]
           /\ use_ptr' = NextSlot(use_ptr)
           /\ num_full' = num_full - 1
           /\ pc' = [pc EXCEPT ![t] = "signal"]
           /\ UNCHANGED <<fill_ptr, mutex, iter, spurious, status>>
           /\ buffer[use_ptr] \in Items \cup {END_OF_STREAM}
<1> USE ProducerConsumerAssumption DEF IInv, At, GoTo
<1>1. /\ pc[t] = "work" /\ t \in Consumers /\ num_full > 0
      /\ fill_ptr \in Slots /\ use_ptr \in Slots /\ num_full \in 0 .. Max
  BY DEF DoGet, RoomToWork, MustWait, TypeOK
<1>2. buffer[use_ptr] # EMPTY
  BY <1>1 DEF Ring, InUse, Slots
<1>3. /\ tmp' = [tmp EXCEPT ![t] = buffer[use_ptr]]
      /\ delivered' = Consumed(buffer[use_ptr])
      /\ buffer' = [buffer EXCEPT ![use_ptr] = EMPTY]
      /\ use_ptr' = NextSlot(use_ptr)
      /\ num_full' = num_full - 1
      /\ pc' = [pc EXCEPT ![t] = "signal"]
      /\ UNCHANGED <<fill_ptr, mutex, iter, spurious, status>>
  BY <1>2 DEF DoGet, Ensure
<1>4. buffer[use_ptr] \in Items \cup {END_OF_STREAM}
  BY <1>1, <1>2 DEF TypeOK
<1>5. QED
  BY <1>1, <1>3, <1>4

(* It keeps the ring. *)
LEMMA GetStep ==
    ASSUME IInv, NEW t \in Threads, DoGet(t)
    PROVE  IInv'
<1> USE ProducerConsumerAssumption DEF IInv, At, GoTo
<1>1. /\ pc[t] = "work" /\ t \in Consumers /\ num_full > 0
      /\ fill_ptr \in Slots /\ use_ptr \in Slots /\ num_full \in 0 .. Max
  BY GetEffect
<1>3. /\ tmp' = [tmp EXCEPT ![t] = buffer[use_ptr]]
      /\ delivered' = Consumed(buffer[use_ptr])
      /\ buffer' = [buffer EXCEPT ![use_ptr] = EMPTY]
      /\ use_ptr' = NextSlot(use_ptr)
      /\ num_full' = num_full - 1
      /\ pc' = [pc EXCEPT ![t] = "signal"]
      /\ UNCHANGED <<fill_ptr, mutex, iter, spurious, status>>
  BY GetEffect
<1>4. buffer[use_ptr] \in Items \cup {END_OF_STREAM}
  BY GetEffect
<1>5. delivered' \in [Items -> Nat]
  BY <1>3 DEF Consumed, TypeOK
<1>6. TypeOK'
  BY <1>1, <1>3, <1>4, <1>5, NextSlotWraps DEF TypeOK
<1>7. Excluded' /\ RoomToWork'
  <2>1. \A u \in Threads : u # t => ~InCritical(u)
    BY <1>1, Alone DEF InCritical
  <2>2. QED
    BY <1>1, <1>3, <2>1 DEF Excluded, RoomToWork, InCritical, TypeOK
<1>8. Ring'
  <2>1. use_ptr' = Wrap(use_ptr + 1)
    BY <1>1, <1>3, NextSlotWraps
  <2>2. fill_ptr = Wrap(use_ptr' + num_full - 1)
    BY <1>1, <2>1 DEF Ring, Wrap, Slots
  <2>3. ASSUME NEW s \in Slots
        PROVE  buffer'[s] # EMPTY <=> InUse(s)'
    <3>1. CASE s = use_ptr
      BY <1>1, <1>3, <2>1, <3>1 DEF Wrap, InUse, Slots, TypeOK
    <3>2. CASE s # use_ptr
      <4>1. buffer'[s] = buffer[s]
        BY <1>3, <3>2 DEF TypeOK
      <4>2. InUse(s)' <=> InUse(s)
        BY <1>1, <1>3, <2>1, <3>2 DEF Wrap, InUse, Slots
      <4>3. QED
        BY <4>1, <4>2 DEF Ring
    <3>3. QED
      BY <3>1, <3>2
  <2>4. use_ptr' \in Slots
    BY <1>1, <1>3, NextSlotWraps
  <2>5. QED
    BY <1>1, <1>3, <2>2, <2>3, <2>4 DEF Ring, Wrap, Slots
<1>9. ProducersBounded'
  BY <1>1, <1>3, ThreadTypes DEF ProducersBounded, TypeOK
<1>10. QED
  BY <1>3, <1>6, <1>7, <1>8, <1>9

LEMMA NextIInv == IInv /\ [Next]_vars => IInv'
<1> SUFFICES ASSUME IInv, [Next]_vars PROVE IInv'
  OBVIOUS
<1>1. ASSUME NEW t \in Threads, Work(t) \/ Wakeup(t)
      PROVE  IInv'
  <2>1. CASE DoFill(t)
    BY <2>1, FillStep
  <2>2. CASE DoGet(t)
    BY <2>2, GetStep
  <2>3. CASE Lock(t) \/ Test(t) \/ Wait(t) \/ Wakeup(t) \/ Signal(t) \/ Unlock(t)
    <3>1. UNCHANGED <<shared, tmp, status, delivered>>
      BY <2>3 DEF Lock, Test, Wait, Wakeup, Signal, Unlock
    <3>2. QED
      BY <2>3, <3>1, MoveStep
  <2>4. QED
    BY <1>1, <2>1, <2>2, <2>3 DEF Work
<1>2. CASE JoinProducers
  <2>1. ~InCritical(Main)
    BY <1>2 DEF JoinProducers, At, InCritical
  <2>2. QED
    BY <1>2, <2>1, ThreadTypes
    DEF JoinProducers, At, GoTo, IInv, TypeOK, Excluded, InCritical, RoomToWork,
        MustWait, Ring, Wrap, InUse, ProducersBounded, shared, Producers, Main
<1>3. CASE JoinConsumers
  BY <1>3
  DEF JoinConsumers, IInv, TypeOK, Excluded, InCritical, RoomToWork, MustWait,
      Ring, Wrap, InUse, ProducersBounded, shared
<1>4. CASE UNCHANGED vars
  BY <1>4
  DEF vars, IInv, TypeOK, Excluded, InCritical, RoomToWork, MustWait, Ring,
      Wrap, InUse, ProducersBounded, shared
<1>5. QED
  BY <1>1, <1>2, <1>3, <1>4 DEF Next, Ended

LEMMA Invariance == Spec => []IInv
BY InitIInv, NextIInv, PTL DEF Spec

(* Every reachable state of the program is well typed; in particular the
   indices stay within the buffer and num_full between 0 and max. *)
THEOREM TypeCorrect == Spec => []TypeOK
<1>1. IInv => TypeOK
  BY DEF IInv
<1>2. QED
  BY <1>1, Invariance, PTL

(* For every number of threads, slots and values, and however often threads
   wake without a signal, the ensure() calls of do_fill and do_get succeed. *)
THEOREM BufferSafety == Spec => []NoEnsureFailure
<1>1. IInv => NoEnsureFailure
  BY DEF IInv, NoEnsureFailure
<1>2. QED
  BY <1>1, Invariance, PTL

-----------------------------------------------------------------------------
(* The buffer as a queue: the position of a slot counted from use_ptr. *)
Pos(s) == IF s >= use_ptr THEN s - use_ptr ELSE s - use_ptr + Max

LEMMA WrapIsMod ==
    ASSUME NEW n \in 0 .. 2 * Max - 1
    PROVE  n % Max = Wrap(n) /\ Wrap(n) \in Slots
<1> USE ProducerConsumerAssumption
<1>1. CASE n < Max
  BY <1>1 DEF Wrap, Slots
<1>2. CASE n >= Max
  BY <1>2 DEF Wrap, Slots
<1>3. QED
  BY <1>1, <1>2

LEMMA PositionsInUse ==
    ASSUME IInv, NEW s \in Slots
    PROVE  /\ Pos(s) \in 0 .. Max - 1
           /\ buffer[s] # EMPTY <=> Pos(s) < num_full
           /\ num_full < Max => Pos(fill_ptr) = num_full
           /\ Wrap(use_ptr + Pos(s)) = s
<1> USE ProducerConsumerAssumption
<1>1. use_ptr \in Slots /\ num_full \in 0 .. Max
  BY DEF IInv, TypeOK
<1>2. Pos(s) \in 0 .. Max - 1 /\ Wrap(use_ptr + Pos(s)) = s
  BY <1>1 DEF Pos, Slots, Wrap
<1>3. InUse(s) <=> Pos(s) < num_full
  BY <1>1 DEF InUse, Pos, Slots
<1>4. num_full < Max => Pos(fill_ptr) = num_full
  BY <1>1 DEF IInv, Ring, Wrap, Pos, Slots
<1>5. QED
  BY <1>2, <1>3, <1>4 DEF IInv, Ring

(* Append and Tail as functions on positions. *)
LEMMA AppendAsFunction ==
    ASSUME NEW S, NEW q \in Seq(S), NEW e \in S
    PROVE  Append(q, e) = [k \in 1 .. Len(q) + 1 |-> IF k = Len(q) + 1 THEN e ELSE q[k]]
<1> DEFINE a == Append(q, e)
<1>1. a \in Seq(S) /\ Len(a) = Len(q) + 1 /\ Len(q) \in Nat
  BY AppendProperties, LenProperties
<1>2. a = [k \in 1 .. Len(q) + 1 |-> a[k]]
  BY <1>1, LenProperties
<1>3. \A k \in 1 .. Len(q) + 1 : a[k] = IF k = Len(q) + 1 THEN e ELSE q[k]
  BY <1>1, AppendProperties
<1>4. QED
  BY <1>2, <1>3

LEMMA TailAsFunction ==
    ASSUME NEW S, NEW q \in Seq(S), q # <<>>
    PROVE  Tail(q) = [k \in 1 .. Len(q) - 1 |-> q[k + 1]]
<1> DEFINE a == Tail(q)
<1>1. a \in Seq(S) /\ Len(a) = Len(q) - 1
  BY HeadTailProperties
<1>2. a = [k \in 1 .. Len(q) - 1 |-> a[k]]
  BY <1>1, LenProperties
<1>3. \A k \in 1 .. Len(q) - 1 : a[k] = q[k + 1]
  BY <1>1, HeadTailProperties
<1>4. QED
  BY <1>2, <1>3

TheQueue == [k \in 1 .. num_full |-> buffer[(use_ptr + k - 1) % Max]]

LEMMA QueueAt ==
    ASSUME IInv, NEW k \in 1 .. num_full
    PROVE  /\ Wrap(use_ptr + k - 1) \in Slots
           /\ TheQueue[k] = buffer[Wrap(use_ptr + k - 1)]
           /\ TheQueue[k] \in Items \cup {END_OF_STREAM}
<1> USE ProducerConsumerAssumption
<1>1. use_ptr \in Slots /\ num_full \in 0 .. Max /\ buffer \in [Slots -> Items \cup {EMPTY, END_OF_STREAM}]
  BY DEF IInv, TypeOK
<1>2. use_ptr + k - 1 \in 0 .. 2 * Max - 1
  BY <1>1 DEF Slots
<1>3. Wrap(use_ptr + k - 1) \in Slots /\ (use_ptr + k - 1) % Max = Wrap(use_ptr + k - 1)
  BY <1>2, WrapIsMod
<1>4. TheQueue[k] = buffer[Wrap(use_ptr + k - 1)]
  BY <1>3 DEF TheQueue
<1>5. InUse(Wrap(use_ptr + k - 1))
  BY <1>1 DEF InUse, Wrap, Slots
<1>6. buffer[Wrap(use_ptr + k - 1)] # EMPTY
  BY <1>3, <1>5 DEF IInv, Ring
<1>7. QED
  BY <1>1, <1>3, <1>4, <1>6

LEMMA QueueType ==
    ASSUME IInv
    PROVE  TheQueue \in Seq(Items \cup {END_OF_STREAM}) /\ Len(TheQueue) = num_full
<1>1. num_full \in Nat
  BY ProducerConsumerAssumption DEF IInv, TypeOK
<1>2. TheQueue = [k \in 1 .. num_full |-> TheQueue[k]]
  BY DEF TheQueue
<1>3. QED
  BY <1>1, <1>2, QueueAt

(* do_fill appends, do_get takes the first: the ring is a first-in first-out
   queue of at most max values for every number of threads, slots and values. *)
THEOREM QueueRefinement == Spec => ImplementsQueue
<1>1. ASSUME Init PROVE Queue!Init
  <2>1. [k \in 1 .. num_full |-> buffer[(use_ptr + k - 1) % Max]] = <<>>
    BY <1>1 DEF Init
  <2>2. QED
    BY <1>1, <2>1 DEF Init, Queue!Init
<1>2. ASSUME IInv, NEW t \in Threads, DoFill(t)
      PROVE  \E v \in Items \cup {END_OF_STREAM} : Queue!Put(v)
  <2> USE ProducerConsumerAssumption
  <2>1. /\ fill_ptr \in Slots /\ use_ptr \in Slots /\ num_full \in 0 .. Max /\ num_full < Max
        /\ buffer' = [buffer EXCEPT ![fill_ptr] = Value(t)]
        /\ num_full' = num_full + 1 /\ use_ptr' = use_ptr /\ tmp' = tmp
        /\ Value(t) \in Items \cup {END_OF_STREAM}
    BY <1>2, FillEffect
  <2>2. buffer \in [Slots -> Items \cup {EMPTY, END_OF_STREAM}] /\ fill_ptr = Wrap(use_ptr + num_full)
    BY <1>2 DEF IInv, TypeOK, Ring
  <2>3. TheQueue \in Seq(Items \cup {END_OF_STREAM}) /\ Len(TheQueue) = num_full
    BY <1>2, QueueType
  <2>4. TheQueue' = [k \in 1 .. num_full + 1 |-> IF k = num_full + 1 THEN Value(t) ELSE TheQueue[k]]
    <3>1. ASSUME NEW k \in 1 .. num_full + 1
          PROVE  buffer'[(use_ptr' + k - 1) % Max] = IF k = num_full + 1 THEN Value(t) ELSE TheQueue[k]
      <4>1. use_ptr + k - 1 \in 0 .. 2 * Max - 1
        BY <2>1 DEF Slots
      <4>2. (use_ptr' + k - 1) % Max = Wrap(use_ptr + k - 1) /\ Wrap(use_ptr + k - 1) \in Slots
        BY <2>1, <4>1, WrapIsMod
      <4>3. CASE k = num_full + 1
        BY <2>1, <2>2, <4>2, <4>3
      <4>4. CASE k # num_full + 1
        <5>1. k \in 1 .. num_full
          BY <2>1, <4>4
        <5>2. Wrap(use_ptr + k - 1) # fill_ptr
          BY <2>1, <2>2, <5>1 DEF Wrap, Slots
        <5>3. QED
          BY <1>2, <2>1, <2>2, <4>2, <4>4, <5>1, <5>2, QueueAt
      <4>5. QED
        BY <4>3, <4>4
    <3>2. QED
      BY <2>1, <3>1 DEF TheQueue
  <2>5. TheQueue' = Append(TheQueue, Value(t))
    BY <2>1, <2>3, <2>4, AppendAsFunction
  <2>6. QED
    BY <2>1, <2>3, <2>5 DEF Queue!Put, TheQueue
<1>3. ASSUME IInv, NEW t \in Threads, DoGet(t)
      PROVE  t \in Consumers /\ Queue!Take(t)
  <2> USE ProducerConsumerAssumption
  <2>1. /\ t \in Consumers /\ use_ptr \in Slots /\ num_full \in 0 .. Max /\ num_full > 0
        /\ tmp' = [tmp EXCEPT ![t] = buffer[use_ptr]]
        /\ buffer' = [buffer EXCEPT ![use_ptr] = EMPTY]
        /\ use_ptr' = NextSlot(use_ptr) /\ num_full' = num_full - 1
    BY <1>3, GetEffect
  <2>2. buffer \in [Slots -> Items \cup {EMPTY, END_OF_STREAM}]
    BY <1>3 DEF IInv, TypeOK
  <2>3. TheQueue \in Seq(Items \cup {END_OF_STREAM}) /\ Len(TheQueue) = num_full
    BY <1>3, QueueType
  <2>4. Head(TheQueue) = buffer[use_ptr]
    <3>1. 1 \in 1 .. num_full /\ Wrap(use_ptr + 1 - 1) = use_ptr
      BY <2>1 DEF Wrap, Slots
    <3>2. TheQueue[1] = buffer[use_ptr]
      BY <1>3, <3>1, QueueAt
    <3>3. QED
      BY <2>1, <2>3, <3>2
  <2>5. use_ptr' \in Slots /\ use_ptr' = Wrap(use_ptr + 1)
    BY <2>1, NextSlotWraps
  <2>6. TheQueue' = [k \in 1 .. num_full - 1 |-> TheQueue[k + 1]]
    <3>1. ASSUME NEW k \in 1 .. num_full - 1
          PROVE  buffer'[(use_ptr' + k - 1) % Max] = TheQueue[k + 1]
      <4>1. use_ptr' + k - 1 \in 0 .. 2 * Max - 1
        BY <2>1, <2>5 DEF Slots
      <4>2. (use_ptr' + k - 1) % Max = Wrap(use_ptr' + k - 1) /\ Wrap(use_ptr' + k - 1) \in Slots
        BY <4>1, WrapIsMod
      <4>3. Wrap(use_ptr' + k - 1) = Wrap(use_ptr + (k + 1) - 1) /\ Wrap(use_ptr' + k - 1) # use_ptr
        BY <2>1, <2>5 DEF Wrap, Slots
      <4>4. k + 1 \in 1 .. num_full
        BY <2>1
      <4>5. TheQueue[k + 1] = buffer[Wrap(use_ptr + (k + 1) - 1)]
        BY <1>3, <4>4, QueueAt
      <4>6. QED
        BY <2>1, <2>2, <4>2, <4>3, <4>5
    <3>2. QED
      BY <2>1, <3>1 DEF TheQueue
  <2>7. TheQueue # <<>>
    BY <2>1, <2>3
  <2>8. TheQueue' = Tail(TheQueue)
    BY <2>3, <2>6, <2>7, TailAsFunction
  <2>9. QED
    BY <2>1, <2>4, <2>7, <2>8 DEF Queue!Take, TheQueue
<1>4. IInv /\ [Next]_vars => [Queue!Next]_(Queue!vars)
  <2> SUFFICES ASSUME IInv, [Next]_vars PROVE [Queue!Next]_(Queue!vars)
    OBVIOUS
  <2>1. ASSUME NEW t \in Threads, DoFill(t) PROVE Queue!Next
    BY <1>2, <2>1 DEF Queue!Next
  <2>2. ASSUME NEW t \in Threads, DoGet(t) PROVE Queue!Next
    BY <1>3, <2>2 DEF Queue!Next
  <2>3. ASSUME UNCHANGED <<shared, tmp>> PROVE UNCHANGED Queue!vars
    BY <2>3 DEF shared, Queue!vars
  <2>4. ASSUME NEW t \in Threads,
               Lock(t) \/ Test(t) \/ Wait(t) \/ Wakeup(t) \/ Signal(t) \/ Unlock(t)
        PROVE  UNCHANGED <<shared, tmp>>
    BY <2>4 DEF Lock, Test, Wait, Wakeup, Signal, Unlock
  <2>5. CASE JoinProducers \/ JoinConsumers \/ UNCHANGED vars
    BY <2>3, <2>5 DEF JoinProducers, JoinConsumers, vars
  <2>6. QED
    BY <2>1, <2>2, <2>3, <2>4, <2>5 DEF Next, Work, Ended
<1>5. QED
  BY <1>1, <1>4, Invariance, PTL DEF Spec, ImplementsQueue, Queue!Spec

-----------------------------------------------------------------------------
(* How every item is consumed once.  A value is produced when its producer has
   put it; from then on it is in one slot until it is delivered.  Markers come
   behind all items, because main waits for the producers, so whoever takes a
   marker finds no item left; and there are as many markers as consumers, each
   of which takes one and stops. *)
Owner(v) == v \div Loops
Index(v) == v % Loops
Filled(t) == iter[t] + IF pc[t] \in {"signal", "unlock"} THEN 1 ELSE 0
Holding(v) == {s \in Slots : buffer[s] = v}
TookMarker == {c \in Consumers : tmp[c] = END_OF_STREAM}

ItemOnce(v) ==
    IF Index(v) < Filled(Owner(v))
    THEN \/ delivered[v] = 1 /\ Holding(v) = {}
         \/ delivered[v] = 0 /\ \E s \in Slots : Holding(v) = {s}
    ELSE delivered[v] = 0 /\ Holding(v) = {}
ItemsOnce == \A v \in Items : ItemOnce(v)

MarkersLast ==
    \A s, r \in Slots :
        buffer[s] = END_OF_STREAM /\ buffer[r] \in Items => Pos(r) < Pos(s)

Phases ==
    /\ \A p \in Producers : pc[p] = "done" => iter[p] = Loops
    /\ pc[Main] # "join" => \A p \in Producers : pc[p] = "done"
    /\ pc[Main] = "join" => /\ iter[Main] = 0 /\ Holding(END_OF_STREAM) = {}
                            /\ TookMarker = {}
    /\ pc[Main] \notin {"join", "done"} => iter[Main] < NumConsumers
    /\ pc[Main] = "done" => iter[Main] = NumConsumers
    /\ \A c \in Consumers : tmp[c] = END_OF_STREAM => pc[c] \in {"signal", "unlock", "done"}
    /\ \A c \in Consumers : pc[c] = "done" => tmp[c] = END_OF_STREAM

StreamEnds == TookMarker # {} => \A v \in Items : Holding(v) = {}

MarkersCounted ==
    Filled(Main) = Cardinality(Holding(END_OF_STREAM)) + Cardinality(TookMarker)

DeliveryInv == ItemsOnce /\ MarkersLast /\ Phases /\ StreamEnds /\ MarkersCounted

LEMMA MultiplesApart ==
    ASSUME NEW a \in Nat, NEW b \in Nat, a < b
    PROVE  a * Loops + Loops <= b * Loops
<1> USE ProducerConsumerAssumption
<1>1. b - a - 1 \in Nat /\ a * Loops \in Nat /\ b * Loops \in Nat
  OBVIOUS
<1>2. (b - a - 1) * Loops \in Nat
  BY <1>1
<1>3. b * Loops = a * Loops + Loops + (b - a - 1) * Loops
  OBVIOUS
<1>4. QED
  BY <1>1, <1>2, <1>3

LEMMA OwnerAndIndex ==
    ASSUME NEW v \in Items
    PROVE  /\ Owner(v) \in Producers /\ Index(v) \in 0 .. Loops - 1
           /\ v = Owner(v) * Loops + Index(v)
<1> USE ProducerConsumerAssumption
<1>1. v \in Nat /\ NumProducers * Loops \in Nat /\ v < NumProducers * Loops
  BY DEF Items
<1>2. Index(v) \in 0 .. Loops - 1
  BY <1>1 DEF Index
<1>3. Owner(v) \in Nat
  BY <1>1 DEF Owner
<1>4. v = Loops * Owner(v) + Index(v)
  BY <1>1 DEF Owner, Index
<1>5. v = Owner(v) * Loops + Index(v)
  BY <1>2, <1>3, <1>4
<1>6. ~(NumProducers < Owner(v)) /\ NumProducers # Owner(v)
  <2>1. Owner(v) * Loops \in Nat
    BY <1>3
  <2>2. QED
    BY <1>1, <1>2, <1>3, <1>5, <2>1, MultiplesApart
<1>7. QED
  BY <1>2, <1>3, <1>5, <1>6 DEF Producers

LEMMA OneOwner ==
    ASSUME NEW p \in Producers, NEW i \in 0 .. Loops - 1
    PROVE  Owner(p * Loops + i) = p /\ Index(p * Loops + i) = i
<1> USE ProducerConsumerAssumption
<1> DEFINE v == p * Loops + i
           q == Owner(v)
           j == Index(v)
<1>1. v \in Items
  BY ValuesAreItems
<1>2. q \in Producers /\ j \in 0 .. Loops - 1 /\ v = q * Loops + j
  BY <1>1, OwnerAndIndex
<1> HIDE DEF q, j
<1>3. p \in Nat /\ q \in Nat /\ p * Loops \in Nat /\ q * Loops \in Nat
  BY <1>2 DEF Producers
<1>4. ~(p < q) /\ ~(q < p)
  BY <1>2, <1>3, MultiplesApart
<1>5. p = q
  BY <1>3, <1>4
<1>6. i = j
  BY <1>2, <1>3, <1>5
<1>7. QED
  BY <1>5, <1>6 DEF q, j

LEMMA FiniteCounts ==
    ASSUME NEW v
    PROVE  IsFiniteSet(Holding(v)) /\ IsFiniteSet(TookMarker)
           /\ Cardinality(Holding(v)) \in Nat /\ Cardinality(TookMarker) \in Nat
<1>1. IsFiniteSet(Slots) /\ IsFiniteSet(Consumers)
  BY ProducerConsumerAssumption, FS_Interval DEF Slots, Consumers
<1>2. IsFiniteSet(Holding(v)) /\ IsFiniteSet(TookMarker)
  BY <1>1, FS_Subset DEF Holding, TookMarker
<1>3. QED
  BY <1>2, FS_CardinalityType

LEMMA DeliveryInit == Init => DeliveryInv
<1> SUFFICES ASSUME Init PROVE DeliveryInv
  OBVIOUS
<1> USE ProducerConsumerAssumption
<1>1. \A v \in Items \cup {END_OF_STREAM} : Holding(v) = {}
  BY DEF Init, Holding, Items, EMPTY, END_OF_STREAM
<1>2. TookMarker = {}
  BY DEF Init, TookMarker, END_OF_STREAM
<1>3. \A t \in Threads : Filled(t) = 0
  BY DEF Init, Filled
<1>4. ItemsOnce
  <2> SUFFICES ASSUME NEW v \in Items PROVE ItemOnce(v)
    BY DEF ItemsOnce
  <2>1. Filled(Owner(v)) = 0 /\ Index(v) \in Nat
    BY <1>3, OwnerAndIndex, ThreadTypes
  <2>2. QED
    BY <1>1, <2>1 DEF ItemOnce, Init
<1>5. MarkersLast
  BY <1>1 DEF MarkersLast, Holding
<1>6. Phases
  BY <1>1, <1>2, ThreadTypes DEF Init, Phases, Main, Producers, Consumers, END_OF_STREAM
<1>7. MarkersCounted
  BY <1>1, <1>2, <1>3, ThreadTypes, FS_EmptySet DEF MarkersCounted
<1>8. QED
  BY <1>2, <1>4, <1>5, <1>6, <1>7 DEF DeliveryInv, StreamEnds

(* Steps that leave the buffer and the items alone. *)
LEMMA StayDelivered ==
    ASSUME DeliveryInv, Phases', UNCHANGED <<shared, tmp, delivered>>,
           \A t \in Fillers : Filled(t)' = Filled(t)
    PROVE  DeliveryInv'
<1>1. Main \in Fillers /\ Producers \subseteq Fillers
  BY DEF Fillers
<1>2. \A v : Holding(v)' = Holding(v)
  BY DEF Holding, shared
<1>3. TookMarker' = TookMarker
  BY DEF TookMarker
<1>4. ItemsOnce'
  <2> SUFFICES ASSUME NEW v \in Items PROVE ItemOnce(v)'
    BY DEF ItemsOnce
  <2>1. Filled(Owner(v))' = Filled(Owner(v))
    BY <1>1, OwnerAndIndex
  <2>2. ItemOnce(v)
    BY DEF DeliveryInv, ItemsOnce
  <2>3. QED
    BY <1>2, <2>1, <2>2 DEF ItemOnce
<1>5. MarkersLast'
  BY DEF DeliveryInv, MarkersLast, Pos, shared
<1>6. StreamEnds' /\ MarkersCounted'
  BY <1>1, <1>2, <1>3 DEF DeliveryInv, StreamEnds, MarkersCounted
<1>7. QED
  BY <1>4, <1>5, <1>6 DEF DeliveryInv

(* A thread that moves between its pause points without touching the buffer. *)
LEMMA DeliveryMove ==
    ASSUME IInv, DeliveryInv, NEW t \in Threads,
           Lock(t) \/ Test(t) \/ Wait(t) \/ Wakeup(t) \/ Signal(t) \/ Unlock(t)
    PROVE  DeliveryInv'
<1> USE ProducerConsumerAssumption, ThreadTypes DEF At, GoTo
<1>1. /\ pc \in [Threads -> {"join", "lock", "test", "wait", "woken", "work",
                             "signal", "unlock", "done"}]
      /\ iter \in [Threads -> Nat]
  BY DEF IInv, TypeOK
<1>2. UNCHANGED <<shared, tmp, delivered>>
  BY DEF Lock, Test, Wait, Wakeup, Signal, Unlock
<1>3. pc[t] \notin {"join", "done", "work"}
  BY DEF Lock, Test, Wait, Wakeup, Signal, Unlock
<1>4. CASE Unlock(t)
  <2>1. /\ pc[t] = "unlock" /\ iter' = [iter EXCEPT ![t] = @ + 1]
        /\ pc' = [pc EXCEPT ![t] = IF Finished(t) THEN "done" ELSE "lock"]
    BY <1>4 DEF Unlock
  <2>2. \A u \in Threads : Filled(u)' = Filled(u)
    BY <1>1, <2>1 DEF Filled
  <2>3. TookMarker' = TookMarker /\ Holding(END_OF_STREAM)' = Holding(END_OF_STREAM)
    BY <1>2 DEF TookMarker, Holding, shared
  <2>4. CASE t \in Producers
    <3>1. t \notin Consumers /\ t # Main /\ (Finished(t) <=> iter[t] + 1 = Loops)
      <4>1. t \notin Consumers /\ t # Main
        BY <2>4 DEF Producers, Consumers, Main
      <4>2. QED
        BY <2>4, <4>1 DEF Finished
    <3>2. Phases'
      <4>1. \A p \in Producers : pc'[p] = "done" => iter'[p] = Loops
        BY <1>1, <2>1, <3>1 DEF DeliveryInv, Phases
      <4>2. pc'[Main] = pc[Main] /\ iter'[Main] = iter[Main] /\ tmp' = tmp
        BY <1>1, <1>2, <2>1, <3>1
      <4>3. pc[Main] = "join"
        BY <1>3, <2>4 DEF DeliveryInv, Phases
      <4>4. \A c \in Consumers : pc'[c] = pc[c]
        BY <1>1, <2>1, <3>1
      <4>5. QED
        BY <2>3, <4>1, <4>2, <4>3, <4>4 DEF DeliveryInv, Phases
    <3>3. QED
      BY <1>2, <2>2, <3>2, StayDelivered DEF Threads
  <2>5. CASE t \in Consumers
    <3>1. t \notin Producers /\ t # Main /\ (Finished(t) <=> tmp[t] = END_OF_STREAM)
      <4>1. t \notin Producers /\ t # Main
        BY <2>5 DEF Producers, Consumers, Main
      <4>2. QED
        BY <2>5, <4>1 DEF Finished
    <3>2. Phases'
      <4>1. \A u \in Fillers : pc'[u] = pc[u] /\ iter'[u] = iter[u]
        BY <1>1, <2>1, <3>1 DEF Fillers, Threads
      <4>2. \A c \in Consumers :
               /\ tmp'[c] = END_OF_STREAM => pc'[c] \in {"signal", "unlock", "done"}
               /\ pc'[c] = "done" => tmp'[c] = END_OF_STREAM
        BY <1>1, <1>2, <2>1, <3>1 DEF DeliveryInv, Phases
      <4>3. QED
        BY <2>3, <4>1, <4>2 DEF DeliveryInv, Phases, Fillers
    <3>3. QED
      BY <1>2, <2>2, <3>2, StayDelivered DEF Threads
  <2>6. CASE t = Main
    <3>1. Finished(t) <=> iter[t] + 1 = NumConsumers
      BY <2>6 DEF Producers, Consumers, Main, Finished
    <3>2. Phases'
      <4>1. \A u \in Producers \cup Consumers : pc'[u] = pc[u] /\ iter'[u] = iter[u]
        BY <1>1, <2>1, <2>6 DEF Producers, Consumers, Main, Fillers, Threads
      <4>2. pc[Main] # "join" /\ pc'[Main] # "join" /\ iter[Main] < NumConsumers
        BY <1>1, <2>1, <2>6 DEF DeliveryInv, Phases
      <4>3. /\ pc'[Main] # "done" => iter'[Main] < NumConsumers
            /\ pc'[Main] = "done" => iter'[Main] = NumConsumers
        BY <1>1, <2>1, <2>6, <3>1, <4>2
      <4>4. QED
        BY <1>2, <4>1, <4>2, <4>3 DEF DeliveryInv, Phases
    <3>3. QED
      BY <1>2, <2>2, <3>2, StayDelivered DEF Threads
  <2>7. QED
    BY <2>4, <2>5, <2>6 DEF Threads, Fillers
<1>5. CASE ~Unlock(t)
  <2>1. iter' = iter
    BY <1>5 DEF Lock, Test, Wait, Wakeup, Signal
  <2>2. ASSUME NEW u \in Threads
        PROVE  /\ pc'[u] \in {"signal", "unlock"} <=> pc[u] \in {"signal", "unlock"}
               /\ pc'[u] = "done" <=> pc[u] = "done"
               /\ pc'[u] = "join" <=> pc[u] = "join"
    <3>1. CASE Lock(t)
      BY <1>1, <3>1 DEF Lock
    <3>2. CASE Test(t)
      BY <1>1, <3>2 DEF Test
    <3>3. CASE Wait(t)
      BY <1>1, <3>3 DEF Wait
    <3>4. CASE Wakeup(t)
      BY <1>1, <3>4 DEF Wakeup
    <3>5. CASE Signal(t)
      BY <1>1, <3>5 DEF Signal, Sleepers
    <3>6. QED
      BY <1>5, <3>1, <3>2, <3>3, <3>4, <3>5
  <2>3. \A u \in Threads : Filled(u)' = Filled(u)
    BY <2>1, <2>2 DEF Filled
  <2>4. TookMarker' = TookMarker /\ Holding(END_OF_STREAM)' = Holding(END_OF_STREAM)
    BY <1>2 DEF TookMarker, Holding, shared
  <2>5. Phases'
    BY <1>2, <2>1, <2>2, <2>4 DEF DeliveryInv, Phases
  <2>6. QED
    BY <1>2, <2>3, <2>5, StayDelivered DEF Threads
<1>6. QED
  BY <1>4, <1>5

LEMMA DeliveryJoin ==
    ASSUME IInv, DeliveryInv, JoinProducers
    PROVE  DeliveryInv'
<1> USE ProducerConsumerAssumption, ThreadTypes DEF At, GoTo
<1>1. /\ pc \in [Threads -> {"join", "lock", "test", "wait", "woken", "work",
                             "signal", "unlock", "done"}]
      /\ pc[Main] = "join" /\ \A p \in Producers : pc[p] = "done"
      /\ pc' = [pc EXCEPT ![Main] = IF NumConsumers = 0 THEN "done" ELSE "lock"]
      /\ UNCHANGED <<shared, tmp, delivered, iter>>
  BY DEF IInv, TypeOK, JoinProducers
<1>2. \A u \in Threads : Filled(u)' = Filled(u)
  BY <1>1 DEF Filled
<1>3. TookMarker' = TookMarker /\ Holding(END_OF_STREAM)' = Holding(END_OF_STREAM)
  BY <1>1 DEF TookMarker, Holding, shared
<1>4. \A u \in Producers \cup Consumers : pc'[u] = pc[u]
  BY <1>1 DEF Producers, Consumers, Main, Fillers, Threads
<1>5. iter[Main] = 0 /\ pc'[Main] = IF NumConsumers = 0 THEN "done" ELSE "lock"
  BY <1>1 DEF DeliveryInv, Phases
<1>6. Phases'
  BY <1>1, <1>3, <1>4, <1>5 DEF DeliveryInv, Phases
<1>7. QED
  BY <1>1, <1>2, <1>6, StayDelivered DEF Threads

(* A producer puts a value that was never in the buffer. *)
LEMMA DeliveryFillItem ==
    ASSUME IInv, DeliveryInv, NEW t \in Producers, DoFill(t)
    PROVE  DeliveryInv'
<1> USE ProducerConsumerAssumption, ThreadTypes
<1>1. /\ pc[t] = "work" /\ fill_ptr \in Slots /\ buffer[fill_ptr] = EMPTY
      /\ buffer' = [buffer EXCEPT ![fill_ptr] = Value(t)]
      /\ pc' = [pc EXCEPT ![t] = "signal"]
      /\ UNCHANGED <<use_ptr, tmp, delivered, iter>>
  BY FillEffect
<1>2. /\ buffer \in [Slots -> Items \cup {EMPTY, END_OF_STREAM}]
      /\ pc \in [Threads -> {"join", "lock", "test", "wait", "woken", "work",
                             "signal", "unlock", "done"}]
      /\ iter \in [Threads -> Nat]
  BY DEF IInv, TypeOK
<1>3. iter[t] \in 0 .. Loops - 1
  BY <1>1, <1>2 DEF IInv, ProducersBounded
<1> DEFINE v0 == t * Loops + iter[t]
<1>4. Value(t) = v0 /\ v0 \in Items /\ Owner(v0) = t /\ Index(v0) = iter[t]
  BY <1>3, ValuesAreItems, OneOwner DEF Value, Producers, Main
<1>5. v0 # EMPTY /\ v0 # END_OF_STREAM
  BY <1>4 DEF Items, EMPTY, END_OF_STREAM
<1>6. pc[Main] = "join" /\ pc'[Main] = "join"
  BY <1>1, <1>2 DEF DeliveryInv, Phases, Producers, Main
<1>7. \A u \in Threads : Filled(u)' = IF u = t THEN Filled(u) + 1 ELSE Filled(u)
  BY <1>1, <1>2 DEF Filled
<1>8. Filled(t) = iter[t]
  BY <1>1, <1>2 DEF Filled
<1>9. TookMarker' = TookMarker /\ TookMarker = {}
  BY <1>1, <1>6 DEF TookMarker, DeliveryInv, Phases
<1>10. \A v \in Items \cup {END_OF_STREAM} : v # v0 => Holding(v)' = Holding(v)
  BY <1>1, <1>2, <1>4 DEF Holding, Items, EMPTY, END_OF_STREAM
<1>11. Holding(v0) = {} /\ delivered[v0] = 0
  BY <1>3, <1>4, <1>8 DEF DeliveryInv, ItemsOnce, ItemOnce
<1>12. Holding(v0)' = {fill_ptr}
  BY <1>1, <1>2, <1>4, <1>11 DEF Holding
<1>13. ItemsOnce'
  <2> SUFFICES ASSUME NEW v \in Items PROVE ItemOnce(v)'
    BY DEF ItemsOnce
  <2>1. Owner(v) \in Producers /\ Index(v) \in Nat /\ v = Owner(v) * Loops + Index(v)
    BY OwnerAndIndex
  <2>2. ItemOnce(v)
    BY DEF DeliveryInv, ItemsOnce
  <2>3. CASE v = v0
    <3>1. Index(v) < Filled(Owner(v))'
      BY <1>3, <1>4, <1>7, <1>8, <2>3
    <3>2. delivered'[v] = 0 /\ Holding(v)' = {fill_ptr}
      BY <1>1, <1>11, <1>12, <2>3
    <3>3. QED
      BY <1>1, <3>1, <3>2 DEF ItemOnce
  <2>4. CASE v # v0
    <3>1. Owner(v) = t => Index(v) # iter[t]
      BY <2>1, <2>4
    <3>2. Index(v) < Filled(Owner(v))' <=> Index(v) < Filled(Owner(v))
      BY <1>3, <1>7, <1>8, <2>1, <3>1
    <3>3. delivered'[v] = delivered[v] /\ Holding(v)' = Holding(v)
      BY <1>1, <1>10, <2>4
    <3>4. QED
      BY <2>2, <3>2, <3>3 DEF ItemOnce
  <2>5. QED
    BY <2>3, <2>4
<1>14. Holding(END_OF_STREAM)' = Holding(END_OF_STREAM) /\ Holding(END_OF_STREAM) = {}
  BY <1>5, <1>6, <1>10 DEF DeliveryInv, Phases
<1>15. MarkersLast'
  BY <1>14 DEF MarkersLast, Holding
<1>16. Phases'
  <2>1. \A u \in Threads : pc'[u] = "done" <=> pc[u] = "done"
    BY <1>1, <1>2
  <2>2. \A c \in Consumers : pc'[c] = pc[c]
    BY <1>1, <1>2 DEF Producers, Consumers
  <2>3. QED
    BY <1>1, <1>6, <1>9, <1>14, <2>1, <2>2 DEF DeliveryInv, Phases
<1>17. StreamEnds'
  BY <1>9 DEF StreamEnds
<1>18. MarkersCounted'
  BY <1>7, <1>9, <1>14 DEF DeliveryInv, MarkersCounted, Producers, Main
<1>19. QED
  BY <1>13, <1>15, <1>16, <1>17, <1>18 DEF DeliveryInv

(* Main puts a marker behind everything else. *)
LEMMA DeliveryFillMarker ==
    ASSUME IInv, DeliveryInv, DoFill(Main)
    PROVE  DeliveryInv'
<1> USE ProducerConsumerAssumption, ThreadTypes
<1>1. /\ pc[Main] = "work" /\ fill_ptr \in Slots /\ buffer[fill_ptr] = EMPTY /\ num_full < Max
      /\ buffer' = [buffer EXCEPT ![fill_ptr] = END_OF_STREAM]
      /\ pc' = [pc EXCEPT ![Main] = "signal"]
      /\ UNCHANGED <<use_ptr, tmp, delivered, iter>>
  BY FillEffect DEF Value
<1>2. /\ buffer \in [Slots -> Items \cup {EMPTY, END_OF_STREAM}]
      /\ pc \in [Threads -> {"join", "lock", "test", "wait", "woken", "work",
                             "signal", "unlock", "done"}]
      /\ iter \in [Threads -> Nat]
  BY DEF IInv, TypeOK
<1>3. EMPTY \notin Items /\ END_OF_STREAM \notin Items /\ EMPTY # END_OF_STREAM
  BY DEF Items, EMPTY, END_OF_STREAM
<1>4. \A u \in Threads : Filled(u)' = IF u = Main THEN Filled(u) + 1 ELSE Filled(u)
  BY <1>1, <1>2 DEF Filled
<1>5. TookMarker' = TookMarker
  BY <1>1 DEF TookMarker
<1>6. \A v \in Items : Holding(v)' = Holding(v)
  BY <1>1, <1>2, <1>3 DEF Holding
<1>7. Holding(END_OF_STREAM)' = Holding(END_OF_STREAM) \cup {fill_ptr}
      /\ fill_ptr \notin Holding(END_OF_STREAM)
  BY <1>1, <1>2, <1>3 DEF Holding
<1>8. ItemsOnce'
  <2> SUFFICES ASSUME NEW v \in Items PROVE ItemOnce(v)'
    BY DEF ItemsOnce
  <2>1. Filled(Owner(v))' = Filled(Owner(v))
    BY <1>4, OwnerAndIndex DEF Producers, Main
  <2>2. ItemOnce(v)
    BY DEF DeliveryInv, ItemsOnce
  <2>3. QED
    BY <1>1, <1>6, <2>1, <2>2 DEF ItemOnce
<1>9. MarkersLast'
  <2> SUFFICES ASSUME NEW s \in Slots, NEW r \in Slots,
                      buffer'[s] = END_OF_STREAM, buffer'[r] \in Items
               PROVE  Pos(r) < Pos(s)
    BY <1>1 DEF MarkersLast, Pos
  <2>1. r # fill_ptr /\ buffer'[r] = buffer[r]
    BY <1>1, <1>2, <1>3
  <2>2. CASE s = fill_ptr
    BY <1>1, <1>3, <2>1, <2>2, PositionsInUse
  <2>3. CASE s # fill_ptr
    BY <1>1, <1>2, <2>1, <2>3 DEF DeliveryInv, MarkersLast
  <2>4. QED
    BY <2>2, <2>3
<1>10. Phases'
  <2>1. pc'[Main] = "signal" /\ \A u \in Producers \cup Consumers : pc'[u] = pc[u]
    BY <1>1, <1>2 DEF Producers, Consumers, Main, Fillers, Threads
  <2>2. QED
    BY <1>1, <2>1 DEF DeliveryInv, Phases
<1>11. StreamEnds'
  BY <1>5, <1>6 DEF DeliveryInv, StreamEnds
<1>12. MarkersCounted'
  <2>1. Cardinality(Holding(END_OF_STREAM)') = Cardinality(Holding(END_OF_STREAM)) + 1
    BY <1>7, FiniteCounts, FS_AddElement
  <2>2. Filled(Main)' = Filled(Main) + 1
    BY <1>4
  <2>3. Cardinality(Holding(END_OF_STREAM)) \in Nat /\ Cardinality(TookMarker) \in Nat
    BY FiniteCounts
  <2>4. QED
    BY <1>5, <2>1, <2>2, <2>3 DEF DeliveryInv, MarkersCounted
<1>13. QED
  BY <1>8, <1>9, <1>10, <1>11, <1>12 DEF DeliveryInv

(* Taking the first value moves every other one a place forward. *)
LEMMA PositionsMove ==
    ASSUME IInv, NEW t \in Threads, DoGet(t), NEW s \in Slots, s # use_ptr
    PROVE  Pos(s)' = Pos(s) - 1
<1>1. use_ptr \in Slots /\ use_ptr' = Wrap(use_ptr + 1)
  BY GetEffect, NextSlotWraps
<1>2. QED
  BY <1>1, ProducerConsumerAssumption DEF Pos, Wrap, Slots

(* A consumer takes an item, which is delivered then, or a marker, when no
   item is left. *)
LEMMA DeliveryGet ==
    ASSUME IInv, DeliveryInv, NEW t \in Threads, DoGet(t)
    PROVE  DeliveryInv'
<1> USE ProducerConsumerAssumption, ThreadTypes
<1>1. /\ pc[t] = "work" /\ t \in Consumers /\ use_ptr \in Slots
      /\ tmp' = [tmp EXCEPT ![t] = buffer[use_ptr]]
      /\ delivered' = Consumed(buffer[use_ptr])
      /\ buffer' = [buffer EXCEPT ![use_ptr] = EMPTY]
      /\ pc' = [pc EXCEPT ![t] = "signal"]
      /\ iter' = iter
  BY GetEffect
<1>2. /\ buffer \in [Slots -> Items \cup {EMPTY, END_OF_STREAM}]
      /\ pc \in [Threads -> {"join", "lock", "test", "wait", "woken", "work",
                             "signal", "unlock", "done"}]
      /\ tmp \in [Consumers -> Items \cup {0, END_OF_STREAM}]
      /\ delivered \in [Items -> Nat]
  BY DEF IInv, TypeOK
<1>3. EMPTY \notin Items /\ END_OF_STREAM \notin Items /\ EMPTY # END_OF_STREAM
  BY DEF Items, EMPTY, END_OF_STREAM
<1> PICK v0 \in Items \cup {END_OF_STREAM} : v0 = buffer[use_ptr]
  BY GetEffect
<1>4. \A u \in Fillers : pc'[u] = pc[u] /\ Filled(u)' = Filled(u)
  BY <1>1, <1>2 DEF Filled, Threads
<1>5. Main \in Fillers /\ Producers \subseteq Fillers
  BY DEF Fillers
<1>6. t \notin TookMarker
  BY <1>1 DEF DeliveryInv, Phases, TookMarker
<1>7. use_ptr \in Holding(v0)
  BY <1>1 DEF Holding
<1>8. Holding(v0)' = Holding(v0) \ {use_ptr}
  BY <1>1, <1>2, <1>3 DEF Holding
<1>9. \A v \in Items \cup {END_OF_STREAM} : v # v0 => Holding(v)' = Holding(v)
  BY <1>1, <1>2, <1>3 DEF Holding
<1>10. \A v \in Items : delivered'[v] = delivered[v] + IF v = v0 THEN 1 ELSE 0
  BY <1>1 DEF Consumed
<1>11. ItemsOnce'
  <2> SUFFICES ASSUME NEW v \in Items PROVE ItemOnce(v)'
    BY DEF ItemsOnce
  <2>1. Filled(Owner(v))' = Filled(Owner(v))
    BY <1>4, <1>5, OwnerAndIndex
  <2>2. ItemOnce(v)
    BY DEF DeliveryInv, ItemsOnce
  <2>3. CASE v = v0
    <3>1. /\ Index(v) < Filled(Owner(v)) /\ delivered[v] = 0
          /\ \E s \in Slots : Holding(v) = {s}
      BY <1>7, <2>2, <2>3 DEF ItemOnce
    <3>2. Holding(v)' = {} /\ delivered'[v] = 1
      BY <1>7, <1>8, <1>10, <2>3, <3>1
    <3>3. QED
      BY <2>1, <3>1, <3>2 DEF ItemOnce
  <2>4. CASE v # v0
    <3>1. Holding(v)' = Holding(v) /\ delivered'[v] = delivered[v]
      BY <1>2, <1>9, <1>10, <2>4
    <3>2. QED
      BY <2>1, <2>2, <3>1 DEF ItemOnce
  <2>5. QED
    BY <2>3, <2>4
<1>12. MarkersLast'
  <2> SUFFICES ASSUME NEW s \in Slots, NEW r \in Slots,
                      buffer'[s] = END_OF_STREAM, buffer'[r] \in Items
               PROVE  Pos(r)' < Pos(s)'
    BY DEF MarkersLast
  <2>1. s # use_ptr /\ r # use_ptr /\ buffer'[s] = buffer[s] /\ buffer'[r] = buffer[r]
    BY <1>1, <1>2, <1>3
  <2>2. Pos(r) < Pos(s)
    BY <2>1 DEF DeliveryInv, MarkersLast
  <2>3. Pos(r) \in Int /\ Pos(s) \in Int
    BY PositionsInUse
  <2>4. QED
    BY <2>1, <2>2, <2>3, PositionsMove
<1>13. TookMarker' = IF v0 = END_OF_STREAM THEN TookMarker \cup {t} ELSE TookMarker
  BY <1>1, <1>2, <1>6 DEF TookMarker
<1>14. v0 = END_OF_STREAM => pc[Main] # "join"
  BY <1>7 DEF DeliveryInv, Phases
<1>15. Phases'
  <2>1. \A c \in Consumers :
           /\ tmp'[c] = END_OF_STREAM => pc'[c] \in {"signal", "unlock", "done"}
           /\ pc'[c] = "done" => tmp'[c] = END_OF_STREAM
    BY <1>1, <1>2 DEF DeliveryInv, Phases
  <2>2. pc'[Main] = "join" => Holding(END_OF_STREAM)' = {} /\ TookMarker' = {}
    BY <1>4, <1>5, <1>9, <1>13, <1>14 DEF DeliveryInv, Phases
  <2>3. QED
    BY <1>1, <1>4, <1>5, <2>1, <2>2 DEF DeliveryInv, Phases
<1>16. StreamEnds'
  <2>1. CASE v0 = END_OF_STREAM
    <3>1. Pos(use_ptr) = 0
      BY <1>1 DEF Pos, Slots
    <3>2. ASSUME NEW r \in Slots PROVE buffer[r] \notin Items
      <4>1. Pos(r) \in 0 .. Max - 1
        BY PositionsInUse
      <4>2. ~(Pos(r) < Pos(use_ptr))
        BY <3>1, <4>1
      <4>3. QED
        BY <1>1, <2>1, <4>2 DEF DeliveryInv, MarkersLast
    <3>3. \A v \in Items : Holding(v) = {}
      BY <3>2 DEF Holding
    <3>4. QED
      BY <1>3, <1>9, <2>1, <3>3 DEF StreamEnds
  <2>2. CASE v0 # END_OF_STREAM
    BY <1>7, <1>13, <2>2 DEF DeliveryInv, StreamEnds
  <2>3. QED
    BY <2>1, <2>2
<1>17. MarkersCounted'
  <2>1. Filled(Main)' = Filled(Main)
    BY <1>4, <1>5
  <2>2. CASE v0 = END_OF_STREAM
    <3>1. Cardinality(TookMarker') = Cardinality(TookMarker) + 1
      BY <1>6, <1>13, <2>2, FiniteCounts, FS_AddElement
    <3>2. Cardinality(Holding(END_OF_STREAM)') = Cardinality(Holding(END_OF_STREAM)) - 1
      BY <1>7, <1>8, <2>2, FiniteCounts, FS_RemoveElement
    <3>3. Cardinality(Holding(END_OF_STREAM)) \in Nat /\ Cardinality(TookMarker) \in Nat
      BY FiniteCounts
    <3>4. QED
      BY <2>1, <3>1, <3>2, <3>3 DEF DeliveryInv, MarkersCounted
  <2>3. CASE v0 # END_OF_STREAM
    BY <1>9, <1>13, <2>1, <2>3 DEF DeliveryInv, MarkersCounted
  <2>4. QED
    BY <2>2, <2>3
<1>18. QED
  BY <1>11, <1>12, <1>15, <1>16, <1>17 DEF DeliveryInv

(* When main has joined everybody nothing is left over. *)
LEMMA NothingLeft ==
    ASSUME IInv, DeliveryInv, NumConsumers # 0,
           pc[Main] = "done", \A c \in Consumers : pc[c] = "done"
    PROVE  (\A v \in Items : delivered[v] = 1) /\ (\A s \in Slots : buffer[s] = EMPTY)
<1> USE ProducerConsumerAssumption
<1>1. TookMarker = Consumers
  BY DEF DeliveryInv, Phases, TookMarker
<1>2. Cardinality(Consumers) = NumConsumers /\ NumProducers \in Consumers
  BY FS_Interval DEF Consumers
<1>3. Filled(Main) = NumConsumers
  BY DEF DeliveryInv, Phases, Filled
<1>4. Cardinality(Holding(END_OF_STREAM)) = 0
  BY <1>1, <1>2, <1>3, FiniteCounts DEF DeliveryInv, MarkersCounted
<1>5. Holding(END_OF_STREAM) = {}
  BY <1>4, FiniteCounts, FS_EmptySet
<1>6. \A v \in Items : Holding(v) = {}
  BY <1>1, <1>2 DEF DeliveryInv, StreamEnds
<1>7. ASSUME NEW s \in Slots PROVE buffer[s] = EMPTY
  BY <1>5, <1>6 DEF Holding, IInv, TypeOK
<1>8. ASSUME NEW v \in Items PROVE delivered[v] = 1
  <2>1. Owner(v) \in Producers /\ Index(v) \in 0 .. Loops - 1
    BY OwnerAndIndex
  <2>2. Filled(Owner(v)) = Loops
    BY <2>1 DEF DeliveryInv, Phases, Filled
  <2>3. QED
    BY <1>6, <2>1, <2>2 DEF DeliveryInv, ItemsOnce, ItemOnce
<1>9. QED
  BY <1>7, <1>8

(* With at least one consumer, for every number of producers, slots and
   values: when the process exits every item was consumed exactly once and
   nothing is left in the buffer. *)
THEOREM Delivery ==
    ASSUME NumConsumers # 0
    PROVE  Spec => []AllDelivered
<1>1. IInv /\ DeliveryInv /\ [Next]_vars => DeliveryInv'
  <2> SUFFICES ASSUME IInv, DeliveryInv, [Next]_vars PROVE DeliveryInv'
    OBVIOUS
  <2>1. ASSUME NEW t \in Threads, DoFill(t) PROVE DeliveryInv'
    BY <2>1, DeliveryFillItem, DeliveryFillMarker DEF DoFill, Fillers
  <2>2. ASSUME NEW t \in Threads, DoGet(t) PROVE DeliveryInv'
    BY <2>2, DeliveryGet
  <2>3. CASE JoinConsumers \/ UNCHANGED vars
    <3>1. UNCHANGED <<shared, tmp, delivered, pc, iter>>
      BY <2>3 DEF JoinConsumers, vars
    <3>2. Phases'
      BY <3>1 DEF DeliveryInv, Phases, Holding, TookMarker, shared
    <3>3. \A t \in Fillers : Filled(t)' = Filled(t)
      BY <3>1 DEF Filled
    <3>4. QED
      BY <3>1, <3>2, <3>3, StayDelivered
  <2>4. QED
    BY <2>1, <2>2, <2>3, DeliveryMove, DeliveryJoin DEF Next, Work, Ended
<1>2. IInv /\ DeliveryInv /\ AllDelivered /\ [Next]_vars => AllDelivered'
  <2> SUFFICES ASSUME IInv, DeliveryInv, AllDelivered, [Next]_vars PROVE AllDelivered'
    OBVIOUS
  <2>1. CASE JoinConsumers
    BY <2>1, NothingLeft DEF JoinConsumers, At, AllDelivered, shared
  <2>2. CASE UNCHANGED vars
    BY <2>2 DEF vars, shared, AllDelivered
  <2>3. CASE status = "running" /\ ~JoinConsumers
    <3>1. status' # "exited"
      BY <2>3 DEF Next, Work, Wakeup, Lock, Test, Wait, DoFill, DoGet, Signal, Unlock, Ensure,
         JoinProducers, Ended, vars
    <3>2. QED
      BY <3>1 DEF AllDelivered
  <2>4. QED
    BY <2>1, <2>2, <2>3 DEF Next, Work, Wakeup, Lock, Test, Wait, DoFill, DoGet, Signal, Unlock,
       JoinProducers, Ended, At
<1>3. Init => AllDelivered
  BY DEF Init, AllDelivered
<1>4. QED
  BY <1>1, <1>2, <1>3, DeliveryInit, Invariance, PTL DEF Spec
=============================================================================
