---------------------------- MODULE ThreadsProofs ----------------------------
(***************************************************************************)
(* Proofs about the three programs whose threads share memory under locks: *)
(* the lock-based counters, the vectors of the bugs homework and the       *)
(* identity queue, each for every number of threads and of operations.     *)
(***************************************************************************)
EXTENDS Counters, Vectors, IdentityQueue, FiniteSetTheorems, SequenceTheorems, TLAPS

-----------------------------------------------------------------------------
(***************************************************************************)
(* The lock-based counters, for every number of threads, increments per    *)
(* thread and synchronisation threshold.                                   *)
(***************************************************************************)

(* What a sum over the threads does when one term of it changes. *)
LEMMA UnitsIn ==
    ASSUME NEW f, NEW u
    PROVE  u \in Units(f) <=> \E t \in Threads : \E n \in 1 .. f[t] : u = <<t, n>>
  BY DEF Units

LEMMA ThreadsFinite == IsFiniteSet(Threads) /\ Cardinality(Threads) = NumThreads
  BY FS_Interval, CountersAssumption DEF Threads

LEMMA Box ==
    ASSUME NEW b \in Nat
    PROVE  /\ IsFiniteSet(Threads \X (1 .. b))
           /\ Cardinality(Threads \X (1 .. b)) = NumThreads * b
<1>1. IsFiniteSet(1 .. b) /\ Cardinality(1 .. b) = b
  BY FS_Interval
<1>2. QED
  BY <1>1, ThreadsFinite, FS_Product

LEMMA TotalBounded ==
    ASSUME NEW b \in Nat, NEW f \in [Threads -> 0 .. b]
    PROVE  /\ IsFiniteSet(Units(f))
           /\ Total(f) \in 0 .. NumThreads * b
<1>1. Units(f) \subseteq Threads \X (1 .. b)
  BY DEF Units
<1>2. IsFiniteSet(Units(f)) /\ Cardinality(Units(f)) <= Cardinality(Threads \X (1 .. b))
  BY <1>1, Box, FS_Subset
<1>3. Cardinality(Units(f)) \in Nat /\ NumThreads * b \in Nat
  BY <1>2, FS_CardinalityType, CountersAssumption
<1>4. QED
  BY <1>2, <1>3, Box DEF Total

LEMMA TotalFull ==
    ASSUME NEW b \in Nat, NEW f, \A t \in Threads : f[t] = b
    PROVE  Total(f) = NumThreads * b
<1>1. Units(f) = Threads \X (1 .. b)
  BY DEF Units
<1>2. QED
  BY <1>1, Box DEF Total

LEMMA TotalZero == Total(Zero) = 0
<1>1. Units(Zero) = {}
  BY DEF Units, Zero
<1>2. QED
  BY <1>1, FS_EmptySet DEF Total

LEMMA TotalAddOne ==
    ASSUME NEW b \in Nat, NEW f \in [Threads -> 0 .. b], NEW g \in [Threads -> Nat],
           NEW t \in Threads, g[t] = f[t] + 1, \A u \in Threads : u # t => g[u] = f[u]
    PROVE  Total(g) = Total(f) + 1
<1>1. Units(g) = Units(f) \cup {<<t, f[t] + 1>>}
  <2>1. ASSUME NEW u \in Threads, NEW n \in 1 .. g[u]
        PROVE  <<u, n>> \in Units(f) \cup {<<t, f[t] + 1>>}
    <3>1. CASE u = t /\ n = f[t] + 1
      BY <3>1
    <3>2. CASE ~(u = t /\ n = f[t] + 1)
      BY <3>2, UnitsIn
    <3>3. QED
      BY <3>1, <3>2
  <2>2. ASSUME NEW u \in Threads, NEW n \in 1 .. f[u]
        PROVE  <<u, n>> \in Units(g)
    BY UnitsIn
  <2>3. <<t, f[t] + 1>> \in Units(g)
    BY UnitsIn
  <2>4. QED
    BY <2>1, <2>2, <2>3, UnitsIn
<1>2. <<t, f[t] + 1>> \notin Units(f)
  BY UnitsIn
<1>3. QED
  BY <1>1, <1>2, TotalBounded, FS_AddElement, ZenonT(30) DEF Total

LEMMA TotalDrop ==
    ASSUME NEW b \in Nat, NEW f \in [Threads -> 0 .. b], NEW g \in [Threads -> Nat],
           NEW t \in Threads, g[t] = 0, \A u \in Threads : u # t => g[u] = f[u]
    PROVE  Total(f) = Total(g) + f[t]
<1> DEFINE Mine == {t} \X (1 .. f[t])
<1>1. IsFiniteSet(Mine) /\ Cardinality(Mine) = f[t]
  <2>1. IsFiniteSet({t}) /\ Cardinality({t}) = 1
    BY FS_Singleton
  <2>2. IsFiniteSet(1 .. f[t]) /\ Cardinality(1 .. f[t]) = f[t]
    BY FS_Interval, SMTT(30)
  <2>3. QED
    BY <2>1, <2>2, FS_Product
<1>2. Units(f) = Units(g) \cup Mine
  BY DEF Units
<1>3. Units(g) \cap Mine = {}
  BY DEF Units
<1>4. g \in [Threads -> 0 .. b]
  OBVIOUS
<1>5. IsFiniteSet(Units(g)) /\ Total(g) \in Nat
  BY <1>4, TotalBounded
<1>6. Cardinality(Units(f)) = Cardinality(Units(g)) + Cardinality(Mine) - Cardinality({})
  BY <1>1, <1>2, <1>3, <1>5, FS_Union
<1>7. QED
  BY <1>1, <1>5, <1>6, FS_EmptySet DEF Total

-----------------------------------------------------------------------------
(* The labels of each counter's thread handler. *)
CounterLabels ==
    [k \in Kinds \cup {"exited"} |->
        CASE k = "nonatomic" -> {"next", "store"}
          [] k = "atomic" -> {"next", "load", "store", "unlock"}
          [] k = "approx" -> {"next", "sync", "add", "reset"}
          [] k = "exited" -> {"next"}]

(* What a CPU still holds back: between the addition to the global count and
   the reset of the per-CPU one the same units are in both. *)
Unsynced == [t \in Threads |-> IF pc[t] = "reset" THEN 0 ELSE cpu_counters[t]]

LockTaken(t) ==
    \/ kind = "atomic" /\ pc[t] \in {"load", "store", "unlock"}
    \/ kind = "approx" /\ pc[t] = "add"

(* Types of the variables, without the bounds that need the sums. *)
Shape ==
    /\ kind \in Kinds \cup {"exited"}
    /\ count \in Nat
    /\ global_counter \in Nat
    /\ cpu_counters \in [Threads -> 0 .. SyncThreshold]
    /\ mutex \in Threads \cup {Free}
    /\ reg \in [Threads -> Nat]
    /\ pc \in [Threads -> CounterLabels[kind]]
    /\ iter \in [Threads -> 0 .. Rounds]
    /\ printed \in [Kinds -> 0 .. Expected \cup {NotYet}]

(* A thread in the middle of an increment has it still to finish, and is the
   only one that holds the mutex. *)
Unfinished == \A t \in Threads : pc[t] # "next" => iter[t] < Rounds
Exclusive == \A t \in Threads : mutex = t <=> LockTaken(t)

(* The value a thread loaded under the mutex is not overtaken. *)
LoadedCurrent ==
    \A t \in Threads :
        /\ kind = "atomic" /\ pc[t] = "store" => reg[t] = count
        /\ kind = "approx" /\ pc[t] = "add" => reg[t] = global_counter

AtomicSum == kind = "atomic" => count = Total(Made)
ApproxSum ==
    kind = "approx" =>
        /\ global_counter + Total(Unsynced) = Total(Made)
        /\ \A t \in Threads : pc[t] = "next" => cpu_counters[t] < SyncThreshold

(* Races can only lose increments; a thread that has stored once never loads 0
   again; and whoever stores for the second time leaves at least 2. *)
NonatomicRaces ==
    kind = "nonatomic" =>
        /\ count <= Total(Made)
        /\ \A t \in Threads : pc[t] = "store" => reg[t] <= Total(Made)
        /\ \A t \in Threads : iter[t] >= 1 => count >= 1
        /\ \A t \in Threads : pc[t] = "store" /\ iter[t] >= 1 => reg[t] >= 1
        /\ count >= 2 \/ Rounds = 1 \/ \E t \in Threads : iter[t] < Rounds
        /\ NumThreads = 1 => count = iter[1] /\ (pc[1] = "store" => reg[1] = count)

CountersInv ==
    /\ Shape
    /\ Unfinished
    /\ Exclusive
    /\ LoadedCurrent
    /\ AtomicSum
    /\ ApproxSum
    /\ NonatomicRaces
    /\ LockedCountersExact
    /\ NonatomicLoss

LEMMA LabelsOf ==
    /\ CounterLabels["nonatomic"] = {"next", "store"}
    /\ CounterLabels["atomic"] = {"next", "load", "store", "unlock"}
    /\ CounterLabels["approx"] = {"next", "sync", "add", "reset"}
    /\ CounterLabels["exited"] = {"next"}
  BY DEF CounterLabels, Kinds

LEMMA MadeTyped ==
    ASSUME Shape, Unfinished
    PROVE  /\ Made \in [Threads -> 0 .. Rounds]
           /\ Total(Made) \in 0 .. Expected
<1>1. ASSUME NEW t \in Threads
      PROVE  Made[t] \in 0 .. Rounds
  <2>1. iter[t] \in 0 .. Rounds /\ (Counted(t) => iter[t] < Rounds)
    BY DEF Shape, Unfinished, Counted
  <2>2. QED
    BY <2>1, CountersAssumption DEF Made
<1>2. Made \in [Threads -> 0 .. Rounds]
  BY <1>1 DEF Made
<1>3. QED
  BY <1>2, TotalBounded, CountersAssumption DEF Expected

LEMMA UnsyncedTyped ==
    ASSUME Shape
    PROVE  /\ Unsynced \in [Threads -> 0 .. SyncThreshold]
           /\ Total(Unsynced) \in 0 .. NumThreads * SyncThreshold
<1>1. Unsynced \in [Threads -> 0 .. SyncThreshold]
  BY CountersAssumption DEF Shape, Unsynced
<1>2. QED
  BY <1>1, TotalBounded, CountersAssumption

(* An increment is counted in one step: the others leave the sum alone. *)
LEMMA MadeSame ==
    ASSUME NEW t \in Threads, Shape,
           \/ iter' = iter /\ (Counted(t)' <=> Counted(t))
           \/ iter' = [iter EXCEPT ![t] = @ + 1] /\ Counted(t) /\ ~Counted(t)',
           \A u \in Threads : u # t => pc'[u] = pc[u]
    PROVE  Made' = Made
<1>1. ASSUME NEW u \in Threads
      PROVE  iter'[u] + (IF Counted(u)' THEN 1 ELSE 0) = iter[u] + (IF Counted(u) THEN 1 ELSE 0)
  <2>1. CASE u = t
    BY <2>1 DEF Shape
  <2>2. CASE u # t
    BY <2>2 DEF Shape, Counted
  <2>3. QED
    BY <2>1, <2>2
<1>2. QED
  BY <1>1 DEF Made

LEMMA MadeOneMore ==
    ASSUME NEW t \in Threads, Shape, Unfinished,
           \/ iter' = iter /\ ~Counted(t) /\ Counted(t)'
           \/ iter' = [iter EXCEPT ![t] = @ + 1] /\ ~Counted(t) /\ ~Counted(t)',
           \A u \in Threads : u # t => pc'[u] = pc[u]
    PROVE  Total(Made') = Total(Made) + 1
<1>1. ASSUME NEW u \in Threads
      PROVE  /\ Made'[u] = IF u = t THEN Made[u] + 1 ELSE Made[u]
             /\ Made'[u] \in Nat
  <2>1. /\ Made[u] = iter[u] + IF Counted(u) THEN 1 ELSE 0
        /\ Made'[u] = iter'[u] + IF Counted(u)' THEN 1 ELSE 0
    BY DEF Made
  <2>2. iter[u] \in Nat
    BY DEF Shape
  <2>3. CASE u = t
    BY <2>1, <2>2, <2>3 DEF Shape
  <2>4. CASE u # t
    BY <2>1, <2>2, <2>4 DEF Shape, Counted
  <2>5. QED
    BY <2>3, <2>4
<1>2. Made' \in [Threads -> Nat]
  BY <1>1 DEF Made
<1>3. Made \in [Threads -> 0 .. Rounds] /\ Rounds \in Nat
  BY MadeTyped, CountersAssumption
<1>4. QED
  BY <1>1, <1>2, <1>3, TotalAddOne

-----------------------------------------------------------------------------
LEMMA InitCountersInv == Init => CountersInv
<1> SUFFICES ASSUME Init PROVE CountersInv
  OBVIOUS
<1> USE CountersAssumption
<1>1. Shape
  BY LabelsOf DEF Init, Shape, Zero, Kinds, NotYet, Expected, Threads
<1>2. Made = Zero /\ Total(Made) = 0
  <2>1. Made = Zero
    BY DEF Init, Made, Counted, Zero
  <2>2. QED
    BY <2>1, TotalZero
<1>3. NonatomicRaces
  BY <1>2 DEF Init, NonatomicRaces, Zero, Threads
<1>4. Exclusive
  BY DEF Init, Exclusive, LockTaken, Free, Threads
<1>5. QED
  BY <1>1, <1>3, <1>4 DEF Init, CountersInv, Unfinished, LoadedCurrent, AtomicSum, ApproxSum,
     LockedCountersExact, NonatomicLoss, Kinds

(* The counter without a lock. *)
LEMMA NonatomicStep ==
    ASSUME CountersInv, kind = "nonatomic", NEW t \in Threads, Step(t)
    PROVE  CountersInv'
<1> USE CountersAssumption DEF CountersInv
<1>1. pc \in [Threads -> {"next", "store"}]
  BY LabelsOf DEF Shape
<1>2. CASE Load(t)
  <2>1. /\ pc' = [pc EXCEPT ![t] = "store"] /\ reg' = [reg EXCEPT ![t] = count]
        /\ pc[t] = "next" /\ iter[t] < Rounds
        /\ UNCHANGED <<kind, count, global_counter, cpu_counters, mutex, iter, printed>>
    BY <1>2 DEF Load, GoTo, AtNext
  <2>2. pc' \in [Threads -> {"next", "store"}]
    BY <1>1, <2>1
  <2>3. Shape'
    BY <2>1, <2>2, LabelsOf DEF Shape
  <2>4. Unfinished'
    BY <1>1, <2>1 DEF Unfinished
  <2>5. Exclusive'
    BY <2>1 DEF Exclusive, LockTaken
  <2>6. Made' = Made
    BY <1>1, <2>1, MadeSame DEF Counted
  <2>7. NonatomicRaces'
    <3>1. count <= Total(Made)
      BY DEF NonatomicRaces
    <3>2. ASSUME NEW u \in Threads, pc'[u] = "store"
          PROVE  reg'[u] <= Total(Made) /\ (iter[u] >= 1 => reg'[u] >= 1)
      BY <1>1, <2>1, <3>1, <3>2 DEF NonatomicRaces, Shape
    <3>3. NumThreads = 1 => count = iter[1] /\ reg'[1] = count
      BY <2>1 DEF NonatomicRaces, Shape, Threads
    <3>4. QED
      BY <2>1, <2>6, <3>2, <3>3 DEF NonatomicRaces
  <2>8. QED
    BY <2>1, <2>3, <2>4, <2>5, <2>7 DEF LoadedCurrent, AtomicSum, ApproxSum,
       LockedCountersExact, NonatomicLoss
<1>3. CASE Store(t)
  <2>1. /\ pc' = [pc EXCEPT ![t] = "next"] /\ count' = reg[t] + 1
        /\ pc[t] = "store" /\ iter' = [iter EXCEPT ![t] = @ + 1]
        /\ UNCHANGED <<kind, global_counter, cpu_counters, mutex, reg, printed>>
    BY <1>3 DEF Store, GoTo, EndRound
  <2>2. pc' \in [Threads -> {"next", "store"}]
    BY <1>1, <2>1
  <2>3. iter[t] < Rounds
    BY <2>1 DEF Unfinished
  <2>4. Shape'
    BY <2>1, <2>2, <2>3, LabelsOf DEF Shape
  <2>5. Unfinished'
    BY <1>1, <2>1 DEF Unfinished, Shape
  <2>6. Exclusive'
    BY <2>1 DEF Exclusive, LockTaken
  <2>7. Total(Made') = Total(Made) + 1
    BY <1>1, <2>1, MadeOneMore DEF Counted
  <2>8. NonatomicRaces'
    <3>1. reg \in [Threads -> Nat] /\ iter \in [Threads -> 0 .. Rounds] /\ Total(Made) \in Nat
      BY MadeTyped DEF Shape
    <3>2. count' <= Total(Made') /\ count' >= 1
      BY <2>1, <2>7, <3>1 DEF NonatomicRaces
    <3>3. \A u \in Threads : pc'[u] = "store" => reg'[u] <= Total(Made')
      BY <1>1, <2>1, <2>7, <3>1 DEF NonatomicRaces
    <3>4. \A u \in Threads : pc'[u] = "store" /\ iter'[u] >= 1 => reg'[u] >= 1
      BY <1>1, <2>1, <3>1 DEF NonatomicRaces
    <3>5. count' >= 2 \/ Rounds = 1 \/ \E u \in Threads : iter'[u] < Rounds
      <4>1. CASE iter[t] >= 1
        BY <2>1, <3>1, <4>1 DEF NonatomicRaces
      <4>2. CASE iter[t] = 0
        BY <2>1, <3>1, <4>2
      <4>3. QED
        BY <3>1, <4>1, <4>2
    <3>6. NumThreads = 1 => count' = iter'[1] /\ pc'[1] = "next"
      BY <2>1, <3>1 DEF NonatomicRaces, Shape, Threads
    <3>7. QED
      BY <3>2, <3>3, <3>4, <3>5, <3>6 DEF NonatomicRaces
  <2>9. QED
    BY <2>1, <2>4, <2>5, <2>6, <2>8 DEF LoadedCurrent, AtomicSum, ApproxSum,
       LockedCountersExact, NonatomicLoss
<1>4. QED
  BY <1>1, <1>2, <1>3 DEF Step, LockAtomic, UnlockAtomic, Increment, LockGlobal, AddGlobal, Reset

(* The counter with one mutex. *)
LEMMA AtomicCounterStep ==
    ASSUME CountersInv, kind = "atomic", NEW t \in Threads, Step(t)
    PROVE  CountersInv'
<1> USE CountersAssumption DEF CountersInv
<1>1. pc \in [Threads -> {"next", "load", "store", "unlock"}]
  BY LabelsOf DEF Shape
<1>2. \A u \in Threads : mutex = u <=> pc[u] \in {"load", "store", "unlock"}
  BY DEF Exclusive, LockTaken
<1>3. iter \in [Threads -> 0 .. Rounds] /\ reg \in [Threads -> Nat] /\ Free \notin Threads
  BY SMTT(30) DEF Shape, Free, Threads
<1>4. CASE LockAtomic(t)
  <2>1. /\ pc' = [pc EXCEPT ![t] = "load"] /\ pc[t] = "next" /\ iter[t] < Rounds
        /\ mutex = Free /\ mutex' = t
        /\ UNCHANGED <<kind, count, global_counter, cpu_counters, reg, iter, printed>>
    BY <1>4 DEF LockAtomic, GoTo, AtNext
  <2>2. pc' \in [Threads -> {"next", "load", "store", "unlock"}]
    BY <1>1, <2>1
  <2>3. Shape'
    BY <2>1, <2>2, LabelsOf DEF Shape
  <2>4. Unfinished'
    BY <1>1, <2>1 DEF Unfinished
  <2>5. Exclusive'
    BY <1>1, <1>2, <1>3, <2>1 DEF Exclusive, LockTaken
  <2>6. Made' = Made
    BY <1>1, <2>1, MadeSame DEF Counted
  <2>7. LoadedCurrent'
    BY <1>1, <2>1 DEF LoadedCurrent
  <2>8. QED
    BY <2>1, <2>3, <2>4, <2>5, <2>6, <2>7 DEF AtomicSum, ApproxSum, NonatomicRaces,
       LockedCountersExact, NonatomicLoss
<1>5. CASE Load(t)
  <2>1. /\ pc' = [pc EXCEPT ![t] = "store"] /\ pc[t] = "load"
        /\ reg' = [reg EXCEPT ![t] = count]
        /\ UNCHANGED <<kind, count, global_counter, cpu_counters, mutex, iter, printed>>
    BY <1>5 DEF Load, GoTo
  <2>2. pc' \in [Threads -> {"next", "load", "store", "unlock"}]
    BY <1>1, <2>1
  <2>3. Shape'
    BY <2>1, <2>2, LabelsOf DEF Shape
  <2>4. Unfinished'
    BY <1>1, <2>1 DEF Unfinished
  <2>5. Exclusive'
    BY <1>1, <1>2, <2>1 DEF Exclusive, LockTaken
  <2>6. Made' = Made
    BY <1>1, <2>1, MadeSame DEF Counted
  <2>7. LoadedCurrent'
    BY <1>1, <1>3, <2>1 DEF LoadedCurrent
  <2>8. QED
    BY <2>1, <2>3, <2>4, <2>5, <2>6, <2>7 DEF AtomicSum, ApproxSum, NonatomicRaces,
       LockedCountersExact, NonatomicLoss
<1>6. CASE Store(t)
  <2>1. /\ pc' = [pc EXCEPT ![t] = "unlock"] /\ pc[t] = "store" /\ count' = reg[t] + 1
        /\ UNCHANGED <<kind, global_counter, cpu_counters, mutex, iter, reg, printed>>
    BY <1>6 DEF Store, GoTo
  <2>2. pc' \in [Threads -> {"next", "load", "store", "unlock"}]
    BY <1>1, <2>1
  <2>3. Shape'
    BY <1>3, <2>1, <2>2, LabelsOf DEF Shape
  <2>4. Unfinished'
    BY <1>1, <2>1 DEF Unfinished
  <2>5. Exclusive'
    BY <1>1, <1>2, <2>1 DEF Exclusive, LockTaken
  <2>6. Total(Made') = Total(Made) + 1
    BY <1>1, <2>1, MadeOneMore DEF Counted
  <2>7. LoadedCurrent'
    BY <1>1, <1>2, <2>1 DEF LoadedCurrent
  <2>8. AtomicSum'
    BY <2>1, <2>6 DEF AtomicSum, LoadedCurrent
  <2>9. QED
    BY <2>1, <2>3, <2>4, <2>5, <2>7, <2>8 DEF ApproxSum, NonatomicRaces,
       LockedCountersExact, NonatomicLoss
<1>7. CASE UnlockAtomic(t)
  <2>1. /\ pc' = [pc EXCEPT ![t] = "next"] /\ pc[t] = "unlock" /\ mutex' = Free
        /\ iter' = [iter EXCEPT ![t] = @ + 1]
        /\ UNCHANGED <<kind, count, global_counter, cpu_counters, reg, printed>>
    BY <1>7 DEF UnlockAtomic, EndRound, GoTo
  <2>2. pc' \in [Threads -> {"next", "load", "store", "unlock"}]
    BY <1>1, <2>1
  <2>3. iter[t] < Rounds
    BY <2>1 DEF Unfinished
  <2>4. Shape'
    BY <2>1, <2>2, <2>3, LabelsOf DEF Shape
  <2>5. Unfinished'
    BY <1>1, <1>3, <2>1 DEF Unfinished
  <2>6. Exclusive'
    BY <1>1, <1>2, <1>3, <2>1 DEF Exclusive, LockTaken
  <2>7. Made' = Made
    BY <1>1, <2>1, MadeSame DEF Counted
  <2>8. LoadedCurrent'
    BY <1>1, <2>1 DEF LoadedCurrent
  <2>9. QED
    BY <2>1, <2>4, <2>5, <2>6, <2>7, <2>8 DEF AtomicSum, ApproxSum, NonatomicRaces,
       LockedCountersExact, NonatomicLoss
<1>8. QED
  BY <1>1, <1>4, <1>5, <1>6, <1>7 DEF Step, Increment, LockGlobal, AddGlobal, Reset

(* The approximate counter. *)
LEMMA ApproxStep ==
    ASSUME CountersInv, kind = "approx", NEW t \in Threads, Step(t)
    PROVE  CountersInv'
<1> USE CountersAssumption DEF CountersInv
<1>1. pc \in [Threads -> {"next", "sync", "add", "reset"}]
  BY LabelsOf DEF Shape
<1>2. \A u \in Threads : mutex = u <=> pc[u] = "add"
  BY DEF Exclusive, LockTaken
<1>3. /\ iter \in [Threads -> 0 .. Rounds] /\ reg \in [Threads -> Nat]
      /\ cpu_counters \in [Threads -> 0 .. SyncThreshold] /\ Free \notin Threads
  BY DEF Shape, Free, Threads
<1>4. /\ Unsynced \in [Threads -> 0 .. SyncThreshold] /\ Total(Unsynced) \in Nat
      /\ Total(Made) \in Nat /\ global_counter \in Nat
  BY UnsyncedTyped, MadeTyped DEF Shape
<1>5. CASE Increment(t)
  <2>1. /\ pc[t] = "next" /\ iter[t] < Rounds
        /\ cpu_counters' = [cpu_counters EXCEPT ![t] = @ + 1]
        /\ \/ /\ cpu_counters[t] + 1 >= SyncThreshold
              /\ pc' = [pc EXCEPT ![t] = "sync"] /\ iter' = iter
           \/ /\ cpu_counters[t] + 1 < SyncThreshold
              /\ pc' = [pc EXCEPT ![t] = "next"] /\ iter' = [iter EXCEPT ![t] = @ + 1]
        /\ UNCHANGED <<kind, count, global_counter, mutex, reg, printed>>
    BY <1>3, <1>5 DEF Increment, AtNext, MustSync, EndRound, GoTo
  <2>2. cpu_counters[t] < SyncThreshold
    BY <2>1 DEF ApproxSum
  <2>3. pc' \in [Threads -> {"next", "sync", "add", "reset"}]
    BY <1>1, <2>1
  <2>4. cpu_counters' \in [Threads -> 0 .. SyncThreshold] /\ iter' \in [Threads -> 0 .. Rounds]
    BY <1>3, <2>1, <2>2
  <2>5. Shape'
    BY <2>1, <2>3, <2>4, LabelsOf DEF Shape
  <2>6. Unfinished'
    BY <1>1, <1>3, <2>1 DEF Unfinished
  <2>7. Exclusive'
    BY <1>1, <1>2, <2>1 DEF Exclusive, LockTaken
  <2>8. Total(Made') = Total(Made) + 1
    BY <1>1, <2>1, MadeOneMore DEF Counted
  <2>9. Total(Unsynced') = Total(Unsynced) + 1
    <3>1. Unsynced' \in [Threads -> Nat]
      BY <2>3, <2>4 DEF Unsynced
    <3>2. Unsynced'[t] = Unsynced[t] + 1 /\ \A u \in Threads : u # t => Unsynced'[u] = Unsynced[u]
      BY <1>1, <1>3, <2>1 DEF Unsynced
    <3>3. QED
      BY <1>4, <3>1, <3>2, TotalAddOne
  <2>10. \A u \in Threads : pc'[u] = "next" => cpu_counters'[u] < SyncThreshold
    BY <1>1, <1>3, <2>1 DEF ApproxSum
  <2>11. ApproxSum'
    BY <1>4, <2>1, <2>8, <2>9, <2>10 DEF ApproxSum
  <2>12. LoadedCurrent'
    BY <1>1, <2>1 DEF LoadedCurrent
  <2>13. QED
    BY <2>1, <2>5, <2>6, <2>7, <2>11, <2>12 DEF AtomicSum, NonatomicRaces,
       LockedCountersExact, NonatomicLoss
<1>6. CASE LockGlobal(t)
  <2>1. /\ pc' = [pc EXCEPT ![t] = "add"] /\ pc[t] = "sync" /\ mutex = Free /\ mutex' = t
        /\ reg' = [reg EXCEPT ![t] = global_counter]
        /\ UNCHANGED <<kind, count, global_counter, cpu_counters, iter, printed>>
    BY <1>6 DEF LockGlobal, GoTo
  <2>2. pc' \in [Threads -> {"next", "sync", "add", "reset"}]
    BY <1>1, <2>1
  <2>3. Shape'
    BY <1>3, <1>4, <2>1, <2>2, LabelsOf DEF Shape
  <2>4. Unfinished'
    BY <1>1, <2>1 DEF Unfinished
  <2>5. Exclusive'
    BY <1>1, <1>2, <1>3, <2>1 DEF Exclusive, LockTaken
  <2>6. Made' = Made
    BY <1>1, <2>1, MadeSame DEF Counted
  <2>7. Unsynced' = Unsynced
    BY <1>1, <2>1 DEF Unsynced
  <2>8. LoadedCurrent'
    BY <1>1, <1>2, <1>3, <2>1 DEF LoadedCurrent
  <2>9. ApproxSum'
    BY <1>1, <2>1, <2>6, <2>7 DEF ApproxSum
  <2>10. QED
    BY <2>1, <2>3, <2>4, <2>5, <2>8, <2>9 DEF AtomicSum, NonatomicRaces,
       LockedCountersExact, NonatomicLoss
<1>7. CASE AddGlobal(t)
  <2>1. /\ pc' = [pc EXCEPT ![t] = "reset"] /\ pc[t] = "add" /\ mutex' = Free
        /\ global_counter' = reg[t] + cpu_counters[t]
        /\ UNCHANGED <<kind, count, cpu_counters, reg, iter, printed>>
    BY <1>7 DEF AddGlobal, GoTo
  <2>2. pc' \in [Threads -> {"next", "sync", "add", "reset"}]
    BY <1>1, <2>1
  <2>3. Shape'
    BY <1>3, <2>1, <2>2, LabelsOf DEF Shape
  <2>4. Unfinished'
    BY <1>1, <2>1 DEF Unfinished
  <2>5. Exclusive'
    BY <1>1, <1>2, <1>3, <2>1 DEF Exclusive, LockTaken
  <2>6. Made' = Made
    BY <1>1, <2>1, MadeSame DEF Counted
  <2>7. Total(Unsynced) = Total(Unsynced') + cpu_counters[t] /\ Total(Unsynced') \in Nat
    <3>1. Unsynced' \in [Threads -> 0 .. SyncThreshold]
      BY <1>3, <2>1, <2>2 DEF Unsynced
    <3>2. Unsynced'[t] = 0 /\ Unsynced[t] = cpu_counters[t]
      BY <1>1, <2>1 DEF Unsynced
    <3>3. \A u \in Threads : u # t => Unsynced'[u] = Unsynced[u]
      BY <1>1, <2>1 DEF Unsynced
    <3>4. QED
      BY <1>4, <3>1, <3>2, <3>3, TotalDrop, TotalBounded
  <2>8. LoadedCurrent'
    BY <1>1, <1>2, <2>1 DEF LoadedCurrent
  <2>9. global_counter' = global_counter + cpu_counters[t]
    BY <2>1 DEF LoadedCurrent
  <2>10. ApproxSum'
    <3>1. cpu_counters[t] \in Nat /\ global_counter + Total(Unsynced) = Total(Made)
      BY <1>3 DEF ApproxSum
    <3>2. global_counter' + Total(Unsynced') = Total(Made')
      BY <1>4, <2>6, <2>7, <2>9, <3>1
    <3>3. \A u \in Threads : pc'[u] = "next" => cpu_counters'[u] < SyncThreshold
      BY <1>1, <2>1 DEF ApproxSum
    <3>4. QED
      BY <3>2, <3>3 DEF ApproxSum
  <2>11. QED
    BY <2>1, <2>3, <2>4, <2>5, <2>8, <2>10 DEF AtomicSum, NonatomicRaces,
       LockedCountersExact, NonatomicLoss
<1>8. CASE Reset(t)
  <2>1. /\ pc' = [pc EXCEPT ![t] = "next"] /\ pc[t] = "reset"
        /\ cpu_counters' = [cpu_counters EXCEPT ![t] = 0]
        /\ iter' = [iter EXCEPT ![t] = @ + 1]
        /\ UNCHANGED <<kind, count, global_counter, mutex, reg, printed>>
    BY <1>8 DEF Reset, EndRound, GoTo
  <2>2. pc' \in [Threads -> {"next", "sync", "add", "reset"}]
    BY <1>1, <2>1
  <2>3. iter[t] < Rounds
    BY <2>1 DEF Unfinished
  <2>4. Shape'
    BY <1>3, <2>1, <2>2, <2>3, LabelsOf DEF Shape
  <2>5. Unfinished'
    BY <1>1, <1>3, <2>1 DEF Unfinished
  <2>6. Exclusive'
    BY <1>1, <1>2, <2>1 DEF Exclusive, LockTaken
  <2>7. Made' = Made
    BY <1>1, <2>1, MadeSame DEF Counted
  <2>8. Unsynced' = Unsynced
    BY <1>1, <1>3, <2>1 DEF Unsynced
  <2>9. LoadedCurrent'
    BY <1>1, <2>1 DEF LoadedCurrent
  <2>10. ApproxSum'
    BY <1>1, <1>3, <2>1, <2>7, <2>8 DEF ApproxSum
  <2>11. QED
    BY <2>1, <2>4, <2>5, <2>6, <2>9, <2>10 DEF AtomicSum, NonatomicRaces,
       LockedCountersExact, NonatomicLoss
<1>9. QED
  BY <1>1, <1>5, <1>6, <1>7, <1>8 DEF Step, LockAtomic, Load, Store, UnlockAtomic

(* main joins the threads, prints, and starts the next counter from zero. *)
LEMMA JoinStep ==
    ASSUME CountersInv, Join
    PROVE  CountersInv'
<1> USE CountersAssumption DEF CountersInv
<1>1. /\ kind \in Kinds /\ kind' \in {"atomic", "approx", "exited"}
      /\ kind = "nonatomic" => kind' = "atomic"
      /\ printed' = [printed EXCEPT ![kind] = Get]
      /\ count' = 0 /\ global_counter' = 0 /\ cpu_counters' = Zero /\ reg' = Zero
      /\ iter' = Zero /\ mutex' = mutex /\ pc' = pc
  BY DEF Join, Following, Kinds
<1>2. \A t \in Threads : pc[t] = "next" /\ iter[t] = Rounds
  BY DEF Join
<1>3. mutex = Free
  BY <1>2 DEF Exclusive, LockTaken, Shape
<1>4. \A t \in Threads : Made[t] = Rounds
  BY <1>2 DEF Made, Counted
<1>5. Total(Made) = Expected /\ Expected \in Nat
  BY <1>4, TotalFull DEF Expected
<1>6. kind \in {"atomic", "approx"} => Get = Expected
  <2>1. CASE kind = "approx"
    <3>1. Unsynced = cpu_counters
      BY <1>2 DEF Unsynced, Shape
    <3>2. QED
      BY <1>5, <2>1, <3>1 DEF ApproxSum, Get
  <2>2. CASE kind = "atomic"
    BY <1>5, <2>2 DEF AtomicSum, Get
  <2>3. QED
    BY <2>1, <2>2
<1>7. kind = "nonatomic" =>
        Get \in (IF NumThreads = 1 THEN Expected ELSE IF Rounds = 1 THEN 1 ELSE 2) .. Expected
  <2> SUFFICES ASSUME kind = "nonatomic"
               PROVE  /\ count \in 0 .. Expected
                      /\ NumThreads = 1 => count = Expected
                      /\ count >= 1 /\ (Rounds # 1 => count >= 2)
    BY DEF Get
  <2>1. count \in 0 .. Expected
    BY <1>5 DEF NonatomicRaces, Shape
  <2>2. 1 \in Threads
    BY DEF Threads
  <2>3. count >= 1
    BY <1>2, <2>2 DEF NonatomicRaces
  <2>4. Rounds # 1 => count >= 2
    BY <1>2 DEF NonatomicRaces
  <2>5. NumThreads = 1 => count = Expected
    BY <1>2, <2>2 DEF NonatomicRaces, Expected
  <2>6. QED
    BY <2>1, <2>3, <2>4, <2>5
<1>8. Get \in 0 .. Expected
  BY <1>1, <1>5, <1>6, <1>7 DEF Kinds
<1>9. Shape'
  <2>1. pc' \in [Threads -> {"next"}]
    BY <1>1, <1>2 DEF Shape
  <2>2. pc' \in [Threads -> CounterLabels[kind']]
    BY <1>1, <2>1, LabelsOf
  <2>3. printed' \in [Kinds -> 0 .. Expected \cup {NotYet}]
    BY <1>1, <1>8 DEF Shape
  <2>4. QED
    BY <1>1, <1>3, <2>2, <2>3 DEF Shape, Zero, Kinds
<1>10. Made' = Zero /\ Unsynced' = Zero
  BY <1>1, <1>2 DEF Made, Unsynced, Counted, Zero
<1>11. Unfinished' /\ LoadedCurrent'
  BY <1>1, <1>2 DEF Unfinished, LoadedCurrent
<1>12. Exclusive'
  BY <1>1, <1>2, <1>3 DEF Exclusive, LockTaken, Free, Threads
<1>13. AtomicSum' /\ ApproxSum' /\ NonatomicRaces'
  BY <1>1, <1>10, TotalZero DEF AtomicSum, ApproxSum, NonatomicRaces, Zero
<1>14. LockedCountersExact'
  BY <1>1, <1>6 DEF LockedCountersExact, Shape, Kinds
<1>15. NonatomicLoss'
  BY <1>1, <1>7 DEF NonatomicLoss, Shape, Kinds
<1>16. QED
  BY <1>9, <1>11, <1>12, <1>13, <1>14, <1>15

(* No count exceeds the number of increments. *)
Bounds ==
    /\ count \in 0 .. Expected /\ global_counter \in 0 .. Expected
    /\ reg \in [Threads -> 0 .. Expected]

(* The sums bound the count that is in use. *)
Caps ==
    /\ kind \in {"nonatomic", "atomic"} => count \in 0 .. Expected
    /\ kind = "approx" => global_counter \in 0 .. Expected

LEMMA SumsCap == CountersInv => Caps
<1> SUFFICES ASSUME CountersInv PROVE Caps
  OBVIOUS
<1>1. Total(Made) \in 0 .. Expected /\ Total(Unsynced) \in Nat
  BY MadeTyped, UnsyncedTyped, CountersAssumption DEF CountersInv
<1>2. count \in Nat /\ global_counter \in Nat /\ Expected \in Nat
  BY CountersAssumption DEF CountersInv, Shape, Expected
<1>3. ASSUME kind \in {"nonatomic", "atomic"} PROVE count \in 0 .. Expected
  BY <1>1, <1>2, <1>3 DEF CountersInv, NonatomicRaces, AtomicSum
<1>4. ASSUME kind = "approx" PROVE global_counter \in 0 .. Expected
  BY <1>1, <1>2, <1>4 DEF CountersInv, ApproxSum
<1>5. QED
  BY <1>3, <1>4 DEF Caps

LEMMA BoundsStep ==
    ASSUME CountersInv, Caps', Bounds, [Next]_vars
    PROVE  Bounds'
<1>1. Expected \in Nat
  BY CountersAssumption DEF Expected
<1>2. \/ count' \in {count, 0}
      \/ kind' = kind /\ kind \in {"nonatomic", "atomic"}
  <2>1. ASSUME NEW t \in Threads, Store(t), kind = "approx" \/ kind = "exited"
        PROVE  FALSE
    BY <2>1, LabelsOf DEF Store, CountersInv, Shape
  <2>2. QED
    BY <2>1 DEF Next, Step, LockAtomic, Load, Store, UnlockAtomic, Increment, LockGlobal,
       AddGlobal, Reset, Join, Ended, vars, CountersInv, Shape, Kinds
<1>3. count' \in 0 .. Expected
  BY <1>1, <1>2 DEF Caps, Bounds
<1>4. \/ global_counter' \in {global_counter, 0}
      \/ kind' = "approx"
  <2>1. ASSUME NEW t \in Threads, AddGlobal(t)
        PROVE  kind' = "approx"
    BY <2>1, LabelsOf DEF AddGlobal, CountersInv, Shape, Kinds
  <2>2. QED
    BY <2>1 DEF Next, Step, LockAtomic, Load, Store, UnlockAtomic, Increment, LockGlobal,
       Reset, Join, Ended, vars
<1>5. global_counter' \in 0 .. Expected
  BY <1>1, <1>4 DEF Caps, Bounds
<1>6. reg' \in [Threads -> 0 .. Expected]
  BY <1>1 DEF Bounds, Next, Step, LockAtomic, Load, Store, UnlockAtomic, Increment, LockGlobal,
     AddGlobal, Reset, Join, Ended, vars, Zero
<1>7. QED
  BY <1>3, <1>5, <1>6 DEF Bounds

-----------------------------------------------------------------------------
(* For every number of threads, rounds and every threshold: no interleaving
   loses an increment of the locked counters, the global count lags by no more
   than the threshold for each CPU, and the races of the unlocked counter
   leave at least two increments (one when each thread makes one), all of them
   when there is one thread. *)
THEOREM CountersCorrect == Spec => []CountersExact
<1>1. CountersInv /\ [Next]_vars => CountersInv'
  <2> SUFFICES ASSUME CountersInv, [Next]_vars PROVE CountersInv'
    OBVIOUS
  <2>1. ASSUME NEW t \in Threads, Step(t), kind \in Kinds
        PROVE  CountersInv'
    BY <2>1, NonatomicStep, AtomicCounterStep, ApproxStep DEF Kinds
  <2>2. CASE Join
    BY <2>2, JoinStep
  <2>3. CASE UNCHANGED vars
    BY <2>3 DEF vars, CountersInv, Shape, Unfinished, Exclusive, LockTaken, LoadedCurrent,
       AtomicSum, ApproxSum, NonatomicRaces, LockedCountersExact, NonatomicLoss,
       Made, Unsynced, Counted
  <2>4. QED
    BY <2>1, <2>2, <2>3 DEF Next, Ended
<1>2. CountersInv /\ Bounds => CountersExact
  <2> SUFFICES ASSUME CountersInv, Bounds PROVE TypeOK /\ GlobalLag
    BY DEF CountersInv, CountersExact
  <2>1. Total(Made) \in 0 .. Expected /\ Total(Unsynced) \in 0 .. NumThreads * SyncThreshold
    BY MadeTyped, UnsyncedTyped DEF CountersInv
  <2>2. GlobalLag
    BY <2>1 DEF GlobalLag, CountersInv, ApproxSum, Shape
  <2>3. TypeOK
    <3>1. \A k \in Kinds \cup {"exited"} :
             CounterLabels[k] \subseteq {"next", "load", "store", "unlock", "sync", "add", "reset"}
      BY LabelsOf DEF Kinds
    <3>2. pc \in [Threads -> {"next", "load", "store", "unlock", "sync", "add", "reset"}]
      BY <3>1 DEF CountersInv, Shape
    <3>3. QED
      BY <3>2 DEF CountersInv, Shape, Bounds, TypeOK
  <2>4. QED
    BY <2>2, <2>3
<1>3. Init => Bounds
  BY CountersAssumption DEF Init, Bounds, Expected, Zero
<1>4. CountersInv /\ Caps' /\ Bounds /\ [Next]_vars => Bounds'
  BY BoundsStep
<1>5. QED
  BY <1>1, <1>2, <1>3, <1>4, InitCountersInv, SumsCap, PTL DEF Spec

-----------------------------------------------------------------------------
(***************************************************************************)
(* The vector programs, for every number of threads, rounds and elements:  *)
(* only opposite orders deadlock, and additions are atomic.                *)
(***************************************************************************)

Labels == {"call", "global", "first", "second", "add", "unlock dst", "unlock src",
           "load", "fetch_and_add"}
LockedLabels == {"call", "first", "second", "add", "unlock dst", "unlock src"}

VectorState ==
    [version        : Versions,
     parallel       : BOOLEAN,
     cause_deadlock : BOOLEAN,
     values         : [Vectors -> [1 .. VECTOR_SIZE -> Nat]],
     lock           : [Vectors -> Workers \cup {Unlocked}],
     global         : Workers \cup {Unlocked},
     pc             : [Workers -> Labels],
     i              : [Workers -> 1 .. VECTOR_SIZE],
     reg            : [Workers -> Nat],
     round          : [Workers -> 0 .. loops],
     whole          : [Vectors -> [1 .. VECTOR_SIZE -> Nat]],
     turns          : [Workers -> Nat]]

(* Where a worker can be in each version, and what its indices and counts are
   there. *)
Inside(v, t) ==
    /\ v.pc[t] \in IF v.version = "nolock" THEN {"call", "load", "fetch_and_add"}
                   ELSE LockedLabels \cup
                        IF v.version = "avoid-hold-and-wait" THEN {"global"} ELSE {}
    /\ v.pc[t] # "call" => v.round[t] < loops
    /\ v.pc[t] \in {"add", "load", "fetch_and_add"} \/ v.i[t] = 1
    /\ v.version \in Locked =>
         v.turns[t] = IF v.pc[t] \in {"add", "unlock dst", "unlock src"}
                      THEN v.round[t] + 1 ELSE v.round[t]

(* The vectors a worker has locked. *)
LastHeld(v, t) == IF v.version = "global-order" THEN Dst(v, t) ELSE Src(v, t)
Held(v, t) ==
    CASE v.pc[t] = "second" -> {First(v, t)}
      [] v.pc[t] \in {"add", "unlock dst"} -> {Dst(v, t), Src(v, t)}
      [] v.pc[t] = "unlock src" -> {LastHeld(v, t)}
      [] OTHER -> {}

HoldsGlobal(v, t) ==
    v.version = "avoid-hold-and-wait" /\ v.pc[t] \in {"first", "second"}

Ownership(v) ==
    \A t \in Workers :
        /\ \A x \in Vectors : v.lock[x] = t <=> x \in Held(v, t)
        /\ v.global = t <=> HoldsGlobal(v, t)

(* A worker in the middle of its addition has added the elements before i, the
   atomic addition all of them; no other vector differs. *)
Pending(v, t) ==
    v.pc[t] = "add" =>
        \A k \in 1 .. VECTOR_SIZE :
            v.whole[Dst(v, t)][k] = IF k < v.i[t] THEN v.values[Dst(v, t)][k]
                                    ELSE v.values[Dst(v, t)][k] + v.values[Src(v, t)][k]
Settled(v, x) ==
    (\A t \in Workers : v.pc[t] = "add" => Dst(v, t) # x) => v.whole[x] = v.values[x]
Atomic(v) ==
    v.version \in Locked => /\ \A t \in Workers : Pending(v, t)
                            /\ \A x \in Vectors : Settled(v, x)

VectorsInv ==
    /\ vec \in VectorState
    /\ \A t \in Workers : Inside(vec, t)
    /\ Ownership(vec)
    /\ Atomic(vec)

-----------------------------------------------------------------------------
(* A worker adds one vector to another. *)
LEMMA TwoVectors ==
    ASSUME NEW v \in VectorState, NEW t \in Workers
    PROVE  /\ Dst(v, t) \in Vectors /\ Src(v, t) \in Vectors /\ Dst(v, t) # Src(v, t)
           /\ \/ First(v, t) = Dst(v, t) /\ Second(v, t) = Src(v, t)
              \/ First(v, t) = Src(v, t) /\ Second(v, t) = Dst(v, t)
<1>1. /\ num_threads \in Nat /\ t \in Int /\ 0 <= t /\ t < num_threads
  BY VectorsAssumption DEF Workers
<1> DEFINE a == IF v.parallel THEN 2 * t ELSE 0
           b == IF v.cause_deadlock /\ t % 2 = 1 THEN 1 ELSE 0
           c == IF v.cause_deadlock /\ t % 2 = 1 THEN 0 ELSE 1
<1>2. a \in Int /\ 0 <= a /\ a + 1 < 2 * num_threads
  BY <1>1
<1>3. (b = 0 /\ c = 1) \/ (b = 1 /\ c = 0)
  OBVIOUS
<1>4. Dst(v, t) = a + b /\ Src(v, t) = a + c
  BY DEF Dst, Src
<1> HIDE DEF a, b, c
<1>5. Dst(v, t) \in Vectors /\ Src(v, t) \in Vectors /\ Dst(v, t) # Src(v, t)
  BY <1>1, <1>2, <1>3, <1>4 DEF Vectors
<1>6. Dst(v, t) \in Int /\ Src(v, t) \in Int
  BY <1>2, <1>3, <1>4
<1>7. \/ First(v, t) = Dst(v, t) /\ Second(v, t) = Src(v, t)
      \/ First(v, t) = Src(v, t) /\ Second(v, t) = Dst(v, t)
  BY <1>6 DEF First, Second
<1> QED
  BY <1>5, <1>7

(* No step changes what a worker is to add. *)
SameVectors(v, w) ==
    w.version = v.version /\ w.parallel = v.parallel /\ w.cause_deadlock = v.cause_deadlock

LEMMA VectorsFixed ==
    ASSUME NEW v, NEW w, SameVectors(v, w), NEW t
    PROVE  /\ Dst(w, t) = Dst(v, t) /\ Src(w, t) = Src(v, t)
           /\ First(w, t) = First(v, t) /\ Second(w, t) = Second(v, t)
           /\ LastHeld(w, t) = LastHeld(v, t)
BY DEF SameVectors, Dst, Src, First, Second, LastHeld

(* What two workers hold is disjoint. *)
LEMMA HeldApart ==
    ASSUME NEW v \in VectorState, Ownership(v), NEW t \in Workers, NEW u \in Workers,
           NEW x \in Vectors, x \in Held(v, t), x \in Held(v, u)
    PROVE  t = u
BY DEF Ownership

LEMMA InitVectorsInv == VectorsInit => VectorsInv
<1> SUFFICES ASSUME VectorsInit PROVE VectorsInv
  OBVIOUS
<1>1. PICK version \in Versions, p \in BOOLEAN, d \in BOOLEAN :
        vec = [version        |-> version,
               parallel       |-> p,
               cause_deadlock |-> d,
               values         |-> InitialValues,
               lock           |-> [x \in Vectors |-> Unlocked],
               global         |-> Unlocked,
               pc             |-> [t \in Workers |-> "call"],
               i              |-> [t \in Workers |-> 1],
               reg            |-> [t \in Workers |-> 0],
               round          |-> [t \in Workers |-> 0],
               whole          |-> InitialValues,
               turns          |-> [t \in Workers |-> 0]]
  BY DEF VectorsInit, InitialVectors
<1>2. InitialValues \in [Vectors -> [1 .. VECTOR_SIZE -> Nat]]
  BY VectorsAssumption DEF InitialValues, Vectors
<1>3. 1 \in 1 .. VECTOR_SIZE /\ 0 \in 0 .. loops
  BY VectorsAssumption
<1>4. vec \in VectorState
  BY <1>1, <1>2, <1>3 DEF VectorState, Labels
<1>5. \A t \in Workers : Unlocked # t
  BY VectorsAssumption DEF Unlocked, Workers
<1>6. \A t \in Workers : Inside(vec, t)
  BY <1>1 DEF Inside, LockedLabels
<1>7. Ownership(vec)
  BY <1>1, <1>5 DEF Ownership, Held, HoldsGlobal
<1>8. Atomic(vec)
  BY <1>1 DEF Atomic, Pending, Settled
<1> QED
  BY <1>4, <1>6, <1>7, <1>8 DEF VectorsInv

-----------------------------------------------------------------------------
(* What a step of worker t leaves alone. *)
LEMMA OtherWorkers ==
    ASSUME NEW v \in VectorState, NEW w \in VectorState, SameVectors(v, w), NEW u \in Workers,
           w.pc[u] = v.pc[u]
    PROVE  /\ Held(w, u) = Held(v, u)
           /\ HoldsGlobal(w, u) <=> HoldsGlobal(v, u)
           /\ w.round[u] = v.round[u] /\ w.i[u] = v.i[u] /\ w.turns[u] = v.turns[u] =>
                (Inside(v, u) => Inside(w, u))
<1>1. /\ Dst(w, u) = Dst(v, u) /\ Src(w, u) = Src(v, u)
      /\ First(w, u) = First(v, u) /\ LastHeld(w, u) = LastHeld(v, u)
  BY VectorsFixed
<1>2. Held(w, u) = Held(v, u)
  BY <1>1 DEF Held
<1>3. HoldsGlobal(w, u) <=> HoldsGlobal(v, u)
  BY DEF HoldsGlobal, SameVectors
<1>4. w.round[u] = v.round[u] /\ w.i[u] = v.i[u] /\ w.turns[u] = v.turns[u] =>
        (Inside(v, u) => Inside(w, u))
  BY DEF Inside, SameVectors
<1> QED
  BY <1>2, <1>3, <1>4

(* A step takes and gives back locks of its own worker only. *)
LEMMA OwnershipStep ==
    ASSUME NEW v \in VectorState, NEW w \in VectorState, SameVectors(v, w), NEW t \in Workers,
           \A u \in Workers : u # t => w.pc[u] = v.pc[u],
           Ownership(v),
           \A x \in Vectors : \/ w.lock[x] = v.lock[x]
                              \/ v.lock[x] \in {t, Unlocked} /\ w.lock[x] \in {t, Unlocked},
           \A x \in Vectors : w.lock[x] = t <=> x \in Held(w, t),
           \/ w.global = v.global
           \/ v.global \in {t, Unlocked} /\ w.global \in {t, Unlocked},
           w.global = t <=> HoldsGlobal(w, t)
    PROVE  Ownership(w)
<1>1. \A u \in Workers : Unlocked # u
  BY VectorsAssumption DEF Unlocked, Workers
<1>2. ASSUME NEW u \in Workers, u # t
      PROVE  /\ \A x \in Vectors : w.lock[x] = u <=> x \in Held(w, u)
             /\ w.global = u <=> HoldsGlobal(w, u)
  <2>1. Held(w, u) = Held(v, u) /\ (HoldsGlobal(w, u) <=> HoldsGlobal(v, u))
    BY <1>2, OtherWorkers
  <2>2. ASSUME NEW x \in Vectors PROVE w.lock[x] = u <=> v.lock[x] = u
    BY <1>1, <1>2
  <2>3. w.global = u <=> v.global = u
    BY <1>1, <1>2
  <2> QED
    BY <2>1, <2>2, <2>3 DEF Ownership
<1> QED
  BY <1>2 DEF Ownership

(* A step outside the addition changes no values. *)
LEMMA AtomicStep ==
    ASSUME NEW v \in VectorState, NEW w \in VectorState, SameVectors(v, w), Atomic(v),
           w.values = v.values, w.whole = v.whole, w.i = v.i,
           \A u \in Workers : w.pc[u] = "add" <=> v.pc[u] = "add"
    PROVE  Atomic(w)
<1>1. \A u \in Workers : Dst(w, u) = Dst(v, u) /\ Src(w, u) = Src(v, u)
  BY VectorsFixed
<1>2. ASSUME NEW u \in Workers, Pending(v, u) PROVE Pending(w, u)
  BY <1>1, <1>2 DEF Pending
<1>3. ASSUME NEW x \in Vectors, Settled(v, x) PROVE Settled(w, x)
  BY <1>1, <1>3 DEF Settled
<1> QED
  BY <1>2, <1>3 DEF Atomic, SameVectors

-----------------------------------------------------------------------------
(* The steps of a worker. *)

LEMMA CallKeeps ==
    ASSUME VectorsInv, NEW t \in Workers, call(t) PROVE VectorsInv'
<1> DEFINE l == CASE vec.version = "avoid-hold-and-wait" -> "global"
                  [] vec.version = "nolock" -> "load"
                  [] OTHER -> "first"
<1>1. l \in {"global", "load", "first"} /\ l \in Labels
  BY DEF Labels
<1>2. vec \in VectorState /\ vec.pc[t] = "call" /\ vec.round[t] < loops
  BY DEF VectorsInv, call, At
<1>3. vec' = [vec EXCEPT !.pc[t] = l]
  BY DEF call, Go
<1>4. vec' \in VectorState
  BY <1>1, <1>2, <1>3 DEF VectorState
<1>5. /\ vec'.pc = [vec.pc EXCEPT ![t] = l] /\ SameVectors(vec, vec')
      /\ vec'.values = vec.values /\ vec'.whole = vec.whole /\ vec'.i = vec.i
      /\ vec'.round = vec.round /\ vec'.turns = vec.turns
      /\ vec'.lock = vec.lock /\ vec'.global = vec.global
  BY <1>2, <1>3 DEF VectorState, SameVectors
<1>6. /\ vec'.pc[t] = l /\ \A u \in Workers : u # t => vec'.pc[u] = vec.pc[u]
  BY <1>2, <1>5 DEF VectorState
<1>7. Inside(vec', t)
  <2>1. Inside(vec, t)
    BY DEF VectorsInv
  <2> QED
    BY <1>2, <1>5, <1>6, <2>1 DEF Inside, SameVectors, LockedLabels, Locked
<1>8. Held(vec, t) = {} /\ Held(vec', t) = {}
  BY <1>1, <1>2, <1>6 DEF Held
<1>9. ~HoldsGlobal(vec, t) /\ ~HoldsGlobal(vec', t)
  BY <1>2, <1>5, <1>6 DEF HoldsGlobal, SameVectors
<1>10. Ownership(vec')
  <2>1. Ownership(vec)
    BY DEF VectorsInv
  <2>2. /\ \A x \in Vectors : vec'.lock[x] = t <=> x \in Held(vec', t)
        /\ vec'.global = t <=> HoldsGlobal(vec', t)
    BY <1>5, <1>8, <1>9, <2>1 DEF Ownership
  <2> QED
    BY <1>2, <1>4, <1>5, <1>6, <2>1, <2>2, OwnershipStep
<1>11. Atomic(vec')
  BY <1>1, <1>2, <1>4, <1>5, <1>6, AtomicStep DEF VectorsInv
<1>12. \A u \in Workers : Inside(vec', u)
  BY <1>2, <1>4, <1>5, <1>6, <1>7, OtherWorkers DEF VectorsInv
<1> HIDE DEF l
<1> QED
  BY <1>4, <1>10, <1>11, <1>12 DEF VectorsInv

LEMMA TakeGlobalKeeps ==
    ASSUME VectorsInv, NEW t \in Workers, TakeGlobal(t) PROVE VectorsInv'
<1>1. vec \in VectorState /\ vec.pc[t] = "global" /\ vec.global = Unlocked
  BY DEF VectorsInv, TakeGlobal, At
<1>2. vec' \in VectorState
  BY <1>1 DEF VectorState, TakeGlobal, Go, Labels
<1>3. /\ vec'.pc = [vec.pc EXCEPT ![t] = "first"] /\ vec'.global = t
      /\ SameVectors(vec, vec') /\ vec'.values = vec.values /\ vec'.whole = vec.whole
      /\ vec'.i = vec.i /\ vec'.round = vec.round /\ vec'.turns = vec.turns
      /\ vec'.lock = vec.lock
  BY <1>1 DEF VectorState, SameVectors, TakeGlobal, Go
<1>4. vec'.pc[t] = "first" /\ \A u \in Workers : u # t => vec'.pc[u] = vec.pc[u]
  BY <1>1, <1>3 DEF VectorState
<1>5. Inside(vec, t) /\ Ownership(vec)
  BY DEF VectorsInv
<1>6. vec.version = "avoid-hold-and-wait"
  BY <1>1, <1>5 DEF Inside, LockedLabels
<1>7. Inside(vec', t)
  BY <1>1, <1>3, <1>4, <1>5, <1>6 DEF Inside, SameVectors, LockedLabels
<1>8. Ownership(vec')
  <2>1. Held(vec, t) = {} /\ Held(vec', t) = {}
    BY <1>1, <1>4 DEF Held
  <2>2. HoldsGlobal(vec', t)
    BY <1>3, <1>4, <1>6 DEF HoldsGlobal, SameVectors
  <2>3. \A x \in Vectors : vec'.lock[x] = t <=> x \in Held(vec', t)
    BY <1>3, <1>5, <2>1 DEF Ownership
  <2> QED
    BY <1>1, <1>2, <1>3, <1>4, <1>5, <2>2, <2>3, OwnershipStep
<1>9. Atomic(vec')
  <2>1. \A u \in Workers : vec'.pc[u] = "add" <=> vec.pc[u] = "add"
    BY <1>1, <1>4
  <2> QED
    BY <1>1, <1>2, <1>3, <2>1, AtomicStep DEF VectorsInv
<1>10. \A u \in Workers : Inside(vec', u)
  BY <1>1, <1>2, <1>3, <1>4, <1>7, OtherWorkers DEF VectorsInv
<1> QED
  BY <1>2, <1>8, <1>9, <1>10 DEF VectorsInv

LEMMA LockFirstKeeps ==
    ASSUME VectorsInv, NEW t \in Workers, LockFirst(t) PROVE VectorsInv'
<1> DEFINE f == First(vec, t)
<1>1. vec \in VectorState /\ vec.pc[t] = "first" /\ vec.lock[f] = Unlocked
  BY DEF VectorsInv, LockFirst, At
<1>2. f \in Vectors
  BY <1>1, TwoVectors
<1>3. vec' \in VectorState
  BY <1>1, <1>2 DEF VectorState, LockFirst, Go, Labels
<1>4. /\ vec'.pc = [vec.pc EXCEPT ![t] = "second"] /\ vec'.lock = [vec.lock EXCEPT ![f] = t]
      /\ SameVectors(vec, vec') /\ vec'.values = vec.values /\ vec'.whole = vec.whole
      /\ vec'.i = vec.i /\ vec'.round = vec.round /\ vec'.turns = vec.turns
      /\ vec'.global = vec.global
  BY <1>1 DEF VectorState, SameVectors, LockFirst, Go
<1>5. vec'.pc[t] = "second" /\ \A u \in Workers : u # t => vec'.pc[u] = vec.pc[u]
  BY <1>1, <1>4 DEF VectorState
<1>6. Inside(vec, t) /\ Ownership(vec)
  BY DEF VectorsInv
<1>7. Inside(vec', t)
  BY <1>1, <1>4, <1>5, <1>6 DEF Inside, SameVectors, LockedLabels
<1>8. Ownership(vec')
  <2>1. Held(vec, t) = {}
    BY <1>1 DEF Held
  <2>2. Held(vec', t) = {f}
    BY <1>4, <1>5, VectorsFixed DEF Held
  <2>3. HoldsGlobal(vec', t) <=> HoldsGlobal(vec, t)
    BY <1>1, <1>4, <1>5 DEF HoldsGlobal, SameVectors
  <2>4. \A x \in Vectors : vec'.lock[x] = IF x = f THEN t ELSE vec.lock[x]
    BY <1>1, <1>4 DEF VectorState
  <2>5. \A x \in Vectors : vec'.lock[x] = t <=> x \in Held(vec', t)
    BY <1>6, <2>1, <2>2, <2>4 DEF Ownership
  <2>6. vec'.global = t <=> HoldsGlobal(vec', t)
    BY <1>4, <1>6, <2>3 DEF Ownership
  <2>7. \A x \in Vectors : \/ vec'.lock[x] = vec.lock[x]
                           \/ vec.lock[x] \in {t, Unlocked} /\ vec'.lock[x] \in {t, Unlocked}
    BY <1>1, <2>4
  <2> QED
    BY <1>1, <1>3, <1>4, <1>5, <1>6, <2>5, <2>6, <2>7, OwnershipStep
<1>9. Atomic(vec')
  BY <1>1, <1>3, <1>4, <1>5, AtomicStep DEF VectorsInv
<1>10. \A u \in Workers : Inside(vec', u)
  BY <1>1, <1>3, <1>4, <1>5, <1>7, OtherWorkers DEF VectorsInv
<1> QED
  BY <1>3, <1>8, <1>9, <1>10 DEF VectorsInv

LEMMA RetryKeeps ==
    ASSUME VectorsInv, NEW t \in Workers, Retry(t) PROVE VectorsInv'
<1> DEFINE f == First(vec, t)
<1>1. vec \in VectorState /\ vec.pc[t] = "second" /\ vec.version = "try-wait"
  BY DEF VectorsInv, Retry, At
<1>2. f \in Vectors
  BY <1>1, TwoVectors
<1>3. vec' \in VectorState
  BY <1>1, <1>2 DEF VectorState, Retry, Go, Labels
<1>4. /\ vec'.pc = [vec.pc EXCEPT ![t] = "first"]
      /\ vec'.lock = [vec.lock EXCEPT ![f] = Unlocked]
      /\ SameVectors(vec, vec') /\ vec'.values = vec.values /\ vec'.whole = vec.whole
      /\ vec'.i = vec.i /\ vec'.round = vec.round /\ vec'.turns = vec.turns
      /\ vec'.global = vec.global
  BY <1>1 DEF VectorState, SameVectors, Retry, Go
<1>5. vec'.pc[t] = "first" /\ \A u \in Workers : u # t => vec'.pc[u] = vec.pc[u]
  BY <1>1, <1>4 DEF VectorState
<1>6. Inside(vec, t) /\ Ownership(vec) /\ Unlocked # t
  BY VectorsAssumption DEF VectorsInv, Unlocked, Workers
<1>7. Inside(vec', t)
  BY <1>1, <1>4, <1>5, <1>6 DEF Inside, SameVectors, LockedLabels
<1>8. Ownership(vec')
  <2>1. Held(vec, t) = {f}
    BY <1>1 DEF Held
  <2>2. Held(vec', t) = {}
    BY <1>5 DEF Held
  <2>3. ~HoldsGlobal(vec', t) /\ ~HoldsGlobal(vec, t)
    BY <1>1, <1>4 DEF HoldsGlobal, SameVectors
  <2>4. \A x \in Vectors : vec'.lock[x] = IF x = f THEN Unlocked ELSE vec.lock[x]
    BY <1>1, <1>4 DEF VectorState
  <2>5. \A x \in Vectors : vec'.lock[x] = t <=> x \in Held(vec', t)
    BY <1>6, <2>1, <2>2, <2>4 DEF Ownership
  <2>6. vec'.global = t <=> HoldsGlobal(vec', t)
    BY <1>4, <1>6, <2>3 DEF Ownership
  <2>7. \A x \in Vectors : \/ vec'.lock[x] = vec.lock[x]
                           \/ vec.lock[x] \in {t, Unlocked} /\ vec'.lock[x] \in {t, Unlocked}
    BY <1>2, <1>6, <2>1, <2>4 DEF Ownership
  <2> QED
    BY <1>1, <1>3, <1>4, <1>5, <1>6, <2>5, <2>6, <2>7, OwnershipStep
<1>9. Atomic(vec')
  BY <1>1, <1>3, <1>4, <1>5, AtomicStep DEF VectorsInv
<1>10. \A u \in Workers : Inside(vec', u)
  BY <1>1, <1>3, <1>4, <1>5, <1>7, OtherWorkers DEF VectorsInv
<1> QED
  BY <1>3, <1>8, <1>9, <1>10 DEF VectorsInv

LEMMA UnlockFirstKeeps ==
    ASSUME VectorsInv, NEW t \in Workers, UnlockFirst(t) PROVE VectorsInv'
<1> DEFINE f == IF vec.version = "global-order" THEN Src(vec, t) ELSE Dst(vec, t)
<1>1. vec \in VectorState /\ vec.pc[t] = "unlock dst"
  BY DEF VectorsInv, UnlockFirst, At
<1>2. /\ f \in Vectors /\ LastHeld(vec, t) \in Vectors /\ f # LastHeld(vec, t)
      /\ {Dst(vec, t), Src(vec, t)} = {f, LastHeld(vec, t)}
  BY <1>1, TwoVectors DEF LastHeld
<1>3. vec' \in VectorState
  BY <1>1, <1>2 DEF VectorState, UnlockFirst, Go, Labels
<1>4. /\ vec'.pc = [vec.pc EXCEPT ![t] = "unlock src"]
      /\ vec'.lock = [vec.lock EXCEPT ![f] = Unlocked]
      /\ SameVectors(vec, vec') /\ vec'.values = vec.values /\ vec'.whole = vec.whole
      /\ vec'.i = vec.i /\ vec'.round = vec.round /\ vec'.turns = vec.turns
      /\ vec'.global = vec.global
  BY <1>1 DEF VectorState, SameVectors, UnlockFirst, Go
<1>5. vec'.pc[t] = "unlock src" /\ \A u \in Workers : u # t => vec'.pc[u] = vec.pc[u]
  BY <1>1, <1>4 DEF VectorState
<1>6. Inside(vec, t) /\ Ownership(vec) /\ Unlocked # t
  BY VectorsAssumption DEF VectorsInv, Unlocked, Workers
<1>7. Inside(vec', t)
  BY <1>1, <1>4, <1>5, <1>6 DEF Inside, SameVectors, LockedLabels
<1> HIDE DEF f
<1>8. Ownership(vec')
  <2>1. Held(vec, t) = {f, LastHeld(vec, t)}
    BY <1>1, <1>2 DEF Held
  <2>2. Held(vec', t) = {LastHeld(vec, t)}
    BY <1>4, <1>5, VectorsFixed DEF Held
  <2>3. ~HoldsGlobal(vec', t) /\ ~HoldsGlobal(vec, t)
    BY <1>1, <1>5 DEF HoldsGlobal
  <2>4. \A x \in Vectors : vec'.lock[x] = IF x = f THEN Unlocked ELSE vec.lock[x]
    BY <1>1, <1>4 DEF VectorState
  <2>5. \A x \in Vectors : vec'.lock[x] = t <=> x \in Held(vec', t)
    BY <1>2, <1>6, <2>1, <2>2, <2>4 DEF Ownership
  <2>6. vec'.global = t <=> HoldsGlobal(vec', t)
    BY <1>4, <1>6, <2>3 DEF Ownership
  <2>7. \A x \in Vectors : \/ vec'.lock[x] = vec.lock[x]
                           \/ vec.lock[x] \in {t, Unlocked} /\ vec'.lock[x] \in {t, Unlocked}
    BY <1>2, <1>6, <2>1, <2>4 DEF Ownership
  <2> QED
    BY <1>1, <1>3, <1>4, <1>5, <1>6, <2>5, <2>6, <2>7, OwnershipStep
<1>9. Atomic(vec')
  BY <1>1, <1>3, <1>4, <1>5, AtomicStep DEF VectorsInv
<1>10. \A u \in Workers : Inside(vec', u)
  BY <1>1, <1>3, <1>4, <1>5, <1>7, OtherWorkers DEF VectorsInv
<1> QED
  BY <1>3, <1>8, <1>9, <1>10 DEF VectorsInv

LEMMA UnlockSecondKeeps ==
    ASSUME VectorsInv, NEW t \in Workers, UnlockSecond(t) PROVE VectorsInv'
<1> DEFINE f == LastHeld(vec, t)
<1>1. vec \in VectorState /\ vec.pc[t] = "unlock src"
  BY DEF VectorsInv, UnlockSecond, At
<1>2. Inside(vec, t) /\ Ownership(vec) /\ Unlocked # t
  BY VectorsAssumption DEF VectorsInv, Unlocked, Workers
<1>3. f \in Vectors /\ vec.round[t] + 1 \in 0 .. loops
  <2>1. f \in Vectors
    BY <1>1, TwoVectors DEF LastHeld
  <2>2. vec.round[t] \in 0 .. loops /\ vec.round[t] < loops
    BY <1>1, <1>2 DEF VectorState, Inside
  <2> QED
    BY <2>1, <2>2, VectorsAssumption
<1>4. vec' = [vec EXCEPT !.pc[t] = "call", !.lock[f] = Unlocked, !.round[t] = @ + 1]
  BY DEF UnlockSecond, Go, LastHeld
<1> HIDE DEF f
<1>5. vec' \in VectorState
  BY <1>1, <1>3, <1>4 DEF VectorState, Labels
<1>6. /\ vec'.pc = [vec.pc EXCEPT ![t] = "call"]
      /\ vec'.lock = [vec.lock EXCEPT ![f] = Unlocked]
      /\ vec'.round = [vec.round EXCEPT ![t] = vec.round[t] + 1]
      /\ SameVectors(vec, vec') /\ vec'.values = vec.values /\ vec'.whole = vec.whole
      /\ vec'.i = vec.i /\ vec'.turns = vec.turns
      /\ vec'.global = vec.global
  BY <1>1, <1>4 DEF VectorState, SameVectors
<1>7. /\ vec'.pc[t] = "call" /\ \A u \in Workers : u # t => vec'.pc[u] = vec.pc[u]
      /\ vec'.round[t] = vec.round[t] + 1
      /\ \A u \in Workers : u # t => vec'.round[u] = vec.round[u]
  BY <1>1, <1>6 DEF VectorState
<1>8. Inside(vec', t)
  BY <1>1, <1>2, <1>6, <1>7 DEF Inside, SameVectors, LockedLabels
<1>9. Ownership(vec')
  <2>1. Held(vec, t) = {f}
    BY <1>1 DEF Held, f
  <2>2. Held(vec', t) = {}
    BY <1>7 DEF Held
  <2>3. ~HoldsGlobal(vec', t) /\ ~HoldsGlobal(vec, t)
    BY <1>1, <1>7 DEF HoldsGlobal
  <2>4. \A x \in Vectors : vec'.lock[x] = IF x = f THEN Unlocked ELSE vec.lock[x]
    BY <1>1, <1>6 DEF VectorState
  <2>5. \A x \in Vectors : vec'.lock[x] = t <=> x \in Held(vec', t)
    BY <1>2, <1>3, <2>1, <2>2, <2>4 DEF Ownership
  <2>6. vec'.global = t <=> HoldsGlobal(vec', t)
    BY <1>2, <1>6, <2>3 DEF Ownership
  <2>7. \A x \in Vectors : \/ vec'.lock[x] = vec.lock[x]
                           \/ vec.lock[x] \in {t, Unlocked} /\ vec'.lock[x] \in {t, Unlocked}
    BY <1>2, <1>3, <2>1, <2>4 DEF Ownership
  <2> QED
    BY <1>1, <1>2, <1>5, <1>6, <1>7, <2>5, <2>6, <2>7, OwnershipStep
<1>10. Atomic(vec')
  BY <1>1, <1>5, <1>6, <1>7, AtomicStep DEF VectorsInv
<1>11. \A u \in Workers : Inside(vec', u)
  BY <1>1, <1>5, <1>6, <1>7, <1>8, OtherWorkers DEF VectorsInv
<1> QED
  BY <1>5, <1>9, <1>10, <1>11 DEF VectorsInv

LEMMA LoadSrcKeeps ==
    ASSUME VectorsInv, NEW t \in Workers, LoadSrc(t) PROVE VectorsInv'
<1>1. vec \in VectorState /\ vec.pc[t] = "load" /\ Inside(vec, t) /\ Ownership(vec)
  BY DEF VectorsInv, LoadSrc, At
<1>2. Src(vec, t) \in Vectors
  BY <1>1, TwoVectors
<1>3. vec.values[Src(vec, t)][vec.i[t]] \in Nat
  BY <1>1, <1>2 DEF VectorState
<1>4. vec' \in VectorState
  BY <1>1, <1>3 DEF VectorState, LoadSrc, Go, Labels
<1>5. /\ vec'.pc = [vec.pc EXCEPT ![t] = "fetch_and_add"]
      /\ SameVectors(vec, vec') /\ vec'.values = vec.values /\ vec'.whole = vec.whole
      /\ vec'.i = vec.i /\ vec'.round = vec.round /\ vec'.turns = vec.turns
      /\ vec'.lock = vec.lock /\ vec'.global = vec.global
  BY <1>1 DEF VectorState, SameVectors, LoadSrc, Go
<1>6. vec'.pc[t] = "fetch_and_add" /\ \A u \in Workers : u # t => vec'.pc[u] = vec.pc[u]
  BY <1>1, <1>5 DEF VectorState
<1>7. vec.version = "nolock"
  BY <1>1 DEF Inside, LockedLabels
<1>8. Inside(vec', t)
  BY <1>1, <1>5, <1>6, <1>7 DEF Inside, SameVectors, Locked
<1>9. Ownership(vec')
  <2>1. Held(vec, t) = {} /\ Held(vec', t) = {}
    BY <1>1, <1>6 DEF Held
  <2>2. ~HoldsGlobal(vec, t) /\ ~HoldsGlobal(vec', t)
    BY <1>1, <1>6 DEF HoldsGlobal
  <2>3. /\ \A x \in Vectors : vec'.lock[x] = t <=> x \in Held(vec', t)
        /\ vec'.global = t <=> HoldsGlobal(vec', t)
    BY <1>1, <1>5, <2>1, <2>2 DEF Ownership
  <2> QED
    BY <1>1, <1>4, <1>5, <1>6, <2>3, OwnershipStep
<1>10. Atomic(vec')
  BY <1>5, <1>7 DEF Atomic, SameVectors, Locked
<1>11. \A u \in Workers : Inside(vec', u)
  BY <1>1, <1>4, <1>5, <1>6, <1>8, OtherWorkers DEF VectorsInv
<1> QED
  BY <1>4, <1>9, <1>10, <1>11 DEF VectorsInv

(* The index after the one in hand. *)
LEMMA NextIndex ==
    ASSUME NEW i \in 1 .. VECTOR_SIZE
    PROVE  /\ (i % VECTOR_SIZE) + 1 = IF i = VECTOR_SIZE THEN 1 ELSE i + 1
           /\ (i % VECTOR_SIZE) + 1 \in 1 .. VECTOR_SIZE
BY VectorsAssumption

LEMMA FetchAndAddKeeps ==
    ASSUME VectorsInv, NEW t \in Workers, fetch_and_add(t) PROVE VectorsInv'
<1> DEFINE d == Dst(vec, t)
           i == vec.i[t]
           next == (i % VECTOR_SIZE) + 1
           l == IF i = VECTOR_SIZE THEN "call" ELSE "load"
           r == IF i = VECTOR_SIZE THEN vec.round[t] + 1 ELSE vec.round[t]
<1>1. vec \in VectorState /\ vec.pc[t] = "fetch_and_add" /\ Inside(vec, t) /\ Ownership(vec)
  BY DEF VectorsInv, fetch_and_add, At
<1>2. d \in Vectors /\ i \in 1 .. VECTOR_SIZE /\ vec.reg[t] \in Nat
      /\ vec.round[t] \in 0 .. loops /\ vec.round[t] < loops
  BY <1>1, TwoVectors DEF VectorState, Inside
<1>3. vec.values[d][i] + vec.reg[t] \in Nat
  <2>1. vec.values[d][i] \in Nat
    BY <1>1, <1>2 DEF VectorState
  <2> QED
    BY <1>2, <2>1
<1>4. /\ next \in 1 .. VECTOR_SIZE /\ (i = VECTOR_SIZE => next = 1)
      /\ l \in {"call", "load"} /\ r \in 0 .. loops /\ (i # VECTOR_SIZE => r = vec.round[t])
      /\ (l = "call" <=> i = VECTOR_SIZE)
  BY <1>2, NextIndex, VectorsAssumption
<1>5. vec' = [vec EXCEPT !.pc[t] = l, !.values[d][i] = vec.values[d][i] + vec.reg[t],
                         !.i[t] = next, !.round[t] = r]
  BY <1>1 DEF fetch_and_add, Go, VectorState
<1> HIDE DEF d, i, next, l, r
<1>6. vec' \in VectorState
  BY <1>1, <1>2, <1>3, <1>4, <1>5 DEF VectorState, Labels
<1>7. /\ vec'.pc = [vec.pc EXCEPT ![t] = l]
      /\ vec'.i = [vec.i EXCEPT ![t] = next]
      /\ vec'.round = [vec.round EXCEPT ![t] = r]
      /\ SameVectors(vec, vec') /\ vec'.turns = vec.turns
      /\ vec'.lock = vec.lock /\ vec'.global = vec.global
  BY <1>1, <1>5 DEF VectorState, SameVectors
<1>8. /\ vec'.pc[t] = l /\ vec'.i[t] = next /\ vec'.round[t] = r
      /\ \A u \in Workers : u # t => /\ vec'.pc[u] = vec.pc[u] /\ vec'.i[u] = vec.i[u]
                                     /\ vec'.round[u] = vec.round[u]
  BY <1>1, <1>7 DEF VectorState
<1>9. vec.version = "nolock"
  BY <1>1 DEF Inside, LockedLabels
<1>10. Inside(vec', t)
  BY <1>2, <1>4, <1>7, <1>8, <1>9 DEF Inside, SameVectors, Locked
<1>11. Ownership(vec')
  <2>1. Held(vec, t) = {} /\ Held(vec', t) = {}
    BY <1>1, <1>4, <1>8 DEF Held
  <2>2. ~HoldsGlobal(vec, t) /\ ~HoldsGlobal(vec', t)
    BY <1>1, <1>4, <1>8 DEF HoldsGlobal
  <2>3. /\ \A x \in Vectors : vec'.lock[x] = t <=> x \in Held(vec', t)
        /\ vec'.global = t <=> HoldsGlobal(vec', t)
    BY <1>1, <1>7, <2>1, <2>2 DEF Ownership
  <2> QED
    BY <1>1, <1>6, <1>7, <1>8, <2>3, OwnershipStep
<1>12. Atomic(vec')
  BY <1>7, <1>9 DEF Atomic, SameVectors, Locked
<1>13. \A u \in Workers : Inside(vec', u)
  BY <1>1, <1>6, <1>7, <1>8, <1>10, OtherWorkers DEF VectorsInv
<1> QED
  BY <1>6, <1>11, <1>12, <1>13 DEF VectorsInv

LEMMA LockSecondKeeps ==
    ASSUME VectorsInv, NEW t \in Workers, LockSecond(t) PROVE VectorsInv'
<1> DEFINE d == Dst(vec, t)
           s == Src(vec, t)
           y == Second(vec, t)
           sum == [k \in 1 .. VECTOR_SIZE |-> vec.whole[d][k] + vec.whole[s][k]]
           g == IF vec.version = "avoid-hold-and-wait" THEN Unlocked ELSE vec.global
<1>1. /\ vec \in VectorState /\ vec.pc[t] = "second" /\ Inside(vec, t) /\ Ownership(vec)
      /\ vec.lock[y] = Unlocked /\ Atomic(vec) /\ Unlocked # t
  BY VectorsAssumption DEF VectorsInv, LockSecond, At, Unlocked, Workers
<1>2. /\ d \in Vectors /\ s \in Vectors /\ d # s /\ y \in Vectors
      /\ {d, s} = {First(vec, t), y} /\ First(vec, t) # y /\ First(vec, t) \in Vectors
  BY <1>1, TwoVectors
<1>3. vec.version \in Locked
  BY <1>1 DEF Inside, Locked, VectorState
<1>4. sum \in [1 .. VECTOR_SIZE -> Nat]
  <2>1. \A k \in 1 .. VECTOR_SIZE : vec.whole[d][k] \in Nat /\ vec.whole[s][k] \in Nat
    BY <1>1, <1>2 DEF VectorState
  <2> QED
    BY <2>1
<1>5. vec' = [vec EXCEPT !.pc[t] = "add", !.lock[y] = t, !.whole[d] = sum,
                         !.turns[t] = vec.turns[t] + 1, !.global = g]
  BY <1>1 DEF LockSecond, Go, VectorState
<1>6. g \in Workers \cup {Unlocked}
  BY <1>1 DEF VectorState
<1>7. \A k \in 1 .. VECTOR_SIZE : sum[k] = vec.whole[d][k] + vec.whole[s][k]
  OBVIOUS
<1>8. (vec.version = "avoid-hold-and-wait" => g = Unlocked) /\ (vec.version # "avoid-hold-and-wait" => g = vec.global)
  OBVIOUS
<1> HIDE DEF d, s, y, sum, g
<1>9. vec' \in VectorState
  <2>1. vec.turns[t] + 1 \in Nat
    BY <1>1 DEF VectorState
  <2> DEFINE n == vec.turns[t] + 1
  <2>2. vec' = [vec EXCEPT !.pc[t] = "add", !.lock[y] = t, !.whole[d] = sum,
                           !.turns[t] = n, !.global = g]
    BY <1>5
  <2>3. n \in Nat
    BY <2>1
  <2> HIDE DEF n
  <2> QED
    BY <1>1, <1>2, <1>4, <1>6, <2>2, <2>3 DEF VectorState, Labels
<1>10. /\ vec'.pc = [vec.pc EXCEPT ![t] = "add"] /\ vec'.lock = [vec.lock EXCEPT ![y] = t]
       /\ vec'.whole = [vec.whole EXCEPT ![d] = sum] /\ vec'.global = g
       /\ vec'.turns = [vec.turns EXCEPT ![t] = vec.turns[t] + 1]
       /\ SameVectors(vec, vec') /\ vec'.values = vec.values
       /\ vec'.i = vec.i /\ vec'.round = vec.round
  BY <1>1, <1>5 DEF VectorState, SameVectors
<1>11. /\ vec'.pc[t] = "add" /\ vec'.turns[t] = vec.turns[t] + 1
       /\ \A u \in Workers : u # t => vec'.pc[u] = vec.pc[u] /\ vec'.turns[u] = vec.turns[u]
  BY <1>1, <1>10 DEF VectorState
<1>12. Inside(vec', t)
  BY <1>1, <1>10, <1>11 DEF Inside, SameVectors, LockedLabels
<1>13. Ownership(vec')
  <2>1. Held(vec, t) = {First(vec, t)}
    BY <1>1 DEF Held
  <2>2. Held(vec', t) = {d, s}
    <3>1. Dst(vec', t) = d /\ Src(vec', t) = s
      BY <1>10, VectorsFixed DEF d, s
    <3> QED
      BY <1>11, <3>1 DEF Held
  <2>3. ~HoldsGlobal(vec', t)
    BY <1>11 DEF HoldsGlobal
  <2>4. \A x \in Vectors : vec'.lock[x] = IF x = y THEN t ELSE vec.lock[x]
    BY <1>1, <1>10 DEF VectorState
  <2>5. \A x \in Vectors : vec'.lock[x] = t <=> x \in Held(vec', t)
    BY <1>1, <1>2, <2>1, <2>2, <2>4 DEF Ownership
  <2>6. vec'.global = t <=> HoldsGlobal(vec', t)
    BY <1>1, <1>8, <1>10, <2>3 DEF Ownership, HoldsGlobal
  <2>7. \A x \in Vectors : \/ vec'.lock[x] = vec.lock[x]
                           \/ vec.lock[x] \in {t, Unlocked} /\ vec'.lock[x] \in {t, Unlocked}
    BY <1>1, <2>4
  <2>8. \/ vec'.global = vec.global
        \/ vec.global \in {t, Unlocked} /\ vec'.global \in {t, Unlocked}
    BY <1>1, <1>8, <1>10 DEF Ownership, HoldsGlobal
  <2> QED
    BY <1>1, <1>9, <1>10, <1>11, <2>5, <2>6, <2>7, <2>8, OwnershipStep
<1>14. Atomic(vec')
  <2>1. \A u \in Workers : Dst(vec', u) = Dst(vec, u) /\ Src(vec', u) = Src(vec, u)
    BY <1>10, VectorsFixed
  <2>2. ASSUME NEW u \in Workers, vec.pc[u] = "add"
        PROVE  u # t /\ Dst(vec, u) \notin {d, s}
    <3>1. Dst(vec, u) \in Held(vec, u) /\ Dst(vec, u) \in Vectors
      BY <1>1, <2>2, TwoVectors DEF Held
    <3>2. vec.lock[Dst(vec, u)] = u
      BY <1>1, <3>1 DEF Ownership
    <3>3. vec.lock[First(vec, t)] = t
      BY <1>1, <1>2 DEF Ownership, Held
    <3>4. u # t /\ u # Unlocked
      BY <1>1, <2>2, VectorsAssumption DEF Unlocked, Workers
    <3> QED
      BY <1>1, <1>2, <3>2, <3>3, <3>4
  <2>3. vec.whole[d] = vec.values[d] /\ vec.whole[s] = vec.values[s]
    BY <1>1, <1>2, <1>3, <2>2 DEF Atomic, Settled
  <2>4. \A x \in Vectors : vec'.whole[x] = IF x = d THEN sum ELSE vec.whole[x]
    BY <1>1, <1>10 DEF VectorState
  <2>5. ASSUME NEW u \in Workers PROVE Pending(vec', u)
    <3>1. CASE u = t
      <4>1. Dst(vec', u) = d /\ Src(vec', u) = s /\ vec'.i[u] = 1
        BY <1>1, <1>10, <2>1, <3>1 DEF Inside, d, s
      <4>2. \A k \in 1 .. VECTOR_SIZE : vec'.whole[d][k] = vec'.values[d][k] + vec'.values[s][k]
        BY <1>2, <1>7, <1>10, <2>3, <2>4
      <4> QED
        BY <4>1, <4>2 DEF Pending
    <3>2. CASE u # t
      <4>1. Pending(vec, u)
        BY <1>1, <1>3 DEF Atomic
      <4>2. vec.pc[u] = "add" => vec'.whole[Dst(vec, u)] = vec.whole[Dst(vec, u)]
        BY <1>1, <2>2, <2>4, TwoVectors
      <4> QED
        BY <1>10, <1>11, <2>1, <3>2, <4>1, <4>2 DEF Pending
    <3> QED
      BY <3>1, <3>2
  <2>6. ASSUME NEW x \in Vectors PROVE Settled(vec', x)
    <3>1. CASE x = d
      BY <1>11, <2>1, <3>1 DEF Settled, d
    <3>2. CASE x # d
      <4>1. Settled(vec, x)
        BY <1>1, <1>3 DEF Atomic
      <4> QED
        BY <1>1, <1>10, <1>11, <2>1, <2>4, <3>2, <4>1 DEF Settled
    <3> QED
      BY <3>1, <3>2
  <2> QED
    BY <2>5, <2>6 DEF Atomic
<1>15. \A u \in Workers : Inside(vec', u)
  BY <1>1, <1>9, <1>10, <1>11, <1>12, OtherWorkers DEF VectorsInv
<1> QED
  BY <1>9, <1>13, <1>14, <1>15 DEF VectorsInv

LEMMA AddKeeps ==
    ASSUME VectorsInv, NEW t \in Workers, Add(t) PROVE VectorsInv'
<1> DEFINE d == Dst(vec, t)
           s == Src(vec, t)
           i == vec.i[t]
           next == (i % VECTOR_SIZE) + 1
           sum == vec.values[d][i] + vec.values[s][i]
           l == IF i = VECTOR_SIZE THEN "unlock dst" ELSE "add"
<1>1. /\ vec \in VectorState /\ vec.pc[t] = "add" /\ Inside(vec, t) /\ Ownership(vec)
      /\ Atomic(vec)
  BY DEF VectorsInv, Add, At
<1>2. /\ d \in Vectors /\ s \in Vectors /\ d # s /\ i \in 1 .. VECTOR_SIZE
  BY <1>1, TwoVectors DEF VectorState
<1>3. vec.version \in Locked
  BY <1>1 DEF Inside, Locked, VectorState
<1>4. sum \in Nat
  <2>1. vec.values[d][i] \in Nat /\ vec.values[s][i] \in Nat
    BY <1>1, <1>2 DEF VectorState
  <2> QED
    BY <2>1
<1>5. /\ next \in 1 .. VECTOR_SIZE /\ next = IF i = VECTOR_SIZE THEN 1 ELSE i + 1
      /\ l \in {"unlock dst", "add"} /\ (l = "add" <=> i # VECTOR_SIZE)
  BY <1>2, NextIndex
<1>6. vec' = [vec EXCEPT !.pc[t] = l, !.values[d][i] = sum, !.i[t] = next]
  BY <1>1 DEF Add, Go, VectorState
<1>7. sum = vec.values[d][i] + vec.values[s][i]
  OBVIOUS
<1> HIDE DEF d, s, i, next, sum, l
<1>8. vec' \in VectorState
  BY <1>1, <1>2, <1>4, <1>5, <1>6 DEF VectorState, Labels
<1>9. /\ vec'.pc = [vec.pc EXCEPT ![t] = l] /\ vec'.i = [vec.i EXCEPT ![t] = next]
      /\ vec'.values = [vec.values EXCEPT ![d] = [@ EXCEPT ![i] = sum]]
      /\ SameVectors(vec, vec') /\ vec'.whole = vec.whole
      /\ vec'.round = vec.round /\ vec'.turns = vec.turns
      /\ vec'.lock = vec.lock /\ vec'.global = vec.global
  BY <1>1, <1>6 DEF VectorState, SameVectors
<1>10. /\ vec'.pc[t] = l /\ vec'.i[t] = next
       /\ \A u \in Workers : u # t => vec'.pc[u] = vec.pc[u] /\ vec'.i[u] = vec.i[u]
  BY <1>1, <1>9 DEF VectorState
<1>11. Inside(vec', t)
  BY <1>1, <1>5, <1>9, <1>10 DEF Inside, SameVectors, LockedLabels
<1>12. Ownership(vec')
  <2>1. Held(vec, t) = {d, s}
    BY <1>1 DEF Held, d, s
  <2>2. Held(vec', t) = {d, s}
    <3>1. Dst(vec', t) = d /\ Src(vec', t) = s
      BY <1>9, VectorsFixed DEF d, s
    <3> QED
      BY <1>5, <1>10, <3>1 DEF Held
  <2>3. ~HoldsGlobal(vec, t) /\ ~HoldsGlobal(vec', t)
    BY <1>1, <1>5, <1>10 DEF HoldsGlobal
  <2>4. /\ \A x \in Vectors : vec'.lock[x] = t <=> x \in Held(vec', t)
        /\ vec'.global = t <=> HoldsGlobal(vec', t)
    BY <1>1, <1>9, <2>1, <2>2, <2>3 DEF Ownership
  <2> QED
    BY <1>1, <1>8, <1>9, <1>10, <2>4, OwnershipStep
<1>13. Atomic(vec')
  <2>1. \A u \in Workers : Dst(vec', u) = Dst(vec, u) /\ Src(vec', u) = Src(vec, u)
    BY <1>9, VectorsFixed
  <2>2. ASSUME NEW u \in Workers, u # t, vec.pc[u] = "add"
        PROVE  /\ Dst(vec, u) # d /\ Src(vec, u) # d
               /\ Dst(vec, u) \in Vectors /\ Src(vec, u) \in Vectors
    <3>1. /\ Dst(vec, u) \in Held(vec, u) /\ Dst(vec, u) \in Vectors
          /\ Src(vec, u) \in Held(vec, u) /\ Src(vec, u) \in Vectors
      BY <1>1, <2>2, TwoVectors DEF Held
    <3>2. d \in Held(vec, t)
      BY <1>1 DEF Held, d
    <3> QED
      BY <1>1, <1>2, <2>2, <3>1, <3>2, HeldApart
  <2>3. /\ \A x \in Vectors : x # d => vec'.values[x] = vec.values[x]
        /\ \A k \in 1 .. VECTOR_SIZE :
             vec'.values[d][k] = IF k = i THEN sum ELSE vec.values[d][k]
    <3>1. \A x \in Vectors : vec'.values[x] = IF x = d THEN [vec.values[d] EXCEPT ![i] = sum]
                                              ELSE vec.values[x]
      BY <1>1, <1>2, <1>9 DEF VectorState
    <3>2. vec.values[d] \in [1 .. VECTOR_SIZE -> Nat]
      BY <1>1, <1>2 DEF VectorState
    <3>3. vec'.values[d] = [vec.values[d] EXCEPT ![i] = sum]
      BY <1>2, <3>1
    <3> QED
      BY <3>1, <3>2, <3>3
  <2>4. \A k \in 1 .. VECTOR_SIZE :
          vec.whole[d][k] = IF k < i THEN vec.values[d][k]
                            ELSE vec.values[d][k] + vec.values[s][k]
    BY <1>1, <1>3 DEF Atomic, Pending, d, s, i
  <2>5. \A k \in 1 .. VECTOR_SIZE :
          vec'.whole[d][k] = IF k <= i THEN vec'.values[d][k]
                             ELSE vec'.values[d][k] + vec'.values[s][k]
    <3> SUFFICES ASSUME NEW k \in 1 .. VECTOR_SIZE
                 PROVE  vec'.whole[d][k] = IF k <= i THEN vec'.values[d][k]
                                           ELSE vec'.values[d][k] + vec'.values[s][k]
      OBVIOUS
    <3>1. vec'.values[s] = vec.values[s] /\ vec'.whole = vec.whole
      BY <1>2, <1>9, <2>3
    <3>2. CASE k < i
      BY <1>2, <2>3, <2>4, <3>1, <3>2
    <3>3. CASE k = i
      BY <1>2, <1>7, <2>3, <2>4, <3>1, <3>3
    <3>4. CASE k > i
      BY <1>2, <2>3, <2>4, <3>1, <3>4
    <3> QED
      BY <1>2, <3>2, <3>3, <3>4
  <2>6. ASSUME NEW u \in Workers PROVE Pending(vec', u)
    <3>1. CASE u = t
      <4>1. Dst(vec', u) = d /\ Src(vec', u) = s
        BY <2>1, <3>1 DEF d, s
      <4> SUFFICES ASSUME l = "add" PROVE Pending(vec', u)
        BY <1>10, <3>1 DEF Pending
      <4>2. vec'.i[u] = i + 1
        BY <1>5, <1>10, <3>1
      <4>3. \A k \in 1 .. VECTOR_SIZE : k < i + 1 <=> k <= i
        BY <1>2
      <4> QED
        BY <2>5, <4>1, <4>2, <4>3 DEF Pending
    <3>2. CASE u # t
      <4>1. Pending(vec, u)
        BY <1>1, <1>3 DEF Atomic
      <4>2. vec.pc[u] = "add" => /\ vec'.values[Dst(vec, u)] = vec.values[Dst(vec, u)]
                                 /\ vec'.values[Src(vec, u)] = vec.values[Src(vec, u)]
        BY <2>2, <2>3, <3>2
      <4> QED
        BY <1>9, <1>10, <2>1, <3>2, <4>1, <4>2 DEF Pending
    <3> QED
      BY <3>1, <3>2
  <2>7. ASSUME NEW x \in Vectors PROVE Settled(vec', x)
    <3>1. CASE x = d
      <4> SUFFICES ASSUME l # "add" PROVE Settled(vec', x)
        BY <1>10, <2>1, <3>1 DEF Settled, d
      <4>1. i = VECTOR_SIZE
        BY <1>5
      <4>2. \A k \in 1 .. VECTOR_SIZE : vec'.whole[d][k] = vec'.values[d][k]
        BY <2>5, <4>1
      <4>3. /\ vec'.whole[d] \in [1 .. VECTOR_SIZE -> Nat]
            /\ vec'.values[d] \in [1 .. VECTOR_SIZE -> Nat]
        BY <1>2, <1>8 DEF VectorState
      <4>4. /\ vec'.whole[d] = [k \in 1 .. VECTOR_SIZE |-> vec'.whole[d][k]]
            /\ vec'.values[d] = [k \in 1 .. VECTOR_SIZE |-> vec'.values[d][k]]
        BY <4>3
      <4>5. [k \in 1 .. VECTOR_SIZE |-> vec'.whole[d][k]] =
              [k \in 1 .. VECTOR_SIZE |-> vec'.values[d][k]]
        BY <4>2
      <4>6. vec'.whole[d] = vec'.values[d]
        BY <4>4, <4>5
      <4> QED
        BY <3>1, <4>6 DEF Settled
    <3>2. CASE x # d
      <4>1. Settled(vec, x)
        BY <1>1, <1>3 DEF Atomic
      <4>2. vec'.values[x] = vec.values[x]
        BY <2>3, <3>2
      <4>3. Dst(vec, t) # x
        BY <3>2 DEF d
      <4> QED
        BY <1>1, <1>9, <1>10, <2>1, <4>1, <4>2, <4>3 DEF Settled
    <3> QED
      BY <3>1, <3>2
  <2> QED
    BY <2>6, <2>7 DEF Atomic
<1>14. \A u \in Workers : Inside(vec', u)
  BY <1>1, <1>8, <1>9, <1>10, <1>11, OtherWorkers DEF VectorsInv
<1> QED
  BY <1>8, <1>12, <1>13, <1>14 DEF VectorsInv

LEMMA NextVectorsInv == VectorsInv /\ [VectorsNext]_vec => VectorsInv'
<1> SUFFICES ASSUME VectorsInv, [VectorsNext]_vec PROVE VectorsInv'
  OBVIOUS
<1>1. CASE \E t \in Workers : vector_add(t)
  BY <1>1, CallKeeps, TakeGlobalKeeps, LockFirstKeeps, LockSecondKeeps, RetryKeeps, AddKeeps,
     UnlockFirstKeeps, UnlockSecondKeeps, LoadSrcKeeps, FetchAndAddKeeps DEF vector_add
<1>2. CASE UNCHANGED vec
  BY <1>2 DEF VectorsInv
<1> QED
  BY <1>1, <1>2 DEF VectorsNext, VectorsEnded

-----------------------------------------------------------------------------
(* Who holds what a waiting worker waits for. *)
LEMMA Holders ==
    ASSUME VectorsInv
    PROVE  /\ \A x \in Vectors : vec.lock[x] # Unlocked =>
                 vec.lock[x] \in Workers /\ x \in Held(vec, vec.lock[x])
           /\ vec.global # Unlocked => vec.global \in Workers /\ HoldsGlobal(vec, vec.global)
BY DEF VectorsInv, VectorState, Ownership

(* A worker past its acquisition is neither finished nor waiting. *)
LEMMA PastWaiting ==
    ASSUME VectorsInv, NEW u \in Workers, vec.pc[u] \in {"add", "unlock dst", "unlock src"}
    PROVE  ~Finished(u) /\ ~Waits(u)
BY DEF Finished, Waits, At

(* Whoever holds a vector is at "second", with its first one, or past it. *)
LEMMA HolderIs ==
    ASSUME VectorsInv, NEW u \in Workers, NEW x, x \in Held(vec, u)
    PROVE  \/ vec.pc[u] = "second" /\ x = First(vec, u)
           \/ vec.pc[u] \in {"add", "unlock dst", "unlock src"}
BY DEF Held

(* Two workers that can block one another pick their locks from the same two
   vectors; a worker with vectors of its own blocks nobody. *)
LEMMA VectorsApart ==
    ASSUME VectorsInv, vec.parallel, NEW t \in Workers, NEW u \in Workers,
           {First(vec, t), Second(vec, t)} \cap {Dst(vec, u), Src(vec, u)} # {}
    PROVE  t = u
<1>1. vec \in VectorState /\ t \in Int /\ u \in Int
  BY VectorsAssumption DEF VectorsInv, Workers
<1>2. /\ Dst(vec, t) \in {2 * t, 2 * t + 1} /\ Src(vec, t) \in {2 * t, 2 * t + 1}
      /\ Dst(vec, u) \in {2 * u, 2 * u + 1} /\ Src(vec, u) \in {2 * u, 2 * u + 1}
  BY <1>1 DEF Dst, Src
<1>3. {First(vec, t), Second(vec, t)} = {Dst(vec, t), Src(vec, t)}
  BY <1>1, TwoVectors
<1> QED
  BY <1>1, <1>2, <1>3

(* Where all lock vector 0 before vector 1. *)
LEMMA SameOrder ==
    ASSUME VectorsInv, ~vec.parallel, NEW t \in Workers,
           vec.version = "global-order" \/ ~vec.cause_deadlock
    PROVE  First(vec, t) = 0 /\ Second(vec, t) = 1
BY DEF VectorsInv, VectorState, First, Second, Dst, Src

(* The cycle of waiting workers that each version rules out. *)
LEMMA NoDeadlock == VectorsInv => DeadlockOnlyByOrder
<1> SUFFICES ASSUME VectorsInv, Stuck,
                    ~(vec.version = "deadlock" /\ vec.cause_deadlock /\ ~vec.parallel)
             PROVE  FALSE
  BY DEF DeadlockOnlyByOrder
<1>1. PICK t \in Workers : ~Finished(t)
  BY DEF Stuck
<1>2. \A u \in Workers : Finished(u) \/ Waits(u)
  BY DEF Stuck
<1>3. vec \in VectorState /\ \A u \in Workers : Inside(vec, u)
  BY DEF VectorsInv
<1>4. \A u \in Workers : vec.pc[u] \notin {"add", "unlock dst", "unlock src"}
  BY <1>2, PastWaiting
<1>5. \A u \in Workers : First(vec, u) \in Vectors /\ Second(vec, u) \in Vectors
                        /\ First(vec, u) # Second(vec, u)
  BY <1>3, TwoVectors
<1>6. \A x \in Vectors : vec.lock[x] # Unlocked =>
        /\ vec.lock[x] \in Workers /\ vec.pc[vec.lock[x]] = "second"
        /\ x = First(vec, vec.lock[x]) /\ x \in Held(vec, vec.lock[x])
  BY <1>4, Holders, HolderIs
<1>7. ASSUME NEW u \in Workers, vec.pc[u] = "second"
      PROVE  /\ vec.version # "try-wait" /\ vec.lock[Second(vec, u)] # Unlocked
  BY <1>2, <1>7 DEF Waits, Finished, At
<1>8. ASSUME NEW u \in Workers, vec.pc[u] = "second"
      PROVE  FALSE
  <2> DEFINE x == Second(vec, u)
             w == vec.lock[x]
  <2>1. /\ w \in Workers /\ vec.pc[w] = "second" /\ x = First(vec, w) /\ x \in Vectors
        /\ x # First(vec, u)
    BY <1>5, <1>6, <1>7, <1>8
  <2>2. w # u
    BY <2>1
  <2>3. CASE vec.version = "avoid-hold-and-wait"
    <3>1. HoldsGlobal(vec, u) /\ HoldsGlobal(vec, w)
      BY <1>8, <2>1, <2>3 DEF HoldsGlobal
    <3> QED
      BY <2>1, <2>2, <3>1 DEF VectorsInv, Ownership
  <2>4. CASE vec.parallel
    <3>1. x \in {Dst(vec, w), Src(vec, w)}
      BY <1>3, <2>1, TwoVectors
    <3> QED
      BY <2>1, <2>2, <2>4, <3>1, VectorsApart
  <2>5. CASE ~vec.parallel /\ (vec.version = "global-order" \/ ~vec.cause_deadlock)
    BY <2>1, <2>5, SameOrder
  <2>6. vec.version \in {"deadlock", "global-order", "avoid-hold-and-wait"}
    BY <1>3, <1>7, <1>8 DEF VectorState, Versions, Inside
  <2> QED
    BY <1>3, <2>3, <2>4, <2>5, <2>6 DEF VectorState
<1>9. \A x \in Vectors : vec.lock[x] = Unlocked
  BY <1>6, <1>8
<1>10. ASSUME NEW u \in Workers PROVE ~Waits(u) \/ (vec.pc[u] = "global" /\ vec.global # Unlocked)
  BY <1>5, <1>9 DEF Waits, At
<1>11. PICK u \in Workers : u = vec.global /\ HoldsGlobal(vec, u)
  BY <1>1, <1>2, <1>10, Holders
<1>12. vec.pc[u] \in {"first", "second"}
  BY <1>11 DEF HoldsGlobal
<1> QED
  BY <1>2, <1>10, <1>12 DEF Finished, At

LEMMA AtomicAdditions == VectorsInv => Serializable
<1> SUFFICES ASSUME VectorsInv, vec.version \in Locked
             PROVE  /\ \A x \in Vectors :
                          vec.lock[x] = Unlocked => vec.values[x] = vec.whole[x]
                    /\ \A t \in Workers : Finished(t) => vec.turns[t] = loops
  BY DEF Serializable
<1>1. ASSUME NEW x \in Vectors, vec.lock[x] = Unlocked PROVE vec.values[x] = vec.whole[x]
  <2>1. ASSUME NEW t \in Workers, vec.pc[t] = "add" PROVE Dst(vec, t) # x
    <3>1. Dst(vec, t) \in Held(vec, t)
      BY <2>1 DEF Held
    <3>2. Unlocked # t
      BY VectorsAssumption DEF Unlocked, Workers
    <3> QED
      BY <1>1, <3>1, <3>2 DEF VectorsInv, Ownership
  <2>2. Settled(vec, x)
    BY DEF VectorsInv, Atomic
  <2> QED
    BY <2>1, <2>2 DEF Settled
<1>2. ASSUME NEW t \in Workers, Finished(t) PROVE vec.turns[t] = loops
  BY <1>2 DEF VectorsInv, Inside, Finished, At
<1> QED
  BY <1>1, <1>2

(* vector_add in its locking versions: for any number of threads, rounds and
   elements only the version without an order can deadlock, and only when
   threads share vectors and add in opposite directions; and every addition is
   atomic. *)
THEOREM AdditionsSafe == VectorsSpec => []AddsSafely
<1>1. VectorsInv => AddsSafely
  <2>1. VectorsInv => VectorsTypeOK
    BY DEF VectorsInv, VectorState, VectorsTypeOK
  <2> QED
    BY <2>1, NoDeadlock, AtomicAdditions DEF AddsSafely
<1> QED
  BY <1>1, InitVectorsInv, NextVectorsInv, PTL DEF VectorsSpec

-----------------------------------------------------------------------------
(***************************************************************************)
(* The identity queue for any number of writers and of writes: no wake-up  *)
(* is lost, nothing is deleted from an empty list, every identity is       *)
(* accounted for, and ids are unique unless writers overlap.               *)
(***************************************************************************)

WriterStates == {"idle", "alloc", "lock", "list_add", "increment", "store", "wake"}

Module ==
    [list    : Seq(Nat),
     next_id : Nat,
     mutex   : BOOLEAN,
     wpc     : [Writers -> WriterStates],
     id      : [Writers -> Nat],
     writes  : [Writers -> Nat],
     tpc     : {"test", "prepared", "asleep", "get", "found", "exited"},
     woken   : BOOLEAN,
     stop    : BOOLEAN,
     upc     : {"loaded", "stopping", "get"},
     made    : Nat,
     freed   : Nat,
     leaked  : Nat,
     overlap : BOOLEAN,
     ids     : SUBSET (Nat \X Nat),
     bad     : BOOLEAN]

(* The list has one consumer at a time: the thread until it has exited, then
   misc_end.  So what was seen before the mutex was taken is still there. *)
OneConsumer ==
    /\ mod.tpc = "get" => mod.list # <<>>
    /\ mod.upc = "get" => mod.tpc = "exited" /\ mod.list # <<>>

(* A writer alone in misc_write uses next_id, and only then moves it on. *)
FreshIds ==
    ~mod.overlap =>
        /\ \A u, w \in Writers : Writing(u) /\ Writing(w) => u = w
        /\ \A w \in Writers : mod.wpc[w] \in {"alloc", "lock", "list_add", "store"} =>
             mod.id[w] = mod.next_id
        /\ \A x \in mod.ids : x[1] <= mod.next_id
        /\ (\A w \in Writers : mod.wpc[w] \notin {"increment", "store"}) =>
             \A x \in mod.ids : x[1] < mod.next_id
        /\ \A x, y \in mod.ids : x[1] = y[1] => x = y

(* Writers that hold an identity not yet listed. *)
Holding(wpc) == {w \in Writers : wpc[w] \in {"lock", "list_add"}}

Accounted ==
    mod.made = mod.freed + mod.leaked + Len(mod.list) + Cardinality(Holding(mod.wpc))

QInv ==
    /\ mod \in Module
    /\ IsFiniteSet(mod.ids)
    /\ ~mod.bad
    /\ OneConsumer
    /\ NoLostWakeUp
    /\ FreshIds
    /\ Accounted

LEMMA QInvSound == QInv => QueueSound
BY DEF QInv, QueueSound, QueueTypeOK, NoBadDelete, UniqueUnlessOverlap, Module, FreshIds,
       Accounted, Holding

LEMMA QInit == QueueInit => QInv
<1> SUFFICES ASSUME QueueInit PROVE QInv
  OBVIOUS
<1>1. mod \in Module
  BY DEF QueueInit, Module, WriterStates
<1>2. /\ mod.ids = {} /\ mod.bad = FALSE /\ mod.tpc = "test" /\ mod.upc = "loaded"
      /\ mod.made = 0 /\ mod.freed = 0 /\ mod.leaked = 0 /\ mod.list = <<>>
      /\ mod.wpc = [w \in Writers |-> "idle"]
  BY DEF QueueInit
<1>3. IsFiniteSet(mod.ids)
  BY <1>2, FS_EmptySet
<1>4. Accounted
  <2>1. Holding(mod.wpc) = {}
    BY <1>2 DEF Holding
  <2>2. Cardinality(Holding(mod.wpc)) = 0
    BY <2>1, FS_EmptySet
  <2>3. QED
    BY <1>2, <2>2 DEF Accounted
<1>5. OneConsumer /\ NoLostWakeUp /\ FreshIds
  BY <1>2 DEF OneConsumer, NoLostWakeUp, FreshIds, Writing
<1>6. QED
  BY <1>1, <1>2, <1>3, <1>4, <1>5 DEF QInv

(* How a step of one writer changes the number of identities held. *)
LEMMA HoldingChange ==
    ASSUME IsFiniteSet(Writers), NEW f \in [Writers -> WriterStates],
           NEW w \in Writers, NEW s \in WriterStates,
           NEW g, g = [f EXCEPT ![w] = s]
    PROVE  /\ Cardinality(Holding(f)) \in Nat
           /\ Cardinality(Holding(g)) \in Nat
           /\ (w \in Holding(f) <=> w \in Holding(g)) =>
                Cardinality(Holding(g)) = Cardinality(Holding(f))
           /\ w \notin Holding(f) /\ w \in Holding(g) =>
                Cardinality(Holding(g)) = Cardinality(Holding(f)) + 1
           /\ w \in Holding(f) /\ w \notin Holding(g) =>
                Cardinality(Holding(f)) = Cardinality(Holding(g)) + 1
<1> DEFINE F == Holding(f)
           G == Holding(g)
<1>1. F \in SUBSET Writers /\ G \in SUBSET Writers
  BY DEF Holding
<1>2. /\ IsFiniteSet(F) /\ Cardinality(F) \in Nat
      /\ IsFiniteSet(G) /\ Cardinality(G) \in Nat
  BY <1>1, FS_Subset, FS_CardinalityType
<1>3. F \ {w} = G \ {w}
  BY DEF Holding
<1> HIDE DEF F, G
<1>4. /\ Cardinality(F \ {w}) = IF w \in F THEN Cardinality(F) - 1 ELSE Cardinality(F)
      /\ Cardinality(G \ {w}) = IF w \in G THEN Cardinality(G) - 1 ELSE Cardinality(G)
  BY <1>2, FS_RemoveElement
<1>5. /\ (w \in F <=> w \in G) => Cardinality(G) = Cardinality(F)
      /\ w \notin F /\ w \in G => Cardinality(G) = Cardinality(F) + 1
      /\ w \in F /\ w \notin G => Cardinality(F) = Cardinality(G) + 1
  <2>1. Cardinality(F \ {w}) = Cardinality(G \ {w})
    BY <1>3, Zenon
  <2>2. QED
    BY <1>2, <1>4, <2>1
<1>6. QED
  BY <1>2, <1>5 DEF F, G

LEMMA AccountedNext ==
    Accounted' <=> mod'.made = mod'.freed + mod'.leaked + Len(mod'.list)
                                 + Cardinality(Holding(mod'.wpc))
BY DEF Accounted, Holding

-----------------------------------------------------------------------------
(* The steps of a writer. *)

LEMMA MiscWriteKeeps ==
    ASSUME IsFiniteSet(Writers), QInv, NEW w \in Writers, misc_write(w)
    PROVE  QInv'
<1> USE DEF QInv
<1>1. /\ mod.next_id \in Nat /\ mod.writes[w] + 1 \in Nat /\ Overlap(w) \in BOOLEAN
      /\ mod.wpc \in [Writers -> WriterStates] /\ mod.id \in [Writers -> Nat]
  BY DEF Module, Overlap
<1>2. mod' \in Module
  BY <1>1 DEF misc_write, Module, WriterStates
<1>3. /\ mod'.wpc = [mod.wpc EXCEPT ![w] = "alloc"] /\ mod.wpc[w] = "idle"
      /\ mod'.id = [mod.id EXCEPT ![w] = mod.next_id]
      /\ mod'.overlap = Overlap(w)
  BY DEF misc_write, Module
<1>4. /\ mod'.list = mod.list /\ mod'.next_id = mod.next_id /\ mod'.tpc = mod.tpc
      /\ mod'.woken = mod.woken /\ mod'.upc = mod.upc /\ mod'.made = mod.made
      /\ mod'.freed = mod.freed /\ mod'.leaked = mod.leaked /\ mod'.ids = mod.ids
      /\ mod'.bad = mod.bad
  BY DEF misc_write, Module
<1>5. Accounted'
  <2>1. "alloc" \in WriterStates
    BY DEF WriterStates
  <2>2. w \notin Holding(mod.wpc) /\ w \notin Holding(mod'.wpc)
    BY <1>1, <1>3 DEF Holding
  <2>3. Cardinality(Holding(mod'.wpc)) = Cardinality(Holding(mod.wpc))
    BY <1>1, <1>3, <2>1, <2>2, HoldingChange
  <2>4. QED
    BY <1>4, <2>3, AccountedNext DEF Accounted
<1>6. OneConsumer' /\ NoLostWakeUp'
  BY <1>1, <1>3, <1>4 DEF OneConsumer, NoLostWakeUp
<1>7. FreshIds'
  <2> SUFFICES ASSUME ~mod'.overlap PROVE FreshIds'
    BY DEF FreshIds
  <2>1. /\ ~mod.overlap
        /\ \A u \in Writers : u # w => mod.wpc[u] = "idle"
    BY <1>3 DEF Overlap, Writing
  <2>2. \A u \in Writers : mod.wpc[u] = "idle"
    BY <1>3, <2>1
  <2>3. \A x \in mod.ids : x[1] < mod.next_id
    BY <2>1, <2>2 DEF FreshIds
  <2>4. QED
    BY <1>1, <1>3, <1>4, <2>1, <2>2, <2>3 DEF FreshIds, Writing
<1>8. QED
  BY <1>2, <1>4, <1>5, <1>6, <1>7

LEMMA AllocKeeps ==
    ASSUME IsFiniteSet(Writers), QInv, NEW w \in Writers, mod.wpc[w] = "alloc",
           mod' = [mod EXCEPT !.wpc[w] = "lock", !.made = @ + 1]
    PROVE  QInv'
<1> USE DEF QInv
<1>1. /\ mod.wpc \in [Writers -> WriterStates] /\ mod.id \in [Writers -> Nat]
      /\ mod.next_id \in Nat /\ mod.made \in Nat /\ mod.freed \in Nat
      /\ mod.leaked \in Nat /\ Len(mod.list) \in Nat /\ mod.made + 1 \in Nat
  BY DEF Module
<1>2. mod' \in Module
  BY <1>1 DEF Module, WriterStates
<1>3. /\ mod'.wpc = [mod.wpc EXCEPT ![w] = "lock"] /\ mod.wpc[w] = "alloc"
      /\ mod'.made = mod.made + 1
  BY DEF Module
<1>4. /\ mod'.list = mod.list /\ mod'.next_id = mod.next_id /\ mod'.id = mod.id
      /\ mod'.tpc = mod.tpc /\ mod'.woken = mod.woken /\ mod'.upc = mod.upc
      /\ mod'.freed = mod.freed /\ mod'.leaked = mod.leaked /\ mod'.overlap = mod.overlap
      /\ mod'.ids = mod.ids /\ mod'.bad = mod.bad
  BY DEF Module
<1>5. Accounted'
  <2>1. "lock" \in WriterStates
    BY DEF WriterStates
  <2>2. w \notin Holding(mod.wpc) /\ w \in Holding(mod'.wpc)
    BY <1>1, <1>3 DEF Holding
  <2>3. /\ Cardinality(Holding(mod.wpc)) \in Nat /\ Cardinality(Holding(mod'.wpc)) \in Nat
        /\ Cardinality(Holding(mod'.wpc)) = Cardinality(Holding(mod.wpc)) + 1
    BY <1>1, <1>3, <2>1, <2>2, HoldingChange
  <2>4. PICK m \in Nat, f \in Nat, l \in Nat, n \in Nat, c \in Nat, d \in Nat :
          /\ m = mod.made /\ f = mod.freed /\ l = mod.leaked /\ n = Len(mod.list)
          /\ c = Cardinality(Holding(mod.wpc)) /\ d = Cardinality(Holding(mod'.wpc))
    BY <1>1, <2>3
  <2>5. m = f + l + n + c
    BY <2>4 DEF Accounted
  <2>6. mod'.made = m + 1 /\ mod'.freed = f /\ mod'.leaked = l
    BY <1>3, <1>4, <2>4
  <2>7. Len(mod'.list) = n /\ d = c + 1
    BY <1>1, <1>3, <1>4, <2>3, <2>4
  <2>8. m + 1 = f + l + n + d
    BY <2>5, <2>7
  <2>9. QED
    BY <2>4, <2>6, <2>7, <2>8, AccountedNext
<1>6. OneConsumer' /\ NoLostWakeUp'
  BY <1>1, <1>3, <1>4 DEF OneConsumer, NoLostWakeUp
<1>7. FreshIds'
  BY <1>1, <1>3, <1>4 DEF FreshIds, Writing
<1>8. QED
  BY <1>2, <1>3, <1>4, <1>5, <1>6, <1>7

LEMMA NoMemoryKeeps ==
    ASSUME IsFiniteSet(Writers), QInv, NEW w \in Writers, mod.wpc[w] = "alloc",
           mod' = [mod EXCEPT !.wpc[w] = "idle"]
    PROVE  QInv'
<1> USE DEF QInv
<1>1. /\ mod.wpc \in [Writers -> WriterStates] /\ mod.id \in [Writers -> Nat]
      /\ mod.next_id \in Nat /\ mod.made \in Nat /\ mod.freed \in Nat
      /\ mod.leaked \in Nat /\ Len(mod.list) \in Nat
  BY DEF Module
<1>2. mod' \in Module
  BY <1>1 DEF Module, WriterStates
<1>3. /\ mod'.wpc = [mod.wpc EXCEPT ![w] = "idle"] /\ mod.wpc[w] = "alloc"
  BY DEF Module
<1>4. /\ mod'.list = mod.list /\ mod'.next_id = mod.next_id /\ mod'.id = mod.id
      /\ mod'.tpc = mod.tpc /\ mod'.woken = mod.woken /\ mod'.upc = mod.upc
      /\ mod'.made = mod.made /\ mod'.freed = mod.freed /\ mod'.leaked = mod.leaked
      /\ mod'.overlap = mod.overlap /\ mod'.ids = mod.ids /\ mod'.bad = mod.bad
  BY DEF Module
<1>5. Accounted'
  <2>1. "idle" \in WriterStates
    BY DEF WriterStates
  <2>2. w \notin Holding(mod.wpc) /\ w \notin Holding(mod'.wpc)
    BY <1>1, <1>3 DEF Holding
  <2>3. /\ Cardinality(Holding(mod.wpc)) \in Nat /\ Cardinality(Holding(mod'.wpc)) \in Nat
        /\ Cardinality(Holding(mod'.wpc)) = Cardinality(Holding(mod.wpc))
    BY <1>1, <1>3, <2>1, <2>2, HoldingChange
  <2>4. QED
    BY <1>1, <1>3, <1>4, <2>3, AccountedNext DEF Accounted
<1>6. OneConsumer' /\ NoLostWakeUp'
  BY <1>1, <1>3, <1>4 DEF OneConsumer, NoLostWakeUp
<1>7. FreshIds'
  BY <1>1, <1>3, <1>4 DEF FreshIds, Writing
<1>8. QED
  BY <1>2, <1>3, <1>4, <1>5, <1>6, <1>7

LEMMA LockKeeps ==
    ASSUME IsFiniteSet(Writers), QInv, NEW w \in Writers, LockList(w)
    PROVE  QInv'
<1> USE DEF QInv
<1>1. /\ mod.wpc \in [Writers -> WriterStates] /\ mod.id \in [Writers -> Nat]
      /\ mod.next_id \in Nat /\ mod.made \in Nat /\ mod.freed \in Nat
      /\ mod.leaked \in Nat /\ Len(mod.list) \in Nat
  BY DEF Module
<1>2. mod' \in Module
  BY <1>1 DEF LockList, Module, WriterStates
<1>3. /\ mod'.wpc = [mod.wpc EXCEPT ![w] = "list_add"] /\ mod.wpc[w] = "lock"
  BY DEF LockList, Module
<1>4. /\ mod'.list = mod.list /\ mod'.next_id = mod.next_id /\ mod'.id = mod.id
      /\ mod'.tpc = mod.tpc /\ mod'.woken = mod.woken /\ mod'.upc = mod.upc
      /\ mod'.made = mod.made /\ mod'.freed = mod.freed /\ mod'.leaked = mod.leaked
      /\ mod'.overlap = mod.overlap /\ mod'.ids = mod.ids /\ mod'.bad = mod.bad
  BY DEF LockList, Module
<1>5. Accounted'
  <2>1. "list_add" \in WriterStates
    BY DEF WriterStates
  <2>2. w \in Holding(mod.wpc) /\ w \in Holding(mod'.wpc)
    BY <1>1, <1>3 DEF Holding
  <2>3. /\ Cardinality(Holding(mod.wpc)) \in Nat /\ Cardinality(Holding(mod'.wpc)) \in Nat
        /\ Cardinality(Holding(mod'.wpc)) = Cardinality(Holding(mod.wpc))
    BY <1>1, <1>3, <2>1, <2>2, HoldingChange
  <2>4. QED
    BY <1>1, <1>3, <1>4, <2>3, AccountedNext DEF Accounted
<1>6. OneConsumer' /\ NoLostWakeUp'
  BY <1>1, <1>3, <1>4 DEF OneConsumer, NoLostWakeUp
<1>7. FreshIds'
  BY <1>1, <1>3, <1>4 DEF FreshIds, Writing
<1>8. QED
  BY <1>2, <1>3, <1>4, <1>5, <1>6, <1>7

(* The identity of an interrupted writer is no longer held but leaked. *)
LEMMA InterruptedKeeps ==
    ASSUME IsFiniteSet(Writers), QInv, NEW w \in Writers, Interrupted(w)
    PROVE  QInv'
<1> USE DEF QInv
<1>1. /\ mod.wpc \in [Writers -> WriterStates] /\ mod.id \in [Writers -> Nat]
      /\ mod.next_id \in Nat /\ mod.made \in Nat /\ mod.freed \in Nat
      /\ mod.leaked \in Nat /\ Len(mod.list) \in Nat /\ mod.leaked + 1 \in Nat
  BY DEF Module
<1>2. mod' \in Module
  BY <1>1 DEF Interrupted, Module, WriterStates
<1>3. /\ mod'.wpc = [mod.wpc EXCEPT ![w] = "idle"] /\ mod.wpc[w] = "lock"
      /\ mod'.leaked = mod.leaked + 1
  BY DEF Interrupted, Module
<1>4. /\ mod'.list = mod.list /\ mod'.next_id = mod.next_id /\ mod'.id = mod.id
      /\ mod'.tpc = mod.tpc /\ mod'.woken = mod.woken /\ mod'.upc = mod.upc
      /\ mod'.made = mod.made /\ mod'.freed = mod.freed /\ mod'.overlap = mod.overlap
      /\ mod'.ids = mod.ids /\ mod'.bad = mod.bad
  BY DEF Interrupted, Module
<1>5. Accounted'
  <2>1. "idle" \in WriterStates
    BY DEF WriterStates
  <2>2. w \in Holding(mod.wpc) /\ w \notin Holding(mod'.wpc)
    BY <1>1, <1>3 DEF Holding
  <2>3. /\ Cardinality(Holding(mod.wpc)) \in Nat /\ Cardinality(Holding(mod'.wpc)) \in Nat
        /\ Cardinality(Holding(mod.wpc)) = Cardinality(Holding(mod'.wpc)) + 1
    BY <1>1, <1>3, <2>1, <2>2, HoldingChange
  <2>4. PICK m \in Nat, f \in Nat, l \in Nat, n \in Nat, c \in Nat, d \in Nat :
          /\ m = mod.made /\ f = mod.freed /\ l = mod.leaked /\ n = Len(mod.list)
          /\ c = Cardinality(Holding(mod.wpc)) /\ d = Cardinality(Holding(mod'.wpc))
    BY <1>1, <2>3
  <2>5. m = f + l + n + c
    BY <2>4 DEF Accounted
  <2>6. mod'.made = m /\ mod'.freed = f /\ mod'.leaked = l + 1
    BY <1>3, <1>4, <2>4
  <2>7. Len(mod'.list) = n /\ c = d + 1
    BY <1>1, <1>3, <1>4, <2>3, <2>4
  <2>8. m = f + (l + 1) + n + d
    BY <2>5, <2>7
  <2>9. QED
    BY <2>4, <2>6, <2>7, <2>8, AccountedNext
<1>6. OneConsumer' /\ NoLostWakeUp'
  BY <1>1, <1>3, <1>4 DEF OneConsumer, NoLostWakeUp
<1>7. FreshIds'
  BY <1>1, <1>3, <1>4 DEF FreshIds, Writing
<1>8. QED
  BY <1>2, <1>3, <1>4, <1>5, <1>6, <1>7

LEMMA ListAddKeeps ==
    ASSUME IsFiniteSet(Writers), QInv, NEW w \in Writers, ListAdd(w)
    PROVE  QInv'
<1> USE DEF QInv
<1>1. /\ mod.wpc \in [Writers -> WriterStates] /\ mod.id \in [Writers -> Nat]
      /\ mod.next_id \in Nat /\ mod.made \in Nat /\ mod.freed \in Nat
      /\ mod.leaked \in Nat /\ Len(mod.list) \in Nat /\ mod.list \in Seq(Nat)
      /\ mod.ids \in SUBSET (Nat \X Nat)
  BY DEF Module
<1>2. mod' \in Module /\ IsFiniteSet(mod'.ids)
  <2>1. Cardinality(mod.ids) \in Nat
    BY FS_CardinalityType
  <2>2. /\ <<mod.id[w]>> \o mod.list \in Seq(Nat)
        /\ mod.ids \cup {<<mod.id[w], Cardinality(mod.ids)>>} \in SUBSET (Nat \X Nat)
    BY <1>1, <2>1
  <2>3. mod' \in Module
    BY <1>1, <2>2 DEF ListAdd, Module, WriterStates
  <2>4. mod'.ids = mod.ids \cup {<<mod.id[w], Cardinality(mod.ids)>>}
    BY DEF ListAdd, Module
  <2>5. QED
    BY <2>3, <2>4, FS_AddElement
<1>3. /\ mod'.wpc = [mod.wpc EXCEPT ![w] = "increment"] /\ mod.wpc[w] = "list_add"
      /\ mod'.list = <<mod.id[w]>> \o mod.list
      /\ mod'.ids = mod.ids \cup {<<mod.id[w], Cardinality(mod.ids)>>}
  BY DEF ListAdd, Module
<1>4. /\ mod'.next_id = mod.next_id /\ mod'.id = mod.id /\ mod'.tpc = mod.tpc
      /\ mod'.woken = mod.woken /\ mod'.upc = mod.upc /\ mod'.made = mod.made
      /\ mod'.freed = mod.freed /\ mod'.leaked = mod.leaked /\ mod'.overlap = mod.overlap
      /\ mod'.bad = mod.bad
  BY DEF ListAdd, Module
<1>5. Accounted'
  <2>1. "increment" \in WriterStates
    BY DEF WriterStates
  <2>2. w \in Holding(mod.wpc) /\ w \notin Holding(mod'.wpc)
    BY <1>1, <1>3 DEF Holding
  <2>3. /\ Cardinality(Holding(mod.wpc)) \in Nat /\ Cardinality(Holding(mod'.wpc)) \in Nat
        /\ Cardinality(Holding(mod.wpc)) = Cardinality(Holding(mod'.wpc)) + 1
    BY <1>1, <1>3, <2>1, <2>2, HoldingChange
  <2>4. PICK m \in Nat, f \in Nat, l \in Nat, n \in Nat, c \in Nat, d \in Nat :
          /\ m = mod.made /\ f = mod.freed /\ l = mod.leaked /\ n = Len(mod.list)
          /\ c = Cardinality(Holding(mod.wpc)) /\ d = Cardinality(Holding(mod'.wpc))
    BY <1>1, <2>3
  <2>5. m = f + l + n + c
    BY <2>4 DEF Accounted
  <2>6. mod'.made = m /\ mod'.freed = f /\ mod'.leaked = l
    BY <1>3, <1>4, <2>4
  <2>7. Len(mod'.list) = n + 1 /\ c = d + 1
    BY <1>1, <1>3, <1>4, <2>3, <2>4
  <2>8. m = f + l + (n + 1) + d
    BY <2>5, <2>7
  <2>9. QED
    BY <2>4, <2>6, <2>7, <2>8, AccountedNext
<1>6. OneConsumer' /\ NoLostWakeUp'
  <2>1. mod'.list # <<>>
    BY <1>1, <1>3
  <2>2. QED
    BY <1>1, <1>3, <1>4, <2>1 DEF OneConsumer, NoLostWakeUp
<1>7. FreshIds'
  <2> SUFFICES ASSUME ~mod'.overlap PROVE FreshIds'
    BY DEF FreshIds
  <2>1. /\ mod.id[w] = mod.next_id /\ mod'.wpc[w] = "increment" /\ ~mod.overlap
        /\ \A u \in Writers : u # w => mod.wpc[u] = "idle" /\ mod'.wpc[u] = "idle"
    BY <1>1, <1>3, <1>4 DEF FreshIds, Writing
  <2>2. \A u \in Writers : mod.wpc[u] \notin {"increment", "store"}
    BY <1>3, <2>1
  <2>3. \A x \in mod.ids : x[1] < mod.next_id /\ x[1] \in Nat
    BY <1>1, <2>1, <2>2 DEF FreshIds
  <2>4. \A x \in mod'.ids : x[1] <= mod.next_id
    BY <1>1, <1>3, <2>1, <2>3
  <2>5. \A x, y \in mod'.ids : x[1] = y[1] => x = y
    BY <1>1, <1>3, <2>1, <2>3 DEF FreshIds
  <2>6. QED
    BY <1>1, <1>3, <1>4, <2>1, <2>4, <2>5 DEF FreshIds, Writing
<1>8. QED
  BY <1>2, <1>3, <1>4, <1>5, <1>6, <1>7

LEMMA LoadKeeps ==
    ASSUME IsFiniteSet(Writers), QInv, NEW w \in Writers, LoadNextId(w)
    PROVE  QInv'
<1> USE DEF QInv
<1>1. /\ mod.wpc \in [Writers -> WriterStates] /\ mod.id \in [Writers -> Nat]
      /\ mod.next_id \in Nat /\ mod.made \in Nat /\ mod.freed \in Nat
      /\ mod.leaked \in Nat /\ Len(mod.list) \in Nat
  BY DEF Module
<1>2. mod' \in Module
  BY <1>1 DEF LoadNextId, Module, WriterStates
<1>3. /\ mod'.wpc = [mod.wpc EXCEPT ![w] = "store"] /\ mod.wpc[w] = "increment"
      /\ mod'.id = [mod.id EXCEPT ![w] = mod.next_id]
  BY DEF LoadNextId, Module
<1>4. /\ mod'.list = mod.list /\ mod'.next_id = mod.next_id /\ mod'.tpc = mod.tpc
      /\ mod'.woken = mod.woken /\ mod'.upc = mod.upc /\ mod'.made = mod.made
      /\ mod'.freed = mod.freed /\ mod'.leaked = mod.leaked /\ mod'.overlap = mod.overlap
      /\ mod'.ids = mod.ids /\ mod'.bad = mod.bad
  BY DEF LoadNextId, Module
<1>5. Accounted'
  <2>1. "store" \in WriterStates
    BY DEF WriterStates
  <2>2. w \notin Holding(mod.wpc) /\ w \notin Holding(mod'.wpc)
    BY <1>1, <1>3 DEF Holding
  <2>3. /\ Cardinality(Holding(mod.wpc)) \in Nat /\ Cardinality(Holding(mod'.wpc)) \in Nat
        /\ Cardinality(Holding(mod'.wpc)) = Cardinality(Holding(mod.wpc))
    BY <1>1, <1>3, <2>1, <2>2, HoldingChange
  <2>4. QED
    BY <1>1, <1>3, <1>4, <2>3, AccountedNext DEF Accounted
<1>6. OneConsumer' /\ NoLostWakeUp'
  BY <1>1, <1>3, <1>4 DEF OneConsumer, NoLostWakeUp
<1>7. FreshIds'
  BY <1>1, <1>3, <1>4 DEF FreshIds, Writing
<1>8. QED
  BY <1>2, <1>3, <1>4, <1>5, <1>6, <1>7

LEMMA StoreKeeps ==
    ASSUME IsFiniteSet(Writers), QInv, NEW w \in Writers, StoreNextId(w)
    PROVE  QInv'
<1> USE DEF QInv
<1>1. /\ mod.wpc \in [Writers -> WriterStates] /\ mod.id \in [Writers -> Nat]
      /\ mod.next_id \in Nat /\ mod.made \in Nat /\ mod.freed \in Nat
      /\ mod.leaked \in Nat /\ Len(mod.list) \in Nat /\ mod.id[w] + 1 \in Nat
      /\ mod.ids \in SUBSET (Nat \X Nat)
  BY DEF Module
<1>2. mod' \in Module
  BY <1>1 DEF StoreNextId, Module, WriterStates
<1>3. /\ mod'.wpc = [mod.wpc EXCEPT ![w] = "wake"] /\ mod.wpc[w] = "store"
      /\ mod'.next_id = mod.id[w] + 1
  BY DEF StoreNextId, Module
<1>4. /\ mod'.list = mod.list /\ mod'.id = mod.id /\ mod'.tpc = mod.tpc
      /\ mod'.woken = mod.woken /\ mod'.upc = mod.upc /\ mod'.made = mod.made
      /\ mod'.freed = mod.freed /\ mod'.leaked = mod.leaked /\ mod'.overlap = mod.overlap
      /\ mod'.ids = mod.ids /\ mod'.bad = mod.bad
  BY DEF StoreNextId, Module
<1>5. Accounted'
  <2>1. "wake" \in WriterStates
    BY DEF WriterStates
  <2>2. w \notin Holding(mod.wpc) /\ w \notin Holding(mod'.wpc)
    BY <1>1, <1>3 DEF Holding
  <2>3. /\ Cardinality(Holding(mod.wpc)) \in Nat /\ Cardinality(Holding(mod'.wpc)) \in Nat
        /\ Cardinality(Holding(mod'.wpc)) = Cardinality(Holding(mod.wpc))
    BY <1>1, <1>3, <2>1, <2>2, HoldingChange
  <2>4. QED
    BY <1>1, <1>3, <1>4, <2>3, AccountedNext DEF Accounted
<1>6. OneConsumer' /\ NoLostWakeUp'
  BY <1>1, <1>3, <1>4 DEF OneConsumer, NoLostWakeUp
<1>7. FreshIds'
  <2> SUFFICES ASSUME ~mod'.overlap PROVE FreshIds'
    BY DEF FreshIds
  <2>1. /\ mod.id[w] = mod.next_id /\ mod'.wpc[w] = "wake" /\ ~mod.overlap
        /\ \A u \in Writers : u # w => mod'.wpc[u] = "idle"
    BY <1>1, <1>3, <1>4 DEF FreshIds, Writing
  <2>2. \A x \in mod.ids : x[1] < mod'.next_id /\ x[1] <= mod'.next_id
    BY <1>1, <1>3, <2>1 DEF FreshIds
  <2>3. QED
    BY <1>3, <1>4, <2>1, <2>2 DEF FreshIds, Writing
<1>8. QED
  BY <1>2, <1>3, <1>4, <1>5, <1>6, <1>7

(* The last step of a write wakes the thread, if it sleeps. *)
LEMMA WakeUpKeeps ==
    ASSUME IsFiniteSet(Writers), QInv, NEW w \in Writers, wake_up(w)
    PROVE  QInv'
<1> USE DEF QInv
<1>1. /\ mod.wpc \in [Writers -> WriterStates] /\ mod.id \in [Writers -> Nat]
      /\ mod.next_id \in Nat /\ mod.made \in Nat /\ mod.freed \in Nat
      /\ mod.leaked \in Nat /\ Len(mod.list) \in Nat
  BY DEF Module
<1>2. mod' \in Module
  BY <1>1 DEF wake_up, Module, WriterStates
<1>3. /\ mod'.wpc = [mod.wpc EXCEPT ![w] = "idle"] /\ mod.wpc[w] = "wake"
      /\ mod.tpc = "asleep" => mod'.woken
  BY DEF wake_up, Module
<1>4. /\ mod'.list = mod.list /\ mod'.next_id = mod.next_id /\ mod'.id = mod.id
      /\ mod'.tpc = mod.tpc /\ mod'.upc = mod.upc /\ mod'.made = mod.made
      /\ mod'.freed = mod.freed /\ mod'.leaked = mod.leaked /\ mod'.overlap = mod.overlap
      /\ mod'.ids = mod.ids /\ mod'.bad = mod.bad
  BY DEF wake_up, Module
<1>5. Accounted'
  <2>1. "idle" \in WriterStates
    BY DEF WriterStates
  <2>2. w \notin Holding(mod.wpc) /\ w \notin Holding(mod'.wpc)
    BY <1>1, <1>3 DEF Holding
  <2>3. /\ Cardinality(Holding(mod.wpc)) \in Nat /\ Cardinality(Holding(mod'.wpc)) \in Nat
        /\ Cardinality(Holding(mod'.wpc)) = Cardinality(Holding(mod.wpc))
    BY <1>1, <1>3, <2>1, <2>2, HoldingChange
  <2>4. QED
    BY <1>1, <1>3, <1>4, <2>3, AccountedNext DEF Accounted
<1>6. OneConsumer' /\ NoLostWakeUp'
  BY <1>1, <1>3, <1>4 DEF OneConsumer, NoLostWakeUp
<1>7. FreshIds'
  BY <1>1, <1>3, <1>4 DEF FreshIds, Writing
<1>8. QED
  BY <1>2, <1>3, <1>4, <1>5, <1>6, <1>7

-----------------------------------------------------------------------------
(* The steps of the thread and of misc_end. *)

(* The thread goes to sleep only after it has seen the list empty, on the
   wait queue already. *)
LEMMA TestKeeps ==
    ASSUME QInv, Test
    PROVE  QInv'
<1> USE DEF QInv
<1>1. PICK t \in {"get", "found", "prepared", "asleep"}, k \in BOOLEAN :
        /\ mod' = [mod EXCEPT !.tpc = t, !.woken = k]
        /\ t = "get" => mod.list # <<>>
        /\ t = "asleep" => mod.list = <<>>
  <2> DEFINE t == IF mod.list # <<>> THEN "get"
                  ELSE IF mod.stop THEN "found"
                  ELSE IF mod.tpc = "test" THEN "prepared" ELSE "asleep"
             k == mod.woken /\ mod.tpc = "prepared"
  <2>1. t \in {"get", "found", "prepared", "asleep"} /\ k \in BOOLEAN
    OBVIOUS
  <2>2. mod' = [mod EXCEPT !.tpc = t, !.woken = k]
    BY DEF Test
  <2>3. (t = "get" => mod.list # <<>>) /\ (t = "asleep" => mod.list = <<>>)
    OBVIOUS
  <2> HIDE DEF t, k
  <2>4. QED
    BY <2>1, <2>2, <2>3
<1>2. mod' \in Module
  BY <1>1 DEF Module
<1>3. mod'.tpc = t /\ mod.tpc \in {"test", "prepared"}
  BY <1>1 DEF Test, Module
<1>4. /\ mod'.list = mod.list /\ mod'.next_id = mod.next_id /\ mod'.wpc = mod.wpc
      /\ mod'.id = mod.id /\ mod'.upc = mod.upc /\ mod'.made = mod.made
      /\ mod'.freed = mod.freed /\ mod'.leaked = mod.leaked /\ mod'.overlap = mod.overlap
      /\ mod'.ids = mod.ids /\ mod'.bad = mod.bad
  BY <1>1 DEF Module
<1>5. Accounted' /\ FreshIds'
  BY <1>4, AccountedNext DEF Accounted, FreshIds, Writing
<1>6. OneConsumer' /\ NoLostWakeUp'
  BY <1>1, <1>3, <1>4 DEF OneConsumer, NoLostWakeUp
<1>7. QED
  BY <1>2, <1>4, <1>5, <1>6

LEMMA WakeKeeps ==
    ASSUME QInv, Wake
    PROVE  QInv'
<1> USE DEF QInv
<1>1. mod' \in Module
  BY DEF Wake, Module
<1>2. mod'.tpc = "test" /\ mod.tpc = "asleep"
  BY DEF Wake, Module
<1>3. /\ mod'.list = mod.list /\ mod'.next_id = mod.next_id /\ mod'.wpc = mod.wpc
      /\ mod'.id = mod.id /\ mod'.upc = mod.upc /\ mod'.made = mod.made
      /\ mod'.freed = mod.freed /\ mod'.leaked = mod.leaked /\ mod'.overlap = mod.overlap
      /\ mod'.ids = mod.ids /\ mod'.bad = mod.bad
  BY DEF Wake, Module
<1>4. Accounted' /\ FreshIds'
  BY <1>3, AccountedNext DEF Accounted, FreshIds, Writing
<1>5. OneConsumer' /\ NoLostWakeUp'
  BY <1>2, <1>3 DEF OneConsumer, NoLostWakeUp
<1>6. QED
  BY <1>1, <1>3, <1>4, <1>5

(* identity_get by the thread: the list it found nonempty before it took the
   mutex still is. *)
LEMMA GetKeeps ==
    ASSUME QInv, ThreadGet
    PROVE  QInv'
<1> USE DEF QInv
<1>1. /\ mod.list \in Seq(Nat) /\ mod.list # <<>> /\ mod.tpc = "get"
      /\ mod.freed \in Nat /\ mod.freed + 1 \in Nat /\ mod.leaked \in Nat /\ mod.made \in Nat
  BY DEF ThreadGet, OneConsumer, Module
<1>2. Tail(mod.list) \in Seq(Nat) /\ Len(mod.list) = Len(Tail(mod.list)) + 1
      /\ Len(Tail(mod.list)) \in Nat
  BY <1>1
<1>3. mod' = [[mod EXCEPT !.list = Tail(@), !.freed = @ + 1] EXCEPT !.tpc = "found"]
  BY <1>1 DEF ThreadGet, TakeFirst
<1>4. mod' \in Module
  BY <1>1, <1>2, <1>3 DEF Module
<1>5. /\ mod'.list = Tail(mod.list) /\ mod'.freed = mod.freed + 1 /\ mod'.tpc = "found"
  BY <1>3 DEF Module
<1>6. /\ mod'.next_id = mod.next_id /\ mod'.wpc = mod.wpc /\ mod'.id = mod.id
      /\ mod'.woken = mod.woken /\ mod'.upc = mod.upc /\ mod'.made = mod.made
      /\ mod'.leaked = mod.leaked /\ mod'.overlap = mod.overlap /\ mod'.ids = mod.ids
      /\ mod'.bad = mod.bad
  BY <1>3 DEF Module
<1>7. Accounted'
  <2>1. PICK c : c = Cardinality(Holding(mod.wpc))
    OBVIOUS
  <2>2. mod.made = mod.freed + mod.leaked + (Len(Tail(mod.list)) + 1) + c
    BY <1>2, <2>1 DEF Accounted
  <2>3. mod'.made = (mod.freed + 1) + mod.leaked + Len(Tail(mod.list)) + c
    BY <1>1, <1>2, <1>6, <2>2, <2>1
  <2>4. QED
    BY <1>5, <1>6, <2>1, <2>3, AccountedNext
<1>8. FreshIds'
  BY <1>6 DEF FreshIds, Writing
<1>9. OneConsumer' /\ NoLostWakeUp'
  BY <1>1, <1>5, <1>6 DEF OneConsumer, NoLostWakeUp
<1>10. QED
  BY <1>4, <1>6, <1>7, <1>8, <1>9

LEMMA RepeatKeeps ==
    ASSUME QInv, Repeat
    PROVE  QInv'
<1> USE DEF QInv
<1>1. mod' \in Module
  BY DEF Repeat, Module
<1>2. mod'.tpc \in {"exited", "test"} /\ mod.tpc = "found"
  BY DEF Repeat, Module
<1>3. /\ mod'.list = mod.list /\ mod'.next_id = mod.next_id /\ mod'.wpc = mod.wpc
      /\ mod'.id = mod.id /\ mod'.woken = mod.woken /\ mod'.upc = mod.upc
      /\ mod'.made = mod.made /\ mod'.freed = mod.freed /\ mod'.leaked = mod.leaked
      /\ mod'.overlap = mod.overlap /\ mod'.ids = mod.ids /\ mod'.bad = mod.bad
  BY DEF Repeat, Module
<1>4. Accounted' /\ FreshIds'
  BY <1>3, AccountedNext DEF Accounted, FreshIds, Writing
<1>5. OneConsumer' /\ NoLostWakeUp'
  BY <1>2, <1>3 DEF OneConsumer, NoLostWakeUp
<1>6. QED
  BY <1>1, <1>3, <1>4, <1>5

LEMMA EndKeeps ==
    ASSUME QInv, misc_end
    PROVE  QInv'
<1> USE DEF QInv
<1>1. mod' \in Module
  BY DEF misc_end, Module
<1>2. mod'.upc = "stopping" /\ mod'.woken = TRUE
  BY DEF misc_end, Module
<1>3. /\ mod'.list = mod.list /\ mod'.next_id = mod.next_id /\ mod'.wpc = mod.wpc
      /\ mod'.id = mod.id /\ mod'.tpc = mod.tpc /\ mod'.made = mod.made
      /\ mod'.freed = mod.freed /\ mod'.leaked = mod.leaked /\ mod'.overlap = mod.overlap
      /\ mod'.ids = mod.ids /\ mod'.bad = mod.bad
  BY DEF misc_end, Module
<1>4. Accounted' /\ FreshIds'
  BY <1>3, AccountedNext DEF Accounted, FreshIds, Writing
<1>5. OneConsumer' /\ NoLostWakeUp'
  BY <1>2, <1>3 DEF OneConsumer, NoLostWakeUp
<1>6. QED
  BY <1>1, <1>3, <1>4, <1>5

LEMMA CleanUpKeeps ==
    ASSUME QInv, CleanUp
    PROVE  QInv'
<1> USE DEF QInv
<1>1. mod' \in Module
  BY DEF CleanUp, Stopped, Module
<1>2. mod'.upc = "get" /\ mod.tpc = "exited" /\ mod.list # <<>>
  BY DEF CleanUp, Stopped, Module
<1>3. /\ mod'.list = mod.list /\ mod'.next_id = mod.next_id /\ mod'.wpc = mod.wpc
      /\ mod'.id = mod.id /\ mod'.tpc = mod.tpc /\ mod'.woken = mod.woken
      /\ mod'.made = mod.made /\ mod'.freed = mod.freed /\ mod'.leaked = mod.leaked
      /\ mod'.overlap = mod.overlap /\ mod'.ids = mod.ids /\ mod'.bad = mod.bad
  BY DEF CleanUp, Stopped, Module
<1>4. Accounted' /\ FreshIds'
  BY <1>3, AccountedNext DEF Accounted, FreshIds, Writing
<1>5. OneConsumer' /\ NoLostWakeUp'
  BY <1>2, <1>3 DEF OneConsumer, NoLostWakeUp
<1>6. QED
  BY <1>1, <1>3, <1>4, <1>5

(* identity_get by misc_end, once the thread has exited. *)
LEMMA CleanUpGetKeeps ==
    ASSUME QInv, CleanUpGet
    PROVE  QInv'
<1> USE DEF QInv
<1>1. /\ mod.list \in Seq(Nat) /\ mod.list # <<>> /\ mod.upc = "get"
      /\ mod.freed \in Nat /\ mod.freed + 1 \in Nat /\ mod.leaked \in Nat /\ mod.made \in Nat
  BY DEF CleanUpGet, OneConsumer, Module
<1>2. Tail(mod.list) \in Seq(Nat) /\ Len(mod.list) = Len(Tail(mod.list)) + 1
      /\ Len(Tail(mod.list)) \in Nat
  BY <1>1
<1>3. mod' = [[mod EXCEPT !.list = Tail(@), !.freed = @ + 1] EXCEPT !.upc = "stopping"]
  BY <1>1 DEF CleanUpGet, TakeFirst
<1>4. mod' \in Module
  BY <1>1, <1>2, <1>3 DEF Module
<1>5. /\ mod'.list = Tail(mod.list) /\ mod'.freed = mod.freed + 1 /\ mod'.upc = "stopping"
  BY <1>3 DEF Module
<1>6. /\ mod'.next_id = mod.next_id /\ mod'.wpc = mod.wpc /\ mod'.id = mod.id
      /\ mod'.tpc = mod.tpc /\ mod'.woken = mod.woken /\ mod'.made = mod.made
      /\ mod'.leaked = mod.leaked /\ mod'.overlap = mod.overlap /\ mod'.ids = mod.ids
      /\ mod'.bad = mod.bad
  BY <1>3 DEF Module
<1>7. Accounted'
  <2>1. PICK c : c = Cardinality(Holding(mod.wpc))
    OBVIOUS
  <2>2. mod.made = mod.freed + mod.leaked + (Len(Tail(mod.list)) + 1) + c
    BY <1>2, <2>1 DEF Accounted
  <2>3. mod'.made = (mod.freed + 1) + mod.leaked + Len(Tail(mod.list)) + c
    BY <1>1, <1>2, <1>6, <2>2, <2>1
  <2>4. QED
    BY <1>5, <1>6, <2>1, <2>3, AccountedNext
<1>8. FreshIds'
  BY <1>6 DEF FreshIds, Writing
<1>9. OneConsumer' /\ NoLostWakeUp'
  BY <1>1, <1>5, <1>6 DEF OneConsumer, NoLostWakeUp
<1>10. QED
  BY <1>4, <1>6, <1>7, <1>8, <1>9

-----------------------------------------------------------------------------
LEMMA QNext ==
    ASSUME IsFiniteSet(Writers), QInv, [QueueNext]_mod
    PROVE  QInv'
<1>1. ASSUME NEW w \in Writers, Write(w) PROVE QInv'
  <2>1. CASE Kmalloc(w)
    BY <2>1, AllocKeeps, NoMemoryKeeps DEF Kmalloc
  <2>2. QED
    BY <1>1, <2>1, MiscWriteKeeps, LockKeeps, InterruptedKeeps, ListAddKeeps,
       LoadKeeps, StoreKeeps, WakeUpKeeps DEF Write
<1>2. CASE Unloaded \/ UNCHANGED mod
  BY <1>2 DEF Unloaded, QInv, OneConsumer, NoLostWakeUp, FreshIds, Writing, Accounted, Holding
<1>3. QED
  BY <1>1, <1>2, TestKeeps, WakeKeeps, GetKeeps, RepeatKeeps, EndKeeps, CleanUpKeeps,
     CleanUpGetKeeps DEF QueueNext

(* For any number of writers that write any number of times, are interrupted
   by signals or run out of memory, while the module is loaded and unloaded:
   the thread never sleeps on a list nobody will wake it for, identity_get
   never deletes from an empty list although it looks at the list before it
   takes the mutex, every identity is listed, freed or leaked by a signal, and
   ids differ unless two writers were in misc_write at once. *)
THEOREM QueueCorrect == QueueSpec => []QueueSound
<1>1. QInv /\ [QueueNext]_mod => QInv'
  BY QNext, WritersAssumption
<1>2. QED
  BY <1>1, QInit, QInvSound, PTL DEF QueueSpec
=============================================================================
