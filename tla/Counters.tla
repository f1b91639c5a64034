------------------------------ MODULE Counters ------------------------------
(***************************************************************************)
(* The shared counters of ostep/ch29-lock-based-data-structures and the    *)
(* program that measures them: main() runs NumThreads threads over the     *)
(* non-atomic counter, then the mutex-protected one, then the approximate  *)
(* one with per-CPU counts, and prints each final value.                   *)
(*                                                                         *)
(* An unprotected count += 1 is a load and a store.  Thread i is given     *)
(* core_id i, so that a per-CPU mutex is never contended and taking it is  *)
(* part of the step that updates the per-CPU count.                        *)
(*                                                                         *)
(* A definition whose name ends in Faulty is a plausible mistake in the    *)
(* definition that follows it; no specification uses it.                   *)
(***************************************************************************)
EXTENDS Integers, FiniteSets

CONSTANTS NumThreads,
          Rounds,         \* count_max / num_threads
          SyncThreshold

ASSUME CountersAssumption ==
    /\ NumThreads \in Nat \ {0}
    /\ Rounds \in Nat \ {0}
    /\ SyncThreshold \in Nat \ {0}

Threads == 1 .. NumThreads
Expected == NumThreads * Rounds

VARIABLES kind,           \* the counter being run, or "exited"
          count,          \* of the non-atomic and the atomic counter
          global_counter,
          cpu_counters,
          mutex,          \* holder of atomic_counter.mutex / global_mutex
          reg,            \* the value a thread has loaded
          pc,
          iter,           \* increments a thread has completed
          printed         \* what main has printed for each counter

vars == <<kind, count, global_counter, cpu_counters, mutex, reg, pc, iter, printed>>

Free == 0
NotYet == -1

Kinds == {"nonatomic", "atomic", "approx"}
Following == [k \in Kinds |-> CASE k = "nonatomic" -> "atomic"
                                [] k = "atomic" -> "approx"
                                [] k = "approx" -> "exited"]

Zero == [t \in Threads |-> 0]

Init ==
    /\ kind = "nonatomic"
    /\ count = 0
    /\ global_counter = 0
    /\ cpu_counters = Zero
    /\ mutex = Free
    /\ reg = Zero
    /\ pc = [t \in Threads |-> "next"]
    /\ iter = Zero
    /\ printed = [k \in Kinds |-> NotYet]

-----------------------------------------------------------------------------
GoTo(t, label) == pc' = [pc EXCEPT ![t] = label]

(* The for loop of the thread handlers. *)
AtNext(t) == pc[t] = "next" /\ iter[t] < Rounds
EndRound(t) ==
    /\ iter' = [iter EXCEPT ![t] = @ + 1]
    /\ GoTo(t, "next")

LockAtomic(t) ==
    /\ kind = "atomic"
    /\ AtNext(t)
    /\ mutex = Free
    /\ mutex' = t
    /\ GoTo(t, "load")
    /\ UNCHANGED <<kind, count, global_counter, cpu_counters, reg, iter, printed>>

Load(t) ==
    /\ IF kind = "nonatomic" THEN AtNext(t) ELSE pc[t] = "load"
    /\ reg' = [reg EXCEPT ![t] = count]
    /\ GoTo(t, "store")
    /\ UNCHANGED <<kind, count, global_counter, cpu_counters, mutex, iter, printed>>

Store(t) ==
    /\ pc[t] = "store"
    /\ count' = reg[t] + 1
    /\ IF kind = "nonatomic" THEN EndRound(t)
       ELSE GoTo(t, "unlock") /\ UNCHANGED iter
    /\ UNCHANGED <<kind, global_counter, cpu_counters, mutex, reg, printed>>

UnlockAtomic(t) ==
    /\ pc[t] = "unlock"
    /\ mutex' = Free
    /\ EndRound(t)
    /\ UNCHANGED <<kind, count, global_counter, cpu_counters, reg, printed>>

(* approx_counter_increment up to the threshold test. *)
MustSync(n) == n >= SyncThreshold

Increment(t) ==
    /\ kind = "approx"
    /\ AtNext(t)
    /\ cpu_counters' = [cpu_counters EXCEPT ![t] = @ + 1]
    /\ IF MustSync(cpu_counters[t] + 1) THEN GoTo(t, "sync") /\ UNCHANGED iter
       ELSE EndRound(t)
    /\ UNCHANGED <<kind, count, global_counter, mutex, reg, printed>>

LockGlobalFaulty(t) ==
    /\ pc[t] = "sync"
    /\ reg' = [reg EXCEPT ![t] = global_counter]
    /\ GoTo(t, "add")
    /\ UNCHANGED <<kind, count, global_counter, cpu_counters, mutex, iter, printed>>
LockGlobal(t) ==
    /\ pc[t] = "sync"
    /\ mutex = Free
    /\ mutex' = t
    /\ reg' = [reg EXCEPT ![t] = global_counter]
    /\ GoTo(t, "add")
    /\ UNCHANGED <<kind, count, global_counter, cpu_counters, iter, printed>>

AddGlobal(t) ==
    /\ pc[t] = "add"
    /\ global_counter' = reg[t] + cpu_counters[t]
    /\ mutex' = Free
    /\ GoTo(t, "reset")
    /\ UNCHANGED <<kind, count, cpu_counters, reg, iter, printed>>

Reset(t) ==
    /\ pc[t] = "reset"
    /\ cpu_counters' = [cpu_counters EXCEPT ![t] = 0]
    /\ EndRound(t)
    /\ UNCHANGED <<kind, count, global_counter, mutex, reg, printed>>

-----------------------------------------------------------------------------
(* A sum over the threads, one unit at a time. *)
Units(f) == UNION {{t} \X (1 .. f[t]) : t \in Threads}
Total(f) == Cardinality(Units(f))

(* nonatomic_counter_get, atomic_counter_get, approx_counter_get. *)
Get == IF kind = "approx" THEN global_counter + Total(cpu_counters) ELSE count

(* main joins the threads, prints the value and creates the next counter. *)
Join ==
    /\ kind \in Kinds
    /\ \A t \in Threads : pc[t] = "next" /\ iter[t] = Rounds
    /\ printed' = [printed EXCEPT ![kind] = Get]
    /\ kind' = Following[kind]
    /\ count' = 0
    /\ global_counter' = 0
    /\ cpu_counters' = Zero
    /\ reg' = Zero
    /\ iter' = Zero
    /\ UNCHANGED <<mutex, pc>>

Ended == kind = "exited" /\ UNCHANGED vars

Step(t) ==
    \/ LockAtomic(t) \/ Load(t) \/ Store(t) \/ UnlockAtomic(t)
    \/ Increment(t) \/ LockGlobal(t) \/ AddGlobal(t) \/ Reset(t)

Next == (\E t \in Threads : Step(t) /\ kind \in Kinds) \/ Join \/ Ended

Spec == Init /\ [][Next]_vars

-----------------------------------------------------------------------------
TypeOK ==
    /\ kind \in Kinds \cup {"exited"}
    /\ count \in 0 .. Expected
    /\ global_counter \in 0 .. Expected
    /\ cpu_counters \in [Threads -> 0 .. SyncThreshold]
    /\ mutex \in Threads \cup {Free}
    /\ reg \in [Threads -> 0 .. Expected]
    /\ pc \in [Threads -> {"next", "load", "store", "unlock", "sync", "add", "reset"}]
    /\ iter \in [Threads -> 0 .. Rounds]
    /\ printed \in [Kinds -> 0 .. Expected \cup {NotYet}]

(* Once the threads are joined the atomic and the approximate counter are
   exact: main.c prints the expected value next to what it got. *)
LockedCountersExact ==
    \A k \in {"atomic", "approx"} : printed[k] \in {NotYet, Expected}

(* How far the non-atomic counter can be off (main.c: "the threads step on one
   another and we get an inaccurate count"): a thread that loaded 0 long ago
   can throw away all but one increment of the others and then be overwritten
   in turn, but the last store of all always builds on at least one other. *)
NonatomicLoss ==
    printed["nonatomic"] # NotYet =>
        printed["nonatomic"] \in (IF NumThreads = 1 THEN Expected
                                  ELSE IF Rounds = 1 THEN 1 ELSE 2) .. Expected

(* The approximation the counter is named for: at any moment the global count
   has all increments but those still held per CPU, at most SyncThreshold for
   each.  An increment is made when the count has it, before the round ends. *)
Counted(t) == pc[t] \in {"unlock", "sync", "add", "reset"}
Made == [t \in Threads |-> iter[t] + IF Counted(t) THEN 1 ELSE 0]
GlobalLag ==
    kind = "approx" => Total(Made) - global_counter \in 0 .. NumThreads * SyncThreshold

(* Locked increments are never lost, the global count of the approximate
   counter lags by what the CPUs hold, and the counter without a lock loses no
   more than the races allow. *)
CountersExact == TypeOK /\ LockedCountersExact /\ GlobalLag /\ NonatomicLoss
=============================================================================
