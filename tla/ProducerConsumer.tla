-------------------------- MODULE ProducerConsumer --------------------------
(***************************************************************************)
(* The producer/consumer programs of ostep/homework/threads-cv:            *)
(* main-two-cvs-while.c with the main() of main-common.c.  Producers fill  *)
(* a circular buffer, consumers empty it, and when the producers are done  *)
(* main adds one end-of-stream marker per consumer.                        *)
(*                                                                         *)
(* A step is what a thread does between two of the code's pause points.    *)
(* pthread mutexes and condition variables are external: a wait releases   *)
(* the mutex and sleeps in one step, a signal wakes one sleeper if there   *)
(* is one, and a sleeper must take the mutex again; it may also wake       *)
(* without a signal, at most MaxSpurious times in a run.                   *)
(*                                                                         *)
(* A definition whose name ends in Faulty is a plausible mistake in the    *)
(* definition that follows it; no specification uses it.                   *)
(***************************************************************************)
EXTENDS Integers, FiniteSets

CONSTANTS NumProducers, NumConsumers,  \* -p and -c
          Max,                         \* -m, the size of the buffer
          Loops,                       \* -l, values each producer produces
          MaxSpurious                  \* bound on wakeups without a signal

ASSUME ProducerConsumerAssumption ==
    /\ NumProducers \in Nat
    /\ NumConsumers \in Nat
    /\ Max \in Nat \ {0}
    /\ Loops \in Nat \ {0}
    /\ MaxSpurious \in Nat

EMPTY == -2
END_OF_STREAM == -1

Producers == 0 .. NumProducers - 1
Consumers == NumProducers .. NumProducers + NumConsumers - 1
Main == -1
Fillers == Producers \cup {Main}
Threads == Fillers \cup Consumers
Free == -2               \* the owner of an unlocked mutex

Items == 0 .. NumProducers * Loops - 1
Slots == 0 .. Max - 1

VARIABLES buffer, fill_ptr, use_ptr, num_full,
          mutex,           \* the thread that holds m, or Free
          pc,              \* where each thread is
          iter,            \* rounds a thread's loop has completed
          tmp,             \* the value a consumer took last
          spurious,        \* wakeups without a signal so far
          status,          \* "running", "exited", or "error" after ensure
          delivered        \* how often each item was consumed

shared == <<buffer, fill_ptr, use_ptr, num_full>>
vars == <<shared, mutex, pc, iter, tmp, spurious, status, delivered>>

Init ==
    /\ buffer = [s \in Slots |-> EMPTY]
    /\ fill_ptr = 0
    /\ use_ptr = 0
    /\ num_full = 0
    /\ mutex = Free
    /\ pc = [t \in Threads |-> IF t = Main THEN "join" ELSE "lock"]
    /\ iter = [t \in Threads |-> 0]
    /\ tmp = [t \in Consumers |-> 0]
    /\ spurious = 0
    /\ status = "running"
    /\ delivered = [v \in Items |-> 0]

At(t, label) == status = "running" /\ pc[t] = label
GoTo(t, label) == pc' = [pc EXCEPT ![t] = label]

-----------------------------------------------------------------------------
(* A fresh turn of the loop, or the end of pthread_cond_wait.  The mistake is
   the "if" of main-two-cvs-if.c. *)
LockFaulty(t) ==
    /\ At(t, "lock") \/ At(t, "woken")
    /\ mutex = Free
    /\ mutex' = t
    /\ GoTo(t, IF pc[t] = "woken" THEN "work" ELSE "test")
    /\ UNCHANGED <<shared, iter, tmp, spurious, status, delivered>>
Lock(t) ==
    /\ At(t, "lock") \/ At(t, "woken")
    /\ mutex = Free
    /\ mutex' = t
    /\ GoTo(t, "test")
    /\ UNCHANGED <<shared, iter, tmp, spurious, status, delivered>>

MustWait(t) == num_full = IF t \in Consumers THEN 0 ELSE Max

Test(t) ==
    /\ At(t, "test")
    /\ ~MustWait(t)
    /\ GoTo(t, "work")
    /\ UNCHANGED <<shared, mutex, iter, tmp, spurious, status, delivered>>

(* Cond_wait, after which the loop tests again. *)
Wait(t) ==
    /\ At(t, "test")
    /\ MustWait(t)
    /\ mutex' = Free
    /\ GoTo(t, "wait")
    /\ UNCHANGED <<shared, iter, tmp, spurious, status, delivered>>

Wakeup(t) ==
    /\ At(t, "wait")
    /\ spurious < MaxSpurious
    /\ spurious' = spurious + 1
    /\ GoTo(t, "woken")
    /\ UNCHANGED <<shared, mutex, iter, tmp, status, delivered>>

(* base + i for a producer, the marker for main. *)
Value(t) == IF t = Main THEN END_OF_STREAM ELSE t * Loops + iter[t]

NextSlotFaulty(s) == IF s < Max THEN s + 1 ELSE 0
NextSlot(s) == (s + 1) % Max

(* ensure(): the process exits with an error unless the slot is as expected. *)
Ensure(ok, effect) ==
    IF ok THEN effect /\ UNCHANGED status
    ELSE status' = "error" /\ UNCHANGED <<shared, pc, tmp, delivered>>

DoFill(t) ==
    /\ At(t, "work")
    /\ t \in Fillers
    /\ Ensure(buffer[fill_ptr] = EMPTY,
              /\ buffer' = [buffer EXCEPT ![fill_ptr] = Value(t)]
              /\ fill_ptr' = NextSlot(fill_ptr)
              /\ num_full' = num_full + 1
              /\ GoTo(t, "signal")
              /\ UNCHANGED <<use_ptr, tmp, delivered>>)
    /\ UNCHANGED <<mutex, iter, spurious>>

Consumed(v) == [x \in Items |-> delivered[x] + IF x = v THEN 1 ELSE 0]

DoGetFaulty(t) ==
    /\ At(t, "work")
    /\ t \in Consumers
    /\ Ensure(buffer[use_ptr] # EMPTY,
              /\ tmp' = [tmp EXCEPT ![t] = buffer[use_ptr]]
              /\ delivered' = Consumed(buffer[use_ptr])
              /\ buffer' = [buffer EXCEPT ![use_ptr] = EMPTY]
              /\ use_ptr' = NextSlot(use_ptr)
              /\ GoTo(t, "signal")
              /\ UNCHANGED <<fill_ptr, num_full>>)
    /\ UNCHANGED <<mutex, iter, spurious>>
DoGet(t) ==
    /\ At(t, "work")
    /\ t \in Consumers
    /\ Ensure(buffer[use_ptr] # EMPTY,
              /\ tmp' = [tmp EXCEPT ![t] = buffer[use_ptr]]
              /\ delivered' = Consumed(buffer[use_ptr])
              /\ buffer' = [buffer EXCEPT ![use_ptr] = EMPTY]
              /\ use_ptr' = NextSlot(use_ptr)
              /\ num_full' = num_full - 1
              /\ GoTo(t, "signal")
              /\ UNCHANGED fill_ptr)
    /\ UNCHANGED <<mutex, iter, spurious>>

(* The threads sleeping on the condition variable that t signals: fillers
   wait on empty and signal fill, consumers the other way round.  The mistake
   is the single condition variable of main-one-cv-while.c. *)
SleepersFaulty(t) == {w \in Threads : pc[w] = "wait"}
Sleepers(t) ==
    {w \in Threads : pc[w] = "wait" /\ (w \in Fillers) # (t \in Fillers)}

Signal(t) ==
    /\ At(t, "signal")
    /\ IF Sleepers(t) = {}
       THEN GoTo(t, "unlock")
       ELSE \E w \in Sleepers(t) :
              pc' = [pc EXCEPT ![w] = "woken", ![t] = "unlock"]
    /\ UNCHANGED <<shared, mutex, iter, tmp, spurious, status, delivered>>

(* Is the loop over after this round? *)
Finished(t) ==
    CASE t \in Producers -> iter[t] + 1 = Loops
      [] t \in Consumers -> tmp[t] = END_OF_STREAM
      [] t = Main -> iter[t] + 1 = NumConsumers

Unlock(t) ==
    /\ At(t, "unlock")
    /\ mutex' = Free
    /\ iter' = [iter EXCEPT ![t] = @ + 1]
    /\ GoTo(t, IF Finished(t) THEN "done" ELSE "lock")
    /\ UNCHANGED <<shared, tmp, spurious, status, delivered>>

(* main: Pthread_join of the producers, then the end-of-stream loop ... *)
JoinProducersFaulty ==
    /\ At(Main, "join")
    /\ GoTo(Main, IF NumConsumers = 0 THEN "done" ELSE "lock")
    /\ UNCHANGED <<shared, mutex, iter, tmp, spurious, status, delivered>>
JoinProducers ==
    /\ At(Main, "join")
    /\ \A p \in Producers : pc[p] = "done"
    /\ GoTo(Main, IF NumConsumers = 0 THEN "done" ELSE "lock")
    /\ UNCHANGED <<shared, mutex, iter, tmp, spurious, status, delivered>>

(* ... and Pthread_join of the consumers. *)
JoinConsumers ==
    /\ At(Main, "done")
    /\ \A c \in Consumers : pc[c] = "done"
    /\ status' = "exited"
    /\ UNCHANGED <<shared, mutex, pc, iter, tmp, spurious, delivered>>

Work(t) ==
    Lock(t) \/ Test(t) \/ Wait(t) \/ DoFill(t) \/ DoGet(t) \/ Signal(t) \/ Unlock(t)

Ended == status # "running" /\ UNCHANGED vars

Next ==
    \/ \E t \in Threads : Work(t) \/ Wakeup(t)
    \/ JoinProducers
    \/ JoinConsumers
    \/ Ended

Spec == Init /\ [][Next]_vars

(* Every thread that can go on does so: the kernel runs all of them and a
   mutex that is free is granted.  All loops are finite, so that weak fairness
   is enough although a pthread mutex is not fair. *)
FairSpec ==
    /\ Spec
    /\ \A t \in Threads : WF_vars(Work(t))
    /\ WF_vars(JoinProducers)
    /\ WF_vars(JoinConsumers)

-----------------------------------------------------------------------------
TypeOK ==
    /\ buffer \in [Slots -> Items \cup {EMPTY, END_OF_STREAM}]
    /\ fill_ptr \in Slots
    /\ use_ptr \in Slots
    /\ num_full \in 0 .. Max
    /\ mutex \in Threads \cup {Free}
    /\ pc \in [Threads -> {"join", "lock", "test", "wait", "woken", "work",
                           "signal", "unlock", "done"}]
    /\ iter \in [Threads -> Nat]
    /\ tmp \in [Consumers -> Items \cup {0, END_OF_STREAM}]
    /\ spurious \in 0 .. MaxSpurious
    /\ status \in {"running", "exited", "error"}
    /\ delivered \in [Items -> Nat]

(* Neither ensure() of do_fill and do_get ever fails: no value is overwritten
   before it is consumed and no empty slot is consumed. *)
NoEnsureFailure == status # "error"

(* When the process exits every item was consumed exactly once and nothing,
   marker or item, is left in the buffer. *)
AllDelivered ==
    status = "exited" =>
        /\ \A v \in Items : delivered[v] = 1
        /\ \A s \in Slots : buffer[s] = EMPTY

(* threads-cv/README.md calls main-two-cvs-while.c "the correct version": all
   threads finish, none sleeps for ever on a signal that went to another. *)
Terminates == <>(status = "exited")

(* Indices, empty slots and the mutex implement a bounded FIFO queue. *)
Queue == INSTANCE BoundedQueue WITH
    Values <- Items \cup {END_OF_STREAM},
    Capacity <- Max,
    Takers <- Consumers,
    queue <- [k \in 1 .. num_full |-> buffer[(use_ptr + k - 1) % Max]],
    taken <- tmp

ImplementsQueue == Queue!Spec
=============================================================================
