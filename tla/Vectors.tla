------------------------------- MODULE Vectors -------------------------------
(***************************************************************************)
(* The vector programs of ostep/homework/threads-bugs: threads add one     *)
(* vector to another with vector_add, in five versions that differ in how  *)
(* they lock the two vectors.  With -d every other thread adds in the      *)
(* opposite direction, with -p each thread has vectors of its own.         *)
(*                                                                         *)
(* A definition whose name ends in Faulty is a plausible mistake in the    *)
(* definition that follows it; no specification uses it.                   *)
(***************************************************************************)
EXTENDS Integers

CONSTANTS num_threads,
          loops,
          VECTOR_SIZE

ASSUME VectorsAssumption ==
    /\ num_threads \in Nat
    /\ loops \in Nat
    /\ VECTOR_SIZE \in Nat \ {0}

VARIABLE vec

Workers == 0 .. num_threads - 1
Versions == {"deadlock", "global-order", "try-wait", "avoid-hold-and-wait", "nolock"}
Locked == Versions \ {"nolock"}
Vectors == 0 .. 2 * num_threads - 1
Unlocked == -1

(* The vectors worker passes to vector_add. *)
Dst(v, t) ==
    (IF v.parallel THEN 2 * t ELSE 0) + (IF v.cause_deadlock /\ t % 2 = 1 THEN 1 ELSE 0)
Src(v, t) ==
    (IF v.parallel THEN 2 * t ELSE 0) + (IF v.cause_deadlock /\ t % 2 = 1 THEN 0 ELSE 1)

(* vector_init fills vector x with x.  The history variables whole and turns
   say what the vectors would hold if every addition were one step, taken as
   soon as both locks are held, and how many each worker has made. *)
InitialValues == [x \in Vectors |-> [i \in 1 .. VECTOR_SIZE |-> x]]

InitialVectors ==
    {[version        |-> version,
      parallel       |-> p,
      cause_deadlock |-> d,
      values         |-> InitialValues,
      lock           |-> [x \in Vectors |-> Unlocked],
      global         |-> Unlocked,
      pc             |-> [t \in Workers |-> "call"],
      i              |-> [t \in Workers |-> 1],
      reg            |-> [t \in Workers |-> 0],
      round          |-> [t \in Workers |-> 0],
      whole          |-> InitialValues,
      turns          |-> [t \in Workers |-> 0]] :
         version \in Versions, p \in BOOLEAN, d \in BOOLEAN}

VectorsInit == vec \in InitialVectors

-----------------------------------------------------------------------------
(* The two locks in the order the version takes them. *)
FirstFaulty(v, t) == Dst(v, t)
First(v, t) ==
    IF v.version = "global-order" /\ Dst(v, t) > Src(v, t) THEN Src(v, t) ELSE Dst(v, t)
Second(v, t) == (Dst(v, t) + Src(v, t)) - First(v, t)

At(t, label) == vec.pc[t] = label

Go(v, t, label) == [v EXCEPT !.pc[t] = label]

call(t) ==
    /\ At(t, "call")
    /\ vec.round[t] < loops
    /\ vec' = Go(vec, t, CASE vec.version = "avoid-hold-and-wait" -> "global"
                           [] vec.version = "nolock" -> "load"
                           [] OTHER -> "first")

TakeGlobal(t) ==
    /\ At(t, "global")
    /\ vec.global = Unlocked
    /\ vec' = [Go(vec, t, "first") EXCEPT !.global = t]

LockFirst(t) ==
    /\ At(t, "first")
    /\ vec.lock[First(vec, t)] = Unlocked
    /\ vec' = [Go(vec, t, "second") EXCEPT !.lock[First(vec, t)] = t]

LockSecond(t) ==
    /\ At(t, "second")
    /\ vec.lock[Second(vec, t)] = Unlocked
    /\ vec' = [Go(vec, t, "add") EXCEPT
                 !.lock[Second(vec, t)] = t,
                 !.whole[Dst(vec, t)] =
                     [i \in 1 .. VECTOR_SIZE |-> @[i] + vec.whole[Src(vec, t)][i]],
                 !.turns[t] = @ + 1,
                 !.global = IF vec.version = "avoid-hold-and-wait" THEN Unlocked ELSE @]

(* A trylock that fails gives the first lock back; at the top it spins. *)
Retry(t) ==
    /\ At(t, "second")
    /\ vec.version = "try-wait"
    /\ vec.lock[Second(vec, t)] # Unlocked
    /\ vec' = [Go(vec, t, "first") EXCEPT !.lock[First(vec, t)] = Unlocked]

(* One element; both vectors are locked. *)
Add(t) ==
    LET d == Dst(vec, t)
        s == Src(vec, t)
        i == vec.i[t]
    IN
    /\ At(t, "add")
    /\ vec' = [Go(vec, t, IF i = VECTOR_SIZE THEN "unlock dst" ELSE "add") EXCEPT
                 !.values[d][i] = @ + vec.values[s][i],
                 !.i[t] = (i % VECTOR_SIZE) + 1]

UnlockFirst(t) ==
    LET x == IF vec.version = "global-order" THEN Src(vec, t) ELSE Dst(vec, t) IN
    /\ At(t, "unlock dst")
    /\ vec' = [Go(vec, t, "unlock src") EXCEPT !.lock[x] = Unlocked]

UnlockSecond(t) ==
    LET x == IF vec.version = "global-order" THEN Dst(vec, t) ELSE Src(vec, t) IN
    /\ At(t, "unlock src")
    /\ vec' = [Go(vec, t, "call") EXCEPT !.lock[x] = Unlocked, !.round[t] = @ + 1]

(* Without locks: the source is loaded, then fetch_and_add is atomic. *)
LoadSrc(t) ==
    /\ At(t, "load")
    /\ vec' = [Go(vec, t, "fetch_and_add") EXCEPT !.reg[t] = vec.values[Src(vec, t)][vec.i[t]]]

fetch_and_add(t) ==
    LET i == vec.i[t]
        last == i = VECTOR_SIZE
    IN
    /\ At(t, "fetch_and_add")
    /\ vec' = [Go(vec, t, IF last THEN "call" ELSE "load") EXCEPT
                 !.values[Dst(vec, t)][i] = @ + vec.reg[t],
                 !.i[t] = (i % VECTOR_SIZE) + 1,
                 !.round[t] = IF last THEN @ + 1 ELSE @]

Finished(t) == At(t, "call") /\ vec.round[t] = loops

(* What a thread can be blocked by. *)
Waits(t) ==
    \/ At(t, "global") /\ vec.global # Unlocked
    \/ At(t, "first") /\ vec.lock[First(vec, t)] # Unlocked
    \/ At(t, "second") /\ vec.version # "try-wait" /\ vec.lock[Second(vec, t)] # Unlocked

Stuck == (\E t \in Workers : ~Finished(t)) /\ \A t \in Workers : Finished(t) \/ Waits(t)

VectorsEnded == (Stuck \/ \A t \in Workers : Finished(t)) /\ UNCHANGED vec

vector_add(t) ==
    \/ call(t) \/ TakeGlobal(t) \/ LockFirst(t) \/ LockSecond(t) \/ Retry(t)
    \/ Add(t) \/ UnlockFirst(t) \/ UnlockSecond(t) \/ LoadSrc(t) \/ fetch_and_add(t)

VectorsNext == (\E t \in Workers : vector_add(t)) \/ VectorsEnded

VectorsSpec == VectorsInit /\ [][VectorsNext]_vec

-----------------------------------------------------------------------------
VectorsTypeOK ==
    /\ vec.version \in Versions
    /\ vec.lock \in [Vectors -> Workers \cup {Unlocked}]
    /\ vec.global \in Workers \cup {Unlocked}
    /\ vec.round \in [Workers -> 0 .. loops]

(* Only the first version deadlocks, and only when two threads share vectors
   and add in opposite directions: a trylock, an order or a lock around the
   acquisition is enough. *)
DeadlockOnlyByOrder ==
    Stuck => vec.version = "deadlock" /\ vec.cause_deadlock /\ ~vec.parallel

(* Additions are atomic: a vector that nobody has locked holds what whole
   additions, one after another, leave in it, and every worker has made its
   own number of them when all have finished. *)
Serializable ==
    vec.version \in Locked =>
        /\ \A x \in Vectors : vec.lock[x] = Unlocked => vec.values[x] = vec.whole[x]
        /\ \A t \in Workers : Finished(t) => vec.turns[t] = loops

(* What the locking versions of vector_add promise: no deadlock but by opposite
   order, and additions that are atomic. *)
AddsSafely == VectorsTypeOK /\ DeadlockOnlyByOrder /\ Serializable
=============================================================================
