---------------------------- MODULE BoundedQueue ----------------------------
(***************************************************************************)
(* What the shared buffer of the producer/consumer programs promises: a    *)
(* first-in first-out queue of at most Capacity values.  There are no      *)
(* locks, condition variables, indices or empty slots here.                *)
(***************************************************************************)
EXTENDS Naturals, Sequences

CONSTANTS Values, Capacity, Takers

VARIABLES queue,
          taken   \* the value each taker took last

vars == <<queue, taken>>

Init == queue = <<>> /\ taken \in [Takers -> {0}]

Put(v) ==
    /\ Len(queue) < Capacity
    /\ queue' = Append(queue, v)
    /\ UNCHANGED taken

Take(t) ==
    /\ queue # <<>>
    /\ taken' = [taken EXCEPT ![t] = Head(queue)]
    /\ queue' = Tail(queue)

Next == (\E v \in Values : Put(v)) \/ (\E t \in Takers : Take(t))

Spec == Init /\ [][Next]_vars
=============================================================================
