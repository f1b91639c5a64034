------------------------------ MODULE Checksum ------------------------------
(***************************************************************************)
(* The checksums of ostep/homework/file-integrity/checksum.py, byte by     *)
(* byte: sum, exclusive or and Fletcher.                                   *)
(***************************************************************************)
EXTENDS Integers, Sequences, SequencesExt, Bitwise

CONSTANTS Values,       \* bytes
          MaxSize       \* of the data

VARIABLE check

Start == [add |-> 0, xor |-> 0, fletcher_a |-> 0, fletcher_b |-> 0]

Summed(c, value) ==
    LET a == (c.fletcher_a + value) % 255
    IN  [add        |-> (c.add + value) % 256,
         xor        |-> c.xor ^^ value,
         fletcher_a |-> a,
         fletcher_b |-> (c.fletcher_b + a) % 255]

Init == check = [values |-> <<>>, sums |-> Start]

AddByte(value) ==
    /\ Len(check.values) < MaxSize
    /\ check' = [values |-> Append(check.values, value), sums |-> Summed(check.sums, value)]

Ended == Len(check.values) = MaxSize /\ UNCHANGED check

Next == (\E value \in Values : AddByte(value)) \/ Ended

-----------------------------------------------------------------------------
Of(values) == FoldLeft(Summed, Start, values)
Fletcher(c) == <<c.fletcher_a, c.fletcher_b>>

(* To Fletcher's sums 0 and 255 are the same. *)
Alike(v, w) == v % 255 = w % 255

(* A changed byte changes the sum and the exclusive or, and Fletcher's sums
   unless it is 0 for 255. *)
ChangeShows ==
    \A k \in DOMAIN check.values, v \in Values :
        LET other == Of([check.values EXCEPT ![k] = v]) IN
        v # check.values[k] =>
        /\ other.add # check.sums.add
        /\ other.xor # check.sums.xor
        /\ (Fletcher(other) = Fletcher(check.sums)) <=> Alike(v, check.values[k])

(* Only Fletcher's see that two bytes changed places. *)
SwapShows ==
    \A j, k \in DOMAIN check.values :
        LET x == check.values[j]
            y == check.values[k]
            other == Of([check.values EXCEPT ![j] = y, ![k] = x])
        IN  /\ other.add = check.sums.add
            /\ other.xor = check.sums.xor
            /\ (Fletcher(other) = Fletcher(check.sums)) <=> (((j - k) * (x - y)) % 255 = 0)

CorruptionShows == ChangeShows /\ SwapShows
=============================================================================
