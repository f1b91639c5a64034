---------------------------- MODULE MallocProofs ----------------------------
(***************************************************************************)
(* The free-space manager never loses or doubles a byte of the heap, for   *)
(* every heap, header, alignment, search policy, list order and sequence   *)
(* of operations.                                                          *)
(***************************************************************************)
EXTENDS Malloc, FiniteSetTheorems, SequenceTheorems, FunctionTheorems, NaturalsInduction,
        WellFoundedInduction, TLAPS

-----------------------------------------------------------------------------
(* Least and greatest elements.  An induction over the list is an argument
   about the least place where something fails. *)
LEMMA LeastIn ==
    ASSUME NEW S \in SUBSET Nat, S # {}
    PROVE  \E x \in S : \A y \in S : x <= y
<1>1. PICK x \in S : \A y \in S : ~(<<y, x>> \in OpToRel(<, Nat))
  BY NatLessThanWellFounded, WFMin
<1>2. ASSUME NEW y \in S PROVE x <= y
  <2>1. x \in Nat /\ y \in Nat
    OBVIOUS
  <2>2. ~(y < x)
    BY <1>1, <2>1, Zenon DEF OpToRel
  <2> QED
    BY <2>1, <2>2
<1> QED
  BY <1>2

LEMMA GreatestIn ==
    ASSUME NEW n \in Nat, NEW S \in SUBSET (0 .. n), S # {}
    PROVE  Max(S) \in S /\ \A y \in S : y <= Max(S)
<1> DEFINE T == {n - y : y \in S}
<1>1. T \in SUBSET Nat /\ T # {}
  <2>1. \A y \in S : n - y \in Nat
    OBVIOUS
  <2>2. T \in SUBSET Nat
    BY <2>1
  <2>3. T # {}
    <3>1. PICK y \in S : TRUE
      OBVIOUS
    <3>2. n - y \in T
      BY <3>1
    <3> QED
      BY <3>2
  <2> QED
    BY <2>2, <2>3
<1>2. PICK z \in T : \A y \in T : z <= y
  BY <1>1, LeastIn
<1>3. PICK x \in S : z = n - x
  OBVIOUS
<1>4. \A y \in S : x >= y
  <2> SUFFICES ASSUME NEW y \in S PROVE x >= y
    OBVIOUS
  <2>1. n - y \in T /\ x \in Nat /\ y \in Nat
    OBVIOUS
  <2> QED
    BY <1>2, <1>3, <2>1
<1>5. \E m \in S : \A y \in S : m >= y
  BY <1>4
<1>6. Max(S) \in S /\ \A y \in S : Max(S) >= y
  BY <1>5 DEF Max
<1> QED
  BY <1>6

-----------------------------------------------------------------------------
(* Elements of a finite set are ranked by how many are at or below them: every
   rank from 1 to the size of the set is taken by one element. *)
LEMMA Ranks ==
    ASSUME NEW S, IsFiniteSet(S), NEW B \in [S -> SUBSET S],
           \A i \in S : i \in B[i],
           \A i, j \in S : i \in B[j] \/ j \in B[i],
           \A i, j \in S : i \in B[j] /\ j \in B[i] => i = j,
           \A i, j \in S : j \in B[i] => B[j] \subseteq B[i]
    PROVE  /\ \A i \in S : Cardinality(B[i]) \in 1 .. Cardinality(S)
           /\ \A i, j \in S : Cardinality(B[i]) < Cardinality(B[j]) <=> i # j /\ i \in B[j]
           /\ \A k \in 1 .. Cardinality(S) : \E i \in S : Cardinality(B[i]) = k
<1>1. Cardinality(S) \in Nat
  BY FS_CardinalityType
<1>2. \A i \in S : Cardinality(B[i]) \in 1 .. Cardinality(S) /\ IsFiniteSet(B[i])
  <2> SUFFICES ASSUME NEW i \in S
               PROVE  Cardinality(B[i]) \in 1 .. Cardinality(S) /\ IsFiniteSet(B[i])
    OBVIOUS
  <2>1. B[i] \in SUBSET S /\ B[i] # {}
    OBVIOUS
  <2>2. IsFiniteSet(B[i]) /\ Cardinality(B[i]) <= Cardinality(S)
    BY <2>1, FS_Subset
  <2>3. Cardinality(B[i]) \in Nat /\ Cardinality(B[i]) # 0
    BY <2>1, <2>2, FS_CardinalityType, FS_EmptySet
  <2> QED
    BY <1>1, <2>2, <2>3
<1>3. ASSUME NEW i \in S, NEW j \in S, i # j, i \in B[j]
      PROVE  Cardinality(B[i]) < Cardinality(B[j])
  <2>1. B[i] \in SUBSET B[j] /\ B[i] # B[j]
    <3>1. j \notin B[i]
      BY <1>3
    <3> QED
      BY <1>3, <3>1
  <2>2. Cardinality(B[i]) <= Cardinality(B[j]) /\ Cardinality(B[j]) # Cardinality(B[i])
    BY <1>2, <2>1, FS_Subset
  <2> QED
    BY <1>2, <2>2
<1>4. \A i, j \in S : Cardinality(B[i]) < Cardinality(B[j]) <=> i # j /\ i \in B[j]
  <2> SUFFICES ASSUME NEW i \in S, NEW j \in S, Cardinality(B[i]) < Cardinality(B[j])
               PROVE  i # j /\ i \in B[j]
    BY <1>3
  <2>1. i # j
    BY <1>2
  <2>2. ~(Cardinality(B[j]) < Cardinality(B[i]))
    BY <1>2
  <2>3. j \notin B[i]
    BY <1>3, <2>1, <2>2
  <2> QED
    BY <2>1, <2>3
<1>5. \A k \in 1 .. Cardinality(S) : \E i \in S : Cardinality(B[i]) = k
  <2> DEFINE f == [i \in S |-> Cardinality(B[i])]
             T == 1 .. Cardinality(S)
  <2>1. f \in [S -> T]
    BY <1>2
  <2>2. \A i, j \in S : f[i] = f[j] => i = j
    <3> SUFFICES ASSUME NEW i \in S, NEW j \in S, f[i] = f[j], i # j PROVE FALSE
      OBVIOUS
    <3>1. Cardinality(B[i]) = Cardinality(B[j])
      OBVIOUS
    <3>2. i \in B[j] \/ j \in B[i]
      OBVIOUS
    <3> QED
      BY <1>2, <1>3, <3>1, <3>2
  <2>3. f \in Injection(S, T)
    BY <2>1, <2>2 DEF Injection, IsInjective
  <2>4. IsFiniteSet(T) /\ Cardinality(T) = Cardinality(S)
    BY <1>1, FS_Interval
  <2>5. f \in Surjection(S, T)
    BY <2>3, <2>4, FS_Injection
  <2> QED
    BY <2>5 DEF Surjection
<1> QED
  BY <1>2, <1>4, <1>5

-----------------------------------------------------------------------------
(* Free lists. *)
Entries == Nat \X Nat
Positive(list) == \A i \in DOMAIN list : list[i][2] > 0
Covered(list, b) == \E i \in DOMAIN list : b \in Bytes(list[i])
Disjoint(list) ==
    \A i, j \in DOMAIN list : \A b \in Nat : b \in Bytes(list[i]) /\ b \in Bytes(list[j]) => i = j

LEMMA EntryAt ==
    ASSUME NEW list \in Seq(Entries)
    PROVE  /\ Len(list) \in Nat /\ DOMAIN list = 1 .. Len(list)
           /\ \A i \in DOMAIN list : list[i][1] \in Nat /\ list[i][2] \in Nat
           /\ \A i \in DOMAIN list : \A b : b \in Bytes(list[i]) <=>
                b \in Nat /\ list[i][1] <= b /\ b < End(list[i])
<1>1. Len(list) \in Nat /\ DOMAIN list = 1 .. Len(list) /\ \A i \in DOMAIN list : list[i] \in Entries
  OBVIOUS
<1>2. \A i \in DOMAIN list : list[i][1] \in Nat /\ list[i][2] \in Nat
  BY <1>1 DEF Entries
<1>3. ASSUME NEW i \in DOMAIN list, NEW b
      PROVE  b \in Bytes(list[i]) <=> b \in Nat /\ list[i][1] <= b /\ b < End(list[i])
  BY <1>2 DEF Bytes, End
<1> QED
  BY <1>1, <1>2, <1>3

(* Two lists with the same entries at other places. *)
Rearranged(list, new) ==
    /\ new \in Seq(Entries)
    /\ \E q \in [DOMAIN new -> DOMAIN list] :
         /\ \A k, l \in DOMAIN new : q[k] = q[l] => k = l
         /\ \A i \in DOMAIN list : \E k \in DOMAIN new : q[k] = i
         /\ \A k \in DOMAIN new : new[k] = list[q[k]]

(* The same bytes, each in one entry. *)
SameBytes(list, new) ==
    /\ new \in Seq(Entries)
    /\ Disjoint(new)
    /\ \A b \in Nat : Covered(new, b) <=> Covered(list, b)
    /\ Positive(list) => Positive(new)

LEMMA RearrangedBytes ==
    ASSUME NEW list \in Seq(Entries), Disjoint(list), NEW new, Rearranged(list, new)
    PROVE  SameBytes(list, new)
<1>1. PICK q \in [DOMAIN new -> DOMAIN list] :
         /\ \A k, l \in DOMAIN new : q[k] = q[l] => k = l
         /\ \A i \in DOMAIN list : \E k \in DOMAIN new : q[k] = i
         /\ \A k \in DOMAIN new : new[k] = list[q[k]]
  BY DEF Rearranged
<1>2. Disjoint(new)
  BY <1>1 DEF Disjoint
<1>3. \A b \in Nat : Covered(new, b) <=> Covered(list, b)
  BY <1>1 DEF Covered
<1>4. Positive(list) => Positive(new)
  BY <1>1 DEF Positive
<1> QED
  BY <1>2, <1>3, <1>4 DEF SameBytes, Rearranged

(* Sorting rearranges, and sorts. *)
LEMMA Sorts ==
    ASSUME NEW list \in Seq(Entries), NEW keys \in [DOMAIN list -> Int]
    PROVE  /\ Rearranged(list, SortedBy(list, keys))
           /\ DOMAIN SortedBy(list, keys) = DOMAIN list
           /\ \E q \in [DOMAIN list -> DOMAIN list] :
                /\ \A k \in DOMAIN list : SortedBy(list, keys)[k] = list[q[k]]
                /\ \A k, l \in DOMAIN list : k < l => keys[q[k]] <= keys[q[l]]
<1> DEFINE n == Len(list)
           S == 1 .. n
           B == [i \in S |-> {j \in S : keys[j] < keys[i] \/ (keys[j] = keys[i] /\ j <= i)}]
           q == [k \in S |-> CHOOSE i \in S : Position(keys, i) = k]
           new == SortedBy(list, keys)
<1>1. n \in Nat /\ DOMAIN list = S /\ DOMAIN keys = S /\ \A i \in S : keys[i] \in Int
  OBVIOUS
<1> HIDE DEF n
<1>2. IsFiniteSet(S) /\ Cardinality(S) = n
  <2>1. IsFiniteSet(1 .. n) /\ Cardinality(1 .. n) = IF 1 > n THEN 0 ELSE n - 1 + 1
    BY <1>1, FS_Interval
  <2> QED
    BY <1>1, <2>1
<1>3. \A i \in S : Position(keys, i) = Cardinality(B[i])
  BY <1>1 DEF Position
<1>4. /\ B \in [S -> SUBSET S]
      /\ \A i, j \in S : j \in B[i] <=> keys[j] < keys[i] \/ (keys[j] = keys[i] /\ j <= i)
  OBVIOUS
<1> HIDE DEF B, S
<1>5. /\ \A i \in S : i \in B[i]
      /\ \A i, j \in S : i \in B[j] \/ j \in B[i]
      /\ \A i, j \in S : i \in B[j] /\ j \in B[i] => i = j
      /\ \A i, j \in S : j \in B[i] => B[j] \subseteq B[i]
  <2>1. \A i \in S : i \in Int
    BY <1>1 DEF S
  <2>2. \A i, j \in S : j \in B[i] => B[j] \subseteq B[i]
    <3> SUFFICES ASSUME NEW i \in S, NEW j \in S, j \in B[i], NEW m \in B[j] PROVE m \in B[i]
      OBVIOUS
    <3>1. m \in S
      BY <1>4
    <3> QED
      BY <1>1, <1>4, <2>1, <3>1, SMTT(30)
  <2> QED
    BY <1>1, <1>4, <2>1, <2>2
<1>6. /\ \A i \in S : Cardinality(B[i]) \in 1 .. n
      /\ \A i, j \in S : Cardinality(B[i]) < Cardinality(B[j]) <=> i # j /\ i \in B[j]
      /\ \A k \in 1 .. n : \E i \in S : Cardinality(B[i]) = k
  <2>1. /\ \A i \in S : Cardinality(B[i]) \in 1 .. Cardinality(S)
        /\ \A i, j \in S : Cardinality(B[i]) < Cardinality(B[j]) <=> i # j /\ i \in B[j]
        /\ \A k \in 1 .. Cardinality(S) : \E i \in S : Cardinality(B[i]) = k
    BY <1>2, <1>4, <1>5, Ranks
  <2> QED
    BY <1>2, <2>1
<1>7. \A k \in S : q[k] \in S /\ Cardinality(B[q[k]]) = k
  <2> SUFFICES ASSUME NEW k \in S PROVE q[k] \in S /\ Cardinality(B[q[k]]) = k
    OBVIOUS
  <2>1. \E i \in S : Position(keys, i) = k
    BY <1>3, <1>6 DEF S
  <2>2. q[k] \in S /\ Position(keys, q[k]) = k
    BY <2>1
  <2> QED
    BY <1>3, <2>2
<1>8. q \in [S -> S] /\ DOMAIN new = S /\ \A k \in S : new[k] = list[q[k]]
  BY <1>1, <1>7 DEF SortedBy
<1> HIDE DEF q, new
<1>9. \A k, l \in S : q[k] = q[l] => k = l
  BY <1>7
<1>10. \A i \in S : \E k \in S : q[k] = i
  <2> SUFFICES ASSUME NEW i \in S PROVE \E k \in S : q[k] = i
    OBVIOUS
  <2> DEFINE k == Cardinality(B[i])
  <2>1. k \in S
    BY <1>6 DEF S
  <2>2. Cardinality(B[q[k]]) = Cardinality(B[i]) /\ q[k] \in S
    BY <1>7, <2>1
  <2>3. q[k] = i
    <3>1. ~(Cardinality(B[q[k]]) < Cardinality(B[i])) /\ ~(Cardinality(B[i]) < Cardinality(B[q[k]]))
      BY <1>6, <2>2
    <3> QED
      BY <1>5, <1>6, <2>2, <3>1
  <2> QED
    BY <2>1, <2>3
<1>11. \A k, l \in S : k < l => keys[q[k]] <= keys[q[l]]
  <2> SUFFICES ASSUME NEW k \in S, NEW l \in S, k < l PROVE keys[q[k]] <= keys[q[l]]
    OBVIOUS
  <2>1. q[k] \in S /\ q[l] \in S /\ q[k] \in B[q[l]]
    BY <1>6, <1>7
  <2>2. keys[q[k]] \in Int /\ keys[q[l]] \in Int
    BY <1>1, <2>1
  <2>3. keys[q[k]] < keys[q[l]] \/ keys[q[k]] = keys[q[l]]
    BY <1>4, <2>1
  <2> QED
    BY <2>2, <2>3
<1>12. new \in Seq(Entries)
  <2>1. new \in [1 .. n -> Entries]
    <3>1. \A i \in S : list[i] \in Entries
      BY <1>1
    <3>2. new = [k \in S |-> list[q[k]]]
      BY <1>1 DEF new, q, SortedBy
    <3> QED
      BY <1>8, <3>1, <3>2 DEF S
  <2> QED
    BY <1>1, <2>1, SeqDef
<1>13. Rearranged(list, new)
  <2>1. q \in [DOMAIN new -> DOMAIN list]
    BY <1>1, <1>8
  <2>2. /\ \A k, l \in DOMAIN new : q[k] = q[l] => k = l
        /\ \A i \in DOMAIN list : \E k \in DOMAIN new : q[k] = i
        /\ \A k \in DOMAIN new : new[k] = list[q[k]]
    BY <1>1, <1>8, <1>9, <1>10
  <2> QED
    BY <1>12, <2>1, <2>2, Zenon DEF Rearranged
<1>14. \E p \in [DOMAIN list -> DOMAIN list] :
          /\ \A k \in DOMAIN list : new[k] = list[p[k]]
          /\ \A k, l \in DOMAIN list : k < l => keys[p[k]] <= keys[p[l]]
  <2>1. /\ q \in [DOMAIN list -> DOMAIN list]
        /\ \A k \in DOMAIN list : new[k] = list[q[k]]
        /\ \A k, l \in DOMAIN list : k < l => keys[q[k]] <= keys[q[l]]
    BY <1>1, <1>8, <1>11
  <2> QED
    BY <2>1, Zenon
<1> QED
  BY <1>1, <1>8, <1>13, <1>14 DEF new

-----------------------------------------------------------------------------
(* The runs of a list are numbered from left to right. *)
LEMMA RunsNumbered ==
    ASSUME NEW list \in Seq(Entries)
    PROVE  /\ Cardinality(RunStarts(list)) \in Nat
           /\ \A k \in 1 .. Cardinality(RunStarts(list)) : RunStart(list, k) \in RunStarts(list)
           /\ \A k, l \in 1 .. Cardinality(RunStarts(list)) :
                k < l => RunStart(list, k) < RunStart(list, l)
           /\ \A i \in RunStarts(list) :
                \E k \in 1 .. Cardinality(RunStarts(list)) : RunStart(list, k) = i
<1> DEFINE S == RunStarts(list)
           B == [i \in S |-> {j \in S : j <= i}]
           n == Cardinality(S)
<1>1. S \in SUBSET (1 .. Len(list)) /\ Len(list) \in Nat
  BY DEF RunStarts
<1>2. IsFiniteSet(S)
  <2>1. IsFiniteSet(1 .. Len(list))
    BY <1>1, FS_Interval
  <2> QED
    BY <1>1, <2>1, FS_Subset
<1>3. n \in Nat /\ \A i \in S : i \in Int
  BY <1>1, <1>2, FS_CardinalityType
<1>4. B \in [S -> SUBSET S] /\ \A i, j \in S : j \in B[i] <=> j <= i
  OBVIOUS
<1>5. \A k \in 1 .. n : RunStart(list, k) = CHOOSE i \in S : Cardinality(B[i]) = k
  BY DEF RunStart
<1> HIDE DEF B, S
<1>6. /\ \A i \in S : i \in B[i]
      /\ \A i, j \in S : i \in B[j] \/ j \in B[i]
      /\ \A i, j \in S : i \in B[j] /\ j \in B[i] => i = j
      /\ \A i, j \in S : j \in B[i] => B[j] \subseteq B[i]
  <2>1. \A i, j \in S : j \in B[i] => B[j] \subseteq B[i]
    <3> SUFFICES ASSUME NEW i \in S, NEW j \in S, j \in B[i], NEW m \in B[j] PROVE m \in B[i]
      OBVIOUS
    <3>1. m \in S
      BY <1>4
    <3> QED
      BY <1>3, <1>4, <3>1
  <2> QED
    BY <1>3, <1>4, <2>1
<1>7. /\ \A i \in S : Cardinality(B[i]) \in 1 .. n
      /\ \A i, j \in S : Cardinality(B[i]) < Cardinality(B[j]) <=> i # j /\ i \in B[j]
      /\ \A k \in 1 .. n : \E i \in S : Cardinality(B[i]) = k
  BY <1>2, <1>4, <1>6, Ranks
<1>8. \A k \in 1 .. n : RunStart(list, k) \in S /\ Cardinality(B[RunStart(list, k)]) = k
  BY <1>5, <1>7
<1>9. \A k, l \in 1 .. n : k < l => RunStart(list, k) < RunStart(list, l)
  <2> SUFFICES ASSUME NEW k \in 1 .. n, NEW l \in 1 .. n, k < l
               PROVE  RunStart(list, k) < RunStart(list, l)
    OBVIOUS
  <2>1. /\ RunStart(list, k) \in S /\ RunStart(list, l) \in S
        /\ Cardinality(B[RunStart(list, k)]) < Cardinality(B[RunStart(list, l)])
    BY <1>8
  <2>2. RunStart(list, k) # RunStart(list, l) /\ RunStart(list, k) \in B[RunStart(list, l)]
    BY <1>7, <2>1
  <2> QED
    BY <1>3, <1>4, <2>1, <2>2
<1>10. \A i \in S : \E k \in 1 .. n : RunStart(list, k) = i
  <2> SUFFICES ASSUME NEW i \in S PROVE \E k \in 1 .. n : RunStart(list, k) = i
    OBVIOUS
  <2> DEFINE k == Cardinality(B[i])
             j == RunStart(list, k)
  <2>1. k \in 1 .. n
    BY <1>7
  <2>2. j \in S /\ Cardinality(B[j]) = k
    BY <1>8, <2>1
  <2>3. ~(Cardinality(B[i]) < Cardinality(B[j])) /\ ~(Cardinality(B[j]) < Cardinality(B[i]))
    BY <1>7, <2>2
  <2>4. i = j
    BY <1>6, <1>7, <2>2, <2>3
  <2> QED
    BY <2>1, <2>4
<1> QED
  BY <1>3, <1>8, <1>9, <1>10 DEF S

(* A run goes on until the next one starts; every place is in a run. *)
LEMMA RunEnds ==
    ASSUME NEW list \in Seq(Entries), NEW i \in RunStarts(list)
    PROVE  /\ RunEnd(list, i) \in i .. Len(list)
           /\ \A m \in i + 1 .. RunEnd(list, i) : m \notin RunStarts(list)
           /\ RunEnd(list, i) = Len(list) \/ RunEnd(list, i) + 1 \in RunStarts(list)
<1> DEFINE n == Len(list)
           S == {j \in i .. n : \A m \in i + 1 .. j : m \notin RunStarts(list)}
           e == RunEnd(list, i)
<1>1. n \in Nat /\ DOMAIN list = 1 .. n /\ i \in 1 .. n
  BY DEF RunStarts
<1>2. i \in S /\ S \in SUBSET (0 .. n)
  BY <1>1
<1>3. Max(S) \in S /\ \A j \in S : j <= Max(S)
  BY <1>1, <1>2, GreatestIn
<1>4. e \in S /\ \A j \in S : j <= e
  BY <1>3 DEF RunEnd
<1>5. e = n \/ e + 1 \in RunStarts(list)
  <2> SUFFICES ASSUME e # n, e + 1 \notin RunStarts(list) PROVE FALSE
    OBVIOUS
  <2>1. e + 1 \in S
    BY <1>1, <1>4
  <2> QED
    BY <1>1, <1>4, <2>1
<1> QED
  BY <1>4, <1>5

LEMMA InARun ==
    ASSUME NEW list \in Seq(Entries), NEW m \in DOMAIN list
    PROVE  \E i \in RunStarts(list) : m \in i .. RunEnd(list, i)
<1> DEFINE S == {i \in RunStarts(list) : i <= m}
           s == Max(S)
<1>1. Len(list) \in Nat /\ DOMAIN list = 1 .. Len(list) /\ m \in 1 .. Len(list)
  OBVIOUS
<1>2. S \in SUBSET (0 .. Len(list)) /\ S # {}
  <2>1. 1 \in S
    BY <1>1 DEF RunStarts
  <2> QED
    BY <1>1, <2>1 DEF RunStarts
<1>3. s \in S /\ \A y \in S : y <= s
  BY <1>1, <1>2, GreatestIn
<1>4. s \in RunStarts(list) /\ s \in 1 .. m
  BY <1>1, <1>3 DEF RunStarts
<1>5. /\ RunEnd(list, s) \in s .. Len(list)
      /\ RunEnd(list, s) = Len(list) \/ RunEnd(list, s) + 1 \in RunStarts(list)
  BY <1>4, RunEnds
<1>6. m <= RunEnd(list, s)
  <2> SUFFICES ASSUME RunEnd(list, s) < m PROVE FALSE
    BY <1>1, <1>4, <1>5
  <2>1. RunEnd(list, s) + 1 \in S
    BY <1>1, <1>4, <1>5
  <2>2. RunEnd(list, s) + 1 <= s /\ s \in Nat /\ RunEnd(list, s) \in s .. Len(list)
    BY <1>1, <1>3, <1>4, <1>5, <2>1
  <2> QED
    BY <1>1, <2>2
<1> QED
  BY <1>1, <1>4, <1>5, <1>6

(* In a run the entries follow each other without a gap. *)
LEMMA RunGrows ==
    ASSUME NEW list \in Seq(Entries), NEW i \in RunStarts(list),
           NEW l \in i .. RunEnd(list, i), NEW m \in l .. RunEnd(list, i)
    PROVE  list[l][1] <= list[m][1] /\ End(list[l]) <= End(list[m])
<1> DEFINE e == RunEnd(list, i)
           Bad == {j \in l .. e : ~(list[l][1] <= list[j][1] /\ End(list[l]) <= End(list[j]))}
<1>1. /\ Len(list) \in Nat /\ DOMAIN list = 1 .. Len(list)
      /\ \A j \in DOMAIN list : list[j][1] \in Nat /\ list[j][2] \in Nat
  BY EntryAt
<1>2. i \in 1 .. Len(list) /\ e \in i .. Len(list) /\ \A j \in i + 1 .. e : j \notin RunStarts(list)
  BY <1>1, RunEnds DEF RunStarts
<1> HIDE DEF e
<1>3. l \in i .. e /\ m \in l .. e
  BY DEF e
<1>4. ASSUME NEW j \in i + 1 .. e PROVE list[j][1] = End(list[j - 1])
  <2>1. j \in DOMAIN list /\ j # 1
    BY <1>1, <1>2
  <2> QED
    BY <1>2, <2>1 DEF RunStarts
<1>5. Bad = {}
  <2> SUFFICES ASSUME Bad # {} PROVE FALSE
    OBVIOUS
  <2>1. Bad \in SUBSET Nat
    BY <1>2, <1>3
  <2>2. PICK j \in Bad : \A k \in Bad : j <= k
    BY <2>1, LeastIn
  <2>3. j \in l .. e /\ l \in DOMAIN list /\ j \in DOMAIN list
    BY <1>1, <1>2, <1>3
  <2>4. j # l
    BY <1>1, <2>3 DEF End
  <2>5. j - 1 \in l .. e /\ j - 1 \in DOMAIN list /\ j - 1 \notin Bad /\ j \in i + 1 .. e
    BY <1>1, <1>2, <1>3, <2>2, <2>3, <2>4, SMTT(30)
  <2>6. list[l][1] <= list[j - 1][1] /\ End(list[l]) <= End(list[j - 1])
    BY <2>5
  <2>7. list[j][1] = End(list[j - 1])
    BY <1>4, <2>5
  <2>8. list[l][1] <= list[j][1] /\ End(list[l]) <= End(list[j])
    BY <1>1, <2>3, <2>5, <2>6, <2>7, SMTT(30) DEF End
  <2> QED
    BY <2>8
<1>6. m \notin Bad
  BY <1>5
<1> QED
  BY <1>3, <1>6

(* The entry a run becomes covers the bytes of the run's entries. *)
LEMMA RunBytes ==
    ASSUME NEW list \in Seq(Entries), NEW i \in RunStarts(list), NEW b \in Nat
    PROVE  list[i][1] <= b /\ b < End(list[RunEnd(list, i)]) <=>
             \E m \in i .. RunEnd(list, i) : b \in Bytes(list[m])
<1> DEFINE e == RunEnd(list, i)
<1>1. /\ Len(list) \in Nat /\ DOMAIN list = 1 .. Len(list)
      /\ \A j \in DOMAIN list : list[j][1] \in Nat /\ list[j][2] \in Nat
      /\ \A j \in DOMAIN list : b \in Bytes(list[j]) <=> list[j][1] <= b /\ b < End(list[j])
  BY EntryAt
<1>2. i \in 1 .. Len(list) /\ e \in i .. Len(list) /\ \A j \in i + 1 .. e : j \notin RunStarts(list)
  BY <1>1, RunEnds DEF RunStarts
<1>3. \A m \in i .. e : list[i][1] <= list[m][1] /\ End(list[m]) <= End(list[e])
  <2> SUFFICES ASSUME NEW m \in i .. e PROVE list[i][1] <= list[m][1] /\ End(list[m]) <= End(list[e])
    OBVIOUS
  <2>1. i \in i .. e /\ e \in m .. e
    BY <1>1, <1>2
  <2> QED
    BY <2>1, RunGrows
<1> HIDE DEF e
<1>4. i .. e \subseteq DOMAIN list
  BY <1>1, <1>2
<1>5. ASSUME NEW m \in i .. e, b \in Bytes(list[m]) PROVE list[i][1] <= b /\ b < End(list[e])
  <2>1. m \in DOMAIN list /\ i \in DOMAIN list /\ e \in DOMAIN list
    BY <1>1, <1>2, <1>4
  <2>2. list[m][1] <= b /\ b < End(list[m])
    BY <1>1, <1>5, <2>1
  <2>3. list[i][1] <= list[m][1] /\ End(list[m]) <= End(list[e])
    BY <1>3
  <2>4. End(list[m]) \in Nat /\ End(list[e]) \in Nat
    BY <1>1, <2>1, SMTT(30) DEF End
  <2> QED
    BY <1>1, <2>1, <2>2, <2>3, <2>4
<1>6. ASSUME list[i][1] <= b, b < End(list[e]) PROVE \E m \in i .. e : b \in Bytes(list[m])
  <2> DEFINE S == {m \in i .. e : list[m][1] <= b}
             m == Max(S)
  <2>1. i \in S /\ S \in SUBSET (0 .. Len(list))
    BY <1>1, <1>2, <1>6
  <2>2. m \in S /\ \A y \in S : y <= m
    BY <1>1, <2>1, GreatestIn
  <2>3. m \in i .. e /\ list[m][1] <= b /\ m \in DOMAIN list
    BY <1>4, <2>2
  <2>4. b < End(list[m])
    <3> SUFFICES ASSUME m # e PROVE b < End(list[m])
      BY <1>6
    <3>1. m + 1 \in i + 1 .. e /\ m + 1 \in DOMAIN list /\ m + 1 # 1
      BY <1>1, <1>2, <1>4, <2>3
    <3>2. list[m + 1][1] = End(list[m])
      <4>1. (m + 1) - 1 = m
        BY <1>2, <2>3
      <4>2. list[m + 1][1] = End(list[(m + 1) - 1])
        BY <1>2, <3>1 DEF RunStarts
      <4> QED
        BY <4>1, <4>2
    <3>3. ~(list[m + 1][1] <= b)
      BY <1>2, <2>2, <2>3, <3>1
    <3> QED
      BY <1>1, <2>3, <3>1, <3>2, <3>3
  <2>5. b \in Bytes(list[m])
    BY <1>1, <2>3, <2>4
  <2> QED
    BY <2>3, <2>5
<1> QED
  BY <1>5, <1>6 DEF e

(* Two runs have no place in common: the first ends before the second begins. *)
LEMMA RunsApart ==
    ASSUME NEW list \in Seq(Entries), NEW i \in RunStarts(list), NEW j \in RunStarts(list), i < j
    PROVE  RunEnd(list, i) < j
<1>1. /\ i \in Nat /\ j \in Nat /\ RunEnd(list, i) \in i .. Len(list) /\ Len(list) \in Nat
      /\ \A m \in i + 1 .. RunEnd(list, i) : m \notin RunStarts(list)
  BY RunEnds DEF RunStarts
<1> QED
  BY <1>1

(* The entries of the coalesced list, one by one. *)
LEMMA CoalescedAt ==
    ASSUME NEW list \in Seq(Entries), NEW new, new = Coalesced(list)
    PROVE  /\ new \in Seq(Entries)
           /\ Len(new) = Cardinality(RunStarts(list))
           /\ \A k \in DOMAIN new :
                /\ RunStart(list, k) \in RunStarts(list)
                /\ new[k][1] = list[RunStart(list, k)][1]
                /\ End(new[k]) = End(list[RunEnd(list, RunStart(list, k))])
<1> DEFINE n == Cardinality(RunStarts(list))
<1>1. n \in Nat /\ \A k \in 1 .. n : RunStart(list, k) \in RunStarts(list)
  BY RunsNumbered
<1>2. /\ Len(list) \in Nat /\ DOMAIN list = 1 .. Len(list)
      /\ \A j \in DOMAIN list : list[j][1] \in Nat /\ list[j][2] \in Nat
  BY EntryAt
<1>3. ASSUME NEW k \in 1 .. n
      PROVE  LET i == RunStart(list, k)
                 e == RunEnd(list, i)
             IN  /\ list[i][1] \in Nat /\ End(list[e]) - list[i][1] \in Nat
                 /\ End(<<list[i][1], End(list[e]) - list[i][1]>>) = End(list[e])
  <2> DEFINE i == RunStart(list, k)
             e == RunEnd(list, i)
  <2>1. i \in RunStarts(list) /\ i \in DOMAIN list
    BY <1>1 DEF RunStarts
  <2>2. e \in i .. Len(list)
    BY <2>1, RunEnds
  <2>3. e \in DOMAIN list /\ i \in i .. e /\ e \in i .. e
    BY <1>2, <2>1, <2>2
  <2>4. End(list[i]) <= End(list[e])
    BY <2>1, <2>3, RunGrows
  <2> HIDE DEF i, e
  <2>5. list[i][1] \in Nat /\ End(list[e]) \in Nat /\ list[i][1] <= End(list[i]) /\ End(list[i]) \in Nat
    BY <1>2, <2>1, <2>3 DEF End
  <2>6. End(list[e]) - list[i][1] \in Nat /\ End(list[e]) = list[i][1] + (End(list[e]) - list[i][1])
    BY <2>4, <2>5
  <2>7. End(<<list[i][1], End(list[e]) - list[i][1]>>) = list[i][1] + (End(list[e]) - list[i][1])
    BY DEF End
  <2> QED
    BY <2>5, <2>6, <2>7 DEF i, e
<1>4. new = [k \in 1 .. n |-> LET i == RunStart(list, k) IN
                <<list[i][1], End(list[RunEnd(list, i)]) - list[i][1]>>]
  BY DEF Coalesced
<1> HIDE DEF n
<1>5. \A k \in 1 .. n : new[k] = <<list[RunStart(list, k)][1],
                                   End(list[RunEnd(list, RunStart(list, k))]) - list[RunStart(list, k)][1]>>
  BY <1>4
<1>6. \A k \in 1 .. n : new[k] \in Entries
  <2> SUFFICES ASSUME NEW k \in 1 .. n PROVE new[k] \in Entries
    OBVIOUS
  <2> DEFINE x == list[RunStart(list, k)][1]
             y == End(list[RunEnd(list, RunStart(list, k))]) - x
  <2>1. x \in Nat /\ y \in Nat
    BY <1>3
  <2>2. new[k] = <<x, y>>
    BY <1>5
  <2> HIDE DEF x, y
  <2> QED
    BY <2>1, <2>2 DEF Entries
<1>7. new \in [1 .. n -> Entries]
  <2>1. DOMAIN new = 1 .. n /\ new = [k \in 1 .. n |-> new[k]]
    BY <1>4
  <2> QED
    BY <1>6, <2>1
<1>8. new \in Seq(Entries) /\ Len(new) = n /\ DOMAIN new = 1 .. n
  <2>1. new \in Seq(Entries)
    BY <1>1, <1>7, SeqDef
  <2>2. DOMAIN new = 1 .. n
    BY <1>7
  <2> QED
    BY <1>1, <2>1, <2>2
<1>9. ASSUME NEW k \in 1 .. n
      PROVE  /\ new[k][1] = list[RunStart(list, k)][1]
             /\ End(new[k]) = End(list[RunEnd(list, RunStart(list, k))])
  <2> DEFINE x == list[RunStart(list, k)][1]
             z == End(list[RunEnd(list, RunStart(list, k))])
  <2>1. End(<<x, z - x>>) = z
    BY <1>3
  <2>2. new[k] = <<x, z - x>>
    BY <1>5
  <2> HIDE DEF x, z
  <2>3. new[k][1] = x /\ End(new[k]) = z
    BY <2>1, <2>2
  <2> QED
    BY <2>3 DEF x, z
<1> QED
  BY <1>1, <1>8, <1>9 DEF n

(* Coalescing covers the same bytes, each once. *)
LEMMA CoalescedBytes ==
    ASSUME NEW list \in Seq(Entries), Disjoint(list), NEW new, new = Coalesced(list)
    PROVE  SameBytes(list, new)
<1> DEFINE s(k) == RunStart(list, k)
           e(k) == RunEnd(list, s(k))
<1>1. /\ new \in Seq(Entries) /\ Len(new) = Cardinality(RunStarts(list))
      /\ \A k \in DOMAIN new : /\ s(k) \in RunStarts(list)
                               /\ new[k][1] = list[s(k)][1] /\ End(new[k]) = End(list[e(k)])
  BY CoalescedAt
<1>2. DOMAIN new = 1 .. Cardinality(RunStarts(list))
  BY <1>1
<1>3. \A k, l \in DOMAIN new : k < l => s(k) < s(l)
  BY <1>2, RunsNumbered
<1>4. \A i \in RunStarts(list) : \E k \in DOMAIN new : s(k) = i
  BY <1>2, RunsNumbered
<1>5. \A k \in DOMAIN new : s(k) .. e(k) \subseteq DOMAIN list
  <2> SUFFICES ASSUME NEW k \in DOMAIN new PROVE s(k) .. e(k) \subseteq DOMAIN list
    OBVIOUS
  <2>1. s(k) \in RunStarts(list) /\ s(k) \in 1 .. Len(list) /\ DOMAIN list = 1 .. Len(list)
    BY <1>1 DEF RunStarts
  <2>2. e(k) \in s(k) .. Len(list)
    BY <2>1, RunEnds
  <2> QED
    BY <2>1, <2>2
<1>6. \A k \in DOMAIN new, b \in Nat :
         b \in Bytes(new[k]) <=> \E m \in s(k) .. e(k) : b \in Bytes(list[m])
  <2> SUFFICES ASSUME NEW k \in DOMAIN new, NEW b \in Nat
               PROVE  b \in Bytes(new[k]) <=> \E m \in s(k) .. e(k) : b \in Bytes(list[m])
    OBVIOUS
  <2>1. b \in Bytes(new[k]) <=> new[k][1] <= b /\ b < End(new[k])
    BY <1>1, EntryAt
  <2>2. s(k) \in RunStarts(list)
    BY <1>1
  <2>3. list[s(k)][1] <= b /\ b < End(list[e(k)]) <=> \E m \in s(k) .. e(k) : b \in Bytes(list[m])
    BY <2>2, RunBytes
  <2> QED
    BY <1>1, <2>1, <2>3
<1>7. Disjoint(new)
  <2> SUFFICES ASSUME NEW k \in DOMAIN new, NEW l \in DOMAIN new, NEW b \in Nat,
                      b \in Bytes(new[k]), b \in Bytes(new[l]), k < l
               PROVE  FALSE
    <3>1. \A k, l \in DOMAIN new : k < l \/ l < k \/ k = l
      BY <1>2, RunsNumbered
    <3> QED
      BY <3>1 DEF Disjoint
  <2>1. PICK m1 \in s(k) .. e(k) : b \in Bytes(list[m1])
    BY <1>6
  <2>2. PICK m2 \in s(l) .. e(l) : b \in Bytes(list[m2])
    BY <1>6
  <2>3. m1 = m2
    BY <1>5, <2>1, <2>2 DEF Disjoint
  <2>4. e(k) < s(l)
    BY <1>1, <1>3, RunsApart
  <2>5. s(k) \in Nat /\ s(l) \in Nat /\ e(k) \in s(k) .. Len(list) /\ e(l) \in s(l) .. Len(list)
    <3>1. s(k) \in RunStarts(list) /\ s(l) \in RunStarts(list)
      BY <1>1
    <3> QED
      BY <3>1, RunEnds DEF RunStarts
  <2> HIDE DEF s, e
  <2> QED
    BY <2>1, <2>2, <2>3, <2>4, <2>5
<1>8. \A b \in Nat : Covered(new, b) <=> Covered(list, b)
  <2> SUFFICES ASSUME NEW b \in Nat PROVE Covered(new, b) <=> Covered(list, b)
    OBVIOUS
  <2>1. ASSUME Covered(new, b) PROVE Covered(list, b)
    BY <1>5, <1>6, <2>1 DEF Covered
  <2>2. ASSUME Covered(list, b) PROVE Covered(new, b)
    <3>1. PICK m \in DOMAIN list : b \in Bytes(list[m])
      BY <2>2 DEF Covered
    <3>2. PICK i \in RunStarts(list) : m \in i .. RunEnd(list, i)
      BY InARun
    <3>3. PICK k \in DOMAIN new : s(k) = i
      BY <1>4
    <3>4. b \in Bytes(new[k])
      BY <1>6, <3>1, <3>2, <3>3
    <3> QED
      BY <3>4 DEF Covered
  <2> QED
    BY <2>1, <2>2
<1>9. ASSUME Positive(list) PROVE Positive(new)
  <2> SUFFICES ASSUME NEW k \in DOMAIN new PROVE new[k][2] > 0
    BY DEF Positive
  <2>1. s(k) \in RunStarts(list) /\ s(k) \in 1 .. Len(list) /\ DOMAIN list = 1 .. Len(list)
    BY <1>1 DEF RunStarts
  <2>2. e(k) \in s(k) .. Len(list)
    BY <2>1, RunEnds
  <2>3. e(k) \in DOMAIN list /\ s(k) \in s(k) .. e(k) /\ e(k) \in s(k) .. e(k)
    BY <2>1, <2>2
  <2>4. End(list[s(k)]) <= End(list[e(k)])
    BY <2>1, <2>3, RunGrows
  <2>5. list[s(k)][1] \in Nat /\ list[s(k)][2] \in Nat /\ list[s(k)][2] > 0
        /\ list[e(k)][1] \in Nat /\ list[e(k)][2] \in Nat
    BY <1>9, <2>1, <2>3, EntryAt DEF Positive
  <2>6. new[k][1] \in Nat /\ new[k][2] \in Nat
    BY <1>1, EntryAt
  <2>7. new[k][1] = list[s(k)][1] /\ End(new[k]) = End(list[e(k)])
    BY <1>1
  <2> HIDE DEF s, e
  <2> QED
    BY <2>4, <2>5, <2>6, <2>7 DEF End
<1> QED
  BY <1>1, <1>7, <1>8, <1>9 DEF SameBytes

(* In address order, with gaps between the entries. *)
Ordered(list) == \A i, j \in DOMAIN list : i < j => End(list[i]) < list[j][1]

LEMMA CoalescedOrdered ==
    ASSUME NEW list \in Seq(Entries), Disjoint(list), Positive(list),
           \A i, j \in DOMAIN list : i < j => list[i][1] <= list[j][1],
           NEW new, new = Coalesced(list)
    PROVE  Ordered(new)
<1> DEFINE s(k) == RunStart(list, k)
           e(k) == RunEnd(list, s(k))
<1>1. /\ new \in Seq(Entries) /\ Len(new) = Cardinality(RunStarts(list))
      /\ \A k \in DOMAIN new : /\ s(k) \in RunStarts(list)
                               /\ new[k][1] = list[s(k)][1] /\ End(new[k]) = End(list[e(k)])
  BY CoalescedAt
<1>2. DOMAIN new = 1 .. Cardinality(RunStarts(list))
  BY <1>1
<1>3. /\ Len(list) \in Nat /\ DOMAIN list = 1 .. Len(list)
      /\ \A i \in DOMAIN list : list[i][1] \in Nat /\ list[i][2] \in Nat /\ list[i][2] > 0
      /\ \A i \in DOMAIN list : \A b : b \in Bytes(list[i]) <=>
           b \in Nat /\ list[i][1] <= b /\ b < End(list[i])
  BY EntryAt DEF Positive
<1>4. ASSUME NEW i \in DOMAIN list, NEW j \in DOMAIN list, i < j PROVE End(list[i]) <= list[j][1]
  <2> SUFFICES ASSUME ~(End(list[i]) <= list[j][1]) PROVE FALSE
    OBVIOUS
  <2>1. list[i][1] <= list[j][1] /\ list[j][1] < End(list[i]) /\ list[j][1] < End(list[j])
    BY <1>3, <1>4 DEF End
  <2>2. list[j][1] \in Bytes(list[i]) /\ list[j][1] \in Bytes(list[j])
    BY <1>3, <2>1
  <2>3. i = j
    BY <1>3, <2>2 DEF Disjoint
  <2> QED
    BY <1>3, <1>4, <2>3
<1> SUFFICES ASSUME NEW k \in DOMAIN new, NEW l \in DOMAIN new, k < l
             PROVE  End(list[e(k)]) < list[s(l)][1]
  BY <1>1 DEF Ordered
<1> DEFINE x == e(k)
           y == s(l)
<1>5. s(k) \in RunStarts(list) /\ y \in RunStarts(list) /\ s(k) < y
  BY <1>1, <1>2, RunsNumbered
<1>6. x < y
  BY <1>5, RunsApart
<1>7. x \in s(k) .. Len(list) /\ (x = Len(list) \/ x + 1 \in RunStarts(list))
  BY <1>5, RunEnds
<1>8. x \in DOMAIN list /\ y \in DOMAIN list
  BY <1>3, <1>5, <1>7 DEF RunStarts
<1> HIDE DEF x, y
<1>9. x + 1 \in RunStarts(list) /\ x + 1 \in DOMAIN list
  BY <1>3, <1>6, <1>7, <1>8
<1>10. list[x + 1][1] # End(list[x])
  <2>1. (x + 1) - 1 = x /\ x + 1 # 1
    BY <1>3, <1>8
  <2>2. list[x + 1][1] # End(list[(x + 1) - 1])
    BY <1>9, <2>1 DEF RunStarts
  <2> QED
    BY <2>1, <2>2
<1>11. End(list[x]) <= list[x + 1][1]
  BY <1>3, <1>4, <1>8, <1>9
<1>12. /\ End(list[x]) \in Nat /\ list[x + 1][1] \in Nat /\ End(list[x + 1]) \in Nat
       /\ list[y][1] \in Nat /\ list[x + 1][1] < End(list[x + 1])
  BY <1>3, <1>8, <1>9, SMTT(30) DEF End
<1>13. End(list[x]) < list[x + 1][1]
  BY <1>10, <1>11, <1>12
<1>14. End(list[x]) < list[y][1]
  <2>1. CASE y = x + 1
    BY <1>13, <2>1
  <2>2. CASE y # x + 1
    <3>1. End(list[x + 1]) <= list[y][1]
      BY <1>3, <1>4, <1>6, <1>8, <1>9, <2>2
    <3> QED
      BY <1>12, <1>13, <3>1
  <2> QED
    BY <2>1, <2>2
<1> QED
  BY <1>14 DEF x, y

-----------------------------------------------------------------------------
(* What malloc chooses is large enough. *)
LEMMA LeastChosen ==
    ASSUME NEW S \in SUBSET Nat, S # {}
    PROVE  Min(S) \in S
<1>1. \E x \in S : \A y \in S : x <= y
  BY LeastIn
<1> QED
  BY <1>1 DEF Min

LEMMA SomeSmallest ==
    ASSUME NEW S, S # {}, NEW size \in [S -> Nat]
    PROVE  \E i \in S : \A j \in S : size[i] <= size[j]
<1> DEFINE T == {size[i] : i \in S}
<1>1. T \in SUBSET Nat /\ T # {}
  OBVIOUS
<1>2. PICK x \in T : \A y \in T : x <= y
  BY <1>1, LeastIn
<1>3. PICK i \in S : x = size[i]
  OBVIOUS
<1> QED
  BY <1>2, <1>3

LEMMA SomeLargest ==
    ASSUME NEW S \in SUBSET Nat, S # {}, IsFiniteSet(S), NEW size \in [S -> Nat]
    PROVE  \E i \in S : \A j \in S : size[i] >= size[j]
<1> DEFINE B == [i \in S |-> {j \in S : size[j] < size[i] \/ (size[j] = size[i] /\ j <= i)}]
<1>1. \A i \in S : size[i] \in Nat /\ i \in Nat
  OBVIOUS
<1>2. /\ B \in [S -> SUBSET S]
      /\ \A i, j \in S : j \in B[i] <=> size[j] < size[i] \/ (size[j] = size[i] /\ j <= i)
  OBVIOUS
<1> HIDE DEF B
<1>3. /\ \A i \in S : i \in B[i]
      /\ \A i, j \in S : i \in B[j] \/ j \in B[i]
      /\ \A i, j \in S : i \in B[j] /\ j \in B[i] => i = j
      /\ \A i, j \in S : j \in B[i] => B[j] \subseteq B[i]
  <2>1. \A i, j \in S : j \in B[i] => B[j] \subseteq B[i]
    <3> SUFFICES ASSUME NEW i \in S, NEW j \in S, j \in B[i], NEW m \in B[j] PROVE m \in B[i]
      OBVIOUS
    <3>1. m \in S
      BY <1>2
    <3> QED
      BY <1>1, <1>2, <3>1
  <2> QED
    BY <1>1, <1>2, <2>1
<1>4. Cardinality(S) \in Nat /\ Cardinality(S) # 0
  BY FS_CardinalityType, FS_EmptySet
<1>5. \A k \in 1 .. Cardinality(S) : \E i \in S : Cardinality(B[i]) = k
  BY <1>2, <1>3, Ranks, ZenonT(30)
<1>6. PICK i \in S : Cardinality(B[i]) = Cardinality(S)
  BY <1>4, <1>5
<1>7. B[i] = S
  <2>1. B[i] \in SUBSET S
    BY <1>2
  <2> QED
    BY <1>6, <2>1, FS_Subset
<1>8. ASSUME NEW j \in S PROVE size[i] >= size[j]
  BY <1>1, <1>2, <1>7
<1> QED
  BY <1>8

LEMMA ChosenFits ==
    ASSUME NEW h, h.freelist \in Seq(Entries), h.opt.policy \in {"BEST", "WORST", "FIRST"},
           NEW size \in Nat
    PROVE  LET i == Chosen(h, size) IN
           i = 0 \/ (i # 0 /\ i \in DOMAIN h.freelist /\ h.freelist[i][2] >= size)
<1> DEFINE list == h.freelist
           fits == {i \in DOMAIN list : list[i][2] >= size}
           Smallest == {i \in fits : \A j \in fits : list[i][2] <= list[j][2]}
           Largest == {i \in fits : \A j \in fits : list[i][2] >= list[j][2]}
           sizes == [i \in fits |-> list[i][2]]
<1>1. /\ Len(list) \in Nat /\ DOMAIN list = 1 .. Len(list)
      /\ \A i \in DOMAIN list : list[i][2] \in Nat
  BY EntryAt
<1>2. /\ fits \in SUBSET (1 .. Len(list)) /\ fits \in SUBSET Nat /\ sizes \in [fits -> Nat]
      /\ \A i \in fits : sizes[i] = list[i][2]
  BY <1>1
<1>3. IsFiniteSet(fits)
  <2>1. IsFiniteSet(1 .. Len(list))
    BY <1>1, FS_Interval
  <2> QED
    BY <1>2, <2>1, FS_Subset
<1> HIDE DEF sizes
<1>4. ASSUME fits # {} PROVE Smallest # {} /\ Largest # {}
  <2>1. PICK i \in fits : \A j \in fits : sizes[i] <= sizes[j]
    BY <1>2, <1>4, SomeSmallest
  <2>2. PICK i2 \in fits : \A j \in fits : sizes[i2] >= sizes[j]
    BY <1>2, <1>3, <1>4, SomeLargest
  <2> QED
    BY <1>2, <2>1, <2>2, SMTT(30)
<1>5. ASSUME fits # {} PROVE Min(fits) \in fits /\ Min(Smallest) \in fits /\ Min(Largest) \in fits
  <2>1. Min(fits) \in fits
    BY <1>2, <1>5, LeastChosen
  <2>2. Smallest \in SUBSET Nat /\ Largest \in SUBSET Nat
    BY <1>2
  <2>3. Min(Smallest) \in Smallest /\ Min(Largest) \in Largest
    BY <1>4, <1>5, <2>2, LeastChosen
  <2> QED
    BY <2>1, <2>3
<1>6. Chosen(h, size) = CASE fits = {} -> 0
          [] fits # {} /\ h.opt.policy = "FIRST" -> Min(fits)
          [] fits # {} /\ h.opt.policy = "BEST" -> Min(Smallest)
          [] fits # {} /\ h.opt.policy = "WORST" -> Min(Largest)
  BY DEF Chosen
<1> HIDE DEF Smallest, Largest
<1>7. fits = {} => Chosen(h, size) = 0
  BY <1>6
<1>8. fits # {} => Chosen(h, size) \in fits
  BY <1>5, <1>6
<1> QED
  BY <1>1, <1>7, <1>8

-----------------------------------------------------------------------------
(* Taking size bytes from the entry at i leaves the other bytes free. *)
LEMMA RemovedAt ==
    ASSUME NEW list \in Seq(Entries), NEW i \in DOMAIN list, NEW new, new = RemoveAt(list, i)
    PROVE  /\ new \in Seq(Entries) /\ Len(new) = Len(list) - 1 /\ DOMAIN new = 1 .. Len(list) - 1
           /\ \A j \in DOMAIN new : new[j] = list[IF j < i THEN j ELSE j + 1]
<1> DEFINE n == Len(list)
           a == SubSeq(list, 1, i - 1)
           b == SubSeq(list, i + 1, n)
<1>1. n \in Nat /\ DOMAIN list = 1 .. n /\ i \in 1 .. n /\ \A j \in 1 .. n : list[j] \in Entries
  OBVIOUS
<1>2. new = a \o b
  BY DEF RemoveAt
<1> HIDE DEF n
<1>3. /\ a \in Seq(Entries) /\ Len(a) = i - 1 /\ \A j \in 1 .. i - 1 : a[j] = list[j]
  <2>1. \A j \in 1 .. i - 1 : list[j] \in Entries
    BY <1>1
  <2>2. /\ a \in Seq(Entries) /\ Len(a) = IF 1 <= i - 1 THEN (i - 1) - 1 + 1 ELSE 0
        /\ \A j \in 1 .. (i - 1) - 1 + 1 : a[j] = list[1 + j - 1]
    BY <1>1, <2>1, SubSeqProperties
  <2>3. Len(a) = i - 1
    BY <1>1, <2>2
  <2>4. ASSUME NEW j \in 1 .. i - 1 PROVE a[j] = list[j]
    <3>1. j \in 1 .. (i - 1) - 1 + 1 /\ 1 + j - 1 = j
      BY <1>1
    <3> QED
      BY <2>2, <3>1
  <2> QED
    BY <2>2, <2>3, <2>4
<1>4. /\ b \in Seq(Entries) /\ Len(b) = n - i /\ \A j \in 1 .. n - i : b[j] = list[i + j]
  <2>1. \A j \in i + 1 .. n : list[j] \in Entries
    BY <1>1
  <2>2. /\ b \in Seq(Entries) /\ Len(b) = IF i + 1 <= n THEN n - (i + 1) + 1 ELSE 0
        /\ \A j \in 1 .. n - (i + 1) + 1 : b[j] = list[(i + 1) + j - 1]
    BY <1>1, <2>1, SubSeqProperties
  <2>3. Len(b) = n - i
    BY <1>1, <2>2
  <2>4. ASSUME NEW j \in 1 .. n - i PROVE b[j] = list[i + j]
    <3>1. j \in 1 .. n - (i + 1) + 1 /\ (i + 1) + j - 1 = i + j
      BY <1>1
    <3> QED
      BY <2>2, <3>1
  <2> QED
    BY <2>2, <2>3, <2>4
<1> HIDE DEF a, b
<1>5. /\ new \in Seq(Entries) /\ Len(new) = Len(a) + Len(b)
      /\ \A j \in 1 .. Len(a) + Len(b) : new[j] = IF j <= Len(a) THEN a[j] ELSE b[j - Len(a)]
  BY <1>2, <1>3, <1>4, ConcatProperties, SMTT(30)
<1>6. Len(new) = n - 1 /\ DOMAIN new = 1 .. n - 1
  BY <1>1, <1>3, <1>4, <1>5
<1>7. ASSUME NEW j \in 1 .. n - 1 PROVE new[j] = list[IF j < i THEN j ELSE j + 1]
  <2>1. new[j] = IF j <= i - 1 THEN a[j] ELSE b[j - (i - 1)]
    BY <1>1, <1>3, <1>4, <1>5
  <2>2. CASE j < i
    BY <1>1, <1>3, <2>1, <2>2
  <2>3. CASE ~(j < i)
    <3>1. ~(j <= i - 1) /\ j - (i - 1) \in 1 .. n - i /\ i + (j - (i - 1)) = j + 1
      BY <1>1, <2>3
    <3>2. new[j] = b[j - (i - 1)]
      BY <2>1, <3>1
    <3> QED
      BY <1>4, <2>3, <3>1, <3>2
  <2> QED
    BY <2>2, <2>3
<1> QED
  BY <1>5, <1>6, <1>7 DEF n

(* Every entry of new is part of one of list, at places in the same order. *)
Shrunk(list, new, taken) ==
    /\ new \in Seq(Entries)
    /\ Disjoint(new)
    /\ \A b \in Nat : Covered(list, b) <=> Covered(new, b) \/ b \in Bytes(taken)
    /\ \A b \in Nat : ~(Covered(new, b) /\ b \in Bytes(taken))
    /\ Positive(list) => Positive(new)
    /\ Ordered(list) => Ordered(new)

LEMMA SplitShrinks ==
    ASSUME NEW list \in Seq(Entries), Disjoint(list), NEW i \in DOMAIN list, NEW size \in Nat,
           size < list[i][2],
           NEW new, new = [list EXCEPT ![i] = <<list[i][1] + size, list[i][2] - size>>]
    PROVE  Shrunk(list, new, <<list[i][1], size>>)
<1> DEFINE a == list[i][1]
           s == list[i][2]
           rest == <<a + size, s - size>>
           taken == <<a, size>>
<1>1. /\ Len(list) \in Nat /\ DOMAIN list = 1 .. Len(list)
      /\ \A j \in DOMAIN list : list[j][1] \in Nat /\ list[j][2] \in Nat
      /\ \A j \in DOMAIN list : \A b : b \in Bytes(list[j]) <=>
           b \in Nat /\ list[j][1] <= b /\ b < End(list[j])
  BY EntryAt
<1>2. a \in Nat /\ s \in Nat /\ End(list[i]) = a + s
  BY <1>1 DEF End
<1>3. /\ rest \in Entries /\ rest[1] = a + size /\ rest[2] = s - size /\ End(rest) = a + s
      /\ rest[2] > 0
  BY <1>2 DEF Entries, End
<1>4. \A b : b \in Bytes(rest) <=> b \in Nat /\ a + size <= b /\ b < a + s
  BY <1>2, <1>3 DEF Bytes
<1>5. \A b : b \in Bytes(taken) <=> b \in Nat /\ a <= b /\ b < a + size
  BY <1>2 DEF Bytes, End
<1>6. /\ new \in Seq(Entries) /\ DOMAIN new = DOMAIN list /\ new[i] = rest
      /\ \A j \in DOMAIN list : j # i => new[j] = list[j]
  BY <1>3
<1> HIDE DEF a, s, rest, taken
<1>7. \A b : b \in Bytes(list[i]) <=> b \in Bytes(rest) \/ b \in Bytes(taken)
  <2> SUFFICES ASSUME NEW b
               PROVE  b \in Bytes(list[i]) <=> b \in Bytes(rest) \/ b \in Bytes(taken)
    OBVIOUS
  <2>1. b \in Bytes(list[i]) <=> b \in Nat /\ a <= b /\ b < a + s
    BY <1>1, <1>2 DEF a
  <2>2. size < s
    BY DEF s
  <2> QED
    BY <1>2, <1>4, <1>5, <2>1, <2>2
<1>8. \A b : ~(b \in Bytes(rest) /\ b \in Bytes(taken))
  BY <1>2, <1>4, <1>5
<1>9. \A j \in DOMAIN list : \A b : b \in Bytes(new[j]) <=>
         b \in Bytes(list[j]) /\ ~(j = i /\ b \in Bytes(taken))
  BY <1>6, <1>7, <1>8
<1>10. Disjoint(new)
  <2> SUFFICES ASSUME NEW j \in DOMAIN list, NEW k \in DOMAIN list, NEW b \in Nat,
                      b \in Bytes(new[j]), b \in Bytes(new[k])
               PROVE  j = k
    BY <1>6 DEF Disjoint
  <2>1. b \in Bytes(list[j]) /\ b \in Bytes(list[k])
    BY <1>9
  <2> QED
    BY <2>1 DEF Disjoint
<1>11. \A b \in Nat : b \in Bytes(taken) => b \in Bytes(list[i])
  BY <1>7
<1>12. \A b \in Nat : Covered(list, b) <=> Covered(new, b) \/ b \in Bytes(taken)
  BY <1>6, <1>9, <1>11 DEF Covered
<1>13. \A b \in Nat : ~(Covered(new, b) /\ b \in Bytes(taken))
  <2> SUFFICES ASSUME NEW b \in Nat, NEW j \in DOMAIN new, b \in Bytes(new[j]), b \in Bytes(taken)
               PROVE  FALSE
    BY DEF Covered
  <2>1. b \in Bytes(list[j]) /\ j # i /\ b \in Bytes(list[i])
    BY <1>6, <1>9, <1>11
  <2> QED
    BY <1>6, <2>1 DEF Disjoint
<1>14. Positive(list) => Positive(new)
  BY <1>3, <1>6 DEF Positive
<1>15. ASSUME Ordered(list) PROVE Ordered(new)
  <2> SUFFICES ASSUME NEW j \in DOMAIN list, NEW k \in DOMAIN list, j < k
               PROVE  End(new[j]) < new[k][1]
    BY <1>6 DEF Ordered
  <2>1. End(list[j]) < list[k][1] /\ list[k][1] \in Nat /\ End(list[j]) \in Nat
    BY <1>1, <1>15, SMTT(30) DEF Ordered, End
  <2>2. End(new[j]) = End(list[j])
    BY <1>2, <1>3, <1>6
  <2>3. new[k][1] \in Nat /\ list[k][1] <= new[k][1]
    BY <1>1, <1>2, <1>3, <1>6 DEF a
  <2> QED
    BY <2>1, <2>2, <2>3
<1> QED
  BY <1>6, <1>10, <1>12, <1>13, <1>14, <1>15 DEF Shrunk, taken, a

LEMMA RemovalShrinks ==
    ASSUME NEW list \in Seq(Entries), Disjoint(list), NEW i \in DOMAIN list,
           NEW new, new = RemoveAt(list, i)
    PROVE  Shrunk(list, new, <<list[i][1], list[i][2]>>)
<1> DEFINE taken == <<list[i][1], list[i][2]>>
           q(j) == IF j < i THEN j ELSE j + 1
<1>1. Len(list) \in Nat /\ DOMAIN list = 1 .. Len(list) /\ i \in 1 .. Len(list)
  OBVIOUS
<1>2. /\ new \in Seq(Entries) /\ DOMAIN new = 1 .. Len(list) - 1
      /\ \A j \in DOMAIN new : new[j] = list[q(j)]
  BY RemovedAt
<1>3. \A j \in DOMAIN new : q(j) \in DOMAIN list /\ q(j) # i
  BY <1>1, <1>2
<1>4. \A j, k \in DOMAIN new : j < k => q(j) < q(k)
  BY <1>1, <1>2
<1>5. \A k \in DOMAIN list : k # i => \E j \in DOMAIN new : q(j) = k
  <2> SUFFICES ASSUME NEW k \in DOMAIN list, k # i PROVE \E j \in DOMAIN new : q(j) = k
    OBVIOUS
  <2>1. CASE k < i
    <3>1. k \in DOMAIN new /\ q(k) = k
      BY <1>1, <1>2, <2>1
    <3> QED
      BY <3>1
  <2>2. CASE ~(k < i)
    <3>1. k - 1 \in DOMAIN new /\ q(k - 1) = k
      BY <1>1, <1>2, <2>2
    <3> QED
      BY <3>1
  <2> QED
    BY <2>1, <2>2
<1>6. \A j, k \in DOMAIN new : q(j) = q(k) => j = k
  BY <1>1, <1>2, <1>4
<1> HIDE DEF q
<1>7. Bytes(taken) = Bytes(list[i])
  BY DEF Bytes, End
<1> HIDE DEF taken
<1>8. Disjoint(new)
  BY <1>2, <1>3, <1>6 DEF Disjoint
<1>9. \A b \in Nat : Covered(list, b) <=> Covered(new, b) \/ b \in Bytes(taken)
  <2> SUFFICES ASSUME NEW b \in Nat PROVE Covered(list, b) <=> Covered(new, b) \/ b \in Bytes(taken)
    OBVIOUS
  <2>1. ASSUME Covered(list, b) PROVE Covered(new, b) \/ b \in Bytes(taken)
    <3>1. PICK k \in DOMAIN list : b \in Bytes(list[k])
      BY <2>1 DEF Covered
    <3>2. CASE k = i
      BY <1>7, <3>1, <3>2
    <3>3. CASE k # i
      BY <1>2, <1>5, <3>1, <3>3 DEF Covered
    <3> QED
      BY <3>2, <3>3
  <2>2. ASSUME Covered(new, b) \/ b \in Bytes(taken) PROVE Covered(list, b)
    BY <1>2, <1>3, <1>7, <2>2 DEF Covered
  <2> QED
    BY <2>1, <2>2
<1>10. \A b \in Nat : ~(Covered(new, b) /\ b \in Bytes(taken))
  BY <1>2, <1>3, <1>7 DEF Covered, Disjoint
<1>11. Positive(list) => Positive(new)
  BY <1>2, <1>3 DEF Positive
<1>12. Ordered(list) => Ordered(new)
  BY <1>2, <1>3, <1>4 DEF Ordered
<1> QED
  BY <1>2, <1>8, <1>9, <1>10, <1>11, <1>12 DEF Shrunk, taken

LEMMA TakenShrinks ==
    ASSUME NEW h, h.freelist \in Seq(Entries), Disjoint(h.freelist), NEW i \in DOMAIN h.freelist,
           NEW size \in Nat, size <= h.freelist[i][2]
    PROVE  Shrunk(h.freelist, Taken(h, i, size), <<h.freelist[i][1], size>>)
<1> DEFINE list == h.freelist
<1>1. list[i][2] \in Nat
  BY EntryAt
<1>2. Taken(h, i, size) = IF list[i][2] > size
                          THEN [list EXCEPT ![i] = <<list[i][1] + size, list[i][2] - size>>]
                          ELSE RemoveAt(list, i)
  BY DEF Taken
<1> HIDE DEF list
<1>3. list \in Seq(Entries) /\ Disjoint(list) /\ i \in DOMAIN list /\ size <= list[i][2]
  BY DEF list
<1>4. CASE list[i][2] > size
  <2>1. Taken(h, i, size) = [list EXCEPT ![i] = <<list[i][1] + size, list[i][2] - size>>]
    BY <1>2, <1>4
  <2>2. size < list[i][2]
    BY <1>1, <1>4
  <2>3. Shrunk(list, Taken(h, i, size), <<list[i][1], size>>)
    BY <1>3, <2>1, <2>2, SplitShrinks
  <2> QED
    BY <2>3 DEF list
<1>5. CASE ~(list[i][2] > size)
  <2>1. Taken(h, i, size) = RemoveAt(list, i) /\ size = list[i][2]
    BY <1>1, <1>2, <1>3, <1>5
  <2>2. Shrunk(list, Taken(h, i, size), <<list[i][1], list[i][2]>>)
    BY <1>3, <2>1, RemovalShrinks
  <2> QED
    BY <2>1, <2>2 DEF list
<1> QED
  BY <1>4, <1>5

-----------------------------------------------------------------------------
(* The allocated regions. *)
Maps == UNION {[D -> Nat] : D \in SUBSET Nat}
Region(map, a) == Bytes(<<a, map[a]>>)
Owned(map, b) == \E a \in DOMAIN map : b \in Region(map, a)
OwnedOnce(map) ==
    \A a, c \in DOMAIN map : \A b \in Nat : b \in Region(map, a) /\ b \in Region(map, c) => a = c

LEMMA MapFacts ==
    ASSUME NEW map \in Maps
    PROVE  DOMAIN map \subseteq Nat /\ \A a \in DOMAIN map : map[a] \in Nat
BY DEF Maps

LEMMA MapExtended ==
    ASSUME NEW map \in Maps, NEW a \in Nat, NEW v \in Nat, NEW new, new = Extended(map, a, v)
    PROVE  /\ new \in Maps /\ DOMAIN new = DOMAIN map \cup {a} /\ new[a] = v
           /\ \A c \in DOMAIN map : c # a => new[c] = map[c]
<1> DEFINE D == DOMAIN map \cup {a}
<1>1. new = [c \in D |-> IF c = a THEN v ELSE map[c]]
  BY DEF Extended
<1>2. D \in SUBSET Nat /\ \A c \in D : (IF c = a THEN v ELSE map[c]) \in Nat
  BY MapFacts
<1> HIDE DEF D
<1>3. new \in [D -> Nat]
  BY <1>1, <1>2
<1>4. new \in Maps
  BY <1>2, <1>3 DEF Maps
<1> QED
  BY <1>1, <1>4 DEF D

(* An allocation adds its region to those of the map. *)
LEMMA RegionAdded ==
    ASSUME NEW map \in Maps, OwnedOnce(map), NEW a \in Nat \ DOMAIN map, NEW v \in Nat,
           \A b \in Nat : ~(Owned(map, b) /\ b \in Bytes(<<a, v>>)),
           NEW new, new = Extended(map, a, v)
    PROVE  /\ OwnedOnce(new)
           /\ \A b \in Nat : Owned(new, b) <=> Owned(map, b) \/ b \in Bytes(<<a, v>>)
<1>1. /\ DOMAIN new = DOMAIN map \cup {a} /\ new[a] = v
      /\ \A c \in DOMAIN map : c # a => new[c] = map[c]
  BY MapExtended
<1>2. /\ Region(new, a) = Bytes(<<a, v>>)
      /\ \A c \in DOMAIN map : Region(new, c) = Region(map, c)
  BY <1>1 DEF Region
<1>3. \A b \in Nat : Owned(new, b) <=> Owned(map, b) \/ b \in Bytes(<<a, v>>)
  BY <1>1, <1>2 DEF Owned
<1>4. OwnedOnce(new)
  <2> SUFFICES ASSUME NEW c \in DOMAIN new, NEW d \in DOMAIN new, NEW b \in Nat,
                      b \in Region(new, c), b \in Region(new, d)
               PROVE  c = d
    BY DEF OwnedOnce
  <2>1. CASE c \in DOMAIN map /\ d \in DOMAIN map
    BY <1>2, <2>1 DEF OwnedOnce
  <2>2. CASE c = a \/ d = a
    BY <1>1, <1>2, <2>2 DEF Owned
  <2> QED
    BY <1>1, <2>1, <2>2
<1> QED
  BY <1>3, <1>4

(* Freeing takes one region out of the map. *)
LEMMA RegionRemoved ==
    ASSUME NEW map \in Maps, OwnedOnce(map), NEW a \in DOMAIN map,
           NEW new, DOMAIN new = DOMAIN map \ {a}, \A c \in DOMAIN new : new[c] = map[c]
    PROVE  /\ OwnedOnce(new)
           /\ \A b \in Nat : Owned(map, b) <=> Owned(new, b) \/ b \in Bytes(<<a, map[a]>>)
           /\ \A b \in Nat : ~(Owned(new, b) /\ b \in Bytes(<<a, map[a]>>))
<1> DEFINE D == DOMAIN map \ {a}
<1>1. DOMAIN new = D /\ \A c \in D : new[c] = map[c]
  OBVIOUS
<1>2. \A c \in D : Region(new, c) = Region(map, c)
  BY <1>1 DEF Region
<1>3. Region(map, a) = Bytes(<<a, map[a]>>)
  BY DEF Region
<1>4. OwnedOnce(new)
  BY <1>1, <1>2 DEF OwnedOnce
<1>5. \A b \in Nat : Owned(map, b) <=> Owned(new, b) \/ b \in Region(map, a)
  BY <1>1, <1>2 DEF Owned
<1>6. \A b \in Nat : ~(Owned(new, b) /\ b \in Region(map, a))
  BY <1>1, <1>2 DEF Owned, OwnedOnce
<1> QED
  BY <1>3, <1>4, <1>5, <1>6

-----------------------------------------------------------------------------
(* What free does to the list. *)
LEMMA Appended ==
    ASSUME NEW list \in Seq(Entries), NEW e \in Entries, Disjoint(list),
           \A b \in Nat : ~(Covered(list, b) /\ b \in Bytes(e)),
           NEW new, new = Append(list, e)
    PROVE  /\ new \in Seq(Entries) /\ Len(new) = Len(list) + 1 /\ Disjoint(new)
           /\ new[Len(list) + 1] = e /\ \A i \in 1 .. Len(list) : new[i] = list[i]
           /\ \A b \in Nat : Covered(new, b) <=> Covered(list, b) \/ b \in Bytes(e)
           /\ Positive(list) /\ e[2] > 0 => Positive(new)
<1> DEFINE n == Len(list)
<1>1. n \in Nat /\ DOMAIN list = 1 .. n
  OBVIOUS
<1>2. /\ new \in Seq(Entries) /\ Len(new) = n + 1
      /\ new[n + 1] = e /\ \A i \in 1 .. n : new[i] = list[i]
  OBVIOUS
<1>3. DOMAIN new = 1 .. n + 1
  BY <1>1, <1>2
<1> HIDE DEF n
<1>4. \A i \in DOMAIN new : i = n + 1 \/ i \in 1 .. n
  BY <1>1, <1>3
<1>5. n + 1 \in DOMAIN new /\ 1 .. n \subseteq DOMAIN new
  BY <1>1, <1>3
<1>6. \A b \in Nat : Covered(new, b) <=> Covered(list, b) \/ b \in Bytes(e)
  BY <1>1, <1>2, <1>4, <1>5 DEF Covered
<1>7. Disjoint(new)
  <2> SUFFICES ASSUME NEW i \in DOMAIN new, NEW j \in DOMAIN new, NEW b \in Nat,
                      b \in Bytes(new[i]), b \in Bytes(new[j])
               PROVE  i = j
    BY DEF Disjoint
  <2>1. CASE i \in 1 .. n /\ j \in 1 .. n
    BY <1>1, <1>2, <2>1 DEF Disjoint
  <2>2. CASE i = n + 1 /\ j = n + 1
    BY <2>2
  <2>3. CASE i = n + 1 /\ j \in 1 .. n
    BY <1>1, <1>2, <2>3 DEF Covered
  <2>4. CASE i \in 1 .. n /\ j = n + 1
    BY <1>1, <1>2, <2>4 DEF Covered
  <2> QED
    BY <1>4, <2>1, <2>2, <2>3, <2>4
<1>8. Positive(list) /\ e[2] > 0 => Positive(new)
  BY <1>1, <1>2, <1>4 DEF Positive
<1> QED
  BY <1>1, <1>2, <1>6, <1>7, <1>8 DEF n

LEMMA Prepended ==
    ASSUME NEW list \in Seq(Entries), NEW e \in Entries
    PROVE  Rearranged(Append(list, e), <<e>> \o list)
<1> DEFINE n == Len(list)
           old == Append(list, e)
           new == <<e>> \o list
           q == [k \in 1 .. n + 1 |-> IF k = 1 THEN n + 1 ELSE k - 1]
<1>1. n \in Nat /\ old \in Seq(Entries) /\ DOMAIN old = 1 .. n + 1
      /\ old[n + 1] = e /\ \A i \in 1 .. n : old[i] = list[i]
  OBVIOUS
<1>2. <<e>> \in Seq(Entries) /\ Len(<<e>>) = 1 /\ <<e>>[1] = e
  OBVIOUS
<1>3. /\ new \in Seq(Entries) /\ Len(new) = 1 + n
      /\ \A k \in 1 .. 1 + n : new[k] = IF k <= 1 THEN <<e>>[k] ELSE list[k - 1]
  BY <1>2, ConcatProperties
<1> HIDE DEF n, old, new
<1>4. DOMAIN new = 1 .. n + 1
  BY <1>1, <1>3
<1>5. q \in [1 .. n + 1 -> 1 .. n + 1]
  BY <1>1
<1>6. \A k \in 1 .. n + 1 : new[k] = old[q[k]]
  <2> SUFFICES ASSUME NEW k \in 1 .. n + 1 PROVE new[k] = old[q[k]]
    OBVIOUS
  <2>1. CASE k = 1
    BY <1>1, <1>2, <1>3, <2>1
  <2>2. CASE k # 1
    <3>1. k - 1 \in 1 .. n /\ ~(k <= 1) /\ k \in 1 .. 1 + n
      BY <1>1, <2>2
    <3> QED
      BY <1>1, <1>3, <2>2, <3>1
  <2> QED
    BY <2>1, <2>2
<1>7. \A k, l \in 1 .. n + 1 : q[k] = q[l] => k = l
  BY <1>1
<1>8. \A i \in 1 .. n + 1 : \E k \in 1 .. n + 1 : q[k] = i
  <2> SUFFICES ASSUME NEW i \in 1 .. n + 1 PROVE \E k \in 1 .. n + 1 : q[k] = i
    OBVIOUS
  <2>1. CASE i = n + 1
    <3>1. 1 \in 1 .. n + 1 /\ q[1] = i
      BY <1>1, <2>1
    <3> QED
      BY <3>1
  <2>2. CASE i # n + 1
    <3>1. i + 1 \in 1 .. n + 1 /\ q[i + 1] = i
      BY <1>1, <2>2
    <3> QED
      BY <3>1
  <2> QED
    BY <2>1, <2>2
<1> HIDE DEF q
<1>9. Rearranged(old, new)
  <2>1. q \in [DOMAIN new -> DOMAIN old]
    BY <1>1, <1>4, <1>5
  <2>2. /\ \A k, l \in DOMAIN new : q[k] = q[l] => k = l
        /\ \A i \in DOMAIN old : \E k \in DOMAIN new : q[k] = i
        /\ \A k \in DOMAIN new : new[k] = old[q[k]]
    BY <1>1, <1>4, <1>6, <1>7, <1>8
  <2> QED
    BY <1>3, <2>1, <2>2, Zenon DEF Rearranged
<1> QED
  BY <1>9 DEF old, new

LEMMA Unmoved == ASSUME NEW list \in Seq(Entries) PROVE Rearranged(list, list)
<1> DEFINE q == [k \in DOMAIN list |-> k]
<1>1. /\ q \in [DOMAIN list -> DOMAIN list]
      /\ \A k, l \in DOMAIN list : q[k] = q[l] => k = l
      /\ \A i \in DOMAIN list : q[i] = i
      /\ \A k \in DOMAIN list : list[k] = list[q[k]]
  OBVIOUS
<1> HIDE DEF q
<1> QED
  BY <1>1, Zenon DEF Rearranged

Orders == {"ADDRSORT", "SIZESORT+", "SIZESORT-", "INSERT-FRONT", "INSERT-BACK"}

(* In every order the entry that comes back joins the others; with ADDRSORT the
   addresses do not decrease. *)
LEMMA ReturnedRearranged ==
    ASSUME NEW list \in Seq(Entries), NEW e \in Entries, NEW order \in Orders,
           NEW new, new = Returned(order, list, e)
    PROVE  /\ Rearranged(Append(list, e), new)
           /\ order = "ADDRSORT" =>
                \A i, j \in DOMAIN new : i < j => new[i][1] <= new[j][1]
<1> DEFINE longer == Append(list, e)
           addresses == [i \in DOMAIN longer |-> longer[i][1]]
           sizes == [i \in DOMAIN longer |-> longer[i][2]]
           negated == [i \in DOMAIN sizes |-> -sizes[i]]
<1>1. longer \in Seq(Entries)
  OBVIOUS
<1>2. new = CASE order = "INSERT-BACK" -> longer
              [] order = "INSERT-FRONT" -> <<e>> \o list
              [] order = "ADDRSORT" -> SortedBy(longer, addresses)
              [] order = "SIZESORT+" -> SortedBy(longer, sizes)
              [] order = "SIZESORT-" -> SortedBy(longer, negated)
  BY DEF Returned
<1> HIDE DEF longer
<1>3. \A i \in DOMAIN longer : longer[i][1] \in Nat /\ longer[i][2] \in Nat
  BY <1>1, EntryAt
<1>4. /\ addresses \in [DOMAIN longer -> Int] /\ sizes \in [DOMAIN longer -> Int]
      /\ negated \in [DOMAIN longer -> Int]
  BY <1>3
<1>5. \A i \in DOMAIN longer : addresses[i] = longer[i][1]
  OBVIOUS
<1> HIDE DEF addresses, sizes, negated
<1>6. CASE order = "INSERT-BACK"
  BY <1>1, <1>2, <1>6, Unmoved DEF longer
<1>7. CASE order = "INSERT-FRONT"
  <2>1. new = <<e>> \o list
    BY <1>2, <1>7
  <2> QED
    BY <1>7, <2>1, Prepended
<1>8. CASE order = "ADDRSORT"
  <2>1. new = SortedBy(longer, addresses)
    BY <1>2, <1>8
  <2>2. Rearranged(longer, new) /\ DOMAIN new = DOMAIN longer
    BY <1>1, <1>4, <2>1, Sorts
  <2>3. PICK q \in [DOMAIN longer -> DOMAIN longer] :
           /\ \A k \in DOMAIN longer : new[k] = longer[q[k]]
           /\ \A k, l \in DOMAIN longer : k < l => addresses[q[k]] <= addresses[q[l]]
    <3>1. \E q \in [DOMAIN longer -> DOMAIN longer] :
             /\ \A k \in DOMAIN longer : SortedBy(longer, addresses)[k] = longer[q[k]]
             /\ \A k, l \in DOMAIN longer : k < l => addresses[q[k]] <= addresses[q[l]]
      BY <1>1, <1>4, Sorts, Zenon
    <3> QED
      BY <2>1, <3>1, Zenon
  <2>4. \A k, l \in DOMAIN new : k < l => new[k][1] <= new[l][1]
    BY <1>5, <2>2, <2>3
  <2> QED
    BY <2>2, <2>4 DEF longer
<1>9. CASE order = "SIZESORT+"
  <2>1. new = SortedBy(longer, sizes)
    BY <1>2, <1>9
  <2>2. Rearranged(longer, new)
    BY <1>1, <1>4, <2>1, Sorts
  <2> QED
    BY <1>9, <2>2 DEF longer
<1>10. CASE order = "SIZESORT-"
  <2>1. new = SortedBy(longer, negated)
    BY <1>2, <1>10
  <2>2. Rearranged(longer, new)
    BY <1>1, <1>4, <2>1, Sorts
  <2> QED
    BY <1>10, <2>2 DEF longer
<1> QED
  BY <1>6, <1>7, <1>8, <1>9, <1>10 DEF Orders

-----------------------------------------------------------------------------
(***************************************************************************)
(* The inductive invariant.  Until an assertion fails, the free entries    *)
(* and the allocated regions are disjoint and cover the heap; while no     *)
(* allocation was of no bytes, no entry is empty, and a coalesced list in  *)
(* address order has gaps between its entries.                             *)
(***************************************************************************)
HeapType ==
    [opt : Settings, freelist : Seq(Entries), sizemap : Maps, p : Maps, c : Nat, ops : Nat,
     empty : BOOLEAN, error : BOOLEAN]

Apart(list, map) ==
    /\ Disjoint(list)
    /\ OwnedOnce(map)
    /\ \A b \in Nat : ~(Covered(list, b) /\ Owned(map, b))

HeapBytes(h) == baseAddr .. baseAddr + h.opt.size - 1

Space(h) ==
    /\ Apart(h.freelist, h.sizemap)
    /\ \A b \in HeapBytes(h) : Covered(h.freelist, b) \/ Owned(h.sizemap, b)

NoEmptyRegion(h) ==
    ~h.empty => Positive(h.freelist) /\ \A a \in DOMAIN h.sizemap : h.sizemap[a] > 0

InOrder(h) ==
    h.opt.coalesce /\ h.opt.order = "ADDRSORT" /\ ~h.empty => Ordered(h.freelist)

Numbered(h) == DOMAIN h.p \subseteq 0 .. h.c - 1

HeapInv ==
    /\ heap \in HeapType
    /\ Numbered(heap)
    /\ CollidesAtZero(heap)
    /\ ~heap.error => Space(heap) /\ NoEmptyRegion(heap) /\ InOrder(heap)

LEMMA OptFacts ==
    ASSUME NEW o \in Settings
    PROVE  /\ o.size \in Nat \ {0} /\ o.headerSize \in Nat /\ o.order \in Orders
           /\ o.align = NoAlign \/ o.align \in Nat \ {0}
           /\ o.policy \in {"BEST", "WORST", "FIRST"} /\ o.coalesce \in BOOLEAN
BY SettingsAssumption DEF Orders

(* The invariant gives the property. *)
LEMMA SpaceTiled == ASSUME NEW h \in HeapType, Space(h) PROVE Tiled(h)
<1>1. h.freelist \in Seq(Entries) /\ h.sizemap \in Maps /\ h.opt.size \in Nat
  BY OptFacts DEF HeapType
<1> SUFFICES ASSUME NEW b \in HeapBytes(h)
             PROVE  Cardinality({r \in Regions(h) : b \in Bytes(Entry(h, r))}) = 1
  BY DEF Tiled, HeapBytes
<1> DEFINE S == {r \in Regions(h) : b \in Bytes(Entry(h, r))}
<1>2. b \in Nat
  BY <1>1 DEF HeapBytes, baseAddr
<1>3. \A i : Entry(h, <<"free", i>>) = h.freelist[i]
  BY DEF Entry
<1>4. \A a : Entry(h, <<"used", a>>) = <<a, h.sizemap[a]>>
  BY DEF Entry
<1>5. \A r \in Regions(h) : \/ \E i \in DOMAIN h.freelist : r = <<"free", i>>
                            \/ \E a \in DOMAIN h.sizemap : r = <<"used", a>>
  BY DEF Regions, FreeEntries
<1>6. \A r \in S : \/ \E i \in DOMAIN h.freelist : r = <<"free", i>> /\ b \in Bytes(h.freelist[i])
                   \/ \E a \in DOMAIN h.sizemap : r = <<"used", a>> /\ b \in Region(h.sizemap, a)
  <2> SUFFICES ASSUME NEW r \in S
               PROVE  \/ \E i \in DOMAIN h.freelist : r = <<"free", i>> /\ b \in Bytes(h.freelist[i])
                      \/ \E a \in DOMAIN h.sizemap : r = <<"used", a>> /\ b \in Region(h.sizemap, a)
    OBVIOUS
  <2>1. ASSUME NEW i \in DOMAIN h.freelist, r = <<"free", i>> PROVE b \in Bytes(h.freelist[i])
    BY <1>3, <2>1
  <2>2. ASSUME NEW a \in DOMAIN h.sizemap, r = <<"used", a>> PROVE b \in Region(h.sizemap, a)
    BY <1>4, <2>2 DEF Region
  <2> QED
    BY <1>5, <2>1, <2>2
<1>7. S # {}
  <2>1. CASE Covered(h.freelist, b)
    <3>1. PICK i \in DOMAIN h.freelist : b \in Bytes(h.freelist[i])
      BY <2>1 DEF Covered
    <3>2. <<"free", i>> \in Regions(h)
      BY DEF Regions, FreeEntries
    <3>3. <<"free", i>> \in S
      BY <1>3, <3>1, <3>2
    <3> QED
      BY <3>3
  <2>2. CASE Owned(h.sizemap, b)
    <3>1. PICK a \in DOMAIN h.sizemap : b \in Region(h.sizemap, a)
      BY <2>2 DEF Owned
    <3>2. <<"used", a>> \in Regions(h)
      BY DEF Regions
    <3>3. <<"used", a>> \in S
      BY <1>4, <3>1, <3>2 DEF Region
    <3> QED
      BY <3>3
  <2> QED
    BY <2>1, <2>2 DEF Space
<1>8. \A r1, r2 \in S : r1 = r2
  <2> SUFFICES ASSUME NEW r1 \in S, NEW r2 \in S PROVE r1 = r2
    OBVIOUS
  <2> HIDE DEF S
  <2>1. ~(Covered(h.freelist, b) /\ Owned(h.sizemap, b))
    BY <1>2 DEF Space, Apart
  <2>2. ASSUME NEW i \in DOMAIN h.freelist, NEW j \in DOMAIN h.freelist,
               b \in Bytes(h.freelist[i]), b \in Bytes(h.freelist[j])
        PROVE  i = j
    BY <1>2, <2>2 DEF Space, Apart, Disjoint
  <2>3. ASSUME NEW a \in DOMAIN h.sizemap, NEW c \in DOMAIN h.sizemap,
               b \in Region(h.sizemap, a), b \in Region(h.sizemap, c)
        PROVE  a = c
    BY <1>2, <2>3 DEF Space, Apart, OwnedOnce
  <2>4. CASE Covered(h.freelist, b)
    <3>1. \A a \in DOMAIN h.sizemap : b \notin Region(h.sizemap, a)
      BY <2>1, <2>4 DEF Owned
    <3>2. PICK i \in DOMAIN h.freelist : r1 = <<"free", i>> /\ b \in Bytes(h.freelist[i])
      BY <1>6, <3>1
    <3>3. PICK j \in DOMAIN h.freelist : r2 = <<"free", j>> /\ b \in Bytes(h.freelist[j])
      BY <1>6, <3>1
    <3> QED
      BY <2>2, <3>2, <3>3
  <2>5. CASE ~Covered(h.freelist, b)
    <3>1. \A i \in DOMAIN h.freelist : b \notin Bytes(h.freelist[i])
      BY <2>5 DEF Covered
    <3>2. PICK a \in DOMAIN h.sizemap : r1 = <<"used", a>> /\ b \in Region(h.sizemap, a)
      BY <1>6, <3>1
    <3>3. PICK c \in DOMAIN h.sizemap : r2 = <<"used", c>> /\ b \in Region(h.sizemap, c)
      BY <1>6, <3>1
    <3> QED
      BY <2>3, <3>2, <3>3
  <2> QED
    BY <2>4, <2>5
<1> HIDE DEF S
<1>9. PICK r \in S : S = {r}
  BY <1>7, <1>8
<1> QED
  BY <1>9, FS_Singleton DEF S

LEMMA OrderedWhole ==
    ASSUME NEW h \in HeapType, NoEmptyRegion(h), InOrder(h)
    PROVE  Whole(h)
<1> SUFFICES ASSUME h.opt.coalesce, h.opt.order = "ADDRSORT", ~h.empty,
                    NEW i \in DOMAIN h.freelist, NEW j \in DOMAIN h.freelist,
                    h.freelist[j][1] = End(h.freelist[i])
             PROVE  FALSE
  BY DEF Whole
<1> DEFINE list == h.freelist
<1>1. list \in Seq(Entries)
  BY DEF HeapType
<1>2. Positive(list) /\ Ordered(list)
  BY DEF NoEmptyRegion, InOrder
<1> HIDE DEF list
<1>3. /\ Len(list) \in Nat /\ DOMAIN list = 1 .. Len(list)
      /\ \A k \in DOMAIN list : list[k][1] \in Nat /\ list[k][2] \in Nat
  BY <1>1, EntryAt
<1>4. i \in DOMAIN list /\ j \in DOMAIN list /\ list[j][1] = End(list[i])
  BY DEF list
<1>5. list[i][2] > 0 /\ list[j][2] > 0 /\ list[i][1] \in Nat /\ list[j][1] \in Nat
      /\ list[i][2] \in Nat /\ list[j][2] \in Nat
  BY <1>2, <1>3, <1>4 DEF Positive
<1>6. ~(i < j)
  BY <1>2, <1>4, <1>5 DEF Ordered, End
<1>7. ~(j < i)
  BY <1>2, <1>4, <1>5 DEF Ordered, End
<1>8. i = j
  BY <1>3, <1>4, <1>6, <1>7
<1> QED
  BY <1>4, <1>5, <1>8 DEF End

LEMMA InvTiled == HeapInv => HeapTiled
<1> SUFFICES ASSUME HeapInv PROVE HeapTiled
  OBVIOUS
<1>1. heap \in HeapType
  BY DEF HeapInv
<1>2. HeapTypeOK
  <2>1. heap.freelist \in Seq(Entries) /\ heap.sizemap \in Maps /\ heap.p \in Maps
    BY <1>1 DEF HeapType
  <2>2. \A i \in DOMAIN heap.freelist : heap.freelist[i] \in Nat \X Nat
    BY <2>1 DEF Entries
  <2>3. heap.sizemap \in [DOMAIN heap.sizemap -> Nat]
    BY <2>1 DEF Maps
  <2>4. Range(heap.p) \subseteq Nat
    BY <2>1, MapFacts DEF Range
  <2> QED
    BY <2>2, <2>3, <2>4 DEF HeapTypeOK
<1> QED
  BY <1>1, <1>2, SpaceTiled, OrderedWhole DEF HeapInv, HeapTiled

-----------------------------------------------------------------------------
LEMMA InitHeapInv == HeapInit => HeapInv
<1> SUFFICES ASSUME HeapInit PROVE HeapInv
  OBVIOUS
<1>1. PICK o \in Settings :
        heap = [opt |-> o, freelist |-> <<<<baseAddr, o.size>>>>, sizemap |-> [a \in {} |-> 0],
                p |-> [c \in {} |-> 0], c |-> 0, ops |-> 0, empty |-> FALSE, error |-> FALSE]
  BY DEF HeapInit, NewHeaps
<1> DEFINE e == <<baseAddr, o.size>>
           list == <<e>>
           none == [a \in {} |-> 0]
<1>2. o.size \in Nat \ {0}
  BY OptFacts
<1>3. e \in Entries /\ e[1] = baseAddr /\ e[2] = o.size
  BY <1>2 DEF Entries, baseAddr
<1>4. /\ heap.opt = o /\ heap.freelist = list /\ heap.sizemap = none /\ heap.p = none
      /\ heap.c = 0 /\ ~heap.empty /\ ~heap.error
  BY <1>1
<1>5. none \in Maps /\ DOMAIN none = {}
  <2>1. none \in [{} -> Nat] /\ {} \in SUBSET Nat
    OBVIOUS
  <2> QED
    BY <2>1 DEF Maps
<1>6. list \in Seq(Entries) /\ DOMAIN list = {1} /\ list[1] = e
  BY <1>3
<1>7. heap \in HeapType
  BY <1>1, <1>5, <1>6 DEF HeapType
<1> HIDE DEF list, none, e
<1>8. Apart(list, none)
  BY <1>5, <1>6 DEF Apart, Disjoint, OwnedOnce, Owned
<1>9. \A b \in HeapBytes(heap) : Covered(list, b)
  <2> SUFFICES ASSUME NEW b \in HeapBytes(heap) PROVE b \in Bytes(list[1])
    BY <1>6 DEF Covered
  <2> QED
    BY <1>2, <1>3, <1>4, <1>6 DEF HeapBytes, Bytes, End, baseAddr
<1>10. Space(heap)
  BY <1>4, <1>8, <1>9 DEF Space
<1>11. NoEmptyRegion(heap)
  BY <1>2, <1>3, <1>4, <1>5, <1>6 DEF NoEmptyRegion, Positive
<1>12. InOrder(heap)
  BY <1>4, <1>6 DEF InOrder, Ordered
<1>13. Numbered(heap) /\ CollidesAtZero(heap)
  BY <1>4, <1>5 DEF Numbered, CollidesAtZero
<1> QED
  BY <1>7, <1>10, <1>11, <1>12, <1>13 DEF HeapInv

(* The size looked for. *)
LEMMA NeededType ==
    ASSUME NEW h, h.opt \in Settings, NEW size \in Nat
    PROVE  Needed(h, size) \in Nat
<1>1. h.opt.headerSize \in Nat /\ (h.opt.align = NoAlign \/ h.opt.align \in Nat \ {0})
  BY OptFacts
<1>2. CASE h.opt.align = NoAlign
  BY <1>1, <1>2 DEF Needed
<1>3. CASE h.opt.align \in Nat \ {0} /\ h.opt.align # NoAlign
  <2> DEFINE left == size % h.opt.align
  <2>1. left \in 0 .. h.opt.align - 1
    BY <1>3
  <2>2. Needed(h, size) = size + h.opt.headerSize + (IF left = 0 THEN 0 ELSE h.opt.align - left)
    BY <1>3 DEF Needed
  <2> HIDE DEF left
  <2> QED
    BY <1>1, <1>3, <2>1, <2>2
<1> QED
  BY <1>1, <1>2, <1>3

(* What AllocOp leaves behind, by the outcome of malloc. *)
LEMMA AllocFields ==
    ASSUME heap \in HeapType, ~heap.error => Disjoint(heap.freelist),
           NEW size \in AllocSizes, AllocOp(size)
    PROVE  LET need == Needed(heap, size)
               i == Chosen(heap, need)
               a == heap.freelist[i][1]
           IN
           /\ ~heap.error /\ need \in Nat
           /\ i = 0 \/ (i # 0 /\ i \in DOMAIN heap.freelist /\ heap.freelist[i][2] >= need)
           /\ heap' \in HeapType
           /\ heap'.opt = heap.opt /\ heap'.c = heap.c + 1 /\ heap'.ops = heap.ops + 1
           /\ heap'.empty <=> heap.empty \/ need = 0
           /\ i = 0 => /\ heap'.freelist = heap.freelist /\ heap'.sizemap = heap.sizemap
                       /\ heap'.p = heap.p /\ ~heap'.error
           /\ i # 0 => /\ heap'.freelist = Taken(heap, i, need) /\ a \in Nat
                       /\ heap'.p = Extended(heap.p, heap.c, a)
                       /\ heap'.error <=> a \in DOMAIN heap.sizemap
                       /\ heap'.sizemap = IF a \in DOMAIN heap.sizemap THEN heap.sizemap
                                          ELSE Extended(heap.sizemap, a, need)
<1> DEFINE need == Needed(heap, size)
           i == Chosen(heap, need)
           a == heap.freelist[i][1]
           h1 == [heap EXCEPT !.freelist = Taken(heap, i, need)]
           r == malloc(heap, size)
<1>1. /\ heap.opt \in Settings /\ heap.freelist \in Seq(Entries) /\ heap.error \in BOOLEAN
      /\ size \in Nat
  BY SettingsAssumption DEF HeapType
<1>2. need \in Nat /\ ~heap.error
  BY <1>1, NeededType DEF AllocOp, Ready
<1> HIDE DEF need
<1>3. i = 0 \/ (i # 0 /\ i \in DOMAIN heap.freelist /\ heap.freelist[i][2] >= need)
  <2>1. heap.opt.policy \in {"BEST", "WORST", "FIRST"}
    BY <1>1, OptFacts
  <2> QED
    BY <1>1, <1>2, <2>1, ChosenFits
<1>4. i # 0 => a \in Nat
  BY <1>1, <1>3, EntryAt
<1>5. r = IF i = 0 THEN [ptr |-> Nowhere, heap |-> heap] ELSE [ptr |-> a, heap |-> addToMap(h1, a, need)]
  BY DEF malloc, need
<1>6. heap' = [r.heap EXCEPT
                  !.p = IF r.ptr = Nowhere THEN @ ELSE Extended(@, heap.c, r.ptr),
                  !.c = @ + 1,
                  !.empty = @ \/ need = 0,
                  !.ops = @ + 1]
  BY DEF AllocOp, need
<1> HIDE DEF i, a, r
<1>7. CASE i = 0
  <2> DEFINE em == heap.empty \/ need = 0
  <2>1. heap' = [heap EXCEPT !.p = heap.p, !.c = heap.c + 1, !.empty = em, !.ops = heap.ops + 1]
    BY <1>5, <1>6, <1>7 DEF HeapType
  <2>2. em \in BOOLEAN
    OBVIOUS
  <2>3. heap.p \in Maps /\ heap.c + 1 \in Nat /\ heap.ops + 1 \in Nat
    BY DEF HeapType
  <2> HIDE DEF em
  <2>4. /\ heap' \in HeapType
        /\ heap'.opt = heap.opt /\ heap'.c = heap.c + 1 /\ heap'.ops = heap.ops + 1
        /\ heap'.empty = em
        /\ heap'.freelist = heap.freelist /\ heap'.sizemap = heap.sizemap
        /\ heap'.p = heap.p /\ heap'.error = heap.error
    <3> DEFINE k == heap.c + 1
               n == heap.ops + 1
               q == heap.p
    <3>1. heap' = [heap EXCEPT !.p = q, !.c = k, !.empty = em, !.ops = n]
      BY <2>1
    <3>2. q \in Maps /\ k \in Nat /\ n \in Nat
      BY <2>3
    <3> HIDE DEF q, k, n
    <3>3. /\ heap' \in HeapType /\ heap'.opt = heap.opt /\ heap'.freelist = heap.freelist
          /\ heap'.sizemap = heap.sizemap /\ heap'.p = q /\ heap'.c = k /\ heap'.empty = em
          /\ heap'.ops = n /\ heap'.error = heap.error
      BY <2>2, <3>1, <3>2 DEF HeapType
    <3> QED
      BY <3>3 DEF q, k, n
  <2>5. heap'.empty <=> heap.empty \/ need = 0
    BY <2>4 DEF em
  <2> QED
    BY <1>2, <1>3, <1>7, <2>4, <2>5 DEF need, i
<1>8. CASE i # 0
  <2> DEFINE g == addToMap(h1, a, need)
  <2>1. a # Nowhere /\ a \in Nat
    BY <1>4, <1>8 DEF Nowhere
  <2>2. heap' = [g EXCEPT !.p = Extended(g.p, heap.c, a), !.c = g.c + 1,
                          !.empty = g.empty \/ need = 0, !.ops = g.ops + 1]
    <3>1. r.heap = g /\ r.ptr = a
      BY <1>5, <1>8
    <3> HIDE DEF g
    <3> QED
      BY <1>6, <2>1, <3>1
  <2>3. Taken(heap, i, need) \in Seq(Entries)
    <3>1. need <= heap.freelist[i][2]
      BY <1>1, <1>2, <1>3, <1>8, EntryAt
    <3> QED
      BY <1>1, <1>2, <1>3, <1>8, <3>1, TakenShrinks DEF Shrunk
  <2>4. /\ h1.freelist = Taken(heap, i, need) /\ h1.opt = heap.opt /\ h1.sizemap = heap.sizemap
        /\ h1.p = heap.p /\ h1.c = heap.c /\ h1.ops = heap.ops /\ h1.empty = heap.empty
        /\ h1.error = heap.error /\ h1 \in HeapType
    BY <2>3 DEF HeapType
  <2>5. Extended(heap.sizemap, a, need) \in Maps /\ Extended(heap.p, heap.c, a) \in Maps
    <3>1. heap.sizemap \in Maps /\ heap.p \in Maps /\ heap.c \in Nat
      BY DEF HeapType
    <3> QED
      BY <1>2, <2>1, <3>1, MapExtended
  <2> HIDE DEF h1
  <2>6. /\ g \in HeapType /\ g.freelist = Taken(heap, i, need) /\ g.opt = heap.opt
        /\ g.p = heap.p /\ g.c = heap.c /\ g.ops = heap.ops /\ g.empty = heap.empty
        /\ g.error <=> a \in DOMAIN heap.sizemap
        /\ g.sizemap = IF a \in DOMAIN heap.sizemap THEN heap.sizemap
                       ELSE Extended(heap.sizemap, a, need)
    <3>1. CASE a \in DOMAIN heap.sizemap
      <4>1. g = [h1 EXCEPT !.error = TRUE]
        BY <2>4, <3>1 DEF addToMap
      <4> HIDE DEF g
      <4>2. /\ g.freelist = h1.freelist /\ g.opt = h1.opt /\ g.p = h1.p /\ g.c = h1.c
            /\ g.ops = h1.ops /\ g.empty = h1.empty /\ g \in HeapType
            /\ g.error = TRUE /\ g.sizemap = h1.sizemap
        BY <2>4, <4>1 DEF HeapType
      <4> QED
        BY <2>4, <3>1, <4>2
    <3>2. CASE a \notin DOMAIN heap.sizemap
      <4>1. g = [h1 EXCEPT !.sizemap = Extended(heap.sizemap, a, need)]
        BY <2>4, <3>2 DEF addToMap
      <4> HIDE DEF g
      <4>2. /\ g.freelist = h1.freelist /\ g.opt = h1.opt /\ g.p = h1.p /\ g.c = h1.c
            /\ g.ops = h1.ops /\ g.empty = h1.empty /\ g \in HeapType
            /\ g.error = h1.error /\ g.sizemap = Extended(heap.sizemap, a, need)
        BY <2>4, <2>5, <4>1 DEF HeapType
      <4> QED
        BY <1>2, <2>4, <3>2, <4>2
    <3> QED
      BY <3>1, <3>2
  <2> HIDE DEF g
  <2> DEFINE em == g.empty \/ need = 0
  <2>7. em \in BOOLEAN
    OBVIOUS
  <2>8. em <=> heap.empty \/ need = 0
    BY <2>6
  <2>9. Extended(g.p, heap.c, a) \in Maps /\ g.c + 1 \in Nat /\ g.ops + 1 \in Nat
    BY <2>5, <2>6 DEF HeapType
  <2>10. heap' = [g EXCEPT !.p = Extended(g.p, heap.c, a), !.c = g.c + 1, !.empty = em, !.ops = g.ops + 1]
    BY <2>2
  <2> HIDE DEF em
  <2>11. /\ heap' \in HeapType
         /\ heap'.opt = g.opt /\ heap'.c = g.c + 1 /\ heap'.ops = g.ops + 1
         /\ heap'.empty = em
         /\ heap'.freelist = g.freelist /\ heap'.sizemap = g.sizemap
         /\ heap'.p = Extended(g.p, heap.c, a) /\ heap'.error = g.error
    <3> DEFINE k == g.c + 1
               n == g.ops + 1
               q == Extended(g.p, heap.c, a)
    <3>1. heap' = [g EXCEPT !.p = q, !.c = k, !.empty = em, !.ops = n]
      BY <2>10
    <3>2. g \in HeapType /\ q \in Maps /\ k \in Nat /\ n \in Nat
      BY <2>6, <2>9
    <3> HIDE DEF q, k, n
    <3>3. /\ heap' \in HeapType /\ heap'.opt = g.opt /\ heap'.freelist = g.freelist
          /\ heap'.sizemap = g.sizemap /\ heap'.p = q /\ heap'.c = k /\ heap'.empty = em
          /\ heap'.ops = n /\ heap'.error = g.error
      BY <2>7, <3>1, <3>2 DEF HeapType
    <3> QED
      BY <3>3 DEF q, k, n
  <2>12. heap'.empty <=> heap.empty \/ need = 0
    BY <2>8, <2>11
  <2> QED
    BY <1>2, <1>3, <1>4, <1>8, <2>6, <2>11, <2>12 DEF need, i, a
<1> QED
  BY <1>7, <1>8

(* The bytes of an entry that is not empty are there. *)
LEMMA FirstByte ==
    ASSUME NEW a \in Nat, NEW v \in Nat, v > 0
    PROVE  a \in Bytes(<<a, v>>)
BY DEF Bytes, End

(* An allocation takes a free region over. *)
LEMMA AllocSpace ==
    ASSUME NEW list \in Seq(Entries), NEW new, NEW map \in Maps, NEW a \in Nat \ DOMAIN map,
           NEW need \in Nat, NEW all,
           Apart(list, map), Shrunk(list, new, <<a, need>>),
           all \subseteq Nat, \A b \in all : Covered(list, b) \/ Owned(map, b),
           NEW longer, longer = Extended(map, a, need)
    PROVE  /\ Apart(new, longer)
           /\ \A b \in all : Covered(new, b) \/ Owned(longer, b)
<1>1. \A b \in Nat : b \in Bytes(<<a, need>>) => Covered(list, b)
  BY DEF Shrunk
<1>2. \A b \in Nat : ~(Owned(map, b) /\ b \in Bytes(<<a, need>>))
  BY <1>1 DEF Apart
<1>3. /\ OwnedOnce(longer)
      /\ \A b \in Nat : Owned(longer, b) <=> Owned(map, b) \/ b \in Bytes(<<a, need>>)
  BY <1>2, RegionAdded DEF Apart
<1>4. /\ Disjoint(new)
      /\ \A b \in Nat : Covered(list, b) <=> Covered(new, b) \/ b \in Bytes(<<a, need>>)
      /\ \A b \in Nat : ~(Covered(new, b) /\ b \in Bytes(<<a, need>>))
  BY DEF Shrunk
<1>5. \A b \in Nat : ~(Covered(list, b) /\ Owned(map, b))
  BY DEF Apart
<1>6. \A b \in Nat : ~(Covered(new, b) /\ Owned(longer, b))
  BY <1>3, <1>4, <1>5
<1>7. \A b \in all : Covered(new, b) \/ Owned(longer, b)
  BY <1>3, <1>4
<1> QED
  BY <1>3, <1>4, <1>6, <1>7 DEF Apart

LEMMA AllocKeeps ==
    ASSUME HeapInv, NEW size \in AllocSizes, AllocOp(size)
    PROVE  HeapInv'
<1> DEFINE need == Needed(heap, size)
           i == Chosen(heap, need)
           list == heap.freelist
           map == heap.sizemap
           a == list[i][1]
<1>1. heap \in HeapType /\ Numbered(heap)
  BY DEF HeapInv
<1>2. ~heap.error
  BY DEF AllocOp, Ready
<1>3. Space(heap) /\ NoEmptyRegion(heap) /\ InOrder(heap)
  BY <1>2 DEF HeapInv
<1>4. /\ list \in Seq(Entries) /\ map \in Maps /\ heap.p \in Maps /\ heap.c \in Nat
      /\ heap.opt.size \in Nat
  BY <1>1, OptFacts DEF HeapType
<1>5. Disjoint(list) /\ Apart(list, map)
  BY <1>3 DEF Space, Apart
<1>6. /\ need \in Nat
      /\ i = 0 \/ (i # 0 /\ i \in DOMAIN list /\ list[i][2] >= need)
      /\ heap' \in HeapType
      /\ heap'.opt = heap.opt /\ heap'.c = heap.c + 1
      /\ heap'.empty <=> heap.empty \/ need = 0
      /\ i = 0 => /\ heap'.freelist = list /\ heap'.sizemap = map
                  /\ heap'.p = heap.p /\ ~heap'.error
      /\ i # 0 => /\ heap'.freelist = Taken(heap, i, need) /\ a \in Nat
                  /\ heap'.p = Extended(heap.p, heap.c, a)
                  /\ heap'.error <=> a \in DOMAIN map
                  /\ heap'.sizemap = IF a \in DOMAIN map THEN map ELSE Extended(map, a, need)
  BY <1>1, <1>5, AllocFields
<1> HIDE DEF need, i, list, map, a
<1>7. HeapBytes(heap') = HeapBytes(heap) /\ HeapBytes(heap) \subseteq Nat
  BY <1>4, <1>6 DEF HeapBytes, baseAddr
<1>8. CASE i = 0
  <2>1. /\ heap'.freelist = list /\ heap'.sizemap = map /\ heap'.p = heap.p /\ ~heap'.error
    BY <1>6, <1>8
  <2>2. Numbered(heap')
    BY <1>1, <1>4, <1>6, <2>1 DEF Numbered
  <2>3. CollidesAtZero(heap')
    BY <2>1 DEF CollidesAtZero
  <2>4. Space(heap')
    BY <1>3, <1>7, <2>1 DEF Space, list, map
  <2>5. NoEmptyRegion(heap')
    BY <1>3, <1>6, <2>1 DEF NoEmptyRegion, list, map
  <2>6. InOrder(heap')
    BY <1>3, <1>6, <2>1 DEF InOrder, list
  <2> QED
    BY <1>6, <2>2, <2>3, <2>4, <2>5, <2>6 DEF HeapInv
<1>9. CASE i # 0
  <2> DEFINE new == Taken(heap, i, need)
  <2>1. /\ i \in DOMAIN list /\ list[i][2] >= need /\ a \in Nat /\ list[i][2] \in Nat
    BY <1>4, <1>6, <1>9, EntryAt
  <2>2. Shrunk(list, new, <<a, need>>)
    <3>1. need <= heap.freelist[i][2]
      BY <1>6, <2>1 DEF list
    <3> QED
      BY <1>4, <1>5, <1>6, <2>1, <3>1, TakenShrinks DEF list, a
  <2> HIDE DEF new
  <2>3. heap'.freelist = new /\ heap'.p = Extended(heap.p, heap.c, a)
    BY <1>6, <1>9 DEF new
  <2>4. Numbered(heap')
    <3>1. DOMAIN Extended(heap.p, heap.c, a) = DOMAIN heap.p \cup {heap.c}
      BY DEF Extended
    <3> QED
      BY <1>1, <1>4, <1>6, <2>3, <3>1 DEF Numbered
  <2>5. CASE a \in DOMAIN map
    <3>1. heap'.error
      BY <1>6, <1>9, <2>5
    <3>2. ASSUME ~heap.empty, need # 0 PROVE FALSE
      <4>1. Positive(list) /\ map[a] > 0 /\ map[a] \in Nat
        BY <1>3, <1>4, <2>5, <3>2, MapFacts DEF NoEmptyRegion, list, map
      <4>2. a \in Region(map, a)
        BY <2>1, <4>1, FirstByte DEF Region
      <4>3. a \in Bytes(<<a, need>>)
        BY <1>6, <2>1, <3>2, FirstByte
      <4>4. Covered(list, a)
        BY <2>1, <2>2, <4>3 DEF Shrunk
      <4>5. Owned(map, a)
        BY <2>5, <4>2 DEF Owned
      <4> QED
        BY <1>5, <2>1, <4>4, <4>5 DEF Apart
    <3>3. CollidesAtZero(heap')
      BY <1>6, <3>2 DEF CollidesAtZero
    <3> QED
      BY <1>6, <2>4, <3>1, <3>3 DEF HeapInv
  <2>6. CASE a \notin DOMAIN map
    <3> DEFINE longer == Extended(map, a, need)
    <3>1. heap'.sizemap = longer /\ ~heap'.error
      BY <1>6, <1>9, <2>6
    <3> HIDE DEF longer
    <3>2. CollidesAtZero(heap')
      BY <3>1 DEF CollidesAtZero
    <3>3. \A b \in HeapBytes(heap) : Covered(list, b) \/ Owned(map, b)
      BY <1>3 DEF Space, list, map
    <3>4. /\ Apart(new, longer)
          /\ \A b \in HeapBytes(heap) : Covered(new, b) \/ Owned(longer, b)
      BY <1>4, <1>5, <1>6, <1>7, <2>1, <2>2, <2>6, <3>3, AllocSpace DEF longer
    <3>5. Space(heap')
      BY <1>7, <2>3, <3>1, <3>4 DEF Space
    <3>6. NoEmptyRegion(heap')
      <4> SUFFICES ASSUME ~heap'.empty
                   PROVE  Positive(new) /\ \A x \in DOMAIN longer : longer[x] > 0
        BY <2>3, <3>1 DEF NoEmptyRegion
      <4>1. ~heap.empty /\ need > 0
        BY <1>6
      <4>2. Positive(list) /\ \A x \in DOMAIN map : map[x] > 0
        BY <1>3, <4>1 DEF NoEmptyRegion, list, map
      <4>3. /\ DOMAIN longer = DOMAIN map \cup {a} /\ longer[a] = need
            /\ \A x \in DOMAIN map : x # a => longer[x] = map[x]
        BY DEF Extended, longer
      <4>4. Positive(new)
        BY <2>2, <4>2 DEF Shrunk
      <4> QED
        BY <4>1, <4>2, <4>3, <4>4
    <3>7. InOrder(heap')
      <4> SUFFICES ASSUME heap'.opt.coalesce, heap'.opt.order = "ADDRSORT", ~heap'.empty
                   PROVE  Ordered(new)
        BY <2>3 DEF InOrder
      <4>1. Ordered(list)
        BY <1>3, <1>6 DEF InOrder, list
      <4> QED
        BY <2>2, <4>1 DEF Shrunk
    <3> QED
      BY <1>6, <2>4, <3>2, <3>5, <3>6, <3>7 DEF HeapInv
  <2> QED
    BY <2>5, <2>6
<1> QED
  BY <1>8, <1>9

-----------------------------------------------------------------------------
(* A region given back: the list it makes, in any order and coalesced or not. *)
Given(list, e, new) ==
    /\ new \in Seq(Entries)
    /\ Disjoint(new)
    /\ \A b \in Nat : Covered(new, b) <=> Covered(list, b) \/ b \in Bytes(e)
    /\ Positive(list) /\ e[2] > 0 => Positive(new)

LEMMA GivenBack ==
    ASSUME NEW list \in Seq(Entries), NEW e \in Entries, Disjoint(list),
           \A b \in Nat : ~(Covered(list, b) /\ b \in Bytes(e)),
           NEW order \in Orders, NEW coalesce \in BOOLEAN,
           NEW new, new = IF coalesce THEN Coalesced(Returned(order, list, e))
                          ELSE Returned(order, list, e)
    PROVE  /\ Given(list, e, new)
           /\ coalesce /\ order = "ADDRSORT" /\ Positive(list) /\ e[2] > 0 => Ordered(new)
<1> DEFINE longer == Append(list, e)
           back == Returned(order, list, e)
<1>1. /\ longer \in Seq(Entries) /\ Disjoint(longer)
      /\ \A b \in Nat : Covered(longer, b) <=> Covered(list, b) \/ b \in Bytes(e)
      /\ Positive(list) /\ e[2] > 0 => Positive(longer)
  BY Appended
<1>2. /\ Rearranged(longer, back)
      /\ order = "ADDRSORT" => \A i, j \in DOMAIN back : i < j => back[i][1] <= back[j][1]
  BY ReturnedRearranged
<1> HIDE DEF longer, back
<1>3. SameBytes(longer, back)
  BY <1>1, <1>2, RearrangedBytes
<1>4. /\ back \in Seq(Entries) /\ Disjoint(back)
      /\ \A b \in Nat : Covered(back, b) <=> Covered(list, b) \/ b \in Bytes(e)
      /\ Positive(list) /\ e[2] > 0 => Positive(back)
  BY <1>1, <1>3 DEF SameBytes
<1>5. CASE coalesce
  <2>1. new = Coalesced(back)
    BY <1>5 DEF back
  <2>2. SameBytes(back, new)
    BY <1>4, <2>1, CoalescedBytes
  <2>3. Given(list, e, new)
    BY <1>4, <2>2 DEF SameBytes, Given
  <2>4. order = "ADDRSORT" /\ Positive(list) /\ e[2] > 0 => Ordered(new)
    BY <1>2, <1>4, <2>1, CoalescedOrdered
  <2> QED
    BY <2>3, <2>4
<1>6. CASE ~coalesce
  <2>1. new = back
    BY <1>6 DEF back
  <2> QED
    BY <1>4, <1>6, <2>1 DEF Given
<1> QED
  BY <1>5, <1>6

LEMMA FreeSpace ==
    ASSUME NEW list \in Seq(Entries), NEW map \in Maps, NEW a \in DOMAIN map, NEW new, NEW all,
           Apart(list, map), Given(list, <<a, map[a]>>, new),
           all \subseteq Nat, \A b \in all : Covered(list, b) \/ Owned(map, b),
           NEW shorter, DOMAIN shorter = DOMAIN map \ {a},
           \A c \in DOMAIN shorter : shorter[c] = map[c]
    PROVE  /\ Apart(new, shorter)
           /\ \A b \in all : Covered(new, b) \/ Owned(shorter, b)
<1>1. /\ OwnedOnce(shorter)
      /\ \A b \in Nat : Owned(map, b) <=> Owned(shorter, b) \/ b \in Bytes(<<a, map[a]>>)
      /\ \A b \in Nat : ~(Owned(shorter, b) /\ b \in Bytes(<<a, map[a]>>))
  BY RegionRemoved DEF Apart
<1>2. /\ Disjoint(new)
      /\ \A b \in Nat : Covered(new, b) <=> Covered(list, b) \/ b \in Bytes(<<a, map[a]>>)
  BY DEF Given
<1>3. \A b \in Nat : ~(Covered(list, b) /\ Owned(map, b))
  BY DEF Apart
<1>4. \A b \in Nat : ~(Covered(new, b) /\ Owned(shorter, b))
  BY <1>1, <1>2, <1>3
<1>5. \A b \in all : Covered(new, b) \/ Owned(shorter, b)
  BY <1>1, <1>2
<1> QED
  BY <1>1, <1>2, <1>4, <1>5 DEF Apart

(* A failed allocation has no pointer: fewer pointers than calls. *)
LEMMA MissingPointer ==
    ASSUME heap \in HeapType, Numbered(heap), NEW index \in Nat,
           index < Cardinality(DOMAIN heap.p), index \notin DOMAIN heap.p
    PROVE  \E k \in 0 .. heap.c - 1 : k \notin DOMAIN heap.p
<1>1. heap.c \in Nat
  BY DEF HeapType
<1>2. IsFiniteSet(0 .. heap.c - 1) /\ Cardinality(0 .. heap.c - 1) = heap.c
  <2> DEFINE n == heap.c - 1
  <2>1. n \in Int /\ n >= -1 /\ heap.c = n + 1
    BY <1>1
  <2> HIDE DEF n
  <2>2. IsFiniteSet(0 .. n) /\ Cardinality(0 .. n) = IF 0 > n THEN 0 ELSE n - 0 + 1
    <3>1. 0 \in Int /\ n \in Int
      BY <2>1
    <3> QED
      BY <3>1, FS_Interval, Zenon
  <2>3. Cardinality(0 .. n) = heap.c
    BY <2>1, <2>2
  <2> QED
    BY <2>2, <2>3 DEF n
<1>3. /\ IsFiniteSet(DOMAIN heap.p) /\ Cardinality(DOMAIN heap.p) <= heap.c
      /\ Cardinality(DOMAIN heap.p) \in Nat
  BY <1>2, FS_Subset, FS_CardinalityType DEF Numbered
<1>4. index \in 0 .. heap.c - 1
  BY <1>1, <1>3
<1> QED
  BY <1>4

LEMMA FreeKeeps ==
    ASSUME HeapInv, NEW index \in Nat, FreeOp(index)
    PROVE  HeapInv'
<1> DEFINE list == heap.freelist
           map == heap.sizemap
           a == heap.p[index]
<1>1. heap \in HeapType /\ Numbered(heap)
  BY DEF HeapInv
<1>2. ~heap.error /\ index < Cardinality(DOMAIN heap.p)
  BY DEF FreeOp, Ready
<1>3. Space(heap) /\ NoEmptyRegion(heap) /\ InOrder(heap)
  BY <1>2 DEF HeapInv
<1>4. /\ list \in Seq(Entries) /\ map \in Maps /\ heap.p \in Maps /\ heap.c \in Nat
      /\ heap.opt.size \in Nat /\ heap.opt.order \in Orders /\ heap.opt.coalesce \in BOOLEAN
      /\ heap.ops \in Nat
  BY <1>1, OptFacts DEF HeapType
<1>5. Disjoint(list) /\ Apart(list, map)
  BY <1>3 DEF Space, Apart
<1>6. HeapBytes(heap) \subseteq Nat
  BY <1>4 DEF HeapBytes, baseAddr
<1>7. CASE index \notin DOMAIN heap.p
  <2>1. heap' = [heap EXCEPT !.error = TRUE]
    BY <1>7 DEF FreeOp
  <2>2. /\ heap' \in HeapType /\ heap'.p = heap.p /\ heap'.c = heap.c /\ heap'.error = TRUE
    BY <1>1, <2>1 DEF HeapType
  <2>3. Numbered(heap')
    BY <1>1, <2>2 DEF Numbered
  <2>4. CollidesAtZero(heap')
    BY <1>1, <1>2, <1>7, <2>2, MissingPointer DEF CollidesAtZero
  <2> QED
    BY <2>2, <2>3, <2>4 DEF HeapInv
<1>8. CASE index \in DOMAIN heap.p /\ a \notin DOMAIN map
  <2>1. heap' = [heap EXCEPT !.ops = heap.ops + 1]
    BY <1>8 DEF FreeOp, free
  <2>2. /\ heap' \in HeapType /\ heap'.p = heap.p /\ heap'.c = heap.c /\ heap'.error = heap.error
        /\ heap'.freelist = heap.freelist /\ heap'.sizemap = heap.sizemap
        /\ heap'.opt = heap.opt /\ heap'.empty = heap.empty
    BY <1>1, <1>4, <2>1 DEF HeapType
  <2>3. Numbered(heap') /\ CollidesAtZero(heap')
    BY <1>1, <1>2, <2>2 DEF Numbered, CollidesAtZero
  <2>4. Space(heap') /\ NoEmptyRegion(heap') /\ InOrder(heap')
    BY <1>3, <2>2 DEF Space, NoEmptyRegion, InOrder, HeapBytes
  <2> QED
    BY <2>2, <2>3, <2>4 DEF HeapInv
<1>9. CASE index \in DOMAIN heap.p /\ a \in DOMAIN map
  <2> DEFINE e == <<a, map[a]>>
             back == Returned(heap.opt.order, list, e)
             new == IF heap.opt.coalesce THEN Coalesced(back) ELSE back
             shorter == [c \in DOMAIN map \ {a} |-> map[c]]
  <2>1. a \in Nat /\ map[a] \in Nat /\ e \in Entries /\ e[2] = map[a]
    BY <1>4, <1>9, MapFacts DEF Entries
  <2>2. \A b \in Nat : ~(Covered(list, b) /\ b \in Bytes(e))
    BY <1>5, <1>9 DEF Apart, Owned, Region
  <2>3. /\ Given(list, e, new)
        /\ heap.opt.coalesce /\ heap.opt.order = "ADDRSORT" /\ Positive(list) /\ e[2] > 0
              => Ordered(new)
    <3> HIDE DEF list, e
    <3> QED
      BY <1>4, <1>5, <2>1, <2>2, GivenBack
  <2>4. shorter \in Maps
    <3>1. shorter \in [DOMAIN map \ {a} -> Nat] /\ DOMAIN map \ {a} \in SUBSET Nat
      BY <1>4, MapFacts
    <3> HIDE DEF shorter
    <3> QED
      BY <3>1 DEF Maps
  <2>5. heap' = [heap EXCEPT !.freelist = new, !.sizemap = shorter, !.ops = heap.ops + 1]
    <3>1. free(heap, a) = [heap EXCEPT !.freelist = new, !.sizemap = shorter]
      BY <1>9 DEF free
    <3>2. heap' = [free(heap, a) EXCEPT !.ops = @ + 1]
      BY <1>9 DEF FreeOp
    <3> HIDE DEF new, shorter
    <3> QED
      BY <1>1, <3>1, <3>2 DEF HeapType
  <2>6. new \in Seq(Entries)
    BY <2>3 DEF Given
  <2> HIDE DEF new, shorter, back
  <2>7. /\ heap' \in HeapType /\ heap'.p = heap.p /\ heap'.c = heap.c /\ heap'.error = heap.error
        /\ heap'.freelist = new /\ heap'.sizemap = shorter
        /\ heap'.opt = heap.opt /\ heap'.empty = heap.empty
    <3> DEFINE n == heap.ops + 1
    <3>1. n \in Nat /\ heap' = [heap EXCEPT !.freelist = new, !.sizemap = shorter, !.ops = n]
      BY <1>4, <2>5
    <3> HIDE DEF n
    <3> QED
      BY <1>1, <2>4, <2>6, <3>1 DEF HeapType
  <2>8. Numbered(heap') /\ CollidesAtZero(heap')
    BY <1>1, <1>2, <2>7 DEF Numbered, CollidesAtZero
  <2>9. Space(heap')
    <3>1. HeapBytes(heap') = HeapBytes(heap)
      BY <2>7 DEF HeapBytes
    <3>2. \A b \in HeapBytes(heap) : Covered(list, b) \/ Owned(map, b)
      BY <1>3 DEF Space
    <3>3. /\ Apart(new, shorter)
          /\ \A b \in HeapBytes(heap) : Covered(new, b) \/ Owned(shorter, b)
      <4>1. DOMAIN shorter = DOMAIN map \ {a} /\ \A c \in DOMAIN shorter : shorter[c] = map[c]
        BY DEF shorter
      <4>2. Given(list, <<a, map[a]>>, new) /\ a \in DOMAIN map
        BY <1>9, <2>3
      <4> HIDE DEF list, map, a
      <4> QED
        BY <1>4, <1>5, <1>6, <3>2, <4>1, <4>2, FreeSpace
    <3> QED
      BY <2>7, <3>1, <3>3 DEF Space
  <2>10. ASSUME ~heap.empty
         PROVE  Positive(list) /\ e[2] > 0 /\ \A x \in DOMAIN map : map[x] > 0
    BY <1>3, <1>9, <2>1, <2>10 DEF NoEmptyRegion
  <2>11. NoEmptyRegion(heap')
    <3> SUFFICES ASSUME ~heap.empty
                 PROVE  Positive(new) /\ \A x \in DOMAIN shorter : shorter[x] > 0
      BY <2>7 DEF NoEmptyRegion
    <3>1. Positive(new)
      BY <2>3, <2>10 DEF Given
    <3>2. \A x \in DOMAIN shorter : shorter[x] > 0
      BY <2>10 DEF shorter
    <3> QED
      BY <3>1, <3>2
  <2>12. InOrder(heap')
    BY <2>3, <2>7, <2>10 DEF InOrder
  <2> QED
    BY <2>7, <2>8, <2>9, <2>11, <2>12 DEF HeapInv
<1> QED
  BY <1>7, <1>8, <1>9

-----------------------------------------------------------------------------
(* Whatever the operations, in every order of the list and under every search
   policy, malloc and free lose no byte of the heap and give none to two owners,
   entries that could be one are joined where the list is sorted by address,
   and the assertion of addToMap fails only after an allocation of no bytes or
   the free of a failed allocation. *)
THEOREM HeapSafe == HeapSpec => []HeapTiled
<1>1. HeapInit => HeapInv
  BY InitHeapInv
<1>2. HeapInv /\ [HeapNext]_heap => HeapInv'
  <2> SUFFICES ASSUME HeapInv, [HeapNext]_heap PROVE HeapInv'
    OBVIOUS
  <2>1. CASE \E size \in AllocSizes : AllocOp(size)
    BY <2>1, AllocKeeps
  <2>2. CASE \E index \in 0 .. MaxOps : FreeOp(index)
    <3>1. PICK index \in 0 .. MaxOps : FreeOp(index)
      BY <2>2
    <3>2. index \in Nat
      BY <3>1, SettingsAssumption
    <3> QED
      BY <3>1, <3>2, FreeKeeps
  <2>3. CASE UNCHANGED heap
    BY <2>3 DEF HeapInv, Numbered, CollidesAtZero, Space, NoEmptyRegion, InOrder, HeapBytes
  <2> QED
    BY <2>1, <2>2, <2>3 DEF HeapNext, HeapEnded
<1>3. HeapInv => HeapTiled
  BY InvTiled
<1> QED
  BY <1>1, <1>2, <1>3, PTL DEF HeapSpec
=============================================================================
