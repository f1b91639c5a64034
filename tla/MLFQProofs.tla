----------------------------- MODULE MLFQProofs -----------------------------
(***************************************************************************)
(* Proofs about the multi-level feedback queue simulator.  A job is in one *)
(* place, the queue of its priority or the list of events to come; from    *)
(* that follow the two Aborts of the loop, which never happen, and that    *)
(* the simulator implements a work-conserving schedule.                    *)
(***************************************************************************)
EXTENDS MLFQ, SequenceTheorems, FiniteSetTheorems, WellFoundedInduction, TLAPS

-----------------------------------------------------------------------------
(* Least and greatest numbers.                                             *)

(* Min, by which the code takes the first due event and the lowest queue. *)
LEMMA MinIsLeast ==
    ASSUME NEW S \in SUBSET Nat, S # {}
    PROVE  Min(S) \in S /\ \A y \in S : Min(S) <= y
<1>1. PICK x \in S : \A y \in S : ~(<<y, x>> \in OpToRel(<, Nat))
  BY NatLessThanWellFounded, WFMin
<1>2. ASSUME NEW y \in S PROVE x <= y
  <2>1. x \in Nat /\ y \in Nat
    OBVIOUS
  <2>2. ~(y < x)
    BY <1>1, <2>1, Zenon DEF OpToRel
  <2> QED
    BY <2>1, <2>2
<1> QED
  BY <1>2 DEF Min

(* Max, by which FindQueue takes the highest nonempty queue. *)
LEMMA MaxIsGreatest ==
    ASSUME NEW n \in Nat, NEW S \in SUBSET (0 .. n), S # {}
    PROVE  Max(S) \in S /\ \A y \in S : Max(S) >= y
<1> DEFINE T == {n - x : x \in S}
<1>1. T \in SUBSET Nat /\ T # {}
  <2>1. \A x \in S : n - x \in Nat
    OBVIOUS
  <2> QED
    BY <2>1
<1>2. Min(T) \in T /\ \A y \in T : Min(T) <= y
  BY <1>1, MinIsLeast
<1>3. PICK x \in S : Min(T) = n - x
  BY <1>2
<1>4. \A y \in S : x >= y
  BY <1>2, <1>3
<1> QED
  BY <1>4 DEF Max

-----------------------------------------------------------------------------
(* Queues.                                                                 *)

(* Job j is in queue q of f. *)
InAt(f, q, j) == \E k \in DOMAIN f[q] : f[q][k] = j

(* No job is at two positions. *)
Distinct(f) ==
    \A q, r \in Levels : \A k \in DOMAIN f[q], l \in DOMAIN f[r] :
        f[q][k] = f[r][l] => q = r /\ k = l

(* Taking the front job of a queue takes it out of the queues, and no other. *)
LEMMA PopEffect ==
    ASSUME NEW f \in [Levels -> Seq(Jobs)], Distinct(f),
           NEW q \in Levels, f[q] # <<>>
    PROVE  LET g == [f EXCEPT ![q] = Tail(@)] IN
           /\ Head(f[q]) \in Jobs
           /\ InAt(f, q, Head(f[q]))
           /\ g \in [Levels -> Seq(Jobs)]
           /\ Distinct(g)
           /\ \A a \in Levels, j \in Jobs :
                InAt(g, a, j) <=> (InAt(f, a, j) /\ j # Head(f[q]))
<1> DEFINE g == [f EXCEPT ![q] = Tail(@)]
           n == Len(f[q])
<1>1. /\ f[q] \in Seq(Jobs) /\ n \in Nat /\ DOMAIN f[q] = 1 .. n /\ n > 0
      /\ Head(f[q]) = f[q][1] /\ Head(f[q]) \in Jobs
  BY HeadTailProperties, LenProperties
<1>2. /\ Tail(f[q]) \in Seq(Jobs)
      /\ DOMAIN Tail(f[q]) = 1 .. n - 1
      /\ \A k \in 1 .. n - 1 : Tail(f[q])[k] = f[q][k + 1]
  BY <1>1, HeadTailProperties, LenProperties
<1>3. g \in [Levels -> Seq(Jobs)] /\ g[q] = Tail(f[q])
  BY <1>2
<1>4. \A a \in Levels : a # q => g[a] = f[a]
  OBVIOUS
<1>5. ASSUME NEW a \in Levels, NEW b \in Levels,
             NEW k \in DOMAIN g[a], NEW l \in DOMAIN g[b], g[a][k] = g[b][l]
      PROVE  a = b /\ k = l
  <2>1. CASE a = q /\ b = q
    BY <1>1, <1>2, <1>3, <1>5, <2>1 DEF Distinct
  <2>2. CASE a = q /\ b # q
    <3>1. k + 1 \in DOMAIN f[q] /\ f[q][k + 1] = f[b][l] /\ l \in DOMAIN f[b]
      BY <1>1, <1>2, <1>3, <1>4, <1>5, <2>2
    <3> QED
      BY <3>1, <2>2 DEF Distinct
  <2>3. CASE a # q /\ b = q
    <3>1. l + 1 \in DOMAIN f[q] /\ f[q][l + 1] = f[a][k] /\ k \in DOMAIN f[a]
      BY <1>1, <1>2, <1>3, <1>4, <1>5, <2>3
    <3> QED
      BY <3>1, <2>3 DEF Distinct
  <2>4. CASE a # q /\ b # q
    BY <1>4, <1>5, <2>4 DEF Distinct
  <2> QED
    BY <2>1, <2>2, <2>3, <2>4
<1>6. ASSUME NEW a \in Levels, NEW j \in Jobs
      PROVE  InAt(g, a, j) <=> (InAt(f, a, j) /\ j # Head(f[q]))
  <2>1. CASE a # q
    <3>1. InAt(f, a, j) => j # f[q][1]
      BY <1>1, <2>1 DEF InAt, Distinct
    <3> QED
      BY <1>1, <1>4, <2>1, <3>1 DEF InAt
  <2>2. CASE a = q
    <3>1. ASSUME NEW k \in DOMAIN g[q], g[q][k] = j
          PROVE  InAt(f, q, j) /\ j # f[q][1]
      <4>1. k + 1 \in DOMAIN f[q] /\ f[q][k + 1] = j /\ k + 1 # 1
        BY <1>1, <1>2, <1>3, <3>1
      <4> QED
        BY <4>1, <1>1 DEF InAt, Distinct
    <3>2. ASSUME NEW k \in DOMAIN f[q], f[q][k] = j, j # f[q][1]
          PROVE  InAt(g, q, j)
      <4>1. k - 1 \in DOMAIN g[q] /\ g[q][k - 1] = j
        BY <1>1, <1>2, <1>3, <3>2
      <4> QED
        BY <4>1 DEF InAt
    <3> QED
      BY <1>1, <2>2, <3>1, <3>2 DEF InAt
  <2> QED
    BY <2>1, <2>2
<1>7. InAt(f, q, Head(f[q]))
  BY <1>1 DEF InAt
<1>8. Distinct(g)
  BY <1>5 DEF Distinct
<1> QED
  BY <1>1, <1>3, <1>6, <1>7, <1>8

(* A job in no queue can go to the back of one, *)
LEMMA AppendEffect ==
    ASSUME NEW f \in [Levels -> Seq(Jobs)], Distinct(f),
           NEW q \in Levels, NEW h \in Jobs, \A a \in Levels : ~InAt(f, a, h)
    PROVE  LET g == [f EXCEPT ![q] = Append(@, h)] IN
           /\ g \in [Levels -> Seq(Jobs)]
           /\ Distinct(g)
           /\ \A a \in Levels, j \in Jobs :
                InAt(g, a, j) <=> (IF j = h THEN a = q ELSE InAt(f, a, j))
<1> DEFINE g == [f EXCEPT ![q] = Append(@, h)]
           n == Len(f[q])
<1>1. f[q] \in Seq(Jobs) /\ n \in Nat /\ DOMAIN f[q] = 1 .. n
  BY LenProperties
<1>2. /\ Append(f[q], h) \in Seq(Jobs)
      /\ DOMAIN Append(f[q], h) = 1 .. n + 1
      /\ \A k \in 1 .. n : Append(f[q], h)[k] = f[q][k]
      /\ Append(f[q], h)[n + 1] = h
  BY <1>1, AppendProperties, LenProperties
<1>3. g \in [Levels -> Seq(Jobs)] /\ g[q] = Append(f[q], h)
  BY <1>2
<1>4. \A a \in Levels : a # q => g[a] = f[a]
  OBVIOUS
<1>5. ASSUME NEW a \in Levels, NEW k \in DOMAIN g[a]
      PROVE  \/ a = q /\ k = n + 1 /\ g[a][k] = h
             \/ k \in DOMAIN f[a] /\ g[a][k] = f[a][k] /\ g[a][k] # h
  <2>1. CASE a = q
    BY <1>1, <1>2, <1>3, <2>1 DEF InAt
  <2>2. CASE a # q
    BY <1>4, <2>2 DEF InAt
  <2> QED
    BY <2>1, <2>2
<1>6. Distinct(g)
  BY <1>5 DEF Distinct
<1>7. ASSUME NEW a \in Levels, NEW j \in Jobs
      PROVE  InAt(g, a, j) <=> (IF j = h THEN a = q ELSE InAt(f, a, j))
  <2>1. n + 1 \in DOMAIN g[q] /\ g[q][n + 1] = h
    BY <1>1, <1>2, <1>3
  <2>2. \A k \in DOMAIN f[a] : k \in DOMAIN g[a] /\ g[a][k] = f[a][k]
    BY <1>1, <1>2, <1>3, <1>4
  <2> QED
    BY <1>5, <2>1, <2>2 DEF InAt
<1> QED
  BY <1>3, <1>6, <1>7

(* or, after an I/O under -I, to its front. *)
LEMMA PrependEffect ==
    ASSUME NEW f \in [Levels -> Seq(Jobs)], Distinct(f),
           NEW q \in Levels, NEW h \in Jobs, \A a \in Levels : ~InAt(f, a, h)
    PROVE  LET g == [f EXCEPT ![q] = <<h>> \o @] IN
           /\ g \in [Levels -> Seq(Jobs)]
           /\ Distinct(g)
           /\ \A a \in Levels, j \in Jobs :
                InAt(g, a, j) <=> (IF j = h THEN a = q ELSE InAt(f, a, j))
<1> DEFINE g == [f EXCEPT ![q] = <<h>> \o @]
           n == Len(f[q])
<1>1. f[q] \in Seq(Jobs) /\ n \in Nat /\ DOMAIN f[q] = 1 .. n
  BY LenProperties
<1>2. /\ <<h>> \in Seq(Jobs) /\ Len(<<h>>) = 1 /\ <<h>>[1] = h
  OBVIOUS
<1>3. /\ <<h>> \o f[q] \in Seq(Jobs)
      /\ DOMAIN (<<h>> \o f[q]) = 1 .. n + 1
      /\ \A k \in 1 .. n : (<<h>> \o f[q])[k + 1] = f[q][k]
      /\ (<<h>> \o f[q])[1] = h
  BY <1>1, <1>2, ConcatProperties, LenProperties
<1>4. g \in [Levels -> Seq(Jobs)] /\ g[q] = <<h>> \o f[q]
  BY <1>3
<1>5. \A a \in Levels : a # q => g[a] = f[a]
  OBVIOUS
<1> DEFINE Old(a, k) == IF a = q THEN k - 1 ELSE k
<1>6. ASSUME NEW a \in Levels, NEW k \in DOMAIN g[a]
      PROVE  \/ a = q /\ k = 1 /\ g[a][k] = h
             \/ Old(a, k) \in DOMAIN f[a] /\ g[a][k] = f[a][Old(a, k)] /\ g[a][k] # h
  <2>1. CASE a = q /\ k = 1
    BY <1>3, <1>4, <2>1
  <2>2. CASE a = q /\ k # 1
    <3>1. k - 1 \in 1 .. n /\ k = (k - 1) + 1
      BY <1>1, <1>3, <1>4, <2>2
    <3>2. g[a][k] = f[q][k - 1]
      BY <3>1, <1>3, <1>4, <2>2
    <3> QED
      BY <3>1, <3>2, <2>2, <1>1 DEF InAt
  <2>3. CASE a # q
    BY <1>5, <2>3 DEF InAt
  <2> QED
    BY <2>1, <2>2, <2>3
<1>7. ASSUME NEW a \in Levels, NEW b \in Levels,
             NEW k \in DOMAIN g[a], NEW l \in DOMAIN g[b], g[a][k] = g[b][l]
      PROVE  a = b /\ k = l
  <2>0. \A c \in Levels : \A i \in DOMAIN g[c] : i \in Int \/ c # q
    BY <1>1, <1>3, <1>4
  <2>1. CASE g[a][k] = h
    BY <1>6, <1>7, <2>1
  <2>2. CASE g[a][k] # h
    <3>1. a = b /\ Old(a, k) = Old(b, l)
      BY <1>6, <1>7, <2>2 DEF Distinct
    <3> QED
      BY <3>1, <2>0
  <2> QED
    BY <2>1, <2>2
<1>8. ASSUME NEW a \in Levels, NEW j \in Jobs
      PROVE  InAt(g, a, j) <=> (IF j = h THEN a = q ELSE InAt(f, a, j))
  <2>1. 1 \in DOMAIN g[q] /\ g[q][1] = h
    BY <1>1, <1>3, <1>4
  <2>2. ASSUME NEW k \in DOMAIN f[a]
        PROVE  \E i \in DOMAIN g[a] : g[a][i] = f[a][k]
    <3>1. CASE a = q
      <4>1. k + 1 \in DOMAIN g[q] /\ g[q][k + 1] = f[q][k]
        BY <1>1, <1>3, <1>4, <3>1
      <4> QED
        BY <4>1, <3>1
    <3>2. CASE a # q
      BY <3>2, <1>5
    <3> QED
      BY <3>1, <3>2
  <2>3. ASSUME NEW k \in DOMAIN g[a], g[a][k] # h
        PROVE  \E i \in DOMAIN f[a] : g[a][k] = f[a][i]
    BY <1>6, <2>3
  <2>4. ASSUME NEW k \in DOMAIN g[a], g[a][k] = h PROVE a = q
    BY <1>6, <2>4
  <2> HIDE DEF g
  <2>5. CASE j = h
    BY <2>1, <2>4, <2>5 DEF InAt
  <2>6. CASE j # h
    BY <2>2, <2>3, <2>6 DEF InAt
  <2> QED
    BY <2>5, <2>6
<1>9. Distinct(g)
  BY <1>7 DEF Distinct
<1> QED
  BY <1>4, <1>8, <1>9

-----------------------------------------------------------------------------
(* Events.                                                                 *)

Events == [time : Nat, job : Jobs, type : {"begins", "io"}]

(* Job j waits for an event of s. *)
Awaited(s, j) == \E k \in DOMAIN s : s[k].job = j

(* No job waits for two events. *)
OncePerJob(s) == \A k, l \in DOMAIN s : s[k].job = s[l].job => k = l

(* Handling an event ends the wait of its job and of no other. *)
LEMMA RemoveEffect ==
    ASSUME NEW s \in Seq(Events), OncePerJob(s), NEW i \in DOMAIN s
    PROVE  LET t == RemoveAt(s, i) IN
           /\ t \in Seq(Events)
           /\ OncePerJob(t)
           /\ \A j \in Jobs : Awaited(t, j) <=> (Awaited(s, j) /\ j # s[i].job)
           /\ \A k \in DOMAIN s : k # i =>
                \E l \in DOMAIN t : t[l] = s[k]
<1> DEFINE t == RemoveAt(s, i)
           n == Len(s)
           Old(k) == IF k < i THEN k ELSE k + 1
<1>1. n \in Nat /\ DOMAIN s = 1 .. n /\ i \in 1 .. n /\ \A k \in 1 .. n : s[k] \in Events
  BY LenProperties, ElementOfSeq
<1>2. PICK u, v :
        /\ u \in Seq(Events) /\ v \in Seq(Events) /\ t = u \o v
        /\ Len(u) = i - 1 /\ \A k \in 1 .. i - 1 : u[k] = s[k]
        /\ Len(v) = n - i /\ \A k \in 1 .. n - i : v[k] = s[i + k]
  <2>1. /\ SubSeq(s, 1, i - 1) \in Seq(Events)
        /\ Len(SubSeq(s, 1, i - 1)) = IF 1 <= i - 1 THEN (i - 1) - 1 + 1 ELSE 0
        /\ \A k \in 1 .. (i - 1) - 1 + 1 : SubSeq(s, 1, i - 1)[k] = s[1 + k - 1]
    <3>1. \A k \in 1 .. i - 1 : s[k] \in Events
      BY <1>1
    <3> QED
      BY <1>1, <3>1, SubSeqProperties
  <2>2. /\ SubSeq(s, i + 1, n) \in Seq(Events)
        /\ Len(SubSeq(s, i + 1, n)) = IF i + 1 <= n THEN n - (i + 1) + 1 ELSE 0
        /\ \A k \in 1 .. n - (i + 1) + 1 : SubSeq(s, i + 1, n)[k] = s[(i + 1) + k - 1]
    <3>1. \A k \in i + 1 .. n : s[k] \in Events
      BY <1>1
    <3> QED
      BY <1>1, <3>1, SubSeqProperties
  <2>3. \A k \in 1 .. i - 1 : SubSeq(s, 1, i - 1)[k] = s[k]
    <3>1. \A k \in 1 .. i - 1 : k \in 1 .. (i - 1) - 1 + 1 /\ 1 + k - 1 = k
      BY <1>1
    <3> QED
      BY <2>1, <3>1
  <2>4. \A k \in 1 .. n - i : SubSeq(s, i + 1, n)[k] = s[i + k]
    <3>1. \A k \in 1 .. n - i : k \in 1 .. n - (i + 1) + 1 /\ (i + 1) + k - 1 = i + k
      BY <1>1
    <3> QED
      BY <2>2, <3>1
  <2>5. Len(SubSeq(s, 1, i - 1)) = i - 1 /\ Len(SubSeq(s, i + 1, n)) = n - i
    BY <1>1, <2>1, <2>2
  <2>6. t = SubSeq(s, 1, i - 1) \o SubSeq(s, i + 1, n)
    BY DEF RemoveAt
  <2> WITNESS SubSeq(s, 1, i - 1), SubSeq(s, i + 1, n)
  <2> HIDE DEF t, n
  <2> QED
    BY <2>1, <2>2, <2>3, <2>4, <2>5, <2>6
<1> HIDE DEF t
<1>3. n - 1 = Len(u) + Len(v)
  BY <1>1, <1>2
<1>4. t \in Seq(Events) /\ DOMAIN t = 1 .. n - 1
  <2>1. u \o v \in Seq(Events) /\ Len(u \o v) = n - 1
    BY <1>2, <1>3, ConcatProperties
  <2>2. t \in Seq(Events) /\ Len(t) = n - 1
    BY <1>2, <2>1
  <2> QED
    BY <2>2, LenProperties
<1>5. ASSUME NEW k \in DOMAIN t PROVE Old(k) \in DOMAIN s /\ Old(k) # i /\ t[k] = s[Old(k)]
  <2>0. t[k] = IF k <= Len(u) THEN u[k] ELSE v[k - Len(u)]
    BY <1>2, <1>3, <1>4, ConcatProperties
  <2>1. CASE k < i
    <3>1. k <= i - 1 /\ k \in 1 .. i - 1
      BY <1>1, <1>4, <2>1
    <3> QED
      BY <1>1, <1>2, <2>0, <2>1, <3>1
  <2>2. CASE ~(k < i)
    <3>1. k - (i - 1) \in 1 .. n - i /\ ~(k <= i - 1) /\ i + (k - (i - 1)) = k + 1
      BY <1>1, <1>4, <2>2
    <3>2. t[k] = v[k - (i - 1)]
      BY <1>2, <2>0, <3>1
    <3>3. t[k] = s[i + (k - (i - 1))]
      BY <1>2, <3>1, <3>2
    <3>4. t[k] = s[k + 1]
      BY <3>1, <3>3
    <3> QED
      BY <1>1, <1>4, <2>2, <3>4
  <2> QED
    BY <2>1, <2>2
<1>6. ASSUME NEW k \in DOMAIN s, k # i PROVE \E l \in DOMAIN t : t[l] = s[k]
  <2>1. CASE k < i
    <3>1. k \in DOMAIN t /\ Old(k) = k
      BY <1>1, <1>4, <2>1
    <3> QED
      BY <3>1, <1>5
  <2>2. CASE ~(k < i)
    <3>1. k - 1 \in DOMAIN t /\ Old(k - 1) = k
      BY <1>1, <1>4, <1>6, <2>2
    <3> QED
      BY <3>1, <1>5
  <2> QED
    BY <2>1, <2>2
<1>7. ASSUME NEW k \in DOMAIN t, NEW l \in DOMAIN t, t[k].job = t[l].job
      PROVE  k = l
  <2>1. Old(k) = Old(l)
    BY <1>5, <1>7 DEF OncePerJob
  <2> QED
    BY <2>1, <1>1, <1>4
<1>8. OncePerJob(t)
  BY <1>7 DEF OncePerJob
<1>9. ASSUME NEW j \in Jobs
      PROVE  Awaited(t, j) <=> (Awaited(s, j) /\ j # s[i].job)
  BY <1>5, <1>6 DEF Awaited, OncePerJob
<1> QED
  BY <1>4, <1>6, <1>8, <1>9 DEF t

(* An I/O makes its job wait. *)
LEMMA AddEffect ==
    ASSUME NEW s \in Seq(Events), OncePerJob(s), NEW e \in Events, ~Awaited(s, e.job)
    PROVE  LET t == Append(s, e) IN
           /\ t \in Seq(Events)
           /\ OncePerJob(t)
           /\ \A j \in Jobs : Awaited(t, j) <=> (Awaited(s, j) \/ j = e.job)
           /\ \A k \in DOMAIN s : k \in DOMAIN t /\ t[k] = s[k]
           /\ \E k \in DOMAIN t : t[k] = e
<1> DEFINE t == Append(s, e)
           n == Len(s)
<1>1. n \in Nat /\ DOMAIN s = 1 .. n
  BY LenProperties
<1>2. /\ t \in Seq(Events) /\ DOMAIN t = 1 .. n + 1
      /\ \A k \in 1 .. n : t[k] = s[k]
      /\ t[n + 1] = e
  BY <1>1, AppendProperties, LenProperties
<1> HIDE DEF t, n
<1>3. \A k \in DOMAIN t : (k \in DOMAIN s /\ t[k] = s[k]) \/ (k = n + 1 /\ t[k] = e)
  BY <1>1, <1>2
<1>4. /\ \A k \in DOMAIN s : k \in DOMAIN t /\ t[k] = s[k]
      /\ n + 1 \in DOMAIN t
  BY <1>1, <1>2
<1>5. OncePerJob(t)
  BY <1>3 DEF OncePerJob, Awaited
<1>6. \A j \in Jobs : Awaited(t, j) <=> (Awaited(s, j) \/ j = e.job)
  BY <1>2, <1>3, <1>4 DEF Awaited
<1> QED
  BY <1>2, <1>4, <1>5, <1>6 DEF t

-----------------------------------------------------------------------------
(* The inductive invariant.                                                *)

(* A job is queued, or waits for an event, or has finished. *)
Placement ==
    /\ Distinct(queue)
    /\ OncePerJob(ioDone)
    /\ \A j \in Jobs : Awaited(ioDone, j) => timeLeft[j] > 0
    /\ \A j \in Jobs, q \in Levels : InAt(queue, q, j) =>
          ~Awaited(ioDone, j) /\ timeLeft[j] > 0 /\ ~doingIO[j]
    /\ \A j \in Jobs : timeLeft[j] > 0 =>
          Awaited(ioDone, j) \/ \E q \in Levels : InAt(queue, q, j)
    /\ \A j \in Jobs : doingIO[j] => Awaited(ioDone, j)

(* It is queued at its priority, except while a boost sweeps the queues. *)
AtHome ==
    \A j \in Jobs, q \in Levels : InAt(queue, q, j) =>
        q = currPri[j] \/ (Sweeping /\ q = HiQueue)

FinishedSet == {j \in Jobs : timeLeft[j] = 0}
FinishedCounted == finishedJobs = Cardinality(FinishedSet)

SlicePositive == \A j \in Jobs : timeLeft[j] > 0 => ticksLeft[j] > 0

(* The loop has a job to run, and no Abort has ended it. *)
Chosen == pc # "aborted" /\ (pc = "run" => Busy # {})

PlaceInv ==
    /\ TypeOK
    /\ Placement
    /\ AtHome
    /\ FinishedCounted
    /\ SlicePositive
    /\ Chosen

(* The slice and allotment left to a job and the ticks it used at its level
   add up, without -S and without boosts. *)
Accounted ==
    ~options.stay /\ options.boost = 0 =>
        \A j \in Jobs : timeLeft[j] > 0 =>
            /\ ticksLeft[j] <= Quantum[currPri[j]]
            /\ currPri[j] > 0 =>
                 /\ allotLeft[j] \in 1 .. Allotment[currPri[j]]
                 /\ used[j] = Quantum[currPri[j]] * (Allotment[currPri[j]] - allotLeft[j])
                              + (Quantum[currPri[j]] - ticksLeft[j])

-----------------------------------------------------------------------------
(* The invariant holds.                                                    *)

LEMMA LevelFacts ==
    /\ HiQueue \in Levels /\ HiQueue \in Nat
    /\ \A q \in Levels : q \in Nat /\ Quantum[q] \in Nat \ {0} /\ Allotment[q] \in Nat
    /\ \A q \in Levels : q > 0 => Allotment[q] > 0 /\ q - 1 \in Levels
    /\ Allotment[HiQueue] > 0
<1>1. NumQueues \in Nat /\ NumQueues > 0
  BY MLFQAssumption
<1>2. HiQueue \in Levels /\ HiQueue \in Nat
  BY <1>1 DEF HiQueue, Levels
<1>3. \A q \in Levels : q \in Nat /\ Quantum[q] \in Nat \ {0} /\ Allotment[q] \in Nat
  BY <1>1, MLFQAssumption DEF Levels
<1>4. \A q \in Levels : q > 0 => Allotment[q] # 0 /\ q - 1 \in Levels
  BY <1>1, <1>3, MLFQAssumption DEF Levels
<1> QED
  BY <1>2, <1>3, <1>4, MLFQAssumption

LEMMA JobsFinite == IsFiniteSet(Jobs) /\ Cardinality(Jobs) = NumJobs
  BY MLFQAssumption, FS_Interval DEF Jobs

(* FindQueue finds a nonempty queue, and its front job is the one to run. *)
LEMMA FrontJob ==
    ASSUME TypeOK, Placement, AtHome, Busy # {}, pc # "boost"
    PROVE  /\ FindQueue \in Levels
           /\ queue[FindQueue] # <<>>
           /\ CurrJob = Head(queue[FindQueue])
           /\ CurrJob \in Jobs
           /\ InAt(queue, FindQueue, CurrJob)
           /\ currPri[CurrJob] = FindQueue
           /\ timeLeft[CurrJob] > 0
           /\ ~doingIO[CurrJob]
           /\ ~Awaited(ioDone, CurrJob)
<1>1. HiQueue \in Nat /\ Busy \in SUBSET (0 .. HiQueue)
  BY LevelFacts DEF Busy, Levels, HiQueue
<1>2. FindQueue \in Busy
  BY <1>1, MaxIsGreatest DEF FindQueue
<1>3. FindQueue \in Levels /\ queue[FindQueue] # <<>>
  BY <1>2 DEF Busy
<1>4. /\ Head(queue[FindQueue]) \in Jobs
      /\ InAt(queue, FindQueue, Head(queue[FindQueue]))
  BY <1>3, PopEffect DEF TypeOK, Placement
<1> QED
  BY <1>3, <1>4 DEF CurrJob, Placement, AtHome, Sweeping

LEMMA PlaceInit == Init => PlaceInv
<1> SUFFICES ASSUME Init PROVE PlaceInv
  OBVIOUS
<1> USE DEF Init
<1>1. \A k \in 1 .. NumJobs :
         /\ k - 1 \in Jobs
         /\ ioDone[k] \in Events /\ ioDone[k].job = k - 1
  <2>1. \A k \in 1 .. NumJobs : k - 1 \in Jobs
    BY MLFQAssumption DEF Jobs
  <2>2. ASSUME NEW k \in 1 .. NumJobs
        PROVE  ioDone[k] \in Events /\ ioDone[k].job = k - 1
    <3>1. work[k - 1].start \in Nat
      BY <2>1, MLFQAssumption
    <3>2. ioDone[k] = Event(work[k - 1].start, k - 1, "begins")
      OBVIOUS
    <3> QED
      BY <2>1, <3>1, <3>2 DEF Event, Events
  <2> QED
    BY <2>1, <2>2
<1>2. ioDone \in Seq(Events) /\ DOMAIN ioDone = 1 .. NumJobs
  <2>1. ioDone \in [1 .. NumJobs -> Events]
    BY <1>1
  <2> QED
    BY <2>1, MLFQAssumption, SeqDef
<1>3. \A q \in Levels : queue[q] = <<>> /\ queue[q] \in Seq(Jobs) /\ DOMAIN queue[q] = {}
  OBVIOUS
<1>4. \A j \in Jobs : timeLeft[j] \in Nat \ {0}
  BY MLFQAssumption
<1>5. FinishedSet = {} /\ FinishedCounted
  BY <1>4, FS_EmptySet DEF FinishedSet, FinishedCounted
<1>6. TypeOK
  BY <1>2, <1>3, <1>4, LevelFacts, MLFQAssumption DEF TypeOK, Events
<1>7. \A j \in Jobs : Awaited(ioDone, j)
  <2>1. \A j \in Jobs : j + 1 \in 1 .. NumJobs /\ (j + 1) - 1 = j
    BY MLFQAssumption DEF Jobs
  <2> QED
    BY <1>1, <1>2, <2>1 DEF Awaited
<1>8. Distinct(queue) /\ \A q \in Levels, j \in Jobs : ~InAt(queue, q, j)
  BY <1>3 DEF Distinct, InAt
<1>9. OncePerJob(ioDone)
  BY <1>1, <1>2 DEF OncePerJob
<1>10. Placement /\ AtHome
  BY <1>4, <1>7, <1>8, <1>9 DEF Placement, AtHome
<1>11. SlicePositive /\ Chosen
  BY LevelFacts DEF SlicePositive, Chosen
<1> QED
  BY <1>5, <1>6, <1>10, <1>11 DEF PlaceInv

(* Sweep moves a job from a lower queue to the highest. *)
LEMMA SweepKeeps == PlaceInv /\ Sweep => PlaceInv'
<1> SUFFICES ASSUME PlaceInv, Sweep PROVE PlaceInv'
  OBVIOUS
<1> USE DEF PlaceInv
<1> DEFINE q == Min(Lower)
           j == Head(queue[q])
           mid == [queue EXCEPT ![q] = Tail(@)]
<1>1. q \in Levels /\ q # HiQueue /\ queue[q] # <<>>
  <2>1. Lower \in SUBSET Nat /\ Lower # {}
    BY LevelFacts DEF Lower, Sweep
  <2>2. q \in Lower
    BY <2>1, MinIsLeast
  <2> QED
    BY <2>2 DEF Lower
<1>2. /\ j \in Jobs /\ InAt(queue, q, j)
      /\ mid \in [Levels -> Seq(Jobs)] /\ Distinct(mid)
      /\ \A a \in Levels, i \in Jobs : InAt(mid, a, i) <=> (InAt(queue, a, i) /\ i # j)
  BY <1>1, PopEffect DEF TypeOK, Placement
<1>3. ~doingIO[j]
  BY <1>1, <1>2 DEF Placement
<1>4. queue' = [mid EXCEPT ![HiQueue] = Append(@, j)]
  BY <1>1, <1>3, LevelFacts DEF Sweep, TypeOK
<1>5. \A a \in Levels : ~InAt(mid, a, j)
  BY <1>2
<1> HIDE DEF mid, j, q
<1>6. /\ queue' \in [Levels -> Seq(Jobs)] /\ Distinct(queue')
      /\ \A a \in Levels, i \in Jobs :
           InAt(queue', a, i) <=> (IF i = j THEN a = HiQueue ELSE InAt(queue, a, i))
  <2>1. LET g == [mid EXCEPT ![HiQueue] = Append(@, j)] IN
        /\ g \in [Levels -> Seq(Jobs)]
        /\ Distinct(g)
        /\ \A a \in Levels, i \in Jobs :
             InAt(g, a, i) <=> (IF i = j THEN a = HiQueue ELSE InAt(mid, a, i))
    BY <1>2, <1>5, LevelFacts, AppendEffect
  <2> QED
    BY <1>2, <1>4, <2>1
<1>7. UNCHANGED <<inputs, slices, timeLeft, doingIO, ioDone, currTime, finishedJobs, pc, used>>
  BY DEF Sweep
<1>8. TypeOK'
  BY <1>6, <1>7 DEF TypeOK, inputs, slices
<1>9. Placement'
  <2>1. InAt(queue', HiQueue, j)
    BY <1>2, <1>6, LevelFacts
  <2> QED
    BY <1>1, <1>2, <1>6, <1>7, <2>1, LevelFacts DEF Placement
<1>10. AtHome'
  <2>1. Sweeping'
    BY <1>7 DEF Sweep, Sweeping, BoostDue, inputs
  <2> QED
    BY <1>6, <1>7, <2>1 DEF AtHome, slices
<1>11. FinishedCounted' /\ SlicePositive' /\ Chosen'
  BY <1>7 DEF FinishedCounted, FinishedSet, SlicePositive, Chosen, Sweep, slices
<1> QED
  BY <1>8, <1>9, <1>10, <1>11

(* Boost raises the jobs, all of which are in the highest queue by then. *)
LEMMA BoostKeeps == PlaceInv /\ Boost => PlaceInv'
<1> SUFFICES ASSUME PlaceInv, Boost PROVE PlaceInv'
  OBVIOUS
<1> USE DEF PlaceInv
<1>1. UNCHANGED <<inputs, queue, allotLeft, timeLeft, doingIO, ioDone, currTime, finishedJobs>>
  BY DEF Boost
<1>2. /\ pc' = "events"
      /\ currPri' \in [Jobs -> Levels]
      /\ ticksLeft' \in [Jobs -> Nat]
      /\ used' \in [Jobs -> Nat]
      /\ \A j \in Jobs : timeLeft[j] > 0 => currPri'[j] = HiQueue /\ ticksLeft'[j] > 0
  BY LevelFacts DEF Boost, BoostedPri, TypeOK
<1>3. TypeOK'
  BY <1>1, <1>2 DEF TypeOK, inputs
<1>4. Placement'
  BY <1>1 DEF Placement
<1>5. AtHome'
  <2>1. \A a \in Levels, i \in Jobs : InAt(queue, a, i) => a = HiQueue
    <3>1. \A a \in Levels : a # HiQueue => queue[a] = <<>>
      BY DEF Boost, Lower
    <3> QED
      BY <3>1 DEF InAt
  <2> QED
    BY <1>1, <1>2, <2>1 DEF AtHome, Placement
<1>6. FinishedCounted' /\ SlicePositive' /\ Chosen'
  BY <1>1, <1>2 DEF FinishedCounted, FinishedSet, SlicePositive, Chosen
<1> QED
  BY <1>3, <1>4, <1>5, <1>6

(* HandleEvent puts the job that waited into the queue of its priority. *)
LEMMA EventKeeps == PlaceInv /\ HandleEvent => PlaceInv'
<1> SUFFICES ASSUME PlaceInv, HandleEvent PROVE PlaceInv'
  OBVIOUS
<1> USE DEF PlaceInv
<1> DEFINE e == ioDone[Min(Due)]
           h == e.job
           q == currPri[h]
<1>1. ioDone \in Seq(Events)
  BY DEF TypeOK, Events
<1>2. Min(Due) \in DOMAIN ioDone
  <2>1. Due \in SUBSET Nat /\ Due # {}
    BY <1>1, LenProperties DEF Due, HandleEvent
  <2> QED
    BY <2>1, MinIsLeast DEF Due
<1>3. e \in Events /\ h \in Jobs /\ q \in Levels
  <2>1. e \in Events
    BY <1>1, <1>2, ElementOfSeq, LenProperties
  <2> QED
    BY <2>1 DEF Events, TypeOK
<1>4. Awaited(ioDone, h) /\ timeLeft[h] > 0 /\ \A a \in Levels : ~InAt(queue, a, h)
  BY <1>2, <1>3 DEF Awaited, Placement
<1>5. /\ ioDone' \in Seq(Events) /\ OncePerJob(ioDone')
      /\ \A j \in Jobs : Awaited(ioDone', j) <=> (Awaited(ioDone, j) /\ j # h)
  BY <1>1, <1>2, RemoveEffect DEF HandleEvent, Placement
<1>6. /\ queue' \in [Levels -> Seq(Jobs)] /\ Distinct(queue')
      /\ \A a \in Levels, j \in Jobs :
           InAt(queue', a, j) <=> (IF j = h THEN a = q ELSE InAt(queue, a, j))
  <2>0. queue \in [Levels -> Seq(Jobs)] /\ Distinct(queue)
    BY DEF TypeOK, Placement
  <2>1. CASE ToFront(e)
    <3>1. queue' = [queue EXCEPT ![q] = <<h>> \o @]
      BY <2>1 DEF HandleEvent
    <3> HIDE DEF h, q
    <3> QED
      BY <1>3, <1>4, <2>0, <3>1, PrependEffect
  <2>2. CASE ~ToFront(e)
    <3>1. queue' = [queue EXCEPT ![q] = Append(@, h)]
      BY <2>2 DEF HandleEvent
    <3> HIDE DEF h, q
    <3> QED
      BY <1>3, <1>4, <2>0, <3>1, AppendEffect
  <2> QED
    BY <2>1, <2>2
<1>7. /\ UNCHANGED <<inputs, slices, timeLeft, currTime, finishedJobs, pc, used>>
      /\ doingIO' = [doingIO EXCEPT ![h] = FALSE]
      /\ pc = "events"
  BY DEF HandleEvent
<1> HIDE DEF h, q, e
<1>8. TypeOK'
  <2>1. doingIO' \in [Jobs -> BOOLEAN]
    BY <1>7, <1>3, Zenon DEF TypeOK
  <2> QED
    BY <1>5, <1>6, <1>7, <2>1 DEF TypeOK, Events, inputs, slices
<1>9. Placement'
  <2>1. ~doingIO'[h] /\ \A j \in Jobs : j # h => doingIO'[j] = doingIO[j]
    BY <1>3, <1>7 DEF TypeOK
  <2>2. \A j \in Jobs, a \in Levels : InAt(queue', a, j) =>
          ~Awaited(ioDone', j) /\ timeLeft'[j] > 0 /\ ~doingIO'[j]
    BY <1>4, <1>5, <1>6, <1>7, <2>1 DEF Placement
  <2>3. \A j \in Jobs : timeLeft'[j] > 0 =>
          Awaited(ioDone', j) \/ \E a \in Levels : InAt(queue', a, j)
    BY <1>3, <1>5, <1>6, <1>7 DEF Placement
  <2>4. \A j \in Jobs : doingIO'[j] => Awaited(ioDone', j)
    BY <1>5, <2>1 DEF Placement
  <2>5. \A j \in Jobs : Awaited(ioDone', j) => timeLeft'[j] > 0
    BY <1>5, <1>7 DEF Placement
  <2> QED
    BY <1>5, <1>6, <2>2, <2>3, <2>4, <2>5 DEF Placement
<1>10. AtHome'
  <2>1. currPri' = currPri /\ ~Sweeping
    BY <1>7 DEF slices, Sweeping
  <2>2. q = currPri[h]
    BY DEF q
  <2> QED
    BY <1>6, <2>1, <2>2 DEF AtHome
<1>11. FinishedCounted' /\ SlicePositive' /\ Chosen'
  BY <1>7 DEF FinishedCounted, FinishedSet, SlicePositive, Chosen, slices
<1> QED
  BY <1>8, <1>9, <1>10, <1>11

(* What a tick charges. *)
LEMMA ChargeEffect ==
    ASSUME PlaceInv, NEW j \in Jobs, NEW q \in Levels, ChargeTick(j, q),
           currPri[j] = q, timeLeft[j] > 0
    PROVE  /\ LevelAfter(j, q) \in Levels
           /\ currPri' \in [Jobs -> Levels] /\ currPri'[j] = LevelAfter(j, q)
           /\ ticksLeft' \in [Jobs -> Nat] /\ ticksLeft'[j] > 0
           /\ allotLeft' \in [Jobs -> Int]
           /\ used' \in [Jobs -> Nat]
           /\ finishedJobs' = finishedJobs
           /\ \A i \in Jobs : i # j =>
                /\ currPri'[i] = currPri[i] /\ ticksLeft'[i] = ticksLeft[i]
                /\ allotLeft'[i] = allotLeft[i] /\ used'[i] = used[i]
<1> USE DEF PlaceInv
<1>1. LevelAfter(j, q) \in Levels
  BY LevelFacts DEF LevelAfter
<1> DEFINE new == LevelAfter(j, q)
<1>2. /\ currPri' = [currPri EXCEPT ![j] = new]
      /\ ticksLeft' = [ticksLeft EXCEPT ![j] =
                          IF SliceOver(j) \/ Resets(j) THEN Quantum[new] ELSE @ - 1]
      /\ allotLeft' = [allotLeft EXCEPT ![j] =
                          IF AllotmentOver(j, q) THEN Allotment[new] ELSE AllotAfter(j, q)]
      /\ used' = [used EXCEPT ![j] = IF new # q \/ Resets(j) THEN 0 ELSE @ + 1]
      /\ finishedJobs' = finishedJobs
  BY DEF ChargeTick
<1> HIDE DEF new
<1>3. new \in Levels
  BY <1>1 DEF new
<1>4. currPri' \in [Jobs -> Levels] /\ currPri'[j] = new
  BY <1>2, <1>3 DEF TypeOK
<1>5. ticksLeft' \in [Jobs -> Nat] /\ ticksLeft'[j] > 0
  <2>1. ticksLeft[j] \in Nat /\ ticksLeft[j] > 0
    BY DEF TypeOK, SlicePositive
  <2>2. ~SliceOver(j) => ticksLeft[j] - 1 \in Nat /\ ticksLeft[j] - 1 > 0
    BY <2>1 DEF SliceOver
  <2>3. Quantum[new] \in Nat /\ Quantum[new] > 0
    BY <1>3, LevelFacts
  <2> QED
    BY <1>2, <2>2, <2>3 DEF TypeOK
<1>6. allotLeft' \in [Jobs -> Int]
  <2>1. AllotAfter(j, q) \in Int
    BY LevelFacts DEF AllotAfter, TypeOK
  <2>2. Allotment[new] \in Int
    BY <1>3, LevelFacts
  <2> QED
    BY <1>2, <2>1, <2>2 DEF TypeOK
<1>7. used' \in [Jobs -> Nat]
  BY <1>2 DEF TypeOK
<1>8. \A i \in Jobs : i # j =>
        /\ currPri'[i] = currPri[i] /\ ticksLeft'[i] = ticksLeft[i]
        /\ allotLeft'[i] = allotLeft[i] /\ used'[i] = used[i]
  BY <1>2 DEF TypeOK
<1> QED
  BY <1>1, <1>2, <1>4, <1>5, <1>6, <1>7, <1>8 DEF new

(* The clock, the job's time and the program counter. *)
LEMMA SpendEffect ==
    ASSUME TypeOK, NEW j \in Jobs, SpendTick(j), timeLeft[j] > 0
    PROVE  /\ currTime' \in Nat
           /\ timeLeft' \in [Jobs -> Nat]
           /\ timeLeft'[j] = timeLeft[j] - 1
           /\ \A i \in Jobs : i # j => timeLeft'[i] = timeLeft[i]
           /\ pc' = "boost" /\ UNCHANGED <<options, work>>
<1>1. timeLeft[j] \in Nat /\ timeLeft[j] - 1 \in Nat
  BY DEF TypeOK
<1>2. /\ timeLeft' = [timeLeft EXCEPT ![j] = @ - 1] /\ currTime' = currTime + 1
      /\ pc' = "boost" /\ UNCHANGED <<options, work>>
  BY DEF SpendTick, inputs
<1> QED
  BY <1>1, <1>2 DEF TypeOK

(* Taking the running job j from its queue. *)
LEMMA PopQueue ==
    ASSUME TypeOK, Placement, NEW q \in Levels, queue[q] # <<>>,
           NEW j, j = Head(queue[q])
    PROVE  LET mid == [queue EXCEPT ![q] = Tail(@)] IN
           /\ mid \in [Levels -> Seq(Jobs)] /\ Distinct(mid)
           /\ \A a \in Levels, i \in Jobs : InAt(mid, a, i) <=> (InAt(queue, a, i) /\ i # j)
<1>1. queue \in [Levels -> Seq(Jobs)] /\ Distinct(queue)
  BY DEF TypeOK, Placement
<1> QED
  BY <1>1, PopEffect

LEMMA FinishKeeps == PlaceInv /\ Finish => PlaceInv'
<1> SUFFICES ASSUME PlaceInv, Finish PROVE PlaceInv'
  OBVIOUS
<1> USE DEF PlaceInv
<1>0. pc = "run" /\ Busy # {} /\ pc # "boost"
  BY DEF Finish, Chosen
<1>1. PICK j \in Jobs, q \in Levels :
        /\ j = CurrJob /\ q = FindQueue
        /\ queue[q] # <<>> /\ j = Head(queue[q]) /\ InAt(queue, q, j)
        /\ currPri[j] = q /\ timeLeft[j] > 0 /\ ~doingIO[j] /\ ~Awaited(ioDone, j)
  BY <1>0, FrontJob
<1>2. /\ timeLeft[j] = 1 /\ SpendTick(j)
      /\ ticksLeft' = [ticksLeft EXCEPT ![j] = @ - 1]
      /\ finishedJobs' = finishedJobs + 1
      /\ queue' = [queue EXCEPT ![q] = Tail(@)]
      /\ UNCHANGED <<currPri, allotLeft, doingIO, ioDone, used>>
  BY <1>1 DEF Finish, Pop
<1>3. /\ currTime' \in Nat /\ timeLeft' \in [Jobs -> Nat] /\ timeLeft'[j] = 0
      /\ \A i \in Jobs : i # j => timeLeft'[i] = timeLeft[i]
      /\ pc' = "boost" /\ UNCHANGED <<options, work>>
  BY <1>1, <1>2, SpendEffect
<1>4. /\ queue' \in [Levels -> Seq(Jobs)] /\ Distinct(queue')
      /\ \A a \in Levels, i \in Jobs : InAt(queue', a, i) <=> (InAt(queue, a, i) /\ i # j)
  BY <1>1, <1>2, PopQueue
<1>5. ticksLeft' \in [Jobs -> Nat] /\ \A i \in Jobs : i # j => ticksLeft'[i] = ticksLeft[i]
  <2>1. ticksLeft[j] \in Nat /\ ticksLeft[j] - 1 \in Nat
    BY <1>1 DEF TypeOK, SlicePositive
  <2> QED
    BY <1>2, <2>1 DEF TypeOK
<1>6. FinishedCounted' /\ finishedJobs' \in 0 .. NumJobs
  <2>1. FinishedSet' = FinishedSet \cup {j} /\ j \notin FinishedSet
    BY <1>2, <1>3 DEF FinishedSet, TypeOK
  <2>2. IsFiniteSet(FinishedSet)
    BY JobsFinite, FS_Subset DEF FinishedSet
  <2>3. Cardinality(FinishedSet') = Cardinality(FinishedSet) + 1
    BY <2>1, <2>2, FS_AddElement
  <2>4. Cardinality(FinishedSet') <= NumJobs
    BY JobsFinite, FS_Subset DEF FinishedSet
  <2> QED
    BY <1>2, <2>3, <2>4 DEF FinishedCounted, TypeOK
<1>7. TypeOK'
  BY <1>2, <1>3, <1>4, <1>5, <1>6 DEF TypeOK
<1>8. Placement'
  <2>1. \A i \in Jobs : Awaited(ioDone', i) => timeLeft'[i] > 0
    BY <1>1, <1>2, <1>3 DEF Placement
  <2>2. \A i \in Jobs, a \in Levels : InAt(queue', a, i) =>
          ~Awaited(ioDone', i) /\ timeLeft'[i] > 0 /\ ~doingIO'[i]
    BY <1>2, <1>3, <1>4 DEF Placement
  <2>3. ASSUME NEW i \in Jobs, timeLeft'[i] > 0
        PROVE  Awaited(ioDone', i) \/ \E a \in Levels : InAt(queue', a, i)
    <3>1. i # j
      BY <1>3, <2>3
    <3>2. Awaited(ioDone, i) \/ \E a \in Levels : InAt(queue, a, i)
      BY <1>3, <2>3, <3>1 DEF Placement
    <3> QED
      BY <1>2, <1>4, <3>1, <3>2
  <2> QED
    BY <1>2, <1>4, <2>1, <2>2, <2>3 DEF Placement
<1>9. AtHome'
  <2>1. ~Sweeping
    BY <1>0 DEF Sweeping
  <2> QED
    BY <1>2, <1>4, <2>1 DEF AtHome
<1>10. SlicePositive' /\ Chosen'
  BY <1>3, <1>5 DEF SlicePositive, Chosen
<1> QED
  BY <1>6, <1>7, <1>8, <1>9, <1>10

LEMMA StartIOKeeps == PlaceInv /\ StartIO => PlaceInv'
<1> SUFFICES ASSUME PlaceInv, StartIO PROVE PlaceInv'
  OBVIOUS
<1> USE DEF PlaceInv
<1>0. pc = "run" /\ Busy # {} /\ pc # "boost"
  BY DEF StartIO, Chosen
<1>1. PICK j \in Jobs, q \in Levels :
        /\ j = CurrJob /\ q = FindQueue
        /\ queue[q] # <<>> /\ j = Head(queue[q]) /\ InAt(queue, q, j)
        /\ currPri[j] = q /\ timeLeft[j] > 0 /\ ~doingIO[j] /\ ~Awaited(ioDone, j)
  BY <1>0, FrontJob
<1>2. /\ timeLeft[j] # 1 /\ SpendTick(j) /\ ChargeTick(j, q)
      /\ queue' = [queue EXCEPT ![q] = Tail(@)]
      /\ doingIO' = [doingIO EXCEPT ![j] = TRUE]
      /\ ioDone' = Append(ioDone, Event(currTime' + options.ioTime, j, "io"))
  BY <1>1 DEF StartIO, Pop
<1>3. /\ currTime' \in Nat /\ timeLeft' \in [Jobs -> Nat] /\ timeLeft'[j] > 0
      /\ \A i \in Jobs : i # j => timeLeft'[i] = timeLeft[i]
      /\ pc' = "boost" /\ UNCHANGED <<options, work>>
  <2>1. timeLeft[j] - 1 > 0
    <3>1. timeLeft[j] \in Nat
      BY DEF TypeOK
    <3> QED
      BY <1>1, <1>2, <3>1
  <2> QED
    BY <1>1, <1>2, <2>1, SpendEffect
<1>4. /\ queue' \in [Levels -> Seq(Jobs)] /\ Distinct(queue')
      /\ \A a \in Levels, i \in Jobs : InAt(queue', a, i) <=> (InAt(queue, a, i) /\ i # j)
  BY <1>1, <1>2, PopQueue
<1> DEFINE e == Event(currTime' + options.ioTime, j, "io")
<1>5. e \in Events /\ e.job = j
  <2>1. options.ioTime \in Nat /\ currTime' \in Nat
    BY <1>3, MLFQAssumption DEF TypeOK
  <2> QED
    BY <2>1 DEF Event, Events
<1> HIDE DEF e
<1>6. /\ ioDone' \in Seq(Events) /\ OncePerJob(ioDone')
      /\ \A i \in Jobs : Awaited(ioDone', i) <=> (Awaited(ioDone, i) \/ i = j)
  <2>1. ioDone \in Seq(Events) /\ OncePerJob(ioDone) /\ ~Awaited(ioDone, e.job)
    BY <1>1, <1>5 DEF TypeOK, Placement, Events
  <2>2. ioDone' = Append(ioDone, e)
    BY <1>2 DEF e
  <2> QED
    BY <1>5, <2>1, <2>2, AddEffect
<1>7. /\ currPri' \in [Jobs -> Levels]
      /\ ticksLeft' \in [Jobs -> Nat] /\ ticksLeft'[j] > 0
      /\ allotLeft' \in [Jobs -> Int] /\ used' \in [Jobs -> Nat]
      /\ finishedJobs' = finishedJobs
      /\ \A i \in Jobs : i # j => currPri'[i] = currPri[i] /\ ticksLeft'[i] = ticksLeft[i]
  BY <1>1, <1>2, ChargeEffect
<1>8. TypeOK'
  <2>1. doingIO' \in [Jobs -> BOOLEAN]
    BY <1>2, Zenon DEF TypeOK
  <2> QED
    BY <1>3, <1>4, <1>6, <1>7, <2>1 DEF TypeOK, Events
<1>9. Placement'
  <2>1. \A i \in Jobs : i # j => doingIO'[i] = doingIO[i]
    BY <1>2 DEF TypeOK
  <2>2. \A i \in Jobs, a \in Levels : InAt(queue', a, i) =>
          ~Awaited(ioDone', i) /\ timeLeft'[i] > 0 /\ ~doingIO'[i]
    BY <1>3, <1>4, <1>6, <2>1 DEF Placement
  <2>3. \A i \in Jobs : timeLeft'[i] > 0 =>
          Awaited(ioDone', i) \/ \E a \in Levels : InAt(queue', a, i)
    BY <1>3, <1>4, <1>6 DEF Placement
  <2>4. \A i \in Jobs : doingIO'[i] => Awaited(ioDone', i)
    BY <1>6, <2>1 DEF Placement
  <2>5. \A i \in Jobs : Awaited(ioDone', i) => timeLeft'[i] > 0
    BY <1>3, <1>6 DEF Placement
  <2> QED
    BY <1>4, <1>6, <2>2, <2>3, <2>4, <2>5 DEF Placement
<1>10. AtHome'
  <2>1. ~Sweeping
    BY <1>0 DEF Sweeping
  <2> QED
    BY <1>4, <1>7, <2>1 DEF AtHome
<1>11. FinishedCounted'
  <2>1. FinishedSet' = FinishedSet
    BY <1>1, <1>3 DEF FinishedSet, TypeOK
  <2> QED
    BY <1>7, <2>1 DEF FinishedCounted
<1>12. SlicePositive' /\ Chosen'
  BY <1>3, <1>7 DEF SlicePositive, Chosen
<1> QED
  BY <1>8, <1>9, <1>10, <1>11, <1>12

LEMMA TickKeeps == PlaceInv /\ Tick => PlaceInv'
<1> SUFFICES ASSUME PlaceInv, Tick PROVE PlaceInv'
  OBVIOUS
<1> USE DEF PlaceInv
<1>0. pc = "run" /\ Busy # {} /\ pc # "boost"
  BY DEF Tick, Chosen
<1>1. PICK j \in Jobs, q \in Levels :
        /\ j = CurrJob /\ q = FindQueue
        /\ queue[q] # <<>> /\ j = Head(queue[q]) /\ InAt(queue, q, j)
        /\ currPri[j] = q /\ timeLeft[j] > 0 /\ ~doingIO[j] /\ ~Awaited(ioDone, j)
  BY <1>0, FrontJob
<1> DEFINE new == LevelAfter(j, q)
           mid == [queue EXCEPT ![q] = Tail(@)]
<1>2. /\ timeLeft[j] # 1 /\ SpendTick(j) /\ ChargeTick(j, q)
      /\ queue' = IF SliceOver(j) THEN [mid EXCEPT ![new] = Append(@, j)] ELSE queue
      /\ UNCHANGED <<doingIO, ioDone>>
  BY <1>1 DEF Tick, Pop
<1>3. /\ currTime' \in Nat /\ timeLeft' \in [Jobs -> Nat] /\ timeLeft'[j] > 0
      /\ \A i \in Jobs : i # j => timeLeft'[i] = timeLeft[i]
      /\ pc' = "boost" /\ UNCHANGED <<options, work>>
  <2>1. timeLeft[j] - 1 > 0
    <3>1. timeLeft[j] \in Nat
      BY DEF TypeOK
    <3> QED
      BY <1>1, <1>2, <3>1
  <2> QED
    BY <1>1, <1>2, <2>1, SpendEffect
<1>4. /\ new \in Levels /\ currPri' \in [Jobs -> Levels] /\ currPri'[j] = new
      /\ ticksLeft' \in [Jobs -> Nat] /\ ticksLeft'[j] > 0
      /\ allotLeft' \in [Jobs -> Int] /\ used' \in [Jobs -> Nat]
      /\ finishedJobs' = finishedJobs
      /\ \A i \in Jobs : i # j => currPri'[i] = currPri[i] /\ ticksLeft'[i] = ticksLeft[i]
  BY <1>1, <1>2, ChargeEffect
<1>5. ~SliceOver(j) => new = q
  BY DEF LevelAfter, AllotmentOver
<1> HIDE DEF new
<1>6. /\ queue' \in [Levels -> Seq(Jobs)] /\ Distinct(queue')
      /\ \A a \in Levels, i \in Jobs :
           InAt(queue', a, i) <=> (IF i = j THEN a = new ELSE InAt(queue, a, i))
  <2>0. \A a \in Levels : InAt(queue, a, j) <=> a = q
    BY <1>0, <1>1 DEF AtHome, Sweeping
  <2>1. CASE ~SliceOver(j)
    <3>1. queue' = queue
      BY <1>2, <2>1
    <3> QED
      BY <1>5, <2>0, <2>1, <3>1 DEF TypeOK, Placement
  <2>2. CASE SliceOver(j)
    <3>1. /\ mid \in [Levels -> Seq(Jobs)] /\ Distinct(mid)
          /\ \A a \in Levels, i \in Jobs : InAt(mid, a, i) <=> (InAt(queue, a, i) /\ i # j)
      BY <1>1, PopQueue
    <3> HIDE DEF mid
    <3>2. queue' = [mid EXCEPT ![new] = Append(@, j)]
      BY <1>2, <2>2
    <3>3. LET g == [mid EXCEPT ![new] = Append(@, j)] IN
          /\ g \in [Levels -> Seq(Jobs)]
          /\ Distinct(g)
          /\ \A a \in Levels, i \in Jobs :
               InAt(g, a, i) <=> (IF i = j THEN a = new ELSE InAt(mid, a, i))
      <4>1. \A a \in Levels : ~InAt(mid, a, j)
        BY <3>1
      <4>2. new \in Levels
        BY <1>4
      <4>3. mid \in [Levels -> Seq(Jobs)] /\ Distinct(mid)
        BY <3>1
      <4> QED
        BY <4>1, <4>2, <4>3, AppendEffect
    <3> QED
      BY <3>1, <3>2, <3>3
  <2> QED
    BY <2>1, <2>2
<1>7. TypeOK'
  BY <1>2, <1>3, <1>4, <1>6 DEF TypeOK
<1>8. Placement'
  BY <1>1, <1>2, <1>3, <1>4, <1>6 DEF Placement
<1>9. AtHome'
  <2>1. ~Sweeping
    BY <1>0 DEF Sweeping
  <2> QED
    BY <1>4, <1>6, <2>1 DEF AtHome
<1>10. FinishedCounted'
  <2>1. FinishedSet' = FinishedSet
    BY <1>1, <1>3 DEF FinishedSet, TypeOK
  <2> QED
    BY <1>4, <2>1 DEF FinishedCounted
<1>11. SlicePositive' /\ Chosen'
  BY <1>3, <1>4 DEF SlicePositive, Chosen
<1> QED
  BY <1>7, <1>8, <1>9, <1>10, <1>11

(* The steps that move no job. *)
LEMMA OthersKeep ==
    PlaceInv /\ (NoBoost \/ Idle \/ Pick \/ UNCHANGED vars) => PlaceInv'
<1> SUFFICES ASSUME PlaceInv, NoBoost \/ Idle \/ Pick \/ UNCHANGED vars
             PROVE  PlaceInv'
  OBVIOUS
<1> USE DEF PlaceInv
<1>1. /\ UNCHANGED <<options, work, queue, currPri, ticksLeft, allotLeft, timeLeft,
                     doingIO, ioDone, finishedJobs, used>>
      /\ currTime' \in {currTime, currTime + 1}
  BY DEF NoBoost, Idle, Pick, vars, inputs, slices
<1>2. pc' \in {"boost", "events", "run"} /\ (pc' = "run" => Busy # {})
  <2>1. CASE Pick
    <3>1. Busy # {} /\ pc # "boost"
      BY <2>1 DEF Pick
    <3>2. currPri[CurrJob] = FindQueue /\ timeLeft[CurrJob] > 0
      BY <3>1, FrontJob
    <3> QED
      BY <2>1, <3>1, <3>2 DEF Pick
  <2>2. CASE ~Pick
    BY <2>2 DEF NoBoost, Idle, vars, Chosen, TypeOK
  <2> QED
    BY <2>1, <2>2
<1>3. TypeOK'
  BY <1>1, <1>2 DEF TypeOK
<1>4. AtHome'
  <2>1. CASE NoBoost \/ Idle \/ Pick
    <3>1. ~Sweeping
      BY <2>1 DEF NoBoost, Idle, Pick, Sweeping
    <3> QED
      BY <1>1, <3>1 DEF AtHome
  <2>2. CASE UNCHANGED vars
    BY <2>2 DEF AtHome, vars, slices, inputs, Sweeping, BoostDue
  <2> QED
    BY <2>1, <2>2
<1>5. Placement' /\ FinishedCounted' /\ SlicePositive'
  BY <1>1 DEF Placement, FinishedCounted, FinishedSet, SlicePositive
<1>6. Chosen'
  BY <1>1, <1>2 DEF Chosen, Busy
<1> QED
  BY <1>3, <1>4, <1>5, <1>6

LEMMA PlaceNext == PlaceInv /\ [Next]_vars => PlaceInv'
  BY SweepKeeps, BoostKeeps, EventKeeps, FinishKeeps, StartIOKeeps, TickKeeps,
     OthersKeep DEF Next, Ended

(* The types of the simulator's state. *)
THEOREM TypeCorrect == Spec => []TypeOK
<1>1. PlaceInv => TypeOK
  BY DEF PlaceInv
<1> QED
  BY <1>1, PlaceInit, PlaceNext, PTL DEF Spec

NoAbort == pc # "aborted"

(* The two calls of Abort in the main loop are never reached: the front job of
   the highest nonempty queue has that queue's priority and time left to run. *)
THEOREM NeverAborts == Spec => []NoAbort
<1>1. PlaceInv => NoAbort
  BY DEF PlaceInv, Chosen, NoAbort
<1> QED
  BY <1>1, PlaceInit, PlaceNext, PTL DEF Spec

-----------------------------------------------------------------------------
(* Each job is in one place.                                               *)

LEMMA WaitsCount ==
    ASSUME PlaceInv, NEW j \in Jobs
    PROVE  Waits(j) = IF Awaited(ioDone, j) THEN 1 ELSE 0
<1> DEFINE W == {k \in DOMAIN ioDone : ioDone[k].job = j}
<1>1. CASE Awaited(ioDone, j)
  <2>1. PICK k \in DOMAIN ioDone : ioDone[k].job = j
    BY <1>1 DEF Awaited
  <2>2. W = {k}
    BY <2>1 DEF PlaceInv, Placement, OncePerJob
  <2> QED
    BY <1>1, <2>2, FS_Singleton DEF Waits
<1>2. CASE ~Awaited(ioDone, j)
  <2>1. W = {}
    BY <1>2 DEF Awaited
  <2> QED
    BY <1>2, <2>1, FS_EmptySet DEF Waits
<1> QED
  BY <1>1, <1>2

LEMMA PlacesAre ==
    ASSUME NEW j \in Jobs
    PROVE  \A p : p \in Places(j) <=>
             \E q \in Levels : \E k \in DOMAIN queue[q] : queue[q][k] = j /\ p = <<q, k>>
<1> DEFINE S(q) == {q} \X {k \in DOMAIN queue[q] : queue[q][k] = j}
<1>1. \A p : p \in Places(j) <=> \E q \in Levels : p \in S(q)
  BY DEF Places
<1>2. \A q \in Levels : \A p : p \in S(q) <=>
         \E k \in DOMAIN queue[q] : queue[q][k] = j /\ p = <<q, k>>
  OBVIOUS
<1> QED
  BY <1>1, <1>2

(* The main loop never loses or duplicates a job: PlaceInv says so of its
   queues and events. *)
LEMMA InOnePlace == PlaceInv => EachJobInOnePlace
<1> SUFFICES ASSUME PlaceInv, NEW j \in Jobs
             PROVE  /\ Cardinality(Places(j)) =
                          IF timeLeft[j] > 0 /\ Waits(j) = 0 THEN 1 ELSE 0
                    /\ \A p \in Places(j) :
                         p[1] = currPri[j] \/ (Sweeping /\ p[1] = HiQueue)
                    /\ Waits(j) <= IF timeLeft[j] > 0 THEN 1 ELSE 0
                    /\ doingIO[j] => Waits(j) = 1
  BY DEF EachJobInOnePlace
<1>1. Waits(j) = IF Awaited(ioDone, j) THEN 1 ELSE 0
  BY WaitsCount
<1>2. \A p \in Places(j) : p[1] = currPri[j] \/ (Sweeping /\ p[1] = HiQueue)
  <2>1. \A p \in Places(j) : p[1] \in Levels /\ InAt(queue, p[1], j)
    BY PlacesAre DEF InAt
  <2> QED
    BY <2>1 DEF PlaceInv, AtHome
<1>3. CASE \E q \in Levels : InAt(queue, q, j)
  <2>0. PICK q \in Levels : \E k \in DOMAIN queue[q] : queue[q][k] = j
    BY <1>3 DEF InAt
  <2>1. PICK k \in DOMAIN queue[q] : queue[q][k] = j
    BY <2>0
  <2>2. \A r \in Levels : \A l \in DOMAIN queue[r] :
           queue[r][l] = j => r = q /\ l = k
    BY <2>1 DEF PlaceInv, Placement, Distinct
  <2>3. Places(j) = {<<q, k>>}
    BY <2>1, <2>2, PlacesAre
  <2>4. timeLeft[j] > 0 /\ Waits(j) = 0
    BY <1>1, <1>3 DEF PlaceInv, Placement
  <2>5. Cardinality(Places(j)) = 1
    BY <2>3, FS_Singleton
  <2>6. ~doingIO[j]
    BY <1>3 DEF PlaceInv, Placement
  <2> QED
    BY <1>2, <2>4, <2>5, <2>6
<1>4. CASE ~\E q \in Levels : InAt(queue, q, j)
  <2>1. Places(j) = {}
    BY <1>4, PlacesAre DEF InAt
  <2>2. Cardinality(Places(j)) = 0
    BY <2>1, FS_EmptySet
  <2>3. timeLeft[j] > 0 <=> Awaited(ioDone, j)
    BY <1>4 DEF PlaceInv, Placement
  <2>4. doingIO[j] => Awaited(ioDone, j)
    BY DEF PlaceInv, Placement
  <2> QED
    BY <1>1, <1>2, <2>2, <2>3, <2>4
<1> QED
  BY <1>3, <1>4

(* No job is lost or duplicated by boosts, I/Os, demotions and events that
   come together, for any number of jobs and queues. *)
THEOREM JobsKept == Spec => []EachJobInOnePlace
  BY InOnePlace, PlaceInit, PlaceNext, PTL DEF Spec

-----------------------------------------------------------------------------
(* Slices and allotments.                                                  *)

LEMMA OneSliceMore ==
    \A a \in Int, x \in Int : a * (x + 1) = a * x + a
  OBVIOUS

LEMMA SlicesBounded ==
    ASSUME NEW a \in Nat, NEW x \in Int, NEW y \in Int, x <= y
    PROVE  a * x <= a * y
  OBVIOUS

LEMMA AccountedInit == Init => Accounted
<1> SUFFICES ASSUME Init, NEW j \in Jobs
             PROVE  /\ ticksLeft[j] <= Quantum[currPri[j]]
                    /\ allotLeft[j] \in 1 .. Allotment[currPri[j]]
                    /\ used[j] = Quantum[currPri[j]] * (Allotment[currPri[j]] - allotLeft[j])
                                 + (Quantum[currPri[j]] - ticksLeft[j])
  BY DEF Accounted
<1>1. /\ currPri[j] = HiQueue /\ ticksLeft[j] = Quantum[HiQueue]
      /\ allotLeft[j] = Allotment[HiQueue] /\ used[j] = 0
  BY DEF Init
<1>2. Quantum[HiQueue] \in Nat /\ Allotment[HiQueue] \in Nat /\ Allotment[HiQueue] > 0
  BY LevelFacts
<1> QED
  BY <1>1, <1>2

(* Charging a tick keeps the account of the job that ran. *)
LEMMA AccountedCharge ==
    ASSUME PlaceInv, Accounted, NEW j \in Jobs, NEW q \in Levels,
           ChargeTick(j, q), currPri[j] = q, timeLeft[j] > 0,
           ~options.stay, options.boost = 0
    PROVE  /\ ticksLeft'[j] <= Quantum[currPri'[j]]
           /\ currPri'[j] > 0 =>
                /\ allotLeft'[j] \in 1 .. Allotment[currPri'[j]]
                /\ used'[j] = Quantum[currPri'[j]] * (Allotment[currPri'[j]] - allotLeft'[j])
                              + (Quantum[currPri'[j]] - ticksLeft'[j])
<1> DEFINE new == LevelAfter(j, q)
           a == allotLeft[j]
           t == ticksLeft[j]
<1>1. ~Resets(j)
  BY DEF Resets
<1>2. new \in Levels
  BY ChargeEffect
<1>3. /\ currPri'[j] = new
      /\ ticksLeft'[j] = IF SliceOver(j) THEN Quantum[new] ELSE t - 1
      /\ allotLeft'[j] = IF AllotmentOver(j, q) THEN Allotment[new] ELSE AllotAfter(j, q)
      /\ used'[j] = IF new # q THEN 0 ELSE used[j] + 1
  BY <1>1 DEF ChargeTick, PlaceInv, TypeOK
<1>4. /\ t \in Nat /\ t > 0 /\ a \in Int /\ used[j] \in Nat
  BY DEF PlaceInv, TypeOK, SlicePositive
<1>5. /\ t <= Quantum[q]
      /\ q > 0 => /\ a \in 1 .. Allotment[q]
                  /\ used[j] = Quantum[q] * (Allotment[q] - a) + (Quantum[q] - t)
  BY DEF Accounted
<1>6. AllotAfter(j, q) = a - (IF SliceOver(j) THEN 1 ELSE 0)
  BY <1>1 DEF AllotAfter
<1>7. /\ Quantum[q] \in Nat /\ Allotment[q] \in Nat /\ q \in Nat
      /\ Quantum[new] \in Nat /\ Quantum[new] > 0 /\ Allotment[new] \in Nat /\ new \in Nat
  <2> HIDE DEF new
  <2> QED
    BY <1>2, LevelFacts
<1>8. new > 0 => Allotment[new] > 0
  BY <1>2, LevelFacts
<1>9. SliceOver(j) <=> t = 1
  BY DEF SliceOver
<1>10. new = IF AllotmentOver(j, q) /\ q > 0 THEN q - 1 ELSE q
  BY DEF LevelAfter
<1>11. AllotmentOver(j, q) <=> (t = 1 /\ AllotAfter(j, q) = 0)
  BY <1>9 DEF AllotmentOver
<1> HIDE DEF new, a, t
<1>12. CASE t # 1
  <2>1. new = q /\ ticksLeft'[j] = t - 1 /\ allotLeft'[j] = a /\ used'[j] = used[j] + 1
    BY <1>3, <1>4, <1>6, <1>9, <1>10, <1>11, <1>12
  <2>2. t - 1 <= Quantum[q]
    BY <1>4, <1>5, <1>7
  <2>3. ASSUME q > 0 PROVE used[j] + 1 = Quantum[q] * (Allotment[q] - a) + (Quantum[q] - (t - 1))
    <3>1. PICK p \in Int : p = Quantum[q] * (Allotment[q] - a)
      BY <1>4, <1>7
    <3>2. used[j] = p + (Quantum[q] - t)
      BY <1>5, <2>3, <3>1
    <3>3. used[j] + 1 = p + (Quantum[q] - (t - 1))
      BY <1>4, <1>7, <3>2
    <3> QED
      BY <3>1, <3>3
  <2> QED
    BY <1>3, <1>5, <2>1, <2>2, <2>3
<1>13. CASE t = 1 /\ a = 1 /\ q > 0
  <2>1. /\ ticksLeft'[j] = Quantum[new] /\ allotLeft'[j] = Allotment[new]
        /\ used'[j] = 0 /\ currPri'[j] = new
    BY <1>3, <1>6, <1>7, <1>9, <1>10, <1>11, <1>13
  <2>2. 0 = Quantum[new] * (Allotment[new] - Allotment[new]) + (Quantum[new] - Quantum[new])
    BY <1>7
  <2> QED
    BY <1>7, <1>8, <2>1, <2>2
<1>14. CASE t = 1 /\ a # 1 /\ q > 0
  <2>1. /\ new = q /\ ticksLeft'[j] = Quantum[q] /\ allotLeft'[j] = a - 1
        /\ used'[j] = used[j] + 1 /\ currPri'[j] = q
    BY <1>3, <1>4, <1>6, <1>9, <1>10, <1>11, <1>14
  <2>2. a - 1 \in 1 .. Allotment[q]
    BY <1>4, <1>5, <1>7, <1>14
  <2>3. used[j] + 1 = Quantum[q] * (Allotment[q] - (a - 1)) + (Quantum[q] - Quantum[q])
    <3>1. Quantum[q] * ((Allotment[q] - a) + 1) = Quantum[q] * (Allotment[q] - a) + Quantum[q]
      BY <1>4, <1>7, OneSliceMore
    <3>2. Allotment[q] - (a - 1) = (Allotment[q] - a) + 1
      BY <1>4, <1>7
    <3>3. PICK p \in Int : p = Quantum[q] * (Allotment[q] - a)
      BY <1>4, <1>7
    <3>4. used[j] = p + (Quantum[q] - 1)
      BY <1>5, <1>14, <3>3
    <3>5. used[j] + 1 = p + Quantum[q]
      BY <1>4, <1>7, <3>4
    <3>6. used[j] + 1 = Quantum[q] * (Allotment[q] - (a - 1))
      BY <3>1, <3>2, <3>3, <3>5
    <3> QED
      BY <1>4, <1>7, <3>6
  <2> QED
    BY <1>7, <2>1, <2>2, <2>3
<1>15. CASE t = 1 /\ ~(q > 0)
  <2>1. new = q /\ ticksLeft'[j] = Quantum[q] /\ currPri'[j] = q
    BY <1>3, <1>9, <1>10, <1>15
  <2> QED
    BY <1>7, <1>15, <2>1
<1> QED
  BY <1>12, <1>13, <1>14, <1>15

LEMMA AccountedNext == PlaceInv /\ Accounted /\ [Next]_vars => Accounted'
<1> SUFFICES ASSUME PlaceInv, Accounted, [Next]_vars,
                    ~options'.stay, options'.boost = 0, NEW j \in Jobs, timeLeft'[j] > 0
             PROVE  /\ ticksLeft'[j] <= Quantum[currPri'[j]]
                    /\ currPri'[j] > 0 =>
                         /\ allotLeft'[j] \in 1 .. Allotment[currPri'[j]]
                         /\ used'[j] = Quantum[currPri'[j]] * (Allotment[currPri'[j]] - allotLeft'[j])
                                       + (Quantum[currPri'[j]] - ticksLeft'[j])
  BY DEF Accounted
<1>0. options' = options
  BY DEF Next, Sweep, Boost, NoBoost, HandleEvent, Idle, Pick, Finish, StartIO, Tick,
         SpendTick, Ended, vars, inputs
<1>1. ~options.stay /\ options.boost = 0
  BY <1>0
<1>2. CASE UNCHANGED <<currPri, ticksLeft, allotLeft, used, timeLeft>>
  BY <1>1, <1>2 DEF Accounted
<1>3. CASE Boost
  BY <1>1, <1>3 DEF Boost, BoostDue
<1>4. ASSUME NEW i \in Jobs, i # j,
             /\ currPri'[j] = currPri[j] /\ ticksLeft'[j] = ticksLeft[j]
             /\ allotLeft'[j] = allotLeft[j] /\ used'[j] = used[j]
             /\ timeLeft'[j] = timeLeft[j]
      PROVE  /\ ticksLeft'[j] <= Quantum[currPri'[j]]
             /\ currPri'[j] > 0 =>
                  /\ allotLeft'[j] \in 1 .. Allotment[currPri'[j]]
                  /\ used'[j] = Quantum[currPri'[j]] * (Allotment[currPri'[j]] - allotLeft'[j])
                                + (Quantum[currPri'[j]] - ticksLeft'[j])
  BY <1>1, <1>4 DEF Accounted
<1>5. CASE Finish \/ StartIO \/ Tick
  <2>1. pc = "run" /\ Busy # {} /\ pc # "boost"
    BY <1>5 DEF Finish, StartIO, Tick, PlaceInv, Chosen
  <2>2. /\ FindQueue \in Levels /\ CurrJob \in Jobs
        /\ currPri[CurrJob] = FindQueue /\ timeLeft[CurrJob] > 0
    BY <2>1, FrontJob DEF PlaceInv
  <2>3. SpendTick(CurrJob)
    BY <1>5 DEF Finish, StartIO, Tick
  <2>4. /\ timeLeft'[CurrJob] = timeLeft[CurrJob] - 1
        /\ \A i \in Jobs : i # CurrJob => timeLeft'[i] = timeLeft[i]
    BY <2>2, <2>3, SpendEffect DEF PlaceInv
  <2>5. CASE Finish
    <3>1. timeLeft'[CurrJob] = 0
      BY <2>4, <2>5 DEF Finish
    <3>2. j # CurrJob
      BY <3>1
    <3>3. /\ currPri'[j] = currPri[j] /\ ticksLeft'[j] = ticksLeft[j]
          /\ allotLeft'[j] = allotLeft[j] /\ used'[j] = used[j]
      BY <2>2, <2>5, <3>2 DEF Finish, PlaceInv, TypeOK
    <3> QED
      BY <1>4, <2>2, <2>4, <3>2, <3>3
  <2>6. CASE StartIO \/ Tick
    <3>1. ChargeTick(CurrJob, FindQueue)
      BY <2>6 DEF StartIO, Tick
    <3>2. CASE j = CurrJob
      BY <1>1, <2>2, <3>1, <3>2, AccountedCharge
    <3>3. CASE j # CurrJob
      <4>1. /\ currPri'[j] = currPri[j] /\ ticksLeft'[j] = ticksLeft[j]
            /\ allotLeft'[j] = allotLeft[j] /\ used'[j] = used[j]
        BY <2>2, <3>1, <3>3, ChargeEffect
      <4> QED
        BY <1>4, <2>2, <2>4, <3>3, <4>1
    <3> QED
      BY <3>2, <3>3
  <2> QED
    BY <1>5, <2>5, <2>6
<1>6. CASE Sweep \/ NoBoost \/ HandleEvent \/ Idle \/ Pick \/ Ended \/ UNCHANGED vars
  BY <1>2, <1>6 DEF Sweep, NoBoost, HandleEvent, Idle, Pick, Ended, vars, slices
<1> QED
  BY <1>3, <1>5, <1>6 DEF Next

LEMMA AccountBounds == PlaceInv /\ Accounted => NoGaming
<1> SUFFICES ASSUME PlaceInv, Accounted, options.boost = 0, ~options.stay,
                    NEW j \in Jobs, timeLeft[j] > 0, currPri[j] > 0
             PROVE  used[j] < Quantum[currPri[j]] * Allotment[currPri[j]]
  BY DEF NoGaming, AllotmentBounds
<1> DEFINE Q == Quantum[currPri[j]]
           A == Allotment[currPri[j]]
           a == allotLeft[j]
           t == ticksLeft[j]
<1>1. Q \in Nat /\ A \in Nat /\ t \in Nat /\ t > 0
  BY LevelFacts DEF PlaceInv, TypeOK, SlicePositive
<1>2. a \in 1 .. A /\ used[j] = Q * (A - a) + (Q - t)
  BY DEF Accounted
<1> HIDE DEF Q, A, a, t
<1>3. Q * ((A - a) + 1) = Q * (A - a) + Q
  BY <1>1, <1>2, OneSliceMore
<1>4. Q * ((A - a) + 1) <= Q * A
  BY <1>1, <1>2, SlicesBounded
<1>5. PICK p \in Int, r \in Int : p = Q * (A - a) /\ r = Q * A
  BY <1>1, <1>2
<1>6. used[j] < r
  BY <1>1, <1>2, <1>3, <1>4, <1>5
<1> QED
  BY <1>5, <1>6 DEF Q, A

(* Without boosts and -S a job leaves every level but the lowest within its
   allotment, however it spreads its slices between I/Os. *)
THEOREM AllotmentsHold == Spec => []NoGaming
<1>1. Init => PlaceInv /\ Accounted
  BY PlaceInit, AccountedInit
<1>2. PlaceInv /\ Accounted /\ [Next]_vars => (PlaceInv /\ Accounted)'
  BY PlaceNext, AccountedNext
<1> QED
  BY <1>1, <1>2, AccountBounds, PTL DEF Spec

-----------------------------------------------------------------------------
(* The schedule.                                                           *)

(* Wake, of any list of events. *)
WakeIn(s) == [j \in Jobs |->
                IF Cardinality({k \in DOMAIN s : s[k].job = j}) = 0 THEN -1
                ELSE s[CHOOSE k \in DOMAIN s : s[k].job = j].time]

LEMMA WakeOf ==
    ASSUME NEW s \in Seq(Events), OncePerJob(s)
    PROVE  /\ DOMAIN WakeIn(s) = Jobs
           /\ \A j \in Jobs : ~Awaited(s, j) => WakeIn(s)[j] = -1
           /\ \A j \in Jobs, k \in DOMAIN s : s[k].job = j => WakeIn(s)[j] = s[k].time
<1>1. ASSUME NEW j \in Jobs, ~Awaited(s, j) PROVE WakeIn(s)[j] = -1
  <2>1. {k \in DOMAIN s : s[k].job = j} = {}
    BY <1>1 DEF Awaited
  <2>2. Cardinality({k \in DOMAIN s : s[k].job = j}) = 0
    BY <2>1, FS_EmptySet
  <2> QED
    BY <2>2 DEF WakeIn
<1>2. ASSUME NEW j \in Jobs, NEW k \in DOMAIN s, s[k].job = j
      PROVE  WakeIn(s)[j] = s[k].time
  <2>1. {l \in DOMAIN s : s[l].job = j} = {k}
    BY <1>2 DEF OncePerJob
  <2>2. Cardinality({l \in DOMAIN s : s[l].job = j}) = 1
    BY <2>1, FS_Singleton
  <2>3. (CHOOSE l \in DOMAIN s : s[l].job = j) = k
    BY <1>2 DEF OncePerJob
  <2> DEFINE n == Cardinality({l \in DOMAIN s : s[l].job = j})
             c == CHOOSE l \in DOMAIN s : s[l].job = j
  <2>4. WakeIn(s)[j] = IF n = 0 THEN -1 ELSE s[c].time
    BY DEF WakeIn
  <2> HIDE DEF n, c
  <2>5. n = 1 /\ c = k
    BY <2>2, <2>3 DEF n, c
  <2> QED
    BY <2>4, <2>5
<1> QED
  BY <1>1, <1>2 DEF WakeIn

LEMMA ExceptIs ==
    ASSUME NEW f, NEW g, f = [x \in Jobs |-> f[x]], g = [x \in Jobs |-> g[x]],
           NEW a \in Jobs, \A x \in Jobs : x # a => g[x] = f[x]
    PROVE  g = [f EXCEPT ![a] = g[a]]
  OBVIOUS

LEMMA WakeIsFunction ==
    Wake = [j \in Jobs |-> Wake[j]] /\ Wake' = [j \in Jobs |-> Wake'[j]]
  BY DEF Wake

LEMMA ScheduleInit == Init => Schedule!Init
<1> SUFFICES ASSUME Init PROVE Schedule!Init
  OBVIOUS
<1>1. PlaceInv
  BY PlaceInit
<1>2. ioDone \in Seq(Events) /\ OncePerJob(ioDone)
  BY <1>1 DEF PlaceInv, TypeOK, Placement, Events
<1>3. ASSUME NEW j \in Jobs PROVE Wake[j] = work[j].start
  <2>1. j + 1 \in 1 .. NumJobs /\ (j + 1) - 1 = j
    BY MLFQAssumption DEF Jobs
  <2>2. j + 1 \in DOMAIN ioDone /\ ioDone[j + 1] = Event(work[j].start, j, "begins")
    BY <2>1 DEF Init
  <2>3. ioDone[j + 1].job = j /\ ioDone[j + 1].time = work[j].start
    BY <2>2 DEF Event
  <2>4. WakeIn(ioDone)[j] = work[j].start
    BY <1>2, <2>2, <2>3, WakeOf
  <2> QED
    BY <2>4 DEF Wake, WakeIn, Waits
<1>4. Wake = [j \in Jobs |-> work[j].start]
  BY <1>3 DEF Wake
<1> QED
  BY <1>4 DEF Schedule!Init, Init

(* An event makes its job ready when its time has come, *)
LEMMA EventAwakes == PlaceInv /\ HandleEvent => Schedule!Next
<1> SUFFICES ASSUME PlaceInv, HandleEvent PROVE Schedule!Next
  OBVIOUS
<1> DEFINE i == Min(Due)
           h == ioDone[i].job
<1>1. ioDone \in Seq(Events) /\ OncePerJob(ioDone)
  BY DEF PlaceInv, TypeOK, Placement, Events
<1>2. i \in DOMAIN ioDone /\ ioDone[i].time = currTime
  <2>1. Due \in SUBSET Nat /\ Due # {}
    BY <1>1, LenProperties DEF Due, HandleEvent
  <2>2. i \in Due
    BY <2>1, MinIsLeast
  <2> QED
    BY <2>2 DEF Due
<1>3. h \in Jobs
  <2>1. ioDone[i] \in Events
    BY <1>1, <1>2, ElementOfSeq, LenProperties
  <2> QED
    BY <2>1 DEF Events
<1>4. ioDone' = RemoveAt(ioDone, i)
  BY DEF HandleEvent
<1> HIDE DEF i
<1>5. /\ ioDone' \in Seq(Events) /\ OncePerJob(ioDone')
      /\ \A j \in Jobs : Awaited(ioDone', j) <=> (Awaited(ioDone, j) /\ j # h)
      /\ \A k \in DOMAIN ioDone : k # i => \E l \in DOMAIN ioDone' : ioDone'[l] = ioDone[k]
  BY <1>1, <1>2, <1>4, RemoveEffect
<1> HIDE DEF h
<1>6. Wake = WakeIn(ioDone) /\ Wake' = WakeIn(ioDone')
  BY DEF Wake, WakeIn, Waits
<1>7. Wake[h] = currTime
  BY <1>1, <1>2, <1>3, <1>6, WakeOf DEF h
<1>8. Wake'[h] = -1
  BY <1>3, <1>5, <1>6, WakeOf
<1>9. ASSUME NEW j \in Jobs, j # h PROVE Wake'[j] = Wake[j]
  <2>1. CASE Awaited(ioDone, j)
    <3>1. PICK k \in DOMAIN ioDone : ioDone[k].job = j
      BY <2>1 DEF Awaited
    <3>2. k # i
      BY <1>9, <3>1 DEF h
    <3>3. PICK l \in DOMAIN ioDone' : ioDone'[l] = ioDone[k]
      BY <1>5, <3>2
    <3>4. Wake[j] = ioDone[k].time
      BY <1>1, <1>6, <3>1, WakeOf
    <3>5. Wake'[j] = ioDone'[l].time
      BY <1>5, <1>6, <3>1, <3>3, WakeOf
    <3> QED
      BY <3>3, <3>4, <3>5
  <2>2. CASE ~Awaited(ioDone, j)
    <3>1. Wake[j] = -1
      BY <1>1, <1>6, <2>2, WakeOf
    <3>2. Wake'[j] = -1
      BY <1>5, <1>6, <2>2, WakeOf
    <3> QED
      BY <3>1, <3>2
  <2> QED
    BY <2>1, <2>2
<1>10. Wake' = [Wake EXCEPT ![h] = -1]
  <2>1. Wake' = [Wake EXCEPT ![h] = Wake'[h]]
    BY <1>3, <1>9, WakeIsFunction, ExceptIs
  <2> QED
    BY <1>8, <2>1
<1>11. UNCHANGED <<work, options, currTime, timeLeft>>
  BY DEF HandleEvent, inputs
<1>12. Schedule!Awake(h)
  BY <1>7, <1>10, <1>11 DEF Schedule!Awake
<1> QED
  BY <1>3, <1>12 DEF Schedule!Next

(* the processor idles only when no job is ready, *)
LEMMA IdleIdles == PlaceInv /\ Idle => Schedule!Next
<1> SUFFICES ASSUME PlaceInv, Idle PROVE Schedule!Next
  OBVIOUS
<1>1. ioDone \in Seq(Events) /\ OncePerJob(ioDone)
  BY DEF PlaceInv, TypeOK, Placement, Events
<1>2. Wake = WakeIn(ioDone) /\ Wake' = WakeIn(ioDone')
  BY DEF Wake, WakeIn, Waits
<1>3. UNCHANGED <<work, options, timeLeft, ioDone>> /\ currTime' = currTime + 1
  BY DEF Idle, inputs
<1>4. ASSUME NEW j \in Jobs, timeLeft[j] > 0, Wake[j] \in {-1, currTime} PROVE FALSE
  <2>1. CASE Awaited(ioDone, j)
    <3>1. PICK k \in DOMAIN ioDone : ioDone[k].job = j
      BY <2>1 DEF Awaited
    <3>2. Wake[j] = ioDone[k].time
      BY <1>1, <1>2, <3>1, WakeOf
    <3>3. ioDone[k] \in Events
      BY <1>1, ElementOfSeq, LenProperties
    <3>4. ioDone[k].time \in Nat
      BY <3>3 DEF Events
    <3>5. ioDone[k].time = currTime
      BY <1>4, <3>2, <3>4
    <3> QED
      BY <3>5 DEF Idle, Due
  <2>2. CASE ~Awaited(ioDone, j)
    <3>1. PICK q \in Levels : InAt(queue, q, j)
      BY <1>4, <2>2 DEF PlaceInv, Placement
    <3>2. queue[q] # <<>>
      BY <3>1 DEF InAt
    <3> QED
      BY <3>2 DEF Idle, Busy
  <2> QED
    BY <2>1, <2>2
<1>5. Schedule!Ready = {}
  BY <1>4 DEF Schedule!Ready
<1>6. Schedule!Idle
  BY <1>2, <1>3, <1>5 DEF Schedule!Idle
<1> QED
  BY <1>6 DEF Schedule!Next

(* and otherwise a job that is ready runs for the tick. *)
LEMMA TickRuns == PlaceInv /\ (Finish \/ StartIO \/ Tick) => Schedule!Next
<1> SUFFICES ASSUME PlaceInv, Finish \/ StartIO \/ Tick PROVE Schedule!Next
  OBVIOUS
<1>1. pc = "run" /\ Busy # {} /\ pc # "boost"
  BY DEF Finish, StartIO, Tick, PlaceInv, Chosen
<1>2. PICK j \in Jobs :
        j = CurrJob /\ timeLeft[j] > 0 /\ ~Awaited(ioDone, j)
  BY <1>1, FrontJob DEF PlaceInv
<1>3. SpendTick(j)
  BY <1>2 DEF Finish, StartIO, Tick
<1>4. /\ timeLeft' = [timeLeft EXCEPT ![j] = @ - 1] /\ currTime' = currTime + 1
      /\ UNCHANGED <<work, options>>
  BY <1>3 DEF SpendTick, inputs
<1>5. timeLeft[j] \in Nat /\ timeLeft'[j] = timeLeft[j] - 1
  BY <1>2, <1>4 DEF PlaceInv, TypeOK
<1>6. ioDone \in Seq(Events) /\ OncePerJob(ioDone)
  BY DEF PlaceInv, TypeOK, Placement, Events
<1>7. Wake = WakeIn(ioDone) /\ Wake' = WakeIn(ioDone')
  BY DEF Wake, WakeIn, Waits
<1>8. Wake[j] = -1 /\ DOMAIN Wake = Jobs /\ DOMAIN Wake' = Jobs
  BY <1>2, <1>6, <1>7, WakeOf DEF WakeIn
<1> DEFINE io == Schedule!IssuesIO(j, timeLeft'[j])
<1>9. Wake' = [Wake EXCEPT ![j] = IF io THEN currTime' + options.ioTime ELSE -1]
  <2>1. CASE Finish
    <3>1. timeLeft'[j] = 0 /\ ioDone' = ioDone
      BY <1>2, <1>5, <2>1 DEF Finish
    <3>2. ~io
      BY <3>1 DEF Schedule!IssuesIO
    <3>3. Wake' = Wake
      BY <1>7, <3>1
    <3>4. Wake' = [Wake EXCEPT ![j] = Wake'[j]]
      BY <3>3, WakeIsFunction, ExceptIs
    <3>5. Wake'[j] = IF io THEN currTime' + options.ioTime ELSE -1
      BY <1>8, <3>2, <3>3
    <3> QED
      BY <3>4, <3>5
  <2>2. CASE Tick
    <3>1. ioDone' = ioDone /\ ~IssuesIO(j)
      BY <1>2, <2>2 DEF Tick
    <3>2. ~io
      BY <1>5, <3>1 DEF Schedule!IssuesIO, IssuesIO
    <3>3. Wake' = Wake
      BY <1>7, <3>1
    <3>4. Wake' = [Wake EXCEPT ![j] = Wake'[j]]
      BY <3>3, WakeIsFunction, ExceptIs
    <3>5. Wake'[j] = IF io THEN currTime' + options.ioTime ELSE -1
      BY <1>8, <3>2, <3>3
    <3> QED
      BY <3>4, <3>5
  <2>3. CASE StartIO
    <3> DEFINE e == Event(currTime' + options.ioTime, j, "io")
    <3>1. ioDone' = Append(ioDone, e) /\ IssuesIO(j) /\ timeLeft[j] # 1
      BY <1>2, <2>3 DEF StartIO
    <3>2. io
      <4>1. timeLeft[j] - 1 > 0
        BY <1>2, <1>5, <3>1
      <4> QED
        BY <1>5, <3>1, <4>1 DEF Schedule!IssuesIO, IssuesIO
    <3>3. e \in Events /\ e.job = j /\ e.time = currTime' + options.ioTime
      <4>1. currTime \in Nat /\ options.ioTime \in Nat
        BY MLFQAssumption DEF PlaceInv, TypeOK
      <4>2. currTime' + options.ioTime \in Nat
        BY <1>4, <4>1
      <4> QED
        BY <4>2 DEF Event, Events
    <3> HIDE DEF e
    <3>4. /\ ioDone' \in Seq(Events) /\ OncePerJob(ioDone')
          /\ \A i \in Jobs : Awaited(ioDone', i) <=> (Awaited(ioDone, i) \/ i = j)
          /\ \A k \in DOMAIN ioDone : k \in DOMAIN ioDone' /\ ioDone'[k] = ioDone[k]
          /\ \E k \in DOMAIN ioDone' : ioDone'[k] = e
      BY <1>2, <1>6, <3>1, <3>3, AddEffect
    <3>5. Wake'[j] = currTime' + options.ioTime
      <4>1. PICK k \in DOMAIN ioDone' : ioDone'[k] = e
        BY <3>4
      <4> QED
        BY <1>7, <3>3, <3>4, <4>1, WakeOf
    <3>6. ASSUME NEW i \in Jobs, i # j PROVE Wake'[i] = Wake[i]
      <4>1. CASE Awaited(ioDone, i)
        <5>1. PICK k \in DOMAIN ioDone : ioDone[k].job = i
          BY <4>1 DEF Awaited
        <5>2. Wake[i] = ioDone[k].time
          BY <1>6, <1>7, <5>1, WakeOf
        <5>3. Wake'[i] = ioDone'[k].time
          BY <1>7, <3>4, <5>1, WakeOf
        <5> QED
          BY <3>4, <5>2, <5>3
      <4>2. CASE ~Awaited(ioDone, i)
        <5>1. Wake[i] = -1
          BY <1>6, <1>7, <4>2, WakeOf
        <5>2. Wake'[i] = -1
          BY <1>7, <3>4, <3>6, <4>2, WakeOf
        <5> QED
          BY <5>1, <5>2
      <4> QED
        BY <4>1, <4>2
    <3>7. Wake' = [Wake EXCEPT ![j] = Wake'[j]]
      BY <3>6, WakeIsFunction, ExceptIs
    <3> QED
      BY <3>2, <3>5, <3>7
  <2> QED
    BY <2>1, <2>2, <2>3
<1>10. Schedule!Run(j)
  BY <1>2, <1>4, <1>8, <1>9 DEF Schedule!Run
<1> QED
  BY <1>10 DEF Schedule!Next

LEMMA ScheduleNext == PlaceInv /\ [Next]_vars => [Schedule!Next]_(Schedule!vars)
<1> SUFFICES ASSUME PlaceInv, [Next]_vars PROVE [Schedule!Next]_(Schedule!vars)
  OBVIOUS
<1>1. CASE HandleEvent
  BY <1>1, EventAwakes
<1>2. CASE Idle
  BY <1>2, IdleIdles
<1>3. CASE Finish \/ StartIO \/ Tick
  BY <1>3, TickRuns
<1>4. CASE Sweep \/ Boost \/ NoBoost \/ Pick \/ Ended \/ UNCHANGED vars
  <2>1. UNCHANGED <<work, options, currTime, timeLeft, ioDone>>
    BY <1>4 DEF Sweep, Boost, NoBoost, Pick, Ended, vars, inputs
  <2> QED
    BY <2>1 DEF Schedule!vars, Wake, Waits
<1> QED
  BY <1>1, <1>2, <1>3, <1>4 DEF Next

(* Queues, slices, events and boosts implement a work-conserving schedule, in
   which each job runs for its run time and waits for exactly its I/Os. *)
THEOREM WorkConserved == Spec => ImplementsSchedule
  BY PlaceInit, PlaceNext, ScheduleInit, ScheduleNext, PTL
     DEF Spec, ImplementsSchedule, Schedule!Spec

=============================================================================
