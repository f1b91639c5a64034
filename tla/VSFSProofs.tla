----------------------------- MODULE VSFSProofs -----------------------------
(***************************************************************************)
(* Proofs about the very simple file system, for every number of inodes,   *)
(* blocks and requests, every set of names and every size of a directory:  *)
(* after each operation the image is consistent and every name resolves.   *)
(***************************************************************************)
EXTENDS VSFS, SequenceTheorems, FiniteSetTheorems, WellFoundedInduction, TLAPS

Paths == Seq(Names)
FileTypes == {"free", "f", "d"}
Entries(I) == (Names \cup {".", ".."}) \X I

Image(I, B) ==
    [ibitmap    : SUBSET I,
     inodes     : [I -> [ftype : FileTypes, addr : B \cup {None}, refCnt : Nat]],
     dbitmap    : SUBSET B,
     data       : [B -> [ftype : FileTypes, dirList : SUBSET Entries(I)]],
     files      : Seq(Paths),
     dirs       : SUBSET Paths,
     nameToInum : UNION {[D -> I] : D \in SUBSET Paths},
     requests   : Nat,
     phase      : {"run", "exit", "done"}]

Typed(f) ==
    /\ f \in Image(Inums(f), Blocks(f))
    /\ Inums(f) \subseteq Nat /\ Blocks(f) \subseteq Nat

(* The bitmaps, the inodes and the blocks agree, and no two inodes share a
   block. *)
Allocated(f) ==
    /\ f.ibitmap = Live(f)
    /\ f.dbitmap = {b \in Blocks(f) : f.data[b].ftype # "free"}
    /\ \A i \in Live(f) :
         /\ f.inodes[i].ftype = "d" => f.inodes[i].addr # None
         /\ f.inodes[i].addr # None => f.data[f.inodes[i].addr].ftype = f.inodes[i].ftype
    /\ \A i, j \in Live(f) :
         f.inodes[i].addr = f.inodes[j].addr /\ f.inodes[i].addr # None => i = j
    /\ \A b \in f.dbitmap : \E i \in Live(f) : f.inodes[i].addr = b

(* Only directories have entries, of inodes in use and of different names. *)
EntriesSound(f) ==
    \A b \in Blocks(f) : \A d \in f.data[b].dirList :
        /\ f.data[b].ftype = "d"
        /\ d[2] \in Live(f)
        /\ \A e \in f.data[b].dirList : d[1] = e[1] => d = e

(* The entries of the inode i in the directory lists L. *)
Refs(L, i) == UNION {{b} \X {e \in L[b] : e[2] = i} : b \in DOMAIN L}
Lists(f) == [b \in Blocks(f) |-> f.data[b].dirList]

Counted(f) ==
    \A i \in Inums(f) :
        /\ IsFiniteSet(Refs(Lists(f), i))
        /\ i \in Live(f) => f.inodes[i].refCnt = Cardinality(Refs(Lists(f), i))

(* What the generator remembers: each name is an entry of its directory, and
   the directories above it are all remembered. *)
Known(f) == f.dirs \cup ToSet(f.files)
Remembered(f) ==
    /\ Root \in f.dirs /\ f.nameToInum[Root] = ROOT
    /\ Known(f) \subseteq DOMAIN f.nameToInum
    /\ \A p \in f.dirs : f.inodes[f.nameToInum[p]].ftype = "d"
    /\ \A p \in ToSet(f.files) : f.inodes[f.nameToInum[p]].ftype = "f"
    /\ \A p, q \in f.dirs : f.nameToInum[p] = f.nameToInum[q] => p = q
    /\ \A k, l \in DOMAIN f.files : f.files[k] = f.files[l] => k = l
    /\ \A p \in Known(f) : \A k \in 0 .. Len(p) - 1 : SubSeq(p, 1, k) \in f.dirs
    /\ \A p \in Known(f) \ {Root} :
         <<Last(p), f.nameToInum[p]>> \in f.data[BlockOf(f, Front(p))].dirList

Sound(f) == Typed(f) /\ Allocated(f) /\ EntriesSound(f) /\ Counted(f) /\ Remembered(f)

VSFSInv ==
    /\ Sound(fs)
    /\ fs.requests \in 0 .. NumRequests
    /\ fs.phase = "run" => fs.requests < NumRequests

-----------------------------------------------------------------------------
(* Paths, and the sequence of files. *)
LEMMA Child ==
    ASSUME NEW q \in Paths, NEW n \in Names
    PROVE  /\ Append(q, n) \in Paths /\ Append(q, n) # Root
           /\ Front(Append(q, n)) = q /\ Last(Append(q, n)) = n
           /\ Len(Append(q, n)) = Len(q) + 1 /\ Len(q) \in Nat
           /\ \A k \in 0 .. Len(q) : SubSeq(Append(q, n), 1, k) = SubSeq(q, 1, k)
           /\ SubSeq(q, 1, Len(q)) = q
<1>1. /\ Append(q, n) \in Paths /\ Append(q, n) # Root
      /\ Len(Append(q, n)) = Len(q) + 1 /\ Len(q) \in Nat
      /\ \A k \in 1 .. Len(q) : Append(q, n)[k] = q[k] /\ q[k] \in Names
      /\ Append(q, n)[Len(q) + 1] = n
  BY AppendProperties, LenProperties, ElementOfSeq DEF Paths, Root
<1>2. ASSUME NEW k \in 0 .. Len(q) PROVE SubSeq(Append(q, n), 1, k) = SubSeq(q, 1, k)
  <2>1. /\ SubSeq(q, 1, k) \in Seq(Names) /\ Len(SubSeq(q, 1, k)) = k
        /\ \A j \in 1 .. k : SubSeq(q, 1, k)[j] = q[j]
    BY <1>1, SubSeqProperties
  <2>2. /\ SubSeq(Append(q, n), 1, k) \in Seq(Names) /\ Len(SubSeq(Append(q, n), 1, k)) = k
        /\ \A j \in 1 .. k : SubSeq(Append(q, n), 1, k)[j] = Append(q, n)[j]
    BY <1>1, SubSeqProperties
  <2>3. \A j \in 1 .. k : SubSeq(Append(q, n), 1, k)[j] = SubSeq(q, 1, k)[j]
    BY <1>1, <2>1, <2>2
  <2> QED
    BY <2>1, <2>2, <2>3, SeqEqual
<1>3. SubSeq(q, 1, Len(q)) = q
  BY SubSeqFull DEF Paths
<1>4. Front(Append(q, n)) = q
  BY <1>1, <1>2, <1>3 DEF Front
<1> QED
  BY <1>1, <1>2, <1>3, <1>4 DEF Last

LEMMA ParentOf ==
    ASSUME NEW p \in Paths, p # Root
    PROVE  /\ Len(p) \in Nat \ {0} /\ Front(p) \in Paths /\ Last(p) \in Names
           /\ p = Append(Front(p), Last(p)) /\ Front(p) = SubSeq(p, 1, Len(p) - 1)
<1>1. PICK q \in Paths, n \in Names : p = Append(q, n)
  BY SequenceEmptyOrAppend DEF Paths, Root
<1>2. Front(p) = q /\ Last(p) = n /\ Len(p) = Len(q) + 1 /\ Len(q) \in Nat
  BY <1>1, Child
<1>3. Front(p) = SubSeq(p, 1, Len(p) - 1)
  BY DEF Front
<1>4. Len(p) \in Nat \ {0}
  BY <1>2
<1> QED
  BY <1>1, <1>2, <1>3, <1>4

LEMMA SameChild ==
    ASSUME NEW p \in Paths, NEW q \in Paths, p # Root, q # Root,
           Front(p) = Front(q), Last(p) = Last(q)
    PROVE  p = q
BY ParentOf

LEMMA SetOfFiles ==
    ASSUME NEW s \in Seq(Paths)
    PROVE  /\ ToSet(s) \subseteq Paths /\ DOMAIN s = 1 .. Len(s) /\ Len(s) \in Nat
           /\ \A p : p \in ToSet(s) <=> \E k \in 1 .. Len(s) : s[k] = p
BY LenProperties, ElementOfSeq DEF ToSet

LEMMA FileAppended ==
    ASSUME NEW s \in Seq(Paths), NEW p \in Paths, p \notin ToSet(s),
           \A k, l \in DOMAIN s : s[k] = s[l] => k = l
    PROVE  /\ Append(s, p) \in Seq(Paths)
           /\ ToSet(Append(s, p)) = ToSet(s) \cup {p}
           /\ \A k, l \in DOMAIN Append(s, p) : Append(s, p)[k] = Append(s, p)[l] => k = l
<1> DEFINE t == Append(s, p)
<1>1. /\ t \in Seq(Paths) /\ Len(t) = Len(s) + 1 /\ Len(s) \in Nat
      /\ \A k \in 1 .. Len(s) : t[k] = s[k]
      /\ t[Len(s) + 1] = p
  BY AppendProperties, LenProperties
<1>2. DOMAIN t = 1 .. Len(s) + 1 /\ DOMAIN s = 1 .. Len(s)
  BY <1>1, SetOfFiles
<1> HIDE DEF t
<1>3. \A x : x \in ToSet(t) <=> x \in ToSet(s) \/ x = p
  <2>1. \A x : x \in ToSet(t) <=> \E k \in 1 .. Len(s) + 1 : t[k] = x
    BY <1>1, SetOfFiles
  <2>2. \A x : x \in ToSet(s) <=> \E k \in 1 .. Len(s) : s[k] = x
    BY SetOfFiles
  <2> QED
    BY <1>1, <2>1, <2>2
<1>4. ASSUME NEW k \in DOMAIN t, NEW l \in DOMAIN t, t[k] = t[l] PROVE k = l
  <2>1. \A j \in 1 .. Len(s) : t[j] # p
    BY <1>1, SetOfFiles
  <2> QED
    BY <1>1, <1>2, <1>4, <2>1
<1> QED
  BY <1>1, <1>3, <1>4 DEF t

LEMMA MinIn ==
    ASSUME NEW S \in SUBSET Nat, S # {}
    PROVE  Min(S) \in S
<1>1. PICK x \in S : \A y \in S : ~(<<y, x>> \in OpToRel(<, Nat))
  BY NatLessThanWellFounded, WFMin
<1>2. ASSUME NEW y \in S PROVE x <= y
  <2>1. x \in Nat /\ y \in Nat
    OBVIOUS
  <2>2. ~(y < x)
    BY <1>1, <2>1, Zenon DEF OpToRel
  <2> QED
    BY <2>1, <2>2
<1> QED
  BY <1>2 DEF Min

LEMMA FileRemoved ==
    ASSUME NEW s \in Seq(Paths), NEW p \in ToSet(s),
           \A k, l \in DOMAIN s : s[k] = s[l] => k = l
    PROVE  /\ RemoveFirst(s, p) \in Seq(Paths)
           /\ ToSet(RemoveFirst(s, p)) = ToSet(s) \ {p}
           /\ \A k, l \in DOMAIN RemoveFirst(s, p) :
                RemoveFirst(s, p)[k] = RemoveFirst(s, p)[l] => k = l
<1> DEFINE S == {i \in 1 .. Len(s) : s[i] = p}
           m == Min(S)
           n == Len(s)
           t == RemoveFirst(s, p)
<1>1. /\ n \in Nat /\ DOMAIN s = 1 .. n /\ ToSet(s) \subseteq Paths
      /\ \A x : x \in ToSet(s) <=> \E k \in 1 .. n : s[k] = x
  BY SetOfFiles
<1>2. m \in 1 .. n /\ s[m] = p
  <2>1. S # {} /\ S \in SUBSET Nat
    BY <1>1
  <2>2. m \in S
    BY <2>1, MinIn
  <2> QED
    BY <2>2
<1>3. t = RemoveAt(s, m)
  <2>1. \E i \in 1 .. Len(s) : s[i] = p
    BY <1>1
  <2>2. S # {}
    BY <2>1
  <2>3. SelectInSeq(s, LAMBDA v : v = p) = m
    BY <2>2 DEF SelectInSeq
  <2> QED
    BY <2>1, <2>3 DEF RemoveFirst
<1> HIDE DEF m, n, t, S
<1>4. /\ SubSeq(s, 1, m - 1) \in Seq(Paths) /\ Len(SubSeq(s, 1, m - 1)) = m - 1
      /\ \A j \in 1 .. m - 1 : SubSeq(s, 1, m - 1)[j] = s[j]
  <2>1. \A j \in 1 .. m - 1 : s[j] \in Paths
    BY <1>1, <1>2
  <2> QED
    BY <1>1, <1>2, <2>1, SubSeqProperties
<1>5. /\ SubSeq(s, m + 1, n) \in Seq(Paths) /\ Len(SubSeq(s, m + 1, n)) = n - m
      /\ \A j \in 1 .. n - m : SubSeq(s, m + 1, n)[j] = s[m + j]
  <2>1. \A j \in m + 1 .. n : s[j] \in Paths
    BY <1>1, <1>2
  <2> QED
    BY <1>1, <1>2, <2>1, SubSeqProperties
<1>6. t = SubSeq(s, 1, m - 1) \o SubSeq(s, m + 1, n)
  BY <1>3 DEF RemoveAt, n
<1>7. /\ t \in Seq(Paths) /\ Len(t) = n - 1
      /\ \A j \in 1 .. n - 1 : t[j] = IF j < m THEN s[j] ELSE s[j + 1]
  <2>1. /\ t \in Seq(Paths) /\ Len(t) = (m - 1) + (n - m)
        /\ \A j \in 1 .. (m - 1) + (n - m) :
             t[j] = IF j <= m - 1 THEN SubSeq(s, 1, m - 1)[j]
                    ELSE SubSeq(s, m + 1, n)[j - (m - 1)]
    <3> DEFINE a == SubSeq(s, 1, m - 1)
               b == SubSeq(s, m + 1, n)
    <3>1. a \in Seq(Paths) /\ b \in Seq(Paths) /\ Len(a) = m - 1 /\ Len(b) = n - m /\ t = a \o b
      BY <1>4, <1>5, <1>6
    <3> HIDE DEF a, b
    <3>2. /\ a \o b \in Seq(Paths) /\ Len(a \o b) = Len(a) + Len(b)
          /\ \A j \in 1 .. Len(a) + Len(b) :
               (a \o b)[j] = IF j <= Len(a) THEN a[j] ELSE b[j - Len(a)]
      BY <3>1, ConcatProperties
    <3> QED
      BY <3>1, <3>2 DEF a, b
  <2>2. (m - 1) + (n - m) = n - 1
    BY <1>1, <1>2
  <2>3. ASSUME NEW j \in 1 .. n - 1 PROVE t[j] = IF j < m THEN s[j] ELSE s[j + 1]
    <3>1. CASE j < m
      BY <1>1, <1>2, <1>4, <2>1, <2>2, <3>1
    <3>2. CASE ~(j < m)
      <4>1. j - (m - 1) \in 1 .. n - m /\ m + (j - (m - 1)) = j + 1
        BY <1>1, <1>2, <3>2
      <4> QED
        BY <1>1, <1>2, <1>5, <2>1, <2>2, <3>2, <4>1
    <3> QED
      BY <3>1, <3>2
  <2> QED
    BY <2>1, <2>2, <2>3
<1>8. DOMAIN t = 1 .. n - 1 /\ \A x : x \in ToSet(t) <=> \E k \in 1 .. n - 1 : t[k] = x
  BY <1>7, SetOfFiles
<1>9. ASSUME NEW x PROVE x \in ToSet(t) <=> x \in ToSet(s) /\ x # p
  <2>1. ASSUME NEW k \in 1 .. n - 1, t[k] = x PROVE x \in ToSet(s) /\ x # p
    <3>1. PICK j \in 1 .. n : j # m /\ s[j] = x
      BY <1>1, <1>2, <1>7, <2>1
    <3> QED
      BY <1>1, <1>2, <3>1
  <2>2. ASSUME NEW j \in 1 .. n, s[j] = x, x # p PROVE \E k \in 1 .. n - 1 : t[k] = x
    <3>1. CASE j < m
      BY <1>1, <1>2, <1>7, <2>2, <3>1
    <3>2. CASE j > m
      <4>1. j - 1 \in 1 .. n - 1 /\ ~(j - 1 < m) /\ (j - 1) + 1 = j
        BY <1>1, <1>2, <3>2
      <4> QED
        BY <1>7, <2>2, <4>1
    <3> QED
      BY <1>1, <1>2, <2>2, <3>1, <3>2
  <2> QED
    BY <1>1, <1>8, <2>1, <2>2
<1>10. ASSUME NEW k \in 1 .. n - 1, NEW l \in 1 .. n - 1, t[k] = t[l] PROVE k = l
  <2> DEFINE at(j) == IF j < m THEN j ELSE j + 1
  <2>1. at(k) \in 1 .. n /\ at(l) \in 1 .. n
    BY <1>1, <1>2
  <2>2. t[k] = s[at(k)] /\ t[l] = s[at(l)]
    BY <1>7
  <2>3. at(k) = at(l)
    BY <1>1, <1>10, <2>1, <2>2
  <2> QED
    BY <1>1, <1>2, <2>3
<1> QED
  BY <1>7, <1>8, <1>9, <1>10 DEF t
-----------------------------------------------------------------------------
(* Counting references: what one more or one less entry does. *)
LEMMA RefsIn ==
    ASSUME NEW B, NEW L, DOMAIN L = B, NEW i, NEW x
    PROVE  x \in Refs(L, i) <=> \E b \in B : \E e \in L[b] : x = <<b, e>> /\ e[2] = i
BY DEF Refs

One(x, y) == IF x = y THEN 1 ELSE 0

(* M is L with one more entry in block b. *)
More(B, L, M, b, e) ==
    /\ L \in [B -> SUBSET Entries(Nat)] /\ M \in [B -> SUBSET Entries(Nat)]
    /\ b \in B /\ e \notin L[b]
    /\ \A c \in B : M[c] = IF c = b THEN L[c] \cup {e} ELSE L[c]

LEMMA EntryAdded ==
    ASSUME NEW B, NEW L, NEW M, NEW b, NEW e, More(B, L, M, b, e),
           NEW i, IsFiniteSet(Refs(L, i))
    PROVE  /\ IsFiniteSet(Refs(M, i))
           /\ Cardinality(Refs(M, i)) = Cardinality(Refs(L, i)) + One(e[2], i)
<1>1. /\ b \in B /\ e \notin L[b]
      /\ \A c \in B : M[c] = IF c = b THEN L[c] \cup {e} ELSE L[c]
  BY DEF More
<1>2. DOMAIN M = B /\ DOMAIN L = B
  BY DEF More
<1>3. <<b, e>> \notin Refs(L, i)
  BY <1>1, <1>2, RefsIn
<1>4. Cardinality(Refs(L, i)) \in Nat
  BY FS_CardinalityType
<1>5. CASE e[2] = i
  <2>1. ASSUME NEW x PROVE x \in Refs(M, i) <=> x \in Refs(L, i) \cup {<<b, e>>}
    <3>1. x \in Refs(M, i) <=> \E c \in B : \E d \in M[c] : x = <<c, d>> /\ d[2] = i
      BY <1>2, RefsIn
    <3>2. x \in Refs(L, i) <=> \E c \in B : \E d \in L[c] : x = <<c, d>> /\ d[2] = i
      BY <1>2, RefsIn
    <3>3. ASSUME NEW c \in B, NEW d \in M[c], x = <<c, d>>, d[2] = i
          PROVE  x \in Refs(L, i) \cup {<<b, e>>}
      <4>1. d \in L[c] \/ (c = b /\ d = e)
        BY <1>1
      <4> QED
        BY <3>2, <3>3, <4>1
    <3>4. ASSUME NEW c \in B, NEW d \in L[c], x = <<c, d>>, d[2] = i PROVE x \in Refs(M, i)
      BY <1>1, <3>1, <3>4
    <3>5. x = <<b, e>> => x \in Refs(M, i)
      BY <1>1, <1>5, <3>1
    <3> QED
      BY <3>1, <3>2, <3>3, <3>4, <3>5
  <2>2. Refs(M, i) = Refs(L, i) \cup {<<b, e>>}
    BY <2>1
  <2>3. /\ IsFiniteSet(Refs(L, i) \cup {<<b, e>>})
        /\ Cardinality(Refs(L, i) \cup {<<b, e>>}) = Cardinality(Refs(L, i)) + 1
    BY <1>3, FS_AddElement
  <2>4. One(e[2], i) = 1
    BY <1>5 DEF One
  <2> QED
    BY <2>2, <2>3, <2>4, Zenon
<1>6. CASE e[2] # i
  <2>1. ASSUME NEW x PROVE x \in Refs(M, i) <=> x \in Refs(L, i)
    <3>1. x \in Refs(M, i) <=> \E c \in B : \E d \in M[c] : x = <<c, d>> /\ d[2] = i
      BY <1>2, RefsIn
    <3>2. x \in Refs(L, i) <=> \E c \in B : \E d \in L[c] : x = <<c, d>> /\ d[2] = i
      BY <1>2, RefsIn
    <3>3. ASSUME NEW c \in B, NEW d \in M[c], x = <<c, d>>, d[2] = i PROVE x \in Refs(L, i)
      <4>1. d \in L[c]
        BY <1>1, <1>6, <3>3
      <4> QED
        BY <3>2, <3>3, <4>1
    <3>4. ASSUME NEW c \in B, NEW d \in L[c], x = <<c, d>>, d[2] = i PROVE x \in Refs(M, i)
      BY <1>1, <3>1, <3>4
    <3> QED
      BY <3>1, <3>2, <3>3, <3>4
  <2>2. Refs(M, i) = Refs(L, i)
    BY <2>1
  <2>3. Cardinality(Refs(M, i)) = Cardinality(Refs(L, i)) + One(e[2], i)
    BY <1>4, <1>6, <2>2 DEF One
  <2> QED
    BY <2>2, <2>3
<1> QED
  BY <1>5, <1>6

LEMMA EntryRemoved ==
    ASSUME NEW B, NEW L, NEW M, NEW b, NEW e, More(B, M, L, b, e),
           NEW i, IsFiniteSet(Refs(L, i))
    PROVE  /\ IsFiniteSet(Refs(M, i))
           /\ Cardinality(Refs(L, i)) = Cardinality(Refs(M, i)) + One(e[2], i)
<1>1. DOMAIN M = B /\ DOMAIN L = B
  BY DEF More
<1>2. IsFiniteSet(Refs(M, i))
  <2>1. ASSUME NEW x PROVE x \in Refs(M, i) => x \in Refs(L, i)
    <3>1. \A c \in B : M[c] \subseteq L[c]
      BY DEF More
    <3> QED
      BY <1>1, <3>1, RefsIn
  <2> QED
    BY <2>1, FS_Subset
<1> QED
  BY <1>2, EntryAdded

(* M is L with a new directory in block b. *)
Made(B, L, M, b, self, parent) ==
    /\ L \in [B -> SUBSET Entries(Nat)] /\ M \in [B -> SUBSET Entries(Nat)]
    /\ b \in B /\ L[b] = {} /\ self \in Nat /\ parent \in Nat
    /\ \A c \in B : M[c] = IF c = b THEN {<<".", self>>, <<"..", parent>>} ELSE L[c]

LEMMA DirectoryAdded ==
    ASSUME NEW B, NEW L, NEW M, NEW b, NEW self, NEW parent, Made(B, L, M, b, self, parent),
           NEW i, IsFiniteSet(Refs(L, i))
    PROVE  /\ IsFiniteSet(Refs(M, i))
           /\ Cardinality(Refs(M, i)) =
                Cardinality(Refs(L, i)) + One(self, i) + One(parent, i)
<1> DEFINE d == <<".", self>>
           e == <<"..", parent>>
           K == [c \in B |-> IF c = b THEN {d} ELSE L[c]]
<1>1. d \in Entries(Nat) /\ e \in Entries(Nat) /\ d # e /\ d[2] = self /\ e[2] = parent
  BY DEF Made, Entries
<1>2. /\ \A c \in B : M[c] = IF c = b THEN {d, e} ELSE L[c]
      /\ L \in [B -> SUBSET Entries(Nat)] /\ M \in [B -> SUBSET Entries(Nat)]
      /\ b \in B /\ L[b] = {}
  BY DEF Made
<1> HIDE DEF d, e
<1>3. K \in [B -> SUBSET Entries(Nat)] /\ \A c \in B : K[c] = IF c = b THEN {d} ELSE L[c]
  BY <1>1, <1>2
<1> HIDE DEF K
<1>4. More(B, L, K, b, d)
  BY <1>2, <1>3 DEF More
<1>5. More(B, K, M, b, e)
  BY <1>1, <1>2, <1>3 DEF More
<1>6. /\ IsFiniteSet(Refs(K, i))
      /\ Cardinality(Refs(K, i)) = Cardinality(Refs(L, i)) + One(self, i)
  BY <1>1, <1>4, EntryAdded
<1>7. /\ IsFiniteSet(Refs(M, i))
      /\ Cardinality(Refs(M, i)) = Cardinality(Refs(K, i)) + One(parent, i)
  BY <1>1, <1>5, <1>6, EntryAdded
<1> QED
  BY <1>6, <1>7

LEMMA ReferencesAre ==
    ASSUME NEW f, NEW i
    PROVE  References(f, i) = Refs(Lists(f), i)
BY DEF References, Refs, Lists

LEMMA ListsTyped ==
    ASSUME NEW I, NEW B, NEW f \in Image(I, B)
    PROVE  /\ Lists(f) \in [B -> SUBSET Entries(I)] /\ Inums(f) = I /\ Blocks(f) = B
           /\ \A b \in B : Lists(f)[b] = f.data[b].dirList
BY DEF Image, Lists, Blocks, Inums

LEMMA ListsOf ==
    ASSUME NEW f, Typed(f)
    PROVE  /\ Lists(f) \in [Blocks(f) -> SUBSET Entries(Nat)]
           /\ \A b \in Blocks(f) : Lists(f)[b] = f.data[b].dirList
<1>1. /\ Lists(f) \in [Blocks(f) -> SUBSET Entries(Inums(f))] /\ Inums(f) \subseteq Nat
      /\ \A b \in Blocks(f) : Lists(f)[b] = f.data[b].dirList
  BY ListsTyped DEF Typed
<1>2. Entries(Inums(f)) \subseteq Entries(Nat)
  BY <1>1 DEF Entries
<1> QED
  BY <1>1, <1>2

(* The first free number is free. *)
LEMMA AllocFree ==
    ASSUME NEW numbers \in SUBSET Nat, NEW bitmap \in SUBSET numbers
    PROVE  Alloc(bitmap, numbers) = None \/ Alloc(bitmap, numbers) \in numbers \ bitmap
<1>1. ~(numbers \subseteq bitmap) => Min(numbers \ bitmap) \in numbers \ bitmap
  BY MinIn
<1> QED
  BY <1>1 DEF Alloc

LEMMA NoneIsNoNumber == None \notin Nat
BY DEF None
-----------------------------------------------------------------------------
(* What a sound image says of a directory and of a file. *)
LEMMA TypedFields ==
    ASSUME NEW f, Typed(f)
    PROVE  /\ f.ibitmap \subseteq Inums(f) /\ f.dbitmap \subseteq Blocks(f)
           /\ \A i \in Inums(f) : /\ f.inodes[i].ftype \in FileTypes
                                  /\ f.inodes[i].addr \in Blocks(f) \cup {None}
                                  /\ f.inodes[i].refCnt \in Nat
           /\ \A b \in Blocks(f) : /\ f.data[b].ftype \in FileTypes
                                   /\ f.data[b].dirList \subseteq Entries(Inums(f))
           /\ f.files \in Seq(Paths) /\ f.dirs \subseteq Paths
           /\ \A p \in DOMAIN f.nameToInum : p \in Paths /\ f.nameToInum[p] \in Inums(f)
           /\ Inums(f) \subseteq Nat /\ Blocks(f) \subseteq Nat
<1>1. f \in Image(Inums(f), Blocks(f)) /\ Inums(f) \subseteq Nat /\ Blocks(f) \subseteq Nat
  BY DEF Typed
<1>2. f.nameToInum \in UNION {[D -> Inums(f)] : D \in SUBSET Paths}
  BY <1>1 DEF Image
<1>3. \A p \in DOMAIN f.nameToInum : p \in Paths /\ f.nameToInum[p] \in Inums(f)
  BY <1>2
<1>4. /\ f.ibitmap \subseteq Inums(f) /\ f.dbitmap \subseteq Blocks(f)
      /\ f.inodes \in [Inums(f) -> [ftype : FileTypes, addr : Blocks(f) \cup {None}, refCnt : Nat]]
      /\ f.data \in [Blocks(f) -> [ftype : FileTypes, dirList : SUBSET Entries(Inums(f))]]
      /\ f.files \in Seq(Paths) /\ f.dirs \subseteq Paths
  BY <1>1 DEF Image
<1>5. \A i \in Inums(f) : /\ f.inodes[i].ftype \in FileTypes
                          /\ f.inodes[i].addr \in Blocks(f) \cup {None}
                          /\ f.inodes[i].refCnt \in Nat
  BY <1>4
<1>6. \A b \in Blocks(f) : /\ f.data[b].ftype \in FileTypes
                           /\ f.data[b].dirList \subseteq Entries(Inums(f))
  BY <1>4
<1> QED
  BY <1>1, <1>3, <1>4, <1>5, <1>6

LEMMA DirFacts ==
    ASSUME NEW f, Sound(f), NEW p \in f.dirs
    PROVE  /\ p \in Paths /\ f.nameToInum[p] \in Live(f)
           /\ f.inodes[f.nameToInum[p]].ftype = "d"
           /\ BlockOf(f, p) \in Blocks(f) /\ BlockOf(f, p) \in f.dbitmap
           /\ f.data[BlockOf(f, p)].ftype = "d"
<1>1. p \in Paths /\ p \in DOMAIN f.nameToInum /\ f.nameToInum[p] \in Inums(f)
  BY TypedFields DEF Sound, Remembered, Known
<1>2. f.inodes[f.nameToInum[p]].ftype = "d"
  BY DEF Sound, Remembered
<1>3. f.nameToInum[p] \in Live(f)
  BY <1>1, <1>2 DEF Live
<1>4. f.inodes[f.nameToInum[p]].addr # None
  BY <1>2, <1>3 DEF Sound, Allocated
<1>5. BlockOf(f, p) \in Blocks(f) /\ f.data[BlockOf(f, p)].ftype = "d"
  BY <1>1, <1>2, <1>3, <1>4, TypedFields DEF Sound, Allocated, BlockOf
<1>6. BlockOf(f, p) \in f.dbitmap
  BY <1>5 DEF Sound, Allocated
<1> QED
  BY <1>1, <1>2, <1>3, <1>5, <1>6

LEMMA FileFacts ==
    ASSUME NEW f, Sound(f), NEW p \in ToSet(f.files)
    PROVE  /\ p \in Paths /\ p # Root /\ f.nameToInum[p] \in Live(f)
           /\ f.inodes[f.nameToInum[p]].ftype = "f"
           /\ Front(p) \in f.dirs /\ Last(p) \in Names /\ p \notin f.dirs
           /\ <<Last(p), f.nameToInum[p]>> \in f.data[BlockOf(f, Front(p))].dirList
<1>1. p \in Paths /\ p \in DOMAIN f.nameToInum /\ f.nameToInum[p] \in Inums(f)
  BY TypedFields DEF Sound, Remembered, Known
<1>2. f.inodes[f.nameToInum[p]].ftype = "f" /\ p \notin f.dirs /\ p # Root
  BY DEF Sound, Remembered
<1>3. f.nameToInum[p] \in Live(f)
  BY <1>1, <1>2 DEF Live
<1>4. /\ Len(p) \in Nat \ {0} /\ Last(p) \in Names /\ Front(p) = SubSeq(p, 1, Len(p) - 1)
  BY <1>1, <1>2, ParentOf
<1>5. Front(p) \in f.dirs
  <2>1. Len(p) - 1 \in 0 .. Len(p) - 1
    BY <1>4
  <2>2. p \in Known(f)
    BY DEF Known
  <2> QED
    BY <1>4, <2>1, <2>2 DEF Sound, Remembered
<1>6. <<Last(p), f.nameToInum[p]>> \in f.data[BlockOf(f, Front(p))].dirList
  BY <1>2 DEF Sound, Remembered, Known
<1> QED
  BY <1>1, <1>2, <1>3, <1>4, <1>5, <1>6

(* Directories have blocks of their own. *)
LEMMA BlockApart ==
    ASSUME NEW f, Sound(f), NEW p \in f.dirs, NEW q \in f.dirs, BlockOf(f, p) = BlockOf(f, q)
    PROVE  p = q
<1>1. /\ f.nameToInum[p] \in Live(f) /\ f.nameToInum[q] \in Live(f)
      /\ f.inodes[f.nameToInum[p]].addr # None
  BY DirFacts DEF Sound, Allocated
<1>2. f.nameToInum[p] = f.nameToInum[q]
  BY <1>1 DEF Sound, Allocated, BlockOf
<1> QED
  BY <1>2 DEF Sound, Remembered

(* The two parts of what the run checks, of a sound image. *)
LEMMA SoundConsistent == ASSUME NEW f, Sound(f) PROVE Consistent(f)
<1>1. Typed(f) /\ Allocated(f) /\ EntriesSound(f) /\ Counted(f)
  BY DEF Sound
<1>2. \A i \in Live(f) : f.inodes[i].refCnt = Cardinality(References(f, i))
  <2> SUFFICES ASSUME NEW i \in Live(f)
               PROVE  f.inodes[i].refCnt = Cardinality(References(f, i))
    OBVIOUS
  <2>1. References(f, i) = Refs(Lists(f), i)
    BY ReferencesAre
  <2>2. f.inodes[i].refCnt = Cardinality(Refs(Lists(f), i))
    BY <1>1 DEF Counted, Live
  <2> QED
    BY <2>1, <2>2, Zenon
<1>3. ASSUME NEW b \in f.dbitmap PROVE Cardinality(Owners(f, b)) = 1
  <2>1. PICK i \in Live(f) : f.inodes[i].addr = b
    BY <1>1, <1>3 DEF Allocated
  <2>2. b # None
    BY <1>1, <1>3, TypedFields, NoneIsNoNumber
  <2>3. Owners(f, b) = {i}
    BY <1>1, <2>1, <2>2 DEF Allocated, Owners
  <2> QED
    BY <2>3, FS_Singleton, Zenon
<1>4. \A b \in f.dbitmap : \A d, e \in f.data[b].dirList :
        d[2] \in Live(f) /\ (d[1] = e[1] => d = e)
  BY <1>1, TypedFields DEF EntriesSound
<1>5. /\ f.ibitmap = Live(f) /\ f.dbitmap = {b \in Blocks(f) : f.data[b].ftype # "free"}
      /\ \A i \in Live(f) :
           /\ f.inodes[i].ftype = "d" => f.inodes[i].addr # None
           /\ f.inodes[i].addr # None => f.data[f.inodes[i].addr].ftype = f.inodes[i].ftype
  BY <1>1 DEF Allocated
<1> QED
  BY <1>2, <1>3, <1>4, <1>5 DEF Consistent

LEMMA SoundResolves ==
    ASSUME NEW f, Sound(f), NEW p \in Known(f)
    PROVE  Resolves(f, p)
<1> DEFINE walk == [k \in 0 .. Len(p) |-> f.nameToInum[SubSeq(p, 1, k)]]
<1>1. p \in Paths /\ Len(p) \in Nat /\ SubSeq(p, 1, Len(p)) = p
  <2>1. p \in Paths
    BY DirFacts, FileFacts DEF Known
  <2> QED
    BY <2>1, SubSeqFull, LenProperties DEF Paths
<1>2. ASSUME NEW k \in 0 .. Len(p) PROVE SubSeq(p, 1, k) \in Known(f)
  <2>1. CASE k = Len(p)
    BY <1>1, <2>1
  <2>2. CASE k # Len(p)
    <3> DEFINE n == Len(p)
    <3>0. n \in Nat /\ k \in 0 .. n /\ k # n
      BY <1>1, <2>2
    <3> HIDE DEF n
    <3>1. k \in 0 .. n - 1
      BY <3>0
    <3> USE DEF n
    <3> QED
      BY <3>1 DEF Sound, Remembered, Known
  <2> QED
    BY <2>1, <2>2
<1>3. \A q \in Known(f) : f.nameToInum[q] \in Live(f)
  BY DirFacts, FileFacts DEF Known
<1>4. walk \in [0 .. Len(p) -> Live(f)]
  BY <1>2, <1>3
<1>5. walk[0] = ROOT
  <2>1. SubSeq(p, 1, 0) = Root
    BY SubSeqEmpty DEF Root
  <2>2. 0 \in 0 .. Len(p)
    BY <1>1
  <2>3. walk[0] = f.nameToInum[Root]
    BY <2>1, <2>2
  <2> QED
    BY <2>3 DEF Sound, Remembered
<1>6. walk[Len(p)] = f.nameToInum[p]
  <2>1. Len(p) \in 0 .. Len(p)
    BY <1>1
  <2> QED
    BY <1>1, <2>1
<1>7. ASSUME NEW k \in 1 .. Len(p)
      PROVE  /\ f.inodes[walk[k - 1]].ftype = "d"
             /\ <<p[k], walk[k]>> \in f.data[f.inodes[walk[k - 1]].addr].dirList
  <2> DEFINE q == SubSeq(p, 1, k)
             r == SubSeq(p, 1, k - 1)
  <2>1. /\ k - 1 \in 0 .. Len(p) - 1 /\ k - 1 \in 0 .. Len(p) /\ k \in 0 .. Len(p)
        /\ k \in Nat \ {0} /\ k <= Len(p)
    BY <1>1
  <2>2. r \in f.dirs /\ q \in Known(f)
    BY <1>2, <2>1 DEF Sound, Remembered
  <2>3. /\ q \in Seq(Names) /\ Len(q) = k /\ \A j \in 1 .. k : q[j] = p[j]
    <3>1. \A j \in 1 .. k : p[j] \in Names
      BY <1>1, <2>1, ElementOfSeq DEF Paths
    <3> QED
      BY <2>1, <3>1, SubSeqProperties
  <2>4. q # Root /\ Last(q) = p[k]
    BY <2>1, <2>3, EmptySeq DEF Last, Root
  <2>5. Front(q) = r
    <3>1. Front(q) = SubSeq(q, 1, k - 1)
      BY <2>3 DEF Front
    <3>2. /\ SubSeq(q, 1, k - 1) \in Seq(Names) /\ Len(SubSeq(q, 1, k - 1)) = k - 1
          /\ \A j \in 1 .. k - 1 : SubSeq(q, 1, k - 1)[j] = q[j]
      <4>1. \A j \in 1 .. k - 1 : q[j] \in Names
        BY <2>1, <2>3, ElementOfSeq
      <4> HIDE DEF q
      <4> QED
        BY <2>1, <4>1, SubSeqProperties
    <3>3. /\ r \in Seq(Names) /\ Len(r) = k - 1 /\ \A j \in 1 .. k - 1 : r[j] = p[j]
      <4>1. \A j \in 1 .. k - 1 : p[j] \in Names
        BY <1>1, <2>1, ElementOfSeq DEF Paths
      <4> QED
        BY <2>1, <4>1, SubSeqProperties
    <3> HIDE DEF q, r
    <3>4. \A j \in 1 .. k - 1 : SubSeq(q, 1, k - 1)[j] = r[j]
      BY <2>1, <2>3, <3>2, <3>3
    <3>5. SubSeq(q, 1, k - 1) = r
      BY <3>2, <3>3, <3>4, SeqEqual
    <3> QED
      BY <3>1, <3>5
  <2>6. <<p[k], f.nameToInum[q]>> \in f.data[BlockOf(f, r)].dirList
    BY <2>2, <2>4, <2>5 DEF Sound, Remembered
  <2>7. walk[k] = f.nameToInum[q] /\ walk[k - 1] = f.nameToInum[r]
    BY <2>1
  <2>8. f.inodes[f.nameToInum[r]].ftype = "d"
    BY <2>2, DirFacts
  <2> HIDE DEF walk, q, r
  <2> QED
    BY <2>6, <2>7, <2>8 DEF BlockOf
<1> HIDE DEF walk
<1> QED
  BY <1>4, <1>5, <1>6, <1>7 DEF Resolves

LEMMA InvConsistent == VSFSInv => ImageConsistent
<1> SUFFICES ASSUME VSFSInv PROVE ImageConsistent
  OBVIOUS
<1>1. Sound(fs) /\ Typed(fs)
  BY DEF VSFSInv, Sound
<1>2. \A i \in Inums(fs) :
        fs.inodes[i] \in [ftype : {"free", "f", "d"}, addr : Blocks(fs) \cup {None}, refCnt : Nat]
  BY <1>1 DEF Typed, Image, FileTypes
<1>3. \A b \in Blocks(fs) :
        /\ fs.data[b].ftype \in {"free", "f", "d"}
        /\ fs.data[b].dirList \subseteq (Names \cup {".", ".."}) \X (Inums(fs) \cup {None})
  <2> SUFFICES ASSUME NEW b \in Blocks(fs)
               PROVE  /\ fs.data[b].ftype \in {"free", "f", "d"}
                      /\ fs.data[b].dirList \subseteq
                           (Names \cup {".", ".."}) \X (Inums(fs) \cup {None})
    OBVIOUS
  <2>1. /\ fs.data[b].ftype \in {"free", "f", "d"}
        /\ fs.data[b].dirList \subseteq (Names \cup {".", ".."}) \X Inums(fs)
    BY <1>1, TypedFields DEF FileTypes, Entries
  <2> QED
    BY <2>1
<1>4. VSFSTypeOK
  BY <1>1, <1>2, <1>3, TypedFields DEF VSFSTypeOK, VSFSInv
<1>5. \A p \in fs.dirs \cup ToSet(fs.files) : Resolves(fs, p)
  BY <1>1, SoundResolves DEF Known
<1> QED
  BY <1>1, <1>4, <1>5, SoundConsistent DEF ImageConsistent
-----------------------------------------------------------------------------
(* The empty file system. *)
LEMMA EmptySound ==
    ASSUME NEW n \in Nat \ {0}, NEW m \in Nat \ {0}
    PROVE  Sound(EmptyFS(n, m))
<1> DEFINE f == EmptyFS(n, m)
           I == 0 .. n - 1
           B == 0 .. m - 1
<1>1. /\ 0 \in I /\ 0 \in B /\ I \subseteq Nat /\ B \subseteq Nat
  OBVIOUS
<1>2. f = [ibitmap    |-> {0},
           inodes     |-> [i \in I |-> IF i = 0 THEN [ftype |-> "d", addr |-> 0, refCnt |-> 2]
                                       ELSE FreeInode],
           dbitmap    |-> {0},
           data       |-> [b \in B |-> IF b = 0 THEN Directory(0, 0) ELSE FreeBlock],
           files      |-> <<>>,
           dirs       |-> {Root},
           nameToInum |-> [p \in {Root} |-> 0],
           requests   |-> 0,
           phase      |-> "run"]
  BY DEF EmptyFS, ROOT
<1> HIDE DEF f, I, B
<1>3. f \in Image(I, B)
  <2>1. <<>> \in Seq(Paths) /\ Root \in Paths
    BY EmptySeq DEF Paths, Root
  <2>2. f.inodes \in [I -> [ftype : FileTypes, addr : B \cup {None}, refCnt : Nat]]
    BY <1>1, <1>2 DEF FreeInode, FileTypes
  <2>3. f.data \in [B -> [ftype : FileTypes, dirList : SUBSET Entries(I)]]
    <3>1. Directory(0, 0) \in [ftype : FileTypes, dirList : SUBSET Entries(I)]
      BY <1>1 DEF Directory, FileTypes, Entries
    <3>2. FreeBlock \in [ftype : FileTypes, dirList : SUBSET Entries(I)]
      BY DEF FreeBlock, FileTypes
    <3> QED
      BY <1>2, <3>1, <3>2
  <2>4. f.nameToInum \in UNION {[D -> I] : D \in SUBSET Paths}
    <3>1. f.nameToInum \in [{Root} -> I] /\ {Root} \in SUBSET Paths
      BY <1>1, <1>2, <2>1
    <3> QED
      BY <3>1
  <2>5. f = [ibitmap |-> f.ibitmap, inodes |-> f.inodes, dbitmap |-> f.dbitmap, data |-> f.data,
             files |-> f.files, dirs |-> f.dirs, nameToInum |-> f.nameToInum,
             requests |-> f.requests, phase |-> f.phase]
    BY <1>2
  <2>6. /\ f.ibitmap \in SUBSET I /\ f.dbitmap \in SUBSET B /\ f.files \in Seq(Paths)
        /\ f.dirs \in SUBSET Paths /\ f.requests \in Nat /\ f.phase \in {"run", "exit", "done"}
    BY <1>1, <1>2, <2>1
  <2> QED
    BY <2>2, <2>3, <2>4, <2>5, <2>6 DEF Image
<1>4. Inums(f) = I /\ Blocks(f) = B
  BY <1>3, ListsTyped
<1>5. Typed(f)
  BY <1>1, <1>3, <1>4 DEF Typed
<1>6. /\ \A i \in I : i # 0 => f.inodes[i].ftype = "free"
      /\ f.inodes[0].ftype = "d" /\ f.inodes[0].addr = 0 /\ f.inodes[0].refCnt = 2
      /\ \A b \in B : b # 0 => f.data[b].ftype = "free" /\ f.data[b].dirList = {}
      /\ f.data[0].ftype = "d" /\ f.data[0].dirList = {<<".", 0>>, <<"..", 0>>}
  BY <1>1, <1>2 DEF FreeInode, FreeBlock, Directory
<1>7. Live(f) = {0}
  BY <1>1, <1>4, <1>6 DEF Live
<1>8. Allocated(f)
  <2>1. f.ibitmap = {0} /\ f.dbitmap = {0}
    BY <1>2
  <2>2. {b \in Blocks(f) : f.data[b].ftype # "free"} = {0}
    BY <1>1, <1>4, <1>6
  <2>3. 0 # None
    BY DEF None
  <2> QED
    BY <1>6, <1>7, <2>1, <2>2, <2>3 DEF Allocated
<1>9. EntriesSound(f)
  BY <1>4, <1>6, <1>7 DEF EntriesSound
<1>10. Counted(f)
  <2> DEFINE L == [b \in B |-> {}]
  <2>1. L \in [B -> SUBSET Entries(Nat)] /\ DOMAIN L = B /\ \A b \in B : L[b] = {}
    OBVIOUS
  <2> HIDE DEF L
  <2>2. ASSUME NEW i \in I PROVE IsFiniteSet(Refs(L, i)) /\ Cardinality(Refs(L, i)) = 0
    <3>1. \A x : x \notin Refs(L, i)
      BY <2>1, RefsIn
    <3>2. Refs(L, i) = {}
      BY <3>1
    <3> QED
      BY <3>2, FS_EmptySet
  <2>3. Made(B, L, Lists(f), 0, 0, 0)
    <3>1. Lists(f) \in [B -> SUBSET Entries(Nat)] /\ \A b \in B : Lists(f)[b] = f.data[b].dirList
      BY <1>4, <1>5, ListsOf
    <3>2. \A b \in B : Lists(f)[b] = IF b = 0 THEN {<<".", 0>>, <<"..", 0>>} ELSE L[b]
      BY <1>6, <2>1, <3>1
    <3> QED
      BY <1>1, <2>1, <3>1, <3>2 DEF Made
  <2>4. ASSUME NEW i \in I
        PROVE  /\ IsFiniteSet(Refs(Lists(f), i))
               /\ i \in Live(f) => f.inodes[i].refCnt = Cardinality(Refs(Lists(f), i))
    <3>1. /\ IsFiniteSet(Refs(Lists(f), i))
          /\ Cardinality(Refs(Lists(f), i)) = Cardinality(Refs(L, i)) + One(0, i) + One(0, i)
      BY <2>2, <2>3, DirectoryAdded
    <3>2. i = 0 => One(0, i) = 1
      BY DEF One
    <3> QED
      BY <1>6, <1>7, <2>2, <3>1, <3>2
  <2> QED
    BY <1>4, <2>4 DEF Counted
<1>11. Remembered(f)
  <2>1. f.dirs = {Root} /\ f.files = <<>> /\ f.nameToInum[Root] = 0 /\ DOMAIN f.nameToInum = {Root}
    BY <1>2
  <2>2. ToSet(f.files) = {} /\ Known(f) = {Root} /\ DOMAIN f.files = {}
    BY <2>1 DEF ToSet, Known
  <2>3. Len(Root) = 0 /\ 0 .. Len(Root) - 1 = {}
    BY EmptySeq DEF Root
  <2> QED
    BY <1>6, <2>1, <2>2, <2>3 DEF Remembered, ROOT
<1> QED
  BY <1>5, <1>8, <1>9, <1>10, <1>11 DEF Sound, f

LEMMA InitInv == VSFSInit => VSFSInv
<1> SUFFICES ASSUME VSFSInit PROVE VSFSInv
  OBVIOUS
<1>1. PICK n \in InodeCounts, m \in DataCounts : fs = EmptyFS(n, m)
  BY DEF VSFSInit, EmptyImages
<1>2. Sound(fs)
  BY <1>1, EmptySound, VSFSAssumption
<1>3. fs.requests = 0
  BY <1>1 DEF EmptyFS
<1> QED
  BY <1>2, <1>3, VSFSAssumption DEF VSFSInv

-----------------------------------------------------------------------------
(* What a step keeps of the inodes and of the directories there are. *)
Grown(f, g) ==
    /\ Inums(g) = Inums(f) /\ Blocks(g) = Blocks(f)
    /\ \A i \in Live(f) :
         /\ g.inodes[i].ftype = f.inodes[i].ftype
         /\ f.inodes[i].ftype = "d" => g.inodes[i].addr = f.inodes[i].addr
    /\ \A b \in Blocks(f) : f.data[b].ftype = "d" => f.data[b].dirList \subseteq g.data[b].dirList

LEMMA NamesKept ==
    ASSUME NEW f, Sound(f), NEW g, Grown(f, g),
           g.dirs = f.dirs, g.files = f.files, g.nameToInum = f.nameToInum
    PROVE  Remembered(g)
<1>1. Known(g) = Known(f)
  BY DEF Known
<1>2. \A p \in f.dirs : /\ BlockOf(g, p) = BlockOf(f, p)
                        /\ g.inodes[g.nameToInum[p]].ftype = "d"
                        /\ f.data[BlockOf(f, p)].dirList \subseteq g.data[BlockOf(f, p)].dirList
  BY DirFacts DEF Grown, BlockOf
<1>3. ASSUME NEW p \in ToSet(f.files) PROVE g.inodes[g.nameToInum[p]].ftype = "f"
  <2>1. f.nameToInum[p] \in Live(f) /\ f.inodes[f.nameToInum[p]].ftype = "f"
    BY FileFacts
  <2> QED
    BY <2>1 DEF Grown
<1>4. ASSUME NEW p \in Known(g) \ {Root}
      PROVE  <<Last(p), g.nameToInum[p]>> \in g.data[BlockOf(g, Front(p))].dirList
  <2>1. p \in Paths
    BY <1>1, <1>4, DirFacts, FileFacts DEF Known
  <2>2. Front(p) \in f.dirs
    <3>1. Len(p) - 1 \in 0 .. Len(p) - 1 /\ Front(p) = SubSeq(p, 1, Len(p) - 1)
      BY <1>4, <2>1, ParentOf
    <3> QED
      BY <1>1, <1>4, <3>1 DEF Sound, Remembered
  <2>3. <<Last(p), f.nameToInum[p]>> \in f.data[BlockOf(f, Front(p))].dirList
    BY <1>1, <1>4 DEF Sound, Remembered
  <2> QED
    BY <1>2, <2>2, <2>3
<1>5. Remembered(f)
  BY DEF Sound
<1> QED
  BY <1>1, <1>2, <1>3, <1>4, <1>5 DEF Remembered

(* A new name in a directory. *)
LEMMA NameAdded ==
    ASSUME NEW f, Sound(f), NEW g, Grown(f, g), NEW parent \in f.dirs, NEW name \in Names,
           NEW path, path = Append(parent, name), path \notin Known(f), NEW inum,
           g.nameToInum = Renamed(f, path, inum),
           <<name, inum>> \in g.data[BlockOf(f, parent)].dirList,
           \/ /\ g.dirs = f.dirs /\ g.files = Append(f.files, path)
              /\ g.inodes[inum].ftype = "f"
           \/ /\ g.dirs = f.dirs \cup {path} /\ g.files = f.files
              /\ g.inodes[inum].ftype = "d" /\ inum \notin Live(f)
    PROVE  Remembered(g)
<1>1. /\ path \in Paths /\ path # Root /\ Front(path) = parent /\ Last(path) = name
      /\ Len(path) = Len(parent) + 1 /\ Len(parent) \in Nat /\ parent \in Paths
      /\ \A k \in 0 .. Len(parent) : SubSeq(path, 1, k) = SubSeq(parent, 1, k)
      /\ SubSeq(parent, 1, Len(parent)) = parent
  BY Child, DirFacts
<1>2. Typed(f) /\ Remembered(f) /\ f.files \in Seq(Paths)
  BY TypedFields DEF Sound
<1>3. /\ ToSet(Append(f.files, path)) = ToSet(f.files) \cup {path}
      /\ \A k, l \in DOMAIN Append(f.files, path) :
           Append(f.files, path)[k] = Append(f.files, path)[l] => k = l
  <2>1. path \notin ToSet(f.files)
    BY DEF Known
  <2>2. \A k, l \in DOMAIN f.files : f.files[k] = f.files[l] => k = l
    BY <1>2 DEF Remembered
  <2> QED
    BY <1>1, <1>2, <2>1, <2>2, FileAppended
<1>4. Known(g) = Known(f) \cup {path} /\ f.dirs \subseteq g.dirs
  BY <1>3 DEF Known
<1>5. /\ DOMAIN g.nameToInum = DOMAIN f.nameToInum \cup {path}
      /\ g.nameToInum[path] = inum
      /\ \A p \in Known(f) : g.nameToInum[p] = f.nameToInum[p]
  <2>1. Known(f) \subseteq DOMAIN f.nameToInum
    BY <1>2 DEF Remembered
  <2> QED
    BY <2>1 DEF Renamed
<1>6. \A p \in f.dirs : /\ BlockOf(g, p) = BlockOf(f, p)
                        /\ g.inodes[g.nameToInum[p]].ftype = "d"
                        /\ f.nameToInum[p] \in Live(f)
                        /\ f.data[BlockOf(f, p)].dirList \subseteq g.data[BlockOf(f, p)].dirList
  <2> SUFFICES ASSUME NEW p \in f.dirs
               PROVE  /\ BlockOf(g, p) = BlockOf(f, p)
                      /\ g.inodes[g.nameToInum[p]].ftype = "d"
                      /\ f.nameToInum[p] \in Live(f)
                      /\ f.data[BlockOf(f, p)].dirList \subseteq g.data[BlockOf(f, p)].dirList
    OBVIOUS
  <2>1. g.nameToInum[p] = f.nameToInum[p]
    BY <1>5 DEF Known
  <2>2. /\ f.nameToInum[p] \in Live(f) /\ f.inodes[f.nameToInum[p]].ftype = "d"
        /\ BlockOf(f, p) \in Blocks(f) /\ f.data[BlockOf(f, p)].ftype = "d"
    BY DirFacts
  <2>3. g.inodes[f.nameToInum[p]].ftype = "d" /\ BlockOf(g, p) = BlockOf(f, p)
    BY <2>1, <2>2 DEF Grown, BlockOf
  <2>4. f.data[BlockOf(f, p)].dirList \subseteq g.data[BlockOf(f, p)].dirList
    BY <2>2 DEF Grown
  <2> QED
    BY <2>1, <2>2, <2>3, <2>4
<1>7. \A p \in ToSet(f.files) : g.inodes[g.nameToInum[p]].ftype = "f"
  <2> SUFFICES ASSUME NEW p \in ToSet(f.files) PROVE g.inodes[g.nameToInum[p]].ftype = "f"
    OBVIOUS
  <2>1. g.nameToInum[p] = f.nameToInum[p]
    BY <1>5 DEF Known
  <2>2. f.nameToInum[p] \in Live(f) /\ f.inodes[f.nameToInum[p]].ftype = "f"
    BY FileFacts
  <2> QED
    BY <2>1, <2>2 DEF Grown
<1>8. ASSUME NEW p \in Known(f), NEW k \in 0 .. Len(p) - 1 PROVE SubSeq(p, 1, k) \in g.dirs
  BY <1>2, <1>4 DEF Remembered
<1>9. ASSUME NEW k \in 0 .. Len(path) - 1 PROVE SubSeq(path, 1, k) \in g.dirs
  <2> DEFINE m == Len(parent)
  <2>1. m \in Nat /\ Len(path) - 1 = m
    BY <1>1
  <2>2. k \in 0 .. m
    BY <2>1
  <2>3. CASE k = m
    BY <1>1, <1>4, <2>2, <2>3
  <2>4. CASE k # m
    <3> HIDE DEF m
    <3>1. k \in 0 .. m - 1
      BY <2>1, <2>2, <2>4
    <3>2. SubSeq(parent, 1, k) \in g.dirs
      BY <1>8, <3>1 DEF m, Known
    <3> QED
      BY <1>1, <2>2, <3>2 DEF m
  <2> QED
    BY <2>3, <2>4
<1>10. ASSUME NEW p \in Known(f) \ {Root}
       PROVE  <<Last(p), g.nameToInum[p]>> \in g.data[BlockOf(g, Front(p))].dirList
  <2>1. p \in Paths
    BY DirFacts, FileFacts DEF Known
  <2>2. Front(p) \in f.dirs
    <3>1. Len(p) - 1 \in 0 .. Len(p) - 1 /\ Front(p) = SubSeq(p, 1, Len(p) - 1)
      BY <2>1, ParentOf
    <3> QED
      BY <1>2, <3>1 DEF Remembered
  <2>3. <<Last(p), f.nameToInum[p]>> \in f.data[BlockOf(f, Front(p))].dirList
    BY <1>2 DEF Remembered
  <2> QED
    BY <1>5, <1>6, <2>2, <2>3
<1>11. <<Last(path), g.nameToInum[path]>> \in g.data[BlockOf(g, Front(path))].dirList
  BY <1>1, <1>5, <1>6
<1>12. Root \in g.dirs /\ g.nameToInum[Root] = ROOT /\ Known(g) \subseteq DOMAIN g.nameToInum
  BY <1>2, <1>4, <1>5 DEF Remembered, Known
<1>13. \A k, l \in DOMAIN g.files : g.files[k] = g.files[l] => k = l
  BY <1>2, <1>3 DEF Remembered
<1>14. /\ \A p \in g.dirs : g.inodes[g.nameToInum[p]].ftype = "d"
       /\ \A p \in ToSet(g.files) : g.inodes[g.nameToInum[p]].ftype = "f"
  BY <1>3, <1>5, <1>6, <1>7
<1>15. ASSUME NEW p \in g.dirs, NEW q \in g.dirs, g.nameToInum[p] = g.nameToInum[q]
       PROVE  p = q
  <2>1. \A r \in f.dirs : g.nameToInum[r] = f.nameToInum[r] /\ f.nameToInum[r] \in Live(f)
    BY <1>5, <1>6 DEF Known
  <2>2. \A r, s \in f.dirs : f.nameToInum[r] = f.nameToInum[s] => r = s
    BY <1>2 DEF Remembered
  <2>3. CASE g.dirs = f.dirs
    BY <1>15, <2>1, <2>2, <2>3
  <2>4. CASE g.dirs = f.dirs \cup {path} /\ inum \notin Live(f)
    <3>1. CASE p \in f.dirs /\ q \in f.dirs
      BY <1>15, <2>1, <2>2, <3>1
    <3>2. CASE p = path /\ q \in f.dirs
      BY <1>5, <1>15, <2>1, <2>4, <3>2
    <3>3. CASE q = path /\ p \in f.dirs
      BY <1>5, <1>15, <2>1, <2>4, <3>3
    <3> QED
      BY <2>4, <3>1, <3>2, <3>3
  <2> QED
    BY <2>3, <2>4
<1>16. \A p \in Known(g) : \A k \in 0 .. Len(p) - 1 : SubSeq(p, 1, k) \in g.dirs
  BY <1>4, <1>8, <1>9
<1>17. \A p \in Known(g) \ {Root} :
         <<Last(p), g.nameToInum[p]>> \in g.data[BlockOf(g, Front(p))].dirList
  BY <1>4, <1>10, <1>11
<1> QED
  BY <1>12, <1>13, <1>14, <1>15, <1>16, <1>17 DEF Remembered
-----------------------------------------------------------------------------
(* An image from its fields. *)
FS(ib, nodes, db, data, files, dirs, names, r, ph) ==
    [ibitmap |-> ib, inodes |-> nodes, dbitmap |-> db, data |-> data, files |-> files,
     dirs |-> dirs, nameToInum |-> names, requests |-> r, phase |-> ph]

Nodes(f) == [Inums(f) -> [ftype : FileTypes, addr : Blocks(f) \cup {None}, refCnt : Nat]]
Contents(f) == [Blocks(f) -> [ftype : FileTypes, dirList : SUBSET Entries(Inums(f))]]
NameTables(f) == UNION {[D -> Inums(f)] : D \in SUBSET Paths}

LEMMA Fields ==
    ASSUME NEW f, Typed(f)
    PROVE  /\ f = FS(f.ibitmap, f.inodes, f.dbitmap, f.data, f.files, f.dirs, f.nameToInum,
                     f.requests, f.phase)
           /\ f.ibitmap \in SUBSET Inums(f) /\ f.inodes \in Nodes(f)
           /\ f.dbitmap \in SUBSET Blocks(f) /\ f.data \in Contents(f)
           /\ f.files \in Seq(Paths) /\ f.dirs \in SUBSET Paths /\ f.nameToInum \in NameTables(f)
           /\ f.requests \in Nat /\ f.phase \in {"run", "exit", "done"}
BY DEF Typed, Image, FS, Nodes, Contents, NameTables

LEMMA Rebuilt ==
    ASSUME NEW f, Typed(f), NEW ib \in SUBSET Inums(f), NEW nodes \in Nodes(f),
           NEW db \in SUBSET Blocks(f), NEW data \in Contents(f), NEW files \in Seq(Paths),
           NEW dirs \in SUBSET Paths, NEW names \in NameTables(f),
           NEW r \in Nat, NEW ph \in {"run", "exit", "done"},
           NEW g, g = FS(ib, nodes, db, data, files, dirs, names, r, ph)
    PROVE  /\ Typed(g) /\ Inums(g) = Inums(f) /\ Blocks(g) = Blocks(f)
           /\ g.ibitmap = ib /\ g.inodes = nodes /\ g.dbitmap = db /\ g.data = data
           /\ g.files = files /\ g.dirs = dirs /\ g.nameToInum = names
<1>1. /\ g.ibitmap = ib /\ g.inodes = nodes /\ g.dbitmap = db /\ g.data = data
      /\ g.files = files /\ g.dirs = dirs /\ g.nameToInum = names
  BY DEF FS
<1>2. Inums(g) = Inums(f) /\ Blocks(g) = Blocks(f)
  BY <1>1 DEF Inums, Blocks, Nodes, Contents
<1>3. g \in Image(Inums(f), Blocks(f))
  BY DEF FS, Image, Nodes, Contents, NameTables
<1> QED
  BY <1>1, <1>2, <1>3 DEF Typed

LEMMA RenamedTyped ==
    ASSUME NEW f, Typed(f), NEW path \in Paths, NEW inum \in Inums(f)
    PROVE  Renamed(f, path, inum) \in NameTables(f)
<1>1. \A p \in DOMAIN f.nameToInum : p \in Paths /\ f.nameToInum[p] \in Inums(f)
  BY TypedFields
<1>2. Renamed(f, path, inum) \in [DOMAIN f.nameToInum \cup {path} -> Inums(f)]
  BY <1>1 DEF Renamed
<1>3. DOMAIN f.nameToInum \cup {path} \in SUBSET Paths
  BY <1>1
<1> QED
  BY <1>2, <1>3 DEF NameTables

(* A name that its directory does not hold is not remembered. *)
LEMMA NewName ==
    ASSUME NEW f, Sound(f), NEW parent \in f.dirs, NEW name \in Names,
           ~EntryExists(f, BlockOf(f, parent), name)
    PROVE  Append(parent, name) \notin Known(f) /\ Append(parent, name) \in Paths
<1>1. /\ Append(parent, name) \in Paths /\ Append(parent, name) # Root
      /\ Front(Append(parent, name)) = parent /\ Last(Append(parent, name)) = name
  BY Child, DirFacts
<1>2. ASSUME Append(parent, name) \in Known(f) PROVE FALSE
  <2> DEFINE e == <<name, f.nameToInum[Append(parent, name)]>>
  <2>1. e \in f.data[BlockOf(f, parent)].dirList /\ e[1] = name
    BY <1>1, <1>2 DEF Sound, Remembered
  <2> QED
    BY <2>1 DEF EntryExists
<1> QED
  BY <1>1, <1>2

(* An entry more in one directory, and a new directory in block x. *)
Enlisted(f, g, b0, name, inum, x) ==
    /\ \A b \in Blocks(f) \ {x} :
         /\ g.data[b].ftype = f.data[b].ftype
         /\ g.data[b].dirList = IF b = b0 THEN f.data[b].dirList \cup {<<name, inum>>}
                                ELSE f.data[b].dirList
    /\ x \in Blocks(f) =>
         /\ g.data[x].ftype = "d"
         /\ \E self, parent \in Live(g) : g.data[x].dirList = {<<".", self>>, <<"..", parent>>}

LEMMA EntriesKept ==
    ASSUME NEW f, EntriesSound(f), NEW g, Blocks(g) = Blocks(f), Live(f) \subseteq Live(g),
           NEW b0 \in Blocks(f), f.data[b0].ftype = "d", NEW name, NEW inum \in Live(g),
           ~EntryExists(f, b0, name), NEW x, Enlisted(f, g, b0, name, inum, x)
    PROVE  EntriesSound(g)
<1> SUFFICES ASSUME NEW b \in Blocks(f), NEW d \in g.data[b].dirList
             PROVE  /\ g.data[b].ftype = "d" /\ d[2] \in Live(g)
                    /\ \A e \in g.data[b].dirList : d[1] = e[1] => d = e
  BY DEF EntriesSound
<1>1. CASE b = x
  <2>1. PICK self \in Live(g), parent \in Live(g) :
          g.data[x].dirList = {<<".", self>>, <<"..", parent>>}
    BY <1>1 DEF Enlisted
  <2>2. g.data[x].ftype = "d"
    BY <1>1 DEF Enlisted
  <2> QED
    BY <1>1, <2>1, <2>2
<1>2. CASE b # x /\ b # b0
  <2>1. g.data[b].ftype = f.data[b].ftype /\ g.data[b].dirList = f.data[b].dirList
    BY <1>2 DEF Enlisted
  <2> QED
    BY <2>1 DEF EntriesSound
<1>3. CASE b # x /\ b = b0
  <2> DEFINE n == <<name, inum>>
  <2>1. g.data[b].ftype = "d" /\ g.data[b].dirList = f.data[b].dirList \cup {n}
    BY <1>3 DEF Enlisted
  <2>2. \A e \in f.data[b].dirList : e[1] # n[1] /\ e[2] \in Live(g)
    BY <1>3 DEF EntryExists, EntriesSound
  <2>3. n[2] \in Live(g)
    OBVIOUS
  <2> HIDE DEF n
  <2> QED
    BY <2>1, <2>2, <2>3 DEF EntriesSound
<1> QED
  BY <1>1, <1>2, <1>3

LEMMA AllocatedSame ==
    ASSUME NEW f, Typed(f), Allocated(f), NEW g, Inums(g) = Inums(f), Blocks(g) = Blocks(f),
           g.ibitmap = f.ibitmap, g.dbitmap = f.dbitmap, Live(g) = Live(f),
           \A i \in Inums(f) : g.inodes[i].ftype = f.inodes[i].ftype
                              /\ (i \in Live(f) => g.inodes[i].addr = f.inodes[i].addr),
           \A b \in Blocks(f) : g.data[b].ftype = f.data[b].ftype
    PROVE  Allocated(g)
<1>1. \A i \in Live(f) : i \in Inums(f)
  BY DEF Live
<1>2. \A i \in Live(f) : g.inodes[i].addr # None =>
        g.data[g.inodes[i].addr].ftype = g.inodes[i].ftype
  <2> SUFFICES ASSUME NEW i \in Live(f), g.inodes[i].addr # None
               PROVE  g.data[g.inodes[i].addr].ftype = g.inodes[i].ftype
    OBVIOUS
  <2>1. f.data[f.inodes[i].addr].ftype = f.inodes[i].ftype /\ g.inodes[i].addr = f.inodes[i].addr
    BY <1>1 DEF Allocated
  <2>2. f.inodes[i].addr \in Blocks(f)
    BY <1>1, <2>1, TypedFields
  <2> QED
    BY <1>1, <2>1, <2>2
<1> QED
  BY <1>1, <1>2 DEF Allocated

LEMMA LinkSound ==
    ASSUME NEW f, Sound(f), NEW target \in ToSet(f.files), NEW name \in Names, NEW parent \in f.dirs
    PROVE  Sound(createLink(f, target, name, parent).fs)
<1> DEFINE b0 == BlockOf(f, parent)
           t == f.nameToInum[target]
           path == Append(parent, name)
           e == <<name, t>>
           node == [f.inodes[t] EXCEPT !.refCnt = f.inodes[t].refCnt + 1]
           block == [f.data[b0] EXCEPT !.dirList = f.data[b0].dirList \cup {e}]
           nodes == [f.inodes EXCEPT ![t] = node]
           data == [f.data EXCEPT ![b0] = block]
           g == createLink(f, target, name, parent).fs
<1>1. CASE ~HasRoom(f, b0) \/ EntryExists(f, b0, name)
  BY <1>1 DEF createLink, Fails
<1>2. CASE HasRoom(f, b0) /\ ~EntryExists(f, b0, name)
  <2>1. /\ Typed(f) /\ f.inodes \in Nodes(f) /\ f.data \in Contents(f)
        /\ f = FS(f.ibitmap, f.inodes, f.dbitmap, f.data, f.files, f.dirs, f.nameToInum,
                  f.requests, f.phase)
    BY Fields DEF Sound
  <2>2. g = FS(f.ibitmap, nodes, f.dbitmap, data, Append(f.files, path), f.dirs,
               Renamed(f, path, t), f.requests, f.phase)
    BY <1>2, <2>1 DEF createLink, Succeeds, FS, BlockOf
  <2>3. /\ t \in Live(f) /\ t \in Inums(f) /\ f.inodes[t].ftype = "f"
        /\ b0 \in Blocks(f) /\ f.data[b0].ftype = "d"
    BY FileFacts, DirFacts DEF Live
  <2>4. path \notin Known(f) /\ path \in Paths
    BY <1>2, NewName
  <2>5. nodes \in Nodes(f) /\ data \in Contents(f)
    <3>1. node \in [ftype : FileTypes, addr : Blocks(f) \cup {None}, refCnt : Nat]
      BY <2>1, <2>3 DEF Nodes
    <3>2. e \in Entries(Inums(f))
      BY <2>3 DEF Entries
    <3>3. block \in [ftype : FileTypes, dirList : SUBSET Entries(Inums(f))]
      BY <2>1, <2>3, <3>2 DEF Contents
    <3> QED
      BY <2>1, <2>3, <3>1, <3>3 DEF Nodes, Contents
  <2>6. /\ nodes[t].ftype = f.inodes[t].ftype /\ nodes[t].addr = f.inodes[t].addr
        /\ nodes[t].refCnt = f.inodes[t].refCnt + 1
        /\ \A i \in Inums(f) : i # t => nodes[i] = f.inodes[i]
    BY <2>1, <2>3 DEF Nodes
  <2>7. /\ data[b0].ftype = "d" /\ data[b0].dirList = f.data[b0].dirList \cup {e}
        /\ \A b \in Blocks(f) : b # b0 => data[b] = f.data[b]
    BY <2>1, <2>3 DEF Contents
  <2> HIDE DEF b0, t, path, nodes, data, g, node, block
  <2>8. /\ Typed(g) /\ Inums(g) = Inums(f) /\ Blocks(g) = Blocks(f)
        /\ g.ibitmap = f.ibitmap /\ g.inodes = nodes /\ g.dbitmap = f.dbitmap /\ g.data = data
        /\ g.files = Append(f.files, path) /\ g.dirs = f.dirs
        /\ g.nameToInum = Renamed(f, path, t)
    <3> DEFINE files == Append(f.files, path)
               names == Renamed(f, path, t)
    <3>1. files \in Seq(Paths) /\ names \in NameTables(f)
      BY <2>1, <2>3, <2>4, Fields, AppendProperties, RenamedTyped
    <3>2. /\ f.ibitmap \in SUBSET Inums(f) /\ f.dbitmap \in SUBSET Blocks(f)
          /\ f.dirs \in SUBSET Paths /\ f.requests \in Nat /\ f.phase \in {"run", "exit", "done"}
      BY <2>1, Fields
    <3>3. g = FS(f.ibitmap, nodes, f.dbitmap, data, files, f.dirs, names, f.requests, f.phase)
      BY <2>2
    <3>4. /\ Typed(g) /\ Inums(g) = Inums(f) /\ Blocks(g) = Blocks(f)
          /\ g.ibitmap = f.ibitmap /\ g.inodes = nodes /\ g.dbitmap = f.dbitmap /\ g.data = data
          /\ g.files = files /\ g.dirs = f.dirs /\ g.nameToInum = names
      <4> HIDE DEF files, names
      <4> QED
        BY <2>1, <2>5, <3>1, <3>2, <3>3, Rebuilt
    <3> QED
      BY <3>4
  <2>9. Live(g) = Live(f)
    BY <2>6, <2>8 DEF Live
  <2>10. Allocated(g)
    <3>1. /\ \A i \in Inums(f) : g.inodes[i].ftype = f.inodes[i].ftype
                                /\ g.inodes[i].addr = f.inodes[i].addr
          /\ \A b \in Blocks(f) : g.data[b].ftype = f.data[b].ftype
      BY <2>3, <2>6, <2>7, <2>8
    <3> QED
      BY <2>8, <2>9, <3>1, AllocatedSame DEF Sound
  <2>11. EntriesSound(g)
    <3>1. None \notin Blocks(f)
      BY <2>1, NoneIsNoNumber DEF Typed
    <3>2. Enlisted(f, g, b0, name, t, None)
      BY <2>3, <2>7, <2>8, <3>1 DEF Enlisted
    <3>3. ~EntryExists(f, b0, name)
      BY <1>2 DEF b0
    <3> QED
      BY <2>3, <2>8, <2>9, <3>2, <3>3, EntriesKept DEF Sound
  <2>12. Counted(g)
    <3>1. More(Blocks(f), Lists(f), Lists(g), b0, e)
      <4>1. e \notin f.data[b0].dirList
        BY <1>2 DEF EntryExists, b0
      <4>2. /\ Lists(f) \in [Blocks(f) -> SUBSET Entries(Nat)]
            /\ Lists(g) \in [Blocks(f) -> SUBSET Entries(Nat)]
            /\ \A b \in Blocks(f) : Lists(f)[b] = f.data[b].dirList /\ Lists(g)[b] = data[b].dirList
        BY <2>1, <2>8, ListsOf
      <4> HIDE DEF e
      <4> QED
        BY <2>3, <2>7, <4>1, <4>2 DEF More
    <3>2. e[2] = t
      OBVIOUS
    <3> SUFFICES ASSUME NEW i \in Inums(f)
                 PROVE  /\ IsFiniteSet(Refs(Lists(g), i))
                        /\ i \in Live(g) => g.inodes[i].refCnt = Cardinality(Refs(Lists(g), i))
      BY <2>8 DEF Counted
    <3>3. /\ IsFiniteSet(Refs(Lists(f), i))
          /\ i \in Live(f) => f.inodes[i].refCnt = Cardinality(Refs(Lists(f), i))
      BY DEF Sound, Counted
    <3> HIDE DEF e
    <3>4. /\ IsFiniteSet(Refs(Lists(g), i))
          /\ Cardinality(Refs(Lists(g), i)) = Cardinality(Refs(Lists(f), i)) + One(t, i)
      BY <3>1, <3>2, <3>3, EntryAdded
    <3>5. Cardinality(Refs(Lists(f), i)) \in Nat
      BY <3>3, FS_CardinalityType
    <3> QED
      BY <2>6, <2>8, <2>9, <3>3, <3>4, <3>5 DEF One
  <2>13. Remembered(g)
    <3>1. Grown(f, g)
      BY <2>3, <2>6, <2>7, <2>8 DEF Grown, Live
    <3>2. <<name, t>> \in g.data[BlockOf(f, parent)].dirList
      BY <2>7, <2>8 DEF b0
    <3>3. g.inodes[t].ftype = "f"
      BY <2>3, <2>6, <2>8
    <3> QED
      BY <2>4, <2>8, <3>1, <3>2, <3>3, NameAdded DEF path
  <2> QED
    BY <2>8, <2>10, <2>11, <2>12, <2>13 DEF Sound, g
<1> QED
  BY <1>1, <1>2

(* No entry names an inode that is not in use. *)
LEMMA NoRefs ==
    ASSUME NEW f, Sound(f), NEW i \in Inums(f), i \notin Live(f)
    PROVE  IsFiniteSet(Refs(Lists(f), i)) /\ Cardinality(Refs(Lists(f), i)) = 0
<1>1. Lists(f) \in [Blocks(f) -> SUBSET Entries(Nat)] /\ DOMAIN Lists(f) = Blocks(f)
      /\ \A b \in Blocks(f) : Lists(f)[b] = f.data[b].dirList
  BY ListsOf DEF Sound
<1>2. \A b \in Blocks(f) : \A e \in Lists(f)[b] : e[2] \in Live(f)
  BY <1>1 DEF Sound, EntriesSound
<1>3. \A x : x \notin Refs(Lists(f), i)
  BY <1>1, <1>2, RefsIn
<1>4. Refs(Lists(f), i) = {}
  BY <1>3
<1> QED
  BY <1>4, FS_EmptySet

LEMMA FreeIsEmpty ==
    ASSUME NEW f, Sound(f), NEW b \in Blocks(f) \ f.dbitmap
    PROVE  f.data[b].ftype = "free" /\ f.data[b].dirList = {}
<1>1. f.data[b].ftype = "free"
  BY DEF Sound, Allocated
<1> QED
  BY <1>1 DEF Sound, EntriesSound

(* What createFile leaves when it makes a file, and when it makes a directory
   in block x. *)
WithFile(f, parent, name, inum) ==
    FS(f.ibitmap \cup {inum},
       [f.inodes EXCEPT ![inum] = [ftype |-> "f", addr |-> None, refCnt |-> 1]],
       f.dbitmap,
       [f.data EXCEPT ![BlockOf(f, parent)].dirList = @ \cup {<<name, inum>>}],
       Append(f.files, Append(parent, name)), f.dirs,
       Renamed(f, Append(parent, name), inum), f.requests, f.phase)

WithDir(f, parent, name, inum, pinum, x) ==
    FS(f.ibitmap \cup {inum},
       [f.inodes EXCEPT ![inum] = [ftype |-> "d", addr |-> x, refCnt |-> 2],
                        ![pinum].refCnt = @ + 1],
       f.dbitmap \cup {x},
       [f.data EXCEPT ![BlockOf(f, parent)].dirList = @ \cup {<<name, inum>>},
                      ![x] = Directory(inum, pinum)],
       f.files, f.dirs \cup {Append(parent, name)},
       Renamed(f, Append(parent, name), inum), f.requests, f.phase)

LEMMA FileCreated ==
    ASSUME NEW f, Sound(f), NEW parent \in f.dirs, NEW name \in Names,
           ~EntryExists(f, BlockOf(f, parent), name), NEW inum \in Inums(f) \ f.ibitmap
    PROVE  Sound(WithFile(f, parent, name, inum))
<1> DEFINE b0 == BlockOf(f, parent)
           path == Append(parent, name)
           e == <<name, inum>>
           node == [ftype |-> "f", addr |-> None, refCnt |-> 1]
           block == [f.data[b0] EXCEPT !.dirList = f.data[b0].dirList \cup {e}]
           ib == f.ibitmap \cup {inum}
           nodes == [f.inodes EXCEPT ![inum] = node]
           data == [f.data EXCEPT ![b0] = block]
           files == Append(f.files, path)
           names == Renamed(f, path, inum)
           g == WithFile(f, parent, name, inum)
<1>1. /\ Typed(f) /\ f.inodes \in Nodes(f) /\ f.data \in Contents(f)
      /\ f.ibitmap \in SUBSET Inums(f) /\ f.dbitmap \in SUBSET Blocks(f)
      /\ f.dirs \in SUBSET Paths /\ f.requests \in Nat /\ f.phase \in {"run", "exit", "done"}
  BY Fields DEF Sound
<1>2. inum \in Inums(f) /\ inum \notin Live(f) /\ f.ibitmap = Live(f)
  BY DEF Sound, Allocated
<1>3. b0 \in Blocks(f) /\ f.data[b0].ftype = "d"
  BY DirFacts
<1>4. path \notin Known(f) /\ path \in Paths
  BY NewName
<1>5. ib \in SUBSET Inums(f) /\ nodes \in Nodes(f) /\ data \in Contents(f)
  <2>1. node \in [ftype : FileTypes, addr : Blocks(f) \cup {None}, refCnt : Nat]
    BY DEF FileTypes
  <2>2. e \in Entries(Inums(f))
    BY <1>2 DEF Entries
  <2>3. block \in [ftype : FileTypes, dirList : SUBSET Entries(Inums(f))]
    BY <1>1, <1>3, <2>2 DEF Contents
  <2> QED
    BY <1>1, <1>2, <1>3, <2>1, <2>3 DEF Nodes, Contents
<1>6. files \in Seq(Paths) /\ names \in NameTables(f)
  BY <1>1, <1>2, <1>4, Fields, AppendProperties, RenamedTyped
<1>7. g = FS(ib, nodes, f.dbitmap, data, files, f.dirs, names, f.requests, f.phase)
  BY <1>1, <1>3 DEF Contents, WithFile
<1>8. /\ nodes[inum].ftype = "f" /\ nodes[inum].addr = None /\ nodes[inum].refCnt = 1
      /\ \A i \in Inums(f) : i # inum => nodes[i] = f.inodes[i]
  BY <1>1, <1>2 DEF Nodes
<1>9. /\ data[b0].ftype = "d" /\ data[b0].dirList = f.data[b0].dirList \cup {e}
      /\ \A b \in Blocks(f) : b # b0 => data[b] = f.data[b]
  BY <1>1, <1>3 DEF Contents
<1>10. ib = f.ibitmap \cup {inum} /\ files = Append(f.files, path) /\ names = Renamed(f, path, inum)
  OBVIOUS
<1> HIDE DEF b0, path, node, block, ib, nodes, data, files, names, g
<1>11. /\ Typed(g) /\ Inums(g) = Inums(f) /\ Blocks(g) = Blocks(f)
       /\ g.ibitmap = ib /\ g.inodes = nodes /\ g.dbitmap = f.dbitmap /\ g.data = data
       /\ g.files = files /\ g.dirs = f.dirs /\ g.nameToInum = names
  BY <1>1, <1>5, <1>6, <1>7, Rebuilt
<1>12. Live(g) = Live(f) \cup {inum}
  BY <1>2, <1>8, <1>11 DEF Live
<1>13. Allocated(g)
  <2>1. Allocated(f)
    BY DEF Sound
  <2>2. \A i \in Live(f) : i \in Inums(f) /\ i # inum /\ g.inodes[i] = f.inodes[i]
    BY <1>2, <1>8, <1>11 DEF Live
  <2>3. \A b \in Blocks(f) : g.data[b].ftype = f.data[b].ftype
    BY <1>3, <1>9, <1>11
  <2>4. g.ibitmap = Live(g) /\ g.dbitmap = {b \in Blocks(g) : g.data[b].ftype # "free"}
    BY <1>2, <1>10, <1>11, <1>12, <2>1, <2>3 DEF Allocated
  <2>5. ASSUME NEW i \in Live(g)
        PROVE  /\ g.inodes[i].ftype = "d" => g.inodes[i].addr # None
               /\ g.inodes[i].addr # None => g.data[g.inodes[i].addr].ftype = g.inodes[i].ftype
    <3>1. CASE i = inum
      BY <1>8, <1>11, <3>1
    <3>2. CASE i \in Live(f)
      <4>1. /\ f.inodes[i].ftype = "d" => f.inodes[i].addr # None
            /\ f.inodes[i].addr # None => f.data[f.inodes[i].addr].ftype = f.inodes[i].ftype
        BY <2>1, <3>2 DEF Allocated
      <4>2. f.inodes[i].addr # None => f.inodes[i].addr \in Blocks(f)
        BY <1>1, <2>2, <3>2, TypedFields
      <4> QED
        BY <2>2, <2>3, <3>2, <4>1, <4>2
    <3> QED
      BY <1>12, <3>1, <3>2
  <2>6. ASSUME NEW i \in Live(g), NEW j \in Live(g),
               g.inodes[i].addr = g.inodes[j].addr, g.inodes[i].addr # None
        PROVE  i = j
    BY <1>8, <1>11, <1>12, <2>1, <2>2, <2>6 DEF Allocated
  <2>7. \A b \in g.dbitmap : \E i \in Live(g) : g.inodes[i].addr = b
    BY <1>11, <1>12, <2>1, <2>2 DEF Allocated
  <2> QED
    BY <2>4, <2>5, <2>6, <2>7 DEF Allocated
<1>14. EntriesSound(g)
  <2>1. None \notin Blocks(f)
    BY <1>1, NoneIsNoNumber DEF Typed
  <2>2. Enlisted(f, g, b0, name, inum, None)
    BY <1>3, <1>9, <1>11, <2>1 DEF Enlisted
  <2>3. ~EntryExists(f, b0, name)
    BY DEF b0
  <2> QED
    BY <1>3, <1>11, <1>12, <2>2, <2>3, EntriesKept DEF Sound
<1>15. Counted(g)
  <2>1. e[2] = inum
    OBVIOUS
  <2>2. e \notin f.data[b0].dirList
    BY DEF EntryExists, b0
  <2> HIDE DEF e
  <2>3. More(Blocks(f), Lists(f), Lists(g), b0, e)
    <3>1. /\ Lists(f) \in [Blocks(f) -> SUBSET Entries(Nat)]
          /\ Lists(g) \in [Blocks(f) -> SUBSET Entries(Nat)]
          /\ \A b \in Blocks(f) : Lists(f)[b] = f.data[b].dirList /\ Lists(g)[b] = data[b].dirList
      BY <1>1, <1>11, ListsOf
    <3> QED
      BY <1>3, <1>9, <2>2, <3>1 DEF More
  <2> SUFFICES ASSUME NEW i \in Inums(f)
               PROVE  /\ IsFiniteSet(Refs(Lists(g), i))
                      /\ i \in Live(g) => g.inodes[i].refCnt = Cardinality(Refs(Lists(g), i))
    BY <1>11 DEF Counted
  <2>4. /\ IsFiniteSet(Refs(Lists(f), i))
        /\ i \in Live(f) => f.inodes[i].refCnt = Cardinality(Refs(Lists(f), i))
    BY DEF Sound, Counted
  <2>5. /\ IsFiniteSet(Refs(Lists(g), i))
        /\ Cardinality(Refs(Lists(g), i)) = Cardinality(Refs(Lists(f), i)) + One(inum, i)
    BY <2>1, <2>3, <2>4, EntryAdded
  <2>6. Cardinality(Refs(Lists(f), i)) \in Nat /\ (i = inum => Cardinality(Refs(Lists(f), i)) = 0)
    BY <1>2, <2>4, FS_CardinalityType, NoRefs
  <2> QED
    BY <1>2, <1>8, <1>11, <1>12, <2>4, <2>5, <2>6 DEF One
<1>16. Remembered(g)
  <2>1. Grown(f, g)
    BY <1>2, <1>3, <1>8, <1>9, <1>11 DEF Grown, Live
  <2>2. <<name, inum>> \in g.data[BlockOf(f, parent)].dirList
    BY <1>9, <1>11 DEF b0
  <2>3. /\ g.nameToInum = Renamed(f, path, inum) /\ g.dirs = f.dirs
        /\ g.files = Append(f.files, path) /\ g.inodes[inum].ftype = "f"
    BY <1>8, <1>10, <1>11
  <2>4. path = Append(parent, name)
    BY DEF path
  <2> QED
    BY <1>4, <2>1, <2>2, <2>3, <2>4, NameAdded
<1> QED
  BY <1>11, <1>13, <1>14, <1>15, <1>16 DEF Sound, g

LEMMA DirCreated ==
    ASSUME NEW f, Sound(f), NEW parent \in f.dirs, NEW name \in Names,
           ~EntryExists(f, BlockOf(f, parent), name), NEW inum \in Inums(f) \ f.ibitmap,
           NEW x \in Blocks(f) \ f.dbitmap, NEW pinum, pinum = f.nameToInum[parent]
    PROVE  Sound(WithDir(f, parent, name, inum, pinum, x))
<1> DEFINE b0 == BlockOf(f, parent)
           path == Append(parent, name)
           e == <<name, inum>>
           node == [ftype |-> "d", addr |-> x, refCnt |-> 2]
           pnode == [f.inodes[pinum] EXCEPT !.refCnt = f.inodes[pinum].refCnt + 1]
           block == [f.data[b0] EXCEPT !.dirList = f.data[b0].dirList \cup {e}]
           ib == f.ibitmap \cup {inum}
           db == f.dbitmap \cup {x}
           nodes == [f.inodes EXCEPT ![inum] = node, ![pinum] = pnode]
           data == [f.data EXCEPT ![b0] = block, ![x] = Directory(inum, pinum)]
           dirs == f.dirs \cup {path}
           names == Renamed(f, path, inum)
           g == WithDir(f, parent, name, inum, pinum, x)
<1>1. /\ Typed(f) /\ f.inodes \in Nodes(f) /\ f.data \in Contents(f)
      /\ f.ibitmap \in SUBSET Inums(f) /\ f.dbitmap \in SUBSET Blocks(f)
      /\ f.dirs \in SUBSET Paths /\ f.requests \in Nat /\ f.phase \in {"run", "exit", "done"}
      /\ f.files \in Seq(Paths)
  BY Fields DEF Sound
<1>2. /\ inum \in Inums(f) /\ inum \notin Live(f) /\ f.ibitmap = Live(f)
      /\ pinum \in Live(f) /\ pinum \in Inums(f) /\ pinum # inum /\ f.inodes[pinum].ftype = "d"
  BY DirFacts DEF Sound, Allocated, Live
<1>3. /\ b0 \in Blocks(f) /\ f.data[b0].ftype = "d" /\ b0 \in f.dbitmap
      /\ x \in Blocks(f) /\ x # b0 /\ x \notin f.dbitmap
      /\ f.data[x].ftype = "free" /\ f.data[x].dirList = {}
  BY DirFacts, FreeIsEmpty
<1>4. path \notin Known(f) /\ path \in Paths
  BY NewName
<1>5. /\ ib \in SUBSET Inums(f) /\ nodes \in Nodes(f) /\ data \in Contents(f)
      /\ db \in SUBSET Blocks(f) /\ dirs \in SUBSET Paths
  <2>1. node \in [ftype : FileTypes, addr : Blocks(f) \cup {None}, refCnt : Nat]
    BY <1>3 DEF FileTypes
  <2>2. pnode \in [ftype : FileTypes, addr : Blocks(f) \cup {None}, refCnt : Nat]
    <3>1. f.inodes[pinum] \in [ftype : FileTypes, addr : Blocks(f) \cup {None}, refCnt : Nat]
      BY <1>1, <1>2 DEF Nodes
    <3> QED
      BY <3>1
  <2>3. e \in Entries(Inums(f))
    BY <1>2 DEF Entries
  <2>4. block \in [ftype : FileTypes, dirList : SUBSET Entries(Inums(f))]
    BY <1>1, <1>3, <2>3 DEF Contents
  <2>5. Directory(inum, pinum) \in [ftype : FileTypes, dirList : SUBSET Entries(Inums(f))]
    BY <1>2 DEF Directory, FileTypes, Entries
  <2>6. nodes \in Nodes(f)
    <3> HIDE DEF node, pnode
    <3> QED
      BY <1>1, <1>2, <2>1, <2>2 DEF Nodes
  <2>7. data \in Contents(f)
    <3> HIDE DEF block
    <3> QED
      BY <1>1, <1>3, <2>4, <2>5 DEF Contents
  <2> QED
    BY <1>1, <1>2, <1>3, <1>4, <2>6, <2>7
<1>6. names \in NameTables(f)
  BY <1>1, <1>2, <1>4, RenamedTyped
<1>7. g = FS(ib, nodes, db, data, f.files, dirs, names, f.requests, f.phase)
  BY <1>1, <1>2, <1>3 DEF Contents, Nodes, WithDir
<1>8. /\ nodes[inum].ftype = "d" /\ nodes[inum].addr = x /\ nodes[inum].refCnt = 2
      /\ nodes[pinum].ftype = "d" /\ nodes[pinum].addr = f.inodes[pinum].addr
      /\ nodes[pinum].refCnt = f.inodes[pinum].refCnt + 1
      /\ \A i \in Inums(f) : i # inum /\ i # pinum => nodes[i] = f.inodes[i]
  BY <1>1, <1>2 DEF Nodes
<1>9. /\ data[b0].ftype = "d" /\ data[b0].dirList = f.data[b0].dirList \cup {e}
      /\ data[x].ftype = "d" /\ data[x].dirList = {<<".", inum>>, <<"..", pinum>>}
      /\ \A b \in Blocks(f) : b # b0 /\ b # x => data[b] = f.data[b]
  BY <1>1, <1>3 DEF Contents, Directory
<1>10. /\ ib = f.ibitmap \cup {inum} /\ db = f.dbitmap \cup {x} /\ dirs = f.dirs \cup {path}
       /\ names = Renamed(f, path, inum)
  OBVIOUS
<1> HIDE DEF b0, path, node, pnode, block, ib, db, nodes, data, dirs, names, g
<1>11. /\ Typed(g) /\ Inums(g) = Inums(f) /\ Blocks(g) = Blocks(f)
       /\ g.ibitmap = ib /\ g.inodes = nodes /\ g.dbitmap = db /\ g.data = data
       /\ g.files = f.files /\ g.dirs = dirs /\ g.nameToInum = names
  BY <1>1, <1>5, <1>6, <1>7, Rebuilt
<1>12. Live(g) = Live(f) \cup {inum}
  BY <1>2, <1>8, <1>11 DEF Live
<1>13. Allocated(g)
  <2>1. Allocated(f)
    BY DEF Sound
  <2>2. \A i \in Live(f) : /\ i \in Inums(f) /\ i # inum
                           /\ g.inodes[i].ftype = f.inodes[i].ftype
                           /\ g.inodes[i].addr = f.inodes[i].addr
    BY <1>2, <1>8, <1>11 DEF Live
  <2>3. \A b \in Blocks(f) : b # x => g.data[b].ftype = f.data[b].ftype
    BY <1>3, <1>9, <1>11
  <2>4. g.ibitmap = Live(g) /\ g.dbitmap = {b \in Blocks(g) : g.data[b].ftype # "free"}
    <3>1. f.dbitmap = {b \in Blocks(f) : f.data[b].ftype # "free"}
      BY <2>1 DEF Allocated
    <3> QED
      BY <1>2, <1>3, <1>9, <1>10, <1>11, <1>12, <2>3, <3>1
  <2>5. \A i \in Live(f) : f.inodes[i].addr # None =>
          f.inodes[i].addr \in Blocks(f) /\ f.inodes[i].addr # x
    <3> SUFFICES ASSUME NEW i \in Live(f), f.inodes[i].addr # None
                 PROVE  f.inodes[i].addr \in Blocks(f) /\ f.inodes[i].addr # x
      OBVIOUS
    <3>1. f.data[f.inodes[i].addr].ftype = f.inodes[i].ftype /\ f.inodes[i].ftype # "free"
      BY <2>1 DEF Allocated, Live
    <3> QED
      BY <1>1, <1>3, <2>2, <3>1, TypedFields
  <2>6. x # None
    BY <1>1, <1>3, NoneIsNoNumber DEF Typed
  <2>7. ASSUME NEW i \in Live(g)
        PROVE  /\ g.inodes[i].ftype = "d" => g.inodes[i].addr # None
               /\ g.inodes[i].addr # None => g.data[g.inodes[i].addr].ftype = g.inodes[i].ftype
    <3>1. CASE i = inum
      BY <1>8, <1>9, <1>11, <2>6, <3>1
    <3>2. CASE i \in Live(f)
      <4>1. /\ f.inodes[i].ftype = "d" => f.inodes[i].addr # None
            /\ f.inodes[i].addr # None => f.data[f.inodes[i].addr].ftype = f.inodes[i].ftype
        BY <2>1, <3>2 DEF Allocated
      <4> QED
        BY <2>2, <2>3, <2>5, <3>2, <4>1
    <3> QED
      BY <1>12, <3>1, <3>2
  <2>8. ASSUME NEW i \in Live(g), NEW j \in Live(g),
               g.inodes[i].addr = g.inodes[j].addr, g.inodes[i].addr # None
        PROVE  i = j
    <3>1. CASE i \in Live(f) /\ j \in Live(f)
      BY <2>1, <2>2, <2>8, <3>1 DEF Allocated
    <3>2. CASE i = inum /\ j \in Live(f)
      BY <1>8, <1>11, <2>2, <2>5, <2>8, <3>2
    <3>3. CASE j = inum /\ i \in Live(f)
      BY <1>8, <1>11, <2>2, <2>5, <2>8, <3>3
    <3> QED
      BY <1>12, <3>1, <3>2, <3>3
  <2>9. ASSUME NEW b \in g.dbitmap PROVE \E i \in Live(g) : g.inodes[i].addr = b
    <3>1. CASE b = x
      BY <1>8, <1>11, <1>12, <3>1
    <3>2. CASE b \in f.dbitmap
      <4>1. PICK i \in Live(f) : f.inodes[i].addr = b
        BY <2>1, <3>2 DEF Allocated
      <4> QED
        BY <1>12, <2>2, <4>1
    <3> QED
      BY <1>10, <1>11, <3>1, <3>2
  <2> QED
    BY <2>4, <2>7, <2>8, <2>9 DEF Allocated
<1>14. EntriesSound(g)
  <2>1. Enlisted(f, g, b0, name, inum, x)
    <3>1. inum \in Live(g) /\ pinum \in Live(g)
      BY <1>2, <1>12
    <3> QED
      BY <1>3, <1>9, <1>11, <3>1 DEF Enlisted
  <2>2. ~EntryExists(f, b0, name)
    BY DEF b0
  <2> QED
    BY <1>3, <1>11, <1>12, <2>1, <2>2, EntriesKept DEF Sound
<1>15. Counted(g)
  <2>1. e[2] = inum
    OBVIOUS
  <2>2. e \notin f.data[b0].dirList
    BY DEF EntryExists, b0
  <2>3. e \in Entries(Nat)
    BY <1>1, <1>2 DEF Entries, Typed
  <2> HIDE DEF e
  <2> DEFINE K == [b \in Blocks(f) |-> IF b = b0 THEN f.data[b].dirList \cup {e}
                                       ELSE f.data[b].dirList]
  <2>4. /\ Lists(f) \in [Blocks(f) -> SUBSET Entries(Nat)]
        /\ Lists(g) \in [Blocks(f) -> SUBSET Entries(Nat)]
        /\ \A b \in Blocks(f) : Lists(f)[b] = f.data[b].dirList /\ Lists(g)[b] = data[b].dirList
    BY <1>1, <1>11, ListsOf
  <2>5. /\ K \in [Blocks(f) -> SUBSET Entries(Nat)]
        /\ \A b \in Blocks(f) : K[b] = IF b = b0 THEN Lists(f)[b] \cup {e} ELSE Lists(f)[b]
    <3>1. \A b \in Blocks(f) : f.data[b].dirList \subseteq Entries(Nat)
      BY <2>4
    <3> QED
      BY <2>3, <2>4, <3>1
  <2> HIDE DEF K
  <2>6. More(Blocks(f), Lists(f), K, b0, e)
    BY <1>3, <2>2, <2>4, <2>5 DEF More
  <2>7. Made(Blocks(f), K, Lists(g), x, inum, pinum)
    <3>1. K[x] = {}
      BY <1>3, <2>4, <2>5
    <3>2. \A b \in Blocks(f) : Lists(g)[b] = IF b = x THEN {<<".", inum>>, <<"..", pinum>>} ELSE K[b]
      BY <1>9, <2>4, <2>5, ZenonT(30)
    <3>3. inum \in Nat /\ pinum \in Nat
      BY <1>1, <1>2 DEF Typed
    <3> QED
      BY <1>3, <2>4, <2>5, <3>1, <3>2, <3>3 DEF Made
  <2> SUFFICES ASSUME NEW i \in Inums(f)
               PROVE  /\ IsFiniteSet(Refs(Lists(g), i))
                      /\ i \in Live(g) => g.inodes[i].refCnt = Cardinality(Refs(Lists(g), i))
    BY <1>11 DEF Counted
  <2>8. /\ IsFiniteSet(Refs(Lists(f), i))
        /\ i \in Live(f) => f.inodes[i].refCnt = Cardinality(Refs(Lists(f), i))
    BY DEF Sound, Counted
  <2>9. /\ IsFiniteSet(Refs(K, i))
        /\ Cardinality(Refs(K, i)) = Cardinality(Refs(Lists(f), i)) + One(inum, i)
    BY <2>1, <2>6, <2>8, EntryAdded
  <2>10. /\ IsFiniteSet(Refs(Lists(g), i))
         /\ Cardinality(Refs(Lists(g), i)) = Cardinality(Refs(K, i)) + One(inum, i) + One(pinum, i)
    BY <2>7, <2>9, DirectoryAdded
  <2>11. Cardinality(Refs(Lists(f), i)) \in Nat /\ (i = inum => Cardinality(Refs(Lists(f), i)) = 0)
    BY <1>2, <2>8, FS_CardinalityType, NoRefs
  <2>12. CASE i = inum
    <3>1. One(inum, i) = 1 /\ One(pinum, i) = 0
      BY <1>2, <2>12 DEF One
    <3> QED
      BY <1>8, <1>11, <2>9, <2>10, <2>11, <2>12, <3>1
  <2>13. CASE i = pinum
    <3>1. One(inum, i) = 0 /\ One(pinum, i) = 1
      BY <1>2, <2>13 DEF One
    <3> QED
      BY <1>2, <1>8, <1>11, <2>8, <2>9, <2>10, <2>11, <2>13, <3>1
  <2>14. CASE i # inum /\ i # pinum
    <3>1. One(inum, i) = 0 /\ One(pinum, i) = 0
      BY <2>14 DEF One
    <3> QED
      BY <1>8, <1>11, <1>12, <2>8, <2>9, <2>10, <2>11, <2>14, <3>1
  <2> QED
    BY <2>12, <2>13, <2>14
<1>16. Remembered(g)
  <2>1. Grown(f, g)
    BY <1>2, <1>3, <1>8, <1>9, <1>11 DEF Grown, Live
  <2>2. <<name, inum>> \in g.data[BlockOf(f, parent)].dirList
    BY <1>9, <1>11 DEF b0
  <2>3. /\ g.nameToInum = Renamed(f, path, inum) /\ g.dirs = f.dirs \cup {path}
        /\ g.files = f.files /\ g.inodes[inum].ftype = "d" /\ inum \notin Live(f)
    BY <1>2, <1>8, <1>10, <1>11
  <2>4. path = Append(parent, name)
    BY DEF path
  <2> QED
    BY <1>4, <2>1, <2>2, <2>3, <2>4, NameAdded
<1> QED
  BY <1>11, <1>13, <1>14, <1>15, <1>16 DEF Sound, g
LEMMA CountedSame ==
    ASSUME NEW f, Typed(f), Counted(f), NEW g, Typed(g),
           Inums(g) = Inums(f), Blocks(g) = Blocks(f), Live(g) = Live(f),
           \A b \in Blocks(f) : g.data[b].dirList = f.data[b].dirList,
           \A i \in Live(f) : g.inodes[i].refCnt = f.inodes[i].refCnt
    PROVE  Counted(g)
<1>1. \A b \in Blocks(f) : Lists(g)[b] = Lists(f)[b]
  BY ListsOf
<1>2. Lists(g) = Lists(f)
  <2>1. /\ Lists(f) \in [Blocks(f) -> SUBSET Entries(Nat)]
        /\ Lists(g) \in [Blocks(f) -> SUBSET Entries(Nat)]
    BY ListsOf
  <2> QED
    BY <1>1, <2>1
<1> QED
  BY <1>2 DEF Counted

(* Updates of an image, field by field. *)
Whole(f) ==
    f = FS(f.ibitmap, f.inodes, f.dbitmap, f.data, f.files, f.dirs, f.nameToInum,
           f.requests, f.phase)

LEMMA InodeFreed ==
    ASSUME NEW f, Whole(f), NEW x
    PROVE  inodeFree(f, x) =
             FS(f.ibitmap \ {x}, [f.inodes EXCEPT ![x].ftype = "free", ![x].addr = None],
                f.dbitmap, f.data, f.files, f.dirs, f.nameToInum, f.requests, f.phase)
<1> DEFINE n == [f.inodes EXCEPT ![x].ftype = "free", ![x].addr = None]
           ib == f.ibitmap \ {x}
           y == [f EXCEPT !.ibitmap = ib]
<1>1. inodeFree(f, x) = [f EXCEPT !.ibitmap = ib, !.inodes = n]
  BY DEF inodeFree
<1> HIDE DEF n, ib
<1>2. [f EXCEPT !.ibitmap = ib, !.inodes = n] = [y EXCEPT !.inodes = n]
  OBVIOUS
<1>3. y = FS(ib, f.inodes, f.dbitmap, f.data, f.files, f.dirs, f.nameToInum, f.requests, f.phase)
  BY DEF FS, Whole
<1> HIDE DEF y
<1>4. [y EXCEPT !.inodes = n] = FS(ib, n, f.dbitmap, f.data, f.files, f.dirs, f.nameToInum,
                                   f.requests, f.phase)
  BY <1>3 DEF FS
<1> QED
  BY <1>1, <1>2, <1>4 DEF n, ib

(* A directory that got an inode and no block leaves a sound image. *)
LEMMA InodeReturned ==
    ASSUME NEW f, Sound(f), NEW inum \in Inums(f) \ f.ibitmap
    PROVE  Sound(inodeFree([f EXCEPT !.ibitmap = @ \cup {inum}], inum))
<1> DEFINE g == inodeFree([f EXCEPT !.ibitmap = @ \cup {inum}], inum)
           node == [f.inodes[inum] EXCEPT !.ftype = "free", !.addr = None]
           nodes == [f.inodes EXCEPT ![inum] = node]
           ib == (f.ibitmap \cup {inum}) \ {inum}
<1>1. /\ Typed(f) /\ f.inodes \in Nodes(f) /\ f.data \in Contents(f)
      /\ f.ibitmap \in SUBSET Inums(f) /\ f.dbitmap \in SUBSET Blocks(f)
      /\ f.dirs \in SUBSET Paths /\ f.requests \in Nat /\ f.phase \in {"run", "exit", "done"}
      /\ f.files \in Seq(Paths) /\ f.nameToInum \in NameTables(f)
      /\ f = FS(f.ibitmap, f.inodes, f.dbitmap, f.data, f.files, f.dirs, f.nameToInum,
                f.requests, f.phase)
  BY Fields DEF Sound
<1>2. inum \in Inums(f) /\ inum \notin Live(f) /\ f.ibitmap = Live(f)
  BY DEF Sound, Allocated
<1>3. f.inodes[inum] \in [ftype : FileTypes, addr : Blocks(f) \cup {None}, refCnt : Nat]
  BY <1>1, <1>2 DEF Nodes
<1>4. g = FS(ib, nodes, f.dbitmap, f.data, f.files, f.dirs, f.nameToInum, f.requests, f.phase)
  <2> DEFINE given == [f EXCEPT !.ibitmap = @ \cup {inum}]
             freed == [f.inodes EXCEPT ![inum].ftype = "free", ![inum].addr = None]
  <2>0. f = FS(f.ibitmap, f.inodes, f.dbitmap, f.data, f.files, f.dirs, f.nameToInum,
               f.requests, f.phase)
    BY <1>1
  <2>1. given = FS(f.ibitmap \cup {inum}, f.inodes, f.dbitmap, f.data, f.files, f.dirs,
                   f.nameToInum, f.requests, f.phase)
    BY <2>0 DEF FS
  <2> HIDE DEF given
  <2>2. inodeFree(given, inum) = FS(ib, freed, f.dbitmap, f.data, f.files, f.dirs,
                                    f.nameToInum, f.requests, f.phase)
    <3>1. /\ Whole(given) /\ given.ibitmap = f.ibitmap \cup {inum} /\ given.inodes = f.inodes
          /\ given.dbitmap = f.dbitmap /\ given.data = f.data /\ given.files = f.files
          /\ given.dirs = f.dirs /\ given.nameToInum = f.nameToInum
          /\ given.requests = f.requests /\ given.phase = f.phase
      BY <2>1 DEF FS, Whole
    <3> QED
      BY <3>1, InodeFreed
  <2>3. freed = nodes
    BY <1>1, <1>2, <1>3 DEF Nodes
  <2> QED
    BY <2>2, <2>3 DEF given
<1>5. nodes \in Nodes(f) /\ ib \in SUBSET Inums(f) /\ ib = f.ibitmap
  <2>1. node \in [ftype : FileTypes, addr : Blocks(f) \cup {None}, refCnt : Nat]
    BY <1>3 DEF FileTypes
  <2> HIDE DEF node
  <2> QED
    BY <1>1, <1>2, <2>1 DEF Nodes
<1>6. nodes[inum].ftype = "free" /\ \A i \in Inums(f) : i # inum => nodes[i] = f.inodes[i]
  BY <1>1, <1>2, <1>3 DEF Nodes
<1> HIDE DEF g, node, nodes, ib
<1>7. /\ Typed(g) /\ Inums(g) = Inums(f) /\ Blocks(g) = Blocks(f)
      /\ g.ibitmap = ib /\ g.inodes = nodes /\ g.dbitmap = f.dbitmap /\ g.data = f.data
      /\ g.files = f.files /\ g.dirs = f.dirs /\ g.nameToInum = f.nameToInum
  BY <1>1, <1>4, <1>5, Rebuilt
<1>8. f.inodes[inum].ftype = "free"
  BY <1>2 DEF Live
<1>9. Live(g) = Live(f) /\ \A i \in Live(f) : i \in Inums(f) /\ g.inodes[i] = f.inodes[i]
  BY <1>2, <1>6, <1>7, <1>8 DEF Live
<1>10. \A i \in Inums(f) : g.inodes[i].ftype = f.inodes[i].ftype
  BY <1>6, <1>7, <1>8
<1>11. Allocated(g)
  BY <1>1, <1>5, <1>7, <1>9, <1>10, AllocatedSame DEF Sound
<1>12. EntriesSound(g)
  BY <1>7, <1>9 DEF Sound, EntriesSound
<1>13. Counted(g)
  BY <1>7, <1>9, CountedSame DEF Sound
<1>14. Remembered(g)
  <2>1. Grown(f, g)
    BY <1>7, <1>9 DEF Grown
  <2> QED
    BY <1>7, <2>1, NamesKept
<1> QED
  BY <1>7, <1>11, <1>12, <1>13, <1>14 DEF Sound, g

LEMMA CreateSound ==
    ASSUME NEW f, Sound(f), NEW parent \in f.dirs, NEW name \in Names, NEW ftype \in {"f", "d"},
           NEW inum \in {None} \cup (Inums(f) \ f.ibitmap),
           NEW fblock \in {None} \cup (Blocks(f) \ f.dbitmap)
    PROVE  Sound(createFile(f, parent, name, ftype, inum, fblock).fs)
<1> DEFINE pinum == f.nameToInum[parent]
           b0 == f.inodes[pinum].addr
           new == createFile(f, parent, name, ftype, inum, fblock).fs
           refused == ~HasRoom(f, b0) \/ EntryExists(f, b0, name) \/ inum = None
<1>1. CASE refused
  BY <1>1 DEF createFile, Fails
<1>2. CASE ~refused
  <2>1. inum \in Inums(f) \ f.ibitmap /\ ~EntryExists(f, BlockOf(f, parent), name)
    BY <1>2 DEF BlockOf
  <2>2. /\ Typed(f) /\ f.inodes \in Nodes(f) /\ f.data \in Contents(f)
        /\ f = FS(f.ibitmap, f.inodes, f.dbitmap, f.data, f.files, f.dirs, f.nameToInum,
                  f.requests, f.phase)
    BY Fields DEF Sound
  <2>3. CASE ftype = "d" /\ fblock = None
    <3>1. new = inodeFree([f EXCEPT !.ibitmap = @ \cup {inum}], inum)
      BY <1>2, <2>3 DEF createFile, Fails
    <3> QED
      BY <2>1, <3>1, InodeReturned
  <2>4. CASE ftype = "d" /\ fblock # None
    <3>1. new = WithDir(f, parent, name, inum, pinum, fblock)
      <4> DEFINE path == Append(parent, name)
                 ib == f.ibitmap \cup {inum}
                 names == Renamed(f, path, inum)
                 data == [f.data EXCEPT ![b0].dirList = @ \cup {<<name, inum>>}]
                 nodes == [f.inodes EXCEPT ![inum] = [ftype |-> "d", addr |-> fblock, refCnt |-> 2],
                                           ![pinum].refCnt = @ + 1]
                 given == [f EXCEPT !.ibitmap = @ \cup {inum}]
                 listed == [given EXCEPT !.data[b0].dirList = @ \cup {<<name, inum>>},
                                         !.nameToInum = names]
                 made == [listed EXCEPT
                            !.dbitmap = @ \cup {fblock},
                            !.data[fblock] = Directory(inum, pinum),
                            !.inodes = nodes,
                            !.dirs = @ \cup {path}]
      <4>1. new = made
        BY <1>2, <2>4 DEF createFile, Succeeds
      <4>2. given = FS(ib, f.inodes, f.dbitmap, f.data, f.files, f.dirs, f.nameToInum,
                       f.requests, f.phase)
        BY <2>2 DEF FS
      <4> HIDE DEF given
      <4>3. listed = FS(ib, f.inodes, f.dbitmap, data, f.files, f.dirs, names,
                        f.requests, f.phase)
        <5> DEFINE y == [given EXCEPT !.data = data]
        <5>1. given.data = f.data
          BY <4>2 DEF FS
        <5>2. listed = [given EXCEPT !.data = data, !.nameToInum = names]
          BY <5>1
        <5> HIDE DEF data, names
        <5>3. listed = [y EXCEPT !.nameToInum = names]
          BY <5>2
        <5>4. y = FS(ib, f.inodes, f.dbitmap, data, f.files, f.dirs, f.nameToInum,
                     f.requests, f.phase)
          BY <4>2 DEF FS
        <5> HIDE DEF y
        <5> QED
          BY <5>3, <5>4 DEF FS
      <4> DEFINE moved == [data EXCEPT ![fblock] = Directory(inum, pinum)]
                 db == f.dbitmap \cup {fblock}
                 dirs == f.dirs \cup {path}
      <4> HIDE DEF listed, names, path, ib, pinum, b0, data, nodes
      <4>4. made = FS(ib, nodes, db, moved, f.files, dirs, names, f.requests, f.phase)
        <5>1. listed.data = data /\ listed.dbitmap = f.dbitmap /\ listed.dirs = f.dirs
          BY <4>3 DEF FS
        <5>2. made = [listed EXCEPT !.dbitmap = db, !.data = moved, !.inodes = nodes,
                                    !.dirs = dirs]
          BY <5>1
        <5> DEFINE y1 == [listed EXCEPT !.dbitmap = db]
                   y2 == [y1 EXCEPT !.data = moved]
                   y3 == [y2 EXCEPT !.inodes = nodes]
        <5> HIDE DEF moved, db, dirs, made
        <5>3. made = [y3 EXCEPT !.dirs = dirs]
          BY <5>2
        <5>4. y1 = FS(ib, f.inodes, db, data, f.files, f.dirs, names, f.requests, f.phase)
          BY <4>3 DEF FS
        <5> HIDE DEF y1
        <5>5. y2 = FS(ib, f.inodes, db, moved, f.files, f.dirs, names, f.requests, f.phase)
          BY <5>4 DEF FS
        <5> HIDE DEF y2
        <5>6. y3 = FS(ib, nodes, db, moved, f.files, f.dirs, names, f.requests, f.phase)
          BY <5>5 DEF FS
        <5> HIDE DEF y3
        <5> QED
          BY <5>3, <5>6 DEF FS
      <4>5. moved = [f.data EXCEPT ![b0].dirList = @ \cup {<<name, inum>>},
                                   ![fblock] = Directory(inum, pinum)]
        BY DEF data
      <4> HIDE DEF made, moved
      <4> QED
        BY <4>1, <4>4, <4>5 DEF WithDir, BlockOf, names, path, ib, pinum, b0, nodes
    <3> QED
      BY <2>1, <2>4, <3>1, DirCreated
  <2>5. CASE ftype = "f"
    <3>1. new = WithFile(f, parent, name, inum)
      BY <1>2, <2>2, <2>5 DEF createFile, Succeeds, WithFile, BlockOf, FS
    <3> QED
      BY <2>1, <3>1, FileCreated
  <2> QED
    BY <2>3, <2>4, <2>5
<1> QED
  BY <1>1, <1>2
LEMMA WriteSound ==
    ASSUME NEW f, Sound(f), NEW tfile \in ToSet(f.files),
           NEW fblock \in {None} \cup (Blocks(f) \ f.dbitmap)
    PROVE  Sound(writeFile(f, tfile, fblock).fs)
<1> DEFINE t == f.nameToInum[tfile]
           g == writeFile(f, tfile, fblock).fs
           node == [f.inodes[t] EXCEPT !.addr = fblock]
           block == [ftype |-> "f", dirList |-> {}]
           nodes == [f.inodes EXCEPT ![t] = node]
           db == f.dbitmap \cup {fblock}
           data == [f.data EXCEPT ![fblock] = block]
<1>1. CASE f.inodes[t].addr # None \/ fblock = None
  BY <1>1 DEF writeFile, Fails
<1>2. CASE f.inodes[t].addr = None /\ fblock # None
  <2>1. /\ Typed(f) /\ f.inodes \in Nodes(f) /\ f.data \in Contents(f)
        /\ f.ibitmap \in SUBSET Inums(f) /\ f.dbitmap \in SUBSET Blocks(f)
        /\ f.dirs \in SUBSET Paths /\ f.requests \in Nat /\ f.phase \in {"run", "exit", "done"}
        /\ f.files \in Seq(Paths) /\ f.nameToInum \in NameTables(f)
    BY Fields DEF Sound
  <2>2. f = FS(f.ibitmap, f.inodes, f.dbitmap, f.data, f.files, f.dirs, f.nameToInum,
               f.requests, f.phase)
    BY Fields DEF Sound
  <2>3. /\ t \in Live(f) /\ t \in Inums(f) /\ f.inodes[t].ftype = "f"
        /\ fblock \in Blocks(f) /\ fblock \notin f.dbitmap
        /\ f.data[fblock].ftype = "free" /\ f.data[fblock].dirList = {}
    <3>1. fblock \in Blocks(f) \ f.dbitmap
      BY <1>2
    <3>2. t \in Live(f) /\ f.inodes[t].ftype = "f"
      BY FileFacts
    <3> QED
      BY <3>1, <3>2, FreeIsEmpty DEF Live
  <2>4. g = FS(f.ibitmap, nodes, db, data, f.files, f.dirs, f.nameToInum, f.requests, f.phase)
    <3>1. nodes = [f.inodes EXCEPT ![t].addr = fblock] /\ block = [FreeBlock EXCEPT !.ftype = "f"]
      <4>1. nodes = [f.inodes EXCEPT ![t].addr = fblock]
        BY <2>1, <2>3 DEF Nodes
      <4>2. block = [FreeBlock EXCEPT !.ftype = "f"]
        BY DEF FreeBlock
      <4> QED
        BY <4>1, <4>2
    <3>2. g = [f EXCEPT !.dbitmap = db, !.data = data, !.inodes = nodes]
      BY <1>2, <3>1 DEF writeFile, Succeeds
    <3> DEFINE y1 == [f EXCEPT !.dbitmap = db]
               y2 == [y1 EXCEPT !.data = data]
    <3> HIDE DEF nodes, data, db, g
    <3>3. g = [y2 EXCEPT !.inodes = nodes]
      BY <3>2
    <3>4. y1 = FS(f.ibitmap, f.inodes, db, f.data, f.files, f.dirs, f.nameToInum,
                  f.requests, f.phase)
      BY <2>2 DEF FS
    <3> HIDE DEF y1
    <3>5. y2 = FS(f.ibitmap, f.inodes, db, data, f.files, f.dirs, f.nameToInum,
                  f.requests, f.phase)
      BY <3>4 DEF FS
    <3> HIDE DEF y2
    <3> QED
      BY <3>3, <3>5 DEF FS
  <2>5. nodes \in Nodes(f) /\ db \in SUBSET Blocks(f) /\ data \in Contents(f)
    <3>1. node \in [ftype : FileTypes, addr : Blocks(f) \cup {None}, refCnt : Nat]
      BY <2>1, <2>3 DEF Nodes
    <3>2. block \in [ftype : FileTypes, dirList : SUBSET Entries(Inums(f))]
      BY DEF FileTypes
    <3> HIDE DEF node, block
    <3> QED
      BY <2>1, <2>3, <3>1, <3>2 DEF Nodes, Contents
  <2>6. /\ nodes[t].ftype = "f" /\ nodes[t].addr = fblock /\ nodes[t].refCnt = f.inodes[t].refCnt
        /\ \A i \in Inums(f) : i # t => nodes[i] = f.inodes[i]
    BY <2>1, <2>3 DEF Nodes
  <2>7. /\ data[fblock].ftype = "f" /\ data[fblock].dirList = {}
        /\ \A b \in Blocks(f) : b # fblock => data[b] = f.data[b]
    BY <2>1, <2>3 DEF Contents
  <2>8. db = f.dbitmap \cup {fblock}
    OBVIOUS
  <2> HIDE DEF t, g, node, block, nodes, db, data
  <2>9. /\ Typed(g) /\ Inums(g) = Inums(f) /\ Blocks(g) = Blocks(f)
        /\ g.ibitmap = f.ibitmap /\ g.inodes = nodes /\ g.dbitmap = db /\ g.data = data
        /\ g.files = f.files /\ g.dirs = f.dirs /\ g.nameToInum = f.nameToInum
    BY <2>1, <2>4, <2>5, Rebuilt
  <2>10. /\ Live(g) = Live(f)
         /\ \A i \in Live(f) : /\ i \in Inums(f) /\ g.inodes[i].ftype = f.inodes[i].ftype
                               /\ g.inodes[i].refCnt = f.inodes[i].refCnt
                               /\ i # t => g.inodes[i].addr = f.inodes[i].addr
    BY <2>3, <2>6, <2>9 DEF Live
  <2>11. /\ \A b \in Blocks(f) : g.data[b].dirList = f.data[b].dirList
         /\ \A b \in Blocks(f) : b # fblock => g.data[b].ftype = f.data[b].ftype
    BY <2>3, <2>7, <2>9
  <2>12. Allocated(g)
    <3>1. Allocated(f)
      BY DEF Sound
    <3>2. g.ibitmap = Live(g) /\ g.dbitmap = {b \in Blocks(g) : g.data[b].ftype # "free"}
      BY <2>3, <2>7, <2>8, <2>9, <2>10, <2>11, <3>1 DEF Allocated
    <3>3. \A i \in Live(f) : f.inodes[i].addr # None =>
            f.inodes[i].addr \in Blocks(f) /\ f.inodes[i].addr # fblock
      <4> SUFFICES ASSUME NEW i \in Live(f), f.inodes[i].addr # None
                   PROVE  f.inodes[i].addr \in Blocks(f) /\ f.inodes[i].addr # fblock
        OBVIOUS
      <4>1. f.data[f.inodes[i].addr].ftype = f.inodes[i].ftype /\ f.inodes[i].ftype # "free"
        BY <3>1 DEF Allocated, Live
      <4> QED
        BY <2>1, <2>3, <2>10, <4>1, TypedFields
    <3>4. ASSUME NEW i \in Live(f)
          PROVE  /\ g.inodes[i].ftype = "d" => g.inodes[i].addr # None
                 /\ g.inodes[i].addr # None => g.data[g.inodes[i].addr].ftype = g.inodes[i].ftype
      <4>1. CASE i = t
        BY <1>2, <2>6, <2>7, <2>9, <4>1
      <4>2. CASE i # t
        <5>1. /\ f.inodes[i].ftype = "d" => f.inodes[i].addr # None
              /\ f.inodes[i].addr # None => f.data[f.inodes[i].addr].ftype = f.inodes[i].ftype
          BY <3>1 DEF Allocated
        <5> QED
          BY <2>10, <2>11, <3>3, <4>2, <5>1
      <4> QED
        BY <4>1, <4>2
    <3>5. ASSUME NEW i \in Live(f), NEW j \in Live(f),
                 g.inodes[i].addr = g.inodes[j].addr, g.inodes[i].addr # None
          PROVE  i = j
      <4>1. g.inodes[t].addr = fblock
        BY <2>6, <2>9
      <4>2. CASE i # t /\ j # t
        BY <2>10, <3>1, <3>5, <4>2 DEF Allocated
      <4> QED
        BY <2>10, <3>3, <3>5, <4>1, <4>2
    <3>6. ASSUME NEW b \in g.dbitmap PROVE \E i \in Live(f) : g.inodes[i].addr = b
      <4>1. CASE b = fblock
        BY <2>3, <2>6, <2>9, <4>1
      <4>2. CASE b \in f.dbitmap
        <5>1. PICK i \in Live(f) : f.inodes[i].addr = b
          BY <3>1, <4>2 DEF Allocated
        <5>2. b # None
          BY <2>1, <4>2, NoneIsNoNumber DEF Typed
        <5>3. i # t
          BY <1>2, <5>1, <5>2 DEF t
        <5> QED
          BY <2>10, <5>1, <5>3
      <4> QED
        BY <2>8, <2>9, <4>1, <4>2
    <3> QED
      BY <2>10, <3>2, <3>4, <3>5, <3>6 DEF Allocated
  <2>13. EntriesSound(g)
    <3> SUFFICES ASSUME NEW b \in Blocks(f), NEW d \in f.data[b].dirList
                 PROVE  /\ g.data[b].ftype = "d" /\ d[2] \in Live(f)
                        /\ \A e \in f.data[b].dirList : d[1] = e[1] => d = e
      BY <2>9, <2>10, <2>11 DEF EntriesSound
    <3>1. b # fblock
      BY <2>3
    <3> QED
      BY <2>11, <3>1 DEF Sound, EntriesSound
  <2>14. Counted(g)
    BY <2>9, <2>10, <2>11, CountedSame DEF Sound
  <2>15. Remembered(g)
    <3>1. ASSUME NEW i \in Live(f), f.inodes[i].ftype = "d" PROVE g.inodes[i].addr = f.inodes[i].addr
      BY <2>3, <2>10, <3>1
    <3>2. Grown(f, g)
      BY <2>9, <2>10, <2>11, <3>1 DEF Grown
    <3> QED
      BY <2>9, <3>2, NamesKept
  <2> QED
    BY <2>9, <2>12, <2>13, <2>14, <2>15 DEF Sound, g
<1> QED
  BY <1>1, <1>2
-----------------------------------------------------------------------------
(* A name less, for whatever becomes of its inode. *)
Unlisted(f, g, tfile) ==
    /\ Typed(g) /\ Inums(g) = Inums(f) /\ Blocks(g) = Blocks(f)
    /\ g.dirs = f.dirs /\ g.nameToInum = f.nameToInum /\ g.files = RemoveFirst(f.files, tfile)
    /\ \A i \in Inums(f) : i # f.nameToInum[tfile] => g.inodes[i] = f.inodes[i]
    /\ \A b \in Blocks(f) :
         g.data[b].dirList = IF b = BlockOf(f, Front(tfile))
                             THEN f.data[b].dirList \ {<<Last(tfile), f.nameToInum[tfile]>>}
                             ELSE f.data[b].dirList

(* The inode t keeps its other names, or is released with its block. *)
Kept(f, g, t) ==
    /\ g.ibitmap = f.ibitmap /\ g.dbitmap = f.dbitmap
    /\ g.inodes[t].ftype = f.inodes[t].ftype /\ g.inodes[t].addr = f.inodes[t].addr
    /\ g.inodes[t].refCnt = f.inodes[t].refCnt - 1
    /\ \A b \in Blocks(f) : g.data[b].ftype = f.data[b].ftype

Released(f, g, t) ==
    /\ f.inodes[t].refCnt = 1
    /\ g.ibitmap = f.ibitmap \ {t} /\ g.inodes[t].ftype = "free"
    /\ g.dbitmap = f.dbitmap \ {f.inodes[t].addr}
    /\ \A b \in Blocks(f) : g.data[b].ftype = IF b = f.inodes[t].addr THEN "free"
                                              ELSE f.data[b].ftype

LEMMA UnlistedRefs ==
    ASSUME NEW f, Sound(f), NEW tfile \in ToSet(f.files), NEW g, Unlisted(f, g, tfile),
           NEW i \in Inums(f)
    PROVE  /\ IsFiniteSet(Refs(Lists(g), i)) /\ IsFiniteSet(Refs(Lists(f), i))
           /\ Cardinality(Refs(Lists(g), i)) \in Nat
           /\ Cardinality(Refs(Lists(f), i)) =
                Cardinality(Refs(Lists(g), i)) + One(f.nameToInum[tfile], i)
<1> DEFINE t == f.nameToInum[tfile]
           b0 == BlockOf(f, Front(tfile))
           e == <<Last(tfile), t>>
<1>1. e \in f.data[b0].dirList /\ e[2] = t /\ b0 \in Blocks(f)
  BY FileFacts, DirFacts
<1>2. \A b \in Blocks(f) : g.data[b].dirList = IF b = b0 THEN f.data[b].dirList \ {e}
                                               ELSE f.data[b].dirList
  BY DEF Unlisted
<1>3. /\ Lists(f) \in [Blocks(f) -> SUBSET Entries(Nat)]
      /\ Lists(g) \in [Blocks(f) -> SUBSET Entries(Nat)]
      /\ \A b \in Blocks(f) : Lists(f)[b] = f.data[b].dirList /\ Lists(g)[b] = g.data[b].dirList
  BY ListsOf DEF Unlisted, Sound
<1> HIDE DEF e, b0
<1>4. More(Blocks(f), Lists(g), Lists(f), b0, e)
  BY <1>1, <1>2, <1>3 DEF More
<1>5. IsFiniteSet(Refs(Lists(f), i))
  BY DEF Sound, Counted
<1>6. /\ IsFiniteSet(Refs(Lists(g), i))
      /\ Cardinality(Refs(Lists(f), i)) = Cardinality(Refs(Lists(g), i)) + One(e[2], i)
  BY <1>4, <1>5, EntryRemoved
<1> QED
  BY <1>1, <1>5, <1>6, FS_CardinalityType

LEMMA UnlistedKnown ==
    ASSUME NEW f, Sound(f), NEW tfile \in ToSet(f.files), NEW g, Unlisted(f, g, tfile)
    PROVE  /\ Known(g) = Known(f) \ {tfile} /\ ToSet(g.files) = ToSet(f.files) \ {tfile}
           /\ \A k, l \in DOMAIN g.files : g.files[k] = g.files[l] => k = l
<1>1. f.files \in Seq(Paths) /\ \A k, l \in DOMAIN f.files : f.files[k] = f.files[l] => k = l
  BY TypedFields DEF Sound, Remembered
<1>2. /\ ToSet(RemoveFirst(f.files, tfile)) = ToSet(f.files) \ {tfile}
      /\ \A k, l \in DOMAIN RemoveFirst(f.files, tfile) :
           RemoveFirst(f.files, tfile)[k] = RemoveFirst(f.files, tfile)[l] => k = l
  BY <1>1, FileRemoved
<1>3. g.files = RemoveFirst(f.files, tfile) /\ g.dirs = f.dirs
  BY DEF Unlisted
<1>4. tfile \notin f.dirs
  BY FileFacts
<1> QED
  BY <1>2, <1>3, <1>4 DEF Known

(* The other names keep their entries. *)
LEMMA OtherNames ==
    ASSUME NEW f, Sound(f), NEW tfile \in ToSet(f.files), NEW g, Unlisted(f, g, tfile),
           NEW p \in Known(f) \ {tfile}, p # Root
    PROVE  /\ Front(p) \in f.dirs /\ BlockOf(g, Front(p)) = BlockOf(f, Front(p))
           /\ BlockOf(f, Front(p)) \in Blocks(f)
           /\ <<Last(p), f.nameToInum[p]>> \in g.data[BlockOf(f, Front(p))].dirList
<1>1. p \in Paths /\ tfile \in Paths /\ tfile # Root /\ Front(tfile) \in f.dirs
  BY DirFacts, FileFacts DEF Known
<1>2. Front(p) \in f.dirs
  <2>1. Len(p) - 1 \in 0 .. Len(p) - 1 /\ Front(p) = SubSeq(p, 1, Len(p) - 1)
    BY <1>1, ParentOf
  <2> QED
    BY <2>1 DEF Sound, Remembered
<1>3. /\ f.nameToInum[Front(p)] \in Live(f) /\ f.inodes[f.nameToInum[Front(p)]].ftype = "d"
      /\ BlockOf(f, Front(p)) \in Blocks(f)
  BY <1>2, DirFacts
<1>4. f.nameToInum[Front(p)] # f.nameToInum[tfile]
  BY <1>3, FileFacts
<1>5. g.inodes[f.nameToInum[Front(p)]] = f.inodes[f.nameToInum[Front(p)]]
  BY <1>3, <1>4 DEF Unlisted, Live
<1>6. BlockOf(g, Front(p)) = BlockOf(f, Front(p))
  BY <1>5 DEF Unlisted, BlockOf
<1>7. <<Last(p), f.nameToInum[p]>> \in f.data[BlockOf(f, Front(p))].dirList
  BY DEF Sound, Remembered
<1>8. CASE BlockOf(f, Front(p)) # BlockOf(f, Front(tfile))
  BY <1>2, <1>3, <1>6, <1>7, <1>8 DEF Unlisted
<1>9. CASE BlockOf(f, Front(p)) = BlockOf(f, Front(tfile))
  <2>1. Front(p) = Front(tfile)
    BY <1>1, <1>2, <1>9, BlockApart
  <2>2. Last(p) # Last(tfile)
    BY <1>1, <2>1, SameChild
  <2>3. <<Last(p), f.nameToInum[p]>> # <<Last(tfile), f.nameToInum[tfile]>>
    BY <2>2
  <2>4. g.data[BlockOf(f, Front(p))].dirList =
          f.data[BlockOf(f, Front(p))].dirList \ {<<Last(tfile), f.nameToInum[tfile]>>}
    BY <1>3, <1>9 DEF Unlisted
  <2> QED
    BY <1>2, <1>3, <1>6, <1>7, <2>3, <2>4
<1> QED
  BY <1>8, <1>9

LEMMA UnlistedRemembered ==
    ASSUME NEW f, Sound(f), NEW tfile \in ToSet(f.files), NEW g, Unlisted(f, g, tfile),
           \A p \in ToSet(f.files) \ {tfile} : g.inodes[f.nameToInum[p]].ftype = "f"
    PROVE  Remembered(g)
<1>1. /\ Known(g) = Known(f) \ {tfile} /\ ToSet(g.files) = ToSet(f.files) \ {tfile}
      /\ \A k, l \in DOMAIN g.files : g.files[k] = g.files[l] => k = l
  BY UnlistedKnown
<1>2. g.dirs = f.dirs /\ g.nameToInum = f.nameToInum
  BY DEF Unlisted
<1>3. ASSUME NEW p \in f.dirs PROVE g.inodes[f.nameToInum[p]].ftype = "d"
  <2>1. /\ f.nameToInum[p] \in Inums(f) /\ f.inodes[f.nameToInum[p]].ftype = "d"
        /\ f.inodes[f.nameToInum[tfile]].ftype = "f"
    BY DirFacts, FileFacts DEF Live
  <2> QED
    BY <2>1 DEF Unlisted
<1>4. Remembered(f)
  BY DEF Sound
<1>5. \A p \in Known(g) \ {Root} :
        <<Last(p), g.nameToInum[p]>> \in g.data[BlockOf(g, Front(p))].dirList
  <2> SUFFICES ASSUME NEW p \in Known(f) \ {tfile}, p # Root
               PROVE  <<Last(p), f.nameToInum[p]>> \in g.data[BlockOf(g, Front(p))].dirList
    BY <1>1, <1>2
  <2> QED
    BY OtherNames
<1> QED
  BY <1>1, <1>2, <1>3, <1>4, <1>5 DEF Remembered
LEMMA KeptSound ==
    ASSUME NEW f, Sound(f), NEW tfile \in ToSet(f.files), NEW g, Unlisted(f, g, tfile),
           Kept(f, g, f.nameToInum[tfile])
    PROVE  Sound(g)
<1> DEFINE t == f.nameToInum[tfile]
<1>1. t \in Live(f) /\ t \in Inums(f) /\ f.inodes[t].ftype = "f"
  BY FileFacts DEF Live
<1>2. /\ Typed(g) /\ Inums(g) = Inums(f) /\ Blocks(g) = Blocks(f)
      /\ \A i \in Inums(f) : i # t => g.inodes[i] = f.inodes[i]
  BY DEF Unlisted
<1>3. /\ g.ibitmap = f.ibitmap /\ g.dbitmap = f.dbitmap
      /\ g.inodes[t].ftype = f.inodes[t].ftype /\ g.inodes[t].addr = f.inodes[t].addr
      /\ g.inodes[t].refCnt = f.inodes[t].refCnt - 1
      /\ \A b \in Blocks(f) : g.data[b].ftype = f.data[b].ftype
  BY DEF Kept
<1>4. \A b \in Blocks(f) : g.data[b].dirList \subseteq f.data[b].dirList
  BY DEF Unlisted
<1> HIDE DEF t
<1>5. \A i \in Inums(f) : g.inodes[i].ftype = f.inodes[i].ftype /\ g.inodes[i].addr = f.inodes[i].addr
  BY <1>2, <1>3
<1>6. Live(g) = Live(f)
  BY <1>2, <1>5 DEF Live
<1>7. Allocated(g)
  BY <1>2, <1>3, <1>5, <1>6, AllocatedSame DEF Sound
<1>8. EntriesSound(g)
  BY <1>2, <1>3, <1>4, <1>6 DEF Sound, EntriesSound
<1>9. Counted(g)
  <2> SUFFICES ASSUME NEW i \in Inums(f)
               PROVE  /\ IsFiniteSet(Refs(Lists(g), i))
                      /\ i \in Live(g) => g.inodes[i].refCnt = Cardinality(Refs(Lists(g), i))
    BY <1>2 DEF Counted
  <2>1. /\ IsFiniteSet(Refs(Lists(g), i)) /\ Cardinality(Refs(Lists(g), i)) \in Nat
        /\ Cardinality(Refs(Lists(f), i)) = Cardinality(Refs(Lists(g), i)) + One(t, i)
    BY UnlistedRefs DEF t
  <2>2. i \in Live(f) => f.inodes[i].refCnt = Cardinality(Refs(Lists(f), i))
    BY DEF Sound, Counted
  <2> QED
    BY <1>2, <1>3, <1>6, <2>1, <2>2 DEF One
<1>10. Remembered(g)
  <2>1. ASSUME NEW p \in ToSet(f.files) PROVE g.inodes[f.nameToInum[p]].ftype = "f"
    BY <1>5, FileFacts DEF Live
  <2> QED
    BY <2>1, UnlistedRemembered
<1> QED
  BY <1>2, <1>7, <1>8, <1>9, <1>10 DEF Sound

LEMMA ReleasedSound ==
    ASSUME NEW f, Sound(f), NEW tfile \in ToSet(f.files), NEW g, Unlisted(f, g, tfile),
           Released(f, g, f.nameToInum[tfile])
    PROVE  Sound(g)
<1> DEFINE t == f.nameToInum[tfile]
           a == f.inodes[t].addr
<1>1. t \in Live(f) /\ t \in Inums(f) /\ f.inodes[t].ftype = "f"
  BY FileFacts DEF Live
<1>2. /\ Typed(g) /\ Inums(g) = Inums(f) /\ Blocks(g) = Blocks(f)
      /\ \A i \in Inums(f) : i # t => g.inodes[i] = f.inodes[i]
  BY DEF Unlisted
<1>3. /\ f.inodes[t].refCnt = 1 /\ g.ibitmap = f.ibitmap \ {t} /\ g.inodes[t].ftype = "free"
      /\ g.dbitmap = f.dbitmap \ {a}
      /\ \A b \in Blocks(f) : g.data[b].ftype = IF b = a THEN "free" ELSE f.data[b].ftype
  BY DEF Released
<1>4. \A b \in Blocks(f) : g.data[b].dirList \subseteq f.data[b].dirList
  BY DEF Unlisted
<1>5. Allocated(f) /\ Typed(f) /\ EntriesSound(f)
  BY DEF Sound
<1>6. a \in Blocks(f) => f.data[a].ftype = "f"
  <2>1. a \in Blocks(f) => a # None
    BY <1>5, NoneIsNoNumber DEF Typed
  <2> QED
    BY <1>1, <2>1, <1>5 DEF Allocated
<1>7. ASSUME NEW i \in Inums(f)
      PROVE  /\ IsFiniteSet(Refs(Lists(g), i)) /\ Cardinality(Refs(Lists(g), i)) \in Nat
             /\ Cardinality(Refs(Lists(f), i)) = Cardinality(Refs(Lists(g), i)) + One(t, i)
             /\ i \in Live(f) => f.inodes[i].refCnt = Cardinality(Refs(Lists(f), i))
  BY UnlistedRefs DEF Sound, Counted
<1> HIDE DEF t, a
<1>8. Live(g) = Live(f) \ {t} /\ \A i \in Live(g) : i \in Inums(f) /\ g.inodes[i] = f.inodes[i]
  BY <1>1, <1>2, <1>3 DEF Live
<1>9. \A b \in Blocks(f) : \A e \in g.data[b].dirList : e[2] # t
  <2>1. IsFiniteSet(Refs(Lists(g), t)) /\ Cardinality(Refs(Lists(g), t)) = 0
    <3>1. One(t, t) = 1
      BY DEF One
    <3> QED
      BY <1>1, <1>3, <1>7, <3>1
  <2>2. Refs(Lists(g), t) = {}
    BY <2>1, FS_EmptySet
  <2>3. /\ DOMAIN Lists(g) = Blocks(f)
        /\ \A b \in Blocks(f) : Lists(g)[b] = g.data[b].dirList
    BY <1>2, ListsOf
  <2> SUFFICES ASSUME NEW b \in Blocks(f), NEW e \in g.data[b].dirList, e[2] = t PROVE FALSE
    OBVIOUS
  <2>4. <<b, e>> \in Refs(Lists(g), t)
    BY <2>3, RefsIn
  <2> QED
    BY <2>2, <2>4
<1>10. Allocated(g)
  <2>1. g.ibitmap = Live(g)
    BY <1>3, <1>5, <1>8 DEF Allocated
  <2>2. g.dbitmap = {b \in Blocks(g) : g.data[b].ftype # "free"}
    BY <1>2, <1>3, <1>5 DEF Allocated
  <2>3. \A i \in Live(g) : f.inodes[i].addr # None => f.inodes[i].addr # a
    BY <1>1, <1>5, <1>8 DEF Allocated, a
  <2>4. ASSUME NEW i \in Live(g)
        PROVE  /\ g.inodes[i].ftype = "d" => g.inodes[i].addr # None
               /\ g.inodes[i].addr # None => g.data[g.inodes[i].addr].ftype = g.inodes[i].ftype
    <3>1. /\ f.inodes[i].ftype = "d" => f.inodes[i].addr # None
          /\ f.inodes[i].addr # None => f.data[f.inodes[i].addr].ftype = f.inodes[i].ftype
      BY <1>5, <1>8 DEF Allocated
    <3>2. f.inodes[i].addr # None => f.inodes[i].addr \in Blocks(f)
      BY <1>5, <1>8, TypedFields
    <3> QED
      BY <1>3, <1>8, <2>3, <3>1, <3>2
  <2>5. \A i, j \in Live(g) :
          g.inodes[i].addr = g.inodes[j].addr /\ g.inodes[i].addr # None => i = j
    BY <1>5, <1>8 DEF Allocated
  <2>6. ASSUME NEW b \in g.dbitmap PROVE \E i \in Live(g) : g.inodes[i].addr = b
    <3>1. PICK i \in Live(f) : f.inodes[i].addr = b
      BY <1>3, <1>5 DEF Allocated
    <3>2. i # t
      BY <1>3, <2>6, <3>1 DEF a
    <3> QED
      BY <1>8, <3>1, <3>2
  <2> QED
    BY <2>1, <2>2, <2>4, <2>5, <2>6 DEF Allocated
<1>11. EntriesSound(g)
  <2> SUFFICES ASSUME NEW b \in Blocks(f), NEW d \in g.data[b].dirList
               PROVE  /\ g.data[b].ftype = "d" /\ d[2] \in Live(g)
                      /\ \A e \in g.data[b].dirList : d[1] = e[1] => d = e
    BY <1>2 DEF EntriesSound
  <2>1. /\ f.data[b].ftype = "d" /\ d[2] \in Live(f)
        /\ \A e \in f.data[b].dirList : d[1] = e[1] => d = e
    BY <1>4, <1>5 DEF EntriesSound
  <2> QED
    BY <1>3, <1>4, <1>6, <1>8, <1>9, <2>1
<1>12. Counted(g)
  <2> SUFFICES ASSUME NEW i \in Inums(f)
               PROVE  /\ IsFiniteSet(Refs(Lists(g), i))
                      /\ i \in Live(g) => g.inodes[i].refCnt = Cardinality(Refs(Lists(g), i))
    BY <1>2 DEF Counted
  <2> QED
    BY <1>7, <1>8 DEF One
<1>13. Remembered(g)
  <2>1. ASSUME NEW p \in ToSet(f.files) \ {tfile} PROVE g.inodes[f.nameToInum[p]].ftype = "f"
    <3>1. /\ p \in Known(f) /\ p # Root /\ f.nameToInum[p] \in Live(f)
          /\ f.inodes[f.nameToInum[p]].ftype = "f"
      BY FileFacts DEF Known
    <3> DEFINE e == <<Last(p), f.nameToInum[p]>>
    <3>2. e \in g.data[BlockOf(f, Front(p))].dirList /\ BlockOf(f, Front(p)) \in Blocks(f)
      BY <3>1, OtherNames
    <3>3. e[2] = f.nameToInum[p]
      OBVIOUS
    <3> HIDE DEF e
    <3>4. f.nameToInum[p] # t
      BY <1>9, <3>2, <3>3
    <3> QED
      BY <1>8, <3>1, <3>4
  <2> QED
    BY <2>1, UnlistedRemembered
<1> QED
  BY <1>2, <1>10, <1>11, <1>12, <1>13 DEF Sound
(* The last thing deleteFile does, to the image y it has made of f so far. *)
Drop(y, b0, tfile) ==
    [y EXCEPT !.data[b0].dirList = {e \in @ : e[1] # Last(tfile)},
              !.files = RemoveFirst(@, tfile)]

Ready(f, y, t) ==
    /\ Typed(y) /\ Inums(y) = Inums(f) /\ Blocks(y) = Blocks(f)
    /\ y.files = f.files /\ y.dirs = f.dirs /\ y.nameToInum = f.nameToInum
    /\ \A i \in Inums(f) : i # t => y.inodes[i] = f.inodes[i]
    /\ \A b \in Blocks(f) : y.data[b].dirList = f.data[b].dirList

LEMMA Dropped ==
    ASSUME NEW f, Sound(f), NEW tfile \in ToSet(f.files), NEW y,
           Ready(f, y, f.nameToInum[tfile]), NEW b0, b0 = BlockOf(f, Front(tfile)),
           NEW g, g = Drop(y, b0, tfile)
    PROVE  /\ Unlisted(f, g, tfile) /\ g.ibitmap = y.ibitmap /\ g.inodes = y.inodes
           /\ g.dbitmap = y.dbitmap /\ \A b \in Blocks(f) : g.data[b].ftype = y.data[b].ftype
<1> DEFINE t == f.nameToInum[tfile]
           e == <<Last(tfile), t>>
           block == [y.data[b0] EXCEPT !.dirList = y.data[b0].dirList \ {e}]
           data == [y.data EXCEPT ![b0] = block]
           files == RemoveFirst(f.files, tfile)
           y1 == [y EXCEPT !.data = data]
<1>1. /\ Typed(y) /\ Inums(y) = Inums(f) /\ Blocks(y) = Blocks(f)
      /\ y.files = f.files /\ y.dirs = f.dirs /\ y.nameToInum = f.nameToInum
      /\ \A i \in Inums(f) : i # t => y.inodes[i] = f.inodes[i]
      /\ \A b \in Blocks(f) : y.data[b].dirList = f.data[b].dirList
  BY DEF Ready
<1>2. /\ y.inodes \in Nodes(y) /\ y.data \in Contents(y)
      /\ y.ibitmap \in SUBSET Inums(y) /\ y.dbitmap \in SUBSET Blocks(y)
      /\ y.dirs \in SUBSET Paths /\ y.requests \in Nat /\ y.phase \in {"run", "exit", "done"}
      /\ y.nameToInum \in NameTables(y)
  BY <1>1, Fields
<1>3. y = FS(y.ibitmap, y.inodes, y.dbitmap, y.data, y.files, y.dirs, y.nameToInum,
             y.requests, y.phase)
  BY <1>1, Fields
<1>4. b0 \in Blocks(f) /\ e \in f.data[b0].dirList /\ e[1] = Last(tfile)
  BY FileFacts, DirFacts
<1>5. {d \in y.data[b0].dirList : d[1] # Last(tfile)} = y.data[b0].dirList \ {e}
  <2>1. \A d \in f.data[b0].dirList : d[1] = e[1] => d = e
    BY <1>4 DEF Sound, EntriesSound
  <2> QED
    BY <1>1, <1>4, <2>1
<1>6. files \in Seq(Paths)
  <2>1. f.files \in Seq(Paths) /\ \A k, l \in DOMAIN f.files : f.files[k] = f.files[l] => k = l
    BY TypedFields DEF Sound, Remembered
  <2> QED
    BY <2>1, FileRemoved
<1>7. g = FS(y.ibitmap, y.inodes, y.dbitmap, data, files, y.dirs, y.nameToInum,
             y.requests, y.phase)
  <2>1. data = [y.data EXCEPT ![b0].dirList = y.data[b0].dirList \ {e}]
    BY <1>1, <1>2, <1>4 DEF Contents
  <2>2. g = [y EXCEPT !.data[b0].dirList = y.data[b0].dirList \ {e}, !.files = files]
    BY <1>1, <1>5 DEF Drop
  <2>3. g = [y EXCEPT !.data = data, !.files = files]
    BY <2>1, <2>2
  <2> HIDE DEF data, files
  <2>4. g = [y1 EXCEPT !.files = files]
    BY <2>3
  <2>5. y1 = FS(y.ibitmap, y.inodes, y.dbitmap, data, y.files, y.dirs, y.nameToInum,
                y.requests, y.phase)
    BY <1>3 DEF FS
  <2> HIDE DEF y1
  <2> QED
    BY <2>4, <2>5 DEF FS
<1>8. data \in Contents(y)
  <2>1. block \in [ftype : FileTypes, dirList : SUBSET Entries(Inums(y))]
    BY <1>1, <1>2, <1>4 DEF Contents
  <2> HIDE DEF block
  <2> QED
    BY <1>1, <1>2, <1>4, <2>1 DEF Contents
<1>9. /\ data[b0].ftype = y.data[b0].ftype /\ data[b0].dirList = f.data[b0].dirList \ {e}
      /\ \A b \in Blocks(f) : b # b0 => data[b] = y.data[b]
  BY <1>1, <1>2, <1>4 DEF Contents
<1> HIDE DEF data, block, y1
<1>10. /\ Typed(g) /\ Inums(g) = Inums(y) /\ Blocks(g) = Blocks(y)
       /\ g.ibitmap = y.ibitmap /\ g.inodes = y.inodes /\ g.dbitmap = y.dbitmap /\ g.data = data
       /\ g.files = files /\ g.dirs = y.dirs /\ g.nameToInum = y.nameToInum
  <2> HIDE DEF files
  <2> QED
    BY <1>1, <1>2, <1>6, <1>7, <1>8, Rebuilt
<1>11. \A b \in Blocks(f) : g.data[b].ftype = y.data[b].ftype
  BY <1>9, <1>10
<1>12. \A b \in Blocks(f) : g.data[b].dirList = IF b = b0 THEN f.data[b].dirList \ {e}
                                                ELSE f.data[b].dirList
  BY <1>1, <1>9, <1>10
<1>13. Unlisted(f, g, tfile)
  BY <1>1, <1>10, <1>12 DEF Unlisted
<1> QED
  BY <1>10, <1>11, <1>13

LEMMA BlockFreed ==
    ASSUME NEW f, Whole(f), NEW x
    PROVE  /\ Whole(dataFree(f, x))
           /\ dataFree(f, x) =
                FS(f.ibitmap, f.inodes, f.dbitmap \ {x}, [f.data EXCEPT ![x] = FreeBlock],
                   f.files, f.dirs, f.nameToInum, f.requests, f.phase)
<1> DEFINE d == [f.data EXCEPT ![x] = FreeBlock]
           db == f.dbitmap \ {x}
           y == [f EXCEPT !.dbitmap = db]
           z == dataFree(f, x)
<1>1. z = [f EXCEPT !.dbitmap = db, !.data = d]
  BY DEF dataFree
<1> HIDE DEF d, db, z
<1>2. z = [y EXCEPT !.data = d]
  BY <1>1
<1>3. y = FS(f.ibitmap, f.inodes, db, f.data, f.files, f.dirs, f.nameToInum, f.requests, f.phase)
  BY DEF FS, Whole
<1> HIDE DEF y
<1>4. z = FS(f.ibitmap, f.inodes, db, d, f.files, f.dirs, f.nameToInum, f.requests, f.phase)
  BY <1>2, <1>3 DEF FS
<1>5. Whole(z)
  BY <1>4 DEF FS, Whole
<1> QED
  BY <1>4, <1>5 DEF d, db, z
(* The inode of a file, released with its block if it has one, or kept. *)
Emptied(f, t, a) == inodeFree(IF a # None THEN dataFree(f, a) ELSE f, t)
LessOne(f, t) == [f EXCEPT !.inodes[t].refCnt = @ - 1]

LEMMA NodeReleased ==
    ASSUME NEW f, Sound(f), NEW t \in Live(f), f.inodes[t].ftype = "f",
           NEW a, a = f.inodes[t].addr,
           NEW y, y = Emptied(f, t, a)
    PROVE  /\ Ready(f, y, t) /\ y.ibitmap = f.ibitmap \ {t} /\ y.inodes[t].ftype = "free"
           /\ y.dbitmap = f.dbitmap \ {a}
           /\ \A b \in Blocks(f) : y.data[b].ftype = IF b = a THEN "free" ELSE f.data[b].ftype
<1> DEFINE z == IF a # None THEN dataFree(f, a) ELSE f
           data == IF a # None THEN [f.data EXCEPT ![a] = FreeBlock] ELSE f.data
           node == [f.inodes[t] EXCEPT !.ftype = "free", !.addr = None]
           nodes == [f.inodes EXCEPT ![t] = node]
           ib == f.ibitmap \ {t}
           db == f.dbitmap \ {a}
<1>1. /\ Typed(f) /\ f.inodes \in Nodes(f) /\ f.data \in Contents(f)
      /\ f.ibitmap \in SUBSET Inums(f) /\ f.dbitmap \in SUBSET Blocks(f)
      /\ f.dirs \in SUBSET Paths /\ f.requests \in Nat /\ f.phase \in {"run", "exit", "done"}
      /\ f.files \in Seq(Paths) /\ f.nameToInum \in NameTables(f)
  BY Fields DEF Sound
<1>2. Whole(f)
  BY Fields DEF Sound, Whole
<1>3. t \in Inums(f) /\ a \in Blocks(f) \cup {None} /\ None \notin Blocks(f)
  BY <1>1, TypedFields, NoneIsNoNumber DEF Live, Typed
<1>4. a # None => f.data[a].ftype = "f" /\ f.data[a].dirList = {}
  <2>1. a # None => f.data[a].ftype = "f"
    BY DEF Sound, Allocated
  <2> QED
    BY <1>3, <2>1 DEF Sound, EntriesSound
<1>5. Whole(z) /\ z = FS(f.ibitmap, f.inodes, db, data, f.files, f.dirs, f.nameToInum,
                         f.requests, f.phase)
  <2>1. CASE a # None
    BY <1>2, <2>1, BlockFreed
  <2>2. CASE a = None
    <3>1. db = f.dbitmap
      BY <1>1, <1>3, <2>2
    <3> QED
      BY <1>2, <2>2, <3>1 DEF Whole
  <2> QED
    BY <2>1, <2>2
<1>6. y = inodeFree(z, t)
  BY DEF Emptied
<1>7. data \in Contents(f)
  <2>1. FreeBlock \in [ftype : FileTypes, dirList : SUBSET Entries(Inums(f))]
    BY DEF FreeBlock, FileTypes
  <2> QED
    BY <1>1, <1>3, <2>1 DEF Contents
<1>8. \A b \in Blocks(f) : /\ data[b].ftype = IF b = a THEN "free" ELSE f.data[b].ftype
                           /\ data[b].dirList = f.data[b].dirList
  BY <1>1, <1>3, <1>4 DEF Contents, FreeBlock
<1> HIDE DEF z, data, db
<1>9. f.inodes[t] \in [ftype : FileTypes, addr : Blocks(f) \cup {None}, refCnt : Nat]
  BY <1>1, <1>3 DEF Nodes
<1>10. nodes = [f.inodes EXCEPT ![t].ftype = "free", ![t].addr = None]
  BY <1>1, <1>3, <1>9 DEF Nodes
<1>11. y = FS(ib, nodes, db, data, f.files, f.dirs, f.nameToInum, f.requests, f.phase)
  <2>1. /\ z.ibitmap = f.ibitmap /\ z.inodes = f.inodes /\ z.dbitmap = db /\ z.data = data
        /\ z.files = f.files /\ z.dirs = f.dirs /\ z.nameToInum = f.nameToInum
        /\ z.requests = f.requests /\ z.phase = f.phase
    BY <1>5 DEF FS
  <2>2. y = FS(z.ibitmap \ {t}, [z.inodes EXCEPT ![t].ftype = "free", ![t].addr = None],
               z.dbitmap, z.data, z.files, z.dirs, z.nameToInum, z.requests, z.phase)
    BY <1>5, <1>6, InodeFreed
  <2> QED
    BY <1>10, <2>1, <2>2
<1>12. nodes \in Nodes(f) /\ ib \in SUBSET Inums(f) /\ db \in SUBSET Blocks(f)
  <2>1. node \in [ftype : FileTypes, addr : Blocks(f) \cup {None}, refCnt : Nat]
    BY <1>9 DEF FileTypes
  <2> HIDE DEF node
  <2> QED
    BY <1>1, <1>3, <2>1 DEF Nodes, db
<1>13. nodes[t].ftype = "free" /\ \A i \in Inums(f) : i # t => nodes[i] = f.inodes[i]
  BY <1>1, <1>3, <1>9 DEF Nodes
<1>14. ib = f.ibitmap \ {t} /\ db = f.dbitmap \ {a}
  BY DEF db
<1> HIDE DEF node, nodes, ib
<1>15. /\ Typed(y) /\ Inums(y) = Inums(f) /\ Blocks(y) = Blocks(f)
       /\ y.ibitmap = ib /\ y.inodes = nodes /\ y.dbitmap = db /\ y.data = data
       /\ y.files = f.files /\ y.dirs = f.dirs /\ y.nameToInum = f.nameToInum
  BY <1>1, <1>7, <1>11, <1>12, Rebuilt
<1>16. Ready(f, y, t)
  BY <1>8, <1>13, <1>15 DEF Ready
<1> QED
  BY <1>8, <1>13, <1>14, <1>15, <1>16

LEMMA NodeKept ==
    ASSUME NEW f, Sound(f), NEW t \in Live(f), f.inodes[t].refCnt # 0,
           NEW y, y = LessOne(f, t)
    PROVE  /\ Ready(f, y, t) /\ y.ibitmap = f.ibitmap /\ y.dbitmap = f.dbitmap
           /\ y.inodes[t].ftype = f.inodes[t].ftype /\ y.inodes[t].addr = f.inodes[t].addr
           /\ y.inodes[t].refCnt = f.inodes[t].refCnt - 1
           /\ \A b \in Blocks(f) : y.data[b].ftype = f.data[b].ftype
<1> DEFINE node == [f.inodes[t] EXCEPT !.refCnt = f.inodes[t].refCnt - 1]
           nodes == [f.inodes EXCEPT ![t] = node]
<1>1. /\ Typed(f) /\ f.inodes \in Nodes(f) /\ f.data \in Contents(f)
      /\ f.ibitmap \in SUBSET Inums(f) /\ f.dbitmap \in SUBSET Blocks(f)
      /\ f.dirs \in SUBSET Paths /\ f.requests \in Nat /\ f.phase \in {"run", "exit", "done"}
      /\ f.files \in Seq(Paths) /\ f.nameToInum \in NameTables(f)
  BY Fields DEF Sound
<1>2. f = FS(f.ibitmap, f.inodes, f.dbitmap, f.data, f.files, f.dirs, f.nameToInum,
             f.requests, f.phase)
  BY Fields DEF Sound
<1>3. t \in Inums(f)
  BY DEF Live
<1>4. f.inodes[t] \in [ftype : FileTypes, addr : Blocks(f) \cup {None}, refCnt : Nat]
  BY <1>1, <1>3 DEF Nodes
<1>5. nodes = [f.inodes EXCEPT ![t].refCnt = f.inodes[t].refCnt - 1]
  BY <1>1, <1>3, <1>4 DEF Nodes
<1>6. y = [f EXCEPT !.inodes = nodes]
  BY <1>5 DEF LessOne
<1>7. nodes \in Nodes(f)
  <2>1. node \in [ftype : FileTypes, addr : Blocks(f) \cup {None}, refCnt : Nat]
    BY <1>4
  <2> HIDE DEF node
  <2> QED
    BY <1>1, <1>3, <2>1 DEF Nodes
<1>8. /\ nodes[t].ftype = f.inodes[t].ftype /\ nodes[t].addr = f.inodes[t].addr
      /\ nodes[t].refCnt = f.inodes[t].refCnt - 1
      /\ \A i \in Inums(f) : i # t => nodes[i] = f.inodes[i]
  BY <1>1, <1>3, <1>4 DEF Nodes
<1> HIDE DEF node, nodes
<1>9. y = FS(f.ibitmap, nodes, f.dbitmap, f.data, f.files, f.dirs, f.nameToInum,
             f.requests, f.phase)
  BY <1>2, <1>6 DEF FS
<1>10. /\ Typed(y) /\ Inums(y) = Inums(f) /\ Blocks(y) = Blocks(f)
       /\ y.ibitmap = f.ibitmap /\ y.inodes = nodes /\ y.dbitmap = f.dbitmap /\ y.data = f.data
       /\ y.files = f.files /\ y.dirs = f.dirs /\ y.nameToInum = f.nameToInum
  BY <1>1, <1>7, <1>9, Rebuilt
<1>11. Ready(f, y, t)
  BY <1>8, <1>10 DEF Ready
<1> QED
  BY <1>8, <1>10, <1>11

LEMMA DeleteSound ==
    ASSUME NEW f, Sound(f), NEW tfile \in ToSet(f.files)
    PROVE  Sound(deleteFile(f, tfile).fs)
<1> DEFINE t == f.nameToInum[tfile]
           b0 == BlockOf(f, Front(tfile))
           a == f.inodes[t].addr
           g == deleteFile(f, tfile).fs
<1>1. t \in Live(f) /\ t \in Inums(f) /\ f.inodes[t].ftype = "f"
  BY FileFacts DEF Live
<1>2. CASE f.inodes[t].refCnt = 1
  <2> DEFINE y == Emptied(f, t, a)
  <2>1. g = Drop(y, b0, tfile)
    BY <1>1, <1>2 DEF deleteFile, Succeeds, Drop, BlockOf, getParent, Emptied
  <2>2. /\ Ready(f, y, t) /\ y.ibitmap = f.ibitmap \ {t} /\ y.inodes[t].ftype = "free"
        /\ y.dbitmap = f.dbitmap \ {a}
        /\ \A b \in Blocks(f) : y.data[b].ftype = IF b = a THEN "free" ELSE f.data[b].ftype
    BY <1>1, NodeReleased
  <2> HIDE DEF y, g
  <2>3. /\ Unlisted(f, g, tfile) /\ g.ibitmap = y.ibitmap /\ g.inodes = y.inodes
        /\ g.dbitmap = y.dbitmap /\ \A b \in Blocks(f) : g.data[b].ftype = y.data[b].ftype
    BY <2>1, <2>2, Dropped
  <2>4. Released(f, g, t)
    BY <1>2, <2>2, <2>3 DEF Released
  <2> QED
    BY <2>3, <2>4, ReleasedSound DEF g
<1>3. CASE f.inodes[t].refCnt # 1
  <2> DEFINE y == LessOne(f, t)
  <2>1. g = Drop(y, b0, tfile)
    BY <1>1, <1>3 DEF deleteFile, Succeeds, Drop, BlockOf, getParent, LessOne
  <2>2. f.inodes[t].refCnt # 0
    <3> DEFINE e == <<Last(tfile), t>>
    <3>1. e \in f.data[b0].dirList /\ e[2] = t /\ b0 \in Blocks(f)
      BY FileFacts, DirFacts
    <3> HIDE DEF e
    <3>2. DOMAIN Lists(f) = Blocks(f) /\ \A b \in Blocks(f) : Lists(f)[b] = f.data[b].dirList
      BY ListsOf DEF Sound
    <3>3. <<b0, e>> \in Refs(Lists(f), t)
      BY <3>1, <3>2, RefsIn
    <3>4. IsFiniteSet(Refs(Lists(f), t)) /\ f.inodes[t].refCnt = Cardinality(Refs(Lists(f), t))
      BY <1>1 DEF Sound, Counted
    <3> QED
      BY <3>3, <3>4, FS_EmptySet
  <2>3. /\ Ready(f, y, t) /\ y.ibitmap = f.ibitmap /\ y.dbitmap = f.dbitmap
        /\ y.inodes[t].ftype = f.inodes[t].ftype /\ y.inodes[t].addr = f.inodes[t].addr
        /\ y.inodes[t].refCnt = f.inodes[t].refCnt - 1
        /\ \A b \in Blocks(f) : y.data[b].ftype = f.data[b].ftype
    BY <1>1, <2>2, NodeKept
  <2> HIDE DEF y, g
  <2>4. /\ Unlisted(f, g, tfile) /\ g.ibitmap = y.ibitmap /\ g.inodes = y.inodes
        /\ g.dbitmap = y.dbitmap /\ \A b \in Blocks(f) : g.data[b].ftype = y.data[b].ftype
    BY <2>1, <2>3, Dropped
  <2>5. Kept(f, g, t)
    BY <2>3, <2>4 DEF Kept
  <2> QED
    BY <2>4, <2>5, KeptSound DEF g
<1> QED
  BY <1>2, <1>3
-----------------------------------------------------------------------------
(* A turn of the loop: the operation, then the count and the phase. *)
Turned(f, r, ph) == [f EXCEPT !.requests = r, !.phase = ph]

LEMMA TurnedSound ==
    ASSUME NEW f, Sound(f), NEW r \in Nat, NEW ph \in {"run", "exit", "done"}
    PROVE  Sound(Turned(f, r, ph)) /\ Turned(f, r, ph).requests = r /\ Turned(f, r, ph).phase = ph
<1> DEFINE g == Turned(f, r, ph)
           y == [f EXCEPT !.requests = r]
<1>1. /\ Typed(f) /\ f.inodes \in Nodes(f) /\ f.data \in Contents(f)
      /\ f.ibitmap \in SUBSET Inums(f) /\ f.dbitmap \in SUBSET Blocks(f)
      /\ f.dirs \in SUBSET Paths /\ f.files \in Seq(Paths) /\ f.nameToInum \in NameTables(f)
  BY Fields DEF Sound
<1>2. f = FS(f.ibitmap, f.inodes, f.dbitmap, f.data, f.files, f.dirs, f.nameToInum,
             f.requests, f.phase)
  BY Fields DEF Sound
<1>3. g = [y EXCEPT !.phase = ph]
  BY DEF Turned
<1>4. y = FS(f.ibitmap, f.inodes, f.dbitmap, f.data, f.files, f.dirs, f.nameToInum, r, f.phase)
  BY <1>2 DEF FS
<1> HIDE DEF y, g
<1>5. g = FS(f.ibitmap, f.inodes, f.dbitmap, f.data, f.files, f.dirs, f.nameToInum, r, ph)
  BY <1>3, <1>4 DEF FS
<1>6. /\ Typed(g) /\ Inums(g) = Inums(f) /\ Blocks(g) = Blocks(f)
      /\ g.ibitmap = f.ibitmap /\ g.inodes = f.inodes /\ g.dbitmap = f.dbitmap /\ g.data = f.data
      /\ g.files = f.files /\ g.dirs = f.dirs /\ g.nameToInum = f.nameToInum
  BY <1>1, <1>5, Rebuilt
<1>7. g.requests = r /\ g.phase = ph
  BY <1>5 DEF FS
<1>8. Live(g) = Live(f)
  BY <1>6 DEF Live
<1>9. Allocated(g) /\ EntriesSound(g)
  BY <1>6, <1>8, AllocatedSame DEF Sound, EntriesSound
<1>10. Counted(g)
  BY <1>6, <1>8, CountedSame DEF Sound
<1>11. Remembered(g)
  <2>1. Grown(f, g)
    BY <1>6 DEF Grown
  <2> QED
    BY <1>6, <2>1, NamesKept
<1> QED
  BY <1>6, <1>7, <1>9, <1>10, <1>11 DEF Sound, g

LEMMA AttemptInv ==
    ASSUME VSFSInv, NEW result, Sound(result.fs), Attempt(result)
    PROVE  VSFSInv'
<1> DEFINE done == fs.requests + IF result.rc = 0 THEN 1 ELSE 0
           ph == IF Exhausted(result.fs) THEN "exit"
                 ELSE IF done = NumRequests THEN "done" ELSE "run"
<1>1. done \in 0 .. NumRequests /\ done \in Nat
  BY VSFSAssumption DEF VSFSInv, Attempt
<1>2. ph \in {"run", "exit", "done"} /\ (ph = "run" => done # NumRequests)
  OBVIOUS
<1>3. fs' = Turned(result.fs, done, ph)
  BY DEF Attempt, Turned
<1> HIDE DEF done, ph
<1>4. Sound(fs') /\ fs'.requests = done /\ fs'.phase = ph
  BY <1>1, <1>2, <1>3, TurnedSound
<1>5. fs'.phase = "run" => fs'.requests < NumRequests
  BY <1>1, <1>2, <1>4, VSFSAssumption
<1> QED
  BY <1>1, <1>4, <1>5 DEF VSFSInv

LEMMA NextInv == VSFSInv /\ [VSFSNext]_fs => VSFSInv'
<1> SUFFICES ASSUME VSFSInv, [VSFSNext]_fs PROVE VSFSInv'
  OBVIOUS
<1>1. Sound(fs)
  BY DEF VSFSInv
<1>2. inodeAlloc(fs) \in {None} \cup (Inums(fs) \ fs.ibitmap)
  BY <1>1, TypedFields, AllocFree DEF Sound, inodeAlloc
<1>3. dataAlloc(fs) \in {None} \cup (Blocks(fs) \ fs.dbitmap)
  BY <1>1, TypedFields, AllocFree DEF Sound, dataAlloc
<1>4. CASE NoFiles
  <2>1. Sound(Fails(fs).fs) /\ Attempt(Fails(fs))
    BY <1>1, <1>4 DEF NoFiles, Fails
  <2> QED
    BY <2>1, AttemptInv
<1>5. CASE doAppend
  <2>1. PICK p \in ToSet(fs.files) : Attempt(writeFile(fs, p, dataAlloc(fs)))
    BY <1>5 DEF doAppend
  <2>2. Sound(writeFile(fs, p, dataAlloc(fs)).fs)
    BY <1>1, <1>3, WriteSound
  <2> QED
    BY <2>1, <2>2, AttemptInv
<1>6. CASE doDelete
  <2>1. PICK p \in ToSet(fs.files) : Attempt(deleteFile(fs, p))
    BY <1>6 DEF doDelete
  <2>2. Sound(deleteFile(fs, p).fs)
    BY <1>1, DeleteSound
  <2> QED
    BY <2>1, <2>2, AttemptInv
<1>7. CASE doLink
  <2>1. PICK parent \in fs.dirs, name \in Names, target \in ToSet(fs.files) :
          Attempt(createLink(fs, target, name, parent))
    BY <1>7 DEF doLink
  <2>2. Sound(createLink(fs, target, name, parent).fs)
    BY <1>1, LinkSound
  <2> QED
    BY <2>1, <2>2, AttemptInv
<1>8. ASSUME NEW ftype \in {"f", "d"}, doCreate(ftype) PROVE VSFSInv'
  <2>1. PICK parent \in fs.dirs, name \in Names :
          Attempt(createFile(fs, parent, name, ftype, inodeAlloc(fs), dataAlloc(fs)))
    BY <1>8 DEF doCreate
  <2>2. Sound(createFile(fs, parent, name, ftype, inodeAlloc(fs), dataAlloc(fs)).fs)
    BY <1>1, <1>2, <1>3, CreateSound
  <2> QED
    BY <2>1, <2>2, AttemptInv
<1>9. CASE VSFSEnded \/ UNCHANGED fs
  <2>1. fs' = fs
    BY <1>9 DEF VSFSEnded
  <2> QED
    BY <2>1 DEF VSFSInv
<1> QED
  BY <1>4, <1>5, <1>6, <1>7, <1>8, <1>9 DEF VSFSNext

(* After any operations of the generator, failed ones included, the bitmaps
   agree with the inodes and the blocks, reference counts count entries, every
   block in use has one owner, and each remembered path leads to its inode. *)
THEOREM ImagesConsistent == VSFSSpec => []ImageConsistent
<1>1. VSFSSpec => []VSFSInv
  BY InitInv, NextInv, PTL DEF VSFSSpec
<1> QED
  BY <1>1, InvConsistent, PTL
=============================================================================
