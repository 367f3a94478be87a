--------------------------- MODULE StagingProofs ---------------------------
(***************************************************************************)
(* Proofs about Staging, for any number of goroutines, any size, any       *)
(* chunks and all three modes: the types, what Complete hands out, what    *)
(* WriteChunk accepted, that no data file is left without a metadata file, *)
(* and that removed sessions and uploads that are read are left alone.     *)
(*                                                                         *)
(* First RangeSet: from a list of ranges that is sorted and has gaps       *)
(* between them Add makes another one, which covers the new range and what *)
(* was covered before, and nothing else.                                   *)
(*                                                                         *)
(* The inductive invariant: as long as the data file has its name, no more *)
(* than one state object stands for it, so that its mutex is worth         *)
(* something; in ranges mode the metadata file says what the object says;  *)
(* in the block modes bits are set after the write.  Most steps have so    *)
(* much in common that they are shown to be Orderly, and an orderly step   *)
(* to keep the invariant; Begin, a new object, writeChunkRangeSet and a    *)
(* process that stops are done by themselves.                              *)
(***************************************************************************)
EXTENDS Staging, SequenceTheorems, WellFoundedInduction, NaturalsInduction, TLAPS

-----------------------------------------------------------------------------
(* RangeSet                                                                *)

\* A list of ranges as RangeSet keeps it.
WellFormed(rs) ==
    /\ rs \in Seq(ByteRange)
    /\ \A i \in DOMAIN rs : rs[i].start < rs[i].end
    /\ \A i, j \in DOMAIN rs : i < j => rs[i].end < rs[j].start

\* The units of one range.
UnitsIn(r) == r.start + 1 .. r.end

\* Natural numbers have a least one.
LEMMA Least ==
    ASSUME NEW T \in SUBSET Nat, T # {}
    PROVE  \E m \in T : \A j \in T : m <= j
<1>1. PICK m \in T : \A j \in T : <<j, m>> \notin OpToRel(<, Nat)
    BY NatLessThanWellFounded, WFMin
<1>2. \A j \in T : ~(j < m)
    BY <1>1 DEF OpToRel
<1> QED
    BY <1>2

\* A unit is covered if it is in one of the ranges.
LEMMA CoveredBy ==
    ASSUME NEW rs, NEW u
    PROVE  u \in Covered(rs) <=> \E i \in DOMAIN rs : u \in UnitsIn(rs[i])
BY DEF Covered, UnitsIn

\* One turn of the loop of Add.
LEMMA MergeKeeps ==
    ASSUME NEW m, WellFormed(m), m # << >>,
           NEW r \in ByteRange, r.start < r.end, m[Len(m)].start <= r.start
    PROVE  /\ WellFormed(Merge(m, r)) /\ Merge(m, r) # << >>
           /\ Merge(m, r)[Len(Merge(m, r))].start <= r.start
           /\ Covered(Merge(m, r)) = Covered(m) \cup UnitsIn(r)
<1> DEFINE n == Len(m)
           x == Merge(m, r)
<1>0. \A q \in ByteRange : q.start \in Int /\ q.end \in Int
    BY SizeAssumption DEF ByteRange
<1>1. /\ m \in Seq(ByteRange) /\ n \in Nat \ {0} /\ DOMAIN m = 1..n
      /\ \A i \in 1..n : m[i] \in ByteRange /\ m[i].start \in Int /\ m[i].end \in Int
      /\ r.start \in Int /\ r.end \in Int
  <2>1. m \in Seq(ByteRange)
      BY DEF WellFormed
  <2> QED
      BY <1>0, <2>1
<1>w. /\ \A i \in 1..n : m[i].start < m[i].end
      /\ \A i, j \in 1..n : i < j => m[i].end < m[j].start
    BY <1>1 DEF WellFormed
<1> HIDE DEF n
<1>2. CASE r.start <= m[n].end /\ r.end > m[n].end
  <2>1. x = [m EXCEPT ![n].end = r.end]
      BY <1>2 DEF Merge, S!Last, n
  <2>2. [m[n] EXCEPT !.end = r.end] \in ByteRange
      BY <1>1 DEF ByteRange
  <2>3. /\ x \in Seq(ByteRange) /\ Len(x) = n /\ DOMAIN x = 1..n
        /\ \A i \in 1..n : i # n => x[i] = m[i]
        /\ x[n].start = m[n].start /\ x[n].end = r.end
      BY <1>1, <2>1, <2>2 DEF ByteRange, n
  <2> HIDE DEF x
  <2>4. WellFormed(x)
    <3>1. ASSUME NEW i \in 1..n PROVE x[i].start < x[i].end
        BY <1>1, <1>w, <1>2, <2>3
    <3>2. ASSUME NEW i \in 1..n, NEW j \in 1..n, i < j PROVE x[i].end < x[j].start
      <4>1. i # n /\ x[i] = m[i] /\ x[j].start = m[j].start
          BY <1>1, <2>3, <3>2
      <4> QED
          BY <1>w, <3>2, <4>1
    <3> QED
        BY <2>3, <3>1, <3>2 DEF WellFormed
  <2>5. ASSUME NEW u PROVE u \in Covered(x) <=> u \in Covered(m) \cup UnitsIn(r)
    <3>1. u \in UnitsIn(x[n]) <=> u \in UnitsIn(m[n]) \/ u \in UnitsIn(r)
        BY <1>1, <1>w, <1>2, <2>3 DEF UnitsIn
    <3>2. \A i \in 1..n : i # n => UnitsIn(x[i]) = UnitsIn(m[i])
        BY <2>3
    <3>3. u \in Covered(x) <=> \E i \in 1..n : u \in UnitsIn(x[i])
        BY <2>3, CoveredBy
    <3>4. u \in Covered(m) <=> \E i \in 1..n : u \in UnitsIn(m[i])
        BY <1>1, CoveredBy
    <3> QED
        BY <1>1, <3>1, <3>2, <3>3, <3>4
  <2> QED
      BY <1>1, <2>3, <2>4, <2>5 DEF x, n
<1>3. CASE r.start <= m[n].end /\ ~(r.end > m[n].end)
  <2>1. x = m
      BY <1>3 DEF Merge, S!Last, n
  <2>2. UnitsIn(r) \subseteq UnitsIn(m[n])
      BY <1>1, <1>3 DEF UnitsIn
  <2>3. UnitsIn(m[n]) \subseteq Covered(m)
      BY <1>1, CoveredBy
  <2> QED
      BY <1>1, <2>1, <2>2, <2>3 DEF n
<1>4. CASE ~(r.start <= m[n].end)
  <2>1. x = Append(m, r)
      BY <1>4 DEF Merge, S!Last, n
  <2>2. /\ x \in Seq(ByteRange) /\ Len(x) = n + 1 /\ DOMAIN x = 1..(n + 1)
        /\ \A i \in 1..n : x[i] = m[i]
        /\ x[n + 1] = r
      BY <1>1, <2>1 DEF n
  <2> HIDE DEF x
  <2>3. \A i \in 1..n : m[i].end <= m[n].end
    <3>1. ASSUME NEW i \in 1..n, i # n PROVE m[i].end <= m[n].end
      <4>1. i < n /\ n \in 1..n
          BY <1>1, <3>1
      <4>2. m[i].end < m[n].start /\ m[n].start < m[n].end
          BY <1>w, <4>1
      <4> QED
          BY <1>1, <4>1, <4>2
    <3> QED
        BY <1>1, <3>1
  <2>4. WellFormed(x)
    <3>1. ASSUME NEW i \in 1..(n + 1) PROVE x[i].start < x[i].end
        BY <1>1, <1>w, <2>2, <3>1
    <3>2. ASSUME NEW i \in 1..(n + 1), NEW j \in 1..(n + 1), i < j
          PROVE  x[i].end < x[j].start
      <4>1. CASE j = n + 1
          BY <1>1, <1>4, <2>2, <2>3, <3>2, <4>1
      <4>2. CASE j # n + 1
          BY <1>1, <1>w, <2>2, <3>2, <4>2
      <4> QED
          BY <4>1, <4>2
    <3> QED
        BY <2>2, <3>1, <3>2 DEF WellFormed
  <2>5. ASSUME NEW u PROVE u \in Covered(x) <=> u \in Covered(m) \cup UnitsIn(r)
    <3>1. u \in Covered(x) <=> \E i \in 1..(n + 1) : u \in UnitsIn(x[i])
        BY <2>2, CoveredBy
    <3>2. u \in Covered(m) <=> \E i \in 1..n : u \in UnitsIn(m[i])
        BY <1>1, CoveredBy
    <3> QED
        BY <1>1, <2>2, <3>1, <3>2
  <2> QED
      BY <1>1, <2>2, <2>4, <2>5 DEF x, n
<1> QED
    BY <1>1, <1>2, <1>3, <1>4

\* The recursion of MergedUpTo has a solution, so it says what it seems to say.
LEMMA MergedUpToIs ==
    ASSUME NEW s \in Seq(ByteRange)
    PROVE  \A i \in 1..Len(s) :
              MergedUpTo(s)[i] = IF i = 1 THEN <<s[1]>> ELSE Merge(MergedUpTo(s)[i - 1], s[i])
<1> DEFINE Rule(g, i) == IF i = 1 THEN <<s[1]>> ELSE Merge(g[i - 1], s[i])
           Good(n) == \E g : g = [i \in 1..n |-> Rule(g, i)]
           Bad == {n \in Nat : ~Good(n)}
<1>1. Good(0)
  <2>1. [i \in 1..0 |-> 0] = [i \in 1..0 |-> Rule([j \in 1..0 |-> 0], i)]
      OBVIOUS
  <2> QED
      BY <2>1
<1>2. ASSUME NEW n \in Nat, Good(n) PROVE Good(n + 1)
  <2>1. PICK g : g = [i \in 1..n |-> Rule(g, i)]
      BY <1>2
  <2> DEFINE h == [i \in 1..(n + 1) |-> IF i = n + 1 THEN Rule(g, i) ELSE g[i]]
  <2>2. \A i \in 1..n : g[i] = Rule(g, i)
      BY <2>1
  <2>3. ASSUME NEW i \in 1..(n + 1) PROVE h[i] = Rule(h, i)
    <3>1. i # 1 => i - 1 \in 1..n /\ h[i - 1] = g[i - 1]
        OBVIOUS
    <3>2. Rule(h, i) = Rule(g, i)
        BY <3>1
    <3>3. i # n + 1 => i \in 1..n
        OBVIOUS
    <3> HIDE DEF Rule
    <3> QED
        BY <2>2, <3>2, <3>3
  <2>4. h = [i \in 1..(n + 1) |-> h[i]]
      OBVIOUS
  <2>5. h = [i \in 1..(n + 1) |-> Rule(h, i)]
    <3> HIDE DEF h, Rule
    <3> QED
        BY <2>3, <2>4
  <2> HIDE DEF h
  <2> QED
      BY <2>5
<1>3. \A n \in Nat : Good(n)
  <2>1. SUFFICES ASSUME Bad # {} PROVE FALSE
      OBVIOUS
  <2> HIDE DEF Good
  <2>2. PICK m \in Bad : \A j \in Bad : m <= j
      BY <2>1, Least
  <2>3. m # 0 /\ m \in Nat /\ m - 1 \in Nat
      BY <1>1, <2>2
  <2>4. Good(m - 1)
      BY <2>2, <2>3
  <2> QED
      BY <1>2, <2>2, <2>3, <2>4
<1>4. \E g : g = [i \in DOMAIN s |-> Rule(g, i)]
  <2>1. Len(s) \in Nat /\ DOMAIN s = 1..Len(s)
      OBVIOUS
  <2>2. Good(Len(s))
    <3> HIDE DEF Good
    <3> QED
        BY <1>3, <2>1
  <2> QED
      BY <2>1, <2>2
<1>5. MergedUpTo(s) = CHOOSE g : g = [i \in DOMAIN s |-> Rule(g, i)]
    BY DEF MergedUpTo
<1>6. MergedUpTo(s) = [i \in DOMAIN s |-> Rule(MergedUpTo(s), i)]
    BY <1>4, <1>5
<1>7. \A i \in 1..Len(s) : MergedUpTo(s)[i] = Rule(MergedUpTo(s), i)
  <2> HIDE DEF Rule
  <2> QED
      BY <1>6
<1> QED
    BY <1>7

\* sort.Slice finds a place for the new range, whatever it is.
LEMMA SortedIs ==
    ASSUME NEW rs, WellFormed(rs), NEW r \in ByteRange
    PROVE  \E p \in 1..Len(rs) + 1 :
              LET s == Sorted(rs, r)
              IN  /\ s \in Seq(ByteRange) /\ Len(s) = Len(rs) + 1
                  /\ \A i \in 1..Len(rs) : s[IF i < p THEN i ELSE i + 1] = rs[i]
                  /\ s[p] = r
                  /\ \A i, j \in 1..Len(s) : i < j => s[i].start <= s[j].start
<1> DEFINE n == Len(rs)
           At(p) == S!InsertAt(rs, p, r)
           InOrder(s) == \A i, j \in DOMAIN s : i < j => s[i].start <= s[j].start
<1>1. /\ rs \in Seq(ByteRange) /\ n \in Nat /\ DOMAIN rs = 1..n
      /\ \A i \in 1..n : rs[i] \in ByteRange
    BY DEF WellFormed
<1>2. \A q \in ByteRange : q.start \in Int /\ q.end \in Int
    BY SizeAssumption DEF ByteRange
<1>3. /\ \A i \in 1..n : rs[i].start < rs[i].end
      /\ \A i, j \in 1..n : i < j => rs[i].end < rs[j].start
    BY <1>1 DEF WellFormed
<1>4. \A i, j \in 1..n : i < j => rs[i].start <= rs[j].start
    BY <1>1, <1>2, <1>3
<1> HIDE DEF n
<1>5. ASSUME NEW p \in 1..(n + 1)
      PROVE  /\ At(p) \in Seq(ByteRange) /\ Len(At(p)) = n + 1 /\ DOMAIN At(p) = 1..(n + 1)
             /\ \A i \in 1..n : At(p)[IF i < p THEN i ELSE i + 1] = rs[i]
             /\ \A i \in 1..(n + 1) :
                   At(p)[i] = IF i < p THEN rs[i] ELSE IF i = p THEN r ELSE rs[i - 1]
             /\ At(p)[p] = r
  <2>1. At(p) = SubSeq(rs, 1, p - 1) \o <<r>> \o SubSeq(rs, p, n)
      BY DEF S!InsertAt, n
  <2>2. /\ SubSeq(rs, 1, p - 1) \in Seq(ByteRange) /\ Len(SubSeq(rs, 1, p - 1)) = p - 1
        /\ \A i \in 1..(p - 1) : SubSeq(rs, 1, p - 1)[i] = rs[i]
      BY <1>1 DEF n
  <2>3. /\ SubSeq(rs, p, n) \in Seq(ByteRange) /\ Len(SubSeq(rs, p, n)) = n + 1 - p
        /\ \A i \in 1..(n + 1 - p) : SubSeq(rs, p, n)[i] = rs[p + i - 1]
      BY <1>1 DEF n
  <2> DEFINE a == SubSeq(rs, 1, p - 1)
             b == SubSeq(rs, p, n)
  <2> HIDE DEF a, b
  <2>4. At(p) = a \o <<r>> \o b
      BY <2>1 DEF a, b
  <2>5. /\ a \in Seq(ByteRange) /\ Len(a) = p - 1
        /\ b \in Seq(ByteRange) /\ Len(b) = n + 1 - p
        /\ \A i \in 1..(p - 1) : a[i] = rs[i]
        /\ \A i \in 1..(n + 1 - p) : b[i] = rs[p + i - 1]
      BY <2>2, <2>3 DEF a, b
  <2> HIDE DEF At
  <2>6. /\ At(p) \in Seq(ByteRange) /\ Len(At(p)) = n + 1 /\ DOMAIN At(p) = 1..(n + 1)
    <3>1. <<r>> \in Seq(ByteRange) /\ Len(<<r>>) = 1
        OBVIOUS
    <3>2. a \o <<r>> \in Seq(ByteRange) /\ Len(a \o <<r>>) = p
        BY <2>5, <3>1
    <3> DEFINE c == a \o <<r>>
    <3> HIDE DEF c
    <3>3. c \in Seq(ByteRange) /\ Len(c) = p /\ At(p) = c \o b
        BY <2>4, <3>2 DEF c
    <3>4. At(p) \in Seq(ByteRange) /\ Len(At(p)) = Len(c) + Len(b)
      <4>1. c \o b \in Seq(ByteRange) /\ Len(c \o b) = Len(c) + Len(b)
          BY <2>5, <3>3, ConcatProperties
      <4> QED
          BY <3>3, <4>1, Zenon
    <3> QED
        BY <1>1, <2>5, <3>3, <3>4
  <2>7. ASSUME NEW i \in 1..(n + 1)
        PROVE  At(p)[i] = IF i < p THEN rs[i] ELSE IF i = p THEN r ELSE rs[i - 1]
    <3>1. CASE i < p
        BY <1>1, <2>4, <2>5, <3>1
    <3>2. CASE i = p
        BY <1>1, <2>4, <2>5, <3>2
    <3>3. CASE i > p
      <4>1. At(p)[i] = b[i - p] /\ i - p \in 1..(n + 1 - p)
          BY SMTT(30), <1>1, <2>4, <2>5, <3>3
      <4> QED
          BY <1>1, <2>5, <3>3, <4>1
    <3> QED
        BY <1>1, <3>1, <3>2, <3>3
  <2>8. \A i \in 1..n : At(p)[IF i < p THEN i ELSE i + 1] = rs[i]
    <3> SUFFICES ASSUME NEW i \in 1..n PROVE At(p)[IF i < p THEN i ELSE i + 1] = rs[i]
        OBVIOUS
    <3>1. CASE i < p
        BY <1>1, <2>7, <3>1
    <3>2. CASE ~(i < p)
      <4>1. i + 1 \in 1..(n + 1) /\ ~(i + 1 < p) /\ i + 1 # p /\ (i + 1) - 1 = i
          BY <1>1, <3>2
      <4> QED
          BY <2>7, <3>2, <4>1
    <3> QED
        BY <3>1, <3>2
  <2> QED
      BY <2>6, <2>7, <2>8
<1> HIDE DEF At
<1>6. \E p \in 1..(n + 1) : InOrder(At(p))
  <2> DEFINE Later == {i \in 1..n : rs[i].start >= r.start}
  <2>1. ASSUME NEW p \in 1..(n + 1),
               \A i \in 1..n : i < p => rs[i].start < r.start,
               \A i \in 1..n : i >= p => rs[i].start >= r.start
        PROVE  InOrder(At(p))
    <3> SUFFICES ASSUME NEW i \in 1..(n + 1), NEW j \in 1..(n + 1), i < j
                 PROVE  At(p)[i].start <= At(p)[j].start
        BY <1>5
    <3>1. /\ At(p)[i] = IF i < p THEN rs[i] ELSE IF i = p THEN r ELSE rs[i - 1]
          /\ At(p)[j] = IF j < p THEN rs[j] ELSE IF j = p THEN r ELSE rs[j - 1]
        BY <1>5
    <3>2. CASE j < p
        BY <1>1, <1>4, <3>1, <3>2
    <3>3. CASE j = p
        BY <1>1, <1>2, <2>1, <3>1, <3>3
    <3>4. CASE j > p /\ i < p
      <4>1. j - 1 \in 1..n /\ i \in 1..n /\ (i < j - 1 \/ i = j - 1)
          BY <1>1, <3>4
      <4>2. rs[i].start <= rs[j - 1].start
          BY <1>1, <1>2, <1>4, <4>1
      <4> QED
          BY <1>1, <3>1, <3>4, <4>2
    <3>5. CASE j > p /\ i = p
      <4>1. j - 1 \in 1..n /\ j - 1 >= p
          BY <1>1, <3>5
      <4>2. rs[j - 1].start >= r.start
          BY <2>1, <4>1
      <4> QED
          BY <1>1, <1>2, <3>1, <3>5, <4>1, <4>2
    <3>6. CASE j > p /\ i > p
      <4>1. j - 1 \in 1..n /\ i - 1 \in 1..n /\ i - 1 < j - 1
          BY <1>1, <3>6
      <4>2. rs[i - 1].start <= rs[j - 1].start
          BY <1>4, <4>1
      <4> QED
          BY <1>1, <3>1, <3>6, <4>2
    <3> QED
        BY <1>1, <3>2, <3>3, <3>4, <3>5, <3>6
  <2>2. CASE Later = {}
    <3>1. n + 1 \in 1..(n + 1) /\ \A i \in 1..n : rs[i].start < r.start
        BY <1>1, <1>2, <2>2
    <3>2. \A i \in 1..n : ~(i >= n + 1)
        BY <1>1
    <3>3. InOrder(At(n + 1))
        BY <2>1, <3>1, <3>2
    <3> QED
        BY <3>1, <3>3
  <2>3. CASE Later # {}
    <3>0. Later \in SUBSET Nat
        BY <1>1
    <3>1. PICK p \in Later : \A j \in Later : p <= j
      <4> HIDE DEF Later
      <4> QED
          BY <2>3, <3>0, Least
    <3>2. p \in 1..(n + 1) /\ p \in 1..n
        BY <1>1
    <3>3. ASSUME NEW i \in 1..n, i < p PROVE rs[i].start < r.start
        BY <1>1, <1>2, <3>1, <3>3
    <3>4. ASSUME NEW i \in 1..n, i >= p PROVE rs[i].start >= r.start
      <4>1. rs[p].start >= r.start /\ (p < i \/ p = i)
          BY <1>1, <3>1, <3>2, <3>4
      <4>2. rs[p].start <= rs[i].start
          BY <1>1, <1>2, <1>4, <3>2, <4>1
      <4> QED
          BY <1>1, <1>2, <3>2, <4>1, <4>2
    <3> QED
        BY <2>1, <3>2, <3>3, <3>4
  <2> QED
      BY <2>2, <2>3
<1> HIDE DEF InOrder
<1>7. PICK p \in 1..(n + 1) : Sorted(rs, r) = At(p) /\ InOrder(At(p))
  <2>1. Sorted(rs, r) = CHOOSE s \in {At(q) : q \in 1..(n + 1)} : InOrder(s)
      BY DEF Sorted, At, InOrder, n
  <2>2. \E s \in {At(q) : q \in 1..(n + 1)} : InOrder(s)
      BY <1>6
  <2> QED
      BY <2>1, <2>2
<1>8. \A i, j \in 1..(n + 1) : i < j => At(p)[i].start <= At(p)[j].start
    BY <1>5, <1>7 DEF InOrder
<1> QED
    BY <1>5, <1>7, <1>8 DEF n

\* The loop of Add over a list that is sorted by the starts.
LEMMA LoopKeeps ==
    ASSUME NEW s \in Seq(ByteRange), s # << >>,
           \A i \in 1..Len(s) : s[i].start < s[i].end,
           \A i, j \in 1..Len(s) : i < j => s[i].start <= s[j].start
    PROVE  LET x == MergedUpTo(s)[Len(s)]
           IN  /\ WellFormed(x)
               /\ \A u : u \in Covered(x) <=> \E i \in 1..Len(s) : u \in UnitsIn(s[i])
<1> DEFINE U(n) == MergedUpTo(s)[n]
           Good(n) == /\ WellFormed(U(n)) /\ U(n) # << >>
                      /\ U(n)[Len(U(n))].start <= s[n].start
                      /\ \A u : u \in Covered(U(n)) <=> \E i \in 1..n : u \in UnitsIn(s[i])
           Bad == {n \in 1..Len(s) : ~Good(n)}
<1>1. /\ Len(s) \in Nat \ {0} /\ \A i \in 1..Len(s) : s[i] \in ByteRange
    OBVIOUS
<1>2. \A q \in ByteRange : q.start \in Int /\ q.end \in Int
    BY SizeAssumption DEF ByteRange
<1>3. Good(1)
  <2>0. 1 \in 1..Len(s) /\ s[1] \in ByteRange /\ s[1].start \in Int
      BY <1>1, <1>2
  <2>1. U(1) = <<s[1]>>
      BY <2>0, MergedUpToIs
  <2> DEFINE x == <<s[1]>>
  <2>2. x \in Seq(ByteRange) /\ Len(x) = 1 /\ DOMAIN x = 1..1 /\ x[1] = s[1]
      BY <1>1
  <2> HIDE DEF x
  <2>3. WellFormed(x)
      BY <1>1, <2>2 DEF WellFormed
  <2>4. \A u : u \in Covered(x) <=> \E i \in 1..1 : u \in UnitsIn(s[i])
      BY <2>2, CoveredBy
  <2>5. x # << >> /\ x[Len(x)].start <= s[1].start
    <3>1. x # << >>
        BY <2>2
    <3>2. x[Len(x)] = s[1]
        BY <2>2, Zenon
    <3>3. s[1].start <= s[1].start
        BY <2>0
    <3> QED
        BY <3>1, <3>2, <3>3, Zenon
  <2>6. U(1) = x
      BY <2>1 DEF x
  <2> HIDE DEF U
  <2> QED
      BY <2>3, <2>4, <2>5, <2>6
<1>4. ASSUME NEW n \in 1..(Len(s) - 1), Good(n) PROVE Good(n + 1)
  <2>1. /\ n + 1 \in 1..Len(s) /\ n + 1 # 1 /\ (n + 1) - 1 = n /\ n \in 1..Len(s) /\ n < n + 1
      BY <1>1
  <2>2. U(n + 1) = Merge(U(n), s[n + 1])
      BY <2>1, MergedUpToIs
  <2> DEFINE m == U(n)
             r == s[n + 1]
  <2>3. WellFormed(m) /\ m # << >> /\ m[Len(m)] \in ByteRange
      BY <1>4 DEF WellFormed
  <2>4. r \in ByteRange /\ r.start < r.end /\ s[n].start <= r.start /\ s[n] \in ByteRange
      BY <1>1, <2>1
  <2>5. m[Len(m)].start <= s[n].start
      BY <1>4
  <2> HIDE DEF r
  <2>6. m[Len(m)].start <= r.start
    <3> HIDE DEF U
    <3> QED
        BY <1>2, <2>3, <2>4, <2>5
  <2>7. /\ WellFormed(Merge(m, r)) /\ Merge(m, r) # << >>
        /\ Merge(m, r)[Len(Merge(m, r))].start <= r.start
        /\ Covered(Merge(m, r)) = Covered(m) \cup UnitsIn(r)
    <3> HIDE DEF U
    <3> QED
        BY <2>3, <2>4, <2>6, MergeKeeps
  <2>8. U(n + 1) = Merge(m, r)
      BY <2>2 DEF r
  <2>9. \A u : u \in Covered(m) <=> \E i \in 1..n : u \in UnitsIn(s[i])
      BY <1>4
  <2> HIDE DEF U
  <2>10. ASSUME NEW u
         PROVE  u \in Covered(U(n + 1)) <=> \E i \in 1..(n + 1) : u \in UnitsIn(s[i])
      BY <2>1, <2>7, <2>8, <2>9 DEF r
  <2> QED
      BY <2>7, <2>8, <2>10 DEF r
<1>5. \A n \in 1..Len(s) : Good(n)
  <2>1. SUFFICES ASSUME Bad # {} PROVE FALSE
      OBVIOUS
  <2> HIDE DEF Good
  <2>0. Bad \in SUBSET Nat
      OBVIOUS
  <2>2. PICK m \in Bad : \A j \in Bad : m <= j
    <3> HIDE DEF Bad
    <3> QED
        BY <2>0, <2>1, Least
  <2>3. m # 1 /\ m \in 1..Len(s) /\ m - 1 \in 1..(Len(s) - 1) /\ (m - 1) + 1 = m
      BY <1>1, <1>3, <2>2
  <2>4. Good(m - 1)
      BY <1>1, <2>2, <2>3
  <2> QED
      BY <1>4, <2>2, <2>3, <2>4
<1>6. Good(Len(s))
  <2> HIDE DEF Good
  <2> QED
      BY <1>1, <1>5
<1> QED
    BY <1>6

\* Add keeps the list in order, and covers what it covered and the new range.
LEMMA AddKeeps ==
    ASSUME NEW rs, WellFormed(rs),
           NEW start \in 0..Size, NEW end \in 1..Size + 1, start < end
    PROVE  /\ WellFormed(Add(rs, start, end))
           /\ Covered(Add(rs, start, end)) = Covered(rs) \cup (start + 1 .. end)
<1> DEFINE r == [start |-> start, end |-> end]
           n == Len(rs)
           s == Sorted(rs, r)
<1>1. r \in ByteRange /\ r.start = start /\ r.end = end
    BY DEF ByteRange
<1>2. n \in Nat /\ DOMAIN rs = 1..n /\ \A i \in 1..n : rs[i].start < rs[i].end
    BY DEF WellFormed
<1>3. PICK p \in 1..(n + 1) :
          /\ s \in Seq(ByteRange) /\ Len(s) = n + 1
          /\ \A i \in 1..n : s[IF i < p THEN i ELSE i + 1] = rs[i]
          /\ s[p] = r
          /\ \A i, j \in 1..Len(s) : i < j => s[i].start <= s[j].start
  <2> HIDE DEF r
  <2> QED
      BY <1>1, SortedIs
<1> HIDE DEF r, n, s
<1>4. ASSUME NEW i \in 1..(n + 1)
      PROVE  s[i] = r \/ \E j \in 1..n : s[i] = rs[j]
  <2>1. CASE i < p
      BY <1>2, <1>3, <2>1
  <2>2. CASE i = p
      BY <1>3, <2>2
  <2>3. CASE i > p
    <3>1. i - 1 \in 1..n /\ ~(i - 1 < p) /\ (i - 1) + 1 = i
        BY <1>2, <2>3
    <3> QED
        BY <1>3, <3>1
  <2> QED
      BY <1>2, <2>1, <2>2, <2>3
<1>5. \A i \in 1..Len(s) : s[i].start < s[i].end
    BY <1>1, <1>2, <1>3, <1>4
<1>6. s # << >>
    BY <1>2, <1>3
<1>7. Add(rs, start, end) = MergedUpTo(s)[Len(s)]
    BY DEF Add, s, r
<1>8. /\ WellFormed(Add(rs, start, end))
      /\ \A u : u \in Covered(Add(rs, start, end)) <=> \E i \in 1..Len(s) : u \in UnitsIn(s[i])
    BY <1>3, <1>5, <1>6, <1>7, LoopKeeps
<1>9. ASSUME NEW u
      PROVE  (\E i \in 1..Len(s) : u \in UnitsIn(s[i])) <=> u \in Covered(rs) \/ u \in UnitsIn(r)
  <2>1. u \in Covered(rs) <=> \E j \in 1..n : u \in UnitsIn(rs[j])
      BY <1>2, CoveredBy
  <2>2. ASSUME NEW i \in 1..Len(s), u \in UnitsIn(s[i])
        PROVE  u \in Covered(rs) \/ u \in UnitsIn(r)
      BY <1>3, <1>4, <2>1, <2>2
  <2>3. ASSUME NEW j \in 1..n, u \in UnitsIn(rs[j])
        PROVE  \E i \in 1..Len(s) : u \in UnitsIn(s[i])
    <3>1. (IF j < p THEN j ELSE j + 1) \in 1..Len(s)
        BY <1>2, <1>3
    <3> QED
        BY <1>3, <2>3, <3>1
  <2>4. p \in 1..Len(s)
      BY <1>3
  <2> QED
      BY <1>3, <2>1, <2>2, <2>3, <2>4
<1>10. UnitsIn(r) = start + 1 .. end
    BY <1>1 DEF UnitsIn
<1> QED
    BY <1>8, <1>9, <1>10

-----------------------------------------------------------------------------
(* The inductive invariant                                                 *)

BlockSteps   == {"open", "write", "mark", "verify", "flush"}
UploadSteps  == {"check", "save", "commit", "unlock again"}
CleanupSteps == {"closing", "unlinking", "forgetting"}
Steps == {"idle", "load", "lock"} \cup BlockSteps \cup UploadSteps \cup CleanupSteps
Ops == {None, "write", "complete", "abort", "reap"}

Call == [pc : Steps, op : Ops, st : Nat, chunk : Chunk, seen : Seq(ByteRange), file : BOOLEAN]

TypeInv ==
    /\ opts \in Options
    /\ begin \in {"create", "save", "store", "done", "lost"}
    /\ data \in [1..Size + 1 -> {"hole", "good", "bad"}]
    /\ linked \in BOOLEAN
    /\ meta = None \/ meta \in Seq(ByteRange)
    /\ states \in Seq(State)
    /\ current \in 0..Len(states)
    /\ call \in [Caller -> Call]
    /\ acked \subseteq 1..Size + 1
    /\ restarts \in Nat

\* Which steps a call goes through, and from which on it has a state object.
CallOK(t) ==
    /\ call[t].st \in 0..Len(states)
    /\ call[t].st = 0 <=> call[t].pc \in {"idle", "load"}
    /\ call[t].pc \in BlockSteps => call[t].op = "write" /\ ~RangesMode
    /\ call[t].pc \in UploadSteps => call[t].op = "complete"
    /\ call[t].pc \in CleanupSteps => call[t].op \in {"complete", "abort", "reap"}
    /\ call[t].pc \in {"load", "lock"} => call[t].op \in {"write", "complete", "abort", "reap"}
    /\ call[t].pc = "lock" /\ call[t].op \in {"write", "complete"} => RangesMode
    /\ call[t].pc = "unlock again" => RangesMode

CallsInv == \A t \in Caller : CallOK(t)

Written == {u \in 1..Size + 1 : data[u] # "hole"}

\* A list that stands in the metadata file, a state object or a local variable.
IsList(rs, written) == WellFormed(rs) /\ Covered(rs) \subseteq written

ListsInv ==
    /\ meta # None => IsList(meta, Written)
    /\ \A g \in 1..Len(states) : IsList(states[g].ranges, Written)
    /\ \A t \in Caller : IsList(call[t].seen, Written)

\* Nobody works on the session before Begin has returned.
BeginInv ==
    /\ begin \in {"create", "save", "store"} =>
          /\ states = << >> /\ current = 0 /\ acked = {}
          /\ \A t \in Caller : call[t].pc = "idle"
    /\ begin \in {"create", "save"} => meta = None
    /\ begin \in {"save", "store"} => linked
    /\ begin = "store" => meta = << >>
    /\ begin = "done" /\ linked => meta # None

\* As long as the data is there, no more than one state object stands for it.
OneState == linked => current = Len(states) /\ current \in {0, 1}

Holds(t) == RangesMode /\ call[t].pc \in {"check", "save", "commit", "closing", "unlinking"}

\* In ranges mode the mutex is with the one who checks, hands out or removes
\* the data; without its name the data file cannot be opened again.
MutexInv ==
    /\ \A t \in Caller : linked /\ Holds(t) => My(t).mu = t
    /\ \A t \in Caller : call[t].pc \in {"unlock again", "forgetting"} => ~linked
    /\ \A t \in Caller : RangesMode /\ call[t].pc \in {"save", "commit"} => linked
    /\ \A t \in Caller : RangesMode /\ call[t].pc = "unlinking" /\ linked => ~My(t).handle
    /\ RangesMode /\ ~linked => \A g \in 1..Len(states) : ~states[g].handle

\* In ranges mode the metadata file is as good as the state object.
RangesInv ==
    RangesMode /\ linked =>
        /\ current # 0 => meta = states[current].ranges
        /\ \A t \in Caller : current = 0 /\ call[t].pc = "load" => call[t].seen = meta
        /\ acked \subseteq IF meta = None THEN {} ELSE Covered(meta)

ChunkUnits(t) == call[t].chunk.lo .. call[t].chunk.hi

\* In the block modes a bit is set after the block was written.
BlocksInv ==
    ~RangesMode =>
        /\ \A g \in 1..Len(states) : states[g].received \subseteq Written
        /\ \A t \in Caller : call[t].pc \in {"mark", "verify", "flush"} =>
              ChunkUnits(t) \subseteq Written \cap Unit
        /\ \A t \in Caller : call[t].pc \in {"verify", "flush"} =>
              ChunkUnits(t) \subseteq My(t).received
        /\ linked /\ restarts = 0 =>
              acked \subseteq IF current = 0 THEN {} ELSE states[current].received

\* What Check has found stays true until the upload is closed; where chunks are
\* checked before they are written no unit is bad.
ReadyRanges(rs) ==
    /\ opts.sized => FileSize = Size
    /\ IsComplete(rs, IF opts.sized THEN Size ELSE FileSize)
    /\ opts.whole => Intact

DataInv ==
    /\ ~RangesMode /\ opts.checked => \A u \in 1..Size + 1 :
          data[u] # "hole" => u <= Size /\ data[u] = "good"
    /\ \A t \in Caller : call[t].pc \in {"save", "commit"} =>
          IF RangesMode THEN ReadyRanges(My(t).ranges) ELSE My(t).received = Unit

StagingInv ==
    /\ TypeInv /\ CallsInv /\ ListsInv /\ BeginInv /\ OneState
    /\ MutexInv /\ RangesInv /\ BlocksInv /\ DataInv

-----------------------------------------------------------------------------
(* Steps                                                                   *)

LEMMA OptsAre ==
    ASSUME TypeInv
    PROVE  /\ opts.mode \in {"ranges", "blocks", "pieces"}
           /\ opts.sized \in BOOLEAN /\ opts.whole \in BOOLEAN /\ opts.checked \in BOOLEAN
           /\ ~RangesMode => opts.sized
BY OptionsAssumption DEF TypeInv, BeginOptions, RangesMode

\* A call that has begun, and has its object.
LEMMA CallIs ==
    ASSUME TypeInv, CallsInv, BeginInv, NEW t \in Caller
    PROVE  /\ call[t] \in Call
           /\ call[t].pc # "idle" => begin \in {"done", "lost"}
           /\ call[t].pc \notin {"idle", "load"} =>
                 call[t].st \in 1..Len(states) /\ My(t) \in State /\ My(t) = states[call[t].st]
           /\ Len(states) \in Nat
<1>1. call[t] \in Call /\ Len(states) \in Nat
    BY DEF TypeInv
<1>2. call[t].pc # "idle" => begin \in {"done", "lost"}
    BY DEF TypeInv, BeginInv
<1>3. call[t].pc \notin {"idle", "load"} => call[t].st \in 1..Len(states)
  <2>1. call[t].st \in 0..Len(states) /\ (call[t].st = 0 <=> call[t].pc \in {"idle", "load"})
      BY DEF CallsInv, CallOK
  <2> QED
      BY <1>1, <2>1
<1>4. \A g \in 1..Len(states) : states[g] \in State
    BY DEF TypeInv
<1> QED
    BY <1>1, <1>2, <1>3, <1>4 DEF My

\* A call goes on, or returns.
LEMMA IdleIs ==
    /\ Idle \in Call /\ Idle.pc = "idle" /\ Idle.op = None
    /\ Idle.st = 0 /\ Idle.seen = << >>
<1>1. NoChunk \in Chunk
    BY SizeAssumption DEF NoChunk, Chunk, Unit
<1> QED
    BY <1>1 DEF Idle, Call, Steps, Ops

LEMMA GotoIs ==
    ASSUME TypeInv, NEW t \in Caller, NEW pc \in Steps, Goto(t, pc)
    PROVE  /\ call' \in [Caller -> Call]
           /\ \A u \in Caller : u # t => call'[u] = call[u]
           /\ call'[t].pc = pc /\ call'[t].op = call[t].op /\ call'[t].st = call[t].st
           /\ call'[t].chunk = call[t].chunk /\ call'[t].seen = call[t].seen
<1>1. call \in [Caller -> Call] /\ call[t] \in Call
    BY DEF TypeInv
<1>2. call'[t] = [call[t] EXCEPT !.pc = pc] /\ \A u \in Caller : u # t => call'[u] = call[u]
    BY <1>1 DEF Goto
<1>3. [call[t] EXCEPT !.pc = pc] \in Call
    BY <1>1 DEF Call
<1>4. call' \in [Caller -> Call]
    BY <1>1, <1>3 DEF Goto
<1> QED
    BY <1>1, <1>2, <1>4 DEF Call

LEMMA ReturnIs ==
    ASSUME TypeInv, NEW t \in Caller, Return(t)
    PROVE  /\ call' \in [Caller -> Call]
           /\ \A u \in Caller : u # t => call'[u] = call[u]
           /\ call'[t].pc = "idle" /\ call'[t].op = None /\ call'[t].st = 0
           /\ call'[t].seen = << >>
<1>1. call \in [Caller -> Call]
    BY DEF TypeInv
<1> QED
    BY <1>1, IdleIs DEF Return

\* The step of t makes s of its object.
LEMMA BecomesIs ==
    ASSUME TypeInv, NEW t \in Caller, call[t].st \in 1..Len(states),
           NEW s \in State, MyBecomes(t, s)
    PROVE  /\ states' \in Seq(State) /\ Len(states') = Len(states)
           /\ states'[call[t].st] = s
           /\ \A g \in 1..Len(states) : g # call[t].st => states'[g] = states[g]
BY DEF TypeInv, MyBecomes

LEMMA CallsKept ==
    ASSUME CallsInv, NEW t \in Caller, opts' = opts, Len(states) \in Nat, Len(states') \in Nat,
           Len(states') >= Len(states),
           \A u \in Caller : u # t => call'[u] = call[u],
           CallOK(t)'
    PROVE  CallsInv'
<1> SUFFICES ASSUME NEW u \in Caller, u # t PROVE CallOK(u)'
    BY DEF CallsInv
<1>1. CallOK(u) /\ call'[u] = call[u] /\ (RangesMode' <=> RangesMode)
    BY DEF CallsInv, RangesMode
<1>2. call[u].st \in 0..Len(states)
    BY <1>1 DEF CallOK
<1>3. call[u].st \in 0..Len(states')
    BY <1>2
<1> HIDE DEF RangesMode
<1> QED
    BY <1>1, <1>3, Zenon DEF CallOK

-----------------------------------------------------------------------------
(* What most steps of a call have in common                                *)

\* Where the step of t leaves t.
OrderlyCall(t) ==
    /\ call' \in [Caller -> Call]
    /\ \A u \in Caller : u # t =>
          /\ call'[u].pc = call[u].pc /\ call'[u].op = call[u].op /\ call'[u].st = call[u].st
          /\ call'[u].chunk = call[u].chunk /\ call'[u].seen = call[u].seen
    /\ CallOK(t)'
    /\ call'[t].seen \in {call[t].seen, << >>} \/ (meta # None /\ call'[t].seen = meta)
    /\ current = 0 /\ call'[t].pc = "load" => call'[t].seen = meta
    /\ call'[t].pc \in {"mark", "verify", "flush"} => ChunkUnits(t)' \subseteq Written' \cap Unit
    /\ call'[t].pc \in {"verify", "flush"} =>
          ChunkUnits(t)' \subseteq states'[call'[t].st].received
    /\ call'[t].pc \in {"save", "commit"} =>
          IF RangesMode THEN linked' /\ ReadyRanges(states'[call'[t].st].ranges)
          ELSE states'[call'[t].st].received = Unit
    /\ linked' /\ Holds(t)' => states'[call'[t].st].mu = t
    /\ call'[t].pc \in {"unlock again", "forgetting"} => ~linked'
    /\ RangesMode /\ linked' /\ call'[t].pc = "unlinking" => ~states'[call'[t].st].handle

\* What it does to the files.
OrderlyFiles(t) ==
    /\ linked' \in BOOLEAN /\ (linked' => linked)
    /\ linked /\ ~linked' => call[t].pc = "unlinking"
    /\ data' \in [1..Size + 1 -> {"hole", "good", "bad"}]
    /\ Written \subseteq Written'
    /\ RangesMode => data' = data
    /\ ~RangesMode /\ opts.checked => \A u \in 1..Size + 1 :
          data'[u] # "hole" => u <= Size /\ data'[u] = "good"
    /\ \/ meta' = meta
       \/ meta' = None /\ ~linked
       \/ meta' = My(t).ranges /\ call[t].st # 0 /\ (RangesMode => linked)
    /\ \/ acked' = acked
       \/ ~RangesMode /\ call[t].pc = "flush" /\ acked' = acked \cup ChunkUnits(t)

\* What it does to the state objects.
OrderlyStates(t) ==
    /\ states' \in Seq(State) /\ Len(states') = Len(states)
    /\ current' = current \/ (current' = 0 /\ ~linked)
    /\ \A g \in 1..Len(states) :
          /\ states'[g].ranges = states[g].ranges
          /\ states[g].received \subseteq states'[g].received
          /\ ~RangesMode => states'[g].received \subseteq Written
          /\ RangesMode /\ states'[g].handle => states[g].handle
          /\ linked /\ states'[g].mu # states[g].mu => states[g].mu \in {None, t}

Orderly(t) ==
    /\ opts' = opts /\ restarts' = restarts /\ begin' = begin /\ begin \in {"done", "lost"}
    /\ OrderlyCall(t) /\ OrderlyFiles(t) /\ OrderlyStates(t)

LEMMA OrderlyKeeps ==
    ASSUME StagingInv, NEW t \in Caller, Orderly(t)
    PROVE  StagingInv'
<1>o. /\ opts' = opts /\ restarts' = restarts /\ begin' = begin /\ begin \in {"done", "lost"}
      /\ OrderlyCall(t) /\ OrderlyFiles(t) /\ OrderlyStates(t)
      /\ (RangesMode' <=> RangesMode)
    BY DEF Orderly, RangesMode
<1>i. /\ TypeInv /\ CallsInv /\ ListsInv /\ BeginInv /\ OneState
      /\ MutexInv /\ RangesInv /\ BlocksInv /\ DataInv
    BY DEF StagingInv
<1>s. states \in Seq(State) /\ Len(states) \in Nat /\ current \in 0..Len(states)
    BY <1>i DEF TypeInv
<1>t. \A u \in Caller : call[u] \in Call /\ call'[u] \in Call
    BY <1>i, <1>o DEF TypeInv, OrderlyCall
<1>m. call[t].st # 0 => call[t].st \in 1..Len(states) /\ My(t) = states[call[t].st]
  <2>1. call[t].st \in 0..Len(states)
      BY <1>i DEF CallsInv, CallOK
  <2> QED
      BY <2>1, <1>s DEF My
<1>1. CallsInv'
  <2> SUFFICES ASSUME NEW u \in Caller, u # t PROVE CallOK(u)'
      BY <1>o DEF CallsInv, OrderlyCall
  <2>1. /\ CallOK(u) /\ (RangesMode' <=> RangesMode) /\ Len(states') = Len(states)
        /\ call'[u].pc = call[u].pc /\ call'[u].op = call[u].op /\ call'[u].st = call[u].st
      BY <1>i, <1>o DEF CallsInv, OrderlyCall, OrderlyStates
  <2> HIDE DEF RangesMode
  <2> QED
      BY <2>1, Zenon DEF CallOK
<1>2. ListsInv'
  <2>1. /\ meta # None => IsList(meta, Written)
        /\ \A g \in 1..Len(states) : IsList(states[g].ranges, Written)
        /\ \A u \in Caller : IsList(call[u].seen, Written)
      BY <1>i DEF ListsInv
  <2>2. \A rs : IsList(rs, Written) => IsList(rs, Written')
      BY <1>o DEF OrderlyFiles, IsList
  <2>3. IsList(<< >>, Written)
      BY DEF IsList, WellFormed, Covered
  <2>4. \A g \in 1..Len(states') : IsList(states'[g].ranges, Written')
      BY <1>o, <2>1, <2>2 DEF OrderlyStates
  <2>5. \A u \in Caller : IsList(call'[u].seen, Written')
      BY <1>o, <2>1, <2>2, <2>3 DEF OrderlyCall
  <2>6. meta' # None => IsList(meta', Written')
      BY <1>o, <1>m, <2>1, <2>2 DEF OrderlyFiles
  <2> QED
      BY <2>4, <2>5, <2>6 DEF ListsInv
<1>3. TypeInv'
  <2>1. /\ opts' \in Options /\ restarts' \in Nat
        /\ begin' \in {"create", "save", "store", "done", "lost"}
      BY <1>i, <1>o DEF TypeInv
  <2>2. linked' \in BOOLEAN /\ data' \in [1..Size + 1 -> {"hole", "good", "bad"}]
      BY <1>o DEF OrderlyFiles
  <2>3. states' \in Seq(State) /\ current' \in 0..Len(states') /\ call' \in [Caller -> Call]
    <3>1. /\ states' \in Seq(State) /\ Len(states') = Len(states)
          /\ current' = current \/ current' = 0
        BY <1>o DEF OrderlyStates
    <3>2. call' \in [Caller -> Call]
        BY <1>o DEF OrderlyCall
    <3> QED
        BY <1>s, <3>1, <3>2
  <2>4. meta' = None \/ meta' \in Seq(ByteRange)
      BY <1>2 DEF ListsInv, IsList, WellFormed
  <2>5. ChunkUnits(t) \subseteq 1..Size + 1
      BY <1>t, SizeAssumption DEF Call, Chunk, Unit, ChunkUnits
  <2>6. acked' \subseteq 1..Size + 1
      BY <1>i, <1>o, <2>5 DEF TypeInv, OrderlyFiles
  <2> QED
      BY <2>1, <2>2, <2>3, <2>4, <2>6 DEF TypeInv
<1>4. BeginInv'
  <2>1. begin' = "done" /\ linked' => meta' # None
    <3>1. \A g \in 1..Len(states) : states[g].ranges # None
      <4> SUFFICES ASSUME NEW g \in 1..Len(states) PROVE states[g].ranges # None
          OBVIOUS
      <4>1. states[g] \in State
          BY <1>s
      <4> QED
          BY <4>1, StagingNoneAssumption DEF State
    <3> QED
        BY <1>i, <1>o, <1>m, <3>1 DEF BeginInv, OrderlyFiles
  <2> QED
      BY <1>o, <2>1 DEF BeginInv
<1>5. OneState'
    BY <1>i, <1>o DEF OneState, OrderlyFiles, OrderlyStates
<1>6. MutexInv'
  <2>1. linked /\ Holds(t) => My(t).mu = t
      BY <1>i DEF MutexInv
  <2>2. ASSUME NEW u \in Caller, u # t
        PROVE  /\ (Holds(u)' <=> Holds(u)) /\ call'[u].pc = call[u].pc /\ call'[u].st = call[u].st
               /\ call[u].pc # "idle" /\ call[u].pc # "load" => call[u].st \in 1..Len(states)
    <3>1. call'[u].pc = call[u].pc /\ call'[u].st = call[u].st
        BY <2>2, <1>o DEF OrderlyCall
    <3>2. call[u].st \in 0..Len(states) /\ (call[u].st = 0 <=> call[u].pc \in {"idle", "load"})
        BY <1>i DEF CallsInv, CallOK
    <3> HIDE DEF RangesMode
    <3> QED
        BY <3>1, <3>2, <1>o, <1>s DEF Holds
  <2>3. ASSUME NEW u \in Caller, linked', Holds(u)' PROVE My(u)'.mu = u
    <3>1. CASE u = t
        BY <2>3, <3>1, <1>o DEF OrderlyCall, My
    <3>2. CASE u # t
      <4>1. linked /\ Holds(u) /\ My(u).mu = u /\ call[u].st \in 1..Len(states)
          BY <2>2, <2>3, <3>2, <1>i, <1>o DEF MutexInv, OrderlyFiles, Holds
      <4>2. states'[call[u].st].mu = states[call[u].st].mu \/ states[call[u].st].mu \in {None, t}
          BY <4>1, <1>o DEF OrderlyStates
      <4> QED
          BY <4>1, <4>2, <2>2, <3>2, StagingNoneAssumption DEF My
    <3> QED
        BY <3>1, <3>2
  <2>4. ASSUME NEW u \in Caller, call'[u].pc \in {"unlock again", "forgetting"} PROVE ~linked'
    <3>1. CASE u = t
        BY <2>4, <3>1, <1>o DEF OrderlyCall
    <3>2. CASE u # t
        BY <2>2, <2>4, <3>2, <1>i, <1>o DEF MutexInv, OrderlyFiles
    <3> QED
        BY <3>1, <3>2
  \* The object that all holders of its mutex share while the data is there.
  <2>5. ASSUME NEW u \in Caller, u # t, linked, Holds(u), Holds(t) PROVE FALSE
    <3>1. call[u].st \in 1..Len(states) /\ call[t].st \in 1..Len(states)
        BY <2>2, <2>5, <1>m, <1>i DEF Holds, CallsInv, CallOK
    <3>2. call[u].st = call[t].st
        BY <3>1, <2>5, <1>i, <1>s DEF OneState
    <3> QED
        BY <3>2, <2>1, <2>5, <1>i DEF MutexInv, My
  <2>6. ASSUME NEW u \in Caller, RangesMode, call'[u].pc \in {"save", "commit"} PROVE linked'
    <3>1. CASE u = t
        BY <2>6, <3>1, <1>o DEF OrderlyCall
    <3>2. CASE u # t
      <4>1. linked /\ Holds(u)
          BY <2>2, <2>6, <3>2, <1>i DEF MutexInv, Holds
      <4>2. ~linked' => Holds(t)
          BY <4>1, <2>6, <1>o DEF OrderlyFiles, Holds
      <4> QED
          BY <4>1, <4>2, <2>5, <3>2
    <3> QED
        BY <3>1, <3>2
  <2>7. ASSUME NEW u \in Caller, RangesMode, call'[u].pc = "unlinking", linked'
        PROVE  ~My(u)'.handle
    <3>1. CASE u = t
        BY <2>7, <3>1, <1>o DEF OrderlyCall, My
    <3>2. CASE u # t
      <4>1. linked /\ ~My(u).handle /\ call[u].st \in 1..Len(states)
          BY <2>2, <2>7, <3>2, <1>i, <1>o DEF MutexInv, OrderlyFiles
      <4>2. states'[call[u].st].handle => states[call[u].st].handle
          BY <4>1, <2>7, <1>o DEF OrderlyStates
      <4> QED
          BY <4>1, <4>2, <2>2, <3>2 DEF My
    <3> QED
        BY <3>1, <3>2
  <2>8. ASSUME RangesMode, ~linked', NEW g \in 1..Len(states) PROVE ~states'[g].handle
    <3>1. ~states[g].handle
      <4>1. CASE linked
        <5>1. call[t].pc = "unlinking" /\ ~My(t).handle
            BY <2>8, <4>1, <1>i, <1>o DEF OrderlyFiles, MutexInv
        <5>2. call[t].st = g
          <6>1. call[t].st # 0
              BY <5>1, <1>i DEF CallsInv, CallOK
          <6>2. Len(states) \in {0, 1}
              BY <4>1, <1>i DEF OneState
          <6> QED
              BY <6>1, <6>2, <1>m, <2>8
        <5> QED
            BY <5>1, <5>2 DEF My
      <4>2. CASE ~linked
          BY <4>2, <2>8, <1>i DEF MutexInv
      <4> QED
          BY <4>1, <4>2
    <3> QED
        BY <3>1, <2>8, <1>o DEF OrderlyStates
  <2>9. Len(states') = Len(states)
      BY <1>o DEF OrderlyStates
  <2> HIDE DEF RangesMode
  <2> QED
      BY <2>3, <2>4, <2>6, <2>7, <2>8, <2>9, <1>o DEF MutexInv
<1>7. RangesInv'
  <2> SUFFICES ASSUME RangesMode, linked'
               PROVE  /\ current # 0 => meta' = states'[current].ranges
                      /\ \A u \in Caller :
                            current = 0 /\ call'[u].pc = "load" => call'[u].seen = meta'
                      /\ acked' \subseteq IF meta' = None THEN {} ELSE Covered(meta')
                      /\ current' = current
      BY <1>o DEF RangesInv, OrderlyStates
  <2>1. linked /\ current' = current
      BY <1>o DEF OrderlyFiles, OrderlyStates
  <2>2. meta' = meta
    <3>1. CASE meta' = My(t).ranges /\ call[t].st # 0
      <4>1. current = call[t].st
          BY <3>1, <2>1, <1>m, <1>s, <1>i DEF OneState
      <4> QED
          BY <3>1, <4>1, <2>1, <1>m, <1>i DEF RangesInv
    <3> QED
        BY <3>1, <2>1, <1>o DEF OrderlyFiles
  <2>3. acked' = acked
      BY <1>o DEF OrderlyFiles
  <2>4. current # 0 => current \in 1..Len(states)
      BY <1>s
  <2>5. current # 0 => meta' = states'[current].ranges
      BY <2>1, <2>2, <2>4, <1>i, <1>o DEF RangesInv, OrderlyStates
  <2>6. \A u \in Caller : current = 0 /\ call'[u].pc = "load" => call'[u].seen = meta'
    <3> SUFFICES ASSUME NEW u \in Caller, current = 0, call'[u].pc = "load"
                 PROVE  call'[u].seen = meta'
        OBVIOUS
    <3>1. CASE u = t
        BY <3>1, <2>2, <1>o DEF OrderlyCall
    <3>2. CASE u # t
        BY <3>2, <2>1, <2>2, <1>i, <1>o DEF RangesInv, OrderlyCall
    <3> QED
        BY <3>1, <3>2
  <2> QED
      BY <2>1, <2>2, <2>3, <2>5, <2>6, <1>i DEF RangesInv
<1>8. BlocksInv'
  <2> SUFFICES ASSUME ~RangesMode PROVE BlocksInv'
      BY <1>o DEF BlocksInv
  <2>b. /\ \A g \in 1..Len(states) : states[g].received \subseteq Written
        /\ \A u \in Caller : call[u].pc \in {"mark", "verify", "flush"} =>
              ChunkUnits(u) \subseteq Written \cap Unit
        /\ \A u \in Caller : call[u].pc \in {"verify", "flush"} =>
              ChunkUnits(u) \subseteq My(u).received
        /\ linked /\ restarts = 0 =>
              acked \subseteq IF current = 0 THEN {} ELSE states[current].received
      BY <1>i DEF BlocksInv
  <2>1. \A g \in 1..Len(states') : states'[g].received \subseteq Written'
      BY <1>o DEF OrderlyStates, OrderlyFiles
  <2>2. ASSUME NEW u \in Caller, u # t
        PROVE  /\ call'[u].pc = call[u].pc /\ call'[u].st = call[u].st
               /\ ChunkUnits(u)' = ChunkUnits(u)
      BY <2>2, <1>o DEF OrderlyCall, ChunkUnits
  <2>3. ASSUME NEW u \in Caller, call'[u].pc \in {"mark", "verify", "flush"}
        PROVE  ChunkUnits(u)' \subseteq Written' \cap Unit
    <3>1. CASE u = t
        BY <2>3, <3>1, <1>o DEF OrderlyCall
    <3>2. CASE u # t
        BY <2>2, <2>3, <3>2, <2>b, <1>o DEF OrderlyFiles
    <3> QED
        BY <3>1, <3>2
  <2>4. ASSUME NEW u \in Caller, call'[u].pc \in {"verify", "flush"}
        PROVE  ChunkUnits(u)' \subseteq My(u)'.received
    <3>1. CASE u = t
        BY <2>4, <3>1, <1>o DEF OrderlyCall, My
    <3>2. CASE u # t
      <4>1. call[u].st \in 0..Len(states) /\ (call[u].st = 0 <=> call[u].pc \in {"idle", "load"})
          BY <1>i DEF CallsInv, CallOK
      <4>2. call[u].st \in 1..Len(states)
          BY <4>1, <2>2, <2>4, <3>2, <1>s
      <4>3. ChunkUnits(u) \subseteq states[call[u].st].received
          BY <2>2, <2>4, <3>2, <2>b DEF My
      <4> QED
          BY <4>2, <4>3, <2>2, <3>2, <1>o DEF OrderlyStates, My
    <3> QED
        BY <3>1, <3>2
  <2>5. ASSUME linked', restarts' = 0
        PROVE  acked' \subseteq IF current' = 0 THEN {} ELSE states'[current'].received
    <3>1. linked /\ restarts = 0 /\ current' = current
        BY <2>5, <1>o DEF OrderlyFiles, OrderlyStates
    <3>2. CASE acked' = acked
        BY <3>1, <3>2, <2>b, <1>s, <1>o DEF OrderlyStates
    <3>3. CASE call[t].pc = "flush" /\ acked' = acked \cup ChunkUnits(t)
      <4>1. call[t].st \in 1..Len(states) /\ current = call[t].st /\ current # 0
        <5>1. call[t].st # 0
            BY <3>3, <1>i DEF CallsInv, CallOK
        <5>2. current = Len(states) /\ current \in {0, 1}
            BY <3>1, <1>i DEF OneState
        <5> QED
            BY <5>1, <5>2, <1>m
      <4>2. /\ ChunkUnits(t) \subseteq states[current].received
            /\ acked \subseteq states[current].received
          BY <3>1, <3>3, <4>1, <2>b DEF My
      <4>3. states[current].received \subseteq states'[current].received
          BY <4>1, <1>o DEF OrderlyStates
      <4> QED
          BY <3>1, <3>3, <4>1, <4>2, <4>3
    <3> QED
        BY <3>2, <3>3, <1>o DEF OrderlyFiles
  <2> QED
      BY <2>1, <2>3, <2>4, <2>5 DEF BlocksInv
<1>9. DataInv'
  <2>1. ~RangesMode /\ opts.checked => \A u \in 1..Size + 1 :
          data'[u] # "hole" => u <= Size /\ data'[u] = "good"
      BY <1>o DEF OrderlyFiles
  <2>2. ASSUME RangesMode PROVE \A rs : ReadyRanges(rs)' <=> ReadyRanges(rs)
      BY <2>2, <1>o DEF OrderlyFiles, ReadyRanges, FileSize, Intact
  <2>3. ASSUME NEW u \in Caller, call'[u].pc \in {"save", "commit"}
        PROVE  IF RangesMode THEN ReadyRanges(My(u)'.ranges) ELSE My(u)'.received = Unit
    <3>1. CASE u = t
        BY <2>3, <3>1, <1>o DEF OrderlyCall, My
    <3>2. CASE u # t
      <4>1. call'[u].st = call[u].st /\ call[u].pc \in {"save", "commit"}
          BY <2>3, <3>2, <1>o DEF OrderlyCall
      <4>2. call[u].st \in 1..Len(states)
        <5>1. call[u].st \in 0..Len(states) /\ call[u].st # 0
            BY <4>1, <1>i DEF CallsInv, CallOK
        <5> QED
            BY <5>1, <1>s
      <4>3. IF RangesMode THEN ReadyRanges(My(u).ranges) ELSE My(u).received = Unit
          BY <4>1, <1>i DEF DataInv
      <4>4. My(u) = states[call[u].st] /\ My(u)' = states'[call[u].st]
          BY <4>1 DEF My
      <4>5. /\ states'[call[u].st].ranges = states[call[u].st].ranges
            /\ states[call[u].st].received \subseteq states'[call[u].st].received
            /\ states'[call[u].st] \in State
          BY <4>2, <1>o DEF OrderlyStates
      <4>6. states'[call[u].st].received \subseteq Unit
          BY <4>5 DEF State
      <4>7. My(u)'.ranges = My(u).ranges /\ (My(u).received = Unit => My(u)'.received = Unit)
        <5>1. My(u)'.ranges = My(u).ranges
            BY <4>4, <4>5
        <5>2. My(u).received \subseteq My(u)'.received /\ My(u)'.received \subseteq Unit
            BY <4>4, <4>5, <4>6
        <5> QED
            BY <5>1, <5>2
      <4>8. ASSUME RangesMode PROVE ReadyRanges(My(u)'.ranges)
        <5>1. ReadyRanges(My(u).ranges)
            BY <4>3, <4>8
        <5> QED
            BY <5>1, <4>7, Zenon
      <4> QED
          BY <4>3, <4>7, <4>8
    <3> QED
        BY <3>1, <3>2
  <2> HIDE DEF RangesMode, ReadyRanges
  <2> QED
      BY <2>1, <2>2, <2>3, <1>o DEF DataInv
<1> QED
    BY <1>1, <1>2, <1>3, <1>4, <1>5, <1>6, <1>7, <1>8, <1>9 DEF StagingInv

-----------------------------------------------------------------------------
(* The parts of an orderly step                                            *)

LEMMA FilesLeft ==
    ASSUME StagingInv, NEW t \in Caller, UNCHANGED <<opts, data, linked, acked>>,
           \/ meta' = meta
           \/ meta' = None /\ ~linked
           \/ meta' = My(t).ranges /\ call[t].st # 0 /\ (RangesMode => linked)
    PROVE  OrderlyFiles(t)
<1>1. /\ linked \in BOOLEAN /\ data \in [1..Size + 1 -> {"hole", "good", "bad"}]
      /\ ~RangesMode /\ opts.checked => \A u \in 1..Size + 1 :
          data[u] # "hole" => u <= Size /\ data[u] = "good"
    BY DEF StagingInv, TypeInv, DataInv
<1>2. data' = data /\ linked' = linked /\ acked' = acked
    OBVIOUS
<1>3. Written' = Written
    BY <1>2 DEF Written
<1> QED
    BY <1>1, <1>2, <1>3 DEF OrderlyFiles

LEMMA StatesLeft ==
    ASSUME StagingInv, NEW t \in Caller, UNCHANGED states,
           current' = current \/ (current' = 0 /\ ~linked)
    PROVE  OrderlyStates(t)
<1>1. /\ states \in Seq(State)
      /\ ~RangesMode => \A g \in 1..Len(states) : states[g].received \subseteq Written
    BY DEF StagingInv, TypeInv, BlocksInv
<1> QED
    BY <1>1 DEF OrderlyStates

LEMMA StateBecomes ==
    ASSUME StagingInv, NEW t \in Caller, current' = current \/ (current' = 0 /\ ~linked),
           call[t].pc \notin {"idle", "load"},
           NEW s \in State, MyBecomes(t, s),
           s.ranges = My(t).ranges, My(t).received \subseteq s.received,
           ~RangesMode => s.received \subseteq Written,
           RangesMode /\ s.handle => My(t).handle,
           s.mu # My(t).mu => My(t).mu \in {None, t} \/ ~linked
    PROVE  OrderlyStates(t) /\ states'[call[t].st] = s
<1>1. /\ states \in Seq(State)
      /\ ~RangesMode => \A g \in 1..Len(states) : states[g].received \subseteq Written
    BY DEF StagingInv, TypeInv, BlocksInv
<1>2. call[t].st \in 1..Len(states) /\ My(t) = states[call[t].st]
    BY CallIs DEF StagingInv
<1>3. /\ states' \in Seq(State) /\ Len(states') = Len(states) /\ states'[call[t].st] = s
      /\ \A g \in 1..Len(states) : g # call[t].st => states'[g] = states[g]
    BY <1>2, BecomesIs DEF StagingInv
<1>4. ASSUME NEW g \in 1..Len(states)
      PROVE  /\ states'[g].ranges = states[g].ranges
             /\ states[g].received \subseteq states'[g].received
             /\ ~RangesMode => states'[g].received \subseteq Written
             /\ RangesMode /\ states'[g].handle => states[g].handle
             /\ linked /\ states'[g].mu # states[g].mu => states[g].mu \in {None, t}
  <2>1. CASE g = call[t].st
      BY <2>1, <1>2, <1>3
  <2>2. CASE g # call[t].st
      BY <2>2, <1>1, <1>3
  <2> QED
      BY <2>1, <2>2
<1> HIDE DEF RangesMode
<1> QED
    BY <1>3, <1>4 DEF OrderlyStates

LEMMA Returned ==
    ASSUME StagingInv, NEW t \in Caller, Return(t), Len(states') = Len(states)
    PROVE  OrderlyCall(t)
<1>1. /\ call' \in [Caller -> Call]
      /\ \A u \in Caller : u # t => call'[u] = call[u]
      /\ call'[t].pc = "idle" /\ call'[t].op = None /\ call'[t].st = 0
      /\ call'[t].seen = << >>
    BY ReturnIs DEF StagingInv
<1>2. CallOK(t)'
  <2>1. Len(states') \in Nat
      BY DEF StagingInv, TypeInv
  <2> QED
      BY <1>1, <2>1 DEF CallOK, BlockSteps, UploadSteps, CleanupSteps
<1> QED
    BY <1>1, <1>2 DEF OrderlyCall, Holds

\* The process stops: what is in the files stays.
LEMMA StoppedKeeps ==
    ASSUME StagingInv, Stopped, UNCHANGED <<opts, data, linked, acked>>,
           begin' \in {"done", "lost"}, begin' = "done" => begin = "done",
           meta' = meta \/ (meta' = None /\ ~linked),
           restarts' \in Nat, linked => restarts' # 0
    PROVE  StagingInv'
<1>i. /\ TypeInv /\ CallsInv /\ ListsInv /\ BeginInv /\ OneState
      /\ MutexInv /\ RangesInv /\ BlocksInv /\ DataInv
    BY DEF StagingInv
<1>s. /\ states' = << >> /\ current' = 0 /\ Len(states') = 0
      /\ opts' = opts /\ data' = data /\ linked' = linked /\ acked' = acked
      /\ (RangesMode' <=> RangesMode) /\ Written' = Written
    BY DEF Stopped, RangesMode, Written
<1>c. /\ call' \in [Caller -> Call]
      /\ \A t \in Caller : /\ call'[t].pc = "idle" /\ call'[t].op = None /\ call'[t].st = 0
                          /\ call'[t].seen = << >>
    BY IdleIs DEF Stopped
<1> HIDE DEF RangesMode
<1>1. TypeInv'
    BY <1>i, <1>s, <1>c DEF TypeInv
<1>2. CallsInv'
  <2> SUFFICES ASSUME NEW t \in Caller PROVE CallOK(t)'
      BY DEF CallsInv
  <2>1. call'[t].pc = "idle" /\ call'[t].op = None /\ call'[t].st = 0 /\ 0 \in 0..Len(states')
      BY <1>s, <1>c
  <2> QED
      BY <2>1 DEF CallOK, BlockSteps, UploadSteps, CleanupSteps
<1>3. ListsInv'
  <2>1. IsList(<< >>, Written)
      BY DEF IsList, WellFormed, Covered
  <2>2. meta' # None => IsList(meta', Written)
      BY <1>i DEF ListsInv
  <2> QED
      BY <1>s, <1>c, <2>1, <2>2 DEF ListsInv
<1>4. BeginInv'
    BY <1>i, <1>s DEF BeginInv
<1>5. OneState'
    BY <1>s DEF OneState
<1>6. MutexInv'
  <2>1. \A t \in Caller : ~Holds(t)' /\ call'[t].pc = "idle"
      BY <1>c DEF Holds
  <2>2. \A g \in 1..Len(states') : FALSE
      BY <1>s
  <2> QED
      BY <2>1, <2>2, Zenon DEF MutexInv
<1>7. RangesInv'
    BY <1>i, <1>s, <1>c DEF RangesInv
<1>8. BlocksInv'
    BY <1>s, <1>c DEF BlocksInv
<1>9. DataInv'
    BY <1>i, <1>s, <1>c DEF DataInv
<1> QED
    BY <1>1, <1>2, <1>3, <1>4, <1>5, <1>6, <1>7, <1>8, <1>9 DEF StagingInv

LEMMA UnlockKeeps ==
    ASSUME StagingInv, NEW t \in Caller,
           call[t].pc \notin {"idle", "load"}, My(t).mu = None => ~linked,
           NEW sessions, sessions = current \/ (sessions = 0 /\ ~linked),
           UnlockAndReturn(t, sessions),
           linked => My(t).mu = t,
           UNCHANGED <<opts, begin, data, linked, acked, restarts>>,
           meta' = meta \/ (meta' = None /\ ~linked)
    PROVE  StagingInv'
<1>1. CASE My(t).mu = None
  <2>1. Stopped /\ ~linked /\ UNCHANGED <<opts, data, linked, acked>>
      BY <1>1 DEF UnlockAndReturn
  <2>2. begin' \in {"done", "lost"} /\ begin' = begin /\ restarts' \in Nat
      BY CallIs DEF StagingInv, TypeInv
  <2> QED
      BY <2>1, <2>2, StoppedKeeps
<1>2. CASE My(t).mu # None
  <2> DEFINE s == [My(t) EXCEPT !.mu = None]
  <2>1. MyBecomes(t, s) /\ current' = sessions /\ Return(t)
      BY <1>2 DEF UnlockAndReturn
  <2>2. My(t) \in State /\ call[t].st \in 1..Len(states)
      BY CallIs DEF StagingInv
  <2>3. /\ s \in State /\ s.ranges = My(t).ranges /\ s.received = My(t).received
        /\ s.handle = My(t).handle /\ s.mu = None
      BY <2>2 DEF State
  <2>4. ~RangesMode => s.received \subseteq Written
      BY <2>2, <2>3 DEF StagingInv, BlocksInv, My
  <2> HIDE DEF s
  <2>5. OrderlyStates(t)
      BY <2>1, <2>3, <2>4, StateBecomes
  <2>6. OrderlyFiles(t)
      BY FilesLeft
  <2>7. OrderlyCall(t)
      BY <2>1, <2>5, Returned DEF OrderlyStates
  <2>8. begin \in {"done", "lost"}
      BY CallIs DEF StagingInv
  <2> QED
      BY <2>5, <2>6, <2>7, <2>8, OrderlyKeeps DEF Orderly
<1> QED
    BY <1>1, <1>2

LEMMA LeaveKeeps ==
    ASSUME StagingInv, NEW t \in Caller,
           call[t].pc \in {"check", "commit", "forgetting"},
           call[t].pc = "check" => linked \/ ~RangesMode,
           NEW sessions, sessions = current \/ (sessions = 0 /\ ~linked),
           Leave(t, sessions),
           UNCHANGED <<opts, begin, data, linked, acked, restarts>>,
           meta' = meta \/ (meta' = None /\ ~linked)
    PROVE  StagingInv'
<1>c. CallOK(t) /\ (call[t].pc = "forgetting" => ~linked) /\ (linked /\ Holds(t) => My(t).mu = t)
    BY DEF StagingInv, CallsInv, MutexInv
<1>1. CASE call[t].op = "complete" /\ ~RangesMode
  <2>1. current' = sessions /\ Return(t) /\ UNCHANGED states
      BY <1>1 DEF Leave
  <2>2. OrderlyStates(t)
      BY <2>1, StatesLeft
  <2>3. OrderlyFiles(t)
      BY FilesLeft
  <2>4. OrderlyCall(t)
      BY <2>1, Returned
  <2>5. begin \in {"done", "lost"}
      BY CallIs DEF StagingInv
  <2> QED
      BY <2>2, <2>3, <2>4, <2>5, OrderlyKeeps DEF Orderly
<1>2. CASE ~(call[t].op = "complete" /\ ~RangesMode)
  <2>1. UnlockAndReturn(t, sessions)
      BY <1>2 DEF Leave
  <2>2. linked => Holds(t)
      BY <1>2, <1>c DEF CallOK, Holds, UploadSteps
  <2>3. linked => My(t).mu = t /\ My(t).mu # None
      BY <2>2, <1>c, StagingNoneAssumption
  <2> QED
      BY <2>1, <2>3, UnlockKeeps
<1> QED
    BY <1>1, <1>2

LEMMA Ranged ==
    ASSUME NEW n \in Nat, NEW g \in 1..n
    PROVE  g # 0 /\ g \in 0..n
OBVIOUS

\* A call goes on to the next step.
LEMMA Went ==
    ASSUME StagingInv, NEW t \in Caller, NEW pc \in Steps, Goto(t, pc), opts' = opts,
           call[t].pc \notin {"idle", "load"}, pc \notin {"idle", "load", "lock"},
           Len(states') = Len(states),
           pc \in BlockSteps => call[t].op = "write" /\ ~RangesMode,
           pc \in UploadSteps => call[t].op = "complete",
           pc \in CleanupSteps => call[t].op \in {"complete", "abort", "reap"},
           pc \in {"mark", "verify", "flush"} => ChunkUnits(t) \subseteq Written' \cap Unit,
           pc \in {"verify", "flush"} => ChunkUnits(t) \subseteq states'[call[t].st].received,
           pc \in {"save", "commit"} =>
              IF RangesMode THEN linked' /\ ReadyRanges(states'[call[t].st].ranges)
              ELSE states'[call[t].st].received = Unit,
           linked' /\ RangesMode /\ pc \in {"check", "save", "commit", "closing", "unlinking"} =>
              states'[call[t].st].mu = t,
           pc = "unlock again" => RangesMode,
           pc \in {"unlock again", "forgetting"} => ~linked',
           RangesMode /\ linked' /\ pc = "unlinking" => ~states'[call[t].st].handle
    PROVE  OrderlyCall(t)
<1>1. /\ call' \in [Caller -> Call]
      /\ \A u \in Caller : u # t => call'[u] = call[u]
      /\ call'[t].pc = pc /\ call'[t].op = call[t].op /\ call'[t].st = call[t].st
      /\ call'[t].chunk = call[t].chunk /\ call'[t].seen = call[t].seen
    BY GotoIs DEF StagingInv
<1>2. ChunkUnits(t)' = ChunkUnits(t) /\ (RangesMode' <=> RangesMode)
    BY <1>1 DEF ChunkUnits, RangesMode
<1>3. call[t].st \in 1..Len(states) /\ call[t].st # 0 /\ call'[t].st \in 0..Len(states')
  <2>1. call[t].st \in 1..Len(states) /\ Len(states) \in Nat
      BY CallIs DEF StagingInv
  <2>2. call[t].st # 0 /\ call[t].st \in 0..Len(states)
      BY <2>1, Ranged
  <2>3. call'[t].st \in 0..Len(states')
      BY <1>1, <2>2, Zenon
  <2> QED
      BY <2>1, <2>2, <2>3
<1> HIDE DEF RangesMode
<1>4. CallOK(t)'
    BY <1>1, <1>2, <1>3 DEF CallOK
<1>5. Holds(t)' => RangesMode /\ pc \in {"check", "save", "commit", "closing", "unlinking"}
    BY <1>1, <1>2 DEF Holds
<1> HIDE DEF ReadyRanges
<1> QED
    BY <1>1, <1>2, <1>4, <1>5 DEF OrderlyCall

-----------------------------------------------------------------------------
(* The block modes                                                         *)

LEMMA OpenFileKeeps ==
    ASSUME StagingInv, NEW t \in Caller, OpenFile(t)
    PROVE  StagingInv'
<1>1. /\ call[t].pc = "open"
      /\ UNCHANGED <<opts, begin, data, linked, meta, current, acked, restarts>>
    BY DEF OpenFile
<1>2. /\ begin \in {"done", "lost"} /\ My(t) \in State /\ My(t) = states[call[t].st]
      /\ call[t].st \in 1..Len(states) /\ Len(states) \in Nat /\ call[t] \in Call
      /\ call[t].op = "write" /\ ~RangesMode
    BY <1>1, CallIs DEF StagingInv, CallsInv, CallOK, BlockSteps
<1>3. OrderlyFiles(t)
    BY <1>1, FilesLeft
<1>4. CASE CanOpen(t)
  <2> DEFINE s == [My(t) EXCEPT !.handle = TRUE]
  <2>1. MyBecomes(t, s) /\ call' = [call EXCEPT ![t].pc = "write", ![t].file = TRUE]
      BY <1>4 DEF OpenFile
  <2>2. s \in State /\ s.ranges = My(t).ranges /\ s.received = My(t).received /\ s.mu = My(t).mu
      BY <1>2 DEF State
  <2>3. s.received \subseteq Written
      BY <1>2, <2>2 DEF StagingInv, BlocksInv
  <2> HIDE DEF s
  <2>4. OrderlyStates(t)
      BY <1>1, <1>2, <2>1, <2>2, <2>3, StateBecomes
  <2>5. /\ call' \in [Caller -> Call]
        /\ \A u \in Caller : u # t => call'[u] = call[u]
        /\ call'[t].pc = "write" /\ call'[t].op = call[t].op /\ call'[t].st = call[t].st
        /\ call'[t].seen = call[t].seen
    <3>1. call \in [Caller -> Call]
        BY DEF StagingInv, TypeInv
    <3>2. [call[t] EXCEPT !.pc = "write", !.file = TRUE] \in Call
        BY <1>2 DEF Call, Steps, BlockSteps
    <3> QED
        BY <2>1, <3>1, <3>2 DEF Call
  <2>6. CallOK(t)' /\ ~Holds(t)'
    <3>1. (RangesMode' <=> RangesMode) /\ call[t].st \in 0..Len(states') /\ call[t].st # 0
        BY <1>1, <1>2, <2>4 DEF OrderlyStates, RangesMode
    <3> HIDE DEF RangesMode
    <3> QED
        BY <1>2, <2>5, <3>1 DEF CallOK, Holds, BlockSteps, UploadSteps, CleanupSteps
  <2>7. OrderlyCall(t)
      BY <1>2, <2>5, <2>6 DEF OrderlyCall
  <2> QED
      BY <1>1, <1>2, <1>3, <2>4, <2>7, OrderlyKeeps DEF Orderly
<1>5. CASE ~CanOpen(t)
  <2>1. Return(t) /\ UNCHANGED states
      BY <1>5 DEF OpenFile
  <2> QED
      BY <1>1, <1>2, <1>3, <2>1, StatesLeft, Returned, OrderlyKeeps DEF Orderly
<1> QED
    BY <1>4, <1>5

LEMMA WriteBlocksKeeps ==
    ASSUME StagingInv, NEW t \in Caller, WriteBlocks(t)
    PROVE  StagingInv'
<1> DEFINE c == call[t].chunk
<1>1. /\ call[t].pc = "write"
      /\ UNCHANGED <<opts, begin, linked, meta, states, current, acked, restarts>>
    BY DEF WriteBlocks
<1>2. /\ begin \in {"done", "lost"} /\ call[t] \in Call /\ call[t].op = "write" /\ ~RangesMode
      /\ opts.sized
    BY <1>1, CallIs, OptsAre DEF StagingInv, CallsInv, CallOK, BlockSteps
<1>3. /\ c \in Chunk /\ c.lo \in 1..Size /\ c.hi \in 1..Size + 1 /\ c.lo <= c.hi
    BY <1>2 DEF Call, Chunk, Unit
<1>4. data \in [1..Size + 1 -> {"hole", "good", "bad"}]
    BY DEF StagingInv, TypeInv
<1>5. \A last \in Int : /\ WrittenTo(c, last) \in [1..Size + 1 -> {"hole", "good", "bad"}]
                         /\ \A u \in 1..Size + 1 :
                               data[u] # "hole" => WrittenTo(c, last)[u] # "hole"
    BY <1>4 DEF WrittenTo
<1>6. \A last \in CutAt(c) : last \in Int
    BY <1>3, SizeAssumption DEF CutAt
<1>7. /\ data' = data \/ \E last \in Int : data' = WrittenTo(c, last)
      /\ opts.checked => data' = data \/ (c.bad = {} /\ Fits(c) /\ data' = WrittenTo(c, c.hi))
      /\ Return(t) \/ (Goto(t, "mark") /\ Fits(c) /\ data' = WrittenTo(c, c.hi))
  <2>1. opts.checked => ~Streams
      BY DEF Streams
  <2>2. c.hi \in Int
      BY <1>3, SizeAssumption
  <2> QED
      BY <2>1, <2>2, <1>6 DEF WriteBlocks
<1>8. data' \in [1..Size + 1 -> {"hole", "good", "bad"}] /\ Written \subseteq Written'
    BY <1>4, <1>5, <1>7 DEF Written
<1>9. opts.checked => \A u \in 1..Size + 1 : data'[u] # "hole" => u <= Size /\ data'[u] = "good"
  <2>1. opts.checked => \A u \in 1..Size + 1 : data[u] # "hole" => u <= Size /\ data[u] = "good"
      BY <1>2 DEF StagingInv, DataInv
  <2>2. ASSUME opts.checked, c.bad = {}, Fits(c), data' = WrittenTo(c, c.hi),
               NEW u \in 1..Size + 1, data'[u] # "hole"
        PROVE  u <= Size /\ data'[u] = "good"
      BY <2>1, <2>2, <1>2, <1>3, <1>4, SizeAssumption DEF WrittenTo, Fits
  <2> QED
      BY <1>7, <2>1, <2>2
<1>10. OrderlyFiles(t)
  <2>1. linked \in BOOLEAN
      BY DEF StagingInv, TypeInv
  <2> QED
      BY <1>1, <1>2, <1>8, <1>9, <2>1 DEF OrderlyFiles
<1>11. OrderlyStates(t)
    BY <1>1, StatesLeft
<1>12. ASSUME Goto(t, "mark"), Fits(c), data' = WrittenTo(c, c.hi)
       PROVE  OrderlyCall(t)
  <2>1. ChunkUnits(t) \subseteq Written' \cap Unit
      BY <1>2, <1>3, <1>4, <1>12, SizeAssumption DEF ChunkUnits, Written, WrittenTo, Fits, Unit
  <2> HIDE DEF c
  <2> QED
      BY <1>1, <1>2, <1>12, <2>1, Went DEF Steps, BlockSteps, UploadSteps, CleanupSteps
<1> HIDE DEF c
<1>13. OrderlyCall(t)
    BY <1>1, <1>7, <1>12, Returned
<1> QED
    BY <1>1, <1>2, <1>10, <1>11, <1>13, OrderlyKeeps DEF Orderly

LEMMA MarkReceivedKeeps ==
    ASSUME StagingInv, NEW t \in Caller, MarkReceived(t)
    PROVE  StagingInv'
<1> DEFINE c == call[t].chunk
           s == [My(t) EXCEPT !.received = Mark(@, c)]
           next == IF opts.mode = "pieces" THEN "verify" ELSE "flush"
<1>1. /\ call[t].pc = "mark" /\ MyBecomes(t, s) /\ Goto(t, next)
      /\ UNCHANGED <<opts, begin, data, linked, meta, current, acked, restarts>>
    BY DEF MarkReceived
<1>2. /\ begin \in {"done", "lost"} /\ call[t] \in Call /\ call[t].op = "write" /\ ~RangesMode
      /\ My(t) \in State /\ My(t) = states[call[t].st] /\ call[t].st \in 1..Len(states)
    BY <1>1, CallIs DEF StagingInv, CallsInv, CallOK, BlockSteps
<1>3. ChunkUnits(t) \subseteq Written \cap Unit
    BY <1>1, <1>2 DEF StagingInv, BlocksInv
<1>4. /\ s \in State /\ s.ranges = My(t).ranges /\ s.mu = My(t).mu
      /\ s.received = My(t).received \cup ChunkUnits(t)
  <2>1. My(t).received \cup ChunkUnits(t) \subseteq Unit
      BY <1>2, <1>3 DEF State
  <2> QED
      BY <1>2, <2>1 DEF State, Mark, ChunkUnits
<1>5. s.received \subseteq Written
  <2>1. My(t).received \subseteq Written
      BY <1>2 DEF StagingInv, BlocksInv
  <2> QED
      BY <2>1, <1>3, <1>4
<1> HIDE DEF s, c
<1>6. OrderlyStates(t) /\ states'[call[t].st] = s
    BY <1>1, <1>2, <1>4, <1>5, StateBecomes
<1>7. OrderlyFiles(t)
    BY <1>1, FilesLeft
<1>8. OrderlyCall(t)
  <2>1. Len(states') = Len(states) /\ Written' = Written
      BY <1>1, <1>6 DEF OrderlyStates, Written
  <2>2. next \in {"verify", "flush"}
      OBVIOUS
  <2> HIDE DEF next
  <2> QED
      BY <1>1, <1>2, <1>3, <1>4, <1>6, <2>1, <2>2, Went
         DEF Steps, BlockSteps, UploadSteps, CleanupSteps
<1> QED
    BY <1>1, <1>2, <1>6, <1>7, <1>8, OrderlyKeeps DEF Orderly

LEMMA VerifyPiecesKeeps ==
    ASSUME StagingInv, NEW t \in Caller, VerifyPieces(t)
    PROVE  StagingInv'
<1>1. /\ call[t].pc = "verify"
      /\ UNCHANGED <<opts, begin, data, linked, meta, current, acked, restarts>>
    BY DEF VerifyPieces
<1>2. /\ begin \in {"done", "lost"} /\ call[t] \in Call /\ call[t].op = "write" /\ ~RangesMode
      /\ My(t) \in State /\ My(t) = states[call[t].st] /\ call[t].st \in 1..Len(states)
    BY <1>1, CallIs DEF StagingInv, CallsInv, CallOK, BlockSteps
<1>3. /\ ChunkUnits(t) \subseteq Written \cap Unit
      /\ ChunkUnits(t) \subseteq My(t).received /\ My(t).received \subseteq Written
    BY <1>1, <1>2 DEF StagingInv, BlocksInv
<1>4. PICK good \in SUBSET ChunkUnits(t) :
         /\ MyBecomes(t, [My(t) EXCEPT !.verified = @ \cup good])
         /\ Return(t) \/ Goto(t, "flush")
  <2> DEFINE c     == call[t].chunk
             wrong == c.bad \ My(t).verified
             good  == IF wrong = {} THEN c.lo..c.hi ELSE c.lo .. Min(wrong) - 1
  <2>1. c.lo \in 1..Size /\ c.hi \in 1..Size + 1 /\ c.bad \subseteq c.lo..c.hi
      BY <1>2 DEF Call, Chunk, Unit
  <2>2. good \subseteq c.lo..c.hi
    <3>1. CASE wrong # {}
      <4>1. wrong \subseteq Nat /\ wrong \subseteq c.lo..c.hi
          BY <2>1, SizeAssumption
      <4>2. \E m \in wrong : \A j \in wrong : m <= j
          BY <3>1, <4>1, Least
      <4>3. Min(wrong) \in wrong
          BY <4>2 DEF Min
      <4> HIDE DEF wrong
      <4> QED
        <5>1. c.lo \in Int /\ c.hi \in Int /\ Min(wrong) \in Int /\ Min(wrong) <= c.hi
          <6>1. c.lo \in Int /\ c.hi \in Int
              BY <2>1, SizeAssumption
          <6>2. Min(wrong) \in c.lo..c.hi
              BY <4>1, <4>3
          <6> QED
              BY <6>1, <6>2
        <5>2. c.lo .. Min(wrong) - 1 \subseteq c.lo..c.hi
            BY <5>1
        <5> QED
            BY <3>1, <5>2
    <3>2. CASE wrong = {}
        BY <3>2
    <3> QED
        BY <3>1, <3>2
  <2> HIDE DEF good
  <2> QED
      BY <2>2 DEF VerifyPieces, ChunkUnits, good
<1> DEFINE s == [My(t) EXCEPT !.verified = @ \cup good]
<1>5. s \in State /\ s.ranges = My(t).ranges /\ s.mu = My(t).mu /\ s.received = My(t).received
    BY <1>2, <1>3 DEF State
<1> HIDE DEF s
<1>6. OrderlyStates(t) /\ states'[call[t].st] = s
    BY <1>1, <1>2, <1>3, <1>4, <1>5, StateBecomes DEF s
<1>7. OrderlyFiles(t)
    BY <1>1, FilesLeft
<1>8. OrderlyCall(t)
  <2>1. Len(states') = Len(states) /\ Written' = Written
      BY <1>1, <1>6 DEF OrderlyStates, Written
  <2>2. CASE Goto(t, "flush")
      BY <1>1, <1>2, <1>3, <1>5, <1>6, <2>1, <2>2, Went
         DEF Steps, BlockSteps, UploadSteps, CleanupSteps
  <2>3. CASE Return(t)
      BY <2>1, <2>3, Returned
  <2> QED
      BY <1>4, <2>2, <2>3
<1> QED
    BY <1>1, <1>2, <1>6, <1>7, <1>8, OrderlyKeeps DEF Orderly

LEMMA FlushMetaKeeps ==
    ASSUME StagingInv, NEW t \in Caller, FlushMeta(t)
    PROVE  StagingInv'
<1>1. /\ call[t].pc = "flush" /\ Return(t)
      /\ UNCHANGED <<opts, begin, data, linked, states, current, restarts>>
      /\ meta' = meta \/ meta' = My(t).ranges
      /\ acked' = acked \cup ChunkUnits(t)
    BY DEF FlushMeta, SavedMeta, ChunkUnits
<1>2. /\ begin \in {"done", "lost"} /\ ~RangesMode /\ call[t].st # 0
    BY <1>1, CallIs DEF StagingInv, CallsInv, CallOK, BlockSteps
<1>3. OrderlyFiles(t)
  <2>1. /\ linked \in BOOLEAN /\ data \in [1..Size + 1 -> {"hole", "good", "bad"}]
        /\ opts.checked => \A u \in 1..Size + 1 :
              data[u] # "hole" => u <= Size /\ data[u] = "good"
      BY <1>2 DEF StagingInv, TypeInv, DataInv
  <2>2. Written' = Written /\ data' = data /\ linked' = linked
      BY <1>1 DEF Written
  <2> QED
      BY <1>1, <1>2, <2>1, <2>2 DEF OrderlyFiles
<1>4. OrderlyStates(t)
    BY <1>1, StatesLeft
<1>5. OrderlyCall(t)
    BY <1>1, Returned
<1> QED
    BY <1>1, <1>2, <1>3, <1>4, <1>5, OrderlyKeeps DEF Orderly

-----------------------------------------------------------------------------
(* Complete, abort and reap                                                *)

LEMMA LockKeeps ==
    ASSUME StagingInv, NEW t \in Caller, Lock(t)
    PROVE  StagingInv'
<1>1. /\ call[t].pc = "lock" /\ call[t].op # "write" /\ My(t).mu = None
      /\ UNCHANGED <<opts, begin, data, linked, meta, current, acked, restarts>>
    BY DEF Lock
<1>2. /\ begin \in {"done", "lost"} /\ My(t) \in State /\ My(t) = states[call[t].st]
      /\ call[t].st \in 1..Len(states)
      /\ call[t].op \in {"complete", "abort", "reap"}
    BY <1>1, CallIs DEF StagingInv, CallsInv, CallOK
<1>3. OrderlyFiles(t)
    BY <1>1, FilesLeft
<1>4. CASE Return(t) /\ UNCHANGED states
    BY <1>1, <1>2, <1>3, <1>4, StatesLeft, Returned, OrderlyKeeps DEF Orderly
<1>5. CASE ~(Return(t) /\ UNCHANGED states)
  <2> DEFINE s == [My(t) EXCEPT !.mu = t]
             next == IF call[t].op = "complete" THEN "check" ELSE "closing"
  <2>1. MyBecomes(t, s) /\ Goto(t, next)
      BY <1>5 DEF Lock
  <2>2. /\ s \in State /\ s.ranges = My(t).ranges /\ s.received = My(t).received
        /\ s.handle = My(t).handle /\ s.mu = t
      BY <1>2 DEF State
  <2>3. ~RangesMode => s.received \subseteq Written
      BY <1>2, <2>2 DEF StagingInv, BlocksInv
  <2> HIDE DEF s
  <2>4. OrderlyStates(t) /\ states'[call[t].st] = s
      BY <1>1, <1>2, <2>1, <2>2, <2>3, StateBecomes
  <2>5. Len(states') = Len(states)
      BY <2>4 DEF OrderlyStates
  <2>6. OrderlyCall(t)
    <3>1. CASE call[t].op = "complete"
        BY <1>1, <1>2, <2>1, <2>2, <2>4, <2>5, <3>1, Went
           DEF Steps, BlockSteps, UploadSteps, CleanupSteps
    <3>2. CASE call[t].op # "complete"
        BY <1>1, <1>2, <2>1, <2>2, <2>4, <2>5, <3>2, Went
           DEF Steps, BlockSteps, UploadSteps, CleanupSteps
    <3> QED
        BY <3>1, <3>2
  <2> QED
      BY <1>1, <1>2, <1>3, <2>4, <2>6, OrderlyKeeps DEF Orderly
<1> QED
    BY <1>4, <1>5

\* What the tests of Complete come down to.
LEMMA ReadyMeans ==
    ASSUME TypeInv, NEW s, Ready(s)
    PROVE  IF RangesMode THEN ReadyRanges(s.ranges) ELSE s.received = Unit
<1>1. opts.mode \in {"ranges", "blocks", "pieces"}
    BY OptsAre
<1>2. CASE RangesMode
    BY <1>2 DEF Ready, ReadyRanges, RangesMode
<1>3. CASE ~RangesMode
    BY <1>1, <1>3 DEF Ready, RangesMode, AllMarked
<1> QED
    BY <1>2, <1>3

LEMMA CheckKeeps ==
    ASSUME StagingInv, NEW t \in Caller, Check(t)
    PROVE  StagingInv'
<1>1. call[t].pc = "check" /\ UNCHANGED <<opts, begin, data, linked, meta, acked, restarts>>
    BY DEF Check
<1>2. /\ begin \in {"done", "lost"} /\ My(t) \in State /\ My(t) = states[call[t].st]
      /\ call[t].st \in 1..Len(states) /\ call[t].op = "complete"
    BY <1>1, CallIs DEF StagingInv, CallsInv, CallOK, UploadSteps
<1>3. OrderlyFiles(t)
    BY <1>1, FilesLeft
<1>4. CASE /\ ~linked /\ RangesMode
           /\ MyBecomes(t, [My(t) EXCEPT !.mu = None])
           /\ Goto(t, "unlock again")
           /\ UNCHANGED current
  <2> DEFINE s == [My(t) EXCEPT !.mu = None]
  <2>1. /\ s \in State /\ s.ranges = My(t).ranges /\ s.received = My(t).received
        /\ s.handle = My(t).handle
      BY <1>2 DEF State
  <2>2. MyBecomes(t, s)
      BY <1>4
  <2> HIDE DEF s
  <2>3. OrderlyStates(t)
      BY <1>1, <1>2, <1>4, <2>1, <2>2, StateBecomes
  <2>4. Len(states') = Len(states)
      BY <2>3 DEF OrderlyStates
  <2>5. OrderlyCall(t)
      BY <1>1, <1>2, <1>4, <2>4, Went DEF Steps, BlockSteps, UploadSteps, CleanupSteps
  <2> QED
      BY <1>1, <1>2, <1>3, <2>3, <2>5, OrderlyKeeps DEF Orderly
<1>5. CASE linked /\ Ready(My(t)) /\ Goto(t, "save") /\ UNCHANGED <<states, current>>
  <2>1. IF RangesMode THEN ReadyRanges(My(t).ranges) ELSE My(t).received = Unit
      BY <1>5, ReadyMeans DEF StagingInv
  <2>2. RangesMode => My(t).mu = t
      BY <1>1, <1>5 DEF StagingInv, MutexInv, Holds
  <2>3. OrderlyStates(t)
      BY <1>5, StatesLeft
  <2>4. OrderlyCall(t)
    <3> HIDE DEF RangesMode, ReadyRanges
    <3> QED
        BY <1>1, <1>2, <1>5, <2>1, <2>2, Went DEF Steps, BlockSteps, UploadSteps, CleanupSteps
  <2> QED
      BY <1>1, <1>2, <1>3, <1>5, <2>3, <2>4, OrderlyKeeps DEF Orderly
<1>6. CASE (IF linked THEN ~Ready(My(t)) ELSE ~RangesMode) /\ Leave(t, current)
    BY <1>1, <1>6, LeaveKeeps
<1> QED
    BY <1>4, <1>5, <1>6 DEF Check

LEMMA UnlockAgainKeeps ==
    ASSUME StagingInv, NEW t \in Caller, UnlockAgain(t)
    PROVE  StagingInv'
<1>1. /\ call[t].pc = "unlock again" /\ UnlockAndReturn(t, current)
      /\ UNCHANGED <<opts, begin, data, linked, meta, acked, restarts>>
    BY DEF UnlockAgain
<1>2. ~linked
    BY <1>1 DEF StagingInv, MutexInv
<1> QED
    BY <1>1, <1>2, UnlockKeeps

LEMMA SaveMetaKeeps ==
    ASSUME StagingInv, NEW t \in Caller, SaveMeta(t)
    PROVE  StagingInv'
<1>1. /\ call[t].pc = "save" /\ meta' = My(t).ranges /\ Goto(t, "commit")
      /\ UNCHANGED <<opts, begin, data, linked, states, current, acked, restarts>>
    BY DEF SaveMeta, SavedMeta
<1>2. /\ begin \in {"done", "lost"} /\ My(t) \in State /\ My(t) = states[call[t].st]
      /\ call[t].st \in 1..Len(states) /\ call[t].st # 0 /\ call[t].op = "complete"
    BY <1>1, CallIs DEF StagingInv, CallsInv, CallOK, UploadSteps
<1>3. /\ IF RangesMode THEN ReadyRanges(My(t).ranges) ELSE My(t).received = Unit
      /\ RangesMode => linked
    BY <1>1 DEF StagingInv, DataInv, MutexInv
<1>4. RangesMode => My(t).mu = t
    BY <1>1, <1>3 DEF StagingInv, MutexInv, Holds
<1>5. OrderlyFiles(t)
    BY <1>1, <1>2, <1>3, FilesLeft
<1>6. OrderlyStates(t)
    BY <1>1, StatesLeft
<1>7. OrderlyCall(t)
  <2> HIDE DEF RangesMode, ReadyRanges
  <2> QED
      BY <1>1, <1>2, <1>3, <1>4, Went DEF Steps, BlockSteps, UploadSteps, CleanupSteps
<1> QED
    BY <1>1, <1>2, <1>5, <1>6, <1>7, OrderlyKeeps DEF Orderly

LEMMA CloseUploadKeeps ==
    ASSUME StagingInv, NEW t \in Caller, CloseUpload(t)
    PROVE  StagingInv'
<1>1. call[t].pc = "commit" /\ UNCHANGED <<opts, begin, data, linked, meta, acked, restarts>>
    BY DEF CloseUpload
<1>2. CASE Goto(t, "closing") /\ UNCHANGED <<states, current>>
  <2>1. /\ begin \in {"done", "lost"} /\ My(t) = states[call[t].st] /\ call[t].op = "complete"
      BY <1>1, CallIs DEF StagingInv, CallsInv, CallOK, UploadSteps
  <2>2. linked /\ RangesMode => My(t).mu = t
      BY <1>1 DEF StagingInv, MutexInv, Holds
  <2>3. OrderlyCall(t)
    <3> HIDE DEF RangesMode
    <3> QED
        BY <1>1, <1>2, <2>1, <2>2, Went DEF Steps, BlockSteps, UploadSteps, CleanupSteps
  <2> QED
      BY <1>1, <1>2, <2>1, <2>3, FilesLeft, StatesLeft, OrderlyKeeps DEF Orderly
<1>3. CASE Leave(t, current)
    BY <1>1, <1>3, LeaveKeeps
<1> QED
    BY <1>2, <1>3 DEF CloseUpload

-----------------------------------------------------------------------------
(* The clean-up                                                            *)

LEMMA RemoveDataKeeps ==
    ASSUME StagingInv, NEW t \in Caller, RemoveData(t)
    PROVE  StagingInv'
<1>1. /\ call[t].pc = "unlinking" /\ linked' = FALSE /\ Goto(t, "forgetting")
      /\ UNCHANGED <<opts, begin, data, meta, states, current, acked, restarts>>
    BY DEF RemoveData
<1>2. begin \in {"done", "lost"} /\ call[t].op \in {"complete", "abort", "reap"}
    BY <1>1, CallIs DEF StagingInv, CallsInv, CallOK, CleanupSteps
<1>3. OrderlyFiles(t)
  <2>1. /\ data \in [1..Size + 1 -> {"hole", "good", "bad"}] /\ linked \in BOOLEAN
        /\ ~RangesMode /\ opts.checked => \A u \in 1..Size + 1 :
              data[u] # "hole" => u <= Size /\ data[u] = "good"
      BY DEF StagingInv, TypeInv, DataInv
  <2>2. Written' = Written
      BY <1>1 DEF Written
  <2> QED
      BY <1>1, <2>1, <2>2 DEF OrderlyFiles
<1>4. OrderlyCall(t)
    BY <1>1, <1>2, Went DEF Steps, BlockSteps, UploadSteps, CleanupSteps
<1> QED
    BY <1>1, <1>2, <1>3, <1>4, StatesLeft, OrderlyKeeps DEF Orderly

LEMMA ForgetKeeps ==
    ASSUME StagingInv, NEW t \in Caller, Forget(t)
    PROVE  StagingInv'
<1>1. /\ call[t].pc = "forgetting" /\ meta' = None /\ Leave(t, 0)
      /\ UNCHANGED <<opts, begin, data, linked, acked, restarts>>
    BY DEF Forget
<1>2. ~linked
    BY <1>1 DEF StagingInv, MutexInv
<1> QED
    BY <1>1, <1>2, LeaveKeeps

LEMMA RestartKeeps ==
    ASSUME StagingInv, Restart
    PROVE  StagingInv'
<1>1. /\ Stopped /\ restarts' = restarts + 1 /\ UNCHANGED <<opts, data, linked, meta, acked>>
      /\ begin' = IF begin = "done" THEN "done" ELSE "lost"
    BY DEF Restart
<1>2. restarts \in Nat
    BY DEF StagingInv, TypeInv
<1>3. begin' \in {"done", "lost"} /\ (begin' = "done" => begin = "done")
    BY <1>1
<1>4. restarts' \in Nat /\ restarts' # 0
    BY <1>1, <1>2
<1> QED
    BY <1>1, <1>3, <1>4, StoppedKeeps

LEMMA CloseHandleKeeps ==
    ASSUME StagingInv, NEW t \in Caller, CloseHandle(t)
    PROVE  StagingInv'
<1> DEFINE g == IF call[t].op = "reap" THEN call[t].st ELSE current
<1>1. /\ call[t].pc = "closing"
      /\ UNCHANGED <<opts, begin, data, linked, meta, current, acked, restarts>>
      /\ states' = IF g = 0 THEN states ELSE [states EXCEPT ![g].handle = FALSE]
      /\ call' = [u \in Caller |->
                    IF u = t THEN [call[t] EXCEPT !.pc = "unlinking"]
                    ELSE IF call[u].st = g THEN [call[u] EXCEPT !.file = FALSE] ELSE call[u]]
    BY DEF CloseHandle
<1>2. /\ begin \in {"done", "lost"} /\ My(t) = states[call[t].st]
      /\ call[t].st \in 1..Len(states) /\ call[t].op \in {"complete", "abort", "reap"}
      /\ Len(states) \in Nat
    BY <1>1, CallIs DEF StagingInv, CallsInv, CallOK, CleanupSteps
<1>3. /\ states \in Seq(State) /\ current \in 0..Len(states) /\ call \in [Caller -> Call]
      /\ ~RangesMode => \A h \in 1..Len(states) : states[h].received \subseteq Written
    BY DEF StagingInv, TypeInv, BlocksInv
<1>4. g \in 0..Len(states)
    BY <1>2, <1>3
<1>5. linked => g = call[t].st
  <2>1. linked => current = Len(states) /\ current \in {0, 1}
      BY DEF StagingInv, OneState
  <2> QED
      BY <1>2, <2>1
<1>6. linked /\ RangesMode => My(t).mu = t
    BY <1>1 DEF StagingInv, MutexInv, Holds
<1> HIDE DEF g
<1>7. states' \in Seq(State) /\ Len(states') = Len(states)
  <2>1. CASE g # 0
    <3>1. g \in 1..Len(states) /\ states[g] \in State
        BY <1>2, <1>3, <1>4, <2>1
    <3>2. [states[g] EXCEPT !.handle = FALSE] \in State
        BY <3>1 DEF State
    <3>3. states' = [states EXCEPT ![g] = [states[g] EXCEPT !.handle = FALSE]]
        BY <1>1, <2>1
    <3> QED
        BY <1>3, <3>1, <3>2, <3>3
  <2>2. CASE g = 0
      BY <1>1, <1>3, <2>2
  <2> QED
      BY <2>1, <2>2
<1>8. ASSUME NEW h \in 1..Len(states)
      PROVE  /\ states'[h].ranges = states[h].ranges /\ states'[h].received = states[h].received
             /\ states'[h].mu = states[h].mu
             /\ states'[h].handle => states[h].handle
             /\ h = g => ~states'[h].handle
  <2>0. states[h] \in State
      BY <1>3
  <2>1. CASE h = g
    <3> DEFINE x == [states[g] EXCEPT !.handle = FALSE]
    <3>1. states' = [states EXCEPT ![g] = x]
        BY <1>1, <1>2, <2>1
    <3>2. /\ x.ranges = states[h].ranges /\ x.received = states[h].received
          /\ x.mu = states[h].mu /\ ~x.handle
        BY <2>0, <2>1 DEF State
    <3> HIDE DEF x
    <3>3. states'[h] = x
        BY <1>3, <2>1, <3>1
    <3> QED
        BY <3>2, <3>3
  <2>2. CASE h # g
    <3>1. CASE g # 0
      <4>1. states' = [states EXCEPT ![g] = [states[g] EXCEPT !.handle = FALSE]]
          BY <1>1, <3>1
      <4> QED
          BY <1>3, <2>2, <4>1
    <3> QED
        BY <1>1, <2>2, <3>1
  <2> QED
      BY <2>1, <2>2
<1>9. OrderlyStates(t)
    BY <1>1, <1>3, <1>7, <1>8 DEF OrderlyStates
<1>10. OrderlyFiles(t)
    BY <1>1, FilesLeft
<1>11. /\ call' \in [Caller -> Call]
       /\ call'[t].pc = "unlinking" /\ call'[t].op = call[t].op /\ call'[t].st = call[t].st
       /\ call'[t].seen = call[t].seen
       /\ \A u \in Caller : u # t =>
             /\ call'[u].pc = call[u].pc /\ call'[u].op = call[u].op /\ call'[u].st = call[u].st
             /\ call'[u].chunk = call[u].chunk /\ call'[u].seen = call[u].seen
  <2>1. ASSUME NEW u \in Caller
        PROVE  /\ call'[u] \in Call
               /\ call'[u].pc = IF u = t THEN "unlinking" ELSE call[u].pc
               /\ call'[u].op = call[u].op /\ call'[u].st = call[u].st
               /\ call'[u].chunk = call[u].chunk /\ call'[u].seen = call[u].seen
    <3>1. call[u] \in Call
        BY <1>3
    <3>2. "unlinking" \in Steps
        BY DEF Steps, CleanupSteps
    <3> QED
        BY <1>1, <3>1, <3>2 DEF Call
  <2>2. call' = [u \in Caller |-> call'[u]]
      BY <1>1
  <2> QED
      BY <2>1, <2>2
<1>12. CallOK(t)'
  <2>1. (RangesMode' <=> RangesMode) /\ call'[t].st \in 0..Len(states') /\ call'[t].st # 0
      BY <1>1, <1>2, <1>7, <1>11 DEF RangesMode
  <2> HIDE DEF RangesMode
  <2> QED
      BY <1>2, <1>11, <2>1 DEF CallOK, BlockSteps, UploadSteps, CleanupSteps
<1>13. OrderlyCall(t)
  <2>1. linked /\ RangesMode => states'[call'[t].st].mu = t /\ ~states'[call'[t].st].handle
      BY <1>2, <1>5, <1>6, <1>8, <1>11
  <2>2. Holds(t)' => RangesMode
      BY <1>1 DEF Holds, RangesMode
  <2> HIDE DEF RangesMode
  <2> QED
      BY <1>1, <1>11, <1>12, <2>1, <2>2 DEF OrderlyCall
<1> QED
    BY <1>1, <1>2, <1>9, <1>10, <1>13, OrderlyKeeps DEF Orderly

-----------------------------------------------------------------------------
(* getOrLoadSession and Begin                                              *)

\* Where a call goes when it has its object.
LEMMA FirstIs ==
    ASSUME NEW op \in {"write", "complete", "abort", "reap"}
    PROVE  /\ First(op) \in Steps
           /\ First(op) \in {"lock", "open", "check"}
           /\ First(op) = "open" => op = "write" /\ ~RangesMode
           /\ First(op) = "check" => op = "complete" /\ ~RangesMode
           /\ First(op) = "lock" /\ op \in {"write", "complete"} => RangesMode
<1> HIDE DEF RangesMode
<1> QED
    BY Zenon DEF First, Steps, BlockSteps, UploadSteps, CleanupSteps

\* A call that has its object, or has read the metadata file, is where it should be.
LEMMA HasObject ==
    ASSUME NEW t \in Caller, NEW op \in {"write", "complete", "abort", "reap"},
           opts' = opts, call'[t].op = op, Len(states') \in Nat,
           call'[t].st \in 0..Len(states'),
           call'[t].pc = IF call'[t].st = 0 THEN "load" ELSE First(op)
    PROVE  /\ CallOK(t)' /\ ~Holds(t)' /\ call'[t].pc \in {"load", "lock", "open", "check"}
           /\ call'[t].pc = "load" <=> call'[t].st = 0
<1>1. RangesMode' <=> RangesMode
    BY DEF RangesMode
<1> HIDE DEF RangesMode
<1> QED
    BY <1>1, FirstIs DEF CallOK, Holds, BlockSteps, UploadSteps, CleanupSteps

LEMMA EnterKeeps ==
    ASSUME StagingInv, ReapsEarly = FALSE, NEW t \in Caller, NEW c \in Chunk,
           NEW op \in {"write", "complete", "abort", "reap"}, Enter(t, op, c)
    PROVE  StagingInv'
<1>1. /\ begin \in {"done", "lost"} /\ (current = 0 => meta # None)
      /\ UNCHANGED <<opts, begin, data, linked, meta, states, current, acked, restarts>>
    BY DEF Enter, Known, OnlyCalls
<1>2. /\ states \in Seq(State) /\ Len(states) \in Nat /\ current \in 0..Len(states)
      /\ current \in Nat /\ call \in [Caller -> Call] /\ (meta = None \/ meta \in Seq(ByteRange))
    BY DEF StagingInv, TypeInv
<1> DEFINE pc   == IF current = 0 THEN "load" ELSE First(op)
           seen == IF current = 0 THEN meta ELSE << >>
           new  == [Idle EXCEPT !.op = op, !.chunk = c, !.st = current, !.pc = pc, !.seen = seen]
<1>3. pc \in Steps /\ op \in Ops /\ seen \in Seq(ByteRange)
    BY <1>1, <1>2, FirstIs DEF Steps, Ops
<1>4. call' = [call EXCEPT ![t] = new]
    BY DEF Enter
<1> HIDE DEF pc, seen
<1>5. /\ new \in Call /\ new.op = op /\ new.st = current /\ new.pc = pc /\ new.seen = seen
    BY <1>2, <1>3, IdleIs DEF Call
<1> HIDE DEF new
<1>6. /\ call' \in [Caller -> Call] /\ call'[t] = new
      /\ \A u \in Caller : u # t => call'[u] = call[u]
    BY <1>2, <1>4, <1>5
<1>7. /\ CallOK(t)' /\ ~Holds(t)' /\ call'[t].pc \in {"load", "lock", "open", "check"}
      /\ call'[t].pc = "load" <=> call'[t].st = 0
    BY <1>1, <1>2, <1>5, <1>6, HasObject DEF pc
<1>8. OrderlyCall(t)
    BY <1>1, <1>5, <1>6, <1>7 DEF OrderlyCall, seen
<1> QED
    BY <1>1, <1>8, FilesLeft, StatesLeft, OrderlyKeeps DEF Orderly

\* An object is made for a session that has none.
LEMMA NewObjectKeeps ==
    ASSUME StagingInv, current = 0, NEW rs, IsList(rs, Written),
           states' = Append(states, NewState(rs)), current' = Len(states) + 1,
           UNCHANGED <<opts, data, linked, meta, acked, restarts>>,
           begin' \in {"done", "lost"}, begin' = "done" /\ linked => meta # None,
           RangesMode /\ linked => rs = meta,
           call' \in [Caller -> Call], CallsInv',
           \A u \in Caller : call'[u].seen \in {call[u].seen, << >>},
           \A u \in Caller : call'[u] = call[u] \/
              (call'[u].pc \in {"lock", "open", "check"} /\ ~Holds(u)')
    PROVE  StagingInv'
<1>i. /\ TypeInv /\ CallsInv /\ ListsInv /\ BeginInv /\ OneState
      /\ MutexInv /\ RangesInv /\ BlocksInv /\ DataInv
    BY DEF StagingInv
<1>u. /\ opts' = opts /\ data' = data /\ linked' = linked /\ meta' = meta /\ acked' = acked
      /\ restarts' = restarts /\ (RangesMode' <=> RangesMode) /\ Written' = Written
    BY DEF RangesMode, Written
<1>t. states \in Seq(State) /\ Len(states) \in Nat
    BY <1>i DEF TypeInv
<1>n. NewState(rs) \in State /\ NewState(rs).ranges = rs /\ NewState(rs).received = {}
      /\ ~NewState(rs).handle
    BY DEF NewState, State, IsList, WellFormed
<1> DEFINE new == NewState(rs)
<1> HIDE DEF new
<1>s. /\ states' \in Seq(State) /\ Len(states') = Len(states) + 1 /\ current' = Len(states')
      /\ states'[Len(states) + 1] = new
      /\ \A g \in 1..Len(states) : states'[g] = states[g]
      /\ new \in State /\ new.ranges = rs /\ new.received = {} /\ ~new.handle
  <2>1. states' = Append(states, new) /\ new \in State
      BY <1>n DEF new
  <2>2. /\ states' \in Seq(State) /\ Len(states') = Len(states) + 1
        /\ states'[Len(states) + 1] = new
        /\ \A g \in 1..Len(states) : states'[g] = states[g]
      BY <1>t, <2>1
  <2> QED
      BY <1>n, <2>1, <2>2 DEF new
<1>g. \A g \in 1..Len(states') : g \in 1..Len(states) \/ g = Len(states) + 1
    BY <1>t, <1>s
<1>m. ASSUME NEW u \in Caller,
             Holds(u)' \/ call'[u].pc \notin {"idle", "load", "lock", "open", "check"}
      PROVE  /\ call'[u] = call[u] /\ call[u].st \in 1..Len(states) /\ My(u)' = My(u)
             /\ My(u) = states[call[u].st] /\ (Holds(u)' <=> Holds(u))
             /\ ChunkUnits(u)' = ChunkUnits(u)
  <2>1. call'[u] = call[u]
      BY <1>m
  <2>2. call[u].pc \notin {"idle", "load"}
      BY <1>m, <2>1 DEF Holds
  <2>3. call[u].st \in 1..Len(states) /\ My(u) = states[call[u].st]
      BY <1>i, <2>2, CallIs
  <2> QED
      BY <1>s, <1>u, <2>1, <2>3 DEF My, Holds, ChunkUnits
<1> HIDE DEF RangesMode, Holds
<1>1. TypeInv'
    BY <1>i, <1>u, <1>s, <1>t DEF TypeInv
<1>2. ListsInv'
  <2>1. IsList(<< >>, Written)
      BY DEF IsList, WellFormed, Covered
  <2>2. \A g \in 1..Len(states') : IsList(states'[g].ranges, Written)
      BY <1>i, <1>g, <1>s DEF ListsInv
  <2>3. \A u \in Caller : IsList(call'[u].seen, Written)
      BY <1>i, <2>1 DEF ListsInv
  <2> QED
      BY <1>i, <1>u, <2>2, <2>3 DEF ListsInv
<1>3. BeginInv'
    BY <1>u DEF BeginInv
<1>4. OneState'
    BY <1>i, <1>u, <1>s, <1>t DEF OneState
<1>5. MutexInv'
  <2>1. \A u \in Caller : linked /\ Holds(u)' => My(u)'.mu = u
      BY <1>i, <1>m DEF MutexInv
  <2>2. \A u \in Caller : call'[u].pc \in {"unlock again", "forgetting"} => ~linked
      BY <1>i, <1>m DEF MutexInv
  <2>3. \A u \in Caller : RangesMode /\ call'[u].pc \in {"save", "commit"} => linked
      BY <1>i, <1>m DEF MutexInv
  <2>4. \A u \in Caller : RangesMode /\ call'[u].pc = "unlinking" /\ linked => ~My(u)'.handle
    <3> SUFFICES ASSUME NEW u \in Caller, RangesMode, call'[u].pc = "unlinking", linked
                 PROVE  ~My(u)'.handle
        OBVIOUS
    <3>1. My(u)' = My(u) /\ call[u].pc = "unlinking"
        BY <1>m
    <3>2. ~My(u).handle
        BY <1>i, <3>1 DEF MutexInv
    <3> QED
        BY <3>1, <3>2, Zenon
  <2>5. RangesMode /\ ~linked => \A g \in 1..Len(states') : ~states'[g].handle
      BY <1>i, <1>g, <1>s DEF MutexInv
  <2> QED
    <3>1. (linked' <=> linked) /\ (RangesMode' <=> RangesMode)
        BY <1>u
    <3> QED
        BY <2>1, <2>2, <2>3, <2>4, <2>5, <3>1, Zenon DEF MutexInv
<1>6. RangesInv'
  <2>1. current' # 0 /\ states'[current'].ranges = rs
      BY <1>t, <1>s
  <2> QED
      BY <1>i, <1>u, <2>1 DEF RangesInv
<1>7. BlocksInv'
  <2> SUFFICES ASSUME ~RangesMode PROVE BlocksInv'
      BY <1>u DEF BlocksInv
  <2>1. \A g \in 1..Len(states') : states'[g].received \subseteq Written'
      BY <1>i, <1>u, <1>g, <1>s DEF BlocksInv
  <2>2. \A u \in Caller : call'[u].pc \in {"mark", "verify", "flush"} =>
           ChunkUnits(u)' \subseteq Written' \cap Unit
      BY <1>i, <1>u, <1>m DEF BlocksInv
  <2>3. \A u \in Caller : call'[u].pc \in {"verify", "flush"} =>
           ChunkUnits(u)' \subseteq My(u)'.received
      BY <1>i, <1>m DEF BlocksInv
  <2>4. linked /\ restarts = 0 => acked = {}
      BY <1>i DEF BlocksInv
  <2> QED
      BY <1>u, <2>1, <2>2, <2>3, <2>4 DEF BlocksInv
<1>8. DataInv'
  <2>1. \A x : ReadyRanges(x)' <=> ReadyRanges(x)
      BY <1>u DEF ReadyRanges, FileSize, Intact
  <2>2. ASSUME NEW u \in Caller, call'[u].pc \in {"save", "commit"}
        PROVE  IF RangesMode THEN ReadyRanges(My(u)'.ranges) ELSE My(u)'.received = Unit
    <3>1. My(u)' = My(u) /\ call[u].pc \in {"save", "commit"}
        BY <1>m, <2>2
    <3>2. IF RangesMode THEN ReadyRanges(My(u).ranges) ELSE My(u).received = Unit
        BY <1>i, <3>1 DEF DataInv
    <3> HIDE DEF ReadyRanges
    <3> QED
        BY <3>1, <3>2, Zenon
  <2>3. ~RangesMode /\ opts.checked => \A u \in 1..Size + 1 :
          data[u] # "hole" => u <= Size /\ data[u] = "good"
      BY <1>i DEF DataInv
  <2> HIDE DEF ReadyRanges
  <2> QED
      BY <1>u, <2>1, <2>2, <2>3 DEF DataInv
<1> QED
    BY <1>1, <1>2, <1>3, <1>4, <1>5, <1>6, <1>7, <1>8 DEF StagingInv

LEMMA LoadOrStoreKeeps ==
    ASSUME StagingInv, NEW t \in Caller, LoadOrStore(t)
    PROVE  StagingInv'
<1> DEFINE mine == Len(states) + 1
           st   == IF current # 0 THEN current ELSE mine
           op   == call[t].op
<1>1. /\ call[t].pc = "load" /\ current' = st
      /\ states' = IF current # 0 THEN states ELSE Append(states, NewState(call[t].seen))
      /\ call' = [call EXCEPT ![t].pc = First(op), ![t].st = st, ![t].seen = << >>]
      /\ UNCHANGED <<opts, begin, data, linked, meta, acked, restarts>>
    BY DEF LoadOrStore
<1>2. /\ begin \in {"done", "lost"} /\ op \in {"write", "complete", "abort", "reap"}
      /\ Len(states) \in Nat /\ states \in Seq(State) /\ current \in 0..Len(states)
      /\ call \in [Caller -> Call] /\ call[t] \in Call
    BY <1>1, CallIs DEF StagingInv, TypeInv, CallsInv, CallOK
<1>3. First(op) \in Steps
    BY <1>2, FirstIs
<1> HIDE DEF op
<1>4. /\ call' \in [Caller -> Call]
      /\ \A u \in Caller : u # t => call'[u] = call[u]
      /\ call'[t].pc = First(op) /\ call'[t].op = op /\ call'[t].st = st
      /\ call'[t].seen = << >>
  <2> DEFINE new == [call[t] EXCEPT !.pc = First(op), !.st = st, !.seen = << >>]
  <2>1. call' = [call EXCEPT ![t] = new]
      BY <1>1, <1>2
  <2>2. /\ new \in Call /\ new.pc = First(op) /\ new.st = st /\ new.seen = << >>
        /\ new.op = op
    <3>1. st \in Nat
        BY <1>2
    <3> HIDE DEF st
    <3>2. call[t] \in Call /\ << >> \in Seq(ByteRange) /\ op = call[t].op
        BY <1>2 DEF op
    <3> HIDE DEF op
    <3> QED
        BY <1>3, <3>1, <3>2 DEF Call
  <2> HIDE DEF new
  <2> QED
      BY <1>2, <2>1, <2>2
<1>5. CASE current # 0
  <2>1. /\ st = current /\ UNCHANGED <<states, current>> /\ call'[t].st # 0
        /\ call'[t].st \in 0..Len(states')
      BY <1>1, <1>2, <1>4, <1>5
  <2>2. /\ CallOK(t)' /\ ~Holds(t)' /\ call'[t].pc \in {"lock", "open", "check"}
      BY SMTT(30), <1>1, <1>2, <1>4, <2>1, HasObject
  <2>3. OrderlyCall(t)
      BY <1>1, <1>4, <2>2 DEF OrderlyCall
  <2> QED
      BY <1>1, <1>2, <2>1, <2>3, FilesLeft, StatesLeft, OrderlyKeeps DEF Orderly
<1>6. CASE current = 0
  <2> DEFINE rs == call[t].seen
  <2>1. states' = Append(states, NewState(rs)) /\ current' = Len(states) + 1 /\ st = mine
      BY <1>1, <1>6
  <2>2. IsList(rs, Written) /\ (RangesMode /\ linked => rs = meta)
      BY <1>1, <1>6 DEF StagingInv, ListsInv, RangesInv
  <2>3. Len(states') = Len(states) + 1 /\ call'[t].st # 0 /\ call'[t].st \in 0..Len(states')
      BY <1>2, <1>4, <2>1
  <2>4. CallOK(t)' /\ ~Holds(t)' /\ call'[t].pc \in {"lock", "open", "check"}
      BY SMTT(30), <1>1, <1>2, <1>4, <2>3, HasObject
  <2>5. CallsInv'
      BY <1>1, <1>2, <1>4, <2>3, <2>4, CallsKept DEF StagingInv
  <2>6. begin' = "done" /\ linked => meta # None
      BY <1>1 DEF StagingInv, BeginInv
  <2> HIDE DEF rs, st, mine
  <2> QED
      BY <1>1, <1>2, <1>4, <1>6, <2>1, <2>2, <2>4, <2>5, <2>6, NewObjectKeeps
<1> QED
    BY <1>5, <1>6

\* Nobody but Begin does anything to a session that it has not told anyone of.
LEMMA BeginsKeeps ==
    ASSUME StagingInv, begin \in {"create", "save"},
           UNCHANGED <<opts, data, states, current, call, acked, restarts>>,
           linked' \in BOOLEAN, meta' = None \/ meta' = << >>,
           begin' \in {"save", "store", "lost"}, BeginInv'
    PROVE  StagingInv'
<1>1. /\ opts' = opts /\ data' = data /\ states' = states /\ current' = current /\ call' = call
      /\ acked' = acked /\ restarts' = restarts /\ Written' = Written
    BY DEF Written
<1>2. /\ states = << >> /\ current = 0 /\ acked = {} /\ Len(states) = 0
      /\ \A t \in Caller : call[t].pc = "idle"
    BY DEF StagingInv, BeginInv
<1>3. TypeInv'
  <2>1. << >> \in Seq(ByteRange)
      OBVIOUS
  <2> QED
      BY <1>1, <2>1 DEF StagingInv, TypeInv
<1>4. CallsInv'
  <2> SUFFICES ASSUME NEW t \in Caller PROVE CallOK(t)'
      BY DEF CallsInv
  <2>1. CallOK(t) /\ (RangesMode' <=> RangesMode)
      BY <1>1 DEF StagingInv, CallsInv, RangesMode
  <2> HIDE DEF RangesMode
  <2> QED
      BY <1>1, <2>1, Zenon DEF CallOK
<1>5. ListsInv'
  <2>1. IsList(<< >>, Written)
      BY DEF IsList, WellFormed, Covered
  <2> QED
      BY <1>1, <2>1 DEF StagingInv, ListsInv
<1>6. OneState'
    BY <1>1, <1>2 DEF OneState
<1>7. MutexInv'
  <2>1. \A t \in Caller : ~Holds(t)' /\ call'[t].pc = "idle"
      BY <1>1, <1>2 DEF Holds
  <2>2. \A g \in 1..Len(states') : FALSE
      BY <1>1, <1>2
  <2> QED
      BY <2>1, <2>2, Zenon DEF MutexInv
<1>8. RangesInv'
    BY <1>1, <1>2 DEF RangesInv
<1>9. BlocksInv' /\ DataInv'
  <2>1. \A t \in Caller : call'[t].pc = "idle"
      BY <1>1, <1>2
  <2>2. \A g \in 1..Len(states') : FALSE
      BY <1>1, <1>2
  <2>3. acked' = {}
      BY <1>1, <1>2
  <2>4. (RangesMode' <=> RangesMode) /\ opts' = opts /\ data' = data
      BY <1>1 DEF RangesMode
  <2>5. ~RangesMode /\ opts.checked => \A u \in 1..Size + 1 :
          data[u] # "hole" => u <= Size /\ data[u] = "good"
      BY DEF StagingInv, DataInv
  <2> HIDE DEF RangesMode
  <2>6. BlocksInv'
      BY <2>1, <2>2, <2>3 DEF BlocksInv
  <2>7. DataInv'
      BY <2>1, <2>4, <2>5 DEF DataInv
  <2> QED
      BY <2>6, <2>7
<1> QED
    BY <1>3, <1>4, <1>5, <1>6, <1>7, <1>8, <1>9 DEF StagingInv

LEMMA BeginKeeps ==
    ASSUME StagingInv, Begin
    PROVE  StagingInv'
<1>1. CASE BeginCreatesData
  <2>1. BeginInv'
      BY <1>1 DEF BeginCreatesData, StagingInv, BeginInv
  <2>2. meta = None
      BY <1>1 DEF BeginCreatesData, StagingInv, BeginInv
  <2> QED
      BY <1>1, <2>1, <2>2, BeginsKeeps DEF BeginCreatesData
<1>2. CASE BeginSavesMeta
  <2>1. BeginInv' /\ linked' \in BOOLEAN
      BY <1>2 DEF BeginSavesMeta, StagingInv, BeginInv, TypeInv
  <2>2. meta = None
      BY <1>2 DEF BeginSavesMeta, StagingInv, BeginInv
  <2> QED
      BY <1>2, <2>1, <2>2, BeginsKeeps DEF BeginSavesMeta
<1>3. CASE BeginStores
  <2>1. /\ begin = "store" /\ begin' = "done"
        /\ states' = Append(states, NewState(<< >>)) /\ current' = Len(states')
        /\ UNCHANGED <<opts, data, linked, meta, call, acked, restarts>>
      BY <1>3 DEF BeginStores
  <2>2. /\ states = << >> /\ current = 0 /\ meta = << >> /\ call \in [Caller -> Call]
        /\ \A t \in Caller : call[t].pc = "idle"
      BY <2>1 DEF StagingInv, BeginInv, TypeInv
  <2>3. << >> \in Seq(ByteRange) /\ IsList(<< >>, Written)
      BY DEF IsList, WellFormed, Covered
  <2>4. meta # None
      BY <2>2, <2>3, StagingNoneAssumption
  <2>5. Len(states) = 0 /\ current' = Len(states) + 1 /\ Len(states') = 1
    <3>1. Len(states') = Len(states) + 1 /\ Len(states) = 0
        BY <2>1, <2>2
    <3> QED
        BY <2>1, <3>1
  <2>6. CallsInv'
    <3> SUFFICES ASSUME NEW t \in Caller PROVE CallOK(t)'
        BY DEF CallsInv
    <3>1. CallOK(t) /\ (RangesMode' <=> RangesMode) /\ call'[t] = call[t]
        BY <2>1 DEF StagingInv, CallsInv, RangesMode
    <3>2. call[t].st \in 0..Len(states)
        BY <3>1 DEF CallOK
    <3>3. call[t].st \in 0..Len(states')
        BY <2>5, <3>2
    <3> HIDE DEF RangesMode
    <3> QED
        BY <3>1, <3>3, Zenon DEF CallOK
  <2> QED
      BY <2>1, <2>2, <2>3, <2>4, <2>5, <2>6, NewObjectKeeps
<1> QED
    BY <1>1, <1>2, <1>3 DEF Begin

-----------------------------------------------------------------------------
(* writeChunkRangeSet                                                      *)

LEMMA OnlyOne ==
    ASSUME NEW n, n = 1, NEW g \in 1..n
    PROVE  g = 1
OBVIOUS

\* Nobody else is with the data while the one that holds no mutex yet works on
\* the only object: what it writes is in the file and in both lists.
LEMMA ReceivedKeeps ==
    ASSUME StagingInv, NEW t \in Caller, RangesMode, linked,
           call[t].pc \notin {"idle", "load"}, My(t).mu = None, Return(t),
           UNCHANGED <<opts, begin, linked, current, restarts>>,
           NEW s \in State, MyBecomes(t, s), s.mu = None, IsList(s.ranges, Written'),
           data' \in [1..Size + 1 -> {"hole", "good", "bad"}], Written \subseteq Written',
           meta' = s.ranges,
           acked' \subseteq Covered(s.ranges)
    PROVE  StagingInv'
<1>i. /\ TypeInv /\ CallsInv /\ ListsInv /\ BeginInv /\ OneState
      /\ MutexInv /\ RangesInv /\ BlocksInv /\ DataInv
    BY DEF StagingInv
<1>u. /\ opts' = opts /\ begin' = begin /\ current' = current /\ restarts' = restarts
      /\ (linked' <=> linked) /\ linked' = linked /\ (RangesMode' <=> RangesMode)
    BY DEF RangesMode
<1>b. begin \in {"done", "lost"} /\ call[t].st \in 1..Len(states)
    BY <1>i, CallIs
<1>o. current = 1 /\ Len(states) = 1 /\ call[t].st = 1
    BY <1>i, <1>b DEF OneState
<1>s. /\ states' \in Seq(State) /\ Len(states') = 1 /\ states'[1] = s
    BY <1>i, <1>o, BecomesIs
<1>c. /\ call' \in [Caller -> Call] /\ call'[t].pc = "idle" /\ call'[t].op = None
      /\ call'[t].st = 0 /\ call'[t].seen = << >>
      /\ \A u \in Caller : u # t => call'[u] = call[u]
    BY <1>i, ReturnIs
<1>n. \A u \in Caller : call'[u].pc \notin {"check", "save", "commit", "closing", "unlinking",
                                           "unlock again", "forgetting"}
  <2> SUFFICES ASSUME NEW u \in Caller, u # t,
                      call[u].pc \in {"check", "save", "commit", "closing", "unlinking",
                                      "unlock again", "forgetting"}
               PROVE  FALSE
      BY <1>c
  <2>1. CASE call[u].pc \in {"unlock again", "forgetting"}
      BY <1>i, <2>1 DEF MutexInv
  <2>2. CASE call[u].pc \notin {"unlock again", "forgetting"}
    <3>1. My(u).mu = u
        BY <1>i, <2>2 DEF MutexInv, Holds
    <3>2. call[u].st \in 1..Len(states)
        BY <1>i, CallIs
    <3>3. call[u].st = 1
        BY <1>o, <3>2, OnlyOne
    <3>4. My(u) = My(t)
        BY <1>o, <3>3 DEF My
    <3> QED
        BY <3>1, <3>4, StagingNoneAssumption
  <2> QED
      BY <2>1, <2>2
<1>1. TypeInv'
  <2>1. s.ranges \in Seq(ByteRange) /\ Covered(s.ranges) \subseteq 1..Size + 1
      BY DEF IsList, WellFormed, Written
  <2> QED
      BY <1>i, <1>u, <1>o, <1>s, <1>c, <2>1 DEF TypeInv
<1>2. CallsInv'
  <2>1. CallOK(t)'
      BY <1>c, <1>s DEF CallOK, BlockSteps, UploadSteps, CleanupSteps
  <2> QED
      BY <1>i, <1>u, <1>o, <1>s, <1>c, <2>1, CallsKept
<1>3. ListsInv'
  <2>1. \A rs : IsList(rs, Written) => IsList(rs, Written')
      BY DEF IsList
  <2>2. IsList(<< >>, Written)
      BY DEF IsList, WellFormed, Covered
  <2>3. \A u \in Caller : IsList(call'[u].seen, Written')
      BY <1>i, <1>c, <2>1, <2>2 DEF ListsInv
  <2>4. \A g \in 1..Len(states') : IsList(states'[g].ranges, Written')
      BY <1>s
  <2> QED
      BY <2>3, <2>4 DEF ListsInv
<1>4. BeginInv'
  <2>1. meta' # None
      BY StagingNoneAssumption DEF IsList, WellFormed
  <2> QED
      BY <1>u, <1>b, <2>1 DEF BeginInv
<1>5. OneState'
    BY <1>u, <1>o, <1>s DEF OneState
<1>6. MutexInv'
  <2>1. \A u \in Caller : ~Holds(u)'
      BY <1>n DEF Holds
  <2> QED
      BY <1>n, <1>u, <2>1, Zenon DEF MutexInv
<1>7. RangesInv'
  <2>1. meta' # None
      BY StagingNoneAssumption DEF IsList, WellFormed
  <2> QED
      BY <1>u, <1>o, <1>s, <2>1 DEF RangesInv
<1>8. BlocksInv'
    BY <1>u DEF BlocksInv
<1>9. DataInv'
    BY <1>u, <1>n DEF DataInv
<1> QED
    BY <1>1, <1>2, <1>3, <1>4, <1>5, <1>6, <1>7, <1>8, <1>9 DEF StagingInv

LEMMA WriteChunkRangeSetKeeps ==
    ASSUME StagingInv, NEW t \in Caller, WriteChunkRangeSet(t)
    PROVE  StagingInv'
<1> DEFINE c     == call[t].chunk
           known == Contains(My(t).ranges, c.lo - 1, c.hi)
           sound == opts.checked => c.bad = {}
           s     == [My(t) EXCEPT !.handle = TRUE]
           added == Add(My(t).ranges, c.lo - 1, c.hi)
           new   == [My(t) EXCEPT !.handle = TRUE, !.ranges = added]
<1>1. /\ call[t].pc = "lock" /\ call[t].op = "write" /\ My(t).mu = None /\ Return(t)
      /\ UNCHANGED <<opts, begin, linked, current, restarts>>
    BY DEF WriteChunkRangeSet
<1>2. /\ begin \in {"done", "lost"} /\ My(t) \in State /\ My(t) = states[call[t].st]
      /\ call[t].st \in 1..Len(states) /\ call[t] \in Call /\ RangesMode
    BY <1>1, CallIs DEF StagingInv, CallsInv, CallOK
<1>3. CASE ~CanOpen(t)
  <2>1. UNCHANGED <<data, meta, states, acked>>
      BY <1>3 DEF WriteChunkRangeSet
  <2> QED
      BY <1>1, <1>2, <2>1, FilesLeft, StatesLeft, Returned, OrderlyKeeps DEF Orderly
<1>4. CASE CanOpen(t)
  <2>1. linked
      BY <1>2, <1>4 DEF StagingInv, MutexInv, CanOpen
  <2>2. current = call[t].st /\ current # 0
      BY <1>2, <2>1 DEF StagingInv, OneState
  <2>3. meta = My(t).ranges /\ IsList(My(t).ranges, Written) /\ meta # None
    <3>1. My(t).ranges \in Seq(ByteRange)
        BY <1>2 DEF State
    <3>2. meta = My(t).ranges
        BY <1>2, <2>1, <2>2 DEF StagingInv, RangesInv
    <3> QED
        BY <1>2, <3>1, <3>2, StagingNoneAssumption DEF StagingInv, ListsInv
  <2>4. acked \subseteq Covered(My(t).ranges)
      BY <1>2, <2>1, <2>3 DEF StagingInv, RangesInv
  <2>5. data \in [1..Size + 1 -> {"hole", "good", "bad"}]
      BY DEF StagingInv, TypeInv
  <2>6. /\ c.lo \in 1..Size /\ c.hi \in 1..Size + 1 /\ c.lo <= c.hi
        /\ c.lo \in Int /\ c.hi \in Int
    <3>1. c \in Chunk
        BY <1>2 DEF Call
    <3> QED
        BY <3>1, SizeAssumption DEF Chunk, Unit
  <2>7. \A last \in Int : /\ WrittenTo(c, last) \in [1..Size + 1 -> {"hole", "good", "bad"}]
                           /\ \A u \in 1..Size + 1 :
                               data[u] # "hole" => WrittenTo(c, last)[u] # "hole"
      BY <2>5 DEF WrittenTo
  <2>8. \A last \in CutAt(c) : last \in Int
      BY <2>6 DEF CutAt
  <2>9. \E last \in Int : data' = WrittenTo(c, last)
      BY <1>4, <2>6, <2>8 DEF WriteChunkRangeSet
  <2>10. data' \in [1..Size + 1 -> {"hole", "good", "bad"}] /\ Written \subseteq Written'
      BY <2>5, <2>7, <2>9 DEF Written
  <2>11. /\ s \in State /\ s.ranges = My(t).ranges /\ s.mu = None
      BY <1>1, <1>2 DEF State
  <2>12. \A rs : IsList(rs, Written) => IsList(rs, Written')
      BY <2>10 DEF IsList
  <2>13. /\ WellFormed(added) /\ added \in Seq(ByteRange)
         /\ Covered(added) = Covered(My(t).ranges) \cup c.lo..c.hi
    <3>1. c.lo - 1 \in 0..Size /\ c.hi \in 1..Size + 1 /\ c.lo - 1 < c.hi /\ (c.lo - 1) + 1 = c.lo
        BY <2>6, SizeAssumption
    <3>2. WellFormed(My(t).ranges)
        BY <2>3 DEF IsList
    <3> HIDE DEF c
    <3>3. /\ WellFormed(added)
          /\ Covered(added) = Covered(My(t).ranges) \cup ((c.lo - 1) + 1 .. c.hi)
        BY <3>1, <3>2, AddKeeps
    <3> HIDE DEF added
    <3> QED
        BY <3>1, <3>3 DEF WellFormed
  <2>14. known => c.lo..c.hi \subseteq Covered(My(t).ranges)
    <3> SUFFICES ASSUME NEW i \in DOMAIN My(t).ranges,
                        My(t).ranges[i].start <= c.lo - 1, c.hi <= My(t).ranges[i].end,
                        NEW u \in c.lo..c.hi
                 PROVE  u \in Covered(My(t).ranges)
        BY DEF Contains
    <3>1. My(t).ranges[i] \in ByteRange
        BY <2>3 DEF IsList, WellFormed
    <3>2. u \in My(t).ranges[i].start + 1 .. My(t).ranges[i].end
        BY <2>6, <3>1, SizeAssumption DEF ByteRange
    <3> QED
        BY <3>2, CoveredBy DEF UnitsIn
  <2>15. new \in State /\ new.ranges = added /\ new.mu = None
    <3> HIDE DEF added
    <3> QED
        BY <1>1, <1>2, <2>13 DEF State
  <2> HIDE DEF c, known, sound, s, new, added
  <2>16. ASSUME MyBecomes(t, s), meta' = meta, acked' \subseteq Covered(My(t).ranges)
         PROVE  StagingInv'
      BY <1>1, <1>2, <2>1, <2>3, <2>10, <2>11, <2>12, <2>16, ReceivedKeeps
  <2>17. ASSUME MyBecomes(t, new), meta' = added, acked' = acked \cup c.lo..c.hi,
                data' = WrittenTo(c, c.hi)
         PROVE  StagingInv'
    <3>1. c.lo..c.hi \subseteq Written'
      <4> SUFFICES ASSUME NEW u \in c.lo..c.hi PROVE u \in Written'
          OBVIOUS
      <4>1. u \in 1..Size + 1
          BY <2>6, SizeAssumption
      <4>2. data'[u] \in {"bad", "good"}
          BY <2>5, <2>17, <4>1 DEF WrittenTo
      <4> QED
          BY <4>1, <4>2 DEF Written
    <3>2. IsList(added, Written')
        BY <2>3, <2>10, <2>13, <3>1 DEF IsList
    <3>3. acked' \subseteq Covered(added)
        BY <2>4, <2>13, <2>17
    <3> QED
        BY <1>1, <1>2, <2>1, <2>10, <2>15, <2>17, <3>2, <3>3, ReceivedKeeps
  <2>18. CASE MyBecomes(t, s) /\ UNCHANGED <<meta, acked>>
      BY <2>4, <2>16, <2>18
  <2>19. CASE /\ data' = WrittenTo(c, c.hi) /\ known /\ MyBecomes(t, s)
              /\ meta' = meta \/ meta' = My(t).ranges
              /\ acked' = acked \cup c.lo..c.hi
      BY <2>3, <2>4, <2>14, <2>16, <2>19
  <2>20. CASE /\ data' = WrittenTo(c, c.hi) /\ MyBecomes(t, new) /\ meta' = added
              /\ acked' = acked \cup c.lo..c.hi
      BY <2>17, <2>20
  <2> QED
      BY <1>4, <2>18, <2>19, <2>20
         DEF WriteChunkRangeSet, Accept, SavedMeta, c, known, sound, s, new, added
<1> QED
    BY <1>3, <1>4

-----------------------------------------------------------------------------
(* The invariant holds                                                     *)

LEMMA InitEstablishes ==
    ASSUME StagingInit
    PROVE  StagingInv
<1>1. /\ opts \in Options /\ begin = "create" /\ data = [u \in 1..Size + 1 |-> "hole"]
      /\ linked = FALSE /\ meta = None /\ states = << >> /\ current = 0
      /\ call = [t \in Caller |-> Idle] /\ acked = {} /\ restarts = 0 /\ Len(states) = 0
    BY DEF StagingInit
<1>2. /\ call \in [Caller -> Call]
      /\ \A t \in Caller : /\ call[t].pc = "idle" /\ call[t].op = None /\ call[t].st = 0
                          /\ call[t].seen = << >>
    BY <1>1, IdleIs
<1>3. TypeInv
  <2>1. data \in [1..Size + 1 -> {"hole", "good", "bad"}]
      BY <1>1
  <2>2. states \in Seq(State) /\ current \in 0..Len(states)
      BY <1>1
  <2> QED
      BY <1>1, <1>2, <2>1, <2>2 DEF TypeInv
<1>4. CallsInv
  <2> SUFFICES ASSUME NEW t \in Caller PROVE CallOK(t)
      BY DEF CallsInv
  <2>1. call[t].pc = "idle" /\ call[t].op = None /\ call[t].st = 0 /\ 0 \in 0..Len(states)
      BY <1>1, <1>2
  <2> QED
      BY <2>1 DEF CallOK, BlockSteps, UploadSteps, CleanupSteps
<1>5. ListsInv
  <2>1. IsList(<< >>, Written)
      BY DEF IsList, WellFormed, Covered
  <2> QED
      BY <1>1, <1>2, <2>1 DEF ListsInv
<1>6. BeginInv /\ OneState
    BY <1>1, <1>2 DEF BeginInv, OneState
<1>7. MutexInv
  <2>1. \A t \in Caller : ~Holds(t) /\ call[t].pc = "idle"
      BY <1>2 DEF Holds
  <2>2. \A g \in 1..Len(states) : FALSE
      BY <1>1
  <2> QED
      BY <2>1, <2>2, Zenon DEF MutexInv
<1>8. RangesInv /\ BlocksInv
    BY <1>1, <1>2 DEF RangesInv, BlocksInv
<1>9. DataInv
    BY <1>1, <1>2 DEF DataInv
<1> QED
    BY <1>3, <1>4, <1>5, <1>6, <1>7, <1>8, <1>9 DEF StagingInv

LEMMA NextKeeps ==
    ASSUME StagingInv, ReapsEarly = FALSE, [StagingNext]_vars
    PROVE  StagingInv'
<1>1. CASE Begin
    BY <1>1, BeginKeeps
<1>2. ASSUME NEW t \in Caller, NEW c \in Sent, Enter(t, "write", c)
      PROVE  StagingInv'
    BY <1>2, SentAssumption, EnterKeeps
<1>3. ASSUME NEW t \in Caller, NEW op \in {"complete", "abort", "reap"}, Enter(t, op, NoChunk)
      PROVE  StagingInv'
  <2>1. NoChunk \in Chunk
      BY SizeAssumption DEF NoChunk, Chunk, Unit
  <2> QED
      BY <1>3, <2>1, EnterKeeps
<1>4. ASSUME NEW t \in Caller, Progress(t)
      PROVE  StagingInv'
    BY <1>4, LoadOrStoreKeeps, OpenFileKeeps, WriteBlocksKeeps, MarkReceivedKeeps,
       VerifyPiecesKeeps, CheckKeeps, UnlockAgainKeeps, SaveMetaKeeps, CloseUploadKeeps,
       CloseHandleKeeps, RemoveDataKeeps, ForgetKeeps DEF Progress
<1>5. ASSUME NEW t \in Caller, Locked(t)
      PROVE  StagingInv'
    BY <1>5, WriteChunkRangeSetKeeps, FlushMetaKeeps, LockKeeps DEF Locked
<1>6. CASE Restart
    BY <1>6, RestartKeeps
<1>7. CASE UNCHANGED vars
  <2>1. /\ opts' = opts /\ begin' = begin /\ data' = data /\ linked' = linked /\ meta' = meta
        /\ states' = states /\ current' = current /\ call' = call /\ acked' = acked
        /\ restarts' = restarts
      BY <1>7 DEF vars
  <2>2. TypeInv' /\ CallsInv'
      BY <2>1 DEF StagingInv, TypeInv, CallsInv, CallOK, RangesMode
  <2>3. ListsInv' /\ BeginInv' /\ OneState'
      BY <2>1 DEF StagingInv, ListsInv, BeginInv, OneState, Written
  <2>4. MutexInv' /\ RangesInv'
      BY <2>1 DEF StagingInv, MutexInv, RangesInv, Holds, My, RangesMode
  <2>5. BlocksInv'
      BY <2>1 DEF StagingInv, BlocksInv, ChunkUnits, Written, My, RangesMode
  <2>6. DataInv'
      BY <2>1 DEF StagingInv, DataInv, ReadyRanges, FileSize, Intact, My, RangesMode
  <2> QED
      BY <2>2, <2>3, <2>4, <2>5, <2>6 DEF StagingInv
<1> QED
    BY <1>1, <1>2, <1>3, <1>4, <1>5, <1>6, <1>7 DEF StagingNext

-----------------------------------------------------------------------------
(* What the invariant says                                                 *)

\* The invariant is one of the specification, if Reap does not meet a session
\* that Begin has not returned.
LEMMA StagingInvariant ==
    ASSUME ReapsEarly = FALSE
    PROVE  StagingSpec => []StagingInv
<1>1. StagingInit => StagingInv
    BY InitEstablishes
<1>2. StagingInv /\ [StagingNext]_vars => StagingInv'
    BY NextKeeps
<1> QED
    BY <1>1, <1>2, PTL DEF StagingSpec

LEMMA TypesFollow ==
    ASSUME StagingInv
    PROVE  StagingTypeOK
<1>1. /\ states \in Seq(State) /\ DOMAIN states = 1..Len(states) /\ Len(states) \in Nat
      /\ current \in 0..Len(states)
    BY DEF StagingInv, TypeInv
<1>2. /\ opts \in Options /\ begin \in {"create", "save", "store", "done", "lost"}
      /\ data \in [1..Size + 1 -> {"hole", "good", "bad"}]
      /\ meta = None \/ meta \in Seq(ByteRange)
      /\ acked \subseteq 1..Size + 1
    BY DEF StagingInv, TypeInv
<1>3. \A g \in DOMAIN states : states[g] \in State
    BY <1>1
<1>4. current \in DOMAIN states \cup {0}
    BY <1>1
<1>5. \A t \in Caller : call[t].st \in DOMAIN states \cup {0} /\ call[t].chunk \in Chunk
  <2> SUFFICES ASSUME NEW t \in Caller
               PROVE  call[t].st \in DOMAIN states \cup {0} /\ call[t].chunk \in Chunk
      OBVIOUS
  <2>1. call[t].st \in 0..Len(states)
      BY DEF StagingInv, CallsInv, CallOK
  <2>2. call[t] \in Call
      BY DEF StagingInv, TypeInv
  <2> QED
      BY <1>1, <2>1, <2>2 DEF Call
<1>6. \A g \in DOMAIN states : \A i, j \in DOMAIN states[g].ranges :
         i < j => states[g].ranges[i].end < states[g].ranges[j].start
    BY <1>1 DEF StagingInv, ListsInv, IsList, WellFormed
<1> QED
    BY <1>2, <1>3, <1>4, <1>5, <1>6 DEF StagingTypeOK

\* In the block modes the file is as long as was said, or one unit longer.
LEMMA FileSizeIs ==
    ASSUME Written \subseteq 1..Size + 1, DOMAIN data = 1..Size + 1, opts.sized
    PROVE  FileSize = IF Size + 1 \in Written THEN Size + 1 ELSE Size
<1> DEFINE T == Written \cup {Size}
           m == IF Size + 1 \in Written THEN Size + 1 ELSE Size
<1>1. FileSize = Max(T)
    BY DEF FileSize, Written
<1>2. T \subseteq 1..Size + 1 /\ Size \in Nat
    BY SizeAssumption
<1>3. m \in T /\ \A y \in T : m >= y
    BY <1>2
<1>4. ASSUME NEW x \in T, \A y \in T : x >= y PROVE x = m
    BY <1>2, <1>3, <1>4
<1> HIDE DEF T, m
<1>5. Max(T) = m
    BY <1>3, <1>4 DEF Max
<1> QED
    BY <1>1, <1>5 DEF m

LEMMA DeliveredFollows ==
    ASSUME StagingInv, \A o \in Options : o.mode = "pieces" => o.checked
    PROVE  DeliveredIntact
<1> SUFFICES ASSUME NEW t \in Caller, call[t].pc = "commit"
             PROVE  /\ \A u \in 1..FileSize : data[u] # "hole"
                    /\ Vouched => Intact
    BY DEF DeliveredIntact
<1>1. call[t].st \in 1..Len(states) /\ My(t) = states[call[t].st] /\ My(t) \in State
    BY CallIs DEF StagingInv
<1>2. data \in [1..Size + 1 -> {"hole", "good", "bad"}] /\ opts \in Options
    BY DEF StagingInv, TypeInv
<1>3. CASE RangesMode
  <2>1. ReadyRanges(My(t).ranges)
      BY <1>3 DEF StagingInv, DataInv
  <2>2. Covered(My(t).ranges) \subseteq Written
      BY <1>1 DEF StagingInv, ListsInv, IsList
  <2>3. IsComplete(My(t).ranges, FileSize)
      BY <2>1 DEF ReadyRanges
  <2>4. ASSUME NEW u \in 1..FileSize PROVE data[u] # "hole"
    <3>1. CASE FileSize = 0
        BY <2>4, <3>1
    <3>2. CASE FileSize # 0
      <4>1. My(t).ranges = << [start |-> 0, end |-> FileSize] >>
          BY <2>3, <3>2 DEF IsComplete
      <4>2. 1 \in DOMAIN My(t).ranges /\ My(t).ranges[1] = [start |-> 0, end |-> FileSize]
          BY <4>1
      <4>3. u \in UnitsIn(My(t).ranges[1])
          BY <2>4, <4>2 DEF UnitsIn
      <4> QED
          BY <2>2, <4>2, <4>3, CoveredBy DEF Written
    <3> QED
        BY <3>1, <3>2
  <2>5. Vouched => Intact
      BY <1>3, <2>1 DEF Vouched, ReadyRanges, RangesMode
  <2> QED
      BY <2>4, <2>5
<1>4. CASE ~RangesMode
  <2>1. My(t).received = Unit /\ opts.sized
      BY <1>4, OptsAre DEF StagingInv, DataInv
  <2>2. Unit \subseteq Written
      BY <1>1, <1>4, <2>1 DEF StagingInv, BlocksInv
  <2>3. FileSize = IF Size + 1 \in Written THEN Size + 1 ELSE Size
      BY <1>2, <2>1, FileSizeIs DEF Written
  <2>4. ASSUME NEW u \in 1..FileSize PROVE data[u] # "hole"
    <3>1. u \in Unit \/ (u = Size + 1 /\ Size + 1 \in Written)
        BY <2>3, <2>4, SizeAssumption DEF Unit
    <3> QED
        BY <2>2, <3>1 DEF Written
  <2>5. ASSUME Vouched PROVE Intact
    <3>1. opts.checked
        BY <1>2, <1>4, <2>5 DEF Vouched
    <3>2. \A u \in 1..Size + 1 : data[u] # "hole" => u <= Size /\ data[u] = "good"
        BY <1>4, <3>1 DEF StagingInv, DataInv
    <3>3. Size + 1 \notin Written
        BY <3>2, SizeAssumption DEF Written
    <3>4. \A u \in Unit : data[u] = "good"
        BY <2>2, <3>2 DEF Written
    <3> QED
        BY <2>3, <3>3, <3>4 DEF Intact
  <2> QED
      BY <2>4, <2>5
<1> QED
    BY <1>3, <1>4

LEMMA ReceivedFollows ==
    ASSUME StagingInv
    PROVE  AcknowledgedStaysReceived
<1> SUFFICES ASSUME linked, restarts = 0 \/ RangesMode
             PROVE  acked \subseteq Reported
    BY DEF AcknowledgedStaysReceived
<1>1. states \in Seq(State) /\ current \in 0..Len(states) /\ Len(states) \in Nat
    BY DEF StagingInv, TypeInv
<1>2. CASE RangesMode
  <2>1. /\ current # 0 => meta = states[current].ranges
        /\ acked \subseteq IF meta = None THEN {} ELSE Covered(meta)
      BY <1>2 DEF StagingInv, RangesInv
  <2> QED
      BY <2>1 DEF Reported
<1>3. CASE ~RangesMode
    BY <1>3 DEF StagingInv, BlocksInv, Reported
<1> QED
    BY <1>2, <1>3

\* Without its name the data file is not opened again, and nobody saves.
LEMMA NobodySaves ==
    ASSUME StagingInv, [StagingNext]_vars, ~linked, meta = None, RangesMode
    PROVE  meta' = None
<1>1. ASSUME NEW t \in Caller, WriteChunkRangeSet(t) PROVE meta' = None
  <2>1. call[t].st \in 1..Len(states) /\ My(t) = states[call[t].st]
      BY <1>1, CallIs DEF StagingInv, WriteChunkRangeSet
  <2>2. ~CanOpen(t)
      BY <2>1 DEF StagingInv, MutexInv, CanOpen
  <2> QED
      BY <1>1, <2>2 DEF WriteChunkRangeSet
<1>2. ASSUME NEW t \in Caller, FlushMeta(t) PROVE FALSE
    BY <1>2 DEF FlushMeta, StagingInv, CallsInv, CallOK, BlockSteps
<1>3. ASSUME NEW t \in Caller, SaveMeta(t) PROVE FALSE
    BY <1>3 DEF SaveMeta, StagingInv, MutexInv
<1>4. ASSUME NEW t \in Caller, Progress(t) PROVE meta' = None
    BY <1>3, <1>4 DEF Progress, LoadOrStore, OpenFile, WriteBlocks, MarkReceived, VerifyPieces,
       Check, UnlockAgain, CloseUpload, CloseHandle, RemoveData, Forget
<1>5. ASSUME NEW t \in Caller, Locked(t) PROVE meta' = None
    BY <1>1, <1>2, <1>5 DEF Locked, Lock
<1>6. CASE Begin
    BY <1>6 DEF Begin, BeginCreatesData, BeginSavesMeta, BeginStores, StagingInv, BeginInv
<1>7. ASSUME NEW t \in Caller, NEW op, NEW c, Enter(t, op, c) PROVE meta' = None
    BY <1>7 DEF Enter, OnlyCalls
<1>8. CASE Restart
    BY <1>8 DEF Restart
<1>9. CASE UNCHANGED vars
    BY <1>9 DEF vars
<1> QED
    BY <1>4, <1>5, <1>6, <1>7, <1>8, <1>9 DEF StagingNext

\* Who writes has the mutex, and so has who reads the upload.
LEMMA NobodyWrites ==
    ASSUME StagingInv, [StagingNext]_vars, NEW u \in Caller, call[u].pc = "commit", RangesMode
    PROVE  data' = data
<1>0. /\ linked /\ My(u).mu = u /\ begin \in {"done", "lost"}
      /\ call[u].st \in 1..Len(states) /\ My(u) = states[call[u].st]
    BY CallIs DEF StagingInv, MutexInv, Holds
<1>1. ASSUME NEW t \in Caller, WriteChunkRangeSet(t) PROVE FALSE
  <2>1. /\ call[t].st \in 1..Len(states) /\ My(t) = states[call[t].st] /\ My(t).mu = None
      BY <1>1, CallIs DEF StagingInv, WriteChunkRangeSet
  <2>2. Len(states) = 1
    <3>1. Len(states) \in {0, 1}
        BY <1>0 DEF StagingInv, OneState
    <3>2. Len(states) # 0
        BY <1>0
    <3> QED
        BY <3>1, <3>2
  <2>3. call[t].st = 1 /\ call[u].st = 1
      BY <1>0, <2>1, <2>2, OnlyOne
  <2> QED
      BY <1>0, <2>1, <2>3, StagingNoneAssumption
<1>2. ASSUME NEW t \in Caller, WriteBlocks(t) PROVE FALSE
    BY <1>2 DEF WriteBlocks, StagingInv, CallsInv, CallOK, BlockSteps
<1>3. ASSUME NEW t \in Caller, Progress(t) PROVE data' = data
    BY <1>2, <1>3 DEF Progress, LoadOrStore, OpenFile, MarkReceived, VerifyPieces, SaveMeta,
       Check, UnlockAgain, CloseUpload, CloseHandle, RemoveData, Forget
<1>4. ASSUME NEW t \in Caller, Locked(t) PROVE data' = data
    BY <1>1, <1>4 DEF Locked, Lock, FlushMeta
<1>5. CASE Begin
    BY <1>5 DEF Begin, BeginCreatesData, BeginSavesMeta, BeginStores
<1>6. ASSUME NEW t \in Caller, NEW op, NEW c, Enter(t, op, c) PROVE data' = data
    BY <1>6 DEF Enter, OnlyCalls
<1>7. CASE Restart
    BY <1>7 DEF Restart
<1>8. CASE UNCHANGED vars
    BY <1>8 DEF vars
<1> QED
    BY <1>3, <1>4, <1>5, <1>6, <1>7, <1>8 DEF StagingNext

-----------------------------------------------------------------------------
(* The theorems                                                            *)

\* All variables keep their types, and the ranges of a state object stay sorted
\* and apart from each other, as Add is meant to keep them.
THEOREM StagingTypesCorrect ==
    ASSUME ReapsEarly = FALSE
    PROVE  StagingSpec => []StagingTypeOK
BY StagingInvariant, TypesFollow, PTL

\* What Complete hands out has no holes and is the sender's file where something
\* vouches for it; piece hashes do so only together with checksums of the chunks.
THEOREM UploadsAreIntact ==
    ASSUME ReapsEarly = FALSE, \A o \in Options : o.mode = "pieces" => o.checked
    PROVE  StagingSpec => []DeliveredIntact
BY StagingInvariant, DeliveredFollows, PTL

\* What WriteChunk accepted stays received while the session has its data.
THEOREM AcknowledgedIsKept ==
    ASSUME ReapsEarly = FALSE
    PROVE  StagingSpec => []AcknowledgedStaysReceived
BY StagingInvariant, ReceivedFollows, PTL

\* The data file of a session has a metadata file beside it.
THEOREM ReapersFindData ==
    ASSUME ReapsEarly = FALSE
    PROVE  StagingSpec => []DataIsReapable
<1>1. StagingInv => DataIsReapable
    BY DEF StagingInv, BeginInv, DataIsReapable
<1> QED
    BY <1>1, StagingInvariant, PTL

\* In ranges mode a session that was removed does not come back.
THEOREM RemovedIsGone ==
    ASSUME ReapsEarly = FALSE
    PROVE  StagingSpec => RemovedStaysRemoved
<1>1. StagingInv /\ [StagingNext]_vars =>
         [~linked /\ meta = None /\ RangesMode => meta' = None]_vars
    BY NobodySaves
<1> QED
    BY <1>1, StagingInvariant, PTL DEF StagingSpec, RemovedStaysRemoved

\* In ranges mode an upload that a caller reads is not written to.
THEOREM ReadersAreAlone ==
    ASSUME ReapsEarly = FALSE
    PROVE  StagingSpec => CommitReadsStable
<1>1. StagingInv /\ [StagingNext]_vars =>
         [\A t \in Caller : call[t].pc = "commit" /\ RangesMode => data' = data]_vars
    BY NobodyWrites
<1> QED
    BY <1>1, StagingInvariant, PTL DEF StagingSpec, CommitReadsStable
=============================================================================
