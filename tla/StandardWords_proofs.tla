------------------------- MODULE StandardWords_proofs -------------------------
(***************************************************************************)
(* Proofs about programs of the standard words that run no code: those     *)
(* that cut containers into pieces (module CuttingWords), those that       *)
(* compare values (module ComparingWords) and those that shape containers  *)
(* (module ShapingWords), on stacks of any values.                         *)
(***************************************************************************)
EXTENDS CuttingWords, ShapingWords, Values_proofs

(***************************************************************************)
(* Cuts.                                                                   *)
(***************************************************************************)
\* Where a cut from i to j begins and ends.
Low(i)     == IF i >= 1 THEN i ELSE 1
High(c, j) == IF j <= Size(c) THEN j ELSE Size(c)

\* What Cut takes: the entries from i, or the first, to j, or the last.
LEMMA CutIs ==
    ASSUME NEW c, IsSequence(c[2]), NEW i \in Int, NEW j \in Int
    PROVE  LET t == SubSeq(c[2], Low(i), High(c, j)) IN
           /\ Cut(c, i, j) = <<Kind(c), t>>
           /\ t \in Seq(ToSet(c[2]))
           /\ Len(t) = IF Low(i) <= High(c, j) THEN High(c, j) - Low(i) + 1 ELSE 0
           /\ \A p \in 1..Len(t) : t[p] = c[2][Low(i) + p - 1]
<1> DEFINE m == Low(i)
           n == High(c, j)
           t == SubSeq(c[2], m, n)
<1>1. Size(c) \in Nat /\ c[2] \in Seq(ToSet(c[2])) /\ DOMAIN c[2] = 1..Size(c)
    BY SequenceIs DEF Size
<1>2. m \in Int /\ n \in Int /\ 1 <= m /\ n <= Size(c)  BY <1>1 DEF Low, High
<1>3. Max({i, 1}) = m  BY MaxOfTwo DEF Low
<1>4. Min({j, Size(c)}) = n  BY MinOfTwo, <1>1 DEF High
<1>5. Cut(c, i, j) = <<Kind(c), t>>  BY <1>3, <1>4 DEF Cut
<1> HIDE DEF m, n
<1>6. \A p \in m..n : c[2][p] \in ToSet(c[2])
  <2>1. \A p \in m..n : p \in DOMAIN c[2]  BY <1>1, <1>2
  <2> QED BY <2>1 DEF ToSet
<1>7. /\ SubSeq(c[2], m, n) \in Seq(ToSet(c[2]))
      /\ Len(SubSeq(c[2], m, n)) = IF m <= n THEN n - m + 1 ELSE 0
      /\ \A p \in 1..n - m + 1 : SubSeq(c[2], m, n)[p] = c[2][m + p - 1]
    BY <1>2, <1>6, SubSeqProperties
<1>8. \A p \in 1..Len(t) : p \in 1..n - m + 1  BY <1>2, <1>7
<1> QED BY <1>5, <1>7, <1>8 DEF m, n

\* Two cuts next to each other make up the sequence.
LEMMA CutsMeet ==
    ASSUME NEW c, IsSequence(c[2]), NEW k \in Int
    PROVE  Cut(c, 1, k)[2] \o Cut(c, (IF k > 0 THEN k ELSE 0) + 1, Size(c))[2] = c[2]
<1> DEFINE s == c[2]
           n == High(c, k)
           h == IF k > 0 THEN k ELSE 0
<1>1. Size(c) \in Nat /\ s \in Seq(ToSet(s)) /\ Len(s) = Size(c)  BY SequenceIs DEF Size
<1>2. Cut(c, 1, k)[2] = SubSeq(s, 1, n)
  <2>1. Cut(c, 1, k) = <<Kind(c), SubSeq(s, Low(1), n)>>  BY CutIs
  <2>2. Low(1) = 1  BY DEF Low
  <2> QED BY <2>1, <2>2
<1>3. Cut(c, h + 1, Size(c))[2] = SubSeq(s, h + 1, Size(c))
  <2>1. h \in Nat  OBVIOUS
  <2>2. Low(h + 1) = h + 1 /\ High(c, Size(c)) = Size(c)  BY <1>1, <2>1 DEF Low, High
  <2>3. h + 1 \in Int /\ Size(c) \in Int  BY <1>1, <2>1
  <2>4. Cut(c, h + 1, Size(c)) = <<Kind(c), SubSeq(s, Low(h + 1), High(c, Size(c)))>>
      BY <2>3, CutIs
  <2> QED BY <2>2, <2>4
<1>4. SubSeq(s, 1, Size(c)) = s  BY <1>1, SubSeqFull
<1>5. Len(s) \in Nat /\ n = (IF k <= Len(s) THEN k ELSE Len(s))  BY <1>1 DEF High
<1> HIDE DEF s, n
<1>6. CASE k <= 0
  <2>1. SubSeq(s, 1, n) = <<>>  BY <1>1, <1>5, <1>6, SubSeqEmpty
  <2>2. SubSeq(s, h + 1, Size(c)) = s  BY <1>4, <1>6
  <2>3. <<>> \o s = s  BY <1>1, ConcatEmptySeq
  <2> QED BY <1>2, <1>3, <2>1, <2>2, <2>3 DEF s
<1>7. CASE k \in 1..Size(c)
  <2>1. SubSeq(s, 1, k) \o SubSeq(s, k + 1, Size(c)) = SubSeq(s, 1, Size(c))
    <3>1. 1 \in 1..Len(s)+1 /\ k \in 1-1..Len(s) /\ Size(c) \in k..Len(s)
        BY <1>1, <1>7
    <3> QED BY <1>1, <3>1, ConcatAdjacentSubSeq
  <2>2. n = k /\ h = k  BY <1>1, <1>5, <1>7
  <2> QED BY <1>2, <1>3, <1>4, <2>1, <2>2 DEF s
<1>8. CASE k > Size(c)
  <2>1. SubSeq(s, h + 1, Size(c)) = <<>>
    <3>1. h + 1 \in Int /\ Size(c) < h + 1  BY <1>1, <1>8
    <3> QED BY <1>1, <3>1, SubSeqEmpty
  <2>2. SubSeq(s, 1, n) = s  BY <1>1, <1>4, <1>5, <1>8
  <2>3. s \o <<>> = s  BY <1>1, ConcatEmptySeq
  <2> QED BY <1>2, <1>3, <2>1, <2>2, <2>3 DEF s
<1>9. k <= 0 \/ k \in 1..Size(c) \/ k > Size(c)  BY <1>1
<1> QED BY <1>6, <1>7, <1>8, <1>9, Zenon

\* A cut that begins at the first entry or before it, and ends with the last.
LEMMA CutAll ==
    ASSUME NEW c, c = <<c[1], c[2]>>, IsSequence(c[2]), NEW i \in Int, i <= 1
    PROVE  Cut(c, i, Size(c)) = c
<1>1. Size(c) \in Nat /\ c[2] \in Seq(ToSet(c[2])) /\ Len(c[2]) = Size(c)
    BY SequenceIs DEF Size
<1>2. Low(i) = 1 /\ High(c, Size(c)) = Size(c)  BY <1>1 DEF Low, High
<1>3. Cut(c, i, Size(c)) = <<Kind(c), SubSeq(c[2], Low(i), High(c, Size(c)))>>
    BY <1>1, CutIs
<1>4. SubSeq(c[2], 1, Size(c)) = c[2]  BY <1>1, SubSeqFull
<1> QED BY <1>2, <1>3, <1>4 DEF Kind

(***************************************************************************)
(* The words that cut.                                                     *)
(***************************************************************************)
\* A number given to a word, as an i64, is one.
LEMMA AsI64Int ==
    ASSUME NEW n, Shaped(n)
    PROVE  AsI64(n) \in Int
<1>1. MaxInt \in Int /\ MinInt \in Int  BY WidthAssumption DEF MinInt
<1>2. CASE Kind(n) = "int"  BY <1>1, <1>2 DEF AsI64, Shaped
<1>3. CASE Kind(n) = "float"
  <2>1. n[2] \in Int  BY <1>3 DEF Shaped
  <2> DEFINE h == IF n[2] >= 0 THEN n[2] \div 2 ELSE -((-n[2]) \div 2)
  <2>2. h \in Int  BY <2>1
  <2> HIDE DEF h
  <2>3. Clamp(h) \in Int  BY <1>1, <2>2 DEF Clamp
  <2> QED BY <1>3, <2>3 DEF AsI64, h
<1>4. CASE Kind(n) \notin {"int", "float"}  BY <1>4 DEF AsI64
<1> QED BY <1>2, <1>3, <1>4

\* TAKE, its rest, SKIP and TAKE-LAST as cuts.
LEMMA WordsCut ==
    ASSUME NEW c, IsContainer(c), Shaped(c), NEW n, Shaped(n),
           NEW k, k = AsI64(n), NEW h, h = (IF k > 0 THEN k ELSE 0)
    PROVE  /\ k \in Int /\ h \in Nat /\ IsSequence(c[2]) /\ c = <<c[1], c[2]>>
           /\ TakeOf(c, n) = Cut(c, 1, k)
           /\ RestOf(c, n) = Cut(c, h + 1, Size(c))
           /\ SkipOf(c, n) = Cut(c, h + 1, Size(c))
           /\ k > 0 => TakeLastOf(c, n) = Cut(c, Size(c) - k + 1, Size(c))
           /\ k <= 0 => TakeLastOf(c, n) = <<Kind(c), <<>>>>
<1>1. k \in Int /\ h \in Nat  BY AsI64Int
<1>2. IsSequence(c[2]) /\ c = <<c[1], c[2]>>  BY DEF Shaped
<1>3. TakeOf(c, n) = Cut(c, 1, k)  BY DEF TakeOf, IsContainer
<1>4. Max({k, 0}) = h  BY <1>1, MaxOfTwo
<1>5. RestOf(c, n) = Cut(c, h + 1, Size(c))  BY <1>4 DEF RestOf
<1>6. SkipOf(c, n) = Cut(c, h + 1, Size(c))
  <2>1. CASE k <= 0
    <3>1. SkipOf(c, n) = c  BY <1>1, <2>1 DEF SkipOf, IsContainer
    <3>2. Cut(c, 1, Size(c)) = c  BY <1>2, CutAll
    <3>3. h + 1 = 1  BY <1>1, <2>1
    <3> QED BY <3>1, <3>2, <3>3, Zenon
  <2>2. CASE k > 0  BY <1>1, <2>2 DEF SkipOf, IsContainer
  <2>3. k <= 0 \/ k > 0  BY <1>1
  <2> QED BY <2>1, <2>2, <2>3, Zenon
<1>7. k > 0 => TakeLastOf(c, n) = Cut(c, Size(c) - k + 1, Size(c))
    BY <1>1 DEF TakeLastOf, IsContainer
<1>8. k <= 0 => TakeLastOf(c, n) = <<Kind(c), <<>>>>
    BY <1>1 DEF TakeLastOf, IsContainer, EmptyRec, EmptyArr, Rec, Arr
<1> QED BY <1>1, <1>2, <1>3, <1>5, <1>6, <1>7, <1>8

(***************************************************************************)
(* SLICE.                                                                  *)
(***************************************************************************)
\* A remainder of a number that is small enough.
LEMMA SmallRemainder ==
    ASSUME NEW a \in Nat, NEW b \in Nat, a < b
    PROVE  a % b = a
OBVIOUS

\* A number in the width of an i64 is not changed by it.
LEMMA WrapInside ==
    ASSUME NEW n \in MinInt..MaxInt
    PROVE  Wrap(n) = n
<1> DEFINE a == n - MinInt
           b == MaxInt - MinInt + 1
<1>1. MaxInt \in Nat /\ MinInt = -MaxInt - 1  BY WidthAssumption DEF MinInt
<1>2. a \in Nat /\ b \in Nat /\ a < b /\ a + MinInt = n  BY <1>1
<1>3. Wrap(n) = (a % b) + MinInt  BY DEF Wrap
<1> HIDE DEF a, b
<1>4. a % b = a  BY <1>2, SmallRemainder
<1> QED BY <1>2, <1>3, <1>4

\* The guard of SLICE and RANGE counts right what does not reach the end of
\* the number line.
LEMMA SpanInside ==
    ASSUME NEW i \in Int, NEW j \in Int,
           NEW d, d = (IF i <= j THEN j - i ELSE i - j), d < MaxInt
    PROVE  Span(i, j) = d + 1
<1>1. MaxInt \in Nat /\ MinInt = -MaxInt - 1  BY WidthAssumption DEF MinInt
<1>2. j - i \in MinInt..MaxInt  BY <1>1
<1>3. Wrap(j - i) = j - i  BY <1>2, WrapInside
<1>4. Abs(j - i) = d
  <2>1. CASE j >= i  BY <1>1, <2>1 DEF Abs
  <2>2. CASE j < i
    <3>1. -(j - i) = d /\ d \in MinInt..MaxInt  BY <1>1, <2>2
    <3>2. Wrap(-(j - i)) = d  BY <3>1, WrapInside
    <3> QED BY <2>2, <3>2 DEF Abs
  <2> QED BY <2>1, <2>2
<1>5. d + 1 \in MinInt..MaxInt  BY <1>1
<1>6. Wrap(d + 1) = d + 1  BY <1>5, WrapInside
<1> QED BY <1>3, <1>4, <1>6 DEF Span

\* a and b name the positions i and j, inside a container of n entries.
Walks(n, a, b, i, j) ==
    /\ n \in Nat /\ a \in Int /\ b \in Int
    /\ i \in 0..n-1 /\ i = Normalize(a, n)
    /\ j \in 0..n-1 /\ j = Normalize(b, n)

\* The numbers, from one, of the entries from the position i to j, up or down,
\* and how far apart the two are.
Between(i, j) ==
    IF i <= j THEN [p \in 1..j - i + 1 |-> i + p] ELSE [p \in 1..i - j + 1 |-> i - p + 2]
Apart(i, j) == IF i <= j THEN j - i ELSE i - j

\* The walk from a position inside to one inside, up or down.
LEMMA WalkInside ==
    ASSUME NEW n, NEW a, NEW b, NEW i, NEW j, Walks(n, a, b, i, j)
    PROVE  slice_indexes(a, b, n) = Between(i, j)
<1> DEFINE step  == IF i > j THEN -1 ELSE 1
           at(p) == i + (p - 1) * step
           in(p) == IF at(p) \in 0..n-1 THEN at(p) + 1 ELSE 0
<1>1. n \in Nat /\ i \in 0..n-1 /\ j \in 0..n-1  BY DEF Walks
<1>2. slice_indexes(a, b, n) =
          IF i \notin 0..n-1 THEN <<>> ELSE [p \in 1..(j - i) * step + 1 |-> in(p)]
  <2>1. i = Normalize(a, n) /\ j = Normalize(b, n)  BY DEF Walks
  <2> QED BY <2>1, Zenon DEF slice_indexes
<1>3. slice_indexes(a, b, n) = [p \in 1..(j - i) * step + 1 |-> in(p)]
    BY <1>1, <1>2
<1>4. CASE i <= j
  <2>1. step = 1  BY <1>1, <1>4
  <2>2. (j - i) * step + 1 = j - i + 1  BY <1>1, <2>1
  <2>3. \A p \in 1..j - i + 1 : at(p) = i + p - 1  BY <1>1, <2>1
  <2>4. \A p \in 1..j - i + 1 : in(p) = i + p  BY <1>1, <2>3
  <2> HIDE DEF step, at, in
  <2>5. slice_indexes(a, b, n) = [p \in 1..j - i + 1 |-> i + p]
      BY <1>3, <2>2, <2>4
  <2> QED BY <1>4, <2>5 DEF Between
<1>5. CASE i > j
  <2>1. step = -1  BY <1>5
  <2>2. (j - i) * step + 1 = i - j + 1  BY <1>1, <2>1
  <2>3. \A p \in 1..i - j + 1 : at(p) = i - p + 1  BY <1>1, <2>1
  <2>4. \A p \in 1..i - j + 1 : in(p) = i - p + 2  BY <1>1, <1>5, <2>3
  <2> HIDE DEF step, at, in
  <2>5. ~(i <= j)  BY <1>1, <1>5
  <2>6. slice_indexes(a, b, n) = [p \in 1..i - j + 1 |-> i - p + 2]
      BY <1>3, <2>2, <2>4
  <2> QED BY <2>5, <2>6 DEF Between
<1> QED BY <1>1, <1>4, <1>5

\* a and b name the positions i and j of the container c, and what lies between
\* them is within the limit.
Slices(c, a, b, i, j) ==
    /\ IsContainer(c) /\ IsSequence(c[2])
    /\ Walks(Size(c), a, b, i, j) /\ Apart(i, j) < MaxMaterialized

\* SLICE then gives the entries it walks over, of an array and of a record.
LEMMA SliceInside ==
    ASSUME NEW c, NEW from, NEW to, NEW i, NEW j, Slices(c, AsI64(from), AsI64(to), i, j)
    PROVE  SliceOf(c, from, to) =
              <<Kind(c), [p \in 1..Apart(i, j) + 1 |-> c[2][Between(i, j)[p]]]>>
<1> DEFINE a     == AsI64(from)
           b     == AsI64(to)
           d     == Apart(i, j)
           idx   == slice_indexes(a, b, Size(c))
           there == Cardinality({p \in 1..Len(idx) : idx[p] # 0})
           got   == [p \in 1..d + 1 |-> c[2][Between(i, j)[p]]]
<1>1. IsContainer(c) /\ Walks(Size(c), a, b, i, j) /\ d < MaxMaterialized  BY DEF Slices
<1>2. MaxMaterialized \in Nat /\ MaxMaterialized <= MaxInt /\ MaxInt \in Nat
    BY LimitAssumption, WidthAssumption
<1>3. i \in Nat /\ j \in Nat /\ i = Normalize(a, Size(c)) /\ j = Normalize(b, Size(c))
  <2>1. i \in 0..Size(c)-1 /\ j \in 0..Size(c)-1  BY <1>1 DEF Walks
  <2> QED BY <1>1, <2>1 DEF Walks
<1>4. d \in Nat /\ d = (IF i <= j THEN j - i ELSE i - j)  BY <1>3 DEF Apart
<1>5. Span(i, j) = d + 1
  <2>1. i \in Int /\ j \in Int /\ d < MaxInt  BY <1>1, <1>2, <1>3, <1>4
  <2> HIDE DEF d
  <2> QED BY <1>4, <2>1, SpanInside
<1>6. idx = Between(i, j)  BY <1>1, WalkInside
<1>7. Len(idx) = d + 1 /\ \A p \in 1..d + 1 : idx[p] # 0
  <2>1. CASE i <= j
    <3> DEFINE m == j - i + 1
    <3>1. idx = [p \in 1..m |-> i + p] /\ d + 1 = m
        BY <1>4, <1>6, <2>1 DEF Between
    <3>2. m \in Nat  BY <1>3, <2>1
    <3>3. \A p \in 1..m : i + p # 0  BY <1>3
    <3> HIDE DEF idx, d, m
    <3>4. Len(idx) = m  BY <3>1, <3>2
    <3>5. \A p \in 1..m : idx[p] # 0  BY <3>1, <3>3
    <3> QED BY <3>1, <3>4, <3>5
  <2>2. CASE ~(i <= j)
    <3> DEFINE m == i - j + 1
    <3>1. idx = [p \in 1..m |-> i - p + 2] /\ d + 1 = m
        BY <1>4, <1>6, <2>2 DEF Between
    <3>2. m \in Nat  BY <1>3, <2>2
    <3>3. \A p \in 1..m : i - p + 2 # 0  BY <1>3
    <3> HIDE DEF idx, d, m
    <3>4. Len(idx) = m  BY <3>1, <3>2
    <3>5. \A p \in 1..m : idx[p] # 0  BY <3>1, <3>3
    <3> QED BY <3>1, <3>4, <3>5
  <2> QED BY <2>1, <2>2
<1> HIDE DEF idx, d
<1>8. there = d + 1
  <2>1. {p \in 1..Len(idx) : idx[p] # 0} = 1..d + 1  BY <1>7
  <2>2. 1 \in Int /\ d + 1 \in Int /\ ~(1 > d + 1) /\ (d + 1) - 1 + 1 = d + 1  BY <1>4
  <2>3. Cardinality(1..d + 1) = IF 1 > d + 1 THEN 0 ELSE (d + 1) - 1 + 1
      BY <2>2, FS_Interval, Zenon
  <2> QED BY <2>1, <2>2, <2>3
<1>9. Span(Normalize(a, Size(c)), Normalize(b, Size(c))) <= MaxMaterialized
  <2>1. Span(Normalize(a, Size(c)), Normalize(b, Size(c))) = d + 1  BY <1>3, <1>5
  <2>2. d + 1 <= MaxMaterialized  BY <1>1, <1>2, <1>4
  <2> QED BY <2>1, <2>2
<1>10. ~(Span(Normalize(a, Size(c)), Normalize(b, Size(c))) > MaxMaterialized)
  <2>1. Span(Normalize(a, Size(c)), Normalize(b, Size(c))) = d + 1  BY <1>3, <1>5
  <2>2. ~(d + 1 > MaxMaterialized)  BY <1>1, <1>2, <1>4
  <2> QED BY <2>1, <2>2
<1>11. CASE Kind(c) = "array"
  <2>1. SliceOf(c, from, to) =
          Arr([p \in 1..Len(idx) |-> IF idx[p] = 0 THEN Nil ELSE c[2][idx[p]]])
      BY <1>1, <1>9, <1>10, <1>11 DEF SliceOf, idx
  <2>2. [p \in 1..Len(idx) |-> IF idx[p] = 0 THEN Nil ELSE c[2][idx[p]]] = got
      BY <1>6, <1>7
  <2> QED BY <1>11, <2>1, <2>2 DEF Arr, d
<1>12. CASE Kind(c) = "record"
  <2>1. SliceOf(c, from, to) = Rec([p \in 1..there |-> c[2][idx[p]]])
      BY <1>1, <1>9, <1>10, <1>12 DEF SliceOf, idx
  <2>2. [p \in 1..there |-> c[2][idx[p]]] = got  BY <1>6, <1>8
  <2> QED BY <1>12, <2>1, <2>2 DEF Rec, d
<1> QED BY <1>1, <1>11, <1>12 DEF IsContainer

\* The same with the positions written as numbers.
LEMMA SliceNumbers ==
    ASSUME NEW c, NEW a, NEW b, NEW i, NEW j, Slices(c, a, b, i, j)
    PROVE  SliceOf(c, Num(a), Num(b)) =
              <<Kind(c), [p \in 1..Apart(i, j) + 1 |-> c[2][Between(i, j)[p]]]>>
<1>1. AsI64(Num(a)) = a /\ AsI64(Num(b)) = b  BY DEF AsI64, Num, Kind
<1>2. Slices(c, AsI64(Num(a)), AsI64(Num(b)), i, j)  BY <1>1
<1> QED BY <1>2, SliceInside

\* Upwards and downwards, between two places inside.
LEMMA SliceUp ==
    ASSUME NEW c, NEW a, NEW b, NEW i, NEW j, Slices(c, a, b, i, j), i <= j
    PROVE  SliceOf(c, Num(a), Num(b)) = <<Kind(c), [p \in 1..j - i + 1 |-> c[2][i + p]]>>
<1>1. Apart(i, j) = j - i  BY DEF Apart
<1>2. \A p \in 1..j - i + 1 : Between(i, j)[p] = i + p  BY DEF Between
<1>3. SliceOf(c, Num(a), Num(b)) =
         <<Kind(c), [p \in 1..Apart(i, j) + 1 |-> c[2][Between(i, j)[p]]]>>
    BY SliceNumbers
<1> QED BY <1>1, <1>2, <1>3

LEMMA SliceDown ==
    ASSUME NEW c, NEW a, NEW b, NEW i, NEW j, Slices(c, a, b, i, j), i >= j
    PROVE  SliceOf(c, Num(a), Num(b))[2] = [p \in 1..i - j + 1 |-> c[2][i - p + 2]]
<1>1. i \in Int /\ j \in Int  BY DEF Slices, Walks
<1>2. Apart(i, j) = i - j  BY <1>1 DEF Apart
<1>3. \A p \in 1..i - j + 1 : Between(i, j)[p] = i - p + 2
  <2>1. CASE i = j
    <3>1. \A p \in 1..i - j + 1 : Between(i, j)[p] = i + p  BY <1>1, <2>1 DEF Between
    <3>2. \A p \in 1..i - j + 1 : p = 1  BY <1>1, <2>1
    <3>3. \A p \in 1..i - j + 1 : i + p = i - p + 2  BY <1>1, <3>2
    <3> QED BY <3>1, <3>3
  <2>2. CASE i # j
    <3>1. ~(i <= j)  BY <1>1, <2>2
    <3> QED BY <3>1 DEF Between
  <2> QED BY <2>1, <2>2
<1>4. SliceOf(c, Num(a), Num(b)) =
         <<Kind(c), [p \in 1..Apart(i, j) + 1 |-> c[2][Between(i, j)[p]]]>>
    BY SliceNumbers
<1> QED BY <1>2, <1>3, <1>4

\* A cut as a function of the positions.
LEMMA CutFunction ==
    ASSUME NEW c, IsSequence(c[2]), NEW i \in Int, NEW j \in Int
    PROVE  Cut(c, i, j) =
              <<Kind(c), [p \in 1..High(c, j) - Low(i) + 1 |-> c[2][Low(i) + p - 1]]>>
<1> DEFINE t == SubSeq(c[2], Low(i), High(c, j))
           m == High(c, j) - Low(i) + 1
<1>1. /\ Cut(c, i, j) = <<Kind(c), t>>
      /\ t \in Seq(ToSet(c[2]))
      /\ Len(t) = IF Low(i) <= High(c, j) THEN High(c, j) - Low(i) + 1 ELSE 0
      /\ \A p \in 1..Len(t) : t[p] = c[2][Low(i) + p - 1]
    BY CutIs
<1>2. Low(i) \in Int /\ High(c, j) \in Int  BY SequenceIs DEF Low, High, Size
<1>3. 1..Len(t) = 1..m  BY <1>1, <1>2
<1>4. t \in Seq(ToSet(c[2]))  BY <1>1
<1> HIDE DEF t
<1>5. t = [p \in 1..Len(t) |-> t[p]]  BY ONLY <1>4
<1>6. \A p \in 1..Len(t) : t[p] = c[2][Low(i) + p - 1]  BY <1>1 DEF t
<1>7. t = [p \in 1..m |-> c[2][Low(i) + p - 1]]  BY <1>3, <1>5, <1>6
<1> QED BY <1>1, <1>7 DEF t

\* SLICE from either end takes what TAKE and TAKE-LAST take, and backwards.
LEMMA SlicesAgree ==
    ASSUME NEW c, IsContainer(c), Shaped(c), NEW n, Shaped(n),
           NEW k \in 1..Size(c), k = AsI64(n), k <= MaxMaterialized
    PROVE  /\ SliceOf(c, Num(0), Num(k - 1)) = TakeOf(c, n)
           /\ SliceOf(c, Num(-k), Num(-1))   = TakeLastOf(c, n)
           /\ SliceOf(c, Num(k - 1), Num(0))[2] = Reverse(TakeOf(c, n)[2])
<1> DEFINE s == c[2]
<1>1. Size(c) \in Nat /\ k \in Int /\ k > 0 /\ MaxMaterialized \in Int
    BY SequenceIs, LimitAssumption, WidthAssumption DEF Size, Shaped
<1>2. IsContainer(c) /\ IsSequence(s)  BY DEF Shaped
<1>3. k <= MaxMaterialized  OBVIOUS
<1>4. /\ 0 = Normalize(0, Size(c)) /\ 0 \in 0..Size(c)-1
      /\ k - 1 = Normalize(k - 1, Size(c)) /\ k - 1 \in 0..Size(c)-1
      /\ Size(c) - k = Normalize(-k, Size(c)) /\ Size(c) - k \in 0..Size(c)-1
      /\ Size(c) - 1 = Normalize(-1, Size(c)) /\ Size(c) - 1 \in 0..Size(c)-1
    BY <1>1 DEF Normalize
<1>5. TakeOf(c, n) = <<Kind(c), [p \in 1..k |-> s[p]]>>
  <2>1. TakeOf(c, n) = Cut(c, 1, k)  BY WordsCut
  <2>2. Cut(c, 1, k) = <<Kind(c), [p \in 1..High(c, k) - Low(1) + 1 |-> s[Low(1) + p - 1]]>>
      BY <1>1, <1>2, CutFunction
  <2>3. Low(1) = 1 /\ High(c, k) = k  BY <1>1 DEF Low, High
  <2>4. [p \in 1..High(c, k) - Low(1) + 1 |-> s[Low(1) + p - 1]] = [p \in 1..k |-> s[p]]
    <3>1. k - 1 + 1 = k  BY <1>1
    <3>2. \A p \in 1..k : 1 + p - 1 = p  OBVIOUS
    <3> QED BY <2>3, <3>1, <3>2
  <2> QED BY <2>1, <2>2, <2>4
<1>6. TakeLastOf(c, n) = <<Kind(c), [p \in 1..k |-> s[Size(c) - k + p]]>>
  <2> DEFINE l == Size(c) - k + 1
  <2>1. TakeLastOf(c, n) = Cut(c, l, Size(c))  BY <1>1, WordsCut
  <2>2. l \in Int /\ Low(l) = l /\ High(c, Size(c)) = Size(c)  BY <1>1 DEF Low, High
  <2>3. Size(c) - l + 1 = k /\ \A p \in 1..k : l + p - 1 = Size(c) - k + p  BY <1>1
  <2>4. Size(c) \in Int  BY <1>1
  <2> HIDE DEF l
  <2>5. Cut(c, l, Size(c)) =
          <<Kind(c), [p \in 1..High(c, Size(c)) - Low(l) + 1 |-> s[Low(l) + p - 1]]>>
      BY <1>2, <2>2, <2>4, CutFunction
  <2>6. [p \in 1..High(c, Size(c)) - Low(l) + 1 |-> s[Low(l) + p - 1]]
          = [p \in 1..k |-> s[Size(c) - k + p]]
      BY <2>2, <2>3
  <2> QED BY <2>1, <2>5, <2>6
<1>7. SliceOf(c, Num(0), Num(k - 1)) = <<Kind(c), [p \in 1..k |-> s[p]]>>
  <2> DEFINE j == k - 1
  <2>1. j - 0 + 1 = k /\ 0 <= j /\ \A p \in 1..k : 0 + p = p  BY <1>1
  <2>2. Slices(c, 0, j, 0, j)
    <3>1. Walks(Size(c), 0, j, 0, j)  BY <1>1, <1>4 DEF Walks
    <3>2. Apart(0, j) < MaxMaterialized  BY <1>1 DEF Apart
    <3> QED BY <1>2, <3>1, <3>2 DEF Slices
  <2> HIDE DEF j
  <2>3. SliceOf(c, Num(0), Num(j)) = <<Kind(c), [p \in 1..j - 0 + 1 |-> s[0 + p]]>>
      BY <2>1, <2>2, SliceUp
  <2> QED BY <2>1, <2>3 DEF j
<1>8. SliceOf(c, Num(-k), Num(-1)) = <<Kind(c), [p \in 1..k |-> s[Size(c) - k + p]]>>
  <2> DEFINE i == Size(c) - k
             j == Size(c) - 1
             a == -k
             b == -1
  <2>1. i <= j /\ j - i + 1 = k  BY <1>1
  <2>2. Slices(c, a, b, i, j)
    <3>1. Walks(Size(c), a, b, i, j)  BY <1>1, <1>4 DEF Walks
    <3>2. Apart(i, j) < MaxMaterialized  BY <1>1, <2>1 DEF Apart
    <3> QED BY <1>2, <3>1, <3>2 DEF Slices
  <2> HIDE DEF i, j, a, b
  <2>3. SliceOf(c, Num(a), Num(b)) = <<Kind(c), [p \in 1..j - i + 1 |-> s[i + p]]>>
      BY <2>1, <2>2, SliceUp
  <2>4. SliceOf(c, Num(a), Num(b)) = <<Kind(c), [p \in 1..k |-> s[i + p]]>>
      BY <2>1, <2>3
  <2> QED BY <2>4 DEF i, a, b
<1>9. SliceOf(c, Num(k - 1), Num(0))[2] = [p \in 1..k |-> s[k - p + 1]]
  <2> DEFINE i == k - 1
  <2>1. i >= 0 /\ i - 0 + 1 = k /\ \A p \in 1..k : i - p + 2 = k - p + 1  BY <1>1
  <2>2. Slices(c, i, 0, i, 0)
    <3>1. Walks(Size(c), i, 0, i, 0)  BY <1>1, <1>4 DEF Walks
    <3>2. Apart(i, 0) < MaxMaterialized  BY <1>1 DEF Apart
    <3> QED BY <1>2, <3>1, <3>2 DEF Slices
  <2> HIDE DEF i
  <2>3. SliceOf(c, Num(i), Num(0))[2] = [p \in 1..i - 0 + 1 |-> s[i - p + 2]]
      BY <2>1, <2>2, SliceDown
  <2> QED BY <2>1, <2>3 DEF i
<1>10. Reverse([p \in 1..k |-> s[p]]) = [p \in 1..k |-> s[k - p + 1]]
  <2> DEFINE t == [p \in 1..k |-> s[p]]
  <2>1. Len(t) = k  BY <1>1
  <2>2. \A p \in 1..k : k - p + 1 \in 1..k  BY <1>1
  <2>3. \A p \in 1..k : t[k - p + 1] = s[k - p + 1]  BY <2>2
  <2>4. Reverse(t) = [p \in 1..k |-> t[k - p + 1]]  BY <2>1 DEF Reverse
  <2> QED BY <2>3, <2>4
<1> QED BY <1>5, <1>6, <1>7, <1>8, <1>9, <1>10

(***************************************************************************)
(* GROUPS-OF.                                                              *)
(***************************************************************************)
\* The number of groups: enough for all, and no more.
LEMMA RoundedUp ==
    ASSUME NEW z \in Nat, NEW k \in Nat, k > 0, NEW q, q = (z + k - 1) \div k
    PROVE  q \in Nat /\ (q - 1) * k < z /\ z <= q * k
<1> DEFINE a == z + k - 1
<1>1. a \in Nat  OBVIOUS
<1> HIDE DEF a
<1>2. q = a \div k  BY DEF a
<1>3. q \in Nat /\ q * k <= a /\ a < q * k + k  BY <1>1, <1>2
<1>4. (q - 1) * k = q * k - k  BY <1>3
<1> QED BY <1>3, <1>4 DEF a

\* More groups hold more.
LEMMA ProductGrows ==
    ASSUME NEW a \in Int, NEW b \in Int, a <= b, NEW k \in Nat
    PROVE  a * k <= b * k
OBVIOUS

\* The groups of a container cover it.
LEMMA GroupsOfCover ==
    ASSUME NEW c, IsContainer(c), Shaped(c), NEW n, NEW k \in Nat, k > 0, k = AsI64(n)
    PROVE  GroupsCover(GroupsOf(c, n), c, k)
<1> DEFINE g == GroupsOf(c, n)
           q == (Size(c) + k - 1) \div k
<1>1. Size(c) \in Nat /\ IsSequence(c[2])  BY SequenceIs DEF Size, Shaped
<1>2. q \in Nat /\ (q - 1) * k < Size(c) /\ Size(c) <= q * k  BY <1>1, RoundedUp
<1>3. g = Arr([j \in 1..q |-> Cut(c, (j - 1) * k + 1, j * k)])  BY DEF GroupsOf
<1> HIDE DEF q
<1>4. Size(g) = q /\ \A j \in 1..q : g[2][j] = Cut(c, (j - 1) * k + 1, j * k)
    BY <1>2, <1>3 DEF Size, Arr
<1>5. ASSUME NEW j \in 1..q
      PROVE  /\ Kind(g[2][j]) = Kind(c)
             /\ Size(g[2][j]) = IF j < q THEN k ELSE Size(c) - (j - 1) * k
             /\ \A m \in 1..Size(g[2][j]) : g[2][j][2][m] = c[2][(j - 1) * k + m]
  <2> DEFINE x == (j - 1) * k
             y == j * k
             h == IF j < q THEN k ELSE Size(c) - x
  <2>1. x \in Nat /\ y = x + k  BY <1>2
  <2>2. High(c, y) = x + h /\ h \in Nat
    <3>1. CASE j < q
      <4>1. y <= (q - 1) * k  BY <1>2, <3>1, ProductGrows
      <4>2. y <= Size(c)  BY <1>1, <1>2, <2>1, <4>1
      <4> HIDE DEF x, y
      <4> QED BY <1>1, <2>1, <3>1, <4>2 DEF High
    <3>2. CASE j >= q
      <4>1. j = q  BY <1>2, <3>2
      <4>2. Size(c) <= y /\ x < Size(c)  BY <1>2, <4>1
      <4> HIDE DEF x, y
      <4> QED BY <1>1, <2>1, <3>2, <4>1, <4>2 DEF High
    <3> QED BY <1>2, <3>1, <3>2
  <2>3. Low(x + 1) = x + 1 /\ x + 1 \in Int /\ y \in Int  BY <2>1 DEF Low
  <2> HIDE DEF x, y, h
  <2>4. Cut(c, x + 1, y) =
          <<Kind(c), [m \in 1..High(c, y) - Low(x + 1) + 1 |-> c[2][Low(x + 1) + m - 1]]>>
      BY <1>1, <2>3, CutFunction
  <2>5. /\ High(c, y) - Low(x + 1) + 1 = h
        /\ \A m \in 1..h : Low(x + 1) + m - 1 = x + m
      BY <2>1, <2>2, <2>3
  <2>6. Cut(c, x + 1, y) = <<Kind(c), [m \in 1..h |-> c[2][x + m]]>>  BY <2>4, <2>5
  <2>7. g[2][j] = <<Kind(c), [m \in 1..h |-> c[2][x + m]]>>  BY <1>4, <2>6 DEF x, y
  <2>8. Size(g[2][j]) = h /\ Kind(g[2][j]) = Kind(c)  BY <2>2, <2>7 DEF Size, Kind
  <2>9. \A m \in 1..Size(g[2][j]) : g[2][j][2][m] = c[2][x + m]  BY <2>7, <2>8
  <2> QED BY <2>8, <2>9 DEF x, h
<1> QED BY <1>2, <1>4, <1>5 DEF GroupsCover

(***************************************************************************)
(* The theorem.                                                            *)
(***************************************************************************)
\* Whatever containers and numbers are on the stack, TAKE, its push_rest,
\* SKIP, TAKE-LAST, SLICE and GROUPS-OF cut at the same places: nothing is
\* lost or doubled, and a piece of a record is a record.
THEOREM PiecesReassemble == StackShaped => PiecesAgree
<1> SUFFICES ASSUME StackShaped, NEW i \in 1..Len(stack) - 1, IsContainer(stack[i])
             PROVE  CutsAgree(stack[i], stack[i + 1])
    BY DEF PiecesAgree
<1> DEFINE c == stack[i]
           n == stack[i + 1]
           k == AsI64(n)
           h == IF k > 0 THEN k ELSE 0
<1>1. Shaped(c) /\ Shaped(n)
  <2>1. Len(stack) \in Nat  BY DEF StackShaped, IsSequence
  <2>2. i \in 1..Len(stack) /\ i + 1 \in 1..Len(stack)  BY <2>1
  <2> QED BY <2>2 DEF StackShaped
<1>2. IsContainer(c)  OBVIOUS
<1> HIDE DEF c, n
<1>3. /\ k \in Int /\ h \in Nat /\ IsSequence(c[2]) /\ c = <<c[1], c[2]>>
      /\ TakeOf(c, n) = Cut(c, 1, k)
      /\ RestOf(c, n) = Cut(c, h + 1, Size(c))
      /\ SkipOf(c, n) = Cut(c, h + 1, Size(c))
      /\ k > 0 => TakeLastOf(c, n) = Cut(c, Size(c) - k + 1, Size(c))
      /\ k <= 0 => TakeLastOf(c, n) = <<Kind(c), <<>>>>
    BY <1>1, <1>2, WordsCut
<1>4. Size(c) \in Nat  BY <1>3, SequenceIs DEF Size
<1> HIDE DEF k
<1>5. \A a, b : Kind(Cut(c, a, b)) = Kind(c)  BY DEF Cut, Kind
<1>6. {Kind(p) : p \in {TakeOf(c, n), RestOf(c, n), SkipOf(c, n), TakeLastOf(c, n)}}
         = {Kind(c)}
  <2>1. Kind(TakeLastOf(c, n)) = Kind(c)
    <3>1. k > 0 \/ k <= 0  BY <1>3
    <3> QED BY <1>3, <1>5, <3>1 DEF Kind
  <2> QED BY <1>3, <1>5, <2>1
<1>7. /\ TakeOf(c, n)[2] \o RestOf(c, n)[2] = c[2]
      /\ TakeOf(c, n)[2] \o SkipOf(c, n)[2] = c[2]
  <2>1. Cut(c, 1, k)[2] \o Cut(c, h + 1, Size(c))[2] = c[2]  BY <1>3, CutsMeet
  <2> QED BY <1>3, <2>1
<1>8. ASSUME k > 0
      PROVE  TakeLastOf(c, n) = SkipOf(c, Num(Size(c) - k))
  <2> DEFINE l == Size(c) - k
             r == IF l > 0 THEN l ELSE 0
  <2>1. l \in Int /\ AsI64(Num(l)) = l  BY <1>3, <1>4 DEF AsI64, Num, Kind
  <2>2. CASE l <= 0
    <3>1. SkipOf(c, Num(l)) = c  BY <1>2, <2>1, <2>2 DEF SkipOf, IsContainer
    <3>2. Cut(c, l + 1, Size(c)) = c  BY <1>3, <2>1, <2>2, CutAll
    <3>3. l + 1 = Size(c) - k + 1  OBVIOUS
    <3> QED BY <1>3, <1>8, <3>1, <3>2, <3>3
  <2>3. CASE l > 0
    <3>1. SkipOf(c, Num(l)) = Cut(c, l + 1, Size(c))
        BY <1>2, <2>1, <2>3 DEF SkipOf, IsContainer
    <3>2. l + 1 = Size(c) - k + 1  OBVIOUS
    <3> QED BY <1>3, <1>8, <3>1, <3>2
  <2>4. l <= 0 \/ l > 0  BY <2>1
  <2> QED BY <2>2, <2>3, <2>4
<1>9. k > 0 => GroupsCover(GroupsOf(c, n), c, k)
  <2>1. k > 0 => k \in Nat  BY <1>3
  <2>2. k = AsI64(n)  BY DEF k
  <2> QED BY <1>1, <1>2, <2>1, <2>2, GroupsOfCover
<1>10. k \in 1..Size(c) /\ k <= MaxMaterialized =>
          /\ SliceOf(c, Num(0), Num(k - 1)) = TakeOf(c, n)
          /\ SliceOf(c, Num(-k), Num(-1))   = TakeLastOf(c, n)
          /\ SliceOf(c, Num(k - 1), Num(0))[2] = Reverse(TakeOf(c, n)[2])
  <2>1. k = AsI64(n)  BY DEF k
  <2> QED BY <1>1, <1>2, <2>1, SlicesAgree
<1>11. k \in 1..Size(c) => Size(TakeLastOf(c, n)) = k
  <2> SUFFICES ASSUME k \in 1..Size(c) PROVE Size(TakeLastOf(c, n)) = k  OBVIOUS
  <2> DEFINE l == Size(c) - k + 1
             t == SubSeq(c[2], Low(l), High(c, Size(c)))
  <2>1. TakeLastOf(c, n) = Cut(c, l, Size(c))  BY <1>3
  <2>2. l \in Int /\ l >= 1 /\ l <= Size(c) /\ Size(c) - l + 1 = k  BY <1>3, <1>4
  <2>3. Size(c) \in Int  BY <1>4
  <2> HIDE DEF l
  <2>4. /\ Cut(c, l, Size(c)) = <<Kind(c), t>>
        /\ Len(t) = IF Low(l) <= High(c, Size(c)) THEN High(c, Size(c)) - Low(l) + 1 ELSE 0
      BY <1>3, <2>2, <2>3, CutIs, SMTT(30)
  <2>5. Low(l) = l /\ High(c, Size(c)) = Size(c)  BY <1>4, <2>2 DEF Low, High
  <2>6. Len(t) = k  BY <2>2, <2>3, <2>4, <2>5
  <2> HIDE DEF t
  <2>7. TakeLastOf(c, n)[2] = t  BY <2>1, <2>4
  <2> QED BY <2>6, <2>7 DEF Size
<1>12. CutsAgree(c, n)
    BY <1>6, <1>7, <1>8, <1>9, <1>10, <1>11 DEF CutsAgree, k
<1> QED BY <1>12 DEF c, n

(***************************************************************************)
(* The guards of SLICE and RANGE.                                          *)
(***************************************************************************)
\* A number given to a word is an i64.
LEMMA AsI64InWidth ==
    ASSUME NEW n, Shaped(n), InWidth(n)
    PROVE  AsI64(n) \in MinInt..MaxInt
<1>1. MaxInt \in Nat /\ MinInt = -MaxInt - 1  BY WidthAssumption DEF MinInt
<1>2. CASE Kind(n) = "int"  BY <1>1, <1>2 DEF AsI64, InWidth
<1>3. CASE Kind(n) = "float"
  <2>1. n[2] \in Int  BY <1>3 DEF Shaped
  <2> DEFINE h == IF n[2] >= 0 THEN n[2] \div 2 ELSE -((-n[2]) \div 2)
  <2>2. h \in Int  BY <2>1
  <2> HIDE DEF h
  <2>3. Clamp(h) \in MinInt..MaxInt  BY <1>1, <2>2 DEF Clamp
  <2> QED BY <1>3, <2>3 DEF AsI64, h
<1>4. CASE Kind(n) \notin {"int", "float"}  BY <1>1, <1>4 DEF AsI64
<1> QED BY <1>2, <1>3, <1>4

\* One more than the largest i64, and what lies above it up to the width,
\* comes out as one of the numbers that are not positive.
LEMMA WrapAbove ==
    ASSUME NEW n \in Int, n > MaxInt, n <= 2 * MaxInt + 2
    PROVE  Wrap(n) <= 0
<1> DEFINE a == n - MinInt
           b == MaxInt - MinInt + 1
<1>1. MaxInt \in Nat /\ MinInt = -MaxInt - 1  BY WidthAssumption DEF MinInt
<1>2. /\ a \in Nat /\ b \in Nat /\ b > 0 /\ a >= b /\ a <= 2 * b /\ b + MinInt = MaxInt + 1
      /\ a - b + MinInt <= 0
    BY <1>1
<1>3. Wrap(n) = (a % b) + MinInt  BY DEF Wrap
<1> HIDE DEF a, b
<1>4. a % b = a - b \/ a % b = 0
  <2>1. CASE a < 2 * b
    <3>1. a - b \in Nat /\ a - b < b /\ a = (a - b) + b  BY <1>2, <2>1
    <3>2. (a - b) % b = a - b  BY <1>2, <3>1, SmallRemainder
    <3>3. a % b = (a - b) % b  BY <1>2, <3>1
    <3> QED BY <3>2, <3>3
  <2>2. CASE a = 2 * b  BY <1>2, <2>2
  <2> QED BY <1>2, <2>1, <2>2
<1> QED BY <1>1, <1>2, <1>3, <1>4

\* RANGE refuses what is beyond the limit exactly as long as the two numbers
\* are less than half the number line apart, and builds what it does not refuse.
THEOREM RangeGuard ==
    ASSUME NEW from, Shaped(from), InWidth(from), NEW to, Shaped(to), InWidth(to),
           NEW d, d = AsI64(to) - AsI64(from)
    PROVE  /\ Failed(RangeOf(from, to)) <=> d < MaxInt /\ d + 1 > MaxMaterialized
           /\ ~Failed(RangeOf(from, to)) =>
                 /\ Kind(RangeOf(from, to)) = "array"
                 /\ Size(RangeOf(from, to)) = IF d < 0 THEN 0 ELSE d + 1
<1> DEFINE a == AsI64(from)
           b == AsI64(to)
           refused == b >= a /\ Wrap(b - a + 1) > MaxMaterialized
           len == IF b < a THEN 0 ELSE b - a + 1
           list == [k \in 1..len |-> Num(a + k - 1)]
<1>1. MaxInt \in Nat /\ MinInt = -MaxInt - 1 /\ MaxMaterialized \in 1..MaxInt
    BY WidthAssumption, LimitAssumption DEF MinInt
<1>2. a \in MinInt..MaxInt /\ b \in MinInt..MaxInt  BY AsI64InWidth
<1>3. RangeOf(from, to) = IF refused THEN Fail("InvalidOperation") ELSE Arr(list)
    BY DEF RangeOf
<1> HIDE DEF a, b
<1>4. d = b - a /\ d \in Int  BY <1>1, <1>2 DEF a, b
<1>5. len \in Nat /\ len = IF d < 0 THEN 0 ELSE d + 1  BY <1>1, <1>2, <1>4
<1>6. refused <=> d < MaxInt /\ d + 1 > MaxMaterialized
  <2>1. CASE d < 0  BY <1>1, <1>2, <1>4, <2>1
  <2>2. CASE d >= 0 /\ d < MaxInt
    <3>1. d + 1 \in MinInt..MaxInt  BY <1>1, <1>4, <2>2
    <3>2. Wrap(d + 1) = d + 1  BY <3>1, WrapInside
    <3>3. b >= a  BY <1>1, <1>2, <1>4, <2>2
    <3> QED BY <1>4, <2>2, <3>2, <3>3
  <2>3. CASE d >= MaxInt
    <3>1. d + 1 \in Int /\ d + 1 > MaxInt /\ d + 1 <= 2 * MaxInt + 2
        BY <1>1, <1>2, <1>4, <2>3
    <3>2. Wrap(d + 1) <= 0  BY <3>1, WrapAbove
    <3>3. Wrap(d + 1) \in Int  BY <1>1, <3>1 DEF Wrap
    <3> QED BY <1>1, <1>4, <2>3, <3>2, <3>3
  <2> QED BY <1>1, <1>4, <2>1, <2>2, <2>3
<1> HIDE DEF refused, len
<1>7. Failed(RangeOf(from, to)) <=> refused  BY <1>3 DEF Failed, Fail, Arr
<1>8. ~refused => /\ Kind(RangeOf(from, to)) = "array"
                  /\ Size(RangeOf(from, to)) = len
  <2>1. Len(list) = len  BY <1>5
  <2> HIDE DEF list
  <2> QED BY <1>3, <2>1 DEF Kind, Size, Arr
<1> QED BY <1>5, <1>6, <1>7, <1>8

\* How many of the positions from i to j, up or down, are inside a container of n
\* entries: none when the first is not, for the walk ends there.
Inside(i, j, n) ==
    IF i \notin 0..n-1 THEN 0
    ELSE IF j < 0 THEN i + 1
    ELSE IF j >= n THEN n - i
    ELSE Apart(i, j) + 1

\* The walk from a position inside to any other: zero stands for what is outside.
LEMMA WalkFrom ==
    ASSUME NEW n \in Nat, NEW a, NEW b, NEW i \in 0..n-1, i = Normalize(a, n),
           NEW j \in Int, j = Normalize(b, n)
    PROVE  slice_indexes(a, b, n) =
              IF i <= j
              THEN [p \in 1..j - i + 1 |-> IF i + p - 1 \in 0..n-1 THEN i + p ELSE 0]
              ELSE [p \in 1..i - j + 1 |-> IF i - p + 1 \in 0..n-1 THEN i - p + 2 ELSE 0]
<1> DEFINE step  == IF i > j THEN -1 ELSE 1
           at(p) == i + (p - 1) * step
           in(p) == IF at(p) \in 0..n-1 THEN at(p) + 1 ELSE 0
           up(p) == IF i + p - 1 \in 0..n-1 THEN i + p ELSE 0
           dn(p) == IF i - p + 1 \in 0..n-1 THEN i - p + 2 ELSE 0
<1>1. slice_indexes(a, b, n) =
          IF i \notin 0..n-1 THEN <<>> ELSE [p \in 1..(j - i) * step + 1 |-> in(p)]
    BY Zenon DEF slice_indexes
<1>2. slice_indexes(a, b, n) = [p \in 1..(j - i) * step + 1 |-> in(p)]
    BY <1>1
<1>3. i \in Int  OBVIOUS
<1>4. CASE i <= j
  <2>1. step = 1  BY <1>3, <1>4
  <2>2. (j - i) * step + 1 = j - i + 1  BY <1>3, <2>1
  <2>3. \A p \in 1..j - i + 1 : at(p) = i + p - 1  BY <1>3, <2>1
  <2>4. \A p \in 1..j - i + 1 : in(p) = up(p)  BY <1>3, <2>3
  <2> HIDE DEF step, at, in, up
  <2>5. slice_indexes(a, b, n) = [p \in 1..j - i + 1 |-> up(p)]  BY <1>2, <2>2, <2>4
  <2> QED BY <1>4, <2>5 DEF up
<1>5. CASE ~(i <= j)
  <2>1. step = -1  BY <1>3, <1>5
  <2>2. (j - i) * step + 1 = i - j + 1  BY <1>3, <2>1
  <2>3. \A p \in 1..i - j + 1 : at(p) = i - p + 1  BY <1>3, <2>1
  <2>4. \A p \in 1..i - j + 1 : in(p) = dn(p)  BY <1>3, <2>3
  <2> HIDE DEF step, at, in, dn
  <2>5. slice_indexes(a, b, n) = [p \in 1..i - j + 1 |-> dn(p)]  BY <1>2, <2>2, <2>4
  <2> QED BY <1>5, <2>5 DEF dn
<1> QED BY <1>4, <1>5

\* The walk is as long as its ends are apart, and visits what is inside first.
LEMMA WalkCounts ==
    ASSUME NEW n \in Nat, NEW a, NEW b, NEW i \in 0..n-1, i = Normalize(a, n),
           NEW j \in Int, j = Normalize(b, n),
           NEW idx, idx = slice_indexes(a, b, n)
    PROVE  /\ Len(idx) = Apart(i, j) + 1
           /\ {p \in 1..Len(idx) : idx[p] # 0} = 1..Inside(i, j, n)
<1>1. i \in Int  OBVIOUS
<1>2. CASE i <= j
  <2> DEFINE m == j - i + 1
             up(p) == IF i + p - 1 \in 0..n-1 THEN i + p ELSE 0
  <2>1. idx = [p \in 1..m |-> up(p)]  BY <1>2, WalkFrom
  <2>2. m \in Nat /\ m = Apart(i, j) + 1  BY <1>1, <1>2 DEF Apart
  <2>3. Inside(i, j, n) = IF j >= n THEN n - i ELSE m  BY <1>1, <1>2, <2>2 DEF Inside
  <2>4. \A p \in 1..m : up(p) # 0 <=> p <= Inside(i, j, n)  BY <1>1, <1>2, <2>3
  <2>5. Inside(i, j, n) \in Nat /\ Inside(i, j, n) <= m  BY <1>1, <1>2, <2>3
  <2> HIDE DEF m, up
  <2>6. Len(idx) = m /\ \A p \in 1..m : idx[p] = up(p)  BY <2>1, <2>2
  <2> QED BY <2>2, <2>4, <2>5, <2>6
<1>3. CASE ~(i <= j)
  <2> DEFINE m == i - j + 1
             dn(p) == IF i - p + 1 \in 0..n-1 THEN i - p + 2 ELSE 0
  <2>1. idx = [p \in 1..m |-> dn(p)]  BY <1>3, WalkFrom
  <2>2. m \in Nat /\ m = Apart(i, j) + 1  BY <1>1, <1>3 DEF Apart
  <2>3. Inside(i, j, n) = IF j < 0 THEN i + 1 ELSE m  BY <1>1, <1>3, <2>2 DEF Inside
  <2>4. \A p \in 1..m : dn(p) # 0 <=> p <= Inside(i, j, n)  BY <1>1, <1>3, <2>3
  <2>5. Inside(i, j, n) \in Nat /\ Inside(i, j, n) <= m  BY <1>1, <1>3, <2>3
  <2> HIDE DEF m, dn
  <2>6. Len(idx) = m /\ \A p \in 1..m : idx[p] = dn(p)  BY <2>1, <2>2
  <2> QED BY <2>2, <2>4, <2>5, <2>6
<1> QED BY <1>2, <1>3

\* SLICE refuses a span beyond the limit as long as its ends are less than the
\* number line apart. What it builds from a first position inside has an entry for
\* each position of the span in an array, those outside as null, and for each
\* position that is inside in a record; from one outside it is empty.
THEOREM SliceGuard ==
    ASSUME NEW c, IsContainer(c), Shaped(c),
           NEW from, Shaped(from), NEW to, Shaped(to),
           NEW i, i = Normalize(AsI64(from), Size(c)),
           NEW j, j = Normalize(AsI64(to), Size(c)),
           Apart(i, j) < MaxInt
    PROVE  /\ Failed(SliceOf(c, from, to)) <=> Apart(i, j) + 1 > MaxMaterialized
           /\ ~Failed(SliceOf(c, from, to)) =>
                 /\ Kind(SliceOf(c, from, to)) = Kind(c)
                 /\ Size(SliceOf(c, from, to)) =
                       IF Kind(c) = "array" /\ i \in 0..Size(c)-1 THEN Apart(i, j) + 1
                       ELSE Inside(i, j, Size(c))
<1> DEFINE a     == AsI64(from)
           b     == AsI64(to)
           n     == Size(c)
           d     == Apart(i, j)
           idx   == slice_indexes(a, b, n)
           there == Cardinality({p \in 1..Len(idx) : idx[p] # 0})
           list  == [p \in 1..Len(idx) |-> IF idx[p] = 0 THEN Nil ELSE c[2][idx[p]]]
           rec   == [p \in 1..there |-> c[2][idx[p]]]
           walk  == IF i \in 0..n-1 THEN d + 1 ELSE 0
<1>1. MaxInt \in Nat /\ MaxMaterialized \in Nat  BY WidthAssumption, LimitAssumption
<1>2. n \in Nat  BY SequenceIs DEF Shaped, Size
<1>3. a \in Int /\ b \in Int  BY AsI64Int
<1>4. i \in Int /\ j \in Int  BY <1>2, <1>3 DEF Normalize
<1>5. d \in Nat /\ d = (IF i <= j THEN j - i ELSE i - j)  BY <1>4 DEF Apart
<1>6. Span(i, j) = d + 1
  <2>1. d < MaxInt  OBVIOUS
  <2> HIDE DEF d
  <2> QED BY <1>4, <1>5, <2>1, SpanInside
<1> HIDE DEF d, n
<1>7. Len(idx) = walk /\ {p \in 1..Len(idx) : idx[p] # 0} = 1..Inside(i, j, n)
  <2>1. CASE i \in 0..n-1
    <3>1. i = Normalize(a, n) /\ j = Normalize(b, n)  BY DEF n
    <3> HIDE DEF a, b
    <3>2. /\ Len(idx) = Apart(i, j) + 1
          /\ {p \in 1..Len(idx) : idx[p] # 0} = 1..Inside(i, j, n)
        BY <1>2, <1>4, <2>1, <3>1, WalkCounts
    <3> QED BY <2>1, <3>2 DEF d
  <2>2. CASE i \notin 0..n-1
    <3>1. idx = <<>>
      <4>1. Normalize(a, n) \notin 0..n-1  BY <2>2 DEF n
      <4> QED BY <4>1, Zenon DEF slice_indexes
    <3>2. Inside(i, j, n) = 0  BY <2>2, Zenon DEF Inside
    <3> HIDE DEF idx
    <3> QED BY <2>2, <3>1, <3>2
  <2> QED BY <2>1, <2>2
<1>8. Inside(i, j, n) \in Nat  BY <1>2, <1>4 DEF Inside, Apart
<1>9. there = Inside(i, j, n)
  <2>1. Cardinality(1..Inside(i, j, n)) = Inside(i, j, n)
    <3> DEFINE m == Inside(i, j, n)
    <3>1. 1 \in Int /\ m \in Int /\ (IF 1 > m THEN 0 ELSE m - 1 + 1) = m  BY <1>8
    <3> HIDE DEF m
    <3>2. Cardinality(1..m) = IF 1 > m THEN 0 ELSE m - 1 + 1  BY <3>1, FS_Interval, Zenon
    <3> QED BY <3>1, <3>2 DEF m
  <2> HIDE DEF idx
  <2> QED BY <1>7, <2>1
<1>10. SliceOf(c, from, to) =
        IF d + 1 > MaxMaterialized THEN Fail("InvalidOperation")
        ELSE IF Kind(c) = "array" THEN Arr(list) ELSE Rec(rec)
  <2> HIDE DEF idx, there
  <2>1. CASE d + 1 > MaxMaterialized
      BY <1>1, <1>5, <1>6, <2>1 DEF SliceOf, IsContainer
  <2>2. CASE d + 1 <= MaxMaterialized /\ Kind(c) = "array"
      BY <1>1, <1>5, <1>6, <2>2 DEF SliceOf, IsContainer, idx, n
  <2>3. CASE d + 1 <= MaxMaterialized /\ Kind(c) # "array"
    <3>1. Kind(c) = "record"  BY <2>3 DEF IsContainer
    <3> QED BY <1>1, <1>5, <1>6, <2>3, <3>1 DEF SliceOf, IsContainer, idx, there, n
  <2> QED BY <1>1, <1>5, <2>1, <2>2, <2>3
<1>11. walk \in Nat  BY <1>5
<1> HIDE DEF idx, there, walk
<1>12. Len(list) = walk /\ Len(rec) = Inside(i, j, n)  BY <1>7, <1>8, <1>9, <1>11
<1> HIDE DEF list, rec
<1>13. Failed(SliceOf(c, from, to)) <=> d + 1 > MaxMaterialized
    BY <1>10 DEF Failed, Fail, Arr, Rec
<1>14. ASSUME ~(d + 1 > MaxMaterialized)
       PROVE  /\ Kind(SliceOf(c, from, to)) = Kind(c)
              /\ Size(SliceOf(c, from, to)) =
                    IF Kind(c) = "array" /\ i \in 0..n-1 THEN d + 1 ELSE Inside(i, j, n)
  <2>1. CASE Kind(c) = "array"
    <3>1. SliceOf(c, from, to) = <<"array", list>>  BY <1>10, <1>14, <2>1 DEF Arr
    <3>2. Kind(SliceOf(c, from, to)) = "array" /\ Size(SliceOf(c, from, to)) = walk
        BY <1>12, <3>1 DEF Kind, Size
    <3>3. i \notin 0..n-1 => Inside(i, j, n) = 0  BY Zenon DEF Inside
    <3> QED BY <2>1, <3>2, <3>3 DEF walk
  <2>2. CASE Kind(c) = "record"
    <3>1. SliceOf(c, from, to) = <<"record", rec>>  BY <1>10, <1>14, <2>2 DEF Rec
    <3> QED BY <1>12, <2>2, <3>1 DEF Kind, Size
  <2> QED BY <2>1, <2>2 DEF IsContainer
<1> QED BY <1>13, <1>14 DEF d, n

(***************************************************************************)
(* Values stay sound.                                                      *)
(***************************************************************************)
\* A value is sound when it has the form of a value at every depth: it belongs
\* to a set of such values that holds the elements of its members.
SoundSet(V) ==
    \A v \in V : Shaped(v) /\ \A i \in 1..Len(Elements(v)) : Elements(v)[i] \in V

Sound(v) == \E V : v \in V /\ SoundSet(V)

SoundStack(s) == IsSequence(s) /\ \A i \in 1..Len(s) : Sound(s[i])

\* The elements of a sound value are sound.
LEMMA SoundParts ==
    ASSUME NEW v, Sound(v)
    PROVE  Shaped(v) /\ \A i \in 1..Len(Elements(v)) : Sound(Elements(v)[i])
<1> PICK V : v \in V /\ SoundSet(V)  BY DEF Sound
<1>1. Shaped(v) /\ \A i \in 1..Len(Elements(v)) : Elements(v)[i] \in V  BY DEF SoundSet
<1> QED BY <1>1 DEF Sound

\* What has the form of a value and sound elements is sound.
LEMMA SoundBuilt ==
    ASSUME NEW v, Shaped(v), \A i \in 1..Len(Elements(v)) : Sound(Elements(v)[i])
    PROVE  Sound(v)
<1> DEFINE I == 1..Len(Elements(v))
           Of(x) == CHOOSE V : x \in V /\ SoundSet(V)
           W == {v} \cup UNION {Of(Elements(v)[i]) : i \in I}
<1>1. \A i \in I : Elements(v)[i] \in Of(Elements(v)[i]) /\ SoundSet(Of(Elements(v)[i]))
    BY DEF Sound
<1> HIDE DEF Of
<1>2. ASSUME NEW w \in W
      PROVE  Shaped(w) /\ \A i \in 1..Len(Elements(w)) : Elements(w)[i] \in W
  <2>1. CASE w = v  BY <2>1, <1>1
  <2>2. CASE w # v
    <3>1. PICK i \in I : w \in Of(Elements(v)[i])  BY <2>2
    <3>2. Shaped(w) /\ \A j \in 1..Len(Elements(w)) : Elements(w)[j] \in Of(Elements(v)[i])
        BY <1>1, <3>1 DEF SoundSet
    <3> QED BY <3>2
  <2> QED BY <2>1, <2>2
<1>3. SoundSet(W)
  <2> HIDE DEF W
  <2> QED BY <1>2 DEF SoundSet
<1>4. v \in W  OBVIOUS
<1> HIDE DEF W
<1> QED BY <1>3, <1>4 DEF Sound

\* A value without elements.
LEMMA SoundLeaf ==
    ASSUME NEW v, Shaped(v), ~IsContainer(v)
    PROVE  Sound(v)
<1>1. Elements(v) = <<>>  BY DEF Elements, IsContainer
<1>2. Len(Elements(v)) = 0  BY <1>1
<1> QED BY <1>2, SoundBuilt

\* Null, a number, and the empty containers.
LEMMA SoundPlain ==
    /\ Sound(Nil)
    /\ \A n \in Int : Sound(Num(n))
    /\ Sound(EmptyArr) /\ Sound(EmptyRec)
<1>1. Sound(Nil)
  <2>1. Shaped(Nil) /\ ~IsContainer(Nil)  BY DEF Nil, Shaped, Kind, IsContainer
  <2> QED BY <2>1, SoundLeaf
<1>2. ASSUME NEW n \in Int PROVE Sound(Num(n))
  <2>1. Shaped(Num(n)) /\ ~IsContainer(Num(n))  BY DEF Num, Shaped, Kind, IsContainer
  <2> QED BY <2>1, SoundLeaf
<1>3. IsSequence(<<>>)  BY DEF IsSequence
<1>4. Sound(EmptyArr)
  <2>1. Shaped(EmptyArr)  BY <1>3 DEF EmptyArr, Arr, Shaped, Kind
  <2>2. Elements(EmptyArr) = <<>>  BY DEF EmptyArr, Arr, Elements, Kind
  <2>3. Len(Elements(EmptyArr)) = 0  BY <2>2
  <2> QED BY <2>1, <2>3, SoundBuilt
<1>5. Sound(EmptyRec)
  <2>1. Shaped(EmptyRec)  BY <1>3 DEF EmptyRec, Rec, Shaped, Kind
  <2>2. Elements(EmptyRec) = [i \in 1..Len(<<>>) |-> <<>>[i][2]]
      BY DEF EmptyRec, Rec, Elements, Kind
  <2>3. Len(Elements(EmptyRec)) = 0  BY <2>2
  <2> QED BY <2>1, <2>3, SoundBuilt
<1> QED BY <1>1, <1>2, <1>4, <1>5

\* An array of sound values.
LEMMA SoundArray ==
    ASSUME NEW m \in Nat, NEW f, f = [k \in 1..m |-> f[k]], \A k \in 1..m : Sound(f[k])
    PROVE  Sound(Arr(f))
<1>1. Len(f) = m  OBVIOUS
<1>2. IsSequence(f)  BY <1>1 DEF IsSequence
<1>3. Shaped(Arr(f))  BY <1>2 DEF Arr, Shaped, Kind
<1>4. Elements(Arr(f)) = f  BY DEF Arr, Elements, Kind
<1> QED BY <1>1, <1>3, <1>4, SoundBuilt

\* The elements of a container, by its payload.
LEMMA SoundEntries ==
    ASSUME NEW c, IsContainer(c), Sound(c)
    PROVE  /\ Shaped(c) /\ IsSequence(c[2]) /\ Size(c) \in Nat
           /\ Len(Elements(c)) = Size(c)
           /\ \A i \in 1..Size(c) :
                 /\ Elements(c)[i] = IF Kind(c) = "array" THEN c[2][i] ELSE c[2][i][2]
                 /\ Sound(Elements(c)[i])
<1>1. Shaped(c) /\ IsSequence(c[2])  BY SoundParts DEF Shaped
<1>2. Size(c) \in Nat  BY <1>1 DEF IsSequence, Size
<1>3. Elements(c) = IF Kind(c) = "array" THEN c[2] ELSE [i \in 1..Size(c) |-> c[2][i][2]]
    BY DEF IsContainer, Elements, Size
<1>4. Len(Elements(c)) = Size(c)
  <2>1. CASE Kind(c) = "array"  BY <1>3, <2>1 DEF Size
  <2>2. CASE Kind(c) # "array"  BY <1>2, <1>3, <2>2
  <2> QED BY <2>1, <2>2
<1>5. \A i \in 1..Size(c) : Sound(Elements(c)[i])  BY <1>4, SoundParts
<1> QED BY <1>1, <1>2, <1>3, <1>4, <1>5

\* Entries picked from a sound container make a sound one of its kind.
LEMMA SoundPieces ==
    ASSUME NEW c, IsContainer(c), Sound(c),
           NEW m \in Nat, NEW pos \in [1..m -> 1..Size(c)]
    PROVE  Sound(<<Kind(c), [k \in 1..m |-> c[2][pos[k]]]>>)
<1> DEFINE f == [k \in 1..m |-> c[2][pos[k]]]
           r == <<Kind(c), f>>
<1>1. Len(f) = m /\ IsSequence(f)
  <2>1. Len(f) = m /\ f = [k \in 1..m |-> f[k]]  OBVIOUS
  <2> HIDE DEF f
  <2> QED BY <2>1 DEF IsSequence
<1>2. \A i \in 1..Size(c) :
         Sound(IF Kind(c) = "array" THEN c[2][i] ELSE c[2][i][2])
  <2> SUFFICES ASSUME NEW i \in 1..Size(c)
               PROVE  Sound(IF Kind(c) = "array" THEN c[2][i] ELSE c[2][i][2])
      OBVIOUS
  <2>1. /\ Elements(c)[i] = IF Kind(c) = "array" THEN c[2][i] ELSE c[2][i][2]
        /\ Sound(Elements(c)[i])
      BY SoundEntries
  <2> QED BY <2>1, Zenon
<1>3. Kind(r) = Kind(c) /\ r[2] = f /\ r = <<r[1], r[2]>>  BY DEF Kind
<1>4. Shaped(r)
  <2> HIDE DEF f, r
  <2> QED BY <1>1, <1>3 DEF Shaped, IsContainer
<1>5. CASE Kind(c) = "array"
  <2>1. Elements(r) = f  BY <1>3, <1>5 DEF Elements
  <2>2. \A k \in 1..m : Sound(f[k])  BY <1>2, <1>5
  <2> HIDE DEF f, r
  <2>3. Sound(r)  BY <1>1, <1>4, <2>1, <2>2, SoundBuilt
  <2> QED BY <2>3 DEF r, f
<1>6. CASE Kind(c) = "record"
  <2>1. Elements(r) = [k \in 1..Len(f) |-> f[k][2]]  BY <1>3, <1>6 DEF Elements
  <2>2. \A k \in 1..m : Sound(f[k][2])  BY <1>2, <1>6
  <2> HIDE DEF f, r
  <2>3. Len(Elements(r)) = m /\ \A k \in 1..m : Elements(r)[k] = f[k][2]  BY <1>1, <2>1
  <2>4. \A k \in 1..Len(Elements(r)) : Sound(Elements(r)[k])  BY <2>2, <2>3
  <2>5. Sound(r)  BY <1>4, <2>4, SoundBuilt
  <2> QED BY <2>5 DEF r, f
<1> QED BY <1>5, <1>6 DEF IsContainer

\* A cut of a sound container is one.
LEMMA SoundCut ==
    ASSUME NEW c, IsContainer(c), Sound(c), NEW i \in Int, NEW j \in Int
    PROVE  Sound(Cut(c, i, j))
<1> DEFINE a == Low(i)
           m == IF High(c, j) - a + 1 >= 0 THEN High(c, j) - a + 1 ELSE 0
           pos == [p \in 1..m |-> a + p - 1]
<1>1. IsSequence(c[2]) /\ Size(c) \in Nat  BY SoundEntries
<1>2. Cut(c, i, j) = <<Kind(c), [p \in 1..High(c, j) - a + 1 |-> c[2][a + p - 1]]>>
    BY <1>1, CutFunction
<1>3. a \in Int /\ a >= 1 /\ High(c, j) \in Int /\ High(c, j) <= Size(c)
    BY <1>1 DEF Low, High
<1> HIDE DEF a
<1>4. m \in Nat /\ 1..m = 1..High(c, j) - a + 1  BY <1>3
<1>5. pos \in [1..m -> 1..Size(c)] /\ \A p \in 1..m : pos[p] = a + p - 1  BY <1>1, <1>3
<1> HIDE DEF m, pos
<1>6. Sound(<<Kind(c), [p \in 1..m |-> c[2][pos[p]]]>>)  BY <1>4, <1>5, SoundPieces
<1>7. [p \in 1..m |-> c[2][pos[p]]] = [p \in 1..High(c, j) - a + 1 |-> c[2][a + p - 1]]
    BY <1>4, <1>5
<1> QED BY <1>2, <1>6, <1>7

\* What the words of access find.
LEMMA SoundAccess ==
    ASSUME NEW c, Sound(c)
    PROVE  /\ \A n : Shaped(n) => Sound(NthOf(c, n))
           /\ Sound(FirstOf(c)) /\ Sound(LastOf(c)) /\ Sound(LengthOf(c))
<1>1. ASSUME NEW n, Shaped(n) PROVE Sound(NthOf(c, n))
  <2>1. CASE Kind(n) = "int" /\ n[2] + 1 \in DOMAIN Elements(c)
    <3>1. DOMAIN Elements(c) = 1..Len(Elements(c))
      <4>1. CASE IsContainer(c)
        <5>1. Len(Elements(c)) \in Nat /\ IsSequence(c[2]) /\ Len(Elements(c)) = Size(c)
            BY <4>1, SoundEntries
        <5>2. CASE Kind(c) = "array"
          <6>1. Elements(c) = c[2]  BY <5>2 DEF Elements
          <6>2. c[2] = [i \in 1..Len(c[2]) |-> c[2][i]]  BY <5>1 DEF IsSequence
          <6> QED BY <6>1, <6>2
        <5>3. CASE Kind(c) = "record"
          <6>1. Elements(c) = [i \in 1..Len(c[2]) |-> c[2][i][2]]  BY <5>3 DEF Elements
          <6> QED BY <5>1, <6>1 DEF Size
        <5> QED BY <4>1, <5>2, <5>3 DEF IsContainer
      <4>2. CASE ~IsContainer(c)
        <5>1. Elements(c) = <<>>  BY <4>2 DEF Elements, IsContainer
        <5> QED BY <5>1
      <4> QED BY <4>1, <4>2
    <3>2. Sound(Elements(c)[n[2] + 1])  BY <2>1, <3>1, SoundParts
    <3> QED BY <2>1, <3>2 DEF NthOf
  <2>2. CASE ~(Kind(n) = "int" /\ n[2] + 1 \in DOMAIN Elements(c))
    <3>1. NthOf(c, n) = Nil  BY <2>2 DEF NthOf
    <3> QED BY <3>1, SoundPlain
  <2> QED BY <2>1, <2>2
<1>2. Len(Elements(c)) \in Nat
  <2>1. CASE IsContainer(c)  BY <2>1, SoundEntries
  <2>2. CASE ~IsContainer(c)
    <3>1. Elements(c) = <<>>  BY <2>2 DEF Elements, IsContainer
    <3> QED BY <3>1
  <2> QED BY <2>1, <2>2
<1>3. Shaped(Num(0)) /\ Shaped(Num(Len(Elements(c)) - 1))
    BY <1>2 DEF Shaped, Num, Kind, IsContainer
<1>4. Sound(LengthOf(c))
  <2>1. (IF IsContainer(c) \/ Kind(c) = "string" THEN Len(c[2]) ELSE 0) \in Int
    <3>1. CASE IsContainer(c)  BY <3>1, SoundEntries DEF Size
    <3>2. CASE Kind(c) = "string"
      <4>1. Shaped(c)  BY SoundParts
      <4> QED BY <3>2, <4>1 DEF Shaped
    <3> QED BY <3>1, <3>2
  <2> QED BY <2>1, SoundPlain DEF LengthOf
<1> QED BY <1>1, <1>3, <1>4 DEF FirstOf, LastOf

\* What TAKE, its push_rest, SKIP and TAKE-LAST make.
LEMMA SoundTakes ==
    ASSUME NEW c, Sound(c), NEW n, Shaped(n)
    PROVE  Sound(TakeOf(c, n)) /\ Sound(RestOf(c, n)) /\ Sound(SkipOf(c, n))
           /\ Sound(TakeLastOf(c, n))
<1>1. AsI64(n) \in Int  BY AsI64Int
<1>2. CASE IsContainer(c)
  <2> DEFINE k == AsI64(n)
             h == IF k > 0 THEN k ELSE 0
  <2>1. Size(c) \in Int /\ Shaped(c)  BY <1>2, SoundEntries
  <2>2. /\ TakeOf(c, n) = Cut(c, 1, k) /\ RestOf(c, n) = Cut(c, h + 1, Size(c))
        /\ SkipOf(c, n) = Cut(c, h + 1, Size(c))
        /\ k > 0 => TakeLastOf(c, n) = Cut(c, Size(c) - k + 1, Size(c))
      BY <1>2, <2>1, WordsCut
  <2>3. k \in Int /\ h + 1 \in Int /\ Size(c) - k + 1 \in Int  BY <1>1, <2>1
  <2> HIDE DEF k, h
  <2>4. /\ Sound(Cut(c, 1, k)) /\ Sound(Cut(c, h + 1, Size(c)))
        /\ Sound(Cut(c, Size(c) - k + 1, Size(c)))
      BY <1>2, <2>1, <2>3, SoundCut
  <2>5. ~(k > 0) => Sound(TakeLastOf(c, n))
    <3>1. k <= 0 => TakeLastOf(c, n) = EmptyRec \/ TakeLastOf(c, n) = EmptyArr
        BY <1>1 DEF TakeLastOf, k
    <3> QED BY <3>1, <2>3, SoundPlain
  <2> QED BY <2>2, <2>4, <2>5
<1>3. CASE ~IsContainer(c)
  <2>1. TakeOf(c, n) \in {EmptyArr, c} /\ RestOf(c, n) = EmptyArr
      BY <1>3 DEF TakeOf, RestOf, IsContainer
  <2>2. SkipOf(c, n) \in {EmptyArr, c} /\ TakeLastOf(c, n) \in {EmptyArr, EmptyRec, c}
    <3>1. AsI64(n) <= 0 \/ AsI64(n) > 0  BY <1>1
    <3> QED BY <1>3, <3>1 DEF SkipOf, TakeLastOf
  <2> QED BY <2>1, <2>2, SoundPlain
<1> QED BY <1>2, <1>3

\* What GROUPS-OF makes.
LEMMA SoundGroups ==
    ASSUME NEW c, Sound(c), NEW n, Shaped(n), AsI64(n) > 0
    PROVE  Sound(GroupsOf(c, n))
<1>1. AsI64(n) \in Int  BY AsI64Int
<1>2. CASE IsContainer(c)
  <2> DEFINE k == AsI64(n)
             q == (Size(c) + k - 1) \div k
             f == [g \in 1..q |-> Cut(c, (g - 1) * k + 1, g * k)]
  <2>1. Size(c) \in Nat  BY <1>2, SoundEntries
  <2>2. q \in Nat
    <3>1. k \in Nat /\ k > 0  BY <1>1
    <3> QED BY <2>1, <3>1, RoundedUp
  <2>3. GroupsOf(c, n) = Arr(f)  BY <1>2 DEF GroupsOf
  <2>4. k \in Int  BY <1>1
  <2> HIDE DEF q, k
  <2>5. ASSUME NEW g \in 1..q PROVE Sound(f[g])
    <3>1. (g - 1) * k + 1 \in Int /\ g * k \in Int  BY <2>2, <2>4
    <3>2. Sound(Cut(c, (g - 1) * k + 1, g * k))  BY <1>2, <3>1, SoundCut
    <3> QED BY <3>2
  <2>6. f = [g \in 1..q |-> f[g]]  OBVIOUS
  <2> HIDE DEF f
  <2> QED BY <2>2, <2>3, <2>5, <2>6, SoundArray
<1>3. CASE ~IsContainer(c)
  <2>1. GroupsOf(c, n) = EmptyArr  BY <1>3 DEF GroupsOf
  <2> QED BY <2>1, SoundPlain
<1> QED BY <1>2, <1>3

\* What RANGE makes, when it does not fail.
LEMMA SoundRange ==
    ASSUME NEW a, Shaped(a), NEW b, Shaped(b), ~Failed(RangeOf(a, b))
    PROVE  Sound(RangeOf(a, b))
<1> DEFINE start == AsI64(a)
           end   == AsI64(b)
           m == IF end < start THEN 0 ELSE end - start + 1
           f == [k \in 1..m |-> Num(start + k - 1)]
<1>1. start \in Int /\ end \in Int  BY AsI64Int
<1>2. RangeOf(a, b) = Arr(f)  BY DEF RangeOf, Failed, Fail
<1> HIDE DEF start, end
<1>3. m \in Nat  BY <1>1
<1> HIDE DEF m
<1>4. \A k \in 1..m : Sound(f[k])
  <2> SUFFICES ASSUME NEW k \in 1..m PROVE Sound(Num(start + k - 1))  OBVIOUS
  <2>1. start + k - 1 \in Int  BY <1>1, <1>3
  <2> QED BY <2>1, SoundPlain
<1>5. f = [k \in 1..m |-> f[k]]  OBVIOUS
<1> HIDE DEF f
<1> QED BY <1>2, <1>3, <1>4, <1>5, SoundArray

\* The positions of a slice, in either direction: those that are inside come
\* first, as the walk begins inside.
LEMMA WalkBeginsInside ==
    ASSUME NEW n \in Nat, NEW a \in Int, NEW b \in Int
    PROVE  \E m \in Nat :
              /\ Len(slice_indexes(a, b, n)) \in Nat /\ m <= Len(slice_indexes(a, b, n))
              /\ \A p \in 1..Len(slice_indexes(a, b, n)) :
                    /\ slice_indexes(a, b, n)[p] \in 0..n
                    /\ slice_indexes(a, b, n)[p] # 0 <=> p <= m
<1> DEFINE idx   == slice_indexes(a, b, n)
           i     == Normalize(a, n)
           j     == Normalize(b, n)
           step  == IF i > j THEN -1 ELSE 1
           at(p) == i + (p - 1) * step
           in(p) == IF at(p) \in 0..n-1 THEN at(p) + 1 ELSE 0
<1> SUFFICES \E m \in Nat : /\ Len(idx) \in Nat /\ m <= Len(idx)
                            /\ \A p \in 1..Len(idx) :
                                  /\ idx[p] \in 0..n
                                  /\ idx[p] # 0 <=> p <= m
    OBVIOUS
<1>1. idx = IF i \notin 0..n-1 THEN <<>> ELSE [p \in 1..(j - i) * step + 1 |-> in(p)]
    BY Zenon DEF slice_indexes
<1>2. i \in Int /\ j \in Int  BY DEF Normalize
<1> HIDE DEF idx, i, j
<1>3. CASE i \notin 0..n-1
  <2>1. idx = <<>>  BY <1>1, <1>3
  <2>2. Len(idx) = 0  BY <2>1
  <2> QED BY <2>2
<1>4. CASE i \in 0..n-1 /\ i <= j
  <2>1. step = 1  BY <1>2, <1>4
  <2> DEFINE d == j - i + 1
             m == IF d <= n - i THEN d ELSE n - i
  <2>2. d \in Nat /\ m \in Nat /\ m <= d  BY <1>2, <1>4
  <2>3. \A p \in Int : at(p) = i + p - 1
    <3> HIDE DEF step
    <3> QED BY <1>2, <2>1
  <2>4. (j - i) * step + 1 = d
    <3> HIDE DEF step
    <3> QED BY <1>2, <2>1
  <2>5. \A p \in 1..d : in(p) \in 0..n /\ (in(p) # 0 <=> p <= m)
    <3> SUFFICES ASSUME NEW p \in 1..d PROVE in(p) \in 0..n /\ (in(p) # 0 <=> p <= m)
        OBVIOUS
    <3>1. p \in Int /\ at(p) = i + p - 1  BY <2>2, <2>3
    <3> HIDE DEF at
    <3> QED BY <1>2, <1>4, <2>2, <3>1
  <2> HIDE DEF in, step, m, d
  <2>6. idx = [p \in 1..d |-> in(p)]  BY <1>1, <1>4, <2>4
  <2>7. Len(idx) = d /\ \A p \in 1..d : idx[p] = in(p)  BY <2>2, <2>6
  <2> QED BY <2>2, <2>5, <2>7
<1>5. CASE i \in 0..n-1 /\ i > j
  <2>1. step = -1  BY <1>2, <1>5
  <2> DEFINE d == i - j + 1
             m == IF d <= i + 1 THEN d ELSE i + 1
  <2>2. d \in Nat /\ m \in Nat /\ m <= d  BY <1>2, <1>5
  <2>3. \A p \in Int : at(p) = i - p + 1
    <3> HIDE DEF step
    <3> QED BY <1>2, <2>1
  <2>4. (j - i) * step + 1 = d
    <3> HIDE DEF step
    <3> QED BY <1>2, <2>1
  <2>5. \A p \in 1..d : in(p) \in 0..n /\ (in(p) # 0 <=> p <= m)
    <3> SUFFICES ASSUME NEW p \in 1..d PROVE in(p) \in 0..n /\ (in(p) # 0 <=> p <= m)
        OBVIOUS
    <3>1. p \in Int /\ at(p) = i - p + 1  BY <2>2, <2>3
    <3> HIDE DEF at
    <3> QED BY <1>2, <1>5, <2>2, <3>1
  <2> HIDE DEF in, step, m, d
  <2>6. idx = [p \in 1..d |-> in(p)]  BY <1>1, <1>5, <2>4
  <2>7. Len(idx) = d /\ \A p \in 1..d : idx[p] = in(p)  BY <2>2, <2>6
  <2> QED BY <2>2, <2>5, <2>7
<1> QED BY <1>2, <1>3, <1>4, <1>5

\* What SLICE makes, when it does not fail: of an array elements and null, of
\* a record entries that are there.
LEMMA SoundSlice ==
    ASSUME NEW c, Sound(c), NEW a, Shaped(a), NEW b, Shaped(b), ~Failed(SliceOf(c, a, b))
    PROVE  Sound(SliceOf(c, a, b))
<1> DEFINE idx   == slice_indexes(AsI64(a), AsI64(b), Size(c))
           there == Cardinality({k \in 1..Len(idx) : idx[k] # 0})
           list  == [k \in 1..Len(idx) |-> IF idx[k] = 0 THEN Nil ELSE c[2][idx[k]]]
           rec   == [k \in 1..there |-> c[2][idx[k]]]
           over  == Span(Normalize(AsI64(a), Size(c)), Normalize(AsI64(b), Size(c)))
                        > MaxMaterialized
           under == Span(Normalize(AsI64(a), Size(c)), Normalize(AsI64(b), Size(c)))
                        <= MaxMaterialized
<1>1. SliceOf(c, a, b) =
        CASE Kind(c) = "null" -> EmptyArr
          [] ~IsContainer(c) /\ Kind(c) # "null" -> c
          [] IsContainer(c) /\ over -> Fail("InvalidOperation")
          [] Kind(c) = "array" /\ under -> Arr(list)
          [] OTHER -> Rec(rec)
    BY Zenon DEF SliceOf
<1> HIDE DEF over, under, list, rec
<1>2. CASE ~IsContainer(c)
  <2>1. SliceOf(c, a, b) = EmptyArr \/ SliceOf(c, a, b) = c  BY <1>1, <1>2 DEF IsContainer
  <2> QED BY <2>1, SoundPlain
<1>3. CASE IsContainer(c)
  <2>1. Size(c) \in Nat /\ Len(Elements(c)) = Size(c)  BY <1>3, SoundEntries
  <2>2. AsI64(a) \in Int /\ AsI64(b) \in Int  BY AsI64Int
  <2>3. PICK m \in Nat : /\ Len(idx) \in Nat /\ m <= Len(idx)
                         /\ \A p \in 1..Len(idx) :
                               idx[p] \in 0..Size(c) /\ (idx[p] # 0 <=> p <= m)
      BY <2>1, <2>2, WalkBeginsInside
  <2> HIDE DEF idx
  <2>4. Sound(Arr(list)) \/ Kind(c) # "array"
    <3> SUFFICES ASSUME Kind(c) = "array" PROVE Sound(Arr(list))  OBVIOUS
    <3>1. \A k \in 1..Len(idx) : Sound(list[k])
      <4> SUFFICES ASSUME NEW k \in 1..Len(idx)
                   PROVE  Sound(IF idx[k] = 0 THEN Nil ELSE c[2][idx[k]])
          BY DEF list
      <4>1. CASE idx[k] = 0  BY <4>1, SoundPlain
      <4>2. CASE idx[k] # 0
        <5>1. idx[k] \in 1..Size(c)  BY <2>1, <2>3, <4>2
        <5>2. Elements(c)[idx[k]] = c[2][idx[k]] /\ Sound(Elements(c)[idx[k]])
            BY <1>3, <5>1, SoundEntries
        <5> QED BY <4>2, <5>2
      <4> QED BY <4>1, <4>2
    <3>2. list = [k \in 1..Len(idx) |-> list[k]]  BY DEF list
    <3> QED BY <2>3, <3>1, <3>2, SoundArray
  <2>5. Sound(Rec(rec)) \/ Kind(c) # "record"
    <3> SUFFICES ASSUME Kind(c) = "record" PROVE Sound(Rec(rec))  OBVIOUS
    <3>1. {k \in 1..Len(idx) : idx[k] # 0} = 1..m  BY <2>3
    <3>2. Cardinality(1..m) = m
      <4>1. 1 \in Int /\ m \in Int /\ (IF 1 > m THEN 0 ELSE m - 1 + 1) = m  BY <2>3
      <4>2. Cardinality(1..m) = IF 1 > m THEN 0 ELSE m - 1 + 1  BY <4>1, FS_Interval, Zenon
      <4> QED BY <4>1, <4>2
    <3>3. there = m  BY <3>1, <3>2
    <3> HIDE DEF there
    <3> DEFINE pos == [k \in 1..m |-> idx[k]]
    <3>4. pos \in [1..m -> 1..Size(c)] /\ \A k \in 1..m : pos[k] = idx[k]  BY <2>1, <2>3
    <3> HIDE DEF pos
    <3>5. Sound(<<Kind(c), [k \in 1..m |-> c[2][pos[k]]]>>)  BY <1>3, <3>4, SoundPieces
    <3>6. [k \in 1..m |-> c[2][pos[k]]] = rec  BY <3>3, <3>4 DEF rec
    <3> QED BY <3>5, <3>6 DEF Rec
  <2>6. SliceOf(c, a, b) = Fail("InvalidOperation")
        \/ (SliceOf(c, a, b) = Arr(list) /\ Kind(c) = "array")
        \/ (SliceOf(c, a, b) = Rec(rec) /\ Kind(c) # "array")
    <3>1. over \/ under
      <4>1. MaxMaterialized \in Int  BY LimitAssumption, WidthAssumption
      <4> DEFINE s == Normalize(AsI64(a), Size(c))
                 t == Normalize(AsI64(b), Size(c))
      <4>2. s \in Int /\ t \in Int  BY <2>1, <2>2 DEF Normalize
      <4> HIDE DEF s, t
      <4>3. \A x \in Int : Wrap(x) \in Int  BY WidthAssumption DEF Wrap, MinInt
      <4>4. t - s \in Int /\ Wrap(t - s) \in Int  BY <4>2, <4>3
      <4>5. Abs(Wrap(t - s)) + 1 \in Int
        <5> DEFINE w == Wrap(t - s)
        <5>1. w \in Int /\ -w \in Int  BY <4>4
        <5> HIDE DEF w
        <5>2. Abs(w) \in Int  BY <4>3, <5>1 DEF Abs
        <5> QED BY <5>2 DEF w
      <4>6. Span(s, t) \in Int  BY <4>3, <4>5 DEF Span
      <4>7. Span(s, t) > MaxMaterialized \/ Span(s, t) <= MaxMaterialized  BY <4>1, <4>6
      <4> QED BY <4>7 DEF over, under, s, t
    <3>2. CASE over  BY <1>1, <1>3, <3>2 DEF IsContainer
    <3>3. CASE ~over
      <4>1. CASE Kind(c) = "array"  BY <1>1, <1>3, <3>1, <3>3, <4>1 DEF IsContainer
      <4>2. CASE Kind(c) # "array"  BY <1>1, <1>3, <3>1, <3>3, <4>2 DEF IsContainer
      <4> QED BY <4>1, <4>2
    <3> QED BY <3>2, <3>3
  <2>7. SliceOf(c, a, b) # Fail("InvalidOperation")  BY DEF Failed, Fail
  <2>8. Kind(c) = "array" \/ Kind(c) = "record"  BY <1>3 DEF IsContainer
  <2> QED BY <2>4, <2>5, <2>6, <2>7, <2>8
<1> QED BY <1>2, <1>3

\* What is left of a stack, and what is taken off it.
Rest(s, n) == SubSeq(s, 1, Len(s) - n)
Args(s, n) == SubSeq(s, Len(s) - n + 1, Len(s))

\* A stack over a set of values.
Over(s, V) == IsSequence(s) /\ \A i \in 1..Len(s) : s[i] \in V

\* A part of it is one.
LEMMA PartOver ==
    ASSUME NEW V, NEW s, Over(s, V), NEW m \in Int, NEW n \in Int, 1 <= m, n <= Len(s), m <= n + 1
    PROVE  LET r == SubSeq(s, m, n) IN
           /\ Over(r, V) /\ Len(r) = n - m + 1
           /\ \A i \in 1..Len(r) : r[i] = s[m + i - 1]
<1> DEFINE r == SubSeq(s, m, n)
           k == n - m + 1
<1>1. Len(s) \in Nat /\ s = [i \in 1..Len(s) |-> s[i]]  BY DEF Over, IsSequence
<1>2. k \in Nat  OBVIOUS
<1>3. r = [i \in 1..k |-> s[m + i - 1]]
  <2>1. s \in Seq(ToSet(s))  BY SequenceIs DEF Over
  <2>2. \A p \in m..n : p \in 1..Len(s)  BY <1>1
  <2>3. r = [i \in 1..n - m + 1 |-> s[i + m - 1]]  BY <1>1, <2>1
  <2> QED BY <2>3
<1> HIDE DEF r, k
<1>4. Len(r) = k /\ \A i \in 1..k : r[i] = s[m + i - 1]  BY <1>2, <1>3
<1>5. IsSequence(r)  BY <1>2, <1>3, <1>4 DEF IsSequence
<1>6. \A i \in 1..k : m + i - 1 \in 1..Len(s)  BY <1>1 DEF k
<1>7. Over(r, V)  BY <1>4, <1>5, <1>6 DEF Over
<1> QED BY <1>4, <1>7 DEF r, k

\* Popping.
LEMMA PopOver ==
    ASSUME NEW V, NEW s, Over(s, V), NEW n \in Nat, n <= Len(s)
    PROVE  /\ Over(Rest(s, n), V) /\ Over(Args(s, n), V) /\ Len(Args(s, n)) = n
           /\ \A i \in 1..n : Args(s, n)[i] = s[Len(s) - n + i] /\ Args(s, n)[i] \in V
<1>1. Len(s) \in Nat  BY DEF Over, IsSequence
<1>2. Over(Rest(s, n), V)
  <2>1. Len(s) - n \in Int /\ 1 \in Int /\ 1 <= 1 /\ Len(s) - n <= Len(s) /\ 1 <= Len(s) - n + 1
      BY <1>1
  <2> QED BY <2>1, PartOver DEF Rest
<1> DEFINE m == Len(s) - n + 1
<1>3. m \in Int /\ 1 <= m /\ Len(s) \in Int /\ Len(s) <= Len(s) /\ m <= Len(s) + 1
      /\ Len(s) - m + 1 = n /\ \A i \in 1..n : m + i - 1 = Len(s) - n + i
    BY <1>1
<1> DEFINE r == SubSeq(s, m, Len(s))
<1>4. Args(s, n) = r  BY DEF Args
<1> HIDE DEF m
<1>5. Over(r, V) /\ Len(r) = Len(s) - m + 1 /\ \A i \in 1..Len(r) : r[i] = s[m + i - 1]
    BY <1>3, PartOver
<1>6. Over(r, V) /\ Len(r) = n /\ \A i \in 1..n : r[i] = s[Len(s) - n + i]
    BY <1>3, <1>5
<1>7. \A i \in 1..n : r[i] \in V  BY <1>6 DEF Over
<1> QED BY <1>2, <1>4, <1>6, <1>7

\* Pushing.
LEMMA PushOver ==
    ASSUME NEW V, NEW s, Over(s, V), NEW t, Over(t, V)
    PROVE  Over(s \o t, V)
<1>1. /\ Len(s) \in Nat /\ s \in Seq(ToSet(s)) /\ Len(t) \in Nat /\ t \in Seq(ToSet(t))
    BY SequenceIs DEF Over
<1> DEFINE u == s \o t
           S == ToSet(s) \cup ToSet(t)
<1>2. /\ u \in Seq(S) /\ Len(u) = Len(s) + Len(t)
      /\ \A i \in 1..Len(s) + Len(t) : u[i] = IF i <= Len(s) THEN s[i] ELSE t[i - Len(s)]
  <2>1. ToSet(s) \subseteq S /\ ToSet(t) \subseteq S  OBVIOUS
  <2> HIDE DEF S
  <2>2. s \in Seq(S) /\ t \in Seq(S)  BY <1>1, <2>1
  <2> QED BY <2>2, ConcatProperties
<1> HIDE DEF u
<1>3. \A i \in 1..Len(u) : u[i] = IF i <= Len(s) THEN s[i] ELSE t[i - Len(s)]
    BY <1>2
<1>4. IsSequence(u)
  <2>1. Len(u) \in Nat /\ u = [i \in 1..Len(u) |-> u[i]]  BY <1>2
  <2> QED BY <2>1 DEF IsSequence
<1>5. \A i \in 1..Len(u) : u[i] \in V
  <2> SUFFICES ASSUME NEW i \in 1..Len(u) PROVE u[i] \in V  OBVIOUS
  <2>1. CASE i <= Len(s)  BY <1>1, <1>2, <1>3, <2>1 DEF Over
  <2>2. CASE ~(i <= Len(s))
    <3>1. i - Len(s) \in 1..Len(t)  BY <1>1, <1>2, <2>2
    <3> QED BY <1>3, <2>2, <3>1 DEF Over
  <2> QED BY <2>1, <2>2
<1> QED BY <1>4, <1>5 DEF Over, u

\* A few values.
LEMMA FewOver ==
    ASSUME NEW V
    PROVE  /\ Over(<<>>, V)
           /\ \A v \in V : Over(<<v>>, V)
           /\ \A v, w \in V : Over(<<v, w>>, V)
<1>1. \A v \in V : Len(<<v>>) = 1 /\ <<v>>[1] = v /\ <<v>> = [i \in 1..1 |-> <<v>>[i]]  OBVIOUS
<1>2. \A v, w \in V : /\ Len(<<v, w>>) = 2 /\ <<v, w>> = [i \in 1..2 |-> <<v, w>>[i]]
                      /\ \A i \in 1..2 : <<v, w>>[i] = v \/ <<v, w>>[i] = w
    OBVIOUS
<1>3. Len(<<>>) = 0 /\ <<>> = [i \in 1..0 |-> <<>>[i]]  OBVIOUS
<1>4. Over(<<>>, V)  BY <1>3 DEF Over, IsSequence
<1>5. \A v \in V : Over(<<v>>, V)
  <2> TAKE v \in V
  <2> DEFINE s == <<v>>
  <2>1. Len(s) = 1 /\ s = [i \in 1..1 |-> s[i]] /\ s[1] = v  BY <1>1
  <2> HIDE DEF s
  <2>2. Over(s, V)  BY <2>1 DEF Over, IsSequence
  <2> QED BY <2>2 DEF s
<1>6. \A v, w \in V : Over(<<v, w>>, V)
  <2> TAKE v, w \in V
  <2> DEFINE s == <<v, w>>
  <2>1. Len(s) = 2 /\ s = [i \in 1..2 |-> s[i]] /\ \A i \in 1..2 : s[i] = v \/ s[i] = w
      BY <1>2
  <2> HIDE DEF s
  <2>2. Over(s, V)  BY <2>1 DEF Over, IsSequence
  <2> QED BY <2>2 DEF s
<1> QED BY <1>4, <1>5, <1>6

\* Sound stacks are stacks over a set of sound values.
LEMMA SoundOver ==
    ASSUME NEW s
    PROVE  SoundStack(s) <=> \E V : Over(s, V) /\ \A v \in V : Sound(v)
<1>1. ASSUME SoundStack(s)
      PROVE  \E V : Over(s, V) /\ \A v \in V : Sound(v)
  <2> DEFINE V == {s[i] : i \in 1..Len(s)}
  <2>1. Over(s, V)  BY <1>1 DEF Over, SoundStack
  <2>2. \A v \in V : Sound(v)  BY <1>1 DEF SoundStack
  <2> QED BY <2>1, <2>2
<1>2. ASSUME NEW V, Over(s, V), \A v \in V : Sound(v) PROVE SoundStack(s)
    BY <1>2 DEF Over, SoundStack
<1> QED BY <1>1, <1>2

\* Popping a sound stack.
LEMMA SoundPop ==
    ASSUME NEW s, SoundStack(s), NEW n \in 1..3, n <= Len(s)
    PROVE  /\ SoundStack(Rest(s, n))
           /\ \A i \in 1..n : /\ Args(s, n)[i] = s[Len(s) - n + i]
                              /\ Sound(Args(s, n)[i]) /\ Shaped(Args(s, n)[i])
<1>1. PICK V : Over(s, V) /\ \A v \in V : Sound(v)  BY SoundOver
<1>2. /\ Over(Rest(s, n), V)
      /\ \A i \in 1..n : Args(s, n)[i] = s[Len(s) - n + i] /\ Args(s, n)[i] \in V
    BY <1>1, PopOver
<1> QED BY <1>1, <1>2, SoundOver, SoundParts

\* Sound values pushed on a sound stack.
LEMMA SoundPush ==
    ASSUME NEW s, SoundStack(s), NEW t, SoundStack(t)
    PROVE  SoundStack(s \o t)
<1>1. PICK V : Over(s, V) /\ \A v \in V : Sound(v)  BY SoundOver
<1>2. PICK W : Over(t, W) /\ \A v \in W : Sound(v)  BY SoundOver
<1>3. Over(s, V \cup W) /\ Over(t, V \cup W)  BY <1>1, <1>2 DEF Over
<1>4. Over(s \o t, V \cup W)  BY <1>3, PushOver
<1>5. \A v \in V \cup W : Sound(v)  BY <1>1, <1>2
<1> QED BY <1>4, <1>5, SoundOver

\* No result, one as most words push it, and two as TAKE does.
LEMMA SoundOne ==
    SoundStack(<<>>) /\ \A v : Sound(v) => SoundStack(<<v>>)
<1>1. Over(<<>>, {})  BY FewOver
<1>2. ASSUME NEW v, Sound(v) PROVE SoundStack(<<v>>)
  <2>1. v \in {v}  OBVIOUS
  <2>2. Over(<<v>>, {v})  BY <2>1, FewOver
  <2>3. \A w \in {v} : Sound(w)  BY <1>2
  <2> QED BY <2>2, <2>3, SoundOver
<1>3. SoundStack(<<>>)  BY <1>1, SoundOver
<1> QED BY <1>2, <1>3

\* A stack of two sound values.
LEMMA SoundTwo ==
    ASSUME NEW v, Sound(v), NEW w, Sound(w)
    PROVE  SoundStack(<<v, w>>)
<1>1. Over(<<v, w>>, {v, w})  BY FewOver
<1>2. \A x \in {v, w} : Sound(x)  OBVIOUS
<1> QED BY <1>1, <1>2, SoundOver

\* After a word: the stack is empty, its arguments are gone, or its results
\* stand in their place.
After(s, n, after) ==
    \/ after = <<>>
    \/ n <= Len(s) /\ after = Rest(s, n)
    \/ n <= Len(s) /\ \E outs : SoundStack(outs) /\ after = Rest(s, n) \o outs

\* A word leaves a sound stack when its results are sound.
LEMMA SoundAfter ==
    ASSUME NEW s, SoundStack(s), NEW n \in 1..3, NEW after, After(s, n, after)
    PROVE  SoundStack(after)
<1>2. n <= Len(s) => SoundStack(Rest(s, n))  BY SoundPop
<1> QED BY <1>2, SoundOne, SoundPush DEF After

\* The words of one argument.
LEMMA SoundUnary ==
    ASSUME SoundStack(stack), word_first \/ word_last \/ word_length
    PROVE  SoundStack(stack')
<1> DEFINE a == Args(stack, 1)[1]
<1>1. Len(stack) \in Nat  BY DEF SoundStack, IsSequence
<1>2. 1 <= Len(stack) => Sound(FirstOf(a)) /\ Sound(LastOf(a)) /\ Sound(LengthOf(a))
    BY SoundPop, SoundAccess
<1>3. PICK v \in {FirstOf(a), LastOf(a), LengthOf(a)} :
         \/ stack' = <<>>
         \/ 1 <= Len(stack) /\ stack' = Rest(stack, 1)
         \/ 1 <= Len(stack) /\ stack' = Rest(stack, 1) \o <<v>>
  <2>1. CASE word_first
      BY <1>1, <2>1 DEF word_first, Unary, Pops, Fails, Rest, Args
  <2>2. CASE word_last
      BY <1>1, <2>2 DEF word_last, Unary, Pops, Fails, Rest, Args
  <2>3. CASE word_length
      BY <1>1, <2>3 DEF word_length, Unary, Pops, Fails, Rest, Args
  <2> QED BY <2>1, <2>2, <2>3
<1>4. 1 <= Len(stack) => SoundStack(<<v>>)  BY <1>2, <1>3, SoundOne
<1>5. After(stack, 1, stack')  BY <1>3, <1>4 DEF After
<1> QED BY <1>5, SoundAfter

\* The words of two arguments, TAKE apart.
LEMMA SoundBinary ==
    ASSUME SoundStack(stack),
           word_nth \/ word_skip \/ word_take_last \/ word_groups_of \/ word_range
    PROVE  SoundStack(stack')
<1> DEFINE a == Args(stack, 2)[1]
           b == Args(stack, 2)[2]
<1>1. Len(stack) \in Nat /\ stack \in Seq(ToSet(stack))  BY SequenceIs DEF SoundStack
<1>2. 2 <= Len(stack) => Sound(a) /\ Shaped(a) /\ Sound(b) /\ Shaped(b)  BY SoundPop
<1>3. 2 <= Len(stack) => Sound(NthOf(a, b)) /\ Sound(SkipOf(a, b)) /\ Sound(TakeLastOf(a, b))
    BY <1>2, SoundAccess, SoundTakes
<1>4. 2 <= Len(stack) /\ ~Failed(RangeOf(a, b)) => Sound(RangeOf(a, b))
    BY <1>2, SoundRange
<1>5. 2 <= Len(stack) /\ ~(AsI64(Top) <= 0) => Sound(GroupsOf(a, b))
  <2> SUFFICES ASSUME 2 <= Len(stack), ~(AsI64(Top) <= 0) PROVE Sound(GroupsOf(a, b))
      OBVIOUS
  <2>1. b = stack[Len(stack)]
    <3>1. Args(stack, 2)[2] = stack[Len(stack) - 2 + 2]  BY SoundPop
    <3> QED BY <1>1, <3>1
  <2>2. Top = b  BY <1>1, <2>1 DEF Top, Last
  <2>3. AsI64(b) \in Int  BY <1>2, AsI64Int
  <2>4. AsI64(b) > 0  BY <2>2, <2>3
  <2> QED BY <1>2, <2>4, SoundGroups
<1>6. \/ stack' = <<>>
      \/ 1 <= Len(stack) /\ stack' = Rest(stack, 1)
      \/ 2 <= Len(stack) /\ stack' = Rest(stack, 2)
      \/ \E v : 2 <= Len(stack) /\ stack' = Rest(stack, 2) \o <<v>> /\ Sound(v)
  <2>1. CASE word_nth
      BY <1>1, <1>3, <2>1 DEF word_nth, Binary, Pops, Fails, Rest, Args
  <2>2. CASE word_skip
      BY <1>1, <1>3, <2>2 DEF word_skip, Binary, Pops, Fails, Rest, Args
  <2>3. CASE word_take_last
      BY <1>1, <1>3, <2>3 DEF word_take_last, Binary, Pops, Fails, Rest, Args
  <2>4. CASE word_groups_of
    <3>1. CASE stack # <<>> /\ AsI64(Top) <= 0
        BY <1>1, <2>4, <3>1
        DEF word_groups_of, RefusesTop, Unary, Pops, Fails, Failed, Fail, Rest, Args
    <3>2. CASE ~(stack # <<>> /\ AsI64(Top) <= 0)
      <4>1. 2 <= Len(stack) => Sound(GroupsOf(a, b))  BY <1>1, <1>5, <3>2
      <4> QED BY <1>1, <2>4, <3>2, <4>1
              DEF word_groups_of, Binary, Pops, Fails, Rest, Args
    <3> QED BY <3>1, <3>2
  <2>5. CASE word_range
      BY <1>1, <1>4, <2>5 DEF word_range, Binary, Pops, Fails, Rest, Args
  <2> QED BY <2>1, <2>2, <2>3, <2>4, <2>5
<1>7. After(stack, 1, stack') \/ After(stack, 2, stack')  BY <1>6, SoundOne DEF After
<1> QED BY <1>7, SoundAfter

\* SLICE.
LEMMA SoundTernary ==
    ASSUME SoundStack(stack), word_slice
    PROVE  SoundStack(stack')
<1> DEFINE a == Args(stack, 3)[1]
           b == Args(stack, 3)[2]
           c == Args(stack, 3)[3]
<1>1. Len(stack) \in Nat  BY DEF SoundStack, IsSequence
<1>2. 3 <= Len(stack) /\ ~Failed(SliceOf(a, b, c)) => Sound(SliceOf(a, b, c))
    BY SoundPop, SoundSlice
<1>3. \/ stack' = <<>>
      \/ 3 <= Len(stack) /\ stack' = Rest(stack, 3)
      \/ \E v : 3 <= Len(stack) /\ stack' = Rest(stack, 3) \o <<v>> /\ Sound(v)
    BY <1>1, <1>2 DEF word_slice, Ternary, Pops, Fails, Rest, Args
<1>4. After(stack, 3, stack')  BY <1>3, SoundOne DEF After
<1> QED BY <1>4, SoundAfter

\* TAKE, with and without push_rest.
LEMMA SoundTake ==
    ASSUME SoundStack(stack), word_take
    PROVE  SoundStack(stack')
<1> DEFINE s == Beneath
           a == Args(s, 2)[1]
           b == Args(s, 2)[2]
<1>1. Len(stack) \in Nat /\ stack \in Seq(ToSet(stack))  BY SequenceIs DEF SoundStack
<1>2. SoundStack(s)
  <2>1. CASE Kind(Top) = "options"
    <3>1. stack # <<>>  BY <2>1 DEF Top, Nil, Kind
    <3>2. 1 <= Len(stack)  BY <1>1, <3>1
    <3>3. s = Rest(stack, 1)  BY <2>1 DEF Beneath, Front, Rest
    <3> QED BY <3>2, <3>3, SoundPop
  <2>2. CASE Kind(Top) # "options"  BY <2>2 DEF Beneath
  <2> QED BY <2>1, <2>2
<1>3. Len(s) \in Nat  BY <1>2 DEF SoundStack, IsSequence
<1> HIDE DEF s
<1>4. 2 <= Len(s) => Sound(TakeOf(a, b)) /\ Sound(RestOf(a, b))
    BY <1>2, SoundPop, SoundTakes
<1>5. \/ stack' = <<>>
      \/ 2 <= Len(s) /\ stack' = Rest(s, 2)
      \/ 2 <= Len(s) /\ stack' = Rest(s, 2) \o <<TakeOf(a, b)>>
      \/ 2 <= Len(s) /\ stack' = Rest(s, 2) \o <<TakeOf(a, b), RestOf(a, b)>>
    BY <1>3 DEF word_take, Pops, Fails, Rest, Args, s
<1>6. 2 <= Len(s) => SoundStack(<<TakeOf(a, b)>>)
                     /\ SoundStack(<<TakeOf(a, b), RestOf(a, b)>>)
    BY <1>4, SoundOne, SoundTwo
<1>7. After(s, 2, stack')  BY <1>5, <1>6 DEF After
<1> QED BY <1>2, <1>7, SoundAfter

\* Programs of the words that take containers to pieces keep every value in
\* its form at every depth, whatever values they begin with.
THEOREM CuttingKeepsValuesSound ==
    ASSUME \A s \in Stacks : SoundStack(s)
    PROVE  CuttingSpec => []SoundStack(stack)
<1>1. Init => SoundStack(stack)  BY DEF Init
<1>2. SoundStack(stack) /\ [CuttingWord]_vars => SoundStack(stack)'
  <2> SUFFICES ASSUME SoundStack(stack), [CuttingWord]_vars PROVE SoundStack(stack')
      BY DEF SoundStack, Sound
  <2>1. CASE UNCHANGED vars  BY <2>1 DEF vars
  <2>2. CASE CuttingWord
      BY <2>2, SoundUnary, SoundBinary, SoundTernary, SoundTake DEF CuttingWord
  <2> QED BY <2>1, <2>2
<1> QED BY <1>1, <1>2, PTL DEF CuttingSpec

\* TAKE, its push_rest, SKIP, TAKE-LAST, SLICE and GROUPS-OF agree where to cut
\* in every state of such a program.
THEOREM CuttingAgrees ==
    ASSUME \A s \in Stacks : SoundStack(s)
    PROVE  CuttingSpec => []PiecesAgree
<1>1. SoundStack(stack) => PiecesAgree
    BY SoundParts, PiecesReassemble DEF SoundStack, StackShaped
<1> QED BY <1>1, CuttingKeepsValuesSound, PTL
(***************************************************************************)
(* Equality, the order of SORT and the keys of UNIQUE on comparable values.*)
(***************************************************************************)
\* What a number is as f64: null exactly if it is.
LEMMA FloatOfInt ==
    ASSUME NEW n \in MinInt..MaxInt
    PROVE  ToF64(n) \in Int /\ (ToF64(n) = 0 <=> n = 0)
<1>1. n \in Int /\ 1 \in -Precise..Precise /\ 0 \in -Precise..Precise /\ -1 \in -Precise..Precise
    BY WidthAssumption DEF MinInt
<1>2. /\ 1 \in MinInt..MaxInt /\ -1 \in MinInt..MaxInt
      /\ Rounded[1] = 1 /\ Rounded[0] = 0 /\ Rounded[-1] = -1
    BY <1>1, SmallStay, WidthAssumption DEF MinInt
<1>3. Rounded[n] \in Int /\ (Rounded[n] = 0 <=> n = 0)
  <2>1. CASE n = 0  BY <1>2, <2>1
  <2>2. CASE n = 1 \/ n = -1  BY <1>2, <2>2
  <2>3. CASE n > 1
    <3>1. Rounded[n] \in Int /\ Rounded[1] <= Rounded[n]  BY <1>1, <1>2, <2>3, RoundedInOrder
    <3> QED BY <1>2, <2>3, <3>1
  <2>4. CASE n < -1
    <3>1. Rounded[n] \in Int /\ Rounded[n] <= Rounded[-1]  BY <1>1, <1>2, <2>4, RoundedInOrder
    <3> QED BY <1>2, <2>4, <3>1
  <2> QED BY <1>1, <2>1, <2>2, <2>3, <2>4
<1> QED BY <1>3 DEF ToF64

\* natural_cmp answers a number, the opposite one when its arguments are
\* exchanged, NaN or not.
LEMMA CompareSwaps ==
    ASSUME NEW a, Canonical(a), NEW b, Canonical(b)
    PROVE  natural_cmp(a, b) = -natural_cmp(b, a)
<1>1. \A v : Canonical(v) /\ Kind(v) # "nan" => Sortable(v)  BY DEF Canonical, Sortable
<1>2. CASE Kind(a) # "nan" /\ Kind(b) # "nan"
  <2>1. \A v \in {a, b} : Sortable(v)  BY <1>1, <1>2
  <2> DEFINE S == {a, b}
  <2>2. a \in S /\ b \in S /\ \A v \in S : Sortable(v)  BY <2>1
  <2> HIDE DEF S
  <2>3. natural_cmp(a, b) = -natural_cmp(b, a)  BY <2>2, SortOrder, Zenon
  <2> QED BY <2>3
<1>3. CASE Kind(a) = "nan" \/ Kind(b) = "nan"
  <2>1. \A v : Canonical(v) /\ Kind(v) = "nan" => v = NaN
      BY DEF Canonical, Shaped, Kind, NaN
  <2>2. CASE IsNumber(a) /\ IsNumber(b)
    <3>1. a = NaN \/ b = NaN  BY <1>3, <2>1
    <3>2. natural_cmp(a, b) = 0 /\ natural_cmp(b, a) = 0  BY <2>2, <3>1 DEF natural_cmp, IsNumber
    <3>3. natural_cmp(a, b) = 0 - natural_cmp(b, a) /\ natural_cmp(b, a) \in Int  BY <3>2
    <3> QED BY <3>3
  <2>3. CASE ~(IsNumber(a) /\ IsNumber(b))
    <3>1. /\ natural_cmp(a, b) = Sign(Rank(a), Rank(b))
          /\ natural_cmp(b, a) = Sign(Rank(b), Rank(a))
        BY <1>3, <2>3 DEF natural_cmp, IsNumber
    <3>2. Rank(a) \in Int /\ Rank(b) \in Int  BY DEF Rank
    <3> QED BY <3>1, <3>2 DEF Sign
  <2> QED BY <2>2, <2>3
<1> QED BY <1>2, <1>3

\* Values that are == are ties of SORT and have one truth.
LEMMA EqualsTie ==
    ASSUME NEW a, Canonical(a), NEW b, Canonical(b), Matches(a, b)
    PROVE  natural_cmp(a, b) = 0 /\ Truthy(a) = Truthy(b)
<1>1. CASE IsNumber(a) /\ IsNumber(b)
  <2>1. /\ a # NaN /\ b # NaN
        /\ IF Kind(a) = Kind(b) THEN a = b ELSE AsF64(a) = AsF64(b)
      BY <1>1, NumbersMatch
  <2>2. \A v \in {a, b} : v # NaN /\ IsNumber(v) => Kind(v) \in {"int", "float", "negzero"}
      BY DEF Canonical, Shaped, Kind, NaN, IsNumber
  <2>3. AsF64(a) = AsF64(b)  BY <2>1
  <2>4. \A v \in {a, b} : AsF64(v) \in Int /\ (Truthy(v) <=> AsF64(v) # 0)
    <3> SUFFICES ASSUME NEW v \in {a, b}
                 PROVE  AsF64(v) \in Int /\ (Truthy(v) <=> AsF64(v) # 0)
        OBVIOUS
    <3>1. CASE Kind(v) = "int"
      <4>1. v[2] \in MinInt..MaxInt  BY <3>1 DEF Canonical, InWidth
      <4>2. ToF64(v[2]) \in Int /\ (ToF64(v[2]) = 0 <=> v[2] = 0)  BY <4>1, FloatOfInt
      <4> QED BY <3>1, <4>2 DEF AsF64, Truthy
    <3>2. CASE Kind(v) = "float"
      <4>1. v[2] \in Int  BY <3>2 DEF Canonical, Shaped
      <4> QED BY <3>2, <4>1 DEF AsF64, Truthy
    <3>3. CASE Kind(v) = "negzero"
      <4>1. v[2] = 0  BY <3>3 DEF Canonical, Shaped
      <4> QED BY <3>3, <4>1 DEF AsF64, Truthy
    <3> QED BY <1>1, <2>1, <2>2, <3>1, <3>2, <3>3
  <2>5. natural_cmp(a, b) = Sign(AsF64(a), AsF64(b))
    <3>1. NaN \notin {a, b}  BY <2>1
    <3> QED BY <1>1, <3>1 DEF natural_cmp, IsNumber
  <2>6. natural_cmp(a, b) = 0  BY <2>3, <2>4, <2>5 DEF Sign
  <2>7. Truthy(a) \in BOOLEAN /\ Truthy(b) \in BOOLEAN
    <3>1. Kind(a) # "bool" /\ Kind(b) # "bool"  BY <1>1 DEF IsNumber
    <3>2. Truthy(a) \in BOOLEAN  BY <3>1, Zenon DEF Truthy
    <3>3. Truthy(b) \in BOOLEAN  BY <3>1, Zenon DEF Truthy
    <3> QED BY <3>2, <3>3
  <2> QED BY <2>3, <2>4, <2>6, <2>7
<1>2. CASE Kind(a) = Kind(b) /\ Kind(a) \in {"array", "record"}
  <2>1. Rank(a) = Rank(b) /\ Rank(a) \in Int  BY <1>2 DEF Rank, IsNumber
  <2>2. natural_cmp(a, b) = Sign(Rank(a), Rank(b))  BY <1>2 DEF natural_cmp, IsNumber
  <2>3. Kind(a) # "bool" /\ Kind(b) # "bool"  BY <1>2
  <2>4. Truthy(a) = Truthy(b)
    <3>1. Truthy(a) \in BOOLEAN  BY <2>3, Zenon DEF Truthy
    <3>2. Truthy(b) \in BOOLEAN  BY <2>3, Zenon DEF Truthy
    <3>3. Truthy(a)  BY <1>2, Zenon DEF Truthy
    <3>4. Truthy(b)  BY <1>2, Zenon DEF Truthy
    <3> QED BY <3>1, <3>2, <3>3, <3>4
  <2> QED BY <2>1, <2>2, <2>4 DEF Sign
<1>3. CASE a = b /\ Kind(a) \in {"null", "bool", "string", "datetime"}
  <2>1. Sortable(a)  BY <1>3 DEF Canonical, Sortable
  <2>2. natural_cmp(a, a) = 0
    <3>1. \A v \in {a} : Sortable(v)  BY <2>1
    <3> QED BY <3>1, SortOrder
  <2> QED BY <1>3, <2>2
<1> QED BY <1>1, <1>2, <1>3 DEF Matches

\* A scalar is of one of six kinds, and what it holds goes with its kind.
LEMMA ScalarIs ==
    ASSUME NEW v, Canonical(v), Scalar(v)
    PROVE  /\ Keyable(v) /\ v = <<Kind(v), v[2]>> /\ v # NaN
           /\ Kind(v) \in {"null", "bool", "int", "float", "negzero", "string"}
           /\ Kind(v) = "int"   => v[2] \in Int /\ v[2] \in MinInt..MaxInt /\ AsF64(v) = 2 * v[2]
           /\ Kind(v) = "float" => v[2] \in Int /\ AsF64(v) = v[2]
           /\ v = NegZero <=> Kind(v) = "negzero"
           /\ v = NegZero => AsF64(v) = 0
<1>1. v = <<Kind(v), v[2]>>  BY DEF Canonical, Shaped, Kind
<1>2. Kind(v) = "nan" => v = NaN  BY <1>1 DEF Canonical, NaN
<1>3. Kind(v) \in {"null", "bool", "int", "float", "negzero", "string"}  BY <1>2 DEF Scalar, IsScalar
<1>4. Keyable(v)  BY <1>3 DEF Canonical, Keyable, Sortable
<1>5. ASSUME Kind(v) = "int"
      PROVE  v[2] \in Int /\ v[2] \in MinInt..MaxInt /\ AsF64(v) = 2 * v[2]
  <2>1. v[2] \in -Precise..Precise  BY <1>5 DEF Scalar
  <2>2. v[2] \in MinInt..MaxInt  BY <1>5 DEF Canonical, InWidth
  <2>3. Rounded[v[2]] = v[2]  BY <2>1, SmallStay
  <2>4. v[2] \in Int  BY <2>1, WidthAssumption
  <2> QED BY <1>5, <2>2, <2>3, <2>4 DEF AsF64, ToF64
<1>6. Kind(v) = "float" => v[2] \in Int /\ AsF64(v) = v[2]
    BY DEF Canonical, Shaped, AsF64
<1>7. v # NaN  BY DEF Scalar
<1>8. v = NegZero <=> Kind(v) = "negzero"
  <2>1. Kind(v) = "negzero" => v[2] = 0  BY DEF Canonical, Shaped
  <2> QED BY <1>1, <2>1 DEF NegZero, Kind
<1>9. v = NegZero => AsF64(v) = 0  BY DEF NegZero, AsF64, Kind
<1> QED BY <1>1, <1>3, <1>4, <1>5, <1>6, <1>7, <1>8, <1>9

\* A scalar that is a number is a whole number of halves as an f64.
LEMMA ScalarAsF64 ==
    ASSUME NEW v, Canonical(v), Scalar(v), IsNumber(v)
    PROVE  AsF64(v) \in Int
<1>1. CASE Kind(v) = "int"
  <2>1. v[2] \in Int /\ AsF64(v) = 2 * v[2]  BY <1>1, ScalarIs
  <2> QED BY <2>1
<1>2. CASE Kind(v) = "float"  BY <1>2, ScalarIs
<1>3. CASE Kind(v) = "negzero"  BY <1>3, ScalarIs
<1> QED BY <1>1, <1>2, <1>3, ScalarIs DEF IsNumber

\* Scalars that tie match.
LEMMA TiesMatch ==
    ASSUME NEW a, Canonical(a), Scalar(a), NEW b, Canonical(b), Scalar(b),
           natural_cmp(a, b) = 0
    PROVE  Matches(a, b)
<1>1. Rank(a) = Rank(b) /\ (\A v \in {a, b} : Rank(v) = 1 <=> IsNumber(v))
  <2>1. Sortable(a) /\ Sortable(b)  BY ScalarIs DEF Keyable
  <2>2. Rank(a) \in Int /\ Rank(b) \in Int  BY <2>1, RankAndLine
  <2>3. Rank(a) # Rank(b) => natural_cmp(a, b) = Sign(Rank(a), Rank(b))  BY <2>1, CompareIs
  <2>4. Rank(a) = Rank(b)  BY <2>2, <2>3 DEF Sign
  <2>5. \A v \in {a, b} : Rank(v) = 1 <=> IsNumber(v)
      BY <2>1, RankAndLine DEF IsNumber, Sortable
  <2> QED BY <2>4, <2>5
<1>2. /\ a = <<Kind(a), a[2]>> /\ Kind(a) \in {"null", "bool", "int", "float", "negzero", "string"}
      /\ b = <<Kind(b), b[2]>> /\ Kind(b) \in {"null", "bool", "int", "float", "negzero", "string"}
      /\ a # NaN /\ b # NaN
    BY ScalarIs
<1>3. CASE IsNumber(a) /\ IsNumber(b)
  <2>1. AsF64(a) = AsF64(b)
    <3>1. AsF64(a) \in Int /\ AsF64(b) \in Int  BY <1>3, ScalarAsF64
    <3>2. NaN \notin {a, b}  BY <1>2
    <3>3. natural_cmp(a, b) = Sign(AsF64(a), AsF64(b))  BY <1>3, <3>2 DEF natural_cmp, IsNumber
    <3> QED BY <3>1, <3>3 DEF Sign
  <2>2. ASSUME Kind(a) = Kind(b) PROVE a = b
    <3>1. CASE Kind(a) = "int"
      <4>1. a[2] \in Int /\ b[2] \in Int /\ 2 * a[2] = 2 * b[2]
          BY <2>1, <2>2, <3>1, ScalarIs
      <4>2. a[2] = b[2]  BY <4>1
      <4> QED BY <1>2, <2>2, <4>2
    <3>2. CASE Kind(a) = "float"
      <4>1. a[2] = b[2]  BY <2>1, <2>2, <3>2, ScalarIs
      <4> QED BY <1>2, <2>2, <4>1
    <3>3. CASE Kind(a) = "negzero"
      <4>1. a = NegZero  BY <3>3, ScalarIs
      <4>2. b = NegZero  BY <2>2, <3>3, ScalarIs
      <4> QED BY <4>1, <4>2
    <3> QED BY <1>2, <1>3, <3>1, <3>2, <3>3 DEF IsNumber
  <2> QED BY <1>2, <1>3, <2>1, <2>2, NumbersMatch
<1>4. CASE ~IsNumber(a) \/ ~IsNumber(b)
  <2>1. ~IsNumber(a) /\ ~IsNumber(b)  BY <1>1, <1>4
  <2>2. SameZero(a, b)  BY <2>1 DEF SameZero, NegZero, IsNumber, Kind
  <2>3. value_to_key(a) = value_to_key(b)  BY <2>2, ScalarIs, TiesShareAKey
  <2>4. a = b  BY <2>1, <2>3 DEF value_to_key, IsNumber
  <2> QED BY <1>2, <2>1, <2>4 DEF Matches, IsNumber
<1> QED BY <1>3, <1>4

\* Scalars that match have one text as the key of a record, but for 0 and -0.0.
LEMMA MatchesShareAText ==
    ASSUME NEW a, Canonical(a), Scalar(a), NEW b, Canonical(b), Scalar(b), Matches(a, b),
           SameZero(a, b)
    PROVE  value_to_key_string(a) = value_to_key_string(b)
<1>1. /\ Kind(a) \in {"null", "bool", "int", "float", "negzero", "string"}
      /\ Kind(b) \in {"null", "bool", "int", "float", "negzero", "string"}
    BY ScalarIs
<1>2. CASE a = b  BY <1>2
<1>3. CASE a # b
  <2>1. IsNumber(a) /\ IsNumber(b)  BY <1>1, <1>3 DEF Matches, IsNumber
  <2>2. Kind(a) # Kind(b) /\ AsF64(a) = AsF64(b)  BY <1>3, <2>1, NumbersMatch
  <2>9. Kind(a) # "negzero" /\ Kind(b) # "negzero"
      BY <1>3, ScalarIs DEF SameZero
  <2>3. \A i, f : /\ Kind(i) = "int" /\ i[2] \in Int /\ Kind(f) = "float" /\ f[2] = 2 * i[2]
                  => value_to_key_string(i) = value_to_key_string(f)
    <3> SUFFICES ASSUME NEW i, NEW f, Kind(i) = "int", i[2] \in Int, Kind(f) = "float",
                        f[2] = 2 * i[2]
                 PROVE  value_to_key_string(i) = value_to_key_string(f)
        OBVIOUS
    <3>1. value_to_key_string(i) = ToString(i[2])
        BY DEF value_to_key_string, IsScalar, ScalarText
    <3>2. value_to_key_string(f) = HalfText(f[2])
        BY DEF value_to_key_string, IsScalar, ScalarText
    <3>3. f[2] % 2 = 0 /\ f[2] \div 2 = i[2]  OBVIOUS
    <3> QED BY <3>1, <3>2, <3>3 DEF HalfText
  <2>4. CASE Kind(a) = "int" /\ Kind(b) = "float"
    <3>1. a[2] \in Int /\ b[2] = 2 * a[2]  BY <2>2, <2>4, ScalarIs
    <3> QED BY <2>3, <2>4, <3>1
  <2>5. CASE Kind(a) = "float" /\ Kind(b) = "int"
    <3>1. b[2] \in Int /\ a[2] = 2 * b[2]  BY <2>2, <2>5, ScalarIs
    <3> QED BY <2>3, <2>5, <3>1
  <2> QED BY <1>1, <2>1, <2>2, <2>4, <2>5, <2>9 DEF IsNumber
<1> QED BY <1>2, <1>3

\* < is natural_cmp on numbers and on strings, and false on everything else.
LEMMA LessIsBefore ==
    ASSUME NEW a, Canonical(a), Scalar(a), NEW b, Canonical(b), Scalar(b)
    PROVE  LessThan(a, b) <=> /\ natural_cmp(a, b) = -1
                              /\ Kind(a) = Kind(b) \/ (IsNumber(a) /\ IsNumber(b))
                              /\ Kind(a) # "bool"
<1>1. /\ Kind(a) \in {"null", "bool", "int", "float", "negzero", "string"} /\ a # NaN
      /\ Kind(b) \in {"null", "bool", "int", "float", "negzero", "string"} /\ b # NaN
      /\ a = <<Kind(a), a[2]>> /\ b = <<Kind(b), b[2]>>
    BY ScalarIs
<1>2. CASE IsNumber(a) /\ IsNumber(b)
  <2>1. Kind(a) \in {"int", "float", "negzero"} /\ Kind(b) \in {"int", "float", "negzero"}  BY <1>1, <1>2 DEF IsNumber
  <2>2. AsF64(a) \in Int /\ AsF64(b) \in Int
    BY <1>2, ScalarAsF64
  <2>3. natural_cmp(a, b) = Sign(AsF64(a), AsF64(b))
    <3>1. NaN \notin {a, b}  BY <1>1
    <3> QED BY <1>2, <3>1 DEF natural_cmp, IsNumber
  <2>4. natural_cmp(a, b) = -1 <=> AsF64(a) < AsF64(b)  BY <2>2, <2>3 DEF Sign
  <2>5. LessThan(a, b) <=> AsF64(a) < AsF64(b)
    <3>1. CASE Kind(a) = "int" /\ Kind(b) = "int"
      <4>1. a[2] \in Int /\ b[2] \in Int /\ AsF64(a) = 2 * a[2] /\ AsF64(b) = 2 * b[2]
          BY <3>1, ScalarIs
      <4>2. LessThan(a, b) <=> a[2] < b[2]  BY <3>1 DEF LessThan, Both, IsNumber
      <4> QED BY <4>1, <4>2
    <3>2. CASE ~(Kind(a) = "int" /\ Kind(b) = "int")
      <4>1. NaN \notin {a, b}  BY <1>1
      <4> QED BY <1>2, <2>1, <3>2, <4>1 DEF LessThan, Both, IsNumber
    <3> QED BY <3>1, <3>2
  <2> QED BY <1>2, <2>1, <2>4, <2>5
<1>3. CASE Kind(a) = "string" /\ Kind(b) = "string"
  <2>1. LessThan(a, b) <=> StringLess(a[2], b[2])  BY <1>3 DEF LessThan, Both, IsNumber
  <2>2. natural_cmp(a, b) = IF a = b THEN 0 ELSE IF StringLess(a[2], b[2]) THEN -1 ELSE 1
      BY <1>3 DEF natural_cmp, IsNumber
  <2>3. ~StringLess(a[2], a[2])
    <3>1. Spelled(a[2])  BY <1>3 DEF Canonical
    <3>2. Len(a[2]) \in Nat  BY <3>1 DEF Spelled, IsSequence
    <3> SUFFICES ASSUME StringLess(a[2], a[2]) PROVE FALSE  OBVIOUS
    <3>3. PICK i \in 0..Len(a[2]) :
             /\ i < Len(a[2])
             /\ i = Len(a[2]) \/ LetterAt(a[2], i + 1) < LetterAt(a[2], i + 1)
        BY <3>1, StringLessIs
    <3>4. i + 1 \in 1..Len(a[2]) /\ i # Len(a[2])  BY <3>2, <3>3
    <3>5. LetterAt(a[2], i + 1) \in Int  BY <3>1, <3>4, LetterIs
    <3> QED BY <3>3, <3>4, <3>5
  <2> QED BY <1>3, <2>1, <2>2, <2>3
<1>4. CASE ~(IsNumber(a) /\ IsNumber(b)) /\ ~(Kind(a) = "string" /\ Kind(b) = "string")
  <2>1. ~LessThan(a, b)  BY <1>4 DEF LessThan, Both, IsNumber
  <2>2. Kind(a) = Kind(b) /\ Kind(a) # "bool" => Kind(a) = "null"  BY <1>1, <1>4 DEF IsNumber
  <2>3. Kind(a) = "null" /\ Kind(b) = "null" => natural_cmp(a, b) = 0
      BY DEF natural_cmp, IsNumber, Rank, Sign
  <2> QED BY <1>4, <2>1, <2>2, <2>3
<1> QED BY <1>2, <1>3, <1>4

\* ==, the order of SORT, <, the keys of UNIQUE and those of the grouping words
\* agree on any two values, whatever they hold and however deep they are, but for
\* the keys of 0 and -0.0.
LEMMA ValuesAgree ==
    ASSUME NEW V, ComparableSet(V), NEW a \in V, NEW b \in V
    PROVE  /\ values_equal(a, b) = values_equal(b, a)
           /\ natural_cmp(a, b) = -natural_cmp(b, a)
           /\ values_equal(a, b) => natural_cmp(a, b) = 0 /\ Truthy(a) = Truthy(b)
           /\ Scalar(a) /\ Scalar(b) =>
                 /\ SameKey(a, b) <=> values_equal(a, b) /\ SameZero(a, b)
                 /\ values_equal(a, b) <=> natural_cmp(a, b) = 0
                 /\ SameKey(a, b) => value_to_key_string(a) = value_to_key_string(b)
                 /\ LessThan(a, b) <=> /\ natural_cmp(a, b) = -1
                                       /\ Kind(a) = Kind(b) \/ (IsNumber(a) /\ IsNumber(b))
                                       /\ Kind(a) # "bool"
<1>1. Canonical(a) /\ Canonical(b)  BY DEF ComparableSet
<1>2. values_equal(a, b) = values_equal(b, a)
  <2>1. values_equal(a, b) \in BOOLEAN /\ values_equal(b, a) \in BOOLEAN  BY DEF values_equal
  <2>2. values_equal(a, b) => values_equal(b, a)  BY EqualSwaps
  <2>3. values_equal(b, a) => values_equal(a, b)  BY EqualSwaps
  <2> QED BY <2>1, <2>2, <2>3
<1>3. values_equal(a, b) => Matches(a, b)
  <2>1. \E C : values_equal(a, b) <=>
                  /\ Matches(a, b)
                  /\ Opposite(a, b) # {} => AllMatch(C[MaxNesting])
      BY EqualLayers
  <2> QED BY <2>1
<1>4. values_equal(a, b) => natural_cmp(a, b) = 0 /\ Truthy(a) = Truthy(b)
    BY <1>1, <1>3, EqualsTie
<1>5. ASSUME Scalar(a), Scalar(b)
      PROVE  /\ SameKey(a, b) <=> values_equal(a, b) /\ SameZero(a, b)
             /\ values_equal(a, b) <=> natural_cmp(a, b) = 0
             /\ SameKey(a, b) => value_to_key_string(a) = value_to_key_string(b)
  <2>1. Opposite(a, b) = {}
    <3>1. Kind(a) \in {"null", "bool", "int", "float", "negzero", "string"}  BY <1>1, <1>5, ScalarIs
    <3> QED BY <3>1 DEF Opposite
  <2>2. \E C : values_equal(a, b) <=>
                  /\ Matches(a, b)
                  /\ Opposite(a, b) # {} => AllMatch(C[MaxNesting])
      BY EqualLayers
  <2>3. values_equal(a, b) <=> Matches(a, b)  BY <2>1, <2>2
  <2>4. Matches(a, b) <=> natural_cmp(a, b) = 0  BY <1>1, <1>5, EqualsTie, TiesMatch
  <2>5. SameKey(a, b) <=> natural_cmp(a, b) = 0 /\ SameZero(a, b)
      BY <1>1, <1>5, ScalarIs, TiesShareAKey DEF SameKey
  <2>6. Matches(a, b) /\ SameZero(a, b) => value_to_key_string(a) = value_to_key_string(b)
      BY <1>1, <1>5, MatchesShareAText
  <2> QED BY <2>3, <2>4, <2>5, <2>6
<1> QED BY <1>1, <1>2, <1>4, <1>5, CompareSwaps, LessIsBefore

\* No zero of either sign beside one of the other among these values.
OneZeroIn(V) == \A x, y \in V : values_equal(x, y) => SameZero(x, y)

\* Among them the key of UNIQUE is == on scalars.
LEMMA KeysAreEqual ==
    ASSUME NEW V, ComparableSet(V), OneZeroIn(V)
    PROVE  \A x, y \in V : Scalar(x) /\ Scalar(y) => (values_equal(x, y) <=> SameKey(x, y))
<1> TAKE x, y \in V
<1>1. Scalar(x) /\ Scalar(y) => (SameKey(x, y) <=> values_equal(x, y) /\ SameZero(x, y))
    BY ValuesAgree
<1> QED BY <1>1 DEF OneZeroIn

\* == goes along a chain of scalars.
LEMMA EqualsChain ==
    ASSUME NEW V, ComparableSet(V), NEW x \in V, Scalar(x), NEW y \in V, Scalar(y),
           NEW z \in V, Scalar(z), values_equal(x, y), values_equal(y, z)
    PROVE  values_equal(x, z)
<1> DEFINE S == {x, y, z}
<1>1. \A v \in S : Sortable(v)
  <2>1. \A v \in V : Canonical(v)  BY DEF ComparableSet
  <2> QED BY <2>1, ScalarIs DEF Keyable
<1>2. natural_cmp(x, y) = 0 /\ natural_cmp(y, z) = 0  BY ValuesAgree
<1>3. x \in S /\ y \in S /\ z \in S  OBVIOUS
<1> HIDE DEF S
<1>4. natural_cmp(x, z) = 0  BY <1>1, <1>2, <1>3, SortOrder
<1> QED BY <1>4, ValuesAgree

\* Values that are comparable each are so in one set.
LEMMA ComparableTogether ==
    ASSUME NEW S, \A v \in S : Comparable(v)
    PROVE  \E V : S \subseteq V /\ ComparableSet(V)
<1> DEFINE Of(v) == CHOOSE V : v \in V /\ ComparableSet(V)
           V == UNION {Of(v) : v \in S}
<1>1. \A v \in S : v \in Of(v) /\ ComparableSet(Of(v))  BY DEF Comparable
<1> HIDE DEF Of
<1>2. S \subseteq V  BY <1>1
<1>3. ComparableSet(V)
  <2> SUFFICES ASSUME NEW w \in V
               PROVE  Canonical(w) /\ \A i \in 1..Len(Elements(w)) : Elements(w)[i] \in V
      BY DEF ComparableSet
  <2>1. PICK v \in S : w \in Of(v)  OBVIOUS
  <2>2. Canonical(w) /\ \A i \in 1..Len(Elements(w)) : Elements(w)[i] \in Of(v)
      BY <1>1, <2>1 DEF ComparableSet
  <2> QED BY <2>2
<1> HIDE DEF V
<1> QED BY <1>2, <1>3

\* A stack of such values.
ComparableStack(s) == IsSequence(s) /\ \A i \in 1..Len(s) : Comparable(s[i])

\* What is on a comparable stack, or in what is on it, is comparable.
LEMMA ValuesComparable ==
    ASSUME ComparableStack(stack), NEW v \in Values
    PROVE  Comparable(v)
<1>1. \A w \in ToSet(stack) : Comparable(w)
  <2>1. ToSet(stack) = {stack[i] : i \in 1..Len(stack)}
    <3>1. DOMAIN stack = 1..Len(stack)  BY SequenceIs DEF ComparableStack
    <3> QED BY <3>1 DEF ToSet
  <2> QED BY <2>1 DEF ComparableStack
<1>2. CASE v \in ToSet(stack)  BY <1>1, <1>2
<1>3. CASE v \notin ToSet(stack)
  <2>1. PICK w \in ToSet(stack) : v \in ToSet(Elements(w))  BY <1>3 DEF Values
  <2>2. PICK V : w \in V /\ ComparableSet(V)  BY <1>1 DEF Comparable
  <2>3. Shaped(w) /\ \A i \in 1..Len(Elements(w)) : Elements(w)[i] \in V
      BY <2>2 DEF ComparableSet, Canonical
  <2>4. \A i \in DOMAIN Elements(w) : i \in 1..Len(Elements(w))
    <3>1. CASE Kind(w) = "array"
      <4>1. Elements(w) = w[2] /\ IsSequence(w[2])
          BY <2>3, <3>1 DEF Elements, Shaped, IsContainer
      <4> QED BY <4>1, SequenceIs
    <3>2. CASE Kind(w) = "record"
      <4>1. Elements(w) = [i \in 1..Len(w[2]) |-> w[2][i][2]] /\ Len(w[2]) \in Nat
          BY <2>3, <3>2 DEF Elements, Shaped, IsContainer, IsSequence
      <4> QED BY <4>1
    <3>3. CASE Kind(w) \notin {"array", "record"}
      <4>1. Elements(w) = <<>>  BY <3>3 DEF Elements
      <4> QED BY <4>1
    <3> QED BY <3>1, <3>2, <3>3
  <2>5. v \in V  BY <2>1, <2>3, <2>4 DEF ToSet
  <2> QED BY <2>2, <2>5 DEF Comparable
<1> QED BY <1>2, <1>3

\* On any stack of values, of any size and depth, the five notions of equality
\* and order are one: == does not care for the order of its arguments, values
\* that are == are ties of SORT, and on scalars the key of UNIQUE is == but for
\* 0 and -0.0, which it keeps apart.
THEOREM EqualityIsOne ==
    ASSUME ComparableStack(stack)
    PROVE  OneNotionOfEquality
<1>1. \A v \in Values : Comparable(v)  BY ValuesComparable
<1>2. PICK V : Values \subseteq V /\ ComparableSet(V)  BY <1>1, ComparableTogether
<1> SUFFICES ASSUME NEW a \in Values, NEW b \in Values
             PROVE  /\ values_equal(a, b) = values_equal(b, a)
                    /\ natural_cmp(a, b) = -natural_cmp(b, a)
                    /\ values_equal(a, b) => natural_cmp(a, b) = 0 /\ Truthy(a) = Truthy(b)
                    /\ Scalar(a) /\ Scalar(b) =>
                          /\ SameKey(a, b) <=> values_equal(a, b) /\ SameZero(a, b)
                          /\ values_equal(a, b) <=> natural_cmp(a, b) = 0
                          /\ SameKey(a, b) =>
                                value_to_key_string(a) = value_to_key_string(b)
                          /\ LessThan(a, b) <=>
                                /\ natural_cmp(a, b) = -1
                                /\ Kind(a) = Kind(b) \/ (IsNumber(a) /\ IsNumber(b))
                                /\ Kind(a) # "bool"
    BY DEF OneNotionOfEquality
<1>3. a \in V /\ b \in V  BY <1>2
<1> QED BY <1>2, <1>3, ValuesAgree

\* Stacks of comparable values are stacks over one set of them.
LEMMA ComparableOver ==
    ASSUME NEW s
    PROVE  ComparableStack(s) <=> \E V : Over(s, V) /\ \A v \in V : Comparable(v)
<1>1. ASSUME ComparableStack(s)
      PROVE  \E V : Over(s, V) /\ \A v \in V : Comparable(v)
  <2> DEFINE V == {s[i] : i \in 1..Len(s)}
  <2>1. Over(s, V)  BY <1>1 DEF Over, ComparableStack
  <2>2. \A v \in V : Comparable(v)  BY <1>1 DEF ComparableStack
  <2> QED BY <2>1, <2>2
<1>2. ASSUME NEW V, Over(s, V), \A v \in V : Comparable(v) PROVE ComparableStack(s)
    BY <1>2 DEF Over, ComparableStack
<1> QED BY <1>1, <1>2

\* Popping.
LEMMA ComparablePop ==
    ASSUME NEW s, ComparableStack(s), NEW n \in 0..3, n <= Len(s)
    PROVE  /\ ComparableStack(Rest(s, n)) /\ ComparableStack(Args(s, n))
           /\ \A i \in 1..n : Comparable(Args(s, n)[i]) /\ Canonical(Args(s, n)[i])
<1>1. PICK V : Over(s, V) /\ \A v \in V : Comparable(v)  BY ComparableOver
<1>2. /\ Over(Rest(s, n), V) /\ Over(Args(s, n), V)
      /\ \A i \in 1..n : Args(s, n)[i] \in V
    BY <1>1, PopOver
<1>3. \A v : Comparable(v) => Canonical(v)  BY DEF Comparable, ComparableSet
<1> QED BY <1>1, <1>2, <1>3, ComparableOver

\* Pushing.
LEMMA ComparablePush ==
    ASSUME NEW s, ComparableStack(s), NEW t, ComparableStack(t)
    PROVE  ComparableStack(s \o t)
<1>1. PICK V : Over(s, V) /\ \A v \in V : Comparable(v)  BY ComparableOver
<1>2. PICK W : Over(t, W) /\ \A v \in W : Comparable(v)  BY ComparableOver
<1>3. Over(s, V \cup W) /\ Over(t, V \cup W)  BY <1>1, <1>2 DEF Over
<1>4. Over(s \o t, V \cup W)  BY <1>3, PushOver
<1>5. \A v \in V \cup W : Comparable(v)  BY <1>1, <1>2
<1> QED BY <1>4, <1>5, ComparableOver

\* A stack of one value.
LEMMA ComparableOne ==
    ComparableStack(<<>>) /\ \A v : Comparable(v) => ComparableStack(<<v>>)
<1>1. Over(<<>>, {})  BY FewOver
<1>2. ASSUME NEW v, Comparable(v) PROVE ComparableStack(<<v>>)
  <2>1. v \in {v}  OBVIOUS
  <2>2. Over(<<v>>, {v})  BY <2>1, FewOver
  <2>3. \A w \in {v} : Comparable(w)  BY <1>2
  <2> QED BY <2>2, <2>3, ComparableOver
<1>3. ComparableStack(<<>>)  BY <1>1, ComparableOver
<1> QED BY <1>2, <1>3

\* A stack of two values.
LEMMA ComparableTwo ==
    ASSUME NEW v, Comparable(v), NEW w, Comparable(w)
    PROVE  ComparableStack(<<v, w>>)
<1>1. Over(<<v, w>>, {v, w})  BY FewOver
<1>2. \A x \in {v, w} : Comparable(x)  OBVIOUS
<1> QED BY <1>1, <1>2, ComparableOver

\* After a word: the stack is empty, its arguments are gone, or its results
\* stand in their place.
ComparableAfter(s, n, after) ==
    \/ after = <<>>
    \/ n <= Len(s) /\ after = Rest(s, n)
    \/ n <= Len(s) /\ \E outs : ComparableStack(outs) /\ after = Rest(s, n) \o outs

\* In each case the stack is comparable again.
LEMMA StaysComparable ==
    ASSUME NEW s, ComparableStack(s), NEW n \in 0..3, NEW after, ComparableAfter(s, n, after)
    PROVE  ComparableStack(after)
<1>1. n <= Len(s) => ComparableStack(Rest(s, n))  BY ComparablePop
<1> QED BY <1>1, ComparableOne, ComparablePush DEF ComparableAfter

-----------------------------------------------------------------------------
\* Programs that compare.

\* Truth values are comparable.
Answers == {Bool(TRUE), Bool(FALSE)}

\* They are, and null.
LEMMA PlainComparable ==
    \A v \in Answers \cup {Nil} : Comparable(v)
<1> SUFFICES ASSUME NEW v \in Answers \cup {Nil} PROVE Comparable(v)  OBVIOUS
<1>1. Kind(v) \in {"bool", "null"} /\ (Kind(v) = "bool" => v[2] \in BOOLEAN)
  <2>1. \A x \in BOOLEAN : Kind(Bool(x)) = "bool" /\ Bool(x)[2] = x  BY DEF Bool, Kind
  <2>2. Kind(Nil) = "null"  BY DEF Nil, Kind
  <2>3. CASE v = Nil  BY <2>2, <2>3
  <2>4. CASE v = Bool(TRUE)  BY <2>1, <2>4
  <2>5. CASE v = Bool(FALSE)  BY <2>1, <2>5
  <2> QED BY <2>3, <2>4, <2>5 DEF Answers
<1>0. Canonical(v)
  <2>1. CASE v = Nil
    <3>1. v = <<"null", 0>> /\ v[1] = "null" /\ v[2] = 0  BY <2>1 DEF Nil
    <3>2. Kind(v) = "null"  BY <3>1 DEF Kind
    <3> QED BY <3>1, <3>2 DEF Canonical, Shaped, InWidth, IsContainer
  <2>2. CASE v \in Answers
    <3>1. PICK x : x \in BOOLEAN /\ v = <<"bool", x>>  BY <2>2 DEF Answers, Bool
    <3>2. v[1] = "bool" /\ v[2] = x  BY <3>1
    <3>3. v = <<v[1], v[2]>>  BY <3>1, <3>2, Zenon
    <3> QED BY <3>1, <3>2, <3>3 DEF Canonical, Shaped, InWidth, IsContainer, Kind
  <2> QED BY <2>1, <2>2
<1>2. Elements(v) = <<>>  BY <1>1 DEF Elements
<1>3. Len(Elements(v)) = 0  BY <1>2
<1>4. ComparableSet({v})  BY <1>0, <1>3 DEF ComparableSet
<1> QED BY <1>4 DEF Comparable

\* The options that ~> makes: words only take them apart.
LEMMA OptionsComparable ==
    ASSUME NEW pairs
    PROVE  Comparable(Options(pairs))
<1> DEFINE v == Options(pairs)
<1>1. v = <<"options", pairs>> /\ v[1] = "options" /\ v[2] = pairs  BY DEF Options
<1>2. Canonical(v)  BY <1>1 DEF Canonical, Shaped, InWidth, Kind, IsContainer
<1>3. Elements(v) = <<>>  BY <1>1 DEF Elements, Kind
<1> HIDE DEF v
<1>4. Len(Elements(v)) = 0  BY <1>3
<1>5. ComparableSet({v})  BY <1>2, <1>4 DEF ComparableSet
<1> QED BY <1>5 DEF Comparable, v

\* What the words that ask a question answer, when they do not fail.
LEMMA WordsAnswer ==
    ASSUME NEW a, NEW b
    PROVE  /\ {Equal(a, b), NotEqual(a, b), Less(a, b), LessEq(a, b), More(a, b), MoreEq(a, b),
               XorOf(a, b), NandOf(a, b), ContainsQ(a, b), AnyIn(a, b), AllIn(a, b)}
                 \subseteq Answers
           /\ \A v \in {OrOf(a, b), AndOf(a, b)} : Failed(v) \/ v \in Answers
<1> USE DEF Answers
<1>1. \A x : x \in BOOLEAN => Bool(x) \in Answers  OBVIOUS
<1>2. /\ values_equal(a, b) \in BOOLEAN /\ values_equal(b, a) \in BOOLEAN
    BY DEF values_equal
<1>3. LessThan(a, b) \in BOOLEAN /\ LessThan(b, a) \in BOOLEAN
  <2>1. \A x, y : LessThan(x, y) \in BOOLEAN
    <3> TAKE x, y
    <3>1. CASE Both(x, y, "int")
      <4>1. LessThan(x, y) = (x[2] < y[2])  BY <3>1 DEF LessThan, Both, IsNumber
      <4>2. (x[2] < y[2]) \in BOOLEAN  OBVIOUS
      <4> QED BY <4>1, <4>2
    <3>2. CASE Both(x, y, "string")
      <4>1. LessThan(x, y) = StringLess(x[2], y[2])  BY <3>2 DEF LessThan, Both, IsNumber
      <4>2. StringLess(x[2], y[2]) \in BOOLEAN  BY DEF StringLess
      <4> QED BY <4>1, <4>2
    <3>3. CASE IsNumber(x) /\ IsNumber(y) /\ ~Both(x, y, "int")
      <4>1. LessThan(x, y) = (NaN \notin {x, y} /\ AsF64(x) < AsF64(y))
          BY <3>3 DEF LessThan, Both, IsNumber
      <4> QED BY <4>1
    <3>4. CASE /\ ~Both(x, y, "int") /\ ~Both(x, y, "string")
               /\ ~(IsNumber(x) /\ IsNumber(y))
      <4>1. LessThan(x, y) = FALSE  BY <3>4 DEF LessThan
      <4> QED BY <4>1
    <3> QED BY <3>1, <3>2, <3>3, <3>4
  <2> QED BY <2>1
<1> USE <1>1, <1>2, <1>3
<1> HIDE DEF Answers
<1>4. /\ Equal(a, b) \in Answers /\ NotEqual(a, b) \in Answers
      /\ Less(a, b) \in Answers /\ More(a, b) \in Answers
    BY DEF Equal, NotEqual, Less, More
<1>5. LessEq(a, b) \in Answers /\ MoreEq(a, b) \in Answers  BY DEF LessEq, MoreEq, AtMost
<1>6. XorOf(a, b) \in Answers /\ NandOf(a, b) \in Answers  BY DEF XorOf, NandOf
<1>7. ContainsQ(a, b) \in Answers /\ AnyIn(a, b) \in Answers /\ AllIn(a, b) \in Answers
    BY DEF ContainsQ, AnyIn, AllIn
<1>8. \A v : Failed(NoArray(a, b, v)) \/ NoArray(a, b, v) = Bool(v)
    BY DEF NoArray, Failed, Fail
<1>9. \A v \in {OrOf(a, b), AndOf(a, b)} : Failed(v) \/ v \in Answers
  <2>1. \A x \in BOOLEAN : Failed(NoArray(a, b, x)) \/ NoArray(a, b, x) \in Answers  BY <1>8
  <2> HIDE DEF NoArray
  <2> DEFINE either == Truthy(a) \/ Truthy(b)
             both == Truthy(a) /\ Truthy(b)
  <2>2. either \in BOOLEAN /\ both \in BOOLEAN  OBVIOUS
  <2>3. OrOf(a, b) = NoArray(a, b, either) /\ AndOf(a, b) = NoArray(a, b, both)
      BY DEF OrOf, AndOf
  <2> HIDE DEF either, both
  <2> QED BY <2>1, <2>2, <2>3
<1> QED BY <1>4, <1>5, <1>6, <1>7, <1>9

\* The same for the words of one argument.
LEMMA WordAnswers ==
    ASSUME NEW a, Canonical(a)
    PROVE  /\ {NotOf(a), ToBool(a), IsNull(a), IsEmpty(a), IsString(a), IsNum(a),
               IsRecord(a), IsArray(a)} \subseteq Answers
           /\ \A v \in {AnyQ(a), AllQ(a)} : Failed(v) \/ v \in Answers
<1>1. \A x : x \in BOOLEAN => Bool(x) \in Answers  BY DEF Answers
<1>2. Truthy(a) \in BOOLEAN
  <2>1. CASE Kind(a) = "bool"  BY <2>1 DEF Truthy, Canonical
  <2>2. CASE Kind(a) # "bool"  BY <2>2 DEF Truthy
  <2> QED BY <2>1, <2>2
<1>3. NotOf(a) \in Answers /\ ToBool(a) \in Answers  BY <1>1, <1>2 DEF NotOf, ToBool
<1>4. /\ IsNull(a) \in Answers /\ IsEmpty(a) \in Answers /\ IsString(a) \in Answers
      /\ IsNum(a) \in Answers /\ IsRecord(a) \in Answers /\ IsArray(a) \in Answers
  <2> DEFINE empty == a \in {Nil, Str(""), EmptyArr, EmptyRec}
             number == Kind(a) \in {"int", "float", "negzero"}
  <2>1. empty \in BOOLEAN /\ number \in BOOLEAN  OBVIOUS
  <2>2. IsEmpty(a) = Bool(empty) /\ IsNum(a) = Bool(number)  BY DEF IsEmpty, IsNum
  <2> HIDE DEF empty, number
  <2>3. IsEmpty(a) \in Answers /\ IsNum(a) \in Answers  BY <1>1, <2>1, <2>2
  <2>4. \A k : (Kind(a) = k) \in BOOLEAN  OBVIOUS
  <2>5. \A k : Bool(Kind(a) = k) \in Answers  BY <1>1, <2>4
  <2> QED BY <2>3, <2>5 DEF IsNull, IsString, IsRecord, IsArray
<1>5. \A v \in {AnyQ(a), AllQ(a)} : Failed(v) \/ v \in Answers
  <2> DEFINE some == \E i \in 1..Len(a[2]) : Truthy(a[2][i])
             every == \A i \in 1..Len(a[2]) : Truthy(a[2][i])
  <2>1. some \in BOOLEAN /\ every \in BOOLEAN  OBVIOUS
  <2>2. AnyQ(a) \in {Fail("InvalidOperation"), Bool(some)}  BY DEF AnyQ
  <2>3. AllQ(a) \in {Fail("InvalidOperation"), Bool(every)}  BY DEF AllQ
  <2> HIDE DEF some, every
  <2>4. Failed(Fail("InvalidOperation"))  BY DEF Failed, Fail
  <2>5. Bool(some) \in Answers /\ Bool(every) \in Answers  BY <1>1, <2>1
  <2> QED BY <2>2, <2>3, <2>4, <2>5
<1> QED BY <1>3, <1>4, <1>5

\* The words of one argument that answer.
LEMMA UnaryAnswers ==
    ASSUME ComparableStack(stack),
           \/ word_not \/ word_to_bool \/ word_any_q \/ word_all_q \/ word_null_q \/ word_empty_q
           \/ word_string_q \/ word_number_q \/ word_record_q \/ word_is_array
    PROVE  ComparableAfter(stack, 1, stack')
<1> DEFINE a == Args(stack, 1)[1]
<1>1. Len(stack) \in Nat  BY DEF ComparableStack, IsSequence
<1>2. 1 <= Len(stack) => Canonical(a)  BY ComparablePop
<1>3. PICK v : /\ v \in {NotOf(a), ToBool(a), IsNull(a), IsEmpty(a), IsString(a), IsNum(a),
                         IsRecord(a), IsArray(a), AnyQ(a), AllQ(a)}
               /\ \/ stack' = <<>>
                  \/ 1 <= Len(stack) /\ stack' = Rest(stack, 1)
                  \/ 1 <= Len(stack) /\ ~Failed(v) /\ stack' = Rest(stack, 1) \o <<v>>
  <2> USE <1>1 DEF Unary, Pops, Fails, Rest, Args
  <2>1. CASE word_not       BY <2>1 DEF word_not
  <2>2. CASE word_to_bool   BY <2>2 DEF word_to_bool
  <2>3. CASE word_any_q     BY <2>3 DEF word_any_q
  <2>4. CASE word_all_q     BY <2>4 DEF word_all_q
  <2>5. CASE word_null_q    BY <2>5 DEF word_null_q
  <2>6. CASE word_empty_q   BY <2>6 DEF word_empty_q
  <2>7. CASE word_string_q  BY <2>7 DEF word_string_q
  <2>8. CASE word_number_q  BY <2>8 DEF word_number_q
  <2>9. CASE word_record_q  BY <2>9 DEF word_record_q
  <2>10. CASE word_is_array BY <2>10 DEF word_is_array
  <2> QED BY <2>1, <2>2, <2>3, <2>4, <2>5, <2>6, <2>7, <2>8, <2>9, <2>10
<1>4. 1 <= Len(stack) /\ ~Failed(v) => v \in Answers  BY <1>2, <1>3, WordAnswers
<1>5. 1 <= Len(stack) /\ ~Failed(v) => ComparableStack(<<v>>)
    BY <1>4, PlainComparable, ComparableOne
<1> QED BY <1>3, <1>5 DEF ComparableAfter

\* The words of two arguments that answer.
LEMMA BinaryAnswers ==
    ASSUME ComparableStack(stack),
           \/ word_equals \/ word_not_equals \/ word_less_than \/ word_less_than_or_equal
           \/ word_greater_than \/ word_greater_than_or_equal \/ word_or \/ word_and
           \/ word_xor \/ word_nand \/ word_contains_q \/ word_any \/ word_all
    PROVE  ComparableAfter(stack, 2, stack')
<1> DEFINE a == Args(stack, 2)[1]
           b == Args(stack, 2)[2]
<1>1. Len(stack) \in Nat  BY DEF ComparableStack, IsSequence
<1>2. PICK v : /\ v \in {Equal(a, b), NotEqual(a, b), Less(a, b), LessEq(a, b), More(a, b),
                         MoreEq(a, b), XorOf(a, b), NandOf(a, b), ContainsQ(a, b),
                         AnyIn(a, b), AllIn(a, b), OrOf(a, b), AndOf(a, b)}
               /\ \/ stack' = <<>>
                  \/ 2 <= Len(stack) /\ stack' = Rest(stack, 2)
                  \/ 2 <= Len(stack) /\ ~Failed(v) /\ stack' = Rest(stack, 2) \o <<v>>
  <2> USE <1>1 DEF Binary, Pops, Fails, Rest, Args
  <2>1. CASE word_equals      BY <2>1 DEF word_equals
  <2>2. CASE word_not_equals  BY <2>2 DEF word_not_equals
  <2>3. CASE word_less_than   BY <2>3 DEF word_less_than
  <2>4. CASE word_less_than_or_equal  BY <2>4 DEF word_less_than_or_equal
  <2>5. CASE word_greater_than        BY <2>5 DEF word_greater_than
  <2>6. CASE word_greater_than_or_equal  BY <2>6 DEF word_greater_than_or_equal
  <2>7. CASE word_or          BY <2>7 DEF word_or
  <2>8. CASE word_and         BY <2>8 DEF word_and
  <2>9. CASE word_xor         BY <2>9 DEF word_xor
  <2>10. CASE word_nand       BY <2>10 DEF word_nand
  <2>11. CASE word_contains_q BY <2>11 DEF word_contains_q
  <2>12. CASE word_any        BY <2>12 DEF word_any
  <2>13. CASE word_all        BY <2>13 DEF word_all
  <2> QED BY <2>1, <2>2, <2>3, <2>4, <2>5, <2>6, <2>7, <2>8, <2>9, <2>10, <2>11, <2>12, <2>13
<1>3. ~Failed(v) => v \in Answers  BY <1>2, WordsAnswer
<1>4. ~Failed(v) => ComparableStack(<<v>>)  BY <1>3, PlainComparable, ComparableOne
<1> QED BY <1>2, <1>4 DEF ComparableAfter

\* The words that choose among their arguments, or move them.
LEMMA ChoosingAfter ==
    ASSUME ComparableStack(stack),
           \/ word_drop \/ word_dup \/ word_swap \/ word_null \/ word_if \/ word_default
           \/ word_to_options
    PROVE  \E n \in 0..3 : ComparableAfter(stack, n, stack')
<1>1. Len(stack) \in Nat  BY DEF ComparableStack, IsSequence
<1>2. \A n \in 0..3 : n <= Len(stack) => \A i \in 1..n : Comparable(Args(stack, n)[i])
    BY ComparablePop
<1>3. ASSUME NEW n \in 0..3, NEW outs,
             n <= Len(stack) => ComparableStack(outs),
             \/ stack' = <<>>
             \/ n <= Len(stack) /\ stack' = Rest(stack, n)
             \/ n <= Len(stack) /\ stack' = Rest(stack, n) \o outs
      PROVE  \E m \in 0..3 : ComparableAfter(stack, m, stack')
  <2>1. ComparableAfter(stack, n, stack')  BY <1>3 DEF ComparableAfter
  <2> QED BY <2>1
<1>4. ASSUME NEW n \in 0..3, NEW out,
             n <= Len(stack) => Comparable(out),
             \/ stack' = <<>>
             \/ n <= Len(stack) /\ stack' = Rest(stack, n)
             \/ n <= Len(stack) /\ stack' = Rest(stack, n) \o <<out>>
      PROVE  \E m \in 0..3 : ComparableAfter(stack, m, stack')
  <2>1. n <= Len(stack) => ComparableStack(<<out>>)  BY <1>4, ComparableOne
  <2> QED BY <1>3, <1>4, <2>1
<1> DEFINE A(n, i) == Args(stack, n)[i]
<1>5. /\ 1 <= Len(stack) => Comparable(A(1, 1))
      /\ 2 <= Len(stack) => Comparable(A(2, 1)) /\ Comparable(A(2, 2))
      /\ 3 <= Len(stack) => Comparable(A(3, 2)) /\ Comparable(A(3, 3))
    BY <1>2
<1>6. CASE word_drop
  <2>1. \/ stack' = <<>>
        \/ 1 <= Len(stack) /\ stack' = Rest(stack, 1)
        \/ 1 <= Len(stack) /\ stack' = Rest(stack, 1) \o <<>>
      BY <1>6 DEF word_drop, Pops, Fails, Rest, Args
  <2> QED BY <1>3, <2>1, ComparableOne
<1>7. CASE word_dup
  <2>1. \/ stack' = <<>>
        \/ 1 <= Len(stack) /\ stack' = Rest(stack, 1)
        \/ 1 <= Len(stack) /\ stack' = Rest(stack, 1) \o (Args(stack, 1) \o Args(stack, 1))
      BY <1>1, <1>7 DEF word_dup, Pops, Fails, Rest, Args
  <2>2. 1 <= Len(stack) => ComparableStack(Args(stack, 1) \o Args(stack, 1))
      BY ComparablePop, ComparablePush
  <2>3. ComparableAfter(stack, 1, stack')  BY <2>1, <2>2 DEF ComparableAfter
  <2> QED BY <2>3
<1>8. CASE word_swap
  <2> DEFINE outs == <<A(2, 2), A(2, 1)>>
  <2>1. \/ stack' = <<>>
        \/ 2 <= Len(stack) /\ stack' = Rest(stack, 2)
        \/ 2 <= Len(stack) /\ stack' = Rest(stack, 2) \o outs
      BY <1>1, <1>8 DEF word_swap, Pops, Fails, Rest, Args
  <2>2. 2 <= Len(stack) => ComparableStack(outs)  BY <1>5, ComparableTwo
  <2> HIDE DEF outs
  <2>3. ComparableAfter(stack, 2, stack')  BY <2>1, <2>2 DEF ComparableAfter
  <2> QED BY <2>3
<1>9. CASE word_null
  <2>1. \/ stack' = <<>>
        \/ 0 <= Len(stack) /\ stack' = Rest(stack, 0)
        \/ 0 <= Len(stack) /\ stack' = Rest(stack, 0) \o <<Nil>>
      BY <1>1, <1>9 DEF word_null, Pops, Fails, Rest, Args
  <2> QED BY <1>4, <2>1, PlainComparable
<1>10. CASE word_if
  <2> DEFINE out == If(A(3, 1), A(3, 2), A(3, 3))
  <2>1. \/ stack' = <<>>
        \/ 3 <= Len(stack) /\ stack' = Rest(stack, 3)
        \/ 3 <= Len(stack) /\ stack' = Rest(stack, 3) \o <<out>>
      BY <1>1, <1>10 DEF word_if, Ternary, Pops, Fails, Rest, Args
  <2>2. out \in {A(3, 2), A(3, 3)}  BY DEF If
  <2>3. 3 <= Len(stack) => Comparable(out)  BY <1>5, <2>2
  <2> HIDE DEF out, A
  <2> QED BY <1>4, <2>1, <2>3
<1>11. CASE word_default
  <2> DEFINE out == DefaultOf(A(2, 1), A(2, 2))
  <2>1. \/ stack' = <<>>
        \/ 2 <= Len(stack) /\ stack' = Rest(stack, 2)
        \/ 2 <= Len(stack) /\ stack' = Rest(stack, 2) \o <<out>>
      BY <1>1, <1>11 DEF word_default, Binary, Pops, Fails, Rest, Args
  <2>2. out \in {A(2, 1), A(2, 2)}  BY DEF DefaultOf
  <2>3. 2 <= Len(stack) => Comparable(out)  BY <1>5, <2>2
  <2> HIDE DEF out, A
  <2> QED BY <1>4, <2>1, <2>3
<1>12. CASE word_to_options
  <2> DEFINE out == ToOptions(A(1, 1))
  <2>1. \/ stack' = <<>>
        \/ 1 <= Len(stack) /\ stack' = Rest(stack, 1)
        \/ 1 <= Len(stack) /\ stack' = Rest(stack, 1) \o <<out>>
      BY <1>1, <1>12 DEF word_to_options, Unary, Pops, Fails, Rest, Args
  <2>2. Comparable(out)  BY PlainComparable, OptionsComparable DEF ToOptions
  <2> HIDE DEF out
  <2> QED BY <1>4, <2>1, <2>2
<1> QED BY <1>6, <1>7, <1>8, <1>9, <1>10, <1>11, <1>12

\* Programs of the boolean and the core module keep values comparable.
THEOREM ComparingKeepsValues ==
    ASSUME \A s \in Stacks : ComparableStack(s)
    PROVE  ComparingSpec => []ComparableStack(stack)
<1>1. Init => ComparableStack(stack)  BY DEF Init
<1>2. ComparableStack(stack) /\ [ComparingWord]_vars => ComparableStack(stack)'
  <2> SUFFICES ASSUME ComparableStack(stack), [ComparingWord]_vars
               PROVE  ComparableStack(stack')
      BY DEF ComparableStack, Comparable
  <2>1. CASE UNCHANGED vars  BY <2>1 DEF vars
  <2>2. CASE ComparingWord
    <3>1. \E n \in 0..3 : ComparableAfter(stack, n, stack')
        BY <2>2, UnaryAnswers, BinaryAnswers, ChoosingAfter
        DEF ComparingWord, BooleanWord, CoreWord
    <3> QED BY <3>1, StaysComparable
  <2> QED BY <2>1, <2>2
<1> QED BY <1>1, <1>2, PTL DEF ComparingSpec

\* The five notions of equality and order agree in every state of a program of
\* these words, whatever values it begins with.
THEOREM ComparingAgrees ==
    ASSUME \A s \in Stacks : ComparableStack(s)
    PROVE  ComparingSpec => []OneNotionOfEquality
<1>1. ComparableStack(stack) => OneNotionOfEquality  BY EqualityIsOne
<1> QED BY <1>1, ComparingKeepsValues, PTL

\* A record that holds nothing but records with entries is a table.
LEMMA NestedIsTable ==
    ASSUME NEW r, Tidy(r), Kind(r) = "record",
           \A k \in 1..Size(r) : Kind(r[2][k][2]) = "record" /\ Size(r[2][k][2]) > 0
    PROVE  Table(r[2])
<1>1. PICK V : r \in V /\ TidySet(V)  BY DEF Tidy
<1>2. Record(r)  BY <1>1 DEF TidySet, Whole
<1>3. r = Rec(r[2]) /\ Len(r[2]) \in Nat /\ OneEntryEach(r[2])  BY <1>2, RecordIs DEF Record
<1>4. ASSUME NEW k \in 1..Len(r[2])
      PROVE  Record(r[2][k][2]) /\ \E b : Has(r[2][k][2][2], b)
  <2>1. Kind(r[2][k][2]) = "record" /\ Size(r[2][k][2]) > 0  BY DEF Size
  <2>2. Elements(r) = [i \in 1..Len(r[2]) |-> r[2][i][2]]  BY DEF Elements
  <2>3. Len(Elements(r)) = Len(r[2]) /\ Elements(r)[k] = r[2][k][2]  BY <1>3, <2>2
  <2>4. \A i \in 1..Len(Elements(r)) : Elements(r)[i] \in V  BY <1>1 DEF TidySet
  <2>5. r[2][k][2] \in V  BY <2>3, <2>4
  <2>6. Record(r[2][k][2])  BY <1>1, <2>1, <2>5 DEF TidySet, Whole
  <2>7. Len(r[2][k][2][2]) \in Nat /\ Len(r[2][k][2][2]) > 0  BY <2>1, <2>6, RecordIs DEF Size
  <2>8. 1 \in 1..Len(r[2][k][2][2])  BY <2>7
  <2> QED BY <2>6, <2>8 DEF Has
<1>5. ASSUME NEW a, Has(r[2], a)
      PROVE  Record(Get(r[2], a)) /\ \E b : Has(Get(r[2], a)[2], b)
  <2>1. PICK k \in 1..Len(r[2]) : r[2][k][1] = a  BY <1>5 DEF Has
  <2>2. Get(r[2], a) = r[2][k][2]  BY <1>3, <2>1, GetIs
  <2> QED BY <1>4, <2>2
<1> QED BY <1>2, <1>3, <1>5 DEF Table

\* Whatever is on the stack, the words that take records apart have words that
\* put them together again.
THEOREM RoundTripsHold == TidyStack(stack) => RecordsRoundTrip
<1> SUFFICES ASSUME TidyStack(stack), NEW i \in 1..Len(stack), Kind(stack[i]) = "record"
             PROVE  LET r   == stack[i]
                        arg == IF i < Len(stack) THEN stack[i + 1] ELSE EmptyArr
                        names == KeysWord(r)
                        other == ReverseOf(names)
                        Nested(v) == Kind(v) = "record" /\ Size(v) > 0
                    IN  /\ EntriesToRec(RecToEntries(r)) = r /\ RecOf(RecToEntries(r)) = r
                        /\ ZipOf(names, ValuesWord(r)) = RecToEntries(r)
                        /\ RelabelOf(RelabelOf(r, names, other), other, names) = r
                        /\ values_equal(r, r) =>
                              /\ values_equal(MergeOf(PickOf(r, arg), OmitOf(r, arg)), r)
                              /\ (\A k \in 1..Size(r) : Nested(r[2][k][2])) =>
                                    values_equal(InvertKeys(InvertKeys(r)), r)
                        /\ IsScalar(arg) => /\ ~HasKeyOf(DeleteOf(r, arg), arg)[2]
                                            /\ DeleteOf(r, arg) = OmitOf(r, Arr(<<arg>>))
    BY Zenon DEF RecordsRoundTrip
<1> DEFINE r   == stack[i]
           arg == IF i < Len(stack) THEN stack[i + 1] ELSE EmptyArr
<1>1. Tidy(r) /\ Len(stack) \in Nat  BY DEF TidyStack, IsSequence
<1>2. Record(r)  BY <1>1 DEF Tidy, TidySet, Whole
<1>3. Whole(arg)
  <2>1. CASE i < Len(stack)
    <3>1. i + 1 \in 1..Len(stack) /\ arg = stack[i + 1]  BY <1>1, <2>1
    <3>2. Tidy(stack[i + 1])  BY <3>1 DEF TidyStack
    <3> QED BY <3>1, <3>2 DEF Tidy, TidySet
  <2>2. CASE ~(i < Len(stack))
    <3>1. arg = EmptyArr  BY <2>2
    <3> QED BY <3>1 DEF Whole, EmptyArr, Arr, Kind, IsSequence
  <2> QED BY <2>1, <2>2
<1>4. Kind(r) = "record"  OBVIOUS
<1> HIDE DEF r, arg
<1>5. EntriesToRec(RecToEntries(r)) = r /\ RecOf(RecToEntries(r)) = r
    BY <1>2, EntriesRebuildRecord, EntriesMakeRecord
<1>6. ZipOf(KeysWord(r), ValuesWord(r)) = RecToEntries(r)  BY <1>2, NamesWithValues
<1>7. RelabelOf(RelabelOf(r, KeysWord(r), ReverseOf(KeysWord(r))),
                ReverseOf(KeysWord(r)), KeysWord(r)) = r
    BY <1>2, RelabelBack
<1>8. values_equal(r, r) => values_equal(MergeOf(PickOf(r, arg), OmitOf(r, arg)), r)
    BY <1>2, <1>3, PickWithOmit
<1>9. values_equal(r, r) /\ (\A k \in 1..Size(r) : Kind(r[2][k][2]) = "record"
                                                   /\ Size(r[2][k][2]) > 0)
      => values_equal(InvertKeys(InvertKeys(r)), r)
    BY <1>1, <1>2, <1>4, NestedIsTable, InvertedTwice
<1>10. IsScalar(arg) => /\ ~HasKeyOf(DeleteOf(r, arg), arg)[2]
                        /\ DeleteOf(r, arg) = OmitOf(r, Arr(<<arg>>))
    BY <1>2, DeletedKeyIsGone
<1> QED BY ONLY <1>5, <1>6, <1>7, <1>8, <1>9, <1>10, Zenon DEF r, arg

(***************************************************************************)
(* Programs that shape containers keep them whole.                         *)
(***************************************************************************)
\* The elements of a container, as a sequence.
LEMMA ElementsAre ==
    ASSUME NEW v, Whole(v)
    PROVE  /\ IsSequence(Elements(v))
           /\ Kind(v) = "array"  => Elements(v) = v[2]
           /\ Kind(v) = "record" => /\ Len(Elements(v)) = Len(v[2])
                                    /\ \A i \in 1..Len(v[2]) : Elements(v)[i] = v[2][i][2]
<1>1. CASE Kind(v) = "array"  BY <1>1 DEF Whole, Elements
<1>2. CASE Kind(v) = "record"
  <2>1. Len(v[2]) \in Nat  BY <1>2, RecordIs DEF Whole
  <2> DEFINE s == Elements(v)
  <2>2. s = [i \in 1..Len(v[2]) |-> v[2][i][2]]  BY <1>2 DEF Elements
  <2>3. Len(s) = Len(v[2]) /\ s = [i \in 1..Len(s) |-> s[i]]  BY <2>1, <2>2
  <2>4. IsSequence(s)  BY <2>1, <2>3 DEF IsSequence
  <2> QED BY <1>2, <2>1, <2>2, <2>3, <2>4
<1>3. CASE Kind(v) \notin {"array", "record"}
  <2>1. Elements(v) = <<>>  BY <1>3 DEF Elements
  <2> QED BY <1>3, <2>1 DEF IsSequence
<1> QED BY <1>1, <1>2, <1>3

\* The elements of a tidy value are tidy.
LEMMA TidyParts ==
    ASSUME NEW v, Tidy(v)
    PROVE  /\ Whole(v) /\ IsSequence(Elements(v))
           /\ \A i \in 1..Len(Elements(v)) : Tidy(Elements(v)[i])
<1> PICK V : v \in V /\ TidySet(V)  BY DEF Tidy
<1>1. Whole(v) /\ \A i \in 1..Len(Elements(v)) : Elements(v)[i] \in V  BY DEF TidySet
<1> QED BY <1>1, ElementsAre DEF Tidy

\* A whole value with tidy elements is tidy.
LEMMA TidyBuilt ==
    ASSUME NEW v, Whole(v), \A i \in 1..Len(Elements(v)) : Tidy(Elements(v)[i])
    PROVE  Tidy(v)
<1> DEFINE I == 1..Len(Elements(v))
           Of(x) == CHOOSE V : x \in V /\ TidySet(V)
           W == {v} \cup UNION {Of(Elements(v)[i]) : i \in I}
<1>1. \A i \in I : Elements(v)[i] \in Of(Elements(v)[i]) /\ TidySet(Of(Elements(v)[i]))
    BY DEF Tidy
<1> HIDE DEF Of
<1>2. ASSUME NEW w \in W
      PROVE  Whole(w) /\ \A i \in 1..Len(Elements(w)) : Elements(w)[i] \in W
  <2>1. CASE w = v  BY <2>1, <1>1
  <2>2. CASE w # v
    <3>1. PICK i \in I : w \in Of(Elements(v)[i])  BY <2>2
    <3>2. Whole(w) /\ \A j \in 1..Len(Elements(w)) : Elements(w)[j] \in Of(Elements(v)[i])
        BY <1>1, <3>1 DEF TidySet
    <3> QED BY <3>2
  <2> QED BY <2>1, <2>2
<1>3. TidySet(W)
  <2> HIDE DEF W
  <2> QED BY <1>2 DEF TidySet
<1>4. v \in W  OBVIOUS
<1> HIDE DEF W
<1> QED BY <1>3, <1>4 DEF Tidy

\* What holds no elements is tidy.
LEMMA TidyLeaf ==
    ASSUME NEW v, v = <<v[1], v[2]>>, ~IsContainer(v)
    PROVE  Tidy(v)
<1>1. Elements(v) = <<>>  BY DEF Elements, IsContainer
<1>2. Len(Elements(v)) = 0  BY <1>1
<1>3. Whole(v)  BY DEF Whole, IsContainer
<1> QED BY <1>2, <1>3, TidyBuilt

\* So are an array of tidy values, and a record of them.
LEMMA TidyArr ==
    ASSUME NEW f, IsSequence(f), \A k \in 1..Len(f) : Tidy(f[k])
    PROVE  Tidy(Arr(f))
<1> DEFINE v == Arr(f)
<1>1. v = <<v[1], v[2]>> /\ Kind(v) = "array" /\ v[2] = f  BY DEF Arr, Kind
<1> HIDE DEF v
<1>2. Whole(v)  BY <1>1 DEF Whole
<1>3. Elements(v) = f  BY <1>1 DEF Elements
<1>4. Tidy(v)  BY <1>2, <1>3, TidyBuilt
<1> QED BY <1>4 DEF v

\* A record of tidy values is tidy.
LEMMA TidyRec ==
    ASSUME NEW r, Record(Rec(r)), \A k : Has(r, k) => Tidy(Get(r, k))
    PROVE  Tidy(Rec(r))
<1> DEFINE v == Rec(r)
<1>1. v = <<v[1], v[2]>> /\ Kind(v) = "record" /\ v[2] = r  BY DEF Rec, Kind
<1>2. Record(v)  OBVIOUS
<1> HIDE DEF v
<1>3. Whole(v)  BY <1>1, <1>2 DEF Whole
<1>4. OneEntryEach(r)  BY <1>1, <1>2 DEF Record
<1>5. ASSUME NEW i \in 1..Len(r) PROVE Tidy(r[i][2])
  <2>1. Get(r, r[i][1]) = r[i][2]  BY <1>4, GetIs
  <2>2. Has(r, r[i][1])  BY DEF Has
  <2> QED BY <2>1, <2>2
<1>6. Len(Elements(v)) = Len(r) /\ \A i \in 1..Len(r) : Elements(v)[i] = r[i][2]
    BY <1>1, <1>3, ElementsAre
<1>7. Tidy(v)  BY <1>3, <1>5, <1>6, TidyBuilt
<1> QED BY <1>7 DEF v

\* The values that words answer with, and the empty containers.
LEMMA TidyPlain ==
    /\ Tidy(Nil) /\ Tidy(EmptyArr) /\ Tidy(EmptyRec)
    /\ \A x : Tidy(Bool(x)) /\ Tidy(Num(x)) /\ Tidy(Str(x)) /\ Tidy(Options(x))
<1>1. /\ Nil = <<Nil[1], Nil[2]>> /\ ~IsContainer(Nil)
      /\ \A x : /\ Bool(x) = <<Bool(x)[1], Bool(x)[2]>> /\ ~IsContainer(Bool(x))
                /\ Num(x) = <<Num(x)[1], Num(x)[2]>> /\ ~IsContainer(Num(x))
                /\ Str(x) = <<Str(x)[1], Str(x)[2]>> /\ ~IsContainer(Str(x))
                /\ Options(x) = <<Options(x)[1], Options(x)[2]>> /\ ~IsContainer(Options(x))
    BY DEF Nil, Bool, Num, Str, Options, IsContainer, Kind
<1>2. Tidy(Nil) /\ \A x : Tidy(Bool(x)) /\ Tidy(Num(x)) /\ Tidy(Str(x)) /\ Tidy(Options(x))
    BY <1>1, TidyLeaf
<1> DEFINE e == <<>>
<1>3. Len(e) = 0 /\ e = [i \in 1..Len(e) |-> e[i]]  OBVIOUS
<1> HIDE DEF e
<1>4. IsSequence(e) /\ \A k \in 1..Len(e) : Tidy(e[k])  BY <1>3 DEF IsSequence
<1>5. Tidy(Arr(e))  BY <1>4, TidyArr
<1>6. Record(Rec(e)) /\ \A k : ~Has(e, k)
  <2> DEFINE m == Rec(e)
  <2>1. m[2] = e /\ m = <<"record", m[2]>>  BY DEF Rec
  <2> HIDE DEF m
  <2>2. Record(m)  BY <1>3, <1>4, <2>1 DEF Record, OneEntryEach
  <2> QED BY <1>3, <2>2 DEF m, Has
<1>7. Tidy(Rec(e))  BY <1>6, TidyRec
<1> QED BY <1>2, <1>5, <1>7 DEF e, EmptyArr, EmptyRec

\* What is in a tidy record, and in a tidy array.
LEMMA InTidyRecord ==
    ASSUME NEW r, Tidy(r), Kind(r) = "record"
    PROVE  Record(r) /\ \A k : Tidy(Get(r[2], k))
<1>1. Whole(r) /\ \A i \in 1..Len(Elements(r)) : Tidy(Elements(r)[i])  BY TidyParts
<1>2. Record(r) /\ OneEntryEach(r[2])  BY <1>1 DEF Whole, Record
<1>3. Len(Elements(r)) = Len(r[2]) /\ \A i \in 1..Len(r[2]) : Elements(r)[i] = r[2][i][2]
    BY <1>1, ElementsAre
<1>4. ASSUME NEW k PROVE Tidy(Get(r[2], k))
  <2>1. CASE Has(r[2], k)
    <3>1. PICK i \in 1..Len(r[2]) : r[2][i][1] = k  BY <2>1 DEF Has
    <3>2. Get(r[2], r[2][i][1]) = r[2][i][2]  BY <1>2, GetIs
    <3> QED BY <1>1, <1>3, <3>1, <3>2
  <2>2. CASE ~Has(r[2], k)
    <3>1. Get(r[2], k) = Nil  BY <2>2 DEF Get
    <3> QED BY <3>1, TidyPlain
  <2> QED BY <2>1, <2>2
<1> QED BY <1>2, <1>4

\* What is in a tidy array.
LEMMA InTidyArray ==
    ASSUME NEW c, Tidy(c), Kind(c) = "array"
    PROVE  IsSequence(c[2]) /\ Len(c[2]) \in Nat /\ \A i \in 1..Len(c[2]) : Tidy(c[2][i])
<1>1. /\ Whole(c) /\ IsSequence(Elements(c))
      /\ \A i \in 1..Len(Elements(c)) : Tidy(Elements(c)[i])
    BY TidyParts
<1>2. Elements(c) = c[2]  BY <1>1, ElementsAre
<1> QED BY <1>1, <1>2 DEF IsSequence

\* What is selected from tidy values.
LEMMA TidySelected ==
    ASSUME NEW s, \A i \in 1..Len(s) : Tidy(s[i]),
           NEW I, I \in SUBSET (1..Len(s)), NEW t, Selects(t, s, I)
    PROVE  Tidy(Arr(t))
<1>1. IsSequence(t)  BY DEF Selects
<1>2. PICK from \in [1..Len(t) -> I] : \A p \in 1..Len(t) : t[p] = s[from[p]]  BY DEF Selects
<1>3. \A p \in 1..Len(t) : from[p] \in 1..Len(s)  BY <1>2
<1> QED BY <1>1, <1>2, <1>3, TidyArr

-----------------------------------------------------------------------------
\* Stacks of tidy values are stacks over one set of them.
LEMMA TidyOver ==
    ASSUME NEW s
    PROVE  TidyStack(s) <=> \E V : Over(s, V) /\ \A v \in V : Tidy(v)
<1>1. ASSUME TidyStack(s)
      PROVE  \E V : Over(s, V) /\ \A v \in V : Tidy(v)
  <2> DEFINE V == {s[i] : i \in 1..Len(s)}
  <2>1. Over(s, V)  BY <1>1 DEF Over, TidyStack
  <2>2. \A v \in V : Tidy(v)  BY <1>1 DEF TidyStack
  <2> QED BY <2>1, <2>2
<1>2. ASSUME NEW V, Over(s, V), \A v \in V : Tidy(v) PROVE TidyStack(s)
    BY <1>2 DEF Over, TidyStack
<1> QED BY <1>1, <1>2

\* Popping.
LEMMA TidyPop ==
    ASSUME NEW s, TidyStack(s), NEW n \in 0..3, n <= Len(s)
    PROVE  TidyStack(Rest(s, n)) /\ \A i \in 1..n : Tidy(Args(s, n)[i])
<1>1. PICK V : Over(s, V) /\ \A v \in V : Tidy(v)  BY TidyOver
<1>2. Over(Rest(s, n), V) /\ \A i \in 1..n : Args(s, n)[i] \in V  BY <1>1, PopOver
<1> QED BY <1>1, <1>2, TidyOver

\* Pushing.
LEMMA TidyPush ==
    ASSUME NEW s, TidyStack(s), NEW t, TidyStack(t)
    PROVE  TidyStack(s \o t)
<1>1. PICK V : Over(s, V) /\ \A v \in V : Tidy(v)  BY TidyOver
<1>2. PICK W : Over(t, W) /\ \A v \in W : Tidy(v)  BY TidyOver
<1>3. Over(s, V \cup W) /\ Over(t, V \cup W)  BY <1>1, <1>2 DEF Over
<1>4. Over(s \o t, V \cup W)  BY <1>3, PushOver
<1>5. \A v \in V \cup W : Tidy(v)  BY <1>1, <1>2
<1> QED BY <1>4, <1>5, TidyOver

\* After a word: the stack is empty, its arguments are gone, or its results
\* stand in their place.
TidyAfter(s, n, after) ==
    \/ after = <<>>
    \/ n <= Len(s) /\ after = Rest(s, n)
    \/ n <= Len(s) /\ \E outs : TidyStack(outs) /\ after = Rest(s, n) \o outs

\* In each case the stack is tidy again.
LEMMA StaysTidy ==
    ASSUME NEW s, TidyStack(s), NEW n \in 0..3, NEW after, TidyAfter(s, n, after)
    PROVE  TidyStack(after)
<1>1. n <= Len(s) => TidyStack(Rest(s, n))  BY TidyPop
<1>2. Over(<<>>, {})  BY FewOver
<1>3. TidyStack(<<>>)  BY <1>2, TidyOver
<1> QED BY <1>1, <1>3, TidyPush DEF TidyAfter

\* A stack of one value.
LEMMA TidyOne ==
    ASSUME NEW v, Tidy(v)
    PROVE  TidyStack(<<v>>)
<1>1. Over(<<v>>, {v})  BY FewOver
<1>2. \A w \in {v} : Tidy(w)  OBVIOUS
<1> QED BY <1>1, <1>2, TidyOver

(***************************************************************************)
(* Groups.                                                                 *)
(***************************************************************************)
\* The first k members of a group, and all the elements that are grouped.
MembersOf(pairs, k, a) == {p \in 1..k : pairs[p][1] = a}
Seconds(pairs) == [p \in 1..Len(pairs) |-> pairs[p][2]]

\* The groups of the first k pairs: a group for each key, its members in order.
GroupsSoFar(s, pairs, k) ==
    /\ Record(Rec(s))
    /\ \A a : Has(s, a) <=> \E p \in 1..k : pairs[p][1] = a
    /\ \A a : Has(s, a) => /\ Get(s, a) = Arr(Get(s, a)[2])
                           /\ Selects(Get(s, a)[2], Seconds(pairs), MembersOf(pairs, k, a))

\* The next member is put into its group.
LEMMA OneMemberMore ==
    ASSUME NEW s, NEW pairs, NEW k, k \in Nat, k + 1 \in 1..Len(pairs),
           GroupsSoFar(s, pairs, k), NEW t, t = Round("group", s, pairs[k + 1])
    PROVE  GroupsSoFar(t, pairs, k + 1)
<1> DEFINE x == pairs[k + 1][1]
           v == pairs[k + 1][2]
           old == Elements(Get(s, x))
           new == Append(old, v)
           I == MembersOf(pairs, k, x)
<1>1. t = Put(s, x, Arr(new))  BY DEF Round
<1>2. /\ Record(Rec(s))
      /\ \A a : Has(s, a) <=> \E p \in 1..k : pairs[p][1] = a
      /\ \A a : Has(s, a) => /\ Get(s, a) = Arr(Get(s, a)[2])
                             /\ Selects(Get(s, a)[2], Seconds(pairs), MembersOf(pairs, k, a))
    BY DEF GroupsSoFar
<1>3. Seconds(pairs)[k + 1] = v  BY DEF Seconds
<1>4. pairs[k + 1][1] = x  OBVIOUS
<1> HIDE DEF x, v
<1>5. Selects(old, Seconds(pairs), I)
  <2>1. CASE Has(s, x)
    <3>1. Get(s, x) = Arr(Get(s, x)[2])  BY <1>2, <2>1
    <3>2. Kind(Get(s, x)) = "array"
      <4>1. \A y : Kind(Arr(y)) = "array"  BY DEF Arr, Kind
      <4> QED BY <3>1, <4>1
    <3>3. old = Get(s, x)[2]  BY <3>2 DEF Elements
    <3> QED BY <1>2, <2>1, <3>3
  <2>2. CASE ~Has(s, x)
    <3>1. Get(s, x) = Nil  BY <2>2 DEF Get
    <3>2. old = <<>>  BY <3>1 DEF Elements, Nil, Kind
    <3>3. I = {}  BY <1>2, <2>2 DEF MembersOf
    <3> HIDE DEF old, I
    <3> QED BY <3>2, <3>3, SelectsNone
  <2> QED BY <2>1, <2>2
<1>6. Selects(new, Seconds(pairs), I \cup {k + 1})
  <2>1. I \in SUBSET (1..k)  BY DEF MembersOf
  <2> HIDE DEF old, I
  <2> QED BY <1>3, <1>5, <2>1, SelectsOneMore
<1> HIDE DEF old, new, I
<1>7. PutAt(t, s, x, Arr(new))
  <2> DEFINE w == Arr(new)
  <2>1. t = Put(s, x, w) /\ Record(Rec(s))  BY <1>1, <1>2
  <2> HIDE DEF w
  <2>2. PutAt(t, s, x, w)  BY <2>1, PutChanges
  <2> QED BY <2>2 DEF w
<1>8. /\ Record(Rec(t))
      /\ \A a : /\ Has(t, a) <=> a = x \/ Has(s, a)
                /\ Get(t, a) = IF a = x THEN Arr(new) ELSE Get(s, a)
    BY <1>7 DEF PutAt
<1>9. 1..(k + 1) = (1..k) \cup {k + 1}  OBVIOUS
<1>10. \A a : MembersOf(pairs, k + 1, a) =
                 IF a = x THEN MembersOf(pairs, k, a) \cup {k + 1} ELSE MembersOf(pairs, k, a)
    BY <1>4, <1>9 DEF MembersOf
<1>11. \A a : (\E p \in 1..(k + 1) : pairs[p][1] = a) <=>
                 a = x \/ \E p \in 1..k : pairs[p][1] = a
    BY <1>4, <1>9
<1>12. ASSUME NEW a, Has(t, a)
       PROVE  /\ Get(t, a) = Arr(Get(t, a)[2])
              /\ Selects(Get(t, a)[2], Seconds(pairs), MembersOf(pairs, k + 1, a))
  <2>1. CASE a = x
    <3>1. Get(t, a) = Arr(new)  BY <1>8, <2>1
    <3>2. Arr(new)[2] = new  BY DEF Arr
    <3>3. MembersOf(pairs, k + 1, a) = I \cup {k + 1}  BY <1>10, <2>1 DEF I
    <3> QED BY <1>6, <3>1, <3>2, <3>3
  <2>2. CASE a # x
    <3>1. Has(s, a) /\ Get(t, a) = Get(s, a)  BY <1>8, <1>12, <2>2
    <3>2. MembersOf(pairs, k + 1, a) = MembersOf(pairs, k, a)  BY <1>10, <2>2
    <3> QED BY <1>2, <3>1, <3>2
  <2> QED BY <2>1, <2>2
<1>13. \A a : Has(t, a) <=> \E p \in 1..(k + 1) : pairs[p][1] = a  BY <1>2, <1>8, <1>11
<1> QED BY <1>8, <1>12, <1>13 DEF GroupsSoFar

\* Every pair is put into the group of its key.
LEMMA GroupedIs ==
    ASSUME NEW pairs, Len(pairs) \in Nat, DOMAIN pairs = 1..Len(pairs)
    PROVE  /\ Grouped(pairs) = Rec(Grouped(pairs)[2])
           /\ GroupsSoFar(Grouped(pairs)[2], pairs, Len(pairs))
<1> DEFINE n == Len(pairs)
           put(r, p) == Put(r, p[1], Arr(Append(Elements(Get(r, p[1])), p[2])))
           In(f) == f = [t \in SUBSET (1..n) |->
                           IF t = {} THEN <<>> ELSE put(f[t \ {Max(t)}], pairs[Max(t)])]
           iter == CHOOSE f : In(f)
           fold == FoldLeft(LAMBDA r, p : Put(r, p[1], Arr(Append(Elements(Get(r, p[1])), p[2]))),
                            <<>>, pairs)
<1>1. Grouped(pairs) = Rec(fold)  BY Zenon DEF Grouped
<1>2. fold = iter[1..n]
    BY Zenon DEF FoldLeft, MapThenFoldSet
<1>3. \A f : In(f) <=> Rounds("group", f, pairs)
  <2> TAKE f
  <2> DEFINE one(t) == IF t = {} THEN <<>> ELSE put(f[t \ {Max(t)}], pairs[Max(t)])
             two(t) == IF t = {} THEN <<>> ELSE Round("group", f[t \ {Max(t)}], pairs[Max(t)])
  <2>1. \A s, c : Round("group", s, c) = put(s, c)  BY DEF Round
  <2> HIDE DEF put
  <2>2. \A t : one(t) = two(t)  BY <2>1
  <2> HIDE DEF one, two
  <2>3. [t \in SUBSET (1..n) |-> one(t)] = [t \in SUBSET (1..n) |-> two(t)]  BY <2>2
  <2>4. In(f) <=> f = [t \in SUBSET (1..n) |-> one(t)]  BY Zenon DEF one
  <2>5. Rounds("group", f, pairs) <=> f = [t \in SUBSET (1..n) |-> two(t)]
      BY Zenon DEF Rounds, two
  <2> QED BY <2>3, <2>4, <2>5
<1>4. Rounds("group", iter, pairs)
  <2> HIDE DEF In
  <2>1. \E f : In(f)  BY <1>3, RoundsExist
  <2> QED BY <1>3, <2>1
<1> HIDE DEF iter, In
<1>5. PICK R : BuiltUp("group", R, pairs) /\ fold = R[n]
    BY <1>2, <1>4, RoundsInOrder
<1> HIDE DEF fold, n
<1>6. n \in Nat /\ n = Len(pairs)  BY DEF n
<1> DEFINE K == {k \in Nat : k <= n => GroupsSoFar(R[k], pairs, k)}
<1>7. 0 \in K
  <2>1. R[0] = <<>>  BY <1>5 DEF BuiltUp
  <2> DEFINE s == R[0]
  <2>2. Len(s) = 0 /\ IsSequence(s)  BY <2>1 DEF IsSequence
  <2> HIDE DEF s
  <2>3. \A a : ~Has(s, a)  BY <2>2 DEF Has
  <2>4. Record(Rec(s))
    <3> DEFINE m == Rec(s)
    <3>1. m[2] = s /\ m = <<"record", m[2]>>  BY DEF Rec
    <3> HIDE DEF m
    <3>2. Record(m)  BY <2>2, <3>1 DEF Record, OneEntryEach
    <3> QED BY <3>2 DEF m
  <2>5. GroupsSoFar(s, pairs, 0)  BY <2>3, <2>4 DEF GroupsSoFar
  <2> QED BY <2>5 DEF s
<1>8. ASSUME NEW k \in K PROVE k + 1 \in K
  <2> SUFFICES ASSUME k + 1 <= n PROVE GroupsSoFar(R[k + 1], pairs, k + 1)  OBVIOUS
  <2>1. k \in Nat /\ GroupsSoFar(R[k], pairs, k) /\ k + 1 \in 1..Len(pairs) /\ k + 1 - 1 = k
      BY <1>6
  <2>2. R[k + 1] = Round("group", R[k], pairs[k + 1])
    <3>1. R[k + 1] = Round("group", R[k + 1 - 1], pairs[k + 1])  BY <1>5, <2>1 DEF BuiltUp
    <3> QED BY <2>1, <3>1
  <2>3. k \in Nat  BY <2>1
  <2>4. k + 1 \in 1..Len(pairs)  BY <2>1
  <2> QED BY <2>1, <2>2, <2>3, <2>4, OneMemberMore
<1>9. GroupsSoFar(fold, pairs, n)
  <2>1. K \in SUBSET Nat  OBVIOUS
  <2>2. n <= n  BY <1>6
  <2>3. \A k : k \in K => k \in Nat /\ (k <= n => GroupsSoFar(R[k], pairs, k))  OBVIOUS
  <2> HIDE DEF K
  <2>4. K = Nat  BY <1>7, <1>8, <2>1, Counting
  <2> QED BY <1>5, <1>6, <2>2, <2>3, <2>4
<1>10. Rec(fold)[2] = fold  BY DEF Rec
<1> QED BY <1>1, <1>6, <1>9, <1>10

\* The groups an element names, with the element.
LEMMA GroupsNamedIs ==
    ASSUME NEW item, Tidy(item), NEW field
    PROVE  /\ IsSequence(GroupsNamed(item, field))
           /\ Kind(FieldOf(item, field)) # "array" =>
                 /\ Len(GroupsNamed(item, field)) = 1
                 /\ GroupsNamed(item, field)[1] = FieldOf(item, field)
<1> DEFINE fv == FieldOf(item, field)
<1>1. Tidy(fv)
  <2>1. CASE Kind(item) = "record"  BY <2>1, InTidyRecord DEF FieldOf
  <2>2. CASE Kind(item) # "record"  BY <2>2, TidyPlain DEF FieldOf
  <2> QED BY <2>1, <2>2
<1> HIDE DEF fv
<1>2. GroupsNamed(item, field) = IF Kind(fv) = "array" THEN fv[2] ELSE <<fv>>
    BY DEF GroupsNamed, fv
<1>3. CASE Kind(fv) = "array"
  <2>1. IsSequence(fv[2])  BY <1>1, <1>3, InTidyArray
  <2> QED BY <1>2, <1>3, <2>1 DEF fv
<1>4. CASE Kind(fv) # "array"
  <2> DEFINE s == <<fv>>
  <2>1. Len(s) = 1 /\ s = [i \in 1..1 |-> s[i]] /\ s[1] = fv  OBVIOUS
  <2> HIDE DEF s
  <2>2. IsSequence(s)  BY <2>1 DEF IsSequence
  <2>3. GroupsNamed(item, field) = s  BY <1>2, <1>4 DEF s
  <2> QED BY <2>1, <2>2, <2>3 DEF fv
<1> QED BY <1>3, <1>4

\* What GROUP-BY-FIELD puts into groups.
KeyedBy(item, field) ==
    [k \in 1..Len(GroupsNamed(item, field)) |->
        <<value_to_key_string(GroupsNamed(item, field)[k]), item>>]

IsKeyed(c, field, x) ==
    \E i \in 1..Len(Elements(c)) :
        \E j \in 1..Len(GroupsNamed(Elements(c)[i], field)) :
            x = <<value_to_key_string(GroupsNamed(Elements(c)[i], field)[j]), Elements(c)[i]>>

PairsAre(pairs, c, field) ==
    /\ Len(pairs) \in Nat /\ DOMAIN pairs = 1..Len(pairs)
    /\ \A x : (\E p \in 1..Len(pairs) : pairs[p] = x) <=> IsKeyed(c, field, x)

\* The loop over the elements makes exactly these pairs.
LEMMA KeyedPairs ==
    ASSUME NEW c, Tidy(c), NEW field
    PROVE  PairsAre(FlattenSeq([i \in 1..Len(Elements(c)) |-> KeyedBy(Elements(c)[i], field)]),
                    c, field)
<1> DEFINE items == Elements(c)
           n == Len(items)
           parts == [i \in 1..n |-> KeyedBy(items[i], field)]
           X == UNION {{KeyedBy(items[i], field)[j] :
                          j \in 1..Len(GroupsNamed(items[i], field))} : i \in 1..n}
           pairs == FlattenSeq(parts)
<1>1. n \in Nat /\ \A i \in 1..n : Tidy(items[i])  BY TidyParts DEF IsSequence
<1> HIDE DEF items
<1>2. \A i \in 1..n : Len(GroupsNamed(items[i], field)) \in Nat
    BY <1>1, GroupsNamedIs DEF IsSequence
<1>3. \A i \in 1..n :
         /\ KeyedBy(items[i], field) \in Seq(X)
         /\ Len(KeyedBy(items[i], field)) = Len(GroupsNamed(items[i], field))
         /\ \A j \in 1..Len(GroupsNamed(items[i], field)) : KeyedBy(items[i], field)[j] =
               <<value_to_key_string(GroupsNamed(items[i], field)[j]), items[i]>>
  <2> TAKE i \in 1..n
  <2> DEFINE m == Len(GroupsNamed(items[i], field))
             s == KeyedBy(items[i], field)
             pair(j) == <<value_to_key_string(GroupsNamed(items[i], field)[j]), items[i]>>
  <2>1. m \in Nat  BY <1>2
  <2>2. s = [j \in 1..m |-> pair(j)]  BY DEF KeyedBy
  <2>3. \A j \in 1..m : s[j] \in X  OBVIOUS
  <2> HIDE DEF X, m, s, pair
  <2>4. Len(s) = m /\ \A j \in 1..m : s[j] = pair(j)  BY <2>1, <2>2
  <2>5. s \in [1..m -> X]  BY <2>2, <2>3, <2>4
  <2>6. s \in Seq(X)  BY <2>1, <2>5, SeqDef
  <2> QED BY <2>4, <2>6 DEF s, m, pair
<1> HIDE DEF X, n
<1>4. parts \in Seq(Seq(X)) /\ Len(parts) = n
  <2>1. parts \in [1..n -> Seq(X)]  BY <1>3
  <2> QED BY <1>1, <2>1, SeqDef
<1>5. \A i \in 1..n : parts[i] = KeyedBy(items[i], field)  OBVIOUS
<1> HIDE DEF parts
<1>6. /\ pairs \in Seq(X)
      /\ \A x : (\E p \in 1..Len(pairs) : pairs[p] = x) <=>
                \E i \in 1..Len(parts) : \E j \in 1..Len(parts[i]) : parts[i][j] = x
  <2>1. parts \in Seq(Seq(X))  BY <1>4
  <2>2. /\ FlattenSeq(parts) \in Seq(X)
        /\ \A x : (\E p \in 1..Len(FlattenSeq(parts)) : FlattenSeq(parts)[p] = x) <=>
                  \E i \in 1..Len(parts) : \E j \in 1..Len(parts[i]) : parts[i][j] = x
      BY <2>1, FlattenHolds, ZenonT(60)
  <2> QED BY <2>2, Zenon DEF pairs
<1> HIDE DEF pairs
<1>7. Len(pairs) \in Nat /\ DOMAIN pairs = 1..Len(pairs)  BY <1>6
<1>8. ASSUME NEW x PROVE (\E p \in 1..Len(pairs) : pairs[p] = x) <=> IsKeyed(c, field, x)
  <2>1. (\E p \in 1..Len(pairs) : pairs[p] = x) <=>
           \E i \in 1..n : \E j \in 1..Len(parts[i]) : parts[i][j] = x
      BY <1>4, <1>6
  <2>2. \A i \in 1..n :
           (\E j \in 1..Len(parts[i]) : parts[i][j] = x) <=>
           \E j \in 1..Len(GroupsNamed(items[i], field)) :
              x = <<value_to_key_string(GroupsNamed(items[i], field)[j]), items[i]>>
    <3> TAKE i \in 1..n
    <3>1. Len(parts[i]) = Len(GroupsNamed(items[i], field))  BY <1>3, <1>5
    <3>2. \A j \in 1..Len(GroupsNamed(items[i], field)) : parts[i][j] =
             <<value_to_key_string(GroupsNamed(items[i], field)[j]), items[i]>>
        BY <1>3, <1>5
    <3> QED BY ONLY <3>1, <3>2
  <2> QED BY ONLY <2>1, <2>2, Zenon DEF IsKeyed, n, items
<1>9. PairsAre(pairs, c, field)  BY <1>7, <1>8 DEF PairsAre
<1> QED BY <1>9 DEF pairs, parts, n, items

\* GROUP-BY-FIELD makes groups of all the elements, each in those it names.
LEMMA GroupByFieldIs ==
    ASSUME NEW c, Tidy(c), NEW field, ~Failed(GroupByField(c, field))
    PROVE  \E pairs : /\ PairsAre(pairs, c, field)
                      /\ pairs = FlattenSeq([i \in 1..Len(Elements(c)) |->
                                                KeyedBy(Elements(c)[i], field)])
                      /\ GroupByField(c, field) = Rec(GroupByField(c, field)[2])
                      /\ GroupsSoFar(GroupByField(c, field)[2], pairs, Len(pairs))
<1> DEFINE items == Elements(c)
           pairs == FlattenSeq([i \in 1..Len(Elements(c)) |-> KeyedBy(Elements(c)[i], field)])
           bad == AnyOf(Elements(c), LAMBDA item :
                    Kind(item) = "null" \/ AnyOf(GroupsNamed(item, field), CannotBeKey))
<1>1. GroupByField(c, field) =
         IF bad THEN Fail("InvalidOperation") ELSE Grouped(pairs)
    BY Zenon DEF GroupByField, KeyedBy
<1> HIDE DEF pairs, bad
<1>2. GroupByField(c, field) = Grouped(pairs)
  <2>1. Failed(Fail("InvalidOperation"))  BY DEF Failed, Fail
  <2> QED BY <1>1, <2>1
<1>3. PairsAre(pairs, c, field)  BY KeyedPairs DEF pairs
<1>4. Len(pairs) \in Nat /\ DOMAIN pairs = 1..Len(pairs)  BY <1>3 DEF PairsAre
<1>5. /\ Grouped(pairs) = Rec(Grouped(pairs)[2])
      /\ GroupsSoFar(Grouped(pairs)[2], pairs, Len(pairs))
    BY <1>4, GroupedIs
<1> QED BY <1>2, <1>3, <1>5 DEF pairs

(***************************************************************************)
(* What the words that shape containers make of tidy values is tidy.       *)
(***************************************************************************)
\* Of what a loop picks.
LEMMA PickedFrom ==
    ASSUME NEW s, IsSequence(s), NEW I, I \in SUBSET (1..Len(s))
    PROVE  /\ Selects(Picked(s, I), s, I) /\ IsSequence(Picked(s, I))
           /\ \A p \in 1..Len(Picked(s, I)) : \E i \in I : Picked(s, I)[p] = s[i]
<1>1. s \in Seq(ToSet(s))  BY SequenceIs
<1>2. Selects(Picked(s, I), s, I)  BY <1>1, PickedSelects
<1> DEFINE t == Picked(s, I)
<1> HIDE DEF t
<1>3. Selects(t, s, I)  BY <1>2 DEF t
<1>4. PICK from \in [1..Len(t) -> I] : \A p \in 1..Len(t) : t[p] = s[from[p]]
    BY <1>3 DEF Selects
<1>5. \A p \in 1..Len(t) : from[p] \in I  OBVIOUS
<1>6. IsSequence(t)  BY <1>3 DEF Selects
<1> QED BY <1>3, <1>4, <1>5, <1>6 DEF t

\* The first of some positions.
LEMMA MinOfSome ==
    ASSUME NEW n, n \in Nat, NEW S, S \in SUBSET (1..n), S # {}
    PROVE  Min(S) \in S /\ \A i \in S : Min(S) <= i
<1> DEFINE K == {k \in Nat : \A i \in S : i > k}
<1>1. \E x \in S : \A y \in S : x <= y
  <2> SUFFICES ASSUME \A x \in S : \E y \in S : y < x PROVE FALSE  OBVIOUS
  <2>1. 0 \in K  OBVIOUS
  <2>2. ASSUME NEW k \in K PROVE k + 1 \in K
    <3>1. k \in Nat /\ \A i \in S : i > k  OBVIOUS
    <3>2. ASSUME NEW i \in S PROVE i > k + 1
      <4>1. PICK y \in S : y < i  OBVIOUS
      <4> QED BY <3>1, <4>1
    <3> QED BY <3>1, <3>2
  <2>3. K = Nat
    <3>1. K \in SUBSET Nat  OBVIOUS
    <3> HIDE DEF K
    <3> QED BY <2>1, <2>2, <3>1, Counting
  <2>4. PICK i \in S : TRUE  OBVIOUS
  <2>5. i \in Nat  OBVIOUS
  <2>6. i > i  BY <2>3, <2>5
  <2> QED BY <2>5, <2>6
<1> QED BY <1>1 DEF Min

\* Two sequences of tidy values, one after the other.
LEMMA TidyJoined ==
    ASSUME NEW s, TidyStack(s), NEW t, TidyStack(t)
    PROVE  IsSequence(s \o t) /\ Tidy(Arr(s \o t))
<1> DEFINE u == s \o t
<1>1. TidyStack(u)  BY TidyPush
<1> HIDE DEF u
<1>2. IsSequence(u) /\ Tidy(Arr(u))  BY <1>1, TidyArr DEF TidyStack
<1> QED BY <1>2 DEF u

\* A pair of tidy values.
LEMMA TidyPair ==
    ASSUME NEW a, Tidy(a), NEW b, Tidy(b)
    PROVE  Tidy(Arr(<<a, b>>))
<1> DEFINE s == <<a, b>>
<1>1. Len(s) = 2 /\ s = [i \in 1..2 |-> s[i]] /\ \A i \in 1..2 : s[i] = a \/ s[i] = b  OBVIOUS
<1> HIDE DEF s
<1>2. IsSequence(s)  BY <1>1 DEF IsSequence
<1>3. Tidy(Arr(s))  BY <1>1, <1>2, TidyArr
<1> QED BY <1>3 DEF s

\* What is collected into a record.
LEMMA TidyCollected ==
    ASSUME NEW pairs, IsSequence(pairs), \A i \in 1..Len(pairs) : Tidy(pairs[i][2])
    PROVE  Tidy(Rec(Collected(pairs)))
<1> DEFINE t == Collected(pairs)
<1>1. Collects(t, pairs, Len(pairs)) /\ Record(Rec(t))  BY CollectedHolds, CollectedIsRecord
<1> HIDE DEF t
<1>2. ASSUME NEW k, Has(t, k) PROVE Tidy(Get(t, k))
  <2>1. PICK e \in 1..Len(t) : t[e][1] = k  BY <1>2 DEF Has
  <2>2. PICK i \in 1..Len(pairs) : t[e] = <<pairs[i][1], pairs[i][2]>>  BY <1>1 DEF Collects
  <2>3. Get(t, t[e][1]) = t[e][2]  BY <1>1, GetIs DEF Collects
  <2> QED BY <2>1, <2>2, <2>3
<1>3. Tidy(Rec(t))  BY <1>1, <1>2, TidyRec
<1> QED BY <1>3 DEF t

\* The entries of a record, none for what is no record.
LEMMA TidyPairs ==
    ASSUME NEW r, Tidy(r)
    PROVE  /\ IsSequence(PairsOf(r)) /\ \A i \in 1..Len(PairsOf(r)) : Tidy(PairsOf(r)[i][2])
           /\ Kind(r) # "record" => PairsOf(r) = <<>> /\ Len(PairsOf(r)) = 0
<1>1. CASE Kind(r) = "record"
  <2>1. Record(r) /\ \A k : Tidy(Get(r[2], k))  BY <1>1, InTidyRecord
  <2>2. PairsOf(r) = r[2] /\ IsSequence(r[2]) /\ OneEntryEach(r[2])
      BY <2>1, RecordIs DEF Record
  <2>3. \A i \in 1..Len(r[2]) : Get(r[2], r[2][i][1]) = r[2][i][2]  BY <2>2, GetIs
  <2>4. \A i \in 1..Len(r[2]) : Tidy(r[2][i][2])  BY <2>1, <2>3
  <2> QED BY <1>1, <2>2, <2>4
<1>2. CASE Kind(r) # "record"
  <2>1. PairsOf(r) = <<>>  BY <1>2 DEF PairsOf
  <2> DEFINE s == PairsOf(r)
  <2>2. Len(s) = 0 /\ s = [i \in 1..0 |-> s[i]]  BY <2>1
  <2> HIDE DEF s
  <2>3. IsSequence(s) /\ 1..Len(s) = {}  BY <2>2 DEF IsSequence
  <2> QED BY <2>1, <2>2, <2>3 DEF s
<1> QED BY <1>1, <1>2

-----------------------------------------------------------------------------
\* The words of the array module.
LEMMA TidyGroups ==
    ASSUME NEW c, Tidy(c), NEW field, ~Failed(GroupByField(c, field))
    PROVE  Tidy(GroupByField(c, field))
<1> DEFINE g == GroupByField(c, field)[2]
<1>1. PICK pairs : /\ PairsAre(pairs, c, field)
                   /\ GroupByField(c, field) = Rec(GroupByField(c, field)[2])
                   /\ GroupsSoFar(GroupByField(c, field)[2], pairs, Len(pairs))
    BY GroupByFieldIs
<1>2. GroupByField(c, field) = Rec(g) /\ GroupsSoFar(g, pairs, Len(pairs))  BY <1>1
<1> HIDE DEF g
<1> DEFINE n == Len(pairs)
           s == Seconds(pairs)
<1>3. n \in Nat  BY <1>1 DEF PairsAre
<1>4. Len(s) = n /\ \A p \in 1..n : s[p] = pairs[p][2]
  <2>1. s = [p \in 1..n |-> pairs[p][2]]  BY DEF Seconds
  <2> HIDE DEF s, n
  <2> QED BY <1>3, <2>1
<1>5. ASSUME NEW p \in 1..n PROVE Tidy(s[p])
  <2>1. IsKeyed(c, field, pairs[p])  BY <1>1 DEF PairsAre
  <2>2. PICK i \in 1..Len(Elements(c)) : \E j \in 1..Len(GroupsNamed(Elements(c)[i], field)) :
           pairs[p] = <<value_to_key_string(GroupsNamed(Elements(c)[i], field)[j]), Elements(c)[i]>>
      BY <2>1 DEF IsKeyed
  <2>3. pairs[p][2] = Elements(c)[i]  BY <2>2
  <2> QED BY <1>4, <2>3, TidyParts
<1>6. ASSUME NEW a, Has(g, a) PROVE Tidy(Get(g, a))
  <2> DEFINE I == MembersOf(pairs, n, a)
  <2>1. Get(g, a) = Arr(Get(g, a)[2]) /\ Selects(Get(g, a)[2], s, I)
      BY <1>2, <1>6 DEF GroupsSoFar
  <2>2. I \in SUBSET (1..Len(s))  BY <1>4 DEF MembersOf
  <2>3. \A p \in 1..Len(s) : Tidy(s[p])  BY <1>4, <1>5
  <2> HIDE DEF I, s, n
  <2>4. Tidy(Arr(Get(g, a)[2]))  BY <2>1, <2>2, <2>3, TidySelected
  <2> QED BY <2>1, <2>4
<1>7. Record(Rec(g))  BY <1>2 DEF GroupsSoFar
<1>8. Tidy(Rec(g))  BY <1>6, <1>7, TidyRec
<1> QED BY <1>2, <1>8

\* What a loop keeps of tidy values is tidy.
LEMMA TidyKept ==
    ASSUME NEW s, IsSequence(s), \A i \in 1..Len(s) : Tidy(s[i]),
           NEW I, I \in SUBSET (1..Len(s)), NEW t, t = Picked(s, I)
    PROVE  IsSequence(t) /\ \A p \in 1..Len(t) : Tidy(t[p])
<1>1. Selects(t, s, I) /\ IsSequence(t)  BY PickedFrom
<1>2. PICK from \in [1..Len(t) -> I] : \A p \in 1..Len(t) : t[p] = s[from[p]]
    BY <1>1 DEF Selects
<1>3. \A p \in 1..Len(t) : from[p] \in I  OBVIOUS
<1> QED BY <1>1, <1>2, <1>3

\* BY-FIELD.
LEMMA TidyByField ==
    ASSUME NEW c, Tidy(c), NEW field, ~Failed(ByField(c, field))
    PROVE  Tidy(ByField(c, field))
<1> DEFINE s == Elements(c)
           I == {i \in 1..Len(s) : Truthy(s[i])}
           items == Filtered(Elements(c), Truthy)
           pairs == [i \in 1..Len(items) |->
                       <<value_to_key_string(FieldOf(items[i], field)), items[i]>>]
<1>1. ByField(c, field) = Fail("InvalidOperation") \/ ByField(c, field) = Rec(Collected(pairs))
    BY Zenon DEF ByField
<1>2. Failed(Fail("InvalidOperation"))  BY DEF Failed, Fail
<1>3. items = Picked(s, I)  BY Zenon DEF Filtered
<1>4. IsSequence(s) /\ \A i \in 1..Len(s) : Tidy(s[i])  BY TidyParts
<1>5. I \in SUBSET (1..Len(s))  OBVIOUS
<1> HIDE DEF items, s, I, pairs
<1>6. IsSequence(items) /\ \A p \in 1..Len(items) : Tidy(items[p])
    BY <1>3, <1>4, <1>5, TidyKept
<1>7. Len(items) \in Nat  BY <1>6 DEF IsSequence
<1>8. /\ Len(pairs) = Len(items) /\ pairs = [i \in 1..Len(items) |-> pairs[i]]
      /\ \A i \in 1..Len(items) : pairs[i][2] = items[i]
    BY <1>7 DEF pairs
<1>9. IsSequence(pairs) /\ \A i \in 1..Len(pairs) : Tidy(pairs[i][2])
    BY <1>6, <1>7, <1>8 DEF IsSequence
<1>10. Tidy(Rec(Collected(pairs)))  BY <1>9, TidyCollected
<1> QED BY <1>1, <1>2, <1>10 DEF pairs

\* KEY-OF finds a key where there is an element that is ==.
LEMMA KeyOfIs ==
    ASSUME NEW c, Tidy(c), NEW v
    PROVE  /\ Tidy(KeyOf(c, v))
           /\ KeyOf(c, v) # Nil <=> \E i \in 1..Len(Elements(c)) : values_equal(Elements(c)[i], v)
<1> DEFINE n == Len(Elements(c))
           hits == {i \in 1..n : values_equal(Elements(c)[i], v)}
<1>1. KeyOf(c, v) = IF hits = {} THEN Nil ELSE keyed_items(c)[Min(hits)][1]  BY DEF KeyOf
<1>2. n \in Nat  BY TidyParts DEF IsSequence
<1>3. hits \in SUBSET (1..n)  OBVIOUS
<1>4. hits = {} <=> ~\E i \in 1..n : values_equal(Elements(c)[i], v)  OBVIOUS
<1> HIDE DEF hits
<1>5. CASE hits = {}  BY <1>1, <1>4, <1>5, TidyPlain
<1>6. CASE hits # {}
  <2>1. Min(hits) \in 1..n  BY <1>2, <1>3, <1>6, MinOfSome
  <2> DEFINE i == Min(hits)
             key == IF Kind(c) = "array" THEN Num(i - 1) ELSE Str(c[2][i][1])
  <2>2. keyed_items(c)[i] = <<key, Elements(c)[i]>>  BY <2>1 DEF keyed_items
  <2>3. KeyOf(c, v) = key  BY <1>1, <1>6, <2>2
  <2>4. Tidy(key)  BY TidyPlain
  <2>5. key # Nil  BY DEF Num, Str, Nil
  <2> QED BY <1>4, <1>6, <2>3, <2>4, <2>5
<1> QED BY <1>5, <1>6

\* Pairs of a position and an element.
LEMMA TidyNumbered ==
    ASSUME NEW c, Tidy(c)
    PROVE  Tidy(Numbered(c))
<1>1. CASE Kind(c) # "array"  BY <1>1, TidyPlain DEF Numbered
<1>2. CASE Kind(c) = "array"
  <2> DEFINE n == Len(c[2])
             f == [i \in 1..n |-> Arr(<<Num(i - 1), c[2][i]>>)]
  <2>1. n \in Nat /\ \A i \in 1..n : Tidy(c[2][i])  BY <1>2, InTidyArray
  <2>2. Numbered(c) = Arr(f)  BY <1>2 DEF Numbered, Size
  <2>3. \A i \in 1..n : Tidy(Arr(<<Num(i - 1), c[2][i]>>))  BY <2>1, TidyPlain, TidyPair
  <2>4. \A i \in 1..n : f[i] = Arr(<<Num(i - 1), c[2][i]>>)  OBVIOUS
  <2>5. Len(f) = n /\ f = [i \in 1..n |-> f[i]]  BY <2>1
  <2> HIDE DEF f, n
  <2>6. IsSequence(f) /\ \A i \in 1..Len(f) : Tidy(f[i])  BY <2>1, <2>3, <2>4, <2>5 DEF IsSequence
  <2> QED BY <2>2, <2>6, TidyArr
<1> QED BY <1>1, <1>2

\* Back to front.
LEMMA TidyReverse ==
    ASSUME NEW c, Tidy(c)
    PROVE  Tidy(ReverseOf(c))
<1>1. CASE Kind(c) # "array"  BY <1>1 DEF ReverseOf
<1>2. CASE Kind(c) = "array"
  <2> DEFINE n == Len(c[2])
             f == Reverse(c[2])
  <2>1. n \in Nat /\ \A i \in 1..n : Tidy(c[2][i])  BY <1>2, InTidyArray
  <2>2. ReverseOf(c) = Arr(f)  BY <1>2 DEF ReverseOf
  <2>3. f = [i \in 1..n |-> c[2][n - i + 1]]  BY DEF Reverse
  <2> HIDE DEF f, n
  <2>4. Len(f) = n /\ f = [i \in 1..n |-> f[i]]  BY <2>1, <2>3
  <2>5. \A i \in 1..n : n - i + 1 \in 1..n /\ f[i] = c[2][n - i + 1]  BY <2>1, <2>3
  <2>6. IsSequence(f) /\ \A i \in 1..Len(f) : Tidy(f[i])  BY <2>1, <2>4, <2>5 DEF IsSequence
  <2> QED BY <2>2, <2>6, TidyArr
<1> QED BY <1>1, <1>2

\* A sequence of tidy values is the payload of an array of them.
LEMMA PayloadIsTidy ==
    ASSUME NEW c, Tidy(c), Kind(c) = "array"
    PROVE  TidyStack(c[2])
<1> QED BY InTidyArray DEF TidyStack

\* An element more, or an entry.
LEMMA TidyAppend ==
    ASSUME NEW c, Tidy(c), NEW item, Tidy(item)
    PROVE  Tidy(AppendOf(c, item))
<1>1. CASE Kind(c) = "array"
  <2>1. AppendOf(c, item) = Arr(Append(c[2], item))  BY <1>1 DEF AppendOf
  <2>2. Append(c[2], item) = c[2] \o <<item>>
    <3>1. c[2] \in Seq(ToSet(c[2]))  BY <1>1, InTidyArray, SequenceIs
    <3> DEFINE S == ToSet(c[2]) \cup {item}
    <3>2. c[2] \in Seq(S) /\ item \in S  BY <3>1
    <3> HIDE DEF S
    <3> QED BY <3>2
  <2>3. TidyStack(c[2]) /\ TidyStack(<<item>>)  BY <1>1, PayloadIsTidy, TidyOne
  <2>4. Tidy(Arr(c[2] \o <<item>>))  BY <2>3, TidyJoined
  <2> QED BY <2>1, <2>2, <2>4
<1>2. CASE Kind(c) = "null"
  <2>1. AppendOf(c, item) = Arr(<<item>>)  BY <1>2 DEF AppendOf
  <2> DEFINE s == <<item>>
  <2>2. TidyStack(s)  BY TidyOne
  <2> HIDE DEF s
  <2>3. Tidy(Arr(s))  BY <2>2, TidyArr DEF TidyStack
  <2> QED BY <2>1, <2>3 DEF s
<1>3. CASE Kind(c) = "record" /\ IsPair(item)
  <2> DEFINE k == item[2][1][2]
             v == item[2][2]
             r == c[2]
             t == Put(r, k, v)
  <2>1. AppendOf(c, item) = Rec(t)  BY <1>3 DEF AppendOf
  <2>2. Tidy(v)
    <3>1. Kind(item) = "array" /\ Len(item[2]) >= 2  BY <1>3 DEF IsPair, Size
    <3>2. Len(item[2]) \in Nat /\ \A i \in 1..Len(item[2]) : Tidy(item[2][i])
        BY <3>1, InTidyArray
    <3>3. 2 \in 1..Len(item[2])  BY <3>1, <3>2
    <3> QED BY <3>2, <3>3
  <2>3. Record(c) /\ \A j : Tidy(Get(r, j))  BY <1>3, InTidyRecord
  <2>4. Record(Rec(r))  BY <2>3, RecordIs
  <2>5. t = Put(r, k, v)  OBVIOUS
  <2> HIDE DEF k, v, r, t
  <2>6. PutAt(t, r, k, v)  BY <2>4, <2>5, PutChanges
  <2>7. Record(Rec(t)) /\ \A j : Has(t, j) => Tidy(Get(t, j))  BY <2>2, <2>3, <2>6 DEF PutAt
  <2> QED BY <2>1, <2>7, TidyRec
<1>4. CASE ~(Kind(c) \in {"array", "null"} \/ (Kind(c) = "record" /\ IsPair(item)))
    BY <1>4 DEF AppendOf
<1> QED BY <1>1, <1>2, <1>3, <1>4

\* Pairs of the elements of two arrays.
LEMMA TidyZip ==
    ASSUME NEW l, Tidy(l), NEW r, Tidy(r)
    PROVE  Tidy(ZipOf(l, r))
<1>1. CASE ~(Kind(l) = "array" /\ Kind(r) = "array")  BY <1>1, TidyPlain DEF ZipOf
<1>2. CASE Kind(l) = "array" /\ Kind(r) = "array"
  <2> DEFINE m == Min({Size(l), Size(r)})
             f == [i \in 1..m |-> Arr(<<l[2][i], r[2][i]>>)]
  <2>1. /\ Size(l) \in Nat /\ \A i \in 1..Size(l) : Tidy(l[2][i])
        /\ Size(r) \in Nat /\ \A i \in 1..Size(r) : Tidy(r[2][i])
      BY <1>2, InTidyArray DEF Size
  <2>2. m = IF Size(l) <= Size(r) THEN Size(l) ELSE Size(r)  BY <2>1, MinOfTwo
  <2>3. ZipOf(l, r) = Arr(f)  BY <1>2 DEF ZipOf
  <2> HIDE DEF m
  <2>4. m \in Nat /\ \A i \in 1..m : i \in 1..Size(l) /\ i \in 1..Size(r)  BY <2>1, <2>2
  <2>5. \A i \in 1..m : Tidy(Arr(<<l[2][i], r[2][i]>>))  BY <2>1, <2>4, TidyPair
  <2>6. Len(f) = m /\ f = [i \in 1..m |-> f[i]]
        /\ \A i \in 1..m : f[i] = Arr(<<l[2][i], r[2][i]>>)
      BY <2>4
  <2> HIDE DEF f
  <2>7. IsSequence(f) /\ \A i \in 1..Len(f) : Tidy(f[i])  BY <2>4, <2>5, <2>6 DEF IsSequence
  <2> QED BY <2>3, <2>7, TidyArr
<1> QED BY <1>1, <1>2

\* Of each key the first element.
LEMMA TidyFirsts ==
    ASSUME NEW s, TidyStack(s)
    PROVE  Tidy(Arr(KeepFirst(s, SameKey)))
<1> DEFINE t == KeepFirst(s, SameKey)
           I == Firsts(s, Len(s))
<1>1. s \in Seq(ToSet(s)) /\ \A i \in 1..Len(s) : Tidy(s[i])  BY SequenceIs DEF TidyStack
<1>2. Selects(t, s, I)  BY <1>1, FirstsAreKept
<1>3. I \in SUBSET (1..Len(s))  BY DEF Firsts
<1> HIDE DEF t, I
<1>4. Tidy(Arr(t))  BY <1>1, <1>2, <1>3, TidySelected
<1> QED BY <1>4 DEF t

\* UNIQUE and UNION.
LEMMA TidyUnions ==
    ASSUME NEW l, Tidy(l), NEW r, Tidy(r)
    PROVE  Tidy(UniqueOf(l)) /\ Tidy(UnionOf(l, r))
<1>1. Tidy(UniqueOf(l))
  <2>1. CASE Kind(l) = "array"
    <3>1. Tidy(Arr(KeepFirst(l[2], SameKey)))  BY <2>1, PayloadIsTidy, TidyFirsts
    <3>2. UniqueOf(l) = Arr(KeepFirst(l[2], SameKey))  BY <2>1, Zenon DEF UniqueOf
    <3> QED BY <3>1, <3>2
  <2>2. CASE Kind(l) # "array"
    <3>1. UniqueOf(l) = l  BY <2>2, Zenon DEF UniqueOf
    <3> QED BY <3>1
  <2> QED BY <2>1, <2>2
<1>2. Tidy(UnionOf(l, r))
  <2>1. CASE Kind(l) = "array" /\ Kind(r) = "array"
    <3>1. TidyStack(l[2]) /\ TidyStack(r[2])  BY <2>1, PayloadIsTidy
    <3>2. TidyStack(l[2] \o r[2])  BY <3>1, TidyPush
    <3>3. Tidy(Arr(KeepFirst(l[2] \o r[2], SameKey)))  BY <3>2, TidyFirsts
    <3>4. UnionOf(l, r) = Arr(KeepFirst(l[2] \o r[2], SameKey))  BY <2>1, Zenon DEF UnionOf
    <3> QED BY <3>3, <3>4
  <2>2. CASE ~(Kind(l) = "array" /\ Kind(r) = "array")
    <3>1. UnionOf(l, r) = EmptyArr  BY <2>2, Zenon DEF UnionOf
    <3> QED BY <3>1, TidyPlain
  <2> QED BY <2>1, <2>2
<1> QED BY <1>1, <1>2

\* Some of the elements of an array, some of the entries of a record.
LEMMA TidyPicked ==
    ASSUME NEW c, Tidy(c), NEW I, I \in SUBSET (1..Len(c[2]))
    PROVE  /\ Kind(c) = "array"  => Tidy(Arr(Picked(c[2], I)))
           /\ Kind(c) = "record" => Tidy(Rec(Picked(c[2], I)))
<1>1. CASE Kind(c) = "array"
  <2> DEFINE s == c[2]
  <2>1. IsSequence(s) /\ \A i \in 1..Len(s) : Tidy(s[i])  BY <1>1, InTidyArray
  <2>2. I \in SUBSET (1..Len(s))  OBVIOUS
  <2> HIDE DEF s
  <2>3. Tidy(Arr(Picked(s, I)))  BY <2>1, <2>2, PickedFrom, TidySelected
  <2> QED BY <1>1, <2>3 DEF s
<1>2. CASE Kind(c) = "record"
  <2> DEFINE t == Picked(c[2], I)
  <2>1. Record(c) /\ \A k : Tidy(Get(c[2], k))  BY <1>2, InTidyRecord
  <2>2. t = Picked(c[2], I)  OBVIOUS
  <2> HIDE DEF t
  <2>3. EntriesAt(t, c, I)  BY <2>1, <2>2, SomeEntries
  <2>4. Record(Rec(t)) /\ \A k : Has(t, k) => Tidy(Get(t, k))  BY <2>1, <2>3 DEF EntriesAt
  <2>5. Tidy(Rec(t))  BY <2>4, TidyRec
  <2> QED BY <1>2, <2>5 DEF t
<1> QED BY <1>1, <1>2

\* DIFFERENCE and INTERSECTION.
LEMMA TidySetOp ==
    ASSUME NEW l, Tidy(l), NEW r, NEW keep
    PROVE  Tidy(set_op(l, r, keep))
<1> DEFINE keys == IF Kind(r) = "record" THEN ToSet(KeysOf(r[2]))
                   ELSE {v[2] : v \in {e \in ToSet(Elements(r)) : Kind(e) = "string"}}
           member(v) == AnyOf(Elements(r), LAMBDA e : SameKey(e, v))
           I == {i \in 1..Len(l[2]) : member(l[2][i]) = keep}
           J == {i \in 1..Len(l[2]) : (l[2][i][1] \in keys) = keep}
<1>1. set_op(l, r, keep) =
        CASE Kind(l) = "array"  -> Arr(Picked(l[2], I))
          [] Kind(l) = "record" -> Rec(Picked(l[2], J))
          [] Kind(l) = "null"   -> EmptyArr
          [] OTHER              -> l
    BY Zenon DEF set_op, Filtered
<1>2. I \in SUBSET (1..Len(l[2])) /\ J \in SUBSET (1..Len(l[2]))  OBVIOUS
<1> HIDE DEF I, J
<1>3. CASE Kind(l) = "array"  BY <1>1, <1>2, <1>3, TidyPicked
<1>4. CASE Kind(l) = "record"  BY <1>1, <1>2, <1>4, TidyPicked
<1>5. CASE Kind(l) = "null"  BY <1>1, <1>5, TidyPlain
<1>6. CASE Kind(l) \notin {"array", "record", "null"}  BY <1>1, <1>6
<1> QED BY <1>3, <1>4, <1>5, <1>6

\* The words of the record module.
LEMMA TidyPaired ==
    ASSUME NEW n, n \in Nat, NEW key, NEW val, \A i \in 1..n : Tidy(val[i])
    PROVE  Tidy(Rec(Collected(Paired(n, key, val))))
<1> DEFINE pairs == Paired(n, key, val)
<1>1. Len(pairs) = n /\ pairs = [i \in 1..n |-> pairs[i]] /\ \A i \in 1..n : pairs[i][2] = val[i]
    BY DEF Paired
<1> HIDE DEF pairs
<1>2. IsSequence(pairs) /\ \A i \in 1..Len(pairs) : Tidy(pairs[i][2])  BY <1>1 DEF IsSequence
<1>3. Tidy(Rec(Collected(pairs)))  BY <1>2, TidyCollected
<1> QED BY <1>3 DEF pairs

\* MERGE.
LEMMA TidyMerge ==
    ASSUME NEW r, Tidy(r), NEW t, Tidy(t)
    PROVE  Tidy(MergeOf(r, t))
<1> DEFINE p == PairsOf(r)
           q == PairsOf(t)
           V == {p[i] : i \in 1..Len(p)} \cup {q[i] : i \in 1..Len(q)}
           all == p \o q
<1>1. IsSequence(p) /\ IsSequence(q) /\ \A v \in V : Tidy(v[2])  BY TidyPairs
<1>2. MergeOf(r, t) = Rec(Collected(all))  BY DEF MergeOf
<1> HIDE DEF p, q
<1>3. Over(p, V) /\ Over(q, V)  BY <1>1 DEF Over
<1> HIDE DEF V
<1>4. Over(all, V)  BY <1>3, PushOver
<1> HIDE DEF all
<1>5. IsSequence(all) /\ \A i \in 1..Len(all) : Tidy(all[i][2])  BY <1>1, <1>4 DEF Over
<1> QED BY <1>2, <1>5, TidyCollected

\* PICK takes nothing out of what is no record.
LEMMA TidyPick ==
    ASSUME NEW r, Tidy(r), NEW keys, Tidy(keys)
    PROVE  Tidy(PickOf(r, keys))
<1>1. Whole(keys)  BY TidyParts
<1>2. CASE Kind(r) = "record"
  <2>1. Record(r) /\ \A k : Tidy(Get(r[2], k))  BY <1>2, InTidyRecord
  <2> DEFINE p == PickOf(r, keys)
  <2>2. /\ Record(p)
        /\ \A k : Has(p[2], k) => Get(p[2], k) = Get(r[2], k)
      BY <1>1, <2>1, PickIs
  <2> HIDE DEF p
  <2>3. p = Rec(p[2])  BY <2>2, RecordIs
  <2>4. \A k : Has(p[2], k) => Tidy(Get(p[2], k))  BY <2>1, <2>2
  <2>5. Tidy(Rec(p[2]))  BY <2>2, <2>3, <2>4, TidyRec
  <2> QED BY <2>3, <2>5 DEF p
<1>3. CASE Kind(r) # "record"
  <2> DEFINE names == NamedKeys(keys)
             I == {i \in 1..Len(names) : Has(PairsOf(r), names[i])}
             there == Filtered(NamedKeys(keys), LAMBDA k : Has(PairsOf(r), k))
             pairs == [i \in 1..Len(there) |-> <<there[i], Get(r[2], there[i])>>]
  <2>1. PickOf(r, keys) = Rec(Collected(pairs))  BY Zenon DEF PickOf
  <2>2. there = Picked(names, I)  BY Zenon DEF Filtered
  <2>3. I = {}  BY <1>3, TidyPairs DEF Has
  <2>4. IsSequence(names)  BY <1>1, NamedKeysIs
  <2> HIDE DEF names, I, there
  <2>5. I \in SUBSET (1..Len(names))  BY <2>3
  <2>6. Selects(there, names, I)  BY <2>2, <2>4, <2>5, PickedFrom
  <2>7. Len(there) = 0
    <3>1. PICK from \in [1..Len(there) -> I] : TRUE  BY <2>6 DEF Selects
    <3>2. Len(there) \in Nat  BY <2>6 DEF Selects, IsSequence
    <3>3. ~\E p \in 1..Len(there) : TRUE  BY <2>3, <3>1
    <3> QED BY <3>2, <3>3
  <2>8. Len(pairs) = 0 /\ pairs = [i \in 1..0 |-> pairs[i]]  BY <2>7
  <2> HIDE DEF pairs
  <2>9. IsSequence(pairs) /\ \A i \in 1..Len(pairs) : Tidy(pairs[i][2])  BY <2>8 DEF IsSequence
  <2>10. Tidy(Rec(Collected(pairs)))  BY <2>9, TidyCollected
  <2> QED BY <2>1, <2>10
<1> QED BY <1>2, <1>3

\* Some of the entries of a record, none of what is no record.
LEMMA TidyEntries ==
    ASSUME NEW r, Tidy(r), NEW I, I \in SUBSET (1..Len(PairsOf(r)))
    PROVE  Tidy(Rec(Picked(PairsOf(r), I)))
<1>1. CASE Kind(r) = "record"
  <2>1. PairsOf(r) = r[2]  BY <1>1 DEF PairsOf
  <2>2. I \in SUBSET (1..Len(r[2]))  BY <2>1
  <2>3. Tidy(Rec(Picked(r[2], I)))  BY <1>1, <2>2, TidyPicked
  <2> QED BY <2>1, <2>3
<1>2. CASE Kind(r) # "record"
  <2>1. PairsOf(r) = <<>> /\ Len(PairsOf(r)) = 0  BY <1>2, TidyPairs
  <2>2. PairsOf(EmptyRec) = <<>> /\ EmptyRec[2] = <<>> /\ Kind(EmptyRec) = "record"
      BY DEF PairsOf, EmptyRec, Rec, Kind
  <2>3. I \in SUBSET (1..Len(EmptyRec[2]))  BY <2>1, <2>2
  <2>4. Tidy(Rec(Picked(EmptyRec[2], I)))  BY <2>2, <2>3, TidyPlain, TidyPicked
  <2> QED BY <2>1, <2>2, <2>4
<1> QED BY <1>1, <1>2

\* OMIT.
LEMMA TidyOmit ==
    ASSUME NEW r, Tidy(r), NEW keys
    PROVE  Tidy(OmitOf(r, keys))
<1> DEFINE I == {i \in 1..Len(PairsOf(r)) : PairsOf(r)[i][1] \notin ToSet(NamedKeys(keys))}
<1>1. OmitOf(r, keys) = Rec(Picked(PairsOf(r), I))  BY Zenon DEF OmitOf, Filtered
<1>2. I \in SUBSET (1..Len(PairsOf(r)))  OBVIOUS
<1> HIDE DEF I
<1> QED BY <1>1, <1>2, TidyEntries

\* An element is taken out of an array.
LEMMA TidyRemoved ==
    ASSUME NEW s, TidyStack(s), NEW i, i = 0 \/ i \in 1..Len(s)
    PROVE  Tidy(Arr(RemoveIndex(s, i)))
<1>1. CASE i = 0  BY <1>1, TidyArr DEF RemoveIndex, TidyStack
<1>2. CASE i # 0
  <2>1. i \in 1..Len(s) /\ Len(s) \in Nat  BY <1>2 DEF TidyStack, IsSequence
  <2>2. PICK V : Over(s, V) /\ \A v \in V : Tidy(v)  BY TidyOver
  <2> DEFINE a == SubSeq(s, 1, i - 1)
             b == SubSeq(s, i + 1, Len(s))
  <2>3. i - 1 \in Int /\ i + 1 \in Int /\ 1 \in Int /\ Len(s) \in Int  BY <2>1
  <2>4. 1 <= 1 /\ i - 1 <= Len(s) /\ 1 <= (i - 1) + 1  BY <2>1
  <2>5. 1 <= i + 1 /\ Len(s) <= Len(s) /\ i + 1 <= Len(s) + 1  BY <2>1
  <2>6. Over(a, V)
    <3> DEFINE m == i - 1
    <3>1. m \in Int /\ m <= Len(s) /\ 1 <= m + 1 /\ 1 \in Int  BY <2>1
    <3> HIDE DEF m
    <3>2. Over(SubSeq(s, 1, m), V)  BY <2>2, <3>1, PartOver
    <3> QED BY <3>2 DEF m
  <2>7. Over(b, V)
    <3> DEFINE m == i + 1
    <3>1. m \in Int /\ 1 <= m /\ m <= Len(s) + 1 /\ Len(s) \in Int /\ Len(s) <= Len(s)  BY <2>1
    <3> HIDE DEF m
    <3>2. Over(SubSeq(s, m, Len(s)), V)  BY <2>2, <3>1, PartOver
    <3> QED BY <3>2 DEF m
  <2>8. RemoveIndex(s, i) = a \o b  BY <1>2 DEF RemoveIndex, RemoveAt
  <2> HIDE DEF a, b
  <2>9. TidyStack(a \o b)
    <3>1. Over(a \o b, V)  BY <2>6, <2>7, PushOver
    <3> QED BY <2>2, <3>1, TidyOver
  <2>10. TidyStack(RemoveIndex(s, i))  BY <2>8, <2>9
  <2> QED BY <2>10, TidyArr DEF TidyStack
<1> QED BY <1>1, <1>2

\* DELETE, of a key or of a position.
LEMMA TidyDelete ==
    ASSUME NEW c, Tidy(c), NEW key, ~Failed(DeleteOf(c, key))
    PROVE  Tidy(DeleteOf(c, key))
<1> DEFINE k == key_string(key)
           I == {i \in 1..Len(c[2]) : c[2][i][1] # k}
           at == normalize_index(AsI64(key), Len(c[2]))
<1>1. ShiftRemove(c[2], k) = Picked(c[2], I)  BY Zenon DEF ShiftRemove, Filtered
<1>2. I \in SUBSET (1..Len(c[2]))  OBVIOUS
<1>3. Failed(BadOperation)  BY DEF Failed, BadOperation, Fail
<1>4. DeleteOf(c, key) =
        CASE Kind(c) = "record" -> Rec(ShiftRemove(c[2], k))
          [] Kind(c) = "array" /\ IsInteger(key) -> Arr(RemoveIndex(c[2], at))
          [] Kind(c) = "array" /\ ~IsInteger(key) -> BadOperation
          [] OTHER -> c
    BY Zenon DEF DeleteOf
<1>5. Kind(c) = "array" => at = 0 \/ at \in 1..Len(c[2])
  <2> SUFFICES ASSUME Kind(c) = "array" PROVE at = 0 \/ at \in 1..Len(c[2])  OBVIOUS
  <2>1. Len(c[2]) \in Nat  BY InTidyArray
  <2> QED BY <2>1 DEF normalize_index
<1> HIDE DEF k, I, at
<1>6. CASE Kind(c) = "record"  BY <1>1, <1>2, <1>4, <1>6, TidyPicked
<1>7. CASE Kind(c) = "array"
  <2>1. TidyStack(c[2])  BY <1>7, PayloadIsTidy
  <2>2. Tidy(Arr(RemoveIndex(c[2], at)))  BY <1>5, <1>7, <2>1, TidyRemoved
  <2> QED BY <1>3, <1>4, <1>7, <2>2
<1>8. CASE Kind(c) \notin {"array", "record"}  BY <1>4, <1>8
<1> QED BY <1>6, <1>7, <1>8

\* REC>ENTRIES.
LEMMA TidyToEntries ==
    ASSUME NEW r, Tidy(r)
    PROVE  Tidy(RecToEntries(r))
<1> DEFINE n == Len(PairsOf(r))
           f == [i \in 1..n |-> Arr(<<Str(r[2][i][1]), r[2][i][2]>>)]
<1>1. RecToEntries(r) = Arr(f)  BY DEF RecToEntries
<1>2. n \in Nat /\ \A i \in 1..n : Tidy(r[2][i][2])
  <2>1. n \in Nat /\ \A i \in 1..n : Tidy(PairsOf(r)[i][2])  BY TidyPairs DEF IsSequence
  <2>2. Kind(r) = "record" => PairsOf(r) = r[2]  BY DEF PairsOf
  <2>3. Kind(r) # "record" => n = 0  BY TidyPairs
  <2> QED BY <2>1, <2>2, <2>3
<1>3. \A i \in 1..n : Tidy(Arr(<<Str(r[2][i][1]), r[2][i][2]>>))
    BY <1>2, TidyPlain, TidyPair
<1> HIDE DEF n
<1>4. Len(f) = n /\ f = [i \in 1..n |-> f[i]] /\ \A i \in 1..n : Tidy(f[i])  BY <1>2, <1>3
<1> HIDE DEF f
<1>5. Tidy(Arr(f))  BY <1>2, <1>4, TidyArr DEF IsSequence
<1> QED BY <1>1, <1>5

\* The elements of an array of pairs; none of what is no array.
ListOf(pairs) == IF Kind(pairs) = "array" THEN pairs[2] ELSE <<>>

\* They are tidy.
LEMMA TidyList ==
    ASSUME NEW pairs, Tidy(pairs)
    PROVE  IsSequence(ListOf(pairs)) /\ \A i \in 1..Len(ListOf(pairs)) : Tidy(ListOf(pairs)[i])
<1>1. CASE Kind(pairs) = "array"  BY <1>1, InTidyArray DEF ListOf
<1>2. CASE Kind(pairs) # "array"
  <2>1. ListOf(pairs) = EmptyArr[2] /\ Kind(EmptyArr) = "array"
      BY <1>2 DEF ListOf, EmptyArr, Arr, Kind
  <2> QED BY <2>1, TidyPlain, InTidyArray
<1> QED BY <1>1, <1>2

\* ENTRIES>REC, where every element is a pair.
LEMMA TidyEntriesToRec ==
    ASSUME NEW pairs, Tidy(pairs), ~Failed(EntriesToRec(pairs))
    PROVE  Tidy(EntriesToRec(pairs))
<1> DEFINE s == ListOf(pairs)
           key == [i \in 1..Len(s) |-> key_string(s[i][2][1])]
           val == [i \in 1..Len(s) |-> s[i][2][2]]
           to == [i \in 1..Len(s) |-> <<key_string(s[i][2][1]), s[i][2][2]>>]
<1>1. EntriesToRec(pairs) = IF \E i \in 1..Len(s) : ~IsEntry(s[i]) THEN BadOperation
                            ELSE Rec(Collected(to))
    BY Zenon DEF EntriesToRec, ListOf
<1>2. Failed(BadOperation)  BY DEF Failed, BadOperation, Fail
<1>3. IsSequence(s) /\ \A i \in 1..Len(s) : Tidy(s[i])  BY TidyList
<1>4. Len(s) \in Nat  BY <1>3 DEF IsSequence
<1> HIDE DEF s
<1>5. to = Paired(Len(s), key, val)  BY DEF Paired
<1>6. ASSUME NEW i \in 1..Len(s), IsEntry(s[i]) PROVE Tidy(val[i])
  <2>1. Kind(s[i]) = "array" /\ Len(s[i][2]) = 2  BY <1>6 DEF IsEntry
  <2>2. \A j \in 1..2 : Tidy(s[i][2][j])  BY <1>3, <2>1, InTidyArray
  <2>3. val[i] = s[i][2][2]  OBVIOUS
  <2> HIDE DEF val
  <2> QED BY <2>2, <2>3
<1> HIDE DEF key, val, to
<1>7. \A i \in 1..Len(s) : IsEntry(s[i])  BY <1>1, <1>2
<1>8. Tidy(Rec(Collected(Paired(Len(s), key, val))))  BY <1>4, <1>6, <1>7, TidyPaired
<1> QED BY <1>1, <1>5, <1>7, <1>8

\* REC passes over what is no pair.
LEMMA TidyRecOf ==
    ASSUME NEW pairs, Tidy(pairs)
    PROVE  Tidy(RecOf(pairs))
<1> DEFINE all == ListOf(pairs)
           named(v) == Kind(v) = "array" /\ Len(v[2]) >= 2 /\ Kind(v[2][1]) = "string"
           I == {i \in 1..Len(all) : named(all[i])}
           s == Filtered(ListOf(pairs), LAMBDA v : /\ Kind(v) = "array" /\ Len(v[2]) >= 2
                                                   /\ Kind(v[2][1]) = "string")
           to == [i \in 1..Len(s) |-> <<s[i][2][1][2], s[i][2][2]>>]
           key == [i \in 1..Len(s) |-> s[i][2][1][2]]
           val == [i \in 1..Len(s) |-> s[i][2][2]]
<1>1. RecOf(pairs) = Rec(Collected(to))  BY Zenon DEF RecOf, ListOf
<1>2. s = Picked(all, I)  BY Zenon DEF Filtered
<1>3. IsSequence(all) /\ \A i \in 1..Len(all) : Tidy(all[i])  BY TidyList
<1>4. I \in SUBSET (1..Len(all)) /\ \A i \in I : named(all[i])  OBVIOUS
<1> HIDE DEF all, I, s, named
<1>5. Selects(s, all, I)  BY <1>2, <1>3, <1>4, PickedFrom
<1>6. PICK from \in [1..Len(s) -> I] : \A p \in 1..Len(s) : s[p] = all[from[p]]
    BY <1>5 DEF Selects
<1>7. Len(s) \in Nat  BY <1>5 DEF Selects, IsSequence
<1>8. \A p \in 1..Len(s) : from[p] \in I  OBVIOUS
<1>9. \A p \in 1..Len(s) : named(s[p]) /\ Tidy(s[p])  BY <1>3, <1>4, <1>6, <1>8
<1>10. ASSUME NEW i \in 1..Len(s) PROVE Tidy(val[i])
  <2>1. Tidy(s[i]) /\ Kind(s[i]) = "array" /\ Len(s[i][2]) >= 2  BY <1>9 DEF named
  <2>2. Len(s[i][2]) \in Nat /\ \A j \in 1..Len(s[i][2]) : Tidy(s[i][2][j])  BY <2>1, InTidyArray
  <2>3. val[i] = s[i][2][2]  OBVIOUS
  <2> HIDE DEF val
  <2> QED BY <2>1, <2>2, <2>3
<1>11. to = Paired(Len(s), key, val)  BY DEF Paired
<1> HIDE DEF key, val, to
<1>12. Tidy(Rec(Collected(Paired(Len(s), key, val))))  BY <1>7, <1>10, TidyPaired
<1> QED BY <1>1, <1>11, <1>12

\* RELABEL.
LEMMA TidyRelabel ==
    ASSUME NEW r, Tidy(r), NEW old, Tidy(old), NEW new
    PROVE  Tidy(RelabelOf(r, old, new))
<1> DEFINE moves == [i \in 1..Len(old[2]) |-> <<old[2][i], new[2][i]>>]
           moved == Filtered(moves, LAMBDA p : /\ Kind(p[1]) = "string" /\ Kind(p[2]) = "string"
                                               /\ Has(r[2], p[1][2]))
           key == [i \in 1..Len(moved) |-> moved[i][2][2]]
           val == [i \in 1..Len(moved) |-> Get(r[2], moved[i][1][2])]
           to == [i \in 1..Len(moved) |-> <<moved[i][2][2], Get(r[2], moved[i][1][2])>>]
           I == {i \in 1..Len(moves) : /\ Kind(moves[i][1]) = "string" /\ Kind(moves[i][2]) = "string"
                                       /\ Has(r[2], moves[i][1][2])}
<1>1. RelabelOf(r, old, new) =
        IF \/ Kind(r) # "record" \/ Kind(old) # "array" \/ Kind(new) # "array"
           \/ Len(old[2]) # Len(new[2])
        THEN r ELSE Rec(Collected(to))
    BY Zenon DEF RelabelOf
<1>2. moved = Picked(moves, I)  BY Zenon DEF Filtered
<1>3. I \in SUBSET (1..Len(moves))  OBVIOUS
<1>4. to = Paired(Len(moved), key, val)  BY DEF Paired
<1> SUFFICES ASSUME Kind(r) = "record", Kind(old) = "array", Len(old[2]) \in Nat
             PROVE  Tidy(Rec(Collected(to)))
  <2>1. Kind(old) = "array" => Len(old[2]) \in Nat  BY InTidyArray
  <2> HIDE DEF to
  <2> QED BY <1>1, <2>1
<1>5. IsSequence(moves)  BY DEF IsSequence
<1> HIDE DEF moves, moved, I
<1>6. Selects(moved, moves, I)  BY <1>2, <1>3, <1>5, PickedFrom
<1>7. Len(moved) \in Nat  BY <1>6 DEF Selects, IsSequence
<1>8. \A i \in 1..Len(moved) : Tidy(val[i])  BY InTidyRecord
<1> HIDE DEF to, key, val
<1>9. Tidy(Rec(Collected(Paired(Len(moved), key, val))))  BY <1>7, <1>8, TidyPaired
<1> QED BY <1>4, <1>9

\* INVERT-KEYS: a table of the values two levels down.
LEMMA TidyInvert ==
    ASSUME NEW r, Tidy(r)
    PROVE  Tidy(InvertKeys(r))
<1>1. CASE Kind(r) # "record"
  <2>1. InvertKeys(r) = r  BY <1>1 DEF InvertKeys
  <2> QED BY <2>1
<1>2. CASE Kind(r) = "record"
  <2>1. Record(r) /\ IsSequence(Elements(r)) /\ \A i \in 1..Len(r[2]) : Tidy(r[2][i][2])
    <3>1. Record(r) /\ PairsOf(r) = r[2]  BY <1>2, InTidyRecord, RecordIs
    <3> QED BY <3>1, TidyPairs, TidyParts
  <2>2. \A i \in 1..Len(r[2]) : /\ IsSequence(PairsOf(r[2][i][2]))
                                /\ \A j \in 1..Len(PairsOf(r[2][i][2])) :
                                      Tidy(PairsOf(r[2][i][2])[j][2])
                                /\ Kind(r[2][i][2]) # "record" => Len(PairsOf(r[2][i][2])) = 0
      BY <2>1, TidyPairs
  <2>3. \A i \in 1..Len(r[2]) : Len(PairsOf(r[2][i][2])) \in Nat  BY <2>2 DEF IsSequence
  <2>4. PICK cells : Inverts(InvertKeys(r), cells, r)  BY <2>1, <2>3, CellsMakeTable
  <2> DEFINE s == InvertKeys(r)[2]
             n == Len(cells)
  <2>5. InvertKeys(r) = Rec(s) /\ Tabled(s, cells, n)
        /\ \A c : (\E p \in 1..n : cells[p] = c) <=> IsCell(r, c)
      BY <2>4 DEF Inverts
  <2> HIDE DEF s, n
  <2>6. \A p \in 1..n : Tidy(cells[p][3])
    <3> SUFFICES ASSUME NEW p \in 1..n PROVE Tidy(cells[p][3])  OBVIOUS
    <3>1. IsCell(r, cells[p])  BY <2>5
    <3>2. PICK i \in 1..Len(r[2]) : \E j \in 1..Len(PairsOf(r[2][i][2])) :
              <<r[2][i][2][2][j][1], r[2][i][1], r[2][i][2][2][j][2]>> = cells[p]
        BY <3>1 DEF IsCell
    <3>3. PICK j \in 1..Len(PairsOf(r[2][i][2])) :
              <<r[2][i][2][2][j][1], r[2][i][1], r[2][i][2][2][j][2]>> = cells[p]
        BY <3>2
    <3>4. cells[p][3] = r[2][i][2][2][j][2]
      <4> DEFINE x == r[2][i][2][2][j][2]
                 c == cells[p]
      <4>1. <<r[2][i][2][2][j][1], r[2][i][1], x>> = c  BY <3>3
      <4> HIDE DEF x, c
      <4>2. c[3] = x  BY <4>1
      <4> QED BY <4>2 DEF x, c
    <3>5. Kind(r[2][i][2]) = "record"  BY <2>2, <3>3
    <3>6. PairsOf(r[2][i][2]) = r[2][i][2][2]  BY <3>5 DEF PairsOf
    <3>7. Tidy(PairsOf(r[2][i][2])[j][2])  BY <2>2, <3>3
    <3> QED BY <3>4, <3>6, <3>7
  <2>7. ASSUME NEW a, Has(s, a) PROVE Tidy(Get(s, a))
    <3> DEFINE x == Get(s, a)
    <3>1. Record(x)  BY <2>5, <2>7 DEF Tabled, Table
    <3>2. ASSUME NEW b, Has(x[2], b) PROVE Tidy(Get(x[2], b))
      <4>1. HasCell(s, a, b) /\ CellAt(s, a, b) = Get(x[2], b)
          BY <2>7, <3>2 DEF HasCell, CellAt
      <4>2. PICK p \in 1..n : CellAt(s, a, b) = cells[p][3]  BY <2>5, <4>1 DEF Tabled
      <4> QED BY <2>6, <4>1, <4>2
    <3>3. x = Rec(x[2])  BY <3>1, RecordIs
    <3> HIDE DEF x
    <3>4. Tidy(Rec(x[2]))  BY <3>1, <3>2, <3>3, TidyRec
    <3> QED BY <3>3, <3>4 DEF x
  <2>8. Record(Rec(s))  BY <2>5 DEF Tabled, Table
  <2> QED BY <2>5, <2>7, <2>8, TidyRec
<1> QED BY <1>1, <1>2

\* KEYS.
LEMMA TidyKeys ==
    ASSUME NEW c, Tidy(c)
    PROVE  Tidy(KeysWord(c))
<1> DEFINE strs == [i \in 1..Len(c[2]) |-> Str(c[2][i][1])]
           nums == [i \in 1..Len(c[2]) |-> Num(i - 1)]
<1>1. KeysWord(c) = CASE Kind(c) = "record" -> Arr(strs)
                      [] Kind(c) = "array"  -> Arr(nums)
                      [] OTHER              -> EmptyArr
    BY DEF KeysWord
<1>2. ASSUME Len(c[2]) \in Nat PROVE Tidy(Arr(strs)) /\ Tidy(Arr(nums))
  <2>1. /\ Len(strs) = Len(c[2]) /\ strs = [i \in 1..Len(strs) |-> strs[i]]
        /\ \A i \in 1..Len(c[2]) : strs[i] = Str(c[2][i][1])
      BY <1>2
  <2>2. /\ Len(nums) = Len(c[2]) /\ nums = [i \in 1..Len(nums) |-> nums[i]]
        /\ \A i \in 1..Len(c[2]) : nums[i] = Num(i - 1)
      BY <1>2
  <2> HIDE DEF strs, nums
  <2>3. IsSequence(strs) /\ \A i \in 1..Len(strs) : Tidy(strs[i])
      BY <1>2, <2>1, TidyPlain DEF IsSequence
  <2>4. IsSequence(nums) /\ \A i \in 1..Len(nums) : Tidy(nums[i])
      BY <1>2, <2>2, TidyPlain DEF IsSequence
  <2> QED BY <2>3, <2>4, TidyArr
<1>3. Kind(c) = "array" => Len(c[2]) \in Nat  BY InTidyArray
<1>4. Kind(c) = "record" => Len(c[2]) \in Nat  BY InTidyRecord, RecordIs
<1> HIDE DEF strs, nums
<1>5. CASE Kind(c) = "record"  BY <1>1, <1>2, <1>4, <1>5
<1>6. CASE Kind(c) = "array"  BY <1>1, <1>2, <1>3, <1>6
<1>7. CASE Kind(c) \notin {"array", "record"}  BY <1>1, <1>7, TidyPlain
<1> QED BY <1>5, <1>6, <1>7

\* VALUES, and the elements that UNPACK pushes.
LEMMA TidyValues ==
    ASSUME NEW c, Tidy(c)
    PROVE  Tidy(ValuesWord(c)) /\ TidyStack(Elements(c))
<1>1. IsSequence(Elements(c)) /\ \A i \in 1..Len(Elements(c)) : Tidy(Elements(c)[i])
    BY TidyParts
<1> DEFINE s == Elements(c)
<1> HIDE DEF s
<1>2. IsSequence(s) /\ \A i \in 1..Len(s) : Tidy(s[i])  BY <1>1 DEF s
<1>3. Tidy(Arr(s))  BY <1>2, TidyArr
<1> QED BY <1>2, <1>3 DEF s, ValuesWord, TidyStack

-----------------------------------------------------------------------------
\* What a word answers, when it does not fail, is tidy.
LEMMA AnswersTidy ==
    ASSUME NEW a, NEW b
    PROVE  \A v \in {Equal(a, b), NotEqual(a, b), Less(a, b), LessEq(a, b), More(a, b),
                     MoreEq(a, b), XorOf(a, b), NandOf(a, b), ContainsQ(a, b), AnyIn(a, b),
                     AllIn(a, b), OrOf(a, b), AndOf(a, b), HasKeyOf(a, b)} :
               Failed(v) \/ Tidy(v)
<1>1. \A x : Tidy(Bool(x))  BY TidyPlain
<1>2. Failed(Fail("InvalidOperation"))  BY DEF Failed, Fail
<1> USE <1>1
<1>3. Tidy(Equal(a, b)) /\ Tidy(NotEqual(a, b))  BY DEF Equal, NotEqual
<1>4. Tidy(Less(a, b)) /\ Tidy(LessEq(a, b)) /\ Tidy(More(a, b)) /\ Tidy(MoreEq(a, b))
    BY DEF Less, LessEq, More, MoreEq
<1>5. Tidy(XorOf(a, b)) /\ Tidy(NandOf(a, b))  BY DEF XorOf, NandOf
<1>6. Tidy(ContainsQ(a, b)) /\ Tidy(AnyIn(a, b)) /\ Tidy(AllIn(a, b))
    BY DEF ContainsQ, AnyIn, AllIn
<1>7. \A v : Failed(NoArray(a, b, v)) \/ Tidy(NoArray(a, b, v))  BY <1>2 DEF NoArray
<1>8. (Failed(OrOf(a, b)) \/ Tidy(OrOf(a, b))) /\ (Failed(AndOf(a, b)) \/ Tidy(AndOf(a, b)))
    BY <1>7 DEF OrOf, AndOf
<1>9. Tidy(HasKeyOf(a, b))  BY DEF HasKeyOf
<1> QED BY <1>3, <1>4, <1>5, <1>6, <1>8, <1>9

\* The same for the words of one argument.
LEMMA AnswerTidy ==
    ASSUME NEW a
    PROVE  \A v \in {NotOf(a), ToBool(a), IsNull(a), IsEmpty(a), IsString(a), IsNum(a),
                     IsRecord(a), IsArray(a), AnyQ(a), AllQ(a), ToOptions(a)} :
               Failed(v) \/ Tidy(v)
<1>1. \A x : Tidy(Bool(x))  BY TidyPlain
<1>2. Failed(Fail("InvalidOperation"))  BY DEF Failed, Fail
<1> USE <1>1
<1>3. Tidy(NotOf(a)) /\ Tidy(ToBool(a))  BY DEF NotOf, ToBool
<1>4. Tidy(IsNull(a)) /\ Tidy(IsEmpty(a)) /\ Tidy(IsString(a)) /\ Tidy(IsNum(a))
    BY DEF IsNull, IsEmpty, IsString, IsNum
<1>5. Tidy(IsRecord(a)) /\ Tidy(IsArray(a))  BY DEF IsRecord, IsArray
<1>6. (Failed(AnyQ(a)) \/ Tidy(AnyQ(a))) /\ (Failed(AllQ(a)) \/ Tidy(AllQ(a)))
    BY <1>2 DEF AnyQ, AllQ
<1>7. Tidy(ToOptions(a))
  <2>1. \E p : ToOptions(a) = Options(p) \/ ToOptions(a) = Nil  BY DEF ToOptions
  <2> QED BY <2>1, TidyPlain
<1> QED BY <1>3, <1>4, <1>5, <1>6, <1>7

\* The shaping words of one argument, and of two.
LEMMA ShapeTidy ==
    ASSUME NEW a, Tidy(a)
    PROVE  \A v \in {Numbered(a), ReverseOf(a), UniqueOf(a), RecToEntries(a), EntriesToRec(a),
                     RecOf(a), InvertKeys(a), KeysWord(a), ValuesWord(a)} :
               Failed(v) \/ Tidy(v)
<1>1. Tidy(Numbered(a)) /\ Tidy(ReverseOf(a)) /\ Tidy(UniqueOf(a))
    BY TidyNumbered, TidyReverse, TidyUnions
<1>2. Tidy(RecToEntries(a)) /\ (Failed(EntriesToRec(a)) \/ Tidy(EntriesToRec(a))) /\ Tidy(RecOf(a))
    BY TidyToEntries, TidyEntriesToRec, TidyRecOf
<1>3. Tidy(InvertKeys(a)) /\ Tidy(KeysWord(a)) /\ Tidy(ValuesWord(a))
    BY TidyInvert, TidyKeys, TidyValues
<1> QED BY <1>1, <1>2, <1>3

\* Those of two.
LEMMA ShapesTidy ==
    ASSUME NEW a, Tidy(a), NEW b, Tidy(b)
    PROVE  \A v \in {GroupByField(a, b), ByField(a, b), KeyOf(a, b), AppendOf(a, b),
                     ZipOf(a, b), DifferenceOf(a, b), IntersectionOf(a, b), UnionOf(a, b),
                     MergeOf(a, b), PickOf(a, b), OmitOf(a, b), DeleteOf(a, b)} :
               Failed(v) \/ Tidy(v)
<1>1. Failed(GroupByField(a, b)) \/ Tidy(GroupByField(a, b))  BY TidyGroups
<1>2. Failed(ByField(a, b)) \/ Tidy(ByField(a, b))  BY TidyByField
<1>3. Tidy(KeyOf(a, b)) /\ Tidy(AppendOf(a, b)) /\ Tidy(ZipOf(a, b))
    BY KeyOfIs, TidyAppend, TidyZip
<1>4. Tidy(DifferenceOf(a, b)) /\ Tidy(IntersectionOf(a, b)) /\ Tidy(UnionOf(a, b))
    BY TidySetOp, TidyUnions DEF DifferenceOf, IntersectionOf
<1>5. Tidy(MergeOf(a, b)) /\ Tidy(PickOf(a, b)) /\ Tidy(OmitOf(a, b))
    BY TidyMerge, TidyPick, TidyOmit
<1>6. Failed(DeleteOf(a, b)) \/ Tidy(DeleteOf(a, b))  BY TidyDelete
<1> QED BY <1>1, <1>2, <1>3, <1>4, <1>5, <1>6

-----------------------------------------------------------------------------
\* A word of n arguments that pushes v, if it does not fail.
PushesOne(n, v) ==
    \/ stack' = <<>>
    \/ n <= Len(stack) /\ stack' = Rest(stack, n)
    \/ n <= Len(stack) /\ ~Failed(v) /\ stack' = Rest(stack, n) \o <<v>>

\* The stack after it is tidy.
LEMMA OneTidyMore ==
    ASSUME TidyStack(stack), NEW n \in 0..3, NEW v, PushesOne(n, v),
           n <= Len(stack) => Failed(v) \/ Tidy(v)
    PROVE  TidyStack(stack')
<1>1. Tidy(v) => TidyStack(<<v>>)  BY TidyOne
<1>2. TidyAfter(stack, n, stack')  BY <1>1 DEF TidyAfter, PushesOne
<1> QED BY <1>2, StaysTidy

\* The words of one argument.
LEMMA UnaryTidy ==
    ASSUME TidyStack(stack),
           \/ word_not \/ word_to_bool \/ word_any_q \/ word_all_q \/ word_null_q \/ word_empty_q
           \/ word_string_q \/ word_number_q \/ word_record_q \/ word_is_array \/ word_to_options
           \/ word_numbered \/ word_reverse \/ word_unique \/ word_rec_to_entries
           \/ word_entries_to_rec \/ word_rec \/ word_invert_keys \/ word_keys \/ word_values
    PROVE  TidyStack(stack')
<1> DEFINE a == Args(stack, 1)[1]
           answers == {NotOf(a), ToBool(a), IsNull(a), IsEmpty(a), IsString(a), IsNum(a),
                       IsRecord(a), IsArray(a), AnyQ(a), AllQ(a), ToOptions(a)}
           shapes == {Numbered(a), ReverseOf(a), UniqueOf(a), RecToEntries(a), EntriesToRec(a),
                      RecOf(a), InvertKeys(a), KeysWord(a), ValuesWord(a)}
<1>1. Len(stack) \in Nat  BY DEF TidyStack, IsSequence
<1>2. 1 <= Len(stack) => Tidy(a)  BY TidyPop
<1>3. \E v \in answers \cup shapes : PushesOne(1, v)
  <2> USE <1>1 DEF Unary, Pops, Fails, Rest, Args, PushesOne
  <2>1. CASE word_not       BY <2>1 DEF word_not
  <2>2. CASE word_to_bool   BY <2>2 DEF word_to_bool
  <2>3. CASE word_any_q     BY <2>3 DEF word_any_q
  <2>4. CASE word_all_q     BY <2>4 DEF word_all_q
  <2>5. CASE word_null_q    BY <2>5 DEF word_null_q
  <2>6. CASE word_empty_q   BY <2>6 DEF word_empty_q
  <2>7. CASE word_string_q  BY <2>7 DEF word_string_q
  <2>8. CASE word_number_q  BY <2>8 DEF word_number_q
  <2>9. CASE word_record_q  BY <2>9 DEF word_record_q
  <2>10. CASE word_is_array BY <2>10 DEF word_is_array
  <2>11. CASE word_to_options      BY <2>11 DEF word_to_options
  <2>12. CASE word_numbered        BY <2>12 DEF word_numbered
  <2>13. CASE word_reverse         BY <2>13 DEF word_reverse
  <2>14. CASE word_unique          BY <2>14 DEF word_unique
  <2>15. CASE word_rec_to_entries  BY <2>15 DEF word_rec_to_entries
  <2>16. CASE word_entries_to_rec  BY <2>16 DEF word_entries_to_rec
  <2>17. CASE word_rec             BY <2>17 DEF word_rec
  <2>18. CASE word_invert_keys     BY <2>18 DEF word_invert_keys
  <2>19. CASE word_keys            BY <2>19 DEF word_keys
  <2>20. CASE word_values          BY <2>20 DEF word_values
  <2> QED BY <2>1, <2>2, <2>3, <2>4, <2>5, <2>6, <2>7, <2>8, <2>9, <2>10, <2>11, <2>12, <2>13,
             <2>14, <2>15, <2>16, <2>17, <2>18, <2>19, <2>20
<1>4. \A v \in answers : Failed(v) \/ Tidy(v)  BY AnswerTidy
<1>5. Tidy(a) => \A v \in shapes : Failed(v) \/ Tidy(v)  BY ShapeTidy
<1> HIDE DEF answers, shapes, a
<1>6. PICK v \in answers \cup shapes : PushesOne(1, v)  BY <1>3
<1>7. 1 <= Len(stack) => Failed(v) \/ Tidy(v)  BY <1>2, <1>4, <1>5, <1>6
<1>8. 1 \in 0..3  OBVIOUS
<1> QED BY <1>6, <1>7, <1>8, OneTidyMore

\* The words of two arguments that answer.
LEMMA BinaryTidy ==
    ASSUME TidyStack(stack),
           \/ word_equals \/ word_not_equals \/ word_less_than \/ word_less_than_or_equal
           \/ word_greater_than \/ word_greater_than_or_equal \/ word_or \/ word_and
           \/ word_xor \/ word_nand \/ word_contains_q \/ word_any \/ word_all \/ word_has_key_q
    PROVE  TidyStack(stack')
<1> DEFINE a == Args(stack, 2)[1]
           b == Args(stack, 2)[2]
           answers == {Equal(a, b), NotEqual(a, b), Less(a, b), LessEq(a, b), More(a, b),
                       MoreEq(a, b), XorOf(a, b), NandOf(a, b), ContainsQ(a, b), AnyIn(a, b),
                       AllIn(a, b), OrOf(a, b), AndOf(a, b), HasKeyOf(a, b)}
<1>1. Len(stack) \in Nat  BY DEF TidyStack, IsSequence
<1>2. \E v \in answers : PushesOne(2, v)
  <2> USE <1>1 DEF Binary, Pops, Fails, Rest, Args, PushesOne
  <2>1. CASE word_equals      BY <2>1 DEF word_equals
  <2>2. CASE word_not_equals  BY <2>2 DEF word_not_equals
  <2>3. CASE word_less_than   BY <2>3 DEF word_less_than
  <2>4. CASE word_less_than_or_equal  BY <2>4 DEF word_less_than_or_equal
  <2>5. CASE word_greater_than        BY <2>5 DEF word_greater_than
  <2>6. CASE word_greater_than_or_equal  BY <2>6 DEF word_greater_than_or_equal
  <2>7. CASE word_or          BY <2>7 DEF word_or
  <2>8. CASE word_and         BY <2>8 DEF word_and
  <2>9. CASE word_xor         BY <2>9 DEF word_xor
  <2>10. CASE word_nand       BY <2>10 DEF word_nand
  <2>11. CASE word_contains_q BY <2>11 DEF word_contains_q
  <2>12. CASE word_any        BY <2>12 DEF word_any
  <2>13. CASE word_all        BY <2>13 DEF word_all
  <2>14. CASE word_has_key_q  BY <2>14 DEF word_has_key_q
  <2> QED BY <2>1, <2>2, <2>3, <2>4, <2>5, <2>6, <2>7, <2>8, <2>9, <2>10, <2>11, <2>12, <2>13,
             <2>14
<1>3. \A v \in answers : Failed(v) \/ Tidy(v)  BY AnswersTidy
<1> HIDE DEF answers
<1>4. PICK v \in answers : PushesOne(2, v)  BY <1>2
<1>5. 2 <= Len(stack) => Failed(v) \/ Tidy(v)  BY <1>3
<1>6. 2 \in 0..3  OBVIOUS
<1> QED BY <1>4, <1>5, <1>6, OneTidyMore

\* The words of two arguments that shape.
LEMMA ShapingTidy ==
    ASSUME TidyStack(stack),
           \/ word_group_by_field \/ word_by_field \/ word_key_of \/ word_append \/ word_zip
           \/ word_difference \/ word_intersection \/ word_union
           \/ word_merge \/ word_pick \/ word_omit \/ word_delete
    PROVE  TidyStack(stack')
<1> DEFINE a == Args(stack, 2)[1]
           b == Args(stack, 2)[2]
           refused == Fail("InvalidOperation")
           shapes == {GroupByField(a, b), ByField(a, b), KeyOf(a, b), AppendOf(a, b),
                      ZipOf(a, b), DifferenceOf(a, b), IntersectionOf(a, b), UnionOf(a, b),
                      MergeOf(a, b), PickOf(a, b), OmitOf(a, b), DeleteOf(a, b)}
<1>1. Len(stack) \in Nat  BY DEF TidyStack, IsSequence
<1>2. 2 <= Len(stack) => Tidy(a) /\ Tidy(b)  BY TidyPop
<1>3. PushesOne(1, refused) \/ \E v \in shapes : PushesOne(2, v)
  <2>1. RefusesTop => PushesOne(1, refused)
      BY <1>1 DEF RefusesTop, Unary, Pops, Fails, Rest, Args, PushesOne
  <2> HIDE DEF refused
  <2>2. Binary(GroupByField) => PushesOne(2, GroupByField(a, b))
      BY <1>1 DEF Binary, Pops, Fails, Rest, Args, PushesOne
  <2>3. Binary(ByField) => PushesOne(2, ByField(a, b))
      BY <1>1 DEF Binary, Pops, Fails, Rest, Args, PushesOne
  <2>4. CASE word_group_by_field
    <3>1. RefusesTop \/ Binary(GroupByField)  BY <2>4 DEF word_group_by_field
    <3> QED BY <2>1, <2>2, <3>1
  <2>5. CASE word_by_field
    <3>1. RefusesTop \/ Binary(ByField)  BY <2>5 DEF word_by_field
    <3> QED BY <2>1, <2>3, <3>1
  <2> USE <1>1 DEF Binary, Pops, Fails, Rest, Args, PushesOne
  <2>6. CASE word_key_of        BY <2>6 DEF word_key_of
  <2>7. CASE word_append        BY <2>7 DEF word_append
  <2>8. CASE word_zip           BY <2>8 DEF word_zip
  <2>9. CASE word_difference    BY <2>9 DEF word_difference
  <2>10. CASE word_intersection BY <2>10 DEF word_intersection
  <2>11. CASE word_union        BY <2>11 DEF word_union
  <2>12. CASE word_merge        BY <2>12 DEF word_merge
  <2>13. CASE word_pick         BY <2>13 DEF word_pick
  <2>14. CASE word_omit         BY <2>14 DEF word_omit
  <2>15. CASE word_delete       BY <2>15 DEF word_delete
  <2> QED BY <2>4, <2>5, <2>6, <2>7, <2>8, <2>9, <2>10, <2>11, <2>12, <2>13, <2>14, <2>15
<1>4. Tidy(a) /\ Tidy(b) => \A v \in shapes : Failed(v) \/ Tidy(v)  BY ShapesTidy
<1>5. Failed(refused)  BY DEF Failed, Fail
<1>6. 1 \in 0..3 /\ 2 \in 0..3  OBVIOUS
<1> HIDE DEF shapes, a, b, refused
<1>7. CASE PushesOne(1, refused)  BY <1>5, <1>6, <1>7, OneTidyMore
<1>8. CASE \E v \in shapes : PushesOne(2, v)
  <2>1. PICK v \in shapes : PushesOne(2, v)  BY <1>8
  <2>2. 2 <= Len(stack) => Failed(v) \/ Tidy(v)  BY <1>2, <1>4
  <2> QED BY <1>6, <2>1, <2>2, OneTidyMore
<1> QED BY <1>3, <1>7, <1>8

\* The words that choose among their arguments or move them, RELABEL and UNPACK.
LEMMA MovingTidy ==
    ASSUME TidyStack(stack),
           \/ word_drop \/ word_dup \/ word_swap \/ word_null \/ word_if \/ word_default
           \/ word_relabel \/ word_unpack
    PROVE  TidyStack(stack')
<1>1. Len(stack) \in Nat  BY DEF TidyStack, IsSequence
<1>2. \A n \in 0..3 : n <= Len(stack) => \A i \in 1..n : Tidy(Args(stack, n)[i])  BY TidyPop
<1> DEFINE A(n, i) == Args(stack, n)[i]
           Pushes(n, outs) == \/ stack' = <<>>
                              \/ n <= Len(stack) /\ stack' = Rest(stack, n)
                              \/ n <= Len(stack) /\ stack' = Rest(stack, n) \o outs
<1>3. /\ 1 <= Len(stack) => Tidy(A(1, 1))
      /\ 2 <= Len(stack) => Tidy(A(2, 1)) /\ Tidy(A(2, 2))
      /\ 3 <= Len(stack) => Tidy(A(3, 1)) /\ Tidy(A(3, 2)) /\ Tidy(A(3, 3))
    BY <1>2
<1>4. ASSUME NEW n \in 0..3, NEW outs, Pushes(n, outs), n <= Len(stack) => TidyStack(outs)
      PROVE  TidyStack(stack')
  <2>1. TidyAfter(stack, n, stack')  BY <1>4 DEF TidyAfter
  <2> QED BY <2>1, StaysTidy
<1>5. /\ TidyStack(<<>>)
      /\ \A v : Tidy(v) => TidyStack(<<v>>)
      /\ \A v, w : Tidy(v) /\ Tidy(w) => TidyStack(<<v, w>>)
  <2>1. Over(<<>>, {})  BY FewOver
  <2>2. ASSUME NEW v, Tidy(v), NEW w, Tidy(w) PROVE TidyStack(<<v, w>>)
    <3>1. Over(<<v, w>>, {v, w})  BY FewOver
    <3>2. \A x \in {v, w} : Tidy(x)  BY <2>2
    <3> QED BY <3>1, <3>2, TidyOver
  <2> QED BY <2>1, <2>2, TidyOne, TidyOver
<1>6. CASE word_drop
  <2>1. Pushes(1, <<>>)  BY <1>6 DEF word_drop, Pops, Fails, Rest, Args
  <2> QED BY <1>4, <1>5, <2>1
<1>7. CASE word_dup
  <2> DEFINE outs == <<A(1, 1), A(1, 1)>>
  <2>1. Pushes(1, Args(stack, 1) \o Args(stack, 1))
      BY <1>1, <1>7 DEF word_dup, Pops, Fails, Rest, Args
  <2>2. 1 <= Len(stack) => TidyStack(Args(stack, 1) \o Args(stack, 1))
    <3> SUFFICES ASSUME 1 <= Len(stack) PROVE TidyStack(Args(stack, 1) \o Args(stack, 1))
        OBVIOUS
    <3>1. PICK V : Over(stack, V) /\ \A v \in V : Tidy(v)  BY TidyOver
    <3>2. Over(Args(stack, 1), V)  BY <3>1, PopOver
    <3>3. TidyStack(Args(stack, 1))  BY <3>1, <3>2, TidyOver
    <3> QED BY <3>3, TidyPush
  <2> HIDE DEF Pushes
  <2> QED BY <1>4, <2>1, <2>2
<1>8. CASE word_swap
  <2> DEFINE outs == <<A(2, 2), A(2, 1)>>
  <2>1. Pushes(2, outs)  BY <1>1, <1>8 DEF word_swap, Pops, Fails, Rest, Args
  <2>2. 2 <= Len(stack) => TidyStack(outs)  BY <1>3, <1>5
  <2> HIDE DEF outs, Pushes
  <2> QED BY <1>4, <2>1, <2>2
<1>9. CASE word_null
  <2>1. Pushes(0, <<Nil>>)  BY <1>1, <1>9 DEF word_null, Pops, Fails, Rest, Args
  <2>2. TidyStack(<<Nil>>)  BY <1>5, TidyPlain
  <2>3. 0 \in 0..3  OBVIOUS
  <2> HIDE DEF Pushes
  <2> QED BY <1>4, <2>1, <2>2, <2>3
<1>10. CASE word_if
  <2> DEFINE out == If(A(3, 1), A(3, 2), A(3, 3))
  <2>1. Pushes(3, <<out>>)  BY <1>1, <1>10 DEF word_if, Ternary, Pops, Fails, Rest, Args
  <2>2. out \in {A(3, 2), A(3, 3)}  BY DEF If
  <2>3. 3 <= Len(stack) => Tidy(out)  BY <1>3, <2>2
  <2> HIDE DEF out, A, Pushes
  <2> QED BY <1>4, <1>5, <2>1, <2>3
<1>11. CASE word_default
  <2> DEFINE out == DefaultOf(A(2, 1), A(2, 2))
  <2>1. Pushes(2, <<out>>)  BY <1>1, <1>11 DEF word_default, Binary, Pops, Fails, Rest, Args
  <2>2. out \in {A(2, 1), A(2, 2)}  BY DEF DefaultOf
  <2>3. 2 <= Len(stack) => Tidy(out)  BY <1>3, <2>2
  <2> HIDE DEF out, A, Pushes
  <2> QED BY <1>4, <1>5, <2>1, <2>3
<1>12. CASE word_relabel
  <2> DEFINE out == RelabelOf(A(3, 1), A(3, 2), A(3, 3))
  <2>1. Pushes(3, <<out>>)  BY <1>1, <1>12 DEF word_relabel, Ternary, Pops, Fails, Rest, Args
  <2>2. 3 <= Len(stack) => Tidy(out)  BY <1>3, TidyRelabel
  <2> HIDE DEF out, A, Pushes
  <2> QED BY <1>4, <1>5, <2>1, <2>2
<1>13. CASE word_unpack
  <2> DEFINE a == Args(stack, 1)
             outs == IF IsContainer(a[1]) THEN Elements(a[1]) ELSE a
  <2>1. Pushes(1, outs)  BY <1>1, <1>13 DEF word_unpack, Pops, Rest, Args
  <2>2. 1 <= Len(stack) => TidyStack(outs)
    <3> SUFFICES ASSUME 1 <= Len(stack) PROVE TidyStack(outs)  OBVIOUS
    <3>1. PICK V : Over(stack, V) /\ \A v \in V : Tidy(v)  BY TidyOver
    <3>2. Over(a, V)  BY <3>1, PopOver
    <3>3. TidyStack(a)  BY <3>1, <3>2, TidyOver
    <3>4. TidyStack(Elements(a[1]))  BY <1>3, TidyValues
    <3> QED BY <3>3, <3>4
  <2> HIDE DEF outs, Pushes
  <2> QED BY <1>4, <2>1, <2>2
<1> QED BY <1>6, <1>7, <1>8, <1>9, <1>10, <1>11, <1>12, <1>13

\* Programs that shape containers keep them tidy: whatever they insert, rename,
\* invert, group or merge, a record has one entry for a key, at every depth.
THEOREM ShapingKeepsTidy ==
    ASSUME \A s \in Stacks : TidyStack(s)
    PROVE  ShapingSpec => []TidyStack(stack)
<1>1. Init => TidyStack(stack)  BY DEF Init
<1>2. TidyStack(stack) /\ [ShapingWord]_vars => TidyStack(stack)'
  <2> SUFFICES ASSUME TidyStack(stack), [ShapingWord]_vars
               PROVE  TidyStack(stack')
      BY DEF TidyStack, Tidy
  <2>1. CASE UNCHANGED vars  BY <2>1 DEF vars
  <2>2. CASE ComparingWord
      BY <2>2, UnaryTidy, BinaryTidy, MovingTidy DEF ComparingWord, BooleanWord, CoreWord
  <2>3. CASE KeyedWord  BY <2>3, UnaryTidy, ShapingTidy, MovingTidy DEF KeyedWord
  <2>4. CASE ShapeWord
      BY <2>4, UnaryTidy, BinaryTidy, ShapingTidy, MovingTidy DEF ShapeWord
  <2> QED BY <2>1, <2>2, <2>3, <2>4 DEF ShapingWord
<1> QED BY <1>1, <1>2, PTL DEF ShapingSpec

\* In every state of such a program records survive the round trips.
THEOREM ShapingRoundTrips ==
    ASSUME \A s \in Stacks : TidyStack(s)
    PROVE  ShapingSpec => []RecordsRoundTrip
<1>1. TidyStack(stack) => RecordsRoundTrip  BY RoundTripsHold
<1> QED BY <1>1, ShapingKeepsTidy, PTL

(***************************************************************************)
(* The words that group and match.                                         *)
(***************************************************************************)
\* What is selected are the elements at the positions.
LEMMA SelectsMembers ==
    ASSUME NEW s, NEW I, NEW t, Selects(t, s, I)
    PROVE  \A e : e \in ToSet(t) <=> \E i \in I : s[i] = e
<1>1. IsSequence(t)  BY DEF Selects
<1>2. PICK from \in [1..Len(t) -> I] :
         /\ \A i \in I : \E p \in 1..Len(t) : from[p] = i
         /\ \A p \in 1..Len(t) : t[p] = s[from[p]]
    BY DEF Selects
<1>3. \A e : e \in ToSet(t) <=> \E p \in 1..Len(t) : t[p] = e
  <2>1. DOMAIN t = 1..Len(t)  BY <1>1, SequenceIs
  <2> QED BY <2>1 DEF ToSet
<1>4. \A p \in 1..Len(t) : from[p] \in I  OBVIOUS
<1> QED BY <1>2, <1>3, <1>4

\* What is selected ends with the element at the last of the positions.
LEMMA LastSelected ==
    ASSUME NEW s, NEW I, I \subseteq Int, NEW t, Selects(t, s, I),
           NEW i \in I, \A k \in I : k <= i
    PROVE  t # <<>> /\ Last(t) = s[i]
<1>1. Len(t) \in Nat  BY DEF Selects, IsSequence
<1>2. PICK from \in [1..Len(t) -> I] :
         /\ \A k \in I : \E p \in 1..Len(t) : from[p] = k
         /\ \A p, q \in 1..Len(t) : p < q => from[p] < from[q]
         /\ \A p \in 1..Len(t) : t[p] = s[from[p]]
    BY DEF Selects
<1>3. PICK p \in 1..Len(t) : from[p] = i  BY <1>2
<1>4. Len(t) \in 1..Len(t)  BY <1>1
<1>5. from[Len(t)] \in I /\ from[Len(t)] <= i  BY <1>4
<1>6. p = Len(t)
  <2>1. p < Len(t) => i < from[Len(t)]  BY <1>2, <1>3, <1>4
  <2>2. i \in Int /\ from[Len(t)] \in Int  BY <1>5
  <2>3. ~(p < Len(t))  BY <1>5, <2>1, <2>2
  <2> QED BY <1>1, <2>3
<1>7. t[Len(t)] = s[i]  BY <1>2, <1>3, <1>6
<1>8. t # <<>>  BY <1>4
<1> QED BY <1>7, <1>8 DEF Last

\* Nothing is selected at no positions.
LEMMA NothingSelected ==
    ASSUME NEW s, NEW I, I = {}, NEW t, Selects(t, s, I)
    PROVE  t = <<>>
<1>1. IsSequence(t)  BY DEF Selects
<1>2. PICK from \in [1..Len(t) -> I] : TRUE  BY DEF Selects
<1>3. \A p \in 1..Len(t) : from[p] \in I  OBVIOUS
<1>4. 1..Len(t) = {}  BY <1>3
<1>5. Len(t) \in Nat  BY <1>1 DEF IsSequence
<1>6. Len(t) # 0 => 1 \in 1..Len(t)  BY <1>5
<1>7. Len(t) = 0  BY <1>4, <1>6
<1> QED BY <1>1, <1>7 DEF IsSequence

\* The truthy ones among what is selected.
LEMMA TruthyOfSelected ==
    ASSUME NEW s, NEW I, I \subseteq Int, NEW t, Selects(t, s, I)
    PROVE  Selects(Filtered(t, Truthy), s, {i \in I : Truthy(s[i])})
<1> DEFINE J == {q \in 1..Len(t) : Truthy(t[q])}
           K == {i \in I : Truthy(s[i])}
           u == Picked(t, J)
<1>1. IsSequence(t) /\ J \in SUBSET (1..Len(t))  BY DEF Selects
<1>2. Selects(u, t, J)
  <2> HIDE DEF J
  <2> QED BY <1>1, PickedFrom
<1>3. Filtered(t, Truthy) = u  BY Zenon DEF Filtered
<1> HIDE DEF u
<1>4. PICK from \in [1..Len(t) -> I] :
         /\ \A i \in I : \E p \in 1..Len(t) : from[p] = i
         /\ \A p, q \in 1..Len(t) : p < q => from[p] < from[q]
         /\ \A p \in 1..Len(t) : t[p] = s[from[p]]
    BY DEF Selects
<1>5. PICK at \in [1..Len(u) -> J] :
         /\ \A i \in J : \E p \in 1..Len(u) : at[p] = i
         /\ \A p, q \in 1..Len(u) : p < q => at[p] < at[q]
         /\ \A p \in 1..Len(u) : u[p] = t[at[p]]
    BY <1>2 DEF Selects
<1>6. \A p \in 1..Len(u) : at[p] \in 1..Len(t) /\ Truthy(t[at[p]])  BY DEF J
<1> DEFINE to == [p \in 1..Len(u) |-> from[at[p]]]
<1>7. to \in [1..Len(u) -> K]
  <2>1. ASSUME NEW p \in 1..Len(u) PROVE from[at[p]] \in K
    <3>1. at[p] \in 1..Len(t) /\ Truthy(t[at[p]])  BY <1>6
    <3>2. t[at[p]] = s[from[at[p]]] /\ from[at[p]] \in I  BY <1>4, <3>1
    <3> QED BY <3>1, <3>2
  <2> QED BY <2>1
<1>8. \A p \in 1..Len(u) : to[p] = from[at[p]]  OBVIOUS
<1> HIDE DEF to
<1>9. ASSUME NEW i \in K PROVE \E p \in 1..Len(u) : to[p] = i
  <2>1. PICK q \in 1..Len(t) : from[q] = i  BY <1>4
  <2>2. q \in J  BY <1>4, <2>1
  <2>3. PICK p \in 1..Len(u) : at[p] = q  BY <1>5, <2>2
  <2> QED BY <1>8, <2>1, <2>3
<1>10. \A p, q \in 1..Len(u) : p < q => to[p] < to[q]
  <2> TAKE p, q \in 1..Len(u)
  <2>1. p < q => at[p] < at[q]  BY <1>5
  <2> QED BY <1>4, <1>6, <1>8, <2>1
<1>11. \A p \in 1..Len(u) : u[p] = s[to[p]]  BY <1>4, <1>5, <1>6, <1>8
<1>12. IsSequence(u)  BY <1>2 DEF Selects
<1>13. Selects(u, s, K)
  <2> HIDE DEF K
  <2> QED BY <1>7, <1>9, <1>10, <1>11, <1>12 DEF Selects
<1> QED BY <1>3, <1>13

\* A group holds the elements that name it.
NamesGroup(item, field, k) ==
    \E j \in 1..Len(GroupsNamed(item, field)) :
        value_to_key_string(GroupsNamed(item, field)[j]) = k

\* A pair for an element and a group that it names.
LEMMA KeyedNames ==
    ASSUME NEW c, IsSequence(Elements(c)), NEW field, NEW k, NEW e
    PROVE  IsKeyed(c, field, <<k, e>>) <=> e \in ToSet(Elements(c)) /\ NamesGroup(e, field, k)
<1> DEFINE s == Elements(c)
<1>1. \A x : x \in ToSet(s) <=> \E i \in 1..Len(s) : s[i] = x
  <2>1. DOMAIN s = 1..Len(s)  BY SequenceIs
  <2> QED BY <2>1 DEF ToSet
<1>2. IsKeyed(c, field, <<k, e>>) <=>
         \E i \in 1..Len(s) : \E j \in 1..Len(GroupsNamed(s[i], field)) :
             <<k, e>> = <<value_to_key_string(GroupsNamed(s[i], field)[j]), s[i]>>
    BY Zenon DEF IsKeyed
<1> HIDE DEF s
<1>3. \A i \in 1..Len(s) : \A j \in 1..Len(GroupsNamed(s[i], field)) :
         <<k, e>> = <<value_to_key_string(GroupsNamed(s[i], field)[j]), s[i]>> <=>
             k = value_to_key_string(GroupsNamed(s[i], field)[j]) /\ e = s[i]
    OBVIOUS
<1>4. IsKeyed(c, field, <<k, e>>) <=> \E i \in 1..Len(s) : s[i] = e /\ NamesGroup(s[i], field, k)
    BY <1>2, <1>3 DEF NamesGroup
<1> QED BY <1>1, <1>4 DEF s

\* A group of GROUP-BY-FIELD holds exactly the elements that name it.
LEMMA GroupMembers ==
    ASSUME NEW c, Tidy(c), NEW field, NEW pairs, PairsAre(pairs, c, field), NEW s,
           GroupsSoFar(s, pairs, Len(pairs)), NEW j, j \in 1..Len(s), NEW e
    PROVE  e \in ToSet(s[j][2][2]) <=>
               e \in ToSet(Elements(c)) /\ NamesGroup(e, field, s[j][1])
<1> DEFINE k == s[j][1]
           I == MembersOf(pairs, Len(pairs), k)
           t == s[j][2][2]
<1>1. OneEntryEach(s) /\ Has(s, k)
  <2>1. Record(Rec(s)) /\ Rec(s)[2] = s  BY DEF GroupsSoFar, Rec
  <2> QED BY <2>1 DEF Record, Has
<1>2. Get(s, k) = s[j][2]  BY <1>1, GetIs
<1>3. Selects(t, Seconds(pairs), I)  BY <1>1, <1>2 DEF GroupsSoFar
<1> HIDE DEF t, I
<1>4. e \in ToSet(t) <=> \E p \in I : Seconds(pairs)[p] = e  BY <1>3, SelectsMembers
<1>5. \A p \in 1..Len(pairs) : Seconds(pairs)[p] = pairs[p][2]  BY DEF Seconds
<1>6. e \in ToSet(t) <=> \E p \in 1..Len(pairs) : pairs[p][1] = k /\ pairs[p][2] = e
    BY <1>4, <1>5 DEF I, MembersOf
<1>7. \A x : (\E p \in 1..Len(pairs) : pairs[p] = x) <=> IsKeyed(c, field, x)
    BY DEF PairsAre
<1>8. \A p \in 1..Len(pairs) : pairs[p] = <<pairs[p][1], pairs[p][2]>>
  <2> TAKE p \in 1..Len(pairs)
  <2>1. IsKeyed(c, field, pairs[p])  BY <1>7
  <2> QED BY <2>1 DEF IsKeyed
<1>9. e \in ToSet(t) <=> \E p \in 1..Len(pairs) : pairs[p] = <<k, e>>
  <2> HIDE DEF k
  <2> QED BY <1>6, <1>8
<1>10. IsSequence(Elements(c))  BY TidyParts
<1> HIDE DEF k
<1>11. e \in ToSet(t) <=> e \in ToSet(Elements(c)) /\ NamesGroup(e, field, k)
    BY <1>7, <1>9, <1>10, KeyedNames
<1> QED BY <1>11 DEF t, k

\* Every element that names a group is in one.
LEMMA GroupedSomewhere ==
    ASSUME NEW c, Tidy(c), NEW field, NEW pairs, PairsAre(pairs, c, field), NEW s,
           GroupsSoFar(s, pairs, Len(pairs)), NEW e \in ToSet(Elements(c)),
           GroupsNamed(e, field) # <<>>
    PROVE  \E j \in 1..Len(s) : e \in ToSet(s[j][2][2])
<1>1. IsSequence(Elements(c)) /\ \A i \in 1..Len(Elements(c)) : Tidy(Elements(c)[i])
    BY TidyParts
<1>2. Tidy(e)
  <2>1. DOMAIN Elements(c) = 1..Len(Elements(c))  BY <1>1, SequenceIs
  <2> QED BY <1>1, <2>1 DEF ToSet
<1>3. IsSequence(GroupsNamed(e, field))  BY <1>2, GroupsNamedIs
<1>4. 1 \in 1..Len(GroupsNamed(e, field))  BY <1>3 DEF IsSequence
<1> DEFINE k == value_to_key_string(GroupsNamed(e, field)[1])
<1>5. NamesGroup(e, field, k)  BY <1>4 DEF NamesGroup
<1> HIDE DEF k
<1>6. IsKeyed(c, field, <<k, e>>)  BY <1>1, <1>5, KeyedNames
<1>7. PICK p \in 1..Len(pairs) : pairs[p] = <<k, e>>  BY <1>6 DEF PairsAre
<1>8. Has(s, k)  BY <1>7 DEF GroupsSoFar
<1>9. PICK j \in 1..Len(s) : s[j][1] = k  BY <1>8 DEF Has
<1>10. e \in ToSet(s[j][2][2])  BY <1>5, <1>9, GroupMembers
<1> QED BY <1>10

\* The elements with the text of their field.
FieldPairs(s, field) ==
    [i \in 1..Len(s) |-> <<value_to_key_string(FieldOf(s[i], field)), s[i]>>]

\* With one group for each element, its pairs are those of GROUP-BY-FIELD.
LEMMA SinglePairs ==
    ASSUME NEW c, Tidy(c), NEW field,
           \A e \in ToSet(Elements(c)) : Kind(FieldOf(e, field)) # "array"
    PROVE  FlattenSeq([i \in 1..Len(Elements(c)) |-> KeyedBy(Elements(c)[i], field)])
               = FieldPairs(Elements(c), field)
<1> DEFINE s == Elements(c)
           n == Len(s)
           pair(i) == <<value_to_key_string(FieldOf(s[i], field)), s[i]>>
           parts == [i \in 1..n |-> KeyedBy(s[i], field)]
           X == {pair(i) : i \in 1..n}
<1>1. IsSequence(s) /\ n \in Nat /\ \A i \in 1..n : Tidy(s[i])  BY TidyParts DEF IsSequence
<1>2. \A i \in 1..n : Kind(FieldOf(s[i], field)) # "array"
  <2>1. DOMAIN s = 1..n  BY <1>1, SequenceIs
  <2> QED BY <2>1 DEF ToSet
<1> HIDE DEF s, n
<1>3. ASSUME NEW i \in 1..n
      PROVE  KeyedBy(s[i], field) \in Seq(X) /\ Len(KeyedBy(s[i], field)) = 1
             /\ KeyedBy(s[i], field)[1] = pair(i)
  <2> DEFINE g == GroupsNamed(s[i], field)
  <2>1. Len(g) = 1 /\ g[1] = FieldOf(s[i], field)
    <3>1. Tidy(s[i]) /\ Kind(FieldOf(s[i], field)) # "array"  BY <1>1, <1>2
    <3> QED BY <3>1, GroupsNamedIs
  <2>2. KeyedBy(s[i], field) = [k \in 1..Len(g) |-> <<value_to_key_string(g[k]), s[i]>>]
      BY Zenon DEF KeyedBy
  <2> HIDE DEF g
  <2>3. KeyedBy(s[i], field) = [k \in 1..1 |-> <<value_to_key_string(g[k]), s[i]>>]
      BY <2>1, <2>2
  <2>4. \A k \in 1..1 : k = 1  OBVIOUS
  <2>5. KeyedBy(s[i], field) = [k \in 1..1 |-> pair(i)]  BY <2>1, <2>3, <2>4
  <2>6. pair(i) \in X  OBVIOUS
  <2> HIDE DEF pair, X
  <2> QED BY <2>5, <2>6
<1> HIDE DEF pair, X
<1>4. parts \in Seq(Seq(X)) /\ Len(parts) = n /\ \A i \in 1..n : parts[i] = KeyedBy(s[i], field)
  <2>1. parts \in [1..n -> Seq(X)]  BY <1>3
  <2>2. n \in Nat  BY <1>1
  <2> QED BY <2>1, <2>2, SeqDef
<1> HIDE DEF parts
<1>5. FlattenSeq(parts) = [i \in 1..n |-> parts[i][1]]
  <2>1. \A i \in 1..Len(parts) : Len(parts[i]) = 1  BY <1>3, <1>4
  <2>2. FlattenSeq(parts) = [i \in 1..Len(parts) |-> parts[i][1]]
      BY <1>4, <2>1, FlattenSingles
  <2> QED BY <1>4, <2>2
<1>6. \A i \in 1..n : parts[i][1] = pair(i)  BY <1>3, <1>4
<1>7. FlattenSeq(parts) = [i \in 1..n |-> pair(i)]  BY <1>5, <1>6
<1>8. [i \in 1..n |-> pair(i)] = FieldPairs(s, field)  BY Zenon DEF FieldPairs, pair, n
<1> QED BY <1>7, <1>8 DEF parts, s, n

\* BY-FIELD collects the pairs of the truthy elements.
LEMMA ByFieldIs ==
    ASSUME NEW c, NEW field, ~Failed(ByField(c, field))
    PROVE  ByField(c, field) = Rec(Collected(FieldPairs(Filtered(Elements(c), Truthy), field)))
<1>1. \/ ByField(c, field) = Fail("InvalidOperation")
      \/ ByField(c, field) = Rec(Collected(FieldPairs(Filtered(Elements(c), Truthy), field)))
    BY Zenon DEF ByField, FieldPairs
<1>2. Failed(Fail("InvalidOperation"))  BY DEF Failed, Fail
<1> QED BY <1>1, <1>2

\* BY-FIELD has the last truthy element of each group.
LEMMA LastOfGroup ==
    ASSUME NEW s, IsSequence(s), NEW field, NEW g,
           GroupsSoFar(g, FieldPairs(s, field), Len(FieldPairs(s, field))),
           NEW j, j \in 1..Len(g), NEW kept, kept = Filtered(g[j][2][2], Truthy),
           NEW b, b = Collected(FieldPairs(Filtered(s, Truthy), field))
    PROVE  IF kept = <<>> THEN ~Has(b, g[j][1]) ELSE Get(b, g[j][1]) = Last(kept)
<1> DEFINE n == Len(s)
           k == g[j][1]
           pairs == FieldPairs(s, field)
           key(i) == value_to_key_string(FieldOf(s[i], field))
           all == Seconds(pairs)
           I == MembersOf(pairs, Len(pairs), k)
           t == g[j][2][2]
           K == {i \in I : Truthy(all[i])}
           J == {i \in 1..Len(s) : Truthy(s[i])}
           u == Filtered(s, Truthy)
           some == FieldPairs(u, field)
<1>1. n \in Nat  BY DEF IsSequence
<1>2. Len(pairs) = n /\ \A i \in 1..n : pairs[i][1] = key(i) /\ pairs[i][2] = s[i]
  <2> HIDE DEF n
  <2>1. pairs = [i \in 1..n |-> <<key(i), s[i]>>]  BY Zenon DEF FieldPairs, n
  <2> HIDE DEF pairs, key
  <2> QED BY <1>1, <2>1
<1>3. \A i \in 1..n : all[i] = s[i]  BY <1>2 DEF Seconds
<1>4. Selects(t, all, I)
  <2>1. Record(Rec(g)) /\ Rec(g)[2] = g  BY DEF GroupsSoFar, Rec
  <2>2. OneEntryEach(g) /\ Has(g, k)  BY <2>1 DEF Record, Has
  <2>3. Get(g, k) = g[j][2]  BY <2>2, GetIs
  <2> QED BY <2>2, <2>3 DEF GroupsSoFar
<1>5. I \subseteq Int /\ \A i : i \in I <=> i \in 1..n /\ key(i) = k
  <2> HIDE DEF pairs, key, k
  <2> QED BY <1>1, <1>2 DEF MembersOf
<1> HIDE DEF t, I, all, pairs
<1>6. Selects(kept, all, K)  BY <1>4, <1>5, TruthyOfSelected DEF t
<1>7. \A i : i \in K <=> i \in 1..n /\ key(i) = k /\ Truthy(s[i])
  <2> HIDE DEF key, k, n
  <2> QED BY <1>3, <1>5
<1> HIDE DEF K
<1>8. Selects(u, s, J)
  <2>1. J \in SUBSET (1..Len(s))  OBVIOUS
  <2>2. u = Picked(s, J)  BY Zenon DEF Filtered
  <2> HIDE DEF J, u
  <2> QED BY <2>1, <2>2, PickedFrom
<1> HIDE DEF u
<1>9. PICK at \in [1..Len(u) -> J] :
         /\ \A i \in J : \E p \in 1..Len(u) : at[p] = i
         /\ \A p, q \in 1..Len(u) : p < q => at[p] < at[q]
         /\ \A p \in 1..Len(u) : u[p] = s[at[p]]
    BY <1>8 DEF Selects
<1>10. \A p \in 1..Len(u) : at[p] \in 1..n /\ Truthy(s[at[p]])  BY DEF J
<1>11. IsSequence(some) /\ Len(some) = Len(u)
       /\ \A p \in 1..Len(u) : some[p][1] = key(at[p]) /\ some[p][2] = s[at[p]]
  <2> DEFINE m == Len(u)
             name(p) == value_to_key_string(FieldOf(u[p], field))
  <2>1. m \in Nat  BY <1>8 DEF Selects, IsSequence
  <2>2. some = [p \in 1..m |-> <<name(p), u[p]>>]  BY Zenon DEF FieldPairs
  <2>3. \A p \in 1..m : name(p) = key(at[p])  BY <1>9
  <2> HIDE DEF m, some, name, key
  <2>4. Len(some) = m /\ some = [p \in 1..m |-> some[p]]
        /\ \A p \in 1..m : some[p][1] = name(p) /\ some[p][2] = u[p]
      BY <2>1, <2>2
  <2>5. IsSequence(some)  BY <2>1, <2>4 DEF IsSequence
  <2> QED BY <1>9, <2>3, <2>4, <2>5 DEF m
<1>12. b = Collected(some)  BY Zenon DEF some, u
<1> HIDE DEF some, key, k, n, J
<1>13. CASE K = {}
  <2>1. kept = <<>>  BY <1>6, <1>13, NothingSelected
  <2>2. ASSUME Has(b, k) PROVE FALSE
    <3>1. Collects(b, some, Len(some))  BY <1>11, <1>12, CollectedHolds
    <3>2. PICK e \in 1..Len(b) : b[e][1] = k  BY <2>2 DEF Has
    <3>3. PICK p \in 1..Len(some) : b[e] = <<some[p][1], some[p][2]>>  BY <3>1 DEF Collects
    <3>4. some[p][1] = k  BY <3>2, <3>3
    <3>5. p \in 1..Len(u)  BY <1>11
    <3>6. at[p] \in K  BY <1>7, <1>10, <1>11, <3>4, <3>5
    <3> QED BY <1>13, <3>6
  <2> QED BY <2>1, <2>2 DEF k
<1>14. CASE K # {}
  <2>1. PICK m \in K : \A i \in K : i <= m
    <3>1. K \in SUBSET (1..n)  BY <1>7
    <3>2. Max(K) \in K /\ \A i \in K : i <= Max(K)  BY <1>1, <1>14, <3>1, MaxOfSome
    <3> QED BY <3>2
  <2>2. K \subseteq Int  BY <1>1, <1>7
  <2>3. kept # <<>> /\ Last(kept) = s[m]
    <3>1. kept # <<>> /\ Last(kept) = all[m]  BY <1>6, <2>1, <2>2, LastSelected
    <3> QED BY <1>3, <1>7, <3>1
  <2>4. m \in J  BY <1>7 DEF J, n
  <2>5. PICK p \in 1..Len(u) : at[p] = m  BY <1>9, <2>4
  <2>6. some[p][1] = k /\ some[p][2] = s[m] /\ p \in 1..Len(some)  BY <1>7, <1>11, <2>5
  <2>7. ASSUME NEW q \in p + 1..Len(some) PROVE some[q][1] # some[p][1]
    <3> SUFFICES ASSUME some[q][1] = some[p][1] PROVE FALSE  OBVIOUS
    <3>1. q \in 1..Len(u) /\ p < q  BY <1>8, <1>11 DEF Selects, IsSequence
    <3>2. at[q] \in K  BY <1>7, <1>10, <1>11, <2>6, <3>1
    <3>3. at[p] < at[q]  BY <1>9, <3>1
    <3>4. at[q] <= m /\ m \in Int /\ at[q] \in Int  BY <2>1, <2>2, <3>2
    <3> QED BY <2>5, <3>3, <3>4
  <2>8. Get(b, some[p][1]) = some[p][2]  BY <1>11, <1>12, <2>6, <2>7, CollectedGet
  <2> QED BY <2>3, <2>6, <2>8 DEF k
<1> QED BY <1>13, <1>14

\* GROUP-BY-FIELD puts an element into exactly the groups its field names, and
\* BY-FIELD keeps the last of them that is truthy, whatever the values are.
LEMMA GroupsHold == TidyStack(stack) => GroupsAgree
<1> SUFFICES ASSUME TidyStack(stack), NEW i \in 1..Len(stack) - 1,
                    Kind(stack[i + 1]) = "string", IsContainer(stack[i]),
                    ~Failed(GroupByField(stack[i], stack[i + 1]))
             PROVE  LET c == stack[i]
                        f == stack[i + 1]
                        g == GroupByField(c, f)
                        b == ByField(c, f)
                        Names(item, k) == \E j \in 1..Len(GroupsNamed(item, f)) :
                                              value_to_key_string(GroupsNamed(item, f)[j]) = k
                        Single(item) == Kind(FieldOf(item, f)) # "array"
                    IN  /\ \A j \in 1..Size(g) :
                              ToSet(g[2][j][2][2])
                                  = {e \in ToSet(Elements(c)) : Names(e, g[2][j][1])}
                        /\ \A e \in ToSet(Elements(c)) : GroupsNamed(e, f) # <<>> =>
                              \E j \in 1..Size(g) : e \in ToSet(g[2][j][2][2])
                        /\ ~Failed(b) /\ (\A e \in ToSet(Elements(c)) : Single(e)) =>
                              \A j \in 1..Size(g) :
                                  LET kept == Filtered(g[2][j][2][2], Truthy)
                                  IN  IF kept = <<>> THEN ~Has(b[2], g[2][j][1])
                                      ELSE Get(b[2], g[2][j][1]) = Last(kept)
    BY Zenon DEF GroupsAgree
<1> DEFINE c == stack[i]
           f == stack[i + 1]
           g == GroupByField(c, f)
           b == ByField(c, f)
<1>1. Tidy(c)
  <2>1. Len(stack) \in Nat  BY DEF TidyStack, IsSequence
  <2>2. i \in 1..Len(stack)  BY <2>1
  <2> QED BY <2>2 DEF TidyStack
<1> HIDE DEF c, f
<1>2. PICK pairs : /\ PairsAre(pairs, c, f)
                   /\ pairs = FlattenSeq([k \in 1..Len(Elements(c)) |->
                                             KeyedBy(Elements(c)[k], f)])
                   /\ g = Rec(g[2])
                   /\ GroupsSoFar(g[2], pairs, Len(pairs))
    BY <1>1, GroupByFieldIs DEF c, f
<1> HIDE DEF g
<1>3. Size(g) = Len(g[2])
  <2>1. Kind(g) = "record" /\ Len(g[2]) \in Nat
    <3>1. Record(Rec(g[2])) /\ Rec(g[2])[2] = g[2]  BY <1>2 DEF GroupsSoFar, Rec
    <3>2. \A x : Kind(Rec(x)) = "record"  BY DEF Kind, Rec
    <3> QED BY <1>2, <3>1, <3>2 DEF Record, IsSequence
  <2> QED BY <2>1 DEF Size, Elements
<1>4. \A j \in 1..Size(g) :
         ToSet(g[2][j][2][2]) = {e \in ToSet(Elements(c)) : NamesGroup(e, f, g[2][j][1])}
  <2> TAKE j \in 1..Size(g)
  <2>1. j \in 1..Len(g[2])  BY <1>3
  <2>2. \A e : e \in ToSet(g[2][j][2][2]) <=>
                   e \in ToSet(Elements(c)) /\ NamesGroup(e, f, g[2][j][1])
      BY <1>1, <1>2, <2>1, GroupMembers
  <2> QED BY <2>2
<1>5. \A e \in ToSet(Elements(c)) : GroupsNamed(e, f) # <<>> =>
          \E j \in 1..Size(g) : e \in ToSet(g[2][j][2][2])
    BY <1>1, <1>2, <1>3, GroupedSomewhere
<1>6. ASSUME ~Failed(b), \A e \in ToSet(Elements(c)) : Kind(FieldOf(e, f)) # "array",
             NEW j \in 1..Size(g), NEW kept, kept = Filtered(g[2][j][2][2], Truthy)
      PROVE  IF kept = <<>> THEN ~Has(b[2], g[2][j][1]) ELSE Get(b[2], g[2][j][1]) = Last(kept)
  <2> DEFINE s == Elements(c)
             r == Collected(FieldPairs(Filtered(s, Truthy), f))
  <2>1. pairs = FieldPairs(s, f)  BY <1>1, <1>2, <1>6, SinglePairs
  <2>2. b = Rec(r)  BY <1>6, ByFieldIs
  <2>3. b[2] = r  BY <2>2 DEF Rec
  <2>4. IsSequence(s)  BY <1>1, TidyParts
  <2>5. GroupsSoFar(g[2], FieldPairs(s, f), Len(FieldPairs(s, f)))  BY <1>2, <2>1
  <2>6. j \in 1..Len(g[2])  BY <1>3
  <2> DEFINE gs == g[2]
  <2> HIDE DEF s, r, b, gs
  <2>7. IF kept = <<>> THEN ~Has(r, gs[j][1]) ELSE Get(r, gs[j][1]) = Last(kept)
    <3>1. /\ GroupsSoFar(gs, FieldPairs(s, f), Len(FieldPairs(s, f)))
          /\ j \in 1..Len(gs)
          /\ kept = Filtered(gs[j][2][2], Truthy)
        BY <1>6, <2>5, <2>6 DEF gs
    <3>2. r = Collected(FieldPairs(Filtered(s, Truthy), f))  BY Zenon DEF r
    <3> QED BY <2>4, <3>1, <3>2, LastOfGroup
  <2> QED BY <2>3, <2>7 DEF gs
<1>7. ASSUME ~Failed(b), \A e \in ToSet(Elements(c)) : Kind(FieldOf(e, f)) # "array",
             NEW j \in 1..Size(g)
      PROVE  LET kept == Filtered(g[2][j][2][2], Truthy)
             IN  IF kept = <<>> THEN ~Has(b[2], g[2][j][1])
                 ELSE Get(b[2], g[2][j][1]) = Last(kept)
    BY <1>6, <1>7
<1> QED BY <1>4, <1>5, <1>7 DEF NamesGroup, g, b, c, f

\* As many elements are selected as there are positions.
LEMMA SelectsSize ==
    ASSUME NEW s, NEW n, n \in Nat, NEW I, I \in SUBSET (1..n), NEW t, Selects(t, s, I)
    PROVE  IsFiniteSet(I) /\ Cardinality(I) = Len(t) /\ Len(t) \in Nat
<1> DEFINE m == Len(t)
<1>1. PICK from \in [1..m -> I] :
         /\ \A i \in I : \E p \in 1..m : from[p] = i
         /\ \A p, q \in 1..m : p < q => from[p] < from[q]
    BY DEF Selects
<1>2. m \in Nat  BY DEF Selects, IsSequence
<1> HIDE DEF m
<1>3. ASSUME NEW p \in 1..m, NEW q \in 1..m, from[p] = from[q] PROVE p = q
  <2>1. from[p] \in 1..n /\ from[q] \in 1..n  OBVIOUS
  <2>2. ~(p < q) /\ ~(q < p)  BY <1>1, <1>3, <2>1
  <2> QED BY <1>2, <2>2
<1>4. from \in Injection(1..m, I)  BY <1>1, <1>3 DEF Injection, IsInjective
<1>5. from \in Surjection(1..m, I)  BY <1>1 DEF Surjection
<1>6. ExistsBijection(1..m, I)  BY <1>4, <1>5 DEF ExistsBijection, Bijection
<1>7. IsFiniteSet(1..m) /\ Cardinality(1..m) = m
  <2>1. 1 \in Int /\ m \in Int /\ (IF 1 > m THEN 0 ELSE m - 1 + 1) = m  BY <1>2
  <2> QED BY <2>1, FS_Interval, Zenon
<1>8. IsFiniteSet(I) /\ Cardinality(I) = Cardinality(1..m)  BY <1>6, <1>7, FS_Bijection
<1> QED BY <1>2, <1>7, <1>8 DEF m

\* Every key has a first element.
LEMMA FirstOfKey ==
    ASSUME NEW s, NEW n, n \in Nat, NEW j \in 1..n
    PROVE  \E i \in Firsts(s, n) : SameKey(s[i], s[j])
<1> DEFINE S == {i \in 1..n : SameKey(s[i], s[j])}
           m == Min(S)
<1>1. S \in SUBSET (1..n) /\ j \in S  BY DEF SameKey
<1>2. \A i : i \in S <=> i \in 1..n /\ SameKey(s[i], s[j])  OBVIOUS
<1> HIDE DEF S
<1>3. m \in S /\ \A i \in S : m <= i  BY <1>1, MinOfSome
<1> HIDE DEF m
<1>4. m \in 1..n /\ SameKey(s[m], s[j])  BY <1>2, <1>3
<1>5. ASSUME NEW k \in 1..m-1, SameKey(s[k], s[m]) PROVE FALSE
  <2>1. SameKey(s[k], s[j])  BY <1>4, <1>5 DEF SameKey
  <2>2. k \in 1..n /\ ~(m <= k)  BY <1>4
  <2> QED BY <1>2, <1>3, <2>1, <2>2
<1>6. m \in Firsts(s, n)  BY <1>4, <1>5 DEF Firsts
<1> QED BY <1>4, <1>6

\* The keys of some elements.
KeysIn(s) == {value_to_key(s[i]) : i \in 1..Len(s)}

\* There is one first element for each of them.
LEMMA FirstsCount ==
    ASSUME NEW s, NEW n, n = Len(s), n \in Nat, NEW t, Selects(t, s, Firsts(s, n))
    PROVE  Len(t) = Cardinality(KeysIn(s))
<1> DEFINE I == Firsts(s, n)
           key == [i \in I |-> value_to_key(s[i])]
<1>1. I \in SUBSET (1..n)  BY DEF Firsts
<1>2. IsFiniteSet(I) /\ Cardinality(I) = Len(t)  BY <1>1, SelectsSize
<1>3. \A i \in I : i \in 1..n /\ \A j \in 1..i-1 : ~SameKey(s[j], s[i])  BY DEF Firsts
<1>4. \A j \in 1..n : \E i \in I : SameKey(s[i], s[j])  BY FirstOfKey
<1> HIDE DEF I
<1>5. \A i \in I : key[i] = value_to_key(s[i])  OBVIOUS
<1>6. key \in [I -> KeysIn(s)]  BY <1>3 DEF KeysIn
<1> HIDE DEF key
<1>7. ASSUME NEW i \in I, NEW j \in I, key[i] = key[j] PROVE i = j
  <2>1. SameKey(s[i], s[j]) /\ SameKey(s[j], s[i])  BY <1>5, <1>7 DEF SameKey
  <2>2. i \in 1..n /\ j \in 1..n /\ i \notin 1..j-1 /\ j \notin 1..i-1  BY <1>3, <2>1
  <2> QED BY <2>2
<1>8. ASSUME NEW k \in KeysIn(s) PROVE \E i \in I : key[i] = k
  <2>1. PICK j \in 1..n : k = value_to_key(s[j])  BY DEF KeysIn
  <2>2. PICK i \in I : SameKey(s[i], s[j])  BY <1>4
  <2> QED BY <1>5, <2>1, <2>2 DEF SameKey
<1>9. key \in Injection(I, KeysIn(s))  BY <1>6, <1>7 DEF Injection, IsInjective
<1>10. key \in Surjection(I, KeysIn(s))  BY <1>6, <1>8 DEF Surjection
<1>11. ExistsBijection(I, KeysIn(s))  BY <1>9, <1>10 DEF ExistsBijection, Bijection
<1> QED BY <1>2, <1>11, FS_Bijection

\* A sequence of scalars that can be compared.
ScalarsIn(s, V) == IsSequence(s) /\ \A i \in 1..Len(s) : s[i] \in V /\ Scalar(s[i])

\* SORT-U drops what is == to its neighbours.  Of scalars it keeps the first of
\* each key.
LEMMA EqualsDropped ==
    ASSUME NEW V, ComparableSet(V), OneZeroIn(V), NEW s, ScalarsIn(s, V)
    PROVE  Selects(KeepFirst(s, values_equal), s, Firsts(s, Len(s)))
<1> DEFINE n == Len(s)
           next(kept, x) == IF \E i \in 1..Len(kept) : values_equal(kept[i], x)
                            THEN kept ELSE Append(kept, x)
           In(f) == f = [t \in SUBSET (1..n) |->
                           IF t = {} THEN <<>> ELSE next(f[t \ {Max(t)}], s[Max(t)])]
           iter == CHOOSE f : In(f)
<1>1. n \in Nat /\ DOMAIN s = 1..n /\ s \in Seq(ToSet(s)) /\ \A i \in 1..n : s[i] \in V /\ Scalar(s[i])
    BY SequenceIs DEF ScalarsIn
<1>2. KeepFirst(s, values_equal) = iter[1..n]
    BY <1>1, Zenon DEF KeepFirst, FoldLeft, MapThenFoldSet
<1>3. \A f : In(f) <=> Rounds("sort_u", f, s)
  <2> TAKE f
  <2> DEFINE one(t) == IF t = {} THEN <<>> ELSE next(f[t \ {Max(t)}], s[Max(t)])
             two(t) == IF t = {} THEN <<>> ELSE Round("sort_u", f[t \ {Max(t)}], s[Max(t)])
  <2>1. \A r, c : Round("sort_u", r, c) = next(r, c)  BY DEF Round
  <2> HIDE DEF next
  <2>2. \A t : one(t) = two(t)  BY <2>1
  <2> HIDE DEF one, two
  <2>3. [t \in SUBSET (1..n) |-> one(t)] = [t \in SUBSET (1..n) |-> two(t)]  BY <2>2
  <2>4. In(f) <=> f = [t \in SUBSET (1..n) |-> one(t)]  BY Zenon DEF one
  <2>5. Rounds("sort_u", f, s) <=> f = [t \in SUBSET (1..n) |-> two(t)]
      BY Zenon DEF Rounds, two
  <2> QED BY <2>3, <2>4, <2>5
<1>4. Rounds("sort_u", iter, s)
  <2> HIDE DEF In
  <2>1. \E f : In(f)  BY <1>1, <1>3, RoundsExist
  <2> QED BY <1>3, <2>1
<1> HIDE DEF iter, In
<1>5. PICK R : BuiltUp("sort_u", R, s) /\ iter[1..n] = R[n]
    BY <1>1, <1>4, RoundsInOrder
<1> HIDE DEF n
<1>6. n = Len(s)  BY DEF n
<1> DEFINE X == ToSet(s)
<1>7. \A i \in 1..n : s[i] \in X  BY <1>1 DEF ToSet
<1>8. \A x \in X : x \in V /\ Scalar(x)  BY <1>1 DEF ToSet
<1> HIDE DEF X
<1>9. /\ R[0] = <<>>
      /\ \A k \in 1..n : R[k] = next(R[k - 1], s[k])
  <2>1. \A r, c : Round("sort_u", r, c) = next(r, c)  BY DEF Round
  <2> HIDE DEF next
  <2> QED BY <1>5, <1>6, <2>1 DEF BuiltUp
<1> DEFINE K == {k \in Nat : k <= n => R[k] \in Seq(X)}
<1>10. 0 \in K
  <2>1. R[0] = <<>>
    <3> HIDE DEF next
    <3> QED BY <1>9
  <2>2. <<>> \in Seq(X)  OBVIOUS
  <2>3. R[0] \in Seq(X)  BY <2>1, <2>2
  <2> QED BY <2>3
<1>11. ASSUME NEW k \in K PROVE k + 1 \in K
  <2> SUFFICES ASSUME k + 1 <= n PROVE R[k + 1] \in Seq(X)  OBVIOUS
  <2>1. k \in Nat /\ k + 1 \in 1..n /\ k + 1 - 1 = k /\ R[k] \in Seq(X)  BY <1>1
  <2>2. R[k + 1] = next(R[k], s[k + 1])
    <3>1. R[k + 1] = next(R[k + 1 - 1], s[k + 1])
      <4> HIDE DEF next
      <4> QED BY <1>9, <2>1
    <3> HIDE DEF next
    <3> QED BY <2>1, <3>1
  <2>3. s[k + 1] \in X  BY <1>7, <2>1
  <2> QED BY <2>1, <2>2, <2>3
<1>12. K = Nat
  <2>1. K \in SUBSET Nat  OBVIOUS
  <2> HIDE DEF K
  <2> QED BY <1>10, <1>11, <2>1, Counting
<1>13. \A k \in 0..n : R[k] \in Seq(X)  BY <1>12
<1>14. ASSUME NEW k \in 1..n
       PROVE  R[k] = IF \E p \in 1..Len(R[k - 1]) : SameKey(R[k - 1][p], s[k])
                     THEN R[k - 1] ELSE Append(R[k - 1], s[k])
  <2> DEFINE r == R[k - 1]
  <2>1. r \in Seq(X)
    <3>1. k - 1 \in 0..n  BY <1>1
    <3> QED BY <1>13, <3>1
  <2>2. R[k] = next(r, s[k])
    <3> HIDE DEF next
    <3> QED BY <1>9
  <2> HIDE DEF r
  <2>3. ASSUME NEW p \in 1..Len(r) PROVE values_equal(r[p], s[k]) <=> SameKey(r[p], s[k])
    <3>1. r[p] \in X  BY <2>1
    <3>2. r[p] \in V /\ Scalar(r[p]) /\ s[k] \in V /\ Scalar(s[k])  BY <1>7, <1>8, <3>1
    <3> QED BY <3>2, KeysAreEqual
  <2>4. R[k] = IF \E p \in 1..Len(r) : SameKey(r[p], s[k]) THEN r ELSE Append(r, s[k])
      BY <2>2, <2>3
  <2> QED BY <2>4 DEF r
<1>15. FirstsSoFar(R, s)  BY <1>6, <1>9, <1>14 DEF FirstsSoFar
<1>16. Selects(R[Len(s)], s, Firsts(s, Len(s)))  BY <1>1, <1>15, FirstsSelected
<1> QED BY <1>2, <1>5, <1>6, <1>16

\* An array of scalars, among values that can be compared.
LEMMA ScalarsOf ==
    ASSUME NEW V, ComparableSet(V), NEW c \in V, Kind(c) = "array", Scalars(c)
    PROVE  c = Arr(c[2]) /\ ScalarsIn(c[2], V)
<1>1. Shaped(c) /\ \A i \in 1..Len(Elements(c)) : Elements(c)[i] \in V
    BY DEF ComparableSet, Canonical
<1>2. Elements(c) = c[2]  BY DEF Elements
<1>3. c = Arr(c[2])  BY <1>1 DEF Shaped, Kind, Arr
<1>4. IsSequence(c[2])  BY <1>1 DEF Shaped, IsContainer
<1>5. \A i \in 1..Len(c[2]) : c[2][i] \in V /\ Scalar(c[2][i])  BY <1>1, <1>2 DEF Scalars
<1> QED BY <1>3, <1>4, <1>5 DEF ScalarsIn

\* What is == to a scalar is one; integers are in doubt.
LEMMA EqualsAreScalars ==
    ASSUME NEW V, ComparableSet(V), NEW x \in V, Scalar(x),
           NEW v \in V, Kind(v) = "int" => Scalar(v)
    PROVE  values_equal(x, v) => Scalar(v)
<1>1. ASSUME values_equal(x, v) PROVE Scalar(v)
  <2>1. Matches(x, v)  BY <1>1 DEF values_equal
  <2>2. Kind(x) \in {"null", "bool", "int", "float", "negzero", "string"} /\ x # NaN
    <3>1. Canonical(x)  BY DEF ComparableSet
    <3> QED BY <3>1, ScalarIs
  <2>3. CASE x = v  BY <2>3
  <2>4. CASE x # v
    <3>1. IsNumber(x) /\ IsNumber(v)  BY <2>1, <2>2, <2>4 DEF Matches, IsNumber
    <3>2. v # NaN  BY <2>1, <3>1, NumbersMatch
    <3> QED BY <3>1, <3>2 DEF Scalar, IsScalar, IsNumber
  <2> QED BY <2>3, <2>4
<1> QED BY <1>1

\* Where the elements of s stand that share a key with an element of t.
Shared(s, t) == {i \in 1..Len(s) : \E j \in 1..Len(t) : SameKey(t[j], s[i])}

\* INTERSECTION keeps the elements of an array that stand there, DIFFERENCE the
\* rest.
LEMMA SetOpsAre ==
    ASSUME NEW l, Kind(l) = "array", NEW r, Kind(r) = "array"
    PROVE  /\ IntersectionOf(l, r) = Arr(Picked(l[2], Shared(l[2], r[2])))
           /\ DifferenceOf(l, r) = Arr(Picked(l[2], (1..Len(l[2])) \ Shared(l[2], r[2])))
<1> DEFINE member(v) == AnyOf(Elements(r), LAMBDA e : SameKey(e, v))
           I(keep) == {i \in 1..Len(l[2]) : member(l[2][i]) = keep}
<1>1. ASSUME NEW keep PROVE set_op(l, r, keep) = Arr(Picked(l[2], I(keep)))
  <2> DEFINE keys == IF Kind(r) = "record" THEN ToSet(KeysOf(r[2]))
                     ELSE {v[2] : v \in {e \in ToSet(Elements(r)) : Kind(e) = "string"}}
             J == {i \in 1..Len(l[2]) : (l[2][i][1] \in keys) = keep}
  <2>1. set_op(l, r, keep) =
          CASE Kind(l) = "array"  -> Arr(Picked(l[2], I(keep)))
            [] Kind(l) = "record" -> Rec(Picked(l[2], J))
            [] Kind(l) = "null"   -> EmptyArr
            [] OTHER              -> l
      BY Zenon DEF set_op, Filtered
  <2> HIDE DEF I, J
  <2> QED BY <2>1
<1>2. \A v : member(v) <=> \E j \in 1..Len(r[2]) : SameKey(r[2][j], v)
  <2>1. Elements(r) = r[2]  BY DEF Elements
  <2>2. \A v : member(v) <=> \E j \in 1..Len(Elements(r)) : SameKey(Elements(r)[j], v)
      BY Zenon DEF AnyOf
  <2> HIDE DEF member
  <2> QED BY <2>1, <2>2
<1>3. \A v : member(v) \in BOOLEAN  BY Zenon DEF AnyOf
<1> HIDE DEF member
<1>4. I(TRUE) = Shared(l[2], r[2])  BY <1>2, <1>3 DEF Shared
<1>5. I(FALSE) = (1..Len(l[2])) \ Shared(l[2], r[2])  BY <1>2, <1>3 DEF Shared
<1> HIDE DEF I
<1>6. set_op(l, r, TRUE) = Arr(Picked(l[2], I(TRUE)))  BY <1>1
<1>7. set_op(l, r, FALSE) = Arr(Picked(l[2], I(FALSE)))  BY <1>1
<1> QED BY <1>4, <1>5, <1>6, <1>7 DEF IntersectionOf, DifferenceOf

\* Of the elements of s, both holds those that t holds and left the others.
SplitBy(s, t, both, left) ==
    \A v \in ToSet(s) : /\ Holds(both, v) <=> Holds(t, v)
                        /\ Holds(left, v) <=> ~Holds(t, v)

\* On scalars with one zero the set words and those that look for an element agree.
LEMMA SharedAndRest ==
    ASSUME NEW V, ComparableSet(V), OneZeroIn(V),
           NEW s, ScalarsIn(s, V), NEW t, ScalarsIn(t, V),
           NEW both, Selects(both, s, Shared(s, t)),
           NEW left, Selects(left, s, (1..Len(s)) \ Shared(s, t))
    PROVE  /\ SplitBy(s, t, both, left)
           /\ Len(both) + Len(left) = Len(s)
           /\ (\A i \in 1..Len(s) : Holds(t, s[i])) <=> left = <<>>
           /\ (\E i \in 1..Len(s) : Holds(t, s[i])) <=> both # <<>>
<1> DEFINE n == Len(s)
           I == Shared(s, t)
           J == (1..n) \ I
<1>1. /\ n \in Nat /\ DOMAIN s = 1..n /\ \A i \in 1..n : s[i] \in V /\ Scalar(s[i])
      /\ \A j \in 1..Len(t) : t[j] \in V /\ Scalar(t[j])
    BY SequenceIs DEF ScalarsIn
<1>2. /\ Selects(both, s, I) /\ Selects(left, s, J)
      /\ I \in SUBSET (1..n) /\ J \in SUBSET (1..n) /\ I \cap J = {} /\ I \cup J = 1..n
    BY DEF Shared
<1>3. \A i \in 1..n : i \in I <=> \E j \in 1..Len(t) : SameKey(t[j], s[i])  BY DEF Shared
<1> HIDE DEF n, I, J
<1>4. \A x, y : x \in V /\ Scalar(x) /\ y \in V /\ Scalar(y) =>
          (values_equal(x, y) <=> SameKey(x, y))
    BY KeysAreEqual
<1>5. \A i \in 1..n : Holds(t, s[i]) <=> i \in I  BY <1>1, <1>3, <1>4 DEF Holds
<1>6. ASSUME NEW i \in 1..n, NEW j \in 1..n, SameKey(s[i], s[j]) PROVE i \in I <=> j \in I
    BY <1>3, <1>6 DEF SameKey
<1>7. ASSUME NEW u, NEW S, S \in SUBSET (1..n), Selects(u, s, S), NEW j \in 1..n
      PROVE  Holds(u, s[j]) <=> \E i \in S : SameKey(s[i], s[j])
  <2>1. PICK from \in [1..Len(u) -> S] :
           /\ \A i \in S : \E p \in 1..Len(u) : from[p] = i
           /\ \A p \in 1..Len(u) : u[p] = s[from[p]]
      BY <1>7 DEF Selects
  <2>2. \A p \in 1..Len(u) : from[p] \in S /\ from[p] \in 1..n  BY <1>7
  <2>3. Holds(u, s[j]) <=> \E p \in 1..Len(u) : values_equal(u[p], s[j])  BY DEF Holds
  <2>4. \A p \in 1..Len(u) : values_equal(u[p], s[j]) <=> SameKey(s[from[p]], s[j])
      BY <1>1, <1>4, <2>1, <2>2
  <2> QED BY <2>1, <2>2, <2>3, <2>4
<1>8. ASSUME NEW v \in ToSet(s)
      PROVE  (Holds(both, v) <=> Holds(t, v)) /\ (Holds(left, v) <=> ~Holds(t, v))
  <2>1. PICK j \in 1..n : v = s[j]  BY <1>1 DEF ToSet
  <2>2. SameKey(s[j], s[j])  BY DEF SameKey
  <2>3. Holds(both, s[j]) <=> j \in I
    <3>1. Holds(both, s[j]) <=> \E i \in I : SameKey(s[i], s[j])  BY <1>2, <1>7
    <3> QED BY <1>2, <1>6, <2>2, <3>1
  <2>4. Holds(left, s[j]) <=> j \in J
    <3>1. Holds(left, s[j]) <=> \E i \in J : SameKey(s[i], s[j])  BY <1>2, <1>7
    <3> QED BY <1>2, <1>6, <2>2, <3>1
  <2> QED BY <1>2, <1>5, <2>1, <2>3, <2>4
<1>9. Len(both) + Len(left) = n
  <2>1. /\ IsFiniteSet(I) /\ Cardinality(I) = Len(both) /\ Len(both) \in Nat
        /\ IsFiniteSet(J) /\ Cardinality(J) = Len(left) /\ Len(left) \in Nat
      BY <1>1, <1>2, SelectsSize
  <2>2. Cardinality(I \cup J) = Cardinality(I) + Cardinality(J) - Cardinality(I \cap J)
      BY <2>1, FS_Union
  <2>3. Cardinality(I \cap J) = 0  BY <1>2, FS_EmptySet
  <2>4. Cardinality(1..n) = n
    <3>1. 1 \in Int /\ n \in Int /\ (IF 1 > n THEN 0 ELSE n - 1 + 1) = n  BY <1>1
    <3> QED BY <3>1, FS_Interval, Zenon
  <2>5. n = Cardinality(I) + Cardinality(J) - Cardinality(I \cap J)  BY <1>2, <2>2, <2>4
  <2> QED BY <2>1, <2>3, <2>5
<1>10. \A u, S : Selects(u, s, S) => (u = <<>> <=> S = {})
  <2> SUFFICES ASSUME NEW u, NEW S, Selects(u, s, S) PROVE u = <<>> <=> S = {}  OBVIOUS
  <2>1. S = {} => u = <<>>  BY NothingSelected
  <2>2. ASSUME u = <<>>, NEW i \in S PROVE FALSE
    <3>1. PICK from \in [1..Len(u) -> S] : \A k \in S : \E p \in 1..Len(u) : from[p] = k
        BY DEF Selects
    <3>2. Len(u) = 0  BY <2>2
    <3> QED BY <2>2, <3>1, <3>2
  <2> QED BY <2>1, <2>2
<1>11. (\A i \in 1..n : Holds(t, s[i])) <=> left = <<>>
  <2>1. left = <<>> <=> J = {}  BY <1>2, <1>10
  <2> QED BY <1>2, <1>5, <2>1
<1>12. (\E i \in 1..n : Holds(t, s[i])) <=> both # <<>>
  <2>1. both = <<>> <=> I = {}  BY <1>2, <1>10
  <2> QED BY <1>2, <1>5, <2>1
<1> QED BY <1>8, <1>9, <1>11, <1>12 DEF n, SplitBy

\* UNION of two arrays of scalars: no two elements are ==, and it holds what one
\* of them holds.
LEMMA UnionHolds ==
    ASSUME NEW V, ComparableSet(V), NEW W, W \subseteq V, ComparableSet(W), OneZeroIn(W),
           NEW s, ScalarsIn(s, W), NEW t, ScalarsIn(t, W),
           NEW all, Selects(all, s \o t, Firsts(s \o t, Len(s \o t)))
    PROVE  /\ \A j, k \in 1..Len(all) : j # k => ~values_equal(all[j], all[k])
           /\ \A v \in V : (Kind(v) = "int" => Scalar(v)) =>
                 (Holds(all, v) <=> Holds(s, v) \/ Holds(t, v))
<1> DEFINE S == {x \in W : Scalar(x)}
           w == s \o t
           n == Len(w)
           I == Firsts(w, n)
<1>1. s \in Seq(S) /\ t \in Seq(S)
  <2>1. \A u : ScalarsIn(u, W) => u \in Seq(ToSet(u)) /\ ToSet(u) \subseteq S
    <3> SUFFICES ASSUME NEW u, ScalarsIn(u, W)
                 PROVE  u \in Seq(ToSet(u)) /\ ToSet(u) \subseteq S
        OBVIOUS
    <3>1. u \in Seq(ToSet(u)) /\ DOMAIN u = 1..Len(u)  BY SequenceIs DEF ScalarsIn
    <3>2. ToSet(u) \subseteq S  BY <3>1 DEF ScalarsIn, ToSet
    <3> QED BY <3>1, <3>2
  <2> HIDE DEF S
  <2>2. \A u : ScalarsIn(u, W) => u \in Seq(S)
    <3> SUFFICES ASSUME NEW u, ScalarsIn(u, W) PROVE u \in Seq(S)  OBVIOUS
    <3> DEFINE T == ToSet(u)
    <3>1. u \in Seq(T) /\ T \subseteq S  BY <2>1
    <3> HIDE DEF T
    <3> QED BY <3>1
  <2> QED BY <2>2
<1>2. \A x \in S : x \in W /\ Scalar(x)  OBVIOUS
<1> HIDE DEF S
<1>3. w \in Seq(S) /\ n \in Nat /\ n = Len(s) + Len(t) /\ Len(s) \in Nat /\ Len(t) \in Nat
    BY <1>1
<1>4. /\ \A i \in 1..Len(s) : i \in 1..n /\ w[i] = s[i]
      /\ \A i \in 1..Len(t) : Len(s) + i \in 1..n /\ w[Len(s) + i] = t[i]
      /\ \A i \in 1..n : i \in 1..Len(s) \/ (i - Len(s) \in 1..Len(t) /\ i = Len(s) + (i - Len(s)))
  <2>1. \A i \in 1..Len(s) : i \in 1..n /\ w[i] = s[i]  BY <1>1, <1>3
  <2>2. \A i \in 1..Len(t) : Len(s) + i \in 1..n /\ w[Len(s) + i] = t[i]  BY <1>1, <1>3
  <2>3. \A i \in 1..n : i \in 1..Len(s) \/ (i - Len(s) \in 1..Len(t) /\ i = Len(s) + (i - Len(s)))
    <3> HIDE DEF w, n
    <3> QED BY <1>3
  <2> QED BY <2>1, <2>2, <2>3
<1>5. \A i \in 1..n : w[i] \in W /\ Scalar(w[i])  BY <1>2, <1>3
<1>6. Selects(all, w, I) /\ I \in SUBSET (1..n)  BY DEF Firsts
<1>7. \A j, k \in 1..Len(all) : j # k => ~SameKey(all[j], all[k])
  <2>1. Len(w) \in Nat /\ Selects(all, w, Firsts(w, Len(w)))  BY <1>3
  <2> HIDE DEF w
  <2> QED BY <2>1, KeptApart
<1>8. \A j \in 1..n : \E i \in I : SameKey(w[i], w[j])
  <2> HIDE DEF w, n
  <2> QED BY <1>3, FirstOfKey
<1> HIDE DEF w, n, I
<1>9. PICK from \in [1..Len(all) -> I] :
         /\ \A i \in I : \E p \in 1..Len(all) : from[p] = i
         /\ \A p \in 1..Len(all) : all[p] = w[from[p]]
    BY <1>6 DEF Selects
<1>10. \A p \in 1..Len(all) : from[p] \in 1..n /\ all[p] \in W /\ Scalar(all[p])
  <2>1. \A p \in 1..Len(all) : from[p] \in 1..n  BY <1>6
  <2> QED BY <1>5, <1>9, <2>1
<1>11. \A j, k \in 1..Len(all) : j # k => ~values_equal(all[j], all[k])
    BY <1>7, <1>10, KeysAreEqual
<1>12. ASSUME NEW v \in V, Kind(v) = "int" => Scalar(v)
       PROVE  Holds(all, v) <=> Holds(s, v) \/ Holds(t, v)
  <2>1. Holds(s, v) \/ Holds(t, v) <=> \E i \in 1..n : values_equal(w[i], v)
      BY <1>4 DEF Holds
  <2>2. Holds(all, v) <=> \E p \in 1..Len(all) : values_equal(all[p], v)  BY DEF Holds
  <2>3. ASSUME NEW p \in 1..Len(all), values_equal(all[p], v)
        PROVE  \E i \in 1..n : values_equal(w[i], v)
      BY <1>9, <1>10, <2>3
  <2>4. ASSUME NEW j \in 1..n, values_equal(w[j], v)
        PROVE  \E p \in 1..Len(all) : values_equal(all[p], v)
    <3>1. w[j] \in W /\ w[j] \in V /\ Scalar(w[j])  BY <1>5
    <3>2. Scalar(v)  BY <1>12, <2>4, <3>1, EqualsAreScalars
    <3>3. PICK i \in I : SameKey(w[i], w[j])  BY <1>8
    <3>4. i \in 1..n  BY <1>6
    <3>5. w[i] \in W /\ w[i] \in V /\ Scalar(w[i])  BY <1>5, <3>4
    <3>6. values_equal(w[i], v)
      <4>1. values_equal(w[i], w[j])  BY <3>1, <3>3, <3>5, KeysAreEqual
      <4> QED BY <1>12, <2>4, <3>1, <3>2, <3>5, <4>1, EqualsChain
    <3>7. PICK p \in 1..Len(all) : from[p] = i  BY <1>9
    <3> QED BY <1>9, <3>6, <3>7
  <2> QED BY <2>1, <2>2, <2>3, <2>4
<1> QED BY <1>11, <1>12

\* SORT-U and UNIQUE keep equally many scalars: one for each key.
LEMMA UniqueSizes ==
    ASSUME NEW V, ComparableSet(V), OneZeroIn(V), NEW s, ScalarsIn(s, V)
    PROVE  Len(KeepFirst(SortedBy(s, s), values_equal)) = Len(KeepFirst(s, SameKey))
<1> DEFINE n == Len(s)
           S == ToSet(s)
           u == SortedBy(s, s)
<1>1. n \in Nat /\ s \in Seq(S) /\ DOMAIN s = 1..n
      /\ \A i \in 1..n : s[i] \in V /\ Scalar(s[i])
    BY SequenceIs DEF ScalarsIn
<1>2. \A x \in S : Sortable(x)
  <2> SUFFICES ASSUME NEW i \in 1..n PROVE Sortable(s[i])  BY <1>1 DEF ToSet
  <2>1. Canonical(s[i]) /\ Scalar(s[i])  BY <1>1 DEF ComparableSet
  <2>2. Keyable(s[i])  BY <2>1, ScalarIs
  <2> QED BY <2>2 DEF Keyable
<1> HIDE DEF S
<1>3. PICK from \in [1..n -> 1..n] :
         /\ u = [p \in 1..n |-> s[from[p]]]
         /\ \A i \in 1..n : \E p \in 1..n : from[p] = i
  <2>1. \E from \in [1..n -> 1..n] :
              /\ u = [p \in 1..n |-> s[from[p]]]
              /\ \A i \in 1..n : \E p \in 1..n : from[p] = i
              /\ \A p, q \in 1..n : p < q =>
                    /\ natural_cmp(s[from[p]], s[from[q]]) <= 0
                    /\ natural_cmp(s[from[p]], s[from[q]]) = 0 => from[p] < from[q]
      BY <1>1, <1>2, SortIsStable
  <2> QED BY <2>1
<1> HIDE DEF u
<1>4. Len(u) = n /\ IsSequence(u) /\ \A p \in 1..n : u[p] = s[from[p]]
  <2>1. Len(u) = n /\ u = [p \in 1..Len(u) |-> u[p]]  BY <1>1, <1>3
  <2> QED BY <1>1, <1>3, <2>1 DEF IsSequence
<1> HIDE DEF n
<1>5. ScalarsIn(u, V)
  <2>1. \A p \in 1..n : from[p] \in 1..n  BY <1>3
  <2> QED BY <1>1, <1>4, <2>1 DEF ScalarsIn
<1>6. KeysIn(u) = KeysIn(s)
  <2>1. KeysIn(u) = {value_to_key(u[p]) : p \in 1..n}  BY <1>4 DEF KeysIn
  <2>2. KeysIn(s) = {value_to_key(s[i]) : i \in 1..n}  BY DEF KeysIn, n
  <2>3. \A p \in 1..n : from[p] \in 1..n  BY <1>3
  <2>4. \A p \in 1..n : u[p] = s[from[p]]  BY <1>4
  <2>5. \A i \in 1..n : \E p \in 1..n : from[p] = i  BY <1>3
  <2>6. ASSUME NEW k PROVE k \in KeysIn(u) <=> k \in KeysIn(s)
    <3>1. k \in KeysIn(u) <=> \E p \in 1..n : k = value_to_key(u[p])  BY <2>1
    <3>2. k \in KeysIn(s) <=> \E i \in 1..n : k = value_to_key(s[i])  BY <2>2
    <3>3. ASSUME NEW p \in 1..n, k = value_to_key(u[p]) PROVE \E i \in 1..n : k = value_to_key(s[i])
      <4>1. from[p] \in 1..n /\ u[p] = s[from[p]]  BY <2>3, <2>4
      <4> QED BY <3>3, <4>1
    <3>4. ASSUME NEW i \in 1..n, k = value_to_key(s[i]) PROVE \E p \in 1..n : k = value_to_key(u[p])
      <4>1. PICK p \in 1..n : from[p] = i  BY <2>5
      <4>2. u[p] = s[i]  BY <2>4, <4>1
      <4> QED BY <3>4, <4>2
    <3> QED BY <3>1, <3>2, <3>3, <3>4
  <2> QED BY <2>6
<1> DEFINE a == KeepFirst(u, values_equal)
           b == KeepFirst(s, SameKey)
<1>7. Selects(a, u, Firsts(u, Len(u)))  BY <1>5, EqualsDropped
<1>8. Selects(b, s, Firsts(s, Len(s)))  BY <1>1, FirstsAreKept
<1> HIDE DEF a, b
<1>9. Len(a) = Cardinality(KeysIn(u))  BY <1>1, <1>4, <1>7, FirstsCount
<1>10. Len(b) = Cardinality(KeysIn(s))  BY <1>1, <1>8, FirstsCount DEF n
<1>11. Len(a) = Len(b)  BY <1>6, <1>9, <1>10
<1> QED BY <1>11 DEF a, b, u

\* With a record on the left the set words are OMIT and, up to the order of the
\* entries, PICK by the strings of the array.
LEMMA SetOpsByKey ==
    ASSUME NEW l, Record(l), NEW r, Kind(r) = "array", Whole(r),
           \A v \in ToSet(r[2]) : Kind(v) = "string"
    PROVE  /\ DifferenceOf(l, r) = OmitOf(l, r)
           /\ values_equal(l, l) => values_equal(IntersectionOf(l, r), PickOf(l, r))
<1> DEFINE n == Len(l[2])
           keys == IF Kind(r) = "record" THEN ToSet(KeysOf(r[2]))
                   ELSE {v[2] : v \in {e \in ToSet(Elements(r)) : Kind(e) = "string"}}
           member(v) == AnyOf(Elements(r), LAMBDA e : SameKey(e, v))
           J(keep) == {i \in 1..n : (l[2][i][1] \in keys) = keep}
           A == ToSet(NamedKeys(r))
<1>1. Kind(l) = "record" /\ PairsOf(l) = l[2] /\ n \in Nat  BY RecordIs
<1>2. keys = A
  <2>1. IsSequence(r[2])  BY DEF Whole, IsContainer
  <2>2. DOMAIN r[2] = 1..Len(r[2])  BY <2>1, SequenceIs
  <2>3. ToSet(r[2]) = {r[2][i] : i \in 1..Len(r[2])}  BY <2>2 DEF ToSet
  <2>4. Elements(r) = r[2]  BY DEF Elements
  <2>5. keys = {r[2][i][2] : i \in 1..Len(r[2])}
    <3> DEFINE w == r[2]
               m == Len(w)
               T == ToSet(w)
    <3>1. {e \in ToSet(Elements(r)) : Kind(e) = "string"} = T  BY <2>4
    <3>2. keys = {v[2] : v \in T}  BY <3>1
    <3>3. T = {w[i] : i \in 1..m}  BY <2>3
    <3> HIDE DEF w, m, T, keys
    <3>4. {v[2] : v \in T} = {w[i][2] : i \in 1..m}  BY <3>3
    <3>5. keys = {w[i][2] : i \in 1..m}  BY <3>2, <3>4
    <3> QED BY <3>5 DEF w, m
  <2>6. \A i \in 1..Len(r[2]) : key_string(r[2][i]) = r[2][i][2]
    <3> SUFFICES ASSUME NEW i \in 1..Len(r[2]) PROVE key_string(r[2][i]) = r[2][i][2]  OBVIOUS
    <3>1. Kind(r[2][i]) = "string"  BY <2>3
    <3> QED BY <3>1 DEF key_string, IsScalar, ScalarText
  <2>7. NamedKeys(r) = [i \in 1..Len(r[2]) |-> key_string(r[2][i])]  BY DEF NamedKeys
  <2>8. A = {r[2][i][2] : i \in 1..Len(r[2])}
    <3> DEFINE w == r[2]
               m == Len(w)
               f == NamedKeys(r)
    <3>1. f = [i \in 1..m |-> key_string(w[i])]  BY <2>7
    <3>2. \A i \in 1..m : key_string(w[i]) = w[i][2]  BY <2>6
    <3>3. A = ToSet(f)  OBVIOUS
    <3> HIDE DEF w, m, f, A
    <3>4. DOMAIN f = 1..m /\ \A i \in 1..m : f[i] = w[i][2]  BY <3>1, <3>2
    <3>5. ToSet(f) = {f[i] : i \in 1..m}  BY <3>4 DEF ToSet
    <3>6. {f[i] : i \in 1..m} = {w[i][2] : i \in 1..m}  BY <3>4
    <3>7. A = {w[i][2] : i \in 1..m}  BY <3>3, <3>5, <3>6
    <3> QED BY <3>7 DEF w, m
  <2> QED BY <2>5, <2>8
<1>3. ASSUME NEW keep PROVE set_op(l, r, keep) = Rec(Picked(l[2], J(keep)))
  <2> DEFINE I == {i \in 1..n : member(l[2][i]) = keep}
  <2>1. set_op(l, r, keep) =
          CASE Kind(l) = "array"  -> Arr(Picked(l[2], I))
            [] Kind(l) = "record" -> Rec(Picked(l[2], J(keep)))
            [] Kind(l) = "null"   -> EmptyArr
            [] OTHER              -> l
      BY Zenon DEF set_op, Filtered
  <2> HIDE DEF I, J
  <2> QED BY <1>1, <2>1
<1> HIDE DEF keys, A, member
<1>4. J(TRUE) = {i \in 1..n : l[2][i][1] \in A} /\ J(FALSE) = {i \in 1..n : l[2][i][1] \notin A}
    BY <1>2
<1> DEFINE In == {i \in 1..n : l[2][i][1] \in A}
           Out == {i \in 1..n : l[2][i][1] \notin A}
<1> HIDE DEF J
<1>5. IntersectionOf(l, r) = Rec(Picked(l[2], In))  BY <1>3, <1>4 DEF IntersectionOf
<1>6. DifferenceOf(l, r) = Rec(Picked(l[2], Out))  BY <1>3, <1>4 DEF DifferenceOf
<1>7. OmitOf(l, r) = Rec(Picked(l[2], Out))
  <2>1. OmitOf(l, r) =
           Rec(Picked(PairsOf(l), {i \in 1..Len(PairsOf(l)) : PairsOf(l)[i][1] \notin A}))
      BY Zenon DEF OmitOf, Filtered, A
  <2> QED BY <1>1, <2>1
<1>8. ASSUME values_equal(l, l) PROVE values_equal(IntersectionOf(l, r), PickOf(l, r))
  <2> DEFINE t == Picked(l[2], In)
             x == Rec(t)
             y == PickOf(l, r)
  <2>1. In \in SUBSET (1..Len(l[2])) /\ t = Picked(l[2], In)  OBVIOUS
  <2>2. \A k : (\E i \in In : l[2][i][1] = k) <=> Has(l[2], k) /\ k \in A  BY DEF Has
  <2> HIDE DEF In, t
  <2>3. EntriesAt(t, l, In)  BY <2>1, SomeEntries
  <2>4. x[2] = t  BY DEF Rec
  <2> HIDE DEF x
  <2>5. /\ Record(x)
        /\ \A k : /\ Has(x[2], k) <=> Has(l[2], k) /\ k \in A
                  /\ Has(x[2], k) => Get(x[2], k) = Get(l[2], k)
      BY <2>2, <2>3, <2>4 DEF EntriesAt, x
  <2>6. /\ Record(y)
        /\ \A k : /\ Has(y[2], k) <=> Has(l[2], k) /\ k \in A
                  /\ Has(y[2], k) => Get(y[2], k) = Get(l[2], k)
      BY PickIs DEF A
  <2> HIDE DEF y
  <2>7. \A k : (Has(x[2], k) <=> Has(y[2], k)) /\ Get(x[2], k) = Get(y[2], k)
    <3> TAKE k
    <3>1. CASE Has(x[2], k)  BY <2>5, <2>6, <3>1
    <3>2. CASE ~Has(x[2], k)
      <4>1. ~Has(y[2], k)  BY <2>5, <2>6, <3>2
      <4> QED BY <3>2, <4>1 DEF Get
    <3> QED BY <3>1, <3>2
  <2>8. NearlyAlike(x, y)  BY <2>5, <2>6, <2>7 DEF NearlyAlike
  <2>9. Within(y, l)  BY <2>6 DEF Within
  <2>10. values_equal(x, y)  BY <1>8, <2>8, <2>9, AlikeWithin
  <2> QED BY <1>5, <2>10 DEF x, y, t
<1> QED BY <1>6, <1>7, <1>8

\* The scalars of two arrays are comparable by themselves.
LEMMA ScalarsAlone ==
    ASSUME NEW V, ComparableSet(V), NEW s, ScalarsIn(s, V), NEW t, ScalarsIn(t, V),
           NEW W, W = ToSet(s) \cup ToSet(t)
    PROVE  W \subseteq V /\ ComparableSet(W) /\ ScalarsIn(s, W) /\ ScalarsIn(t, W)
<1>1. \A u : ScalarsIn(u, V) =>
         /\ ToSet(u) = {u[i] : i \in 1..Len(u)}
         /\ \A i \in 1..Len(u) : u[i] \in V /\ Scalar(u[i])
  <2> SUFFICES ASSUME NEW u, ScalarsIn(u, V)
               PROVE  /\ ToSet(u) = {u[i] : i \in 1..Len(u)}
                      /\ \A i \in 1..Len(u) : u[i] \in V /\ Scalar(u[i])
      OBVIOUS
  <2>1. DOMAIN u = 1..Len(u)  BY SequenceIs DEF ScalarsIn
  <2> QED BY <2>1 DEF ToSet, ScalarsIn
<1>2. \A w \in W : w \in V /\ Scalar(w)  BY <1>1
<1>3. ASSUME NEW w \in W PROVE Canonical(w) /\ Len(Elements(w)) = 0
  <2>1. Canonical(w)  BY <1>2 DEF ComparableSet
  <2>2. Kind(w) \notin {"array", "record"}  BY <1>2 DEF Scalar, IsScalar
  <2>3. Elements(w) = <<>>  BY <2>2 DEF Elements
  <2> QED BY <2>1, <2>3
<1>4. ComparableSet(W)  BY <1>3 DEF ComparableSet
<1>5. ScalarsIn(s, W) /\ ScalarsIn(t, W)  BY <1>1 DEF ScalarsIn
<1> QED BY <1>2, <1>4, <1>5

\* Two arrays of scalars with one zero: what each of the words says of them.
LEMMA ArraysAgree ==
    ASSUME NEW V, ComparableSet(V), NEW l \in V, NEW r \in V, Tidy(l),
           Kind(l) = "array", Kind(r) = "array", Scalars(l), Scalars(r), OneZero(l, r),
           NEW both, both = IntersectionOf(l, r), NEW left, left = DifferenceOf(l, r),
           NEW all, all = UnionOf(l, r)
    PROVE  /\ \A v \in ToSet(l[2]) : /\ ContainsQ(both, v)[2] = ContainsQ(r, v)[2]
                                     /\ ContainsQ(left, v)[2] # ContainsQ(r, v)[2]
           /\ Size(both) + Size(left) = Size(l)
           /\ \A j, k \in 1..Size(all) : j # k => ~values_equal(all[2][j], all[2][k])
           /\ \A v \in V : (Kind(v) = "int" => Scalar(v)) =>
                 ContainsQ(all, v)[2] = (ContainsQ(l, v)[2] \/ ContainsQ(r, v)[2])
           /\ UniqueOf(all) = all /\ Size(SortUOf(l)) = Size(UniqueOf(l))
           /\ AllIn(r, l)[2] <=> left = EmptyArr
           /\ AnyIn(l, r)[2] <=> both # EmptyArr
           /\ \A v \in V : KeyOf(l, v) # Nil <=> ContainsQ(l, v)[2]
<1> DEFINE s == l[2]
           t == r[2]
           b == Picked(s, Shared(s, t))
           d == Picked(s, (1..Len(s)) \ Shared(s, t))
           a == KeepFirst(s \o t, SameKey)
<1>1. l = Arr(s) /\ ScalarsIn(s, V) /\ r = Arr(t) /\ ScalarsIn(t, V)  BY ScalarsOf
<1>2. both = Arr(b) /\ left = Arr(d)  BY SetOpsAre
<1>3. all = Arr(a)
  <2>1. UnionOf(Arr(s), Arr(t)) = Arr(a)  BY UnionKeeps
  <2> QED BY <1>1, <2>1
<1> DEFINE W == ToSet(s) \cup ToSet(t)
<1>24. OneZeroIn(W)
  <2>1. Elements(l) = s /\ Elements(r) = t  BY DEF Elements
  <2> QED BY <2>1 DEF OneZero, OneZeroIn
<1> HIDE DEF s, t
<1>25. W \subseteq V /\ ComparableSet(W) /\ ScalarsIn(s, W) /\ ScalarsIn(t, W)
  <2> HIDE DEF W
  <2>1. W = ToSet(s) \cup ToSet(t)  BY DEF W
  <2> QED BY <1>1, <2>1, ScalarsAlone
<1> HIDE DEF W
<1>4. IsSequence(s) /\ Len(s) \in Nat /\ s \in Seq(ToSet(s)) /\ t \in Seq(ToSet(t))
    BY <1>1, SequenceIs DEF ScalarsIn
<1>5. Selects(b, s, Shared(s, t)) /\ Selects(d, s, (1..Len(s)) \ Shared(s, t))
  <2>1. Shared(s, t) \in SUBSET (1..Len(s)) /\ (1..Len(s)) \ Shared(s, t) \in SUBSET (1..Len(s))
      BY DEF Shared
  <2> QED BY <1>4, <2>1, PickedFrom
<1>6. s \o t \in Seq(ToSet(s) \cup ToSet(t))
  <2> DEFINE P == ToSet(s)
             Q == ToSet(t)
             X == P \cup Q
  <2>1. s \in Seq(P) /\ t \in Seq(Q) /\ P \subseteq X /\ Q \subseteq X  BY <1>4
  <2> HIDE DEF P, Q, X
  <2>2. s \in Seq(X) /\ t \in Seq(X)  BY <2>1
  <2>3. s \o t \in Seq(X)  BY <2>2
  <2> QED BY <2>3 DEF X, P, Q
<1>7. Selects(a, s \o t, Firsts(s \o t, Len(s \o t)))
  <2> DEFINE w == s \o t
             X == ToSet(s) \cup ToSet(t)
  <2>1. w \in Seq(X)  BY <1>6
  <2> HIDE DEF w, X
  <2>2. Selects(KeepFirst(w, SameKey), w, Firsts(w, Len(w)))  BY <2>1, FirstsAreKept
  <2> QED BY <2>2 DEF w
<1> HIDE DEF b, d
<1> DEFINE kept == a
<1>8. kept = a  OBVIOUS
<1> HIDE DEF kept, a
<1>9. \A u, v : ContainsQ(Arr(u), v)[2] = Holds(u, v)
  <2>1. \A u : Kind(Arr(u)) = "array" /\ Arr(u)[2] = u  BY DEF Kind, Arr
  <2>2. \A u, v : Holds(u, v) \in BOOLEAN  BY DEF Holds
  <2> QED BY <2>1, <2>2 DEF ContainsQ, Bool
<1>10. \A u : Size(Arr(u)) = Len(u) /\ Arr(u)[2] = u /\ Kind(Arr(u)) = "array"
    BY DEF Size, Arr, Kind
<1>11. \A u : Arr(u) = EmptyArr <=> u = <<>>  BY DEF Arr, EmptyArr
<1>12. \A u, v : Holds(u, v) \in BOOLEAN  BY DEF Holds
<1>13. /\ SplitBy(s, t, b, d)
       /\ Len(b) + Len(d) = Len(s)
       /\ (\A i \in 1..Len(s) : Holds(t, s[i])) <=> d = <<>>
       /\ (\E i \in 1..Len(s) : Holds(t, s[i])) <=> b # <<>>
    BY <1>5, <1>24, <1>25, SharedAndRest
<1>14. /\ \A j, k \in 1..Len(a) : j # k => ~values_equal(a[j], a[k])
       /\ \A v \in V : (Kind(v) = "int" => Scalar(v)) =>
             (Holds(a, v) <=> Holds(s, v) \/ Holds(t, v))
    BY <1>7, <1>24, <1>25, UnionHolds
<1>15. UniqueOf(all) = all
  <2> DEFINE X == ToSet(s) \cup ToSet(t)
             P == ToSet(s)
             Q == ToSet(t)
  <2>1. s \in Seq(X) /\ t \in Seq(X)
    <3>1. s \in Seq(P) /\ t \in Seq(Q) /\ P \subseteq X /\ Q \subseteq X  BY <1>4
    <3> HIDE DEF P, Q, X
    <3> QED BY <3>1
  <2> HIDE DEF X
  <2>2. UniqueOf(UnionOf(Arr(s), Arr(t))) = UnionOf(Arr(s), Arr(t))  BY <2>1, UnionIsUnique
  <2> QED BY <1>1, <2>2
<1>16. Size(SortUOf(l)) = Size(UniqueOf(l))
  <2>1. SortUOf(l) = Arr(KeepFirst(SortedBy(s, s), values_equal))  BY Zenon DEF SortUOf, s
  <2>2. UniqueOf(l) = Arr(KeepFirst(s, SameKey))  BY Zenon DEF UniqueOf, s
  <2>3. Len(KeepFirst(SortedBy(s, s), values_equal)) = Len(KeepFirst(s, SameKey))
      BY <1>24, <1>25, UniqueSizes
  <2> QED BY <1>10, <2>1, <2>2, <2>3
<1>17. AllIn(r, l)[2] <=> left = EmptyArr
  <2>1. AllIn(r, l)[2] <=> \A i \in 1..Len(s) : Holds(t, s[i])
      BY DEF AllIn, Both, Bool, s, t
  <2> QED BY <1>2, <1>11, <1>13, <2>1
<1>18. AnyIn(l, r)[2] <=> both # EmptyArr
  <2>1. AnyIn(l, r)[2] <=> \E i \in 1..Len(s) : Holds(t, s[i])
      BY DEF AnyIn, Both, Bool, s, t
  <2> QED BY <1>2, <1>11, <1>13, <2>1
<1>19. \A v \in V : KeyOf(l, v) # Nil <=> ContainsQ(l, v)[2]
  <2> TAKE v \in V
  <2>1. KeyOf(l, v) # Nil <=> \E i \in 1..Len(Elements(l)) : values_equal(Elements(l)[i], v)
      BY KeyOfIs
  <2>2. Elements(l) = s  BY DEF Elements, s
  <2> QED BY <1>1, <1>9, <2>1, <2>2 DEF Holds
<1>20. \A v \in ToSet(l[2]) : /\ ContainsQ(both, v)[2] = ContainsQ(r, v)[2]
                              /\ ContainsQ(left, v)[2] # ContainsQ(r, v)[2]
  <2> SUFFICES ASSUME NEW v \in ToSet(s)
               PROVE  /\ ContainsQ(both, v)[2] = ContainsQ(r, v)[2]
                      /\ ContainsQ(left, v)[2] # ContainsQ(r, v)[2]
      BY DEF s
  <2>1. (Holds(b, v) <=> Holds(t, v)) /\ (Holds(d, v) <=> ~Holds(t, v))  BY <1>13 DEF SplitBy
  <2>2. /\ ContainsQ(both, v)[2] = Holds(b, v) /\ ContainsQ(left, v)[2] = Holds(d, v)
        /\ ContainsQ(r, v)[2] = Holds(t, v)
      BY <1>1, <1>2, <1>9
  <2>3. Holds(b, v) \in BOOLEAN /\ Holds(d, v) \in BOOLEAN /\ Holds(t, v) \in BOOLEAN
      BY <1>12
  <2> QED BY <2>1, <2>2, <2>3
<1>21. Size(both) + Size(left) = Size(l)  BY <1>1, <1>2, <1>10, <1>13
<1>22. \A j, k \in 1..Size(all) : j # k => ~values_equal(all[2][j], all[2][k])
    BY <1>3, <1>10, <1>14
<1>23. \A v \in V : (Kind(v) = "int" => Scalar(v)) =>
          ContainsQ(all, v)[2] = (ContainsQ(l, v)[2] \/ ContainsQ(r, v)[2])
    BY <1>1, <1>3, <1>9, <1>12, <1>14
<1> QED BY <1>15, <1>16, <1>17, <1>18, <1>19, <1>20, <1>21, <1>22, <1>23

\* Whatever comparable and tidy values are on the stack, the set words agree
\* with the words that compare: on scalars with one zero the keys of UNIQUE, UNION, DIFFERENCE
\* and INTERSECTION are the == of CONTAINS?, KEY-OF, ANY and ALL, and a record
\* on their left is taken apart as by PICK and OMIT.
THEOREM SetsHold == TidyStack(stack) /\ ComparableStack(stack) => SetsAgree
<1> SUFFICES ASSUME TidyStack(stack), ComparableStack(stack), NEW i \in 1..Len(stack) - 1
             PROVE  LET l == stack[i]
                        r == stack[i + 1]
                        In(v, s) == ContainsQ(s, v)[2]
                        both == IntersectionOf(l, r)
                        left == DifferenceOf(l, r)
                        all  == UnionOf(l, r)
                        Distinct(s) == \A j, k \in 1..Size(s) :
                                           j # k => ~values_equal(s[2][j], s[2][k])
                    IN  /\ Kind(l) = "array" /\ Kind(r) = "array" /\ Scalars(l) /\ Scalars(r)
                           /\ OneZero(l, r) =>
                              /\ \A v \in ToSet(l[2]) : In(v, both) = In(v, r)
                                                        /\ In(v, left) # In(v, r)
                              /\ Size(both) + Size(left) = Size(l)
                              /\ Distinct(all)
                              /\ \A v \in Values : (Kind(v) = "int" => Scalar(v)) =>
                                    In(v, all) = (In(v, l) \/ In(v, r))
                              /\ UniqueOf(all) = all /\ Size(SortUOf(l)) = Size(UniqueOf(l))
                              /\ AllIn(r, l)[2] <=> left = EmptyArr
                              /\ AnyIn(l, r)[2] <=> both # EmptyArr
                              /\ \A v \in Values : KeyOf(l, v) # Nil <=> In(v, l)
                        /\ Kind(l) = "record" /\ Kind(r) = "array"
                           /\ (\A v \in ToSet(r[2]) : Kind(v) = "string") =>
                              /\ left = OmitOf(l, r)
                              /\ values_equal(l, l) => values_equal(both, PickOf(l, r))
    BY Zenon DEF SetsAgree
<1> DEFINE l == stack[i]
           r == stack[i + 1]
           both == IntersectionOf(l, r)
           left == DifferenceOf(l, r)
           all  == UnionOf(l, r)
<1>1. Len(stack) \in Nat /\ i \in 1..Len(stack) /\ i + 1 \in 1..Len(stack)
    BY DEF TidyStack, IsSequence
<1>2. Tidy(l) /\ Tidy(r)  BY <1>1 DEF TidyStack
<1>3. l \in Values /\ r \in Values
  <2>1. DOMAIN stack = 1..Len(stack)  BY SequenceIs DEF TidyStack
  <2>2. l \in ToSet(stack) /\ r \in ToSet(stack)  BY <1>1, <2>1 DEF ToSet
  <2> QED BY <2>2 DEF Values
<1>4. \A v \in Values : Comparable(v)  BY ValuesComparable
<1>5. PICK V : Values \subseteq V /\ ComparableSet(V)  BY <1>4, ComparableTogether
<1> HIDE DEF l, r
<1>6. l \in V /\ r \in V  BY <1>3, <1>5
<1>7. ASSUME Kind(l) = "array", Kind(r) = "array", Scalars(l), Scalars(r), OneZero(l, r)
      PROVE  /\ \A v \in ToSet(l[2]) : /\ ContainsQ(both, v)[2] = ContainsQ(r, v)[2]
                                       /\ ContainsQ(left, v)[2] # ContainsQ(r, v)[2]
             /\ Size(both) + Size(left) = Size(l)
             /\ \A j, k \in 1..Size(all) : j # k => ~values_equal(all[2][j], all[2][k])
             /\ \A v \in Values : (Kind(v) = "int" => Scalar(v)) =>
                   ContainsQ(all, v)[2] = (ContainsQ(l, v)[2] \/ ContainsQ(r, v)[2])
             /\ UniqueOf(all) = all /\ Size(SortUOf(l)) = Size(UniqueOf(l))
             /\ AllIn(r, l)[2] <=> left = EmptyArr
             /\ AnyIn(l, r)[2] <=> both # EmptyArr
             /\ \A v \in Values : KeyOf(l, v) # Nil <=> ContainsQ(l, v)[2]
  <2>1. both = IntersectionOf(l, r) /\ left = DifferenceOf(l, r) /\ all = UnionOf(l, r)  OBVIOUS
  <2> HIDE DEF both, left, all
  <2>2. /\ \A v \in ToSet(l[2]) : /\ ContainsQ(both, v)[2] = ContainsQ(r, v)[2]
                                  /\ ContainsQ(left, v)[2] # ContainsQ(r, v)[2]
        /\ Size(both) + Size(left) = Size(l)
        /\ \A j, k \in 1..Size(all) : j # k => ~values_equal(all[2][j], all[2][k])
        /\ \A v \in V : (Kind(v) = "int" => Scalar(v)) =>
              ContainsQ(all, v)[2] = (ContainsQ(l, v)[2] \/ ContainsQ(r, v)[2])
        /\ UniqueOf(all) = all /\ Size(SortUOf(l)) = Size(UniqueOf(l))
        /\ AllIn(r, l)[2] <=> left = EmptyArr
        /\ AnyIn(l, r)[2] <=> both # EmptyArr
        /\ \A v \in V : KeyOf(l, v) # Nil <=> ContainsQ(l, v)[2]
      BY <1>2, <1>5, <1>6, <1>7, <2>1, ArraysAgree
  <2> QED BY <1>5, <2>2, Zenon
<1>8. ASSUME Kind(l) = "record", Kind(r) = "array",
             \A v \in ToSet(r[2]) : Kind(v) = "string"
      PROVE  left = OmitOf(l, r) /\ (values_equal(l, l) => values_equal(both, PickOf(l, r)))
  <2>1. Record(l)  BY <1>2, <1>8 DEF Tidy, TidySet, Whole
  <2>2. Whole(r)  BY <1>2 DEF Tidy, TidySet
  <2> QED BY <1>8, <2>1, <2>2, SetOpsByKey
<1> HIDE DEF both, left, all
<1> QED BY <1>7, <1>8, Zenon DEF l, r, both, left, all

\* What is grouped by a field or told apart by a key is all there, where it
\* belongs, on any stack of comparable and tidy values.
THEOREM KeyedWordsHold == TidyStack(stack) /\ ComparableStack(stack) => KeyedWordsAgree
BY GroupsHold, SetsHold DEF KeyedWordsAgree

\* It is so in every state of a program of the boolean and the core module.
THEOREM ComparingKeyedWords ==
    ASSUME \A s \in Stacks : TidyStack(s), \A s \in Stacks : ComparableStack(s)
    PROVE  ComparingSpec => []KeyedWordsAgree
<1>1. Init => TidyStack(stack)  BY DEF Init
<1>2. TidyStack(stack) /\ [ComparingWord]_vars => TidyStack(stack)'
  <2>1. TidyStack(stack) /\ [ComparingWord]_vars => TidyStack(stack')
      BY UnaryTidy, BinaryTidy, MovingTidy DEF ComparingWord, BooleanWord, CoreWord, vars
  <2> QED BY <2>1 DEF TidyStack, Tidy
<1>3. ComparingSpec => []TidyStack(stack)  BY <1>1, <1>2, PTL DEF ComparingSpec
<1>4. TidyStack(stack) /\ ComparableStack(stack) => KeyedWordsAgree  BY KeyedWordsHold
<1>5. ComparingSpec => []ComparableStack(stack)  BY ComparingKeepsValues
<1> QED BY <1>3, <1>4, <1>5, PTL

\* The groups are whole in every state of a program that shapes containers.
THEOREM ShapingGroups ==
    ASSUME \A s \in Stacks : TidyStack(s)
    PROVE  ShapingSpec => []GroupsAgree
<1>1. TidyStack(stack) => GroupsAgree  BY GroupsHold
<1> QED BY <1>1, ShapingKeepsTidy, PTL

=============================================================================
