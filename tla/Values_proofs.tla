---------------------------- MODULE Values_proofs ----------------------------
(***************************************************************************)
(* Proofs about values of any size and number: the order of SORT (module   *)
(* ForthicValues), the equality of == (ValueEquality), the records that    *)
(* are collected from pairs, taken apart and rebuilt (RecordShapes), and   *)
(* the elements that are chosen, put in order or grouped by their keys     *)
(* (ChoosingWords, ArrayWords).                                            *)
(***************************************************************************)
EXTENDS ArrayWords, RecordShapes, SequenceTheorems, FiniteSetTheorems,
        WellFoundedInduction, TLAPS

(***************************************************************************)
(* Sequences and numbers.                                                  *)
(***************************************************************************)

\* A sequence is one over its own elements, of its length.
LEMMA SequenceIs ==
    ASSUME NEW s, IsSequence(s)
    PROVE  Len(s) \in Nat /\ s \in Seq(ToSet(s)) /\ DOMAIN s = 1..Len(s)
<1>1. Len(s) \in Nat /\ s = [i \in 1..Len(s) |-> s[i]]  BY DEF IsSequence
<1>2. DOMAIN s = 1..Len(s)  BY <1>1
<1>3. s \in [1..Len(s) -> ToSet(s)]  BY <1>1, <1>2 DEF ToSet
<1>4. s \in Seq(ToSet(s))  BY <1>1, <1>3, SeqDef
<1> QED BY <1>1, <1>2, <1>4

\* The larger of two numbers.
LEMMA MaxOfTwo ==
    ASSUME NEW a \in Int, NEW b \in Int
    PROVE  Max({a, b}) = IF a >= b THEN a ELSE b
<1>1. \E x \in {a, b} : \A y \in {a, b} : x >= y  OBVIOUS
<1>2. Max({a, b}) \in {a, b} /\ \A y \in {a, b} : Max({a, b}) >= y  BY <1>1 DEF Max
<1> QED BY <1>2

\* The smaller of two numbers.
LEMMA MinOfTwo ==
    ASSUME NEW a \in Int, NEW b \in Int
    PROVE  Min({a, b}) = IF a <= b THEN a ELSE b
<1>1. \E x \in {a, b} : \A y \in {a, b} : x <= y  OBVIOUS
<1>2. Min({a, b}) \in {a, b} /\ \A y \in {a, b} : Min({a, b}) <= y  BY <1>1 DEF Min
<1> QED BY <1>2

\* The integers of the language are i64.
InWidth(v) == Kind(v) = "int" => v[2] \in MinInt..MaxInt

(***************************************************************************)
(* The order of SORT.                                                      *)
(***************************************************************************)

\* Strings.

\* A string of letters of the alphabet.
Spelled(s) ==
    /\ IsSequence(s)
    /\ \A i \in 1..Len(s) : \E j \in 1..Len(Alphabet) : CharAt(Alphabet, j) = CharAt(s, i)

LetterAt(s, i) == Letter(CharAt(s, i))

SameUpTo(s, t, i) == \A k \in 1..i : s[k] = t[k]

\* A string of one letter.
LEMMA CharIs ==
    ASSUME NEW s, Spelled(s), NEW i \in 1..Len(s)
    PROVE  CharAt(s, i) = <<s[i]>>
<1>1. Len(s) \in Nat  BY DEF Spelled, IsSequence
<1>2. CharAt(s, i) = SubSeq(s, i, i)  BY DEF CharAt
<1>3. SubSeq(s, i, i) = [k \in 1..i - i + 1 |-> s[i + k - 1]]
    BY <1>1 DEF Spelled, IsSequence
<1>4. i - i + 1 = 1 /\ \A k \in 1..1 : i + k - 1 = i  OBVIOUS
<1>5. SubSeq(s, i, i) = [k \in 1..1 |-> s[i]]  BY <1>3, <1>4
<1>6. [k \in 1..1 |-> s[i]] = <<s[i]>>  OBVIOUS
<1> QED BY <1>2, <1>5, <1>6

\* A letter of the alphabet is where it says.
LEMMA LetterIs ==
    ASSUME NEW s, Spelled(s), NEW i \in 1..Len(s)
    PROVE  LetterAt(s, i) \in Int /\ CharAt(Alphabet, LetterAt(s, i)) = <<s[i]>>
<1> DEFINE c == CharAt(s, i)
<1>1. c = <<s[i]>>  BY CharIs
<1> HIDE DEF c
<1>2. \E j \in 1..Len(Alphabet) : CharAt(Alphabet, j) = c  BY DEF Spelled, c
<1>3. Letter(c) \in 1..Len(Alphabet) /\ CharAt(Alphabet, Letter(c)) = c
    BY <1>2, Zenon DEF Letter
<1>4. Letter(c) \in Int  BY <1>3
<1> QED BY <1>1, <1>3, <1>4 DEF LetterAt, c

\* Letters are the same if they stand at the same place of the alphabet.
LEMMA LettersTellApart ==
    ASSUME NEW s, Spelled(s), NEW i \in 1..Len(s), NEW t, Spelled(t), NEW j \in 1..Len(t)
    PROVE  s[i] = t[j] <=> LetterAt(s, i) = LetterAt(t, j)
<1>1. CharAt(Alphabet, LetterAt(s, i)) = <<s[i]>>  BY LetterIs
<1>2. CharAt(Alphabet, LetterAt(t, j)) = <<t[j]>>  BY LetterIs
<1>3. CharAt(s, i) = <<s[i]>> /\ CharAt(t, j) = <<t[j]>>
    BY CharIs
<1>4. s[i] = t[j] => LetterAt(s, i) = LetterAt(t, j)  BY <1>3, Zenon DEF LetterAt
<1>5. LetterAt(s, i) = LetterAt(t, j) => <<s[i]>> = <<t[j]>>  BY <1>1, <1>2, Zenon
<1> QED BY <1>4, <1>5

\* The order of strings in terms of their letters.
LEMMA StringLessIs ==
    ASSUME NEW s, Spelled(s), NEW t, Spelled(t)
    PROVE  StringLess(s, t) <=>
              \E i \in 0..Len(s) :
                 /\ i < Len(t) /\ SameUpTo(s, t, i)
                 /\ i = Len(s) \/ LetterAt(s, i + 1) < LetterAt(t, i + 1)
<1>1. Len(s) \in Nat /\ Len(t) \in Nat  BY DEF Spelled, IsSequence
<1>2. ASSUME NEW i \in 0..Len(s), i < Len(t)
      PROVE  SubSeq(s, 1, i) = SubSeq(t, 1, i) <=> SameUpTo(s, t, i)
  <2>1. SubSeq(s, 1, i) = [k \in 1..i |-> s[k]]  BY <1>1 DEF Spelled, IsSequence
  <2>2. SubSeq(t, 1, i) = [k \in 1..i |-> t[k]]  BY <1>1, <1>2 DEF Spelled, IsSequence
  <2>3. [k \in 1..i |-> s[k]] = [k \in 1..i |-> t[k]] <=> SameUpTo(s, t, i)
      BY DEF SameUpTo
  <2> QED BY <2>1, <2>2, <2>3
<1> QED BY <1>2 DEF StringLess, LetterAt

\* Strings that are not equal part somewhere, one of them by its end or both
\* with a letter.
LEMMA FirstDifference ==
    ASSUME NEW s, Spelled(s), NEW t, Spelled(t), s # t
    PROVE  \E i \in 0..Len(s) :
              /\ i <= Len(t) /\ SameUpTo(s, t, i)
              /\ i < Len(s) \/ i < Len(t)
              /\ i < Len(s) /\ i < Len(t) => s[i + 1] # t[i + 1]
<1> DEFINE Stop(i) == i = Len(s) \/ i = Len(t) \/ s[i + 1] # t[i + 1]
           S == {i \in Nat : Stop(i)}
<1>1. Len(s) \in Nat /\ Len(t) \in Nat  BY DEF Spelled, IsSequence
<1>2. Len(s) \in S /\ Len(t) \in S  BY <1>1
<1>3. PICK i \in S : \A j \in S : ~(j < i)
  <2>1. IsWellFoundedOn(OpToRel(<, Nat), Nat)  BY NatLessThanWellFounded
  <2>2. S # {} /\ S \subseteq Nat  BY <1>2
  <2> HIDE DEF S
  <2>3. PICK x \in S : \A y \in S : ~(<<y, x>> \in OpToRel(<, Nat))
      BY <2>1, <2>2, WFMin
  <2> QED BY <2>2, <2>3 DEF OpToRel
<1>4. i \in Nat /\ i <= Len(s) /\ i <= Len(t)  BY <1>1, <1>2, <1>3
<1>5. SameUpTo(s, t, i)
  <2> SUFFICES ASSUME NEW k \in 1..i PROVE s[k] = t[k]  BY DEF SameUpTo
  <2>1. k - 1 \in Nat /\ k - 1 < i /\ k - 1 + 1 = k  BY <1>4
  <2>2. k - 1 \notin S  BY <1>3, <2>1
  <2> QED BY <2>1, <2>2
<1>6. i < Len(s) \/ i < Len(t)
  <2> SUFFICES ASSUME i = Len(s), i = Len(t) PROVE FALSE  BY <1>1, <1>4
  <2>1. \A k \in 1..i : s[k] = t[k]  BY <1>5 DEF SameUpTo
  <2>2. s = [k \in 1..i |-> s[k]] /\ t = [k \in 1..i |-> t[k]]  BY DEF Spelled, IsSequence
  <2>3. [k \in 1..i |-> s[k]] = [k \in 1..i |-> t[k]]  BY <2>1
  <2> QED BY <2>2, <2>3
<1>7. i < Len(s) /\ i < Len(t) => s[i + 1] # t[i + 1]  BY <1>1, <1>3, <1>4
<1>8. i \in 0..Len(s)  BY <1>1, <1>4
<1> QED BY <1>4, <1>5, <1>6, <1>7, <1>8

\* Of two strings that are not equal exactly one is less.
LEMMA StringsCompare ==
    ASSUME NEW s, Spelled(s), NEW t, Spelled(t), s # t
    PROVE  StringLess(s, t) <=> ~StringLess(t, s)
<1>1. Len(s) \in Nat /\ Len(t) \in Nat  BY DEF Spelled, IsSequence
<1>2. StringLess(s, t) \/ StringLess(t, s)
  <2>1. PICK i \in 0..Len(s) :
              /\ i <= Len(t) /\ SameUpTo(s, t, i)
              /\ i < Len(s) \/ i < Len(t)
              /\ i < Len(s) /\ i < Len(t) => s[i + 1] # t[i + 1]
      BY FirstDifference
  <2>2. i \in 0..Len(t) /\ SameUpTo(t, s, i)  BY <1>1, <2>1 DEF SameUpTo
  <2>3. CASE i = Len(s)
    <3>1. i < Len(t)  BY <1>1, <2>1, <2>3
    <3> QED BY <2>1, <2>3, <3>1, StringLessIs
  <2>4. CASE i = Len(t)
    <3>1. i < Len(s)  BY <1>1, <2>1, <2>4
    <3> QED BY <2>2, <2>4, <3>1, StringLessIs
  <2>5. CASE i < Len(s) /\ i < Len(t)
    <3>1. i + 1 \in 1..Len(s) /\ i + 1 \in 1..Len(t)  BY <1>1, <2>5
    <3>2. s[i + 1] # t[i + 1]  BY <2>1, <2>5
    <3>3. LetterAt(s, i + 1) # LetterAt(t, i + 1)  BY <3>1, <3>2, LettersTellApart
    <3>4. LetterAt(s, i + 1) \in Int /\ LetterAt(t, i + 1) \in Int  BY <3>1, LetterIs
    <3>5. CASE LetterAt(s, i + 1) < LetterAt(t, i + 1)
        BY <2>1, <2>5, <3>5, StringLessIs
    <3>6. CASE LetterAt(t, i + 1) < LetterAt(s, i + 1)
        BY <2>2, <2>5, <3>6, StringLessIs
    <3> QED BY <3>3, <3>4, <3>5, <3>6
  <2> QED BY <1>1, <2>1, <2>3, <2>4, <2>5
<1>3. ASSUME StringLess(s, t), StringLess(t, s) PROVE FALSE
  <2>1. PICK i \in 0..Len(s) : /\ i < Len(t) /\ SameUpTo(s, t, i)
                               /\ i = Len(s) \/ LetterAt(s, i + 1) < LetterAt(t, i + 1)
      BY <1>3, StringLessIs
  <2>2. PICK j \in 0..Len(t) : /\ j < Len(s) /\ SameUpTo(t, s, j)
                               /\ j = Len(t) \/ LetterAt(t, j + 1) < LetterAt(s, j + 1)
      BY <1>3, StringLessIs
  <2>3. \A k \in 1..Len(s) : k \in 1..Len(t) =>
           /\ LetterAt(s, k) \in Int /\ LetterAt(t, k) \in Int
           /\ s[k] = t[k] => LetterAt(s, k) = LetterAt(t, k)
      BY LetterIs, LettersTellApart
  <2>4. CASE i < j
    <3>1. i + 1 \in 1..j /\ i + 1 \in 1..Len(s) /\ i + 1 \in 1..Len(t)  BY <1>1, <2>1, <2>2, <2>4
    <3>2. t[i + 1] = s[i + 1]  BY <2>2, <3>1 DEF SameUpTo
    <3>3. i # Len(s)  BY <1>1, <2>2, <2>4
    <3> QED BY <2>1, <2>3, <3>1, <3>2, <3>3
  <2>5. CASE j < i
    <3>1. j + 1 \in 1..i /\ j + 1 \in 1..Len(s) /\ j + 1 \in 1..Len(t)  BY <1>1, <2>1, <2>2, <2>5
    <3>2. t[j + 1] = s[j + 1]  BY <2>1, <3>1 DEF SameUpTo
    <3>3. j # Len(t)  BY <1>1, <2>1, <2>5
    <3> QED BY <2>2, <2>3, <3>1, <3>2, <3>3
  <2>6. CASE i = j
    <3>1. i + 1 \in 1..Len(s) /\ i + 1 \in 1..Len(t)  BY <1>1, <2>1, <2>2, <2>6
    <3>2. i # Len(s) /\ j # Len(t)  BY <1>1, <2>1, <2>2, <2>6
    <3> QED BY <2>1, <2>2, <2>3, <2>6, <3>1, <3>2
  <2> QED BY <1>1, <2>4, <2>5, <2>6
<1> QED BY <1>2, <1>3

\* Less is kept along a chain.
LEMMA StringsChain ==
    ASSUME NEW s, Spelled(s), NEW t, Spelled(t), NEW u, Spelled(u),
           StringLess(s, t), StringLess(t, u)
    PROVE  StringLess(s, u)
<1>1. Len(s) \in Nat /\ Len(t) \in Nat /\ Len(u) \in Nat  BY DEF Spelled, IsSequence
<1>2. PICK i \in 0..Len(s) : /\ i < Len(t) /\ SameUpTo(s, t, i)
                             /\ i = Len(s) \/ LetterAt(s, i + 1) < LetterAt(t, i + 1)
    BY StringLessIs
<1>3. PICK j \in 0..Len(t) : /\ j < Len(u) /\ SameUpTo(t, u, j)
                             /\ j = Len(t) \/ LetterAt(t, j + 1) < LetterAt(u, j + 1)
    BY StringLessIs
<1> DEFINE k == IF i <= j THEN i ELSE j
<1>4. /\ k \in 0..Len(s) /\ k < Len(u) /\ k < Len(t)
      /\ \A m \in 1..k : m \in 1..i /\ m \in 1..j
    BY <1>1, <1>2, <1>3
<1>5. SameUpTo(s, u, k)  BY <1>2, <1>3, <1>4 DEF SameUpTo
<1>6. ASSUME k # Len(s) PROVE LetterAt(s, k + 1) < LetterAt(u, k + 1)
  <2>1. k + 1 \in 1..Len(s) /\ k + 1 \in 1..Len(t) /\ k + 1 \in 1..Len(u)  BY <1>1, <1>4, <1>6
  <2>2. /\ LetterAt(s, k + 1) \in Int /\ LetterAt(t, k + 1) \in Int
        /\ LetterAt(u, k + 1) \in Int
      BY <2>1, LetterIs
  <2>3. s[k + 1] = t[k + 1] => LetterAt(s, k + 1) = LetterAt(t, k + 1)
      BY <2>1, LettersTellApart
  <2>4. t[k + 1] = u[k + 1] => LetterAt(t, k + 1) = LetterAt(u, k + 1)
      BY <2>1, LettersTellApart
  <2>5. CASE i < j
    <3>1. k = i /\ k + 1 \in 1..j  BY <1>1, <2>5
    <3>2. t[k + 1] = u[k + 1]  BY <1>3, <3>1 DEF SameUpTo
    <3> QED BY <1>2, <1>6, <2>2, <2>4, <3>1, <3>2
  <2>6. CASE j < i
    <3>1. k = j /\ k + 1 \in 1..i /\ j # Len(t)  BY <1>1, <1>2, <2>6
    <3>2. s[k + 1] = t[k + 1]  BY <1>2, <3>1 DEF SameUpTo
    <3> QED BY <1>3, <2>2, <2>3, <3>1, <3>2
  <2>7. CASE i = j
    <3>1. k = i /\ k = j /\ j # Len(t)  BY <1>1, <1>2, <2>7
    <3> QED BY <1>2, <1>3, <1>6, <2>2, <3>1
  <2> QED BY <1>1, <2>5, <2>6, <2>7
<1> QED BY <1>4, <1>5, <1>6, StringLessIs

-----------------------------------------------------------------------------
\* Integers as floats.

\* Small integers are floats.
LEMMA SmallAreExact ==
    ASSUME NEW n \in -Precise..Precise
    PROVE  n \in Exact
<1>1. n \in Int /\ n \in MinInt..MaxInt + 1 /\ 0 \in 0..MaxInt  BY WidthAssumption DEF MinInt
<1>2. 2^0 = 1  OBVIOUS
<1>3. n = n * 2^0  BY <1>1, <1>2
<1> QED BY <1>1, <1>3 DEF Exact

\* Some float is nearest: distances are natural numbers.
LEMMA NearestExists ==
    ASSUME NEW n \in Int
    PROVE  Nearest(n) # {}
<1> DEFINE D == {Distance(x, n) : x \in Exact}
<1>1. 0 \in Exact  BY SmallAreExact, WidthAssumption
<1>2. \A x \in Exact : x \in Int /\ Distance(x, n) \in Nat  BY WidthAssumption DEF Exact, MinInt, Distance
<1>3. D # {} /\ D \subseteq Nat  BY <1>1, <1>2
<1> HIDE DEF D
<1>4. PICK d \in D : \A e \in D : ~(e < d)
  <2>1. IsWellFoundedOn(OpToRel(<, Nat), Nat)  BY NatLessThanWellFounded
  <2>2. PICK x \in D : \A y \in D : ~(<<y, x>> \in OpToRel(<, Nat))
      BY <1>3, <2>1, WFMin
  <2> QED BY <1>3, <2>2 DEF OpToRel
<1>5. PICK x \in Exact : d = Distance(x, n)  BY DEF D
<1>6. \A y \in Exact : Distance(x, n) <= Distance(y, n)
  <2> TAKE y \in Exact
  <2>1. Distance(y, n) \in D  BY DEF D
  <2>2. ~(Distance(y, n) < Distance(x, n))  BY <1>4, <1>5, <2>1
  <2> QED BY <1>2, <2>2
<1> QED BY <1>6 DEF Nearest

\* Rounding chooses a nearest float: of three, two are the same.
LEMMA RoundedIsNearest ==
    ASSUME NEW n \in MinInt..MaxInt
    PROVE  Rounded[n] \in Nearest(n)
<1> DEFINE Even(x, y) == x % (2 * Distance(x, y)) = 0
           Fits(x) == \A y \in Nearest(n) \ {x} :
                          y % (2 * Distance(x, y)) = 0 => x % (2 * Distance(x, y)) = 0
<1>1. n \in Int  BY WidthAssumption DEF MinInt
<1>2. \A x \in Nearest(n) : x \in Int  BY WidthAssumption DEF Nearest, Exact, MinInt
<1>3. ASSUME NEW x \in Nearest(n), NEW y \in Nearest(n), NEW z \in Nearest(n)
      PROVE  x = y \/ y = z \/ x = z
  <2>1. x \in Exact /\ y \in Exact /\ z \in Exact  BY DEF Nearest
  <2>2. /\ Distance(x, n) <= Distance(y, n) /\ Distance(y, n) <= Distance(z, n)
        /\ Distance(z, n) <= Distance(x, n)
      BY <2>1 DEF Nearest
  <2> QED BY <1>1, <1>2, <2>2 DEF Distance
<1>4. \E x \in Nearest(n) : Fits(x)
  <2>1. PICK x \in Nearest(n) : TRUE  BY <1>1, NearestExists
  <2>2. CASE Fits(x)  BY <2>2
  <2>3. CASE ~Fits(x)
    <3>1. PICK y \in Nearest(n) \ {x} :
             y % (2 * Distance(x, y)) = 0 /\ ~(x % (2 * Distance(x, y)) = 0)
        BY <2>3
    <3>2. Distance(x, y) = Distance(y, x)  BY <1>2 DEF Distance
    <3>3. \A z \in Nearest(n) \ {y} : z = x  BY <1>3, <3>1
    <3>4. Fits(y)  BY <3>1, <3>2, <3>3
    <3> QED BY <3>1, <3>4
  <2> QED BY <2>2, <2>3
<1>5. Rounded[n] = CHOOSE x \in Nearest(n) : Fits(x)  BY DEF Rounded
<1> HIDE DEF Fits
<1> QED BY <1>4, <1>5

\* Rounding never exchanges two integers.
LEMMA RoundedInOrder ==
    ASSUME NEW m \in MinInt..MaxInt, NEW n \in MinInt..MaxInt, m < n
    PROVE  /\ Rounded[m] \in Int /\ Rounded[n] \in Int /\ Rounded[m] <= Rounded[n]
<1> DEFINE r == Rounded[m]
           s == Rounded[n]
<1>1. m \in Int /\ n \in Int  BY WidthAssumption DEF MinInt
<1>2. r \in Nearest(m) /\ s \in Nearest(n)  BY RoundedIsNearest
<1> HIDE DEF r, s
<1>3. r \in Exact /\ s \in Exact /\ r \in Int /\ s \in Int
    BY <1>2, WidthAssumption DEF Nearest, Exact, MinInt
<1>4. Distance(r, m) <= Distance(s, m) /\ Distance(s, n) <= Distance(r, n)
    BY <1>2, <1>3 DEF Nearest
<1>5. r <= s  BY <1>1, <1>3, <1>4 DEF Distance
<1> QED BY <1>3, <1>5 DEF r, s

\* Small integers stay as they are.
LEMMA SmallStay ==
    ASSUME NEW n \in -Precise..Precise
    PROVE  Rounded[n] = n
<1> DEFINE r == Rounded[n]
<1>1. n \in Int /\ n \in MinInt..MaxInt  BY WidthAssumption DEF MinInt
<1>2. r \in Nearest(n)  BY <1>1, RoundedIsNearest
<1> HIDE DEF r
<1>3. r \in Exact /\ r \in Int  BY <1>2, WidthAssumption DEF Nearest, Exact, MinInt
<1>4. n \in Exact  BY SmallAreExact
<1>5. Distance(r, n) <= Distance(n, n)  BY <1>2, <1>4 DEF Nearest
<1>6. r = n  BY <1>1, <1>3, <1>5 DEF Distance
<1> QED BY <1>6 DEF r

-----------------------------------------------------------------------------
\* What SORT can put in order: anything but NaN.
Sortable(v) ==
    /\ Shaped(v) /\ InWidth(v) /\ Kind(v) # "nan"
    /\ Kind(v) = "bool"     => v[2] \in BOOLEAN
    /\ Kind(v) = "string"   => Spelled(v[2])
    /\ Kind(v) = "datetime" => v[2][1] \in Int

\* The alphabet orders the strings among these values.
StringsInOrder(S) ==
    \A a, b, c \in {v \in S : Kind(v) = "string"} :
        /\ a # b => (StringLess(a[2], b[2]) <=> ~StringLess(b[2], a[2]))
        /\ StringLess(a[2], b[2]) /\ StringLess(b[2], c[2]) => StringLess(a[2], c[2])

\* Letters being numbers, a string less than another less than a third is less
\* than the third, and of two exactly one is less.
LEMMA StringsAreInOrder ==
    ASSUME NEW S, \A v \in S : Sortable(v)
    PROVE  StringsInOrder(S)
<1> DEFINE T == {v \in S : Kind(v) = "string"}
<1>1. \A a \in T : a = <<a[1], a[2]>> /\ a[1] = "string" /\ Spelled(a[2])
    BY DEF Sortable, Shaped, Kind
<1>2. \A a, b \in T : a # b => a[2] # b[2]  BY <1>1
<1> HIDE DEF T
<1>3. ASSUME NEW a \in T, NEW b \in T, a # b
      PROVE  StringLess(a[2], b[2]) <=> ~StringLess(b[2], a[2])
    BY <1>1, <1>2, <1>3, StringsCompare
<1>4. ASSUME NEW a \in T, NEW b \in T, NEW c \in T,
             StringLess(a[2], b[2]), StringLess(b[2], c[2])
      PROVE  StringLess(a[2], c[2])
    BY <1>1, <1>4, StringsChain
<1> QED BY <1>3, <1>4 DEF StringsInOrder, T

\* The place of a value on the line of its kind.
Line(v) ==
    IF Kind(v) \in {"int", "float", "negzero"} THEN AsF64(v)
    ELSE IF Kind(v) = "bool" THEN (IF v[2] THEN 1 ELSE 0)
    ELSE IF Kind(v) = "datetime" THEN v[2][1] ELSE 0

\* Ranks and places are numbers, and a rank tells the kinds that have a line.
LEMMA RankAndLine ==
    ASSUME NEW v, Sortable(v)
    PROVE  /\ Rank(v) \in Int /\ Line(v) \in Int
           /\ Rank(v) = 0 <=> Kind(v) = "bool"
           /\ Rank(v) = 1 <=> Kind(v) \in {"int", "float", "negzero"}
           /\ Rank(v) = 2 <=> Kind(v) = "string"
           /\ Rank(v) = 5 <=> Kind(v) = "datetime"
<1>1. AsF64(v) \in Int \/ Kind(v) \notin {"int", "float", "negzero"}
  <2>1. CASE Kind(v) = "int"
    <3>1. v[2] \in MinInt..MaxInt  BY <2>1 DEF Sortable, InWidth
    <3>2. Rounded[v[2]] \in Int
      <4>1. Rounded[v[2]] \in Nearest(v[2])  BY <3>1, RoundedIsNearest
      <4> QED BY <4>1, WidthAssumption DEF Nearest, Exact, MinInt
    <3>3. ToF64(v[2]) \in Int  BY <3>2 DEF ToF64
    <3> QED BY <2>1, <3>3 DEF AsF64
  <2>2. CASE Kind(v) \in {"float", "negzero"}  BY <2>2 DEF AsF64, Sortable, Shaped
  <2> QED BY <2>1, <2>2
<1>2. Line(v) \in Int  BY <1>1 DEF Line, Sortable
<1>3. Kind(v) # "nan"  BY DEF Sortable
<1>4. /\ Rank(v) \in Int
      /\ Rank(v) = 0 <=> Kind(v) = "bool"
      /\ Rank(v) = 1 <=> Kind(v) \in {"int", "float", "negzero"}
      /\ Rank(v) = 2 <=> Kind(v) = "string"
      /\ Rank(v) = 5 <=> Kind(v) = "datetime"
    BY <1>3 DEF Rank, IsNumber
<1> QED BY <1>2, <1>4

\* natural_cmp compares ranks, then strings by the alphabet and the others by
\* their place on the line.
LEMMA CompareIs ==
    ASSUME NEW a, Sortable(a), NEW b, Sortable(b)
    PROVE  /\ Rank(a) # Rank(b) => natural_cmp(a, b) = Sign(Rank(a), Rank(b))
           /\ Rank(a) = Rank(b) /\ Kind(a) # "string" =>
                 natural_cmp(a, b) = Sign(Line(a), Line(b))
           /\ Kind(a) = "string" /\ Kind(b) = "string" =>
                 natural_cmp(a, b) = IF a = b THEN 0
                                     ELSE IF StringLess(a[2], b[2]) THEN -1 ELSE 1
<1> DEFINE Numbers == IsNumber(a) /\ IsNumber(b)
<1>1. a # NaN /\ b # NaN  BY DEF Sortable, NaN, Kind
<1>2. (IsNumber(a) <=> Rank(a) = 1) /\ (IsNumber(b) <=> Rank(b) = 1)
    BY RankAndLine DEF IsNumber, Sortable
<1>3. CASE Rank(a) # Rank(b)
  <2>1. natural_cmp(a, b) = Sign(Rank(a), Rank(b))
    <3>1. ~Numbers /\ ~(Kind(a) = "string" /\ Kind(b) = "string")
          /\ ~(Kind(a) = "bool" /\ Kind(b) = "bool")
          /\ ~(Kind(a) = "datetime" /\ Kind(b) = "datetime")
        BY <1>2, <1>3, RankAndLine
    <3> QED BY <3>1 DEF natural_cmp, IsNumber
  <2>2. ~(Kind(a) = "string" /\ Kind(b) = "string")  BY <1>3, RankAndLine
  <2> QED BY <1>3, <2>1, <2>2, Zenon
<1>4. CASE Rank(a) = Rank(b) /\ Rank(a) = 1
  <2>1. Numbers /\ Kind(a) \in {"int", "float", "negzero"} /\ Kind(b) \in {"int", "float", "negzero"}
      BY <1>2, <1>4, RankAndLine
  <2>2. natural_cmp(a, b) = Sign(AsF64(a), AsF64(b))
      BY <1>1, <2>1 DEF natural_cmp, IsNumber
  <2> QED BY <1>4, <2>1, <2>2 DEF Line
<1>5. CASE Rank(a) = Rank(b) /\ Rank(a) = 0
  <2>1. Kind(a) = "bool" /\ Kind(b) = "bool"  BY <1>5, RankAndLine
  <2>2. natural_cmp(a, b) = Sign(IF a[2] THEN 1 ELSE 0, IF b[2] THEN 1 ELSE 0)
      BY <2>1 DEF natural_cmp, IsNumber
  <2> QED BY <1>5, <2>1, <2>2 DEF Line
<1>6. CASE Rank(a) = Rank(b) /\ Rank(a) = 2
  <2>1. Kind(a) = "string" /\ Kind(b) = "string"  BY <1>6, RankAndLine
  <2>2. natural_cmp(a, b) = IF a = b THEN 0 ELSE IF StringLess(a[2], b[2]) THEN -1 ELSE 1
      BY <2>1 DEF natural_cmp, IsNumber
  <2> QED BY <1>6, <2>1, <2>2
<1>7. CASE Rank(a) = Rank(b) /\ Rank(a) = 5
  <2>1. Kind(a) = "datetime" /\ Kind(b) = "datetime"  BY <1>7, RankAndLine
  <2>2. natural_cmp(a, b) = Sign(a[2][1], b[2][1])
      BY <2>1 DEF natural_cmp, IsNumber
  <2> QED BY <1>7, <2>1, <2>2 DEF Line
<1>8. CASE Rank(a) = Rank(b) /\ Rank(a) \notin {0, 1, 2, 5}
  <2>1. /\ Kind(a) \notin {"bool", "int", "float", "negzero", "string", "datetime", "nan"}
        /\ Kind(b) \notin {"bool", "int", "float", "negzero", "string", "datetime", "nan"}
      BY <1>8, RankAndLine DEF Sortable
  <2>2. natural_cmp(a, b) = Sign(Rank(a), Rank(b))  BY <2>1 DEF natural_cmp, IsNumber
  <2>3. Line(a) = 0 /\ Line(b) = 0  BY <2>1 DEF Line
  <2>4. Sign(Rank(a), Rank(b)) = 0 /\ Sign(Line(a), Line(b)) = 0
      BY <1>8, <2>3, RankAndLine DEF Sign
  <2>5. Kind(a) # "string"  BY <2>1
  <2> QED BY <1>8, <2>2, <2>4, <2>5, Zenon
<1> QED BY <1>3, <1>4, <1>5, <1>6, <1>7, <1>8

\* natural_cmp is an order on values of every kind that has one, NaN apart: it
\* answers -1, 0 or 1, a value ties with itself, the answer is opposite when the
\* arguments are exchanged, and neither "not after" nor "tied" breaks along a
\* chain.  SORT, MAX and MIN take this for granted.
THEOREM SortOrder ==
    ASSUME NEW S, \A v \in S : Sortable(v)
    PROVE  \A a, b, c \in S :
              /\ natural_cmp(a, b) \in {-1, 0, 1}
              /\ natural_cmp(a, a) = 0
              /\ natural_cmp(b, a) = -natural_cmp(a, b)
              /\ natural_cmp(a, b) <= 0 /\ natural_cmp(b, c) <= 0 => natural_cmp(a, c) <= 0
              /\ natural_cmp(a, b) = 0 /\ natural_cmp(b, c) = 0 => natural_cmp(a, c) = 0
<1> SUFFICES ASSUME NEW a \in S, NEW b \in S, NEW c \in S
             PROVE  /\ natural_cmp(a, b) \in {-1, 0, 1}
                    /\ natural_cmp(a, a) = 0
                    /\ natural_cmp(b, a) = -natural_cmp(a, b)
                    /\ natural_cmp(a, b) <= 0 /\ natural_cmp(b, c) <= 0
                          => natural_cmp(a, c) <= 0
                    /\ natural_cmp(a, b) = 0 /\ natural_cmp(b, c) = 0
                          => natural_cmp(a, c) = 0
    OBVIOUS
<1>1. Sortable(a) /\ Sortable(b) /\ Sortable(c)  OBVIOUS
<1>2. \A x, y \in {a, b, c} :
         /\ Rank(x) \in Int /\ Line(x) \in Int
         /\ Rank(x) = 2 <=> Kind(x) = "string"
    BY <1>1, RankAndLine
<1>3. \A x, y \in {a, b, c} :
         /\ Rank(x) # Rank(y) => natural_cmp(x, y) = Sign(Rank(x), Rank(y))
         /\ Rank(x) = Rank(y) /\ Kind(x) # "string" => natural_cmp(x, y) = Sign(Line(x), Line(y))
         /\ Kind(x) = "string" /\ Kind(y) = "string" =>
               natural_cmp(x, y) = IF x = y THEN 0
                                   ELSE IF StringLess(x[2], y[2]) THEN -1 ELSE 1
    BY <1>1, CompareIs
<1>4. \A x, y, z \in {a, b, c} :
         Kind(x) = "string" /\ Kind(y) = "string" /\ Kind(z) = "string" =>
            /\ x # y => (StringLess(x[2], y[2]) <=> ~StringLess(y[2], x[2]))
            /\ StringLess(x[2], y[2]) /\ StringLess(y[2], z[2]) => StringLess(x[2], z[2])
    BY StringsAreInOrder DEF StringsInOrder
<1>5. natural_cmp(a, b) \in {-1, 0, 1} /\ natural_cmp(a, a) = 0
      /\ natural_cmp(b, a) = -natural_cmp(a, b)
  <2>1. CASE Rank(a) # Rank(b)  BY <2>1, <1>2, <1>3 DEF Sign
  <2>2. CASE Rank(a) = Rank(b) /\ Kind(a) # "string"  BY <2>2, <1>2, <1>3 DEF Sign
  <2>3. CASE Rank(a) = Rank(b) /\ Kind(a) = "string"
    <3>1. Kind(b) = "string"  BY <2>3, <1>2
    <3> QED BY <2>3, <3>1, <1>3, <1>4
  <2> QED BY <2>1, <2>2, <2>3
<1>6. CASE Kind(a) = "string" /\ Kind(b) = "string" /\ Kind(c) = "string"
  <2>1. /\ natural_cmp(a, b) <= 0 <=> a = b \/ StringLess(a[2], b[2])
        /\ natural_cmp(b, c) <= 0 <=> b = c \/ StringLess(b[2], c[2])
        /\ natural_cmp(a, c) <= 0 <=> a = c \/ StringLess(a[2], c[2])
        /\ natural_cmp(a, b) = 0 <=> a = b
        /\ natural_cmp(b, c) = 0 <=> b = c
        /\ natural_cmp(a, c) = 0 <=> a = c
      BY <1>3, <1>6
  <2> QED BY <1>4, <1>5, <1>6, <2>1
<1>7. CASE ~(Kind(a) = "string" /\ Kind(b) = "string" /\ Kind(c) = "string")
  <2>1. CASE Rank(a) = Rank(b) /\ Rank(b) = Rank(c)
    <3>1. Kind(a) # "string" /\ Kind(b) # "string"  BY <2>1, <1>2, <1>7
    <3>2. /\ natural_cmp(a, b) = Sign(Line(a), Line(b))
          /\ natural_cmp(b, c) = Sign(Line(b), Line(c))
          /\ natural_cmp(a, c) = Sign(Line(a), Line(c))
        BY <1>3, <2>1, <3>1
    <3> QED BY <3>2, <1>2, <1>5 DEF Sign
  <2>2. CASE ~(Rank(a) = Rank(b) /\ Rank(b) = Rank(c))
    <3>1. \A x, y \in {a, b, c} :
             /\ natural_cmp(x, y) <= 0 => Rank(x) <= Rank(y)
             /\ natural_cmp(x, y) = 0 => Rank(x) = Rank(y)
      <4> SUFFICES ASSUME NEW x \in {a, b, c}, NEW y \in {a, b, c}, Rank(x) # Rank(y)
                   PROVE  /\ natural_cmp(x, y) <= 0 => Rank(x) <= Rank(y)
                          /\ natural_cmp(x, y) # 0
          BY <1>2
      <4>1. natural_cmp(x, y) = Sign(Rank(x), Rank(y))  BY <1>3
      <4> QED BY <4>1, <1>2 DEF Sign
    <3>2. Rank(a) < Rank(c) => natural_cmp(a, c) = -1
      <4> SUFFICES ASSUME Rank(a) < Rank(c) PROVE natural_cmp(a, c) = -1  OBVIOUS
      <4>1. Rank(a) # Rank(c)  BY <1>2
      <4>2. natural_cmp(a, c) = Sign(Rank(a), Rank(c))  BY <1>3, <4>1
      <4> QED BY <4>2 DEF Sign
    <3>3. natural_cmp(a, b) <= 0 /\ natural_cmp(b, c) <= 0 => Rank(a) < Rank(c)
        BY <2>2, <3>1, <1>2
    <3>4. ~(natural_cmp(a, b) = 0 /\ natural_cmp(b, c) = 0)  BY <2>2, <3>1
    <3> QED BY <1>5, <3>2, <3>3, <3>4
  <2> QED BY <2>1, <2>2
<1> QED BY <1>6, <1>7, <1>5

\* A scalar other than NaN: a value that can be the key of a record.
Keyable(v) == /\ Sortable(v) /\ Kind(v) \in {"null", "bool", "int", "float", "negzero", "string"}
              /\ Kind(v) = "null" => v[2] = 0

\* The ties of SORT are the duplicates of UNIQUE, UNION and the other set words,
\* but for 0 and -0.0, which tie and have two keys: on scalars the hashed key of
\* a value, the text of an f64 for every number, and natural_cmp tell the same
\* values apart otherwise, beyond 2^53 too.
THEOREM TiesShareAKey ==
    ASSUME NEW a, Keyable(a), NEW b, Keyable(b)
    PROVE  value_to_key(a) = value_to_key(b) <=> natural_cmp(a, b) = 0 /\ SameZero(a, b)
<1> USE DEF Keyable
<1>1. /\ a = <<a[1], a[2]>> /\ b = <<b[1], b[2]>> /\ Kind(a) = a[1] /\ Kind(b) = b[1]
      /\ Kind(a) = "bool" => a[2] \in BOOLEAN
      /\ Kind(b) = "bool" => b[2] \in BOOLEAN
    BY DEF Sortable, Shaped, Kind
<1>2. CASE Rank(a) # Rank(b)
  <2>1. natural_cmp(a, b) # 0  BY <1>2, CompareIs, RankAndLine DEF Sign
  <2>2. Kind(a) # Kind(b) /\ ~(IsNumber(a) /\ IsNumber(b))
      BY <1>2, RankAndLine DEF Rank, IsNumber
  <2>3. value_to_key(a) # value_to_key(b)
      BY <1>1, <2>2 DEF value_to_key, IsNumber
  <2> QED BY <2>1, <2>3
<1>3. CASE Rank(a) = Rank(b) /\ Kind(a) \in {"int", "float", "negzero"}
  <2>1. Kind(b) \in {"int", "float", "negzero"} /\ Kind(a) # "string"  BY <1>3, RankAndLine
  <2>2. natural_cmp(a, b) = Sign(AsF64(a), AsF64(b))  BY <1>3, <2>1, CompareIs DEF Line
  <2>3. Line(a) = AsF64(a) /\ Line(b) = AsF64(b)  BY <1>3, <2>1 DEF Line
  <2>4. AsF64(a) \in Int /\ AsF64(b) \in Int  BY <2>3, RankAndLine
  <2>5. \A v \in {a, b} :
           /\ v = NegZero <=> Kind(v) = "negzero"
           /\ v = NegZero => value_to_key(v) = NegZero /\ AsF64(v) = 0
           /\ v # NegZero => value_to_key(v) = <<"num", AsF64(v)>>
    <3>1. \A v \in {a, b} : v = <<Kind(v), v[2]>> /\ (Kind(v) = "negzero" => v[2] = 0)
        BY <1>1 DEF Sortable, Shaped
    <3>2. \A v \in {a, b} : v = NegZero <=> Kind(v) = "negzero"
        BY <3>1 DEF NegZero, Kind
    <3> QED BY <1>3, <2>1, <3>1, <3>2 DEF value_to_key, AsF64, NegZero
  <2>6. natural_cmp(a, b) = 0 <=> AsF64(a) = AsF64(b)  BY <2>2, <2>4 DEF Sign
  <2>7. CASE SameZero(a, b)  BY <2>5, <2>6, <2>7 DEF SameZero
  <2>8. CASE ~SameZero(a, b)
    <3>1. \A x : NegZero # <<"num", x>>  BY DEF NegZero
    <3> QED BY <2>5, <2>8, <3>1 DEF SameZero
  <2> QED BY <2>7, <2>8
<1>4. CASE Rank(a) = Rank(b) /\ Kind(a) \notin {"int", "float", "negzero"}
  <2>1. Kind(b) \notin {"int", "float", "negzero"} /\ Kind(a) = Kind(b)
      BY <1>4, RankAndLine DEF Rank, IsNumber
  <2>2. value_to_key(a) = a /\ value_to_key(b) = b  BY <1>4, <2>1 DEF value_to_key
  <2>3. natural_cmp(a, b) = 0 <=> a = b
    <3>1. CASE Kind(a) = "string"  BY <3>1, <2>1, CompareIs
    <3>2. CASE Kind(a) = "bool"
      <4>1. natural_cmp(a, b) = Sign(IF a[2] THEN 1 ELSE 0, IF b[2] THEN 1 ELSE 0)
          BY <1>4, <3>2, <2>1, CompareIs DEF Line
      <4>2. natural_cmp(a, b) = 0 <=> a[2] = b[2]  BY <1>1, <3>2, <2>1, <4>1 DEF Sign
      <4> QED BY <1>1, <2>1, <4>2
    <3>3. CASE Kind(a) = "null"
      <4>1. natural_cmp(a, b) = Sign(0, 0)  BY <1>4, <3>3, <2>1, CompareIs DEF Line
      <4>2. natural_cmp(a, b) = 0  BY <4>1 DEF Sign
      <4>3. a[2] = b[2]  BY <3>3, <2>1
      <4> QED BY <1>1, <2>1, <4>2, <4>3
    <3> QED BY <1>4, <3>1, <3>2, <3>3
  <2>4. SameZero(a, b)  BY <1>4, <2>1 DEF SameZero, NegZero, Kind
  <2> QED BY <2>2, <2>3, <2>4
<1> QED BY <1>2, <1>3, <1>4

\* An i64 becomes an f64 before SORT, MAX and MIN look at it: beyond 2^53 two
\* integers may tie, but none ever comes after a greater one, and those that
\* floats hold exactly never tie.
THEOREM IntegersInOrder ==
    ASSUME NEW m \in MinInt..MaxInt, NEW n \in MinInt..MaxInt, m < n
    PROVE  /\ natural_cmp(Num(m), Num(n)) \in {-1, 0}
           /\ m \in -Precise..Precise /\ n \in -Precise..Precise
                 => natural_cmp(Num(m), Num(n)) = -1
<1>1. m \in Int /\ n \in Int /\ Precise \in Int  BY WidthAssumption DEF MinInt
<1>2. natural_cmp(Num(m), Num(n)) = Sign(ToF64(m), ToF64(n))
  <2>1. Kind(Num(m)) = "int" /\ Kind(Num(n)) = "int" /\ Num(m)[2] = m /\ Num(n)[2] = n
      BY DEF Num, Kind
  <2>2. NaN \notin {Num(m), Num(n)}  BY DEF NaN, Num
  <2> QED BY <2>1, <2>2 DEF natural_cmp, IsNumber, AsF64
<1>3. ToF64(m) \in Int /\ ToF64(n) \in Int /\ ToF64(m) <= ToF64(n)
  <2>1. Rounded[m] \in Int /\ Rounded[n] \in Int /\ Rounded[m] <= Rounded[n]
      BY RoundedInOrder
  <2> QED BY <2>1 DEF ToF64
<1>4. m \in -Precise..Precise /\ n \in -Precise..Precise => ToF64(m) < ToF64(n)
  <2>1. m \in -Precise..Precise => Rounded[m] = m  BY SmallStay
  <2>2. n \in -Precise..Precise => Rounded[n] = n  BY SmallStay
  <2> QED BY <1>1, <2>1, <2>2 DEF ToF64
<1> QED BY <1>2, <1>3, <1>4 DEF Sign

\* Why SortOrder speaks of numbers without NaN: NaN ties with every number, so
\* the ties of natural_cmp would join numbers that are not equal.
THEOREM NaNBreaksTheOrder ==
    ASSUME NEW m \in MinInt..MaxInt, NEW n \in MinInt..MaxInt, m < n,
           m \in -Precise..Precise, n \in -Precise..Precise
    PROVE  /\ natural_cmp(Num(m), NaN) = 0 /\ natural_cmp(NaN, Num(n)) = 0
           /\ natural_cmp(Num(m), Num(n)) = -1
<1>1. ASSUME NEW k \in Int PROVE natural_cmp(Num(k), NaN) = 0 /\ natural_cmp(NaN, Num(k)) = 0
  <2>1. Num(k) = <<"int", k>> /\ Kind(Num(k)) = "int" /\ Kind(NaN) = "nan"
      BY DEF Num, NaN, Kind
  <2> QED BY <2>1 DEF natural_cmp, IsNumber
<1>2. natural_cmp(Num(m), Num(n)) = -1  BY IntegersInOrder
<1>3. m \in Int /\ n \in Int  BY WidthAssumption DEF MinInt
<1> QED BY <1>1, <1>2, <1>3

-----------------------------------------------------------------------------
\* under[i] is what stands before i in a total order of n elements.
TotalOrder(n, under) ==
    /\ under \in [1..n -> SUBSET (1..n)]
    /\ \A i \in 1..n : i \notin under[i]
    /\ \A i, j \in 1..n : j \in under[i] => under[j] \subseteq under[i]
    /\ \A i, j \in 1..n : i # j => i \in under[j] \/ j \in under[i]

PlacesOf(n, under) == [i \in 1..n |-> Cardinality(under[i]) + 1]

\* Counting what stands before it gives every element of a total order a place
\* of its own, and leaves no place empty.
LEMMA PlacesAreFilled ==
    ASSUME NEW n \in Nat, NEW under, TotalOrder(n, under),
           NEW place, place = PlacesOf(n, under)
    PROVE  /\ place \in [1..n -> 1..n]
           /\ \A i, j \in 1..n : j \in under[i] => place[j] < place[i]
           /\ \A p \in 1..n : \E i \in 1..n : place[i] = p
<1> USE DEF PlacesOf, TotalOrder
<1>1. IsFiniteSet(1..n) /\ Cardinality(1..n) = n
  <2>1. 1 \in Int /\ n \in Int /\ (IF 1 > n THEN 0 ELSE n - 1 + 1) = n  OBVIOUS
  <2> QED BY <2>1, FS_Interval, Zenon
<1>2. ASSUME NEW i \in 1..n
      PROVE  IsFiniteSet(under[i]) /\ Cardinality(under[i]) \in 0..(n - 1)
  <2>1. under[i] \in SUBSET (1..n)  OBVIOUS
  <2>2. IsFiniteSet(under[i]) /\ Cardinality(under[i]) <= Cardinality(1..n)
        /\ (Cardinality(1..n) = Cardinality(under[i]) => 1..n = under[i])
      BY <1>1, <2>1, FS_Subset, Zenon
  <2>3. Cardinality(under[i]) \in Nat  BY <2>2, FS_CardinalityType, Zenon
  <2>4. 1..n # under[i]  OBVIOUS
  <2> QED BY <1>1, <2>2, <2>3, <2>4
<1>3. place \in [1..n -> 1..n]
  <2>1. ASSUME NEW i \in 1..n PROVE Cardinality(under[i]) + 1 \in 1..n
    <3>1. Cardinality(under[i]) \in 0..(n - 1)  BY <1>2
    <3> QED BY <3>1
  <2> QED BY <2>1
<1>4. ASSUME NEW i \in 1..n, NEW j \in 1..n, j \in under[i] PROVE place[j] < place[i]
  <2>1. under[j] \cup {j} \in SUBSET under[i]  BY <1>4
  <2>2. Cardinality(under[j] \cup {j}) = Cardinality(under[j]) + 1
      BY <1>2, FS_AddElement, Zenon
  <2>3. Cardinality(under[j] \cup {j}) <= Cardinality(under[i])
      BY <1>2, <2>1, FS_Subset, Zenon
  <2>4. Cardinality(under[i]) \in Int /\ Cardinality(under[j]) \in Int  BY <1>2
  <2>5. place[i] = Cardinality(under[i]) + 1 /\ place[j] = Cardinality(under[j]) + 1  OBVIOUS
  <2> QED BY <2>2, <2>3, <2>4, <2>5
<1>5. \A i, j \in 1..n : i # j => place[i] # place[j]
  <2> SUFFICES ASSUME NEW i \in 1..n, NEW j \in 1..n, i # j PROVE place[i] # place[j]
      OBVIOUS
  <2>1. place[i] < place[j] \/ place[j] < place[i]  BY <1>4
  <2> QED BY <1>3, <2>1
<1>6. ASSUME NEW p \in 1..n, \A i \in 1..n : place[i] # p PROVE FALSE
  <2>1. IsFiniteSet((1..n) \ {p}) /\ Cardinality((1..n) \ {p}) = Cardinality(1..n) - 1
      BY <1>1, FS_RemoveElement, Zenon
  <2>2. Cardinality((1..n) \ {p}) < Cardinality(1..n)  BY <1>1, <2>1
  <2>3. place \in [1..n -> (1..n) \ {p}]  BY <1>3, <1>6
  <2>4. \E i, j \in 1..n : i # j /\ place[i] = place[j]
    <3> DEFINE T == (1..n) \ {p}
    <3>1. IsFiniteSet(1..n) /\ IsFiniteSet(T) /\ Cardinality(T) < Cardinality(1..n)
          /\ place \in [1..n -> T]
        BY <1>1, <2>1, <2>2, <2>3
    <3> HIDE DEF T
    <3> QED BY <3>1, FS_PigeonHole
  <2> QED BY <1>5, <2>4
<1> QED BY <1>3, <1>4, <1>6

\* SORT and its kin lose nothing, put no element before a smaller one, and leave
\* ties in the order they had: the positions of the result are the positions of
\* the items, each taken once.  It is so for keys of any kind but NaN.
THEOREM SortIsStable ==
    ASSUME NEW S, \A v \in S : Sortable(v),
           NEW keys \in Seq(S), NEW items, Len(items) = Len(keys)
    PROVE  \E from \in [1..Len(items) -> 1..Len(items)] :
              /\ SortedBy(items, keys) = [p \in 1..Len(items) |-> items[from[p]]]
              /\ \A i \in 1..Len(items) : \E p \in 1..Len(items) : from[p] = i
              /\ \A p, q \in 1..Len(items) : p < q =>
                    /\ natural_cmp(keys[from[p]], keys[from[q]]) <= 0
                    /\ natural_cmp(keys[from[p]], keys[from[q]]) = 0 => from[p] < from[q]
<1> DEFINE n == Len(items)
           before(j, i) == \/ natural_cmp(keys[j], keys[i]) = -1
                           \/ (natural_cmp(keys[j], keys[i]) = 0 /\ j < i)
           under == [i \in 1..n |-> {j \in 1..n : before(j, i)}]
           place == [i \in 1..n |-> Cardinality({j \in 1..n : before(j, i)}) + 1]
           from == [p \in 1..n |-> CHOOSE i \in 1..n : place[i] = p]
<1>1. n \in Nat /\ \A i \in 1..n : keys[i] \in S  OBVIOUS
<1>2. \A i, j, k \in 1..n :
         /\ natural_cmp(keys[i], keys[j]) \in {-1, 0, 1}
         /\ natural_cmp(keys[i], keys[i]) = 0
         /\ natural_cmp(keys[j], keys[i]) = -natural_cmp(keys[i], keys[j])
         /\ natural_cmp(keys[i], keys[j]) <= 0 /\ natural_cmp(keys[j], keys[k]) <= 0
               => natural_cmp(keys[i], keys[k]) <= 0
         /\ natural_cmp(keys[i], keys[j]) = 0 /\ natural_cmp(keys[j], keys[k]) = 0
               => natural_cmp(keys[i], keys[k]) = 0
    BY <1>1, SortOrder
<1>3. \A i \in 1..n : ~before(i, i)  BY <1>1, <1>2
<1>4. \A i, j \in 1..n : i # j => before(i, j) \/ before(j, i)
  <2> SUFFICES ASSUME NEW i \in 1..n, NEW j \in 1..n, i # j PROVE before(i, j) \/ before(j, i)
      OBVIOUS
  <2>1. natural_cmp(keys[i], keys[j]) \in {-1, 0, 1}
        /\ natural_cmp(keys[j], keys[i]) = -natural_cmp(keys[i], keys[j])  BY <1>2
  <2> QED BY <2>1, <1>1
<1>5. \A i, j, k \in 1..n : before(i, j) /\ before(j, k) => before(i, k)
  <2> SUFFICES ASSUME NEW i \in 1..n, NEW j \in 1..n, NEW k \in 1..n,
                      before(i, j), before(j, k)
               PROVE  before(i, k)
      OBVIOUS
  <2> DEFINE ij == natural_cmp(keys[i], keys[j])
             jk == natural_cmp(keys[j], keys[k])
             ik == natural_cmp(keys[i], keys[k])
             kj == natural_cmp(keys[k], keys[j])
             ki == natural_cmp(keys[k], keys[i])
             ji == natural_cmp(keys[j], keys[i])
  <2>1. /\ ij \in {-1, 0, 1} /\ jk \in {-1, 0, 1} /\ ik \in {-1, 0, 1}
        /\ kj = -jk /\ ki = -ik /\ ji = -ij
        /\ ij <= 0 /\ jk <= 0 => ik <= 0
        /\ ki <= 0 /\ ij <= 0 => kj <= 0
        /\ jk <= 0 /\ ki <= 0 => ji <= 0
        /\ ij = 0 /\ jk = 0 => ik = 0
      BY <1>2
  <2>2. (ij = -1 \/ (ij = 0 /\ i < j)) /\ (jk = -1 \/ (jk = 0 /\ j < k))  OBVIOUS
  <2> HIDE DEF ij, jk, ik, kj, ki, ji
  <2>3. ik = -1 \/ (ik = 0 /\ i < k)  BY <2>1, <2>2, <1>1
  <2> QED BY <2>3 DEF ik
<1>6. /\ under \in [1..n -> SUBSET (1..n)]
      /\ \A i \in 1..n : i \notin under[i]
      /\ \A i, j \in 1..n : j \in under[i] => under[j] \subseteq under[i]
      /\ \A i, j \in 1..n : i # j => i \in under[j] \/ j \in under[i]
      /\ \A i, j \in 1..n : j \in under[i] <=> before(j, i)
  <2> HIDE DEF before, n
  <2> QED BY <1>3, <1>4, <1>5
<1>7. place = PlacesOf(n, under)
  <2>1. \A i \in 1..n : under[i] = {j \in 1..n : before(j, i)}  OBVIOUS
  <2> HIDE DEF before, under, n
  <2> QED BY <2>1, Zenon DEF PlacesOf
<1>8. SortedBy(items, keys) = [p \in 1..n |-> items[CHOOSE i \in 1..n : place[i] = p]]
    BY Zenon DEF SortedBy
<1> HIDE DEF before, under, place, n
<1>9. /\ place \in [1..n -> 1..n]
      /\ \A i, j \in 1..n : j \in under[i] => place[j] < place[i]
      /\ \A p \in 1..n : \E i \in 1..n : place[i] = p
  <2>1. TotalOrder(n, under)  BY <1>6 DEF TotalOrder
  <2>2. n \in Nat  BY <1>1
  <2>3. /\ PlacesOf(n, under) \in [1..n -> 1..n]
        /\ \A i, j \in 1..n : j \in under[i] => PlacesOf(n, under)[j] < PlacesOf(n, under)[i]
        /\ \A p \in 1..n : \E i \in 1..n : PlacesOf(n, under)[i] = p
      BY ONLY <2>1, <2>2, PlacesAreFilled, Zenon
  <2> QED BY <1>7, <2>3, Zenon
<1>10. \A p \in 1..n : from[p] \in 1..n /\ place[from[p]] = p  BY <1>9
<1>11. \A i, j \in 1..n : place[i] = place[j] => i = j
  <2> SUFFICES ASSUME NEW i \in 1..n, NEW j \in 1..n, i # j PROVE place[i] # place[j]
      OBVIOUS
  <2>1. i \in under[j] \/ j \in under[i]  BY <1>6
  <2>2. place[i] < place[j] \/ place[j] < place[i]  BY <1>9, <2>1
  <2>3. place[i] \in 1..n /\ place[j] \in 1..n  BY <1>9, Zenon
  <2>4. place[i] \in Int /\ place[j] \in Int  BY <2>3, <1>1
  <2> QED BY <2>2, <2>4
<1>12. from \in [1..n -> 1..n]  BY <1>10
<1>13. SortedBy(items, keys) = [p \in 1..n |-> items[from[p]]]  BY <1>8
<1>14. \A i \in 1..n : \E p \in 1..n : from[p] = i
  <2> SUFFICES ASSUME NEW i \in 1..n PROVE from[place[i]] = i /\ place[i] \in 1..n
      OBVIOUS
  <2>1. place[i] \in 1..n  BY <1>9
  <2>2. from[place[i]] \in 1..n /\ place[from[place[i]]] = place[i]  BY <1>10, <2>1
  <2> QED BY <1>11, <2>1, <2>2, Zenon
<1>15. ASSUME NEW p \in 1..n, NEW q \in 1..n, p < q
       PROVE  /\ natural_cmp(keys[from[p]], keys[from[q]]) <= 0
              /\ natural_cmp(keys[from[p]], keys[from[q]]) = 0 => from[p] < from[q]
  <2>1. from[p] \in 1..n /\ from[q] \in 1..n /\ place[from[p]] = p /\ place[from[q]] = q
      BY <1>10
  <2>2. ~before(from[q], from[p])
    <3>1. ~(place[from[q]] < place[from[p]])  BY <1>15, <2>1, <1>1
    <3> QED BY <1>6, <1>9, <2>1, <3>1
  <2>3. from[p] # from[q]  BY <1>15, <2>1, <1>1
  <2> HIDE DEF from
  <2>4. natural_cmp(keys[from[p]], keys[from[q]]) \in {-1, 0, 1}
        /\ natural_cmp(keys[from[q]], keys[from[p]])
              = -natural_cmp(keys[from[p]], keys[from[q]])  BY <1>2, <2>1
  <2> QED BY <2>1, <2>2, <2>3, <2>4, <1>1 DEF before
<1>16. /\ SortedBy(items, keys) = [p \in 1..n |-> items[from[p]]]
       /\ \A i \in 1..n : \E p \in 1..n : from[p] = i
       /\ \A p, q \in 1..n : p < q =>
             /\ natural_cmp(keys[from[p]], keys[from[q]]) <= 0
             /\ natural_cmp(keys[from[p]], keys[from[q]]) = 0 => from[p] < from[q]
    BY <1>13, <1>14, <1>15
<1> HIDE DEF from
<1> QED BY <1>12, <1>16, Zenon DEF n

(***************************************************************************)
(* Records that are collected from pairs.                                  *)
(***************************************************************************)
\* A set of numbers that holds 0 and with each number the next holds all.
LEMMA Counting ==
    ASSUME NEW S \in SUBSET Nat, 0 \in S, \A n \in S : n + 1 \in S
    PROVE  S = Nat
<1> SUFFICES ASSUME Nat \ S # {} PROVE FALSE  OBVIOUS
<1>1. PICK x \in Nat \ S : \A y \in Nat \ S : ~(y < x)
  <2>1. IsWellFoundedOn(OpToRel(<, Nat), Nat)  BY NatLessThanWellFounded
  <2>2. PICK x \in Nat \ S : \A y \in Nat \ S : ~(<<y, x>> \in OpToRel(<, Nat))
      BY <2>1, WFMin
  <2> QED BY <2>2 DEF OpToRel
<1>2. x # 0 /\ x - 1 \in Nat /\ x - 1 < x  BY <1>1
<1>3. x - 1 \in S  BY <1>1, <1>2
<1> QED BY <1>1, <1>2, <1>3

\* How a record grows as pairs are put into it.
Grows(R, pairs) ==
    /\ R[0] = <<>>
    /\ \A k \in 1..Len(pairs) : R[k] = Put(R[k - 1], pairs[k][1], pairs[k][2])

\* collect() puts the pairs one after the other.
LEMMA CollectedGrows ==
    ASSUME NEW pairs, IsSequence(pairs)
    PROVE  \E R : Grows(R, pairs) /\ Collected(pairs) = R[Len(pairs)]
<1> DEFINE n == Len(pairs)
           In(f, k) == f = [s \in SUBSET (1..k) |->
                              IF s = {} THEN <<>>
                              ELSE Put(f[s \ {Max(s)}], pairs[Max(s)][1], pairs[Max(s)][2])]
           iter == CHOOSE f : In(f, n)
<1>1. n \in Nat /\ DOMAIN pairs = 1..n  BY SequenceIs
<1> HIDE DEF n
<1>2. Collected(pairs) = iter[1..n]  BY <1>1, Zenon DEF Collected, FoldLeft, MapThenFoldSet
<1>3. \E f : In(f, 0)
  <2> DEFINE f == [s \in SUBSET (1..0) |-> <<>>]
  <2>1. \A s \in SUBSET (1..0) : s = {}  OBVIOUS
  <2>2. In(f, 0)  BY <2>1
  <2> QED BY <2>2
<1>4. ASSUME NEW k \in Nat, \E f : In(f, k) PROVE \E g : In(g, k + 1)
  <2>1. PICK f : In(f, k)  BY <1>4
  <2> DEFINE put(r, i) == Put(r, pairs[i][1], pairs[i][2])
             g == [s \in SUBSET (1..k + 1) |->
                     IF k + 1 \in s THEN put(f[s \ {k + 1}], k + 1) ELSE f[s]]
  <2>2. ASSUME NEW s \in SUBSET (1..k + 1)
        PROVE  g[s] = IF s = {} THEN <<>> ELSE put(g[s \ {Max(s)}], Max(s))
    <3> HIDE DEF put
    <3>1. CASE k + 1 \in s
      <4>1. Max(s) = k + 1
        <5>1. \A y \in s : y <= k + 1  OBVIOUS
        <5>2. \A x \in s : (\A y \in s : x >= y) => x = k + 1  BY <3>1, <5>1
        <5> QED BY <3>1, <5>1, <5>2 DEF Max
      <4>2. s \ {k + 1} \in SUBSET (1..k + 1) /\ k + 1 \notin s \ {k + 1}  OBVIOUS
      <4>3. g[s \ {k + 1}] = f[s \ {k + 1}]  BY <4>2
      <4> QED BY <3>1, <4>1, <4>3
    <3>2. CASE k + 1 \notin s
      <4>1. s \in SUBSET (1..k)  BY <3>2
      <4>2. f[s] = IF s = {} THEN <<>> ELSE put(f[s \ {Max(s)}], Max(s))
          BY <2>1, <4>1 DEF put
      <4>3. s \ {Max(s)} \in SUBSET (1..k + 1) /\ k + 1 \notin s \ {Max(s)}  BY <3>2
      <4>4. g[s \ {Max(s)}] = f[s \ {Max(s)}]  BY <4>3
      <4>5. g[s] = f[s]  BY <3>2
      <4> QED BY <4>2, <4>4, <4>5
    <3> QED BY <3>1, <3>2
  <2>3. g = [s \in SUBSET (1..k + 1) |-> g[s]]  OBVIOUS
  <2> HIDE DEF g
  <2>4. In(g, k + 1)  BY <2>2, <2>3
  <2> QED BY <2>4
<1>5. \E f : In(f, n)
  <2> DEFINE S == {k \in Nat : \E f : In(f, k)}
  <2> HIDE DEF In
  <2>1. 0 \in S /\ \A k \in S : k + 1 \in S  BY <1>3, <1>4
  <2> HIDE DEF S
  <2>2. S = Nat  BY <2>1, Counting DEF S
  <2> QED BY <1>1, <2>2 DEF S
<1>6. In(iter, n)  BY <1>5, Zenon
<1> HIDE DEF iter
<1> DEFINE R == [k \in 0..n |-> iter[1..k]]
<1>7. R[0] = <<>>
  <2>1. 1..0 = {} /\ {} \in SUBSET (1..n)  OBVIOUS
  <2> QED BY <1>1, <1>6, <2>1
<1>8. ASSUME NEW k \in 1..n PROVE R[k] = Put(R[k - 1], pairs[k][1], pairs[k][2])
  <2>1. 1..k \in SUBSET (1..n) /\ 1..k # {}  BY <1>1
  <2>2. Max(1..k) = k
    <3>1. \A y \in 1..k : y <= k  BY <1>1
    <3>2. k \in 1..k  BY <1>1
    <3>3. \A x \in 1..k : (\A y \in 1..k : x >= y) => x = k  BY <1>1, <3>2
    <3> QED BY <3>1, <3>2, <3>3 DEF Max
  <2>3. (1..k) \ {k} = 1..(k - 1)  BY <1>1
  <2>4. iter[1..k] = Put(iter[(1..k) \ {Max(1..k)}], pairs[Max(1..k)][1], pairs[Max(1..k)][2])
      BY <1>6, <2>1
  <2>5. iter[1..k] = Put(iter[1..(k - 1)], pairs[k][1], pairs[k][2])  BY <2>2, <2>3, <2>4
  <2>6. k \in 0..n /\ k - 1 \in 0..n  BY <1>1
  <2> QED BY <2>5, <2>6
<1>9. R[n] = iter[1..n]  BY <1>1
<1> HIDE DEF R
<1>10. Grows(R, pairs)  BY <1>7, <1>8 DEF Grows, n
<1> QED BY <1>2, <1>9, <1>10 DEF n

\* One entry for a key.
OneEntryEach(r) == \A i, j \in 1..Len(r) : r[i][1] = r[j][1] => i = j

\* The value of a key, in a record with one entry for each.
LEMMA GetIs ==
    ASSUME NEW r, OneEntryEach(r), NEW i \in 1..Len(r)
    PROVE  Get(r, r[i][1]) = r[i][2]
<1> DEFINE k == r[i][1]
<1>1. Has(r, k)  BY DEF Has
<1>2. \A j \in 1..Len(r) : r[j][1] = k => j = i  BY DEF OneEntryEach
<1>3. (CHOOSE j \in 1..Len(r) : r[j][1] = k) = i  BY <1>2
<1> QED BY <1>1, <1>3 DEF Get

\* t is the record r with the value v at the key k: insert() of a key that is
\* there keeps the place of every entry, of a new one adds an entry behind them.
Inserted(t, r, k, v) ==
    /\ IsSequence(t)
    /\ Has(r, k) => /\ Len(t) = Len(r)
                    /\ \A i \in 1..Len(r) : t[i] = IF r[i][1] = k THEN <<k, v>> ELSE r[i]
    /\ ~Has(r, k) => /\ Len(t) = Len(r) + 1
                     /\ \A i \in 1..Len(r) : t[i] = r[i] /\ r[i][1] # k
                     /\ t[Len(r) + 1] = <<k, v>>

\* What insert() does to a record.
LEMMA PutIs ==
    ASSUME NEW r, IsSequence(r), NEW k, NEW v, NEW t, t = Put(r, k, v)
    PROVE  Inserted(t, r, k, v)
<1>1. Len(r) \in Nat /\ r \in Seq(ToSet(r))  BY SequenceIs
<1>2. CASE Has(r, k)
  <2>1. t = [i \in 1..Len(r) |-> IF r[i][1] = k THEN <<k, v>> ELSE r[i]]
      BY <1>2 DEF Put
  <2>2. Len(t) = Len(r) /\ t = [i \in 1..Len(t) |-> t[i]]  BY <1>1, <2>1
  <2>3. IsSequence(t)  BY <1>1, <2>2 DEF IsSequence
  <2> QED BY <1>2, <2>1, <2>2, <2>3 DEF Inserted
<1>3. CASE ~Has(r, k)
  <2>1. t = Append(r, <<k, v>>)  BY <1>3 DEF Put
  <2> DEFINE S == ToSet(r) \cup {<<k, v>>}
  <2>2. r \in Seq(S) /\ <<k, v>> \in S  BY <1>1
  <2> HIDE DEF S
  <2>3. /\ t \in Seq(S) /\ Len(t) = Len(r) + 1
        /\ \A i \in 1..Len(r) : t[i] = r[i]
        /\ t[Len(r) + 1] = <<k, v>>
      BY <1>1, <2>1, <2>2
  <2>4. Len(t) \in Nat /\ t = [i \in 1..Len(t) |-> t[i]]  BY <2>3
  <2>5. IsSequence(t)  BY <2>4 DEF IsSequence
  <2>6. \A i \in 1..Len(r) : r[i][1] # k  BY <1>3 DEF Has
  <2> QED BY <1>3, <2>3, <2>5, <2>6 DEF Inserted
<1> QED BY <1>2, <1>3

\* The record r holds the first n pairs: one entry for each key, with the value
\* of its last pair, in the order of their first pairs.
Collects(r, pairs, n) ==
    /\ IsSequence(r) /\ OneEntryEach(r)
    /\ \A i \in 1..n : \E e \in 1..Len(r) : r[e][1] = pairs[i][1]
    /\ \A e \in 1..Len(r) :
          \E i \in 1..n : /\ r[e] = <<pairs[i][1], pairs[i][2]>>
                          /\ \A j \in i + 1..n : pairs[j][1] # pairs[i][1]
    /\ \A e, f \in 1..Len(r) : e < f =>
          \E i \in 1..n : /\ pairs[i][1] = r[e][1]
                          /\ \A j \in 1..i : pairs[j][1] # r[f][1]

\* One pair more is put into the record.
LEMMA HoldsOneMore ==
    ASSUME NEW pairs, NEW n \in Nat, NEW r, Collects(r, pairs, n),
           NEW t, t = Put(r, pairs[n + 1][1], pairs[n + 1][2])
    PROVE  Collects(t, pairs, n + 1)
<1> DEFINE k == pairs[n + 1][1]
           v == pairs[n + 1][2]
           new == <<k, v>>
<1>1. IsSequence(r) /\ OneEntryEach(r) /\ Len(r) \in Nat  BY DEF Collects, IsSequence
<1>2. Inserted(t, r, k, v)
  <2> HIDE DEF k, v
  <2>1. t = Put(r, k, v)  BY DEF k, v
  <2> QED BY <1>1, <2>1, PutIs, Zenon
<1>2a. /\ IsSequence(t)
       /\ Has(r, k) => /\ Len(t) = Len(r)
                       /\ \A i \in 1..Len(r) : t[i] = IF r[i][1] = k THEN <<k, v>> ELSE r[i]
       /\ ~Has(r, k) => /\ Len(t) = Len(r) + 1
                        /\ \A i \in 1..Len(r) : t[i] = r[i] /\ r[i][1] # k
                        /\ t[Len(r) + 1] = <<k, v>>
    BY <1>2 DEF Inserted
<1>3. new[1] = k /\ new[2] = v  OBVIOUS
<1> HIDE DEF new
<1>4. /\ \A e \in 1..Len(r) : e \in 1..Len(t) /\ t[e][1] = r[e][1]
      /\ \A e \in 1..Len(r) : r[e][1] = k => t[e] = new
      /\ \A e \in 1..Len(r) : r[e][1] # k => t[e] = r[e]
      /\ \A e \in 1..Len(t) : e \in 1..Len(r) \/ (e = Len(r) + 1 /\ t[e] = new /\ ~Has(r, k))
      /\ Has(r, k) => \E e \in 1..Len(r) : r[e][1] = k
      /\ ~Has(r, k) => Len(r) + 1 \in 1..Len(t) /\ \A e \in 1..Len(r) : r[e][1] # k
    BY <1>1, <1>2a, <1>3 DEF Has, new
<1>5. OneEntryEach(t)
  <2> SUFFICES ASSUME NEW i \in 1..Len(t), NEW j \in 1..Len(t), t[i][1] = t[j][1] PROVE i = j
      BY DEF OneEntryEach
  <2>1. CASE i \in 1..Len(r) /\ j \in 1..Len(r)  BY <2>1, <1>1, <1>4 DEF OneEntryEach
  <2>2. CASE i \notin 1..Len(r) \/ j \notin 1..Len(r)  BY <2>2, <1>3, <1>4
  <2> QED BY <2>1, <2>2
<1>6. ASSUME NEW i \in 1..n + 1 PROVE \E e \in 1..Len(t) : t[e][1] = pairs[i][1]
  <2>1. CASE i \in 1..n
    <3>1. PICK e \in 1..Len(r) : r[e][1] = pairs[i][1]  BY <2>1 DEF Collects
    <3> QED BY <3>1, <1>4
  <2>2. CASE i = n + 1
    <3>1. CASE Has(r, k)
      <4>1. PICK e \in 1..Len(r) : r[e][1] = k  BY <3>1, <1>4
      <4> QED BY <4>1, <2>2, <1>4
    <3>2. CASE ~Has(r, k)
      <4>1. Len(r) + 1 \in 1..Len(t) /\ t[Len(r) + 1] = new  BY <3>2, <1>2a, <1>4 DEF new
      <4> QED BY <4>1, <2>2, <1>3
    <3> QED BY <3>1, <3>2
  <2> QED BY <2>1, <2>2
<1>7. ASSUME NEW e \in 1..Len(t)
      PROVE  \E i \in 1..n + 1 : /\ t[e] = <<pairs[i][1], pairs[i][2]>>
                                 /\ \A j \in i + 1..n + 1 : pairs[j][1] # pairs[i][1]
  <2>1. CASE t[e] = new
    <3>1. t[e] = <<pairs[n + 1][1], pairs[n + 1][2]>> /\ n + 1 \in 1..n + 1
          /\ \A j \in n + 1 + 1..n + 1 : FALSE
        BY <2>1 DEF new
    <3> QED BY <3>1
  <2>2. CASE t[e] # new
    <3>1. e \in 1..Len(r) /\ r[e][1] # k /\ t[e] = r[e]  BY <2>2, <1>4
    <3>2. PICK i \in 1..n : /\ r[e] = <<pairs[i][1], pairs[i][2]>>
                            /\ \A j \in i + 1..n : pairs[j][1] # pairs[i][1]
        BY <3>1 DEF Collects
    <3>3. pairs[i][1] # pairs[n + 1][1]  BY <3>1, <3>2
    <3>4. \A j \in i + 1..n + 1 : pairs[j][1] # pairs[i][1]  BY <3>2, <3>3
    <3>5. i \in 1..n + 1  OBVIOUS
    <3> QED BY <3>1, <3>2, <3>4, <3>5
  <2> QED BY <2>1, <2>2
<1>8. ASSUME NEW e \in 1..Len(t), NEW f \in 1..Len(t), e < f
      PROVE  \E i \in 1..n + 1 : /\ pairs[i][1] = t[e][1]
                                 /\ \A j \in 1..i : pairs[j][1] # t[f][1]
  <2>1. e \in 1..Len(r)  BY <1>1, <1>2a, <1>8
  <2>2. CASE f \in 1..Len(r)
    <3>1. PICK i \in 1..n : /\ pairs[i][1] = r[e][1]
                            /\ \A j \in 1..i : pairs[j][1] # r[f][1]
        BY <1>8, <2>1, <2>2 DEF Collects
    <3>2. i \in 1..n + 1  OBVIOUS
    <3> QED BY <1>4, <2>1, <2>2, <3>1, <3>2
  <2>3. CASE f \notin 1..Len(r)
    <3>1. t[f] = new /\ ~Has(r, k)  BY <2>3, <1>4
    <3>2. PICK i \in 1..n : r[e] = <<pairs[i][1], pairs[i][2]>>  BY <2>1 DEF Collects
    <3>3. pairs[i][1] = t[e][1]  BY <1>4, <2>1, <3>2
    <3>4. ASSUME NEW j \in 1..i PROVE pairs[j][1] # t[f][1]
      <4>1. j \in 1..n  OBVIOUS
      <4>2. PICK g \in 1..Len(r) : r[g][1] = pairs[j][1]  BY <4>1 DEF Collects
      <4> QED BY <4>2, <3>1, <1>3, <1>4
    <3>5. i \in 1..n + 1  OBVIOUS
    <3> QED BY <3>3, <3>4, <3>5
  <2> QED BY <2>2, <2>3
<1> QED BY <1>2a, <1>5, <1>6, <1>7, <1>8 DEF Collects

\* REC, ENTRIES>REC, BY-FIELD, MERGE, PICK and RELABEL collect pairs: the record
\* has one entry for each key, with the value of its last pair, in the order in
\* which the keys were first met.
THEOREM CollectedHolds ==
    ASSUME NEW pairs, IsSequence(pairs)
    PROVE  Collects(Collected(pairs), pairs, Len(pairs))
<1> PICK R : Grows(R, pairs) /\ Collected(pairs) = R[Len(pairs)]  BY CollectedGrows
<1> DEFINE S == {k \in Nat : k <= Len(pairs) => Collects(R[k], pairs, k)}
<1>1. Len(pairs) \in Nat  BY DEF IsSequence
<1>2. 0 \in S
  <2>1. R[0] = <<>> /\ Len(<<>>) = 0  BY DEF Grows
  <2>2. IsSequence(<<>>)  BY DEF IsSequence
  <2>3. Collects(R[0], pairs, 0)  BY <2>1, <2>2 DEF Collects, OneEntryEach
  <2> QED BY <2>3
<1>3. ASSUME NEW k \in S PROVE k + 1 \in S
  <2>1. CASE k + 1 <= Len(pairs)
    <3>1. k \in Nat /\ Collects(R[k], pairs, k) /\ k + 1 \in 1..Len(pairs)  BY <1>1, <2>1
    <3>2. R[k + 1] = Put(R[k], pairs[k + 1][1], pairs[k + 1][2])
      <4>1. R[k + 1] = Put(R[k + 1 - 1], pairs[k + 1][1], pairs[k + 1][2])
          BY <3>1 DEF Grows
      <4>2. k + 1 - 1 = k  BY <3>1
      <4> QED BY <4>1, <4>2
    <3>3. Collects(R[k + 1], pairs, k + 1)  BY <3>1, <3>2, HoldsOneMore
    <3> QED BY <3>1, <3>3
  <2>2. CASE ~(k + 1 <= Len(pairs))  BY <2>2
  <2> QED BY <2>1, <2>2
<1>4. S = Nat
  <2>1. S \in SUBSET Nat  OBVIOUS
  <2> HIDE DEF S
  <2> QED BY <1>2, <1>3, <2>1, Counting
<1>5. Len(pairs) \in S  BY <1>1, <1>4
<1> QED BY <1>1, <1>5

\* A record of the language: entries are pairs, one for each key.
Record(r) == /\ r = <<"record", r[2]>> /\ IsSequence(r[2]) /\ OneEntryEach(r[2])
             /\ \A i \in 1..Len(r[2]) : r[2][i] = <<r[2][i][1], r[2][i][2]>>

\* Every key collected has the value of the last pair with that key.
LEMMA CollectedGet ==
    ASSUME NEW pairs, IsSequence(pairs), NEW i \in 1..Len(pairs),
           \A j \in i + 1..Len(pairs) : pairs[j][1] # pairs[i][1]
    PROVE  /\ Has(Collected(pairs), pairs[i][1])
           /\ Get(Collected(pairs), pairs[i][1]) = pairs[i][2]
<1> DEFINE r == Collected(pairs)
           n == Len(pairs)
<1>1. Collects(r, pairs, n) /\ n \in Nat  BY CollectedHolds DEF IsSequence
<1> HIDE DEF r
<1>2. PICK e \in 1..Len(r) : r[e][1] = pairs[i][1]  BY <1>1 DEF Collects
<1>3. PICK j \in 1..n : /\ r[e] = <<pairs[j][1], pairs[j][2]>>
                        /\ \A m \in j + 1..n : pairs[m][1] # pairs[j][1]
    BY <1>1 DEF Collects
<1>4. pairs[j][1] = pairs[i][1]  BY <1>2, <1>3
<1>5. j = i
  <2>1. ~(j < i)
    <3> SUFFICES ASSUME j < i PROVE FALSE  OBVIOUS
    <3>1. i \in j + 1..n  BY <1>1
    <3> QED BY <1>3, <1>4, <3>1
  <2>2. ~(i < j)
    <3> SUFFICES ASSUME i < j PROVE FALSE  OBVIOUS
    <3>1. j \in i + 1..Len(pairs)  BY <1>1
    <3> QED BY <1>4, <3>1
  <2> QED BY <1>1, <2>1, <2>2
<1>6. Get(r, r[e][1]) = r[e][2]  BY <1>1, GetIs DEF Collects
<1>7. Has(r, pairs[i][1])  BY <1>2 DEF Has
<1> QED BY <1>2, <1>3, <1>5, <1>6, <1>7 DEF r

\* insert() of a new key adds an entry behind the others.
LEMMA PutNew ==
    ASSUME NEW r, IsSequence(r), NEW k, ~Has(r, k), NEW v, NEW t, t = Put(r, k, v)
    PROVE  /\ IsSequence(t) /\ Len(t) = Len(r) + 1
           /\ \A i \in 1..Len(r) : t[i] = r[i]
           /\ t[Len(r) + 1] = <<k, v>>
<1>1. Inserted(t, r, k, v)  BY PutIs, Zenon
<1> QED BY <1>1 DEF Inserted

\* Pairs that already are a record are collected into that record.
LEMMA CollectedAgain ==
    ASSUME NEW pairs, IsSequence(pairs), OneEntryEach(pairs),
           \A i \in 1..Len(pairs) : pairs[i] = <<pairs[i][1], pairs[i][2]>>
    PROVE  Collected(pairs) = pairs
<1> PICK R : Grows(R, pairs) /\ Collected(pairs) = R[Len(pairs)]  BY CollectedGrows
<1> DEFINE n == Len(pairs)
           First(k) == [i \in 1..k |-> pairs[i]]
           S == {k \in Nat : k <= n => R[k] = First(k)}
<1>1. n \in Nat /\ pairs = First(n)  BY DEF IsSequence
<1>2. 0 \in S
  <2>1. R[0] = <<>>  BY DEF Grows
  <2>2. First(0) = <<>>  OBVIOUS
  <2> QED BY <2>1, <2>2
<1>3. ASSUME NEW k \in S PROVE k + 1 \in S
  <2> SUFFICES ASSUME k + 1 <= n PROVE R[k + 1] = First(k + 1)  OBVIOUS
  <2>1. k \in Nat /\ R[k] = First(k) /\ k + 1 \in 1..n  BY <1>1
  <2>2. R[k + 1] = Put(First(k), pairs[k + 1][1], pairs[k + 1][2])
    <3>1. R[k + 1] = Put(R[k + 1 - 1], pairs[k + 1][1], pairs[k + 1][2])  BY <2>1 DEF Grows
    <3>2. k + 1 - 1 = k  BY <2>1
    <3> QED BY <2>1, <3>1, <3>2
  <2> DEFINE r == First(k)
  <2>3. Len(r) = k /\ r = [i \in 1..Len(r) |-> r[i]] /\ \A i \in 1..k : r[i] = pairs[i]
      BY <2>1
  <2> HIDE DEF First, r
  <2>4. IsSequence(r)  BY <2>1, <2>3 DEF IsSequence
  <2>5. ~Has(r, pairs[k + 1][1])
    <3> SUFFICES ASSUME NEW i \in 1..k, r[i][1] = pairs[k + 1][1] PROVE FALSE
        BY <2>3 DEF Has
    <3>1. i \in 1..n /\ k + 1 \in 1..n /\ i # k + 1  BY <1>1, <2>1
    <3>2. pairs[i][1] = pairs[k + 1][1]  BY <2>3
    <3> QED BY <3>1, <3>2 DEF OneEntryEach
  <2> DEFINE t == Put(r, pairs[k + 1][1], pairs[k + 1][2])
  <2>6. /\ IsSequence(t) /\ Len(t) = k + 1 /\ \A i \in 1..k : t[i] = pairs[i]
        /\ t[k + 1] = pairs[k + 1]
    <3> DEFINE key == pairs[k + 1][1]
               value == pairs[k + 1][2]
    <3>1. t = Put(r, key, value)  OBVIOUS
    <3>2. pairs[k + 1] = <<key, value>>  BY <2>1
    <3> HIDE DEF t, key, value
    <3>3. ~Has(r, key)  BY <2>5 DEF key
    <3>4. /\ IsSequence(t) /\ Len(t) = Len(r) + 1
          /\ \A i \in 1..Len(r) : t[i] = r[i]
          /\ t[Len(r) + 1] = <<key, value>>
        BY ONLY <2>4, <3>1, <3>3, PutNew
    <3> QED BY <2>1, <2>3, <3>2, <3>3, <3>4
  <2>7. t = [i \in 1..k + 1 |-> pairs[i]]
    <3> HIDE DEF t
    <3>1. t = [i \in 1..k + 1 |-> t[i]]  BY <2>6 DEF IsSequence
    <3>2. \A i \in 1..k + 1 : t[i] = pairs[i]  BY <2>1, <2>6
    <3> QED BY <3>1, <3>2
  <2> QED BY <2>2, <2>7 DEF First, r
<1>4. S = Nat
  <2>1. S \in SUBSET Nat  OBVIOUS
  <2> HIDE DEF S
  <2> QED BY <1>2, <1>3, <2>1, Counting
<1>5. R[n] = First(n)
  <2>1. n \in S  BY <1>1, <1>4
  <2> QED BY <2>1, <1>1
<1> QED BY <1>1, <1>5

\* ENTRIES>REC rebuilds what REC>ENTRIES took apart: the same keys, in the same
\* order, with the same values.
THEOREM EntriesRebuildRecord ==
    ASSUME NEW r, Record(r)
    PROVE  EntriesToRec(RecToEntries(r)) = r
<1> DEFINE n == Len(r[2])
           entry(i) == Arr(<<Str(r[2][i][1]), r[2][i][2]>>)
           s == [i \in 1..n |-> entry(i)]
           pairs == [i \in 1..n |-> <<key_string(s[i][2][1]), s[i][2][2]>>]
<1>1. n \in Nat /\ r = <<"record", r[2]>> /\ r[2] = [i \in 1..n |-> r[2][i]]
    BY DEF Record, IsSequence
<1>2. RecToEntries(r) = Arr(s)
  <2>1. Kind(r) = "record"  BY <1>1 DEF Kind
  <2>2. PairsOf(r) = r[2]  BY <2>1 DEF PairsOf
  <2> QED BY <2>2 DEF RecToEntries
<1>3. Len(s) = n  BY <1>1
<1>4. \A i \in 1..n : s[i] = entry(i)  OBVIOUS
<1>5. ASSUME NEW i \in 1..n
      PROVE  /\ IsEntry(s[i])
             /\ key_string(s[i][2][1]) = r[2][i][1] /\ s[i][2][2] = r[2][i][2]
  <2>1. s[i] = <<"array", <<Str(r[2][i][1]), r[2][i][2]>>>>  BY <1>4 DEF Arr
  <2> HIDE DEF s
  <2>2. IsEntry(s[i])  BY <2>1 DEF IsEntry, Kind
  <2>3. s[i][2][1] = Str(r[2][i][1]) /\ s[i][2][2] = r[2][i][2]  BY <2>1
  <2>4. key_string(Str(r[2][i][1])) = r[2][i][1]
      BY DEF key_string, IsScalar, ScalarText, Str, Kind
  <2> QED BY <2>2, <2>3, <2>4
<1> HIDE DEF s, entry
<1>6. EntriesToRec(Arr(s)) = Rec(Collected(pairs))
  <2>1. Kind(Arr(s)) = "array" /\ Arr(s)[2] = s  BY DEF Arr, Kind
  <2>2. EntriesToRec(Arr(s)) =
          IF \E i \in 1..Len(s) : ~IsEntry(s[i]) THEN BadOperation
          ELSE Rec(Collected([i \in 1..Len(s) |-> <<key_string(s[i][2][1]), s[i][2][2]>>]))
      BY <2>1 DEF EntriesToRec
  <2> QED BY <1>3, <1>5, <2>2
<1>7. pairs = r[2]
  <2>1. \A i \in 1..n : pairs[i] = r[2][i]  BY <1>5 DEF Record
  <2>2. pairs = [i \in 1..n |-> pairs[i]]  OBVIOUS
  <2> HIDE DEF pairs
  <2> QED BY <1>1, <2>1, <2>2
<1>8. Collected(r[2]) = r[2]  BY CollectedAgain DEF Record
<1> QED BY <1>1, <1>2, <1>6, <1>7, <1>8 DEF Rec

\* MERGE overrides: a key has its value in the second record if it is there,
\* else its value in the first, and nothing else is in the result.
THEOREM MergeOverrides ==
    ASSUME NEW r1, Record(r1), NEW r2, Record(r2)
    PROVE  /\ OneEntryEach(MergeOf(r1, r2)[2])
           /\ \A k : /\ Has(MergeOf(r1, r2)[2], k) <=> Has(r1[2], k) \/ Has(r2[2], k)
                     /\ Get(MergeOf(r1, r2)[2], k) =
                           IF Has(r2[2], k) THEN Get(r2[2], k) ELSE Get(r1[2], k)
<1> DEFINE s == r1[2]
           t == r2[2]
           u == s \o t
           m == MergeOf(r1, r2)[2]
<1>1. IsSequence(s) /\ IsSequence(t) /\ OneEntryEach(s) /\ OneEntryEach(t)  BY DEF Record
<1>2. Len(s) \in Nat /\ Len(t) \in Nat  BY <1>1 DEF IsSequence
<1>3. m = Collected(u)
  <2>1. Kind(r1) = "record" /\ Kind(r2) = "record"  BY DEF Record, Kind
  <2> QED BY <2>1 DEF MergeOf, PairsOf, Rec
<1> HIDE DEF s, t, m
<1>4. /\ IsSequence(u) /\ Len(u) = Len(s) + Len(t)
      /\ \A i \in 1..Len(u) : u[i] = IF i <= Len(s) THEN s[i] ELSE t[i - Len(s)]
  <2> DEFINE S == ToSet(s) \cup ToSet(t)
  <2>1. s \in Seq(ToSet(s)) /\ t \in Seq(ToSet(t))  BY <1>1, SequenceIs
  <2>2. ToSet(s) \subseteq S /\ ToSet(t) \subseteq S  OBVIOUS
  <2> HIDE DEF S
  <2>3. s \in Seq(S) /\ t \in Seq(S)  BY <2>1, <2>2
  <2>4. /\ u \in Seq(S) /\ Len(u) = Len(s) + Len(t)
        /\ \A i \in 1..Len(s) + Len(t) : u[i] = IF i <= Len(s) THEN s[i] ELSE t[i - Len(s)]
      BY <2>3, ConcatProperties
  <2> HIDE DEF u
  <2>5. Len(u) \in Nat /\ u = [i \in 1..Len(u) |-> u[i]]  BY <1>2, <2>4
  <2> QED BY <2>4, <2>5 DEF IsSequence
<1> HIDE DEF u
<1>5. Collects(m, u, Len(u))  BY <1>3, <1>4, CollectedHolds
<1>6. ASSUME NEW i \in 1..Len(t) PROVE Has(m, t[i][1]) /\ Get(m, t[i][1]) = t[i][2]
  <2> DEFINE p == Len(s) + i
  <2>1. p \in 1..Len(u) /\ u[p] = t[i]  BY <1>2, <1>4
  <2>2. ASSUME NEW j \in p + 1..Len(u) PROVE u[j][1] # u[p][1]
    <3>1. j - Len(s) \in 1..Len(t) /\ j - Len(s) # i /\ u[j] = t[j - Len(s)]
        BY <1>2, <1>4
    <3> QED BY <1>1, <2>1, <3>1 DEF OneEntryEach
  <2> HIDE DEF p
  <2>3. Has(m, u[p][1]) /\ Get(m, u[p][1]) = u[p][2]
      BY <1>3, <1>4, <2>1, <2>2, CollectedGet
  <2> QED BY <2>1, <2>3
<1>7. ASSUME NEW i \in 1..Len(s), ~Has(t, s[i][1])
      PROVE  Has(m, s[i][1]) /\ Get(m, s[i][1]) = s[i][2]
  <2>1. i \in 1..Len(u) /\ u[i] = s[i]  BY <1>2, <1>4
  <2>2. ASSUME NEW j \in i + 1..Len(u) PROVE u[j][1] # u[i][1]
    <3>1. CASE j <= Len(s)
      <4>1. j \in 1..Len(s) /\ j # i /\ u[j] = s[j]  BY <3>1, <1>2, <1>4
      <4> QED BY <1>1, <2>1, <4>1 DEF OneEntryEach
    <3>2. CASE ~(j <= Len(s))
      <4>1. j - Len(s) \in 1..Len(t) /\ u[j] = t[j - Len(s)]  BY <3>2, <1>2, <1>4
      <4> QED BY <1>7, <2>1, <4>1 DEF Has
    <3> QED BY <3>1, <3>2
  <2>3. Has(m, u[i][1]) /\ Get(m, u[i][1]) = u[i][2]
      BY <1>3, <1>4, <2>1, <2>2, CollectedGet
  <2> QED BY <2>1, <2>3
<1>8. ASSUME NEW k, Has(m, k) PROVE Has(s, k) \/ Has(t, k)
  <2>1. PICK e \in 1..Len(m) : m[e][1] = k  BY <1>8 DEF Has
  <2>2. PICK i \in 1..Len(u) : m[e] = <<u[i][1], u[i][2]>>  BY <1>5 DEF Collects
  <2>3. u[i][1] = k  BY <2>1, <2>2
  <2>4. CASE i <= Len(s)
    <3>1. i \in 1..Len(s) /\ u[i] = s[i]  BY <2>4, <1>2, <1>4
    <3> QED BY <2>3, <3>1 DEF Has
  <2>5. CASE ~(i <= Len(s))
    <3>1. i - Len(s) \in 1..Len(t) /\ u[i] = t[i - Len(s)]  BY <2>5, <1>2, <1>4
    <3> QED BY <2>3, <3>1 DEF Has
  <2> QED BY <2>4, <2>5
<1>9. ASSUME NEW k
      PROVE  /\ Has(m, k) <=> Has(s, k) \/ Has(t, k)
             /\ Get(m, k) = IF Has(t, k) THEN Get(t, k) ELSE Get(s, k)
  <2>1. CASE Has(t, k)
    <3>1. PICK i \in 1..Len(t) : t[i][1] = k  BY <2>1 DEF Has
    <3>2. Get(t, t[i][1]) = t[i][2]  BY <1>1, GetIs
    <3> QED BY <1>6, <2>1, <3>1, <3>2
  <2>2. CASE ~Has(t, k) /\ Has(s, k)
    <3>1. PICK i \in 1..Len(s) : s[i][1] = k  BY <2>2 DEF Has
    <3>2. Get(s, s[i][1]) = s[i][2]  BY <1>1, GetIs
    <3> QED BY <1>7, <2>2, <3>1, <3>2
  <2>3. CASE ~Has(t, k) /\ ~Has(s, k)
    <3>1. ~Has(m, k)  BY <1>8, <2>3
    <3>2. Get(m, k) = Nil /\ Get(s, k) = Nil  BY <2>3, <3>1 DEF Get
    <3> QED BY <2>3, <3>1, <3>2
  <2> QED BY <2>1, <2>2, <2>3
<1>10. OneEntryEach(m)  BY <1>5 DEF Collects
<1> QED BY <1>9, <1>10 DEF s, t, m

(***************************************************************************)
(* The element that is chosen, and the order that is made.                 *)
(***************************************************************************)
\* The first k positions, and the last of them.
LEMMA Prefix ==
    ASSUME NEW n \in Nat, NEW k \in 1..n
    PROVE  /\ 1..k \in SUBSET (1..n) /\ 1..k # {} /\ 1..(k - 1) \in SUBSET (1..n)
           /\ Max(1..k) = k /\ (1..k) \ {k} = 1..(k - 1)
<1>1. Max(1..k) = k
  <2>1. \A y \in 1..k : y <= k  OBVIOUS
  <2>2. k \in 1..k  OBVIOUS
  <2>3. \A x \in 1..k : (\A y \in 1..k : x >= y) => x = k  BY <2>2
  <2> QED BY <2>1, <2>2, <2>3 DEF Max
<1>2. (1..k) \ {k} = 1..(k - 1)  OBVIOUS
<1> QED BY <1>1, <1>2

\* Positions have a last one.
LEMMA MaxOfSome ==
    ASSUME NEW n \in Nat, NEW s \in SUBSET (1..n), s # {}
    PROVE  Max(s) \in s /\ \A y \in s : y <= Max(s)
<1> DEFINE D == {n - x : x \in s}
<1>1. D \subseteq Nat /\ D # {}
  <2>1. \A x \in s : n - x \in Nat  OBVIOUS
  <2>2. PICK x \in s : TRUE  OBVIOUS
  <2>3. n - x \in D  OBVIOUS
  <2> QED BY <2>1, <2>3
<1> HIDE DEF D
<1>2. PICK d \in D : \A e \in D : ~(e < d)
  <2>1. IsWellFoundedOn(OpToRel(<, Nat), Nat)  BY NatLessThanWellFounded
  <2>2. PICK x \in D : \A y \in D : ~(<<y, x>> \in OpToRel(<, Nat))
      BY <1>1, <2>1, WFMin
  <2> QED BY <1>1, <2>2 DEF OpToRel
<1>3. PICK x \in s : d = n - x  BY DEF D
<1>4. \A y \in s : x >= y
  <2> TAKE y \in s
  <2>1. n - y \in D  BY DEF D
  <2> QED BY <1>2, <1>3, <2>1
<1>5. Max(s) \in s /\ \A y \in s : Max(s) >= y  BY <1>4 DEF Max
<1> QED BY <1>5

\* g takes each set of positions as a turn F of the loop on its last position,
\* after the others.
Turns(g, n, base, F) ==
    \A s \in SUBSET (1..n) :
        g[s] = IF s = {} THEN base ELSE F[<<g[s \ {Max(s)}], Max(s)>>]

\* What FoldLeft chooses exists: a loop over positions ends in a value.
LEMMA LoopExists ==
    ASSUME NEW n \in Nat, NEW X, NEW base \in X, NEW F \in [X \X (1..n) -> X]
    PROVE  \E g \in [SUBSET (1..n) -> X] : Turns(g, n, base, F)
<1> DEFINE Done(k) == \E g \in [SUBSET (1..k) -> X] : Turns(g, k, base, F)
           S == {k \in Nat : k <= n => Done(k)}
<1>1. 0 \in S
  <2> DEFINE g == [s \in SUBSET (1..0) |-> base]
  <2>1. \A s \in SUBSET (1..0) : s = {}  OBVIOUS
  <2>2. g \in [SUBSET (1..0) -> X] /\ Turns(g, 0, base, F)  BY <2>1 DEF Turns
  <2>3. Done(0)  BY <2>2
  <2> HIDE DEF Done
  <2> QED BY <2>3
<1>2. ASSUME NEW k \in S PROVE k + 1 \in S
  <2> SUFFICES ASSUME k + 1 <= n PROVE Done(k + 1)
    <3> HIDE DEF Done
    <3> QED OBVIOUS
  <2>1. k \in Nat /\ k + 1 \in 1..n /\ Done(k)
    <3> HIDE DEF Done
    <3> QED OBVIOUS
  <2>2. PICK f \in [SUBSET (1..k) -> X] : Turns(f, k, base, F)  BY <2>1
  <2> DEFINE g == [s \in SUBSET (1..k + 1) |->
                     IF k + 1 \in s THEN F[<<f[s \ {k + 1}], k + 1>>] ELSE f[s]]
  <2>3. \A s \in SUBSET (1..k + 1) : s \ {k + 1} \in SUBSET (1..k)  BY <2>1
  <2>4. g \in [SUBSET (1..k + 1) -> X]
    <3> SUFFICES ASSUME NEW s \in SUBSET (1..k + 1)
                 PROVE  (IF k + 1 \in s THEN F[<<f[s \ {k + 1}], k + 1>>] ELSE f[s]) \in X
        OBVIOUS
    <3>1. f[s \ {k + 1}] \in X  BY <2>3
    <3>2. <<f[s \ {k + 1}], k + 1>> \in X \X (1..n)  BY <2>1, <3>1
    <3>3. k + 1 \notin s => s \in SUBSET (1..k)  BY <2>3
    <3> QED BY <3>2, <3>3
  <2>5. ASSUME NEW s \in SUBSET (1..k + 1)
        PROVE  g[s] = IF s = {} THEN base ELSE F[<<g[s \ {Max(s)}], Max(s)>>]
    <3>1. CASE k + 1 \in s
      <4>1. Max(s) = k + 1
        <5>1. \A y \in s : y <= k + 1  OBVIOUS
        <5>2. \A x \in s : (\A y \in s : x >= y) => x = k + 1  BY <3>1, <5>1
        <5> QED BY <3>1, <5>1, <5>2 DEF Max
      <4>2. s \ {k + 1} \in SUBSET (1..k + 1) /\ k + 1 \notin s \ {k + 1}  OBVIOUS
      <4>3. g[s \ {k + 1}] = f[s \ {k + 1}]  BY <4>2
      <4> QED BY <3>1, <4>1, <4>3
    <3>2. CASE k + 1 \notin s
      <4>1. s \in SUBSET (1..k)  BY <3>2
      <4>2. f[s] = IF s = {} THEN base ELSE F[<<f[s \ {Max(s)}], Max(s)>>]
          BY <2>2, <4>1 DEF Turns
      <4>3. s \ {Max(s)} \in SUBSET (1..k + 1) /\ k + 1 \notin s \ {Max(s)}  BY <3>2
      <4>4. g[s \ {Max(s)}] = f[s \ {Max(s)}]  BY <4>3
      <4>5. g[s] = f[s]  BY <3>2
      <4> QED BY <4>2, <4>4, <4>5
    <3> QED BY <3>1, <3>2
  <2> HIDE DEF g
  <2>6. Turns(g, k + 1, base, F)  BY <2>5 DEF Turns
  <2> QED BY <2>4, <2>6
<1>3. S = Nat
  <2>1. S \in SUBSET Nat  OBVIOUS
  <2> HIDE DEF S
  <2> QED BY <1>1, <1>2, <2>1, Counting
<1>4. Done(n)
  <2> HIDE DEF Done
  <2> QED BY <1>3
<1> QED BY <1>4

\* The position that MIN-BY and MAX-BY are at, answer by answer.
BestSoFar(R, got, wanted) ==
    /\ R[0] = 0
    /\ \A k \in 1..Len(got) :
          R[k] = IF R[k - 1] = 0 \/ natural_cmp(got[k], got[R[k - 1]]) = wanted
                 THEN k ELSE R[k - 1]

\* extreme_by goes through the answers one after the other.
LEMMA ExtremeRuns ==
    ASSUME NEW items, NEW got, Len(got) \in Nat, NEW wanted
    PROVE  \E R : /\ BestSoFar(R, got, wanted)
                  /\ extreme_by(items, got, wanted) =
                        IF R[Len(got)] = 0 THEN Nil ELSE items[R[Len(got)]][2]
<1> DEFINE n == Len(got)
           next(b, i) == IF b = 0 \/ natural_cmp(got[i], got[b]) = wanted THEN i ELSE b
           In(f) == f = [s \in SUBSET (1..n) |->
                           IF s = {} THEN 0
                           ELSE next(f[s \ {Max(s)}], Upto(n)[Max(s)])]
           iter == CHOOSE f : In(f)
           best == FoldLeft(LAMBDA b, i : IF b = 0 \/ natural_cmp(got[i], got[b]) = wanted
                                          THEN i ELSE b, 0, Upto(n))
           F == [p \in (0..n) \X (1..n) |-> next(p[1], p[2])]
<1>1. n \in Nat /\ DOMAIN Upto(n) = 1..n /\ \A i \in 1..n : Upto(n)[i] = i  BY DEF Upto
<1>2. extreme_by(items, got, wanted) = IF best = 0 THEN Nil ELSE items[best][2]
    BY Zenon DEF extreme_by
<1> HIDE DEF n
<1>9. best = iter[1..n]  BY <1>1, Zenon DEF FoldLeft, MapThenFoldSet
<1>3. \E f : In(f)
  <2>1. F \in [(0..n) \X (1..n) -> 0..n] /\ 0 \in 0..n  BY <1>1
  <2>2. \A b \in 0..n, i \in 1..n : F[<<b, i>>] = next(b, i)  OBVIOUS
  <2> HIDE DEF F, next
  <2>3. PICK g \in [SUBSET (1..n) -> 0..n] : Turns(g, n, 0, F)  BY <1>1, <2>1, LoopExists
  <2>4. ASSUME NEW s \in SUBSET (1..n)
        PROVE  g[s] = IF s = {} THEN 0 ELSE next(g[s \ {Max(s)}], Upto(n)[Max(s)])
    <3>1. CASE s = {}  BY <2>3, <3>1 DEF Turns
    <3>2. CASE s # {}
      <4>1. Max(s) \in 1..n  BY <1>1, <3>2, MaxOfSome
      <4>2. g[s \ {Max(s)}] \in 0..n  OBVIOUS
      <4>3. F[<<g[s \ {Max(s)}], Max(s)>>] = next(g[s \ {Max(s)}], Max(s))  BY <2>2, <4>1, <4>2
      <4> QED BY <1>1, <2>3, <3>2, <4>1, <4>3 DEF Turns
    <3> QED BY <3>1, <3>2
  <2>5. In(g)  BY <2>4
  <2> QED BY <2>5
<1>4. In(iter)  BY <1>3, Zenon
<1> HIDE DEF iter
<1> DEFINE R == [k \in 0..n |-> iter[1..k]]
<1>5. R[0] = 0
  <2>1. 1..0 = {} /\ {} \in SUBSET (1..n)  OBVIOUS
  <2> QED BY <1>1, <1>4, <2>1
<1>6. ASSUME NEW k \in 1..n PROVE R[k] = next(R[k - 1], k)
  <2>1. 1..k \in SUBSET (1..n) /\ 1..k # {} /\ Max(1..k) = k /\ (1..k) \ {k} = 1..(k - 1)
      BY <1>1, Prefix
  <2> HIDE DEF next
  <2>2. iter[1..k] = next(iter[(1..k) \ {Max(1..k)}], Upto(n)[Max(1..k)])  BY <1>4, <2>1
  <2>3. iter[1..k] = next(iter[1..(k - 1)], k)  BY <1>1, <2>1, <2>2
  <2>4. k \in 0..n /\ k - 1 \in 0..n  BY <1>1
  <2> QED BY <2>3, <2>4
<1>7. R[n] = iter[1..n]  BY <1>1
<1> HIDE DEF R
<1>8. BestSoFar(R, got, wanted)  BY <1>5, <1>6 DEF BestSoFar, n
<1> QED BY <1>2, <1>9, <1>7, <1>8 DEF n

\* What is better than the best so far is better than all that the best is not
\* worse than.
LEMMA Better ==
    ASSUME NEW S, \A v \in S : Sortable(v), NEW a \in S, NEW b \in S, NEW c \in S,
           NEW wanted \in {-1, 1},
           natural_cmp(c, b) = wanted, natural_cmp(a, b) # wanted
    PROVE  natural_cmp(c, a) = wanted /\ natural_cmp(a, c) # wanted
<1> DEFINE ab == natural_cmp(a, b)   ba == natural_cmp(b, a)
           bc == natural_cmp(b, c)   cb == natural_cmp(c, b)
           ac == natural_cmp(a, c)   ca == natural_cmp(c, a)
<1>1. \A x, y, z \in S :
         /\ natural_cmp(x, y) \in {-1, 0, 1}
         /\ natural_cmp(y, x) = -natural_cmp(x, y)
         /\ natural_cmp(x, y) <= 0 /\ natural_cmp(y, z) <= 0 => natural_cmp(x, z) <= 0
         /\ natural_cmp(x, y) = 0 /\ natural_cmp(y, z) = 0 => natural_cmp(x, z) = 0
    BY SortOrder
<1>2. ab \in {-1, 0, 1} /\ cb \in {-1, 0, 1} /\ ca \in {-1, 0, 1}
      /\ ba = -ab /\ bc = -cb /\ ac = -ca
    BY <1>1
<1>3. /\ (cb <= 0 /\ ba <= 0 => ca <= 0)
      /\ (ab <= 0 /\ bc <= 0 => ac <= 0)
      /\ (ac <= 0 /\ cb <= 0 => ab <= 0)
      /\ (bc <= 0 /\ ca <= 0 => ba <= 0)
      /\ (ca = 0 /\ ab = 0 => cb = 0)
    BY <1>1
<1>4. cb = wanted /\ ab # wanted  OBVIOUS
<1> HIDE DEF ab, ba, bc, cb, ac, ca
<1>5. ca = wanted /\ ac # wanted  BY <1>2, <1>3, <1>4
<1> QED BY <1>5 DEF ca, ac

\* MIN-BY (wanted -1) and MAX-BY (wanted 1) answer with the first of the items
\* that no other beats, whatever the code answered for each, short of NaN.
THEOREM BestIsFirst ==
    ASSUME NEW S, \A v \in S : Sortable(v), NEW got \in Seq(S), NEW items,
           NEW wanted \in {-1, 1}
    PROVE  /\ got = <<>> => extreme_by(items, got, wanted) = Nil
           /\ got # <<>> => \E i \in 1..Len(got) :
                 extreme_by(items, got, wanted) = items[i][2] /\ Best(i, got, wanted)
<1> DEFINE n == Len(got)
<1>1. n \in Nat /\ \A i \in 1..n : got[i] \in S  OBVIOUS
<1>2. PICK R : /\ BestSoFar(R, got, wanted)
               /\ extreme_by(items, got, wanted) = IF R[n] = 0 THEN Nil ELSE items[R[n]][2]
    BY <1>1, ExtremeRuns
<1>3. R[0] = 0
      /\ \A k \in 1..n : R[k] = IF R[k - 1] = 0 \/ natural_cmp(got[k], got[R[k - 1]]) = wanted
                                THEN k ELSE R[k - 1]
    BY <1>2 DEF BestSoFar
<1> HIDE DEF n
<1> DEFINE Leads(k) == /\ R[k] \in 1..k
                       /\ \A j \in 1..k : natural_cmp(got[j], got[R[k]]) # wanted
                       /\ \A j \in 1..(R[k] - 1) : natural_cmp(got[R[k]], got[j]) = wanted
           K == {k \in Nat : k <= n => k = 0 \/ Leads(k)}
<1>4. ASSUME NEW k \in K PROVE k + 1 \in K
  <2> SUFFICES ASSUME k + 1 <= n PROVE Leads(k + 1)
    <3> HIDE DEF Leads
    <3> QED OBVIOUS
  <2>1. k \in Nat /\ k + 1 \in 1..n /\ (k = 0 \/ Leads(k))
    <3> HIDE DEF Leads
    <3> QED BY <1>1
  <2>2. R[k + 1] = IF R[k] = 0 \/ natural_cmp(got[k + 1], got[R[k]]) = wanted
                   THEN k + 1 ELSE R[k]
    <3>1. (k + 1) - 1 = k  BY <2>1
    <3> QED BY <1>3, <2>1, <3>1
  <2>3. natural_cmp(got[k + 1], got[k + 1]) = 0  BY <1>1, <2>1, SortOrder
  <2>4. CASE k = 0
    <3>1. R[k + 1] = k + 1  BY <1>3, <2>2, <2>4
    <3>2. 1..(k + 1) = {k + 1} /\ 1..(k + 1 - 1) = {}  BY <2>4
    <3> QED BY <2>3, <3>1, <3>2
  <2>5. CASE k # 0 /\ natural_cmp(got[k + 1], got[R[k]]) = wanted
    <3>1. R[k + 1] = k + 1  BY <2>2, <2>5
    <3>2. ASSUME NEW j \in 1..k
          PROVE  /\ natural_cmp(got[k + 1], got[j]) = wanted
                 /\ natural_cmp(got[j], got[k + 1]) # wanted
      <4>1. R[k] \in 1..n /\ j \in 1..n  BY <2>1, <2>5, <1>1
      <4>2. natural_cmp(got[j], got[R[k]]) # wanted  BY <2>1, <2>5
      <4> QED BY <1>1, <2>1, <2>5, <4>1, <4>2, Better
    <3>3. \A j \in 1..(k + 1) : j \in 1..k \/ j = k + 1  BY <2>1
    <3>4. 1..(k + 1 - 1) = 1..k /\ k + 1 \in 1..(k + 1)  BY <2>1
    <3> QED BY <2>3, <3>1, <3>2, <3>3, <3>4
  <2>6. CASE k # 0 /\ natural_cmp(got[k + 1], got[R[k]]) # wanted
    <3>1. Leads(k)  BY <2>1, <2>6
    <3>2. R[k + 1] = R[k]
      <4>1. R[k] # 0  BY <2>1, <3>1
      <4> QED BY <2>2, <2>6, <4>1
    <3>3. \A j \in 1..(k + 1) : j \in 1..k \/ j = k + 1  BY <2>1
    <3>4. R[k] \in 1..(k + 1)  BY <2>1, <3>1
    <3> QED BY <2>6, <3>1, <3>2, <3>3, <3>4
  <2> QED BY <2>4, <2>5, <2>6
<1>5. K = Nat
  <2>1. K \in SUBSET Nat /\ 0 \in K
    <3> HIDE DEF Leads
    <3> QED OBVIOUS
  <2> HIDE DEF K
  <2> QED BY <1>4, <2>1, Counting
<1>6. n = 0 \/ Leads(n)
  <2> HIDE DEF Leads
  <2> QED BY <1>1, <1>5
<1>7. CASE n = 0
  <2>1. got = <<>>  BY <1>7 DEF n
  <2> QED BY <1>2, <1>3, <1>7, <2>1
<1>8. CASE n # 0
  <2>1. Leads(n)  BY <1>6, <1>8
  <2>2. R[n] \in 1..n /\ R[n] # 0  BY <1>1, <2>1
  <2>3. Best(R[n], got, wanted)  BY <2>1 DEF Best, n
  <2>4. extreme_by(items, got, wanted) = items[R[n]][2]  BY <1>2, <2>2
  <2>5. got # <<>>  BY <1>8 DEF n
  <2> QED BY <2>2, <2>3, <2>4, <2>5 DEF n
<1> QED BY <1>7, <1>8

\* A SORT with a comparator puts the items in the order of their keys: it takes
\* each position once, and ties stay in the order they had.
THEOREM KeysSortItems ==
    ASSUME NEW S, \A v \in S : Sortable(v), NEW got \in Seq(S), NEW items,
           Len(items) = Len(got)
    PROVE  \E order \in [1..Len(got) -> 1..Len(got)] :
              /\ \A i \in 1..Len(got) : \E k \in 1..Len(got) : order[k] = i
              /\ Sorts(order, got)
              /\ sort_by_key(items, got) = [k \in 1..Len(got) |-> items[order[k]][2]]
<1> DEFINE values == [i \in 1..Len(items) |-> items[i][2]]
<1>1. Len(got) \in Nat /\ \A i \in 1..Len(got) : got[i] \in S  OBVIOUS
<1>2. Len(values) = Len(got)  BY <1>1
<1> HIDE DEF values
<1>3. PICK order \in [1..Len(values) -> 1..Len(values)] :
         /\ SortedBy(values, got) = [p \in 1..Len(values) |-> values[order[p]]]
         /\ \A i \in 1..Len(values) : \E p \in 1..Len(values) : order[p] = i
         /\ \A p, q \in 1..Len(values) : p < q =>
               /\ natural_cmp(got[order[p]], got[order[q]]) <= 0
               /\ natural_cmp(got[order[p]], got[order[q]]) = 0 => order[p] < order[q]
    BY <1>2, SortIsStable
<1> DEFINE n == Len(got)
<1>4. order \in [1..n -> 1..n] /\ \A i \in 1..n : values[i] = items[i][2]
    BY <1>2, <1>3 DEF values
<1>5. Len(order) = n  BY <1>1, <1>4
<1>6. Sorts(order, got)
  <2>1. ASSUME NEW k \in 1..n, NEW l \in 1..n, k < l
        PROVE  \/ natural_cmp(got[order[k]], got[order[l]]) = -1
               \/ natural_cmp(got[order[k]], got[order[l]]) = 0 /\ order[k] < order[l]
    <3>1. natural_cmp(got[order[k]], got[order[l]]) \in {-1, 0, 1}
      <4>1. got[order[k]] \in S /\ got[order[l]] \in S  BY <1>1, <1>4
      <4> QED BY <4>1, SortOrder
    <3>2. /\ natural_cmp(got[order[k]], got[order[l]]) <= 0
          /\ natural_cmp(got[order[k]], got[order[l]]) = 0 => order[k] < order[l]
        BY <1>2, <1>3, <2>1
    <3> QED BY <3>1, <3>2
  <2> QED BY <1>5, <2>1 DEF Sorts
<1>7. sort_by_key(items, got) = [k \in 1..n |-> items[order[k]][2]]
  <2>1. sort_by_key(items, got) = SortedBy(values, got)  BY Zenon DEF sort_by_key, values
  <2>2. \A p \in 1..n : values[order[p]] = items[order[p]][2]  BY <1>4
  <2>3. SortedBy(values, got) = [p \in 1..n |-> values[order[p]]]  BY <1>2, <1>3
  <2> HIDE DEF n
  <2> QED BY <2>1, <2>2, <2>3
<1> QED BY <1>2, <1>3, <1>4, <1>6, <1>7

(***************************************************************************)
(* The words that keep some of the elements.                               *)
(***************************************************************************)
\* r has the elements of s at the positions I, in the order of s.
Selects(r, s, I) ==
    /\ IsSequence(r)
    /\ \E from \in [1..Len(r) -> I] :
          /\ \A i \in I : \E p \in 1..Len(r) : from[p] = i
          /\ \A p, q \in 1..Len(r) : p < q => from[p] < from[q]
          /\ \A p \in 1..Len(r) : r[p] = s[from[p]]

\* Nothing is selected at the outset.
LEMMA SelectsNone ==
    ASSUME NEW s
    PROVE  Selects(<<>>, s, {})
<1> DEFINE from == [p \in 1..0 |-> 0]
<1>1. IsSequence(<<>>) /\ Len(<<>>) = 0  BY DEF IsSequence
<1>2. /\ from \in [1..0 -> {}]
      /\ \A p, q \in 1..0 : p < q => from[p] < from[q]
      /\ \A p \in 1..0 : <<>>[p] = s[from[p]]
    OBVIOUS
<1> QED BY <1>1, <1>2 DEF Selects

\* The next element is appended: its position comes after the others.
LEMMA SelectsOneMore ==
    ASSUME NEW r, NEW s, NEW k \in Nat, NEW I \in SUBSET (1..k), Selects(r, s, I)
    PROVE  Selects(Append(r, s[k + 1]), s, I \cup {k + 1})
<1> DEFINE n == Len(r)
           x == s[k + 1]
           t == Append(r, x)
           J == I \cup {k + 1}
<1>1. PICK from \in [1..n -> I] :
         /\ \A i \in I : \E p \in 1..n : from[p] = i
         /\ \A p, q \in 1..n : p < q => from[p] < from[q]
         /\ \A p \in 1..n : r[p] = s[from[p]]
    BY DEF Selects
<1>2. n \in Nat /\ r \in Seq(ToSet(r))  BY SequenceIs DEF Selects
<1>3. IsSequence(t) /\ Len(t) = n + 1 /\ t[n + 1] = x /\ \A p \in 1..n : t[p] = r[p]
  <2>1. r \in Seq(ToSet(r) \cup {x}) /\ x \in ToSet(r) \cup {x}
    <3>1. ToSet(r) \subseteq ToSet(r) \cup {x}  OBVIOUS
    <3> HIDE DEF x
    <3> QED BY <1>2, <3>1
  <2> HIDE DEF x
  <2>2. t \in Seq(ToSet(r) \cup {x}) /\ Len(t) = n + 1 /\ t[n + 1] = x
        /\ \A p \in 1..n : t[p] = r[p]
      BY <2>1
  <2> HIDE DEF t
  <2>3. t = [i \in 1..Len(t) |-> t[i]] /\ Len(t) \in Nat  BY <2>2
  <2> QED BY <2>2, <2>3 DEF IsSequence
<1> DEFINE to == [p \in 1..(n + 1) |-> IF p = n + 1 THEN k + 1 ELSE from[p]]
<1>4. \A p \in 1..(n + 1) : p # n + 1 => p \in 1..n  BY <1>2
<1>5. n + 1 \in 1..(n + 1) /\ 1..n \subseteq 1..(n + 1) /\ n + 1 \notin 1..n  BY <1>2
<1>6. to \in [1..(n + 1) -> J]  BY <1>4
<1>7. to[n + 1] = k + 1 /\ \A p \in 1..n : to[p] = from[p]  BY <1>5
<1> HIDE DEF to, t, x
<1>8. ASSUME NEW i \in J PROVE \E p \in 1..(n + 1) : to[p] = i
    BY <1>1, <1>5, <1>7
<1>9. ASSUME NEW p \in 1..(n + 1), NEW q \in 1..(n + 1), p < q PROVE to[p] < to[q]
  <2>1. p \in 1..n  BY <1>2, <1>9
  <2>2. CASE q = n + 1
    <3>1. from[p] \in 1..k  BY <2>1
    <3> QED BY <2>1, <2>2, <3>1, <1>7
  <2>3. CASE q # n + 1  BY <2>1, <2>3, <1>1, <1>4, <1>7, <1>9
  <2> QED BY <2>2, <2>3
<1>10. ASSUME NEW p \in 1..(n + 1) PROVE t[p] = s[to[p]]
  <2>1. CASE p = n + 1  BY <2>1, <1>3, <1>7 DEF x
  <2>2. CASE p # n + 1  BY <2>2, <1>1, <1>3, <1>4, <1>7
  <2> QED BY <2>1, <2>2
<1>11. Selects(t, s, J)
  <2> HIDE DEF n, J
  <2> QED BY <1>3, <1>6, <1>8, <1>9, <1>10 DEF Selects
<1> QED BY <1>11 DEF t, x, J

\* What a loop over the positions has kept of the first elements.
KeptSoFar(R, s, I) ==
    /\ R[0] = <<>>
    /\ \A k \in 1..Len(s) : R[k] = IF k \in I THEN Append(R[k - 1], s[k]) ELSE R[k - 1]

\* The loop goes through the positions one after the other.
LEMMA PickedRuns ==
    ASSUME NEW X, NEW s \in Seq(X), NEW I
    PROVE  \E R : KeptSoFar(R, s, I) /\ Picked(s, I) = R[Len(s)]
<1> DEFINE n == Len(s)
           next(kept, i) == IF i \in I THEN Append(kept, s[i]) ELSE kept
           In(f) == f = [t \in SUBSET (1..n) |->
                           IF t = {} THEN <<>>
                           ELSE next(f[t \ {Max(t)}], Upto(n)[Max(t)])]
           iter == CHOOSE f : In(f)
           F == [p \in Seq(X) \X (1..n) |-> next(p[1], p[2])]
<1>1. n \in Nat /\ DOMAIN Upto(n) = 1..n /\ \A i \in 1..n : Upto(n)[i] = i  BY DEF Upto
<1>2. \A i \in 1..n : s[i] \in X  OBVIOUS
<1> HIDE DEF n
<1>9. Picked(s, I) = iter[1..n]
    BY <1>1, Zenon DEF Picked, FoldLeft, MapThenFoldSet, n
<1>3. \E f : In(f)
  <2>1. F \in [Seq(X) \X (1..n) -> Seq(X)] /\ <<>> \in Seq(X)  BY <1>2
  <2>2. \A b \in Seq(X), i \in 1..n : F[<<b, i>>] = next(b, i)  OBVIOUS
  <2> HIDE DEF F, next
  <2>3. PICK g \in [SUBSET (1..n) -> Seq(X)] : Turns(g, n, <<>>, F)
      BY <1>1, <2>1, LoopExists
  <2>4. ASSUME NEW t \in SUBSET (1..n)
        PROVE  g[t] = IF t = {} THEN <<>> ELSE next(g[t \ {Max(t)}], Upto(n)[Max(t)])
    <3>1. CASE t = {}  BY <2>3, <3>1 DEF Turns
    <3>2. CASE t # {}
      <4>1. Max(t) \in 1..n  BY <1>1, <3>2, MaxOfSome
      <4>2. g[t \ {Max(t)}] \in Seq(X)  OBVIOUS
      <4>3. F[<<g[t \ {Max(t)}], Max(t)>>] = next(g[t \ {Max(t)}], Max(t))  BY <2>2, <4>1, <4>2
      <4> QED BY <1>1, <2>3, <3>2, <4>1, <4>3 DEF Turns
    <3> QED BY <3>1, <3>2
  <2>5. In(g)  BY <2>4
  <2> QED BY <2>5
<1>4. In(iter)  BY <1>3, Zenon
<1> HIDE DEF iter
<1> DEFINE R == [k \in 0..n |-> iter[1..k]]
<1>5. R[0] = <<>>
  <2>1. 1..0 = {} /\ {} \in SUBSET (1..n)  OBVIOUS
  <2> QED BY <1>1, <1>4, <2>1
<1>6. ASSUME NEW k \in 1..n PROVE R[k] = next(R[k - 1], k)
  <2>1. 1..k \in SUBSET (1..n) /\ 1..k # {} /\ Max(1..k) = k /\ (1..k) \ {k} = 1..(k - 1)
      BY <1>1, Prefix
  <2> HIDE DEF next
  <2>2. iter[1..k] = next(iter[(1..k) \ {Max(1..k)}], Upto(n)[Max(1..k)])  BY <1>4, <2>1
  <2>3. iter[1..k] = next(iter[1..(k - 1)], k)  BY <1>1, <2>1, <2>2
  <2>4. k \in 0..n /\ k - 1 \in 0..n  BY <1>1
  <2> QED BY <2>3, <2>4
<1>7. R[n] = iter[1..n]  BY <1>1
<1> HIDE DEF R
<1>8. KeptSoFar(R, s, I)  BY <1>5, <1>6 DEF KeptSoFar, n
<1> QED BY <1>9, <1>7, <1>8 DEF n

\* It keeps the elements at the positions picked, each once, in their order.
LEMMA PickedSelects ==
    ASSUME NEW X, NEW s \in Seq(X), NEW I \in SUBSET (1..Len(s))
    PROVE  Selects(Picked(s, I), s, I)
<1> DEFINE n == Len(s)
           Among(k) == {i \in 1..k : i \in I}
<1>1. n \in Nat  OBVIOUS
<1>2. PICK R : KeptSoFar(R, s, I) /\ Picked(s, I) = R[n]  BY PickedRuns
<1>3. R[0] = <<>>
      /\ \A k \in 1..n : R[k] = IF k \in I THEN Append(R[k - 1], s[k]) ELSE R[k - 1]
    BY <1>2 DEF KeptSoFar
<1>9. Among(n) = I  OBVIOUS
<1> HIDE DEF n
<1> DEFINE K == {k \in Nat : k <= n => Selects(R[k], s, Among(k))}
<1>4. 0 \in K
  <2>1. Among(0) = {}  OBVIOUS
  <2> HIDE DEF Among
  <2> QED BY <1>3, <2>1, SelectsNone
<1>5. ASSUME NEW k \in K PROVE k + 1 \in K
  <2>1. k \in Nat /\ (k <= n => Selects(R[k], s, Among(k)))  OBVIOUS
  <2> SUFFICES ASSUME k + 1 <= n PROVE Selects(R[k + 1], s, Among(k + 1))
    <3> HIDE DEF Among
    <3> QED BY <2>1
  <2>2. k + 1 \in 1..n /\ k + 1 - 1 = k /\ k <= n  BY <1>1, <2>1
  <2>3. R[k + 1] = IF k + 1 \in I THEN Append(R[k], s[k + 1]) ELSE R[k]
      BY <1>3, <2>2
  <2>4. 1..(k + 1) = (1..k) \cup {k + 1}  BY <2>1
  <2>5. Among(k) \in SUBSET (1..k)  OBVIOUS
  <2>6. CASE k + 1 \in I
    <3>1. Among(k + 1) = Among(k) \cup {k + 1}  BY <2>4, <2>6
    <3> HIDE DEF Among
    <3>2. Selects(Append(R[k], s[k + 1]), s, Among(k) \cup {k + 1})
        BY <2>1, <2>2, <2>5, SelectsOneMore
    <3> QED BY <2>3, <2>6, <3>1, <3>2
  <2>7. CASE k + 1 \notin I
    <3>1. Among(k + 1) = Among(k)  BY <2>4, <2>7
    <3> HIDE DEF Among
    <3> QED BY <2>1, <2>2, <2>3, <2>7, <3>1
  <2> QED BY <2>6, <2>7
<1>6. K = Nat
  <2>1. K \in SUBSET Nat  OBVIOUS
  <2> HIDE DEF K
  <2> QED BY <1>4, <1>5, <2>1, Counting
<1>7. Selects(R[n], s, Among(n))
  <2> HIDE DEF Among
  <2> QED BY <1>1, <1>6
<1> QED BY <1>2, <1>7, <1>9 DEF n

\* FILTER keeps the items whose answer is truthy, each once, in their order, and
\* the container keeps its kind: keys stay with the values of a record.
THEOREM FilterKeepsTruthy ==
    ASSUME NEW X, NEW items \in Seq(X), NEW got, Len(got) = Len(items),
           NEW c, IsContainer(c)
    PROVE  \E kept : /\ FilterOf(c, items, got) = OfKind(c, kept)
                     /\ Selects(kept, items, {i \in 1..Len(got) : Truthy(got[i])})
<1> DEFINE I == {i \in 1..Len(got) : Truthy(got[i])}
<1>1. I \in SUBSET (1..Len(items))  OBVIOUS
<1>2. FilterOf(c, items, got) = OfKind(c, Picked(items, I))  BY Zenon DEF FilterOf
<1> HIDE DEF I
<1>3. Selects(Picked(items, I), items, I)  BY <1>1, PickedSelects
<1> QED BY <1>2, <1>3 DEF I

\* What UNIQUE and UNION have kept of the first elements.
FirstsSoFar(R, items) ==
    /\ R[0] = <<>>
    /\ \A k \in 1..Len(items) :
          R[k] = IF \E p \in 1..Len(R[k - 1]) : SameKey(R[k - 1][p], items[k])
                 THEN R[k - 1] ELSE Append(R[k - 1], items[k])

\* UNIQUE and UNION go through the elements one after the other.
LEMMA KeepFirstRuns ==
    ASSUME NEW X, NEW items \in Seq(X)
    PROVE  \E R : FirstsSoFar(R, items) /\ KeepFirst(items, SameKey) = R[Len(items)]
<1> DEFINE n == Len(items)
           next(kept, x) == IF \E p \in 1..Len(kept) : SameKey(kept[p], x)
                            THEN kept ELSE Append(kept, x)
           In(f) == f = [s \in SUBSET (1..n) |->
                           IF s = {} THEN <<>> ELSE next(f[s \ {Max(s)}], items[Max(s)])]
           iter == CHOOSE f : In(f)
           F == [q \in Seq(X) \X (1..n) |-> next(q[1], items[q[2]])]
<1>1. n \in Nat /\ DOMAIN items = 1..n  OBVIOUS
<1>2. \A i \in 1..n : items[i] \in X  OBVIOUS
<1> HIDE DEF n
<1>3. KeepFirst(items, SameKey) = iter[1..n]
    BY <1>1, Zenon DEF KeepFirst, FoldLeft, MapThenFoldSet, n
<1>4. \E f : In(f)
  <2>1. F \in [Seq(X) \X (1..n) -> Seq(X)] /\ <<>> \in Seq(X)
    <3>1. \A b \in Seq(X), i \in 1..n : next(b, items[i]) \in Seq(X)  BY <1>2
    <3> HIDE DEF next
    <3> QED BY <3>1
  <2>2. \A b \in Seq(X), i \in 1..n : F[<<b, i>>] = next(b, items[i])
    <3> HIDE DEF next
    <3> QED OBVIOUS
  <2> HIDE DEF F, next
  <2>3. PICK g \in [SUBSET (1..n) -> Seq(X)] : Turns(g, n, <<>>, F)
      BY <1>1, <2>1, LoopExists
  <2>4. ASSUME NEW s \in SUBSET (1..n)
        PROVE  g[s] = IF s = {} THEN <<>> ELSE next(g[s \ {Max(s)}], items[Max(s)])
    <3>1. CASE s = {}  BY <2>3, <3>1 DEF Turns
    <3>2. CASE s # {}
      <4>1. Max(s) \in 1..n  BY <1>1, <3>2, MaxOfSome
      <4>2. g[s \ {Max(s)}] \in Seq(X)  OBVIOUS
      <4>3. F[<<g[s \ {Max(s)}], Max(s)>>] = next(g[s \ {Max(s)}], items[Max(s)])
          BY <2>2, <4>1, <4>2
      <4> QED BY <2>3, <3>2, <4>3 DEF Turns
    <3> QED BY <3>1, <3>2
  <2>5. In(g)  BY <2>4
  <2> QED BY <2>5
<1>5. In(iter)  BY <1>4, Zenon
<1> HIDE DEF iter
<1> DEFINE R == [k \in 0..n |-> iter[1..k]]
<1>6. R[0] = <<>>
  <2>1. 1..0 = {} /\ {} \in SUBSET (1..n)  OBVIOUS
  <2> QED BY <1>1, <1>5, <2>1
<1>7. ASSUME NEW k \in 1..n PROVE R[k] = next(R[k - 1], items[k])
  <2>1. 1..k \in SUBSET (1..n) /\ 1..k # {} /\ Max(1..k) = k /\ (1..k) \ {k} = 1..(k - 1)
      BY <1>1, Prefix
  <2> HIDE DEF next
  <2>2. iter[1..k] = next(iter[(1..k) \ {Max(1..k)}], items[Max(1..k)])  BY <1>5, <2>1
  <2>3. iter[1..k] = next(iter[1..(k - 1)], items[k])  BY <2>1, <2>2
  <2>4. k \in 0..n /\ k - 1 \in 0..n  BY <1>1
  <2> QED BY <2>3, <2>4
<1>8. R[n] = iter[1..n]  BY <1>1
<1> HIDE DEF R
<1>9. FirstsSoFar(R, items)  BY <1>6, <1>7 DEF FirstsSoFar, n
<1> QED BY <1>3, <1>8, <1>9 DEF n

\* Among the first k elements, those that no earlier one shares its key with.
Firsts(items, k) == {i \in 1..k : \A j \in 1..i-1 : ~SameKey(items[j], items[i])}

\* Such a loop keeps the first element of each key, in their order.
LEMMA FirstsSelected ==
    ASSUME NEW X, NEW items \in Seq(X), NEW R, FirstsSoFar(R, items)
    PROVE  Selects(R[Len(items)], items, Firsts(items, Len(items)))
<1> DEFINE n == Len(items)
<1>1. n \in Nat  OBVIOUS
<1>2. R[0] = <<>>
      /\ \A k \in 1..n : R[k] = IF \E p \in 1..Len(R[k - 1]) : SameKey(R[k - 1][p], items[k])
                                THEN R[k - 1] ELSE Append(R[k - 1], items[k])
    BY DEF FirstsSoFar
<1> HIDE DEF n
<1> DEFINE Found(k) == /\ Selects(R[k], items, Firsts(items, k))
                       /\ \A j \in 1..k : \E i \in Firsts(items, k) : SameKey(items[i], items[j])
           K == {k \in Nat : k <= n => Found(k)}
<1>3. 0 \in K
  <2>1. Firsts(items, 0) = {}  BY DEF Firsts
  <2>2. Selects(<<>>, items, {})  BY SelectsNone
  <2>3. Selects(R[0], items, Firsts(items, 0))  BY <1>2, <2>1, <2>2
  <2>4. 1..0 = {}  OBVIOUS
  <2>5. Found(0)  BY <2>3, <2>4
  <2> HIDE DEF Found
  <2> QED BY <2>5
<1>4. ASSUME NEW k \in K PROVE k + 1 \in K
  <2> SUFFICES ASSUME k + 1 <= n PROVE Found(k + 1)
    <3> HIDE DEF Found
    <3> QED OBVIOUS
  <2>1. k \in Nat /\ k + 1 \in 1..n /\ k + 1 - 1 = k /\ Found(k)
    <3> HIDE DEF Found
    <3> QED BY <1>1
  <2>2. R[k + 1] = IF \E p \in 1..Len(R[k]) : SameKey(R[k][p], items[k + 1])
                   THEN R[k] ELSE Append(R[k], items[k + 1])
      BY <1>2, <2>1
  <2>3. PICK from \in [1..Len(R[k]) -> Firsts(items, k)] :
           /\ \A i \in Firsts(items, k) : \E p \in 1..Len(R[k]) : from[p] = i
           /\ \A p \in 1..Len(R[k]) : R[k][p] = items[from[p]]
      BY <2>1 DEF Selects
  <2>4. 1..(k + 1) = (1..k) \cup {k + 1} /\ k + 1 \notin 1..k  BY <2>1
  <2>5. Firsts(items, k) \in SUBSET (1..k)  BY DEF Firsts
  <2>6. Firsts(items, k + 1) \ {k + 1} = Firsts(items, k) /\ k + 1 \notin Firsts(items, k)
    <3> DEFINE new(i) == \A j \in 1..i-1 : ~SameKey(items[j], items[i])
    <3>1. Firsts(items, k + 1) = {i \in 1..(k + 1) : new(i)}
          /\ Firsts(items, k) = {i \in 1..k : new(i)}
        BY DEF Firsts
    <3> HIDE DEF new
    <3> QED BY <2>4, <3>1
  <2>7. CASE \E p \in 1..Len(R[k]) : SameKey(R[k][p], items[k + 1])
    <3>1. PICK p \in 1..Len(R[k]) : SameKey(R[k][p], items[k + 1])  BY <2>7
    <3>2. from[p] \in Firsts(items, k) /\ SameKey(items[from[p]], items[k + 1])
        BY <2>3, <3>1
    <3>3. Firsts(items, k + 1) = Firsts(items, k)
      <4>1. from[p] \in 1..(k + 1 - 1)  BY <2>1, <2>5, <3>2
      <4>2. k + 1 \notin Firsts(items, k + 1)  BY <3>2, <4>1 DEF Firsts
      <4> QED BY <2>6, <4>2
    <3>4. R[k + 1] = R[k]  BY <2>2, <2>7
    <3> QED BY <2>1, <2>4, <3>2, <3>3, <3>4
  <2>8. CASE ~ \E p \in 1..Len(R[k]) : SameKey(R[k][p], items[k + 1])
    <3>1. ASSUME NEW j \in 1..k PROVE ~SameKey(items[j], items[k + 1])
      <4>1. PICK i \in Firsts(items, k) : SameKey(items[i], items[j])  BY <2>1
      <4>2. PICK p \in 1..Len(R[k]) : from[p] = i  BY <2>3
      <4>3. ~SameKey(items[i], items[k + 1])  BY <2>3, <2>8, <4>2
      <4> QED BY <4>1, <4>3 DEF SameKey
    <3>2. Firsts(items, k + 1) = Firsts(items, k) \cup {k + 1}
      <4>1. k + 1 \in Firsts(items, k + 1)
        <5>1. \A j \in 1..(k + 1 - 1) : ~SameKey(items[j], items[k + 1])  BY <2>1, <3>1
        <5>2. k + 1 \in 1..(k + 1)  BY <2>1
        <5> QED BY <5>1, <5>2 DEF Firsts
      <4> QED BY <2>6, <4>1
    <3>3. R[k + 1] = Append(R[k], items[k + 1])  BY <2>2, <2>8
    <3>4. Selects(Append(R[k], items[k + 1]), items, Firsts(items, k) \cup {k + 1})
        BY <2>1, <2>5, SelectsOneMore
    <3>5. SameKey(items[k + 1], items[k + 1])  BY DEF SameKey
    <3> QED BY <2>1, <2>4, <3>2, <3>3, <3>4, <3>5
  <2> QED BY <2>7, <2>8
<1>5. K = Nat
  <2>1. K \in SUBSET Nat  OBVIOUS
  <2> HIDE DEF K
  <2> QED BY <1>3, <1>4, <2>1, Counting
<1>6. Found(n)
  <2> HIDE DEF Found
  <2> QED BY <1>1, <1>5
<1> QED BY <1>6 DEF n

\* UNIQUE and UNION do so.
LEMMA FirstsAreKept ==
    ASSUME NEW X, NEW items \in Seq(X)
    PROVE  Selects(KeepFirst(items, SameKey), items, Firsts(items, Len(items)))
<1>1. PICK R : FirstsSoFar(R, items) /\ KeepFirst(items, SameKey) = R[Len(items)]
    BY KeepFirstRuns
<1>2. Selects(R[Len(items)], items, Firsts(items, Len(items)))  BY <1>1, FirstsSelected
<1> QED BY <1>1, <1>2

\* The elements kept have different keys.
LEMMA KeptApart ==
    ASSUME NEW items, Len(items) \in Nat, NEW kept,
           Selects(kept, items, Firsts(items, Len(items)))
    PROVE  \A p, q \in 1..Len(kept) : p # q => ~SameKey(kept[p], kept[q])
<1>1. Len(kept) \in Nat  BY DEF Selects, IsSequence
<1>2. PICK from \in [1..Len(kept) -> Firsts(items, Len(items))] :
         /\ \A p, q \in 1..Len(kept) : p < q => from[p] < from[q]
         /\ \A p \in 1..Len(kept) : kept[p] = items[from[p]]
    BY DEF Selects
<1>3. ASSUME NEW p \in 1..Len(kept), NEW q \in 1..Len(kept), p < q
      PROVE  ~SameKey(kept[p], kept[q])
  <2>1. from[p] < from[q] /\ from[p] \in 1..Len(items) /\ from[q] \in Firsts(items, Len(items))
      BY <1>2, <1>3 DEF Firsts
  <2>2. from[p] \in 1..(from[q] - 1)  BY <2>1 DEF Firsts
  <2>3. ~SameKey(items[from[p]], items[from[q]])  BY <2>1, <2>2 DEF Firsts
  <2> QED BY <1>2, <2>3
<1> SUFFICES ASSUME NEW p \in 1..Len(kept), NEW q \in 1..Len(kept), p # q
             PROVE  ~SameKey(kept[p], kept[q])
    OBVIOUS
<1>4. CASE p < q  BY <1>3, <1>4
<1>5. CASE q < p
  <2>1. ~SameKey(kept[q], kept[p])  BY <1>3, <1>5
  <2> QED BY <2>1 DEF SameKey
<1> QED BY <1>1, <1>4, <1>5

\* UNION is UNIQUE of the two arrays in a row.
LEMMA UnionKeeps ==
    ASSUME NEW l, NEW r
    PROVE  UnionOf(Arr(l), Arr(r)) = Arr(KeepFirst(l \o r, SameKey))
<1>1. \A s : Kind(Arr(s)) = "array" /\ Arr(s)[2] = s  BY DEF Kind, Arr
<1> DEFINE x == Arr(l)
           y == Arr(r)
           both == x[2] \o y[2]
<1>2. Kind(x) = "array" /\ Kind(y) = "array"  BY <1>1
<1>3. both = l \o r
  <2>1. x[2] = l /\ y[2] = r  BY <1>1
  <2> HIDE DEF x, y
  <2> QED BY <2>1
<1>4. UnionOf(x, y) = IF Kind(x) = "array" /\ Kind(y) = "array"
                      THEN Arr(KeepFirst(both, SameKey)) ELSE EmptyArr
    BY Zenon DEF UnionOf
<1> HIDE DEF x, y, both
<1>5. UnionOf(x, y) = Arr(KeepFirst(both, SameKey))  BY <1>2, <1>4, Zenon
<1>6. UnionOf(x, y) = Arr(KeepFirst(l \o r, SameKey))  BY <1>3, <1>5, Zenon
<1> QED BY <1>6, Zenon DEF x, y

\* UNIQUE keeps the first element of each key and nothing else; UNION does so for
\* the elements of both arrays, the left ones first.
THEOREM UniqueKeepsFirsts ==
    ASSUME NEW X, NEW l \in Seq(X), NEW r \in Seq(X)
    PROVE  /\ \E kept : /\ UniqueOf(Arr(l)) = Arr(kept)
                        /\ Selects(kept, l, Firsts(l, Len(l)))
           /\ \E kept : /\ UnionOf(Arr(l), Arr(r)) = Arr(kept)
                        /\ Selects(kept, l \o r, Firsts(l \o r, Len(l \o r)))
<1>1. \A s : Kind(Arr(s)) = "array" /\ Arr(s)[2] = s  BY DEF Kind, Arr
<1>2. l \o r \in Seq(X)  OBVIOUS
<1>3. UniqueOf(Arr(l)) = Arr(KeepFirst(l, SameKey))  BY <1>1, Zenon DEF UniqueOf
<1>4. UnionOf(Arr(l), Arr(r)) = Arr(KeepFirst(l \o r, SameKey))  BY UnionKeeps
<1> QED BY <1>2, <1>3, <1>4, FirstsAreKept

\* Where no two elements share a key, UNIQUE changes nothing.
LEMMA AllDifferentStay ==
    ASSUME NEW X, NEW items \in Seq(X),
           \A i, j \in 1..Len(items) : i # j => ~SameKey(items[i], items[j])
    PROVE  KeepFirst(items, SameKey) = items
<1> DEFINE n == Len(items)
           upto(k) == [i \in 1..k |-> items[i]]
<1>1. n \in Nat /\ items = upto(n)  OBVIOUS
<1>2. PICK R : FirstsSoFar(R, items) /\ KeepFirst(items, SameKey) = R[n]
    BY KeepFirstRuns
<1>3. R[0] = <<>>
      /\ \A k \in 1..n : R[k] = IF \E p \in 1..Len(R[k - 1]) : SameKey(R[k - 1][p], items[k])
                                THEN R[k - 1] ELSE Append(R[k - 1], items[k])
    BY <1>2 DEF FirstsSoFar
<1> DEFINE K == {k \in Nat : k <= n => R[k] = upto(k)}
<1>4. 0 \in K  BY <1>3
<1>5. ASSUME NEW k \in K PROVE k + 1 \in K
  <2> SUFFICES ASSUME k + 1 <= n PROVE R[k + 1] = upto(k + 1)
    <3> HIDE DEF upto, n
    <3> QED OBVIOUS
  <2>1. k \in Nat /\ k + 1 \in 1..n /\ k + 1 - 1 = k /\ R[k] = upto(k)
    <3> HIDE DEF upto
    <3> QED BY <1>1
  <2>2. upto(k) \in Seq(X) /\ Len(upto(k)) = k /\ \A p \in 1..k : upto(k)[p] = items[p]
    <3>1. \A p \in 1..k : items[p] \in X  BY <2>1
    <3>2. upto(k) \in [1..k -> X]  BY <3>1
    <3>3. upto(k) \in Seq(X)  BY <2>1, <3>2, SeqDef
    <3> QED BY <2>1, <3>3
  <2> HIDE DEF upto
  <2>3. ASSUME NEW p \in 1..Len(R[k]) PROVE ~SameKey(R[k][p], items[k + 1])
    <3>1. p \in 1..n /\ p # k + 1 /\ R[k][p] = items[p]  BY <2>1, <2>2
    <3> QED BY <2>1, <3>1
  <2>4. R[k + 1] = Append(upto(k), items[k + 1])
    <3>1. R[k + 1] = IF \E p \in 1..Len(R[k]) : SameKey(R[k][p], items[k + 1])
                     THEN R[k] ELSE Append(R[k], items[k + 1])
        BY <1>3, <2>1
    <3> QED BY <2>1, <2>3, <3>1
  <2>5. Append(upto(k), items[k + 1]) = upto(k + 1)
    <3> DEFINE s == upto(k)
    <3>1. s \in Seq(X) /\ Len(s) = k /\ (\A p \in 1..k : s[p] = items[p])
          /\ items[k + 1] \in X
        BY <2>1, <2>2
    <3> HIDE DEF s
    <3>2. Append(s, items[k + 1]) = [i \in 1..(k + 1) |-> items[i]]  BY <2>1, <3>1
    <3> QED BY <3>2 DEF s, upto
  <2> QED BY <2>4, <2>5
<1>6. K = Nat
  <2>1. K \in SUBSET Nat  OBVIOUS
  <2> HIDE DEF K
  <2> QED BY <1>4, <1>5, <2>1, Counting
<1>7. R[n] = upto(n)
  <2> HIDE DEF upto, n
  <2> QED BY <1>1, <1>6
<1> QED BY <1>1, <1>2, <1>7

\* What UNION made has no more to lose: UNIQUE leaves it as it is.
THEOREM UnionIsUnique ==
    ASSUME NEW X, NEW l \in Seq(X), NEW r \in Seq(X)
    PROVE  UniqueOf(UnionOf(Arr(l), Arr(r))) = UnionOf(Arr(l), Arr(r))
<1> DEFINE items == l \o r
           kept == KeepFirst(items, SameKey)
<1>1. \A s : Kind(Arr(s)) = "array" /\ Arr(s)[2] = s  BY DEF Kind, Arr
<1>2. items \in Seq(X)  OBVIOUS
<1> HIDE DEF items
<1>3. UnionOf(Arr(l), Arr(r)) = Arr(kept)  BY UnionKeeps DEF items
<1>4. UniqueOf(Arr(kept)) = Arr(KeepFirst(kept, SameKey))  BY <1>1, Zenon DEF UniqueOf
<1>5. Selects(kept, items, Firsts(items, Len(items)))  BY <1>2, FirstsAreKept
<1> HIDE DEF kept
<1>6. kept \in Seq(ToSet(kept)) /\ Len(kept) \in Nat  BY <1>5, SequenceIs DEF Selects
<1>7. Len(items) \in Nat  BY <1>2
<1>8. \A p, q \in 1..Len(kept) : p # q => ~SameKey(kept[p], kept[q])  BY <1>5, <1>7, KeptApart
<1>9. KeepFirst(kept, SameKey) = kept  BY <1>6, <1>8, AllDifferentStay
<1> QED BY <1>3, <1>4, <1>9

\* The number of truthy answers so far.
CountSoFar(R, got) ==
    /\ R[0] = 0
    /\ \A k \in 1..Len(got) : R[k] = IF Truthy(got[k]) THEN R[k - 1] + 1 ELSE R[k - 1]

\* COUNT goes through the answers one after the other.
LEMMA CountRuns ==
    ASSUME NEW got, IsSequence(got)
    PROVE  \E R : CountSoFar(R, got) /\ CountOf(got) = Num(R[Len(got)])
<1> DEFINE n == Len(got)
           next(c, v) == IF Truthy(v) THEN c + 1 ELSE c
           In(f) == f = [s \in SUBSET (1..n) |->
                           IF s = {} THEN 0 ELSE next(f[s \ {Max(s)}], got[Max(s)])]
           iter == CHOOSE f : In(f)
           F == [q \in Nat \X (1..n) |-> next(q[1], got[q[2]])]
<1>1. n \in Nat /\ DOMAIN got = 1..n  BY SequenceIs
<1> HIDE DEF n
<1>3. CountOf(got) = Num(iter[1..n])
    BY <1>1, Zenon DEF CountOf, FoldLeft, MapThenFoldSet, n
<1>4. \E f : In(f)
  <2>1. F \in [Nat \X (1..n) -> Nat]  OBVIOUS
  <2>2. \A b \in Nat, i \in 1..n : F[<<b, i>>] = next(b, got[i])
    <3> HIDE DEF next
    <3> QED OBVIOUS
  <2> HIDE DEF F, next
  <2>3. PICK g \in [SUBSET (1..n) -> Nat] : Turns(g, n, 0, F)
      BY <1>1, <2>1, LoopExists
  <2>4. ASSUME NEW s \in SUBSET (1..n)
        PROVE  g[s] = IF s = {} THEN 0 ELSE next(g[s \ {Max(s)}], got[Max(s)])
    <3>1. CASE s = {}  BY <2>3, <3>1 DEF Turns
    <3>2. CASE s # {}
      <4>1. Max(s) \in 1..n  BY <1>1, <3>2, MaxOfSome
      <4>2. g[s \ {Max(s)}] \in Nat  OBVIOUS
      <4>3. F[<<g[s \ {Max(s)}], Max(s)>>] = next(g[s \ {Max(s)}], got[Max(s)])
          BY <2>2, <4>1, <4>2
      <4> QED BY <2>3, <3>2, <4>3 DEF Turns
    <3> QED BY <3>1, <3>2
  <2>5. In(g)  BY <2>4
  <2> QED BY <2>5
<1>5. In(iter)  BY <1>4, Zenon
<1> HIDE DEF iter
<1> DEFINE R == [k \in 0..n |-> iter[1..k]]
<1>6. R[0] = 0
  <2>1. 1..0 = {} /\ {} \in SUBSET (1..n)  OBVIOUS
  <2> QED BY <1>1, <1>5, <2>1
<1>7. ASSUME NEW k \in 1..n PROVE R[k] = next(R[k - 1], got[k])
  <2>1. 1..k \in SUBSET (1..n) /\ 1..k # {} /\ Max(1..k) = k /\ (1..k) \ {k} = 1..(k - 1)
      BY <1>1, Prefix
  <2> HIDE DEF next
  <2>2. iter[1..k] = next(iter[(1..k) \ {Max(1..k)}], got[Max(1..k)])  BY <1>5, <2>1
  <2>3. iter[1..k] = next(iter[1..(k - 1)], got[k])  BY <2>1, <2>2
  <2>4. k \in 0..n /\ k - 1 \in 0..n  BY <1>1
  <2> QED BY <2>3, <2>4
<1>8. R[n] = iter[1..n]  BY <1>1
<1> HIDE DEF R
<1>9. CountSoFar(R, got)  BY <1>6, <1>7 DEF CountSoFar, n
<1> QED BY <1>3, <1>8, <1>9 DEF n

\* COUNT is the number of the truthy answers: of the items FILTER keeps.
THEOREM CountCountsTruthy ==
    ASSUME NEW got, IsSequence(got)
    PROVE  CountOf(got) = Num(Cardinality({i \in 1..Len(got) : Truthy(got[i])}))
<1> DEFINE n == Len(got)
           Truthies(k) == {i \in 1..k : Truthy(got[i])}
<1>1. n \in Nat  BY DEF IsSequence
<1>2. PICK R : CountSoFar(R, got) /\ CountOf(got) = Num(R[n])  BY CountRuns
<1>3. R[0] = 0
      /\ \A k \in 1..n : R[k] = IF Truthy(got[k]) THEN R[k - 1] + 1 ELSE R[k - 1]
    BY <1>2 DEF CountSoFar
<1> HIDE DEF n
<1> DEFINE Right(k) == IsFiniteSet(Truthies(k)) /\ R[k] = Cardinality(Truthies(k))
           K == {k \in Nat : k <= n => Right(k)}
<1>4. 0 \in K
  <2>1. Truthies(0) = {}  OBVIOUS
  <2> HIDE DEF Truthies
  <2>2. Right(0)  BY <1>3, <2>1, FS_EmptySet
  <2> HIDE DEF Right
  <2> QED BY <2>2
<1>5. ASSUME NEW k \in K PROVE k + 1 \in K
  <2> SUFFICES ASSUME k + 1 <= n PROVE Right(k + 1)
    <3> HIDE DEF Right
    <3> QED OBVIOUS
  <2>1. k \in Nat /\ k + 1 \in 1..n /\ k + 1 - 1 = k /\ Right(k)
    <3> HIDE DEF Right
    <3> QED BY <1>1
  <2>2. R[k + 1] = IF Truthy(got[k + 1]) THEN R[k] + 1 ELSE R[k]  BY <1>3, <2>1
  <2>3. 1..(k + 1) = (1..k) \cup {k + 1} /\ k + 1 \notin 1..k  BY <2>1
  <2>4. CASE Truthy(got[k + 1])
    <3>1. Truthies(k + 1) = Truthies(k) \cup {k + 1} /\ k + 1 \notin Truthies(k)
        BY <2>3, <2>4
    <3> HIDE DEF Truthies
    <3> QED BY <2>1, <2>2, <2>4, <3>1, FS_AddElement
  <2>5. CASE ~Truthy(got[k + 1])
    <3>1. Truthies(k + 1) = Truthies(k)  BY <2>3, <2>5
    <3> HIDE DEF Truthies
    <3> QED BY <2>1, <2>2, <2>5, <3>1
  <2> QED BY <2>4, <2>5
<1>6. K = Nat
  <2>1. K \in SUBSET Nat
    <3> HIDE DEF Right
    <3> QED OBVIOUS
  <2> HIDE DEF K
  <2> QED BY <1>4, <1>5, <2>1, Counting
<1>7. Right(n)
  <2> HIDE DEF Right
  <2> QED BY <1>1, <1>6
<1>8. CountOf(got) = Num(Cardinality(Truthies(n)))
  <2> HIDE DEF Truthies
  <2> QED BY <1>2, <1>7
<1> QED BY <1>8 DEF n

(***************************************************************************)
(* The one notion of equality.                                             *)
(***************************************************************************)
\* What == and the order of SORT take for granted of a value, at its top: its
\* payload is of its kind, and a record has one entry for a key.
Canonical(v) ==
    /\ Shaped(v) /\ InWidth(v)
    /\ Kind(v) = "bool"     => v[2] \in BOOLEAN
    /\ Kind(v) = "string"   => Spelled(v[2])
    /\ Kind(v) = "datetime" => v[2][1] \in Int
    /\ Kind(v) \in {"null", "nan"} => v[2] = 0
    /\ Kind(v) = "record"   => OneEntryEach(v[2])

\* The same at every depth.
ComparableSet(V) ==
    \A v \in V : Canonical(v) /\ \A i \in 1..Len(Elements(v)) : Elements(v)[i] \in V

Comparable(v) == \E V : v \in V /\ ComparableSet(V)

\* Two records of one size, the keys of the first all in the second: then they
\* have the same keys.
LEMMA KeysMeet ==
    ASSUME NEW r, NEW t, Len(r) \in Nat, Len(t) = Len(r), OneEntryEach(r),
           \A i \in 1..Len(r) : Has(t, r[i][1])
    PROVE  \A j \in 1..Len(t) : Has(r, t[j][1])
<1> DEFINE n == Len(r)
           at == [i \in 1..n |-> CHOOSE j \in 1..n : t[j][1] = r[i][1]]
<1>1. \A i \in 1..n : at[i] \in 1..n /\ t[at[i]][1] = r[i][1]
  <2> TAKE i \in 1..n
  <2>1. \E j \in 1..n : t[j][1] = r[i][1]  BY DEF Has
  <2> QED BY <2>1
<1>2. at \in [1..n -> 1..n]  BY <1>1
<1> HIDE DEF at, n
<1>3. \A i, j \in 1..n : at[i] = at[j] => i = j  BY <1>1 DEF OneEntryEach, n
<1>4. at \in Injection(1..n, 1..n)  BY <1>2, <1>3 DEF Injection, IsInjective
<1>5. n \in Nat /\ IsFiniteSet(1..n)  BY FS_Interval DEF n
<1>6. at \in Surjection(1..n, 1..n)  BY <1>4, <1>5, FS_Injection
<1>7. \A j \in 1..n : \E i \in 1..n : at[i] = j  BY <1>6 DEF Surjection
<1> SUFFICES ASSUME NEW j \in 1..n PROVE \E i \in 1..n : r[i][1] = t[j][1]  BY DEF Has, n
<1>8. PICK i \in 1..n : at[i] = j  BY <1>7
<1>9. t[at[i]][1] = r[i][1]  BY <1>1
<1> QED BY <1>8, <1>9

\* Two numbers match when neither is NaN and they are the same, or the same f64.
LEMMA NumbersMatch ==
    ASSUME NEW a, IsNumber(a), NEW b, IsNumber(b)
    PROVE  Matches(a, b) <=> /\ a # NaN /\ b # NaN
                             /\ IF Kind(a) = Kind(b) THEN a = b ELSE AsF64(a) = AsF64(b)
<1>1. Matches(a, b) = /\ NaN \notin {a, b}
                      /\ IF Kind(a) = Kind(b) THEN a = b ELSE AsF64(a) = AsF64(b)
    BY DEF Matches, IsNumber
<1> QED BY <1>1

\* What is compared of two values, seen from the other one.
LEMMA Swapped ==
    ASSUME NEW a, Canonical(a), NEW b, Canonical(b), Matches(a, b)
    PROVE  /\ Matches(b, a)
           /\ \A p \in Opposite(a, b) : <<p[2], p[1]>> \in Opposite(b, a)
<1>1. CASE IsNumber(a) /\ IsNumber(b)
  <2>1. a # NaN /\ b # NaN /\ IF Kind(a) = Kind(b) THEN a = b ELSE AsF64(a) = AsF64(b)
      BY <1>1, NumbersMatch
  <2>2. Matches(b, a)  BY <1>1, <2>1, NumbersMatch
  <2>3. Opposite(a, b) = {}  BY <1>1 DEF Opposite, IsNumber
  <2> QED BY <2>2, <2>3
<1>2. CASE Kind(a) = "array" /\ Kind(b) = "array"
  <2>1. Len(a[2]) = Len(b[2])  BY <1>2 DEF Matches, IsNumber
  <2>2. Matches(b, a)  BY <1>2, <2>1 DEF Matches, IsNumber
  <2>3. /\ Opposite(a, b) = {<<a[2][i], b[2][i]>> : i \in 1..Len(a[2])}
        /\ Opposite(b, a) = {<<b[2][i], a[2][i]>> : i \in 1..Len(b[2])}
      BY <1>2, <2>2 DEF Opposite
  <2> QED BY <2>1, <2>2, <2>3
<1>3. CASE Kind(a) = "record" /\ Kind(b) = "record"
  <2> DEFINE n == Len(a[2])
  <2>1. Len(b[2]) = n /\ \A i \in 1..n : Has(b[2], a[2][i][1])
      BY <1>3 DEF Matches, IsNumber
  <2>2. n \in Nat /\ OneEntryEach(a[2]) /\ OneEntryEach(b[2])
      BY <1>3 DEF Canonical, Shaped, IsContainer, IsSequence
  <2>3. \A j \in 1..Len(b[2]) : Has(a[2], b[2][j][1])  BY <2>1, <2>2, KeysMeet
  <2>4. Matches(b, a)  BY <1>3, <2>1, <2>3 DEF Matches, IsNumber
  <2>5. /\ Opposite(a, b) = {<<a[2][i][2], Get(b[2], a[2][i][1])>> : i \in 1..n}
        /\ Opposite(b, a) = {<<b[2][j][2], Get(a[2], b[2][j][1])>> : j \in 1..n}
      BY <1>3, <2>1, <2>4 DEF Opposite
  <2>6. ASSUME NEW i \in 1..n
        PROVE  <<Get(b[2], a[2][i][1]), a[2][i][2]>> \in Opposite(b, a)
    <3>1. PICK j \in 1..n : b[2][j][1] = a[2][i][1]  BY <2>1 DEF Has
    <3>2. Get(b[2], a[2][i][1]) = b[2][j][2]  BY <2>1, <2>2, <3>1, GetIs
    <3>3. Get(a[2], b[2][j][1]) = a[2][i][2]  BY <2>2, <3>1, GetIs
    <3> QED BY <2>5, <3>2, <3>3
  <2> QED BY <2>4, <2>5, <2>6
<1>4. CASE /\ ~(IsNumber(a) /\ IsNumber(b)) /\ ~(Kind(a) = "array" /\ Kind(b) = "array")
           /\ ~(Kind(a) = "record" /\ Kind(b) = "record")
  <2>1. a = b /\ Kind(a) \in {"null", "bool", "string", "datetime"}  BY <1>4 DEF Matches
  <2>2. Opposite(a, b) = {}  BY <2>1 DEF Opposite
  <2> QED BY <2>1, <2>2
<1> QED BY <1>1, <1>2, <1>3, <1>4

\* What is compared are elements of the two.
LEMMA OppositeAreElements ==
    ASSUME NEW V, ComparableSet(V), NEW a \in V, NEW b \in V, NEW p \in Opposite(a, b)
    PROVE  p = <<p[1], p[2]>> /\ p[1] \in V /\ p[2] \in V
<1>1. /\ Canonical(a) /\ \A i \in 1..Len(Elements(a)) : Elements(a)[i] \in V
      /\ Canonical(b) /\ \A i \in 1..Len(Elements(b)) : Elements(b)[i] \in V
    BY DEF ComparableSet
<1>2. Matches(a, b) /\ Kind(a) \in {"array", "record"} /\ Kind(b) = Kind(a)
    BY DEF Opposite, Matches, IsNumber
<1>3. CASE Kind(a) = "array"
  <2>1. Len(a[2]) = Len(b[2])  BY <1>2, <1>3 DEF Matches, IsNumber
  <2>2. PICK i \in 1..Len(a[2]) : p = <<a[2][i], b[2][i]>>  BY <1>2, <1>3 DEF Opposite
  <2>3. Elements(a) = a[2] /\ Elements(b) = b[2]  BY <1>2, <1>3 DEF Elements
  <2> QED BY <1>1, <2>1, <2>2, <2>3
<1>4. CASE Kind(a) = "record"
  <2>1. Len(a[2]) = Len(b[2]) /\ \A i \in 1..Len(a[2]) : Has(b[2], a[2][i][1])
      BY <1>2, <1>4 DEF Matches, IsNumber
  <2>2. PICK i \in 1..Len(a[2]) : p = <<a[2][i][2], Get(b[2], a[2][i][1])>>
      BY <1>2, <1>4 DEF Opposite
  <2>3. Len(a[2]) \in Nat /\ OneEntryEach(b[2])
      BY <1>1, <1>2, <1>4 DEF Canonical, Shaped, IsContainer, IsSequence
  <2>4. /\ Elements(a) = [k \in 1..Len(a[2]) |-> a[2][k][2]]
        /\ Elements(b) = [k \in 1..Len(b[2]) |-> b[2][k][2]]
      BY <1>2, <1>4 DEF Elements
  <2>5. PICK j \in 1..Len(b[2]) : b[2][j][1] = a[2][i][1]  BY <2>1, <2>2 DEF Has
  <2>6. Get(b[2], a[2][i][1]) = b[2][j][2]  BY <2>1, <2>3, <2>5, GetIs
  <2>7. Len(Elements(a)) = Len(a[2]) /\ Elements(a)[i] = a[2][i][2]  BY <2>3, <2>4
  <2>8. Len(Elements(b)) = Len(b[2]) /\ Elements(b)[j] = b[2][j][2]  BY <2>1, <2>3, <2>4
  <2>9. a[2][i][2] \in V /\ b[2][j][2] \in V  BY <1>1, <2>7, <2>8
  <2> QED BY <2>2, <2>6, <2>9
<1> QED BY <1>2, <1>3, <1>4

\* The layers of elements that == compares.
Layers(C, a, b) ==
    /\ C[0] = {<<a, b>>}
    /\ \A n \in 1..MaxNesting :
          C[n] = C[n - 1] \cup UNION {Opposite(p[1], p[2]) : p \in C[n - 1]}

AllMatch(S) == \A p \in S : Matches(p[1], p[2])

\* The layers that == of a and b goes through, and those of b and a.
LEMMA EqualLayers ==
    ASSUME NEW a, NEW b
    PROVE  \E C : /\ Layers(C, a, b)
                  /\ values_equal(a, b) <=>
                        /\ Matches(a, b)
                        /\ Opposite(a, b) # {} => AllMatch(C[MaxNesting])
<1> DEFINE Deeper(S) == S \cup UNION {Opposite(p[1], p[2]) : p \in S}
           Runs(C, k) == C = [n \in 0..k |-> IF n = 0 THEN {<<a, b>>} ELSE Deeper(C[n - 1])]
           K == {k \in Nat : \E C : Runs(C, k)}
<1> HIDE DEF Deeper
<1>1. 0 \in K
  <2> DEFINE C == [n \in 0..0 |-> {<<a, b>>}]
  <2>1. C = [n \in 0..0 |-> IF n = 0 THEN {<<a, b>>} ELSE Deeper(C[n - 1])]  OBVIOUS
  <2> QED BY <2>1
<1>2. ASSUME NEW k \in K PROVE k + 1 \in K
  <2>1. PICK C : Runs(C, k)  OBVIOUS
  <2> DEFINE D == [n \in 0..k + 1 |-> IF n = k + 1 THEN Deeper(C[k]) ELSE C[n]]
  <2>2. ASSUME NEW n \in 0..k + 1
        PROVE  D[n] = IF n = 0 THEN {<<a, b>>} ELSE Deeper(D[n - 1])
    <3>1. CASE n = k + 1
      <4>1. n # 0 /\ n - 1 = k /\ k \in 0..k + 1 /\ k # k + 1  BY <3>1
      <4> QED BY <3>1, <4>1
    <3>2. CASE n # k + 1
      <4>1. n \in 0..k /\ D[n] = C[n]  BY <3>2
      <4>2. C[n] = IF n = 0 THEN {<<a, b>>} ELSE Deeper(C[n - 1])  BY <2>1, <4>1
      <4>3. n # 0 => n - 1 \in 0..k + 1 /\ n - 1 # k + 1  BY <4>1
      <4>4. n # 0 => D[n - 1] = C[n - 1]  BY <4>3
      <4> QED BY <4>1, <4>2, <4>4
    <3> QED BY <3>1, <3>2
  <2>3. D = [n \in 0..k + 1 |-> D[n]]  OBVIOUS
  <2> HIDE DEF D
  <2>4. D = [n \in 0..k + 1 |-> IF n = 0 THEN {<<a, b>>} ELSE Deeper(D[n - 1])]
      BY <2>2, <2>3
  <2> QED BY <2>4
<1>3. K \subseteq Nat  OBVIOUS
<1> HIDE DEF K
<1>4. \A k \in Nat : k \in K  BY <1>1, <1>2, <1>3, Counting
<1>5. \E C : Runs(C, MaxNesting)  BY <1>4, NestingAssumption DEF K
<1> DEFINE compared == CHOOSE C : Runs(C, MaxNesting)
<1>6. values_equal(a, b) <=>
         /\ Matches(a, b)
         /\ Opposite(a, b) # {} => \A p \in compared[MaxNesting] : Matches(p[1], p[2])
    BY Zenon DEF values_equal, Deeper
<1>7. Runs(compared, MaxNesting)
  <2> HIDE DEF Runs
  <2> QED BY <1>5
<1> HIDE DEF compared
<1>8. Layers(compared, a, b)
  <2>1. \A n \in 0..MaxNesting :
           compared[n] = IF n = 0 THEN {<<a, b>>} ELSE Deeper(compared[n - 1])
      BY <1>7
  <2>2. compared[0] = {<<a, b>>}  BY <2>1, NestingAssumption
  <2>3. \A n \in 1..MaxNesting : n \in 0..MaxNesting /\ n # 0  BY NestingAssumption
  <2>4. \A n \in 1..MaxNesting : compared[n] = Deeper(compared[n - 1])  BY <2>1, <2>3
  <2> QED BY <2>2, <2>4 DEF Layers, Deeper
<1> QED BY <1>6, <1>8 DEF AllMatch

\* == of two values is == of the two exchanged.
LEMMA EqualSwaps ==
    ASSUME NEW V, ComparableSet(V), NEW a \in V, NEW b \in V, values_equal(a, b)
    PROVE  values_equal(b, a)
<1>1. PICK C : /\ Layers(C, a, b)
               /\ values_equal(a, b) <=>
                     /\ Matches(a, b)
                     /\ Opposite(a, b) # {} => AllMatch(C[MaxNesting])
    BY EqualLayers
<1>2. PICK D : /\ Layers(D, b, a)
               /\ values_equal(b, a) <=>
                     /\ Matches(b, a)
                     /\ Opposite(b, a) # {} => AllMatch(D[MaxNesting])
    BY EqualLayers
<1>3. \A v \in V : Canonical(v)  BY DEF ComparableSet
<1>4. \A x, y \in V : \A p \in Opposite(x, y) :
         /\ p = <<p[1], p[2]>> /\ p[1] \in V /\ p[2] \in V
         /\ <<p[2], p[1]>> \in Opposite(y, x)
  <2> SUFFICES ASSUME NEW x \in V, NEW y \in V, NEW p \in Opposite(x, y)
               PROVE  /\ p = <<p[1], p[2]>> /\ p[1] \in V /\ p[2] \in V
                      /\ <<p[2], p[1]>> \in Opposite(y, x)
      OBVIOUS
  <2>1. Matches(x, y)  BY DEF Opposite
  <2> QED BY <1>3, <2>1, Swapped, OppositeAreElements
<1> DEFINE Mirrored(S, T) ==
               \A p \in S : /\ p = <<p[1], p[2]>> /\ p[1] \in V /\ p[2] \in V
                             /\ <<p[2], p[1]>> \in T
           K == {n \in Nat : n <= MaxNesting => Mirrored(D[n], C[n])}
<1>5. 0 \in K
  <2>1. D[0] = {<<b, a>>} /\ C[0] = {<<a, b>>}  BY <1>1, <1>2 DEF Layers
  <2> QED BY <2>1
<1>6. ASSUME NEW n \in K PROVE n + 1 \in K
  <2> SUFFICES ASSUME n + 1 <= MaxNesting, NEW p \in D[n + 1]
               PROVE  /\ p = <<p[1], p[2]>> /\ p[1] \in V /\ p[2] \in V
                      /\ <<p[2], p[1]>> \in C[n + 1]
      OBVIOUS
  <2>1. n \in Nat /\ n + 1 \in 1..MaxNesting /\ n + 1 - 1 = n /\ n <= MaxNesting
      BY NestingAssumption
  <2>2. /\ D[n + 1] = D[n] \cup UNION {Opposite(q[1], q[2]) : q \in D[n]}
        /\ C[n + 1] = C[n] \cup UNION {Opposite(q[1], q[2]) : q \in C[n]}
      BY <1>1, <1>2, <2>1 DEF Layers
  <2>3. Mirrored(D[n], C[n])  BY <2>1
  <2>4. CASE p \in D[n]  BY <2>2, <2>3, <2>4
  <2>5. CASE p \notin D[n]
    <3>1. PICK q \in D[n] : p \in Opposite(q[1], q[2])  BY <2>2, <2>5
    <3>2. q[1] \in V /\ q[2] \in V /\ <<q[2], q[1]>> \in C[n]  BY <2>3
    <3>3. /\ p = <<p[1], p[2]>> /\ p[1] \in V /\ p[2] \in V
          /\ <<p[2], p[1]>> \in Opposite(q[2], q[1])
        BY <1>4, <3>1, <3>2
    <3>4. <<p[2], p[1]>> \in C[n + 1]
      <4> DEFINE r == <<q[2], q[1]>>
      <4>1. r \in C[n] /\ r[1] = q[2] /\ r[2] = q[1]  BY <3>2
      <4> HIDE DEF r
      <4>2. <<p[2], p[1]>> \in Opposite(r[1], r[2])  BY <3>3, <4>1
      <4> QED BY <2>2, <4>1, <4>2
    <3> QED BY <3>3, <3>4
  <2> QED BY <2>4, <2>5
<1>7. MaxNesting \in K
  <2>1. K \in SUBSET Nat  OBVIOUS
  <2> HIDE DEF K
  <2> QED BY <1>5, <1>6, <2>1, Counting, NestingAssumption
<1>8. Mirrored(D[MaxNesting], C[MaxNesting])
  <2>1. MaxNesting <= MaxNesting  BY NestingAssumption
  <2> HIDE DEF Mirrored
  <2> QED BY <1>7, <2>1
<1>9. Matches(a, b) /\ Matches(b, a)  BY <1>1, <1>3, Swapped
<1>10. ASSUME Opposite(b, a) # {} PROVE AllMatch(D[MaxNesting])
  <2>1. Opposite(a, b) # {}  BY <1>4, <1>10
  <2>2. AllMatch(C[MaxNesting])  BY <1>1, <2>1
  <2> SUFFICES ASSUME NEW p \in D[MaxNesting] PROVE Matches(p[1], p[2])  BY DEF AllMatch
  <2>3. p[1] \in V /\ p[2] \in V /\ <<p[2], p[1]>> \in C[MaxNesting]  BY <1>8
  <2>4. Matches(p[2], p[1])  BY <2>2, <2>3 DEF AllMatch
  <2> QED BY <1>3, <2>3, <2>4, Swapped
<1> QED BY <1>2, <1>9, <1>10

(***************************************************************************)
(* Records taken apart and rebuilt.                                        *)
(***************************************************************************)
\* What the words that rebuild containers take for granted of a value, at its
\* top: a container is a sequence, a record one of pairs with one for each key.
Whole(v) ==
    /\ v = <<v[1], v[2]>>
    /\ Kind(v) = "array"  => IsSequence(v[2])
    /\ Kind(v) = "record" => Record(v)

\* The same at every depth.
TidySet(V) == \A v \in V : Whole(v) /\ \A i \in 1..Len(Elements(v)) : Elements(v)[i] \in V

Tidy(v) == \E V : v \in V /\ TidySet(V)

TidyStack(s) == IsSequence(s) /\ \A i \in 1..Len(s) : Tidy(s[i])

\* A loop that keeps every position keeps the sequence.
LEMMA PickedAll ==
    ASSUME NEW X, NEW s \in Seq(X)
    PROVE  Picked(s, 1..Len(s)) = s
<1> DEFINE n == Len(s)
           upto(k) == [i \in 1..k |-> s[i]]
<1>1. n \in Nat /\ s = upto(n)  OBVIOUS
<1>2. PICK R : KeptSoFar(R, s, 1..n) /\ Picked(s, 1..n) = R[n]  BY PickedRuns
<1>3. R[0] = <<>> /\ \A k \in 1..n : R[k] = Append(R[k - 1], s[k])
    BY <1>2 DEF KeptSoFar
<1> DEFINE K == {k \in Nat : k <= n => R[k] = upto(k)}
<1>4. 0 \in K  BY <1>3
<1>5. ASSUME NEW k \in K PROVE k + 1 \in K
  <2> SUFFICES ASSUME k + 1 <= n PROVE R[k + 1] = upto(k + 1)
    <3> HIDE DEF upto, n
    <3> QED OBVIOUS
  <2>1. k \in Nat /\ k + 1 \in 1..n /\ k + 1 - 1 = k /\ R[k] = upto(k)
    <3> HIDE DEF upto
    <3> QED BY <1>1
  <2>2. upto(k) \in Seq(X) /\ Len(upto(k)) = k /\ \A p \in 1..k : upto(k)[p] = s[p]
    <3>1. \A p \in 1..k : s[p] \in X  BY <2>1
    <3>2. upto(k) \in [1..k -> X]  BY <3>1
    <3>3. upto(k) \in Seq(X)  BY <2>1, <3>2, SeqDef
    <3> QED BY <2>1, <3>3
  <2> HIDE DEF upto
  <2>4. R[k + 1] = Append(upto(k), s[k + 1])  BY <1>3, <2>1
  <2>5. Append(upto(k), s[k + 1]) = upto(k + 1)
    <3> DEFINE t == upto(k)
    <3>1. t \in Seq(X) /\ Len(t) = k /\ (\A p \in 1..k : t[p] = s[p]) /\ s[k + 1] \in X
        BY <2>1, <2>2
    <3> HIDE DEF t
    <3>2. Append(t, s[k + 1]) = [i \in 1..(k + 1) |-> s[i]]  BY <2>1, <3>1
    <3> QED BY <3>2 DEF t, upto
  <2> QED BY <2>4, <2>5
<1>6. K = Nat
  <2>1. K \in SUBSET Nat  OBVIOUS
  <2> HIDE DEF K
  <2> QED BY <1>4, <1>5, <2>1, Counting
<1>7. R[n] = upto(n)
  <2> HIDE DEF upto, n
  <2> QED BY <1>1, <1>6
<1> QED BY <1>1, <1>2, <1>7

\* Of a record, at its top.
LEMMA RecordIs ==
    ASSUME NEW r, Record(r)
    PROVE  /\ Kind(r) = "record" /\ PairsOf(r) = r[2] /\ Len(r[2]) \in Nat
           /\ r[2] \in Seq(ToSet(r[2])) /\ r = Rec(r[2])
           /\ r[2] = [i \in 1..Len(r[2]) |-> <<r[2][i][1], r[2][i][2]>>]
<1>1. Kind(r) = "record" /\ r = <<"record", r[2]>> /\ IsSequence(r[2])  BY DEF Record, Kind
<1>2. Len(r[2]) \in Nat /\ r[2] = [i \in 1..Len(r[2]) |-> r[2][i]]  BY <1>1 DEF IsSequence
<1>3. \A i \in 1..Len(r[2]) : r[2][i] = <<r[2][i][1], r[2][i][2]>>  BY DEF Record
<1>4. PairsOf(r) = r[2]  BY <1>1 DEF PairsOf
<1>5. r[2] = [i \in 1..Len(r[2]) |-> <<r[2][i][1], r[2][i][2]>>]  BY <1>2, <1>3
<1>6. r[2] \in Seq(ToSet(r[2]))  BY <1>1, SequenceIs
<1> QED BY <1>1, <1>2, <1>4, <1>5, <1>6 DEF Rec

\* A list of names, and the pairs of names and values.
Named(n, key) == [i \in 1..n |-> Str(key[i])]
Paired(n, key, val) == [i \in 1..n |-> <<key[i], val[i]>>]

\* One pair for each name: they are the record they are collected in.
LEMMA RecordOfPairs ==
    ASSUME NEW n, n \in Nat, NEW key, NEW val, \A i, j \in 1..n : key[i] = key[j] => i = j
    PROVE  LET pairs == Paired(n, key, val) IN
           /\ Collected(pairs) = pairs /\ Len(pairs) = n
           /\ \A i \in 1..n : pairs[i][1] = key[i] /\ pairs[i][2] = val[i]
           /\ Record(Rec(pairs)) /\ Rec(pairs)[2] = pairs
<1> DEFINE pairs == Paired(n, key, val)
<1>1. Len(pairs) = n /\ pairs = [i \in 1..Len(pairs) |-> pairs[i]]  BY DEF Paired
<1>2. \A i \in 1..n : /\ pairs[i][1] = key[i] /\ pairs[i][2] = val[i]
                      /\ pairs[i] = <<pairs[i][1], pairs[i][2]>>
    BY DEF Paired
<1> HIDE DEF pairs
<1>3. IsSequence(pairs)  BY <1>1 DEF IsSequence
<1>4. OneEntryEach(pairs)  BY <1>1, <1>2 DEF OneEntryEach
<1>5. \A i \in 1..Len(pairs) : pairs[i] = <<pairs[i][1], pairs[i][2]>>  BY <1>1, <1>2
<1>6. Collected(pairs) = pairs  BY ONLY <1>3, <1>4, <1>5, CollectedAgain
<1>7. Rec(pairs)[2] = pairs /\ Rec(pairs) = <<"record", Rec(pairs)[2]>>  BY DEF Rec
<1>8. Record(Rec(pairs))
  <2> DEFINE r == Rec(pairs)
  <2>1. r[2] = pairs /\ r = <<"record", r[2]>>  BY <1>7
  <2> HIDE DEF r
  <2>2. Record(r)  BY ONLY <1>3, <1>4, <1>5, <2>1 DEF Record
  <2> QED BY <2>2 DEF r
<1> QED BY <1>1, <1>2, <1>6, <1>7, <1>8 DEF pairs

\* REC takes the entries that are named by strings: all that REC>ENTRIES makes.
LEMMA EntriesMakeRecord ==
    ASSUME NEW r, Record(r)
    PROVE  RecOf(RecToEntries(r)) = r
<1> DEFINE n == Len(r[2])
           entry(i) == Arr(<<Str(r[2][i][1]), r[2][i][2]>>)
           s == [i \in 1..n |-> entry(i)]
           named(v) == Kind(v) = "array" /\ Len(v[2]) >= 2 /\ Kind(v[2][1]) = "string"
           there == Filtered(IF Kind(Arr(s)) = "array" THEN Arr(s)[2] ELSE <<>>,
                             LAMBDA v : /\ Kind(v) = "array" /\ Len(v[2]) >= 2
                                        /\ Kind(v[2][1]) = "string")
<1>1. n \in Nat /\ PairsOf(r) = r[2] /\ r = Rec(r[2])
      /\ r[2] = [i \in 1..n |-> <<r[2][i][1], r[2][i][2]>>]
    BY RecordIs
<1>2. RecToEntries(r) = Arr(s)  BY <1>1 DEF RecToEntries
<1>3. RecOf(Arr(s)) = Rec(Collected([i \in 1..Len(there) |->
                                        <<there[i][2][1][2], there[i][2][2]>>]))
    BY Zenon DEF RecOf
<1>4. Kind(Arr(s)) = "array" /\ Arr(s)[2] = s  BY DEF Arr, Kind
<1>5. there = Picked(s, {i \in 1..Len(s) : named(s[i])})
  <2>1. there = Picked(IF Kind(Arr(s)) = "array" THEN Arr(s)[2] ELSE <<>>,
                  {i \in 1..Len(IF Kind(Arr(s)) = "array" THEN Arr(s)[2] ELSE <<>>) :
                     named((IF Kind(Arr(s)) = "array" THEN Arr(s)[2] ELSE <<>>)[i])})
      BY Zenon DEF Filtered
  <2>2. (IF Kind(Arr(s)) = "array" THEN Arr(s)[2] ELSE <<>>) = s  BY <1>4
  <2> HIDE DEF there, s, named
  <2> QED BY <2>1, <2>2
<1>6. Len(s) = n /\ \A i \in 1..n : s[i] = entry(i)  BY <1>1
<1>7. ASSUME NEW i \in 1..n
      PROVE  named(s[i]) /\ s[i][2][1][2] = r[2][i][1] /\ s[i][2][2] = r[2][i][2]
  <2>1. s[i] = <<"array", <<<<"string", r[2][i][1]>>, r[2][i][2]>>>>  BY <1>6 DEF Arr, Str
  <2> HIDE DEF s
  <2> QED BY <2>1 DEF Kind
<1>8. s \in Seq({s[i] : i \in 1..n})
  <2>1. s \in [1..n -> {s[i] : i \in 1..n}]  OBVIOUS
  <2> HIDE DEF s
  <2> QED BY <1>1, <2>1, SeqDef
<1> HIDE DEF s, there, named, entry
<1>9. {i \in 1..Len(s) : named(s[i])} = 1..Len(s)  BY <1>6, <1>7
<1>10. there = s  BY <1>5, <1>8, <1>9, PickedAll
<1>11. [i \in 1..Len(there) |-> <<there[i][2][1][2], there[i][2][2]>>] = r[2]
    BY <1>1, <1>6, <1>7, <1>10
<1>12. Collected(r[2]) = r[2]  BY CollectedAgain DEF Record
<1> QED BY <1>1, <1>2, <1>3, <1>11, <1>12

\* Names and values side by side are the entries.
LEMMA NamesWithValues ==
    ASSUME NEW r, Record(r)
    PROVE  ZipOf(KeysWord(r), ValuesWord(r)) = RecToEntries(r)
<1> DEFINE n == Len(r[2])
           names == [i \in 1..n |-> Str(r[2][i][1])]
           vals == [i \in 1..n |-> r[2][i][2]]
<1>1. n \in Nat /\ Kind(r) = "record" /\ PairsOf(r) = r[2]  BY RecordIs
<1>2. \A s : Kind(Arr(s)) = "array" /\ Arr(s)[2] = s  BY DEF Arr, Kind
<1>3. KeysWord(r) = Arr(names)  BY <1>1 DEF KeysWord
<1>4. ValuesWord(r) = Arr(vals)  BY <1>1 DEF ValuesWord, Elements
<1>5. Len(names) = n /\ Len(vals) = n  BY <1>1
<1>6. Min({n, n}) = n  BY <1>1, MinOfTwo
<1>7. RecToEntries(r) = Arr([i \in 1..n |-> Arr(<<names[i], vals[i]>>)])
    BY <1>1 DEF RecToEntries
<1> HIDE DEF names, vals
<1> DEFINE x == Arr(names)
           y == Arr(vals)
<1>8. Kind(x) = "array" /\ Kind(y) = "array" /\ x[2] = names /\ y[2] = vals  BY <1>2
<1> HIDE DEF x, y
<1>9. ZipOf(x, y) = Arr([i \in 1..Min({Size(x), Size(y)}) |-> Arr(<<x[2][i], y[2][i]>>)])
    BY <1>8 DEF ZipOf
<1>10. Size(x) = n /\ Size(y) = n  BY <1>5, <1>8 DEF Size
<1>11. ZipOf(x, y) = Arr([i \in 1..n |-> Arr(<<names[i], vals[i]>>)])
    BY <1>6, <1>8, <1>9, <1>10
<1> QED BY <1>3, <1>4, <1>7, <1>11 DEF x, y

\* RELABEL moves every value from its old name to the new one.
LEMMA RelabelMoves ==
    ASSUME NEW r, Record(r), NEW n, n \in Nat, NEW old, NEW new, NEW val,
           \A i \in 1..n : Has(r[2], old[i]) /\ Get(r[2], old[i]) = val[i],
           \A i, j \in 1..n : new[i] = new[j] => i = j
    PROVE  RelabelOf(r, Arr(Named(n, old)), Arr(Named(n, new))) = Rec(Paired(n, new, val))
<1> DEFINE os == Named(n, old)
           ns == Named(n, new)
           x == Arr(os)
           y == Arr(ns)
           named(p) == Kind(p[1]) = "string" /\ Kind(p[2]) = "string" /\ Has(r[2], p[1][2])
           moves == [i \in 1..Len(x[2]) |-> <<x[2][i], y[2][i]>>]
           moved == Filtered(moves, LAMBDA p : /\ Kind(p[1]) = "string" /\ Kind(p[2]) = "string"
                                               /\ Has(r[2], p[1][2]))
           to == [i \in 1..Len(moved) |-> <<moved[i][2][2], Get(r[2], moved[i][1][2])>>]
<1>1. Kind(x) = "array" /\ Kind(y) = "array" /\ x[2] = os /\ y[2] = ns  BY DEF Arr, Kind
<1>2. /\ Len(os) = n /\ Len(ns) = n
      /\ \A i \in 1..n : os[i] = Str(old[i]) /\ ns[i] = Str(new[i])
    BY DEF Named
<1>3. Kind(r) = "record"  BY RecordIs
<1>4. RelabelOf(r, x, y) =
        IF \/ Kind(r) # "record" \/ Kind(x) # "array" \/ Kind(y) # "array"
           \/ Len(x[2]) # Len(y[2])
        THEN r ELSE Rec(Collected(to))
    BY Zenon DEF RelabelOf
<1>5. moved = Picked(moves, {i \in 1..Len(moves) : named(moves[i])})  BY Zenon DEF Filtered
<1> HIDE DEF x, y, moved, os, ns
<1>6. RelabelOf(r, x, y) = Rec(Collected(to))
  <2> HIDE DEF to
  <2> QED BY <1>1, <1>2, <1>3, <1>4
<1>7. Len(moves) = n /\ \A i \in 1..n : moves[i] = <<Str(old[i]), Str(new[i])>>
  <2>1. Len(x[2]) = n  BY <1>1, <1>2
  <2> QED BY <1>1, <1>2, <2>1
<1>8. ASSUME NEW i \in 1..n
      PROVE  named(moves[i]) /\ moves[i][1][2] = old[i] /\ moves[i][2][2] = new[i]
  <2>1. moves[i] = <<<<"string", old[i]>>, <<"string", new[i]>>>>  BY <1>7 DEF Str
  <2>2. Has(r[2], old[i])  OBVIOUS
  <2> HIDE DEF moves
  <2> QED BY <2>1, <2>2 DEF Kind
<1>9. moves \in Seq({moves[i] : i \in 1..n})
  <2>1. moves \in [1..n -> {moves[i] : i \in 1..n}]  BY <1>1, <1>2
  <2> HIDE DEF moves
  <2> QED BY <2>1, SeqDef
<1> HIDE DEF moves, named
<1>10. {i \in 1..Len(moves) : named(moves[i])} = 1..Len(moves)  BY <1>7, <1>8
<1>11. moved = moves  BY <1>5, <1>9, <1>10, PickedAll
<1>12. to = Paired(n, new, val)
  <2>1. Len(moved) = n /\ \A i \in 1..n : moved[i][2][2] = new[i] /\ moved[i][1][2] = old[i]
      BY <1>7, <1>8, <1>11
  <2> QED BY <2>1 DEF Paired
<1> HIDE DEF to
<1>13. Collected(Paired(n, new, val)) = Paired(n, new, val)  BY RecordOfPairs
<1> QED BY <1>6, <1>12, <1>13 DEF x, y, os, ns

\* Names exchanged and exchanged back.
LEMMA RelabelBack ==
    ASSUME NEW r, Record(r)
    PROVE  LET names == KeysWord(r)
               other == ReverseOf(names)
           IN  RelabelOf(RelabelOf(r, names, other), other, names) = r
<1> DEFINE n == Len(r[2])
           key == [i \in 1..n |-> r[2][i][1]]
           val == [i \in 1..n |-> r[2][i][2]]
           rev == [i \in 1..n |-> key[n - i + 1]]
           ks == Named(n, key)
           rs == Named(n, rev)
           there == Paired(n, rev, val)
<1>1. /\ n \in Nat /\ Kind(r) = "record" /\ r = Rec(r[2])
      /\ r[2] = [i \in 1..n |-> <<r[2][i][1], r[2][i][2]>>]
    BY RecordIs
<1>2. \A i, j \in 1..n : key[i] = key[j] => i = j  BY DEF Record, OneEntryEach
<1>3. \A i \in 1..n : n - i + 1 \in 1..n  BY <1>1
<1>4. \A i, j \in 1..n : rev[i] = rev[j] => i = j
  <2> SUFFICES ASSUME NEW i \in 1..n, NEW j \in 1..n, rev[i] = rev[j] PROVE i = j  OBVIOUS
  <2>1. key[n - i + 1] = key[n - j + 1]  OBVIOUS
  <2>2. n - i + 1 = n - j + 1
    <3> HIDE DEF key
    <3> QED BY <1>2, <1>3, <2>1
  <2> HIDE DEF key, rev
  <2> QED BY <1>1, <2>2
<1>5. KeysWord(r) = Arr(ks)  BY <1>1 DEF KeysWord, Named
<1>6. ReverseOf(Arr(ks)) = Arr(rs)
  <2>1. Kind(Arr(ks)) = "array" /\ Arr(ks)[2] = ks  BY DEF Arr, Kind
  <2>2. Len(ks) = n /\ \A i \in 1..n : ks[i] = Str(key[i])  BY <1>1 DEF Named
  <2> HIDE DEF key
  <2>3. Reverse(ks) = [i \in 1..n |-> ks[(n - i) + 1]]  BY <2>2 DEF Reverse
  <2>4. \A i \in 1..n : ks[(n - i) + 1] = Str(rev[i])  BY <1>3, <2>2
  <2>5. Reverse(ks) = rs
    <3> HIDE DEF ks, rev
    <3> QED BY <2>3, <2>4 DEF Named
  <2> HIDE DEF ks, rs
  <2> QED BY <2>1, <2>5 DEF ReverseOf
<1>7. \A i \in 1..n : Has(r[2], key[i]) /\ Get(r[2], key[i]) = val[i]
  <2> TAKE i \in 1..n
  <2>1. Has(r[2], r[2][i][1])  BY DEF Has
  <2>2. Get(r[2], r[2][i][1]) = r[2][i][2]  BY GetIs DEF Record
  <2> QED BY <2>1, <2>2
<1>8. r[2] = Paired(n, key, val)  BY <1>1 DEF Paired
<1> HIDE DEF n, key, val, rev
<1>9. n \in Nat  BY <1>1
<1>10. RelabelOf(r, Arr(ks), Arr(rs)) = Rec(there)
    BY <1>9, <1>4, <1>7, RelabelMoves
<1>11. /\ Record(Rec(there)) /\ Rec(there)[2] = there /\ Len(there) = n
       /\ \A i \in 1..n : there[i][1] = rev[i] /\ there[i][2] = val[i]
    BY ONLY <1>9, <1>4, RecordOfPairs
<1> DEFINE m == Rec(there)
<1> HIDE DEF there, ks, rs, m
<1>12. m[2] = there /\ Record(m)  BY <1>11 DEF m
<1>13. \A i \in 1..n : Has(m[2], rev[i]) /\ Get(m[2], rev[i]) = val[i]
  <2> TAKE i \in 1..n
  <2>1. i \in 1..Len(there) /\ there[i][1] = rev[i] /\ there[i][2] = val[i]  BY <1>11
  <2>2. OneEntryEach(there)  BY <1>12 DEF Record
  <2>3. Get(there, there[i][1]) = there[i][2]  BY <2>1, <2>2, GetIs
  <2>4. Has(there, there[i][1])  BY <2>1 DEF Has
  <2> QED BY <1>12, <2>1, <2>3, <2>4
<1>14. RelabelOf(m, Arr(Named(n, rev)), Arr(Named(n, key))) = Rec(Paired(n, key, val))
    BY <1>9, <1>2, <1>12, <1>13, RelabelMoves
<1>15. RelabelOf(m, Arr(rs), Arr(ks)) = r  BY <1>1, <1>8, <1>14 DEF rs, ks
<1> QED BY <1>5, <1>6, <1>10, <1>15 DEF m

\* A key that is taken out is gone, and DELETE and OMIT take out the same.
LEMMA DeletedKeyIsGone ==
    ASSUME NEW r, Record(r), NEW key, IsScalar(key)
    PROVE  /\ ~HasKeyOf(DeleteOf(r, key), key)[2]
           /\ DeleteOf(r, key) = OmitOf(r, Arr(<<key>>))
<1> DEFINE n == Len(r[2])
           k == key_string(key)
           I == {i \in 1..n : r[2][i][1] # k}
           rest == Picked(r[2], I)
<1>1. /\ n \in Nat /\ Kind(r) = "record" /\ PairsOf(r) = r[2] /\ r[2] \in Seq(ToSet(r[2]))
    BY RecordIs
<1>2. ShiftRemove(r[2], k) = rest  BY Zenon DEF ShiftRemove, Filtered
<1>3. DeleteOf(r, key) = Rec(rest)
  <2>1. DeleteOf(r, key) = Rec(ShiftRemove(r[2], key_string(key)))  BY <1>1 DEF DeleteOf
  <2> QED BY <1>2, <2>1
<1>4. ToSet(NamedKeys(Arr(<<key>>))) = {k}
  <2>1. Kind(Arr(<<key>>)) = "array" /\ Arr(<<key>>)[2] = <<key>>  BY DEF Arr, Kind
  <2>2. NamedKeys(Arr(<<key>>)) = [i \in 1..Len(<<key>>) |-> key_string(<<key>>[i])]
      BY <2>1 DEF NamedKeys
  <2>3. Len(<<key>>) = 1 /\ <<key>>[1] = key  OBVIOUS
  <2>4. NamedKeys(Arr(<<key>>)) = [i \in 1..1 |-> k]  BY <2>2, <2>3
  <2> HIDE DEF k
  <2> QED BY <2>4 DEF ToSet
<1>5. OmitOf(r, Arr(<<key>>)) = Rec(rest)
  <2> DEFINE A == ToSet(NamedKeys(Arr(<<key>>)))
  <2>1. OmitOf(r, Arr(<<key>>)) =
           Rec(Picked(PairsOf(r), {i \in 1..Len(PairsOf(r)) : PairsOf(r)[i][1] \notin A}))
      BY Zenon DEF OmitOf, Filtered
  <2> HIDE DEF A
  <2>2. {i \in 1..n : r[2][i][1] \notin A} = I  BY <1>4 DEF A
  <2> QED BY <1>1, <2>1, <2>2
<1>6. Selects(rest, r[2], I)  BY <1>1, PickedSelects
<1> HIDE DEF rest
<1>7. \A p \in 1..Len(rest) : rest[p][1] # k  BY <1>6 DEF Selects
<1>8. ~Has(rest, k)  BY <1>7 DEF Has
<1>9. PairsOf(Rec(rest)) = rest  BY DEF PairsOf, Rec, Kind
<1>10. HasKeyOf(Rec(rest), key) = <<"bool", Has(rest, k)>>  BY <1>9 DEF HasKeyOf, Bool
<1> QED BY <1>3, <1>5, <1>8, <1>10

\* The entries of two records agree, key by key.
Alike(x, y) ==
    /\ Record(x) /\ Record(y)
    /\ \A k : /\ Has(x[2], k) <=> Has(y[2], k)
              /\ Get(x[2], k) = Get(y[2], k)

\* They agree, or are records whose entries do.
NearlyAlike(x, y) ==
    /\ Record(x) /\ Record(y)
    /\ \A k : /\ Has(x[2], k) <=> Has(y[2], k)
              /\ Get(x[2], k) = Get(y[2], k) \/ Alike(Get(x[2], k), Get(y[2], k))

\* A record whose keys are all in another is not longer.
LEMMA NotLonger ==
    ASSUME NEW r, NEW t, Len(r) \in Nat, Len(t) \in Nat, OneEntryEach(r),
           \A k : Has(r, k) => Has(t, k)
    PROVE  Len(r) <= Len(t)
<1> DEFINE m == Len(r)
           n == Len(t)
           at == [i \in 1..m |-> CHOOSE j \in 1..n : t[j][1] = r[i][1]]
<1>1. \A i \in 1..m : at[i] \in 1..n /\ t[at[i]][1] = r[i][1]
  <2> TAKE i \in 1..m
  <2>1. Has(r, r[i][1])  BY DEF Has
  <2>2. \E j \in 1..n : t[j][1] = r[i][1]  BY <2>1 DEF Has
  <2> QED BY <2>2
<1>2. at \in [1..m -> 1..n]  BY <1>1
<1>3. m \in Nat /\ n \in Nat  OBVIOUS
<1> HIDE DEF at, m, n
<1>4. \A i, j \in 1..m : at[i] = at[j] => i = j  BY <1>1 DEF OneEntryEach, m
<1>5. /\ IsFiniteSet(1..m) /\ Cardinality(1..m) = m
      /\ IsFiniteSet(1..n) /\ Cardinality(1..n) = n
  <2>1. 1 \in Int /\ m \in Int /\ n \in Int  BY <1>3
  <2>2. /\ IsFiniteSet(1..m) /\ Cardinality(1..m) = IF 1 > m THEN 0 ELSE m - 1 + 1
        /\ IsFiniteSet(1..n) /\ Cardinality(1..n) = IF 1 > n THEN 0 ELSE n - 1 + 1
      BY <2>1, FS_Interval
  <2> QED BY <1>3, <2>2
<1>6. ~(n < m)
  <2> SUFFICES ASSUME n < m PROVE FALSE  OBVIOUS
  <2>1. Cardinality(1..n) < Cardinality(1..m)  BY <1>5
  <2>2. \E i, j \in 1..m : i # j /\ at[i] = at[j]
      BY ONLY <1>2, <1>5, <2>1, FS_PigeonHole
  <2> QED BY <1>4, <2>2
<1> QED BY <1>3, <1>6 DEF m, n

\* Records with the same keys match, and == goes on with the values key by key.
LEMMA SameKeysMatch ==
    ASSUME NEW x, Record(x), NEW y, Record(y), \A k : Has(x[2], k) <=> Has(y[2], k)
    PROVE  /\ Matches(x, y)
           /\ Opposite(x, y) = {<<x[2][i][2], Get(y[2], x[2][i][1])>> : i \in 1..Len(x[2])}
<1>1. /\ Kind(x) = "record" /\ Len(x[2]) \in Nat /\ Kind(y) = "record" /\ Len(y[2]) \in Nat
    BY RecordIs
<1>2. OneEntryEach(x[2]) /\ OneEntryEach(y[2])  BY DEF Record
<1>3. Len(x[2]) <= Len(y[2]) /\ Len(y[2]) <= Len(x[2])  BY <1>1, <1>2, NotLonger
<1>4. \A i \in 1..Len(x[2]) : Has(y[2], x[2][i][1])
  <2> TAKE i \in 1..Len(x[2])
  <2>1. Has(x[2], x[2][i][1])  BY DEF Has
  <2> QED BY <2>1
<1>5. Matches(x, y)  BY <1>1, <1>3, <1>4 DEF Matches, IsNumber
<1> QED BY <1>1, <1>5 DEF Opposite

\* Every pair of values compared is one under a key of both.
LEMMA ComparedByKey ==
    ASSUME NEW x, Record(x), NEW y, Record(y), \A k : Has(x[2], k) <=> Has(y[2], k),
           NEW p \in Opposite(x, y)
    PROVE  \E k : p = <<Get(x[2], k), Get(y[2], k)>> /\ Has(y[2], k)
<1>1. PICK i \in 1..Len(x[2]) : p = <<x[2][i][2], Get(y[2], x[2][i][1])>>
    BY SameKeysMatch
<1> DEFINE k == x[2][i][1]
<1>2. Get(x[2], k) = x[2][i][2]  BY GetIs DEF Record
<1>3. Has(x[2], k)  BY DEF Has
<1> QED BY <1>1, <1>2, <1>3

\* With itself a record is compared key by key.
LEMMA ComparedWithItself ==
    ASSUME NEW y, Record(y), NEW k, Has(y[2], k)
    PROVE  <<Get(y[2], k), Get(y[2], k)>> \in Opposite(y, y)
<1>1. PICK j \in 1..Len(y[2]) : y[2][j][1] = k  BY DEF Has
<1>2. Get(y[2], y[2][j][1]) = y[2][j][2]  BY GetIs DEF Record
<1>3. Opposite(y, y) = {<<y[2][e][2], Get(y[2], y[2][e][1])>> : e \in 1..Len(y[2])}
    BY SameKeysMatch
<1> QED BY <1>1, <1>2, <1>3

\* The entries of y are entries of w.
Within(y, w) ==
    Record(w) /\ \A k : Has(y[2], k) => Has(w[2], k) /\ Get(y[2], k) = Get(w[2], k)

\* == finds nothing to tell two such records apart, if they are within a record
\* that is == to itself.
LEMMA AlikeWithin ==
    ASSUME NEW x, NEW y, NearlyAlike(x, y), NEW w, Within(y, w), values_equal(w, w)
    PROVE  values_equal(x, y)
<1>1. PICK C : /\ Layers(C, x, y)
               /\ values_equal(x, y) <=>
                     /\ Matches(x, y)
                     /\ Opposite(x, y) # {} => AllMatch(C[MaxNesting])
    BY EqualLayers
<1>2. PICK D : /\ Layers(D, w, w)
               /\ values_equal(w, w) <=>
                     /\ Matches(w, w)
                     /\ Opposite(w, w) # {} => AllMatch(D[MaxNesting])
    BY EqualLayers
<1> DEFINE Known(p, S) == \/ p = <<x, y>>
                          \/ p \in S
                          \/ Alike(p[1], p[2]) /\ <<p[2], p[2]>> \in S
           K == {n \in Nat : n <= MaxNesting =>
                    <<w, w>> \in D[n] /\ \A p \in C[n] : Known(p, D[n])}
<1>3. 0 \in K
  <2>1. D[0] = {<<w, w>>} /\ C[0] = {<<x, y>>}  BY <1>1, <1>2 DEF Layers
  <2> QED BY <2>1
<1>4. ASSUME NEW n \in K PROVE n + 1 \in K
  <2>1. n \in Nat  OBVIOUS
  <2> SUFFICES ASSUME n + 1 <= MaxNesting
               PROVE  <<w, w>> \in D[n + 1] /\ \A p \in C[n + 1] : Known(p, D[n + 1])
    <3> HIDE DEF Known
    <3> QED BY <2>1
  <2>2. n + 1 \in 1..MaxNesting /\ n + 1 - 1 = n /\ n <= MaxNesting
      BY <2>1, NestingAssumption
  <2>3. <<w, w>> \in D[n] /\ \A p \in C[n] : Known(p, D[n])
    <3> HIDE DEF Known
    <3> QED BY <2>2
  <2>4. /\ C[n + 1] = C[n] \cup UNION {Opposite(q[1], q[2]) : q \in C[n]}
        /\ D[n + 1] = D[n] \cup UNION {Opposite(q[1], q[2]) : q \in D[n]}
    <3>1. /\ C[n + 1] = C[n + 1 - 1] \cup UNION {Opposite(q[1], q[2]) : q \in C[n + 1 - 1]}
          /\ D[n + 1] = D[n + 1 - 1] \cup UNION {Opposite(q[1], q[2]) : q \in D[n + 1 - 1]}
        BY <1>1, <1>2, <2>2 DEF Layers
    <3> QED BY <2>2, <3>1
  <2>5. D[n] \subseteq D[n + 1] /\ \A q \in D[n] : Opposite(q[1], q[2]) \subseteq D[n + 1]
      BY <2>4
  <2>6. \A v : <<v, v>> \in D[n] => Opposite(v, v) \subseteq D[n + 1]
    <3> SUFFICES ASSUME NEW v, <<v, v>> \in D[n] PROVE Opposite(v, v) \subseteq D[n + 1]
        OBVIOUS
    <3> DEFINE q == <<v, v>>
    <3>1. q \in D[n] /\ q[1] = v /\ q[2] = v  OBVIOUS
    <3> HIDE DEF q
    <3> QED BY <2>5, <3>1
  <2>7. ASSUME NEW p \in C[n + 1] PROVE Known(p, D[n + 1])
    <3>1. CASE p \in C[n]
      <4>1. Known(p, D[n])  BY <2>3, <3>1
      <4> QED BY <2>5, <4>1
    <3>2. CASE p \notin C[n]
      <4>1. PICK q \in C[n] : p \in Opposite(q[1], q[2])  BY <2>4, <3>2
      <4>2. CASE q = <<x, y>>
        <5>1. p \in Opposite(x, y)  BY <4>1, <4>2
        <5>2. PICK k : p = <<Get(x[2], k), Get(y[2], k)>> /\ Has(y[2], k)
            BY <5>1, ComparedByKey DEF NearlyAlike
        <5>3. Get(x[2], k) = Get(y[2], k) \/ Alike(Get(x[2], k), Get(y[2], k))
            BY DEF NearlyAlike
        <5>4. <<Get(y[2], k), Get(y[2], k)>> \in Opposite(w, w)
            BY <5>2, ComparedWithItself DEF Within
        <5>5. <<Get(y[2], k), Get(y[2], k)>> \in D[n + 1]  BY <2>3, <2>6, <5>4
        <5>6. p[1] = Get(x[2], k) /\ p[2] = Get(y[2], k)  BY <5>2
        <5> QED BY <5>2, <5>3, <5>5, <5>6
      <4>3. CASE q \in D[n]  BY <2>5, <4>1, <4>3
      <4>4. CASE Alike(q[1], q[2]) /\ <<q[2], q[2]>> \in D[n]
        <5> DEFINE a == q[1]
                   b == q[2]
        <5>1. Alike(a, b) /\ <<b, b>> \in D[n] /\ p \in Opposite(a, b)  BY <4>1, <4>4
        <5> HIDE DEF a, b
        <5>2. PICK k : p = <<Get(a[2], k), Get(b[2], k)>> /\ Has(b[2], k)
            BY <5>1, ComparedByKey DEF Alike
        <5>3. Get(a[2], k) = Get(b[2], k)  BY <5>1 DEF Alike
        <5>4. <<Get(b[2], k), Get(b[2], k)>> \in Opposite(b, b)
            BY <5>1, <5>2, ComparedWithItself DEF Alike
        <5>5. p \in D[n + 1]  BY <2>6, <5>1, <5>2, <5>3, <5>4
        <5> QED BY <5>5
      <4>5. Known(q, D[n])  BY <2>3
      <4> QED BY <4>2, <4>3, <4>4, <4>5
    <3> QED BY <3>1, <3>2
  <2> HIDE DEF Known
  <2> QED BY <2>3, <2>5, <2>7
<1>5. MaxNesting \in K
  <2>1. K \in SUBSET Nat
    <3> HIDE DEF Known
    <3> QED OBVIOUS
  <2> HIDE DEF K
  <2> QED BY <1>3, <1>4, <2>1, Counting, NestingAssumption
<1>6. \A p \in C[MaxNesting] : Known(p, D[MaxNesting])
  <2>1. MaxNesting <= MaxNesting  BY NestingAssumption
  <2> HIDE DEF Known
  <2> QED BY <1>5, <2>1
<1>7. Matches(x, y)  BY SameKeysMatch DEF NearlyAlike
<1>8. ASSUME Opposite(x, y) # {} PROVE AllMatch(C[MaxNesting])
  <2>1. Opposite(w, w) # {}
    <3>1. PICK p : p \in Opposite(x, y)  BY <1>8
    <3>2. PICK k : Has(y[2], k)  BY <3>1, ComparedByKey DEF NearlyAlike
    <3>3. <<Get(w[2], k), Get(w[2], k)>> \in Opposite(w, w)
        BY <3>2, ComparedWithItself DEF Within
    <3> QED BY <3>3
  <2>2. AllMatch(D[MaxNesting])  BY <1>2, <2>1
  <2> SUFFICES ASSUME NEW p \in C[MaxNesting] PROVE Matches(p[1], p[2])  BY DEF AllMatch
  <2>3. Known(p, D[MaxNesting])  BY <1>6
  <2>4. CASE p = <<x, y>>  BY <1>7, <2>4
  <2>5. CASE p \in D[MaxNesting]  BY <2>2, <2>5 DEF AllMatch
  <2>6. CASE Alike(p[1], p[2])
    <3> DEFINE a == p[1]
               b == p[2]
    <3>1. Alike(a, b)  BY <2>6
    <3> HIDE DEF a, b
    <3>2. Matches(a, b)  BY <3>1, SameKeysMatch DEF Alike
    <3> QED BY <3>2 DEF a, b
  <2> QED BY <2>3, <2>4, <2>5, <2>6
<1> QED BY <1>1, <1>7, <1>8

\* Or if the second is == to itself.
LEMMA AlikeAreEqual ==
    ASSUME NEW x, NEW y, NearlyAlike(x, y), values_equal(y, y)
    PROVE  values_equal(x, y)
<1>1. Within(y, y)  BY DEF Within, NearlyAlike
<1> QED BY <1>1, AlikeWithin

\* What collect() makes is a record.
LEMMA CollectedIsRecord ==
    ASSUME NEW pairs, IsSequence(pairs)
    PROVE  Record(Rec(Collected(pairs)))
<1> DEFINE t == Collected(pairs)
           r == Rec(t)
<1>1. Collects(t, pairs, Len(pairs))  BY CollectedHolds
<1>2. r[2] = t /\ r = <<"record", r[2]>>  BY DEF Rec
<1> HIDE DEF t, r
<1>3. IsSequence(t) /\ OneEntryEach(t)  BY <1>1 DEF Collects
<1>4. ASSUME NEW e \in 1..Len(t) PROVE t[e] = <<t[e][1], t[e][2]>>
  <2>1. PICK i \in 1..Len(pairs) : t[e] = <<pairs[i][1], pairs[i][2]>>  BY <1>1 DEF Collects
  <2> QED BY <2>1
<1>5. Record(r)  BY <1>2, <1>3, <1>4 DEF Record
<1> QED BY <1>5 DEF r, t

\* t holds the entries of a record at the positions I.
EntriesAt(t, r, I) ==
    /\ Record(Rec(t))
    /\ \A k : /\ Has(t, k) <=> \E i \in I : r[2][i][1] = k
              /\ Has(t, k) => Get(t, k) = Get(r[2], k)

\* Some of the entries of a record are a record.
LEMMA SomeEntries ==
    ASSUME NEW r, Record(r), NEW I, I \in SUBSET (1..Len(r[2])), NEW t, t = Picked(r[2], I)
    PROVE  EntriesAt(t, r, I)
<1> DEFINE s == r[2]
           m == Rec(t)
<1>1. s \in Seq(ToSet(s)) /\ Len(s) \in Nat /\ OneEntryEach(s)
      /\ \A i \in 1..Len(s) : s[i] = <<s[i][1], s[i][2]>>
    BY RecordIs DEF Record
<1>2. m[2] = t /\ m = <<"record", m[2]>>  BY DEF Rec
<1> HIDE DEF s, m
<1>3. Selects(t, s, I)
  <2>1. I \in SUBSET (1..Len(s)) /\ t = Picked(s, I)  BY DEF s
  <2> QED BY <1>1, <2>1, PickedSelects
<1>4. IsSequence(t) /\ Len(t) \in Nat  BY <1>3 DEF Selects, IsSequence
<1>5. PICK from \in [1..Len(t) -> I] :
         /\ \A i \in I : \E p \in 1..Len(t) : from[p] = i
         /\ \A p, q \in 1..Len(t) : p < q => from[p] < from[q]
         /\ \A p \in 1..Len(t) : t[p] = s[from[p]]
    BY <1>3 DEF Selects
<1>6. \A p \in 1..Len(t) : from[p] \in I /\ from[p] \in 1..Len(s)  BY DEF s
<1>7. OneEntryEach(t)
  <2> SUFFICES ASSUME NEW p \in 1..Len(t), NEW q \in 1..Len(t), t[p][1] = t[q][1] PROVE p = q
      BY DEF OneEntryEach
  <2>1. from[p] = from[q]  BY <1>1, <1>5, <1>6 DEF OneEntryEach
  <2>2. ~(p < q) /\ ~(q < p)  BY <1>5, <1>6, <2>1
  <2> QED BY <1>4, <2>2
<1>8. ASSUME NEW p \in 1..Len(t) PROVE t[p] = <<t[p][1], t[p][2]>>
  <2>1. t[p] = s[from[p]]  BY <1>5
  <2>2. s[from[p]] = <<s[from[p]][1], s[from[p]][2]>>  BY <1>1, <1>6
  <2> QED BY <2>1, <2>2
<1>9. Record(m)  BY <1>2, <1>4, <1>7, <1>8 DEF Record
<1>10. ASSUME NEW k PROVE Has(t, k) <=> \E i \in I : s[i][1] = k
  <2>1. ASSUME Has(t, k) PROVE \E i \in I : s[i][1] = k
    <3>1. PICK p \in 1..Len(t) : t[p][1] = k  BY <2>1 DEF Has
    <3> QED BY <1>5, <1>6, <3>1
  <2>2. ASSUME NEW i \in I, s[i][1] = k PROVE Has(t, k)
    <3>1. PICK p \in 1..Len(t) : from[p] = i  BY <1>5
    <3>2. t[p][1] = k  BY <1>5, <2>2, <3>1
    <3> QED BY <3>2 DEF Has
  <2> QED BY <2>1, <2>2
<1>11. ASSUME NEW k, Has(t, k) PROVE Get(t, k) = Get(s, k)
  <2>1. PICK p \in 1..Len(t) : t[p][1] = k  BY <1>11 DEF Has
  <2>2. t[p] = s[from[p]] /\ from[p] \in 1..Len(s)  BY <1>5, <1>6
  <2>3. Get(t, t[p][1]) = t[p][2]  BY <1>7, GetIs
  <2>4. Get(s, s[from[p]][1]) = s[from[p]][2]  BY <1>1, <2>2, GetIs
  <2> QED BY <2>1, <2>2, <2>3, <2>4
<1> QED BY <1>9, <1>10, <1>11 DEF s, m, EntriesAt

\* The keys a list names are a sequence.
LEMMA NamedKeysIs ==
    ASSUME NEW keys, Whole(keys)
    PROVE  IsSequence(NamedKeys(keys))
<1>1. CASE Kind(keys) = "array"
  <2>1. Len(keys[2]) \in Nat  BY <1>1 DEF Whole, IsSequence
  <2> DEFINE s == NamedKeys(keys)
  <2>2. s = [i \in 1..Len(keys[2]) |-> key_string(keys[2][i])]  BY <1>1 DEF NamedKeys
  <2>3. Len(s) = Len(keys[2]) /\ s = [i \in 1..Len(s) |-> s[i]]  BY <2>1, <2>2
  <2> QED BY <2>1, <2>3 DEF IsSequence
<1>2. CASE Kind(keys) # "array"
  <2>1. NamedKeys(keys) = <<>>  BY <1>2 DEF NamedKeys
  <2> QED BY <2>1 DEF IsSequence
<1> QED BY <1>1, <1>2

\* PICK takes the entries whose keys are named, OMIT the others.
LEMMA PickIs ==
    ASSUME NEW r, Record(r), NEW keys, Whole(keys)
    PROVE  /\ Record(PickOf(r, keys))
           /\ \A k : /\ Has(PickOf(r, keys)[2], k) <=>
                            Has(r[2], k) /\ k \in ToSet(NamedKeys(keys))
                     /\ Has(PickOf(r, keys)[2], k) => Get(PickOf(r, keys)[2], k) = Get(r[2], k)
<1> DEFINE names == NamedKeys(keys)
           I == {i \in 1..Len(names) : Has(r[2], names[i])}
           there == Filtered(NamedKeys(keys), LAMBDA k : Has(PairsOf(r), k))
           pairs == [i \in 1..Len(there) |-> <<there[i], Get(r[2], there[i])>>]
           t == Collected(pairs)
<1>1. PairsOf(r) = r[2]  BY RecordIs
<1>2. PickOf(r, keys) = Rec(t)  BY Zenon DEF PickOf
<1>3. there = Picked(names, {i \in 1..Len(names) : Has(PairsOf(r), names[i])})
    BY Zenon DEF Filtered
<1>4. there = Picked(names, I)  BY <1>1, <1>3
<1> HIDE DEF there
<1>5. names \in Seq(ToSet(names)) /\ Len(names) \in Nat /\ DOMAIN names = 1..Len(names)
    BY NamedKeysIs, SequenceIs
<1> HIDE DEF names
<1>6. Selects(there, names, I)
  <2>1. I \in SUBSET (1..Len(names))  OBVIOUS
  <2> HIDE DEF I
  <2> QED BY <1>4, <1>5, <2>1, PickedSelects
<1>7. PICK from \in [1..Len(there) -> I] :
         /\ \A i \in I : \E p \in 1..Len(there) : from[p] = i
         /\ \A p \in 1..Len(there) : there[p] = names[from[p]]
    BY <1>6 DEF Selects
<1>8. Len(there) \in Nat  BY <1>6 DEF Selects, IsSequence
<1>9. Len(pairs) = Len(there) /\ IsSequence(pairs)
  <2>1. Len(pairs) = Len(there) /\ pairs = [i \in 1..Len(pairs) |-> pairs[i]]  BY <1>8
  <2> QED BY <1>8, <2>1 DEF IsSequence
<1>10. \A p \in 1..Len(there) : pairs[p][1] = there[p] /\ pairs[p][2] = Get(r[2], there[p])
    OBVIOUS
<1> HIDE DEF pairs
<1>11. Collects(t, pairs, Len(pairs)) /\ Record(Rec(t))
    BY <1>9, CollectedHolds, CollectedIsRecord
<1> HIDE DEF t
<1>12. Rec(t)[2] = t  BY DEF Rec
<1>13. ASSUME NEW k, Has(t, k)
       PROVE  Has(r[2], k) /\ k \in ToSet(names) /\ Get(t, k) = Get(r[2], k)
  <2>1. PICK e \in 1..Len(t) : t[e][1] = k  BY <1>13 DEF Has
  <2>2. PICK p \in 1..Len(pairs) : t[e] = <<pairs[p][1], pairs[p][2]>>  BY <1>11 DEF Collects
  <2>3. p \in 1..Len(there) /\ there[p] = k /\ t[e][2] = Get(r[2], k)
      BY <1>9, <1>10, <2>1, <2>2
  <2>4. from[p] \in I /\ names[from[p]] = k  BY <1>7, <2>3
  <2>5. Has(r[2], k) /\ k \in ToSet(names)  BY <1>5, <2>4 DEF ToSet
  <2>6. Get(t, t[e][1]) = t[e][2]  BY <1>11, GetIs DEF Collects
  <2> QED BY <2>1, <2>3, <2>5, <2>6
<1>14. ASSUME NEW k, Has(r[2], k), k \in ToSet(names) PROVE Has(t, k)
  <2>1. PICK i \in 1..Len(names) : names[i] = k  BY <1>5, <1>14 DEF ToSet
  <2>2. i \in I  BY <1>14, <2>1
  <2>3. PICK p \in 1..Len(there) : from[p] = i  BY <1>7, <2>2
  <2>4. pairs[p][1] = k /\ p \in 1..Len(pairs)  BY <1>7, <1>9, <1>10, <2>1, <2>3
  <2>5. \E e \in 1..Len(t) : t[e][1] = pairs[p][1]  BY <1>11, <2>4 DEF Collects
  <2> QED BY <2>4, <2>5 DEF Has
<1> QED BY <1>2, <1>11, <1>12, <1>13, <1>14 DEF names

\* What OMIT leaves: the entries whose keys are not named.
LEMMA OmitIs ==
    ASSUME NEW r, Record(r), NEW keys
    PROVE  /\ Record(OmitOf(r, keys))
           /\ \A k : /\ Has(OmitOf(r, keys)[2], k) <=>
                            Has(r[2], k) /\ k \notin ToSet(NamedKeys(keys))
                     /\ Has(OmitOf(r, keys)[2], k) => Get(OmitOf(r, keys)[2], k) = Get(r[2], k)
<1> DEFINE A == ToSet(NamedKeys(keys))
           I == {i \in 1..Len(r[2]) : r[2][i][1] \notin A}
           t == Picked(r[2], I)
<1>1. PairsOf(r) = r[2]  BY RecordIs
<1>2. OmitOf(r, keys) =
         Rec(Picked(PairsOf(r), {i \in 1..Len(PairsOf(r)) : PairsOf(r)[i][1] \notin A}))
    BY Zenon DEF OmitOf, Filtered
<1>3. OmitOf(r, keys) = Rec(t)  BY <1>1, <1>2
<1> HIDE DEF A
<1>4. I \in SUBSET (1..Len(r[2]))  OBVIOUS
<1>5. \A k : (\E i \in I : r[2][i][1] = k) <=> Has(r[2], k) /\ k \notin A  BY DEF Has
<1>6. t = Picked(r[2], I)  OBVIOUS
<1> HIDE DEF I, t
<1>7. EntriesAt(t, r, I)  BY ONLY Record(r), <1>4, <1>6, SomeEntries
<1>8. Rec(t)[2] = t  BY DEF Rec
<1> QED BY <1>3, <1>5, <1>7, <1>8 DEF A, EntriesAt

\* What PICK takes and what OMIT leaves make up the record again.
LEMMA PickWithOmit ==
    ASSUME NEW r, Record(r), NEW keys, Whole(keys), values_equal(r, r)
    PROVE  values_equal(MergeOf(PickOf(r, keys), OmitOf(r, keys)), r)
<1> DEFINE p == PickOf(r, keys)
           o == OmitOf(r, keys)
           m == MergeOf(p, o)
           A == ToSet(NamedKeys(keys))
<1>1. /\ Record(p)
      /\ \A k : /\ Has(p[2], k) <=> Has(r[2], k) /\ k \in A
                /\ Has(p[2], k) => Get(p[2], k) = Get(r[2], k)
    BY PickIs
<1>2. /\ Record(o)
      /\ \A k : /\ Has(o[2], k) <=> Has(r[2], k) /\ k \notin A
                /\ Has(o[2], k) => Get(o[2], k) = Get(r[2], k)
    BY OmitIs
<1> HIDE DEF p, o, A
<1>3. \A k : /\ Has(m[2], k) <=> Has(p[2], k) \/ Has(o[2], k)
             /\ Get(m[2], k) = IF Has(o[2], k) THEN Get(o[2], k) ELSE Get(p[2], k)
    BY <1>1, <1>2, MergeOverrides
<1>4. Record(m)
  <2>1. IsSequence(p[2] \o o[2])
    <3> DEFINE s == p[2]
               t == o[2]
               S == ToSet(s) \cup ToSet(t)
    <3>1. s \in Seq(ToSet(s)) /\ t \in Seq(ToSet(t))  BY <1>1, <1>2, RecordIs
    <3>2. ToSet(s) \subseteq S /\ ToSet(t) \subseteq S  OBVIOUS
    <3> HIDE DEF S, s, t
    <3>3. s \in Seq(S) /\ t \in Seq(S)  BY <3>1, <3>2
    <3> DEFINE u == s \o t
    <3>4. u \in Seq(S)  BY <3>3
    <3> HIDE DEF u
    <3>5. Len(u) \in Nat /\ u = [i \in 1..Len(u) |-> u[i]]  BY <3>4
    <3>6. IsSequence(u)  BY <3>5 DEF IsSequence
    <3> QED BY <3>6 DEF u, s, t
  <2>2. PairsOf(p) = p[2] /\ PairsOf(o) = o[2]  BY <1>1, <1>2, RecordIs
  <2>3. m = Rec(Collected(p[2] \o o[2]))  BY <2>2 DEF MergeOf
  <2> HIDE DEF m
  <2> QED BY <2>1, <2>3, CollectedIsRecord
<1> HIDE DEF m
<1>5. \A k : ~Has(r[2], k) => Get(r[2], k) = Nil /\ Get(p[2], k) = Nil
  <2> TAKE k
  <2> HAVE ~Has(r[2], k)
  <2>1. ~Has(p[2], k)  BY <1>1
  <2> QED BY <2>1 DEF Get
<1>6. ASSUME NEW k PROVE (Has(m[2], k) <=> Has(r[2], k)) /\ Get(m[2], k) = Get(r[2], k)
    BY <1>1, <1>2, <1>3, <1>5
<1>7. NearlyAlike(m, r)  BY <1>4, <1>6 DEF NearlyAlike
<1> QED BY <1>7, AlikeAreEqual DEF m, p, o

(***************************************************************************)
(* Loops that build one container from the elements of another.            *)
(***************************************************************************)
\* One round: GROUP-BY-FIELD and INVERT-KEYS put a cell into the record so far,
\* SORT-U appends what no element kept is == to.
Round(word, r, c) ==
    CASE word = "group"  -> Put(r, c[1], Arr(Append(Elements(Get(r, c[1])), c[2])))
      [] word = "invert" -> Put(r, c[1], Rec(Put(PairsOf(Get(r, c[1])), c[2], c[3])))
      [] OTHER -> IF \E i \in 1..Len(r) : values_equal(r[i], c) THEN r ELSE Append(r, c)

\* What has been built after each round.
Rounds(word, f, s) ==
    f = [t \in SUBSET (1..Len(s)) |->
           IF t = {} THEN <<>> ELSE Round(word, f[t \ {Max(t)}], s[Max(t)])]

BuiltUp(word, R, s) ==
    /\ R[0] = <<>>
    /\ \A k \in 1..Len(s) : R[k] = Round(word, R[k - 1], s[k])

\* The rounds of a loop over a sequence are defined.
LEMMA RoundsExist ==
    ASSUME NEW word, NEW s, Len(s) \in Nat
    PROVE  \E f : Rounds(word, f, s)
<1> DEFINE In(f, k) == f = [t \in SUBSET (1..k) |->
                              IF t = {} THEN <<>> ELSE Round(word, f[t \ {Max(t)}], s[Max(t)])]
<1>1. \E f : In(f, 0)
  <2> DEFINE f == [t \in SUBSET (1..0) |-> <<>>]
  <2>1. \A t \in SUBSET (1..0) : t = {}  OBVIOUS
  <2>2. In(f, 0)  BY <2>1
  <2> QED BY <2>2
<1>2. ASSUME NEW k \in Nat, \E f : In(f, k) PROVE \E g : In(g, k + 1)
  <2>1. PICK f : In(f, k)  BY <1>2
  <2> DEFINE g == [t \in SUBSET (1..k + 1) |->
                     IF k + 1 \in t THEN Round(word, f[t \ {k + 1}], s[k + 1]) ELSE f[t]]
  <2>2. ASSUME NEW t \in SUBSET (1..k + 1)
        PROVE  g[t] = IF t = {} THEN <<>> ELSE Round(word, g[t \ {Max(t)}], s[Max(t)])
    <3>1. CASE k + 1 \in t
      <4>1. Max(t) = k + 1
        <5>1. \A y \in t : y <= k + 1  OBVIOUS
        <5>2. \A x \in t : (\A y \in t : x >= y) => x = k + 1  BY <3>1, <5>1
        <5> QED BY <3>1, <5>1, <5>2 DEF Max
      <4>2. t \ {k + 1} \in SUBSET (1..k + 1) /\ k + 1 \notin t \ {k + 1}  OBVIOUS
      <4>3. g[t \ {k + 1}] = f[t \ {k + 1}]  BY <4>2
      <4> QED BY <3>1, <4>1, <4>3
    <3>2. CASE k + 1 \notin t
      <4>1. t \in SUBSET (1..k)  BY <3>2
      <4>2. f[t] = IF t = {} THEN <<>> ELSE Round(word, f[t \ {Max(t)}], s[Max(t)])
          BY <2>1, <4>1
      <4>3. t \ {Max(t)} \in SUBSET (1..k + 1) /\ k + 1 \notin t \ {Max(t)}  BY <3>2
      <4>4. g[t \ {Max(t)}] = f[t \ {Max(t)}]  BY <4>3
      <4>5. g[t] = f[t]  BY <3>2
      <4> QED BY <4>2, <4>4, <4>5
    <3> QED BY <3>1, <3>2
  <2>3. g = [t \in SUBSET (1..k + 1) |-> g[t]]  OBVIOUS
  <2> HIDE DEF g
  <2>4. In(g, k + 1)  BY <2>2, <2>3
  <2> QED BY <2>4
<1> DEFINE S == {k \in Nat : \E f : In(f, k)}
<1> HIDE DEF In
<1>3. 0 \in S /\ \A k \in S : k + 1 \in S  BY <1>1, <1>2
<1>4. S \in SUBSET Nat  OBVIOUS
<1> HIDE DEF S
<1>5. S = Nat  BY <1>3, <1>4, Counting
<1>6. \E f : In(f, Len(s))  BY <1>5 DEF S
<1> QED BY <1>6 DEF In, Rounds

\* They go through the sequence one element after the other.
LEMMA RoundsInOrder ==
    ASSUME NEW word, NEW s, Len(s) \in Nat, NEW f, Rounds(word, f, s)
    PROVE  \E R : BuiltUp(word, R, s) /\ f[1..Len(s)] = R[Len(s)]
<1> DEFINE n == Len(s)
           R == [k \in 0..n |-> f[1..k]]
<1>1. n \in Nat  OBVIOUS
<1>2. f = [t \in SUBSET (1..n) |->
             IF t = {} THEN <<>> ELSE Round(word, f[t \ {Max(t)}], s[Max(t)])]
    BY DEF Rounds
<1> HIDE DEF n
<1>3. R[0] = <<>>
  <2>1. 1..0 = {} /\ {} \in SUBSET (1..n)  OBVIOUS
  <2> QED BY <1>1, <1>2, <2>1
<1>4. ASSUME NEW k \in 1..n PROVE R[k] = Round(word, R[k - 1], s[k])
  <2>1. 1..k \in SUBSET (1..n) /\ 1..k # {} /\ Max(1..k) = k /\ (1..k) \ {k} = 1..(k - 1)
      BY <1>1, Prefix
  <2>2. f[1..k] = Round(word, f[(1..k) \ {Max(1..k)}], s[Max(1..k)])  BY <1>2, <2>1
  <2>3. f[1..k] = Round(word, f[1..(k - 1)], s[k])  BY <2>1, <2>2
  <2>4. k \in 0..n /\ k - 1 \in 0..n  BY <1>1
  <2> QED BY <2>3, <2>4
<1>5. R[n] = f[1..n]  BY <1>1
<1> HIDE DEF R
<1>6. BuiltUp(word, R, s)  BY <1>3, <1>4 DEF BuiltUp, n
<1> QED BY <1>5, <1>6 DEF n

\* insert(), seen from outside: the value of one key changes, and the key is there.
PutAt(t, r, k, v) ==
    /\ Record(Rec(t))
    /\ \A j : /\ Has(t, j) <=> j = k \/ Has(r, j)
              /\ Get(t, j) = IF j = k THEN v ELSE Get(r, j)

\* What insert() does to a record.
LEMMA PutChanges ==
    ASSUME NEW r, Record(Rec(r)), NEW k, NEW v, NEW t, t = Put(r, k, v)
    PROVE  PutAt(t, r, k, v)
<1> DEFINE new == <<k, v>>
<1>1. /\ IsSequence(r) /\ OneEntryEach(r) /\ Len(r) \in Nat
      /\ \A i \in 1..Len(r) : r[i] = <<r[i][1], r[i][2]>>
  <2>1. Rec(r)[2] = r  BY DEF Rec
  <2> HIDE DEF Rec
  <2> QED BY <2>1 DEF Record, IsSequence
<1>2. Inserted(t, r, k, v)  BY <1>1, PutIs, Zenon
<1>3. /\ IsSequence(t)
      /\ Has(r, k) => /\ Len(t) = Len(r)
                      /\ \A i \in 1..Len(r) : t[i] = IF r[i][1] = k THEN new ELSE r[i]
      /\ ~Has(r, k) => /\ Len(t) = Len(r) + 1
                       /\ \A i \in 1..Len(r) : t[i] = r[i] /\ r[i][1] # k
                       /\ t[Len(r) + 1] = new
    BY <1>2 DEF Inserted
<1>4. new[1] = k /\ new[2] = v /\ new = <<new[1], new[2]>>  OBVIOUS
<1> HIDE DEF new
<1>5. /\ \A e \in 1..Len(r) : e \in 1..Len(t) /\ t[e][1] = r[e][1]
      /\ \A e \in 1..Len(r) : r[e][1] = k => t[e] = new
      /\ \A e \in 1..Len(r) : r[e][1] # k => t[e] = r[e]
      /\ \A e \in 1..Len(t) : e \in 1..Len(r) \/ (e = Len(r) + 1 /\ t[e] = new /\ ~Has(r, k))
      /\ Has(r, k) => \E e \in 1..Len(r) : r[e][1] = k
      /\ ~Has(r, k) => Len(r) + 1 \in 1..Len(t) /\ t[Len(r) + 1] = new
                       /\ \A e \in 1..Len(r) : r[e][1] # k
    BY <1>1, <1>3, <1>4 DEF Has
<1>6. OneEntryEach(t)
  <2> SUFFICES ASSUME NEW i \in 1..Len(t), NEW j \in 1..Len(t), t[i][1] = t[j][1] PROVE i = j
      BY DEF OneEntryEach
  <2>1. CASE i \in 1..Len(r) /\ j \in 1..Len(r)  BY <2>1, <1>1, <1>5 DEF OneEntryEach
  <2>2. CASE i \notin 1..Len(r) \/ j \notin 1..Len(r)  BY <2>2, <1>4, <1>5
  <2> QED BY <2>1, <2>2
<1>7. \A e \in 1..Len(t) : t[e] = <<t[e][1], t[e][2]>>
  <2> TAKE e \in 1..Len(t)
  <2>1. t[e] = new \/ (e \in 1..Len(r) /\ t[e] = r[e])  BY <1>5
  <2> QED BY <1>1, <1>4, <2>1
<1>8. Record(Rec(t))
  <2> DEFINE m == Rec(t)
  <2>1. m[2] = t /\ m = <<"record", m[2]>>  BY DEF Rec
  <2> HIDE DEF m
  <2>2. Record(m)  BY <1>3, <1>6, <1>7, <2>1 DEF Record
  <2> QED BY <2>2 DEF m
<1>9. \E e \in 1..Len(t) : t[e] = new  BY <1>5
<1>10. Has(t, k) /\ Get(t, k) = v
  <2>1. PICK e \in 1..Len(t) : t[e] = new  BY <1>9
  <2>2. Get(t, t[e][1]) = t[e][2]  BY <1>6, GetIs
  <2>3. t[e][1] = k /\ t[e][2] = v  BY <1>4, <2>1
  <2> QED BY <2>2, <2>3 DEF Has
<1>11. ASSUME NEW j, j # k PROVE (Has(t, j) <=> Has(r, j)) /\ Get(t, j) = Get(r, j)
  <2>1. CASE Has(r, j)
    <3>1. PICK e \in 1..Len(r) : r[e][1] = j  BY <2>1 DEF Has
    <3>2. e \in 1..Len(t) /\ t[e] = r[e]  BY <1>5, <1>11, <3>1
    <3>3. Get(r, r[e][1]) = r[e][2] /\ Get(t, t[e][1]) = t[e][2]  BY <1>1, <1>6, <3>2, GetIs
    <3>4. Has(t, t[e][1])  BY <3>2 DEF Has
    <3> QED BY <2>1, <3>1, <3>2, <3>3, <3>4
  <2>2. CASE ~Has(r, j)
    <3>1. ~Has(t, j)
      <4> SUFFICES ASSUME NEW e \in 1..Len(t), t[e][1] = j PROVE FALSE  BY DEF Has
      <4>1. e \in 1..Len(r) /\ r[e][1] = j  BY <1>4, <1>5, <1>11
      <4> QED BY <2>2, <4>1 DEF Has
    <3> QED BY <2>2, <3>1 DEF Get
  <2> QED BY <2>1, <2>2
<1> QED BY <1>8, <1>10, <1>11 DEF PutAt

\* The loop of flatten: what there is after each of the sequences.
Flattens(f, ss) ==
    /\ \A i \in 1..Len(ss) : f[i] = IF i = 1 THEN ss[i] ELSE f[i - 1] \o ss[i]
    /\ FlattenSeq(ss) = f[Len(ss)]

\* Each sequence is appended to what there is.
LEMMA FlattenRuns ==
    ASSUME NEW X, NEW ss \in Seq(X), Len(ss) # 0
    PROVE  \E f : Flattens(f, ss)
<1> DEFINE n == Len(ss)
           In(f, k) == f = [i \in 1..k |-> IF i = 1 THEN ss[i] ELSE f[i - 1] \o ss[i]]
<1>1. n \in Nat /\ n # 0  OBVIOUS
<1>2. \E f : In(f, 0)
  <2> DEFINE f == [i \in 1..0 |-> <<>>]
  <2>1. f = [i \in 1..0 |-> IF i = 1 THEN ss[i] ELSE f[i - 1] \o ss[i]]  OBVIOUS
  <2> QED BY <2>1
<1>3. ASSUME NEW k \in Nat, \E f : In(f, k) PROVE \E g : In(g, k + 1)
  <2>1. PICK f : In(f, k)  BY <1>3
  <2> DEFINE last == IF k + 1 = 1 THEN ss[k + 1] ELSE f[k] \o ss[k + 1]
             g == [i \in 1..k + 1 |-> IF i = k + 1 THEN last ELSE f[i]]
  <2>2. ASSUME NEW i \in 1..k + 1
        PROVE  g[i] = IF i = 1 THEN ss[i] ELSE g[i - 1] \o ss[i]
    <3>1. CASE i = k + 1
      <4>1. i # 1 => i - 1 \in 1..k + 1 /\ i - 1 = k /\ k # k + 1  BY <3>1
      <4>2. g[i] = last  BY <3>1
      <4>3. i # 1 => g[i - 1] = f[k]
        <5> HIDE DEF last
        <5> QED BY <4>1
      <4> HIDE DEF g
      <4> QED BY <3>1, <4>2, <4>3
    <3>2. CASE i # k + 1
      <4>1. i \in 1..k /\ (i # 1 => i - 1 \in 1..k + 1 /\ i - 1 # k + 1)  BY <3>2
      <4>2. f[i] = IF i = 1 THEN ss[i] ELSE f[i - 1] \o ss[i]  BY <2>1, <4>1
      <4> HIDE DEF last
      <4>3. g[i] = f[i] /\ (i # 1 => g[i - 1] = f[i - 1])  BY <3>2, <4>1
      <4> HIDE DEF g
      <4> QED BY <4>2, <4>3
    <3> QED BY <3>1, <3>2
  <2>3. g = [i \in 1..k + 1 |-> g[i]]  OBVIOUS
  <2> HIDE DEF g
  <2>4. In(g, k + 1)  BY <2>2, <2>3
  <2> QED BY <2>4
<1> DEFINE S == {k \in Nat : \E f : In(f, k)}
           f == CHOOSE f : In(f, n)
<1>4. S = Nat
  <2> HIDE DEF In
  <2>1. 0 \in S /\ \A k \in S : k + 1 \in S  BY <1>2, <1>3
  <2>2. S \in SUBSET Nat  OBVIOUS
  <2> HIDE DEF S
  <2> QED BY <2>1, <2>2, Counting
<1>5. FlattenSeq(ss) = f[n]  BY <1>1, Zenon DEF FlattenSeq
<1>6. In(f, n)
  <2> HIDE DEF In
  <2>1. \E g : In(g, n)  BY <1>1, <1>4
  <2> QED BY <2>1
<1> HIDE DEF f
<1>7. \A i \in 1..n : f[i] = IF i = 1 THEN ss[i] ELSE f[i - 1] \o ss[i]  BY <1>6
<1>8. Flattens(f, ss)  BY <1>5, <1>7 DEF Flattens
<1> QED BY <1>8

\* A sequence of sequences, one after the other: its elements are theirs.
LEMMA FlattenHolds ==
    ASSUME NEW X, NEW ss \in Seq(Seq(X))
    PROVE  /\ FlattenSeq(ss) \in Seq(X)
           /\ \A x : (\E p \in 1..Len(FlattenSeq(ss)) : FlattenSeq(ss)[p] = x) <=>
                     \E i \in 1..Len(ss) : \E j \in 1..Len(ss[i]) : ss[i][j] = x
<1> DEFINE n == Len(ss)
           all == FlattenSeq(ss)
<1>1. n \in Nat /\ \A i \in 1..n : ss[i] \in Seq(X)  OBVIOUS
<1>2. CASE n = 0
  <2>1. ss = <<>>  BY <1>2
  <2>2. all = ss  BY <1>2 DEF FlattenSeq
  <2> HIDE DEF all
  <2>3. all = <<>>  BY <2>1, <2>2
  <2>4. all \in Seq(X) /\ 1..Len(all) = {} /\ 1..Len(ss) = {}  BY <2>1, <2>3
  <2> QED BY <2>4 DEF all
<1>3. CASE n # 0
  <2>1. PICK f : Flattens(f, ss)
    <3>1. ss \in Seq(Seq(X)) /\ Len(ss) # 0  BY <1>3
    <3> QED BY <3>1, FlattenRuns
  <2>2. all = f[n]  BY <2>1 DEF Flattens
  <2>3. \A i \in 1..n : f[i] = IF i = 1 THEN ss[i] ELSE f[i - 1] \o ss[i]  BY <2>1 DEF Flattens
  <2> HIDE DEF all, n
  <2> DEFINE Right(k) ==
                /\ f[k] \in Seq(X)
                /\ \A x : (\E p \in 1..Len(f[k]) : f[k][p] = x) <=>
                          \E i \in 1..k : \E j \in 1..Len(ss[i]) : ss[i][j] = x
             K == {k \in Nat : k + 1 <= n => Right(k + 1)}
  <2>4. 0 \in K
    <3> SUFFICES ASSUME 0 + 1 <= n PROVE Right(0 + 1)
      <4> HIDE DEF Right
      <4> QED OBVIOUS
    <3>1. 1 \in 1..n /\ f[1] = ss[1] /\ 0 + 1 = 1  BY <1>1, <2>3
    <3>2. \A i \in 1..1 : i = 1  OBVIOUS
    <3>3. f[1] \in Seq(X) /\ 1 \in 1..1  BY <1>1, <3>1
    <3>4. Right(1)  BY <3>1, <3>2, <3>3
    <3> HIDE DEF Right
    <3> QED BY <3>1, <3>4
  <2>5. ASSUME NEW k \in K PROVE k + 1 \in K
    <3>1. k \in Nat /\ (k + 1 <= n => Right(k + 1))
      <4> HIDE DEF Right
      <4> QED OBVIOUS
    <3> SUFFICES ASSUME k + 1 + 1 <= n PROVE Right(k + 1 + 1)
      <4> HIDE DEF Right
      <4> QED BY <3>1
    <3> DEFINE m == k + 1
    <3>2. m \in Nat /\ m + 1 \in 1..n /\ m + 1 # 1 /\ m + 1 - 1 = m /\ m <= n  BY <1>1, <3>1
    <3>3. Right(m)
      <4> HIDE DEF Right
      <4> QED BY <3>1, <3>2
    <3> HIDE DEF m
    <3>4. f[m + 1] = f[m] \o ss[m + 1]
      <4>1. ASSUME NEW i \in 1..n, i # 1, i - 1 = m PROVE f[i] = f[m] \o ss[i]
        <5>1. f[i] = f[i - 1] \o ss[i]  BY <2>3, <4>1
        <5> QED BY <4>1, <5>1
      <4> DEFINE j == m + 1
      <4>2. j \in 1..n /\ j # 1 /\ j - 1 = m  BY <3>2
      <4> HIDE DEF j
      <4>3. f[j] = f[m] \o ss[j]  BY ONLY <4>1, <4>2
      <4> QED BY ONLY <4>3, Zenon DEF j
    <3> DEFINE a == f[m]
               b == ss[m + 1]
               c == f[m + 1]
    <3>5. a \in Seq(X) /\ b \in Seq(X) /\ c = a \o b  BY <1>1, <3>2, <3>3, <3>4
    <3>6. 1..(m + 1) = (1..m) \cup {m + 1}  BY <3>2
    <3> HIDE DEF a, b, c
    <3>7. c \in Seq(X) /\ Len(c) = Len(a) + Len(b) /\ Len(a) \in Nat /\ Len(b) \in Nat
          /\ \A i \in 1..Len(a) + Len(b) : c[i] = IF i <= Len(a) THEN a[i] ELSE b[i - Len(a)]
        BY <3>5, ConcatProperties
    <3>8. ASSUME NEW x
          PROVE  (\E p \in 1..Len(c) : c[p] = x) <=>
                    (\E p \in 1..Len(a) : a[p] = x) \/ (\E p \in 1..Len(b) : b[p] = x)
      <4>1. ASSUME NEW p \in 1..Len(c), c[p] = x
            PROVE  (\E q \in 1..Len(a) : a[q] = x) \/ (\E q \in 1..Len(b) : b[q] = x)
        <5>1. CASE p <= Len(a)
          <6>1. p \in 1..Len(a) /\ a[p] = x  BY <3>7, <4>1, <5>1
          <6> QED BY <6>1
        <5>2. CASE ~(p <= Len(a))
          <6>1. p - Len(a) \in 1..Len(b) /\ b[p - Len(a)] = x  BY <3>7, <4>1, <5>2
          <6> QED BY <6>1
        <5> QED BY <5>1, <5>2
      <4>2. ASSUME NEW p \in 1..Len(a), a[p] = x PROVE \E q \in 1..Len(c) : c[q] = x
        <5>1. p \in 1..Len(c) /\ c[p] = x  BY <3>7, <4>2
        <5> QED BY <5>1
      <4>3. ASSUME NEW p \in 1..Len(b), b[p] = x PROVE \E q \in 1..Len(c) : c[q] = x
        <5> DEFINE q == Len(a) + p
        <5>1. q \in 1..Len(c) /\ ~(q <= Len(a)) /\ q - Len(a) = p  BY <3>7
        <5> HIDE DEF q
        <5>2. c[q] = x  BY <3>7, <4>3, <5>1
        <5> QED BY <5>1, <5>2
      <4> QED BY <4>1, <4>2, <4>3
    <3>9. \A x : (\E p \in 1..Len(c) : c[p] = x) <=>
                 \E i \in 1..m + 1 : \E j \in 1..Len(ss[i]) : ss[i][j] = x
      <4>1. \A x : (\E p \in 1..Len(a) : a[p] = x) <=>
                   \E i \in 1..m : \E j \in 1..Len(ss[i]) : ss[i][j] = x
          BY <3>3 DEF a
      <4>2. \A x : (\E p \in 1..Len(b) : b[p] = x) <=>
                   \E j \in 1..Len(ss[m + 1]) : ss[m + 1][j] = x
          BY DEF b
      <4>3. ASSUME NEW x
            PROVE  (\E i \in 1..m + 1 : \E j \in 1..Len(ss[i]) : ss[i][j] = x) <=>
                      \/ \E i \in 1..m : \E j \in 1..Len(ss[i]) : ss[i][j] = x
                      \/ \E j \in 1..Len(ss[m + 1]) : ss[m + 1][j] = x
          BY ONLY <3>6, Zenon
      <4> QED BY ONLY <3>8, <4>1, <4>2, <4>3
    <3>10. Right(m + 1)  BY <3>7, <3>9 DEF c
    <3> HIDE DEF Right
    <3> QED BY <3>10 DEF m
  <2>6. K = Nat
    <3>1. K \in SUBSET Nat
      <4> HIDE DEF Right
      <4> QED OBVIOUS
    <3> HIDE DEF K
    <3> QED BY <2>4, <2>5, <3>1, Counting
  <2>7. Right(n)
    <3> HIDE DEF Right
    <3>1. n - 1 \in Nat /\ n - 1 + 1 = n /\ n <= n  BY <1>1, <1>3 DEF n
    <3>2. n - 1 \in K  BY <2>6, <3>1
    <3> QED BY <3>1, <3>2
  <2> QED BY <2>2, <2>7 DEF all, n
<1> QED BY <1>2, <1>3

\* One after the other, sequences of one element each.
LEMMA FlattenSingles ==
    ASSUME NEW X, NEW ss \in Seq(Seq(X)), \A i \in 1..Len(ss) : Len(ss[i]) = 1
    PROVE  FlattenSeq(ss) = [i \in 1..Len(ss) |-> ss[i][1]]
<1> DEFINE n == Len(ss)
           all == FlattenSeq(ss)
<1>1. n \in Nat /\ \A i \in 1..n : ss[i] \in Seq(X) /\ Len(ss[i]) = 1  OBVIOUS
<1>2. CASE n = 0
  <2>1. ss = <<>>  BY <1>2
  <2>2. all = ss  BY <1>2 DEF FlattenSeq
  <2>3. [i \in 1..Len(ss) |-> ss[i][1]] = <<>>  BY <1>2
  <2> QED BY <2>1, <2>2, <2>3
<1>3. CASE n # 0
  <2>1. PICK f : Flattens(f, ss)
    <3>1. ss \in Seq(Seq(X)) /\ Len(ss) # 0  BY <1>3
    <3> QED BY <3>1, FlattenRuns
  <2>2. all = f[n]  BY <2>1 DEF Flattens
  <2>3. \A i \in 1..n : f[i] = IF i = 1 THEN ss[i] ELSE f[i - 1] \o ss[i]  BY <2>1 DEF Flattens
  <2> HIDE DEF all, n
  <2> DEFINE Right(k) == f[k] \in Seq(X) /\ Len(f[k]) = k /\ \A p \in 1..k : f[k][p] = ss[p][1]
             K == {k \in Nat : k + 1 <= n => Right(k + 1)}
  <2>4. 0 \in K
    <3>1. 1 \in 1..n /\ f[1] = ss[1]  BY <1>1, <1>3, <2>3 DEF n
    <3>2. \A p \in 1..1 : p = 1  OBVIOUS
    <3>3. Right(1)  BY <1>1, <3>1, <3>2
    <3> HIDE DEF Right
    <3>4. 0 + 1 = 1  OBVIOUS
    <3> QED BY <3>3, <3>4
  <2>5. ASSUME NEW k \in K PROVE k + 1 \in K
    <3>1. k \in Nat /\ (k + 1 <= n => Right(k + 1))
      <4> HIDE DEF Right
      <4> QED OBVIOUS
    <3> SUFFICES ASSUME k + 1 + 1 <= n PROVE Right(k + 1 + 1)
      <4> HIDE DEF Right
      <4> QED BY <3>1
    <3> DEFINE m == k + 1
    <3>2. m \in Nat /\ m + 1 \in 1..n /\ m + 1 # 1 /\ m + 1 - 1 = m /\ m <= n  BY <1>1, <3>1
    <3>3. Right(m)
      <4> HIDE DEF Right
      <4> QED BY <3>1, <3>2
    <3> HIDE DEF m
    <3> DEFINE a == f[m]
               b == ss[m + 1]
               c == f[m + 1]
    <3>4. a \in Seq(X) /\ b \in Seq(X) /\ c = a \o b /\ Len(b) = 1
      <4>1. ASSUME NEW i \in 1..n, i # 1, i - 1 = m PROVE f[i] = f[m] \o ss[i]
        <5>1. f[i] = f[i - 1] \o ss[i]  BY <2>3, <4>1
        <5> QED BY <4>1, <5>1
      <4> DEFINE j == m + 1
      <4>2. j \in 1..n /\ j # 1 /\ j - 1 = m  BY <3>2
      <4> HIDE DEF j
      <4>3. f[j] = f[m] \o ss[j]  BY ONLY <4>1, <4>2
      <4>4. f[m + 1] = f[m] \o ss[m + 1]  BY ONLY <4>3, Zenon DEF j
      <4> QED BY <1>1, <3>2, <3>3, <4>4
    <3>5. Len(a) = m /\ \A p \in 1..m : a[p] = ss[p][1]  BY <3>3
    <3>6. b[1] = ss[m + 1][1]  OBVIOUS
    <3> HIDE DEF a, b, c
    <3>7. c \in Seq(X) /\ Len(c) = m + 1
          /\ \A i \in 1..m + 1 : c[i] = IF i <= m THEN a[i] ELSE b[i - m]
      <4>1. c \in Seq(X) /\ Len(c) = Len(a) + Len(b)
            /\ \A i \in 1..Len(a) + Len(b) : c[i] = IF i <= Len(a) THEN a[i] ELSE b[i - Len(a)]
          BY <3>4, ConcatProperties
      <4>2. Len(a) = m /\ Len(b) = 1  BY <3>4, <3>5
      <4> QED BY ONLY <4>1, <4>2
    <3>8. ASSUME NEW p \in 1..m + 1 PROVE c[p] = ss[p][1]
      <4>1. CASE p <= m
        <5>1. p \in 1..m  BY <3>2, <4>1
        <5> QED BY <3>5, <3>7, <4>1, <5>1
      <4>2. CASE ~(p <= m)
        <5>1. p = m + 1 /\ p - m = 1  BY <3>2, <4>2
        <5> QED BY <3>6, <3>7, <4>2, <5>1
      <4> QED BY <4>1, <4>2
    <3>9. Right(m + 1)  BY <3>7, <3>8 DEF c
    <3> HIDE DEF Right
    <3> QED BY <3>9 DEF m
  <2>6. K = Nat
    <3>1. K \in SUBSET Nat
      <4> HIDE DEF Right
      <4> QED OBVIOUS
    <3> HIDE DEF K
    <3> QED BY <2>4, <2>5, <3>1, Counting
  <2>7. Right(n)
    <3> HIDE DEF Right
    <3>1. n - 1 \in Nat /\ n - 1 + 1 = n /\ n <= n  BY <1>1, <1>3 DEF n
    <3>2. n - 1 \in K  BY <2>6, <3>1
    <3> QED BY <3>1, <3>2
  <2>8. all = [i \in 1..n |-> all[i]]  BY <2>2, <2>7
  <2>9. \A i \in 1..n : all[i] = ss[i][1]  BY <2>2, <2>7
  <2> HIDE DEF Right
  <2>10. all = [i \in 1..n |-> ss[i][1]]  BY <2>8, <2>9
  <2> QED BY <2>10 DEF all, n
<1> QED BY <1>2, <1>3

(***************************************************************************)
(* Two inversions of the keys.                                             *)
(***************************************************************************)
\* A record of records: none of them is empty.
Table(s) ==
    /\ Record(Rec(s))
    /\ \A a : Has(s, a) => Record(Get(s, a)) /\ \E b : Has(Get(s, a)[2], b)

\* An entry of it, and what it holds.
HasCell(s, a, b) == Has(s, a) /\ Has(Get(s, a)[2], b)
CellAt(s, a, b)  == Get(Get(s, a)[2], b)

\* A table of the first n cells.
Tabled(s, cells, n) ==
    /\ Table(s)
    /\ \A a, b : HasCell(s, a, b) <=> \E i \in 1..n : cells[i][1] = a /\ cells[i][2] = b
    /\ \A a, b : HasCell(s, a, b) =>
          \E i \in 1..n : /\ cells[i][1] = a /\ cells[i][2] = b
                          /\ CellAt(s, a, b) = cells[i][3]

\* A cell more is put into the table.
LEMMA OneCellMore ==
    ASSUME NEW s, NEW cells, NEW n, n \in Nat, Tabled(s, cells, n),
           NEW t, t = Round("invert", s, cells[n + 1])
    PROVE  Tabled(t, cells, n + 1)
<1> DEFINE x == cells[n + 1][1]
           y == cells[n + 1][2]
           v == cells[n + 1][3]
           old == PairsOf(Get(s, x))
           row == Put(old, y, v)
<1>1. t = Put(s, x, Rec(row))  BY DEF Round
<1>2. Table(s)  BY DEF Tabled
<1>3. Record(Rec(s))  BY <1>2 DEF Table
<1> HIDE DEF x, y, v
<1>4. Record(Rec(old)) /\ \A b : Has(old, b) <=> HasCell(s, x, b)
  <2>1. CASE Has(s, x)
    <3>1. Record(Get(s, x))  BY <1>2, <2>1 DEF Table
    <3>2. old = Get(s, x)[2] /\ Rec(old) = Get(s, x)  BY <3>1, RecordIs
    <3> HIDE DEF old
    <3> QED BY <2>1, <3>1, <3>2 DEF HasCell
  <2>2. CASE ~Has(s, x)
    <3>1. Get(s, x) = Nil  BY <2>2 DEF Get
    <3>2. old = <<>>  BY <3>1 DEF PairsOf, Nil, Kind
    <3> HIDE DEF old
    <3>3. Len(old) = 0 /\ old = [i \in 1..0 |-> 0]  BY <3>2
    <3>4. \A b : ~Has(old, b)  BY <3>3 DEF Has
    <3>5. Record(Rec(old))
      <4> DEFINE m == Rec(old)
      <4>1. m[2] = old /\ m = <<"record", m[2]>>  BY DEF Rec
      <4> HIDE DEF m
      <4>2. IsSequence(old)  BY <3>2 DEF IsSequence
      <4>3. Record(m)  BY <3>3, <4>1, <4>2 DEF Record, OneEntryEach
      <4> QED BY <4>3 DEF m
    <3> QED BY <2>2, <3>4, <3>5 DEF HasCell
  <2> QED BY <2>1, <2>2
<1>5. \A b : HasCell(s, x, b) => Get(old, b) = CellAt(s, x, b)
  <2> SUFFICES ASSUME NEW b, HasCell(s, x, b) PROVE Get(old, b) = CellAt(s, x, b)  OBVIOUS
  <2>1. Record(Get(s, x))  BY <1>2 DEF Table, HasCell
  <2>2. old = Get(s, x)[2]  BY <2>1, RecordIs
  <2> QED BY <2>2 DEF CellAt
<1> HIDE DEF old
<1>6. PutAt(row, old, y, v)
  <2>1. row = Put(old, y, v)  OBVIOUS
  <2> HIDE DEF row
  <2> QED BY ONLY <1>4, <2>1, PutChanges
<1> HIDE DEF row
<1> DEFINE new == Rec(row)
<1>7. new[2] = row /\ Record(new)  BY <1>6 DEF Rec, PutAt
<1>8. PutAt(t, s, x, new)
  <2>1. t = Put(s, x, new)  BY <1>1
  <2> HIDE DEF new
  <2> QED BY ONLY <1>3, <2>1, PutChanges
<1> HIDE DEF new
<1>9. /\ Has(t, x) /\ Get(t, x)[2] = row /\ Record(Get(t, x))
      /\ \A a : a # x => (Has(t, a) <=> Has(s, a)) /\ Get(t, a) = Get(s, a)
      /\ Record(Rec(t))
    BY <1>7, <1>8 DEF PutAt
<1>10. \A b : (Has(row, b) <=> b = y \/ Has(old, b))
              /\ Get(row, b) = IF b = y THEN v ELSE Get(old, b)
    BY <1>6 DEF PutAt
<1>11. /\ \A a, b : a # x => /\ HasCell(t, a, b) <=> HasCell(s, a, b)
                             /\ CellAt(t, a, b) = CellAt(s, a, b)
       /\ \A b : b # y => /\ HasCell(t, x, b) <=> HasCell(s, x, b)
                          /\ HasCell(s, x, b) => CellAt(t, x, b) = CellAt(s, x, b)
       /\ HasCell(t, x, y) /\ CellAt(t, x, y) = v
  <2>1. \A b : HasCell(t, x, b) <=> Has(row, b)  BY <1>9 DEF HasCell
  <2>2. \A b : CellAt(t, x, b) = Get(row, b)  BY <1>9 DEF CellAt
  <2>3. \A a, b : a # x => /\ HasCell(t, a, b) <=> HasCell(s, a, b)
                           /\ CellAt(t, a, b) = CellAt(s, a, b)
      BY <1>9 DEF HasCell, CellAt
  <2> QED BY <1>4, <1>5, <1>10, <2>1, <2>2, <2>3
<1>12. Table(t)
  <2>1. ASSUME NEW a, Has(t, a) PROVE Record(Get(t, a)) /\ \E b : Has(Get(t, a)[2], b)
    <3>1. CASE a = x
      <4>1. Has(Get(t, x)[2], y)  BY <1>9, <1>10
      <4> QED BY <1>9, <3>1, <4>1
    <3>2. CASE a # x
      <4>1. Has(s, a) /\ Get(t, a) = Get(s, a)  BY <1>9, <2>1, <3>2
      <4> QED BY <1>2, <4>1 DEF Table
    <3> QED BY <3>1, <3>2
  <2> QED BY <1>9, <2>1 DEF Table
<1>13. n + 1 \in 1..n + 1 /\ \A i \in 1..n : i \in 1..n + 1  OBVIOUS
<1>14. \A i \in 1..n + 1 : i \in 1..n \/ i = n + 1  OBVIOUS
<1>15. /\ \A a, b : HasCell(s, a, b) <=> \E i \in 1..n : cells[i][1] = a /\ cells[i][2] = b
       /\ \A a, b : HasCell(s, a, b) =>
             \E i \in 1..n : /\ cells[i][1] = a /\ cells[i][2] = b
                             /\ CellAt(s, a, b) = cells[i][3]
    BY DEF Tabled
<1>16. cells[n + 1][1] = x /\ cells[n + 1][2] = y /\ cells[n + 1][3] = v  BY DEF x, y, v
<1>17. ASSUME NEW a, NEW b
       PROVE  HasCell(t, a, b) <=> \E i \in 1..n + 1 : cells[i][1] = a /\ cells[i][2] = b
  <2>1. CASE a = x /\ b = y  BY <1>11, <1>13, <1>16, <2>1
  <2>2. CASE ~(a = x /\ b = y)
    <3>1. HasCell(t, a, b) <=> HasCell(s, a, b)  BY <1>11, <2>2
    <3> QED BY <1>13, <1>14, <1>15, <1>16, <2>2, <3>1
  <2> QED BY <2>1, <2>2
<1>18. ASSUME NEW a, NEW b, HasCell(t, a, b)
       PROVE  \E i \in 1..n + 1 : /\ cells[i][1] = a /\ cells[i][2] = b
                                  /\ CellAt(t, a, b) = cells[i][3]
  <2>1. CASE a = x /\ b = y  BY <1>11, <1>13, <1>16, <2>1
  <2>2. CASE ~(a = x /\ b = y)
    <3>1. HasCell(s, a, b) /\ CellAt(t, a, b) = CellAt(s, a, b)  BY <1>11, <1>18, <2>2
    <3> QED BY <1>13, <1>15, <3>1
  <2> QED BY <2>1, <2>2
<1> QED BY <1>12, <1>17, <1>18 DEF Tabled

\* The cells of a record of records, by inner and outer key.
CellsOf(r, i) ==
    [j \in 1..Len(PairsOf(r[2][i][2])) |->
        <<r[2][i][2][2][j][1], r[2][i][1], r[2][i][2][2][j][2]>>]

\* The cells of one outer key.
LEMMA CellsAre ==
    ASSUME NEW r, NEW i, Len(PairsOf(r[2][i][2])) \in Nat
    PROVE  /\ Len(CellsOf(r, i)) = Len(PairsOf(r[2][i][2]))
           /\ \A j \in 1..Len(PairsOf(r[2][i][2])) : CellsOf(r, i)[j] =
                 <<r[2][i][2][2][j][1], r[2][i][1], r[2][i][2][2][j][2]>>
<1> DEFINE cell(j) == <<r[2][i][2][2][j][1], r[2][i][1], r[2][i][2][2][j][2]>>
           m == Len(PairsOf(r[2][i][2]))
<1>1. CellsOf(r, i) = [j \in 1..m |-> cell(j)]  BY DEF CellsOf
<1>2. m \in Nat  OBVIOUS
<1> HIDE DEF cell, m
<1>3. Len(CellsOf(r, i)) = m /\ \A j \in 1..m : CellsOf(r, i)[j] = cell(j)  BY <1>1, <1>2
<1> QED BY <1>3 DEF cell, m

\* t is the table of the cells of r.
IsCell(r, c) ==
    \E i \in 1..Len(r[2]) : \E j \in 1..Len(PairsOf(r[2][i][2])) :
        <<r[2][i][2][2][j][1], r[2][i][1], r[2][i][2][2][j][2]>> = c

Inverts(t, cells, r) ==
    /\ t = Rec(t[2]) /\ Len(cells) \in Nat /\ Tabled(t[2], cells, Len(cells))
    /\ \A c : (\E p \in 1..Len(cells) : cells[p] = c) <=> IsCell(r, c)

\* INVERT-KEYS puts the cells of a record into a table, one after the other.
LEMMA CellsMakeTable ==
    ASSUME NEW r, Record(r), \A i \in 1..Len(r[2]) : Len(PairsOf(r[2][i][2])) \in Nat
    PROVE  \E cells : Inverts(InvertKeys(r), cells, r)
<1> DEFINE n == Len(r[2])
           parts == [i \in 1..n |-> CellsOf(r, i)]
           X == UNION {{CellsOf(r, i)[j] : j \in 1..Len(PairsOf(r[2][i][2]))} : i \in 1..n}
           cells == FlattenSeq(parts)
           fold == FoldLeft(LAMBDA out, c :
                        Put(out, c[1], Rec(Put(PairsOf(Get(out, c[1])), c[2], c[3]))),
                     <<>>, cells)
           In(f) == f = [t \in SUBSET (1..Len(cells)) |->
                           IF t = {} THEN <<>>
                           ELSE Put(f[t \ {Max(t)}], cells[Max(t)][1],
                                    Rec(Put(PairsOf(Get(f[t \ {Max(t)}], cells[Max(t)][1])),
                                            cells[Max(t)][2], cells[Max(t)][3])))]
           iter == CHOOSE f : In(f)
<1>1. n \in Nat /\ PairsOf(r) = r[2] /\ Kind(r) = "record"  BY RecordIs
<1>2. \A i \in 1..n : Len(PairsOf(r[2][i][2])) \in Nat  OBVIOUS
<1>3. parts \in Seq(Seq(X)) /\ Len(parts) = n
  <2>1. ASSUME NEW i \in 1..n PROVE CellsOf(r, i) \in Seq(X)
    <3> DEFINE m == Len(PairsOf(r[2][i][2]))
    <3>1. m \in Nat  BY <1>2
    <3>2. CellsOf(r, i) = [j \in 1..m |-> CellsOf(r, i)[j]]  BY DEF CellsOf
    <3>3. \A j \in 1..m : CellsOf(r, i)[j] \in X  OBVIOUS
    <3> HIDE DEF X, m
    <3>4. CellsOf(r, i) \in [1..m -> X]  BY <3>2, <3>3
    <3> QED BY <3>1, <3>4, SeqDef
  <2> HIDE DEF X
  <2>2. parts \in [1..n -> Seq(X)]  BY <2>1
  <2>3. parts \in Seq(Seq(X))  BY <1>1, <2>2, SeqDef
  <2> QED BY <1>1, <2>3
<1>4. \A i \in 1..n : parts[i] = CellsOf(r, i)  OBVIOUS
<1>5. InvertKeys(r) = Rec(fold)
  <2>1. InvertKeys(r) = IF Kind(r) # "record" THEN r
          ELSE Rec(FoldLeft(LAMBDA out, c :
                    Put(out, c[1], Rec(Put(PairsOf(Get(out, c[1])), c[2], c[3]))), <<>>,
                 FlattenSeq([i \in 1..Len(PairsOf(r)) |-> CellsOf(r, i)])))
      BY Zenon DEF InvertKeys, CellsOf
  <2>2. [i \in 1..Len(PairsOf(r)) |-> CellsOf(r, i)] = parts  BY <1>1
  <2>3. FlattenSeq([i \in 1..Len(PairsOf(r)) |-> CellsOf(r, i)]) = cells  BY <2>2, Zenon
  <2> HIDE DEF cells
  <2> QED BY <1>1, <2>1, <2>3, Zenon
<1> HIDE DEF n, X, parts
<1>6. /\ cells \in Seq(X)
      /\ \A c : (\E p \in 1..Len(cells) : cells[p] = c) <=>
                \E i \in 1..Len(parts) : \E j \in 1..Len(parts[i]) : parts[i][j] = c
    BY <1>3, FlattenHolds
<1> HIDE DEF cells
<1>7. Len(cells) \in Nat /\ DOMAIN cells = 1..Len(cells)  BY <1>6
<1>8. fold = iter[1..Len(cells)]
    BY <1>7, Zenon DEF FoldLeft, MapThenFoldSet
<1>9. \A f : In(f) <=> Rounds("invert", f, cells)
  <2>1. \A s, c : Round("invert", s, c) =
                     Put(s, c[1], Rec(Put(PairsOf(Get(s, c[1])), c[2], c[3])))
      BY DEF Round
  <2> TAKE f
  <2> DEFINE put(s, c) == Put(s, c[1], Rec(Put(PairsOf(Get(s, c[1])), c[2], c[3])))
             one(t) == IF t = {} THEN <<>> ELSE put(f[t \ {Max(t)}], cells[Max(t)])
             two(t) == IF t = {} THEN <<>> ELSE Round("invert", f[t \ {Max(t)}], cells[Max(t)])
  <2>2. \A s, c : Round("invert", s, c) = put(s, c)  BY <2>1
  <2> HIDE DEF put
  <2>3. \A t : one(t) = two(t)  BY <2>2
  <2> HIDE DEF one, two
  <2>4. [t \in SUBSET (1..Len(cells)) |-> one(t)] = [t \in SUBSET (1..Len(cells)) |-> two(t)]
      BY <2>3
  <2>5. In(f) <=> f = [t \in SUBSET (1..Len(cells)) |-> one(t)]  BY Zenon DEF one, put
  <2>6. Rounds("invert", f, cells) <=> f = [t \in SUBSET (1..Len(cells)) |-> two(t)]
      BY Zenon DEF Rounds, two
  <2> QED BY <2>4, <2>5, <2>6
<1>10. Rounds("invert", iter, cells)
  <2> HIDE DEF In
  <2>1. \E f : In(f)  BY <1>7, <1>9, RoundsExist
  <2> QED BY <1>9, <2>1
<1> HIDE DEF iter, In, fold
<1>11. PICK R : BuiltUp("invert", R, cells) /\ fold = R[Len(cells)]
    BY <1>7, <1>8, <1>10, RoundsInOrder
<1> DEFINE K == {k \in Nat : k <= Len(cells) => Tabled(R[k], cells, k)}
<1>12. 0 \in K
  <2>1. R[0] = <<>>  BY <1>11 DEF BuiltUp
  <2> DEFINE s == R[0]
  <2>2. Len(s) = 0 /\ IsSequence(s)  BY <2>1 DEF IsSequence
  <2> HIDE DEF s
  <2>3. \A a : ~Has(s, a)  BY <2>2 DEF Has
  <2>4. Record(Rec(s))
    <3> DEFINE m == Rec(s)
    <3>1. m[2] = s /\ m = <<"record", m[2]>>  BY DEF Rec
    <3> HIDE DEF m
    <3>2. Record(m)  BY <2>2, <3>1 DEF Record, OneEntryEach
    <3> QED BY <3>2 DEF m
  <2>5. Tabled(s, cells, 0)  BY <2>3, <2>4 DEF Tabled, Table, HasCell
  <2> QED BY <2>5 DEF s
<1>13. ASSUME NEW k \in K PROVE k + 1 \in K
  <2> SUFFICES ASSUME k + 1 <= Len(cells) PROVE Tabled(R[k + 1], cells, k + 1)  OBVIOUS
  <2>1. k \in Nat /\ Tabled(R[k], cells, k) /\ k + 1 \in 1..Len(cells) /\ k + 1 - 1 = k
      BY <1>7
  <2>2. R[k + 1] = Round("invert", R[k], cells[k + 1])
    <3>1. R[k + 1] = Round("invert", R[k + 1 - 1], cells[k + 1])  BY <1>11, <2>1 DEF BuiltUp
    <3> QED BY <2>1, <3>1
  <2>3. k \in Nat  BY <2>1
  <2> QED BY <2>1, <2>2, <2>3, OneCellMore
<1>14. Tabled(fold, cells, Len(cells))
  <2>1. K \in SUBSET Nat  OBVIOUS
  <2>2. Len(cells) <= Len(cells)  BY <1>7
  <2>3. \A k : k \in K => k \in Nat /\ (k <= Len(cells) => Tabled(R[k], cells, k))  OBVIOUS
  <2> HIDE DEF K
  <2>4. K = Nat  BY <1>12, <1>13, <2>1, Counting
  <2> QED BY <1>7, <1>11, <2>2, <2>3, <2>4
<1>15. Rec(fold)[2] = fold  BY DEF Rec
<1>16. \A i \in 1..n :
          /\ Len(parts[i]) = Len(PairsOf(r[2][i][2]))
          /\ \A j \in 1..Len(PairsOf(r[2][i][2])) : parts[i][j] =
                <<r[2][i][2][2][j][1], r[2][i][1], r[2][i][2][2][j][2]>>
    BY ONLY <1>2, <1>4, CellsAre
<1>17. ASSUME NEW c
       PROVE  (\E p \in 1..Len(cells) : cells[p] = c) <=>
                 \E i \in 1..n : \E j \in 1..Len(PairsOf(r[2][i][2])) :
                    <<r[2][i][2][2][j][1], r[2][i][1], r[2][i][2][2][j][2]>> = c
  <2>1. (\E p \in 1..Len(cells) : cells[p] = c) <=>
           \E i \in 1..Len(parts) : \E j \in 1..Len(parts[i]) : parts[i][j] = c
      BY <1>6
  <2>2. \A i \in 1..n :
           (\E j \in 1..Len(parts[i]) : parts[i][j] = c) <=>
           \E j \in 1..Len(PairsOf(r[2][i][2])) :
              <<r[2][i][2][2][j][1], r[2][i][1], r[2][i][2][2][j][2]>> = c
    <3> TAKE i \in 1..n
    <3>1. Len(parts[i]) = Len(PairsOf(r[2][i][2]))  BY <1>16
    <3>2. \A j \in 1..Len(PairsOf(r[2][i][2])) : parts[i][j] =
             <<r[2][i][2][2][j][1], r[2][i][1], r[2][i][2][2][j][2]>>
        BY <1>16
    <3> QED BY ONLY <3>1, <3>2
  <2> QED BY ONLY <1>3, <2>1, <2>2
<1>18. \A c : (\E p \in 1..Len(cells) : cells[p] = c) <=> IsCell(r, c)
    BY <1>17, Zenon DEF IsCell, n
<1>19. Inverts(Rec(fold), cells, r)  BY ONLY <1>7, <1>14, <1>15, <1>18 DEF Inverts
<1> QED BY <1>5, <1>19

\* INVERT-KEYS exchanges the two keys of every cell.
LEMMA InvertIs ==
    ASSUME NEW r, Record(r), Table(r[2])
    PROVE  /\ InvertKeys(r) = Rec(InvertKeys(r)[2]) /\ Table(InvertKeys(r)[2])
           /\ \A a, b : /\ HasCell(InvertKeys(r)[2], a, b) <=> HasCell(r[2], b, a)
                        /\ HasCell(r[2], b, a) =>
                              CellAt(InvertKeys(r)[2], a, b) = CellAt(r[2], b, a)
<1> DEFINE n == Len(r[2])
           s == InvertKeys(r)[2]
<1>1. OneEntryEach(r[2])  BY DEF Record
<1>2. \A i \in 1..n : /\ Get(r[2], r[2][i][1]) = r[2][i][2] /\ Record(r[2][i][2])
                      /\ PairsOf(r[2][i][2]) = r[2][i][2][2] /\ Len(r[2][i][2][2]) \in Nat
  <2> TAKE i \in 1..n
  <2>1. Get(r[2], r[2][i][1]) = r[2][i][2]  BY <1>1, GetIs
  <2>2. Has(r[2], r[2][i][1])  BY DEF Has
  <2>3. Record(r[2][i][2])  BY <2>1, <2>2 DEF Table
  <2> QED BY <2>1, <2>3, RecordIs
<1>3. \A i \in 1..Len(r[2]) : Len(PairsOf(r[2][i][2])) \in Nat  BY <1>2
<1>4. PICK cells : Inverts(InvertKeys(r), cells, r)  BY <1>3, CellsMakeTable
<1>5. \A c : (\E p \in 1..Len(cells) : cells[p] = c) <=>
             \E i \in 1..n : \E j \in 1..Len(r[2][i][2][2]) :
                <<r[2][i][2][2][j][1], r[2][i][1], r[2][i][2][2][j][2]>> = c
  <2> TAKE c
  <2>1. (\E p \in 1..Len(cells) : cells[p] = c) <=> IsCell(r, c)  BY <1>4 DEF Inverts
  <2>2. IsCell(r, c) <=>
           \E i \in 1..n : \E j \in 1..Len(r[2][i][2][2]) :
              <<r[2][i][2][2][j][1], r[2][i][1], r[2][i][2][2][j][2]>> = c
      BY <1>2 DEF IsCell
  <2> QED BY <2>1, <2>2
<1> HIDE DEF n, s
<1>6. \A a, b, v : (\E p \in 1..Len(cells) : cells[p] = <<a, b, v>>) <=>
                       HasCell(r[2], b, a) /\ CellAt(r[2], b, a) = v
  <2> SUFFICES ASSUME NEW a, NEW b, NEW v
               PROVE  (\E p \in 1..Len(cells) : cells[p] = <<a, b, v>>) <=>
                         HasCell(r[2], b, a) /\ CellAt(r[2], b, a) = v
      OBVIOUS
  <2>1. (\E p \in 1..Len(cells) : cells[p] = <<a, b, v>>) <=>
          \E i \in 1..n : \E j \in 1..Len(r[2][i][2][2]) :
             <<r[2][i][2][2][j][1], r[2][i][1], r[2][i][2][2][j][2]>> = <<a, b, v>>
      BY <1>5
  <2>2. ASSUME NEW i \in 1..n, NEW j \in 1..Len(r[2][i][2][2]),
               r[2][i][2][2][j][1] = a, r[2][i][1] = b, r[2][i][2][2][j][2] = v
        PROVE  HasCell(r[2], b, a) /\ CellAt(r[2], b, a) = v
    <3>1. Get(r[2], b) = r[2][i][2] /\ Record(r[2][i][2])  BY <1>2, <2>2
    <3>2. Has(r[2], b)  BY <2>2 DEF Has, n
    <3>3. Has(r[2][i][2][2], a)  BY <2>2 DEF Has
    <3>4. Get(r[2][i][2][2], r[2][i][2][2][j][1]) = r[2][i][2][2][j][2]
        BY <3>1, GetIs DEF Record
    <3> QED BY <2>2, <3>1, <3>2, <3>3, <3>4 DEF HasCell, CellAt
  <2>3. ASSUME HasCell(r[2], b, a), CellAt(r[2], b, a) = v
        PROVE  \E i \in 1..n : \E j \in 1..Len(r[2][i][2][2]) :
                  r[2][i][2][2][j][1] = a /\ r[2][i][1] = b /\ r[2][i][2][2][j][2] = v
    <3>1. PICK i \in 1..n : r[2][i][1] = b  BY <2>3 DEF HasCell, Has, n
    <3>2. Get(r[2], b) = r[2][i][2] /\ Record(r[2][i][2])  BY <1>2, <3>1
    <3>3. Has(r[2][i][2][2], a)  BY <2>3, <3>2 DEF HasCell
    <3>4. PICK j \in 1..Len(r[2][i][2][2]) : r[2][i][2][2][j][1] = a  BY <3>3 DEF Has
    <3>5. Get(r[2][i][2][2], r[2][i][2][2][j][1]) = r[2][i][2][2][j][2]
        BY <3>2, GetIs DEF Record
    <3>6. v = Get(r[2][i][2][2], a)  BY <2>3, <3>2 DEF CellAt
    <3> QED BY <3>1, <3>4, <3>5, <3>6
  <2> QED BY <2>1, <2>2, <2>3
<1>7. \A p \in 1..Len(cells) : cells[p] = <<cells[p][1], cells[p][2], cells[p][3]>>
  <2> TAKE p \in 1..Len(cells)
  <2>1. PICK i \in 1..n : \E j \in 1..Len(r[2][i][2][2]) :
           <<r[2][i][2][2][j][1], r[2][i][1], r[2][i][2][2][j][2]>> = cells[p]
      BY <1>5
  <2> QED BY <2>1
<1>8. ASSUME NEW a, NEW b
       PROVE  /\ HasCell(s, a, b) <=> HasCell(r[2], b, a)
              /\ HasCell(r[2], b, a) => CellAt(s, a, b) = CellAt(r[2], b, a)
  <2>1. HasCell(s, a, b) <=> \E i \in 1..Len(cells) : cells[i][1] = a /\ cells[i][2] = b
      BY <1>4 DEF Inverts, Tabled, s
  <2>2. ASSUME HasCell(r[2], b, a) PROVE HasCell(s, a, b)
    <3>1. PICK p \in 1..Len(cells) : cells[p] = <<a, b, CellAt(r[2], b, a)>>
        BY <1>6, <2>2
    <3>2. cells[p][1] = a /\ cells[p][2] = b  BY <3>1
    <3> QED BY <2>1, <3>2
  <2>3. ASSUME HasCell(s, a, b)
        PROVE  HasCell(r[2], b, a) /\ CellAt(s, a, b) = CellAt(r[2], b, a)
    <3>1. PICK i \in 1..Len(cells) : /\ cells[i][1] = a /\ cells[i][2] = b
                                     /\ CellAt(s, a, b) = cells[i][3]
        BY <1>4, <2>3 DEF Inverts, Tabled, s
    <3>2. cells[i] = <<a, b, CellAt(s, a, b)>>  BY <1>7, <3>1
    <3> QED BY <1>6, <3>2
  <2> QED BY <2>2, <2>3
<1>9. Table(s)  BY <1>4 DEF Inverts, Tabled, s
<1>10. InvertKeys(r) = Rec(InvertKeys(r)[2])  BY <1>4 DEF Inverts
<1> QED BY <1>8, <1>9, <1>10 DEF s

\* A record of records, its keys inverted twice, has the entries it had.
LEMMA InvertedTwice ==
    ASSUME NEW r, Record(r), Table(r[2]), values_equal(r, r)
    PROVE  values_equal(InvertKeys(InvertKeys(r)), r)
<1> DEFINE s == InvertKeys(r)
           t == InvertKeys(s)
<1>1. /\ s = Rec(s[2]) /\ Table(s[2])
      /\ \A a, b : /\ HasCell(s[2], a, b) <=> HasCell(r[2], b, a)
                   /\ HasCell(r[2], b, a) => CellAt(s[2], a, b) = CellAt(r[2], b, a)
    BY InvertIs
<1> HIDE DEF s
<1>2. Record(s)  BY <1>1 DEF Table
<1>3. /\ t = Rec(t[2]) /\ Table(t[2])
      /\ \A a, b : /\ HasCell(t[2], a, b) <=> HasCell(s[2], b, a)
                   /\ HasCell(s[2], b, a) => CellAt(t[2], a, b) = CellAt(s[2], b, a)
    BY <1>1, <1>2, InvertIs
<1> HIDE DEF t
<1>4. Record(t)  BY <1>3 DEF Table
<1>5. \A a, b : /\ HasCell(t[2], a, b) <=> HasCell(r[2], a, b)
                /\ HasCell(r[2], a, b) => CellAt(t[2], a, b) = CellAt(r[2], a, b)
    BY <1>1, <1>3
<1>6. \A x, a : Table(x) => (Has(x, a) <=> \E b : HasCell(x, a, b))  BY DEF Table, HasCell
<1>7. \A a : Has(t[2], a) <=> Has(r[2], a)  BY <1>3, <1>5, <1>6
<1>8. ASSUME NEW a
      PROVE  Get(t[2], a) = Get(r[2], a) \/ Alike(Get(t[2], a), Get(r[2], a))
  <2>1. CASE ~Has(r[2], a)
    <3>1. Get(t[2], a) = Nil /\ Get(r[2], a) = Nil  BY <1>7, <2>1 DEF Get
    <3> QED BY <3>1
  <2>2. CASE Has(r[2], a)
    <3> DEFINE x == Get(t[2], a)
               y == Get(r[2], a)
    <3>1. Record(x) /\ Record(y)  BY <1>3, <1>7, <2>2 DEF Table
    <3>2. \A b : /\ Has(x[2], b) <=> Has(y[2], b)
                 /\ Has(y[2], b) => Get(x[2], b) = Get(y[2], b)
        BY <1>5, <1>7, <2>2 DEF HasCell, CellAt
    <3> HIDE DEF x, y
    <3>3. \A b : Get(x[2], b) = Get(y[2], b)
      <4> TAKE b
      <4>1. CASE Has(y[2], b)  BY <3>2, <4>1
      <4>2. CASE ~Has(y[2], b)
        <5>1. Get(x[2], b) = Nil /\ Get(y[2], b) = Nil  BY <3>2, <4>2 DEF Get
        <5> QED BY <5>1
      <4> QED BY <4>1, <4>2
    <3>4. Alike(x, y)  BY <3>1, <3>2, <3>3 DEF Alike
    <3> QED BY <3>4 DEF x, y
  <2> QED BY <2>1, <2>2
<1>9. NearlyAlike(t, r)  BY <1>4, <1>7, <1>8 DEF NearlyAlike
<1> QED BY <1>9, AlikeAreEqual DEF t, s

=============================================================================
