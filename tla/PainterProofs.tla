---------------------------- MODULE PainterProofs ----------------------------
(***************************************************************************)
(* Proofs about where the live view goes, for terminals of any sizes, lines*)
(* of any width and any number of them: what is printed for good stays, no *)
(* row of an earlier frame is left behind, and plain output is whole.      *)
(* Then about what frames print for good, whatever lines arrive between    *)
(* them: each once and in order, and none held back but by an open plan.   *)
(***************************************************************************)
EXTENDS Painter, Frames, FiniteSetTheorems, WellFoundedInduction, SequenceTheorems, TLAPS

-----------------------------------------------------------------------------
(* Rows.                                                                   *)

\* A set of numbers has a smallest one.
LEMMA LeastExists ==
  ASSUME NEW S, S \subseteq Nat, S # {}
  PROVE  \E x \in S : \A y \in S : x <= y
<1> DEFINE less == OpToRel(<, Nat)
<1>1. IsWellFoundedOn(less, Nat)
  BY NatLessThanWellFounded DEF less
<1>2. PICK x \in S : \A y \in S : <<y, x>> \notin less
  BY <1>1, WFMin
<1>3. \A y \in S : ~(y < x)
  BY <1>2 DEF OpToRel
<1>4. \A y \in S : x <= y
  BY <1>3
<1> QED
  BY <1>4

\* A larger number of rows holds no less.
LEMMA ProductGrows ==
  ASSUME NEW a \in Nat, NEW b \in Nat, NEW c \in Nat, a <= b
  PROVE  a * c <= b * c
<1>1. PICK d \in Nat : b = a + d
  <2>1. b - a \in Nat /\ b = a + (b - a)
    OBVIOUS
  <2> QED
    BY <2>1
<1>2. (a + d) * c = a * c + d * c
  OBVIOUS
<1>3. d * c \in Nat /\ a * c \in Nat
  OBVIOUS
<1> QED
  BY <1>1, <1>2, <1>3

\* The rows of a line hold it, and one row fewer would not.
LEMMA RowsHold ==
  ASSUME NEW w \in Nat, NEW cols \in Nat \ {0}
  PROVE  /\ rows_of(w, cols) \in 1..(w + 1)
         /\ w <= rows_of(w, cols) * cols
         /\ rows_of(w, cols) > 1 => (rows_of(w, cols) - 1) * cols < w
<1> DEFINE S == {n \in 1..(w + 1) : w <= n * cols}
<1>1. w + 1 \in S
  <2>1. 1 * (w + 1) <= cols * (w + 1)
    BY ProductGrows, 1 \in Nat, 1 <= cols
  <2>2. cols * (w + 1) = (w + 1) * cols
    OBVIOUS
  <2> QED
    BY <2>1, <2>2
<1>2. S \subseteq Nat
  OBVIOUS
<1>3. PICK n \in S : \A m \in S : n <= m
  BY <1>1, <1>2, LeastExists
<1>4. n > 1 => (n - 1) * cols < w
  <2>1. SUFFICES ASSUME n > 1, ~((n - 1) * cols < w) PROVE FALSE
    OBVIOUS
  <2>2. n - 1 \in 1..(w + 1) /\ (n - 1) * cols \in Int
    BY <2>1
  <2>3. n - 1 \in S
    BY <2>1, <2>2
  <2> QED
    BY <1>3, <2>3
<1>5. \E m \in 1..(w + 1) : w <= m * cols /\ (m > 1 => (m - 1) * cols < w)
  BY <1>4
<1> QED
  BY <1>5 DEF rows_of

\* A line takes no more rows than would hold it.
LEMMA RowsAreFewest ==
  ASSUME NEW w \in Nat, NEW cols \in Nat \ {0}, NEW n \in Nat \ {0}, w <= n * cols
  PROVE  rows_of(w, cols) <= n
<1> DEFINE r == rows_of(w, cols)
<1>1. r \in 1..(w + 1) /\ (r > 1 => (r - 1) * cols < w)
  BY RowsHold
<1> HIDE DEF r
<1>2. SUFFICES ASSUME n < r PROVE FALSE
  BY <1>1 DEF r
<1>3. n <= r - 1 /\ r - 1 \in Nat /\ r > 1
  BY <1>1, <1>2
<1>4. n * cols <= (r - 1) * cols
  BY <1>3, ProductGrows
<1> QED
  BY <1>1, <1>3, <1>4

\* A narrower terminal never takes fewer rows for a line.
LEMMA NarrowerTakesMore ==
  ASSUME NEW w \in Nat, NEW old \in Nat \ {0}, NEW new \in Nat \ {0}, new <= old
  PROVE  rows_of(w, old) <= rows_of(w, new)
<1> DEFINE n == rows_of(w, new)
<1>0. n \in 1..(w + 1) /\ w <= n * new
  BY RowsHold
<1> HIDE DEF n
<1>1. n \in Nat \ {0} /\ w <= n * new
  BY <1>0
<1>2. new * n <= old * n
  BY <1>1, ProductGrows
<1>3. w <= n * old
  BY <1>1, <1>2
<1>4. rows_of(w, old) <= n
  BY <1>1, <1>3, RowsAreFewest
<1> QED
  BY <1>4 DEF n

\* A line on one row stays on one when the terminal gets wider.
LEMMA OneRowStays ==
  ASSUME NEW w \in Nat, NEW old \in Nat \ {0}, NEW new \in Nat \ {0}, old <= new,
         rows_of(w, old) <= 1
  PROVE  rows_of(w, new) = rows_of(w, old)
<1>1. rows_of(w, new) <= rows_of(w, old)
  BY NarrowerTakesMore
<1>2. rows_of(w, new) \in 1..(w + 1)
  BY RowsHold
<1>3. rows_of(w, old) \in 1..(w + 1)
  BY RowsHold
<1> QED
  BY <1>1, <1>2, <1>3

\* A list is what is before a place and what is from there on.
LEMMA CutInTwo ==
  ASSUME NEW S, NEW s \in Seq(S), NEW k \in 0..Len(s)
  PROVE  s = SubSeq(s, 1, k) \o SubSeq(s, k + 1, Len(s))
<1> DEFINE a == SubSeq(s, 1, k)
           b == SubSeq(s, k + 1, Len(s))
<1>1. a \in Seq(S) /\ Len(a) = k /\ \A i \in 1..k : a[i] = s[i]
  OBVIOUS
<1>2. b \in Seq(S) /\ Len(b) = Len(s) - k /\ \A i \in 1..(Len(s) - k) : b[i] = s[k + i]
  OBVIOUS
<1> HIDE DEF a, b
<1>3. a \o b \in Seq(S) /\ Len(a \o b) = Len(s)
  BY <1>1, <1>2, ConcatProperties
<1>c. \A i \in 1..Len(s) : (a \o b)[i] = IF i <= k THEN a[i] ELSE b[i - k]
  <2>1. \A i \in 1..(Len(a) + Len(b)) : (a \o b)[i] = IF i <= Len(a) THEN a[i] ELSE b[i - Len(a)]
    BY <1>1, <1>2, ConcatProperties
  <2>2. Len(a) + Len(b) = Len(s)
    BY <1>1, <1>2
  <2> QED
    BY <1>1, <2>1, <2>2
<1> DEFINE c == a \o b
<1>d. c \in Seq(S) /\ Len(c) = Len(s) /\ \A i \in 1..Len(s) : c[i] = IF i <= k THEN a[i] ELSE b[i - k]
  BY <1>3, <1>c
<1> HIDE DEF c
<1>4. ASSUME NEW i \in 1..Len(s) PROVE s[i] = c[i]
  <2>0. i \in Int /\ k \in Int /\ Len(s) \in Int
    OBVIOUS
  <2>1. CASE i <= k
    BY <1>1, <1>d, <2>0, <2>1
  <2>2. CASE ~(i <= k)
    <3>1. i - k \in 1..(Len(s) - k) /\ k + (i - k) = i
      BY <2>0, <2>2
    <3>2. c[i] = b[i - k]
      BY <1>d, <2>2
    <3> QED
      BY <1>2, <3>1, <3>2
  <2> QED
    BY <2>1, <2>2
<1>5. s = c
  BY <1>d, <1>4, SeqEqual
<1> QED
  BY <1>5 DEF a, b, c

-----------------------------------------------------------------------------
(* The rows of the last lines of a list.                                   *)

\* Lines on a terminal.
TermLines == [of : {"kept", "region", "damaged"}, n : Nat, w : Nat]

LEMMA RowsOfLine ==
  ASSUME NEW list \in Seq(TermLines), NEW cols \in Nat \ {0}, NEW i \in 1..Len(list)
  PROVE  list[i].w \in Nat /\ rows_of(list[i].w, cols) \in Nat \ {0}
<1>1. list[i] \in TermLines
  OBVIOUS
<1>2. list[i].w \in Nat
  BY <1>1 DEF TermLines
<1>3. rows_of(list[i].w, cols) \in 1..(list[i].w + 1)
  BY <1>2, RowsHold
<1> QED
  BY <1>2, <1>3

LEMMA RowIsIn ==
  ASSUME NEW list, NEW from, NEW cols, NEW r
  PROVE  r \in RowsFrom(list, from, cols) <=>
           \E i \in from..Len(list) : \E k \in 1..rows_of(list[i].w, cols) : r = <<i, k>>
  BY DEF RowsFrom

\* A terminal has finitely many rows.
LEMMA RowsAreFinite ==
  ASSUME NEW list \in Seq(TermLines), NEW cols \in Nat \ {0}, NEW from \in Nat \ {0}
  PROVE  IsFiniteSet(RowsFrom(list, from, cols))
<1> DEFINE I == from..Len(list)
           line(i) == {i} \X (1..rows_of(list[i].w, cols))
           f == [i \in I |-> line(i)]
           Image == {line(i) : i \in I}
<1>1. IsFiniteSet(I)
  <2>1. from \in Int /\ Len(list) \in Int
    OBVIOUS
  <2> QED
    BY <2>1, FS_Interval
<1>2. f \in Surjection(I, Image)
  BY DEF Surjection
<1>3. IsFiniteSet(Image)
  BY <1>1, <1>2, FS_Surjection
<1>4. ASSUME NEW i \in I PROVE IsFiniteSet(line(i))
  <2>1. i \in 1..Len(list)
    OBVIOUS
  <2>2. rows_of(list[i].w, cols) \in Int
    BY <2>1, RowsOfLine
  <2>3. IsFiniteSet(1..rows_of(list[i].w, cols))
    <3>1. 1 \in Int
      OBVIOUS
    <3> QED
      BY <2>2, <3>1, FS_Interval
  <2>4. IsFiniteSet({i})
    BY FS_Singleton
  <2> QED
    BY <2>3, <2>4, FS_Product
<1>5. \A T \in Image : IsFiniteSet(T)
  BY <1>4
<1>6. IsFiniteSet(UNION Image)
  BY <1>3, <1>5, FS_UNION
<1> QED
  BY <1>6 DEF RowsFrom

LEMMA RowsAreNat ==
  ASSUME NEW list \in Seq(TermLines), NEW cols \in Nat \ {0}, NEW from \in Nat \ {0}
  PROVE  RowsIn(list, from, cols) \in Nat
  BY RowsAreFinite, FS_CardinalityType DEF RowsIn

\* No line, no row; and a list that has lines has rows.
LEMMA NoLineNoRow ==
  ASSUME NEW list \in Seq(TermLines), NEW cols \in Nat \ {0}, NEW from \in Nat \ {0},
         from > Len(list)
  PROVE  RowsIn(list, from, cols) = 0
<1>1. \A r : r \notin RowsFrom(list, from, cols)
  <2>1. from..Len(list) = {}
    OBVIOUS
  <2> QED
    BY <2>1, RowIsIn
<1>2. RowsFrom(list, from, cols) = {}
  BY <1>1
<1> QED
  BY <1>2, FS_EmptySet DEF RowsIn

\* The lines from a later place on take fewer rows.
LEMMA LaterTakesFewer ==
  ASSUME NEW list \in Seq(TermLines), NEW cols \in Nat \ {0},
         NEW from \in 1..Len(list), NEW later \in Nat, from < later
  PROVE  RowsIn(list, later, cols) < RowsIn(list, from, cols)
<1> DEFINE R == RowsFrom(list, from, cols)
           T == RowsFrom(list, later, cols)
<1>1. T \subseteq R
  <2>1. ASSUME NEW r \in T PROVE r \in R
    <3>1. PICK i \in later..Len(list) : \E k \in 1..rows_of(list[i].w, cols) : r = <<i, k>>
      BY RowIsIn
    <3>2. i \in from..Len(list)
      OBVIOUS
    <3> QED
      BY <3>1, <3>2, RowIsIn
  <2> QED
    BY <2>1
<1>2. <<from, 1>> \in R
  <2>1. from \in from..Len(list)
    OBVIOUS
  <2>2. rows_of(list[from].w, cols) \in Nat \ {0}
    BY RowsOfLine
  <2>3. 1 \in 1..rows_of(list[from].w, cols)
    BY <2>2
  <2> QED
    BY <2>1, <2>3, RowIsIn
<1>3. <<from, 1>> \notin T
  <2>1. SUFFICES ASSUME <<from, 1>> \in T PROVE FALSE
    OBVIOUS
  <2>2. PICK i \in later..Len(list) : \E k \in 1..rows_of(list[i].w, cols) : <<from, 1>> = <<i, k>>
    BY <2>1, RowIsIn
  <2>3. from = i
    BY <2>2
  <2> QED
    BY <2>3
<1>4. IsFiniteSet(R) /\ IsFiniteSet(T)
  <2>1. from \in Nat \ {0} /\ later \in Nat \ {0}
    OBVIOUS
  <2>2. IsFiniteSet(R)
    BY <2>1, RowsAreFinite
  <2>3. IsFiniteSet(T)
    BY <2>1, RowsAreFinite
  <2> QED
    BY <2>2, <2>3
<1> HIDE DEF R, T
<1>5. T \in SUBSET R /\ T # R
  BY <1>1, <1>2, <1>3
<1>6. Cardinality(T) <= Cardinality(R) /\ Cardinality(R) # Cardinality(T)
  BY <1>4, <1>5, FS_Subset
<1>7. Cardinality(T) \in Nat /\ Cardinality(R) \in Nat
  BY <1>4, FS_CardinalityType
<1> QED
  BY <1>6, <1>7 DEF RowsIn, R, T

\* The rows of the last lines are theirs, wherever they are.
LEMMA RowsOfTheLast ==
  ASSUME NEW s \in Seq(TermLines), NEW t \in Seq(TermLines), NEW cols \in Nat \ {0}
  PROVE  RowsIn(s \o t, Len(s) + 1, cols) = RowsIn(t, 1, cols)
<1> DEFINE c == Len(s)
           u == s \o t
           R == RowsFrom(t, 1, cols)
           T == RowsFrom(u, c + 1, cols)
           f == [r \in R |-> <<r[1] + c, r[2]>>]
<1>1. c \in Nat /\ u \in Seq(TermLines) /\ Len(u) = c + Len(t) /\ Len(t) \in Nat
  OBVIOUS
<1>2. \A i \in 1..Len(t) : u[i + c] = t[i]
  OBVIOUS
<1> HIDE DEF c, u
<1>3. ASSUME NEW r \in R PROVE \E i \in 1..Len(t) : \E k \in 1..rows_of(t[i].w, cols) : r = <<i, k>>
  BY RowIsIn
<1>4. ASSUME NEW r \in T
      PROVE \E i \in 1..Len(t) : \E k \in 1..rows_of(t[i].w, cols) : r = <<i + c, k>>
  <2>1. PICK j \in (c + 1)..Len(u) : \E k \in 1..rows_of(u[j].w, cols) : r = <<j, k>>
    BY RowIsIn
  <2>2. j - c \in 1..Len(t) /\ (j - c) + c = j
    BY <1>1
  <2>3. u[j] = t[j - c]
    BY <1>2, <2>2
  <2> QED
    BY <2>1, <2>2, <2>3
<1>5. ASSUME NEW i \in 1..Len(t), NEW k \in 1..rows_of(t[i].w, cols)
      PROVE <<i, k>> \in R /\ <<i + c, k>> \in T
  <2>1. <<i, k>> \in R
    BY RowIsIn
  <2>2. i + c \in (c + 1)..Len(u)
    BY <1>1
  <2>3. k \in 1..rows_of(u[i + c].w, cols)
    BY <1>2
  <2>4. <<i + c, k>> \in T
    BY <2>2, <2>3, RowIsIn
  <2> QED
    BY <2>1, <2>4
<1>6. IsFiniteSet(R)
  <2>1. 1 \in Nat \ {0}
    OBVIOUS
  <2> QED
    BY <2>1, RowsAreFinite
<1> HIDE DEF R, T
<1>7. f \in [R -> T]
  <2>1. ASSUME NEW r \in R PROVE <<r[1] + c, r[2]>> \in T
    <3>1a. PICK i \in 1..Len(t) : \E k \in 1..rows_of(t[i].w, cols) : r = <<i, k>>
      BY <1>3
    <3>1. PICK k \in 1..rows_of(t[i].w, cols) : r = <<i, k>>
      BY <3>1a
    <3> QED
      BY <1>5, <3>1
  <2> QED
    BY <2>1
<1>8. f \in Injection(R, T)
  <2>1. ASSUME NEW r \in R, NEW q \in R, f[r] = f[q] PROVE r = q
    <3>1a. PICK i \in 1..Len(t) : \E k \in 1..rows_of(t[i].w, cols) : r = <<i, k>>
      BY <1>3
    <3>1. PICK k \in 1..rows_of(t[i].w, cols) : r = <<i, k>>
      BY <3>1a
    <3>2a. PICK j \in 1..Len(t) : \E m \in 1..rows_of(t[j].w, cols) : q = <<j, m>>
      BY <1>3
    <3>2. PICK m \in 1..rows_of(t[j].w, cols) : q = <<j, m>>
      BY <3>2a
    <3>3. f[r] = <<i + c, k>> /\ f[q] = <<j + c, m>>
      BY <3>1, <3>2
    <3>4. i + c = j + c /\ k = m
      BY <2>1, <3>3
    <3>5. i = j
      BY <1>1, <3>4
    <3> QED
      BY <3>1, <3>2, <3>4, <3>5
  <2> QED
    BY <1>7, <2>1 DEF Injection, IsInjective
<1>9. f \in Surjection(R, T)
  <2>1. ASSUME NEW r \in T PROVE \E q \in R : f[q] = r
    <3>1a. PICK i \in 1..Len(t) : \E k \in 1..rows_of(t[i].w, cols) : r = <<i + c, k>>
      BY <1>4
    <3>1. PICK k \in 1..rows_of(t[i].w, cols) : r = <<i + c, k>>
      BY <3>1a
    <3>2. <<i, k>> \in R
      BY <1>5
    <3>3. f[<<i, k>>] = r
      BY <3>1, <3>2
    <3> QED
      BY <3>2, <3>3
  <2> QED
    BY <1>7, <2>1 DEF Surjection
<1>10. ExistsBijection(R, T)
  BY <1>8, <1>9 DEF ExistsBijection, Bijection
<1>11. Cardinality(T) = Cardinality(R)
  BY <1>6, <1>10, FS_Bijection
<1> QED
  BY <1>11 DEF RowsIn, R, T, c, u

\* A list whose lines take no fewer rows takes no fewer.
LEMMA MoreRowsEach ==
  ASSUME NEW list \in Seq(TermLines), NEW old \in Nat \ {0}, NEW new \in Nat \ {0},
         NEW from \in Nat \ {0},
         \A i \in from..Len(list) : rows_of(list[i].w, old) <= rows_of(list[i].w, new)
  PROVE  RowsIn(list, from, old) <= RowsIn(list, from, new)
<1> DEFINE R == RowsFrom(list, from, new)
           T == RowsFrom(list, from, old)
<1>1. T \subseteq R
  <2>1. ASSUME NEW r \in T PROVE r \in R
    <3>1. PICK i \in from..Len(list) : \E k \in 1..rows_of(list[i].w, old) : r = <<i, k>>
      BY RowIsIn
    <3>2. PICK k \in 1..rows_of(list[i].w, old) : r = <<i, k>>
      BY <3>1
    <3>3. i \in 1..Len(list)
      OBVIOUS
    <3>4. rows_of(list[i].w, new) \in Nat
      BY <3>3, RowsOfLine
    <3>5. rows_of(list[i].w, old) \in Nat
      BY <3>3, RowsOfLine
    <3>6. k \in 1..rows_of(list[i].w, new)
      BY <3>4, <3>5
    <3> QED
      BY <3>2, <3>6, RowIsIn
  <2> QED
    BY <2>1
<1>2. IsFiniteSet(R)
  BY RowsAreFinite
<1> HIDE DEF R, T
<1> QED
  BY <1>1, <1>2, FS_Subset DEF RowsIn, R, T

LEMMA SameRowsEach ==
  ASSUME NEW list \in Seq(TermLines), NEW old \in Nat \ {0}, NEW new \in Nat \ {0},
         NEW from \in Nat \ {0},
         \A i \in from..Len(list) : rows_of(list[i].w, old) = rows_of(list[i].w, new)
  PROVE  RowsIn(list, from, old) = RowsIn(list, from, new)
<1>1. \A i \in from..Len(list) : /\ rows_of(list[i].w, old) <= rows_of(list[i].w, new)
                                 /\ rows_of(list[i].w, new) <= rows_of(list[i].w, old)
  <2> SUFFICES ASSUME NEW i \in from..Len(list)
               PROVE  /\ rows_of(list[i].w, old) <= rows_of(list[i].w, new)
                      /\ rows_of(list[i].w, new) <= rows_of(list[i].w, old)
    OBVIOUS
  <2>1. i \in 1..Len(list)
    OBVIOUS
  <2>2. rows_of(list[i].w, old) \in Nat
    BY <2>1, RowsOfLine
  <2> QED
    BY <2>2
<1>2. RowsIn(list, from, old) <= RowsIn(list, from, new)
  BY <1>1, MoreRowsEach
<1>3. RowsIn(list, from, new) <= RowsIn(list, from, old)
  BY <1>1, MoreRowsEach
<1>4. RowsIn(list, from, old) \in Nat
  BY RowsAreNat
<1>5. RowsIn(list, from, new) \in Nat
  BY RowsAreNat
<1> QED
  BY <1>2, <1>3, <1>4, <1>5

-----------------------------------------------------------------------------
(* The region that fits, and what is erased.                               *)

\* The first place from which the rows are no more than `room`.
LEMMA FirstThatFits ==
  ASSUME NEW list \in Seq(TermLines), NEW cols \in Nat \ {0}, NEW room \in Nat
  PROVE  \E n \in 1..(Len(list) + 1) :
            /\ RowsIn(list, n, cols) <= room
            /\ \A m \in 1..(n - 1) : ~(RowsIn(list, m, cols) <= room)
<1> DEFINE S == {n \in 1..(Len(list) + 1) : RowsIn(list, n, cols) <= room}
<1>1. RowsIn(list, Len(list) + 1, cols) = 0
  <2>1. Len(list) + 1 \in Nat \ {0} /\ Len(list) + 1 > Len(list)
    OBVIOUS
  <2> QED
    BY <2>1, NoLineNoRow
<1>2. Len(list) + 1 \in S
  BY <1>1
<1>3. S \subseteq Nat
  OBVIOUS
<1>4. PICK n \in S : \A m \in S : n <= m
  BY <1>2, <1>3, LeastExists
<1>5. ASSUME NEW m \in 1..(n - 1) PROVE ~(RowsIn(list, m, cols) <= room)
  <2>1. m \in 1..(Len(list) + 1) /\ ~(n <= m)
    OBVIOUS
  <2> QED
    BY <1>4, <2>1
<1> QED
  BY <1>4, <1>5

RegionLines(n) == [of : {"region"}, n : {n}, w : Nat]

LEMMA RegionLinesAreLines ==
  ASSUME NEW n \in Nat
  PROVE  Seq(RegionLines(n)) \subseteq Seq(TermLines)
<1>1. RegionLines(n) \subseteq TermLines
  BY DEF RegionLines, TermLines
<1> QED
  BY <1>1

\* What is drawn of a region is lines of it, and fits.
LEMMA FittingFits ==
  ASSUME NEW n \in Nat, NEW region \in Seq(RegionLines(n)),
         NEW room \in Nat, NEW cols \in Nat \ {0}
  PROVE  /\ Fitting(region, room, cols) \in Seq(RegionLines(n))
         /\ RowsIn(Fitting(region, room, cols), 1, cols) <= room
<1> DEFINE Fits(k) == RowsIn(region, k, cols) <= room
           skip == CHOOSE k \in 1..(Len(region) + 1) : Fits(k) /\ \A m \in 1..(k - 1) : ~Fits(m)
           line == [Last(region) EXCEPT !.w = room * cols]
           rest == SubSeq(region, skip, Len(region))
<1>0. region \in Seq(TermLines)
  BY RegionLinesAreLines
<1>1. skip \in 1..(Len(region) + 1) /\ Fits(skip)
  BY <1>0, FirstThatFits
<1>2. Fitting(region, room, cols)
        = IF region # <<>> /\ skip > Len(region) /\ room > 0 THEN <<line>> ELSE rest
  BY DEF Fitting
<1> HIDE DEF skip
<1>3. CASE region # <<>> /\ skip > Len(region) /\ room > 0
  <2>1. Last(region) \in RegionLines(n)
    <3>1. Len(region) \in 1..Len(region)
      BY <1>3
    <3> QED
      BY <3>1 DEF Last
  <2>2. line \in RegionLines(n) /\ line.w = room * cols
    <3>1. room * cols \in Nat
      OBVIOUS
    <3> QED
      BY <2>1, <3>1 DEF RegionLines
  <2> HIDE DEF line
  <2>3. <<line>> \in Seq(RegionLines(n))
    BY <2>2
  <2>4. <<line>> \in Seq(TermLines)
    BY <2>3, RegionLinesAreLines
  <2>5. rows_of(line.w, cols) <= room
    <3>1. room \in Nat \ {0} /\ room * cols \in Nat
      BY <1>3
    <3> QED
      BY <2>2, <3>1, RowsAreFewest
  <2>6. RowsIn(<<line>>, 1, cols) <= room
    <3> DEFINE R == RowsFrom(<<line>>, 1, cols)
               T == {1} \X (1..rows_of(line.w, cols))
    <3>1. R = T
      <4>1. Len(<<line>>) = 1 /\ <<line>>[1] = line /\ 1..1 = {1}
        OBVIOUS
      <4>2. RowsFrom(<<line>>, 1, cols)
              = UNION {{i} \X (1..rows_of(<<line>>[i].w, cols)) : i \in 1..Len(<<line>>)}
        BY DEF RowsFrom
      <4>3. {{i} \X (1..rows_of(<<line>>[i].w, cols)) : i \in {1}} = {T}
        BY <4>1
      <4> QED
        BY <4>1, <4>2, <4>3
    <3>2. rows_of(line.w, cols) \in Nat \ {0}
      <4>1. 1 \in 1..Len(<<line>>) /\ <<line>>[1] = line
        OBVIOUS
      <4> QED
        BY <2>4, <4>1, RowsOfLine
    <3>3. IsFiniteSet(1..rows_of(line.w, cols)) /\ Cardinality(1..rows_of(line.w, cols)) = rows_of(line.w, cols)
      <4>1. 1 \in Int /\ rows_of(line.w, cols) \in Int
        BY <3>2
      <4>2. /\ IsFiniteSet(1..rows_of(line.w, cols))
            /\ Cardinality(1..rows_of(line.w, cols))
                 = IF 1 > rows_of(line.w, cols) THEN 0 ELSE rows_of(line.w, cols) - 1 + 1
        BY <4>1, FS_Interval
      <4> QED
        BY <3>2, <4>2
    <3>4. IsFiniteSet({1}) /\ Cardinality({1}) = 1
      BY FS_Singleton
    <3>5. Cardinality(T) = Cardinality({1}) * Cardinality(1..rows_of(line.w, cols))
      BY <3>3, <3>4, FS_Product
    <3>6. Cardinality(T) = rows_of(line.w, cols)
      BY <3>2, <3>3, <3>4, <3>5
    <3> QED
      BY <2>5, <3>1, <3>6 DEF RowsIn
  <2> QED
    BY <1>2, <1>3, <2>3, <2>6
<1>4. CASE ~(region # <<>> /\ skip > Len(region) /\ room > 0)
  <2> DEFINE first == SubSeq(region, 1, skip - 1)
  <2>1. rest \in Seq(RegionLines(n)) /\ first \in Seq(RegionLines(n)) /\ Len(first) = skip - 1
    BY <1>1
  <2>2. region = first \o rest
    <3>1. skip - 1 \in 0..Len(region) /\ (skip - 1) + 1 = skip
      BY <1>1
    <3>2. region = SubSeq(region, 1, skip - 1) \o SubSeq(region, (skip - 1) + 1, Len(region))
      BY <3>1, CutInTwo
    <3> QED
      BY <3>1, <3>2
  <2> HIDE DEF rest, first
  <2>3. rest \in Seq(TermLines)
    BY <2>1, RegionLinesAreLines
  <2>4. first \in Seq(TermLines)
    BY <2>1, RegionLinesAreLines
  <2>5. RowsIn(first \o rest, Len(first) + 1, cols) = RowsIn(rest, 1, cols)
    BY <2>3, <2>4, RowsOfTheLast
  <2>6. Len(first) + 1 = skip
    BY <1>1, <2>1
  <2>7. RowsIn(rest, 1, cols) <= room
    BY <1>1, <2>2, <2>5, <2>6
  <2> QED
    BY <1>2, <1>4, <2>1, <2>7
<1> QED
  BY <1>3, <1>4

-----------------------------------------------------------------------------
(* What is on the terminal.                                                *)

\* The lines printed for good are numbered to n, in order.
NumberedTo(list, n) ==
  /\ \A i \in 1..Len(list) : list[i].of = "kept" => list[i].n \in 1..n
  /\ \A m \in 1..n : \E i \in 1..Len(list) : list[i].of = "kept" /\ list[i].n = m
  /\ \A i, j \in 1..Len(list) :
        list[i].of = "kept" /\ list[j].of = "kept" /\ i < j => list[i].n < list[j].n

PaintTyped ==
  /\ mode \in {"live", "plain", "closed"} /\ size \in Sizes
  /\ term \in Seq(TermLines)
  /\ height \in Nat /\ printed \in Nat /\ draws \in Nat
  /\ shrunk \in BOOLEAN /\ stale \subseteq Nat /\ unwrapped \in BOOLEAN
  /\ printed <= MaxAbove + 1
  /\ mode = "live" => printed <= MaxAbove

\* What was printed for good is there, numbered as it was.
KeptHeld == ~unwrapped => NumberedTo(term, printed)

\* The lines after the first k are the last region, which is no lower than the
\* painter takes it for, and no taller as long as the terminal did not shrink
\* since; what else is not printed for good is of a frame the terminal shrank
\* under.
LastRegion(k) ==
  /\ \A i \in (k + 1)..Len(term) : term[i].of = "region" /\ term[i].n = draws
  /\ height <= RowsIn(term, k + 1, size.cols)
  /\ ~shrunk => height = RowsIn(term, k + 1, size.cols)
  /\ \A i \in 1..k : term[i].of = "kept" \/ term[i].n \in stale

RegionHeld == mode = "live" /\ ~unwrapped => \E k \in 0..Len(term) : LastRegion(k)

LiveInv == PaintTyped /\ KeptHeld /\ RegionHeld /\ RegionIsReached

LEMMA SizeIsPositive ==
  ASSUME PaintConstantsOK, PaintTyped
  PROVE  size.rows \in Nat \ {0} /\ size.cols \in Nat \ {0}
  BY DEF PaintConstantsOK, PaintTyped

\* What MoveUp reaches is no higher than the region is taken for.
LEMMA MoveUpIsNat ==
  ASSUME PaintConstantsOK, PaintTyped
  PROVE  /\ MoveUp \in Nat /\ MoveUp <= height
         /\ height < size.rows => MoveUp = height
<1>1. size.rows \in Nat \ {0} /\ height \in Nat
  BY SizeIsPositive DEF PaintTyped
<1> QED
  BY <1>1 DEF MoveUp

\* What is erased ends at a line of which some rows are to go.
LEMMA ErasedEnds ==
  ASSUME PaintConstantsOK, PaintTyped, NEW up \in Nat
  PROVE  \E keep \in 0..Len(term) :
            /\ RowsIn(term, keep + 1, size.cols) <= up
            /\ keep > 0 => RowsIn(term, keep, size.cols) > up
            /\ Erased(up) = IF keep > 0 /\ RowsIn(term, keep + 1, size.cols) < up
                            THEN [SubSeq(term, 1, keep) EXCEPT ![keep].of = "damaged"]
                            ELSE SubSeq(term, 1, keep)
<1> DEFINE below(n) == RowsIn(term, n, size.cols)
           Ends(n) == below(n + 1) <= up /\ (n > 0 => below(n) > up)
           keep == CHOOSE n \in 0..Len(term) : Ends(n)
<1>1. term \in Seq(TermLines) /\ size.cols \in Nat \ {0}
  BY SizeIsPositive DEF PaintTyped
<1>2. PICK n \in 1..(Len(term) + 1) :
            below(n) <= up /\ \A m \in 1..(n - 1) : ~(below(m) <= up)
  BY <1>1, FirstThatFits
<1>3. n - 1 \in 0..Len(term) /\ (n - 1) + 1 = n
  BY <1>1
<1>4. n - 1 > 0 => below(n - 1) > up
  <2>1. SUFFICES ASSUME n - 1 > 0 PROVE below(n - 1) > up
    OBVIOUS
  <2>2. n - 1 \in 1..(n - 1) /\ n - 1 \in Nat \ {0}
    BY <1>3, <2>1
  <2>3. below(n - 1) \in Nat
    BY <1>1, <2>2, RowsAreNat
  <2> QED
    BY <1>2, <2>2, <2>3
<1>5. Ends(n - 1)
  BY <1>2, <1>3, <1>4
<1>6. keep \in 0..Len(term) /\ Ends(keep)
  BY <1>3, <1>5
<1>7. Erased(up) = IF keep > 0 /\ below(keep + 1) < up
                   THEN [SubSeq(term, 1, keep) EXCEPT ![keep].of = "damaged"]
                   ELSE SubSeq(term, 1, keep)
  BY DEF Erased
<1> HIDE DEF keep
<1> QED
  BY <1>6, <1>7

\* Erasing takes nothing of what is over the last region, and all of the region
\* unless the terminal shrank under it.
LEMMA ErasedKeeps ==
  ASSUME PaintConstantsOK, LiveInv, mode = "live"
  PROVE  /\ Erased(MoveUp) \in Seq(TermLines)
         /\ ~unwrapped => NumberedTo(Erased(MoveUp), printed)
         /\ ~unwrapped => \A i \in 1..Len(Erased(MoveUp)) :
                            Erased(MoveUp)[i].of = "kept" \/ Erased(MoveUp)[i].n \in Left
<1> DEFINE up == MoveUp
           e == Erased(up)
           below(n) == RowsIn(term, n, size.cols)
<1>1. term \in Seq(TermLines) /\ size.cols \in Nat \ {0} /\ Len(term) \in Nat
  BY SizeIsPositive DEF LiveInv, PaintTyped
<1>2. up \in Nat /\ up <= height /\ (height < size.rows => up = height) /\ height \in Nat
  BY MoveUpIsNat DEF LiveInv, PaintTyped
<1> HIDE DEF up
<1>3. PICK keep \in 0..Len(term) :
            /\ below(keep + 1) <= up
            /\ keep > 0 => below(keep) > up
            /\ e = IF keep > 0 /\ below(keep + 1) < up
                   THEN [SubSeq(term, 1, keep) EXCEPT ![keep].of = "damaged"]
                   ELSE SubSeq(term, 1, keep)
  BY <1>2, ErasedEnds DEF LiveInv
<1>4. /\ SubSeq(term, 1, keep) \in Seq(TermLines) /\ Len(SubSeq(term, 1, keep)) = keep
      /\ \A i \in 1..keep : SubSeq(term, 1, keep)[i] = term[i]
  BY <1>1
<1>5. /\ e \in Seq(TermLines) /\ Len(e) = keep
      /\ \A i \in 1..keep : i < keep \/ ~(below(keep + 1) < up) => e[i] = term[i]
      /\ keep > 0 /\ below(keep + 1) < up => e[keep].of = "damaged"
      /\ \A i \in 1..keep : e[i].n = term[i].n
  <2> DEFINE s == SubSeq(term, 1, keep)
             line == [s[keep] EXCEPT !.of = "damaged"]
  <2>1. CASE keep > 0 /\ below(keep + 1) < up
    <3>1. keep \in 1..keep /\ s[keep] \in TermLines
      BY <1>4, <2>1
    <3>2. line \in TermLines /\ line.of = "damaged" /\ line.n = s[keep].n
      BY <3>1 DEF TermLines
    <3>3. e = [s EXCEPT ![keep] = line]
      BY <1>3, <2>1
    <3> HIDE DEF s, line
    <3>4. s \in Seq(TermLines) /\ Len(s) = keep /\ \A i \in 1..keep : s[i] = term[i]
      BY <1>4 DEF s
    <3>5. e \in Seq(TermLines) /\ Len(e) = keep /\ e[keep] = line /\ \A i \in 1..keep : i # keep => e[i] = s[i]
      BY <3>1, <3>2, <3>3, <3>4
    <3>6. ASSUME NEW i \in 1..keep PROVE e[i].n = term[i].n
      <4>1. CASE i = keep
        BY <3>2, <3>4, <3>5, <4>1
      <4>2. CASE i # keep
        BY <3>4, <3>5, <4>2
      <4> QED
        BY <4>1, <4>2
    <3> QED
      BY <2>1, <3>2, <3>4, <3>5, <3>6
  <2>2. CASE ~(keep > 0 /\ below(keep + 1) < up)
    <3>1. e = s
      BY <1>3, <2>2
    <3> QED
      BY <1>4, <2>2, <3>1
  <2> QED
    BY <2>1, <2>2
<1>6. \A n \in Nat \ {0} : below(n) \in Nat
  BY <1>1, RowsAreNat
<1> HIDE DEF e, below
<1>7. ASSUME ~unwrapped, NEW k \in 0..Len(term), LastRegion(k)
      PROVE  /\ keep >= k
             /\ \A i \in 1..k : e[i] = term[i]
             /\ \A i \in (k + 1)..keep : e[i].of # "kept"
             /\ ~shrunk => keep = k
  <2>1. height <= below(k + 1) /\ (~shrunk => height = below(k + 1))
    BY <1>7 DEF LastRegion, below
  <2>2. k + 1 \in Nat \ {0} /\ keep + 1 \in Nat \ {0} /\ below(k + 1) \in Nat /\ below(keep + 1) \in Nat
    BY <1>6
  <2>3. keep >= k
    <3>1. SUFFICES ASSUME keep < k PROVE FALSE
      OBVIOUS
    <3>2. keep + 1 \in 1..Len(term) /\ k + 1 \in Nat /\ keep + 1 < k + 1
      BY <3>1
    <3>3. below(k + 1) < below(keep + 1)
      BY <1>1, <3>2, LaterTakesFewer DEF below
    <3> QED
      BY <1>2, <1>3, <2>1, <2>2, <3>3
  <2>4. keep = k => ~(below(keep + 1) < up)
    BY <1>2, <1>3, <2>1, <2>2
  <2>5. \A i \in 1..k : e[i] = term[i]
    <3>1. ASSUME NEW i \in 1..k PROVE e[i] = term[i]
      <4>1. i \in 1..keep /\ (i < keep \/ keep = k)
        BY <2>3
      <4> QED
        BY <1>5, <2>4, <4>1
    <3> QED
      BY <3>1
  <2>6. \A i \in (k + 1)..keep : e[i].of # "kept"
    <3>1. ASSUME NEW i \in (k + 1)..keep PROVE e[i].of # "kept"
      <4>1. i \in 1..keep /\ keep > 0
        OBVIOUS
      <4>2. i \in (k + 1)..Len(term)
        OBVIOUS
      <4>3. term[i].of = "region"
        BY <1>7, <4>2 DEF LastRegion
      <4>4. CASE i < keep \/ ~(below(keep + 1) < up)
        BY <1>5, <4>1, <4>3, <4>4
      <4>5. CASE ~(i < keep) /\ below(keep + 1) < up
        <5>1. i = keep
          BY <4>1, <4>5
        <5>2. e[i].of = "damaged"
          BY <1>5, <4>1, <4>5, <5>1
        <5> QED
          BY <5>2
      <4> QED
        BY <4>4, <4>5
    <3> QED
      BY <3>1
  <2>7. ~shrunk => keep = k
    <3>1. SUFFICES ASSUME ~shrunk, keep > k PROVE FALSE
      BY <2>3
    <3>2. height < size.rows
      BY <3>1 DEF LiveInv, RegionIsReached
    <3>3. keep > 0 /\ keep \in Nat \ {0} /\ below(keep) > up /\ up = height
      BY <1>2, <1>3, <3>1, <3>2
    <3>4. below(keep) <= below(k + 1)
      <4>1. CASE keep = k + 1
        BY <1>6, <3>3, <4>1
      <4>2. CASE keep # k + 1
        <5>1. k + 1 \in 1..Len(term) /\ keep \in Nat /\ k + 1 < keep
          BY <3>1, <4>2
        <5>2. below(keep) < below(k + 1)
          BY <1>1, <5>1, LaterTakesFewer DEF below
        <5>3. below(keep) \in Nat
          BY <1>6, <3>3
        <5> QED
          BY <2>2, <5>2, <5>3
      <4> QED
        BY <4>1, <4>2
    <3>5. below(keep) \in Nat
      BY <1>6, <3>3
    <3> QED
      BY <2>1, <2>2, <3>1, <3>3, <3>4, <3>5
  <2> QED
    BY <2>3, <2>5, <2>6, <2>7
<1>8. ~unwrapped => NumberedTo(e, printed)
  <2> SUFFICES ASSUME ~unwrapped PROVE NumberedTo(e, printed)
    OBVIOUS
  <2>1. PICK k \in 0..Len(term) : LastRegion(k)
    BY DEF LiveInv, RegionHeld
  <2>2. NumberedTo(term, printed)
    BY DEF LiveInv, KeptHeld
  <2>3. \A i \in 1..Len(term) : term[i].of = "kept" => i <= k
    <3>1. SUFFICES ASSUME NEW i \in 1..Len(term), term[i].of = "kept", ~(i <= k) PROVE FALSE
      OBVIOUS
    <3>2. i \in (k + 1)..Len(term)
      BY <3>1
    <3>3. term[i].of = "region"
      BY <2>1, <3>2 DEF LastRegion
    <3> QED
      BY <3>1, <3>3
  <2>4. /\ keep >= k /\ \A i \in 1..k : e[i] = term[i]
        /\ \A i \in (k + 1)..keep : e[i].of # "kept"
    BY <1>7, <2>1
  <2>5. \A i \in 1..Len(e) : e[i].of = "kept" => i \in 1..k /\ i \in 1..Len(term) /\ e[i] = term[i]
    <3>1. SUFFICES ASSUME NEW i \in 1..Len(e), e[i].of = "kept" PROVE i \in 1..k
      BY <2>4
    <3>2. i \in 1..keep
      BY <1>5
    <3>3. ~(i \in (k + 1)..keep)
      BY <2>4, <3>1
    <3> QED
      BY <3>2, <3>3
  <2>6. \A i \in 1..Len(term) : term[i].of = "kept" => i \in 1..Len(e) /\ e[i] = term[i]
    <3>1. SUFFICES ASSUME NEW i \in 1..Len(term), term[i].of = "kept" PROVE i \in 1..Len(e) /\ e[i] = term[i]
      OBVIOUS
    <3>2. i \in 1..k
      BY <2>3, <3>1
    <3> QED
      BY <1>5, <2>4, <3>2
  <2> QED
    BY <2>2, <2>5, <2>6 DEF NumberedTo
<1>9. ~unwrapped => \A i \in 1..Len(e) : e[i].of = "kept" \/ e[i].n \in Left
  <2> SUFFICES ASSUME ~unwrapped, NEW i \in 1..Len(e) PROVE e[i].of = "kept" \/ e[i].n \in Left
    OBVIOUS
  <2>1. PICK k \in 0..Len(term) : LastRegion(k)
    BY DEF LiveInv, RegionHeld
  <2>2. \A j \in 1..k : e[j] = term[j]
    BY <1>7, <2>1
  <2>3. keep >= k /\ (~shrunk => keep = k)
    BY <1>7, <2>1
  <2>4. i \in 1..keep
    BY <1>5
  <2>5. CASE i <= k
    <3>1. i \in 1..k
      BY <2>4, <2>5
    <3>2. e[i] = term[i] /\ (term[i].of = "kept" \/ term[i].n \in stale)
      BY <2>1, <2>2, <3>1 DEF LastRegion
    <3> QED
      BY <3>2 DEF Left
  <2>6. CASE ~(i <= k)
    <3>1. shrunk /\ i \in (k + 1)..Len(term)
      BY <2>3, <2>4, <2>6
    <3>2. term[i].n = draws
      BY <2>1, <3>1 DEF LastRegion
    <3>3. e[i].n = draws
      BY <1>5, <2>4, <3>2
    <3> QED
      BY <3>1, <3>3 DEF Left
  <2> QED
    BY <2>5, <2>6
<1> QED
  BY <1>5, <1>8, <1>9 DEF e, up

-----------------------------------------------------------------------------
(* The steps of the live view.                                             *)

\* Lines after those on the terminal: the kept ones among them are first, and
\* numbered on.
LEMMA NumberedOn ==
  ASSUME NEW e \in Seq(TermLines), NEW t \in Seq(TermLines), NEW p \in Nat, NEW a \in Nat,
         NumberedTo(e, p), a <= Len(t),
         \A i \in 1..a : t[i].of = "kept" /\ t[i].n = p + i,
         \A i \in (a + 1)..Len(t) : t[i].of # "kept"
  PROVE  NumberedTo(e \o t, p + a)
<1> DEFINE list == e \o t
           c == Len(e)
<1>1. list \in Seq(TermLines) /\ Len(list) = c + Len(t) /\ c \in Nat /\ Len(t) \in Nat
  BY ConcatProperties
<1>2. \A i \in 1..(c + Len(t)) : list[i] = IF i <= c THEN e[i] ELSE t[i - c]
  BY ConcatProperties
<1> HIDE DEF list, c
<1>3. \A i \in 1..c : e[i].of = "kept" => e[i].n \in 1..p
  BY DEF NumberedTo, c
<1>4. ASSUME NEW i \in 1..Len(list), list[i].of = "kept"
      PROVE  \/ i \in 1..c /\ list[i] = e[i] /\ list[i].n \in 1..p
             \/ i > c /\ i - c \in 1..a /\ list[i].n = p + (i - c)
  <2>1. CASE i <= c
    BY <1>1, <1>2, <1>3, <1>4, <2>1
  <2>2. CASE ~(i <= c)
    <3>1. i - c \in 1..Len(t) /\ list[i] = t[i - c]
      BY <1>1, <1>2, <2>2
    <3>2. ~(i - c \in (a + 1)..Len(t))
      BY <1>4, <3>1
    <3>3. i - c \in 1..a
      BY <3>1, <3>2
    <3> QED
      BY <1>1, <2>2, <3>1, <3>3
  <2> QED
    BY <2>1, <2>2
<1>5. ASSUME NEW i \in 1..Len(list), list[i].of = "kept" PROVE list[i].n \in 1..(p + a)
  <2>1. CASE list[i].n \in 1..p
    BY <2>1
  <2>2. CASE i - c \in 1..a /\ list[i].n = p + (i - c)
    BY <1>1, <2>2
  <2> QED
    BY <1>4, <1>5, <2>1, <2>2
<1>6. ASSUME NEW m \in 1..(p + a)
      PROVE  \E i \in 1..Len(list) : list[i].of = "kept" /\ list[i].n = m
  <2>1. CASE m <= p
    <3>1. m \in 1..p
      BY <2>1
    <3>2. PICK i \in 1..c : e[i].of = "kept" /\ e[i].n = m
      BY <3>1 DEF NumberedTo, c
    <3>3. i \in 1..Len(list) /\ list[i] = e[i]
      BY <1>1, <1>2
    <3> QED
      BY <3>2, <3>3
  <2>2. CASE ~(m <= p)
    <3> DEFINE i == c + (m - p)
    <3>1. m - p \in 1..a /\ p + (m - p) = m
      BY <2>2
    <3>2. i \in 1..Len(list) /\ ~(i <= c) /\ i - c = m - p
      BY <1>1, <3>1
    <3> HIDE DEF i
    <3>3. list[i] = t[m - p]
      BY <1>1, <1>2, <3>2
    <3>4. t[m - p].of = "kept" /\ t[m - p].n = m
      BY <3>1
    <3> QED
      BY <3>2, <3>3, <3>4
  <2> QED
    BY <2>1, <2>2
<1>7. ASSUME NEW i \in 1..Len(list), NEW j \in 1..Len(list),
             list[i].of = "kept", list[j].of = "kept", i < j
      PROVE  list[i].n < list[j].n
  <2>1. CASE i \in 1..c /\ list[i] = e[i] /\ j \in 1..c /\ list[j] = e[j]
    BY <1>7, <2>1 DEF NumberedTo, c
  <2>2. CASE list[i].n \in 1..p /\ j - c \in 1..a /\ list[j].n = p + (j - c)
    BY <2>2
  <2>3. CASE i - c \in 1..a /\ list[i].n = p + (i - c) /\ j - c \in 1..a /\ list[j].n = p + (j - c)
    BY <1>1, <1>7, <2>3
  <2>4. CASE i > c /\ j \in 1..c
    BY <1>1, <1>7, <2>4
  <2>5. \/ i \in 1..c /\ list[i] = e[i] /\ list[i].n \in 1..p
        \/ i > c /\ i - c \in 1..a /\ list[i].n = p + (i - c)
    BY <1>4, <1>7
  <2>6. \/ j \in 1..c /\ list[j] = e[j] /\ list[j].n \in 1..p
        \/ j > c /\ j - c \in 1..a /\ list[j].n = p + (j - c)
    BY <1>4, <1>7
  <2> QED
    BY <2>1, <2>2, <2>3, <2>4, <2>5, <2>6
<1>8. NumberedTo(list, p + a)
  BY <1>5, <1>6, <1>7 DEF NumberedTo
<1> QED
  BY <1>8 DEF list

\* A frame: what is erased, what is printed for good, and the region that fits.
LEMMA DrawKeeps == PaintConstantsOK /\ LiveInv /\ Draw => LiveInv'
<1> SUFFICES ASSUME PaintConstantsOK, LiveInv, Draw PROVE LiveInv'
  OBVIOUS
<1>1. /\ mode = "live" /\ UNCHANGED <<mode, size, unwrapped>>
      /\ mode \in {"live", "plain", "closed"} /\ size \in Sizes
      /\ term \in Seq(TermLines) /\ height \in Nat /\ printed \in Nat /\ draws \in Nat
      /\ shrunk \in BOOLEAN /\ stale \subseteq Nat /\ unwrapped \in BOOLEAN
  BY DEF Draw, LiveInv, PaintTyped
<1>2. size.rows \in Nat \ {0} /\ size.cols \in Nat \ {0} /\ MaxAbove \in Nat /\ MaxRegion \in Nat
      /\ Widths \subseteq Nat
  BY SizeIsPositive DEF LiveInv, PaintConstantsOK
<1>3. PICK a \in 0..(MaxAbove - printed), r \in 0..MaxRegion :
         \E aw \in [1..a -> Widths], rw \in [1..r -> Widths] :
            draw([i \in 1..a |-> [of |-> "kept", n |-> printed + i, w |-> aw[i]]],
                 [i \in 1..r |-> [of |-> "region", n |-> draws + 1, w |-> rw[i]]])
  BY DEF Draw
<1>4. PICK aw \in [1..a -> Widths], rw \in [1..r -> Widths] :
            draw([i \in 1..a |-> [of |-> "kept", n |-> printed + i, w |-> aw[i]]],
                 [i \in 1..r |-> [of |-> "region", n |-> draws + 1, w |-> rw[i]]])
  BY <1>3
<1> DEFINE more == [i \in 1..a |-> [of |-> "kept", n |-> printed + i, w |-> aw[i]]]
           region == [i \in 1..r |-> [of |-> "region", n |-> draws + 1, w |-> rw[i]]]
           now == Fitting(region, size.rows - 1, size.cols)
           e == Erased(MoveUp)
<1>5. /\ term' = e \o more \o now /\ height' = RowsIn(now, 1, size.cols)
      /\ printed' = printed + Len(more) /\ draws' = draws + 1
      /\ shrunk' = FALSE /\ stale' = Left
  BY <1>4 DEF draw
<1>6. more \in Seq(TermLines) /\ Len(more) = a /\ a \in Nat
      /\ \A i \in 1..a : more[i].of = "kept" /\ more[i].n = printed + i
  <2>1. ASSUME NEW i \in 1..a PROVE [of |-> "kept", n |-> printed + i, w |-> aw[i]] \in TermLines
    <3>1. aw[i] \in Nat
      BY <1>2
    <3>2. printed + i \in Nat
      BY <1>1
    <3> QED
      BY <3>1, <3>2 DEF TermLines
  <2>2. a \in Nat
    OBVIOUS
  <2> QED
    BY <2>1, <2>2
<1>7. region \in Seq(RegionLines(draws + 1))
  <2>1. ASSUME NEW i \in 1..r
        PROVE [of |-> "region", n |-> draws + 1, w |-> rw[i]] \in RegionLines(draws + 1)
    <3>1. rw[i] \in Nat
      BY <1>2
    <3> QED
      BY <3>1 DEF RegionLines
  <2>2. r \in Nat
    OBVIOUS
  <2> QED
    BY <2>1, <2>2
<1>8. /\ now \in Seq(RegionLines(draws + 1))
      /\ RowsIn(now, 1, size.cols) <= size.rows - 1
  <2>1. draws + 1 \in Nat /\ size.rows - 1 \in Nat
    BY <1>1, <1>2
  <2> HIDE DEF region
  <2> QED
    BY <1>2, <1>7, <2>1, FittingFits
<1>9. /\ e \in Seq(TermLines) /\ (~unwrapped => NumberedTo(e, printed))
      /\ ~unwrapped => \A i \in 1..Len(e) : e[i].of = "kept" \/ e[i].n \in Left
  BY <1>1, ErasedKeeps
<1> HIDE DEF more, region, now, e
<1>10. now \in Seq(TermLines) /\ Len(now) \in Nat
       /\ \A i \in 1..Len(now) : now[i].of = "region" /\ now[i].n = draws + 1
  <2>1. draws + 1 \in Nat
    BY <1>1
  <2>2. now \in Seq(TermLines)
    BY <1>8, <2>1, RegionLinesAreLines
  <2>3. \A i \in 1..Len(now) : now[i] \in RegionLines(draws + 1)
    BY <1>8
  <2> QED
    BY <2>2, <2>3 DEF RegionLines
<1> DEFINE good == e \o more
           k == Len(good)
<1>11. good \in Seq(TermLines) /\ k = Len(e) + a /\ Len(e) \in Nat /\ k \in Nat
  <2>1. good \in Seq(TermLines) /\ k = Len(e) + Len(more)
    BY <1>6, <1>9, ConcatProperties
  <2>2. Len(e) \in Nat
    BY <1>9
  <2> HIDE DEF good, k
  <2> QED
    BY <1>6, <2>1, <2>2
<1>12. \A i \in 1..k : good[i] = IF i <= Len(e) THEN e[i] ELSE more[i - Len(e)]
  BY <1>6, <1>9, <1>11, ConcatProperties
<1>13. ~unwrapped => NumberedTo(good, printed + a)
  <2>1. \A i \in (a + 1)..Len(more) : more[i].of # "kept"
    BY <1>6
  <2>2. a <= Len(more)
    BY <1>6
  <2> HIDE DEF good, k
  <2> QED
    BY <1>1, <1>6, <1>9, <2>1, <2>2, NumberedOn DEF good
<1>14. ~unwrapped => \A i \in 1..k : good[i].of = "kept" \/ good[i].n \in Left
  <2> SUFFICES ASSUME ~unwrapped, NEW i \in 1..k PROVE good[i].of = "kept" \/ good[i].n \in Left
    OBVIOUS
  <2>1. CASE i <= Len(e)
    <3>1. good[i] = e[i] /\ i \in 1..Len(e)
      BY <1>11, <1>12, <2>1
    <3> QED
      BY <1>9, <3>1
  <2>2. CASE ~(i <= Len(e))
    <3>1. good[i] = more[i - Len(e)]
      BY <1>12, <2>2
    <3>2. i - Len(e) \in 1..a
      BY <1>11, <2>2
    <3> QED
      BY <1>6, <3>1, <3>2
  <2> QED
    BY <2>1, <2>2
<1>15. term' = good \o now
  BY <1>5
<1> HIDE DEF good
<1> HIDE DEF k
<1>16. /\ term' \in Seq(TermLines) /\ Len(term') = k + Len(now)
       /\ \A i \in 1..(k + Len(now)) : term'[i] = IF i <= k THEN good[i] ELSE now[i - k]
  BY <1>10, <1>11, <1>15, ConcatProperties DEF k
<1>17. height' \in Nat /\ height' < size.rows
  <2>1. 1 \in Nat \ {0}
    OBVIOUS
  <2>2. RowsIn(now, 1, size.cols) \in Nat
    BY <1>2, <1>10, <2>1, RowsAreNat
  <2> QED
    BY <1>2, <1>5, <1>8, <2>2
<1>18. PaintTyped'
  <2>1. printed + a \in Nat /\ printed + a <= MaxAbove
    BY <1>1, <1>2, <1>6
  <2>2. stale' \subseteq Nat /\ shrunk' \in BOOLEAN
    BY <1>1, <1>5 DEF Left
  <2> QED
    BY <1>1, <1>2, <1>5, <1>6, <1>16, <1>17, <2>1, <2>2 DEF PaintTyped
<1>19. ~unwrapped => NumberedTo(term', printed')
  <2> SUFFICES ASSUME ~unwrapped PROVE NumberedTo(good \o now, printed + a)
    BY <1>5, <1>6, <1>15
  <2>1. \A i \in 1..0 : now[i].of = "kept" /\ now[i].n = printed + a + i
    OBVIOUS
  <2>2. \A i \in (0 + 1)..Len(now) : now[i].of # "kept"
    BY <1>10
  <2>3. printed + a \in Nat /\ (printed + a) + 0 = printed + a /\ 0 \in Nat /\ 0 <= Len(now)
    BY <1>1, <1>6, <1>10
  <2>4. NumberedTo(good \o now, (printed + a) + 0)
    BY <1>10, <1>11, <1>13, <2>1, <2>2, <2>3, NumberedOn
  <2> QED
    BY <2>3, <2>4
<1>20. KeptHeld'
  BY <1>1, <1>19 DEF KeptHeld
<1>21. ASSUME ~unwrapped
       PROVE  /\ \A i \in (k + 1)..Len(term') : term'[i].of = "region" /\ term'[i].n = draws'
              /\ height' <= RowsIn(term', k + 1, size'.cols)
              /\ ~shrunk' => height' = RowsIn(term', k + 1, size'.cols)
              /\ \A i \in 1..k : term'[i].of = "kept" \/ term'[i].n \in stale'
  <2>1. ASSUME NEW i \in (k + 1)..Len(term') PROVE term'[i].of = "region" /\ term'[i].n = draws'
    <3>1. i - k \in 1..Len(now) /\ term'[i] = now[i - k]
      BY <1>10, <1>11, <1>16
    <3> QED
      BY <1>5, <1>10, <3>1
  <2>2. height' = RowsIn(term', k + 1, size'.cols)
    <3>1. RowsIn(good \o now, Len(good) + 1, size.cols) = RowsIn(now, 1, size.cols)
      BY <1>2, <1>10, <1>11, RowsOfTheLast
    <3> QED
      BY <1>1, <1>5, <1>15, <3>1 DEF k
  <2>3. \A i \in 1..k : term'[i].of = "kept" \/ term'[i].n \in stale'
    <3> SUFFICES ASSUME NEW i \in 1..k PROVE term'[i].of = "kept" \/ term'[i].n \in Left
      BY <1>5
    <3>1. i \in 1..(k + Len(now)) /\ i <= k
      BY <1>10, <1>11
    <3>2. term'[i] = good[i]
      BY <1>16, <3>1
    <3> QED
      BY <1>14, <1>21, <3>1, <3>2
  <2>4. height' <= RowsIn(term', k + 1, size'.cols)
    BY <1>17, <2>2
  <2> QED
    BY <2>1, <2>2, <2>3, <2>4
<1>22. RegionHeld'
  <2>1. k \in 0..Len(term')
    BY <1>10, <1>11, <1>16
  <2> QED
    BY <1>1, <1>21, <2>1 DEF RegionHeld, LastRegion
<1>23. RegionIsReached'
  BY <1>1, <1>17 DEF RegionIsReached
<1> QED
  BY <1>18, <1>20, <1>22, <1>23 DEF LiveInv

\* The end: the closing lines take the region's place, or go under it.
LEMMA CloseKeeps ==
  ASSUME PaintConstantsOK, LiveInv, NEW failed \in BOOLEAN, Close(failed)
  PROVE  LiveInv'
<1>1. /\ mode = "live" /\ mode' = "closed" /\ UNCHANGED <<size, draws, shrunk, stale, unwrapped>>
      /\ printed' = printed + 1 /\ height' = 0
      /\ size \in Sizes /\ term \in Seq(TermLines) /\ printed \in Nat /\ draws \in Nat
      /\ shrunk \in BOOLEAN /\ stale \subseteq Nat /\ unwrapped \in BOOLEAN /\ printed <= MaxAbove
  BY DEF Close, LiveInv, PaintTyped
<1>2. PICK w \in Widths :
         term' = (IF failed THEN term ELSE Erased(MoveUp)) \o <<[of |-> "kept", n |-> printed + 1, w |-> w]>>
  BY DEF Close
<1> DEFINE e == IF failed THEN term ELSE Erased(MoveUp)
           line == [of |-> "kept", n |-> printed + 1, w |-> w]
           t == <<line>>
<1>3. /\ e \in Seq(TermLines) /\ Len(e) \in Nat
      /\ ~unwrapped => NumberedTo(e, printed)
  <2>1. CASE failed
    <3>1. e = term
      BY <2>1
    <3> HIDE DEF e
    <3> QED
      BY <1>1, <3>1 DEF LiveInv, KeptHeld
  <2>2. CASE ~failed
    <3>1. e = Erased(MoveUp)
      BY <2>2
    <3>2. /\ e \in Seq(TermLines)
          /\ ~unwrapped => NumberedTo(e, printed)
      BY <1>1, <3>1, ErasedKeeps
    <3> HIDE DEF e
    <3>3. Len(e) \in Nat
      BY <3>2
    <3> QED
      BY <3>2, <3>3
  <2> QED
    BY <2>1, <2>2
<1>4. line \in TermLines /\ line.of = "kept" /\ line.n = printed + 1
  <2>1. w \in Nat
    BY DEF PaintConstantsOK
  <2>2. printed + 1 \in Nat
    BY <1>1
  <2> QED
    BY <2>1, <2>2 DEF TermLines
<1> HIDE DEF e, line
<1>5. t \in Seq(TermLines) /\ Len(t) = 1 /\ t[1] = line
  BY <1>4
<1>6. term' = e \o t
  BY <1>2 DEF e, line
<1> HIDE DEF t
<1>7. /\ term' \in Seq(TermLines) /\ Len(term') = Len(e) + 1
      /\ \A i \in 1..(Len(e) + 1) : term'[i] = IF i <= Len(e) THEN e[i] ELSE t[i - Len(e)]
  <2> DEFINE list == e \o t
  <2>1. list \in Seq(TermLines) /\ Len(list) = Len(e) + Len(t)
    BY <1>3, <1>5, ConcatProperties
  <2>2. \A i \in 1..(Len(e) + Len(t)) : list[i] = IF i <= Len(e) THEN e[i] ELSE t[i - Len(e)]
    BY <1>3, <1>5, ConcatProperties
  <2>3. term' = list
    BY <1>6
  <2> HIDE DEF list
  <2> QED
    BY <1>5, <2>1, <2>2, <2>3
<1>8. PaintTyped'
  <2>1. printed + 1 \in Nat /\ printed + 1 <= MaxAbove + 1
    BY <1>1 DEF PaintConstantsOK
  <2> QED
    BY <1>1, <1>7, <2>1 DEF PaintTyped
<1>9. ~unwrapped => NumberedTo(term', printed')
  <2> SUFFICES ASSUME ~unwrapped PROVE NumberedTo(e \o t, printed + 1)
    BY <1>1, <1>6
  <2>1. \A i \in 1..1 : t[i].of = "kept" /\ t[i].n = printed + i
    BY <1>4, <1>5
  <2>2. \A i \in (1 + 1)..Len(t) : t[i].of # "kept"
    BY <1>5
  <2>3. 1 \in Nat /\ 1 <= Len(t)
    BY <1>5
  <2> QED
    BY <1>1, <1>3, <1>5, <2>1, <2>2, <2>3, NumberedOn
<1>10. KeptHeld'
  BY <1>1, <1>9 DEF KeptHeld
<1>11. RegionHeld' /\ RegionIsReached'
  BY <1>1 DEF RegionHeld, RegionIsReached
<1> QED
  BY <1>8, <1>10, <1>11 DEF LiveInv

\* A pane resized: narrower, its lines take no fewer rows; wider, those on one
\* row take one.
LEMMA ResizeKeeps == PaintConstantsOK /\ LiveInv /\ Resize => LiveInv'
<1> SUFFICES ASSUME PaintConstantsOK, LiveInv, Resize PROVE LiveInv'
  OBVIOUS
<1>1. /\ mode = "live" /\ UNCHANGED <<mode, term, height, printed, draws, stale>>
      /\ size \in Sizes /\ term \in Seq(TermLines) /\ height \in Nat
      /\ shrunk \in BOOLEAN /\ unwrapped \in BOOLEAN
  BY DEF Resize, LiveInv, PaintTyped
<1>2. PICK to \in Sizes \ {size} :
         /\ size' = to
         /\ shrunk' = (shrunk \/ (height > 0 /\ (to.cols < size.cols \/ to.rows < size.rows)))
         /\ unwrapped' = (unwrapped \/ (to.cols > size.cols /\
                            \E i \in DOMAIN term : /\ term[i].of = "region"
                                                   /\ rows_of(term[i].w, size.cols) > 1))
  BY DEF Resize
<1>3. /\ size.rows \in Nat \ {0} /\ size.cols \in Nat \ {0}
      /\ to.rows \in Nat \ {0} /\ to.cols \in Nat \ {0}
  BY <1>1 DEF PaintConstantsOK
<1>4. PaintTyped'
  <2>1. shrunk' \in BOOLEAN /\ unwrapped' \in BOOLEAN
    BY <1>2
  <2> QED
    BY <1>1, <1>2, <2>1 DEF LiveInv, PaintTyped
<1>5. (unwrapped => unwrapped') /\ (shrunk => shrunk')
  BY <1>2
<1>6. KeptHeld'
  BY <1>1, <1>5 DEF LiveInv, KeptHeld
<1>7. RegionIsReached'
  <2> SUFFICES ASSUME ~shrunk' PROVE height < to.rows
    BY <1>1, <1>2 DEF RegionIsReached
  <2>1. height < size.rows
    BY <1>1, <1>5 DEF LiveInv, RegionIsReached
  <2>2. ~(height > 0 /\ to.rows < size.rows)
    BY <1>2
  <2> QED
    BY <1>1, <1>3, <2>1, <2>2
<1>8. ASSUME ~unwrapped', NEW k \in 0..Len(term), LastRegion(k)
      PROVE  /\ \A i \in (k + 1)..Len(term) : term[i].of = "region" /\ term[i].n = draws
             /\ height <= RowsIn(term, k + 1, to.cols)
             /\ ~shrunk' => height = RowsIn(term, k + 1, to.cols)
             /\ \A i \in 1..k : term[i].of = "kept" \/ term[i].n \in stale
  <2> DEFINE old == RowsIn(term, k + 1, size.cols)
             new == RowsIn(term, k + 1, to.cols)
  <2>1. /\ \A i \in (k + 1)..Len(term) : term[i].of = "region" /\ term[i].n = draws
        /\ height <= old /\ (~shrunk => height = old)
        /\ \A i \in 1..k : term[i].of = "kept" \/ term[i].n \in stale
    BY <1>8 DEF LastRegion
  <2>2. k + 1 \in Nat \ {0} /\ k \in Nat /\ Len(term) \in Nat
    BY <1>1
  <2>3. old \in Nat
    BY <1>1, <1>3, <2>2, RowsAreNat
  <2>4. new \in Nat
    BY <1>1, <1>3, <2>2, RowsAreNat
  <2>5. CASE to.cols <= size.cols
    <3>1. ASSUME NEW i \in (k + 1)..Len(term)
          PROVE rows_of(term[i].w, size.cols) <= rows_of(term[i].w, to.cols)
      <4>1. i \in 1..Len(term)
        BY <2>2
      <4>2. term[i].w \in Nat
        BY <1>1, <1>3, <4>1, RowsOfLine
      <4> QED
        BY <1>3, <2>5, <4>2, NarrowerTakesMore
    <3> HIDE DEF old, new
    <3>2. old <= new
      BY <1>1, <1>3, <2>2, <3>1, MoreRowsEach DEF old, new
    <3>3. ~shrunk' => height = new
      <4> SUFFICES ASSUME ~shrunk' PROVE height = new
        OBVIOUS
      <4>1. height = old
        BY <1>5, <2>1
      <4>2. CASE to.cols = size.cols
        BY <4>1, <4>2 DEF old, new
      <4>3. CASE to.cols < size.cols
        <5>0. ~(height > 0)
          BY <1>2, <4>3
        <5>1. old = 0
          BY <1>1, <4>1, <5>0
        <5>2. k + 1 > Len(term)
          <6>1. SUFFICES ASSUME k + 1 \in 1..Len(term) PROVE FALSE
            BY <2>2
          <6>2. Len(term) + 1 \in Nat /\ k + 1 < Len(term) + 1 /\ Len(term) + 1 \in Nat \ {0}
            BY <2>2, <6>1
          <6>3. RowsIn(term, Len(term) + 1, size.cols) < old
            BY <1>1, <1>3, <6>1, <6>2, LaterTakesFewer DEF old
          <6>4. RowsIn(term, Len(term) + 1, size.cols) \in Nat
            BY <1>1, <1>3, <6>2, RowsAreNat
          <6> QED
            BY <5>1, <6>3, <6>4
        <5>3. new = 0
          BY <1>1, <1>3, <2>2, <5>2, NoLineNoRow DEF new
        <5> QED
          BY <4>1, <5>1, <5>3
      <4> QED
        BY <1>3, <2>5, <4>2, <4>3
    <3> QED
      BY <1>1, <1>5, <2>1, <2>3, <2>4, <3>2, <3>3 DEF new
  <2>6. CASE to.cols > size.cols
    <3>1. ASSUME NEW i \in (k + 1)..Len(term)
          PROVE rows_of(term[i].w, size.cols) = rows_of(term[i].w, to.cols)
      <4>1. i \in 1..Len(term) /\ i \in DOMAIN term
        BY <1>1, <2>2
      <4>2. term[i].w \in Nat
        BY <1>1, <1>3, <4>1, RowsOfLine
      <4>3. rows_of(term[i].w, size.cols) \in Nat \ {0}
        BY <1>1, <1>3, <4>1, RowsOfLine
      <4>4. ~(rows_of(term[i].w, size.cols) > 1)
        BY <1>2, <1>8, <2>1, <2>6, <4>1
      <4>5. rows_of(term[i].w, size.cols) <= 1 /\ size.cols <= to.cols
        BY <1>3, <2>6, <4>3, <4>4
      <4> QED
        BY <1>3, <4>2, <4>5, OneRowStays
    <3> HIDE DEF old, new
    <3>2. old = new
      BY <1>1, <1>3, <2>2, <3>1, SameRowsEach DEF old, new
    <3> QED
      BY <1>5, <2>1, <3>2 DEF new
  <2> QED
    BY <1>3, <2>5, <2>6
<1>9. RegionHeld'
  <2> SUFFICES ASSUME ~unwrapped' PROVE \E k \in 0..Len(term') : LastRegion(k)'
    BY DEF RegionHeld
  <2>1. PICK k \in 0..Len(term) : LastRegion(k)
    BY <1>1, <1>5 DEF LiveInv, RegionHeld
  <2> QED
    BY <1>1, <1>2, <1>8, <2>1 DEF LastRegion
<1> QED
  BY <1>4, <1>6, <1>7, <1>9 DEF LiveInv

-----------------------------------------------------------------------------
(* Plain output.                                                           *)

\* What a plain run printed of a line pacman ended.
PlainLines == [line : Seq(Chars), over : Seq(Chars), out : Seq(Chars)]

\* What the current output line shows is what is taken as shown, and every line
\* is whole.
PlainInv ==
  /\ unfinished \in Seq(Chars) /\ visible \in Seq(Chars) /\ row = visible
  /\ output \in Seq(PlainLines)
  /\ PlainIsWhole

\* All of a list is the list.
LEMMA AllOfIt ==
  ASSUME NEW S, NEW a \in Seq(S)
  PROVE  SubSeq(a, 1, Len(a)) = a
<1> DEFINE b == SubSeq(a, 1, Len(a))
<1>1. b \in Seq(S) /\ Len(b) = Len(a) /\ \A i \in 1..Len(a) : b[i] = a[i]
  OBVIOUS
<1> HIDE DEF b
<1>2. b = a
  BY <1>1, SeqEqual
<1> QED
  BY <1>2 DEF b

\* Two lists have a longest common beginning.
LEMMA SameHolds ==
  ASSUME NEW S, NEW a \in Seq(S), NEW b \in Seq(S)
  PROVE  /\ Same(a, b) \in 0..Len(a) /\ Same(a, b) <= Len(b)
         /\ SubSeq(a, 1, Same(a, b)) = SubSeq(b, 1, Same(a, b))
<1> DEFINE Common(n) == n <= Len(b) /\ SubSeq(a, 1, n) = SubSeq(b, 1, n)
           S0 == {d \in 0..Len(a) : Common(Len(a) - d)}
<1>0. Len(a) \in Nat /\ Len(b) \in Nat
  OBVIOUS
<1>1. Len(a) \in S0
  <2>1. SubSeq(a, 1, 0) = <<>> /\ SubSeq(b, 1, 0) = <<>> /\ Len(a) - Len(a) = 0
    BY <1>0
  <2> QED
    BY <1>0, <2>1
<1>2. PICK d \in S0 : \A e \in S0 : d <= e
  <2>1. S0 \subseteq Nat /\ S0 # {}
    BY <1>1
  <2> HIDE DEF S0
  <2> QED
    BY <2>1, LeastExists
<1> DEFINE n == Len(a) - d
<1>3. n \in 0..Len(a) /\ Common(n) /\ d \in 0..Len(a)
  BY <1>0, <1>2
<1>4. n < Len(a) /\ n < Len(b) => a[n + 1] # b[n + 1]
  <2>1. SUFFICES ASSUME n < Len(a), n < Len(b), a[n + 1] = b[n + 1] PROVE FALSE
    OBVIOUS
  <2> DEFINE m == n + 1
  <2>2. m \in 1..Len(a) /\ m <= Len(b) /\ Len(a) - (d - 1) = m /\ d - 1 \in 0..Len(a) /\ m = n + 1
    BY <1>0, <1>3, <2>1
  <2>3. SubSeq(a, 1, m) = SubSeq(b, 1, m)
    <3> DEFINE x == SubSeq(a, 1, m)
               y == SubSeq(b, 1, m)
    <3> HIDE DEF m, n
    <3>1. x \in Seq(S) /\ Len(x) = m /\ \A i \in 1..m : x[i] = a[i]
      BY <2>2
    <3>2. y \in Seq(S) /\ Len(y) = m /\ \A i \in 1..m : y[i] = b[i]
      BY <2>2
    <3>3. ASSUME NEW i \in 1..m PROVE x[i] = y[i]
      <4>1. CASE i = m
        BY <2>1, <2>2, <3>1, <3>2, <4>1
      <4>2. CASE i # m
        <5>1. i \in 1..n
          BY <1>3, <2>2, <4>2
        <5>2. SubSeq(a, 1, n)[i] = a[i] /\ SubSeq(b, 1, n)[i] = b[i]
          BY <1>0, <1>3, <5>1
        <5> QED
          BY <1>3, <3>1, <3>2, <5>2
      <4> QED
        BY <4>1, <4>2
    <3> HIDE DEF x, y
    <3>4. x = y
      BY <3>1, <3>2, <3>3, SeqEqual
    <3> QED
      BY <3>4 DEF x, y
  <2>4. d - 1 \in S0
    BY <2>2, <2>3
  <2>5. d \in Int
    BY <1>0, <1>3
  <2> HIDE DEF S0
  <2>6. d <= d - 1
    BY <1>2, <2>4
  <2> QED
    BY <2>5, <2>6
<1> HIDE DEF n
<1>5. \E k \in 0..Len(a) : /\ k <= Len(b) /\ SubSeq(a, 1, k) = SubSeq(b, 1, k)
                           /\ k < Len(a) /\ k < Len(b) => a[k + 1] # b[k + 1]
  BY <1>3, <1>4
<1> QED
  BY <1>5 DEF Same

\* A line of which a beginning is shown is whole with the rest of it.
LEMMA RestOfIt ==
  ASSUME NEW S, NEW a \in Seq(S), NEW b \in Seq(S), IsPrefix(a, b)
  PROVE  a \o SubSeq(b, Len(a) + 1, Len(b)) = b
<1>1. Len(a) \in 0..Len(b) /\ SubSeq(a, 1, Len(a)) = SubSeq(b, 1, Len(a))
  BY DEF IsPrefix
<1>2. SubSeq(a, 1, Len(a)) = a
  BY AllOfIt
<1>3. b = SubSeq(b, 1, Len(a)) \o SubSeq(b, Len(a) + 1, Len(b))
  BY <1>1, CutInTwo
<1> QED
  BY <1>1, <1>2, <1>3

\* Typing changes the line pacman has not ended, nothing that is shown.
LEMMA TypesKeeps == PlainInv /\ Types => PlainInv'
<1> SUFFICES ASSUME PlainInv, Types PROVE PlainInv'
  OBVIOUS
<1>1. UNCHANGED <<visible, row, output>> /\ unfinished \in Seq(Chars)
  BY DEF Types, PlainInv
<1>2. unfinished' \in Seq(Chars)
  <2>1. CASE \E c \in Chars : unfinished' = Append(unfinished, c)
    BY <1>1, <2>1
  <2>2. CASE unfinished # <<>> /\ unfinished' = Front(unfinished)
    <3>1. Len(unfinished) \in Nat \ {0}
      BY <1>1, <2>2
    <3>2. SubSeq(unfinished, 1, Len(unfinished) - 1) \in Seq(Chars)
      BY <1>1, <3>1
    <3> QED
      BY <2>2, <3>2 DEF Front
  <2>3. CASE \E c \in Chars : unfinished' = <<c>>
    BY <2>3
  <2> QED
    BY <2>1, <2>2, <2>3 DEF Types
<1> QED
  BY <1>1, <1>2 DEF PlainInv, PlainIsWhole

\* What differs is taken back, and what is new comes after it.
LEMMA PromptKeeps ==
  ASSUME PlainInv, NEW idle \in BOOLEAN, Prompt(idle)
  PROVE  PlainInv'
<1> DEFINE same == Same(visible, unfinished)
           gone == Len(visible) - same
           added == SubSeq(unfinished, same + 1, Len(unfinished))
<1>1. /\ UNCHANGED <<unfinished, output>> /\ visible' = unfinished
      /\ row' = SubSeq(row, 1, Len(row) - gone) \o added
      /\ unfinished \in Seq(Chars) /\ visible \in Seq(Chars) /\ row = visible
  BY DEF Prompt, PlainInv
<1>2. /\ same \in 0..Len(visible) /\ same <= Len(unfinished)
      /\ SubSeq(visible, 1, same) = SubSeq(unfinished, 1, same)
  BY <1>1, SameHolds
<1> HIDE DEF same
<1>3. Len(row) - gone = same
  BY <1>1, <1>2
<1>4. same \in 0..Len(unfinished)
  BY <1>1, <1>2
<1>5. unfinished = SubSeq(unfinished, 1, same) \o added
  BY <1>1, <1>4, CutInTwo
<1>6. row' = unfinished
  BY <1>1, <1>2, <1>3, <1>5
<1> QED
  BY <1>1, <1>6 DEF PlainInv, PlainIsWhole

\* A line pacman ends comes out whole, after what was shown in its place.
LEMMA LineKeeps == PlainInv /\ Line => PlainInv'
<1> SUFFICES ASSUME PlainInv, Line PROVE PlainInv'
  OBVIOUS
<1> DEFINE rest == IF IsPrefix(visible, unfinished)
                   THEN SubSeq(unfinished, Len(visible) + 1, Len(unfinished)) ELSE unfinished
           new == [line |-> unfinished, out |-> row \o rest, over |-> visible]
<1>1. /\ unfinished' = <<>> /\ visible' = <<>> /\ row' = <<>>
      /\ output' = Append(output, new)
      /\ unfinished \in Seq(Chars) /\ visible \in Seq(Chars) /\ row = visible
      /\ output \in Seq(PlainLines) /\ PlainIsWhole
  BY DEF Line, PlainInv
<1>2. rest \in Seq(Chars)
  <2>1. CASE IsPrefix(visible, unfinished)
    <3>1. Len(visible) \in Nat /\ Len(visible) <= Len(unfinished)
      BY <1>1, <2>1 DEF IsPrefix
    <3>2. SubSeq(unfinished, Len(visible) + 1, Len(unfinished)) \in Seq(Chars)
      BY <1>1, <3>1
    <3> QED
      BY <2>1, <3>2
  <2>2. CASE ~IsPrefix(visible, unfinished)
    BY <1>1, <2>2
  <2> QED
    BY <2>1, <2>2
<1>3. \/ row \o rest = unfinished
      \/ ~IsPrefix(visible, unfinished) /\ row \o rest = visible \o unfinished
  <2>1. CASE IsPrefix(visible, unfinished)
    BY <1>1, <2>1, RestOfIt
  <2>2. CASE ~IsPrefix(visible, unfinished)
    BY <1>1, <2>2
  <2> QED
    BY <2>1, <2>2
<1>4. row \o rest \in Seq(Chars)
  <2> HIDE DEF rest
  <2> QED
    BY <1>1, <1>2, ConcatProperties
<1>5. /\ new \in PlainLines
      /\ \/ new.out = new.line
         \/ ~IsPrefix(new.over, new.line) /\ new.out = new.over \o new.line
  <2> HIDE DEF rest
  <2>1. new \in PlainLines
    BY <1>1, <1>4 DEF PlainLines
  <2> QED
    BY <1>3, <2>1
<1> HIDE DEF new, rest
<1>6. output' \in Seq(PlainLines) /\ Len(output') = Len(output) + 1 /\ Len(output) \in Nat
      /\ \A i \in 1..(Len(output) + 1) : output'[i] = IF i <= Len(output) THEN output[i] ELSE new
  BY <1>1, <1>5
<1>7. ASSUME NEW i \in DOMAIN output'
      PROVE  \/ output'[i].out = output'[i].line
             \/ ~IsPrefix(output'[i].over, output'[i].line)
                /\ output'[i].out = output'[i].over \o output'[i].line
  <2>1. i \in 1..(Len(output) + 1)
    BY <1>6, <1>7
  <2>2. CASE i <= Len(output)
    <3>1. i \in DOMAIN output /\ output'[i] = output[i]
      BY <1>1, <1>6, <2>1, <2>2
    <3> QED
      BY <1>1, <3>1 DEF PlainIsWhole
  <2>3. CASE ~(i <= Len(output))
    <3>1. output'[i] = new
      BY <1>6, <2>1, <2>3
    <3> QED
      BY <1>5, <3>1
  <2> QED
    BY <2>2, <2>3
<1>8. PlainIsWhole'
  BY <1>1, <1>7 DEF PlainIsWhole
<1>9. <<>> \in Seq(Chars)
  OBVIOUS
<1> QED
  BY <1>1, <1>6, <1>8, <1>9 DEF PlainInv

-----------------------------------------------------------------------------
(* The specification.                                                      *)

PaintInv == LiveInv /\ PlainInv

LEMMA PaintStarts == PaintConstantsOK /\ PaintInit => PaintInv
<1> SUFFICES ASSUME PaintConstantsOK, PaintInit PROVE PaintInv
  OBVIOUS
<1>1. /\ mode \in {"live", "plain"} /\ size \in Sizes
      /\ term = <<>> /\ height = 0 /\ printed = 0 /\ draws = 0
      /\ shrunk = FALSE /\ stale = {} /\ unwrapped = FALSE
      /\ unfinished = <<>> /\ visible = <<>> /\ row = <<>> /\ output = <<>>
  BY DEF PaintInit
<1>2. size.rows \in Nat \ {0} /\ size.cols \in Nat \ {0} /\ MaxAbove \in Nat
  BY <1>1 DEF PaintConstantsOK
<1>3. PaintTyped
  <2>1. term \in Seq(TermLines)
    BY <1>1
  <2>2. printed <= MaxAbove + 1 /\ printed <= MaxAbove /\ printed \in Nat
    BY <1>1, <1>2
  <2>3. mode \in {"live", "plain", "closed"} /\ height \in Nat /\ draws \in Nat
        /\ shrunk \in BOOLEAN /\ stale \subseteq Nat /\ unwrapped \in BOOLEAN
    BY <1>1
  <2> QED
    BY <1>1, <2>1, <2>2, <2>3 DEF PaintTyped
<1>4. NumberedTo(term, printed)
  BY <1>1 DEF NumberedTo
<1>5. KeptHeld
  BY <1>1, <1>4 DEF KeptHeld
<1>6. RegionIsReached
  BY <1>1, <1>2 DEF RegionIsReached
<1>7. LastRegion(0)
  <2>1. term \in Seq(TermLines) /\ 0 + 1 \in Nat \ {0} /\ 0 + 1 > Len(term)
    BY <1>1
  <2>2. RowsIn(term, 0 + 1, size.cols) = 0
    BY <1>2, <2>1, NoLineNoRow
  <2> QED
    BY <1>1, <2>2 DEF LastRegion
<1>8. RegionHeld
  <2>1. 0 \in 0..Len(term)
    BY <1>1
  <2> QED
    BY <1>7, <2>1 DEF RegionHeld
<1>9. PlainInv
  BY <1>1 DEF PlainInv, PlainIsWhole
<1> QED
  BY <1>3, <1>5, <1>6, <1>8, <1>9 DEF PaintInv, LiveInv

LEMMA PaintSteps == PaintConstantsOK /\ PaintInv /\ [PaintNext]_paintvars => PaintInv'
<1> SUFFICES ASSUME PaintConstantsOK, PaintInv, [PaintNext]_paintvars PROVE PaintInv'
  OBVIOUS
<1> USE DEF PaintInv
<1>live. ASSUME UNCHANGED <<mode, live>> PROVE LiveInv'
  BY <1>live DEF live, LiveInv, PaintTyped, KeptHeld, RegionHeld, LastRegion, RegionIsReached,
         NumberedTo
<1>plain. ASSUME UNCHANGED plain PROVE PlainInv'
  BY <1>plain DEF plain, PlainInv, PlainIsWhole
<1>1. CASE Draw
  BY <1>1, <1>plain, DrawKeeps DEF Draw
<1>2. CASE Resize
  BY <1>2, <1>plain, ResizeKeeps DEF Resize
<1>3. ASSUME NEW failed \in BOOLEAN, Close(failed) PROVE PaintInv'
  BY <1>3, <1>plain, CloseKeeps DEF Close
<1>4. CASE Types
  BY <1>4, <1>live, TypesKeeps DEF Types
<1>5. CASE Line
  BY <1>5, <1>live, LineKeeps DEF Line
<1>6. ASSUME NEW idle \in BOOLEAN, Prompt(idle) PROVE PaintInv'
  BY <1>6, <1>live, PromptKeeps DEF Prompt
<1>7. CASE UNCHANGED paintvars
  <2>1. UNCHANGED <<mode, live>> /\ UNCHANGED plain
    BY <1>7 DEF paintvars
  <2> QED
    BY <1>live, <1>plain, <2>1
<1> QED
  BY <1>1, <1>2, <1>3, <1>4, <1>5, <1>6, <1>7 DEF PaintNext

\* What the invariant says of the terminal is what the properties ask.
LEMMA InvShows == PaintConstantsOK /\ PaintInv => PaintTypeOK /\ PainterKeepsTheTerminal
<1> SUFFICES ASSUME PaintConstantsOK, PaintInv PROVE PaintTypeOK /\ PainterKeepsTheTerminal
  OBVIOUS
<1>1. /\ PaintTyped /\ KeptHeld /\ RegionHeld /\ RegionIsReached /\ PlainInv
      /\ DOMAIN term = 1..Len(term) /\ Len(term) \in Nat
      /\ \A i \in 1..Len(term) : term[i] \in TermLines
  BY DEF PaintInv, LiveInv, PaintTyped
<1>2. PaintTypeOK
  BY <1>1 DEF PaintTypeOK, PaintTyped, PaintConstantsOK, TermLines
<1>3. KeptStays
  <2> SUFFICES ASSUME ~unwrapped
               PROVE  /\ {term[i].n : i \in Kept} = 1..printed
                      /\ \A i, j \in Kept : i < j => term[i].n < term[j].n
    BY DEF KeptStays
  <2>1. NumberedTo(term, printed)
    BY <1>1 DEF KeptHeld
  <2>2. {term[i].n : i \in Kept} = 1..printed
    BY <1>1, <2>1 DEF NumberedTo, Kept
  <2>3. \A i, j \in Kept : i < j => term[i].n < term[j].n
    BY <1>1, <2>1 DEF NumberedTo, Kept
  <2> QED
    BY <2>2, <2>3
<1>4. RegionIsLast
  <2> SUFFICES ASSUME ~unwrapped, mode = "live", NEW i \in DOMAIN term,
                      ~(term[i].of = "kept" \/ term[i].n \in stale)
               PROVE  \A j \in i..Len(term) : term[j].of = "region" /\ term[j].n = draws
    BY DEF RegionIsLast
  <2>1. PICK k \in 0..Len(term) : LastRegion(k)
    BY <1>1 DEF RegionHeld
  <2>2. /\ \A j \in (k + 1)..Len(term) : term[j].of = "region" /\ term[j].n = draws
        /\ \A j \in 1..k : term[j].of = "kept" \/ term[j].n \in stale
    BY <2>1 DEF LastRegion
  <2>3. ~(i \in 1..k)
    BY <2>2
  <2>4. \A j \in i..Len(term) : j \in (k + 1)..Len(term)
    BY <1>1, <2>3
  <2> QED
    BY <2>2, <2>4
<1>5. PlainIsWhole
  BY <1>1 DEF PlainInv
<1> QED
  BY <1>1, <1>2, <1>3, <1>4, <1>5 DEF PainterKeepsTheTerminal

\* The painter's state stays of its types: the lines of the terminal are printed
\* for good, of a region, or damaged, and no more is printed than there was.
THEOREM PaintTypes == ASSUME PaintConstantsOK PROVE PaintSpec => []PaintTypeOK
<1>1. PaintInit => PaintInv
  BY PaintStarts
<1>2. PaintInv /\ [PaintNext]_paintvars => PaintInv'
  BY PaintSteps
<1>3. PaintInv => PaintTypeOK
  BY InvShows
<1> QED
  BY <1>1, <1>2, <1>3, PTL DEF PaintSpec

\* On terminals of any sizes, whatever is drawn and resized, as long as no pane
\* is made wider over a wrapped line of the region: what was printed for good
\* stays whole and in order, and under it there is only the last region, but for
\* rows of frames that were on screen when the pane got smaller.  Each frame
\* reaches the first row of a region drawn for the size it still has.  Plain
\* output shows pacman's lines whole.
THEOREM TheTerminalIsKept ==
  ASSUME PaintConstantsOK PROVE PaintSpec => []PainterKeepsTheTerminal
<1>1. PaintInit => PaintInv
  BY PaintStarts
<1>2. PaintInv /\ [PaintNext]_paintvars => PaintInv'
  BY PaintSteps
<1>3. PaintInv => PainterKeepsTheTerminal
  BY InvShows
<1> QED
  BY <1>1, <1>2, <1>3, PTL DEF PaintSpec

-----------------------------------------------------------------------------
(* What a frame sends for good (Frames).                                   *)

Kinds == DOMAIN Grammar
Items == [what : {"line", "phase"}, at : Nat]
Marks == [lines : 0..Len(lines), unknown : 0..Len(lines), phases : 0..Phases]

FrameTyped ==
  /\ layout \in Layouts
  /\ lines \in Seq(Kinds) /\ unknown_at \in SUBSET (1..Len(lines))
  /\ phases \in [1..Phases -> {"Pending", "Running", "Done"}]
  /\ sent \in Marks /\ above \in Seq(Items)

\* The list `a` is what a run that sent as much as `d` says has to show.
InTurn(a) == \A i, j \in DOMAIN a : i < j /\ a[i].what = a[j].what => a[i].at < a[j].at
Behind(a, d) ==
  \A i \in DOMAIN a :
    /\ a[i].what = "line" => a[i].at <= d.unknown
    /\ a[i].what = "phase" => a[i].at <= d.phases
Item(w, n) == [what |-> w, at |-> n]
GoneUp(at) == layout = "Nom" \/ GoesUp(at)
LinesTold(a, d) ==
  \A at \in 1..d.unknown : GoneUp(at) => \E i \in DOMAIN a : a[i] = Item("line", at)
OnlyOver(a) == \A i \in DOMAIN a : a[i].what = "phase" => a[i].at \in 1..Phases /\ phases[a[i].at] = "Done"
PhasesTold(a, d) ==
  \A k \in 1..d.phases :
    /\ phases[k] = "Done" \/ Passed(k)
    /\ phases[k] = "Done" => \E i \in DOMAIN a : a[i] = Item("phase", k)

Told(a, d) ==
  /\ a \in Seq(Items) /\ d \in Marks
  /\ layout = "Nom" => d.lines = d.unknown
  /\ InTurn(a) /\ Behind(a, d) /\ LinesTold(a, d) /\ OnlyOver(a) /\ PhasesTold(a, d)

\* `s` is the lines a part of a frame sends, that takes `d` to `e`.
Sends(s, d, e) ==
  /\ s \in Seq(Nat) /\ e \in Marks
  /\ d.unknown <= e.unknown /\ e.phases = d.phases
  /\ layout = "Nom" => e.lines = e.unknown
  /\ \A i, j \in DOMAIN s : i < j => s[i] < s[j]
  /\ \A i \in DOMAIN s : s[i] \in (d.unknown + 1)..e.unknown
  /\ \A at \in (d.unknown + 1)..e.unknown : GoneUp(at) => \E i \in DOMAIN s : s[i] = at

FrameInv == FrameTyped /\ Told(above, sent)

-----------------------------------------------------------------------------
\* A set of numbers in order: each once, ascending.
LEMMA Ascending ==
  ASSUME NEW S \in SUBSET Nat, IsFiniteSet(S)
  PROVE  /\ InOrder(S) \in Seq(S) /\ Len(InOrder(S)) = Cardinality(S)
         /\ DOMAIN InOrder(S) = 1..Cardinality(S)
         /\ \A i, j \in DOMAIN InOrder(S) : i < j => InOrder(S)[i] < InOrder(S)[j]
         /\ \A x \in S : \E k \in DOMAIN InOrder(S) : InOrder(S)[k] = x
<1> DEFINE n == Cardinality(S)
           Below(x) == {e \in S : e < x}
           rank == [x \in S |-> Cardinality(Below(x)) + 1]
           s == InOrder(S)
<1>0. \A x \in S : x \in Nat
  OBVIOUS
<1>1. n \in Nat
  BY FS_CardinalityType
<1>2. ASSUME NEW x \in S
      PROVE  IsFiniteSet(Below(x)) /\ Cardinality(Below(x)) \in 0..(n - 1)
  <2>1. IsFiniteSet(S \ {x}) /\ Cardinality(S \ {x}) = n - 1
    BY FS_RemoveElement
  <2>2. Below(x) \in SUBSET (S \ {x})
    OBVIOUS
  <2>3. IsFiniteSet(Below(x)) /\ Cardinality(Below(x)) <= n - 1
    BY <2>1, <2>2, FS_Subset
  <2>4. Cardinality(Below(x)) \in Nat
    BY <2>3, FS_CardinalityType
  <2> QED
    BY <1>1, <2>3, <2>4
<1>3. ASSUME NEW x \in S, NEW y \in S, x < y PROVE Cardinality(Below(x)) < Cardinality(Below(y))
  <2>0. x \in Nat /\ y \in Nat /\ x < y
    BY <1>0, <1>3
  <2>1. Below(x) \in SUBSET Below(y)
    <3>1. \A e \in S : e < x => e < y
      BY <1>0, <2>0
    <3> QED
      BY <3>1
  <2>2. x \in Below(y) /\ x \notin Below(x)
    BY <1>3
  <2>3. /\ Cardinality(Below(x)) <= Cardinality(Below(y))
        /\ Cardinality(Below(y)) = Cardinality(Below(x)) => Below(y) = Below(x)
    BY <1>2, <2>1, FS_Subset
  <2>4. Cardinality(Below(x)) # Cardinality(Below(y))
    BY <2>2, <2>3
  <2> QED
    BY <1>2, <2>3, <2>4
<1>4. rank \in Injection(S, 1..n)
  <2>1. \A x \in S : rank[x] \in 1..n
    BY <1>1, <1>2
  <2>2. \A x, y \in S : x < y => rank[x] < rank[y]
    <3> SUFFICES ASSUME NEW x \in S, NEW y \in S, x < y PROVE rank[x] < rank[y]
      OBVIOUS
    <3>1. Cardinality(Below(x)) < Cardinality(Below(y))
      BY <1>3
    <3>2. Cardinality(Below(x)) \in Int /\ Cardinality(Below(y)) \in Int
      BY <1>1, <1>2
    <3>3. rank[x] = Cardinality(Below(x)) + 1 /\ rank[y] = Cardinality(Below(y)) + 1
      OBVIOUS
    <3> HIDE DEF Below, rank
    <3> QED
      BY <3>1, <3>2, <3>3
  <2>3. \A x, y \in S : rank[x] = rank[y] => x = y
    <3> SUFFICES ASSUME NEW x \in S, NEW y \in S, rank[x] = rank[y], x # y PROVE FALSE
      OBVIOUS
    <3>1. x < y \/ y < x
      BY <1>0
    <3>2. rank[x] \in 1..n /\ rank[y] \in 1..n
      BY <2>1
    <3> QED
      BY <1>1, <2>2, <3>1, <3>2
  <2>4. rank \in [S -> 1..n]
    BY <2>1
  <2> HIDE DEF rank
  <2> QED
    BY <2>3, <2>4 DEF Injection, IsInjective
<1>5. IsFiniteSet(1..n) /\ Cardinality(1..n) = n
  BY <1>1, FS_Interval
<1>6. rank \in Surjection(S, 1..n)
  BY <1>4, <1>5, FS_Injection
<1>7. \A k \in 1..n : \E x \in S : Cardinality(Below(x)) = k - 1
  <2> SUFFICES ASSUME NEW k \in 1..n PROVE \E x \in S : Cardinality(Below(x)) = k - 1
    OBVIOUS
  <2>1. PICK x \in S : rank[x] = k
    <3> HIDE DEF rank
    <3> QED
      BY <1>6 DEF Surjection
  <2>2. Cardinality(Below(x)) + 1 = k
    BY <2>1
  <2>3. Cardinality(Below(x)) \in 0..(n - 1)
    BY <1>2
  <2>4. Cardinality(Below(x)) = k - 1
    <3> HIDE DEF Below, n
    <3> QED
      BY <1>1, <2>2, <2>3
  <2> QED
    BY <2>4
<1> DEFINE at(k) == CHOOSE x \in S : Cardinality(Below(x)) = k - 1
<1>8. \A k \in 1..n : at(k) \in S /\ Cardinality(Below(at(k))) = k - 1
  BY <1>7
<1>9. s = [k \in 1..n |-> at(k)]
  BY DEF InOrder
<1>10. s \in Seq(S) /\ Len(s) = n /\ DOMAIN s = 1..n
  <2>1. s \in [1..n -> S]
    BY <1>8, <1>9
  <2> HIDE DEF s
  <2> QED
    BY <1>1, <2>1
<1>11. \A k \in 1..n : s[k] \in S /\ Cardinality(Below(s[k])) = k - 1
  BY <1>8, <1>9
<1> HIDE DEF s, at, rank
<1>12. ASSUME NEW i \in 1..n, NEW j \in 1..n, i < j PROVE s[i] < s[j]
  <2>1. s[i] \in S /\ s[j] \in S /\ s[i] \in Nat /\ s[j] \in Nat
    BY <1>11
  <2>2. Cardinality(Below(s[i])) = i - 1 /\ Cardinality(Below(s[j])) = j - 1
    BY <1>11
  <2>3. CASE s[j] < s[i]
    <3>1. Cardinality(Below(s[j])) < Cardinality(Below(s[i]))
      BY <1>3, <2>1, <2>3
    <3> QED
      BY <1>1, <1>12, <2>2, <3>1
  <2>4. CASE s[j] = s[i]
    BY <1>1, <1>12, <2>2, <2>4
  <2> QED
    BY <2>1, <2>3, <2>4
<1>13. ASSUME NEW x \in S PROVE \E k \in 1..n : s[k] = x
  <2> DEFINE k == Cardinality(Below(x)) + 1
  <2>1. k \in 1..n /\ Cardinality(Below(x)) = k - 1
    BY <1>1, <1>2
  <2> HIDE DEF k
  <2>2. s[k] \in S /\ Cardinality(Below(s[k])) = k - 1
    BY <1>11, <2>1
  <2>3. s[k] \in Nat /\ x \in Nat
    BY <2>2
  <2>4. ~(s[k] < x) /\ ~(x < s[k])
    <3>1. Cardinality(Below(x)) \in Int
      BY <1>1, <1>2
    <3>2. s[k] < x => Cardinality(Below(s[k])) < Cardinality(Below(x))
      BY <1>3, <2>2
    <3>3. x < s[k] => Cardinality(Below(x)) < Cardinality(Below(s[k]))
      BY <1>3, <2>2
    <3> HIDE DEF Below
    <3> QED
      BY <2>1, <2>2, <3>1, <3>2, <3>3
  <2>5. s[k] = x
    BY <2>3, <2>4
  <2> QED
    BY <2>1, <2>5
<1>14. \A x \in S : \E k \in DOMAIN s : s[k] = x
  BY <1>10, <1>13
<1>15. \A i, j \in DOMAIN s : i < j => s[i] < s[j]
  BY <1>10, <1>12
<1> QED
  BY <1>10, <1>14, <1>15 DEF s

\* The largest and the smallest of a set of numbers.
LEMMA Extremes ==
  ASSUME NEW S \in SUBSET Nat, IsFiniteSet(S), S # {}
  PROVE  /\ Max(S) \in S /\ \A x \in S : x <= Max(S)
         /\ Min(S) \in S /\ \A x \in S : Min(S) <= x
<1> DEFINE s == InOrder(S)
           n == Len(s)
<1>1. /\ s \in Seq(S) /\ DOMAIN s = 1..n /\ n \in Nat
      /\ \A i, j \in DOMAIN s : i < j => s[i] < s[j]
      /\ \A x \in S : \E k \in DOMAIN s : s[k] = x
  BY Ascending
<1> HIDE DEF s, n
<1>2. PICK k \in 1..n : s[k] \in S
  BY <1>1
<1>3. 1 \in 1..n /\ n \in 1..n
  BY <1>1, <1>2
<1>4. s[1] \in S /\ s[n] \in S
  BY <1>1, <1>3
<1>5. ASSUME NEW x \in S PROVE s[1] <= x /\ x <= s[n]
  <2>1. PICK i \in 1..n : s[i] = x
    BY <1>1
  <2>2. i = 1 \/ s[1] < s[i]
    BY <1>1, <1>3, <2>1
  <2>3. i = n \/ s[i] < s[n]
    BY <1>1, <1>3, <2>1
  <2>4. x \in Nat /\ s[1] \in Nat /\ s[n] \in Nat
    BY <1>4
  <2> QED
    BY <2>1, <2>2, <2>3, <2>4
<1>6. \E x \in S : \A y \in S : x >= y
  <2>1. \A y \in S : s[n] >= y
    <3> SUFFICES ASSUME NEW y \in S PROVE s[n] >= y
      OBVIOUS
    <3>1. y \in Nat /\ s[n] \in Nat /\ y <= s[n]
      BY <1>4, <1>5
    <3> QED
      BY <3>1
  <2> QED
    BY <1>4, <2>1
<1>7. \E x \in S : \A y \in S : x =< y
  BY <1>4, <1>5
<1>8. Max(S) \in S /\ \A y \in S : Max(S) >= y
  BY <1>6 DEF Max
<1>9. Min(S) \in S /\ \A y \in S : Min(S) =< y
  BY <1>7 DEF Min
<1>10. \A x \in S : x \in Nat
  OBVIOUS
<1> QED
  BY <1>8, <1>9, <1>10

\* Where the plan is, and what closed it.
PlanFound ==
  /\ PlanStart \in 0..Len(lines)
  /\ PlanStart # 0 => lines[PlanStart] = "plan"
  /\ \A i \in Lines : lines[i] = "plan" => PlanStart # 0 /\ i <= PlanStart
  /\ PlanPrompt \in 0..Len(lines)
  /\ PlanPrompt # 0 => PlanPrompt >= PlanStart /\ lines[PlanPrompt] = "prompt"
  /\ \A i \in Lines : i >= PlanStart /\ lines[i] = "prompt" => PlanPrompt # 0 /\ PlanPrompt <= i

LEMMA PlanFacts == lines \in Seq(Kinds) => PlanFound
<1> SUFFICES ASSUME lines \in Seq(Kinds) PROVE PlanFound
  OBVIOUS
<1> DEFINE P == {i \in Lines : lines[i] = "plan"}
<1>1. Lines = 1..Len(lines) /\ Len(lines) \in Nat /\ IsFiniteSet(1..Len(lines))
  BY FS_Interval DEF Lines
<1>2. P \in SUBSET (1..Len(lines)) /\ P \in SUBSET Nat /\ IsFiniteSet(P)
  <2>1. P \in SUBSET (1..Len(lines)) /\ P \in SUBSET Nat
    BY <1>1
  <2>2. IsFiniteSet(P)
    BY <1>1, <2>1, FS_Subset
  <2> QED
    BY <2>1, <2>2
<1>3. PlanStart = IF P = {} THEN 0 ELSE Max(P)
  BY DEF PlanStart, Last1
<1>4. P # {} => Max(P) \in P /\ \A x \in P : x <= Max(P)
  BY <1>2, Extremes
<1>5. /\ PlanStart \in 0..Len(lines)
      /\ PlanStart # 0 => lines[PlanStart] = "plan"
      /\ \A i \in Lines : lines[i] = "plan" => PlanStart # 0 /\ i <= PlanStart
  <2>1. CASE P = {}
    BY <1>1, <1>3, <2>1
  <2>2. CASE P # {}
    <3>1. PlanStart \in P /\ \A x \in P : x <= PlanStart
      BY <1>3, <1>4, <2>2
    <3>2. PlanStart \in 1..Len(lines)
      BY <1>2, <3>1
    <3> QED
      BY <1>1, <3>1, <3>2
  <2> QED
    BY <2>1, <2>2
<1> DEFINE Q == {i \in Lines : i >= PlanStart /\ lines[i] = "prompt"}
<1>6. Q \in SUBSET (1..Len(lines)) /\ Q \in SUBSET Nat /\ IsFiniteSet(Q)
  <2>1. Q \in SUBSET (1..Len(lines)) /\ Q \in SUBSET Nat
    BY <1>1
  <2>2. IsFiniteSet(Q)
    BY <1>1, <2>1, FS_Subset
  <2> QED
    BY <2>1, <2>2
<1>7. PlanPrompt = IF Q = {} THEN 0 ELSE Min(Q)
  BY DEF PlanPrompt, First1
<1>8. Q # {} => Min(Q) \in Q /\ \A x \in Q : Min(Q) <= x
  BY <1>6, Extremes
<1>9. /\ PlanPrompt \in 0..Len(lines)
      /\ PlanPrompt # 0 => PlanPrompt >= PlanStart /\ lines[PlanPrompt] = "prompt"
      /\ \A i \in Lines : i >= PlanStart /\ lines[i] = "prompt" => PlanPrompt # 0 /\ PlanPrompt <= i
  <2>1. CASE Q = {}
    BY <1>1, <1>7, <2>1
  <2>2. CASE Q # {}
    <3>1. PlanPrompt \in Q /\ \A x \in Q : PlanPrompt <= x
      BY <1>7, <1>8, <2>2
    <3>2. PlanPrompt \in 1..Len(lines)
      BY <1>6, <3>1
    <3> QED
      BY <1>1, <3>1, <3>2
  <2> QED
    BY <2>1, <2>2
<1> QED
  BY <1>5, <1>9 DEF PlanFound

LEMMA PlanFactsNext == (lines \in Seq(Kinds))' => PlanFound'
  BY PlanFacts, PTL

\* Two sequences put together.
LEMMA Joined ==
  ASSUME NEW S, NEW a \in Seq(S), NEW b \in Seq(S)
  PROVE  /\ a \o b \in Seq(S) /\ DOMAIN (a \o b) = 1..(Len(a) + Len(b))
         /\ \A i \in 1..Len(a) : (a \o b)[i] = a[i]
         /\ \A i \in 1..Len(b) : (a \o b)[Len(a) + i] = b[i]
<1>1. a \o b \in Seq(S) /\ Len(a \o b) = Len(a) + Len(b) /\ Len(a) \in Nat /\ Len(b) \in Nat
  BY ConcatProperties
<1>2. \A i \in 1..(Len(a) + Len(b)) : (a \o b)[i] = IF i <= Len(a) THEN a[i] ELSE b[i - Len(a)]
  BY ConcatProperties
<1>3. ASSUME NEW i \in 1..Len(a) PROVE (a \o b)[i] = a[i]
  BY <1>1, <1>2
<1>4. ASSUME NEW i \in 1..Len(b) PROVE (a \o b)[Len(a) + i] = b[i]
  <2>1. Len(a) + i \in 1..(Len(a) + Len(b)) /\ ~(Len(a) + i <= Len(a)) /\ (Len(a) + i) - Len(a) = i
    BY <1>1
  <2> QED
    BY <1>2, <2>1
<1> QED
  BY <1>1, <1>3, <1>4

\* Lines sent are told, once and in order, after those before them.
LEMMA LinesAdded ==
  ASSUME FrameTyped, NEW a, NEW d, Told(a, d), NEW s, NEW e, Sends(s, d, e)
  PROVE  Told(a \o LineItems(s), e)
<1> DEFINE b == LineItems(s)
           c == a \o b
<1>1. /\ a \in Seq(Items) /\ d \in Marks /\ e \in Marks /\ s \in Seq(Nat)
      /\ d.unknown \in Nat /\ e.unknown \in Nat /\ d.phases \in Nat /\ e.phases = d.phases
      /\ d.unknown <= e.unknown
  BY DEF Told, Sends, Marks
<1>2. /\ b \in Seq(Items) /\ Len(b) = Len(s) /\ DOMAIN b = 1..Len(s) /\ DOMAIN s = 1..Len(s)
      /\ \A i \in 1..Len(s) : b[i].what = "line" /\ b[i].at = s[i] /\ b[i] = Item("line", s[i])
  <2>1. DOMAIN s = 1..Len(s) /\ Len(s) \in Nat /\ \A i \in 1..Len(s) : s[i] \in Nat
    BY <1>1
  <2>2. b = [i \in 1..Len(s) |-> Item("line", s[i])]
    BY <2>1 DEF LineItems, Item
  <2>3. \A n \in Nat : Item("line", n) \in Items /\ Item("line", n).what = "line" /\ Item("line", n).at = n
    BY DEF Item, Items
  <2> HIDE DEF b
  <2>4. b \in [1..Len(s) -> Items]
    BY <2>1, <2>2, <2>3
  <2>5. b \in Seq(Items) /\ Len(b) = Len(s) /\ DOMAIN b = 1..Len(s)
    BY <2>1, <2>4
  <2> QED
    BY <2>1, <2>2, <2>3, <2>5
<1>3. /\ Len(a) \in Nat /\ Len(s) \in Nat /\ DOMAIN a = 1..Len(a)
      /\ \A i \in DOMAIN a : a[i].at \in Nat
  <2>1. \A i \in DOMAIN a : a[i] \in Items
    BY <1>1
  <2>2. \A x \in Items : x.at \in Nat
    BY DEF Items
  <2> QED
    BY <1>1, <2>1, <2>2
<1> HIDE DEF b
<1>4. /\ c \in Seq(Items) /\ DOMAIN c = 1..(Len(a) + Len(b))
      /\ \A i \in 1..Len(a) : c[i] = a[i]
      /\ \A i \in 1..Len(b) : c[Len(a) + i] = b[i]
  <2>1. a \in Seq(Items) /\ b \in Seq(Items)
    BY <1>1, <1>2
  <2> QED
    BY <2>1, Joined
<1>40. Len(b) = Len(s) /\ DOMAIN c = 1..(Len(a) + Len(s))
  BY <1>2, <1>4
<1>5. \A i \in DOMAIN c : \/ i \in 1..Len(a) /\ c[i] = a[i]
                          \/ i \notin 1..Len(a) /\ i - Len(a) \in 1..Len(s) /\ c[i] = b[i - Len(a)]
  <2> SUFFICES ASSUME NEW i \in DOMAIN c, i \notin 1..Len(a)
               PROVE  i - Len(a) \in 1..Len(s) /\ c[i] = b[i - Len(a)]
    BY <1>4
  <2>1. i \in Int /\ i - Len(a) \in 1..Len(s) /\ Len(a) + (i - Len(a)) = i
    BY <1>3, <1>40
  <2> QED
    BY <1>4, <1>40, <2>1
<1> HIDE DEF c
<1>6. InTurn(c)
  <2> SUFFICES ASSUME NEW i \in DOMAIN c, NEW j \in DOMAIN c, i < j, c[i].what = c[j].what
               PROVE  c[i].at < c[j].at
    BY DEF InTurn
  <2>0. i \in Int /\ j \in Int
    BY <1>4
  <2>1. CASE j \in 1..Len(a)
    <3>1. i \in 1..Len(a)
      BY <1>3, <1>4, <2>1
    <3>2. c[i] = a[i] /\ c[j] = a[j] /\ i \in DOMAIN a /\ j \in DOMAIN a
      BY <1>3, <1>4, <2>1, <3>1
    <3> QED
      BY <3>2 DEF Told, InTurn
  <2>2. CASE j \notin 1..Len(a) /\ i \in 1..Len(a)
    <3>1. j - Len(a) \in 1..Len(s) /\ c[j] = b[j - Len(a)] /\ c[i] = a[i]
      BY <1>4, <1>5, <2>2
    <3>2. c[j].what = "line" /\ c[j].at = s[j - Len(a)]
      BY <1>2, <3>1
    <3>3. a[i].what = "line" /\ a[i].at <= d.unknown /\ a[i].at \in Nat
      BY <1>3, <2>2, <3>1, <3>2 DEF Told, Behind
    <3>4. s[j - Len(a)] \in (d.unknown + 1)..e.unknown
      BY <1>2, <3>1 DEF Sends
    <3> QED
      BY <1>1, <3>1, <3>2, <3>3, <3>4
  <2>3. CASE j \notin 1..Len(a) /\ i \notin 1..Len(a)
    <3>1. /\ j - Len(a) \in 1..Len(s) /\ c[j] = b[j - Len(a)]
          /\ i - Len(a) \in 1..Len(s) /\ c[i] = b[i - Len(a)]
      BY <1>5, <2>3
    <3>2. c[j].at = s[j - Len(a)] /\ c[i].at = s[i - Len(a)]
      BY <1>2, <3>1
    <3>3. i - Len(a) < j - Len(a)
      BY <1>3, <2>0
    <3> QED
      BY <1>2, <3>1, <3>2, <3>3 DEF Sends
  <2> QED
    BY <2>1, <2>2, <2>3
<1>7. Behind(c, e) /\ OnlyOver(c)
  <2> SUFFICES ASSUME NEW i \in DOMAIN c
               PROVE  /\ c[i].what = "line" => c[i].at <= e.unknown
                      /\ c[i].what = "phase" => c[i].at <= e.phases
                      /\ c[i].what = "phase" => c[i].at \in 1..Phases /\ phases[c[i].at] = "Done"
    BY DEF Behind, OnlyOver
  <2>1. CASE i \in 1..Len(a)
    <3>1. c[i] = a[i] /\ i \in DOMAIN a
      BY <1>3, <1>4, <2>1
    <3>2. a[i].at \in Nat
      BY <1>3, <3>1
    <3>3. /\ a[i].what = "line" => a[i].at <= d.unknown
          /\ a[i].what = "phase" => a[i].at <= d.phases
          /\ a[i].what = "phase" => a[i].at \in 1..Phases /\ phases[a[i].at] = "Done"
      BY <3>1 DEF Told, Behind, OnlyOver
    <3> QED
      BY <1>1, <3>1, <3>2, <3>3
  <2>2. CASE i \notin 1..Len(a)
    <3>1. i - Len(a) \in 1..Len(s) /\ c[i] = b[i - Len(a)]
      BY <1>5, <2>2
    <3>2. c[i].what = "line" /\ c[i].at = s[i - Len(a)]
      BY <1>2, <3>1
    <3>3. s[i - Len(a)] \in (d.unknown + 1)..e.unknown
      BY <1>2, <3>1 DEF Sends
    <3> QED
      BY <1>1, <3>2, <3>3
  <2> QED
    BY <2>1, <2>2
<1>8. LinesTold(c, e)
  <2> SUFFICES ASSUME NEW at \in 1..e.unknown, GoneUp(at)
               PROVE  \E i \in DOMAIN c : c[i] = Item("line", at)
    BY DEF LinesTold
  <2>1. CASE at \in 1..d.unknown
    <3>1. PICK i \in DOMAIN a : a[i] = Item("line", at)
      BY <2>1 DEF Told, LinesTold
    <3> QED
      BY <1>3, <1>4, <3>1
  <2>2. CASE at \notin 1..d.unknown
    <3>1. at \in (d.unknown + 1)..e.unknown
      BY <1>1, <2>2
    <3>2. PICK i \in DOMAIN s : s[i] = at
      BY <3>1 DEF Sends
    <3>3. b[i] = Item("line", at) /\ i \in 1..Len(s)
      BY <1>2, <3>2
    <3>4. c[Len(a) + i] = Item("line", at) /\ Len(a) + i \in DOMAIN c
      BY <1>3, <1>4, <1>40, <3>3
    <3> QED
      BY <3>4
  <2> QED
    BY <2>1, <2>2
<1>9. PhasesTold(c, e)
  <2> SUFFICES ASSUME NEW k \in 1..e.phases
               PROVE  /\ phases[k] = "Done" \/ Passed(k)
                      /\ phases[k] = "Done" => \E i \in DOMAIN c : c[i] = Item("phase", k)
    BY DEF PhasesTold
  <2>1. /\ phases[k] = "Done" \/ Passed(k)
        /\ phases[k] = "Done" => \E i \in DOMAIN a : a[i] = Item("phase", k)
    BY <1>1 DEF Told, PhasesTold
  <2>2. \A i \in DOMAIN a : i \in DOMAIN c /\ c[i] = a[i]
    BY <1>3, <1>4
  <2> QED
    BY <2>1, <2>2
<1>10. layout = "Nom" => e.lines = e.unknown
  BY DEF Sends
<1> QED
  BY <1>1, <1>4, <1>6, <1>7, <1>8, <1>9, <1>10 DEF Told, c, b

\* Nothing sent.
LEMMA NothingSent ==
  ASSUME NEW d \in Marks, layout = "Nom" => d.lines = d.unknown
  PROVE  Sends(<<>>, d, d)
<1>1. d.unknown \in Int
  BY DEF Marks
<1>2. <<>> \in Seq(Nat) /\ DOMAIN <<>> = {}
  OBVIOUS
<1>3. (d.unknown + 1)..d.unknown = {}
  BY <1>1
<1> QED
  BY <1>1, <1>2, <1>3 DEF Sends

\* The unknown lines up to a place.
LEMMA UnknownSent ==
  ASSUME FrameTyped, layout # "Nom", NEW d \in Marks, NEW stop \in 0..Len(lines), NEW e \in Marks,
         e.unknown = IF d.unknown < stop THEN stop ELSE d.unknown, e.phases = d.phases
  PROVE  Sends(unknown(d, stop), d, e)
<1> DEFINE S == {at \in (d.unknown + 1)..stop : GoesUp(at)}
           s == unknown(d, stop)
<1>1. d.unknown \in Nat /\ stop \in Nat /\ e.unknown \in Nat /\ d.unknown <= e.unknown
  BY DEF Marks
<1>2. S \in SUBSET Nat /\ IsFiniteSet(S)
  <2>1. S \in SUBSET ((d.unknown + 1)..stop)
    OBVIOUS
  <2>2. IsFiniteSet((d.unknown + 1)..stop)
    BY <1>1, FS_Interval
  <2>3. IsFiniteSet(S)
    BY <2>1, <2>2, FS_Subset
  <2>4. \A x \in (d.unknown + 1)..stop : x \in Nat
    BY <1>1
  <2> QED
    BY <2>1, <2>3, <2>4
<1>3. s = InOrder(S)
  BY DEF unknown
<1>4. /\ s \in Seq(S) /\ \A i, j \in DOMAIN s : i < j => s[i] < s[j]
      /\ \A x \in S : \E k \in DOMAIN s : s[k] = x
  <2> HIDE DEF S, s
  <2>1. /\ InOrder(S) \in Seq(S) /\ \A i, j \in DOMAIN InOrder(S) : i < j => InOrder(S)[i] < InOrder(S)[j]
        /\ \A x \in S : \E k \in DOMAIN InOrder(S) : InOrder(S)[k] = x
    BY <1>2, Ascending
  <2> QED
    BY <1>3, <2>1
<1> HIDE DEF s
<1>5. \A i \in DOMAIN s : s[i] \in S
  BY <1>4
<1>6. s \in Seq(Nat)
  BY <1>2, <1>4
<1>7. \A x \in S : x \in (d.unknown + 1)..e.unknown
  BY <1>1
<1>8. \A at \in (d.unknown + 1)..e.unknown : GoneUp(at) => at \in S
  BY <1>1 DEF GoneUp
<1> HIDE DEF S
<1>9. \A i \in DOMAIN s : s[i] \in (d.unknown + 1)..e.unknown
  BY <1>5, <1>7
<1>10. \A at \in (d.unknown + 1)..e.unknown : GoneUp(at) => \E i \in DOMAIN s : s[i] = at
  BY <1>4, <1>8
<1> QED
  BY <1>1, <1>4, <1>6, <1>9, <1>10 DEF Sends, s

LEMMA UptoFacts ==
  ASSUME NEW d \in Marks, NEW stop \in 0..Len(lines), Len(lines) \in Nat
  PROVE  /\ Upto(d, stop) \in Marks
         /\ Upto(d, stop).unknown = IF d.unknown < stop THEN stop ELSE d.unknown
         /\ Upto(d, stop).lines = d.lines /\ Upto(d, stop).phases = d.phases
<1>1. DOMAIN d = {"lines", "unknown", "phases"}
  BY DEF Marks
<1>2. /\ Upto(d, stop) = [lines |-> d.lines, unknown |-> IF d.unknown < stop THEN stop ELSE d.unknown,
                          phases |-> d.phases]
  BY <1>1 DEF Upto, Marks
<1> QED
  BY <1>2 DEF Marks

\* First part of a frame.
LEMMA FirstPart ==
  ASSUME FrameTyped, NEW a, NEW d, Told(a, d)
  PROVE  /\ Sends(SendLines(d).out, d, SendLines(d).d)
         /\ layout = "Nom" => SendLines(d).d.lines = Len(lines)
         /\ SendLines(d).d.unknown = Len(lines) \/ (Planned /\ SendLines(d).d.unknown >= PlanStart - 1)
         /\ Answered /\ ~(d.lines < PlanPrompt) => SendLines(d).d.unknown = Len(lines)
         /\ layout # "Nom" => SendLines(d).d.lines = d.lines
<1>1. /\ d \in Marks /\ lines \in Seq(Kinds) /\ Len(lines) \in Nat
      /\ d.lines \in 0..Len(lines) /\ d.unknown \in 0..Len(lines) /\ d.phases \in 0..Phases
      /\ layout = "Nom" => d.lines = d.unknown
  BY DEF Told, FrameTyped, Marks
<1>2. PlanStart \in 0..Len(lines) /\ PlanPrompt \in 0..Len(lines)
  BY <1>1, PlanFacts DEF PlanFound
<1>3. CASE layout = "Nom"
  <2> DEFINE s == [i \in 1..(Len(lines) - d.lines) |-> d.lines + i]
             e == [d EXCEPT !.lines = Len(lines), !.unknown = Len(lines)]
  <2>1. SendLines(d) = [out |-> s, d |-> e]
    BY <1>3 DEF SendLines
  <2>2. e = [lines |-> Len(lines), unknown |-> Len(lines), phases |-> d.phases]
    <3>1. d = [lines |-> d.lines, unknown |-> d.unknown, phases |-> d.phases]
      BY <1>1 DEF Marks
    <3> DEFINE m == [d EXCEPT !.lines = Len(lines)]
    <3>2. m = [lines |-> Len(lines), unknown |-> d.unknown, phases |-> d.phases]
      BY <3>1
    <3>3. e = [m EXCEPT !.unknown = Len(lines)]
      OBVIOUS
    <3> HIDE DEF m, e
    <3> QED
      BY <3>2, <3>3
  <2>3. e \in Marks /\ e.unknown = Len(lines) /\ e.lines = Len(lines) /\ e.phases = d.phases
    BY <1>1, <2>2 DEF Marks
  <2> HIDE DEF e
  <2>4. s \in Seq(Nat) /\ DOMAIN s = 1..(Len(lines) - d.lines)
    <3>1. Len(lines) - d.lines \in Nat
      BY <1>1
    <3>2. s \in [1..(Len(lines) - d.lines) -> Nat]
      BY <1>1
    <3> QED
      BY <3>1, <3>2
  <2>5. \A i \in 1..(Len(lines) - d.lines) : s[i] = d.lines + i
    OBVIOUS
  <2> HIDE DEF s
  <2>6. \A i, j \in DOMAIN s : i < j => s[i] < s[j]
    BY <1>1, <2>4, <2>5
  <2>7. \A i \in DOMAIN s : s[i] \in (d.unknown + 1)..e.unknown
    BY <1>1, <1>3, <2>3, <2>4, <2>5
  <2>8. ASSUME NEW at \in (d.unknown + 1)..e.unknown PROVE \E i \in DOMAIN s : s[i] = at
    <3>1. at - d.lines \in 1..(Len(lines) - d.lines) /\ d.lines + (at - d.lines) = at
      BY <1>1, <1>3, <2>3
    <3> QED
      BY <2>4, <2>5, <3>1
  <2>9. Sends(s, d, e)
    BY <1>1, <2>3, <2>4, <2>6, <2>7, <2>8 DEF Sends
  <2> QED
    BY <1>3, <2>1, <2>3, <2>9
<1>4. CASE layout # "Nom"
  <2> DEFINE held == Planned /\ (Answered => d.lines < PlanPrompt)
             stop == IF held THEN Max({PlanStart - 1, d.lines}) ELSE Len(lines)
  <2>1. SendLines(d) = [out |-> unknown(d, stop), d |-> Upto(d, stop)]
    BY <1>4 DEF SendLines
  <2>2. held => PlanStart # 0
    BY DEF Planned
  <2>3. CASE held
    <3>1. {PlanStart - 1, d.lines} \in SUBSET Nat /\ {PlanStart - 1, d.lines} # {}
      BY <1>1, <1>2, <2>2, <2>3
    <3>2. IsFiniteSet({PlanStart - 1, d.lines})
      <4>1. IsFiniteSet({PlanStart - 1})
        BY FS_Singleton
      <4>2. IsFiniteSet({PlanStart - 1} \cup {d.lines})
        BY <4>1, FS_AddElement
      <4>3. {PlanStart - 1} \cup {d.lines} = {PlanStart - 1, d.lines}
        OBVIOUS
      <4> QED
        BY <4>2, <4>3
    <3>3. /\ Max({PlanStart - 1, d.lines}) \in {PlanStart - 1, d.lines}
          /\ \A x \in {PlanStart - 1, d.lines} : x <= Max({PlanStart - 1, d.lines})
      BY <3>1, <3>2, Extremes
    <3>4. stop = Max({PlanStart - 1, d.lines})
      BY <2>3
    <3>5. stop \in {PlanStart - 1, d.lines} /\ PlanStart - 1 <= stop
      BY <3>3, <3>4
    <3> HIDE DEF stop, held
    <3>6. stop \in 0..Len(lines)
      BY <1>1, <1>2, <2>2, <2>3, <3>5
    <3>7. /\ Upto(d, stop) \in Marks
          /\ Upto(d, stop).unknown = IF d.unknown < stop THEN stop ELSE d.unknown
          /\ Upto(d, stop).lines = d.lines /\ Upto(d, stop).phases = d.phases
      BY <1>1, <3>6, UptoFacts
    <3>8. Sends(unknown(d, stop), d, Upto(d, stop))
      BY <1>1, <1>4, <3>6, <3>7, UnknownSent
    <3>9. Upto(d, stop).unknown >= PlanStart - 1
      BY <1>1, <1>2, <3>5, <3>6, <3>7
    <3>10. Planned /\ ~(Answered /\ ~(d.lines < PlanPrompt))
      BY <2>3 DEF held
    <3> QED
      BY <1>4, <2>1, <3>7, <3>8, <3>9, <3>10
  <2>4. CASE ~held
    <3>1. stop = Len(lines) /\ stop \in 0..Len(lines)
      BY <1>1, <2>4
    <3> HIDE DEF stop, held
    <3>7. /\ Upto(d, stop) \in Marks
          /\ Upto(d, stop).unknown = IF d.unknown < stop THEN stop ELSE d.unknown
          /\ Upto(d, stop).lines = d.lines /\ Upto(d, stop).phases = d.phases
      BY <1>1, <3>1, UptoFacts
    <3>8. Sends(unknown(d, stop), d, Upto(d, stop))
      BY <1>1, <1>4, <3>1, <3>7, UnknownSent
    <3>9. Upto(d, stop).unknown = Len(lines)
      BY <1>1, <3>1, <3>7
    <3> QED
      BY <1>4, <2>1, <3>7, <3>8, <3>9
  <2> QED
    BY <2>3, <2>4
<1> QED
  BY <1>3, <1>4

\* Second part.
LEMMA SecondPart ==
  ASSUME FrameTyped, NEW a, NEW d, Told(a, d), layout = "Nom" => d.lines = Len(lines),
         NEW idle \in BOOLEAN
  PROVE  /\ Sends(SendHeld(d, idle).out, d, SendHeld(d, idle).d)
         /\ \/ SendHeld(d, idle).d = d
            \/ SendHeld(d, idle).d.unknown = Len(lines)
         /\ Answered /\ ~idle /\ d.lines < PlanPrompt => SendHeld(d, idle).d.unknown = Len(lines)
<1>1. /\ d \in Marks /\ lines \in Seq(Kinds) /\ Len(lines) \in Nat
      /\ d.lines \in 0..Len(lines) /\ d.unknown \in 0..Len(lines) /\ d.phases \in 0..Phases
      /\ layout = "Nom" => d.lines = d.unknown
  BY DEF Told, FrameTyped, Marks
<1>2. PlanPrompt \in 0..Len(lines)
  BY <1>1, PlanFacts DEF PlanFound
<1>3. CASE ~idle /\ Answered /\ d.lines < PlanPrompt
  <2> DEFINE m == [d EXCEPT !.lines = PlanPrompt]
             e == Upto(m, Len(lines))
  <2>1. SendHeld(d, idle) = [out |-> unknown(d, Len(lines)), d |-> e]
    BY <1>3 DEF SendHeld
  <2>2. m = [lines |-> PlanPrompt, unknown |-> d.unknown, phases |-> d.phases]
    BY <1>1 DEF Marks
  <2>3. m \in Marks /\ m.unknown = d.unknown /\ m.phases = d.phases
    BY <1>1, <1>2, <2>2 DEF Marks
  <2> HIDE DEF m
  <2>4. Len(lines) \in 0..Len(lines)
    BY <1>1
  <2>5. e \in Marks /\ e.unknown = (IF m.unknown < Len(lines) THEN Len(lines) ELSE m.unknown) /\ e.phases = m.phases
    BY <1>1, <2>3, <2>4, UptoFacts
  <2> HIDE DEF e
  <2>6. layout # "Nom"
    BY <1>1, <1>2, <1>3
  <2>7. Sends(unknown(d, Len(lines)), d, e)
    BY <1>1, <2>3, <2>4, <2>5, <2>6, UnknownSent
  <2>8. e.unknown = Len(lines)
    BY <1>1, <2>3, <2>5
  <2> QED
    BY <2>1, <2>7, <2>8
<1>4. CASE ~(~idle /\ Answered /\ d.lines < PlanPrompt)
  <2>1. SendHeld(d, idle) = [out |-> <<>>, d |-> d]
    BY <1>4 DEF SendHeld
  <2>2. Sends(<<>>, d, d)
    BY <1>1, NothingSent
  <2> QED
    BY <1>4, <2>1, <2>2
<1> QED
  BY <1>3, <1>4

\* How far the receipt goes.
Upon(d) ==
  CHOOSE n \in d.phases..Phases :
    /\ \A k \in (d.phases + 1)..n : phases[k] = "Done" \/ Passed(k)
    /\ n < Phases => ~(phases[n + 1] = "Done" \/ Passed(n + 1))

LEMMA UponFacts ==
  ASSUME Phases \in Nat, NEW d \in Marks
  PROVE  Upon(d) \in d.phases..Phases /\ \A k \in (d.phases + 1)..Upon(d) : phases[k] = "Done" \/ Passed(k)
<1> DEFINE Ok(k) == phases[k] = "Done" \/ Passed(k)
           S == {n \in d.phases..Phases : n < Phases => ~Ok(n + 1)}
<1>1. d.phases \in Nat /\ d.phases <= Phases
  BY DEF Marks
<1>2. S \in SUBSET Nat /\ Phases \in S
  BY <1>1
<1>3. PICK n \in S : \A m \in S : n <= m
  <2>1. IsFiniteSet(d.phases..Phases)
    BY <1>1, FS_Interval
  <2>2. S \in SUBSET (d.phases..Phases)
    OBVIOUS
  <2>3. IsFiniteSet(S)
    BY <2>1, <2>2, FS_Subset
  <2> HIDE DEF S
  <2>4. Min(S) \in S /\ \A x \in S : Min(S) <= x
    BY <1>2, <2>3, Extremes
  <2> QED
    BY <2>4
<1>4. ASSUME NEW k \in (d.phases + 1)..n PROVE Ok(k)
  <2>1. k - 1 \in d.phases..Phases /\ k - 1 < n /\ (k - 1) + 1 = k /\ k - 1 \in Int /\ n \in Nat
    BY <1>1, <1>2, <1>3
  <2>2. k - 1 \notin S
    <3> HIDE DEF S
    <3> QED
      BY <1>3, <2>1
  <2>3. ~(k - 1 < Phases => ~Ok((k - 1) + 1))
    BY <2>1, <2>2
  <2> QED
    BY <2>1, <2>3
<1>5. n \in d.phases..Phases /\ (n < Phases => ~Ok(n + 1))
  BY <1>3
<1>6. \E x \in d.phases..Phases :
        /\ \A k \in (d.phases + 1)..x : phases[k] = "Done" \/ Passed(k)
        /\ x < Phases => ~(phases[x + 1] = "Done" \/ Passed(x + 1))
  BY <1>4, <1>5
<1> HIDE DEF S, Ok
<1> QED
  BY <1>6 DEF Upon

\* Third part: the phases that are over are told, once and in order, after
\* those before them.
LEMMA ThirdPart ==
  ASSUME Phases \in Nat, FrameTyped, NEW a, NEW d, Told(a, d)
  PROVE  /\ Told(a \o SendPhases(d).out, SendPhases(d).d)
         /\ SendPhases(d).d.unknown = d.unknown
<1>1. /\ a \in Seq(Items) /\ d \in Marks /\ d.unknown \in Nat /\ d.phases \in 0..Phases
  BY DEF Told, Marks, FrameTyped
<1>2. CASE layout # "Receipt"
  <2>1. SendPhases(d) = [out |-> <<>>, d |-> d]
    BY <1>2 DEF SendPhases
  <2>2. a \o <<>> = a
    BY <1>1, ConcatEmptySeq
  <2> QED
    BY <2>1, <2>2
<1>3. CASE layout = "Receipt"
  <2> DEFINE n == Upon(d)
             S == {k \in (d.phases + 1)..n : phases[k] = "Done"}
             s == InOrder(S)
             b == [i \in DOMAIN s |-> [what |-> "phase", at |-> s[i]]]
             e == [d EXCEPT !.phases = n]
             c == a \o b
  <2>1. SendPhases(d) = [out |-> b, d |-> e]
    BY <1>3 DEF SendPhases, Upon
  <2>2. n \in d.phases..Phases /\ \A k \in (d.phases + 1)..n : phases[k] = "Done" \/ Passed(k)
    BY <1>1, UponFacts
  <2>3. /\ s \in Seq(S) /\ DOMAIN s = 1..Len(s) /\ Len(s) \in Nat
        /\ \A i, j \in DOMAIN s : i < j => s[i] < s[j]
        /\ \A x \in S : \E k \in DOMAIN s : s[k] = x
    <3>1. S \in SUBSET ((d.phases + 1)..n)
      OBVIOUS
    <3>2. IsFiniteSet((d.phases + 1)..n)
      BY <1>1, <2>2, FS_Interval
    <3>3. IsFiniteSet(S)
      BY <3>1, <3>2, FS_Subset
    <3>4. S \in SUBSET Nat
      BY <1>1, <2>2
    <3> HIDE DEF S
    <3>5. /\ s \in Seq(S) /\ \A i, j \in DOMAIN s : i < j => s[i] < s[j]
          /\ \A x \in S : \E k \in DOMAIN s : s[k] = x
      BY <3>3, <3>4, Ascending
    <3> HIDE DEF s
    <3> QED
      BY <3>5
  <2>4. \A x \in S : x \in Nat /\ x \in (d.phases + 1)..n /\ x \in 1..Phases /\ phases[x] = "Done"
    BY <1>1, <2>2
  <2>5. \A k \in (d.phases + 1)..n : phases[k] = "Done" => k \in S
    OBVIOUS
  <2>6. n \in Nat /\ d.phases \in Nat /\ d.phases <= n
    BY <1>1, <2>2
  <2>7. e \in Marks /\ e.lines = d.lines /\ e.unknown = d.unknown /\ e.phases = n
    <3>1. d = [lines |-> d.lines, unknown |-> d.unknown, phases |-> d.phases]
      BY <1>1 DEF Marks
    <3>2. e = [lines |-> d.lines, unknown |-> d.unknown, phases |-> n]
      BY <3>1
    <3>3. d.lines \in 0..Len(lines) /\ d.unknown \in 0..Len(lines) /\ n \in 0..Phases
      BY <1>1, <2>2 DEF Marks
    <3> HIDE DEF e, n
    <3> QED
      BY <3>2, <3>3 DEF Marks
  <2> HIDE DEF n, S, s, e
  <2>8. \A i \in DOMAIN s : s[i] \in S
    BY <2>3
  <2>9. /\ b \in Seq(Items) /\ Len(b) = Len(s) /\ DOMAIN b = 1..Len(s)
        /\ \A i \in 1..Len(s) : b[i] = Item("phase", s[i]) /\ b[i].what = "phase" /\ b[i].at = s[i]
    <3>1. \A m \in Nat : Item("phase", m) \in Items /\ Item("phase", m).what = "phase" /\ Item("phase", m).at = m
      BY DEF Item, Items
    <3>2. b = [i \in 1..Len(s) |-> Item("phase", s[i])]
      BY <2>3 DEF Item
    <3>3. \A i \in 1..Len(s) : s[i] \in Nat
      BY <2>3, <2>4, <2>8
    <3> HIDE DEF b
    <3>4. b \in [1..Len(s) -> Items]
      BY <3>1, <3>2, <3>3
    <3>5. b \in Seq(Items) /\ Len(b) = Len(s) /\ DOMAIN b = 1..Len(s)
      BY <2>3, <3>4
    <3> QED
      BY <3>1, <3>2, <3>3, <3>5
  <2> HIDE DEF b
  <2>10. /\ c \in Seq(Items) /\ DOMAIN c = 1..(Len(a) + Len(b))
         /\ \A i \in 1..Len(a) : c[i] = a[i]
         /\ \A i \in 1..Len(b) : c[Len(a) + i] = b[i]
    BY <1>1, <2>9, Joined
  <2>11. /\ Len(a) \in Nat /\ DOMAIN a = 1..Len(a) /\ DOMAIN c = 1..(Len(a) + Len(s))
         /\ \A i \in DOMAIN a : a[i].at \in Nat
    <3>1. \A i \in DOMAIN a : a[i] \in Items
      BY <1>1
    <3>2. \A x \in Items : x.at \in Nat
      BY DEF Items
    <3> QED
      BY <1>1, <2>9, <2>10, <3>1, <3>2
  <2> HIDE DEF c
  <2>12. \A i \in DOMAIN c :
           \/ i \in 1..Len(a) /\ c[i] = a[i]
           \/ /\ i \notin 1..Len(a) /\ i - Len(a) \in 1..Len(s)
              /\ c[i].what = "phase" /\ c[i].at = s[i - Len(a)] /\ s[i - Len(a)] \in S
    <3> SUFFICES ASSUME NEW i \in DOMAIN c, i \notin 1..Len(a)
                 PROVE  /\ i - Len(a) \in 1..Len(s)
                        /\ c[i].what = "phase" /\ c[i].at = s[i - Len(a)] /\ s[i - Len(a)] \in S
      BY <2>10
    <3>1. i \in Int /\ i - Len(a) \in 1..Len(s) /\ Len(a) + (i - Len(a)) = i
      BY <2>3, <2>11
    <3>2. c[i] = b[i - Len(a)]
      BY <2>9, <2>10, <3>1
    <3> QED
      BY <2>3, <2>8, <2>9, <3>1, <3>2
  <2>13. InTurn(c)
    <3> SUFFICES ASSUME NEW i \in DOMAIN c, NEW j \in DOMAIN c, i < j, c[i].what = c[j].what
                 PROVE  c[i].at < c[j].at
      BY DEF InTurn
    <3>0. i \in Int /\ j \in Int
      BY <2>11
    <3>1. CASE j \in 1..Len(a)
      <4>1. i \in 1..Len(a)
        BY <2>11, <3>0, <3>1
      <4>2. c[i] = a[i] /\ c[j] = a[j] /\ i \in DOMAIN a /\ j \in DOMAIN a
        BY <2>10, <2>11, <3>1, <4>1
      <4> QED
        BY <4>2 DEF Told, InTurn
    <3>2. CASE j \notin 1..Len(a) /\ i \in 1..Len(a)
      <4>1. c[j].what = "phase" /\ c[j].at = s[j - Len(a)] /\ s[j - Len(a)] \in S /\ c[i] = a[i]
        BY <2>10, <2>12, <3>2
      <4>2. a[i].what = "phase" /\ a[i].at <= d.phases /\ a[i].at \in Nat
        BY <2>11, <3>2, <4>1 DEF Told, Behind
      <4>3. s[j - Len(a)] \in (d.phases + 1)..n
        BY <2>4, <4>1
      <4> QED
        BY <2>6, <4>1, <4>2, <4>3
    <3>3. CASE j \notin 1..Len(a) /\ i \notin 1..Len(a)
      <4>1. /\ j - Len(a) \in 1..Len(s) /\ c[j].at = s[j - Len(a)]
            /\ i - Len(a) \in 1..Len(s) /\ c[i].at = s[i - Len(a)]
        BY <2>12, <3>3
      <4>2. i - Len(a) < j - Len(a)
        BY <2>11, <3>0
      <4> QED
        BY <2>3, <4>1, <4>2
    <3> QED
      BY <3>1, <3>2, <3>3
  <2>14. Behind(c, e) /\ OnlyOver(c)
    <3> SUFFICES ASSUME NEW i \in DOMAIN c
                 PROVE  /\ c[i].what = "line" => c[i].at <= e.unknown
                        /\ c[i].what = "phase" => c[i].at <= e.phases
                        /\ c[i].what = "phase" => c[i].at \in 1..Phases /\ phases[c[i].at] = "Done"
      BY DEF Behind, OnlyOver
    <3>1. CASE i \in 1..Len(a)
      <4>1. c[i] = a[i] /\ i \in DOMAIN a
        BY <2>10, <2>11, <3>1
      <4>2. /\ a[i].what = "line" => a[i].at <= d.unknown
            /\ a[i].what = "phase" => a[i].at <= d.phases
            /\ a[i].what = "phase" => a[i].at \in 1..Phases /\ phases[a[i].at] = "Done"
            /\ a[i].at \in Nat
        BY <2>11, <4>1 DEF Told, Behind, OnlyOver
      <4> QED
        BY <2>6, <2>7, <4>1, <4>2
    <3>2. CASE i \notin 1..Len(a)
      <4>1. c[i].what = "phase" /\ c[i].at \in S
        BY <2>12, <3>2
      <4> QED
        BY <2>4, <2>6, <2>7, <4>1
    <3> QED
      BY <3>1, <3>2
  <2>15. LinesTold(c, e)
    <3> SUFFICES ASSUME NEW at \in 1..d.unknown, GoneUp(at)
                 PROVE  \E i \in DOMAIN c : c[i] = Item("line", at)
      BY <2>7 DEF LinesTold
    <3>1. PICK i \in DOMAIN a : a[i] = Item("line", at)
      BY DEF Told, LinesTold
    <3>2. i \in DOMAIN c /\ c[i] = a[i]
      BY <2>3, <2>10, <2>11
    <3> QED
      BY <3>1, <3>2
  <2>16. PhasesTold(c, e)
    <3> SUFFICES ASSUME NEW k \in 1..n
                 PROVE  /\ phases[k] = "Done" \/ Passed(k)
                        /\ phases[k] = "Done" => \E i \in DOMAIN c : c[i] = Item("phase", k)
      BY <2>7 DEF PhasesTold
    <3>1. CASE k \in 1..d.phases
      <4>1. /\ phases[k] = "Done" \/ Passed(k)
            /\ phases[k] = "Done" => \E i \in DOMAIN a : a[i] = Item("phase", k)
        BY <3>1 DEF Told, PhasesTold
      <4>2. \A i \in DOMAIN a : i \in DOMAIN c /\ c[i] = a[i]
        BY <2>3, <2>10, <2>11
      <4> QED
        BY <4>1, <4>2
    <3>2. CASE k \notin 1..d.phases
      <4>1. k \in (d.phases + 1)..n
        BY <2>6, <3>2
      <4>2. phases[k] = "Done" \/ Passed(k)
        BY <2>2, <4>1
      <4>3. ASSUME phases[k] = "Done" PROVE \E i \in DOMAIN c : c[i] = Item("phase", k)
        <5>1. PICK i \in DOMAIN s : s[i] = k
          BY <2>3, <2>5, <4>1, <4>3
        <5>2. b[i] = Item("phase", k) /\ i \in 1..Len(b)
          BY <2>3, <2>9, <5>1
        <5>3. c[Len(a) + i] = Item("phase", k) /\ Len(a) + i \in DOMAIN c
          BY <2>9, <2>10, <2>11, <5>2
        <5> QED
          BY <5>3
      <4> QED
        BY <4>2, <4>3
    <3> QED
      BY <3>1, <3>2
  <2>17. layout = "Nom" => e.lines = e.unknown
    BY <1>3
  <2>18. Told(c, e)
    BY <2>7, <2>10, <2>13, <2>14, <2>15, <2>16, <2>17 DEF Told
  <2> QED
    BY <2>1, <2>7, <2>18 DEF c
<1> QED
  BY <1>2, <1>3

-----------------------------------------------------------------------------
\* A frame tells what is new, and takes nothing back.
LEMMA FrameKeeps ==
  ASSUME Phases \in Nat, FrameInv, NEW idle \in BOOLEAN, SendFrame(idle)
  PROVE  /\ FrameInv'
         /\ sent'.unknown = Len(lines) \/ (Planned /\ sent'.unknown >= PlanStart - 1)
         /\ Answered /\ ~idle => sent'.unknown = Len(lines)
<1> DEFINE one == SendLines(sent)
           two == SendHeld(one.d, idle)
           three == SendPhases(two.d)
           a1 == above \o LineItems(one.out)
           a2 == a1 \o LineItems(two.out)
           a3 == a2 \o three.out
<1>0. /\ FrameTyped /\ Told(above, sent)
      /\ lines' = lines /\ layout' = layout /\ phases' = phases /\ unknown_at' = unknown_at
  BY DEF FrameInv, SendFrame
<1>1. above' = a3 /\ sent' = three.d
  BY DEF SendFrame, frame
<1>2. /\ Sends(one.out, sent, one.d)
      /\ layout = "Nom" => one.d.lines = Len(lines)
      /\ one.d.unknown = Len(lines) \/ (Planned /\ one.d.unknown >= PlanStart - 1)
      /\ Answered /\ ~(sent.lines < PlanPrompt) => one.d.unknown = Len(lines)
      /\ layout # "Nom" => one.d.lines = sent.lines
  BY <1>0, FirstPart
<1>3. Told(a1, one.d)
  BY <1>0, <1>2, LinesAdded
<1> HIDE DEF one, a1
<1>4. /\ Sends(two.out, one.d, two.d)
      /\ two.d = one.d \/ two.d.unknown = Len(lines)
      /\ Answered /\ ~idle /\ one.d.lines < PlanPrompt => two.d.unknown = Len(lines)
  BY <1>0, <1>2, <1>3, SecondPart
<1>5. Told(a2, two.d)
  BY <1>0, <1>3, <1>4, LinesAdded
<1> HIDE DEF two, a2
<1>6. Told(a3, three.d) /\ three.d.unknown = two.d.unknown
  BY <1>0, <1>5, ThirdPart
<1> HIDE DEF three, a3
<1>7. Told(above', sent')
  BY <1>1, <1>6
<1>8. Lines' = Lines /\ warning_at' = warning_at /\ PlanStart' = PlanStart /\ Planned' = Planned
  BY <1>0 DEF Lines, warning_at, PlanStart, Planned
<1>9. PlanPrompt' = PlanPrompt
  BY <1>0, <1>8 DEF PlanPrompt
<1>10. Answered' = Answered
  BY <1>8, <1>9 DEF Answered
<1>11. \A at : in_hooks(at)' <=> in_hooks(at)
  BY <1>0 DEF in_hooks
<1>12. \A at : GoneUp(at)' <=> GoneUp(at)
  BY <1>0, <1>8, <1>9, <1>10, <1>11 DEF GoneUp, GoesUp, InTransaction
<1>13. \A k : Passed(k)' <=> Passed(k)
  BY <1>0 DEF Passed
<1>14. Marks' = Marks
  BY <1>0 DEF Marks
<1>15. Told(above, sent)'
  <2>1. above' \in Seq(Items) /\ sent' \in Marks' /\ (layout' = "Nom" => sent'.lines = sent'.unknown)
    BY <1>0, <1>7, <1>14 DEF Told
  <2>2. InTurn(above)' /\ Behind(above, sent)'
    BY <1>7 DEF Told, InTurn, Behind
  <2>3. OnlyOver(above)'
    BY <1>0, <1>7 DEF Told, OnlyOver
  <2>4. LinesTold(above, sent)'
    BY <1>7, <1>12 DEF Told, LinesTold
  <2>5. PhasesTold(above, sent)'
    BY <1>0, <1>7, <1>13 DEF Told, PhasesTold
  <2> QED
    BY <2>1, <2>2, <2>3, <2>4, <2>5 DEF Told
<1>16. FrameTyped'
  BY <1>0, <1>7, <1>14 DEF FrameTyped, Told
<1>17. two.d.unknown = Len(lines) \/ (Planned /\ two.d.unknown >= PlanStart - 1)
  BY <1>2, <1>4
<1>18. ASSUME Answered, ~idle PROVE two.d.unknown = Len(lines)
  <2>1. CASE layout = "Nom"
    <3>1. one.d.unknown = Len(lines)
      BY <1>2, <2>1 DEF Sends
    <3> QED
      BY <1>4, <3>1
  <2>2. CASE layout # "Nom"
    BY <1>2, <1>4, <1>18, <2>2
  <2> QED
    BY <2>1, <2>2
<1> QED
  BY <1>1, <1>6, <1>15, <1>16, <1>17, <1>18 DEF FrameInv

\* A line settles: what was sent of the lines before it is as it was.
LEMMA SettlingKeeps ==
  ASSUME Phases \in Nat, FrameInv, NEW line \in Kinds, SettleLine(line)
  PROVE  FrameInv'
<1>0. /\ FrameTyped /\ Told(above, sent) /\ lines \in Seq(Kinds) /\ Len(lines) \in Nat
      /\ lines' = Append(lines, line)
      /\ layout' = layout /\ phases' = phases /\ sent' = sent /\ above' = above
      /\ line = "plan" => line \notin ToSet(lines)
      /\ unknown_at' = IF line = "unknown" THEN unknown_at \cup {Len(lines) + 1} ELSE unknown_at
  BY DEF FrameInv, FrameTyped, SettleLine, Sections
<1>1. /\ lines' \in Seq(Kinds) /\ Len(lines') = Len(lines) + 1 /\ lines'[Len(lines) + 1] = line
      /\ \A i \in 1..Len(lines) : lines'[i] = lines[i]
      /\ Lines = 1..Len(lines) /\ Lines' = 1..(Len(lines) + 1)
  BY <1>0 DEF Lines
<1>2. /\ PlanStart \in 0..Len(lines)
      /\ PlanStart # 0 => lines[PlanStart] = "plan"
      /\ PlanPrompt \in 0..Len(lines)
      /\ PlanPrompt # 0 => PlanPrompt >= PlanStart /\ lines[PlanPrompt] = "prompt"
      /\ \A i \in Lines : i >= PlanStart /\ lines[i] = "prompt" => PlanPrompt # 0 /\ PlanPrompt <= i
      /\ \A i \in Lines : lines[i] = "plan" => PlanStart # 0 /\ i <= PlanStart
  BY <1>0, PlanFacts DEF PlanFound
<1>3. /\ PlanStart' \in 0..Len(lines')
      /\ PlanStart' # 0 => lines'[PlanStart'] = "plan"
      /\ PlanPrompt' \in 0..Len(lines')
      /\ PlanPrompt' # 0 => PlanPrompt' >= PlanStart' /\ lines'[PlanPrompt'] = "prompt"
      /\ \A i \in Lines' : i >= PlanStart' /\ lines'[i] = "prompt" => PlanPrompt' # 0 /\ PlanPrompt' <= i
      /\ \A i \in Lines' : lines'[i] = "plan" => PlanStart' # 0 /\ i <= PlanStart'
  <2>1. (lines \in Seq(Kinds))'
    BY <1>1 DEF Kinds
  <2> QED
    BY <2>1, PlanFactsNext DEF PlanFound
<1>4. ASSUME Answered PROVE Answered' /\ PlanPrompt' = PlanPrompt
  <2>1. PlanStart # 0 /\ PlanPrompt # 0 /\ PlanStart \in 1..Len(lines) /\ PlanPrompt \in 1..Len(lines)
    BY <1>0, <1>2, <1>4 DEF Answered, Planned
  <2>2. line # "plan"
    BY <1>0, <1>2, <2>1 DEF ToSet
  <2>3. PlanStart' # 0 /\ PlanStart <= PlanStart'
    BY <1>1, <1>3, <1>2, <2>1
  <2>4. PlanStart' \in 1..Len(lines)
    BY <1>0, <1>1, <1>3, <2>2, <2>3
  <2>5. PlanStart' = PlanStart
    BY <1>0, <1>1, <1>2, <1>3, <2>1, <2>3, <2>4
  <2>6. PlanPrompt' # 0 /\ PlanPrompt' <= PlanPrompt
    BY <1>1, <1>2, <1>3, <2>1, <2>5
  <2>7. PlanPrompt' \in 1..Len(lines) /\ PlanPrompt' >= PlanStart /\ lines[PlanPrompt'] = "prompt"
    BY <1>0, <1>1, <1>3, <2>1, <2>5, <2>6
  <2>8. PlanPrompt <= PlanPrompt'
    BY <1>1, <1>2, <2>7
  <2>9. PlanPrompt' = PlanPrompt
    BY <1>0, <2>1, <2>6, <2>7, <2>8
  <2> QED
    BY <2>1, <2>3, <2>9 DEF Answered, Planned
<1>5. ASSUME NEW at \in 1..Len(lines), GoneUp(at)' PROVE GoneUp(at)
  <2>1. CASE layout = "Nom"
    BY <2>1 DEF GoneUp
  <2>2. CASE layout # "Nom"
    <3>1. GoesUp(at)'
      BY <1>0, <1>5, <2>2 DEF GoneUp
    <3>2. at \in unknown_at \cup warning_at
      BY <1>0, <1>1, <3>1 DEF GoesUp, warning_at
    <3>3. in_hooks(at) => in_hooks(at)'
      <4> DEFINE H == {i \in 1..at : lines[i] \in {"pre-hooks", "post-hooks", "processing"}}
      <4>1. {i \in 1..at : lines'[i] \in {"pre-hooks", "post-hooks", "processing"}} = H
        BY <1>0, <1>1
      <4>2. H \in SUBSET Nat /\ H \in SUBSET (1..at) /\ IsFiniteSet(H)
        <5>1. H \in SUBSET (1..at) /\ H \in SUBSET Nat
          BY <1>0
        <5>2. IsFiniteSet(1..at)
          BY <1>0, FS_Interval
        <5> QED
          BY <5>1, <5>2, FS_Subset
      <4> HIDE DEF H
      <4>3. H # {} => Max(H) \in 1..Len(lines)
        <5> SUFFICES ASSUME H # {} PROVE Max(H) \in 1..Len(lines)
          OBVIOUS
        <5>1. Max(H) \in H
          BY <4>2, Extremes
        <5>2. Max(H) \in 1..at
          BY <4>2, <5>1
        <5> QED
          BY <1>0, <5>2
      <4>4. in_hooks(at) <=> H # {} /\ lines[Max(H)] # "processing"
        BY DEF in_hooks, H
      <4>5. in_hooks(at)' <=> H # {} /\ lines'[Max(H)] # "processing"
        BY <4>1 DEF in_hooks
      <4> QED
        BY <1>1, <4>3, <4>4, <4>5
    <3>4. InTransaction(at) => InTransaction(at)'
      BY <1>4 DEF InTransaction
    <3>5. ~(InTransaction(at) /\ in_hooks(at))
      BY <3>1, <3>3, <3>4 DEF GoesUp
    <3> QED
      BY <3>2, <3>5 DEF GoneUp, GoesUp
  <2> QED
    BY <2>1, <2>2
<1>6. FrameTyped'
  <2>1. unknown_at' \in SUBSET (1..Len(lines'))
    <3>1. unknown_at \in SUBSET (1..Len(lines))
      BY <1>0 DEF FrameTyped
    <3>2. \A i \in 1..Len(lines) : i \in 1..Len(lines')
      BY <1>0, <1>1
    <3>3. Len(lines) + 1 \in 1..Len(lines')
      BY <1>0, <1>1
    <3> QED
      BY <1>0, <3>1, <3>2, <3>3
  <2>2. sent' \in Marks'
    BY <1>0, <1>1 DEF FrameTyped, Marks
  <2> QED
    BY <1>0, <1>1, <2>1, <2>2 DEF FrameTyped
<1>7. Told(above, sent)'
  <2>1. above' \in Seq(Items) /\ sent' \in Marks' /\ (layout' = "Nom" => sent'.lines = sent'.unknown)
    BY <1>0, <1>6 DEF Told, FrameTyped
  <2>2. InTurn(above)' /\ Behind(above, sent)'
    BY <1>0 DEF Told, InTurn, Behind
  <2>3. OnlyOver(above)'
    BY <1>0 DEF Told, OnlyOver
  <2>4. LinesTold(above, sent)'
    <3>1. \A at \in 1..sent.unknown : at \in 1..Len(lines)
      BY <1>0 DEF Told, Marks
    <3> QED
      BY <1>0, <1>5, <3>1 DEF Told, LinesTold
  <2>5. PhasesTold(above, sent)'
    BY <1>0 DEF Told, PhasesTold, Passed
  <2> QED
    BY <2>1, <2>2, <2>3, <2>4, <2>5 DEF Told
<1> QED
  BY <1>6, <1>7 DEF FrameInv

\* A line a hook claims no longer goes up; what was sent stays.
LEMMA ClaimingKeeps ==
  ASSUME Phases \in Nat, FrameInv, NEW claimed \in Lines, Claim(claimed)
  PROVE  FrameInv'
<1>0. /\ FrameTyped /\ Told(above, sent) /\ Len(lines) \in Nat
      /\ lines' = lines /\ layout' = layout /\ phases' = phases /\ sent' = sent /\ above' = above
      /\ unknown_at' = unknown_at \ {claimed}
  BY DEF FrameInv, FrameTyped, Claim
<1>1. FrameTyped'
  BY <1>0 DEF FrameTyped, Marks
<1>2. Lines' = Lines /\ warning_at' = warning_at /\ PlanStart' = PlanStart /\ Planned' = Planned
  BY <1>0 DEF Lines, warning_at, PlanStart, Planned
<1>3. PlanPrompt' = PlanPrompt
  BY <1>0, <1>2 DEF PlanPrompt
<1>4. Answered' = Answered
  BY <1>2, <1>3 DEF Answered
<1>5. \A at : in_hooks(at)' <=> in_hooks(at)
  BY <1>0 DEF in_hooks
<1>6. \A at : GoneUp(at)' => GoneUp(at)
  BY <1>0, <1>2, <1>3, <1>4, <1>5 DEF GoneUp, GoesUp, InTransaction
<1>7. Told(above, sent)'
  <2>1. above' \in Seq(Items) /\ sent' \in Marks' /\ (layout' = "Nom" => sent'.lines = sent'.unknown)
    BY <1>0, <1>1 DEF Told, FrameTyped
  <2>2. InTurn(above)' /\ Behind(above, sent)'
    BY <1>0 DEF Told, InTurn, Behind
  <2>3. OnlyOver(above)'
    BY <1>0 DEF Told, OnlyOver
  <2>4. LinesTold(above, sent)'
    BY <1>0, <1>6 DEF Told, LinesTold
  <2>5. PhasesTold(above, sent)'
    BY <1>0 DEF Told, PhasesTold, Passed
  <2> QED
    BY <2>1, <2>2, <2>3, <2>4, <2>5 DEF Told
<1> QED
  BY <1>1, <1>7 DEF FrameInv

\* The run enters a phase: those the receipt is past stay as they were told.
LEMMA EnteringKeeps ==
  ASSUME Phases \in Nat, FrameInv, NEW k \in 1..Phases, Enter(k)
  PROVE  FrameInv'
<1>0. /\ FrameTyped /\ Told(above, sent) /\ Len(lines) \in Nat
      /\ phases \in [1..Phases -> {"Pending", "Running", "Done"}]
      /\ lines' = lines /\ layout' = layout /\ unknown_at' = unknown_at /\ sent' = sent /\ above' = above
      /\ \A j \in k..Phases : phases[j] = "Pending"
      /\ phases' = [j \in 1..Phases |-> CASE j = k -> "Running"
                                          [] j # k /\ phases[j] = "Running" -> "Done"
                                          [] OTHER -> phases[j]]
  BY DEF FrameInv, FrameTyped, Enter
<1>1. \A j \in 1..Phases :
        /\ phases[j] = "Done" => phases'[j] = "Done"
        /\ phases[j] = "Pending" => phases'[j] \in {"Pending", "Running"}
        /\ phases[j] = "Pending" /\ j # k => phases'[j] = "Pending"
        /\ phases[j] # "Pending" => phases'[j] = "Done"
        /\ phases'[j] \in {"Pending", "Running", "Done"}
  <2> SUFFICES ASSUME NEW j \in 1..Phases
               PROVE  /\ phases[j] = "Done" => phases'[j] = "Done"
                      /\ phases[j] = "Pending" => phases'[j] \in {"Pending", "Running"}
                      /\ phases[j] = "Pending" /\ j # k => phases'[j] = "Pending"
                      /\ phases[j] # "Pending" => phases'[j] = "Done"
                      /\ phases'[j] \in {"Pending", "Running", "Done"}
    OBVIOUS
  <2>1. phases[j] \in {"Pending", "Running", "Done"} /\ phases[k] = "Pending"
    BY <1>0
  <2>2. CASE j = k
    BY <1>0, <2>1, <2>2
  <2>3. CASE j # k /\ phases[j] = "Running"
    BY <1>0, <2>1, <2>3
  <2>4. CASE j # k /\ phases[j] # "Running"
    <3>1. phases'[j] = phases[j]
      BY <1>0, <2>4
    <3> QED
      BY <2>1, <2>4, <3>1
  <2> QED
    BY <2>2, <2>3, <2>4
<1>2. phases' \in [1..Phases -> {"Pending", "Running", "Done"}]
  <2>1. DOMAIN phases' = 1..Phases /\ phases' = [j \in 1..Phases |-> phases'[j]]
    BY <1>0
  <2> QED
    BY <1>1, <2>1
<1>3. FrameTyped'
  BY <1>0, <1>2 DEF FrameTyped, Marks
<1>4. ASSUME NEW j \in 1..Phases, Passed(j) PROVE phases'[j] = "Pending" /\ Passed(j)'
  <2>1. PICK i \in (j + 1)..Phases : phases[i] # "Pending"
    BY <1>4 DEF Passed
  <2>2. i < k /\ j < k /\ i \in 1..Phases
    BY <1>0, <2>1
  <2>3. phases[j] = "Pending" /\ j # k
    BY <1>4, <2>2 DEF Passed
  <2>4. phases'[j] = "Pending" /\ phases'[i] # "Pending"
    BY <1>1, <2>1, <2>2, <2>3
  <2> QED
    BY <2>1, <2>4 DEF Passed
<1>5. Told(above, sent)'
  <2>1. above' \in Seq(Items) /\ sent' \in Marks' /\ (layout' = "Nom" => sent'.lines = sent'.unknown)
    BY <1>0, <1>3 DEF Told, FrameTyped
  <2>2. InTurn(above)' /\ Behind(above, sent)'
    BY <1>0 DEF Told, InTurn, Behind
  <2>3. OnlyOver(above)'
    BY <1>0, <1>1 DEF Told, OnlyOver
  <2>4. LinesTold(above, sent)'
    <3>1. \A at : GoneUp(at)' <=> GoneUp(at)
      <4>1. Lines' = Lines /\ warning_at' = warning_at /\ PlanStart' = PlanStart /\ Planned' = Planned
        BY <1>0 DEF Lines, warning_at, PlanStart, Planned
      <4>2. PlanPrompt' = PlanPrompt
        BY <1>0, <4>1 DEF PlanPrompt
      <4>3. Answered' = Answered
        BY <4>1, <4>2 DEF Answered
      <4>4. \A at : in_hooks(at)' <=> in_hooks(at)
        BY <1>0 DEF in_hooks
      <4> QED
        BY <1>0, <4>1, <4>2, <4>3, <4>4 DEF GoneUp, GoesUp, InTransaction
    <3> QED
      BY <1>0, <3>1 DEF Told, LinesTold
  <2>5. PhasesTold(above, sent)'
    <3> SUFFICES ASSUME NEW j \in 1..sent.phases
                 PROVE  /\ phases'[j] = "Done" \/ Passed(j)'
                        /\ phases'[j] = "Done" => \E i \in DOMAIN above : above[i] = Item("phase", j)
      BY <1>0 DEF PhasesTold
    <3>1. j \in 1..Phases
      BY <1>0 DEF FrameTyped, Marks
    <3>2. /\ phases[j] = "Done" \/ Passed(j)
          /\ phases[j] = "Done" => \E i \in DOMAIN above : above[i] = Item("phase", j)
      BY <1>0 DEF Told, PhasesTold
    <3> QED
      BY <1>1, <1>4, <3>1, <3>2
  <2> QED
    BY <2>1, <2>2, <2>3, <2>4, <2>5 DEF Told
<1> QED
  BY <1>3, <1>5 DEF FrameInv

LEMMA FrameStarts == ASSUME FrameConstantsOK, FrameInit PROVE FrameInv
<1>0. /\ Phases \in Nat /\ layout \in Layouts /\ lines = <<>> /\ unknown_at = {} /\ above = <<>>
      /\ phases = [k \in 1..Phases |-> "Pending"]
      /\ sent = [lines |-> 0, unknown |-> 0, phases |-> 0]
  BY DEF FrameInit, FrameConstantsOK
<1>1. FrameTyped
  BY <1>0 DEF FrameTyped, Marks
<1>2. Told(above, sent)
  BY <1>0, <1>1 DEF Told, FrameTyped, InTurn, Behind, LinesTold, OnlyOver, PhasesTold
<1> QED
  BY <1>1, <1>2 DEF FrameInv

LEMMA FrameStep ==
  ASSUME FrameConstantsOK, FrameInv, [FrameNext]_framevars
  PROVE  FrameInv' /\ [HoldsForThePlan]_framevars
<1>0. Phases \in Nat
  BY DEF FrameConstantsOK
<1>1. ASSUME NEW line \in Kinds, SettleLine(line) PROVE FrameInv' /\ HoldsForThePlan
  <2>1. FrameInv'
    BY <1>0, <1>1, SettlingKeeps
  <2>2. Len(lines') # Len(lines) /\ above' = above /\ sent' = sent
    BY <1>1 DEF SettleLine, FrameInv, FrameTyped
  <2>3. ~SendFrame(FALSE)
    BY <2>2 DEF SendFrame
  <2> QED
    BY <2>1, <2>2, <2>3 DEF HoldsForThePlan
<1>2. ASSUME NEW at \in Lines, Claim(at) PROVE FrameInv' /\ HoldsForThePlan
  <2>1. FrameInv'
    BY <1>0, <1>2, ClaimingKeeps
  <2>2. unknown_at' # unknown_at /\ above' = above /\ sent' = sent
    BY <1>2 DEF Claim
  <2>3. ~SendFrame(FALSE)
    BY <2>2 DEF SendFrame
  <2> QED
    BY <2>1, <2>2, <2>3 DEF HoldsForThePlan
<1>3. ASSUME NEW k \in 1..Phases, Enter(k) PROVE FrameInv' /\ HoldsForThePlan
  <2>1. FrameInv'
    BY <1>0, <1>3, EnteringKeeps
  <2>2. phases' # phases /\ above' = above /\ sent' = sent
    <3>1. phases[k] = "Pending" /\ phases'[k] = "Running"
      BY <1>0, <1>3 DEF Enter
    <3> QED
      BY <1>3, <3>1 DEF Enter
  <2>3. ~SendFrame(FALSE)
    BY <2>2 DEF SendFrame
  <2> QED
    BY <2>1, <2>2, <2>3 DEF HoldsForThePlan
<1>4. ASSUME NEW idle \in BOOLEAN, SendFrame(idle) PROVE FrameInv' /\ HoldsForThePlan
  <2>1. /\ FrameInv'
        /\ sent'.unknown = Len(lines) \/ (Planned /\ sent'.unknown >= PlanStart - 1)
    BY <1>0, <1>4, FrameKeeps
  <2>2. ASSUME Answered, SendFrame(FALSE) PROVE sent'.unknown = Len(lines)
    <3>1. FALSE \in BOOLEAN
      OBVIOUS
    <3> QED
      BY <1>0, <2>2, <3>1, FrameKeeps
  <2> QED
    BY <2>1, <2>2 DEF HoldsForThePlan
<1>5. ASSUME UNCHANGED framevars PROVE FrameInv'
  <2>1. /\ layout' = layout /\ lines' = lines /\ unknown_at' = unknown_at /\ phases' = phases
        /\ sent' = sent /\ above' = above
    BY <1>5 DEF framevars
  <2>2. FrameTyped' /\ FrameTyped /\ Told(above, sent)
    BY <2>1 DEF FrameInv, FrameTyped, Marks
  <2>3. Lines' = Lines /\ warning_at' = warning_at /\ PlanStart' = PlanStart /\ Planned' = Planned
    BY <2>1 DEF Lines, warning_at, PlanStart, Planned
  <2>4. PlanPrompt' = PlanPrompt
    BY <2>1, <2>3 DEF PlanPrompt
  <2>5. Answered' = Answered
    BY <2>3, <2>4 DEF Answered
  <2>6. \A at : in_hooks(at)' <=> in_hooks(at)
    BY <2>1 DEF in_hooks
  <2>7. \A at : GoneUp(at)' <=> GoneUp(at)
    BY <2>1, <2>3, <2>4, <2>5, <2>6 DEF GoneUp, GoesUp, InTransaction
  <2>8. Told(above, sent)'
    <3>1. /\ above' \in Seq(Items) /\ sent' \in Marks'
          /\ layout' = "Nom" => sent'.lines = sent'.unknown
      BY <2>1, <2>2 DEF Told, FrameTyped
    <3>2. InTurn(above)' /\ Behind(above, sent)' /\ OnlyOver(above)'
      BY <2>1, <2>2 DEF Told, InTurn, Behind, OnlyOver
    <3>3. LinesTold(above, sent)'
      BY <2>1, <2>2, <2>7 DEF Told, LinesTold
    <3>4. PhasesTold(above, sent)'
      BY <2>1, <2>2 DEF Told, PhasesTold, Passed
    <3> QED
      BY <3>1, <3>2, <3>3, <3>4 DEF Told
  <2> QED
    BY <2>2, <2>8 DEF FrameInv
<1>6. CASE \E line \in Kinds : SettleLine(line)
  BY <1>1, <1>6
<1>7. CASE \E at \in Lines : Claim(at)
  BY <1>2, <1>7
<1>8. CASE \E k \in 1..Phases : Enter(k)
  BY <1>3, <1>8
<1>9. CASE \E idle \in BOOLEAN : SendFrame(idle)
  BY <1>4, <1>9
<1> QED
  BY <1>5, <1>6, <1>7, <1>8, <1>9 DEF FrameNext, Kinds

\* The state of what is sent stays of its types, for any grammar of lines,
\* layouts and phases.
THEOREM FrameTypes == ASSUME FrameConstantsOK PROVE FrameSpec => []FrameTypeOK
<1>1. FrameInit => FrameInv
  BY FrameStarts
<1>2. FrameInv /\ [FrameNext]_framevars => FrameInv'
  BY FrameStep
<1>3. FrameInv => FrameTypeOK
  BY DEF FrameInv, FrameTyped, Marks, FrameTypeOK, Lines
<1> QED
  BY <1>1, <1>2, <1>3, PTL DEF FrameSpec

\* What frames print for good is the run, once and in order: a line or a phase
\* is never sent twice, nothing that is counted as sent is missing, and only
\* an open plan holds lines back (`frame`, src/update_view/render.rs).
THEOREM FramesAreKept == ASSUME FrameConstantsOK PROVE FrameSpec => FramesPrintOnce
<1>1. FrameInit => FrameInv
  BY FrameStarts
<1>2. FrameInv /\ [FrameNext]_framevars => FrameInv' /\ [HoldsForThePlan]_framevars
  BY FrameStep
<1>3. FrameInv => PrintedOnce
  <2> SUFFICES ASSUME FrameInv PROVE PrintedOnce
    OBVIOUS
  <2>1. Told(above, sent) /\ FrameTyped
    BY DEF FrameInv
  <2>2. OnceInOrder
    BY <2>1 DEF OnceInOrder, Told, InTurn
  <2>3. \A w, n : (\E i \in DOMAIN above : above[i] = Item(w, n)) => n \in Printed(w)
    BY DEF Printed, Item
  <2>4. SentIsPrinted
    BY <2>1, <2>3 DEF SentIsPrinted, Told, LinesTold, GoneUp
  <2>5. \A n \in Printed("phase") : \E i \in DOMAIN above : above[i].what = "phase" /\ above[i].at = n
    BY DEF Printed
  <2>6. PhasesOnReceipt
    BY <2>1, <2>3, <2>5 DEF PhasesOnReceipt, Told, OnlyOver, PhasesTold
  <2> QED
    BY <2>2, <2>4, <2>6 DEF PrintedOnce
<1> QED
  BY <1>1, <1>2, <1>3, PTL DEF FrameSpec, FramesPrintOnce
=============================================================================
