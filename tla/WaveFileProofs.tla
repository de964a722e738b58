------------------------------ MODULE WaveFileProofs ------------------------------
(***************************************************************************)
(* Theorems about module WaveFile: for files of any length, with any sizes *)
(* in them, and for those that wave_write writes; and about the numbers of *)
(* module Extended, for words, doubles and fractions of any width.         *)
(***************************************************************************)
EXTENDS WaveFile, FiniteSetTheorems, WellFoundedInduction, TLAPS

---------------------------------------------------------------------------------
(* Numbers *)

(***************************************************************************)
(* Induction, over a set of numbers.  Of the intervals from 0 to a number  *)
(* that is not in it, one has none of the others in it, as strict          *)
(* inclusion of finite sets is well-founded.                               *)
(***************************************************************************)
LEMMA NumberInduction ==
  ASSUME NEW P, 0 \in P, \A n \in Nat : n \in P => n + 1 \in P
  PROVE  Nat \subseteq P
  <1> SUFFICES ASSUME NEW m \in Nat, m \notin P PROVE FALSE
    OBVIOUS
  <1> DEFINE F == {0 .. n : n \in {j \in Nat : j \notin P}}
             R == StrictSubsetOrdering(UNION F)
  <1>1. F # {} /\ F \subseteq FiniteSubsetsOf(UNION F)
    <2>1. \A n \in Nat : IsFiniteSet(0 .. n)
      <3>1. \A n \in Nat : 0 \in Int /\ n \in Int
        OBVIOUS
      <3> QED
        BY <3>1, FS_Interval
    <2> QED
      BY <2>1 DEF FiniteSubsetsOf
  <1>2. PICK I \in F : \A J \in F : ~(<<J, I>> \in R)
    <2>1. IsWellFoundedOn(R, FiniteSubsetsOf(UNION F))
      BY FS_StrictSubsetOrderingWellFounded
    <2> HIDE DEF R, F
    <2> QED
      BY <1>1, <2>1, WFMin, Zenon
  <1>3. PICK n \in Nat : n \notin P /\ I = 0 .. n
    BY <1>2
  <1>4. n - 1 \in Nat /\ 0 .. n - 1 \in F
    <2>1. n - 1 \in Nat /\ n - 1 \notin P
      BY <1>3
    <2> QED
      BY <2>1
  <1>5. 0 .. n - 1 \subseteq 0 .. n /\ 0 .. n - 1 # 0 .. n
    BY <1>3
  <1> QED
    BY <1>2, <1>3, <1>4, <1>5 DEF StrictSubsetOrdering

LEMMA Divided ==
  ASSUME NEW x \in Int, NEW m \in Nat \ {0}
  PROVE  x \div m \in Int /\ x % m \in 0 .. m - 1 /\ x = (x \div m) * m + (x % m)
  OBVIOUS

(* Quotient and remainder are determined by the remainder being in range. *)
LEMMA DividedOnce ==
  ASSUME NEW m \in Nat \ {0}, NEW q \in Int, NEW r \in 0 .. m - 1, NEW x \in Int,
         x = q * m + r
  PROVE  x \div m = q /\ x % m = r
  <1>1. x \div m = q
    OBVIOUS
  <1>2. x % m = r
    BY <1>1
  <1> QED
    BY <1>1, <1>2

---------------------------------------------------------------------------------
(* Powers of 2, which are the numbers of subsets *)

LEMMA PowerType ==
  ASSUME NEW n \in Nat
  PROVE  Bit(n) \in Nat \ {0}
  <1>1. IsFiniteSet(1 .. n) /\ Cardinality(1 .. n) = n
    BY FS_Interval
  <1>2. IsFiniteSet(SUBSET (1 .. n)) /\ Cardinality(SUBSET (1 .. n)) = Bit(n)
    BY <1>1, FS_SUBSET DEF Bit
  <1>3. SUBSET (1 .. n) # {}
    OBVIOUS
  <1> QED
    BY <1>2, <1>3, FS_EmptySet, FS_CardinalityType

(* A set of one more has the subsets without the new element, and those with it. *)
LEMMA PowerStep ==
  ASSUME NEW n \in Nat
  PROVE  Bit(n + 1) = 2 * Bit(n)
  <1> DEFINE S == 1 .. n
             A == SUBSET S
             B == {T \cup {n + 1} : T \in A}
  <1>1. IsFiniteSet(S) /\ Cardinality(S) = n
    BY FS_Interval
  <1>2. IsFiniteSet(A) /\ Cardinality(A) = Bit(n)
    BY <1>1, FS_SUBSET DEF Bit
  <1>3. IsFiniteSet(1 .. n + 1) /\ Cardinality(1 .. n + 1) = n + 1
    BY FS_Interval
  <1>4. Cardinality(SUBSET (1 .. n + 1)) = Bit(n + 1)
    BY <1>3, FS_SUBSET DEF Bit
  <1>5. 1 .. n + 1 = S \cup {n + 1} /\ n + 1 \notin S
    OBVIOUS
  <1>6. SUBSET (1 .. n + 1) = A \cup B /\ A \cap B = {}
    <2> HIDE DEF S
    <2>1. ASSUME NEW T \in SUBSET (S \cup {n + 1}) PROVE T \in A \cup B
      <3>1. CASE n + 1 \notin T
        BY <3>1
      <3>2. CASE n + 1 \in T
        <4>1. T \ {n + 1} \in A /\ T = (T \ {n + 1}) \cup {n + 1}
          BY <3>2
        <4> QED
          BY <4>1
      <3> QED
        BY <3>1, <3>2
    <2>2. ASSUME NEW T \in A \cup B PROVE T \in SUBSET (S \cup {n + 1})
      OBVIOUS
    <2>3. A \cap B = {}
      BY <1>5
    <2> QED
      BY <1>5, <2>1, <2>2, <2>3
  <1>7. IsFiniteSet(B) /\ Cardinality(B) = Cardinality(A)
    <2> DEFINE f == [T \in A |-> T \cup {n + 1}]
    <2>1. f \in Bijection(A, B)
      <3>1. f \in [A -> B]
        OBVIOUS
      <3>2. \A T, U \in A : f[T] = f[U] => T = U
        <4> HIDE DEF S
        <4>1. ASSUME NEW T \in A, NEW U \in A, T \cup {n + 1} = U \cup {n + 1} PROVE T = U
          BY <1>5, <4>1
        <4> QED
          BY <4>1
      <3>3. \A W \in B : \E T \in A : f[T] = W
        OBVIOUS
      <3> HIDE DEF f, A, B
      <3>4. f \in Injection(A, B)
        BY <3>1, <3>2 DEF Injection, IsInjective
      <3>5. f \in Surjection(A, B)
        BY <3>1, <3>3 DEF Surjection
      <3> QED
        BY <3>4, <3>5 DEF Bijection
    <2>2. ExistsBijection(A, B)
      BY <2>1 DEF ExistsBijection
    <2> HIDE DEF A, B
    <2> QED
      BY <1>2, <2>2, FS_Bijection
  <1>8. Cardinality(A \cup B) = Cardinality(A) + Cardinality(B) - Cardinality(A \cap B)
    <2> HIDE DEF A, B
    <2> QED
      BY <1>2, <1>7, FS_Union
  <1>9. Cardinality(A \cap B) = 0
    BY <1>6, FS_EmptySet
  <1>10. Bit(n) \in Nat
    BY PowerType
  <1> HIDE DEF A, B
  <1>11. Cardinality(A \cup B) = Bit(n) + Bit(n)
    BY <1>2, <1>7, <1>8, <1>9, <1>10
  <1>12. Cardinality(SUBSET (1 .. n + 1)) = Cardinality(A \cup B)
    BY <1>6, Zenon
  <1> QED
    BY <1>4, <1>10, <1>11, <1>12

LEMMA PowerAdd ==
  ASSUME NEW a \in Nat, NEW b \in Nat
  PROVE  Bit(a + b) = Bit(a) * Bit(b)
  <1> DEFINE P == {n \in Nat : Bit(a + n) = Bit(a) * Bit(n)}
  <1>1. 0 \in P
    <2>1. Bit(0) = 1
      BY DEF Bit
    <2> QED
      BY <2>1, PowerType
  <1>2. ASSUME NEW n \in Nat, n \in P PROVE n + 1 \in P
    <2>1. Bit(a + n) = Bit(a) * Bit(n)
      BY <1>2
    <2>2. Bit((a + n) + 1) = 2 * Bit(a + n) /\ Bit(n + 1) = 2 * Bit(n)
      BY PowerStep
    <2>3. (a + n) + 1 = a + (n + 1)
      OBVIOUS
    <2>4. Bit(a) \in Nat /\ Bit(n) \in Nat
      BY PowerType
    <2> DEFINE x == Bit(a)
               y == Bit(n)
    <2> HIDE DEF x, y
    <2>5. 2 * (x * y) = x * (2 * y)
      BY <2>4 DEF x, y
    <2>6. Bit(a + (n + 1)) = Bit(a) * Bit(n + 1)
      BY <2>1, <2>2, <2>3, <2>5 DEF x, y
    <2> QED
      BY <2>6
  <1> HIDE DEF P
  <1>3. Nat \subseteq P
    BY <1>1, <1>2, NumberInduction
  <1> QED
    BY <1>3 DEF P

LEMMA PowerOrder ==
  ASSUME NEW a \in Nat, NEW b \in Nat
  PROVE  /\ a <= b => Bit(a) <= Bit(b)
         /\ a < b => 2 * Bit(a) <= Bit(b)
  <1>1. ASSUME NEW c \in Nat, NEW d \in Nat PROVE Bit(c) <= Bit(c + d)
    <2> DEFINE x == Bit(c)
               y == Bit(d)
    <2>1. x \in Nat \ {0} /\ y \in Nat \ {0} /\ Bit(c + d) = x * y
      BY PowerType, PowerAdd
    <2> HIDE DEF x, y
    <2>2. x <= x * y
      BY <2>1
    <2> QED
      BY <2>1, <2>2 DEF x
  <1>2. ASSUME a <= b PROVE Bit(a) <= Bit(b)
    <2>1. PICK d \in Nat : b = a + d
      <3>1. b - a \in Nat /\ b = a + (b - a)
        BY <1>2
      <3> QED
        BY <3>1
    <2> QED
      BY <1>1, <2>1
  <1>3. ASSUME a < b PROVE 2 * Bit(a) <= Bit(b)
    <2>1. PICK d \in Nat : b = (a + 1) + d
      <3>1. b - (a + 1) \in Nat /\ b = (a + 1) + (b - (a + 1))
        BY <1>3
      <3> QED
        BY <3>1
    <2>2. Bit(a + 1) <= Bit(b)
      BY <1>1, <2>1
    <2>3. Bit(a + 1) = 2 * Bit(a) /\ Bit(a) \in Nat /\ Bit(b) \in Nat
      BY PowerStep, PowerType
    <2> QED
      BY <2>2, <2>3
  <1> QED
    BY <1>2, <1>3

(* The leading bit of a number that is not 0. *)
LEMMA LeadingPower ==
  ASSUME NEW w \in Nat, NEW n \in 1 .. Bit(w) - 1
  PROVE  \E k \in 0 .. w - 1 : Bit(k) <= n /\ n < Bit(k + 1)
  <1> DEFINE P == {j \in Nat : \A x \in 1 .. Bit(j) - 1 :
                     \E k \in 0 .. j - 1 : Bit(k) <= x /\ x < Bit(k + 1)}
  <1>1. 0 \in P
    <2>1. Bit(0) = 1
      BY DEF Bit
    <2> QED
      BY <2>1
  <1>2. ASSUME NEW j \in Nat, j \in P PROVE j + 1 \in P
    <2>1. Bit(j) \in Nat /\ Bit(j + 1) \in Nat
      BY PowerType
    <2>2. ASSUME NEW x \in 1 .. Bit(j + 1) - 1
          PROVE  \E k \in 0 .. (j + 1) - 1 : Bit(k) <= x /\ x < Bit(k + 1)
      <3>1. CASE x < Bit(j)
        <4>1. x \in 1 .. Bit(j) - 1
          BY <2>1, <3>1
        <4>2. \E k \in 0 .. j - 1 : Bit(k) <= x /\ x < Bit(k + 1)
          BY <1>2, <4>1
        <4> QED
          BY <4>2
      <3>2. CASE Bit(j) <= x
        <4>1. j \in 0 .. (j + 1) - 1 /\ x < Bit(j + 1)
          BY <2>1
        <4> QED
          BY <3>2, <4>1
      <3> QED
        BY <2>1, <3>1, <3>2
    <2> QED
      BY <2>2
  <1> HIDE DEF P
  <1>3. Nat \subseteq P
    BY <1>1, <1>2, NumberInduction
  <1> QED
    BY <1>3 DEF P

---------------------------------------------------------------------------------
(* Rounding to a double *)

LEMMA TimesOrder ==
  ASSUME NEW a \in Int, NEW b \in Int, NEW u \in Nat, a <= b
  PROVE  a * u <= b * u
  <1>1. (b - a) * u >= 0
    OBVIOUS
  <1>2. (b - a) * u = b * u - a * u
    OBVIOUS
  <1>3. a * u \in Int /\ b * u \in Int
    OBVIOUS
  <1> QED
    BY <1>1, <1>2, <1>3

(* m is one of the two multiples of unit around n, and not the farther one. *)
Around(n, m, unit) ==
    /\ unit \in Nat \ {0} /\ m \in Nat
    /\ \E kept \in Nat, rest \in 0 .. unit - 1 :
         /\ n = kept * unit + rest
         /\ \/ m = kept * unit
            \/ m = kept * unit + unit /\ rest > 0
    /\ 2 * (m - n) <= unit /\ 2 * (n - m) <= unit

(* Such a step does not pass a multiple of the unit. *)
LEMMA AroundOrder ==
  ASSUME NEW n \in Nat, NEW m, NEW unit, Around(n, m, unit), NEW j \in Nat
  PROVE  /\ n >= j * unit => m >= j * unit
         /\ n <= j * unit => m <= j * unit
  <1>1. unit \in Nat \ {0} /\ m \in Nat
    BY DEF Around
  <1>2. PICK kept \in Nat, rest \in 0 .. unit - 1 :
          /\ n = kept * unit + rest
          /\ \/ m = kept * unit
             \/ m = kept * unit + unit /\ rest > 0
    BY DEF Around
  <1> DEFINE x == kept * unit
             y == j * unit
  <1>3. x \in Nat /\ y \in Nat
    BY <1>1
  <1>4. CASE kept >= j
    <2>1. y <= x
      BY <1>1, <1>4, TimesOrder
    <2>2. n = x + rest /\ (m = x \/ (m = x + unit /\ rest > 0))
      BY <1>2
    <2>3. n <= y => m <= y
      <3> HIDE DEF x, y
      <3>1. SUFFICES ASSUME n <= y PROVE m <= y
        OBVIOUS
      <3>2. rest = 0
        BY <1>1, <1>3, <2>1, <2>2, <3>1
      <3> QED
        BY <1>1, <1>3, <2>1, <2>2, <3>1, <3>2
    <2>4. m >= y
      <3> HIDE DEF x, y
      <3> QED
        BY <1>1, <1>3, <2>1, <2>2
    <2> QED
      BY <2>3, <2>4
  <1>5. CASE kept + 1 <= j
    <2>1. (kept + 1) * unit <= y
      BY <1>1, <1>5, TimesOrder
    <2>2. (kept + 1) * unit = x + unit
      BY <1>1
    <2>3. n = x + rest /\ (m = x \/ (m = x + unit /\ rest > 0))
      BY <1>2
    <2>4. n < y /\ m <= y
      <3>1. x + unit <= y
        BY <2>1, <2>2
      <3> HIDE DEF x, y
      <3> QED
        BY <1>1, <1>3, <2>3, <3>1
    <2> HIDE DEF x
    <2>5. ~(n >= y)
      <3> HIDE DEF y
      <3> QED
        BY <1>3, <2>4
    <2> QED
      BY <2>4, <2>5
  <1> QED
    BY <1>4, <1>5

LEMMA LeadingBitIs ==
  ASSUME NEW n \in 1 .. Bit(FractionBits) - 1
  PROVE  /\ LeadingBit(n) \in 0 .. FractionBits - 1
         /\ Bit(LeadingBit(n)) <= n /\ n < Bit(LeadingBit(n) + 1)
  <1> DEFINE B(k) == k \in 0 .. FractionBits /\ Bit(k) <= n /\ n < Bit(k + 1)
             l == LeadingBit(n)
  <1>1. FractionBits \in Nat
    BY ExtendedAssumption
  <1>2. \E k \in 0 .. FractionBits - 1 : Bit(k) <= n /\ n < Bit(k + 1)
    BY <1>1, LeadingPower
  <1>3. \E k \in 0 .. FractionBits : Bit(k) <= n /\ n < Bit(k + 1)
    BY <1>1, <1>2
  <1>4. l \in 0 .. FractionBits /\ Bit(l) <= n /\ n < Bit(l + 1)
    BY <1>3 DEF LeadingBit
  <1> HIDE DEF l
  <1>5. l # FractionBits
    <2>1. Bit(FractionBits) \in Nat /\ n < Bit(FractionBits)
      BY <1>1, PowerType
    <2> QED
      BY <1>4, <2>1
  <1> QED
    BY <1>1, <1>4, <1>5 DEF l

LEMMA LeadingBitBelow ==
  ASSUME NEW n \in 1 .. Bit(FractionBits) - 1, NEW q \in Nat,
         n < Bit(q)
  PROVE  LeadingBit(n) < q
  <1> DEFINE l == LeadingBit(n)
  <1>1. l \in Nat /\ Bit(l) <= n
    BY LeadingBitIs, ExtendedAssumption
  <1> HIDE DEF l
  <1>2. ASSUME q <= l PROVE FALSE
    <2>1. Bit(q) <= Bit(l)
      BY <1>1, <1>2, PowerOrder
    <2>2. Bit(q) \in Nat /\ Bit(l) \in Nat
      BY <1>1, PowerType
    <2> QED
      BY <1>1, <2>1, <2>2
  <1> QED
    BY <1>1, <1>2 DEF l

(* A number that fits a double is kept. *)
LEMMA RoundKeeps ==
  ASSUME NEW n \in 0 .. Bit(FractionBits) - 1,
         n < Bit(DoubleBits)
  PROVE  RoundToDouble(n) = n
  <1>1. DoubleBits \in Nat /\ FractionBits \in Nat
    BY ExtendedAssumption
  <1>2. CASE n = 0
    BY <1>2 DEF RoundToDouble
  <1>3. CASE n # 0
    <2>1. n \in 1 .. Bit(FractionBits) - 1
      BY <1>3
    <2>2. LeadingBit(n) < DoubleBits
      BY <1>1, <2>1, LeadingBitBelow
    <2> QED
      BY <2>2 DEF RoundToDouble
  <1> QED
    BY <1>2, <1>3

(* Any other goes to a multiple of the unit of its last bit. *)
LEMMA RoundAround ==
  ASSUME NEW n \in 1 .. Bit(FractionBits) - 1,
         Bit(DoubleBits) <= n
  PROVE  /\ LeadingBit(n) + 1 - DoubleBits \in Nat
         /\ Around(n, RoundToDouble(n), Bit(LeadingBit(n) + 1 - DoubleBits))
  <1> DEFINE l == LeadingBit(n)
             e == l + 1 - DoubleBits
             unit == Bit(e)
             kept == n \div unit
             rest == n % unit
             up   == 2 * rest > unit \/ (2 * rest = unit /\ kept % 2 = 1)
  <1>1. DoubleBits \in Nat /\ l \in Nat /\ n < Bit(l + 1)
    BY LeadingBitIs, ExtendedAssumption
  <1> HIDE DEF l
  <1>2. l >= DoubleBits
    <2>1. SUFFICES ASSUME l + 1 <= DoubleBits PROVE FALSE
      BY <1>1
    <2>2. Bit(l + 1) <= Bit(DoubleBits)
      BY <1>1, <2>1, PowerOrder
    <2>3. Bit(l + 1) \in Nat /\ Bit(DoubleBits) \in Nat
      BY <1>1, PowerType
    <2> QED
      BY <1>1, <2>2, <2>3
  <1>3. e \in Nat
    BY <1>1, <1>2
  <1>4. unit \in Nat \ {0}
    BY <1>3, PowerType
  <1>5. RoundToDouble(n) = (IF up THEN kept + 1 ELSE kept) * unit
    BY <1>1, <1>2 DEF RoundToDouble, l
  <1> HIDE DEF unit, e
  <1>6. kept \in Nat /\ rest \in 0 .. unit - 1 /\ n = kept * unit + rest
    <2>1. kept \in Int /\ rest \in 0 .. unit - 1 /\ n = kept * unit + rest
      BY <1>4, Divided
    <2> HIDE DEF kept, rest
    <2>2. ASSUME kept <= -1 PROVE FALSE
      <3>1. kept * unit <= (-1) * unit
        BY <1>4, <2>1, <2>2, TimesOrder
      <3> QED
        BY <1>4, <2>1, <3>1
    <2> QED
      BY <2>1, <2>2
  <1>7. up => 2 * rest >= unit
    BY <1>4, <1>6
  <1>8. ~up => 2 * rest <= unit
    BY <1>4, <1>6
  <1> HIDE DEF kept, rest, up
  <1>9. kept * unit \in Nat
    BY <1>4, <1>6
  <1>10. CASE up
    <2>1. RoundToDouble(n) = kept * unit + unit
      <3>1. (kept + 1) * unit = kept * unit + unit
        BY <1>4, <1>6
      <3> QED
        BY <1>5, <1>10, <3>1
    <2>2. rest > 0
      BY <1>4, <1>6, <1>7, <1>10
    <2>3. /\ kept * unit + unit \in Nat /\ 2 * ((kept * unit + unit) - n) <= unit
          /\ 2 * (n - (kept * unit + unit)) <= unit
      BY <1>4, <1>6, <1>7, <1>9, <1>10
    <2> QED
      BY <1>3, <1>4, <1>6, <2>1, <2>2, <2>3 DEF Around, unit, e, l
  <1>11. CASE ~up
    <2>1. RoundToDouble(n) = kept * unit
      BY <1>5, <1>11
    <2>2. 2 * (kept * unit - n) <= unit /\ 2 * (n - kept * unit) <= unit
      BY <1>4, <1>6, <1>8, <1>9, <1>11
    <2> QED
      BY <1>3, <1>4, <1>6, <1>9, <2>1, <2>2 DEF Around, unit, e, l
  <1> QED
    BY <1>10, <1>11

(* Rounding does not pass a number with as many bits as a double has. *)
LEMMA RoundOrder ==
  ASSUME NEW n \in 0 .. Bit(FractionBits) - 1,
         NEW j \in 0 .. Bit(DoubleBits) - 1, NEW q \in Nat
  PROVE  /\ RoundToDouble(n) \in Nat
         /\ n >= j * Bit(q) => RoundToDouble(n) >= j * Bit(q)
         /\ n <= j * Bit(q) => RoundToDouble(n) <= j * Bit(q)
  <1> DEFINE m == RoundToDouble(n)
             y == j * Bit(q)
  <1>1. /\ DoubleBits \in Nat /\ DoubleBits >= 2 /\ FractionBits \in Nat
        /\ Bit(DoubleBits) \in Nat /\ Bit(q) \in Nat \ {0}
    BY PowerType, ExtendedAssumption
  <1>2. CASE n < Bit(DoubleBits)
    BY <1>2, RoundKeeps
  <1>3. CASE Bit(DoubleBits) <= n
    <2> DEFINE l == LeadingBit(n)
               e == l + 1 - DoubleBits
               unit == Bit(e)
    <2>1. n \in 1 .. Bit(FractionBits) - 1
      <3>1. Bit(DoubleBits) # 0
        BY <1>1, PowerType
      <3> QED
        BY <1>1, <1>3, <3>1
    <2>2. e \in Nat /\ Around(n, m, unit) /\ l \in Nat /\ Bit(l) <= n
      BY <1>3, <2>1, RoundAround, LeadingBitIs, ExtendedAssumption
    <2>3. l = (DoubleBits - 1) + e /\ DoubleBits - 1 \in Nat
      BY <1>1, <2>2
    <2> HIDE DEF l, e
    <2>4. Bit(l) = Bit(DoubleBits - 1) * unit /\ unit \in Nat \ {0}
      BY <2>2, <2>3, PowerAdd, PowerType
    <2>5. m \in Nat
      BY <2>2 DEF Around
    <2>6. CASE q >= e
      <3>1. PICK d \in Nat : q = d + e
        <4>1. q - e \in Nat /\ q = (q - e) + e
          BY <2>2, <2>6
        <4> QED
          BY <4>1
      <3>2. Bit(q) = Bit(d) * unit /\ Bit(d) \in Nat
        BY <2>2, <3>1, PowerAdd, PowerType
      <3> DEFINE b == Bit(d)
      <3> HIDE DEF b, unit
      <3>3. j * b \in Nat /\ j * (b * unit) = (j * b) * unit
        BY <1>1, <2>4, <3>2 DEF b
      <3>4. y = (j * b) * unit
        BY <3>2, <3>3 DEF b
      <3> HIDE DEF m, y
      <3>5. (n >= y => m >= y) /\ (n <= y => m <= y)
        BY <2>1, <2>2, <3>3, <3>4, AroundOrder
      <3> QED
        BY <2>5, <3>5 DEF m, y
    <2>7. CASE q < e
      <3>1. y < Bit(l)
        <4>1. y < Bit(DoubleBits) * Bit(q)
          <5>1. (j + 1) * Bit(q) <= Bit(DoubleBits) * Bit(q)
            BY <1>1, TimesOrder
          <5>2. (j + 1) * Bit(q) = y + Bit(q) /\ y \in Nat
            BY <1>1
          <5>3. Bit(DoubleBits) * Bit(q) \in Nat
            BY <1>1
          <5> HIDE DEF y
          <5> QED
            BY <1>1, <5>1, <5>2, <5>3
        <4>2. Bit(DoubleBits) * Bit(q) = Bit(DoubleBits + q)
          BY <1>1, PowerAdd
        <4>3. Bit(DoubleBits + q) <= Bit(l)
          BY <1>1, <2>2, <2>3, <2>7, PowerOrder
        <4>4. y \in Nat /\ Bit(DoubleBits + q) \in Nat /\ Bit(l) \in Nat
          BY <1>1, <2>2, PowerType
        <4> HIDE DEF y
        <4> QED
          BY <4>1, <4>2, <4>3, <4>4
      <3>2. m >= Bit(l)
        <4>1. Bit(DoubleBits - 1) \in Nat
          BY <2>3, PowerType
        <4> HIDE DEF m, unit
        <4> QED
          BY <2>1, <2>2, <2>4, <4>1, AroundOrder
      <3>3. y \in Nat /\ Bit(l) \in Nat
        BY <1>1, <2>2, PowerType
      <3> HIDE DEF m, y
      <3>4. m >= y /\ ~(n <= y)
        BY <2>1, <2>2, <2>5, <3>1, <3>2, <3>3
      <3> QED
        BY <2>5, <3>4 DEF m, y
    <2> QED
      BY <2>2, <2>6, <2>7
  <1> QED
    BY <1>1, <1>2, <1>3

(* So such a number is kept, ... *)
LEMMA RoundExact ==
  ASSUME NEW j \in 0 .. Bit(DoubleBits) - 1, NEW q \in Nat,
         j * Bit(q) <= Bit(FractionBits) - 1
  PROVE  RoundToDouble(j * Bit(q)) = j * Bit(q)
  <1> DEFINE n == j * Bit(q)
  <1>1. Bit(q) \in Nat /\ Bit(DoubleBits) \in Nat /\ Bit(FractionBits) \in Nat
    BY PowerType, ExtendedAssumption
  <1>2. n \in 0 .. Bit(FractionBits) - 1
    BY <1>1
  <1>3. n >= j * Bit(q) /\ n <= j * Bit(q)
    BY <1>2
  <1> HIDE DEF n
  <1>4. /\ RoundToDouble(n) \in Nat /\ RoundToDouble(n) >= j * Bit(q)
        /\ RoundToDouble(n) <= j * Bit(q)
    BY <1>2, <1>3, RoundOrder
  <1>5. RoundToDouble(n) = n
    BY <1>2, <1>4 DEF n
  <1> QED
    BY <1>5 DEF n

(* ... and others move by no more than half of what a double leaves of them. *)
LEMMA RoundMiss ==
  ASSUME NEW n \in 0 .. Bit(FractionBits) - 1,
         NEW p \in Nat, n < Bit(WordBits + p)
  PROVE  LET m == RoundToDouble(n)
             g == Bit(DoubleBits - WordBits)
         IN  /\ 2 * (m - n) * g <= Bit(p)
             /\ 2 * (n - m) * g <= Bit(p)
  <1> DEFINE m == RoundToDouble(n)
             g == Bit(DoubleBits - WordBits)
  <1>1. /\ DoubleBits \in Nat /\ WordBits \in Nat /\ DoubleBits - WordBits \in Nat
        /\ g \in Nat \ {0} /\ Bit(p) \in Nat
    BY PowerType, ExtendedAssumption
  <1>2. CASE n < Bit(DoubleBits)
    <2>1. m = n
      BY <1>2, RoundKeeps
    <2>2. 2 * (m - n) = 0 /\ 2 * (n - m) = 0
      BY <2>1
    <2> HIDE DEF m, g
    <2>3. 2 * (m - n) * g = 0 /\ 2 * (n - m) * g = 0
      BY <1>1, <2>2
    <2> QED
      BY <1>1, <2>3 DEF m, g
  <1>3. CASE Bit(DoubleBits) <= n
    <2> DEFINE l == LeadingBit(n)
               e == l + 1 - DoubleBits
               unit == Bit(e)
    <2>1. n \in 1 .. Bit(FractionBits) - 1
      <3>1. Bit(DoubleBits) \in Nat \ {0}
        BY <1>1, PowerType
      <3> QED
        BY <1>3, <3>1
    <2>2. e \in Nat /\ Around(n, m, unit) /\ l \in Nat
      BY <1>3, <2>1, RoundAround, LeadingBitIs, ExtendedAssumption
    <2>3. l < WordBits + p
      BY <1>1, <2>1, LeadingBitBelow
    <2>4. unit * g <= Bit(p)
      <3>1. e + (DoubleBits - WordBits) <= p
        BY <1>1, <2>2, <2>3
      <3> HIDE DEF e
      <3>2. Bit(e + (DoubleBits - WordBits)) = unit * g
        BY <1>1, <2>2, PowerAdd
      <3>3. Bit(e + (DoubleBits - WordBits)) <= Bit(p)
        BY <1>1, <2>2, <3>1, PowerOrder
      <3> QED
        BY <3>2, <3>3
    <2>5. /\ 2 * (m - n) <= unit /\ 2 * (n - m) <= unit /\ m \in Nat /\ unit \in Nat
      BY <2>2 DEF Around
    <2> HIDE DEF m, unit, g
    <2>6. 2 * (m - n) * g <= unit * g /\ 2 * (n - m) * g <= unit * g
      BY <1>1, <2>1, <2>5, TimesOrder
    <2>7. unit * g \in Int /\ 2 * (m - n) * g \in Int /\ 2 * (n - m) * g \in Int
      BY <1>1, <2>1, <2>5
    <2> QED
      BY <1>1, <2>4, <2>6, <2>7 DEF m, g
  <1> QED
    BY <1>1, <1>2, <1>3, PowerType

---------------------------------------------------------------------------------
(* Words and 80-bit numbers *)

LEMMA WordsOfBits ==
  /\ WordModulus \in Nat \ {0} /\ WordModulus % 2 = 0
  /\ WordModulus = Bit(WordBits) /\ MaxWord = WordModulus - 1
  /\ MaxWord \in Nat /\ MaxWord < Bit(DoubleBits)
  <1>1. WordBits \in Nat \ {0} /\ DoubleBits \in Nat /\ WordBits < DoubleBits
    BY ExtendedAssumption
  <1>2. WordModulus = Bit(WordBits) /\ Bit(WordBits) \in Nat \ {0}
    BY <1>1, PowerType DEF WordModulus
  <1>3. Bit(WordBits) <= Bit(DoubleBits) /\ Bit(DoubleBits) \in Nat
    BY <1>1, PowerOrder, PowerType
  <1>4. PICK k \in Nat : WordBits = k + 1
    <2>1. WordBits - 1 \in Nat /\ WordBits = (WordBits - 1) + 1
      BY <1>1
    <2> QED
      BY <2>1
  <1>5. Bit(WordBits) = 2 * Bit(k) /\ Bit(k) \in Nat
    BY <1>4, PowerStep, PowerType
  <1>6. (2 * Bit(k)) % 2 = 0
    BY <1>5
  <1> QED
    BY <1>2, <1>3, <1>5, <1>6 DEF MaxWord

LEMMA NumberParts ==
  ASSUME NEW x \in ExtendedNumbers
  PROVE  /\ x.negative \in BOOLEAN /\ x.exponent \in Nat
         /\ x.fraction \in 0 .. Bit(FractionBits) - 1
         /\ Bit(FractionBits) \in Nat /\ PointPlace(x) \in Int
  <1>1. NonFinite \in Nat /\ FractionBits \in Nat /\ ExponentBias \in Nat
    BY ExtendedAssumption DEF NonFinite
  <1>2. x.negative \in BOOLEAN /\ x.exponent \in 0 .. NonFinite
        /\ x.fraction \in 0 .. Bit(FractionBits) - 1
    BY DEF ExtendedNumbers
  <1> QED
    BY <1>1, <1>2, PowerType DEF PointPlace

(* Half away from 0: w units of b are nearest to m. *)
LEMMA HalfUp ==
  ASSUME NEW m \in Nat, NEW b \in Nat \ {0}
  PROVE  LET w == (2 * m + b) \div (2 * b)
         IN  /\ w \in Nat
             /\ 2 * (w * b) - 2 * m <= b /\ 2 * m - 2 * (w * b) <= b
  <1> DEFINE w == (2 * m + b) \div (2 * b)
             r == (2 * m + b) % (2 * b)
  <1>1. w \in Int /\ r \in 0 .. 2 * b - 1 /\ 2 * m + b = w * (2 * b) + r
    <2>1. 2 * m + b \in Int /\ 2 * b \in Nat \ {0}
      OBVIOUS
    <2> QED
      BY <2>1, Divided
  <1> HIDE DEF w, r
  <1>2. w * (2 * b) = 2 * (w * b) /\ w * b \in Int
    BY <1>1
  <1>3. ASSUME w <= -1 PROVE FALSE
    <2>1. w * b <= (-1) * b
      BY <1>1, <1>3, TimesOrder
    <2> QED
      BY <1>1, <1>2, <2>1
  <1>4. 2 * (w * b) - 2 * m <= b /\ 2 * m - 2 * (w * b) <= b
    BY <1>1, <1>2
  <1> QED
    BY <1>1, <1>3, <1>4 DEF w

LEMMA HalfUpOrder ==
  ASSUME NEW m \in Nat, NEW b \in Nat \ {0}, NEW w \in Nat, NEW j \in Nat,
         2 * (w * b) - 2 * m <= b, 2 * m - 2 * (w * b) <= b
  PROVE  /\ m >= j * b => w >= j
         /\ m <= j * b => w <= j
  <1>1. w * b \in Nat /\ j * b \in Nat
    OBVIOUS
  <1>2. ASSUME w + 1 <= j, m >= j * b PROVE FALSE
    <2>1. (w + 1) * b <= j * b /\ (w + 1) * b = w * b + b
      BY <1>2, TimesOrder
    <2> QED
      BY <1>1, <1>2, <2>1
  <1>3. ASSUME j + 1 <= w, m <= j * b PROVE FALSE
    <2>1. (j + 1) * b <= w * b /\ (j + 1) * b = j * b + b
      BY <1>3, TimesOrder
    <2> QED
      BY <1>1, <1>3, <2>1
  <1> QED
    BY <1>2, <1>3

(* The two roundings, to a double and to a word, together. *)
LEMMA MissTogether ==
  ASSUME NEW z \in Int, NEW m \in Int, NEW n \in Int, NEW b \in Int, NEW g \in Nat,
         2 * z - 2 * m <= b, 2 * m - 2 * z <= b,
         2 * (m - n) * g <= b, 2 * (n - m) * g <= b
  PROVE  (z - n) * (2 * g) <= b * (g + 1) /\ (n - z) * (2 * g) <= b * (g + 1)
  <1>1. (2 * z - 2 * m) * g <= b * g /\ (2 * m - 2 * z) * g <= b * g
    BY TimesOrder
  <1>2. /\ (z - n) * (2 * g) = (2 * z - 2 * m) * g + 2 * (m - n) * g
        /\ (n - z) * (2 * g) = (2 * m - 2 * z) * g + 2 * (n - m) * g
        /\ b * (g + 1) = b * g + b
    OBVIOUS
  <1>3. /\ (2 * z - 2 * m) * g \in Int /\ (2 * m - 2 * z) * g \in Int /\ b * g \in Int
        /\ 2 * (m - n) * g \in Int /\ 2 * (n - m) * g \in Int
    OBVIOUS
  <1> QED
    BY <1>1, <1>2, <1>3

LEMMA RoundedWordType ==
  ASSUME NEW x \in ExtendedNumbers
  PROVE  RoundedWord(x) \in 0 .. MaxWord
  <1> DEFINE m == RoundToDouble(x.fraction)
             p == PointPlace(x)
             w == IF p < 0 THEN m * Bit(-p)
                  ELSE (2 * m + Bit(p)) \div Bit(p + 1)
  <1>1. /\ x.fraction \in 0 .. Bit(FractionBits) - 1 /\ p \in Int
        /\ MaxWord \in Nat /\ 0 \in 0 .. Bit(DoubleBits) - 1
    <2>1. DoubleBits \in Nat
      BY ExtendedAssumption
    <2>2. Bit(DoubleBits) \in Nat \ {0}
      BY <2>1, PowerType
    <2> QED
      BY <2>2, NumberParts, WordsOfBits
  <1>2. m \in Nat
    BY <1>1, RoundOrder
  <1>3. w \in Nat
    <2>1. CASE p < 0
      <3>1. Bit(-p) \in Nat
        BY <1>1, <2>1, PowerType
      <3> QED
        BY <1>2, <2>1, <3>1
    <2>2. CASE p >= 0
      <3>1. Bit(p) \in Nat \ {0} /\ Bit(p + 1) = 2 * Bit(p)
        BY <1>1, <2>2, PowerType, PowerStep
      <3>2. (2 * m + Bit(p)) \div (2 * Bit(p)) \in Nat
        BY <1>2, <3>1, HalfUp
      <3> QED
        BY <1>1, <2>2, <3>1, <3>2
    <2> QED
      BY <1>1, <2>1, <2>2
  <1>4. RoundedWord(x) = IF w <= MaxWord THEN w ELSE MaxWord
    BY DEF RoundedWord
  <1> HIDE DEF w
  <1> QED
    BY <1>1, <1>3, <1>4

(* The words that a number becomes. *)
LEMMA ToWordCases ==
  ASSUME NEW x \in ExtendedNumbers
  PROVE  /\ x.negative => ToWord(x) = 0
         /\ ~x.negative /\ x.exponent = NonFinite
              => ToWord(x) = IF x.fraction = 0 THEN MaxWord ELSE 0
         /\ ~x.negative /\ x.exponent # NonFinite
              => ToWord(x) = RoundedWord(x)
         /\ ToWord(x) \in 0 .. MaxWord
  <1>1. x.negative \in BOOLEAN /\ MaxWord \in Nat
    BY NumberParts, WordsOfBits
  <1>2. CASE x.negative
    BY <1>1, <1>2 DEF ToWord
  <1>3. CASE ~x.negative /\ x.exponent = NonFinite
    BY <1>1, <1>3 DEF ToWord
  <1>4. CASE ~x.negative /\ x.exponent # NonFinite
    <2>1. ToWord(x) = RoundedWord(x)
      BY <1>4 DEF ToWord
    <2> QED
      BY <1>4, <2>1, RoundedWordType
  <1> QED
    BY <1>2, <1>3, <1>4

(* With no bits behind the point, a word is the number or has no room for it. *)
LEMMA NearestLarge ==
  ASSUME NEW x \in ExtendedNumbers, PointPlace(x) < 0
  PROVE  \/ RoundedWord(x) = MaxWord
         \/ RoundedWord(x) = x.fraction * Bit(-PointPlace(x))
  <1> DEFINE n == x.fraction
             m == RoundToDouble(n)
             b == Bit(-PointPlace(x))
  <1>1. /\ n \in 0 .. Bit(FractionBits) - 1 /\ PointPlace(x) \in Int
        /\ MaxWord \in Nat /\ MaxWord < Bit(DoubleBits)
        /\ DoubleBits \in Nat /\ Bit(DoubleBits) \in Nat \ {0}
    BY NumberParts, WordsOfBits, PowerType, ExtendedAssumption
  <1>2. b \in Nat \ {0}
    BY <1>1, PowerType
  <1>3. RoundedWord(x) = IF m * b <= MaxWord THEN m * b ELSE MaxWord
    BY DEF RoundedWord
  <1>4. CASE n < Bit(DoubleBits)
    BY <1>1, <1>3, <1>4, RoundKeeps
  <1>5. CASE Bit(DoubleBits) <= n
    <2>1. m \in Nat /\ m >= Bit(DoubleBits)
      <3>1. 1 \in 0 .. Bit(DoubleBits) - 1
        <4>1. DoubleBits > 0 /\ 0 \in Nat
          BY <1>1, ExtendedAssumption
        <4>2. 2 * Bit(0) <= Bit(DoubleBits) /\ Bit(0) \in Nat \ {0}
          BY <1>1, <4>1, PowerOrder, PowerType
        <4> QED
          BY <1>1, <4>2
      <3>2. n >= 1 * Bit(DoubleBits)
        BY <1>1, <1>5
      <3>3. m \in Nat /\ m >= 1 * Bit(DoubleBits)
        BY <1>1, <3>1, <3>2, RoundOrder
      <3> QED
        BY <1>1, <3>3
    <2> HIDE DEF m, b
    <2>2. 1 * m <= b * m /\ b * m = m * b /\ m * b \in Nat
      BY <1>2, <2>1, TimesOrder
    <2>3. m <= m * b
      BY <2>1, <2>2
    <2>4. ~(m * b <= MaxWord)
      BY <1>1, <2>1, <2>2, <2>3
    <2> QED
      BY <1>3, <2>4
  <1> QED
    BY <1>1, <1>4, <1>5

LEMMA NearestSmall ==
  ASSUME NEW x \in ExtendedNumbers,
         NEW p \in Nat, p = PointPlace(x)
  PROVE  LET r == RoundedWord(x)
             b == Bit(p)
             g == Bit(DoubleBits - WordBits)
         IN  IF x.fraction >= MaxWord * b THEN r = MaxWord
             ELSE /\ (r * b - x.fraction) * (2 * g) <= b * (g + 1)
                  /\ (x.fraction - r * b) * (2 * g) <= b * (g + 1)
                  /\ x.fraction % b = 0 => r * b = x.fraction
  <1> DEFINE n == x.fraction
             m == RoundToDouble(n)
             r == RoundedWord(x)
             b == Bit(p)
             g == Bit(DoubleBits - WordBits)
             w == (2 * m + b) \div (2 * b)
             top == MaxWord
  <1>1. /\ n \in 0 .. Bit(FractionBits) - 1 /\ n \in Nat
        /\ top \in Nat /\ top \in 0 .. Bit(DoubleBits) - 1
        /\ Bit(DoubleBits) \in Nat /\ top <= Bit(DoubleBits) - 1
        /\ WordBits \in Nat /\ DoubleBits - WordBits \in Nat
    <2>1. DoubleBits \in Nat /\ Bit(DoubleBits) \in Nat
      BY PowerType, ExtendedAssumption
    <2> QED
      BY <2>1, NumberParts, WordsOfBits, ExtendedAssumption
  <1>2. b \in Nat \ {0} /\ g \in Nat /\ Bit(p + 1) = 2 * b
    BY <1>1, PowerType, PowerStep
  <1>3. /\ m \in Nat
        /\ n >= top * b => m >= top * b
        /\ n <= top * b => m <= top * b
    BY <1>1, RoundOrder
  <1>4. w \in Nat /\ 2 * (w * b) - 2 * m <= b /\ 2 * m - 2 * (w * b) <= b
    BY <1>2, <1>3, HalfUp
  <1>5. r = IF w <= top THEN w ELSE top
    BY <1>2 DEF RoundedWord
  <1>6. top * b \in Nat
    BY <1>1, <1>2
  <1> HIDE DEF n, m, r, b, g, w, top
  <1>7. CASE n >= top * b
    <2>1. w >= top
      BY <1>1, <1>2, <1>3, <1>4, <1>7, HalfUpOrder
    <2>2. r = top
      BY <1>1, <1>4, <1>5, <2>1
    <2> QED
      BY <1>7, <2>2 DEF n, r, b, top
  <1>8. CASE ~(n >= top * b)
    <2>1. w <= top
      <3>1. n <= top * b
        BY <1>1, <1>6, <1>8
      <3> QED
        BY <1>1, <1>2, <1>3, <1>4, <3>1, HalfUpOrder
    <2>2. r = w
      BY <1>5, <2>1
    <2>3. 2 * (m - n) * g <= b /\ 2 * (n - m) * g <= b
      <3>1. n < Bit(WordBits + p)
        <4>1. Bit(WordBits + p) = (top + 1) * b
          BY <1>1, PowerAdd, WordsOfBits DEF b, top
        <4>2. (top + 1) * b = top * b + b
          BY <1>1, <1>2
        <4> QED
          BY <1>1, <1>2, <1>6, <1>8, <4>1, <4>2
      <3> QED
        BY <1>1, <3>1, RoundMiss DEF m, b, g
    <2>4. w * b \in Int
      BY <1>2, <1>4
    <2>5. (w * b - n) * (2 * g) <= b * (g + 1) /\ (n - w * b) * (2 * g) <= b * (g + 1)
      <3> DEFINE z == w * b
      <3>1. /\ z \in Int /\ m \in Int /\ n \in Int /\ b \in Int /\ g \in Nat
            /\ 2 * z - 2 * m <= b /\ 2 * m - 2 * z <= b
        BY <1>1, <1>2, <1>3, <1>4, <2>4
      <3> HIDE DEF z
      <3>2. (z - n) * (2 * g) <= b * (g + 1) /\ (n - z) * (2 * g) <= b * (g + 1)
        BY <2>3, <3>1, MissTogether
      <3> QED
        BY <3>2 DEF z
    <2>6. ASSUME n % b = 0 PROVE w * b = n
      <3> DEFINE k == n \div b
      <3>1. k \in Int /\ n = k * b
        <4>1. k \in Int /\ n = k * b + (n % b)
          <5>1. n \in Int
            BY <1>1
          <5> QED
            BY <1>2, <5>1, Divided
        <4>2. k * b \in Int
          BY <1>2, <4>1
        <4> QED
          BY <2>6, <4>1, <4>2
      <3> HIDE DEF k
      <3>2. k >= 0 /\ k < top
        <4>1. ASSUME k <= -1 PROVE FALSE
          <5>1. k * b <= (-1) * b
            BY <1>2, <3>1, <4>1, TimesOrder
          <5> QED
            BY <1>1, <1>2, <3>1, <5>1
        <4>2. ASSUME top <= k PROVE FALSE
          <5>1. top * b <= k * b
            BY <1>1, <1>2, <3>1, <4>2, TimesOrder
          <5> QED
            BY <1>1, <1>6, <1>8, <3>1, <5>1
        <4> QED
          BY <1>1, <3>1, <4>1, <4>2
      <3>3. k \in 0 .. Bit(DoubleBits) - 1 /\ k \in Nat
        BY <1>1, <3>1, <3>2
      <3>4. m = k * b
        BY <1>1, <3>1, <3>3, RoundExact DEF m, b
      <3>5. k * b \in Nat
        BY <1>2, <3>3
      <3>6. m >= k * b /\ m <= k * b
        BY <3>4, <3>5
      <3>7. w >= k /\ w <= k
        BY <1>2, <1>3, <1>4, <3>3, <3>6, HalfUpOrder
      <3>8. w = k
        BY <1>4, <3>3, <3>7
      <3> QED
        BY <3>1, <3>8
    <2> QED
      BY <1>8, <2>2, <2>5, <2>6 DEF n, r, b, g, top
  <1> QED
    BY <1>7, <1>8

(* A number and the word that it becomes. *)
LEMMA Nearest ==
  ASSUME NEW x \in ExtendedNumbers
  PROVE  NearestWord(x, ToWord(x))
  <1> DEFINE p == PointPlace(x)
             r == ToWord(x)
             g == Bit(DoubleBits - WordBits)
             b == Bit(p)
             d == IF r * b >= x.fraction THEN r * b - x.fraction ELSE x.fraction - r * b
             finite == ~x.negative /\ x.exponent # NonFinite
  <1>1. p \in Int /\ x.fraction \in Nat /\ r \in Nat /\ MaxWord \in Nat
    BY NumberParts, WordsOfBits, ToWordCases
  <1>2. x.negative => r = 0
    BY ToWordCases
  <1>3. ~x.negative /\ ~finite => r = IF x.fraction = 0 THEN MaxWord ELSE 0
    BY ToWordCases
  <1>4. finite => r = RoundedWord(x)
    BY ToWordCases
  <1>5. finite /\ p < 0 => r = MaxWord \/ r = x.fraction * Bit(-p)
    BY <1>4, NearestLarge
  <1>6. finite /\ p >= 0 /\ x.fraction >= MaxWord * b => r = MaxWord
    BY <1>1, <1>4, NearestSmall
  <1>7. ASSUME finite /\ p >= 0 /\ x.fraction < MaxWord * b
        PROVE  /\ d * Bit(DoubleBits - WordBits + 1) <= b * (g + 1)
               /\ x.fraction % b = 0 => d = 0
    <2>1. b \in Nat /\ g \in Nat /\ Bit(DoubleBits - WordBits + 1) = 2 * g
      <3>1. DoubleBits - WordBits \in Nat
        BY ExtendedAssumption
      <3> QED
        BY <1>1, <1>7, <3>1, PowerType, PowerStep
    <2>2. MaxWord * b \in Nat /\ r * b \in Nat
      BY <1>1, <2>1
    <2>3. ~(x.fraction >= MaxWord * b)
      <3> HIDE DEF b
      <3> QED
        BY <1>1, <1>7, <2>2
    <2>4. /\ (r * b - x.fraction) * (2 * g) <= b * (g + 1)
          /\ (x.fraction - r * b) * (2 * g) <= b * (g + 1)
          /\ x.fraction % b = 0 => r * b = x.fraction
      BY <1>1, <1>4, <1>7, <2>3, NearestSmall
    <2>5. d * (2 * g) <= b * (g + 1)
      BY <2>4
    <2>6. r * b = x.fraction => d = 0
      <3> HIDE DEF b, r
      <3> QED
        BY <1>1, <2>2
    <2> QED
      BY <2>1, <2>4, <2>5, <2>6
  <1> HIDE DEF p, r
  <1> QED
    BY <1>2, <1>3, <1>5, <1>6, <1>7 DEF NearestWord, p, r

(* A word comes back from the number it is written as. *)
LEMMA WordReturns ==
  ASSUME NEW v \in 0 .. MaxWord
  PROVE  FromWord(v) \in ExtendedNumbers /\ ToWord(FromWord(v)) = v
  <1>1. /\ WordBits \in Nat \ {0} /\ DoubleBits \in Nat /\ FractionBits \in Nat
        /\ WordBits < DoubleBits /\ DoubleBits <= FractionBits
        /\ ExponentBias \in Nat /\ WordBits <= ExponentBias
    BY ExtendedAssumption
  <1>2. /\ MaxWord \in Nat /\ MaxWord = Bit(WordBits) - 1
        /\ MaxWord < Bit(DoubleBits)
        /\ Bit(DoubleBits) \in Nat /\ Bit(FractionBits) \in Nat \ {0}
        /\ Bit(WordBits) \in Nat
    BY <1>1, WordsOfBits, PowerType
  <1>3. NonFinite = 2 * ExponentBias + 1
    BY DEF NonFinite
  <1>4. CASE v = 0
    <2> DEFINE x == FromWord(v)
    <2>1. x = [negative |-> FALSE, exponent |-> 0, fraction |-> 0]
      BY <1>4 DEF FromWord
    <2>2. x \in ExtendedNumbers
      BY <1>1, <1>2, <1>3, <2>1 DEF ExtendedNumbers
    <2> HIDE DEF x
    <2>3. x.negative = FALSE /\ x.exponent = 0 /\ x.fraction = 0 /\ 0 # NonFinite
      BY <1>1, <1>3, <2>1
    <2>4. ToWord(x) = RoundedWord(x)
      BY <2>2, <2>3, ToWordCases
    <2>5. PointPlace(x) = FractionBits - 1 + ExponentBias
      BY <1>1, <2>3 DEF PointPlace
    <2>6. PointPlace(x) \in Nat
      BY <1>1, <2>5
    <2> DEFINE b == Bit(PointPlace(x))
    <2>7. b \in Nat \ {0} /\ Bit(PointPlace(x) + 1) = 2 * b
      BY <2>6, PowerType, PowerStep
    <2>8. RoundToDouble(x.fraction) = 0
      BY <2>3 DEF RoundToDouble
    <2>9. (2 * 0 + b) \div (2 * b) = 0
      <3>1. 2 * 0 + b \in Int /\ 2 * b \in Nat \ {0} /\ b \in 0 .. 2 * b - 1
            /\ 2 * 0 + b = 0 * (2 * b) + b
        BY <2>7
      <3> HIDE DEF b
      <3> QED
        BY <3>1, DividedOnce
    <2>10. RoundedWord(x) = 0
      BY <1>2, <2>6, <2>7, <2>8, <2>9 DEF RoundedWord
    <2> QED
      BY <1>4, <2>2, <2>4, <2>10 DEF x
  <1>5. CASE v # 0
    <2> DEFINE l == LeadingBit(v)
               p == FractionBits - 1 - l
               b == Bit(p)
               x == FromWord(v)
    <2>1. v \in 1 .. Bit(FractionBits) - 1 /\ v < Bit(WordBits)
      <3>1. Bit(DoubleBits) <= Bit(FractionBits)
        BY <1>1, PowerOrder
      <3> QED
        BY <1>2, <1>5, <3>1
    <2>2. l \in Nat /\ l < WordBits /\ v < Bit(l + 1)
      BY <1>1, <2>1, LeadingBitIs, LeadingBitBelow
    <2>3. x = [negative |-> FALSE, exponent |-> l + ExponentBias, fraction |-> v * b]
      BY <1>5 DEF FromWord
    <2> HIDE DEF l, x
    <2>4. p \in Nat /\ b \in Nat \ {0}
      BY <1>1, <2>2, PowerType
    <2>5. v * b <= Bit(FractionBits) - 1 /\ v * b \in Nat \ {0}
      <3>1. (l + 1) + p = FractionBits /\ l + 1 \in Nat
        BY <1>1, <2>2
      <3> HIDE DEF p
      <3>2. Bit(l + 1) * b = Bit(FractionBits) /\ Bit(l + 1) \in Nat
        BY <2>4, <3>1, PowerAdd, PowerType
      <3> HIDE DEF b
      <3>3. (v + 1) * b <= Bit(l + 1) * b
        BY <2>1, <2>2, <2>4, <3>2, TimesOrder
      <3>4. (v + 1) * b = v * b + b /\ v * b \in Nat /\ 1 * b <= v * b
        BY <2>1, <2>4, TimesOrder
      <3> QED
        BY <1>2, <2>4, <3>2, <3>3, <3>4
    <2>6. x \in ExtendedNumbers
      <3>1. l + ExponentBias \in 0 .. NonFinite
        BY <1>1, <1>3, <2>2
      <3>2. v * b \in 0 .. Bit(FractionBits) - 1
        BY <1>2, <2>5
      <3> QED
        BY <2>3, <3>1, <3>2 DEF ExtendedNumbers
    <2>7. /\ x.negative = FALSE /\ x.exponent # NonFinite /\ x.fraction = v * b
          /\ PointPlace(x) = p
      BY <1>1, <1>3, <2>2, <2>3 DEF PointPlace
    <2>8. ToWord(x) = RoundedWord(x)
      BY <2>6, <2>7, ToWordCases
    <2>9. RoundToDouble(x.fraction) = v * b
      <3>1. v \in 0 .. Bit(DoubleBits) - 1
        BY <1>2
      <3> QED
        BY <2>4, <2>5, <2>7, <3>1, RoundExact
    <2>10. (2 * (v * b) + b) \div Bit(p + 1) = v
      <3>1. Bit(p + 1) = 2 * b
        BY <2>4, PowerStep
      <3> HIDE DEF b
      <3>2. 2 * (v * b) + b \in Int /\ 2 * b \in Nat \ {0} /\ b \in 0 .. 2 * b - 1
            /\ 2 * (v * b) + b = v * (2 * b) + b
        BY <2>4
      <3> QED
        BY <3>1, <3>2, DividedOnce
    <2>11. RoundedWord(x) = v
      <3> HIDE DEF p
      <3> QED
        BY <1>2, <2>4, <2>7, <2>9, <2>10 DEF RoundedWord
    <2> QED
      BY <2>6, <2>8, <2>11 DEF x
  <1> QED
    BY <1>4, <1>5

---------------------------------------------------------------------------------
(* wave_parse, on every file *)

(* The audio that was found is behind the header of a chunk, and in the file. *)
AudioFound ==
    /\ audio.from \in Nat /\ audio.size \in Nat
    /\ audio.from >= 20 /\ audio.from + audio.size <= size

(***************************************************************************)
(* The invariant: what is taken from the file ends with its contents,      *)
(* which the header made sure are there.                                   *)
(***************************************************************************)
IInv ==
    /\ data \in Written \cup {NoFile}
    /\ size \in Nat /\ offset \in Nat /\ end \in Nat
    /\ header.content_size \in Words
    /\ \A o \in DOMAIN file : file[o].size \in Words
    /\ inBounds = TRUE
    /\ pc = "write" => data \in Written
    /\ pc \in {"write", "header"} => audio = NoAudio
    /\ pc = "chunk" => 12 <= offset /\ offset <= end /\ end <= size
    /\ audio # NoAudio => AudioFound
    /\ pc \in {"parsed", "ok"} => wave # NoFormat /\ audio # NoAudio

LEMMA WordsType ==
  /\ WordModulus \in Nat /\ WordModulus > 64 /\ WordModulus % 2 = 0
  /\ Words = 0 .. WordModulus - 1
  BY WordsOfBits, WaveAssumption DEF Words

LEMMA Remainder ==
  ASSUME NEW m \in Nat \ {0}, NEW n \in Nat
  PROVE  n % m \in 0 .. m - 1
  OBVIOUS

LEMMA AlignType ==
  ASSUME NEW n \in Nat
  PROVE  Align32(n) \in Nat
  <1>1. (n + 1) % WordModulus \in Nat
    BY WordsType
  <1> QED
    BY <1>1 DEF Align32

LEMMA ChunkType ==
  ASSUME IInv, NEW c \in ChunkAt(offset)
  PROVE  c.size \in Nat
  <1>1. Words \subseteq Nat
    BY WordsType DEF IInv
  <1>2. CASE offset \in DOMAIN file
    BY <1>1, <1>2 DEF IInv, ChunkAt
  <1>3. CASE offset \notin DOMAIN file
    <2>1. c \in AnyChunk
      BY <1>3 DEF ChunkAt
    <2>2. \A id \in ChunkIds : ChunkSizes[id] \subseteq Words
      BY WaveAssumption DEF IInv
    <2> QED
      BY <1>1, <2>1, <2>2 DEF AnyChunk, ChunkIds
  <1> QED
    BY <1>2, <1>3

(* The parser is at a chunk, whose header is in the contents. *)
AtChunk(c) ==
    /\ IInv
    /\ pc = "chunk"
    /\ end - offset >= 8
    /\ c.size \in Nat

(* A chunk that fits ends, with its padding, in the contents. *)
LEMMA ChunkInside ==
  ASSUME NEW c, AtChunk(c), ChunkFits(c)
  PROVE  /\ Padded(c) \in Nat
         /\ c.size <= Padded(c) /\ offset + 8 + Padded(c) <= end
         /\ offset \in Nat /\ end \in Nat /\ size \in Nat /\ end <= size
  <1>1. Padded(c) \in Nat
    BY AlignType DEF AtChunk, IInv, Padded
  <1> QED
    BY <1>1 DEF AtChunk, IInv, ChunkFits, At

LEMMA ReadInside ==
  ASSUME IInv, NEW from \in Int, NEW count \in Int, NEW bound \in Int,
         from + count <= bound, bound <= size, Read(from, count, bound)
  PROVE  inBounds' = TRUE
  <1>1. from + count <= bound /\ bound <= size /\ inBounds = TRUE
    BY DEF IInv
  <1> QED
    BY <1>1, Zenon DEF Read

LEMMA ChunkHeaderInside ==
  ASSUME NEW c, AtChunk(c), Read(offset, 8, end)
  PROVE  inBounds' = TRUE
  <1>1. /\ offset + 8 <= end /\ end <= size
        /\ offset \in Int /\ end \in Int /\ 8 \in Int /\ IInv
    BY DEF AtChunk, IInv
  <1> QED
    BY <1>1, ReadInside, Zenon

(* A step that returns with an error. *)
LEMMA FailInv ==
  ASSUME IInv, pc' = "error", inBounds' = TRUE,
         UNCHANGED <<data, file, header, size, offset, end, wave, audio, meta>>
  PROVE  IInv'
  BY DEF IInv, AudioFound, NoAudio, Words, MaxWord, WordModulus

(* What wave_write takes is even, and is padded without a wrap. *)
LEMMA WrittenSizes ==
  ASSUME data \in Written, AudioSize <= MaxWord - 1
  PROVE  /\ data.sample_count \in Nat /\ AudioSize = 2 * data.sample_count
         /\ AudioSize <= WordModulus - 2
         /\ DataSize = AudioSize
         /\ FileLength = 44 + AudioSize
  <1> DEFINE m == WordModulus
             n == data.sample_count
  <1>1. m \in Nat /\ m > 64
    BY WordsType
  <1>2. n \in Nat /\ AudioSize = 2 * n
    BY WaveAssumption DEF AudioSize
  <1>3. 2 * n <= m - 2
    BY <1>1, <1>2 DEF MaxWord
  <1> HIDE DEF m, n
  <1>4. (2 * n + 1) % m = 2 * n + 1
    BY <1>1, <1>2, <1>3
  <1>5. (2 * n + 1) % 2 = 1 /\ (2 * n) % 2 = 0
    BY <1>2
  <1>6. Align32(2 * n) = 2 * n
    BY <1>2, <1>4, <1>5 DEF Align32, m
  <1>7. FileLength = 44 + 2 * n
    BY <1>2, <1>5 DEF FileLength
  <1> QED
    BY <1>2, <1>3, <1>6, <1>7 DEF DataSize, m, n

(* What a file that is written has, whole or cut. *)
WrittenAs ==
    /\ data \in Written /\ AudioSize <= MaxWord - 1
    /\ file = [o \in {12, 36} |->
                  IF o = 12 THEN [id |-> "fmt", size |-> 16, format |-> WrittenFormat(data)]
                  ELSE [id |-> "data", size |-> AudioSize]]
    /\ header = [form |-> TRUE, content_size |-> (AudioSize + 36) % WordModulus]
    /\ size \in 0 .. 44 + AudioSize

LEMMA FileWritten ==
  ASSUME IInv, Write
  PROVE  /\ WrittenAs' /\ pc' = "header"
         /\ UNCHANGED <<data, offset, end, wave, audio, meta, inBounds>>
  <1>1. /\ AudioSize <= MaxWord - 1
        /\ UNCHANGED <<data, offset, end, wave, audio, meta, inBounds>>
        /\ pc' = "header"
    BY DEF IInv, Write
  <1>2. data \in Written
    BY DEF IInv, Write
  <1>3. DataSize = AudioSize /\ FileLength = 44 + AudioSize
    BY <1>1, <1>2, WrittenSizes
  <1>4. /\ file' = [o \in {12, 36} |->
                  IF o = 12 THEN [id |-> "fmt", size |-> 16, format |-> WrittenFormat(data)]
                  ELSE [id |-> "data", size |-> AudioSize]]
        /\ header' = [form |-> TRUE, content_size |-> (AudioSize + 36) % WordModulus]
        /\ size' \in 0 .. 44 + AudioSize
    BY <1>3 DEF Write
  <1>5. AudioSize' = AudioSize
    BY <1>1 DEF AudioSize
  <1> QED
    BY <1>1, <1>2, <1>4, <1>5 DEF WrittenAs, WrittenFormat, ToWord, MaxWord

LEMMA WriteInv ==
  ASSUME IInv, WriteRefused \/ Write
  PROVE  IInv'
  <1>1. CASE WriteRefused
    BY <1>1 DEF WriteRefused, parse, IInv, AudioFound, NoAudio
  <1>2. CASE Write
    <2> DEFINE m == WordModulus
    <2>1. m \in Nat /\ m > 64 /\ Words = 0 .. m - 1
      BY WordsType DEF IInv
    <2>2. /\ WrittenAs' /\ pc' = "header"
          /\ UNCHANGED <<data, offset, end, wave, audio, meta, inBounds>>
      BY <1>2, FileWritten
    <2>3. AudioSize' = AudioSize
      BY <2>2 DEF AudioSize
    <2>4. AudioSize \in Nat /\ AudioSize <= m - 2
      BY <1>2, <2>1, WrittenSizes DEF IInv, Write
    <2>5. (\A o \in DOMAIN file : file[o].size \in Words)'
      <3>1. \A o \in DOMAIN file' : file'[o].size \in {16, AudioSize}
        BY <2>2, <2>3 DEF WrittenAs
      <3>2. 16 \in Words /\ AudioSize \in Words
        BY <2>1, <2>4
      <3> QED
        BY <3>1, <3>2
    <2>6. header'.content_size \in Words
      <3>1. header'.content_size = (AudioSize + 36) % m
        BY <2>2, <2>3 DEF WrittenAs
      <3>2. AudioSize + 36 \in Nat /\ m \in Nat \ {0}
        BY <2>1, <2>4
      <3>3. (AudioSize + 36) % m \in 0 .. m - 1
        BY <3>2, Remainder
      <3> QED
        BY <2>1, <3>1, <3>3
    <2>7. size' \in Nat
      BY <2>2, <2>3, <2>4 DEF WrittenAs
    <2>8. audio' = NoAudio
      BY <1>2, <2>2 DEF IInv, Write
    <2> QED
      BY <2>2, <2>5, <2>6, <2>7, <2>8 DEF IInv
  <1> QED
    BY <1>1, <1>2

LEMMA HeaderInv ==
  ASSUME IInv, HeaderError \/ ReadHeader
  PROVE  IInv'
  <1>1. size \in Nat /\ header.content_size \in Nat
    BY WordsType DEF IInv
  <1>2. CASE HeaderError
    <2>1. inBounds' = TRUE
      <3>0. 0 + 0 <= size /\ (size >= 12 => 0 + 12 <= size) /\ size <= size
        BY <1>1
      <3>1. CASE Read(0, 0, size)
        BY <3>0, <3>1, Zenon DEF IInv, Read
      <3>2. CASE size >= 12 /\ Read(0, 12, size)
        BY <3>0, <3>2, Zenon DEF IInv, Read
      <3> QED
        BY <1>2, <3>1, <3>2 DEF HeaderError
    <2> QED
      BY <1>2, <2>1, FailInv DEF HeaderError, Fail
  <1>3. CASE ReadHeader
    <2>1. /\ pc = "header" /\ pc' = "chunk" /\ offset' = 12
          /\ end' = header.content_size + 8
          /\ UNCHANGED <<data, file, header, size, wave, audio, meta>>
      BY <1>3 DEF ReadHeader
    <2>2. end' \in Nat /\ 12 <= end' /\ end' <= size
      BY <1>1, <1>3, <2>1 DEF ReadHeader, HeaderInvalid
    <2>3. inBounds' = TRUE
      <3>1. 0 + 12 <= size /\ size <= size
        BY <1>1, <1>3 DEF ReadHeader
      <3> QED
        BY <1>3, <3>1, Zenon DEF ReadHeader, Read, IInv
    <2> QED
      BY <2>1, <2>2, <2>3 DEF IInv, AudioFound, NoAudio, Words, MaxWord,
                              WordModulus
  <1> QED
    BY <1>2, <1>3

LEMMA EndInv ==
  ASSUME IInv, ChunkHeaderCut \/ Finish
  PROVE  IInv'
  <1>1. CASE ChunkHeaderCut
    BY <1>1, FailInv DEF ChunkHeaderCut, Fail, parse, IInv
  <1>2. CASE Finish
    <2>1. UNCHANGED <<data, file, header, size, offset, end, wave, audio, meta, inBounds>>
      BY <1>2 DEF Finish, parse
    <2>2. CASE Missing
      BY <1>2, <2>1, <2>2, FailInv DEF Finish, IInv
    <2>3. CASE ~Missing
      <3>1. pc' = "parsed" /\ wave # NoFormat /\ audio # NoAudio
        BY <1>2, <2>3 DEF Finish, Missing
      <3> QED
        BY <2>1, <3>1 DEF IInv, AudioFound, NoAudio, Words, MaxWord,
                          WordModulus
    <2> QED
      BY <2>2, <2>3
  <1> QED
    BY <1>1, <1>2

(* On to the next chunk, with what was found in this one. *)
LEMMA AdvanceInv ==
  ASSUME NEW c, AtChunk(c), ChunkFits(c), Advance(c), inBounds' = TRUE,
         audio' = audio \/ audio' = [from |-> offset + 8, size |-> c.size],
         UNCHANGED <<data, file, header, size, end, meta>>
  PROVE  IInv' /\ offset' \in offset + 8 .. end
  <1>1. /\ Padded(c) \in Nat
        /\ c.size <= Padded(c) /\ offset + 8 + Padded(c) <= end
        /\ offset \in Nat /\ end \in Nat /\ size \in Nat /\ end <= size
    BY ChunkInside
  <1>2. offset' = offset + 8 + Padded(c) /\ pc' = "chunk"
    BY DEF Advance, At
  <1>3. c.size \in Nat /\ offset >= 12
    BY DEF AtChunk, IInv
  <1>4. /\ offset' \in Nat /\ offset' \in offset + 8 .. end
        /\ 12 <= offset' /\ offset' <= end' /\ end' <= size'
    BY <1>1, <1>2, <1>3
  <1>5. (audio # NoAudio => AudioFound)'
    <2>1. CASE audio' = audio
      BY <2>1 DEF AtChunk, IInv, AudioFound, NoAudio
    <2>2. CASE audio' = [from |-> offset + 8, size |-> c.size]
      BY <1>1, <1>3, <2>2 DEF AudioFound
    <2> QED
      BY <2>1, <2>2
  <1> QED
    BY <1>2, <1>4, <1>5 DEF AtChunk, IInv, Words, MaxWord, WordModulus

(* A step at a chunk keeps the invariant, and if it goes on, goes on past a header. *)
LEMMA ChunkInv ==
  ASSUME IInv, NextChunk
  PROVE  IInv' /\ (pc' = "chunk" => offset' \in offset + 8 .. end)
  <1>1. PICK c \in ChunkAt(offset) : ParseChunk(c)
    BY DEF NextChunk
  <1>2. AtChunk(c)
    BY ChunkType DEF NextChunk, AtChunk
  <1>3. CASE ChunkSizeInvalid(c) \/ FormatError(c) \/ DataTwice(c)
    <2>1. /\ pc' = "error" /\ Read(offset, 8, end)
          /\ UNCHANGED <<data, file, header, size, offset, end, wave, audio, meta>>
      BY <1>3 DEF ChunkSizeInvalid, FormatError, DataTwice, Fail
    <2> QED
      BY <1>2, <2>1, ChunkHeaderInside, FailInv
  <1>4. CASE ParseFormat(c)
    <2>1. /\ ChunkFits(c) /\ c.size >= 16 /\ Read(offset + 8, 16, offset + 8 + c.size)
          /\ Advance(c)
          /\ UNCHANGED <<data, file, header, size, end, audio, meta>>
      BY <1>4 DEF ParseFormat, Enter, At, Until
    <2>2. inBounds' = TRUE
      <3>1. /\ offset + 8 \in Int /\ 16 \in Int /\ offset + 8 + c.size \in Int
            /\ offset + 8 + 16 <= offset + 8 + c.size /\ offset + 8 + c.size <= size
        BY <1>2, <2>1, ChunkInside DEF AtChunk
      <3> QED
        BY <2>1, <3>1, ReadInside, Zenon
    <2> QED
      BY <1>2, <2>1, <2>2, AdvanceInv
  <1>5. CASE ParseData(c) \/ SkipChunk(c)
    <2>1. /\ ChunkFits(c) /\ Read(offset, 8, end) /\ Advance(c)
          /\ audio' = audio \/ audio' = [from |-> offset + 8, size |-> c.size]
          /\ UNCHANGED <<data, file, header, size, end, meta>>
      BY <1>5 DEF ParseData, SkipChunk, Enter, At
    <2> QED
      BY <1>2, <2>1, ChunkHeaderInside, AdvanceInv
  <1> QED
    BY <1>1, <1>3, <1>4, <1>5 DEF ParseChunk

LEMMA LoadInv ==
  ASSUME IInv, RejectInput \/ LoadSamples
  PROVE  IInv'
  <1>1. CASE RejectInput
    BY <1>1, FailInv DEF RejectInput, Fail, parse, IInv
  <1>2. CASE LoadSamples
    <2> DEFINE count == audio.size \div 2
    <2>1. /\ pc = "parsed" /\ pc' = "ok"
          /\ Read(audio.from, 2 * count, audio.from + audio.size)
          /\ UNCHANGED <<data, file, header, size, offset, end, wave, audio>>
      BY <1>2 DEF LoadSamples
    <2>2. AudioFound
      BY <2>1 DEF IInv
    <2>3. /\ audio.from \in Int /\ 2 * count \in Int /\ audio.from + audio.size \in Int
          /\ audio.from + 2 * count <= audio.from + audio.size
          /\ audio.from + audio.size <= size
      BY <2>2 DEF AudioFound
    <2>4. inBounds' = TRUE
      <3> HIDE DEF count
      <3> QED
        BY <2>1, <2>3, ReadInside, Zenon
    <2> QED
      BY <2>1, <2>4 DEF IInv, AudioFound, NoAudio, Words, MaxWord,
                        WordModulus
  <1> QED
    BY <1>1, <1>2

LEMMA InitInv ==
  ASSUME Init
  PROVE  IInv
  <1>1. Words \subseteq Nat /\ 0 \in Words
    BY WordsType
  <1>2. /\ file = << >> /\ offset = 0 /\ end = 0 /\ audio = NoAudio /\ inBounds = TRUE
    BY DEF Init, WriteInit, ReadInit, Common
  <1>3. CASE WriteInit
    <2>1. pc = "write" /\ data \in Written /\ size = 0 /\ header.content_size = 0
      BY <1>3 DEF WriteInit
    <2> QED
      BY <1>1, <1>2, <2>1 DEF IInv
  <1>4. CASE ReadInit
    <2>1. pc = "header" /\ data = NoFile /\ size \in Nat
      BY <1>4, WaveAssumption DEF ReadInit
    <2>2. header.content_size \in Words
      BY <1>4, WaveAssumption DEF ReadInit
    <2> QED
      BY <1>1, <1>2, <2>1, <2>2 DEF IInv
  <1> QED
    BY <1>3, <1>4 DEF Init

LEMMA NextInv ==
  ASSUME IInv, [Next]_vars
  PROVE  IInv'
  <1>1. CASE UNCHANGED vars
    BY <1>1 DEF vars, parse, IInv, AudioFound, NoAudio, Words,
                MaxWord, WordModulus
  <1> QED
    BY <1>1, WriteInv, HeaderInv, EndInv, ChunkInv, LoadInv
    DEF Next, Step

(* The invariant holds of every WAVE file, written or not. *)
THEOREM WaveInvariant == Spec => []IInv
  <1>1. Init => IInv
    BY InitInv
  <1>2. IInv /\ [Next]_vars => IInv'
    BY NextInv
  <1> QED
    BY <1>1, <1>2, PTL DEF Spec

(***************************************************************************)
(* wave_parse and audio_read_wave read nothing outside a chunk or the      *)
(* file, whatever sizes are in it, and take no file without its chunks.    *)
(***************************************************************************)
THEOREM WaveReads == Spec => []ReadsInFile
  <1>1. IInv => ReadsInFile
    BY DEF IInv, AudioFound, ReadsInFile
  <1> QED
    BY <1>1, WaveInvariant, PTL

(***************************************************************************)
(* Every round of the loop of wave_parse moves on by a chunk header at     *)
(* least, and never past the end.                                          *)
(***************************************************************************)
THEOREM WaveAdvances == Spec => LoopAdvances
  <1>1. ASSUME IInv, [Next]_vars
        PROVE  [pc = "chunk" /\ pc' = "chunk" => offset' \in offset + 8 .. end]_vars
    <2>1. CASE NextChunk
      BY <1>1, <2>1, ChunkInv
    <2>2. CASE UNCHANGED vars
      BY <2>2
    <2>3. CASE Next /\ ~NextChunk
      BY <2>3 DEF Next, Step, WriteRefused, Write, HeaderError,
         ReadHeader, ChunkHeaderCut, Finish, RejectInput,
         LoadSamples, Fail
    <2> QED
      BY <1>1, <2>1, <2>2, <2>3
  <1> QED
    BY <1>1, WaveInvariant, PTL DEF Spec, LoopAdvances

---------------------------------------------------------------------------------
(* The WAVE files that are written *)

(* What a word holds of the size of the contents. *)
Contents ==
    IF AudioSize + 36 <= MaxWord THEN AudioSize + 36
    ELSE AudioSize + 36 - WordModulus

LEMMA ContentSize ==
  ASSUME WrittenAs
  PROVE  header.content_size = Contents
  <1> DEFINE m == WordModulus
             a == AudioSize
  <1>1. m \in Nat /\ m > 64 /\ a \in Nat /\ a <= m - 2 /\ MaxWord = m - 1
    BY WordsType, WrittenSizes DEF WrittenAs, MaxWord
  <1>2. header.content_size = (a + 36) % m
    BY DEF WrittenAs
  <1> HIDE DEF m, a
  <1>3. CASE a + 36 <= m - 1
    <2>1. (a + 36) % m = a + 36
      BY <1>1, <1>3
    <2> QED
      BY <1>1, <1>2, <1>3, <2>1 DEF Contents, m, a
  <1>4. CASE a + 36 > m - 1
    <2>1. a + 36 - m \in 0 .. m - 1 /\ a + 36 = 1 * m + (a + 36 - m)
      BY <1>1, <1>4
    <2>2. (a + 36) % m = a + 36 - m
      BY <1>1, <2>1
    <2> QED
      BY <1>1, <1>2, <1>4, <2>2 DEF Contents, m, a
  <1> QED
    BY <1>1, <1>3, <1>4

(* All that is in the file was found. *)
AllFound ==
    /\ wave = WrittenFormat(data)
    /\ audio = [from |-> 44, size |-> AudioSize]
    /\ size = 44 + AudioSize

(* The parser is at fmt, at data, or at the end. *)
AtPlace ==
    \/ offset = 12 /\ wave = NoFormat /\ audio = NoAudio
    \/ offset = 36 /\ wave = WrittenFormat(data) /\ audio = NoAudio
    \/ offset = 44 + AudioSize /\ AllFound

(* The contents are those that the header states, and are there. *)
InContents ==
    /\ end = Contents + 8
    /\ end <= size

(***************************************************************************)
(* The invariant, for a file that is written: where the parser is in it,   *)
(* and what it has found by then.                                          *)
(***************************************************************************)
FileInv ==
    data # NoFile =>
        /\ pc \in {"write", "header"} => wave = NoFormat
        /\ pc \in {"header", "chunk", "parsed"} => WrittenAs
        /\ pc = "chunk" => InContents /\ AtPlace
        /\ pc = "parsed" => AllFound
        /\ WholeIsAccepted

LEMMA WrittenKept ==
  ASSUME WrittenAs, UNCHANGED <<data, file, header, size>>
  PROVE  /\ WrittenAs' /\ AudioSize' = AudioSize
         /\ Contents' = Contents /\ WrittenFormat(data)' = WrittenFormat(data)
         /\ FileLength' = FileLength /\ DataSize' = DataSize
  <1>1. AudioSize' = AudioSize
    BY DEF AudioSize
  <1>2. WrittenFormat(data)' = WrittenFormat(data)
    OBVIOUS
  <1> QED
    BY <1>1, <1>2 DEF WrittenAs, Contents, FileLength, DataSize

(* A file that is refused is cut, or has more than it can state the size of. *)
LEMMA RefusedInv ==
  ASSUME WrittenAs, pc' = "error",
         size < 44 + AudioSize \/ AudioSize + 36 > MaxWord,
         UNCHANGED <<data, file, header, size>>
  PROVE  FileInv'
  <1>1. FileLength = 44 + AudioSize /\ DataSize = AudioSize
    BY WrittenSizes DEF WrittenAs
  <1>2. FileLength' = FileLength /\ DataSize' = DataSize
    BY WrittenKept
  <1>3. WholeIsAccepted'
    BY <1>1, <1>2 DEF WholeIsAccepted, MaxWord
  <1> QED
    BY <1>3 DEF FileInv

LEMMA FileInitInv ==
  ASSUME IInv, Init
  PROVE  FileInv
  <1>1. CASE WriteInit
    BY <1>1 DEF WriteInit, Common, FileInv, WholeIsAccepted
  <1>2. CASE ReadInit
    BY <1>2 DEF ReadInit, FileInv
  <1> QED
    BY <1>1, <1>2 DEF Init

LEMMA FileWriteInv ==
  ASSUME IInv, FileInv, WriteRefused \/ Write
  PROVE  FileInv'
  <1>1. CASE WriteRefused
    BY <1>1 DEF WriteRefused, FileInv, WholeIsAccepted
  <1>2. CASE Write
    <2>1. WrittenAs' /\ pc' = "header" /\ wave' = wave /\ data' = data
      BY <1>2, FileWritten
    <2>2. pc = "write"
      BY <1>2 DEF Write
    <2> QED
      BY <2>1, <2>2 DEF FileInv, WholeIsAccepted
  <1> QED
    BY <1>1, <1>2

LEMMA FileHeaderInv ==
  ASSUME IInv, FileInv, data # NoFile, HeaderError \/ ReadHeader
  PROVE  FileInv'
  <1>1. /\ pc = "header" /\ WrittenAs /\ wave = NoFormat /\ audio = NoAudio
        BY DEF IInv, FileInv, HeaderError, ReadHeader
  <1>2. /\ header.form = TRUE /\ header.content_size = Contents
        /\ size \in 0 .. 44 + AudioSize
    BY <1>1, ContentSize DEF WrittenAs
  <1>3. /\ AudioSize \in Nat /\ AudioSize <= WordModulus - 2
        /\ WordModulus \in Nat /\ WordModulus > 64
        /\ MaxWord = WordModulus - 1
    BY <1>1, WrittenSizes, WordsType DEF WrittenAs, MaxWord
  <1>4. CASE HeaderError
    <2>1. pc' = "error" /\ UNCHANGED <<data, file, header, size>>
      BY <1>4 DEF HeaderError, Fail
    <2>2. size < 44 + AudioSize \/ AudioSize + 36 > MaxWord
      <3>1. SUFFICES ASSUME AudioSize + 36 <= MaxWord
                     PROVE  size < 44 + AudioSize
        BY <1>3
      <3>2. Contents = AudioSize + 36
        BY <3>1 DEF Contents
      <3>3. size < 12 \/ Contents > size - 8
        BY <1>2, <1>3, <1>4, <3>2 DEF HeaderError, HeaderInvalid
      <3> QED
        BY <1>2, <1>3, <3>2, <3>3
    <2> QED
      BY <1>1, <2>1, <2>2, RefusedInv
  <1>5. CASE ReadHeader
    <2>1. /\ pc' = "chunk" /\ offset' = 12 /\ end' = Contents + 8
          /\ UNCHANGED <<data, file, header, size, wave, audio>>
      BY <1>2, <1>5 DEF ReadHeader
    <2>2. Contents + 8 <= size
      <3>1. Contents \in Int
        BY <1>3 DEF Contents
      <3>2. ~(Contents > size - 8)
        BY <1>2, <1>5 DEF ReadHeader, HeaderInvalid
      <3> QED
        BY <1>2, <1>3, <3>1, <3>2
    <2>3. WrittenAs' /\ Contents' = Contents
      BY <1>1, <2>1, WrittenKept
    <2>4. InContents' /\ AtPlace'
      BY <1>1, <2>1, <2>2, <2>3 DEF InContents, AtPlace, NoAudio
    <2> QED
      BY <2>1, <2>3, <2>4 DEF FileInv, WholeIsAccepted
  <1> QED
    BY <1>4, <1>5

(* Where the parser is in the contents, and what there is. *)
LEMMA Places ==
  ASSUME IInv, FileInv, data # NoFile, pc = "chunk"
  PROVE  /\ WrittenAs /\ AtPlace
         /\ AudioSize \in Nat /\ size \in Nat /\ size <= 44 + AudioSize
         /\ end \in Nat /\ end <= size
         /\ \/ end = 44 + AudioSize /\ size = 44 + AudioSize
            \/ end < 44 /\ AudioSize + 36 > MaxWord
  <1>1. /\ WrittenAs /\ AtPlace /\ InContents
        /\ end \in Nat
    BY DEF IInv, FileInv
  <1>2. /\ AudioSize \in Nat /\ AudioSize <= WordModulus - 2
        /\ WordModulus \in Nat /\ MaxWord = WordModulus - 1
    BY <1>1, WrittenSizes, WordsType DEF WrittenAs, MaxWord
  <1>3. size \in Nat /\ size <= 44 + AudioSize
    BY <1>1, <1>2 DEF WrittenAs
  <1>4. CASE AudioSize + 36 <= MaxWord
    BY <1>1, <1>2, <1>3, <1>4 DEF InContents, Contents
  <1>5. CASE ~(AudioSize + 36 <= MaxWord)
    BY <1>1, <1>2, <1>3, <1>5 DEF InContents, Contents
  <1> QED
    BY <1>4, <1>5

LEMMA FileEndInv ==
  ASSUME IInv, FileInv, data # NoFile, ChunkHeaderCut \/ Finish
  PROVE  FileInv'
  <1>1. pc = "chunk" /\ UNCHANGED <<data, file, header, size, wave, audio>>
    BY DEF ChunkHeaderCut, Finish, parse
  <1>2. WrittenAs /\ AtPlace
    BY <1>1, Places
  <1>3. CASE pc' = "error"
    <2>1. size < 44 + AudioSize \/ AudioSize + 36 > MaxWord
      <3>1. SUFFICES ASSUME end = 44 + AudioSize, AudioSize \in Nat
                     PROVE  FALSE
        BY <1>1, Places
      <3>2. CASE offset = 12 \/ offset = 36
        BY <3>1, <3>2 DEF ChunkHeaderCut, Finish
      <3>3. CASE offset = 44 + AudioSize /\ AllFound
        <4>1. wave # NoFormat /\ audio # NoAudio
          <5>1. wave # NoFormat
            BY <1>2, <3>3, WaveAssumption DEF AllFound, WrittenAs
          <5>2. audio.from = 44 /\ NoAudio.from = 0
            BY <3>3 DEF AllFound, NoAudio
          <5> QED
            BY <5>1, <5>2
        <4> QED
          BY <1>3, <3>1, <3>3, <4>1 DEF ChunkHeaderCut, Finish, Missing
      <3> QED
        BY <1>2, <3>2, <3>3 DEF AtPlace
    <2> QED
      BY <1>1, <1>2, <1>3, <2>1, RefusedInv
  <1>4. CASE pc' = "parsed"
    <2>1. AllFound
      BY <1>2, <1>4 DEF ChunkHeaderCut, Fail, Finish, Missing, AtPlace
    <2>2. AllFound' /\ WrittenAs'
      BY <1>1, <1>2, <2>1, WrittenKept DEF AllFound
    <2> QED
      BY <1>4, <2>2 DEF FileInv, WholeIsAccepted
  <1> QED
    BY <1>3, <1>4 DEF ChunkHeaderCut, Fail, Finish

LEMMA FormatSize ==
  Align32(16) = 16
  <1>1. 17 % WordModulus = 17 /\ 17 % 2 = 1
    BY WordsType
  <1>2. 16 + 1 = 17
    OBVIOUS
  <1> QED
    BY <1>1, <1>2 DEF Align32

(* A chunk that is written is refused only if it is not all there. *)
LEMMA FileSizeInv ==
  ASSUME IInv, FileInv, data # NoFile, pc = "chunk", NEW c,
         (offset = 12 /\ c.size = 16) \/ (offset = 36 /\ c.size = AudioSize),
         ChunkSizeInvalid(c)
  PROVE  FileInv'
  <1>1. WrittenAs /\ AudioSize \in Nat
    BY Places
  <1>2. Padded(c) = c.size
    BY <1>1, FormatSize, WrittenSizes DEF Padded, WrittenAs, DataSize
  <1>3. pc' = "error" /\ ~ChunkFits(c) /\ UNCHANGED <<data, file, header, size>>
    BY DEF ChunkSizeInvalid, Fail
  <1>4. end # 44 + AudioSize
    BY <1>1, <1>2, <1>3 DEF ChunkFits, At
  <1> QED
    BY <1>1, <1>3, <1>4, Places, RefusedInv

LEMMA FileFormatInv ==
  ASSUME IInv, FileInv, data # NoFile, pc = "chunk", offset = 12,
         wave = NoFormat, audio = NoAudio, ParseChunk(file[12])
  PROVE  FileInv'
  <1> DEFINE c == file[12]
  <1>1. WrittenAs
    BY Places
  <1>2. c.id = "fmt" /\ c.size = 16 /\ c.format = WrittenFormat(data)
    BY <1>1 DEF WrittenAs
  <1> HIDE DEF c
  <1>3. ChunkSizeInvalid(c) \/ ParseFormat(c)
    BY <1>2 DEF c, ParseChunk, FormatError, DataTwice, ParseData,
                SkipChunk, Enter
  <1>4. CASE ChunkSizeInvalid(c)
    BY <1>2, <1>4, FileSizeInv
  <1>5. CASE ParseFormat(c)
    <2>1. /\ pc' = "chunk" /\ wave' = WrittenFormat(data)
          /\ offset' = offset + 8 + Padded(c)
          /\ UNCHANGED <<data, file, header, size, end, audio>>
      BY <1>2, <1>5 DEF ParseFormat, Advance, At
    <2>2. offset' = 36
      BY <1>1, <1>2, <2>1, FormatSize DEF Padded
    <2>3. WrittenAs' /\ Contents' = Contents
      BY <1>1, <2>1, WrittenKept
    <2>4. AtPlace'
      BY <2>1, <2>2 DEF AtPlace, NoAudio
    <2>5. InContents'
      BY <2>1, <2>3 DEF InContents, FileInv
    <2> QED
      BY <2>1, <2>3, <2>4, <2>5 DEF FileInv, WholeIsAccepted
  <1> QED
    BY <1>3, <1>4, <1>5

LEMMA FileDataInv ==
  ASSUME IInv, FileInv, data # NoFile, pc = "chunk", offset = 36,
         wave = WrittenFormat(data), audio = NoAudio,
         ParseChunk(file[36])
  PROVE  FileInv'
  <1> DEFINE c == file[36]
  <1>1. /\ WrittenAs /\ AudioSize \in Nat
        /\ end \in Nat /\ size \in Nat /\ size <= 44 + AudioSize /\ end <= size
    BY Places
  <1>2. c.id = "data" /\ c.size = AudioSize
    BY <1>1 DEF WrittenAs
  <1>3. Padded(c) = AudioSize
    BY <1>1, <1>2, WrittenSizes DEF Padded, WrittenAs, DataSize
  <1> HIDE DEF c
  <1>4. ChunkSizeInvalid(c) \/ ParseData(c)
    BY <1>2 DEF c, ParseChunk, FormatError, DataTwice, ParseFormat,
                SkipChunk, Enter
  <1>5. CASE ChunkSizeInvalid(c)
    BY <1>2, <1>5, FileSizeInv
  <1>6. CASE ParseData(c)
    <2>1. /\ ChunkFits(c) /\ pc' = "chunk"
          /\ audio' = [from |-> offset + 8, size |-> c.size]
          /\ offset' = offset + 8 + Padded(c)
          /\ UNCHANGED <<data, file, header, size, end, wave>>
      BY <1>6 DEF ParseData, Enter, Advance, At
    <2>2. /\ offset' = 44 + AudioSize
          /\ audio' = [from |-> 44, size |-> AudioSize]
      BY <1>1, <1>2, <1>3, <2>1
    <2>3. size = 44 + AudioSize
      BY <1>1, <1>3, <2>1 DEF ChunkFits, At
    <2>4. /\ WrittenAs' /\ Contents' = Contents /\ AudioSize' = AudioSize
          /\ WrittenFormat(data)' = WrittenFormat(data)
      BY <1>1, <2>1, WrittenKept
    <2>5. AtPlace'
      BY <2>1, <2>2, <2>3, <2>4 DEF AtPlace, AllFound
    <2>6. InContents'
      BY <2>1, <2>4 DEF InContents, FileInv
    <2> QED
      BY <2>1, <2>4, <2>5, <2>6 DEF FileInv, WholeIsAccepted
  <1> QED
    BY <1>4, <1>5, <1>6

LEMMA FileChunkInv ==
  ASSUME IInv, FileInv, data # NoFile, NextChunk
  PROVE  FileInv'
  <1>1. pc = "chunk" /\ end - offset >= 8
    BY DEF NextChunk
  <1>2. PICK c \in ChunkAt(offset) : ParseChunk(c)
    BY DEF NextChunk
  <1>3. WrittenAs /\ AtPlace
    BY <1>1, Places
  <1>4. CASE offset \in {12, 36}
    <2>1. c = file[offset]
      BY <1>2, <1>3, <1>4 DEF WrittenAs, ChunkAt
    <2>2. offset # 44 + AudioSize
      BY <1>1, <1>4, Places
    <2> QED
      BY <1>1, <1>2, <1>3, <1>4, <2>1, <2>2, FileFormatInv, FileDataInv
      DEF AtPlace
  <1>5. CASE offset = 44 + AudioSize
    BY <1>1, <1>5, Places
  <1> QED
    BY <1>3, <1>4, <1>5 DEF AtPlace

LEMMA FileLoadInv ==
  ASSUME IInv, FileInv, data # NoFile, RejectInput \/ LoadSamples
  PROVE  FileInv'
  <1>1. /\ pc = "parsed" /\ AllFound /\ WrittenAs
    BY DEF IInv, FileInv, RejectInput, LoadSamples
  <1>2. ~FormatRefused
    BY <1>1 DEF AllFound, WrittenFormat, FormatRefused, PCM
  <1>3. /\ pc' = "ok" /\ meta'.original_sample_count = audio.size \div 2
        /\ UNCHANGED <<data, file, header, size, audio>>
    BY <1>2 DEF RejectInput, LoadSamples
  <1>4. /\ data.sample_count \in Nat /\ audio.size = 2 * data.sample_count
        /\ audio.from = 44 /\ size = FileLength
    BY <1>1, WrittenSizes DEF AllFound, WrittenAs
  <1>5. (2 * data.sample_count) \div 2 = data.sample_count
    BY <1>4
  <1>6. FileLength' = FileLength
    BY <1>1, <1>3, WrittenKept
  <1>7. WholeIsAccepted'
    BY <1>3, <1>4, <1>5, <1>6 DEF WholeIsAccepted
  <1> QED
    BY <1>3, <1>7 DEF FileInv

LEMMA FileStepInv ==
  ASSUME IInv, FileInv, [Next]_vars
  PROVE  FileInv'
  <1>1. CASE UNCHANGED vars
    <2>1. UNCHANGED <<pc, data, file, header, size, offset, end, wave, audio, meta>>
      BY <1>1 DEF vars, parse
    <2> QED
      BY <2>1 DEF FileInv, WrittenAs, InContents, AtPlace, AllFound,
                  Contents, NoAudio, WholeIsAccepted, AudioSize,
                  FileLength, DataSize
  <1>2. CASE WriteRefused \/ Write
    BY <1>2, FileWriteInv
  <1>3. CASE data = NoFile /\ Step /\ ~(WriteRefused \/ Write)
    <2>1. data' = data
      BY <1>3 DEF Step, HeaderError, ReadHeader, ChunkHeaderCut,
         NextChunk, ParseChunk, ChunkSizeInvalid, FormatError,
         ParseFormat, DataTwice, ParseData, SkipChunk, Finish,
         RejectInput, LoadSamples
    <2> QED
      BY <1>3, <2>1 DEF FileInv
  <1>4. CASE data # NoFile /\ Step /\ ~(WriteRefused \/ Write)
    BY <1>4, FileHeaderInv, FileEndInv, FileChunkInv, FileLoadInv
    DEF Step
  <1> QED
    BY <1>1, <1>2, <1>3, <1>4 DEF Next

(***************************************************************************)
(* A WAVE file that was written is accepted if it is whole, with the       *)
(* samples where wave_write put them, and is refused if it is cut.         *)
(***************************************************************************)
THEOREM WaveAccepted == Spec => []WholeIsAccepted
  <1>1. Init => IInv /\ FileInv
    BY InitInv, FileInitInv
  <1>2. (IInv /\ FileInv) /\ [Next]_vars => (IInv /\ FileInv)'
    BY NextInv, FileStepInv
  <1>3. FileInv => WholeIsAccepted
    BY DEF FileInv, WholeIsAccepted
  <1> QED
    BY <1>1, <1>2, <1>3, PTL DEF Spec

(* The sample rate that is returned is the one of the word in the file. *)
RateInv ==
    data # NoFile /\ pc = "ok" =>
        /\ data \in Written
        /\ meta.sample_rate = FromWord(ToWord(data.sample_rate))

LEMMA RateStepInv ==
  ASSUME IInv, FileInv, RateInv, [Next]_vars
  PROVE  RateInv'
  <1>1. CASE LoadSamples
    <2>1. /\ pc = "parsed" /\ data' = data
          /\ meta'.sample_rate = FromWord(wave.sample_rate)
      BY <1>1 DEF LoadSamples
    <2>2. ASSUME data # NoFile
          PROVE  data \in Written /\ wave.sample_rate = ToWord(data.sample_rate)
      BY <2>1, <2>2 DEF FileInv, AllFound, WrittenAs, WrittenFormat
    <2>3. data # NoFile => meta'.sample_rate = FromWord(ToWord(data.sample_rate))
      BY <2>1, <2>2
    <2> QED
      BY <2>1, <2>2, <2>3 DEF RateInv
  <1>2. CASE UNCHANGED <<pc, data, meta>>
    BY <1>2 DEF RateInv
  <1>3. CASE pc' # "ok"
    BY <1>3 DEF RateInv
  <1>4. CASE Step /\ ~LoadSamples
    <2>1. pc' # "ok"
      BY <1>4 DEF Step, WriteRefused, Write, HeaderError, ReadHeader,
         ChunkHeaderCut, NextChunk, ParseChunk, ChunkSizeInvalid,
         FormatError, ParseFormat, DataTwice, ParseData, SkipChunk,
         Advance, Finish, RejectInput, Fail
    <2> QED
      BY <1>3, <2>1
  <1>5. CASE UNCHANGED vars
    BY <1>2, <1>5 DEF vars, parse
  <1> QED
    BY <1>1, <1>4, <1>5 DEF Next

(***************************************************************************)
(* audio_read_wave returns the sample rate that the word nearest to the    *)
(* rate that was given to audio_write_wave stands for.                     *)
(***************************************************************************)
THEOREM WaveRate == Spec => []RateKept
  <1> DEFINE Inv == IInv /\ FileInv /\ RateInv
  <1>1. Init => Inv
    <2>1. Init => IInv /\ FileInv
      BY InitInv, FileInitInv
    <2>2. Init => RateInv
      BY DEF Init, WriteInit, ReadInit, RateInv
    <2> QED
      BY <2>1, <2>2
  <1>2. Inv /\ [Next]_vars => Inv'
    <2>1. ASSUME Inv, [Next]_vars PROVE Inv'
      <3>1. IInv' /\ FileInv' /\ RateInv'
        BY <2>1, NextInv, FileStepInv, RateStepInv
      <3> QED
        BY <3>1
    <2> QED
      BY <2>1
  <1>3. Inv => RateKept
    <2> SUFFICES ASSUME Inv, pc = "ok", data # NoFile
                 PROVE  NearestWord(data.sample_rate, ToWord(meta.sample_rate))
      BY DEF RateKept
    <2> DEFINE x == data.sample_rate
    <2>1. data \in Written /\ meta.sample_rate = FromWord(ToWord(x))
      BY DEF RateInv
    <2>2. x \in ExtendedNumbers
      BY <2>1, WaveAssumption
    <2>3. ToWord(x) \in 0 .. MaxWord
      BY <2>2, ToWordCases
    <2>4. ToWord(FromWord(ToWord(x))) = ToWord(x)
      BY <2>3, WordReturns
    <2>5. NearestWord(x, ToWord(x))
      BY <2>2, Nearest
    <2> QED
      BY <2>1, <2>4, <2>5
  <1> HIDE DEF Inv
  <1> QED
    BY <1>1, <1>2, <1>3, PTL DEF Spec

---------------------------------------------------------------------------------
(* Types *)

(* The words of a format are words, in a chunk and when it is read. *)
FormatInv ==
    /\ \A o \in DOMAIN file : file[o].id = "fmt" => file[o].format.sample_rate \in Words
    /\ wave # NoFormat => wave.sample_rate \in Words

LEMMA ChunkWords ==
  ASSUME IInv, FormatInv, NEW c \in ChunkAt(offset)
  PROVE  c.size \in Words /\ (c.id = "fmt" => c.format.sample_rate \in Words)
  <1>1. CASE offset \in DOMAIN file
    BY <1>1 DEF IInv, FormatInv, ChunkAt
  <1>2. CASE offset \notin DOMAIN file
    <2>1. c \in AnyChunk
      BY <1>2 DEF ChunkAt
    <2>2. /\ \A id \in ChunkIds : ChunkSizes[id] \subseteq Words
          /\ \A f \in WaveFormats : f.sample_rate \in Words
      BY WaveAssumption
    <2> QED
      BY <2>1, <2>2 DEF AnyChunk, ChunkIds
  <1> QED
    BY <1>1, <1>2

LEMMA WordRange == Words = 0 .. MaxWord /\ MaxWord \in Nat /\ 0 \in Words
  BY WordsOfBits DEF Words

LEMMA TypesInit ==
  ASSUME Init
  PROVE  TypeOK /\ FormatInv
  <1>1. /\ file = << >> /\ offset = 0 /\ end = 0 /\ wave = NoFormat /\ audio = NoAudio
        /\ meta = [original_sample_count |-> 0, sample_rate |-> FromWord(0)]
        /\ inBounds = TRUE
    BY DEF Init, WriteInit, ReadInit, Common
  <1>2. FromWord(0) \in ExtendedNumbers
    BY WordRange, WordReturns
  <1>3. audio \in [from : Nat, size : Words]
    BY <1>1, WordRange DEF NoAudio
  <1>4. pc \in {"write", "header"} /\ data \in Written \cup {NoFile}
    BY DEF Init, WriteInit, ReadInit
  <1>5. header \in [form : BOOLEAN, content_size : Words] /\ size \in Nat
    <2>1. CASE WriteInit
      BY <2>1, WordRange DEF WriteInit
    <2>2. CASE ReadInit
      BY <2>2, WaveAssumption DEF ReadInit
    <2> QED
      BY <2>1, <2>2 DEF Init
  <1> QED
    BY <1>1, <1>2, <1>3, <1>4, <1>5 DEF TypeOK, FormatInv

LEMMA TypesWrite ==
  ASSUME IInv, TypeOK, FormatInv, Write, IInv'
  PROVE  TypeOK' /\ FormatInv'
  <1>1. /\ WrittenAs' /\ pc' = "header"
        /\ UNCHANGED <<data, offset, end, wave, audio, meta, inBounds>>
    BY FileWritten
  <1>2. data \in Written /\ data.sample_rate \in ExtendedNumbers
    BY WaveAssumption DEF IInv, Write
  <1>3. WrittenFormat(data).sample_rate \in Words
    BY <1>2, ToWordCases DEF WrittenFormat, Words
  <1>4. \A o \in DOMAIN file' : file'[o].id = "fmt" => file'[o].format = WrittenFormat(data)
    BY <1>1 DEF WrittenAs
  <1>5. header' \in [form : BOOLEAN, content_size : Words] /\ size' \in Nat
    <2> DEFINE n == header'.content_size
    <2>1. header' = [form |-> TRUE, content_size |-> n]
      BY <1>1 DEF WrittenAs
    <2>2. n \in Words /\ size' \in Nat
      BY DEF IInv, Words
    <2> HIDE DEF n
    <2>3. [form |-> TRUE, content_size |-> n] \in [form : BOOLEAN, content_size : Words]
      BY <2>2
    <2> QED
      BY <2>1, <2>2, <2>3, Zenon
  <1>6. FormatInv'
    BY <1>1, <1>3, <1>4 DEF FormatInv, Words
  <1> QED
    BY <1>1, <1>5, <1>6 DEF TypeOK, Words

LEMMA TypesChunk ==
  ASSUME IInv, TypeOK, FormatInv, NextChunk, IInv'
  PROVE  TypeOK' /\ FormatInv'
  <1>1. PICK c \in ChunkAt(offset) : ParseChunk(c)
    BY DEF NextChunk
  <1>2. c.size \in Words /\ (c.id = "fmt" => c.format.sample_rate \in Words)
    BY <1>1, ChunkWords
  <1>3. /\ pc' \in {"chunk", "error"}
        /\ UNCHANGED <<data, file, header, size, end, meta>>
        /\ wave' = wave \/ (c.id = "fmt" /\ wave' = c.format)
        /\ audio' = audio \/ audio' = [from |-> offset + 8, size |-> c.size]
    BY <1>1 DEF ParseChunk, ChunkSizeInvalid, FormatError, ParseFormat, DataTwice,
                ParseData, SkipChunk, Enter, Advance, Fail, At
  <1>4. offset \in Nat /\ offset' \in Nat /\ inBounds' = TRUE
    BY DEF IInv
  <1>5. audio' \in [from : Nat, size : Words]
    BY <1>2, <1>3, <1>4 DEF TypeOK
  <1>6. FormatInv'
    BY <1>2, <1>3 DEF FormatInv, Words
  <1> QED
    BY <1>3, <1>4, <1>5, <1>6 DEF TypeOK, Words

LEMMA TypesLoad ==
  ASSUME IInv, TypeOK, FormatInv, LoadSamples, IInv'
  PROVE  TypeOK' /\ FormatInv'
  <1>1. /\ pc = "parsed" /\ pc' = "ok"
        /\ UNCHANGED <<data, file, header, size, offset, end, wave, audio>>
        /\ meta' = [original_sample_count |-> audio.size \div 2,
                    sample_rate |-> FromWord(wave.sample_rate)]
    BY DEF LoadSamples
  <1>2. wave.sample_rate \in Words
    BY <1>1 DEF IInv, FormatInv
  <1>3. FromWord(wave.sample_rate) \in ExtendedNumbers
    BY <1>2, WordRange, WordReturns
  <1>4. audio.size \in Nat
    BY WordRange DEF TypeOK
  <1>5. audio.size \div 2 \in Nat
    BY <1>4
  <1>6. inBounds' = TRUE
    BY DEF IInv
  <1> QED
    BY <1>1, <1>3, <1>5, <1>6 DEF TypeOK, FormatInv, Words

(***************************************************************************)
(* The variables of the reader and the writer keep their types.            *)
(***************************************************************************)
THEOREM WaveTypes == Spec => []TypeOK
  <1> DEFINE Inv == IInv /\ TypeOK /\ FormatInv
  <1>1. Init => Inv
    BY InitInv, TypesInit
  <1>2. Inv /\ [Next]_vars => Inv'
    <2> SUFFICES ASSUME Inv, [Next]_vars PROVE Inv'
      OBVIOUS
    <2>1. IInv'
      BY NextInv
    <2>2. CASE Write
      BY <2>1, <2>2, TypesWrite
    <2>3. CASE NextChunk
      BY <2>1, <2>3, TypesChunk
    <2>4. CASE LoadSamples
      BY <2>1, <2>4, TypesLoad
    <2>5. CASE WriteRefused \/ HeaderError \/ ReadHeader \/ ChunkHeaderCut \/ Finish \/ RejectInput
      <3>1. /\ pc' \in {"refused", "chunk", "parsed", "error"}
            /\ UNCHANGED <<data, file, header, size, wave, audio, meta>>
        BY <2>5 DEF WriteRefused, HeaderError, ReadHeader, ChunkHeaderCut, Finish, RejectInput,
                    Fail, parse
      <3>2. offset' \in Nat /\ end' \in Nat /\ inBounds' = TRUE
        BY <2>1 DEF IInv
      <3> QED
        BY <2>1, <3>1, <3>2 DEF TypeOK, FormatInv, Words
    <2>6. CASE UNCHANGED vars
      BY <2>1, <2>6 DEF vars, parse, TypeOK, FormatInv, Words
    <2> QED
      BY <2>2, <2>3, <2>4, <2>5, <2>6 DEF Next, Step
  <1>3. Inv => TypeOK
    OBVIOUS
  <1> HIDE DEF Inv
  <1> QED
    BY <1>1, <1>2, <1>3, PTL DEF Spec
=================================================================================
