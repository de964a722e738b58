-------------------------------- MODULE Rationals --------------------------------
(***************************************************************************)
(* Exact arithmetic in place of float and double, for the small numbers    *)
(* that PredictorValues computes with.  A rational is <<n, d>> in lowest   *)
(* terms with d > 0, so equal numbers are equal values.                    *)
(***************************************************************************)
EXTENDS Integers

RationalNumbers == Int \X (Nat \ {0})

gcd[p \in Nat \X Nat] == IF p[2] = 0 THEN p[1] ELSE gcd[<<p[2], p[1] % p[2]>>]

Magnitude(n) == IF n < 0 THEN -n ELSE n

Ratio(n, d) ==
    LET g == gcd[<<Magnitude(n), Magnitude(d)>>]
    IN  IF d < 0 THEN <<-n \div g, -d \div g>> ELSE <<n \div g, d \div g>>

Whole(n) == <<n, 1>>
Zero == Whole(0)
One  == Whole(1)

Neg(a) == <<-a[1], a[2]>>

Plus(a, b) ==
    LET g == gcd[<<a[2], b[2]>>]
    IN  Ratio(a[1] * (b[2] \div g) + b[1] * (a[2] \div g), a[2] * (b[2] \div g))

(* What cancels does so before the products, which stay small. *)
Times(a, b) ==
    LET g == gcd[<<Magnitude(a[1]), b[2]>>]
        h == gcd[<<Magnitude(b[1]), a[2]>>]
    IN  <<(a[1] \div g) * (b[1] \div h), (a[2] \div h) * (b[2] \div g)>>

Minus(a, b) == Plus(a, Neg(b))
Over(a, b)  == Times(a, Ratio(b[2], b[1]))

(* By the integral parts, then by those of the reciprocals of what is left. *)
atMost[p \in RationalNumbers \X RationalNumbers] ==
    LET a == p[1]
        b == p[2]
        wholeA == a[1] \div a[2]
        wholeB == b[1] \div b[2]
        restA  == a[1] % a[2]
        restB  == b[1] % b[2]
    IN  \/ wholeA < wholeB
        \/ /\ wholeA = wholeB
           /\ \/ restA = 0
              \/ restA > 0 /\ restB > 0 /\ atMost[<<<<b[2], restB>>, <<a[2], restA>>>>]

AtMost(a, b) == atMost[<<a, b>>]
Less(a, b)   == ~AtMost(b, a)

Larger(a, b)  == IF Less(a, b) THEN b ELSE a
Smaller(a, b) == IF Less(b, a) THEN b ELSE a
Between(low, a, high) == Larger(low, Smaller(a, high))

(* lrint: the nearest integer, and the even one of two. *)
Nearest(a) ==
    LET whole == a[1] \div a[2]
        twice == 2 * (a[1] % a[2])
        up    == twice > a[2] \/ (twice = a[2] /\ whole % 2 = 1)
    IN  IF up THEN whole + 1 ELSE whole
=================================================================================
