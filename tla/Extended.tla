--------------------------------- MODULE Extended ---------------------------------
(***************************************************************************)
(* 80-bit numbers (common/extended.c), which AIFF has for the sample rate, *)
(* and their conversion from and to a word, which WAVE has for it.  A      *)
(* number is [negative, exponent, fraction]; its value is                  *)
(*     fraction * 2 ^ (exponent - ExponentBias - (FractionBits - 1))       *)
(* and the leading bit of the fraction is stored.  A double on the way     *)
(* keeps DoubleBits of it; its exponents reach far beyond those at which   *)
(* the result is 0 or the largest word, and have no limit here.            *)
(***************************************************************************)
EXTENDS Integers

CONSTANTS
    WordBits,       \* 32
    DoubleBits,     \* 53
    FractionBits,   \* 64
    ExponentBias    \* 16383

ASSUME ExtendedAssumption ==
    /\ WordBits \in Nat \ {0} /\ DoubleBits \in Nat /\ FractionBits \in Nat
    /\ WordBits < DoubleBits /\ DoubleBits <= FractionBits
    /\ ExponentBias \in Nat /\ WordBits <= ExponentBias

Bit(n) == 2 ^ n

WordModulus == Bit(WordBits)
MaxWord == WordModulus - 1

NonFinite == 2 * ExponentBias + 1

ExtendedNumbers ==
    [negative : BOOLEAN, exponent : 0 .. NonFinite, fraction : 0 .. Bit(FractionBits) - 1]

(* The place of the leading bit of n > 0. *)
LeadingBit(n) == CHOOSE k \in 0 .. FractionBits : Bit(k) <= n /\ n < Bit(k + 1)

(* n with the leading bits that fit a double, rounded to even at a tie. *)
RoundToDouble(n) ==
    IF n = 0 \/ LeadingBit(n) < DoubleBits THEN n
    ELSE LET unit == Bit(LeadingBit(n) + 1 - DoubleBits)
             kept == n \div unit
             rest == n % unit
             up   == 2 * rest > unit \/ (2 * rest = unit /\ kept % 2 = 1)
         IN  (IF up THEN kept + 1 ELSE kept) * unit

(* extended_from_uint32: a word has fewer bits than a double. *)
FromWord_NoLeadingBit(v) ==         \* faulty
    IF v = 0 THEN [negative |-> FALSE, exponent |-> 0, fraction |-> 0]
    ELSE [negative |-> FALSE, exponent |-> LeadingBit(v) + ExponentBias,
          fraction |-> (v - Bit(LeadingBit(v))) * Bit(FractionBits - 1 - LeadingBit(v))]
FromWord(v) ==
    IF v = 0 THEN [negative |-> FALSE, exponent |-> 0, fraction |-> 0]
    ELSE [negative |-> FALSE, exponent |-> LeadingBit(v) + ExponentBias,
          fraction |-> v * Bit(FractionBits - 1 - LeadingBit(v))]

(* How many bits of the fraction are behind the point. *)
PointPlace(x) == FractionBits - 1 - (x.exponent - ExponentBias)

(* Half away from zero, and no more than a word. *)
RoundedWord(x) ==
    LET m == RoundToDouble(x.fraction)
        p == PointPlace(x)
        w == IF p < 0 THEN m * Bit(-p) ELSE (2 * m + Bit(p)) \div Bit(p + 1)
    IN  IF w <= MaxWord THEN w ELSE MaxWord

(* uint32_from_extended *)
ToWord(x) ==
    CASE x.negative -> 0
      [] ~x.negative /\ x.exponent = NonFinite -> IF x.fraction = 0 THEN MaxWord ELSE 0
      [] ~x.negative /\ x.exponent # NonFinite -> RoundedWord(x)
=================================================================================
