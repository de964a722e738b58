----------------------------- MODULE StatecheckProofs -----------------------------
(***************************************************************************)
(* Encoder and decoder agree, for every codebook, sound and size of the    *)
(* format: what the encoder believes the decoder has is what the decoder   *)
(* computes from the bytes.                                                *)
(***************************************************************************)
EXTENDS Statecheck, FiniteSetTheorems, WellFoundedInduction, TLAPS

---------------------------------------------------------------------------------
(* Numbers *)

(***************************************************************************)
(* Induction, over a set of numbers.  Of the intervals from 0 to a number  *)
(* that is not in it, one has none of the others in it, as strict          *)
(* inclusion of finite sets is well-founded.                               *)
(***************************************************************************)
LEMMA NumberInduction ==
  ASSUME NEW P, 0 \in P, \A n \in Nat : n \in P => n + 1 \in P
  PROVE  Nat \subseteq P
  <1> SUFFICES ASSUME NEW m \in Nat, m \notin P PROVE FALSE
    OBVIOUS
  <1> DEFINE F == {0 .. n : n \in {j \in Nat : j \notin P}}
             R == StrictSubsetOrdering(UNION F)
  <1>1. F # {} /\ F \subseteq FiniteSubsetsOf(UNION F)
    <2>1. \A n \in Nat : IsFiniteSet(0 .. n)
      <3>1. \A n \in Nat : 0 \in Int /\ n \in Int
        OBVIOUS
      <3> QED
        BY <3>1, FS_Interval
    <2> QED
      BY <2>1 DEF FiniteSubsetsOf
  <1>2. PICK I \in F : \A J \in F : ~(<<J, I>> \in R)
    <2>1. IsWellFoundedOn(R, FiniteSubsetsOf(UNION F))
      BY FS_StrictSubsetOrderingWellFounded
    <2> HIDE DEF R, F
    <2> QED
      BY <1>1, <2>1, WFMin, Zenon
  <1>3. PICK n \in Nat : n \notin P /\ I = 0 .. n
    BY <1>2
  <1>4. n - 1 \in Nat /\ 0 .. n - 1 \in F
    <2>1. n - 1 \in Nat /\ n - 1 \notin P
      BY <1>3
    <2> QED
      BY <2>1
  <1>5. 0 .. n - 1 \subseteq 0 .. n /\ 0 .. n - 1 # 0 .. n
    BY <1>3
  <1> QED
    BY <1>2, <1>3, <1>4, <1>5 DEF StrictSubsetOrdering

(* A quotient is determined by its remainder being in range. *)
LEMMA QuotientUnique ==
    ASSUME NEW m \in Nat \ {0}, NEW q \in Int, NEW r \in 0 .. m - 1
    PROVE  /\ (q * m + r) \div m = q
           /\ (q * m + r) % m = r
  <1> DEFINE x == q * m + r
  <1>1. x \in Int
    OBVIOUS
  <1> HIDE DEF x
  <1>2. x = q * m + r
    BY DEF x
  <1>3. x \div m = q
    BY <1>1, <1>2
  <1>4. x % m = r
    BY <1>1, <1>2, <1>3
  <1> QED
    BY <1>3, <1>4 DEF x

(* A number is its quotient times the divisor, plus its remainder. *)
LEMMA QuotientRemainder ==
    ASSUME NEW m \in Nat \ {0}, NEW x \in Int
    PROVE  /\ x \div m \in Int
           /\ x % m \in 0 .. m - 1
           /\ x = (x \div m) * m + (x % m)
  OBVIOUS

(* Whole multiples of the divisor pass through a division. *)
LEMMA QuotientAdd ==
    ASSUME NEW m \in Nat \ {0}, NEW x \in Int, NEW n \in Int
    PROVE  /\ (x + n * m) \div m = (x \div m) + n
           /\ (x + n * m) % m = x % m
  <1> DEFINE q == x \div m
             r == x % m
  <1>1. q \in Int /\ r \in 0 .. m - 1 /\ x = q * m + r
    BY QuotientRemainder
  <1> HIDE DEF q, r
  <1>2. q + n \in Int /\ x + n * m = (q + n) * m + r
    BY <1>1
  <1>3. ((q + n) * m + r) \div m = q + n /\ ((q + n) * m + r) % m = r
    BY <1>1, <1>2, QuotientUnique
  <1> QED
    BY <1>2, <1>3 DEF q, r

---------------------------------------------------------------------------------
(* The arithmetic of the sums *)

(* Clamping gives a 16-bit sample. *)
LEMMA Clamp16Type == \A x \in Int : Clamp16(x) \in Samples
  BY FormatAssumption DEF Clamp16, Clamp, Samples

(* A sum that wraps is an int. *)
LEMMA Int32Type == \A x \in Int : Int32(x) \in Accumulators
  <1> SUFFICES ASSUME NEW x \in Int PROVE Int32(x) \in Accumulators
    OBVIOUS
  <1>1. 2 * AccumulatorHalf \in Nat \ {0}
    BY FormatAssumption
  <1>2. (x + AccumulatorHalf) % (2 * AccumulatorHalf) \in 0 .. 2 * AccumulatorHalf - 1
    BY <1>1, QuotientRemainder, FormatAssumption
  <1> QED
    BY <1>2, FormatAssumption DEF Int32, Accumulators

(* A sum in range is itself. *)
LEMMA Int32Id == \A x \in Accumulators : Int32(x) = x
  <1> SUFFICES ASSUME NEW x \in Accumulators PROVE Int32(x) = x
    OBVIOUS
  <1>1. x + AccumulatorHalf \in 0 .. 2 * AccumulatorHalf - 1
    BY FormatAssumption DEF Accumulators
  <1>2. (0 * (2 * AccumulatorHalf) + (x + AccumulatorHalf)) % (2 * AccumulatorHalf)
          = x + AccumulatorHalf
    BY <1>1, QuotientUnique, FormatAssumption, 2 * AccumulatorHalf \in Nat \ {0}
  <1> QED
    BY <1>2, FormatAssumption DEF Int32, Accumulators

(* Wrapping a term of a sum before the sum wraps changes nothing. *)
LEMMA Int32Add == \A x, y \in Int : Int32(Int32(x) + y) = Int32(x + y)
  <1> SUFFICES ASSUME NEW x \in Int, NEW y \in Int
               PROVE  Int32(Int32(x) + y) = Int32(x + y)
    OBVIOUS
  <1> DEFINE m == 2 * AccumulatorHalf
             q == (x + AccumulatorHalf) \div m
  <1>1. m \in Nat \ {0} /\ x + AccumulatorHalf \in Int
    BY FormatAssumption
  <1> HIDE DEF m
  <1>2. q \in Int /\ (x + AccumulatorHalf) % m = (x + AccumulatorHalf) - q * m
    BY <1>1, QuotientRemainder, FormatAssumption
  <1>3. Int32(x) = x - q * m
    <2>1. Int32(x) = ((x + AccumulatorHalf) % m) - AccumulatorHalf
      BY DEF Int32, m
    <2> QED
      BY <1>1, <1>2, <2>1, FormatAssumption
  <1>4. (x + y + AccumulatorHalf + (-q) * m) % m = (x + y + AccumulatorHalf) % m
    <2>1. x + y + AccumulatorHalf \in Int /\ -q \in Int
      BY <1>2, FormatAssumption
    <2> HIDE DEF q
    <2> QED
      BY <1>1, <2>1, QuotientAdd
  <1>5. Int32(x) + y + AccumulatorHalf = x + y + AccumulatorHalf + (-q) * m
    BY <1>1, <1>2, <1>3, FormatAssumption
  <1> QED
    BY <1>4, <1>5 DEF Int32, m

(* Shifting a sum right takes a residual, shifted left, out whole. *)
LEMMA WholeAdd == \A x, n \in Int : Whole(x + n * FixedOne) = Whole(x) + n
  BY QuotientAdd, FormatAssumption DEF Whole

LEMMA WholeType == \A x \in Int : Whole(x) \in Int
  BY FormatAssumption DEF Whole

---------------------------------------------------------------------------------
(* Bytes: what is packed is there, and gives back what it was made of *)

(* Sign extension undoes masking. *)
LEMMA NibbleExt4 ==
    \A r \in Residuals : Nibble(r) \in Nibbles /\ Ext4(Nibble(r)) = r
  <1> SUFFICES ASSUME NEW r \in Residuals
               PROVE  Nibble(r) \in Nibbles /\ Ext4(Nibble(r)) = r
    OBVIOUS
  <1> DEFINE m == 2 * NibbleHalf
  <1>1. m \in Nat \ {0} /\ r \in Int
    BY FormatAssumption DEF Residuals
  <1>2. CASE r >= 0
    <2>1. (0 * m + r) % m = r
      BY <1>1, <1>2, QuotientUnique, FormatAssumption DEF Residuals
    <2> QED
      BY <1>1, <1>2, <2>1, FormatAssumption DEF Nibble, Nibbles, Ext4, Residuals
  <1>3. CASE r < 0
    <2>1. (-1 * m + (r + m)) % m = r + m
      BY <1>1, <1>3, QuotientUnique, FormatAssumption DEF Residuals
    <2>2. Nibble(r) = r + m
      BY <1>1, <2>1, FormatAssumption DEF Nibble
    <2> QED
      BY <1>1, <1>3, <2>2, FormatAssumption DEF Nibbles, Ext4, Residuals
  <1> QED
    BY <1>1, <1>2, <1>3

(* Packing a pair of residuals loses neither. *)
LEMMA PackByteInverse ==
    ASSUME NEW hi \in Residuals, NEW lo \in Residuals
    PROVE  /\ PackByte(hi, lo) \in Bytes
           /\ PackByte(hi, lo) \div (2 * NibbleHalf) = Nibble(hi)
           /\ PackByte(hi, lo) % (2 * NibbleHalf) = Nibble(lo)
  <1> DEFINE m == 2 * NibbleHalf
  <1>1. m \in Nat \ {0} /\ Nibble(hi) \in 0 .. m - 1 /\ Nibble(lo) \in 0 .. m - 1
    BY NibbleExt4, FormatAssumption DEF Nibbles
  <1> HIDE DEF m
  <1>2. /\ PackByte(hi, lo) \div m = Nibble(hi)
        /\ PackByte(hi, lo) % m = Nibble(lo)
    <2>1. PackByte(hi, lo) = Nibble(hi) * m + Nibble(lo)
      BY DEF PackByte, m
    <2>2. Nibble(hi) \in Int
      BY <1>1
    <2> QED
      BY <1>1, <2>1, <2>2, QuotientUnique
  <1>3. Nibble(hi) * m <= (m - 1) * m /\ Nibble(hi) * m >= 0
    BY <1>1
  <1>4. PackByte(hi, lo) \in 0 .. m * m - 1
    BY <1>1, <1>3 DEF PackByte, m
  <1> QED
    BY <1>2, <1>4, FormatAssumption DEF Bytes, m

(* A byte is two nibbles, and each extends to a residual. *)
LEMMA ByteNibbles ==
    ASSUME NEW byte \in Bytes
    PROVE  /\ byte \div (2 * NibbleHalf) \in Nibbles
           /\ byte % (2 * NibbleHalf) \in Nibbles
  <1> DEFINE m == 2 * NibbleHalf
  <1>1. m \in Nat \ {0} /\ byte \in Nat /\ byte < m * m
    BY FormatAssumption DEF Bytes
  <1> HIDE DEF m
  <1>2. byte \div m \in Int /\ byte % m \in 0 .. m - 1
          /\ byte = (byte \div m) * m + (byte % m)
    BY <1>1, QuotientRemainder
  <1>3. byte \div m >= 0
    BY <1>1
  <1>4. byte \div m <= m - 1
    BY <1>1
  <1> QED
    BY <1>2, <1>3, <1>4 DEF Nibbles, m

LEMMA Ext4Type == \A x \in Nibbles : Ext4(x) \in Residuals
  BY FormatAssumption DEF Nibbles, Ext4, Residuals

(* A lane is in the byte of its pair. *)
LEMMA LaneByte ==
    ASSUME NEW n \in Lanes
    PROVE  n \div 2 \in 0 .. (VectorSampleCount \div 2) - 1
  BY FormatAssumption DEF Lanes

LEMMA ResidualType ==
    ASSUME NEW bytes \in PackedVector, NEW n \in Lanes
    PROVE  ResidualAt(bytes, n) \in Residuals
  <1>1. bytes[n \div 2] \in Bytes
    BY LaneByte DEF PackedVector
  <1> QED
    BY <1>1, ByteNibbles, Ext4Type DEF ResidualAt

(* The fields of any control byte. *)
LEMMA ControlFields ==
    ASSUME NEW control \in Controls
    PROVE  /\ ScalingOf(control) \in 0 .. ScalingCount - 1
           /\ PredictorIndexOf(control) \in 0 .. PredictorLimit - 1
  <1> DEFINE q == control \div PredictorLimit
  <1>1. control \in Nat /\ control < ScalingCount * PredictorLimit
    BY FormatAssumption DEF Controls
  <1>2. q \in Int /\ control % PredictorLimit \in 0 .. PredictorLimit - 1
          /\ control = q * PredictorLimit + (control % PredictorLimit)
    BY <1>1, QuotientRemainder, FormatAssumption
  <1>3. q >= 0
    BY <1>1, FormatAssumption
  <1>4. q < ScalingCount
    BY <1>1, <1>2, FormatAssumption
  <1> QED
    BY <1>2, <1>3, <1>4, FormatAssumption DEF ScalingOf, PredictorIndexOf

(* The control byte gives back the scaling and the predictor index. *)
LEMMA ControlInverse ==
    ASSUME NEW scaling \in 0 .. ScalingCount - 1,
           NEW predictor \in 0 .. PredictorLimit - 1
    PROVE  /\ Control(scaling, predictor) \in Controls
           /\ ScalingOf(Control(scaling, predictor)) = scaling
           /\ PredictorIndexOf(Control(scaling, predictor)) = predictor
  <1>1. /\ ScalingOf(Control(scaling, predictor)) = scaling
        /\ PredictorIndexOf(Control(scaling, predictor)) = predictor
    BY QuotientUnique, FormatAssumption DEF Control, ScalingOf, PredictorIndexOf
  <1>2. 0 <= scaling * PredictorLimit
          /\ scaling * PredictorLimit <= (ScalingCount - 1) * PredictorLimit
    BY FormatAssumption
  <1>3. Control(scaling, predictor) \in Controls
    BY <1>2, FormatAssumption DEF Control, Controls
  <1> QED
    BY <1>1, <1>3

---------------------------------------------------------------------------------
(* The encoder: types *)

(* A frame of a sound for the encoder. *)
InputFrame ==
    [samples : [Vectors -> SampleVector], predictor : 0 .. codebook.predictor_count - 1]

(* The variables that TypeOK of module Encoder leaves out, and the sound. *)
EncoderTypes ==
    /\ codebook \in Codebooks
    /\ source \in Seq(InputFrame)
    /\ TypeOK
    /\ min \in Int /\ max \in Int
    /\ error \in Nat /\ best_error \in Nat /\ error_sum \in Nat

(***************************************************************************)
(* Where the encoder is in its call, its frame and its candidates.  A      *)
(* frame in dest names a predictor that exists.                            *)
(***************************************************************************)
InCall ==
    /\ Len(dest) <= Len(source)
    /\ epc # "call" => Len(dest) <= stop
    /\ epc \notin {"call", "frame"} => Len(dest) < stop
    /\ epc \in {"next", "try", "keep"} =>
         min_shift <= max_shift /\ shift \in min_shift .. max_shift + 1
    /\ epc \in {"try", "keep"} => shift <= max_shift
    /\ epc = "try" => \A j \in 0 .. i - 1 : accumulator[j] \in Residuals
    /\ \A f \in DOMAIN dest : PredictorIndexOf(dest[f].control) < codebook.predictor_count

(* The scaling and the predictor that best names. *)
BestNamed ==
    epc \in {"next", "try", "keep"} /\ shift > min_shift =>
        /\ ScalingOf(best.control) \in min_shift .. shift - 1
        /\ PredictorIndexOf(best.control) = input.predictor

(* The generator from r on, through the samples of a candidate. *)
FrameSamples == 2 * VectorSampleCount

DrawnFrom(r, m, g) ==
    /\ g \in [0 .. m -> 0 .. RngModulus - 1]
    /\ g[0] = r
    /\ \A n \in 0 .. m - 1 : g[n + 1] = Rng(g[n])

Drawn(r) == CHOOSE g : DrawnFrom(r, FrameSamples, g)

(* Of the candidates in tried, the one that best names is the first that is least. *)
LeastKept ==
    LET kept == ScalingOf(best.control)
    IN  /\ \A n \in DOMAIN tried :
             /\ tried[n].error >= tried[kept].error
             /\ n < kept => tried[n].error > tried[kept].error
        /\ best_error = tried[kept].error
        /\ best.data = tried[kept].data
        /\ state[2] = tried[kept].s0 /\ state[3] = tried[kept].s1

(***************************************************************************)
(* What BestIsLeast says, while the next candidate is tried too; and how   *)
(* far the generator is from where the frame found it.                     *)
(***************************************************************************)
TriedInv ==
    /\ epc \in {"next", "try", "keep"} =>
         /\ DOMAIN tried = min_shift .. shift - 1
         /\ \A n \in DOMAIN tried : tried[n].error \in Nat
         /\ \A n \in DOMAIN tried : tried[n].rng = Drawn(init_rng)[FrameSamples]
         /\ shift > min_shift => LeastKept
    /\ epc = "try" => rng = Drawn(init_rng)[vector * VectorSampleCount + i]
    /\ epc = "keep" => rng = Drawn(init_rng)[FrameSamples]
    /\ epc = "next" /\ shift > min_shift => rng = Drawn(init_rng)[FrameSamples]

EInv == EncoderTypes /\ InCall /\ BestNamed /\ TriedInv

LEMMA CodebookType ==
  ASSUME EncoderTypes
  PROVE  /\ IsCodebook(codebook) /\ codebook.order = 2
         /\ codebook.predictor_count \in 1 .. PredictorLimit
         /\ codebook.vector \in [0 .. codebook.predictor_count - 1 -> [0 .. 1 -> SampleVector]]
  <1>1. IsCodebook(codebook) /\ codebook.order = 2
    BY EncoderAssumption DEF EncoderTypes
  <1> QED
    BY <1>1 DEF IsCodebook

(* The frame that is encoded. *)
LEMMA InputType ==
  ASSUME EncoderTypes, Len(dest) < Len(source)
  PROVE  /\ input.samples \in [Vectors -> SampleVector]
         /\ input.predictor \in 0 .. codebook.predictor_count - 1
         /\ input.predictor \in 0 .. PredictorLimit - 1
         /\ pvec \in [0 .. 1 -> SampleVector]
  <1>1. Len(dest) + 1 \in 1 .. Len(source)
    BY DEF EncoderTypes, TypeOK
  <1>2. input \in InputFrame
    BY <1>1 DEF EncoderTypes, input
  <1>3. input.samples \in [Vectors -> SampleVector]
        /\ input.predictor \in 0 .. codebook.predictor_count - 1
    BY <1>2 DEF InputFrame
  <1>4. pvec \in [0 .. 1 -> SampleVector]
    BY <1>3, CodebookType DEF pvec
  <1> QED
    BY <1>2, <1>3, <1>4, CodebookType, FormatAssumption

LEMMA SampleInt ==
  ASSUME NEW x \in SampleVector, NEW j \in Lanes
  PROVE  x[j] \in Int /\ x[j] \in Samples
  BY FormatAssumption DEF SampleVector, Samples

LEMMA PredictType ==
  ASSUME EncoderTypes, Len(dest) < Len(source), NEW p0 \in Samples, NEW p1 \in Samples
  PROVE  Predict(p0, p1) \in [Lanes -> Accumulators]
  <1>1. pvec[0] \in SampleVector /\ pvec[1] \in SampleVector
    BY InputType
  <1>2. p0 \in Int /\ p1 \in Int
    BY FormatAssumption DEF Samples
  <1>3. \A j \in Lanes : p0 * pvec[0][j] + p1 * pvec[1][j] \in Int
    BY <1>1, <1>2, SampleInt
  <1> QED
    BY <1>3, Int32Type DEF Predict

LEMMA ScanStartType ==
  ASSUME EncoderTypes, Len(dest) < Len(source), NEW p0 \in Samples, NEW p1 \in Samples,
         NEW x \in Vectors
  PROVE  ScanStart(x, p0, p1) \in [Lanes -> Accumulators]
  <1>1. pvec[0] \in SampleVector /\ pvec[1] \in SampleVector /\ input.samples[x] \in SampleVector
    BY InputType
  <1>2. p0 \in Int /\ p1 \in Int /\ FixedOne \in Int
    BY FormatAssumption DEF Samples
  <1>3. ASSUME NEW j \in Lanes
        PROVE  input.samples[x][j] * FixedOne - p0 * pvec[0][j] - p1 * pvec[1][j] \in Int
    <2>1. input.samples[x][j] \in Int /\ pvec[0][j] \in Int /\ pvec[1][j] \in Int
      BY <1>1, SampleInt
    <2>2. \A a, b, c \in Int : a - b - c \in Int
      OBVIOUS
    <2>3. /\ input.samples[x][j] * FixedOne \in Int
          /\ p0 * pvec[0][j] \in Int /\ p1 * pvec[1][j] \in Int
      BY <1>2, <2>1
    <2> QED
      BY <2>2, <2>3, Zenon
  <1> QED
    BY <1>3, Int32Type DEF ScanStart

LEMMA EncoderInitInv == Init => EInv
  <1> SUFFICES ASSUME Init PROVE EInv
    OBVIOUS
  <1>1. source \in Seq(InputFrame)
    <2> DEFINE AnyFrame == [samples   : [Vectors -> SampleVector],
                            predictor : 0 .. PredictorLimit - 1]
    <2>1. source \in Seq(AnyFrame)
      BY EncoderAssumption DEF Init
    <2>2. codebook.predictor_count \in Int
      BY EncoderAssumption DEF Init, IsCodebook
    <2>3. ASSUME NEW f \in 1 .. Len(source) PROVE source[f] \in InputFrame
      <3>1. source[f] \in AnyFrame
        <4> HIDE DEF AnyFrame
        <4> QED
          BY <2>1
      <3>2. source[f].predictor < codebook.predictor_count
        BY <2>1 DEF Init
      <3> QED
        BY <2>2, <3>1, <3>2, FormatAssumption DEF InputFrame
    <2> HIDE DEF AnyFrame
    <2> QED
      BY <2>1, <2>3
  <1>2. 0 \in Samples /\ 0 \in Accumulators /\ 0 \in Bytes /\ 0 \in Controls /\ 0 \in Vectors
    BY FormatAssumption DEF Samples, Accumulators, Bytes, Controls, Vectors
  <1>3. 0 \in 0 .. RngModulus - 1
    BY EncoderAssumption
  <1>4. ZeroFrame.data \in [Vectors -> PackedVector] /\ ZeroFrame \in Frame
    BY <1>2 DEF ZeroFrame, ZeroBytes, PackedVector, Frame
  <1>5. ZeroState \in [data : [0 .. 1 -> Samples], rng : 0 .. RngModulus - 1]
    BY <1>2, <1>3 DEF ZeroState
  <1>6. TypeOK
    BY <1>1, <1>2, <1>3, <1>4, <1>5, FormatAssumption DEF Init, TypeOK, ZeroVector
  <1>7. EncoderTypes /\ InCall
    BY <1>1, <1>6 DEF Init, EncoderTypes, InCall
  <1>8. BestNamed /\ TriedInv
    BY DEF Init, BestNamed, TriedInv
  <1> QED
    BY <1>7, <1>8 DEF EInv

---------------------------------------------------------------------------------
(* The generator *)

LEMMA RngType ==
  ASSUME NEW r \in 0 .. RngModulus - 1
  PROVE  Rng(r) \in 0 .. RngModulus - 1
  <1>1. r * RngMultiplier + RngIncrement \in Int /\ RngModulus \in Nat \ {0}
    BY EncoderAssumption
  <1> QED
    BY <1>1, QuotientRemainder DEF Rng

(* It can be drawn from, however long the frames are. *)
LEMMA DrawnIs ==
  ASSUME NEW r \in 0 .. RngModulus - 1
  PROVE  DrawnFrom(r, FrameSamples, Drawn(r))
  <1> DEFINE P == {m \in Nat : \E g : DrawnFrom(r, m, g)}
  <1>1. 0 \in P
    <2> DEFINE g == [n \in 0 .. 0 |-> r]
    <2>1. DrawnFrom(r, 0, g)
      BY DEF DrawnFrom
    <2> QED
      BY <2>1
  <1>2. ASSUME NEW m \in Nat, m \in P PROVE m + 1 \in P
    <2>1. PICK g : DrawnFrom(r, m, g)
      BY <1>2
    <2> DEFINE h == [n \in 0 .. m + 1 |-> IF n <= m THEN g[n] ELSE Rng(g[m])]
    <2>2. g[m] \in 0 .. RngModulus - 1
      BY <2>1 DEF DrawnFrom
    <2>3. Rng(g[m]) \in 0 .. RngModulus - 1
      BY <2>2, RngType
    <2>4. DrawnFrom(r, m + 1, h)
      <3>1. h \in [0 .. m + 1 -> 0 .. RngModulus - 1] /\ h[0] = r
        BY <2>1, <2>3 DEF DrawnFrom
      <3>2. ASSUME NEW n \in 0 .. m PROVE h[n + 1] = Rng(h[n])
        <4>1. CASE n = m
          BY <4>1
        <4>2. CASE n < m
          <5>1. h[n + 1] = g[n + 1] /\ h[n] = g[n] /\ n \in 0 .. m - 1
            BY <4>2
          <5> QED
            BY <2>1, <5>1 DEF DrawnFrom
        <4> QED
          BY <4>1, <4>2
      <3> HIDE DEF h
      <3> QED
        BY <3>1, <3>2 DEF DrawnFrom
    <2> QED
      BY <2>4
  <1>3. Nat \subseteq P
    <2> HIDE DEF P
    <2> QED
      BY <1>1, <1>2, NumberInduction
  <1>4. FrameSamples \in Nat
    BY FormatAssumption DEF FrameSamples
  <1>5. \E g : DrawnFrom(r, FrameSamples, g)
    BY <1>3, <1>4
  <1> QED
    BY <1>5 DEF Drawn

---------------------------------------------------------------------------------
(* The encoder: its steps *)

LEMMA BeginCallInv ==
  ASSUME EInv, NEW n \in Nat, Len(dest) + n <= Len(source), BeginCall(n)
  PROVE  EInv'
  <1> USE DEF EInv, BeginCall, scanVars, tryVars, keepVars, frameVars
  <1>1. state' \in [0 .. 3 -> Samples] /\ rng' \in 0 .. RngModulus - 1
    BY DEF EncoderTypes, TypeOK
  <1>2. Len(dest) \in Nat /\ Len(source) \in Nat /\ stop' \in 0 .. Len(source)
    BY DEF EncoderTypes, TypeOK
  <1>3. EncoderTypes'
    BY <1>1, <1>2 DEF EncoderTypes, TypeOK, InputFrame
  <1>4. InCall'
    BY <1>2 DEF InCall
  <1>5. BestNamed' /\ TriedInv'
    BY DEF BestNamed, TriedInv
  <1> QED
    BY <1>3, <1>4, <1>5

LEMMA EndCallInv ==
  ASSUME EInv, EndCall
  PROVE  EInv'
  <1> USE DEF EInv, EndCall, scanVars, tryVars, keepVars, frameVars, outVars
  <1>1. encoder_state' \in [data : [0 .. 1 -> Samples], rng : 0 .. RngModulus - 1]
    BY DEF EncoderTypes, TypeOK, SavedState
  <1>2. EncoderTypes'
    BY <1>1 DEF EncoderTypes, TypeOK, InputFrame
  <1>3. InCall' /\ BestNamed' /\ TriedInv'
    BY DEF InCall, BestNamed, TriedInv
  <1> QED
    BY <1>2, <1>3

LEMMA BeginFrameInv ==
  ASSUME EInv, BeginFrame
  PROVE  EInv'
  <1> USE DEF EInv, BeginFrame, callVars, tryVars, keepVars, frameVars, outVars
  <1>1. Len(dest) < Len(source)
    BY DEF EncoderTypes, TypeOK
  <1>2. accumulator' \in [Lanes -> Accumulators]
    <2>1. state[0] \in Samples /\ state[1] \in Samples /\ 0 \in Vectors
      BY DEF EncoderTypes, TypeOK, Vectors
    <2> QED
      BY <1>1, <2>1, ScanStartType
  <1>3. state' \in [0 .. 3 -> Samples]
    <2>1. input.samples[0] \in SampleVector
      BY <1>1, InputType DEF Vectors
    <2>2. VectorSampleCount - 2 \in Lanes /\ VectorSampleCount - 1 \in Lanes
      BY FormatAssumption DEF Lanes
    <2>3. input.samples[0][VectorSampleCount - 2] \in Samples
          /\ input.samples[0][VectorSampleCount - 1] \in Samples
      BY <2>1, <2>2, SampleInt
    <2> QED
      BY <2>3 DEF EncoderTypes, TypeOK
  <1>4. 0 \in Vectors /\ 0 \in 0 .. VectorSampleCount /\ 0 \in Int
    BY FormatAssumption DEF Vectors
  <1>5. TypeOK'
    BY <1>2, <1>3, <1>4 DEF EncoderTypes, TypeOK
  <1>6. EncoderTypes'
    BY <1>4, <1>5 DEF EncoderTypes, InputFrame
  <1>7. InCall' /\ BestNamed' /\ TriedInv'
    BY DEF InCall, BestNamed, TriedInv
  <1> QED
    BY <1>6, <1>7

LEMMA ScanSampleInv ==
  ASSUME EInv, ScanSample
  PROVE  EInv'
  <1> USE DEF EInv, ScanSample, callVars, tryVars, keepVars, frameVars, outVars
  <1>1. Len(dest) < Len(source) /\ i \in Lanes
    BY FormatAssumption DEF InCall, EncoderTypes, TypeOK, Lanes
  <1> DEFINE s == Whole(accumulator[i])
  <1>2. s \in Int
    <2>1. accumulator[i] \in Int
      BY <1>1, FormatAssumption DEF EncoderTypes, TypeOK, Accumulators
    <2> QED
      BY <2>1, WholeType
  <1> HIDE DEF s
  <1>3. accumulator' \in [Lanes -> Accumulators]
    <2>1. ASSUME NEW j \in Lanes
          PROVE  (IF j > i THEN Int32(accumulator[j] - s * pvec[1][j - i - 1])
                  ELSE accumulator[j]) \in Accumulators
      <3>1. accumulator[j] \in Accumulators /\ accumulator[j] \in Int
        BY FormatAssumption DEF EncoderTypes, TypeOK, Accumulators
      <3>2. CASE j > i
        <4>1. j - i - 1 \in Lanes
          BY <1>1, <3>2, FormatAssumption DEF Lanes
        <4>2. pvec[1] \in SampleVector
          BY <1>1, InputType
        <4>3. pvec[1][j - i - 1] \in Int
          BY <4>1, <4>2, SampleInt
        <4>4. accumulator[j] - s * pvec[1][j - i - 1] \in Int
          BY <1>2, <3>1, <4>3
        <4> QED
          BY <3>2, <4>4, Int32Type
      <3> QED
        BY <3>1, <3>2
    <2> QED
      BY <2>1 DEF s
  <1>4. min' \in Int /\ max' \in Int
    BY <1>2 DEF s, EncoderTypes
  <1>5. i' \in 0 .. VectorSampleCount
    BY <1>1, FormatAssumption DEF Lanes
  <1>6. EncoderTypes'
    BY <1>3, <1>4, <1>5 DEF EncoderTypes, TypeOK, InputFrame
  <1>7. InCall' /\ BestNamed' /\ TriedInv'
    BY DEF InCall, BestNamed, TriedInv
  <1> QED
    BY <1>6, <1>7

LEMMA ScanSecondVectorInv ==
  ASSUME EInv, ScanSecondVector
  PROVE  EInv'
  <1> USE DEF EInv, ScanSecondVector, callVars, scanVars, tryVars, keepVars, frameVars, outVars
  <1>1. Len(dest) < Len(source)
    BY DEF InCall, EncoderTypes, TypeOK
  <1>2. accumulator' \in [Lanes -> Accumulators]
    <2>1. state[2] \in Samples /\ state[3] \in Samples /\ 1 \in Vectors
      BY DEF EncoderTypes, TypeOK, Vectors
    <2> QED
      BY <1>1, <2>1, ScanStartType
  <1>3. EncoderTypes'
    BY <1>2, FormatAssumption DEF EncoderTypes, TypeOK, InputFrame, Vectors
  <1>4. InCall' /\ BestNamed' /\ TriedInv'
    BY DEF InCall, BestNamed, TriedInv
  <1> QED
    BY <1>3, <1>4

LEMMA ChooseShiftsInv ==
  ASSUME EInv, ChooseShifts
  PROVE  EInv'
  <1> USE DEF EInv, ChooseShifts, callVars, scanVars, outVars
  <1>1. PICK n \in 0 .. MaxShift :
          /\ min_shift' = IF n > 0 THEN n - 1 ELSE 0
          /\ max_shift' = IF n < MaxShift THEN n + 1 ELSE MaxShift
    OBVIOUS
  <1>2. /\ min_shift' \in 0 .. MaxShift /\ max_shift' \in 0 .. MaxShift
        /\ min_shift' <= max_shift' /\ shift' = min_shift'
    BY <1>1, FormatAssumption
  <1>3. EncoderTypes'
    BY <1>2, FormatAssumption DEF EncoderTypes, TypeOK, InputFrame
  <1>4. InCall'
    <2>1. epc = "scan" /\ epc' = "next" /\ UNCHANGED <<codebook, source, stop, dest>>
      OBVIOUS
    <2>2. min_shift' \in min_shift' .. max_shift' + 1
      BY <1>2, FormatAssumption
    <2> HIDE DEF ChooseShifts
    <2> QED
      BY <1>2, <2>1, <2>2 DEF InCall
  <1>5. BestNamed' /\ TriedInv'
    BY <1>2 DEF BestNamed, TriedInv
  <1> QED
    BY <1>3, <1>4, <1>5

LEMMA NextShiftInv ==
  ASSUME EInv, NextShift
  PROVE  EInv'
  <1> USE DEF EInv, NextShift, ResetCandidate, callVars, scanVars, keepVars, frameVars, outVars
  <1>1. Len(dest) < Len(source)
    BY DEF InCall, EncoderTypes, TypeOK
  <1>2. accumulator' \in [Lanes -> Accumulators]
    <2>1. state[0] \in Samples /\ state[1] \in Samples
      BY DEF EncoderTypes, TypeOK
    <2> QED
      BY <1>1, <2>1, PredictType
  <1>3. EncoderTypes'
    BY <1>2, FormatAssumption DEF EncoderTypes, TypeOK, InputFrame, Vectors
  <1>4. InCall'
    BY DEF InCall
  <1>5. BestNamed'
    BY DEF BestNamed, input
  <1>6. TriedInv'
    <2>1. rng' = Drawn(init_rng)[0]
      BY DrawnIs DEF DrawnFrom, EncoderTypes, TypeOK
    <2>2. vector' * VectorSampleCount + i' = 0
      BY FormatAssumption
    <2> QED
      BY <2>1, <2>2 DEF TriedInv, LeastKept
  <1> QED
    BY <1>3, <1>4, <1>5, <1>6

---------------------------------------------------------------------------------
(* A sample is quantized. *)

LEMMA BiasType ==
  ASSUME NEW r \in 0 .. RngModulus - 1, NEW n \in 0 .. MaxShift
  PROVE  Bias(r, n) \in 0 .. 2 ^ n - 1
  <1> DEFINE Q == 2 ^ n
             q == (r * Q) \div RngModulus
  <1>1. Q \in Nat \ {0} /\ RngModulus \in Nat \ {0} /\ r \in Nat /\ r < RngModulus
    BY ShiftAssumption, FormatAssumption, EncoderAssumption
  <1> HIDE DEF Q
  <1>2. r * Q \in Nat /\ r * Q < RngModulus * Q
    BY <1>1
  <1>3. q \in Int /\ (r * Q) % RngModulus \in 0 .. RngModulus - 1
        /\ r * Q = q * RngModulus + ((r * Q) % RngModulus)
    BY <1>1, <1>2, QuotientRemainder
  <1> HIDE DEF q
  <1>4. q >= 0
    BY <1>1, <1>2, <1>3
  <1>5. q < Q
    <2>1. q * RngModulus < Q * RngModulus
      BY <1>1, <1>2, <1>3
    <2> QED
      BY <1>1, <1>3, <2>1
  <1> QED
    BY <1>3, <1>4, <1>5 DEF Bias, q, Q

(***************************************************************************)
(* The residual that is chosen for sample s, from the sum of its lane: the *)
(* sum with the residual is still an int, clipped or not, because it is    *)
(* between the prediction and the sample, or within a step of the sample.  *)
(***************************************************************************)
LEMMA Quantization ==
  ASSUME NEW sum \in Accumulators, NEW s \in Samples, NEW n \in 0 .. MaxShift,
         NEW b \in 0 .. 2 ^ n - 1, NEW r,
         r = Clamp((s - Whole(sum) + b) \div 2 ^ n, -NibbleHalf, NibbleHalf - 1)
  PROVE  /\ r \in Residuals
         /\ r * 2 ^ n \in Int
         /\ sum + (r * 2 ^ n) * FixedOne \in Accumulators
         /\ -NibbleHalf < r /\ r < NibbleHalf - 1 =>
              LET miss == s - (Whole(sum) + r * 2 ^ n)
              IN  -(2 ^ n) < miss /\ miss < 2 ^ n
  <1> DEFINE Q == 2 ^ n
             a == Whole(sum)
             exact == (s - a + b) \div Q
             residual == r * Q
  <1>1. /\ Q \in Nat \ {0} /\ Q <= 2 ^ MaxShift /\ b \in 0 .. Q - 1
        /\ a \in Int /\ s \in Int /\ sum \in Int
    BY ShiftAssumption, FormatAssumption, WholeType DEF Accumulators, Samples
  <1>2. r = Clamp(exact, -NibbleHalf, NibbleHalf - 1)
    OBVIOUS
  <1> HIDE DEF Q, a
  <1>3. /\ exact \in Int
        /\ exact * Q <= s - a + b /\ s - a + b < exact * Q + Q
    BY <1>1, QuotientRemainder
  <1> HIDE DEF exact
  <1>4. r \in Residuals /\ r \in Int
    BY <1>2, <1>3, FormatAssumption DEF Clamp, Residuals
  <1>5. residual \in Int
    BY <1>1, <1>4
  <1>6. \/ r = exact /\ s - Q + 1 <= a + residual /\ a + residual <= s + Q - 1
        \/ r < exact /\ r = NibbleHalf - 1 /\ a <= a + residual /\ a + residual <= s + Q - 1
        \/ r > exact /\ r = -NibbleHalf /\ a + residual <= a /\ s - Q + 1 <= a + residual
    <2>1. CASE r = exact
      BY <1>1, <1>3, <2>1
    <2>2. CASE exact > NibbleHalf - 1
      <3>1. r = NibbleHalf - 1 /\ r >= 0 /\ r + 1 <= exact
        BY <1>2, <1>3, <2>2, FormatAssumption DEF Clamp
      <3>2. residual >= 0 /\ residual + Q <= exact * Q
        <4>1. (r + 1) * Q <= exact * Q
          BY <1>1, <1>3, <1>4, <3>1
        <4> QED
          BY <1>1, <1>4, <3>1, <4>1
      <3> QED
        BY <1>1, <1>3, <1>5, <3>1, <3>2
    <2>3. CASE exact < -NibbleHalf
      <3>1. r = -NibbleHalf /\ r < 0 /\ exact + 1 <= r
        BY <1>2, <1>3, <2>3, FormatAssumption DEF Clamp
      <3>2. residual <= 0 /\ exact * Q + Q <= residual
        <4>1. (exact + 1) * Q <= r * Q
          BY <1>1, <1>3, <1>4, <3>1
        <4> QED
          BY <1>1, <1>3, <1>4, <3>1, <4>1
      <3> QED
        BY <1>1, <1>3, <1>5, <3>1, <3>2
    <2> QED
      BY <1>2, <1>3, <2>1, <2>2, <2>3, FormatAssumption DEF Clamp
  <1>7. sum + residual * FixedOne \in Accumulators
    <2>1. PICK f \in 0 .. FixedOne - 1 : sum = a * FixedOne + f
      BY <1>1, QuotientRemainder, FormatAssumption DEF a, Whole
    <2> DEFINE c == a + residual
    <2>2. c \in Int /\ sum + residual * FixedOne = c * FixedOne + f
      BY <1>1, <1>5, <2>1, FormatAssumption
    <2> HIDE DEF c
    <2>3. (SampleMax + 1 + Q) * FixedOne <= AccumulatorHalf
      <3>1. SampleMax + 1 + Q <= SampleMax + 1 + 2 ^ MaxShift
            /\ 2 ^ MaxShift \in Nat /\ SampleMax \in Nat /\ FixedOne \in Nat
        BY <1>1, FormatAssumption, ShiftAssumption
      <3>2. (SampleMax + 1 + Q) * FixedOne <= (SampleMax + 1 + 2 ^ MaxShift) * FixedOne
        BY <1>1, <3>1
      <3> QED
        BY <1>1, <3>1, <3>2, ShiftAssumption, FormatAssumption
    <2>4. -AccumulatorHalf <= sum /\ sum <= AccumulatorHalf - 1
      BY FormatAssumption DEF Accumulators
    <2>5. c * FixedOne + f <= AccumulatorHalf - 1
      <3>1. CASE c <= a
        <4>1. c * FixedOne <= a * FixedOne
          BY <1>1, <2>2, <3>1, FormatAssumption
        <4> QED
          BY <1>1, <2>1, <2>2, <2>4, <4>1, FormatAssumption
      <3>2. CASE c <= s + Q - 1
        <4>1. c + 1 <= SampleMax + 1 + Q
          BY <1>1, <2>2, <3>2, FormatAssumption DEF Samples
        <4>2. (c + 1) * FixedOne <= (SampleMax + 1 + Q) * FixedOne
          BY <1>1, <2>2, <4>1, FormatAssumption
        <4> QED
          BY <1>1, <2>1, <2>2, <2>3, <4>2, FormatAssumption
      <3> QED
        BY <1>6, <3>1, <3>2 DEF c
    <2>6. -AccumulatorHalf <= c * FixedOne + f
      <3>1. CASE a <= c
        <4>1. a * FixedOne <= c * FixedOne
          BY <1>1, <2>2, <3>1, FormatAssumption
        <4> QED
          BY <1>1, <2>1, <2>2, <2>4, <4>1, FormatAssumption
      <3>2. CASE s - Q + 1 <= c
        <4>1. -(SampleMax + 1 + Q) <= c
          BY <1>1, <2>2, <3>2, FormatAssumption DEF Samples
        <4>2. (-(SampleMax + 1 + Q)) * FixedOne <= c * FixedOne
          BY <1>1, <2>2, <4>1, FormatAssumption
        <4> QED
          BY <1>1, <2>1, <2>2, <2>3, <4>2, FormatAssumption
      <3> QED
        BY <1>6, <3>1, <3>2 DEF c
    <2> QED
      BY <2>1, <2>2, <2>5, <2>6, FormatAssumption DEF Accumulators
  <1>8. -NibbleHalf < r /\ r < NibbleHalf - 1 =>
          -Q < s - (a + residual) /\ s - (a + residual) < Q
    BY <1>1, <1>4, <1>5, <1>6, FormatAssumption
  <1> QED
    BY <1>4, <1>5, <1>7, <1>8 DEF Q, a

(* The output of a lane of the decoder. *)
Emitted(sum) == Clamp16(Whole(sum))

(* What the decoder adds for the residual res of lane k, with v the last vector. *)
AddResidual(sums, k, res, v) ==
    [j \in Lanes |-> IF j < k THEN sums[j]
                     ELSE IF j = k THEN Int32(sums[j] + res * FixedOne)
                     ELSE Int32(sums[j] + res * v[j - k - 1])]

LEMMA EmittedType == \A x \in Accumulators : Emitted(x) \in Samples
  <1> SUFFICES ASSUME NEW x \in Accumulators PROVE Emitted(x) \in Samples
    OBVIOUS
  <1>1. x \in Int
    BY FormatAssumption DEF Accumulators
  <1> QED
    BY <1>1, WholeType, Clamp16Type DEF Emitted

LEMMA AddResidualType ==
  ASSUME NEW sums \in [Lanes -> Accumulators], NEW k \in Lanes, NEW res \in Int,
         NEW v \in SampleVector
  PROVE  AddResidual(sums, k, res, v) \in [Lanes -> Accumulators]
  <1> SUFFICES ASSUME NEW j \in Lanes
               PROVE  (IF j < k THEN sums[j]
                       ELSE IF j = k THEN Int32(sums[j] + res * FixedOne)
                       ELSE Int32(sums[j] + res * v[j - k - 1])) \in Accumulators
    BY DEF AddResidual
  <1>1. sums[j] \in Accumulators /\ sums[j] \in Int /\ j \in Int /\ k \in Int
    BY FormatAssumption DEF Accumulators, Lanes
  <1>2. sums[j] + res * FixedOne \in Int
    BY <1>1, FormatAssumption
  <1>3. ASSUME j > k PROVE sums[j] + res * v[j - k - 1] \in Int
    <2>1. j - k - 1 \in Lanes
      BY <1>3, FormatAssumption DEF Lanes
    <2>2. v[j - k - 1] \in Int
      BY <2>1, SampleInt
    <2> QED
      BY <1>1, <2>2
  <1> QED
    BY <1>1, <1>2, <1>3, Int32Type

(* One residual as the encoder takes it: its lanes are the decoder's, and so is s1. *)
LEMMA QuantizeStep ==
  ASSUME EInv, QuantizeSample
  PROVE  \E r \in Residuals :
           /\ r * 2 ^ shift \in Int /\ i \in Lanes
           /\ accumulator' \in [Lanes -> Accumulators]
           /\ \A j \in 0 .. i - 1 : accumulator'[j] = accumulator[j]
           /\ accumulator'[i] = r
           /\ \A j \in i + 1 .. VectorSampleCount - 1 :
                accumulator'[j] = AddResidual(accumulator, i, r * 2 ^ shift, pvec[1])[j]
           /\ s1' = Emitted(AddResidual(accumulator, i, r * 2 ^ shift, pvec[1])[i])
           /\ s0' = s1 /\ s1' \in Samples
           /\ error' = error + Square(input.samples[vector][i] - s1')
           /\ error' \in Nat
           /\ -NibbleHalf < r /\ r < NibbleHalf - 1 =>
                LET miss == input.samples[vector][i] - s1'
                IN  -(2 ^ shift) < miss /\ miss < 2 ^ shift
  <1> DEFINE s == input.samples[vector][i]
             sum == accumulator[i]
             b == Bias(rng, shift)
             r == Clamp((s - Whole(sum) + b) \div 2 ^ shift, -NibbleHalf, NibbleHalf - 1)
             res == r * 2 ^ shift
             next == AddResidual(accumulator, i, res, pvec[1])
  <1>1. /\ Len(dest) < Len(source) /\ i \in Lanes /\ vector \in Vectors
        /\ shift \in 0 .. MaxShift /\ accumulator \in [Lanes -> Accumulators]
        /\ sum \in Accumulators /\ rng \in 0 .. RngModulus - 1 /\ error \in Nat
    BY FormatAssumption DEF EInv, InCall, EncoderTypes, TypeOK, Lanes, QuantizeSample
  <1>2. s \in Samples /\ s \in Int /\ pvec[1] \in SampleVector
    <2>1. input.samples[vector] \in SampleVector /\ pvec[1] \in SampleVector
      BY <1>1, InputType DEF EInv
    <2> QED
      BY <1>1, <2>1, SampleInt
  <1>3. b \in 0 .. 2 ^ shift - 1
    BY <1>1, BiasType
  <1>4. /\ s0' = s1 /\ s1' = Clamp16(res + Whole(sum))
        /\ error' = error + (s - s1') * (s - s1')
        /\ accumulator' = [j \in Lanes |->
                IF j < i THEN accumulator[j] ELSE IF j = i THEN r
                ELSE Int32(accumulator[j] + res * pvec[1][j - i - 1])]
    BY Zenon DEF QuantizeSample
  <1> HIDE DEF s, b
  <1>5. /\ r \in Residuals /\ res \in Int /\ sum + res * FixedOne \in Accumulators
        /\ -NibbleHalf < r /\ r < NibbleHalf - 1 =>
              LET miss == s - (Whole(sum) + res)
              IN  -(2 ^ shift) < miss /\ miss < 2 ^ shift
    BY <1>1, <1>2, <1>3, Quantization
  <1> HIDE DEF r, res
  <1>6. next \in [Lanes -> Accumulators]
    BY <1>1, <1>2, <1>5, AddResidualType
  <1>7. accumulator' \in [Lanes -> Accumulators] /\ accumulator'[i] = r
        /\ (\A j \in 0 .. i - 1 : accumulator'[j] = accumulator[j])
        /\ (\A j \in i + 1 .. VectorSampleCount - 1 : accumulator'[j] = next[j])
    <2>1. r \in Accumulators
      BY <1>5, FormatAssumption DEF Residuals, Accumulators
    <2>2. \A j \in Lanes : j < i => accumulator'[j] = accumulator[j]
      BY <1>4
    <2>3. accumulator'[i] = r
      BY <1>1, <1>4 DEF Lanes
    <2>4. \A j \in Lanes : j > i => accumulator'[j] = next[j]
      BY <1>1, <1>4, FormatAssumption DEF Lanes, AddResidual
    <2>5. accumulator' = [j \in Lanes |-> accumulator'[j]]
      BY <1>4
    <2>6. \A j \in Lanes : accumulator'[j] \in Accumulators
      <3>1. ASSUME NEW j \in Lanes PROVE j < i \/ j = i \/ j > i
        BY <1>1, FormatAssumption DEF Lanes
      <3> QED
        BY <1>1, <1>6, <2>1, <2>2, <2>3, <2>4, <3>1
    <2> QED
      <3>1. \A j \in 0 .. i - 1 : j \in Lanes /\ j < i
        BY <1>1, FormatAssumption DEF Lanes
      <3>2. \A j \in i + 1 .. VectorSampleCount - 1 : j \in Lanes /\ j > i
        BY <1>1, FormatAssumption DEF Lanes
      <3>3. accumulator' \in [Lanes -> Accumulators]
        BY <2>5, <2>6
      <3> QED
        BY <2>2, <2>3, <2>4, <3>1, <3>2, <3>3, Zenon
  <1>8. s1' = Emitted(next[i])
    <2>1. next[i] = Int32(sum + res * FixedOne)
      BY <1>1 DEF AddResidual, Lanes
    <2>2. next[i] = sum + res * FixedOne
      BY <1>5, <2>1, Int32Id
    <2>3. sum \in Int
      BY <1>1, FormatAssumption DEF Accumulators
    <2>4. Whole(next[i]) = Whole(sum) + res
      BY <1>5, <2>2, <2>3, WholeAdd
    <2>5. Whole(sum) + res = res + Whole(sum)
      BY <1>5, <2>3, WholeType
    <2> QED
      BY <1>4, <2>4, <2>5 DEF Emitted
  <1>9. s1' \in Samples /\ s1' \in Int
    BY <1>1, <1>6, <1>8, EmittedType, FormatAssumption DEF Samples
  <1>10. error' = error + Square(s - s1') /\ error' \in Nat
    <2>1. s - s1' \in Int
      BY <1>2, <1>9
    <2>2. (s - s1') * (s - s1') \in Nat
      <3>1. \A d \in Int : d * d \in Nat
        OBVIOUS
      <3> QED
        BY <2>1, <3>1
    <2> QED
      BY <1>1, <1>4, <2>2 DEF Square
  <1>11. ASSUME -NibbleHalf < r, r < NibbleHalf - 1
         PROVE  -(2 ^ shift) < s - s1' /\ s - s1' < 2 ^ shift
    <2>1. sum \in Int /\ Whole(sum) \in Int
      BY <1>1, WholeType, FormatAssumption DEF Accumulators
    <2>2. -(2 ^ shift) < s - (Whole(sum) + res) /\ s - (Whole(sum) + res) < 2 ^ shift
      BY <1>5, <1>11
    <2>3. 2 ^ shift \in Nat
      BY <1>1, ShiftAssumption, FormatAssumption
    <2> DEFINE out == Whole(sum) + res
    <2>4. s1' = Clamp16(out) /\ out \in Int
      BY <1>4, <1>5, <2>1
    <2> HIDE DEF out
    <2> QED
      BY <1>2, <2>2, <2>3, <2>4, FormatAssumption DEF Clamp16, Clamp, Samples, out
  <1> QED
    BY <1>1, <1>4, <1>5, <1>7, <1>8, <1>9, <1>10, <1>11, Zenon DEF s, res

LEMMA QuantizeSampleInv ==
  ASSUME EInv, QuantizeSample
  PROVE  EInv'
  <1>1. PICK r \in Residuals :
          /\ i \in Lanes /\ accumulator' \in [Lanes -> Accumulators]
          /\ \A j \in 0 .. i - 1 : accumulator'[j] = accumulator[j]
          /\ accumulator'[i] = r
          /\ s0' = s1 /\ s1' \in Samples /\ error' \in Nat
    BY QuantizeStep
  <1>2. /\ epc = "try" /\ i' = i + 1 /\ rng' = Rng(rng)
        /\ UNCHANGED <<callVars, epc, state, vector, shift, fout, scanVars, keepVars,
                       frameVars, outVars>>
    BY DEF QuantizeSample
  <1> USE DEF EInv, callVars, scanVars, keepVars, frameVars, outVars
  <1>3. rng' \in 0 .. RngModulus - 1
    BY <1>2, RngType DEF EncoderTypes, TypeOK
  <1>4. i' \in 0 .. VectorSampleCount
    BY <1>1, <1>2, FormatAssumption DEF Lanes
  <1>5. EncoderTypes'
    BY <1>1, <1>2, <1>3, <1>4 DEF EncoderTypes, TypeOK, InputFrame
  <1>6. \A j \in 0 .. i' - 1 : accumulator'[j] \in Residuals
    <2> SUFFICES ASSUME NEW j \in 0 .. i' - 1 PROVE accumulator'[j] \in Residuals
      OBVIOUS
    <2>1. j \in 0 .. i - 1 \/ j = i
      BY <1>1, <1>2 DEF Lanes
    <2> QED
      BY <1>1, <1>2, <2>1 DEF InCall
  <1>7. InCall' /\ BestNamed'
    BY <1>2, <1>6 DEF InCall, BestNamed, input
  <1>8. TriedInv'
    <2> DEFINE n == vector * VectorSampleCount + i
    <2>1. n \in 0 .. FrameSamples - 1 /\ vector * VectorSampleCount + (i + 1) = n + 1
      BY <1>1, FormatAssumption DEF FrameSamples, EncoderTypes, TypeOK, Vectors, Lanes
    <2>2. Drawn(init_rng)[n + 1] = Rng(Drawn(init_rng)[n])
      <3> HIDE DEF n
      <3> QED
        BY <2>1, DrawnIs DEF DrawnFrom, EncoderTypes, TypeOK
    <2>3. rng' = Drawn(init_rng)[vector * VectorSampleCount + (i + 1)]
      BY <1>2, <2>1, <2>2 DEF TriedInv
    <2> HIDE DEF n
    <2> QED
      BY <1>2, <2>3 DEF TriedInv, LeastKept
  <1> QED
    BY <1>5, <1>7, <1>8

---------------------------------------------------------------------------------
(* A candidate is packed, and kept or dropped. *)

(* The decoder finds in the packed bytes the residuals of the lanes. *)
LEMMA PackInverse ==
  ASSUME NEW residuals \in [Lanes -> Residuals]
  PROVE  /\ Pack(residuals) \in PackedVector
         /\ \A n \in Lanes : ResidualAt(Pack(residuals), n) = residuals[n]
  <1> DEFINE pair(j) == PackByte(residuals[2 * j], residuals[2 * j + 1])
  <1>1. ASSUME NEW j \in 0 .. (VectorSampleCount \div 2) - 1
        PROVE  2 * j \in Lanes /\ 2 * j + 1 \in Lanes
    BY FormatAssumption DEF Lanes
  <1>2. DOMAIN ZeroBytes = 0 .. (VectorSampleCount \div 2) - 1
    BY DEF ZeroBytes
  <1>3. Pack(residuals) \in PackedVector
    BY <1>1, <1>2, PackByteInverse DEF Pack, PackedVector
  <1>4. ASSUME NEW n \in Lanes PROVE ResidualAt(Pack(residuals), n) = residuals[n]
    <2> DEFINE h == n \div 2
    <2>1. h \in 0 .. (VectorSampleCount \div 2) - 1
      BY LaneByte
    <2>2. IF n % 2 = 0 THEN n = 2 * h ELSE n = 2 * h + 1
      <3>1. n \in Int
        BY FormatAssumption DEF Lanes
      <3>2. n = (n \div 2) * 2 + (n % 2) /\ n % 2 \in 0 .. 1 /\ n \div 2 \in Int
        BY <3>1
      <3> QED
        BY <3>2
    <2> HIDE DEF h
    <2>3. Pack(residuals)[h] = PackByte(residuals[2 * h], residuals[2 * h + 1])
      BY <1>2, <2>1 DEF Pack
    <2>4. residuals[2 * h] \in Residuals /\ residuals[2 * h + 1] \in Residuals
      BY <1>1, <2>1
    <2>5. /\ Ext4(Pack(residuals)[h] \div (2 * NibbleHalf)) = residuals[2 * h]
          /\ Ext4(Pack(residuals)[h] % (2 * NibbleHalf)) = residuals[2 * h + 1]
      BY <2>3, <2>4, PackByteInverse, NibbleExt4
    <2>6. ResidualAt(Pack(residuals), n) =
            IF n % 2 = 0 THEN Ext4(Pack(residuals)[h] \div (2 * NibbleHalf))
                         ELSE Ext4(Pack(residuals)[h] % (2 * NibbleHalf))
      BY DEF ResidualAt, h
    <2> QED
      BY <2>2, <2>5, <2>6
  <1> QED
    BY <1>3, <1>4

(* With the last sample quantized, every lane holds a residual. *)
LEMMA LanesAreResiduals ==
  ASSUME EInv, epc = "try", i = VectorSampleCount
  PROVE  accumulator \in [Lanes -> Residuals]
  <1>1. \A j \in Lanes : accumulator[j] \in Residuals
    BY DEF EInv, InCall, Lanes
  <1>2. accumulator = [j \in Lanes |-> accumulator[j]]
    BY DEF EInv, EncoderTypes, TypeOK
  <1> QED
    BY <1>1, <1>2

LEMMA PackFirstVectorInv ==
  ASSUME EInv, PackFirstVector
  PROVE  EInv'
  <1> USE DEF EInv, PackFirstVector, callVars, scanVars, keepVars, frameVars, outVars
  <1>1. Len(dest) < Len(source)
    BY DEF InCall, EncoderTypes, TypeOK
  <1>2. accumulator' \in [Lanes -> Accumulators]
    <2>1. s0 \in Samples /\ s1 \in Samples
      BY DEF EncoderTypes, TypeOK
    <2> QED
      BY <1>1, <2>1, PredictType
  <1>3. fout' \in [Vectors -> PackedVector]
    <2>1. Pack(accumulator) \in PackedVector
      BY LanesAreResiduals, PackInverse
    <2> QED
      BY <2>1 DEF EncoderTypes, TypeOK
  <1>4. EncoderTypes'
    BY <1>2, <1>3, FormatAssumption DEF EncoderTypes, TypeOK, InputFrame, Vectors
  <1>5. InCall' /\ BestNamed'
    BY DEF InCall, BestNamed, input
  <1>6. TriedInv'
    <2>1. vector' * VectorSampleCount + i' = vector * VectorSampleCount + i
      BY FormatAssumption
    <2> QED
      BY <2>1 DEF TriedInv, LeastKept
  <1> QED
    BY <1>4, <1>5, <1>6

LEMMA PackSecondVectorInv ==
  ASSUME EInv, PackSecondVector
  PROVE  EInv'
  <1> USE DEF EInv, PackSecondVector, callVars, scanVars, keepVars, frameVars, outVars
  <1>1. fout' \in [Vectors -> PackedVector]
    <2>1. Pack(accumulator) \in PackedVector
      BY LanesAreResiduals, PackInverse
    <2> QED
      BY <2>1 DEF EncoderTypes, TypeOK
  <1>2. EncoderTypes'
    BY <1>1 DEF EncoderTypes, TypeOK, InputFrame
  <1>3. InCall' /\ BestNamed'
    BY DEF InCall, BestNamed, input
  <1>4. TriedInv'
    <2>1. vector * VectorSampleCount + i = FrameSamples
      BY FormatAssumption DEF FrameSamples
    <2> QED
      BY <2>1 DEF TriedInv, LeastKept
  <1> QED
    BY <1>2, <1>3, <1>4

(* The control byte of a candidate. *)
LEMMA CandidateControl ==
  ASSUME EInv, epc \in {"try", "keep"}
  PROVE  /\ shift \in 0 .. MaxShift
         /\ Control(shift, input.predictor) \in Controls
         /\ ScalingOf(Control(shift, input.predictor)) = shift
         /\ PredictorIndexOf(Control(shift, input.predictor)) = input.predictor
  <1>1. Len(dest) < Len(source) /\ shift \in 0 .. MaxShift
    BY FormatAssumption DEF EInv, InCall, EncoderTypes, TypeOK
  <1>2. shift \in 0 .. ScalingCount - 1
    BY <1>1, FormatAssumption
  <1>3. input.predictor \in 0 .. PredictorLimit - 1
    BY <1>1, InputType DEF EInv
  <1> QED
    BY <1>1, <1>2, <1>3, ControlInverse

(* The candidate is one of those tried, and the others stay as they were. *)
LEMMA AttemptAdded ==
  ASSUME EInv, epc = "keep"
  PROVE  /\ DOMAIN WithAttempt = min_shift .. shift
         /\ WithAttempt[shift] = Attempt
         /\ \A n \in min_shift .. shift - 1 : WithAttempt[n] = tried[n]
         /\ \A n \in min_shift .. shift : WithAttempt[n].error \in Nat
         /\ \A n \in min_shift .. shift : WithAttempt[n].rng = Drawn(init_rng)[FrameSamples]
  <1>1. shift \in Int /\ min_shift \in Int /\ min_shift <= shift
    BY DEF EInv, InCall, EncoderTypes, TypeOK
  <1>2. /\ DOMAIN tried = min_shift .. shift - 1
        /\ \A n \in min_shift .. shift - 1 : tried[n].error \in Nat
        /\ \A n \in min_shift .. shift - 1 : tried[n].rng = Drawn(init_rng)[FrameSamples]
    BY DEF EInv, TriedInv
  <1>3. DOMAIN tried \cup {shift} = min_shift .. shift
    BY <1>1, <1>2
  <1>4. WithAttempt = [n \in min_shift .. shift |-> IF n = shift THEN Attempt ELSE tried[n]]
    BY <1>3 DEF WithAttempt
  <1>5. Attempt.error \in Nat /\ Attempt.rng = Drawn(init_rng)[FrameSamples]
    BY DEF Attempt, EInv, EncoderTypes, TriedInv
  <1>6. /\ \A n \in min_shift .. shift : n = shift \/ n \in min_shift .. shift - 1
        /\ \A n \in min_shift .. shift - 1 : n \in min_shift .. shift /\ n # shift
        /\ shift \in min_shift .. shift
    BY <1>1
  <1> QED
    BY <1>2, <1>4, <1>5, <1>6

LEMMA KeepBestInv ==
  ASSUME EInv, KeepBest
  PROVE  EInv'
  <1> USE DEF EInv, KeepBest, callVars, scanVars, outVars
  <1> DEFINE c == Control(shift, input.predictor)
  <1>1. /\ shift \in 0 .. MaxShift /\ c \in Controls
        /\ ScalingOf(c) = shift /\ PredictorIndexOf(c) = input.predictor
    BY CandidateControl
  <1> HIDE DEF c
  <1>2. best' = [control |-> c, data |-> fout]
    BY DEF c
  <1>3. best' \in Frame
    BY <1>1, <1>2 DEF Frame, EncoderTypes, TypeOK
  <1>4. state' \in [0 .. 3 -> Samples]
    BY DEF EncoderTypes, TypeOK
  <1>5. EncoderTypes'
    BY <1>1, <1>3, <1>4, FormatAssumption DEF EncoderTypes, TypeOK, InputFrame
  <1>6. min_shift <= shift /\ shift <= max_shift /\ min_shift \in Int /\ max_shift \in Int
        /\ shift \in Int
    BY <1>1 DEF InCall, EncoderTypes, TypeOK
  <1>7. InCall'
    BY <1>6 DEF InCall
  <1>8. BestNamed'
    <2>1. best'.control = c /\ input' = input /\ best_error' = error' /\ best_error' \in Nat
      BY <1>2 DEF input, EncoderTypes
    <2> QED
      BY <1>1, <1>6, <2>1 DEF BestNamed
  <1>9. LeastKept'
    <2>1. /\ tried' = WithAttempt /\ best'.control = c /\ best'.data = fout
          /\ best_error' = error /\ error \in Nat
          /\ state'[2] = s0 /\ state'[3] = s1
      BY <1>2 DEF EncoderTypes, TypeOK
    <2>2. ScalingOf(best'.control) = shift
      BY <1>1, <2>1
    <2>3. /\ Attempt.error = error /\ Attempt.data = fout /\ Attempt.s0 = s0
          /\ Attempt.s1 = s1
      BY DEF Attempt
    <2>4. ASSUME NEW n \in min_shift .. shift - 1 PROVE tried[n].error > error
      <3>1. shift > min_shift /\ error < best_error
        BY <1>6 DEF Better
      <3>2. n \in DOMAIN tried /\ LeastKept
        BY <3>1 DEF TriedInv
      <3>3. tried[n].error \in Nat
        BY <3>2 DEF TriedInv
      <3>4. tried[n].error >= best_error
        BY <3>2 DEF LeastKept
      <3> QED
        BY <2>1, <3>1, <3>3, <3>4 DEF EncoderTypes
    <2>5. ASSUME NEW n \in min_shift .. shift
          PROVE  /\ WithAttempt[n].error >= error
                 /\ n < shift => WithAttempt[n].error > error
      <3>1. CASE n = shift
        BY <2>1, <2>3, <3>1, AttemptAdded
      <3>2. CASE n < shift
        <4>1. n \in min_shift .. shift - 1
          BY <1>6, <3>2
        <4>2. WithAttempt[n] = tried[n] /\ tried[n].error > error
          BY <2>4, <4>1, AttemptAdded
        <4>3. tried[n].error \in Nat
          BY <4>1 DEF TriedInv
        <4> QED
          BY <2>1, <4>2, <4>3
      <3> QED
        BY <1>6, <3>1, <3>2
    <2>6. DOMAIN WithAttempt = min_shift .. shift /\ WithAttempt[shift] = Attempt
      BY AttemptAdded
    <2> HIDE DEF KeepBest
    <2> QED
      BY <2>1, <2>2, <2>3, <2>5, <2>6 DEF LeastKept
  <1>10. TriedInv'
    <2>1. /\ epc' = "next" /\ shift' = shift + 1 /\ tried' = WithAttempt /\ min_shift' = min_shift
          /\ init_rng' = init_rng /\ rng' = rng /\ epc = "keep"
      OBVIOUS
    <2>2. shift' - 1 = shift
      BY <1>6, <2>1
    <2> HIDE DEF KeepBest
    <2> QED
      BY <1>9, <2>1, <2>2, AttemptAdded DEF TriedInv
  <1> QED
    BY <1>5, <1>7, <1>8, <1>10

LEMMA DropCandidateInv ==
  ASSUME EInv, DropCandidate
  PROVE  EInv'
  <1> USE DEF EInv, DropCandidate, callVars, scanVars, keepVars, outVars
  <1>1. min_shift <= shift /\ shift <= max_shift /\ min_shift \in Int /\ shift \in 0 .. MaxShift
        /\ max_shift \in Int
    BY FormatAssumption DEF InCall, EncoderTypes, TypeOK
  <1>2. EncoderTypes'
    BY <1>1, FormatAssumption DEF EncoderTypes, TypeOK, InputFrame
  <1>3. InCall'
    BY <1>1 DEF InCall
  <1>4. BestNamed'
    <2>1. shift > min_shift
      BY <1>1 DEF Better
    <2>2. /\ ScalingOf(best.control) \in min_shift .. shift - 1
          /\ PredictorIndexOf(best.control) = input.predictor
      BY <2>1 DEF BestNamed
    <2>3. ScalingOf(best.control) \in min_shift .. shift
      BY <1>1, <2>2
    <2> QED
      BY <1>1, <2>1, <2>2, <2>3 DEF BestNamed, input
  <1>5. LeastKept'
    <2> DEFINE kept == ScalingOf(best.control)
    <2>1. shift > min_shift /\ best_error <= error /\ error \in Nat /\ LeastKept
      BY <1>1 DEF Better, EncoderTypes, TriedInv
    <2>2. kept \in min_shift .. shift - 1
      BY <2>1 DEF BestNamed
    <2>3. DOMAIN tried = min_shift .. shift - 1
      BY DEF TriedInv
    <2> HIDE DEF kept
    <2>4. WithAttempt[kept] = tried[kept] /\ tried[kept].error = best_error
      BY <2>1, <2>2, AttemptAdded DEF LeastKept, kept
    <2>5. ASSUME NEW n \in min_shift .. shift
          PROVE  /\ WithAttempt[n].error >= best_error
                 /\ n < kept => WithAttempt[n].error > best_error
      <3>1. CASE n = shift
        <4>1. WithAttempt[n].error = error
          BY <3>1, AttemptAdded DEF Attempt
        <4>2. ~(n < kept)
          BY <1>1, <2>2, <3>1
        <4> QED
          BY <2>1, <4>1, <4>2 DEF EncoderTypes
      <3>2. CASE n # shift
        <4>1. n \in min_shift .. shift - 1
          BY <1>1, <3>2
        <4>2. WithAttempt[n] = tried[n]
          BY <4>1, AttemptAdded
        <4> QED
          BY <2>1, <2>3, <2>4, <4>1, <4>2 DEF LeastKept, kept
      <3> QED
        BY <3>1, <3>2
    <2>6. DOMAIN WithAttempt = min_shift .. shift
      BY AttemptAdded
    <2>7. /\ tried' = WithAttempt /\ best' = best /\ best_error' = best_error /\ state' = state
          /\ epc = "keep"
      OBVIOUS
    <2> HIDE DEF DropCandidate
    <2> QED
      BY <2>1, <2>4, <2>5, <2>6, <2>7 DEF LeastKept, kept
  <1>6. TriedInv'
    <2>1. /\ epc' = "next" /\ shift' = shift + 1 /\ tried' = WithAttempt /\ min_shift' = min_shift
          /\ init_rng' = init_rng /\ rng' = rng /\ epc = "keep"
      OBVIOUS
    <2>2. shift' - 1 = shift
      BY <1>1, <2>1
    <2> HIDE DEF DropCandidate
    <2> QED
      BY <1>5, <2>1, <2>2, AttemptAdded DEF TriedInv
  <1> QED
    BY <1>2, <1>3, <1>4, <1>6

LEMMA FinishFrameInv ==
  ASSUME EInv, FinishFrame
  PROVE  EInv'
  <1> USE DEF EInv, FinishFrame, callVars, scanVars, tryVars, keepVars, frameVars
  <1>1. dest \in Seq(Frame) /\ best \in Frame /\ Len(dest) < stop /\ Len(dest) \in Nat
        /\ stop \in Nat
    BY DEF InCall, EncoderTypes, TypeOK
  <1>2. dest' \in Seq(Frame) /\ Len(dest') = Len(dest) + 1
        /\ DOMAIN dest' = 1 .. Len(dest) + 1
        /\ dest'[Len(dest) + 1] = best
        /\ \A f \in 1 .. Len(dest) : dest'[f] = dest[f]
    BY <1>1
  <1>3. state' \in [0 .. 3 -> Samples]
    BY DEF EncoderTypes, TypeOK
  <1>4. EncoderTypes'
    <2>1. error_sum' \in Nat
      BY DEF EncoderTypes
    <2>2. TypeOK'
      BY <1>2, <1>3 DEF EncoderTypes, TypeOK
    <2> QED
      BY <2>1, <2>2 DEF EncoderTypes, InputFrame
  <1>5. PredictorIndexOf(best.control) < codebook.predictor_count
    <2>1. PredictorIndexOf(best.control) = input.predictor
      BY DEF BestNamed, InCall, EncoderTypes, TypeOK
    <2>2. Len(dest) < Len(source)
      BY <1>1 DEF EncoderTypes, TypeOK
    <2>3. input.predictor \in 0 .. codebook.predictor_count - 1
      BY <2>2, InputType
    <2> QED
      BY <2>1, <2>3, CodebookType
  <1>6. \A f \in DOMAIN dest' : PredictorIndexOf(dest'[f].control) < codebook.predictor_count
    <2> SUFFICES ASSUME NEW f \in 1 .. Len(dest) + 1
                 PROVE  PredictorIndexOf(dest'[f].control) < codebook.predictor_count
      BY <1>2
    <2>1. CASE f = Len(dest) + 1
      BY <1>2, <1>5, <2>1
    <2>2. CASE f \in 1 .. Len(dest)
      BY <1>1, <1>2, <2>2 DEF InCall
    <2> QED
      BY <1>1, <2>1, <2>2
  <1>7. InCall'
    <2>1. Len(dest') <= stop /\ stop' = stop /\ epc' = "frame" /\ source' = source
          /\ codebook' = codebook /\ stop \in 0 .. Len(source) /\ Len(source) \in Nat
      BY <1>1, <1>2 DEF EncoderTypes, TypeOK
    <2> HIDE DEF FinishFrame
    <2> QED
      BY <1>1, <1>2, <1>6, <2>1 DEF InCall
  <1>8. BestNamed' /\ TriedInv'
    BY DEF BestNamed, TriedInv
  <1> QED
    BY <1>4, <1>7, <1>8

LEMMA EncoderStepInv ==
  ASSUME EInv, Step
  PROVE  EInv'
  BY BeginFrameInv, ScanSampleInv, ScanSecondVectorInv, ChooseShiftsInv, NextShiftInv,
     QuantizeSampleInv, PackFirstVectorInv, PackSecondVectorInv, KeepBestInv,
     DropCandidateInv, FinishFrameInv, EndCallInv DEF Step
---------------------------------------------------------------------------------
(* What a decoder makes of the bytes of a vector *)

(* What goes from a vector to the next: the last samples, and the error so far. *)
Carried == [s0 : Samples, s1 : Samples, error : Nat]

(***************************************************************************)
(* The decoder's sums of a vector, after m of its residuals rs, as t[0]    *)
(* .. t[m]; and the square error after as many samples as g[0] .. g[m].    *)
(***************************************************************************)
Run(t, g, m, pv, b, rs, scaling, sound) ==
    /\ t \in [0 .. m -> [Lanes -> Accumulators]]
    /\ t[0] = [j \in Lanes |-> Int32(b.s0 * pv[0][j] + b.s1 * pv[1][j])]
    /\ \A n \in 0 .. m - 1 : t[n + 1] = AddResidual(t[n], n, rs[n] * 2 ^ scaling, pv[1])
    /\ g \in [0 .. m -> Nat]
    /\ g[0] = b.error
    /\ \A n \in 0 .. m - 1 : g[n + 1] = g[n] + Square(sound[n] - Emitted(t[n + 1][n]))

(* What is carried after sample m of the vector. *)
After(b, t, g, m) ==
    [s0    |-> IF m = 0 THEN b.s0 ELSE IF m = 1 THEN b.s1 ELSE Emitted(t[m - 1][m - 2]),
     s1    |-> IF m = 0 THEN b.s1 ELSE Emitted(t[m][m - 1]),
     error |-> g[m]]

ResidualsOf(bytes) == [n \in Lanes |-> ResidualAt(bytes, n)]

(* From b, the bytes of a vector lead the decoder to c. *)
VectorLeads(pv, scaling, bytes, sound, b, c) ==
    \E t, g : /\ Run(t, g, VectorSampleCount, pv, b, ResidualsOf(bytes), scaling, sound)
              /\ c = After(b, t, g, VectorSampleCount)

FrameLeads(cb, frame, sounds, b, d) ==
    LET pv      == cb.vector[PredictorIndexOf(frame.control)]
        scaling == ScalingOf(frame.control)
    IN  \E c \in Carried : /\ VectorLeads(pv, scaling, frame.data[0], sounds[0], b, c)
                           /\ VectorLeads(pv, scaling, frame.data[1], sounds[1], c, d)

(* From b, with the first lo frames decoded, the other frames lead to e. *)
Chain(cb, sound, frames, lo, b, e) ==
    \E h \in [lo .. Len(frames) -> Carried] :
        /\ h[lo] = b
        /\ h[Len(frames)] = e
        /\ \A f \in lo + 1 .. Len(frames) :
             FrameLeads(cb, frames[f], sound[f].samples, h[f - 1], h[f])

---------------------------------------------------------------------------------
(* Runs *)

LEMMA RunStart ==
  ASSUME NEW pv \in [0 .. 1 -> SampleVector], NEW b \in Carried, NEW rs, NEW scaling, NEW sound
  PROVE  \E t, g : /\ Run(t, g, 0, pv, b, rs, scaling, sound)
                   /\ t[0] = [j \in Lanes |-> Int32(b.s0 * pv[0][j] + b.s1 * pv[1][j])]
                   /\ b = After(b, t, g, 0)
  <1> DEFINE first == [j \in Lanes |-> Int32(b.s0 * pv[0][j] + b.s1 * pv[1][j])]
             t == [m \in 0 .. 0 |-> first]
             g == [m \in 0 .. 0 |-> b.error]
  <1>1. first \in [Lanes -> Accumulators]
    <2>1. ASSUME NEW j \in Lanes PROVE b.s0 * pv[0][j] + b.s1 * pv[1][j] \in Int
      <3>1. b.s0 \in Int /\ b.s1 \in Int
        BY FormatAssumption DEF Carried, Samples
      <3>2. pv[0] \in SampleVector /\ pv[1] \in SampleVector
        OBVIOUS
      <3>3. pv[0][j] \in Int /\ pv[1][j] \in Int
        BY <3>2, SampleInt
      <3> QED
        BY <3>1, <3>3
    <2> QED
      BY <2>1, Int32Type
  <1> HIDE DEF first
  <1>2. t \in [0 .. 0 -> [Lanes -> Accumulators]] /\ t[0] = first
    BY <1>1
  <1>3. g \in [0 .. 0 -> Nat] /\ g[0] = b.error
    BY DEF Carried
  <1> HIDE DEF t, g
  <1>4. Run(t, g, 0, pv, b, rs, scaling, sound)
    BY <1>2, <1>3 DEF Run, first
  <1>5. b = After(b, t, g, 0)
    BY <1>3 DEF After, Carried
  <1> QED
    BY <1>2, <1>4, <1>5 DEF first

(* A run of one more sample, with its residual rs[m]. *)
OneMore(t, g, t2, g2, m, pv, b, rs, scaling, sound) ==
    /\ Run(t2, g2, m + 1, pv, b, rs, scaling, sound)
    /\ t2[m + 1] = AddResidual(t[m], m, rs[m] * 2 ^ scaling, pv[1])
    /\ After(b, t2, g2, m + 1) =
         [s0    |-> After(b, t, g, m).s1,
          s1    |-> Emitted(t2[m + 1][m]),
          error |-> After(b, t, g, m).error + Square(sound[m] - Emitted(t2[m + 1][m]))]

LEMMA RunExtend ==
  ASSUME NEW t, NEW g, NEW m \in Lanes, NEW pv \in [0 .. 1 -> SampleVector], NEW b \in Carried,
         NEW rs, NEW rs2, NEW scaling, NEW sound \in SampleVector,
         Run(t, g, m, pv, b, rs, scaling, sound),
         \A n \in 0 .. m - 1 : rs2[n] = rs[n],
         rs2[m] * 2 ^ scaling \in Int
  PROVE  \E t2, g2 : OneMore(t, g, t2, g2, m, pv, b, rs2, scaling, sound)
  <1> DEFINE next == AddResidual(t[m], m, rs2[m] * 2 ^ scaling, pv[1])
             x == Emitted(next[m])
             e == g[m] + Square(sound[m] - x)
             t2 == [n \in 0 .. m + 1 |-> IF n = m + 1 THEN next ELSE t[n]]
             g2 == [n \in 0 .. m + 1 |-> IF n = m + 1 THEN e ELSE g[n]]
  <1>1. m \in Nat /\ m + 1 \in 0 .. m + 1 /\ 0 .. m \subseteq 0 .. m + 1
    BY FormatAssumption DEF Lanes
  <1>2. /\ t \in [0 .. m -> [Lanes -> Accumulators]]
        /\ t[0] = [j \in Lanes |-> Int32(b.s0 * pv[0][j] + b.s1 * pv[1][j])]
        /\ \A n \in 0 .. m - 1 : t[n + 1] = AddResidual(t[n], n, rs[n] * 2 ^ scaling, pv[1])
        /\ g \in [0 .. m -> Nat]
        /\ g[0] = b.error
        /\ \A n \in 0 .. m - 1 : g[n + 1] = g[n] + Square(sound[n] - Emitted(t[n + 1][n]))
    BY DEF Run
  <1>3. next \in [Lanes -> Accumulators]
    <2>1. t[m] \in [Lanes -> Accumulators] /\ pv[1] \in SampleVector
      BY <1>1, <1>2
    <2> QED
      BY <2>1, AddResidualType
  <1> HIDE DEF next
  <1>4. x \in Samples /\ x \in Int /\ sound[m] \in Int
    <2>1. next[m] \in Accumulators
      BY <1>3
    <2>2. x \in Samples
      BY <2>1, EmittedType
    <2> QED
      BY <2>2, SampleInt, FormatAssumption DEF Samples
  <1> HIDE DEF x
  <1>5. e \in Nat
    <2>1. \A d \in Int : d * d \in Nat
      OBVIOUS
    <2>2. Square(sound[m] - x) \in Nat
      BY <1>4, <2>1 DEF Square
    <2> QED
      BY <1>1, <1>2, <2>2
  <1> HIDE DEF e
  <1>6. /\ t2 \in [0 .. m + 1 -> [Lanes -> Accumulators]] /\ g2 \in [0 .. m + 1 -> Nat]
        /\ t2[m + 1] = next /\ g2[m + 1] = e
        /\ \A n \in 0 .. m : t2[n] = t[n] /\ g2[n] = g[n]
    BY <1>1, <1>2, <1>3, <1>5
  <1> HIDE DEF t2, g2
  <1>7. ASSUME NEW n \in 0 .. m
        PROVE  /\ t2[n + 1] = AddResidual(t2[n], n, rs2[n] * 2 ^ scaling, pv[1])
               /\ g2[n + 1] = g2[n] + Square(sound[n] - Emitted(t2[n + 1][n]))
    <2>1. CASE n = m
      BY <1>1, <1>6, <2>1 DEF next, e, x
    <2>2. CASE n # m
      <3>1. n \in 0 .. m - 1 /\ n \in 0 .. m /\ n + 1 \in 0 .. m
        BY <1>1, <2>2
      <3> QED
        BY <1>2, <1>6, <3>1
    <2> QED
      BY <2>1, <2>2
  <1>8. Run(t2, g2, m + 1, pv, b, rs2, scaling, sound)
    <2>1. 0 .. (m + 1) - 1 = 0 .. m /\ 0 \in 0 .. m
      BY <1>1
    <2>2. t2[0] = t[0] /\ g2[0] = g[0]
      BY <1>6, <2>1
    <2> QED
      BY <1>2, <1>6, <1>7, <2>1, <2>2, Zenon DEF Run
  <1>9. After(b, t2, g2, m + 1) =
          [s0 |-> After(b, t, g, m).s1, s1 |-> x, error |-> After(b, t, g, m).error + Square(sound[m] - x)]
    <2>1. m + 1 # 0 /\ (m + 1 = 1 <=> m = 0) /\ m + 1 - 1 = m /\ m + 1 - 2 = m - 1 /\ m \in 0 .. m
      BY <1>1
    <2>2. t2[m + 1][m] = next[m] /\ t2[m] = t[m] /\ g2[m + 1] = e
      BY <1>6, <2>1
    <2> QED
      BY <2>1, <2>2 DEF After, e, x
  <1> QED
    BY <1>6, <1>8, <1>9 DEF x, next, OneMore

(* A run tells nothing of the residuals but their values. *)
LEMMA RunResiduals ==
  ASSUME NEW t, NEW g, NEW m \in Nat, NEW pv, NEW b, NEW rs, NEW rs2, NEW scaling, NEW sound,
         Run(t, g, m, pv, b, rs, scaling, sound),
         \A n \in 0 .. m - 1 : rs2[n] = rs[n]
  PROVE  Run(t, g, m, pv, b, rs2, scaling, sound)
  BY DEF Run

(* The encoder's residuals, packed, lead the decoder where the encoder went. *)
LEMMA PackedRun ==
  ASSUME NEW t, NEW g, NEW pv, NEW b, NEW residuals \in [Lanes -> Residuals],
         NEW scaling, NEW sound,
         Run(t, g, VectorSampleCount, pv, b, residuals, scaling, sound)
  PROVE  VectorLeads(pv, scaling, Pack(residuals), sound, b, After(b, t, g, VectorSampleCount))
  <1>1. \A n \in 0 .. VectorSampleCount - 1 : ResidualsOf(Pack(residuals))[n] = residuals[n]
    BY PackInverse DEF ResidualsOf, Lanes
  <1>2. VectorSampleCount \in Nat
    BY FormatAssumption
  <1>3. Run(t, g, VectorSampleCount, pv, b, ResidualsOf(Pack(residuals)), scaling, sound)
    BY <1>1, <1>2, RunResiduals
  <1> QED
    BY <1>3 DEF VectorLeads

(* What a vector leads to is again two samples and an error. *)
LEMMA AfterType ==
  ASSUME NEW t, NEW g, NEW m \in 0 .. VectorSampleCount, NEW pv, NEW b \in Carried, NEW rs,
         NEW scaling, NEW sound, Run(t, g, m, pv, b, rs, scaling, sound)
  PROVE  After(b, t, g, m) \in Carried
  <1>1. t \in [0 .. m -> [Lanes -> Accumulators]] /\ g \in [0 .. m -> Nat] /\ m \in Nat
    BY FormatAssumption DEF Run
  <1>2. b.s0 \in Samples /\ b.s1 \in Samples
    BY DEF Carried
  <1>3. m # 0 => Emitted(t[m][m - 1]) \in Samples
    <2> SUFFICES ASSUME m # 0 PROVE Emitted(t[m][m - 1]) \in Samples
      OBVIOUS
    <2>1. m \in 0 .. m /\ m - 1 \in Lanes
      BY <1>1, FormatAssumption DEF Lanes
    <2>2. t[m][m - 1] \in Accumulators
      BY <1>1, <2>1
    <2> QED
      BY <2>2, EmittedType
  <1>4. m # 0 /\ m # 1 => Emitted(t[m - 1][m - 2]) \in Samples
    <2> SUFFICES ASSUME m # 0, m # 1 PROVE Emitted(t[m - 1][m - 2]) \in Samples
      OBVIOUS
    <2>1. m - 1 \in 0 .. m /\ m - 2 \in Lanes
      BY <1>1, FormatAssumption DEF Lanes
    <2>2. t[m - 1][m - 2] \in Accumulators
      BY <1>1, <2>1
    <2> QED
      BY <2>2, EmittedType
  <1>5. g[m] \in Nat
    BY <1>1
  <1> QED
    BY <1>2, <1>3, <1>4, <1>5 DEF After, Carried
(* A lane stays as it is once its residual has been added. *)
LEMMA LanesStay ==
  ASSUME NEW t, NEW g, NEW m \in 0 .. VectorSampleCount, NEW pv, NEW b, NEW rs, NEW scaling,
         NEW sound, Run(t, g, m, pv, b, rs, scaling, sound), NEW n \in 0 .. m - 1
  PROVE  t[m][n] = t[n + 1][n]
  <1> DEFINE P == {x \in Nat : n + 1 + x <= m => t[n + 1 + x][n] = t[n + 1][n]}
  <1>1. m \in Nat /\ n \in Nat /\ n + 1 <= m /\ n \in Lanes
    BY FormatAssumption DEF Lanes
  <1>2. 0 \in P
    BY <1>1
  <1>3. ASSUME NEW x \in Nat, x \in P PROVE x + 1 \in P
    <2> SUFFICES ASSUME n + 1 + (x + 1) <= m PROVE t[n + 1 + (x + 1)][n] = t[n + 1][n]
      OBVIOUS
    <2>1. n + 1 + x \in 0 .. m - 1 /\ n + 1 + (x + 1) = (n + 1 + x) + 1
      BY <1>1
    <2>2. t[(n + 1 + x) + 1] =
            AddResidual(t[n + 1 + x], n + 1 + x, rs[n + 1 + x] * 2 ^ scaling, pv[1])
      BY <2>1 DEF Run
    <2>3. n < n + 1 + x
      BY <1>1
    <2>4. t[(n + 1 + x) + 1][n] = t[n + 1 + x][n]
      BY <1>1, <2>2, <2>3 DEF AddResidual
    <2> QED
      BY <1>1, <1>3, <2>1, <2>4
  <1>4. Nat \subseteq P
    <2> HIDE DEF P
    <2> QED
      BY <1>2, <1>3, NumberInduction
  <1>5. m - n - 1 \in Nat /\ n + 1 + (m - n - 1) = m
    BY <1>1
  <1>6. m - n - 1 \in P
    <2> HIDE DEF P
    <2> QED
      BY <1>4, <1>5
  <1> QED
    BY <1>1, <1>5, <1>6

(***************************************************************************)
(* The square error of a vector, as SquareError sums it over the output,   *)
(* is what the run adds up sample by sample.                               *)
(***************************************************************************)
LEMMA RunError ==
  ASSUME NEW t, NEW g, NEW pv, NEW b, NEW rs, NEW scaling,
         NEW sound \in SampleVector,
         Run(t, g, VectorSampleCount, pv, b, rs, scaling, sound),
         NEW output, \A n \in Lanes : output[n] = Emitted(t[VectorSampleCount][n])
  PROVE  g[VectorSampleCount] = b.error + SquareError(sound, output)
  <1> DEFINE Sums(h) ==
        [n \in 0 .. VectorSampleCount |->
           IF n = 0 THEN 0 ELSE h[n - 1] + Square(sound[n - 1] - output[n - 1])]
      f == [n \in 0 .. VectorSampleCount |-> g[n] - g[0]]
      sum == CHOOSE h : h = Sums(h)
  <1>1. VectorSampleCount \in Nat /\ VectorSampleCount \in 0 .. VectorSampleCount
    BY FormatAssumption
  <1>2. /\ g \in [0 .. VectorSampleCount -> Nat] /\ g[0] = b.error
        /\ \A n \in 0 .. VectorSampleCount - 1 :
             g[n + 1] = g[n] + Square(sound[n] - Emitted(t[n + 1][n]))
    BY DEF Run
  <1>3. ASSUME NEW n \in 0 .. VectorSampleCount, n # 0
        PROVE  /\ n - 1 \in 0 .. VectorSampleCount /\ n - 1 \in Nat
               /\ g[n] = g[n - 1] + Square(sound[n - 1] - output[n - 1])
               /\ Square(sound[n - 1] - output[n - 1]) \in Int
    <2>1. n - 1 \in 0 .. VectorSampleCount - 1 /\ n - 1 \in Lanes /\ (n - 1) + 1 = n
      BY <1>1, <1>3 DEF Lanes
    <2>2. output[n - 1] = Emitted(t[n][n - 1])
      BY <1>1, <2>1, LanesStay
    <2>3. g[(n - 1) + 1] = g[n - 1] + Square(sound[n - 1] - Emitted(t[(n - 1) + 1][n - 1]))
      BY <1>2, <2>1, Zenon
    <2>4. sound[n - 1] \in Int /\ output[n - 1] \in Int
      <3>1. t[n][n - 1] \in Accumulators
        BY <2>1 DEF Run
      <3>2. output[n - 1] \in Samples
        BY <2>2, <3>1, EmittedType
      <3> QED
        BY <2>1, <3>2, SampleInt, FormatAssumption DEF Samples
    <2>5. Square(sound[n - 1] - output[n - 1]) \in Int
      BY <2>4 DEF Square
    <2> QED
      BY <1>1, <2>1, <2>2, <2>3, <2>5
  <1>4. f = Sums(f)
    <2> SUFFICES ASSUME NEW n \in 0 .. VectorSampleCount
                 PROVE  g[n] - g[0] = IF n = 0 THEN 0
                          ELSE f[n - 1] + Square(sound[n - 1] - output[n - 1])
      BY Zenon
    <2>1. CASE n = 0
      BY <1>1, <1>2, <2>1
    <2>2. CASE n # 0
      <3>1. g[n] = g[n - 1] + Square(sound[n - 1] - output[n - 1]) /\ f[n - 1] = g[n - 1] - g[0]
        BY <1>3, <2>2
      <3>2. g[n] \in Int /\ g[n - 1] \in Int /\ g[0] \in Int
        BY <1>1, <1>2, <1>3, <2>2
      <3> DEFINE sq == Square(sound[n - 1] - output[n - 1])
      <3>3. sq \in Int
        BY <1>3, <2>2
      <3> HIDE DEF f, sq
      <3> QED
        BY <2>2, <3>1, <3>2, <3>3 DEF sq
    <2> QED
      BY <2>1, <2>2
  <1>5. sum = Sums(sum)
    <2> HIDE DEF f, Sums
    <2> QED
      BY <1>4, Zenon DEF sum
  <1>6. SquareError(sound, output) = sum[VectorSampleCount]
    BY Zenon DEF SquareError
  <1> HIDE DEF sum
  <1> DEFINE P == {n \in Nat : n <= VectorSampleCount => sum[n] \in Int /\ g[n] = g[0] + sum[n]}
  <1>7. 0 \in P
    <2>1. sum[0] = 0 /\ g[0] \in Int
      BY <1>1, <1>2, <1>5
    <2> QED
      BY <2>1
  <1>8. ASSUME NEW n \in Nat, n \in P PROVE n + 1 \in P
    <2> SUFFICES ASSUME n + 1 <= VectorSampleCount 
                 PROVE  sum[n + 1] \in Int /\ g[n + 1] = g[0] + sum[n + 1]
      OBVIOUS
    <2>1. n + 1 \in 0 .. VectorSampleCount /\ n + 1 # 0 /\ (n + 1) - 1 = n /\ n <= VectorSampleCount
      BY <1>1
    <2>2. sum[n + 1] = sum[n] + Square(sound[n] - output[n])
      BY <1>5, <2>1
    <2> DEFINE sq == Square(sound[n] - output[n])
    <2>3. g[n + 1] = g[n] + sq /\ sq \in Int
      BY <1>3, <2>1
    <2>4. g[n] = g[0] + sum[n] /\ sum[n] \in Int
      BY <1>8, <2>1
    <2>5. g[n] \in Int /\ g[0] \in Int
      BY <1>1, <1>2, <2>1
    <2>6. sum[n + 1] = sum[n] + sq
      BY <2>2
    <2> HIDE DEF sq, sum
    <2> QED
      BY <2>3, <2>4, <2>5, <2>6
  <1>9. Nat \subseteq P
    <2> HIDE DEF P
    <2> QED
      BY <1>7, <1>8, NumberInduction
  <1> QED
    BY <1>1, <1>2, <1>6, <1>9
---------------------------------------------------------------------------------
(* The candidates: what the encoder believes of a decoder *)

(* The error sums over the frames of the call; what state[0..1] stands for. *)
Encoded ==
    [s0    |-> IF epc = "call" THEN encoder_state.data[0] ELSE state[0],
     s1    |-> IF epc = "call" THEN encoder_state.data[1] ELSE state[1],
     error |-> error_sum]

Tried == [s0 |-> s0, s1 |-> s1, error |-> error_sum + error]
Kept  == [s0 |-> state[2], s1 |-> state[3], error |-> error_sum + best_error]

Candidate == [control |-> Control(shift, input.predictor), data |-> fout]

(***************************************************************************)
(* While the samples of a vector are quantized, the lanes not yet reached  *)
(* hold the sums of a decoder that was given the residuals of the others.  *)
(***************************************************************************)
TryFollows ==
    epc = "try" =>
        \E b \in Carried : \E t, g :
            /\ vector = 0 => b = Encoded
            /\ vector = 1 => VectorLeads(pvec, shift, fout[0], input.samples[0], Encoded, b)
            /\ Run(t, g, i, pvec, b, accumulator, shift, input.samples[vector])
            /\ \A j \in i .. VectorSampleCount - 1 : accumulator[j] = t[i][j]
            /\ Tried = After(b, t, g, i)

KeepFollows ==
    epc = "keep" => FrameLeads(codebook, Candidate, input.samples, Encoded, Tried)

BestFollows ==
    epc \in {"next", "try", "keep"} /\ shift > min_shift =>
        FrameLeads(codebook, best, input.samples, Encoded, Kept)

CandidateInv == TryFollows /\ KeepFollows /\ BestFollows

LEMMA CarriedType == EncoderTypes => Encoded \in Carried /\ Tried \in Carried /\ Kept \in Carried
  <1> SUFFICES ASSUME EncoderTypes
               PROVE  Encoded \in Carried /\ Tried \in Carried /\ Kept \in Carried
    OBVIOUS
  <1>1. /\ encoder_state.data[0] \in Samples /\ encoder_state.data[1] \in Samples
        /\ state[0] \in Samples /\ state[1] \in Samples
        /\ state[2] \in Samples /\ state[3] \in Samples
        /\ s0 \in Samples /\ s1 \in Samples
        /\ error_sum \in Nat /\ error \in Nat /\ best_error \in Nat
    BY DEF EncoderTypes, TypeOK
  <1> QED
    BY <1>1 DEF Encoded, Tried, Kept, Carried

LEMMA NextShiftFollows ==
  ASSUME EInv, CandidateInv, NextShift
  PROVE  CandidateInv'
  <1> USE DEF NextShift, ResetCandidate, callVars, scanVars, keepVars, frameVars, outVars
  <1>1. Len(dest) < Len(source) /\ pvec \in [0 .. 1 -> SampleVector] /\ Encoded \in Carried
        /\ error_sum \in Nat
    <2>1. Len(dest) < Len(source) /\ EncoderTypes
      BY DEF EInv, InCall, EncoderTypes, TypeOK
    <2> QED
      BY <2>1, InputType, CarriedType DEF EncoderTypes
  <1>2. /\ pvec' = pvec /\ input' = input /\ Encoded' = Encoded /\ Kept' = Kept /\ Tried' = Encoded
        /\ best' = best /\ shift' = shift /\ codebook' = codebook /\ min_shift' = min_shift
    BY <1>1 DEF pvec, input, Encoded, Kept, Tried
  <1>3. TryFollows'
    <2>1. PICK t, g :
            /\ Run(t, g, 0, pvec, Encoded, accumulator', shift, input.samples[0])
            /\ t[0] = [j \in Lanes |-> Int32(Encoded.s0 * pvec[0][j] + Encoded.s1 * pvec[1][j])]
            /\ Encoded = After(Encoded, t, g, 0)
      <3>1. \A rs : \E t, g :
              /\ Run(t, g, 0, pvec, Encoded, rs, shift, input.samples[0])
              /\ t[0] = [j \in Lanes |-> Int32(Encoded.s0 * pvec[0][j] + Encoded.s1 * pvec[1][j])]
              /\ Encoded = After(Encoded, t, g, 0)
        <4>1. pvec \in [0 .. 1 -> SampleVector] /\ Encoded \in Carried
          BY <1>1
        <4> HIDE DEF NextShift, ResetCandidate, callVars, scanVars, keepVars, frameVars, outVars
        <4> QED
          BY <4>1, RunStart
      <3> QED
        BY <3>1
    <2>2. accumulator' = t[0]
      BY <2>1 DEF Predict, Encoded
    <2>3. vector' = 0 /\ i' = 0
      OBVIOUS
    <2> QED
      BY <1>1, <1>2, <2>1, <2>2, <2>3 DEF TryFollows
  <1>4. KeepFollows'
    BY DEF KeepFollows
  <1>5. BestFollows'
    BY <1>2 DEF BestFollows, CandidateInv
  <1> QED
    BY <1>3, <1>4, <1>5 DEF CandidateInv

LEMMA QuantizeSampleFollows ==
  ASSUME EInv, CandidateInv, QuantizeSample
  PROVE  CandidateInv'
  <1>1. /\ epc = "try" /\ i' = i + 1
        /\ UNCHANGED <<callVars, epc, state, vector, shift, fout, scanVars, keepVars,
                       frameVars, outVars>>
    BY DEF QuantizeSample
  <1>2. /\ pvec' = pvec /\ input' = input /\ Encoded' = Encoded /\ Kept' = Kept
        /\ best' = best /\ shift' = shift /\ codebook' = codebook /\ min_shift' = min_shift
        /\ vector' = vector /\ fout' = fout /\ epc' = epc
    BY <1>1 DEF pvec, input, Encoded, Kept, callVars, keepVars, frameVars, outVars
  <1>3. /\ pvec \in [0 .. 1 -> SampleVector] /\ vector \in Vectors
        /\ input.samples[vector] \in SampleVector /\ error \in Nat /\ error_sum \in Nat
        /\ i \in 0 .. VectorSampleCount /\ VectorSampleCount \in Nat
    <2>1. Len(dest) < Len(source) /\ EncoderTypes
      BY <1>1 DEF EInv, InCall, EncoderTypes, TypeOK
    <2> QED
      BY <2>1, InputType, FormatAssumption DEF EncoderTypes, TypeOK
  <1>4. PICK r \in Residuals :
           /\ r * 2 ^ shift \in Int /\ i \in Lanes
           /\ \A j \in 0 .. i - 1 : accumulator'[j] = accumulator[j]
           /\ accumulator'[i] = r
           /\ \A j \in i + 1 .. VectorSampleCount - 1 :
                accumulator'[j] = AddResidual(accumulator, i, r * 2 ^ shift, pvec[1])[j]
           /\ s1' = Emitted(AddResidual(accumulator, i, r * 2 ^ shift, pvec[1])[i])
           /\ s0' = s1 /\ s1' \in Samples
           /\ error' = error + Square(input.samples[vector][i] - s1')
           /\ error' \in Nat
    BY QuantizeStep
  <1>5. PICK b, t, g :
            /\ b \in Carried
            /\ vector = 0 => b = Encoded
            /\ vector = 1 => VectorLeads(pvec, shift, fout[0], input.samples[0], Encoded, b)
            /\ Run(t, g, i, pvec, b, accumulator, shift, input.samples[vector])
            /\ \A j \in i .. VectorSampleCount - 1 : accumulator[j] = t[i][j]
            /\ Tried = After(b, t, g, i)
    BY <1>1 DEF CandidateInv, TryFollows
  <1> DEFINE res == r * 2 ^ shift
             sound == input.samples[vector]
             out(u) == Emitted(u[i + 1][i])
  <1>6. accumulator'[i] * 2 ^ shift = res /\ res \in Int
    BY <1>4
  <1>7. PICK t2, g2 :
           /\ Run(t2, g2, i + 1, pvec, b, accumulator', shift, sound)
           /\ t2[i + 1] = AddResidual(t[i], i, accumulator'[i] * 2 ^ shift, pvec[1])
           /\ After(b, t2, g2, i + 1) =
                    [s0    |-> After(b, t, g, i).s1,
                     s1    |-> out(t2),
                     error |-> After(b, t, g, i).error + Square(sound[i] - out(t2))]
    <2> DEFINE rs2 == accumulator'
    <2>1. (\A n \in 0 .. i - 1 : rs2[n] = accumulator[n]) /\ rs2[i] * 2 ^ shift \in Int
      BY <1>4, <1>6
    <2> HIDE DEF rs2
    <2>2. /\ i \in Lanes /\ sound \in SampleVector /\ pvec \in [0 .. 1 -> SampleVector]
          /\ b \in Carried
      BY <1>3, <1>4, <1>5
    <2>3. Run(t, g, i, pvec, b, accumulator, shift, sound)
      BY <1>5
    <2>4. \E t2, g2 : OneMore(t, g, t2, g2, i, pvec, b, rs2, shift, sound)
      <3> HIDE DEF sound
      <3> QED
        BY <2>1, <2>2, <2>3, RunExtend
    <2> QED
      BY <2>4 DEF rs2, OneMore
  <1>8. ASSUME NEW j \in i .. VectorSampleCount - 1
        PROVE  t2[i + 1][j] = AddResidual(accumulator, i, res, pvec[1])[j]
    <2>1. j \in Lanes /\ i <= j /\ i \in Int
      BY <1>3 DEF Lanes
    <2>2. t[i][j] = accumulator[j]
      BY <1>5
    <2> HIDE DEF res
    <2>3. t2[i + 1] = AddResidual(t[i], i, res, pvec[1])
      BY <1>6, <1>7
    <2> QED
      BY <2>1, <2>2, <2>3 DEF AddResidual
  <1>9. out(t2) = s1'
    BY <1>3, <1>4, <1>8 DEF Lanes
  <1>10. Tried' = After(b, t2, g2, i + 1)
    <2>1. After(b, t, g, i).s1 = s1 /\ After(b, t, g, i).error = error_sum + error
      BY <1>5 DEF Tried
    <2> DEFINE sq == Square(sound[i] - s1')
    <2>2. error' = error + sq /\ sq \in Int
      <3>1. sound[i] \in Int /\ s1' \in Int
        BY <1>3, <1>4, SampleInt, FormatAssumption DEF Samples
      <3> QED
        BY <1>4, <3>1 DEF Square
    <2> HIDE DEF sq
    <2>3. error_sum' = error_sum /\ error_sum + error' = error_sum + error + sq
      BY <1>1, <1>3, <2>2 DEF outVars
    <2>4. After(b, t2, g2, i + 1) = [s0 |-> s1, s1 |-> s1', error |-> error_sum + error + sq]
      BY <1>7, <1>9, <2>1 DEF sq
    <2> QED
      BY <1>4, <2>3, <2>4 DEF Tried
  <1>11. \A j \in i + 1 .. VectorSampleCount - 1 : accumulator'[j] = t2[i + 1][j]
    BY <1>3, <1>4, <1>8
  <1>12. TryFollows'
    <2> HIDE DEF sound, out, res
    <2>1. Run(t2, g2, i', pvec', b, accumulator', shift', input'.samples[vector'])
      BY <1>1, <1>2, <1>7 DEF sound
    <2>2. \A j \in i' .. VectorSampleCount - 1 : accumulator'[j] = t2[i'][j]
      BY <1>1, <1>11
    <2>3. Tried' = After(b, t2, g2, i')
      BY <1>1, <1>10
    <2> QED
      BY <1>2, <1>5, <2>1, <2>2, <2>3, Zenon DEF TryFollows
  <1>13. KeepFollows' /\ BestFollows'
    BY <1>1, <1>2 DEF KeepFollows, BestFollows, CandidateInv
  <1> QED
    BY <1>12, <1>13 DEF CandidateInv
(* The vector that has been quantized leads from where it started to s0 and s1. *)
LEMMA VectorComplete ==
  ASSUME EInv, CandidateInv, epc = "try", i = VectorSampleCount
  PROVE  \E b \in Carried :
           /\ vector = 0 => b = Encoded
           /\ vector = 1 => VectorLeads(pvec, shift, fout[0], input.samples[0], Encoded, b)
           /\ VectorLeads(pvec, shift, Pack(accumulator), input.samples[vector], b, Tried)
  <1>1. PICK b, t, g :
            /\ b \in Carried
            /\ vector = 0 => b = Encoded
            /\ vector = 1 => VectorLeads(pvec, shift, fout[0], input.samples[0], Encoded, b)
            /\ Run(t, g, i, pvec, b, accumulator, shift, input.samples[vector])
            /\ Tried = After(b, t, g, i)
    BY DEF CandidateInv, TryFollows
  <1>2. accumulator \in [Lanes -> Residuals]
    BY LanesAreResiduals
  <1>3. Run(t, g, VectorSampleCount, pvec, b, accumulator, shift, input.samples[vector])
        /\ Tried = After(b, t, g, VectorSampleCount)
    BY <1>1
  <1>4. VectorLeads(pvec, shift, Pack(accumulator), input.samples[vector], b,
                    After(b, t, g, VectorSampleCount))
    BY <1>2, <1>3, PackedRun, Zenon
  <1> QED
    BY <1>1, <1>3, <1>4

LEMMA PackFirstVectorFollows ==
  ASSUME EInv, CandidateInv, PackFirstVector
  PROVE  CandidateInv'
  <1>1. /\ epc = "try" /\ i = VectorSampleCount /\ vector = 0
        /\ vector' = 1 /\ i' = 0 /\ accumulator' = Predict(s0, s1) /\ fout'[0] = Pack(accumulator)
        /\ UNCHANGED <<callVars, epc, state, rng, s0, s1, shift, error, scanVars,
                       keepVars, frameVars, outVars>>
    BY DEF PackFirstVector, EInv, EncoderTypes, TypeOK, Vectors
  <1>2. /\ pvec' = pvec /\ input' = input /\ Encoded' = Encoded /\ Kept' = Kept /\ Tried' = Tried
        /\ best' = best /\ shift' = shift /\ codebook' = codebook /\ min_shift' = min_shift
        /\ epc' = epc
    BY <1>1 DEF pvec, input, Encoded, Kept, Tried, callVars, keepVars, frameVars, outVars
  <1>3. EncoderTypes /\ Len(dest) < Len(source)
    BY <1>1 DEF EInv, InCall, EncoderTypes, TypeOK
  <1>4. pvec \in [0 .. 1 -> SampleVector] /\ Tried \in Carried
    BY <1>3, InputType, CarriedType
  <1>5. VectorLeads(pvec, shift, Pack(accumulator), input.samples[0], Encoded, Tried)
    BY <1>1, VectorComplete
  <1>6. TryFollows'
    <2>1. \A rs : \E t, g :
            /\ Run(t, g, 0, pvec, Tried, rs, shift, input.samples[1])
            /\ t[0] = [j \in Lanes |-> Int32(Tried.s0 * pvec[0][j] + Tried.s1 * pvec[1][j])]
            /\ Tried = After(Tried, t, g, 0)
      BY <1>4, RunStart
    <2>2. PICK t, g :
            /\ Run(t, g, 0, pvec, Tried, accumulator', shift, input.samples[1])
            /\ t[0] = [j \in Lanes |-> Int32(Tried.s0 * pvec[0][j] + Tried.s1 * pvec[1][j])]
            /\ Tried = After(Tried, t, g, 0)
      BY <2>1
    <2>3. accumulator' = t[0]
      BY <1>1, <2>2 DEF Predict, Tried
    <2> QED
      BY <1>1, <1>2, <1>4, <1>5, <2>2, <2>3 DEF TryFollows
  <1>7. KeepFollows' /\ BestFollows'
    BY <1>1, <1>2 DEF KeepFollows, BestFollows, CandidateInv
  <1> QED
    BY <1>6, <1>7 DEF CandidateInv

LEMMA PackSecondVectorFollows ==
  ASSUME EInv, CandidateInv, PackSecondVector
  PROVE  CandidateInv'
  <1>1. /\ epc = "try" /\ i = VectorSampleCount /\ vector = 1 /\ epc' = "keep"
        /\ fout' = [fout EXCEPT ![1] = Pack(accumulator)]
        /\ UNCHANGED <<callVars, state, rng, vector, i, accumulator, s0, s1, shift,
                       error, scanVars, keepVars, frameVars, outVars>>
    BY DEF PackSecondVector
  <1>2. fout'[0] = fout[0] /\ fout'[1] = Pack(accumulator)
    BY <1>1 DEF EInv, EncoderTypes, TypeOK, Vectors
  <1>3. /\ pvec' = pvec /\ input' = input /\ Encoded' = Encoded /\ Kept' = Kept /\ Tried' = Tried
        /\ best' = best /\ shift' = shift /\ codebook' = codebook /\ min_shift' = min_shift
    BY <1>1 DEF pvec, input, Encoded, Kept, Tried, callVars, keepVars, frameVars, outVars
  <1>4. PICK b \in Carried :
          /\ VectorLeads(pvec, shift, fout[0], input.samples[0], Encoded, b)
          /\ VectorLeads(pvec, shift, Pack(accumulator), input.samples[1], b, Tried)
    BY <1>1, VectorComplete
  <1>5. KeepFollows'
    <2> DEFINE new == Candidate'
    <2>1. /\ codebook.vector[PredictorIndexOf(new.control)] = pvec /\ ScalingOf(new.control) = shift
          /\ new.data = fout'
      BY <1>1, <1>3, CandidateControl DEF Candidate, pvec
    <2> HIDE DEF new
    <2>2. FrameLeads(codebook, new, input.samples, Encoded, Tried)
      BY <1>2, <1>4, <2>1 DEF FrameLeads
    <2> QED
      BY <1>3, <2>2 DEF new, KeepFollows
  <1>6. TryFollows' /\ BestFollows'
    BY <1>1, <1>3 DEF TryFollows, BestFollows, CandidateInv
  <1> QED
    BY <1>5, <1>6 DEF CandidateInv

LEMMA KeepBestFollows ==
  ASSUME EInv, CandidateInv, KeepBest
  PROVE  CandidateInv'
  <1>1. /\ epc = "keep" /\ epc' = "next"
        /\ best' = Candidate /\ Kept' = Tried /\ input' = input /\ Encoded' = Encoded
        /\ codebook' = codebook
    <2>1. /\ epc = "keep" /\ epc' = "next" /\ codebook' = codebook /\ source' = source
          /\ dest' = dest /\ error_sum' = error_sum /\ best_error' = error
          /\ best' = [control |-> Control(shift, input.predictor), data |-> fout]
          /\ state' = [state EXCEPT ![2] = s0, ![3] = s1]
      BY DEF KeepBest, callVars, outVars
    <2>2. state'[0] = state[0] /\ state'[1] = state[1] /\ state'[2] = s0 /\ state'[3] = s1
      BY <2>1 DEF EInv, EncoderTypes, TypeOK
    <2> QED
      BY <2>1, <2>2 DEF Candidate, Kept, Tried, input, Encoded
  <1>2. FrameLeads(codebook, Candidate, input.samples, Encoded, Tried)
    BY <1>1 DEF CandidateInv, KeepFollows
  <1> QED
    BY <1>1, <1>2 DEF CandidateInv, TryFollows, KeepFollows, BestFollows

LEMMA DropCandidateFollows ==
  ASSUME EInv, CandidateInv, DropCandidate
  PROVE  CandidateInv'
  <1>1. /\ epc = "keep" /\ epc' = "next" /\ shift > min_shift
        /\ best' = best /\ Kept' = Kept /\ input' = input /\ Encoded' = Encoded
        /\ codebook' = codebook
    BY DEF DropCandidate, Better, Kept, input, Encoded, callVars, keepVars, outVars, EInv, InCall,
           EncoderTypes, TypeOK
  <1>2. FrameLeads(codebook, best, input.samples, Encoded, Kept)
    BY <1>1 DEF CandidateInv, BestFollows
  <1> QED
    BY <1>1, <1>2 DEF CandidateInv, TryFollows, KeepFollows, BestFollows

(***************************************************************************)
(* A step of the encoder keeps what it believes; and it either keeps the   *)
(* frames and what stands for them, or appends one that leads on.          *)
(***************************************************************************)
LEMMA StepFollows ==
  ASSUME EInv, CandidateInv, Step
  PROVE  CandidateInv'
  <1>1. CASE BeginFrame \/ ScanSample \/ ScanSecondVector \/ FinishFrame \/ EndCall
    <2>1. epc' \notin {"next", "try", "keep"}
      BY <1>1 DEF BeginFrame, ScanSample, ScanSecondVector, FinishFrame, EndCall
    <2> QED
      BY <2>1 DEF CandidateInv, TryFollows, KeepFollows, BestFollows
  <1>2. CASE ChooseShifts
    <2>1. epc' = "next" /\ ~(shift' > min_shift')
      BY <1>2, FormatAssumption DEF ChooseShifts
    <2> QED
      BY <2>1 DEF CandidateInv, TryFollows, KeepFollows, BestFollows
  <1> QED
    BY <1>1, <1>2, NextShiftFollows, QuantizeSampleFollows, PackFirstVectorFollows,
       PackSecondVectorFollows, KeepBestFollows, DropCandidateFollows DEF Step

LEMMA StepAppends ==
  ASSUME EInv, CandidateInv, Step
  PROVE  /\ codebook' = codebook /\ source' = source
         /\ \/ dest' = dest /\ Encoded' = Encoded
            \/ /\ dest' = Append(dest, best)
               /\ FrameLeads(codebook, best, source[Len(dest) + 1].samples, Encoded, Encoded')
  <1>1. CASE FinishFrame
    <2>1. /\ epc = "next" /\ shift > max_shift /\ min_shift <= max_shift
          /\ shift \in Int /\ min_shift \in Int /\ max_shift \in Int
      BY <1>1 DEF FinishFrame, EInv, InCall, EncoderTypes, TypeOK
    <2>2. FrameLeads(codebook, best, input.samples, Encoded, Kept)
      BY <2>1 DEF CandidateInv, BestFollows
    <2>3. Encoded' = Kept
      BY <1>1 DEF FinishFrame, Encoded, Kept, EInv, EncoderTypes, TypeOK
    <2> QED
      BY <1>1, <2>2, <2>3 DEF FinishFrame, callVars, input
  <1>2. CASE EndCall
    BY <1>2 DEF EndCall, Encoded, SavedState, outVars
  <1>3. CASE BeginFrame
    BY <1>3 DEF BeginFrame, Encoded, callVars, outVars, EInv, EncoderTypes, TypeOK
  <1>4. CASE KeepBest
    BY <1>4 DEF KeepBest, Encoded, callVars, outVars, EInv, EncoderTypes, TypeOK
  <1>5. CASE ScanSample \/ ScanSecondVector \/ ChooseShifts \/ NextShift
    BY <1>5 DEF ScanSample, ScanSecondVector, ChooseShifts, NextShift, Encoded, callVars, outVars
  <1>6. CASE QuantizeSample \/ PackFirstVector \/ PackSecondVector \/ DropCandidate
    BY <1>6 DEF QuantizeSample, PackFirstVector, PackSecondVector, DropCandidate, Encoded,
                callVars, outVars
  <1> QED
    BY <1>1, <1>2, <1>3, <1>4, <1>5, <1>6 DEF Step
---------------------------------------------------------------------------------
(* Chains of frames *)

LEMMA ChainEmpty ==
  ASSUME NEW cb, NEW sound, NEW frames, Len(frames) \in Nat, NEW b \in Carried, NEW e
  PROVE  Chain(cb, sound, frames, Len(frames), b, e) <=> b = e
  <1> DEFINE n == Len(frames)
             h == [f \in n .. n |-> b]
  <1>1. n \in n .. n /\ n + 1 .. n = {}
    OBVIOUS
  <1>2. Chain(cb, sound, frames, n, b, e) => b = e
    BY DEF Chain
  <1>3. ASSUME b = e PROVE Chain(cb, sound, frames, n, b, e)
    <2> HIDE DEF n
    <2>1. h \in [n .. n -> Carried] /\ h[n] = b
      BY <1>1
    <2> HIDE DEF h
    <2> QED
      BY <1>1, <1>3, <2>1 DEF Chain, n
  <1> QED
    BY <1>2, <1>3

(* The first frame of a chain, and the chain that is left. *)
LEMMA ChainFirst ==
  ASSUME NEW cb, NEW sound, NEW frames, NEW lo \in Nat, NEW b, NEW e,
         Len(frames) \in Nat, lo < Len(frames), Chain(cb, sound, frames, lo, b, e)
  PROVE  \E d \in Carried : /\ FrameLeads(cb, frames[lo + 1], sound[lo + 1].samples, b, d)
                            /\ Chain(cb, sound, frames, lo + 1, d, e)
  <1> DEFINE n == Len(frames)
  <1>1. PICK h \in [lo .. n -> Carried] :
          /\ h[lo] = b
          /\ h[n] = e
          /\ \A f \in lo + 1 .. n : FrameLeads(cb, frames[f], sound[f].samples, h[f - 1], h[f])
    BY DEF Chain
  <1> DEFINE rest == [f \in lo + 1 .. n |-> h[f]]
  <1>2. lo + 1 \in lo + 1 .. n /\ n \in lo + 1 .. n /\ (lo + 1) - 1 = lo
        /\ lo + 1 .. n \subseteq lo .. n /\ (lo + 1) + 1 .. n \subseteq lo + 1 .. n
    OBVIOUS
  <1>3. \A f \in (lo + 1) + 1 .. n : f - 1 \in lo + 1 .. n
    OBVIOUS
  <1> HIDE DEF n
  <1>4. rest \in [lo + 1 .. n -> Carried] /\ rest[lo + 1] = h[lo + 1] /\ rest[n] = e
    BY <1>1, <1>2
  <1>5. \A f \in (lo + 1) + 1 .. n :
          FrameLeads(cb, frames[f], sound[f].samples, rest[f - 1], rest[f])
    BY <1>1, <1>2, <1>3
  <1>6. h[lo + 1] \in Carried
    BY <1>1, <1>2
  <1>7. FrameLeads(cb, frames[lo + 1], sound[lo + 1].samples, b, h[lo + 1])
    BY <1>1, <1>2
  <1> HIDE DEF rest
  <1>8. Chain(cb, sound, frames, lo + 1, h[lo + 1], e)
    BY <1>4, <1>5, Zenon DEF Chain, n
  <1> QED
    BY <1>6, <1>7, <1>8

LEMMA ChainAppend ==
  ASSUME NEW cb, NEW sound, NEW S, NEW frames \in Seq(S), NEW frame \in S, NEW lo \in Nat,
         lo <= Len(frames), NEW b, NEW e, NEW d \in Carried,
         Chain(cb, sound, frames, lo, b, e),
         FrameLeads(cb, frame, sound[Len(frames) + 1].samples, e, d)
  PROVE  Chain(cb, sound, Append(frames, frame), lo, b, d)
  <1> DEFINE n == Len(frames)
             longer == Append(frames, frame)
  <1>1. PICK h \in [lo .. n -> Carried] :
          /\ h[lo] = b
          /\ h[n] = e
          /\ \A f \in lo + 1 .. n : FrameLeads(cb, frames[f], sound[f].samples, h[f - 1], h[f])
    BY DEF Chain
  <1>2. /\ n \in Nat /\ Len(longer) = n + 1 /\ longer[n + 1] = frame
        /\ \A f \in 1 .. n : longer[f] = frames[f]
    OBVIOUS
  <1> HIDE DEF longer, n
  <1> DEFINE h2 == [f \in lo .. n + 1 |-> IF f = n + 1 THEN d ELSE h[f]]
  <1>3. lo <= n
    BY DEF n
  <1>4. h2 \in [lo .. n + 1 -> Carried] /\ h2[lo] = b /\ h2[n + 1] = d /\ h2[n] = e
    BY <1>1, <1>2, <1>3
  <1>5. ASSUME NEW f \in lo + 1 .. n + 1
        PROVE  FrameLeads(cb, longer[f], sound[f].samples, h2[f - 1], h2[f])
    <2>1. CASE f = n + 1
      <3>1. f - 1 = n
        BY <1>2, <2>1
      <3> HIDE DEF h2
      <3> QED
        BY <1>2, <1>4, <2>1, <3>1 DEF n
    <2>2. CASE f # n + 1
      <3>1. f \in lo + 1 .. n /\ f \in 1 .. n /\ f - 1 \in lo .. n + 1 /\ f - 1 # n + 1
            /\ f \in lo .. n + 1
        BY <1>2, <1>3, <2>2
      <3>2. h2[f - 1] = h[f - 1] /\ h2[f] = h[f]
        BY <2>2, <3>1
      <3> HIDE DEF h2
      <3> QED
        BY <1>1, <1>2, <3>1, <3>2
    <2> QED
      BY <2>1, <2>2
  <1> HIDE DEF h2
  <1>6. Chain(cb, sound, longer, lo, b, d)
    BY <1>2, <1>4, <1>5, Zenon DEF Chain
  <1> QED
    BY <1>6 DEF longer

---------------------------------------------------------------------------------
(* The decoder, as module Statecheck runs it *)

Decoded ==
    [s0    |-> dstate[VectorSampleCount - 2],
     s1    |-> dstate[VectorSampleCount - 1],
     error |-> measured]

DecoderTypes ==
    /\ dpc \in {"frame", "previous", "residual"}
    /\ dframe \in 0 .. Len(dest)
    /\ dpc # "frame" => epc = "call" /\ dframe < Len(dest)
    /\ dvector \in Vectors
    /\ dstate \in SampleVector
    /\ measured \in Nat
    /\ pcm \in Seq(SampleVector)
    /\ Len(pcm) = 2 * dframe + (IF dpc = "frame" THEN 0 ELSE dvector)

CurrentFrame == dest[dframe + 1]
CurrentVectors == codebook.vector[PredictorIndexOf(CurrentFrame.control)]
CurrentScaling == ScalingOf(CurrentFrame.control)

(* The decoder is on its way through a vector that leads to c. *)
InVector(c) ==
    \E t, g :
        /\ Run(t, g, VectorSampleCount, CurrentVectors, Decoded,
               ResidualsOf(CurrentFrame.data[dvector]), CurrentScaling,
               source[dframe + 1].samples[dvector])
        /\ c = After(Decoded, t, g, VectorSampleCount)
        /\ dpc = "previous" =>
             /\ dk \in 0 .. 2
             /\ dk = 0 => daccumulator = [j \in Lanes |-> 0]
             /\ dk = 1 => daccumulator = [j \in Lanes |-> Int32(Decoded.s0 * CurrentVectors[0][j])]
             /\ dk = 2 => daccumulator = t[0]
        /\ dpc = "residual" =>
             /\ dk \in 0 .. VectorSampleCount
             /\ dv = CurrentVectors[1]
             /\ daccumulator = t[dk]

(***************************************************************************)
(* What the decoder has, and the bytes still ahead of it, lead to what the *)
(* encoder believes: the last samples, and the error.                      *)
(***************************************************************************)
DecoderFollows ==
    /\ dpc = "frame" => Chain(codebook, source, dest, dframe, Decoded, Encoded)
    /\ dpc # "frame" =>
         \E c, d \in Carried :
             /\ InVector(c)
             /\ dvector = 0 =>
                  VectorLeads(CurrentVectors, CurrentScaling, CurrentFrame.data[1],
                              source[dframe + 1].samples[1], c, d)
             /\ dvector = 1 => c = d
             /\ Chain(codebook, source, dest, dframe + 1, d, Encoded)

DecoderInv == DecoderTypes /\ DecoderFollows

LEMMA DecodedType == DecoderTypes => Decoded \in Carried
  <1> SUFFICES ASSUME DecoderTypes PROVE Decoded \in Carried
    OBVIOUS
  <1>1. VectorSampleCount - 2 \in Lanes /\ VectorSampleCount - 1 \in Lanes
    BY FormatAssumption DEF Lanes
  <1> QED
    BY <1>1 DEF DecoderTypes, Decoded, Carried, SampleVector

(* The frame the decoder is at, or will be. *)
LEMMA CurrentType ==
  ASSUME EInv, DecoderTypes, dframe < Len(dest)
  PROVE  /\ CurrentFrame \in Frame
         /\ PredictorIndexOf(CurrentFrame.control) \in 0 .. codebook.predictor_count - 1
         /\ CurrentVectors \in [0 .. 1 -> SampleVector]
         /\ CurrentScaling \in 0 .. ScalingCount - 1
         /\ source[dframe + 1].samples \in [Vectors -> SampleVector]
  <1>1. dframe + 1 \in 1 .. Len(dest) /\ Len(dest) \in Nat /\ dest \in Seq(Frame)
    BY DEF DecoderTypes, EInv, EncoderTypes, TypeOK
  <1>2. CurrentFrame \in Frame
    BY <1>1 DEF CurrentFrame
  <1>3. /\ PredictorIndexOf(CurrentFrame.control) \in 0 .. PredictorLimit - 1
        /\ CurrentScaling \in 0 .. ScalingCount - 1
    BY <1>2, ControlFields DEF Frame, CurrentScaling
  <1>4. PredictorIndexOf(CurrentFrame.control) < codebook.predictor_count
    BY <1>1 DEF EInv, InCall, CurrentFrame
  <1>5. EncoderTypes
    BY DEF EInv
  <1>6. PredictorIndexOf(CurrentFrame.control) \in 0 .. codebook.predictor_count - 1
    BY <1>3, <1>4, <1>5, CodebookType, FormatAssumption
  <1>7. CurrentVectors \in [0 .. 1 -> SampleVector]
    BY <1>5, <1>6, CodebookType DEF CurrentVectors
  <1>8. source[dframe + 1].samples \in [Vectors -> SampleVector]
    <2>1. dframe + 1 \in 1 .. Len(source)
      BY <1>1 DEF EInv, InCall, EncoderTypes, TypeOK
    <2>2. source[dframe + 1] \in InputFrame
      BY <2>1 DEF EInv, EncoderTypes
    <2> QED
      BY <2>2 DEF InputFrame
  <1> QED
    BY <1>2, <1>3, <1>6, <1>7, <1>8
(* The actions of module Decoder, with this module's names. *)
LEMMA BeginFrameAction ==
  ASSUME D!BeginFrame
  PROVE  /\ dpc = "frame" /\ dframe < Len(dest)
         /\ dpc' = "previous" /\ dvector' = 0 /\ dk' = 0
         /\ daccumulator' = [j \in Lanes |-> 0]
         /\ UNCHANGED <<codebook, dest, dframe, dv, dstate, pcm>>
  BY DEF D!BeginFrame, D!StartVector, D!ZeroVector, D!Lanes, Lanes

LEMMA RejectFrameAction ==
  ASSUME D!RejectFrame
  PROVE  /\ dframe < Len(dest)
         /\ PredictorIndexOf(CurrentFrame.control) >= codebook.predictor_count
  BY DEF D!RejectFrame, D!PredictorMissing, D!PredictorIndex, D!Current, D!PredictorIndexOf,
         CurrentFrame, PredictorIndexOf

LEMMA AccumulatePreviousAction ==
  ASSUME D!AccumulatePrevious
  PROVE  /\ dpc = "previous" /\ dk < codebook.order /\ dk' = dk + 1
         /\ daccumulator' =
              [j \in Lanes |->
                 Int32(daccumulator[j]
                         + dstate[VectorSampleCount - codebook.order + dk] * CurrentVectors[dk][j])]
         /\ UNCHANGED <<codebook, dest, dpc, dframe, dvector, dv, dstate, pcm>>
  BY DEF D!AccumulatePrevious, D!Predictor, D!PredictorIndex, D!Current, D!PredictorIndexOf,
         D!Lanes, D!Int32, CurrentVectors, CurrentFrame, PredictorIndexOf, Lanes, Int32

LEMMA BeginResidualsAction ==
  ASSUME D!BeginResiduals, codebook.order = 2
  PROVE  /\ dpc = "previous" /\ dk = 2 /\ dpc' = "residual" /\ dk' = 0
         /\ dv' = CurrentVectors[1]
         /\ UNCHANGED <<codebook, dest, dframe, dvector, daccumulator, dstate, pcm>>
  BY DEF D!BeginResiduals, D!Predictor, D!PredictorIndex, D!Current, D!PredictorIndexOf,
         CurrentVectors, CurrentFrame, PredictorIndexOf

LEMMA AccumulateResidualAction ==
  ASSUME D!AccumulateResidual
  PROVE  /\ dpc = "residual" /\ dk < VectorSampleCount /\ dk' = dk + 1
         /\ daccumulator' =
              AddResidual(daccumulator, dk,
                          ResidualAt(CurrentFrame.data[dvector], dk) * 2 ^ CurrentScaling, dv)
         /\ UNCHANGED <<codebook, dest, dpc, dframe, dvector, dv, dstate, pcm>>
  BY DEF D!AccumulateResidual, D!ScaledResidual, D!ResidualAt, D!Ext4, D!Current, D!ScalingOf,
         D!Lanes, D!Int32, CurrentFrame, CurrentScaling, AddResidual, ResidualAt, Ext4, ScalingOf,
         Lanes, Int32

LEMMA EmitVectorAction ==
  ASSUME D!EmitVector
  PROVE  /\ dpc = "residual" /\ dk = VectorSampleCount
         /\ dstate' = [j \in Lanes |-> Emitted(daccumulator[j])]
         /\ pcm' = Append(pcm, dstate')
         /\ \/ /\ dvector = 0 /\ dvector' = 1 /\ dpc' = "previous" /\ dk' = 0
               /\ daccumulator' = [j \in Lanes |-> 0]
               /\ dframe' = dframe
            \/ dvector = 1 /\ dvector' = 1 /\ dpc' = "frame" /\ dframe' = dframe + 1
         /\ UNCHANGED <<codebook, dest, dv>>
  <1>1. D!Output = [j \in Lanes |-> Emitted(daccumulator[j])]
    BY DEF D!Output, D!Clamp16, D!Clamp, D!Whole, D!Lanes, Emitted, Clamp16, Clamp, Whole, Lanes
  <1>2. [j \in D!Lanes |-> 0] = [j \in Lanes |-> 0]
    BY DEF D!Lanes, Lanes
  <1> QED
    BY <1>1, <1>2 DEF D!EmitVector, D!StartVector, D!ZeroVector

---------------------------------------------------------------------------------
(* The decoder: its steps *)

(* The sums of a vector, from the residuals in its bytes. *)
LEMMA BytesRun ==
  ASSUME NEW t, NEW g, NEW pv, NEW b, NEW bytes, NEW scaling, NEW sound,
         Run(t, g, VectorSampleCount, pv, b, ResidualsOf(bytes), scaling, sound),
         NEW n \in Lanes
  PROVE  t[n + 1] = AddResidual(t[n], n, ResidualAt(bytes, n) * 2 ^ scaling, pv[1])
  <1>1. ResidualsOf(bytes)[n] = ResidualAt(bytes, n)
    BY DEF ResidualsOf
  <1> QED
    BY <1>1 DEF Run, Lanes

LEMMA RejectFrameNever ==
  ASSUME EInv, DecoderTypes, D!RejectFrame
  PROVE  FALSE
  <1>1. dframe < Len(dest) /\ PredictorIndexOf(CurrentFrame.control) >= codebook.predictor_count
    BY RejectFrameAction
  <1>2. PredictorIndexOf(CurrentFrame.control) \in 0 .. codebook.predictor_count - 1
    BY <1>1, CurrentType
  <1>3. codebook.predictor_count \in Int
    BY CodebookType, FormatAssumption DEF EInv
  <1> QED
    BY <1>1, <1>2, <1>3

LEMMA BeginFrameFollows ==
  ASSUME EInv, DecoderInv, epc = "call", D!BeginFrame, UNCHANGED <<vars, partVars, measured>>
  PROVE  DecoderInv'
  <1>1. /\ dpc = "frame" /\ dframe < Len(dest)
        /\ dpc' = "previous" /\ dvector' = 0 /\ dk' = 0
        /\ daccumulator' = [j \in Lanes |-> 0]
        /\ UNCHANGED <<codebook, dest, dframe, dv, dstate, pcm>>
    BY BeginFrameAction
  <1>2. /\ source' = source /\ measured' = measured /\ epc' = "call" /\ Encoded' = Encoded
        /\ Decoded' = Decoded /\ CurrentFrame' = CurrentFrame /\ CurrentVectors' = CurrentVectors
        /\ CurrentScaling' = CurrentScaling
    BY <1>1 DEF vars, callVars, outVars, Encoded, Decoded, CurrentFrame, CurrentVectors,
                CurrentScaling
  <1>3. DecoderTypes'
    BY <1>1, <1>2 DEF DecoderInv, DecoderTypes, Vectors
  <1>4. dframe \in Nat /\ Len(dest) \in Nat /\ Decoded \in Carried
    BY DecodedType DEF DecoderInv, DecoderTypes, EInv, EncoderTypes, TypeOK
  <1>5. PICK d \in Carried :
          /\ FrameLeads(codebook, CurrentFrame, source[dframe + 1].samples, Decoded, d)
          /\ Chain(codebook, source, dest, dframe + 1, d, Encoded)
    BY <1>1, <1>4, ChainFirst DEF DecoderInv, DecoderFollows, CurrentFrame
  <1>6. PICK c \in Carried :
          /\ VectorLeads(CurrentVectors, CurrentScaling, CurrentFrame.data[0],
                         source[dframe + 1].samples[0], Decoded, c)
          /\ VectorLeads(CurrentVectors, CurrentScaling, CurrentFrame.data[1],
                         source[dframe + 1].samples[1], c, d)
    BY <1>5 DEF FrameLeads, CurrentVectors, CurrentScaling
  <1>7. InVector(c)'
    <2>1. PICK t, g :
            /\ Run(t, g, VectorSampleCount, CurrentVectors, Decoded,
                   ResidualsOf(CurrentFrame.data[0]), CurrentScaling,
                   source[dframe + 1].samples[0])
            /\ c = After(Decoded, t, g, VectorSampleCount)
      BY <1>6 DEF VectorLeads
    <2> QED
      BY <1>1, <1>2, <2>1 DEF InVector
  <1>8. DecoderFollows'
    BY <1>1, <1>2, <1>5, <1>6, <1>7 DEF DecoderFollows
  <1> QED
    BY <1>3, <1>8 DEF DecoderInv
(***************************************************************************)
(* A step inside a vector: what the decoder has left to do stays as it is, *)
(* if the vector it is in still leads where it did.                        *)
(***************************************************************************)
LEMMA InVectorStep ==
  ASSUME EInv, DecoderInv, dpc # "frame", dpc' \in {"previous", "residual"},
         UNCHANGED <<vars, partVars, measured>>,
         UNCHANGED <<dframe, dvector, dstate, pcm>>,
         \A c \in Carried : InVector(c) => InVector(c)'
  PROVE  DecoderInv'
  <1>1. /\ source' = source /\ codebook' = codebook /\ dest' = dest /\ epc' = epc
        /\ Encoded' = Encoded /\ Decoded' = Decoded /\ CurrentFrame' = CurrentFrame
        /\ CurrentVectors' = CurrentVectors /\ CurrentScaling' = CurrentScaling
    BY DEF vars, callVars, outVars, Encoded, Decoded, CurrentFrame, CurrentVectors, CurrentScaling
  <1>2. DecoderTypes'
    BY <1>1 DEF DecoderInv, DecoderTypes
  <1>3. PICK c \in Carried, d \in Carried :
             /\ InVector(c)
             /\ dvector = 0 =>
                  VectorLeads(CurrentVectors, CurrentScaling, CurrentFrame.data[1],
                              source[dframe + 1].samples[1], c, d)
             /\ dvector = 1 => c = d
             /\ Chain(codebook, source, dest, dframe + 1, d, Encoded)
    BY DEF DecoderInv, DecoderFollows
  <1>4. InVector(c)'
    BY <1>3
  <1>5. DecoderFollows'
    BY <1>1, <1>3, <1>4 DEF DecoderFollows
  <1> QED
    BY <1>2, <1>5 DEF DecoderInv

LEMMA AccumulatePreviousFollows ==
  ASSUME EInv, DecoderInv, D!AccumulatePrevious, UNCHANGED <<vars, partVars, measured>>
  PROVE  DecoderInv'
  <1>1. codebook.order = 2 /\ dframe < Len(dest) /\ EncoderTypes /\ dpc = "previous"
    BY AccumulatePreviousAction, CodebookType DEF EInv, DecoderInv, DecoderTypes
  <1>2. /\ dk < 2 /\ dk' = dk + 1
        /\ daccumulator' =
              [j \in Lanes |->
                 Int32(daccumulator[j] + dstate[VectorSampleCount - 2 + dk] * CurrentVectors[dk][j])]
        /\ UNCHANGED <<codebook, dest, dpc, dframe, dvector, dv, dstate, pcm>>
    BY <1>1, AccumulatePreviousAction
  <1>3. /\ source' = source /\ Decoded' = Decoded /\ CurrentFrame' = CurrentFrame
        /\ CurrentVectors' = CurrentVectors /\ CurrentScaling' = CurrentScaling
    BY <1>2 DEF vars, callVars, Decoded, CurrentFrame, CurrentVectors, CurrentScaling
  <1>4. Decoded.s0 \in Int /\ Decoded.s1 \in Int
    BY DecodedType, FormatAssumption DEF DecoderInv, Carried, Samples
  <1>5. \A j \in Lanes : CurrentVectors[0][j] \in Int /\ CurrentVectors[1][j] \in Int
    <2>1. CurrentVectors[0] \in SampleVector /\ CurrentVectors[1] \in SampleVector
      BY <1>1, CurrentType DEF DecoderInv
    <2> QED
      BY <2>1, SampleInt
  <1>6. ASSUME NEW c \in Carried, InVector(c) PROVE InVector(c)'
    <2>1. PICK t, g :
        /\ Run(t, g, VectorSampleCount, CurrentVectors, Decoded,
               ResidualsOf(CurrentFrame.data[dvector]), CurrentScaling,
               source[dframe + 1].samples[dvector])
        /\ c = After(Decoded, t, g, VectorSampleCount)
        /\ dk \in 0 .. 2
        /\ dk = 0 => daccumulator = [j \in Lanes |-> 0]
        /\ dk = 1 => daccumulator = [j \in Lanes |-> Int32(Decoded.s0 * CurrentVectors[0][j])]
      BY <1>1, <1>6 DEF InVector
    <2>2. CASE dk = 0
      <3>1. dk' = 1 /\ VectorSampleCount - 2 + dk = VectorSampleCount - 2
        BY <1>2, <2>2, FormatAssumption
      <3>2. dstate[VectorSampleCount - 2 + dk] = Decoded.s0
        BY <3>1 DEF Decoded
      <3>3. ASSUME NEW j \in Lanes
            PROVE  Int32(daccumulator[j] + Decoded.s0 * CurrentVectors[dk][j])
                     = Int32(Decoded.s0 * CurrentVectors[0][j])
        <4>1. Decoded.s0 * CurrentVectors[0][j] \in Int
          BY <1>4, <1>5
        <4> QED
          BY <2>1, <2>2, <4>1
      <3>4. daccumulator' = [j \in Lanes |-> Int32(Decoded.s0 * CurrentVectors[0][j])]
        BY <1>2, <3>2, <3>3
      <3> QED
        BY <1>1, <1>2, <1>3, <2>1, <3>1, <3>4 DEF InVector
    <2>3. CASE dk = 1
      <3>1. dk' = 2 /\ VectorSampleCount - 2 + dk = VectorSampleCount - 1
        BY <1>2, <2>3, FormatAssumption
      <3>2. dstate[VectorSampleCount - 2 + dk] = Decoded.s1
        BY <3>1 DEF Decoded
      <3>3. ASSUME NEW j \in Lanes
            PROVE  Int32(daccumulator[j] + Decoded.s1 * CurrentVectors[dk][j])
                     = Int32(Decoded.s0 * CurrentVectors[0][j] + Decoded.s1 * CurrentVectors[1][j])
        <4>1. Decoded.s0 * CurrentVectors[0][j] \in Int /\ Decoded.s1 * CurrentVectors[1][j] \in Int
          BY <1>4, <1>5
        <4>2. daccumulator[j] = Int32(Decoded.s0 * CurrentVectors[0][j])
          BY <2>1, <2>3
        <4> QED
          BY <2>3, <4>1, <4>2, Int32Add
      <3>4. daccumulator' = t[0]
        <4>1. t[0] = [j \in Lanes |->
                 Int32(Decoded.s0 * CurrentVectors[0][j] + Decoded.s1 * CurrentVectors[1][j])]
          BY <2>1 DEF Run
        <4> QED
          BY <1>2, <3>2, <3>3, <4>1
      <3> QED
        BY <1>1, <1>2, <1>3, <2>1, <3>1, <3>4 DEF InVector
    <2> QED
      BY <1>2, <2>1, <2>2, <2>3
  <1> QED
    BY <1>1, <1>2, <1>6, InVectorStep

LEMMA BeginResidualsFollows ==
  ASSUME EInv, DecoderInv, D!BeginResiduals, UNCHANGED <<vars, partVars, measured>>
  PROVE  DecoderInv'
  <1>1. codebook.order = 2
    BY CodebookType DEF EInv
  <1>2. /\ dpc = "previous" /\ dk = 2 /\ dpc' = "residual" /\ dk' = 0
        /\ dv' = CurrentVectors[1]
        /\ UNCHANGED <<codebook, dest, dframe, dvector, daccumulator, dstate, pcm>>
    BY <1>1, BeginResidualsAction
  <1>3. /\ source' = source /\ Decoded' = Decoded /\ CurrentFrame' = CurrentFrame
        /\ CurrentVectors' = CurrentVectors /\ CurrentScaling' = CurrentScaling
    BY <1>2 DEF vars, callVars, Decoded, CurrentFrame, CurrentVectors, CurrentScaling
  <1>4. ASSUME NEW c \in Carried, InVector(c) PROVE InVector(c)'
    <2>1. 0 \in 0 .. VectorSampleCount
      BY FormatAssumption
    <2> QED
      BY <1>2, <1>3, <1>4, <2>1 DEF InVector
  <1> QED
    BY <1>2, <1>4, InVectorStep

LEMMA AccumulateResidualFollows ==
  ASSUME EInv, DecoderInv, D!AccumulateResidual, UNCHANGED <<vars, partVars, measured>>
  PROVE  DecoderInv'
  <1>1. /\ dpc = "residual" /\ dk < VectorSampleCount /\ dk' = dk + 1
        /\ daccumulator' =
              AddResidual(daccumulator, dk,
                          ResidualAt(CurrentFrame.data[dvector], dk) * 2 ^ CurrentScaling, dv)
        /\ UNCHANGED <<codebook, dest, dpc, dframe, dvector, dv, dstate, pcm>>
    BY AccumulateResidualAction
  <1>2. /\ source' = source /\ Decoded' = Decoded /\ CurrentFrame' = CurrentFrame
        /\ CurrentVectors' = CurrentVectors /\ CurrentScaling' = CurrentScaling
    BY <1>1 DEF vars, callVars, Decoded, CurrentFrame, CurrentVectors, CurrentScaling
  <1>3. ASSUME NEW c \in Carried, InVector(c) PROVE InVector(c)'
    <2>1. PICK t, g :
        /\ Run(t, g, VectorSampleCount, CurrentVectors, Decoded,
               ResidualsOf(CurrentFrame.data[dvector]), CurrentScaling,
               source[dframe + 1].samples[dvector])
        /\ c = After(Decoded, t, g, VectorSampleCount)
        /\ dk \in 0 .. VectorSampleCount
        /\ dv = CurrentVectors[1]
        /\ daccumulator = t[dk]
      BY <1>1, <1>3 DEF InVector
    <2>2. dk \in Lanes /\ dk + 1 \in 0 .. VectorSampleCount
      BY <1>1, <2>1, FormatAssumption DEF Lanes
    <2>3. t[dk + 1] = AddResidual(t[dk], dk,
                        ResidualAt(CurrentFrame.data[dvector], dk) * 2 ^ CurrentScaling,
                        CurrentVectors[1])
      BY <2>1, <2>2, BytesRun
    <2>4. daccumulator' = t[dk']
      BY <1>1, <2>1, <2>3
    <2> QED
      BY <1>1, <1>2, <2>1, <2>2, <2>4 DEF InVector
  <1> QED
    BY <1>1, <1>3, InVectorStep

LEMMA EmitStepFollows ==
  ASSUME EInv, DecoderInv, EmitStep
  PROVE  DecoderInv'
  <1>1. /\ epc = "call" /\ D!EmitVector
        /\ measured' = measured + SquareError(source[dframe + 1].samples[dvector], dstate')
        /\ UNCHANGED <<vars, partVars>>
    BY DEF EmitStep
  <1>2. /\ dpc = "residual" /\ dk = VectorSampleCount
        /\ dstate' = [j \in Lanes |-> Emitted(daccumulator[j])]
        /\ pcm' = Append(pcm, dstate')
        /\ \/ /\ dvector = 0 /\ dvector' = 1 /\ dpc' = "previous" /\ dk' = 0
              /\ daccumulator' = [j \in Lanes |-> 0]
              /\ dframe' = dframe
           \/ dvector = 1 /\ dvector' = 1 /\ dpc' = "frame" /\ dframe' = dframe + 1
        /\ UNCHANGED <<codebook, dest, dv>>
    BY <1>1, EmitVectorAction
  <1>3. /\ source' = source /\ epc' = epc /\ Encoded' = Encoded
    BY <1>1 DEF vars, callVars, outVars, Encoded
  <1>4. /\ dframe \in Nat /\ Len(dest) \in Nat /\ dframe < Len(dest) /\ Decoded \in Carried
        /\ dvector \in Vectors
    BY <1>2, DecodedType DEF DecoderInv, DecoderTypes, EInv, EncoderTypes, TypeOK
  <1>5. PICK c \in Carried, d \in Carried :
             /\ InVector(c)
             /\ dvector = 0 =>
                  VectorLeads(CurrentVectors, CurrentScaling, CurrentFrame.data[1],
                              source[dframe + 1].samples[1], c, d)
             /\ dvector = 1 => c = d
             /\ Chain(codebook, source, dest, dframe + 1, d, Encoded)
    BY <1>2 DEF DecoderInv, DecoderFollows
  <1> DEFINE rs == ResidualsOf(CurrentFrame.data[dvector])
             sound == source[dframe + 1].samples[dvector]
  <1>6. PICK t, g :
        /\ Run(t, g, VectorSampleCount, CurrentVectors, Decoded, rs, CurrentScaling, sound)
        /\ c = After(Decoded, t, g, VectorSampleCount)
        /\ daccumulator = t[VectorSampleCount]
    BY <1>2, <1>5 DEF InVector
  <1>7. sound \in SampleVector
    BY <1>4, CurrentType DEF DecoderInv
  <1> HIDE DEF rs, sound
  <1>8. dstate' \in SampleVector
    <2>1. \A j \in Lanes : t[VectorSampleCount][j] \in Accumulators
      BY <1>6, FormatAssumption DEF Run
    <2>2. \A j \in Lanes : Emitted(daccumulator[j]) \in Samples
      BY <1>6, <2>1, EmittedType
    <2> QED
      BY <1>2, <2>2 DEF SampleVector
  <1>9. Decoded' = c
    <2>1. /\ VectorSampleCount \in 0 .. VectorSampleCount
          /\ VectorSampleCount - 2 \in 0 .. VectorSampleCount - 1
          /\ VectorSampleCount - 2 \in Lanes /\ VectorSampleCount - 1 \in Lanes
          /\ (VectorSampleCount - 2) + 1 = VectorSampleCount - 1
          /\ VectorSampleCount # 0 /\ VectorSampleCount # 1
      BY FormatAssumption DEF Lanes
    <2>2. t[VectorSampleCount][VectorSampleCount - 2] = t[VectorSampleCount - 1][VectorSampleCount - 2]
      <3>1. t[VectorSampleCount][VectorSampleCount - 2]
              = t[(VectorSampleCount - 2) + 1][VectorSampleCount - 2]
        BY <1>6, <2>1, LanesStay
      <3> QED
        BY <2>1, <3>1
    <2>3. \A n \in Lanes : dstate'[n] = Emitted(t[VectorSampleCount][n])
      BY <1>2, <1>6
    <2>4. g[VectorSampleCount] = Decoded.error + SquareError(sound, dstate')
      <3> DEFINE output == dstate'
      <3>1. \A n \in Lanes : output[n] = Emitted(t[VectorSampleCount][n])
        BY <2>3
      <3> HIDE DEF output
      <3>2. g[VectorSampleCount] = Decoded.error + SquareError(sound, output)
        BY <1>6, <1>7, <3>1, RunError
      <3> QED
        BY <3>2 DEF output
    <2>5. measured' = g[VectorSampleCount]
      BY <1>1, <2>4 DEF Decoded, sound
    <2>6. /\ dstate'[VectorSampleCount - 2] = Emitted(t[VectorSampleCount - 1][VectorSampleCount - 2])
          /\ dstate'[VectorSampleCount - 1] = Emitted(t[VectorSampleCount][VectorSampleCount - 1])
      BY <2>1, <2>2, <2>3
    <2> QED
      BY <1>6, <2>1, <2>5, <2>6 DEF Decoded, After
  <1>10. measured' \in Nat
    BY <1>9 DEF Decoded, Carried
  <1>11. pcm' \in Seq(SampleVector) /\ Len(pcm') = Len(pcm) + 1
    BY <1>2, <1>8 DEF DecoderInv, DecoderTypes
  <1>12. CASE dvector = 0
    <2>1. /\ CurrentFrame' = CurrentFrame /\ CurrentVectors' = CurrentVectors
          /\ CurrentScaling' = CurrentScaling /\ dframe' = dframe /\ dvector' = 1
          /\ dpc' = "previous" /\ dk' = 0 /\ daccumulator' = [j \in Lanes |-> 0]
      BY <1>2, <1>12 DEF CurrentFrame, CurrentVectors, CurrentScaling
    <2>2. DecoderTypes'
      BY <1>1, <1>2, <1>3, <1>4, <1>8, <1>10, <1>11, <1>12, <2>1
      DEF DecoderInv, DecoderTypes, Vectors
    <2>3. PICK t2, g2 :
            /\ Run(t2, g2, VectorSampleCount, CurrentVectors, c,
                   ResidualsOf(CurrentFrame.data[1]), CurrentScaling,
                   source[dframe + 1].samples[1])
            /\ d = After(c, t2, g2, VectorSampleCount)
      BY <1>5, <1>12 DEF VectorLeads
    <2>4. InVector(d)'
      BY <1>3, <1>9, <2>1, <2>3 DEF InVector
    <2>5. DecoderFollows'
      BY <1>2, <1>3, <1>5, <2>1, <2>4 DEF DecoderFollows
    <2> QED
      BY <2>2, <2>5 DEF DecoderInv
  <1>13. CASE dvector = 1
    <2>1. dpc' = "frame" /\ dframe' = dframe + 1 /\ dvector' = 1
      BY <1>2, <1>13
    <2>2. DecoderTypes'
      BY <1>1, <1>2, <1>3, <1>4, <1>8, <1>10, <1>11, <1>13, <2>1
      DEF DecoderInv, DecoderTypes, Vectors
    <2>3. DecoderFollows'
      BY <1>2, <1>3, <1>5, <1>9, <1>13, <2>1 DEF DecoderFollows
    <2> QED
      BY <2>2, <2>3 DEF DecoderInv
  <1> QED
    BY <1>2, <1>12, <1>13
---------------------------------------------------------------------------------
(* Encoder and decoder together *)

(* What the parts of the test keep, and the sizes of the calls they make. *)
PartInv ==
    /\ part \in {"whole", "frames", "again"}
    /\ part # "frames" =>
         /\ epc = "call" => Len(dest) \in {0, Len(source)}
         /\ epc # "call" => stop = Len(source)
    /\ part # "whole" =>
         /\ vadpcm_full \in Seq(Frame) /\ Len(vadpcm_full) = Len(source)
         /\ \A f \in DOMAIN vadpcm_full :
              PredictorIndexOf(vadpcm_full[f].control) < codebook.predictor_count
         /\ decoded_full \in Seq(SampleVector) /\ Len(decoded_full) = 2 * Len(source)

IInv == EInv /\ CandidateInv /\ DecoderInv /\ PartInv

LEMMA ZeroTypes ==
  /\ 0 \in Samples /\ ZeroVector \in SampleVector
  /\ ZeroState \in [data : [0 .. 1 -> Samples], rng : 0 .. RngModulus - 1]
  <1>1. 0 \in Samples
    BY FormatAssumption DEF Samples
  <1>2. 0 \in 0 .. RngModulus - 1
    BY EncoderAssumption
  <1> QED
    BY <1>1, <1>2 DEF ZeroVector, SampleVector, ZeroState

(* At the start of a sound: nothing encoded, nothing decoded. *)
AtStart ==
    /\ dpc = "frame" /\ dframe = 0 /\ dvector \in Vectors /\ dstate = ZeroVector /\ pcm = << >>
    /\ epc = "call" /\ encoder_state = ZeroState /\ dest = << >>
    /\ measured \in Nat /\ error_sum = measured

LEMMA StartFollows == AtStart => DecoderInv
  <1> SUFFICES ASSUME AtStart PROVE DecoderInv
    OBVIOUS
  <1> USE DEF AtStart
  <1>1. DecoderTypes
    BY ZeroTypes DEF DecoderTypes
  <1>2. VectorSampleCount - 2 \in Lanes /\ VectorSampleCount - 1 \in Lanes
    BY FormatAssumption DEF Lanes
  <1>3. Decoded = Encoded
    BY <1>2 DEF Decoded, Encoded, ZeroVector, ZeroState
  <1>4. Decoded \in Carried /\ Len(dest) = 0
    BY <1>1, DecodedType
  <1>5. Chain(codebook, source, dest, Len(dest), Decoded, Encoded)
    BY <1>3, <1>4, ChainEmpty
  <1> QED
    BY <1>1, <1>4, <1>5 DEF DecoderInv, DecoderFollows

LEMMA CheckInitInv == CheckInit => IInv
  <1> SUFFICES ASSUME CheckInit PROVE IInv
    OBVIOUS
  <1>1. EInv
    BY EncoderInitInv DEF CheckInit
  <1>2. epc = "call" /\ CandidateInv
    BY DEF CheckInit, Init, CandidateInv, TryFollows, KeepFollows, BestFollows
  <1>3. DecoderInv
    <2>1. D!ZeroVector = ZeroVector
      BY DEF D!ZeroVector, D!Lanes, ZeroVector, Lanes
    <2>2. /\ dpc = "frame" /\ dframe = 0 /\ dest = << >> /\ dstate = ZeroVector /\ pcm = << >>
          /\ epc = "call" /\ encoder_state = ZeroState /\ dvector = 0
          /\ measured = 0 /\ error_sum = 0
      BY <2>1 DEF CheckInit, Init, D!Init
    <2> QED
      BY <2>2, StartFollows DEF Vectors, AtStart
  <1>4. PartInv
    BY <1>2 DEF CheckInit, Init, PartInv
  <1> QED
    BY <1>1, <1>2, <1>3, <1>4 DEF IInv

(* With nothing ahead of the decoder, it has what the encoder believes. *)
LEMMA CaughtUpSame ==
  ASSUME EInv, DecoderInv, CaughtUp
  PROVE  Decoded = Encoded
  <1>1. Chain(codebook, source, dest, Len(dest), Decoded, Encoded)
    BY DEF CaughtUp, DecoderInv, DecoderFollows
  <1>2. Decoded \in Carried /\ Len(dest) \in Nat
    BY DecodedType DEF DecoderInv, EInv, EncoderTypes, TypeOK
  <1> QED
    BY <1>1, <1>2, ChainEmpty

LEMMA EncodeCallInv ==
  ASSUME IInv, EncodeCall
  PROVE  IInv'
  <1>1. /\ CaughtUp /\ Len(dest) < Len(source) /\ BeginCall(CallLength) /\ measured' = 0
        /\ epc = "call" /\ epc' = "frame" /\ stop' = Len(dest) + CallLength
        /\ UNCHANGED <<decoderVars, partVars, codebook, source, dest>>
    BY DEF EncodeCall, BeginCall
  <1>2. Len(dest) \in Nat /\ Len(source) \in Nat /\ source \in Seq(InputFrame)
    BY DEF IInv, EInv, EncoderTypes, TypeOK
  <1>3. CallLength \in Nat /\ Len(dest) + CallLength <= Len(source)
        /\ (part # "frames" => Len(dest) + CallLength = Len(source))
    BY <1>1, <1>2 DEF CallLength, IInv, PartInv
  <1>4. EInv'
    BY <1>1, <1>3, BeginCallInv DEF IInv
  <1>5. CandidateInv'
    BY <1>1 DEF CandidateInv, TryFollows, KeepFollows, BestFollows
  <1>6. DecoderInv'
    <2>1. Decoded = Encoded
      BY <1>1, CaughtUpSame DEF IInv
    <2>2. Decoded' = Encoded'
      <3>1. /\ state'[0] = encoder_state.data[0] /\ state'[1] = encoder_state.data[1]
            /\ error_sum' = 0
        BY DEF EncodeCall, BeginCall, IInv, EInv, EncoderTypes, TypeOK
      <3>2. dstate' = dstate
        BY <1>1 DEF decoderVars
      <3>3. dstate[VectorSampleCount - 2] = encoder_state.data[0]
            /\ dstate[VectorSampleCount - 1] = encoder_state.data[1]
        BY <1>1, <2>1 DEF Decoded, Encoded
      <3> QED
        BY <1>1, <3>1, <3>2, <3>3 DEF Decoded, Encoded
    <2>3. DecoderTypes'
      BY <1>1 DEF IInv, DecoderInv, DecoderTypes, decoderVars, CaughtUp
    <2>4. (Decoded \in Carried)'
      BY <2>3, DecodedType, PTL
    <2>5. Chain(codebook', source', dest', Len(dest'), Decoded', Encoded')
      <3> DEFINE e == Encoded'
      <3>1. e \in Carried
        BY <2>2, <2>4
      <3> HIDE DEF e
      <3>2. Chain(codebook, source, dest, Len(dest), e, e)
        BY <1>2, <3>1, ChainEmpty
      <3> QED
        BY <1>1, <2>2, <3>2 DEF e
    <2>6. DecoderFollows'
      BY <1>1, <2>5 DEF DecoderFollows, CaughtUp, decoderVars
    <2> QED
      BY <2>3, <2>6 DEF DecoderInv
  <1>7. PartInv'
    BY <1>1, <1>3 DEF IInv, PartInv, partVars
  <1> QED
    BY <1>4, <1>5, <1>6, <1>7 DEF IInv

LEMMA EncodeStepInv ==
  ASSUME IInv, EncodeStep
  PROVE  IInv'
  <1>1. Step /\ UNCHANGED <<decoderVars, partVars, measured>>
    BY DEF EncodeStep
  <1>2. EInv' /\ CandidateInv'
    BY <1>1, EncoderStepInv, StepFollows DEF IInv
  <1>3. epc # "call" /\ stop' = stop
        /\ (epc' = "call" => Len(dest) = stop /\ dest' = dest)
    BY <1>1 DEF Step, BeginFrame, ScanSample, ScanSecondVector, ChooseShifts, NextShift,
                QuantizeSample, PackFirstVector, PackSecondVector, KeepBest, DropCandidate,
                FinishFrame, EndCall, callVars, outVars
  <1>4. /\ codebook' = codebook /\ source' = source
        /\ \/ dest' = dest /\ Encoded' = Encoded
           \/ /\ dest' = Append(dest, best)
              /\ FrameLeads(codebook, best, source[Len(dest) + 1].samples, Encoded, Encoded')
    BY <1>1, StepAppends DEF IInv
  <1>5. dpc = "frame" /\ dframe \in 0 .. Len(dest) /\ Len(dest) \in Nat
        /\ dest \in Seq(Frame) /\ best \in Frame
    BY <1>3 DEF IInv, DecoderInv, DecoderTypes, EInv, EncoderTypes, TypeOK
  <1>6. /\ dpc' = dpc /\ dframe' = dframe /\ dvector' = dvector /\ dstate' = dstate
        /\ pcm' = pcm /\ measured' = measured /\ Decoded' = Decoded
    BY <1>1 DEF decoderVars, Decoded
  <1>7. Chain(codebook, source, dest, dframe, Decoded, Encoded)
    BY <1>5 DEF IInv, DecoderInv, DecoderFollows
  <1>8. DecoderTypes' /\ Chain(codebook, source, dest', dframe, Decoded, Encoded')
    <2>1. CASE dest' = dest /\ Encoded' = Encoded
      BY <1>5, <1>6, <1>7, <2>1 DEF IInv, DecoderInv, DecoderTypes
    <2>2. CASE /\ dest' = Append(dest, best)
               /\ FrameLeads(codebook, best, source[Len(dest) + 1].samples, Encoded, Encoded')
      <3>1. Len(dest') = Len(dest) + 1
        BY <1>5, <2>2
      <3>2. DecoderTypes'
        BY <1>5, <1>6, <3>1 DEF IInv, DecoderInv, DecoderTypes
      <3>3. Encoded' \in Carried
        <4>1. EncoderTypes'
          BY <1>2 DEF EInv
        <4>2. (Encoded \in Carried /\ Tried \in Carried /\ Kept \in Carried)'
          BY <4>1, CarriedType, PTL
        <4> QED
          BY <4>2
      <3>4. Chain(codebook, source, Append(dest, best), dframe, Decoded, Encoded')
        <4> DEFINE e == Encoded'
        <4>1. e \in Carried /\ FrameLeads(codebook, best, source[Len(dest) + 1].samples, Encoded, e)
          BY <2>2, <3>3
        <4>2. dframe \in Nat /\ dframe <= Len(dest)
          BY <1>5
        <4> HIDE DEF e
        <4>3. Chain(codebook, source, Append(dest, best), dframe, Decoded, e)
          BY <1>5, <1>7, <4>1, <4>2, ChainAppend
        <4> QED
          BY <4>3 DEF e
      <3> QED
        BY <2>2, <3>2, <3>4
    <2> QED
      BY <1>4, <2>1, <2>2
  <1>9. DecoderInv'
    BY <1>4, <1>5, <1>6, <1>8 DEF DecoderInv, DecoderFollows
  <1>10. PartInv'
    BY <1>1, <1>3, <1>4 DEF IInv, PartInv, partVars
  <1> QED
    BY <1>2, <1>9, <1>10 DEF IInv

(* The decoder's steps leave the encoder alone. *)
LEMMA EncoderRests ==
  ASSUME IInv, UNCHANGED vars, UNCHANGED partVars
  PROVE  EInv' /\ CandidateInv' /\ PartInv'
  <1> USE DEF vars, callVars, outVars, scanVars, tryVars, keepVars, frameVars
  <1>1. EInv'
    BY DEF IInv, EInv, EncoderTypes, TypeOK, InCall, BestNamed, TriedInv, LeastKept,
           InputFrame, input
  <1>2. /\ Encoded' = Encoded /\ Tried' = Tried /\ Kept' = Kept /\ Candidate' = Candidate
        /\ pvec' = pvec /\ input' = input
    BY DEF Encoded, Tried, Kept, Candidate, pvec, input
  <1>3. CandidateInv'
    BY <1>2 DEF IInv, CandidateInv, TryFollows, KeepFollows, BestFollows
  <1>4. PartInv'
    BY DEF IInv, PartInv, partVars
  <1> QED
    BY <1>1, <1>3, <1>4

(* A step that changes nothing. *)
LEMMA StutterInv ==
  ASSUME IInv, UNCHANGED allVars
  PROVE  IInv'
  <1>1. EInv' /\ CandidateInv' /\ PartInv'
    BY EncoderRests DEF allVars
  <1>2. /\ Encoded' = Encoded /\ Decoded' = Decoded /\ CurrentFrame' = CurrentFrame
        /\ CurrentVectors' = CurrentVectors /\ CurrentScaling' = CurrentScaling
        /\ codebook' = codebook /\ source' = source /\ dest' = dest /\ epc' = epc
        /\ UNCHANGED decoderVars /\ UNCHANGED measured
    BY DEF allVars, vars, callVars, outVars, decoderVars, Encoded, Decoded, CurrentFrame,
           CurrentVectors, CurrentScaling
  <1>3. DecoderTypes'
    BY <1>2 DEF IInv, DecoderInv, DecoderTypes, decoderVars
  <1>4. \A c : InVector(c)' <=> InVector(c)
    BY <1>2 DEF InVector, decoderVars
  <1>5. DecoderFollows'
    BY <1>2, <1>4 DEF IInv, DecoderInv, DecoderFollows, decoderVars
  <1> QED
    BY <1>1, <1>3, <1>5 DEF IInv, DecoderInv

LEMMA DecodeStepInv ==
  ASSUME IInv, DecodeStep
  PROVE  IInv'
  <1>1. epc = "call" /\ UNCHANGED <<vars, partVars, measured>>
    BY DEF DecodeStep
  <1>2. DecoderInv'
    BY <1>1, RejectFrameNever, BeginFrameFollows, AccumulatePreviousFollows,
       BeginResidualsFollows, AccumulateResidualFollows
    DEF DecodeStep, IInv, DecoderInv
  <1> QED
    BY <1>1, <1>2, EncoderRests DEF IInv

LEMMA EmitStepInv ==
  ASSUME IInv, EmitStep
  PROVE  IInv'
  BY EmitStepFollows, EncoderRests DEF IInv, EmitStep

LEMMA RestartInv ==
  ASSUME IInv, Finished, CaughtUp, Restart,
         source' \in Seq(InputFrame), Len(source') = Len(source)
  PROVE  EInv' /\ CandidateInv' /\ DecoderInv'
  <1>1. /\ epc = "call" /\ epc' = "call" /\ dest' = << >> /\ Len(dest') = 0
        /\ encoder_state' = ZeroState
    BY DEF Finished, Restart
  <1>2. EInv'
    <2>1. TypeOK'
      BY <1>1, ZeroTypes DEF IInv, EInv, EncoderTypes, TypeOK, Restart, scanVars, tryVars, keepVars,
                             frameVars
    <2>2. EncoderTypes'
      BY <2>1 DEF IInv, EInv, EncoderTypes, InputFrame, Restart, scanVars, tryVars, keepVars, frameVars
    <2>3. InCall' /\ BestNamed' /\ TriedInv'
      <3>1. 0 <= Len(source')
        BY DEF IInv, EInv, EncoderTypes
      <3> QED
        BY <1>1, <3>1 DEF InCall, BestNamed, TriedInv
    <2> QED
      BY <2>2, <2>3 DEF EInv
  <1>3. CandidateInv'
    BY <1>1 DEF CandidateInv, TryFollows, KeepFollows, BestFollows
  <1>4. DecoderInv'
    <2>1. Decoded = Encoded
      BY CaughtUpSame DEF IInv
    <2>2. error_sum = measured /\ measured \in Nat
      BY <2>1 DEF Decoded, Encoded, IInv, DecoderInv, DecoderTypes
    <2>3. AtStart'
      BY <1>1, <2>2 DEF AtStart, Restart, CaughtUp, IInv, DecoderInv, DecoderTypes
    <2> QED
      BY <2>3, StartFollows, PTL
  <1> QED
    BY <1>2, <1>3, <1>4

LEMMA CheckFramesInv ==
  ASSUME IInv, CheckFrames
  PROVE  IInv'
  <1>1. /\ Finished /\ CaughtUp /\ Restart /\ source' = source /\ codebook' = codebook
        /\ part' = "frames" /\ vadpcm_full' = dest /\ decoded_full' = pcm
        /\ Len(dest) = Len(source)
    BY DEF CheckFrames, Restart, Finished
  <1>2. EInv' /\ CandidateInv' /\ DecoderInv'
    BY <1>1, RestartInv DEF IInv, EInv, EncoderTypes
  <1>3. PartInv'
    <2>1. dest \in Seq(Frame) /\ pcm \in Seq(SampleVector) /\ Len(pcm) = 2 * Len(dest) + 0
      BY <1>1 DEF IInv, EInv, EncoderTypes, TypeOK, DecoderInv, DecoderTypes, CaughtUp
    <2>2. \A f \in DOMAIN dest : PredictorIndexOf(dest[f].control) < codebook.predictor_count
      BY DEF IInv, EInv, InCall
    <2>3. Len(dest) \in Nat
      BY <2>1
    <2> QED
      BY <1>1, <2>1, <2>2, <2>3 DEF PartInv
  <1> QED
    BY <1>2, <1>3 DEF IInv

(* The decoded sound is one the encoder takes. *)
LEMMA ReencodeInv ==
  ASSUME IInv, Reencode
  PROVE  IInv'
  <1>1. /\ Finished /\ CaughtUp /\ Restart /\ codebook' = codebook
        /\ part = "frames" /\ part' = "again" /\ source' = AsSource(decoded_full)
        /\ UNCHANGED <<vadpcm_full, decoded_full>>
    BY DEF Reencode, Restart
  <1>2. /\ vadpcm_full \in Seq(Frame) /\ Len(vadpcm_full) = Len(source)
        /\ \A f \in DOMAIN vadpcm_full :
              PredictorIndexOf(vadpcm_full[f].control) < codebook.predictor_count
        /\ decoded_full \in Seq(SampleVector) /\ Len(decoded_full) = 2 * Len(source)
    BY <1>1 DEF IInv, PartInv
  <1>3. source \in Seq(InputFrame) /\ Len(source) \in Nat /\ DOMAIN source = 1 .. Len(source)
        /\ codebook.predictor_count \in 1 .. PredictorLimit
    BY CodebookType DEF IInv, EInv, EncoderTypes
  <1>4. ASSUME NEW f \in 1 .. Len(source)
        PROVE  [samples   |-> [x \in Vectors |-> decoded_full[2 * f - 1 + x]],
                predictor |-> PredictorIndexOf(vadpcm_full[f].control)] \in InputFrame
    <2>1. \A x \in Vectors : decoded_full[2 * f - 1 + x] \in SampleVector
      <3> SUFFICES ASSUME NEW x \in Vectors PROVE decoded_full[2 * f - 1 + x] \in SampleVector
        OBVIOUS
      <3>1. 2 * f - 1 + x \in 1 .. Len(decoded_full)
        BY <1>2, <1>3 DEF Vectors
      <3> QED
        BY <1>2, <3>1
    <2>2. PredictorIndexOf(vadpcm_full[f].control) \in 0 .. codebook.predictor_count - 1
      <3>1. vadpcm_full[f] \in Frame /\ f \in DOMAIN vadpcm_full
        BY <1>2, <1>3
      <3>2. PredictorIndexOf(vadpcm_full[f].control) \in 0 .. PredictorLimit - 1
        BY <3>1, ControlFields DEF Frame
      <3> QED
        BY <1>2, <1>3, <3>1, <3>2, FormatAssumption
    <2> QED
      BY <2>1, <2>2 DEF InputFrame
  <1>5. source' \in Seq(InputFrame) /\ Len(source') = Len(source)
    BY <1>1, <1>3, <1>4 DEF AsSource
  <1>6. EInv' /\ CandidateInv' /\ DecoderInv'
    BY <1>1, <1>5, RestartInv
  <1>7. PartInv'
    <2>1. /\ epc' = "call" /\ Len(dest') = 0 /\ vadpcm_full' = vadpcm_full
          /\ decoded_full' = decoded_full
      BY <1>1 DEF Restart, Finished
    <2>2. DOMAIN vadpcm_full' = DOMAIN vadpcm_full
      BY <2>1
    <2> QED
      BY <1>1, <1>2, <1>5, <2>1, <2>2 DEF PartInv
  <1> QED
    BY <1>6, <1>7 DEF IInv

LEMMA CheckStepInv == IInv /\ [CheckNext]_allVars => IInv'
  <1> SUFFICES ASSUME IInv, [CheckNext]_allVars PROVE IInv'
    OBVIOUS
  <1>1. CASE CheckDone
    BY <1>1, StutterInv DEF CheckDone
  <1> QED
    BY <1>1, StutterInv, EncodeCallInv, EncodeStepInv, DecodeStepInv, EmitStepInv,
       CheckFramesInv, ReencodeInv DEF CheckNext
---------------------------------------------------------------------------------
(* What holds of every sound, however it is divided into calls *)

(* The inductive invariant holds in every state of the test. *)
THEOREM Invariance == CheckSpec => []IInv
  BY CheckInitInv, CheckStepInv, PTL DEF CheckSpec

(* The encoder's variables keep their types: no sample, byte or control byte out of range. *)
THEOREM TypeCorrect == CheckSpec => []TypeOK
  <1>1. IInv => TypeOK
    BY DEF IInv, EInv, EncoderTypes
  <1> QED
    BY <1>1, Invariance, PTL

(***************************************************************************)
(* "state mismatch" is never printed: between calls the encoder carries    *)
(* the last two samples that the decoder has output.                       *)
(***************************************************************************)
THEOREM StatesAgree == CheckSpec => []StateMatch
  <1>1. IInv => StateMatch
    <2> SUFFICES ASSUME IInv, CaughtUp, epc = "call", NEW j \in 0 .. 1
                 PROVE  encoder_state.data[j] = dstate[VectorSampleCount - 2 + j]
      BY DEF StateMatch
    <2>1. Decoded = Encoded
      BY CaughtUpSame DEF IInv
    <2>2. /\ encoder_state.data[0] = dstate[VectorSampleCount - 2]
          /\ encoder_state.data[1] = dstate[VectorSampleCount - 1]
      BY <2>1 DEF Decoded, Encoded
    <2>3. /\ VectorSampleCount - 2 + 0 = VectorSampleCount - 2
          /\ VectorSampleCount - 2 + 1 = VectorSampleCount - 1
      BY FormatAssumption
    <2> QED
      BY <2>2, <2>3
  <1> QED
    BY <1>1, Invariance, PTL

(***************************************************************************)
(* The error a call of vadpcm_encode_data reports is the square error of   *)
(* the audio that decodes from what it wrote.                              *)
(***************************************************************************)
THEOREM ReportedErrorIsReal == CheckSpec => []ErrorIsReal
  <1>1. IInv => ErrorIsReal
    BY CaughtUpSame DEF IInv, ErrorIsReal, Decoded, Encoded
  <1> QED
    BY <1>1, Invariance, PTL

(* vadpcm_decode accepts every frame that vadpcm_encode_data writes. *)
THEOREM NeverInvalid == CheckSpec => []EncodedIsValid
  <1>1. IInv => EncodedIsValid
    BY DEF IInv, DecoderInv, DecoderTypes, EncodedIsValid
  <1> QED
    BY <1>1, Invariance, PTL

(***************************************************************************)
(* Of the scalings tried for a frame the first with the least error is     *)
(* kept, with all that belongs to it, and all of them were dithered alike. *)
(***************************************************************************)
THEOREM BestKept == CheckSpec => []BestIsLeast
  <1>1. ASSUME IInv, epc = "next", shift > min_shift
        PROVE  LET kept == ScalingOf(best.control)
               IN  /\ DOMAIN tried = min_shift .. shift - 1
                   /\ kept \in DOMAIN tried
                   /\ \A n \in DOMAIN tried :
                        /\ tried[n].error >= tried[kept].error
                        /\ n < kept => tried[n].error > tried[kept].error
                        /\ tried[n].rng = rng
                   /\ best_error = tried[kept].error
                   /\ best.data = tried[kept].data
                   /\ state[2] = tried[kept].s0 /\ state[3] = tried[kept].s1
                   /\ PredictorIndexOf(best.control) = input.predictor
    <2>1. TriedInv /\ BestNamed /\ LeastKept
      BY <1>1 DEF IInv, EInv, TriedInv
    <2> QED
      BY <1>1, <2>1 DEF TriedInv, BestNamed, LeastKept
  <1>2. IInv => BestIsLeast
    BY <1>1 DEF BestIsLeast
  <1> QED
    BY <1>2, Invariance, PTL

(***************************************************************************)
(* A residual that is not clipped is less than one quantization step off,  *)
(* for every predictor: with the room of ShiftAssumption, no sum that has  *)
(* wrapped puts it further off.                                            *)
(***************************************************************************)
THEOREM QuantizationBounded == CheckSpec => QuantizationBound
  <1> DEFINE Bounded ==
        epc = "try" /\ i < VectorSampleCount =>
          LET r    == accumulator'[i]
              miss == input.samples[vector][i] - s1'
          IN  -NibbleHalf < r /\ r < NibbleHalf - 1 =>
                -(2 ^ shift) < miss /\ miss < 2 ^ shift
  <1>1. IInv /\ [CheckNext]_allVars => [Bounded]_vars
    <2> SUFFICES ASSUME IInv, CheckNext, epc = "try", i < VectorSampleCount, ~UNCHANGED vars
                 PROVE  Bounded
      BY DEF allVars
    <2>1. Step
      BY DEF CheckNext, EncodeCall, EncodeStep, DecodeStep, EmitStep, CheckFrames, Reencode,
             CheckDone, CaughtUp, Finished, BeginCall
    <2>2. QuantizeSample
      <3>1. i # VectorSampleCount
        BY FormatAssumption DEF IInv, EInv, EncoderTypes, TypeOK
      <3> QED
        BY <2>1, <3>1 DEF Step, BeginFrame, ScanSample, ScanSecondVector, ChooseShifts, NextShift,
                PackFirstVector, PackSecondVector, KeepBest, DropCandidate, FinishFrame, EndCall
    <2>3. PICK r \in Residuals :
            /\ accumulator'[i] = r
            /\ -NibbleHalf < r /\ r < NibbleHalf - 1 =>
                 LET miss == input.samples[vector][i] - s1'
                 IN  -(2 ^ shift) < miss /\ miss < 2 ^ shift
      BY <2>2, QuantizeStep DEF IInv
    <2> QED
      BY <2>3
  <1> QED
    BY <1>1, Invariance, PTL DEF CheckSpec, QuantizationBound

---------------------------------------------------------------------------------
(* Two encodings of one sound *)

(***************************************************************************)
(* What the bytes still to come depend on: the variables of the encoder    *)
(* that are read before they are written.  Where a call ends is not among  *)
(* them, nor what an earlier frame left in a local.                        *)
(***************************************************************************)
Chosen ==
    [bytes |-> best, error |-> best_error, p0 |-> state[2], p1 |-> state[3]]

Base ==
    [p0 |-> state[0], p1 |-> state[1], rng |-> init_rng, lo |-> min_shift, hi |-> max_shift,
     shift |-> shift, chosen |-> IF shift > min_shift THEN Chosen ELSE << >>]

LiveCall  == [at |-> "frame", dest |-> dest, p0 |-> encoder_state.data[0],
              p1 |-> encoder_state.data[1], rng |-> encoder_state.rng]
LiveFrame == [at |-> "frame", dest |-> dest, p0 |-> state[0], p1 |-> state[1], rng |-> rng]
LiveScan  == [at |-> "scan", dest |-> dest, p0 |-> state[0], p1 |-> state[1], p2 |-> state[2],
              p3 |-> state[3], rng |-> rng, vector |-> vector, i |-> i, sums |-> accumulator,
              lo |-> min, hi |-> max]
LiveNext  == [at |-> "next", dest |-> dest, base |-> Base, rng |-> rng]
LiveTry   == [at |-> "try", dest |-> dest, base |-> Base, rng |-> rng, vector |-> vector,
              i |-> i, sums |-> accumulator, s0 |-> s0, s1 |-> s1, error |-> error,
              first |-> IF vector = 1 THEN fout[0] ELSE << >>]
LiveKeep  == [at |-> "keep", dest |-> dest, base |-> Base, rng |-> rng, s0 |-> s0, s1 |-> s1,
              error |-> error, data |-> fout]

Live ==
    IF epc = "call" THEN LiveCall
    ELSE IF epc = "frame" THEN LiveFrame
    ELSE IF epc = "scan" THEN LiveScan
    ELSE IF epc = "next" THEN LiveNext
    ELSE IF epc = "try" THEN LiveTry
    ELSE LiveKeep

(* How the steps of the encoder change it: a function, of the codebook and the sound. *)

ScanSums(in, pv, n, a0, a1) ==
    [j \in Lanes |->
       Int32(in.samples[n][j] * FixedOne - a0 * pv[0][j] - a1 * pv[1][j])]

Predicted(pv, a0, a1) == [j \in Lanes |-> Int32(a0 * pv[0][j] + a1 * pv[1][j])]

ToScan(in, pv, x) ==
    [at |-> "scan", dest |-> x.dest, p0 |-> x.p0, p1 |-> x.p1,
     p2 |-> in.samples[0][VectorSampleCount - 2], p3 |-> in.samples[0][VectorSampleCount - 1],
     rng |-> x.rng, vector |-> 0, i |-> 0, sums |-> ScanSums(in, pv, 0, x.p0, x.p1),
     lo |-> 0, hi |-> 0]

ToNextScanned(pv, x) ==
    LET s == Whole(x.sums[x.i])
    IN  [at |-> "scan", dest |-> x.dest, p0 |-> x.p0, p1 |-> x.p1, p2 |-> x.p2, p3 |-> x.p3,
         rng |-> x.rng, vector |-> x.vector, i |-> x.i + 1,
         sums |-> [j \in Lanes |-> IF j > x.i THEN Int32(x.sums[j] - s * pv[1][j - x.i - 1])
                                              ELSE x.sums[j]],
         lo |-> IF s < x.lo THEN s ELSE x.lo, hi |-> IF s > x.hi THEN s ELSE x.hi]

ToSecondScan(in, pv, x) ==
    [at |-> "scan", dest |-> x.dest, p0 |-> x.p0, p1 |-> x.p1, p2 |-> x.p2, p3 |-> x.p3,
     rng |-> x.rng, vector |-> 1, i |-> 0, sums |-> ScanSums(in, pv, 1, x.p2, x.p3),
     lo |-> x.lo, hi |-> x.hi]

ShiftFor(lo, hi) == CHOOSE n \in 0 .. MaxShift : IsShift(n, lo, hi)

ToCandidates(x) ==
    LET n  == ShiftFor(x.lo, x.hi)
        lo == IF n > 0 THEN n - 1 ELSE 0
        hi == IF n < MaxShift THEN n + 1 ELSE MaxShift
    IN  [at |-> "next", dest |-> x.dest, rng |-> x.rng,
         base |-> [p0 |-> x.p0, p1 |-> x.p1, rng |-> x.rng, lo |-> lo, hi |-> hi, shift |-> lo,
                   chosen |-> << >>]]

ToTry(pv, x) ==
    [at |-> "try", dest |-> x.dest, base |-> x.base, rng |-> x.base.rng, vector |-> 0, i |-> 0,
     sums |-> Predicted(pv, x.base.p0, x.base.p1), s0 |-> x.base.p0, s1 |-> x.base.p1,
     error |-> 0, first |-> << >>]

ToNextQuantized(in, pv, x) ==
    LET s        == in.samples[x.vector][x.i]
        a        == Whole(x.sums[x.i])
        exact    == (s - a + Bias(x.rng, x.base.shift)) \div 2 ^ x.base.shift
        r        == Clamp(exact, -NibbleHalf, NibbleHalf - 1)
        residual == r * 2 ^ x.base.shift
        sout     == Clamp16(residual + a)
    IN  [at |-> "try", dest |-> x.dest, base |-> x.base, rng |-> Rng(x.rng), vector |-> x.vector,
         i |-> x.i + 1,
         sums |-> [j \in Lanes |->
                     IF j < x.i THEN x.sums[j]
                     ELSE IF j = x.i THEN r
                     ELSE Int32(x.sums[j] + residual * pv[1][j - x.i - 1])],
         s0 |-> x.s1, s1 |-> sout, error |-> x.error + (s - sout) * (s - sout),
         first |-> x.first]

ToSecondTry(pv, x) ==
    [at |-> "try", dest |-> x.dest, base |-> x.base, rng |-> x.rng, vector |-> 1, i |-> 0,
     sums |-> Predicted(pv, x.s0, x.s1), s0 |-> x.s0, s1 |-> x.s1, error |-> x.error,
     first |-> Pack(x.sums)]

ToKeep(x) ==
    [at |-> "keep", dest |-> x.dest, base |-> x.base, rng |-> x.rng, s0 |-> x.s0, s1 |-> x.s1,
     error |-> x.error, data |-> [n \in Vectors |-> IF n = 0 THEN x.first ELSE Pack(x.sums)]]

ToNext(in, x) ==
    LET b == x.base
    IN  [at |-> "next", dest |-> x.dest, rng |-> x.rng,
         base |-> [p0 |-> b.p0, p1 |-> b.p1, rng |-> b.rng, lo |-> b.lo, hi |-> b.hi,
                   shift |-> b.shift + 1,
                   chosen |->
                     IF b.shift = b.lo \/ x.error < b.chosen.error
                     THEN [bytes |-> [control |-> Control(b.shift, in.predictor), data |-> x.data],
                           error |-> x.error, p0 |-> x.s0, p1 |-> x.s1]
                     ELSE b.chosen]]

ToFrame(x) ==
    LET c == x.base.chosen
    IN  [at |-> "frame", dest |-> Append(x.dest, c.bytes), p0 |-> c.p0, p1 |-> c.p1,
         rng |-> x.rng]

Forward(cb, snd, x) ==
    LET in == snd[Len(x.dest) + 1]
        pv == cb.vector[in.predictor]
    IN  IF x.at = "frame" THEN ToScan(in, pv, x)
        ELSE IF x.at = "scan" THEN
          IF x.i < VectorSampleCount THEN ToNextScanned(pv, x)
          ELSE IF x.vector = 0 THEN ToSecondScan(in, pv, x) ELSE ToCandidates(x)
        ELSE IF x.at = "next" THEN
          IF x.base.shift <= x.base.hi THEN ToTry(pv, x) ELSE ToFrame(x)
        ELSE IF x.at = "try" THEN
          IF x.i < VectorSampleCount THEN ToNextQuantized(in, pv, x)
          ELSE IF x.vector = 0 THEN ToSecondTry(pv, x) ELSE ToKeep(x)
        ELSE ToNext(in, x)

LEMMA ShiftIsOne ==
  ASSUME NEW lo, NEW hi, NEW n \in 0 .. MaxShift, IsShift(n, lo, hi)
  PROVE  ShiftFor(lo, hi) = n
  <1>1. ASSUME NEW m \in 0 .. MaxShift, IsShift(m, lo, hi), NEW p \in 0 .. MaxShift,
               IsShift(p, lo, hi), m < p
        PROVE  FALSE
    <2>1. m \in 0 .. p - 1 /\ m # MaxShift
      BY <1>1, FormatAssumption
    <2> QED
      BY <1>1, <2>1 DEF IsShift
  <1>2. ASSUME NEW m \in 0 .. MaxShift, IsShift(m, lo, hi) PROVE m = n
    <2>1. m < n \/ n < m \/ m = n
      BY FormatAssumption
    <2> QED
      BY <1>1, <1>2, <2>1
  <1> QED
    BY <1>2 DEF ShiftFor

(* The step of the machine from where the encoder is. *)
LEMMA ForwardIs ==
  LET f == Forward(codebook, source, Live)
  IN  /\ epc \in {"call", "frame"} => f = ToScan(input, pvec, Live)
      /\ epc = "scan" /\ i < VectorSampleCount => f = ToNextScanned(pvec, LiveScan)
      /\ epc = "scan" /\ ~(i < VectorSampleCount) /\ vector = 0
           => f = ToSecondScan(input, pvec, LiveScan)
      /\ epc = "scan" /\ ~(i < VectorSampleCount) /\ vector = 1 => f = ToCandidates(LiveScan)
      /\ epc = "next" /\ shift <= max_shift => f = ToTry(pvec, LiveNext)
      /\ epc = "next" /\ ~(shift <= max_shift) => f = ToFrame(LiveNext)
      /\ epc = "try" /\ i < VectorSampleCount => f = ToNextQuantized(input, pvec, LiveTry)
      /\ epc = "try" /\ ~(i < VectorSampleCount) /\ vector = 0 => f = ToSecondTry(pvec, LiveTry)
      /\ epc = "try" /\ ~(i < VectorSampleCount) /\ vector = 1 => f = ToKeep(LiveTry)
      /\ epc = "keep" => f = ToNext(input, LiveKeep)
  <1>1. Live.dest = dest
    BY DEF Live, LiveCall, LiveFrame, LiveScan, LiveNext, LiveTry, LiveKeep
  <1>2. source[Len(Live.dest) + 1] = input /\ codebook.vector[input.predictor] = pvec
    BY <1>1 DEF input, pvec
  <1>3. epc \in {"call", "frame"} => Live.at = "frame"
    BY DEF Live, LiveCall, LiveFrame
  <1>4. epc = "scan" => Live = LiveScan /\ Live.at = "scan" /\ Live.i = i /\ Live.vector = vector
    BY DEF Live, LiveScan
  <1>5. epc = "next" => /\ Live = LiveNext /\ Live.at = "next"
                        /\ Live.base.shift = shift /\ Live.base.hi = max_shift
    BY DEF Live, LiveNext, Base
  <1>6. epc = "try" => Live = LiveTry /\ Live.at = "try" /\ Live.i = i /\ Live.vector = vector
    BY DEF Live, LiveTry
  <1>7. epc = "keep" => Live = LiveKeep /\ Live.at = "keep"
    BY DEF Live, LiveKeep
  <1> DEFINE L == Live
  <1> HIDE DEF L
  <1>8. L = Live
    BY DEF L
  <1> QED
    BY <1>2, <1>3, <1>4, <1>5, <1>6, <1>7, <1>8 DEF Forward

---------------------------------------------------------------------------------
(* The encoder takes the steps of the machine. *)

LEMMA BeginCallLive ==
  ASSUME EInv, NEW n, BeginCall(n) PROVE Live' = Live
  <1>1. /\ epc = "call" /\ epc' = "frame" /\ dest' = dest /\ rng' = encoder_state.rng
        /\ state'[0] = encoder_state.data[0] /\ state'[1] = encoder_state.data[1]
    BY DEF BeginCall, EInv, EncoderTypes, TypeOK
  <1> QED
    BY <1>1 DEF Live, LiveCall, LiveFrame

LEMMA EndCallLive ==
  ASSUME EndCall PROVE Live' = Live
  <1>1. /\ epc = "frame" /\ epc' = "call" /\ dest' = dest
        /\ encoder_state'.rng = rng
        /\ encoder_state'.data[0] = state[0] /\ encoder_state'.data[1] = state[1]
    BY DEF EndCall, SavedState, outVars
  <1> QED
    BY <1>1 DEF Live, LiveCall, LiveFrame

LEMMA BeginFrameLive ==
  ASSUME EInv, BeginFrame PROVE Live' = Forward(codebook, source, Live)
  <1>1. /\ epc = "frame" /\ epc' = "scan" /\ dest' = dest /\ rng' = rng
        /\ vector' = 0 /\ i' = 0 /\ min' = 0 /\ max' = 0
        /\ accumulator' = ScanStart(0, state[0], state[1])
        /\ state'[0] = state[0] /\ state'[1] = state[1]
        /\ state'[2] = input.samples[0][VectorSampleCount - 2]
        /\ state'[3] = input.samples[0][VectorSampleCount - 1]
    <2>1. state \in [0 .. 3 -> Samples]
      BY DEF EInv, EncoderTypes, TypeOK
    <2> QED
      BY <2>1 DEF BeginFrame, outVars
  <1>2. Live = LiveFrame /\ Live' = LiveScan'
    BY <1>1 DEF Live
  <1>3. ScanSums(input, pvec, 0, state[0], state[1]) = ScanStart(0, state[0], state[1])
    BY DEF ScanSums, ScanStart
  <1>4. LiveScan' = ToScan(input, pvec, LiveFrame)
    BY <1>1, <1>3 DEF LiveScan, LiveFrame, ToScan
  <1> QED
    BY <1>1, <1>2, <1>4, ForwardIs

LEMMA ScanSampleLive ==
  ASSUME ScanSample PROVE Live' = Forward(codebook, source, Live)
  <1> USE DEF ScanSample, callVars, outVars
  <1>1. Live' = LiveScan'
    BY DEF Live
  <1>2. LiveScan' = ToNextScanned(pvec, LiveScan)
    BY DEF LiveScan, ToNextScanned
  <1> QED
    BY <1>1, <1>2, ForwardIs

LEMMA ScanSecondVectorLive ==
  ASSUME EInv, ScanSecondVector PROVE Live' = Forward(codebook, source, Live)
  <1> USE DEF ScanSecondVector, callVars, outVars, scanVars
  <1>1. Live' = LiveScan' /\ ~(i < VectorSampleCount)
    BY FormatAssumption DEF Live
  <1>2. ScanSums(input, pvec, 1, state[2], state[3]) = ScanStart(1, state[2], state[3])
    BY DEF ScanSums, ScanStart
  <1>3. LiveScan' = ToSecondScan(input, pvec, LiveScan)
    BY <1>2 DEF LiveScan, ToSecondScan
  <1> QED
    BY <1>1, <1>3, ForwardIs

LEMMA ChooseShiftsLive ==
  ASSUME EInv, ChooseShifts PROVE Live' = Forward(codebook, source, Live)
  <1> USE DEF ChooseShifts, callVars, outVars
  <1>1. Live' = LiveNext' /\ ~(i < VectorSampleCount)
    BY FormatAssumption DEF Live
  <1>2. PICK n \in 0 .. MaxShift :
          /\ IsShift(n, min, max)
          /\ min_shift' = IF n > 0 THEN n - 1 ELSE 0
          /\ max_shift' = IF n < MaxShift THEN n + 1 ELSE MaxShift
    OBVIOUS
  <1>3. ShiftFor(min, max) = n
    BY <1>2, ShiftIsOne
  <1>4. ~(shift' > min_shift')
    BY <1>2, FormatAssumption
  <1>5. LiveNext' = ToCandidates(LiveScan)
    BY <1>2, <1>3, <1>4 DEF LiveScan, LiveNext, Base, ToCandidates
  <1> QED
    BY <1>1, <1>5, ForwardIs

LEMMA NextShiftLive ==
  ASSUME NextShift PROVE Live' = Forward(codebook, source, Live)
  <1> USE DEF NextShift, ResetCandidate, callVars, outVars, keepVars, frameVars
  <1>1. Live' = LiveTry'
    BY DEF Live
  <1>2. Predicted(pvec, state[0], state[1]) = Predict(state[0], state[1]) /\ Base' = Base
    BY DEF Predicted, Predict, Base, Chosen
  <1>3. LiveTry' = ToTry(pvec, LiveNext)
    BY <1>2 DEF LiveTry, LiveNext, ToTry, Base
  <1> QED
    BY <1>1, <1>3, ForwardIs

LEMMA QuantizeSampleLive ==
  ASSUME QuantizeSample PROVE Live' = Forward(codebook, source, Live)
  <1> USE DEF QuantizeSample, callVars, outVars, keepVars, frameVars
  <1>1. Live' = LiveTry'
    BY DEF Live
  <1>2. Base' = Base /\ Base.shift = shift
    BY DEF Base, Chosen
  <1>3. LiveTry' = ToNextQuantized(input, pvec, LiveTry)
    BY <1>2 DEF LiveTry, ToNextQuantized
  <1> QED
    BY <1>1, <1>3, ForwardIs

LEMMA PackFirstVectorLive ==
  ASSUME EInv, PackFirstVector PROVE Live' = Forward(codebook, source, Live)
  <1> USE DEF PackFirstVector, callVars, outVars, keepVars, frameVars
  <1>1. Live' = LiveTry' /\ ~(i < VectorSampleCount)
    BY FormatAssumption DEF Live
  <1>2. Predicted(pvec, s0, s1) = Predict(s0, s1) /\ Base' = Base
    BY DEF Predicted, Predict, Base, Chosen
  <1>3. fout'[0] = Pack(accumulator)
    BY DEF EInv, EncoderTypes, TypeOK, Vectors
  <1>4. LiveTry' = ToSecondTry(pvec, LiveTry)
    BY <1>2, <1>3 DEF LiveTry, ToSecondTry
  <1> QED
    BY <1>1, <1>4, ForwardIs

LEMMA SecondOfTwo ==
  ASSUME NEW f \in [Vectors -> PackedVector], NEW x
  PROVE  [f EXCEPT ![1] = x] = [n \in Vectors |-> IF n = 0 THEN f[0] ELSE x]
  <1> DEFINE g == [f EXCEPT ![1] = x]
  <1>1. \A n \in Vectors : n = 0 \/ n = 1
    BY DEF Vectors
  <1>2. g = [n \in Vectors |-> IF n = 1 THEN x ELSE f[n]]
    OBVIOUS
  <1> QED
    BY <1>1, <1>2

LEMMA PackSecondVectorLive ==
  ASSUME EInv, PackSecondVector PROVE Live' = Forward(codebook, source, Live)
  <1> USE DEF PackSecondVector, callVars, outVars, keepVars, frameVars
  <1>1. Live' = LiveKeep' /\ ~(i < VectorSampleCount)
    BY FormatAssumption DEF Live
  <1>2. Base' = Base
    BY DEF Base, Chosen
  <1>3. fout' = [n \in Vectors |-> IF n = 0 THEN fout[0] ELSE Pack(accumulator)]
    <2>1. fout \in [Vectors -> PackedVector] /\ fout' = [fout EXCEPT ![1] = Pack(accumulator)]
      BY DEF EInv, EncoderTypes, TypeOK
    <2> HIDE DEF PackSecondVector
    <2> QED
      BY <2>1, SecondOfTwo
  <1>4. LiveKeep' = ToKeep(LiveTry)
    BY <1>2, <1>3 DEF LiveTry, LiveKeep, ToKeep
  <1> QED
    BY <1>1, <1>4, ForwardIs

LEMMA KeepBestLive ==
  ASSUME EInv, KeepBest PROVE Live' = Forward(codebook, source, Live)
  <1> USE DEF KeepBest, callVars, outVars, frameVars
  <1>1. Live' = LiveNext'
    BY DEF Live
  <1>2. /\ state'[0] = state[0] /\ state'[1] = state[1] /\ state'[2] = s0 /\ state'[3] = s1
        /\ shift \in Int /\ min_shift \in Int /\ min_shift <= shift
    BY DEF EInv, InCall, EncoderTypes, TypeOK
  <1>3. shift' > min_shift'
    BY <1>2
  <1>4. shift = Base.lo \/ error < Base.chosen.error
    BY <1>2 DEF Better, Base, Chosen
  <1>5. LiveNext' = ToNext(input, LiveKeep)
    BY <1>2, <1>3, <1>4 DEF LiveKeep, LiveNext, Base, Chosen, ToNext
  <1> QED
    BY <1>1, <1>5, ForwardIs

LEMMA DropCandidateLive ==
  ASSUME EInv, DropCandidate PROVE Live' = Forward(codebook, source, Live)
  <1> USE DEF DropCandidate, callVars, outVars, keepVars, frameVars
  <1>1. Live' = LiveNext'
    BY DEF Live
  <1>2. /\ shift \in Int /\ min_shift \in Int /\ min_shift <= shift /\ shift # min_shift
    BY DEF EInv, InCall, EncoderTypes, TypeOK, Better
  <1>3. shift > min_shift /\ shift' > min_shift'
    BY <1>2
  <1>4. ~(shift = Base.lo \/ error < Base.chosen.error)
    BY <1>2, <1>3 DEF Better, Base, Chosen
  <1>5. LiveNext' = ToNext(input, LiveKeep)
    BY <1>2, <1>3, <1>4 DEF LiveKeep, LiveNext, Base, Chosen, ToNext
  <1> QED
    BY <1>1, <1>5, ForwardIs

LEMMA FinishFrameLive ==
  ASSUME EInv, FinishFrame PROVE Live' = Forward(codebook, source, Live)
  <1> USE DEF FinishFrame
  <1>1. Live' = LiveFrame'
    BY DEF Live
  <1>2. state'[0] = state[2] /\ state'[1] = state[3] /\ dest' = Append(dest, best) /\ rng' = rng
    BY DEF EInv, EncoderTypes, TypeOK
  <1>3. ~(shift <= max_shift) /\ shift > min_shift
    BY DEF EInv, InCall, EncoderTypes, TypeOK
  <1>4. Base.chosen = Chosen
    BY <1>3 DEF Base
  <1>5. LiveFrame' = ToFrame(LiveNext)
    BY <1>2, <1>4 DEF LiveFrame, LiveNext, ToFrame, Chosen
  <1> QED
    BY <1>1, <1>3, <1>5, ForwardIs

LEMMA StepForward ==
  ASSUME EInv, Step PROVE Live' = Live \/ Live' = Forward(codebook, source, Live)
  BY BeginFrameLive, ScanSampleLive, ScanSecondVectorLive, ChooseShiftsLive, NextShiftLive,
     QuantizeSampleLive, PackFirstVectorLive, PackSecondVectorLive, KeepBestLive,
     DropCandidateLive, FinishFrameLive, EndCallLive DEF Step

---------------------------------------------------------------------------------
(* Two runs of the machine from the same start are one, as far as both go. *)

StartsWith(s, r) == Len(r) <= Len(s) /\ \A m \in 1 .. Len(r) : s[m] = r[m]

Beginning == [at |-> "frame", dest |-> << >>, p0 |-> 0, p1 |-> 0, rng |-> 0]

Trace(cb, snd, n, h) ==
    /\ h[0] = Beginning
    /\ \A m \in 0 .. n : h[m].dest \in Seq(Frame)
    /\ \A m \in 0 .. n - 1 :
         h[m + 1] = Forward(cb, snd, h[m]) /\ StartsWith(h[m + 1].dest, h[m].dest)

Reached(cb, snd, x) == \E n \in Nat : \E h : Trace(cb, snd, n, h) /\ h[n] = x

LEMMA ReachedFirst ==
  ASSUME NEW cb, NEW snd PROVE Reached(cb, snd, Beginning)
  <1> DEFINE h == [m \in 0 .. 0 |-> Beginning]
  <1>1. /\ h[0] = Beginning /\ \A m \in 0 .. 0 : h[m] = Beginning
        /\ Beginning.dest \in Seq(Frame)
    BY DEF Beginning
  <1> HIDE DEF h
  <1>2. Trace(cb, snd, 0, h)
    BY <1>1 DEF Trace
  <1> QED
    BY <1>1, <1>2 DEF Reached

LEMMA ReachedNext ==
  ASSUME NEW cb, NEW snd, NEW x, NEW y, Reached(cb, snd, x), y = Forward(cb, snd, x),
         y.dest \in Seq(Frame), StartsWith(y.dest, x.dest)
  PROVE  Reached(cb, snd, y)
  <1>0. PICK n \in Nat : \E h : Trace(cb, snd, n, h) /\ h[n] = x
    BY DEF Reached
  <1>1. PICK h : Trace(cb, snd, n, h) /\ h[n] = x
    BY <1>0
  <1> DEFINE h2 == [m \in 0 .. n + 1 |-> IF m = n + 1 THEN y ELSE h[m]]
  <1>2. /\ h2[n + 1] = y /\ h2[0] = h[0] /\ n + 1 \in Nat
        /\ \A m \in 0 .. n : h2[m] = h[m]
    OBVIOUS
  <1> HIDE DEF h2
  <1>3. \A m \in 0 .. n + 1 : h2[m].dest \in Seq(Frame)
    <2> SUFFICES ASSUME NEW m \in 0 .. n + 1 PROVE h2[m].dest \in Seq(Frame)
      OBVIOUS
    <2>1. m = n + 1 \/ m \in 0 .. n
      OBVIOUS
    <2> QED
      BY <1>1, <1>2, <2>1 DEF Trace
  <1>4. ASSUME NEW m \in 0 .. (n + 1) - 1
        PROVE  h2[m + 1] = Forward(cb, snd, h2[m]) /\ StartsWith(h2[m + 1].dest, h2[m].dest)
    <2>1. CASE m = n
      BY <1>1, <1>2, <2>1
    <2>2. CASE m # n
      <3>1. m \in 0 .. n - 1 /\ m \in 0 .. n /\ m + 1 \in 0 .. n
        BY <2>2
      <3> QED
        BY <1>1, <1>2, <3>1 DEF Trace
    <2> QED
      BY <2>1, <2>2
  <1>5. Trace(cb, snd, n + 1, h2)
    BY <1>1, <1>2, <1>3, <1>4 DEF Trace
  <1> QED
    BY <1>2, <1>5 DEF Reached

(* Along a run the bytes only grow. *)
LEMMA TraceGrows ==
  ASSUME NEW cb, NEW snd, NEW n \in Nat, NEW h, Trace(cb, snd, n, h), NEW p \in 0 .. n
  PROVE  StartsWith(h[n].dest, h[p].dest)
  <1> DEFINE P == {x \in Nat : p + x <= n => StartsWith(h[p + x].dest, h[p].dest)}
  <1>1. \A m \in 0 .. n : Len(h[m].dest) \in Nat
    BY DEF Trace
  <1>2. 0 \in P
    BY <1>1 DEF StartsWith
  <1>3. ASSUME NEW x \in Nat, x \in P PROVE x + 1 \in P
    <2> SUFFICES ASSUME p + (x + 1) <= n PROVE StartsWith(h[p + (x + 1)].dest, h[p].dest)
      OBVIOUS
    <2>1. p + x \in 0 .. n /\ p + x \in 0 .. n - 1 /\ p + (x + 1) = (p + x) + 1
          /\ (p + x) + 1 \in 0 .. n
      OBVIOUS
    <2>2. StartsWith(h[p + x].dest, h[p].dest)
      BY <1>3, <2>1
    <2>3. StartsWith(h[(p + x) + 1].dest, h[p + x].dest)
      BY <2>1 DEF Trace
    <2> DEFINE r0 == h[p].dest
               r1 == h[p + x].dest
               r2 == h[(p + x) + 1].dest
    <2>4. Len(r0) \in Nat /\ Len(r1) \in Nat /\ Len(r2) \in Nat
      BY <1>1, <2>1
    <2>5. StartsWith(r1, r0) /\ StartsWith(r2, r1)
      BY <2>2, <2>3
    <2> HIDE DEF r0, r1, r2
    <2>6. StartsWith(r2, r0)
      BY <2>4, <2>5 DEF StartsWith
    <2> QED
      BY <2>1, <2>6 DEF r0, r2
  <1>4. Nat \subseteq P
    <2> HIDE DEF P
    <2> QED
      BY <1>2, <1>3, NumberInduction, Zenon
  <1>5. n - p \in Nat /\ p + (n - p) = n
    OBVIOUS
  <1>6. n - p \in P
    BY <1>4, <1>5
  <1> QED
    BY <1>5, <1>6

LEMMA SameTrace ==
  ASSUME NEW cb, NEW snd, NEW n \in Nat, NEW m \in Nat, n <= m, NEW h, NEW h2,
         Trace(cb, snd, n, h), Trace(cb, snd, m, h2)
  PROVE  h[n] = h2[n]
  <1> DEFINE P == {x \in Nat : x <= n => h[x] = h2[x]}
  <1>1. 0 \in P
    BY DEF Trace
  <1>2. ASSUME NEW x \in Nat, x \in P PROVE x + 1 \in P
    <2> SUFFICES ASSUME x + 1 <= n PROVE h[x + 1] = h2[x + 1]
      OBVIOUS
    <2>1. x \in 0 .. n - 1 /\ x \in 0 .. m - 1 /\ h[x] = h2[x]
      BY <1>2
    <2>2. h[x + 1] = Forward(cb, snd, h[x]) /\ h2[x + 1] = Forward(cb, snd, h2[x])
      BY <2>1 DEF Trace
    <2> QED
      BY <2>1, <2>2
  <1>3. Nat \subseteq P
    <2> HIDE DEF P
    <2> QED
      BY <1>1, <1>2, NumberInduction, Zenon
  <1> QED
    BY <1>3

LEMMA BytesAgree ==
  ASSUME NEW cb, NEW snd, NEW x, NEW y, Reached(cb, snd, x), Reached(cb, snd, y),
         Len(x.dest) <= Len(y.dest)
  PROVE  StartsWith(y.dest, x.dest)
  <1>0. PICK n \in Nat : \E h : Trace(cb, snd, n, h) /\ h[n] = x
    BY DEF Reached
  <1>1. PICK h : Trace(cb, snd, n, h) /\ h[n] = x
    BY <1>0
  <1>5. PICK m \in Nat : \E h2 : Trace(cb, snd, m, h2) /\ h2[m] = y
    BY DEF Reached
  <1>2. PICK h2 : Trace(cb, snd, m, h2) /\ h2[m] = y
    BY <1>5
  <1>3. CASE n <= m
    <2>1. h2[n] = x
      BY <1>1, <1>2, <1>3, SameTrace
    <2>2. StartsWith(h2[m].dest, h2[n].dest)
      BY <1>2, <1>3, TraceGrows, n \in 0 .. m
    <2> QED
      BY <1>2, <2>1, <2>2
  <1>4. CASE ~(n <= m)
    <2>1. h[m] = y
      BY <1>1, <1>2, <1>4, SameTrace, m <= n
    <2>2. StartsWith(h[n].dest, h[m].dest)
      BY <1>1, <1>4, TraceGrows, m \in 0 .. n
    <2>3. StartsWith(x.dest, y.dest)
      BY <1>1, <2>1, <2>2
    <2>4. Len(x.dest) \in Nat /\ Len(y.dest) \in Nat
      <3>1. n \in 0 .. n /\ m \in 0 .. m
        OBVIOUS
      <3>2. x.dest \in Seq(Frame) /\ y.dest \in Seq(Frame)
        BY <1>1, <1>2, <3>1 DEF Trace
      <3> QED
        BY <3>2
    <2>5. Len(x.dest) = Len(y.dest)
      BY <2>3, <2>4 DEF StartsWith
    <2> QED
      BY <2>3, <2>4, <2>5 DEF StartsWith
  <1> QED
    BY <1>3, <1>4

---------------------------------------------------------------------------------
(* What is decoded depends on the bytes only. *)

(* After the samples q0 and q1, vector n of the frame decodes as out. *)
VectorIs(cb, frame, n, q0, q1, out) ==
    LET pv == cb.vector[PredictorIndexOf(frame.control)]
    IN  \E b, t, g, sound :
          /\ b.s0 = q0 /\ b.s1 = q1
          /\ Run(t, g, VectorSampleCount, pv, b, ResidualsOf(frame.data[n]),
                 ScalingOf(frame.control), sound)
          /\ out = [j \in Lanes |-> Emitted(t[VectorSampleCount][j])]

Before(out, p, n) == IF p = 1 THEN 0 ELSE out[p - 1][n]

DecodedFrom(cb, frames, out) ==
    \A p \in 1 .. Len(out) :
        VectorIs(cb, frames[((p - 1) \div 2) + 1], (p - 1) % 2,
                 Before(out, p, VectorSampleCount - 2), Before(out, p, VectorSampleCount - 1),
                 out[p])

LEMMA VectorIsOne ==
  ASSUME NEW cb, NEW frame, NEW n, NEW q0, NEW q1, NEW out, NEW out2,
         VectorIs(cb, frame, n, q0, q1, out), VectorIs(cb, frame, n, q0, q1, out2)
  PROVE  out = out2
  <1> DEFINE pv == cb.vector[PredictorIndexOf(frame.control)]
             rs == ResidualsOf(frame.data[n])
             sc == ScalingOf(frame.control)
             N  == VectorSampleCount
  <1>1. PICK b, t, g, sound :
          /\ b.s0 = q0 /\ b.s1 = q1 /\ Run(t, g, N, pv, b, rs, sc, sound)
          /\ out = [j \in Lanes |-> Emitted(t[N][j])]
    BY DEF VectorIs
  <1>2. PICK b2, t2, g2, sound2 :
          /\ b2.s0 = q0 /\ b2.s1 = q1 /\ Run(t2, g2, N, pv, b2, rs, sc, sound2)
          /\ out2 = [j \in Lanes |-> Emitted(t2[N][j])]
    BY DEF VectorIs
  <1>3. N \in Nat
    BY FormatAssumption
  <1> HIDE DEF pv, rs, sc, N
  <1> DEFINE P == {m \in Nat : m <= N => t[m] = t2[m]}
  <1>4. 0 \in P
    BY <1>1, <1>2 DEF Run
  <1>5. ASSUME NEW m \in Nat, m \in P PROVE m + 1 \in P
    <2> SUFFICES ASSUME m + 1 <= N PROVE t[m + 1] = t2[m + 1]
      OBVIOUS
    <2>1. m \in 0 .. N - 1 /\ t[m] = t2[m]
      BY <1>3, <1>5
    <2>2. /\ t[m + 1] = AddResidual(t[m], m, rs[m] * 2 ^ sc, pv[1])
          /\ t2[m + 1] = AddResidual(t2[m], m, rs[m] * 2 ^ sc, pv[1])
      BY <1>1, <1>2, <2>1 DEF Run
    <2> QED
      BY <2>1, <2>2
  <1>6. Nat \subseteq P
    <2> HIDE DEF P
    <2> QED
      BY <1>4, <1>5, NumberInduction, Zenon
  <1>7. t[N] = t2[N]
    BY <1>3, <1>6
  <1> QED
    BY <1>1, <1>2, <1>7

LEMMA DecodedAgree ==
  ASSUME NEW cb, NEW S, NEW frames \in Seq(S), NEW frames2 \in Seq(S), NEW V, NEW out \in Seq(V),
         NEW out2 \in Seq(V), DecodedFrom(cb, frames, out), DecodedFrom(cb, frames2, out2),
         StartsWith(frames2, frames), Len(out) <= 2 * Len(frames), Len(out) <= Len(out2)
  PROVE  StartsWith(out2, out)
  <1> DEFINE P == {m \in Nat : 1 <= m /\ m <= Len(out) => out[m] = out2[m]}
  <1>1. 0 \in P
    OBVIOUS
  <1>2. ASSUME NEW m \in Nat, m \in P PROVE m + 1 \in P
    <2> SUFFICES ASSUME m + 1 <= Len(out) PROVE out[m + 1] = out2[m + 1]
      OBVIOUS
    <2> DEFINE f == (m \div 2) + 1
    <2>1. m + 1 \in 1 .. Len(out) /\ m + 1 \in 1 .. Len(out2) /\ (m + 1) - 1 = m
      OBVIOUS
    <2>2. f \in 1 .. Len(frames)
      OBVIOUS
    <2>3. frames2[f] = frames[f]
      BY <2>2 DEF StartsWith
    <2>4. \A n : Before(out, m + 1, n) = Before(out2, m + 1, n)
      <3>1. CASE m = 0
        BY <3>1 DEF Before
      <3>2. CASE m # 0
        <4>1. out[m] = out2[m] /\ m + 1 # 1
          BY <1>2, <3>2
        <4> QED
          BY <2>1, <4>1 DEF Before
      <3> QED
        BY <3>1, <3>2
    <2> DEFINE q0 == Before(out, m + 1, VectorSampleCount - 2)
               q1 == Before(out, m + 1, VectorSampleCount - 1)
    <2>5. VectorIs(cb, frames[f], m % 2, q0, q1, out[m + 1])
      BY <2>1 DEF DecodedFrom
    <2>6. VectorIs(cb, frames[f], m % 2, q0, q1, out2[m + 1])
      <3>1. VectorIs(cb, frames2[f], m % 2, Before(out2, m + 1, VectorSampleCount - 2),
                     Before(out2, m + 1, VectorSampleCount - 1), out2[m + 1])
        BY <2>1 DEF DecodedFrom
      <3> QED
        BY <2>3, <2>4, <3>1
    <2> HIDE DEF f, q0, q1
    <2> QED
      BY <2>5, <2>6, VectorIsOne
  <1>3. Nat \subseteq P
    <2> HIDE DEF P
    <2> QED
      BY <1>1, <1>2, NumberInduction, Zenon
  <1>4. \A m \in 1 .. Len(out) : m \in Nat /\ 1 <= m /\ m <= Len(out)
    OBVIOUS
  <1>5. \A m \in 1 .. Len(out) : out2[m] = out[m]
    BY <1>3, <1>4
  <1> QED
    BY <1>5 DEF StartsWith

LEMMA DecodedMoreFrames ==
  ASSUME NEW cb, NEW S, NEW frames \in Seq(S), NEW frames2 \in Seq(S), NEW V, NEW out \in Seq(V),
         DecodedFrom(cb, frames, out), StartsWith(frames2, frames), Len(out) <= 2 * Len(frames)
  PROVE  DecodedFrom(cb, frames2, out)
  <1>1. \A p \in 1 .. Len(out) : ((p - 1) \div 2) + 1 \in 1 .. Len(frames)
    OBVIOUS
  <1>2. \A p \in 1 .. Len(out) : frames2[((p - 1) \div 2) + 1] = frames[((p - 1) \div 2) + 1]
    BY <1>1 DEF StartsWith
  <1> QED
    BY <1>2 DEF DecodedFrom

(* The last sample of lane n that was output: 0 before the first. *)
Last(out, n) == IF Len(out) = 0 THEN 0 ELSE out[Len(out)][n]

LEMMA DecodedMore ==
  ASSUME NEW cb, NEW frames, NEW V, NEW out \in Seq(V), NEW x \in V,
         DecodedFrom(cb, frames, out),
         VectorIs(cb, frames[(Len(out) \div 2) + 1], Len(out) % 2,
                  Last(out, VectorSampleCount - 2), Last(out, VectorSampleCount - 1), x)
  PROVE  DecodedFrom(cb, frames, Append(out, x))
  <1> DEFINE out2 == Append(out, x)
             L    == Len(out)
  <1>1. L \in Nat /\ Len(out2) = L + 1 /\ out2[L + 1] = x /\ \A p \in 1 .. L : out2[p] = out[p]
    OBVIOUS
  <1> HIDE DEF out2
  <1>2. ASSUME NEW p \in 1 .. L
        PROVE  \A n : Before(out2, p, n) = Before(out, p, n)
    <2>1. CASE p = 1
      BY <2>1 DEF Before
    <2>2. CASE p # 1
      <3>1. p - 1 \in 1 .. L
        BY <2>2
      <3> QED
        BY <1>1, <2>2, <3>1 DEF Before
    <2> QED
      BY <2>1, <2>2
  <1>3. \A n : Before(out2, L + 1, n) = Last(out, n)
    <2>1. CASE L = 0
      BY <2>1 DEF Before, Last
    <2>2. CASE L # 0
      <3>1. L \in 1 .. L /\ L + 1 # 1 /\ (L + 1) - 1 = L
        BY <1>1, <2>2
      <3> QED
        BY <1>1, <2>2, <3>1 DEF Before, Last
    <2> QED
      BY <2>1, <2>2
  <1> SUFFICES ASSUME NEW p \in 1 .. L + 1
               PROVE  VectorIs(cb, frames[((p - 1) \div 2) + 1], (p - 1) % 2,
                               Before(out2, p, VectorSampleCount - 2),
                               Before(out2, p, VectorSampleCount - 1), out2[p])
    BY <1>1 DEF DecodedFrom, out2
  <1>4. CASE p = L + 1
    <2>1. (p - 1) = L
      BY <1>1, <1>4
    <2> QED
      BY <1>1, <1>3, <1>4, <2>1
  <1>5. CASE p # L + 1
    <2>1. p \in 1 .. L
      BY <1>1, <1>5
    <2>2. VectorIs(cb, frames[((p - 1) \div 2) + 1], (p - 1) % 2,
                   Before(out, p, VectorSampleCount - 2), Before(out, p, VectorSampleCount - 1),
                   out[p])
      BY <2>1 DEF DecodedFrom
    <2> QED
      BY <1>1, <1>2, <2>1, <2>2
  <1> QED
    BY <1>4, <1>5

---------------------------------------------------------------------------------
(* The bytes and the audio of the test *)

PcmInv ==
    /\ DecodedFrom(codebook, dest, pcm)
    /\ \A n \in Lanes : dstate[n] = Last(pcm, n)

(* What the part "whole" left: the bytes of the sound, and what decodes from them. *)
FullInv ==
    /\ part = "frames" => \E x : x.dest = vadpcm_full /\ Reached(codebook, source, x)
    /\ part # "whole" => DecodedFrom(codebook, vadpcm_full, decoded_full)

SameInv == Reached(codebook, source, Live) /\ PcmInv /\ FullInv

LEMMA LiveStarts ==
  ASSUME epc = "call", encoder_state = ZeroState, dest = << >>
  PROVE  Live = Beginning
  BY DEF Live, LiveCall, Beginning, ZeroState

LEMMA PcmStarts ==
  ASSUME pcm = << >>, dstate = ZeroVector
  PROVE  PcmInv
  BY DEF PcmInv, DecodedFrom, Last, ZeroVector

LEMMA CheckInitSame == CheckInit => SameInv
  <1> SUFFICES ASSUME CheckInit PROVE SameInv
    OBVIOUS
  <1>1. D!ZeroVector = ZeroVector
    BY DEF D!ZeroVector, D!Lanes, ZeroVector, Lanes
  <1>2. /\ epc = "call" /\ encoder_state = ZeroState /\ dest = << >>
        /\ pcm = << >> /\ dstate = ZeroVector /\ part = "whole"
    BY <1>1 DEF CheckInit, Init, D!Init
  <1>3. Reached(codebook, source, Live)
    BY <1>2, LiveStarts, ReachedFirst
  <1> QED
    BY <1>2, <1>3, PcmStarts DEF SameInv, FullInv

LEMMA LiveDest == Live.dest = dest
  BY DEF Live, LiveCall, LiveFrame, LiveScan, LiveNext, LiveTry, LiveKeep

LEMMA EncodeCallSame ==
  ASSUME IInv, SameInv, EncodeCall
  PROVE  SameInv'
  <1>1. /\ BeginCall(CallLength) /\ UNCHANGED <<decoderVars, partVars, codebook, source, dest>>
    BY DEF EncodeCall, BeginCall
  <1>2. Live' = Live
    BY <1>1, BeginCallLive DEF IInv
  <1> QED
    BY <1>1, <1>2 DEF SameInv, PcmInv, FullInv, decoderVars, partVars

LEMMA EncodeStepSame ==
  ASSUME IInv, SameInv, EncodeStep
  PROVE  SameInv'
  <1>1. Step /\ UNCHANGED <<decoderVars, partVars>>
    BY DEF EncodeStep
  <1>2. /\ codebook' = codebook /\ source' = source
        /\ dest' = dest \/ dest' = Append(dest, best)
    BY <1>1, StepAppends DEF IInv
  <1>3. dest \in Seq(Frame) /\ dest' \in Seq(Frame) /\ best \in Frame
    BY <1>1, EncoderStepInv DEF IInv, EInv, EncoderTypes, TypeOK
  <1>4. StartsWith(dest', dest)
    <2>1. CASE dest' = dest
      BY <1>3, <2>1 DEF StartsWith
    <2>2. CASE dest' = Append(dest, best)
      BY <1>3, <2>2 DEF StartsWith
    <2> QED
      BY <1>2, <2>1, <2>2
  <1>5. Reached(codebook, source, Live')
    <2> DEFINE x == Live
               y == Live'
    <2>1. y = x \/ y = Forward(codebook, source, x)
      BY <1>1, StepForward DEF IInv
    <2>2. x.dest = dest
      BY LiveDest
    <2>3. y.dest = dest'
      <3>1. (Live.dest = dest)'
        BY LiveDest, PTL
      <3> QED
        BY <3>1
    <2>4. Reached(codebook, source, x)
      BY DEF SameInv
    <2>5. y.dest \in Seq(Frame) /\ StartsWith(y.dest, x.dest)
      BY <1>3, <1>4, <2>2, <2>3
    <2> HIDE DEF x, y
    <2>6. Reached(codebook, source, y)
      BY <2>1, <2>4, <2>5, ReachedNext
    <2> QED
      BY <2>6 DEF y
  <1>6. PcmInv'
    <2>1. pcm' = pcm /\ dstate' = dstate
      BY <1>1 DEF decoderVars
    <2>2. pcm \in Seq(SampleVector) /\ Len(pcm) <= 2 * Len(dest)
      BY <1>3 DEF IInv, DecoderInv, DecoderTypes, Vectors
    <2> DEFINE d2 == dest'
    <2>3. DecodedFrom(codebook, d2, pcm)
      <3>1. d2 \in Seq(Frame) /\ StartsWith(d2, dest) /\ DecodedFrom(codebook, dest, pcm)
        BY <1>3, <1>4 DEF SameInv, PcmInv
      <3> HIDE DEF d2
      <3> QED
        BY <1>3, <2>2, <3>1, DecodedMoreFrames
    <2> QED
      BY <1>2, <2>1, <2>3 DEF SameInv, PcmInv
  <1> QED
    BY <1>1, <1>2, <1>5, <1>6 DEF SameInv, FullInv, partVars

LEMMA EncoderRestsSame ==
  ASSUME SameInv, UNCHANGED <<vars, partVars>>
  PROVE  Reached(codebook', source', Live') /\ FullInv'
  <1>1. Live' = Live /\ codebook' = codebook /\ source' = source
    BY DEF vars, callVars, outVars, scanVars, tryVars, keepVars, frameVars, Live, LiveCall,
           LiveFrame, LiveScan, LiveNext, LiveTry, LiveKeep, Base, Chosen
  <1> QED
    BY <1>1 DEF SameInv, FullInv, partVars

LEMMA StutterSame ==
  ASSUME SameInv, UNCHANGED allVars
  PROVE  SameInv'
  <1>1. Reached(codebook', source', Live') /\ FullInv'
    BY EncoderRestsSame DEF allVars
  <1> QED
    BY <1>1 DEF SameInv, PcmInv, allVars, vars, callVars, outVars, decoderVars

LEMMA DecodeStepSame ==
  ASSUME IInv, SameInv, DecodeStep
  PROVE  SameInv'
  <1>1. UNCHANGED <<vars, partVars>>
    BY DEF DecodeStep
  <1>2. Reached(codebook', source', Live') /\ FullInv'
    BY <1>1, EncoderRestsSame
  <1>3. codebook.order = 2
    BY CodebookType DEF IInv, EInv
  <1>4. pcm' = pcm /\ dstate' = dstate
    BY <1>3, RejectFrameNever, BeginFrameAction, AccumulatePreviousAction,
       BeginResidualsAction, AccumulateResidualAction DEF DecodeStep, IInv, DecoderInv
  <1> QED
    BY <1>1, <1>2, <1>4 DEF SameInv, PcmInv, vars, callVars, outVars

LEMMA EmitStepSame ==
  ASSUME IInv, SameInv, EmitStep
  PROVE  SameInv'
  <1>1. D!EmitVector /\ UNCHANGED <<vars, partVars>>
    BY DEF EmitStep
  <1>2. Reached(codebook', source', Live') /\ FullInv'
    BY <1>1, EncoderRestsSame
  <1>3. /\ dpc = "residual" /\ dk = VectorSampleCount
        /\ dstate' = [j \in Lanes |-> Emitted(daccumulator[j])]
        /\ pcm' = Append(pcm, dstate')
    BY <1>1, EmitVectorAction
  <1>4. /\ pcm \in Seq(SampleVector) /\ Len(pcm) = 2 * dframe + dvector
        /\ dframe \in Nat /\ dvector \in 0 .. 1
    BY <1>3 DEF IInv, DecoderInv, DecoderTypes, Vectors
  <1>5. dstate' \in SampleVector
    BY EmitStepInv DEF IInv, DecoderInv, DecoderTypes
  <1> DEFINE x == dstate'
             N == VectorSampleCount
  <1>6. VectorIs(codebook, CurrentFrame, dvector, dstate[N - 2], dstate[N - 1], x)
    <2>1. PICK c \in Carried : InVector(c)
      BY <1>3 DEF IInv, DecoderInv, DecoderFollows
    <2>2. PICK t, g :
          /\ Run(t, g, N, CurrentVectors, Decoded, ResidualsOf(CurrentFrame.data[dvector]),
                 CurrentScaling, source[dframe + 1].samples[dvector])
          /\ daccumulator = t[N]
      BY <1>3, <2>1 DEF InVector
    <2>3. Decoded.s0 = dstate[N - 2] /\ Decoded.s1 = dstate[N - 1]
      BY DEF Decoded
    <2>4. x = [j \in Lanes |-> Emitted(t[N][j])]
      BY <1>3, <2>2
    <2> HIDE DEF x, N
    <2> QED
      BY <2>2, <2>3, <2>4 DEF VectorIs, CurrentVectors, CurrentScaling, N
  <1>7. CurrentFrame = dest[(Len(pcm) \div 2) + 1] /\ Len(pcm) % 2 = dvector
    <2>1. Len(pcm) \div 2 = dframe /\ Len(pcm) % 2 = dvector
      BY <1>4
    <2> QED
      BY <2>1 DEF CurrentFrame
  <1>8. dstate[N - 2] = Last(pcm, N - 2) /\ dstate[N - 1] = Last(pcm, N - 1)
    <2>1. N - 2 \in Lanes /\ N - 1 \in Lanes
      BY FormatAssumption DEF Lanes
    <2> QED
      BY <2>1 DEF SameInv, PcmInv
  <1>9. DecodedFrom(codebook, dest, Append(pcm, x))
    <2>1. x \in SampleVector /\ DecodedFrom(codebook, dest, pcm)
      BY <1>5 DEF SameInv, PcmInv
    <2> HIDE DEF x
    <2> QED
      BY <1>4, <1>6, <1>7, <1>8, <2>1, DecodedMore
  <1>10. \A n \in Lanes : x[n] = Last(Append(pcm, x), n)
    <2> HIDE DEF x
    <2>1. Len(Append(pcm, x)) = Len(pcm) + 1 /\ Append(pcm, x)[Len(pcm) + 1] = x
          /\ Len(pcm) + 1 # 0
      BY <1>4
    <2> QED
      BY <2>1 DEF Last
  <1>11. PcmInv'
    BY <1>1, <1>3, <1>9, <1>10 DEF PcmInv, vars, callVars, outVars
  <1> QED
    BY <1>2, <1>11 DEF SameInv

LEMMA RestartSame ==
  ASSUME epc = "call", Restart
  PROVE  Reached(codebook', source', Live') /\ PcmInv'
  <1>1. /\ epc' = "call" /\ encoder_state' = ZeroState /\ dest' = << >>
        /\ pcm' = << >> /\ dstate' = ZeroVector
    BY DEF Restart
  <1>2. Live' = Beginning
    BY <1>1 DEF Live, LiveCall, Beginning, ZeroState
  <1>3. PcmInv'
    BY <1>1 DEF PcmInv, DecodedFrom, Last, ZeroVector
  <1> QED
    BY <1>2, <1>3, ReachedFirst

LEMMA CheckFramesSame ==
  ASSUME IInv, SameInv, CheckFrames
  PROVE  SameInv'
  <1>1. /\ epc = "call" /\ Restart /\ source' = source /\ codebook' = codebook
        /\ vadpcm_full' = dest /\ decoded_full' = pcm
    BY DEF CheckFrames, Restart, Finished
  <1>2. Live.dest = dest /\ Reached(codebook, source, Live)
    BY LiveDest DEF SameInv
  <1>3. FullInv'
    BY <1>1, <1>2 DEF FullInv, SameInv, PcmInv
  <1> QED
    BY <1>1, <1>3, RestartSame DEF SameInv

LEMMA ReencodeSame ==
  ASSUME SameInv, Reencode
  PROVE  SameInv'
  <1>1. /\ epc = "call" /\ Restart /\ part = "frames" /\ part' = "again" /\ codebook' = codebook
        /\ UNCHANGED <<vadpcm_full, decoded_full>>
    BY DEF Reencode, Finished, Restart
  <1> QED
    BY <1>1, RestartSame DEF SameInv, FullInv

LEMMA CheckStepSame == IInv /\ SameInv /\ [CheckNext]_allVars => SameInv'
  <1> SUFFICES ASSUME IInv, SameInv, [CheckNext]_allVars PROVE SameInv'
    OBVIOUS
  <1>1. CASE CheckDone
    BY <1>1, StutterSame DEF CheckDone
  <1> QED
    BY <1>1, StutterSame, EncodeCallSame, EncodeStepSame, DecodeStepSame, EmitStepSame,
       CheckFramesSame, ReencodeSame DEF CheckNext

LEMMA SameInvariance == CheckSpec => []SameInv
  BY CheckInitSame, CheckStepSame, Invariance, PTL DEF CheckSpec

LEMMA PrefixIs ==
  ASSUME NEW S, NEW s \in Seq(S), NEW r \in Seq(S), StartsWith(s, r)
  PROVE  r = SubSeq(s, 1, Len(r))
  BY DEF StartsWith

(***************************************************************************)
(* "encode mismatch" and "decode mismatch" are never printed: the bytes of *)
(* a sound encoded a frame in each call are those of one call, as far as   *)
(* they go, and so is the audio decoded from them.                         *)
(***************************************************************************)
THEOREM CallsMakeNoDifference == CheckSpec => []EncodedSame
  <1>1. IInv /\ SameInv => EncodedSame
    <2> SUFFICES ASSUME IInv, SameInv, part = "frames", CaughtUp
                 PROVE  /\ dest = SubSeq(vadpcm_full, 1, Len(dest))
                        /\ pcm = SubSeq(decoded_full, 1, Len(pcm))
      BY DEF EncodedSame
    <2>1. /\ dest \in Seq(Frame) /\ Len(dest) <= Len(source)
          /\ vadpcm_full \in Seq(Frame) /\ Len(vadpcm_full) = Len(source)
          /\ decoded_full \in Seq(SampleVector) /\ Len(decoded_full) = 2 * Len(source)
          /\ pcm \in Seq(SampleVector) /\ Len(pcm) = 2 * Len(dest) + 0
      BY DEF IInv, EInv, InCall, EncoderTypes, TypeOK, PartInv, DecoderInv, DecoderTypes, CaughtUp
    <2>2. Len(source) \in Nat
      BY DEF IInv, EInv, EncoderTypes
    <2>3. StartsWith(vadpcm_full, dest)
      <3>1. PICK x : x.dest = vadpcm_full /\ Reached(codebook, source, x)
        BY DEF SameInv, FullInv
      <3>2. Live.dest = dest /\ Reached(codebook, source, Live)
        BY LiveDest DEF SameInv
      <3> DEFINE y == Live
      <3> HIDE DEF y
      <3>3. y.dest = dest /\ Reached(codebook, source, y)
        BY <3>2 DEF y
      <3> QED
        BY <2>1, <3>1, <3>3, BytesAgree
    <2>4. StartsWith(decoded_full, pcm)
      <3>1. /\ DecodedFrom(codebook, dest, pcm)
            /\ DecodedFrom(codebook, vadpcm_full, decoded_full)
        BY DEF SameInv, PcmInv, FullInv
      <3>2. Len(pcm) <= 2 * Len(dest) /\ Len(pcm) <= Len(decoded_full)
        BY <2>1, <2>2
      <3> QED
        BY <2>1, <2>3, <3>1, <3>2, DecodedAgree
    <2> QED
      BY <2>1, <2>3, <2>4, PrefixIs
  <1> QED
    BY <1>1, SameInvariance, Invariance, PTL

---------------------------------------------------------------------------------
(* A decoded frame is encoded again *)

(* A sum that comes out at no limit has not wrapped, nor was it clipped. *)
LEMMA NotClipped ==
  ASSUME NEW x \in Accumulators, NEW n \in 0 .. MaxShift, NEW r \in Residuals, NEW out,
         out = Emitted(Int32(x + (r * 2 ^ n) * FixedOne)),
         out \notin {SampleMax, -SampleMax - 1}
  PROVE  Whole(x) + r * 2 ^ n = out
  <1> DEFINE Q == 2 ^ n
             d == (r * Q) * FixedOne
             y == x + d
             room == (SampleMax + 1) * FixedOne
  <1>1. /\ Q \in Nat \ {0} /\ Q <= 2 ^ MaxShift /\ 2 ^ MaxShift \in Nat
        /\ x \in Int /\ r \in Int /\ FixedOne \in Nat \ {0} /\ SampleMax \in Nat
        /\ NibbleHalf \in Nat \ {0} /\ AccumulatorHalf \in Nat \ {0}
        /\ -AccumulatorHalf <= x /\ x < AccumulatorHalf
        /\ -NibbleHalf <= r /\ r <= NibbleHalf
    BY ShiftAssumption, FormatAssumption DEF Accumulators, Residuals
  <1> HIDE DEF Q
  <1>2. r * Q \in Int /\ d \in Int /\ y \in Int /\ room \in Nat
    BY <1>1
  <1>3. room + d <= AccumulatorHalf /\ room - d <= AccumulatorHalf
    <2> DEFINE B == NibbleHalf * 2 ^ MaxShift
    <2>1. B \in Nat /\ NibbleHalf * Q <= B
      BY <1>1
    <2>2. r * Q <= NibbleHalf * Q /\ -(r * Q) <= NibbleHalf * Q
      <3>1. (NibbleHalf - r) * Q >= 0 /\ (NibbleHalf + r) * Q >= 0
        BY <1>1
      <3> QED
        BY <1>1, <3>1
    <2>3. r * Q <= B /\ -(r * Q) <= B
      BY <1>1, <1>2, <2>1, <2>2
    <2>4. room + B * FixedOne <= AccumulatorHalf
      <3>1. (SampleMax + 1 + B) * FixedOne <= AccumulatorHalf
        BY ClipAssumption
      <3> HIDE DEF B
      <3> QED
        BY <1>1, <2>1, <3>1
    <2> DEFINE e == r * Q
    <2>5. e \in Int /\ e <= B /\ -e <= B
      BY <1>2, <2>3
    <2> HIDE DEF e, B
    <2>6. (B - e) * FixedOne >= 0 /\ (B + e) * FixedOne >= 0
      BY <1>1, <2>1, <2>5
    <2>7. e * FixedOne <= B * FixedOne /\ -(e * FixedOne) <= B * FixedOne
      BY <1>1, <2>1, <2>5, <2>6
    <2>8. d = e * FixedOne
      BY DEF e
    <2> HIDE DEF d, room
    <2> QED
      BY <1>1, <1>2, <2>1, <2>4, <2>7, <2>8
  <1>4. out = Emitted(Int32(y))
    BY DEF Q
  <1> HIDE DEF d, room
  <1>5. ASSUME y >= AccumulatorHalf PROVE FALSE
    <2> DEFINE w == y - 2 * AccumulatorHalf
    <2>1. w \in Accumulators /\ w < -room
      BY <1>1, <1>2, <1>3, <1>5 DEF Accumulators
    <2>2. Int32(y) = w
      <3> DEFINE m == 2 * AccumulatorHalf
                 z == w + AccumulatorHalf
      <3>2. m \in Nat \ {0} /\ z \in Int /\ y + AccumulatorHalf = z + 1 * m
        BY <1>1, <1>2
      <3> HIDE DEF m, z
      <3>3. (z + 1 * m) % m = z % m
        <4>1. \A q \in Int : (z + q * m) % m = z % m
          BY <3>2, QuotientAdd
        <4>2. 1 \in Int
          OBVIOUS
        <4> QED
          BY <4>1, <4>2, Zenon
      <3>1. Int32(y) = Int32(w)
        BY <3>2, <3>3 DEF Int32, m, z
      <3> QED
        BY <2>1, <3>1, Int32Id
    <2> HIDE DEF w
    <2>3. Whole(w) < -SampleMax - 1
      <3>3. w \in Int
        BY <1>1, <2>1 DEF Accumulators
      <3>1. /\ Whole(w) \in Int
            /\ Whole(w) * FixedOne <= w /\ w < (Whole(w) + 1) * FixedOne
        <4>1. /\ w \div FixedOne \in Int /\ w % FixedOne \in 0 .. FixedOne - 1
              /\ w = (w \div FixedOne) * FixedOne + (w % FixedOne)
          BY <1>1, <3>3, QuotientRemainder
        <4> QED
          BY <1>1, <3>3, <4>1 DEF Whole
      <3>2. Whole(w) * FixedOne < (-(SampleMax + 1)) * FixedOne
        BY <1>1, <1>2, <2>1, <3>1, <3>3 DEF room
      <3> QED
        BY <1>1, <3>1, <3>2
    <2>4. Emitted(w) = -SampleMax - 1
      BY <1>1, <2>3 DEF Emitted, Clamp16, Clamp
    <2> QED
      BY <1>4, <2>2, <2>4
  <1>6. ASSUME y < -AccumulatorHalf PROVE FALSE
    <2> DEFINE w == y + 2 * AccumulatorHalf
    <2>1. w \in Accumulators /\ w >= room
      BY <1>1, <1>2, <1>3, <1>6 DEF Accumulators
    <2>2. Int32(y) = w
      <3> DEFINE m == 2 * AccumulatorHalf
                 z == y + AccumulatorHalf
      <3>2. m \in Nat \ {0} /\ z \in Int /\ w + AccumulatorHalf = z + 1 * m
        BY <1>1, <1>2
      <3> HIDE DEF m, z
      <3>3. (z + 1 * m) % m = z % m
        <4>1. \A q \in Int : (z + q * m) % m = z % m
          BY <3>2, QuotientAdd
        <4>2. 1 \in Int
          OBVIOUS
        <4> QED
          BY <4>1, <4>2, Zenon
      <3>1. Int32(y) = Int32(w)
        BY <3>2, <3>3 DEF Int32, m, z
      <3> QED
        BY <2>1, <3>1, Int32Id
    <2> HIDE DEF w
    <2>3. Whole(w) > SampleMax /\ Whole(w) \in Int
      <3>3. w \in Int
        BY <1>1, <2>1 DEF Accumulators
      <3>1. /\ Whole(w) \in Int
            /\ Whole(w) * FixedOne <= w /\ w < (Whole(w) + 1) * FixedOne
        <4>1. /\ w \div FixedOne \in Int /\ w % FixedOne \in 0 .. FixedOne - 1
              /\ w = (w \div FixedOne) * FixedOne + (w % FixedOne)
          BY <1>1, <3>3, QuotientRemainder
        <4> QED
          BY <1>1, <3>3, <4>1 DEF Whole
      <3>2. (Whole(w) + 1) * FixedOne > (SampleMax + 1) * FixedOne
        BY <1>1, <1>2, <2>1, <3>1, <3>3 DEF room
      <3> QED
        BY <1>1, <3>1, <3>2
    <2>4. Emitted(w) = SampleMax
      BY <1>1, <2>3 DEF Emitted, Clamp16, Clamp
    <2> QED
      BY <1>4, <2>2, <2>4
  <1>7. Int32(y) = y
    <2>1. y \in Accumulators
      BY <1>1, <1>2, <1>5, <1>6 DEF Accumulators
    <2> QED
      BY <2>1, Int32Id
  <1>8. Whole(y) = Whole(x) + r * Q /\ Whole(y) \in Int
    BY <1>1, <1>2, WholeAdd, WholeType DEF d
  <1>9. out = Whole(y)
    BY <1>1, <1>4, <1>7, <1>8 DEF Emitted, Clamp16, Clamp
  <1> QED
    BY <1>8, <1>9 DEF Q

(* Then the residual is found again, with any dither. *)
LEMMA FoundAgain ==
  ASSUME NEW a \in Int, NEW n \in 0 .. MaxShift, NEW r \in Residuals, NEW b \in 0 .. 2 ^ n - 1
  PROVE  Clamp(((a + r * 2 ^ n) - a + b) \div 2 ^ n, -NibbleHalf, NibbleHalf - 1) = r
  <1> DEFINE Q == 2 ^ n
  <1>1. Q \in Nat \ {0} /\ r \in Int /\ b \in 0 .. Q - 1
    BY ShiftAssumption, FormatAssumption DEF Residuals
  <1> HIDE DEF Q
  <1>2. (a + r * Q) - a + b = r * Q + b
    BY <1>1
  <1>3. ((a + r * Q) - a + b) \div Q = r
    BY <1>1, <1>2, QuotientUnique
  <1>4. Clamp(r, -NibbleHalf, NibbleHalf - 1) = r
    BY FormatAssumption DEF Clamp, Residuals
  <1> QED
    BY <1>3, <1>4 DEF Q

(* What is encoded again is what was decoded. *)
SecondSound ==
    \A f \in 1 .. Len(source) :
        /\ source[f].predictor = PredictorIndexOf(vadpcm_full[f].control)
        /\ \A x \in Vectors : source[f].samples[x] = decoded_full[2 * f - 1 + x]

Exact == SameStart /\ NoneAtLimit

(* The sums of vector x of the frame, when it was decoded. *)
RunBefore(t, x) ==
    \E b, g, sound :
        /\ Run(t, g, VectorSampleCount, pvec, b,
               ResidualsOf(vadpcm_full[Len(dest) + 1].data[x]), FirstScaling, sound)
        /\ input.samples[x] = [j \in Lanes |-> Emitted(t[VectorSampleCount][j])]

(* The candidate with the first scaling has the decoder's sums, and no error. *)
TryAgain ==
    epc = "try" /\ shift = FirstScaling /\ Exact =>
        /\ error = 0
        /\ \E t : RunBefore(t, vector) /\ \A j \in i .. VectorSampleCount - 1 :
                                              accumulator[j] = t[i][j]
        /\ i > 0 => s1 = input.samples[vector][i - 1]
        /\ i > 1 => s0 = input.samples[vector][i - 2]

KeepAgain == epc = "keep" /\ shift = FirstScaling /\ Exact => error = 0

BestAgain ==
    epc \in {"next", "try", "keep"} /\ Exact /\ FirstScaling \in min_shift .. shift - 1 =>
        best_error = 0

AgainInv ==
    part = "again" => SecondSound /\ TryAgain /\ KeepAgain /\ BestAgain

LEMMA RunStarts ==
  ASSUME NEW t, NEW g, NEW b, NEW rs, NEW scaling, NEW sound,
         Run(t, g, VectorSampleCount, pvec, b, rs, scaling, sound)
  PROVE  t[0] = Predict(b.s0, b.s1)
  BY DEF Run, Predict

LEMMA VectorBefore ==
  ASSUME IInv, SameInv, SecondSound, part = "again", Len(dest) < Len(source), NEW x \in Vectors
  PROVE  LET p == 2 * Len(dest) + 1 + x
         IN  \E t : /\ RunBefore(t, x)
                    /\ t[0] = Predict(Before(decoded_full, p, VectorSampleCount - 2),
                                      Before(decoded_full, p, VectorSampleCount - 1))
  <1> DEFINE p == 2 * Len(dest) + 1 + x
             f == Len(dest) + 1
             q0 == Before(decoded_full, p, VectorSampleCount - 2)
             q1 == Before(decoded_full, p, VectorSampleCount - 1)
  <1>1. /\ Len(dest) \in Nat /\ Len(source) \in Nat /\ x \in 0 .. 1
        /\ Len(decoded_full) = 2 * Len(source)
    BY DEF IInv, EInv, EncoderTypes, TypeOK, PartInv, Vectors
  <1>2. /\ p \in 1 .. Len(decoded_full) /\ f \in 1 .. Len(source) /\ 2 * f - 1 + x = p
        /\ ((p - 1) \div 2) + 1 = f /\ (p - 1) % 2 = x
    BY <1>1
  <1>3. VectorIs(codebook, vadpcm_full[f], x, q0, q1, decoded_full[p])
    BY <1>2 DEF SameInv, FullInv, DecodedFrom
  <1>4. /\ input.samples[x] = decoded_full[p]
        /\ pvec = codebook.vector[PredictorIndexOf(vadpcm_full[f].control)]
    BY <1>2 DEF SecondSound, input, pvec
  <1> HIDE DEF p, q0, q1
  <1>5. PICK b, t, g, sound :
          /\ b.s0 = q0 /\ b.s1 = q1
          /\ Run(t, g, VectorSampleCount, pvec, b, ResidualsOf(vadpcm_full[f].data[x]),
                 FirstScaling, sound)
          /\ decoded_full[p] = [j \in Lanes |-> Emitted(t[VectorSampleCount][j])]
    BY <1>3, <1>4 DEF VectorIs, FirstScaling
  <1>6. RunBefore(t, x)
    BY <1>4, <1>5 DEF RunBefore
  <1>7. t[0] = Predict(q0, q1)
    BY <1>5, RunStarts
  <1> QED
    BY <1>6, <1>7 DEF p, q0, q1

(* In the same frame of the same sound. *)
LEMMA SameFrame ==
  ASSUME UNCHANGED <<callVars, outVars, partVars>>
  PROVE  /\ input' = input /\ pvec' = pvec /\ FirstScaling' = FirstScaling
         /\ SecondSound' <=> SecondSound
         /\ \A t, x : RunBefore(t, x)' <=> RunBefore(t, x)
         /\ state'[0] = state[0] /\ state'[1] = state[1] => (Exact' <=> Exact)
  <1>1. /\ codebook' = codebook /\ source' = source /\ dest' = dest
        /\ vadpcm_full' = vadpcm_full /\ decoded_full' = decoded_full
    BY DEF callVars, outVars, partVars
  <1>2. input' = input /\ pvec' = pvec /\ FirstScaling' = FirstScaling
    BY <1>1 DEF input, pvec, FirstScaling
  <1>3. SecondSound' <=> SecondSound
    BY <1>1 DEF SecondSound
  <1>4. \A t, x : RunBefore(t, x)' <=> RunBefore(t, x)
    BY <1>1, <1>2 DEF RunBefore
  <1>5. ASSUME state'[0] = state[0], state'[1] = state[1] PROVE Exact' <=> Exact
    <2>1. \A j \in 0 .. 1 : state'[j] = state[j]
      BY <1>5
    <2>2. SameStart' <=> SameStart
      BY <1>1, <2>1 DEF SameStart
    <2>3. NoneAtLimit' <=> NoneAtLimit
      BY <1>2 DEF NoneAtLimit
    <2> QED
      BY <2>2, <2>3 DEF Exact
  <1> QED
    BY <1>2, <1>3, <1>4, <1>5

LEMMA NextShiftAgain ==
  ASSUME IInv, SameInv, AgainInv, part = "again", NextShift, UNCHANGED partVars
  PROVE  TryAgain' /\ KeepAgain' /\ BestAgain'
  <1>1. /\ epc = "next" /\ epc' = "try" /\ shift' = shift /\ min_shift' = min_shift
        /\ best_error' = best_error /\ error' = 0 /\ vector' = 0 /\ i' = 0 /\ state' = state
        /\ accumulator' = Predict(state[0], state[1])
        /\ UNCHANGED <<callVars, outVars>>
    BY DEF NextShift, ResetCandidate, frameVars, keepVars
  <1>2. /\ input' = input /\ pvec' = pvec /\ FirstScaling' = FirstScaling
        /\ \A t, x : RunBefore(t, x)' <=> RunBefore(t, x)
        /\ Exact' <=> Exact
    BY <1>1, SameFrame
  <1>3. KeepAgain' /\ BestAgain'
    BY <1>1, <1>2 DEF KeepAgain, BestAgain, AgainInv
  <1>4. TryAgain'
    <2> SUFFICES ASSUME Exact PROVE \E t : RunBefore(t, 0) /\ t[0] = Predict(state[0], state[1])
      BY <1>1, <1>2 DEF TryAgain
    <2>1. SecondSound /\ Len(dest) < Len(source)
      BY <1>1 DEF AgainInv, IInv, EInv, InCall, EncoderTypes, TypeOK
    <2> DEFINE p == 2 * Len(dest) + 1 + 0
               q0 == Before(decoded_full, p, VectorSampleCount - 2)
               q1 == Before(decoded_full, p, VectorSampleCount - 1)
    <2>2. \E t : RunBefore(t, 0) /\ t[0] = Predict(q0, q1)
      BY <2>1, VectorBefore, 0 \in Vectors DEF Vectors
    <2>3. state[0] = q0 /\ state[1] = q1
      <3>1. /\ VectorSampleCount - 2 + 0 = VectorSampleCount - 2
            /\ VectorSampleCount - 2 + 1 = VectorSampleCount - 1
            /\ 0 \in 0 .. 1 /\ 1 \in 0 .. 1 /\ 1 \in Vectors
        BY FormatAssumption DEF Vectors
      <3>2. dest \in Seq(Frame) /\ Len(dest) \in Nat /\ Len(source) \in Nat
        BY DEF IInv, EInv, EncoderTypes, TypeOK
      <3>3. CASE dest = << >>
        <4>1. state[0] = 0 /\ state[1] = 0
          BY <3>1, <3>3 DEF Exact, SameStart
        <4>2. p = 1
          BY <3>3
        <4> QED
          BY <4>1, <4>2 DEF Before
      <3>4. CASE dest # << >>
        <4>1. /\ Len(dest) \in 1 .. Len(source) /\ p # 1 /\ p - 1 = 2 * Len(dest) - 1 + 1
          BY <2>1, <3>2, <3>4
        <4>2. source[Len(dest)].samples[1] = decoded_full[p - 1]
          BY <2>1, <3>1, <4>1 DEF SecondSound
        <4>3. /\ state[0] = decoded_full[p - 1][VectorSampleCount - 2]
              /\ state[1] = decoded_full[p - 1][VectorSampleCount - 1]
          BY <3>1, <3>4, <4>2 DEF Exact, SameStart
        <4> QED
          BY <4>1, <4>3 DEF Before
      <3> QED
        BY <3>3, <3>4
    <2> HIDE DEF q0, q1
    <2> QED
      BY <2>2, <2>3
  <1> QED
    BY <1>3, <1>4

LEMMA PackFirstVectorAgain ==
  ASSUME IInv, SameInv, AgainInv, part = "again", PackFirstVector, UNCHANGED partVars
  PROVE  TryAgain' /\ KeepAgain' /\ BestAgain'
  <1>1. /\ epc = "try" /\ epc' = "try" /\ shift' = shift /\ min_shift' = min_shift
        /\ best_error' = best_error /\ error' = error /\ vector = 0 /\ vector' = 1
        /\ i = VectorSampleCount /\ i' = 0 /\ state' = state
        /\ accumulator' = Predict(s0, s1)
        /\ UNCHANGED <<callVars, outVars>>
    BY DEF PackFirstVector, frameVars, keepVars
  <1>2. /\ input' = input /\ pvec' = pvec /\ FirstScaling' = FirstScaling
        /\ \A t, x : RunBefore(t, x)' <=> RunBefore(t, x)
        /\ Exact' <=> Exact
    BY <1>1, SameFrame
  <1>3. KeepAgain' /\ BestAgain'
    BY <1>1, <1>2 DEF KeepAgain, BestAgain, AgainInv
  <1>4. TryAgain'
    <2> SUFFICES ASSUME Exact, shift = FirstScaling
                 PROVE  error = 0 /\ \E t : RunBefore(t, 1) /\ t[0] = Predict(s0, s1)
      BY <1>1, <1>2 DEF TryAgain
    <2>1. SecondSound /\ Len(dest) < Len(source) /\ TryAgain
      BY <1>1 DEF AgainInv, IInv, EInv, InCall, EncoderTypes, TypeOK
    <2>2. /\ error = 0
          /\ s0 = input.samples[0][VectorSampleCount - 2]
          /\ s1 = input.samples[0][VectorSampleCount - 1]
      BY <1>1, <2>1, FormatAssumption DEF TryAgain
    <2> DEFINE p == 2 * Len(dest) + 1 + 1
               q0 == Before(decoded_full, p, VectorSampleCount - 2)
               q1 == Before(decoded_full, p, VectorSampleCount - 1)
    <2>3. \E t : RunBefore(t, 1) /\ t[0] = Predict(q0, q1)
      BY <2>1, VectorBefore, 1 \in Vectors DEF Vectors
    <2>4. s0 = q0 /\ s1 = q1
      <3>1. Len(dest) \in Nat /\ Len(source) \in Nat
        BY DEF IInv, EInv, EncoderTypes, TypeOK
      <3>2. /\ Len(dest) + 1 \in 1 .. Len(source) /\ 0 \in Vectors
            /\ p # 1 /\ p - 1 = 2 * (Len(dest) + 1) - 1 + 0
        BY <2>1, <3>1 DEF Vectors
      <3>3. input.samples[0] = decoded_full[p - 1]
        BY <2>1, <3>2 DEF SecondSound, input
      <3> QED
        BY <2>2, <3>2, <3>3 DEF Before
    <2> HIDE DEF q0, q1
    <2> QED
      BY <2>2, <2>3, <2>4
  <1> QED
    BY <1>3, <1>4

LEMMA QuantizeSampleAgain ==
  ASSUME IInv, AgainInv, part = "again", QuantizeSample, UNCHANGED partVars
  PROVE  TryAgain' /\ KeepAgain' /\ BestAgain'
  <1>1. /\ epc = "try" /\ epc' = "try" /\ shift' = shift /\ min_shift' = min_shift
        /\ best_error' = best_error /\ vector' = vector
        /\ i < VectorSampleCount /\ i' = i + 1 /\ state' = state /\ s0' = s1
        /\ UNCHANGED <<callVars, outVars>>
    BY DEF QuantizeSample, frameVars, keepVars
  <1>2. /\ input' = input /\ pvec' = pvec /\ FirstScaling' = FirstScaling
        /\ \A t, x : RunBefore(t, x)' <=> RunBefore(t, x)
        /\ Exact' <=> Exact
    BY <1>1, SameFrame
  <1>3. KeepAgain' /\ BestAgain'
    BY <1>1, <1>2 DEF KeepAgain, BestAgain, AgainInv
  <1>4. ASSUME Exact, shift = FirstScaling
        PROVE  /\ error' = 0
               /\ \E t : /\ RunBefore(t, vector)
                         /\ \A j \in i + 1 .. VectorSampleCount - 1 : accumulator'[j] = t[i + 1][j]
               /\ s1' = input.samples[vector][i]
               /\ i + 1 > 1 => s1 = input.samples[vector][i - 1]
    <2>1. /\ i \in Lanes /\ i \in Int /\ vector \in Vectors /\ shift \in 0 .. MaxShift
          /\ rng \in 0 .. RngModulus - 1 /\ Len(dest) < Len(source) /\ Len(source) \in Nat
          /\ Len(dest) \in Nat /\ vadpcm_full \in Seq(Frame) /\ Len(vadpcm_full) = Len(source)
      BY <1>1, FormatAssumption DEF IInv, EInv, InCall, EncoderTypes, TypeOK, Lanes, PartInv
    <2>2. /\ error = 0
          /\ i > 0 => s1 = input.samples[vector][i - 1]
      BY <1>1, <1>4 DEF AgainInv, TryAgain
    <2>3. PICK t : RunBefore(t, vector) /\ \A j \in i .. VectorSampleCount - 1 :
                                              accumulator[j] = t[i][j]
      BY <1>1, <1>4 DEF AgainInv, TryAgain
    <2> DEFINE bytes == vadpcm_full[Len(dest) + 1].data[vector]
               r == ResidualAt(bytes, i)
               res == r * 2 ^ shift
               s == input.samples[vector][i]
    <2>4. r \in Residuals /\ res \in Int
      <3>1. Len(dest) + 1 \in 1 .. Len(vadpcm_full)
        BY <2>1
      <3>2. bytes \in PackedVector
        <4>1. vadpcm_full[Len(dest) + 1] \in Frame
          BY <2>1, <3>1
        <4> QED
          BY <2>1, <4>1 DEF Frame
      <3>3. r \in Residuals /\ 2 ^ shift \in Int
        BY <2>1, <3>2, ResidualType, ShiftAssumption, FormatAssumption
      <3> QED
        BY <3>3, FormatAssumption DEF Residuals
    <2>5. PICK b, g, sound :
            /\ Run(t, g, VectorSampleCount, pvec, b, ResidualsOf(bytes), FirstScaling, sound)
            /\ input.samples[vector] = [j \in Lanes |-> Emitted(t[VectorSampleCount][j])]
      BY <2>3 DEF RunBefore
    <2>6. t[i + 1] = AddResidual(t[i], i, res, pvec[1]) /\ t[i] \in [Lanes -> Accumulators]
      <3>1. t[i + 1] = AddResidual(t[i], i, r * 2 ^ FirstScaling, pvec[1])
        BY <2>1, <2>5, BytesRun
      <3>2. i \in 0 .. VectorSampleCount
        BY <2>1, FormatAssumption DEF Lanes
      <3> QED
        BY <1>4, <2>5, <3>1, <3>2 DEF Run
    <2>7. s = Emitted(t[i + 1][i])
      <3>1. i \in 0 .. VectorSampleCount - 1 /\ VectorSampleCount \in 0 .. VectorSampleCount
        BY <2>1, FormatAssumption DEF Lanes
      <3>2. t[VectorSampleCount][i] = t[i + 1][i]
        BY <2>5, <3>1, LanesStay
      <3> QED
        BY <2>1, <2>5, <3>2
    <2> DEFINE sum == accumulator[i]
    <2>8. sum = t[i][i] /\ sum \in Accumulators /\ sum \in Int
      <3>1. i \in i .. VectorSampleCount - 1
        BY <2>1, FormatAssumption DEF Lanes
      <3>2. sum = t[i][i]
        BY <2>3, <3>1
      <3>3. t[i][i] \in Accumulators
        <4> HIDE DEF res
        <4> QED
          BY <2>1, <2>6
      <3>4. Accumulators \subseteq Int
        BY FormatAssumption DEF Accumulators
      <3> QED
        BY <3>2, <3>3, <3>4
    <2>9. s = Emitted(Int32(sum + res * FixedOne))
      BY <2>1, <2>6, <2>7, <2>8 DEF AddResidual, Lanes
    <2>10. s \notin {SampleMax, -SampleMax - 1}
      BY <1>4, <2>1 DEF Exact, NoneAtLimit
    <2> DEFINE a == Whole(sum)
               b0 == Bias(rng, shift)
    <2>11. a \in Int /\ b0 \in 0 .. 2 ^ shift - 1
      BY <2>1, <2>8, WholeType, BiasType
    <2> HIDE DEF r, s, b0, bytes
    <2>12. s = a + res /\ s \in Int
      BY <2>1, <2>4, <2>8, <2>9, <2>10, <2>11, NotClipped
    <2>13. Clamp((s - a + b0) \div 2 ^ shift, -NibbleHalf, NibbleHalf - 1) = r
      <3> HIDE DEF a
      <3> QED
        BY <2>1, <2>4, <2>11, <2>12, FoundAgain
    <2>14. /\ s1' = Clamp16(res + a)
           /\ error' = error + (s - s1') * (s - s1')
           /\ accumulator' = [j \in Lanes |->
                IF j < i THEN accumulator[j] ELSE IF j = i THEN r
                ELSE Int32(accumulator[j] + res * pvec[1][j - i - 1])]
      <3>1. LET exact == (s - a + b0) \div 2 ^ shift
                q == Clamp(exact, -NibbleHalf, NibbleHalf - 1)
                residual == q * 2 ^ shift
                sout == Clamp16(residual + a)
            IN  /\ accumulator' = [j \in Lanes |->
                     IF j < i THEN accumulator[j] ELSE IF j = i THEN q
                     ELSE Int32(accumulator[j] + residual * pvec[1][j - i - 1])]
                /\ s1' = sout
                /\ error' = error + (s - sout) * (s - sout)
        BY Zenon DEF QuantizeSample, s, b0
      <3> HIDE DEF a
      <3> QED
        BY <2>13, <3>1
    <2>15. s1' = s
      <3>1. s \in Samples
        <4>1. t[i + 1] \in [Lanes -> Accumulators]
          <5>1. i + 1 \in 0 .. VectorSampleCount
            BY <2>1, FormatAssumption DEF Lanes
          <5> QED
            BY <2>5, <5>1 DEF Run
        <4>2. t[i + 1][i] \in Accumulators
          BY <2>1, <4>1
        <4> QED
          BY <2>7, <4>2, EmittedType
      <3>2. res + a = s
        <4> HIDE DEF res, a
        <4> QED
          BY <2>4, <2>11, <2>12
      <3> QED
        BY <2>12, <2>14, <3>1, <3>2, FormatAssumption DEF Clamp16, Clamp, Samples
    <2>16. error' = 0
      BY <2>2, <2>12, <2>14, <2>15
    <2>17. \A j \in i + 1 .. VectorSampleCount - 1 : accumulator'[j] = t[i + 1][j]
      <3> SUFFICES ASSUME NEW j \in i + 1 .. VectorSampleCount - 1
                   PROVE  accumulator'[j] = t[i + 1][j]
        OBVIOUS
      <3>1. j \in Lanes /\ j > i /\ j \in i .. VectorSampleCount - 1
        BY <2>1, FormatAssumption DEF Lanes
      <3>2. ~(j < i) /\ j # i
        BY <2>1, <3>1, FormatAssumption DEF Lanes
      <3>3. accumulator[j] = t[i][j]
        BY <2>3, <3>1
      <3> HIDE DEF res
      <3> QED
        BY <2>6, <2>14, <3>1, <3>2, <3>3 DEF AddResidual
    <2> QED
      BY <2>1, <2>2, <2>3, <2>15, <2>16, <2>17 DEF s
  <1>5. TryAgain'
    <2>1. i \in Int /\ (i + 1) - 1 = i /\ (i + 1) - 2 = i - 1
      BY DEF IInv, EInv, EncoderTypes, TypeOK
    <2> QED
      BY <1>1, <1>2, <1>4, <2>1 DEF TryAgain
  <1> QED
    BY <1>3, <1>5

LEMMA KeepBestAgain ==
  ASSUME IInv, AgainInv, part = "again", KeepBest, UNCHANGED partVars
  PROVE  TryAgain' /\ KeepAgain' /\ BestAgain'
  <1>1. /\ epc = "keep" /\ epc' = "next" /\ shift' = shift + 1 /\ min_shift' = min_shift
        /\ best_error' = error /\ Better /\ state'[0] = state[0] /\ state'[1] = state[1]
        /\ UNCHANGED <<callVars, outVars>>
    BY DEF KeepBest, frameVars, IInv, EInv, EncoderTypes, TypeOK
  <1>2. FirstScaling' = FirstScaling /\ (Exact' <=> Exact)
    BY <1>1, SameFrame
  <1>3. /\ shift \in Int /\ min_shift \in Int /\ error \in Nat
    BY DEF IInv, EInv, EncoderTypes, TypeOK
  <1>4. ASSUME Exact, FirstScaling \in min_shift .. (shift + 1) - 1
        PROVE  error = 0
    <2>1. CASE shift = FirstScaling
      BY <1>1, <1>4, <2>1 DEF AgainInv, KeepAgain
    <2>2. CASE shift # FirstScaling
      <3>1. FirstScaling \in min_shift .. shift - 1 /\ shift # min_shift
        BY <1>3, <1>4, <2>2
      <3>2. best_error = 0
        BY <1>1, <1>4, <3>1 DEF AgainInv, BestAgain
      <3> QED
        BY <1>1, <1>3, <3>1, <3>2 DEF Better
    <2> QED
      BY <2>1, <2>2
  <1> QED
    BY <1>1, <1>2, <1>4 DEF TryAgain, KeepAgain, BestAgain

LEMMA DropCandidateAgain ==
  ASSUME IInv, AgainInv, part = "again", DropCandidate, UNCHANGED partVars
  PROVE  TryAgain' /\ KeepAgain' /\ BestAgain'
  <1>1. /\ epc = "keep" /\ epc' = "next" /\ shift' = shift + 1 /\ min_shift' = min_shift
        /\ best_error' = best_error /\ ~Better /\ state' = state
        /\ UNCHANGED <<callVars, outVars>>
    BY DEF DropCandidate, frameVars, keepVars
  <1>2. FirstScaling' = FirstScaling /\ (Exact' <=> Exact)
    BY <1>1, SameFrame
  <1>3. /\ shift \in Int /\ min_shift \in Int /\ error \in Nat /\ best_error \in Nat
    BY DEF IInv, EInv, EncoderTypes, TypeOK
  <1>4. ASSUME Exact, FirstScaling \in min_shift .. (shift + 1) - 1
        PROVE  best_error = 0
    <2>1. CASE shift = FirstScaling
      <3>1. error = 0
        BY <1>1, <1>4, <2>1 DEF AgainInv, KeepAgain
      <3> QED
        BY <1>1, <1>3, <3>1 DEF Better
    <2>2. CASE shift # FirstScaling
      <3>1. FirstScaling \in min_shift .. shift - 1
        BY <1>3, <1>4, <2>2
      <3> QED
        BY <1>1, <1>4, <3>1 DEF AgainInv, BestAgain
    <2> QED
      BY <2>1, <2>2
  <1> QED
    BY <1>1, <1>2, <1>4 DEF TryAgain, KeepAgain, BestAgain

LEMMA StepAgain ==
  ASSUME IInv, SameInv, AgainInv, Step, UNCHANGED partVars
  PROVE  AgainInv'
  <1> SUFFICES ASSUME part = "again"
               PROVE  SecondSound' /\ TryAgain' /\ KeepAgain' /\ BestAgain'
    BY DEF AgainInv, partVars
  <1>1. SecondSound'
    BY StepAppends DEF IInv, AgainInv, SecondSound, partVars
  <1>2. CASE BeginFrame \/ ScanSample \/ ScanSecondVector \/ FinishFrame \/ EndCall
    <2>1. epc' \notin {"try", "keep", "next"}
      BY <1>2 DEF BeginFrame, ScanSample, ScanSecondVector, FinishFrame, EndCall
    <2> QED
      BY <1>1, <2>1 DEF TryAgain, KeepAgain, BestAgain
  <1>3. CASE ChooseShifts
    <2>1. epc' = "next" /\ best_error' = 0
      BY <1>3 DEF ChooseShifts
    <2> QED
      BY <1>1, <2>1 DEF TryAgain, KeepAgain, BestAgain
  <1>4. CASE PackSecondVector
    <2>1. /\ epc = "try" /\ epc' = "keep" /\ shift' = shift /\ min_shift' = min_shift
          /\ best_error' = best_error /\ error' = error /\ state' = state
          /\ UNCHANGED <<callVars, outVars>>
      BY <1>4 DEF PackSecondVector, frameVars, keepVars
    <2>2. FirstScaling' = FirstScaling /\ (Exact' <=> Exact)
      BY <2>1, SameFrame
    <2> QED
      BY <1>1, <2>1, <2>2 DEF AgainInv, TryAgain, KeepAgain, BestAgain
  <1> QED
    BY <1>1, <1>2, <1>3, <1>4, NextShiftAgain, QuantizeSampleAgain, PackFirstVectorAgain,
       KeepBestAgain, DropCandidateAgain DEF Step

LEMMA AgainStutters ==
  ASSUME AgainInv, UNCHANGED <<vars, partVars>>
  PROVE  AgainInv'
  <1>1. /\ UNCHANGED <<callVars, outVars, partVars, scanVars, tryVars, keepVars, frameVars>>
        /\ UNCHANGED <<epc, state, vector, i, accumulator, s0, s1>>
    BY DEF vars
  <1>2. /\ input' = input /\ FirstScaling' = FirstScaling
        /\ SecondSound' <=> SecondSound
        /\ \A t, x : RunBefore(t, x)' <=> RunBefore(t, x)
        /\ Exact' <=> Exact
    BY <1>1, SameFrame
  <1> QED
    BY <1>1, <1>2 DEF AgainInv, TryAgain, KeepAgain, BestAgain, partVars, tryVars, keepVars,
                      frameVars

LEMMA CheckStepAgain == IInv /\ SameInv /\ AgainInv /\ [CheckNext]_allVars => AgainInv'
  <1> SUFFICES ASSUME IInv, SameInv, AgainInv, [CheckNext]_allVars PROVE AgainInv'
    OBVIOUS
  <1>1. CASE EncodeCall
    <2>1. epc' = "frame" /\ source' = source /\ UNCHANGED partVars
      BY <1>1 DEF EncodeCall, BeginCall
    <2>2. part' = "again" => SecondSound'
      BY <2>1 DEF AgainInv, SecondSound, partVars
    <2> QED
      BY <2>1, <2>2 DEF AgainInv, TryAgain, KeepAgain, BestAgain
  <1>2. CASE EncodeStep
    BY <1>2, StepAgain DEF EncodeStep
  <1>3. CASE DecodeStep \/ EmitStep \/ CheckDone \/ UNCHANGED allVars
    BY <1>3, AgainStutters DEF DecodeStep, EmitStep, CheckDone, allVars
  <1>4. CASE CheckFrames
    BY <1>4 DEF CheckFrames, AgainInv
  <1>5. CASE Reencode
    <2>1. /\ epc' = "call" /\ source' = AsSource(decoded_full)
          /\ vadpcm_full' = vadpcm_full /\ decoded_full' = decoded_full
      BY <1>5 DEF Reencode, Restart, Finished
    <2>2. DOMAIN source = 1 .. Len(source) /\ Len(source) \in Nat
      BY DEF IInv, EInv, EncoderTypes
    <2>3. Len(source') = Len(source)
      BY <2>1, <2>2 DEF AsSource
    <2>4. SecondSound'
      BY <2>1, <2>2, <2>3 DEF SecondSound, AsSource
    <2> QED
      BY <2>1, <2>4 DEF AgainInv, TryAgain, KeepAgain, BestAgain
  <1> QED
    BY <1>1, <1>2, <1>3, <1>4, <1>5 DEF CheckNext

(***************************************************************************)
(* Of a frame that is decoded and encoded again, with no sample at a limit *)
(* and from the samples it was decoded from, nothing more is lost, for any *)
(* dither, if the scaling it had is among those tried.                     *)
(***************************************************************************)
THEOREM ReencodingIsExact == CheckSpec => []Reencoded
  <1>1. CheckInit => AgainInv
    BY DEF CheckInit, AgainInv
  <1>2. CheckSpec => []AgainInv
    BY <1>1, SameInvariance, CheckStepAgain, Invariance, PTL DEF CheckSpec
  <1>3. IInv /\ AgainInv => Reencoded
    <2> SUFFICES ASSUME IInv, AgainInv, part = "again", epc = "next", shift > max_shift,
                        SameStart, NoneAtLimit, FirstScaling \in min_shift .. max_shift
                 PROVE  best_error = 0
      BY DEF Reencoded
    <2>1. FirstScaling \in min_shift .. shift - 1
      BY DEF IInv, EInv, EncoderTypes, TypeOK
    <2> QED
      BY <2>1 DEF AgainInv, BestAgain, Exact
  <1> QED
    BY <1>2, <1>3, Invariance, PTL
=================================================================================
