------------------------------ MODULE DecoderProofs ------------------------------
(***************************************************************************)
(* The decoder keeps its types, reads inside what it indexes and leaves    *)
(* whole frames behind, for every codebook, stream and size of the format; *)
(* and it writes the vectors that the decoding process promises.           *)
(***************************************************************************)
EXTENDS Decoder, FiniteSetTheorems, WellFoundedInduction, TLAPS

---------------------------------------------------------------------------------
(* Numbers *)

(***************************************************************************)
(* Induction, over a set of numbers.  Of the intervals from 0 to a number  *)
(* that is not in it, one has none of the others in it, as strict          *)
(* inclusion of finite sets is well-founded.                               *)
(***************************************************************************)
LEMMA NumberInduction ==
  ASSUME NEW P, 0 \in P, \A n \in Nat : n \in P => n + 1 \in P
  PROVE  Nat \subseteq P
  <1> SUFFICES ASSUME NEW m \in Nat, m \notin P PROVE FALSE
    OBVIOUS
  <1> DEFINE F == {0 .. n : n \in {j \in Nat : j \notin P}}
             R == StrictSubsetOrdering(UNION F)
  <1>1. F # {} /\ F \subseteq FiniteSubsetsOf(UNION F)
    <2>1. \A n \in Nat : IsFiniteSet(0 .. n)
      <3>1. \A n \in Nat : 0 \in Int /\ n \in Int
        OBVIOUS
      <3> QED
        BY <3>1, FS_Interval
    <2> QED
      BY <2>1 DEF FiniteSubsetsOf
  <1>2. PICK I \in F : \A J \in F : ~(<<J, I>> \in R)
    <2>1. IsWellFoundedOn(R, FiniteSubsetsOf(UNION F))
      BY FS_StrictSubsetOrderingWellFounded
    <2> HIDE DEF R, F
    <2> QED
      BY <1>1, <2>1, WFMin, Zenon
  <1>3. PICK n \in Nat : n \notin P /\ I = 0 .. n
    BY <1>2
  <1>4. n - 1 \in Nat /\ 0 .. n - 1 \in F
    <2>1. n - 1 \in Nat /\ n - 1 \notin P
      BY <1>3
    <2> QED
      BY <2>1
  <1>5. 0 .. n - 1 \subseteq 0 .. n /\ 0 .. n - 1 # 0 .. n
    BY <1>3
  <1> QED
    BY <1>2, <1>3, <1>4, <1>5 DEF StrictSubsetOrdering

(* A quotient is determined by its remainder being in range. *)
LEMMA QuotientUnique ==
    ASSUME NEW m \in Nat \ {0}, NEW q \in Int, NEW r \in 0 .. m - 1
    PROVE  /\ (q * m + r) \div m = q
           /\ (q * m + r) % m = r
  <1> DEFINE x == q * m + r
  <1>1. x \in Int
    OBVIOUS
  <1> HIDE DEF x
  <1>2. x = q * m + r
    BY DEF x
  <1>3. x \div m = q
    BY <1>1, <1>2
  <1>4. x % m = r
    BY <1>1, <1>2, <1>3
  <1> QED
    BY <1>3, <1>4 DEF x

(* A number is its quotient times the divisor, plus its remainder. *)
LEMMA QuotientRemainder ==
    ASSUME NEW m \in Nat \ {0}, NEW x \in Int
    PROVE  /\ x \div m \in Int
           /\ x % m \in 0 .. m - 1
           /\ x = (x \div m) * m + (x % m)
  OBVIOUS

(* Whole multiples of the divisor pass through a division. *)
LEMMA QuotientAdd ==
    ASSUME NEW m \in Nat \ {0}, NEW x \in Int, NEW n \in Int
    PROVE  /\ (x + n * m) \div m = (x \div m) + n
           /\ (x + n * m) % m = x % m
  <1> DEFINE q == x \div m
             r == x % m
  <1>1. q \in Int /\ r \in 0 .. m - 1 /\ x = q * m + r
    BY QuotientRemainder
  <1> HIDE DEF q, r
  <1>2. q + n \in Int /\ x + n * m = (q + n) * m + r
    BY <1>1
  <1>3. ((q + n) * m + r) \div m = q + n /\ ((q + n) * m + r) % m = r
    BY <1>1, <1>2, QuotientUnique
  <1> QED
    BY <1>2, <1>3 DEF q, r

---------------------------------------------------------------------------------
(* The arithmetic of the sums *)

(* Clamping gives a 16-bit sample. *)
LEMMA Clamp16Type == \A x \in Int : Clamp16(x) \in Samples
  BY FormatAssumption DEF Clamp16, Clamp, Samples

(* A sum that wraps is an int. *)
LEMMA Int32Type == \A x \in Int : Int32(x) \in Accumulators
  <1> SUFFICES ASSUME NEW x \in Int PROVE Int32(x) \in Accumulators
    OBVIOUS
  <1>1. 2 * AccumulatorHalf \in Nat \ {0}
    BY FormatAssumption
  <1>2. (x + AccumulatorHalf) % (2 * AccumulatorHalf) \in 0 .. 2 * AccumulatorHalf - 1
    BY <1>1, QuotientRemainder, FormatAssumption
  <1> QED
    BY <1>2, FormatAssumption DEF Int32, Accumulators

(* A sum in range is itself. *)
LEMMA Int32Id == \A x \in Accumulators : Int32(x) = x
  <1> SUFFICES ASSUME NEW x \in Accumulators PROVE Int32(x) = x
    OBVIOUS
  <1>1. x + AccumulatorHalf \in 0 .. 2 * AccumulatorHalf - 1
    BY FormatAssumption DEF Accumulators
  <1>2. (0 * (2 * AccumulatorHalf) + (x + AccumulatorHalf)) % (2 * AccumulatorHalf)
          = x + AccumulatorHalf
    BY <1>1, QuotientUnique, FormatAssumption, 2 * AccumulatorHalf \in Nat \ {0}
  <1> QED
    BY <1>2, FormatAssumption DEF Int32, Accumulators

(* Wrapping a term of a sum before the sum wraps changes nothing. *)
LEMMA Int32Add == \A x, y \in Int : Int32(Int32(x) + y) = Int32(x + y)
  <1> SUFFICES ASSUME NEW x \in Int, NEW y \in Int
               PROVE  Int32(Int32(x) + y) = Int32(x + y)
    OBVIOUS
  <1> DEFINE m == 2 * AccumulatorHalf
             q == (x + AccumulatorHalf) \div m
  <1>1. m \in Nat \ {0} /\ x + AccumulatorHalf \in Int
    BY FormatAssumption
  <1> HIDE DEF m
  <1>2. q \in Int /\ (x + AccumulatorHalf) % m = (x + AccumulatorHalf) - q * m
    BY <1>1, QuotientRemainder, FormatAssumption
  <1>3. Int32(x) = x - q * m
    <2>1. Int32(x) = ((x + AccumulatorHalf) % m) - AccumulatorHalf
      BY DEF Int32, m
    <2> QED
      BY <1>1, <1>2, <2>1, FormatAssumption
  <1>4. (x + y + AccumulatorHalf + (-q) * m) % m = (x + y + AccumulatorHalf) % m
    <2>1. x + y + AccumulatorHalf \in Int /\ -q \in Int
      BY <1>2, FormatAssumption
    <2> HIDE DEF q
    <2> QED
      BY <1>1, <2>1, QuotientAdd
  <1>5. Int32(x) + y + AccumulatorHalf = x + y + AccumulatorHalf + (-q) * m
    BY <1>1, <1>2, <1>3, FormatAssumption
  <1> QED
    BY <1>4, <1>5 DEF Int32, m

LEMMA WholeType == \A x \in Int : Whole(x) \in Int
  BY FormatAssumption DEF Whole

---------------------------------------------------------------------------------
(* Bytes *)

(* A byte is two nibbles, and each extends to a residual. *)
LEMMA ByteNibbles ==
    ASSUME NEW byte \in Bytes
    PROVE  /\ byte \div (2 * NibbleHalf) \in Nibbles
           /\ byte % (2 * NibbleHalf) \in Nibbles
  <1> DEFINE m == 2 * NibbleHalf
  <1>1. m \in Nat \ {0} /\ byte \in Nat /\ byte < m * m
    BY FormatAssumption DEF Bytes
  <1> HIDE DEF m
  <1>2. byte \div m \in Int /\ byte % m \in 0 .. m - 1
          /\ byte = (byte \div m) * m + (byte % m)
    BY <1>1, QuotientRemainder
  <1>3. byte \div m >= 0
    BY <1>1
  <1>4. byte \div m <= m - 1
    BY <1>1
  <1> QED
    BY <1>2, <1>3, <1>4 DEF Nibbles, m

LEMMA Ext4Type == \A x \in Nibbles : Ext4(x) \in Residuals
  BY FormatAssumption DEF Nibbles, Ext4, Residuals

(* A lane is in the byte of its pair. *)
LEMMA LaneByte ==
    ASSUME NEW n \in Lanes
    PROVE  n \div 2 \in 0 .. (VectorSampleCount \div 2) - 1
  BY FormatAssumption DEF Lanes

LEMMA ResidualType ==
    ASSUME NEW bytes \in PackedVector, NEW n \in Lanes
    PROVE  ResidualAt(bytes, n) \in Residuals
  <1>1. bytes[n \div 2] \in Bytes
    BY LaneByte DEF PackedVector
  <1> QED
    BY <1>1, ByteNibbles, Ext4Type DEF ResidualAt

(* The fields of any control byte. *)
LEMMA ControlFields ==
    ASSUME NEW control \in Controls
    PROVE  /\ ScalingOf(control) \in 0 .. ScalingCount - 1
           /\ PredictorIndexOf(control) \in 0 .. PredictorLimit - 1
  <1> DEFINE q == control \div PredictorLimit
  <1>1. control \in Nat /\ control < ScalingCount * PredictorLimit
    BY FormatAssumption DEF Controls
  <1>2. q \in Int /\ control % PredictorLimit \in 0 .. PredictorLimit - 1
          /\ control = q * PredictorLimit + (control % PredictorLimit)
    BY <1>1, QuotientRemainder, FormatAssumption
  <1>3. q >= 0
    BY <1>1, FormatAssumption
  <1>4. q < ScalingCount
    BY <1>1, <1>2, FormatAssumption
  <1> QED
    BY <1>2, <1>3, <1>4, FormatAssumption DEF ScalingOf, PredictorIndexOf

---------------------------------------------------------------------------------
(* Types and bounds *)

(* The stream before the current frame names predictors that exist. *)
AcceptedSoFar ==
    \A f \in 1 .. frame :
        PredictorIndexOf(src[f].control) < codebook.predictor_count

(***************************************************************************)
(* The inductive invariant.  The types need the bounds (an element is what *)
(* its type says only when the index is in range), and the bounds need the *)
(* types.                                                                  *)
(***************************************************************************)
IInv == TypeOK /\ ReadsInBounds /\ OutputInStep /\ AcceptedSoFar

---------------------------------------------------------------------------------

(* Inside the loops of a frame, what they read is there. *)
LEMMA LoopReads ==
    ASSUME TypeOK, ReadsInBounds, pc \in {"previous", "residual"}
    PROVE  /\ Current \in Frame
           /\ PredictorIndex \in 0 .. codebook.predictor_count - 1
           /\ Predictor \in [0 .. codebook.order - 1 -> SampleVector]
           /\ \A j \in Lanes : ScaledResidual(j) \in Int
  <1>1. Current \in Frame
    BY DEF TypeOK, ReadsInBounds, Current
  <1>2. PredictorIndex \in 0 .. codebook.predictor_count - 1
    BY <1>1, ControlFields DEF TypeOK, ReadsInBounds, PredictorIndex, Frame, IsCodebook
  <1>3. Predictor \in [0 .. codebook.order - 1 -> SampleVector]
    BY <1>2 DEF TypeOK, IsCodebook, Predictor
  <1>4. ASSUME NEW j \in Lanes PROVE ScaledResidual(j) \in Int
    <2>1. Current.data[vector] \in PackedVector
      BY <1>1 DEF TypeOK, Frame
    <2>2. ResidualAt(Current.data[vector], j) \in Int
      BY <2>1, ResidualType, FormatAssumption DEF Residuals
    <2>3. ScalingOf(Current.control) \in 0 .. ScalingCount
      BY <1>1, ControlFields, FormatAssumption DEF Frame
    <2>4. 2 ^ ScalingOf(Current.control) \in Nat
      BY <2>3, ShiftAssumption
    <2> QED
      BY <2>2, <2>4 DEF ScaledResidual
  <1> QED
    BY <1>1, <1>2, <1>3, <1>4

LEMMA ZeroVectorType == ZeroVector \in SampleVector /\ ZeroVector \in [Lanes -> Accumulators]
  BY FormatAssumption DEF ZeroVector, SampleVector, Samples, Accumulators

(* What the decoder emits is 16-bit samples. *)
LEMMA OutputType ==
    ASSUME TypeOK PROVE Output \in SampleVector
  <1>1. \A i \in Lanes : accumulator[i] \in Int
    BY FormatAssumption DEF TypeOK, Accumulators
  <1>2. \A i \in Lanes : Clamp16(Whole(accumulator[i])) \in Samples
    BY <1>1, WholeType, Clamp16Type
  <1> QED
    BY <1>2 DEF Output, SampleVector

LEMMA InitInv == Init => IInv
  <1> SUFFICES ASSUME Init PROVE IInv
    OBVIOUS
  <1>1. TypeOK
    BY DecoderAssumption, ZeroVectorType, FormatAssumption DEF Init, TypeOK, Vectors
  <1> QED
    BY <1>1 DEF Init, IInv, ReadsInBounds, OutputInStep, AcceptedSoFar

---------------------------------------------------------------------------------

LEMMA RejectFrameInv == IInv /\ RejectFrame => IInv'
  <1> SUFFICES ASSUME IInv, RejectFrame PROVE IInv'
    OBVIOUS
  <1> USE DEF IInv, RejectFrame
  <1>1. TypeOK'
    BY DEF TypeOK
  <1>2. ReadsInBounds'
    BY DEF ReadsInBounds
  <1>3. OutputInStep' /\ AcceptedSoFar'
    BY DEF OutputInStep, AcceptedSoFar, PredictorMissing, PredictorIndex, Current
  <1> QED
    BY <1>1, <1>2, <1>3

LEMMA BeginFrameInv == IInv /\ BeginFrame => IInv'
  <1> SUFFICES ASSUME IInv, BeginFrame PROVE IInv'
    OBVIOUS
  <1> USE DEF IInv, BeginFrame, StartVector
  <1>1. TypeOK'
    BY ZeroVectorType, FormatAssumption DEF TypeOK, Vectors
  <1>2. ReadsInBounds'
    <2>1. PredictorIndex < codebook.predictor_count
      <3>1. src[frame + 1] \in Frame
        BY DEF TypeOK
      <3>2. PredictorIndex \in Int
        BY <3>1, ControlFields DEF PredictorIndex, Current, Frame
      <3> QED
        BY <3>2 DEF PredictorMissing, TypeOK, IsCodebook
    <2> QED
      BY <2>1 DEF ReadsInBounds, PredictorIndex, Current, TypeOK, IsCodebook
  <1>3. OutputInStep' /\ AcceptedSoFar'
    BY DEF OutputInStep, AcceptedSoFar, TypeOK
  <1> QED
    BY <1>1, <1>2, <1>3

LEMMA AccumulatePreviousInv == IInv /\ AccumulatePrevious => IInv'
  <1> SUFFICES ASSUME IInv, AccumulatePrevious PROVE IInv'
    OBVIOUS
  <1> USE DEF IInv, AccumulatePrevious
  <1>1. accumulator' \in [Lanes -> Accumulators]
    <2>1. Predictor[k] \in SampleVector
      <3>1. Predictor \in [0 .. codebook.order - 1 -> SampleVector]
        BY LoopReads
      <3>2. k \in 0 .. codebook.order - 1
        BY DEF TypeOK, IsCodebook
      <3> QED
        BY <3>1, <3>2
    <2>2. VectorSampleCount - codebook.order + k \in Lanes
      BY SMTT(60), FormatAssumption DEF TypeOK, IsCodebook, Lanes
    <2>3. state[VectorSampleCount - codebook.order + k] \in Int
      BY <2>2, FormatAssumption DEF TypeOK, SampleVector, Samples
    <2>4. ASSUME NEW i \in Lanes
          PROVE  accumulator[i]
                   + state[VectorSampleCount - codebook.order + k] * Predictor[k][i] \in Int
      <3>1. Predictor[k][i] \in Int /\ accumulator[i] \in Int
        BY SMTT(60), <2>1, FormatAssumption DEF TypeOK, SampleVector, Samples, Accumulators
      <3> QED
        BY <2>3, <3>1
    <2> QED
      BY <2>4, Int32Type
  <1>2. TypeOK'
    BY <1>1, FormatAssumption DEF TypeOK, IsCodebook
  <1>3. ReadsInBounds'
    BY DEF ReadsInBounds, PredictorIndex, Current, TypeOK, IsCodebook
  <1>4. OutputInStep' /\ AcceptedSoFar'
    BY DEF OutputInStep, AcceptedSoFar
  <1> QED
    BY <1>2, <1>3, <1>4

LEMMA BeginResidualsInv == IInv /\ BeginResiduals => IInv'
  <1> SUFFICES ASSUME IInv, BeginResiduals PROVE IInv'
    OBVIOUS
  <1> USE DEF IInv, BeginResiduals
  <1>1. v' \in SampleVector
    <2>1. CASE codebook.order > 0
      <3>1. codebook.order - 1 \in 0 .. codebook.order - 1
        BY <2>1 DEF TypeOK, IsCodebook
      <3> QED
        BY <2>1, <3>1, LoopReads
    <2>2. CASE codebook.order = 0
      BY <2>2, DecoderAssumption
    <2> QED
      BY <2>1, <2>2
  <1>2. TypeOK'
    BY <1>1, FormatAssumption DEF TypeOK
  <1>3. ReadsInBounds'
    BY DEF ReadsInBounds, PredictorIndex, Current
  <1>4. OutputInStep' /\ AcceptedSoFar'
    BY DEF OutputInStep, AcceptedSoFar
  <1> QED
    BY <1>2, <1>3, <1>4

LEMMA AccumulateResidualInv == IInv /\ AccumulateResidual => IInv'
  <1> SUFFICES ASSUME IInv, AccumulateResidual PROVE IInv'
    OBVIOUS
  <1> USE DEF IInv, AccumulateResidual
  <1>1. accumulator' \in [Lanes -> Accumulators]
    <2>1. k \in Lanes
      BY FormatAssumption DEF TypeOK, Lanes
    <2>2. ScaledResidual(k) \in Int /\ FixedOne \in Int
      BY <2>1, LoopReads, FormatAssumption
    <2> DEFINE residual == ScaledResidual(k)
    <2> HIDE DEF residual
    <2>3. ASSUME NEW i \in Lanes
          PROVE  (IF i < k THEN accumulator[i]
                  ELSE IF i = k THEN Int32(accumulator[i] + residual * FixedOne)
                  ELSE Int32(accumulator[i] + residual * v[i - k - 1])) \in Accumulators
      <3>1. accumulator[i] \in Accumulators /\ accumulator[i] \in Int
        BY FormatAssumption DEF TypeOK, Accumulators
      <3>2. accumulator[i] + residual * FixedOne \in Int
        BY <2>2, <3>1 DEF residual
      <3>3. CASE i > k
        <4>1. i - k - 1 \in Lanes
          BY <2>1, <3>3, FormatAssumption DEF Lanes
        <4>2. v[i - k - 1] \in Int
          BY <4>1, FormatAssumption DEF TypeOK, SampleVector, Samples
        <4>3. accumulator[i] + residual * v[i - k - 1] \in Int
          BY <2>2, <3>1, <4>2 DEF residual
        <4> QED
          BY <3>3, <4>3, Int32Type, <2>1, FormatAssumption DEF Lanes
      <3> QED
        BY <2>1, <3>1, <3>2, <3>3, Int32Type, FormatAssumption DEF Lanes
    <2> QED
      BY <2>3 DEF residual
  <1>2. TypeOK'
    BY <1>1, FormatAssumption DEF TypeOK
  <1>3. ReadsInBounds'
    BY DEF ReadsInBounds, PredictorIndex, Current
  <1>4. OutputInStep' /\ AcceptedSoFar'
    BY DEF OutputInStep, AcceptedSoFar
  <1> QED
    BY <1>2, <1>3, <1>4

LEMMA EmitVectorInv == IInv /\ EmitVector => IInv'
  <1> SUFFICES ASSUME IInv, EmitVector PROVE IInv'
    OBVIOUS
  <1> USE DEF IInv, EmitVector
  <1>1. Output \in SampleVector
    BY OutputType
  <1>2. frame < Len(src) /\ PredictorIndex < codebook.predictor_count
    BY DEF ReadsInBounds
  <1>3. /\ dest' \in Seq(SampleVector)
        /\ Len(dest') = Len(dest) + 1
        /\ dest'[Len(dest')] = Output
    BY <1>1 DEF TypeOK
  <1>4. CASE vector = 0
    <2> USE <1>4 DEF StartVector
    <2>1. TypeOK'
      BY <1>1, <1>3, ZeroVectorType, FormatAssumption DEF TypeOK, Vectors
    <2>2. ReadsInBounds'
      BY <1>2 DEF ReadsInBounds, PredictorIndex, Current, TypeOK, IsCodebook
    <2>3. OutputInStep' /\ AcceptedSoFar'
      BY SMTT(60), <1>3 DEF OutputInStep, AcceptedSoFar, TypeOK
    <2> QED
      BY <2>1, <2>2, <2>3
  <1>5. CASE vector = 1
    <2> USE <1>5
    <2>1. TypeOK'
      BY <1>1, <1>2, <1>3 DEF TypeOK
    <2>2. ReadsInBounds'
      BY DEF ReadsInBounds
    <2>3. OutputInStep'
      <3>1. Len(dest) = 2 * frame + 1 /\ frame \in Int
        BY DEF OutputInStep, TypeOK
      <3>2. pc' = "frame" /\ Len(dest') = 2 * frame'
        BY <1>3, <3>1
      <3>3. dest' # << >> /\ state' = dest'[Len(dest')]
        BY <1>3, <3>1
      <3> QED
        BY <3>2, <3>3 DEF OutputInStep
    <2>4. AcceptedSoFar'
      <3> SUFFICES ASSUME NEW f \in 1 .. frame + 1
                   PROVE  PredictorIndexOf(src[f].control) < codebook.predictor_count
        BY DEF AcceptedSoFar
      <3> QED
        BY <1>2 DEF AcceptedSoFar, PredictorIndex, Current, TypeOK
    <2> QED
      BY <2>1, <2>2, <2>3, <2>4
  <1> QED
    BY <1>4, <1>5 DEF TypeOK, Vectors

LEMMA ReturnInv == IInv /\ Return => IInv'
  BY DEF IInv, Return, TypeOK, ReadsInBounds, OutputInStep, AcceptedSoFar

LEMMA StutterInv == IInv /\ UNCHANGED vars => IInv'
  BY DEF IInv, vars, TypeOK, ReadsInBounds, OutputInStep, AcceptedSoFar, PredictorIndex,
         Current

---------------------------------------------------------------------------------

(* The types, the bounds and the output hold in every state of a call. *)
THEOREM DecoderInvariant == Spec => []IInv
  <1>1. IInv /\ [Next]_vars => IInv'
    BY RejectFrameInv, BeginFrameInv, AccumulatePreviousInv, BeginResidualsInv,
       AccumulateResidualInv, EmitVectorInv, ReturnInv, StutterInv
       DEF Next, Step, Terminating
  <1> QED
    BY InitInv, <1>1, PTL DEF Spec

(***************************************************************************)
(* vadpcm_decode keeps every variable in its type: what it outputs and     *)
(* carries as state are 16-bit samples, whatever the stream and however    *)
(* its sums wrap.                                                          *)
(***************************************************************************)
THEOREM DecoderTypes == Spec => []TypeOK
  <1>1. IInv => TypeOK
    BY DEF IInv
  <1> QED
    BY DecoderInvariant, <1>1, PTL

(* No loop of vadpcm_decode leaves the frame, the codebook or the state. *)
THEOREM DecoderReads == Spec => []ReadsInBounds
  <1>1. IInv => ReadsInBounds
    BY DEF IInv
  <1> QED
    BY DecoderInvariant, <1>1, PTL

(* A call that ends, well or not, has written whole frames up to where it   *)
(* stopped, and stopped at the first frame it could not decode.             *)
THEOREM DecoderOutput == Spec => []OutputInStep
  <1>1. IInv => OutputInStep
    BY DEF IInv
  <1> QED
    BY DecoderInvariant, <1>1, PTL

---------------------------------------------------------------------------------
(***************************************************************************)
(* The sums of the promise add up as the loops do: a sum of n + 1 terms is *)
(* the sum of the first n, and the last.                                   *)
(***************************************************************************)
LEMMA SumAddsUp ==
  ASSUME NEW n \in Nat, NEW t, \A j \in 0 .. n - 1 : t[j] \in Int
  PROVE  \E f : /\ f[0] = 0
                /\ \A m \in 0 .. n : f[m] \in Int /\ Promise!Sum(t, m) = f[m]
                /\ \A m \in 1 .. n : f[m] = f[m - 1] + t[m - 1]
  <1> DEFINE V(f, i) == IF i = 0 THEN 0 ELSE f[i - 1] + t[i - 1]
             E(f, a) == f = [i \in 0 .. a |-> V(f, i)]
             Some(a) == \E f \in [0 .. a -> Int] : E(f, a)
             P == {a \in Nat : a <= n => Some(a)}
  <1>1. 0 \in P
    <2> DEFINE f == [i \in 0 .. 0 |-> 0]
    <2>1. f \in [0 .. 0 -> Int] /\ \A i \in 0 .. 0 : f[i] = V(f, i)
      OBVIOUS
    <2>2. f = [i \in 0 .. 0 |-> f[i]]
      OBVIOUS
    <2>3. E(f, 0)
      <3> HIDE DEF V, f
      <3> QED
        BY <2>1, <2>2
    <2> HIDE DEF f, E
    <2> QED
      BY <2>1, <2>3
  <1>2. ASSUME NEW a \in Nat, a \in P PROVE a + 1 \in P
    <2> SUFFICES ASSUME a + 1 <= n PROVE Some(a + 1)
      <3> HIDE DEF Some
      <3> QED
        OBVIOUS
    <2>1. Some(a)
      <3> HIDE DEF Some
      <3> QED
        BY <1>2
    <2>2. PICK e \in [0 .. a -> Int] : E(e, a)
      BY <2>1
    <2> DEFINE f == [i \in 0 .. a + 1 |-> IF i = a + 1 THEN e[a] + t[a] ELSE e[i]]
    <2>3. f \in [0 .. a + 1 -> Int]
      <3>1. e[a] + t[a] \in Int
        OBVIOUS
      <3>2. \A i \in 0 .. a + 1 : i # a + 1 => i \in 0 .. a
        OBVIOUS
      <3>3. \A i \in 0 .. a : e[i] \in Int
        OBVIOUS
      <3> QED
        BY <3>1, <3>2, <3>3
    <2>4. \A i \in 0 .. a : e[i] = V(e, i)
      <3> HIDE DEF V
      <3> QED
        BY <2>2, Zenon
    <2>5. \A i \in 0 .. a + 1 : f[i] = V(f, i)
      <3> SUFFICES ASSUME NEW i \in 0 .. a + 1 PROVE f[i] = V(f, i)
        OBVIOUS
      <3>1. CASE i = a + 1
        BY <3>1
      <3>2. CASE i # a + 1 /\ i = 0
        <4>1. i \in 0 .. a
          BY <3>2
        <4> QED
          BY <2>4, <3>2, <4>1
      <3>3. CASE i # a + 1 /\ i # 0
        <4>1. i \in 0 .. a /\ i - 1 \in 0 .. a + 1 /\ i - 1 # a + 1
          BY <3>3
        <4> QED
          BY <2>4, <3>3, <4>1
      <3> QED
        BY <3>1, <3>2, <3>3
    <2>6. E(f, a + 1)
      <3>1. f = [i \in 0 .. a + 1 |-> f[i]]
        OBVIOUS
      <3> HIDE DEF V, f
      <3> QED
        BY <2>5, <3>1
    <2> HIDE DEF f, E
    <2> QED
      BY <2>3, <2>6
  <1>3. Nat \subseteq P
    <2> HIDE DEF P
    <2> QED
      BY <1>1, <1>2, NumberInduction, Zenon
  <1>4. PICK f \in [0 .. n -> Int] : E(f, n)
    <2>1. Some(n)
      <3> HIDE DEF Some
      <3> QED
        BY <1>3
    <2> QED
      BY <2>1
  <1>5. \A i \in 0 .. n : f[i] = V(f, i)
    <2> HIDE DEF V
    <2> QED
      BY <1>4, Zenon
  <1>6. ASSUME NEW m \in 0 .. n PROVE Promise!Sum(t, m) = f[m]
    <2> DEFINE sum == CHOOSE g : E(g, m)
    <2>1. E(sum, m)
      <3>1. Some(m)
        <4> HIDE DEF Some
        <4> QED
          BY <1>3
      <3> HIDE DEF E
      <3> QED
        BY <3>1, Zenon
    <2>2. Promise!Sum(t, m) = sum[m]
      BY Zenon DEF Promise!Sum
    <2> HIDE DEF sum
    <2>3. \A i \in 0 .. m : sum[i] = V(sum, i)
      <3> HIDE DEF V
      <3> QED
        BY <2>1, Zenon
    <2> DEFINE Q == {a \in Nat : a <= m => sum[a] = f[a]}
    <2>4. 0 \in Q
      BY <1>5, <2>3
    <2>5. ASSUME NEW a \in Nat, a \in Q PROVE a + 1 \in Q
      <3> SUFFICES ASSUME a + 1 <= m PROVE sum[a + 1] = f[a + 1]
        OBVIOUS
      <3>1. sum[a] = f[a] /\ a + 1 \in 0 .. m /\ a + 1 \in 0 .. n /\ a + 1 - 1 = a
        BY <2>5
      <3> QED
        BY <1>5, <2>3, <3>1
    <2>6. Nat \subseteq Q
      <3> HIDE DEF Q
      <3> QED
        BY <2>4, <2>5, NumberInduction, Zenon
    <2> QED
      BY <2>2, <2>6
  <1>7. f[0] = 0 /\ \A m \in 1 .. n : f[m] = f[m - 1] + t[m - 1]
    BY <1>5
  <1> QED
    BY <1>4, <1>6, <1>7

LEMMA SumSteps ==
  ASSUME NEW n \in Nat, NEW t, \A j \in 0 .. n : t[j] \in Int
  PROVE  /\ Promise!Sum(t, 0) = 0
         /\ Promise!Sum(t, n) \in Int
         /\ Promise!Sum(t, n + 1) = Promise!Sum(t, n) + t[n]
  <1>1. \A j \in 0 .. (n + 1) - 1 : t[j] \in Int
    OBVIOUS
  <1>2. PICK f : /\ f[0] = 0
                 /\ \A m \in 0 .. n + 1 : f[m] \in Int /\ Promise!Sum(t, m) = f[m]
                 /\ \A m \in 1 .. n + 1 : f[m] = f[m - 1] + t[m - 1]
    BY <1>1, SumAddsUp, n + 1 \in Nat
  <1>3. n + 1 \in 1 .. n + 1 /\ (n + 1) - 1 = n
    OBVIOUS
  <1> QED
    BY <1>2, <1>3

LEMMA SameArithmetic ==
  /\ Promise!Lanes = Lanes
  /\ \A x : Promise!Int32(x) = Int32(x)
  /\ \A x : Promise!Clamp16(x) = Clamp16(x)
  /\ \A x : Promise!Whole(x) = Whole(x)
  /\ \A x, y : Promise!ResidualAt(x, y) = ResidualAt(x, y)
  /\ \A x : Promise!ScalingOf(x) = ScalingOf(x)
  /\ \A x : Promise!PredictorIndexOf(x) = PredictorIndexOf(x)
  BY DEF Promise!Lanes, Promise!Int32, Promise!Clamp16, Promise!Clamp, Promise!Whole,
         Promise!ResidualAt, Promise!Ext4, Promise!ScalingOf, Promise!PredictorIndexOf,
         Lanes, Int32, Clamp16, Clamp, Whole, ResidualAt, Ext4, ScalingOf,
         PredictorIndexOf

---------------------------------------------------------------------------------
(* What the loops of a vector add up for lane i, in the order they do. *)

PreviousTerms(i) ==
    [j \in 0 .. codebook.order - 1 |->
        state[VectorSampleCount - codebook.order + j] * Predictor[j][i]]

EarlierTerms(i) ==
    [j \in 0 .. i - 1 |->
        ScaledResidual(j) * Predictor[codebook.order - 1][i - j - 1]]

(* The residuals before k that lane i has had its part of. *)
EarlierCount(i) == IF k < i THEN k ELSE i

PartialSum(i) ==
    Promise!Sum(PreviousTerms(i), codebook.order)
      + Promise!Sum(EarlierTerms(i), EarlierCount(i))
      + (IF i < k THEN ScaledResidual(i) * FixedOne ELSE 0)

(***************************************************************************)
(* Between any two iterations every lane holds, wrapped, the sum of the    *)
(* terms its loops have been through.                                      *)
(***************************************************************************)
SumsInStep ==
    /\ codebook.order > 0
    /\ pc = "previous" =>
         \A i \in Lanes : accumulator[i] = Int32(Promise!Sum(PreviousTerms(i), k))
    /\ pc = "residual" =>
         /\ v = Predictor[codebook.order - 1]
         /\ \A i \in Lanes : accumulator[i] = Int32(PartialSum(i))

LEMMA TermTypes ==
  ASSUME TypeOK, ReadsInBounds, pc \in {"previous", "residual"}, codebook.order > 0,
         NEW i \in Lanes
  PROVE  /\ \A j \in 0 .. codebook.order - 1 : PreviousTerms(i)[j] \in Int
         /\ \A j \in 0 .. i - 1 : EarlierTerms(i)[j] \in Int
  <1>0. codebook.order \in 1 .. VectorSampleCount
    BY DEF TypeOK, IsCodebook
  <1>1. ASSUME NEW j \in 0 .. codebook.order - 1, NEW n \in Lanes
        PROVE  Predictor[j][n] \in Int
    <2>1. Predictor[j] \in SampleVector
      BY LoopReads
    <2> QED
      BY <2>1, FormatAssumption DEF SampleVector, Samples
  <1>2. ASSUME NEW j \in 0 .. codebook.order - 1 PROVE PreviousTerms(i)[j] \in Int
    <2>1. VectorSampleCount - codebook.order + j \in Lanes
      BY <1>0, FormatAssumption DEF Lanes
    <2>2. state[VectorSampleCount - codebook.order + j] \in Int
      BY <2>1, FormatAssumption DEF TypeOK, SampleVector, Samples
    <2> QED
      BY <1>1, <2>2 DEF PreviousTerms
  <1>3. ASSUME NEW j \in 0 .. i - 1 PROVE EarlierTerms(i)[j] \in Int
    <2>1. j \in Lanes /\ i - j - 1 \in Lanes
      BY FormatAssumption DEF Lanes
    <2>2. codebook.order - 1 \in 0 .. codebook.order - 1
      BY <1>0
    <2>3. ScaledResidual(j) \in Int /\ Predictor[codebook.order - 1][i - j - 1] \in Int
      BY <1>1, <2>1, <2>2, LoopReads
    <2> QED
      BY <2>3 DEF EarlierTerms
  <1> QED
    BY <1>2, <1>3

LEMMA PreviousSumType ==
  ASSUME TypeOK, ReadsInBounds, pc \in {"previous", "residual"}, codebook.order > 0,
         NEW i \in Lanes
  PROVE  Promise!Sum(PreviousTerms(i), codebook.order) \in Int
  <1>1. codebook.order \in Nat
    BY DEF TypeOK, IsCodebook
  <1>2. \A j \in 0 .. codebook.order - 1 : PreviousTerms(i)[j] \in Int
    BY TermTypes
  <1>3. codebook.order \in 0 .. codebook.order
    BY <1>1
  <1> QED
    BY <1>1, <1>2, <1>3, SumAddsUp

(* Nothing is added up before the first iteration. *)
LEMMA SumOfNone == \A t : Promise!Sum(t, 0) = 0
  <1> SUFFICES ASSUME NEW t PROVE Promise!Sum(t, 0) = 0
    OBVIOUS
  <1>1. \A j \in 0 .. 0 - 1 : t[j] \in Int
    OBVIOUS
  <1> QED
    BY <1>1, SumAddsUp, 0 \in Nat

LEMMA Int32Zero == Int32(0) = 0
  BY Int32Id, FormatAssumption DEF Accumulators

(* A vector starts with its sums at 0. *)
LEMMA StartVectorSums ==
  ASSUME codebook'.order > 0, StartVector PROVE SumsInStep'
  <1>1. ASSUME NEW i \in Lanes PROVE accumulator'[i] = Int32(Promise!Sum(PreviousTerms(i), k))'
    <2>1. Promise!Sum(PreviousTerms(i)', 0) = 0
      BY SumOfNone
    <2> QED
      BY <2>1, Int32Zero DEF StartVector, ZeroVector
  <1> QED
    BY <1>1 DEF SumsInStep, StartVector

LEMMA AccumulatePreviousSums == IInv /\ SumsInStep /\ AccumulatePrevious => SumsInStep'
  <1> SUFFICES ASSUME IInv, SumsInStep, AccumulatePrevious PROVE SumsInStep'
    OBVIOUS
  <1> USE DEF AccumulatePrevious
  <1>1. ASSUME NEW i \in Lanes PROVE accumulator'[i] = Int32(Promise!Sum(PreviousTerms(i), k))'
    <2> DEFINE t == PreviousTerms(i)
               S == Promise!Sum(t, k)
    <2>1. PreviousTerms(i)' = t
      BY DEF PreviousTerms, Predictor, PredictorIndex, Current
    <2>2. k \in Nat /\ k \in 0 .. codebook.order - 1
      BY DEF IInv, TypeOK, IsCodebook
    <2>3. \A j \in 0 .. k : t[j] \in Int
      BY <2>2, TermTypes DEF IInv, SumsInStep, TypeOK, IsCodebook
    <2>4. S \in Int /\ t[k] \in Int /\ Promise!Sum(t, k + 1) = S + t[k]
      <3> HIDE DEF t
      <3> QED
        BY <2>2, <2>3, SumSteps
    <2>5. t[k] = state[VectorSampleCount - codebook.order + k] * Predictor[k][i]
      BY <2>2 DEF PreviousTerms
    <2>6. accumulator'[i] = Int32(accumulator[i] + t[k])
      <3> HIDE DEF t
      <3> QED
        BY <2>5
    <2>7. accumulator[i] = Int32(S)
      BY DEF SumsInStep
    <2>8. (Promise!Sum(PreviousTerms(i), k))' = Promise!Sum(t, k + 1)
      <3> HIDE DEF t
      <3> QED
        BY <2>1
    <2> HIDE DEF t, S
    <2> QED
      BY <2>4, <2>6, <2>7, <2>8, Int32Add
  <1> QED
    BY <1>1 DEF SumsInStep

LEMMA BeginResidualsSums == IInv /\ SumsInStep /\ BeginResiduals => SumsInStep'
  <1> SUFFICES ASSUME IInv, SumsInStep, BeginResiduals PROVE SumsInStep'
    OBVIOUS
  <1> USE DEF BeginResiduals
  <1>1. codebook.order \in Nat /\ codebook.order > 0
    BY DEF SumsInStep, IInv, TypeOK, IsCodebook
  <1>2. v' = Predictor'[codebook'.order - 1]
    BY <1>1 DEF Predictor, PredictorIndex, Current
  <1>3. ASSUME NEW i \in Lanes PROVE accumulator'[i] = Int32(PartialSum(i))'
    <2> DEFINE t == PreviousTerms(i)
               S == Promise!Sum(t, codebook.order)
    <2>1. PreviousTerms(i)' = t
      BY DEF PreviousTerms, Predictor, PredictorIndex, Current
    <2>2. S \in Int
      BY <1>1, PreviousSumType DEF IInv
    <2>3. i >= 0
      BY FormatAssumption DEF Lanes
    <2>4. EarlierCount(i)' = 0 /\ ~(i < k')
      BY <2>3, FormatAssumption DEF EarlierCount, Lanes
    <2>5. Promise!Sum(EarlierTerms(i)', 0) = 0
      BY SumOfNone
    <2>6. PartialSum(i)' = S + 0 + 0
      <3> HIDE DEF t
      <3> QED
        BY <2>1, <2>4, <2>5 DEF PartialSum
    <2>7. accumulator'[i] = Int32(S)
      BY DEF SumsInStep
    <2> HIDE DEF S
    <2> QED
      BY <2>2, <2>6, <2>7
  <1> QED
    BY <1>1, <1>2, <1>3 DEF SumsInStep

LEMMA AccumulateResidualSums == IInv /\ SumsInStep /\ AccumulateResidual => SumsInStep'
  <1> SUFFICES ASSUME IInv, SumsInStep, AccumulateResidual PROVE SumsInStep'
    OBVIOUS
  <1> USE DEF AccumulateResidual
  <1>1. codebook.order \in Nat /\ codebook.order > 0 /\ k \in Lanes /\ k \in Nat
    BY FormatAssumption DEF SumsInStep, IInv, TypeOK, IsCodebook, Lanes
  <1>2. v = Predictor[codebook.order - 1] /\ v' = Predictor'[codebook'.order - 1]
    BY DEF SumsInStep, Predictor, PredictorIndex, Current
  <1>3. ASSUME NEW i \in Lanes PROVE accumulator'[i] = Int32(PartialSum(i))'
    <2> DEFINE t == PreviousTerms(i)
               e == EarlierTerms(i)
               S == Promise!Sum(t, codebook.order)
               r == ScaledResidual(k)
    <2>0. i \in Nat
      BY FormatAssumption DEF Lanes
    <2>1. /\ PreviousTerms(i)' = t /\ EarlierTerms(i)' = e
          /\ ScaledResidual(i)' = ScaledResidual(i)
      BY DEF PreviousTerms, EarlierTerms, ScaledResidual, Predictor, PredictorIndex, Current
    <2>2. S \in Int
      BY <1>1, PreviousSumType DEF IInv
    <2>3. \A j \in 0 .. i - 1 : e[j] \in Int
      BY <1>1, TermTypes DEF IInv
    <2>4. r \in Int /\ ScaledResidual(i) \in Int /\ r * FixedOne \in Int
      BY <1>1, LoopReads, FormatAssumption DEF IInv
    <2>5. accumulator[i] = Int32(PartialSum(i))
      BY DEF SumsInStep
    <2> HIDE DEF t, e, S
    <2>6. CASE i < k
      <3>1. accumulator'[i] = accumulator[i]
        BY <1>1, <2>0, <2>6
      <3>2. EarlierCount(i) = i /\ EarlierCount(i)' = i /\ i < k'
        BY <1>1, <2>0, <2>6 DEF EarlierCount
      <3>3. PartialSum(i)' = PartialSum(i)
        BY <2>1, <2>6, <3>2 DEF PartialSum, t, e
      <3> QED
        BY <2>5, <3>1, <3>3
    <2>7. CASE i = k
      <3>1. accumulator'[i] = Int32(accumulator[i] + r * FixedOne)
        BY <1>1, <2>7
      <3>2. EarlierCount(i) = i /\ EarlierCount(i)' = i /\ i < k' /\ ~(i < k)
        BY <1>1, <2>7 DEF EarlierCount
      <3>3. Promise!Sum(e, i) \in Int
        BY <2>0, <2>3, SumAddsUp
      <3>4. PartialSum(i) = S + Promise!Sum(e, i) + 0
        BY <3>2 DEF PartialSum, S, t, e
      <3>5. PartialSum(i)' = S + Promise!Sum(e, i) + r * FixedOne
        BY <2>1, <2>7, <3>2 DEF PartialSum, S, t, e
      <3>6. PartialSum(i) \in Int /\ PartialSum(i)' = PartialSum(i) + r * FixedOne
        <4> HIDE DEF r
        <4> QED
          BY <2>2, <2>4, <3>3, <3>4, <3>5
      <3> HIDE DEF r
      <3> QED
        BY <2>4, <2>5, <3>1, <3>6, Int32Add
    <2>8. CASE i > k
      <3>1. accumulator'[i] = Int32(accumulator[i] + r * v[i - k - 1])
        BY <1>1, <2>0, <2>8
      <3>2. EarlierCount(i) = k /\ EarlierCount(i)' = k + 1 /\ ~(i < k) /\ ~(i < k')
        BY <1>1, <2>0, <2>8 DEF EarlierCount
      <3>3. k \in 0 .. i - 1 /\ \A j \in 0 .. k : e[j] \in Int
        BY <1>1, <2>0, <2>3, <2>8
      <3>4. /\ Promise!Sum(e, k) \in Int /\ e[k] \in Int
            /\ Promise!Sum(e, k + 1) = Promise!Sum(e, k) + e[k]
        BY <1>1, <3>3, SumSteps
      <3>5. e[k] = r * v[i - k - 1]
        BY <1>2, <3>3 DEF e, EarlierTerms
      <3>6. PartialSum(i) = S + Promise!Sum(e, k) + 0
        BY <3>2 DEF PartialSum, S, t, e
      <3>7. PartialSum(i)' = S + Promise!Sum(e, k + 1) + 0
        BY <2>1, <3>2 DEF PartialSum, S, t, e
      <3>8. PartialSum(i) \in Int /\ PartialSum(i)' = PartialSum(i) + e[k]
        BY <2>2, <3>4, <3>6, <3>7
      <3> QED
        BY <2>5, <3>1, <3>4, <3>5, <3>8, Int32Add
    <2> QED
      BY <1>1, <2>0, <2>6, <2>7, <2>8
  <1> QED
    BY <1>1, <1>2, <1>3 DEF SumsInStep

LEMMA SumsStep == IInv /\ SumsInStep /\ [Next]_vars => SumsInStep'
  <1> SUFFICES ASSUME IInv, SumsInStep, [Next]_vars PROVE SumsInStep'
    OBVIOUS
  <1>1. CASE BeginFrame
    BY <1>1, StartVectorSums DEF BeginFrame, SumsInStep
  <1>2. CASE AccumulatePrevious
    BY <1>2, AccumulatePreviousSums
  <1>3. CASE BeginResiduals
    BY <1>3, BeginResidualsSums
  <1>4. CASE AccumulateResidual
    BY <1>4, AccumulateResidualSums
  <1>5. CASE EmitVector
    <2>1. CASE vector = 0
      BY <1>5, <2>1, StartVectorSums DEF EmitVector, SumsInStep
    <2>2. CASE vector # 0
      BY <1>5, <2>2 DEF EmitVector, SumsInStep
    <2> QED
      BY <2>1, <2>2
  <1>6. CASE RejectFrame \/ Return
    BY <1>6 DEF RejectFrame, Return, SumsInStep
  <1>7. CASE UNCHANGED vars
    BY <1>7 DEF vars, SumsInStep, PartialSum, PreviousTerms, EarlierTerms, EarlierCount,
                ScaledResidual, Predictor, PredictorIndex, Current
  <1> QED
    BY <1>1, <1>2, <1>3, <1>4, <1>5, <1>6, <1>7 DEF Next, Step, Terminating

---------------------------------------------------------------------------------

(* The lanes of a vector, all through their loops, are what the promise adds up. *)
LEMMA EmitsPromise ==
  ASSUME IInv, SumsInStep, EmitVector
  PROVE  Promise!DecodeVector
  <1> USE DEF EmitVector
  <1> DEFINE lanes == Promise!Lanes
             half  == IF pc \in {"previous", "residual"} THEN vector ELSE 0
             residual == [i \in lanes |->
                             Promise!ResidualAt(src[frame + 1].data[half], i)
                               * 2 ^ Promise!ScalingOf(src[frame + 1].control)]
             predictor == codebook.vector[Promise!PredictorIndex]
             sample(i) == Promise!Clamp16(Promise!Whole(Promise!Int32(
                            Promise!Total(predictor, residual, i))))
             output == [i \in lanes |-> sample(i)]
  <1>1. /\ frame < Len(src) /\ Promise!PredictorIndex < codebook.predictor_count
        /\ lanes = Lanes /\ half = vector
    BY SameArithmetic DEF IInv, ReadsInBounds, Promise!PredictorIndex, PredictorIndex, Current
  <1>2. predictor = Predictor /\ \A j \in Lanes : residual[j] = ScaledResidual(j)
    <2>1. predictor = Predictor
      BY SameArithmetic DEF Predictor, PredictorIndex, Current, Promise!PredictorIndex
    <2>2. residual = [i \in Lanes |-> ScaledResidual(i)]
      BY <1>1, SameArithmetic DEF ScaledResidual, Current
    <2> HIDE DEF residual
    <2> QED
      BY <2>1, <2>2
  <1> HIDE DEF residual, predictor
  <1>3. ASSUME NEW i \in Lanes
        PROVE  PartialSum(i) = Promise!Total(predictor, residual, i)
    <2>1. i \in Nat /\ i < k /\ EarlierCount(i) = i
      BY FormatAssumption DEF Lanes, EarlierCount
    <2>2. EarlierTerms(i)
            = [j \in 0 .. i - 1 |-> residual[j] * predictor[codebook.order - 1][i - j - 1]]
      <3>1. \A j \in 0 .. i - 1 : j \in Lanes
        BY FormatAssumption DEF Lanes
      <3> QED
        BY <1>2, <3>1 DEF EarlierTerms
    <2>3. PreviousTerms(i)
            = [j \in 0 .. codebook.order - 1 |->
                 state[VectorSampleCount - codebook.order + j] * predictor[j][i]]
      BY <1>2 DEF PreviousTerms
    <2> QED
      BY <1>2, <2>1, <2>2, <2>3 DEF PartialSum, Promise!Total
  <1>4. Output = output
    <2>1. \A i \in Lanes : Clamp16(Whole(accumulator[i])) = sample(i)
      BY <1>3, SameArithmetic DEF SumsInStep
    <2> HIDE DEF sample, lanes
    <2> QED
      BY <1>1, <2>1 DEF Output
  <1>5. state' = output /\ dest' = Append(dest, output)
    <2> HIDE DEF output
    <2> QED
      BY <1>4
  <1>6. (IF pc \in {"previous", "residual"} THEN vector ELSE 0)' = 1 - half
    BY <1>1 DEF StartVector
  <1>7. frame' = frame + half
    BY <1>1 DEF IInv, TypeOK
  <1>8. /\ (IF pc \in {"ok", "invalid"} THEN pc ELSE "running") = "running"
        /\ UNCHANGED <<codebook, src, IF pc \in {"ok", "invalid"} THEN pc ELSE "running">>
    BY DEF StartVector
  <1> HIDE DEF EmitVector
  <1> QED
    BY <1>1, <1>5, <1>6, <1>7, <1>8 DEF Promise!DecodeVector, residual, predictor

LEMMA PromiseInit == Init => Promise!Init
  BY SameArithmetic DEF Init, Promise!Init, ZeroVector

LEMMA PromiseStep ==
  IInv /\ SumsInStep /\ [Next]_vars => [Promise!Next]_(Promise!vars)
  <1> SUFFICES ASSUME IInv, SumsInStep, [Next]_vars
               PROVE  Promise!Next \/ UNCHANGED Promise!vars
    OBVIOUS
  <1>1. CASE RejectFrame
    BY <1>1, SameArithmetic
       DEF RejectFrame, PredictorMissing, PredictorIndex, Current,
           Promise!Next, Promise!Reject, Promise!PredictorIndex
  <1>2. CASE BeginFrame
    BY <1>2 DEF BeginFrame, StartVector, Promise!vars
  <1>3. CASE AccumulatePrevious
    BY <1>3 DEF AccumulatePrevious, Promise!vars
  <1>4. CASE BeginResiduals
    BY <1>4 DEF BeginResiduals, Promise!vars
  <1>5. CASE AccumulateResidual
    BY <1>5 DEF AccumulateResidual, Promise!vars
  <1>6. CASE EmitVector
    BY <1>6, EmitsPromise DEF Promise!Next
  <1>7. CASE Return
    BY <1>7 DEF Return, Promise!Next, Promise!Finish
  <1>8. CASE UNCHANGED vars
    BY <1>8 DEF vars, Promise!vars
  <1> QED
    BY <1>1, <1>2, <1>3, <1>4, <1>5, <1>6, <1>7, <1>8 DEF Next, Step, Terminating

(***************************************************************************)
(* Each vector vadpcm_decode writes is the decoding process's function of  *)
(* the vector before it, the residuals and the predictor, for every        *)
(* codebook of order 1 or more: sums kept in wrapping ints, in the order   *)
(* of the loops, come to the promised sum, and the other steps are         *)
(* invisible.  It is the safety part of ImplementsVectorDecoder; that the  *)
(* call ends is its other part.                                            *)
(***************************************************************************)
THEOREM StepsAreVectors ==
  codebook.order > 0 /\ Spec => Promise!Init /\ [][Promise!Next]_(Promise!vars)
  <1>1. codebook.order > 0 /\ Init => SumsInStep
    BY DEF Init, SumsInStep
  <1> QED
    BY <1>1, SumsStep, PromiseInit, PromiseStep, DecoderInvariant, PTL DEF Spec
=================================================================================
