------------------------------ MODULE VadpcmFormat ------------------------------
(***************************************************************************)
(* The numbers of the VADPCM format and the conversions both directions of *)
(* the codec share (src/codec/vadpcm.h, decode.c, encode.c).               *)
(*                                                                         *)
(* Every width of the C code is a constant, so that the model checker can  *)
(* take a small format and the proofs hold for the real one:               *)
(*                                                                         *)
(*                          code                 value in the code         *)
(*   VectorSampleCount      kVADPCMVectorSampleCount           8           *)
(*   SampleMax              INT16_MAX                     0x7fff           *)
(*   FixedOne               the fixed-point unit         1 << 11           *)
(*   AccumulatorHalf        an int is -2^31 .. 2^31-1       2^31           *)
(*   NibbleHalf             a residual is -8 .. 7              8           *)
(*   MaxShift               greatest scaling the encoder uses 12           *)
(*   ScalingCount           values of the scaling field       16           *)
(*   PredictorLimit         values of the predictor field     16           *)
(***************************************************************************)
EXTENDS Integers

CONSTANTS VectorSampleCount, SampleMax, FixedOne, AccumulatorHalf, NibbleHalf,
          MaxShift, ScalingCount, PredictorLimit

ASSUME FormatAssumption ==
    /\ VectorSampleCount \in Nat \ {0, 1}
    /\ VectorSampleCount % 2 = 0
    /\ SampleMax \in Nat
    /\ FixedOne \in Nat \ {0}
    /\ AccumulatorHalf \in Nat \ {0}
    /\ NibbleHalf \in Nat \ {0}
    /\ MaxShift \in Nat
    /\ ScalingCount \in Nat
    /\ MaxShift < ScalingCount
    /\ PredictorLimit \in Nat \ {0}
    /\ NibbleHalf <= AccumulatorHalf

(***************************************************************************)
(* 2 ^ n, as far as a shift needs it, and the room an int has: a prediction *)
(* within reach of a sample, plus one quantization step, does not wrap.    *)
(* The code has (2^15 + 2^12) * 2^11 < 2^31.                               *)
(***************************************************************************)
ASSUME ShiftAssumption ==
    /\ \A n \in 0 .. ScalingCount : 2 ^ n \in Nat \ {0}
    /\ \A n \in 0 .. MaxShift : 2 ^ n <= 2 ^ MaxShift
    /\ (SampleMax + 1 + 2 ^ MaxShift) * FixedOne <= AccumulatorHalf

Lanes   == 0 .. VectorSampleCount - 1   \* the samples of a vector
Vectors == 0 .. 1                       \* the vectors of a frame

Samples   == -SampleMax - 1 .. SampleMax                \* int16_t
Residuals == -NibbleHalf .. NibbleHalf - 1              \* a signed nibble
Nibbles   == 0 .. 2 * NibbleHalf - 1                    \* x & 15
Bytes     == 0 .. 4 * NibbleHalf * NibbleHalf - 1       \* a pair of nibbles
Controls  == 0 .. ScalingCount * PredictorLimit - 1     \* the control byte

Accumulators == -AccumulatorHalf .. AccumulatorHalf - 1 \* int

SampleVector == [Lanes -> Samples]

(***************************************************************************)
(* x >> 11 on a negative int is an arithmetic shift in every compiler the  *)
(* project builds with: it rounds towards minus infinity, as \div does.    *)
(***************************************************************************)
Whole(x) == x \div FixedOne

(***************************************************************************)
(* int arithmetic past its range.  It is undefined in C, the builds of the *)
(* project wrap, and the sums of the codec can leave the range: a product  *)
(* of two 16-bit numbers takes 31 bits, and a lane adds up to nine.        *)
(***************************************************************************)
Int32(x) == ((x + AccumulatorHalf) % (2 * AccumulatorHalf)) - AccumulatorHalf

Clamp(x, lo, hi) == IF x < lo THEN lo ELSE IF x > hi THEN hi ELSE x

Clamp16(x) == Clamp(x, -SampleMax - 1, SampleMax)

(* Nibble and Ext4 are inverse on residuals: x & 15 and its sign extension. *)
Nibble(r) == r % (2 * NibbleHalf)
Ext4(x)   == IF x > NibbleHalf - 1 THEN x - 2 * NibbleHalf ELSE x

(* The byte of a pair of samples: the earlier one in the high nibble. *)
PackByte(hi, lo) == Nibble(hi) * (2 * NibbleHalf) + Nibble(lo)

(* The residual of lane k, from the bytes of its vector. *)
ResidualAt(bytes, k) ==
    LET byte == bytes[k \div 2]
    IN  IF k % 2 = 0 THEN Ext4(byte \div (2 * NibbleHalf))
                     ELSE Ext4(byte % (2 * NibbleHalf))

(* The control byte holds the scaling above the predictor index. *)
Control_Swapped(scaling, predictor) == predictor * PredictorLimit + scaling  \* faulty
Control(scaling, predictor) == scaling * PredictorLimit + predictor
ScalingOf(control)        == control \div PredictorLimit
PredictorIndexOf(control) == control % PredictorLimit

(* An encoded frame: the control byte and the bytes of its two vectors. *)
PackedVector == [0 .. (VectorSampleCount \div 2) - 1 -> Bytes]
Frame == [control : Controls, data : [Vectors -> PackedVector]]

(***************************************************************************)
(* A codebook: the vectors of each predictor.  The code keeps them in one  *)
(* array, predictor p at order * p; vector j of predictor p is here        *)
(* vector[p][j].                                                           *)
(***************************************************************************)
IsCodebook(c) ==
    /\ DOMAIN c = {"order", "predictor_count", "vector"}
    /\ c.order \in 0 .. VectorSampleCount
    /\ c.predictor_count \in 1 .. PredictorLimit
    /\ c.vector \in [0 .. c.predictor_count - 1 ->
                       [0 .. c.order - 1 -> SampleVector]]
=================================================================================
