--------------------------------- MODULE Encoder ---------------------------------
(***************************************************************************)
(* vadpcm_encode_data (src/codec/encode.c), one step per sample of each of *)
(* its passes.  A sound is encoded by calls of any number of frames each;  *)
(* what one call leaves to the next is in encoder_state, and what a frame  *)
(* leaves to the next of the same call is in state[0..1] and rng.          *)
(*                                                                         *)
(*   "call"   between calls                                                *)
(*   "frame"  at the head of the frame loop                                *)
(*   "scan"   the full-precision residual of the frame is computed         *)
(*   "try"    the frame is encoded with the scaling shift                  *)
(*   "keep"   a candidate encoding is complete                             *)
(*   "next"   at the head of the loop over shifts                          *)
(*                                                                         *)
(* The square errors are doubles in the code; they hold sums of squares of *)
(* integers below 2^53, so they are the integers.                          *)
(***************************************************************************)
EXTENDS VadpcmFormat, Sequences

CONSTANTS
    Codebooks,      \* the codebooks, of order 2
    Sources,        \* sounds: frames of two vectors of samples and a predictor
    RngModulus, RngMultiplier, RngIncrement     \* 2^32, 0xd9f5, 0x6487ed51

ASSUME EncoderAssumption ==
    /\ \A c \in Codebooks : IsCodebook(c) /\ c.order = 2
    /\ Sources \subseteq Seq([samples : [Vectors -> SampleVector],
                             predictor : 0 .. PredictorLimit - 1])
    /\ RngModulus \in Nat \ {0}
    /\ RngMultiplier \in Nat
    /\ RngIncrement \in Nat

VARIABLES
    codebook,
    source,         \* the arguments src and predictors, frame by frame
    epc,
    encoder_state,  \* struct vadpcm_encoder_state: data[0..1] and rng
    stop,           \* the frame the call stops at
    state,          \* state[0..1] carried, state[2..3] of the frame
    rng, init_rng,  \* rng_state and init_state
    vector, i, accumulator,
    min, max,       \* the range of the full-precision residual
    shift, max_shift, min_shift,
    s0, s1,         \* the last two outputs
    fout,           \* the bytes of the candidate
    error, best_error,
    best,           \* the frame in dest being overwritten by candidates
    tried,          \* history: the candidates of the frame, by their scaling
    dest,           \* the frames written
    error_sum       \* stats->error_mean_square before it is scaled

scanVars  == <<min, max>>
tryVars   == <<shift, fout, error>>
keepVars  == <<best, best_error>>
frameVars == <<init_rng, min_shift, max_shift, tried>>
callVars  == <<codebook, source, encoder_state, stop>>
outVars   == <<dest, error_sum>>

vars == <<callVars, epc, state, rng, vector, i, accumulator, s0, s1,
          scanVars, tryVars, keepVars, frameVars, outVars>>

ZeroVector == [j \in Lanes |-> 0]
ZeroBytes  == [j \in 0 .. (VectorSampleCount \div 2) - 1 |-> 0]
ZeroFrame  == [control |-> 0, data |-> [x \in Vectors |-> ZeroBytes]]

Rng(r) == (r * RngMultiplier + RngIncrement) % RngModulus

(* The top n bits of rng: (rng >> 16) >> (16 - n). *)
Bias_Wide(r, n) == (2 * r * 2 ^ n) \div RngModulus   \* faulty
Bias_Centred(r, n) == ((r * 2 ^ n) \div RngModulus) - (2 ^ n \div 2)   \* faulty
Bias(r, n) == (r * 2 ^ n) \div RngModulus

input == source[Len(dest) + 1]
pvec  == codebook.vector[input.predictor]

ZeroState == [data |-> [j \in 0 .. 1 |-> 0], rng |-> 0]

(* Both struct vadpcm_encoder_state and the scratch start at zero. *)
Init ==
    /\ codebook \in Codebooks
    /\ source \in Sources
    /\ \A f \in DOMAIN source : source[f].predictor < codebook.predictor_count
    /\ epc = "call"
    /\ encoder_state = ZeroState
    /\ stop = 0
    /\ state = [j \in 0 .. 3 |-> 0]
    /\ rng = 0 /\ init_rng = 0
    /\ vector = 0 /\ i = 0 /\ accumulator = ZeroVector
    /\ min = 0 /\ max = 0
    /\ shift = 0 /\ min_shift = 0 /\ max_shift = 0
    /\ s0 = 0 /\ s1 = 0
    /\ fout = ZeroFrame.data
    /\ error = 0 /\ best_error = 0
    /\ best = ZeroFrame
    /\ tried = << >>
    /\ dest = << >>
    /\ error_sum = 0

---------------------------------------------------------------------------------
(* A call, of n frames. *)

BeginCall(n) ==
    /\ epc = "call"
    /\ stop' = Len(dest) + n
    /\ state' = [state EXCEPT ![0] = encoder_state.data[0],
                             ![1] = encoder_state.data[1]]
    /\ rng' = encoder_state.rng
    /\ error_sum' = 0
    /\ epc' = "frame"
    /\ UNCHANGED <<codebook, source, encoder_state, vector, i, accumulator, s0, s1,
                   scanVars, tryVars, keepVars, frameVars, dest>>

(* Faulty: every call draws the same dither. *)
SavedState_KeepsRng ==
    [data |-> [j \in 0 .. 1 |-> state[j]], rng |-> encoder_state.rng]

SavedState == [data |-> [j \in 0 .. 1 |-> state[j]], rng |-> rng]

EndCall ==
    /\ epc = "frame"
    /\ Len(dest) = stop
    /\ encoder_state' = SavedState
    /\ epc' = "call"
    /\ UNCHANGED <<codebook, source, stop, state, rng, vector, i, accumulator, s0, s1,
                   scanVars, tryVars, keepVars, frameVars, outVars>>

---------------------------------------------------------------------------------
(* The full-precision residual, which decides the scalings to try. *)

(* The sums the scan of vector x starts from. *)
ScanStart(x, p0, p1) ==
    [j \in Lanes |->
       Int32(input.samples[x][j] * FixedOne - p0 * pvec[0][j] - p1 * pvec[1][j])]

(***************************************************************************)
(* state[2..3] hold the last samples of the first vector while the frame   *)
(* is scanned, and the last outputs of the best candidate afterwards.      *)
(***************************************************************************)
BeginFrame ==
    /\ epc = "frame"
    /\ Len(dest) < stop
    /\ state' = [state EXCEPT
                   ![2] = input.samples[0][VectorSampleCount - 2],
                   ![3] = input.samples[0][VectorSampleCount - 1]]
    /\ min' = 0
    /\ max' = 0
    /\ epc' = "scan"
    /\ vector' = 0
    /\ i' = 0
    /\ accumulator' = ScanStart(0, state[0], state[1])
    /\ UNCHANGED <<callVars, rng, s0, s1, frameVars, tryVars, keepVars, outVars>>

ScanSample ==
    /\ epc = "scan"
    /\ i < VectorSampleCount
    /\ LET s == Whole(accumulator[i])
       IN  /\ min' = IF s < min THEN s ELSE min
           /\ max' = IF s > max THEN s ELSE max
           /\ accumulator' =
                [j \in Lanes |->
                   IF j > i THEN Int32(accumulator[j] - s * pvec[1][j - i - 1])
                            ELSE accumulator[j]]
    /\ i' = i + 1
    /\ UNCHANGED <<callVars, epc, state, rng, vector, s0, s1, frameVars, tryVars,
                   keepVars, outVars>>

ScanSecondVector ==
    /\ epc = "scan"
    /\ i = VectorSampleCount
    /\ vector = 0
    /\ vector' = 1
    /\ i' = 0
    /\ accumulator' = ScanStart(1, state[2], state[3])
    /\ UNCHANGED <<callVars, epc, state, rng, s0, s1, scanVars, frameVars, tryVars,
                   keepVars, outVars>>

(* vadpcm_getshift: the least scaling that lets a nibble hold lo and hi. *)
Fits(n, lo, hi) ==
    /\ lo \div 2 ^ n >= -NibbleHalf
    /\ hi \div 2 ^ n <= NibbleHalf - 1

IsShift(n, lo, hi) ==
    /\ n = MaxShift \/ Fits(n, lo, hi)
    /\ \A m \in 0 .. n - 1 : ~Fits(m, lo, hi)

(* The scalings to try: the one that fits and its neighbours. *)
ChooseShifts ==
    /\ epc = "scan"
    /\ i = VectorSampleCount
    /\ vector = 1
    /\ \E n \in 0 .. MaxShift :
         /\ IsShift(n, min, max)
         /\ min_shift' = IF n > 0 THEN n - 1 ELSE 0
         /\ max_shift' = IF n < MaxShift THEN n + 1 ELSE MaxShift
    /\ shift' = min_shift'
    /\ init_rng' = rng
    /\ best_error' = 0
    /\ tried' = << >>
    /\ epc' = "next"
    /\ UNCHANGED <<callVars, state, rng, vector, i, accumulator, s0, s1,
                   scanVars, fout, error, best, outVars>>

---------------------------------------------------------------------------------
(* A candidate: the frame encoded with one scaling, as a decoder sees it. *)

Predict(p0, p1) ==
    [j \in Lanes |-> Int32(p0 * pvec[0][j] + p1 * pvec[1][j])]

(* Faulty: each candidate draws on where the one before stopped. *)
ResetCandidate_KeepsRng ==
    /\ UNCHANGED rng
    /\ error' = 0
    /\ s0' = state[0]
    /\ s1' = state[1]

(* Faulty: a candidate's error is added to the one before. *)
ResetCandidate_KeepsError ==
    /\ rng' = init_rng
    /\ UNCHANGED error
    /\ s0' = state[0]
    /\ s1' = state[1]

ResetCandidate ==
    /\ rng' = init_rng
    /\ error' = 0
    /\ s0' = state[0]
    /\ s1' = state[1]

NextShift ==
    /\ epc = "next"
    /\ shift <= max_shift
    /\ ResetCandidate
    /\ vector' = 0
    /\ i' = 0
    /\ accumulator' = Predict(state[0], state[1])
    /\ epc' = "try"
    /\ UNCHANGED <<callVars, state, shift, fout, scanVars, keepVars, frameVars,
                   outVars>>

(***************************************************************************)
(* The residual of sample i replaces the accumulator of its lane, which no *)
(* later sample reads; the sample as decoded becomes s1.                   *)
(***************************************************************************)
QuantizeSample ==
    /\ epc = "try"
    /\ i < VectorSampleCount
    /\ LET s        == input.samples[vector][i]
           a        == Whole(accumulator[i])
           exact    == (s - a + Bias(rng, shift)) \div 2 ^ shift
           r        == Clamp(exact, -NibbleHalf, NibbleHalf - 1)
           residual == r * 2 ^ shift
           sout     == Clamp16(residual + a)
       IN  /\ accumulator' =
                [j \in Lanes |->
                   IF j < i THEN accumulator[j]
                   ELSE IF j = i THEN r
                   ELSE Int32(accumulator[j] + residual * pvec[1][j - i - 1])]
           /\ s0' = s1
           /\ s1' = sout
           /\ error' = error + (s - sout) * (s - sout)
    /\ rng' = Rng(rng)
    /\ i' = i + 1
    /\ UNCHANGED <<callVars, epc, state, vector, shift, fout, scanVars, keepVars,
                   frameVars, outVars>>

(* Faulty: the earlier sample in the low nibble. *)
Pack_LowFirst(residuals) ==
    [j \in DOMAIN ZeroBytes |-> PackByte(residuals[2 * j + 1], residuals[2 * j])]

Pack(residuals) ==
    [j \in DOMAIN ZeroBytes |-> PackByte(residuals[2 * j], residuals[2 * j + 1])]

PackFirstVector ==
    /\ epc = "try"
    /\ i = VectorSampleCount
    /\ vector = 0
    /\ fout' = [fout EXCEPT ![0] = Pack(accumulator)]
    /\ vector' = 1
    /\ i' = 0
    /\ accumulator' = Predict(s0, s1)
    /\ UNCHANGED <<callVars, epc, state, rng, s0, s1, shift, error, scanVars,
                   keepVars, frameVars, outVars>>

PackSecondVector ==
    /\ epc = "try"
    /\ i = VectorSampleCount
    /\ vector = 1
    /\ fout' = [fout EXCEPT ![1] = Pack(accumulator)]
    /\ epc' = "keep"
    /\ UNCHANGED <<callVars, state, rng, vector, i, accumulator, s0, s1, shift,
                   error, scanVars, keepVars, frameVars, outVars>>

(* A complete candidate, with what the next frame and the next one start from. *)
Attempt == [data |-> fout, s0 |-> s0, s1 |-> s1, error |-> error, rng |-> rng]

WithAttempt ==
    [n \in DOMAIN tried \cup {shift} |-> IF n = shift THEN Attempt ELSE tried[n]]

Better_Ties == shift = min_shift \/ error <= best_error     \* faulty
Better == shift = min_shift \/ error < best_error

KeepBest ==
    /\ epc = "keep"
    /\ Better
    /\ best' = [control |-> Control(shift, input.predictor), data |-> fout]
    /\ state' = [state EXCEPT ![2] = s0, ![3] = s1]
    /\ best_error' = error
    /\ tried' = WithAttempt
    /\ shift' = shift + 1
    /\ epc' = "next"
    /\ UNCHANGED <<callVars, rng, vector, i, accumulator, s0, s1, fout, error,
                   scanVars, init_rng, min_shift, max_shift, outVars>>

DropCandidate ==
    /\ epc = "keep"
    /\ ~Better
    /\ tried' = WithAttempt
    /\ shift' = shift + 1
    /\ epc' = "next"
    /\ UNCHANGED <<callVars, state, rng, vector, i, accumulator, s0, s1, fout, error,
                   scanVars, keepVars, init_rng, min_shift, max_shift, outVars>>

FinishFrame ==
    /\ epc = "next"
    /\ shift > max_shift
    /\ dest' = Append(dest, best)
    /\ state' = [state EXCEPT ![0] = state[2], ![1] = state[3]]
    /\ error_sum' = error_sum + best_error
    /\ epc' = "frame"
    /\ UNCHANGED <<callVars, rng, vector, i, accumulator, s0, s1, scanVars, tryVars,
                   keepVars, frameVars>>

Finished == epc = "call" /\ Len(dest) = Len(source)

(* The sound has ended. *)
Terminating == Finished /\ UNCHANGED vars

Step ==
    \/ BeginFrame
    \/ ScanSample
    \/ ScanSecondVector
    \/ ChooseShifts
    \/ NextShift
    \/ QuantizeSample
    \/ PackFirstVector
    \/ PackSecondVector
    \/ KeepBest
    \/ DropCandidate
    \/ FinishFrame
    \/ EndCall

Next ==
    \/ \E n \in 1 .. Len(source) - Len(dest) : BeginCall(n)
    \/ Step
    \/ Terminating

Spec == Init /\ [][Next]_vars

---------------------------------------------------------------------------------

(* What each variable may hold. *)
TypeOK ==
    /\ epc \in {"call", "frame", "scan", "next", "try", "keep"}
    /\ encoder_state \in [data : [0 .. 1 -> Samples], rng : 0 .. RngModulus - 1]
    /\ stop \in 0 .. Len(source)
    /\ state \in [0 .. 3 -> Samples]
    /\ rng \in 0 .. RngModulus - 1
    /\ init_rng \in 0 .. RngModulus - 1
    /\ vector \in Vectors
    /\ i \in 0 .. VectorSampleCount
    /\ accumulator \in [Lanes -> Accumulators]
    /\ min_shift \in 0 .. MaxShift
    /\ max_shift \in 0 .. MaxShift
    /\ shift \in 0 .. MaxShift + 1
    /\ s0 \in Samples
    /\ s1 \in Samples
    /\ fout \in [Vectors -> PackedVector]
    /\ best \in Frame
    /\ dest \in Seq(Frame)

(***************************************************************************)
(* A residual that is not clipped puts the decoded sample less than one    *)
(* quantization step from the source, dither included, whatever errors the *)
(* samples before it have carried into the prediction.                     *)
(***************************************************************************)
QuantizationBound ==
    [][epc = "try" /\ i < VectorSampleCount =>
         LET r    == accumulator'[i]
             miss == input.samples[vector][i] - s1'
         IN  -NibbleHalf < r /\ r < NibbleHalf - 1 =>
               -(2 ^ shift) < miss /\ miss < 2 ^ shift]_vars

(***************************************************************************)
(* Of all the scalings tried for a frame the first with the least error is *)
(* kept, and all that is kept is of that one candidate: its bytes, its     *)
(* error, its last samples and the predictor of the frame.  They were      *)
(* compared on equal terms: however many there were, each was given the    *)
(* same dither and left the generator at the same place for what follows.  *)
(***************************************************************************)
BestIsLeast ==
    epc = "next" /\ shift > min_shift =>
        LET kept == ScalingOf(best.control)
        IN  /\ DOMAIN tried = min_shift .. shift - 1
            /\ kept \in DOMAIN tried
            /\ \A n \in DOMAIN tried :
                 /\ tried[n].error >= tried[kept].error
                 /\ n < kept => tried[n].error > tried[kept].error
                 /\ tried[n].rng = rng
            /\ best_error = tried[kept].error
            /\ best.data = tried[kept].data
            /\ state[2] = tried[kept].s0 /\ state[3] = tried[kept].s1
            /\ PredictorIndexOf(best.control) = input.predictor
=================================================================================
