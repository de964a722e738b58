-------------------------------- MODULE Statecheck --------------------------------
(***************************************************************************)
(* The encoder and the decoder on one sound, as the tests run them.        *)
(*                                                                         *)
(*   "whole"   check_file (tests/statecheck.c) encodes the sound in one    *)
(*             call, and decodes the bytes in one call                     *)
(*   "frames"  it encodes and decodes again, a frame in each call          *)
(*   "again"   test_reencode (tests/encode_test.c) encodes the audio that  *)
(*             came out, with the same predictors, and decodes it          *)
(*                                                                         *)
(* The encoder predicts each frame from what it believes the decoder has;  *)
(* nothing but the bytes tells the decoder.                                *)
(***************************************************************************)
EXTENDS Encoder

(***************************************************************************)
(* The room an int has for what comes out of a decoder: with the greatest  *)
(* residual added, a sum that wraps is clipped.  The code has              *)
(* (2^15 + 8 * 2^12) * 2^11 < 2^31.                                        *)
(***************************************************************************)
ASSUME ClipAssumption ==
    (SampleMax + 1 + NibbleHalf * 2 ^ MaxShift) * FixedOne <= AccumulatorHalf

VARIABLES
    dpc, dframe, dvector, dk, dv, daccumulator, dstate,
    pcm,        \* the vectors decoded
    part,       \* "whole", "frames" or "again"
    vadpcm_full, decoded_full,  \* dest and pcm of the part "whole"
    measured    \* history: the square error of pcm against source, of this call

decoderVars == <<dpc, dframe, dvector, dk, dv, daccumulator, dstate, pcm>>
partVars    == <<part, vadpcm_full, decoded_full>>
allVars     == <<vars, decoderVars, partVars, measured>>

D == INSTANCE Decoder WITH
        src <- dest, pc <- dpc, frame <- dframe, vector <- dvector, k <- dk, v <- dv,
        accumulator <- daccumulator, state <- dstate, dest <- pcm,
        Streams <- {<< >>}, GarbageVectors <- {}

CheckInit ==
    /\ Init
    /\ D!Init
    /\ part = "whole"
    /\ vadpcm_full = << >> /\ decoded_full = << >>
    /\ measured = 0

(* The decoder has decoded every frame there is. *)
CaughtUp == dpc = "frame" /\ dframe = Len(dest)

CallLength == IF part = "frames" THEN 1 ELSE Len(source)

EncodeCall ==
    /\ CaughtUp
    /\ Len(dest) < Len(source)
    /\ BeginCall(CallLength)
    /\ measured' = 0
    /\ UNCHANGED <<decoderVars, partVars>>

EncodeStep ==
    /\ Step
    /\ UNCHANGED <<decoderVars, partVars, measured>>

(* The decoder takes the steps of a call, on the frames just encoded. *)
DecodeStep ==
    /\ epc = "call"
    /\ dframe < Len(dest) \/ dpc # "frame"
    /\ \/ D!RejectFrame
       \/ D!BeginFrame
       \/ D!AccumulatePrevious
       \/ D!BeginResiduals
       \/ D!AccumulateResidual
    /\ UNCHANGED <<vars, partVars, measured>>

Square(x) == x * x

SquareError(sound, output) ==
    LET sum[n \in 0 .. VectorSampleCount] ==
          IF n = 0 THEN 0 ELSE sum[n - 1] + Square(sound[n - 1] - output[n - 1])
    IN  sum[VectorSampleCount]

EmitStep ==
    /\ epc = "call"
    /\ D!EmitVector
    /\ measured' = measured + SquareError(source[dframe + 1].samples[dvector], dstate')
    /\ UNCHANGED <<vars, partVars>>

(***************************************************************************)
(* Both states go back to zero, and both outputs to the start.  What the   *)
(* last call left in its locals is kept.                                   *)
(***************************************************************************)
Restart ==
    /\ encoder_state' = ZeroState
    /\ dest' = << >>
    /\ dframe' = 0
    /\ dstate' = ZeroVector
    /\ pcm' = << >>
    /\ UNCHANGED <<codebook, epc, stop, state, rng, vector, i, accumulator, s0, s1,
                   scanVars, tryVars, keepVars, frameVars, error_sum,
                   dpc, dvector, dk, dv, daccumulator, measured>>

CheckFrames ==
    /\ part = "whole"
    /\ Finished /\ CaughtUp
    /\ part' = "frames"
    /\ vadpcm_full' = dest
    /\ decoded_full' = pcm
    /\ Restart
    /\ UNCHANGED source

(* The sound the decoder made, framed as the encoder takes it. *)
AsSource(sound) ==
    [f \in DOMAIN source |->
       [samples   |-> [x \in Vectors |-> sound[2 * f - 1 + x]],
        predictor |-> PredictorIndexOf(vadpcm_full[f].control)]]

Reencode ==
    /\ part = "frames"
    /\ Finished /\ CaughtUp
    /\ part' = "again"
    /\ source' = AsSource(decoded_full)
    /\ Restart
    /\ UNCHANGED <<vadpcm_full, decoded_full>>

CheckDone ==
    /\ part = "again"
    /\ Finished /\ CaughtUp
    /\ UNCHANGED allVars

CheckNext ==
    \/ EncodeCall
    \/ EncodeStep
    \/ DecodeStep
    \/ EmitStep
    \/ CheckFrames
    \/ Reencode
    \/ CheckDone

CheckSpec == CheckInit /\ [][CheckNext]_allVars

---------------------------------------------------------------------------------

(***************************************************************************)
(* tests/statecheck.c, "state mismatch": after each call the two samples   *)
(* the encoder carries are the last two the decoder has output.            *)
(***************************************************************************)
StateMatch ==
    CaughtUp /\ epc = "call" =>
        \A j \in 0 .. 1 : encoder_state.data[j] = dstate[VectorSampleCount - 2 + j]

(***************************************************************************)
(* tests/statecheck.c, "encode mismatch" and "decode mismatch": how a      *)
(* sound is divided into calls changes neither the bytes nor the audio.    *)
(* Both the last samples and the generator have to go from call to call.   *)
(***************************************************************************)
EncodedSame ==
    part = "frames" /\ epc = "call" /\ CaughtUp =>
        /\ dest = SubSeq(vadpcm_full, 1, Len(dest))
        /\ pcm = SubSeq(decoded_full, 1, Len(pcm))

(***************************************************************************)
(* The error a call reports is the error of the decoded audio, not of its  *)
(* estimate of it, for whichever of the candidates it kept.                *)
(***************************************************************************)
ErrorIsReal == CaughtUp /\ epc = "call" => error_sum = measured

(* What the encoder writes is never data the decoder rejects. *)
EncodedIsValid == dpc # "invalid"

(***************************************************************************)
(* tests/encode_test.c, "The decoded PCM data should match", frame by      *)
(* frame: encoding what was decoded loses nothing more, where the frame    *)
(* starts from the same samples and its first scaling is tried again.  Of  *)
(* a sample at a limit the decoder may have cut off what the encoder needs *)
(* to find the residual.                                                   *)
(***************************************************************************)
FirstScaling == ScalingOf(vadpcm_full[Len(dest) + 1].control)

SameStart ==
    \A j \in 0 .. 1 :
        state[j] = IF dest = << >> THEN 0
                   ELSE source[Len(dest)].samples[1][VectorSampleCount - 2 + j]

NoneAtLimit ==
    \A x \in Vectors, j \in Lanes : input.samples[x][j] \notin {SampleMax, -SampleMax - 1}

Reencoded ==
    part = "again" /\ epc = "next" /\ shift > max_shift =>
        (SameStart /\ NoneAtLimit /\ FirstScaling \in min_shift .. max_shift
           => best_error = 0)
=================================================================================
