--------------------------------- MODULE Decoder ---------------------------------
(***************************************************************************)
(* vadpcm_decode (src/codec/decode.c), one step per iteration of its       *)
(* loops.  pc says which loop runs, or what the call returned:             *)
(*                                                                         *)
(*   "frame"     at the head of the frame loop                             *)
(*   "previous"  accumulating the last outputs, vector by vector           *)
(*   "residual"  accumulating the residuals, sample by sample              *)
(*   "ok", "invalid"  returned 0 or kVADPCMErrInvalidData                  *)
(***************************************************************************)
EXTENDS VadpcmFormat, Sequences

CONSTANTS
    Codebooks,       \* the codebooks a call may be given
    Streams,         \* the encoded streams a call may be given
    GarbageVectors   \* what the memory before a codebook may hold

ASSUME DecoderAssumption ==
    /\ \A c \in Codebooks : IsCodebook(c)
    /\ Streams \subseteq Seq(Frame)
    /\ GarbageVectors \subseteq SampleVector

VARIABLES
    codebook,     \* the codebook, predictor_count and order arguments
    src,          \* the encoded frames
    pc,
    frame,        \* frames decoded
    vector,       \* vector of the frame
    k,            \* loop variable of the loop that runs
    v,            \* the last vector of the predictor, &predictor[order - 1]
    accumulator,
    state,        \* the last vector written
    dest          \* the vectors written

vars == <<codebook, src, pc, frame, vector, k, v, accumulator, state, dest>>

ZeroVector == [i \in Lanes |-> 0]

Init ==
    /\ codebook \in Codebooks
    /\ src \in Streams
    /\ pc = "frame"
    /\ frame = 0
    /\ vector = 0
    /\ k = 0
    /\ v = ZeroVector
    /\ accumulator = ZeroVector
    /\ state = ZeroVector
    /\ dest = << >>

---------------------------------------------------------------------------------

Current == src[frame + 1]

PredictorIndex == PredictorIndexOf(Current.control)
Predictor      == codebook.vector[PredictorIndex]

PredictorMissing_OffByOne == PredictorIndex > codebook.predictor_count  \* faulty
PredictorMissing == PredictorIndex >= codebook.predictor_count

(* The residual of lane j of the current vector, scaled. *)
ScaledResidual(j) ==
    ResidualAt(Current.data[vector], j) * 2 ^ ScalingOf(Current.control)

(* Faulty: the sums of the last vector are still there. *)
StartVector_KeepsSums ==
    /\ pc' = "previous"
    /\ k' = 0
    /\ UNCHANGED accumulator

StartVector ==
    /\ pc' = "previous"
    /\ k' = 0
    /\ accumulator' = ZeroVector

(* Faulty: the frame is left out of the output. *)
RejectFrame_Skips ==
    /\ pc = "frame"
    /\ frame < Len(src)
    /\ PredictorMissing
    /\ frame' = frame + 1
    /\ UNCHANGED <<codebook, src, pc, vector, k, v, accumulator, state, dest>>

(* The control byte names a predictor the codebook does not have. *)
RejectFrame ==
    /\ pc = "frame"
    /\ frame < Len(src)
    /\ PredictorMissing
    /\ pc' = "invalid"
    /\ UNCHANGED <<codebook, src, frame, vector, k, v, accumulator, state, dest>>

BeginFrame ==
    /\ pc = "frame"
    /\ frame < Len(src)
    /\ ~PredictorMissing
    /\ vector' = 0
    /\ StartVector
    /\ UNCHANGED <<codebook, src, frame, v, state, dest>>

(* The part of the prediction that comes from the previous outputs. *)
AccumulatePrevious ==
    /\ pc = "previous"
    /\ k < codebook.order
    /\ LET sample == state[VectorSampleCount - codebook.order + k]
       IN  accumulator' =
             [i \in Lanes |-> Int32(accumulator[i] + sample * Predictor[k][i])]
    /\ k' = k + 1
    /\ UNCHANGED <<codebook, src, pc, frame, vector, v, state, dest>>

(***************************************************************************)
(* With order 0 the vector before the codebook is read: whatever is there. *)
(***************************************************************************)
BeginResiduals ==
    /\ pc = "previous"
    /\ k = codebook.order
    /\ pc' = "residual"
    /\ k' = 0
    /\ \/ /\ codebook.order > 0
          /\ v' = Predictor[codebook.order - 1]
       \/ /\ codebook.order = 0
          /\ v' \in GarbageVectors
    /\ UNCHANGED <<codebook, src, frame, vector, accumulator, state, dest>>

(* Sample k: its residual, and what the residual predicts for later lanes. *)
AccumulateResidual ==
    /\ pc = "residual"
    /\ k < VectorSampleCount
    /\ LET residual == ScaledResidual(k)
       IN  accumulator' =
             [i \in Lanes |->
                IF i < k THEN accumulator[i]
                ELSE IF i = k THEN Int32(accumulator[i] + residual * FixedOne)
                ELSE Int32(accumulator[i] + residual * v[i - k - 1])]
    /\ k' = k + 1
    /\ UNCHANGED <<codebook, src, pc, frame, vector, v, state, dest>>

Output == [i \in Lanes |-> Clamp16(Whole(accumulator[i]))]

EmitVector ==
    /\ pc = "residual"
    /\ k = VectorSampleCount
    /\ state' = Output
    /\ dest' = Append(dest, Output)
    /\ \/ /\ vector = 0
          /\ vector' = 1
          /\ StartVector
          /\ UNCHANGED frame
       \/ /\ vector = 1
          /\ pc' = "frame"
          /\ frame' = frame + 1
          /\ UNCHANGED <<vector, k, accumulator>>
    /\ UNCHANGED <<codebook, src, v>>

Return ==
    /\ pc = "frame"
    /\ frame = Len(src)
    /\ pc' = "ok"
    /\ UNCHANGED <<codebook, src, frame, vector, k, v, accumulator, state, dest>>

Returned == pc \in {"ok", "invalid"}

(* A returned call takes no more steps. *)
Terminating == Returned /\ UNCHANGED vars

Step ==
    \/ RejectFrame
    \/ BeginFrame
    \/ AccumulatePrevious
    \/ BeginResiduals
    \/ AccumulateResidual
    \/ EmitVector
    \/ Return

Next == Step \/ Terminating

Spec == Init /\ [][Next]_vars

(* The thread that called runs until the call returns. *)
FairSpec == Spec /\ WF_vars(Step)

---------------------------------------------------------------------------------

(* What each variable of the call may hold. *)
TypeOK ==
    /\ IsCodebook(codebook)
    /\ src \in Seq(Frame)
    /\ pc \in {"frame", "previous", "residual", "ok", "invalid"}
    /\ frame \in 0 .. Len(src)
    /\ vector \in Vectors
    /\ k \in 0 .. VectorSampleCount
    /\ v \in SampleVector
    /\ accumulator \in [Lanes -> Accumulators]
    /\ state \in SampleVector
    /\ dest \in Seq(SampleVector)

(***************************************************************************)
(* Every index the loops form is inside what it indexes: the frame and the *)
(* predictor are there while the loops run, and the order selects previous *)
(* outputs the state has.  decode.c checks the predictor once, at the head *)
(* of the frame; the reads come tens of steps later.                       *)
(***************************************************************************)
ReadsInBounds ==
    /\ pc \in {"previous", "residual"} =>
         /\ frame < Len(src)
         /\ PredictorIndex < codebook.predictor_count
    /\ pc = "previous" => k <= codebook.order

(***************************************************************************)
(* The output is whole vectors, in step with the input: a call that fails  *)
(* has written both vectors of every frame before the bad one, none of the *)
(* bad one, and left in state what a later call has to continue from.      *)
(***************************************************************************)
OutputInStep ==
    /\ pc \in {"frame", "ok", "invalid"} => Len(dest) = 2 * frame
    /\ pc \in {"previous", "residual"} => Len(dest) = 2 * frame + vector
    /\ state = IF dest = << >> THEN ZeroVector ELSE dest[Len(dest)]
    /\ pc = "ok" => frame = Len(src)
    /\ pc = "invalid" =>
         /\ PredictorIndexOf(src[frame + 1].control) >= codebook.predictor_count
         /\ \A f \in 1 .. frame :
              PredictorIndexOf(src[f].control) < codebook.predictor_count

(***************************************************************************)
(* The loops compute what the decoding process promises, one vector at a   *)
(* time, and the call ends: partial sums kept in wrapping ints, added in   *)
(* the order of the loops, come to the sum of the promise.                 *)
(***************************************************************************)
Promise ==
    INSTANCE VectorDecoder WITH
        vector <- IF pc \in {"previous", "residual"} THEN vector ELSE 0,
        result <- IF pc \in {"ok", "invalid"} THEN pc ELSE "running"

ImplementsVectorDecoder == Promise!Spec

(***************************************************************************)
(* docs/docs/codec.md allows order 0: every vector the decoder then uses   *)
(* would have to be one of the codebook.                                   *)
(***************************************************************************)
PredictorFromCodebook ==
    pc = "residual" =>
        v \in {codebook.vector[p][j] :
                 p \in 0 .. codebook.predictor_count - 1,
                 j \in 0 .. codebook.order - 1}
=================================================================================
