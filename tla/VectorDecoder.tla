------------------------------ MODULE VectorDecoder ------------------------------
(***************************************************************************)
(* What decoding promises: each vector of output is one function of the    *)
(* previous vector, the residuals of the vector and the predictor.  It is  *)
(* the decoding process of docs/docs/codec.md with its sums written out,   *)
(* in the arithmetic of the builds (Int32) and with the clamp of decode.c. *)
(* The order is at least 1.                                                *)
(***************************************************************************)
EXTENDS VadpcmFormat, Sequences

CONSTANTS Codebooks, Streams

VARIABLES codebook, src, frame, vector, state, dest, result

vars == <<codebook, src, frame, vector, state, dest, result>>

Init ==
    /\ codebook \in Codebooks
    /\ src \in Streams
    /\ frame = 0
    /\ vector = 0
    /\ state = [i \in Lanes |-> 0]
    /\ dest = << >>
    /\ result = "running"

PredictorIndex == PredictorIndexOf(src[frame + 1].control)

(* The first n terms, added up. *)
Sum(term, n) ==
    LET sum[m \in 0 .. n] == IF m = 0 THEN 0 ELSE sum[m - 1] + term[m - 1] IN sum[n]

(* The fixed-point sum behind sample i, given the scaled residuals. *)
Total(predictor, residual, i) ==
    LET order == codebook.order
        previous == [j \in 0 .. order - 1 |->
                       state[VectorSampleCount - order + j] * predictor[j][i]]
        earlier == [j \in 0 .. i - 1 |-> residual[j] * predictor[order - 1][i - j - 1]]
    IN  Sum(previous, order) + Sum(earlier, i) + residual[i] * FixedOne

DecodeVector ==
    /\ result = "running"
    /\ frame < Len(src)
    /\ PredictorIndex < codebook.predictor_count
    /\ LET encoded   == src[frame + 1]
           predictor == codebook.vector[PredictorIndex]
           residual  == [i \in Lanes |->
                           ResidualAt(encoded.data[vector], i)
                             * 2 ^ ScalingOf(encoded.control)]
           output    == [i \in Lanes |->
                           Clamp16(Whole(Int32(Total(predictor, residual, i))))]
       IN  /\ state' = output
           /\ dest' = Append(dest, output)
    /\ vector' = 1 - vector
    /\ frame' = frame + vector
    /\ UNCHANGED <<codebook, src, result>>

Reject ==
    /\ result = "running"
    /\ frame < Len(src)
    /\ PredictorIndex >= codebook.predictor_count
    /\ result' = "invalid"
    /\ UNCHANGED <<codebook, src, frame, vector, state, dest>>

Finish ==
    /\ result = "running"
    /\ frame = Len(src)
    /\ result' = "ok"
    /\ UNCHANGED <<codebook, src, frame, vector, state, dest>>

Next == DecodeVector \/ Reject \/ Finish

Spec == Init /\ [][Next]_vars /\ WF_vars(Next)
=================================================================================
