---------------------------- MODULE MCPredictorValues ----------------------------
(***************************************************************************)
(* Any assignment of up to four frames to up to four predictors: fewer     *)
(* frames than predictors, as many, and more.  And frames of two samples:  *)
(* every sound of up to three of them from -1 .. 1, of four from {-1, 1},  *)
(* and of two from -2 .. 2, which rise fast enough for coefficients that   *)
(* are unstable.  rel_epsilon is 1/4, so that some of these sounds have    *)
(* sums that are nearly singular, and 1/4096 in the code, where it takes   *)
(* greater amplitudes.  Nothing new happens after a few of the 20 rounds.  *)
(***************************************************************************)
EXTENDS PredictorValues

MCSounds ==
    UNION {[1 .. n -> -1 .. 1] : n \in {0, 2, 4, 6}} \cup [1 .. 4 -> -2 .. 2]
    \cup [1 .. 8 -> {-1, 1}]
=================================================================================
