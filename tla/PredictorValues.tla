------------------------------ MODULE PredictorValues ------------------------------
(***************************************************************************)
(* The numbers that vadpcm_encode finds its predictors with: the           *)
(* autocorrelation of the frames (codec/autocorr.c), the coefficients that *)
(* are best for a set of frames, the errors compared and the refinement    *)
(* they decide (codec/predictor.c), and the vectors of the codebook        *)
(* (codec/encode.c).  PredictorAssign leaves these open; here an           *)
(* assignment follows from the sound, and implements it.  A behaviour with *)
(* NoSound is one of PredictorAssign, with any outcome.                    *)
(*                                                                         *)
(* Numbers are exact.  Samples are integers: the factor 1/32768 of every   *)
(* sample scales errors, and no coefficient.                               *)
(***************************************************************************)
EXTENDS PredictorAssign, Rationals, FiniteSetsExt, Sequences

CONSTANTS
    FrameSampleCount,   \* kVADPCMFrameSampleCount
    Sounds,             \* src
    NoSound,            \* the values are open
    RelEpsilon,         \* 1 / rel_epsilon, 4096
    Lanes,              \* kVADPCMVectorSampleCount
    Scale,              \* 2^11
    MaxSample           \* 0x7fff

ASSUME ValuesAssumption ==
    /\ FrameSampleCount \in Nat \ {0} /\ RelEpsilon \in Nat \ {0}
    /\ NoSound \notin Sounds
    /\ \A s \in Sounds : s \in Seq(Int) /\ Len(s) % FrameSampleCount = 0
    /\ Lanes \in Nat \ {0} /\ Scale \in Nat \ {0} /\ MaxSample \in Nat

VARIABLES
    src,
    corr,           \* six sums for each frame
    best_error,     \* of each frame, with coefficients of its own
    error,          \* of each frame, with those it was given
    coeff,          \* of each predictor in use: what refining used last
    codebook,       \* the vectors of each predictor
    before,         \* history: error before the last round
    adjusted        \* history: did it use other coefficients than the best?

values == <<src, corr, best_error, error, coeff, codebook, before, adjusted>>
valueVars == <<vars, values>>

---------------------------------------------------------------------------------
(* A loop that adds up n numbers. *)
SumTo(g, n) ==
    LET sum[i \in 0 .. n] == IF i = 0 THEN 0 ELSE sum[i - 1] + g[i] IN sum[n]

(* vadpcm_autocorr: sums of products of samples up to two apart, over a frame; *)
(* the samples before the first are 0.                                         *)

SampleAt(i) == IF i \in DOMAIN src THEN src[i] ELSE 0

Lags == [j \in 0 .. 5 |-> CASE j = 0 -> <<0, 0>> [] j = 1 -> <<1, 0>> [] j = 2 -> <<1, 1>>
                            [] j = 3 -> <<2, 0>> [] j = 4 -> <<2, 1>> [] j = 5 -> <<2, 2>>]

Autocorr(f) ==
    LET product(i, j) == SampleAt(i - Lags[j][1]) * SampleAt(i - Lags[j][2])
    IN  [j \in 0 .. 5 |->
            SumTo([i \in 1 .. FrameSampleCount |-> product(f * FrameSampleCount + i, j)],
                  FrameSampleCount)]

(* vadpcm_meancorrs, without the division by the number of frames, which changes *)
(* no coefficient.                                                               *)
MembersOf(p) == {f \in Frames : predictors[f] = p}
SumCorr(p) ==
    [j \in 0 .. 5 |->
        SumTo([i \in 1 .. frame_count |-> IF predictors[i - 1] = p THEN corr[i - 1][j] ELSE 0],
              frame_count)]

---------------------------------------------------------------------------------
(* vadpcm_solve: Gaussian elimination with partial pivoting of *)
(*     [ m[2] m[4] | m[1] ]                                    *)
(*     [ m[4] m[5] | m[3] ]                                    *)

Pair(pivot, first, second) == [i \in 0 .. 1 |-> IF i = pivot THEN first ELSE second]

Solve_PivotLost(m) ==       \* faulty: the rows were exchanged, the results are not
    LET pivot == IF m[5] > m[2] THEN 1 ELSE 0
        a  == IF pivot = 1 THEN m[5] ELSE m[2]
        c  == IF pivot = 1 THEN m[2] ELSE m[5]
        x  == IF pivot = 1 THEN m[3] ELSE m[1]
        y  == IF pivot = 1 THEN m[1] ELSE m[3]
        d  == a * c - m[4] * m[4]
    IN  CASE a = 0 -> Pair(0, Zero, Zero)
          [] a > 0 /\ d = 0 -> Pair(0, Ratio(x, a), Zero)
          [] OTHER -> Pair(0, Ratio(x * c - y * m[4], d), Ratio(y * a - x * m[4], d))
Solve(m) ==
    LET epsilon == Ratio(Max({m[0], m[2], m[5]}), RelEpsilon)
        pivot == IF m[5] > m[2] THEN 1 ELSE 0
        a  == Whole(IF pivot = 1 THEN m[5] ELSE m[2])
        b  == Whole(m[4])
        c  == Whole(IF pivot = 1 THEN m[2] ELSE m[5])
        x  == Whole(IF pivot = 1 THEN m[3] ELSE m[1])
        y  == Whole(IF pivot = 1 THEN m[1] ELSE m[3])
        b1 == Over(b, a)
        x1 == Over(x, a)
        c2 == Minus(c, Times(b1, b))
        y2 == Minus(y, Times(x1, b))
        y3 == Over(y2, c2)
    IN  CASE AtMost(a, epsilon) -> Pair(pivot, Zero, Zero)
          [] Less(epsilon, a) /\ AtMost(<<Magnitude(c2[1]), c2[2]>>, epsilon) ->
                Pair(pivot, x1, Zero)
          [] OTHER -> Pair(pivot, Minus(x1, Times(y3, b1)), y3)

Half == Ratio(1, 2)

(* vadpcm_stabilize: into the triangle of the coefficients of stable filters. *)
BelowTriangle_Off(c) == FALSE       \* faulty
BelowTriangle(c) == Less(c[1], Neg(One))
RightOf(c) == Less(Zero, c[0]) /\ Less(One, Plus(c[1], c[0]))
LeftOf(c)  == AtMost(c[0], Zero) /\ Less(One, Minus(c[1], c[0]))

Unstable(c) == BelowTriangle(c) \/ RightOf(c) \/ LeftOf(c)

Stabilize(c) ==
    CASE BelowTriangle(c) -> Pair(1, Neg(One), Between(Neg(One), c[0], One))
      [] ~BelowTriangle(c) /\ RightOf(c) ->
            LET d == Between(Whole(-3), Minus(c[1], c[0]), One)
            IN  Pair(0, Minus(Half, Times(Half, d)), Plus(Half, Times(Half, d)))
      [] ~BelowTriangle(c) /\ LeftOf(c) ->
            LET d == Between(Whole(-3), Plus(c[1], c[0]), One)
            IN  Pair(0, Minus(Times(Half, d), Half), Plus(Times(Half, d), Half))
      [] OTHER -> c

(* vadpcm_eval *)
Eval(m, c) ==
    LET t(j, a, b) == Times(Whole(m[j]), Times(a, b))
        cross == Minus(t(4, c[0], c[1]), Plus(t(1, c[0], One), t(3, c[1], One)))
    IN  Plus(Plus(Whole(m[0]), Plus(t(2, c[0], c[0]), t(5, c[1], c[1]))),
             Times(Whole(2), cross))

(* vadpcm_eval_solved *)
EvalSolved_WrongEntry(m, c) ==      \* faulty: m[2] for m[3]
    Minus(Whole(m[0]), Plus(Times(Whole(m[1]), c[0]), Times(Whole(m[2]), c[1])))
EvalSolved(m, c) ==
    Minus(Whole(m[0]), Plus(Times(Whole(m[1]), c[0]), Times(Whole(m[3]), c[1])))

(* A pivot is taken for 0, and is not: there are better coefficients. *)
NearlySingular(m) ==
    LET top == Max({m[0], m[2], m[5]})
        a   == Max({m[2], m[5]})
        det == m[2] * m[5] - m[4] * m[4]
    IN  \/ a > 0 /\ RelEpsilon * a <= top
        \/ det > 0 /\ RelEpsilon * det <= a * top

Adjusted(m) == NearlySingular(m) \/ Unstable(Solve(m))

BestError(m) ==
    LET c == Solve(m)
    IN  IF Unstable(c) THEN Eval(m, Stabilize(c)) ELSE EvalSolved(m, c)

---------------------------------------------------------------------------------
(* The actions of PredictorAssign, with the values.  Those that it leaves open *)
(* are replaced.                                                               *)

Autocorrelate ==
    /\ Malloc("predictors", "assign")
    /\ corr' = [f \in Frames |-> Autocorr(f)]
    /\ UNCHANGED <<src, best_error, error, coeff, codebook, before, adjusted>>

FindBestErrors ==
    /\ Malloc("best_error", "error")
    /\ best_error' = [f \in Frames |-> BestError(corr[f])]
    /\ UNCHANGED <<src, corr, error, coeff, codebook, before, adjusted>>

Improvement(f) == Minus(error[f], best_error[f])

(* vadpcm_worst_frame: the first of the greatest improvement. *)
IsWorst(f) ==
    /\ \A g \in Frames : AtMost(Improvement(g), Improvement(f))
    /\ \A g \in 0 .. f - 1 : Less(Improvement(g), Improvement(f))

SplitWorst ==
    /\ pc = "worst"
    /\ predictors' = [predictors EXCEPT ![CHOOSE f \in Frames : IsWorst(f)] = unassigned]
    /\ active_count' = Raise(unassigned)
    /\ pc' = "refine"
    /\ UNCHANGED <<frame_count, predictor_count, unassigned, iter, blocks, written, ret>>
    /\ UNCHANGED values

(* The clusters in their order; their places are the new numbers. *)
Cluster(i) == CHOOSE p \in Clusters : Cardinality({q \in Clusters : q < p}) = i

(* The first of the coefficients cs that a frame has the least error with. *)
BestOf(cs, m) ==
    CHOOSE i \in DOMAIN cs :
        /\ \A j \in DOMAIN cs : AtMost(Eval(m, cs[i]), Eval(m, cs[j]))
        /\ \A j \in 0 .. i - 1 : Less(Eval(m, cs[i]), Eval(m, cs[j]))

(* The first of count predictors that is not in use, or count. *)
FirstEmpty_OldNumbers(used, count) ==       \* faulty: the clusters before
    Min((0 .. count) \ (Clusters \cap 0 .. count - 1))
FirstEmpty(used, count) == Min((0 .. count) \ used)

(* vadpcm_refine_predictors *)
RefinePredictors ==
    /\ pc = "refine"
    /\ LET count == Cardinality(Clusters)
           cs == [i \in 0 .. count - 1 |-> Stabilize(Solve(SumCorr(Cluster(i))))]
       IN  /\ coeff' = cs
           /\ predictors' = [f \in Frames |-> BestOf(cs, corr[f])]
           /\ error' = [f \in Frames |-> Eval(corr[f], cs[predictors'[f]])]
           /\ unassigned' = FirstEmpty({predictors'[f] : f \in Frames}, count)
    /\ before' = error
    /\ adjusted' = \E p \in Clusters : Adjusted(SumCorr(p))
    /\ iter' = iter + 1
    /\ pc' = "iterate"
    /\ UNCHANGED <<frame_count, predictor_count, active_count, blocks, written, ret,
                   src, corr, best_error, codebook>>

---------------------------------------------------------------------------------
(* vadpcm_make_vectors: what the filter c gives after the state <<Scale, 0>> *)
(* for the first vector and <<0, Scale>> for the second.                     *)

StartOf_Swapped(n) == IF n = 0 THEN <<0, Scale>> ELSE <<Scale, 0>>      \* faulty
StartOf(n) == IF n = 0 THEN <<Scale, 0>> ELSE <<0, Scale>>

Response(c, start) ==
    LET x[j \in -2 .. Lanes - 1] ==
            IF j < 0 THEN Whole(start[j + 3])
            ELSE Plus(Times(c[0], x[j - 1]), Times(c[1], x[j - 2]))
    IN  [j \in 0 .. Lanes - 1 |-> x[j]]

Clamped(a) ==
    CASE Less(Whole(MaxSample), a) -> MaxSample
      [] Less(a, Whole(-MaxSample - 1)) -> -MaxSample - 1
      [] OTHER -> Nearest(a)

MakeVector(c, n) ==
    LET x == Response(c, StartOf(n)) IN [j \in 0 .. Lanes - 1 |-> Clamped(x[j])]

ZeroVector == [j \in 0 .. Lanes - 1 |-> 0]

MakeCodebook ==
    [p \in 0 .. predictor_count - 1 |->
        IF MembersOf(p) = {} THEN [n \in 0 .. 1 |-> ZeroVector]
        ELSE LET c == Solve(SumCorr(p)) IN [n \in 0 .. 1 |-> MakeVector(c, n)]]

EncodeFrames ==
    /\ Finish
    /\ codebook' = IF MayEncode THEN MakeCodebook ELSE codebook
    /\ UNCHANGED <<src, corr, best_error, error, coeff, before, adjusted>>

EncodeNothing ==
    /\ NoFrames
    /\ codebook' = [p \in 0 .. predictor_count - 1 |-> [n \in 0 .. 1 |-> ZeroVector]]
    /\ UNCHANGED <<src, corr, best_error, error, coeff, before, adjusted>>

---------------------------------------------------------------------------------

ValuesInit ==
    /\ Init
    /\ \/ src = NoSound
       \/ src \in Sounds /\ Len(src) = frame_count * FrameSampleCount
    /\ corr = << >> /\ best_error = << >> /\ error = << >>
    /\ coeff = << >> /\ codebook = << >>
    /\ before = << >> /\ adjusted = FALSE

ValuesStep ==
    \/ Autocorrelate
    \/ FindBestErrors
    \/ SplitWorst
    \/ RefinePredictors
    \/ EncodeFrames
    \/ EncodeNothing
    \/ /\ \/ BadParams
          \/ TooManyFrames
          \/ CheckParams
          \/ Malloc("corr", "predictors")
          \/ Malloc("error", "iterate")
          \/ \E block \in {"corr", "predictors", "best_error", "error"} : MallocFails(block)
          \/ BeginAssign
          \/ Iterate
          \/ EndAssign
       /\ UNCHANGED values

ValuesNext ==
    \/ src # NoSound /\ ValuesStep
    \/ src = NoSound /\ Step /\ UNCHANGED values
    \/ pc = "done" /\ UNCHANGED valueVars

ValuesSpec == ValuesInit /\ [][ValuesNext]_valueVars

---------------------------------------------------------------------------------

(* The assignment that the values lead to is one that PredictorAssign allows. *)
ImplementsAssign == Spec

(***************************************************************************)
(* No predictor does better for a frame than the coefficients that are the *)
(* frame's own: the improvement by which vadpcm_worst_frame chooses is     *)
(* never negative.  Coefficients that had to be made stable, or were given *)
(* up as the frame's sums are nearly singular, are not the best ones.      *)
(***************************************************************************)
BestErrorIsLeast ==
    src # NoSound /\ pc \in {"iterate", "worst"} /\ iter > 0 =>
        \A f \in Frames : ~Adjusted(corr[f]) => AtMost(best_error[f], error[f])

(* The error of all frames together. *)
TotalError(e) ==
    LET total[i \in 0 .. frame_count] == IF i = 0 THEN Zero ELSE Plus(total[i - 1], e[i - 1])
    IN  total[frame_count]

Refined == src # NoSound /\ pc = "iterate" /\ iter > 1

(***************************************************************************)
(* A round of the refinement never makes the error of all frames greater,  *)
(* with or without a new predictor, unless it uses other coefficients than *)
(* the best for some of the predictors.                                    *)
(***************************************************************************)
RefiningImproves ==
    Refined /\ ~adjusted => AtMost(TotalError(error), TotalError(before))

(***************************************************************************)
(* The frames are compared by coefficients of vadpcm_stabilize, which are  *)
(* in the triangle of the stable filters or on its edge.  Then no response *)
(* grows exponentially; at the corners (2, -1) and (-2, -1) it still grows *)
(* by as much with each sample, which tests/predictor_test.c allows.       *)
(***************************************************************************)
CoefficientsStable ==
    \A i \in DOMAIN coeff :
        LET c == coeff[i]
        IN  /\ AtMost(Neg(One), c[1])
            /\ AtMost(Plus(c[1], c[0]), One) /\ AtMost(Minus(c[1], c[0]), One)

(***************************************************************************)
(* The vectors of a predictor, times the last two samples as the decoder   *)
(* multiplies them, give what its coefficients predict from these samples, *)
(* but for rounding by half a unit for each, unless an entry is clamped.   *)
(***************************************************************************)
CodebookPredicts ==
    src # NoSound /\ pc = "done" /\ ret = "ok" =>
        \A p \in 0 .. predictor_count - 1 : MembersOf(p) # {} =>
            \A s0, s1 \in {-1, 0, 2} : \A j \in 0 .. Lanes - 1 :
                LET v == [n \in 0 .. 1 |-> codebook[p][n][j]]
                    exact == Response(Solve(SumCorr(p)), <<s0, s1>>)[j]
                    d == Minus(Whole(s0 * v[0] + s1 * v[1]), Times(Whole(Scale), exact))
                IN  \/ \E n \in 0 .. 1 : v[n] \in {MaxSample, -MaxSample - 1}
                    \/ 2 * Magnitude(d[1]) <= (Magnitude(s0) + Magnitude(s1)) * d[2]
=================================================================================
