------------------------------ MODULE PredictorAssign ------------------------------
(***************************************************************************)
(* vadpcm_encode (codec/encode.c) as far as the encoding of the data, and  *)
(* vadpcm_assign_predictors (codec/predictor.c), which gives every frame   *)
(* one of the predictors of the codebook: what is allocated, what may      *)
(* fail, and which predictors there are while the assignment is refined.   *)
(*                                                                         *)
(* Which predictor is the best for a frame, and which frame gains the most *)
(* from one of its own, are floating point computations; here they are any *)
(* of those compared.                                                      *)
(***************************************************************************)
EXTENDS Integers, FiniteSets

CONSTANTS
    MaxPredictorCount,  \* kVADPCMMaxPredictorCount
    Iterations,         \* kVADPCMIterations
    FrameCounts, PredictorCounts,   \* what vadpcm_encode is called with
    MaxFrames           \* SIZE_MAX / sizeof(*corr)

ASSUME PredictorAssumption ==
    /\ MaxPredictorCount \in Nat \ {0} /\ Iterations \in Nat
    /\ FrameCounts \subseteq Nat /\ PredictorCounts \subseteq Int
    /\ MaxFrames \in Nat

VARIABLES
    pc,
    frame_count, predictor_count,
    predictors,     \* of each frame
    active_count,   \* predictors to refine
    unassigned,     \* one that is not in use, or predictor_count
    iter,
    blocks,         \* the memory that is allocated
    written,        \* what the caller's buffers have got
    ret

assigned == <<predictors, active_count, unassigned, iter>>
vars == <<pc, frame_count, predictor_count, assigned, blocks, written, ret>>

Frames == 0 .. frame_count - 1

Init ==
    /\ pc = "params"
    /\ frame_count \in FrameCounts
    /\ predictor_count \in PredictorCounts
    /\ predictors = [f \in Frames |-> 0]
    /\ active_count = 1
    /\ unassigned = 0
    /\ iter = 0
    /\ blocks = {}
    /\ written = {}
    /\ ret = "none"

Return(r) == pc' = "done" /\ ret' = r

BadParams ==
    /\ pc = "params"
    /\ predictor_count \notin 1 .. MaxPredictorCount
    /\ Return("invalid_params")
    /\ UNCHANGED <<frame_count, predictor_count, assigned, blocks, written>>

NoFrames ==
    /\ pc = "params"
    /\ predictor_count \in 1 .. MaxPredictorCount
    /\ frame_count = 0
    /\ written' = {"codebook", "stats"}
    /\ Return("ok")
    /\ UNCHANGED <<frame_count, predictor_count, assigned, blocks>>

TooManyFrames ==
    /\ pc = "params"
    /\ predictor_count \in 1 .. MaxPredictorCount
    /\ frame_count > MaxFrames
    /\ Return("memory")
    /\ UNCHANGED <<frame_count, predictor_count, assigned, blocks, written>>

CheckParams ==
    /\ pc = "params"
    /\ predictor_count \in 1 .. MaxPredictorCount
    /\ frame_count \in 1 .. MaxFrames
    /\ pc' = "corr"
    /\ UNCHANGED <<frame_count, predictor_count, assigned, blocks, written, ret>>

---------------------------------------------------------------------------------
(* malloc, for one block after the other; what was there is freed if it fails *)

Malloc(block, next) ==
    /\ pc = block
    /\ blocks' = blocks \cup {block}
    /\ pc' = next
    /\ UNCHANGED <<frame_count, predictor_count, assigned, written, ret>>

FreeOnFailure_Keeps(block) == blocks        \* faulty
FreeOnFailure(block) ==
    CASE block = "predictors" -> blocks \ {"corr"}
      [] block = "error"      -> blocks \ {"best_error"}
      [] OTHER                -> blocks

MallocFails(block) ==
    /\ pc = block
    /\ blocks' = FreeOnFailure(block)
    /\ IF block \in {"corr", "predictors"}
       THEN Return("memory")
       ELSE pc' = "assigned" /\ ret' = "memory"
    /\ UNCHANGED <<frame_count, predictor_count, assigned, written>>

(* vadpcm_assign_predictors *)
BeginAssign ==
    /\ pc = "assign"
    /\ predictors' = [f \in Frames |-> 0]
    /\ active_count' = 1
    /\ unassigned' = predictor_count
    /\ iter' = 0
    /\ pc' = IF predictor_count <= 1 THEN "assigned" ELSE "best_error"
    /\ UNCHANGED <<frame_count, predictor_count, blocks, written, ret>>

---------------------------------------------------------------------------------
(* An iteration: a predictor that no frame uses goes to the worst frame, then *)
(* all are refined.                                                           *)

SomeUnassigned_OrEqual == iter > 0 /\ unassigned <= predictor_count     \* faulty
SomeUnassigned == unassigned < predictor_count

Iterate ==
    /\ pc = "iterate"
    /\ iter < Iterations
    /\ pc' = IF SomeUnassigned THEN "worst" ELSE "refine"
    /\ UNCHANGED <<frame_count, predictor_count, assigned, blocks, written, ret>>

Raise_Never(u) == active_count              \* faulty
Raise(u) == IF u >= active_count THEN u + 1 ELSE active_count

AssignWorst ==
    /\ pc = "worst"
    /\ \E worst \in Frames : predictors' = [predictors EXCEPT ![worst] = unassigned]
    /\ active_count' = Raise(unassigned)
    /\ pc' = "refine"
    /\ UNCHANGED <<frame_count, predictor_count, unassigned, iter, blocks, written,
                   ret>>

(* The predictors that have frames; the others are left out. *)
Clusters == {predictors[f] : f \in Frames} \cap 0 .. active_count - 1

FirstUnused_Last(u, used, count) == u = count - 1     \* faulty
(* u is the first that is not used, or count. *)
FirstUnused(u, used, count) ==
    /\ u \in (0 .. count) \ (used \cap 0 .. count - 1)
    /\ \A i \in 0 .. u - 1 : i \in used

(***************************************************************************)
(* vadpcm_refine_predictors: the coefficients of the clusters are          *)
(* numbered anew, from 0, and each frame takes the best of them.           *)
(***************************************************************************)
Refine ==
    /\ pc = "refine"
    /\ LET count == Cardinality(Clusters)
       IN  /\ predictors' \in [Frames -> 0 .. count - 1]
           /\ unassigned' \in 0 .. count
           /\ FirstUnused(unassigned', {predictors'[f] : f \in Frames}, count)
    /\ iter' = iter + 1
    /\ pc' = "iterate"
    /\ UNCHANGED <<frame_count, predictor_count, active_count, blocks, written, ret>>

EndAssign ==
    /\ pc = "iterate"
    /\ iter = Iterations
    /\ blocks' = blocks \ {"best_error", "error"}
    /\ pc' = "assigned"
    /\ UNCHANGED <<frame_count, predictor_count, assigned, written, ret>>

---------------------------------------------------------------------------------

MayEncode_Always == TRUE                    \* faulty
MayEncode == ret = "none"

(* The codebook is made of the assignment, and the data encoded with it. *)
Finish ==
    /\ pc = "assigned"
    /\ written' = IF MayEncode THEN {"codebook", "dest", "stats"} ELSE written
    /\ blocks' = blocks \ {"corr", "predictors"}
    /\ Return(IF ret = "none" THEN "ok" ELSE ret)
    /\ UNCHANGED <<frame_count, predictor_count, assigned>>

Allocate ==
    \/ Malloc("corr", "predictors")
    \/ Malloc("predictors", "assign")
    \/ Malloc("best_error", "error")
    \/ Malloc("error", "iterate")
    \/ \E block \in {"corr", "predictors", "best_error", "error"} : MallocFails(block)

Step ==
    \/ BadParams
    \/ NoFrames
    \/ TooManyFrames
    \/ CheckParams
    \/ Allocate
    \/ BeginAssign
    \/ Iterate
    \/ AssignWorst
    \/ Refine
    \/ EndAssign
    \/ Finish

Next == Step \/ (pc = "done" /\ UNCHANGED vars)

Spec == Init /\ [][Next]_vars

---------------------------------------------------------------------------------

(* What each variable may hold. *)
TypeOK ==
    /\ pc \in {"params", "corr", "predictors", "assign", "best_error", "error", "iterate",
               "worst", "refine", "assigned", "done"}
    /\ frame_count \in Nat
    /\ predictor_count \in Int
    /\ pc \notin {"params", "done"} => predictor_count \in 1 .. MaxPredictorCount
    /\ predictors \in [Frames -> 0 .. MaxPredictorCount - 1]
    /\ active_count \in 1 .. MaxPredictorCount
    /\ unassigned \in 0 .. MaxPredictorCount
    /\ iter \in 0 .. Iterations
    /\ blocks \subseteq {"corr", "predictors", "best_error", "error"}
    /\ written \subseteq {"codebook", "dest", "stats"}
    /\ ret \in {"none", "ok", "invalid_params", "memory"}

(***************************************************************************)
(* No frame has a predictor that vadpcm_meancorrs would leave out when the *)
(* predictors are refined, and there are no more than were asked for; and  *)
(* there is a frame, for the one that vadpcm_worst_frame starts with.      *)
(***************************************************************************)
FramesCounted ==
    pc \in {"iterate", "worst", "refine"} =>
        /\ frame_count > 0
        /\ active_count <= predictor_count
        /\ \A f \in Frames : predictors[f] < active_count

(***************************************************************************)
(* The predictor that goes to the worst frame is one that no frame has, so *)
(* no other frame follows it there.                                        *)
(***************************************************************************)
UnassignedIsUnused ==
    pc \in {"iterate", "worst"} /\ unassigned < predictor_count =>
        \A f \in Frames : predictors[f] # unassigned

(* Every predictor of a frame is in the codebook when the data are encoded. *)
CodebookCovers ==
    pc = "assigned" => \A f \in Frames : predictors[f] < predictor_count

(* Nothing is left allocated, however the call ends. *)
AllFreed == pc = "done" => blocks = {}

(***************************************************************************)
(* A call that fails leaves the caller's codebook and data as they were; a *)
(* call that does not has written all of them.                             *)
(***************************************************************************)
AllOrNothing ==
    pc = "done" =>
        /\ ret # "ok" <=> written = {}
        /\ ret = "ok" /\ frame_count > 0 => "dest" \in written
=================================================================================
