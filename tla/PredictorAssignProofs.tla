--------------------------- MODULE PredictorAssignProofs ---------------------------
(***************************************************************************)
(* Theorems about modules PredictorAssign and PredictorValues, for any     *)
(* number of frames and predictors, of iterations, and any sound.          *)
(***************************************************************************)
EXTENDS PredictorValues, FiniteSetTheorems, WellFoundedInduction, TLAPS

(* The blocks there are at each point, from the outermost in. *)
Held ==
    /\ pc \in {"params", "corr", "done"} => blocks = {}
    /\ pc = "predictors" => blocks = {"corr"}
    /\ pc \in {"assign", "best_error", "assigned"} => blocks = {"corr", "predictors"}
    /\ pc = "error" => blocks = {"corr", "predictors", "best_error"}
    /\ pc \in {"iterate", "worst", "refine"} =>
         blocks = {"corr", "predictors", "best_error", "error"}

(* What there is to return, and what has been written, before the end. *)
Pending ==
    /\ pc \notin {"assigned", "done"} => ret = "none"
    /\ pc = "assigned" => ret \in {"none", "memory"}
    /\ pc # "done" => written = {}
    /\ pc \notin {"params", "done"} => frame_count > 0
    /\ pc \in {"worst", "refine"} => iter < Iterations

(* Frames have predictors that are counted, before and after the refinement. *)
Counted ==
    /\ pc \in {"iterate", "worst", "refine"} =>
         /\ active_count <= predictor_count
         /\ \A f \in Frames : predictors[f] < active_count
    /\ pc \in {"iterate", "assigned"} =>
         \A f \in Frames : predictors[f] < predictor_count
    /\ pc \in {"best_error", "error"} =>
         /\ active_count = 1 /\ unassigned = predictor_count
         /\ \A f \in Frames : predictors[f] = 0
    /\ pc \in {"iterate", "worst"} =>
         /\ unassigned <= predictor_count
    /\ pc = "worst" => unassigned < predictor_count

IInv == TypeOK /\ Held /\ Pending /\ Counted /\ UnassignedIsUnused /\ AllOrNothing

(***************************************************************************)
(* The clusters are no more than the active predictors, and there is one   *)
(* if there is a frame.                                                    *)
(***************************************************************************)
LEMMA ClusterCount ==
  ASSUME TypeOK
  PROVE  /\ Cardinality(Clusters) \in 0 .. active_count
         /\ frame_count > 0 /\ (\A f \in Frames : predictors[f] < active_count) =>
              Cardinality(Clusters) > 0
  <1>1. /\ IsFiniteSet(0 .. active_count - 1)
        /\ Cardinality(0 .. active_count - 1) = active_count
    <2>1. /\ IsFiniteSet(0 .. active_count - 1)
          /\ Cardinality(0 .. active_count - 1) =
               IF 0 > active_count - 1 THEN 0 ELSE active_count - 1 - 0 + 1
      BY FS_Interval DEF TypeOK
    <2> QED
      BY <2>1, PredictorAssumption DEF TypeOK
  <1>2. Clusters \subseteq 0 .. active_count - 1
    BY DEF Clusters
  <1>3. /\ IsFiniteSet(Clusters)
        /\ Cardinality(Clusters) <= active_count
    BY <1>1, <1>2, FS_Subset
  <1>4. Cardinality(Clusters) \in Nat
    BY <1>3, FS_CardinalityType
  <1>5. ASSUME frame_count > 0, \A f \in Frames : predictors[f] < active_count
        PROVE  Cardinality(Clusters) > 0
    <2>1. predictors[0] \in Clusters
      BY <1>5, PredictorAssumption DEF Clusters, Frames, TypeOK
    <2>2. Cardinality(Clusters) # 0
      BY <2>1, <1>3, FS_EmptySet
    <2> QED
      BY <2>2, <1>4
  <1> QED
    BY <1>3, <1>4, <1>5, PredictorAssumption DEF TypeOK

LEMMA InitInv == Init => IInv
  <1> SUFFICES ASSUME Init PROVE IInv
    OBVIOUS
  <1> USE DEF Init
  <1>1. TypeOK
    <2>1. frame_count \in Nat /\ predictor_count \in Int
      BY PredictorAssumption
    <2>2. /\ 0 \in 0 .. MaxPredictorCount - 1 /\ 1 \in 1 .. MaxPredictorCount
          /\ 0 \in 0 .. MaxPredictorCount /\ 0 \in 0 .. Iterations
      BY PredictorAssumption
    <2>3. predictors \in [Frames -> 0 .. MaxPredictorCount - 1]
      BY <2>2
    <2> QED
      BY <2>1, <2>2, <2>3 DEF TypeOK
  <1>2. Held /\ Pending /\ Counted /\ UnassignedIsUnused /\ AllOrNothing
    BY DEF Held, Pending, Counted, UnassignedIsUnused, AllOrNothing
  <1> QED
    BY <1>1, <1>2 DEF IInv

LEMMA ParamsInv ==
  ASSUME IInv, BadParams \/ NoFrames \/ TooManyFrames \/ CheckParams
  PROVE  IInv'
  <1> USE DEF IInv, Return, assigned
  <1>1. CASE BadParams
    BY <1>1 DEF BadParams, TypeOK, Held, Pending, Counted, UnassignedIsUnused, AllOrNothing,
       Frames
  <1>2. CASE NoFrames
    BY <1>2 DEF NoFrames, TypeOK, Held, Pending, Counted, UnassignedIsUnused, AllOrNothing,
       Frames
  <1>3. CASE TooManyFrames
    BY <1>3 DEF TooManyFrames, TypeOK, Held, Pending, Counted, UnassignedIsUnused,
       AllOrNothing, Frames
  <1>4. CASE CheckParams
    BY <1>4 DEF CheckParams, TypeOK, Held, Pending, Counted, UnassignedIsUnused, AllOrNothing,
       Frames
  <1> QED
    BY <1>1, <1>2, <1>3, <1>4

LEMMA AllocateInv ==
  ASSUME IInv, Allocate
  PROVE  IInv'
  <1> USE DEF IInv, Return, assigned, Malloc, MallocFails, FreeOnFailure
  <1>1. CASE Malloc("corr", "predictors")
    BY <1>1 DEF TypeOK, Held, Pending, Counted, UnassignedIsUnused, AllOrNothing, Frames
  <1>2. CASE Malloc("predictors", "assign")
    BY <1>2 DEF TypeOK, Held, Pending, Counted, UnassignedIsUnused, AllOrNothing, Frames
  <1>3. CASE Malloc("best_error", "error")
    BY <1>3 DEF TypeOK, Held, Pending, Counted, UnassignedIsUnused, AllOrNothing, Frames
  <1>4. CASE Malloc("error", "iterate")
    BY <1>4 DEF TypeOK, Held, Pending, Counted, UnassignedIsUnused, AllOrNothing, Frames
  <1>5. CASE MallocFails("corr")
    BY <1>5 DEF TypeOK, Held, Pending, Counted, UnassignedIsUnused, AllOrNothing, Frames
  <1>6. CASE MallocFails("predictors")
    BY <1>6 DEF TypeOK, Held, Pending, Counted, UnassignedIsUnused, AllOrNothing, Frames
  <1>7. CASE MallocFails("best_error")
    BY <1>7 DEF TypeOK, Held, Pending, Counted, UnassignedIsUnused, AllOrNothing, Frames
  <1>8. CASE MallocFails("error")
    BY <1>8 DEF TypeOK, Held, Pending, Counted, UnassignedIsUnused, AllOrNothing, Frames
  <1>9. \/ Malloc("corr", "predictors") \/ Malloc("predictors", "assign")
        \/ Malloc("best_error", "error") \/ Malloc("error", "iterate")
        \/ MallocFails("corr") \/ MallocFails("predictors")
        \/ MallocFails("best_error") \/ MallocFails("error")
    <2> HIDE DEF IInv, Malloc, MallocFails
    <2> QED
      BY DEF Allocate
  <1> HIDE DEF IInv, Malloc, MallocFails
  <1> QED
    BY <1>1, <1>2, <1>3, <1>4, <1>5, <1>6, <1>7, <1>8, <1>9

LEMMA BeginAssignInv ==
  ASSUME IInv, BeginAssign
  PROVE  IInv'
  <1> USE DEF IInv, BeginAssign
  <1>1. TypeOK'
    <2>1. predictor_count \in 1 .. MaxPredictorCount
      BY DEF TypeOK
    <2>2. /\ 0 \in 0 .. MaxPredictorCount - 1 /\ 1 \in 1 .. MaxPredictorCount
          /\ predictor_count \in 0 .. MaxPredictorCount /\ 0 \in 0 .. Iterations
      BY <2>1, PredictorAssumption
    <2>3. Frames' = Frames
      BY DEF Frames
    <2>4. predictors' \in [Frames -> 0 .. MaxPredictorCount - 1]
      BY <2>2
    <2> QED
      BY <2>1, <2>2, <2>3, <2>4 DEF TypeOK
  <1>2. (Held /\ Pending /\ AllOrNothing)'
    BY DEF Held, Pending, AllOrNothing, TypeOK
  <1>3. (Counted /\ UnassignedIsUnused)'
    BY DEF Counted, UnassignedIsUnused, TypeOK, Frames
  <1> QED
    BY <1>1, <1>2, <1>3

LEMMA IterateInv ==
  ASSUME IInv, Iterate
  PROVE  IInv'
  BY DEF IInv, Iterate, SomeUnassigned, assigned, TypeOK, Held, Pending, Counted,
     UnassignedIsUnused, AllOrNothing, Frames

(* The predictor given to the worst frame becomes an active one. *)
LEMMA AssignWorstInv ==
  ASSUME IInv, AssignWorst
  PROVE  IInv'
  <1> USE DEF IInv, AssignWorst, Raise
  <1>1. TypeOK'
    <2>1. Frames' = Frames
      BY DEF Frames
    <2>2. predictor_count \in 1 .. MaxPredictorCount
      BY DEF TypeOK
    <2>3. unassigned \in 0 .. MaxPredictorCount - 1
      BY <2>2, PredictorAssumption DEF TypeOK, Counted
    <2>4. predictors' \in [Frames -> 0 .. MaxPredictorCount - 1]
      BY <2>3 DEF TypeOK
    <2>5. active_count' \in 1 .. MaxPredictorCount
      BY <2>3, PredictorAssumption DEF TypeOK
    <2> QED
      BY <2>1, <2>4, <2>5 DEF TypeOK
  <1>2. (Held /\ Pending /\ AllOrNothing /\ UnassignedIsUnused)'
    BY DEF Held, Pending, AllOrNothing, UnassignedIsUnused, TypeOK
  <1>3. Counted'
    BY DEF Counted, TypeOK, Frames
  <1> QED
    BY <1>1, <1>2, <1>3

(* The clusters are no more than before, and the first unused one is unused. *)
LEMMA RefineInv ==
  ASSUME IInv, Refine
  PROVE  IInv'
  <1> DEFINE count == Cardinality(Clusters)
             used  == {predictors'[f] : f \in Frames}
  <1>1. count \in 1 .. active_count
    BY ClusterCount, PredictorAssumption DEF IInv, Refine, Counted, Pending, TypeOK
  <1>2. /\ predictors' \in [Frames -> 0 .. count - 1]
        /\ unassigned' \in 0 .. count
        /\ unassigned' \notin used \cap 0 .. count - 1
    BY DEF Refine, FirstUnused
  <1>3. /\ pc = "refine" /\ pc' = "iterate" /\ iter' = iter + 1
        /\ UNCHANGED <<frame_count, predictor_count, active_count, blocks, written, ret>>
    BY DEF Refine
  <1>4. Frames' = Frames
    BY <1>3 DEF Frames
  <1> HIDE DEF count
  <1>5. \A f \in Frames : predictors'[f] \in 0 .. count - 1 /\ predictors'[f] # unassigned'
    BY <1>1, <1>2
  <1>6. TypeOK'
    <2>1. active_count \in 1 .. MaxPredictorCount
      BY DEF IInv, TypeOK
    <2>2. count - 1 <= MaxPredictorCount - 1 /\ count \in Nat
      BY <1>1, <2>1, PredictorAssumption
    <2>3. predictors' \in [Frames -> 0 .. MaxPredictorCount - 1]
      BY <1>2, <2>2, PredictorAssumption
    <2>4. unassigned' \in 0 .. MaxPredictorCount
      BY <1>2, <2>2, PredictorAssumption
    <2>5. iter' \in 0 .. Iterations
      BY <1>3, PredictorAssumption DEF IInv, TypeOK, Pending
    <2> QED
      BY <1>3, <1>4, <2>3, <2>4, <2>5 DEF IInv, TypeOK
  <1>7. (Held /\ Pending /\ AllOrNothing)'
    BY <1>3 DEF IInv, Held, Pending, AllOrNothing
  <1>8. Counted'
    BY <1>1, <1>2, <1>3, <1>4, <1>5 DEF IInv, Counted, TypeOK
  <1>9. UnassignedIsUnused'
    BY <1>3, <1>4, <1>5 DEF UnassignedIsUnused
  <1> QED
    BY <1>6, <1>7, <1>8, <1>9 DEF IInv

LEMMA EndInv ==
  ASSUME IInv, EndAssign \/ Finish
  PROVE  IInv'
  <1> USE DEF IInv, assigned
  <1>1. CASE EndAssign
    BY <1>1 DEF EndAssign, TypeOK, Held, Pending, Counted, UnassignedIsUnused, AllOrNothing,
       Frames
  <1>2. CASE Finish
    BY <1>2 DEF Finish, MayEncode, Return, TypeOK, Held, Pending, Counted,
       UnassignedIsUnused, AllOrNothing, Frames
  <1> QED
    BY <1>1, <1>2

---------------------------------------------------------------------------------

LEMMA NextInv ==
  ASSUME IInv, [Next]_vars
  PROVE  IInv'
  <1>1. CASE Step
    <2>1. CASE BadParams \/ NoFrames \/ TooManyFrames \/ CheckParams
      BY <2>1, ParamsInv
    <2>2. CASE Allocate
      BY <2>2, AllocateInv
    <2>3. CASE BeginAssign
      BY <2>3, BeginAssignInv
    <2>4. CASE Iterate
      BY <2>4, IterateInv
    <2>5. CASE AssignWorst
      BY <2>5, AssignWorstInv
    <2>6. CASE Refine
      BY <2>6, RefineInv
    <2>7. CASE EndAssign \/ Finish
      BY <2>7, EndInv
    <2> QED
      BY <1>1, <2>1, <2>2, <2>3, <2>4, <2>5, <2>6, <2>7 DEF Step
  <1>2. CASE UNCHANGED vars
    BY <1>2 DEF vars, assigned, IInv, TypeOK, Held, Pending, Counted, UnassignedIsUnused,
       AllOrNothing, Frames
  <1> QED
    BY <1>1, <1>2 DEF Next

(***************************************************************************)
(* The invariant holds in every state of every call.                       *)
(***************************************************************************)
THEOREM AssignInvariant == Spec => []IInv
  <1>1. Init => IInv
    BY InitInv
  <1>2. IInv /\ [Next]_vars => IInv'
    BY NextInv
  <1> QED
    BY <1>1, <1>2, PTL DEF Spec

(* What each variable holds, for any number of frames and predictors. *)
THEOREM AssignTypes == Spec => []TypeOK
  <1>1. IInv => TypeOK
    BY DEF IInv
  <1> QED
    BY <1>1, AssignInvariant, PTL

(***************************************************************************)
(* No frame is left out of the refinement (vadpcm_meancorrs ignores those  *)
(* whose predictor is out of range).                                       *)
(***************************************************************************)
THEOREM AssignCounts == Spec => []FramesCounted
  <1>1. IInv => FramesCounted
    BY DEF IInv, Counted, Pending, FramesCounted
  <1> QED
    BY <1>1, AssignInvariant, PTL

(* The predictor that vadpcm_refine_predictors returns is one no frame has. *)
THEOREM AssignUnused == Spec => []UnassignedIsUnused
  <1>1. IInv => UnassignedIsUnused
    BY DEF IInv
  <1> QED
    BY <1>1, AssignInvariant, PTL

(***************************************************************************)
(* Every frame is encoded with a predictor of the codebook, so the control *)
(* byte names one that the decoder will find.                              *)
(***************************************************************************)
THEOREM AssignCovers == Spec => []CodebookCovers
  <1>1. IInv => CodebookCovers
    BY DEF IInv, Counted, CodebookCovers
  <1> QED
    BY <1>1, AssignInvariant, PTL

(* vadpcm_encode frees what it allocates, whichever allocation fails. *)
THEOREM AssignFrees == Spec => []AllFreed
  <1>1. IInv => AllFreed
    BY DEF IInv, Held, AllFreed
  <1> QED
    BY <1>1, AssignInvariant, PTL

(* A call of vadpcm_encode that fails has not touched the caller's buffers. *)
THEOREM AssignAllOrNothing == Spec => []AllOrNothing
  <1>1. IInv => AllOrNothing
    BY DEF IInv
  <1> QED
    BY <1>1, AssignInvariant, PTL
---------------------------------------------------------------------------------
(* Induction, over a set of numbers *)

(***************************************************************************)
(* A set of numbers has a least one: of the intervals from 0 to each of    *)
(* them, one has none of the others in it, as strict inclusion of finite   *)
(* sets is well-founded.                                                   *)
(***************************************************************************)
LEMMA LeastNumber ==
  ASSUME NEW S, S \subseteq Nat, S # {}
  PROVE  \E n \in S : \A m \in S : n <= m
  <1> DEFINE F == {0 .. n : n \in S}
             R == StrictSubsetOrdering(UNION F)
  <1>1. F # {} /\ \A I \in F : IsFiniteSet(I)
    <2>1. \A n \in S : IsFiniteSet(0 .. n)
      <3>1. \A n \in S : 0 \in Int /\ n \in Int
        OBVIOUS
      <3> QED
        BY <3>1, FS_Interval
    <2>2. F # {}
      OBVIOUS
    <2> QED
      BY <2>1, <2>2
  <1>2. IsWellFoundedOn(R, FiniteSubsetsOf(UNION F))
    BY FS_StrictSubsetOrderingWellFounded
  <1>3. F \subseteq FiniteSubsetsOf(UNION F)
    BY <1>1 DEF FiniteSubsetsOf
  <1>4. \E I \in F : \A J \in F : ~(<<J, I>> \in R)
    <2> HIDE DEF R, F
    <2> QED
      BY <1>1, <1>2, <1>3, WFMin, Zenon
  <1>5. PICK n \in S : \A J \in F : ~(<<J, 0 .. n>> \in R)
    BY <1>4
  <1>6. ASSUME NEW m \in S, m < n PROVE FALSE
    <2>1. 0 .. m \in F /\ 0 .. n \in F
      OBVIOUS
    <2>2. 0 .. m \subseteq 0 .. n /\ n \in 0 .. n /\ n \notin 0 .. m
      BY <1>6
    <2>3. <<0 .. m, 0 .. n>> \in R
      BY <2>1, <2>2, Zenon DEF StrictSubsetOrdering
    <2> QED
      BY <1>5, <2>1, <2>3
  <1> QED
    BY <1>6

LEMMA StrongInduction ==
  ASSUME NEW P, \A n \in Nat : (\A m \in 0 .. n - 1 : m \in P) => n \in P
  PROVE  Nat \subseteq P
  <1> SUFFICES ASSUME Nat \ P # {} PROVE FALSE
    OBVIOUS
  <1>1. PICK n \in Nat \ P : \A m \in Nat \ P : n <= m
    BY LeastNumber
  <1>2. \A m \in 0 .. n - 1 : m \in P
    BY <1>1
  <1> QED
    BY <1>1, <1>2

---------------------------------------------------------------------------------
(* Rationals: the order *)

Cross(a, b) == a[1] * b[2] <= b[1] * a[2]

LEMMA RationalParts ==
  ASSUME NEW a \in RationalNumbers
  PROVE  a[1] \in Int /\ a[2] \in Int /\ a[2] > 0 /\ a = <<a[1], a[2]>>
  BY DEF RationalNumbers

LEMMA Divided ==
  ASSUME NEW x \in Int, NEW m \in Int, m > 0
  PROVE  x \div m \in Int /\ x % m \in 0 .. m - 1 /\ x = (x \div m) * m + (x % m)
  OBVIOUS

(* What Euclid's comparison of the integral parts comes to. *)
LEMMA CrossStep ==
  ASSUME NEW n \in Int, NEW c \in Int, c > 0, NEW m \in Int, NEW d \in Int, d > 0
  PROVE  n * d <= m * c
           <=> \/ n \div c < m \div d
               \/ /\ n \div c = m \div d
                  /\ \/ n % c = 0
                     \/ n % c > 0 /\ m % d > 0 /\ d * (n % c) <= c * (m % d)
  <1> DEFINE q == n \div c
             r == n % c
             s == m \div d
             t == m % d
  <1>1. q \in Int /\ r \in Int /\ 0 <= r /\ r <= c - 1 /\ n = q * c + r
    BY Divided
  <1>2. s \in Int /\ t \in Int /\ 0 <= t /\ t <= d - 1 /\ m = s * d + t
    BY Divided
  <1> HIDE DEF q, r, s, t
  <1>3. n * d = q * (c * d) + d * r /\ m * c = s * (c * d) + c * t
    BY <1>1, <1>2
  <1>4. c * d > 0 /\ d * r >= 0 /\ d * r < c * d /\ c * t >= 0 /\ c * t < c * d
    <2>1. c * d > 0
      OBVIOUS
    <2>2. d * r >= 0 /\ d * r <= d * (c - 1) /\ d * (c - 1) = c * d - d
      BY <1>1
    <2>3. c * t >= 0 /\ c * t <= c * (d - 1) /\ c * (d - 1) = c * d - c
      BY <1>2
    <2> QED
      BY <1>1, <1>2, <2>1, <2>2, <2>3
  <1> DEFINE e == c * d
             u == d * r
             w == c * t
  <1>5. e \in Int /\ u \in Int /\ w \in Int
    BY <1>1, <1>2
  <1>6. n * d = q * e + u /\ m * c = s * e + w
    BY <1>3
  <1>7. e > 0 /\ u >= 0 /\ u < e /\ w >= 0 /\ w < e
    BY <1>4
  <1>8. r = 0 => u = 0
    BY <1>1
  <1>9. r > 0 => u > 0
    BY <1>1
  <1>10. t = 0 => w = 0
    BY <1>2
  <1> HIDE DEF e, u, w
  <1>11. CASE q < s
    <2>1. q * e + e <= s * e
      <3>1. (s - q - 1) * e >= 0
        BY <1>1, <1>2, <1>5, <1>7, <1>11
      <3>2. (s - q - 1) * e = s * e - q * e - e
        BY <1>1, <1>2, <1>5
      <3> QED
        BY <1>1, <1>2, <1>5, <3>1, <3>2
    <2> QED
      BY <1>1, <1>2, <1>5, <1>6, <1>7, <1>11, <2>1 DEF q, s
  <1>12. CASE q > s
    <2>1. s * e + e <= q * e
      <3>1. (q - s - 1) * e >= 0
        BY <1>1, <1>2, <1>5, <1>7, <1>12
      <3>2. (q - s - 1) * e = q * e - s * e - e
        BY <1>1, <1>2, <1>5
      <3> QED
        BY <1>1, <1>2, <1>5, <3>1, <3>2
    <2>2. ~(n * d <= m * c)
      BY <1>1, <1>2, <1>5, <1>6, <1>7, <2>1
    <2> QED
      BY <1>1, <1>2, <1>12, <2>2 DEF q, s
  <1>13. CASE q = s
    <2>1. n * d <= m * c <=> u <= w
      BY <1>1, <1>5, <1>6, <1>13
    <2>2. u <= w <=> r = 0 \/ (r > 0 /\ t > 0 /\ u <= w)
      BY <1>1, <1>2, <1>5, <1>7, <1>8, <1>9, <1>10
    <2> QED
      BY <1>1, <1>2, <1>13, <2>1, <2>2 DEF q, r, s, t, u, w
  <1> QED
    BY <1>1, <1>2, <1>11, <1>12, <1>13
LEMMA ScaledUp ==
  ASSUME NEW i \in Int, NEW j \in Int, NEW k \in Int, k > 0
  PROVE  i <= j <=> i * k <= j * k
  <1>1. CASE i <= j
    <2>1. (j - i) * k >= 0 /\ (j - i) * k = j * k - i * k
      BY <1>1
    <2> QED
      BY <1>1, <2>1
  <1>2. CASE i > j
    <2>1. (i - j) * k > 0 /\ (i - j) * k = i * k - j * k
      BY <1>2
    <2> QED
      BY <1>2, <2>1
  <1> QED
    BY <1>1, <1>2
(* The equation that atMost is the solution of. *)
Below(f, a, b) ==
    \/ a[1] \div a[2] < b[1] \div b[2]
    \/ /\ a[1] \div a[2] = b[1] \div b[2]
       /\ \/ a[1] % a[2] = 0
          \/ /\ a[1] % a[2] > 0 /\ b[1] % b[2] > 0
             /\ f[<<<<b[2], b[1] % b[2]>>, <<a[2], a[1] % a[2]>>>>]

LEMMA RestsAreRational ==
  ASSUME NEW a \in RationalNumbers, NEW b \in RationalNumbers,
         a[1] % a[2] > 0, b[1] % b[2] > 0
  PROVE  /\ <<b[2], b[1] % b[2]>> \in RationalNumbers
         /\ <<a[2], a[1] % a[2]>> \in RationalNumbers
         /\ a[1] % a[2] < a[2] /\ b[1] % b[2] < b[2]
  <1>1. /\ a[1] \in Int /\ a[2] \in Int /\ a[2] > 0
        /\ b[1] \in Int /\ b[2] \in Int /\ b[2] > 0
    BY RationalParts
  <1>2. a[1] % a[2] \in 0 .. a[2] - 1 /\ b[1] % b[2] \in 0 .. b[2] - 1
    BY <1>1, Divided
  <1> QED
    BY <1>1, <1>2 DEF RationalNumbers

LEMMA CrossIsBelow ==
  ASSUME NEW a \in RationalNumbers, NEW b \in RationalNumbers
  PROVE  Cross(a, b) <=> Below([p \in RationalNumbers \X RationalNumbers |->
                                  Cross(p[1], p[2])], a, b)
  <1> DEFINE f == [p \in RationalNumbers \X RationalNumbers |-> Cross(p[1], p[2])]
             x == <<b[2], b[1] % b[2]>>
             y == <<a[2], a[1] % a[2]>>
  <1>1. /\ a[1] \in Int /\ a[2] \in Int /\ a[2] > 0
        /\ b[1] \in Int /\ b[2] \in Int /\ b[2] > 0
    BY RationalParts
  <1>2. ASSUME a[1] % a[2] > 0, b[1] % b[2] > 0
        PROVE  f[<<x, y>>] <=> b[2] * (a[1] % a[2]) <= a[2] * (b[1] % b[2])
    <2>1. x \in RationalNumbers /\ y \in RationalNumbers
      BY <1>2, RestsAreRational
    <2>2. f[<<x, y>>] <=> Cross(x, y)
      <3> HIDE DEF x, y
      <3> QED
        BY <2>1, Zenon
    <2> QED
      BY <2>2 DEF Cross
  <1>3. a[1] * b[2] <= b[1] * a[2]
        <=> \/ a[1] \div a[2] < b[1] \div b[2]
            \/ /\ a[1] \div a[2] = b[1] \div b[2]
               /\ \/ a[1] % a[2] = 0
                  \/ /\ a[1] % a[2] > 0 /\ b[1] % b[2] > 0
                     /\ b[2] * (a[1] % a[2]) <= a[2] * (b[1] % b[2])
    BY <1>1, CrossStep
  <1>4. Cross(a, b) <=> Below(f, a, b)
    <2> HIDE DEF f
    <2> QED
      BY <1>2, <1>3, Zenon DEF Cross, Below
  <1> QED
    BY <1>4, Zenon

LEMMA AtMostUnfolds ==
  ASSUME NEW a \in RationalNumbers, NEW b \in RationalNumbers
  PROVE  AtMost(a, b) <=> Below(atMost, a, b)
  <1> DEFINE D == RationalNumbers \X RationalNumbers
             W == [p \in D |-> Cross(p[1], p[2])]
             E(f) == f = [p \in D |-> Below(f, p[1], p[2])]
  <1>1. E(W)
    <2>1. \A p \in D : p[1] \in RationalNumbers /\ p[2] \in RationalNumbers
      OBVIOUS
    <2>2. \A p \in D : Cross(p[1], p[2]) = Below(W, p[1], p[2])
      <3> SUFFICES ASSUME NEW p \in D PROVE Cross(p[1], p[2]) = Below(W, p[1], p[2])
        OBVIOUS
      <3>1. Cross(p[1], p[2]) <=> Below(W, p[1], p[2])
        BY <2>1, CrossIsBelow
      <3>2. Cross(p[1], p[2]) \in BOOLEAN
        BY DEF Cross
      <3>3. Below(W, p[1], p[2]) \in BOOLEAN
        BY DEF Below
      <3> QED
        BY <3>1, <3>2, <3>3
    <2> QED
      BY <2>2, Zenon
  <1>2. atMost = CHOOSE f : E(f)
    BY Zenon DEF atMost, Below
  <1>3. E(atMost)
    <2> HIDE DEF E
    <2> QED
      BY <1>1, <1>2, Zenon
  <1>4. <<a, b>> \in D /\ <<a, b>>[1] = a /\ <<a, b>>[2] = b
    OBVIOUS
  <1>5. atMost[<<a, b>>] = Below(atMost, <<a, b>>[1], <<a, b>>[2])
    BY <1>3, <1>4, Zenon
  <1> QED
    BY <1>4, <1>5, Zenon DEF AtMost

(***************************************************************************)
(* Rationals are compared as their cross products are: by induction over   *)
(* the sum of the denominators, which Euclid's rule makes smaller.         *)
(***************************************************************************)
LEMMA AtMostCross ==
  ASSUME NEW a \in RationalNumbers, NEW b \in RationalNumbers
  PROVE  AtMost(a, b) <=> Cross(a, b)
  <1> DEFINE Same(n) == \A x, y \in RationalNumbers :
                          x[2] + y[2] = n => (AtMost(x, y) <=> Cross(x, y))
             P == {n \in Nat : Same(n)}
  <1>1. ASSUME NEW n \in Nat, \A m \in 0 .. n - 1 : m \in P
        PROVE  n \in P
    <2> SUFFICES ASSUME NEW x \in RationalNumbers, NEW y \in RationalNumbers,
                        x[2] + y[2] = n
                 PROVE  AtMost(x, y) <=> Cross(x, y)
      OBVIOUS
    <2> DEFINE W == [p \in RationalNumbers \X RationalNumbers |-> Cross(p[1], p[2])]
               u == <<y[2], y[1] % y[2]>>
               v == <<x[2], x[1] % x[2]>>
    <2>1. AtMost(x, y) <=> Below(atMost, x, y)
      BY AtMostUnfolds
    <2>2. Cross(x, y) <=> Below(W, x, y)
      BY CrossIsBelow
    <2>3. ASSUME x[1] % x[2] > 0, y[1] % y[2] > 0
          PROVE  atMost[<<u, v>>] <=> W[<<u, v>>]
      <3>1. u \in RationalNumbers /\ v \in RationalNumbers
        BY <2>3, RestsAreRational
      <3>2. u[2] + v[2] \in 0 .. n - 1
        <4>1. /\ x[1] \in Int /\ x[2] \in Int /\ x[2] > 0
              /\ y[1] \in Int /\ y[2] \in Int /\ y[2] > 0
          BY RationalParts
        <4>2. x[1] % x[2] < x[2] /\ y[1] % y[2] < y[2]
          BY <2>3, RestsAreRational
        <4>3. x[1] % x[2] \in Int /\ y[1] % y[2] \in Int
          BY <4>1, Divided
        <4> QED
          BY <2>3, <4>1, <4>2, <4>3
      <3> HIDE DEF u, v
      <3>3. Same(u[2] + v[2])
        BY <1>1, <3>2
      <3>4. AtMost(u, v) <=> Cross(u, v)
        BY <3>1, <3>3, Zenon
      <3>5. W[<<u, v>>] <=> Cross(u, v)
        BY <3>1, Zenon
      <3> QED
        BY <3>4, <3>5, Zenon DEF AtMost
    <2>4. Below(atMost, x, y) <=> Below(W, x, y)
      <3> HIDE DEF W
      <3> QED
        BY <2>3, Zenon DEF Below
    <2> QED
      BY <2>1, <2>2, <2>4, Zenon
  <1>2. Nat \subseteq P
    <2> HIDE DEF P
    <2> QED
      BY <1>1, StrongInduction, Zenon
  <1>3. a[2] + b[2] \in Nat
    BY RationalParts
  <1>4. Same(a[2] + b[2])
    BY <1>2, <1>3
  <1> QED
    BY <1>4

(* The order is total and transitive. *)
LEMMA AtMostTotal ==
  ASSUME NEW a \in RationalNumbers, NEW b \in RationalNumbers
  PROVE  AtMost(a, b) \/ AtMost(b, a)
  <1>1. a[1] * b[2] \in Int /\ b[1] * a[2] \in Int
    BY RationalParts
  <1> QED
    BY <1>1, AtMostCross DEF Cross

LEMMA AtMostTransitive ==
  ASSUME NEW a \in RationalNumbers, NEW b \in RationalNumbers, NEW c \in RationalNumbers,
         AtMost(a, b), AtMost(b, c)
  PROVE  AtMost(a, c)
  <1>1. /\ a[1] \in Int /\ a[2] \in Int /\ a[2] > 0 /\ b[1] \in Int /\ b[2] \in Int
        /\ b[2] > 0 /\ c[1] \in Int /\ c[2] \in Int /\ c[2] > 0
    BY RationalParts
  <1>2. a[1] * b[2] <= b[1] * a[2] /\ b[1] * c[2] <= c[1] * b[2]
    BY AtMostCross DEF Cross
  <1>3. (a[1] * b[2]) * c[2] <= (b[1] * a[2]) * c[2]
    BY <1>1, <1>2, ScaledUp
  <1>4. (b[1] * c[2]) * a[2] <= (c[1] * b[2]) * a[2]
    BY <1>1, <1>2, ScaledUp
  <1>5. (b[1] * a[2]) * c[2] = (b[1] * c[2]) * a[2]
    BY <1>1
  <1>6. (a[1] * c[2]) * b[2] <= (c[1] * a[2]) * b[2]
    BY <1>1, <1>3, <1>4, <1>5
  <1>7. a[1] * c[2] <= c[1] * a[2]
    BY <1>1, <1>6, ScaledUp
  <1> QED
    BY <1>7, AtMostCross DEF Cross
---------------------------------------------------------------------------------
(* Rationals: the operations *)

Divides(g, n) == \E k \in Int : n = k * g
CommonDivisors(p) == {g \in Nat \ {0} : Divides(g, p[1]) /\ Divides(g, p[2])}

LEMMA SameDivisors ==
  ASSUME NEW a \in Nat, NEW b \in Nat \ {0}
  PROVE  CommonDivisors(<<a, b>>) = CommonDivisors(<<b, a % b>>)
  <1>1. a \div b \in Int /\ a % b \in Int /\ a = (a \div b) * b + (a % b)
    BY Divided
  <1> DEFINE q == a \div b
             r == a % b
  <1> HIDE DEF q, r
  <1>2. ASSUME NEW g \in Nat \ {0}, NEW k \in Int, NEW l \in Int, a = k * g, b = l * g
        PROVE  Divides(g, r)
    <2>1. r = (k - q * l) * g
      <3>1. q * (l * g) = (q * l) * g
        BY <1>1 DEF q
      <3> QED
        BY <1>1, <1>2, <3>1 DEF q, r
    <2>2. k - q * l \in Int
      BY <1>1 DEF q
    <2> QED
      BY <2>1, <2>2 DEF Divides
  <1>3. ASSUME NEW g \in Nat \ {0}, NEW k \in Int, NEW l \in Int, r = k * g, b = l * g
        PROVE  Divides(g, a)
    <2>1. a = (q * l + k) * g
      <3>1. q * (l * g) = (q * l) * g
        BY <1>1 DEF q
      <3> QED
        BY <1>1, <1>3, <3>1 DEF q, r
    <2>2. q * l + k \in Int
      BY <1>1 DEF q
    <2> QED
      BY <2>1, <2>2 DEF Divides
  <1>4. \A g \in Nat \ {0} : Divides(g, a) /\ Divides(g, b) <=> Divides(g, b) /\ Divides(g, r)
    BY <1>2, <1>3 DEF Divides
  <1> QED
    BY <1>4 DEF CommonDivisors, r

Euclid(f, a, b) == IF b = 0 THEN a ELSE f[<<b, a % b>>]

LEMMA GcdUnfolds ==
  ASSUME NEW a \in Nat, NEW b \in Nat
  PROVE  gcd[<<a, b>>] = IF b = 0 THEN a ELSE gcd[<<b, a % b>>]
  <1> DEFINE D == Nat \X Nat
             Greatest(S) == CHOOSE g \in S : \A h \in S : h <= g
             V(p) == IF p[2] = 0 THEN p[1] ELSE Greatest(CommonDivisors(p))
             W == [p \in D |-> V(p)]
             E(f) == f = [p \in D |-> Euclid(f, p[1], p[2])]
  <1>1. E(W)
    <2>1. ASSUME NEW i \in Nat, NEW j \in Nat
          PROVE  V(<<i, j>>) = Euclid(W, i, j)
      <3>1. CASE j = 0
        BY <3>1 DEF Euclid
      <3>2. CASE j # 0
        <4>1. i % j \in Nat /\ <<j, i % j>> \in D
          BY <3>2
        <4>2. Euclid(W, i, j) = V(<<j, i % j>>)
          <5> HIDE DEF V
          <5> QED
            BY <3>2, <4>1, Zenon DEF Euclid
        <4>3. CommonDivisors(<<i, j>>) = CommonDivisors(<<j, i % j>>)
          BY <3>2, SameDivisors
        <4>4. V(<<i, j>>) = Greatest(CommonDivisors(<<i, j>>))
          BY <3>2
        <4>5. CASE i % j # 0
          <5>1. V(<<j, i % j>>) = Greatest(CommonDivisors(<<j, i % j>>))
            BY <4>5
          <5> HIDE DEF V, W, Greatest
          <5> QED
            BY <4>2, <4>3, <4>4, <5>1, Zenon
        <4>6. CASE i % j = 0
          <5>1. V(<<j, i % j>>) = j
            BY <4>6
          <5>2. j \in CommonDivisors(<<i, j>>)
            <6>1. i = (i \div j) * j /\ i \div j \in Int /\ j = 1 * j
              BY <3>2, <4>6, Divided
            <6> QED
              BY <3>2, <6>1 DEF CommonDivisors, Divides
          <5>3. \A h \in CommonDivisors(<<i, j>>) : h <= j
            <6> SUFFICES ASSUME NEW h \in Nat \ {0}, NEW k \in Int, j = k * h
                         PROVE  h <= j
              BY DEF CommonDivisors, Divides
            <6>1. k > 0
              <7>1. k <= 0 => k * h <= 0
                OBVIOUS
              <7> QED
                BY <3>2, <7>1
            <6>2. (k - 1) * h >= 0 /\ (k - 1) * h = k * h - h
              BY <6>1
            <6> QED
              BY <6>2
          <5>4. \A g \in CommonDivisors(<<i, j>>) :
                  (\A h \in CommonDivisors(<<i, j>>) : h <= g) => g = j
            <6>1. \A g \in CommonDivisors(<<i, j>>) : g \in Nat
              BY DEF CommonDivisors
            <6> QED
              BY <5>2, <5>3, <6>1
          <5>5. Greatest(CommonDivisors(<<i, j>>)) = j
            <6> DEFINE C == CommonDivisors(<<i, j>>)
            <6> HIDE DEF C
            <6>1. Greatest(C) = j
              BY <5>2, <5>3, <5>4, Zenon DEF C
            <6> QED
              BY <6>1 DEF C
          <5> HIDE DEF V, W, Greatest
          <5> QED
            BY <4>2, <4>4, <5>1, <5>5, Zenon
        <4> QED
          BY <4>5, <4>6
      <3> QED
        BY <3>1, <3>2
    <2>2. \A p \in D : p = <<p[1], p[2]>> /\ p[1] \in Nat /\ p[2] \in Nat
      OBVIOUS
    <2> HIDE DEF V, W
    <2>3. \A p \in D : V(p) = Euclid(W, p[1], p[2])
      BY <2>1, <2>2, Zenon
    <2> QED
      BY <2>3, Zenon DEF W
  <1>2. gcd = CHOOSE f : E(f)
    BY Zenon DEF gcd, Euclid
  <1>3. E(gcd)
    <2> HIDE DEF E
    <2> QED
      BY <1>1, <1>2, Zenon
  <1>4. <<a, b>> \in D /\ <<a, b>>[1] = a /\ <<a, b>>[2] = b
    OBVIOUS
  <1>5. gcd[<<a, b>>] = Euclid(gcd, <<a, b>>[1], <<a, b>>[2])
    BY <1>3, <1>4, Zenon
  <1> QED
    BY <1>4, <1>5, Zenon DEF Euclid

(* gcd divides both, and is not 0 unless they are. *)
LEMMA GcdDivides ==
  ASSUME NEW a \in Nat, NEW b \in Nat
  PROVE  /\ gcd[<<a, b>>] \in Nat
         /\ a > 0 \/ b > 0 => gcd[<<a, b>>] > 0
         /\ Divides(gcd[<<a, b>>], a) /\ Divides(gcd[<<a, b>>], b)
  <1> DEFINE Good(i, j) == /\ gcd[<<i, j>>] \in Nat
                           /\ i > 0 \/ j > 0 => gcd[<<i, j>>] > 0
                           /\ Divides(gcd[<<i, j>>], i) /\ Divides(gcd[<<i, j>>], j)
             P == {j \in Nat : \A i \in Nat : Good(i, j)}
  <1>1. ASSUME NEW j \in Nat, \A m \in 0 .. j - 1 : m \in P
        PROVE  j \in P
    <2> SUFFICES ASSUME NEW i \in Nat PROVE Good(i, j)
      OBVIOUS
    <2> DEFINE g == gcd[<<i, j>>]
    <2>1. CASE j = 0
      <3>1. g = i
        BY <2>1, GcdUnfolds
      <3>2. Divides(i, i) /\ Divides(i, j)
        <4>1. i = 1 * i /\ j = 0 * i
          BY <2>1
        <4> QED
          BY <4>1 DEF Divides
      <3> QED
        BY <2>1, <3>1, <3>2
    <2>2. CASE j # 0
      <3>1. i % j \in 0 .. j - 1 /\ i \div j \in Int /\ i = (i \div j) * j + (i % j)
        BY <2>2, Divided
      <3>2. g = gcd[<<j, i % j>>]
        BY <2>2, GcdUnfolds
      <3>3. Good(j, i % j)
        BY <1>1, <3>1
      <3> HIDE DEF g
      <3>4. g \in Nat /\ g > 0 /\ Divides(g, j) /\ Divides(g, i % j)
        BY <2>2, <3>2, <3>3
      <3>5. Divides(g, i)
        <4>1. g \in CommonDivisors(<<j, i % j>>)
          BY <3>4 DEF CommonDivisors
        <4>2. g \in CommonDivisors(<<i, j>>)
          BY <2>2, <4>1, SameDivisors
        <4> QED
          BY <4>2 DEF CommonDivisors
      <3> QED
        BY <3>4, <3>5 DEF g
    <2> QED
      BY <2>1, <2>2
  <1>2. Nat \subseteq P
    <2> HIDE DEF P
    <2> QED
      BY <1>1, StrongInduction, Zenon
  <1> QED
    BY <1>2
LEMMA ExactQuotient ==
  ASSUME NEW n \in Int, NEW g \in Nat \ {0}, Divides(g, Magnitude(n))
  PROVE  /\ n \div g \in Int /\ n = (n \div g) * g
         /\ n > 0 => n \div g > 0
         /\ n < 0 => n \div g < 0
  <1>1. PICK k \in Int : Magnitude(n) = k * g
    BY DEF Divides
  <1>2. \E l \in Int : n = l * g
    <2>1. CASE n < 0
      <3>1. n = (-k) * g
        BY <1>1, <2>1 DEF Magnitude
      <3> QED
        BY <3>1
    <2>2. CASE n >= 0
      BY <1>1, <2>2 DEF Magnitude
    <2> QED
      BY <2>1, <2>2
  <1>3. PICK l \in Int : n = l * g
    BY <1>2
  <1>4. n \div g = l
    <2>1. n \div g \in Int /\ n % g \in 0 .. g - 1 /\ n = (n \div g) * g + (n % g)
      BY Divided
    <2> DEFINE q == n \div g
               r == n % g
    <2> HIDE DEF q, r
    <2>2. (l - q) * g = r
      BY <1>3, <2>1 DEF q, r
    <2>3. l - q < 1
      <3>1. l - q >= 1 => (l - q - 1) * g >= 0 /\ (l - q - 1) * g = (l - q) * g - g
        BY <2>1 DEF q
      <3> QED
        BY <2>1, <2>2, <3>1 DEF q, r
    <2>4. l - q > -1
      <3>1. l - q <= -1 => (q - l - 1) * g >= 0 /\ (q - l - 1) * g = -((l - q) * g) - g
        BY <2>1 DEF q
      <3> QED
        BY <2>1, <2>2, <3>1 DEF q, r
    <2>5. l = q
      BY <2>1, <2>3, <2>4 DEF q
    <2> QED
      BY <2>5 DEF q
  <1>5. n > 0 => l > 0
    <2>1. l <= 0 => l * g <= 0
      OBVIOUS
    <2> QED
      BY <1>3, <2>1
  <1>6. n < 0 => l < 0
    <2>1. l >= 0 => l * g >= 0
      OBVIOUS
    <2> QED
      BY <1>3, <2>1
  <1> QED
    BY <1>3, <1>4, <1>5, <1>6

(* What two numbers are divided by, in each of the operations. *)
LEMMA GcdQuotients ==
  ASSUME NEW m \in Int, NEW n \in Int, n # 0
  PROVE  LET g == gcd[<<Magnitude(m), Magnitude(n)>>]
         IN  /\ g \in Nat \ {0}
             /\ m \div g \in Int /\ m = (m \div g) * g
             /\ n \div g \in Int /\ n = (n \div g) * g
             /\ n > 0 => n \div g > 0
             /\ n < 0 => n \div g < 0
  <1> DEFINE g == gcd[<<Magnitude(m), Magnitude(n)>>]
  <1>1. Magnitude(m) \in Nat /\ Magnitude(n) \in Nat /\ Magnitude(n) > 0
    BY DEF Magnitude
  <1>2. g \in Nat \ {0} /\ Divides(g, Magnitude(m)) /\ Divides(g, Magnitude(n))
    BY <1>1, GcdDivides
  <1> HIDE DEF g
  <1>3. /\ m \div g \in Int /\ m = (m \div g) * g
        /\ n \div g \in Int /\ n = (n \div g) * g
        /\ n > 0 => n \div g > 0
        /\ n < 0 => n \div g < 0
    BY <1>2, ExactQuotient
  <1> QED
    BY <1>2, <1>3 DEF g

LEMMA MagnitudeOfNat ==
  ASSUME NEW n \in Nat
  PROVE  Magnitude(n) = n
  BY DEF Magnitude

LEMMA RatioIs ==
  ASSUME NEW n \in Int, NEW d \in Int, d # 0
  PROVE  /\ Ratio(n, d) \in RationalNumbers
         /\ Ratio(n, d)[1] * d = n * Ratio(n, d)[2]
  <1> DEFINE g == gcd[<<Magnitude(n), Magnitude(d)>>]
             i == n \div g
             j == d \div g
  <1>1. Ratio(n, d) = IF d < 0 THEN <<-i, -j>> ELSE <<i, j>>
    BY Zenon DEF Ratio
  <1>2. /\ g \in Nat \ {0} /\ i \in Int /\ n = i * g /\ j \in Int /\ d = j * g
        /\ (d > 0 => j > 0) /\ (d < 0 => j < 0)
    BY GcdQuotients
  <1> HIDE DEF g, i, j
  <1>3. i * d = n * j
    BY <1>2
  <1>4. CASE d < 0
    <2>1. Ratio(n, d) = <<-i, -j>>
      BY <1>1, <1>4
    <2>2. -i \in Int /\ -j \in Nat \ {0} /\ (-i) * d = n * (-j)
      BY <1>2, <1>3, <1>4
    <2> QED
      BY <2>1, <2>2 DEF RationalNumbers
  <1>5. CASE d > 0
    <2>1. Ratio(n, d) = <<i, j>>
      BY <1>1, <1>5
    <2>2. i \in Int /\ j \in Nat \ {0}
      BY <1>2, <1>5
    <2> QED
      BY <1>3, <2>1, <2>2 DEF RationalNumbers
  <1> QED
    BY <1>4, <1>5

LEMMA PlusIs ==
  ASSUME NEW a \in RationalNumbers, NEW b \in RationalNumbers
  PROVE  /\ Plus(a, b) \in RationalNumbers
         /\ Plus(a, b)[1] * (a[2] * b[2]) = (a[1] * b[2] + b[1] * a[2]) * Plus(a, b)[2]
  <1> DEFINE g == gcd[<<a[2], b[2]>>]
             k == a[2] \div g
             l == b[2] \div g
             n == a[1] * l + b[1] * k
             d == a[2] * l
             s == Plus(a, b)
  <1>1. /\ a[1] \in Int /\ a[2] \in Nat /\ a[2] > 0
        /\ b[1] \in Int /\ b[2] \in Nat /\ b[2] > 0
    BY RationalParts
  <1>2. /\ g \in Nat \ {0} /\ k \in Int /\ a[2] = k * g /\ l \in Int /\ b[2] = l * g
        /\ k > 0 /\ l > 0
    <2>1. Magnitude(a[2]) = a[2] /\ Magnitude(b[2]) = b[2]
      BY <1>1, MagnitudeOfNat
    <2>2. /\ g \in Nat \ {0} /\ k \in Int /\ a[2] = k * g /\ l \in Int /\ b[2] = l * g
          /\ l > 0
      BY <1>1, <2>1, GcdQuotients
    <2>3. k > 0
      <3> HIDE DEF g, k
      <3>1. k <= 0 => k * g <= 0
        BY <2>2
      <3> QED
        BY <1>1, <2>2, <3>1
    <2> QED
      BY <2>2, <2>3
  <1>3. s = Ratio(n, d)
    BY Zenon DEF Plus
  <1> HIDE DEF g, k, l
  <1>4. n \in Int /\ d \in Int /\ d > 0
    BY <1>1, <1>2
  <1> HIDE DEF n, d
  <1>5. s \in RationalNumbers /\ s[1] * d = n * s[2]
    BY <1>3, <1>4, RatioIs
  <1>6. s[1] \in Int /\ s[2] \in Int
    BY <1>5, RationalParts
  <1> HIDE DEF s
  <1>7. a[2] * b[2] = d * g
    BY <1>1, <1>2 DEF d
  <1>8. a[1] * b[2] + b[1] * a[2] = n * g
    BY <1>1, <1>2 DEF n
  <1>9. (s[1] * d) * g = (n * s[2]) * g
    BY <1>5
  <1>10. s[1] * (d * g) = (n * g) * s[2]
    BY <1>2, <1>4, <1>6, <1>9
  <1>11. s[1] * (a[2] * b[2]) = (a[1] * b[2] + b[1] * a[2]) * s[2]
    BY <1>7, <1>8, <1>10
  <1> QED
    BY <1>5, <1>11 DEF s

LEMMA NegIs ==
  ASSUME NEW a \in RationalNumbers
  PROVE  Neg(a) \in RationalNumbers /\ Neg(a)[1] = -a[1] /\ Neg(a)[2] = a[2]
  BY RationalParts DEF RationalNumbers, Neg

LEMMA MinusIs ==
  ASSUME NEW a \in RationalNumbers, NEW b \in RationalNumbers
  PROVE  /\ Minus(a, b) \in RationalNumbers
         /\ Minus(a, b)[1] * (a[2] * b[2]) = (a[1] * b[2] - b[1] * a[2]) * Minus(a, b)[2]
  <1>1. Neg(b) \in RationalNumbers /\ Neg(b)[1] = -b[1] /\ Neg(b)[2] = b[2]
    BY NegIs
  <1>2. /\ Minus(a, b) \in RationalNumbers
        /\ Minus(a, b)[1] * (a[2] * b[2]) = (a[1] * b[2] + (-b[1]) * a[2]) * Minus(a, b)[2]
    <2>1. /\ Plus(a, Neg(b)) \in RationalNumbers
          /\ Plus(a, Neg(b))[1] * (a[2] * Neg(b)[2])
               = (a[1] * Neg(b)[2] + Neg(b)[1] * a[2]) * Plus(a, Neg(b))[2]
      BY <1>1, PlusIs
    <2> QED
      BY <1>1, <2>1 DEF Minus
  <1>3. a[1] * b[2] + (-b[1]) * a[2] = a[1] * b[2] - b[1] * a[2]
    BY RationalParts
  <1> QED
    BY <1>2, <1>3

LEMMA TimesIs ==
  ASSUME NEW a \in RationalNumbers, NEW b \in RationalNumbers
  PROVE  /\ Times(a, b) \in RationalNumbers
         /\ Times(a, b)[1] * (a[2] * b[2]) = (a[1] * b[1]) * Times(a, b)[2]
  <1> DEFINE g == gcd[<<Magnitude(a[1]), b[2]>>]
             h == gcd[<<Magnitude(b[1]), a[2]>>]
             i == a[1] \div g
             j == b[2] \div g
             k == b[1] \div h
             l == a[2] \div h
  <1>1. /\ a[1] \in Int /\ a[2] \in Nat /\ a[2] > 0
        /\ b[1] \in Int /\ b[2] \in Nat /\ b[2] > 0
    BY RationalParts
  <1>2. Times(a, b) = <<i * k, l * j>>
    BY Zenon DEF Times
  <1>3. Magnitude(a[2]) = a[2] /\ Magnitude(b[2]) = b[2]
    BY <1>1, MagnitudeOfNat
  <1>4. g \in Nat \ {0} /\ i \in Int /\ a[1] = i * g /\ j \in Int /\ b[2] = j * g /\ j > 0
    BY <1>1, <1>3, GcdQuotients
  <1>5. h \in Nat \ {0} /\ k \in Int /\ b[1] = k * h /\ l \in Int /\ a[2] = l * h /\ l > 0
    BY <1>1, <1>3, GcdQuotients
  <1> HIDE DEF g, h, i, j, k, l
  <1>6. i * k \in Int /\ l * j \in Nat \ {0}
    <2>1. l * j > 0
      BY <1>4, <1>5
    <2> QED
      BY <1>4, <1>5, <2>1
  <1>7. (i * k) * ((l * h) * (j * g)) = ((i * g) * (k * h)) * (l * j)
    BY <1>4, <1>5
  <1>8. Times(a, b)[1] = i * k /\ Times(a, b)[2] = l * j
    BY <1>2
  <1>9. Times(a, b) \in RationalNumbers
    BY <1>2, <1>6 DEF RationalNumbers
  <1> QED
    BY <1>4, <1>5, <1>7, <1>8, <1>9

LEMMA OverIs ==
  ASSUME NEW a \in RationalNumbers, NEW b \in RationalNumbers, b[1] # 0
  PROVE  Over(a, b) \in RationalNumbers
  <1>1. Ratio(b[2], b[1]) \in RationalNumbers
    BY RatioIs, RationalParts
  <1> QED
    BY <1>1, TimesIs DEF Over

LEMMA WholeIs ==
  ASSUME NEW n \in Int
  PROVE  Whole(n) \in RationalNumbers /\ Whole(n)[1] = n /\ Whole(n)[2] = 1
  BY DEF Whole, RationalNumbers

LEMMA BetweenIs ==
  ASSUME NEW low \in RationalNumbers, NEW a \in RationalNumbers, NEW high \in RationalNumbers,
         AtMost(low, high)
  PROVE  LET b == Between(low, a, high)
         IN  b \in RationalNumbers /\ AtMost(low, b) /\ AtMost(b, high)
  <1> DEFINE s == Smaller(a, high)
             b == Larger(low, s)
  <1>1. s \in RationalNumbers /\ AtMost(s, high)
    BY AtMostTotal DEF Smaller, Less
  <1> HIDE DEF s
  <1>2. b \in RationalNumbers /\ AtMost(low, b) /\ AtMost(b, high)
    BY <1>1, AtMostTotal DEF Larger, Less
  <1>3. Between(low, a, high) = b
    BY DEF Between, s
  <1> QED
    BY <1>2, <1>3
---------------------------------------------------------------------------------
(* The values are numbers *)

Sums == [0 .. 5 -> Int]
Coefficients == [0 .. 1 -> RationalNumbers]

(***************************************************************************)
(* A loop adds up integers to an integer.  What its sums are is a function *)
(* of the numbers up to i: one for i - 1 extends to i.                     *)
(***************************************************************************)
LEMMA PartialSums ==
  ASSUME NEW n \in Nat, NEW g, \A i \in 1 .. n : g[i] \in Int
  PROVE  \E f : /\ \A i \in 0 .. n : f[i] \in Int
                /\ f[0] = 0 /\ \A i \in 1 .. n : f[i] = f[i - 1] + g[i]
                /\ SumTo(g, n) = f[n]
  <1> DEFINE V(f, i) == IF i = 0 THEN 0 ELSE f[i - 1] + g[i]
             E(f, k) == f = [i \in 0 .. k |-> V(f, i)]
             Some(k) == \E f \in [0 .. k -> Int] : E(f, k)
             P == {k \in Nat : k <= n => Some(k)}
  <1>1. ASSUME NEW k \in Nat, \A m \in 0 .. k - 1 : m \in P
        PROVE  k \in P
    <2> SUFFICES ASSUME k <= n PROVE Some(k)
      <3> HIDE DEF Some
      <3> QED
        OBVIOUS
    <2>1. CASE k = 0
      <3> DEFINE f == [i \in 0 .. k |-> 0]
      <3>1. f \in [0 .. k -> Int]
        OBVIOUS
      <3>2. \A i \in 0 .. k : f[i] = V(f, i)
        BY <2>1
      <3>3. E(f, k)
        <4> HIDE DEF V
        <4> QED
          BY <3>2
      <3> HIDE DEF f, E
      <3> QED
        BY <3>1, <3>3
    <2>2. CASE k > 0
      <3>1. Some(k - 1)
        <4> HIDE DEF Some
        <4> QED
          BY <1>1, <2>2
      <3>2. PICK e \in [0 .. k - 1 -> Int] : E(e, k - 1)
        BY <3>1
      <3> DEFINE f == [i \in 0 .. k |-> IF i = k THEN e[k - 1] + g[k] ELSE e[i]]
      <3>3. f \in [0 .. k -> Int]
        <4>1. e[k - 1] \in Int /\ g[k] \in Int
          BY <2>2
        <4>2. e[k - 1] + g[k] \in Int
          BY <4>1
        <4>3. \A i \in 0 .. k : i # k => e[i] \in Int
          BY <3>2
        <4> QED
          BY <4>2, <4>3
      <3>4. \A i \in 0 .. k - 1 : e[i] = V(e, i)
        <4> HIDE DEF V
        <4> QED
          BY <3>2, Zenon
      <3>5. \A i \in 0 .. k : f[i] = V(f, i)
        <4> SUFFICES ASSUME NEW i \in 0 .. k PROVE f[i] = V(f, i)
          OBVIOUS
        <4>1. CASE i = k
          BY <2>2, <4>1
        <4>2. CASE i # k /\ i = 0
          BY <3>4, <4>2
        <4>3. CASE i # k /\ i # 0
          <5>1. i \in 0 .. k - 1 /\ i - 1 \in 0 .. k /\ i - 1 # k
            BY <4>3
          <5> QED
            BY <3>4, <4>3, <5>1
        <4> QED
          BY <4>1, <4>2, <4>3
      <3>6. E(f, k)
        <4> HIDE DEF V
        <4> QED
          BY <3>5
      <3> HIDE DEF f, E
      <3> QED
        BY <3>3, <3>6
    <2> HIDE DEF Some
    <2> QED
      BY <2>1, <2>2
  <1>2. Nat \subseteq P
    <2> HIDE DEF P
    <2> QED
      BY <1>1, StrongInduction, Zenon
  <1>3. \E f \in [0 .. n -> Int] : E(f, n)
    <2>1. Some(n)
      <3> HIDE DEF Some
      <3> QED
        BY <1>2
    <2> QED
      BY <2>1
  <1> DEFINE sum == CHOOSE f : E(f, n)
  <1>4. E(sum, n)
    <2> HIDE DEF E
    <2> QED
      BY <1>3, Zenon
  <1>5. SumTo(g, n) = sum[n]
    BY Zenon DEF SumTo
  <1> HIDE DEF sum
  <1> DEFINE Q == {k \in Nat : k <= n => sum[k] \in Int}
  <1>6. ASSUME NEW k \in Nat, \A m \in 0 .. k - 1 : m \in Q
        PROVE  k \in Q
    <2> SUFFICES ASSUME k <= n PROVE sum[k] \in Int
      OBVIOUS
    <2>1. sum[k] = V(sum, k)
      <3> HIDE DEF V
      <3>1. k \in 0 .. n
        OBVIOUS
      <3> QED
        BY <1>4, <3>1, Zenon
    <2>2. CASE k = 0
      BY <2>1, <2>2
    <2>3. CASE k > 0
      <3>1. k - 1 \in 0 .. k - 1 /\ k - 1 <= n /\ k \in 1 .. n
        BY <2>3
      <3>2. sum[k - 1] \in Int
        BY <1>6, <3>1
      <3> QED
        BY <2>1, <2>3, <3>1, <3>2
    <2> QED
      BY <2>2, <2>3
  <1>7. Nat \subseteq Q
    <2> HIDE DEF Q
    <2> QED
      BY <1>6, StrongInduction, Zenon
  <1>8. \A i \in 0 .. n : sum[i] \in Int
    <2>1. \A i \in 0 .. n : i \in Nat /\ i <= n
      OBVIOUS
    <2> QED
      BY <1>7, <2>1
  <1>9. \A i \in 0 .. n : sum[i] = V(sum, i)
    <2> HIDE DEF V
    <2> QED
      BY <1>4, Zenon
  <1>10. sum[0] = 0 /\ \A i \in 1 .. n : sum[i] = sum[i - 1] + g[i]
    BY <1>9
  <1> QED
    BY <1>5, <1>8, <1>10

LEMMA SumToIsInt ==
  ASSUME NEW n \in Nat, NEW g, \A i \in 1 .. n : g[i] \in Int
  PROVE  SumTo(g, n) \in Int
  BY PartialSums

(***************************************************************************)
(* The elimination never divides by 0: what is greater than epsilon is     *)
(* greater than 0, whatever the sums are.                                  *)
(***************************************************************************)
LEMMA SolveIs ==
  ASSUME NEW m \in Sums
  PROVE  Solve(m) \in Coefficients
  <1> DEFINE top == Max({m[0], m[2], m[5]})
             epsilon == Ratio(top, RelEpsilon)
             pivot == IF m[5] > m[2] THEN 1 ELSE 0
             ma == IF pivot = 1 THEN m[5] ELSE m[2]
             mc == IF pivot = 1 THEN m[2] ELSE m[5]
             mx == IF pivot = 1 THEN m[3] ELSE m[1]
             my == IF pivot = 1 THEN m[1] ELSE m[3]
             a == Whole(ma)
             b == Whole(m[4])
             c == Whole(mc)
             x == Whole(mx)
             y == Whole(my)
             b1 == Over(b, a)
             x1 == Over(x, a)
             c2 == Minus(c, Times(b1, b))
             y2 == Minus(y, Times(x1, b))
             y3 == Over(y2, c2)
             size == <<Magnitude(c2[1]), c2[2]>>
  <1>1. \A j \in 0 .. 5 : m[j] \in Int
    BY DEF Sums
  <1>2. /\ ma \in Int /\ mc \in Int /\ mx \in Int /\ my \in Int /\ m[4] \in Int
        /\ ma \in {m[0], m[2], m[5]} /\ pivot \in 0 .. 1
    BY <1>1
  <1>3. top \in Int /\ ma <= top
    <2> DEFINE S == {m[0], m[2], m[5]}
    <2>1. \E i \in S : \A j \in S : i >= j
      BY <1>1
    <2>2. top \in S /\ \A j \in S : top >= j
      <3> HIDE DEF S
      <3>1. Max(S) = CHOOSE i \in S : \A j \in S : i >= j
        BY Zenon DEF Max
      <3> QED
        BY <2>1, <3>1 DEF S
    <2> HIDE DEF top
    <2>3. top \in Int
      BY <1>1, <2>2
    <2> QED
      BY <1>2, <2>2, <2>3
  <1> HIDE DEF top, ma, mc, mx, my, pivot
  <1>4. RelEpsilon \in Int /\ RelEpsilon > 0
    BY ValuesAssumption
  <1>5. epsilon \in RationalNumbers /\ epsilon[1] * RelEpsilon = top * epsilon[2]
    BY <1>3, <1>4, RatioIs
  <1>6. epsilon[1] \in Int /\ epsilon[2] \in Int /\ epsilon[2] > 0
    BY <1>5, RationalParts
  <1>7. /\ a \in RationalNumbers /\ a[1] = ma /\ a[2] = 1
        /\ b \in RationalNumbers /\ c \in RationalNumbers /\ x \in RationalNumbers
        /\ y \in RationalNumbers
    BY <1>2, WholeIs
  <1>8. Zero \in RationalNumbers
    BY WholeIs DEF Zero
  <1> HIDE DEF epsilon, a, b, c, x, y
  <1>9. ASSUME ~AtMost(a, epsilon)
        PROVE  ma > 0 /\ epsilon[1] > 0
    <2>1. ma * epsilon[2] > epsilon[1]
      BY <1>2, <1>5, <1>6, <1>7, <1>9, AtMostCross DEF Cross
    <2>2. ma * epsilon[2] <= epsilon[1] * RelEpsilon
      BY <1>2, <1>3, <1>5, <1>6, ScaledUp
    <2>3. epsilon[1] > 0
      <3>1. epsilon[1] <= 0 => epsilon[1] * RelEpsilon <= epsilon[1]
        <4>1. epsilon[1] <= 0 => (-epsilon[1]) * (RelEpsilon - 1) >= 0
          BY <1>4, <1>6
        <4>2. (-epsilon[1]) * (RelEpsilon - 1) = epsilon[1] - epsilon[1] * RelEpsilon
          BY <1>4, <1>6
        <4> QED
          BY <1>4, <1>6, <4>1, <4>2
      <3> QED
        BY <1>2, <1>4, <1>6, <2>1, <2>2, <3>1
    <2>4. ma > 0
      <3>1. ma <= 0 => ma * epsilon[2] <= 0
        BY <1>2, <1>6
      <3> QED
        BY <1>2, <1>6, <2>1, <2>3, <3>1
    <2> QED
      BY <2>3, <2>4
  <1>10. ASSUME ~AtMost(a, epsilon)
         PROVE  /\ b1 \in RationalNumbers /\ x1 \in RationalNumbers
                /\ c2 \in RationalNumbers /\ y2 \in RationalNumbers
    <2>1. a[1] # 0
      BY <1>7, <1>9, <1>10
    <2>2. b1 \in RationalNumbers /\ x1 \in RationalNumbers
      BY <1>7, <2>1, OverIs
    <2> HIDE DEF b1, x1
    <2>3. Times(b1, b) \in RationalNumbers /\ Times(x1, b) \in RationalNumbers
      BY <1>7, <2>2, TimesIs
    <2> QED
      BY <1>7, <2>2, <2>3, MinusIs
  <1> HIDE DEF b1, x1, c2, y2
  <1>11. ASSUME ~AtMost(a, epsilon), ~AtMost(size, epsilon)
         PROVE  y3 \in RationalNumbers
    <2>1. c2 \in RationalNumbers /\ c2[1] \in Int /\ c2[2] \in Int /\ c2[2] > 0
      BY <1>10, <1>11, RationalParts
    <2>2. size \in RationalNumbers /\ size[1] = Magnitude(c2[1]) /\ size[2] = c2[2]
      BY <2>1 DEF RationalNumbers, Magnitude
    <2>3. c2[1] # 0
      <3> SUFFICES ASSUME c2[1] = 0 PROVE FALSE
        OBVIOUS
      <3>1. size[1] * epsilon[2] <= epsilon[1] * size[2]
        <4>1. size[1] = 0
          BY <2>2 DEF Magnitude
        <4>2. epsilon[1] * size[2] >= 0
          BY <1>6, <1>9, <1>11, <2>1, <2>2
        <4> HIDE DEF size
        <4> QED
          BY <1>6, <4>1, <4>2
      <3> HIDE DEF size
      <3> QED
        BY <1>5, <1>11, <2>2, <3>1, AtMostCross DEF Cross
    <2> QED
      BY <1>10, <1>11, <2>3, OverIs
  <1> HIDE DEF y3, size
  <1>12. \A p, i, j : p \in 0 .. 1 /\ i \in RationalNumbers /\ j \in RationalNumbers =>
           Pair(p, i, j) \in Coefficients
    BY DEF Pair, Coefficients
  <1>13. Solve(m) = CASE AtMost(a, epsilon) -> Pair(pivot, Zero, Zero)
                      [] Less(epsilon, a) /\ AtMost(size, epsilon) -> Pair(pivot, x1, Zero)
                      [] OTHER -> Pair(pivot, Minus(x1, Times(y3, b1)), y3)
    BY Zenon DEF Solve, top, ma, mc, mx, my, pivot, epsilon, a, b, c, x, y, b1, x1, c2, y2,
       y3, size
  <1>14. CASE AtMost(a, epsilon)
    <2>1. Solve(m) = Pair(pivot, Zero, Zero)
      BY <1>13, <1>14 DEF Less
    <2> QED
      BY <1>2, <1>8, <1>12, <2>1
  <1>15. CASE ~AtMost(a, epsilon) /\ AtMost(size, epsilon)
    <2>1. Solve(m) = Pair(pivot, x1, Zero)
      BY <1>13, <1>15 DEF Less
    <2> QED
      BY <1>2, <1>8, <1>10, <1>12, <1>15, <2>1
  <1>16. CASE ~AtMost(a, epsilon) /\ ~AtMost(size, epsilon)
    <2>1. Solve(m) = Pair(pivot, Minus(x1, Times(y3, b1)), y3)
      BY <1>13, <1>16 DEF Less
    <2>2. Minus(x1, Times(y3, b1)) \in RationalNumbers
      BY <1>10, <1>11, <1>16, TimesIs, MinusIs
    <2> QED
      BY <1>2, <1>11, <1>12, <1>16, <2>1, <2>2
  <1> QED
    BY <1>14, <1>15, <1>16
---------------------------------------------------------------------------------
(* Rationals: values.  a is n / e; with one denominator for all that is added or *)
(* compared, what remains is arithmetic of integers.                             *)

Value(a, n, e) == a \in RationalNumbers /\ a[1] * e = n * a[2]

LEMMA Cancelled ==
  ASSUME NEW i \in Int, NEW j \in Int, NEW k \in Int, k > 0, i * k = j * k
  PROVE  i = j
  <1>1. i <= j /\ j <= i
    BY ScaledUp
  <1> QED
    BY <1>1

LEMMA OwnValue ==
  ASSUME NEW a \in RationalNumbers, NEW k \in Int, k > 0
  PROVE  Value(a, k * a[1], k * a[2])
  <1>1. a[1] * (k * a[2]) = (k * a[1]) * a[2]
    BY RationalParts
  <1> QED
    BY <1>1 DEF Value

LEMMA WholeValue ==
  ASSUME NEW n \in Int, NEW e \in Int
  PROVE  Value(Whole(n), n * e, e)
  <1>1. n * e = (n * e) * 1
    OBVIOUS
  <1> QED
    BY <1>1, WholeIs DEF Value

LEMMA PlusValue ==
  ASSUME NEW a, NEW b, NEW n \in Int, NEW m \in Int, NEW e \in Int, e > 0,
         Value(a, n, e), Value(b, m, e)
  PROVE  Value(Plus(a, b), n + m, e)
  <1> DEFINE s == Plus(a, b)
  <1>1. a \in RationalNumbers /\ b \in RationalNumbers
    BY DEF Value
  <1>2. s \in RationalNumbers /\ s[1] * (a[2] * b[2]) = (a[1] * b[2] + b[1] * a[2]) * s[2]
    BY <1>1, PlusIs
  <1>3. /\ a[1] \in Int /\ a[2] \in Int /\ a[2] > 0 /\ b[1] \in Int /\ b[2] \in Int
        /\ b[2] > 0 /\ s[1] \in Int /\ s[2] \in Int
    BY <1>1, <1>2, RationalParts
  <1> HIDE DEF s
  <1>4. a[1] * e = n * a[2] /\ b[1] * e = m * b[2]
    BY DEF Value
  <1>5. (a[1] * b[2] + b[1] * a[2]) * e = (n + m) * (a[2] * b[2])
    <2>1. (a[1] * b[2] + b[1] * a[2]) * e = (a[1] * e) * b[2] + (b[1] * e) * a[2]
      BY <1>3
    <2>2. (n * a[2]) * b[2] + (m * b[2]) * a[2] = (n + m) * (a[2] * b[2])
      BY <1>3
    <2> QED
      BY <1>4, <2>1, <2>2
  <1>6. a[2] * b[2] \in Int /\ a[2] * b[2] > 0
    BY <1>3
  <1> DEFINE k == a[2] * b[2]
             i == a[1] * b[2] + b[1] * a[2]
  <1>7. i \in Int
    BY <1>3
  <1>8. s[1] * k = i * s[2] /\ i * e = (n + m) * k /\ k \in Int /\ k > 0
    BY <1>2, <1>5, <1>6 DEF s
  <1> HIDE DEF k, i
  <1>9. (s[1] * e) * k = ((n + m) * s[2]) * k
    <2>1. (s[1] * e) * k = (s[1] * k) * e
      BY <1>3, <1>8
    <2>2. (i * s[2]) * e = (i * e) * s[2]
      BY <1>3, <1>7
    <2>3. ((n + m) * k) * s[2] = ((n + m) * s[2]) * k
      BY <1>3, <1>8
    <2> QED
      BY <1>8, <2>1, <2>2, <2>3
  <1>10. s[1] * e \in Int /\ (n + m) * s[2] \in Int
    BY <1>3
  <1>11. s[1] * e = (n + m) * s[2]
    BY <1>8, <1>9, <1>10, Cancelled
  <1> QED
    BY <1>2, <1>11 DEF Value, s

LEMMA MinusValue ==
  ASSUME NEW a, NEW b, NEW n \in Int, NEW m \in Int, NEW e \in Int, e > 0,
         Value(a, n, e), Value(b, m, e)
  PROVE  Value(Minus(a, b), n - m, e)
  <1>1. Value(Neg(b), -m, e)
    <2>1. b \in RationalNumbers /\ b[1] * e = m * b[2]
      BY DEF Value
    <2>2. (-b[1]) * e = (-m) * b[2]
      BY <2>1, RationalParts
    <2> QED
      BY <2>1, <2>2, NegIs DEF Value
  <1>2. Value(Plus(a, Neg(b)), n + (-m), e)
    BY <1>1, PlusValue
  <1>3. n + (-m) = n - m
    OBVIOUS
  <1> QED
    BY <1>2, <1>3 DEF Minus

LEMMA AtMostValue ==
  ASSUME NEW a, NEW b, NEW n \in Int, NEW m \in Int, NEW e \in Int, e > 0,
         Value(a, n, e), Value(b, m, e)
  PROVE  AtMost(a, b) <=> n <= m
  <1>1. /\ a \in RationalNumbers /\ b \in RationalNumbers
        /\ a[1] * e = n * a[2] /\ b[1] * e = m * b[2]
    BY DEF Value
  <1>2. /\ a[1] \in Int /\ a[2] \in Int /\ a[2] > 0
        /\ b[1] \in Int /\ b[2] \in Int /\ b[2] > 0
    BY <1>1, RationalParts
  <1>3. AtMost(a, b) <=> a[1] * b[2] <= b[1] * a[2]
    BY <1>1, AtMostCross DEF Cross
  <1>4. a[1] * b[2] <= b[1] * a[2] <=> (a[1] * b[2]) * e <= (b[1] * a[2]) * e
    BY <1>2, ScaledUp
  <1>5. (a[1] * b[2]) * e = n * (a[2] * b[2]) /\ (b[1] * a[2]) * e = m * (a[2] * b[2])
    <2>1. (a[1] * b[2]) * e = (a[1] * e) * b[2] /\ (b[1] * a[2]) * e = (b[1] * e) * a[2]
      BY <1>2
    <2>2. (n * a[2]) * b[2] = n * (a[2] * b[2]) /\ (m * b[2]) * a[2] = m * (a[2] * b[2])
      BY <1>2
    <2> QED
      BY <1>1, <2>1, <2>2
  <1>6. a[2] * b[2] \in Int /\ a[2] * b[2] > 0
    BY <1>2
  <1>7. n <= m <=> n * (a[2] * b[2]) <= m * (a[2] * b[2])
    BY <1>6, ScaledUp
  <1> QED
    BY <1>3, <1>4, <1>5, <1>7

(* Half, and half of a number, over twice the denominator. *)
LEMMA HalfValue ==
  ASSUME NEW a \in RationalNumbers
  PROVE  /\ Value(Half, a[2], 2 * a[2])
         /\ Value(Times(Half, a), a[1], 2 * a[2])
  <1> DEFINE t == Times(Half, a)
  <1>1. Half \in RationalNumbers /\ Half[1] * 2 = 1 * Half[2]
    BY RatioIs DEF Half
  <1>2. t \in RationalNumbers /\ t[1] * (Half[2] * a[2]) = (Half[1] * a[1]) * t[2]
    BY <1>1, TimesIs
  <1>3. /\ a[1] \in Int /\ a[2] \in Int /\ a[2] > 0 /\ t[1] \in Int /\ t[2] \in Int
        /\ Half[1] \in Int /\ Half[2] \in Int /\ Half[2] > 0
    BY <1>1, <1>2, RationalParts
  <1> HIDE DEF t
  <1>4. Half[1] * (2 * a[2]) = a[2] * Half[2]
    <2>1. Half[1] * (2 * a[2]) = (Half[1] * 2) * a[2]
      BY <1>3
    <2>2. (1 * Half[2]) * a[2] = a[2] * Half[2]
      BY <1>3
    <2> QED
      BY <1>1, <2>1, <2>2
  <1>5. (t[1] * (2 * a[2])) * Half[2] = (a[1] * t[2]) * Half[2]
    <2>1. (t[1] * (2 * a[2])) * Half[2] = 2 * (t[1] * (Half[2] * a[2]))
      BY <1>3
    <2>2. 2 * ((Half[1] * a[1]) * t[2]) = (Half[1] * 2) * (a[1] * t[2])
      BY <1>3
    <2>3. (1 * Half[2]) * (a[1] * t[2]) = (a[1] * t[2]) * Half[2]
      BY <1>3
    <2> QED
      BY <1>1, <1>2, <2>1, <2>2, <2>3 DEF t
  <1>6. t[1] * (2 * a[2]) \in Int /\ a[1] * t[2] \in Int
    BY <1>3
  <1>7. t[1] * (2 * a[2]) = a[1] * t[2]
    BY <1>3, <1>5, <1>6, Cancelled
  <1> QED
    BY <1>1, <1>2, <1>4, <1>7 DEF Value, t
---------------------------------------------------------------------------------
(* The coefficients that vadpcm_stabilize leaves *)

InTriangle(c) ==
    /\ AtMost(Neg(One), c[1])
    /\ AtMost(Plus(c[1], c[0]), One) /\ AtMost(Minus(c[1], c[0]), One)

LEMMA NegOne == Neg(One) = Whole(-1)
  BY DEF Neg, One, Whole

LEMMA BelowStable ==
  ASSUME NEW c \in Coefficients, BelowTriangle(c)
  PROVE  Stabilize(c) \in Coefficients /\ InTriangle(Stabilize(c))
  <1> DEFINE x == Between(Neg(One), c[0], One)
             s == Stabilize(c)
  <1>1. c[0] \in RationalNumbers
    BY DEF Coefficients
  <1>2. Neg(One) \in RationalNumbers /\ One \in RationalNumbers
    BY NegOne, WholeIs DEF One
  <1>3. AtMost(Neg(One), One) /\ AtMost(Neg(One), Neg(One))
    BY NegOne, WholeIs, AtMostCross DEF One, Cross
  <1>4. x \in RationalNumbers /\ AtMost(Neg(One), x) /\ AtMost(x, One)
    BY <1>1, <1>2, <1>3, BetweenIs
  <1>5. s = Pair(1, Neg(One), x)
    BY DEF Stabilize
  <1> HIDE DEF x, s
  <1>6. s \in Coefficients /\ s[1] = Neg(One) /\ s[0] = x
    BY <1>2, <1>4, <1>5 DEF Pair, Coefficients
  <1>7. x[1] \in Int /\ x[2] \in Int /\ x[2] > 0
    BY <1>4, RationalParts
  <1>8. Value(x, x[1], x[2])
    BY <1>4 DEF Value
  <1>9. Value(Neg(One), -x[2], x[2]) /\ Value(One, x[2], x[2])
    <2>1. Value(Whole(-1), (-1) * x[2], x[2]) /\ Value(Whole(1), 1 * x[2], x[2])
      <3>1. -1 \in Int /\ 1 \in Int
        OBVIOUS
      <3> QED
        BY <1>7, <3>1, WholeValue
    <2>2. (-1) * x[2] = -x[2] /\ 1 * x[2] = x[2]
      BY <1>7
    <2> QED
      BY <2>1, <2>2, NegOne DEF One
  <1>10. -x[2] \in Int
    BY <1>7
  <1>11. -x[2] <= x[1] /\ x[1] <= x[2]
    BY <1>4, <1>7, <1>8, <1>9, <1>10, AtMostValue
  <1>12. /\ Value(Plus(Neg(One), x), -x[2] + x[1], x[2])
         /\ Value(Minus(Neg(One), x), -x[2] - x[1], x[2])
    BY <1>7, <1>8, <1>9, <1>10, PlusValue, MinusValue
  <1>13. -x[2] + x[1] \in Int /\ -x[2] - x[1] \in Int
    BY <1>7
  <1>14. AtMost(Plus(Neg(One), x), One) /\ AtMost(Minus(Neg(One), x), One)
    <2>1. AtMost(Plus(Neg(One), x), One) <=> -x[2] + x[1] <= x[2]
      BY <1>7, <1>9, <1>12, <1>13, AtMostValue
    <2>2. AtMost(Minus(Neg(One), x), One) <=> -x[2] - x[1] <= x[2]
      BY <1>7, <1>9, <1>12, <1>13, AtMostValue
    <2> QED
      BY <1>7, <1>11, <2>1, <2>2
  <1>15. InTriangle(s)
    BY <1>3, <1>6, <1>14 DEF InTriangle
  <1> QED
    BY <1>6, <1>15 DEF s

(* The two sides are mirror images: one coefficient is 1/2 + d/2, the other *)
(* 1/2 - d/2 or its negative.                                               *)
LEMMA SidesValue ==
  ASSUME NEW d \in RationalNumbers, AtMost(Whole(-3), d), AtMost(d, One)
  PROVE  /\ Value(d, 2 * d[1], 2 * d[2]) /\ Value(One, 2 * d[2], 2 * d[2])
         /\ Value(Neg(One), -(2 * d[2]), 2 * d[2])
         /\ Value(Minus(Half, Times(Half, d)), d[2] - d[1], 2 * d[2])
         /\ Value(Plus(Half, Times(Half, d)), d[2] + d[1], 2 * d[2])
         /\ Value(Minus(Times(Half, d), Half), d[1] - d[2], 2 * d[2])
         /\ Value(Plus(Times(Half, d), Half), d[1] + d[2], 2 * d[2])
         /\ -3 * d[2] <= d[1] /\ d[1] <= d[2]
  <1>1. d[1] \in Int /\ d[2] \in Int /\ d[2] > 0 /\ 2 * d[2] \in Int /\ 2 * d[2] > 0
    BY RationalParts
  <1>2. Value(Half, d[2], 2 * d[2]) /\ Value(Times(Half, d), d[1], 2 * d[2])
    BY HalfValue
  <1>3. Value(d, 2 * d[1], 2 * d[2])
    BY OwnValue
  <1>4. Value(One, 2 * d[2], 2 * d[2]) /\ Value(Neg(One), -(2 * d[2]), 2 * d[2])
    <2>1. Value(Whole(-1), (-1) * (2 * d[2]), 2 * d[2]) /\ Value(Whole(1), 1 * (2 * d[2]), 2 * d[2])
      <3>1. -1 \in Int /\ 1 \in Int
        OBVIOUS
      <3> QED
        BY <1>1, <3>1, WholeValue
    <2>2. (-1) * (2 * d[2]) = -(2 * d[2]) /\ 1 * (2 * d[2]) = 2 * d[2]
      BY <1>1
    <2> QED
      BY <2>1, <2>2, NegOne DEF One
  <1>5. -3 * d[2] <= d[1] /\ d[1] <= d[2]
    <2>1. Whole(-3) \in RationalNumbers /\ Whole(-3)[1] = -3 /\ Whole(-3)[2] = 1
      BY WholeIs
    <2>2. One \in RationalNumbers /\ One[1] = 1 /\ One[2] = 1
      BY WholeIs DEF One
    <2>3. Cross(Whole(-3), d) /\ Cross(d, One)
      BY <2>1, <2>2, AtMostCross
    <2> QED
      BY <1>1, <2>1, <2>2, <2>3 DEF Cross
  <1> DEFINE e == 2 * d[2]
  <1>6. e \in Int /\ e > 0 /\ Value(Half, d[2], e) /\ Value(Times(Half, d), d[1], e)
    BY <1>1, <1>2
  <1> HIDE DEF e
  <1>7. /\ Value(Minus(Half, Times(Half, d)), d[2] - d[1], e)
        /\ Value(Plus(Half, Times(Half, d)), d[2] + d[1], e)
        /\ Value(Minus(Times(Half, d), Half), d[1] - d[2], e)
        /\ Value(Plus(Times(Half, d), Half), d[1] + d[2], e)
    BY <1>1, <1>6, PlusValue, MinusValue
  <1> QED
    BY <1>3, <1>4, <1>5, <1>7 DEF e

(* A point on one of these sides is in the triangle. *)
LEMMA OnSide ==
  ASSUME NEW c, NEW m \in Int, NEW n \in Int, NEW e \in Int, e > 0,
         Value(c[0], m, e), Value(c[1], n, e), Value(One, e, e), Value(Neg(One), -e, e),
         -e <= n, n + m <= e, n - m <= e
  PROVE  InTriangle(c)
  <1>1. Value(Plus(c[1], c[0]), n + m, e) /\ Value(Minus(c[1], c[0]), n - m, e)
    BY PlusValue, MinusValue
  <1>2. -e \in Int /\ n + m \in Int /\ n - m \in Int
    OBVIOUS
  <1>3. AtMost(Neg(One), c[1]) <=> -e <= n
    BY <1>2, AtMostValue
  <1>4. AtMost(Plus(c[1], c[0]), One) <=> n + m <= e
    BY <1>1, <1>2, AtMostValue
  <1>5. AtMost(Minus(c[1], c[0]), One) <=> n - m <= e
    BY <1>1, <1>2, AtMostValue
  <1> QED
    BY <1>3, <1>4, <1>5 DEF InTriangle

(* Of the sum and the difference, the sign of the second says which is greater. *)
LEMMA Mirrored ==
  ASSUME NEW a \in RationalNumbers, NEW b \in RationalNumbers
  PROVE  /\ AtMost(b, Zero) => AtMost(Plus(a, b), Minus(a, b))
         /\ ~AtMost(b, Zero) => AtMost(Minus(a, b), Plus(a, b))
  <1> DEFINE e == a[2] * b[2]
             m == a[1] * b[2]
             n == b[1] * a[2]
  <1>1. /\ a[1] \in Int /\ a[2] \in Int /\ a[2] > 0
        /\ b[1] \in Int /\ b[2] \in Int /\ b[2] > 0
    BY RationalParts
  <1>2. e \in Int /\ e > 0 /\ m \in Int /\ n \in Int
    BY <1>1
  <1>3. Value(a, m, e) /\ Value(b, n, e)
    <2>1. a[1] * (a[2] * b[2]) = (a[1] * b[2]) * a[2]
      BY <1>1
    <2>2. b[1] * (a[2] * b[2]) = (b[1] * a[2]) * b[2]
      BY <1>1
    <2> QED
      BY <2>1, <2>2 DEF Value
  <1>4. Value(Zero, 0, e)
    <2>1. Value(Whole(0), 0 * e, e)
      BY <1>2, WholeValue
    <2>2. 0 * e = 0
      BY <1>2
    <2> HIDE DEF e
    <2> QED
      BY <2>1, <2>2 DEF Zero
  <1> HIDE DEF e, m, n
  <1>5. AtMost(b, Zero) <=> n <= 0
    BY <1>2, <1>3, <1>4, AtMostValue
  <1>6. Value(Plus(a, b), m + n, e) /\ Value(Minus(a, b), m - n, e)
    BY <1>2, <1>3, PlusValue, MinusValue
  <1>7. m + n \in Int /\ m - n \in Int
    BY <1>2
  <1>8. AtMost(Plus(a, b), Minus(a, b)) <=> m + n <= m - n
    BY <1>2, <1>6, <1>7, AtMostValue
  <1>9. AtMost(Minus(a, b), Plus(a, b)) <=> m - n <= m + n
    BY <1>2, <1>6, <1>7, AtMostValue
  <1> QED
    BY <1>2, <1>5, <1>8, <1>9

(***************************************************************************)
(* vadpcm_stabilize leaves coefficients in the triangle of stable filters, *)
(* wherever they were.                                                     *)
(***************************************************************************)
LEMMA StabilizeIs ==
  ASSUME NEW c \in Coefficients
  PROVE  Stabilize(c) \in Coefficients /\ InTriangle(Stabilize(c))
  <1> DEFINE s == Stabilize(c)
  <1>1. c[0] \in RationalNumbers /\ c[1] \in RationalNumbers
    BY DEF Coefficients
  <1>2. /\ Whole(-3) \in RationalNumbers /\ One \in RationalNumbers
        /\ AtMost(Whole(-3), One)
    BY WholeIs, AtMostCross DEF One, Cross
  <1>3. CASE BelowTriangle(c)
    BY <1>3, BelowStable
  <1>4. CASE ~BelowTriangle(c) /\ RightOf(c)
    <2> DEFINE d == Between(Whole(-3), Minus(c[1], c[0]), One)
               u == Minus(Half, Times(Half, d))
               v == Plus(Half, Times(Half, d))
    <2>1. d \in RationalNumbers /\ AtMost(Whole(-3), d) /\ AtMost(d, One)
      BY <1>1, <1>2, MinusIs, BetweenIs
    <2>2. s = Pair(0, u, v)
      BY <1>4 DEF Stabilize, RightOf, LeftOf, Less
    <2> HIDE DEF d, s
    <2>3. /\ Value(One, 2 * d[2], 2 * d[2]) /\ Value(Neg(One), -(2 * d[2]), 2 * d[2])
          /\ Value(u, d[2] - d[1], 2 * d[2]) /\ Value(v, d[2] + d[1], 2 * d[2])
          /\ -3 * d[2] <= d[1] /\ d[1] <= d[2]
      BY <2>1, SidesValue
    <2>4. u \in RationalNumbers /\ v \in RationalNumbers
      BY <2>3 DEF Value
    <2> HIDE DEF u, v
    <2>5. s \in Coefficients /\ s[0] = u /\ s[1] = v
      BY <2>2, <2>4 DEF Pair, Coefficients
    <2>6. InTriangle(s)
      <3> DEFINE e == 2 * d[2]
                 m == d[2] - d[1]
                 n == d[2] + d[1]
      <3>1. d[1] \in Int /\ d[2] \in Int /\ d[2] > 0
        BY <2>1, RationalParts
      <3>2. m \in Int /\ n \in Int /\ e \in Int /\ e > 0
        BY <3>1
      <3>3. -e <= n /\ n + m <= e /\ n - m <= e
        BY <2>3, <3>1
      <3>4. Value(s[0], m, e) /\ Value(s[1], n, e) /\ Value(One, e, e) /\ Value(Neg(One), -e, e)
        BY <2>3, <2>5
      <3> HIDE DEF e, m, n
      <3> QED
        BY <3>2, <3>3, <3>4, OnSide
    <2> QED
      BY <2>5, <2>6 DEF s
  <1>5. CASE ~BelowTriangle(c) /\ ~RightOf(c) /\ LeftOf(c)
    <2> DEFINE d == Between(Whole(-3), Plus(c[1], c[0]), One)
               u == Minus(Times(Half, d), Half)
               v == Plus(Times(Half, d), Half)
    <2>1. d \in RationalNumbers /\ AtMost(Whole(-3), d) /\ AtMost(d, One)
      BY <1>1, <1>2, PlusIs, BetweenIs
    <2>2. s = Pair(0, u, v)
      BY <1>5 DEF Stabilize
    <2> HIDE DEF d, s
    <2>3. /\ Value(One, 2 * d[2], 2 * d[2]) /\ Value(Neg(One), -(2 * d[2]), 2 * d[2])
          /\ Value(u, d[1] - d[2], 2 * d[2]) /\ Value(v, d[1] + d[2], 2 * d[2])
          /\ -3 * d[2] <= d[1] /\ d[1] <= d[2]
      BY <2>1, SidesValue
    <2>4. u \in RationalNumbers /\ v \in RationalNumbers
      BY <2>3 DEF Value
    <2> HIDE DEF u, v
    <2>5. s \in Coefficients /\ s[0] = u /\ s[1] = v
      BY <2>2, <2>4 DEF Pair, Coefficients
    <2>6. InTriangle(s)
      <3> DEFINE e == 2 * d[2]
                 m == d[1] - d[2]
                 n == d[1] + d[2]
      <3>1. d[1] \in Int /\ d[2] \in Int /\ d[2] > 0
        BY <2>1, RationalParts
      <3>2. m \in Int /\ n \in Int /\ e \in Int /\ e > 0
        BY <3>1
      <3>3. -e <= n /\ n + m <= e /\ n - m <= e
        BY <2>3, <3>1
      <3>4. Value(s[0], m, e) /\ Value(s[1], n, e) /\ Value(One, e, e) /\ Value(Neg(One), -e, e)
        BY <2>3, <2>5
      <3> HIDE DEF e, m, n
      <3> QED
        BY <3>2, <3>3, <3>4, OnSide
    <2> QED
      BY <2>5, <2>6 DEF s
  <1>6. CASE ~BelowTriangle(c) /\ ~RightOf(c) /\ ~LeftOf(c)
    <2>1. s = c
      BY <1>6 DEF Stabilize
    <2>2. InTriangle(c)
      <3>1. AtMost(Neg(One), c[1])
        BY <1>6 DEF BelowTriangle, Less
      <3>2. CASE AtMost(c[0], Zero)
        <4>1. AtMost(Minus(c[1], c[0]), One)
          BY <1>6, <3>2 DEF LeftOf, Less
        <4>2. AtMost(Plus(c[1], c[0]), One)
          <5>1. AtMost(Plus(c[1], c[0]), Minus(c[1], c[0]))
            BY <1>1, <3>2, Mirrored
          <5>2. Plus(c[1], c[0]) \in RationalNumbers /\ Minus(c[1], c[0]) \in RationalNumbers
            BY <1>1, PlusIs, MinusIs
          <5> QED
            BY <1>2, <4>1, <5>1, <5>2, AtMostTransitive
        <4> QED
          BY <3>1, <4>1, <4>2 DEF InTriangle
      <3>3. CASE ~AtMost(c[0], Zero)
        <4>1. AtMost(Plus(c[1], c[0]), One)
          BY <1>6, <3>3 DEF RightOf, Less
        <4>2. AtMost(Minus(c[1], c[0]), One)
          <5>1. AtMost(Minus(c[1], c[0]), Plus(c[1], c[0]))
            BY <1>1, <3>3, Mirrored
          <5>2. Plus(c[1], c[0]) \in RationalNumbers /\ Minus(c[1], c[0]) \in RationalNumbers
            BY <1>1, PlusIs, MinusIs
          <5> QED
            BY <1>2, <4>1, <5>1, <5>2, AtMostTransitive
        <4> QED
          BY <3>1, <4>1, <4>2 DEF InTriangle
      <3> QED
        BY <3>2, <3>3
    <2> QED
      BY <2>1, <2>2
  <1> QED
    BY <1>3, <1>4, <1>5, <1>6

LEMMA EvalIs ==
  ASSUME NEW m \in Sums, NEW c \in Coefficients
  PROVE  Eval(m, c) \in RationalNumbers /\ EvalSolved(m, c) \in RationalNumbers
  <1> DEFINE t(j, a, b) == Times(Whole(m[j]), Times(a, b))
             cross == Minus(t(4, c[0], c[1]), Plus(t(1, c[0], One), t(3, c[1], One)))
             squares == Plus(Whole(m[0]), Plus(t(2, c[0], c[0]), t(5, c[1], c[1])))
  <1>1. /\ c[0] \in RationalNumbers /\ c[1] \in RationalNumbers /\ One \in RationalNumbers
        /\ Whole(2) \in RationalNumbers
    BY WholeIs DEF Coefficients, One
  <1>2. ASSUME NEW j \in 0 .. 5 PROVE Whole(m[j]) \in RationalNumbers
    BY WholeIs DEF Sums
  <1>3. ASSUME NEW j \in 0 .. 5, NEW a \in RationalNumbers, NEW b \in RationalNumbers
        PROVE  t(j, a, b) \in RationalNumbers
    BY <1>2, TimesIs
  <1>4. /\ 0 \in 0 .. 5 /\ 1 \in 0 .. 5 /\ 2 \in 0 .. 5 /\ 3 \in 0 .. 5 /\ 4 \in 0 .. 5
        /\ 5 \in 0 .. 5
    OBVIOUS
  <1> HIDE DEF t
  <1>5. cross \in RationalNumbers
    BY <1>1, <1>3, <1>4, PlusIs, MinusIs
  <1>6. squares \in RationalNumbers
    BY <1>1, <1>2, <1>3, <1>4, PlusIs
  <1>7. Eval(m, c) = Plus(squares, Times(Whole(2), cross))
    BY Zenon DEF Eval, t
  <1> HIDE DEF cross, squares
  <1>8. Eval(m, c) \in RationalNumbers
    BY <1>1, <1>5, <1>6, <1>7, PlusIs, TimesIs
  <1>9. EvalSolved(m, c) \in RationalNumbers
    BY <1>1, <1>2, <1>4, PlusIs, MinusIs, TimesIs DEF EvalSolved
  <1> QED
    BY <1>8, <1>9

LEMMA BestErrorIs ==
  ASSUME NEW m \in Sums
  PROVE  BestError(m) \in RationalNumbers
  BY SolveIs, StabilizeIs, EvalIs DEF BestError

LEMMA AutocorrIs ==
  ASSUME src \in Seq(Int), NEW f
  PROVE  Autocorr(f) \in Sums
  <1> DEFINE product(i, j) == SampleAt(i - Lags[j][1]) * SampleAt(i - Lags[j][2])
             terms(j) == [i \in 1 .. FrameSampleCount |-> product(f * FrameSampleCount + i, j)]
  <1>1. \A i : SampleAt(i) \in Int
    BY DEF SampleAt
  <1>2. \A i, j : product(i, j) \in Int
    BY <1>1
  <1> HIDE DEF product
  <1>3. FrameSampleCount \in Nat
    BY ValuesAssumption
  <1>4. \A j : \A i \in 1 .. FrameSampleCount : terms(j)[i] \in Int
    BY <1>2
  <1> HIDE DEF terms
  <1>5. \A j : SumTo(terms(j), FrameSampleCount) \in Int
    BY <1>3, <1>4, SumToIsInt
  <1>6. Autocorr(f) = [j \in 0 .. 5 |-> SumTo(terms(j), FrameSampleCount)]
    BY Zenon DEF Autocorr, terms, product
  <1> QED
    BY <1>5, <1>6 DEF Sums

LEMMA SumCorrIs ==
  ASSUME frame_count \in Nat, corr \in [Frames -> Sums], NEW p
  PROVE  SumCorr(p) \in Sums
  <1> DEFINE terms(j) ==
               [i \in 1 .. frame_count |-> IF predictors[i - 1] = p THEN corr[i - 1][j] ELSE 0]
  <1>1. \A j \in 0 .. 5 : \A i \in 1 .. frame_count : terms(j)[i] \in Int
    <2>1. \A i \in 1 .. frame_count : i - 1 \in Frames
      BY DEF Frames
    <2>2. \A j \in 0 .. 5 : \A i \in 1 .. frame_count : corr[i - 1][j] \in Int
      BY <2>1 DEF Sums
    <2> QED
      BY <2>2
  <1> HIDE DEF terms
  <1>2. \A j \in 0 .. 5 : SumTo(terms(j), frame_count) \in Int
    BY <1>1, SumToIsInt
  <1>3. SumCorr(p) = [j \in 0 .. 5 |-> SumTo(terms(j), frame_count)]
    BY Zenon DEF SumCorr, terms
  <1> QED
    BY <1>2, <1>3 DEF Sums

---------------------------------------------------------------------------------
(* The first of the best *)

(***************************************************************************)
(* What the loops of vadpcm_worst_frame and vadpcm_refine_predictors look  *)
(* for is there: of a total order R, the first of the least of 0 .. n.     *)
(***************************************************************************)
LEMMA FirstLeast ==
  ASSUME NEW n \in Nat, NEW R,
         \A i, j \in 0 .. n : <<i, j>> \in R \/ <<j, i>> \in R,
         \A i, j, k \in 0 .. n : <<i, j>> \in R /\ <<j, k>> \in R => <<i, k>> \in R
  PROVE  \E i \in 0 .. n : /\ \A j \in 0 .. n : <<i, j>> \in R
                           /\ \A j \in 0 .. i - 1 : <<j, i>> \notin R
  <1> DEFINE First(k) == \E i \in 0 .. k : /\ \A j \in 0 .. k : <<i, j>> \in R
                                           /\ \A j \in 0 .. i - 1 : <<j, i>> \notin R
             P == {k \in Nat : k <= n => First(k)}
  <1>1. ASSUME NEW k \in Nat, \A m \in 0 .. k - 1 : m \in P
        PROVE  k \in P
    <2> SUFFICES ASSUME k <= n PROVE First(k)
      <3> HIDE DEF First
      <3> QED
        OBVIOUS
    <2>1. CASE k = 0
      BY <2>1
    <2>2. CASE k > 0
      <3>1. First(k - 1)
        <4> HIDE DEF First
        <4> QED
          BY <1>1, <2>2
      <3>2. PICK i \in 0 .. k - 1 : /\ \A j \in 0 .. k - 1 : <<i, j>> \in R
                                    /\ \A j \in 0 .. i - 1 : <<j, i>> \notin R
        BY <3>1
      <3>3. CASE <<i, k>> \in R
        <4>1. \A j \in 0 .. k : <<i, j>> \in R
          <5>1. \A j \in 0 .. k : j \in 0 .. k - 1 \/ j = k
            OBVIOUS
          <5> QED
            BY <3>2, <3>3, <5>1
        <4>2. i \in 0 .. k
          OBVIOUS
        <4> QED
          BY <3>2, <4>1, <4>2
      <3>4. CASE <<i, k>> \notin R
        <4>1. <<k, i>> \in R /\ <<k, k>> \in R
          BY <2>2, <3>4
        <4>2. ASSUME NEW j \in 0 .. k - 1
              PROVE  <<k, j>> \in R /\ <<j, k>> \notin R
          <5>1. i \in 0 .. n /\ j \in 0 .. n /\ k \in 0 .. n
            OBVIOUS
          <5>2. <<i, j>> \in R
            BY <3>2
          <5> QED
            BY <3>4, <4>1, <5>1, <5>2, Zenon
        <4>3. \A j \in 0 .. k : <<k, j>> \in R
          <5>1. \A j \in 0 .. k : j \in 0 .. k - 1 \/ j = k
            OBVIOUS
          <5> QED
            BY <4>1, <4>2, <5>1
        <4>4. \A j \in 0 .. k - 1 : <<j, k>> \notin R
          BY <4>2
        <4> QED
          BY <4>3, <4>4
      <3> QED
        BY <3>3, <3>4
    <2> HIDE DEF First
    <2> QED
      BY <2>1, <2>2
  <1>2. Nat \subseteq P
    <2> HIDE DEF P
    <2> QED
      BY <1>1, StrongInduction, Zenon
  <1>3. First(n)
    <2> HIDE DEF First
    <2> QED
      BY <1>2
  <1> QED
    BY <1>3

LEMMA WorstIsThere ==
  ASSUME frame_count \in Nat \ {0}, error \in [Frames -> RationalNumbers],
         best_error \in [Frames -> RationalNumbers]
  PROVE  \E f \in Frames : IsWorst(f)
  <1> DEFINE n == frame_count - 1
             R == {p \in Frames \X Frames : AtMost(Improvement(p[2]), Improvement(p[1]))}
  <1>1. n \in Nat /\ Frames = 0 .. n
    BY DEF Frames
  <1>2. \A f \in Frames : Improvement(f) \in RationalNumbers
    BY MinusIs DEF Improvement
  <1>3. \A f, g \in Frames : <<f, g>> \in R <=> AtMost(Improvement(g), Improvement(f))
    OBVIOUS
  <1> HIDE DEF n, R
  <1>4. \A f, g \in 0 .. n : <<f, g>> \in R \/ <<g, f>> \in R
    BY <1>1, <1>2, <1>3, AtMostTotal
  <1>5. \A f, g, h \in 0 .. n : <<f, g>> \in R /\ <<g, h>> \in R => <<f, h>> \in R
    BY <1>1, <1>2, <1>3, AtMostTransitive
  <1>6. PICK f \in 0 .. n : /\ \A g \in 0 .. n : <<f, g>> \in R
                            /\ \A g \in 0 .. f - 1 : <<g, f>> \notin R
    BY <1>1, <1>4, <1>5, FirstLeast
  <1>7. \A g \in Frames : AtMost(Improvement(g), Improvement(f))
    BY <1>1, <1>3, <1>6
  <1>8. \A g \in 0 .. f - 1 : Less(Improvement(g), Improvement(f))
    <2>1. \A g \in 0 .. f - 1 : g \in Frames
      BY <1>1
    <2> QED
      BY <1>1, <1>3, <1>6, <2>1 DEF Less
  <1> QED
    BY <1>1, <1>7, <1>8 DEF IsWorst

LEMMA BestIsThere ==
  ASSUME NEW count \in Nat \ {0}, NEW cs \in [0 .. count - 1 -> Coefficients], NEW m \in Sums
  PROVE  /\ BestOf(cs, m) \in 0 .. count - 1
         /\ \A j \in 0 .. count - 1 : AtMost(Eval(m, cs[BestOf(cs, m)]), Eval(m, cs[j]))
  <1> DEFINE n == count - 1
             e(i) == Eval(m, cs[i])
             R == {p \in (0 .. n) \X (0 .. n) : AtMost(e(p[1]), e(p[2]))}
             Best(i) == /\ \A j \in 0 .. n : AtMost(e(i), e(j))
                        /\ \A j \in 0 .. i - 1 : Less(e(i), e(j))
  <1>1. n \in Nat /\ 0 .. count - 1 = 0 .. n /\ DOMAIN cs = 0 .. n
    OBVIOUS
  <1>2. \A i \in 0 .. n : e(i) \in RationalNumbers
    BY EvalIs
  <1>3. BestOf(cs, m) = CHOOSE i \in 0 .. n : Best(i)
    BY <1>1, Zenon DEF BestOf
  <1> HIDE DEF n, e
  <1>4. \A i, j \in 0 .. n : <<i, j>> \in R <=> AtMost(e(i), e(j))
    OBVIOUS
  <1> HIDE DEF R
  <1>5. \A i, j \in 0 .. n : <<i, j>> \in R \/ <<j, i>> \in R
    BY <1>2, <1>4, AtMostTotal
  <1>6. \A i, j, k \in 0 .. n : <<i, j>> \in R /\ <<j, k>> \in R => <<i, k>> \in R
    BY <1>2, <1>4, AtMostTransitive
  <1>7. PICK i \in 0 .. n : /\ \A j \in 0 .. n : <<i, j>> \in R
                            /\ \A j \in 0 .. i - 1 : <<j, i>> \notin R
    BY <1>1, <1>5, <1>6, FirstLeast
  <1>8. Best(i)
    <2>1. \A j \in 0 .. i - 1 : j \in 0 .. n
      BY <1>1
    <2> QED
      BY <1>4, <1>7, <2>1 DEF Less
  <1>9. BestOf(cs, m) \in 0 .. n /\ Best(BestOf(cs, m))
    <2> HIDE DEF Best
    <2> QED
      BY <1>3, <1>8, Zenon
  <1> QED
    BY <1>1, <1>9 DEF e

LEMMA FirstEmptyIs ==
  ASSUME NEW count \in Nat, NEW used, used \subseteq 0 .. count - 1
  PROVE  FirstEmpty(used, count) \in 0 .. count /\ FirstUnused(FirstEmpty(used, count), used, count)
  <1> DEFINE S == (0 .. count) \ used
             u == FirstEmpty(used, count)
  <1>1. S \subseteq Nat /\ count \in S
    OBVIOUS
  <1>2. \E i \in S : \A j \in S : i <= j
    <2> HIDE DEF S
    <2> QED
      BY <1>1, LeastNumber
  <1>3. u = CHOOSE i \in S : \A j \in S : i <= j
    BY Zenon DEF FirstEmpty, Min
  <1>4. u \in S /\ \A j \in S : u <= j
    <2> HIDE DEF S, u
    <2> QED
      BY <1>2, <1>3, Zenon
  <1> HIDE DEF u
  <1>5. \A i \in 0 .. u - 1 : i \in used
    <2> SUFFICES ASSUME NEW i \in 0 .. u - 1, i \notin used PROVE FALSE
      OBVIOUS
    <2>1. i \in S
      BY <1>4
    <2> QED
      BY <1>4, <2>1
  <1> QED
    BY <1>4, <1>5 DEF FirstUnused, u
---------------------------------------------------------------------------------
(* The values lead to assignments that PredictorAssign allows *)

(* What the arrays hold from when they are filled. *)
Valued ==
    src # NoSound =>
        /\ src \in Seq(Int)
        /\ pc \in {"assign", "best_error", "error", "iterate", "worst", "refine"} =>
             corr \in [Frames -> Sums]
        /\ pc \in {"error", "iterate", "worst", "refine"} =>
             best_error \in [Frames -> RationalNumbers]
        /\ pc \in {"best_error", "error"} => iter = 0
        /\ pc = "iterate" /\ iter = 0 => unassigned = predictor_count
        /\ (pc = "iterate" /\ iter > 0) \/ pc = "worst" =>
             error \in [Frames -> RationalNumbers]

VInv == IInv /\ Valued /\ CoefficientsStable

LEMMA SplitWorstSteps ==
  ASSUME VInv, src # NoSound, SplitWorst
  PROVE  AssignWorst
  <1>1. pc = "worst"
    BY DEF SplitWorst
  <1>2. frame_count \in Nat \ {0}
    BY <1>1 DEF VInv, IInv, TypeOK, Pending
  <1>3. \E f \in Frames : IsWorst(f)
    BY <1>1, <1>2, WorstIsThere DEF VInv, Valued
  <1>4. (CHOOSE f \in Frames : IsWorst(f)) \in Frames
    BY <1>3, Zenon
  <1> QED
    BY <1>4 DEF SplitWorst, AssignWorst

(* What vadpcm_refine_predictors computes with. *)
LEMMA RefinedTypes ==
  ASSUME VInv, src # NoSound, RefinePredictors
  PROVE  LET count == Cardinality(Clusters)
         IN  /\ count \in Nat \ {0}
             /\ coeff' \in [0 .. count - 1 -> Coefficients]
             /\ \A i \in 0 .. count - 1 : InTriangle(coeff'[i])
             /\ predictors' \in [Frames -> 0 .. count - 1]
             /\ error' \in [Frames -> RationalNumbers]
  <1> DEFINE count == Cardinality(Clusters)
             cs == [i \in 0 .. count - 1 |-> Stabilize(Solve(SumCorr(Cluster(i))))]
  <1>1. pc = "refine"
    BY DEF RefinePredictors
  <1>2. TypeOK /\ frame_count > 0 /\ \A f \in Frames : predictors[f] < active_count
    BY <1>1 DEF VInv, IInv, Pending, Counted
  <1>3. count \in Nat \ {0}
    BY <1>2, ClusterCount, PredictorAssumption DEF TypeOK
  <1>4. frame_count \in Nat /\ corr \in [Frames -> Sums]
    BY <1>1, <1>2 DEF TypeOK, VInv, Valued
  <1> HIDE DEF count
  <1>5. \A i : /\ Stabilize(Solve(SumCorr(Cluster(i)))) \in Coefficients
               /\ InTriangle(Stabilize(Solve(SumCorr(Cluster(i)))))
    BY <1>4, SumCorrIs, SolveIs, StabilizeIs
  <1>6. coeff' = cs
    BY Zenon DEF RefinePredictors, count
  <1>7. coeff' \in [0 .. count - 1 -> Coefficients]
    BY <1>5, <1>6
  <1>8. \A i \in 0 .. count - 1 : InTriangle(coeff'[i])
    BY <1>5, <1>6
  <1>9. predictors' = [f \in Frames |-> BestOf(cs, corr[f])]
    BY Zenon DEF RefinePredictors, count
  <1>10. error' = [f \in Frames |-> Eval(corr[f], cs[predictors'[f]])]
    BY Zenon DEF RefinePredictors, count
  <1> HIDE DEF cs
  <1>11. \A f \in Frames : BestOf(cs, corr[f]) \in 0 .. count - 1
    BY <1>3, <1>4, <1>6, <1>7, BestIsThere
  <1>12. predictors' \in [Frames -> 0 .. count - 1]
    BY <1>9, <1>11
  <1>13. \A f \in Frames : Eval(corr[f], cs[predictors'[f]]) \in RationalNumbers
    BY <1>4, <1>6, <1>7, <1>12, EvalIs
  <1>14. error' \in [Frames -> RationalNumbers]
    BY <1>10, <1>13
  <1> QED
    BY <1>3, <1>7, <1>8, <1>12, <1>14 DEF count

LEMMA RefineSteps ==
  ASSUME VInv, src # NoSound, RefinePredictors
  PROVE  Refine
  <1> DEFINE count == Cardinality(Clusters)
             used  == {predictors'[f] : f \in Frames}
  <1>1. count \in Nat \ {0} /\ predictors' \in [Frames -> 0 .. count - 1]
    BY RefinedTypes
  <1>2. unassigned' = FirstEmpty(used, count)
    BY Zenon DEF RefinePredictors
  <1> HIDE DEF count
  <1>3. used \subseteq 0 .. count - 1
    BY <1>1
  <1>4. unassigned' \in 0 .. count /\ FirstUnused(unassigned', used, count)
    <2> HIDE DEF used
    <2> QED
      BY <1>1, <1>2, <1>3, FirstEmptyIs
  <1>5. /\ pc = "refine" /\ iter' = iter + 1 /\ pc' = "iterate"
        /\ UNCHANGED <<frame_count, predictor_count, active_count, blocks, written, ret>>
    BY DEF RefinePredictors
  <1> QED
    BY <1>1, <1>4, <1>5, Zenon DEF Refine, count

(* Each step with values is a step without. *)
LEMMA ValuesSteps ==
  ASSUME VInv, [ValuesNext]_valueVars
  PROVE  [Next]_vars
  <1>1. CASE src # NoSound /\ ValuesStep
    <2>1. CASE Autocorrelate
      BY <2>1 DEF Autocorrelate, Next, Step, Allocate
    <2>2. CASE FindBestErrors
      BY <2>2 DEF FindBestErrors, Next, Step, Allocate
    <2>3. CASE SplitWorst
      BY <1>1, <2>3, SplitWorstSteps DEF Next, Step
    <2>4. CASE RefinePredictors
      BY <1>1, <2>4, RefineSteps DEF Next, Step
    <2>5. CASE EncodeFrames
      BY <2>5 DEF EncodeFrames, Next, Step
    <2>6. CASE EncodeNothing
      BY <2>6 DEF EncodeNothing, Next, Step
    <2>7. CASE \/ BadParams \/ TooManyFrames \/ CheckParams \/ Malloc("corr", "predictors")
               \/ Malloc("error", "iterate")
               \/ \E block \in {"corr", "predictors", "best_error", "error"} :
                    MallocFails(block)
               \/ BeginAssign \/ Iterate \/ EndAssign
      BY <2>7 DEF Next, Step, Allocate
    <2> QED
      BY <1>1, <2>1, <2>2, <2>3, <2>4, <2>5, <2>6, <2>7 DEF ValuesStep
  <1>2. CASE src = NoSound /\ Step /\ UNCHANGED values
    BY <1>2 DEF Next
  <1>3. CASE pc = "done" /\ UNCHANGED valueVars
    BY <1>3 DEF valueVars
  <1>4. CASE UNCHANGED valueVars
    BY <1>4 DEF valueVars
  <1> QED
    BY <1>1, <1>2, <1>3, <1>4 DEF ValuesNext

LEMMA ValuedStep ==
  ASSUME VInv, src # NoSound, ValuesStep
  PROVE  (Valued /\ CoefficientsStable)'
  <1> USE DEF VInv, Valued, CoefficientsStable
  <1>1. src' = src
    BY DEF ValuesStep, Autocorrelate, FindBestErrors, SplitWorst, RefinePredictors,
       EncodeFrames, EncodeNothing, values
  <1>2. CASE Autocorrelate
    <2>1. Frames' = Frames
      BY <1>2 DEF Autocorrelate, Malloc, Frames
    <2>2. corr' \in [Frames -> Sums]
      BY <1>2, AutocorrIs DEF Autocorrelate
    <2> QED
      BY <1>1, <1>2, <2>1, <2>2 DEF Autocorrelate, Malloc
  <1>3. CASE FindBestErrors
    <2>1. pc = "best_error" /\ pc' = "error" /\ Frames' = Frames
      BY <1>3 DEF FindBestErrors, Malloc, Frames
    <2>2. best_error' \in [Frames -> RationalNumbers]
      BY <1>3, <2>1, BestErrorIs DEF FindBestErrors
    <2> QED
      BY <1>1, <1>3, <2>1, <2>2 DEF FindBestErrors, Malloc, assigned
  <1>4. CASE SplitWorst
    BY <1>1, <1>4 DEF SplitWorst, Frames, values
  <1>5. CASE RefinePredictors
    <2>1. pc = "refine" /\ pc' = "iterate" /\ Frames' = Frames /\ iter' = iter + 1
      BY <1>5 DEF RefinePredictors, Frames
    <2>2. iter \in Nat
      BY PredictorAssumption DEF IInv, TypeOK
    <2>3. /\ coeff' \in [0 .. Cardinality(Clusters) - 1 -> Coefficients]
          /\ \A i \in 0 .. Cardinality(Clusters) - 1 : InTriangle(coeff'[i])
          /\ error' \in [Frames -> RationalNumbers]
      BY <1>5, RefinedTypes
    <2>4. CoefficientsStable'
      BY <2>3 DEF InTriangle
    <2>5. corr' = corr /\ best_error' = best_error
      BY <1>5 DEF RefinePredictors
    <2>6. iter' # 0
      BY <2>1, <2>2
    <2>7. Valued'
      <3> HIDE DEF CoefficientsStable
      <3> QED
        BY <1>1, <2>1, <2>3, <2>5, <2>6
    <2> HIDE DEF CoefficientsStable, Valued
    <2> QED
      BY <2>4, <2>7
  <1>6. CASE EncodeFrames
    BY <1>1, <1>6 DEF EncodeFrames, Finish, Return
  <1>7. CASE EncodeNothing
    BY <1>1, <1>7 DEF EncodeNothing, NoFrames, Return
  <1>8. CASE /\ \/ BadParams \/ TooManyFrames \/ CheckParams \/ Malloc("corr", "predictors")
                \/ Malloc("error", "iterate")
                \/ \E block \in {"corr", "predictors", "best_error", "error"} :
                     MallocFails(block)
                \/ BeginAssign \/ Iterate \/ EndAssign
             /\ UNCHANGED values
    <2>1. CASE BadParams \/ TooManyFrames \/ CheckParams
      BY <1>1, <1>8, <2>1 DEF BadParams, TooManyFrames, CheckParams, Return, values, assigned
    <2>2. CASE Malloc("corr", "predictors")
      BY <1>1, <1>8, <2>2 DEF Malloc, values
    <2>3. CASE Malloc("error", "iterate")
      BY <1>1, <1>8, <2>3 DEF Malloc, values, assigned, IInv, Counted, Frames
    <2>4. CASE \E block \in {"corr", "predictors", "best_error", "error"} : MallocFails(block)
      BY <1>1, <1>8, <2>4 DEF MallocFails, Return, values
    <2>5. CASE BeginAssign
      BY <1>1, <1>8, <2>5 DEF BeginAssign, values, Frames
    <2>6. CASE Iterate
      BY <1>1, <1>8, <2>6, PredictorAssumption DEF Iterate, SomeUnassigned, values, assigned,
         Frames, IInv, TypeOK
    <2>7. CASE EndAssign
      BY <1>1, <1>8, <2>7 DEF EndAssign, values
    <2> QED
      BY <1>8, <2>1, <2>2, <2>3, <2>4, <2>5, <2>6, <2>7
  <1> QED
    BY <1>2, <1>3, <1>4, <1>5, <1>6, <1>7, <1>8 DEF ValuesStep

LEMMA ValuesInitInv == ValuesInit => VInv
  <1> SUFFICES ASSUME ValuesInit PROVE VInv
    OBVIOUS
  <1>1. IInv
    BY InitInv DEF ValuesInit
  <1>2. Valued
    BY ValuesAssumption DEF ValuesInit, Init, Valued
  <1>3. CoefficientsStable
    BY DEF ValuesInit, CoefficientsStable
  <1> QED
    BY <1>1, <1>2, <1>3 DEF VInv

LEMMA ValuesNextInv ==
  ASSUME VInv, [ValuesNext]_valueVars
  PROVE  VInv'
  <1>1. IInv'
    BY ValuesSteps, NextInv DEF VInv
  <1>2. (Valued /\ CoefficientsStable)'
    <2>1. CASE src # NoSound /\ ValuesStep
      BY <2>1, ValuedStep
    <2>2. CASE src = NoSound /\ UNCHANGED values
      BY <2>2 DEF VInv, Valued, CoefficientsStable, values
    <2>3. CASE UNCHANGED valueVars
      BY <2>3 DEF VInv, Valued, CoefficientsStable, valueVars, vars, values, assigned, Frames
    <2> QED
      BY <2>1, <2>2, <2>3 DEF ValuesNext
  <1> QED
    BY <1>1, <1>2 DEF VInv

(* The arrays hold numbers whenever they are read, and the assignment is as before. *)
THEOREM ValuesInvariant == ValuesSpec => []VInv
  <1>1. ValuesInit => VInv
    BY ValuesInitInv
  <1>2. VInv /\ [ValuesNext]_valueVars => VInv'
    BY ValuesNextInv
  <1> QED
    BY <1>1, <1>2, PTL DEF ValuesSpec

(***************************************************************************)
(* vadpcm_encode with the numbers it computes, for any sound, does what    *)
(* PredictorAssign allows: there is a worst frame, a best predictor for    *)
(* each frame and a first one that is free, and no division by 0.          *)
(***************************************************************************)
THEOREM ValuesImplementAssign == ValuesSpec => ImplementsAssign
  <1>1. ValuesInit => Init
    BY DEF ValuesInit
  <1>2. VInv /\ [ValuesNext]_valueVars => [Next]_vars
    BY ValuesSteps
  <1> QED
    BY <1>1, <1>2, ValuesInvariant, PTL DEF ValuesSpec, ImplementsAssign, Spec

(* So what holds of an assignment holds of the one that is computed. *)
THEOREM ValuesKeepAssign ==
  ValuesSpec =>
    [](TypeOK /\ FramesCounted /\ UnassignedIsUnused /\ CodebookCovers /\ AllFreed
       /\ AllOrNothing)
  <1>1. VInv => /\ TypeOK /\ FramesCounted /\ UnassignedIsUnused /\ CodebookCovers /\ AllFreed
                /\ AllOrNothing
    BY DEF VInv, IInv, Counted, Pending, Held, FramesCounted, CodebookCovers, AllFreed
  <1> QED
    BY <1>1, ValuesInvariant, PTL

(***************************************************************************)
(* Frames are compared by coefficients in the closed triangle of the       *)
(* stable filters, whatever vadpcm_solve gives: vadpcm_stabilize leaves    *)
(* none outside.                                                           *)
(***************************************************************************)
THEOREM StableCoefficients == ValuesSpec => []CoefficientsStable
  <1>1. VInv => CoefficientsStable
    BY DEF VInv
  <1> QED
    BY <1>1, ValuesInvariant, PTL
---------------------------------------------------------------------------------
(* The vectors of the codebook *)

LEMMA ScaledValue ==
  ASSUME NEW a, NEW n \in Int, NEW e \in Int, NEW k \in Int, Value(a, n, e)
  PROVE  Value(a, k * n, k * e)
  <1>1. a[1] \in Int /\ a[2] \in Int /\ a[1] * e = n * a[2]
    BY RationalParts DEF Value
  <1>2. a[1] * (k * e) = k * (a[1] * e) /\ k * (n * a[2]) = (k * n) * a[2]
    BY <1>1
  <1> QED
    BY <1>1, <1>2 DEF Value

LEMMA TimesValue ==
  ASSUME NEW a, NEW b, NEW n \in Int, NEW m \in Int, NEW e \in Int, NEW f \in Int,
         Value(a, n, e), Value(b, m, f)
  PROVE  Value(Times(a, b), n * m, e * f)
  <1> DEFINE t == Times(a, b)
  <1>1. a \in RationalNumbers /\ b \in RationalNumbers
    BY DEF Value
  <1>2. t \in RationalNumbers /\ t[1] * (a[2] * b[2]) = (a[1] * b[1]) * t[2]
    BY <1>1, TimesIs
  <1>3. /\ a[1] \in Int /\ a[2] \in Int /\ a[2] > 0 /\ b[1] \in Int /\ b[2] \in Int
        /\ b[2] > 0 /\ t[1] \in Int /\ t[2] \in Int
    BY <1>1, <1>2, RationalParts
  <1>4. a[1] * e = n * a[2] /\ b[1] * f = m * b[2]
    BY DEF Value
  <1> HIDE DEF t
  <1>5. (t[1] * (e * f)) * (a[2] * b[2]) = ((n * m) * t[2]) * (a[2] * b[2])
    <2>1. (t[1] * (e * f)) * (a[2] * b[2]) = (t[1] * (a[2] * b[2])) * (e * f)
      BY <1>3
    <2>2. ((a[1] * b[1]) * t[2]) * (e * f) = ((a[1] * e) * (b[1] * f)) * t[2]
      BY <1>3
    <2>3. ((n * a[2]) * (m * b[2])) * t[2] = ((n * m) * t[2]) * (a[2] * b[2])
      BY <1>3
    <2> QED
      BY <1>2, <1>4, <2>1, <2>2, <2>3 DEF t
  <1>6. /\ t[1] * (e * f) \in Int /\ (n * m) * t[2] \in Int
        /\ a[2] * b[2] \in Int /\ a[2] * b[2] > 0
    BY <1>3
  <1>7. t[1] * (e * f) = (n * m) * t[2]
    BY <1>5, <1>6, Cancelled
  <1> QED
    BY <1>2, <1>7 DEF Value, t

(* What lrint gives is no more than half a unit off. *)
LEMMA NearestIs ==
  ASSUME NEW a \in RationalNumbers
  PROVE  /\ Nearest(a) \in Int
         /\ -a[2] <= 2 * (Nearest(a) * a[2] - a[1])
         /\ 2 * (Nearest(a) * a[2] - a[1]) <= a[2]
  <1> DEFINE whole == a[1] \div a[2]
             rest  == a[1] % a[2]
             up    == 2 * rest > a[2] \/ (2 * rest = a[2] /\ whole % 2 = 1)
  <1>1. a[1] \in Int /\ a[2] \in Int /\ a[2] > 0
    BY RationalParts
  <1>2. whole \in Int /\ rest \in Int /\ 0 <= rest /\ rest < a[2] /\ a[1] = whole * a[2] + rest
    <2>1. whole \in Int /\ rest \in 0 .. a[2] - 1 /\ a[1] = whole * a[2] + rest
      BY <1>1, Divided
    <2> HIDE DEF whole, rest
    <2> QED
      BY <1>1, <2>1
  <1>3. Nearest(a) = IF up THEN whole + 1 ELSE whole
    BY DEF Nearest
  <1> HIDE DEF whole, rest
  <1>4. (whole + 1) * a[2] = whole * a[2] + a[2] /\ whole * a[2] \in Int
    BY <1>1, <1>2
  <1>5. CASE up
    <2>1. Nearest(a) = whole + 1
      BY <1>3, <1>5
    <2>2. 2 * rest >= a[2]
      BY <1>1, <1>2, <1>5
    <2> QED
      BY <1>1, <1>2, <1>4, <2>1, <2>2
  <1>6. CASE ~up
    <2>1. Nearest(a) = whole
      BY <1>3, <1>6
    <2>2. 2 * rest <= a[2]
      BY <1>1, <1>2, <1>6
    <2> QED
      BY <1>1, <1>2, <1>4, <2>1, <2>2
  <1> QED
    BY <1>5, <1>6

LEMMA ClampedIs ==
  ASSUME NEW a \in RationalNumbers, NEW n \in Int, NEW e \in Int, e > 0, Value(a, n, e)
  PROVE  \/ Clamped(a) \in {MaxSample, -MaxSample - 1}
         \/ /\ Clamped(a) \in Int
            /\ -e <= 2 * (Clamped(a) * e - n) /\ 2 * (Clamped(a) * e - n) <= e
  <1>1. Clamped(a) \in {MaxSample, -MaxSample - 1} \/ Clamped(a) = Nearest(a)
    BY DEF Clamped
  <1>2. a[1] \in Int /\ a[2] \in Int /\ a[2] > 0 /\ a[1] * e = n * a[2]
    BY RationalParts DEF Value
  <1> DEFINE v == Nearest(a)
             w == 2 * (v * e - n)
             u == 2 * (v * a[2] - a[1])
  <1>3. v \in Int /\ -a[2] <= u /\ u <= a[2]
    BY NearestIs
  <1> HIDE DEF v
  <1>4. u \in Int /\ w \in Int
    BY <1>2, <1>3
  <1>5. u * e = w * a[2]
    <2>1. u * e = 2 * ((v * e) * a[2] - a[1] * e)
      BY <1>2, <1>3
    <2>2. w * a[2] = 2 * ((v * e) * a[2] - n * a[2])
      BY <1>2, <1>3
    <2> QED
      BY <1>2, <2>1, <2>2
  <1> HIDE DEF u, w
  <1>6. (-a[2]) * e <= u * e /\ u * e <= a[2] * e
    <2>1. -a[2] \in Int
      BY <1>2
    <2> QED
      BY <1>2, <1>3, <1>4, <2>1, ScaledUp
  <1>7. (-e) * a[2] <= w * a[2] /\ w * a[2] <= e * a[2]
    <2>1. (-a[2]) * e = (-e) * a[2] /\ a[2] * e = e * a[2]
      BY <1>2
    <2> QED
      BY <1>5, <1>6, <2>1
  <1>8. -e <= w /\ w <= e
    <2>1. -e \in Int
      OBVIOUS
    <2> QED
      BY <1>2, <1>4, <1>7, <2>1, ScaledUp
  <1> QED
    BY <1>1, <1>3, <1>8 DEF v, w

(***************************************************************************)
(* The state of a filter: f is its response to start, for k samples.  As   *)
(* the response of a sample is defined by those of the two before it, there *)
(* is one, by induction, and its values are numbers.                       *)
(***************************************************************************)
FilterValue(c, start, f, j) ==
    IF j < 0 THEN Whole(start[j + 3]) ELSE Plus(Times(c[0], f[j - 1]), Times(c[1], f[j - 2]))

Filters(c, start, f, k) == f = [j \in -2 .. k - 1 |-> FilterValue(c, start, f, j)]

LEMMA FilterExists ==
  ASSUME NEW c, NEW start, NEW n \in Nat
  PROVE  \E f : Filters(c, start, f, n)
  <1> DEFINE Some(k) == \E f : Filters(c, start, f, k)
             P == {k \in Nat : Some(k)}
  <1>1. ASSUME NEW k \in Nat, \A m \in 0 .. k - 1 : m \in P
        PROVE  k \in P
    <2> SUFFICES Some(k)
      <3> HIDE DEF Some
      <3> QED
        OBVIOUS
    <2>1. CASE k = 0
      <3> DEFINE f == [j \in -2 .. k - 1 |-> Whole(start[j + 3])]
      <3>1. \A j \in -2 .. k - 1 : FilterValue(c, start, f, j) = Whole(start[j + 3])
        BY <2>1 DEF FilterValue
      <3>2. Filters(c, start, f, k)
        BY <3>1 DEF Filters
      <3> QED
        BY <3>2
    <2>2. CASE k > 0
      <3>1. Some(k - 1)
        <4> HIDE DEF Some
        <4> QED
          BY <1>1, <2>2
      <3>2. PICK e : Filters(c, start, e, k - 1)
        BY <3>1
      <3> DEFINE f == [j \in -2 .. k - 1 |-> FilterValue(c, start, e, j)]
      <3>3. \A j \in -2 .. k - 2 : e[j] = FilterValue(c, start, e, j)
        <4>1. k - 1 - 1 = k - 2
          OBVIOUS
        <4> QED
          BY <3>2, <4>1 DEF Filters
      <3>4. \A j \in -2 .. k - 2 : f[j] = e[j]
        <4>1. \A j \in -2 .. k - 2 : j \in -2 .. k - 1
          OBVIOUS
        <4> QED
          BY <3>3, <4>1
      <3> HIDE DEF f
      <3>5. \A j \in -2 .. k - 1 : FilterValue(c, start, f, j) = FilterValue(c, start, e, j)
        <4> SUFFICES ASSUME NEW j \in -2 .. k - 1
                     PROVE  FilterValue(c, start, f, j) = FilterValue(c, start, e, j)
          OBVIOUS
        <4>1. CASE j < 0
          BY <4>1 DEF FilterValue
        <4>2. CASE j >= 0
          <5>1. j - 1 \in -2 .. k - 2 /\ j - 2 \in -2 .. k - 2 /\ ~(j < 0)
            BY <4>2
          <5>2. f[j - 1] = e[j - 1] /\ f[j - 2] = e[j - 2]
            BY <3>4, <5>1
          <5> QED
            BY <5>1, <5>2, Zenon DEF FilterValue
        <4> QED
          BY <4>1, <4>2
      <3>6. Filters(c, start, f, k)
        BY <3>5 DEF Filters, f
      <3> QED
        BY <3>6
    <2> HIDE DEF Some
    <2> QED
      BY <2>1, <2>2
  <1>2. Nat \subseteq P
    <2> HIDE DEF P
    <2> QED
      BY <1>1, StrongInduction, Zenon
  <1>3. Some(n)
    <2> HIDE DEF Some
    <2> QED
      BY <1>2
  <1> QED
    BY <1>3

LEMMA FilterTypes ==
  ASSUME NEW c \in Coefficients, NEW start, start[1] \in Int, start[2] \in Int,
         NEW n \in Nat, NEW f, Filters(c, start, f, n)
  PROVE  \A j \in -2 .. n - 1 : f[j] \in RationalNumbers
  <1>1. \A j \in -2 .. n - 1 : f[j] = FilterValue(c, start, f, j)
    BY Zenon DEF Filters
  <1>2. c[0] \in RationalNumbers /\ c[1] \in RationalNumbers
    BY DEF Coefficients
  <1> DEFINE P == {k \in Nat : k - 2 < n => f[k - 2] \in RationalNumbers}
  <1>3. ASSUME NEW k \in Nat, \A m \in 0 .. k - 1 : m \in P
        PROVE  k \in P
    <2> SUFFICES ASSUME k - 2 < n PROVE f[k - 2] \in RationalNumbers
      OBVIOUS
    <2> DEFINE j == k - 2
    <2>1. j \in -2 .. n - 1
      OBVIOUS
    <2>2. CASE j < 0
      <3>1. j + 3 = 1 \/ j + 3 = 2
        BY <2>2
      <3>2. start[j + 3] \in Int
        BY <3>1
      <3>3. f[j] = Whole(start[j + 3])
        BY <1>1, <2>1, <2>2 DEF FilterValue
      <3> HIDE DEF j
      <3>4. f[j] \in RationalNumbers
        BY <3>2, <3>3, WholeIs
      <3> QED
        BY <3>4 DEF j
    <2>3. CASE j >= 0
      <3>1. /\ k - 1 \in 0 .. k - 1 /\ k - 2 \in 0 .. k - 1
            /\ (k - 1) - 2 = j - 1 /\ (k - 2) - 2 = j - 2
        BY <2>3
      <3>2. f[j - 1] \in RationalNumbers /\ f[j - 2] \in RationalNumbers
        <4>1. k - 1 \in P /\ k - 2 \in P
          BY <1>3, <3>1
        <4>2. (k - 1) - 2 < n /\ (k - 2) - 2 < n
          OBVIOUS
        <4> QED
          BY <3>1, <4>1, <4>2
      <3>3. f[j] = Plus(Times(c[0], f[j - 1]), Times(c[1], f[j - 2]))
        <4>1. f[j] = FilterValue(c, start, f, j) /\ ~(j < 0)
          BY <1>1, <2>1, <2>3
        <4> HIDE DEF j
        <4> QED
          BY <4>1, Zenon DEF FilterValue
      <3> HIDE DEF j
      <3>4. f[j] \in RationalNumbers
        BY <1>2, <3>2, <3>3, TimesIs, PlusIs
      <3> QED
        BY <3>4 DEF j
    <2> QED
      BY <2>1, <2>2, <2>3
  <1>4. Nat \subseteq P
    <2> HIDE DEF P
    <2> QED
      BY <1>3, StrongInduction, Zenon
  <1>5. ASSUME NEW j \in -2 .. n - 1 PROVE f[j] \in RationalNumbers
    <2>1. j + 2 \in Nat /\ (j + 2) - 2 = j /\ j < n
      OBVIOUS
    <2> QED
      BY <1>4, <2>1
  <1> QED
    BY <1>5

LEMMA ResponseFilters ==
  ASSUME NEW c \in Coefficients, NEW start, start[1] \in Int, start[2] \in Int
  PROVE  \E f : /\ Filters(c, start, f, Lanes)
                /\ \A j \in -2 .. Lanes - 1 : f[j] \in RationalNumbers
                /\ Response(c, start) = [j \in 0 .. Lanes - 1 |-> f[j]]
  <1> DEFINE f == CHOOSE f : Filters(c, start, f, Lanes)
  <1>1. Lanes \in Nat
    BY ValuesAssumption
  <1>2. Filters(c, start, f, Lanes)
    BY <1>1, FilterExists, Zenon
  <1>3. Response(c, start) = [j \in 0 .. Lanes - 1 |-> f[j]]
    BY Zenon DEF Response, Filters, FilterValue
  <1> HIDE DEF f
  <1>4. \A j \in -2 .. Lanes - 1 : f[j] \in RationalNumbers
    BY <1>1, <1>2, FilterTypes
  <1> QED
    BY <1>2, <1>3, <1>4
LEMMA MagnitudeScaled ==
  ASSUME NEW n \in Int, NEW e \in Int, e > 0
  PROVE  Magnitude(n * e) = Magnitude(n) * e
  <1>1. CASE n < 0
    <2>1. n * e < 0 /\ -(n * e) = (-n) * e
      BY <1>1
    <2> QED
      BY <1>1, <2>1 DEF Magnitude
  <1>2. CASE n >= 0
    <2>1. n * e >= 0
      BY <1>2
    <2> QED
      BY <1>2, <2>1 DEF Magnitude
  <1> QED
    BY <1>1, <1>2
(* A sample of the response over a common denominator: what it is multiplied by *)
(* does not depend on the samples before.                                       *)
LEMMA CombinedValue ==
  ASSUME NEW a \in RationalNumbers, NEW b \in RationalNumbers, NEW x, NEW y,
         NEW k \in Int, NEW l \in Int, NEW e \in Int, NEW f \in Int, e > 0, f > 0,
         Value(x, k, e), Value(y, l, f)
  PROVE  Value(Plus(Times(a, x), Times(b, y)),
               ((b[2] * f) * a[1]) * k + ((a[2] * e) * b[1]) * l, (a[2] * e) * (b[2] * f))
  <1> DEFINE u == a[2] * e
             w == b[2] * f
  <1>1. /\ a[1] \in Int /\ a[2] \in Int /\ a[2] > 0
        /\ b[1] \in Int /\ b[2] \in Int /\ b[2] > 0
    BY RationalParts
  <1>2. Value(a, a[1], a[2]) /\ Value(b, b[1], b[2])
    BY DEF Value
  <1>3. Value(Times(a, x), a[1] * k, u) /\ Value(Times(b, y), b[1] * l, w)
    BY <1>1, <1>2, TimesValue
  <1>4. u \in Int /\ w \in Int /\ u > 0 /\ w > 0 /\ a[1] * k \in Int /\ b[1] * l \in Int
    BY <1>1
  <1> HIDE DEF u, w
  <1>5. Value(Times(a, x), w * (a[1] * k), w * u) /\ Value(Times(b, y), u * (b[1] * l), u * w)
    BY <1>3, <1>4, ScaledValue
  <1>6. /\ w * u = u * w /\ w * (a[1] * k) = (w * a[1]) * k /\ u * (b[1] * l) = (u * b[1]) * l
        /\ u * w \in Int /\ u * w > 0 /\ (w * a[1]) * k \in Int /\ (u * b[1]) * l \in Int
    BY <1>1, <1>4
  <1>7. Value(Times(a, x), (w * a[1]) * k, u * w) /\ Value(Times(b, y), (u * b[1]) * l, u * w)
    BY <1>5, <1>6
  <1>8. Value(Plus(Times(a, x), Times(b, y)), (w * a[1]) * k + (u * b[1]) * l, u * w)
    BY <1>6, <1>7, PlusValue
  <1> QED
    BY <1>8 DEF u, w

(***************************************************************************)
(* A filter is linear: its response to s0 and s1 is made of those to the   *)
(* starts of the two vectors, sample by sample.                            *)
(***************************************************************************)
Tied(f, f0, f1, s0, s1, j) ==
    \E e \in Nat \ {0}, k, k0, k1 \in Int :
        /\ Value(f[j], k, e) /\ Value(f0[j], k0, e) /\ Value(f1[j], k1, e)
        /\ Scale * k = s0 * k0 + s1 * k1

LEMMA TiedStep ==
  ASSUME NEW c \in Coefficients, NEW s0 \in Int, NEW s1 \in Int, NEW f, NEW f0, NEW f1,
         NEW j \in Int, Tied(f, f0, f1, s0, s1, j - 1), Tied(f, f0, f1, s0, s1, j - 2),
         \A g \in {f, f0, f1} : g[j] = Plus(Times(c[0], g[j - 1]), Times(c[1], g[j - 2]))
  PROVE  Tied(f, f0, f1, s0, s1, j)
  <1>1. PICK e \in Nat \ {0}, k \in Int, k0 \in Int, k1 \in Int :
          /\ Value(f[j - 1], k, e) /\ Value(f0[j - 1], k0, e) /\ Value(f1[j - 1], k1, e)
          /\ Scale * k = s0 * k0 + s1 * k1
    BY DEF Tied
  <1>2. PICK d \in Nat \ {0}, l \in Int, l0 \in Int, l1 \in Int :
          /\ Value(f[j - 2], l, d) /\ Value(f0[j - 2], l0, d) /\ Value(f1[j - 2], l1, d)
          /\ Scale * l = s0 * l0 + s1 * l1
    BY DEF Tied
  <1> DEFINE a == c[0]
             b == c[1]
             A == (b[2] * d) * a[1]
             B == (a[2] * e) * b[1]
             E == (a[2] * e) * (b[2] * d)
  <1>3. a \in RationalNumbers /\ b \in RationalNumbers
    BY DEF Coefficients
  <1> HIDE DEF a, b
  <1>4. /\ a[1] \in Int /\ a[2] \in Int /\ a[2] > 0
        /\ b[1] \in Int /\ b[2] \in Int /\ b[2] > 0
    BY <1>3, RationalParts
  <1>5. e \in Int /\ e > 0 /\ d \in Int /\ d > 0
    OBVIOUS
  <1>6. A \in Int /\ B \in Int /\ E \in Nat \ {0}
    <2>1. a[2] * e \in Int /\ a[2] * e > 0 /\ b[2] * d \in Int /\ b[2] * d > 0
      BY <1>4, <1>5
    <2> QED
      BY <1>4, <2>1
  <1>7. /\ Value(Plus(Times(a, f[j - 1]), Times(b, f[j - 2])), A * k + B * l, E)
        /\ Value(Plus(Times(a, f0[j - 1]), Times(b, f0[j - 2])), A * k0 + B * l0, E)
        /\ Value(Plus(Times(a, f1[j - 1]), Times(b, f1[j - 2])), A * k1 + B * l1, E)
    BY <1>1, <1>2, <1>3, <1>5, CombinedValue
  <1> HIDE DEF A, B, E
  <1>8. /\ Value(f[j], A * k + B * l, E) /\ Value(f0[j], A * k0 + B * l0, E)
        /\ Value(f1[j], A * k1 + B * l1, E)
    BY <1>7 DEF a, b
  <1>9. Scale * (A * k + B * l) = s0 * (A * k0 + B * l0) + s1 * (A * k1 + B * l1)
    <2>1. Scale \in Int
      BY ValuesAssumption
    <2>2. Scale * (A * k + B * l) = A * (Scale * k) + B * (Scale * l)
      BY <1>6, <2>1
    <2>3. A * (s0 * k0 + s1 * k1) + B * (s0 * l0 + s1 * l1)
            = s0 * (A * k0 + B * l0) + s1 * (A * k1 + B * l1)
      BY <1>6
    <2> QED
      BY <1>1, <1>2, <2>2, <2>3
  <1>10. A * k + B * l \in Int /\ A * k0 + B * l0 \in Int /\ A * k1 + B * l1 \in Int
    BY <1>6
  <1> QED
    BY <1>6, <1>8, <1>9, <1>10 DEF Tied

LEMMA ResponseIsLinear ==
  ASSUME NEW c \in Coefficients, NEW s0 \in Int, NEW s1 \in Int, NEW f, NEW f0, NEW f1,
         Filters(c, <<s0, s1>>, f, Lanes), Filters(c, <<Scale, 0>>, f0, Lanes),
         Filters(c, <<0, Scale>>, f1, Lanes)
  PROVE  \A j \in -2 .. Lanes - 1 : Tied(f, f0, f1, s0, s1, j)
  <1> DEFINE T(j) == Tied(f, f0, f1, s0, s1, j)
             P == {k \in Nat : k - 2 < Lanes => T(k - 2)}
  <1>1. Lanes \in Nat /\ Lanes > 0 /\ Scale \in Int
    BY ValuesAssumption
  <1>2. \A j \in -2 .. Lanes - 1 : /\ f[j] = FilterValue(c, <<s0, s1>>, f, j)
                                   /\ f0[j] = FilterValue(c, <<Scale, 0>>, f0, j)
                                   /\ f1[j] = FilterValue(c, <<0, Scale>>, f1, j)
    BY Zenon DEF Filters
  <1>3. ASSUME NEW k \in Nat, \A m \in 0 .. k - 1 : m \in P
        PROVE  k \in P
    <2> SUFFICES ASSUME k - 2 < Lanes PROVE T(k - 2)
      <3> HIDE DEF T
      <3> QED
        OBVIOUS
    <2> DEFINE j == k - 2
    <2>1. j \in -2 .. Lanes - 1
      BY <1>1
    <2>2. CASE j = -2
      <3>1. f[j] = Whole(s0) /\ f0[j] = Whole(Scale) /\ f1[j] = Whole(0)
        BY <1>2, <2>1, <2>2 DEF FilterValue
      <3> HIDE DEF j
      <3>2. Value(f[j], s0, 1) /\ Value(f0[j], Scale, 1) /\ Value(f1[j], 0, 1)
        BY <1>1, <3>1, WholeIs DEF Value
      <3>3. Scale * s0 = s0 * Scale + s1 * 0
        BY <1>1
      <3>4. Tied(f, f0, f1, s0, s1, j)
        BY <1>1, <3>2, <3>3 DEF Tied
      <3> QED
        BY <3>4 DEF j
    <2>3. CASE j = -1
      <3>1. f[j] = Whole(s1) /\ f0[j] = Whole(0) /\ f1[j] = Whole(Scale)
        BY <1>2, <2>1, <2>3 DEF FilterValue
      <3> HIDE DEF j
      <3>2. Value(f[j], s1, 1) /\ Value(f0[j], 0, 1) /\ Value(f1[j], Scale, 1)
        BY <1>1, <3>1, WholeIs DEF Value
      <3>3. Scale * s1 = s0 * 0 + s1 * Scale
        BY <1>1
      <3>4. Tied(f, f0, f1, s0, s1, j)
        BY <1>1, <3>2, <3>3 DEF Tied
      <3> QED
        BY <3>4 DEF j
    <2>4. CASE j >= 0
      <3>1. T(j - 1) /\ T(j - 2)
        <4>1. /\ k - 1 \in 0 .. k - 1 /\ k - 2 \in 0 .. k - 1
              /\ (k - 1) - 2 = j - 1 /\ (k - 2) - 2 = j - 2
          BY <2>4
        <4>2. (k - 1) - 2 < Lanes /\ (k - 2) - 2 < Lanes
          BY <1>1
        <4> HIDE DEF T
        <4>3. T((k - 1) - 2) /\ T((k - 2) - 2)
          BY <1>3, <4>1, <4>2
        <4> QED
          BY <4>1, <4>3
      <3>2. /\ f[j] = Plus(Times(c[0], f[j - 1]), Times(c[1], f[j - 2]))
            /\ f0[j] = Plus(Times(c[0], f0[j - 1]), Times(c[1], f0[j - 2]))
            /\ f1[j] = Plus(Times(c[0], f1[j - 1]), Times(c[1], f1[j - 2]))
        <4>1. ~(j < 0)
          BY <2>4
        <4> HIDE DEF j
        <4> QED
          BY <1>2, <2>1, <4>1, Zenon DEF FilterValue
      <3>3. j \in Int
        OBVIOUS
      <3> HIDE DEF j
      <3>4. Tied(f, f0, f1, s0, s1, j)
        BY <3>1, <3>2, <3>3, TiedStep
      <3> QED
        BY <3>4 DEF j
    <2> QED
      <3>1. j = -2 \/ j = -1 \/ j >= 0
        BY <2>1
      <3> HIDE DEF T
      <3> QED
        BY <2>2, <2>3, <2>4, <3>1
  <1>4. Nat \subseteq P
    <2> HIDE DEF P
    <2> QED
      BY <1>3, StrongInduction, Zenon
  <1>5. ASSUME NEW j \in -2 .. Lanes - 1 PROVE T(j)
    <2>1. j + 2 \in Nat /\ (j + 2) - 2 = j /\ j < Lanes
      BY <1>1
    <2> HIDE DEF T
    <2> QED
      BY <1>4, <2>1
  <1> QED
    BY <1>5

(* Two entries, off by half a unit at most, times what they are multiplied by. *)
LEMMA RoundedSum ==
  ASSUME NEW s0 \in Int, NEW s1 \in Int, NEW x0 \in Int, NEW x1 \in Int, NEW e \in Int, e > 0,
         -e <= 2 * x0, 2 * x0 <= e, -e <= 2 * x1, 2 * x1 <= e
  PROVE  2 * Magnitude(s0 * x0 + s1 * x1) <= (Magnitude(s0) + Magnitude(s1)) * e
  <1>1. ASSUME NEW s \in Int, NEW x \in Int, -e <= 2 * x, 2 * x <= e
        PROVE  /\ 2 * (s * x) <= Magnitude(s) * e /\ -(Magnitude(s) * e) <= 2 * (s * x)
               /\ s * x \in Int /\ Magnitude(s) \in Int /\ Magnitude(s) * e \in Int
    <2>1. CASE s >= 0
      <3>1. s * (e - 2 * x) >= 0 /\ s * (e - 2 * x) = s * e - 2 * (s * x)
        BY <1>1, <2>1
      <3>2. s * (e + 2 * x) >= 0 /\ s * (e + 2 * x) = s * e + 2 * (s * x)
        BY <1>1, <2>1
      <3>3. Magnitude(s) = s
        BY <2>1 DEF Magnitude
      <3> QED
        BY <3>1, <3>2, <3>3
    <2>2. CASE s < 0
      <3>1. (-s) * (e - 2 * x) >= 0 /\ (-s) * (e - 2 * x) = (-s) * e + 2 * (s * x)
        BY <1>1, <2>2
      <3>2. (-s) * (e + 2 * x) >= 0 /\ (-s) * (e + 2 * x) = (-s) * e - 2 * (s * x)
        BY <1>1, <2>2
      <3>3. Magnitude(s) = -s
        BY <2>2 DEF Magnitude
      <3> QED
        BY <3>1, <3>2, <3>3
    <2> QED
      BY <2>1, <2>2
  <1>2. /\ 2 * (s0 * x0) <= Magnitude(s0) * e /\ -(Magnitude(s0) * e) <= 2 * (s0 * x0)
        /\ 2 * (s1 * x1) <= Magnitude(s1) * e /\ -(Magnitude(s1) * e) <= 2 * (s1 * x1)
        /\ s0 * x0 \in Int /\ s1 * x1 \in Int /\ Magnitude(s0) * e \in Int
        /\ Magnitude(s1) * e \in Int /\ Magnitude(s0) \in Int /\ Magnitude(s1) \in Int
    BY <1>1
  <1>3. (Magnitude(s0) + Magnitude(s1)) * e = Magnitude(s0) * e + Magnitude(s1) * e
    BY <1>2
  <1> DEFINE y == s0 * x0 + s1 * x1
  <1>4. Magnitude(y) = y \/ Magnitude(y) = -y
    BY DEF Magnitude
  <1> QED
    BY <1>2, <1>3, <1>4

(***************************************************************************)
(* The vectors of coefficients predict what the coefficients do, for any   *)
(* two samples, but for rounding.                                          *)
(***************************************************************************)
LEMMA VectorsPredict ==
  ASSUME NEW c \in Coefficients, NEW s0 \in Int, NEW s1 \in Int, NEW j \in 0 .. Lanes - 1,
         MakeVector(c, 0)[j] \notin {MaxSample, -MaxSample - 1},
         MakeVector(c, 1)[j] \notin {MaxSample, -MaxSample - 1}
  PROVE  LET d == Minus(Whole(s0 * MakeVector(c, 0)[j] + s1 * MakeVector(c, 1)[j]),
                        Times(Whole(Scale), Response(c, <<s0, s1>>)[j]))
         IN  2 * Magnitude(d[1]) <= (Magnitude(s0) + Magnitude(s1)) * d[2]
  <1> DEFINE v0 == MakeVector(c, 0)[j]
             v1 == MakeVector(c, 1)[j]
             x == Response(c, <<s0, s1>>)[j]
             d == Minus(Whole(s0 * v0 + s1 * v1), Times(Whole(Scale), x))
  <1>1. Scale \in Int /\ Lanes \in Nat /\ 0 \in Int
    BY ValuesAssumption
  <1>2. PICK f : /\ Filters(c, <<s0, s1>>, f, Lanes)
                 /\ Response(c, <<s0, s1>>) = [i \in 0 .. Lanes - 1 |-> f[i]]
    <2>1. <<s0, s1>>[1] \in Int /\ <<s0, s1>>[2] \in Int
      OBVIOUS
    <2> QED
      BY <2>1, ResponseFilters, Zenon
  <1>3. PICK f0 : /\ Filters(c, <<Scale, 0>>, f0, Lanes)
                  /\ \A i \in -2 .. Lanes - 1 : f0[i] \in RationalNumbers
                  /\ Response(c, <<Scale, 0>>) = [i \in 0 .. Lanes - 1 |-> f0[i]]
    <2>1. <<Scale, 0>>[1] \in Int /\ <<Scale, 0>>[2] \in Int
      BY <1>1
    <2> QED
      BY <2>1, ResponseFilters, Zenon
  <1>4. PICK f1 : /\ Filters(c, <<0, Scale>>, f1, Lanes)
                  /\ \A i \in -2 .. Lanes - 1 : f1[i] \in RationalNumbers
                  /\ Response(c, <<0, Scale>>) = [i \in 0 .. Lanes - 1 |-> f1[i]]
    <2>1. <<0, Scale>>[1] \in Int /\ <<0, Scale>>[2] \in Int
      BY <1>1
    <2> QED
      BY <2>1, ResponseFilters, Zenon
  <1>5. j \in -2 .. Lanes - 1
    OBVIOUS
  <1>6. PICK e \in Nat \ {0}, k \in Int, k0 \in Int, k1 \in Int :
          /\ Value(f[j], k, e) /\ Value(f0[j], k0, e) /\ Value(f1[j], k1, e)
          /\ Scale * k = s0 * k0 + s1 * k1
    <2>1. Tied(f, f0, f1, s0, s1, j)
      BY <1>2, <1>3, <1>4, <1>5, ResponseIsLinear
    <2> QED
      BY <2>1 DEF Tied
  <1>7. x = f[j] /\ v0 = Clamped(f0[j]) /\ v1 = Clamped(f1[j])
    BY <1>2, <1>3, <1>4 DEF MakeVector, StartOf
  <1>8. /\ f0[j] \in RationalNumbers /\ f1[j] \in RationalNumbers /\ e \in Int /\ e > 0
    BY <1>3, <1>4, <1>5
  <1> HIDE DEF v0, v1, x
  <1>9. /\ v0 \in Int /\ -e <= 2 * (v0 * e - k0) /\ 2 * (v0 * e - k0) <= e
        /\ v1 \in Int /\ -e <= 2 * (v1 * e - k1) /\ 2 * (v1 * e - k1) <= e
    BY <1>6, <1>7, <1>8, ClampedIs DEF v0, v1
  <1> DEFINE W == s0 * v0 + s1 * v1
             N == W * e - Scale * k
  <1>10. W \in Int /\ W * e \in Int /\ Scale * k \in Int /\ N \in Int
    BY <1>1, <1>9
  <1>11. Value(Whole(W), W * e, e)
    BY <1>8, <1>10, WholeValue
  <1>12. Value(Times(Whole(Scale), x), Scale * k, e)
    <2>1. Value(Whole(Scale), Scale, 1)
      BY <1>1, WholeIs DEF Value
    <2>2. Value(Times(Whole(Scale), f[j]), Scale * k, 1 * e)
      BY <1>1, <1>6, <1>8, <2>1, TimesValue
    <2>3. 1 * e = e
      BY <1>8
    <2> QED
      BY <1>7, <2>2, <2>3
  <1> HIDE DEF W
  <1>13. Value(d, N, e)
    BY <1>8, <1>10, <1>11, <1>12, MinusValue DEF W
  <1>14. 2 * Magnitude(N) <= (Magnitude(s0) + Magnitude(s1)) * e
    <2>1. N = s0 * (v0 * e - k0) + s1 * (v1 * e - k1)
      BY <1>6, <1>8, <1>9 DEF W
    <2>2. v0 * e - k0 \in Int /\ v1 * e - k1 \in Int
      BY <1>8, <1>9
    <2> QED
      BY <1>8, <1>9, <2>1, <2>2, RoundedSum
  <1> HIDE DEF N, d
  <1>15. d[1] \in Int /\ d[2] \in Int /\ d[2] > 0 /\ d[1] * e = N * d[2]
    BY <1>13, RationalParts DEF Value
  <1> DEFINE S == Magnitude(s0) + Magnitude(s1)
  <1>16. S \in Int /\ Magnitude(N) \in Int /\ Magnitude(d[1]) \in Int
    BY <1>10, <1>15 DEF Magnitude
  <1> HIDE DEF S
  <1>17. Magnitude(d[1]) * e = Magnitude(N) * d[2]
    <2>1. Magnitude(d[1] * e) = Magnitude(d[1]) * e /\ Magnitude(N * d[2]) = Magnitude(N) * d[2]
      BY <1>8, <1>10, <1>15, MagnitudeScaled
    <2> QED
      BY <1>15, <2>1
  <1>18. (2 * Magnitude(N)) * d[2] <= (S * e) * d[2]
    <2>1. 2 * Magnitude(N) <= S * e
      BY <1>14 DEF S
    <2>2. 2 * Magnitude(N) \in Int /\ S * e \in Int
      BY <1>8, <1>16
    <2> QED
      BY <1>15, <2>1, <2>2, ScaledUp
  <1>19. (2 * Magnitude(d[1])) * e <= (S * d[2]) * e
    <2>1. (2 * Magnitude(d[1])) * e = (2 * Magnitude(N)) * d[2]
      BY <1>8, <1>15, <1>16, <1>17
    <2>2. (S * e) * d[2] = (S * d[2]) * e
      BY <1>8, <1>15, <1>16
    <2> QED
      BY <1>18, <2>1, <2>2
  <1>20. 2 * Magnitude(d[1]) <= S * d[2]
    <2>1. 2 * Magnitude(d[1]) \in Int /\ S * d[2] \in Int
      BY <1>15, <1>16
    <2> QED
      BY <1>8, <1>19, <2>1, ScaledUp
  <1> QED
    BY <1>20 DEF S, d, v0, v1, x
(* The codebook is of the assignment and the sums that there still are. *)
Made ==
    src # NoSound =>
        /\ pc = "assigned" => corr \in [Frames -> Sums]
        /\ pc = "done" /\ ret = "ok" =>
             /\ codebook = MakeCodebook
             /\ frame_count > 0 => corr \in [Frames -> Sums]

(* What MakeCodebook is made of. *)
LEMMA SameCodebook ==
  ASSUME UNCHANGED <<frame_count, predictor_count, predictors, corr>>
  PROVE  MakeCodebook' = MakeCodebook
  BY DEF MakeCodebook, MembersOf, SumCorr, Frames

LEMMA NoMembers ==
  ASSUME NEW p, frame_count = 0
  PROVE  MembersOf(p) = {}
  BY DEF MembersOf, Frames

LEMMA MadeStep ==
  ASSUME VInv, Made, src # NoSound, ValuesStep
  PROVE  Made'
  <1> USE DEF Made
  <1>1. src' = src
    BY DEF ValuesStep, Autocorrelate, FindBestErrors, SplitWorst, RefinePredictors,
       EncodeFrames, EncodeNothing, values
  <1>2. CASE Autocorrelate \/ FindBestErrors \/ SplitWorst \/ RefinePredictors
    BY <1>1, <1>2 DEF Autocorrelate, FindBestErrors, SplitWorst, RefinePredictors, Malloc
  <1>3. CASE EncodeFrames
    <2>1. /\ pc = "assigned" /\ pc' = "done" /\ ret' = (IF ret = "none" THEN "ok" ELSE ret)
          /\ UNCHANGED <<frame_count, predictor_count, predictors, corr>>
          /\ codebook' = IF MayEncode THEN MakeCodebook ELSE codebook
      BY <1>3 DEF EncodeFrames, Finish, Return, assigned
    <2>2. ret' = "ok" => codebook' = MakeCodebook
      BY <2>1 DEF MayEncode, VInv, IInv, Pending
    <2>3. ret' = "ok" => codebook' = MakeCodebook'
      BY <2>1, <2>2, SameCodebook
    <2>4. Frames' = Frames /\ corr' = corr /\ corr \in [Frames -> Sums]
      BY <2>1 DEF Frames
    <2> QED
      BY <1>1, <2>1, <2>3, <2>4
  <1>4. CASE EncodeNothing
    <2>1. /\ pc' = "done" /\ frame_count = 0
          /\ UNCHANGED <<frame_count, predictor_count, predictors, corr>>
          /\ codebook' = [p \in 0 .. predictor_count - 1 |-> [n \in 0 .. 1 |-> ZeroVector]]
      BY <1>4 DEF EncodeNothing, NoFrames, Return, assigned
    <2>2. codebook' = MakeCodebook
      BY <2>1, NoMembers DEF MakeCodebook
    <2>3. codebook' = MakeCodebook'
      BY <2>1, <2>2, SameCodebook
    <2> QED
      BY <1>1, <2>1, <2>3
  <1>5. CASE /\ \/ BadParams \/ TooManyFrames \/ CheckParams \/ Malloc("corr", "predictors")
                \/ Malloc("error", "iterate")
                \/ \E block \in {"corr", "predictors", "best_error", "error"} :
                     MallocFails(block)
                \/ BeginAssign \/ Iterate \/ EndAssign
             /\ UNCHANGED values
    <2>1. corr' = corr
      BY <1>5 DEF values
    <2>2. CASE BadParams \/ TooManyFrames \/ CheckParams
      BY <1>1, <2>2 DEF BadParams, TooManyFrames, CheckParams, Return
    <2>3. CASE Malloc("corr", "predictors") \/ Malloc("error", "iterate")
      BY <1>1, <2>3 DEF Malloc
    <2>4. CASE \E block \in {"corr", "predictors", "best_error", "error"} : MallocFails(block)
      <3>1. Frames' = Frames /\ ret' = "memory"
        BY <2>4 DEF MallocFails, Return, Frames
      <3>2. pc' = "assigned" => pc \in {"best_error", "error"}
        BY <2>4 DEF MallocFails, Return
      <3> QED
        BY <1>1, <2>1, <3>1, <3>2 DEF VInv, Valued
    <2>5. CASE BeginAssign \/ Iterate \/ EndAssign
      <3>1. Frames' = Frames /\ pc' # "done" /\ (pc' = "assigned" => pc \in {"assign", "iterate"})
        BY <2>5 DEF BeginAssign, Iterate, EndAssign, Frames
      <3> QED
        BY <1>1, <2>1, <3>1 DEF VInv, Valued
    <2> QED
      BY <1>5, <2>2, <2>3, <2>4, <2>5
  <1> QED
    BY <1>2, <1>3, <1>4, <1>5 DEF ValuesStep

(* The codebook of a call that succeeded is made of the coefficients of its predictors. *)
THEOREM CodebookIsMade == ValuesSpec => []Made
  <1>1. ValuesInit => Made
    BY DEF ValuesInit, Init, Made
  <1>2. VInv /\ Made /\ [ValuesNext]_valueVars => Made'
    <2> SUFFICES ASSUME VInv, Made, [ValuesNext]_valueVars PROVE Made'
      OBVIOUS
    <2>1. CASE src # NoSound /\ ValuesStep
      BY <2>1, MadeStep
    <2>2. CASE src = NoSound /\ UNCHANGED values
      BY <2>2 DEF Made, values
    <2>3. CASE UNCHANGED valueVars
      <3>1. /\ UNCHANGED <<frame_count, predictor_count, predictors, corr>>
            /\ UNCHANGED <<pc, ret, src, codebook>> /\ Frames' = Frames
        BY <2>3 DEF valueVars, vars, values, assigned, Frames
      <3>2. MakeCodebook' = MakeCodebook
        BY <3>1, SameCodebook
      <3> QED
        BY <3>1, <3>2 DEF Made
    <2> QED
      BY <2>1, <2>2, <2>3 DEF ValuesNext
  <1> QED
    BY <1>1, <1>2, ValuesInvariant, PTL DEF ValuesSpec

LEMMA MadePredicts ==
  ASSUME Made, IInv
  PROVE  CodebookPredicts
  <1> SUFFICES ASSUME src # NoSound, pc = "done", ret = "ok",
                      NEW p \in 0 .. predictor_count - 1, MembersOf(p) # {},
                      NEW s0 \in {-1, 0, 2}, NEW s1 \in {-1, 0, 2},
                      NEW j \in 0 .. Lanes - 1
               PROVE  LET v == [n \in 0 .. 1 |-> codebook[p][n][j]]
                          exact == Response(Solve(SumCorr(p)), <<s0, s1>>)[j]
                          d == Minus(Whole(s0 * v[0] + s1 * v[1]), Times(Whole(Scale), exact))
                      IN  \/ \E n \in 0 .. 1 : v[n] \in {MaxSample, -MaxSample - 1}
                          \/ 2 * Magnitude(d[1])
                               <= (Magnitude(s0) + Magnitude(s1)) * d[2]
    BY Zenon DEF CodebookPredicts
  <1> DEFINE c == Solve(SumCorr(p))
             v == [n \in 0 .. 1 |-> codebook[p][n][j]]
             d == Minus(Whole(s0 * v[0] + s1 * v[1]),
                        Times(Whole(Scale), Response(c, <<s0, s1>>)[j]))
  <1>1. frame_count \in Nat /\ frame_count > 0
    BY NoMembers DEF IInv, TypeOK
  <1>2. corr \in [Frames -> Sums] /\ codebook = MakeCodebook
    BY <1>1 DEF Made
  <1>3. c \in Coefficients
    BY <1>1, <1>2, SumCorrIs, SolveIs
  <1>4. codebook[p] = [n \in 0 .. 1 |-> MakeVector(c, n)]
    BY <1>2 DEF MakeCodebook
  <1> HIDE DEF c
  <1>5. v[0] = MakeVector(c, 0)[j] /\ v[1] = MakeVector(c, 1)[j]
    BY <1>4
  <1>6. s0 \in Int /\ s1 \in Int
    OBVIOUS
  <1> HIDE DEF v
  <1>7. \/ \E n \in 0 .. 1 : v[n] \in {MaxSample, -MaxSample - 1}
        \/ 2 * Magnitude(d[1]) <= (Magnitude(s0) + Magnitude(s1)) * d[2]
    <2>1. CASE \E n \in 0 .. 1 : v[n] \in {MaxSample, -MaxSample - 1}
      BY <2>1
    <2>2. CASE ~\E n \in 0 .. 1 : v[n] \in {MaxSample, -MaxSample - 1}
      <3>1. /\ MakeVector(c, 0)[j] \notin {MaxSample, -MaxSample - 1}
            /\ MakeVector(c, 1)[j] \notin {MaxSample, -MaxSample - 1}
        BY <1>5, <2>2
      <3>2. d = Minus(Whole(s0 * MakeVector(c, 0)[j] + s1 * MakeVector(c, 1)[j]),
                      Times(Whole(Scale), Response(c, <<s0, s1>>)[j]))
        BY <1>5
      <3> HIDE DEF d
      <3> QED
        BY <1>3, <1>6, <3>1, <3>2, VectorsPredict
    <2> QED
      BY <2>1, <2>2
  <1> QED
    BY <1>7, Zenon DEF v, c

(***************************************************************************)
(* The vectors of the codebook predict what the coefficients of their      *)
(* frames do, to half a unit for each of the two samples before, for every *)
(* sound and in every place of a vector (vadpcm_make_vectors).             *)
(***************************************************************************)
THEOREM VectorsAreRight == ValuesSpec => []CodebookPredicts
  <1>1. Made /\ VInv => CodebookPredicts
    BY MadePredicts DEF VInv
  <1> QED
    BY <1>1, CodebookIsMade, ValuesInvariant, PTL
---------------------------------------------------------------------------------
(* The error of a frame's own coefficients is the least *)

(***************************************************************************)
(* Of samples a, b and c apart by one and two, what (u a + v b + w c)^2    *)
(* adds up to, in a frame, is made of its sums.  So it is never negative.  *)
(***************************************************************************)
Form(m, u, v, w) ==
    (((u * u) * m[0] + (v * v) * m[2]) + (w * w) * m[5])
    + 2 * (((u * v) * m[1] + (u * w) * m[3]) + (v * w) * m[4])

SemiDefinite(m) == \A u, v, w \in Int : Form(m, u, v, w) >= 0

LEMMA SquareForm ==
  ASSUME NEW a \in Int, NEW b \in Int, NEW c \in Int, NEW m,
         m[0] = a * a, m[1] = b * a, m[2] = b * b, m[3] = c * a, m[4] = c * b, m[5] = c * c,
         NEW u \in Int, NEW v \in Int, NEW w \in Int
  PROVE  Form(m, u, v, w) >= 0
  <1> DEFINE x == u * a
             y == v * b
             z == w * c
  <1>1. x \in Int /\ y \in Int /\ z \in Int
    OBVIOUS
  <1>2. /\ (u * u) * (a * a) = x * x /\ (v * v) * (b * b) = y * y /\ (w * w) * (c * c) = z * z
        /\ (u * v) * (b * a) = x * y /\ (u * w) * (c * a) = x * z /\ (v * w) * (c * b) = y * z
    OBVIOUS
  <1> HIDE DEF x, y, z
  <1>3. Form(m, u, v, w) = ((x * x + y * y) + z * z) + 2 * ((x * y + x * z) + y * z)
    BY <1>2 DEF Form
  <1>4. ((x * x + y * y) + z * z) + 2 * ((x * y + x * z) + y * z)
          = ((x + y) + z) * ((x + y) + z)
    BY <1>1
  <1> DEFINE t == (x + y) + z
  <1>5. t \in Int
    BY <1>1
  <1> HIDE DEF t
  <1>6. t * t >= 0
    <2>1. CASE t >= 0
      BY <1>5, <2>1
    <2>2. CASE t < 0
      <3>1. (-t) * (-t) >= 0 /\ (-t) * (-t) = t * t
        BY <1>5, <2>2
      <3> QED
        BY <3>1
    <2> QED
      BY <1>5, <2>1, <2>2
  <1> QED
    BY <1>3, <1>4, <1>6 DEF t

LEMMA FormAdds ==
  ASSUME NEW m \in Sums, NEW t \in Sums, NEW s \in Sums,
         \A j \in 0 .. 5 : s[j] = m[j] + t[j],
         NEW u \in Int, NEW v \in Int, NEW w \in Int
  PROVE  /\ Form(s, u, v, w) = Form(m, u, v, w) + Form(t, u, v, w)
         /\ Form(m, u, v, w) \in Int /\ Form(t, u, v, w) \in Int
  <1>1. \A j \in 0 .. 5 : m[j] \in Int /\ t[j] \in Int
    BY DEF Sums
  <1> DEFINE Scaled(k) ==
               /\ k * s[0] = k * m[0] + k * t[0] /\ k * m[0] \in Int /\ k * t[0] \in Int
               /\ k * s[1] = k * m[1] + k * t[1] /\ k * m[1] \in Int /\ k * t[1] \in Int
               /\ k * s[2] = k * m[2] + k * t[2] /\ k * m[2] \in Int /\ k * t[2] \in Int
               /\ k * s[3] = k * m[3] + k * t[3] /\ k * m[3] \in Int /\ k * t[3] \in Int
               /\ k * s[4] = k * m[4] + k * t[4] /\ k * m[4] \in Int /\ k * t[4] \in Int
               /\ k * s[5] = k * m[5] + k * t[5] /\ k * m[5] \in Int /\ k * t[5] \in Int
  <1>2. ASSUME NEW k \in Int PROVE Scaled(k)
    <2>1. \A i, j \in Int : k * (i + j) = k * i + k * j /\ k * i \in Int
      OBVIOUS
    <2> QED
      BY <1>1, <2>1
  <1> HIDE DEF Scaled
  <1>3. /\ u * u \in Int /\ v * v \in Int /\ w * w \in Int /\ u * v \in Int /\ u * w \in Int
        /\ v * w \in Int
    OBVIOUS
  <1>4. /\ Scaled(u * u) /\ Scaled(v * v) /\ Scaled(w * w)
        /\ Scaled(u * v) /\ Scaled(u * w) /\ Scaled(v * w)
    BY <1>2, <1>3
  <1> QED
    BY <1>4 DEF Scaled, Form

LEMMA AutocorrSemiDefinite ==
  ASSUME src \in Seq(Int), NEW f
  PROVE  SemiDefinite(Autocorr(f))
  <1> DEFINE product(i, j) == SampleAt(i - Lags[j][1]) * SampleAt(i - Lags[j][2])
             terms(j) == [i \in 1 .. FrameSampleCount |-> product(f * FrameSampleCount + i, j)]
             n == FrameSampleCount
             Sum(g, j) == /\ \A i \in 0 .. n : g[i] \in Int
                          /\ g[0] = 0 /\ \A i \in 1 .. n : g[i] = g[i - 1] + terms(j)[i]
                          /\ SumTo(terms(j), n) = g[n]
             part(j) == CHOOSE g : Sum(g, j)
             upto(k) == [j \in 0 .. 5 |-> part(j)[k]]
             term(k) == [j \in 0 .. 5 |-> terms(j)[k]]
  <1>1. \A i : SampleAt(i) \in Int
    BY DEF SampleAt
  <1>2. n \in Nat
    BY ValuesAssumption
  <1>3. \A j : \A i \in 1 .. n : terms(j)[i] = product(f * n + i, j) /\ terms(j)[i] \in Int
    BY <1>1
  <1> HIDE DEF terms
  <1>4. \A j : Sum(part(j), j)
    <2> SUFFICES ASSUME NEW j PROVE \E g : Sum(g, j)
      <3> HIDE DEF Sum
      <3> QED
        BY Zenon
    <2> QED
      BY <1>2, <1>3, PartialSums
  <1> HIDE DEF part
  <1>5. ASSUME NEW k \in 1 .. n, NEW u \in Int, NEW v \in Int, NEW w \in Int
        PROVE  Form(term(k), u, v, w) >= 0
    <2> DEFINE a == SampleAt((f * n + k) - 0)
               b == SampleAt((f * n + k) - 1)
               c == SampleAt((f * n + k) - 2)
    <2>1. a \in Int /\ b \in Int /\ c \in Int
      BY <1>1
    <2>2. /\ product(f * n + k, 0) = a * a /\ product(f * n + k, 1) = b * a
          /\ product(f * n + k, 2) = b * b /\ product(f * n + k, 3) = c * a
          /\ product(f * n + k, 4) = c * b /\ product(f * n + k, 5) = c * c
      <3>1. /\ Lags[0] = <<0, 0>> /\ Lags[1] = <<1, 0>> /\ Lags[2] = <<1, 1>>
            /\ Lags[3] = <<2, 0>> /\ Lags[4] = <<2, 1>> /\ Lags[5] = <<2, 2>>
        BY DEF Lags
      <3>2. /\ Lags[0][1] = 0 /\ Lags[0][2] = 0 /\ Lags[1][1] = 1 /\ Lags[1][2] = 0
            /\ Lags[2][1] = 1 /\ Lags[2][2] = 1 /\ Lags[3][1] = 2 /\ Lags[3][2] = 0
            /\ Lags[4][1] = 2 /\ Lags[4][2] = 1 /\ Lags[5][1] = 2 /\ Lags[5][2] = 2
        BY <3>1
      <3> DEFINE i == f * n + k
      <3> HIDE DEF i
      <3>3. /\ product(i, 0) = SampleAt(i - 0) * SampleAt(i - 0)
            /\ product(i, 1) = SampleAt(i - 1) * SampleAt(i - 0)
            /\ product(i, 2) = SampleAt(i - 1) * SampleAt(i - 1)
        BY <3>2
      <3>4. /\ product(i, 3) = SampleAt(i - 2) * SampleAt(i - 0)
            /\ product(i, 4) = SampleAt(i - 2) * SampleAt(i - 1)
            /\ product(i, 5) = SampleAt(i - 2) * SampleAt(i - 2)
        BY <3>2
      <3> HIDE DEF product
      <3> QED
        BY <3>3, <3>4 DEF i
    <2> HIDE DEF product, a, b, c
    <2>3. /\ term(k)[0] = a * a /\ term(k)[1] = b * a /\ term(k)[2] = b * b
          /\ term(k)[3] = c * a /\ term(k)[4] = c * b /\ term(k)[5] = c * c
      BY <1>3, <2>2
    <2> HIDE DEF term
    <2> QED
      BY <2>1, <2>3, SquareForm
  <1>6. \A k \in 0 .. n : upto(k) \in Sums
    BY <1>4 DEF Sums
  <1>7. \A k \in 1 .. n :
          term(k) \in Sums /\ \A j \in 0 .. 5 : upto(k)[j] = upto(k - 1)[j] + term(k)[j]
    BY <1>3, <1>4 DEF Sums
  <1>8. \A j \in 0 .. 5 : upto(0)[j] = 0
    BY <1>4
  <1>9. Autocorr(f) = upto(n)
    <2>1. Autocorr(f) = [j \in 0 .. 5 |-> SumTo(terms(j), n)]
      BY Zenon DEF Autocorr, terms
    <2> QED
      BY <1>4, <2>1
  <1> HIDE DEF upto, term, n
  <1> SUFFICES ASSUME NEW u \in Int, NEW v \in Int, NEW w \in Int
               PROVE  Form(upto(n), u, v, w) >= 0
    BY <1>9 DEF SemiDefinite
  <1> DEFINE P == {k \in Nat : k <= n => Form(upto(k), u, v, w) >= 0}
  <1>10. ASSUME NEW k \in Nat, \A i \in 0 .. k - 1 : i \in P
         PROVE  k \in P
    <2> SUFFICES ASSUME k <= n PROVE Form(upto(k), u, v, w) >= 0
      OBVIOUS
    <2>1. CASE k = 0
      BY <1>8, <2>1 DEF Form
    <2>2. CASE k > 0
      <3>1. k \in 1 .. n /\ k - 1 \in 0 .. n /\ k \in 0 .. n /\ k - 1 \in 0 .. k - 1
        BY <1>2, <2>2
      <3>2. Form(upto(k - 1), u, v, w) >= 0
        BY <1>10, <3>1
      <3>3. Form(term(k), u, v, w) >= 0
        BY <1>5, <3>1
      <3>4. /\ Form(upto(k), u, v, w) = Form(upto(k - 1), u, v, w) + Form(term(k), u, v, w)
            /\ Form(upto(k - 1), u, v, w) \in Int /\ Form(term(k), u, v, w) \in Int
        BY <1>6, <1>7, <3>1, FormAdds
      <3> QED
        BY <3>2, <3>3, <3>4
    <2> QED
      BY <2>1, <2>2
  <1>11. Nat \subseteq P
    <2> HIDE DEF P
    <2> QED
      BY <1>10, StrongInduction, Zenon
  <1> QED
    BY <1>2, <1>11
---------------------------------------------------------------------------------
(* What is never negative *)

LEMMA LinearZero ==
  ASSUME NEW p \in Int, NEW q \in Int, \A t \in Int : p + t * q >= 0
  PROVE  q = 0
  <1> DEFINE t == -((p + 1) * q)
             r == -(q * q)
  <1>1. p >= 0
    <2>1. p + 0 * q >= 0
      OBVIOUS
    <2> QED
      BY <2>1
  <1>2. t \in Int
    OBVIOUS
  <1> HIDE DEF t
  <1>3. p + t * q >= 0
    BY <1>2
  <1>4. t * q = (p + 1) * r
    BY DEF t
  <1> SUFFICES ASSUME q # 0 PROVE FALSE
    OBVIOUS
  <1>5. r \in Int /\ r <= -1
    <2>1. q > 0 => q * q >= 1
      OBVIOUS
    <2>2. -q > 0 => (-q) * (-q) >= 1
      OBVIOUS
    <2>3. (-q) * (-q) = q * q
      OBVIOUS
    <2> QED
      BY <2>1, <2>2, <2>3
  <1> HIDE DEF r
  <1>6. (p + 1) * r <= (p + 1) * (-1)
    <2>1. (p + 1) * (-1 - r) >= 0
      BY <1>1, <1>5
    <2>2. (p + 1) * (-1 - r) = (p + 1) * (-1) - (p + 1) * r
      BY <1>5
    <2>3. (p + 1) * r \in Int
      BY <1>5
    <2> QED
      BY <2>1, <2>2, <2>3
  <1> QED
    BY <1>1, <1>3, <1>4, <1>6

(***************************************************************************)
(* Of the equations a X + b Y = x and b X + c Y = y that the best          *)
(* coefficients solve: where the sums of squares are never negative, a and *)
(* the determinant are not, and what divides by 0 has solutions.           *)
(***************************************************************************)
NeverNegative(i, a, b, c, x, y) ==
    \A u, v, w \in Int : (((u * u) * i + (v * v) * a) + (w * w) * c)
                         + 2 * (((u * v) * x + (u * w) * y) + (v * w) * b) >= 0

LEMMA NormalEquations ==
  ASSUME NEW i \in Int, NEW a \in Int, NEW b \in Int, NEW c \in Int, NEW x \in Int, NEW y \in Int,
         NeverNegative(i, a, b, c, x, y)
  PROVE  /\ a >= 0 /\ c >= 0
         /\ a > 0 => a * c - b * b >= 0
         /\ a = 0 /\ c = 0 => b = 0 /\ x = 0 /\ y = 0
         /\ a > 0 /\ a * c - b * b = 0 => a * y = b * x
  <1> DEFINE G(u, v, w) == (((u * u) * i + (v * v) * a) + (w * w) * c)
                           + 2 * (((u * v) * x + (u * w) * y) + (v * w) * b)
  <1>1. \A u, v, w \in Int : G(u, v, w) >= 0
    BY Zenon DEF NeverNegative
  <1>2. a >= 0 /\ c >= 0
    <2>1. G(0, 1, 0) = a /\ G(0, 0, 1) = c
      OBVIOUS
    <2> HIDE DEF G
    <2>2. G(0, 1, 0) >= 0 /\ G(0, 0, 1) >= 0
      BY <1>1
    <2> QED
      BY <2>1, <2>2
  <1>3. ASSUME a > 0 PROVE a * c - b * b >= 0
    <2> DEFINE d == a * c - b * b
    <2>1. G(0, -b, a) = a * d
      OBVIOUS
    <2>2. -b \in Int /\ d \in Int
      OBVIOUS
    <2> HIDE DEF G, d
    <2>3. a * d >= 0
      BY <1>1, <2>1, <2>2
    <2>4. d < 0 => a * d < 0
      BY <1>3, <2>2
    <2>5. d >= 0
      BY <2>2, <2>3, <2>4
    <2> QED
      BY <2>5 DEF d
  <1>4. ASSUME a = 0, c = 0 PROVE b = 0 /\ x = 0 /\ y = 0
    <2>1. \A t \in Int : /\ G(0, t, 1) = 0 + t * (2 * b)
                         /\ G(1, t, 0) = i + t * (2 * x)
                         /\ G(1, 0, t) = i + t * (2 * y)
      BY <1>4
    <2> HIDE DEF G
    <2>2. /\ \A t \in Int : 0 + t * (2 * b) >= 0
          /\ \A t \in Int : i + t * (2 * x) >= 0
          /\ \A t \in Int : i + t * (2 * y) >= 0
      <3>1. \A t \in Int : G(0, t, 1) >= 0 /\ G(1, t, 0) >= 0 /\ G(1, 0, t) >= 0
        BY <1>1
      <3> QED
        BY <2>1, <3>1
    <2>3. 0 \in Int /\ 2 * b \in Int /\ 2 * x \in Int /\ 2 * y \in Int
      OBVIOUS
    <2>4. 2 * b = 0 /\ 2 * x = 0 /\ 2 * y = 0
      BY <2>2, <2>3, LinearZero
    <2> QED
      BY <2>4
  <1>5. ASSUME a > 0, a * c - b * b = 0 PROVE a * y = b * x
    <2> DEFINE q == 2 * (a * y - b * x)
               d == a * c - b * b
    <2>1. \A t \in Int : G(1, t * (-b), t * a) = (i + t * q) + ((t * t) * a) * d
      OBVIOUS
    <2>2. \A t \in Int : ((t * t) * a) * d = 0
      BY <1>5
    <2>3. q \in Int
      OBVIOUS
    <2> HIDE DEF G, q, d
    <2>4. \A t \in Int : t * (-b) \in Int /\ t * a \in Int
      OBVIOUS
    <2>5. \A t \in Int : i + t * q >= 0
      <3> SUFFICES ASSUME NEW t \in Int PROVE i + t * q >= 0
        OBVIOUS
      <3>1. G(1, t * (-b), t * a) >= 0
        BY <1>1, <2>4
      <3>2. t * q \in Int
        BY <2>3
      <3> QED
        BY <2>1, <2>2, <3>1, <3>2
    <2>6. q = 0
      BY <2>3, <2>5, LinearZero
    <2> QED
      BY <2>6 DEF q
  <1> QED
    BY <1>2, <1>3, <1>4, <1>5
---------------------------------------------------------------------------------
(* vadpcm_solve gives the solution of its equations *)

LEMMA ReducedValue ==
  ASSUME NEW a, NEW n \in Int, NEW e \in Int, NEW k \in Int, k > 0, Value(a, k * n, k * e)
  PROVE  Value(a, n, e)
  <1>1. a[1] \in Int /\ a[2] \in Int /\ a[1] * (k * e) = (k * n) * a[2]
    BY RationalParts DEF Value
  <1>2. (a[1] * e) * k = (n * a[2]) * k /\ a[1] * e \in Int /\ n * a[2] \in Int
    BY <1>1
  <1>3. a[1] * e = n * a[2]
    BY <1>2, Cancelled
  <1> QED
    BY <1>3 DEF Value

LEMMA OverValue ==
  ASSUME NEW a, NEW b, NEW n \in Int, NEW m \in Int, NEW e \in Int, e > 0, m > 0,
         Value(a, n, e), Value(b, m, e)
  PROVE  Value(Over(a, b), n, m)
  <1> DEFINE r == Ratio(b[2], b[1])
  <1>1. b \in RationalNumbers /\ b[1] \in Int /\ b[2] \in Int /\ b[2] > 0 /\ b[1] * e = m * b[2]
    BY RationalParts DEF Value
  <1>2. b[1] > 0
    <2>1. m * b[2] > 0
      BY <1>1
    <2>2. b[1] <= 0 => b[1] * e <= 0
      BY <1>1
    <2> QED
      BY <1>1, <2>1, <2>2
  <1>3. r \in RationalNumbers /\ r[1] * b[1] = b[2] * r[2]
    BY <1>1, <1>2, RatioIs
  <1>4. r[1] \in Int /\ r[2] \in Int
    BY <1>3, RationalParts
  <1> HIDE DEF r
  <1>5. (r[1] * m) * b[2] = (e * r[2]) * b[2]
    <2>1. (r[1] * m) * b[2] = r[1] * (m * b[2]) /\ r[1] * (b[1] * e) = (r[1] * b[1]) * e
      BY <1>1, <1>4
    <2>2. (b[2] * r[2]) * e = (e * r[2]) * b[2]
      BY <1>1, <1>4
    <2> QED
      BY <1>1, <1>3, <2>1, <2>2
  <1>6. Value(r, e, m)
    <2>1. r[1] * m \in Int /\ e * r[2] \in Int
      BY <1>4
    <2>2. r[1] * m = e * r[2]
      BY <1>1, <1>5, <2>1, Cancelled
    <2> QED
      BY <1>3, <2>2 DEF Value
  <1>7. Value(Times(a, r), n * e, e * m)
    BY <1>6, TimesValue
  <1>8. n * e = e * n
    OBVIOUS
  <1>9. Value(Times(a, r), n, m)
    BY <1>7, <1>8, ReducedValue
  <1> QED
    BY <1>9 DEF Over, r

LEMMA MaxIs ==
  ASSUME NEW S, NEW k \in S, \A j \in S : k >= j, S \subseteq Int
  PROVE  Max(S) = k
  <1>1. Max(S) = CHOOSE i \in S : \A j \in S : i >= j
    BY Zenon DEF Max
  <1>2. Max(S) \in S /\ \A j \in S : Max(S) >= j
    BY <1>1, Zenon
  <1>3. Max(S) >= k /\ k >= Max(S) /\ Max(S) \in Int /\ k \in Int
    BY <1>2
  <1> QED
    BY <1>3

(***************************************************************************)
(* The elimination in vadpcm_solve, with numbers over common denominators: *)
(* a is the pivot and d the determinant.                                   *)
(***************************************************************************)
LEMMA Eliminated ==
  ASSUME NEW a \in Int, NEW b \in Int, NEW c \in Int, NEW x \in Int, NEW y \in Int, a > 0
  PROVE  LET d  == a * c - b * b
             b1 == Over(Whole(b), Whole(a))
             x1 == Over(Whole(x), Whole(a))
             c2 == Minus(Whole(c), Times(b1, Whole(b)))
             y2 == Minus(Whole(y), Times(x1, Whole(b)))
             y3 == Over(y2, c2)
         IN  /\ Value(x1, x, a) /\ Value(c2, d, a)
             /\ d > 0 => /\ Value(y3, (y * a - x * b) * a, d * a)
                         /\ Value(Minus(x1, Times(y3, b1)), x * d - (y * a - x * b) * b, d * a)
  <1> DEFINE d  == a * c - b * b
             n  == y * a - x * b
             b1 == Over(Whole(b), Whole(a))
             x1 == Over(Whole(x), Whole(a))
             c2 == Minus(Whole(c), Times(b1, Whole(b)))
             y2 == Minus(Whole(y), Times(x1, Whole(b)))
             y3 == Over(y2, c2)
  <1>1. \A k \in Int : Value(Whole(k), k, 1)
    <2> SUFFICES ASSUME NEW k \in Int PROVE Value(Whole(k), k, 1)
      OBVIOUS
    <2>1. Value(Whole(k), k * 1, 1) /\ k * 1 = k
      BY WholeValue
    <2> QED
      BY <2>1
  <1>2. Value(b1, b, a) /\ Value(x1, x, a)
    BY <1>1, OverValue
  <1> HIDE DEF b1, x1
  <1>3. Value(Times(b1, Whole(b)), b * b, a) /\ Value(Times(x1, Whole(b)), x * b, a)
    <2>1. /\ Value(Times(b1, Whole(b)), b * b, a * 1) /\ Value(Times(x1, Whole(b)), x * b, a * 1)
      BY <1>1, <1>2, TimesValue
    <2>2. a * 1 = a
      OBVIOUS
    <2> QED
      BY <2>1, <2>2
  <1>4. Value(Whole(c), a * c, a) /\ Value(Whole(y), y * a, a)
    <2>1. Value(Whole(c), c * a, a) /\ Value(Whole(y), y * a, a) /\ c * a = a * c
      BY WholeValue
    <2> QED
      BY <2>1
  <1>5. d \in Int /\ n \in Int
    OBVIOUS
  <1>6. Value(c2, d, a) /\ Value(y2, n, a)
    <2>1. a * c \in Int /\ b * b \in Int /\ y * a \in Int /\ x * b \in Int
      OBVIOUS
    <2> QED
      BY <1>3, <1>4, <2>1, MinusValue
  <1> HIDE DEF d, n, c2, y2
  <1>7. ASSUME d > 0
        PROVE  Value(y3, n * a, d * a) /\ Value(Minus(x1, Times(y3, b1)), x * d - n * b, d * a)
    <2>1. Value(y3, n, d)
      BY <1>5, <1>6, <1>7, OverValue
    <2> HIDE DEF y3
    <2>2. Value(y3, a * n, a * d)
      BY <1>5, <2>1, ScaledValue
    <2>3. Value(Times(y3, b1), n * b, d * a)
      BY <1>2, <1>5, <2>1, TimesValue
    <2>4. Value(x1, d * x, d * a)
      BY <1>2, <1>5, ScaledValue
    <2>5. /\ a * n = n * a /\ a * d = d * a /\ d * x = x * d /\ d * a \in Int /\ d * a > 0
          /\ n * b \in Int /\ x * d \in Int
      BY <1>5, <1>7
    <2>6. Value(Minus(x1, Times(y3, b1)), x * d - n * b, d * a)
      BY <2>3, <2>4, <2>5, MinusValue
    <2> QED
      BY <2>2, <2>5, <2>6
  <1> QED
    BY <1>2, <1>6, <1>7, Zenon DEF d, n, b1, x1, c2, y2, y3

(* k / e and l / e solve the equations that m stands for. *)
Solves(m, k, l, e) ==
    m[2] * k + m[4] * l = m[1] * e /\ m[4] * k + m[5] * l = m[3] * e

LEMMA SolveSolves ==
  ASSUME NEW m \in Sums, SemiDefinite(m), ~NearlySingular(m)
  PROVE  \E e \in Nat \ {0}, k, l \in Int :
            Value(Solve(m)[0], k, e) /\ Value(Solve(m)[1], l, e) /\ Solves(m, k, l, e)
  <1> DEFINE top == Max({m[0], m[2], m[5]})
             epsilon == Ratio(top, RelEpsilon)
             pivot == IF m[5] > m[2] THEN 1 ELSE 0
             ma == IF pivot = 1 THEN m[5] ELSE m[2]
             mc == IF pivot = 1 THEN m[2] ELSE m[5]
             mx == IF pivot = 1 THEN m[3] ELSE m[1]
             my == IF pivot = 1 THEN m[1] ELSE m[3]
             a == Whole(ma)
             b == Whole(m[4])
             c == Whole(mc)
             x == Whole(mx)
             y == Whole(my)
             b1 == Over(b, a)
             x1 == Over(x, a)
             c2 == Minus(c, Times(b1, b))
             y2 == Minus(y, Times(x1, b))
             y3 == Over(y2, c2)
             size == <<Magnitude(c2[1]), c2[2]>>
             d == ma * mc - m[4] * m[4]
             n == my * ma - mx * m[4]
             Solved(p, q) == \E e \in Nat \ {0}, k, l \in Int :
                                /\ Value(p, k, e) /\ Value(q, l, e)
                                /\ ma * k + m[4] * l = mx * e /\ m[4] * k + mc * l = my * e
             Goal == \E e \in Nat \ {0}, k, l \in Int :
                       Value(Solve(m)[0], k, e) /\ Value(Solve(m)[1], l, e) /\ Solves(m, k, l, e)
  <1>1. \A j \in 0 .. 5 : m[j] \in Int
    BY DEF Sums
  <1>2. /\ ma \in Int /\ mc \in Int /\ mx \in Int /\ my \in Int /\ m[4] \in Int
        /\ ma \in {m[2], m[5]} /\ ma >= mc /\ pivot \in 0 .. 1
    BY <1>1
  <1>3. Max({m[2], m[5]}) = ma
    <2> DEFINE S == {m[2], m[5]}
    <2>1. ma \in S /\ S \subseteq Int /\ \A j \in S : ma >= j
      BY <1>1, <1>2
    <2> HIDE DEF S, ma
    <2>2. Max(S) = ma
      BY <2>1, MaxIs
    <2> QED
      BY <2>2 DEF S
  <1>4. top \in Int /\ ma <= top
    <2> DEFINE S == {m[0], m[2], m[5]}
    <2>1. \E i \in S : \A j \in S : i >= j
      BY <1>1
    <2>2. PICK i \in S : \A j \in S : i >= j
      BY <2>1
    <2>3. S \subseteq Int /\ ma \in S
      BY <1>1, <1>2
    <2> HIDE DEF S, ma
    <2>4. Max(S) = i
      BY <2>2, <2>3, MaxIs
    <2> QED
      BY <2>2, <2>3, <2>4 DEF S
  <1>5. RelEpsilon \in Int /\ RelEpsilon > 0
    BY ValuesAssumption
  <1>6. m[2] * m[5] - m[4] * m[4] = d
    <2>1. m[2] \in Int /\ m[5] \in Int /\ m[4] \in Int
      BY <1>1
    <2>2. m[2] * m[5] = ma * mc
      BY <2>1
    <2> QED
      BY <2>2
  <1>7. /\ ma > 0 => RelEpsilon * ma > top
        /\ d > 0 => RelEpsilon * d > ma * top
    <2> HIDE DEF top, ma, mc, d
    <2>1. /\ ~(ma > 0 /\ RelEpsilon * ma <= top)
          /\ ~(d > 0 /\ RelEpsilon * d <= ma * top)
      BY <1>3, <1>6, Zenon DEF NearlySingular, top
    <2>2. RelEpsilon * ma \in Int /\ RelEpsilon * d \in Int /\ ma * top \in Int
      BY <1>2, <1>4, <1>5 DEF d
    <2> QED
      BY <1>4, <2>1, <2>2
  <1>8. /\ ma >= 0 /\ mc >= 0
        /\ ma > 0 => d >= 0
        /\ ma = 0 /\ mc = 0 => m[4] = 0 /\ mx = 0 /\ my = 0
        /\ ma > 0 /\ d = 0 => ma * my = m[4] * mx
    <2>1. NeverNegative(m[0], ma, m[4], mc, mx, my)
      <3> SUFFICES ASSUME NEW u \in Int, NEW v \in Int, NEW w \in Int
                   PROVE  (((u * u) * m[0] + (v * v) * ma) + (w * w) * mc)
                          + 2 * (((u * v) * mx + (u * w) * my) + (v * w) * m[4]) >= 0
        BY Zenon DEF NeverNegative
      <3>1. Form(m, u, v, w) >= 0 /\ Form(m, u, w, v) >= 0
        BY DEF SemiDefinite
      <3>2. CASE pivot = 0
        BY <3>1, <3>2 DEF Form
      <3>3. CASE pivot = 1
        <4>1. w * v = v * w
          OBVIOUS
        <4>2. /\ (u * u) * m[0] \in Int /\ (w * w) * m[2] \in Int /\ (v * v) * m[5] \in Int
              /\ (u * w) * m[1] \in Int /\ (u * v) * m[3] \in Int /\ (v * w) * m[4] \in Int
          BY <1>1
        <4> QED
          BY <3>1, <3>3, <4>1, <4>2 DEF Form
      <3> QED
        BY <1>2, <3>2, <3>3
    <2>2. m[0] \in Int
      BY <1>1
    <2> HIDE DEF ma, mc, mx, my, pivot
    <2> QED
      <3> DEFINE k == m[0]
                 l == m[4]
      <3>1. k \in Int /\ l \in Int /\ NeverNegative(k, ma, l, mc, mx, my)
        BY <1>2, <2>1, <2>2
      <3> HIDE DEF k, l
      <3>2. /\ ma >= 0 /\ mc >= 0
            /\ ma > 0 => ma * mc - l * l >= 0
            /\ ma = 0 /\ mc = 0 => l = 0 /\ mx = 0 /\ my = 0
            /\ ma > 0 /\ ma * mc - l * l = 0 => ma * my = l * mx
        BY <1>2, <3>1, NormalEquations
      <3> QED
        BY <3>2 DEF l
  <1>9. ASSUME NEW p, NEW q, Solve(m) = Pair(pivot, p, q), Solved(p, q)
        PROVE  Goal
    <2>1. PICK e \in Nat \ {0}, k \in Int, l \in Int :
            /\ Value(p, k, e) /\ Value(q, l, e)
            /\ ma * k + m[4] * l = mx * e /\ m[4] * k + mc * l = my * e
      BY <1>9
    <2>2. CASE pivot = 0
      <3>1. Solve(m)[0] = p /\ Solve(m)[1] = q
        BY <1>9, <2>2 DEF Pair
      <3>2. Solves(m, k, l, e)
        BY <2>1, <2>2 DEF Solves
      <3> QED
        BY <2>1, <3>1, <3>2
    <2>3. CASE pivot = 1
      <3>1. Solve(m)[0] = q /\ Solve(m)[1] = p
        BY <1>9, <2>3 DEF Pair
      <3>2. m[5] * k + m[4] * l = m[3] * e /\ m[4] * k + m[2] * l = m[1] * e
        BY <2>1, <2>3
      <3>3. Solves(m, l, k, e)
        <4>1. /\ m[5] * k \in Int /\ m[4] * l \in Int /\ m[4] * k \in Int /\ m[2] * l \in Int
          BY <1>1
        <4> QED
          BY <3>2, <4>1 DEF Solves
      <3> QED
        BY <2>1, <3>1, <3>3
    <2> QED
      BY <1>2, <2>2, <2>3
  <1> HIDE DEF Goal
  <1>10. /\ Value(x1, mx, ma) \/ ma <= 0
         /\ Value(c2, d, ma) \/ ma <= 0
         /\ ma > 0 /\ d > 0 => /\ Value(y3, n * ma, d * ma)
                               /\ Value(Minus(x1, Times(y3, b1)), mx * d - n * m[4], d * ma)
    <2> HIDE DEF ma, mc, mx, my
    <2>1. ma <= 0 \/ ma > 0
      BY <1>2
    <2> QED
      BY <1>2, <2>1, Eliminated
  <1>11. Solve(m) = CASE AtMost(a, epsilon) -> Pair(pivot, Zero, Zero)
                      [] Less(epsilon, a) /\ AtMost(size, epsilon) -> Pair(pivot, x1, Zero)
                      [] OTHER -> Pair(pivot, Minus(x1, Times(y3, b1)), y3)
    BY Zenon DEF Solve
  <1> HIDE DEF top, pivot, ma, mc, mx, my
  <1>12. Value(a, ma * RelEpsilon, RelEpsilon) /\ Value(epsilon, top, RelEpsilon)
    <2>1. epsilon \in RationalNumbers /\ epsilon[1] * RelEpsilon = top * epsilon[2]
      BY <1>4, <1>5, RatioIs
    <2> HIDE DEF epsilon
    <2> QED
      BY <1>2, <1>5, <2>1, WholeValue DEF Value
  <1>13. AtMost(a, epsilon) <=> ma * RelEpsilon <= top
    <2>1. ma * RelEpsilon \in Int
      BY <1>2, <1>5
    <2> HIDE DEF a, epsilon
    <2> QED
      BY <1>4, <1>5, <1>12, <2>1, AtMostValue
  <1>14. d \in Int /\ n \in Int
    BY <1>2
  <1>15. ASSUME ma > 0
         PROVE  AtMost(size, epsilon) <=> RelEpsilon * d <= ma * top
    <2>1. c2 \in RationalNumbers /\ c2[1] * ma = d * c2[2]
      BY <1>2, <1>10, <1>15 DEF Value
    <2>2. c2[1] \in Int /\ c2[2] \in Int /\ c2[2] > 0
      BY <2>1, RationalParts
    <2> HIDE DEF c2, d
    <2>3. d >= 0
      BY <1>8, <1>15
    <2>4. Magnitude(c2[1]) * ma = d * c2[2]
      <3>1. Magnitude(c2[1]) * ma = Magnitude(c2[1] * ma)
        BY <1>2, <1>15, <2>2, MagnitudeScaled
      <3>2. d * c2[2] >= 0
        BY <1>14, <2>2, <2>3
      <3> QED
        BY <1>14, <2>1, <2>2, <3>1, <3>2 DEF Magnitude
    <2>5. size \in RationalNumbers /\ size[1] = Magnitude(c2[1]) /\ size[2] = c2[2]
      BY <2>2 DEF RationalNumbers, Magnitude
    <2>6. Value(size, d, ma)
      <3> HIDE DEF size
      <3> QED
        BY <2>4, <2>5 DEF Value
    <2> HIDE DEF size, epsilon
    <2>7. Value(size, RelEpsilon * d, RelEpsilon * ma)
      BY <1>2, <1>5, <1>14, <2>6, ScaledValue
    <2>8. Value(epsilon, ma * top, ma * RelEpsilon)
      BY <1>2, <1>4, <1>5, <1>12, ScaledValue
    <2>9. /\ ma * RelEpsilon = RelEpsilon * ma /\ RelEpsilon * ma \in Int /\ RelEpsilon * ma > 0
          /\ RelEpsilon * d \in Int /\ ma * top \in Int
      BY <1>2, <1>4, <1>5, <1>14, <1>15
    <2> QED
      BY <2>7, <2>8, <2>9, AtMostValue
  <1> HIDE DEF a, b, c, x, y, epsilon, size, x1, b1, c2, y2, y3
  <1>16. ASSUME NEW e \in Int PROVE Value(Zero, 0, e)
    <2>1. Value(Whole(0), 0 * e, e) /\ 0 * e = 0
      BY <1>16, WholeValue
    <2> QED
      BY <2>1 DEF Zero
  <1>17. CASE AtMost(a, epsilon)
    <2>1. Solve(m) = Pair(pivot, Zero, Zero)
      BY <1>11, <1>17 DEF Less
    <2>2. ma = 0
      BY <1>2, <1>4, <1>5, <1>7, <1>8, <1>13, <1>17
    <2>3. m[4] = 0 /\ mx = 0 /\ my = 0
      BY <1>2, <1>8, <2>2
    <2>4. Solved(Zero, Zero)
      <3>1. Value(Zero, 0, 1) /\ ma * 0 + m[4] * 0 = mx * 1 /\ m[4] * 0 + mc * 0 = my * 1
        BY <1>2, <1>16, <2>2, <2>3
      <3> QED
        BY <3>1
    <2> HIDE DEF Solved
    <2> QED
      BY <1>9, <2>1, <2>4 DEF Goal
  <1>18. CASE ~AtMost(a, epsilon)
    <2>1. ma > 0
      <3>1. ma <= 0 => ma = 0
        BY <1>2, <1>8
      <3>2. ma = 0 => ma * RelEpsilon <= top
        BY <1>2, <1>4, <1>5
      <3> QED
        BY <1>2, <1>13, <1>18, <3>1, <3>2
    <2>2. ma \in Nat \ {0}
      BY <1>2, <2>1
    <2>3. CASE AtMost(size, epsilon)
      <3>1. Solve(m) = Pair(pivot, x1, Zero)
        BY <1>11, <1>18, <2>3 DEF Less
      <3>2. d = 0
        <4>1. ~(d > 0)
          <5>1. RelEpsilon * d \in Int /\ ma * top \in Int
            BY <1>2, <1>4, <1>5, <1>14
          <5> HIDE DEF d
          <5> QED
            BY <1>7, <1>15, <2>1, <2>3, <5>1
        <4> HIDE DEF d
        <4> QED
          BY <1>8, <1>14, <2>1, <4>1
      <3>3. ma * mx + m[4] * 0 = mx * ma /\ m[4] * mx + mc * 0 = my * ma
        <4>1. ma * my = m[4] * mx
          BY <1>8, <2>1, <3>2
        <4>2. ma * my = my * ma /\ ma * mx = mx * ma /\ m[4] * 0 = 0 /\ mc * 0 = 0
          BY <1>2
        <4>3. ma * mx \in Int /\ m[4] * mx \in Int
          BY <1>2
        <4> QED
          BY <4>1, <4>2, <4>3
      <3>4. Solved(x1, Zero)
        BY <1>2, <1>10, <1>16, <2>1, <2>2, <3>3
      <3> HIDE DEF Solved
      <3> QED
        BY <1>9, <3>1, <3>4 DEF Goal
    <2>4. CASE ~AtMost(size, epsilon)
      <3> DEFINE p == Minus(x1, Times(y3, b1))
      <3>1. Solve(m) = Pair(pivot, p, y3)
        BY <1>11, <1>18, <2>4 DEF Less
      <3>2. d > 0
        <4>1. d = 0 => RelEpsilon * d <= ma * top
          <5>1. ma * top >= 0 /\ RelEpsilon * 0 = 0
            BY <1>2, <1>4, <1>5, <2>1
          <5> HIDE DEF d
          <5> QED
            BY <5>1
        <4> HIDE DEF d
        <4> QED
          BY <1>8, <1>14, <1>15, <2>1, <2>4, <4>1
      <3>3. Value(y3, n * ma, d * ma) /\ Value(p, mx * d - n * m[4], d * ma)
        BY <1>10, <2>1, <3>2
      <3> HIDE DEF p
      <3>4. /\ ma * (mx * d - n * m[4]) + m[4] * (n * ma) = mx * (d * ma)
            /\ m[4] * (mx * d - n * m[4]) + mc * (n * ma) = my * (d * ma)
        <4>1. ma * (mx * d - n * m[4]) + m[4] * (n * ma) = mx * (d * ma)
          <5> HIDE DEF d, n
          <5> QED
            BY <1>2, <1>14
        <4>2. m[4] * (mx * d - n * m[4]) + mc * (n * ma) = m[4] * (mx * d) + n * d
          <5>1. m[4] * (mx * d - n * m[4]) + mc * (n * ma)
                  = m[4] * (mx * d) + n * (ma * mc - m[4] * m[4])
            <6> HIDE DEF d, n
            <6> QED
              BY <1>2, <1>14
          <5> QED
            BY <5>1
        <4>3. m[4] * (mx * d) + n * d = (m[4] * mx + n) * d
          <5> HIDE DEF d, n
          <5> QED
            BY <1>2, <1>14
        <4>4. m[4] * mx + n = my * ma
          BY <1>2
        <4>5. (my * ma) * d = my * (d * ma)
          <5> HIDE DEF d
          <5> QED
            BY <1>2, <1>14
        <4> QED
          BY <4>1, <4>2, <4>3, <4>4, <4>5
      <3>5. Solved(p, y3)
        <4>1. d * ma \in Nat \ {0} /\ n * ma \in Int /\ mx * d - n * m[4] \in Int
          <5>1. d * ma > 0
            <6> HIDE DEF d
            <6> QED
              BY <1>2, <1>14, <2>1, <3>2
          <5> HIDE DEF d, n
          <5> QED
            BY <1>2, <1>14, <5>1
        <4> HIDE DEF d, n
        <4> QED
          BY <3>3, <3>4, <4>1
      <3> HIDE DEF Solved
      <3> QED
        BY <1>9, <3>1, <3>5 DEF Goal
    <2> QED
      BY <2>3, <2>4
  <1> QED
    BY <1>17, <1>18 DEF Goal
---------------------------------------------------------------------------------
(* The solution has the least error *)

(* The errors with i / d and j / d, and by vadpcm_eval_solved, over d * d. *)
ErrorOver(m, i, j, d) ==
    (m[0] * (d * d) + (m[2] * (i * i) + m[5] * (j * j)))
    + 2 * (m[4] * (i * j) - (m[1] * (i * d) + m[3] * (j * d)))
SolvedErrorOver(m, i, j, d) == (m[0] * d - (m[1] * i + m[3] * j)) * d

LEMMA EvalValue ==
  ASSUME NEW m \in Sums, NEW c, NEW i \in Int, NEW j \in Int, NEW d \in Int, d > 0,
         Value(c[0], i, d), Value(c[1], j, d)
  PROVE  /\ Value(Eval(m, c), ErrorOver(m, i, j, d), d * d)
         /\ Value(EvalSolved(m, c), SolvedErrorOver(m, i, j, d), d * d)
  <1> DEFINE t(k, a, b) == Times(Whole(m[k]), Times(a, b))
             cross == Minus(t(4, c[0], c[1]), Plus(t(1, c[0], One), t(3, c[1], One)))
             squares == Plus(Whole(m[0]), Plus(t(2, c[0], c[0]), t(5, c[1], c[1])))
  <1>1. \A k \in 0 .. 5 : m[k] \in Int
    BY DEF Sums
  <1>2. \A k \in Int : Value(Whole(k), k, 1)
    <2> SUFFICES ASSUME NEW k \in Int PROVE Value(Whole(k), k, 1)
      OBVIOUS
    <2>1. Value(Whole(k), k * 1, 1) /\ k * 1 = k
      BY WholeValue
    <2> QED
      BY <2>1
  <1>3. Value(One, d, d)
    <2>1. Value(Whole(1), 1 * d, d) /\ 1 * d = d
      BY WholeValue
    <2> QED
      BY <2>1 DEF One
  <1>4. ASSUME NEW k \in 0 .. 5, NEW a, NEW b, NEW p \in Int, NEW q \in Int,
               Value(a, p, d), Value(b, q, d)
        PROVE  Value(t(k, a, b), m[k] * (p * q), d * d)
    <2>1. Value(Times(a, b), p * q, d * d)
      BY <1>4, TimesValue
    <2>2. Value(Times(Whole(m[k]), Times(a, b)), m[k] * (p * q), 1 * (d * d))
      <3>1. /\ 1 \in Int /\ p * q \in Int /\ d * d \in Int /\ m[k] \in Int
            /\ Value(Whole(m[k]), m[k], 1)
        BY <1>1, <1>2
      <3> QED
        BY <2>1, <3>1, TimesValue, Zenon
    <2>3. 1 * (d * d) = d * d
      OBVIOUS
    <2> QED
      BY <2>2, <2>3
  <1>5. /\ 0 \in 0 .. 5 /\ 1 \in 0 .. 5 /\ 2 \in 0 .. 5 /\ 3 \in 0 .. 5 /\ 4 \in 0 .. 5
        /\ 5 \in 0 .. 5
    OBVIOUS
  <1> HIDE DEF t
  <1>6. /\ Value(t(2, c[0], c[0]), m[2] * (i * i), d * d)
        /\ Value(t(5, c[1], c[1]), m[5] * (j * j), d * d)
        /\ Value(t(4, c[0], c[1]), m[4] * (i * j), d * d)
        /\ Value(t(1, c[0], One), m[1] * (i * d), d * d)
        /\ Value(t(3, c[1], One), m[3] * (j * d), d * d)
    BY <1>3, <1>4, <1>5
  <1> DEFINE e == d * d
             n0 == m[0] * e
             n1 == m[1] * (i * d)
             n2 == m[2] * (i * i)
             n3 == m[3] * (j * d)
             n4 == m[4] * (i * j)
             n5 == m[5] * (j * j)
  <1>7. e \in Int /\ e > 0
    OBVIOUS
  <1>8. /\ n0 \in Int /\ n1 \in Int /\ n2 \in Int /\ n3 \in Int /\ n4 \in Int /\ n5 \in Int
    BY <1>1
  <1>9. Value(Whole(m[0]), n0, e)
    BY <1>1, <1>5, <1>7, WholeValue
  <1>10. /\ Value(t(2, c[0], c[0]), n2, e) /\ Value(t(5, c[1], c[1]), n5, e)
         /\ Value(t(4, c[0], c[1]), n4, e) /\ Value(t(1, c[0], One), n1, e)
         /\ Value(t(3, c[1], One), n3, e)
    BY <1>6
  <1> HIDE DEF e, n0, n1, n2, n3, n4, n5
  <1>11. Value(squares, n0 + (n2 + n5), e)
    <2>1. n2 + n5 \in Int /\ Value(Plus(t(2, c[0], c[0]), t(5, c[1], c[1])), n2 + n5, e)
      BY <1>7, <1>8, <1>10, PlusValue
    <2> QED
      BY <1>7, <1>8, <1>9, <2>1, PlusValue
  <1>12. Value(cross, n4 - (n1 + n3), e)
    <2>1. n1 + n3 \in Int /\ Value(Plus(t(1, c[0], One), t(3, c[1], One)), n1 + n3, e)
      BY <1>7, <1>8, <1>10, PlusValue
    <2> QED
      BY <1>7, <1>8, <1>10, <2>1, MinusValue
  <1>13. Eval(m, c) = Plus(squares, Times(Whole(2), cross))
    BY Zenon DEF Eval, t
  <1> HIDE DEF squares, cross
  <1>14. Value(Eval(m, c), (n0 + (n2 + n5)) + 2 * (n4 - (n1 + n3)), e)
    <2>1. n4 - (n1 + n3) \in Int /\ Value(Whole(2), 2, 1)
      BY <1>2, <1>8
    <2>2. Value(Times(Whole(2), cross), 2 * (n4 - (n1 + n3)), 1 * e)
      BY <1>7, <1>12, <2>1, TimesValue
    <2>3. 1 * e = e /\ n0 + (n2 + n5) \in Int /\ 2 * (n4 - (n1 + n3)) \in Int
      BY <1>7, <1>8
    <2> QED
      BY <1>7, <1>11, <1>13, <2>2, <2>3, PlusValue
  <1>15. Value(EvalSolved(m, c), (m[0] * d - (m[1] * i + m[3] * j)) * d, e)
    <2>1. m[0] \in Int /\ m[1] \in Int /\ m[3] \in Int
      BY <1>1
    <2>2. /\ Value(Times(Whole(m[1]), c[0]), m[1] * i, 1 * d)
          /\ Value(Times(Whole(m[3]), c[1]), m[3] * j, 1 * d)
      <3>1. 1 \in Int /\ Value(Whole(m[1]), m[1], 1) /\ Value(Whole(m[3]), m[3], 1)
        BY <1>2, <2>1
      <3> QED
        BY <2>1, <3>1, TimesValue, Zenon
    <2>3. 1 * d = d /\ m[1] * i \in Int /\ m[3] * j \in Int /\ m[0] * d \in Int
      BY <2>1
    <2>4. Value(Plus(Times(Whole(m[1]), c[0]), Times(Whole(m[3]), c[1])), m[1] * i + m[3] * j, d)
      BY <2>2, <2>3, PlusValue
    <2> DEFINE n == m[0] * d - (m[1] * i + m[3] * j)
    <2>5. Value(Whole(m[0]), m[0] * d, d)
      BY <2>1, WholeValue
    <2>6. Value(EvalSolved(m, c), n, d)
      <3>1. m[1] * i + m[3] * j \in Int
        BY <2>3
      <3> QED
        BY <2>3, <2>4, <2>5, <3>1, MinusValue, Zenon DEF EvalSolved
    <2>7. n \in Int
      BY <2>3
    <2> HIDE DEF n
    <2>8. Value(EvalSolved(m, c), d * n, d * d) /\ d * n = n * d
      BY <2>6, <2>7, ScaledValue
    <2> QED
      BY <2>8 DEF n, e
  <1> QED
    BY <1>14, <1>15 DEF e, n0, n1, n2, n3, n4, n5, ErrorOver, SolvedErrorOver

(* The difference of the errors is a sum of squares. *)
LEMMA ErrorDifference ==
  ASSUME NEW m \in Sums, NEW d \in Int, NEW i \in Int, NEW j \in Int, NEW k \in Int, NEW l \in Int,
         Solves(m, k, l, d)
  PROVE  ErrorOver(m, i, j, d) = SolvedErrorOver(m, k, l, d) + Form(m, 0, i - k, j - l)
  <1> DEFINE m0 == m[0]
             m1 == m[1]
             m2 == m[2]
             m3 == m[3]
             m4 == m[4]
             m5 == m[5]
             p == m2 * k + m4 * l
             q == m4 * k + m5 * l
  <1>1. /\ m0 \in Int /\ m1 \in Int /\ m2 \in Int /\ m3 \in Int /\ m4 \in Int /\ m5 \in Int
        /\ p = m1 * d /\ q = m3 * d
    BY DEF Sums, Solves
  <1>2. Form(m, 0, i - k, j - l)
          = (((i - k) * (i - k)) * m2 + ((j - l) * (j - l)) * m5)
            + 2 * (((i - k) * (j - l)) * m4)
    <2>1. /\ (0 * 0) * m0 = 0 /\ (0 * (i - k)) * m1 = 0 /\ (0 * (j - l)) * m3 = 0
          /\ ((i - k) * (i - k)) * m2 \in Int /\ ((j - l) * (j - l)) * m5 \in Int
          /\ ((i - k) * (j - l)) * m4 \in Int
      BY <1>1
    <2> QED
      BY <2>1 DEF Form
  <1> HIDE DEF m0, m1, m2, m3, m4, m5
  <1>3. (((i - k) * (i - k)) * m2 + ((j - l) * (j - l)) * m5) + 2 * (((i - k) * (j - l)) * m4)
          = ((((m2 * (i * i) + m5 * (j * j)) + 2 * (m4 * (i * j))) - 2 * (i * p)) - 2 * (j * q))
            + (k * p + l * q)
    BY <1>1
  <1> HIDE DEF p, q
  <1>4. /\ m1 * (i * d) = i * p /\ m3 * (j * d) = j * q
        /\ (m0 * d - (m1 * k + m3 * l)) * d = m0 * (d * d) - (k * p + l * q)
    <2>1. /\ m1 * (i * d) = i * (m1 * d) /\ m3 * (j * d) = j * (m3 * d)
          /\ (m0 * d - (m1 * k + m3 * l)) * d = m0 * (d * d) - (k * (m1 * d) + l * (m3 * d))
      BY <1>1
    <2> QED
      BY <1>1, <2>1
  <1>5. /\ i * p \in Int /\ j * q \in Int /\ k * p \in Int /\ l * q \in Int
        /\ m0 * (d * d) \in Int /\ m2 * (i * i) \in Int /\ m5 * (j * j) \in Int
        /\ m4 * (i * j) \in Int
    <2>1. p \in Int /\ q \in Int
      BY <1>1
    <2> QED
      BY <1>1, <2>1
  <1>6. (m0 * (d * d) + (m2 * (i * i) + m5 * (j * j)))
        + 2 * (m4 * (i * j) - (m1 * (i * d) + m3 * (j * d)))
          = (m0 * d - (m1 * k + m3 * l)) * d + Form(m, 0, i - k, j - l)
    BY <1>2, <1>3, <1>4, <1>5
  <1> QED
    BY <1>6 DEF m0, m1, m2, m3, m4, m5, ErrorOver, SolvedErrorOver

LEMMA SolvedIsLeast ==
  ASSUME NEW m \in Sums, SemiDefinite(m), ~NearlySingular(m), NEW c \in Coefficients
  PROVE  /\ AtMost(EvalSolved(m, Solve(m)), Eval(m, c))
         /\ AtMost(Eval(m, Solve(m)), Eval(m, c))
  <1>1. PICK e \in Nat \ {0}, k \in Int, l \in Int :
          Value(Solve(m)[0], k, e) /\ Value(Solve(m)[1], l, e) /\ Solves(m, k, l, e)
    BY SolveSolves
  <1> DEFINE a == c[0][2]
             b == c[1][2]
             g == a * b
             d == g * e
             i == (b * e) * c[0][1]
             j == (a * e) * c[1][1]
             s == Solve(m)
  <1>2. /\ c[0] \in RationalNumbers /\ c[1] \in RationalNumbers
        /\ c[0][1] \in Int /\ a \in Int /\ a > 0 /\ c[1][1] \in Int /\ b \in Int /\ b > 0
    BY RationalParts DEF Coefficients
  <1>3. e \in Int /\ e > 0
    OBVIOUS
  <1>4. Value(c[0], i, d) /\ Value(c[1], j, d)
    <2>1. b * e \in Int /\ b * e > 0 /\ a * e \in Int /\ a * e > 0
      BY <1>2, <1>3
    <2>2. Value(c[0], i, (b * e) * a) /\ Value(c[1], j, (a * e) * b)
      BY <1>2, <2>1, OwnValue
    <2>3. (b * e) * a = d /\ (a * e) * b = d
      BY <1>2, <1>3
    <2> QED
      BY <2>2, <2>3
  <1>5. g \in Int /\ g > 0 /\ i \in Int /\ j \in Int
    BY <1>2, <1>3
  <1> HIDE DEF g, i, j, a, b
  <1>6. d \in Int /\ d > 0 /\ g * k \in Int /\ g * l \in Int
    BY <1>3, <1>5
  <1>7. Value(s[0], g * k, d) /\ Value(s[1], g * l, d)
    BY <1>1, <1>3, <1>5, ScaledValue
  <1>8. Solves(m, g * k, g * l, d)
    <2>1. /\ m[1] \in Int /\ m[2] \in Int /\ m[3] \in Int /\ m[4] \in Int /\ m[5] \in Int
      BY DEF Sums
    <2>2. /\ m[2] * (g * k) + m[4] * (g * l) = g * (m[2] * k + m[4] * l)
          /\ m[4] * (g * k) + m[5] * (g * l) = g * (m[4] * k + m[5] * l)
          /\ m[1] * (g * e) = g * (m[1] * e) /\ m[3] * (g * e) = g * (m[3] * e)
      BY <1>3, <1>5, <2>1
    <2> QED
      BY <1>1, <2>2 DEF Solves
  <1> HIDE DEF d, s
  <1> DEFINE x == g * k
             y == g * l
             n1 == SolvedErrorOver(m, x, y, d)
             n2 == ErrorOver(m, i, j, d)
  <1>9. x \in Int /\ y \in Int /\ Value(s[0], x, d) /\ Value(s[1], y, d) /\ Solves(m, x, y, d)
    BY <1>6, <1>7, <1>8
  <1> HIDE DEF x, y
  <1>10. Value(Eval(m, c), n2, d * d)
    BY <1>4, <1>5, <1>6, EvalValue
  <1>11. Value(EvalSolved(m, s), n1, d * d)
    BY <1>6, <1>9, EvalValue
  <1> DEFINE n3 == ErrorOver(m, x, y, d)
  <1>12. Value(Eval(m, s), n3, d * d)
    BY <1>6, <1>9, EvalValue
  <1>13. n3 = n1
    <2>1. n3 = n1 + Form(m, 0, x - x, y - y)
      BY <1>6, <1>9, ErrorDifference
    <2>2. Form(m, 0, x - x, y - y) = 0
      <3>1. /\ m[0] \in Int /\ m[1] \in Int /\ m[2] \in Int /\ m[3] \in Int /\ m[4] \in Int
            /\ m[5] \in Int /\ x - x = 0 /\ y - y = 0
        BY <1>9 DEF Sums
      <3> QED
        BY <3>1 DEF Form
    <2>3. n1 \in Int
      <3>1. m[0] \in Int /\ m[1] \in Int /\ m[3] \in Int
        BY DEF Sums
      <3> QED
        BY <1>6, <1>9, <3>1 DEF SolvedErrorOver
    <2> HIDE DEF n1, n3
    <2> QED
      BY <2>1, <2>2, <2>3
  <1> HIDE DEF n3
  <1>14. n2 = n1 + Form(m, 0, i - x, j - y)
    BY <1>5, <1>6, <1>9, ErrorDifference
  <1>15. n1 \in Int /\ n2 \in Int
    <2>1. /\ m[0] \in Int /\ m[1] \in Int /\ m[2] \in Int /\ m[3] \in Int /\ m[4] \in Int
          /\ m[5] \in Int
      BY DEF Sums
    <2> QED
      BY <1>5, <1>6, <1>9, <2>1 DEF ErrorOver, SolvedErrorOver
  <1>16. Form(m, 0, i - x, j - y) >= 0 /\ Form(m, 0, i - x, j - y) \in Int
    <2>1. i - x \in Int /\ j - y \in Int
      BY <1>5, <1>9
    <2> HIDE DEF n1, n2
    <2>2. Form(m, 0, i - x, j - y) >= 0
      BY <2>1 DEF SemiDefinite
    <2>3. Form(m, 0, i - x, j - y) \in Int
      <3>1. /\ m[0] \in Int /\ m[1] \in Int /\ m[2] \in Int /\ m[3] \in Int /\ m[4] \in Int
            /\ m[5] \in Int
        BY DEF Sums
      <3> QED
        BY <2>1, <3>1 DEF Form
    <2> QED
      BY <2>2, <2>3
  <1> HIDE DEF n1, n2
  <1>17. n1 <= n2
    BY <1>14, <1>15, <1>16
  <1>18. d * d \in Int /\ d * d > 0
    BY <1>6
  <1>19. AtMost(EvalSolved(m, s), Eval(m, c)) /\ AtMost(Eval(m, s), Eval(m, c))
    BY <1>10, <1>11, <1>12, <1>13, <1>15, <1>17, <1>18, AtMostValue
  <1> QED
    BY <1>19 DEF s
---------------------------------------------------------------------------------
(* So it is for the frames *)

(* The arrays hold sums of products, the best errors, and errors of some coefficients. *)
Evaluated ==
    src # NoSound =>
        /\ pc \in {"assign", "best_error", "error", "iterate", "worst", "refine"} =>
             \A f \in Frames : SemiDefinite(corr[f])
        /\ pc \in {"error", "iterate", "worst", "refine"} =>
             \A f \in Frames : best_error[f] = BestError(corr[f])
        /\ (pc = "iterate" /\ iter > 0) \/ pc = "worst" =>
             \A f \in Frames : \E c \in Coefficients : error[f] = Eval(corr[f], c)

LEMMA RefinedErrors ==
  ASSUME VInv, src # NoSound, RefinePredictors
  PROVE  \A f \in Frames : \E c \in Coefficients : error'[f] = Eval(corr[f], c)
  <1> DEFINE count == Cardinality(Clusters)
             cs == [i \in 0 .. count - 1 |-> Stabilize(Solve(SumCorr(Cluster(i))))]
  <1>1. /\ coeff' \in [0 .. count - 1 -> Coefficients]
        /\ predictors' \in [Frames -> 0 .. count - 1]
    BY RefinedTypes
  <1>2. /\ coeff' = cs /\ error' = [f \in Frames |-> Eval(corr[f], cs[predictors'[f]])]
    BY Zenon DEF RefinePredictors
  <1> HIDE DEF cs, count
  <1>3. \A f \in Frames : cs[predictors'[f]] \in Coefficients
    BY <1>1, <1>2
  <1> QED
    BY <1>2, <1>3

LEMMA EvaluatedStep ==
  ASSUME VInv, Evaluated, src # NoSound, ValuesStep
  PROVE  Evaluated'
  <1> USE DEF Evaluated
  <1>1. src' = src
    BY DEF ValuesStep, Autocorrelate, FindBestErrors, SplitWorst, RefinePredictors,
       EncodeFrames, EncodeNothing, values
  <1>2. CASE Autocorrelate
    <2>1. Frames' = Frames
      BY <1>2 DEF Autocorrelate, Malloc, Frames
    <2>2. \A f \in Frames : SemiDefinite(corr'[f])
      <3>1. src \in Seq(Int)
        BY DEF VInv, Valued
      <3>2. \A f : SemiDefinite(Autocorr(f))
        BY <3>1, AutocorrSemiDefinite
      <3>3. \A f \in Frames : corr'[f] = Autocorr(f)
        BY <1>2 DEF Autocorrelate
      <3> QED
        BY <3>2, <3>3
    <2> QED
      BY <1>1, <1>2, <2>1, <2>2 DEF Autocorrelate, Malloc, Frames
  <1>3. CASE FindBestErrors
    <2>1. pc = "best_error" /\ pc' = "error" /\ Frames' = Frames /\ iter' = iter /\ corr' = corr
      BY <1>3 DEF FindBestErrors, Malloc, Frames, assigned
    <2>2. \A f \in Frames : best_error'[f] = BestError(corr[f])
      BY <1>3 DEF FindBestErrors
    <2> QED
      BY <1>1, <2>1, <2>2
  <1>4. CASE SplitWorst
    BY <1>1, <1>4 DEF SplitWorst, Frames, values
  <1>5. CASE RefinePredictors
    <2>1. /\ pc = "refine" /\ pc' = "iterate" /\ Frames' = Frames /\ corr' = corr
          /\ best_error' = best_error
      BY <1>5 DEF RefinePredictors, Frames
    <2>2. \A f \in Frames : \E c \in Coefficients : error'[f] = Eval(corr[f], c)
      BY <1>5, RefinedErrors
    <2> QED
      BY <1>1, <2>1, <2>2
  <1>6. CASE EncodeFrames
    BY <1>1, <1>6 DEF EncodeFrames, Finish, Return
  <1>7. CASE EncodeNothing
    BY <1>1, <1>7 DEF EncodeNothing, NoFrames, Return
  <1>8. CASE /\ \/ BadParams \/ TooManyFrames \/ CheckParams \/ Malloc("corr", "predictors")
                \/ Malloc("error", "iterate")
                \/ \E block \in {"corr", "predictors", "best_error", "error"} :
                     MallocFails(block)
                \/ BeginAssign \/ Iterate \/ EndAssign
             /\ UNCHANGED values
    <2>1. CASE BadParams \/ TooManyFrames \/ CheckParams
      BY <1>1, <1>8, <2>1 DEF BadParams, TooManyFrames, CheckParams, Return, values, assigned
    <2>2. CASE Malloc("corr", "predictors")
      BY <1>1, <1>8, <2>2 DEF Malloc, values
    <2>3. CASE Malloc("error", "iterate")
      BY <1>1, <1>8, <2>3 DEF Malloc, values, assigned, VInv, Valued, Frames
    <2>4. CASE \E block \in {"corr", "predictors", "best_error", "error"} : MallocFails(block)
      BY <1>1, <1>8, <2>4 DEF MallocFails, Return, values
    <2>5. CASE BeginAssign
      BY <1>1, <1>8, <2>5 DEF BeginAssign, values, Frames
    <2>6. CASE Iterate
      BY <1>1, <1>8, <2>6, PredictorAssumption DEF Iterate, SomeUnassigned, values, assigned,
         Frames, VInv, Valued, IInv, TypeOK
    <2>7. CASE EndAssign
      BY <1>1, <1>8, <2>7 DEF EndAssign, values
    <2> QED
      BY <1>8, <2>1, <2>2, <2>3, <2>4, <2>5, <2>6, <2>7
  <1> QED
    BY <1>2, <1>3, <1>4, <1>5, <1>6, <1>7, <1>8 DEF ValuesStep

LEMMA EvaluatedIsLeast == VInv /\ Evaluated => BestErrorIsLeast
  <1> SUFFICES ASSUME VInv, Evaluated, src # NoSound, pc \in {"iterate", "worst"}, iter > 0,
                      NEW f \in Frames, ~Adjusted(corr[f])
               PROVE  AtMost(best_error[f], error[f])
    BY DEF BestErrorIsLeast
  <1>1. corr[f] \in Sums
    BY DEF VInv, Valued
  <1>2. SemiDefinite(corr[f]) /\ best_error[f] = BestError(corr[f])
    BY DEF Evaluated
  <1>3. PICK c \in Coefficients : error[f] = Eval(corr[f], c)
    BY DEF Evaluated
  <1>4. ~NearlySingular(corr[f]) /\ ~Unstable(Solve(corr[f]))
    BY DEF Adjusted
  <1>5. best_error[f] = EvalSolved(corr[f], Solve(corr[f]))
    BY <1>2, <1>4 DEF BestError
  <1> QED
    BY <1>1, <1>2, <1>3, <1>4, <1>5, SolvedIsLeast

(***************************************************************************)
(* No coefficients give a frame a smaller error than those that            *)
(* vadpcm_solve finds for it alone, so the improvement that                *)
(* vadpcm_worst_frame looks for is never negative; for any sound, and      *)
(* wherever the solution was neither given up nor made stable.             *)
(***************************************************************************)
THEOREM OwnCoefficientsAreBest == ValuesSpec => []BestErrorIsLeast
  <1>1. ValuesInit => Evaluated
    BY DEF ValuesInit, Init, Evaluated
  <1>2. VInv /\ Evaluated /\ [ValuesNext]_valueVars => Evaluated'
    <2> SUFFICES ASSUME VInv, Evaluated, [ValuesNext]_valueVars PROVE Evaluated'
      OBVIOUS
    <2>1. CASE src # NoSound /\ ValuesStep
      BY <2>1, EvaluatedStep
    <2>2. CASE src = NoSound /\ UNCHANGED values
      BY <2>2 DEF Evaluated, values
    <2>3. CASE UNCHANGED valueVars
      BY <2>3 DEF Evaluated, valueVars, vars, values, assigned, Frames
    <2> QED
      BY <2>1, <2>2, <2>3 DEF ValuesNext
  <1> QED
    BY <1>1, <1>2, EvaluatedIsLeast, ValuesInvariant, PTL DEF ValuesSpec
---------------------------------------------------------------------------------
(* Sums over frames, and by class *)

LEMMA UpTo ==
  ASSUME NEW n \in Nat, NEW S, 0 \in S, \A i \in 1 .. n : i - 1 \in S => i \in S
  PROVE  \A i \in 0 .. n : i \in S
  <1> DEFINE P == {k \in Nat : k <= n => k \in S}
  <1>1. ASSUME NEW k \in Nat, \A m \in 0 .. k - 1 : m \in P
        PROVE  k \in P
    <2>1. CASE k = 0
      BY <2>1
    <2>2. CASE k > 0 /\ k <= n
      <3>1. k - 1 \in 0 .. k - 1 /\ k \in 1 .. n
        BY <2>2
      <3> QED
        BY <1>1, <3>1
    <2>3. CASE k > n
      BY <2>3
    <2> QED
      BY <2>1, <2>2, <2>3
  <1>2. Nat \subseteq P
    <2> HIDE DEF P
    <2> QED
      BY <1>1, StrongInduction, Zenon
  <1> QED
    BY <1>2

LEMMA SumAdds ==
  ASSUME NEW n \in Nat, NEW a, NEW b, NEW c, \A i \in 1 .. n : a[i] \in Int /\ b[i] \in Int,
         \A i \in 1 .. n : c[i] = a[i] + b[i]
  PROVE  SumTo(c, n) = SumTo(a, n) + SumTo(b, n)
  <1>1. PICK f : /\ \A i \in 0 .. n : f[i] \in Int
                 /\ f[0] = 0 /\ \A i \in 1 .. n : f[i] = f[i - 1] + a[i]
                 /\ SumTo(a, n) = f[n]
    BY PartialSums
  <1>2. PICK g : /\ \A i \in 0 .. n : g[i] \in Int
                 /\ g[0] = 0 /\ \A i \in 1 .. n : g[i] = g[i - 1] + b[i]
                 /\ SumTo(b, n) = g[n]
    BY PartialSums
  <1>3. \A i \in 1 .. n : c[i] \in Int
    OBVIOUS
  <1>4. PICK h : /\ \A i \in 0 .. n : h[i] \in Int
                 /\ h[0] = 0 /\ \A i \in 1 .. n : h[i] = h[i - 1] + c[i]
                 /\ SumTo(c, n) = h[n]
    BY <1>3, PartialSums
  <1> DEFINE S == {i \in 0 .. n : h[i] = f[i] + g[i]}
  <1>5. 0 \in S
    BY <1>1, <1>2, <1>4
  <1>6. \A i \in 1 .. n : i - 1 \in S => i \in S
    <2> SUFFICES ASSUME NEW i \in 1 .. n, h[i - 1] = f[i - 1] + g[i - 1]
                 PROVE  h[i] = f[i] + g[i]
      OBVIOUS
    <2>1. i - 1 \in 0 .. n
      OBVIOUS
    <2>2. f[i - 1] \in Int /\ g[i - 1] \in Int /\ a[i] \in Int /\ b[i] \in Int
      BY <1>1, <1>2, <2>1
    <2> QED
      BY <1>1, <1>2, <1>4, <2>2
  <1>7. n \in S
    <2> HIDE DEF S
    <2>1. n \in 0 .. n
      OBVIOUS
    <2> QED
      BY <1>5, <1>6, <2>1, UpTo
  <1> QED
    BY <1>1, <1>2, <1>4, <1>7

LEMMA SumAtMost ==
  ASSUME NEW n \in Nat, NEW a, NEW b, \A i \in 1 .. n : a[i] \in Int /\ b[i] \in Int,
         \A i \in 1 .. n : a[i] <= b[i]
  PROVE  SumTo(a, n) <= SumTo(b, n)
  <1>1. PICK f : /\ \A i \in 0 .. n : f[i] \in Int
                 /\ f[0] = 0 /\ \A i \in 1 .. n : f[i] = f[i - 1] + a[i]
                 /\ SumTo(a, n) = f[n]
    BY PartialSums
  <1>2. PICK g : /\ \A i \in 0 .. n : g[i] \in Int
                 /\ g[0] = 0 /\ \A i \in 1 .. n : g[i] = g[i - 1] + b[i]
                 /\ SumTo(b, n) = g[n]
    BY PartialSums
  <1> DEFINE S == {i \in 0 .. n : f[i] <= g[i]}
  <1>3. 0 \in S
    BY <1>1, <1>2
  <1>4. \A i \in 1 .. n : i - 1 \in S => i \in S
    <2> SUFFICES ASSUME NEW i \in 1 .. n, f[i - 1] <= g[i - 1]
                 PROVE  f[i] <= g[i]
      OBVIOUS
    <2>1. i - 1 \in 0 .. n
      OBVIOUS
    <2>2. f[i - 1] \in Int /\ g[i - 1] \in Int /\ a[i] \in Int /\ b[i] \in Int /\ a[i] <= b[i]
      BY <1>1, <1>2, <2>1
    <2> QED
      BY <1>1, <1>2, <2>2
  <1>5. n \in S
    <2> HIDE DEF S
    <2>1. n \in 0 .. n
      OBVIOUS
    <2> QED
      BY <1>3, <1>4, <2>1, UpTo
  <1> QED
    BY <1>1, <1>2, <1>5

LEMMA SumOfZeros ==
  ASSUME NEW n \in Nat, NEW a, \A i \in 1 .. n : a[i] = 0
  PROVE  SumTo(a, n) = 0
  <1> DEFINE z == [i \in 1 .. n |-> 0]
  <1>1. /\ \A i \in 1 .. n : a[i] \in Int /\ a[i] \in Int
        /\ \A i \in 1 .. n : a[i] = a[i] + a[i]
    OBVIOUS
  <1>2. SumTo(a, n) = SumTo(a, n) + SumTo(a, n)
    BY <1>1, SumAdds
  <1>3. SumTo(a, n) \in Int
    BY <1>1, SumToIsInt
  <1>4. \A s \in Int : s = s + s => s = 0
    OBVIOUS
  <1> QED
    BY <1>2, <1>3, <1>4, Zenon

(* p[k] and q[k] are of the numbers of a and of b that are in class k; the sum *)
(* of no p[k] is greater.                                                      *)
ByClass(n, count, class, a, b, p, q) ==
    /\ class \in [1 .. n -> 0 .. count - 1]
    /\ a \in [1 .. n -> Int] /\ b \in [1 .. n -> Int]
    /\ \A k \in 0 .. count - 1 : \A i \in 1 .. n :
         /\ p[k][i] = IF class[i] = k THEN a[i] ELSE 0
         /\ q[k][i] = IF class[i] = k THEN b[i] ELSE 0
    /\ \A k \in 0 .. count - 1 : SumTo(p[k], n) <= SumTo(q[k], n)

(* Then neither is that of all of a: by the classes below k. *)
LEMMA SumByClass ==
  ASSUME NEW n \in Nat, NEW count \in Nat, NEW class, NEW a, NEW b, NEW p, NEW q,
         ByClass(n, count, class, a, b, p, q)
  PROVE  SumTo(a, n) <= SumTo(b, n)
  <1> USE DEF ByClass
  <1> DEFINE below(c, k) == [i \in 1 .. n |-> IF class[i] < k THEN c[i] ELSE 0]
             S == {k \in 0 .. count : SumTo(below(a, k), n) <= SumTo(below(b, k), n)}
  <1>1. ASSUME NEW k \in 0 .. count - 1
        PROVE  /\ \A i \in 1 .. n : p[k][i] \in Int /\ q[k][i] \in Int
               /\ \A i \in 1 .. n : /\ below(a, k)[i] \in Int /\ below(b, k)[i] \in Int
                                    /\ below(a, k + 1)[i] = below(a, k)[i] + p[k][i]
                                    /\ below(b, k + 1)[i] = below(b, k)[i] + q[k][i]
    <2> SUFFICES ASSUME NEW i \in 1 .. n
                 PROVE  /\ p[k][i] \in Int /\ q[k][i] \in Int
                        /\ below(a, k)[i] \in Int /\ below(b, k)[i] \in Int
                        /\ below(a, k + 1)[i] = below(a, k)[i] + p[k][i]
                        /\ below(b, k + 1)[i] = below(b, k)[i] + q[k][i]
      OBVIOUS
    <2>1. /\ class[i] \in Int /\ a[i] \in Int /\ b[i] \in Int
          /\ p[k][i] = IF class[i] = k THEN a[i] ELSE 0
          /\ q[k][i] = IF class[i] = k THEN b[i] ELSE 0
      OBVIOUS
    <2>2. /\ below(a, k)[i] = IF class[i] < k THEN a[i] ELSE 0
          /\ below(b, k)[i] = IF class[i] < k THEN b[i] ELSE 0
          /\ below(a, k + 1)[i] = IF class[i] < k + 1 THEN a[i] ELSE 0
          /\ below(b, k + 1)[i] = IF class[i] < k + 1 THEN b[i] ELSE 0
      OBVIOUS
    <2> HIDE DEF below
    <2>3. class[i] < k + 1 <=> class[i] < k \/ class[i] = k
      BY <2>1
    <2>4. class[i] < k => class[i] # k
      BY <2>1
    <2> QED
      BY <2>1, <2>2, <2>3, <2>4
  <1>2. \A i \in 1 .. n : below(a, 0)[i] = 0 /\ below(b, 0)[i] = 0
    OBVIOUS
  <1>3. below(a, count) = a /\ below(b, count) = b
    OBVIOUS
  <1> HIDE DEF below
  <1>5. ASSUME NEW k \in 0 .. count - 1
        PROVE  /\ SumTo(below(a, k + 1), n) = SumTo(below(a, k), n) + SumTo(p[k], n)
               /\ SumTo(below(b, k + 1), n) = SumTo(below(b, k), n) + SumTo(q[k], n)
               /\ SumTo(below(a, k), n) \in Int /\ SumTo(p[k], n) \in Int
               /\ SumTo(below(b, k), n) \in Int /\ SumTo(q[k], n) \in Int
    <2>1. /\ \A i \in 1 .. n : below(a, k)[i] \in Int /\ p[k][i] \in Int
          /\ \A i \in 1 .. n : below(b, k)[i] \in Int /\ q[k][i] \in Int
          /\ \A i \in 1 .. n : below(a, k + 1)[i] = below(a, k)[i] + p[k][i]
          /\ \A i \in 1 .. n : below(b, k + 1)[i] = below(b, k)[i] + q[k][i]
      BY <1>1
    <2> DEFINE a0 == below(a, k)
               a1 == below(a, k + 1)
               b0 == below(b, k)
               b1 == below(b, k + 1)
               pk == p[k]
               qk == q[k]
    <2> HIDE DEF a0, a1, b0, b1, pk, qk
    <2>2. /\ \A i \in 1 .. n : a0[i] \in Int /\ pk[i] \in Int
          /\ \A i \in 1 .. n : b0[i] \in Int /\ qk[i] \in Int
          /\ \A i \in 1 .. n : a1[i] = a0[i] + pk[i]
          /\ \A i \in 1 .. n : b1[i] = b0[i] + qk[i]
      BY <2>1, Zenon DEF a0, a1, b0, b1, pk, qk
    <2>3. SumTo(a1, n) = SumTo(a0, n) + SumTo(pk, n)
      <3>1. /\ \A i \in 1 .. n : a0[i] \in Int /\ pk[i] \in Int
            /\ \A i \in 1 .. n : a1[i] = a0[i] + pk[i]
        BY <2>2, Zenon
      <3> HIDE DEF ByClass
      <3> QED
        BY <3>1, SumAdds
    <2>4. SumTo(b1, n) = SumTo(b0, n) + SumTo(qk, n)
      <3>1. /\ \A i \in 1 .. n : b0[i] \in Int /\ qk[i] \in Int
            /\ \A i \in 1 .. n : b1[i] = b0[i] + qk[i]
        BY <2>2, Zenon
      <3> HIDE DEF ByClass
      <3> QED
        BY <3>1, SumAdds
    <2> QED
      BY <2>1, <2>3, <2>4, SumToIsInt DEF a0, a1, b0, b1, pk, qk
  <1>6. 0 \in S
    <2>1. SumTo(below(a, 0), n) = 0 /\ SumTo(below(b, 0), n) = 0
      BY <1>2, SumOfZeros
    <2> QED
      BY <2>1
  <1>7. \A k \in 1 .. count : k - 1 \in S => k \in S
    <2> SUFFICES ASSUME NEW k \in 1 .. count,
                        SumTo(below(a, k - 1), n) <= SumTo(below(b, k - 1), n)
                 PROVE  SumTo(below(a, k), n) <= SumTo(below(b, k), n)
      OBVIOUS
    <2> DEFINE l == k - 1
    <2>1. l \in 0 .. count - 1 /\ l + 1 = k
      OBVIOUS
    <2>2. SumTo(below(a, l), n) <= SumTo(below(b, l), n)
      OBVIOUS
    <2> HIDE DEF l
    <2>3. SumTo(p[l], n) <= SumTo(q[l], n)
      BY <2>1
    <2>4. SumTo(below(a, l + 1), n) <= SumTo(below(b, l + 1), n)
      BY <1>5, <2>1, <2>2, <2>3
    <2> QED
      BY <2>1, <2>4
  <1>8. count \in S
    <2> HIDE DEF S
    <2>1. count \in 0 .. count
      OBVIOUS
    <2> QED
      BY <1>6, <1>7, <2>1, UpTo
  <1> QED
    BY <1>3, <1>8

(***************************************************************************)
(* TotalError adds up: over a common denominator it is a sum of integers.  *)
(***************************************************************************)
LEMMA TotalIs ==
  ASSUME frame_count \in Nat, NEW e, NEW v, NEW d \in Int, d > 0,
         \A i \in 1 .. frame_count : v[i] \in Int /\ Value(e[i - 1], v[i], d)
  PROVE  Value(TotalError(e), SumTo(v, frame_count), d)
  <1> DEFINE n == frame_count
             V(f, i) == IF i = 0 THEN Zero ELSE Plus(f[i - 1], e[i - 1])
             E(f, k) == f = [i \in 0 .. k |-> V(f, i)]
             Some(k) == \E f : E(f, k)
             S == {k \in 0 .. n : Some(k)}
  <1>1. n \in Nat
    OBVIOUS
  <1>2. Some(0)
    <2> DEFINE f == [i \in 0 .. 0 |-> Zero]
    <2>1. \A i \in 0 .. 0 : f[i] = V(f, i)
      OBVIOUS
    <2>2. f = [i \in 0 .. 0 |-> f[i]]
      OBVIOUS
    <2>3. E(f, 0)
      <3> HIDE DEF V, f
      <3> QED
        BY <2>1, <2>2
    <2> HIDE DEF f, E
    <2> QED
      BY <2>3
  <1>3. ASSUME NEW k \in 1 .. n, Some(k - 1) PROVE Some(k)
    <2>1. PICK g : E(g, k - 1)
      BY <1>3
    <2> DEFINE f == [i \in 0 .. k |-> IF i = k THEN Plus(g[k - 1], e[k - 1]) ELSE g[i]]
    <2>2. \A i \in 0 .. k - 1 : g[i] = V(g, i)
      <3> HIDE DEF V
      <3> QED
        BY <2>1, Zenon
    <2>3. \A i \in 0 .. k : f[i] = V(f, i)
      <3> SUFFICES ASSUME NEW i \in 0 .. k PROVE f[i] = V(f, i)
        OBVIOUS
      <3>1. CASE i = k
        BY <3>1
      <3>2. CASE i # k /\ i = 0
        <4>1. i \in 0 .. k - 1
          BY <3>2
        <4> QED
          BY <2>2, <3>2, <4>1
      <3>3. CASE i # k /\ i # 0
        <4>1. i \in 0 .. k - 1 /\ i - 1 \in 0 .. k /\ i - 1 # k
          BY <3>3
        <4> QED
          BY <2>2, <3>3, <4>1
      <3> QED
        BY <3>1, <3>2, <3>3
    <2>4. E(f, k)
      <3>1. f = [i \in 0 .. k |-> f[i]]
        OBVIOUS
      <3> HIDE DEF V, f
      <3> QED
        BY <2>3, <3>1
    <2> HIDE DEF f, E
    <2> QED
      BY <2>4
  <1>4. Some(n)
    <2> HIDE DEF Some
    <2>1. 0 \in S /\ n \in 0 .. n
      BY <1>1, <1>2
    <2>2. \A k \in 1 .. n : k - 1 \in S => k \in S
      BY <1>3
    <2> HIDE DEF S
    <2>3. n \in S
      BY <1>1, <2>1, <2>2, UpTo
    <2> QED
      BY <2>3 DEF S
  <1> DEFINE total == CHOOSE f : E(f, n)
  <1>5. E(total, n)
    <2> HIDE DEF E
    <2> QED
      BY <1>4, Zenon
  <1>6. TotalError(e) = total[n]
    BY Zenon DEF TotalError
  <1> HIDE DEF total
  <1>7. \A i \in 0 .. n : total[i] = V(total, i)
    <2> HIDE DEF V
    <2> QED
      BY <1>5, Zenon
  <1>8. total[0] = Zero /\ \A i \in 1 .. n : total[i] = Plus(total[i - 1], e[i - 1])
    BY <1>1, <1>7
  <1>9. PICK g : /\ \A i \in 0 .. n : g[i] \in Int
                 /\ g[0] = 0 /\ \A i \in 1 .. n : g[i] = g[i - 1] + v[i]
                 /\ SumTo(v, n) = g[n]
    BY PartialSums
  <1> DEFINE T == {i \in 0 .. n : Value(total[i], g[i], d)}
  <1>10. 0 \in T
    <2>1. Value(Whole(0), 0 * d, d) /\ 0 * d = 0
      BY WholeValue
    <2> QED
      BY <1>1, <1>8, <1>9, <2>1 DEF Zero
  <1>11. \A i \in 1 .. n : i - 1 \in T => i \in T
    <2> SUFFICES ASSUME NEW i \in 1 .. n, Value(total[i - 1], g[i - 1], d)
                 PROVE  Value(total[i], g[i], d)
      OBVIOUS
    <2>1. i - 1 \in 0 .. n /\ g[i - 1] \in Int /\ v[i] \in Int /\ Value(e[i - 1], v[i], d)
      BY <1>1, <1>9
    <2>2. Value(Plus(total[i - 1], e[i - 1]), g[i - 1] + v[i], d)
      BY <2>1, PlusValue
    <2> QED
      BY <1>8, <1>9, <2>2
  <1>12. n \in T
    <2> HIDE DEF T
    <2>1. n \in 0 .. n
      BY <1>1
    <2> QED
      BY <1>1, <1>10, <1>11, <2>1, UpTo
  <1> QED
    BY <1>6, <1>9, <1>12

LEMMA FormType ==
  ASSUME NEW m \in Sums, NEW u \in Int, NEW v \in Int, NEW w \in Int
  PROVE  Form(m, u, v, w) \in Int
  <1>1. /\ m[0] \in Int /\ m[1] \in Int /\ m[2] \in Int /\ m[3] \in Int
        /\ m[4] \in Int /\ m[5] \in Int
    BY DEF Sums
  <1> QED
    BY <1>1 DEF Form

(* The form of added sums is the sum of the forms. *)
LEMMA SumForms ==
  ASSUME NEW n \in Nat, NEW g \in [1 .. n -> Sums], NEW u \in Int, NEW v \in Int, NEW w \in Int
  PROVE  Form([j \in 0 .. 5 |-> SumTo([i \in 1 .. n |-> g[i][j]], n)], u, v, w)
           = SumTo([i \in 1 .. n |-> Form(g[i], u, v, w)], n)
  <1> DEFINE terms(j) == [i \in 1 .. n |-> g[i][j]]
             forms == [i \in 1 .. n |-> Form(g[i], u, v, w)]
             Partial(h, a) == /\ \A i \in 0 .. n : h[i] \in Int
                              /\ h[0] = 0 /\ \A i \in 1 .. n : h[i] = h[i - 1] + a[i]
                              /\ SumTo(a, n) = h[n]
             part(j) == CHOOSE h : Partial(h, terms(j))
             upto(k) == [j \in 0 .. 5 |-> part(j)[k]]
  <1>1. \A j \in 0 .. 5 : \A i \in 1 .. n : terms(j)[i] = g[i][j] /\ terms(j)[i] \in Int
    BY DEF Sums
  <1> HIDE DEF terms
  <1>2. ASSUME NEW j \in 0 .. 5 PROVE Partial(part(j), terms(j))
    <2>1. \E h : Partial(h, terms(j))
      BY <1>1, PartialSums
    <2> HIDE DEF Partial
    <2> QED
      BY <2>1, Zenon
  <1> HIDE DEF part
  <1>3. \A k \in 0 .. n : upto(k) \in Sums
    BY <1>2 DEF Sums
  <1>4. \A k \in 1 .. n : \A j \in 0 .. 5 : upto(k)[j] = upto(k - 1)[j] + g[k][j]
    BY <1>1, <1>2
  <1>5. \A j \in 0 .. 5 : upto(0)[j] = 0 /\ upto(n)[j] = SumTo(terms(j), n)
    BY <1>2
  <1>6. [j \in 0 .. 5 |-> SumTo([i \in 1 .. n |-> g[i][j]], n)] = upto(n)
    BY <1>5 DEF terms
  <1> HIDE DEF upto
  <1>7. \A i \in 1 .. n : forms[i] = Form(g[i], u, v, w) /\ forms[i] \in Int
    <2>1. \A i \in 1 .. n : g[i] \in Sums
      OBVIOUS
    <2> QED
      BY <2>1, FormType
  <1>8. PICK h : Partial(h, forms)
    <2> HIDE DEF forms
    <2> QED
      BY <1>7, PartialSums
  <1>9. forms = [i \in 1 .. n |-> Form(g[i], u, v, w)]
    OBVIOUS
  <1> HIDE DEF forms
  <1> DEFINE S == {k \in 0 .. n : Form(upto(k), u, v, w) = h[k]}
  <1>10. 0 \in S
    <2>1. Form(upto(0), u, v, w) = 0
      BY <1>5 DEF Form
    <2> QED
      BY <1>8, <2>1
  <1>11. \A k \in 1 .. n : k - 1 \in S => k \in S
    <2> SUFFICES ASSUME NEW k \in 1 .. n, Form(upto(k - 1), u, v, w) = h[k - 1]
                 PROVE  Form(upto(k), u, v, w) = h[k]
      OBVIOUS
    <2>1. k - 1 \in 0 .. n /\ k \in 0 .. n
      OBVIOUS
    <2>2. upto(k) \in Sums /\ upto(k - 1) \in Sums /\ g[k] \in Sums
      BY <1>3, <2>1
    <2>3. Form(upto(k), u, v, w) = Form(upto(k - 1), u, v, w) + Form(g[k], u, v, w)
      BY <1>4, <2>2, FormAdds
    <2> QED
      BY <1>7, <1>8, <2>3
  <1>12. n \in S
    <2> HIDE DEF S
    <2>1. n \in 0 .. n
      OBVIOUS
    <2> QED
      BY <1>10, <1>11, <2>1, UpTo
  <1> QED
    BY <1>6, <1>8, <1>9, <1>12

(* The forms of the frames of p add up to that of its sums. *)
LEMMA SumCorrForms ==
  ASSUME frame_count \in Nat, corr \in [Frames -> Sums], NEW p,
         NEW u \in Int, NEW v \in Int, NEW w \in Int
  PROVE  Form(SumCorr(p), u, v, w)
           = SumTo([i \in 1 .. frame_count |->
                      IF predictors[i - 1] = p THEN Form(corr[i - 1], u, v, w) ELSE 0],
                   frame_count)
  <1> DEFINE zero == [j \in 0 .. 5 |-> 0]
             g == [i \in 1 .. frame_count |-> IF predictors[i - 1] = p THEN corr[i - 1] ELSE zero]
             terms(j) ==
               [i \in 1 .. frame_count |-> IF predictors[i - 1] = p THEN corr[i - 1][j] ELSE 0]
  <1>1. zero \in Sums /\ Form(zero, u, v, w) = 0
    BY DEF Sums, Form
  <1>2. g \in [1 .. frame_count -> Sums]
    <2>1. \A i \in 1 .. frame_count : i - 1 \in Frames
      BY DEF Frames
    <2> HIDE DEF zero
    <2> QED
      BY <1>1, <2>1
  <1>3. \A j \in 0 .. 5 : [i \in 1 .. frame_count |-> g[i][j]] = terms(j)
    OBVIOUS
  <1>4. SumCorr(p) = [j \in 0 .. 5 |-> SumTo(terms(j), frame_count)]
    BY Zenon DEF SumCorr
  <1> HIDE DEF terms
  <1>5. SumCorr(p) = [j \in 0 .. 5 |-> SumTo([i \in 1 .. frame_count |-> g[i][j]], frame_count)]
    BY <1>3, <1>4
  <1>6. Form(SumCorr(p), u, v, w)
          = SumTo([i \in 1 .. frame_count |-> Form(g[i], u, v, w)], frame_count)
    <2> HIDE DEF g
    <2>1. Form([j \in 0 .. 5 |-> SumTo([i \in 1 .. frame_count |-> g[i][j]], frame_count)],
               u, v, w)
            = SumTo([i \in 1 .. frame_count |-> Form(g[i], u, v, w)], frame_count)
      BY <1>2, SumForms
    <2> QED
      BY <1>5, <2>1, Zenon
  <1> HIDE DEF zero
  <1>7. [i \in 1 .. frame_count |-> Form(g[i], u, v, w)]
          = [i \in 1 .. frame_count |->
               IF predictors[i - 1] = p THEN Form(corr[i - 1], u, v, w) ELSE 0]
    BY <1>1
  <1> QED
    BY <1>6, <1>7

LEMMA SumCorrSemiDefinite ==
  ASSUME frame_count \in Nat, corr \in [Frames -> Sums], \A f \in Frames : SemiDefinite(corr[f]),
         NEW p
  PROVE  SemiDefinite(SumCorr(p))
  <1> SUFFICES ASSUME NEW u \in Int, NEW v \in Int, NEW w \in Int
               PROVE  Form(SumCorr(p), u, v, w) >= 0
    BY DEF SemiDefinite
  <1> DEFINE a == [i \in 1 .. frame_count |-> 0]
             b == [i \in 1 .. frame_count |->
                     IF predictors[i - 1] = p THEN Form(corr[i - 1], u, v, w) ELSE 0]
  <1>1. ASSUME NEW i \in 1 .. frame_count PROVE b[i] \in Int /\ b[i] >= 0
    <2> DEFINE m == corr[i - 1]
    <2>1. i - 1 \in Frames
      BY DEF Frames
    <2>2. Form(m, u, v, w) >= 0
      BY <2>1 DEF SemiDefinite
    <2>3. Form(m, u, v, w) \in Int
      <3>1. m \in Sums
        BY <2>1
      <3> HIDE DEF m
      <3> QED
        BY <3>1, FormType
    <2> QED
      BY <2>2, <2>3
  <1>2. \A i \in 1 .. frame_count : a[i] = 0
    OBVIOUS
  <1>3. Form(SumCorr(p), u, v, w) = SumTo(b, frame_count)
    BY SumCorrForms
  <1> HIDE DEF a, b
  <1>4. SumTo(a, frame_count) = 0
    BY <1>2, SumOfZeros
  <1>5. SumTo(a, frame_count) <= SumTo(b, frame_count)
    BY <1>1, <1>2, SumAtMost
  <1>6. SumTo(b, frame_count) \in Int
    BY <1>1, SumToIsInt
  <1> QED
    BY <1>3, <1>4, <1>5, <1>6
---------------------------------------------------------------------------------
(* Clusters and their coefficients *)

(* Coefficients over a common denominator. *)
Over2(c, i, j, d) == Value(c[0], i, d) /\ Value(c[1], j, d)

LEMMA CommonDenominator ==
  ASSUME NEW n \in Nat, NEW h \in [1 .. n -> Coefficients]
  PROVE  \E d \in Nat \ {0} : \A k \in 1 .. n : \E i, j \in Int : Over2(h[k], i, j, d)
  <1> DEFINE Common(k) ==
               \E d \in Nat \ {0} : \A l \in 1 .. k : \E i, j \in Int : Over2(h[l], i, j, d)
             S == {k \in 0 .. n : Common(k)}
  <1>1. 0 \in S
    <2>1. 1 \in Nat \ {0} /\ 1 .. 0 = {}
      OBVIOUS
    <2> QED
      BY <2>1
  <1>2. ASSUME NEW k \in 1 .. n, Common(k - 1) PROVE Common(k)
    <2>1. PICK d \in Nat \ {0} : \A l \in 1 .. k - 1 : \E i, j \in Int : Over2(h[l], i, j, d)
      BY <1>2
    <2> DEFINE c == h[k]
               a == c[0][2]
               b == c[1][2]
               g == a * b
               e == g * d
    <2>2. /\ c[0] \in RationalNumbers /\ c[1] \in RationalNumbers
          /\ c[0][1] \in Int /\ a \in Int /\ a > 0 /\ c[1][1] \in Int /\ b \in Int /\ b > 0
      BY RationalParts DEF Coefficients
    <2>3. d \in Int /\ d > 0
      OBVIOUS
    <2>4. Over2(c, (b * d) * c[0][1], (a * d) * c[1][1], e)
          /\ (b * d) * c[0][1] \in Int /\ (a * d) * c[1][1] \in Int
      <3>1. b * d \in Int /\ b * d > 0 /\ a * d \in Int /\ a * d > 0
        BY <2>2, <2>3
      <3>2. /\ Value(c[0], (b * d) * c[0][1], (b * d) * a)
            /\ Value(c[1], (a * d) * c[1][1], (a * d) * b)
        BY <2>2, <3>1, OwnValue
      <3>3. (b * d) * a = e /\ (a * d) * b = e
        BY <2>2, <2>3
      <3>4. Value(c[0], (b * d) * c[0][1], e) /\ Value(c[1], (a * d) * c[1][1], e)
        BY <3>2, <3>3
      <3>5. (b * d) * c[0][1] \in Int /\ (a * d) * c[1][1] \in Int
        <4> DEFINE x == b * d
                   y == a * d
                   p == c[0][1]
                   q == c[1][1]
        <4>1. x \in Int /\ y \in Int /\ p \in Int /\ q \in Int
          BY <2>2, <3>1
        <4> HIDE DEF x, y, p, q
        <4>2. x * p \in Int /\ y * q \in Int
          BY <4>1
        <4> QED
          BY <4>2 DEF x, y, p, q
      <3> QED
        BY <3>4, <3>5 DEF Over2
    <2>5. g \in Int /\ g > 0
      BY <2>2
    <2> HIDE DEF a, b, g, c
    <2>6. e \in Nat \ {0}
      <3>1. e > 0 /\ e \in Int
        BY <2>3, <2>5
      <3> QED
        BY <3>1
    <2>7. ASSUME NEW l \in 1 .. k PROVE \E i, j \in Int : Over2(h[l], i, j, e)
      <3>1. CASE l = k
        BY <2>4, <3>1 DEF c
      <3>2. CASE l # k
        <4>1. l \in 1 .. k - 1
          BY <3>2
        <4>2. PICK i \in Int, j \in Int : Over2(h[l], i, j, d)
          BY <2>1, <4>1
        <4>3. Over2(h[l], g * i, g * j, e)
          BY <2>3, <2>5, <4>2, ScaledValue DEF Over2
        <4>4. g * i \in Int /\ g * j \in Int
          BY <2>5
        <4> QED
          BY <4>3, <4>4
      <3> QED
        BY <3>1, <3>2
    <2> HIDE DEF e
    <2> QED
      BY <2>6, <2>7
  <1> HIDE DEF Common
  <1>3. \A k \in 1 .. n : k - 1 \in S => k \in S
    BY <1>2
  <1>4. n \in S
    <2> HIDE DEF S
    <2>1. n \in 0 .. n
      OBVIOUS
    <2> QED
      BY <1>1, <1>3, <2>1, UpTo
  <1> QED
    BY <1>4 DEF Common

(***************************************************************************)
(* Numbering the clusters anew gives each of them a number.                *)
(***************************************************************************)
LEMMA ClusterPlaces ==
  ASSUME active_count \in Nat, NEW p \in Clusters
  PROVE  \E i \in 0 .. Cardinality(Clusters) - 1 : Cluster(i) = p
  <1> DEFINE below(q) == {r \in Clusters : r < q}
             count == Cardinality(Clusters)
  <1>1. IsFiniteSet(Clusters) /\ Clusters \subseteq Int
    <2>1. IsFiniteSet(0 .. active_count - 1)
      <3>1. 0 \in Int /\ active_count - 1 \in Int
        OBVIOUS
      <3> QED
        BY <3>1, FS_Interval
    <2>2. Clusters \subseteq 0 .. active_count - 1
      BY DEF Clusters
    <2>3. Clusters \subseteq Int
      BY <2>2
    <2>4. IsFiniteSet(Clusters)
      BY <2>1, <2>2, FS_Subset
    <2> QED
      BY <2>3, <2>4
  <1>2. \A q \in Clusters : below(q) \subseteq Clusters /\ q \notin below(q)
    BY <1>1
  <1>3. \A q, r \in Clusters : q < r => /\ below(q) \subseteq below(r)
                                        /\ q \in below(r) /\ q \notin below(q)
    <2> SUFFICES ASSUME NEW q \in Clusters, NEW r \in Clusters, q < r
                 PROVE  /\ below(q) \subseteq below(r)
                        /\ q \in below(r) /\ q \notin below(q)
      OBVIOUS
    <2>1. q \in Int /\ r \in Int
      BY <1>1
    <2>2. \A x \in Clusters : x < q => x < r
      BY <1>1, <2>1
    <2>3. \A x \in below(q) : x \in below(r)
      BY <2>2
    <2>4. q \in below(r) /\ q \notin below(q)
      BY <2>1
    <2> HIDE DEF below
    <2> QED
      BY <2>3, <2>4
  <1>4. \A q \in Clusters : IsFiniteSet(below(q))
    BY <1>1, <1>2, FS_Subset
  <1>5. \A q, r \in Clusters : q < r \/ q = r \/ r < q
    BY <1>1
  <1> HIDE DEF below
  <1>6. \A q \in Clusters : Cardinality(below(q)) \in Nat
    BY <1>4, FS_CardinalityType
  <1>7. \A q, r \in Clusters : q < r => Cardinality(below(q)) < Cardinality(below(r))
    <2> SUFFICES ASSUME NEW q \in Clusters, NEW r \in Clusters, q < r
                 PROVE  Cardinality(below(q)) < Cardinality(below(r))
      OBVIOUS
    <2>1. /\ Cardinality(below(q)) <= Cardinality(below(r))
          /\ Cardinality(below(r)) = Cardinality(below(q)) => below(r) = below(q)
      BY <1>3, <1>4, FS_Subset
    <2>2. below(r) # below(q)
      BY <1>3
    <2> QED
      BY <1>6, <2>1, <2>2
  <1>8. count \in Nat /\ Cardinality(below(p)) < count
    <2>1. count \in Nat
      BY <1>1, FS_CardinalityType
    <2>2. /\ Cardinality(below(p)) <= count
          /\ count = Cardinality(below(p)) => Clusters = below(p)
      BY <1>1, <1>2, FS_Subset
    <2> HIDE DEF count
    <2> QED
      BY <1>2, <1>6, <2>1, <2>2
  <1> DEFINE i == Cardinality(below(p))
  <1>9. i \in 0 .. count - 1
    <2> HIDE DEF count
    <2> QED
      BY <1>6, <1>8
  <1>10. Cluster(i) = CHOOSE q \in Clusters : Cardinality(below(q)) = i
    BY Zenon DEF Cluster, below
  <1>11. Cluster(i) \in Clusters /\ Cardinality(below(Cluster(i))) = i
    BY <1>10, Zenon
  <1>12. Cluster(i) = p
    BY <1>5, <1>6, <1>7, <1>11
  <1> QED
    BY <1>9, <1>12

LEMMA CommonOfThree ==
  ASSUME NEW n \in Nat, NEW k \in Nat, NEW a \in [0 .. n - 1 -> Coefficients],
         NEW b \in [0 .. n - 1 -> Coefficients], NEW c \in [0 .. k - 1 -> Coefficients]
  PROVE  \E d \in Nat \ {0} :
           /\ \A l \in 0 .. n - 1 : \E i, j \in Int : Over2(a[l], i, j, d)
           /\ \A l \in 0 .. n - 1 : \E i, j \in Int : Over2(b[l], i, j, d)
           /\ \A l \in 0 .. k - 1 : \E i, j \in Int : Over2(c[l], i, j, d)
  <1> DEFINE twice == n + n
             size == twice + k
             h == [l \in 1 .. size |-> IF l <= n THEN a[l - 1]
                                       ELSE IF l <= twice THEN b[(l - n) - 1]
                                       ELSE c[(l - twice) - 1]]
  <1>1. size \in Nat /\ h \in [1 .. size -> Coefficients]
    <2>1. ASSUME NEW l \in 1 .. size PROVE h[l] \in Coefficients
      <3>1. l <= n => l - 1 \in 0 .. n - 1
        OBVIOUS
      <3>2. l > n /\ l <= twice => (l - n) - 1 \in 0 .. n - 1
        OBVIOUS
      <3>3. l > twice => (l - twice) - 1 \in 0 .. k - 1
        OBVIOUS
      <3>4. CASE l <= n
        BY <3>1, <3>4
      <3>5. CASE ~(l <= n) /\ l <= twice
        BY <3>2, <3>5
      <3>6. CASE ~(l <= n) /\ ~(l <= twice)
        BY <3>3, <3>6
      <3> QED
        BY <3>4, <3>5, <3>6
    <2> QED
      BY <2>1
  <1>2. ASSUME NEW l \in 0 .. n - 1
        PROVE  /\ l + 1 \in 1 .. size /\ h[l + 1] = a[l]
               /\ (l + 1) + n \in 1 .. size /\ h[(l + 1) + n] = b[l]
    OBVIOUS
  <1>3. ASSUME NEW l \in 0 .. k - 1
        PROVE  (l + 1) + twice \in 1 .. size /\ h[(l + 1) + twice] = c[l]
    OBVIOUS
  <1> HIDE DEF h, size
  <1>4. PICK d \in Nat \ {0} : \A l \in 1 .. size : \E i, j \in Int : Over2(h[l], i, j, d)
    BY <1>1, CommonDenominator
  <1>5. ASSUME NEW l \in 0 .. n - 1
        PROVE  /\ \E i, j \in Int : Over2(a[l], i, j, d)
               /\ \E i, j \in Int : Over2(b[l], i, j, d)
    BY <1>2, <1>4
  <1>6. ASSUME NEW l \in 0 .. k - 1 PROVE \E i, j \in Int : Over2(c[l], i, j, d)
    BY <1>3, <1>4
  <1> QED
    BY <1>5, <1>6

(* The numerators, as functions. *)
LEMMA Numerators ==
  ASSUME NEW S, NEW h, NEW d, \A k \in S : \E i, j \in Int : Over2(h[k], i, j, d)
  PROVE  \E x, y \in [S -> Int] : \A k \in S : Over2(h[k], x[k], y[k], d)
  <1> DEFINE x == [k \in S |-> CHOOSE i \in Int : \E j \in Int : Over2(h[k], i, j, d)]
             y == [k \in S |-> CHOOSE j \in Int : Over2(h[k], x[k], j, d)]
  <1>1. ASSUME NEW k \in S
        PROVE  x[k] \in Int /\ \E j \in Int : Over2(h[k], x[k], j, d)
    <2>1. \E i \in Int : \E j \in Int : Over2(h[k], i, j, d)
      OBVIOUS
    <2>2. x[k] = CHOOSE i \in Int : \E j \in Int : Over2(h[k], i, j, d)
      BY Zenon
    <2> HIDE DEF x
    <2> QED
      BY <2>1, <2>2, Zenon
  <1>2. x \in [S -> Int]
    BY <1>1
  <1>3. ASSUME NEW k \in S PROVE y[k] \in Int /\ Over2(h[k], x[k], y[k], d)
    <2>1. y[k] = CHOOSE j \in Int : Over2(h[k], x[k], j, d)
      BY Zenon
    <2> HIDE DEF x, y
    <2> QED
      BY <1>1, <2>1, Zenon
  <1>4. y \in [S -> Int]
    BY <1>3
  <1> HIDE DEF x, y
  <1> QED
    BY <1>2, <1>3, <1>4

LEMMA ErrorIsForm ==
  ASSUME NEW m \in Sums, NEW i \in Int, NEW j \in Int, NEW d \in Int
  PROVE  ErrorOver(m, i, j, d) = Form(m, d, -i, -j) /\ ErrorOver(m, i, j, d) \in Int
  <1>1. /\ m[0] \in Int /\ m[1] \in Int /\ m[2] \in Int /\ m[3] \in Int
        /\ m[4] \in Int /\ m[5] \in Int
    BY DEF Sums
  <1>2. /\ (-i) * (-i) = i * i /\ (-j) * (-j) = j * j /\ (-i) * (-j) = i * j
        /\ d * (-i) = -(i * d) /\ d * (-j) = -(j * d)
    OBVIOUS
  <1> DEFINE m0 == m[0]
             m1 == m[1]
             m2 == m[2]
             m3 == m[3]
             m4 == m[4]
             m5 == m[5]
             dd == d * d
             ii == i * i
             jj == j * j
             ij == i * j
             id == i * d
             jd == j * d
  <1>3. /\ Form(m, d, -i, -j)
             = ((dd * m0 + ii * m2) + jj * m5) + 2 * (((-id) * m1 + (-jd) * m3) + ij * m4)
        /\ ErrorOver(m, i, j, d)
             = (m0 * dd + (m2 * ii + m5 * jj)) + 2 * (m4 * ij - (m1 * id + m3 * jd))
    BY <1>2 DEF Form, ErrorOver
  <1>4. /\ m0 \in Int /\ m1 \in Int /\ m2 \in Int /\ m3 \in Int /\ m4 \in Int /\ m5 \in Int
        /\ dd \in Int /\ ii \in Int /\ jj \in Int /\ ij \in Int /\ id \in Int /\ jd \in Int
    BY <1>1
  <1> HIDE DEF m0, m1, m2, m3, m4, m5, dd, ii, jj, ij, id, jd
  <1>5. /\ dd * m0 = m0 * dd /\ ii * m2 = m2 * ii /\ jj * m5 = m5 * jj
        /\ (-id) * m1 = -(m1 * id) /\ (-jd) * m3 = -(m3 * jd) /\ ij * m4 = m4 * ij
        /\ m0 * dd \in Int /\ m2 * ii \in Int /\ m5 * jj \in Int
        /\ m1 * id \in Int /\ m3 * jd \in Int /\ m4 * ij \in Int
    BY <1>4
  <1> QED
    BY <1>3, <1>5

(* The coefficients h are x and y over d. *)
OverAll(h, x, y, d, n) ==
    /\ x \in [0 .. n - 1 -> Int] /\ y \in [0 .. n - 1 -> Int]
    /\ \A k \in 0 .. n - 1 : Over2(h[k], x[k], y[k], d)

(* The errors of the frames with coefficients that are x and y over d. *)
ErrorsOver(e, x, y, d) ==
    e = [i \in 1 .. frame_count |->
           ErrorOver(corr[i - 1], x[predictors[i - 1]], y[predictors[i - 1]], d)]

(***************************************************************************)
(* If each predictor's frames have, added up, no greater error with the    *)
(* coefficients best than with own, then all the frames together do not.   *)
(***************************************************************************)
LEMMA ClassesImprove ==
  ASSUME frame_count \in Nat, corr \in [Frames -> Sums], NEW n \in Nat,
         \A f \in Frames : predictors[f] \in 0 .. n - 1,
         NEW d \in Int, d > 0, NEW best, NEW own, NEW x, NEW y, NEW v, NEW w,
         OverAll(best, x, y, d, n), OverAll(own, v, w, d, n),
         \A k \in 0 .. n - 1 : AtMost(Eval(SumCorr(k), best[k]), Eval(SumCorr(k), own[k])),
         NEW a, NEW b, ErrorsOver(a, x, y, d), ErrorsOver(b, v, w, d)
  PROVE  SumTo(a, frame_count) <= SumTo(b, frame_count)
  <1> USE DEF OverAll, ErrorsOver
  <1> DEFINE class == [i \in 1 .. frame_count |-> predictors[i - 1]]
             in(c, k) == [i \in 1 .. frame_count |-> IF class[i] = k THEN c[i] ELSE 0]
             form(k, i, j) == [l \in 1 .. frame_count |->
                                 IF predictors[l - 1] = k THEN Form(corr[l - 1], d, i, j) ELSE 0]
  <1>1. \A i \in 1 .. frame_count : i - 1 \in Frames
    BY DEF Frames
  <1>2. class \in [1 .. frame_count -> 0 .. n - 1]
    BY <1>1
  <1>3. ASSUME NEW i \in 1 .. frame_count
        PROVE  /\ a[i] = Form(corr[i - 1], d, -x[predictors[i - 1]], -y[predictors[i - 1]])
               /\ b[i] = Form(corr[i - 1], d, -v[predictors[i - 1]], -w[predictors[i - 1]])
               /\ a[i] \in Int /\ b[i] \in Int
    <2> DEFINE m == corr[i - 1]
               k == predictors[i - 1]
    <2>1. m \in Sums /\ k \in 0 .. n - 1
      BY <1>1
    <2>2. a[i] = ErrorOver(m, x[k], y[k], d) /\ b[i] = ErrorOver(m, v[k], w[k], d)
      OBVIOUS
    <2> HIDE DEF m, k, ErrorsOver
    <2>3. x[k] \in Int /\ y[k] \in Int /\ v[k] \in Int /\ w[k] \in Int
      BY <2>1
    <2>4. /\ ErrorOver(m, x[k], y[k], d) = Form(m, d, -x[k], -y[k])
          /\ ErrorOver(m, x[k], y[k], d) \in Int
      BY <2>1, <2>3, ErrorIsForm
    <2>5. /\ ErrorOver(m, v[k], w[k], d) = Form(m, d, -v[k], -w[k])
          /\ ErrorOver(m, v[k], w[k], d) \in Int
      BY <2>1, <2>3, ErrorIsForm
    <2> QED
      BY <2>2, <2>4, <2>5 DEF m, k
  <1>4. a \in [1 .. frame_count -> Int] /\ b \in [1 .. frame_count -> Int]
    BY <1>3
  <1>5. ASSUME NEW k \in 0 .. n - 1
        PROVE  /\ in(a, k) = form(k, -x[k], -y[k])
               /\ in(b, k) = form(k, -v[k], -w[k])
    <2> HIDE DEF ErrorsOver
    <2>1. ASSUME NEW i \in 1 .. frame_count
          PROVE  /\ (IF class[i] = k THEN a[i] ELSE 0)
                      = (IF predictors[i - 1] = k THEN Form(corr[i - 1], d, -x[k], -y[k]) ELSE 0)
                 /\ (IF class[i] = k THEN b[i] ELSE 0)
                      = (IF predictors[i - 1] = k THEN Form(corr[i - 1], d, -v[k], -w[k]) ELSE 0)
      BY <1>3
    <2> HIDE DEF class
    <2> QED
      BY <2>1
  <1> HIDE DEF class, in
  <1>6. ASSUME NEW k \in 0 .. n - 1
        PROVE  SumTo(in(a, k), frame_count) <= SumTo(in(b, k), frame_count)
    <2> DEFINE m == SumCorr(k)
               p == ErrorOver(m, x[k], y[k], d)
               q == ErrorOver(m, v[k], w[k], d)
    <2>1. m \in Sums
      BY SumCorrIs
    <2>2. /\ x[k] \in Int /\ y[k] \in Int /\ v[k] \in Int /\ w[k] \in Int
          /\ -x[k] \in Int /\ -y[k] \in Int /\ -v[k] \in Int /\ -w[k] \in Int
      OBVIOUS
    <2>3. /\ Form(m, d, -x[k], -y[k]) = SumTo(form(k, -x[k], -y[k]), frame_count)
          /\ Form(m, d, -v[k], -w[k]) = SumTo(form(k, -v[k], -w[k]), frame_count)
      <3>1. \A i, j \in Int : Form(m, d, i, j) = SumTo(form(k, i, j), frame_count)
        BY SumCorrForms
      <3> HIDE DEF form, m
      <3> QED
        BY <2>2, <3>1
    <2> HIDE DEF form
    <2>4. Value(Eval(m, best[k]), p, d * d) /\ Value(Eval(m, own[k]), q, d * d)
      <3> HIDE DEF m
      <3> QED
        BY <2>1, <2>2, EvalValue DEF Over2
    <2>5. AtMost(Eval(m, best[k]), Eval(m, own[k]))
      OBVIOUS
    <2> HIDE DEF m
    <2>6. /\ p = Form(m, d, -x[k], -y[k]) /\ p \in Int
          /\ q = Form(m, d, -v[k], -w[k]) /\ q \in Int
      BY <2>1, <2>2, ErrorIsForm
    <2> HIDE DEF p, q
    <2>7. d * d \in Int /\ d * d > 0
      OBVIOUS
    <2>8. p <= q
      BY <2>4, <2>5, <2>6, <2>7, AtMostValue
    <2> QED
      BY <1>5, <2>3, <2>6, <2>8
  <1> QED
    <2> DEFINE p == [k \in 0 .. n - 1 |-> in(a, k)]
               q == [k \in 0 .. n - 1 |-> in(b, k)]
    <2>1. \A k \in 0 .. n - 1 : p[k] = in(a, k) /\ q[k] = in(b, k)
      OBVIOUS
    <2> HIDE DEF p, q
    <2>2. \A k \in 0 .. n - 1 : \A i \in 1 .. frame_count :
            /\ p[k][i] = IF class[i] = k THEN a[i] ELSE 0
            /\ q[k][i] = IF class[i] = k THEN b[i] ELSE 0
      <3> HIDE DEF ErrorsOver, OverAll
      <3>1. \A k, i : i \in 1 .. frame_count =>
              /\ in(a, k)[i] = IF class[i] = k THEN a[i] ELSE 0
              /\ in(b, k)[i] = IF class[i] = k THEN b[i] ELSE 0
        BY DEF in
      <3>2. \A k \in 0 .. n - 1 : \A i \in 1 .. frame_count :
              p[k][i] = in(a, k)[i] /\ q[k][i] = in(b, k)[i]
        BY <2>1
      <3> QED
        BY <3>1, <3>2
    <2>3. \A k \in 0 .. n - 1 : SumTo(p[k], frame_count) <= SumTo(q[k], frame_count)
      BY <1>6, <2>1
    <2> QED
      <3>1. ByClass(frame_count, n, class, a, b, p, q)
        BY <1>2, <1>4, <2>2, <2>3, Zenon DEF ByClass
      <3> QED
        BY <3>1, SumByClass
---------------------------------------------------------------------------------
(* A round of the refinement *)

(* From one round to the next, the errors of a predictor's frames are those of the *)
(* same coefficients.                                                              *)
OneFilter(p, f, e) ==
    \E c \in Coefficients : \A g \in Frames : f[g] = p => e[g] = Eval(corr[g], c)

Grouped ==
    src # NoSound /\ ((pc \in {"iterate", "refine"} /\ iter > 0) \/ pc = "worst") =>
        \A p : OneFilter(p, predictors, error)

LEMMA GroupedRefine ==
  ASSUME VInv, src # NoSound, RefinePredictors
  PROVE  Grouped'
  <1> DEFINE count == Cardinality(Clusters)
             cs == [i \in 0 .. count - 1 |-> Stabilize(Solve(SumCorr(Cluster(i))))]
  <1>1. /\ count \in Nat \ {0}
        /\ coeff' \in [0 .. count - 1 -> Coefficients]
        /\ predictors' \in [Frames -> 0 .. count - 1]
    BY RefinedTypes
  <1>2. /\ coeff' = cs /\ error' = [f \in Frames |-> Eval(corr[f], cs[predictors'[f]])]
    BY Zenon DEF RefinePredictors
  <1>3. corr' = corr /\ Frames' = Frames
    BY DEF RefinePredictors, Frames
  <1> HIDE DEF cs, count
  <1>4. ASSUME NEW p
        PROVE  \E c \in Coefficients : \A g \in Frames :
                 predictors'[g] = p => error'[g] = Eval(corr[g], c)
    <2>1. CASE p \in 0 .. count - 1
      <3>1. cs[p] \in Coefficients
        BY <1>1, <1>2, <2>1
      <3> QED
        BY <1>2, <3>1
    <2>2. CASE p \notin 0 .. count - 1
      <3>1. cs[0] \in Coefficients
        BY <1>1, <1>2
      <3> QED
        BY <1>1, <2>2, <3>1
    <2> QED
      BY <2>1, <2>2
  <1> QED
    BY <1>3, <1>4 DEF Grouped, OneFilter

(* The worst frame is the only one of its new predictor. *)
LEMMA GroupedSplit ==
  ASSUME VInv, Evaluated, Grouped, src # NoSound, SplitWorst
  PROVE  Grouped'
  <1>1. pc = "worst" /\ UNCHANGED <<frame_count, src, corr, error>>
    BY DEF SplitWorst, values
  <1>2. PICK worst \in Frames : predictors' = [predictors EXCEPT ![worst] = unassigned]
    BY SplitWorstSteps DEF AssignWorst
  <1>3. \A f \in Frames : predictors[f] # unassigned
    BY <1>1 DEF VInv, IInv, Counted, UnassignedIsUnused
  <1>4. predictors \in [Frames -> 0 .. MaxPredictorCount - 1]
    BY DEF VInv, IInv, TypeOK
  <1>5. /\ predictors'[worst] = unassigned
        /\ \A f \in Frames : f # worst => predictors'[f] = predictors[f]
    BY <1>2, <1>4
  <1>6. \A p : OneFilter(p, predictors, error)
    BY <1>1 DEF Grouped
  <1>7. ASSUME NEW p PROVE OneFilter(p, predictors', error)
    <2>1. CASE p = unassigned
      <3>1. PICK c \in Coefficients : error[worst] = Eval(corr[worst], c)
        BY <1>1 DEF Evaluated
      <3>2. \A f \in Frames : predictors'[f] = p => f = worst
        BY <1>3, <1>5, <2>1
      <3> QED
        BY <3>1, <3>2 DEF OneFilter
    <2>2. CASE p # unassigned
      <3>1. \A f \in Frames : predictors'[f] = p => predictors[f] = p
        BY <1>5, <2>2
      <3> QED
        BY <1>6, <3>1 DEF OneFilter
    <2> QED
      BY <2>1, <2>2
  <1>8. Frames' = Frames
    BY <1>1 DEF Frames
  <1> QED
    BY <1>1, <1>7, <1>8 DEF Grouped, OneFilter

LEMMA GroupedStep ==
  ASSUME VInv, Evaluated, Grouped, src # NoSound, ValuesStep
  PROVE  Grouped'
  <1> USE DEF Grouped
  <1>1. src' = src
    BY DEF ValuesStep, Autocorrelate, FindBestErrors, SplitWorst, RefinePredictors,
       EncodeFrames, EncodeNothing, values
  <1>2. CASE Autocorrelate
    BY <1>2 DEF Autocorrelate, Malloc
  <1>3. CASE FindBestErrors
    BY <1>3 DEF FindBestErrors, Malloc
  <1>4. CASE SplitWorst
    BY <1>4, GroupedSplit
  <1>5. CASE RefinePredictors
    BY <1>5, GroupedRefine
  <1>6. CASE EncodeFrames
    BY <1>6 DEF EncodeFrames, Finish, Return
  <1>7. CASE EncodeNothing
    BY <1>7 DEF EncodeNothing, NoFrames, Return
  <1>8. CASE /\ \/ BadParams \/ TooManyFrames \/ CheckParams \/ Malloc("corr", "predictors")
                \/ Malloc("error", "iterate")
                \/ \E block \in {"corr", "predictors", "best_error", "error"} :
                     MallocFails(block)
                \/ BeginAssign \/ Iterate \/ EndAssign
             /\ UNCHANGED values
    <2>1. CASE BadParams \/ TooManyFrames \/ CheckParams
      BY <2>1 DEF BadParams, TooManyFrames, CheckParams, Return
    <2>2. CASE Malloc("corr", "predictors")
      BY <2>2 DEF Malloc
    <2>3. CASE Malloc("error", "iterate")
      BY <2>3 DEF Malloc, assigned, VInv, Valued
    <2>4. CASE \E block \in {"corr", "predictors", "best_error", "error"} : MallocFails(block)
      BY <2>4 DEF MallocFails, Return
    <2>5. CASE BeginAssign
      BY <2>5 DEF BeginAssign
    <2>6. CASE Iterate
      <3>1. /\ Frames' = Frames /\ UNCHANGED <<predictors, corr, error>>
            /\ pc = "iterate" /\ iter' = iter
        BY <1>8, <2>6 DEF Iterate, Frames, assigned, values
      <3>2. iter \in Nat
        BY PredictorAssumption DEF VInv, IInv, TypeOK
      <3>3. pc' = "worst" => iter > 0
        BY <2>6, <3>1, <3>2 DEF Iterate, SomeUnassigned, VInv, Valued, IInv, TypeOK
      <3>4. pc' = "worst" \/ pc' = "refine"
        BY <2>6 DEF Iterate
      <3>5. iter > 0 => \A p : OneFilter(p, predictors, error)
        BY <3>1
      <3>6. \A p : OneFilter(p, predictors, error) => OneFilter(p, predictors, error)'
        BY <3>1 DEF OneFilter
      <3> QED
        BY <1>1, <3>1, <3>3, <3>4, <3>5, <3>6
    <2>7. CASE EndAssign
      BY <2>7 DEF EndAssign
    <2> QED
      BY <1>8, <2>1, <2>2, <2>3, <2>4, <2>5, <2>6, <2>7
  <1> QED
    BY <1>2, <1>3, <1>4, <1>5, <1>6, <1>7, <1>8 DEF ValuesStep

(***************************************************************************)
(* With the best coefficients for each predictor's frames, which are the   *)
(* same as before where there are no such frames, no error added up over a *)
(* predictor's frames is greater.                                          *)
(***************************************************************************)
LEMMA BestForClass ==
  ASSUME frame_count \in Nat, corr \in [Frames -> Sums], \A f \in Frames : SemiDefinite(corr[f]),
         NEW p, ~Adjusted(SumCorr(p)), NEW c \in Coefficients
  PROVE  AtMost(Eval(SumCorr(p), Stabilize(Solve(SumCorr(p)))), Eval(SumCorr(p), c))
  <1> DEFINE m == SumCorr(p)
  <1>1. m \in Sums /\ SemiDefinite(m)
    BY SumCorrIs, SumCorrSemiDefinite
  <1>2. ~NearlySingular(m) /\ ~Unstable(Solve(m))
    BY DEF Adjusted
  <1> HIDE DEF m
  <1>3. Stabilize(Solve(m)) = Solve(m)
    BY <1>2 DEF Stabilize, Unstable
  <1>4. AtMost(Eval(m, Solve(m)), Eval(m, c))
    BY <1>1, <1>2, SolvedIsLeast
  <1> QED
    BY <1>3, <1>4 DEF m

LEMMA RefineImproves ==
  ASSUME VInv, Evaluated, Grouped, src # NoSound, RefinePredictors, iter > 0, ~adjusted'
  PROVE  AtMost(TotalError(error'), TotalError(error))
  <1> DEFINE count == Cardinality(Clusters)
             cs == [i \in 0 .. count - 1 |-> Stabilize(Solve(SumCorr(Cluster(i))))]
             n == active_count
             Own(k, c) == \A f \in Frames : predictors[f] = k => error[f] = Eval(corr[f], c)
             own == [k \in 0 .. n - 1 |-> CHOOSE c \in Coefficients : Own(k, c)]
             best == [k \in 0 .. n - 1 |->
                        IF k \in Clusters THEN Stabilize(Solve(SumCorr(k))) ELSE own[k]]
  <1>1. /\ pc = "refine" /\ frame_count \in Nat /\ n \in Nat
        /\ \A f \in Frames : predictors[f] \in 0 .. n - 1
    <2>1. pc = "refine"
      BY DEF RefinePredictors
    <2>2. TypeOK /\ \A f \in Frames : predictors[f] < n
      BY <2>1 DEF VInv, IInv, Counted
    <2> QED
      BY <2>1, <2>2, PredictorAssumption DEF TypeOK
  <1>2. /\ corr \in [Frames -> Sums] /\ \A f \in Frames : SemiDefinite(corr[f])
        /\ \A p \in Clusters : ~Adjusted(SumCorr(p))
    <2>1. corr \in [Frames -> Sums]
      BY <1>1 DEF VInv, Valued
    <2>2. \A f \in Frames : SemiDefinite(corr[f])
      BY <1>1 DEF Evaluated
    <2>3. \A p \in Clusters : ~Adjusted(SumCorr(p))
      BY DEF RefinePredictors
    <2> QED
      BY <2>1, <2>2, <2>3
  <1>3. /\ count \in Nat \ {0}
        /\ coeff' \in [0 .. count - 1 -> Coefficients]
        /\ predictors' \in [Frames -> 0 .. count - 1]
    BY RefinedTypes
  <1>4. /\ coeff' = cs
        /\ predictors' = [f \in Frames |-> BestOf(cs, corr[f])]
        /\ error' = [f \in Frames |-> Eval(corr[f], cs[predictors'[f]])]
    BY Zenon DEF RefinePredictors
  <1>5. \A f \in Frames : predictors[f] \in Clusters
    BY <1>1 DEF Clusters
  <1>6. ASSUME NEW p \in Clusters
        PROVE  \E i \in 0 .. count - 1 : cs[i] = Stabilize(Solve(SumCorr(p)))
    <2>1. PICK i \in 0 .. count - 1 : Cluster(i) = p
      BY <1>1, ClusterPlaces
    <2>2. cs[i] = Stabilize(Solve(SumCorr(Cluster(i))))
      BY Zenon
    <2> QED
      BY <2>1, <2>2
  <1> HIDE DEF count, cs
  <1>7. ASSUME NEW k \in 0 .. n - 1 PROVE own[k] \in Coefficients /\ Own(k, own[k])
    <2>1. \E c \in Coefficients : Own(k, c)
      BY <1>1 DEF Grouped, OneFilter
    <2>2. own[k] = CHOOSE c \in Coefficients : Own(k, c)
      BY Zenon
    <2> HIDE DEF own, Own
    <2> QED
      BY <2>1, <2>2, Zenon
  <1>8. own \in [0 .. n - 1 -> Coefficients]
    BY <1>7
  <1> HIDE DEF own
  <1>9. best \in [0 .. n - 1 -> Coefficients]
    <2>1. \A k \in Clusters : Stabilize(Solve(SumCorr(k))) \in Coefficients
      BY <1>1, <1>2, SumCorrIs, SolveIs, StabilizeIs
    <2> QED
      BY <1>8, <2>1
  <1>10. \A k \in Clusters : k \in 0 .. n - 1 /\ best[k] = Stabilize(Solve(SumCorr(k)))
    BY <1>1 DEF Clusters
  <1>11. ASSUME NEW k \in 0 .. n - 1
         PROVE  AtMost(Eval(SumCorr(k), best[k]), Eval(SumCorr(k), own[k]))
    <2>1. CASE k \in Clusters
      <3>1. own[k] \in Coefficients
        BY <1>8
      <3> QED
        BY <1>1, <1>2, <1>10, <2>1, <3>1, BestForClass
    <2>2. CASE k \notin Clusters
      <3>1. best[k] = own[k] /\ own[k] \in Coefficients
        BY <1>8, <2>2
      <3>2. Eval(SumCorr(k), own[k]) \in RationalNumbers
        BY <1>1, <1>2, <3>1, SumCorrIs, EvalIs
      <3> QED
        BY <3>1, <3>2, AtMostTotal
    <2> QED
      BY <2>1, <2>2
  <1> HIDE DEF best
  <1>12. PICK d \in Nat \ {0} :
           /\ \A l \in 0 .. n - 1 : \E i, j \in Int : Over2(best[l], i, j, d)
           /\ \A l \in 0 .. n - 1 : \E i, j \in Int : Over2(own[l], i, j, d)
           /\ \A l \in 0 .. count - 1 : \E i, j \in Int : Over2(cs[l], i, j, d)
    BY <1>1, <1>3, <1>4, <1>8, <1>9, CommonOfThree
  <1>13. PICK x \in [0 .. n - 1 -> Int], y \in [0 .. n - 1 -> Int] :
           \A l \in 0 .. n - 1 : Over2(best[l], x[l], y[l], d)
    BY <1>12, Numerators
  <1>14. PICK v \in [0 .. n - 1 -> Int], w \in [0 .. n - 1 -> Int] :
           \A l \in 0 .. n - 1 : Over2(own[l], v[l], w[l], d)
    BY <1>12, Numerators
  <1>15. PICK s \in [0 .. count - 1 -> Int], t \in [0 .. count - 1 -> Int] :
           \A l \in 0 .. count - 1 : Over2(cs[l], s[l], t[l], d)
    BY <1>12, Numerators
  <1>16. d \in Int /\ d > 0 /\ d * d \in Int /\ d * d > 0
    OBVIOUS
  <1> DEFINE new == [i \in 1 .. frame_count |->
                       ErrorOver(corr[i - 1], s[predictors'[i - 1]], t[predictors'[i - 1]], d)]
             mid == [i \in 1 .. frame_count |->
                       ErrorOver(corr[i - 1], x[predictors[i - 1]], y[predictors[i - 1]], d)]
             old == [i \in 1 .. frame_count |->
                       ErrorOver(corr[i - 1], v[predictors[i - 1]], w[predictors[i - 1]], d)]
  <1>17. ASSUME NEW i \in 1 .. frame_count
         PROVE  /\ new[i] \in Int /\ mid[i] \in Int /\ old[i] \in Int
                /\ Value(error'[i - 1], new[i], d * d) /\ Value(error[i - 1], old[i], d * d)
                /\ new[i] <= mid[i]
    <2> DEFINE f == i - 1
               m == corr[f]
               k == predictors[f]
               l == predictors'[f]
    <2>1. f \in Frames
      BY <1>1 DEF Frames
    <2>2. m \in Sums /\ k \in 0 .. n - 1 /\ k \in Clusters /\ l \in 0 .. count - 1
      BY <1>1, <1>2, <1>3, <1>5, <2>1
    <2>3. l = BestOf(cs, m) /\ error'[f] = Eval(m, cs[l])
      BY <1>4, <2>1
    <2>4. error[f] = Eval(m, own[k])
      BY <1>7, <2>1, <2>2
    <2>5. /\ new[i] = ErrorOver(m, s[l], t[l], d)
          /\ mid[i] = ErrorOver(m, x[k], y[k], d)
          /\ old[i] = ErrorOver(m, v[k], w[k], d)
      OBVIOUS
    <2> HIDE DEF m, k, l, new, mid, old
    <2>6. /\ s[l] \in Int /\ t[l] \in Int /\ x[k] \in Int /\ y[k] \in Int
          /\ v[k] \in Int /\ w[k] \in Int
      BY <2>2
    <2>7. /\ Over2(cs[l], s[l], t[l], d) /\ Over2(best[k], x[k], y[k], d)
          /\ Over2(own[k], v[k], w[k], d)
      BY <1>13, <1>14, <1>15, <2>2
    <2>8. new[i] \in Int /\ mid[i] \in Int /\ old[i] \in Int
      BY <1>16, <2>2, <2>5, <2>6, ErrorIsForm
    <2>9. Value(Eval(m, cs[l]), new[i], d * d)
      BY <1>16, <2>2, <2>5, <2>6, <2>7, EvalValue DEF Over2
    <2>10. Value(Eval(m, best[k]), mid[i], d * d)
      BY <1>16, <2>2, <2>5, <2>6, <2>7, EvalValue DEF Over2
    <2>11. Value(Eval(m, own[k]), old[i], d * d)
      BY <1>16, <2>2, <2>5, <2>6, <2>7, EvalValue DEF Over2
    <2>12. AtMost(Eval(m, cs[l]), Eval(m, best[k]))
      <3>1. PICK j \in 0 .. count - 1 : cs[j] = best[k]
        BY <1>6, <1>10, <2>2
      <3>2. cs \in [0 .. count - 1 -> Coefficients]
        BY <1>3, <1>4
      <3>3. AtMost(Eval(m, cs[BestOf(cs, m)]), Eval(m, cs[j]))
        BY <1>3, <2>2, <3>2, BestIsThere
      <3> QED
        BY <2>3, <3>1, <3>3
    <2>13. new[i] <= mid[i]
      BY <1>16, <2>8, <2>9, <2>10, <2>12, AtMostValue
    <2> QED
      BY <2>3, <2>4, <2>8, <2>9, <2>11, <2>13
  <1>18. SumTo(mid, frame_count) <= SumTo(old, frame_count)
    <2>1. ErrorsOver(mid, x, y, d) /\ ErrorsOver(old, v, w, d)
      BY DEF ErrorsOver
    <2> HIDE DEF mid, old
    <2>2. OverAll(best, x, y, d, n) /\ OverAll(own, v, w, d, n)
      BY <1>13, <1>14 DEF OverAll
    <2> QED
      BY <1>1, <1>2, <1>11, <1>16, <2>1, <2>2, ClassesImprove
  <1> HIDE DEF new, mid, old
  <1>19. SumTo(new, frame_count) <= SumTo(mid, frame_count)
    BY <1>1, <1>17, SumAtMost
  <1>20. /\ SumTo(new, frame_count) \in Int /\ SumTo(mid, frame_count) \in Int
         /\ SumTo(old, frame_count) \in Int
    BY <1>1, <1>17, SumToIsInt
  <1>21. Value(TotalError(error), SumTo(old, frame_count), d * d)
    BY <1>1, <1>16, <1>17, TotalIs
  <1>22. Value(TotalError(error'), SumTo(new, frame_count), d * d)
    BY <1>1, <1>16, <1>17, TotalIs
  <1>23. SumTo(new, frame_count) <= SumTo(old, frame_count)
    BY <1>18, <1>19, <1>20
  <1> QED
    BY <1>16, <1>20, <1>21, <1>22, <1>23, AtMostValue

(* Only a round of the refinement changes the errors that RefiningImproves compares. *)
LEMMA ImprovesStep ==
  ASSUME VInv, Evaluated, Grouped, RefiningImproves, src # NoSound, ValuesStep
  PROVE  RefiningImproves'
  <1> USE DEF RefiningImproves, Refined
  <1>1. CASE Autocorrelate
    BY <1>1 DEF Autocorrelate, Malloc
  <1>2. CASE FindBestErrors
    BY <1>2 DEF FindBestErrors, Malloc
  <1>3. CASE SplitWorst
    BY <1>3 DEF SplitWorst
  <1>4. CASE RefinePredictors
    <2>1. /\ iter' = iter + 1 /\ before' = error /\ frame_count' = frame_count
          /\ src' = src
      BY <1>4 DEF RefinePredictors
    <2>2. iter \in Nat
      BY PredictorAssumption DEF VInv, IInv, TypeOK
    <2>3. TotalError(error)' = TotalError(error') /\ TotalError(before)' = TotalError(error)
      BY <2>1 DEF TotalError
    <2>4. iter > 0 /\ ~adjusted' => AtMost(TotalError(error'), TotalError(error))
      BY <1>4, RefineImproves
    <2> QED
      BY <2>1, <2>2, <2>3, <2>4
  <1>5. CASE EncodeFrames
    BY <1>5 DEF EncodeFrames, Finish, Return
  <1>6. CASE EncodeNothing
    BY <1>6 DEF EncodeNothing, NoFrames, Return
  <1>7. CASE /\ \/ BadParams \/ TooManyFrames \/ CheckParams \/ Malloc("corr", "predictors")
                \/ Malloc("error", "iterate")
                \/ \E block \in {"corr", "predictors", "best_error", "error"} :
                     MallocFails(block)
                \/ BeginAssign \/ Iterate \/ EndAssign
             /\ UNCHANGED values
    <2>1. CASE BadParams \/ TooManyFrames \/ CheckParams
      BY <2>1 DEF BadParams, TooManyFrames, CheckParams, Return
    <2>2. CASE Malloc("corr", "predictors")
      BY <2>2 DEF Malloc
    <2>3. CASE Malloc("error", "iterate")
      BY <2>3 DEF Malloc, assigned, VInv, Valued
    <2>4. CASE \E block \in {"corr", "predictors", "best_error", "error"} : MallocFails(block)
      BY <2>4 DEF MallocFails, Return
    <2>5. CASE BeginAssign
      BY <2>5 DEF BeginAssign
    <2>6. CASE Iterate
      BY <2>6 DEF Iterate
    <2>7. CASE EndAssign
      BY <2>7 DEF EndAssign
    <2> QED
      BY <1>7, <2>1, <2>2, <2>3, <2>4, <2>5, <2>6, <2>7
  <1> QED
    BY <1>1, <1>2, <1>3, <1>4, <1>5, <1>6, <1>7 DEF ValuesStep

(***************************************************************************)
(* A round of vadpcm_refine_predictors never makes the error of all frames *)
(* greater, for any sound, number of frames and predictors, and with or    *)
(* without a new predictor, wherever it uses the best coefficients for     *)
(* each of the predictors.                                                 *)
(***************************************************************************)
THEOREM RefinementImproves == ValuesSpec => []RefiningImproves
  <1> DEFINE Inv == Evaluated /\ Grouped /\ RefiningImproves
  <1>1. ValuesInit => Inv
    BY DEF ValuesInit, Init, Evaluated, Grouped, RefiningImproves, Refined
  <1>2. VInv /\ Inv /\ [ValuesNext]_valueVars => Inv'
    <2> SUFFICES ASSUME VInv, Inv, [ValuesNext]_valueVars PROVE Inv'
      OBVIOUS
    <2>1. CASE src # NoSound /\ ValuesStep
      BY <2>1, EvaluatedStep, GroupedStep, ImprovesStep
    <2>2. CASE src = NoSound /\ UNCHANGED values
      BY <2>2 DEF Evaluated, Grouped, RefiningImproves, Refined, values
    <2>3. CASE UNCHANGED valueVars
      BY <2>3 DEF Evaluated, Grouped, OneFilter, RefiningImproves, Refined, TotalError,
         valueVars, vars, values, assigned, Frames
    <2> QED
      BY <2>1, <2>2, <2>3 DEF ValuesNext
  <1>3. Inv => RefiningImproves
    OBVIOUS
  <1> QED
    BY <1>1, <1>2, <1>3, ValuesInvariant, PTL DEF ValuesSpec
=================================================================================
