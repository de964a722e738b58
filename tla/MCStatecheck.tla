------------------------------- MODULE MCStatecheck -------------------------------
(***************************************************************************)
(* Encoder and decoder on the small format of MCDecoder.  Ints of 6 bits   *)
(* and one codebook with an unstable predictor make the sums wrap; the     *)
(* generator has 32 states and the bias every value of 0, 1 and 2 bits.     *)
(***************************************************************************)
EXTENDS Statecheck, TLC

Vec(a, b, c, d) == 0 :> a @@ 1 :> b @@ 2 :> c @@ 3 :> d

Smooth == 0 :> Vec(-1, -1, 0, 0) @@ 1 :> Vec(3, 3, 2, 1)
Flat   == 0 :> Vec(0, 0, 0, 0) @@ 1 :> Vec(0, 0, 0, 0)
Wild   == 0 :> Vec(-3, 5, -8, 7) @@ 1 :> Vec(2, 4, 7, 7)

MCCodebooks ==
    {[order |-> 2, predictor_count |-> 2, vector |-> 0 :> Smooth @@ 1 :> Flat],
     [order |-> 2, predictor_count |-> 1, vector |-> 0 :> Wild]}

Sounds == {Vec(0, 2, 4, 5), Vec(7, -8, 7, -8), Vec(1, 0, -1, 0), Vec(-8, -8, 7, 7)}

(* Frames made of xs; the second predictor is left out with Wild. *)
Frames(xs) ==
    {[samples |-> 0 :> x @@ 1 :> y, predictor |-> p] : x, y \in xs, p \in 0 .. 1}

MCSources ==
    {<<f, g>> : f, g \in Frames(Sounds)}
    \cup {<<f, g, h>> : f, g, h \in Frames({Vec(0, 2, 4, 5), Vec(2, -1, 0, 3)})}
=================================================================================
