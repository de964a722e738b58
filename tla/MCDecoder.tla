-------------------------------- MODULE MCDecoder --------------------------------
(***************************************************************************)
(* Decoder on a small format: vectors of 4 samples of 4 bits, residuals    *)
(* -2 .. 1, 2 predictor indices, scalings 0 .. 3, ints -64 .. 63 so that   *)
(* the sums wrap.                                                          *)
(***************************************************************************)
EXTENDS Decoder, TLC

Vec(a, b, c, d) == 0 :> a @@ 1 :> b @@ 2 :> c @@ 3 :> d

Weak   == Vec(1, 0, -1, 1)
Strong == Vec(2, 4, 7, 7)      \* an unstable predictor, clipped
Turn   == Vec(-3, 5, -8, 7)

MCCodebooks ==
    {[order |-> 2, predictor_count |-> 1, vector |-> 0 :> (0 :> Turn @@ 1 :> Strong)],
     [order |-> 2, predictor_count |-> 2,
      vector |-> 0 :> (0 :> Weak @@ 1 :> Weak) @@ 1 :> (0 :> Strong @@ 1 :> Turn)],
     [order |-> 1, predictor_count |-> 2,
      vector |-> 0 :> (0 :> Strong) @@ 1 :> (0 :> Turn)]}

(* Order 0, as docs/docs/codec.md allows. *)
OrderZeroCodebooks ==
    {[order |-> 0, predictor_count |-> 1, vector |-> 0 :> << >>]}

MCGarbage == {Strong, Vec(0, 0, 0, 0)}

Pair(a, b) == 0 :> a @@ 1 :> b

MCFrames ==
    {[control |-> c, data |-> Pair(x, y)] :
        c \in Controls,
        x \in {Pair(7, 13), Pair(10, 8)}, y \in {Pair(1, 8)}}

MCStreams == {<< >>} \cup {<<f, g>> : f, g \in MCFrames}

(* Two frames are enough for the order-0 call to show itself. *)
SmallStreams == {<<f, f>> : f \in MCFrames}
=================================================================================
