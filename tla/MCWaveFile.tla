-------------------------------- MODULE MCWaveFile --------------------------------
(***************************************************************************)
(* Words of 7 bits, doubles of 8 and fractions of 10: a tie and a number   *)
(* beside one differ in each of them.  Files of no samples are written     *)
(* with every rate from a quarter to four times the largest word and the   *)
(* numbers at the ends of the exponents; files of up to 8 samples, at the  *)
(* largest size that can be stated, and at the limit of wave_write, with a *)
(* few.  Unknown files have the sizes that wave_parse compares with, one   *)
(* more and one less, and the largest.                                     *)
(***************************************************************************)
EXTENDS WaveFile, TLC

MCRates ==
    [negative : {FALSE}, exponent : ExponentBias - 2 .. ExponentBias + WordBits + 1,
     fraction : 0 .. 2 ^ FractionBits - 1]
    \cup [negative : BOOLEAN, exponent : {0, ExponentBias, NonFinite - 1, NonFinite},
          fraction : {0, 1, 2 ^ (FractionBits - 1), 2 ^ FractionBits - 1}]

MCWritten ==
    [sample_count : {0}, sample_rate : MCRates]
    \cup [sample_count : 1 .. 8 \cup {45, 46, 63, 64}, sample_rate : {FromWord(5), FromWord(MaxWord)}]

MCChunkSizes ==
    "fmt"   :> {15, 16, 17, 18, MaxWord} @@
    "data"  :> {0, 1, 2, 17, MaxWord} @@
    "other" :> {0, 1, 8, MaxWord}

MCFormats ==
    [codec : {1, 3}, channel_count : {1, 2}, bits_per_sample : {8, 16}, sample_rate : {MaxWord}]
=================================================================================
