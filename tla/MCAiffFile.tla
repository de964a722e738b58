-------------------------------- MODULE MCAiffFile --------------------------------
(***************************************************************************)
(* Files that are written, with codebooks of up to two vectors, audio of   *)
(* up to 20 bytes, and sizes at the limit of a word, which aiff_write      *)
(* refuses (MAX_INPUT_LENGTH in common/audio.h keeps the callers below     *)
(* half of it); and unknown files of up to 106 bytes.  Their sizes are     *)
(* those the parser compares with, one more and one less, and the largest, *)
(* which align32 wraps to 0.  106 bytes hold an AIFF-C file with a         *)
(* codebook of one vector; 54 an AIFF file without audio.                  *)
(***************************************************************************)
EXTENDS AiffFile, TLC

MCWritten ==
    [version : {"AIFF", "AIFC"}, codec : {"PCM", "VADPCM"}, common : Commons,
     audio : 0 .. 20 \cup {255, 256, 458, 459, 503, 504, 511}, order : 0 .. 2, predictor_count : 0 .. 1]

MCChunkSizes ==
    "COMM" :> {17, 18, 19, 22, 23, 24, 511} @@
    "SSND" :> {7, 8, 9, 511} @@
    "FVER" :> {3, 4, 511} @@
    "APPL" :> {3, 4, 5, 15, 16, 17, 18, 21, 22, 37, 38, 511} @@
    "other" :> {0, 511}
=================================================================================
