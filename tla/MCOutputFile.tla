------------------------------- MODULE MCOutputFile -------------------------------
(***************************************************************************)
(* Up to 3 slices (4 are too many) of up to 3 bytes, empty ones among      *)
(* them, as aiff_write and wave_write pass: headers, audio and a padding   *)
(* byte or none; the file is new, or has 2 bytes already.                  *)
(***************************************************************************)
EXTENDS OutputFile

MCSliceLists == UNION {[1 .. n -> 0 .. 3] : n \in 0 .. 3} \cup {<<1, 1, 1, 1>>}
=================================================================================
