-------------------------------- MODULE MCCommands --------------------------------
(***************************************************************************)
(* Frames of 4 samples in 3 bytes and words of 6 bits, in which a length   *)
(* of 33 samples, in bytes, wraps to 2.  The lengths are none, one sample, *)
(* a frame, a frame and a sample, the limit of 16, and beyond it.          *)
(***************************************************************************)
EXTENDS Commands

MCExtension ==
    [n \in {"a.aiff", "b.aifc", "c.wav", "d"} |->
        CASE n = "a.aiff" -> "AIFF" [] n = "b.aifc" -> "AIFC" [] n = "c.wav" -> "WAVE"
          [] OTHER -> "unknown"]

Counted(n) == [i \in 1 .. n |-> i]

PCMFile(kind, frames, size) ==
    [kind |-> kind, codec |-> "PCM", mono16 |-> TRUE, frames |-> frames, size |-> size,
     audio |-> Swapped(Counted(size \div 2), OrderOf(kind)), last |-> -1, order |-> 0, predictor_count |-> 0,
     by |-> "user", length |-> IF kind = "WAVE" THEN size \div 2 ELSE frames]

VADPCMFile(frames, size, last, order, count) ==
    [kind |-> "AIFC", codec |-> "VADPCM", mono16 |-> TRUE, frames |-> frames, size |-> size,
     audio |-> Counted((size \div 3) * 4), last |-> last, order |-> order,
     predictor_count |-> count, by |-> "user", length |-> frames]

MCUserFiles ==
    {PCMFile("AIFF", n, s) : n \in {0, 1, 5, 16, 17, 33}, s \in {0, 2, 10, 32, 34}}
    \cup {PCMFile("WAVE", 0, s) : s \in {0, 1, 2, 9, 32, 33, 35, 63}}
    \cup {VADPCMFile(n, s, l, 2, c) : n \in {0, 1, 4, 5, 17, 33}, s \in {0, 3, 5, 6, 13},
                                      l \in {0, 1}, c \in 0 .. 2}
    \cup {[PCMFile(k, 4, 8) EXCEPT !.mono16 = FALSE] : k \in {"AIFF", "WAVE"}}
    \cup {[PCMFile("WAVE", 0, 8) EXCEPT !.codec = "float"],
          [PCMFile("AIFC", 4, 8) EXCEPT !.order = 2, !.predictor_count = 1],
          VADPCMFile(4, 3, 0, 0, 1), VADPCMFile(5, 6, 1, 0, 1),
          [VADPCMFile(4, 3, 0, 2, 1) EXCEPT !.mono16 = FALSE],
          Absent, Partial}
=================================================================================
