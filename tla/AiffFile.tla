--------------------------------- MODULE AiffFile ---------------------------------
(***************************************************************************)
(* aiff_write (common/aiff_write.c) and, on the file it leaves, aiff_parse. *)
(* output_file_write leaves all of the file or, when it fails or the       *)
(* process is killed, a prefix (module OutputFile); somebody may open that *)
(* prefix later, or a file that aiff_write has not written.                *)
(***************************************************************************)
EXTENDS AiffParse, Sequences

CONSTANTS
    Written,    \* what aiff_write is called with
    NoFile      \* an unknown file is parsed, and none is written

ASSUME WrittenAssumption ==
    /\ NoFile \notin Written
    /\ \A d \in Written :
        /\ d.version \in {"AIFF", "AIFC"} /\ d.codec \in {"PCM", "VADPCM"}
        /\ d.common \in Commons /\ d.audio \in Nat
        /\ d.order \in 0 .. MaxOrder /\ d.predictor_count \in 0 .. MaxPredictorCount

(* The largest codebook leaves a word room for what is in front of the audio. *)
ASSUME CodebookAssumption == 112 + 16 * (MaxOrder * MaxPredictorCount) <= WordModulus

VARIABLE data

fileVars == <<vars, data>>

---------------------------------------------------------------------------------
(* The layout, in the order of kChunkFVER .. kChunkSSND; 0 is not present. *)

ChunkOrder == <<"FVER", "COMM", "APPL", "SSND">>

CodecNameLength == [PCM |-> 14, VADPCM |-> 11]

chunk_size ==
    [id \in {"FVER", "COMM", "APPL", "SSND"} |->
        CASE id = "FVER" -> IF data.version = "AIFC" THEN 4 ELSE 0
          [] id = "COMM" -> IF data.version = "AIFC"
                            THEN 23 + CodecNameLength[data.codec] ELSE 18
          [] id = "APPL" -> IF data.version = "AIFC" /\ data.codec = "VADPCM"
                            THEN 16 + 6 + 16 * data.order * data.predictor_count ELSE 0
          [] id = "SSND" -> 8 + data.audio]

(* Where chunk n begins, in 32 bits; beyond the last one, the size of the file. *)
chunk_offset[n \in 1 .. 5] ==
    IF n = 1 THEN 12
    ELSE LET length == chunk_size[ChunkOrder[n - 1]]
         IN  IF length = 0 THEN chunk_offset[n - 1]
             ELSE (chunk_offset[n - 1] + 8 + Align32(length)) % WordModulus

Dimensions_Swapped == <<data.predictor_count, data.order>>     \* faulty
Dimensions == <<data.order, data.predictor_count>>

(* What the header and the contents of a chunk will be read as. *)
Contents(id) ==
    CASE id = "COMM" -> [id |-> id, size |-> chunk_size[id], common |-> data.common,
                         codec |-> data.codec]
      [] id = "APPL" -> [id |-> id, size |-> chunk_size[id], stoc |-> TRUE,
                         name_length |-> 11, match |-> TRUE, version |-> 1,
                         order |-> Dimensions[1], predictor_count |-> Dimensions[2]]
      [] id = "SSND" -> [id |-> id, size |-> chunk_size[id], offset |-> 0]
      [] OTHER -> [id |-> id, size |-> chunk_size[id]]

Refused ==
    \/ data.version = "AIFF" /\ data.codec # "PCM"
    \/ data.audio > WordModulus - 1 - 8

WriteRefused ==
    /\ pc = "write"
    /\ Refused
    /\ pc' = "refused"
    /\ UNCHANGED <<file, header, size, offset, end, has, aiff, inBounds, data>>

(* The chunks in front of the audio, the audio, and a padding byte or none. *)
FileLength == chunk_offset[4] + 8 + 8 + data.audio + (chunk_size["SSND"] % 2)

(***************************************************************************)
(* The file is written, or a part of it; it is as long as what of it is on *)
(* disk.  Chunks beyond that are there in file, but not to be read.        *)
(***************************************************************************)
Write ==
    /\ pc = "write"
    /\ ~Refused
    /\ LET present == {n \in 1 .. 4 : chunk_size[ChunkOrder[n]] > 0}
       IN  file' = [o \in {chunk_offset[n] : n \in present} |->
                       Contents(ChunkOrder[CHOOSE n \in present : chunk_offset[n] = o])]
    /\ header' = [form |-> TRUE, kind |-> data.version,
                  content_size |-> (chunk_offset[5] - 8) % WordModulus]
    /\ size' \in 0 .. FileLength
    /\ pc' = "header"
    /\ UNCHANGED <<offset, end, has, aiff, inBounds, data>>

WriteInit ==
    /\ pc = "write"
    /\ data \in Written
    /\ file = << >>
    /\ header = [form |-> FALSE, kind |-> "other", content_size |-> 0]
    /\ size = 0
    /\ offset = 0 /\ end = 0
    /\ has = {}
    /\ Uninitialised
    /\ inBounds = TRUE

FileInit == WriteInit \/ (Init /\ data = NoFile)

FileStep ==
    \/ WriteRefused
    \/ Write
    \/ ParseStep /\ UNCHANGED data

FileNext == FileStep \/ (pc \in {"ok", "error", "exited", "refused"} /\ UNCHANGED fileVars)

FileSpec == FileInit /\ [][FileNext]_fileVars

---------------------------------------------------------------------------------

(* A file that aiff_write wrote gives back each field, and the audio at its place. *)
RoundTrip ==
    pc = "ok" /\ data # NoFile =>
        /\ header.kind = data.version
        /\ common = data.common
        /\ codec = data.codec
        /\ audio = [from |-> chunk_offset[4] + 16, size |-> data.audio]
        /\ codec = "VADPCM" =>
             /\ codebook.order = data.order
             /\ codebook.predictor_count = data.predictor_count

(***************************************************************************)
(* It is accepted exactly if all of it is there: a write that was cut      *)
(* short, by as little as the padding byte, leaves a file that is refused, *)
(* and a complete file is not, unless its size is more than a word states. *)
(***************************************************************************)
AcceptedIfWhole ==
    data # NoFile =>
        /\ pc = "ok" => size = FileLength
        /\ pc = "error" => size < FileLength \/ FileLength - 8 >= WordModulus
=================================================================================
