-------------------------------- MODULE AiffParse --------------------------------
(***************************************************************************)
(* aiff_parse (common/aiff_parse.c): read the chunks of an AIFF or AIFF-C  *)
(* file that is in memory.                                                 *)
(*                                                                         *)
(* Addresses are byte offsets in the file.  A chunk is a record of what    *)
(* the parser takes from its header and its contents.  The parser reads a  *)
(* chunk once and does not come back, so the chunks of an unknown file are *)
(* chosen when they are read; those of a known one are in file.            *)
(***************************************************************************)
EXTENDS Integers

CONSTANTS
    WordModulus,        \* 2^32
    MaxOrder,           \* kVADPCMMaxOrder
    MaxPredictorCount,  \* kVADPCMMaxPredictorCount
    FileSizes,
    \* What the words of a file may be:
    ContentSizes,
    ChunkSizes,         \* a set for each kind of chunk
    AudioOffsets, NameLengths, Counts, Commons

Words == 0 .. WordModulus - 1

ChunkIds == {"COMM", "SSND", "FVER", "APPL", "other"}

ASSUME AiffAssumption ==
    /\ WordModulus \in Nat \ {0} /\ WordModulus % 2 = 0 /\ WordModulus > 64
    /\ MaxOrder \in Nat /\ MaxPredictorCount \in Nat
    /\ FileSizes \subseteq Nat
    /\ ContentSizes \subseteq Words
    /\ ChunkSizes \in [ChunkIds -> SUBSET Words]
    /\ AudioOffsets \subseteq Words
    /\ NameLengths \subseteq 0 .. 255 /\ Counts \subseteq Nat

VARIABLES
    pc,         \* "header", "chunk", "ok", "error" or "exited"
    file,       \* the chunks of a known file, by their offset
    header,     \* the first 12 bytes
    size,       \* the bytes there are
    offset, end,
    has,        \* has_comm, has_ssnd, has_codebook
    common,     \* the fields of COMM
    codec,
    audio,
    codebook,
    inBounds    \* history: has every read been inside its chunk and the file?

aiff == <<common, codec, audio, codebook>>
vars == <<pc, file, header, size, offset, end, has, aiff, inBounds>>

Headers == [form : BOOLEAN, kind : {"AIFF", "AIFC", "other"}, content_size : ContentSizes]

AnyChunk ==
    [id : {"COMM"}, size : ChunkSizes["COMM"], common : Commons,
     codec : {"PCM", "VADPCM", "other"}]
    \cup [id : {"SSND"}, size : ChunkSizes["SSND"], offset : AudioOffsets]
    \cup [id : {"FVER"}, size : ChunkSizes["FVER"]]
    \cup [id : {"other"}, size : ChunkSizes["other"]]
    \cup [id : {"APPL"}, size : ChunkSizes["APPL"], stoc : {FALSE}]
    \cup [id : {"APPL"}, size : ChunkSizes["APPL"], stoc : {TRUE},
          name_length : NameLengths, match : {FALSE}]
    \cup [id : {"APPL"}, size : ChunkSizes["APPL"], stoc : {TRUE}, name_length : {11},
          match : {TRUE}, version : {1, 2}, order : Counts, predictor_count : Counts]

ChunkAt(o) == IF o \in DOMAIN file THEN {file[o]} ELSE AnyChunk

(* The next even number, in 32 bits. *)
Align32(n) ==
    LET sum == (n + 1) % WordModulus IN sum - (sum % 2)

(***************************************************************************)
(* The caller's struct aiff_data is not initialised.  No run can tell what *)
(* was in the fields that a file must have, but for the codebook.          *)
(***************************************************************************)
Uninitialised ==
    /\ common \in Commons
    /\ codec = "PCM"
    /\ audio = [from |-> 0, size |-> 0]
    /\ codebook \in {[order |-> 0, predictor_count |-> 0],
                     [order |-> MaxOrder, predictor_count |-> MaxPredictorCount]}

Init ==
    /\ pc = "header"
    /\ file = << >>
    /\ header \in Headers
    /\ size \in FileSizes
    /\ offset = 0 /\ end = 0
    /\ has = {}
    /\ Uninitialised
    /\ inBounds = TRUE

Fail == pc' = "error"

(* The bytes from .. from + count - 1 are read; they belong to what ends at bound. *)
Read(from, count, bound) ==
    inBounds' = (inBounds /\ from + count <= bound /\ bound <= size)

HeaderInvalid_AnySize == ~header.form \/ header.kind = "other"       \* faulty
HeaderInvalid ==
    \/ ~header.form
    \/ header.kind = "other"
    \/ header.content_size > size - 8

HeaderError ==
    /\ pc = "header"
    /\ \/ size < 12 /\ Read(0, 0, size)
       \/ size >= 12 /\ HeaderInvalid /\ Read(0, 12, size)
    /\ Fail
    /\ UNCHANGED <<file, header, size, offset, end, has, aiff>>

ReadHeader ==
    /\ pc = "header"
    /\ size >= 12
    /\ ~HeaderInvalid
    /\ pc' = "chunk"
    /\ offset' = 12
    /\ end' = header.content_size + 8
    /\ Read(0, 12, size)
    /\ UNCHANGED <<file, header, size, has, aiff>>

---------------------------------------------------------------------------------
(* The loop over the chunks; Padded, At and Until are of the chunk at offset. *)

Padded(c) == Align32(c.size)
At        == offset + 8
Until(c)  == At + c.size

ChunkFits_Unwrapped(c) == Padded(c) <= end - At      \* faulty: no check of the wrap
ChunkFits(c) == Padded(c) >= c.size /\ Padded(c) <= end - At

ChunkHeaderCut ==
    /\ pc = "chunk"
    /\ offset < end
    /\ end - offset < 8
    /\ Fail
    /\ UNCHANGED <<file, header, size, offset, end, has, aiff, inBounds>>

ChunkSizeInvalid(c) ==
    /\ ~ChunkFits(c)
    /\ Fail
    /\ Read(offset, 8, end)
    /\ UNCHANGED <<file, header, size, offset, end, has, aiff>>

Enter(id, c) == c.id = id /\ ChunkFits(c)

(* On to the next chunk. *)
Advance_Nowhere(c)  == pc' = "chunk" /\ offset' = offset + Padded(c)     \* faulty
Advance(c) == pc' = "chunk" /\ offset' = At + Padded(c)

(* COMM has a fixed size in AIFF, and the codec and its name in AIFF-C. *)
CommTooSmall(c) ==
    IF header.kind = "AIFC" THEN c.size < 23 ELSE c.size # 18

CommError(c) ==
    /\ Enter("COMM", c)
    /\ "COMM" \in has \/ CommTooSmall(c)
    /\ Fail
    /\ Read(At, 0, Until(c))
    /\ UNCHANGED <<file, header, size, offset, end, has, aiff>>

CodecError(c) ==
    /\ Enter("COMM", c)
    /\ "COMM" \notin has /\ ~CommTooSmall(c)
    /\ header.kind = "AIFC" /\ c.codec = "other"
    /\ has' = has \cup {"COMM"}
    /\ common' = c.common
    /\ Fail
    /\ Read(At, 22, Until(c))
    /\ UNCHANGED <<file, header, size, offset, end, codec, audio, codebook>>

ParseComm(c) ==
    /\ Enter("COMM", c)
    /\ "COMM" \notin has /\ ~CommTooSmall(c)
    /\ header.kind = "AIFC" => c.codec # "other"
    /\ has' = has \cup {"COMM"}
    /\ common' = c.common
    /\ codec' = IF header.kind = "AIFC" THEN c.codec ELSE "PCM"
    /\ Read(At, IF header.kind = "AIFC" THEN 22 ELSE 18, Until(c))
    /\ Advance(c)
    /\ UNCHANGED <<file, header, size, end, audio, codebook>>

SoundError(c) ==
    /\ Enter("SSND", c)
    /\ \/ ("SSND" \in has \/ c.size < 8) /\ Read(At, 0, Until(c)) /\ UNCHANGED has
       \/ /\ "SSND" \notin has /\ c.size >= 8 /\ c.offset > c.size - 8
          /\ Read(At, 4, Until(c))
          /\ has' = has \cup {"SSND"}
    /\ Fail
    /\ UNCHANGED <<file, header, size, offset, end, aiff>>

ParseSound(c) ==
    /\ Enter("SSND", c)
    /\ "SSND" \notin has /\ c.size >= 8 /\ c.offset <= c.size - 8
    /\ has' = has \cup {"SSND"}
    /\ audio' = [from |-> At + 8 + c.offset, size |-> c.size - 8 - c.offset]
    /\ Read(At, 4, Until(c))
    /\ Advance(c)
    /\ UNCHANGED <<file, header, size, end, common, codec, codebook>>

VersionError(c) ==
    /\ Enter("FVER", c)
    /\ c.size < 4
    /\ Fail
    /\ Read(At, 0, Until(c))
    /\ UNCHANGED <<file, header, size, offset, end, has, aiff>>

ParseVersion(c) ==
    /\ Enter("FVER", c)
    /\ c.size >= 4
    /\ Read(At, 4, Until(c))
    /\ Advance(c)
    /\ UNCHANGED <<file, header, size, end, has, aiff>>

SkipChunk(c) ==
    /\ Enter("other", c)
    /\ Read(offset, 8, end)
    /\ Advance(c)
    /\ UNCHANGED <<file, header, size, end, has, aiff>>

---------------------------------------------------------------------------------
(* APPL, with a codebook if it is a stoc chunk of that name *)

NameCut(c) == c.size - 4 < Align32(c.name_length)

ApplError(c) ==
    /\ Enter("APPL", c)
    /\ \/ c.size < 4 /\ Read(At, 0, Until(c))
       \/ c.size >= 4 /\ c.stoc /\ c.size < 5 /\ Read(At, 4, Until(c))
       \/ c.size >= 5 /\ c.stoc /\ NameCut(c) /\ Read(At, 5, Until(c))
    /\ Fail
    /\ UNCHANGED <<file, header, size, offset, end, has, aiff>>

SkipAppl(c) ==
    /\ Enter("APPL", c)
    /\ \/ c.size >= 4 /\ ~c.stoc /\ Read(At, 4, Until(c))
       \/ /\ c.size >= 5 /\ c.stoc /\ ~NameCut(c) /\ ~c.match
          /\ Read(At, IF c.name_length = 11 THEN 4 + 12 ELSE 5, Until(c))
    /\ Advance(c)
    /\ UNCHANGED <<file, header, size, end, has, aiff>>

(* A codebook has a version, its dimensions, and 16 bytes for a vector. *)
CodebookAt(c)   == At + 4 + 12
CodebookSize(c) == c.size - 4 - 12
VectorCount(c)  == c.order * c.predictor_count

AtCodebook(c) ==
    Enter("APPL", c) /\ c.size >= 5 /\ c.stoc /\ ~NameCut(c) /\ c.match

CodebookTwice(c) ==
    /\ AtCodebook(c)
    /\ "codebook" \in has
    /\ Fail
    /\ Read(At, 4 + 12, Until(c))
    /\ UNCHANGED <<file, header, size, offset, end, has, aiff>>

VectorsFit_NoHeader(c) == 16 * VectorCount(c) <= CodebookSize(c)     \* faulty
VectorsFit(c) == VectorCount(c) > 0 => 6 + 16 * VectorCount(c) <= CodebookSize(c)

CodebookError(c) ==
    /\ AtCodebook(c)
    /\ "codebook" \notin has
    /\ has' = has \cup {"codebook"}
    /\ \/ CodebookSize(c) < 2 /\ Read(CodebookAt(c), 0, Until(c))
       \/ /\ CodebookSize(c) >= 2 /\ (c.version # 1 \/ CodebookSize(c) < 6)
          /\ Read(CodebookAt(c), 2, Until(c))
       \/ /\ CodebookSize(c) >= 6 /\ c.version = 1
          /\ c.order > MaxOrder \/ c.predictor_count > MaxPredictorCount \/ ~VectorsFit(c)
          /\ Read(CodebookAt(c), 6, Until(c))
    /\ Fail
    /\ UNCHANGED <<file, header, size, offset, end, aiff>>

CodebookValid(c) ==
    /\ AtCodebook(c)
    /\ "codebook" \notin has
    /\ c.version = 1 /\ CodebookSize(c) >= 6
    /\ c.order <= MaxOrder /\ c.predictor_count <= MaxPredictorCount
    /\ VectorsFit(c)

ParseCodebook(c) ==
    /\ CodebookValid(c)
    /\ has' = has \cup {"codebook"}
    /\ codebook' = [order |-> c.order, predictor_count |-> c.predictor_count]
    /\ Read(CodebookAt(c), 6 + 16 * VectorCount(c), Until(c))
    /\ Advance(c)
    /\ UNCHANGED <<file, header, size, end, common, codec, audio>>

(* XMALLOC exits when there is no memory for the vectors. *)
OutOfMemory(c) ==
    /\ CodebookValid(c)
    /\ VectorCount(c) > 0
    /\ pc' = "exited"
    /\ UNCHANGED <<file, header, size, offset, end, has, aiff, inBounds>>

ParseChunk(c) ==
    \/ ChunkSizeInvalid(c)
    \/ CommError(c)
    \/ CodecError(c)
    \/ ParseComm(c)
    \/ SoundError(c)
    \/ ParseSound(c)
    \/ VersionError(c)
    \/ ParseVersion(c)
    \/ SkipChunk(c)
    \/ ApplError(c)
    \/ SkipAppl(c)
    \/ CodebookTwice(c)
    \/ CodebookError(c)
    \/ ParseCodebook(c)
    \/ OutOfMemory(c)

NextChunk ==
    /\ pc = "chunk"
    /\ end - offset >= 8
    /\ \E c \in ChunkAt(offset) : ParseChunk(c)

---------------------------------------------------------------------------------

Missing_Sound == "COMM" \notin has \/ "SSND" \notin has       \* faulty
Missing ==
    \/ "COMM" \notin has
    \/ "SSND" \notin has
    \/ codec = "VADPCM" /\ "codebook" \notin has

Finish ==
    /\ pc = "chunk"
    /\ offset >= end
    /\ pc' = IF Missing THEN "error" ELSE "ok"
    /\ UNCHANGED <<file, header, size, offset, end, has, aiff, inBounds>>

Returned == pc \in {"ok", "error", "exited"}

ParseStep ==
    \/ HeaderError
    \/ ReadHeader
    \/ ChunkHeaderCut
    \/ NextChunk
    \/ Finish

Next == ParseStep \/ (Returned /\ UNCHANGED vars)

Spec == Init /\ [][Next]_vars

---------------------------------------------------------------------------------

(* What each variable may hold. *)
TypeOK ==
    /\ pc \in {"header", "chunk", "ok", "error", "exited"}
    /\ size \in Nat
    /\ header.content_size \in Words
    /\ offset \in Nat
    /\ end \in Nat
    /\ has \subseteq {"COMM", "SSND", "codebook"}
    /\ common \in Commons
    /\ codec \in {"PCM", "VADPCM"}
    /\ audio \in [from : Nat, size : Nat]
    /\ codebook \in [order : 0 .. MaxOrder, predictor_count : 0 .. MaxPredictorCount]
    /\ inBounds \in BOOLEAN

(***************************************************************************)
(* Nothing is read outside the chunk it belongs to, and no chunk is        *)
(* outside the file, whatever sizes the file states.                       *)
(***************************************************************************)
ReadsInBounds == inBounds

(* The audio handed to the caller is in the file. *)
AudioInFile == audio.size > 0 => audio.from + audio.size <= size

(***************************************************************************)
(* A file is accepted with a header, one COMM, one SSND, and a codebook if *)
(* it is VADPCM; the chunks that were skipped end where the file says.     *)
(***************************************************************************)
CompleteOnSuccess ==
    pc = "ok" =>
        /\ {"COMM", "SSND"} \subseteq has
        /\ codec = "VADPCM" => header.kind = "AIFC" /\ "codebook" \in has
        /\ offset = end

(***************************************************************************)
(* The loop moves on by a chunk header at least, and never past the end of *)
(* the contents, whatever the sizes: so it ends, on every file.            *)
(***************************************************************************)
ChunksAdvance ==
    [][pc = "chunk" /\ pc' = "chunk" => offset' \in offset + 8 .. end]_vars
=================================================================================
