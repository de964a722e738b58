------------------------------ MODULE AiffParseProofs ------------------------------
(***************************************************************************)
(* Theorems about modules AiffParse and AiffFile: for files of any length, *)
(* with any sizes in them, and for those that aiff_write writes.           *)
(***************************************************************************)
EXTENDS AiffFile, TLAPS

(* What is said of a chunk of any kind. *)
IsChunk(c) ==
    /\ c.size \in Words
    /\ c.id = "COMM" => c.common \in Commons /\ c.codec \in {"PCM", "VADPCM", "other"}
    /\ c.id = "SSND" => c.offset \in Words
    /\ c.id = "APPL" => c.stoc \in BOOLEAN
    /\ c.id = "APPL" /\ c.stoc =>
         /\ c.name_length \in 0 .. 255 /\ c.match \in BOOLEAN
         /\ c.match => c.name_length = 11 /\ c.order \in Nat /\ c.predictor_count \in Nat

(***************************************************************************)
(* The invariant.  Chunks are taken up to end, which the header made sure  *)
(* is in the file; before the first of them the offset may be past it.     *)
(***************************************************************************)
IInv ==
    /\ TypeOK
    /\ \A o \in DOMAIN file : IsChunk(file[o])
    /\ inBounds = TRUE
    /\ pc = "header" => has = {}
    /\ pc = "chunk" => end <= size
    /\ pc = "chunk" => offset <= end \/ has = {}
    /\ codec = "VADPCM" => header.kind = "AIFC"
    /\ AudioInFile
    /\ CompleteOnSuccess

LEMMA ChunkTypes ==
  ASSUME \A o \in DOMAIN file : IsChunk(file[o]), NEW c \in ChunkAt(offset)
  PROVE  IsChunk(c)
  <1> SUFFICES ASSUME offset \notin DOMAIN file PROVE IsChunk(c)
    BY DEF ChunkAt
  <1>1. c \in AnyChunk
    BY DEF ChunkAt
  <1>2. \A id \in ChunkIds : ChunkSizes[id] \subseteq Words
    BY AiffAssumption
  <1>3. NameLengths \subseteq 0 .. 255 /\ Counts \subseteq Nat /\ AudioOffsets \subseteq Words
    BY AiffAssumption
  <1> USE DEF IsChunk, ChunkIds
  <1>a. CASE c \in [id : {"COMM"}, size : ChunkSizes["COMM"], common : Commons,
                    codec : {"PCM", "VADPCM", "other"}]
    BY <1>a, <1>2
  <1>b. CASE c \in [id : {"SSND"}, size : ChunkSizes["SSND"], offset : AudioOffsets]
    BY <1>b, <1>2, <1>3
  <1>c. CASE c \in [id : {"FVER"}, size : ChunkSizes["FVER"]]
    BY <1>c, <1>2
  <1>d. CASE c \in [id : {"other"}, size : ChunkSizes["other"]]
    BY <1>d, <1>2
  <1>e. CASE c \in [id : {"APPL"}, size : ChunkSizes["APPL"], stoc : {FALSE}]
    BY <1>e, <1>2
  <1>f. CASE c \in [id : {"APPL"}, size : ChunkSizes["APPL"], stoc : {TRUE},
                    name_length : NameLengths, match : {FALSE}]
    BY <1>f, <1>2, <1>3
  <1>g. CASE c \in [id : {"APPL"}, size : ChunkSizes["APPL"], stoc : {TRUE},
                    name_length : {11}, match : {TRUE}, version : {1, 2}, order : Counts,
                    predictor_count : Counts]
    <2>1. c.id = "APPL" /\ c.stoc = TRUE /\ c.match = TRUE /\ c.name_length = 11
      BY <1>g
    <2>2. c.size \in ChunkSizes["APPL"] /\ c.order \in Counts /\ c.predictor_count \in Counts
      BY <1>g
    <2>3. c.size \in Words /\ c.order \in Nat /\ c.predictor_count \in Nat
      BY <2>2, <1>2, <1>3
    <2>4. c.name_length \in 0 .. 255
      BY <2>1
    <2> QED
      BY <2>1, <2>3, <2>4
  <1> HIDE DEF IsChunk, ChunkIds
  <1> QED
    BY <1>1, <1>a, <1>b, <1>c, <1>d, <1>e, <1>f, <1>g DEF AnyChunk

LEMMA SmallModulo ==
  ASSUME NEW n \in 0 .. WordModulus - 1
  PROVE  n % WordModulus = n
  BY AiffAssumption

LEMMA AlignSize ==
  ASSUME NEW n \in Words
  PROVE  Align32(n) \in Int
  BY AiffAssumption DEF Align32, Words

(* The name of a codebook and its length byte take 12 bytes. *)
LEMMA AlignName == Align32(11) = 12
  <1>1. 12 \in 0 .. WordModulus - 1
    BY AiffAssumption
  <1>2. 12 % WordModulus = 12
    BY <1>1, SmallModulo
  <1>3. 11 + 1 = 12 /\ 12 % 2 = 0
    OBVIOUS
  <1> QED
    BY <1>2, <1>3 DEF Align32

(* The parser is at a chunk. *)
AtChunk(c) ==
    /\ IInv
    /\ pc = "chunk"
    /\ end - offset >= 8
    /\ c \in ChunkAt(offset)

(* Its header is in the contents. *)
HeaderInside(c) ==
    /\ IsChunk(c) /\ c.size \in Nat
    /\ At = offset + 8 /\ At <= end /\ At \in Nat
    /\ offset \in Nat /\ end \in Nat /\ size \in Nat /\ end <= size
    /\ has \subseteq {"COMM", "SSND", "codebook"} /\ common \in Commons
    /\ inBounds = TRUE

(* So is the rest of it, with its padding. *)
ChunkInside(c) ==
    /\ Padded(c) \in Nat
    /\ Until(c) \in Nat /\ Until(c) = At + c.size
    /\ Until(c) <= At + Padded(c) /\ At + Padded(c) <= end

LEMMA AtChunkTypes ==
  ASSUME NEW c, AtChunk(c)
  PROVE  HeaderInside(c)
  <1>1. IsChunk(c)
    BY ChunkTypes DEF AtChunk, IInv
  <1>2. c.size \in Nat
    BY <1>1, AiffAssumption DEF IsChunk, Words
  <1> QED
    BY <1>1, <1>2 DEF AtChunk, HeaderInside, At, IInv, TypeOK

LEMMA FitsInside ==
  ASSUME NEW c, AtChunk(c), ChunkFits(c)
  PROVE  ChunkInside(c)
  <1>1. HeaderInside(c)
    BY AtChunkTypes
  <1>2. Padded(c) \in Int
    BY <1>1, AlignSize DEF HeaderInside, IsChunk, Padded
  <1>3. Padded(c) >= c.size /\ Padded(c) <= end - At
    BY DEF ChunkFits
  <1> QED
    BY <1>1, <1>2, <1>3 DEF HeaderInside, ChunkInside, Until

(* A read inside its bounds keeps the history. *)
LEMMA ReadInside ==
  ASSUME inBounds = TRUE, NEW from, NEW count, NEW bound,
         from + count <= bound /\ bound <= size, Read(from, count, bound)
  PROVE  inBounds' = TRUE
  BY Zenon DEF Read

LEMMA InitInv == Init => IInv
  <1> SUFFICES ASSUME Init PROVE IInv
    OBVIOUS
  <1>1. header.content_size \in Words
    BY AiffAssumption DEF Init, Headers
  <1>2. size \in Nat
    BY AiffAssumption DEF Init
  <1>3. /\ common \in Commons /\ codec = "PCM" /\ audio = [from |-> 0, size |-> 0]
        /\ codebook \in [order : 0 .. MaxOrder, predictor_count : 0 .. MaxPredictorCount]
    BY AiffAssumption DEF Init, Uninitialised
  <1>4. TypeOK
    BY <1>1, <1>2, <1>3 DEF Init, TypeOK
  <1> QED
    BY <1>3, <1>4 DEF Init, IInv, AudioInFile, CompleteOnSuccess

(* A step that returns with an error, having read inside the contents. *)
LEMMA ReturnInv ==
  ASSUME IInv, pc' \in {"error", "exited"}, inBounds' = TRUE,
         has' \subseteq {"COMM", "SSND", "codebook"}, common' \in Commons,
         UNCHANGED <<file, header, size, offset, end, codec, audio, codebook>>
  PROVE  IInv'
  <1>1. TypeOK'
    BY DEF IInv, TypeOK
  <1> QED
    BY <1>1 DEF IInv, AudioInFile, CompleteOnSuccess

LEMMA HeaderInv ==
  ASSUME IInv, HeaderError \/ ReadHeader
  PROVE  IInv'
  <1>1. size \in Nat /\ header.content_size \in Nat /\ has = has \cup {}
    BY AiffAssumption DEF IInv, TypeOK, Words
  <1>2. CASE HeaderError
    <2>1. pc' = "error" /\ UNCHANGED <<file, header, size, offset, end, has, common, codec,
                                       audio, codebook>>
      BY <1>2 DEF HeaderError, Fail, aiff
    <2>2. inBounds' = TRUE
      <3>0. 0 + 0 <= size /\ (size >= 12 => 0 + 12 <= size) /\ size <= size
        BY <1>1
      <3>1. CASE size < 12 /\ Read(0, 0, size)
        BY <3>0, <3>1, ReadInside, Zenon DEF IInv
      <3>2. CASE size >= 12 /\ Read(0, 12, size)
        BY <3>0, <3>2, ReadInside, Zenon DEF IInv
      <3> QED
        BY <1>2, <3>1, <3>2 DEF HeaderError
    <2> QED
      BY <2>1, <2>2, ReturnInv DEF IInv, TypeOK
  <1>3. CASE ReadHeader
    <2>1. /\ pc = "header" /\ pc' = "chunk" /\ offset' = 12
          /\ end' = header.content_size + 8
          /\ UNCHANGED <<file, header, size, has, common, codec, audio, codebook>>
      BY <1>3 DEF ReadHeader, aiff
    <2>2. end' \in Nat /\ end' <= size'
      BY <1>1, <1>3, <2>1 DEF ReadHeader, HeaderInvalid
    <2>3. inBounds' = TRUE
      <3>1. 0 + 12 <= size /\ size <= size
        BY <1>1, <1>3 DEF ReadHeader
      <3> QED
        BY <1>3, <3>1, ReadInside, Zenon DEF ReadHeader, IInv
    <2>4. TypeOK'
      BY <2>1, <2>2, <2>3 DEF IInv, TypeOK
    <2> QED
      BY <2>1, <2>2, <2>3, <2>4 DEF IInv, AudioInFile, CompleteOnSuccess
  <1> QED
    BY <1>2, <1>3

LEMMA EndInv ==
  ASSUME IInv, ChunkHeaderCut \/ Finish
  PROVE  IInv'
  <1>1. CASE ChunkHeaderCut
    BY <1>1, ReturnInv DEF ChunkHeaderCut, Fail, aiff, IInv, TypeOK
  <1>2. CASE Finish
    <2>1. /\ pc = "chunk" /\ offset >= end
          /\ UNCHANGED <<file, header, size, offset, end, has, common, codec, audio, codebook,
                         inBounds>>
      BY <1>2 DEF Finish, aiff
    <2>2. CASE Missing
      BY <1>2, <2>1, <2>2, ReturnInv DEF Finish, IInv, TypeOK
    <2>3. CASE ~Missing
      <3>1. pc' = "ok"
        BY <1>2, <2>3 DEF Finish
      <3>2. {"COMM", "SSND"} \subseteq has /\ (codec = "VADPCM" => "codebook" \in has)
        BY <2>3 DEF Missing
      <3>3. offset = end
        BY <2>1, <3>2 DEF IInv, TypeOK
      <3>4. TypeOK'
        BY <2>1, <3>1 DEF IInv, TypeOK
      <3> QED
        BY <2>1, <3>1, <3>2, <3>3, <3>4 DEF IInv, AudioInFile, CompleteOnSuccess
    <2> QED
      BY <2>2, <2>3
  <1> QED
    BY <1>1, <1>2

---------------------------------------------------------------------------------
(* The chunks *)

(* The bytes of a chunk that fits may be read. *)
LEMMA ReadChunk ==
  ASSUME NEW c, AtChunk(c), ChunkFits(c), NEW from \in Int, NEW count \in Int,
         from + count <= At + c.size, Read(from, count, Until(c))
  PROVE  inBounds' = TRUE
  <1>1. HeaderInside(c) /\ ChunkInside(c)
    BY AtChunkTypes, FitsInside
  <1>2. from + count <= Until(c) /\ Until(c) <= size /\ inBounds = TRUE
    BY <1>1 DEF HeaderInside, ChunkInside
  <1> QED
    BY <1>2, ReadInside, Zenon

LEMMA ReadChunkHeader ==
  ASSUME NEW c, AtChunk(c), Read(offset, 8, end)
  PROVE  inBounds' = TRUE
  <1>1. HeaderInside(c)
    BY AtChunkTypes
  <1>2. offset + 8 <= end /\ end <= size /\ inBounds = TRUE
    BY <1>1 DEF HeaderInside
  <1> QED
    BY <1>2, ReadInside, Zenon

(* On to the next chunk, with what was found in this one. *)
LEMMA AdvanceInv ==
  ASSUME NEW c, AtChunk(c), ChunkFits(c), Advance(c), inBounds' = TRUE,
         has' \subseteq {"COMM", "SSND", "codebook"}, common' \in Commons,
         codec' \in {"PCM", "VADPCM"} /\ (codec' = "VADPCM" => header.kind = "AIFC"),
         audio' \in [from : Nat, size : Nat],
         audio'.size > 0 => audio'.from + audio'.size <= size,
         codebook' \in [order : 0 .. MaxOrder, predictor_count : 0 .. MaxPredictorCount],
         UNCHANGED <<file, header, size, end>>
  PROVE  IInv' /\ offset' \in offset + 8 .. end
  <1>1. HeaderInside(c) /\ ChunkInside(c)
    BY AtChunkTypes, FitsInside
  <1>2. offset' = At + Padded(c) /\ pc' = "chunk"
    BY DEF Advance
  <1>3. offset' \in Nat /\ offset' \in offset + 8 .. end /\ offset' <= end' /\ end' <= size'
    BY <1>1, <1>2 DEF HeaderInside, ChunkInside
  <1>4. TypeOK'
    BY <1>2, <1>3 DEF AtChunk, IInv, TypeOK
  <1> QED
    BY <1>2, <1>3, <1>4 DEF AtChunk, IInv, AudioInFile, CompleteOnSuccess

(* A chunk without audio or a codebook leaves those found before as they were. *)
LEMMA OthersKept ==
  ASSUME NEW c, AtChunk(c)
  PROVE  /\ audio \in [from : Nat, size : Nat]
         /\ audio.size > 0 => audio.from + audio.size <= size
         /\ codebook \in [order : 0 .. MaxOrder, predictor_count : 0 .. MaxPredictorCount]
         /\ codec \in {"PCM", "VADPCM"} /\ (codec = "VADPCM" => header.kind = "AIFC")
         /\ has \subseteq {"COMM", "SSND", "codebook"} /\ common \in Commons
  BY DEF AtChunk, IInv, TypeOK, AudioInFile

LEMMA CommInv ==
  ASSUME NEW c, AtChunk(c), ParseComm(c)
  PROVE  IInv' /\ offset' \in offset + 8 .. end
  <1>1. c.id = "COMM" /\ ChunkFits(c) /\ ~CommTooSmall(c)
    BY DEF ParseComm, Enter
  <1>2. HeaderInside(c)
    BY AtChunkTypes
  <1>3. c.common \in Commons /\ c.codec \in {"PCM", "VADPCM", "other"}
    BY <1>1, <1>2 DEF HeaderInside, IsChunk
  <1>4. inBounds' = TRUE
    <2>1. At \in Int /\ 18 \in Int /\ 22 \in Int /\ At + 18 <= At + c.size
          /\ (header.kind = "AIFC" => At + 22 <= At + c.size)
      BY <1>1, <1>2 DEF CommTooSmall, HeaderInside
    <2>2. CASE Read(At, 22, Until(c)) /\ header.kind = "AIFC"
      BY <1>1, <2>1, <2>2, ReadChunk, Zenon
    <2>3. CASE Read(At, 18, Until(c))
      BY <1>1, <2>1, <2>3, ReadChunk, Zenon
    <2> QED
      BY <2>2, <2>3 DEF ParseComm
  <1>5. /\ Advance(c) /\ UNCHANGED <<file, header, size, end>> /\ UNCHANGED <<audio, codebook>>
        /\ common' = c.common /\ has' = has \cup {"COMM"}
    BY DEF ParseComm
  <1>6. codec' \in {"PCM", "VADPCM"} /\ (codec' = "VADPCM" => header.kind = "AIFC")
    BY <1>3 DEF ParseComm
  <1>7. /\ audio' \in [from : Nat, size : Nat]
        /\ audio'.size > 0 => audio'.from + audio'.size <= size
        /\ codebook' \in [order : 0 .. MaxOrder, predictor_count : 0 .. MaxPredictorCount]
        /\ has' \subseteq {"COMM", "SSND", "codebook"} /\ common' \in Commons
    BY <1>3, <1>5, OthersKept
  <1> QED
    BY <1>1, <1>4, <1>5, <1>6, <1>7, AdvanceInv

(* A chunk that is passed over. *)
LEMMA SkipInv ==
  ASSUME NEW c, AtChunk(c), ChunkFits(c), Advance(c), inBounds' = TRUE,
         UNCHANGED <<file, header, size, end, has, aiff>>
  PROVE  IInv' /\ offset' \in offset + 8 .. end
  <1>1. UNCHANGED <<file, header, size, end>> /\ UNCHANGED <<has, common, codec, audio, codebook>>
    BY DEF aiff
  <1>2. /\ audio' \in [from : Nat, size : Nat]
        /\ audio'.size > 0 => audio'.from + audio'.size <= size
        /\ codebook' \in [order : 0 .. MaxOrder, predictor_count : 0 .. MaxPredictorCount]
        /\ codec' \in {"PCM", "VADPCM"} /\ (codec' = "VADPCM" => header.kind = "AIFC")
        /\ has' \subseteq {"COMM", "SSND", "codebook"} /\ common' \in Commons
    BY <1>1, OthersKept
  <1> QED
    BY <1>1, <1>2, AdvanceInv

LEMMA SoundInv ==
  ASSUME NEW c, AtChunk(c), ParseSound(c)
  PROVE  IInv' /\ offset' \in offset + 8 .. end
  <1>1. c.id = "SSND" /\ ChunkFits(c) /\ c.size >= 8 /\ c.offset <= c.size - 8
    BY DEF ParseSound, Enter
  <1>2. HeaderInside(c) /\ ChunkInside(c)
    BY <1>1, AtChunkTypes, FitsInside
  <1>3. c.offset \in Nat
    BY <1>1, <1>2, AiffAssumption DEF HeaderInside, IsChunk, Words
  <1>4. inBounds' = TRUE
    <2>1. At \in Int /\ 4 \in Int /\ At + 4 <= At + c.size
      BY <1>1, <1>2 DEF HeaderInside
    <2>2. Read(At, 4, Until(c))
      BY DEF ParseSound
    <2> QED
      BY <1>1, <2>1, <2>2, ReadChunk, Zenon
  <1>5. /\ Advance(c)
        /\ UNCHANGED <<file, header, size, end>> /\ UNCHANGED <<common, codec, codebook>>
        /\ audio' = [from |-> At + 8 + c.offset, size |-> c.size - 8 - c.offset]
        /\ has' = has \cup {"SSND"}
    BY DEF ParseSound
  <1>6. /\ audio' \in [from : Nat, size : Nat]
        /\ audio'.from + audio'.size <= size
    BY <1>1, <1>2, <1>3, <1>5 DEF HeaderInside, ChunkInside
  <1>7. /\ codec' \in {"PCM", "VADPCM"} /\ (codec' = "VADPCM" => header.kind = "AIFC")
        /\ codebook' \in [order : 0 .. MaxOrder, predictor_count : 0 .. MaxPredictorCount]
        /\ has' \subseteq {"COMM", "SSND", "codebook"} /\ common' \in Commons
    BY <1>5, OthersKept
  <1> QED
    BY <1>1, <1>4, <1>5, <1>6, <1>7, AdvanceInv

LEMMA VersionInv ==
  ASSUME NEW c, AtChunk(c), ParseVersion(c)
  PROVE  IInv' /\ offset' \in offset + 8 .. end
  <1>1. c.size >= 4 /\ ChunkFits(c) /\ HeaderInside(c)
    BY AtChunkTypes DEF ParseVersion, Enter
  <1>2. At \in Int /\ 4 \in Int /\ At + 4 <= At + c.size
    BY <1>1 DEF HeaderInside
  <1>3. Read(At, 4, Until(c)) /\ Advance(c) /\ UNCHANGED <<file, header, size, end, has, aiff>>
    BY DEF ParseVersion
  <1>4. inBounds' = TRUE
    BY <1>1, <1>2, <1>3, ReadChunk, Zenon
  <1> QED
    BY <1>1, <1>3, <1>4, SkipInv

LEMMA OtherInv ==
  ASSUME NEW c, AtChunk(c), SkipChunk(c)
  PROVE  IInv' /\ offset' \in offset + 8 .. end
  <1>1. /\ ChunkFits(c) /\ Read(offset, 8, end) /\ Advance(c)
        /\ UNCHANGED <<file, header, size, end, has, aiff>>
    BY DEF SkipChunk, Enter
  <1>2. inBounds' = TRUE
    BY <1>1, ReadChunkHeader
  <1> QED
    BY <1>1, <1>2, SkipInv

LEMMA ApplInv ==
  ASSUME NEW c, AtChunk(c), SkipAppl(c)
  PROVE  IInv' /\ offset' \in offset + 8 .. end
  <1>1. ChunkFits(c) /\ Advance(c) /\ UNCHANGED <<file, header, size, end, has, aiff>>
    BY DEF SkipAppl, Enter
  <1>2. HeaderInside(c)
    BY AtChunkTypes
  <1>3. At \in Int /\ 4 \in Int /\ 5 \in Int /\ 4 + 12 \in Int
    BY <1>2 DEF HeaderInside
  <1>4. inBounds' = TRUE
    <2>1. CASE c.size >= 4 /\ Read(At, 4, Until(c))
      <3>1. At + 4 <= At + c.size
        BY <1>2, <2>1 DEF HeaderInside
      <3> QED
        BY <1>1, <1>3, <2>1, <3>1, ReadChunk, Zenon
    <2>2. CASE c.size >= 5 /\ Read(At, 5, Until(c))
      <3>1. At + 5 <= At + c.size
        BY <1>2, <2>2 DEF HeaderInside
      <3> QED
        BY <1>1, <1>3, <2>2, <3>1, ReadChunk, Zenon
    <2>3. CASE ~NameCut(c) /\ c.name_length = 11 /\ Read(At, 4 + 12, Until(c))
      <3>1. c.size - 4 >= 12
        BY <1>2, <2>3, AlignName DEF NameCut, HeaderInside
      <3>2. At + (4 + 12) <= At + c.size
        BY <1>2, <3>1 DEF HeaderInside
      <3> QED
        BY <1>1, <1>3, <2>3, <3>2, ReadChunk, Zenon
    <2> QED
      BY <2>1, <2>2, <2>3 DEF SkipAppl
  <1> QED
    BY <1>1, <1>4, SkipInv

(* A codebook begins inside its chunk. *)
LEMMA AtCodebookInside ==
  ASSUME NEW c, AtChunk(c), AtCodebook(c)
  PROVE  /\ c.id = "APPL" /\ ChunkFits(c) /\ HeaderInside(c)
         /\ c.order \in Nat /\ c.predictor_count \in Nat
         /\ CodebookAt(c) \in Int /\ CodebookSize(c) \in Nat
         /\ CodebookAt(c) + CodebookSize(c) = At + c.size
  <1>1. c.id = "APPL" /\ ChunkFits(c) /\ HeaderInside(c) /\ c.stoc /\ c.match /\ ~NameCut(c)
    BY AtChunkTypes DEF AtCodebook, Enter
  <1>2. c.name_length = 11 /\ c.order \in Nat /\ c.predictor_count \in Nat
    BY <1>1 DEF HeaderInside, IsChunk
  <1>3. c.size - 4 >= 12
    BY <1>1, <1>2, AlignName DEF NameCut, HeaderInside
  <1> QED
    BY <1>1, <1>2, <1>3 DEF HeaderInside, CodebookAt, CodebookSize

LEMMA ReadCodebook ==
  ASSUME NEW c, AtChunk(c), AtCodebook(c), NEW count \in Int, count <= CodebookSize(c),
         Read(CodebookAt(c), count, Until(c))
  PROVE  inBounds' = TRUE
  <1>1. ChunkFits(c) /\ CodebookAt(c) \in Int /\ CodebookSize(c) \in Nat
        /\ CodebookAt(c) + CodebookSize(c) = At + c.size
    BY AtCodebookInside
  <1>2. CodebookAt(c) + count <= At + c.size
    BY <1>1
  <1> QED
    BY <1>1, <1>2, ReadChunk, Zenon

LEMMA CodebookInv ==
  ASSUME NEW c, AtChunk(c), ParseCodebook(c)
  PROVE  IInv' /\ offset' \in offset + 8 .. end
  <1>1. /\ AtCodebook(c) /\ CodebookSize(c) >= 6 /\ VectorsFit(c)
        /\ c.order <= MaxOrder /\ c.predictor_count <= MaxPredictorCount
    BY DEF ParseCodebook, CodebookValid
  <1>2. /\ ChunkFits(c) /\ HeaderInside(c) /\ CodebookSize(c) \in Nat
        /\ c.order \in Nat /\ c.predictor_count \in Nat
    BY <1>1, AtCodebookInside
  <1>3. VectorCount(c) \in Nat
    BY <1>2 DEF VectorCount
  <1>4. 6 + 16 * VectorCount(c) \in Int /\ 6 + 16 * VectorCount(c) <= CodebookSize(c)
    <2>1. CASE VectorCount(c) = 0
      BY <1>1, <1>2, <2>1
    <2>2. CASE VectorCount(c) > 0
      BY <1>1, <1>2, <1>3, <2>2 DEF VectorsFit
    <2> QED
      BY <1>3, <2>1, <2>2
  <1>5. /\ Read(CodebookAt(c), 6 + 16 * VectorCount(c), Until(c))
        /\ Advance(c)
        /\ UNCHANGED <<file, header, size, end>> /\ UNCHANGED <<common, codec, audio>>
        /\ codebook' = [order |-> c.order, predictor_count |-> c.predictor_count]
        /\ has' = has \cup {"codebook"}
    BY DEF ParseCodebook
  <1>6. inBounds' = TRUE
    BY <1>1, <1>4, <1>5, ReadCodebook, Zenon
  <1>7. codebook' \in [order : 0 .. MaxOrder, predictor_count : 0 .. MaxPredictorCount]
    BY <1>1, <1>2, <1>5, AiffAssumption
  <1>8. /\ codec' \in {"PCM", "VADPCM"} /\ (codec' = "VADPCM" => header.kind = "AIFC")
        /\ audio' \in [from : Nat, size : Nat]
        /\ audio'.size > 0 => audio'.from + audio'.size <= size
        /\ has' \subseteq {"COMM", "SSND", "codebook"} /\ common' \in Commons
    BY <1>5, OthersKept
  <1> QED
    BY <1>2, <1>5, <1>6, <1>7, <1>8, AdvanceInv

---------------------------------------------------------------------------------
(* The errors *)

(* Nothing of the chunk is read, but for its header. *)
LEMMA ReadNothing ==
  ASSUME NEW c, AtChunk(c), ChunkFits(c), Read(At, 0, Until(c))
  PROVE  inBounds' = TRUE
  <1>1. HeaderInside(c)
    BY AtChunkTypes
  <1>2. At \in Int /\ 0 \in Int /\ At + 0 <= At + c.size
    BY <1>1 DEF HeaderInside
  <1> QED
    BY <1>2, ReadChunk, Zenon

(* An error that leaves everything but what was seen as it was. *)
LEMMA ErrorInv ==
  ASSUME NEW c, AtChunk(c), Fail, inBounds' = TRUE,
         has' = has \/ has' = has \cup {"SSND"} \/ has' = has \cup {"codebook"},
         UNCHANGED <<file, header, size, offset, end, aiff>>
  PROVE  IInv'
  <1>1. HeaderInside(c) /\ IInv
    BY AtChunkTypes DEF AtChunk
  <1>2. has' \subseteq {"COMM", "SSND", "codebook"} /\ common' \in Commons
    BY <1>1 DEF HeaderInside, aiff
  <1> QED
    BY <1>1, <1>2, ReturnInv DEF Fail, aiff

LEMMA SizeErrorInv ==
  ASSUME NEW c, AtChunk(c), ChunkSizeInvalid(c)
  PROVE  IInv'
  BY ReadChunkHeader, ErrorInv DEF ChunkSizeInvalid

LEMMA CommErrorInv ==
  ASSUME NEW c, AtChunk(c), CommError(c) \/ CodecError(c)
  PROVE  IInv'
  <1>1. c.id = "COMM" /\ ChunkFits(c) /\ HeaderInside(c)
    BY AtChunkTypes DEF CommError, CodecError, Enter
  <1>2. CASE CommError(c)
    BY <1>1, <1>2, ReadNothing, ErrorInv DEF CommError
  <1>3. CASE CodecError(c)
    <2>1. At \in Int /\ 22 \in Int /\ At + 22 <= At + c.size
      BY <1>1, <1>3 DEF CodecError, CommTooSmall, HeaderInside
    <2>2. /\ Read(At, 22, Until(c)) /\ pc' = "error"
          /\ has' = has \cup {"COMM"} /\ common' = c.common
          /\ UNCHANGED <<file, header, size, offset, end, codec, audio, codebook>>
      BY <1>3 DEF CodecError, Fail
    <2>3. inBounds' = TRUE
      BY <1>1, <2>1, <2>2, ReadChunk, Zenon
    <2>4. has' \subseteq {"COMM", "SSND", "codebook"} /\ common' \in Commons
      BY <1>1, <2>2 DEF HeaderInside, IsChunk
    <2> QED
      BY <2>2, <2>3, <2>4, ReturnInv DEF AtChunk
  <1> QED
    BY <1>2, <1>3

LEMMA SoundErrorInv ==
  ASSUME NEW c, AtChunk(c), SoundError(c)
  PROVE  IInv'
  <1>1. ChunkFits(c) /\ HeaderInside(c) /\ Fail
        /\ UNCHANGED <<file, header, size, offset, end, aiff>>
    BY AtChunkTypes DEF SoundError, Enter
  <1>2. CASE Read(At, 0, Until(c)) /\ UNCHANGED has
    BY <1>1, <1>2, ReadNothing, ErrorInv
  <1>3. CASE c.size >= 8 /\ Read(At, 4, Until(c)) /\ has' = has \cup {"SSND"}
    <2>1. At \in Int /\ 4 \in Int /\ At + 4 <= At + c.size
      BY <1>1, <1>3 DEF HeaderInside
    <2>2. inBounds' = TRUE
      BY <1>1, <1>3, <2>1, ReadChunk, Zenon
    <2> QED
      BY <1>1, <1>3, <2>2, ErrorInv
  <1> QED
    BY <1>2, <1>3 DEF SoundError

LEMMA VersionErrorInv ==
  ASSUME NEW c, AtChunk(c), VersionError(c)
  PROVE  IInv'
  BY ReadNothing, ErrorInv DEF VersionError, Enter

LEMMA ApplErrorInv ==
  ASSUME NEW c, AtChunk(c), ApplError(c)
  PROVE  IInv'
  <1>1. ChunkFits(c) /\ HeaderInside(c) /\ Fail
        /\ UNCHANGED <<file, header, size, offset, end, has, aiff>>
    BY AtChunkTypes DEF ApplError, Enter
  <1>2. At \in Int /\ 4 \in Int /\ 5 \in Int
    BY <1>1 DEF HeaderInside
  <1>3. inBounds' = TRUE
    <2>1. CASE Read(At, 0, Until(c))
      BY <1>1, <2>1, ReadNothing
    <2>2. CASE c.size >= 4 /\ Read(At, 4, Until(c))
      <3>1. At + 4 <= At + c.size
        BY <1>1, <2>2 DEF HeaderInside
      <3> QED
        BY <1>1, <1>2, <2>2, <3>1, ReadChunk, Zenon
    <2>3. CASE c.size >= 5 /\ Read(At, 5, Until(c))
      <3>1. At + 5 <= At + c.size
        BY <1>1, <2>3 DEF HeaderInside
      <3> QED
        BY <1>1, <1>2, <2>3, <3>1, ReadChunk, Zenon
    <2> QED
      BY <2>1, <2>2, <2>3 DEF ApplError
  <1> QED
    BY <1>1, <1>3, ErrorInv

LEMMA CodebookErrorInv ==
  ASSUME NEW c, AtChunk(c), CodebookTwice(c) \/ CodebookError(c)
  PROVE  IInv'
  <1>1. AtCodebook(c) /\ Fail /\ UNCHANGED <<file, header, size, offset, end, aiff>>
        /\ (has' = has \/ has' = has \cup {"codebook"})
    BY DEF CodebookTwice, CodebookError
  <1>2. /\ ChunkFits(c) /\ HeaderInside(c) /\ CodebookSize(c) \in Nat
        /\ CodebookAt(c) + CodebookSize(c) = At + c.size
    BY <1>1, AtCodebookInside
  <1>3. inBounds' = TRUE
    <2>1. CASE CodebookTwice(c)
      <3>1. At \in Int /\ 4 + 12 \in Int /\ At + (4 + 12) <= At + c.size
        BY <1>2 DEF HeaderInside, CodebookAt
      <3>2. Read(At, 4 + 12, Until(c))
        BY <2>1 DEF CodebookTwice
      <3> QED
        BY <1>2, <3>1, <3>2, ReadChunk, Zenon
    <2>2. CASE CodebookError(c)
      <3>1. /\ 0 \in Int /\ 0 <= CodebookSize(c)
            /\ 2 \in Int /\ (CodebookSize(c) >= 2 => 2 <= CodebookSize(c))
            /\ 6 \in Int /\ (CodebookSize(c) >= 6 => 6 <= CodebookSize(c))
        BY <1>2
      <3>2. CASE Read(CodebookAt(c), 0, Until(c))
        BY <1>1, <3>1, <3>2, ReadCodebook, Zenon
      <3>3. CASE CodebookSize(c) >= 2 /\ Read(CodebookAt(c), 2, Until(c))
        BY <1>1, <3>1, <3>3, ReadCodebook, Zenon
      <3>4. CASE CodebookSize(c) >= 6 /\ Read(CodebookAt(c), 6, Until(c))
        BY <1>1, <3>1, <3>4, ReadCodebook, Zenon
      <3> QED
        BY <2>2, <3>2, <3>3, <3>4 DEF CodebookError
    <2> QED
      BY <2>1, <2>2
  <1> QED
    BY <1>1, <1>3, ErrorInv

LEMMA MemoryErrorInv ==
  ASSUME NEW c, AtChunk(c), OutOfMemory(c)
  PROVE  IInv'
  <1>1. HeaderInside(c) /\ IInv
    BY AtChunkTypes DEF AtChunk
  <1> QED
    BY <1>1, ReturnInv DEF OutOfMemory, HeaderInside, aiff

---------------------------------------------------------------------------------
(* Every step *)

(* A step at a chunk keeps the invariant, and if it goes on, goes on past a header. *)
LEMMA ChunkInv ==
  ASSUME IInv, NextChunk
  PROVE  IInv' /\ (pc' = "chunk" => offset' \in offset + 8 .. end)
  <1>1. PICK c \in ChunkAt(offset) : ParseChunk(c)
    BY DEF NextChunk
  <1>2. AtChunk(c)
    BY DEF NextChunk, AtChunk
  <1>3. CASE ParseComm(c) \/ ParseSound(c) \/ ParseVersion(c) \/ SkipChunk(c) \/ SkipAppl(c)
             \/ ParseCodebook(c)
    BY <1>2, <1>3, CommInv, SoundInv, VersionInv, OtherInv, ApplInv, CodebookInv
  <1>4. CASE ChunkSizeInvalid(c) \/ CommError(c) \/ CodecError(c) \/ SoundError(c)
             \/ VersionError(c) \/ ApplError(c) \/ CodebookTwice(c) \/ CodebookError(c)
             \/ OutOfMemory(c)
    <2>1. IInv'
      BY <1>2, <1>4, SizeErrorInv, CommErrorInv, SoundErrorInv, VersionErrorInv, ApplErrorInv,
         CodebookErrorInv, MemoryErrorInv
    <2>2. pc' # "chunk"
      BY <1>4 DEF ChunkSizeInvalid, CommError, CodecError, SoundError, VersionError, ApplError,
                  CodebookTwice, CodebookError, OutOfMemory, Fail
    <2> QED
      BY <2>1, <2>2
  <1> QED
    BY <1>1, <1>3, <1>4 DEF ParseChunk

LEMMA NextInv ==
  ASSUME IInv, [Next]_vars
  PROVE  IInv'
  <1>1. CASE HeaderError \/ ReadHeader
    BY <1>1, HeaderInv
  <1>2. CASE ChunkHeaderCut \/ Finish
    BY <1>2, EndInv
  <1>3. CASE NextChunk
    BY <1>3, ChunkInv
  <1>4. CASE UNCHANGED vars
    BY <1>4 DEF vars, aiff, IInv, TypeOK, AudioInFile, CompleteOnSuccess
  <1> QED
    BY <1>1, <1>2, <1>3, <1>4 DEF Next, ParseStep

(* The invariant holds of every aiff_parse of every file. *)
THEOREM AiffInvariant == Spec => []IInv
  <1>1. Init => IInv
    BY InitInv
  <1>2. IInv /\ [Next]_vars => IInv'
    BY NextInv
  <1> QED
    BY <1>1, <1>2, PTL DEF Spec

(* Every variable of aiff_parse keeps its type. *)
THEOREM AiffTypes == Spec => []TypeOK
  <1>1. IInv => TypeOK
    BY DEF IInv
  <1> QED
    BY <1>1, AiffInvariant, PTL

(* aiff_parse reads nothing outside its chunk or the file, whatever sizes are in it. *)
THEOREM AiffReads == Spec => []ReadsInBounds
  <1>1. IInv => ReadsInBounds
    BY DEF IInv, ReadsInBounds
  <1> QED
    BY <1>1, AiffInvariant, PTL

(* The audio that aiff_parse hands to its caller is in the file. *)
THEOREM AiffAudio == Spec => []AudioInFile
  <1>1. IInv => AudioInFile
    BY DEF IInv
  <1> QED
    BY <1>1, AiffInvariant, PTL

(* A file that aiff_parse accepts has what it must have, and was read to its end. *)
THEOREM AiffComplete == Spec => []CompleteOnSuccess
  <1>1. IInv => CompleteOnSuccess
    BY DEF IInv
  <1> QED
    BY <1>1, AiffInvariant, PTL

(***************************************************************************)
(* Every round of the loop of aiff_parse moves on by a chunk header at     *)
(* least, and never past the end.                                          *)
(***************************************************************************)
THEOREM AiffAdvances == Spec => ChunksAdvance
  <1>1. ASSUME IInv, [Next]_vars
        PROVE  [pc = "chunk" /\ pc' = "chunk" => offset' \in offset + 8 .. end]_vars
    <2>1. CASE NextChunk
      BY <1>1, <2>1, ChunkInv
    <2>2. CASE HeaderError \/ ReadHeader
      BY <2>2 DEF HeaderError, ReadHeader
    <2>3. CASE ChunkHeaderCut \/ Finish
      BY <2>3 DEF ChunkHeaderCut, Finish, Fail
    <2>4. CASE UNCHANGED vars
      BY <2>4
    <2> QED
      BY <1>1, <2>1, <2>2, <2>3, <2>4 DEF Next, ParseStep
  <1> QED
    BY <1>1, AiffInvariant, PTL DEF Spec, ChunksAdvance

---------------------------------------------------------------------------------
(* The layout of a file that aiff_write writes *)

Writing == data \in Written /\ ~Refused

IsVADPCM == data.version = "AIFC" /\ data.codec = "VADPCM"
Vectors  == data.order * data.predictor_count

(* The audio and its header in SSND, with the padding byte. *)
SoundSize == 8 + data.audio + ((8 + data.audio) % 2)

LEMMA WrittenTypes ==
  ASSUME Writing
  PROVE  /\ data.version \in {"AIFF", "AIFC"} /\ data.codec \in {"PCM", "VADPCM"}
         /\ data.version = "AIFF" => data.codec = "PCM"
         /\ data.common \in Commons /\ data.audio \in Nat /\ data.audio <= WordModulus - 9
         /\ data.order \in 0 .. MaxOrder /\ data.predictor_count \in 0 .. MaxPredictorCount
         /\ data # NoFile
  <1>1. data.audio \in Nat /\ data \in Written /\ data # NoFile
    BY WrittenAssumption DEF Writing
  <1>2. ~(data.audio > WordModulus - 1 - 8)
    BY DEF Writing, Refused
  <1>3. data.audio <= WordModulus - 9
    BY <1>1, <1>2, AiffAssumption
  <1> QED
    BY <1>1, <1>3, WrittenAssumption DEF Writing, Refused

LEMMA WrittenVectors ==
  ASSUME Writing
  PROVE  Vectors \in Nat /\ 112 + 16 * Vectors <= WordModulus
  <1>1. /\ data.order \in Nat /\ data.predictor_count \in Nat
        /\ MaxOrder - data.order \in Nat /\ MaxPredictorCount - data.predictor_count \in Nat
        /\ MaxOrder \in Nat /\ MaxPredictorCount \in Nat
    BY WrittenTypes, AiffAssumption
  <1> DEFINE o == data.order
             p == data.predictor_count
  <1> HIDE DEF o, p
  <1>2. (MaxOrder - o) * p >= 0 /\ MaxOrder * (MaxPredictorCount - p) >= 0
    BY <1>1 DEF o, p
  <1>3. /\ (MaxOrder - o) * p = MaxOrder * p - o * p
        /\ MaxOrder * (MaxPredictorCount - p) = MaxOrder * MaxPredictorCount - MaxOrder * p
        /\ MaxOrder * p \in Int /\ o * p \in Nat /\ MaxOrder * MaxPredictorCount \in Int
    BY <1>1 DEF o, p
  <1>4. o * p <= MaxOrder * MaxPredictorCount
    BY <1>2, <1>3
  <1> QED
    BY <1>3, <1>4, CodebookAssumption, AiffAssumption DEF Vectors, o, p

(* Each chunk begins where the one before it ends. *)
LEMMA ChunkOffsets ==
  /\ chunk_offset[1] = 12
  /\ \A n \in 2 .. 5 :
        chunk_offset[n] = IF chunk_size[ChunkOrder[n - 1]] = 0 THEN chunk_offset[n - 1]
                          ELSE (chunk_offset[n - 1] + 8 + Align32(chunk_size[ChunkOrder[n - 1]]))
                               % WordModulus
  <1> DEFINE Place(o, length) ==
               IF length = 0 THEN o ELSE (o + 8 + Align32(length)) % WordModulus
             Offsets(h) ==
               [n \in 1 .. 5 |->
                  IF n = 1 THEN 12 ELSE Place(h[n - 1], chunk_size[ChunkOrder[n - 1]])]
             p2 == Place(12, chunk_size[ChunkOrder[1]])
             p3 == Place(p2, chunk_size[ChunkOrder[2]])
             p4 == Place(p3, chunk_size[ChunkOrder[3]])
             p5 == Place(p4, chunk_size[ChunkOrder[4]])
             f == [n \in 1 .. 5 |-> IF n = 1 THEN 12 ELSE IF n = 2 THEN p2 ELSE IF n = 3 THEN p3
                                    ELSE IF n = 4 THEN p4 ELSE p5]
             g == CHOOSE h : h = Offsets(h)
  <1>1. f = Offsets(f)
    <2> HIDE DEF Place
    <2>1. ASSUME NEW n \in 1 .. 5
          PROVE  f[n] = IF n = 1 THEN 12 ELSE Place(f[n - 1], chunk_size[ChunkOrder[n - 1]])
      <3>1. f[1] = 12 /\ f[2] = p2 /\ f[3] = p3 /\ f[4] = p4 /\ f[5] = p5
        OBVIOUS
      <3> HIDE DEF f
      <3>2. n = 1 \/ n = 2 \/ n = 3 \/ n = 4 \/ n = 5
        OBVIOUS
      <3> QED
        BY <3>1, <3>2
    <2>2. DOMAIN f = 1 .. 5
      OBVIOUS
    <2> HIDE DEF f
    <2>3. f = [n \in 1 .. 5 |-> f[n]]
      BY Zenon DEF f
    <2> QED
      BY <2>1, <2>3
  <1>2. g = Offsets(g)
    <2> HIDE DEF f, Offsets
    <2> QED
      BY <1>1
  <1>3. chunk_offset = g
    BY Zenon DEF chunk_offset
  <1> HIDE DEF g, Place
  <1>4. \A n \in 1 .. 5 :
           g[n] = IF n = 1 THEN 12 ELSE Place(g[n - 1], chunk_size[ChunkOrder[n - 1]])
    BY <1>2
  <1> QED
    BY <1>3, <1>4 DEF Place
LEMMA SizesWritten ==
  ASSUME Writing
  PROVE  /\ chunk_size["FVER"] = IF data.version = "AIFC" THEN 4 ELSE 0
         /\ chunk_size["COMM"] = IF data.version = "AIFC"
                                 THEN IF data.codec = "VADPCM" THEN 34 ELSE 37 ELSE 18
         /\ chunk_size["APPL"] = IF IsVADPCM THEN 22 + 16 * Vectors ELSE 0
         /\ chunk_size["SSND"] = 8 + data.audio
  <1>1. Vectors \in Nat /\ data.order \in Nat /\ data.predictor_count \in Nat
    BY WrittenVectors, WrittenTypes, AiffAssumption
  <1>2. 16 + 6 + 16 * data.order * data.predictor_count = 22 + 16 * Vectors
    BY <1>1 DEF Vectors
  <1>3. CodecNameLength["PCM"] = 14 /\ CodecNameLength["VADPCM"] = 11
    BY DEF CodecNameLength
  <1> QED
    BY <1>2, <1>3, WrittenTypes DEF chunk_size, IsVADPCM

(* The next even number, unless it is one more than a word holds. *)
LEMMA AlignEven ==
  ASSUME NEW n \in Nat, n < WordModulus - 1
  PROVE  Align32(n) = n + (n % 2)
  <1>1. n + 1 \in 0 .. WordModulus - 1
    BY AiffAssumption
  <1>2. (n + 1) % WordModulus = n + 1
    BY <1>1, SmallModulo
  <1>3. n + 1 - ((n + 1) % 2) = n + (n % 2)
    OBVIOUS
  <1> QED
    BY <1>2, <1>3 DEF Align32

LEMMA AlignLargest == Align32(WordModulus - 1) = 0
  <1>1. (WordModulus - 1 + 1) % WordModulus = 0 /\ 0 % 2 = 0
    BY AiffAssumption
  <1> QED
    BY <1>1 DEF Align32

(* Where the chunks are. *)
LEMMA Layout ==
  ASSUME Writing
  PROVE  /\ chunk_offset[1] = 12
         /\ chunk_offset[2] = IF data.version = "AIFC" THEN 24 ELSE 12
         /\ chunk_offset[3] = IF data.version = "AIFC"
                              THEN IF data.codec = "VADPCM" THEN 66 ELSE 70 ELSE 38
         /\ chunk_offset[4] = IF IsVADPCM THEN 96 + 16 * Vectors ELSE chunk_offset[3]
         /\ chunk_offset[5] = (chunk_offset[4] + 8 + Align32(8 + data.audio)) % WordModulus
  <1>1. /\ ChunkOrder[1] = "FVER" /\ ChunkOrder[2] = "COMM" /\ ChunkOrder[3] = "APPL"
        /\ ChunkOrder[4] = "SSND"
    BY DEF ChunkOrder
  <1>2. 2 \in 2 .. 5 /\ 3 \in 2 .. 5 /\ 4 \in 2 .. 5 /\ 5 \in 2 .. 5
        /\ 2 - 1 = 1 /\ 3 - 1 = 2 /\ 4 - 1 = 3 /\ 5 - 1 = 4
    OBVIOUS
  <1>3. /\ chunk_offset[2] = IF chunk_size["FVER"] = 0 THEN chunk_offset[1]
              ELSE (chunk_offset[1] + 8 + Align32(chunk_size["FVER"])) % WordModulus
        /\ chunk_offset[3] = IF chunk_size["COMM"] = 0 THEN chunk_offset[2]
              ELSE (chunk_offset[2] + 8 + Align32(chunk_size["COMM"])) % WordModulus
        /\ chunk_offset[4] = IF chunk_size["APPL"] = 0 THEN chunk_offset[3]
              ELSE (chunk_offset[3] + 8 + Align32(chunk_size["APPL"])) % WordModulus
        /\ chunk_offset[5] = IF chunk_size["SSND"] = 0 THEN chunk_offset[4]
              ELSE (chunk_offset[4] + 8 + Align32(chunk_size["SSND"])) % WordModulus
    BY <1>1, <1>2, ChunkOffsets
  <1>4. Vectors \in Nat /\ 112 + 16 * Vectors <= WordModulus /\ WordModulus \in Nat
    BY WrittenVectors, AiffAssumption
  <1>5. /\ Align32(4) = 4 /\ Align32(18) = 18 /\ Align32(34) = 34 /\ Align32(37) = 38
        /\ Align32(22 + 16 * Vectors) = 22 + 16 * Vectors
    BY <1>4, AlignEven
  <1>6. chunk_offset[1] = 12
    BY ChunkOffsets
  <1>7. chunk_offset[2] = IF data.version = "AIFC" THEN 24 ELSE 12
    <2>1. 24 % WordModulus = 24
      BY <1>4
    <2> QED
      BY <1>3, <1>5, <1>6, <2>1, SizesWritten
  <1>8. chunk_offset[3] = IF data.version = "AIFC"
                          THEN IF data.codec = "VADPCM" THEN 66 ELSE 70 ELSE 38
    <2>1. 66 % WordModulus = 66 /\ 70 % WordModulus = 70 /\ 38 % WordModulus = 38
      BY <1>4
    <2> QED
      BY <1>3, <1>5, <1>7, <2>1, SizesWritten
  <1>9. chunk_offset[4] = IF IsVADPCM THEN 96 + 16 * Vectors ELSE chunk_offset[3]
    <2>1. CASE IsVADPCM
      <3>1. 96 + 16 * Vectors \in 0 .. WordModulus - 1 /\ 22 + 16 * Vectors # 0
            /\ 66 + 8 + (22 + 16 * Vectors) = 96 + 16 * Vectors
        BY <1>4
      <3>2. chunk_size["APPL"] = 22 + 16 * Vectors /\ chunk_offset[3] = 66
        BY <1>8, <2>1, SizesWritten DEF IsVADPCM
      <3>3. chunk_offset[4] = (66 + 8 + (22 + 16 * Vectors)) % WordModulus
        BY <1>3, <1>5, <3>1, <3>2
      <3> QED
        BY <2>1, <3>1, <3>3, SmallModulo
    <2>2. CASE ~IsVADPCM
      BY <1>3, <2>2, SizesWritten
    <2> QED
      BY <2>1, <2>2
  <1>10. chunk_offset[5] = (chunk_offset[4] + 8 + Align32(8 + data.audio)) % WordModulus
    <2>1. 8 + data.audio # 0
      BY WrittenTypes
    <2> QED
      BY <1>3, <2>1, SizesWritten
  <1> QED
    BY <1>6, <1>7, <1>8, <1>9, <1>10

LEMMA OffsetBounds ==
  ASSUME Writing
  PROVE  /\ \A n \in 1 .. 4 : chunk_offset[n] \in Nat /\ chunk_offset[n] <= chunk_offset[4]
         /\ chunk_offset[4] + 16 <= WordModulus
         /\ SoundSize \in 8 .. WordModulus /\ SoundSize >= 8 + data.audio
         /\ FileLength = chunk_offset[4] + 8 + SoundSize
         /\ FileLength \in Nat /\ FileLength < 2 * WordModulus
         /\ \A n \in 1 .. 4 : chunk_offset[n] + 16 <= FileLength
         /\ Align32(8 + data.audio) = IF 8 + data.audio < WordModulus - 1 THEN SoundSize ELSE 0
         /\ 8 + data.audio = WordModulus - 1 => SoundSize = WordModulus
  <1>1. /\ Vectors \in Nat /\ 112 + 16 * Vectors <= WordModulus /\ WordModulus \in Nat
        /\ WordModulus % 2 = 0
    BY WrittenVectors, AiffAssumption
  <1>2. \A n \in 1 .. 4 : n = 1 \/ n = 2 \/ n = 3 \/ n = 4
    OBVIOUS
  <1>3. /\ \A n \in 1 .. 4 : chunk_offset[n] \in Nat /\ chunk_offset[n] <= chunk_offset[4]
        /\ chunk_offset[4] + 16 <= WordModulus
    BY <1>1, <1>2, Layout, WrittenTypes DEF IsVADPCM
  <1>4. data.audio \in Nat /\ data.audio <= WordModulus - 9
    BY WrittenTypes
  <1>5. 8 + data.audio = WordModulus - 1 => SoundSize = WordModulus
    <2> SUFFICES ASSUME 8 + data.audio = WordModulus - 1 PROVE SoundSize = WordModulus
      OBVIOUS
    <2>1. (WordModulus - 1) % 2 = 1
      BY <1>1
    <2> QED
      BY <1>1, <2>1 DEF SoundSize
  <1>6. (8 + data.audio) % 2 \in 0 .. 1
    BY <1>4
  <1>7. SoundSize \in 8 .. WordModulus /\ SoundSize >= 8 + data.audio
    <2>1. CASE 8 + data.audio = WordModulus - 1
      BY <1>1, <1>4, <1>5, <2>1
    <2>2. CASE 8 + data.audio # WordModulus - 1
      BY <1>1, <1>4, <1>6, <2>2 DEF SoundSize
    <2> QED
      BY <2>1, <2>2
  <1>8. FileLength = chunk_offset[4] + 8 + SoundSize
    BY <1>3, <1>4, <1>6, SizesWritten DEF FileLength, SoundSize
  <1>9. Align32(8 + data.audio) = IF 8 + data.audio < WordModulus - 1 THEN SoundSize ELSE 0
    <2>1. CASE 8 + data.audio < WordModulus - 1
      BY <1>4, <2>1, AlignEven DEF SoundSize
    <2>2. CASE ~(8 + data.audio < WordModulus - 1)
      <3>1. 8 + data.audio = WordModulus - 1
        BY <1>1, <1>4, <2>2
      <3> QED
        BY <2>2, <3>1, AlignLargest
    <2> QED
      BY <2>1, <2>2
  <1>10. /\ FileLength \in Nat /\ FileLength < 2 * WordModulus
         /\ \A n \in 1 .. 4 : chunk_offset[n] + 16 <= FileLength
    BY <1>1, <1>3, <1>7, <1>8
  <1> QED
    BY <1>3, <1>5, <1>7, <1>8, <1>9, <1>10

(* The header states the size of the contents, or what a word holds of it. *)
LEMMA ContentSize ==
  ASSUME Writing
  PROVE  (chunk_offset[5] - 8) % WordModulus
           = IF FileLength - 8 < WordModulus THEN FileLength - 8
             ELSE FileLength - 8 - WordModulus
  <1> DEFINE x == chunk_offset[4] + 8 + Align32(8 + data.audio)
             w == WordModulus
             l == FileLength
  <1>1. /\ chunk_offset[5] = x % w /\ w \in Nat /\ w > 64
        /\ l \in Nat /\ l < 2 * w /\ l >= 16
    BY Layout, OffsetBounds, AiffAssumption
  <1>2. x = l \/ (x = l - w /\ l >= w)
    <2>1. 8 + data.audio < WordModulus - 1 \/ 8 + data.audio = WordModulus - 1
      BY WrittenTypes, AiffAssumption
    <2>2. chunk_offset[4] \in Nat
      BY OffsetBounds
    <2>3. CASE 8 + data.audio < WordModulus - 1
      <3>1. Align32(8 + data.audio) = SoundSize
        BY <2>3, OffsetBounds
      <3>2. FileLength = chunk_offset[4] + 8 + SoundSize
        BY OffsetBounds
      <3> QED
        BY <3>1, <3>2
    <2>4. CASE 8 + data.audio = WordModulus - 1
      <3>1. ~(8 + data.audio < WordModulus - 1) /\ SoundSize = WordModulus
        BY <2>4, OffsetBounds, WrittenTypes, AiffAssumption
      <3>2. Align32(8 + data.audio) = 0 /\ FileLength = chunk_offset[4] + 8 + WordModulus
        BY <3>1, OffsetBounds
      <3> QED
        BY <1>1, <2>2, <3>2
    <2> QED
      BY <2>1, <2>3, <2>4
  <1> HIDE DEF x, w, l
  <1>3. x % w = IF l < w THEN l ELSE l - w
    <2>1. CASE l < w
      BY <1>1, <1>2, <2>1
    <2>2. CASE l >= w
      <3>1. l - w \in 0 .. w - 1
        BY <1>1, <2>2
      <3>2. (l - w) % w = l - w
        BY <1>1, <3>1
      <3>3. l % w = l - w
        <4>1. l = 1 * w + (l - w)
          BY <1>1
        <4> QED
          BY <1>1, <3>1, <4>1
      <3> QED
        BY <1>1, <1>2, <2>2, <3>2, <3>3
    <2> QED
      BY <1>1, <2>1, <2>2
  <1>4. ((x % w) - 8) % w = IF l - 8 < w THEN l - 8 ELSE l - 8 - w
    <2>1. CASE l < w
      <3>1. l - 8 \in 0 .. w - 1
        BY <1>1, <2>1
      <3> QED
        BY <1>1, <1>3, <2>1, <3>1
    <2>2. CASE l >= w /\ l - 8 < w
      <3>1. l - 8 \in 0 .. w - 1 /\ l - w - 8 = (-1) * w + (l - 8)
        BY <1>1, <2>2
      <3>2. (l - w - 8) % w = l - 8
        BY <1>1, <3>1
      <3> QED
        BY <1>1, <1>3, <2>2, <3>2
    <2>3. CASE l - 8 >= w
      <3>1. l - w - 8 \in 0 .. w - 1 /\ l - 8 - w = l - w - 8
        BY <1>1, <2>3
      <3>2. (l - w - 8) % w = l - w - 8
        BY <1>1, <3>1
      <3> QED
        BY <1>1, <1>3, <2>3, <3>1, <3>2
    <2> QED
      BY <1>1, <2>1, <2>2, <2>3
  <1> QED
    BY <1>1, <1>4 DEF l, w
---------------------------------------------------------------------------------
(* What is in the file *)

Present == {n \in 1 .. 4 : chunk_size[ChunkOrder[n]] > 0}

LEMMA PresentChunks ==
  ASSUME Writing
  PROVE  /\ 2 \in Present /\ 4 \in Present
         /\ 1 \in Present <=> data.version = "AIFC"
         /\ 3 \in Present <=> IsVADPCM
         /\ \A n \in Present : n \in 1 .. 4 /\ (n = 1 \/ n = 2 \/ n = 3 \/ n = 4)
         /\ \A m, n \in Present : chunk_offset[m] = chunk_offset[n] => m = n
  <1>1. /\ ChunkOrder[1] = "FVER" /\ ChunkOrder[2] = "COMM" /\ ChunkOrder[3] = "APPL"
        /\ ChunkOrder[4] = "SSND"
    BY DEF ChunkOrder
  <1>2. Vectors \in Nat /\ data.audio \in Nat
    BY WrittenVectors, WrittenTypes
  <1>3. /\ 2 \in Present /\ 4 \in Present
        /\ 1 \in Present <=> data.version = "AIFC"
        /\ 3 \in Present <=> IsVADPCM
    BY <1>1, <1>2, SizesWritten DEF Present
  <1>4. \A n \in Present : n \in 1 .. 4 /\ (n = 1 \/ n = 2 \/ n = 3 \/ n = 4)
    BY DEF Present
  <1>5. /\ 1 \in Present => chunk_offset[1] < chunk_offset[2]
        /\ chunk_offset[2] < chunk_offset[3]
        /\ 3 \in Present => chunk_offset[3] < chunk_offset[4]
        /\ chunk_offset[3] <= chunk_offset[4]
        /\ \A n \in 1 .. 4 : chunk_offset[n] \in Nat
    BY <1>2, <1>3, Layout, OffsetBounds DEF IsVADPCM
  <1>6. \A m, n \in Present : chunk_offset[m] = chunk_offset[n] => m = n
    <2> SUFFICES ASSUME NEW m \in Present, NEW n \in Present,
                        chunk_offset[m] = chunk_offset[n], m # n
                 PROVE  FALSE
      OBVIOUS
    <2>1. 1 \in 1 .. 4 /\ 2 \in 1 .. 4 /\ 3 \in 1 .. 4 /\ 4 \in 1 .. 4
      OBVIOUS
    <2>2. /\ chunk_offset[1] \in Nat /\ chunk_offset[2] \in Nat
          /\ chunk_offset[3] \in Nat /\ chunk_offset[4] \in Nat
      BY <1>5, <2>1
    <2>3. (m = 1 \/ m = 2 \/ m = 3 \/ m = 4) /\ (n = 1 \/ n = 2 \/ n = 3 \/ n = 4)
      BY <1>4
    <2> QED
      BY <1>5, <2>2, <2>3
  <1> QED
    BY <1>3, <1>4, <1>6

(* The chunks are those that the header and the contents describe. *)
HasChunks(f) ==
    /\ \A n \in Present : chunk_offset[n] \in DOMAIN f
                          /\ f[chunk_offset[n]] = Contents(ChunkOrder[n])
    /\ \A o \in DOMAIN f : IsChunk(f[o])

LEMMA ContentsIsChunk ==
  ASSUME Writing, NEW n \in Present
  PROVE  IsChunk(Contents(ChunkOrder[n]))
  <1>1. /\ ChunkOrder[1] = "FVER" /\ ChunkOrder[2] = "COMM" /\ ChunkOrder[3] = "APPL"
        /\ ChunkOrder[4] = "SSND" /\ (n = 1 \/ n = 2 \/ n = 3 \/ n = 4)
    BY PresentChunks DEF ChunkOrder
  <1>2. Vectors \in Nat /\ 112 + 16 * Vectors <= WordModulus /\ WordModulus \in Nat
    BY WrittenVectors, AiffAssumption
  <1>3. /\ data.audio \in Nat /\ data.audio <= WordModulus - 9
        /\ data.common \in Commons /\ data.codec \in {"PCM", "VADPCM"}
        /\ data.order \in Nat /\ data.predictor_count \in Nat
    BY WrittenTypes, AiffAssumption
  <1>4. /\ chunk_size["FVER"] \in Words /\ chunk_size["COMM"] \in Words
        /\ chunk_size["APPL"] \in Words /\ chunk_size["SSND"] \in Words
    BY <1>2, <1>3, SizesWritten DEF Words
  <1>5. CASE n = 1
    BY <1>1, <1>4, <1>5 DEF Contents, IsChunk
  <1>6. CASE n = 2
    BY <1>1, <1>3, <1>4, <1>6 DEF Contents, IsChunk
  <1>7. CASE n = 3
    <2> DEFINE c == Contents("APPL")
    <2>1. /\ c.id = "APPL" /\ c.size = chunk_size["APPL"] /\ c.stoc = TRUE
          /\ c.name_length = 11 /\ c.match = TRUE
          /\ c.order = Dimensions[1] /\ c.predictor_count = Dimensions[2]
      BY DEF Contents
    <2>2. Dimensions[1] = data.order /\ Dimensions[2] = data.predictor_count
      BY DEF Dimensions
    <2> HIDE DEF c
    <2>3. c.stoc \in BOOLEAN /\ c.match \in BOOLEAN
      BY <2>1, Zenon
    <2>4. IsChunk(c)
      BY <1>3, <1>4, <2>1, <2>2, <2>3 DEF IsChunk
    <2> QED
      BY <1>1, <1>7, <2>4 DEF c
  <1>8. CASE n = 4
    <2>1. 0 \in Words
      BY <1>2 DEF Words
    <2> QED
      BY <1>1, <1>4, <1>8, <2>1 DEF Contents, IsChunk
  <1> QED
    BY <1>1, <1>5, <1>6, <1>7, <1>8

LEMMA WriteChunks ==
  ASSUME Writing, Write
  PROVE  HasChunks(file')
  <1> DEFINE which(o) == CHOOSE n \in Present : chunk_offset[n] = o
             f == [o \in {chunk_offset[n] : n \in Present} |-> Contents(ChunkOrder[which(o)])]
  <1>1. file' = f
    BY DEF Write, Present
  <1>2. ASSUME NEW n \in Present
        PROVE  which(chunk_offset[n]) = n
    <2>1. \A m \in Present : chunk_offset[m] = chunk_offset[n] => m = n
      BY PresentChunks
    <2> QED
      BY <2>1
  <1> HIDE DEF which
  <1>3. ASSUME NEW n \in Present
        PROVE  chunk_offset[n] \in DOMAIN f /\ f[chunk_offset[n]] = Contents(ChunkOrder[n])
    BY <1>2
  <1>4. ASSUME NEW o \in DOMAIN f
        PROVE  IsChunk(f[o])
    <2>1. PICK n \in Present : o = chunk_offset[n]
      OBVIOUS
    <2> HIDE DEF f
    <2> QED
      BY <1>3, <2>1, ContentsIsChunk
  <1> HIDE DEF f
  <1> QED
    BY <1>1, <1>3, <1>4 DEF HasChunks
---------------------------------------------------------------------------------
(* The file that is parsed is one that aiff_write wrote, or an unknown one. *)

CommRead == "COMM" \in has /\ common = data.common /\ codec = data.codec

CodebookRead ==
    IsVADPCM =>
        /\ "codebook" \in has
        /\ codebook = [order |-> data.order, predictor_count |-> data.predictor_count]

SoundRead ==
    /\ "SSND" \in has
    /\ audio = [from |-> chunk_offset[4] + 16, size |-> data.audio]

(* The contents end where the file does, unless a word cannot state that. *)
KnownEnd ==
    /\ end = IF FileLength - 8 < WordModulus THEN FileLength ELSE FileLength - WordModulus
    /\ FileLength - 8 < WordModulus => size = FileLength

(* The parser is at a chunk, and has read those before it. *)
AtPlace ==
    \/ offset \in {chunk_offset[1], chunk_offset[2]} /\ has = {}
    \/ offset = chunk_offset[3] /\ has = {"COMM"} /\ CommRead
    \/ offset = chunk_offset[4] /\ has \subseteq {"COMM", "codebook"} /\ CommRead /\ CodebookRead
    \/ offset = FileLength /\ end = FileLength /\ CommRead /\ CodebookRead /\ SoundRead

Blank ==
    /\ size = 0 /\ offset = 0 /\ end = 0 /\ has = {}
    /\ common \in Commons /\ codec = "PCM" /\ audio = [from |-> 0, size |-> 0]
    /\ codebook \in [order : 0 .. MaxOrder, predictor_count : 0 .. MaxPredictorCount]
    /\ inBounds = TRUE

WrittenInv ==
    /\ Writing
    /\ HasChunks(file)
    /\ header = [form |-> TRUE, kind |-> data.version,
                 content_size |-> (chunk_offset[5] - 8) % WordModulus]
    /\ size <= FileLength
    /\ pc = "chunk" => KnownEnd /\ AtPlace
    /\ pc = "ok" => size = FileLength /\ CommRead /\ CodebookRead /\ SoundRead
    /\ pc = "error" => size < FileLength \/ FileLength - 8 >= WordModulus

FileInv ==
    /\ data \in Written \cup {NoFile}
    /\ pc \in {"write", "refused"} => data \in Written /\ Blank
    /\ pc \notin {"write", "refused"} => IInv
    /\ pc \notin {"write", "refused"} /\ data # NoFile => WrittenInv
---------------------------------------------------------------------------------
(* The steps of aiff_parse on a file that was written *)

(* What aiff_write was called with does not change, nor what follows from it. *)
LEMMA LayoutKept ==
  ASSUME UNCHANGED data
  PROVE  /\ UNCHANGED chunk_size /\ UNCHANGED chunk_offset /\ UNCHANGED FileLength
         /\ Writing' = Writing /\ UNCHANGED Present
  <1>1. UNCHANGED chunk_size
    BY DEF chunk_size
  <1>2. UNCHANGED chunk_offset
    BY <1>1, Zenon DEF chunk_offset
  <1>3. UNCHANGED FileLength
    BY <1>1, <1>2 DEF FileLength
  <1>4. UNCHANGED Present
    BY <1>1 DEF Present
  <1> QED
    BY <1>1, <1>2, <1>3, <1>4 DEF Writing, Refused
(* A word states the size of the contents. *)
Whole == FileLength - 8 < WordModulus

(* The parser is at chunk n of the file. *)
Located(n) ==
    /\ IInv /\ WrittenInv
    /\ pc = "chunk"
    /\ end - offset >= 8
    /\ n \in Present
    /\ offset = chunk_offset[n]

Place(n) == Contents(ChunkOrder[n])

ChunkEnd(n) == IF n = 4 THEN FileLength ELSE chunk_offset[n + 1]

(***************************************************************************)
(* The chunk is what was written there.  If a word states the size, it     *)
(* fits; if it fits, the next one begins behind it, and if it is the last, *)
(* a word states the size.                                                 *)
(***************************************************************************)
LEMMA AtChunkWritten ==
  ASSUME NEW n, Located(n)
  PROVE  /\ \A c \in ChunkAt(offset) : c = Place(n)
         /\ Whole => ChunkFits(Place(n))
         /\ ChunkFits(Place(n)) => At + Padded(Place(n)) = ChunkEnd(n) /\ (n = 4 => Whole)
  <1> DEFINE c == Place(n)
             id == ChunkOrder[n]
  <1>1. Writing /\ HasChunks(file) /\ KnownEnd /\ n \in Present
    BY DEF Located, WrittenInv
  <1>2. /\ n = 1 \/ n = 2 \/ n = 3 \/ n = 4
        /\ n = 1 => data.version = "AIFC"
        /\ n = 3 => IsVADPCM
    BY <1>1, PresentChunks
  <1>3. /\ ChunkOrder[1] = "FVER" /\ ChunkOrder[2] = "COMM" /\ ChunkOrder[3] = "APPL"
        /\ ChunkOrder[4] = "SSND"
    BY DEF ChunkOrder
  <1>4. \A d \in ChunkAt(offset) : d = c
    BY <1>1 DEF HasChunks, ChunkAt, Located, Place
  <1>5. c.size = chunk_size[id]
    BY <1>2, <1>3 DEF Place, Contents
  <1>6. /\ Vectors \in Nat /\ 112 + 16 * Vectors <= WordModulus /\ WordModulus \in Nat
        /\ WordModulus > 64 /\ data.audio \in Nat /\ data.audio <= WordModulus - 9
    BY <1>1, WrittenVectors, WrittenTypes, AiffAssumption
  <1>7. /\ chunk_offset[4] \in Nat /\ chunk_offset[4] + 16 <= WordModulus
        /\ SoundSize \in 8 .. WordModulus /\ SoundSize >= 8 + data.audio
        /\ FileLength = chunk_offset[4] + 8 + SoundSize
        /\ Align32(8 + data.audio) = IF 8 + data.audio < WordModulus - 1 THEN SoundSize ELSE 0
        /\ 8 + data.audio = WordModulus - 1 => SoundSize = WordModulus
    BY <1>1, OffsetBounds
  <1>8. end = IF Whole THEN FileLength ELSE FileLength - WordModulus
    BY <1>1 DEF KnownEnd, Whole
  <1>9. offset = chunk_offset[n] /\ At = chunk_offset[n] + 8
    BY DEF At, Located
  <1>10. CASE n # 4
    <2>1. Padded(c) >= c.size /\ At + Padded(c) = chunk_offset[n + 1] /\ Padded(c) \in Nat
      <3>1. /\ Align32(4) = 4 /\ Align32(18) = 18 /\ Align32(34) = 34 /\ Align32(37) = 38
            /\ Align32(22 + 16 * Vectors) = 22 + 16 * Vectors
        BY <1>6, AlignEven
      <3>2. Padded(c) = Align32(chunk_size[id])
        BY <1>5 DEF Padded
      <3>3. CASE n = 1
        BY <1>1, <1>2, <1>3, <1>5, <1>9, <3>1, <3>2, <3>3, SizesWritten, Layout
      <3>4. CASE n = 2
        BY <1>1, <1>2, <1>3, <1>5, <1>9, <3>1, <3>2, <3>4, SizesWritten, Layout, WrittenTypes
      <3>5. CASE n = 3
        <4>1. c.size = 22 + 16 * Vectors /\ chunk_offset[3] = 66
              /\ chunk_offset[4] = 96 + 16 * Vectors
          BY <1>1, <1>2, <1>3, <1>5, <3>5, SizesWritten, Layout DEF IsVADPCM
        <4> QED
          BY <1>1, <1>2, <1>3, <1>5, <1>6, <1>9, <3>1, <3>2, <3>5, <4>1, SizesWritten
      <3> QED
        BY <1>2, <1>10, <3>3, <3>4, <3>5
    <2>2. chunk_offset[n + 1] <= chunk_offset[4] /\ chunk_offset[n + 1] \in Nat
          /\ chunk_offset[n] \in Nat
      BY <1>1, <1>2, <1>10, OffsetBounds
    <2>3. Whole => Padded(c) <= end - At
      BY <1>7, <1>8, <1>9, <2>1, <2>2
    <2> QED
      BY <1>4, <1>10, <2>1, <2>3 DEF ChunkFits, ChunkEnd
  <1>11. CASE n = 4
    <2>1. c.size = 8 + data.audio /\ Padded(c) = Align32(8 + data.audio)
      BY <1>1, <1>3, <1>5, <1>11, SizesWritten DEF Padded
    <2>2. CASE 8 + data.audio < WordModulus - 1
      <3>1. Padded(c) = SoundSize /\ At + Padded(c) = FileLength
        BY <1>7, <1>9, <1>11, <2>1, <2>2
      <3>2. Padded(c) <= end - At <=> Whole
        BY <1>6, <1>7, <1>8, <1>9, <1>11, <3>1
      <3> QED
        BY <1>4, <1>7, <1>11, <2>1, <3>1, <3>2 DEF ChunkFits, ChunkEnd
    <2>3. CASE ~(8 + data.audio < WordModulus - 1)
      <3>1. 8 + data.audio = WordModulus - 1
        BY <1>6, <2>3
      <3>2. ~Whole
        BY <1>7, <3>1, <1>6 DEF Whole
      <3>3. ~ChunkFits(c)
        BY <1>6, <1>7, <2>1, <2>3 DEF ChunkFits
      <3> QED
        BY <1>4, <3>2, <3>3
    <2> QED
      BY <2>2, <2>3
  <1> QED
    BY <1>10, <1>11
LEMMA OrderOfChunks ==
  /\ ChunkOrder[1] = "FVER" /\ ChunkOrder[2] = "COMM" /\ ChunkOrder[3] = "APPL"
  /\ ChunkOrder[4] = "SSND"
  BY DEF ChunkOrder

(***************************************************************************)
(* What a step at chunk n comes to: an error, if no word states the size   *)
(* of the file; the end for want of memory; or the chunk is read.          *)
(***************************************************************************)
StepAt(n, read) ==
    \/ pc' = "error" /\ ~Whole /\ UNCHANGED <<file, header, size>>
    \/ pc' = "exited" /\ UNCHANGED <<file, header, size>>
    \/ /\ pc' = "chunk" /\ UNCHANGED <<file, header, size, end>>
       /\ offset' = ChunkEnd(n) /\ (n = 4 => Whole)
       /\ read

LEMMA SizeErrorAt ==
  ASSUME NEW n, Located(n), ChunkSizeInvalid(Place(n)), NEW read
  PROVE  StepAt(n, read)
  BY AtChunkWritten DEF ChunkSizeInvalid, Fail, StepAt

LEMMA AdvanceAt ==
  ASSUME NEW n, Located(n), ChunkFits(Place(n)), Advance(Place(n)),
         UNCHANGED <<file, header, size, end>>, NEW read \in BOOLEAN, read
  PROVE  StepAt(n, read)
  BY AtChunkWritten DEF Advance, StepAt

LEMMA VersionAt ==
  ASSUME Located(1), ParseChunk(Place(1))
  PROVE  StepAt(1, UNCHANGED <<has, aiff>>)
  <1> DEFINE c == Place(1)
  <1>1. c.id = "FVER" /\ c.size = 4
    BY OrderOfChunks, SizesWritten, PresentChunks DEF Place, Contents, Located, WrittenInv
  <1> HIDE DEF c
  <1>2. CASE ChunkSizeInvalid(c)
    BY <1>2, SizeErrorAt DEF c
  <1>3. CASE ParseVersion(c)
    BY <1>3, AdvanceAt DEF c, ParseVersion, Enter
  <1>4. ParseChunk(c) => ChunkSizeInvalid(c) \/ ParseVersion(c)
    BY <1>1 DEF ParseChunk, Enter, CommError, CodecError, ParseComm, SoundError, ParseSound,
                VersionError, SkipChunk, ApplError, SkipAppl, AtCodebook, CodebookTwice,
                CodebookError, CodebookValid, ParseCodebook, OutOfMemory
  <1> QED
    BY <1>2, <1>3, <1>4 DEF c

LEMMA CommAt ==
  ASSUME Located(2), has = {}, ParseChunk(Place(2))
  PROVE  StepAt(2, has' = {"COMM"} /\ common' = data.common /\ codec' = data.codec)
  <1> DEFINE c == Place(2)
  <1>1. /\ c.id = "COMM" /\ c.size = chunk_size["COMM"]
        /\ c.common = data.common /\ c.codec = data.codec
    BY OrderOfChunks DEF Place, Contents
  <1>2. /\ chunk_size["COMM"] = IF data.version = "AIFC"
                                 THEN IF data.codec = "VADPCM" THEN 34 ELSE 37 ELSE 18
        /\ header.kind = data.version
        /\ data.version \in {"AIFF", "AIFC"} /\ data.codec \in {"PCM", "VADPCM"}
        /\ data.version = "AIFF" => data.codec = "PCM"
    BY SizesWritten, WrittenTypes DEF Located, WrittenInv
  <1>3. ~CommTooSmall(c)
    BY <1>1, <1>2 DEF CommTooSmall
  <1> HIDE DEF c
  <1>4. CASE ChunkSizeInvalid(c)
    BY <1>4, SizeErrorAt DEF c
  <1>5. CASE ParseComm(c)
    <2>1. has' = {"COMM"} /\ common' = data.common /\ codec' = data.codec
      BY <1>1, <1>2, <1>5 DEF ParseComm
    <2>2. ChunkFits(c) /\ Advance(c) /\ UNCHANGED <<file, header, size, end>>
      BY <1>5 DEF ParseComm, Enter
    <2> QED
      BY <2>1, <2>2, AdvanceAt DEF c
  <1>6. ParseChunk(c) => ChunkSizeInvalid(c) \/ ParseComm(c)
    BY <1>1, <1>2, <1>3
       DEF ParseChunk, Enter, CommError, CodecError, SoundError, ParseSound,
           VersionError, ParseVersion, SkipChunk, ApplError, SkipAppl, AtCodebook,
           CodebookTwice, CodebookError, CodebookValid, ParseCodebook, OutOfMemory
  <1> QED
    BY <1>4, <1>5, <1>6 DEF c

LEMMA SoundAt ==
  ASSUME Located(4), "SSND" \notin has, ParseChunk(Place(4))
  PROVE  StepAt(4, /\ has' = has \cup {"SSND"}
                   /\ audio' = [from |-> chunk_offset[4] + 16, size |-> data.audio]
                   /\ UNCHANGED <<common, codec, codebook>>)
  <1> DEFINE c == Place(4)
  <1>1. c.id = "SSND" /\ c.size = chunk_size["SSND"] /\ c.offset = 0
    BY OrderOfChunks DEF Place, Contents
  <1>2. c.size = 8 + data.audio /\ data.audio \in Nat
    BY <1>1, SizesWritten, WrittenTypes DEF Located, WrittenInv
  <1>3. At = chunk_offset[4] + 8 /\ chunk_offset[4] \in Nat
    BY OffsetBounds DEF Located, WrittenInv, At
  <1> HIDE DEF c
  <1>4. CASE ChunkSizeInvalid(c)
    BY <1>4, SizeErrorAt DEF c
  <1>5. CASE ParseSound(c)
    <2>1. /\ has' = has \cup {"SSND"}
          /\ audio' = [from |-> At + 8 + c.offset, size |-> c.size - 8 - c.offset]
          /\ UNCHANGED <<common, codec, codebook>>
      BY <1>5 DEF ParseSound
    <2>2. At + 8 + c.offset = chunk_offset[4] + 16 /\ c.size - 8 - c.offset = data.audio
      BY <1>1, <1>2, <1>3
    <2>3. ChunkFits(c) /\ Advance(c) /\ UNCHANGED <<file, header, size, end>>
      BY <1>5 DEF ParseSound, Enter
    <2> QED
      BY <2>1, <2>2, <2>3, AdvanceAt DEF c
  <1>6. ~SoundError(c)
    BY <1>1, <1>2 DEF SoundError
  <1>7. ParseChunk(c) => ChunkSizeInvalid(c) \/ ParseSound(c)
    BY <1>1, <1>6
       DEF ParseChunk, Enter, CommError, CodecError, ParseComm,
           VersionError, ParseVersion, SkipChunk, ApplError, SkipAppl, AtCodebook,
           CodebookTwice, CodebookError, CodebookValid, ParseCodebook, OutOfMemory
  <1> QED
    BY <1>4, <1>5, <1>7 DEF c

LEMMA CodebookAtPlace ==
  ASSUME Located(3), "codebook" \notin has, ParseChunk(Place(3))
  PROVE  StepAt(3, /\ has' = has \cup {"codebook"}
                   /\ codebook' = [order |-> data.order,
                                   predictor_count |-> data.predictor_count]
                   /\ UNCHANGED <<common, codec, audio>>)
  <1> DEFINE c == Place(3)
  <1>1. /\ c.id = "APPL" /\ c.size = chunk_size["APPL"] /\ c.stoc = TRUE
        /\ c.name_length = 11 /\ c.match = TRUE /\ c.version = 1
        /\ c.order = data.order /\ c.predictor_count = data.predictor_count
    BY OrderOfChunks DEF Place, Contents, Dimensions
  <1>2. Writing /\ IsVADPCM
    BY PresentChunks DEF Located, WrittenInv
  <1>3. /\ c.size = 22 + 16 * Vectors /\ Vectors \in Nat
        /\ data.order \in 0 .. MaxOrder /\ data.predictor_count \in 0 .. MaxPredictorCount
    BY <1>1, <1>2, SizesWritten, WrittenVectors, WrittenTypes
  <1>4. ~NameCut(c) /\ c.size >= 5
    BY <1>1, <1>3, AlignName DEF NameCut
  <1>5. CodebookSize(c) = 6 + 16 * Vectors /\ VectorCount(c) = Vectors
    BY <1>1, <1>3 DEF CodebookSize, VectorCount, Vectors
  <1>6. CodebookSize(c) >= 6 /\ VectorsFit(c)
    BY <1>3, <1>5 DEF VectorsFit
  <1> HIDE DEF c
  <1>7. CASE ChunkSizeInvalid(c)
    BY <1>7, SizeErrorAt DEF c
  <1>8. CASE ParseCodebook(c)
    <2>1. /\ has' = has \cup {"codebook"}
          /\ codebook' = [order |-> data.order, predictor_count |-> data.predictor_count]
          /\ UNCHANGED <<common, codec, audio>>
      BY <1>1, <1>8 DEF ParseCodebook
    <2>2. ChunkFits(c) /\ Advance(c) /\ UNCHANGED <<file, header, size, end>>
      BY <1>8 DEF ParseCodebook, CodebookValid, AtCodebook, Enter
    <2> QED
      BY <2>1, <2>2, AdvanceAt DEF c
  <1>9. CASE OutOfMemory(c)
    BY <1>9 DEF OutOfMemory, StepAt
  <1>10. ~ApplError(c)
    BY <1>1, <1>3, <1>4 DEF ApplError
  <1>11. ~CodebookError(c)
    BY <1>1, <1>3, <1>5, <1>6, AiffAssumption DEF CodebookError
  <1>12. ParseChunk(c) => ChunkSizeInvalid(c) \/ ParseCodebook(c) \/ OutOfMemory(c)
    BY <1>1, <1>10, <1>11
       DEF ParseChunk, Enter, CommError, CodecError, ParseComm, SoundError, ParseSound,
           VersionError, ParseVersion, SkipChunk, SkipAppl, CodebookTwice
  <1> QED
    BY <1>7, <1>8, <1>9, <1>12 DEF c
LEMMA ChunksKept ==
  ASSUME UNCHANGED data, HasChunks(file')
  PROVE  HasChunks(file)'
  <1>1. UNCHANGED chunk_size /\ UNCHANGED chunk_offset /\ UNCHANGED Present
    BY LayoutKept
  <1>2. ASSUME NEW id PROVE Contents(id)' = Contents(id)
    BY <1>1 DEF Contents, Dimensions
  <1> QED
    BY <1>1, <1>2 DEF HasChunks

(* The file stays; what remains to show is what the parser has read. *)
LEMMA WrittenKept ==
  ASSUME WrittenInv, UNCHANGED <<data, file, header, size>>,
         pc' = "chunk" => KnownEnd' /\ AtPlace',
         pc' = "ok" => size = FileLength /\ CommRead' /\ CodebookRead' /\ SoundRead',
         pc' = "error" => size < FileLength \/ ~Whole
  PROVE  WrittenInv'
  <1>1. UNCHANGED chunk_offset /\ UNCHANGED FileLength /\ Writing' = Writing
    BY LayoutKept
  <1>2. HasChunks(file)'
    <2>1. HasChunks(file')
      BY DEF WrittenInv, HasChunks
    <2> QED
      BY <2>1, ChunksKept
  <1>3. FileLength \in Nat
    BY OffsetBounds DEF WrittenInv
  <1> QED
    BY <1>1, <1>2, <1>3, AiffAssumption DEF WrittenInv, Whole

LEMMA ChunkWritten ==
  ASSUME IInv, WrittenInv, NextChunk, UNCHANGED data
  PROVE  WrittenInv'
  <1>1. pc = "chunk" /\ end - offset >= 8 /\ KnownEnd /\ AtPlace /\ Writing
    BY DEF NextChunk, WrittenInv
  <1>2. PICK c \in ChunkAt(offset) : ParseChunk(c)
    BY DEF NextChunk
  <1>3. UNCHANGED chunk_offset /\ UNCHANGED FileLength
    BY LayoutKept
  <1>4. FileLength \in Nat
    BY <1>1, OffsetBounds
  <1>5. ASSUME NEW n \in Present, offset = chunk_offset[n]
        PROVE  Located(n) /\ ParseChunk(Place(n))
    <2>1. Located(n)
      BY <1>1, <1>5 DEF Located
    <2> QED
      BY <1>2, <2>1, AtChunkWritten
  <1>6. KnownEnd' \/ ~(UNCHANGED <<size, end>>)
    BY <1>1, <1>3 DEF KnownEnd
  <1>7. ASSUME NEW n, NEW read, StepAt(n, read), pc' = "chunk" => AtPlace'
        PROVE  WrittenInv'
    BY <1>6, <1>7, WrittenKept DEF StepAt
  <1>8. /\ 2 \in Present /\ 4 \in Present
        /\ 1 \in Present <=> data.version = "AIFC"
        /\ 3 \in Present <=> IsVADPCM
        /\ data.version # "AIFC" => chunk_offset[1] = chunk_offset[2]
        /\ ~IsVADPCM => chunk_offset[4] = chunk_offset[3]
    BY <1>1, PresentChunks, Layout
  <1>9. CASE 1 \in Present /\ offset = chunk_offset[1] /\ has = {}
    <2>1. StepAt(1, UNCHANGED <<has, aiff>>)
      BY <1>5, <1>9, VersionAt
    <2>2. pc' = "chunk" => AtPlace'
      BY <1>3, <1>9, <2>1 DEF StepAt, ChunkEnd, AtPlace
    <2> QED
      BY <1>7, <2>1, <2>2
  <1>10. CASE offset = chunk_offset[2] /\ has = {}
    <2> DEFINE read == has' = {"COMM"} /\ common' = data.common /\ codec' = data.codec
    <2>1. StepAt(2, read)
      BY <1>5, <1>8, <1>10, CommAt
    <2>2. pc' = "chunk" => AtPlace'
      BY <1>3, <2>1 DEF StepAt, ChunkEnd, AtPlace, CommRead
    <2> QED
      BY <1>7, <2>1, <2>2
  <1>11. CASE 3 \in Present /\ offset = chunk_offset[3] /\ has = {"COMM"} /\ CommRead
    <2> DEFINE read == /\ has' = has \cup {"codebook"}
                       /\ codebook' = [order |-> data.order,
                                       predictor_count |-> data.predictor_count]
                       /\ UNCHANGED <<common, codec, audio>>
    <2>1. StepAt(3, read)
      BY <1>5, <1>11, CodebookAtPlace
    <2>2. pc' = "chunk" => AtPlace'
      BY <1>3, <1>11, <2>1 DEF StepAt, ChunkEnd, AtPlace, CommRead, CodebookRead
    <2> QED
      BY <1>7, <2>1, <2>2
  <1>12. CASE /\ offset = chunk_offset[4] /\ has \subseteq {"COMM", "codebook"}
              /\ CommRead /\ CodebookRead
    <2> DEFINE read == /\ has' = has \cup {"SSND"}
                       /\ audio' = [from |-> chunk_offset[4] + 16, size |-> data.audio]
                       /\ UNCHANGED <<common, codec, codebook>>
    <2>1. StepAt(4, read)
      BY <1>5, <1>8, <1>12, SoundAt
    <2>2. pc' = "chunk" => AtPlace'
      BY <1>1, <1>3, <1>12, <2>1
         DEF StepAt, ChunkEnd, AtPlace, CommRead, CodebookRead, SoundRead, IsVADPCM, KnownEnd,
             Whole
    <2> QED
      BY <1>7, <2>1, <2>2
  <1>13. ~(offset = FileLength /\ end = FileLength)
    BY <1>1, <1>4
  <1> QED
    BY <1>1, <1>8, <1>9, <1>10, <1>11, <1>12, <1>13 DEF AtPlace, CodebookRead
LEMMA HeaderWritten ==
  ASSUME IInv, WrittenInv, HeaderError \/ ReadHeader, UNCHANGED data
  PROVE  WrittenInv'
  <1> DEFINE content == header.content_size
  <1>1. /\ Writing /\ FileLength \in Nat /\ FileLength >= 28 /\ size \in Nat
        /\ size <= FileLength /\ WordModulus \in Nat /\ WordModulus > 64
    <2>1. Writing /\ size \in Nat /\ size <= FileLength /\ WordModulus \in Nat /\ WordModulus > 64
      BY AiffAssumption DEF WrittenInv, IInv, TypeOK
    <2>2. FileLength \in Nat /\ chunk_offset[1] + 16 <= FileLength /\ chunk_offset[1] = 12
      BY <2>1, OffsetBounds, Layout
    <2> QED
      BY <2>1, <2>2
  <1>2. content = IF Whole THEN FileLength - 8 ELSE FileLength - 8 - WordModulus
    BY <1>1, ContentSize DEF WrittenInv, Whole
  <1>3. header.form = TRUE /\ header.kind = data.version
    BY DEF WrittenInv
  <1>4. header.kind # "other"
    BY <1>1, <1>3, WrittenTypes
  <1> HIDE DEF content
  <1>5. CASE HeaderError
    <2>1. pc' = "error" /\ UNCHANGED <<file, header, size>>
      BY <1>5 DEF HeaderError, Fail
    <2>2. size < 12 \/ content > size - 8
      BY <1>3, <1>4, <1>5 DEF HeaderError, HeaderInvalid, content
    <2>3. size < FileLength \/ ~Whole
      BY <1>1, <1>2, <2>2
    <2> QED
      BY <2>1, <2>3, WrittenKept
  <1>6. CASE ReadHeader
    <2>1. /\ pc' = "chunk" /\ offset' = 12 /\ end' = content + 8
          /\ UNCHANGED <<file, header, size, has>> /\ pc = "header"
      BY <1>6 DEF ReadHeader, content
    <2>2. ~(content > size - 8) /\ content \in Int
      BY <1>1, <1>2, <1>6 DEF ReadHeader, HeaderInvalid, content
    <2>3. UNCHANGED chunk_offset /\ UNCHANGED FileLength
      BY LayoutKept
    <2>4. KnownEnd'
      <3>1. end' = IF Whole THEN FileLength ELSE FileLength - WordModulus
        BY <1>1, <1>2, <2>1
      <3>2. Whole => size = FileLength
        BY <1>1, <1>2, <2>2
      <3> QED
        BY <2>1, <2>3, <3>1, <3>2 DEF KnownEnd, Whole
    <2>5. AtPlace'
      <3>1. chunk_offset[1] = 12 /\ has = {}
        BY <1>1, <2>1, Layout DEF IInv
      <3> QED
        BY <2>1, <2>3, <3>1 DEF AtPlace
    <2> QED
      BY <2>1, <2>4, <2>5, WrittenKept
  <1> QED
    BY <1>5, <1>6

LEMMA EndWritten ==
  ASSUME IInv, WrittenInv, ChunkHeaderCut \/ Finish, UNCHANGED data
  PROVE  WrittenInv'
  <1>1. /\ pc = "chunk" /\ pc' \in {"error", "ok"}
        /\ UNCHANGED <<file, header, size, end, has, common, codec, audio, codebook>>
    BY DEF ChunkHeaderCut, Finish, Fail, aiff
  <1>2. KnownEnd /\ AtPlace /\ Writing
    BY <1>1 DEF WrittenInv
  <1>3. /\ \A n \in 1 .. 4 : chunk_offset[n] \in Nat /\ chunk_offset[n] + 16 <= FileLength
        /\ FileLength \in Nat /\ WordModulus \in Nat
    BY <1>2, OffsetBounds, AiffAssumption
  <1>4. UNCHANGED chunk_offset
    BY LayoutKept
  <1>5. CASE Whole
    <2>1. end = FileLength /\ size = FileLength
      BY <1>2, <1>5 DEF KnownEnd, Whole
    <2>2. end - offset < 8 => offset = FileLength
      <3>1. 1 \in 1 .. 4 /\ 2 \in 1 .. 4 /\ 3 \in 1 .. 4 /\ 4 \in 1 .. 4
        OBVIOUS
      <3>2. /\ chunk_offset[1] \in Nat /\ chunk_offset[1] + 16 <= FileLength
            /\ chunk_offset[2] \in Nat /\ chunk_offset[2] + 16 <= FileLength
            /\ chunk_offset[3] \in Nat /\ chunk_offset[3] + 16 <= FileLength
            /\ chunk_offset[4] \in Nat /\ chunk_offset[4] + 16 <= FileLength
        BY <1>3, <3>1
      <3> QED
        BY <1>2, <1>3, <2>1, <3>2 DEF AtPlace
    <2>3. Finish /\ offset = FileLength
      <3>1. ChunkHeaderCut => offset < end /\ end - offset < 8
        BY DEF ChunkHeaderCut
      <3>2. Finish => offset >= end
        BY DEF Finish
      <3>3. offset \in Nat
        BY DEF IInv, TypeOK
      <3> QED
        BY <1>3, <2>1, <2>2, <3>1, <3>2, <3>3
    <2>4. CommRead /\ CodebookRead /\ SoundRead
      <3>1. \A n \in 1 .. 4 : chunk_offset[n] # FileLength
        BY <1>3
      <3>2. /\ chunk_offset[1] # FileLength /\ chunk_offset[2] # FileLength
            /\ chunk_offset[3] # FileLength /\ chunk_offset[4] # FileLength
        BY <3>1
      <3> QED
        BY <1>2, <2>3, <3>2 DEF AtPlace
    <2>5. codec = "VADPCM" => IsVADPCM
      BY <1>2, <2>4, WrittenTypes DEF CommRead, IsVADPCM
    <2>6. ~Missing
      BY <2>4, <2>5 DEF Missing, CommRead, CodebookRead, SoundRead
    <2>7. pc' = "ok"
      BY <2>3, <2>6 DEF Finish
    <2>8. CommRead' /\ CodebookRead' /\ SoundRead'
      BY <1>1, <1>4, <2>4 DEF CommRead, CodebookRead, SoundRead, IsVADPCM
    <2> QED
      BY <1>1, <2>1, <2>7, <2>8, WrittenKept
  <1>6. CASE ~Whole
    <2>1. end # FileLength
      BY <1>2, <1>3, <1>6, AiffAssumption DEF KnownEnd, Whole
    <2>2. "SSND" \notin has
      BY <1>2, <2>1 DEF AtPlace
    <2>3. pc' = "error"
      BY <2>2 DEF ChunkHeaderCut, Finish, Fail, Missing
    <2> QED
      BY <1>1, <1>6, <2>3, WrittenKept
  <1> QED
    BY <1>5, <1>6

---------------------------------------------------------------------------------
(* Every step of a file *)

LEMMA FileInitInv == FileInit => FileInv
  <1> SUFFICES ASSUME FileInit PROVE FileInv
    OBVIOUS
  <1>1. CASE WriteInit
    <2>1. codebook \in [order : 0 .. MaxOrder, predictor_count : 0 .. MaxPredictorCount]
      BY <1>1, AiffAssumption DEF WriteInit, Uninitialised
    <2>2. Blank
      BY <1>1, <2>1 DEF WriteInit, Uninitialised, Blank
    <2> QED
      BY <1>1, <2>2 DEF WriteInit, FileInv
  <1>2. CASE Init /\ data = NoFile
    BY <1>2, InitInv DEF Init, FileInv
  <1> QED
    BY <1>1, <1>2 DEF FileInit

(* aiff_write leaves a file, of any part of its length, to a parser that knows nothing. *)
LEMMA WriteInv ==
  ASSUME FileInv, Write
  PROVE  FileInv'
  <1>1. /\ pc = "write" /\ pc' = "header" /\ size' \in 0 .. FileLength
        /\ header' = [form |-> TRUE, kind |-> data.version,
                      content_size |-> (chunk_offset[5] - 8) % WordModulus]
        /\ UNCHANGED <<offset, end, has, common, codec, audio, codebook, inBounds, data>>
    BY DEF Write, aiff
  <1>2. Writing /\ Blank
    BY <1>1 DEF Write, FileInv, Writing
  <1>3. HasChunks(file') /\ FileLength \in Nat /\ UNCHANGED FileLength
        /\ UNCHANGED chunk_offset /\ Writing' /\ data # NoFile
    BY <1>1, <1>2, WriteChunks, OffsetBounds, LayoutKept, WrittenTypes
  <1>4. HasChunks(file)'
    BY <1>1, <1>3, ChunksKept
  <1>5. size' \in Nat /\ size' <= FileLength
    BY <1>1, <1>3
  <1>6. header'.content_size \in Words
    <2>1. (chunk_offset[5] - 8) % WordModulus \in Words
      <3>1. FileLength >= 28 /\ FileLength < 2 * WordModulus /\ WordModulus \in Nat
            /\ WordModulus > 64
        BY <1>2, OffsetBounds, Layout, AiffAssumption
      <3> QED
        BY <1>2, <1>3, <3>1, ContentSize DEF Words
    <2> QED
      BY <1>1, <2>1
  <1>7. IInv'
    <2>1. TypeOK'
      BY <1>1, <1>2, <1>5, <1>6, AiffAssumption DEF TypeOK, Blank
    <2>2. \A o \in DOMAIN file' : IsChunk(file'[o])
      BY <1>3 DEF HasChunks
    <2> QED
      BY <1>1, <1>2, <2>1, <2>2 DEF IInv, Blank, AudioInFile, CompleteOnSuccess
  <1>8. WrittenInv'
    BY <1>1, <1>3, <1>4, <1>5 DEF WrittenInv
  <1> QED
    BY <1>1, <1>7, <1>8 DEF FileInv

LEMMA FileStepInv ==
  ASSUME FileInv, [FileNext]_fileVars
  PROVE  FileInv'
  <1>1. CASE WriteRefused
    BY <1>1 DEF WriteRefused, FileInv, Blank, aiff
  <1>2. CASE Write
    BY <1>2, WriteInv
  <1>3. CASE ParseStep /\ UNCHANGED data
    <2>1. pc \notin {"write", "refused"}
      BY <1>3 DEF ParseStep, HeaderError, ReadHeader, ChunkHeaderCut, NextChunk, Finish
    <2>2. IInv /\ (data # NoFile => WrittenInv)
      BY <2>1 DEF FileInv
    <2>3. IInv'
      BY <1>3, <2>2, NextInv DEF Next
    <2>4. data # NoFile => WrittenInv'
      BY <1>3, <2>2, HeaderWritten, EndWritten, ChunkWritten DEF ParseStep
    <2>5. pc' \notin {"write", "refused"}
      BY <2>3 DEF IInv, TypeOK
    <2> QED
      BY <1>3, <2>3, <2>4, <2>5 DEF FileInv
  <1>4. CASE UNCHANGED fileVars
    <2>1. UNCHANGED <<vars, data>>
      BY <1>4 DEF fileVars
    <2>2. UNCHANGED <<pc, file, header, size, offset, end, has, common, codec, audio, codebook,
                      inBounds, data>>
      BY <2>1 DEF vars, aiff
    <2>3. IInv => IInv'
      BY <2>1, NextInv
    <2>4. WrittenInv => WrittenInv'
      <3>1. UNCHANGED chunk_offset /\ UNCHANGED FileLength
        BY <2>2, LayoutKept
      <3> SUFFICES ASSUME WrittenInv PROVE WrittenInv'
        OBVIOUS
      <3>2. pc' = "chunk" => KnownEnd' /\ AtPlace'
        BY <2>2, <3>1 DEF WrittenInv, KnownEnd, AtPlace, CommRead, CodebookRead, SoundRead,
                          IsVADPCM
      <3>3. pc' = "ok" => size = FileLength /\ CommRead' /\ CodebookRead' /\ SoundRead'
        BY <2>2, <3>1 DEF WrittenInv, CommRead, CodebookRead, SoundRead, IsVADPCM
      <3>4. FileLength \in Nat
        BY OffsetBounds DEF WrittenInv
      <3>5. pc' = "error" => size < FileLength \/ ~Whole
        BY <2>2, <3>4, AiffAssumption DEF WrittenInv, Whole
      <3> QED
        BY <2>2, <3>2, <3>3, <3>5, WrittenKept
    <2>5. Blank => Blank'
      BY <2>2 DEF Blank
    <2> QED
      BY <2>2, <2>3, <2>4, <2>5 DEF FileInv
  <1> QED
    BY <1>1, <1>2, <1>3, <1>4 DEF FileNext, FileStep
(***************************************************************************)
(* The invariant of aiff_parse holds of every file, and if aiff_write left *)
(* the file, the parser is where the writer put a chunk, and has read what *)
(* the writer put in those before it.                                      *)
(***************************************************************************)
THEOREM FileInvariant == FileSpec => []FileInv
  <1>1. FileInit => FileInv
    BY FileInitInv
  <1>2. FileInv /\ [FileNext]_fileVars => FileInv'
    BY FileStepInv
  <1> QED
    BY <1>1, <1>2, PTL DEF FileSpec

(***************************************************************************)
(* aiff_parse gives back each field that aiff_write wrote, the dimensions  *)
(* of the codebook with them, and finds the audio where it was put.        *)
(***************************************************************************)
THEOREM WrittenIsRead == FileSpec => []RoundTrip
  <1>1. FileInv => RoundTrip
    <2> SUFFICES ASSUME FileInv, pc = "ok", data # NoFile PROVE RoundTrip
      BY DEF RoundTrip
    <2>1. WrittenInv /\ CommRead /\ CodebookRead /\ SoundRead
      BY DEF FileInv, WrittenInv
    <2>2. codec = "VADPCM" => IsVADPCM
      BY <2>1, WrittenTypes DEF WrittenInv, CommRead, IsVADPCM
    <2> QED
      BY <2>1, <2>2 DEF RoundTrip, WrittenInv, CommRead, CodebookRead, SoundRead
  <1> QED
    BY <1>1, FileInvariant, PTL

(***************************************************************************)
(* What aiff_write left is accepted only if it is whole, and if it is not  *)
(* accepted, it is not whole, or its size is more than a word states.      *)
(***************************************************************************)
THEOREM AcceptedIsWhole == FileSpec => []AcceptedIfWhole
  <1>1. FileInv => AcceptedIfWhole
    <2> SUFFICES ASSUME FileInv, data # NoFile PROVE AcceptedIfWhole
      BY DEF AcceptedIfWhole
    <2>1. CASE pc \in {"write", "refused"}
      BY <2>1 DEF AcceptedIfWhole
    <2>2. CASE pc \notin {"write", "refused"}
      BY <2>2 DEF FileInv, WrittenInv, AcceptedIfWhole
    <2> QED
      BY <2>1, <2>2
  <1> QED
    BY <1>1, FileInvariant, PTL

(* On any file, written or unknown, the parser stays in bounds, and its audio too. *)
THEOREM FileReads == FileSpec => [](ReadsInBounds /\ AudioInFile /\ CompleteOnSuccess)
  <1>1. FileInv => ReadsInBounds /\ AudioInFile /\ CompleteOnSuccess
    <2> SUFFICES ASSUME FileInv PROVE ReadsInBounds /\ AudioInFile /\ CompleteOnSuccess
      OBVIOUS
    <2>1. CASE pc \notin {"write", "refused"}
      BY <2>1 DEF FileInv, IInv, ReadsInBounds
    <2>2. CASE pc \in {"write", "refused"}
      BY <2>2 DEF FileInv, Blank, ReadsInBounds, AudioInFile, CompleteOnSuccess
    <2> QED
      BY <2>1, <2>2
  <1> QED
    BY <1>1, FileInvariant, PTL
(* Whatever file the loop is in, it moves on by a chunk header, and not past the end. *)
THEOREM FileAdvances == FileSpec => ChunksAdvance
  <1>1. ASSUME FileInv, [FileNext]_fileVars
        PROVE  [pc = "chunk" /\ pc' = "chunk" => offset' \in offset + 8 .. end]_vars
    <2> SUFFICES ASSUME pc = "chunk", pc' = "chunk", ~UNCHANGED vars
                 PROVE  offset' \in offset + 8 .. end
      OBVIOUS
    <2>1. IInv
      BY <1>1 DEF FileInv
    <2>2. ~UNCHANGED fileVars
      BY DEF fileVars
    <2>3. NextChunk
      BY <1>1, <2>2 DEF FileNext, FileStep, WriteRefused, Write, ParseStep, HeaderError,
                        ReadHeader, ChunkHeaderCut, Finish, Fail
    <2> QED
      BY <2>1, <2>3, ChunkInv
  <1> QED
    BY <1>1, FileInvariant, PTL DEF FileSpec, ChunksAdvance
=================================================================================
