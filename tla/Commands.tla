--------------------------------- MODULE Commands ---------------------------------
(***************************************************************************)
(* The vadpcm program: vadpcm encode and vadpcm decode (vadpcm/), with the *)
(* audio files they read and write (common/audio_*.c).  Commands run one   *)
(* after the other, on whatever files the earlier ones left.               *)
(*                                                                         *)
(* A file is what its parser finds in it (modules AiffParse and AiffFile). *)
(* A sample is its position in the file it came from first, so samples     *)
(* that are lost, moved or made up show, and one whose bytes are the wrong *)
(* way round is the negative of it.  The codec gives back what it was      *)
(* given (how close is what module Statecheck is about).                   *)
(***************************************************************************)
EXTENDS Integers, Sequences

CONSTANTS
    WordModulus,            \* 2^32
    FrameSampleCount,       \* kVADPCMFrameSampleCount
    FrameByteSize,          \* kVADPCMFrameByteSize
    EncodeOrder,            \* kVADPCMEncodeOrder
    MaxPredictorCount,      \* kVADPCMMaxPredictorCount
    MaxInputLength,         \* MAX_INPUT_LENGTH
    HostOrder,              \* __BYTE_ORDER__
    Names,
    Extension,              \* format_for_file, for each name
    UserFiles,              \* what may be there to begin with
    PredictorArguments,     \* for --predictors
    MaxCommands             \* bound

Formats == {"AIFF", "AIFC", "WAVE", "unknown"}

ASSUME CommandsAssumption ==
    /\ MaxInputLength \in Nat \ {0} /\ WordModulus = 4 * MaxInputLength
    /\ FrameSampleCount \in Nat \ {0} /\ MaxInputLength % FrameSampleCount = 0
    /\ FrameByteSize \in 1 .. FrameSampleCount
    /\ HostOrder \in {"little", "big"}
    /\ EncodeOrder \in Nat /\ MaxPredictorCount \in Nat
    /\ Extension \in [Names -> Formats]
    /\ MaxCommands \in Nat

VARIABLES
    files,      \* what each name holds
    runs,       \* commands so far
    pc,         \* where the command is; "shell" between commands
    cmd,        \* its arguments
    result,     \* how it ended
    meta,       \* struct audio_meta
    samples,    \* PCM in memory
    coded,      \* VADPCM in memory
    heap,       \* the blocks that are allocated, and the mapped input
    inBounds    \* history: has every access of the command been inside its block?

memory == <<meta, samples, coded, heap, inBounds>>
vars == <<files, runs, pc, cmd, result, memory>>

Absent == [kind |-> "none"]
Partial == [kind |-> "partial"]      \* no file of any format

(* swap16be and swap16le: from the order of a file to the host's, and back. *)
OrderOf(kind) == IF kind = "WAVE" THEN "little" ELSE "big"
Swapped(s, order) == IF order = HostOrder THEN s ELSE [i \in DOMAIN s |-> -s[i]]

(* The samples of a file; the bytes of VADPCM data have no order. *)
InOrder(f) == IF f.codec = "VADPCM" THEN f.audio ELSE Swapped(f.audio, OrderOf(f.kind))

(***************************************************************************)
(* A file that a parser takes: what it states is up to the user, but for   *)
(* the size of its audio.  Its samples are counted from 1; its length is   *)
(* what a reader of its format goes by; last is the highest predictor of   *)
(* its frames of VADPCM.                                                   *)
(***************************************************************************)
IsUserFile(f) ==
    /\ f.kind \in {"AIFF", "AIFC", "WAVE"} /\ f.mono16 \in BOOLEAN
    /\ f.frames \in Nat /\ f.size \in 0 .. WordModulus - 1
    /\ f.order \in Nat /\ f.predictor_count \in Nat
    /\ f.last \in Int /\ (f.codec = "VADPCM" => f.last >= 0)
    /\ f.by = "user"
    /\ f.length = IF f.kind = "WAVE" THEN f.size \div 2 ELSE f.frames
    /\ f.audio \in Seq(Int)
    /\ Len(f.audio) = IF f.codec = "VADPCM" THEN (f.size \div FrameByteSize) * FrameSampleCount
                      ELSE f.size \div 2
    /\ \A i \in 1 .. Len(f.audio) : InOrder(f)[i] = i

ASSUME UserFilesAssumption ==
    \A f \in UserFiles : f \in {Absent, Partial} \/ IsUserFile(f)

Align(n) == LET sum == (n + FrameSampleCount - 1) % WordModulus
            IN  sum - (sum % FrameSampleCount)

FrameCount(n) == (n + FrameSampleCount - 1) \div FrameSampleCount

NoCode == [samples |-> << >>, size |-> 0, order |-> 0, predictor_count |-> 0, last |-> -1]

Init ==
    /\ \E n \in Names, f \in UserFiles :
          files = [m \in Names |-> IF m = n THEN f ELSE Absent]
    /\ runs = 0
    /\ pc = "shell"
    /\ cmd = [name |-> "none"]
    /\ result = "none"
    /\ meta = [original |-> 0, padded |-> 0]
    /\ samples = << >>
    /\ coded = NoCode
    /\ heap = {}
    /\ inBounds = TRUE

End(r) == pc' = "shell" /\ result' = r

---------------------------------------------------------------------------------
(* The command line *)

Encode(i, o, p) == [name |-> "encode", input |-> i, output |-> o, predictor_count |-> p]
Decode(i, o)    == [name |-> "decode", input |-> i, output |-> o]

NewProcess ==
    /\ pc = "shell" /\ runs < MaxCommands
    /\ runs' = runs + 1
    /\ meta' = [original |-> 0, padded |-> 0]
    /\ samples' = << >>
    /\ coded' = NoCode
    /\ heap' = {}
    /\ inBounds' = TRUE
    /\ UNCHANGED files

(* --help, or arguments that are wrong or too few or too many. *)
Usage ==
    /\ NewProcess
    /\ cmd' = [name |-> "none"]
    /\ \E r \in {"help", "usage"} : End(r)

StartEncode ==
    /\ NewProcess
    /\ \E i, o \in Names, p \in PredictorArguments :
          /\ cmd' = Encode(i, o, p)
          /\ IF p \in 1 .. MaxPredictorCount
             THEN pc' = "formats" /\ result' = "none"
             ELSE End("usage")

StartDecode ==
    /\ NewProcess
    /\ \E i, o \in Names : cmd' = Decode(i, o)
    /\ pc' = "formats" /\ result' = "none"

FormatsGood ==
    IF cmd.name = "encode"
    THEN Extension[cmd.input] # "unknown" /\ Extension[cmd.output] = "AIFC"
    ELSE Extension[cmd.input] = "AIFC" /\ Extension[cmd.output] # "unknown"

CheckFormats ==
    /\ pc = "formats"
    /\ IF FormatsGood THEN pc' = "open" /\ UNCHANGED result ELSE End("format")
    /\ UNCHANGED <<files, runs, cmd, memory>>

---------------------------------------------------------------------------------
(* Reading the input: map it, parse it, check it, copy it, unmap it *)

Input == files[cmd.input]

OpenInput ==
    /\ pc = "open"
    /\ Input # Absent
    /\ heap' = heap \cup {"input"}
    /\ pc' = "parse"
    /\ UNCHANGED <<files, runs, cmd, result, meta, samples, coded, inBounds>>

OpenFails ==
    /\ pc = "open"
    /\ End("io")
    /\ UNCHANGED <<files, runs, cmd, memory>>

Reader ==
    IF cmd.name = "encode" /\ Extension[cmd.input] = "WAVE" THEN {"WAVE"} ELSE {"AIFF", "AIFC"}

(* aiff_parse copies the vectors of the codebook. *)
ParseInput ==
    /\ pc = "parse"
    /\ Input.kind \in Reader
    /\ heap' = IF Input.kind # "WAVE" /\ Input.order * Input.predictor_count > 0
               THEN heap \cup {"vectors"} ELSE heap
    /\ pc' = "check"
    /\ UNCHANGED <<files, runs, cmd, result, meta, samples, coded, inBounds>>

ParseFails ==
    /\ pc = "parse"
    /\ Input.kind \notin Reader
    /\ heap' = heap \ {"input"}
    /\ End("content")
    /\ UNCHANGED <<files, runs, cmd, meta, samples, coded, inBounds>>

TooLong_Never(n) == FALSE       \* faulty
TooLong(n) == n > MaxInputLength

AcceptedVADPCM(f) ==
    /\ f.mono16
    /\ f.codec = "VADPCM"
    /\ ~TooLong(f.frames)
    /\ FrameCount(f.frames) * FrameByteSize <= f.size

AcceptedAIFF(f) ==
    /\ f.mono16
    /\ f.codec = "PCM"
    /\ ~TooLong(f.frames)
    /\ (f.frames * 2) % WordModulus <= f.size

AcceptedWAVE(f) == f.mono16 /\ f.codec = "PCM"

Accepted ==
    CASE cmd.name = "decode" -> AcceptedVADPCM(Input)
      [] cmd.name = "encode" /\ Reader = {"WAVE"} -> AcceptedWAVE(Input)
      [] OTHER -> AcceptedAIFF(Input)

RejectInput ==
    /\ pc = "check"
    /\ ~Accepted
    /\ heap' = heap \ {"input"}
    /\ End("content")
    /\ UNCHANGED <<files, runs, cmd, meta, samples, coded, inBounds>>

Junk == WordModulus         \* no sample of any file

(* The first count samples of a file; there may be fewer. *)
Taken(f, count) ==
    [i \in 1 .. count |-> IF i <= Len(f.audio) THEN f.audio[i] ELSE Junk]

PadTo_Junk(s, length) ==            \* faulty: no memset
    [i \in 1 .. length |-> IF i <= Len(s) THEN s[i] ELSE Junk]
(* The copy has silence after it. *)
PadTo(s, length) ==
    [i \in 1 .. length |-> IF i <= Len(s) THEN s[i] ELSE 0]

LoadPCM ==
    /\ pc = "check"
    /\ Accepted
    /\ cmd.name = "encode"
    /\ LET original == IF Reader = {"WAVE"} THEN Input.size \div 2 ELSE Input.frames
           padded   == Align(original)
       IN  /\ meta' = [original |-> original, padded |-> padded]
           /\ samples' = PadTo(Swapped(Taken(Input, original), OrderOf(Input.kind)), padded)
           /\ heap' = (heap \cup {"audio"}) \ {"input"}
           /\ inBounds' = (inBounds /\ "input" \in heap
                            /\ original * 2 <= Input.size /\ original <= padded)
    /\ pc' = "code"
    /\ UNCHANGED <<files, runs, cmd, result, coded>>

(* Frames that are not stated are not decoded, whatever their predictors. *)
LoadVADPCM ==
    /\ pc = "check"
    /\ Accepted
    /\ cmd.name = "decode"
    /\ LET f == Input
           size == FrameCount(f.frames) * FrameByteSize
           padded == FrameCount(f.frames) * FrameSampleCount
       IN  /\ meta' = [original |-> f.frames, padded |-> padded]
           /\ coded' = [samples |-> Taken(f, padded), size |-> size,
                        last |-> IF padded = 0 THEN -1 ELSE f.last,
                        order |-> f.order, predictor_count |-> f.predictor_count]
           /\ heap' = (heap \cup {"coded"}) \ {"input"}
           /\ inBounds' = (inBounds /\ "input" \in heap /\ size <= f.size)
    /\ pc' = "code"
    /\ UNCHANGED <<files, runs, cmd, result, samples>>

(* XMALLOC exits: of the codebook, the copy or the output of the codec. *)
OutOfMemory ==
    /\ pc \in {"parse", "check", "code", "write"}
    /\ End("memory")
    /\ UNCHANGED <<files, runs, cmd, memory>>

---------------------------------------------------------------------------------
(* The codec *)

(***************************************************************************)
(* Two accesses out of bounds.  The codebook of cmd_encode has             *)
(* kVADPCMMaxPredictorCount vectors, and vadpcm_encode writes              *)
(* kVADPCMEncodeOrder for each predictor, into which it first writes zeros *)
(* also if there are no frames.  And with order 0 vadpcm_decode takes the  *)
(* vector before the codebook, of which there is none, in every frame.     *)
(***************************************************************************)
TooManyPredictors ==
    cmd.name = "encode" /\ EncodeOrder * cmd.predictor_count > MaxPredictorCount

NoVector == cmd.name = "decode" /\ coded.order = 0 /\ coded.last >= 0

CodedSize_Short(n) == (n \div FrameSampleCount) * (FrameByteSize - 1)      \* faulty
CodedSize(n) == (n \div FrameSampleCount) * FrameByteSize

(***************************************************************************)
(* vadpcm_encode uses any predictor there is.  last is the highest that a  *)
(* frame uses; it is -1 if there are no frames.                            *)
(***************************************************************************)
EncodeSamples ==
    /\ pc = "code"
    /\ cmd.name = "encode"
    /\ \E last \in IF meta.padded = 0 THEN {-1} ELSE 0 .. cmd.predictor_count - 1 :
          coded' = [samples |-> samples, size |-> CodedSize(meta.padded), last |-> last,
                    order |-> EncodeOrder, predictor_count |-> cmd.predictor_count]
    /\ heap' = heap \cup {"coded"}
    /\ inBounds' = (inBounds /\ "audio" \in heap /\ ~TooManyPredictors)
    /\ pc' = "write"
    /\ UNCHANGED <<files, runs, cmd, result, meta, samples>>

(***************************************************************************)
(* vadpcm_encode has no memory, which it finds out before it writes to the *)
(* codebook; or what it wrote past the end of that ends the process, which *)
(* otherwise goes on as if nothing had happened.                           *)
(***************************************************************************)
EncodeFails ==
    /\ pc = "code"
    /\ cmd.name = "encode"
    /\ \/ meta.padded > 0 /\ End("memory") /\ UNCHANGED inBounds
       \/ TooManyPredictors /\ End("crash") /\ inBounds' = FALSE
    /\ UNCHANGED <<files, runs, cmd, meta, samples, coded, heap>>

DecodeSamples ==
    /\ pc = "code"
    /\ cmd.name = "decode"
    /\ coded.last < coded.predictor_count
    /\ ~NoVector
    /\ samples' = SubSeq(coded.samples, 1, meta.padded)
    /\ heap' = heap \cup {"audio"}
    /\ inBounds' = (inBounds /\ "coded" \in heap
                     /\ (meta.padded \div FrameSampleCount) * FrameByteSize <= coded.size
                     /\ (coded.last >= 0 => "vectors" \in heap))
    /\ pc' = "write"
    /\ UNCHANGED <<files, runs, cmd, result, meta, coded>>

DecodeFails ==
    /\ pc = "code"
    /\ cmd.name = "decode"
    /\ coded.last >= coded.predictor_count
    /\ End("codec")
    /\ UNCHANGED <<files, runs, cmd, memory>>

(***************************************************************************)
(* A frame with a predictor that is there is decoded with the vector       *)
(* before a null pointer.  If the highest predictor of the frames is not   *)
(* there, that is a frame before the first one that is refused.            *)
(***************************************************************************)
DecodeCrashes ==
    /\ pc = "code"
    /\ NoVector
    /\ coded.predictor_count > 0
    /\ coded.last < coded.predictor_count \/ meta.padded > FrameSampleCount
    /\ inBounds' = FALSE
    /\ End("crash")
    /\ UNCHANGED <<files, runs, cmd, meta, samples, coded, heap>>

---------------------------------------------------------------------------------
(* Writing the output.  by and length are history: the command, and how many *)
(* samples there were before any were added as padding.                      *)

EncodedFile ==
    [kind |-> "AIFC", codec |-> "VADPCM", mono16 |-> TRUE, frames |-> meta.padded,
     size |-> coded.size, audio |-> coded.samples, last |-> coded.last,
     order |-> coded.order, predictor_count |-> coded.predictor_count,
     by |-> "encode", length |-> files[cmd.input].length]

DecodedFile ==
    [kind |-> Extension[cmd.output], codec |-> "PCM", mono16 |-> TRUE,
     frames |-> meta.original, size |-> 2 * meta.original,
     audio |-> SubSeq(samples', 1, meta.original), last |-> -1,
     order |-> 0, predictor_count |-> 0,
     by |-> "decode", length |-> files[cmd.input].length]

Output == IF cmd.name = "encode" THEN EncodedFile ELSE DecodedFile

(***************************************************************************)
(* Before the output is opened the bytes of all padded samples are swapped *)
(* in place, or the codebook is copied.                                    *)
(***************************************************************************)
PrepareOutput ==
    /\ pc = "write"
    /\ samples' = IF cmd.name = "encode" THEN samples
                  ELSE Swapped(samples, OrderOf(Extension[cmd.output]))
    /\ inBounds' = (inBounds /\ {"audio", "coded"} \subseteq heap /\ ~TooManyPredictors
                     /\ meta.original <= meta.padded /\ meta.padded <= Len(samples))

(* All memory but the codebook of aiff_parse is freed. *)
WriteOutput ==
    /\ PrepareOutput
    /\ files' = [files EXCEPT ![cmd.output] = Output]
    /\ heap' = heap \ {"audio", "coded"}
    /\ End("ok")
    /\ UNCHANGED <<runs, cmd, meta, coded>>

(***************************************************************************)
(* The output is not opened, or is cut short (module OutputFile), or the   *)
(* close that follows the last write fails.                                *)
(***************************************************************************)
WriteFails ==
    /\ PrepareOutput
    /\ \/ UNCHANGED files
       \/ \E f \in {Partial, Output} : files' = [files EXCEPT ![cmd.output] = f]
    /\ End("io")
    /\ UNCHANGED <<runs, cmd, meta, coded, heap>>

---------------------------------------------------------------------------------

Step ==
    \/ CheckFormats
    \/ OpenInput
    \/ OpenFails
    \/ ParseInput
    \/ ParseFails
    \/ RejectInput
    \/ LoadPCM
    \/ LoadVADPCM
    \/ OutOfMemory
    \/ EncodeSamples
    \/ EncodeFails
    \/ DecodeSamples
    \/ DecodeFails
    \/ DecodeCrashes
    \/ WriteOutput
    \/ WriteFails

Done == pc = "shell" /\ runs = MaxCommands /\ UNCHANGED vars

Next == Usage \/ StartEncode \/ StartDecode \/ Step \/ Done

Spec == Init /\ [][Next]_vars

---------------------------------------------------------------------------------

(* What each variable may hold; the padded length is one of whole frames. *)
TypeOK ==
    /\ DOMAIN files = Names
    /\ runs \in 0 .. MaxCommands
    /\ pc \in {"shell", "formats", "open", "parse", "check", "code", "write"}
    /\ result \in {"none", "help", "usage", "format", "io", "content", "memory", "codec",
                   "crash", "ok"}
    /\ meta \in [original : Nat, padded : Nat]
    /\ meta.padded % FrameSampleCount = 0
    /\ heap \subseteq {"input", "vectors", "audio", "coded"}
    /\ inBounds \in BOOLEAN

(***************************************************************************)
(* Whatever lengths the file states, no copy, conversion, codec or writer  *)
(* goes past the audio of the file it reads, or past the block it reads or *)
(* writes, and none uses a block after it is freed, but for the two        *)
(* accesses known to do so: to a codebook of too many predictors, which is *)
(* CodebookFits, and to that of a file whose order is 0, which is          *)
(* PredictorFromCodebook of module Decoder.                                *)
(***************************************************************************)
AccessesInBounds == ~inBounds => TooManyPredictors \/ NoVector

(* codec/vadpcm.h: codebook is an array of predictor_count * kVADPCMEncodeOrder vectors. *)
CodebookFits == pc = "code" => ~TooManyPredictors

(***************************************************************************)
(* What vadpcm encode has written, vadpcm decode accepts, if its length is *)
(* within the limit.                                                       *)
(***************************************************************************)
EncodedDecodes ==
    cmd.name = "decode" /\ result \in {"content", "codec"} =>
        LET f == files[cmd.input]
        IN  f.kind = "AIFC" /\ f.by = "encode" => f.frames > MaxInputLength

(***************************************************************************)
(* A file that was encoded or decoded, however often, has all the samples  *)
(* of the file they came from, in their order, each with its bytes in the  *)
(* order of the format; after them comes silence, less than a frame of it. *)
(***************************************************************************)
SamplesKept ==
    \A n \in Names :
        LET f == files[n]
        IN  f.kind \in {"AIFF", "AIFC", "WAVE"} /\ f.by # "user" =>
                /\ Len(f.audio) \in f.length .. f.length + FrameSampleCount - 1
                /\ \A i \in 1 .. Len(f.audio) :
                      InOrder(f)[i] = IF i <= f.length THEN i ELSE 0

(* common/audio.h: no input is longer than MAX_INPUT_LENGTH. *)
InputWithinLimit == meta.original <= MaxInputLength
=================================================================================
