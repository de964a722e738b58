--------------------------------- MODULE WaveFile ---------------------------------
(***************************************************************************)
(* WAVE files: audio_write_wave and wave_write (common/audio_write_pcm.c,  *)
(* wave_write.c), and audio_read_wave and wave_parse (audio_read_pcm.c,    *)
(* wave_parse.c) on the file that is left, cut anywhere, or on an unknown  *)
(* one.                                                                    *)
(*                                                                         *)
(* As in AiffParse, addresses are offsets in the file, a chunk is what the *)
(* parser takes from it, and the chunks of an unknown file are chosen when *)
(* they are read.  Sample rates are 80-bit numbers in the program and      *)
(* words in the file.                                                      *)
(***************************************************************************)
EXTENDS Extended

CONSTANTS
    Written,        \* what audio_write_wave is called with
    NoFile,         \* an unknown file is read, and none is written
    NoFormat,       \* no fmt chunk was read
    \* What an unknown file may have:
    FileSizes, ContentSizes,
    ChunkSizes,     \* a set for each kind of chunk
    WaveFormats

Words == 0 .. MaxWord
PCM == 1
ChunkIds == {"fmt", "data", "other"}

(* The fields of fmt for a file that is written. *)
WrittenFormat(d) ==
    [codec |-> PCM, channel_count |-> 1, bits_per_sample |-> 16,
     sample_rate |-> ToWord(d.sample_rate)]

ASSUME WaveAssumption ==
    /\ WordModulus > 64
    /\ NoFile \notin Written /\ NoFormat \notin WaveFormats
    /\ \A d \in Written : NoFormat # WrittenFormat(d)
    /\ \A d \in Written : d.sample_count \in Nat /\ d.sample_rate \in ExtendedNumbers
    /\ FileSizes \subseteq Nat /\ ContentSizes \subseteq Words
    /\ ChunkSizes \in [ChunkIds -> SUBSET Words]
    /\ \A f \in WaveFormats : f.sample_rate \in Words

VARIABLES
    pc,         \* "write", "refused", "header", "chunk", "parsed", "ok" or "error"
    data,       \* what is written, or NoFile
    file,       \* the chunks of a file that was written, by their offset
    header,     \* the first 12 bytes
    size,       \* the bytes there are
    offset, end,
    wave,       \* the fields of fmt
    audio,      \* the contents of data, if has_data
    meta,       \* what audio_read_wave returns
    inBounds    \* history: has every read been inside its chunk and the file?

parse == <<header, size, offset, end, wave, audio, meta, inBounds>>
vars == <<pc, data, file, parse>>

NoAudio == [from |-> 0, size |-> 0]

---------------------------------------------------------------------------------
(* The next even number, in a word. *)
Align32(n) == LET sum == (n + 1) % WordModulus IN sum - (sum % 2)

AudioSize == 2 * data.sample_count
DataSize  == Align32(AudioSize)

(* The bytes of a file that is whole: 12 + 8 + 16 + 8, the audio, a padding byte. *)
FileLength == 44 + AudioSize + (AudioSize % 2)

WriteRefused ==
    /\ pc = "write"
    /\ AudioSize > MaxWord - 1
    /\ pc' = "refused"
    /\ UNCHANGED <<data, file, parse>>

(* The file is written, or only its first bytes are (module OutputFile). *)
Write ==
    /\ pc = "write"
    /\ AudioSize <= MaxWord - 1
    /\ file' = [o \in {12, 36} |->
                  IF o = 12 THEN [id |-> "fmt", size |-> 16, format |-> WrittenFormat(data)]
                  ELSE [id |-> "data", size |-> DataSize]]
    /\ header' = [form |-> TRUE, content_size |-> (DataSize + 36) % WordModulus]
    /\ size' \in 0 .. FileLength
    /\ pc' = "header"
    /\ UNCHANGED <<data, offset, end, wave, audio, meta, inBounds>>

---------------------------------------------------------------------------------

Fail == pc' = "error"

(* The bytes from .. from + count - 1 are read; they belong to what ends at bound. *)
Read(from, count, bound) ==
    inBounds' = (inBounds /\ from + count <= bound /\ bound <= size)

HeaderInvalid_AnySize == ~header.form \/ header.content_size < 4     \* faulty
HeaderInvalid ==
    \/ ~header.form
    \/ header.content_size < 4
    \/ header.content_size > size - 8

HeaderError ==
    /\ pc = "header"
    /\ \/ size < 12 /\ Read(0, 0, size)
       \/ size >= 12 /\ HeaderInvalid /\ Read(0, 12, size)
    /\ Fail
    /\ UNCHANGED <<data, file, header, size, offset, end, wave, audio, meta>>

ReadHeader ==
    /\ pc = "header"
    /\ size >= 12
    /\ ~HeaderInvalid
    /\ pc' = "chunk"
    /\ offset' = 12
    /\ end' = header.content_size + 8
    /\ Read(0, 12, size)
    /\ UNCHANGED <<data, file, header, size, wave, audio, meta>>

AnyChunk ==
    [id : {"fmt"}, size : ChunkSizes["fmt"], format : WaveFormats]
    \cup [id : {"data"}, size : ChunkSizes["data"]]
    \cup [id : {"other"}, size : ChunkSizes["other"]]

ChunkAt(o) == IF o \in DOMAIN file THEN {file[o]} ELSE AnyChunk

(* Padded, At and Until are of the chunk at offset. *)
Padded(c) == Align32(c.size)
At        == offset + 8
Until(c)  == At + c.size

ChunkFits_Unwrapped(c) == Padded(c) <= end - At      \* faulty: no check of the wrap
ChunkFits(c) == Padded(c) >= c.size /\ Padded(c) <= end - At

Enter(id, c) == c.id = id /\ ChunkFits(c)

Advance_Nowhere(c) == pc' = "chunk" /\ offset' = offset + Padded(c)     \* faulty
Advance(c) == pc' = "chunk" /\ offset' = At + Padded(c)

ChunkHeaderCut ==
    /\ pc = "chunk"
    /\ offset < end
    /\ end - offset < 8
    /\ Fail
    /\ UNCHANGED <<data, file, parse>>

ChunkSizeInvalid(c) ==
    /\ ~ChunkFits(c)
    /\ Fail
    /\ Read(offset, 8, end)
    /\ UNCHANGED <<data, file, header, size, offset, end, wave, audio, meta>>

FormatError(c) ==
    /\ Enter("fmt", c)
    /\ wave # NoFormat \/ c.size < 16
    /\ Fail
    /\ Read(offset, 8, end)
    /\ UNCHANGED <<data, file, header, size, offset, end, wave, audio, meta>>

ParseFormat(c) ==
    /\ Enter("fmt", c)
    /\ wave = NoFormat /\ c.size >= 16
    /\ wave' = c.format
    /\ Read(At, 16, Until(c))
    /\ Advance(c)
    /\ UNCHANGED <<data, file, header, size, end, audio, meta>>

DataTwice(c) ==
    /\ Enter("data", c)
    /\ audio # NoAudio
    /\ Fail
    /\ Read(offset, 8, end)
    /\ UNCHANGED <<data, file, header, size, offset, end, wave, audio, meta>>

ParseData(c) ==
    /\ Enter("data", c)
    /\ audio = NoAudio
    /\ audio' = [from |-> At, size |-> c.size]
    /\ Read(offset, 8, end)
    /\ Advance(c)
    /\ UNCHANGED <<data, file, header, size, end, wave, meta>>

(* fact chunks, and those it does not know *)
SkipChunk(c) ==
    /\ Enter("other", c)
    /\ Read(offset, 8, end)
    /\ Advance(c)
    /\ UNCHANGED <<data, file, header, size, end, wave, audio, meta>>

ParseChunk(c) ==
    \/ ChunkSizeInvalid(c)
    \/ FormatError(c)
    \/ ParseFormat(c)
    \/ DataTwice(c)
    \/ ParseData(c)
    \/ SkipChunk(c)

NextChunk ==
    /\ pc = "chunk"
    /\ end - offset >= 8
    /\ \E c \in ChunkAt(offset) : ParseChunk(c)

Missing == wave = NoFormat \/ audio = NoAudio

Finish ==
    /\ pc = "chunk"
    /\ offset >= end
    /\ pc' = IF Missing THEN "error" ELSE "parsed"
    /\ UNCHANGED <<data, file, parse>>

---------------------------------------------------------------------------------
(* audio_read_wave, after wave_parse *)

FormatRefused ==
    wave.codec # PCM \/ wave.channel_count # 1 \/ wave.bits_per_sample # 16

RejectInput ==
    /\ pc = "parsed"
    /\ FormatRefused
    /\ Fail
    /\ UNCHANGED <<data, file, parse>>

LoadSamples ==
    /\ pc = "parsed"
    /\ ~FormatRefused
    /\ LET count == audio.size \div 2
       IN  /\ meta' = [original_sample_count |-> count,
                       sample_rate |-> FromWord(wave.sample_rate)]
           /\ Read(audio.from, 2 * count, audio.from + audio.size)
    /\ pc' = "ok"
    /\ UNCHANGED <<data, file, header, size, offset, end, wave, audio>>

---------------------------------------------------------------------------------

Common ==
    /\ file = << >>
    /\ offset = 0 /\ end = 0
    /\ wave = NoFormat
    /\ audio = NoAudio
    /\ meta = [original_sample_count |-> 0, sample_rate |-> FromWord(0)]
    /\ inBounds = TRUE

WriteInit ==
    /\ Common
    /\ pc = "write"
    /\ data \in Written
    /\ header = [form |-> FALSE, content_size |-> 0]
    /\ size = 0

ReadInit ==
    /\ Common
    /\ pc = "header"
    /\ data = NoFile
    /\ header \in [form : BOOLEAN, content_size : ContentSizes]
    /\ size \in FileSizes

Init == WriteInit \/ ReadInit

Step ==
    \/ WriteRefused
    \/ Write
    \/ HeaderError
    \/ ReadHeader
    \/ ChunkHeaderCut
    \/ NextChunk
    \/ Finish
    \/ RejectInput
    \/ LoadSamples

Next == Step \/ (pc \in {"ok", "error", "refused"} /\ UNCHANGED vars)

Spec == Init /\ [][Next]_vars

---------------------------------------------------------------------------------

(* What each variable may hold. *)
TypeOK ==
    /\ pc \in {"write", "refused", "header", "chunk", "parsed", "ok", "error"}
    /\ data \in Written \cup {NoFile}
    /\ header \in [form : BOOLEAN, content_size : Words]
    /\ size \in Nat /\ offset \in Nat /\ end \in Nat
    /\ audio \in [from : Nat, size : Words]
    /\ meta.original_sample_count \in Nat
    /\ meta.sample_rate \in ExtendedNumbers
    /\ inBounds \in BOOLEAN

(***************************************************************************)
(* Whatever sizes a WAVE file states, wave_parse reads nothing outside a   *)
(* chunk and no chunk is outside the file, nor are the samples that        *)
(* audio_read_wave copies; and a file is only taken with a fmt and a data  *)
(* chunk.                                                                  *)
(***************************************************************************)
ReadsInFile ==
    /\ inBounds
    /\ pc \in {"parsed", "ok"} => wave # NoFormat /\ audio.from >= 20

(***************************************************************************)
(* Every round of the chunk loop of wave_parse moves on by 8 bytes or more *)
(* and not past the end, so that it ends on every file.                    *)
(***************************************************************************)
LoopAdvances ==
    [][pc = "chunk" /\ pc' = "chunk" => offset' \in offset + 8 .. end]_vars

(***************************************************************************)
(* A WAVE file that was written is accepted exactly if all of it is there, *)
(* and has as many samples as were written, at the place where wave_write  *)
(* put them.  wave_write takes more audio than a file can state the size   *)
(* of; such a file is refused too.                                         *)
(***************************************************************************)
WholeIsAccepted ==
    data # NoFile =>
        /\ pc = "error" => size < FileLength \/ DataSize + 36 > MaxWord
        /\ pc = "ok" =>
             /\ size = FileLength
             /\ audio.from = 44
             /\ meta.original_sample_count = data.sample_count

(***************************************************************************)
(* r is the word for x: x itself, the nearest, or the largest if x is too  *)
(* large.  Half of a double's last place may move x across the middle      *)
(* between two words; both sides are multiplied by                         *)
(* 2 ^ (DoubleBits - WordBits + 1).                                        *)
(***************************************************************************)
NearestWord(x, r) ==
    LET p      == PointPlace(x)
        d      == IF r * Bit(p) >= x.fraction THEN r * Bit(p) - x.fraction
                  ELSE x.fraction - r * Bit(p)
        finite == ~x.negative /\ x.exponent # NonFinite
    IN  /\ x.negative => r = 0
        /\ ~x.negative /\ ~finite => r = IF x.fraction = 0 THEN MaxWord ELSE 0
        /\ finite /\ p < 0 => r = MaxWord \/ r = x.fraction * Bit(-p)
        /\ finite /\ p >= 0 /\ x.fraction >= MaxWord * Bit(p) => r = MaxWord
        /\ finite /\ p >= 0 /\ x.fraction < MaxWord * Bit(p) =>
             /\ d * Bit(DoubleBits - WordBits + 1) <= Bit(p) * (Bit(DoubleBits - WordBits) + 1)
             /\ x.fraction % Bit(p) = 0 => d = 0

(***************************************************************************)
(* The sample rate comes back: the same number if a word can hold it, and  *)
(* the nearest word if not.  A double on the way may move it across the    *)
(* middle between two words, but by no more than half of a double's last   *)
(* place.                                                                  *)
(***************************************************************************)
RateKept ==
    pc = "ok" /\ data # NoFile => NearestWord(data.sample_rate, ToWord(meta.sample_rate))
=================================================================================
