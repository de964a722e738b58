------------------------------ MODULE CommandsProofs ------------------------------
(***************************************************************************)
(* Theorems about module Commands: for files of any length that state any  *)
(* lengths, any number of commands and any names, and a host of either     *)
(* byte order.                                                             *)
(***************************************************************************)
EXTENDS Commands, SequenceTheorems, TLAPS

(* What PadTo leaves at a position of a sound of n samples. *)
Position(i, n) == IF i <= n THEN i ELSE 0

(* n samples and the silence that fills their last frame. *)
Whole(n) == FrameCount(n) * FrameSampleCount

(* How many samples the reader of a file takes, by what it states. *)
Count(f) == IF f.kind = "WAVE" THEN f.size \div 2 ELSE f.frames

IsSound(f) == f.kind \in {"AIFF", "AIFC", "WAVE"}

(***************************************************************************)
(* What is true of every file, whoever made it.  The length that is stated *)
(* is the first one or that of its frames, so it grows no more than once.  *)
(***************************************************************************)
FileTypes(f) ==
    /\ f.mono16 \in BOOLEAN /\ f.by \in {"user", "encode", "decode"}
    /\ f.frames \in Nat /\ f.length \in Nat /\ f.size \in 0 .. WordModulus - 1
    /\ f.order \in Nat /\ f.predictor_count \in Nat /\ f.last \in Int
    /\ f.audio \in Seq(Int)
    /\ Len(f.audio) >= IF f.codec = "VADPCM"
                       THEN (f.size \div FrameByteSize) * FrameSampleCount
                       ELSE f.size \div 2

FileSamples(f) ==
    /\ Count(f) = f.length \/ Count(f) = Whole(f.length)
    /\ \A i \in 1 .. Len(f.audio) : i <= Count(f) => InOrder(f)[i] = Position(i, f.length)
    /\ f.by # "user" => Len(f.audio) = Count(f)

EncodeWrote(f) ==
    /\ f.kind = "AIFC" /\ f.codec = "VADPCM" /\ f.mono16
    /\ FrameCount(f.frames) * FrameByteSize <= f.size
    /\ f.last < f.predictor_count

FileInv(f) ==
    IsSound(f) => FileTypes(f) /\ FileSamples(f) /\ (f.by = "encode" => EncodeWrote(f))

---------------------------------------------------------------------------------
(* The command in progress *)

CommandTypes ==
    /\ cmd.name \in {"none", "encode", "decode"}
    /\ pc # "shell" => cmd.name # "none"
    /\ cmd.name # "none" => cmd.input \in Names /\ cmd.output \in Names
    /\ cmd.name = "encode" /\ pc # "shell" => cmd.predictor_count \in 1 .. MaxPredictorCount

CommandFormats ==
    pc \in {"open", "parse", "check", "code", "write"} => FormatsGood

(* A sound of original samples in memory, of those of the input. *)
InMemory(s) ==
    /\ s \in Seq(Int) /\ Len(s) = meta.padded
    /\ \A i \in 1 .. meta.original : s[i] = Position(i, Input.length)

(* The sizes are those of the input, in whole frames. *)
Measured ==
    /\ IsSound(Input)
    /\ meta.original = Count(Input)
    /\ meta.padded = Whole(meta.original)
    /\ meta.padded < WordModulus

(* cmd_encode has the input, and silence after it. *)
EncodeInv ==
    cmd.name = "encode" =>
        /\ InMemory(samples)
        /\ \A i \in 1 .. meta.padded : samples[i] = Position(i, Input.length)
        /\ "audio" \in heap
        /\ pc = "write" =>
             /\ coded.samples = samples /\ coded.size = CodedSize(meta.padded)
             /\ coded.last \in Int /\ coded.last < coded.predictor_count
             /\ coded.order = EncodeOrder /\ coded.predictor_count = cmd.predictor_count
             /\ "coded" \in heap

(* cmd_decode has the frames of the input, and their codebook. *)
DecodeInv ==
    cmd.name = "decode" =>
        /\ Input.by = "encode" => coded.last < coded.predictor_count
        /\ meta.original <= MaxInputLength
        /\ coded.size = FrameCount(meta.original) * FrameByteSize
        /\ coded.order \in Nat /\ coded.predictor_count \in Nat /\ coded.last \in Int
        /\ coded.order * coded.predictor_count > 0 => "vectors" \in heap
        /\ "coded" \in heap
        /\ pc = "code" => InMemory(coded.samples)
        /\ pc = "write" => InMemory(samples) /\ "audio" \in heap

StepInv ==
    /\ pc # "shell" => result = "none"
    /\ pc \in {"parse", "check"} => "input" \in heap
    /\ pc = "check" =>
         /\ Input.kind \in Reader
         /\ Input.kind # "WAVE" /\ Input.order * Input.predictor_count > 0 => "vectors" \in heap
    /\ pc \in {"code", "write"} => Measured /\ EncodeInv /\ DecodeInv

(* Until a codebook is overrun, no access is out of bounds. *)
BoundsInv ==
    /\ AccessesInBounds
    /\ pc \in {"formats", "open", "parse", "check", "code"} => inBounds = TRUE
    /\ pc = "write" /\ ~TooManyPredictors => inBounds = TRUE

IInv ==
    /\ TypeOK
    /\ CommandTypes
    /\ CommandFormats
    /\ \A n \in Names : FileInv(files[n])
    /\ StepInv
    /\ BoundsInv
    /\ EncodedDecodes
---------------------------------------------------------------------------------
(* Whole frames *)

(* A quotient is determined by its remainder being in range. *)
LEMMA QuotientUnique ==
  ASSUME NEW m \in Nat \ {0}, NEW q \in Int, NEW r \in 0 .. m - 1
  PROVE  (q * m + r) \div m = q
  <1> DEFINE x == q * m + r
  <1>1. x \in Int
    OBVIOUS
  <1> HIDE DEF x
  <1>2. x = q * m + r
    BY DEF x
  <1>3. x \div m = q
    BY <1>1, <1>2
  <1> QED
    BY <1>3 DEF x

LEMMA QuotientRemainder ==
  ASSUME NEW m \in Nat \ {0}, NEW x \in Nat
  PROVE  /\ x \div m \in Nat
         /\ x % m \in 0 .. m - 1
         /\ x = (x \div m) * m + (x % m)
  OBVIOUS

LEMMA Sizes ==
  /\ FrameSampleCount \in Nat \ {0} /\ FrameSampleCount <= MaxInputLength
  /\ FrameByteSize \in Nat \ {0} /\ FrameByteSize <= FrameSampleCount
  /\ MaxInputLength \in Nat /\ WordModulus = 4 * MaxInputLength
  <1>1. ASSUME FrameSampleCount > MaxInputLength PROVE FALSE
    <2>1. MaxInputLength % FrameSampleCount = MaxInputLength
      BY <1>1, CommandsAssumption
    <2> QED
      BY <2>1, CommandsAssumption
  <1> QED
    BY <1>1, CommandsAssumption

(* Filling the last frame adds less than a frame. *)
LEMMA WholeBounds ==
  ASSUME NEW n \in Nat
  PROVE  /\ FrameCount(n) \in Nat /\ Whole(n) \in Nat
         /\ n <= Whole(n) /\ Whole(n) <= n + FrameSampleCount - 1
  <1> DEFINE x == n + FrameSampleCount - 1
  <1>1. x \in Nat
    BY Sizes
  <1>2. /\ x \div FrameSampleCount \in Nat
        /\ x % FrameSampleCount \in 0 .. FrameSampleCount - 1
        /\ x = (x \div FrameSampleCount) * FrameSampleCount + (x % FrameSampleCount)
    BY <1>1, Sizes, QuotientRemainder
  <1> DEFINE p == (x \div FrameSampleCount) * FrameSampleCount
             r == x % FrameSampleCount
  <1>3. p \in Nat /\ r \in 0 .. FrameSampleCount - 1 /\ x = p + r
    BY <1>2, Sizes
  <1>4. p = Whole(n)
    BY DEF Whole, FrameCount
  <1>5. FrameCount(n) \in Nat
    BY <1>2 DEF FrameCount
  <1> HIDE DEF p, r
  <1> QED
    BY <1>3, <1>4, <1>5, Sizes

(* What is whole frames has no frame to fill. *)
LEMMA WholeAgain ==
  ASSUME NEW n \in Nat
  PROVE  /\ Whole(n) \div FrameSampleCount = FrameCount(n)
         /\ Whole(n) % FrameSampleCount = 0
         /\ FrameCount(Whole(n)) = FrameCount(n)
         /\ Whole(Whole(n)) = Whole(n)
  <1> DEFINE q == FrameCount(n)
  <1>1. q \in Nat /\ Whole(n) = q * FrameSampleCount /\ Whole(n) \in Nat
    BY WholeBounds DEF Whole
  <1> HIDE DEF q
  <1>2. (q * FrameSampleCount + 0) \div FrameSampleCount = q
    <2>1. 0 \in 0 .. FrameSampleCount - 1
      BY Sizes
    <2> QED
      BY <1>1, <2>1, Sizes, QuotientUnique
  <1>3. (q * FrameSampleCount + (FrameSampleCount - 1)) \div FrameSampleCount = q
    <2>1. FrameSampleCount - 1 \in 0 .. FrameSampleCount - 1
      BY Sizes
    <2> QED
      BY <1>1, <2>1, Sizes, QuotientUnique
  <1>4. Whole(n) \div FrameSampleCount = q
    BY <1>1, <1>2, Sizes
  <1>5. Whole(n) = (Whole(n) \div FrameSampleCount) * FrameSampleCount
                   + (Whole(n) % FrameSampleCount)
        /\ Whole(n) % FrameSampleCount \in 0 .. FrameSampleCount - 1
    <2>1. FrameSampleCount \in Nat \ {0} /\ Whole(n) \in Nat
      BY <1>1, Sizes
    <2> QED
      BY ONLY <2>1, QuotientRemainder, Zenon
  <1>6. Whole(n) % FrameSampleCount = 0
    BY <1>1, <1>4, <1>5, Sizes
  <1>7. FrameCount(Whole(n)) = q
    <2>1. Whole(n) + FrameSampleCount - 1 = q * FrameSampleCount + (FrameSampleCount - 1)
      BY <1>1, Sizes
    <2> QED
      BY <1>3, <2>1 DEF FrameCount
  <1> QED
    BY <1>4, <1>6, <1>7 DEF q, Whole

(* A file that is not beyond the limit twice over is padded without a wrap. *)
LEMMA AlignWhole ==
  ASSUME NEW n \in Nat, n < 2 * MaxInputLength
  PROVE  Align(n) = Whole(n) /\ Whole(n) < WordModulus
  <1> DEFINE x == n + FrameSampleCount - 1
  <1>1. x \in 0 .. WordModulus - 1 /\ x \in Nat /\ WordModulus \in Nat \ {0}
    BY Sizes
  <1>2. x % WordModulus = x
    BY <1>1
  <1>3. /\ x \div FrameSampleCount \in Nat /\ x % FrameSampleCount \in Int
        /\ x = (x \div FrameSampleCount) * FrameSampleCount + (x % FrameSampleCount)
    BY <1>1, Sizes, QuotientRemainder
  <1> DEFINE p == (x \div FrameSampleCount) * FrameSampleCount
             r == x % FrameSampleCount
  <1>4. p \in Int /\ r \in Int /\ x = p + r
    BY <1>3, Sizes
  <1>5. p = Whole(n) /\ Align(n) = x - r
    BY <1>2 DEF Whole, FrameCount, Align
  <1>6. x - r = p
    <2> HIDE DEF p, r, x
    <2> QED
      BY <1>1, <1>4
  <1>7. Whole(n) < WordModulus
    BY WholeBounds, Sizes
  <1> QED
    BY <1>5, <1>6, <1>7

---------------------------------------------------------------------------------
(* Samples *)

LEMMA FunctionIsSequence ==
  ASSUME NEW n \in Nat, NEW S, NEW s \in [1 .. n -> S]
  PROVE  s \in Seq(S) /\ Len(s) = n /\ DOMAIN s = 1 .. n
  <1>1. s \in Seq(S)
    BY SeqDef
  <1>2. DOMAIN s = 1 .. n /\ DOMAIN s = 1 .. Len(s) /\ Len(s) \in Nat
    BY <1>1, LenProperties
  <1> QED
    BY <1>1, <1>2

LEMMA SwappedSamples ==
  ASSUME NEW s \in Seq(Int), NEW order
  PROVE  /\ Swapped(s, order) \in Seq(Int)
         /\ Len(Swapped(s, order)) = Len(s)
         /\ \A i \in 1 .. Len(s) :
               Swapped(s, order)[i] = IF order = HostOrder THEN s[i] ELSE -s[i]
  <1>1. DOMAIN s = 1 .. Len(s) /\ Len(s) \in Nat /\ \A i \in 1 .. Len(s) : s[i] \in Int
    BY LenProperties, ElementOfSeq
  <1>2. CASE order = HostOrder
    BY <1>2 DEF Swapped
  <1>3. CASE order # HostOrder
    <2>1. Swapped(s, order) = [i \in 1 .. Len(s) |-> -s[i]]
      BY <1>1, <1>3 DEF Swapped
    <2>2. Swapped(s, order) \in [1 .. Len(s) -> Int]
      BY <1>1, <2>1
    <2> QED
      BY <1>1, <1>3, <2>1, <2>2, FunctionIsSequence
  <1> QED
    BY <1>2, <1>3

(* Swapping the bytes twice puts them back. *)
LEMMA SwappedTwice ==
  ASSUME NEW s \in Seq(Int), NEW order, NEW i \in 1 .. Len(s)
  PROVE  Swapped(Swapped(s, order), order)[i] = s[i]
  <1>1. s[i] \in Int
    BY ElementOfSeq
  <1>2. Swapped(s, order) \in Seq(Int) /\ Len(Swapped(s, order)) = Len(s)
    BY SwappedSamples
  <1> DEFINE t == Swapped(s, order)
  <1>3. t[i] = IF order = HostOrder THEN s[i] ELSE -s[i]
    BY SwappedSamples
  <1>4. Swapped(t, order)[i] = IF order = HostOrder THEN t[i] ELSE -t[i]
    BY <1>2, SwappedSamples
  <1> HIDE DEF t
  <1>5. Swapped(t, order)[i] = s[i]
    BY <1>1, <1>3, <1>4
  <1> QED
    BY <1>5 DEF t

(* A file of a user is one. *)
LEMMA UserFile ==
  ASSUME NEW f, IsUserFile(f)
  PROVE  FileInv(f)
  <1>1. f.size \div 2 \in Nat /\ f.length \in Nat /\ f.length = Count(f)
    BY Sizes DEF IsUserFile, Count
  <1>2. FileTypes(f)
    <2>1. Len(f.audio) \in Nat
      BY LenProperties DEF IsUserFile
    <2> QED
      BY <1>1, <2>1 DEF IsUserFile, FileTypes
  <1>3. FileSamples(f)
    BY <1>1 DEF IsUserFile, FileSamples, Position
  <1> QED
    BY <1>2, <1>3 DEF FileInv, IsUserFile

LEMMA NoSound == FileInv(Absent) /\ FileInv(Partial)
  BY DEF FileInv, IsSound, Absent, Partial
---------------------------------------------------------------------------------
(* The beginning and the end of a command *)

LEMMA InitInv == Init => IInv
  <1> SUFFICES ASSUME Init PROVE IInv
    OBVIOUS
  <1>1. \A n \in Names : FileInv(files[n])
    <2>1. PICK n \in Names, f \in UserFiles :
             files = [m \in Names |-> IF m = n THEN f ELSE Absent]
      BY DEF Init
    <2>2. FileInv(f)
      BY UserFilesAssumption, UserFile, NoSound
    <2>3. ASSUME NEW m \in Names PROVE FileInv(files[m])
      <3>1. files[m] = f \/ files[m] = Absent
        BY <2>1
      <3> QED
        BY <2>2, <3>1, NoSound
    <2> QED
      BY <2>3
  <1>2. TypeOK
    <2>1. 0 % FrameSampleCount = 0
      BY Sizes
    <2>2. MaxCommands \in Nat /\ DOMAIN files = Names
      BY CommandsAssumption DEF Init
    <2> QED
      BY <2>1, <2>2 DEF Init, TypeOK
  <1> QED
    BY <1>1, <1>2 DEF Init, IInv, CommandTypes, CommandFormats, StepInv, BoundsInv,
       AccessesInBounds, EncodedDecodes

(* A new process has what the files left, and nothing in memory. *)
LEMMA StartInv ==
  ASSUME IInv, Usage \/ StartEncode \/ StartDecode
  PROVE  IInv'
  <1>1. NewProcess
    BY DEF Usage, StartEncode, StartDecode
  <1>2. TypeOK'
    <2>1. 0 % FrameSampleCount = 0 /\ MaxCommands \in Nat
      BY Sizes, CommandsAssumption
    <2>2. runs' \in 0 .. MaxCommands /\ DOMAIN files' = Names /\ inBounds' = TRUE
      BY <1>1, <2>1 DEF NewProcess, IInv, TypeOK
    <2>3. meta' = [original |-> 0, padded |-> 0] /\ heap' = {}
      BY <1>1 DEF NewProcess
    <2>4. pc' \in {"shell", "formats"} /\ result' \in {"none", "help", "usage"}
      BY DEF Usage, StartEncode, StartDecode, End
    <2> QED
      BY <2>1, <2>2, <2>3, <2>4 DEF TypeOK
  <1>3. /\ pc' \in {"shell", "formats"} /\ (pc' = "formats" => result' = "none" /\ cmd'.name # "none")
        /\ cmd'.name \in {"none", "encode", "decode"}
        /\ cmd'.name # "none" => cmd'.input \in Names /\ cmd'.output \in Names
        /\ cmd'.name = "encode" /\ pc' # "shell" => cmd'.predictor_count \in 1 .. MaxPredictorCount
        /\ cmd'.name = "decode" => result' = "none"
    BY DEF Usage, StartEncode, StartDecode, End, Encode, Decode
  <1>4. files' = files /\ inBounds' = TRUE
    BY <1>1 DEF NewProcess
  <1> QED
    BY <1>2, <1>3, <1>4 DEF IInv, CommandTypes, CommandFormats, StepInv, BoundsInv,
       AccessesInBounds, EncodedDecodes

(* A command that ends, with files that are what they should be. *)
LEMMA EndInv ==
  ASSUME IInv, pc # "shell", NEW r \in {"format", "io", "content", "memory", "codec", "crash", "ok"},
         End(r), UNCHANGED <<runs, cmd, meta>>, inBounds' \in BOOLEAN, AccessesInBounds',
         heap' \subseteq {"input", "vectors", "audio", "coded"},
         DOMAIN files' = Names, \A n \in Names : FileInv(files'[n]),
         r \in {"content", "codec"} => EncodedDecodes'
  PROVE  IInv'
  <1>1. pc' = "shell" /\ result' = r
    BY DEF End
  <1>2. TypeOK'
    BY <1>1 DEF IInv, TypeOK
  <1>3. CommandTypes'
    BY <1>1 DEF IInv, CommandTypes
  <1>4. EncodedDecodes'
    BY <1>1 DEF EncodedDecodes
  <1> QED
    BY <1>1, <1>2, <1>3, <1>4 DEF IInv, CommandFormats, StepInv, BoundsInv

(* The same, if the files are as they were. *)
LEMMA LeaveInv ==
  ASSUME IInv, pc # "shell", NEW r \in {"format", "io", "content", "memory", "codec", "crash", "ok"},
         End(r), UNCHANGED <<runs, cmd, meta, coded, files, inBounds>>, heap' \subseteq heap,
         r \in {"content", "codec"} => EncodedDecodes'
  PROVE  IInv'
  <1>1. /\ inBounds' \in BOOLEAN /\ heap' \subseteq {"input", "vectors", "audio", "coded"}
        /\ DOMAIN files' = Names /\ \A n \in Names : FileInv(files'[n])
    BY DEF IInv, TypeOK
  <1>2. AccessesInBounds'
    BY DEF IInv, BoundsInv, AccessesInBounds, TooManyPredictors, NoVector
  <1> QED
    BY <1>1, <1>2, EndInv

LEMMA StopInv ==
  ASSUME IInv, OpenFails \/ OutOfMemory
  PROVE  IInv'
  <1>1. pc # "shell" /\ UNCHANGED <<runs, cmd, meta, coded, files, inBounds, heap>>
    BY DEF OpenFails, OutOfMemory, memory
  <1>2. End("io") \/ End("memory")
    BY DEF OpenFails, OutOfMemory
  <1> QED
    BY <1>1, <1>2, LeaveInv

(* One of the two accesses out of bounds ends the process. *)
LEMMA CrashInv ==
  ASSUME IInv, pc = "code", TooManyPredictors \/ NoVector, End("crash"), inBounds' = FALSE,
         UNCHANGED <<files, runs, cmd, meta, coded, heap>>
  PROVE  IInv'
  <1>1. AccessesInBounds'
    BY DEF AccessesInBounds, TooManyPredictors, NoVector
  <1>2. /\ heap' \subseteq {"input", "vectors", "audio", "coded"}
        /\ DOMAIN files' = Names /\ \A n \in Names : FileInv(files'[n])
    BY DEF IInv, TypeOK
  <1> QED
    BY <1>1, <1>2, EndInv

LEMMA EncodeFailsInv ==
  ASSUME IInv, EncodeFails
  PROVE  IInv'
  <1>1. pc = "code" /\ UNCHANGED <<files, runs, cmd, meta, coded, heap>>
    BY DEF EncodeFails
  <1>2. CASE End("memory") /\ UNCHANGED inBounds
    BY <1>1, <1>2, LeaveInv
  <1>3. CASE TooManyPredictors /\ End("crash") /\ inBounds' = FALSE
    BY <1>1, <1>3, CrashInv
  <1> QED
    BY <1>2, <1>3 DEF EncodeFails

LEMMA DecodeCrashesInv ==
  ASSUME IInv, DecodeCrashes
  PROVE  IInv'
  BY CrashInv DEF DecodeCrashes

(* The input of a command that has one is a file. *)
LEMMA InputInv ==
  ASSUME IInv, pc \in {"open", "parse", "check", "code", "write"}
  PROVE  /\ cmd.input \in Names /\ cmd.output \in Names /\ FileInv(Input)
         /\ cmd.name \in {"encode", "decode"} /\ FormatsGood
         /\ Extension[cmd.output] \in {"AIFF", "AIFC", "WAVE"}
         /\ cmd.name = "encode" => cmd.predictor_count \in 1 .. MaxPredictorCount
  <1>1. /\ cmd.name \in {"encode", "decode"} /\ cmd.input \in Names /\ cmd.output \in Names
        /\ FormatsGood /\ (cmd.name = "encode" => cmd.predictor_count \in 1 .. MaxPredictorCount)
    BY DEF IInv, CommandTypes, CommandFormats
  <1>2. Extension[cmd.output] \in Formats
    BY <1>1, CommandsAssumption
  <1> QED
    BY <1>1, <1>2 DEF IInv, Input, FormatsGood, Formats

LEMMA FormatsInv ==
  ASSUME IInv, CheckFormats
  PROVE  IInv'
  <1>1. pc = "formats" /\ UNCHANGED <<files, runs, cmd, meta, coded, heap, inBounds>>
    BY DEF CheckFormats, memory
  <1>2. CASE FormatsGood
    <2>1. pc' = "open" /\ result' = result
      BY <1>2 DEF CheckFormats
    <2>2. TypeOK'
      BY <1>1, <2>1 DEF IInv, TypeOK
    <2>3. FormatsGood'
      BY <1>1, <1>2 DEF FormatsGood
    <2>4. CommandTypes' /\ CommandFormats' /\ StepInv'
      BY <1>1, <2>1, <2>3 DEF IInv, CommandTypes, CommandFormats, StepInv
    <2>5. EncodedDecodes'
      BY <1>1, <2>1 DEF IInv, EncodedDecodes
    <2>6. BoundsInv'
      BY <1>1, <2>1 DEF IInv, BoundsInv, AccessesInBounds
    <2> QED
      BY <1>1, <2>1, <2>2, <2>4, <2>5, <2>6 DEF IInv
  <1>3. CASE ~FormatsGood
    BY <1>1, <1>3, LeaveInv DEF CheckFormats
  <1> QED
    BY <1>2, <1>3

LEMMA OpenInv ==
  ASSUME IInv, OpenInput
  PROVE  IInv'
  <1>1. /\ pc = "open" /\ pc' = "parse" /\ heap' = heap \cup {"input"}
        /\ UNCHANGED <<files, runs, cmd, result, meta, inBounds>>
    BY DEF OpenInput
  <1>2. TypeOK'
    BY <1>1 DEF IInv, TypeOK
  <1>3. CommandTypes' /\ CommandFormats'
    BY <1>1 DEF IInv, CommandTypes, CommandFormats, FormatsGood
  <1> QED
    BY <1>1, <1>2, <1>3 DEF IInv, StepInv, BoundsInv, AccessesInBounds, EncodedDecodes

LEMMA ParseInv ==
  ASSUME IInv, ParseInput
  PROVE  IInv'
  <1>1. /\ pc = "parse" /\ pc' = "check" /\ Input.kind \in Reader
        /\ UNCHANGED <<files, runs, cmd, result, meta, inBounds>>
        /\ heap' = IF Input.kind # "WAVE" /\ Input.order * Input.predictor_count > 0
                   THEN heap \cup {"vectors"} ELSE heap
    BY DEF ParseInput
  <1>2. TypeOK'
    BY <1>1 DEF IInv, TypeOK
  <1>3. CommandTypes' /\ CommandFormats'
    BY <1>1 DEF IInv, CommandTypes, CommandFormats, FormatsGood
  <1>4. Input' = Input /\ Reader' = Reader
    BY <1>1 DEF Input, Reader
  <1>5. StepInv'
    BY <1>1, <1>4 DEF IInv, StepInv
  <1> QED
    BY <1>1, <1>2, <1>3, <1>5 DEF IInv, BoundsInv, AccessesInBounds, EncodedDecodes

LEMMA ParseFailsInv ==
  ASSUME IInv, ParseFails
  PROVE  IInv'
  <1>1. /\ pc = "parse" /\ Input.kind \notin Reader /\ End("content") /\ heap' \subseteq heap
        /\ UNCHANGED <<files, runs, cmd, meta, coded, inBounds>>
    BY DEF ParseFails
  <1>2. EncodedDecodes'
    BY <1>1 DEF EncodedDecodes, Reader, Input
  <1> QED
    BY <1>1, <1>2, LeaveInv

(* vadpcm decode refuses none of what vadpcm encode wrote, but what is too long. *)
LEMMA RejectInv ==
  ASSUME IInv, RejectInput
  PROVE  IInv'
  <1>1. /\ pc = "check" /\ ~Accepted /\ End("content") /\ heap' \subseteq heap
        /\ UNCHANGED <<files, runs, cmd, meta, coded, inBounds>>
    BY DEF RejectInput
  <1>2. FileInv(Input) /\ Input.kind \in Reader
    BY <1>1, InputInv DEF IInv, StepInv
  <1>3. ASSUME cmd.name = "decode", Input.kind = "AIFC", Input.by = "encode"
        PROVE  Input.frames > MaxInputLength
    <2>1. EncodeWrote(Input)
      BY <1>2, <1>3 DEF FileInv, IsSound
    <2>2. ~AcceptedVADPCM(Input)
      BY <1>1, <1>3 DEF Accepted
    <2> QED
      BY <2>1, <2>2 DEF AcceptedVADPCM, EncodeWrote, TooLong
  <1>4. EncodedDecodes'
    BY <1>1, <1>3 DEF EncodedDecodes, Input
  <1> QED
    BY <1>1, <1>4, LeaveInv

LEMMA DecodeFailsInv ==
  ASSUME IInv, DecodeFails
  PROVE  IInv'
  <1>1. /\ pc = "code" /\ cmd.name = "decode" /\ coded.last >= coded.predictor_count
        /\ End("codec") /\ UNCHANGED <<files, runs, cmd, meta, coded, heap, inBounds>>
    BY DEF DecodeFails, memory
  <1>2. /\ Input.by = "encode" => coded.last < coded.predictor_count
        /\ coded.predictor_count \in Nat /\ coded.last \in Int
    BY <1>1 DEF IInv, StepInv, DecodeInv
  <1>3. EncodedDecodes'
    BY <1>1, <1>2 DEF EncodedDecodes, Input
  <1> QED
    BY <1>1, <1>3, LeaveInv
---------------------------------------------------------------------------------
(* Reading the input *)

(* More than whole multiples leave a quotient at least as large. *)
LEMMA QuotientAtLeast ==
  ASSUME NEW m \in Nat \ {0}, NEW q \in Nat, NEW x \in Nat, q * m <= x
  PROVE  q <= x \div m
  <1>1. x \div m \in Nat /\ x % m \in 0 .. m - 1 /\ x = (x \div m) * m + (x % m)
    BY QuotientRemainder
  <1> DEFINE d == x \div m
             r == x % m
  <1> SUFFICES ASSUME d <= q - 1 PROVE FALSE
    BY <1>1
  <1>2. d \in Nat /\ r \in 0 .. m - 1 /\ x = d * m + r
    BY <1>1
  <1> HIDE DEF d, r
  <1>3. q - 1 - d \in Nat
    BY <1>2
  <1>4. (q - 1 - d) * m >= 0
    BY <1>3
  <1>5. (q - 1 - d) * m = q * m - m - d * m
    BY <1>2
  <1> QED
    BY <1>2, <1>4, <1>5

LEMMA PadSamples ==
  ASSUME NEW s \in Seq(Int), NEW n \in Nat
  PROVE  /\ PadTo(s, n) \in Seq(Int) /\ Len(PadTo(s, n)) = n
         /\ \A i \in 1 .. n : PadTo(s, n)[i] = IF i <= Len(s) THEN s[i] ELSE 0
  <1>1. \A i \in 1 .. n : i <= Len(s) => s[i] \in Int
    BY ElementOfSeq, LenProperties
  <1>2. PadTo(s, n) \in [1 .. n -> Int]
    BY <1>1 DEF PadTo
  <1> QED
    BY <1>2, FunctionIsSequence DEF PadTo

LEMMA TakenSamples ==
  ASSUME NEW f, f.audio \in Seq(Int), NEW n \in Nat, n <= Len(f.audio)
  PROVE  /\ Taken(f, n) \in Seq(Int) /\ Len(Taken(f, n)) = n
         /\ \A i \in 1 .. n : Taken(f, n)[i] = f.audio[i]
  <1>1. \A i \in 1 .. n : i <= Len(f.audio) /\ f.audio[i] \in Int
    BY ElementOfSeq, LenProperties
  <1>2. Taken(f, n) \in [1 .. n -> Int]
    BY <1>1 DEF Taken
  <1> QED
    BY <1>1, <1>2, FunctionIsSequence DEF Taken

LEMMA CountProperties ==
  ASSUME NEW f, FileInv(f), IsSound(f)
  PROVE  /\ Count(f) \in Nat /\ f.length \in Nat /\ f.length <= Count(f)
         /\ Whole(Count(f)) = Whole(f.length)
  <1>1. FileTypes(f) /\ FileSamples(f)
    BY DEF FileInv
  <1>2. f.length \in Nat /\ (Count(f) = f.length \/ Count(f) = Whole(f.length))
    BY <1>1 DEF FileTypes, FileSamples
  <1> QED
    BY <1>2, WholeBounds, WholeAgain

(* PCM that is as long as its file says is in the host's order when it is read. *)
LEMMA ReadSamples ==
  ASSUME NEW f, FileInv(f), IsSound(f), f.codec = "PCM", Count(f) * 2 <= f.size,
         NEW s, s = Swapped(Taken(f, Count(f)), OrderOf(f.kind))
  PROVE  /\ s \in Seq(Int) /\ Len(s) = Count(f)
         /\ \A i \in 1 .. Count(f) : s[i] = Position(i, f.length)
  <1>1. /\ f.audio \in Seq(Int) /\ f.size \in Nat /\ Len(f.audio) >= f.size \div 2
        /\ \A i \in 1 .. Len(f.audio) : i <= Count(f) => InOrder(f)[i] = Position(i, f.length)
    BY Sizes DEF FileInv, FileTypes, FileSamples
  <1>2. Count(f) \in Nat /\ Len(f.audio) \in Nat
    BY <1>1, CountProperties, LenProperties
  <1>3. Count(f) <= Len(f.audio)
    BY <1>1, <1>2
  <1> DEFINE t == Taken(f, Count(f))
             o == OrderOf(f.kind)
  <1>4. t \in Seq(Int) /\ Len(t) = Count(f) /\ \A i \in 1 .. Count(f) : t[i] = f.audio[i]
    BY <1>1, <1>2, <1>3, TakenSamples
  <1>5. InOrder(f) = Swapped(f.audio, o)
    BY DEF InOrder
  <1>6. s = Swapped(t, o)
    OBVIOUS
  <1> HIDE DEF t, o
  <1>7. /\ s \in Seq(Int) /\ Len(s) = Count(f)
        /\ \A i \in 1 .. Count(f) : s[i] = IF o = HostOrder THEN t[i] ELSE -t[i]
    BY <1>4, <1>6, SwappedSamples
  <1>8. \A i \in 1 .. Len(f.audio) :
           InOrder(f)[i] = IF o = HostOrder THEN f.audio[i] ELSE -f.audio[i]
    BY <1>1, <1>5, SwappedSamples
  <1>9. ASSUME NEW i \in 1 .. Count(f)
        PROVE  s[i] = Position(i, f.length)
    <2>1. i \in 1 .. Len(f.audio) /\ i <= Count(f)
      BY <1>2, <1>3
    <2>2. InOrder(f)[i] = s[i]
      BY <1>4, <1>7, <1>8, <2>1
    <2> QED
      BY <1>1, <2>1, <2>2
  <1> QED
    BY <1>7, <1>9

(* The input that was accepted, to be encoded. *)
LEMMA AcceptedPCM ==
  ASSUME IInv, pc = "check", Accepted, cmd.name = "encode"
  PROVE  /\ IsSound(Input) /\ Input.codec = "PCM" /\ Count(Input) * 2 <= Input.size
         /\ Count(Input) < 2 * MaxInputLength
         /\ Count(Input) = IF Reader = {"WAVE"} THEN Input.size \div 2 ELSE Input.frames
  <1>1. FileInv(Input) /\ Input.kind \in Reader
    BY InputInv DEF IInv, StepInv
  <1>2. {"WAVE"} # {"AIFF", "AIFC"}
    <2>1. "WAVE" \notin {"AIFF", "AIFC"}
      OBVIOUS
    <2> QED
      BY <2>1
  <1>3. IsSound(Input) /\ (Reader = {"WAVE"} <=> Input.kind = "WAVE")
    BY <1>1, <1>2 DEF Reader, IsSound
  <1>4. Input.size \in 0 .. WordModulus - 1 /\ Input.size \in Nat /\ Input.frames \in Nat
    BY <1>1, <1>3, Sizes DEF FileInv, FileTypes
  <1>5. CASE Reader = {"WAVE"}
    BY <1>3, <1>4, <1>5, Sizes DEF Accepted, AcceptedWAVE, Count
  <1>6. CASE Reader # {"WAVE"}
    <2>1. AcceptedAIFF(Input) /\ Count(Input) = Input.frames
      BY <1>3, <1>6 DEF Accepted, Count
    <2>2. Input.frames <= MaxInputLength /\ (Input.frames * 2) % WordModulus <= Input.size
      BY <1>4, <2>1, Sizes DEF AcceptedAIFF, TooLong
    <2>3. (Input.frames * 2) % WordModulus = Input.frames * 2
      <3>1. Input.frames * 2 \in 0 .. WordModulus - 1
        BY <1>4, <2>2, Sizes, CommandsAssumption
      <3> QED
        BY <3>1, Sizes
    <2> QED
      BY <1>3, <1>4, <1>6, <2>1, <2>2, <2>3, Sizes, CommandsAssumption DEF AcceptedAIFF
  <1> QED
    BY <1>5, <1>6

(* With the input in memory the command goes on to the codec. *)
LEMMA LoadedInv ==
  ASSUME IInv, pc = "check", pc' = "code", UNCHANGED <<files, runs, cmd, result>>,
         inBounds' = TRUE, heap' \subseteq {"input", "vectors", "audio", "coded"},
         IsSound(Input), Count(Input) \in Nat, Whole(Count(Input)) < WordModulus,
         meta' = [original |-> Count(Input), padded |-> Whole(Count(Input))],
         EncodeInv' /\ DecodeInv'
  PROVE  IInv'
  <1>1. Input' = Input
    BY DEF Input
  <1>2. /\ meta' \in [original : Nat, padded : Nat] /\ meta'.padded % FrameSampleCount = 0
    BY WholeBounds, WholeAgain
  <1>3. TypeOK'
    BY <1>2 DEF IInv, TypeOK
  <1>4. Measured'
    BY <1>1 DEF Measured
  <1>5. CommandTypes' /\ CommandFormats'
    BY DEF IInv, CommandTypes, CommandFormats, FormatsGood
  <1>6. StepInv'
    BY <1>4 DEF IInv, StepInv
  <1> QED
    BY <1>3, <1>5, <1>6 DEF IInv, BoundsInv, AccessesInBounds, EncodedDecodes

LEMMA LoadPCMInv ==
  ASSUME IInv, LoadPCM
  PROVE  IInv'
  <1>1. /\ pc = "check" /\ Accepted /\ cmd.name = "encode" /\ pc' = "code"
        /\ UNCHANGED <<files, runs, cmd, result>>
    BY DEF LoadPCM
  <1>2. /\ IsSound(Input) /\ Input.codec = "PCM" /\ Count(Input) * 2 <= Input.size
        /\ Count(Input) < 2 * MaxInputLength
        /\ Count(Input) = IF Reader = {"WAVE"} THEN Input.size \div 2 ELSE Input.frames
    BY <1>1, AcceptedPCM
  <1>3. FileInv(Input) /\ "input" \in heap
    BY <1>1, InputInv DEF IInv, StepInv
  <1>4. /\ Count(Input) \in Nat /\ Input.length \in Nat /\ Input.length <= Count(Input)
    BY <1>2, <1>3, CountProperties
  <1>5. Align(Count(Input)) = Whole(Count(Input)) /\ Whole(Count(Input)) < WordModulus
    BY <1>2, <1>4, AlignWhole
  <1>6. Whole(Count(Input)) \in Nat /\ Count(Input) <= Whole(Count(Input))
    BY <1>4, WholeBounds
  <1> DEFINE s == Swapped(Taken(Input, Count(Input)), OrderOf(Input.kind))
  <1>7. /\ meta' = [original |-> Count(Input), padded |-> Whole(Count(Input))]
        /\ samples' = PadTo(s, Whole(Count(Input)))
        /\ heap' = (heap \cup {"audio"}) \ {"input"}
        /\ inBounds' = (inBounds /\ "input" \in heap
                         /\ Count(Input) * 2 <= Input.size /\ Count(Input) <= Whole(Count(Input)))
    BY <1>2, <1>5 DEF LoadPCM
  <1>8. /\ s \in Seq(Int) /\ Len(s) = Count(Input)
        /\ \A i \in 1 .. Count(Input) : s[i] = Position(i, Input.length)
    BY <1>2, <1>3, ReadSamples
  <1> HIDE DEF s
  <1>9. /\ samples' \in Seq(Int) /\ Len(samples') = Whole(Count(Input))
        /\ \A i \in 1 .. Whole(Count(Input)) : samples'[i] = Position(i, Input.length)
    <2>1. /\ samples' \in Seq(Int) /\ Len(samples') = Whole(Count(Input))
          /\ \A i \in 1 .. Whole(Count(Input)) :
                samples'[i] = IF i <= Count(Input) THEN s[i] ELSE 0
      BY <1>6, <1>7, <1>8, PadSamples
    <2>2. ASSUME NEW i \in 1 .. Whole(Count(Input))
          PROVE  samples'[i] = Position(i, Input.length)
      <3>1. CASE i <= Count(Input)
        <4>1. i \in 1 .. Count(Input)
          BY <1>4, <1>6, <3>1
        <4> QED
          BY <1>8, <2>1, <3>1, <4>1
      <3>2. CASE ~(i <= Count(Input))
        BY <1>4, <1>6, <2>1, <3>2 DEF Position
      <3> QED
        BY <3>1, <3>2
    <2> QED
      BY <2>1, <2>2
  <1>10. EncodeInv' /\ DecodeInv'
    <2>1. Input' = Input /\ cmd' = cmd
      BY <1>1 DEF Input
    <2>2. /\ meta'.original = Count(Input) /\ meta'.padded = Whole(Count(Input))
          /\ "audio" \in heap'
      BY <1>7
    <2>3. InMemory(samples)'
      BY <1>4, <1>6, <1>9, <2>1, <2>2 DEF InMemory
    <2> QED
      BY <1>1, <1>9, <2>1, <2>2, <2>3 DEF EncodeInv, DecodeInv
  <1>11. inBounds' = TRUE
    BY <1>1, <1>2, <1>3, <1>6, <1>7 DEF IInv, BoundsInv
  <1>12. heap' \subseteq {"input", "vectors", "audio", "coded"}
    BY <1>7 DEF IInv, TypeOK
  <1> QED
    BY <1>1, <1>2, <1>4, <1>5, <1>7, <1>10, <1>11, <1>12, LoadedInv

LEMMA LoadVADPCMInv ==
  ASSUME IInv, LoadVADPCM
  PROVE  IInv'
  <1>1. /\ pc = "check" /\ AcceptedVADPCM(Input) /\ cmd.name = "decode" /\ pc' = "code"
        /\ UNCHANGED <<files, runs, cmd, result>>
    BY DEF LoadVADPCM, Accepted
  <1>2. /\ FileInv(Input) /\ "input" \in heap /\ Input.kind \in {"AIFF", "AIFC"}
        /\ Input.order * Input.predictor_count > 0 => "vectors" \in heap
    BY <1>1, InputInv DEF IInv, StepInv, Reader
  <1>3. IsSound(Input) /\ Count(Input) = Input.frames
    BY <1>2 DEF IsSound, Count
  <1> DEFINE n == Input.frames
             bytes == FrameCount(n) * FrameByteSize
  <1>4. /\ n \in Nat /\ n <= MaxInputLength /\ bytes <= Input.size /\ Input.codec = "VADPCM"
        /\ Input.size \in Nat
    BY <1>1, <1>2, <1>3, Sizes DEF FileInv, FileTypes, AcceptedVADPCM, TooLong
  <1>5. FrameCount(n) \in Nat /\ Whole(n) \in Nat /\ n <= Whole(n) /\ Whole(n) < WordModulus
    BY <1>4, WholeBounds, AlignWhole, Sizes
  <1>6. /\ meta' = [original |-> n, padded |-> Whole(n)]
        /\ coded' = [samples |-> Taken(Input, Whole(n)), size |-> bytes,
                     last |-> IF Whole(n) = 0 THEN -1 ELSE Input.last,
                     order |-> Input.order, predictor_count |-> Input.predictor_count]
        /\ heap' = (heap \cup {"coded"}) \ {"input"}
        /\ inBounds' = (inBounds /\ "input" \in heap /\ bytes <= Input.size)
    BY DEF LoadVADPCM, Whole
  <1>7. /\ Input.audio \in Seq(Int) /\ Len(Input.audio) \in Nat
        /\ Len(Input.audio) >= (Input.size \div FrameByteSize) * FrameSampleCount
        /\ \A i \in 1 .. Len(Input.audio) : i <= n => Input.audio[i] = Position(i, Input.length)
    BY <1>2, <1>3, <1>4, LenProperties DEF FileInv, FileTypes, FileSamples, InOrder
  <1>8. Whole(n) <= Len(Input.audio)
    <2>1. FrameCount(n) <= Input.size \div FrameByteSize /\ Input.size \div FrameByteSize \in Nat
      BY <1>4, <1>5, Sizes, QuotientAtLeast
    <2> DEFINE d == Input.size \div FrameByteSize
               q == FrameCount(n)
    <2>2. d - q \in Nat /\ d \in Nat /\ q \in Nat
      BY <1>5, <2>1
    <2>3. Whole(n) = q * FrameSampleCount /\ Len(Input.audio) >= d * FrameSampleCount
      BY <1>7 DEF Whole
    <2> HIDE DEF d, q
    <2>4. (d - q) * FrameSampleCount >= 0
      BY <2>2, Sizes
    <2>5. (d - q) * FrameSampleCount = d * FrameSampleCount - q * FrameSampleCount
      BY <2>2, Sizes
    <2>6. d * FrameSampleCount \in Int /\ q * FrameSampleCount \in Int
      BY <2>2, Sizes
    <2> QED
      BY <1>7, <2>3, <2>4, <2>5, <2>6
  <1> DEFINE t == Taken(Input, Whole(n))
  <1>9. t \in Seq(Int) /\ Len(t) = Whole(n) /\ \A i \in 1 .. Whole(n) : t[i] = Input.audio[i]
    BY <1>5, <1>7, <1>8, TakenSamples
  <1>10. \A i \in 1 .. n : t[i] = Position(i, Input.length)
    <2>1. ASSUME NEW i \in 1 .. n PROVE i \in 1 .. Whole(n) /\ i \in 1 .. Len(Input.audio) /\ i <= n
      BY <1>4, <1>5, <1>7, <1>8
    <2> QED
      BY <1>7, <1>9, <2>1
  <1>11. coded'.samples = t /\ coded'.size = bytes
         /\ coded'.last = (IF Whole(n) = 0 THEN -1 ELSE Input.last)
         /\ coded'.order = Input.order /\ coded'.predictor_count = Input.predictor_count
    BY <1>6
  <1> HIDE DEF t
  <1>12. EncodeInv' /\ DecodeInv'
    <2>1. Input' = Input /\ cmd' = cmd
      BY <1>1 DEF Input
    <2>2. meta'.original = n /\ meta'.padded = Whole(n) /\ "coded" \in heap'
      BY <1>6
    <2>3. InMemory(coded.samples)'
      BY <1>9, <1>10, <1>11, <2>1, <2>2 DEF InMemory
    <2>4. Input.by = "encode" => Input.last < Input.predictor_count
      BY <1>2, <1>3 DEF FileInv, EncodeWrote
    <2>5. Input.order \in Nat /\ Input.predictor_count \in Nat /\ Input.last \in Int
      BY <1>2, <1>3 DEF FileInv, FileTypes
    <2>6. coded'.last \in Int /\ (Input.by = "encode" => coded'.last < coded'.predictor_count)
      BY <1>11, <2>4, <2>5
    <2>7. coded'.order * coded'.predictor_count > 0 => "vectors" \in heap'
      BY <1>2, <1>6, <1>11
    <2> QED
      BY <1>1, <1>4, <1>11, <2>1, <2>2, <2>3, <2>5, <2>6, <2>7 DEF EncodeInv, DecodeInv
  <1>13. inBounds' = TRUE
    BY <1>1, <1>2, <1>4, <1>6 DEF IInv, BoundsInv
  <1>14. heap' \subseteq {"input", "vectors", "audio", "coded"}
    BY <1>6 DEF IInv, TypeOK
  <1> QED
    BY <1>1, <1>3, <1>4, <1>5, <1>6, <1>12, <1>13, <1>14, LoadedInv

---------------------------------------------------------------------------------
(* The codec *)

(* The codec keeps what was measured, and the command goes on to its output. *)
LEMMA CodedInv ==
  ASSUME IInv, pc = "code", pc' = "write", UNCHANGED <<files, runs, cmd, result, meta>>,
         inBounds' = ~TooManyPredictors, heap' \subseteq {"input", "vectors", "audio", "coded"},
         EncodeInv' /\ DecodeInv'
  PROVE  IInv'
  <1>1. TypeOK'
    BY DEF IInv, TypeOK
  <1>2. Measured'
    BY DEF IInv, StepInv, Measured, Input
  <1>3. CommandTypes' /\ CommandFormats'
    BY DEF IInv, CommandTypes, CommandFormats, FormatsGood
  <1>4. StepInv'
    BY <1>2 DEF IInv, StepInv
  <1>5. BoundsInv'
    BY DEF BoundsInv, AccessesInBounds, TooManyPredictors
  <1> QED
    BY <1>1, <1>3, <1>4, <1>5 DEF IInv, EncodedDecodes

LEMMA EncodeSamplesInv ==
  ASSUME IInv, EncodeSamples
  PROVE  IInv'
  <1>1. /\ pc = "code" /\ pc' = "write" /\ cmd.name = "encode" /\ heap' = heap \cup {"coded"}
        /\ UNCHANGED <<files, runs, cmd, result, meta, samples>>
        /\ inBounds' = (inBounds /\ "audio" \in heap /\ ~TooManyPredictors)
    BY DEF EncodeSamples
  <1>2. PICK last \in IF meta.padded = 0 THEN {-1} ELSE 0 .. cmd.predictor_count - 1 :
           coded' = [samples |-> samples, size |-> CodedSize(meta.padded), last |-> last,
                     order |-> EncodeOrder, predictor_count |-> cmd.predictor_count]
    BY DEF EncodeSamples
  <1>3. cmd.predictor_count \in 1 .. MaxPredictorCount /\ MaxPredictorCount \in Nat
    BY <1>1, InputInv, CommandsAssumption
  <1>4. last \in Int /\ last < cmd.predictor_count
    BY <1>2, <1>3
  <1>5. EncodeInv /\ inBounds = TRUE
    BY <1>1 DEF IInv, StepInv, BoundsInv
  <1>6. Input' = Input
    BY <1>1 DEF Input
  <1>7. InMemory(samples)'
    BY <1>1, <1>5, <1>6 DEF EncodeInv, InMemory
  <1>8. EncodeInv' /\ DecodeInv'
    BY <1>1, <1>2, <1>4, <1>5, <1>6, <1>7 DEF EncodeInv, DecodeInv, CodedSize
  <1>9. inBounds' = ~TooManyPredictors /\ heap' \subseteq {"input", "vectors", "audio", "coded"}
    <2>1. "audio" \in heap /\ heap' \subseteq {"input", "vectors", "audio", "coded"}
      BY <1>1, <1>5 DEF IInv, TypeOK, EncodeInv
    <2> QED
      BY <1>1, <1>5, <2>1, Zenon
  <1> QED
    BY <1>1, <1>8, <1>9, CodedInv

LEMMA DecodeSamplesInv ==
  ASSUME IInv, DecodeSamples
  PROVE  IInv'
  <1>1. /\ pc = "code" /\ pc' = "write" /\ cmd.name = "decode" /\ heap' = heap \cup {"audio"}
        /\ UNCHANGED <<files, runs, cmd, result, meta, coded>>
        /\ samples' = SubSeq(coded.samples, 1, meta.padded)
        /\ coded.last < coded.predictor_count /\ ~NoVector
        /\ inBounds' = (inBounds /\ "coded" \in heap
             /\ (meta.padded \div FrameSampleCount) * FrameByteSize <= coded.size
             /\ (coded.last >= 0 => "vectors" \in heap))
    BY DEF DecodeSamples
  <1>2. DecodeInv /\ Measured /\ inBounds = TRUE /\ FileInv(Input)
    BY <1>1, InputInv DEF IInv, StepInv, BoundsInv
  <1>3. samples' = coded.samples
    BY <1>1, <1>2, SubSeqFull DEF DecodeInv, InMemory
  <1>4. (meta.padded \div FrameSampleCount) * FrameByteSize = coded.size
    <2>1. meta.original \in Nat
      BY <1>2, CountProperties DEF Measured
    <2> QED
      BY <1>1, <1>2, <2>1, WholeAgain DEF DecodeInv, Measured
  <1>5. coded.size \in Int
    <2>1. meta.original \in Nat
      BY <1>2, CountProperties DEF Measured
    <2> QED
      <3>1. FrameCount(meta.original) \in Nat /\ FrameByteSize \in Nat
        BY <2>1, WholeBounds, Sizes
      <3>2. FrameCount(meta.original) * FrameByteSize \in Int
        BY <3>1
      <3> QED
        BY <1>1, <1>2, <3>2 DEF DecodeInv
  <1>6. coded.last >= 0 => "vectors" \in heap
    <2> SUFFICES ASSUME coded.last >= 0 PROVE "vectors" \in heap
      OBVIOUS
    <2>1. coded.order \in Nat /\ coded.predictor_count \in Nat /\ coded.last \in Int
      BY <1>1, <1>2 DEF DecodeInv
    <2>2. coded.predictor_count > 0
      BY <1>1, <2>1
    <2>3. coded.order > 0
      BY <1>1, <2>1 DEF NoVector
    <2>4. coded.order * coded.predictor_count > 0
      BY <2>1, <2>2, <2>3
    <2> QED
      BY <1>1, <1>2, <2>4 DEF DecodeInv
  <1>7. inBounds' = TRUE /\ heap' \subseteq {"input", "vectors", "audio", "coded"}
    <2>1. (meta.padded \div FrameSampleCount) * FrameByteSize <= coded.size
      BY <1>4, <1>5
    <2>2. "coded" \in heap
      BY <1>1, <1>2 DEF DecodeInv
    <2>3. heap' \subseteq {"input", "vectors", "audio", "coded"}
      BY <1>1 DEF IInv, TypeOK
    <2> QED
      BY <1>1, <1>2, <1>6, <2>1, <2>2, <2>3, Zenon
  <1>8. Input' = Input
    BY <1>1 DEF Input
  <1>9. InMemory(samples)'
    BY <1>1, <1>2, <1>3, <1>8 DEF DecodeInv, InMemory
  <1>10. EncodeInv' /\ DecodeInv'
    BY <1>1, <1>2, <1>8, <1>9 DEF EncodeInv, DecodeInv
  <1>11. inBounds' = ~TooManyPredictors
    BY <1>1, <1>7 DEF TooManyPredictors
  <1> QED
    BY <1>1, <1>7, <1>10, <1>11, CodedInv

---------------------------------------------------------------------------------
(* The output *)

LEMMA EncodedFileInv ==
  ASSUME IInv, pc = "write", cmd.name = "encode"
  PROVE  FileInv(EncodedFile)
  <1> DEFINE f == EncodedFile
  <1>1. /\ FileInv(Input) /\ IsSound(Input) /\ Measured /\ EncodeInv
        /\ cmd.predictor_count \in 1 .. MaxPredictorCount
    BY InputInv DEF IInv, StepInv, Measured
  <1>2. /\ f.kind = "AIFC" /\ f.codec = "VADPCM" /\ f.mono16 = TRUE /\ f.frames = meta.padded
        /\ f.size = coded.size /\ f.audio = coded.samples /\ f.last = coded.last
        /\ f.order = coded.order /\ f.predictor_count = coded.predictor_count
        /\ f.by = "encode" /\ f.length = Input.length
    BY DEF EncodedFile, Input
  <1> HIDE DEF f
  <1> DEFINE n == meta.original
             q == FrameCount(n)
  <1>3. /\ n \in Nat /\ Input.length \in Nat /\ Whole(n) = Whole(Input.length)
        /\ meta.padded = Whole(n) /\ meta.padded < WordModulus
    BY <1>1, CountProperties DEF Measured
  <1>4. /\ q \in Nat /\ Whole(n) \in Nat /\ Whole(n) \div FrameSampleCount = q
        /\ FrameCount(Whole(n)) = q /\ Whole(n) = q * FrameSampleCount
    BY <1>3, WholeBounds, WholeAgain DEF Whole
  <1>5. /\ coded.samples = samples /\ coded.size = CodedSize(meta.padded)
        /\ coded.last \in Int /\ coded.last < coded.predictor_count
        /\ coded.order = EncodeOrder /\ coded.predictor_count = cmd.predictor_count
        /\ samples \in Seq(Int) /\ Len(samples) = meta.padded
        /\ \A i \in 1 .. meta.padded : samples[i] = Position(i, Input.length)
    BY <1>1 DEF EncodeInv, InMemory
  <1>6. f.size = q * FrameByteSize
    BY <1>2, <1>3, <1>4, <1>5 DEF CodedSize
  <1> HIDE DEF q, n
  <1>7. f.size \in 0 .. WordModulus - 1 /\ f.size \div FrameByteSize = q
    <2>1. q * FrameByteSize \in Nat
      BY <1>4, Sizes
    <2>2. q * (FrameSampleCount - FrameByteSize) >= 0
      BY <1>4, Sizes
    <2>3. q * (FrameSampleCount - FrameByteSize) = q * FrameSampleCount - q * FrameByteSize
          /\ q * FrameSampleCount \in Int
      BY <1>4, Sizes
    <2>4. q * FrameByteSize <= Whole(n)
      BY <1>4, <2>1, <2>2, <2>3
    <2>5. (q * FrameByteSize + 0) \div FrameByteSize = q /\ 0 \in 0 .. FrameByteSize - 1
      BY <1>4, Sizes, QuotientUnique
    <2> QED
      BY <1>3, <1>4, <1>6, <2>1, <2>4, <2>5, Sizes
  <1>8. FileTypes(f)
    <2>1. f.frames \in Nat /\ f.length \in Nat /\ f.order \in Nat /\ f.predictor_count \in Nat
      BY <1>1, <1>2, <1>3, <1>4, <1>5, CommandsAssumption
    <2>2. Len(f.audio) >= (f.size \div FrameByteSize) * FrameSampleCount
      <3>1. Len(f.audio) = Whole(n)
        BY <1>2, <1>3, <1>5
      <3>2. (f.size \div FrameByteSize) * FrameSampleCount = Whole(n)
        BY <1>4, <1>7
      <3> QED
        BY <1>4, <3>1, <3>2
    <2> QED
      BY <1>2, <1>5, <1>7, <2>1, <2>2 DEF FileTypes
  <1>9. FileSamples(f)
    <2>1. Count(f) = meta.padded /\ InOrder(f) = f.audio
      BY <1>2 DEF Count, InOrder
    <2> QED
      BY <1>2, <1>3, <1>5, <2>1 DEF FileSamples
  <1>10. EncodeWrote(f)
    <2>1. FrameCount(f.frames) * FrameByteSize = f.size /\ f.size \in Int
      BY <1>2, <1>3, <1>4, <1>6, <1>7
    <2>2. FrameCount(f.frames) * FrameByteSize <= f.size
      BY <2>1
    <2> QED
      BY <1>2, <1>5, <2>2 DEF EncodeWrote
  <1> QED
    BY <1>8, <1>9, <1>10 DEF FileInv, f

LEMMA DecodedFileInv ==
  ASSUME IInv, pc = "write", cmd.name = "decode",
         samples' = Swapped(samples, OrderOf(Extension[cmd.output]))
  PROVE  FileInv(DecodedFile)
  <1> DEFINE f == DecodedFile
             n == meta.original
             o == OrderOf(Extension[cmd.output])
  <1>1. /\ FileInv(Input) /\ IsSound(Input) /\ Measured /\ DecodeInv
        /\ Extension[cmd.output] \in {"AIFF", "AIFC", "WAVE"}
    BY InputInv DEF IInv, StepInv, Measured
  <1>2. /\ n \in Nat /\ Input.length \in Nat /\ n = Count(Input)
        /\ n = Input.length \/ n = Whole(Input.length)
        /\ meta.padded = Whole(n) /\ n <= Whole(n) /\ Whole(n) \in Nat /\ n <= MaxInputLength
    <2>1. n \in Nat /\ Input.length \in Nat /\ n = Count(Input) /\ meta.padded = Whole(n)
      BY <1>1, CountProperties DEF Measured
    <2>2. n = Input.length \/ n = Whole(Input.length)
      BY <1>1, <2>1 DEF FileInv, FileSamples
    <2>3. n <= MaxInputLength
      BY <1>1 DEF DecodeInv
    <2> QED
      BY <2>1, <2>2, <2>3, WholeBounds
  <1>3. /\ samples \in Seq(Int) /\ Len(samples) = meta.padded
        /\ \A i \in 1 .. n : samples[i] = Position(i, Input.length)
    BY <1>1 DEF DecodeInv, InMemory
  <1>4. /\ f.kind = Extension[cmd.output] /\ f.codec = "PCM" /\ f.mono16 = TRUE
        /\ f.frames = n /\ f.size = 2 * n /\ f.audio = SubSeq(samples', 1, n)
        /\ f.last = -1 /\ f.order = 0 /\ f.predictor_count = 0
        /\ f.by = "decode" /\ f.length = Input.length
    BY DEF DecodedFile, Input
  <1> HIDE DEF f, n
  <1>5. /\ samples' \in Seq(Int) /\ Len(samples') = meta.padded
        /\ \A i \in 1 .. Len(samples) :
              samples'[i] = IF o = HostOrder THEN samples[i] ELSE -samples[i]
    BY <1>3, SwappedSamples
  <1>6. f.audio \in Seq(Int) /\ Len(f.audio) = n /\ \A i \in 1 .. n : f.audio[i] = samples'[i]
    <2>1. \A i \in 1 .. n : samples'[i] \in Int
      BY <1>2, <1>5, ElementOfSeq
    <2>2. /\ SubSeq(samples', 1, n) \in Seq(Int)
          /\ Len(SubSeq(samples', 1, n)) = IF 1 <= n THEN n - 1 + 1 ELSE 0
          /\ \A i \in 1 .. n - 1 + 1 : SubSeq(samples', 1, n)[i] = samples'[1 + i - 1]
      BY <1>2, <2>1, SubSeqProperties
    <2> QED
      BY <1>2, <1>4, <2>2
  <1>7. \A i \in 1 .. n : InOrder(f)[i] = Position(i, Input.length)
    <2> SUFFICES ASSUME NEW i \in 1 .. n
                 PROVE  InOrder(f)[i] = Position(i, Input.length)
      OBVIOUS
    <2>1. InOrder(f) = Swapped(f.audio, o)
      BY <1>4 DEF InOrder
    <2>2. Swapped(f.audio, o)[i] = IF o = HostOrder THEN f.audio[i] ELSE -f.audio[i]
      BY <1>6, SwappedSamples
    <2>3. f.audio[i] = IF o = HostOrder THEN samples[i] ELSE -samples[i]
      BY <1>2, <1>3, <1>5, <1>6
    <2>4. samples[i] = Position(i, Input.length) /\ samples[i] \in Int
      BY <1>2, <1>3 DEF Position
    <2> HIDE DEF o
    <2> QED
      BY <2>1, <2>2, <2>3, <2>4
  <1>8. Count(f) = n
    BY <1>2, <1>4 DEF Count
  <1>9. FileTypes(f)
    <2>1. f.size \in 0 .. WordModulus - 1
      BY <1>2, <1>4, Sizes, CommandsAssumption
    <2>2. Len(f.audio) >= f.size \div 2
      BY <1>2, <1>4, <1>6
    <2>3. f.frames \in Nat /\ f.length \in Nat /\ f.order \in Nat /\ f.predictor_count \in Nat
          /\ f.last \in Int /\ f.by \in {"user", "encode", "decode"}
      <3>1. f.frames = n /\ f.length = Input.length /\ f.order = 0 /\ f.predictor_count = 0
            /\ f.last = -1 /\ f.by = "decode"
        BY <1>4
      <3> QED
        BY <1>2, <3>1
    <2>4. f.codec # "VADPCM" /\ f.audio \in Seq(Int) /\ f.mono16 \in BOOLEAN
      BY <1>4, <1>6, Zenon
    <2> QED
      BY <2>1, <2>2, <2>3, <2>4 DEF FileTypes
  <1>10. FileSamples(f)
    BY <1>2, <1>4, <1>6, <1>7, <1>8 DEF FileSamples
  <1> QED
    BY <1>4, <1>9, <1>10 DEF FileInv, f

(* What is prepared is all there; only the codebook may have been overrun. *)
LEMMA PrepareInv ==
  ASSUME IInv, PrepareOutput, UNCHANGED <<cmd, coded>>
  PROVE  inBounds' \in BOOLEAN /\ AccessesInBounds' /\ FileInv(Output)
  <1>1. /\ pc = "write"
        /\ inBounds' = (inBounds /\ {"audio", "coded"} \subseteq heap /\ ~TooManyPredictors
             /\ meta.original <= meta.padded /\ meta.padded <= Len(samples))
        /\ cmd.name = "decode" => samples' = Swapped(samples, OrderOf(Extension[cmd.output]))
    BY DEF PrepareOutput
  <1>2. /\ FileInv(Input) /\ IsSound(Input) /\ Measured /\ EncodeInv /\ DecodeInv
        /\ cmd.name \in {"encode", "decode"}
        /\ ~TooManyPredictors => inBounds = TRUE
    BY <1>1, InputInv DEF IInv, StepInv, Measured, BoundsInv
  <1>3. meta.original \in Nat /\ meta.original <= meta.padded /\ meta.padded \in Nat
    BY <1>2, CountProperties, WholeBounds DEF Measured
  <1>4. {"audio", "coded"} \subseteq heap /\ Len(samples) = meta.padded
    BY <1>1, <1>2 DEF EncodeInv, DecodeInv, InMemory
  <1>5. meta.padded <= Len(samples)
    BY <1>3, <1>4
  <1>6. inBounds' \in BOOLEAN /\ (~TooManyPredictors => inBounds' = TRUE)
    BY <1>1, <1>2, <1>3, <1>4, <1>5, Zenon
  <1>7. AccessesInBounds'
    BY <1>6 DEF AccessesInBounds, TooManyPredictors
  <1>8. FileInv(Output)
    BY <1>1, <1>2, EncodedFileInv, DecodedFileInv DEF Output
  <1> QED
    BY <1>6, <1>7, <1>8

LEMMA WriteInv ==
  ASSUME IInv, WriteOutput
  PROVE  IInv'
  <1>1. /\ PrepareOutput /\ pc = "write" /\ End("ok") /\ heap' = heap \ {"audio", "coded"}
        /\ UNCHANGED <<runs, cmd, meta, coded>>
        /\ files' = [files EXCEPT ![cmd.output] = Output]
    BY DEF WriteOutput, PrepareOutput
  <1>2. inBounds' \in BOOLEAN /\ AccessesInBounds' /\ FileInv(Output)
    BY <1>1, PrepareInv
  <1>3. heap' \subseteq {"input", "vectors", "audio", "coded"}
    BY <1>1 DEF IInv, TypeOK
  <1>4. DOMAIN files' = Names /\ \A n \in Names : FileInv(files'[n])
    BY <1>1, <1>2 DEF IInv, TypeOK
  <1> QED
    BY <1>1, <1>2, <1>3, <1>4, EndInv

LEMMA WriteFailsInv ==
  ASSUME IInv, WriteFails
  PROVE  IInv'
  <1>1. /\ PrepareOutput /\ pc = "write" /\ End("io") /\ UNCHANGED <<runs, cmd, meta, coded, heap>>
        /\ \/ files' = files
           \/ \E f \in {Partial, Output} : files' = [files EXCEPT ![cmd.output] = f]
    BY DEF WriteFails, PrepareOutput
  <1>2. inBounds' \in BOOLEAN /\ AccessesInBounds' /\ FileInv(Output)
    BY <1>1, PrepareInv
  <1>3. heap' \subseteq {"input", "vectors", "audio", "coded"}
    BY <1>1 DEF IInv, TypeOK
  <1>4. DOMAIN files' = Names /\ \A n \in Names : FileInv(files'[n])
    <2>1. CASE files' = files
      BY <2>1 DEF IInv, TypeOK
    <2>2. ASSUME NEW f \in {Partial, Output}, files' = [files EXCEPT ![cmd.output] = f]
          PROVE  DOMAIN files' = Names /\ \A n \in Names : FileInv(files'[n])
      <3>1. FileInv(f)
        BY <1>2, NoSound
      <3> QED
        BY <2>2, <3>1 DEF IInv, TypeOK
    <2> QED
      BY <1>1, <2>1, <2>2
  <1> QED
    BY <1>1, <1>2, <1>3, <1>4, EndInv

---------------------------------------------------------------------------------
(* Every step *)

LEMMA NextInv ==
  ASSUME IInv, [Next]_vars
  PROVE  IInv'
  <1>1. CASE Usage \/ StartEncode \/ StartDecode
    BY <1>1, StartInv
  <1>2. CASE CheckFormats
    BY <1>2, FormatsInv
  <1>3. CASE OpenInput
    BY <1>3, OpenInv
  <1>4. CASE OpenFails \/ OutOfMemory
    BY <1>4, StopInv
  <1>5. CASE ParseInput
    BY <1>5, ParseInv
  <1>6. CASE ParseFails
    BY <1>6, ParseFailsInv
  <1>7. CASE RejectInput
    BY <1>7, RejectInv
  <1>8. CASE LoadPCM
    BY <1>8, LoadPCMInv
  <1>9. CASE LoadVADPCM
    BY <1>9, LoadVADPCMInv
  <1>10. CASE EncodeSamples
    BY <1>10, EncodeSamplesInv
  <1>11. CASE DecodeSamples
    BY <1>11, DecodeSamplesInv
  <1>12. CASE DecodeFails
    BY <1>12, DecodeFailsInv
  <1>13. CASE WriteOutput
    BY <1>13, WriteInv
  <1>14. CASE WriteFails
    BY <1>14, WriteFailsInv
  <1>15. CASE EncodeFails
    BY <1>15, EncodeFailsInv
  <1>16. CASE DecodeCrashes
    BY <1>16, DecodeCrashesInv
  <1>17. CASE UNCHANGED vars
    <2>1. UNCHANGED <<files, runs, pc, cmd, result, meta, samples, coded, heap, inBounds>>
      BY <1>17 DEF vars, memory
    <2>2. Input' = Input /\ Reader' = Reader
      BY <2>1 DEF Input, Reader
    <2>3. TypeOK' /\ CommandTypes' /\ CommandFormats' /\ EncodedDecodes'
      BY <2>1 DEF IInv, TypeOK, CommandTypes, CommandFormats, FormatsGood, EncodedDecodes
    <2>4. StepInv'
      BY <2>1, <2>2 DEF IInv, StepInv, Measured, EncodeInv, DecodeInv, InMemory
    <2>5. BoundsInv'
      BY <2>1 DEF IInv, BoundsInv, AccessesInBounds, TooManyPredictors, NoVector
    <2> QED
      BY <2>1, <2>3, <2>4, <2>5 DEF IInv
  <1> QED
    BY <1>1, <1>2, <1>3, <1>4, <1>5, <1>6, <1>7, <1>8, <1>9, <1>10, <1>11, <1>12, <1>13, <1>14,
       <1>15, <1>16, <1>17 DEF Next, Step, Done

(* The invariant holds of every sequence of commands. *)
THEOREM CommandsInvariant == Spec => []IInv
  <1>1. Init => IInv
    BY InitInv
  <1>2. IInv /\ [Next]_vars => IInv'
    BY NextInv
  <1> QED
    BY <1>1, <1>2, PTL DEF Spec

(* Every variable of the vadpcm program keeps its type. *)
THEOREM CommandsTypes == Spec => []TypeOK
  <1>1. IInv => TypeOK
    BY DEF IInv
  <1> QED
    BY <1>1, CommandsInvariant, PTL

(***************************************************************************)
(* But for the codebook of cmd_encode with too many predictors and that of *)
(* a file with order 0, cmd_encode and cmd_decode leave no block and no    *)
(* file, and use no memory that was freed, whatever lengths the files      *)
(* state and in whatever order the commands run.                           *)
(***************************************************************************)
THEOREM CommandsAccesses == Spec => []AccessesInBounds
  <1>1. IInv => AccessesInBounds
    BY DEF IInv, BoundsInv
  <1> QED
    BY <1>1, CommandsInvariant, PTL

(* What vadpcm encode wrote, vadpcm decode accepts, unless it is too long. *)
THEOREM CommandsDecode == Spec => []EncodedDecodes
  <1>1. IInv => EncodedDecodes
    BY DEF IInv
  <1> QED
    BY <1>1, CommandsInvariant, PTL

(***************************************************************************)
(* However often a sound is encoded and decoded, it keeps its samples, in  *)
(* their order and byte order, and gets less than a frame of silence.      *)
(***************************************************************************)
THEOREM CommandsSamples == Spec => []SamplesKept
  <1>1. ASSUME IInv PROVE SamplesKept
    <2> SUFFICES ASSUME NEW n \in Names, IsSound(files[n]), files[n].by # "user"
                 PROVE  /\ Len(files[n].audio)
                             \in files[n].length .. files[n].length + FrameSampleCount - 1
                        /\ \A i \in 1 .. Len(files[n].audio) :
                              InOrder(files[n])[i] = IF i <= files[n].length THEN i ELSE 0
      BY DEF SamplesKept, IsSound
    <2> DEFINE f == files[n]
    <2>1. FileTypes(f) /\ FileSamples(f) /\ FileInv(f)
      BY <1>1 DEF IInv, FileInv
    <2>2. /\ f.length \in Nat /\ Len(f.audio) = Count(f)
          /\ Count(f) = f.length \/ Count(f) = Whole(f.length)
      BY <2>1 DEF FileTypes, FileSamples
    <2>3. Count(f) \in f.length .. f.length + FrameSampleCount - 1
      <3>1. /\ Whole(f.length) \in Nat /\ f.length <= Whole(f.length)
            /\ Whole(f.length) <= f.length + FrameSampleCount - 1
        BY <2>2, WholeBounds
      <3> HIDE DEF f
      <3> QED
        BY <2>2, <3>1, Sizes
    <2>4. \A i \in 1 .. Len(f.audio) : InOrder(f)[i] = IF i <= f.length THEN i ELSE 0
      BY <2>1, <2>2, <2>3 DEF FileSamples, Position
    <2> QED
      BY <2>2, <2>3, <2>4
  <1> QED
    BY <1>1, CommandsInvariant, PTL
=================================================================================
