# VADPCM in TLA+

Specifications of the VADPCM codec, of the `vadpcm` and `vadpcmstats` programs
and of the files they read and write, checked with TLC and, in part, proved
with TLAPS. Paths such as `codec/decode.c:64` are relative to the repository.

## The system

VADPCM is the audio codec of the Nintendo 64. A frame of 16 samples becomes 9
bytes: a control byte (a scale and the number of a predictor) and 16 residuals
of 4 bits. The repository has a codec library, a program that converts files,
a program that measures the codec over many files, and tests.

| Part | Code | State it keeps | Operations |
|---|---|---|---|
| decoder | `codec/decode.c` | the last vector of output, from call to call | `vadpcm_decode` |
| encoder | `codec/encode.c`, `codec/random.c` | two samples of output and the generator of the dither, from call to call | `vadpcm_encode_data`, `vadpcm_encode` |
| predictor assignment | `codec/predictor.c` | per call: a predictor for each frame | `vadpcm_assign_predictors` and its rounds of refinement |
| codebook values | `codec/autocorr.c`, `encode.c:24-68`, `predictor.c:35-205`, `predictor.h` | none | `vadpcm_autocorr`, `vadpcm_solve`, `vadpcm_stabilize`, `vadpcm_eval`, `vadpcm_make_codebook` |
| AIFF files | `common/aiff_parse.c`, `common/aiff_write.c` | per call | `aiff_parse`, `aiff_write` |
| WAVE files | `common/wave_parse.c`, `common/wave_write.c` | per call | `wave_parse`, `wave_write` |
| audio files | `common/audio_*.c` | the samples or frames of a file | `audio_read_pcm`, `audio_read_vadpcm`, `audio_write_pcm` |
| files | `common/file.c` | none; the disk | `input_file_read`, `output_file_write` |
| log | `common/log.c` | `g_log_context`, one for all threads | `log_context`, `log_context_clear`, the messages |
| memory, numbers, names | `common/alloc.c`, `extended.c`, `binary.c`, `format.c` | none | pure, but for `exit` when there is no memory |
| `vadpcm` | `vadpcm/` | per process | `encode`, `decode` |
| `vadpcmstats` | `vadpcmstats/vadpcmstats.c` | index, statistics, mutex | sequential loop, pool of threads |
| tests | `tests/` | | `statecheck` and unit tests |

How they interact. `vadpcm encode` maps the input, parses it in place, copies
the samples, unmaps it, encodes with a codebook it computes, and writes chunks
and frames with one list of slices. `vadpcm decode` goes the other way. Encoder
and decoder never meet, except in `tests/statecheck.c`: what they share is the
bytes of the frames and the codebook, and the encoder has to predict from
exactly what the decoder will have put out. `vadpcmstats` runs the reader and
the encoder in several threads, which share a counter, a table and the context
of the log.

What is hard about it, and so what the properties are for:

* *Two computations have to agree bit for bit*, though they add in another
  order and their sums may leave 32 bits: encoder and decoder
  (`StateMatch`, `ErrorIsReal`, `EncodedIsValid`), the loops of the decoder and
  the documented sum (`ImplementsVectorDecoder`), `aiff_write` and `aiff_parse`
  (`RoundTrip`).
* *State that is used twice or carried over*: the samples and the generator of
  the dither, over candidates, frames and calls (`EncodedSame`), the best
  candidate (`BestIsLeast`), the numbering of predictors over rounds
  (`FramesCounted`, `UnassignedIsUnused`, `CodebookCovers`, `ImplementsAssign`).
* *Numbers whose error shows only in the sound*: a wrong sign, pivot or order in
  the computation of predictors still makes a codebook, only a worse one
  (`RefiningImproves`, `BestErrorIsLeast`, `CoefficientsStable`,
  `CodebookPredicts`); a bias too many makes each generation of a sound worse
  (`Reencoded`, `QuantizationBound`); a sample rate goes through three formats
  (`RateKept`).
* *Sizes that come from files*, in words of 32 bits (`ReadsInBounds`,
  `AudioInFile`, `ChunksAdvance`, `ReadsInFile`, `LoopAdvances`,
  `AccessesInBounds`).
* *Failure in the middle*: a frame that cannot be decoded (`OutputInStep`), no
  memory (`AllFreed`, `AllOrNothing`), a write cut short (`FileIsPrefix`,
  `WholeOnSuccess`, `AcceptedIfWhole`, `WholeIsAccepted`).
* *Threads* (`EncodedOnce`, `TableComplete`, `Termination`,
  `MessageHasItsContext`).
* *Sequences of commands*, each on what the one before left (`SamplesKept`,
  `EncodedDecodes`, `CodebookFits`, `InputWithinLimit`).

`PROJECT.json` lists each hazard at its line with its properties.

## The modules

| Module | Models | Uses |
|---|---|---|
| `VadpcmFormat` | the numbers of the format and the conversions both directions share | |
| `VectorDecoder` | what decoding promises: one step for a vector, with the sum written out | `VadpcmFormat` |
| `Decoder` | `vadpcm_decode`, one step for an iteration of its loops | `VadpcmFormat`; implements `VectorDecoder` |
| `Encoder` | `vadpcm_encode_data`, one step for a sample of each of its passes | `VadpcmFormat` |
| `Statecheck` | encoder and decoder on one sound, in one call, in a call for each frame, and again on what came out | `Encoder`, an instance of `Decoder` |
| `PredictorAssign` | `vadpcm_encode` up to the encoding, `vadpcm_assign_predictors`, with every outcome of the comparisons | |
| `Rationals` | exact arithmetic in place of `float` and `double` | |
| `PredictorValues` | the same calls with the numbers they compute, from the autocorrelation to the codebook | `Rationals`; extends and implements `PredictorAssign` |
| `AiffParse` | `aiff_parse`, one step for a chunk | |
| `AiffFile` | `aiff_write`, a cut anywhere, then `aiff_parse` | `AiffParse` |
| `Extended` | 80-bit numbers, from and to a word by way of a double | |
| `WaveFile` | `audio_write_wave` and `wave_write`, a cut anywhere, or an unknown file; then `wave_parse` and `audio_read_wave` | `Extended` |
| `OutputFile` | `output_file_write`, with the kernel's side of `writev` | |
| `Commands` | `vadpcm encode` and `vadpcm decode` with the readers and writers, on a disk of a few files | |
| `WorkerPool` | `vadpcmstats`, each access to shared memory a step | |
| `DecoderProofs`, `StatecheckProofs`, `AiffParseProofs`, `WaveFileProofs`, `PredictorAssignProofs`, `OutputFileProofs`, `CommandsProofs`, `WorkerPoolProofs` | theorems | the module of that name (`AiffFile` and `PredictorValues` for two) and TLAPS |

Names are those of the code where TLA+ allows; `map` in `PROJECT.json` gives
the lines of every definition. A definition with a name such as
`PadTo_Junk`, marked *faulty*, is not part of a model: it is a bug that the
code could have had, and was put in place of the definition before the
underscore to see that the property meant to catch it does.

### State and code

**Decoder.** `pc` is the loop that runs: `frame` (the frame loop, the control
byte), `previous` (`decode.c:48-53`), `residual` (65-71), then `ok` or `invalid`.
`k` counts the iterations, `vector` is 0 or 1, `accumulator` holds ints that
wrap (`Int32`), `state` is the caller's, `dest` the vectors put out. `v` is
`&predictor[order - 1]`; with order 0 that is no vector of the codebook, and it
is then one of `GarbageVectors`, whatever the memory there holds.

**Encoder.** `epc` is `call` (between calls), `frame`, `scan` (`encode.c:112-132`),
`next` (the loop over shifts), `try` (147-187) or `keep` (188-194). `BeginCall`
and `EndCall` copy `encoder_state` into the locals and back. `tried` is history: the
outcome of every candidate of the frame (bytes, error, last samples, and where it
left the generator), of which the code remembers only the best. `state[0..3]` is the
array of the code, with its two uses of the upper half. Squared errors are
doubles that hold integers, so they are integers here. The codebook and the
assignment are inputs: any codebook of order 2 will do, and an unstable one is
among them.

**Statecheck.** `part` says what is under way: `whole` and `frames` are the two
encodings of `tests/statecheck.c:105-143`, `again` is `test_reencode` of
`tests/encode_test.c`. The frames of the encoder are the source of the decoder.
`measured` sums the squared difference of source and output, as
`tests/encode_test.c` does.

**PredictorAssign.** `predictors` and `active_count`, `unassigned`, `iter` as in
`predictor.c:279-312`; `blocks` is what is allocated, `written` what of the
caller's has been written. The comparisons of errors are choices: a frame may
come to any cluster, the worst frame may be any.

**PredictorValues.** `src` is the sound, or `NoSound`, and then the behaviour is one
of `PredictorAssign`. `corr`, `error`, `best_error` and `codebook` are the arrays of
the code; `coeff`, a local of `vadpcm_refine_predictors`, is kept for the
properties. The actions that `PredictorAssign` leaves open have their values here
(`RefinePredictors` for `Refine`, `SplitWorst` for `AssignWorst`, ...), and the
others are used as they are. Arithmetic is exact. So a property that compares two
errors says nothing of the last bits of a `float`, which can make an improvement
slightly negative in the program. `rel_epsilon` is 1/4096 in the code and 1/4 in the
run, where it tells "nearly singular" from "singular" for some of the small sounds.
Coefficients given up so are not the best ones (`Adjusted`): a frame whose last
sample is far louder than the others gets none of its own, and another predictor may
do better for it, so that the improvement `vadpcm_worst_frame` compares
(`predictor.c:270`) is negative. Samples are integers, where the code divides by
32768, which scales errors and no coefficient.

**Extended, WaveFile.** An 80-bit number is its sign, exponent and fraction; a
double on the way to a word rounds the fraction to its own width, ties to even, and
`round` takes what is half way up (`extended.c:46-55`). Its range of exponents is
not modelled, since the result is 0 or the largest word long before. The parser of
WAVE files is modelled as that of AIFF is: chunks of an unknown file are chosen when
they are read, `inBounds` remembers the reads.

**AiffParse, AiffFile.** Addresses are offsets; `offset`, `end`, `has` are the
variables of the loop. A chunk of an unknown file is chosen when the parser comes
to it, which is sound as it never comes back; the chunks of a file that
`aiff_write` made are in `file`. `inBounds` remembers whether every read was
inside its chunk and the file. A behaviour of `AiffFile` begins with audio to
write, or with `NoFile` and a file that nobody knows.

**OutputFile.** A byte of the slices is its position, so the file is right when
its byte *n* is *n*. `iov`, `iop`, `amt`, `rem` are those of `file.c:157-193`.
The kernel copies bytes one by one and may stop after any. Bytes of a file that was
there before are `Old`, and `Open` truncates it (`O_TRUNC`).

**Commands.** `files` is the disk. A sample is its position in the file it came
from, so what is lost, moved or made up shows; the negative of it has its bytes
the wrong way round, and `HostOrder` says which way is right. `cmd` is the command line, `heap`
the blocks there are, `result` how the process ended. `inBounds` remembers the
accesses of the command that runs. Two of them are out of bounds: those to the codebook of
encode with too many predictors (`TooManyPredictors`), after which the process
ends or goes on, what it spoils on the stack being left out; and that of decode to
the vector before a codebook of order 0 (`NoVector`), which is before a null
pointer, so the process ends (`DecodeCrashes`). The codec gives back the
samples (how well is `Statecheck`'s matter), the files are what `AiffParse`
finds in them (that is `AiffFile`'s).

**WorkerPool.** `pc[t]` is the step thread `t` takes next; thread 0 is `main`.
The read and the write of `index`, and the two words of `g_log_context`, are
steps of their own. `stderr` is the lock of `log.c:58`. `MainFails`, `MutexFails` and
`OutOfMemory` are the calls of memory, threads and mutexes whose failure ends the
process (`xmalloc`, `CHECK_PTHREAD`), in main or in a worker while the others run.
The message that `fail_pthread` logs before is left out.

## Runs

| Run | Checks | Distinct states | Bounds |
|---|---|---|---|
| `decoder` | `Decoder` | 21,190 | vectors of 4 samples of 4 bits, residuals of 2 bits, 7-bit ints, 3 codebooks (order 1 and 2, 1 and 2 predictors, unstable ones), all pairs of 64 frames |
| `statecheck` | `Statecheck` | 720,970 | the same format with 6-bit ints, a generator of 32 states, all sounds of 2 frames out of 4 vectors, and of 3 frames out of 2 |
| `predictors` | `PredictorValues` | 154,688 | 0 to 5 frames and predictors, a limit of 4 for each, 5 rounds: every assignment; and the values of frames of 2 samples, all sounds of up to 3 frames from -1..1, of 2 from -2..2, of 4 from -1 and 1 |
| `aiff_file` | `AiffFile` | 1,708,066 | 9-bit words; two values of the common fields, audio of 0 to 20 bytes and at the limits of a word, codebooks of up to 2 vectors, a cut at every byte; unknown files, sizes at each limit, one less, one more, and the largest |
| `wave_file` | `WaveFile` | 1,085,480 | 7-bit words, 8-bit doubles, 10-bit fractions: every rate with exponents around those of a word; 0 to 8 samples and those at the limits of a word, a cut at every byte; unknown files as above |
| `commands` | `Commands` | 874,075 | 3 commands, 4 names, some 220 files of a user, frames of 4 samples, 6-bit words, a limit of 16 samples |
| `output_file` | `OutputFile` | 32,656 | up to 3 slices of up to 3 bytes, a file of 2 bytes there before or none, 2 interrupted calls |
| `worker_pool` | `WorkerPool` | 1,649,072 | 3 files, 1, 2 or 3 workers |

Why small is enough. The codec's loops do the same for each vector, and the
state that is handed on is a vector: two frames have every hand-over (vector to
vector, frame to frame, candidate to candidate). Ints are just wide enough for a
prediction in range, as in the code, so wrapping sums are common and not rare.
In the parsers every comparison has values on each side; the largest size wraps
in `align32`. Two chunks after each other, of each kind, are all that their state
can tell apart, and the largest files have room for a complete AIFF-C file.
In `Commands` a length of 33 samples, in bytes, wraps to 2, and three commands
are enough for encode, decode and encode again. In `WorkerPool` three workers
on three files have a worker that finds nothing left while two are still at it.
The predictors settle after fewer rounds than there are; the sounds include
those with no solution of second order, with none of first order, with unstable
coefficients on each side of the triangle, with ties, and with more predictors
than frames.

What each shows:

* `decoder`: the loops compute the sum of `docs/docs/codec.md` (with the clamp
  of the code), whatever wraps; each vector of output is a step of
  `VectorDecoder`, every call ends; a rejected frame leaves whole frames.
* `statecheck`: of all the candidates tried for a frame, which are all given the
  same dither, the first with the least error is kept; a sound gives the same bytes
  and the same audio however it is divided into calls, after each call the decoder's
  last two samples are those the encoder goes on from, the statistics are the true
  error, the frames are some the decoder accepts; a residual that is not clipped
  misses by less than a step; a frame that is decoded and encoded again is exact, if
  its scale is tried and no sample of it was cut off.
* `predictors`: no frame drops out of the refinement though clusters are
  numbered anew each round, an unassigned predictor is nobody's, and failure
  frees all and writes nothing; the computed assignment is one of those. No
  predictor is better for a frame than its own coefficients, a round makes the
  error of all frames no greater, the coefficients compared are in the closed
  triangle of stability (at whose corners a response still grows linearly, which
  `tests/predictor_test.c` allows for), and a
  vector of the codebook predicts what its coefficients do.
* `aiff_file`: no read and no audio outside the file, progress in each round,
  only complete files are accepted; what was written comes back, and no prefix
  of it is taken for a file.
* `wave_file`: the same of WAVE files, and the rate that comes back is the nearest
  one a word has.
* `commands`: no access out of bounds but the two that are known (the findings of
  order 0 and of the codebook of encode), what encode writes decode accepts, and
  after any three commands the samples are there, the right way round, with less
  than a frame of silence after them, also when input and output are the same
  file.
* `output_file`: the old contents until the file is opened, then a prefix of the slices
  with no old byte in it, all of them on success,
  the loop ends (`EINTR` being finite).
* `worker_pool`: each file once, a complete table, an end.

The types of variables (`TypeOK`) are proved where a module has theorems, and
not a question of a run.

Deadlock is checked in all of them; a process that has ended stutters.

### Fairness

`Decoder` and `OutputFile` are calls of one thread: `WF_vars(Step)` says that the
thread is run. In `OutputFile` a bound on interrupts (`MaxInterrupts`) says that
signals do not interrupt every call for ever; the code would retry for ever.
`WorkerPool` has weak fairness for each thread, what an operating system's
scheduler gives, for the steps of the program and not for its failures
(`ProcessFails`), which are never bound to happen: a thread that waits for ever is
not saved by one. It has no strong fairness, so a mutex may pass a thread by
again and again, and the program still ends, because each turn of the others
uses up a file. `VectorDecoder` promises `WF_vars(Next)`: the call ends.
The other modules have no liveness property; that a parse ends follows from
`ChunksAdvance` and `LoopAdvances`.

## Theorems

For every value of the constants that meets the named assumptions
(`FormatAssumption`, `ShiftAssumption`, `DecoderAssumption`, `EncoderAssumption`,
`AiffAssumption`, `WrittenAssumption`, `WaveAssumption`, `ExtendedAssumption`,
`CodebookAssumption`, `PredictorAssumption`, `ValuesAssumption`, `OutputAssumption`,
`CommandsAssumption`, `UserFilesAssumption`, `PoolAssumption`, `ClipAssumption`;
each is evaluated by TLC in a run, and holds of the values in the code):

Each module proves what it needs of division, of powers and of the format itself.

* **DecoderProofs**: `TypeOK`, `ReadsInBounds`, `OutputInStep`. None is inductive
  alone: an element has its type only if the index is in range, and that the
  predictor exists is checked once and needed tens of steps later. The invariant
  is their conjunction, with the frames before the current one accepted. Then the
  steps of the refinement (`StepsAreVectors`): from a codebook of order 1 or more,
  each step of the loops is a step of `VectorDecoder` or invisible. The invariant
  (`SumsInStep`) has, for every lane, the terms its loops have been through:
  a lane adds to a sum that has wrapped, and wrapping at each addition is wrapping
  the sum of them all, which only has to be split in the order of the loops
  (`SumSteps`).
* **StatecheckProofs**: first that a control byte gives back scale and predictor and a
  byte both residuals. Then encoder and decoder together: `StateMatch`, `ErrorIsReal`,
  `EncodedIsValid`, `BestIsLeast` and `QuantizationBound`, for every codebook of
  order 2, assignment, sound and word size, whatever wraps. Whether an error that
  the encoder reports is real is known only when the decoder comes to the frame,
  a whole call later. So the invariant says what a frame of bytes leads to: the
  sums of a vector, residual by residual, with the squared differences added up
  (`Run`), two vectors of a frame (`FrameLeads`), and the frames that are there but
  not decoded (`Chain`), from what the decoder carries to what the encoder does.
  The encoder appends a link to the chain and the decoder takes one off. A
  candidate is a run that grows by a sample in each step (`RunExtend`), and the
  quantiser's prediction plus residual is the run's because an `int` that wraps
  forgets the order of additions (`Int32Add`) and a residual added to a prediction
  in range does not wrap (`ShiftAssumption`). `BestIsLeast` is of all the candidates
  in `tried`: the invariant
  (`TriedInv`) says that the one kept is the first least, that their scales are
  those up to the next, and where the draws of a frame leave any generator (`Drawn`).
* **StatecheckProofs**, of two encodings: `EncodedSame` and `Reencoded`. The
  variables that the encoder goes on with are of a machine whose every step is a
  function of codebook and sound (`Forward`), so the sound in several calls and in
  one are the same run as far as both have come (`Reached`, `BytesAgree`), and audio
  is a function of the bytes (`DecodedFrom`, `DecodedAgree`). The invariant
  (`SameInv`) also says where the encoding that has ended left off. For `Reencoded`,
  a sum that comes out at no limit has not wrapped (`NotClipped`, from
  `ClipAssumption`, which says that what a residual adds can not carry a sum from
  one end of an `int` to the other), so the candidate with the first scaling has the
  sums of the decoder (`TryAgain`), finds its residuals with any dither
  (`FoundAgain`) and has the error 0, and no candidate after it takes its place
  (`BestAgain`).
* **AiffParseProofs**: `TypeOK`, `ReadsInBounds`, `AudioInFile`,
  `CompleteOnSuccess`, `ChunksAdvance`, for files of any length, word sizes from
  7 bits and any sizes in the chunks. The invariant adds what the header
  established, that the contents end in the file, and that the offset is not
  past the end once a chunk was read (before that, contents of fewer than 4
  bytes put it there, which is why `CompleteOnSuccess` needs it). A chunk that
  fits ends before the contents do (`FitsInside`); each disjunct then has a lemma
  that its reads are in the chunk. For the files that `aiff_write` makes, also
  `RoundTrip` and `AcceptedIfWhole`, for audio and codebooks of any size that it
  accepts, cut at any byte. `FileInv` has the offsets of the chunks that
  `aiff_write` lays out, and at which of them the parser is (`AtPlace`), with what
  it has read by then; a cut before the end leaves a chunk, or the header, with
  more bytes than there are.
* **WaveFileProofs**: `TypeOK`, `ReadsInFile`, `LoopAdvances`, `WholeIsAccepted` and
  `RateKept`. `IInv` and `FileInv` are for this parser what they are for the other;
  `FileInv` also follows a file whose audio is so large that the size of its contents
  wraps, which ends before its first samples (`Places`). `RateKept` is arithmetic: the
  number given to `audio_write_wave` becomes a double, a word, and a number again. The
  provers do not unfold powers of 2; the library says how many subsets a set has, and
  a set with one element more has twice as many (`PowerStep`), so powers grow, add up
  and have a leading one for every number (`LeadingPower`). Rounding to a double stays
  on its side of a number with few bits (`RoundOrder`), keeps such numbers
  (`RoundExact`) and misses by half of the last place at most (`RoundMiss`); rounding
  to a word misses by a half (`HalfUp`); the two together are what `NearestWord`
  allows (`MissTogether`). A word has fewer bits than a double and comes back as it
  was (`WordReturns`).
* **PredictorAssignProofs**, the assignment: all properties of the run that are
  about `PredictorAssign`, for any choice of its outcomes. The invariant says
  which blocks are held at each point and that, before and after refining, every
  frame has a predictor below `active_count`. What makes it inductive is a count
  (`ClusterCount`): there are no more clusters than active predictors, and there
  is one if there is a frame, so numbering them anew stays below.
* **PredictorAssignProofs**, the values: `ImplementsAssign`, a refinement;
  `CoefficientsStable`, `CodebookPredicts`, `BestErrorIsLeast`,
  `RefiningImproves`. `VInv` says which
  arrays hold numbers at each point, so that every step has a worst frame, a best
  predictor for each frame and no division by 0, and is a step of
  `PredictorAssign`. Exact rationals need lemmas of their own: what `Ratio`,
  `Plus`, `Times` and `AtMost` compute is stated by cross products and then over
  a common denominator (`Value`), where it is arithmetic of integers. That own
  coefficients are best is least squares: the sums of a frame are those of
  products of its samples, so a form in them is never negative (`SemiDefinite`, an
  invariant of `corr`); that rules out a negative determinant and says that what
  `vadpcm_solve` gives solves the equations in each of its three branches
  (`SolveSolves`); the error of any other coefficients differs from that of the
  solution by such a form (`ErrorDifference`). A round of the refinement improves
  in two steps: the sums over the frames of a predictor are sums of products too,
  so the coefficients made for them are the best for these frames together
  (`BestForClass`), and then each frame takes the best of all. The first step
  compares what the frames of each predictor add up to, the property what all
  frames do: with all coefficients over one denominator (`CommonOfThree`) errors
  are forms, forms of sums are sums of forms (`SumCorrForms`), and what is no
  greater class by class is no greater (`SumByClass`). `Grouped` is the invariant:
  the frames of a predictor have errors of the same coefficients, of which a frame
  that was split off is the exception that is alone (`UnassignedIsUnused`). The
  vectors of the codebook are the responses to two starts, and a filter is linear
  (`ResponseIsLinear`), so they predict what the coefficients do, up to the
  rounding of each (`Made` relates the codebook to the sums it was made of).
* **OutputFileProofs**: `TypeOK`, `FileIsPrefix`, `WholeOnSuccess`,
  `AdvanceInBounds`, for any slices. The invariant is that the segments left are
  not empty and follow each other to the end (`Laid`), and that the length of the
  file is the start of the current segment plus what was written of it
  (`Position`).
* **CommandsProofs**: `TypeOK`, `AccessesInBounds`, `EncodedDecodes`, `SamplesKept`,
  for any number of commands, any files of a user and any word size. `SamplesKept`
  is of the file that is there in the end; the invariant is of the file and of
  what is in memory at each step. `AccessesInBounds` needs which blocks there are, how
  they compare with what is read from them, and that nothing was out of bounds before
  (`BoundsInv`). The samples are those of the input up to the
  length that was read (`InMemory`), that length is the input's as stated or in
  whole frames, and below the largest word (`Measured`), and what encode writes
  has room for its frames (`EncodeWrote`), so decode reads no more than there is.
* **WorkerPoolProofs**: `TypeOK`, `EncodedOnce`, `TableComplete`,
  `ContextClearedByPool`, for any number of files and jobs. The invariant says
  who holds which lock (`Locks`), that files below the index are done or in the
  hands of one thread (`Claims`), what main's counter says about the workers
  (`Progress`), and that a word of the context that is set belongs to a thread
  that has yet to clear it (`ContextOwned`).

Induction and recursion. The library's induction theorems take an operator, which
these provers cannot instantiate. Stated for sets, as `LeastNumber`,
`NumberInduction` and `StrongInduction` are (a set of numbers that is not empty
has a least one), they can be proved and cited. A recursive function is unfolded
by a witness: the set of cross products for `atMost`, the greatest common divisor
for `gcd`, the partial sums for `SumTo` and `Sum`, a filter's response, each shown
to extend from one argument to the next, so that the function chosen for the
recursion is that one.

Only model-checked:

* the liveness properties, of which `ImplementsVectorDecoder` includes one, that
  the call ends: TLAPS does not do fairness and `ENABLED`.

## Findings

* **Order 0** (`decoder_order_zero`). `codec.md:29` and `165` allow predictor
  orders from 0 to 8, `aiff_parse` accepts 0. `decode.c:64` then takes the vector
  before the codebook. `vadpcm decode` comes to it with any file of order 0 that has
  a frame with a predictor that is there (`DecodeCrashes` of `Commands`).
* **The codebook of encode** (`commands_codebook`). `cmd_encode.c:118` and
  `vadpcmstats.c:67` have 16 vectors; `vadpcm.h:126` says the array has to hold two
  for each predictor. `--predictors` from 9 to 16 writes past it.
* **The length of WAVE input** (`commands_wave_length`). `audio.h:11` states a
  maximum for input files. `audio_read_wave` does not check it, and encode makes
  files of such input that decode refuses.
* **The context of messages** (`worker_pool_context`). `util.h:48` says the context
  is printed before each message; with several workers it is any worker's, and
  the words may be of two, with a null path among them.

Seen while modelling, and not stated as properties: the decoder clamps to 16
bits, which the decoding process of `codec.md:55-112` does not say; it accepts any
scaling factor of 4 bits, where `codec.md:45` has 0-12; `codec.md:41` says that a
frame is 8 bytes and 9 samples, where it is 9 bytes and 16; `aiff_parse` leaves
the codebook of the caller as it was when the file has none, against
`aiff.h:45-46`; the vectors of a codebook are freed by nobody; `aiff_write` ignores
`version_timestamp`; `cmd_decode` does not declare `-q`, nor `vadpcmstats` `-j`, as
short options; `vadpcmstats` reads every file as AIFF (line 60), WAVE too, and
never clears the context in its sequential loop, so a message about the table
(line 217) comes with the last input; `output_file_write` does not close the file
after an error; `statecheck.c:91` assigns predictors to no frames, for which
`predictor.c:267` reads past an empty block (`vadpcm_encode` never does:
`FramesCounted`).

Refining compares frames by stabilised coefficients, and the codebook is made of
those as solved (`encode.c:63`). Where stabilising changes coefficients, a round
can make the error of all frames greater, as `RefiningImproves` would show
without its exception (`Adjusted`): `predictor.c:169` notes that this code was not checked
closely, and with `coeff[1]` below -1 it limits `coeff[0]` to -1..1, where a
stable filter has -2..2.

The comment at `tests/encode_test.c:29`, that a file decoded and encoded again
decodes to the same samples, holds of the files that the test has and not of every
file: a clipped sample may be lost, and with a codebook of large entries the scan
for the scale, which rounds the other way, comes to a scale more than one away
from the first (`FirstScaling` in `Reencoded`).

`wave_write` compares the audio with the largest word, without the 36 bytes of
headers it adds to the size it writes, so the size of a file between the two
wraps, and `wave_parse` refuses the file (`WholeIsAccepted` has the exception; the
commands have a limit far below). Its message for a short `fmt` chunk says
`minimum=8`, and the comparison is with 16. Both parsers refuse a last chunk of
odd size that has no padding byte.

## Not modelled

The last bits of `float` and `double`: TLA+ has no useful floating point, and
`PredictorValues` is exact. The statistics that `vadpcmstats` prints. The words of
file headers as bytes, text of messages, names of files and codecs, options:
data that no property tells apart, or pure functions with tables of cases in
`tests/`. The product that `xmalloc` checks. The Windows halves of `file.c`,
`log.c` and `getopt.c`. A file that another process changes while it is mapped.

## Plan

Done, in this order, the most central first: the format, the decoder and its
promise; the encoder and `Statecheck`; the pool; `OutputFile`; the AIFF parser
and writer; the commands; the assignment of predictors; with each, its run, and
for six of the modules their theorems. Then the values behind the assignment and
the codebook, WAVE files and 80-bit numbers, the calls of the encoder compared
with each other, encoding what was decoded, and byte order.

Then the theorems about the encoder with the decoder, about AIFF and WAVE files
that are written and read back, about the commands, and about the computed
assignment. Every invariant and action property of a run has one.

Next:

1. Between `Commands` and the file modules: that what `Commands` takes a file of
   `AiffFile` and `WaveFile` to be (its kind, frames and samples) is what they read.
