-------------------------------- MODULE OutputFile --------------------------------
(***************************************************************************)
(* output_file_write (POSIX, src/common/file.c): write a list of slices to *)
(* a file with as few calls of writev as the kernel allows.                *)
(*                                                                         *)
(* A byte is its position in the slices laid end to end, so the file is    *)
(* right when its byte n is n; a byte that was there before is Old.  The   *)
(* kernel side of writev is modelled as it is specified: it copies the     *)
(* bytes of the segments in order, and may stop after any of them (a short *)
(* write), or before the first with EINTR or another error.                *)
(*                                                                         *)
(*   "gather"   building iov from the slices                               *)
(*   "open"     opening the file                                           *)
(*   "write"    at the head of the write loop                              *)
(*   "kernel"   inside writev                                              *)
(*   "advance"  skipping what was written                                  *)
(*   "close"    closing the file                                           *)
(*   "ok", "error", "aborted"  returned 0 or -1, or aborted                *)
(***************************************************************************)
EXTENDS Integers, Sequences

CONSTANTS
    SliceLists,     \* the lists of slice sizes a caller may pass
    OldLengths,     \* how long the file may have been before; 0 also if it is not there
    MaxIovec,       \* MAX_IOVEC
    MaxInterrupts   \* bound on the EINTRs of a run

ASSUME OutputAssumption ==
    /\ SliceLists \subseteq Seq(Nat)
    /\ OldLengths \subseteq Nat
    /\ MaxIovec \in Nat
    /\ MaxInterrupts \in Nat

Old == -1

VARIABLES
    pc,
    data,       \* the sizes of the slices
    next,       \* slices looked at
    total,      \* history: bytes in the slices looked at
    iov,        \* the segments: position of the first byte, and length
    iop,        \* the first segment not written; Len(iov) + 1 is ioq
    segment, offset,    \* where the kernel copies from
    amt,        \* bytes copied by this writev
    rem,        \* what is left to skip
    open,       \* is the descriptor open?
    interrupts,
    file        \* the file

kernelVars == <<segment, offset, amt>>
sliceVars  == <<data, next, total>>
vars == <<pc, sliceVars, iov, iop, kernelVars, rem, open, interrupts, file>>

Init ==
    /\ pc = "gather"
    /\ data \in SliceLists
    /\ next = 0
    /\ total = 0
    /\ iov = << >>
    /\ iop = 1
    /\ segment = 1 /\ offset = 0 /\ amt = 0
    /\ rem = 0
    /\ open = FALSE
    /\ interrupts = 0
    /\ \E n \in OldLengths : file = [k \in 1 .. n |-> Old]

---------------------------------------------------------------------------------

TooManySlices ==
    /\ pc = "gather"
    /\ Len(data) > MaxIovec
    /\ pc' = "aborted"
    /\ UNCHANGED <<sliceVars, iov, iop, kernelVars, rem, open, interrupts, file>>

(* Faulty: an empty slice gets a segment like any other. *)
GatherSlice_KeepsEmpty ==
    /\ pc = "gather"
    /\ Len(data) <= MaxIovec
    /\ next < Len(data)
    /\ iov' = Append(iov, [base |-> total, len |-> data[next + 1]])
    /\ total' = total + data[next + 1]
    /\ next' = next + 1
    /\ UNCHANGED <<pc, data, iop, kernelVars, rem, open, interrupts, file>>

(* An empty slice gets no segment. *)
GatherSlice ==
    /\ pc = "gather"
    /\ Len(data) <= MaxIovec
    /\ next < Len(data)
    /\ LET size == data[next + 1]
       IN  /\ iov' = IF size > 0
                     THEN Append(iov, [base |-> total, len |-> size])
                     ELSE iov
           /\ total' = total + size
    /\ next' = next + 1
    /\ UNCHANGED <<pc, data, iop, kernelVars, rem, open, interrupts, file>>

Gathered ==
    /\ pc = "gather"
    /\ Len(data) <= MaxIovec
    /\ next = Len(data)
    /\ pc' = "open"
    /\ UNCHANGED <<sliceVars, iov, iop, kernelVars, rem, open, interrupts, file>>

(* Faulty: without O_TRUNC. *)
Open_Keeps ==
    /\ pc = "open"
    /\ pc' = "write"
    /\ open' = TRUE
    /\ UNCHANGED <<sliceVars, iov, iop, kernelVars, rem, interrupts, file>>

(* O_TRUNC: the file is empty, whatever it was. *)
Open ==
    /\ pc = "open"
    /\ pc' = "write"
    /\ open' = TRUE
    /\ file' = << >>
    /\ UNCHANGED <<sliceVars, iov, iop, kernelVars, rem, interrupts>>

OpenFails ==
    /\ pc = "open"
    /\ pc' = "error"
    /\ UNCHANGED <<sliceVars, iov, iop, kernelVars, rem, open, interrupts, file>>

(* writev(fd, iop, ioq - iop) *)
CallWritev ==
    /\ pc = "write"
    /\ iop <= Len(iov)
    /\ pc' = "kernel"
    /\ segment' = iop
    /\ offset' = 0
    /\ amt' = 0
    /\ UNCHANGED <<sliceVars, iov, iop, rem, open, interrupts, file>>

CopyByte ==
    /\ pc = "kernel"
    /\ segment <= Len(iov)
    /\ iov[segment].len > 0
    /\ file' = Append(file, iov[segment].base + offset)
    /\ amt' = amt + 1
    /\ IF offset + 1 < iov[segment].len
       THEN offset' = offset + 1 /\ UNCHANGED segment
       ELSE offset' = 0 /\ segment' = segment + 1
    /\ UNCHANGED <<pc, sliceVars, iov, iop, rem, open, interrupts>>

(***************************************************************************)
(* writev returns what it has copied: everything, or less.  It is nothing  *)
(* only if there is nothing to copy.                                       *)
(***************************************************************************)
WritevReturns ==
    /\ pc = "kernel"
    /\ amt > 0 \/ \A s \in segment .. Len(iov) : iov[s].len = 0
    /\ pc' = "advance"
    /\ rem' = amt
    /\ UNCHANGED <<sliceVars, iov, iop, kernelVars, open, interrupts, file>>

(* A signal before anything is copied: the loop calls again. *)
WritevInterrupted ==
    /\ pc = "kernel"
    /\ amt = 0
    /\ interrupts < MaxInterrupts
    /\ interrupts' = interrupts + 1
    /\ pc' = "write"
    /\ UNCHANGED <<sliceVars, iov, iop, kernelVars, rem, open, file>>

(* Any other error leaves the descriptor open, and the file as it is. *)
WritevFails ==
    /\ pc = "kernel"
    /\ amt = 0
    /\ pc' = "error"
    /\ UNCHANGED <<sliceVars, iov, iop, kernelVars, rem, open, interrupts, file>>

(* Faulty: what the segment had is not taken off. *)
SkipSegment_KeepsRem ==
    /\ pc = "advance"
    /\ rem > 0
    /\ rem >= iov[iop].len
    /\ iop' = iop + 1
    /\ rem' = rem
    /\ UNCHANGED <<pc, sliceVars, iov, kernelVars, open, interrupts, file>>

SkipSegment ==
    /\ pc = "advance"
    /\ rem > 0
    /\ rem >= iov[iop].len
    /\ rem' = rem - iov[iop].len
    /\ iop' = iop + 1
    /\ UNCHANGED <<pc, sliceVars, iov, kernelVars, open, interrupts, file>>

(* Faulty: the rest of the segment keeps its length. *)
TrimSegment_KeepsLength ==
    /\ pc = "advance"
    /\ rem > 0
    /\ rem < iov[iop].len
    /\ iov' = [iov EXCEPT ![iop].base = @ + rem]
    /\ pc' = "write"
    /\ UNCHANGED <<sliceVars, iop, kernelVars, rem, open, interrupts, file>>

TrimSegment ==
    /\ pc = "advance"
    /\ rem > 0
    /\ rem < iov[iop].len
    /\ iov' = [iov EXCEPT ![iop] = [base |-> @.base + rem, len |-> @.len - rem]]
    /\ pc' = "write"
    /\ UNCHANGED <<sliceVars, iop, kernelVars, rem, open, interrupts, file>>

Advanced ==
    /\ pc = "advance"
    /\ rem = 0
    /\ pc' = "write"
    /\ UNCHANGED <<sliceVars, iov, iop, kernelVars, rem, open, interrupts, file>>

(* Faulty: the loop ends one segment early. *)
Written_Early ==
    /\ pc = "write"
    /\ iop >= Len(iov)
    /\ pc' = "close"
    /\ UNCHANGED <<sliceVars, iov, iop, kernelVars, rem, open, interrupts, file>>

Written ==
    /\ pc = "write"
    /\ iop > Len(iov)
    /\ pc' = "close"
    /\ UNCHANGED <<sliceVars, iov, iop, kernelVars, rem, open, interrupts, file>>

(* close gives the descriptor up whether or not it reports an error. *)
Close ==
    /\ pc = "close"
    /\ pc' \in {"ok", "error"}
    /\ open' = FALSE
    /\ UNCHANGED <<sliceVars, iov, iop, kernelVars, rem, interrupts, file>>

Returned == pc \in {"ok", "error", "aborted"}

Terminating == Returned /\ UNCHANGED vars

Step ==
    \/ TooManySlices
    \/ GatherSlice
    \/ Gathered
    \/ Open
    \/ OpenFails
    \/ CallWritev
    \/ CopyByte
    \/ WritevReturns
    \/ WritevInterrupted
    \/ WritevFails
    \/ SkipSegment
    \/ TrimSegment
    \/ Advanced
    \/ Written
    \/ Close

Next == Step \/ Terminating

Spec == Init /\ [][Next]_vars

(* The thread runs, and the kernel completes the calls it is in. *)
FairSpec == Spec /\ WF_vars(Step)

---------------------------------------------------------------------------------

Segments == [base : Nat, len : Nat]

(* What each variable may hold. *)
TypeOK ==
    /\ pc \in {"gather", "open", "write", "kernel", "advance", "close", "ok", "error",
               "aborted"}
    /\ data \in Seq(Nat)
    /\ next \in 0 .. Len(data)
    /\ total \in Nat
    /\ iov \in Seq(Segments)
    /\ iop \in 1 .. Len(iov) + 1
    /\ segment \in 1 .. Len(iov) + 1
    /\ offset \in Nat
    /\ amt \in Nat
    /\ rem \in Nat
    /\ open \in BOOLEAN
    /\ interrupts \in 0 .. MaxInterrupts
    /\ file \in Seq(Nat \cup {Old})

AsBefore == \A n \in 1 .. Len(file) : file[n] = Old

IsPrefix ==
    /\ \A n \in 1 .. Len(file) : file[n] = n - 1
    /\ Len(file) <= total

(***************************************************************************)
(* Whenever the call stops, by an error or by the process being killed,    *)
(* the file is as it was before, or it holds a prefix of the slices: no    *)
(* byte twice, none left out, none from another place and none of before,  *)
(* however the kernel cuts the writes.  Once it is open it is the latter.  *)
(***************************************************************************)
FileIsPrefix ==
    CASE pc \in {"gather", "open", "aborted"} -> AsBefore
      [] pc = "error" -> AsBefore \/ IsPrefix
      [] OTHER -> IsPrefix

(* Success is reported for a whole file only, and with nothing left open. *)
WholeOnSuccess ==
    pc = "ok" => next = Len(data) /\ Len(file) = total /\ ~open

(***************************************************************************)
(* The loop that skips what was written reads iop->iov_len; it never does  *)
(* at ioq, one past the segments, where iov is not initialised.            *)
(***************************************************************************)
AdvanceInBounds == pc = "advance" /\ rem > 0 => iop <= Len(iov)

(* The call returns, short writes and interruptions notwithstanding. *)
Termination == <>Returned
=================================================================================
