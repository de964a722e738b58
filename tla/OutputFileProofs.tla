----------------------------- MODULE OutputFileProofs -----------------------------
(***************************************************************************)
(* output_file_write leaves a prefix of its slices in the file whenever it *)
(* stops, and all of them when it reports success, for every list of       *)
(* slices and every way the kernel cuts the writes.                        *)
(***************************************************************************)
EXTENDS OutputFile, TLAPS

(* The first byte of segment s; past the segments, the end of the slices. *)
Start(s) == IF s <= Len(iov) THEN iov[s].base ELSE total

(* The segments that are left are not empty and follow each other, up to the end. *)
Laid ==
    /\ \A s \in iop .. Len(iov) :
         /\ iov[s].len > 0
         /\ Start(s + 1) = iov[s].base + iov[s].len
    /\ \A s \in 1 .. Len(iov) + 1 : Start(s) <= total

(* How far each loop has come, in bytes of the file. *)
Position ==
    /\ pc \in {"gather", "open"} => iop = 1 /\ Start(1) = 0
    /\ pc = "write" => Len(file) = Start(iop)
    /\ pc = "kernel" =>
         /\ Len(file) = Start(iop) + amt
         /\ Len(file) = Start(segment) + offset
         /\ segment >= iop
         /\ segment <= Len(iov) => offset < iov[segment].len
         /\ segment > Len(iov) => offset = 0
    /\ pc = "advance" => Len(file) = Start(iop) + rem
    /\ pc \in {"close", "ok"} => Len(file) = total

Gone ==
    /\ pc \notin {"gather", "aborted"} => next = Len(data)
    /\ pc = "ok" => ~open

IInv ==
    /\ TypeOK
    /\ Laid
    /\ Position
    /\ Gone
    /\ FileIsPrefix

---------------------------------------------------------------------------------
USE OutputAssumption DEF vars, sliceVars, kernelVars

LEMMA SegmentType ==
  ASSUME TypeOK, NEW s \in 1 .. Len(iov)
  PROVE  iov[s] \in Segments /\ iov[s].base \in Nat /\ iov[s].len \in Nat
  <1>1. iov[s] \in Segments
    BY DEF TypeOK
  <1> QED
    BY <1>1 DEF Segments

LEMMA StartType ==
  ASSUME TypeOK, NEW s \in 1 .. Len(iov) + 1
  PROVE  Start(s) \in Nat
  <1>1. Len(iov) \in Nat /\ total \in Nat
    BY DEF TypeOK
  <1> QED
    BY <1>1, SegmentType DEF Start

(* While something is left to skip, there is a segment to skip it in. *)
LEMMA SegmentThere ==
  ASSUME IInv, pc = "advance", rem > 0
  PROVE  /\ iop \in 1 .. Len(iov)
         /\ iov[iop].base \in Nat /\ iov[iop].len \in Nat
         /\ Start(iop) = iov[iop].base
  <1>1. Len(iov) \in Nat /\ total \in Nat /\ iop \in 1 .. Len(iov) + 1 /\ rem \in Nat
    BY DEF IInv, TypeOK
  <1>2. Start(iop) < total
    BY <1>1, StartType DEF IInv, Position, FileIsPrefix, IsPrefix, AsBefore
  <1>3. iop \in 1 .. Len(iov)
    BY <1>1, <1>2 DEF Start
  <1> QED
    BY <1>3, SegmentType DEF IInv, Start

LEMMA InitInv == Init => IInv
  <1> SUFFICES ASSUME Init PROVE IInv
    OBVIOUS
  <1> USE DEF Init
  <1>1. TypeOK
    <2>1. data \in Seq(Nat) /\ iov \in Seq(Segments) /\ file \in Seq(Nat \cup {Old})
      OBVIOUS
    <2>2. next \in 0 .. Len(data) /\ interrupts \in 0 .. MaxInterrupts
      BY <2>1
    <2>3. iop \in 1 .. Len(iov) + 1 /\ segment \in 1 .. Len(iov) + 1
      OBVIOUS
    <2> QED
      BY <2>1, <2>2, <2>3 DEF TypeOK
  <1>2. Laid /\ Position
    BY DEF Laid, Position, Start
  <1>3. Gone /\ FileIsPrefix
    BY DEF Gone, FileIsPrefix, IsPrefix, AsBefore
  <1> QED
    BY <1>1, <1>2, <1>3 DEF IInv

LEMMA TooManySlicesInv == IInv /\ TooManySlices => IInv'
  <1> SUFFICES ASSUME IInv, TooManySlices PROVE IInv'
    OBVIOUS
  <1> USE DEF IInv, TooManySlices
  <1>1. TypeOK'
    BY DEF TypeOK
  <1>2. (Laid /\ FileIsPrefix)'
    BY DEF TypeOK, Laid, Position, Start, FileIsPrefix, IsPrefix, AsBefore
  <1>3. (Position /\ Gone)'
    BY DEF TypeOK, Laid, Position, Start, Gone
  <1> QED
    BY <1>1, <1>2, <1>3

LEMMA GatherSliceInv == IInv /\ GatherSlice => IInv'
  <1> SUFFICES ASSUME IInv, GatherSlice PROVE IInv'
    OBVIOUS
  <1> USE DEF IInv, GatherSlice
  <1> DEFINE size == data[next + 1]
  <1>1. TypeOK'
    <2>1. size \in Nat
      BY SMTT(60) DEF TypeOK
    <2>a. [base |-> total, len |-> size] \in Segments
      BY <2>1 DEF TypeOK, Segments
    <2>2. iov' \in Seq(Segments) /\ Len(iov) <= Len(iov')
      BY <2>a DEF TypeOK
    <2>3. next' \in 0 .. Len(data)
      BY DEF TypeOK
    <2>4. total' \in Nat
      BY SMTT(60), <2>1 DEF TypeOK
    <2> QED
      BY SMTT(60), <2>2, <2>3, <2>4 DEF TypeOK
  <1>2. Laid'
    <2>1. size \in Nat /\ total \in Nat /\ iov \in Seq(Segments) /\ iop = 1
      BY SMTT(60) DEF TypeOK, Position
    <2>2. CASE size = 0
      BY <2>1, <2>2 DEF Laid, Start
    <2>3. CASE size > 0
      <3>0. PICK n \in Nat : n = Len(iov)
        BY <2>1
      <3>1. /\ Len(iov') = n + 1
            /\ iov'[n + 1] = [base |-> total, len |-> size]
            /\ \A s \in 1 .. n : iov'[s] = iov[s]
        BY <2>1, <2>3, <3>0
      <3>2. total' = total + size
        OBVIOUS
      <3>3. \A s \in 1 .. n + 1 : Start(s)' = Start(s)
        BY <2>1, <3>0, <3>1 DEF Start
      <3>4. Start(n + 2)' = total + size
        BY <2>1, <3>0, <3>1, <3>2 DEF Start
      <3>5. \A s \in 1 .. n + 1 : Start(s) \in Nat /\ Start(s) <= total
        BY <3>0, StartType DEF Laid
      <3>6. \A s \in 1 .. n + 1 :
              iov'[s].len > 0 /\ Start(s + 1)' = iov'[s].base + iov'[s].len
        <4>1. \A s \in 1 .. n : iov[s].len > 0 /\ Start(s + 1) = iov[s].base + iov[s].len
          BY <2>1, <3>0 DEF Laid
        <4>2. \A s \in 1 .. n : Start(s + 1)' = Start(s + 1)
          BY <3>3, <3>0
        <4>3. iov'[n + 1].len > 0 /\ Start(n + 2)' = iov'[n + 1].base + iov'[n + 1].len
          BY <2>3, <3>1, <3>4
        <4> HIDE DEF IInv, GatherSlice, size
        <4> QED
          BY <3>1, <4>1, <4>2, <4>3
      <3>7. \A s \in 1 .. n + 2 : Start(s)' <= total'
        <4> HIDE DEF IInv, GatherSlice, size
        <4>1. \A s \in 1 .. n + 1 : Start(s)' <= total'
          BY <2>1, <3>2, <3>3, <3>5
        <4>2. Start(n + 2)' <= total'
          BY <2>1, <3>2, <3>4
        <4> QED
          BY <4>1, <4>2
      <3> QED
        BY SMTT(60), <2>1, <3>0, <3>1, <3>6, <3>7 DEF Laid
    <2> QED
      BY <2>1, <2>2, <2>3
  <1>3. Position'
    BY SMTT(60) DEF TypeOK, Laid, Position, Start
  <1>4. Gone'
    BY DEF TypeOK, Gone
  <1>5. FileIsPrefix'
    BY SMTT(60) DEF TypeOK, Laid, Position, Start, FileIsPrefix, IsPrefix, AsBefore
  <1> QED
    BY <1>1, <1>2, <1>3, <1>4, <1>5

LEMMA GatheredInv == IInv /\ Gathered => IInv'
  <1> SUFFICES ASSUME IInv, Gathered PROVE IInv'
    OBVIOUS
  <1> USE DEF IInv, Gathered
  <1>1. TypeOK'
    BY DEF TypeOK
  <1>2. (Laid /\ FileIsPrefix)'
    BY DEF TypeOK, Laid, Position, Start, FileIsPrefix, IsPrefix, AsBefore
  <1>3. (Position /\ Gone)'
    BY DEF TypeOK, Laid, Position, Start, Gone
  <1> QED
    BY <1>1, <1>2, <1>3

LEMMA OpenInv == IInv /\ Open => IInv'
  <1> SUFFICES ASSUME IInv, Open PROVE IInv'
    OBVIOUS
  <1> USE DEF IInv, Open
  <1>1. TypeOK'
    BY DEF TypeOK
  <1>2. (Laid /\ FileIsPrefix)'
    BY DEF TypeOK, Laid, Position, Start, FileIsPrefix, IsPrefix, AsBefore
  <1>3. (Position /\ Gone)'
    BY DEF TypeOK, Laid, Position, Start, Gone
  <1> QED
    BY <1>1, <1>2, <1>3

LEMMA OpenFailsInv == IInv /\ OpenFails => IInv'
  <1> SUFFICES ASSUME IInv, OpenFails PROVE IInv'
    OBVIOUS
  <1> USE DEF IInv, OpenFails
  <1>1. TypeOK'
    BY DEF TypeOK
  <1>2. (Laid /\ FileIsPrefix)'
    BY DEF TypeOK, Laid, Position, Start, FileIsPrefix, IsPrefix, AsBefore
  <1>3. (Position /\ Gone)'
    BY DEF TypeOK, Laid, Position, Start, Gone
  <1> QED
    BY <1>1, <1>2, <1>3

LEMMA CallWritevInv == IInv /\ CallWritev => IInv'
  <1> SUFFICES ASSUME IInv, CallWritev PROVE IInv'
    OBVIOUS
  <1> USE DEF IInv, CallWritev
  <1>1. TypeOK'
    BY DEF TypeOK
  <1>2. Laid'
    BY DEF TypeOK, Laid, Position, Start
  <1>3. Position'
    BY DEF TypeOK, Laid, Position, Start
  <1>4. Gone'
    BY DEF TypeOK, Gone
  <1>5. FileIsPrefix'
    BY DEF TypeOK, Laid, Position, Start, FileIsPrefix, IsPrefix, AsBefore
  <1> QED
    BY <1>1, <1>2, <1>3, <1>4, <1>5

LEMMA CopyByteInv == IInv /\ CopyByte => IInv'
  <1> SUFFICES ASSUME IInv, CopyByte PROVE IInv'
    OBVIOUS
  <1> USE DEF IInv, CopyByte
  <1>0. /\ segment \in 1 .. Len(iov)
        /\ iov[segment].base \in Nat /\ iov[segment].len \in Nat
        /\ Start(segment) = iov[segment].base
        /\ offset < iov[segment].len
        /\ Start(segment + 1) = iov[segment].base + iov[segment].len
        /\ Start(segment + 1) <= total
        /\ Len(file) = iov[segment].base + offset
    <2>1. segment \in 1 .. Len(iov) /\ segment \in iop .. Len(iov)
      BY DEF TypeOK, Position
    <2> QED
      BY <2>1, SegmentType DEF Laid, Position, Start
  <1>t. /\ offset \in Nat /\ amt \in Nat /\ total \in Nat /\ Len(iov) \in Nat
        /\ iop \in 1 .. Len(iov) + 1
    BY DEF TypeOK
  <1>l. /\ Len(file') = Len(file) + 1
        /\ file'[Len(file) + 1] = Len(file)
        /\ \A n \in 1 .. Len(file) : file'[n] = file[n]
    <2>1. file \in Seq(Nat \cup {Old}) /\ file' = Append(file, Len(file))
      BY <1>0 DEF TypeOK
    <2> QED
      BY <2>1
  <1>1. TypeOK'
    <2>1. file' \in Seq(Nat \cup {Old}) /\ amt' \in Nat /\ offset' \in Nat
      BY SMTT(60), <1>0 DEF TypeOK
    <2>2. segment' \in 1 .. Len(iov) + 1
      BY SMTT(60), <1>0 DEF TypeOK
    <2> QED
      BY <2>1, <2>2 DEF TypeOK
  <1>2. Laid'
    BY DEF TypeOK, Laid, Position, Start
  <1>3. Position'
    <2>2. Start(iop) \in Nat /\ Start(iop)' = Start(iop)
      BY <1>t, StartType DEF Start
    <2>a. segment' = segment => Start(segment)' = Start(segment)
      BY DEF Start
    <2>b. segment' = segment + 1 => Start(segment)' = Start(segment + 1)
      BY DEF Start
    <2>3. Len(file') = Start(iop)' + amt'
      BY <1>0, <1>t, <1>l, <2>2 DEF Position
    <2>4. CASE offset + 1 < iov[segment].len
      <3>1. offset' = offset + 1 /\ segment' = segment
        BY <2>4
      <3>2. Len(file') = Start(segment)' + offset'
        <4> HIDE DEF IInv, CopyByte
        <4> QED
          BY SMTT(60), <1>0, <1>t, <1>l, <2>a, <3>1
      <3> QED
        BY <1>0, <1>t, <2>3, <2>4, <3>1, <3>2 DEF Position
    <2>5. CASE ~(offset + 1 < iov[segment].len)
      <3>1. offset + 1 = iov[segment].len /\ segment' = segment + 1 /\ offset' = 0
        <4> HIDE DEF IInv
        <4> QED
          BY SMTT(60), <1>0, <1>t, <2>5
      <3>2. segment' <= Len(iov) => 0 < iov[segment'].len
        BY SMTT(60), <1>0, <1>t, <3>1 DEF Laid, Position
      <3>3. Len(file') = Start(segment)'
        <4> HIDE DEF IInv, CopyByte
        <4>1. Len(file') = iov[segment].base + iov[segment].len
          <5>1. Len(file') = iov[segment].base + offset + 1
            BY <1>0, <1>t, <1>l
          <5>2. /\ iov[segment].base \in Nat /\ offset \in Nat
                /\ offset + 1 = iov[segment].len
            BY <1>0, <1>t, <3>1
          <5> QED
            BY SMTT(60), <5>1, <5>2
        <4>2. Start(segment)' = iov[segment].base + iov[segment].len
          BY <1>0, <2>b, <3>1
        <4> QED
          BY <4>1, <4>2
      <3> QED
        BY <1>0, <1>t, <2>3, <3>1, <3>2, <3>3 DEF Position
    <2> QED
      BY <2>4, <2>5
  <1>4. Gone'
    BY DEF TypeOK, Gone
  <1>5. FileIsPrefix'
    <2>0. file \in Seq(Nat \cup {Old})
      BY DEF TypeOK
    <2>1. Len(file) \in Nat /\ Len(file') <= total
      <3> HIDE DEF IInv, CopyByte
      <3>1. Len(file) < total
        BY SMTT(60), <1>0, <1>t
      <3> QED
        BY <3>1, <2>0, <1>l, <1>t
    <2> QED
      BY <1>l, <2>1 DEF FileIsPrefix, IsPrefix, AsBefore
  <1> QED
    BY <1>1, <1>2, <1>3, <1>4, <1>5

LEMMA WritevReturnsInv == IInv /\ WritevReturns => IInv'
  <1> SUFFICES ASSUME IInv, WritevReturns PROVE IInv'
    OBVIOUS
  <1> USE DEF IInv, WritevReturns
  <1>1. TypeOK'
    BY DEF TypeOK
  <1>2. (Laid /\ FileIsPrefix)'
    BY DEF TypeOK, Laid, Position, Start, FileIsPrefix, IsPrefix, AsBefore
  <1>3. (Position /\ Gone)'
    BY DEF TypeOK, Laid, Position, Start, Gone
  <1> QED
    BY <1>1, <1>2, <1>3

LEMMA WritevInterruptedInv == IInv /\ WritevInterrupted => IInv'
  <1> SUFFICES ASSUME IInv, WritevInterrupted PROVE IInv'
    OBVIOUS
  <1> USE DEF IInv, WritevInterrupted
  <1>1. TypeOK'
    BY DEF TypeOK
  <1>2. Laid'
    BY DEF TypeOK, Laid, Position, Start
  <1>3. Position'
    <2>1. Len(file) = Start(iop)
      BY StartType DEF TypeOK, Position
    <2>2. Start(iop)' = Start(iop)
      BY DEF Start
    <2> QED
      BY <2>1, <2>2 DEF Position
  <1>4. Gone'
    BY DEF TypeOK, Gone
  <1>5. FileIsPrefix'
    BY DEF TypeOK, Laid, Position, Start, FileIsPrefix, IsPrefix, AsBefore
  <1> QED
    BY <1>1, <1>2, <1>3, <1>4, <1>5

LEMMA WritevFailsInv == IInv /\ WritevFails => IInv'
  <1> SUFFICES ASSUME IInv, WritevFails PROVE IInv'
    OBVIOUS
  <1> USE DEF IInv, WritevFails
  <1>1. TypeOK'
    BY DEF TypeOK
  <1>2. (Laid /\ FileIsPrefix)'
    BY DEF TypeOK, Laid, Position, Start, FileIsPrefix, IsPrefix, AsBefore
  <1>3. (Position /\ Gone)'
    BY DEF TypeOK, Laid, Position, Start, Gone
  <1> QED
    BY <1>1, <1>2, <1>3

LEMMA SkipSegmentInv == IInv /\ SkipSegment => IInv'
  <1> SUFFICES ASSUME IInv, SkipSegment PROVE IInv'
    OBVIOUS
  <1> USE DEF IInv, SkipSegment
  <1>0. /\ iop \in 1 .. Len(iov)
        /\ iov[iop].base \in Nat /\ iov[iop].len \in Nat
        /\ Start(iop) = iov[iop].base
    BY SegmentThere DEF TypeOK
  <1>1. TypeOK'
    <2>1. rem' \in Nat /\ iop' \in 1 .. Len(iov) + 1
      BY SMTT(60), <1>0 DEF TypeOK
    <2> QED
      BY <2>1 DEF TypeOK
  <1>2. Laid'
    <2>1. Len(iov) \in Nat
      BY DEF TypeOK
    <2>2. \A s \in 1 .. Len(iov) + 1 : Start(s)' = Start(s)
      BY DEF Start
    <2>3. \A s \in iop + 1 .. Len(iov) :
            iov[s].len > 0 /\ Start(s + 1) = iov[s].base + iov[s].len
      BY <2>1, <1>0 DEF Laid
    <2> QED
      BY <2>1, <2>2, <2>3, <1>0 DEF Laid
  <1>3. Position'
    <2>1. Start(iop + 1) = iov[iop].base + iov[iop].len
      <3>1. iop \in iop .. Len(iov)
        BY <1>0
      <3> QED
        BY <3>1 DEF Laid
    <2>2. Start(iop)' = Start(iop + 1)
      BY DEF Start
    <2>3. Len(file) = Start(iop) + rem
      BY DEF Position
    <2>4. Len(file') = Start(iop)' + rem'
      BY SMTT(60), <1>0, <2>1, <2>2, <2>3 DEF TypeOK
    <2> QED
      BY <2>4 DEF Position
  <1>4. Gone'
    BY DEF TypeOK, Gone
  <1>5. FileIsPrefix'
    BY DEF TypeOK, Laid, Position, Start, FileIsPrefix, IsPrefix, AsBefore
  <1> QED
    BY <1>1, <1>2, <1>3, <1>4, <1>5

LEMMA TrimSegmentInv == IInv /\ TrimSegment => IInv'
  <1> SUFFICES ASSUME IInv, TrimSegment PROVE IInv'
    OBVIOUS
  <1> USE DEF IInv, TrimSegment
  <1>0. /\ iop \in 1 .. Len(iov)
        /\ iov[iop].base \in Nat /\ iov[iop].len \in Nat
        /\ Start(iop) = iov[iop].base
    BY SegmentThere DEF TypeOK
  <1>a. /\ Len(iov') = Len(iov)
        /\ iov'[iop] = [base |-> iov[iop].base + rem, len |-> iov[iop].len - rem]
        /\ \A s \in 1 .. Len(iov) : s # iop => iov'[s] = iov[s]
    BY <1>0 DEF TypeOK
  <1>b. Start(iop + 1) = iov[iop].base + iov[iop].len
    BY <1>0 DEF Laid
  <1>c. \A s \in 1 .. Len(iov) + 1 : s # iop => Start(s)' = Start(s)
    BY <1>a DEF TypeOK, Start
  <1>d. Start(iop)' = Start(iop) + rem
    BY <1>0, <1>a DEF Start
  <1>1. TypeOK'
    <2>0. rem \in Nat
      BY DEF TypeOK
    <2>a. iov[iop].base + rem \in Nat /\ iov[iop].len - rem \in Nat
      BY <2>0, <1>0
    <2>1. iov'[iop] \in Segments
      BY <2>a, <1>a DEF Segments
    <2>2. iov' \in Seq(Segments)
      BY <2>1, <1>0, <1>a DEF TypeOK
    <2> QED
      BY <2>2, <1>a DEF TypeOK
  <1>2. Laid'
    <2>0. rem \in Nat /\ total \in Nat /\ Len(iov) \in Nat
      BY DEF TypeOK
    <2>a. iov'[iop].len > 0 /\ Start(iop + 1)' = iov'[iop].base + iov'[iop].len
      <3>1. rem < iov[iop].len
        OBVIOUS
      <3>2. Start(iop + 1)' = Start(iop + 1)
        BY <2>0, <1>0, <1>c
      <3> HIDE DEF IInv, TrimSegment
      <3> QED
        BY SMTT(60), <2>0, <1>0, <1>a, <1>b, <3>1, <3>2
    <2>b. \A s \in iop + 1 .. Len(iov) :
            iov'[s].len > 0 /\ Start(s + 1)' = iov'[s].base + iov'[s].len
      BY <2>0, <1>0, <1>a, <1>c DEF Laid
    <2>1. \A s \in iop .. Len(iov) :
            iov'[s].len > 0 /\ Start(s + 1)' = iov'[s].base + iov'[s].len
      BY <2>a, <2>b, <2>0, <1>0
    <2>2. Start(iop)' <= total
      <3>1. rem < iov[iop].len
        OBVIOUS
      <3>2. Start(iop + 1) <= total
        BY <2>0, <1>0 DEF Laid
      <3> HIDE DEF IInv, TrimSegment
      <3> QED
        BY <2>0, <1>0, <1>b, <1>d, <3>1, <3>2
    <2>3. \A s \in 1 .. Len(iov) + 1 : Start(s)' <= total
      BY <2>2, <1>c DEF Laid
    <2> QED
      BY <2>1, <2>3, <1>a DEF Laid
  <1>3. Position'
    BY <1>d DEF Position
  <1>4. Gone'
    BY DEF TypeOK, Gone
  <1>5. FileIsPrefix'
    BY DEF TypeOK, Laid, Position, Start, FileIsPrefix, IsPrefix, AsBefore
  <1> QED
    BY <1>1, <1>2, <1>3, <1>4, <1>5

LEMMA AdvancedInv == IInv /\ Advanced => IInv'
  <1> SUFFICES ASSUME IInv, Advanced PROVE IInv'
    OBVIOUS
  <1> USE DEF IInv, Advanced
  <1>1. TypeOK'
    BY DEF TypeOK
  <1>2. Laid'
    BY DEF TypeOK, Laid, Position, Start
  <1>3. Position'
    <2>1. Len(file) = Start(iop)
      BY StartType DEF TypeOK, Position
    <2>2. Start(iop)' = Start(iop)
      BY DEF Start
    <2> QED
      BY <2>1, <2>2 DEF Position
  <1>4. Gone'
    BY DEF TypeOK, Gone
  <1>5. FileIsPrefix'
    BY DEF TypeOK, Laid, Position, Start, FileIsPrefix, IsPrefix, AsBefore
  <1> QED
    BY <1>1, <1>2, <1>3, <1>4, <1>5

LEMMA WrittenInv == IInv /\ Written => IInv'
  <1> SUFFICES ASSUME IInv, Written PROVE IInv'
    OBVIOUS
  <1> USE DEF IInv, Written
  <1>1. TypeOK'
    BY DEF TypeOK
  <1>2. (Laid /\ FileIsPrefix)'
    BY DEF TypeOK, Laid, Position, Start, FileIsPrefix, IsPrefix, AsBefore
  <1>3. (Position /\ Gone)'
    BY DEF TypeOK, Laid, Position, Start, Gone
  <1> QED
    BY <1>1, <1>2, <1>3

LEMMA CloseInv == IInv /\ Close => IInv'
  <1> SUFFICES ASSUME IInv, Close PROVE IInv'
    OBVIOUS
  <1> USE DEF IInv, Close
  <1>1. TypeOK'
    BY DEF TypeOK
  <1>2. (Laid /\ FileIsPrefix)'
    BY DEF TypeOK, Laid, Position, Start, FileIsPrefix, IsPrefix, AsBefore
  <1>3. (Position /\ Gone)'
    BY DEF TypeOK, Laid, Position, Start, Gone
  <1> QED
    BY <1>1, <1>2, <1>3

---------------------------------------------------------------------------------

LEMMA NextInv == IInv /\ [Next]_vars => IInv'
  <1> SUFFICES ASSUME IInv, [Next]_vars PROVE IInv'
    OBVIOUS
  <1>1. CASE Step
    BY <1>1, TooManySlicesInv, GatherSliceInv, GatheredInv, OpenInv, OpenFailsInv,
       CallWritevInv, CopyByteInv, WritevReturnsInv, WritevInterruptedInv,
       WritevFailsInv, SkipSegmentInv, TrimSegmentInv, AdvancedInv, WrittenInv, CloseInv
    DEF Step
  <1>2. CASE UNCHANGED vars
    BY <1>2 DEF IInv, TypeOK, Laid, Position, Start, Gone, FileIsPrefix, IsPrefix, AsBefore
  <1> QED
    BY <1>1, <1>2 DEF Next, Terminating

(* file.c keeps the inductive invariant. *)
THEOREM OutputInvariant == Spec => []IInv
  BY InitInv, NextInv, PTL DEF Spec

(* The pointers of output_file_write stay within iov, or one past its segments. *)
THEOREM OutputTypes == Spec => []TypeOK
  <1>1. IInv => TypeOK
    BY DEF IInv
  <1> QED
    BY <1>1, OutputInvariant, PTL

(* Wherever output_file_write stops, the file holds a prefix of its slices. *)
THEOREM OutputIsPrefix == Spec => []FileIsPrefix
  <1>1. IInv => FileIsPrefix
    BY DEF IInv
  <1> QED
    BY <1>1, OutputInvariant, PTL

(* output_file_write returns 0 for a whole file only. *)
THEOREM OutputIsWhole == Spec => []WholeOnSuccess
  <1>1. IInv => WholeOnSuccess
    BY DEF IInv, Position, Gone, WholeOnSuccess
  <1> QED
    BY <1>1, OutputInvariant, PTL

(* The loop over iop stops before it reads past the segments. *)
THEOREM OutputInBounds == Spec => []AdvanceInBounds
  <1>1. IInv => AdvanceInBounds
    BY SegmentThere DEF AdvanceInBounds
  <1> QED
    BY <1>1, OutputInvariant, PTL
=================================================================================
