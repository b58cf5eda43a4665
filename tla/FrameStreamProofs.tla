------------------------- MODULE FrameStreamProofs -------------------------
(***************************************************************************)
(* Proofs about the frame stream, for every set of frames and payloads,    *)
(* streams of any length, any number of faults and of calls after errors.  *)
(***************************************************************************)
EXTENDS FrameStream, SequenceTheorems, TLAPS

\* Nothing has been written.
LEMMA InitEstablishes == Init => IInv
<1> SUFFICES ASSUME Init PROVE IInv
  OBVIOUS
<1> USE DEF Init
<1>1. Len(written) = 0 /\ Len(wire) = 0 /\ Len(delivered) = 0 /\ DOMAIN wire = {}
  OBVIOUS
<1>2. 1..0 = {} /\ \A n : n \notin 1..Len(delivered) /\ n \notin 1..Len(wire)
  BY <1>1
<1>3. TypeOK
  <2>1. written \in Seq(Frame) /\ delivered \in Seq([frame : Frame, origin : Nat])
    OBVIOUS
  <2>2. /\ whole \in 0..Len(written) /\ cursor \in 1..(whole + 1)
        /\ remaining \in Nat /\ faults \in Nat /\ failures \in Nat
    BY <1>1
  <2> QED
    BY <1>1, <2>1, <2>2 DEF TypeOK, Results
<1>4. WireKept /\ NotYetRead
  BY <1>2 DEF WireKept, NotYetRead
<1>5. Counted /\ Passed /\ Spread
  BY <1>1, <1>2 DEF Counted, Passed, Spread
<1>6. InStep
  BY <1>1, <1>2 DEF InStep
<1>7. Intact /\ InOrderOnce /\ PrefixUntilFailure
  BY <1>2 DEF Intact, InOrderOnce, PrefixUntilFailure
<1> QED
  BY <1>3, <1>4, <1>5, <1>6, <1>7 DEF IInv

\* The stream on the wire has one encoded frame for each frame written.
LEMMA WireIsTyped ==
  ASSUME IInv, phase # "writing"
  PROVE  /\ Len(wire) = Len(written) /\ Len(written) \in Nat
         /\ DOMAIN wire = 1..Len(wire)
         /\ \A i \in 1..Len(wire) : wire[i] \in EncodedFrame
<1> USE DEF IInv, TypeOK, WireKept
<1>1. wire \in Seq(EncodedFrame) /\ written \in Seq(Frame)
  OBVIOUS
<1>2. Len(wire) \in Nat /\ Len(written) \in Nat /\ DOMAIN wire = 1..Len(wire)
  BY <1>1
<1>3. 1..Len(wire) = 1..Len(written)
  BY <1>2 DEF FrameIndex
<1>4. Len(wire) = Len(written)
  BY <1>2, <1>3
<1> QED
  BY <1>1, <1>2, <1>4

\* Until the stream is opened, there is nothing to say of what was read.
LEMMA BeforeReading ==
  ASSUME TypeOK', WireKept', NotYetRead', Counted', (part => whole < Len(wire))',
         phase' \in {"writing", "transport"}
  PROVE  IInv'
<1>1. /\ Len(delivered') = 0 /\ \A n : n \notin 1..Len(delivered')
      /\ cursor' = 1 /\ aligned' /\ failures' = 0
  BY DEF NotYetRead
<1>2. Passed' /\ Spread'
  BY <1>1 DEF Passed, Spread
<1>3. InStep'
  <2>1. \A i \in 1..Len(wire') : ~ (i < cursor')
    BY <1>1 DEF WireKept
  <2> QED
    BY <1>1, <2>1 DEF InStep
<1>4. Intact' /\ InOrderOnce' /\ PrefixUntilFailure'
  BY <1>1 DEF Intact, InOrderOnce, PrefixUntilFailure
<1> QED
  BY <1>2, <1>3, <1>4 DEF IInv

LEMMA PushStep ==
  ASSUME IInv, NEW f \in Writable, Push(f)
  PROVE  IInv'
<1> USE DEF IInv, Push, wireVars, readerVars
<1>1. written' \in Seq(Frame) /\ Len(written') = Len(written) + 1 /\ Len(written) \in Nat
  BY StreamConstants DEF TypeOK
<1>2. DOMAIN wire = {} /\ Len(wire) = 0
  <2>1. DOMAIN wire = {} /\ wire \in Seq(EncodedFrame)
    BY DEF TypeOK, WireKept
  <2> QED
    BY <2>1
<1>3. TypeOK'
  BY <1>1, <1>2 DEF TypeOK
<1>4. WireKept'
  BY <1>2 DEF WireKept
<1>5. NotYetRead' /\ Counted' /\ (part => whole < Len(wire))'
  BY DEF NotYetRead, Counted, InStep
<1> QED
  BY <1>3, <1>4, <1>5, BeforeReading

LEMMA FinishStep == IInv /\ Finish => IInv'
<1> SUFFICES ASSUME IInv, Finish PROVE IInv'
  OBVIOUS
<1> USE DEF IInv, Finish
<1> DEFINE n == Len(written)
<1>1. n \in Nat /\ \A i \in 1..n : written[i] \in Frame
  BY DEF TypeOK
<1>2. \A i \in 1..n : Encode(written[i]) \in EncodedFrame
  BY <1>1 DEF Frame, Encode, EncodedFrame
<1>3. wire' \in Seq(EncodedFrame) /\ Len(wire') = n
  <2>1. wire' \in [1..n -> EncodedFrame]
    BY <1>2
  <2> QED
    BY <1>1, <2>1
<1>4. TypeOK'
  BY <1>1, <1>2, <1>3 DEF TypeOK, FrameIndex, NotYetRead, EncodedFrame
<1>5. WireKept'
  BY <1>1, <1>3 DEF WireKept, Encode
<1>6. NotYetRead' /\ Counted' /\ (part => whole < Len(wire))'
  <2>1. ~ part
    BY DEF InStep, TypeOK, WireKept
  <2> QED
    BY <1>1, <2>1 DEF NotYetRead, Counted
<1> QED
  BY <1>4, <1>5, <1>6, BeforeReading

\* A fault does not change the checksum of a payload.
LEMMA FaultStep ==
  ASSUME IInv, Fault,
         wire' \in Seq(EncodedFrame), Len(wire') = Len(wire),
         \A i \in 1..Len(wire) : wire'[i].payload_checksum = wire[i].payload_checksum,
         whole' \in 0..whole, part' \in BOOLEAN, part' => part \/ whole' < whole
  PROVE  IInv'
<1> USE DEF Fault, readerVars
<1>1. /\ Len(wire) = Len(written) /\ Len(written) \in Nat /\ whole \in 0..Len(written)
      /\ DOMAIN wire' = 1..Len(written)
      /\ \A i \in 1..Len(written) : wire'[i] \in EncodedFrame
  BY WireIsTyped DEF IInv, TypeOK
<1>2. TypeOK'
  <2>1. /\ phase' = "transport" /\ written' = written /\ faults' \in Nat
        /\ written \in Seq(Frame)
    BY StreamConstants DEF IInv, TypeOK
  <2>2. /\ DOMAIN wire' = (FrameIndex)' /\ \A i \in DOMAIN wire' : wire'[i] \in EncodedFrame
    BY <1>1, <2>1 DEF FrameIndex
  <2>3. /\ cursor' = 1 /\ aligned' = TRUE /\ failures' = 0 /\ result' = "none"
        /\ delivered' = delivered /\ remaining' = remaining
        /\ delivered \in Seq([frame : Frame, origin : Nat]) /\ remaining \in Nat
    BY DEF IInv, TypeOK, NotYetRead
  <2>4. whole' \in 0..Len(written') /\ cursor' \in 1..(whole' + 1)
    BY <1>1, <2>1, <2>3
  <2> QED
    <3>1. (result \in Results)' /\ (failures \in Nat)' /\ (aligned \in BOOLEAN)'
      BY <2>3 DEF Results
    <3> QED
      BY <2>1, <2>2, <2>3, <2>4, <3>1 DEF TypeOK
<1>3. WireKept'
  BY <1>1 DEF IInv, WireKept
<1>4. NotYetRead' /\ Counted' /\ (part => whole < Len(wire))'
  BY <1>1 DEF IInv, NotYetRead, Counted, InStep
<1> QED
  BY <1>2, <1>3, <1>4, BeforeReading

\* Damage to one frame is such a fault.
LEMMA DamageStep ==
  ASSUME IInv, NEW i \in 1..Len(wire),
         DamagePayload(i) \/ DamageKind(i) \/ DamageLength(i) \/ DamageDescription(i)
  PROVE  IInv'
<1> USE DEF Fault
<1>1. /\ wire \in Seq(EncodedFrame) /\ wire[i] \in EncodedFrame
      /\ whole \in 0..whole /\ part \in BOOLEAN /\ Len(wire) \in Nat
  BY DEF IInv, TypeOK, WireKept, DamagePayload, DamageKind, DamageLength, DamageDescription
<1>2. PICK e \in EncodedFrame :
        /\ wire' = [wire EXCEPT ![i] = e]
        /\ e.payload_checksum = wire[i].payload_checksum
  <2>1. CASE DamagePayload(i)
    <3>1. PICK p \in Payloads : wire' = [wire EXCEPT ![i].payload = p]
      BY <2>1 DEF DamagePayload
    <3> DEFINE d == [wire[i] EXCEPT !.payload = p]
    <3>2. /\ d \in EncodedFrame
          /\ d.payload_checksum = wire[i].payload_checksum
      BY <1>1 DEF EncodedFrame
    <3>3. wire' = [wire EXCEPT ![i] = d]
      BY <3>1
    <3> QED
      BY <3>2, <3>3
  <2>2. CASE DamageKind(i)
    <3>1. PICK k \in FrameKind \cup {UnknownKind} : wire' = [wire EXCEPT ![i].kind = k]
      BY <2>2 DEF DamageKind
    <3> DEFINE d == [wire[i] EXCEPT !.kind = k]
    <3>2. /\ d \in EncodedFrame
          /\ d.payload_checksum = wire[i].payload_checksum
      BY <1>1 DEF EncodedFrame
    <3>3. wire' = [wire EXCEPT ![i] = d]
      BY <3>1
    <3> QED
      BY <3>2, <3>3
  <2>3. CASE DamageLength(i)
    <3> DEFINE d == [wire[i] EXCEPT !.sized = FALSE]
    <3>1. /\ d \in EncodedFrame
          /\ d.payload_checksum = wire[i].payload_checksum
      BY <1>1 DEF EncodedFrame
    <3>2. wire' = [wire EXCEPT ![i] = d]
      BY <2>3 DEF DamageLength
    <3> QED
      BY <3>1, <3>2
  <2>4. CASE DamageDescription(i)
    <3>1. wire[i].metadata \in ChunkMetadata
      BY <1>1, <2>4 DEF DamageDescription, EncodedFrame
    <3>2. PICK n \in {wire[i].metadata.length, 0} \cup {Length[p] : p \in Payloads} :
            \E c \in Payloads :
              wire' = [wire EXCEPT ![i].metadata.length = n, ![i].metadata.checksum = c]
      BY <2>4 DEF DamageDescription
    <3>3. PICK c \in Payloads :
            wire' = [wire EXCEPT ![i].metadata.length = n, ![i].metadata.checksum = c]
      BY <3>2
    <3>4. n \in Nat
      BY <3>1, <3>2, FrameConstants DEF ChunkMetadata
    <3> DEFINE m == [wire[i].metadata EXCEPT !.length = n, !.checksum = c]
               d == [wire[i] EXCEPT !.metadata = m]
    <3>5. m \in ChunkMetadata
      BY <3>1, <3>4 DEF ChunkMetadata
    <3>6. wire' = [wire EXCEPT ![i] = d]
      BY <1>1, <3>1, <3>3 DEF EncodedFrame, ChunkMetadata
    <3> HIDE DEF m
    <3>7. d \in EncodedFrame /\ d.payload_checksum = wire[i].payload_checksum
      BY <1>1, <3>5 DEF EncodedFrame
    <3> QED
      BY <3>6, <3>7
  <2> QED
    BY <2>1, <2>2, <2>3, <2>4
<1>3. /\ wire' \in Seq(EncodedFrame) /\ Len(wire') = Len(wire)
      /\ \A j \in 1..Len(wire) : wire'[j] = IF j = i THEN e ELSE wire[j]
  BY <1>1, <1>2, ExceptSeq
<1>4. Fault /\ whole' = whole /\ part' = part
  BY DEF DamagePayload, DamageKind, DamageLength, DamageDescription
<1>5. \A j \in 1..Len(wire) : wire'[j].payload_checksum = wire[j].payload_checksum
  BY <1>2, <1>3
<1> QED
  BY <1>1, <1>3, <1>4, <1>5, FaultStep

LEMMA TruncateStep == IInv /\ Truncate => IInv'
<1> SUFFICES ASSUME IInv, Truncate PROVE IInv'
  OBVIOUS
<1>1. wire \in Seq(EncodedFrame) /\ whole \in Nat
  BY DEF IInv, TypeOK, WireKept
<1>2. PICK n \in 0..(whole - 1), p \in BOOLEAN : whole' = n /\ part' = p
  BY DEF Truncate
<1>3. Fault /\ wire' = wire
  BY DEF Truncate
<1>4. whole' \in 0..whole /\ whole' < whole /\ part' \in BOOLEAN
  BY <1>1, <1>2
<1> QED
  BY <1>1, <1>3, <1>4, FaultStep

\* The reader starts at the first frame and expects all of them.
LEMMA OpenStep == IInv /\ Open => IInv'
<1> SUFFICES ASSUME IInv, Open PROVE IInv'
  OBVIOUS
<1> USE DEF IInv, Open, wireVars, readerVars
<1>1. /\ delivered' = <<>> /\ cursor' = 1 /\ aligned' /\ failures' = 0
      /\ result' = "none" /\ Len(delivered') = 0 /\ \A n : n \notin 1..Len(delivered')
  BY DEF NotYetRead
<1>2. TypeOK'
  BY DEF TypeOK, FrameIndex
<1>3. WireKept' /\ NotYetRead' /\ Counted'
  BY <1>1 DEF WireKept, NotYetRead, Counted
<1>4. Passed' /\ Spread'
  BY <1>1 DEF Passed, Spread
<1>5. InStep'
  BY DEF InStep, Readable, ReadsWell, Origin
<1>6. Intact' /\ InOrderOnce' /\ PrefixUntilFailure'
  BY <1>1 DEF Intact, InOrderOnce, PrefixUntilFailure
<1> QED
  BY <1>2, <1>3, <1>4, <1>5, <1>6

\* What has come out, and where the cursor stands.
LEMMA WhatCameOut ==
  ASSUME IInv
  PROVE  /\ delivered \in Seq([frame : Frame, origin : Nat]) /\ Len(delivered) \in Nat
         /\ \A n \in 1..Len(delivered) : /\ delivered[n].origin \in Nat
                                         /\ delivered[n].origin < cursor
         /\ cursor \in Nat /\ cursor >= 1 /\ whole \in Nat /\ cursor <= whole + 1
         /\ whole <= Len(written) /\ Len(written) \in Nat
<1>1. /\ delivered \in Seq([frame : Frame, origin : Nat])
      /\ written \in Seq(Frame) /\ whole \in 0..Len(written) /\ cursor \in 1..(whole + 1)
  BY DEF IInv, TypeOK
<1>2. /\ Len(delivered) \in Nat /\ Len(written) \in Nat
      /\ \A n \in 1..Len(delivered) : delivered[n] \in [frame : Frame, origin : Nat]
  <2> DEFINE D == [frame : Frame, origin : Nat]
  <2>1. delivered \in Seq(D) /\ written \in Seq(Frame)
    BY <1>1
  <2> HIDE DEF D
  <2>2. /\ Len(delivered) \in Nat /\ Len(written) \in Nat
        /\ \A n \in 1..Len(delivered) : delivered[n] \in D
    BY <2>1
  <2> QED
    BY <2>2 DEF D
<1>3. \A n \in 1..Len(delivered) : delivered[n].origin \in Nat
  BY <1>2
<1>4. \A n \in 1..Len(delivered) : delivered[n].origin < cursor
  BY DEF IInv, Passed, Origin
<1> QED
  BY <1>1, <1>2, <1>3, <1>4

\* A call that fails leaves what came out as it was.
LEMMA FailStep ==
  ASSUME IInv, Call, NEW error \in Results \ {"end", "none", "frame"}, Fail(error),
         cursor' \in cursor..(whole + 1), aligned' \in BOOLEAN, InStep'
  PROVE  IInv'
<1> USE DEF Call, Fail, wireVars
<1>1. TypeOK /\ cursor \in Nat /\ failures \in Nat /\ whole \in Nat
  BY DEF IInv, TypeOK
<1>2. TypeOK'
  <2>1. cursor' \in 1..(whole' + 1) /\ failures' \in Nat /\ result' \in Results
    BY <1>1 DEF TypeOK
  <2> QED
    BY <1>1, <2>1 DEF TypeOK, FrameIndex
<1>3. WireKept' /\ NotYetRead' /\ Counted'
  BY <1>1 DEF IInv, WireKept, NotYetRead, Counted
<1>4. failures' # 0 /\ cursor <= cursor' /\ cursor' \in Nat
  BY <1>1
<1>5. \A n \in 1..Len(delivered) : delivered[n].origin < cursor'
  BY <1>4, WhatCameOut
<1>6. Passed' /\ PrefixUntilFailure'
  BY <1>4, <1>5 DEF Passed, PrefixUntilFailure, Origin
<1>7. Spread' /\ Intact' /\ InOrderOnce'
  BY DEF IInv, Spread, Intact, InOrderOnce, Origin, FrameIndex
<1> QED
  BY <1>2, <1>3, <1>6, <1>7 DEF IInv

\* A call that returns a frame: the one at the cursor, or a phantom when
\* something has failed before.
LEMMA YieldStep ==
  ASSUME IInv, Call, remaining > 0, NEW f \in Frame, NEW o \in Nat, Yield(f, o),
         cursor' \in cursor..(whole + 1), aligned' \in BOOLEAN,
         o # 0 => /\ o = cursor /\ cursor' = cursor + 1 /\ o \in FrameIndex
                  /\ f.payload = written[o].payload /\ Described(f),
         failures = 0 => o # 0 /\ aligned',
         InStep'
  PROVE  IInv'
<1> USE DEF Call, Yield, wireVars
<1> DEFINE k == Len(delivered)
<1>1. /\ TypeOK /\ cursor \in Nat /\ cursor >= 1 /\ failures \in Nat /\ whole \in Nat
      /\ delivered \in Seq([frame : Frame, origin : Nat]) /\ k \in Nat
      /\ remaining \in Nat
  BY DEF IInv, TypeOK
<1>2. /\ delivered' \in Seq([frame : Frame, origin : Nat]) /\ Len(delivered') = k + 1
      /\ delivered'[k + 1] = [frame |-> f, origin |-> o]
      /\ \A n \in 1..k : delivered'[n] = delivered[n] /\ delivered[n].origin \in Nat
      /\ \A n \in 1..(k + 1) : n \in 1..k \/ n = k + 1
  <2> DEFINE d == [frame |-> f, origin |-> o]
  <2>1. d \in [frame : Frame, origin : Nat] /\ delivered' = Append(delivered, d)
    OBVIOUS
  <2> HIDE DEF d
  <2>2. /\ delivered' \in Seq([frame : Frame, origin : Nat]) /\ Len(delivered') = k + 1
        /\ delivered'[k + 1] = d
        /\ \A n \in 1..k : delivered'[n] = delivered[n]
    BY <1>1, <2>1
  <2> QED
    BY <1>1, <2>2, WhatCameOut DEF d
<1>3. TypeOK'
  <2>1. cursor' \in 1..(whole' + 1)
    BY <1>1
  <2>2. remaining' \in Nat
    BY <1>1
  <2>3. result' \in Results
    BY DEF Results
  <2>4. /\ phase' = phase /\ written' = written /\ wire' = wire /\ whole' = whole
        /\ part' = part /\ faults' = faults /\ failures' = failures
    OBVIOUS
  <2> QED
    BY <1>1, <1>2, <2>1, <2>2, <2>3, <2>4 DEF TypeOK, FrameIndex
<1>4. WireKept' /\ NotYetRead'
  BY DEF IInv, WireKept, NotYetRead
<1>5. Counted'
  <2>1. remaining + k = Len(written)
    BY DEF IInv, Counted
  <2>2. remaining' = remaining - 1 /\ written' = written /\ result' # "end"
    OBVIOUS
  <2>3. (remaining - 1) + (k + 1) = remaining + k
    BY <1>1
  <2> QED
    BY <1>2, <2>1, <2>2, <2>3 DEF Counted
<1>6. \A n \in 1..k : delivered[n].origin < cursor
  BY DEF IInv, Passed, Origin
<1>7. cursor <= cursor' /\ cursor' \in Nat /\ o < cursor' /\ (o # 0 => o = cursor)
  BY <1>1
<1>8. failures = 0 => cursor = k + 1 /\ o = k + 1 /\ cursor' = k + 2 /\ aligned'
  BY <1>1 DEF IInv, Passed
<1>9. Passed'
  <2>1. \A n \in 1..(k + 1) : delivered'[n].origin < cursor'
    BY <1>1, <1>2, <1>6, <1>7
  <2> QED
    BY <1>1, <1>2, <1>8, <2>1 DEF Passed, Origin
<1>10. Spread'
  <2> SUFFICES ASSUME \A n \in 1..(k + 1) : delivered'[n].origin # 0,
                      NEW m \in 1..(k + 1), NEW n \in 1..(k + 1), m <= n
               PROVE  delivered'[m].origin + n <= delivered'[n].origin + m
    BY <1>2 DEF Spread, Origin
  <2>1. o = cursor
    BY <1>1, <1>2
  <2>2. \A i, j \in 1..k : i <= j => delivered[i].origin + j <= delivered[j].origin + i
    BY <1>2, SMTT(60) DEF IInv, Spread, Origin
  <2>3. CASE n \in 1..k
    BY <1>1, <1>2, <2>2, <2>3, SMTT(60)
  <2>4. CASE n = k + 1 /\ m \in 1..k
    <3>1. k \in 1..k /\ m <= k
      BY <1>1, <2>4
    <3>2. delivered[m].origin + k <= delivered[k].origin + m /\ delivered[k].origin < cursor
      BY <1>6, <2>2, <2>4, <3>1
    <3> QED
      BY <1>1, <1>2, <2>1, <2>4, <3>1, <3>2, SMTT(60)
  <2>5. CASE n = k + 1 /\ m = k + 1
    BY <1>1, <1>2, <2>5
  <2> QED
    BY <1>2, <2>3, <2>4, <2>5
<1>11. Intact'
  <2> SUFFICES ASSUME NEW n \in 1..(k + 1), delivered'[n].origin # 0
               PROVE  /\ delivered'[n].origin \in FrameIndex
                      /\ delivered'[n].frame.payload = written[delivered'[n].origin].payload
                      /\ Described(delivered'[n].frame)
    BY <1>2 DEF Intact, Origin, FrameIndex, Described, HasMeta
  <2> QED
    BY <1>2 DEF IInv, Intact, Origin
<1>12. InOrderOnce'
  <2> SUFFICES ASSUME NEW m \in 1..(k + 1), NEW n \in 1..(k + 1), m < n,
                      delivered'[m].origin # 0, delivered'[n].origin # 0
               PROVE  delivered'[m].origin < delivered'[n].origin
    BY <1>2 DEF InOrderOnce, Origin
  <2>1. m \in 1..k
    BY <1>1
  <2>2. CASE n \in 1..k
    BY <1>2, <2>1, <2>2 DEF IInv, InOrderOnce, Origin
  <2>3. CASE n = k + 1
    BY <1>2, <1>6, <1>7, <2>1, <2>3
  <2> QED
    BY <1>2, <2>2, <2>3
<1>13. PrefixUntilFailure'
  BY <1>2, <1>8 DEF IInv, PrefixUntilFailure, Origin
<1> QED
  BY <1>3, <1>4, <1>5, <1>9, <1>10, <1>11, <1>12, <1>13 DEF IInv

\* At a frame, the cursor is the number of a frame on the wire.
LEMMA TheFrameAtTheCursor ==
  ASSUME IInv, AtFrame
  PROVE  /\ cursor \in 1..Len(wire) /\ cursor \in FrameIndex /\ Encoded \in EncodedFrame
         /\ cursor + 1 \in cursor..(whole + 1) /\ cursor \in cursor..(whole + 1)
         /\ Encoded.payload_checksum = written[cursor].payload
<1>1. cursor \in Nat /\ cursor >= 1 /\ cursor <= whole /\ whole \in Nat /\ whole <= Len(written)
  BY WhatCameOut DEF AtFrame
<1>2. Len(wire) = Len(written) /\ \A i \in 1..Len(wire) : wire[i] \in EncodedFrame
  BY WireIsTyped DEF AtFrame, Call
<1>3. cursor \in 1..Len(wire) /\ cursor \in FrameIndex
  BY <1>1, <1>2, WhatCameOut DEF FrameIndex
<1> QED
  BY <1>1, <1>2, <1>3 DEF Encoded, IInv, WireKept

\* A failed call keeps step when the stream is not readable, or when it has
\* passed nothing but a frame that does not read well.
LEMMA FailKeepsStep ==
  ASSUME IInv, Call, NEW error, Fail(error),
         Readable => /\ aligned'
                     /\ \/ cursor' = cursor
                        \/ cursor' = cursor + 1 /\ ~ ReadsWell(wire[cursor])
  PROVE  InStep'
<1> USE DEF Call, Fail, wireVars
<1>1. wire' = wire /\ whole' = whole /\ part' = part /\ delivered' = delivered
  OBVIOUS
<1>2. (part => whole < Len(wire))'
  BY <1>1 DEF IInv, InStep
<1>3. ASSUME Readable
      PROVE  /\ aligned'
             /\ \A n \in 1..Len(delivered) :
                  Origin(n) \in 1..Len(wire) /\ ReadsWell(wire[Origin(n)])
             /\ \A i \in 1..Len(wire) : i < cursor' /\ ReadsWell(wire[i]) =>
                  \E n \in 1..Len(delivered) : Origin(n) = i
  <2>1. \A i \in 1..Len(wire) : i < cursor' /\ ReadsWell(wire[i]) => i < cursor
    BY <1>3, WhatCameOut
  <2> QED
    BY <1>3, <2>1 DEF IInv, InStep
<1> QED
  BY <1>1, <1>2, <1>3 DEF InStep, Readable, ReadsWell, Origin

\* A reader that goes astray stays within what has arrived.
LEMMA AstrayStays ==
  ASSUME IInv
  PROVE  /\ cursor \in cursor..(whole + 1)
         /\ Astray => aligned' \in BOOLEAN /\ cursor' \in cursor..(whole + 1)
<1>1. cursor \in Nat /\ whole \in Nat /\ cursor <= whole + 1
  BY WhatCameOut
<1>2. /\ cursor \in cursor..(whole + 1)
      /\ \A c \in (cursor + 1)..(whole + 1) : c \in cursor..(whole + 1)
  BY <1>1
<1>3. CASE cursor' = cursor /\ aligned' = FALSE
  BY <1>2, <1>3
<1>4. CASE cursor' \in (cursor + 1)..(whole + 1) /\ aligned' \in BOOLEAN
  BY <1>2, <1>4
<1> QED
  BY <1>2, <1>3, <1>4 DEF Astray

LEMMA FailAtFrame ==
  ASSUME IInv, ReadUnknownKind \/ ReadBadLength \/ ReadBadPayload \/ ReadBadMetadata
  PROVE  IInv'
<1>1. AtFrame /\ Call /\ remaining > 0
  BY DEF ReadUnknownKind, ReadBadLength, ReadBadPayload, ReadBadMetadata, AtFrame
<1>2. /\ cursor \in 1..Len(wire) /\ Encoded = wire[cursor] /\ aligned = TRUE
      /\ cursor + 1 \in cursor..(whole + 1) /\ cursor \in cursor..(whole + 1)
  BY <1>1, TheFrameAtTheCursor DEF Encoded, AtFrame, IInv, TypeOK
<1>3. CASE ReadUnknownKind
  <2>1. ~ Readable
    BY <1>2, <1>3 DEF Readable, ReadUnknownKind
  <2>2. Fail("unknown frame kind") /\ aligned' = FALSE /\ cursor' = cursor
    BY <1>3 DEF ReadUnknownKind
  <2> QED
    BY <1>1, <1>2, <2>1, <2>2, FailKeepsStep, FailStep DEF Results
<1>4. CASE ReadBadLength
  <2>1. ~ Readable
    BY <1>2, <1>4 DEF Readable, ReadBadLength
  <2>2. /\ Fail("frame not readable") /\ aligned' \in BOOLEAN
        /\ cursor' \in cursor..(whole + 1)
    BY <1>4, AstrayStays DEF ReadBadLength
  <2> QED
    BY <1>1, <2>1, <2>2, FailKeepsStep, FailStep DEF Results
<1>5. CASE ReadBadPayload
  <2>1. ~ ReadsWell(wire[cursor])
    BY <1>2, <1>5 DEF ReadBadPayload, PayloadIntact, ReadsWell
  <2>2. Fail("frame payload checksum mismatch") /\ aligned' = TRUE /\ cursor' = cursor + 1
    BY <1>2, <1>5 DEF ReadBadPayload
  <2> QED
    BY <1>1, <1>2, <2>1, <2>2, FailKeepsStep, FailStep DEF Results
<1>6. CASE ReadBadMetadata
  <2>1. ~ ReadsWell(wire[cursor])
    BY <1>2, <1>6 DEF ReadBadMetadata, LengthAgrees, ChecksumAgrees, ReadsWell
  <2>2. Fail("chunk metadata mismatch") /\ aligned' = TRUE /\ cursor' = cursor + 1
    BY <1>2, <1>6 DEF ReadBadMetadata
  <2> QED
    BY <1>1, <1>2, <2>1, <2>2, FailKeepsStep, FailStep DEF Results
<1> QED
  BY <1>3, <1>4, <1>5, <1>6

\* The bytes have ended, or the call starts inside a frame.
LEMMA FailElsewhere ==
  ASSUME IInv, ReadPastEnd \/ ReadGarbage
  PROVE  IInv'
<1>1. Call /\ remaining > 0
  BY DEF ReadPastEnd, ReadGarbage
<1>2. CASE ReadPastEnd
  <2>1. /\ Fail("stream eof") /\ aligned' = ~ part /\ cursor' = cursor
        /\ cursor' \in cursor..(whole + 1)
    BY <1>2, AstrayStays DEF ReadPastEnd
  <2>2. Readable => ~ part
    BY WhatCameOut DEF Readable, IInv, InStep
  <2> QED
    BY <1>1, <2>1, <2>2, FailKeepsStep, FailStep DEF Results, IInv, TypeOK
<1>3. CASE ReadGarbage
  <2>1. ~ Readable
    BY <1>3 DEF ReadGarbage, IInv, InStep
  <2>2. /\ Fail("frame not readable") /\ aligned' \in BOOLEAN
        /\ cursor' \in cursor..(whole + 1)
    BY <1>3, AstrayStays DEF ReadGarbage
  <2> QED
    BY <1>1, <2>1, <2>2, FailKeepsStep, FailStep DEF Results
<1> QED
  BY <1>2, <1>3

LEMMA ReadFrameStep == IInv /\ ReadFrame => IInv'
<1> SUFFICES ASSUME IInv, ReadFrame PROVE IInv'
  OBVIOUS
<1> DEFINE f == [kind |-> Encoded.kind, metadata |-> Encoded.metadata,
                 payload |-> Encoded.payload]
           k == Len(delivered)
<1>1. /\ AtFrame /\ Call /\ remaining > 0 /\ aligned = TRUE /\ Yield(f, cursor)
      /\ cursor' = cursor + 1 /\ aligned' = TRUE
  BY DEF ReadFrame, AtFrame, IInv, TypeOK
<1>2. /\ cursor \in 1..Len(wire) /\ cursor \in FrameIndex /\ Encoded \in EncodedFrame
      /\ Encoded = wire[cursor]
      /\ cursor' \in cursor..(whole + 1)
      /\ Encoded.payload_checksum = written[cursor].payload
  BY <1>1, TheFrameAtTheCursor DEF Encoded
<1>3. ReadsWell(wire[cursor])
  BY <1>2 DEF ReadFrame, PayloadIntact, LengthAgrees, ChecksumAgrees, ReadsWell
<1>4. f.payload = written[cursor].payload /\ Described(f)
  BY <1>2 DEF ReadFrame, PayloadIntact, LengthAgrees, ChecksumAgrees, Described, HasMeta
<1>5. f \in Frame
  BY <1>2 DEF ReadFrame, EncodedFrame, Frame
<1>6. InStep'
  <2>1. wire' = wire /\ whole' = whole /\ part' = part
    BY <1>1 DEF Call, wireVars
  <2>2. /\ Len(delivered') = k + 1 /\ k \in Nat
        /\ delivered'[k + 1].origin = cursor
        /\ \A n \in 1..k : delivered'[n] = delivered[n]
        /\ \A n \in 1..(k + 1) : n \in 1..k \/ n = k + 1
    <3> DEFINE d == [frame |-> f, origin |-> cursor]
    <3>1. delivered' = Append(delivered, d) /\ d.origin = cursor
      BY <1>1 DEF Yield
    <3> HIDE DEF d, f
    <3> QED
      BY <3>1, WhatCameOut
  <2>3. (part => whole < Len(wire))'
    BY <2>1 DEF IInv, InStep
  <2>4. ASSUME Readable
        PROVE  /\ \A n \in 1..(k + 1) : /\ delivered'[n].origin \in 1..Len(wire)
                                        /\ ReadsWell(wire[delivered'[n].origin])
               /\ \A i \in 1..Len(wire) : i < cursor' /\ ReadsWell(wire[i]) =>
                    \E n \in 1..(k + 1) : delivered'[n].origin = i
    <3>1. /\ \A n \in 1..k : /\ delivered[n].origin \in 1..Len(wire)
                             /\ ReadsWell(wire[delivered[n].origin])
          /\ \A i \in 1..Len(wire) : i < cursor /\ ReadsWell(wire[i]) =>
               \E n \in 1..k : delivered[n].origin = i
      BY <2>4 DEF IInv, InStep, Origin
    <3>2. /\ \A n \in 1..k : n \in 1..(k + 1)
          /\ k + 1 \in 1..(k + 1)
          /\ \A i \in 1..Len(wire) : i < cursor + 1 => i < cursor \/ i = cursor
      BY <1>2, <2>2, WhatCameOut
    <3>3. ASSUME NEW n \in 1..(k + 1)
          PROVE  /\ delivered'[n].origin \in 1..Len(wire)
                 /\ ReadsWell(wire[delivered'[n].origin])
      BY <1>2, <1>3, <2>2, <3>1
    <3>4. ASSUME NEW i \in 1..Len(wire), i < cursor', ReadsWell(wire[i])
          PROVE  \E n \in 1..(k + 1) : delivered'[n].origin = i
      BY <1>1, <2>2, <3>1, <3>2, <3>4
    <3> QED
      BY <3>3, <3>4
  <2> QED
    BY <1>1, <2>1, <2>2, <2>3, <2>4 DEF InStep, Readable, ReadsWell, Origin
<1> HIDE DEF f
<1>7. cursor \in Nat /\ cursor # 0
  BY WhatCameOut
<1> QED
  BY <1>1, <1>2, <1>4, <1>5, <1>6, <1>7, YieldStep

\* Bytes that pass for a frame are only met after a failure.
LEMMA ReadPhantomStep == IInv /\ ReadPhantom => IInv'
<1> SUFFICES ASSUME IInv, ReadPhantom PROVE IInv'
  OBVIOUS
<1>1. PICK f \in Phantoms : Yield(f, 0)
  BY DEF ReadPhantom
<1>2. Call /\ remaining > 0 /\ ~ aligned /\ failures # 0 /\ ~ Readable
  BY DEF ReadPhantom, IInv, Passed, InStep
<1>3. aligned' \in BOOLEAN /\ cursor' \in cursor..(whole + 1)
  BY AstrayStays DEF ReadPhantom
<1>4. InStep'
  BY <1>2 DEF InStep, IInv, Readable, Call, wireVars
<1>5. f \in Frame /\ 0 \in Nat
  BY StreamConstants
<1> QED
  BY <1>1, <1>2, <1>3, <1>4, <1>5, YieldStep

\* The end of the stream, and a caller that gives up.
LEMMA CloseStep ==
  ASSUME IInv, EndOfStream \/ GiveUp \/ Closed \/ UNCHANGED vars
  PROVE  IInv'
<1> USE DEF IInv, Call, wireVars, readerVars, vars
<1>1. CASE EndOfStream
  <2> USE <1>1 DEF EndOfStream
  <2>1. TypeOK'
    BY DEF TypeOK, FrameIndex, Results
  <2>2. WireKept' /\ NotYetRead' /\ Counted' /\ Passed'
    BY DEF WireKept, NotYetRead, Counted, Passed, Origin
  <2>3. Spread' /\ InStep'
    BY DEF Spread, InStep, Readable, ReadsWell, Origin
  <2>4. Intact' /\ InOrderOnce' /\ PrefixUntilFailure'
    BY DEF Intact, InOrderOnce, PrefixUntilFailure, Origin, FrameIndex
  <2> QED
    BY <2>1, <2>2, <2>3, <2>4
<1>2. CASE GiveUp
  <2> USE <1>2 DEF GiveUp
  <2>1. TypeOK'
    BY DEF TypeOK, FrameIndex, Results
  <2>2. WireKept' /\ NotYetRead' /\ Counted' /\ Passed'
    BY DEF WireKept, NotYetRead, Counted, Passed, Origin
  <2>3. Spread' /\ InStep'
    BY DEF Spread, InStep, Readable, ReadsWell, Origin
  <2>4. Intact' /\ InOrderOnce' /\ PrefixUntilFailure'
    BY DEF Intact, InOrderOnce, PrefixUntilFailure, Origin, FrameIndex
  <2> QED
    BY <2>1, <2>2, <2>3, <2>4
<1>3. CASE Closed \/ UNCHANGED vars
  <2>1. UNCHANGED vars
    BY <1>3 DEF Closed
  <2> USE <2>1
  <2>2. TypeOK' /\ WireKept' /\ NotYetRead' /\ Counted' /\ Passed'
    BY DEF TypeOK, FrameIndex, WireKept, NotYetRead, Counted, Passed, Origin
  <2>3. Spread' /\ InStep'
    BY DEF Spread, InStep, Readable, ReadsWell, Origin
  <2>4. Intact' /\ InOrderOnce' /\ PrefixUntilFailure'
    BY DEF Intact, InOrderOnce, PrefixUntilFailure, Origin, FrameIndex
  <2> QED
    BY <2>2, <2>3, <2>4
<1> QED
  BY <1>1, <1>2, <1>3
-----------------------------------------------------------------------------
(***************************************************************************)
(* The theorems.                                                           *)
(***************************************************************************)
LEMMA NextPreserves == IInv /\ [Next]_vars => IInv'
<1> SUFFICES ASSUME IInv, [Next]_vars PROVE IInv'
  OBVIOUS
<1>1. CASE \E f \in Writable : Push(f)
  BY <1>1, PushStep
<1>2. CASE Finish
  BY <1>2, FinishStep
<1>3. CASE Transport
  BY <1>3, DamageStep, TruncateStep DEF Transport
<1>4. CASE Open
  BY <1>4, OpenStep
<1>5. CASE NextFrame
  BY <1>5, CloseStep, FailAtFrame, FailElsewhere, ReadFrameStep, ReadPhantomStep
     DEF NextFrame
<1>6. CASE GiveUp \/ Closed \/ UNCHANGED vars
  BY <1>6, CloseStep
<1> QED
  BY <1>1, <1>2, <1>3, <1>4, <1>5, <1>6 DEF Next

\* The state of the writer, the wire and the reader of sx-stream is what IInv
\* says, however many frames are pushed, faults happen and calls fail.
THEOREM Invariant == Spec => []IInv
<1> QED
  BY InitEstablishes, NextPreserves, PTL DEF Spec

\* next_frame never returns a payload other than the one pushed, nor one that the
\* metadata it comes with do not describe.
THEOREM AlwaysIntact == Spec => []Intact
<1>1. IInv => Intact
  BY DEF IInv
<1> QED
  BY <1>1, Invariant, PTL

\* next_frame never returns a frame twice or out of order.
THEOREM AlwaysInOrderOnce == Spec => []InOrderOnce
<1>1. IInv => InOrderOnce
  BY DEF IInv
<1> QED
  BY <1>1, Invariant, PTL

\* Until next_frame fails, it has returned the first frames pushed.
THEOREM AlwaysPrefixUntilFailure == Spec => []PrefixUntilFailure
<1>1. IInv => PrefixUntilFailure
  BY DEF IInv
<1> QED
  BY <1>1, Invariant, PTL

\* next_frame does not report the end of the stream while a frame is missing.
\* The counts say that as many frames came out as were pushed, and without
\* phantoms there is room on the wire for so many only if each is in its place.
THEOREM NeverSilentLoss == Spec => []NoSilentLoss
<1>1. ASSUME IInv PROVE NoSilentLoss
  <2> DEFINE k == Len(delivered)
  <2> SUFFICES ASSUME result = "end", \A n \in 1..k : Origin(n) # 0
               PROVE  \A i \in FrameIndex : \E n \in 1..k : Origin(n) = i
    BY DEF NoSilentLoss
  <2>1. k = Len(written)
    BY <1>1, WhatCameOut DEF IInv, Counted
  <2>2. /\ k \in Nat
        /\ \A n \in 1..k : Origin(n) \in Nat /\ Origin(n) < cursor
        /\ cursor \in Nat /\ cursor <= k + 1
    BY <1>1, <2>1, WhatCameOut DEF Origin
  <2>3. \A m, n \in 1..k : m <= n => Origin(m) + n <= Origin(n) + m
    BY <1>1 DEF IInv, Spread
  <2>4. ASSUME NEW n \in 1..k PROVE Origin(n) = n
    <3>1. 1 \in 1..k /\ k \in 1..k /\ 1 <= n /\ n <= k /\ n \in Nat
      BY <2>2
    <3>2. Origin(1) + n <= Origin(n) + 1 /\ Origin(n) + k <= Origin(k) + n
      BY <2>3, <3>1
    <3>3. Origin(1) >= 1 /\ Origin(k) <= k
      BY <2>2, <3>1
    <3> QED
      BY <2>2, <3>1, <3>2, <3>3
  <2> QED
    BY <2>1, <2>4 DEF FrameIndex
<1> QED
  BY <1>1, Invariant, PTL

\* A bad payload or bad metadata costs next_frame's caller one frame only.
THEOREM AlwaysResyncs == Spec => []ResyncAfterBadPayload
<1>1. ASSUME IInv PROVE ResyncAfterBadPayload
  <2> SUFFICES ASSUME Readable, cursor > whole
               PROVE  {Origin(n) : n \in 1..Len(delivered)}
                        = {i \in 1..Len(wire) : ReadsWell(wire[i])}
    BY DEF ResyncAfterBadPayload, Readable
  <2>1. \A i \in 1..Len(wire) : i < cursor
    BY WhatCameOut, <1>1 DEF Readable
  <2>2. \A n \in 1..Len(delivered) : Origin(n) \in 1..Len(wire) /\ ReadsWell(wire[Origin(n)])
    BY <1>1 DEF IInv, InStep
  <2>3. \A i \in 1..Len(wire) : ReadsWell(wire[i]) => \E n \in 1..Len(delivered) : Origin(n) = i
    BY <1>1, <2>1 DEF IInv, InStep
  <2> QED
    BY <2>2, <2>3
<1> QED
  BY <1>1, Invariant, PTL
=============================================================================
