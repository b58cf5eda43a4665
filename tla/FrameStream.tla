---------------------------- MODULE FrameStream ----------------------------
(***************************************************************************)
(* FrameWriter and FrameReader of sx-stream, with the transport between    *)
(* them.                                                                   *)
(*                                                                         *)
(* The application pushes frames and finishes the stream; the bytes go     *)
(* over a transport that may damage or cut them; a reader is opened on what*)
(* arrives and next_frame is called until it reports the end of the stream,*)
(* or, by a caller that ignores errors, further.                           *)
(*                                                                         *)
(* The stream is a sequence of encoded frames and the cursor is the number *)
(* of the frame it stands before, together with whether it stands exactly  *)
(* there ("aligned") or somewhere inside that frame's bytes.  A call that  *)
(* starts inside a frame takes bytes for what they are not, so its outcome *)
(* is any the decoder can come to.                                         *)
(***************************************************************************)
EXTENDS Frames

CONSTANTS Writable,    \* the frames an application pushes
          Phantoms,    \* frames a misaligned read can take bytes for
          UnknownKind, \* a kind byte that stands for no FrameKind
          MaxWritten,  \* bound on the frames pushed
          MaxFaults,   \* bound on the faults of the transport
          MaxAfterFail \* bound on the calls made after a call has failed

ASSUME StreamConstants ==
  /\ Writable \subseteq Frame
  /\ Phantoms \subseteq Frame
  /\ UnknownKind \notin FrameKind
  /\ MaxWritten \in Nat /\ MaxFaults \in Nat /\ MaxAfterFail \in Nat

VARIABLES phase,     \* "writing", "transport", "reading", "closed"
          written,   \* the frames pushed so far
          wire,      \* the encoded frames
          whole,     \* how many of them have arrived whole
          part,      \* whether a part of the next one has arrived too
          faults,    \* how many faults there have been
          cursor,    \* the frame the reader stands before or in
          aligned,   \* whether it stands before it
          remaining, \* the frames the reader still expects
          delivered, \* what next_frame has returned, with where it came from
          result,    \* what the last call of the reader returned
          failures   \* how many calls have failed

writerVars == <<written>>
wireVars == <<wire, whole, part, faults>>
readerVars == <<cursor, aligned, remaining, delivered, result, failures>>
vars == <<phase, written, wireVars, readerVars>>

\* What finish() puts on the wire for a frame.  "sized" says that the field
\* payload_len is intact.
Encode(f) == [kind |-> f.kind, metadata |-> f.metadata,
              payload_checksum |-> f.payload, payload |-> f.payload, sized |-> TRUE]

Init == /\ phase = "writing"
        /\ written = <<>> /\ wire = <<>>
        /\ whole = 0 /\ part = FALSE /\ faults = 0
        /\ cursor = 1 /\ aligned = TRUE /\ remaining = 0
        /\ delivered = <<>> /\ result = "none" /\ failures = 0
-----------------------------------------------------------------------------
(***************************************************************************)
(* The writer.                                                             *)
(***************************************************************************)
Push(f) == /\ phase = "writing"
           /\ Len(written) < MaxWritten
           /\ written' = Append(written, f)
           /\ UNCHANGED <<phase, wireVars, readerVars>>

Finish == /\ phase = "writing"
          /\ wire' = [i \in 1..Len(written) |-> Encode(written[i])]
          /\ whole' = Len(written)
          /\ remaining' = Len(written)
          /\ phase' = "transport"
          /\ UNCHANGED <<written, part, faults, cursor, aligned, delivered, result,
                         failures>>
-----------------------------------------------------------------------------
(***************************************************************************)
(* The transport.  A frame is damaged in its kind byte, its payload, its   *)
(* payload_len, or what its metadata say of the payload: length and        *)
(* checksum.  The stream can be cut anywhere.  Nothing in the format covers*)
(* the id, index and count of a chunk, so nothing could be said of damage  *)
(* to them.                                                                *)
(***************************************************************************)
Fault == /\ phase = "transport"
         /\ faults < MaxFaults
         /\ faults' = faults + 1
         /\ UNCHANGED <<phase, written, readerVars>>

DamagePayload(i) ==
  /\ Fault
  /\ \E p \in Payloads :
       /\ p # wire[i].payload /\ Length[p] = Length[wire[i].payload]
       /\ wire' = [wire EXCEPT ![i].payload = p]
  /\ UNCHANGED <<whole, part>>

DamageKind(i) ==
  /\ Fault
  /\ \E k \in FrameKind \cup {UnknownKind} :
       /\ k # wire[i].kind
       /\ wire' = [wire EXCEPT ![i].kind = k]
  /\ UNCHANGED <<whole, part>>

DamageLength(i) ==
  /\ Fault
  /\ wire[i].sized
  /\ wire' = [wire EXCEPT ![i].sized = FALSE]
  /\ UNCHANGED <<whole, part>>

DamageDescription(i) ==
  /\ Fault
  /\ wire[i].metadata # NoMeta
  /\ \E n \in {wire[i].metadata.length, 0} \cup {Length[p] : p \in Payloads},
        c \in Payloads :
       wire' = [wire EXCEPT ![i].metadata.length = n, ![i].metadata.checksum = c]
  /\ wire' # wire
  /\ UNCHANGED <<whole, part>>

Truncate == /\ Fault
            /\ \E n \in 0..(whole - 1), p \in BOOLEAN : whole' = n /\ part' = p
            /\ UNCHANGED wire

\* FrameReader::new on a stream whose first eight bytes have arrived intact.
Open == /\ phase = "transport"
        /\ phase' = "reading"
        /\ UNCHANGED <<written, wireVars, readerVars>>
-----------------------------------------------------------------------------
(***************************************************************************)
(* FrameReader::next_frame.                                                *)
(***************************************************************************)
Call == /\ phase = "reading"
        /\ failures <= MaxAfterFail
        /\ UNCHANGED <<written, wireVars>>

\* No frame is expected any more: the end of the stream.
EndOfStream == /\ Call
               /\ remaining = 0
               /\ result' = "end"
               /\ phase' = "closed"
               /\ UNCHANGED <<cursor, aligned, remaining, delivered, failures>>

\* Mutants: a frame that fails is counted as read; a failure is not reported.
FailAndCount(error) == /\ result' = error
                       /\ failures' = failures + 1
                       /\ remaining' = remaining - 1
                       /\ UNCHANGED <<phase, delivered>>
FailSilently(error) == /\ result' = error
                       /\ UNCHANGED <<phase, remaining, delivered, failures>>

Fail(error) == /\ result' = error
               /\ failures' = failures + 1
               /\ UNCHANGED <<phase, remaining, delivered>>

\* The cursor stays inside the frame it is in, or stops anywhere further on.
Astray == \/ cursor' = cursor /\ aligned' = FALSE
          \/ cursor' \in (cursor + 1)..(whole + 1) /\ aligned' \in BOOLEAN

\* The fields of the frame at the cursor are all there and are read in order.
AtFrame == Call /\ remaining > 0 /\ aligned /\ cursor <= whole

Encoded == wire[cursor]

\* Mutant: the payload's checksum is read and not compared.
PayloadUnchecked == TRUE

PayloadIntact == Encoded.payload = Encoded.payload_checksum

LengthAgrees == Encoded.metadata # NoMeta =>
                  Encoded.metadata.length = Length[Encoded.payload]

ChecksumAgrees == Encoded.metadata # NoMeta =>
                    Encoded.metadata.checksum = Encoded.payload

ReadUnknownKind == /\ AtFrame
                   /\ Encoded.kind = UnknownKind
                   /\ Fail("unknown frame kind")
                   /\ aligned' = FALSE
                   /\ UNCHANGED cursor

ReadBadLength == /\ AtFrame
                 /\ Encoded.kind # UnknownKind /\ ~ Encoded.sized
                 /\ Fail("frame not readable")
                 /\ Astray

\* Mutants: a bad frame is skipped without an error; the checksum is compared
\* with bytes looked at in place, so the cursor stays before the payload.
SkipBadPayload == /\ AtFrame
                  /\ Encoded.kind # UnknownKind /\ Encoded.sized
                  /\ ~ PayloadIntact
                  /\ cursor' = cursor + 1
                  /\ remaining' = remaining - 1
                  /\ UNCHANGED <<phase, aligned, delivered, result, failures>>
StayAtBadPayload == /\ AtFrame
                    /\ Encoded.kind # UnknownKind /\ Encoded.sized
                    /\ ~ PayloadIntact
                    /\ Fail("frame payload checksum mismatch")
                    /\ aligned' = FALSE
                    /\ UNCHANGED cursor

ReadBadPayload == /\ AtFrame
                  /\ Encoded.kind # UnknownKind /\ Encoded.sized
                  /\ ~ PayloadIntact
                  /\ Fail("frame payload checksum mismatch")
                  /\ cursor' = cursor + 1
                  /\ UNCHANGED aligned

ReadBadMetadata == /\ AtFrame
                   /\ Encoded.kind # UnknownKind /\ Encoded.sized
                   /\ PayloadIntact
                   /\ ~ (LengthAgrees /\ ChecksumAgrees)
                   /\ Fail("chunk metadata mismatch")
                   /\ cursor' = cursor + 1
                   /\ UNCHANGED aligned

Yield(f, origin) == /\ delivered' = Append(delivered, [frame |-> f, origin |-> origin])
                    /\ remaining' = remaining - 1
                    /\ result' = "frame"
                    /\ UNCHANGED <<phase, failures>>

\* Mutants: a reader that does not advance, and one that advances too far.
ReadAndStay == /\ AtFrame
               /\ Encoded.kind # UnknownKind /\ Encoded.sized
               /\ PayloadIntact /\ LengthAgrees /\ ChecksumAgrees
               /\ Yield([kind |-> Encoded.kind, metadata |-> Encoded.metadata,
                         payload |-> Encoded.payload], cursor)
               /\ UNCHANGED <<cursor, aligned>>
ReadAndSkip == /\ AtFrame
               /\ Encoded.kind # UnknownKind /\ Encoded.sized
               /\ PayloadIntact /\ LengthAgrees /\ ChecksumAgrees
               /\ Yield([kind |-> Encoded.kind, metadata |-> Encoded.metadata,
                         payload |-> Encoded.payload], cursor)
               /\ cursor' = cursor + 2
               /\ UNCHANGED aligned

ReadFrame == /\ AtFrame
             /\ Encoded.kind # UnknownKind /\ Encoded.sized
             /\ PayloadIntact /\ LengthAgrees /\ ChecksumAgrees
             /\ Yield([kind |-> Encoded.kind, metadata |-> Encoded.metadata,
                       payload |-> Encoded.payload], cursor)
             /\ cursor' = cursor + 1
             /\ UNCHANGED aligned

\* The bytes end before the frame does.  The fields that are there have been
\* passed when the error is returned.
ReadPastEnd == /\ Call
               /\ remaining > 0 /\ aligned /\ cursor > whole
               /\ Fail("stream eof")
               /\ aligned' = ~ part
               /\ UNCHANGED cursor

\* A call that starts inside a frame fails, or finds bytes that pass for a
\* frame.
ReadGarbage == /\ Call
               /\ remaining > 0 /\ ~ aligned
               /\ Fail("frame not readable")
               /\ Astray

ReadPhantom == /\ Call
               /\ remaining > 0 /\ ~ aligned
               /\ \E f \in Phantoms : Yield(f, 0)
               /\ Astray

\* The caller gives up after an error.
GiveUp == /\ phase = "reading" /\ failures > 0
          /\ phase' = "closed"
          /\ UNCHANGED <<written, wireVars, readerVars>>

Closed == phase = "closed" /\ UNCHANGED vars

Transport == \/ \E i \in 1..Len(wire) :
                  \/ DamagePayload(i) \/ DamageKind(i)
                  \/ DamageLength(i) \/ DamageDescription(i)
             \/ Truncate

NextFrame == \/ EndOfStream \/ ReadUnknownKind \/ ReadBadLength \/ ReadBadPayload
             \/ ReadBadMetadata \/ ReadFrame \/ ReadPastEnd \/ ReadGarbage
             \/ ReadPhantom

Next == \/ \E f \in Writable : Push(f)
        \/ Finish \/ Transport \/ Open \/ NextFrame \/ GiveUp \/ Closed

Spec == Init /\ [][Next]_vars
-----------------------------------------------------------------------------
FrameIndex == 1..Len(written)

Results == {"none", "end", "frame", "unknown frame kind", "frame not readable",
            "frame payload checksum mismatch", "chunk metadata mismatch", "stream eof"}

EncodedFrame == [kind : FrameKind \cup {UnknownKind},
                 metadata : ChunkMetadata \cup {NoMeta},
                 payload_checksum : Payloads, payload : Payloads, sized : BOOLEAN]

TypeOK ==
  /\ phase \in {"writing", "transport", "reading", "closed"}
  /\ written \in Seq(Frame)
  /\ DOMAIN wire = IF phase = "writing" THEN {} ELSE FrameIndex
  /\ \A i \in DOMAIN wire : wire[i] \in EncodedFrame
  /\ whole \in 0..Len(written) /\ part \in BOOLEAN /\ faults \in Nat
  /\ cursor \in 1..(whole + 1) /\ aligned \in BOOLEAN
  /\ remaining \in Nat
  /\ delivered \in Seq([frame : Frame, origin : Nat])
  /\ result \in Results /\ failures \in Nat

Origin(n) == delivered[n].origin

\* The length and checksum in the metadata are those of the payload.
Described(f) == HasMeta(f) => /\ f.metadata.length = Length[f.payload]
                              /\ f.metadata.checksum = f.payload

\* A payload comes out as it was pushed, and described by the metadata it comes
\* with: next_frame returns neither a payload the transport has changed nor one
\* its pusher has described wrongly.  (The checksums cover nothing else: not the
\* kind byte, nor the id, index and count of the metadata.)
Intact ==
  \A n \in 1..Len(delivered) :
    LET i == Origin(n) IN
      i # 0 => /\ i \in FrameIndex
               /\ delivered[n].frame.payload = written[i].payload
               /\ Described(delivered[n].frame)

\* Frames come out in the order they were pushed, each at most once, even to
\* a caller that goes on after an error.
InOrderOnce ==
  \A m, n \in 1..Len(delivered) :
    m < n /\ Origin(m) # 0 /\ Origin(n) # 0 => Origin(m) < Origin(n)

\* Until a call fails, what has come out is a prefix of what was pushed.
PrefixUntilFailure ==
  failures = 0 => \A n \in 1..Len(delivered) : Origin(n) = n

\* next_frame reports the end of the stream only when every frame pushed has
\* come out: a frame lost to damage or to a cut is never passed over in
\* silence, also not by a caller that skips errors.  Only bytes that pass for
\* a frame can make up for it.
NoSilentLoss ==
  result = "end" =>
    \/ \A i \in FrameIndex : \E n \in 1..Len(delivered) : Origin(n) = i
    \/ \E n \in 1..Len(delivered) : Origin(n) = 0

ReadsWell(e) == /\ e.payload = e.payload_checksum
                /\ e.metadata # NoMeta => /\ e.metadata.length = Length[e.payload]
                                          /\ e.metadata.checksum = e.payload

\* A bad payload or bad metadata costs one frame: if nothing else is wrong
\* with the stream, a caller that skips errors gets every other frame.
ResyncAfterBadPayload ==
  /\ whole = Len(wire) /\ cursor > whole
  /\ \A i \in 1..Len(wire) : wire[i].kind # UnknownKind /\ wire[i].sized
  => {Origin(n) : n \in 1..Len(delivered)} = {i \in 1..Len(wire) : ReadsWell(wire[i])}
-----------------------------------------------------------------------------
(***************************************************************************)
(* The inductive invariant.                                                *)
(***************************************************************************)
\* Faults leave alone what the payload is compared with.
WireKept ==
  /\ wire \in Seq(EncodedFrame)
  /\ \A i \in 1..Len(wire) : wire[i].payload_checksum = written[i].payload

\* Nothing has been read before the stream is opened.
NotYetRead ==
  phase \in {"writing", "transport"} =>
    /\ delivered = <<>> /\ cursor = 1 /\ aligned /\ failures = 0 /\ result = "none"

\* Only what comes out makes the reader expect less, and it expects nothing
\* more when it reports the end.
Counted ==
  /\ phase # "writing" => remaining + Len(delivered) = Len(written)
  /\ result = "end" => phase = "closed" /\ remaining = 0

\* What has come out lies behind the cursor, and while nothing has failed the
\* cursor has been nowhere else.
Passed ==
  /\ \A n \in 1..Len(delivered) : Origin(n) < cursor
  /\ failures = 0 => aligned /\ cursor = Len(delivered) + 1

\* Without phantoms the frames that came out are as far apart on the wire as
\* among each other, or farther.
Spread ==
  (\A n \in 1..Len(delivered) : Origin(n) # 0) =>
    \A m, n \in 1..Len(delivered) : m <= n => Origin(m) + n <= Origin(n) + m

\* A stream without bad kinds, bad lengths and cuts.
Readable ==
  whole = Len(wire) /\ \A i \in 1..Len(wire) : wire[i].kind # UnknownKind /\ wire[i].sized

\* On such a stream the reader keeps to the frames' bounds.
InStep ==
  /\ part => whole < Len(wire)
  /\ Readable =>
       /\ aligned
       /\ \A n \in 1..Len(delivered) : Origin(n) \in 1..Len(wire) /\ ReadsWell(wire[Origin(n)])
       /\ \A i \in 1..Len(wire) : i < cursor /\ ReadsWell(wire[i]) =>
            \E n \in 1..Len(delivered) : Origin(n) = i

\* What next_frame has read, in every state.
IInv == /\ TypeOK /\ WireKept /\ NotYetRead /\ Counted /\ Passed /\ Spread /\ InStep
        /\ Intact /\ InOrderOnce /\ PrefixUntilFailure
=============================================================================
