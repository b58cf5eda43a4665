--------------------------- MODULE StreamTransfer ---------------------------
(***************************************************************************)
(* Messages sent in chunks over a frame stream: the application splits     *)
(* each message, pushes its chunk frames in any order, between frames of   *)
(* other messages, maybe some of them twice or not at all; the stream goes *)
(* over the faulty transport of FrameStream; and the frames the reader has *)
(* returned, up to the end or up to where the caller gave up, are handed   *)
(* to reconstruct_chunks.                                                  *)
(*                                                                         *)
(* The two components keep their variables; handing over the frames starts *)
(* the call of reconstruct_chunks.  (Slices, from which a call on its own  *)
(* takes its argument, plays no part here.)                                *)
(***************************************************************************)
EXTENDS ReconstructChunks

CONSTANTS Message, \* message id -> the sequence of its chunks' payloads
          Writable, Phantoms, UnknownKind, MaxWritten, MaxFaults, MaxAfterFail

VARIABLES phase, written, wire, whole, part, faults, cursor, aligned, remaining,
          delivered, result, failures \* of FrameStream

Channel == INSTANCE FrameStream

ASSUME TransferConstants == Writable \subseteq Frame /\ Phantoms \subseteq Frame

\* Every message has at least one chunk, and its chunks can be numbered in the
\* fields the metadata have for it.
ASSUME MessagesAreChunked ==
  /\ DOMAIN Message = Ids
  /\ \A id \in Ids :
       /\ Message[id] \in Seq(Payloads) /\ Message[id] # <<>>
       /\ Len(Message[id]) \in Counts
       /\ \A k \in 1..Len(Message[id]) : k - 1 \in Indices

\* The application's chunk frames; frames of other kinds may be among them.
ChunkFrames ==
  UNION {{ChunkFrame(id, k - 1, Len(Message[id]), Message[id][k]) :
            k \in 1..Len(Message[id])} : id \in Ids}

ASSUME OnlyChunksOfMessages ==
  \A f \in Writable : IsChunk(f) => f \in ChunkFrames

Slice == [n \in 1..Len(delivered) |-> delivered[n].frame]

streamVars == <<phase, written, wire, whole, part, faults, cursor, aligned, remaining,
                delivered, result, failures>>
transferVars == <<streamVars, vars>>

Idle == "idle"

TransferInit == /\ Channel!Init
                /\ status = Idle
                /\ frames = <<>> /\ pos = 1 /\ entered = {}
                /\ map = [id \in Ids |-> EmptyAcc]
                /\ out = NoChunks

Stream == Channel!Next /\ UNCHANGED vars

\* The loop over next_frame is over: its frames go to reconstruct_chunks.
HandOver == /\ phase = "closed" /\ status = Idle
            /\ frames' = Slice
            /\ status' = "scan"
            /\ UNCHANGED <<streamVars, pos, map, entered, out>>

Reassemble == /\ status # Idle
              /\ Next
              /\ UNCHANGED streamVars

TransferNext == Stream \/ HandOver \/ Reassemble

TransferSpec == TransferInit /\ [][TransferNext]_transferVars

\* The caller's loop over next_frame runs on, and stops at an error sooner
\* or later; reconstruct_chunks is a sequential call.
FairTransfer == /\ TransferSpec
                /\ WF_transferVars(Stream /\ (Channel!NextFrame \/ Channel!GiveUp))
                /\ WF_transferVars(HandOver)
                /\ WF_transferVars(Reassemble)
-----------------------------------------------------------------------------
Inbox == Answer

App == INSTANCE Transfer WITH inbox <- Inbox

\* A message that is received is the message that was sent: whatever the
\* transport did to the stream and whatever order its frames were pushed in,
\* no message comes out altered, cut short or mixed with another.
OnlyMessagesSent == App!Spec

WrittenWell(id) ==
  \A k \in 1..Len(Message[id]) :
    Cardinality({i \in Channel!FrameIndex :
                   written[i] = ChunkFrame(id, k - 1, Len(Message[id]), Message[id][k])}) = 1

\* If the stream came to its end without an error and no kind byte was
\* changed, every message whose chunks were each pushed once is received,
\* unless another message pushed by the application is incomplete.
EverythingArrives ==
  /\ result = "end" /\ failures = 0
  /\ \A i \in Channel!FrameIndex : wire[i].kind = written[i].kind
  /\ \A id \in Ids : WrittenWell(id) \/ \A i \in Channel!FrameIndex : ~ IsChunk(written[i])
                       \/ written[i].metadata.message_id # id
  => /\ status \notin Errors
     /\ status = "ok" => \A id \in Ids : WrittenWell(id) => id \in DOMAIN out

\* Once the stream is opened, the application gets its answer.
AnswerComes == (phase = "reading") ~> (Inbox # Pending)
=============================================================================
