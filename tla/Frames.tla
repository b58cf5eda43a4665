------------------------------- MODULE Frames -------------------------------
(***************************************************************************)
(* The data of sx-stream: frames, chunk metadata and payloads.             *)
(*                                                                         *)
(* A payload is a value of the constant set Payloads, with a length.  Its  *)
(* checksum32 is modelled by the payload itself: two payloads are taken    *)
(* never to share the 32 bits of SHA-256 the code keeps.  The metadata     *)
(* fields segment_id and offset are carried by the code and looked at by   *)
(* nothing, so they are left out.                                          *)
(***************************************************************************)
EXTENDS Naturals, Sequences, FiniteSets

CONSTANTS Ids,        \* message ids
          Indices,    \* values a chunk_index field takes
          Counts,     \* values a chunk_count field takes
          Payloads,   \* frame payloads
          Length,     \* the number of bytes of each payload
          OtherKinds, \* the frame kinds that are not Chunk
          NoMeta      \* the metadata of a frame that has none

ASSUME FrameConstants ==
  /\ Indices \subseteq Nat
  /\ Counts \subseteq Nat
  /\ Length \in [Payloads -> Nat]
  /\ "Chunk" \notin OtherKinds

FrameKind == {"Chunk"} \cup OtherKinds

ChunkMetadata == [message_id : Ids, chunk_index : Indices, chunk_count : Counts,
                  length : Nat, checksum : Payloads]

ASSUME NoMetaIsNotMetadata == NoMeta \notin ChunkMetadata

Frame == [kind : FrameKind, metadata : ChunkMetadata \cup {NoMeta},
          payload : Payloads]

\* The chunk frame of payload p whose metadata describes p.
ChunkFrame(id, index, count, p) ==
  [kind |-> "Chunk",
   metadata |-> [message_id |-> id, chunk_index |-> index, chunk_count |-> count,
                 length |-> Length[p], checksum |-> p],
   payload |-> p]

(***************************************************************************)
(* What reassembly is about, said of the frames alone.  In a sequence fs   *)
(* of frames, a chunk position is the position of a Chunk frame that has   *)
(* metadata.                                                               *)
(***************************************************************************)
IsChunk(f) == f.kind = "Chunk"

HasMeta(f) == f.metadata # NoMeta

ChunkPositions(fs) == {i \in 1..Len(fs) : IsChunk(fs[i]) /\ HasMeta(fs[i])}

MessageIds(fs) == {fs[i].metadata.message_id : i \in ChunkPositions(fs)}

SameMessage(f, g) == f.metadata.message_id = g.metadata.message_id

\* Every Chunk frame says which chunk of which message it is, the frames of
\* one message agree on how many there are, and each chunk is there once.
WellFormed(fs) ==
  /\ \A i \in 1..Len(fs) : IsChunk(fs[i]) => HasMeta(fs[i])
  /\ \A i, j \in ChunkPositions(fs) : SameMessage(fs[i], fs[j]) =>
        /\ fs[i].metadata.chunk_count = fs[j].metadata.chunk_count
        /\ fs[i].metadata.chunk_index = fs[j].metadata.chunk_index => i = j
  /\ \A i \in ChunkPositions(fs) :
        /\ fs[i].metadata.chunk_index < fs[i].metadata.chunk_count
        /\ \A k \in 0..(fs[i].metadata.chunk_count - 1) :
             \E j \in ChunkPositions(fs) :
               SameMessage(fs[i], fs[j]) /\ fs[j].metadata.chunk_index = k

\* out holds the messages of fs whole: every Chunk frame says where it belongs
\* and is there, alone; each place of a message is that of a chunk; and the
\* length of a message is the one its frames name.  A count of 0 names none.
IsRebuilt(fs, out) ==
  /\ \A i \in 1..Len(fs) : IsChunk(fs[i]) => HasMeta(fs[i])
  /\ out \in [MessageIds(fs) -> Seq(Payloads)]
  /\ \A i \in ChunkPositions(fs) :
       LET m == fs[i].metadata IN
         /\ m.chunk_count \in {0, Len(out[m.message_id])}
         /\ m.chunk_index < Len(out[m.message_id])
         /\ out[m.message_id][m.chunk_index + 1] = fs[i].payload
  /\ \A i, j \in ChunkPositions(fs) :
       /\ SameMessage(fs[i], fs[j])
       /\ fs[i].metadata.chunk_index = fs[j].metadata.chunk_index
       => i = j
  /\ \A id \in MessageIds(fs) : \A k \in 1..Len(out[id]) :
       \E i \in ChunkPositions(fs) : /\ fs[i].metadata.message_id = id
                                    /\ fs[i].metadata.chunk_index + 1 = k
=============================================================================
