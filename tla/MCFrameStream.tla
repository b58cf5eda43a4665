--------------------------- MODULE MCFrameStream ---------------------------
(***************************************************************************)
(* Streams of up to MaxWritten frames: two chunks, a frame without         *)
(* metadata, and a chunk whose metadata does not describe its payload.     *)
(***************************************************************************)
EXTENDS FrameStream

CONSTANTS m1, x, y, z

MCLength == [p \in {x, y, z} |-> IF p = z THEN 2 ELSE 1]

\* The pusher computes length and checksum itself, and can get them wrong.
Misdescribed(f, length, checksum) ==
  [f EXCEPT !.metadata.length = length, !.metadata.checksum = checksum]

MCWritable ==
  {ChunkFrame(m1, 0, 2, x), ChunkFrame(m1, 1, 2, z),
   Misdescribed(ChunkFrame(m1, 1, 2, x), 1, y),
   Misdescribed(ChunkFrame(m1, 1, 2, x), 2, x),
   [kind |-> "Message", metadata |-> NoMeta, payload |-> x]}

MCPhantoms == {[kind |-> "Message", metadata |-> NoMeta, payload |-> y]}
=============================================================================
