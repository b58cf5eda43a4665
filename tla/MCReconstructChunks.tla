------------------------ MODULE MCReconstructChunks ------------------------
(***************************************************************************)
(* Every slice of at most MaxFrames frames: the chunks of all messages, a  *)
(* chunk frame that lacks its metadata, and frames of another kind.        *)
(***************************************************************************)
EXTENDS ReconstructChunks, SequencesExt, TLC

CONSTANT MaxFrames

MCLength == [p \in Payloads |-> 1]

Plain == CHOOSE p \in Payloads : TRUE

\* One frame may differ from another in its payload where two chunks can be
\* mixed up or take each other's place: at index 0.
SomeFrames ==
  {ChunkFrame(id, 0, n, p) : id \in Ids, n \in Counts, p \in Payloads}
    \cup {ChunkFrame(id, k, n, Plain) : id \in Ids, k \in Indices \ {0}, n \in Counts}
    \cup [kind : FrameKind, metadata : {NoMeta}, payload : {Plain}]

MCSlices == BoundedSeq(SomeFrames, MaxFrames)

\* Neither the code nor a property tells two ids apart.
Interchangeable == Permutations(Ids)
=============================================================================
