------------------------ MODULE StreamTransferProofs ------------------------
(***************************************************************************)
(* Proofs about reconstruct_chunks, for every set of ids, payloads, chunk  *)
(* indices and counts, and for slices of any length; and proofs that       *)
(* messages sent in chunks over a frame stream implement Transfer, and     *)
(* that everything arrives over a stream without errors, for any messages, *)
(* streams of any length, any number of faults and frames pushed in any    *)
(* order, twice or not at all.                                             *)
(***************************************************************************)
EXTENDS StreamTransfer, FiniteSetTheorems, SequenceTheorems, TLAPS
-----------------------------------------------------------------------------
(***************************************************************************)
(* reconstruct_chunks by itself.                                           *)
(***************************************************************************)
\* When a call begins nothing is gathered, and the invariant holds of nothing.
Fresh == /\ frames \in Seq(Frame) /\ pos = 1 /\ entered = {} /\ out = NoChunks
         /\ map = [id \in Ids |-> EmptyAcc] /\ status = "scan"

LEMMA FreshCall == Fresh => IInv
<1> SUFFICES ASSUME Fresh PROVE IInv
  OBVIOUS
<1> USE DEF Fresh
<1>1. DOMAIN NoChunks = {} /\ IsFiniteSet(DOMAIN NoChunks)
  BY FS_EmptySet DEF NoChunks
<1>2. \A id \in Ids : map[id].chunks = NoChunks /\ map[id].count = 0
                      /\ DOMAIN map[id] = {"chunks", "count"}
  BY DEF EmptyAcc
<1>3. TypeOK
  BY <1>1, <1>2 DEF TypeOK
<1>4. Seen = {}
  BY DEF Seen, ChunkPositions
<1>5. ChunksGathered /\ NoneSeenTwice
  BY <1>4 DEF ChunksGathered, NoneSeenTwice
<1>6. NothingInvented
  BY <1>1, <1>2, <1>4 DEF NothingInvented
<1>7. AllHadMetadata
  BY DEF AllHadMetadata
<1>8. BuiltInOrder /\ RefusalJustified
  BY <1>1 DEF BuiltInOrder, RefusalJustified, Errors
<1>9. CountRecorded
  BY <1>2, <1>4 DEF CountRecorded, Of
<1> QED
  BY <1>3, <1>5, <1>6, <1>7, <1>8, <1>9 DEF IInv

LEMMA InitEstablishes == Init => IInv
BY FreshCall, SlicesAreFrames DEF Init, Fresh

\* What is recorded is about the frames seen, and changes with nothing else.
LEMMA RecordedStays ==
  ASSUME CountRecorded, Seen' = Seen, UNCHANGED <<frames, map>>
  PROVE  CountRecorded'
BY DEF CountRecorded, Of, NamedFrom, CountAt

\* An error changes the status alone: the invariant carries over as soon as
\* the slice has a defect.
LEMMA ErrorStep ==
  ASSUME IInv, NEW e \in Errors, ReturnErr(e), ~ WellFormed(frames)
  PROVE  IInv'
<1> USE DEF IInv, ReturnErr
<1>0. e \notin {"ok", "build", "scan"}
  BY DEF Errors
<1>1. TypeOK'
  BY <1>0 DEF TypeOK
<1>2. Seen' = Seen
  BY DEF Seen
<1>3. ChunksGathered' /\ NothingInvented' /\ NoneSeenTwice' /\ AllHadMetadata'
  BY <1>2 DEF ChunksGathered, NothingInvented, NoneSeenTwice, AllHadMetadata
<1>4. BuiltInOrder'
  BY <1>0 DEF BuiltInOrder, SizeMatches, NoGap
<1>5. RefusalJustified'
  BY DEF RefusalJustified
<1>6. CountRecorded'
  BY <1>2, RecordedStays
<1> QED
  BY <1>1, <1>3, <1>4, <1>5, <1>6

\* The frame at a chunk position, and its fields.
LEMMA ChunkIsTyped ==
  ASSUME frames \in Seq(Frame), NEW i \in ChunkPositions(frames)
  PROVE  /\ i \in 1..Len(frames)
         /\ frames[i].payload \in Payloads
         /\ frames[i].metadata \in ChunkMetadata
         /\ frames[i].metadata.message_id \in Ids
         /\ frames[i].metadata.chunk_index \in Indices \cap Nat
         /\ frames[i].metadata.chunk_count \in Counts \cap Nat
<1>1. i \in 1..Len(frames) /\ HasMeta(frames[i])
  BY DEF ChunkPositions
<1>2. frames[i] \in Frame
  BY <1>1
<1>3. frames[i].payload \in Payloads /\ frames[i].metadata \in ChunkMetadata
  BY <1>1, <1>2 DEF Frame, HasMeta
<1> QED
  BY <1>1, <1>3, FrameConstants DEF ChunkMetadata

\* A scanned position is a position of the slice, and when its frame is a
\* chunk with metadata it becomes the one new member of Seen.
LEMMA SeenGrows ==
  ASSUME TypeOK, Scanning, pos' = pos + 1, frames' = frames
  PROVE  /\ pos \in 1..Len(frames)
         /\ Here \in Frame
         /\ HasMeta(Here) => Here.metadata \in ChunkMetadata
         /\ IsChunk(Here) /\ HasMeta(Here) => Seen' = Seen \cup {pos}
         /\ ~ IsChunk(Here) => Seen' = Seen
         /\ pos \notin Seen
         /\ Seen \subseteq ChunkPositions(frames)
<1>1. pos \in 1..Len(frames)
  BY DEF TypeOK, Scanning
<1>2. Here \in Frame
  BY <1>1 DEF Here, TypeOK
<1>3. HasMeta(Here) => Here.metadata \in ChunkMetadata
  BY <1>2 DEF Frame, HasMeta
<1>4. \A i \in Nat : i < pos' <=> i < pos \/ i = pos
  BY <1>1
<1>5. ChunkPositions(frames)' = ChunkPositions(frames) /\ ChunkPositions(frames) \subseteq Nat
  BY DEF ChunkPositions
<1>6. Seen' = {i \in ChunkPositions(frames) : i < pos \/ i = pos}
  BY <1>4, <1>5 DEF Seen
<1>7. pos \in ChunkPositions(frames) <=> IsChunk(Here) /\ HasMeta(Here)
  BY <1>1 DEF ChunkPositions, Here
<1> QED
  BY <1>1, <1>2, <1>3, <1>6, <1>7 DEF Seen

\* Going past a frame of another kind changes the position alone.
LEMMA SkipStep == IInv /\ SkipFrame => IInv'
<1> SUFFICES ASSUME IInv, SkipFrame PROVE IInv'
  OBVIOUS
<1> USE DEF IInv, SkipFrame
<1>1. /\ pos \in 1..Len(frames) /\ Seen' = Seen
      /\ Here = frames[pos]
  BY SeenGrows DEF Here
<1>2. status = "scan" /\ status' = "scan"
  BY DEF Scanning
<1>3. TypeOK'
  BY <1>1, <1>2 DEF TypeOK
<1>4. ChunksGathered' /\ NothingInvented' /\ NoneSeenTwice'
  BY <1>1 DEF ChunksGathered, NothingInvented, NoneSeenTwice
<1>5. AllHadMetadata'
  BY <1>1 DEF AllHadMetadata
<1>6. BuiltInOrder'
  BY <1>1, <1>2 DEF BuiltInOrder, TypeOK, SizeMatches, NoGap, Errors
<1>7. RefusalJustified'
  BY <1>2 DEF RefusalJustified, Errors
<1>8. CountRecorded'
  BY <1>1, RecordedStays
<1> QED
  BY <1>3, <1>4, <1>5, <1>6, <1>7, <1>8

\* Accepting a chunk adds its position to Seen and its payload to map, and
\* the guard says that no chunk of that message and index was there.
LEMMA AcceptStep == IInv /\ AcceptChunk => IInv'
<1> SUFFICES ASSUME IInv, AcceptChunk PROVE IInv'
  OBVIOUS
<1> DEFINE meta == Here.metadata
           mid == meta.message_id
           k0 == meta.chunk_index
           new == [chunks |-> Insert(map[mid].chunks, k0, Here.payload),
                   count |-> NewCount(map[mid], meta)]
<1>1. /\ Scanning /\ IsChunk(Here) /\ HasMeta(Here)
      /\ CountAccepted(map[mid], meta)
      /\ k0 \notin DOMAIN map[mid].chunks
      /\ map' = [map EXCEPT ![mid] = new]
      /\ entered' = entered \cup {mid}
      /\ pos' = pos + 1
      /\ frames' = frames /\ out' = out /\ status' = status
  BY DEF AcceptChunk
<1>2. /\ pos \in 1..Len(frames)
      /\ Here = frames[pos]
      /\ Here \in Frame
      /\ meta \in ChunkMetadata
      /\ Seen' = Seen \cup {pos}
      /\ pos \notin Seen
      /\ Seen \subseteq ChunkPositions(frames)
  BY <1>1, SeenGrows DEF IInv, Here
<1>3. /\ mid \in Ids /\ k0 \in Indices /\ meta.chunk_count \in Counts
      /\ Here.payload \in Payloads
      /\ frames[pos].metadata.message_id = mid
      /\ frames[pos].metadata.chunk_index = k0
      /\ frames[pos].metadata.chunk_count = meta.chunk_count
  BY <1>2 DEF Frame, ChunkMetadata
<1>4. status = "scan" /\ status' = "scan"
  BY <1>1 DEF Scanning
<1>5. /\ DOMAIN map' = Ids
      /\ map'[mid] = new
      /\ \A id \in Ids : id # mid => map'[id] = map[id]
  BY <1>1, <1>3 DEF IInv, TypeOK
<1>6. /\ DOMAIN new.chunks = DOMAIN map[mid].chunks \cup {k0}
      /\ new.chunks[k0] = Here.payload
      /\ \A k \in DOMAIN map[mid].chunks : new.chunks[k] = map[mid].chunks[k]
      /\ new.count = IF map[mid].count = 0 THEN meta.chunk_count ELSE map[mid].count
      /\ DOMAIN new = {"chunks", "count"}
  BY <1>1 DEF Insert, NewCount
<1>7. meta.chunk_count \in Nat /\ map[mid].count \in Nat
  <2>1. map[mid].count \in Counts \cup {0}
    BY <1>3 DEF IInv, TypeOK
  <2>2. Counts \subseteq Nat
    BY FrameConstants
  <2>3. 0 \in Nat
    OBVIOUS
  <2> QED
    BY <1>3, <2>1, <2>2, <2>3
<1> HIDE DEF new, meta, mid, k0
<1>8. TypeOK'
  <2>1. \A id \in Ids :
          /\ DOMAIN map'[id] = {"chunks", "count"}
          /\ map'[id].count \in Counts \cup {0}
          /\ DOMAIN map'[id].chunks \subseteq Indices
          /\ \A k \in DOMAIN map'[id].chunks : map'[id].chunks[k] \in Payloads
    BY <1>3, <1>5, <1>6 DEF IInv, TypeOK
  <2>2. /\ pos' \in 1..(Len(frames') + 1)
        /\ entered' \in SUBSET Ids
        /\ DOMAIN out' \subseteq entered'
    BY <1>1, <1>2, <1>3 DEF IInv, TypeOK
  <2> QED
    BY <1>1, <1>4, <1>5, <2>1, <2>2 DEF IInv, TypeOK
<1>9. ChunksGathered'
  <2> SUFFICES ASSUME NEW i \in Seen'
      PROVE LET m == frames[i].metadata IN
              /\ m.message_id \in entered'
              /\ m.chunk_index \in DOMAIN map'[m.message_id].chunks
              /\ map'[m.message_id].chunks[m.chunk_index] = frames[i].payload
              /\ m.chunk_count # 0 => map'[m.message_id].count = m.chunk_count
    BY <1>1 DEF ChunksGathered
  <2>1. CASE i = pos
    BY <2>1, <1>1, <1>2, <1>3, <1>5, <1>6, <1>7 DEF CountAccepted
  <2>2. CASE i \in Seen
    <3>1. LET m == frames[i].metadata IN
            /\ m.message_id \in entered
            /\ m.chunk_index \in DOMAIN map[m.message_id].chunks
            /\ map[m.message_id].chunks[m.chunk_index] = frames[i].payload
            /\ m.chunk_count # 0 => map[m.message_id].count = m.chunk_count
            /\ m.message_id \in Ids
      BY <2>2 DEF IInv, ChunksGathered, TypeOK
    <3>2. CASE frames[i].metadata.message_id = mid
      BY <3>1, <3>2, <1>1, <1>5, <1>6
    <3>3. CASE frames[i].metadata.message_id # mid
      BY <3>1, <3>3, <1>1, <1>5
    <3> QED
      BY <3>2, <3>3
  <2> QED
    BY <2>1, <2>2, <1>2
<1>10. NothingInvented'
  <2>1. \A id \in entered' : \E i \in Seen' : frames'[i].metadata.message_id = id
    BY <1>1, <1>2, <1>3 DEF IInv, NothingInvented
  <2>2. \A id \in Ids : IsFiniteSet(DOMAIN map'[id].chunks)
    <3>1. IsFiniteSet(DOMAIN map[mid].chunks \cup {k0})
      BY <1>3, FS_AddElement, SMTT(60) DEF IInv, NothingInvented
    <3> QED
      BY <3>1, <1>5, <1>6 DEF IInv, NothingInvented
  <2>3. ASSUME NEW id \in Ids, NEW k \in DOMAIN map'[id].chunks
        PROVE  \E i \in Seen' : /\ frames'[i].metadata.message_id = id
                                /\ frames'[i].metadata.chunk_index = k
    <3>1. CASE id = mid /\ k = k0
      BY <3>1, <1>1, <1>2, <1>3
    <3>2. CASE k \in DOMAIN map[id].chunks
      BY <3>2, <1>1, <1>2 DEF IInv, NothingInvented
    <3> QED
      BY <3>1, <3>2, <1>5, <1>6
  <2>4. ASSUME NEW id \in Ids, map'[id].count # 0
        PROVE  \E i \in Seen' : /\ frames'[i].metadata.message_id = id
                                /\ frames'[i].metadata.chunk_count = map'[id].count
    <3>1. CASE id = mid /\ map[mid].count = 0
      BY <3>1, <1>1, <1>2, <1>3, <1>5, <1>6
    <3>2. CASE map'[id].count = map[id].count
      BY <2>4, <3>2, <1>1, <1>2 DEF IInv, NothingInvented
    <3> QED
      BY <3>1, <3>2, <1>5, <1>6
  <2> QED
    BY <2>1, <2>2, <2>3, <2>4 DEF NothingInvented
<1>11. NoneSeenTwice'
  <2>1. ASSUME NEW i \in Seen, SameMessage(frames[i], frames[pos]),
               frames[i].metadata.chunk_index = frames[pos].metadata.chunk_index
        PROVE  FALSE
    BY <2>1, <1>1, <1>3 DEF IInv, ChunksGathered, SameMessage
  <2> QED
    BY <2>1, <1>1, <1>2 DEF IInv, NoneSeenTwice, SameMessage
<1>12. AllHadMetadata'
  BY <1>1, <1>2 DEF IInv, AllHadMetadata
<1>13. BuiltInOrder'
  BY <1>1, <1>2, <1>4 DEF IInv, BuiltInOrder, TypeOK, Errors
<1>14. RefusalJustified'
  BY <1>4 DEF RefusalJustified, Errors
<1>15. CountRecorded'
  <2> SUFFICES ASSUME NEW id \in Ids
               PROVE  \/ map'[id].count = 0 /\ \A i \in Of(id, Seen)' : CountAt(i)' = 0
                      \/ map'[id].count # 0 /\ NamedFrom(Of(id, Seen), map[id].count)'
    BY DEF CountRecorded
  <2>1. /\ \/ map[id].count = 0 /\ \A i \in Of(id, Seen) : CountAt(i) = 0
           \/ map[id].count # 0 /\ NamedFrom(Of(id, Seen), map[id].count)
        /\ \A i : CountAt(i)' = CountAt(i)
    BY <1>1 DEF IInv, CountRecorded, CountAt
  <2>2. CASE id # mid
    <3>1. Of(id, Seen)' = Of(id, Seen) /\ map'[id] = map[id]
      BY <2>2, <1>1, <1>2, <1>3, <1>5 DEF Of
    <3> QED
      BY <2>1, <3>1 DEF NamedFrom
  <2>3. CASE id = mid
    <3>1. /\ Of(id, Seen)' = Of(id, Seen) \cup {pos}
          /\ CountAt(pos) = meta.chunk_count
          /\ \A i \in Of(id, Seen) : i < pos /\ i \in Nat
          /\ pos \in Nat
      BY <2>3, <1>1, <1>2, <1>3 DEF Of, CountAt, Seen, ChunkPositions
    <3>2. map'[id].count = IF map[id].count = 0 THEN meta.chunk_count ELSE map[id].count
      BY <2>3, <1>5, <1>6
    <3>3. CASE map[id].count = 0 /\ meta.chunk_count = 0
      BY <2>1, <3>1, <3>2, <3>3 DEF NamedFrom
    <3>4. CASE map[id].count = 0 /\ meta.chunk_count # 0
      <4>1. \A i \in Of(id, Seen) : CountAt(i) = 0
        BY <2>1, <3>4
      <4>2. \A j \in Of(id, Seen)' :
              CountAt(j)' = IF j < pos THEN 0 ELSE meta.chunk_count
        BY <2>1, <3>1, <4>1
      <4> QED
        BY <2>1, <3>1, <3>2, <3>4, <4>2 DEF NamedFrom
    <3>5. CASE map[id].count # 0
      <4>1. meta.chunk_count = map[id].count
        BY <2>3, <3>5, <1>1 DEF CountAccepted
      <4>2. PICK i \in Of(id, Seen) :
              /\ CountAt(i) = map[id].count
              /\ \A j \in Of(id, Seen) : CountAt(j) = IF j < i THEN 0 ELSE map[id].count
        BY <2>1, <3>5 DEF NamedFrom
      <4>3. \A j \in Of(id, Seen)' :
              CountAt(j)' = IF j < i THEN 0 ELSE map[id].count
        BY <2>1, <3>1, <4>1, <4>2
      <4> QED
        BY <2>1, <3>1, <3>2, <3>5, <4>2, <4>3 DEF NamedFrom
    <3> QED
      BY <3>3, <3>4, <3>5
  <2> QED
    BY <2>2, <2>3
<1> QED
  BY <1>8, <1>9, <1>10, <1>11, <1>12, <1>13, <1>14, <1>15 DEF IInv

\* A chunk frame without metadata is a defect of the slice.
LEMMA NoMetadataIsDefect == IInv /\ RejectNoMetadata => ~ WellFormed(frames)
<1> SUFFICES ASSUME IInv, RejectNoMetadata PROVE ~ WellFormed(frames)
  OBVIOUS
<1>1. Scanning /\ IsChunk(Here) /\ ~ HasMeta(Here)
  BY DEF RejectNoMetadata
<1>2. pos \in 1..Len(frames) /\ Here = frames[pos]
  BY <1>1 DEF IInv, TypeOK, Scanning, Here
<1> QED
  BY <1>1, <1>2 DEF WellFormed

\* The count that was gathered comes from an earlier frame of the message.
LEMMA CountIsDefect == IInv /\ RejectCount => ~ WellFormed(frames)
<1> SUFFICES ASSUME IInv, RejectCount PROVE ~ WellFormed(frames)
  OBVIOUS
<1> DEFINE mid == Here.metadata.message_id
<1>1. /\ Scanning /\ IsChunk(Here) /\ HasMeta(Here)
      /\ map[mid].count # 0 /\ map[mid].count # Here.metadata.chunk_count
  BY DEF RejectCount, CountAccepted
<1>2. pos \in ChunkPositions(frames) /\ Here = frames[pos]
  BY <1>1 DEF IInv, TypeOK, Scanning, ChunkPositions, Here
<1>3. mid \in Ids
  BY <1>2, ChunkIsTyped DEF IInv, TypeOK
<1>4. PICK i \in Seen : /\ frames[i].metadata.message_id = mid
                        /\ frames[i].metadata.chunk_count = map[mid].count
  BY <1>1, <1>3 DEF IInv, NothingInvented
<1> QED
  BY <1>1, <1>2, <1>4 DEF Seen, WellFormed, SameMessage

\* The chunk that was there comes from an earlier frame.
LEMMA DuplicateIsDefect == IInv /\ RejectDuplicate => ~ WellFormed(frames)
<1> SUFFICES ASSUME IInv, RejectDuplicate PROVE ~ WellFormed(frames)
  OBVIOUS
<1> DEFINE mid == Here.metadata.message_id
           k0 == Here.metadata.chunk_index
<1>1. Scanning /\ IsChunk(Here) /\ HasMeta(Here) /\ k0 \in DOMAIN map[mid].chunks
  BY DEF RejectDuplicate
<1>2. pos \in ChunkPositions(frames) /\ Here = frames[pos]
  BY <1>1 DEF IInv, TypeOK, Scanning, ChunkPositions, Here
<1>3. mid \in Ids
  BY <1>2, ChunkIsTyped DEF IInv, TypeOK
<1>4. PICK i \in Seen : /\ frames[i].metadata.message_id = mid
                        /\ frames[i].metadata.chunk_index = k0
  BY <1>1, <1>3 DEF IInv, NothingInvented
<1>5. i \in ChunkPositions(frames) /\ i # pos
  BY <1>2, <1>4 DEF Seen, ChunkPositions, IInv, TypeOK
<1> QED
  BY <1>2, <1>4, <1>5 DEF WellFormed, SameMessage

\* Once every frame has been seen, the chunks gathered for a message of a
\* well-formed slice are exactly 0 .. count - 1.
LEMMA WellFormedIsComplete ==
  ASSUME IInv, pos = Len(frames) + 1, WellFormed(frames), NEW id \in entered
  PROVE  SizeMatches(map[id]) /\ NoGap(map[id])
<1>1. Seen = ChunkPositions(frames)
  BY DEF IInv, TypeOK, Seen, ChunkPositions
<1>2. PICK i \in Seen : frames[i].metadata.message_id = id
  BY DEF IInv, NothingInvented
<1> DEFINE n == frames[i].metadata.chunk_count
           D == DOMAIN map[id].chunks
<1>3. id \in Ids /\ n \in Nat /\ frames[i].metadata.chunk_index \in Nat
  BY <1>1, <1>2, ChunkIsTyped DEF IInv, TypeOK
<1>4. frames[i].metadata.chunk_index < n
  BY <1>1, <1>2 DEF WellFormed
<1>5. map[id].count = n
  BY <1>2, <1>3, <1>4 DEF IInv, ChunksGathered
<1>6. \A k \in D : k \in 0..(n - 1)
  <2> SUFFICES ASSUME NEW k \in D PROVE k \in 0..(n - 1)
    OBVIOUS
  <2>1. PICK j \in Seen : /\ frames[j].metadata.message_id = id
                          /\ frames[j].metadata.chunk_index = k
    BY <1>3 DEF IInv, NothingInvented
  <2>2. k \in Nat
    BY <1>3, FrameConstants DEF IInv, TypeOK
  <2>3. frames[j].metadata.chunk_count = n /\ k < frames[j].metadata.chunk_count
    BY <2>1, <1>1, <1>2 DEF WellFormed, SameMessage
  <2> QED
    BY <2>2, <2>3, <1>3
<1>7. \A k \in 0..(n - 1) : k \in D
  <2> SUFFICES ASSUME NEW k \in 0..(n - 1) PROVE k \in D
    OBVIOUS
  <2>1. PICK j \in Seen : /\ frames[j].metadata.message_id = id
                          /\ frames[j].metadata.chunk_index = k
    BY <1>1, <1>2 DEF WellFormed, SameMessage
  <2> QED
    BY <2>1 DEF IInv, ChunksGathered
<1>8. D = 0..(n - 1)
  BY <1>6, <1>7
<1>9. Cardinality(0..(n - 1)) = n
  <2>1. 0 \in Int /\ n - 1 \in Int /\ n - 1 - 0 + 1 = n /\ (0 > n - 1 => n = 0)
    BY <1>3
  <2> HIDE DEF n
  <2> QED
    BY <2>1, FS_Interval
<1> QED
  BY <1>5, <1>7, <1>8, <1>9 DEF SizeMatches, NoGap

\* So a message that is incomplete or has a gap is a defect of the slice.
LEMMA IncompleteIsDefect ==
  IInv /\ (RejectIncomplete \/ RejectGap) => ~ WellFormed(frames)
<1> SUFFICES ASSUME IInv, RejectIncomplete \/ RejectGap, WellFormed(frames)
             PROVE  FALSE
  OBVIOUS
<1>1. PICK id \in ToBuild : ~ SizeMatches(map[id]) \/ ~ NoGap(map[id])
  BY DEF RejectIncomplete, RejectGap
<1>2. pos = Len(frames) + 1 /\ id \in entered
  BY <1>1 DEF IInv, TypeOK, RejectIncomplete, RejectGap, ToBuild
<1> QED
  BY <1>1, <1>2, WellFormedIsComplete

\* Building a message adds it, complete and in order, to the output.
LEMMA BuildStep == IInv /\ BuildMessage => IInv'
<1> SUFFICES ASSUME IInv, BuildMessage PROVE IInv'
  OBVIOUS
<1>1. PICK id \in ToBuild : /\ SizeMatches(map[id])
                            /\ NoGap(map[id])
                            /\ out' = Insert(out, id, Concatenate(map[id]))
  BY DEF BuildMessage
<1>2. /\ status = "build" /\ status' = "build"
      /\ UNCHANGED <<frames, pos, map, entered>>
  BY DEF BuildMessage
<1>3. /\ DOMAIN out' = DOMAIN out \cup {id}
      /\ out'[id] = Concatenate(map[id])
      /\ \A d \in DOMAIN out : d # id => out'[d] = out[d]
  BY <1>1 DEF Insert
<1>4. id \in entered /\ id \notin DOMAIN out
  BY <1>1 DEF ToBuild
<1>5. TypeOK'
  <2>1. out' = [d \in DOMAIN out' |-> out'[d]]
    BY <1>1 DEF Insert
  <2> QED
    BY <1>2, <1>3, <1>4, <2>1 DEF IInv, TypeOK
<1>6. Seen' = Seen
  BY <1>2 DEF Seen
<1>7. ChunksGathered' /\ NothingInvented' /\ NoneSeenTwice' /\ AllHadMetadata'
  BY <1>2, <1>6 DEF IInv, ChunksGathered, NothingInvented, NoneSeenTwice, AllHadMetadata
<1>8. BuiltInOrder'
  <2>1. \A d \in DOMAIN out' : /\ SizeMatches(map[d]) /\ NoGap(map[d])
                               /\ out'[d] = Concatenate(map[d])
    BY <1>1, <1>3, <1>4 DEF IInv, BuiltInOrder
  <2> QED
    BY <1>2, <2>1 DEF IInv, BuiltInOrder, TypeOK
<1>9. RefusalJustified'
  BY <1>2 DEF RefusalJustified, Errors
<1>10. CountRecorded'
  BY <1>2, <1>6, RecordedStays DEF IInv
<1> QED
  BY <1>5, <1>7, <1>8, <1>9, <1>10 DEF IInv

\* Moving from the first loop to the second, and returning the output.
LEMMA PhaseStep == IInv /\ (StartBuild \/ ReturnOk) => IInv'
<1> SUFFICES ASSUME IInv, StartBuild \/ ReturnOk PROVE IInv'
  OBVIOUS
<1>1. /\ UNCHANGED <<frames, pos, map, entered, out>>
      /\ status' \in {"build", "ok"}
      /\ status' = "ok" => entered \subseteq DOMAIN out
      /\ pos = Len(frames) + 1
  BY DEF StartBuild, ReturnOk, ToBuild, IInv, TypeOK
<1>2. Seen' = Seen
  BY <1>1 DEF Seen
<1>3. TypeOK'
  BY <1>1 DEF IInv, TypeOK
<1>4. ChunksGathered' /\ NothingInvented' /\ NoneSeenTwice' /\ AllHadMetadata'
  BY <1>1, <1>2 DEF IInv, ChunksGathered, NothingInvented, NoneSeenTwice, AllHadMetadata
<1>5. BuiltInOrder'
  BY <1>1 DEF IInv, BuiltInOrder, TypeOK
<1>6. RefusalJustified'
  BY <1>1 DEF RefusalJustified, Errors
<1>7. CountRecorded'
  BY <1>1, <1>2, RecordedStays DEF IInv
<1> QED
  BY <1>3, <1>4, <1>5, <1>6, <1>7 DEF IInv

LEMMA StutterStep == IInv /\ UNCHANGED vars => IInv'
<1> SUFFICES ASSUME IInv, UNCHANGED vars PROVE IInv'
  OBVIOUS
<1>1. Seen' = Seen
  BY DEF vars, Seen
<1>2. CountRecorded'
  BY <1>1, RecordedStays DEF vars, IInv
<1> QED
  BY <1>1, <1>2 DEF vars, IInv, TypeOK, ChunksGathered, NothingInvented, NoneSeenTwice,
     AllHadMetadata, BuiltInOrder, RefusalJustified

-----------------------------------------------------------------------------
\* One step per action.
LEMMA NextPreserves == IInv /\ [Next]_vars => IInv'
<1> SUFFICES ASSUME IInv, [Next]_vars PROVE IInv'
  OBVIOUS
<1>1. CASE SkipFrame
  BY <1>1, SkipStep
<1>2. CASE RejectNoMetadata
  BY <1>2, NoMetadataIsDefect, ErrorStep DEF RejectNoMetadata, Errors
<1>3. CASE RejectCount
  BY <1>3, CountIsDefect, ErrorStep DEF RejectCount, Errors
<1>4. CASE RejectDuplicate
  BY <1>4, DuplicateIsDefect, ErrorStep DEF RejectDuplicate, Errors
<1>5. CASE AcceptChunk
  BY <1>5, AcceptStep
<1>6. CASE StartBuild \/ ReturnOk
  BY <1>6, PhaseStep
<1>7. CASE RejectIncomplete
  BY <1>7, IncompleteIsDefect, ErrorStep DEF RejectIncomplete, Errors
<1>8. CASE RejectGap
  BY <1>8, IncompleteIsDefect, ErrorStep DEF RejectGap, Errors
<1>9. CASE BuildMessage
  BY <1>9, BuildStep
<1>10. CASE Returned \/ UNCHANGED vars
  BY <1>10, StutterStep DEF Returned
<1> QED
  BY <1>1, <1>2, <1>3, <1>4, <1>5, <1>6, <1>7, <1>8, <1>9, <1>10 DEF Next

\* The invariant holds in every state of every call.
THEOREM Invariant == Spec => []IInv
<1> QED
  BY InitEstablishes, NextPreserves, PTL DEF Spec

\* When every message is built, every frame has been seen, so the map holds
\* the chunks of the whole slice, and the output holds the whole map.
LEMMA AllBuilt ==
  ASSUME IInv, pos = Len(frames) + 1, DOMAIN out = entered
  PROVE  /\ Seen = ChunkPositions(frames)
         /\ DOMAIN out = MessageIds(frames)
         /\ \A id \in DOMAIN out :
              /\ id \in Ids
              /\ map[id].count \in Nat
              /\ DOMAIN map[id].chunks = 0..(map[id].count - 1)
              /\ out[id] = Concatenate(map[id])
              /\ DOMAIN out[id] = 1..map[id].count
<1>2. Seen = ChunkPositions(frames)
  BY DEF IInv, TypeOK, Seen, ChunkPositions
<1>3. DOMAIN out = MessageIds(frames)
  BY <1>2 DEF IInv, ChunksGathered, NothingInvented, MessageIds
<1>4. ASSUME NEW id \in DOMAIN out
      PROVE  /\ id \in Ids
             /\ map[id].count \in Nat
             /\ DOMAIN map[id].chunks = 0..(map[id].count - 1)
             /\ out[id] = Concatenate(map[id])
             /\ DOMAIN out[id] = 1..map[id].count
  <2> DEFINE D == DOMAIN map[id].chunks
             n == map[id].count
  <2>1. id \in Ids /\ n \in Counts \cup {0} /\ IsFiniteSet(D)
    BY DEF IInv, TypeOK, NothingInvented
  <2>2. n \in Nat
    <3>1. Counts \subseteq Nat /\ 0 \in Nat
      BY FrameConstants
    <3> HIDE DEF n
    <3> QED
      BY <2>1, <3>1
  <2>3. SizeMatches(map[id]) /\ NoGap(map[id]) /\ out[id] = Concatenate(map[id])
    BY DEF IInv, BuiltInOrder
  <2>4. Cardinality(D) = n /\ 0..(n - 1) \in SUBSET D
    BY <2>3 DEF SizeMatches, NoGap
  <2>5. Cardinality(0..(n - 1)) = n
    <3>1. 0 \in Int /\ n - 1 \in Int /\ n - 1 - 0 + 1 = n /\ (0 > n - 1 => n = 0)
      BY <2>2
    <3> HIDE DEF n
    <3> QED
      BY <3>1, FS_Interval
  <2>6. D = 0..(n - 1)
    BY <2>1, <2>4, <2>5, FS_Subset
  <2> QED
    BY <2>1, <2>2, <2>3, <2>6 DEF Concatenate
<1> QED
  BY <1>2, <1>3, <1>4

\* Then each chunk of the slice is in the output at its own place, and the
\* output holds nothing else.
LEMMA OutputIsSlice ==
  ASSUME IInv, pos = Len(frames) + 1, DOMAIN out = entered
  PROVE  /\ DOMAIN out = MessageIds(frames)
         /\ \A i \in ChunkPositions(frames) :
              LET m == frames[i].metadata IN
                /\ m.chunk_index + 1 \in DOMAIN out[m.message_id]
                /\ out[m.message_id][m.chunk_index + 1] = frames[i].payload
         /\ \A id \in DOMAIN out : \A k \in DOMAIN out[id] :
              \E i \in ChunkPositions(frames) :
                /\ frames[i].metadata.message_id = id
                /\ frames[i].metadata.chunk_index + 1 = k
<1>1. ASSUME NEW i \in ChunkPositions(frames)
      PROVE  LET m == frames[i].metadata IN
               /\ m.chunk_index + 1 \in DOMAIN out[m.message_id]
               /\ out[m.message_id][m.chunk_index + 1] = frames[i].payload
  <2> DEFINE m == frames[i].metadata
             id == m.message_id
  <2>1. /\ id \in DOMAIN out
        /\ m.chunk_index \in DOMAIN map[id].chunks
        /\ map[id].chunks[m.chunk_index] = frames[i].payload
    BY AllBuilt DEF IInv, ChunksGathered
  <2>2. /\ map[id].count \in Nat
        /\ m.chunk_index \in 0..(map[id].count - 1)
        /\ out[id] = Concatenate(map[id])
    BY <2>1, AllBuilt
  <2>3. m.chunk_index + 1 \in 1..map[id].count /\ m.chunk_index + 1 - 1 = m.chunk_index
    BY <2>2
  <2> HIDE DEF m, id
  <2>4. out[id][m.chunk_index + 1] = map[id].chunks[m.chunk_index]
    BY <2>2, <2>3 DEF Concatenate
  <2>5. m.chunk_index + 1 \in DOMAIN out[id]
    BY <2>2, <2>3 DEF Concatenate
  <2> QED
    BY <2>1, <2>4, <2>5 DEF m, id
<1>2. ASSUME NEW id \in DOMAIN out, NEW k \in DOMAIN out[id]
      PROVE  \E i \in ChunkPositions(frames) :
               /\ frames[i].metadata.message_id = id
               /\ frames[i].metadata.chunk_index + 1 = k
  <2>1. /\ id \in Ids /\ map[id].count \in Nat /\ k \in 1..map[id].count
        /\ DOMAIN map[id].chunks = 0..(map[id].count - 1)
    BY AllBuilt
  <2>2. k - 1 \in DOMAIN map[id].chunks /\ (k - 1) + 1 = k
    BY <2>1
  <2>3. PICK i \in Seen : /\ frames[i].metadata.message_id = id
                          /\ frames[i].metadata.chunk_index = k - 1
    BY <2>1, <2>2, ZenonT(60) DEF IInv, NothingInvented
  <2> QED
    BY <2>2, <2>3, AllBuilt
<1> QED
  BY <1>1, <1>2, AllBuilt

\* A message has as many chunks as are counted.
LEMMA BuiltLength ==
  ASSUME NEW acc, acc.count \in Nat
  PROVE  Len(Concatenate(acc)) = acc.count
<1>1. Concatenate(acc) \in Seq({acc.chunks[k - 1] : k \in 1..acc.count})
  BY DEF Concatenate
<1>2. DOMAIN Concatenate(acc) = 1..acc.count
  BY DEF Concatenate
<1> QED
  BY <1>1, <1>2, LenProperties

LEMMA InvImpliesFaithful == IInv => Faithful
<1> SUFFICES ASSUME IInv, status = "ok" PROVE Faithful
  BY DEF Faithful
<1>1. pos = Len(frames) + 1 /\ DOMAIN out = entered
  BY DEF IInv, TypeOK, BuiltInOrder
<1> QED
  BY <1>1, OutputIsSlice DEF Faithful

\* A call that succeeds returns exactly the chunks it was given, each in its
\* message and at its place, whatever the order they came in.
THEOREM ReconstructIsFaithful == Spec => []Faithful
  BY Invariant, InvImpliesFaithful, PTL

\* A call never refuses a slice that has no defect.
THEOREM RefusalsAreJustified == Spec => []RefusalJustified
<1>1. IInv => RefusalJustified
  BY DEF IInv
<1> QED
  BY Invariant, <1>1, PTL

\* When a call succeeds, a count of 0 has come only before the first frame of
\* the message that names its length, and every frame after that names it too.
THEOREM CountsAlwaysAgree == Spec => []CountsAgree
<1>1. IInv => CountsAgree
  <2> SUFFICES ASSUME IInv, status = "ok", NEW id \in MessageIds(frames)
               PROVE  /\ Len(out[id]) # 0
                      /\ NamedFrom(Of(id, ChunkPositions(frames)), Len(out[id]))
    BY DEF CountsAgree
  <2>1. pos = Len(frames) + 1 /\ DOMAIN out = entered
    BY DEF IInv, TypeOK, BuiltInOrder
  <2>2. /\ Seen = ChunkPositions(frames)
        /\ id \in DOMAIN out /\ id \in Ids
        /\ map[id].count \in Nat
        /\ DOMAIN map[id].chunks = 0..(map[id].count - 1)
        /\ out[id] = Concatenate(map[id])
    BY <2>1, AllBuilt
  <2>3. Len(out[id]) = map[id].count
    BY <2>2, BuiltLength
  <2>4. PICK i \in ChunkPositions(frames) : frames[i].metadata.message_id = id
    BY DEF MessageIds
  <2>5. DOMAIN map[id].chunks # {}
    BY <2>2, <2>4 DEF IInv, ChunksGathered
  <2>6. map[id].count # 0
    BY <2>2, <2>5
  <2> QED
    BY <2>2, <2>3, <2>6 DEF IInv, CountRecorded
<1> QED
  BY Invariant, <1>1, PTL

-----------------------------------------------------------------------------
\* The abstract specification talks of the same frames.
LEMMA SameVocabulary ==
  /\ Promise!Frame = Frame
  /\ Promise!WellFormed(frames) <=> WellFormed(frames)
  /\ \A o : Promise!IsRebuilt(frames, o) <=> IsRebuilt(frames, o)
<1>1. /\ \A f : (Promise!IsChunk(f) <=> IsChunk(f)) /\ (Promise!HasMeta(f) <=> HasMeta(f))
      /\ \A f, g : Promise!SameMessage(f, g) <=> SameMessage(f, g)
  BY DEF IsChunk, HasMeta, SameMessage, Promise!IsChunk, Promise!HasMeta,
     Promise!SameMessage
<1>2. Promise!ChunkPositions(frames) = ChunkPositions(frames)
  BY <1>1 DEF ChunkPositions, Promise!ChunkPositions
<1>3. Promise!MessageIds(frames) = MessageIds(frames)
  BY <1>2 DEF MessageIds, Promise!MessageIds
<1>4. Promise!Frame = Frame
  BY DEF Frame, Promise!Frame, FrameKind, Promise!FrameKind, ChunkMetadata,
     Promise!ChunkMetadata
<1>5. Promise!WellFormed(frames) <=> WellFormed(frames)
  BY <1>1, <1>2 DEF WellFormed, Promise!WellFormed
<1>6. \A o : Promise!IsRebuilt(frames, o) <=> IsRebuilt(frames, o)
  BY <1>1, <1>2, <1>3 DEF IsRebuilt, Promise!IsRebuilt
<1> QED
  BY <1>4, <1>5, <1>6

\* What was built is what the abstract specification delivers.
LEMMA BuiltIsPromised ==
  ASSUME IInv, pos = Len(frames) + 1, DOMAIN out = entered
  PROVE  IsRebuilt(frames, out)
<1>1. \A i \in 1..Len(frames) : IsChunk(frames[i]) => HasMeta(frames[i])
  BY DEF IInv, AllHadMetadata, TypeOK
<1>2. ASSUME NEW id \in DOMAIN out
      PROVE  out[id] \in Seq(Payloads) /\ Len(out[id]) = map[id].count
  <2> DEFINE n == map[id].count
  <2>1. /\ id \in Ids /\ n \in Nat /\ out[id] = Concatenate(map[id])
        /\ DOMAIN map[id].chunks = 0..(n - 1)
    BY AllBuilt
  <2>2. \A k \in 1..n : map[id].chunks[k - 1] \in Payloads
    BY <2>1 DEF IInv, TypeOK
  <2>3. Concatenate(map[id]) \in [1..n -> Payloads]
    BY <2>2 DEF Concatenate
  <2> QED
    BY <2>1, <2>3, BuiltLength
<1>3. out \in [MessageIds(frames) -> Seq(Payloads)]
  <2>1. out = [id \in DOMAIN out |-> out[id]]
    BY DEF IInv, TypeOK
  <2> QED
    BY <1>2, <2>1, AllBuilt
<1>4. ASSUME NEW i \in ChunkPositions(frames)
      PROVE  LET m == frames[i].metadata IN
               /\ m.chunk_count \in {0, Len(out[m.message_id])}
               /\ m.chunk_index < Len(out[m.message_id])
               /\ out[m.message_id][m.chunk_index + 1] = frames[i].payload
  <2> DEFINE m == frames[i].metadata
  <2>1. /\ m.message_id \in DOMAIN out
        /\ m.chunk_index \in DOMAIN map[m.message_id].chunks
        /\ m.chunk_count # 0 => map[m.message_id].count = m.chunk_count
    BY AllBuilt DEF IInv, ChunksGathered
  <2>2. /\ Len(out[m.message_id]) = map[m.message_id].count
        /\ m.chunk_index \in 0..(map[m.message_id].count - 1)
        /\ map[m.message_id].count \in Nat
    BY <2>1, <1>2, AllBuilt
  <2>3. m.chunk_index < Len(out[m.message_id])
    BY <2>2
  <2>4. m.chunk_count \in {0, Len(out[m.message_id])}
    BY <2>1, <2>2
  <2> QED
    BY <2>3, <2>4, OutputIsSlice
<1>5. \A i, j \in ChunkPositions(frames) :
        /\ SameMessage(frames[i], frames[j])
        /\ frames[i].metadata.chunk_index = frames[j].metadata.chunk_index
        => i = j
  BY AllBuilt DEF IInv, NoneSeenTwice
<1>6. \A id \in MessageIds(frames) : \A k \in 1..Len(out[id]) :
        \E i \in ChunkPositions(frames) : /\ frames[i].metadata.message_id = id
                                         /\ frames[i].metadata.chunk_index + 1 = k
  BY <1>2, OutputIsSlice, LenProperties
<1> QED
  BY <1>1, <1>3, <1>4, <1>5, <1>6 DEF IsRebuilt

\* reconstruct_chunks implements Reassembly: in one visible step it delivers the
\* slice whole, or refuses it because it has a defect.
THEOREM ImplementsReassembly == Spec => KeepsPromise
<1>1. Init => Promise!Init
  BY SlicesAreFrames, SameVocabulary DEF Init, Promise!Init, Answer, Errors
<1>2. IInv /\ [Next]_vars => [Promise!Deliver \/ Promise!Refuse]_<<frames, Answer>>
  <2> SUFFICES ASSUME IInv, [Next]_vars
               PROVE  \/ Promise!Deliver \/ Promise!Refuse
                      \/ UNCHANGED <<frames, Answer>>
    BY DEF Promise!Deliver, Promise!Refuse
  <2>1. CASE SkipFrame \/ AcceptChunk \/ StartBuild \/ BuildMessage
    <3>1. /\ status \in {"scan", "build"} /\ status' \in {"scan", "build"}
          /\ frames' = frames
      BY <2>1 DEF SkipFrame, AcceptChunk, StartBuild, BuildMessage, Scanning
    <3>2. Answer = Pending /\ Answer' = Pending
      BY <3>1 DEF Answer, Errors
    <3> QED
      BY <3>1, <3>2
  <2>2. CASE RejectNoMetadata \/ RejectCount \/ RejectDuplicate
             \/ RejectIncomplete \/ RejectGap
    <3>1. /\ status \in {"scan", "build"} /\ status' \in Errors
          /\ frames' = frames
      BY <2>2 DEF RejectNoMetadata, RejectCount, RejectDuplicate, RejectIncomplete,
         RejectGap, Scanning, ReturnErr, Errors
    <3>2. ~ WellFormed(frames)
      BY <2>2, NoMetadataIsDefect, CountIsDefect, DuplicateIsDefect, IncompleteIsDefect
    <3>3. Answer = Pending /\ Answer' = Refused
      BY <3>1 DEF Answer, Errors
    <3> QED
      BY <3>1, <3>2, <3>3, SameVocabulary DEF Promise!Refuse
  <2>3. CASE ReturnOk
    <3>1. /\ status = "build" /\ status' = "ok"
          /\ UNCHANGED <<frames, out>>
          /\ pos = Len(frames) + 1 /\ DOMAIN out = entered
      BY <2>3 DEF ReturnOk, ToBuild, IInv, TypeOK
    <3>2. IsRebuilt(frames, out)
      BY <3>1, BuiltIsPromised
    <3>3. Answer = Pending /\ Answer' = out
      BY <3>1 DEF Answer, Errors
    <3> QED
      BY <3>1, <3>2, <3>3, SameVocabulary DEF Promise!Deliver
  <2>4. CASE Returned \/ UNCHANGED vars
    BY <2>4 DEF Returned, vars, Answer
  <2> QED
    BY <2>1, <2>2, <2>3, <2>4 DEF Next
<1> QED
  BY <1>1, <1>2, Invariant, PTL DEF Spec, KeepsPromise, Promise!Spec
-----------------------------------------------------------------------------
(***************************************************************************)
(* reconstruct_chunks after a frame stream.                                *)
(***************************************************************************)
\* An application puts chunk metadata on chunk frames only, and no bytes
\* inside a frame pass for a chunk frame.
NoStrayMetadata == /\ \A f \in Writable : HasMeta(f) => IsChunk(f)
                   /\ \A f \in Phantoms : ~ (IsChunk(f) /\ HasMeta(f))

\* Metadata that are those of a chunk of a message, with the chunk's payload.
Genuine(metadata, payload) ==
  metadata # NoMeta =>
    \E id \in Ids : \E k \in 1..Len(Message[id]) :
      /\ metadata.message_id = id /\ metadata.chunk_index = k - 1
      /\ metadata.chunk_count = Len(Message[id]) /\ payload = Message[id][k]

\* Metadata that name the same chunk as w; what they say of its payload, the
\* transport may have changed.
SameChunk(m, w) ==
  \/ m = w
  \/ /\ m \in ChunkMetadata /\ w \in ChunkMetadata
     /\ m.message_id = w.message_id /\ m.chunk_index = w.chunk_index
     /\ m.chunk_count = w.chunk_count

LEMMA SameChunkIsGenuine ==
  ASSUME NEW m, NEW w, NEW p, Genuine(w, p), SameChunk(m, w)
  PROVE  Genuine(m, p)
BY NoMetaIsNotMetadata DEF Genuine, SameChunk

\* What the checksums on the wire are compared with is genuine.
OnTheWire ==
  /\ written \in Seq(Writable)
  /\ wire \in Seq(Channel!EncodedFrame)
  /\ whole \in 0..Len(wire) /\ cursor \in Nat \ {0}
  /\ \A i \in 1..Len(wire) : Genuine(wire[i].metadata, wire[i].payload_checksum)

\* And so are the chunks that have come out.
ComeOut ==
  /\ delivered \in Seq([frame : Frame, origin : Nat])
  /\ \A n \in 1..Len(delivered) :
       IsChunk(delivered[n].frame) =>
         Genuine(delivered[n].frame.metadata, delivered[n].frame.payload)

\* The call has not begun, or works on such chunks and keeps its invariant.
InTheCall ==
  IF status = Idle
  THEN pos = 1 /\ entered = {} /\ map = [id \in Ids |-> EmptyAcc] /\ out = NoChunks
  ELSE /\ IInv
       /\ \A i \in 1..Len(frames) :
            IsChunk(frames[i]) => Genuine(frames[i].metadata, frames[i].payload)

TransferInv == OnTheWire /\ ComeOut /\ InTheCall

\* The frame stream talks of the same frames.
LEMMA SameFrames == Channel!Frame = Frame /\ Channel!FrameKind = FrameKind
                    /\ Channel!ChunkMetadata = ChunkMetadata
BY DEF Channel!Frame, Channel!FrameKind, Channel!ChunkMetadata, Frame, FrameKind,
       ChunkMetadata

LEMMA WritableIsGenuine ==
  ASSUME NoStrayMetadata, NEW f \in Writable
  PROVE  Genuine(f.metadata, f.payload)
<1> SUFFICES ASSUME f.metadata # NoMeta
             PROVE  \E id \in Ids : \E k \in 1..Len(Message[id]) :
                      /\ f.metadata.message_id = id /\ f.metadata.chunk_index = k - 1
                      /\ f.metadata.chunk_count = Len(Message[id])
                      /\ f.payload = Message[id][k]
  BY DEF Genuine
<1>1. f \in ChunkFrames
  BY OnlyChunksOfMessages DEF NoStrayMetadata, HasMeta
<1>2. PICK id \in Ids : \E k \in 1..Len(Message[id]) :
        f = ChunkFrame(id, k - 1, Len(Message[id]), Message[id][k])
  BY <1>1 DEF ChunkFrames
<1> QED
  BY <1>2 DEF ChunkFrame
-----------------------------------------------------------------------------
(***************************************************************************)
(* The steps of the stream.                                                *)
(***************************************************************************)
LEMMA PushStep ==
  ASSUME OnTheWire, ComeOut, NEW f \in Writable, Channel!Push(f)
  PROVE  OnTheWire' /\ ComeOut'
<1>1. /\ written' = Append(written, f) /\ wire' = wire /\ whole' = whole
      /\ cursor' = cursor /\ delivered' = delivered
  BY DEF Channel!Push, Channel!wireVars, Channel!readerVars
<1> QED
  BY <1>1 DEF OnTheWire, ComeOut

LEMMA FinishStep ==
  ASSUME OnTheWire, ComeOut, Channel!Finish, NoStrayMetadata
  PROVE  OnTheWire' /\ ComeOut'
<1> DEFINE n == Len(written)
<1>1. n \in Nat /\ \A i \in 1..n : written[i] \in Writable /\ written[i] \in Frame
  BY TransferConstants DEF OnTheWire
<1>2. /\ wire' = [i \in 1..n |-> Channel!Encode(written[i])] /\ whole' = n
      /\ written' = written /\ cursor' = cursor /\ delivered' = delivered
  BY DEF Channel!Finish
<1>3. \A i \in 1..n :
        /\ Channel!Encode(written[i]) \in Channel!EncodedFrame
        /\ Channel!Encode(written[i]).metadata = written[i].metadata
        /\ Channel!Encode(written[i]).payload_checksum = written[i].payload
  BY <1>1, SameFrames DEF Channel!Encode, Channel!EncodedFrame, Frame
<1>4. wire' \in Seq(Channel!EncodedFrame) /\ Len(wire') = n
  <2>1. wire' \in [1..n -> Channel!EncodedFrame]
    BY <1>2, <1>3
  <2> QED
    BY <1>1, <2>1
<1>5. \A i \in 1..n : Genuine(written[i].metadata, written[i].payload)
  BY <1>1, WritableIsGenuine
<1>6. \A i \in 1..n : Genuine(wire'[i].metadata, wire'[i].payload_checksum)
  BY <1>2, <1>3, <1>5
<1> QED
  BY <1>1, <1>2, <1>4, <1>6, SMTT(60) DEF OnTheWire, ComeOut

\* Damage leaves alone the checksum of the payload, and which chunk it is.
LEMMA DamagedFrame ==
  ASSUME OnTheWire, NEW i \in 1..Len(wire),
         \/ Channel!DamagePayload(i) \/ Channel!DamageKind(i)
         \/ Channel!DamageLength(i) \/ Channel!DamageDescription(i)
  PROVE  \E e \in Channel!EncodedFrame :
           /\ wire' = [wire EXCEPT ![i] = e]
           /\ e.payload_checksum = wire[i].payload_checksum
           /\ SameChunk(e.metadata, wire[i].metadata)
<1>1. wire \in Seq(Channel!EncodedFrame) /\ wire[i] \in Channel!EncodedFrame
  BY DEF OnTheWire
<1>2. CASE Channel!DamagePayload(i)
  <2>1. PICK p \in Payloads : wire' = [wire EXCEPT ![i].payload = p]
    BY <1>2 DEF Channel!DamagePayload
  <2> DEFINE d == [wire[i] EXCEPT !.payload = p]
  <2>2. /\ d \in Channel!EncodedFrame
        /\ d.payload_checksum = wire[i].payload_checksum
        /\ SameChunk(d.metadata, wire[i].metadata)
    BY <1>1 DEF Channel!EncodedFrame, SameChunk
  <2>3. wire' = [wire EXCEPT ![i] = d]
    BY <2>1
  <2> QED
    BY <2>2, <2>3
<1>3. CASE Channel!DamageKind(i)
  <2>1. PICK k \in Channel!FrameKind \cup {UnknownKind} : wire' = [wire EXCEPT ![i].kind = k]
    BY <1>3 DEF Channel!DamageKind
  <2> DEFINE d == [wire[i] EXCEPT !.kind = k]
  <2>2. /\ d \in Channel!EncodedFrame
        /\ d.payload_checksum = wire[i].payload_checksum
        /\ SameChunk(d.metadata, wire[i].metadata)
    BY <1>1 DEF Channel!EncodedFrame, SameChunk
  <2>3. wire' = [wire EXCEPT ![i] = d]
    BY <2>1
  <2> QED
    BY <2>2, <2>3
<1>4. CASE Channel!DamageLength(i)
  <2> DEFINE d == [wire[i] EXCEPT !.sized = FALSE]
  <2>1. /\ d \in Channel!EncodedFrame
        /\ d.payload_checksum = wire[i].payload_checksum
        /\ SameChunk(d.metadata, wire[i].metadata)
    BY <1>1 DEF Channel!EncodedFrame, SameChunk
  <2>2. wire' = [wire EXCEPT ![i] = d]
    BY <1>4 DEF Channel!DamageLength
  <2> QED
    BY <2>1, <2>2
<1>5. CASE Channel!DamageDescription(i)
  <2>1. wire[i].metadata \in ChunkMetadata
    BY <1>1, <1>5, SameFrames DEF Channel!DamageDescription, Channel!EncodedFrame
  <2>2. PICK n \in {wire[i].metadata.length, 0} \cup {Length[p] : p \in Payloads} :
          \E c \in Payloads :
            wire' = [wire EXCEPT ![i].metadata.length = n, ![i].metadata.checksum = c]
    BY <1>5 DEF Channel!DamageDescription
  <2>3. PICK c \in Payloads :
          wire' = [wire EXCEPT ![i].metadata.length = n, ![i].metadata.checksum = c]
    BY <2>2
  <2>4. n \in Nat
    BY <2>1, <2>2, FrameConstants DEF ChunkMetadata
  <2> DEFINE m == [wire[i].metadata EXCEPT !.length = n, !.checksum = c]
             d == [wire[i] EXCEPT !.metadata = m]
  <2>5. m \in ChunkMetadata /\ SameChunk(m, wire[i].metadata)
    BY <2>1, <2>4 DEF ChunkMetadata, SameChunk
  <2>6. wire' = [wire EXCEPT ![i] = d]
    BY <1>1, <2>1, <2>3 DEF Channel!EncodedFrame, ChunkMetadata
  <2> HIDE DEF m
  <2>7. /\ d \in Channel!EncodedFrame
        /\ d.payload_checksum = wire[i].payload_checksum /\ d.metadata = m
    BY <1>1, <2>5, SameFrames DEF Channel!EncodedFrame
  <2> QED
    BY <2>5, <2>6, <2>7
<1> QED
  BY <1>2, <1>3, <1>4, <1>5

LEMMA DamageStep ==
  ASSUME OnTheWire, ComeOut, NEW i \in 1..Len(wire),
         \/ Channel!DamagePayload(i) \/ Channel!DamageKind(i)
         \/ Channel!DamageLength(i) \/ Channel!DamageDescription(i)
  PROVE  OnTheWire' /\ ComeOut'
<1>1. wire \in Seq(Channel!EncodedFrame) /\ wire[i] \in Channel!EncodedFrame
  BY DEF OnTheWire
<1>2. PICK e \in Channel!EncodedFrame :
        /\ wire' = [wire EXCEPT ![i] = e]
        /\ e.payload_checksum = wire[i].payload_checksum
        /\ SameChunk(e.metadata, wire[i].metadata)
  BY DamagedFrame
<1>3. /\ wire' \in Seq(Channel!EncodedFrame) /\ Len(wire') = Len(wire)
      /\ \A j \in 1..Len(wire) : wire'[j] = IF j = i THEN e ELSE wire[j]
  BY <1>1, <1>2, ExceptSeq
<1>4. /\ whole' = whole /\ written' = written /\ cursor' = cursor
      /\ delivered' = delivered
  BY DEF Channel!DamagePayload, Channel!DamageKind, Channel!DamageLength,
         Channel!DamageDescription, Channel!Fault, Channel!readerVars
<1>5. \A j \in 1..Len(wire) : /\ wire'[j].payload_checksum = wire[j].payload_checksum
                              /\ SameChunk(wire'[j].metadata, wire[j].metadata)
  BY <1>2, <1>3 DEF SameChunk
<1>6. \A j \in 1..Len(wire) : Genuine(wire'[j].metadata, wire'[j].payload_checksum)
  BY <1>5, SameChunkIsGenuine DEF OnTheWire
<1> QED
  BY <1>3, <1>4, <1>6 DEF OnTheWire, ComeOut

LEMMA TruncateStep ==
  ASSUME OnTheWire, ComeOut, Channel!Truncate
  PROVE  OnTheWire' /\ ComeOut'
<1>1. whole \in Nat /\ Len(wire) \in Nat /\ whole <= Len(wire)
  BY DEF OnTheWire
<1>2. PICK n \in 0..(whole - 1) : whole' = n
  BY DEF Channel!Truncate
<1>3. wire' = wire /\ written' = written /\ cursor' = cursor /\ delivered' = delivered
  BY DEF Channel!Truncate, Channel!Fault, Channel!readerVars
<1>4. whole' \in 0..Len(wire)
  BY <1>1, <1>2
<1> QED
  BY <1>3, <1>4 DEF OnTheWire, ComeOut

\* A step that returns no frame.
LEMMA QuietStep ==
  ASSUME OnTheWire, ComeOut,
         \/ Channel!Open \/ Channel!EndOfStream \/ Channel!ReadUnknownKind
         \/ Channel!ReadBadLength \/ Channel!ReadBadPayload \/ Channel!ReadBadMetadata
         \/ Channel!ReadPastEnd \/ Channel!ReadGarbage \/ Channel!GiveUp \/ Channel!Closed
  PROVE  OnTheWire' /\ ComeOut'
<1>1. cursor \in Nat /\ cursor # 0 /\ whole \in Nat
  BY DEF OnTheWire
<1>2. wire' = wire /\ whole' = whole /\ written' = written /\ delivered' = delivered
  BY DEF Channel!Open, Channel!EndOfStream, Channel!ReadUnknownKind, Channel!ReadBadLength,
     Channel!ReadBadPayload, Channel!ReadBadMetadata, Channel!ReadPastEnd,
     Channel!ReadGarbage, Channel!GiveUp, Channel!Closed, Channel!Fail, Channel!AtFrame,
     Channel!Call, Channel!wireVars, Channel!readerVars, Channel!vars
<1>3. cursor' = cursor \/ cursor' = cursor + 1 \/ cursor' \in (cursor + 1)..(whole + 1)
  BY DEF Channel!Open, Channel!EndOfStream, Channel!ReadUnknownKind, Channel!ReadBadLength,
     Channel!ReadBadPayload, Channel!ReadBadMetadata, Channel!ReadPastEnd,
     Channel!ReadGarbage, Channel!GiveUp, Channel!Closed, Channel!Astray,
     Channel!readerVars, Channel!vars
<1>4. cursor' \in Nat \ {0}
  BY <1>1, <1>3
<1> QED
  BY <1>2, <1>4 DEF OnTheWire, ComeOut

\* A step that returns a frame.
LEMMA ReturnStep ==
  ASSUME OnTheWire, ComeOut, NEW f \in Frame, NEW o \in Nat, Channel!Yield(f, o),
         Channel!Call, cursor' \in Nat \ {0},
         IsChunk(f) => Genuine(f.metadata, f.payload)
  PROVE  OnTheWire' /\ ComeOut'
<1> DEFINE D == [frame : Frame, origin : Nat]
           d == [frame |-> f, origin |-> o]
<1>1. wire' = wire /\ whole' = whole /\ written' = written
  BY DEF Channel!Call, Channel!wireVars
<1>2. delivered \in Seq(D) /\ d \in D /\ delivered' = Append(delivered, d) /\ d.frame = f
  BY DEF ComeOut, Channel!Yield
<1> HIDE DEF D, d
<1>3. /\ delivered' \in Seq(D)
      /\ \A n \in 1..Len(delivered') :
           \/ n \in 1..Len(delivered) /\ delivered'[n] = delivered[n]
           \/ delivered'[n] = d
  BY <1>2
<1>4. \A n \in 1..Len(delivered') :
        IsChunk(delivered'[n].frame) =>
          Genuine(delivered'[n].frame.metadata, delivered'[n].frame.payload)
  BY <1>2, <1>3 DEF ComeOut
<1>5. ComeOut'
  BY <1>3, <1>4 DEF ComeOut, D
<1> QED
  BY <1>1, <1>5 DEF OnTheWire

\* A frame is returned only with the payload its checksum was computed from.
LEMMA ReadFrameStep ==
  ASSUME OnTheWire, ComeOut, Channel!ReadFrame
  PROVE  OnTheWire' /\ ComeOut'
<1> DEFINE e == wire[cursor]
           f == [kind |-> e.kind, metadata |-> e.metadata, payload |-> e.payload]
<1>1. cursor \in 1..Len(wire)
  BY DEF OnTheWire, Channel!ReadFrame, Channel!AtFrame
<1>2. /\ e \in Channel!EncodedFrame /\ Genuine(e.metadata, e.payload_checksum)
      /\ e.kind # UnknownKind /\ e.payload = e.payload_checksum
  BY <1>1 DEF OnTheWire, Channel!ReadFrame, Channel!Encoded, Channel!PayloadIntact
<1>3. Channel!Yield(f, cursor) /\ Channel!Call /\ cursor' = cursor + 1
  BY DEF Channel!ReadFrame, Channel!AtFrame, Channel!Encoded
<1>4. f \in Frame
  BY <1>2, SameFrames DEF Channel!EncodedFrame, Frame
<1>5. cursor \in Nat /\ cursor' \in Nat \ {0} /\ Genuine(f.metadata, f.payload)
  BY <1>2, <1>3 DEF OnTheWire
<1> QED
  BY <1>3, <1>4, <1>5, ReturnStep

LEMMA ReadPhantomStep ==
  ASSUME OnTheWire, ComeOut, Channel!ReadPhantom, NoStrayMetadata
  PROVE  OnTheWire' /\ ComeOut'
<1>1. PICK f \in Phantoms : Channel!Yield(f, 0)
  BY DEF Channel!ReadPhantom
<1>2. f \in Frame /\ 0 \in Nat /\ (IsChunk(f) => Genuine(f.metadata, f.payload))
  BY TransferConstants DEF NoStrayMetadata, HasMeta, Genuine
<1>3. cursor \in Nat /\ cursor # 0 /\ whole \in Nat
  BY DEF OnTheWire
<1>4. cursor' = cursor \/ cursor' \in (cursor + 1)..(whole + 1)
  BY DEF Channel!ReadPhantom, Channel!Astray
<1>5. cursor' \in Nat \ {0} /\ Channel!Call
  BY <1>3, <1>4 DEF Channel!ReadPhantom
<1> QED
  BY <1>1, <1>2, <1>5, ReturnStep

LEMMA StreamStep ==
  ASSUME OnTheWire, ComeOut, NoStrayMetadata, Channel!Next
  PROVE  OnTheWire' /\ ComeOut'
<1>1. CASE \E f \in Writable : Channel!Push(f)
  BY <1>1, PushStep
<1>2. CASE Channel!Finish
  BY <1>2, FinishStep
<1>3. CASE Channel!Transport
  BY <1>3, DamageStep, TruncateStep DEF Channel!Transport
<1>4. CASE Channel!Open \/ Channel!GiveUp \/ Channel!Closed
  BY <1>4, QuietStep
<1>5. CASE Channel!NextFrame
  BY <1>5, QuietStep, ReadFrameStep, ReadPhantomStep DEF Channel!NextFrame
<1> QED
  BY <1>1, <1>2, <1>3, <1>4, <1>5 DEF Channel!Next
-----------------------------------------------------------------------------
(***************************************************************************)
(* The steps of the composition.                                           *)
(***************************************************************************)
LEMMA TransferBegins == TransferInit => TransferInv
<1> SUFFICES ASSUME TransferInit PROVE TransferInv
  OBVIOUS
<1> USE DEF TransferInit, Channel!Init
<1>1. Len(wire) = 0 /\ Len(delivered) = 0 /\ \A n : n \notin 1..0
  OBVIOUS
<1>2. OnTheWire
  BY <1>1 DEF OnTheWire
<1>3. ComeOut
  BY <1>1 DEF ComeOut
<1>4. InTheCall
  BY DEF InTheCall
<1> QED
  BY <1>2, <1>3, <1>4 DEF TransferInv

LEMMA FreshCallNext == Fresh' => IInv'
<1> QED
  BY FreshCall, PTL

\* The call begins with the frames that have come out.
LEMMA HandOverStep == TransferInv /\ HandOver => TransferInv'
<1> SUFFICES ASSUME TransferInv, HandOver PROVE TransferInv'
  OBVIOUS
<1>1. /\ frames' = Slice /\ status' = "scan" /\ pos' = 1 /\ entered' = {}
      /\ map' = [id \in Ids |-> EmptyAcc] /\ out' = NoChunks
      /\ wire' = wire /\ whole' = whole /\ written' = written /\ cursor' = cursor
      /\ delivered' = delivered
  BY DEF HandOver, TransferInv, InTheCall, streamVars
<1>2. OnTheWire' /\ ComeOut'
  BY <1>1 DEF TransferInv, OnTheWire, ComeOut
<1>3. /\ frames' \in Seq(Frame) /\ Len(frames') = Len(delivered)
      /\ \A n \in 1..Len(delivered) : frames'[n] = delivered[n].frame
  <2>1. Len(delivered) \in Nat /\ \A n \in 1..Len(delivered) : delivered[n].frame \in Frame
    <3> DEFINE D == [frame : Frame, origin : Nat]
    <3>1. delivered \in Seq(D)
      BY DEF TransferInv, ComeOut
    <3>2. \A d \in D : d.frame \in Frame
      OBVIOUS
    <3> HIDE DEF D
    <3> QED
      BY <3>1, <3>2
  <2>2. frames' = [n \in 1..Len(delivered) |-> delivered[n].frame]
    BY <1>1 DEF Slice
  <2> QED
    BY <2>1, <2>2
<1>4. IInv'
  BY <1>1, <1>3, FreshCallNext DEF Fresh
<1>5. \A i \in 1..Len(frames') :
        IsChunk(frames'[i]) => Genuine(frames'[i].metadata, frames'[i].payload)
  BY <1>3 DEF TransferInv, ComeOut
<1>6. InTheCall'
  BY <1>1, <1>4, <1>5 DEF InTheCall, Idle
<1> QED
  BY <1>2, <1>6 DEF TransferInv

\* No step of the call ends where it has not begun, or changes its argument.
LEMMA CallStep ==
  ASSUME Next, status # Idle
  PROVE  status' # Idle /\ frames' = frames
BY DEF Next, SkipFrame, RejectNoMetadata, RejectCount, RejectDuplicate, AcceptChunk,
       StartBuild, RejectIncomplete, RejectGap, BuildMessage, ReturnOk, Returned,
       ReturnErr, Idle, vars, Scanning

LEMMA ReassembleStep == TransferInv /\ Reassemble => TransferInv'
<1> SUFFICES ASSUME TransferInv, Reassemble PROVE TransferInv'
  OBVIOUS
<1>1. /\ Next /\ status # Idle /\ status' # Idle /\ frames' = frames
      /\ wire' = wire /\ whole' = whole /\ written' = written /\ cursor' = cursor
      /\ delivered' = delivered
  BY CallStep DEF Reassemble, streamVars
<1>2. IInv'
  BY <1>1, NextPreserves DEF TransferInv, InTheCall
<1>3. OnTheWire' /\ ComeOut'
  BY <1>1 DEF TransferInv, OnTheWire, ComeOut
<1>4. InTheCall'
  BY <1>1, <1>2 DEF TransferInv, InTheCall
<1> QED
  BY <1>3, <1>4 DEF TransferInv

LEMMA TransferStep ==
  ASSUME NoStrayMetadata, TransferInv, [TransferNext]_transferVars
  PROVE  TransferInv'
<1>1. CASE Stream
  <2>1. OnTheWire' /\ ComeOut'
    BY <1>1, StreamStep DEF TransferInv, Stream
  <2>2. /\ status' = status /\ frames' = frames /\ pos' = pos /\ entered' = entered
        /\ map' = map /\ out' = out
    BY <1>1 DEF Stream, vars
  <2>3. IInv => IInv'
    BY <2>2, StutterStep DEF vars
  <2>4. InTheCall'
    BY <2>2, <2>3 DEF TransferInv, InTheCall
  <2> QED
    BY <2>1, <2>4 DEF TransferInv
<1>2. CASE HandOver
  BY <1>2, HandOverStep
<1>3. CASE Reassemble
  BY <1>3, ReassembleStep
<1>4. CASE UNCHANGED transferVars
  <2>1. /\ status' = status /\ frames' = frames /\ pos' = pos /\ entered' = entered
        /\ map' = map /\ out' = out
        /\ wire' = wire /\ whole' = whole /\ written' = written /\ cursor' = cursor
        /\ delivered' = delivered
    BY <1>4 DEF transferVars, streamVars, vars
  <2>2. IInv => IInv'
    BY <2>1, StutterStep DEF vars
  <2> QED
    BY <2>1, <2>2 DEF TransferInv, OnTheWire, ComeOut, InTheCall
<1> QED
  BY <1>1, <1>2, <1>3, <1>4 DEF TransferNext
-----------------------------------------------------------------------------
(***************************************************************************)
(* The refinement.                                                         *)
(***************************************************************************)
\* A chunk position of the frames handed over.
LEMMA ChunkIsGenuine ==
  ASSUME TransferInv, status # Idle, NEW i \in ChunkPositions(frames)
  PROVE  LET m == frames[i].metadata IN
           /\ m.message_id \in Ids
           /\ m.chunk_count = Len(Message[m.message_id])
           /\ m.chunk_count \in Nat \ {0}
           /\ frames[i].payload = Message[m.message_id][m.chunk_index + 1]
<1>1. i \in 1..Len(frames) /\ IsChunk(frames[i]) /\ HasMeta(frames[i])
  BY DEF ChunkPositions
<1>2. Genuine(frames[i].metadata, frames[i].payload)
  BY <1>1 DEF TransferInv, InTheCall
<1> DEFINE m == frames[i].metadata
<1>3. PICK id \in Ids : \E k \in 1..Len(Message[id]) :
        /\ m.message_id = id /\ m.chunk_index = k - 1
        /\ m.chunk_count = Len(Message[id]) /\ frames[i].payload = Message[id][k]
  BY <1>1, <1>2 DEF Genuine, HasMeta
<1>4. PICK k \in 1..Len(Message[id]) :
        /\ m.message_id = id /\ m.chunk_index = k - 1
        /\ m.chunk_count = Len(Message[id]) /\ frames[i].payload = Message[id][k]
  BY <1>3
<1>5. Len(Message[id]) \in Nat /\ Len(Message[id]) >= 1 /\ m.chunk_index + 1 = k
  BY <1>4, MessagesAreChunked
<1> QED
  BY <1>4, <1>5

\* A call that has gathered everything has built the messages sent.
LEMMA BuiltAsSent ==
  ASSUME TransferInv, status = "ok"
  PROVE  /\ DOMAIN out \subseteq Ids
         /\ out = [id \in DOMAIN out |-> Message[id]]
<1>1. status # Idle /\ IInv /\ DOMAIN out \subseteq entered /\ DOMAIN out \subseteq Ids
      /\ out = [id \in DOMAIN out |-> out[id]]
  BY DEF Idle, TransferInv, InTheCall, IInv, TypeOK
<1>2. ASSUME NEW id \in DOMAIN out PROVE out[id] = Message[id]
  <2>1. PICK i \in Seen : frames[i].metadata.message_id = id
    BY <1>1, <1>2 DEF IInv, NothingInvented
  <2>2. i \in ChunkPositions(frames) /\ frames[i].metadata.chunk_count \in Nat \ {0}
        /\ frames[i].metadata.chunk_count = Len(Message[id])
    BY <1>1, <2>1, ChunkIsGenuine DEF Seen
  <2>3. map[id].count = Len(Message[id])
    BY <1>1, <2>1, <2>2 DEF IInv, ChunksGathered
  <2>4. NoGap(map[id]) /\ out[id] = [k \in 1..Len(Message[id]) |-> map[id].chunks[k - 1]]
    BY <1>1, <1>2, <2>3 DEF IInv, BuiltInOrder, Concatenate
  <2>5. Message[id] \in Seq(Payloads) /\ Len(Message[id]) \in Nat
    BY <1>1, <1>2, MessagesAreChunked
  <2>6. ASSUME NEW k \in 1..Len(Message[id])
        PROVE  map[id].chunks[k - 1] = Message[id][k]
    <3>1. k - 1 \in DOMAIN map[id].chunks
      BY <2>3, <2>4, <2>5 DEF NoGap
    <3>2. PICK j \in Seen : /\ frames[j].metadata.message_id = id
                            /\ frames[j].metadata.chunk_index = k - 1
      BY <1>1, <1>2, <3>1 DEF IInv, NothingInvented
    <3>3. frames[j].payload = Message[id][(k - 1) + 1]
      BY <1>1, <3>2, ChunkIsGenuine DEF Seen
    <3>4. map[id].chunks[k - 1] = frames[j].payload
      BY <1>1, <3>2 DEF IInv, ChunksGathered
    <3> QED
      BY <2>5, <3>3, <3>4
  <2> QED
    BY <2>4, <2>5, <2>6
<1> QED
  BY <1>1, <1>2

LEMMA BuiltAsSentNext ==
  (TransferInv /\ status = "ok")'
    => (DOMAIN out \subseteq Ids /\ out = [id \in DOMAIN out |-> Message[id]])'
<1>1. TransferInv /\ status = "ok"
        => DOMAIN out \subseteq Ids /\ out = [id \in DOMAIN out |-> Message[id]]
  BY BuiltAsSent
<1> QED
  BY <1>1, PTL

\* The answer comes with the step on which the call returns, and stays.
LEMMA StepRefines ==
  ASSUME TransferInv, TransferInv', [TransferNext]_transferVars
  PROVE  [App!Receive \/ App!Refuse]_Inbox
<1>1. CASE Stream \/ HandOver \/ UNCHANGED transferVars
  <2>1. \/ status' = status /\ out' = out
        \/ status = Idle /\ status' = "scan"
    BY <1>1 DEF Stream, HandOver, transferVars, vars
  <2>2. Inbox' = Inbox
    BY <2>1 DEF Inbox, Answer, Idle, Errors
  <2> QED
    BY <2>2
<1>2. CASE Reassemble
  <2>1. Next
    BY <1>2 DEF Reassemble
  <2>2. CASE status \in {"ok"} \cup Errors
    <3>1. status' = status /\ out' = out
      BY <2>1, <2>2 DEF Next, SkipFrame, RejectNoMetadata, RejectCount, RejectDuplicate,
         AcceptChunk, StartBuild, RejectIncomplete, RejectGap, BuildMessage, ReturnOk,
         Returned, Scanning, Errors, vars
    <3> QED
      BY <3>1 DEF Inbox, Answer
  <2>3. CASE status \notin {"ok"} \cup Errors
    <3>1. Inbox = Pending
      BY <2>3 DEF Inbox, Answer
    <3>2. CASE status' = "ok"
      <4>1. Inbox' = out'
        BY <3>2 DEF Inbox, Answer
      <4>2. DOMAIN out' \subseteq Ids /\ out' = [id \in DOMAIN out' |-> Message[id]]
        BY <3>2, BuiltAsSentNext
      <4>3. DOMAIN Message = Ids
        BY MessagesAreChunked
      <4> QED
        BY <3>1, <4>1, <4>2, <4>3 DEF App!Receive
    <3>3. CASE status' \in Errors
      BY <3>1, <3>3 DEF Inbox, Answer, App!Refuse, Errors
    <3>4. CASE status' \notin {"ok"} \cup Errors
      BY <3>1, <3>4 DEF Inbox, Answer
    <3> QED
      BY <3>2, <3>3, <3>4
  <2> QED
    BY <2>2, <2>3
<1> QED
  BY <1>1, <1>2 DEF TransferNext

\* Messages sent in chunks over a frame stream come out as they were sent or
\* not at all, whatever frames the application pushed in whatever order and
\* whatever the transport has done to them: FrameWriter, FrameReader and
\* reconstruct_chunks together implement Transfer.
THEOREM ImplementsTransfer ==
  ASSUME NoStrayMetadata
  PROVE  TransferSpec => OnlyMessagesSent
<1>1. TransferInit => App!Init
  BY DEF TransferInit, App!Init, Inbox, Answer, Idle, Errors
<1>2. TransferInv /\ [TransferNext]_transferVars => TransferInv'
  BY TransferStep
<1>3. TransferInv /\ TransferInv' /\ [TransferNext]_transferVars
        => [App!Receive \/ App!Refuse]_Inbox
  BY StepRefines
<1> QED
  BY <1>1, <1>2, <1>3, TransferBegins, PTL DEF TransferSpec, OnlyMessagesSent, App!Spec
-----------------------------------------------------------------------------
(***************************************************************************)
(* Everything arrives: what a stream without errors delivers.              *)
(***************************************************************************)
\* Faults leave alone the checksums of the payloads, and which chunk is which.
WireIsWritten ==
  phase # "writing" =>
    /\ Len(wire) = Len(written)
    /\ \A i \in 1..Len(written) : /\ wire[i].payload_checksum = written[i].payload
                                  /\ SameChunk(wire[i].metadata, written[i].metadata)

\* Nothing has been read before the stream is opened.
NothingReadYet ==
  phase \in {"writing", "transport"} =>
    delivered = <<>> /\ cursor = 1 /\ aligned /\ failures = 0 /\ result = "none"

\* What is expected and what has come out are together what was written, and
\* at the end nothing is expected.
AllCounted ==
  /\ remaining \in Nat /\ failures \in Nat
  /\ phase # "writing" => remaining + Len(delivered) = Len(written)
  /\ result = "end" => remaining = 0 /\ phase = "closed"

\* While no call has failed the frames have come out one after the other, with
\* payloads that their metadata describe.
InStepWithTheWire ==
  failures = 0 =>
    /\ aligned /\ cursor = Len(delivered) + 1
    /\ \A n \in 1..Len(delivered) :
         /\ delivered[n].frame = [kind |-> wire[n].kind, metadata |-> wire[n].metadata,
                                  payload |-> wire[n].payload_checksum]
         /\ Channel!Described(delivered[n].frame)

\* The call is made once the stream is closed, with what has come out.
CalledWithSlice == status # Idle => phase = "closed" /\ frames = Slice

ReadInv == WireIsWritten /\ NothingReadYet /\ AllCounted /\ InStepWithTheWire

ArrivalInv == ReadInv /\ CalledWithSlice

LEMMA ArrivalBegins == TransferInit => ArrivalInv
<1> SUFFICES ASSUME TransferInit PROVE ArrivalInv
  OBVIOUS
<1> USE DEF TransferInit, Channel!Init
<1>1. Len(delivered) = 0 /\ \A n : n \notin 1..0
  OBVIOUS
<1>2. ReadInv
  BY <1>1 DEF ReadInv, WireIsWritten, NothingReadYet, AllCounted, InStepWithTheWire
<1>3. CalledWithSlice
  BY DEF CalledWithSlice
<1> QED
  BY <1>2, <1>3 DEF ArrivalInv

\* What has come out and what was written are sequences.
LEMMA Lengths ==
  ASSUME OnTheWire, ComeOut
  PROVE  /\ Len(delivered) \in Nat /\ Len(written) \in Nat /\ Len(wire) \in Nat
         /\ cursor \in Nat
<1> DEFINE D == [frame : Frame, origin : Nat]
<1>1. /\ delivered \in Seq(D) /\ written \in Seq(Writable)
      /\ wire \in Seq(Channel!EncodedFrame) /\ cursor \in Nat
  BY DEF OnTheWire, ComeOut
<1> HIDE DEF D
<1> QED
  BY <1>1

\* While nothing has been read, there is nothing more to say of what was read.
LEMMA ReadNothing ==
  ASSUME WireIsWritten', NothingReadYet', AllCounted',
         phase' \in {"writing", "transport"}
  PROVE  ReadInv'
<1>1. /\ Len(delivered') = 0 /\ (\A n : n \notin 1..Len(delivered'))
      /\ cursor' = 1 /\ aligned'
  BY DEF NothingReadYet
<1>2. InStepWithTheWire'
  BY <1>1 DEF InStepWithTheWire
<1> QED
  BY <1>2 DEF ReadInv

LEMMA WriteReads ==
  ASSUME OnTheWire, ComeOut, ReadInv,
         (\E f \in Writable : Channel!Push(f)) \/ Channel!Finish
  PROVE  ReadInv'
<1>1. CASE \E f \in Writable : Channel!Push(f)
  <2>1. /\ phase' = "writing" /\ phase = "writing" /\ wire' = wire
        /\ delivered' = delivered /\ cursor' = cursor /\ aligned' = aligned
        /\ failures' = failures /\ result' = result /\ remaining' = remaining
    BY <1>1 DEF Channel!Push, Channel!wireVars, Channel!readerVars
  <2>2. WireIsWritten' /\ NothingReadYet' /\ AllCounted'
    BY <2>1 DEF ReadInv, WireIsWritten, NothingReadYet, AllCounted
  <2> QED
    BY <2>1, <2>2, ReadNothing
<1>2. CASE Channel!Finish
  <2>1. /\ phase' = "transport" /\ phase = "writing" /\ written' = written
        /\ wire' = [i \in 1..Len(written) |-> Channel!Encode(written[i])]
        /\ delivered' = delivered /\ cursor' = cursor /\ aligned' = aligned
        /\ failures' = failures /\ result' = result /\ remaining' = Len(written)
    BY <1>2 DEF Channel!Finish
  <2>2. Len(written) \in Nat /\ Len(delivered) = 0 /\ result = "none"
    BY <2>1, Lengths DEF ReadInv, NothingReadYet
  <2>3. /\ Len(wire') = Len(written)
        /\ \A i \in 1..Len(written) :
             /\ wire'[i].payload_checksum = written[i].payload
             /\ SameChunk(wire'[i].metadata, written[i].metadata)
    BY <2>1, <2>2 DEF Channel!Encode, SameChunk
  <2>4. WireIsWritten'
    BY <2>1, <2>3 DEF WireIsWritten
  <2>5. NothingReadYet' /\ AllCounted'
    BY <2>1, <2>2 DEF ReadInv, NothingReadYet, AllCounted
  <2> QED
    BY <2>1, <2>4, <2>5, ReadNothing
<1> QED
  BY <1>1, <1>2

\* Damage and cuts: the checksums of the payloads stay.
LEMMA TransportReads ==
  ASSUME OnTheWire, ComeOut, ReadInv, Channel!Transport
  PROVE  ReadInv'
<1>1. Channel!Fault
  BY DEF Channel!Transport, Channel!DamagePayload, Channel!DamageKind,
     Channel!DamageLength, Channel!DamageDescription, Channel!Truncate
<1>2. /\ phase = "transport" /\ phase' = "transport" /\ written' = written
      /\ delivered' = delivered /\ cursor' = cursor /\ aligned' = aligned
      /\ failures' = failures /\ result' = result /\ remaining' = remaining
  BY <1>1 DEF Channel!Fault, Channel!readerVars
<1>3. /\ Len(wire') = Len(wire)
      /\ \A j \in 1..Len(wire) : /\ wire'[j].payload_checksum = wire[j].payload_checksum
                                 /\ SameChunk(wire'[j].metadata, wire[j].metadata)
  <2>1. CASE Channel!Truncate
    BY <2>1 DEF Channel!Truncate, SameChunk
  <2>2. ASSUME NEW i \in 1..Len(wire),
               \/ Channel!DamagePayload(i) \/ Channel!DamageKind(i)
               \/ Channel!DamageLength(i) \/ Channel!DamageDescription(i)
        PROVE  /\ Len(wire') = Len(wire)
               /\ \A j \in 1..Len(wire) :
                    /\ wire'[j].payload_checksum = wire[j].payload_checksum
                    /\ SameChunk(wire'[j].metadata, wire[j].metadata)
    <3>1. wire \in Seq(Channel!EncodedFrame)
      BY DEF OnTheWire
    <3>2. PICK e \in Channel!EncodedFrame :
            /\ wire' = [wire EXCEPT ![i] = e]
            /\ e.payload_checksum = wire[i].payload_checksum
            /\ SameChunk(e.metadata, wire[i].metadata)
      BY <2>2, DamagedFrame
    <3>3. /\ Len(wire') = Len(wire)
          /\ \A j \in 1..Len(wire) : wire'[j] = IF j = i THEN e ELSE wire[j]
      BY <3>1, <3>2, ExceptSeq
    <3> QED
      BY <3>2, <3>3 DEF SameChunk
  <2> QED
    BY <2>1, <2>2 DEF Channel!Transport
<1>4. WireIsWritten'
  <2>1. phase # "writing" /\ Len(wire) = Len(written)
    BY <1>2 DEF ReadInv, WireIsWritten
  <2>2. \A j \in 1..Len(wire) :
          /\ wire'[j].payload_checksum = written[j].payload
          /\ SameChunk(wire'[j].metadata, written[j].metadata)
    BY <1>2, <1>3, <2>1 DEF ReadInv, WireIsWritten, SameChunk
  <2> QED
    BY <1>2, <1>3, <2>1, <2>2 DEF WireIsWritten
<1>5. NothingReadYet' /\ AllCounted'
  BY <1>2 DEF ReadInv, NothingReadYet, AllCounted
<1> QED
  BY <1>2, <1>4, <1>5, ReadNothing

\* Opening the stream, giving up on it, and a stream that is closed.
LEMMA TurnReads ==
  ASSUME ReadInv, Channel!Open \/ Channel!GiveUp \/ Channel!Closed
  PROVE  ReadInv'
<1>1. /\ wire' = wire /\ written' = written /\ delivered' = delivered /\ cursor' = cursor
      /\ aligned' = aligned /\ failures' = failures /\ result' = result
      /\ remaining' = remaining
      /\ phase # "writing" /\ phase' \in {"reading", "closed"}
      /\ result = "end" => phase' = "closed"
  BY DEF Channel!Open, Channel!GiveUp, Channel!Closed, Channel!wireVars,
     Channel!readerVars, Channel!vars, ReadInv, NothingReadYet, AllCounted
<1>2. WireIsWritten' /\ NothingReadYet'
  BY <1>1 DEF ReadInv, WireIsWritten, NothingReadYet
<1>3. AllCounted'
  BY <1>1 DEF ReadInv, AllCounted
<1>4. InStepWithTheWire'
  BY <1>1 DEF ReadInv, InStepWithTheWire
<1> QED
  BY <1>2, <1>3, <1>4 DEF ReadInv

\* The end of the stream, and a call that fails.
LEMMA NoFrameReads ==
  ASSUME ReadInv,
         \/ Channel!EndOfStream \/ Channel!ReadUnknownKind \/ Channel!ReadBadLength
         \/ Channel!ReadBadPayload \/ Channel!ReadBadMetadata \/ Channel!ReadPastEnd
         \/ Channel!ReadGarbage
  PROVE  ReadInv'
<1>1. CASE Channel!EndOfStream
  <2>1. /\ wire' = wire /\ written' = written /\ delivered' = delivered
        /\ cursor' = cursor /\ aligned' = aligned /\ failures' = failures
        /\ result' = "end" /\ remaining' = remaining /\ remaining = 0
        /\ phase = "reading" /\ phase' = "closed"
    BY <1>1 DEF Channel!EndOfStream, Channel!Call, Channel!wireVars
  <2>2. WireIsWritten' /\ NothingReadYet'
    BY <2>1 DEF ReadInv, WireIsWritten, NothingReadYet
  <2>3. AllCounted' /\ InStepWithTheWire'
    BY <2>1 DEF ReadInv, AllCounted, InStepWithTheWire
  <2> QED
    BY <2>2, <2>3 DEF ReadInv
<1>2. CASE ~ Channel!EndOfStream
  <2>1. /\ wire' = wire /\ written' = written /\ delivered' = delivered
        /\ failures' = failures + 1 /\ remaining' = remaining
        /\ result' # "end" /\ phase = "reading" /\ phase' = "reading"
    BY <1>2 DEF Channel!ReadUnknownKind, Channel!ReadBadLength, Channel!ReadBadPayload,
       Channel!ReadBadMetadata, Channel!ReadPastEnd, Channel!ReadGarbage, Channel!Fail,
       Channel!AtFrame, Channel!Call, Channel!wireVars
  <2>2. failures' \in Nat /\ failures' # 0
    BY <2>1 DEF ReadInv, AllCounted
  <2>3. WireIsWritten' /\ NothingReadYet' /\ InStepWithTheWire'
    BY <2>1, <2>2 DEF ReadInv, WireIsWritten, NothingReadYet, InStepWithTheWire
  <2>4. AllCounted'
    BY <2>1, <2>2 DEF ReadInv, AllCounted
  <2> QED
    BY <2>3, <2>4 DEF ReadInv
<1> QED
  BY <1>1, <1>2

\* A call that returns a frame: the one at the cursor, unless one has failed.
LEMMA FrameReads ==
  ASSUME OnTheWire, ComeOut, ReadInv, NEW f \in Frame, NEW o \in Nat,
         Channel!Yield(f, o), Channel!Call, remaining > 0,
         failures = 0 =>
           /\ aligned' /\ cursor' = cursor + 1
           /\ f = [kind |-> wire[cursor].kind, metadata |-> wire[cursor].metadata,
                   payload |-> wire[cursor].payload_checksum]
           /\ Channel!Described(f)
  PROVE  ReadInv'
<1> DEFINE d == [frame |-> f, origin |-> o]
           D == [frame : Frame, origin : Nat]
           k == Len(delivered)
<1>1. /\ wire' = wire /\ written' = written /\ failures' = failures
      /\ remaining' = remaining - 1 /\ result' = "frame"
      /\ phase = "reading" /\ phase' = "reading"
  BY DEF Channel!Yield, Channel!Call, Channel!wireVars
<1>2. d.frame = f /\ d \in D /\ delivered \in Seq(D) /\ delivered' = Append(delivered, d)
  BY DEF ComeOut, Channel!Yield
<1> HIDE DEF d, D
<1>3. /\ k \in Nat /\ Len(delivered') = k + 1 /\ delivered'[k + 1] = d
      /\ \A n \in 1..k : delivered'[n] = delivered[n]
      /\ \A n \in 1..(k + 1) : n \in 1..k \/ n = k + 1
  BY <1>2
<1>4. WireIsWritten' /\ NothingReadYet'
  BY <1>1 DEF ReadInv, WireIsWritten, NothingReadYet
<1>5. AllCounted'
  <2>1. remaining \in Nat /\ failures \in Nat /\ remaining + k = Len(written)
    BY <1>1 DEF ReadInv, AllCounted
  <2>2. remaining - 1 \in Nat /\ (remaining - 1) + (k + 1) = Len(written)
    BY <1>3, <2>1
  <2> QED
    BY <1>1, <1>3, <2>1, <2>2 DEF AllCounted
<1>6. InStepWithTheWire'
  <2> SUFFICES ASSUME failures' = 0 PROVE InStepWithTheWire'
    BY DEF InStepWithTheWire
  <2>1. /\ failures = 0 /\ cursor = k + 1 /\ aligned' /\ cursor' = (k + 1) + 1
        /\ f = [kind |-> wire[k + 1].kind, metadata |-> wire[k + 1].metadata,
                payload |-> wire[k + 1].payload_checksum]
        /\ Channel!Described(f)
    BY <1>1 DEF ReadInv, InStepWithTheWire
  <2>2. \A n \in 1..k :
          /\ delivered[n].frame = [kind |-> wire[n].kind, metadata |-> wire[n].metadata,
                                   payload |-> wire[n].payload_checksum]
          /\ Channel!Described(delivered[n].frame)
    BY <2>1 DEF ReadInv, InStepWithTheWire
  <2>3. ASSUME NEW n \in 1..(k + 1)
        PROVE  /\ delivered'[n].frame =
                    [kind |-> wire[n].kind, metadata |-> wire[n].metadata,
                     payload |-> wire[n].payload_checksum]
               /\ Channel!Described(delivered'[n].frame)
    <3>1. CASE n \in 1..k
      BY <1>3, <2>2, <3>1
    <3>2. CASE n = k + 1
      BY <1>2, <1>3, <2>1, <3>2
    <3> QED
      BY <1>3, <3>1, <3>2
  <2> QED
    BY <1>1, <1>3, <2>1, <2>3 DEF InStepWithTheWire, Channel!Described, Channel!HasMeta
<1> QED
  BY <1>4, <1>5, <1>6 DEF ReadInv

LEMMA NextFrameReads ==
  ASSUME OnTheWire, ComeOut, ReadInv, Channel!NextFrame
  PROVE  ReadInv'
<1>1. CASE Channel!ReadFrame
  <2> DEFINE e == wire[cursor]
             f == [kind |-> e.kind, metadata |-> e.metadata, payload |-> e.payload]
  <2>1. cursor \in 1..Len(wire)
    BY <1>1 DEF OnTheWire, Channel!ReadFrame, Channel!AtFrame
  <2>2. e \in Channel!EncodedFrame /\ e.kind # UnknownKind /\ e.payload = e.payload_checksum
    BY <1>1, <2>1 DEF OnTheWire, Channel!ReadFrame, Channel!Encoded, Channel!PayloadIntact
  <2>3. /\ Channel!Yield(f, cursor) /\ Channel!Call /\ cursor' = cursor + 1
        /\ aligned' = aligned /\ aligned /\ remaining > 0
    BY <1>1 DEF Channel!ReadFrame, Channel!AtFrame, Channel!Encoded
  <2>4. f \in Frame
    BY <2>2, SameFrames DEF Channel!EncodedFrame, Frame
  <2>5. cursor \in Nat
    BY DEF OnTheWire
  <2>6. f = [kind |-> e.kind, metadata |-> e.metadata, payload |-> e.payload_checksum]
    BY <2>2
  <2>7. Channel!Described(f)
    BY <1>1, <2>2 DEF Channel!ReadFrame, Channel!Encoded, Channel!LengthAgrees,
       Channel!ChecksumAgrees, Channel!Described, Channel!HasMeta
  <2> QED
    BY <2>3, <2>4, <2>5, <2>6, <2>7, FrameReads
<1>2. CASE Channel!ReadPhantom
  <2>1. PICK f \in Phantoms : Channel!Yield(f, 0)
    BY <1>2 DEF Channel!ReadPhantom
  <2>2. f \in Frame /\ 0 \in Nat /\ Channel!Call /\ remaining > 0 /\ failures # 0
    BY <1>2, TransferConstants DEF Channel!ReadPhantom, ReadInv, InStepWithTheWire
  <2> QED
    BY <2>1, <2>2, FrameReads
<1> QED
  BY <1>1, <1>2, NoFrameReads DEF Channel!NextFrame

LEMMA ChannelReads ==
  ASSUME OnTheWire, ComeOut, ReadInv, Channel!Next
  PROVE  ReadInv'
BY WriteReads, TransportReads, TurnReads, NextFrameReads DEF Channel!Next

\* Neither the stream after the call has begun nor the call changes what the
\* call was made with.
LEMMA SliceStays ==
  ASSUME ReadInv, CalledWithSlice, status # Idle, Channel!Next, frames' = frames
  PROVE  phase' = "closed" /\ frames' = Slice'
<1>1. phase = "closed" /\ frames = Slice
  BY DEF CalledWithSlice
<1>2. Channel!Closed
  BY <1>1 DEF Channel!Next, Channel!Push, Channel!Finish, Channel!Transport,
     Channel!DamagePayload, Channel!DamageKind, Channel!DamageLength,
     Channel!DamageDescription, Channel!Truncate, Channel!Fault, Channel!Open,
     Channel!NextFrame, Channel!EndOfStream,
     Channel!ReadUnknownKind, Channel!ReadBadLength, Channel!ReadBadPayload,
     Channel!ReadBadMetadata, Channel!ReadFrame, Channel!ReadPastEnd,
     Channel!ReadGarbage, Channel!ReadPhantom, Channel!AtFrame, Channel!Call,
     Channel!GiveUp
<1>3. phase' = phase /\ delivered' = delivered
  BY <1>2 DEF Channel!Closed, Channel!vars, Channel!readerVars
<1> QED
  BY <1>1, <1>3 DEF Slice

LEMMA ArrivalStep ==
  ASSUME TransferInv, ArrivalInv, [TransferNext]_transferVars
  PROVE  ArrivalInv'
<1>1. CASE Stream
  <2>1. Channel!Next /\ frames' = frames /\ status' = status
    BY <1>1 DEF Stream, vars
  <2>2. ReadInv'
    BY <2>1, ChannelReads DEF TransferInv, ArrivalInv
  <2>3. CalledWithSlice'
    BY <2>1, SliceStays DEF ArrivalInv, CalledWithSlice
  <2> QED
    BY <2>2, <2>3 DEF ArrivalInv
<1>2. CASE HandOver \/ Reassemble \/ UNCHANGED transferVars
  <2>1. /\ phase' = phase /\ written' = written /\ wire' = wire /\ cursor' = cursor
        /\ aligned' = aligned /\ remaining' = remaining /\ delivered' = delivered
        /\ result' = result /\ failures' = failures
    BY <1>2 DEF HandOver, Reassemble, transferVars, streamVars
  <2>2. ReadInv'
    <3>1. WireIsWritten' /\ NothingReadYet'
      BY <2>1 DEF ArrivalInv, ReadInv, WireIsWritten, NothingReadYet
    <3>2. AllCounted' /\ InStepWithTheWire'
      BY <2>1 DEF ArrivalInv, ReadInv, AllCounted, InStepWithTheWire
    <3> QED
      BY <3>1, <3>2 DEF ReadInv
  <2>3. CalledWithSlice'
    <3>1. Slice' = Slice
      BY <2>1 DEF Slice
    <3>2. CASE HandOver
      BY <2>1, <3>1, <3>2 DEF HandOver, CalledWithSlice
    <3>3. CASE Reassemble
      BY <2>1, <3>1, <3>3, CallStep DEF Reassemble, ArrivalInv, CalledWithSlice
    <3>4. CASE UNCHANGED transferVars
      BY <2>1, <3>1, <3>4 DEF transferVars, vars, ArrivalInv, CalledWithSlice
    <3> QED
      BY <1>2, <3>2, <3>3, <3>4
  <2> QED
    BY <2>2, <2>3 DEF ArrivalInv
<1> QED
  BY <1>1, <1>2 DEF TransferNext

\* Every message of which frames were pushed was pushed whole.
OnlyWholeMessages ==
  \A id \in Ids : WrittenWell(id) \/ \A i \in Channel!FrameIndex : ~ IsChunk(written[i])
                    \/ written[i].metadata.message_id # id

\* A chunk frame of a message has metadata.
LEMMA ChunkFrameIsChunk ==
  ASSUME NEW id \in Ids, NEW k \in 1..Len(Message[id])
  PROVE  LET f == ChunkFrame(id, k - 1, Len(Message[id]), Message[id][k])
         IN  /\ IsChunk(f) /\ HasMeta(f)
             /\ f.metadata.message_id = id /\ f.metadata.chunk_index = k - 1
             /\ f.metadata.chunk_count = Len(Message[id])
<1> DEFINE p == Message[id][k]
           m == [message_id |-> id, chunk_index |-> k - 1,
                 chunk_count |-> Len(Message[id]), length |-> Length[p], checksum |-> p]
<1>1. /\ p \in Payloads /\ Length[p] \in Nat /\ k - 1 \in Indices
      /\ Len(Message[id]) \in Counts
  BY MessagesAreChunked, FrameConstants
<1>2. m \in ChunkMetadata
  BY <1>1 DEF ChunkMetadata
<1>3. m # NoMeta
  BY <1>2, NoMetaIsNotMetadata
<1> QED
  BY <1>3 DEF ChunkFrame, IsChunk, HasMeta

\* A frame of a message that was pushed whole is on the stream once.
LEMMA PushedOnce ==
  ASSUME NEW id \in Ids, WrittenWell(id), NEW k \in 1..Len(Message[id])
  PROVE  \E i \in Channel!FrameIndex :
           /\ written[i] = ChunkFrame(id, k - 1, Len(Message[id]), Message[id][k])
           /\ \A j \in Channel!FrameIndex :
                written[j] = ChunkFrame(id, k - 1, Len(Message[id]), Message[id][k])
                  => j = i
<1> DEFINE f == ChunkFrame(id, k - 1, Len(Message[id]), Message[id][k])
           S == {i \in Channel!FrameIndex : written[i] = f}
<1>1. Cardinality(S) = 1
  BY DEF WrittenWell
<1>2. IsFiniteSet(S)
  <2>1. IsFiniteSet(Channel!FrameIndex)
    BY FS_Interval DEF Channel!FrameIndex
  <2> QED
    BY <2>1, FS_Subset
<1> HIDE DEF f
<1>3. PICK i : S = {i}
  BY <1>1, <1>2, FS_Singleton
<1>4. i \in Channel!FrameIndex /\ written[i] = f
  BY <1>3
<1>5. \A j \in Channel!FrameIndex : written[j] = f => j = i
  BY <1>3
<1> QED
  BY <1>4, <1>5 DEF f

\* If only whole messages were pushed, the stream is well formed.
LEMMA WrittenIsWellFormed ==
  ASSUME written \in Seq(Writable), OnlyWholeMessages
  PROVE  WellFormed(written)
<1> DEFINE F(id, k) == ChunkFrame(id, k - 1, Len(Message[id]), Message[id][k])
<1>1. Len(written) \in Nat /\ \A i \in 1..Len(written) : written[i] \in Writable
  OBVIOUS
<1>2. ASSUME NEW i \in 1..Len(written), IsChunk(written[i])
      PROVE  \E id \in Ids : \E k \in 1..Len(Message[id]) :
               written[i] = F(id, k) /\ WrittenWell(id)
  <2>1. written[i] \in ChunkFrames
    BY <1>1, <1>2, OnlyChunksOfMessages
  <2>2. PICK id \in Ids : \E k \in 1..Len(Message[id]) : written[i] = F(id, k)
    BY <2>1 DEF ChunkFrames
  <2>3. PICK k \in 1..Len(Message[id]) : written[i] = F(id, k)
    BY <2>2
  <2>4. written[i].metadata.message_id = id
    BY <2>3, ChunkFrameIsChunk
  <2>5. WrittenWell(id)
    BY <1>2, <2>4 DEF OnlyWholeMessages, Channel!FrameIndex
  <2> QED
    BY <2>3, <2>5
<1>3. \A i \in 1..Len(written) : IsChunk(written[i]) => HasMeta(written[i])
  BY <1>2, ChunkFrameIsChunk
<1> HIDE DEF F
<1>4. ASSUME NEW i \in ChunkPositions(written)
      PROVE  \E id \in Ids : \E k \in 1..Len(Message[id]) :
               /\ written[i] = F(id, k) /\ WrittenWell(id)
               /\ written[i].metadata.message_id = id
               /\ written[i].metadata.chunk_index = k - 1
               /\ written[i].metadata.chunk_count = Len(Message[id])
               /\ Len(Message[id]) \in Nat
  <2>1. i \in 1..Len(written) /\ IsChunk(written[i])
    BY DEF ChunkPositions
  <2>2. PICK id \in Ids : \E k \in 1..Len(Message[id]) :
          written[i] = F(id, k) /\ WrittenWell(id)
    BY <1>2, <2>1
  <2>3. PICK k \in 1..Len(Message[id]) : written[i] = F(id, k) /\ WrittenWell(id)
    BY <2>2
  <2>4. /\ written[i].metadata.message_id = id
        /\ written[i].metadata.chunk_index = k - 1
        /\ written[i].metadata.chunk_count = Len(Message[id])
    BY <2>3, ChunkFrameIsChunk DEF F
  <2> QED
    BY <2>3, <2>4, MessagesAreChunked
<1>5. ASSUME NEW i \in ChunkPositions(written), NEW j \in ChunkPositions(written),
             SameMessage(written[i], written[j])
      PROVE  /\ written[i].metadata.chunk_count = written[j].metadata.chunk_count
             /\ written[i].metadata.chunk_index = written[j].metadata.chunk_index => i = j
  <2>1. PICK id \in Ids : \E k \in 1..Len(Message[id]) :
               /\ written[i] = F(id, k) /\ WrittenWell(id)
               /\ written[i].metadata.message_id = id
               /\ written[i].metadata.chunk_index = k - 1
               /\ written[i].metadata.chunk_count = Len(Message[id])
    BY <1>4
  <2>2. PICK k \in 1..Len(Message[id]) :
               /\ written[i] = F(id, k) /\ WrittenWell(id)
               /\ written[i].metadata.message_id = id
               /\ written[i].metadata.chunk_index = k - 1
               /\ written[i].metadata.chunk_count = Len(Message[id])
    BY <2>1
  <2>3. PICK l \in 1..Len(Message[id]) :
               /\ written[j] = F(id, l)
               /\ written[j].metadata.chunk_index = l - 1
               /\ written[j].metadata.chunk_count = Len(Message[id])
    BY <1>4, <1>5, <2>2 DEF SameMessage
  <2>4. ASSUME written[i].metadata.chunk_index = written[j].metadata.chunk_index
        PROVE  i = j
    <3>1. k = l
      BY <2>2, <2>3, <2>4
    <3>2. i \in Channel!FrameIndex /\ j \in Channel!FrameIndex
      BY DEF ChunkPositions, Channel!FrameIndex
    <3> QED
      BY <2>2, <2>3, <3>1, <3>2, PushedOnce DEF F
  <2> QED
    BY <2>2, <2>3, <2>4
<1>6. ASSUME NEW i \in ChunkPositions(written)
      PROVE  /\ written[i].metadata.chunk_index < written[i].metadata.chunk_count
             /\ \A k \in 0..(written[i].metadata.chunk_count - 1) :
                  \E j \in ChunkPositions(written) :
                    /\ SameMessage(written[i], written[j])
                    /\ written[j].metadata.chunk_index = k
  <2>1. PICK id \in Ids : \E k \in 1..Len(Message[id]) :
               /\ written[i] = F(id, k) /\ WrittenWell(id)
               /\ written[i].metadata.message_id = id
               /\ written[i].metadata.chunk_index = k - 1
               /\ written[i].metadata.chunk_count = Len(Message[id])
               /\ Len(Message[id]) \in Nat
    BY <1>4
  <2>2. written[i].metadata.chunk_index < written[i].metadata.chunk_count
    BY <2>1
  <2>3. ASSUME NEW k \in 0..(Len(Message[id]) - 1)
        PROVE  \E j \in ChunkPositions(written) :
                 SameMessage(written[i], written[j]) /\ written[j].metadata.chunk_index = k
    <3>1. k + 1 \in 1..Len(Message[id]) /\ (k + 1) - 1 = k
      BY <2>1
    <3>2. PICK j \in Channel!FrameIndex : written[j] = F(id, k + 1)
      BY <2>1, <3>1, PushedOnce DEF F
    <3>3. /\ IsChunk(written[j]) /\ HasMeta(written[j])
          /\ written[j].metadata.message_id = id /\ written[j].metadata.chunk_index = k
      BY <3>1, <3>2, ChunkFrameIsChunk DEF F
    <3>4. j \in ChunkPositions(written)
      BY <3>3 DEF ChunkPositions, Channel!FrameIndex
    <3> QED
      BY <2>1, <3>3, <3>4 DEF SameMessage
  <2> QED
    BY <2>1, <2>2, <2>3
<1> QED
  BY <1>3, <1>5, <1>6 DEF WellFormed

\* Metadata of the same chunk that describe the same payload are the same.
LEMMA SameDescription ==
  ASSUME NoStrayMetadata, NEW w \in Writable, NEW m, SameChunk(m, w.metadata),
         m # NoMeta => m.length = Length[w.payload] /\ m.checksum = w.payload
  PROVE  m = w.metadata
<1> SUFFICES ASSUME m # w.metadata PROVE FALSE
  OBVIOUS
<1>1. /\ m \in ChunkMetadata /\ w.metadata \in ChunkMetadata
      /\ m.message_id = w.metadata.message_id
      /\ m.chunk_index = w.metadata.chunk_index
      /\ m.chunk_count = w.metadata.chunk_count
  BY DEF SameChunk
<1>2. w \in ChunkFrames
  BY <1>1, NoMetaIsNotMetadata, OnlyChunksOfMessages DEF NoStrayMetadata, HasMeta
<1>3. w.metadata.length = Length[w.payload] /\ w.metadata.checksum = w.payload
  BY <1>2 DEF ChunkFrames, ChunkFrame
<1>4. m.length = w.metadata.length /\ m.checksum = w.metadata.checksum
  BY <1>1, <1>3, NoMetaIsNotMetadata
<1>5. ASSUME NEW x \in ChunkMetadata
      PROVE  x = [message_id |-> x.message_id, chunk_index |-> x.chunk_index,
                  chunk_count |-> x.chunk_count, length |-> x.length,
                  checksum |-> x.checksum]
  BY DEF ChunkMetadata
<1>6. /\ m = [message_id |-> m.message_id, chunk_index |-> m.chunk_index,
              chunk_count |-> m.chunk_count, length |-> m.length, checksum |-> m.checksum]
      /\ w.metadata = [message_id |-> w.metadata.message_id,
                       chunk_index |-> w.metadata.chunk_index,
                       chunk_count |-> w.metadata.chunk_count,
                       length |-> w.metadata.length, checksum |-> w.metadata.checksum]
  BY <1>1, <1>5
<1> QED
  BY <1>1, <1>4, <1>6

\* At the end of a stream without an error and without a changed kind, the
\* call gets what was written.
LEMMA CalledWithWritten ==
  ASSUME NoStrayMetadata, TransferInv, ArrivalInv, status # Idle, result = "end", failures = 0,
         \A i \in Channel!FrameIndex : wire[i].kind = written[i].kind
  PROVE  frames = written /\ written \in Seq(Writable)
<1>1. /\ Len(delivered) \in Nat /\ Len(written) \in Nat /\ written \in Seq(Writable)
      /\ phase = "closed" /\ remaining = 0 /\ remaining + Len(delivered) = Len(written)
      /\ frames = Slice
  BY Lengths DEF TransferInv, OnTheWire, ArrivalInv, ReadInv, AllCounted, CalledWithSlice
<1>2. Len(delivered) = Len(written)
  BY <1>1
<1>3. ASSUME NEW n \in 1..Len(written)
      PROVE  delivered[n].frame = written[n]
  <2>1. delivered[n].frame = [kind |-> wire[n].kind, metadata |-> wire[n].metadata,
                              payload |-> wire[n].payload_checksum]
        /\ Channel!Described(delivered[n].frame)
    BY <1>2 DEF ArrivalInv, ReadInv, InStepWithTheWire
  <2>2. /\ wire[n].kind = written[n].kind /\ written[n] \in Writable
        /\ SameChunk(wire[n].metadata, written[n].metadata)
        /\ wire[n].payload_checksum = written[n].payload
    BY <1>1 DEF ArrivalInv, ReadInv, WireIsWritten, Channel!FrameIndex
  <2>5. wire[n].metadata = written[n].metadata
    BY <2>1, <2>2, SameDescription DEF Channel!Described, Channel!HasMeta
  <2>3. written[n] \in Frame
    BY <1>1, TransferConstants
  <2>4. written[n] = [kind |-> written[n].kind, metadata |-> written[n].metadata,
                      payload |-> written[n].payload]
    BY <2>3 DEF Frame
  <2> QED
    BY <2>1, <2>2, <2>4, <2>5
<1>4. written = [n \in 1..Len(written) |-> written[n]]
  BY <1>1
<1>5. Slice = [n \in 1..Len(written) |-> written[n]]
  BY <1>2, <1>3 DEF Slice
<1> QED
  BY <1>1, <1>4, <1>5

LEMMA ArrivalInvImplies ==
  ASSUME NoStrayMetadata, TransferInv, ArrivalInv
  PROVE  EverythingArrives
<1> SUFFICES ASSUME result = "end", failures = 0, OnlyWholeMessages,
                    \A i \in Channel!FrameIndex : wire[i].kind = written[i].kind
             PROVE  /\ status \notin Errors
                    /\ status = "ok" => \A id \in Ids : WrittenWell(id) => id \in DOMAIN out
  BY DEF EverythingArrives, OnlyWholeMessages
<1>1. CASE status = Idle
  BY <1>1 DEF Idle, Errors
<1>2. CASE status # Idle
  <2>1. frames = written /\ written \in Seq(Writable) /\ IInv
    BY <1>2, CalledWithWritten DEF TransferInv, InTheCall
  <2>2. status \notin Errors
    BY <2>1, WrittenIsWellFormed DEF IInv, RefusalJustified
  <2>3. ASSUME status = "ok", NEW id \in Ids, WrittenWell(id)
        PROVE  id \in DOMAIN out
    <3>1. DOMAIN out = MessageIds(frames)
      BY <2>1, <2>3, AllBuilt DEF IInv, BuiltInOrder, TypeOK
    <3>2. 1 \in 1..Len(Message[id])
      BY MessagesAreChunked
    <3>3. PICK i \in Channel!FrameIndex :
            written[i] = ChunkFrame(id, 1 - 1, Len(Message[id]), Message[id][1])
      BY <2>3, <3>2, PushedOnce
    <3>4. IsChunk(written[i]) /\ HasMeta(written[i]) /\ written[i].metadata.message_id = id
      BY <3>2, <3>3, ChunkFrameIsChunk
    <3>5. i \in ChunkPositions(frames)
      BY <2>1, <3>4 DEF ChunkPositions, Channel!FrameIndex
    <3> QED
      BY <2>1, <3>1, <3>4, <3>5 DEF MessageIds
  <2> QED
    BY <2>2, <2>3
<1> QED
  BY <1>1, <1>2

\* When next_frame has come to the end of the stream without an error and the
\* transport has changed no kind byte, reconstruct_chunks does not refuse the
\* frames, and every message whose chunks were pushed once each is among its
\* results: nothing is lost between FrameWriter and the application.
THEOREM EverythingAlwaysArrives ==
  ASSUME NoStrayMetadata
  PROVE  TransferSpec => []EverythingArrives
<1>1. TransferInit => TransferInv /\ ArrivalInv
  BY TransferBegins, ArrivalBegins
<1>2. TransferInv /\ ArrivalInv /\ [TransferNext]_transferVars
        => TransferInv' /\ ArrivalInv'
  BY TransferStep, ArrivalStep
<1>3. TransferInv /\ ArrivalInv => EverythingArrives
  BY ArrivalInvImplies
<1> QED
  BY <1>1, <1>2, <1>3, PTL DEF TransferSpec
=============================================================================
