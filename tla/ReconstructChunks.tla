------------------------- MODULE ReconstructChunks -------------------------
(***************************************************************************)
(* reconstruct_chunks of sx-stream: goes through a slice of frames in the  *)
(* order they were collected, gathers the chunks of each message under its *)
(* id, then concatenates each message in chunk order.  The slice arrives   *)
(* over whatever transport the application has, so it may miss frames, hold*)
(* some twice, or hold them in any order.                                  *)
(*                                                                         *)
(* A rebuilt message is the sequence of its chunks' payloads.  The second  *)
(* loop takes the messages in the order of their ids in a BTreeMap; here   *)
(* it takes them in any order.                                             *)
(***************************************************************************)
EXTENDS Frames

CONSTANTS Slices,  \* the slices of frames the function is called with
          Pending, \* abstract answer: the call has not returned
          Refused  \* abstract answer: the call has returned an error

ASSUME SlicesAreFrames == Slices \subseteq Seq(Frame)

VARIABLES frames,  \* the argument
          pos,     \* the frame the first loop looks at
          map,     \* message id -> what has been gathered of it so far
          entered, \* the ids that have an entry in map
          out,     \* message id -> rebuilt message
          status   \* "scan", "build", "ok", or the error returned

vars == <<frames, pos, map, entered, out, status>>

Errors == {"chunk frame missing metadata", "inconsistent chunk_count",
           "duplicate chunk index", "incomplete chunk set", "missing chunk"}

NoChunks == [i \in {} |-> {}]

\* The value or_default() makes: nothing gathered, no count known.
EmptyAcc == [chunks |-> NoChunks, count |-> 0]

Init ==
  /\ frames \in Slices
  /\ pos = 1
  /\ map = [id \in Ids |-> EmptyAcc]
  /\ entered = {}
  /\ out = NoChunks
  /\ status = "scan"

Scanning == status = "scan" /\ pos <= Len(frames)

Here == frames[pos]

ReturnErr(e) == /\ status' = e
                /\ UNCHANGED <<frames, pos, map, entered, out>>

SkipFrame == /\ Scanning
             /\ ~ IsChunk(Here)
             /\ pos' = pos + 1
             /\ UNCHANGED <<frames, map, entered, out, status>>

RejectNoMetadata == /\ Scanning
                    /\ IsChunk(Here) /\ ~ HasMeta(Here)
                    /\ ReturnErr("chunk frame missing metadata")

\* Mutants of the next definition: no check at all, and no "not yet seen".
AnyCount(acc, meta) == TRUE
StrictCount(acc, meta) == acc.count = meta.chunk_count

\* A count of 0 stands for "no count seen yet".
CountAccepted(acc, meta) == acc.count = 0 \/ acc.count = meta.chunk_count

\* Mutant: the count is never stored.
ForgetCount(acc, meta) == acc.count

NewCount(acc, meta) == IF acc.count = 0 THEN meta.chunk_count ELSE acc.count

RejectCount == /\ Scanning
               /\ IsChunk(Here) /\ HasMeta(Here)
               /\ ~ CountAccepted(map[Here.metadata.message_id], Here.metadata)
               /\ ReturnErr("inconsistent chunk_count")

RejectDuplicate ==
  /\ Scanning
  /\ IsChunk(Here) /\ HasMeta(Here)
  /\ LET meta == Here.metadata
         acc == map[meta.message_id]
     IN  CountAccepted(acc, meta) /\ meta.chunk_index \in DOMAIN acc.chunks
  /\ ReturnErr("duplicate chunk index")

Insert(chunks, index, payload) ==
  [k \in DOMAIN chunks \cup {index} |-> IF k = index THEN payload ELSE chunks[k]]

\* Mutant: a repeated chunk index overwrites the chunk that was there.
OverwriteChunk ==
  /\ Scanning
  /\ IsChunk(Here) /\ HasMeta(Here)
  /\ LET meta == Here.metadata
         acc == map[meta.message_id]
     IN  /\ CountAccepted(acc, meta)
         /\ map' = [map EXCEPT ![meta.message_id] =
                      [chunks |-> Insert(acc.chunks, meta.chunk_index, Here.payload),
                       count |-> NewCount(acc, meta)]]
         /\ entered' = entered \cup {meta.message_id}
  /\ pos' = pos + 1
  /\ UNCHANGED <<frames, out, status>>

AcceptChunk ==
  /\ Scanning
  /\ IsChunk(Here) /\ HasMeta(Here)
  /\ LET meta == Here.metadata
         acc == map[meta.message_id]
     IN  /\ CountAccepted(acc, meta)
         /\ meta.chunk_index \notin DOMAIN acc.chunks
         /\ map' = [map EXCEPT ![meta.message_id] =
                      [chunks |-> Insert(acc.chunks, meta.chunk_index, Here.payload),
                       count |-> NewCount(acc, meta)]]
         /\ entered' = entered \cup {meta.message_id}
  /\ pos' = pos + 1
  /\ UNCHANGED <<frames, out, status>>

StartBuild == /\ status = "scan" /\ pos > Len(frames)
              /\ status' = "build"
              /\ UNCHANGED <<frames, pos, map, entered, out>>

ToBuild == entered \ DOMAIN out

\* Mutant: too many chunks are as good as enough.
SizeSuffices(acc) == Cardinality(DOMAIN acc.chunks) >= acc.count

SizeMatches(acc) == Cardinality(DOMAIN acc.chunks) = acc.count

NoGap(acc) == \A k \in 0..(acc.count - 1) : k \in DOMAIN acc.chunks

RejectIncomplete == /\ status = "build"
                    /\ \E id \in ToBuild : ~ SizeMatches(map[id])
                    /\ ReturnErr("incomplete chunk set")

RejectGap == /\ status = "build"
             /\ \E id \in ToBuild : SizeMatches(map[id]) /\ ~ NoGap(map[id])
             /\ ReturnErr("missing chunk")

\* Mutant: the chunks are appended last to first.
ConcatenateBackwards(acc) == [k \in 1..acc.count |-> acc.chunks[acc.count - k]]

Concatenate(acc) == [k \in 1..acc.count |-> acc.chunks[k - 1]]

BuildMessage == /\ status = "build"
                /\ \E id \in ToBuild :
                     /\ SizeMatches(map[id])
                     /\ NoGap(map[id])
                     /\ out' = Insert(out, id, Concatenate(map[id]))
                /\ UNCHANGED <<frames, pos, map, entered, status>>

\* Mutant: the second loop stops before the last message.
ReturnEarly == /\ status = "build"
               /\ status' = "ok"
               /\ UNCHANGED <<frames, pos, map, entered, out>>

ReturnOk == /\ status = "build" /\ ToBuild = {}
            /\ status' = "ok"
            /\ UNCHANGED <<frames, pos, map, entered, out>>

\* The call has returned; its result does not change any more.
Returned == /\ status \in {"ok"} \cup Errors
            /\ UNCHANGED vars

Next == \/ SkipFrame \/ RejectNoMetadata \/ RejectCount \/ RejectDuplicate
        \/ AcceptChunk \/ StartBuild \/ RejectIncomplete \/ RejectGap
        \/ BuildMessage \/ ReturnOk \/ Returned

Spec == Init /\ [][Next]_vars
-----------------------------------------------------------------------------

\* What a caller sees of the call, and the promise it makes.
Answer == IF status = "ok" THEN out
          ELSE IF status \in Errors THEN Refused ELSE Pending

Promise == INSTANCE Reassembly WITH answer <- Answer

TypeOK ==
  /\ frames \in Seq(Frame)
  /\ pos \in 1..(Len(frames) + 1)
  /\ entered \in SUBSET Ids
  /\ DOMAIN map = Ids
  /\ \A id \in Ids :
       /\ DOMAIN map[id] = {"chunks", "count"}
       /\ map[id].count \in Counts \cup {0}
       /\ DOMAIN map[id].chunks \subseteq Indices
       /\ \A k \in DOMAIN map[id].chunks : map[id].chunks[k] \in Payloads
  /\ DOMAIN out \subseteq entered
  /\ out = [id \in DOMAIN out |-> out[id]]
  /\ status \in {"scan", "build", "ok"} \cup Errors
  /\ status \in {"build", "ok"} => pos = Len(frames) + 1

(***************************************************************************)
(* The first loop: after the frames before pos, map holds their chunks and *)
(* nothing else, none of them repeated a chunk, and the count recorded for *)
(* a message is the first one they named.                                  *)
(***************************************************************************)
Seen == {i \in ChunkPositions(frames) : i < pos}

ChunksGathered ==
  \A i \in Seen :
    LET m == frames[i].metadata IN
      /\ m.message_id \in entered
      /\ m.chunk_index \in DOMAIN map[m.message_id].chunks
      /\ map[m.message_id].chunks[m.chunk_index] = frames[i].payload
      /\ m.chunk_count # 0 => map[m.message_id].count = m.chunk_count

NothingInvented ==
  /\ \A id \in entered : \E i \in Seen : frames[i].metadata.message_id = id
  /\ \A id \in Ids :
       /\ IsFiniteSet(DOMAIN map[id].chunks)
       /\ \A k \in DOMAIN map[id].chunks :
            \E i \in Seen : /\ frames[i].metadata.message_id = id
                            /\ frames[i].metadata.chunk_index = k
       /\ map[id].count # 0 =>
            \E i \in Seen : /\ frames[i].metadata.message_id = id
                            /\ frames[i].metadata.chunk_count = map[id].count

NoneSeenTwice ==
  \A i, j \in Seen :
    /\ SameMessage(frames[i], frames[j])
    /\ frames[i].metadata.chunk_index = frames[j].metadata.chunk_index
    => i = j

CountAt(i) == frames[i].metadata.chunk_count

Of(id, positions) == {i \in positions : frames[i].metadata.message_id = id}

\* From one of the positions on, the frames name the count n; before it, none.
NamedFrom(positions, n) ==
  \E i \in positions : /\ CountAt(i) = n
                       /\ \A j \in positions : CountAt(j) = IF j < i THEN 0 ELSE n

CountRecorded ==
  \A id \in Ids : \/ map[id].count = 0 /\ \A i \in Of(id, Seen) : CountAt(i) = 0
                  \/ map[id].count # 0 /\ NamedFrom(Of(id, Seen), map[id].count)

AllHadMetadata == \A i \in 1..(pos - 1) : IsChunk(frames[i]) => HasMeta(frames[i])

(***************************************************************************)
(* The second loop: what has been built is complete and in chunk order.    *)
(***************************************************************************)
BuiltInOrder ==
  /\ DOMAIN out # {} => status \in {"build", "ok"} \cup Errors
  /\ DOMAIN out # {} => pos = Len(frames) + 1
  /\ status = "ok" => DOMAIN out = entered
  /\ \A id \in DOMAIN out :
       /\ SizeMatches(map[id])
       /\ NoGap(map[id])
       /\ out[id] = Concatenate(map[id])

\* An error is returned only for a slice that has a defect: frames that
\* arrive in another order, or between frames of other messages and kinds,
\* are never refused.
RefusalJustified == status \in Errors => ~ WellFormed(frames)

\* The inductive invariant.
IInv == /\ TypeOK
        /\ ChunksGathered
        /\ NothingInvented
        /\ NoneSeenTwice
        /\ CountRecorded
        /\ AllHadMetadata
        /\ BuiltInOrder
        /\ RefusalJustified

\* When the call succeeds, every chunk of the slice is in its message at its
\* own place, and a message holds nothing else: no chunk was dropped,
\* repeated, or taken from another message, in whatever order they came.
Faithful ==
  status = "ok" =>
    /\ DOMAIN out = MessageIds(frames)
    /\ \A i \in ChunkPositions(frames) :
         LET m == frames[i].metadata IN
           /\ m.chunk_index + 1 \in DOMAIN out[m.message_id]
           /\ out[m.message_id][m.chunk_index + 1] = frames[i].payload
    /\ \A id \in DOMAIN out : \A k \in DOMAIN out[id] :
         \E i \in ChunkPositions(frames) :
           /\ frames[i].metadata.message_id = id
           /\ frames[i].metadata.chunk_index + 1 = k

\* The frames of a message must agree on its number of chunks (lib.rs:238-247),
\* where 0 is no number: when the call succeeds, some frame of each message
\* names its length, those after it all name the same, and those before it
\* named none.
CountsAgree ==
  status = "ok" =>
    \A id \in MessageIds(frames) :
      /\ Len(out[id]) # 0
      /\ NamedFrom(Of(id, ChunkPositions(frames)), Len(out[id]))

\* The call keeps the promise of Reassembly: whatever the order, repetitions
\* and counts in the slice, it is delivered whole or refused for a defect.
KeepsPromise == Promise!Spec
=============================================================================
