# A verification of SX

SX (`src/README.md`) is a data protocol: a document model with a text and a
binary form, schemas, deltas between documents, a stream of framed messages, a
canonical hash, a C ABI and bindings for other languages. This directory holds
TLA+ modules translated from its source, TLC runs that check them on small
instances, and proofs checked by TLAPS.

1. [The system](#1-the-system): parts, state, operations, interactions, hazards
2. [The modules](#2-the-modules) and how they correspond to the code
3. [The runs](#3-the-runs): what each shows, bounds, fairness
4. [The proofs](#4-the-proofs)
5. [Where code and documentation disagree](#5-where-code-and-documentation-disagree)
6. [What is abstracted, and what is not modelled](#6-what-is-abstracted-and-what-is-not-modelled)
7. [Plan](#7-plan)

`PROJECT.json` ties it together: for every definition the source lines it
stands for, for every run its properties, for every property a mutant of the
code model that breaks it, and the hazards with their lines.

## 1. The system

The program is a Rust workspace and starts no threads of its own. What makes it
hard is elsewhere: long sequences of legal operations on nested documents,
errors half-way through a decoder whose caller may go on, frames that arrive in
any order, twice, damaged or not at all, values at the ends of their range, two
programs that meet only in a file, and memory handed across a C ABI to programs
in other languages, which may have threads.

| Part (crate) | State it keeps | Operations | Hard behaviour | What makes it correct |
|---|---|---|---|---|
| Stream framing (`sx-stream`) | writer: frames pushed; reader: cursor, frames remaining | `FrameWriter::push`, `finish`; `FrameReader::new`, `next_frame` | damage, cuts, a caller that calls on after an error | payloads come out as pushed, in order, once; a loss is never silent |
| Chunk reassembly (`sx-stream`) | per message: chunks by index, the count; the messages built | `reconstruct_chunks` | any order, repetitions, omissions, several messages at once, a count of 0 | a message is delivered whole or the slice is refused, and only for a defect |
| Documents and paths (`sx-core`) | trees of values | lookup by path, `SxPath::parse` and `Display` | positions move when arrays change | a path leads to at most one place |
| Delta (`sx-delta`) | working copy | `apply_delta` with twelve operations, `diff` | order of operations, overlapping paths, overflow, arrays that move under a path | nothing changes elsewhere; `diff` then `apply_delta` leads to the target, without a detour |
| Text (`sx-text`) | none | lexer, parser, formatter | parser and formatter must agree | what is written can be read, and reading it again changes nothing more |
| JSON bridge (`sx-core`) | none | `sx_to_json`, `json_to_sx` | tags that any object can have by chance | the JSON of what was read is the JSON it was read from |
| Command line (`sx-cli`) | files | `convert`; `diff` writes a delta, `patch` reads and applies it | two programs meet in a file; JSON is written by one reader's rules and read by another's | the patched base is the target; a converted file says the same |
| Binary container (`sx-binary`) | dictionaries, counters of what was decoded | `encode_binary`, `decode_binary`, inspection | lengths, offsets and references from outside; arrays of objects and tables laid out by columns from 64 rows on; fast paths past the decoder | round trip in both layouts; a container that does not add up is refused; every path answers alike |
| Runtime views (`sx-runtime`) | a decoded value | field and row access, column selection, filters | filters on filters, columns of different storage | a filter leaves the rows it should |
| Schema (`sx-schema`) | message definitions | parse, `validate`, `check_compatibility` | evolution of schemas | what is compatible validates |
| Canonical hash (`sx-crypto`) | none | `canonicalize`, `logical_hash` | different values must have different forms; floats are printed to 15 decimals | equal hash means equal value, so far |
| C ABI (`sx-ffi`) | the objects it has handed out, on the heap | 18 exported functions | ownership, error paths, panics | nothing is released twice, used after release, or lost |
| Bindings (Python, C++, Java, JS) | handles | methods over the ABI, close, move, collection | use after close, threads, exceptions | they keep the ABI's ownership rules |

How they interact. `sx-stream` frames carry bytes `sx-binary` produces; an
application pushes chunk frames, reads them back and calls `reconstruct_chunks`
(`benchmark_cmd` and the tests of `sx-stream` do). `sx-delta` works on
`sx-core` documents; the command line runs `diff`, has `sx-text` format the delta into a
file, and in another process parses and applies it. `sx convert` loads a file in one of
the three forms and writes it in another; the binary form carries the canonical hash of
the value. `sx-schema` reads the defaults of its fields with the parser of `sx-text`, and
`sx-runtime` works on tables `sx-binary` has decoded. `sx-ffi` wraps parsing,
encoding, hashing and `apply_delta` behind opaque handles; the bindings call it.
There are no callbacks and no shared state except the heap behind the ABI.

## 2. The modules

### Stream

* **`Frames`**: the data. A payload is a model value with a length, its checksum
  is the payload itself; metadata is a record. `WellFormed(fs)` says which
  slices of frames have no defect. `IsRebuilt(fs, out)` says that `out` is the slice, whole:
  every chunk has metadata and is there once, at its place; every place is that of a chunk;
  and every count that is not 0 is the length of its message.
* **`Reassembly`**: the abstract promise, one step: deliver the slice whole, or refuse one
  that is not well-formed. If its only defect is a count of 0, either may happen.
* **`ReconstructChunks`**: the code of `reconstruct_chunks`, one action for each
  way an iteration of its two loops ends (`SkipFrame`, `RejectNoMetadata`,
  `RejectCount`, `RejectDuplicate`, `AcceptChunk`; `RejectIncomplete`,
  `RejectGap`, `BuildMessage`). `map` is the code's `BTreeMap` with the entry
  `or_default()` makes for every absent id, `entered` its key set, `out` the result.
  `Promise` maps it to `Reassembly`.
* **`FrameStream`**: writer, transport and reader. The stream is a sequence of
  encoded frames; the reader's byte cursor is the number of the frame it is at and
  whether it stands exactly before it (`aligned`). `next_frame` moves the cursor
  before it checks and counts a frame only on success; each of its outcomes is an
  action. The transport damages payloads, kinds, lengths, and what the metadata say of the
  payload (`DamageDescription`). After an error that leaves the cursor inside a frame the next call reads bytes
  for what they are not, and then any outcome of the decoder is possible (`ReadGarbage`,
  `ReadPhantom`).
* **`Transfer`**: the abstract end-to-end promise: some of the messages sent, each as
  sent, or an error. **`StreamTransfer`** composes `FrameStream` and
  `ReconstructChunks` as an application does and implements it.

### Deltas

* **`Documents`**: a document is a function from the paths that lead somewhere
  in it to nodes (variant, and what the node itself holds). `get`/`get_mut` succeed
  exactly on the domain. `IsDocument` says what every document is: a tree in which every path is
  there with the containers it goes through, and an array has the positions below its length
  and no other. `SetPath`, `RemovePath`, `InsertElement` and
  `RemoveElement` are `set_path`, `remove_path`, `Vec::insert` and `Vec::remove`;
  `WrapI64` and `WrapU64` the arithmetic of the release build at a small width.
* **`Delta`**: `apply_delta`; one action per operation kind with all its error
  paths in the order of the code's checks. An operation that fails leaves the model's
  copy as it was: the code drops the copy then, so whatever a failing operation
  had already changed is never seen.
* **`DeltaSync`**: `diff` as a recursive function over the paths two documents
  share, and the application of its result, operation by operation.
* **`TextForm`**: what formatter and parser together do to a node: integers lose their
  width, a float without a fraction becomes an integer, strings outside ASCII are garbled
  byte by byte, decimals grow by their scale; and what cannot be read back.
* **`DeltaText`** extends `DeltaSync` and `TextForm`: the delta's way through a file.
  Keys spelled with digits become indices; counter operations cannot be read back.

### Stored documents

* **`Conversions`**: the other forms of a document, node by node on `Documents`:
  `write_value`/`read_value` of `sx-binary` and `sx_to_json`/`json_to_sx`, whose tagged
  objects are made of, and folded back into, single nodes. `load_value` of the command
  line reads a JSON file with the parser of the text form (`json_text`).
* **`Canonical`**: `canonicalize` node by node (`normalize_decimal`, timestamps, e-mail
  addresses, and `normalize_float`, where `Rounded` says which floats have the same 15
  decimals), and `logically_equal`.
* **`Schema`**: `parse_schema` with the types as they are spelled, `validate`, and
  `check_compatibility` with the steps of its plan.
* **`StoredDocuments`** composes them: a document in a file that is read in one form
  and written in another (`Convert` is `sx convert`; `Import` another program's
  `json_to_sx`), and carried from schema to schema (`Upgrade`) where the plan says it may.

### Binary files and views

* **`Columnar`**: the two columnar payloads of `sx-binary`, event batches and tables: when
  a value is laid out by columns, dictionaries, packed bits, decoding with its checks,
  and the scan of a column in place.
* **`Container`**: header, segment table and segments; `encode_binary`,
  `parse_container`, the metadata checks and `decode_binary` in the order of the code's
  checks, and the fast paths `decode_hot_field_values` and `scan_table_numeric_gt`. Sizes are
  counted in slots, a checksum is the data it was computed from.
* **`TableView`**: `SxTableView` of `sx-runtime`: `select_columns`, the filters,
  `row_filter` and `apply_row_mask`.
* **`BinaryStore`** composes them: a program writes a value, reads it, asks the table it
  holds for rows and columns, and writes that; `Damage` changes a file in one place, and
  `WriteWrong` is an encoder that got a column wrong.

### C ABI and bindings

* **`SxAbi`**: the exported functions as relations between the heap before and
  after and the pointer handed out. A pointer that is given to a function
  which uses or releases it for what it does not point to sets `misused`. Which out-parameters are null is part of every
  call; a panic caught by `run_ffi` is one of the outcomes.
* **`CCaller`**: a C program that calls the functions in any order and keeps to
  the ownership rules in `src/bindings/c/README.md`. It is both a model of such a
  program and the abstract specification of the bindings.
* **`PythonBinding`**, **`CppBinding`**, **`JavaBinding`**: the wrappers. In Python a
  method takes several steps, because ctypes gives up the interpreter lock during
  calls; in C++ there are moves, assignments to oneself and moved-from objects, and errors
  reach `throw_if_error` or not, as the compiler orders its arguments; in Java objects may be
  closed more than once.
* **`Bindings`** puts a program written in one of the three languages over the ABI
  and shows that it implements `CCaller` (`FollowsTheRules`), with the wrappers'
  handles and the methods' local results as the pointer variables. What it maps is `Kept`: what is
  to be released (`Held`), and the pointer of a Python method to the error it has released and
  is about to read. The steps excepted are those that drop an error (`Drops`: Java's `Throw`,
  `throw_without_error` in C++) and those by which Python keeps, and then reads, that pointer
  (`Overstays`).

The modules `MC...` give the constants their values; the modules `...Proofs` hold the
theorems of section 4.

## 3. The runs

| Run | Instance | Shows |
|---|---|---|
| `reconstruct` | every slice of up to 4 frames, 2 messages, indices 0-2, counts 0-2, 2 payloads at index 0, other kinds, missing metadata | the inductive invariant `IInv`; `Faithful`: on success each chunk is at its place and nothing else is; `RefusalJustified`: an error only for a defect; `CountsAgree`: a message has the length that its frames name from one of them on, and that those before it leave open with 0; `KeepsPromise`: `ReconstructChunks` implements `Reassembly` |
| `frame_stream` | up to 3 frames of 5 sorts (two of them described wrongly by their pusher), 2 faults, 3 calls after the first failure | the inductive invariant `IInv`; `Intact`: a payload comes out as it was pushed, and under metadata that describe it; `InOrderOnce`, `PrefixUntilFailure`, `NoSilentLoss`, `ResyncAfterBadPayload` |
| `stream_transfer` | 2 messages of 2 and 1 chunks, up to 4 frames pushed in any order with repetitions and omissions, 1 fault | `OnlyMessagesSent` (implements `Transfer`), `EverythingArrives`, and under `FairTransfer` `AnswerComes` |
| `delta` | all sequences of 2 of about 90 operations on 2 documents with arrays of objects and counters at the ends of their range | `ReadBack`, `ElsewhereUnchanged`, `MoveConserves`, `CounterUndo` |
| `delta_sync` | all pairs of the documents of a small grammar, two levels deep, with values the text does and does not keep | `Converges`, `Resumable`, `EmptyMeansEqual`; `NeverAstray`: no operation is idle, undoes what is right, or leaves anything where neither document has it; `PatchedThroughText`: through a file, too, for what the text can express |
| `delta_text_target` | objects of counters | *violation*: the delta `sx diff` writes cannot be read by `sx patch` |
| `c_caller` | 3 addresses, 3 pointer variables, messages with fields, a string with a NUL, empty bytes, a delta | `NoMisuse`, `HeldOnce`, `Undisturbed` |
| `bindings` | a Python program of 2 threads, a C++ or a Java program, each with 2 objects, over 3 addresses | `NoMisuse`: pointers kept point to what they are kept as, but Python's to an error it has released; `NothingLost`: nothing on the heap that no handle and no method refers to, but errors in Java and C++; `FollowsTheRules`: implements `CCaller`, but for the steps in `Drops` and `Overstays` |
| `python_code` | same | *violation* of `ReportsItsError`: the code an exception reports is read from released memory |
| `documents` | 312 documents with every variant of node alone and in pairs, floats next to each other and to zero on both sides, objects that look tagged, 20 records; 80 schemas of one or two fields; 3 trips from file to file in any form | `PortableUnchanged` (what no trip changes), `JsonViewKept`, `Settles` (reading again changes nothing more), `HashSurvivesBinary`, `SameHashSameMeaning`, `StaysValid` |
| `binary` | tables and arrays of one to three rows on both sides of a threshold of two, with columns of every kind of cell and every typed store; 3 choices of hashes; one fault; 2 questions | `RoundTrip`, `NoSilentChange`, `FastPathsAgree`, `QuestionsOnRows` |
| `table_filter` | the tables of `binary` | *violation* of `FilterLeavesRows`: a filter leaves typed columns unfiltered |

**Bounds and why they are enough.** A slice of four frames is the smallest with two
messages of two chunks interleaved; three indices with counts of at most two
include an index beyond the count and the right number of chunks with a gap, and counts of 0
stand before, between and after others. Three
frames with two faults include a fault before and one after a good frame, and
three calls after the first failure let a reader walk through all that is left. Two operations are
enough for the effect of one operation on the path of another; longer
deltas are covered by `delta_sync`, whose deltas have up to five operations. An
integer width of 8 values has both ends and both wraps. With a threshold of two, tables of
one to three rows lie on both sides of it, and with bytes of two bits three rows need a second
byte; decoding takes each column on its own, so two columns are enough for columns that
differ. What a document loses on a trip it loses node by node, so three trips
suffice: one to change it, one to show the change, one to show that it stays (the exceptions
in `Settles` are those that go on). With three addresses for two
objects and two threads an address is soon reused by another thread.

**Fairness.** Only `AnswerComes` needs it. `FairTransfer` says that a caller
in its loop over `next_frame` goes on calling, or stops, and that
`reconstruct_chunks`, a sequential call, runs to its end; nothing is assumed of the
transport. A reader on a stream that was cut fails at every call and never reports the
end, so the caller's loop has to stop at an error sooner or later; a run of it that
skipped errors for ever would never end, in the code as in the model
(`MaxAfterFail` bounds the calls made after a failure).

**Deadlock** is checked everywhere but in three runs. Over the bindings (`bindings`,
`python_code`) the errors that Java and C++ leave behind use up the addresses, and a program out
of memory really stops; in `documents` a file that cannot be read ends the story, and so does
the last trip.

**Symmetry** is used for message ids, addresses, pointer variables, objects and
threads, which neither the models nor the properties tell apart, and not in the
run that checks liveness.

## 4. The proofs

`StreamTransferProofs` first proves of `reconstruct_chunks` by itself, for every set of message
ids, payloads, indices, counts and every set of slices of any length:

| Theorem | States |
|---|---|
| `Invariant` | `Spec => []IInv` |
| `ReconstructIsFaithful` | `Spec => []Faithful`: on success every chunk is in its message at its own place, and nothing else is |
| `RefusalsAreJustified` | `Spec => []RefusalJustified`: an error is returned only for a slice with a defect |
| `ImplementsReassembly` | `Spec => KeepsPromise`: the call implements `Reassembly` |
| `CountsAlwaysAgree` | `Spec => []CountsAgree`: a message that is delivered has the length its frames name: all of them from the first whose count is not 0, and there is one |

`Faithful` is not inductive: it speaks of the end of the call only. `IInv`
adds what both loops maintain: `TypeOK`; `ChunksGathered` (every frame before `pos`
is in `map`, under its id and index, with its payload, and a count that is not 0
is the recorded one); `NothingInvented` (every entry of `map` comes from such
a frame, and the sets of chunks are finite); `NoneSeenTwice`; `CountRecorded` (the count
recorded is the first that was named, and all later ones agree with it); `AllHadMetadata`;
`BuiltInOrder` (what the second loop has built passed its two checks and is the
concatenation in index order); `RefusalJustified`. There is one lemma per action
and one per error that shows its slice to be defective. The heart is a counting
argument (`WellFormedIsComplete`, `OutputIsSlice`): a set of chunks of size `count` without
a gap below `count` has exactly the indices below `count`, by the theorems on
finite sets.

Assumptions there: those named in `Frames` and `ReconstructChunks` (indices and counts are
natural numbers, lengths are too, `NoMeta` is no metadata, slices consist of frames).
Counts may be 0: a frame whose count is 0 is accepted before one that has another, and refused
after it.

`FrameStreamProofs` proves for every set of frames and payloads, streams of any length, any
number of faults and of calls after errors:

| Theorem | States |
|---|---|
| `Invariant` | `Spec => []IInv` |
| `AlwaysIntact` | `Spec => []Intact`: payloads come out as pushed, and under metadata that give their length and checksum |
| `AlwaysInOrderOnce`, `AlwaysPrefixUntilFailure` | frames come out in order, at most once, and a prefix until a call fails |
| `NeverSilentLoss` | `Spec => []NoSilentLoss`: the end of the stream is not reported while a frame is missing |
| `AlwaysResyncs` | `Spec => []ResyncAfterBadPayload`: damage to a payload or to metadata costs one frame |

Here `IInv` adds to the properties what the reader maintains: `WireKept` (faults
leave alone the checksum a payload is compared with), `Counted` (`remaining` and what has come
out make up what was pushed), `Passed` (what has come out lies behind the cursor), `Spread`
(without phantoms, the frames that have come out are at least as far apart on the wire as
among each other) and `InStep` (on a stream without bad kinds, bad lengths and cuts the
cursor stays at the frames' bounds). `NoSilentLoss` is `Counted` with `Spread`: as many
frames have come out as were pushed, and there is room for so many only if each is in
its place. The steps are reduced to two lemmas: a call that fails (`FailStep`) and one that
returns a frame (`YieldStep`). The assumption is `StreamConstants`.

The rest of `StreamTransferProofs` puts the two together: `ImplementsTransfer` states
`TransferSpec => OnlyMessagesSent`, that is, `StreamTransfer` implements `Transfer`, for any
messages, streams of any length, any faults, and frames pushed in any order, twice or not at
all. Its invariant, `TransferInv`, says that what is on the wire is
`Genuine` (the id, index and count of a chunk of a message, with the checksum of that chunk's
payload; `SameChunkIsGenuine` is about damage to the rest of its metadata), that so are
the chunks that have come out, and that the call of `reconstruct_chunks` has not begun or keeps its own `IInv`, whose lemmas are used as they
are. `BuiltAsSent` draws the conclusion: the count gathered for a message is the number of
its chunks, so what is built of it is the message. The theorem assumes `NoStrayMetadata`: metadata are
put on chunk frames only (the kind byte is covered by no checksum, so any other frame with
metadata may come out as a chunk), and no bytes inside a frame pass for a chunk frame.
The other assumptions are those named in `StreamTransfer`.

`EverythingAlwaysArrives` states `TransferSpec => []EverythingArrives` under the same
assumption: a stream without faults of which every chunk was pushed once is read to its end
and gives all messages. Its second invariant, `ArrivalInv`, is about a stream without faults:
what is on the wire is what was pushed, the reader stands at the bound of the frame after the
last it has given and has counted every one, and `reconstruct_chunks` is called with the
frames that have come out. From `NoSilentLoss` and the counting argument follows that the
slice of the call is well-formed, and from `RefusalJustified` that it is not refused.

`CCallerProofs` proves for every set of addresses, every set of pointer variables
and all messages, with whatever fields and deltas:

| Theorem | States |
|---|---|
| `Invariant` | `Spec => []IInv` |
| `NeverMisused` | `Spec => []NoMisuse`: a program that keeps to the rules never uses or releases a pointer for what it does not point to |
| `NothingLeaks` | `Spec => []HeldOnce`: everything on the heap is held by one variable, as what it is |
| `HeldIsUndisturbed` | `Spec => Undisturbed`: no call changes what the program goes on holding |

Here `NoMisuse` needs `HeldOnce` (a second variable with the same pointer could release
it twice), `HeldOnce` needs `NoMisuse` only through the objects' kinds, and both
need `TypeOK` (objects of four kinds); `IInv` is the conjunction. The calls are
reduced to one fact, `Handed`: whatever the body of a function comes to, a call leaves
nothing new, or one new object at an address that was free, and uses no pointer it
should not (`AnswerHands`, `AskHands`, `PatchHands`, `MakeHands`); the proofs
about the bindings rest on the same lemmas). Releasing and assigning are one lemma, `GiveUpStep`: a
variable gives up its object and takes over what another held, which ends empty. The assumption
is `AbiConstants`, of which the proofs use that `Null` is no address.

`BindingsProofs` proves for every number of objects, threads and addresses, in each of the
three languages:

| Theorem | States |
|---|---|
| `Invariant` | `Spec => []IInv` |
| `BindingsNeverMisuse` | `Spec => []NoMisuse`: no function of the ABI is given a pointer to what it is not for, and the pointers kept point to what they are kept as, but for the one with which Python reads an error it has released |
| `BindingsLoseNothing` | `Spec => []NothingLost`: whatever is on the heap, a handle, a method in progress or its local result refers to, or it is an error that Java or C++ has dropped |
| `BindingsFollowTheRules` | `Spec => FollowsTheRules`: every step is one that `CCaller` allows, or drops an error in Java or C++, or is Python's release of an error or its use after that |

`IInv` names the holder of every object: handles, the calls of threads and the local of a
wrapper. What one holds is on the heap as what it is held as (`Honest`), no two hold
the same (`Apart`), and nothing is held by none (`NothingLost`); `CallOK` says that the object
of a method in progress stays open until it returns. Every step of a wrapper is then one of
three: it calls a function of the ABI (`Handed`), it gives what one
holder has to another (`GivesUp`), or it touches no pointer. `Kept` differs from `Held` only where
a Python method is about to read a released error, and changes with it in every step that is not
one of those excepted (`SteadyKept`). The assumption is
`BindingConstants`: objects, threads and the local are told apart, and `Gone` is no address.

`StoredDocumentsProofs` proves for every set of documents, schemas and every number of trips:

| Theorem | States |
|---|---|
| `HashAlwaysSurvivesBinary` | `Spec => []HashSurvivesBinary` |
| `PortableAlwaysUnchanged` | `Spec => []PortableUnchanged` |
| `JsonViewAlwaysKept` | `Spec => []JsonViewKept` |
| `SameHashAlwaysSameMeaning` | `Spec => []SameHashSameMeaning` |
| `FilesAlwaysSettle` | `Spec => []Settles` |
| `AlwaysStaysValid` | `Spec => StaysValid` |

`HashSurvivesBinary` is not inductive: that the hash is the same now does not say that
the next trip keeps it. `HashInv` says what the file can hold: the document as it was made, or what
one trip through a binary file makes of it, because a second changes nothing more
(`BinaryTwice`). The next two become inductive with the form of the file and
`original \in Originals` alone (`PortableInv`, `JsonInv`). What costs work there is JSON: a
document whose tagged nodes become objects of two members and back (`TaggedPaths`,
`Beside`, `Members`), and that folding these objects finds exactly those that were unfolded, if
no others look like them.

The last three are about whatever is in the file, after any trips and upgrades, and share one
invariant, `FileInv`: the file's document is a document of nodes that SxValue can hold, in the forms
the module has for their contents (`IsKept`, `KeptNode`). Each reader keeps it (`TripKept`), and so
does an upgrade (`MigratedKept`). From there each has its own argument:

* Nodes with one hash mean the same (`SameHashes`), where floats mean the same that have the
  same 15 decimals: a decimal without needless zeros is the only one
  of its value (`NormalForm`, `SameNormalForm`), and no two variants share a form
  (`CanonicalForms`).
* What was read once is read the same again (`TextSettles`, `BinarySettles`, `JsonSettles`,
  `JsonTextSettles`). For JSON: what comes out of a tag is a tagged node, a tagged
  object is folded from the outside in (`OutermostBefore`), and so the objects that look tagged when
  the document is written again are just the tagged nodes it now has.
* What fits a type goes on fitting it (`WidenedFits`): a reader changes widths, makes strings of
  enums and numbers of decimals, and does nothing else to a node that fits anything (`Widened`). A
  compatible plan to a sound schema finds for every needed field a field that was needed before, or
  a default (`MigratedValid`).

The assumptions are `StoredConstants` (originals, and the defaults in schemas, are documents of
nodes that `SxValue` can hold, integers are of their width, schemas are lines as
`parse_field_line` takes them apart), `CanonicalConstants` (every float with a fraction has its
decimals in `Rounded`, whatever they are), `ConversionConstants` (the words of the tags and of NaN are
ASCII, those of the tags different) and `TextConstants`, of which is used that NaN is no number.

`DeltaSyncProofs` proves of `Delta`, for every set of documents and operations, and deltas of any
length (the lemmas about documents and paths, which the proofs about stored documents use, too, are
in `DocumentsProofs`):

| Theorem | States |
|---|---|
| `AlwaysReadBack` | `Spec => ReadBack`: what Set, Replace, Copy and Move place is at their path |
| `ElsewhereAlwaysUnchanged` | `Spec => ElsewhereUnchanged` |
| `MoveAlwaysConserves` | `Spec => MoveConserves`: what a Move takes out is there once again, and nothing else is lost |
| `CountersAlwaysUndone` | `Spec => CounterUndo`: the arithmetic of counters, which wraps, at any width |

They rest on `TypeOK`, which is inductive as it stands (lemma `TypeAlwaysOK`: no operation of the
model yields anything but a tree); the work is in the operations on trees. A document is told
by the parents and the children of its paths: `Rooted` (what leads somewhere, its parent
does, too) and `CompleteBut` (an array has all its elements, but for a hole). `Vec::insert` first
moves the elements behind the place, which leaves a hole, and then fills it; `Vec::remove`
cuts, and the elements after the hole close it. `MovedDocument` is the lemma both
rest on, and `ShiftAll` says what a shift does to a path. From them follow `PutDocument`,
`InsertDocument`, `RemoveDocument`, `SetPathDocument`, `RemovePathDocument` and `MergedDocument`,
and from `ApplyKeeps` the lemma. `ReadBack` and `ElsewhereUnchanged` rest on lemmas of the
same shape (`SetThere`, and `...Same` for each operation; `MoveSame` follows a move
through the removal that may change where its target path leads). Shortest paths and first
holes are found by `LeastNumber`. `MoveConserves` counts nodes, so it needs that documents are
finite (`AlwaysFinite`), and a map from the paths before to the paths after, one to one between the
nodes of a kind (`MovedOneToOne`). The assumptions are `OpsAreOps` (bases and values are
finite documents, operations have the fields of a `DeltaOp`) and `DocumentConstants` (scalars are no
containers).

It proves of `diff` and `apply_delta` together, for any two documents, however
deep and wide, and whether or not the delta goes through a file on the way:

| Theorem | States |
|---|---|
| `AlwaysConverges` | `PatchSpec => []Converges`: no operation of the delta is refused, and the last one leaves the target |
| `AlwaysResumable` | `PatchSpec => []Resumable`: a fresh diff at any point asks for just the operations that are left |
| `EmptyAlwaysMeansEqual` | `PatchSpec => []EmptyMeansEqual` |
| `NeverGoesAstray` | `PatchSpec => NeverAstray`: what is right already is not disturbed, nothing is left where neither document has anything, and no operation is idle (`NoIdleStep`) |
| `AlwaysPatched` | `PatchSpec => []PatchedThroughText`: through a file, too, for what the text can express |

`Resumable` is nearly the inductive invariant: what is left to do is what `diff` says of
the working copy. It fails for a target with NaN, which `diff` replaces by itself and goes on
replacing: a fresh diff names those again that are done. `SyncInv` therefore says that the
operations left are what `diff` would say if it replaced the floats at the paths of a
set `X` only, which loses a path whenever one of them is replaced (`NodeBut`, `IsDiffs`, `Left`).
`IsDiffs` gives the recursion of `diff_at` as an equation; it has one solution for any two
documents (`DiffsExist`, `DiffsUnique`), because documents are finite, and `diff` is it
(`DiffsAtFirst`).

The heart is `ProgressAlways`: where `diff_at` pushes anything for a path, the first operation it
pushes succeeds, changes nothing but what is at the path and below, makes nothing worse, and leaves
a document for which `diff_at` pushes just the others. Assume it false; take a path
as deep as possible where it is (`Lowest`). One of six lemmas refutes it: the first operation
replaces, counts, removes or sets a member, comes from a member or element
below (`ProgressUp`), appends an element, or removes the last one. Each compares what
`diff_at` says before and after the operation, part by part: what it says of a
path depends on nothing but what is at and below it (`Local`), and the parts before the first that
is not empty stay empty (`EachAfter`, `AfterMember`, `AfterElement`, `AfterAppended`,
`AfterLast`). For the order of the operations this is where the proof would fail if elements were
removed from the front. `EmptyAgrees` and `EqualEmpty` say that nothing is pushed just
where the documents agree.

The assumptions are those two, `TextConstants` and `TargetsAreValues` (targets are
finite documents, too, and no value is `Missing`, which stands for `None`).

For a delta that has been through a file `SyncInv` says only that what the parser reads are
operations (`OpReread`). `AlwaysPatched` adds `TextInv`, for targets that the text can express
and that hold no counters: what is left is what `diff` says, each operation as it is read back. Such an
operation is the one that was written (`OpKept`), with one exception: one that removes a member of
the base under a key spelled like a number is read with an index instead. It then names
an element of an object, and fails (`NotRemoved`); the other disjunct of `TextInv` is that
the member it should have removed is still there, so the working copy is not one
the text can express, and `PatchedThroughText` promises nothing.

`BinaryStoreProofs` proves for every set of values, hashes, filters and selections, every threshold
and size of a byte, and any number of questions:

| Theorem | States |
|---|---|
| `FilesAlwaysReadBack` | `Spec => []RoundTrip`: a file that nothing happened to says what was written |
| `QuestionsAlwaysOnRows` | `Spec => []QuestionsOnRows`: a table's questions are answered by its rows, stored or not |
| `DamageAlwaysInOnePlace` | `Spec => []DamageInvariant` |
| `DamageNeverSilent` | `Spec => []NoSilentChange`: damage in one place is not mistaken for another value |
| `FastPathsAlwaysAgree` | `Spec => []FastPathsAgree`: the fast paths answer what the decoded, or written, value says |

It goes from the codec outwards. The bits of a column are found again in the bytes they were
packed into (`BitsKept`), a string in the dictionary of its column (`DictionaryComplete`), so a column
has the cells it was made from (`ColumnKept`), and is found under its name (`ColumnsFound`); a
batch decodes to its rows and a table to its columns (`BatchDecodes`, `TableDecodes`). What widens a
cell keeps its meaning (`PlainKept`, `TableKept`). Around this is the container: no entry of an undamaged
file is refused, and each leads to its segment (`ContainerParses`), of which the one with the
columns comes first (`FileDecodes`). `FileInvariant` says that every value held is one `SxValue` can
hold, and that an undamaged file is the encoding of one; it is kept because what is read is such
a value again (`StoredKept`), and a question leaves one (`StillTable`). For `QuestionsOnRows`,
`QuestionsInvariant` adds that the questions saved with the file lead to the table in it, and
that `Steady` tables stay so: a typed column would be left as long as it was by a filter. The
lemmas about sequences are few: a set of places in increasing order (`InOrderLists`, `InOrderAll`),
and what is there (`ThoseTake`).

For files that were damaged, `NoSilentChange` and `FastPathsAgree` say nothing of the file, so
neither is inductive. `DamageInvariant` adds to `FileInvariant` what a damaged file still
says: all but the one thing that `fault` names is as it was written (`Suffered`, with `Follows`
for damage and `WrongColumns` for the encoder that got a column wrong). `HeaderDamaged` and
`SegmentDamaged` show it of each kind of damage. What can be concluded goes through the entries that
`parse_container` takes in. Each is one of those written, and leads to the
bytes it was written for: its checksum is theirs, or was not damaged (`Parsed`, `FollowingParsed`). That
*all* written entries are among those taken in is true only if the flags, the count and the
kinds are right, since a table read from another place or cut short loses entries at an end:
hence the faults in `Losing` are those that may leave the placeholder alone (`DecodedPlainly`). If
any column segment is in sight, its payload is the one that was written, and only its codec can be
wrong (`DecodedByColumns`); `WholeRows` says that the table it then gives has the rows it should
have given. `DamageSeen` puts the cases together.

The fast paths look for a column segment of *one* codec where the decoder takes the first of any;
that they cannot find another one is `ReadByColumns`. What they read of a payload is what is read of
all of it (`WholeExtract`, `WholeScan`), `Whole` being what the encoder guarantees of a
payload. With a wrong column the decoder refuses the whole payload (`WrongReads`), while a fast
path that does not look at that column answers as if it were right.

The assumptions are `BinaryStoreConstants` (values are what `SxValue` can hold, as far as it is
modelled: arrays of objects of cells, tables, cells), `ColumnarConstants` and `ContainerConstants`.

Model-checked only:

* `AnswerComes`, the one liveness property, and everything else that needs ENABLED: they are beyond
  the prover. So are the library's induction theorems, which take an operator as
  a parameter; where a proof needs induction over numbers it takes the least number for
  which a claim fails (`LeastNumber`).

## 5. Where code and documentation disagree

Three are shown by a run, whose single property it violates:

* **A delta with a counter cannot be patched.** The formatter writes
  `increment /n = 2` (`crates/sx-text/src/formatter.rs:156`), the parser wants
  `increment /n by 2` (`parser.rs:386`). Run `delta_text_target`.
* **The Python binding reads an error's code after releasing it**
  (`bindings/python/sx/api.py:176-177`). Run `python_code`.
* **A filter leaves no table of rows** if a column is stored as a typed array: such columns
  are copied whole (`crates/sx-runtime/src/lib.rs:266`), while the comment says that
  rows are filtered (line 146). Run `table_filter`.

Others came up while translating; they are in the models, and the properties make
exceptions of them:

* A count of 0 is no count: `crates/sx-stream/src/lib.rs:238` uses 0 for "no count
  seen yet", so frames with 0 are accepted before one that has another count, though the error
  for disagreement exists (line 243), and refused by it after one.
* The Java binding releases no errors (`SxMessage.java:17-19, 27-29`), which
  `bindings/c/README.md:6` requires. The C++ binding does so only if `err` is read after the call
  that fills it: `throw_if_error(sx_f(..., &err), err)` (`sx.hpp:51, 58, 67`) leaves the order of the
  two to the compiler, and where `err` comes first it is null, the error's code and text do not
  reach the exception, and nobody releases it. What the two languages do is in
  `throw_without_error` and `Throw`.
* Floats that differ in the sixteenth decimal or later share a canonical form
  (`crates/sx-crypto/src/lib.rs:124-130`): `1e-16`, `2e-16` and `0` have one hash; and `-1e-16`
  has the form `-0`, which `0` has not.
* A decimal is printed as its scaled number and read as if it were unscaled
  (`formatter.rs:28`, `parser.rs:676`), so each trip through text multiplies it by
  `10^scale`. Strings outside ASCII are read byte by byte, and change on every trip, too.
* `sx convert` reads JSON files as text (`crates/sx-cli/src/main.rs:270`), so what
  `sx_to_json` has tagged stays an object.
* In a schema `u8`, `i32`, `f32` and `f64` are no primitive types; a field of such a type
  asks for an object (`crates/sx-schema/src/lib.rs:221`). A default is read as text, where
  integers are `i64`: one of type `u16` or `u64` does not validate (line 174).
  `check_compatibility` accepts that an optional field becomes a needed one
  (line 415).
* The numeric filter of a table view knows `i64`, `u64`, `f32` and `f64` only
  (`crates/sx-runtime/src/lib.rs:210`); the same table answers once it has been stored,
  which widens its cells.
* Brackets, braces and commas in strings are not escaped in the canonical form
  (`crates/sx-crypto/src/lib.rs:152`), so different arrays of strings can share one.

## 6. What is abstracted, and what is not modelled

* Checksums and hashes are taken not to collide.
* `segment_id` and `offset` of chunk metadata are carried and never looked at. No
  checksum covers the id, index and count of a chunk, so faults leave them alone, and no property
  speaks of damage to them: one that changes them in transit is delivered as it comes. Damage to the
  length and the checksum in the metadata is modelled; the two errors of `next_frame` for it are
  one result. The first eight bytes of a stream (magic and number of frames) arrive intact,
  so the errors of `FrameReader::new` are left out.
* Tables, tensors, maps and typed arrays are scalars to `sx-delta`, and so in `Documents`.
* Arithmetic is that of the release build; where a debug build would panic on
  overflow, this one wraps.
* Strings are model values; the text's effect on them is what `Garbled` and `TextPath` say. The keys
  of a JSON file that is read as text are taken to be ASCII: the lexer garbles others as it does
  any quoted string (`crates/sx-text/src/lexer.rs:198`).
* In the ABI, what parsing, encoding and hashing compute is left to the other parts; memory
  is never exhausted in a call. Programs in Python close no message while another
  thread is using it (two threads that close one message at once would release it
  twice, since the handle is cleared only after the call).
* Text: grammar, layout, escapes and the words for values are abstracted to what a trip
  makes of a node. Tables, maps, messages and the schema literal are left out, and so are
  deltas written by hand with operations `diff` does not make.
  In the path of a delta, keys are taken to be spelled with the characters `lex_path` takes
  (letters, digits, `_`, `-` and `.`): no key is cut short or becomes two.
* Binary values: the bytes of varints and floats are left out, as are tensors, maps, blob
  references, nested messages and deltas, the counters of the decoder and the reports of
  `sx inspect`. Faults are one per file; two that cancel out, as a checksum computed
  anew, are another value and no fault.
* JSON: maps, tables, tensors, blob references, deltas and messages are left out.
* Schemas: `hot` and index hints and `schema_hash` are left out; paths of nested fields
  do not exist in the code either (`validate` looks at the fields of one object).
* Canonical form: the digest is taken to be one to one, and so is the joining of the
  forms of members (see above); tables, tensors and maps are left out. What 15 decimals make of a float is the
  parameter `Rounded`.
* Views: those of messages, rows and tensors wrap one accessor around a value and keep nothing.
* Not to be modelled: argument parsing, standard input and reports of
  the command line, the benchmark and its counting allocator (no contention: the
  program has one thread), the JavaScript binding (declarations only), the website.

## 7. Plan

Done, in this order: `Frames`, `Reassembly`, `ReconstructChunks` with its proofs;
`FrameStream` with its proofs; `Transfer`, `StreamTransfer` with the proof of the
refinement; `Documents`, `Delta`, `DeltaSync`, `DeltaText`; `SxAbi`,
`CCaller` with its proofs, and the bindings; `Columnar`, `Container`,
`TableView`, `BinaryStore`; `TextForm`, `Conversions`, `Canonical`, `Schema`,
`StoredDocuments`,
with the proofs of section 4.

What would come next, in the order of what it is worth:

1. Varints and zigzag at a small width against their definitions; the lexer's numbers.
