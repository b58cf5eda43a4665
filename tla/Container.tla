----------------------------- MODULE Container -----------------------------
(***************************************************************************)
(* The container of sx-binary: header, table of segments and segments, as  *)
(* encode_binary writes them and parse_container takes them in again.      *)
(*                                                                         *)
(* Positions are counted in slots, one for an entry of the segment table,  *)
(* one for the header, one for each segment and two for a hash: a hash has *)
(* the size of exactly two entries.  A checksum is the data it was         *)
(* computed from.                                                          *)
(***************************************************************************)
EXTENDS Columnar

CONSTANT Version \* SX_BINARY_VERSION

ASSUME ContainerConstants == Version \in Nat

Hashes == {"schema", "logical"}
HashSlots(hashes) == 2 * Cardinality(hashes)

Marker(codec) ==
  <<"String", IF codec = 1 THEN "$sx.columnar_event_batch.v1" ELSE "$sx.columnar_table.v1">>

Kinds == {"Envelope", "HotIndex", "ShapeTable", "Dictionary", "ValueData", "ColumnData",
          "TensorData", "BlobData", "DeltaData", "Extension", "PresenceMap"}

(***************************************************************************)
(* Encoding.                                                               *)
(***************************************************************************)
\* write_value keeps no widths.
Widened(cell) ==
  CASE cell[1] \in {"U8", "U16", "U32"} -> <<"U64", cell[2]>>
    [] cell[1] \in {"I8", "I16", "I32"} -> <<"I64", cell[2]>>
    [] cell[1] = "F32" -> <<"F64", cell[2]>>
    [] OTHER -> cell

WidenedItem(item) ==
  IF IsRow(item) THEN <<"Object", [f \in DOMAIN item[2] |-> Widened(item[2][f])]>>
  ELSE Widened(item)

\* A value as write_value and read_value carry it over; the columns of a table
\* keep their store.
Plain(value) ==
  CASE value[1] = "Array" -> <<"Array", [i \in DOMAIN value[2] |-> WidenedItem(value[2][i])]>>
    [] value[1] = "Table" ->
         <<"Table", [c \in DOMAIN value[2] |->
             IF value[2][c].store # "Values" THEN value[2][c]
             ELSE [value[2][c] EXCEPT !.cells = [i \in DOMAIN @ |-> Widened(@[i])]]]>>
    [] OTHER -> WidenedItem(value)

\* The objects of a value, the value itself included.
ObjectsOf(value) ==
  CASE value[1] = "Object" -> {value[2]}
    [] value[1] = "Array" -> {value[2][i][2] : i \in {j \in DOMAIN value[2] : IsRow(value[2][j])}}
    [] OTHER -> {}

Shapes(value) ==
  {DOMAIN object : object \in ObjectsOf(value)}
    \cup (IF value[1] = "Table" THEN {DOMAIN value[2]} ELSE {})

StringsIn(cells) == {cell \in cells : cell[1] = "String"}

\* The names and the strings of a value; the cells of tables are left out.
Strings(value) ==
  {<<"Name", name>> : name \in UNION Shapes(value)}
    \cup StringsIn(UNION {{o[f] : f \in DOMAIN o} : o \in ObjectsOf(value)})
    \cup (IF value[1] = "Array" THEN StringsIn({value[2][i] : i \in DOMAIN value[2]}) ELSE {})
    \cup StringsIn({value})

\* Which rows of each column hold something.
Presence(table) ==
  [c \in DOMAIN table |->
     pack_bits([i \in DOMAIN table[c].cells |-> table[c].cells[i][1] # "Null"])]

Segment(kind, codec, data) == [kind |-> kind, codec |-> codec, data |-> data]

Segments(value) ==
  LET batch == IsEventBatch(value)
      table == ~batch /\ IsColumnarTable(value)
      codec == IF value[1] = "Table" THEN 2 ELSE 1
      When(condition, segment) == IF condition THEN <<segment>> ELSE <<>>
  IN  << Segment("ValueData", 0,
           <<"Value", IF batch \/ table THEN Marker(codec) ELSE Plain(value)>>),
         Segment("ShapeTable", 0, <<"Shapes", Shapes(value)>>),
         Segment("Dictionary", 0, <<"Strings", Strings(value)>>) >>
      \o When(value[1] = "Object",
              Segment("HotIndex", 0, <<"Hot", InOrder(DOMAIN value[2])>>))
      \o When(value[1] = "Table",
              Segment("PresenceMap", 0, <<"Presence", Presence(value[2])>>))
      \o When(batch, Segment("ColumnData", codec,
                             <<"Columns", encode_columnar_event_batch(value[2])>>))
      \o When(table, Segment("ColumnData", codec,
                             <<"Columns", encode_columnar_table(value[2])>>))

\* The slots of a container with these hashes and so many segments.
Size(hashes, count) == 1 + HashSlots(hashes) + 2 * count

\* A file.  plausible says whether bytes read for what they are not look well
\* formed; they do not come to a checksum that fits.
Container(segments, hashes) ==
  [magic |-> TRUE, version |-> Version, flags |-> hashes, hashes |-> hashes,
   size |-> Size(hashes, Len(segments)), total |-> Size(hashes, Len(segments)),
   count |-> Len(segments),
   entries |-> [i \in DOMAIN segments |->
                  [kind |-> segments[i].kind, codec |-> segments[i].codec, required |-> FALSE,
                   place |-> i, sum |-> segments[i].data]],
   segments |-> [i \in DOMAIN segments |-> segments[i].data],
   plausible |-> FALSE]

encode_binary(value, hashes) == Container(Segments(value), hashes)

(***************************************************************************)
(* Taking a container in.                                                  *)
(***************************************************************************)
NoError == ""

Elsewhere == <<"Elsewhere", 0>>

\* What is read as an entry where there is none: an extension that is skipped,
\* if the bytes happen to look like one.
Stray(file) ==
  [kind |-> IF file.plausible THEN "Extension" ELSE "Unknown",
   codec |-> 0, required |-> FALSE, place |-> 0, sum |-> Elsewhere]

\* The table starts where the flags say, whether the hashes are there or not.
EntriesRead(file) ==
  LET skipped == HashSlots(file.flags) - HashSlots(file.hashes)
  IN  [i \in 1..file.count |->
         IF i + skipped \in DOMAIN file.entries THEN file.entries[i + skipped] ELSE Stray(file)]

segment_slice(file, entry) ==
  IF entry.place = 0 THEN Elsewhere ELSE file.segments[entry.place]

HeaderError(file) ==
  IF file.size = 0 THEN "InvalidLength"
  ELSE IF ~file.magic THEN "InvalidMagic"
  ELSE IF file.version # Version THEN "UnsupportedVersion"
  ELSE IF file.total # file.size THEN "InvalidLength"
  ELSE IF 1 + HashSlots(file.flags) > file.size THEN "InvalidLength"
  ELSE IF 1 + HashSlots(file.flags) + file.count > file.size THEN "SegmentOutOfBounds"
  ELSE NoError

\* Mutant: checksums are not looked at.
EntryUnsummed(file, entry) ==
  IF entry.kind \notin Kinds THEN "ValidationError"
  ELSE IF entry.place > Len(file.segments) THEN "SegmentOutOfBounds"
  ELSE IF entry.kind = "Extension" /\ entry.required THEN "UnsupportedFeature"
  ELSE NoError

\* Only the bytes of a segment are summed: its kind and codec are not, and an
\* extension that is not required is passed over.
EntryError(file, entry) ==
  IF entry.kind \notin Kinds THEN "ValidationError"
  ELSE IF entry.place > Len(file.segments) THEN "SegmentOutOfBounds"
  ELSE IF entry.kind = "Extension"
  THEN IF entry.required THEN "UnsupportedFeature" ELSE NoError
  ELSE IF segment_slice(file, entry) # entry.sum THEN "ChecksumFailed"
  ELSE NoError

\* The entries of a file, without the extensions.
parse_container(file) ==
  LET read == EntriesRead(file)
      errors == {i \in DOMAIN read : EntryError(file, read[i]) # NoError}
  IN  IF HeaderError(file) # NoError THEN Err(HeaderError(file))
      ELSE IF errors # {} THEN Err(EntryError(file, read[Min(errors)]))
      ELSE Ok(Those(read, {i \in DOMAIN read : read[i].kind # "Extension"}))

\* Shape tables and dictionaries are written alike.
MetadataError(file, entry) ==
  IF \/ entry.kind \notin {"Dictionary", "ShapeTable"}
     \/ segment_slice(file, entry)[1] \in {"Shapes", "Strings"}
     \/ file.plausible
  THEN NoError
  ELSE IF entry.kind = "Dictionary" THEN "InvalidDictionaryRef" ELSE "InvalidShapeRef"

decode_value(data) == IF data[1] = "Value" THEN Ok(data[2]) ELSE Err("ValidationError")

\* The columns in a segment, as far as there are any.
InColumns(data, Answer(_)) ==
  IF data[1] = "Columns" THEN Answer(data[2]) ELSE Err("ValidationError")

DecodeColumns(data, codec) ==
  IF codec \notin {1, 2} THEN Err("UnsupportedFeature")
  ELSE IF codec = 1 THEN InColumns(data, decode_columnar_event_batch)
  ELSE InColumns(data, decode_columnar_table)

\* Columns come before the plain value.
decode_binary(file) ==
  LET parsed == parse_container(file)
      entries == Got(parsed)
      invalid == {i \in DOMAIN entries : MetadataError(file, entries[i]) # NoError}
      columns == SelectInSeq(entries, LAMBDA e : e.kind = "ColumnData")
      plain == SelectInSeq(entries, LAMBDA e : e.kind = "ValueData")
  IN  IF ~IsOk(parsed) THEN parsed
      ELSE IF invalid # {} THEN Err(MetadataError(file, entries[Min(invalid)]))
      ELSE IF columns # 0
      THEN DecodeColumns(segment_slice(file, entries[columns]), entries[columns].codec)
      ELSE IF plain # 0 THEN decode_value(segment_slice(file, entries[plain]))
      ELSE Err("ValidationError")

(***************************************************************************)
(* Reading a field or a column without decoding the file, if it is stored  *)
(* by columns, and from the decoded value otherwise.                       *)
(***************************************************************************)
\* The first column segment of this codec, 0 if there is none.
ColumnSegment(entries, codec) ==
  SelectInSeq(entries, LAMBDA e : e.kind = "ColumnData" /\ e.codec = codec)

\* The values of a field in an object or in the objects of an array.
FieldOf(value, field) ==
  LET Has(item) == IsRow(item) /\ field \in DOMAIN item[2]
      items == CASE value[1] = "Array" -> value[2]
                 [] value[1] = "Object" -> <<value>>
                 [] OTHER -> <<>>
      having == Those(items, {i \in DOMAIN items : Has(items[i])})
  IN  [i \in DOMAIN having |-> having[i][2][field]]

decode_hot_field_values(file, field) ==
  LET parsed == parse_container(file)
      entries == Got(parsed)
      columns == ColumnSegment(entries, 1)
  IN  IF ~IsOk(parsed) THEN parsed
      ELSE IF columns # 0
      THEN InColumns(segment_slice(file, entries[columns]),
                     LAMBDA payload : extract_event_batch_field_column(payload, field))
      ELSE LET value == decode_binary(file)
           IN  IF IsOk(value) THEN Ok(FieldOf(Got(value), field)) ELSE value

Numeric == {"U8", "U16", "U32", "U64", "I8", "I16", "I32", "I64", "F32", "F64"}

NumericCells(cells) == Those(cells, {i \in DOMAIN cells : cells[i][1] \in Numeric})

\* The numbers of a column of a decoded table that are above rhs.
ScanTable(value, name, rhs) ==
  IF value[1] # "Table" THEN Err("TypeMismatch")
  ELSE IF name \notin DOMAIN value[2] THEN Err("InvalidPath")
  ELSE LET numbers == NumericCells(value[2][name].cells)
       IN  Ok(NumbersAbove([i \in DOMAIN numbers |-> numbers[i][2]], rhs))

scan_table_numeric_gt(file, name, rhs) ==
  LET parsed == parse_container(file)
      entries == Got(parsed)
      columns == ColumnSegment(entries, 2)
  IN  IF ~IsOk(parsed) THEN parsed
      ELSE IF columns # 0
      THEN InColumns(segment_slice(file, entries[columns]),
                     LAMBDA payload : scan_table_column_numeric_gt(payload, name, rhs))
      ELSE LET value == decode_binary(file)
           IN  IF IsOk(value) THEN ScanTable(Got(value), name, rhs) ELSE value
=============================================================================
