---------------------------- MODULE BinaryStore ----------------------------
(***************************************************************************)
(* A program that keeps a value in an SX binary file: it writes the value, *)
(* reads it again, reads single fields and columns of the file, and asks a *)
(* table for rows and columns through the view of sx-runtime, in any       *)
(* order.  The file may be damaged in one place, or come from an encoder   *)
(* that got a column wrong.                                                *)
(***************************************************************************)
EXTENDS Container, TableView

CONSTANTS Values,      \* the values the program may start with
          HashChoices, \* the hashes a file may be written with
          Filters,     \* the filters asked
          Selections,  \* the sets of columns asked for
          MaxAsked     \* bound: questions asked of one table

IsSequence(s) == Len(s) \in Nat /\ s = [i \in 1..Len(s) |-> s[i]]

\* What SxValue can hold, as far as it is modelled.
IsCell(cell) ==
  /\ cell = <<cell[1], cell[2]>> /\ cell[1] \notin {"Array", "Object", "Table"}
  /\ cell[1] \in Numeric => cell[2] \in Int
  /\ cell[1] = "Bool" => cell[2] \in BOOLEAN

IsObject(item) ==
  /\ IsRow(item) /\ item = <<"Object", [f \in DOMAIN item[2] |-> item[2][f]]>>
  /\ DOMAIN item[2] \subseteq Names /\ IsFiniteSet(DOMAIN item[2])
  /\ \A f \in DOMAIN item[2] : IsCell(item[2][f])

IsColumn(column) ==
  /\ column = [store |-> column.store, cells |-> column.cells]
  /\ column.store \in {"Values"} \cup DOMAIN KindOfTyped
  /\ IsSequence(column.cells)
  /\ \A i \in DOMAIN column.cells :
       /\ IsCell(column.cells[i])
       /\ column.store # "Values" => column.cells[i][1] = column.store

IsTable(table) ==
  /\ table = [c \in DOMAIN table |-> table[c]]
  /\ DOMAIN table \subseteq Names /\ IsFiniteSet(DOMAIN table)
  /\ \A c \in DOMAIN table : IsColumn(table[c])

IsArray(items) ==
  IsSequence(items) /\ \A i \in DOMAIN items : IsObject(items[i]) \/ IsCell(items[i])

IsValue(value) ==
  \/ value = <<"Table", value[2]>> /\ IsTable(value[2])
  \/ value = <<"Array", value[2]>> /\ IsArray(value[2])
  \/ IsObject(value) \/ IsCell(value)

ASSUME BinaryStoreConstants ==
  /\ HashChoices \subseteq SUBSET Hashes /\ MaxAsked \in Nat
  /\ \A value \in Values : IsValue(value)
  /\ \A filter \in Filters : filter.op \in NumericOp \cup {"eq"}

VARIABLES original, \* the value the program started with
          held,     \* the value it holds
          asked,    \* the questions whose answers led to it
          file,     \* the file, NoFile before there is one
          written,  \* the value the file was written from
          saved,    \* and the questions that had led to that
          fault     \* what is wrong with the file

vars == <<original, held, asked, file, written, saved, fault>>

NoFile == [magic |-> FALSE]
NoFault == "none"
Exists == file # NoFile

Init ==
  /\ original \in Values /\ held = original /\ asked = <<>>
  /\ file = NoFile /\ written = original /\ saved = <<>> /\ fault = NoFault

(***************************************************************************)
(* The program.                                                            *)
(***************************************************************************)
Readable == Exists /\ IsOk(decode_binary(file))

\* A damaged file is written anew when it turns out unreadable.
Write(hashes) ==
  /\ fault = NoFault \/ ~Readable
  /\ file' = encode_binary(held, hashes) /\ written' = held /\ saved' = asked
  /\ fault' = NoFault
  /\ UNCHANGED <<original, held, asked>>

Read ==
  /\ Readable
  /\ held' = Got(decode_binary(file)) /\ asked' = saved
  /\ UNCHANGED <<original, file, written, saved, fault>>

Asking == held[1] = "Table" /\ fault = NoFault /\ Len(asked) < MaxAsked

Filter(filter) ==
  /\ Asking /\ IsOk(Filtered(held[2], filter))
  /\ held' = <<"Table", Got(Filtered(held[2], filter))>>
  /\ asked' = Append(asked, filter)
  /\ UNCHANGED <<original, file, written, saved, fault>>

Select(names) ==
  /\ Asking
  /\ held' = <<"Table", select_columns(held[2], names)>>
  /\ asked' = Append(asked, [op |-> "select", columns |-> names])
  /\ UNCHANGED <<original, file, written, saved, fault>>

(***************************************************************************)
(* Damage to the file, before any question is asked.                       *)
(***************************************************************************)
Garbled == <<"Garbled", 0>>

\* Other bytes, where they matter most ones that can be decoded.
Altered(data) ==
  CASE data[1] = "Value" -> <<"Value", <<"Null", 0>>>>
    [] data[1] = "Columns" -> [data EXCEPT ![2].columns[1].name = Max(Names) + 1]
    [] OTHER -> Garbled

Reads(f) == {f, [f EXCEPT !.plausible = TRUE]}

InHeader(where) ==
  CASE where = "magic" -> {[file EXCEPT !.magic = FALSE]}
    [] where = "version" -> {[file EXCEPT !.version = @ + 1]}
    [] where = "flags" -> UNION {Reads([file EXCEPT !.flags = h]) : h \in SUBSET Hashes}
    [] where = "total" -> {[file EXCEPT !.total = n] : n \in 0..(file.total + 1)}
    [] where = "count" -> UNION {Reads([file EXCEPT !.count = n]) : n \in 0..(file.count + 2)}
    [] where = "size" -> {[file EXCEPT !.size = n] : n \in 0..(file.size - 1)}

InSegment(where, i) ==
  CASE where = "kind" ->
         UNION {Reads([file EXCEPT !.entries[i].kind = k]) : k \in Kinds \cup {"Unknown"}}
    [] where = "codec" -> {[file EXCEPT !.entries[i].codec = n] : n \in 0..3}
    [] where = "required" -> {[file EXCEPT !.entries[i].required = TRUE]}
    [] where = "place" -> {[file EXCEPT !.entries[i].place = n] : n \in 0..(file.count + 1)}
    [] where = "sum" -> {[file EXCEPT !.entries[i].sum = Garbled]}
    [] where = "bytes" -> {[file EXCEPT !.segments[i] = Altered(@)]}

Damage ==
  /\ Exists /\ fault = NoFault /\ asked = <<>>
  /\ \/ \E where \in {"magic", "version", "flags", "total", "count", "size"} :
          file' \in InHeader(where) \ {file} /\ fault' = where
     \/ \E i \in DOMAIN file.entries :
          \E where \in {"kind", "codec", "required", "place", "sum", "bytes"} :
            file' \in InSegment(where, i) \ {file} /\ fault' = where
  /\ UNCHANGED <<original, held, asked, written, saved>>

\* A column one cell too long, or with a reference past the end of its dictionary.
Miswritten(column) ==
  {Column(column.name, column.kind, Append(CellsOf(column), CellOf(column, 1)))}
    \cup {[column EXCEPT !.data[i] = Len(column.dict)] :
            i \in IF column.kind = 1 THEN DOMAIN column.data ELSE {}}

WriteWrong ==
  /\ fault = NoFault /\ asked = <<>>
  /\ LET segments == Segments(held)
         last == segments[Len(segments)]
     IN  /\ last.kind = "ColumnData"
         /\ \E c \in DOMAIN last.data[2].columns :
              \E column \in Miswritten(last.data[2].columns[c]) :
                file' = Container([segments EXCEPT ![Len(segments)].data[2].columns[c] = column],
                                  {})
  /\ written' = held /\ saved' = asked /\ fault' = "column"
  /\ UNCHANGED <<original, held, asked>>

Next ==
  \/ \E hashes \in HashChoices : Write(hashes)
  \/ Read
  \/ \E filter \in Filters : Filter(filter)
  \/ \E names \in Selections : Select(names)
  \/ Damage
  \/ WriteWrong

Spec == Init /\ [][Next]_vars

(***************************************************************************)
(* Properties.                                                             *)
(***************************************************************************)
\* What a cell says, whatever the width of its number.
Meaning(cell) ==
  CASE cell[1] \in {"U8", "U16", "U32", "U64", "I8", "I16", "I32", "I64"} -> <<"integer", cell[2]>>
    [] cell[1] \in {"F32", "F64"} -> <<"float", cell[2]>>
    [] OTHER -> cell

MeaningOfItem(item) ==
  IF IsRow(item) THEN <<"Object", [f \in DOMAIN item[2] |-> Meaning(item[2][f])]>>
  ELSE Meaning(item)

MeaningOf(value) ==
  CASE value[1] = "Array" -> <<"Array", [i \in DOMAIN value[2] |-> MeaningOfItem(value[2][i])]>>
    [] value[1] = "Table" ->
         <<"Table", [c \in DOMAIN value[2] |->
             [i \in DOMAIN value[2][c].cells |-> Meaning(value[2][c].cells[i])]]>>
    [] OTHER -> MeaningOfItem(value)

\* Every file holds a decodable value that says the same as the one it was
\* written from: every cell is there, in its row and column, whether the value
\* was laid out by columns or plainly, in whatever order it was written, read
\* and asked before (encode_binary, decode_binary and the columnar codecs).
RoundTrip ==
  Exists /\ fault = NoFault =>
    /\ IsOk(decode_binary(file))
    /\ MeaningOf(Got(decode_binary(file))) = MeaningOf(written)

Intact == encode_binary(written, {})

ByColumns == IsEventBatch(written) \/ IsColumnarTable(written)

\* The cells of a table, row by row.
Rows(table) ==
  [i \in 1..row_count(table) |-> <<"Object", [c \in DOMAIN table |-> table[c].cells[i]]>>]

\* Damage in one place is never mistaken for another value, with the exceptions
\* that the code leaves open because no checksum covers the header and the
\* table: when the column segment is lost from sight the placeholder in its
\* place is returned, and when its codec is confused the rows come back as a
\* table or the table as rows (parse_container, decode_binary).
NoSilentChange ==
  fault # NoFault =>
    LET result == decode_binary(file)
        intact == Got(decode_binary(Intact))
    IN  \/ ~IsOk(result)
        \/ Got(result) = intact
        \/ /\ fault \in {"flags", "count", "kind"} /\ ByColumns
           /\ Got(result) = Marker(IF written[1] = "Table" THEN 2 ELSE 1)
        \/ /\ fault = "codec" /\ ByColumns /\ Got(result)[1] # intact[1]
           /\ IF intact[1] = "Table" THEN Got(result)[2] = Rows(intact[2])
              ELSE Rows(Got(result)[2]) = intact[2]

\* Whatever the file has suffered, what the two fast paths answer is what the
\* decoded value says, and they answer whenever it can be decoded; where only
\* they can read it they answer for the value that was written.  Columns
\* without numbers are not compared: scan_table_numeric_gt refuses them in one
\* layout and finds nothing in the other (decode_hot_field_values,
\* scan_table_numeric_gt).
FastPathsAgree ==
  Exists =>
    LET decoded == decode_binary(file)
        value == IF IsOk(decoded) THEN Got(decoded) ELSE Got(decode_binary(Intact))
        Agrees(answer, expected) ==
          IF IsOk(answer) THEN answer = expected ELSE IsOk(decoded) => answer = expected
        Numbers(c) ==
          value[1] = "Table" /\ c \in DOMAIN value[2]
            => \A i \in DOMAIN value[2][c].cells : value[2][c].cells[i][1] \in Numeric
    IN  \A c \in Names :
          /\ Agrees(decode_hot_field_values(file, c), Ok(FieldOf(value, c)))
          /\ \A n \in 0..1 : Numbers(c) =>
               Agrees(scan_table_numeric_gt(file, c, n), ScanTable(value, c, n))

\* A table of rows: all columns have the same length.
Rectangular(table) == \A c \in DOMAIN table : Len(table[c].cells) = row_count(table)

\* No typed columns, and no cells whose width a file does not keep.
Steady(table) ==
  \A c \in DOMAIN table :
    /\ table[c].store = "Values"
    /\ \A i \in DOMAIN table[c].cells :
         table[c].cells[i][1] \in {"I64", "U64", "F64", "Bool", "String", "Null"}

\* What a question leaves of a table taken as a sequence of rows.
Answer(rows, question) ==
  IF question.op = "select"
  THEN [i \in {j \in DOMAIN rows : DOMAIN rows[j][2] \cap question.columns # {}} |->
          <<"Object", [c \in DOMAIN rows[i][2] \cap question.columns |-> rows[i][2][c]]>>]
  ELSE Those(rows, {i \in DOMAIN rows : Satisfies(question, rows[i][2][question.column])})

\* What the questions leave, asked one after the other.
Answered(rows, questions) ==
  LET after[n \in 0..Len(questions)] ==
        IF n = 0 THEN rows ELSE Answer(after[n - 1], questions[n])
  IN  after[Len(questions)]

\* However writes, reads and questions follow each other, the table held is the
\* original one as its rows answer the questions: the filters of sx-runtime mask
\* all columns alike, and storing a table by columns or plainly between two
\* questions changes no answer.
QuestionsOnRows ==
  (original[1] = "Table" /\ Rectangular(original[2]) /\ Steady(original[2])
     /\ fault = NoFault)
  => /\ held[1] = "Table" /\ Rectangular(held[2])
     /\ Rows(held[2]) = Answered(Rows(original[2]), asked)

\* A filter leaves a table of rows, as the comment of filter_eq in sx-runtime
\* has it ("Filters rows by equality on a column"), typed columns or not.
FilterLeavesRows ==
  (original[1] = "Table" /\ Rectangular(original[2]) /\ fault = NoFault)
  => Rectangular(held[2])
=============================================================================
