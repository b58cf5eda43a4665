------------------------------ MODULE Columnar ------------------------------
(***************************************************************************)
(* The columnar payloads of sx-binary: how arrays of like objects (event   *)
(* batches) and tables are laid out by columns, decoded again, and read    *)
(* one column at a time without being decoded.                             *)
(*                                                                         *)
(* A value is a pair <<kind, content>>: an Array holds the sequence of its *)
(* items, an Object a function from field names to cells, a Table a        *)
(* function from column names to columns, [store, cells].  A cell, and an  *)
(* item that is no object, is a pair <<variant, content>>.  Names are      *)
(* numbers in the order of the names; numbers are so small that integers   *)
(* and floats can be compared with each other.                             *)
(***************************************************************************)
EXTENDS Integers, Sequences, FiniteSets, FiniteSetsExt, SequencesExt

CONSTANTS Names,     \* names of fields and columns
          Threshold, \* the least number of rows laid out by columns: 64
          ByteBits   \* the bits of a byte of packed bits: 8

ASSUME ColumnarConstants ==
  /\ Names \subseteq Nat
  /\ Threshold \in Nat \ {0} /\ ByteBits \in Nat \ {0}

Ok(x) == <<"Ok", x>>
Err(code) == <<"Err", code>>
IsOk(result) == result[1] = "Ok"
Got(result) == result[2]

\* A finite set of numbers in increasing order: the number in the i-th place is
\* the one that i of them do not exceed.
InOrder(S) ==
  [i \in 1..Cardinality(S) |-> CHOOSE n \in S : Cardinality({m \in S : m <= n}) = i]

\* What is at these places of a sequence, in their order.
Those(seq, places) ==
  LET order == InOrder(places) IN [i \in DOMAIN order |-> seq[order[i]]]

\* Booleans eight to a byte, a byte as the set of the bits set in it.
pack_bits(bits) ==
  [b \in 1..((Len(bits) + ByteBits - 1) \div ByteBits) |->
     {k \in 0..(ByteBits - 1) : /\ (b - 1) * ByteBits + k < Len(bits)
                                /\ bits[(b - 1) * ByteBits + k + 1]}]

\* The i-th of the packed bits.
Bit(bytes, i) == (i - 1) % ByteBits \in bytes[(i - 1) \div ByteBits + 1]

(***************************************************************************)
(* Encoding.                                                               *)
(***************************************************************************)
\* What the code calls the kind of a column: 1 strings, 2 i64, 3 bool, 4 f64.
KindOf == [String |-> 1, I64 |-> 2, Bool |-> 3, F64 |-> 4]
KindOfTyped == [I32 |-> 2, U8 |-> 2, Bool |-> 3, F32 |-> 4, F64 |-> 4]
VariantOf == <<"String", "I64", "Bool", "F64">>

NoKind == 0

\* The strings of a column in the order of their first appearance.
Dictionary(strings) ==
  Those(strings, {i \in DOMAIN strings : \A j \in 1..(i - 1) : strings[j] # strings[i]})

Column(name, kind, cells) ==
  LET contents == [i \in DOMAIN cells |-> cells[i][2]]
      dict == IF kind = 1 THEN Dictionary(contents) ELSE <<>>
  IN  [name |-> name, kind |-> kind, len |-> Len(cells), dict |-> dict,
       data |-> CASE kind = 1 -> [i \in DOMAIN cells |->
                                    SelectInSeq(dict, LAMBDA s : s = contents[i]) - 1]
                  [] kind = 3 -> pack_bits(contents)
                  [] OTHER -> contents]

\* The columns of these names, in the order of the names.
Columns(names, KindIn(_), CellsOf(_)) ==
  LET sorted == InOrder(names)
  IN  [c \in DOMAIN sorted |-> Column(sorted[c], KindIn(sorted[c]), CellsOf(sorted[c]))]

IsRow(item) == item[1] = "Object"

\* Every row is an object, with the same fields, of which there is one at least.
RowsAlike(rows) ==
  /\ \A i \in DOMAIN rows : IsRow(rows[i]) /\ DOMAIN rows[i][2] = DOMAIN rows[1][2]
  /\ DOMAIN rows[1][2] # {}

\* The kind of a field of an event batch goes by the first row; the others
\* must be of the same variant, and floats have no column here.
FieldKind(rows, field) ==
  LET variant == rows[1][2][field][1]
  IN  IF /\ variant \in {"String", "I64", "Bool"}
         /\ \A i \in DOMAIN rows : rows[i][2][field][1] = variant
      THEN KindOf[variant] ELSE NoKind

IsEventBatch(value) ==
  /\ value[1] = "Array" /\ Len(value[2]) >= Threshold
  /\ RowsAlike(value[2])
  /\ \A f \in DOMAIN value[2][1][2] : FieldKind(value[2], f) # NoKind

encode_columnar_event_batch(rows) ==
  [rows |-> Len(rows),
   columns |-> Columns(DOMAIN rows[1][2], LAMBDA f : FieldKind(rows, f),
                       LAMBDA f : [i \in DOMAIN rows |-> rows[i][2][f]])]

\* Rows of a table, going by its first column.
row_count(table) ==
  IF DOMAIN table = {} THEN 0 ELSE Len(table[Min(DOMAIN table)].cells)

\* Mutant: the kind goes by the first cell.
KindOfFirstCell(column) ==
  IF column.store # "Values" THEN KindOfTyped[column.store]
  ELSE IF column.cells[1][1] \in DOMAIN KindOf THEN KindOf[column.cells[1][1]] ELSE NoKind

\* The kind all cells of a column have.
ColumnKind(column) ==
  IF column.store # "Values" THEN KindOfTyped[column.store]
  ELSE IF \E v \in DOMAIN KindOf : \A i \in DOMAIN column.cells : column.cells[i][1] = v
       THEN KindOf[column.cells[1][1]] ELSE NoKind

IsColumnarTable(value) ==
  /\ value[1] = "Table" /\ row_count(value[2]) >= Threshold
  /\ \A c \in DOMAIN value[2] :
       /\ Len(value[2][c].cells) = row_count(value[2])
       /\ ColumnKind(value[2][c]) # NoKind

encode_columnar_table(table) ==
  [rows |-> row_count(table),
   columns |-> Columns(DOMAIN table, LAMBDA c : ColumnKind(table[c]),
                       LAMBDA c : table[c].cells)]

(***************************************************************************)
(* Decoding a payload as a whole.                                          *)
(***************************************************************************)
LengthsAgree(payload) ==
  \A c \in DOMAIN payload.columns : payload.columns[c].len = payload.rows

RefsResolve(column) ==
  column.kind = 1 => \A i \in DOMAIN column.data : column.data[i] < Len(column.dict)

\* The i-th cell of an encoded column.
CellOf(column, i) ==
  <<VariantOf[column.kind],
    CASE column.kind = 1 -> column.dict[column.data[i] + 1]
      [] column.kind = 3 -> Bit(column.data, i)
      [] OTHER -> column.data[i]>>

CellsOf(column) == [i \in 1..column.len |-> CellOf(column, i)]

ColumnNames(payload) == {payload.columns[c].name : c \in DOMAIN payload.columns}

ColumnNamed(payload, name) ==
  payload.columns[SelectInSeq(payload.columns, LAMBDA c : c.name = name)]

parse_columnar_payload(payload) ==
  IF LengthsAgree(payload) THEN Ok(payload) ELSE Err("InvalidLength")

\* What a parsed payload decodes to, if its strings are all in their dictionary.
Decoded(payload, value) ==
  IF ~IsOk(parse_columnar_payload(payload)) THEN parse_columnar_payload(payload)
  ELSE IF \A c \in DOMAIN payload.columns : RefsResolve(payload.columns[c])
  THEN Ok(value) ELSE Err("InvalidDictionaryRef")

decode_columnar_event_batch(payload) ==
  Decoded(payload,
          <<"Array", [i \in 1..payload.rows |->
              <<"Object", [f \in ColumnNames(payload) |->
                             CellOf(ColumnNamed(payload, f), i)]>>]>>)

decode_columnar_table(payload) ==
  Decoded(payload,
          <<"Table", [c \in ColumnNames(payload) |->
              [store |-> "Values", cells |-> CellsOf(ColumnNamed(payload, c))]]>>)

(***************************************************************************)
(* Reading one column of a payload: the other columns are skipped and not  *)
(* looked at.                                                              *)
(***************************************************************************)
extract_event_batch_field_column(payload, field) ==
  IF field \notin ColumnNames(payload) THEN Ok(<<>>)
  ELSE LET column == ColumnNamed(payload, field)
       IN  IF column.len # payload.rows THEN Err("InvalidLength")
           ELSE IF ~RefsResolve(column) THEN Err("InvalidDictionaryRef")
           ELSE Ok(CellsOf(column))

NumbersAbove(numbers, rhs) == Cardinality({i \in DOMAIN numbers : numbers[i] > rhs})

\* Mutant: numbers equal to the bound are counted.
ScanFrom(payload, name, rhs) ==
  IF name \notin ColumnNames(payload) THEN Err("InvalidPath")
  ELSE LET column == ColumnNamed(payload, name)
       IN  IF column.kind \notin {2, 4} THEN Err("TypeMismatch")
           ELSE Ok(NumbersAbove(column.data, rhs - 1))

scan_table_column_numeric_gt(payload, name, rhs) ==
  IF name \notin ColumnNames(payload) THEN Err("InvalidPath")
  ELSE LET column == ColumnNamed(payload, name)
       IN  IF column.kind \notin {2, 4} THEN Err("TypeMismatch")
           ELSE IF column.len # payload.rows THEN Err("InvalidLength")
           ELSE Ok(NumbersAbove(column.data, rhs))
=============================================================================
