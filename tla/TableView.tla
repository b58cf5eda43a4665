----------------------------- MODULE TableView -----------------------------
(***************************************************************************)
(* The view sx-runtime gives of a table: a choice of its columns, and its  *)
(* rows filtered by what one column holds.                                 *)
(***************************************************************************)
EXTENDS Columnar

select_columns(table, names) == [c \in DOMAIN table \cap names |-> table[c]]

(***************************************************************************)
(* Filters.  A filter is a record: the column, the kind of filter, and     *)
(* what it compares with.                                                  *)
(***************************************************************************)
filter_eq(column, cell) == [column |-> column, op |-> "eq", rhs |-> cell]
filter_bool(column, wanted) == [column |-> column, op |-> "eq", rhs |-> <<"Bool", wanted>>]
filter_numeric(column, op, number) == [column |-> column, op |-> op, rhs |-> <<"F64", number>>]

NumericOp == {"Gt", "Ge", "Lt", "Le", "Eq"}

ApplyOp(op, lhs, rhs) ==
  CASE op = "Gt" -> lhs > rhs
    [] op = "Ge" -> lhs >= rhs
    [] op = "Lt" -> lhs < rhs
    [] op = "Le" -> lhs <= rhs
    [] op = "Eq" -> lhs = rhs

\* as_f64 knows these variants and no others.
as_f64 == {"I64", "U64", "F32", "F64"}

Satisfies(filter, cell) ==
  IF filter.op = "eq" THEN cell = filter.rhs
  ELSE cell[1] \in as_f64 /\ ApplyOp(filter.op, cell[2], filter.rhs[2])

\* Which rows satisfy the filter.
row_filter(table, filter) ==
  IF filter.column \notin DOMAIN table THEN Err("InvalidPath")
  ELSE LET cells == table[filter.column].cells
       IN  IF Len(cells) < row_count(table) THEN Err("InvalidLength")
           ELSE Ok([i \in 1..row_count(table) |-> Satisfies(filter, cells[i])])

\* Mutant: the columns after the first keep as many rows, but the first ones.
MaskByCount(table, mask) ==
  LET rows == InOrder({i \in DOMAIN mask : mask[i]})
  IN  [c \in DOMAIN table |->
         IF table[c].store # "Values" THEN table[c]
         ELSE [table[c] EXCEPT !.cells =
                 IF c = Min(DOMAIN table) THEN [i \in DOMAIN rows |-> @[rows[i]]]
                 ELSE SubSeq(@, 1, Len(rows))]]

\* The rows of the mask, in the columns that are not typed; the typed ones are
\* copied as they are.
apply_row_mask(table, mask) ==
  [c \in DOMAIN table |->
     IF table[c].store # "Values" THEN table[c]
     ELSE [table[c] EXCEPT !.cells = Those(@, {i \in DOMAIN @ \cap DOMAIN mask : mask[i]})]]

Filtered(table, filter) ==
  LET mask == row_filter(table, filter)
  IN  IF IsOk(mask) THEN Ok(apply_row_mask(table, Got(mask))) ELSE mask
=============================================================================
