--------------------------- MODULE MCBinaryStore ---------------------------
(***************************************************************************)
(* Values on both sides of the threshold of two rows, with three rows so   *)
(* that packed bits take a second byte of two bits.                        *)
(***************************************************************************)
EXTENDS BinaryStore

Str(s) == <<"String", s>>
I64(n) == <<"I64", n>>
Float(n) == <<"F64", n>>
Boole(b) == <<"Bool", b>>
Object(f) == <<"Object", f>>

\* The cells of columns of three rows; shorter ones are cut from them.
Cells ==
  {<<Str("x"), Str("y"), Str("x")>>, <<I64(1), I64(2), I64(0)>>,
   <<Float(2), Float(1), Float(1)>>, <<Boole(TRUE), Boole(FALSE), Boole(TRUE)>>,
   <<I64(1), Float(2), Boole(TRUE)>>, <<<<"U16", 1>>, Str("x"), <<"Null", 0>>>>}

TypedCells ==
  [I32 |-> <<<<"I32", 1>>, <<"I32", 2>>, <<"I32", 0>>>>,
   U8 |-> <<<<"U8", 2>>, <<"U8", 1>>, <<"U8", 1>>>>,
   F32 |-> <<<<"F32", 0>>, <<"F32", 1>>, <<"F32", 2>>>>,
   F64 |-> <<Float(1), Float(0), Float(2)>>,
   Bool |-> <<Boole(FALSE), Boole(TRUE), Boole(TRUE)>>]

Others == {<<I64(2), I64(1), I64(1)>>, <<Boole(TRUE), Boole(TRUE), Boole(FALSE)>>}

Store(s, cells, n) == [store |-> s, cells |-> SubSeq(cells, 1, n)]

AnyColumn(n) ==
  {Store("Values", cells, n) : cells \in Cells}
    \cup {Store(s, TypedCells[s], n) : s \in DOMAIN TypedCells}

\* Tables of one to three rows, one ragged at either end, and empty ones.
Tables ==
  {<<"Table", <<column, Store("Values", other, n)>>>> :
      <<n, column, other>> \in UNION {{n} \X AnyColumn(n) \X Others : n \in 1..3}}
  \cup {<<"Table", <<Store("Values", <<I64(1), I64(2), I64(0)>>, n),
                     Store("Values", <<I64(1), I64(2), I64(0)>>, 5 - n)>>>> : n \in 2..3}
  \cup {<<"Table", <<>>>>, <<"Table", <<Store("Values", <<>>, 0)>>>>}

\* Arrays of one to three rows; rows that lack a field, have none, or are no rows.
Batch(n, cells, other) == <<"Array", [i \in 1..n |-> Object(<<cells[i], other[i]>>)]>>

Arrays ==
  {Batch(n, cells, other) : n \in 1..3, cells \in Cells, other \in Others}
  \cup {<<"Array", <<Object(<<I64(1), Str("x")>>), row, Object(<<I64(2), Str("y")>>)>>>> :
           row \in {Object(<<I64(1)>>), Object(<<I64(1), Str("x"), I64(1)>>), I64(1)}}
  \cup {<<"Array", [i \in 1..2 |-> Object(<<>>)]>>, <<"Array", <<>>>>}

MCValues == Tables \cup Arrays \cup {Object(<<I64(1), Str("x")>>), Str("x")}

MCTables == Tables

MCHashChoices == {{}, {"logical"}, Hashes}

MCFilters ==
  {filter_eq(1, Str("x")), filter_eq(2, I64(1)), filter_bool(2, TRUE)}
    \cup {filter_numeric(1, op, 1) : op \in NumericOp}

MCSelections == {{1}, {2, 3}, {3}}
=============================================================================
