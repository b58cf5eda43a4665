------------------------------- MODULE Delta -------------------------------
(***************************************************************************)
(* apply_delta of sx-delta: the operations of a delta are applied one      *)
(* after the other to a copy of the base document; the first one that      *)
(* fails ends the call with its error, and the copy is dropped.            *)
(***************************************************************************)
EXTENDS Documents, FiniteSets

CONSTANTS Bases,   \* the base documents
          Ops,     \* the operations deltas are made of
          MaxOps,  \* bound on the operations of one delta
          Missing  \* an operand an operation does not have

VARIABLES doc,     \* the working copy
          result,  \* "applying", "ok" or the code of the error
          applied, \* how many operations have been applied
          last     \* the operation looked at last

vars == <<doc, result, applied, last>>

DeltaOpKind == {"Set", "Replace", "Remove", "Append", "Prepend", "Insert", "Increment",
                "Decrement", "Merge", "Move", "Copy", "Clear"}

\* What a DeltaOp can be.  Documents are finite.
IsValue(d) == IsDocument(d) /\ IsFiniteSet(DOMAIN d)

IsOp(op) ==
  /\ DOMAIN op = {"kind", "path", "value", "from", "index"}
  /\ op.kind \in DeltaOpKind /\ op.path \in Seq(Segment)
  /\ op.value # Missing => IsValue(op.value)
  /\ op.from # Missing => op.from \in Seq(Segment)
  /\ op.index # Missing => op.index \in Nat

ASSUME OpsAreOps ==
  MaxOps \in Nat /\ (\A d \in Bases : IsValue(d)) /\ \A op \in Ops : IsOp(op)

Errors == {"ValidationError", "TypeMismatch", "InvalidPath"}

Init == /\ doc \in Bases
        /\ result = "applying"
        /\ applied = 0
        /\ last = Missing

\* The outcomes of apply_op.
Becomes(d) == doc' = d /\ applied' = applied + 1 /\ UNCHANGED result

Fails(code) == result' = code /\ UNCHANGED <<doc, applied>>

\* The operand was left out of the operation.
Lacks(operand) == operand = Missing /\ Fails("ValidationError")

\* The path leads nowhere; it leads to a node of another variant.
Nowhere(p) == p \notin DOMAIN doc /\ Fails("InvalidPath")

At(p, variants) == p \in DOMAIN doc /\ Variant(doc[p]) \in variants

Mismatch(p, variants) == /\ p \in DOMAIN doc /\ Variant(doc[p]) \notin variants
                         /\ Fails("TypeMismatch")

Place(d, p, v) == \/ CanSet(d, p) /\ Becomes(SetPath(d, p, v))
                  \/ ~ CanSet(d, p) /\ Fails("InvalidPath")

SetOp(op) == /\ op.kind \in {"Set", "Replace"}
           /\ \/ Lacks(op.value)
              \/ op.value # Missing /\ Place(doc, op.path, op.value)

RemoveOp(op) == /\ op.kind = "Remove"
              /\ \/ CanRemove(doc, op.path) /\ Becomes(RemovePath(doc, op.path))
                 \/ ~ CanRemove(doc, op.path) /\ Fails("InvalidPath")

\* Append, Prepend and Insert, the element coming to stand at position i.
IntoArray(op, i) ==
  \/ Lacks(op.value)
  \/ /\ op.value # Missing
     /\ \/ Nowhere(op.path)
        \/ Mismatch(op.path, {"Array"})
        \/ /\ At(op.path, {"Array"})
           /\ \/ i > Held(doc[op.path]) /\ Fails("InvalidPath")
              \/ /\ i <= Held(doc[op.path])
                 /\ Becomes(InsertElement(doc, op.path, i, op.value))

LengthAt(p) == IF p \in DOMAIN doc THEN Held(doc[p]) ELSE 0

\* Mutant: the element comes to stand before the others.
AppendAtFront(op) == op.kind = "Append" /\ IntoArray(op, 0)

AppendOp(op) == op.kind = "Append" /\ IntoArray(op, LengthAt(op.path))

PrependOp(op) == op.kind = "Prepend" /\ IntoArray(op, 0)

InsertOp(op) == /\ op.kind = "Insert"
              /\ \/ Lacks(op.value)
                 \/ op.value # Missing /\ Lacks(op.index)
                 \/ op.value # Missing /\ op.index # Missing /\ IntoArray(op, op.index)

\* extract_i64: the operand of a counter operation is an integer that fits.
IsAmount(v) ==
  /\ v # Missing
  /\ \/ Variant(v[Root]) = "I64"
     \/ Variant(v[Root]) = "U64" /\ Held(v[Root]) \in I64

Sign(op) == IF op.kind = "Increment" THEN 1 ELSE -1

Added(op) == Held(doc[op.path]) + Sign(op) * Held(op.value[Root])

CountOp(op) ==
  /\ op.kind \in {"Increment", "Decrement"}
  /\ \/ ~ IsAmount(op.value) /\ Fails("TypeMismatch")
     \/ /\ IsAmount(op.value)
        /\ \/ Nowhere(op.path)
           \/ Mismatch(op.path, {"I64", "U64"})
           \/ /\ At(op.path, {"I64"})
              /\ Becomes([doc EXCEPT ![op.path] = <<"I64", WrapI64(Added(op))>>])
           \/ /\ At(op.path, {"U64"}) /\ Added(op) < 0
              /\ Fails("ValidationError")
           \/ /\ At(op.path, {"U64"}) /\ Added(op) >= 0
              /\ Becomes([doc EXCEPT ![op.path] = <<"U64", WrapU64(Added(op))>>])

\* d with the members of the object v among those of the object at p.
Merged(d, p, v) ==
  LET replaced == UNION {Below(d, Append(p, Key(k))) : k \in MemberKeys(v, Root)}
      members == DOMAIN v \ {Root}
  IN  [q \in (DOMAIN d \ replaced) \cup {p \o r : r \in members} |->
         IF IsPrefix(p, q) /\ Drop(q, Len(p)) \in members
         THEN v[Drop(q, Len(p))] ELSE d[q]]

MergeOp(op) ==
  /\ op.kind = "Merge"
  /\ \/ Lacks(op.value)
     \/ /\ op.value # Missing
        /\ \/ Nowhere(op.path)
           \/ Mismatch(op.path, {"Object"})
           \/ /\ At(op.path, {"Object"}) /\ Variant(op.value[Root]) # "Object"
              /\ Fails("TypeMismatch")
           \/ /\ At(op.path, {"Object"}) /\ Variant(op.value[Root]) = "Object"
              /\ Becomes(Merged(doc, op.path, op.value))

\* Mutants: the target is written before the source is taken out, and the
\* source is not taken out.
MoveTargetFirst(op) ==
  /\ op.kind = "Move" /\ op.from # Missing
  /\ \/ Nowhere(op.from)
     \/ /\ op.from \in DOMAIN doc /\ CanSet(doc, op.path)
        /\ LET placed == SetPath(doc, op.path, ValueAt(doc, op.from))
           IN  CanRemove(placed, op.from) /\ Becomes(RemovePath(placed, op.from))
MoveKeepingSource(op) ==
  /\ op.kind = "Move" /\ op.from # Missing
  /\ \/ Nowhere(op.from)
     \/ /\ op.from \in DOMAIN doc
        /\ Place(doc, op.path, ValueAt(doc, op.from))

\* The value is taken out before the target path is looked at, which may lead
\* elsewhere by then.
MoveOp(op) ==
  /\ op.kind = "Move"
  /\ \/ Lacks(op.from)
     \/ /\ op.from # Missing
        /\ \/ Nowhere(op.from)
           \/ /\ op.from \in DOMAIN doc
              /\ Place(RemovePath(doc, op.from), op.path, ValueAt(doc, op.from))

\* Mutant: the source is taken out, as in Move.
CopyRemovingSource(op) ==
  /\ op.kind = "Copy" /\ op.from # Missing
  /\ \/ Nowhere(op.from)
     \/ /\ op.from \in DOMAIN doc
        /\ Place(RemovePath(doc, op.from), op.path, ValueAt(doc, op.from))

CopyOp(op) ==
  /\ op.kind = "Copy"
  /\ \/ Lacks(op.from)
     \/ /\ op.from # Missing
        /\ \/ Nowhere(op.from)
           \/ /\ op.from \in DOMAIN doc
              /\ Place(doc, op.path, ValueAt(doc, op.from))

ClearOp(op) ==
  /\ op.kind = "Clear"
  /\ \/ Nowhere(op.path)
     \/ Mismatch(op.path, {"Array", "Object", "Bytes", "String"})
     \/ /\ At(op.path, {"Array", "Object", "Bytes", "String"})
        /\ Becomes(Put(doc, op.path, Leaf(Empty(Variant(doc[op.path])))))

Apply(op) == \/ SetOp(op) \/ RemoveOp(op) \/ AppendOp(op) \/ PrependOp(op)
             \/ InsertOp(op) \/ CountOp(op) \/ MergeOp(op) \/ MoveOp(op)
             \/ CopyOp(op) \/ ClearOp(op)

Step == /\ result = "applying" /\ applied < MaxOps
        /\ \E op \in Ops : Apply(op) /\ last' = op

\* The delta has no more operations.
Return == /\ result = "applying"
          /\ result' = "ok"
          /\ UNCHANGED <<doc, applied, last>>

Done == result # "applying" /\ UNCHANGED vars

Next == Step \/ Return \/ Done

Spec == Init /\ [][Next]_vars
-----------------------------------------------------------------------------
(***************************************************************************)
(* Properties.                                                             *)
(***************************************************************************)
\* The type of the state.
TypeOK == /\ IsDocument(doc)
          /\ result \in {"applying", "ok"} \cup Errors
          /\ applied \in 0..MaxOps
          /\ last \in Ops \cup {Missing}

\* This step is one operation that succeeds, of one of these kinds.
Applies(kinds) == applied' = applied + 1 /\ last'.kind \in kinds

\* The value an operation puts at its path.
Placed(op) == IF op.kind \in {"Move", "Copy"} THEN ValueAt(doc, op.from) ELSE op.value

\* After Set, Replace, Copy and Move the value is at the path of the operation,
\* also when it was taken from before that path in the same array.
ReadBack ==
  [][Applies({"Set", "Replace", "Copy", "Move"}) =>
       /\ last'.path \in DOMAIN doc'
       /\ ValueAt(doc', last'.path) = Placed(last')]_vars

\* The part of the document an operation at p may change: the array it is a
\* position in, for the others of its elements may move.
Scope(p) == IF IsPlaceInArray(doc, p) THEN Front(p) ELSE p

Scopes(op) == {Scope(op.path)} \cup
              (IF op.kind = "Move" THEN {Scope(op.from)} ELSE {})

\* An operation changes nothing outside the place it names (for Move, the two
\* places): every other path leads where it led.
ElsewhereUnchanged ==
  [][Applies(DeltaOpKind) =>
       \A q \in DOMAIN doc \cup DOMAIN doc' :
         \/ \E p \in Scopes(last') : IsPrefix(p, q)
         \/ q \in DOMAIN doc /\ q \in DOMAIN doc' /\ doc'[q] = doc[q]]_vars

HowMany(d, node) == Cardinality({q \in DOMAIN d : d[q] = node})

\* A member moved to a path that leads nowhere yet is neither lost nor
\* duplicated, nor is anything else.  (An element of an array may be moved
\* over another one, because taking it out makes the others move up.)
MoveConserves ==
  [][/\ Applies({"Move"}) /\ last'.from # Root
     /\ IsKeyOfObject(doc, last'.from) /\ last'.path \notin DOMAIN doc
     => \A s \in {doc[q] : q \in DOMAIN doc} :
          Variant(s) # "Array" => HowMany(doc', s) = HowMany(doc, s)]_vars

\* The opposite operation takes a counter back to the value it had, across
\* overflow too; for an unsigned counter that overflowed it is refused.
CounterUndo ==
  [][Applies({"Increment", "Decrement"}) =>
       LET now == doc'[last'.path]
           was == doc[last'.path]
           back == Held(now) - Sign(last') * Held(last'.value[Root])
       IN  /\ Variant(now) = Variant(was)
           /\ Held(now) \in (IF Variant(now) = "I64" THEN I64 ELSE U64)
           /\ \/ Variant(now) = "I64" /\ WrapI64(back) = Held(was)
              \/ Variant(now) = "U64" /\ (back = Held(was) \/ back < 0)]_vars
=============================================================================
