----------------------------- MODULE Documents -----------------------------
(***************************************************************************)
(* The documents of sx-core that sx-delta works on: trees of objects,      *)
(* arrays and scalars, and the paths into them.                            *)
(*                                                                         *)
(* A document is a function from the paths that lead somewhere in it to    *)
(* the node found there.  A node is a pair of the variant of SxValue and   *)
(* what the node itself holds: an array its length, an integer its value.  *)
(* Looking a path up segment by segment, as get and get_mut do, fails      *)
(* exactly when the path is not in the function's domain.                  *)
(***************************************************************************)
EXTENDS Integers, Sequences, SequencesExt

CONSTANTS Keys,    \* the keys of objects, as numbers in the order of the keys
          Scalars, \* the nodes that are neither objects nor arrays
          NaN,     \* a float that does not equal itself
          Half     \* an i64 is in -Half .. Half-1, a u64 in 0 .. 2*Half-1

ASSUME DocumentConstants ==
  /\ Keys \subseteq Nat /\ Half \in Nat \ {0}
  /\ \A s \in Scalars : s[1] \notin {"Object", "Array"}

Key(k) == <<"Key", k>>
Index(i) == <<"Index", i>>
Root == <<>>

Segment == {"Key"} \X Keys \cup {"Index"} \X Nat

Object == <<"Object", 0>>
Array(n) == <<"Array", n>>
Null == <<"Null", 0>>
Empty(variant) == <<variant, 0>>

Variant(node) == node[1]
Held(node) == node[2]

I64 == -Half..(Half - 1)
U64 == 0..(2 * Half - 1)

\* Arithmetic of the release build.
WrapI64(n) == ((n + Half) % (2 * Half)) - Half

\* Mutant: the sum is cut off at the largest value.
SaturateU64(n) == IF n >= 2 * Half THEN 2 * Half - 1 ELSE n

WrapU64(n) == n % (2 * Half)

Leaf(node) == [p \in {Root} |-> node]

\* Whether a segment leads to a member of the container node.
Leads(node, segment) ==
  \/ Variant(node) = "Object" /\ segment[1] = "Key"
  \/ Variant(node) = "Array" /\ segment[1] = "Index" /\ segment[2] < Held(node)

\* The nodes SxValue can hold: its integers are of their width.
IsNode(node) ==
  /\ node = <<Variant(node), Held(node)>>
  /\ Variant(node) \in {"I8", "I16", "I32", "I64"} => Held(node) \in I64
  /\ Variant(node) \in {"U8", "U16", "U32", "U64"} => Held(node) \in U64
  /\ Variant(node) = "Array" => Held(node) \in Nat
  /\ Variant(node) = "Object" => Held(node) = 0

\* The functions that stand for documents: a path is there with the containers
\* it leads through, and an array has all its elements.
IsDocument(d) ==
  /\ d = [p \in DOMAIN d |-> d[p]] /\ DOMAIN d \subseteq Seq(Segment)
  /\ Root \in DOMAIN d
  /\ \A p \in DOMAIN d :
       /\ IsNode(d[p])
       /\ \A n \in 1..Len(p) :
            SubSeq(p, 1, n - 1) \in DOMAIN d /\ Leads(d[SubSeq(p, 1, n - 1)], p[n])
       /\ Variant(d[p]) = "Array" =>
            \A i \in 0..(Held(d[p]) - 1) : Append(p, Index(i)) \in DOMAIN d

(***************************************************************************)
(* Parts of documents.                                                     *)
(***************************************************************************)
Below(d, p) == {q \in DOMAIN d : IsPrefix(p, q)}

Drop(p, n) == SubSeq(p, n + 1, Len(p))

\* The value at p.
ValueAt(d, p) == [q \in {Drop(r, Len(p)) : r \in Below(d, p)} |-> d[p \o q]]

\* d with the value v at p, in place of what is there.
Put(d, p, v) ==
  [q \in (DOMAIN d \ Below(d, p)) \cup {p \o r : r \in DOMAIN v} |->
     IF IsPrefix(p, q) THEN v[Drop(q, Len(p))] ELSE d[q]]

\* d without what is at p.
Cut(d, p) == [q \in DOMAIN d \ Below(d, p) |-> d[q]]

\* The documents with these members, and with these elements.
ObjectOf(members) ==
  [q \in {Root} \cup UNION {{<<Key(k)>> \o r : r \in DOMAIN members[k]} :
                            k \in DOMAIN members} |->
     IF q = Root THEN Object ELSE members[q[1][2]][Tail(q)]]

ArrayOf(elements) ==
  [q \in {Root} \cup UNION {{<<Index(i - 1)>> \o r : r \in DOMAIN elements[i]} :
                            i \in DOMAIN elements} |->
     IF q = Root THEN Array(Len(elements)) ELSE elements[q[1][2] + 1][Tail(q)]]

MemberKeys(d, p) == {k \in Keys : Append(p, Key(k)) \in DOMAIN d}

\* Where the path q leads once the elements of the array at p from position
\* i on have moved by n positions.
Shift(q, p, i, n) ==
  IF IsStrictPrefix(p, q) /\ q[Len(p) + 1][2] >= i
  THEN [q EXCEPT ![Len(p) + 1] = Index(@[2] + n)]
  ELSE q

\* Vec::insert and Vec::remove in the array at p.
InsertElement(d, p, i, v) ==
  LET moved == [q \in {Shift(r, p, i, 1) : r \in DOMAIN d} |->
                  d[Shift(q, p, i + 1, -1)]]
  IN  Put([moved EXCEPT ![p] = Array(Held(@) + 1)], Append(p, Index(i)), v)

RemoveElement(d, p, i) ==
  LET cut == Cut(d, Append(p, Index(i)))
  IN  [q \in {Shift(r, p, i + 1, -1) : r \in DOMAIN cut} |->
         IF q = p THEN Array(Held(d[p]) - 1) ELSE cut[Shift(q, p, i, 1)]]

(***************************************************************************)
(* set_path and remove_path: when they succeed, and what they leave.       *)
(***************************************************************************)
IsKeyOfObject(d, p) ==
  p # Root /\ Front(p) \in DOMAIN d
    /\ Variant(d[Front(p)]) = "Object" /\ Last(p)[1] = "Key"

\* p is a position in an array, or the one just after its end.
IsPlaceInArray(d, p) ==
  p # Root /\ Front(p) \in DOMAIN d
    /\ Variant(d[Front(p)]) = "Array" /\ Last(p)[1] = "Index"
    /\ Last(p)[2] <= Held(d[Front(p)])

CanSet(d, p) == p = Root \/ IsKeyOfObject(d, p) \/ IsPlaceInArray(d, p)

SetPath(d, p, v) ==
  IF IsPlaceInArray(d, p) /\ p \notin DOMAIN d
  THEN InsertElement(d, Front(p), Held(d[Front(p)]), v)
  ELSE Put(d, p, v)

\* A key that is not there may be removed, an index may not.
CanRemove(d, p) ==
  p = Root \/ IsKeyOfObject(d, p) \/ (IsPlaceInArray(d, p) /\ p \in DOMAIN d)

RemovePath(d, p) ==
  IF p = Root THEN Leaf(Null)
  ELSE IF IsPlaceInArray(d, p) THEN RemoveElement(d, Front(p), Last(p)[2])
  ELSE Cut(d, p)
=============================================================================
