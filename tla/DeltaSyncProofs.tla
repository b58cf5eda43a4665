-------------------------- MODULE DeltaSyncProofs --------------------------
(***************************************************************************)
(* Proofs about apply_delta and diff.                                      *)
(*                                                                         *)
(* First apply_delta alone: whatever operations are applied to whatever    *)
(* documents, the copy stays a document, and each of them does what its    *)
(* name says and nothing elsewhere.                                        *)
(*                                                                         *)
(* Then both together: whatever the two documents are, no operation of the *)
(* delta is refused, each brings the document closer, and they end at the  *)
(* target; and a delta is empty only between equals.  That argument is     *)
(* about the documents on the way: after every operation the ones that are *)
(* left are what diff says of the document there is now.                   *)
(***************************************************************************)
EXTENDS DeltaText, DocumentsProofs, FiniteSetTheorems
-----------------------------------------------------------------------------
(***************************************************************************)
(* The other operations.                                                   *)
(***************************************************************************)
\* q is among the members of the object v, put into the object at p; q lies in
\* a member of the object at p that one of those takes the place of.
Brought(q, p, v) == IsPrefix(p, q) /\ Drop(q, Len(p)) \in DOMAIN v /\ Drop(q, Len(p)) # Root

Replaced(q, p, v) == \E k \in MemberKeys(v, Root) : IsPrefix(Append(p, Key(k)), q)

\* The paths of d with the members of v merged in, and what they lead to.
LEMMA MergedParts ==
  ASSUME NEW d, NEW v, NEW p \in Seq(Segment),
         DOMAIN d \subseteq Seq(Segment), DOMAIN v \subseteq Seq(Segment),
         NEW e, e = Merged(d, p, v)
  PROVE  /\ e = [q \in DOMAIN e |-> e[q]] /\ DOMAIN e \subseteq Seq(Segment)
         /\ \A q \in Seq(Segment) :
              q \in DOMAIN e <=> \/ Brought(q, p, v)
                                 \/ q \in DOMAIN d /\ ~ Replaced(q, p, v)
         /\ \A q \in DOMAIN e :
              e[q] = IF Brought(q, p, v) THEN v[Drop(q, Len(p))] ELSE d[q]
<1> DEFINE replaced == UNION {Below(d, Append(p, Key(k))) : k \in MemberKeys(v, Root)}
           members == DOMAIN v \ {Root}
           new == {p \o r : r \in members}
           old == DOMAIN d \ replaced
<1>1. e = [q \in old \cup new |-> IF IsPrefix(p, q) /\ Drop(q, Len(p)) \in members
                                  THEN v[Drop(q, Len(p))] ELSE d[q]]
  BY DEF Merged
<1>2. ASSUME NEW q \in Seq(Segment)
      PROVE  q \in new <=> Brought(q, p, v)
  <2>1. ASSUME q \in new PROVE Brought(q, p, v)
    <3>1. PICK r \in members : q = p \o r
      BY <2>1
    <3>2. r \in Seq(Segment)
      OBVIOUS
    <3>3. IsPrefix(p, p \o r) /\ Drop(p \o r, Len(p)) = r
      BY <3>2, PathBeyond
    <3> QED
      BY <3>1, <3>3 DEF Brought
  <2>2. ASSUME Brought(q, p, v) PROVE q \in new
    <3>1. p \o Drop(q, Len(p)) = q
      BY <2>2, PathRest DEF Brought
    <3> QED
      BY <2>2, <3>1 DEF Brought
  <2> QED
    BY <2>1, <2>2
<1>3. \A q : q \in old <=> q \in DOMAIN d /\ ~ Replaced(q, p, v)
  BY DEF Below, Replaced
<1>4. old \cup new \subseteq Seq(Segment)
  BY PathBeyond, ZenonT(60)
<1>5. \A q : IsPrefix(p, q) /\ Drop(q, Len(p)) \in members <=> Brought(q, p, v)
  BY DEF Brought
<1> HIDE DEF old, new, members
<1>6. DOMAIN e = old \cup new
  BY <1>1
<1> QED
  BY <1>1, <1>2, <1>3, <1>4, <1>5, <1>6

\* Merging an object into an object of a document leaves a document.
LEMMA MergedDocument ==
  ASSUME NEW d, IsDocument(d), NEW p \in DOMAIN d, Variant(d[p]) = "Object",
         NEW v, IsDocument(v), Variant(v[Root]) = "Object"
  PROVE  IsDocument(Merged(d, p, v))
<1> DEFINE e == Merged(d, p, v)
<1>1. /\ Rooted(d) /\ CompleteBut(d, Root) /\ Rooted(v) /\ CompleteBut(v, Root)
      /\ p \in Seq(Segment) /\ Root \in Seq(Segment)
      /\ DOMAIN d \subseteq Seq(Segment) /\ DOMAIN v \subseteq Seq(Segment)
  BY DocumentParts DEF IsDocument, Root
<1>2. /\ e = [q \in DOMAIN e |-> e[q]] /\ DOMAIN e \subseteq Seq(Segment)
      /\ \A q \in Seq(Segment) :
           q \in DOMAIN e <=> \/ Brought(q, p, v)
                              \/ q \in DOMAIN d /\ ~ Replaced(q, p, v)
      /\ \A q \in DOMAIN e :
           e[q] = IF Brought(q, p, v) THEN v[Drop(q, Len(p))] ELSE d[q]
  BY <1>1, MergedParts
<1> HIDE DEF e
<1>3. \A k \in MemberKeys(v, Root) : /\ Key(k) \in Segment /\ Append(p, Key(k)) \in Seq(Segment)
                                     /\ Front(Append(p, Key(k))) = p
                                     /\ Last(Append(p, Key(k))) = Key(k)
  BY <1>1, SegmentKinds, PathEnds DEF MemberKeys
<1>4. ~ Brought(p, p, v)
  BY <1>1, PathBeyond DEF Brought, Root
<1>5. ASSUME NEW q \in Seq(Segment), IsPrefix(q, p)
      PROVE  ~ Replaced(q, p, v) /\ ~ Brought(q, p, v)
  <2>1. ASSUME NEW k \in MemberKeys(v, Root), IsPrefix(Append(p, Key(k)), q)
        PROVE  FALSE
    <3>1. IsPrefix(Append(p, Key(k)), p)
      BY <1>1, <1>3, <1>5, <2>1, PrefixOfPrefix
    <3>2. IsPrefix(p, p) /\ Key(k) \in Segment
      BY <1>1, <1>3, PrefixOfItself
    <3>3. IsPrefix(p, Append(p, Key(k)))
      BY <1>1, <3>2, PrefixOfLonger
    <3>4. p = Append(p, Key(k))
      BY <1>1, <1>3, <3>1, <3>3, PrefixBothWays
    <3>5. Len(Append(p, Key(k))) = Len(p) + 1 /\ Len(p) \in Nat
      BY <1>1, <3>2
    <3> QED
      BY <3>4, <3>5
  <2>2. IsPrefix(p, q) => q = p
    BY <1>1, <1>5, PrefixBothWays
  <2> QED
    BY <1>4, <2>1, <2>2 DEF Replaced, Brought
<1>6. p \in DOMAIN e /\ e[p] = d[p] /\ Root \in DOMAIN e
  <2>1. IsPrefix(p, p) /\ IsPrefix(Root, p)
    BY <1>1, PrefixOfItself DEF Root
  <2>2. Root \in DOMAIN d
    BY <1>1 DEF Rooted
  <2> QED
    BY <1>1, <1>2, <1>5, <2>1, <2>2
<1>7. \A q \in DOMAIN e : IsNode(e[q])
  BY <1>1, <1>2 DEF Rooted, Brought
<1>8. ASSUME NEW q \in DOMAIN d, Brought(q, p, v) PROVE Replaced(q, p, v)
  <2>1. q \in Seq(Segment) /\ IsPrefix(p, q)
    BY <1>1, <1>8 DEF Brought
  <2>2. q # p
    BY <1>4, <1>8
  <2>3. Drop(q, Len(p))[1] = q[Len(p) + 1] /\ IsPrefix(Append(p, q[Len(p) + 1]), q)
    BY <1>1, <2>1, <2>2, NextSegment
  <2>4. \E k \in MemberKeys(v, Root) : Drop(q, Len(p))[1] = Key(k)
    BY <1>8, BelowAKey DEF Brought
  <2> QED
    BY <2>3, <2>4 DEF Replaced
<1>9. ASSUME NEW t \in Seq(Segment), NEW s \in Segment, Append(t, s) \in DOMAIN e
      PROVE  t \in DOMAIN e /\ Leads(e[t], s)
  <2>1. Append(t, s) \in Seq(Segment)
    BY PathEnds
  <2>2. CASE Brought(Append(t, s), p, v)
    <3>1. IsPrefix(p, t)
      <4>1. p # Append(t, s)
        BY <1>4, <2>2
      <4> QED
        BY <1>1, <2>2, <4>1, PrefixOfLonger DEF Brought
    <3> DEFINE u == Drop(t, Len(p))
    <3>2. u \in Seq(Segment) /\ p \o u = t
      BY <1>1, <3>1, PathRest
    <3>3. Append(u, s) \in DOMAIN v
      <4>1. Drop(Append(t, s), Len(p)) = Append(Drop(t, Len(p)), s)
        BY <1>1, <3>1, PathGrows
      <4> QED
        BY <2>2, <4>1 DEF Brought
    <3> HIDE DEF u
    <3>4. u \in DOMAIN v /\ Leads(v[u], s)
      BY <1>1, <3>2, <3>3 DEF Rooted
    <3>5. CASE u = Root
      <4>1. t = p
        BY <1>1, <3>2, <3>5, PathBeyond DEF Root
      <4>2. Leads(d[p], s)
        BY <3>4, <3>5 DEF Leads
      <4> QED
        BY <1>6, <4>1, <4>2
    <3>6. CASE u # Root
      <4>1. Brought(t, p, v)
        BY <3>1, <3>4, <3>6 DEF Brought, u
      <4>2. t \in DOMAIN e /\ e[t] = v[u]
        BY <1>2, <4>1 DEF u
      <4> QED
        BY <3>4, <4>2
    <3> QED
      BY <3>5, <3>6
  <2>3. CASE ~ Brought(Append(t, s), p, v)
    <3>1. Append(t, s) \in DOMAIN d /\ ~ Replaced(Append(t, s), p, v)
      BY <1>2, <1>9, <2>1, <2>3
    <3>2. t \in DOMAIN d /\ Leads(d[t], s)
      BY <1>1, <3>1 DEF Rooted
    <3>3. ~ Replaced(t, p, v)
      BY <1>3, <3>1, PrefixOfLonger DEF Replaced
    <3>4. ~ Brought(t, p, v)
      BY <1>8, <3>2, <3>3
    <3> QED
      BY <1>2, <3>2, <3>3, <3>4
  <2> QED
    BY <2>2, <2>3
<1>10. ASSUME NEW q \in DOMAIN e, Variant(e[q]) = "Array", NEW i \in 0..(Held(e[q]) - 1)
       PROVE  Append(q, Index(i)) \in DOMAIN e
  <2>1. q \in Seq(Segment) /\ IsNode(e[q])
    BY <1>2, <1>7
  <2>2. i \in Nat /\ Index(i) \in Segment
    BY <1>10, <2>1, SegmentKinds DEF IsNode
  <2>3. Append(q, Index(i)) \in Seq(Segment) /\ Last(Append(q, Index(i))) = Index(i)
    BY <2>1, <2>2, PathEnds
  <2>4. CASE Brought(q, p, v)
    <3> DEFINE u == Drop(q, Len(p))
    <3>1. u \in DOMAIN v /\ IsPrefix(p, q) /\ e[q] = v[u]
      BY <1>2, <2>4 DEF Brought
    <3>2. Drop(Append(q, Index(i)), Len(p)) = Append(u, Index(i))
      BY <1>1, <2>1, <2>2, <3>1, PathGrows
    <3> HIDE DEF u
    <3>3. Append(u, Index(i)) # Root
      BY <1>1, <2>2, <3>1, PathEnds DEF Root
    <3>4. Append(u, Index(i)) \in DOMAIN v
      BY <1>1, <1>10, <3>1, <3>3 DEF CompleteBut
    <3>5. IsPrefix(p, Append(q, Index(i)))
      BY <1>1, <2>1, <2>2, <3>1, PrefixOfLonger
    <3>6. Brought(Append(q, Index(i)), p, v)
      BY <3>2, <3>3, <3>4, <3>5 DEF Brought
    <3> QED
      BY <1>2, <2>3, <3>6
  <2>5. CASE ~ Brought(q, p, v)
    <3>1. q \in DOMAIN d /\ ~ Replaced(q, p, v) /\ e[q] = d[q]
      BY <1>2, <2>1, <2>5
    <3>2. Append(q, Index(i)) \in DOMAIN d
      <4>1. Append(q, Index(i)) # Root
        BY <2>1, <2>2, PathEnds DEF Root
      <4> QED
        BY <1>1, <1>10, <3>1, <4>1 DEF CompleteBut
    <3>3. ~ Replaced(Append(q, Index(i)), p, v)
      <4>1. ASSUME NEW k \in MemberKeys(v, Root),
                   IsPrefix(Append(p, Key(k)), Append(q, Index(i)))
            PROVE  FALSE
        <5>1. ~ IsPrefix(Append(p, Key(k)), q)
          BY <3>1 DEF Replaced
        <5>2. Append(p, Key(k)) = Append(q, Index(i))
          BY <1>3, <2>1, <2>2, <4>1, <5>1, PrefixOfLonger
        <5>3. Key(k) = Index(i)
          BY <1>3, <2>3, <5>2
        <5> QED
          BY <5>3 DEF Key, Index
      <4> QED
        BY <4>1 DEF Replaced
    <3> QED
      BY <1>2, <2>3, <3>2, <3>3
  <2> QED
    BY <2>4, <2>5
<1>11. Rooted(e) /\ CompleteBut(e, Root)
  BY <1>2, <1>6, <1>7, <1>9, <1>10 DEF Rooted, CompleteBut
<1> QED
  BY <1>11, DocumentFrom DEF e

\* A node without members may become another one.
LEMMA RenodedDocument ==
  ASSUME NEW d, IsDocument(d), NEW p \in DOMAIN d,
         Variant(d[p]) \notin {"Array", "Object"},
         NEW node, IsNode(node), Variant(node) # "Array"
  PROVE  IsDocument([d EXCEPT ![p] = node])
<1> DEFINE e == [d EXCEPT ![p] = node]
<1>1. d = [q \in DOMAIN d |-> d[q]]
  BY DEF IsDocument
<1>2. /\ DOMAIN e = DOMAIN d /\ e = [q \in DOMAIN e |-> e[q]]
      /\ \A q \in DOMAIN e : e[q] = IF q = p THEN node ELSE d[q]
  BY <1>1
<1> HIDE DEF e
<1>3. ASSUME NEW q \in DOMAIN d, NEW n \in 1..Len(q)
      PROVE  SubSeq(q, 1, n - 1) \in DOMAIN e /\ Leads(e[SubSeq(q, 1, n - 1)], q[n])
  <2>1. SubSeq(q, 1, n - 1) \in DOMAIN d /\ Leads(d[SubSeq(q, 1, n - 1)], q[n])
    BY DEF IsDocument
  <2>2. ~ Leads(d[p], q[n])
    BY DEF Leads
  <2> QED
    BY <1>2, <2>1, <2>2
<1>4. \A q \in DOMAIN d : Variant(e[q]) = "Array" =>
        e[q] = d[q] /\ \A i \in 0..(Held(e[q]) - 1) : Append(q, Index(i)) \in DOMAIN e
  BY <1>2 DEF IsDocument
<1>5. DOMAIN e \subseteq Seq(Segment) /\ Root \in DOMAIN e /\ \A q \in DOMAIN e : IsNode(e[q])
  BY <1>2 DEF IsDocument
<1>6. IsDocument(e)
  BY <1>2, <1>3, <1>4, <1>5 DEF IsDocument
<1> QED
  BY <1>6 DEF e

\* Arithmetic that wraps stays within its width.
LEMMA Wraps ==
  /\ \A n \in Int : WrapI64(n) \in I64 /\ WrapU64(n) \in U64
  /\ I64 \subseteq Int /\ U64 \subseteq Int
<1>1. Half \in Nat /\ Half > 0 /\ 2 * Half \in Nat /\ 2 * Half > 0
  BY DocumentConstants
<1>2. \A n \in Int : n % (2 * Half) \in 0..(2 * Half - 1)
  BY <1>1
<1>3. \A n \in Int : n + Half \in Int
  BY <1>1
<1>4. \A n \in Int : (n + Half) % (2 * Half) \in 0..(2 * Half - 1)
  BY <1>2, <1>3
<1> QED
  BY <1>1, <1>2, <1>4 DEF WrapI64, WrapU64, I64, U64

\* What a counter operation adds up is a number.
LEMMA AddedIsNumber ==
  ASSUME IsDocument(doc), NEW op, IsOp(op), IsAmount(op.value),
         op.path \in DOMAIN doc, Variant(doc[op.path]) \in {"I64", "U64"}
  PROVE  /\ Added(op) \in Int /\ Sign(op) \in {1, -1}
         /\ Held(doc[op.path]) \in Int /\ Held(op.value[Root]) \in Int
<1>1. Held(doc[op.path]) \in Int
  <2>1. IsNode(doc[op.path])
    BY DEF IsDocument
  <2> QED
    BY <2>1, Wraps DEF IsNode
<1>2. Held(op.value[Root]) \in Int
  <2>1. IsNode(op.value[Root])
    BY DEF IsOp, IsValue, IsAmount, IsDocument
  <2> QED
    BY <2>1, Wraps DEF IsNode, IsAmount
<1>3. Sign(op) \in {1, -1}
  BY DEF Sign
<1>4. Added(op) \in Int
  BY <1>1, <1>2, <1>3 DEF Added
<1> QED
  BY <1>1, <1>2, <1>3, <1>4
-----------------------------------------------------------------------------
(***************************************************************************)
(* Every operation leaves a document, or fails.                            *)
(***************************************************************************)
Keeps == \/ IsDocument(doc') /\ applied' = applied + 1 /\ UNCHANGED result
         \/ result' \in Errors /\ UNCHANGED <<doc, applied>>

\* set_path keeps a document or fails.
LEMMA PlaceKeeps ==
  ASSUME NEW d, IsDocument(d), NEW p \in Seq(Segment), NEW v, IsDocument(v), Place(d, p, v)
  PROVE  Keeps
<1>1. CASE CanSet(d, p) /\ Becomes(SetPath(d, p, v))
  <2>1. IsDocument(SetPath(d, p, v))
    BY <1>1, SetPathDocument
  <2> QED
    BY <1>1, <2>1 DEF Becomes, Keeps
<1>2. CASE Fails("InvalidPath")
  BY <1>2 DEF Fails, Keeps, Errors
<1> QED
  BY <1>1, <1>2 DEF Place

\* Append, Prepend and Insert keep a document or fail.
LEMMA IntoArrayKeeps ==
  ASSUME IsDocument(doc), NEW op, IsOp(op), NEW i \in Nat, IntoArray(op, i)
  PROVE  Keeps
<1>1. CASE \E code \in Errors : Fails(code)
  BY <1>1 DEF Fails, Keeps
<1>2. CASE /\ op.value # Missing /\ At(op.path, {"Array"}) /\ i <= Held(doc[op.path])
           /\ Becomes(InsertElement(doc, op.path, i, op.value))
  <2>1. /\ IsDocument(op.value) /\ op.path \in DOMAIN doc
        /\ Variant(doc[op.path]) = "Array"
    BY <1>2 DEF At, IsOp, IsValue
  <2>2. i \in 0..Held(doc[op.path])
    <3>1. Held(doc[op.path]) \in Nat
      BY <2>1, ElementsOf
    <3> QED
      BY <1>2, <3>1
  <2>3. IsDocument(InsertElement(doc, op.path, i, op.value))
    BY <2>1, <2>2, InsertDocument
  <2> QED
    BY <1>2, <2>3 DEF Becomes, Keeps
<1> QED
  BY <1>1, <1>2 DEF IntoArray, Lacks, Nowhere, Mismatch, Errors

\* apply_op keeps a document or fails.
LEMMA ApplyKeeps ==
  ASSUME IsDocument(doc), NEW op, IsOp(op), Apply(op)
  PROVE  Keeps
<1>1. /\ op.path \in Seq(Segment)
      /\ op.value # Missing => IsDocument(op.value)
      /\ op.from # Missing => op.from \in Seq(Segment)
      /\ op.index # Missing => op.index \in Nat
  BY DEF IsOp, IsValue
<1>2. ASSUME NEW code \in Errors, Fails(code) PROVE Keeps
  BY <1>2 DEF Fails, Keeps
<1>3. Lacks(op.value) \/ Lacks(op.from) \/ Lacks(op.index) => Keeps
  BY <1>2 DEF Lacks, Errors
<1>4. \A p : Nowhere(p) => Keeps
  BY <1>2 DEF Nowhere, Errors
<1>5. \A p, variants : Mismatch(p, variants) => Keeps
  BY <1>2 DEF Mismatch, Errors
<1>6. CASE SetOp(op)
  BY <1>1, <1>3, <1>6, PlaceKeeps DEF SetOp
<1>7. CASE RemoveOp(op)
  <2>1. CASE CanRemove(doc, op.path) /\ Becomes(RemovePath(doc, op.path))
    <3>1. IsDocument(RemovePath(doc, op.path))
      BY <1>1, <2>1, RemovePathDocument
    <3> QED
      BY <2>1, <3>1 DEF Becomes, Keeps
  <2> QED
    BY <1>2, <1>7, <2>1 DEF RemoveOp, Errors
<1>8. CASE AppendOp(op)
  <2>1. CASE op.path \in DOMAIN doc /\ Variant(doc[op.path]) = "Array"
    <3>1. LengthAt(op.path) \in Nat
      BY <2>1, ElementsOf DEF LengthAt
    <3> QED
      BY <1>8, <3>1, IntoArrayKeeps DEF AppendOp
  <2>2. CASE ~ (op.path \in DOMAIN doc /\ Variant(doc[op.path]) = "Array")
    BY <1>3, <1>4, <1>5, <1>8, <2>2 DEF AppendOp, IntoArray, At
  <2> QED
    BY <2>1, <2>2
<1>9. CASE PrependOp(op)
  BY <1>9, IntoArrayKeeps DEF PrependOp
<1>10. CASE InsertOp(op)
  BY <1>1, <1>3, <1>10, IntoArrayKeeps DEF InsertOp
<1>11. CASE CountOp(op)
  <2>1. ASSUME NEW node, IsNode(node), Variant(node) # "Array", op.path \in DOMAIN doc,
               Variant(doc[op.path]) \notin {"Array", "Object"},
               Becomes([doc EXCEPT ![op.path] = node])
        PROVE  Keeps
    <3>1. IsDocument([doc EXCEPT ![op.path] = node])
      BY <2>1, RenodedDocument
    <3> QED
      BY <2>1, <3>1 DEF Becomes, Keeps
  <2>2. CASE /\ IsAmount(op.value) /\ At(op.path, {"I64"})
             /\ Becomes([doc EXCEPT ![op.path] = <<"I64", WrapI64(Added(op))>>])
    <3>1. op.path \in DOMAIN doc /\ Variant(doc[op.path]) = "I64"
      BY <2>2 DEF At
    <3>2. WrapI64(Added(op)) \in I64
      BY <2>2, <3>1, AddedIsNumber, Wraps
    <3>3. IsNode(<<"I64", WrapI64(Added(op))>>) /\ Variant(<<"I64", WrapI64(Added(op))>>) = "I64"
      BY <3>2 DEF IsNode, Variant, Held
    <3> QED
      BY <2>1, <2>2, <3>1, <3>3
  <2>3. CASE /\ IsAmount(op.value) /\ At(op.path, {"U64"})
             /\ Becomes([doc EXCEPT ![op.path] = <<"U64", WrapU64(Added(op))>>])
    <3>1. op.path \in DOMAIN doc /\ Variant(doc[op.path]) = "U64"
      BY <2>3 DEF At
    <3>2. WrapU64(Added(op)) \in U64
      BY <2>3, <3>1, AddedIsNumber, Wraps
    <3>3. IsNode(<<"U64", WrapU64(Added(op))>>) /\ Variant(<<"U64", WrapU64(Added(op))>>) = "U64"
      BY <3>2 DEF IsNode, Variant, Held
    <3> QED
      BY <2>1, <2>3, <3>1, <3>3
  <2>4. CASE Fails("TypeMismatch") \/ Fails("ValidationError")
    BY <1>2, <2>4 DEF Errors
  <2> QED
    BY <1>4, <1>5, <1>11, <2>2, <2>3, <2>4 DEF CountOp
<1>12. CASE MergeOp(op)
  <2>1. CASE /\ op.value # Missing /\ At(op.path, {"Object"})
             /\ Variant(op.value[Root]) = "Object"
             /\ Becomes(Merged(doc, op.path, op.value))
    <3>1. IsDocument(Merged(doc, op.path, op.value))
      BY <1>1, <2>1, MergedDocument DEF At
    <3> QED
      BY <2>1, <3>1 DEF Becomes, Keeps
  <2>2. CASE Fails("TypeMismatch")
    BY <1>2, <2>2 DEF Errors
  <2> QED
    BY <1>3, <1>4, <1>5, <1>12, <2>1, <2>2 DEF MergeOp
<1>13. ASSUME op.from \in DOMAIN doc PROVE IsDocument(ValueAt(doc, op.from))
  BY <1>13, ValueAtDocument
<1>14. CASE MoveOp(op)
  <2>1. ASSUME op.from # Missing, op.from \in DOMAIN doc,
               Place(RemovePath(doc, op.from), op.path, ValueAt(doc, op.from))
        PROVE  Keeps
    <3>1. CanRemove(doc, op.from)
      BY <1>1, <2>1, ThereCanRemove
    <3>2. IsDocument(RemovePath(doc, op.from))
      BY <1>1, <2>1, <3>1, RemovePathDocument
    <3> QED
      BY <1>1, <1>13, <2>1, <3>2, PlaceKeeps
  <2> QED
    BY <1>3, <1>4, <1>14, <2>1 DEF MoveOp
<1>15. CASE CopyOp(op)
  BY <1>1, <1>3, <1>4, <1>13, <1>15, PlaceKeeps DEF CopyOp
<1>16. CASE ClearOp(op)
  <2> DEFINE node == Empty(Variant(doc[op.path]))
  <2>1. CASE op.path \in DOMAIN doc /\ Becomes(Put(doc, op.path, Leaf(node)))
             /\ Variant(doc[op.path]) \in {"Array", "Object", "Bytes", "String"}
    <3>1. IsNode(node) /\ (Variant(node) = "Array" => Held(node) = 0)
      BY <2>1 DEF IsNode, Empty, Variant, Held
    <3> HIDE DEF node
    <3>2. IsDocument(Leaf(node))
      BY <3>1, LeafDocument
    <3>3. Attached(doc, op.path) /\ Rooted(doc) /\ CompleteBut(doc, op.path)
      BY <2>1, AttachedThere, DocumentParts
    <3>4. IsDocument(Put(doc, op.path, Leaf(node)))
      BY <1>1, <3>2, <3>3, PutDocument
    <3> QED
      BY <2>1, <3>4 DEF Becomes, Keeps
  <2> QED
    BY <1>4, <1>5, <1>16, <2>1 DEF ClearOp, At
<1> QED
  BY <1>6, <1>7, <1>8, <1>9, <1>10, <1>11, <1>12, <1>14, <1>15, <1>16 DEF Apply

\* The type invariant, which the action properties below rest on, is inductive as
\* it stands.
LEMMA TypeAlwaysOK == Spec => []TypeOK
<1>1. Init => TypeOK
  BY OpsAreOps DEF Init, TypeOK, IsValue
<1>2. TypeOK /\ [Next]_vars => TypeOK'
  <2> SUFFICES ASSUME TypeOK, [Next]_vars PROVE TypeOK'
    OBVIOUS
  <2>1. CASE Step
    <3>1. PICK op \in Ops : IsOp(op) /\ Apply(op) /\ last' = op
      BY <2>1, OpsAreOps DEF Step
    <3>2. Keeps
      BY <3>1, ApplyKeeps DEF TypeOK
    <3>3. applied \in 0..MaxOps /\ applied < MaxOps /\ MaxOps \in Nat
      BY <2>1, OpsAreOps DEF TypeOK, Step
    <3> QED
      BY <3>1, <3>2, <3>3 DEF Keeps, TypeOK
  <2>2. CASE Return
    BY <2>2 DEF Return, TypeOK
  <2>3. CASE Done \/ UNCHANGED vars
    BY <2>3 DEF Done, vars, TypeOK
  <2> QED
    BY <2>1, <2>2, <2>3 DEF Next
<1> QED
  BY <1>1, <1>2, PTL DEF Spec
-----------------------------------------------------------------------------
(***************************************************************************)
(* Counters.                                                               *)
(***************************************************************************)
\* Remainders of numbers at most one turn away.
LEMMA Remainders ==
  ASSUME NEW m \in Nat \ {0}, NEW x \in Int
  PROVE  /\ 0 <= x /\ x < m => x % m = x
         /\ m <= x /\ x < 2 * m => x % m = x - m
         /\ -m <= x /\ x < 0 => x % m = x + m
OBVIOUS

\* A number that is out of its range by less than the range is wide wraps once.
LEMMA WrapsOnce ==
  ASSUME NEW n \in Int, NEW m, m = 2 * Half
  PROVE  /\ n \in I64 => WrapI64(n) = n
         /\ n >= Half /\ n < Half + m => WrapI64(n) = n - m
         /\ n < -Half /\ n >= -Half - m => WrapI64(n) = n + m
         /\ n \in U64 => WrapU64(n) = n
         /\ n >= m /\ n < 2 * m => WrapU64(n) = n - m
<1>1. Half \in Nat /\ Half > 0 /\ m \in Nat \ {0} /\ n + Half \in Int
  BY DocumentConstants
<1>2. WrapI64(n) = ((n + Half) % m) - Half /\ WrapU64(n) = n % m
  BY DEF WrapI64, WrapU64
<1>3. /\ 0 <= n + Half /\ n + Half < m => (n + Half) % m = n + Half
      /\ m <= n + Half /\ n + Half < 2 * m => (n + Half) % m = (n + Half) - m
      /\ -m <= n + Half /\ n + Half < 0 => (n + Half) % m = (n + Half) + m
  BY <1>1, Remainders
<1>4. /\ 0 <= n /\ n < m => n % m = n
      /\ m <= n /\ n < 2 * m => n % m = n - m
  BY <1>1, Remainders
<1>5. /\ n \in I64 => n >= -Half /\ n < Half
      /\ n \in U64 => n >= 0 /\ n < m
  BY <1>1 DEF I64, U64
<1> QED
  BY <1>1, <1>2, <1>3, <1>4, <1>5

\* Taking off what was added leads back, up to one turn.
LEMMA WrapsBack ==
  ASSUME NEW h \in Int, NEW a \in Int, a >= -Half, a <= Half
  PROVE  /\ h \in I64 => WrapI64(WrapI64(h + a) - a) = h
         /\ h \in U64 /\ h + a >= 0 => WrapU64(h + a) - a = h \/ WrapU64(h + a) - a < 0
<1> DEFINE m == 2 * Half
<1>1. Half \in Nat /\ Half > 0 /\ m \in Nat /\ h + a \in Int
  BY DocumentConstants
<1>2. ASSUME h \in I64 PROVE WrapI64(WrapI64(h + a) - a) = h
  <2>1. h >= -Half /\ h < Half
    BY <1>1, <1>2 DEF I64
  <2>2. \/ WrapI64(h + a) = h + a
        \/ WrapI64(h + a) = (h + a) - m /\ h + a >= Half
        \/ WrapI64(h + a) = (h + a) + m /\ h + a < -Half
    <3>1. /\ h + a \in I64 => WrapI64(h + a) = h + a
          /\ h + a >= Half /\ h + a < Half + m => WrapI64(h + a) = (h + a) - m
          /\ h + a < -Half /\ h + a >= -Half - m => WrapI64(h + a) = (h + a) + m
      BY <1>1, WrapsOnce
    <3>2. h + a < Half + m /\ h + a >= -Half - m
      BY <1>1, <2>1
    <3>3. h + a \in I64 \/ h + a >= Half \/ h + a < -Half
      BY <1>1 DEF I64
    <3> QED
      BY <3>1, <3>2, <3>3
  <2>3. \E n \in {h, h - m, h + m} : WrapI64(h + a) - a = n
    BY <1>1, <2>2
  <2>4. WrapI64(h) = h /\ WrapI64(h - m) = h /\ WrapI64(h + m) = h
    <3>1. h - m \in Int /\ h + m \in Int
      BY <1>1
    <3>2. /\ h \in I64 => WrapI64(h) = h
          /\ h + m >= Half /\ h + m < Half + m => WrapI64(h + m) = (h + m) - m
          /\ h - m < -Half /\ h - m >= -Half - m => WrapI64(h - m) = (h - m) + m
      BY <3>1, WrapsOnce
    <3>3. /\ h + m >= Half /\ h + m < Half + m /\ h - m < -Half /\ h - m >= -Half - m
          /\ (h + m) - m = h /\ (h - m) + m = h
      BY <1>1, <2>1
    <3> QED
      BY <1>2, <3>2, <3>3
  <2> QED
    BY <2>3, <2>4
<1>3. ASSUME h \in U64, h + a >= 0
      PROVE  WrapU64(h + a) - a = h \/ WrapU64(h + a) - a < 0
  <2>1. h >= 0 /\ h < m
    BY <1>1, <1>3 DEF U64
  <2>2. CASE h + a < m
    <3>1. h + a \in U64
      BY <1>1, <1>3, <2>2 DEF U64
    <3>2. WrapU64(h + a) = h + a
      BY <1>1, <3>1, WrapsOnce
    <3> QED
      BY <1>1, <3>2
  <2>3. CASE h + a >= m
    <3>1. h + a < 2 * m
      BY <1>1, <2>1
    <3>2. WrapU64(h + a) = (h + a) - m
      BY <1>1, <2>3, <3>1, WrapsOnce
    <3> QED
      BY <1>1, <2>1, <3>2
  <2> QED
    BY <1>1, <2>2, <2>3
<1> QED
  BY <1>2, <1>3

\* A step that applies an operation applies one of the delta's.
LEMMA AppliesOne ==
  ASSUME TypeOK, [Next]_vars, NEW kinds, Applies(kinds)
  PROVE  /\ last' \in Ops /\ IsOp(last') /\ Apply(last') /\ last'.kind \in kinds
         /\ applied' # applied
<1>1. applied \in Nat
  BY OpsAreOps DEF TypeOK
<1>2. applied' # applied
  BY <1>1 DEF Applies
<1>3. Step
  BY <1>2 DEF Next, Return, Done, vars
<1> QED
  BY <1>2, <1>3, OpsAreOps DEF Step, Applies

\* Which operation it is, is told by its kind.
LEMMA ByKind ==
  ASSUME NEW op, IsOp(op), Apply(op)
  PROVE  /\ op.kind \in {"Set", "Replace"} => SetOp(op)
         /\ op.kind = "Remove" => RemoveOp(op)
         /\ op.kind = "Append" => AppendOp(op)
         /\ op.kind = "Prepend" => PrependOp(op)
         /\ op.kind = "Insert" => InsertOp(op)
         /\ op.kind \in {"Increment", "Decrement"} => CountOp(op)
         /\ op.kind = "Merge" => MergeOp(op)
         /\ op.kind = "Move" => MoveOp(op)
         /\ op.kind = "Copy" => CopyOp(op)
         /\ op.kind = "Clear" => ClearOp(op)
BY DEF Apply, SetOp, RemoveOp, AppendOp, PrependOp, InsertOp, CountOp, MergeOp, MoveOp,
       CopyOp, ClearOp

\* Increment and Decrement can be undone: the opposite operation takes a signed
\* counter back whatever the overflow, and an unsigned one that overflowed is
\* refused.
THEOREM CountersAlwaysUndone == Spec => CounterUndo
<1> DEFINE now == doc'[last'.path]
           was == doc[last'.path]
           back == Held(now) - Sign(last') * Held(last'.value[Root])
           Undone == /\ Variant(now) = Variant(was)
                     /\ Held(now) \in (IF Variant(now) = "I64" THEN I64 ELSE U64)
                     /\ \/ Variant(now) = "I64" /\ WrapI64(back) = Held(was)
                        \/ Variant(now) = "U64" /\ (back = Held(was) \/ back < 0)
<1>1. ASSUME TypeOK, [Next]_vars, Applies({"Increment", "Decrement"})
      PROVE  Undone
  <2> DEFINE op == last'
             h == Held(was)
             a == Sign(op) * Held(op.value[Root])
  <2>1. IsOp(op) /\ CountOp(op) /\ applied' # applied
    BY <1>1, AppliesOne, ByKind
  <2>2. /\ IsAmount(op.value) /\ op.path \in DOMAIN doc
        /\ \/ /\ Variant(was) = "I64"
              /\ doc' = [doc EXCEPT ![op.path] = <<"I64", WrapI64(Added(op))>>]
           \/ /\ Variant(was) = "U64" /\ Added(op) >= 0
              /\ doc' = [doc EXCEPT ![op.path] = <<"U64", WrapU64(Added(op))>>]
    BY <2>1 DEF CountOp, Fails, Nowhere, Mismatch, At, Becomes
  <2>3. /\ Added(op) \in Int /\ Sign(op) \in {1, -1} /\ h \in Int
        /\ Held(op.value[Root]) \in Int /\ Added(op) = h + a
    BY <1>1, <2>1, <2>2, AddedIsNumber DEF TypeOK, Added
  <2>4. Half \in Nat /\ Held(op.value[Root]) \in I64
    <3>1. IsNode(op.value[Root])
      BY <2>1, <2>2 DEF IsOp, IsValue, IsAmount, IsDocument
    <3> QED
      BY <2>2, <3>1, DocumentConstants DEF IsAmount, IsNode
  <2>5. a \in Int /\ a >= -Half /\ a <= Half
    BY <2>3, <2>4 DEF I64
  <2>6. IsNode(was)
    BY <1>1, <2>2 DEF TypeOK, IsDocument
  <2> HIDE DEF a, h
  <2>7. CASE Variant(was) = "I64" /\ doc' = [doc EXCEPT ![op.path] = <<"I64", WrapI64(h + a)>>]
    <3>1. now = <<"I64", WrapI64(h + a)>>
      BY <2>2, <2>7
    <3>2. WrapI64(h + a) \in I64
      BY <2>3, Wraps
    <3>3. h \in I64
      BY <2>6, <2>7 DEF IsNode, h
    <3>4. WrapI64(WrapI64(h + a) - a) = h
      BY <2>3, <2>5, <3>3, WrapsBack
    <3> QED
      BY <2>7, <3>1, <3>2, <3>4 DEF Variant, Held, h, a
  <2>8. CASE /\ Variant(was) = "U64" /\ h + a >= 0
             /\ doc' = [doc EXCEPT ![op.path] = <<"U64", WrapU64(h + a)>>]
    <3>1. now = <<"U64", WrapU64(h + a)>>
      BY <2>2, <2>8
    <3>2. WrapU64(h + a) \in U64
      BY <2>3, Wraps
    <3>3. h \in U64
      BY <2>6, <2>8 DEF IsNode, h
    <3>4. WrapU64(h + a) - a = h \/ WrapU64(h + a) - a < 0
      BY <2>3, <2>5, <2>8, <3>3, WrapsBack
    <3> QED
      BY <2>8, <3>1, <3>2, <3>4 DEF Variant, Held, h, a
  <2> QED
    BY <2>2, <2>3, <2>7, <2>8
<1>2. TypeOK /\ [Next]_vars => [Applies({"Increment", "Decrement"}) => Undone]_vars
  BY <1>1
<1> QED
  BY <1>2, TypeAlwaysOK, PTL DEF Spec, CounterUndo
-----------------------------------------------------------------------------
(***************************************************************************)
(* What an operation puts somewhere is there.                              *)
(***************************************************************************)
\* What was put at p is the value at p.
LEMMA PutThere ==
  ASSUME NEW d, DOMAIN d \subseteq Seq(Segment), NEW v, IsDocument(v),
         NEW p \in Seq(Segment)
  PROVE  p \in DOMAIN Put(d, p, v) /\ ValueAt(Put(d, p, v), p) = v
<1> DEFINE e == Put(d, p, v)
           w == ValueAt(e, p)
<1>1. /\ DOMAIN v \subseteq Seq(Segment) /\ Root \in DOMAIN v
      /\ v = [q \in DOMAIN v |-> v[q]]
  BY DEF IsDocument
<1>2. /\ DOMAIN e \subseteq Seq(Segment)
      /\ \A q \in Seq(Segment) :
           q \in DOMAIN e <=> IF IsPrefix(p, q) THEN Drop(q, Len(p)) \in DOMAIN v
                              ELSE q \in DOMAIN d
      /\ \A q \in DOMAIN e :
           e[q] = IF IsPrefix(p, q) THEN v[Drop(q, Len(p))] ELSE d[q]
  BY <1>1, PutParts
<1> HIDE DEF e
<1>3. /\ w = [q \in DOMAIN w |-> w[q]] /\ DOMAIN w \subseteq Seq(Segment)
      /\ \A q \in Seq(Segment) : q \in DOMAIN w <=> p \o q \in DOMAIN e
      /\ \A q \in DOMAIN w : w[q] = e[p \o q]
  BY <1>2, ValueAtParts
<1> HIDE DEF w
<1>4. \A q \in Seq(Segment) : /\ p \o q \in Seq(Segment) /\ IsPrefix(p, p \o q)
                              /\ Drop(p \o q, Len(p)) = q
  BY PathBeyond
<1>5. \A q \in Seq(Segment) : q \in DOMAIN w <=> q \in DOMAIN v
  BY <1>2, <1>3, <1>4
<1>6. DOMAIN w = DOMAIN v
  BY <1>1, <1>3, <1>5
<1>7. \A q \in DOMAIN w : w[q] = v[q]
  BY <1>2, <1>3, <1>4
<1>8. w = v
  BY <1>1, <1>3, <1>6, <1>7
<1>9. p \in DOMAIN e
  <2>1. IsPrefix(p, p) /\ Drop(p, Len(p)) = Root
    BY PrefixOfItself, PathBeyond DEF Root
  <2> QED
    BY <1>1, <1>2, <2>1
<1> QED
  BY <1>8, <1>9 DEF w, e

\* The paths of a document whose elements have moved are paths.
LEMMA ShiftedPaths ==
  ASSUME NEW D, D \subseteq Seq(Segment), NEW p \in Seq(Segment),
         NEW i \in Int, NEW n \in Int, i + n >= 0
  PROVE  /\ {Shift(r, p, i, n) : r \in D} \subseteq Seq(Segment)
         /\ \A q \in Seq(Segment) : ~ IsStrictPrefix(p, q) =>
              (q \in {Shift(r, p, i, n) : r \in D} <=> q \in D)
<1>1. \A r \in Seq(Segment) : Shift(r, p, i, n) \in Seq(Segment)
  <2>1. ShiftsPaths(p, i, n)
    BY ShiftAll
  <2> QED
    BY <2>1 DEF ShiftsPaths
<1>2. ASSUME NEW q \in Seq(Segment), ~ IsStrictPrefix(p, q)
      PROVE  q \in {Shift(r, p, i, n) : r \in D} <=> q \in D
  <2>1. Shift(q, p, i, n) = q
    BY <1>2, ShiftStays
  <2>2. ASSUME NEW r \in D, q = Shift(r, p, i, n) PROVE r = q
    <3>1. r \in Seq(Segment)
      OBVIOUS
    <3>2. IsStrictPrefix(p, Shift(r, p, i, n)) <=> IsStrictPrefix(p, r)
      BY <3>1, ShiftPath
    <3>3. ~ IsStrictPrefix(p, r)
      BY <1>2, <2>2, <3>2
    <3> QED
      BY <2>2, <3>3, ShiftStays
  <2> QED
    BY <2>1, <2>2
<1> QED
  BY <1>1, <1>2

\* What set_path sets is the value at the path.
LEMMA SetThere ==
  ASSUME NEW d, IsDocument(d), NEW v, IsDocument(v), NEW p \in Seq(Segment)
  PROVE  p \in DOMAIN SetPath(d, p, v) /\ ValueAt(SetPath(d, p, v), p) = v
<1>1. DOMAIN d \subseteq Seq(Segment)
  BY DEF IsDocument
<1>2. CASE IsPlaceInArray(d, p) /\ p \notin DOMAIN d
  <2> DEFINE t == Front(p)
             h == Held(d[t])
             moved == [q \in {Shift(r, t, h, 1) : r \in DOMAIN d} |->
                         d[Shift(q, t, h + 1, -1)]]
             e == [moved EXCEPT ![t] = Array(Held(@) + 1)]
  <2>1. t \in DOMAIN d /\ Variant(d[t]) = "Array" /\ p = Append(t, Index(h)) /\ h \in Nat
    BY <1>2, PlaceAtEnd
  <2>2. t \in Seq(Segment) /\ h \in Int /\ 1 \in Int /\ h + 1 >= 0
    BY <1>1, <2>1
  <2>3. {Shift(r, t, h, 1) : r \in DOMAIN d} \subseteq Seq(Segment)
    <3>1. ShiftsPaths(t, h, 1)
      BY <2>2, ShiftAll
    <3>2. \A r \in DOMAIN d : Shift(r, t, h, 1) \in Seq(Segment)
      BY <1>1, <3>1 DEF ShiftsPaths
    <3> QED
      BY <3>2
  <2>4. DOMAIN e \subseteq Seq(Segment)
    BY <2>3
  <2>5. SetPath(d, p, v) = InsertElement(d, t, h, v)
    BY <1>2 DEF SetPath
  <2>6. InsertElement(d, t, h, v) = Put(e, Append(t, Index(h)), v)
    BY DEF InsertElement
  <2>7. SetPath(d, p, v) = Put(e, p, v)
    BY <2>1, <2>5, <2>6
  <2> HIDE DEF e
  <2> QED
    BY <2>4, <2>7, PutThere
<1>3. CASE ~ (IsPlaceInArray(d, p) /\ p \notin DOMAIN d)
  BY <1>1, <1>3, PutThere DEF SetPath
<1> QED
  BY <1>2, <1>3

\* After Set, Replace, Copy and Move the value is found at the path of the
\* operation, whatever took its place before.
THEOREM AlwaysReadBack == Spec => ReadBack
<1> DEFINE There == /\ last'.path \in DOMAIN doc'
                    /\ ValueAt(doc', last'.path) = Placed(last')
<1>1. ASSUME TypeOK, [Next]_vars, Applies({"Set", "Replace", "Copy", "Move"})
      PROVE  There
  <2> DEFINE op == last'
  <2>1. /\ IsOp(op) /\ Apply(op) /\ applied' # applied
        /\ op.kind \in {"Set", "Replace", "Copy", "Move"}
    BY <1>1, AppliesOne
  <2>2. op.path \in Seq(Segment) /\ IsDocument(doc) /\ (op.value # Missing => IsDocument(op.value))
    BY <1>1, <2>1, OpsAreOps DEF TypeOK, IsOp, IsValue
  <2>3. ASSUME NEW d, IsDocument(d), NEW v, IsDocument(v), Place(d, op.path, v), v = Placed(op)
        PROVE  There
    <3>1. doc' = SetPath(d, op.path, v)
      BY <2>1, <2>3 DEF Place, Becomes, Fails
    <3>2. /\ op.path \in DOMAIN SetPath(d, op.path, v)
          /\ ValueAt(SetPath(d, op.path, v), op.path) = v
      BY <2>2, <2>3, SetThere
    <3> QED
      BY <2>3, <3>1, <3>2
  <2>4. CASE op.kind \in {"Set", "Replace"}
    <3>1. op.value # Missing /\ Place(doc, op.path, op.value)
      BY <2>1, <2>4, ByKind DEF SetOp, Lacks, Fails
    <3>2. Placed(op) = op.value
      BY <2>4 DEF Placed
    <3> QED
      BY <2>2, <2>3, <3>1, <3>2
  <2>5. ASSUME op.from \in DOMAIN doc
        PROVE  IsDocument(ValueAt(doc, op.from)) /\ IsDocument(RemovePath(doc, op.from))
    <3>1. op.from \in Seq(Segment)
      BY <2>2, <2>5 DEF IsDocument
    <3> QED
      BY <2>2, <2>5, <3>1, ValueAtDocument, ThereCanRemove, RemovePathDocument
  <2>6. CASE op.kind = "Move"
    <3>1. /\ op.from \in DOMAIN doc
          /\ Place(RemovePath(doc, op.from), op.path, ValueAt(doc, op.from))
      BY <2>1, <2>6, ByKind DEF MoveOp, Lacks, Nowhere, Fails
    <3>2. Placed(op) = ValueAt(doc, op.from)
      BY <2>6 DEF Placed
    <3> QED
      BY <2>3, <2>5, <3>1, <3>2
  <2>7. CASE op.kind = "Copy"
    <3>1. op.from \in DOMAIN doc /\ Place(doc, op.path, ValueAt(doc, op.from))
      BY <2>1, <2>7, ByKind DEF CopyOp, Lacks, Nowhere, Fails
    <3>2. Placed(op) = ValueAt(doc, op.from)
      BY <2>7 DEF Placed
    <3> QED
      BY <2>2, <2>3, <2>5, <3>1, <3>2
  <2> QED
    BY <2>1, <2>4, <2>6, <2>7
<1>2. TypeOK /\ [Next]_vars =>
        [Applies({"Set", "Replace", "Copy", "Move"}) => There]_vars
  BY <1>1
<1> QED
  BY <1>2, TypeAlwaysOK, PTL DEF Spec, ReadBack
-----------------------------------------------------------------------------
(***************************************************************************)
(* What an operation leaves alone.                                         *)
(***************************************************************************)
\* d and e agree on what does not lie at or below p.
SameBut(d, e, p) ==
  \A q \in Seq(Segment) : ~ IsPrefix(p, q) =>
    /\ q \in DOMAIN e <=> q \in DOMAIN d
    /\ q \in DOMAIN d => e[q] = d[q]

\* Agreeing but at p, two documents agree but at what comes before p.
LEMMA SameAbove ==
  ASSUME NEW d, NEW e, NEW p \in Seq(Segment), SameBut(d, e, p),
         NEW t \in Seq(Segment), IsPrefix(t, p)
  PROVE  SameBut(d, e, t)
<1>1. \A q \in Seq(Segment) : IsPrefix(p, q) => IsPrefix(t, q)
  BY PrefixOfPrefix
<1> QED
  BY <1>1 DEF SameBut

\* Put changes nothing elsewhere.
LEMMA PutSame ==
  ASSUME NEW d, DOMAIN d \subseteq Seq(Segment), NEW v, DOMAIN v \subseteq Seq(Segment),
         NEW p \in Seq(Segment)
  PROVE  SameBut(d, Put(d, p, v), p)
<1> DEFINE e == Put(d, p, v)
<1>1. /\ \A q \in Seq(Segment) :
           q \in DOMAIN e <=> IF IsPrefix(p, q) THEN Drop(q, Len(p)) \in DOMAIN v
                              ELSE q \in DOMAIN d
      /\ \A q \in DOMAIN e :
           e[q] = IF IsPrefix(p, q) THEN v[Drop(q, Len(p))] ELSE d[q]
  BY PutParts
<1> QED
  BY <1>1 DEF SameBut

\* Vec::insert changes nothing outside the array.
LEMMA InsertSame ==
  ASSUME NEW d, IsDocument(d), NEW p \in DOMAIN d, Variant(d[p]) = "Array",
         NEW i \in Nat, NEW v, IsDocument(v)
  PROVE  SameBut(d, InsertElement(d, p, i, v), p)
<1> DEFINE paths == {Shift(r, p, i, 1) : r \in DOMAIN d}
           moved == [q \in paths |-> d[Shift(q, p, i + 1, -1)]]
           e == [moved EXCEPT ![p] = Array(Held(@) + 1)]
           hole == Append(p, Index(i))
<1>1. /\ DOMAIN d \subseteq Seq(Segment) /\ DOMAIN v \subseteq Seq(Segment)
      /\ p \in Seq(Segment) /\ i \in Int /\ 1 \in Int /\ i + 1 >= 0
  BY DEF IsDocument
<1>2. /\ paths \subseteq Seq(Segment)
      /\ \A q \in Seq(Segment) : ~ IsStrictPrefix(p, q) => (q \in paths <=> q \in DOMAIN d)
  BY <1>1, ShiftedPaths
<1>3. /\ DOMAIN e = paths
      /\ \A q \in paths : q # p => e[q] = d[Shift(q, p, i + 1, -1)]
  OBVIOUS
<1>4. InsertElement(d, p, i, v) = Put(e, hole, v)
  BY DEF InsertElement
<1> HIDE DEF paths, e
<1>5. hole \in Seq(Segment) /\ IsPrefix(p, hole)
  <2>1. Index(i) \in Segment /\ IsPrefix(p, p)
    BY <1>1, SegmentKinds, PrefixOfItself
  <2> QED
    BY <1>1, <2>1, PathEnds, PrefixOfLonger
<1>6. SameBut(e, Put(e, hole, v), hole)
  BY <1>1, <1>2, <1>3, <1>5, PutSame
<1>7. SameBut(e, Put(e, hole, v), p)
  BY <1>1, <1>5, <1>6, SameAbove
<1>8. ASSUME NEW q \in Seq(Segment), ~ IsPrefix(p, q)
      PROVE  (q \in DOMAIN e <=> q \in DOMAIN d) /\ (q \in DOMAIN d => e[q] = d[q])
  <2>1. ~ IsStrictPrefix(p, q) /\ q # p
    BY <1>1, <1>8, PrefixOfItself DEF IsStrictPrefix
  <2>2. Shift(q, p, i + 1, -1) = q
    BY <2>1, ShiftStays
  <2> QED
    BY <1>2, <1>3, <2>1, <2>2
<1> QED
  BY <1>4, <1>7, <1>8 DEF SameBut

\* Vec::remove changes nothing outside the array.
LEMMA RemoveSame ==
  ASSUME NEW d, IsDocument(d), NEW p \in DOMAIN d, Variant(d[p]) = "Array", NEW i \in Nat
  PROVE  SameBut(d, RemoveElement(d, p, i), p)
<1> DEFINE gone == Append(p, Index(i))
           cut == Cut(d, gone)
           paths == {Shift(r, p, i + 1, -1) : r \in DOMAIN cut}
           e == [q \in paths |->
                   IF q = p THEN Array(Held(d[p]) - 1) ELSE cut[Shift(q, p, i, 1)]]
<1>1. /\ DOMAIN d \subseteq Seq(Segment) /\ p \in Seq(Segment)
      /\ i + 1 \in Int /\ -1 \in Int /\ (i + 1) + -1 >= 0
  BY DEF IsDocument
<1>2. gone \in Seq(Segment) /\ IsPrefix(p, gone)
  <2>1. Index(i) \in Segment /\ IsPrefix(p, p)
    BY <1>1, SegmentKinds, PrefixOfItself
  <2> QED
    BY <1>1, <2>1, PathEnds, PrefixOfLonger
<1> HIDE DEF gone
<1>3. /\ \A q : q \in DOMAIN cut <=> q \in DOMAIN d /\ ~ IsPrefix(gone, q)
      /\ \A q \in DOMAIN cut : cut[q] = d[q]
  BY <1>2, CutParts
<1>4. RemoveElement(d, p, i) = e
  BY DEF RemoveElement, gone
<1> HIDE DEF cut
<1>5. \A q \in Seq(Segment) : ~ IsStrictPrefix(p, q) => (q \in paths <=> q \in DOMAIN cut)
  <2>1. DOMAIN cut \subseteq Seq(Segment)
    BY <1>1, <1>3
  <2> QED
    BY <1>1, <2>1, ShiftedPaths
<1>6. DOMAIN e = paths /\ \A q \in paths : q # p => e[q] = cut[Shift(q, p, i, 1)]
  OBVIOUS
<1> HIDE DEF paths, e
<1>7. ASSUME NEW q \in Seq(Segment), ~ IsPrefix(p, q)
      PROVE  (q \in DOMAIN e <=> q \in DOMAIN d) /\ (q \in DOMAIN d => e[q] = d[q])
  <2>1. ~ IsStrictPrefix(p, q) /\ q # p
    BY <1>1, <1>7, PrefixOfItself DEF IsStrictPrefix
  <2>2. Shift(q, p, i, 1) = q
    BY <2>1, ShiftStays
  <2>3. ~ IsPrefix(gone, q)
    BY <1>1, <1>2, <1>7, PrefixOfPrefix
  <2> QED
    BY <1>3, <1>5, <1>6, <2>1, <2>2, <2>3
<1> QED
  BY <1>4, <1>7 DEF SameBut

\* Merge changes nothing outside the object.
LEMMA MergedSame ==
  ASSUME NEW d, IsDocument(d), NEW p \in DOMAIN d, NEW v, IsDocument(v)
  PROVE  SameBut(d, Merged(d, p, v), p)
<1> DEFINE e == Merged(d, p, v)
<1>1. /\ DOMAIN d \subseteq Seq(Segment) /\ DOMAIN v \subseteq Seq(Segment)
      /\ p \in Seq(Segment)
  BY DEF IsDocument
<1>2. /\ \A q \in Seq(Segment) :
           q \in DOMAIN e <=> \/ Brought(q, p, v)
                              \/ q \in DOMAIN d /\ ~ Replaced(q, p, v)
      /\ \A q \in DOMAIN e :
           e[q] = IF Brought(q, p, v) THEN v[Drop(q, Len(p))] ELSE d[q]
  BY <1>1, MergedParts
<1> HIDE DEF e
<1>3. ASSUME NEW q \in Seq(Segment), ~ IsPrefix(p, q)
      PROVE  ~ Brought(q, p, v) /\ ~ Replaced(q, p, v)
  <2>1. ASSUME NEW k \in MemberKeys(v, Root) PROVE ~ IsPrefix(Append(p, Key(k)), q)
    <3>1. Key(k) \in Segment /\ IsPrefix(p, p)
      BY <1>1, SegmentKinds, PrefixOfItself DEF MemberKeys
    <3>2. Append(p, Key(k)) \in Seq(Segment) /\ IsPrefix(p, Append(p, Key(k)))
      BY <1>1, <3>1, PathEnds, PrefixOfLonger
    <3> QED
      BY <1>1, <1>3, <3>2, PrefixOfPrefix
  <2> QED
    BY <1>3, <2>1 DEF Brought, Replaced
<1> QED
  BY <1>1, <1>2, <1>3 DEF SameBut, e

\* The array a path is a position in, for others the path itself.
ScopeIn(d, p) == IF IsPlaceInArray(d, p) THEN Front(p) ELSE p

\* The scope of a path comes before it.
LEMMA ScopeAbove ==
  ASSUME NEW d, NEW p \in Seq(Segment)
  PROVE  ScopeIn(d, p) \in Seq(Segment) /\ IsPrefix(ScopeIn(d, p), p)
<1>1. IsPrefix(p, p)
  BY PrefixOfItself
<1>2. ASSUME IsPlaceInArray(d, p)
      PROVE  Front(p) \in Seq(Segment) /\ IsPrefix(Front(p), p)
  <2>1. /\ Front(p) \in Seq(Segment) /\ Last(p) \in Segment
        /\ Append(Front(p), Last(p)) = p
    BY <1>2, PathSplits DEF IsPlaceInArray, Root
  <2>2. IsPrefix(Front(p), Front(p))
    BY <2>1, PrefixOfItself
  <2>3. IsPrefix(Front(p), Append(Front(p), Last(p)))
    BY <2>1, <2>2, PrefixOfLonger
  <2> QED
    BY <2>1, <2>3
<1> QED
  BY <1>1, <1>2 DEF ScopeIn

\* set_path changes nothing outside the scope of its path.
LEMMA SetSame ==
  ASSUME NEW d, IsDocument(d), NEW p \in Seq(Segment), NEW v, IsDocument(v)
  PROVE  SameBut(d, SetPath(d, p, v), ScopeIn(d, p))
<1>1. DOMAIN d \subseteq Seq(Segment) /\ DOMAIN v \subseteq Seq(Segment)
  BY DEF IsDocument
<1>2. CASE IsPlaceInArray(d, p) /\ p \notin DOMAIN d
  <2>1. /\ Front(p) \in DOMAIN d /\ Variant(d[Front(p)]) = "Array"
        /\ Held(d[Front(p)]) \in Nat
    BY <1>2, PlaceAtEnd
  <2>2. SameBut(d, InsertElement(d, Front(p), Held(d[Front(p)]), v), Front(p))
    BY <2>1, InsertSame
  <2> QED
    BY <1>2, <2>2 DEF SetPath, ScopeIn
<1>3. CASE ~ (IsPlaceInArray(d, p) /\ p \notin DOMAIN d)
  <2>1. SameBut(d, Put(d, p, v), p)
    BY <1>1, PutSame
  <2>2. SameBut(d, Put(d, p, v), ScopeIn(d, p))
    BY <2>1, ScopeAbove, SameAbove
  <2> QED
    BY <1>3, <2>2 DEF SetPath
<1> QED
  BY <1>2, <1>3

\* remove_path changes nothing outside the scope of its path.
LEMMA RemovePathSame ==
  ASSUME NEW d, IsDocument(d), NEW p \in Seq(Segment)
  PROVE  SameBut(d, RemovePath(d, p), ScopeIn(d, p))
<1>1. CASE p = Root
  <2>1. ScopeIn(d, p) = Root
    BY <1>1 DEF ScopeIn, IsPlaceInArray
  <2>2. \A q \in Seq(Segment) : IsPrefix(Root, q)
    BY PrefixOfItself DEF Root
  <2> QED
    BY <2>1, <2>2 DEF SameBut
<1>2. CASE p # Root /\ IsPlaceInArray(d, p)
  <2>1. /\ Front(p) \in DOMAIN d /\ Variant(d[Front(p)]) = "Array"
        /\ Last(p)[2] \in Nat
    BY <1>2, PlaceAtEnd
  <2>2. SameBut(d, RemoveElement(d, Front(p), Last(p)[2]), Front(p))
    BY <2>1, RemoveSame
  <2> QED
    BY <1>2, <2>2 DEF RemovePath, ScopeIn
<1>3. CASE p # Root /\ ~ IsPlaceInArray(d, p)
  <2>1. SameBut(d, Cut(d, p), p)
    BY CutParts DEF SameBut
  <2> QED
    BY <1>3, <2>1 DEF RemovePath, ScopeIn
<1> QED
  BY <1>1, <1>2, <1>3

\* A change at the path of an operation is one in its scope.
LEMMA SetScope ==
  ASSUME IsDocument(doc), NEW op, IsOp(op), NEW d, SameBut(doc, d, op.path)
  PROVE  SameBut(doc, d, Scope(op.path))
<1>1. op.path \in Seq(Segment)
  BY DEF IsOp
<1>2. SameBut(doc, d, ScopeIn(doc, op.path))
  BY <1>1, ScopeAbove, SameAbove
<1> QED
  BY <1>2 DEF Scope, ScopeIn

\* Taking the value at from out may change what the path of a Move leads to:
\* only when the path leads through what the removal changed.
LEMMA MoveSame ==
  ASSUME NEW d, IsDocument(d), NEW from \in DOMAIN d, NEW p \in Seq(Segment),
         NEW v, IsDocument(v), NEW q \in Seq(Segment),
         ~ IsPrefix(ScopeIn(d, from), q), ~ IsPrefix(ScopeIn(d, p), q),
         NEW e, e = SetPath(RemovePath(d, from), p, v)
  PROVE  /\ q \in DOMAIN e <=> q \in DOMAIN d
         /\ q \in DOMAIN d => e[q] = d[q]
<1> DEFINE c == RemovePath(d, from)
<1>1. from \in Seq(Segment)
  BY DEF IsDocument
<1>2. IsDocument(c) /\ SameBut(d, c, ScopeIn(d, from))
  BY <1>1, ThereCanRemove, RemovePathDocument, RemovePathSame
<1> HIDE DEF c
<1>3. SameBut(c, e, ScopeIn(c, p))
  <2>1. SameBut(c, SetPath(c, p, v), ScopeIn(c, p))
    BY <1>2, SetSame
  <2> QED
    BY <2>1 DEF c
<1>4. ~ IsPrefix(ScopeIn(c, p), q)
  <2> SUFFICES ASSUME IsPrefix(ScopeIn(c, p), q) PROVE FALSE
    OBVIOUS
  <2>1. CASE ~ IsPlaceInArray(c, p)
    <3>1. ScopeIn(c, p) = p
      BY <2>1 DEF ScopeIn
    <3>2. ScopeIn(d, p) \in Seq(Segment) /\ IsPrefix(ScopeIn(d, p), p)
      BY ScopeAbove
    <3> QED
      BY <3>1, <3>2, PrefixOfPrefix
  <2>2. CASE IsPlaceInArray(c, p)
    <3>1. ScopeIn(c, p) = Front(p) /\ Front(p) \in Seq(Segment)
      BY <2>2, ScopeAbove DEF ScopeIn
    <3>2. ~ IsPlaceInArray(d, p)
      BY <3>1 DEF ScopeIn
    <3>3. ScopeIn(d, from) \in Seq(Segment)
      BY <1>1, ScopeAbove
    <3>4. CASE IsPrefix(ScopeIn(d, from), Front(p))
      BY <3>1, <3>3, <3>4, PrefixOfPrefix
    <3>5. CASE ~ IsPrefix(ScopeIn(d, from), Front(p))
      <4>1. /\ Front(p) \in DOMAIN c <=> Front(p) \in DOMAIN d
            /\ Front(p) \in DOMAIN d => c[Front(p)] = d[Front(p)]
        BY <1>2, <3>1, <3>5 DEF SameBut
      <4> QED
        BY <2>2, <3>2, <4>1 DEF IsPlaceInArray
    <3> QED
      BY <3>4, <3>5
  <2> QED
    BY <2>1, <2>2
<1> QED
  BY <1>2, <1>3, <1>4 DEF SameBut

\* An operation changes nothing outside the place it names, or the two places
\* in the case of Move; in an array, the place is the array.
THEOREM ElsewhereAlwaysUnchanged == Spec => ElsewhereUnchanged
<1> DEFINE Elsewhere ==
             \A q \in DOMAIN doc \cup DOMAIN doc' :
               \/ \E p \in Scopes(last') : IsPrefix(p, q)
               \/ q \in DOMAIN doc /\ q \in DOMAIN doc' /\ doc'[q] = doc[q]
<1>1. ASSUME TypeOK, [Next]_vars, Applies(DeltaOpKind)
      PROVE  Elsewhere
  <2> DEFINE op == last'
  <2>1. IsOp(op) /\ Apply(op) /\ applied' # applied /\ op.kind \in DeltaOpKind
    BY <1>1, AppliesOne
  <2>2. /\ op.path \in Seq(Segment) /\ IsDocument(doc)
        /\ op.value # Missing => IsDocument(op.value)
    BY <1>1, <2>1, OpsAreOps DEF TypeOK, IsOp, IsValue
  <2>3. IsDocument(doc')
    BY <2>1, <2>2, ApplyKeeps DEF Keeps
  <2>4. DOMAIN doc \cup DOMAIN doc' \subseteq Seq(Segment)
    BY <2>2, <2>3 DEF IsDocument
  <2>5. ASSUME SameBut(doc, doc', Scope(op.path)) PROVE Elsewhere
    <3>1. Scope(op.path) \in Scopes(op)
      BY DEF Scopes
    <3>2. ASSUME NEW q \in DOMAIN doc \cup DOMAIN doc', ~ IsPrefix(Scope(op.path), q)
          PROVE  q \in DOMAIN doc /\ q \in DOMAIN doc' /\ doc'[q] = doc[q]
      BY <2>4, <2>5, <3>2 DEF SameBut
    <3> QED
      BY <3>1, <3>2
  <2>6. ASSUME SameBut(doc, doc', op.path) PROVE Elsewhere
    BY <2>1, <2>2, <2>5, <2>6, SetScope
  <2>7. \A code : ~ Fails(code)
    BY <2>1 DEF Fails
  <2>8. ASSUME NEW v, IsDocument(v), Place(doc, op.path, v) PROVE Elsewhere
    <3>1. doc' = SetPath(doc, op.path, v)
      BY <2>7, <2>8 DEF Place, Becomes
    <3>2. SameBut(doc, SetPath(doc, op.path, v), ScopeIn(doc, op.path))
      BY <2>2, <2>8, SetSame
    <3> QED
      BY <2>5, <3>1, <3>2 DEF Scope, ScopeIn
  <2>9. ASSUME NEW i \in Nat, IntoArray(op, i) PROVE Elsewhere
    <3>1. /\ op.value # Missing /\ op.path \in DOMAIN doc
          /\ Variant(doc[op.path]) = "Array"
          /\ doc' = InsertElement(doc, op.path, i, op.value)
      BY <2>7, <2>9 DEF IntoArray, Lacks, Nowhere, Mismatch, At, Becomes
    <3>2. SameBut(doc, doc', op.path)
      BY <2>2, <3>1, InsertSame
    <3> QED
      BY <2>6, <3>2
  <2>10. CASE SetOp(op)
    BY <2>2, <2>7, <2>8, <2>10 DEF SetOp, Lacks
  <2>11. CASE RemoveOp(op)
    <3>1. doc' = RemovePath(doc, op.path)
      BY <2>7, <2>11 DEF RemoveOp, Becomes
    <3>2. SameBut(doc, RemovePath(doc, op.path), ScopeIn(doc, op.path))
      BY <2>2, RemovePathSame
    <3> QED
      BY <2>5, <3>1, <3>2 DEF Scope, ScopeIn
  <2>12. CASE AppendOp(op)
    <3>1. op.path \in DOMAIN doc /\ Variant(doc[op.path]) = "Array"
      BY <2>7, <2>12 DEF AppendOp, IntoArray, Lacks, Nowhere, Mismatch, At
    <3>2. LengthAt(op.path) \in Nat
      BY <2>2, <3>1, ElementsOf DEF LengthAt
    <3> QED
      BY <2>9, <2>12, <3>2 DEF AppendOp
  <2>13. CASE PrependOp(op)
    BY <2>9, <2>13 DEF PrependOp
  <2>14. CASE InsertOp(op)
    <3>1. op.index # Missing /\ IntoArray(op, op.index)
      BY <2>7, <2>14 DEF InsertOp, Lacks
    <3>2. op.index \in Nat
      BY <2>1, <3>1 DEF IsOp
    <3> QED
      BY <2>9, <3>1, <3>2
  <2>15. CASE CountOp(op)
    <3>1. \E node : doc' = [doc EXCEPT ![op.path] = node]
      BY <2>7, <2>15 DEF CountOp, Nowhere, Mismatch, Becomes
    <3>2. PICK node : doc' = [doc EXCEPT ![op.path] = node]
      BY <3>1
    <3>3. \A q \in Seq(Segment) : ~ IsPrefix(op.path, q) => q # op.path
      BY <2>2, PrefixOfItself
    <3>4. doc = [q \in DOMAIN doc |-> doc[q]]
      BY <2>2 DEF IsDocument
    <3>5. SameBut(doc, doc', op.path)
      BY <3>2, <3>3, <3>4 DEF SameBut
    <3> QED
      BY <2>6, <3>5
  <2>16. CASE MergeOp(op)
    <3>1. /\ op.value # Missing /\ op.path \in DOMAIN doc
          /\ doc' = Merged(doc, op.path, op.value)
      BY <2>7, <2>16 DEF MergeOp, Lacks, Nowhere, Mismatch, At, Becomes
    <3>2. SameBut(doc, doc', op.path)
      BY <2>2, <3>1, MergedSame
    <3> QED
      BY <2>6, <3>2
  <2>17. CASE MoveOp(op)
    <3> DEFINE v == ValueAt(doc, op.from)
    <3>1. /\ op.from \in DOMAIN doc /\ op.kind = "Move"
          /\ Place(RemovePath(doc, op.from), op.path, v)
      BY <2>7, <2>17 DEF MoveOp, Lacks, Nowhere
    <3>2. doc' = SetPath(RemovePath(doc, op.from), op.path, v)
      BY <2>7, <3>1 DEF Place, Becomes
    <3>3. IsDocument(v)
      BY <2>2, <3>1, ValueAtDocument
    <3> HIDE DEF v
    <3>4. Scope(op.path) \in Scopes(op) /\ Scope(op.from) \in Scopes(op)
      BY <3>1 DEF Scopes
    <3>5. ASSUME NEW q \in DOMAIN doc \cup DOMAIN doc',
                 ~ IsPrefix(Scope(op.path), q), ~ IsPrefix(Scope(op.from), q)
          PROVE  q \in DOMAIN doc /\ q \in DOMAIN doc' /\ doc'[q] = doc[q]
      <4>1. ~ IsPrefix(ScopeIn(doc, op.path), q) /\ ~ IsPrefix(ScopeIn(doc, op.from), q)
        BY <3>5 DEF Scope, ScopeIn
      <4>2. q \in Seq(Segment)
        BY <2>4
      <4>3. (q \in DOMAIN doc' <=> q \in DOMAIN doc) /\ (q \in DOMAIN doc => doc'[q] = doc[q])
        BY <2>2, <3>1, <3>2, <3>3, <4>1, <4>2, MoveSame
      <4> QED
        BY <4>3
    <3> QED
      BY <3>4, <3>5
  <2>18. CASE CopyOp(op)
    <3>1. op.from \in DOMAIN doc /\ Place(doc, op.path, ValueAt(doc, op.from))
      BY <2>7, <2>18 DEF CopyOp, Lacks, Nowhere
    <3>2. IsDocument(ValueAt(doc, op.from))
      BY <2>2, <3>1, ValueAtDocument
    <3> QED
      BY <2>8, <3>1, <3>2
  <2>19. CASE ClearOp(op)
    <3> DEFINE v == Leaf(Empty(Variant(doc[op.path])))
    <3>1. doc' = Put(doc, op.path, v)
      BY <2>7, <2>19 DEF ClearOp, Nowhere, Mismatch, Becomes
    <3>2. DOMAIN v \subseteq Seq(Segment) /\ DOMAIN doc \subseteq Seq(Segment)
      BY <2>2 DEF Leaf, Root, IsDocument
    <3> HIDE DEF v
    <3>3. SameBut(doc, Put(doc, op.path, v), op.path)
      BY <2>2, <3>2, PutSame
    <3> QED
      BY <2>6, <3>1, <3>3
  <2> QED
    BY <2>1, <2>10, <2>11, <2>12, <2>13, <2>14, <2>15, <2>16, <2>17, <2>18, <2>19 DEF Apply
<1>2. TypeOK /\ [Next]_vars => [Applies(DeltaOpKind) => Elsewhere]_vars
  BY <1>1
<1> QED
  BY <1>2, TypeAlwaysOK, PTL DEF Spec, ElsewhereUnchanged
-----------------------------------------------------------------------------
(***************************************************************************)
(* Documents are finite, and what is moved is neither lost nor duplicated. *)
(***************************************************************************)
\* The values of a function with a finite domain.
LEMMA FiniteValues ==
  ASSUME NEW f, IsFiniteSet(DOMAIN f), f = [x \in DOMAIN f |-> f[x]]
  PROVE  IsFiniteSet({f[x] : x \in DOMAIN f})
<1> DEFINE T == {f[x] : x \in DOMAIN f}
<1>1. f \in Surjection(DOMAIN f, T)
  BY DEF Surjection
<1> QED
  BY <1>1, FS_Surjection

\* As many paths at the most as there were are left when they are all joined to
\* another, or relieved of what comes before them.
LEMMA FinitePaths ==
  ASSUME NEW D, IsFiniteSet(D), NEW p, NEW n
  PROVE  IsFiniteSet({p \o r : r \in D}) /\ IsFiniteSet({Drop(r, n) : r \in D})
<1> DEFINE join == [r \in D |-> p \o r]
           drop == [r \in D |-> Drop(r, n)]
<1>1. /\ IsFiniteSet({join[r] : r \in DOMAIN join})
      /\ IsFiniteSet({drop[r] : r \in DOMAIN drop})
  BY FiniteValues
<1>2. /\ {join[r] : r \in DOMAIN join} = {p \o r : r \in D}
      /\ {drop[r] : r \in DOMAIN drop} = {Drop(r, n) : r \in D}
  OBVIOUS
<1> QED
  BY <1>1, <1>2

\* The parts of a finite document are finite.
LEMMA FiniteParts ==
  ASSUME NEW d, IsFiniteSet(DOMAIN d), NEW p
  PROVE  IsFiniteSet(DOMAIN Cut(d, p)) /\ IsFiniteSet(DOMAIN ValueAt(d, p))
<1>1. IsFiniteSet(DOMAIN d \ Below(d, p)) /\ IsFiniteSet(Below(d, p))
  BY FS_Subset DEF Below
<1>2. IsFiniteSet({Drop(r, Len(p)) : r \in Below(d, p)})
  BY <1>1, FinitePaths
<1> QED
  BY <1>1, <1>2 DEF Cut, ValueAt

\* A finite document stays finite when a finite one is put, inserted or merged
\* into it, and when something is removed.
LEMMA FiniteResults ==
  ASSUME NEW d, IsFiniteSet(DOMAIN d), NEW v, IsFiniteSet(DOMAIN v), NEW p, NEW i
  PROVE  /\ IsFiniteSet(DOMAIN Put(d, p, v)) /\ IsFiniteSet(DOMAIN InsertElement(d, p, i, v))
         /\ IsFiniteSet(DOMAIN SetPath(d, p, v)) /\ IsFiniteSet(DOMAIN RemovePath(d, p))
         /\ IsFiniteSet(DOMAIN Merged(d, p, v))
<1>1. ASSUME NEW e, IsFiniteSet(DOMAIN e), NEW q PROVE IsFiniteSet(DOMAIN Put(e, q, v))
  <2>1. IsFiniteSet(DOMAIN e \ Below(e, q)) /\ IsFiniteSet({q \o r : r \in DOMAIN v})
    <3>1. IsFiniteSet(DOMAIN e \ Below(e, q))
      BY <1>1, FS_Subset
    <3> QED
      BY <3>1, FinitePaths
  <2>2. IsFiniteSet((DOMAIN e \ Below(e, q)) \cup {q \o r : r \in DOMAIN v})
    BY <2>1, FS_Union
  <2> QED
    BY <2>2 DEF Put
<1>2. ASSUME NEW q, NEW j PROVE IsFiniteSet(DOMAIN InsertElement(d, q, j, v))
  <2> DEFINE e == [[r \in {Shift(r, q, j, 1) : r \in DOMAIN d} |-> d[Shift(r, q, j + 1, -1)]]
                     EXCEPT ![q] = Array(Held(@) + 1)]
  <2>1. IsFiniteSet(DOMAIN e)
    <3>1. IsFiniteSet({Shift(r, q, j, 1) : r \in DOMAIN d})
      <4> DEFINE f == [r \in DOMAIN d |-> Shift(r, q, j, 1)]
      <4>1. IsFiniteSet({f[r] : r \in DOMAIN f})
        BY FiniteValues
      <4>2. {f[r] : r \in DOMAIN f} = {Shift(r, q, j, 1) : r \in DOMAIN d}
        OBVIOUS
      <4> QED
        BY <4>1, <4>2
    <3> QED
      BY <3>1
  <2>2. InsertElement(d, q, j, v) = Put(e, Append(q, Index(j)), v)
    BY DEF InsertElement
  <2> HIDE DEF e
  <2> QED
    BY <1>1, <2>1, <2>2
<1>3. IsFiniteSet(DOMAIN SetPath(d, p, v))
  BY <1>1, <1>2 DEF SetPath
<1>4. IsFiniteSet(DOMAIN RemovePath(d, p))
  <2>1. IsFiniteSet(DOMAIN Leaf(Null))
    BY FS_Singleton DEF Leaf
  <2>2. ASSUME NEW q, NEW j PROVE IsFiniteSet(DOMAIN RemoveElement(d, q, j))
    <3> DEFINE cut == Cut(d, Append(q, Index(j)))
           f == [r \in DOMAIN cut |-> Shift(r, q, j + 1, -1)]
    <3>1. IsFiniteSet(DOMAIN cut)
      BY FiniteParts
    <3>2. IsFiniteSet({Shift(r, q, j + 1, -1) : r \in DOMAIN cut})
      <4> HIDE DEF cut
      <4>1. IsFiniteSet({f[r] : r \in DOMAIN f})
        BY <3>1, FiniteValues
      <4>2. {f[r] : r \in DOMAIN f} = {Shift(r, q, j + 1, -1) : r \in DOMAIN cut}
        OBVIOUS
      <4> QED
        BY <4>1, <4>2
    <3> QED
      BY <3>2 DEF RemoveElement
  <2> QED
    BY <2>1, <2>2, FiniteParts DEF RemovePath
<1>5. IsFiniteSet(DOMAIN Merged(d, p, v))
  <2> DEFINE replaced == UNION {Below(d, Append(p, Key(k))) : k \in MemberKeys(v, Root)}
             members == DOMAIN v \ {Root}
  <2>1. IsFiniteSet(DOMAIN d \ replaced) /\ IsFiniteSet({p \o r : r \in members})
    <3>1. IsFiniteSet(DOMAIN d \ replaced) /\ IsFiniteSet(members)
      BY FS_Subset
    <3> HIDE DEF replaced, members
    <3> QED
      BY <3>1, FinitePaths
  <2>2. DOMAIN Merged(d, p, v) = (DOMAIN d \ replaced) \cup {p \o r : r \in members}
    BY DEF Merged
  <2> HIDE DEF replaced, members
  <2> QED
    BY <2>1, <2>2, FS_Union
<1> QED
  BY <1>1, <1>2, <1>3, <1>4, <1>5

\* apply_op keeps the copy finite.
LEMMA ApplyFinite ==
  ASSUME NEW op, IsOp(op), Apply(op), IsFiniteSet(DOMAIN doc)
  PROVE  IsFiniteSet(DOMAIN doc')
<1>1. op.value # Missing => IsFiniteSet(DOMAIN op.value)
  BY DEF IsOp, IsValue
<1>2. ASSUME \E code : Fails(code) PROVE IsFiniteSet(DOMAIN doc')
  BY <1>2 DEF Fails
<1>3. \A p : IsFiniteSet(DOMAIN ValueAt(doc, p)) /\ IsFiniteSet(DOMAIN RemovePath(doc, p))
  <2>1. IsFiniteSet(DOMAIN Leaf(Null))
    BY FS_Singleton DEF Leaf
  <2> QED
    BY <2>1, FiniteParts, FiniteResults
<1>4. ASSUME NEW d, IsFiniteSet(DOMAIN d), NEW v, IsFiniteSet(DOMAIN v), NEW p,
             Place(d, p, v)
      PROVE  IsFiniteSet(DOMAIN doc')
  BY <1>2, <1>4, FiniteResults DEF Place, Becomes
<1>5. ASSUME NEW i, IntoArray(op, i) PROVE IsFiniteSet(DOMAIN doc')
  BY <1>1, <1>2, <1>5, FiniteResults
    DEF IntoArray, Lacks, Nowhere, Mismatch, Becomes
<1>6. CASE SetOp(op)
  BY <1>1, <1>2, <1>4, <1>6 DEF SetOp, Lacks
<1>7. CASE RemoveOp(op)
  BY <1>2, <1>3, <1>7 DEF RemoveOp, Becomes
<1>8. CASE AppendOp(op) \/ PrependOp(op) \/ InsertOp(op)
  BY <1>2, <1>5, <1>8 DEF AppendOp, PrependOp, InsertOp, Lacks
<1>9. CASE CountOp(op)
  BY <1>2, <1>9 DEF CountOp, Nowhere, Mismatch, Becomes
<1>10. CASE MergeOp(op)
  BY <1>1, <1>2, <1>10, FiniteResults DEF MergeOp, Lacks, Nowhere, Mismatch, Becomes
<1>11. CASE MoveOp(op) \/ CopyOp(op)
  BY <1>2, <1>3, <1>4, <1>11 DEF MoveOp, CopyOp, Lacks, Nowhere
<1>12. CASE ClearOp(op)
  <2>1. \A node : IsFiniteSet(DOMAIN Leaf(node))
    BY FS_Singleton DEF Leaf
  <2> QED
    BY <1>2, <1>12, <2>1, FiniteResults DEF ClearOp, Nowhere, Mismatch, Becomes
<1> QED
  BY <1>6, <1>7, <1>8, <1>9, <1>10, <1>11, <1>12 DEF Apply

\* The copy is finite, as the bases and the values of operations are.
LEMMA AlwaysFinite == Spec => [](TypeOK /\ IsFiniteSet(DOMAIN doc))
<1>1. Init => IsFiniteSet(DOMAIN doc)
  BY OpsAreOps DEF Init, IsValue
<1>2. IsFiniteSet(DOMAIN doc) /\ [Next]_vars => IsFiniteSet(DOMAIN doc)'
  BY ApplyFinite, OpsAreOps DEF Next, Step, Return, Done, vars
<1> QED
  BY <1>1, <1>2, TypeAlwaysOK, PTL DEF Spec

\* set_path at a path that leads nowhere yet adds the value and changes nothing
\* else, but the length of the array it is appended to.
LEMMA SetAtNew ==
  ASSUME NEW d, IsDocument(d), NEW v, IsDocument(v),
         NEW p \in Seq(Segment), p \notin DOMAIN d,
         NEW e, e = SetPath(d, p, v)
  PROVE  /\ DOMAIN e \subseteq Seq(Segment)
         /\ \A q \in Seq(Segment) :
              q \in DOMAIN e <=> IF IsPrefix(p, q) THEN Drop(q, Len(p)) \in DOMAIN v
                                 ELSE q \in DOMAIN d
         /\ \A q \in DOMAIN e :
              IF IsPrefix(p, q) THEN e[q] = v[Drop(q, Len(p))]
              ELSE e[q] = d[q] \/ (Variant(e[q]) = "Array" /\ Variant(d[q]) = "Array")
<1>1. DOMAIN d \subseteq Seq(Segment) /\ DOMAIN v \subseteq Seq(Segment)
  BY DEF IsDocument
<1>2. CASE IsPlaceInArray(d, p)
  <2> DEFINE t == Front(p)
             h == Held(d[t])
             moved == [q \in {Shift(r, t, h, 1) : r \in DOMAIN d} |->
                         d[Shift(q, t, h + 1, -1)]]
             c == [moved EXCEPT ![t] = Array(Held(@) + 1)]
  <2>1. t \in DOMAIN d /\ Variant(d[t]) = "Array" /\ p = Append(t, Index(h)) /\ h \in Nat
    BY <1>2, PlaceAtEnd
  <2>2. ASSUME NEW r \in DOMAIN d
        PROVE  Shift(r, t, h, 1) = r /\ Shift(r, t, h + 1, -1) = r
    <3>1. CASE IsStrictPrefix(t, r)
      <4>1. r[Len(t) + 1][2] \in 0..(h - 1)
        BY <2>1, <3>1, InElement
      <4>2. ~ (r[Len(t) + 1][2] >= h) /\ ~ (r[Len(t) + 1][2] >= h + 1)
        BY <2>1, <4>1
      <4> QED
        BY <4>2 DEF Shift
    <3> QED
      BY <3>1, ShiftStays
  <2>3. {Shift(r, t, h, 1) : r \in DOMAIN d} = DOMAIN d
    BY <2>2
  <2>4. /\ DOMAIN c = DOMAIN d
        /\ \A q \in DOMAIN d : q # t => c[q] = d[q]
        /\ Variant(c[t]) = "Array"
    BY <2>1, <2>2, <2>3 DEF Array, Variant
  <2>5. e = Put(c, p, v)
    BY <1>2, <2>1 DEF SetPath, InsertElement
  <2> HIDE DEF c, t
  <2>6. /\ DOMAIN e \subseteq Seq(Segment)
        /\ \A q \in Seq(Segment) :
             q \in DOMAIN e <=> IF IsPrefix(p, q) THEN Drop(q, Len(p)) \in DOMAIN v
                                ELSE q \in DOMAIN c
        /\ \A q \in DOMAIN e :
             e[q] = IF IsPrefix(p, q) THEN v[Drop(q, Len(p))] ELSE c[q]
    BY <1>1, <2>4, <2>5, PutParts
  <2> QED
    BY <2>1, <2>4, <2>6
<1>3. CASE ~ IsPlaceInArray(d, p)
  <2>1. e = Put(d, p, v)
    BY <1>3 DEF SetPath
  <2> QED
    BY <1>1, <2>1, PutParts
<1> QED
  BY <1>2, <1>3

\* Taken out of an object and set at a new path, a value brings every node along,
\* and each of the others stays: one to one.
LEMMA MovedOneToOne ==
  ASSUME NEW d, IsDocument(d), NEW from \in DOMAIN d, NEW p \in Seq(Segment),
         p \notin DOMAIN d, from # Root, NEW c, c = Cut(d, from), IsDocument(c),
         NEW e, e = SetPath(c, p, ValueAt(d, from)),
         NEW s, Variant(s) # "Array"
  PROVE  ExistsBijection({q \in DOMAIN d : d[q] = s}, {q \in DOMAIN e : e[q] = s})
<1> DEFINE v == ValueAt(d, from)
           S == {q \in DOMAIN d : d[q] = s}
           T == {q \in DOMAIN e : e[q] = s}
           f == [q \in S |-> IF IsPrefix(from, q) THEN p \o Drop(q, Len(from)) ELSE q]
<1>1. from \in Seq(Segment) /\ DOMAIN d \subseteq Seq(Segment)
  BY DEF IsDocument
<1>2. /\ \A q \in Seq(Segment) : q \in DOMAIN v <=> from \o q \in DOMAIN d
      /\ \A q \in DOMAIN v : v[q] = d[from \o q]
  BY <1>1, ValueAtParts
<1>3. /\ \A q : q \in DOMAIN c <=> q \in DOMAIN d /\ ~ IsPrefix(from, q)
      /\ \A q \in DOMAIN c : c[q] = d[q]
  BY <1>1, CutParts
<1>4. IsDocument(v)
  BY ValueAtDocument
<1> HIDE DEF v
<1>5. /\ DOMAIN e \subseteq Seq(Segment)
      /\ \A q \in Seq(Segment) :
           q \in DOMAIN e <=> IF IsPrefix(p, q) THEN Drop(q, Len(p)) \in DOMAIN v
                              ELSE q \in DOMAIN c
      /\ \A q \in DOMAIN e :
           IF IsPrefix(p, q) THEN e[q] = v[Drop(q, Len(p))]
           ELSE e[q] = c[q] \/ (Variant(e[q]) = "Array" /\ Variant(c[q]) = "Array")
  <2>1. p \notin DOMAIN c /\ e = SetPath(c, p, v)
    BY <1>3 DEF v
  <2> QED
    BY <1>4, <2>1, SetAtNew
<1>6. \A q \in DOMAIN d : ~ IsPrefix(p, q)
  BY OnTheWay
<1>7. \A t \in {p, from}, r \in Seq(Segment) :
        t \o r \in Seq(Segment) /\ IsPrefix(t, t \o r) /\ Drop(t \o r, Len(t)) = r
  BY <1>1, PathBeyond
<1>8. \A t \in {p, from}, q \in Seq(Segment) : IsPrefix(t, q) =>
        Drop(q, Len(t)) \in Seq(Segment) /\ t \o Drop(q, Len(t)) = q
  BY <1>1, PathRest
<1>9. ASSUME NEW q \in S PROVE f[q] \in T /\ (IsPrefix(p, f[q]) <=> IsPrefix(from, q))
  <2>1. q \in Seq(Segment) /\ q \in DOMAIN d /\ d[q] = s
    BY <1>1
  <2>2. CASE IsPrefix(from, q)
    <3> DEFINE r == Drop(q, Len(from))
    <3>1. r \in Seq(Segment) /\ from \o r = q
      BY <1>8, <2>1, <2>2
    <3>2. r \in DOMAIN v /\ v[r] = s
      BY <1>2, <2>1, <3>1
    <3>3. p \o r \in Seq(Segment) /\ IsPrefix(p, p \o r) /\ Drop(p \o r, Len(p)) = r
      BY <1>7, <3>1
    <3>4. f[q] = p \o r
      BY <2>2
    <3> HIDE DEF r
    <3>5. p \o r \in DOMAIN e /\ e[p \o r] = s
      BY <1>5, <3>2, <3>3
    <3> QED
      BY <2>2, <3>3, <3>4, <3>5
  <2>3. CASE ~ IsPrefix(from, q)
    <3>1. q \in DOMAIN c /\ c[q] = s /\ ~ IsPrefix(p, q)
      BY <1>3, <1>6, <2>1, <2>3
    <3>2. q \in DOMAIN e /\ e[q] = s
      BY <1>5, <2>1, <3>1
    <3> QED
      BY <2>3, <3>1, <3>2
  <2> QED
    BY <2>2, <2>3
<1>10. ASSUME NEW q \in S, NEW r \in S, f[q] = f[r] PROVE q = r
  <2>1. IsPrefix(from, q) <=> IsPrefix(from, r)
    BY <1>9, <1>10
  <2>2. q \in Seq(Segment) /\ r \in Seq(Segment)
    BY <1>1
  <2>3. CASE IsPrefix(from, q)
    <3>1. p \o Drop(q, Len(from)) = p \o Drop(r, Len(from))
      BY <1>10, <2>1, <2>3
    <3>2. /\ Drop(q, Len(from)) \in Seq(Segment) /\ from \o Drop(q, Len(from)) = q
          /\ Drop(r, Len(from)) \in Seq(Segment) /\ from \o Drop(r, Len(from)) = r
      BY <1>8, <2>1, <2>2, <2>3
    <3>3. Drop(q, Len(from)) = Drop(r, Len(from))
      BY <1>7, <3>1, <3>2
    <3> QED
      BY <3>2, <3>3
  <2>4. CASE ~ IsPrefix(from, q)
    BY <1>10, <2>1, <2>4
  <2> QED
    BY <2>3, <2>4
<1>11. ASSUME NEW t \in T PROVE \E q \in S : f[q] = t
  <2>1. t \in Seq(Segment) /\ t \in DOMAIN e /\ e[t] = s
    BY <1>5
  <2>2. CASE IsPrefix(p, t)
    <3> DEFINE r == Drop(t, Len(p))
    <3>1. r \in Seq(Segment) /\ p \o r = t
      BY <1>8, <2>1, <2>2
    <3>2. r \in DOMAIN v /\ v[r] = s
      BY <1>5, <2>1, <2>2
    <3>3. from \o r \in DOMAIN d /\ d[from \o r] = s
      BY <1>2, <3>1, <3>2
    <3>4. IsPrefix(from, from \o r) /\ Drop(from \o r, Len(from)) = r
      BY <1>7, <3>1
    <3> HIDE DEF r
    <3>5. f[from \o r] = t
      BY <3>1, <3>3, <3>4
    <3> QED
      BY <3>3, <3>5
  <2>3. CASE ~ IsPrefix(p, t)
    <3>1. t \in DOMAIN c /\ c[t] = s
      BY <1>5, <2>1, <2>3
    <3>2. t \in S /\ ~ IsPrefix(from, t)
      BY <1>3, <3>1
    <3> QED
      BY <3>2
  <2> QED
    BY <2>2, <2>3
<1>12. f \in Bijection(S, T)
  <2>1. f \in [S -> T]
    BY <1>9
  <2>2. f \in Injection(S, T)
    BY <1>10, <2>1 DEF Injection, IsInjective
  <2>3. f \in Surjection(S, T)
    BY <1>11, <2>1 DEF Surjection
  <2> QED
    BY <2>2, <2>3 DEF Bijection
<1> QED
  BY <1>12 DEF ExistsBijection

\* Move loses no node and duplicates none, when it takes a member out of an
\* object and sets it where nothing was.
THEOREM MoveAlwaysConserves == Spec => MoveConserves
<1> DEFINE Conserves ==
             \A s \in {doc[q] : q \in DOMAIN doc} :
               Variant(s) # "Array" => HowMany(doc', s) = HowMany(doc, s)
<1>1. ASSUME TypeOK, IsFiniteSet(DOMAIN doc), [Next]_vars, Applies({"Move"}),
             last'.from # Root, IsKeyOfObject(doc, last'.from), last'.path \notin DOMAIN doc
      PROVE  Conserves
  <2> DEFINE op == last'
             v == ValueAt(doc, op.from)
             c == Cut(doc, op.from)
  <2>1. IsOp(op) /\ Apply(op) /\ applied' # applied /\ op.kind = "Move"
    BY <1>1, AppliesOne
  <2>2. MoveOp(op) /\ \A code : ~ Fails(code)
    BY <2>1, ByKind DEF Fails
  <2>3. op.from \in DOMAIN doc /\ Place(RemovePath(doc, op.from), op.path, v)
    BY <2>2 DEF MoveOp, Lacks, Nowhere
  <2>4. IsDocument(doc) /\ op.path \in Seq(Segment) /\ op.from \in Seq(Segment)
    BY <1>1, <2>1, <2>3, OpsAreOps DEF TypeOK, IsOp, IsDocument
  <2>5. RemovePath(doc, op.from) = c
    BY <1>1 DEF RemovePath, IsPlaceInArray, IsKeyOfObject
  <2>6. IsDocument(c)
    BY <2>3, <2>4, <2>5, ThereCanRemove, RemovePathDocument
  <2>7. doc' = SetPath(c, op.path, v)
    BY <2>2, <2>3, <2>5 DEF Place, Becomes
  <2> HIDE DEF c
  <2>8. ASSUME NEW s, Variant(s) # "Array" PROVE HowMany(doc', s) = HowMany(doc, s)
    <3> DEFINE S == {q \in DOMAIN doc : doc[q] = s}
               T == {q \in DOMAIN doc' : doc'[q] = s}
    <3>1. ExistsBijection(S, T)
      BY <1>1, <2>3, <2>4, <2>6, <2>7, <2>8, MovedOneToOne DEF c
    <3>2. IsFiniteSet(S)
      BY <1>1, FS_Subset
    <3> HIDE DEF S, T
    <3>3. Cardinality(T) = Cardinality(S)
      BY <3>1, <3>2, FS_Bijection
    <3> QED
      BY <3>3 DEF HowMany, S, T
  <2> QED
    BY <2>8
<1>2. TypeOK /\ IsFiniteSet(DOMAIN doc) /\ [Next]_vars
        => (/\ Applies({"Move"}) /\ last'.from # Root
            /\ IsKeyOfObject(doc, last'.from) /\ last'.path \notin DOMAIN doc
            => Conserves)
  BY <1>1
<1> QED
  BY <1>2, AlwaysFinite, PTL DEF Spec, MoveConserves
-----------------------------------------------------------------------------
(***************************************************************************)
(* Sequences one after the other.                                          *)
(***************************************************************************)
\* up adds the sequences ss up, as far as n.
AddsUp(up, ss, n) ==
  \A i \in 1..n : up[i] = IF i = 1 THEN ss[i] ELSE up[i - 1] \o ss[i]

\* FlattenSeq adds all of them up.
LEMMA FlattenAddsUp ==
  ASSUME NEW ss, NEW N \in Nat, N > 0, Len(ss) = N
  PROVE  \E up : AddsUp(up, ss, N) /\ FlattenSeq(ss) = up[N]
<1> DEFINE Can(n) == \E up : DOMAIN up = 1..n /\ AddsUp(up, ss, n)
           T == {n \in Nat : n > 0 /\ ~ Can(n)}
<1>1. T = {}
  <2> SUFFICES ASSUME T # {} PROVE FALSE
    OBVIOUS
  <2>1. PICK n \in T : \A k \in T : n <= k
    BY LeastNumber
  <2>2. n \in Nat /\ n > 0 /\ ~ Can(n)
    OBVIOUS
  <2>3. n # 1
    <3> DEFINE up == [i \in 1..1 |-> ss[1]]
    <3>1. DOMAIN up = 1..1 /\ AddsUp(up, ss, 1)
      BY DEF AddsUp
    <3> HIDE DEF up
    <3> QED
      BY <2>2, <3>1
  <2>4. n - 1 \in Nat /\ n - 1 > 0 /\ n - 1 \notin T
    BY <2>1, <2>2, <2>3
  <2>5. PICK up : DOMAIN up = 1..(n - 1) /\ AddsUp(up, ss, n - 1)
    BY <2>4
  <2> DEFINE more == [i \in 1..n |-> IF i = n THEN up[n - 1] \o ss[n] ELSE up[i]]
  <2>6. DOMAIN more = 1..n /\ AddsUp(more, ss, n)
    <3> SUFFICES ASSUME NEW i \in 1..n
                 PROVE  more[i] = IF i = 1 THEN ss[i] ELSE more[i - 1] \o ss[i]
      BY DEF AddsUp
    <3>1. CASE i = n
      <4>1. n - 1 \in 1..n /\ n - 1 # n /\ i # 1
        BY <2>2, <2>3, <3>1
      <4> QED
        BY <3>1, <4>1
    <3>2. CASE i # n
      <4>1. i \in 1..(n - 1) /\ (i # 1 => i - 1 \in 1..n /\ i - 1 # n)
        BY <2>2, <3>2
      <4>2. up[i] = IF i = 1 THEN ss[i] ELSE up[i - 1] \o ss[i]
        BY <2>5, <4>1 DEF AddsUp
      <4> QED
        BY <3>2, <4>1, <4>2
    <3> QED
      BY <3>1, <3>2
  <2> HIDE DEF more
  <2> QED
    BY <2>2, <2>6
<1>2. PICK up : DOMAIN up = 1..N /\ AddsUp(up, ss, N)
  BY <1>1
<1> HIDE DEF Can, T
<1> DEFINE g == [i \in 1..N |-> up[i]]
<1>3. g = [i \in 1..Len(ss) |-> IF i = 1 THEN ss[i] ELSE g[i - 1] \o ss[i]]
  <2>1. \A i \in 1..N : g[i] = IF i = 1 THEN ss[i] ELSE g[i - 1] \o ss[i]
    <3> TAKE i \in 1..N
    <3>1. i # 1 => i - 1 \in 1..N
      OBVIOUS
    <3> QED
      BY <1>2, <3>1 DEF AddsUp
  <2> QED
    BY <2>1
<1> HIDE DEF g
<1>4. PICK h : /\ h = [i \in 1..Len(ss) |-> IF i = 1 THEN ss[i] ELSE h[i - 1] \o ss[i]]
               /\ FlattenSeq(ss) = h[Len(ss)]
  <2>1. Len(ss) # 0
    OBVIOUS
  <2> QED
    BY <1>3, <2>1 DEF FlattenSeq
<1>5. AddsUp(h, ss, N)
  BY <1>4 DEF AddsUp
<1> QED
  BY <1>4, <1>5

\* The same up to a place.
SameUpTo(s, t, n) == \A i \in 1..n : s[i] = t[i]

\* All but the last sum are the same with one sequence more.
LEMMA SameSums ==
  ASSUME NEW ss, NEW tt, NEW n \in Nat, SameUpTo(ss, tt, n),
         NEW up, AddsUp(up, ss, n), NEW vp, AddsUp(vp, tt, n)
  PROVE  SameUpTo(up, vp, n)
<1> USE DEF SameUpTo
<1> DEFINE T == {i \in 1..n : up[i] # vp[i]}
<1> SUFFICES ASSUME T # {} PROVE FALSE
  OBVIOUS
<1>1. PICK i \in T : \A k \in T : i <= k
  <2>1. T \subseteq Nat
    OBVIOUS
  <2> QED
    BY <2>1, LeastNumber
<1>2. i \in 1..n /\ up[i] # vp[i]
  OBVIOUS
<1>3. i # 1
  BY <1>2 DEF AddsUp
<1>4. i - 1 \in 1..n /\ i - 1 \notin T
  BY <1>1, <1>2, <1>3
<1> QED
  BY <1>2, <1>3, <1>4 DEF AddsUp

\* One more comes after the others.
LEMMA FlattenMore ==
  ASSUME NEW ss, NEW tt, NEW N \in Nat, N > 0, Len(ss) = N + 1, Len(tt) = N,
         \A i \in 1..N : tt[i] = ss[i]
  PROVE  FlattenSeq(ss) = FlattenSeq(tt) \o ss[N + 1]
<1>1. PICK up : AddsUp(up, ss, N + 1) /\ FlattenSeq(ss) = up[N + 1]
  BY FlattenAddsUp
<1>2. PICK vp : AddsUp(vp, tt, N) /\ FlattenSeq(tt) = vp[N]
  BY FlattenAddsUp
<1>3. AddsUp(up, ss, N)
  BY <1>1 DEF AddsUp
<1>4. \A i \in 1..N : vp[i] = up[i]
  <2>1. SameUpTo(tt, ss, N)
    BY DEF SameUpTo
  <2>2. SameUpTo(vp, up, N)
    BY <1>2, <1>3, <2>1, SameSums
  <2> QED
    BY <2>2 DEF SameUpTo
<1>5. up[N + 1] = up[N] \o ss[N + 1]
  <2>1. N + 1 \in 1..(N + 1) /\ N + 1 # 1 /\ (N + 1) - 1 = N
    OBVIOUS
  <2> QED
    BY <1>1, <2>1 DEF AddsUp
<1>6. N \in 1..N
  OBVIOUS
<1> QED
  BY <1>1, <1>2, <1>4, <1>5, <1>6

\* The first N of the sequences that V numbers from 0 on, one after the other.
Flat(V, N) == FlattenSeq([n \in 1..N |-> V[n - 1]])

\* No sequences, one after the other.
LEMMA FlatNone == ASSUME NEW V PROVE Flat(V, 0) = <<>>
<1> DEFINE ss == [n \in 1..0 |-> V[n - 1]]
<1>1. ss = <<>>
  OBVIOUS
<1> HIDE DEF ss
<1>2. FlattenSeq(ss) = ss
  BY <1>1 DEF FlattenSeq
<1> QED
  BY <1>1, <1>2 DEF Flat, ss

\* One more comes after the others.
LEMMA FlatMore ==
  ASSUME NEW O, NEW V \in [Nat -> Seq(O)], NEW N \in Nat
  PROVE  Flat(V, N + 1) = Flat(V, N) \o V[N]
<1> DEFINE ss == [n \in 1..(N + 1) |-> V[n - 1]]
           tt == [n \in 1..N |-> V[n - 1]]
<1>1. /\ Len(ss) = N + 1 /\ ss[N + 1] = V[N] /\ V[N] \in Seq(O)
      /\ Len(tt) = N /\ \A i \in 1..N : tt[i] = ss[i]
  <2>1. N + 1 \in Nat /\ N + 1 \in 1..(N + 1) /\ (N + 1) - 1 = N /\ V[N] \in Seq(O)
    OBVIOUS
  <2>2. Len(ss) = N + 1 /\ Len(tt) = N
    BY <2>1
  <2>3. ss[N + 1] = V[N]
    BY <2>1
  <2>4. ASSUME NEW i \in 1..N PROVE tt[i] = ss[i]
    <3>1. i \in 1..(N + 1)
      OBVIOUS
    <3> QED
      BY <3>1
  <2> QED
    BY <2>1, <2>2, <2>3, <2>4
<1> HIDE DEF ss, tt
<1>2. PICK up : AddsUp(up, ss, N + 1) /\ FlattenSeq(ss) = up[N + 1]
  BY <1>1, FlattenAddsUp
<1>3. CASE N = 0
  <2>1. up[1] = ss[1]
    BY <1>2, <1>3 DEF AddsUp
  <2>2. Flat(V, N + 1) = V[N]
    BY <1>1, <1>2, <1>3, <2>1 DEF Flat, ss
  <2>3. <<>> \o V[N] = V[N]
    BY <1>1
  <2> QED
    BY <1>3, <2>2, <2>3, FlatNone
<1>4. CASE N # 0
  <2>1. FlattenSeq(ss) = FlattenSeq(tt) \o ss[N + 1]
    <3>1. \A i \in 1..N : tt[i] = ss[i]
      BY <1>1
    <3>2. N > 0
      BY <1>4
    <3> QED
      BY <1>1, <3>1, <3>2, FlattenMore
  <2> QED
    BY <1>1, <2>1 DEF Flat, ss, tt
<1> QED
  BY <1>3, <1>4

\* Sequences one after the other are a sequence of what is in them.
LEMMA FlatType ==
  ASSUME NEW O, NEW V \in [Nat -> Seq(O)], NEW N \in Nat
  PROVE  Flat(V, N) \in Seq(O)
<1> DEFINE T == {n \in Nat : Flat(V, n) \notin Seq(O)}
<1> SUFFICES ASSUME T # {} PROVE FALSE
  OBVIOUS
<1>1. PICK n \in T : \A k \in T : n <= k
  BY LeastNumber
<1>2. n \in Nat /\ Flat(V, n) \notin Seq(O)
  OBVIOUS
<1>3. n # 0
  <2>1. <<>> \in Seq(O)
    OBVIOUS
  <2> QED
    BY <1>2, <2>1, FlatNone
<1>4. n - 1 \in Nat /\ n - 1 \notin T /\ (n - 1) + 1 = n
  BY <1>1, <1>2, <1>3
<1>5. Flat(V, n - 1) \in Seq(O) /\ V[n - 1] \in Seq(O)
  BY <1>4
<1>6. Flat(V, n) = Flat(V, n - 1) \o V[n - 1]
  BY <1>4, FlatMore
<1> QED
  BY <1>2, <1>5, <1>6

\* From N on there is nothing to add.
LEMMA FlatPadded ==
  ASSUME NEW O, NEW V \in [Nat -> Seq(O)], NEW N \in Nat, NEW M \in Nat, N <= M,
         \A n \in Nat : N <= n => V[n] = <<>>
  PROVE  Flat(V, M) = Flat(V, N)
<1> DEFINE T == {n \in Nat : N <= n /\ Flat(V, n) # Flat(V, N)}
<1> SUFFICES ASSUME T # {} PROVE FALSE
  OBVIOUS
<1>1. PICK n \in T : \A k \in T : n <= k
  BY LeastNumber
<1>2. n \in Nat /\ N <= n /\ Flat(V, n) # Flat(V, N)
  OBVIOUS
<1>3. n - 1 \in Nat /\ N <= n - 1 /\ n - 1 \notin T /\ (n - 1) + 1 = n
  BY <1>1, <1>2
<1>4. Flat(V, n - 1) = Flat(V, N) /\ V[n - 1] = <<>> /\ Flat(V, N) \in Seq(O)
  BY <1>3, FlatType
<1>5. Flat(V, n) = Flat(V, n - 1) \o V[n - 1]
  BY <1>3, FlatMore
<1> QED
  BY <1>2, <1>4, <1>5

\* The numbers below a number are those below the one before, and that one.
LEMMA NumbersBelow ==
  ASSUME NEW n \in Nat, n # 0
  PROVE  0..(n - 1) = 0..((n - 1) - 1) \cup {n - 1}
<1>1. \A i \in 0..(n - 1) : i \in 0..((n - 1) - 1) \/ i = n - 1
  OBVIOUS
<1>2. \A i \in 0..((n - 1) - 1) : i \in 0..(n - 1)
  OBVIOUS
<1>3. n - 1 \in 0..(n - 1)
  OBVIOUS
<1> QED
  BY <1>1, <1>2, <1>3

\* Nothing comes of nothing.
LEMMA FlatEmpty ==
  ASSUME NEW O, NEW V \in [Nat -> Seq(O)], NEW N \in Nat
  PROVE  Flat(V, N) = <<>> <=> \A n \in 0..(N - 1) : V[n] = <<>>
<1> DEFINE Holds(n) == Flat(V, n) = <<>> <=> \A i \in 0..(n - 1) : V[i] = <<>>
           T == {n \in Nat : ~ Holds(n)}
<1> SUFFICES ASSUME T # {} PROVE FALSE
  OBVIOUS
<1>1. PICK n \in T : \A k \in T : n <= k
  BY LeastNumber
<1>2. n \in Nat /\ ~ Holds(n)
  OBVIOUS
<1>3. n # 0
  BY <1>2, FlatNone
<1>4. n - 1 \in Nat /\ n - 1 \notin T /\ (n - 1) + 1 = n
  BY <1>1, <1>2, <1>3
<1>5. Holds(n - 1)
  BY <1>4
<1>6. Flat(V, n) = Flat(V, n - 1) \o V[n - 1]
  BY <1>4, FlatMore
<1>7. Flat(V, n - 1) \in Seq(O) /\ V[n - 1] \in Seq(O)
  BY <1>4, FlatType
<1>8. Flat(V, n) = <<>> <=> Flat(V, n - 1) = <<>> /\ V[n - 1] = <<>>
  BY <1>6, <1>7
<1>9. 0..(n - 1) = 0..((n - 1) - 1) \cup {n - 1}
  BY <1>2, <1>3, NumbersBelow
<1>10. (\A i \in 0..(n - 1) : V[i] = <<>>) <=>
         (\A i \in 0..((n - 1) - 1) : V[i] = <<>>) /\ V[n - 1] = <<>>
  BY <1>9
<1> QED
  BY <1>2, <1>5, <1>8, <1>10

\* A sequence is its first element and the others.
LEMMA FirstAndOthers ==
  ASSUME NEW O, NEW s \in Seq(O), s # <<>>
  PROVE  /\ Head(s) \in O /\ Tail(s) \in Seq(O) /\ <<Head(s)>> \in Seq(O)
         /\ s = <<Head(s)>> \o Tail(s)
<1> DEFINE first == <<Head(s)>>
<1>1. Head(s) \in O /\ Tail(s) \in Seq(O) /\ Len(s) \in Nat /\ Len(s) # 0
  OBVIOUS
<1>2. first \in Seq(O) /\ Len(first) = 1 /\ first[1] = s[1]
  BY <1>1
<1>3. Len(Tail(s)) = Len(s) - 1 /\ \A i \in 1..(Len(s) - 1) : Tail(s)[i] = s[i + 1]
  BY <1>1
<1> HIDE DEF first
<1> DEFINE rest == Tail(s)
<1>a. rest \in Seq(O) /\ Len(rest) = Len(s) - 1
  BY <1>1, <1>3
<1> HIDE DEF rest
<1>b. /\ first \o rest \in Seq(O) /\ Len(first \o rest) = Len(s)
      /\ \A i \in 1..Len(s) : (first \o rest)[i] = IF i <= 1 THEN first[i] ELSE rest[i - 1]
  <2>1. /\ first \o rest \in Seq(O) /\ Len(first \o rest) = Len(first) + Len(rest)
        /\ \A i \in 1..(Len(first) + Len(rest)) :
             (first \o rest)[i] = IF i <= Len(first) THEN first[i] ELSE rest[i - Len(first)]
    BY <1>2, <1>a, ConcatProperties
  <2>2. Len(first) = 1 /\ Len(first) + Len(rest) = Len(s)
    BY <1>1, <1>2, <1>a
  <2> QED
    BY <2>1, <2>2
<1>4. /\ first \o Tail(s) \in Seq(O) /\ Len(first \o Tail(s)) = Len(s)
      /\ \A i \in 1..Len(s) : (first \o Tail(s))[i] = IF i <= 1 THEN first[i] ELSE Tail(s)[i - 1]
  BY <1>b DEF rest
<1>5. \A i \in 1..Len(s) : (first \o Tail(s))[i] = s[i]
  <2> TAKE i \in 1..Len(s)
  <2>1. CASE i = 1
    BY <1>2, <1>4, <2>1
  <2>2. CASE i # 1
    <3>1. i - 1 \in 1..(Len(s) - 1) /\ (i - 1) + 1 = i /\ ~ (i <= 1)
      BY <1>1, <2>2
    <3> QED
      BY <1>3, <1>4, <3>1
  <2> QED
    BY <2>1, <2>2
<1>6. first \o Tail(s) = s
  BY <1>1, <1>4, <1>5, SeqEqual
<1> QED
  BY <1>1, <1>2, <1>6 DEF first

\* (A definition, for the provers lose \o where sequences are values of functions.)
Associates(O) == \A s, t, u \in Seq(O) : (s \o t) \o u = s \o (t \o u)

\* Putting sequences one after the other is associative.
LEMMA AllAssociate == \A O : Associates(O)
<1> TAKE O
<1> SUFFICES ASSUME NEW s \in Seq(O), NEW t \in Seq(O), NEW u \in Seq(O)
             PROVE  (s \o t) \o u = s \o (t \o u)
  BY DEF Associates
<1> QED
  BY ConcatAssociative

\* s is h, and then r.
Begins(s, h, r) == s = <<h>> \o r

\* V[j] is the first that is not empty; W is what is left without its first element.
IsFirst(V, j) == V[j] # <<>> /\ \A i \in 0..(j - 1) : V[i] = <<>>
IsAfter(W, V, j) == W[j] = Tail(V[j]) /\ \A i \in Nat : i # j => W[i] = V[i]

\* The first element is that of the first sequence that has one.
LEMMA FlatFirst ==
  ASSUME NEW O, NEW V \in [Nat -> Seq(O)], NEW W \in [Nat -> Seq(O)],
         NEW j \in Nat, IsFirst(V, j), IsAfter(W, V, j),
         NEW N \in Nat, j < N
  PROVE  Begins(Flat(V, N), Head(V[j]), Flat(W, N))
<1> DEFINE first == <<Head(V[j])>>
           T == {n \in Nat : j < n /\ Flat(V, n) # first \o Flat(W, n)}
<1>0. first \in Seq(O) /\ V[j] \in Seq(O) /\ V[j] = first \o W[j]
  BY FirstAndOthers DEF IsFirst, IsAfter
<1>b. first \in Seq(O)
  BY <1>0
<1> SUFFICES ASSUME T # {} PROVE FALSE
  BY DEF Begins
<1> HIDE DEF first
<1>1. PICK n \in T : \A k \in T : n <= k
  BY LeastNumber
<1>2. n \in Nat /\ j < n /\ Flat(V, n) # first \o Flat(W, n)
  OBVIOUS
<1>a. \A k \in Nat : j < k /\ Flat(V, k) # first \o Flat(W, k) => n <= k
  BY <1>1
<1> HIDE DEF T
<1>3. n - 1 \in Nat /\ (n - 1) + 1 = n
  BY <1>2
<1>4. /\ Flat(V, n) = Flat(V, n - 1) \o V[n - 1]
      /\ Flat(W, n) = Flat(W, n - 1) \o W[n - 1]
  BY <1>3, FlatMore
<1>5. /\ Flat(V, n - 1) \in Seq(O) /\ Flat(W, n - 1) \in Seq(O)
      /\ V[n - 1] \in Seq(O) /\ W[n - 1] \in Seq(O)
  BY <1>3, FlatType
<1>6. CASE n - 1 = j
  <2>1. Flat(V, j) = <<>> /\ Flat(W, j) = <<>>
    <3>1. \A i \in 0..(j - 1) : V[i] = <<>> /\ W[i] = <<>>
      <4> TAKE i \in 0..(j - 1)
      <4>1. i \in Nat /\ i # j
        OBVIOUS
      <4> QED
        BY <4>1 DEF IsFirst, IsAfter
    <3> QED
      BY <3>1, FlatEmpty
  <2>2. Flat(V, n) = V[j] /\ Flat(W, n) = W[j]
    <3>1. <<>> \o V[j] = V[j] /\ <<>> \o W[j] = W[j]
      BY ConcatEmptySeq
    <3> QED
      BY <1>4, <1>6, <2>1, <3>1
  <2> QED
    BY <1>0, <1>2, <2>2
<1>7. CASE n - 1 # j
  <2>1. j < n - 1 /\ W[n - 1] = V[n - 1]
    <3>1. j < n - 1 /\ n - 1 < n
      BY <1>2, <1>3, <1>7
    <3> QED
      BY <1>3, <1>7, <3>1 DEF IsAfter
  <2>2. Flat(V, n - 1) = first \o Flat(W, n - 1)
    <3>1. ~ (n <= n - 1)
      BY <1>2
    <3> QED
      BY <1>a, <1>3, <2>1, <3>1
  <2>3. Associates(O)
    BY AllAssociate
  <2>4. (first \o Flat(W, n - 1)) \o V[n - 1] = first \o (Flat(W, n - 1) \o V[n - 1])
    BY <1>b, <1>5, <2>3, Zenon DEF Associates
  <2> QED
    BY <1>2, <1>4, <2>1, <2>2, <2>4
<1> QED
  BY <1>6, <1>7

\* A finite set of numbers has a largest.
LEMMA LargestNumber ==
  ASSUME NEW S, S \subseteq Nat, S # {}, IsFiniteSet(S)
  PROVE  \E x \in S : \A y \in S : y <= x
<1>1. PICK n \in Nat : ExistsSurjection(1..n, S)
  BY FS_NatSurjection
<1>2. PICK f \in Surjection(1..n, S) : TRUE
  BY <1>1 DEF ExistsSurjection
<1>3. f \in [1..n -> S] /\ \A y \in S : \E i \in 1..n : f[i] = y
  BY <1>2 DEF Surjection
<1> DEFINE Bounded(m) == \E x \in S : \A i \in 1..m : f[i] <= x
           T == {m \in Nat : m <= n /\ ~ Bounded(m)}
<1>4. T = {}
  <2> SUFFICES ASSUME T # {} PROVE FALSE
    OBVIOUS
  <2>1. PICK m \in T : \A k \in T : m <= k
    BY LeastNumber
  <2>2. m \in Nat /\ m <= n /\ ~ Bounded(m)
    OBVIOUS
  <2>3. m # 0
    <3> SUFFICES ASSUME m = 0 PROVE FALSE
      OBVIOUS
    <3>1. PICK x \in S : TRUE
      OBVIOUS
    <3>2. \A i \in 1..0 : f[i] <= x
      OBVIOUS
    <3> QED
      BY <2>2, <3>2
  <2>4. m - 1 \in Nat /\ m - 1 <= n /\ m - 1 \notin T
    BY <2>1, <2>2, <2>3, SMTT(60)
  <2>5. PICK x \in S : \A i \in 1..(m - 1) : f[i] <= x
    BY <2>4
  <2>a. /\ m \in 1..n /\ m \in 1..m
        /\ \A i \in 1..m : i \in 1..n /\ (i \in 1..(m - 1) \/ i = m)
    BY <2>2, <2>3
  <2> HIDE DEF T, Bounded
  <2>b. \A i \in 1..n : f[i] \in S
    BY <1>3
  <2>6. f[m] \in S /\ f[m] \in Nat /\ x \in Nat
    BY <2>a, <2>b
  <2>7. \A i \in 1..m : f[i] \in Nat /\ (i \in 1..(m - 1) \/ i = m)
    BY <2>a, <2>b
  <2>8. CASE f[m] <= x
    BY <2>2, <2>5, <2>6, <2>7, <2>8 DEF Bounded
  <2>9. CASE x <= f[m]
    BY <2>2, <2>5, <2>6, <2>7, <2>9 DEF Bounded
  <2> QED
    BY <2>6, <2>8, <2>9
<1>5. PICK x \in S : \A i \in 1..n : f[i] <= x
  BY <1>4
<1> QED
  BY <1>3, <1>5
-----------------------------------------------------------------------------
\* What Each puts together, number by number.
Numbered(ops) == [n \in Nat |-> IF n \in DOMAIN ops THEN ops[n] ELSE <<>>]

\* Sequences over O for finitely many numbers.
IsParts(ops, O) ==
  /\ IsFiniteSet(DOMAIN ops) /\ DOMAIN ops \subseteq Nat
  /\ \A n \in DOMAIN ops : ops[n] \in Seq(O)

\* Parts are sequences, one for every number.
LEMMA NumberedType ==
  ASSUME NEW O, NEW ops, IsParts(ops, O)
  PROVE  Numbered(ops) \in [Nat -> Seq(O)]
<1>1. <<>> \in Seq(O)
  OBVIOUS
<1> QED
  BY <1>1 DEF Numbered, IsParts

\* Each puts the parts one after the other, as far as there are any.
LEMMA EachIsFlat ==
  ASSUME NEW O, NEW ops, IsParts(ops, O)
  PROVE  \E N \in Nat : /\ \A n \in DOMAIN ops : n < N
                        /\ Each(ops) = Flat(Numbered(ops), N)
<1> DEFINE beyond == IF DOMAIN ops = {} THEN 0 ELSE Max(DOMAIN ops) + 1
<1>1. beyond \in Nat /\ \A n \in DOMAIN ops : n < beyond
  <2>1. CASE DOMAIN ops = {}
    BY <2>1
  <2>2. CASE DOMAIN ops # {}
    <3>1. \E x \in DOMAIN ops : \A y \in DOMAIN ops : y <= x
      BY <2>2, LargestNumber DEF IsParts
    <3>2. \A x, y \in DOMAIN ops : x \in Nat /\ y \in Nat /\ (y <= x <=> x >= y)
      BY DEF IsParts
    <3>3. Max(DOMAIN ops) \in DOMAIN ops /\ \A y \in DOMAIN ops : Max(DOMAIN ops) >= y
      BY <3>1, <3>2 DEF Max
    <3> QED
      BY <2>2, <3>2, <3>3
  <2> QED
    BY <2>1, <2>2
<1>2. \A n \in 1..beyond :
        (IF n - 1 \in DOMAIN ops THEN ops[n - 1] ELSE <<>>) = Numbered(ops)[n - 1]
  <2> TAKE n \in 1..beyond
  <2>1. n - 1 \in Nat
    BY <1>1
  <2> QED
    BY <2>1 DEF Numbered
<1>3. Each(ops) =
        FlattenSeq([n \in 1..beyond |-> IF n - 1 \in DOMAIN ops THEN ops[n - 1] ELSE <<>>])
  BY DEF Each
<1> HIDE DEF beyond
<1>4. [n \in 1..beyond |-> IF n - 1 \in DOMAIN ops THEN ops[n - 1] ELSE <<>>]
        = [n \in 1..beyond |-> Numbered(ops)[n - 1]]
  BY <1>2
<1>5. Each(ops) = Flat(Numbered(ops), beyond)
  BY <1>3, <1>4 DEF Flat
<1> QED
  BY <1>1, <1>5

\* As many more as one likes may be taken, there is nothing in them.
LEMMA EachIsFlatBeyond ==
  ASSUME NEW O, NEW ops, IsParts(ops, O)
  PROVE  \E N \in Nat : /\ \A n \in DOMAIN ops : n < N
                        /\ \A M \in Nat : N <= M => Each(ops) = Flat(Numbered(ops), M)
<1>1. PICK N \in Nat : /\ \A n \in DOMAIN ops : n < N
                       /\ Each(ops) = Flat(Numbered(ops), N)
  BY EachIsFlat
<1>2. \A n \in Nat : N <= n => Numbered(ops)[n] = <<>>
  <2> TAKE n \in Nat
  <2>1. ASSUME N <= n, n \in DOMAIN ops PROVE FALSE
    BY <1>1, <2>1
  <2> QED
    BY <2>1 DEF Numbered
<1>3. \A M \in Nat : N <= M => Flat(Numbered(ops), M) = Flat(Numbered(ops), N)
  BY <1>2, NumberedType, FlatPadded
<1> QED
  BY <1>1, <1>3

\* What Each makes is typed, and empty when all the parts are.
LEMMA EachType ==
  ASSUME NEW O, NEW ops, IsParts(ops, O)
  PROVE  /\ Each(ops) \in Seq(O)
         /\ Each(ops) = <<>> <=> \A n \in DOMAIN ops : ops[n] = <<>>
<1>1. PICK N \in Nat : /\ \A n \in DOMAIN ops : n < N
                       /\ Each(ops) = Flat(Numbered(ops), N)
  BY EachIsFlat
<1>2. Each(ops) \in Seq(O)
  BY <1>1, NumberedType, FlatType
<1>3. Each(ops) = <<>> <=> \A n \in 0..(N - 1) : Numbered(ops)[n] = <<>>
  BY <1>1, NumberedType, FlatEmpty
<1>4. (\A n \in 0..(N - 1) : Numbered(ops)[n] = <<>>) <=> \A n \in DOMAIN ops : ops[n] = <<>>
  <2>1. \A n \in DOMAIN ops : n \in Nat /\ n \in 0..(N - 1)
    BY <1>1 DEF IsParts
  <2>2. \A n \in 0..(N - 1) : n \in Nat
    OBVIOUS
  <2> QED
    BY <2>1, <2>2 DEF Numbered
<1> QED
  BY <1>2, <1>3, <1>4

\* The same parts make the same.
LEMMA EachSame ==
  ASSUME NEW O, NEW V, NEW W, IsParts(V, O), IsParts(W, O),
         \A n \in Nat : Numbered(V)[n] = Numbered(W)[n]
  PROVE  Each(V) = Each(W)
<1>1. PICK N \in Nat : \A M \in Nat : N <= M => Each(V) = Flat(Numbered(V), M)
  BY EachIsFlatBeyond
<1>2. PICK K \in Nat : \A M \in Nat : K <= M => Each(W) = Flat(Numbered(W), M)
  BY EachIsFlatBeyond
<1>3. N + K \in Nat /\ N <= N + K /\ K <= N + K
  OBVIOUS
<1>4. Numbered(V) = Numbered(W)
  BY DEF Numbered
<1> QED
  BY <1>1, <1>2, <1>3, <1>4

\* One of the parts is the first that is not empty.
LEMMA FirstPart ==
  ASSUME NEW O, NEW V, IsParts(V, O), Each(V) # <<>>
  PROVE  \E j \in DOMAIN V : j \in Nat /\ IsFirst(Numbered(V), j)
<1> DEFINE T == {n \in DOMAIN V : V[n] # <<>>}
<1>1. T # {} /\ T \subseteq Nat
  BY EachType DEF IsParts
<1>2. PICK j \in T : \A k \in T : j <= k
  BY <1>1, LeastNumber
<1>3. j \in DOMAIN V /\ j \in Nat /\ V[j] # <<>>
  BY <1>1
<1>4. \A i \in 0..(j - 1) : Numbered(V)[i] = <<>>
  <2> TAKE i \in 0..(j - 1)
  <2>1. i \in Nat /\ ~ (j <= i)
    BY <1>3
  <2>2. i \notin T
    BY <1>2, <2>1
  <2> QED
    BY <2>1, <2>2 DEF Numbered
<1>5. Numbered(V)[j] = V[j]
  BY <1>3 DEF Numbered
<1> QED
  BY <1>3, <1>4, <1>5 DEF IsFirst

\* Its first element is the first of all, and the others come after it.
LEMMA EachAfter ==
  ASSUME NEW O, NEW V, NEW W, IsParts(V, O), IsParts(W, O), NEW j \in DOMAIN V,
         IsFirst(Numbered(V), j), IsAfter(Numbered(W), Numbered(V), j)
  PROVE  Begins(Each(V), Head(V[j]), Each(W))
<1>1. PICK N \in Nat : /\ \A n \in DOMAIN V : n < N
                       /\ \A M \in Nat : N <= M => Each(V) = Flat(Numbered(V), M)
  BY EachIsFlatBeyond
<1>2. PICK K \in Nat : \A M \in Nat : K <= M => Each(W) = Flat(Numbered(W), M)
  BY EachIsFlatBeyond
<1>3. /\ N + K \in Nat /\ N <= N + K /\ K <= N + K
      /\ j \in Nat /\ j < N + K
  BY <1>1 DEF IsParts
<1>4. Numbered(V) \in [Nat -> Seq(O)] /\ Numbered(W) \in [Nat -> Seq(O)]
  BY NumberedType
<1>5. Begins(Flat(Numbered(V), N + K), Head(Numbered(V)[j]), Flat(Numbered(W), N + K))
  <2> DEFINE M == N + K
             v == Numbered(V)
             w == Numbered(W)
  <2>1. /\ M \in Nat /\ j \in Nat /\ j < M /\ v \in [Nat -> Seq(O)] /\ w \in [Nat -> Seq(O)]
        /\ IsFirst(v, j) /\ IsAfter(w, v, j)
    BY <1>3, <1>4
  <2> HIDE DEF M, v, w
  <2>2. Begins(Flat(v, M), Head(v[j]), Flat(w, M))
    BY <2>1, FlatFirst
  <2> QED
    BY <2>2 DEF M, v, w
<1>6. Numbered(V)[j] = V[j]
  BY <1>3 DEF Numbered
<1>7. Each(V) = Flat(Numbered(V), N + K) /\ Each(W) = Flat(Numbered(W), N + K)
  BY <1>1, <1>2, <1>3
<1> QED
  BY <1>5, <1>6, <1>7
-----------------------------------------------------------------------------
\* What begins like this has this first element, and these others; also when
\* something comes after it.
LEMMA BeginsHere ==
  ASSUME NEW O, NEW s, NEW h \in O, NEW r \in Seq(O), Begins(s, h, r)
  PROVE  /\ s \in Seq(O) /\ s # <<>> /\ Head(s) = h /\ Tail(s) = r
         /\ \A t \in Seq(O) : Begins(s \o t, h, r \o t)
<1> DEFINE first == <<h>>
<1>1. s = first \o r
  BY DEF Begins
<1>2. first \in Seq(O) /\ Len(first) = 1 /\ first[1] = h
  OBVIOUS
<1>3. Associates(O)
  BY AllAssociate
<1>4. ASSUME NEW t \in Seq(O) PROVE s \o t = first \o (r \o t)
  <2> HIDE DEF first
  <2> QED
    BY <1>1, <1>2, <1>3, Zenon DEF Associates
<1>5. /\ s \in Seq(O) /\ Len(s) = 1 + Len(r) /\ s[1] = h
      /\ \A i \in 1..Len(r) : s[i + 1] = r[i]
  <2> HIDE DEF first
  <2>1. /\ s \in Seq(O) /\ Len(s) = 1 + Len(r)
        /\ \A i \in 1..(1 + Len(r)) : s[i] = IF i <= 1 THEN first[i] ELSE r[i - 1]
    BY <1>1, <1>2, ConcatProperties
  <2>2. Len(r) \in Nat
    OBVIOUS
  <2>3. 1 \in 1..(1 + Len(r))
    BY <2>2
  <2>4. ASSUME NEW i \in 1..Len(r) PROVE s[i + 1] = r[i]
    <3>1. i + 1 \in 1..(1 + Len(r)) /\ ~ (i + 1 <= 1) /\ (i + 1) - 1 = i
      BY <2>2
    <3> QED
      BY <2>1, <3>1
  <2> QED
    BY <1>2, <2>1, <2>3, <2>4
<1>6. s # <<>>
  BY <1>5
<1>7. Tail(s) = r
  <2>1. Tail(s) \in Seq(O) /\ Len(Tail(s)) = Len(r)
    BY <1>5, <1>6
  <2>2. \A i \in 1..Len(r) : Tail(s)[i] = r[i]
    BY <1>5, <1>6, <2>1, HeadTailProperties
  <2> QED
    BY <2>1, <2>2, SeqEqual
<1>8. Head(s) = h
  BY <1>5, <1>6
<1> QED
  BY <1>4, <1>5, <1>6, <1>7, <1>8 DEF Begins
-----------------------------------------------------------------------------
(***************************************************************************)
(* Where two documents agree.                                              *)
(***************************************************************************)
AgreeAt(b, t, q) == /\ q \in DOMAIN b <=> q \in DOMAIN t
                    /\ q \in DOMAIN t => b[q] = t[q]

\* Everything at p and below is the same.
Agree(b, t, p) == \A q \in Seq(Segment) : IsPrefix(p, q) => AgreeAt(b, t, q)

\* Paths that belong together.
LEMMA PathDown ==
  ASSUME NEW p \in Seq(Segment), NEW s \in Segment
  PROVE  /\ Append(p, s) \in Seq(Segment) /\ Len(Append(p, s)) = Len(p) + 1
         /\ Front(Append(p, s)) = p /\ Last(Append(p, s)) = s
         /\ IsPrefix(p, Append(p, s)) /\ ~ IsPrefix(Append(p, s), p)
         /\ Append(p, s) # Root /\ IsPrefix(p, p)
         /\ \A r \in Segment : IsPrefix(Append(p, s), Append(p, r)) => r = s
         /\ \A q \in Seq(Segment) : IsPrefix(Append(p, s), q) => IsPrefix(p, q)
<1>1. /\ Append(p, s) \in Seq(Segment) /\ Len(Append(p, s)) = Len(p) + 1
      /\ Front(Append(p, s)) = p /\ Last(Append(p, s)) = s /\ Append(p, s) # Root
  BY PathEnds DEF Root
<1>2. IsPrefix(p, p)
  BY PrefixOfItself
<1>3. IsPrefix(p, Append(p, s))
  BY <1>2, PrefixOfLonger
<1>4. ~ IsPrefix(Append(p, s), p)
  <2>1. IsPrefix(Append(p, s), p) => p = Append(p, s)
    BY <1>1, <1>3, PrefixBothWays
  <2> QED
    BY <1>1, <2>1
<1>5. ASSUME NEW r \in Segment, IsPrefix(Append(p, s), Append(p, r)) PROVE r = s
  <2>1. IsPrefix(Append(p, s), p) \/ Append(p, s) = Append(p, r)
    BY <1>1, <1>5, PrefixOfLonger
  <2>2. Last(Append(p, r)) = r
    BY PathEnds
  <2> QED
    BY <1>1, <1>4, <2>1, <2>2
<1>6. \A q \in Seq(Segment) : IsPrefix(Append(p, s), q) => IsPrefix(p, q)
  BY <1>1, <1>3, PrefixOfPrefix
<1> QED
  BY <1>1, <1>2, <1>3, <1>4, <1>5, <1>6

\* Only containers have anything below them: members, or as many elements as
\* they hold.
LEMMA WhatIsBelow ==
  ASSUME NEW d, IsDocument(d), NEW p \in DOMAIN d, NEW s \in Segment
  PROVE  /\ Append(p, s) \in DOMAIN d =>
              \/ Variant(d[p]) = "Object" /\ s[2] \in MemberKeys(d, p) /\ s = Key(s[2])
              \/ /\ Variant(d[p]) = "Array" /\ Held(d[p]) \in Nat
                 /\ s[2] \in 0..(Held(d[p]) - 1) /\ s = Index(s[2])
         /\ \A k \in MemberKeys(d, p) : Append(p, Key(k)) \in DOMAIN d /\ Key(k) \in Segment
         /\ Variant(d[p]) = "Array" =>
              /\ Held(d[p]) \in Nat
              /\ \A i \in 0..(Held(d[p]) - 1) :
                   Append(p, Index(i)) \in DOMAIN d /\ Index(i) \in Segment
<1>1. p \in Seq(Segment) /\ Rooted(d) /\ CompleteBut(d, Root) /\ IsNode(d[p])
  BY DocumentParts DEF IsDocument
<1>2. ASSUME Append(p, s) \in DOMAIN d
      PROVE  \/ Variant(d[p]) = "Object" /\ s[2] \in MemberKeys(d, p) /\ s = Key(s[2])
             \/ /\ Variant(d[p]) = "Array" /\ Held(d[p]) \in Nat
                /\ s[2] \in 0..(Held(d[p]) - 1) /\ s = Index(s[2])
  <2>1. Leads(d[p], s)
    BY <1>1, <1>2 DEF Rooted
  <2>2. CASE Variant(d[p]) = "Object" /\ s[1] = "Key"
    BY <1>2, <2>2, SegmentKinds DEF MemberKeys
  <2>3. CASE Variant(d[p]) = "Array" /\ s[1] = "Index" /\ s[2] < Held(d[p])
    <3>1. Held(d[p]) \in Nat /\ s[2] \in Nat /\ s = Index(s[2])
      BY <1>1, <2>3, SegmentKinds DEF IsNode
    <3> QED
      BY <2>3, <3>1
  <2> QED
    BY <2>1, <2>2, <2>3 DEF Leads
<1>3. \A k \in MemberKeys(d, p) : Append(p, Key(k)) \in DOMAIN d /\ Key(k) \in Segment
  BY SegmentKinds DEF MemberKeys
<1>4. ASSUME Variant(d[p]) = "Array"
      PROVE  /\ Held(d[p]) \in Nat
             /\ \A i \in 0..(Held(d[p]) - 1) :
                  Append(p, Index(i)) \in DOMAIN d /\ Index(i) \in Segment
  <2>1. Held(d[p]) \in Nat
    BY <1>1, <1>4 DEF IsNode
  <2>2. \A i \in 0..(Held(d[p]) - 1) : Append(p, Index(i)) \in DOMAIN d
    BY <1>4, <2>1, ElementsOf
  <2> QED
    BY <2>1, <2>2, SegmentKinds
<1> QED
  BY <1>2, <1>3, <1>4

\* If the nodes at p are the same, and the same leads on from there to what
\* agrees, everything agrees.
LEMMA AgreeUp ==
  ASSUME NEW b, IsDocument(b), NEW t, IsDocument(t), NEW p \in DOMAIN b, p \in DOMAIN t,
         b[p] = t[p],
         \A s \in Segment : /\ Append(p, s) \in DOMAIN b <=> Append(p, s) \in DOMAIN t
                            /\ Append(p, s) \in DOMAIN t => Agree(b, t, Append(p, s))
  PROVE  Agree(b, t, p)
<1>1. p \in Seq(Segment)
  BY DEF IsDocument
<1> SUFFICES ASSUME NEW q \in Seq(Segment), IsPrefix(p, q)
             PROVE  AgreeAt(b, t, q)
  BY DEF Agree
<1>2. CASE q = p
  BY <1>2 DEF AgreeAt
<1>3. CASE q # p
  <2>1. PICK s \in Segment : IsPrefix(Append(p, s), q)
    BY <1>1, <1>3, NextSegment
  <2>2. Append(p, s) \in Seq(Segment)
    BY <1>1
  <2>3. CASE Append(p, s) \in DOMAIN t
    BY <2>1, <2>3 DEF Agree
  <2>4. CASE Append(p, s) \notin DOMAIN t
    BY <2>1, <2>2, <2>4, OnTheWay DEF AgreeAt
  <2> QED
    BY <2>3, <2>4
<1> QED
  BY <1>2, <1>3

\* A value is what is at a path and below.
LEMMA AgreeIsValue ==
  ASSUME NEW b, IsDocument(b), NEW t, IsDocument(t), NEW p \in Seq(Segment)
  PROVE  ValueAt(b, p) = ValueAt(t, p) <=> Agree(b, t, p)
<1> DEFINE u == ValueAt(b, p)
           v == ValueAt(t, p)
<1>1. DOMAIN b \subseteq Seq(Segment) /\ DOMAIN t \subseteq Seq(Segment)
  BY DEF IsDocument
<1>2. /\ u = [q \in DOMAIN u |-> u[q]] /\ DOMAIN u \subseteq Seq(Segment)
      /\ \A q \in Seq(Segment) : q \in DOMAIN u <=> p \o q \in DOMAIN b
      /\ \A q \in DOMAIN u : u[q] = b[p \o q]
  BY <1>1, ValueAtParts
<1>3. /\ v = [q \in DOMAIN v |-> v[q]] /\ DOMAIN v \subseteq Seq(Segment)
      /\ \A q \in Seq(Segment) : q \in DOMAIN v <=> p \o q \in DOMAIN t
      /\ \A q \in DOMAIN v : v[q] = t[p \o q]
  BY <1>1, ValueAtParts
<1> HIDE DEF u, v
<1>4. ASSUME Agree(b, t, p) PROVE u = v
  <2>1. \A q \in Seq(Segment) : AgreeAt(b, t, p \o q)
    <3> TAKE q \in Seq(Segment)
    <3>1. p \o q \in Seq(Segment) /\ IsPrefix(p, p \o q)
      BY PathBeyond
    <3> QED
      BY <1>4, <3>1 DEF Agree
  <2>2. \A q \in Seq(Segment) : q \in DOMAIN u <=> q \in DOMAIN v
    BY <1>2, <1>3, <2>1 DEF AgreeAt
  <2>3. DOMAIN u = DOMAIN v
    BY <1>2, <1>3, <2>2
  <2>4. \A q \in DOMAIN u : u[q] = v[q]
    BY <1>2, <1>3, <2>1, <2>3 DEF AgreeAt
  <2> QED
    BY <1>2, <1>3, <2>3, <2>4
<1>5. ASSUME u = v PROVE Agree(b, t, p)
  <2> SUFFICES ASSUME NEW q \in Seq(Segment), IsPrefix(p, q)
               PROVE  AgreeAt(b, t, q)
    BY DEF Agree
  <2>1. PICK r \in Seq(Segment) : p \o r = q
    BY PathRest
  <2> QED
    BY <1>2, <1>3, <1>5, <2>1 DEF AgreeAt
<1> QED
  BY <1>4, <1>5 DEF u, v

\* Documents that agree on everything are equal.
LEMMA AgreeIsEqual ==
  ASSUME NEW b, IsDocument(b), NEW t, IsDocument(t)
  PROVE  Agree(b, t, Root) <=> b = t
<1>1. \A q \in Seq(Segment) : IsPrefix(Root, q)
  BY PrefixOfItself DEF Root
<1>2. ASSUME Agree(b, t, Root) PROVE b = t
  <2>1. \A q \in Seq(Segment) : AgreeAt(b, t, q)
    BY <1>1, <1>2 DEF Agree
  <2>2. /\ b = [q \in DOMAIN b |-> b[q]] /\ DOMAIN b \subseteq Seq(Segment)
        /\ t = [q \in DOMAIN t |-> t[q]] /\ DOMAIN t \subseteq Seq(Segment)
    BY DEF IsDocument
  <2>3. DOMAIN b = DOMAIN t
    BY <2>1, <2>2 DEF AgreeAt
  <2>4. \A q \in DOMAIN b : b[q] = t[q]
    BY <2>1, <2>2, <2>3 DEF AgreeAt
  <2> QED
    BY <2>2, <2>3, <2>4
<1> QED
  BY <1>2 DEF Agree, AgreeAt

\* Of finitely many paths one has no other of them just below it.
LEMMA Lowest ==
  ASSUME NEW d, IsValue(d), NEW T, T \subseteq DOMAIN d, T # {}
  PROVE  \E p \in T : \A s \in Segment : Append(p, s) \notin T
<1>1. T \subseteq Seq(Segment) /\ IsFiniteSet(T)
  BY FS_Subset DEF IsValue, IsDocument
<1> DEFINE length == [q \in T |-> Len(q)]
           L == {length[q] : q \in DOMAIN length}
<1>2. IsFiniteSet(L)
  BY <1>1, FiniteValues
<1>3. L \subseteq Nat /\ L # {}
  <2>1. \A q \in T : Len(q) \in Nat
    BY <1>1
  <2> QED
    BY <2>1
<1>4. PICK n \in L : \A m \in L : m <= n
  BY <1>2, <1>3, LargestNumber
<1>5. PICK p \in T : n = Len(p)
  OBVIOUS
<1>6. \A q \in T : Len(q) <= Len(p)
  BY <1>4, <1>5
<1>7. ASSUME NEW s \in Segment, Append(p, s) \in T PROVE FALSE
  <2>1. Len(Append(p, s)) = Len(p) + 1 /\ Len(p) \in Nat
    BY <1>1, PathDown
  <2>2. Len(Append(p, s)) <= Len(p)
    BY <1>6, <1>7
  <2> QED
    BY <2>1, <2>2
<1> QED
  BY <1>7
-----------------------------------------------------------------------------
(***************************************************************************)
(* What diff says of a node.  A float that is NaN does not equal itself,   *)
(* so it is replaced by itself: X has the paths where this still happens.  *)
(***************************************************************************)
Containers == {"Object", "Array"}

Replacing(t, p) == <<Op("Replace", p, ValueAt(t, p))>>

NodeBut(b, t, X, p, D) ==
  IF b[p] = t[p] /\ Variant(b[p]) \notin Containers
  THEN IF p \in X THEN Replacing(t, p) ELSE <<>>
  ELSE DiffNode(b, t, p, D)

NaNs(t) == {p \in DOMAIN t : Held(t[p]) = NaN}

\* D is what diff_at pushes, path by path.
IsDiffs(D, b, t, X) ==
  D = [p \in DOMAIN b \cap DOMAIN t |-> NodeBut(b, t, X, p, D)]

OfObject(b, t, p, D) == Each(MembersRemoved(b, t, p)) \o Each(MembersVisited(b, t, p, D))

OfArray(b, t, p, D) ==
  Each(ElementsVisited(p, Held(b[p]), Held(t[p]), D))
    \o ElementsAppended(t, p, Held(b[p]), Held(t[p]))
    \o ElementsRemoved(p, Held(b[p]), Held(t[p]))

Both(b, t, p, variant) == Variant(b[p]) = variant /\ Variant(t[p]) = variant

\* The cases of diff_at.
LEMMA NodeCases ==
  ASSUME NEW b, NEW t, NEW X, NEW p, NEW D, IsNode(b[p]), IsNode(t[p])
  PROVE  /\ Both(b, t, p, "Object") => NodeBut(b, t, X, p, D) = OfObject(b, t, p, D)
         /\ Both(b, t, p, "Array") => NodeBut(b, t, X, p, D) = OfArray(b, t, p, D)
         /\ b[p] = t[p] /\ Variant(b[p]) \notin Containers =>
              NodeBut(b, t, X, p, D) = IF p \in X THEN Replacing(t, p) ELSE <<>>
         /\ b[p] # t[p] /\ Both(b, t, p, "I64") =>
              /\ NodeBut(b, t, X, p, D) = <<CounterOp(p, Held(b[p]), Held(t[p]))>>
              /\ Held(b[p]) # Held(t[p])
         /\ /\ b[p] # t[p] /\ ~ Both(b, t, p, "Object") /\ ~ Both(b, t, p, "Array")
            /\ ~ Both(b, t, p, "I64")
            => NodeBut(b, t, X, p, D) = Replacing(t, p)
<1>1. b[p] # t[p] /\ Both(b, t, p, "I64") => Held(b[p]) # Held(t[p])
  BY DEF IsNode, Both
<1>2. Both(b, t, p, "Object") => NodeBut(b, t, X, p, D) = OfObject(b, t, p, D)
  BY DEF NodeBut, Containers, DiffNode, OfObject, Both
<1>3. Both(b, t, p, "Array") => NodeBut(b, t, X, p, D) = OfArray(b, t, p, D)
  BY DEF NodeBut, Containers, DiffNode, OfArray, Both
<1>4. b[p] # t[p] /\ Both(b, t, p, "I64") =>
        NodeBut(b, t, X, p, D) = <<CounterOp(p, Held(b[p]), Held(t[p]))>>
  BY <1>1 DEF NodeBut, Containers, DiffNode, Both
<1>5. /\ b[p] # t[p] /\ ~ Both(b, t, p, "Object") /\ ~ Both(b, t, p, "Array")
      /\ ~ Both(b, t, p, "I64")
      => NodeBut(b, t, X, p, D) = Replacing(t, p)
  BY DEF NodeBut, Containers, DiffNode, Both, Differs, Replacing
<1> QED
  BY <1>1, <1>2, <1>3, <1>4, <1>5 DEF NodeBut

\* These are all.
LEMMA AllCases ==
  ASSUME NEW b, NEW t, NEW p
  PROVE  \/ Both(b, t, p, "Object") \/ Both(b, t, p, "Array")
         \/ b[p] = t[p] /\ Variant(b[p]) \notin Containers
         \/ b[p] # t[p] /\ Both(b, t, p, "I64")
         \/ /\ b[p] # t[p] /\ ~ Both(b, t, p, "Object") /\ ~ Both(b, t, p, "Array")
            /\ ~ Both(b, t, p, "I64")
BY DEF Both, Containers

\* Before anything is applied, it is all floats that are NaN.
LEMMA NodeIsDiffNode ==
  ASSUME NEW b, NEW t, NEW p \in DOMAIN t, NEW D
  PROVE  NodeBut(b, t, NaNs(t), p, D) = DiffNode(b, t, p, D)
<1>1. CASE b[p] = t[p] /\ Variant(b[p]) \notin Containers
  BY <1>1 DEF NodeBut, Containers, DiffNode, Differs, Replacing, NaNs
<1> QED
  BY <1>1 DEF NodeBut

\* Two documents with the same node at p, from which the same leads on, and for
\* which the same is pushed further down.
SameNode(b, e, t, p, D, E) ==
  /\ b[p] = e[p]
  /\ \A s \in Segment :
       /\ Append(p, s) \in DOMAIN b <=> Append(p, s) \in DOMAIN e
       /\ Append(p, s) \in DOMAIN b /\ Append(p, s) \in DOMAIN t =>
            D[Append(p, s)] = E[Append(p, s)]

\* What is pushed at p depends on this alone.
LEMMA NodeLocal ==
  ASSUME NEW b, IsDocument(b), NEW e, IsDocument(e), NEW t, IsDocument(t),
         NEW p \in DOMAIN t, p \in DOMAIN b, p \in DOMAIN e, NEW D, NEW E,
         SameNode(b, e, t, p, D, E), NEW X, NEW Y, p \in X <=> p \in Y
  PROVE  NodeBut(b, t, X, p, D) = NodeBut(e, t, Y, p, E)
<1>1. IsNode(b[p]) /\ IsNode(t[p]) /\ IsNode(e[p]) /\ b[p] = e[p]
  BY DEF IsDocument, SameNode
<1>2. CASE Both(b, t, p, "Object")
  <2>1. MemberKeys(b, p) = MemberKeys(e, p)
    BY SegmentKinds DEF MemberKeys, SameNode
  <2>2. MembersRemoved(b, t, p) = MembersRemoved(e, t, p)
    BY <2>1 DEF MembersRemoved
  <2>3. ASSUME NEW k \in MemberKeys(t, p)
        PROVE  /\ Append(p, Key(k)) \in DOMAIN b <=> Append(p, Key(k)) \in DOMAIN e
               /\ Append(p, Key(k)) \in DOMAIN b =>
                    D[Append(p, Key(k))] = E[Append(p, Key(k))]
    <3>1. Key(k) \in Segment /\ Append(p, Key(k)) \in DOMAIN t
      BY SegmentKinds DEF MemberKeys
    <3> QED
      BY <3>1 DEF SameNode
  <2>4. MembersVisited(b, t, p, D) = MembersVisited(e, t, p, E)
    BY <2>3 DEF MembersVisited
  <2>a. Both(e, t, p, "Object")
    BY <1>1, <1>2 DEF Both
  <2>b. NodeBut(b, t, X, p, D) = OfObject(b, t, p, D)
    BY <1>1, <1>2, NodeCases
  <2>c. NodeBut(e, t, Y, p, E) = OfObject(e, t, p, E)
    BY <1>1, <2>a, NodeCases
  <2>d. OfObject(b, t, p, D) = OfObject(e, t, p, E)
    BY <1>1, <2>2, <2>4 DEF OfObject
  <2> QED
    BY <2>b, <2>c, <2>d
<1>3. CASE Both(b, t, p, "Array")
  <2>1. ASSUME NEW i \in {i \in 0..(Held(b[p]) - 1) : i < Held(t[p])}
        PROVE  D[Append(p, Index(i))] = E[Append(p, Index(i))]
    <3>1. Held(b[p]) \in Nat /\ Held(t[p]) \in Nat
      BY <1>1, <1>3 DEF IsNode, Both
    <3>2. i \in Nat /\ i \in 0..(Held(b[p]) - 1) /\ i \in 0..(Held(t[p]) - 1)
      BY <3>1
    <3>3. Index(i) \in Segment
      BY <3>2, SegmentKinds
    <3>4. Append(p, Index(i)) \in DOMAIN b /\ Append(p, Index(i)) \in DOMAIN t
      BY <1>3, <3>2, <3>3, WhatIsBelow DEF Both
    <3> QED
      BY <3>3, <3>4 DEF SameNode
  <2>2. ElementsVisited(p, Held(b[p]), Held(t[p]), D)
          = ElementsVisited(p, Held(e[p]), Held(t[p]), E)
    BY <1>1, <2>1 DEF ElementsVisited
  <2>a. Both(e, t, p, "Array")
    BY <1>1, <1>3 DEF Both
  <2>b. NodeBut(b, t, X, p, D) = OfArray(b, t, p, D)
    BY <1>1, <1>3, NodeCases
  <2>c. NodeBut(e, t, Y, p, E) = OfArray(e, t, p, E)
    BY <1>1, <2>a, NodeCases
  <2>d. OfArray(b, t, p, D) = OfArray(e, t, p, E)
    BY <1>1, <2>2 DEF OfArray
  <2> QED
    BY <2>b, <2>c, <2>d
<1>4. CASE b[p] = t[p] /\ Variant(b[p]) \notin Containers
  <2>1. NodeBut(b, t, X, p, D) = IF p \in X THEN Replacing(t, p) ELSE <<>>
    BY <1>1, <1>4, NodeCases
  <2>2. e[p] = t[p] /\ Variant(e[p]) \notin Containers
    BY <1>1, <1>4
  <2>3. NodeBut(e, t, Y, p, E) = IF p \in Y THEN Replacing(t, p) ELSE <<>>
    BY <1>1, <2>2, NodeCases
  <2> QED
    BY <2>1, <2>3
<1>5. CASE b[p] # t[p] /\ Both(b, t, p, "I64")
  BY <1>1, <1>5, NodeCases DEF Both
<1>6. CASE /\ b[p] # t[p] /\ ~ Both(b, t, p, "Object") /\ ~ Both(b, t, p, "Array")
           /\ ~ Both(b, t, p, "I64")
  <2>1. /\ e[p] # t[p] /\ ~ Both(e, t, p, "Object") /\ ~ Both(e, t, p, "Array")
        /\ ~ Both(e, t, p, "I64")
    BY <1>1, <1>6 DEF Both
  <2> QED
    BY <1>1, <1>6, <2>1, NodeCases
<1> QED
  BY <1>2, <1>3, <1>4, <1>5, <1>6, AllCases

\* So it depends on what is at p and below.
LEMMA Local ==
  ASSUME NEW b, IsValue(b), NEW e, IsDocument(e), NEW t, IsDocument(t),
         NEW D, NEW X, IsDiffs(D, b, t, X), NEW E, NEW Y, IsDiffs(E, e, t, Y),
         NEW p \in DOMAIN b, p \in DOMAIN t, Agree(b, e, p),
         \A q \in Seq(Segment) : IsPrefix(p, q) => (q \in X <=> q \in Y)
  PROVE  p \in DOMAIN e /\ D[p] = E[p]
<1> DEFINE T == {q \in DOMAIN b : q \in DOMAIN t /\ IsPrefix(p, q) /\ D[q] # E[q]}
<1>1. /\ IsDocument(b) /\ DOMAIN b \subseteq Seq(Segment) /\ p \in Seq(Segment)
      /\ IsPrefix(p, p)
  BY PathDown, PrefixOfItself DEF IsValue, IsDocument
<1>2. T = {}
  <2> SUFFICES ASSUME T # {} PROVE FALSE
    OBVIOUS
  <2>1. T \subseteq DOMAIN b
    OBVIOUS
  <2>2. PICK q \in T : \A s \in Segment : Append(q, s) \notin T
    BY <2>1, Lowest
  <2>3. q \in DOMAIN b /\ q \in DOMAIN t /\ q \in Seq(Segment) /\ IsPrefix(p, q)
    BY <1>1
  <2>4. AgreeAt(b, e, q)
    BY <2>3 DEF Agree
  <2>5. ASSUME NEW s \in Segment
        PROVE  /\ Append(q, s) \in DOMAIN b <=> Append(q, s) \in DOMAIN e
               /\ Append(q, s) \in DOMAIN b /\ Append(q, s) \in DOMAIN t =>
                    D[Append(q, s)] = E[Append(q, s)]
    <3>1. Append(q, s) \in Seq(Segment) /\ IsPrefix(p, Append(q, s))
      BY <1>1, <2>3, PathDown, PrefixOfLonger
    <3>2. AgreeAt(b, e, Append(q, s))
      BY <3>1 DEF Agree
    <3> QED
      BY <2>2, <3>1, <3>2 DEF AgreeAt
  <2>6. SameNode(b, e, t, q, D, E)
    BY <2>3, <2>4, <2>5 DEF SameNode, AgreeAt
  <2>7. q \in DOMAIN e
    BY <2>3, <2>4 DEF AgreeAt
  <2>8. NodeBut(b, t, X, q, D) = NodeBut(e, t, Y, q, E)
    BY <1>1, <2>3, <2>6, <2>7, NodeLocal
  <2>9. D[q] = NodeBut(b, t, X, q, D) /\ E[q] = NodeBut(e, t, Y, q, E)
    BY <2>3, <2>7 DEF IsDiffs
  <2> QED
    BY <2>8, <2>9
<1>3. AgreeAt(b, e, p)
  BY <1>1 DEF Agree
<1> QED
  BY <1>1, <1>2, <1>3 DEF AgreeAt

\* diff_at comes to an end: what it pushes is well defined.
LEMMA DiffsExist ==
  ASSUME NEW b, IsValue(b), NEW t, IsDocument(t), NEW X
  PROVE  \E D : IsDiffs(D, b, t, X)
<1> DEFINE P == DOMAIN b \cap DOMAIN t
           From(m) == {p \in P : Len(p) >= m}
           Partial(g, m) == g = [p \in From(m) |-> NodeBut(b, t, X, p, g)]
<1>1. IsDocument(b) /\ P \subseteq DOMAIN b /\ P \subseteq Seq(Segment) /\ Root \in P
  BY DEF IsValue, IsDocument
<1>2. \A p \in P : Len(p) \in Nat
  BY <1>1
<1>3. PICK n \in Nat : \A p \in P : Len(p) <= n
  <2> DEFINE length == [q \in P |-> Len(q)]
             L == {length[q] : q \in DOMAIN length}
  <2>1. IsFiniteSet(P)
    BY <1>1, FS_Subset DEF IsValue
  <2>2. IsFiniteSet(L)
    BY <2>1, FiniteValues
  <2>3. L \subseteq Nat /\ L # {}
    BY <1>1, <1>2
  <2>4. PICK n \in L : \A m \in L : m <= n
    BY <2>2, <2>3, LargestNumber
  <2> QED
    BY <2>3, <2>4
<1> HIDE DEF P
<1> DEFINE T == {k \in Nat : k <= n + 1 /\ ~ \E g : Partial(g, (n + 1) - k)}
<1>4. T = {}
  <2> SUFFICES ASSUME T # {} PROVE FALSE
    OBVIOUS
  <2>1. PICK k \in T : \A j \in T : k <= j
    BY LeastNumber
  <2>2. k \in Nat /\ k <= n + 1 /\ ~ \E g : Partial(g, (n + 1) - k)
    OBVIOUS
  <2>3. \A j \in Nat : j <= n + 1 /\ j < k => \E g : Partial(g, (n + 1) - j)
    <3> TAKE j \in Nat
    <3>1. j < k => ~ (k <= j)
      BY <2>2
    <3> QED
      BY <2>1, <3>1
  <2> HIDE DEF T
  <2>4. k # 0
    <3> SUFFICES ASSUME k = 0 PROVE FALSE
      OBVIOUS
    <3> DEFINE g == [p \in {} |-> <<>>]
    <3>1. From((n + 1) - k) = {}
      <4> SUFFICES ASSUME NEW p \in P, Len(p) >= (n + 1) - k PROVE FALSE
        OBVIOUS
      <4>1. Len(p) \in Nat /\ Len(p) <= n
        BY <1>2, <1>3
      <4> QED
        BY <4>1
    <3> HIDE DEF From
    <3>2. [p \in From((n + 1) - k) |-> NodeBut(b, t, X, p, g)] = g
      BY <3>1
    <3>3. Partial(g, (n + 1) - k)
      BY <3>2
    <3> QED
      BY <2>2, <3>3
  <2> DEFINE m == (n + 1) - k
  <2>5. m \in Nat /\ m + 1 = (n + 1) - (k - 1) /\ k - 1 \in Nat /\ k - 1 <= n + 1 /\ k - 1 < k
    BY <2>2, <2>4
  <2>6. ~ \E g : Partial(g, m)
    BY <2>2
  <2>7. \E g : Partial(g, m + 1)
    <3> HIDE DEF Partial, From
    <3>1. \E g : Partial(g, (n + 1) - (k - 1))
      BY <2>3, <2>5
    <3> QED
      BY <2>5, <3>1
  <2> HIDE DEF m
  <2>8. PICK g : Partial(g, m + 1)
    BY <2>7
  <2> DEFINE more == [p \in From(m) |-> IF Len(p) >= m + 1 THEN g[p] ELSE NodeBut(b, t, X, p, g)]
  <2>9. \A p \in From(m + 1) : p \in From(m) /\ more[p] = g[p]
    <3> SUFFICES ASSUME NEW p \in From(m + 1)
                 PROVE  p \in From(m) /\ more[p] = g[p]
      OBVIOUS
    <3>1. p \in P /\ Len(p) >= m + 1 /\ Len(p) \in Nat
      BY <1>2
    <3>2. Len(p) >= m
      BY <2>5, <3>1
    <3> QED
      BY <3>1, <3>2
  <2>10. ASSUME NEW p \in From(m)
         PROVE  more[p] = NodeBut(b, t, X, p, more)
    <3>1. p \in P /\ p \in DOMAIN b /\ p \in DOMAIN t /\ p \in Seq(Segment)
          /\ Len(p) >= m /\ Len(p) \in Nat
      BY <1>1, <1>2 DEF P
    <3>2. ASSUME NEW s \in Segment, Append(p, s) \in DOMAIN b, Append(p, s) \in DOMAIN t
          PROVE  g[Append(p, s)] = more[Append(p, s)]
      <4>1. Append(p, s) \in P /\ Len(Append(p, s)) = Len(p) + 1
        BY <3>1, <3>2, PathDown DEF P
      <4>2. Append(p, s) \in From(m + 1)
        BY <2>5, <3>1, <4>1
      <4> QED
        BY <2>9, <4>2
    <3> HIDE DEF more
    <3>3. SameNode(b, b, t, p, g, more)
      BY <3>2 DEF SameNode
    <3>4. NodeBut(b, t, X, p, g) = NodeBut(b, t, X, p, more)
      BY <1>1, <3>1, <3>3, NodeLocal
    <3>5. CASE Len(p) >= m + 1
      <4>1. p \in From(m + 1)
        BY <3>1, <3>5
      <4>2. g[p] = NodeBut(b, t, X, p, g)
        BY <2>8, <4>1
      <4> QED
        BY <2>9, <3>4, <4>1, <4>2
    <3>6. CASE ~ (Len(p) >= m + 1)
      <4>1. more[p] = NodeBut(b, t, X, p, g)
        BY <3>6 DEF more
      <4> QED
        BY <3>4, <4>1
    <3> QED
      BY <3>5, <3>6
  <2>11. DOMAIN more = From(m) /\ more = [p \in DOMAIN more |-> more[p]]
    OBVIOUS
  <2> HIDE DEF more, From
  <2>12. Partial(more, m)
    BY <2>10, <2>11
  <2> QED
    BY <2>6, <2>12
<1>5. \E g : Partial(g, 0)
  <2> HIDE DEF Partial, From
  <2>1. n + 1 \in Nat /\ n + 1 <= n + 1 /\ (n + 1) - (n + 1) = 0
    OBVIOUS
  <2>2. \E g : Partial(g, (n + 1) - (n + 1))
    BY <1>4, <2>1
  <2> QED
    BY <2>1, <2>2
<1>6. PICK D : Partial(D, 0)
  BY <1>5
<1>7. From(0) = P
  BY <1>2
<1> HIDE DEF From
<1> QED
  BY <1>6, <1>7 DEF IsDiffs, P

\* Diffs is what diff_at pushes at first.
LEMMA DiffsAtFirst ==
  ASSUME NEW b, IsValue(b), NEW t, IsDocument(t)
  PROVE  IsDiffs(Diffs(b, t), b, t, NaNs(t))
<1> DEFINE P == DOMAIN b \cap DOMAIN t
<1>1. \A D : \A p \in P : NodeBut(b, t, NaNs(t), p, D) = DiffNode(b, t, p, D)
  BY NodeIsDiffNode
<1>2. \A D : IsDiffs(D, b, t, NaNs(t)) <=> D = [p \in P |-> DiffNode(b, t, p, D)]
  <2> TAKE D
  <2>1. [p \in P |-> NodeBut(b, t, NaNs(t), p, D)] = [p \in P |-> DiffNode(b, t, p, D)]
    BY <1>1
  <2> QED
    BY <2>1 DEF IsDiffs
<1>3. PICK D : D = [p \in P |-> DiffNode(b, t, p, D)]
  BY <1>2, DiffsExist
<1>4. Diffs(b, t) = [p \in P |-> DiffNode(b, t, p, Diffs(b, t))]
  BY <1>3 DEF Diffs
<1> QED
  BY <1>2, <1>4

\* There is one answer.
LEMMA DiffsUnique ==
  ASSUME NEW b, IsValue(b), NEW t, IsDocument(t), NEW X,
         NEW D, IsDiffs(D, b, t, X), NEW E, IsDiffs(E, b, t, X)
  PROVE  D[Root] = E[Root]
<1>1. Root \in DOMAIN b /\ Root \in DOMAIN t /\ IsDocument(b)
  BY DEF IsValue, IsDocument
<1>2. Agree(b, b, Root)
  BY DEF Agree, AgreeAt
<1> QED
  BY <1>1, <1>2, Local

\* The operations diff makes of the parts of t.
Values(t) == {Missing} \cup {ValueAt(t, q) : q \in DOMAIN t}
                       \cup {Leaf(<<"I64", n>>) : n \in I64}

\* What diff removes lies in a container of t, what it sets is at a path of t, and
\* what it counts is a counter there.
Pushed(t, kind, p, v) ==
  \/ kind = "Remove" /\ p # Root /\ Front(p) \in DOMAIN t /\ v = Missing
  \/ /\ kind \in {"Set", "Replace", "Append"} /\ p \in DOMAIN t
     /\ \E q \in DOMAIN t : v = ValueAt(t, q)
  \/ /\ kind \in {"Increment", "Decrement"} /\ p \in DOMAIN t /\ Variant(t[p]) = "I64"
     /\ v \in {Leaf(<<"I64", n>>) : n \in I64}

OpsFor(t) == {o \in [kind : DeltaOpKind, path : Seq(Segment), value : Values(t),
                     from : {Missing}, index : {Missing}] :
                Pushed(t, o.kind, o.path, o.value)}

\* The form of an operation from diff.
LEMMA OpType ==
  ASSUME NEW t, NEW kind \in DeltaOpKind, NEW p \in Seq(Segment), NEW v \in Values(t),
         Pushed(t, kind, p, v)
  PROVE  Op(kind, p, v) \in OpsFor(t)
<1> DEFINE o == Op(kind, p, v)
<1>1. o \in [kind : DeltaOpKind, path : Seq(Segment), value : Values(t),
             from : {Missing}, index : {Missing}]
  BY DEF Op
<1>2. o.kind = kind /\ o.path = p /\ o.value = v
  BY DEF Op
<1> HIDE DEF o
<1>3. Pushed(t, o.kind, o.path, o.value)
  BY <1>2
<1>4. o \in OpsFor(t)
  BY <1>1, <1>3 DEF OpsFor
<1> QED
  BY <1>4 DEF o

\* A finite document has finitely many members.
LEMMA KeysFinite ==
  ASSUME NEW d, IsValue(d), NEW p \in Seq(Segment)
  PROVE  IsFiniteSet(MemberKeys(d, p)) /\ MemberKeys(d, p) \subseteq Nat
<1> DEFINE key == [q \in DOMAIN d |-> Last(q)[2]]
           S == {key[q] : q \in DOMAIN key}
<1>1. IsFiniteSet(S)
  BY FiniteValues DEF IsValue
<1>2. MemberKeys(d, p) \subseteq S
  <2> SUFFICES ASSUME NEW k \in MemberKeys(d, p) PROVE k \in S
    OBVIOUS
  <2>1. Append(p, Key(k)) \in DOMAIN d /\ Last(Append(p, Key(k))) = Key(k)
    BY SegmentKinds, PathDown DEF MemberKeys
  <2>2. Key(k)[2] = k
    BY DEF Key
  <2>3. key[Append(p, Key(k))] = k
    BY <2>1, <2>2
  <2> QED
    BY <2>1, <2>3
<1> HIDE DEF S
<1>3. MemberKeys(d, p) \subseteq Nat
  BY DocumentConstants DEF MemberKeys
<1> QED
  BY <1>1, <1>2, <1>3, FS_Subset

\* What is pushed further down has been typed.
TypedBelow(b, t, p, D) ==
  \A s \in Segment : Append(p, s) \in DOMAIN b /\ Append(p, s) \in DOMAIN t =>
    D[Append(p, s)] \in Seq(OpsFor(t))

PartsTyped(b, t, p, D) ==
  /\ IsParts(MembersRemoved(b, t, p), OpsFor(t))
  /\ IsParts(MembersVisited(b, t, p, D), OpsFor(t))
  /\ Both(b, t, p, "Array") =>
       /\ IsParts(ElementsVisited(p, Held(b[p]), Held(t[p]), D), OpsFor(t))
       /\ ElementsAppended(t, p, Held(b[p]), Held(t[p])) \in Seq(OpsFor(t))
       /\ ElementsRemoved(p, Held(b[p]), Held(t[p])) \in Seq(OpsFor(t))

\* A function on the first numbers is a sequence.
LEMMA RowType ==
  ASSUME NEW O, NEW n \in Int, NEW s \in [1..n -> O]
  PROVE  s \in Seq(O)
<1>1. CASE n >= 0
  BY <1>1
<1>2. CASE ~ (n >= 0)
  BY <1>2
<1> QED
  BY <1>1, <1>2

\* What diff_at pushes for the members and elements of a node is typed if what it
\* pushes further down is.
LEMMA NodeParts ==
  ASSUME NEW b, IsValue(b), NEW t, IsValue(t), NEW p \in DOMAIN b, p \in DOMAIN t,
         NEW D, TypedBelow(b, t, p, D)
  PROVE  PartsTyped(b, t, p, D)
<1> DEFINE O == OpsFor(t)
<1>1. /\ IsDocument(b) /\ IsDocument(t) /\ p \in Seq(Segment)
      /\ IsNode(b[p]) /\ IsNode(t[p])
  BY DEF IsValue, IsDocument
<1>2. /\ IsFiniteSet(MemberKeys(b, p)) /\ MemberKeys(b, p) \subseteq Nat
      /\ IsFiniteSet(MemberKeys(t, p)) /\ MemberKeys(t, p) \subseteq Nat
  BY <1>1, KeysFinite
<1>3. {"Set", "Remove", "Append", "Replace"} \subseteq DeltaOpKind /\ Missing \in Values(t)
  BY DEF DeltaOpKind, Values
<1>4. IsParts(MembersRemoved(b, t, p), O)
  <2> DEFINE V == MembersRemoved(b, t, p)
  <2>1. DOMAIN V = MemberKeys(b, p) \ MemberKeys(t, p)
    BY DEF MembersRemoved
  <2>2. IsFiniteSet(DOMAIN V) /\ DOMAIN V \subseteq Nat
    BY <1>2, <2>1, FS_Subset
  <2>3. ASSUME NEW k \in DOMAIN V PROVE V[k] \in Seq(O)
    <3>1. Append(p, Key(k)) \in Seq(Segment)
      BY <1>1, <2>1, SegmentKinds DEF MemberKeys
    <3>2. Op("Remove", Append(p, Key(k)), Missing) \in O
      <4>1. /\ Append(p, Key(k)) # Root /\ Front(Append(p, Key(k))) \in DOMAIN t
        BY <1>1, <2>1, SegmentKinds, PathDown DEF MemberKeys
      <4>2. Pushed(t, "Remove", Append(p, Key(k)), Missing)
        BY <4>1 DEF Pushed
      <4> QED
        BY <1>3, <3>1, <4>2, OpType
    <3>3. V[k] = <<Op("Remove", Append(p, Key(k)), Missing)>>
      BY <2>1 DEF MembersRemoved
    <3> HIDE DEF O, V
    <3> QED
      BY <3>2, <3>3
  <2> QED
    BY <2>2, <2>3 DEF IsParts
<1>5. IsParts(MembersVisited(b, t, p, D), O)
  <2> DEFINE V == MembersVisited(b, t, p, D)
  <2>1. DOMAIN V = MemberKeys(t, p)
    BY DEF MembersVisited
  <2>2. IsFiniteSet(DOMAIN V) /\ DOMAIN V \subseteq Nat
    BY <1>2, <2>1
  <2>3. ASSUME NEW k \in DOMAIN V PROVE V[k] \in Seq(O)
    <3> DEFINE q == Append(p, Key(k))
    <3>1. Key(k) \in Segment /\ q \in Seq(Segment) /\ q \in DOMAIN t
      BY <1>1, <2>1, SegmentKinds DEF MemberKeys
    <3>2. V[k] = IF q \in DOMAIN b THEN D[q] ELSE <<Op("Set", q, ValueAt(t, q))>>
      BY <2>1 DEF MembersVisited
    <3>3. Op("Set", q, ValueAt(t, q)) \in O
      <4>1. ValueAt(t, q) \in Values(t)
        BY <3>1 DEF Values
      <4>2. Pushed(t, "Set", q, ValueAt(t, q))
        BY <3>1 DEF Pushed
      <4> QED
        BY <1>3, <3>1, <4>1, <4>2, OpType
    <3>4. q \in DOMAIN b => D[q] \in Seq(O)
      BY <3>1 DEF TypedBelow
    <3> HIDE DEF O, V, q
    <3> QED
      BY <3>2, <3>3, <3>4
  <2> QED
    BY <2>2, <2>3 DEF IsParts
<1>6. ASSUME Both(b, t, p, "Array")
      PROVE  /\ IsParts(ElementsVisited(p, Held(b[p]), Held(t[p]), D), O)
             /\ ElementsAppended(t, p, Held(b[p]), Held(t[p])) \in Seq(O)
             /\ ElementsRemoved(p, Held(b[p]), Held(t[p])) \in Seq(O)
  <2> DEFINE m == Held(b[p])
             n == Held(t[p])
  <2>1. /\ m \in Nat /\ n \in Nat
        /\ \A i \in 0..(m - 1) : Append(p, Index(i)) \in DOMAIN b
        /\ \A i \in 0..(n - 1) : Append(p, Index(i)) \in DOMAIN t
    BY <1>1, <1>6, SegmentKinds, WhatIsBelow DEF Both
  <2> HIDE DEF m, n
  <2>2. IsParts(ElementsVisited(p, m, n, D), O)
    <3> DEFINE V == ElementsVisited(p, m, n, D)
    <3>1. DOMAIN V = {i \in 0..(m - 1) : i < n}
      BY DEF ElementsVisited
    <3>2. IsFiniteSet(0..(m - 1)) /\ DOMAIN V \subseteq 0..(m - 1)
      BY <2>1, <3>1, FS_Interval
    <3>3. IsFiniteSet(DOMAIN V) /\ DOMAIN V \subseteq Nat
      <4>1. IsFiniteSet(DOMAIN V)
        BY <3>2, FS_Subset
      <4>2. 0..(m - 1) \subseteq Nat
        OBVIOUS
      <4> QED
        BY <3>2, <4>1, <4>2
    <3>4. ASSUME NEW i \in DOMAIN V PROVE V[i] \in Seq(O)
      <4>1. i \in Nat /\ i \in 0..(m - 1) /\ i \in 0..(n - 1)
        BY <2>1, <3>1
      <4>2. V[i] = D[Append(p, Index(i))]
        BY <3>1 DEF ElementsVisited
      <4>3. Index(i) \in Segment
        BY <4>1, SegmentKinds
      <4> QED
        BY <2>1, <4>1, <4>2, <4>3 DEF TypedBelow
    <3> QED
      BY <3>3, <3>4 DEF IsParts
  <2>3. ElementsAppended(t, p, m, n) \in Seq(O)
    <3> DEFINE V == ElementsAppended(t, p, m, n)
    <3> DEFINE k == n - m
    <3>1. k \in Int /\ V = [i \in 1..k |-> V[i]]
      BY <2>1 DEF ElementsAppended
    <3>2. ASSUME NEW i \in 1..k PROVE V[i] \in O
      <4>1. m + i - 1 \in 0..(n - 1) /\ m + i - 1 \in Nat
        BY <2>1
      <4>2. ValueAt(t, Append(p, Index(m + i - 1))) \in Values(t)
        BY <2>1, <4>1 DEF Values
      <4>3. V[i] = Op("Append", p, ValueAt(t, Append(p, Index(m + i - 1))))
        BY DEF ElementsAppended
      <4>4. Pushed(t, "Append", p, ValueAt(t, Append(p, Index(m + i - 1))))
        BY <2>1, <4>1 DEF Pushed
      <4> QED
        BY <1>1, <1>3, <4>2, <4>3, <4>4, OpType
    <3> HIDE DEF V, O, k
    <3>3. V \in [1..k -> O]
      BY <3>1, <3>2
    <3>4. V \in Seq(O)
      BY <3>1, <3>3, RowType
    <3> QED
      BY <3>4 DEF V, O
  <2>4. ElementsRemoved(p, m, n) \in Seq(O)
    <3> DEFINE V == ElementsRemoved(p, m, n)
    <3> DEFINE k == m - n
    <3>1. k \in Int /\ V = [i \in 1..k |-> V[i]]
      BY <2>1 DEF ElementsRemoved
    <3>2. ASSUME NEW i \in 1..k PROVE V[i] \in O
      <4>1. m - i \in Nat
        BY <2>1
      <4>2. Append(p, Index(m - i)) \in Seq(Segment)
        BY <1>1, <4>1, SegmentKinds
      <4>3. V[i] = Op("Remove", Append(p, Index(m - i)), Missing)
        BY DEF ElementsRemoved
      <4>4. /\ Append(p, Index(m - i)) # Root
            /\ Front(Append(p, Index(m - i))) \in DOMAIN t
        BY <1>1, <4>1, SegmentKinds, PathDown
      <4>5. Pushed(t, "Remove", Append(p, Index(m - i)), Missing)
        BY <4>4 DEF Pushed
      <4> QED
        BY <1>3, <4>2, <4>3, <4>5, OpType
    <3> HIDE DEF V, O, k
    <3>3. V \in [1..k -> O]
      BY <3>1, <3>2
    <3>4. V \in Seq(O)
      BY <3>1, <3>3, RowType
    <3> QED
      BY <3>4 DEF V, O
  <2> QED
    BY <2>2, <2>3, <2>4 DEF m, n
<1> QED
  BY <1>4, <1>5, <1>6 DEF PartsTyped

\* And so is all that it pushes at the node.
LEMMA NodeType ==
  ASSUME NEW b, IsValue(b), NEW t, IsValue(t), NEW p \in DOMAIN b, p \in DOMAIN t,
         NEW D, TypedBelow(b, t, p, D), NEW X
  PROVE  NodeBut(b, t, X, p, D) \in Seq(OpsFor(t))
<1> DEFINE O == OpsFor(t)
<1>1. /\ IsDocument(b) /\ IsDocument(t) /\ p \in Seq(Segment)
      /\ IsNode(b[p]) /\ IsNode(t[p])
  BY DEF IsValue, IsDocument
<1>2. PartsTyped(b, t, p, D)
  BY NodeParts
<1>3. Replacing(t, p) \in Seq(O) /\ <<>> \in Seq(O)
  <2>1. ValueAt(t, p) \in Values(t) /\ "Replace" \in DeltaOpKind
    BY DEF Values, DeltaOpKind
  <2>2. Op("Replace", p, ValueAt(t, p)) \in O
    <3>1. Pushed(t, "Replace", p, ValueAt(t, p))
      BY DEF Pushed
    <3> QED
      BY <1>1, <2>1, <3>1, OpType
  <2> HIDE DEF O
  <2> QED
    BY <2>2 DEF Replacing
<1>4. CASE Both(b, t, p, "Object")
  <2>1. /\ Each(MembersRemoved(b, t, p)) \in Seq(O)
        /\ Each(MembersVisited(b, t, p, D)) \in Seq(O)
    BY <1>2, EachType DEF PartsTyped
  <2>2. OfObject(b, t, p, D) \in Seq(O)
    BY <2>1 DEF OfObject
  <2> QED
    BY <1>1, <1>4, <2>2, NodeCases
<1>5. CASE Both(b, t, p, "Array")
  <2>1. Each(ElementsVisited(p, Held(b[p]), Held(t[p]), D)) \in Seq(O)
    BY <1>2, <1>5, EachType DEF PartsTyped
  <2>2. OfArray(b, t, p, D) \in Seq(O)
    BY <1>2, <1>5, <2>1 DEF OfArray, PartsTyped
  <2> QED
    BY <1>1, <1>5, <2>2, NodeCases
<1>6. CASE b[p] = t[p] /\ Variant(b[p]) \notin Containers
  <2>1. NodeBut(b, t, X, p, D) = IF p \in X THEN Replacing(t, p) ELSE <<>>
    BY <1>1, <1>6, NodeCases
  <2> QED
    BY <1>3, <2>1
<1>7. CASE b[p] # t[p] /\ Both(b, t, p, "I64")
  <2>1. \A n \in Int : Leaf(<<"I64", WrapI64(n)>>) \in Values(t)
    BY Wraps DEF Values
  <2>2. Held(b[p]) \in Int /\ Held(t[p]) \in Int
    BY <1>1, <1>7, Wraps DEF IsNode, Both
  <2>3. {"Increment", "Decrement"} \subseteq DeltaOpKind
    BY DEF DeltaOpKind
  <2>4. /\ Leaf(<<"I64", WrapI64(Held(t[p]) - Held(b[p]))>>) \in Values(t)
        /\ Leaf(<<"I64", WrapI64(Held(b[p]) - Held(t[p]))>>) \in Values(t)
    BY <2>1, <2>2
  <2>5. CounterOp(p, Held(b[p]), Held(t[p])) \in O
    <3>1. /\ \A n \in Int : Leaf(<<"I64", WrapI64(n)>>) \in {Leaf(<<"I64", i>>) : i \in I64}
          /\ Variant(t[p]) = "I64"
      BY <1>7, Wraps DEF Both
    <3>2. \A kind \in {"Increment", "Decrement"} : \A n \in Int :
            Pushed(t, kind, p, Leaf(<<"I64", WrapI64(n)>>))
      BY <3>1 DEF Pushed
    <3>3. Held(t[p]) - Held(b[p]) \in Int /\ Held(b[p]) - Held(t[p]) \in Int
      BY <2>2
    <3> QED
      BY <1>1, <2>3, <2>4, <3>2, <3>3, OpType DEF CounterOp
  <2>6. NodeBut(b, t, X, p, D) = <<CounterOp(p, Held(b[p]), Held(t[p]))>>
    BY <1>1, <1>7, NodeCases
  <2> DEFINE op == CounterOp(p, Held(b[p]), Held(t[p]))
  <2>7. op \in O /\ NodeBut(b, t, X, p, D) = <<op>>
    BY <2>5, <2>6
  <2> HIDE DEF O, op
  <2>8. <<op>> \in Seq(O)
    BY <2>7
  <2> QED
    BY <2>7, <2>8 DEF O
<1>8. CASE /\ b[p] # t[p] /\ ~ Both(b, t, p, "Object") /\ ~ Both(b, t, p, "Array")
           /\ ~ Both(b, t, p, "I64")
  BY <1>1, <1>3, <1>8, NodeCases
<1> QED
  BY <1>4, <1>5, <1>6, <1>7, <1>8, AllCases

\* What diff pushes are operations.
LEMMA DiffsType ==
  ASSUME NEW b, IsValue(b), NEW t, IsValue(t), NEW X, NEW D, IsDiffs(D, b, t, X),
         NEW p \in DOMAIN b, p \in DOMAIN t
  PROVE  D[p] \in Seq(OpsFor(t)) /\ PartsTyped(b, t, p, D)
<1> DEFINE T == {q \in DOMAIN b : q \in DOMAIN t /\ D[q] \notin Seq(OpsFor(t))}
<1>1. T = {}
  <2> SUFFICES ASSUME T # {} PROVE FALSE
    OBVIOUS
  <2>1. T \subseteq DOMAIN b
    OBVIOUS
  <2>2. PICK q \in T : \A s \in Segment : Append(q, s) \notin T
    BY <2>1, Lowest
  <2>3. TypedBelow(b, t, q, D)
    BY <2>2 DEF TypedBelow
  <2>4. NodeBut(b, t, X, q, D) \in Seq(OpsFor(t))
    BY <2>3, NodeType
  <2> QED
    BY <2>4 DEF IsDiffs
<1>2. TypedBelow(b, t, p, D)
  BY <1>1 DEF TypedBelow
<1> QED
  BY <1>1, <1>2, NodeParts

\* The same leads on from p in both documents; nothing is pushed for it.
SameBelow(b, t, p) ==
  \A s \in Segment : Append(p, s) \in DOMAIN b <=> Append(p, s) \in DOMAIN t

NothingBelow(b, t, p, D) ==
  \A s \in Segment : Append(p, s) \in DOMAIN b /\ Append(p, s) \in DOMAIN t =>
    D[Append(p, s)] = <<>>

\* Nothing is pushed for the members of two objects.
LEMMA ObjectEmpty ==
  ASSUME NEW b, IsDocument(b), NEW t, IsDocument(t), NEW p \in DOMAIN b, p \in DOMAIN t,
         NEW D, PartsTyped(b, t, p, D), Both(b, t, p, "Object")
  PROVE  OfObject(b, t, p, D) = <<>> <=> SameBelow(b, t, p) /\ NothingBelow(b, t, p, D)
<1> DEFINE R == MembersRemoved(b, t, p)
           V == MembersVisited(b, t, p, D)
<1>1. /\ Each(R) \in Seq(OpsFor(t)) /\ Each(V) \in Seq(OpsFor(t))
      /\ Each(R) = <<>> <=> \A k \in DOMAIN R : R[k] = <<>>
      /\ Each(V) = <<>> <=> \A k \in DOMAIN V : V[k] = <<>>
  BY EachType DEF PartsTyped
<1>2. OfObject(b, t, p, D) = <<>> <=> Each(R) = <<>> /\ Each(V) = <<>>
  <2> HIDE DEF R, V
  <2>1. Each(R) \o Each(V) = <<>> <=> Each(R) = <<>> /\ Each(V) = <<>>
    BY <1>1, ConcatEqualIffEmpty
  <2> QED
    BY <2>1 DEF OfObject, R, V
<1>3. Each(R) = <<>> <=> MemberKeys(b, p) \subseteq MemberKeys(t, p)
  <2>1. DOMAIN R = MemberKeys(b, p) \ MemberKeys(t, p)
    BY DEF MembersRemoved
  <2>2. \A k \in DOMAIN R : R[k] = <<Op("Remove", Append(p, Key(k)), Missing)>>
    BY <2>1 DEF MembersRemoved
  <2>3. \A k \in DOMAIN R : R[k] # <<>>
    BY <2>2
  <2> HIDE DEF R
  <2> QED
    BY <1>1, <2>1, <2>3
<1>4. Each(V) = <<>> <=> \A k \in MemberKeys(t, p) :
        Append(p, Key(k)) \in DOMAIN b /\ D[Append(p, Key(k))] = <<>>
  <2>1. DOMAIN V = MemberKeys(t, p)
    BY DEF MembersVisited
  <2>2. \A k \in MemberKeys(t, p) :
          V[k] = IF Append(p, Key(k)) \in DOMAIN b THEN D[Append(p, Key(k))]
                 ELSE <<Op("Set", Append(p, Key(k)), ValueAt(t, Append(p, Key(k))))>>
    BY DEF MembersVisited
  <2>3. \A k \in MemberKeys(t, p) :
          <<Op("Set", Append(p, Key(k)), ValueAt(t, Append(p, Key(k))))>> # <<>>
    OBVIOUS
  <2> HIDE DEF V
  <2> QED
    BY <1>1, <2>1, <2>2, <2>3
<1>5. Variant(b[p]) = "Object" /\ Variant(t[p]) = "Object"
  BY DEF Both
<1>6. \A s \in Segment :
        /\ Append(p, s) \in DOMAIN b => s[2] \in MemberKeys(b, p) /\ s = Key(s[2])
        /\ Append(p, s) \in DOMAIN t => s[2] \in MemberKeys(t, p) /\ s = Key(s[2])
  <2> TAKE s \in Segment
  <2> QED
    BY <1>5, WhatIsBelow
<1>7. /\ \A k \in MemberKeys(b, p) : Append(p, Key(k)) \in DOMAIN b /\ Key(k) \in Segment
      /\ \A k \in MemberKeys(t, p) : Append(p, Key(k)) \in DOMAIN t /\ Key(k) \in Segment
  BY SegmentKinds DEF MemberKeys
<1>8. MemberKeys(b, p) \subseteq Keys /\ MemberKeys(t, p) \subseteq Keys
      /\ \A k \in Keys : /\ k \in MemberKeys(b, p) <=> Append(p, Key(k)) \in DOMAIN b
                         /\ k \in MemberKeys(t, p) <=> Append(p, Key(k)) \in DOMAIN t
  BY DEF MemberKeys
<1> HIDE DEF R, V
<1>9. ASSUME SameBelow(b, t, p), NothingBelow(b, t, p, D)
      PROVE  Each(R) = <<>> /\ Each(V) = <<>>
  BY <1>3, <1>4, <1>7, <1>8, <1>9 DEF SameBelow, NothingBelow
<1>10. ASSUME Each(R) = <<>>, Each(V) = <<>>
       PROVE  SameBelow(b, t, p) /\ NothingBelow(b, t, p, D)
  <2>1. \A k \in MemberKeys(t, p) :
          Append(p, Key(k)) \in DOMAIN b /\ D[Append(p, Key(k))] = <<>>
    BY <1>4, <1>10
  <2>2. MemberKeys(b, p) \subseteq MemberKeys(t, p)
    BY <1>3, <1>10
  <2>3. SameBelow(b, t, p)
    BY <1>6, <1>7, <2>1, <2>2 DEF SameBelow
  <2>4. NothingBelow(b, t, p, D)
    BY <1>6, <2>1 DEF NothingBelow
  <2> QED
    BY <2>3, <2>4
<1> QED
  BY <1>2, <1>9, <1>10

\* Nothing is pushed for the elements of two arrays.
LEMMA ArrayEmpty ==
  ASSUME NEW b, IsDocument(b), NEW t, IsDocument(t), NEW p \in DOMAIN b, p \in DOMAIN t,
         NEW D, PartsTyped(b, t, p, D), Both(b, t, p, "Array")
  PROVE  OfArray(b, t, p, D) = <<>> <=> b[p] = t[p] /\ NothingBelow(b, t, p, D)
<1> DEFINE m == Held(b[p])
           n == Held(t[p])
           O == OpsFor(t)
           V == ElementsVisited(p, m, n, D)
           A == ElementsAppended(t, p, m, n)
           R == ElementsRemoved(p, m, n)
<1>1. /\ Variant(b[p]) = "Array" /\ Variant(t[p]) = "Array"
      /\ b[p] = <<Variant(b[p]), m>> /\ t[p] = <<Variant(t[p]), n>>
      /\ p \in Seq(Segment)
  BY DEF Both, IsDocument, IsNode
<1>2. \A s \in Segment :
        /\ m \in Nat /\ n \in Nat
        /\ Append(p, s) \in DOMAIN b => s[2] \in 0..(m - 1) /\ s = Index(s[2])
        /\ Append(p, s) \in DOMAIN t => s[2] \in 0..(n - 1) /\ s = Index(s[2])
        /\ \A i \in 0..(m - 1) : Append(p, Index(i)) \in DOMAIN b /\ Index(i) \in Segment
        /\ \A i \in 0..(n - 1) : Append(p, Index(i)) \in DOMAIN t /\ Index(i) \in Segment
  <2> TAKE s \in Segment
  <2> QED
    BY <1>1, WhatIsBelow
<1>3. m \in Nat /\ n \in Nat
  BY <1>1 DEF IsDocument, IsNode
<1>4. IsParts(V, O) /\ A \in Seq(O) /\ R \in Seq(O)
  BY DEF PartsTyped
<1>5. Each(V) \in Seq(O) /\ (Each(V) = <<>> <=> \A i \in DOMAIN V : V[i] = <<>>)
  BY <1>4, EachType
<1>6. OfArray(b, t, p, D) = (Each(V) \o A) \o R
  BY DEF OfArray
<1>7. DOMAIN V = {i \in 0..(m - 1) : i < n} /\ \A i \in DOMAIN V : V[i] = D[Append(p, Index(i))]
  BY DEF ElementsVisited
<1>8. A = <<>> <=> n <= m
  <2>1. A = [i \in 1..(n - m) |-> A[i]]
    BY DEF ElementsAppended
  <2>2. Len(A) = IF n - m > 0 THEN n - m ELSE 0
    <3> DEFINE k == n - m
    <3>1. k \in Int
      BY <1>3
    <3> HIDE DEF A, k
    <3>2. A = [i \in 1..k |-> A[i]]
      BY <2>1 DEF k
    <3>3. Len(A) = IF k > 0 THEN k ELSE 0
      <4>1. CASE k > 0
        BY <3>1, <3>2, <4>1
      <4>2. CASE ~ (k > 0)
        <5>1. 1..k = {}
          BY <3>1, <4>2
        <5>2. A = <<>>
          BY <3>2, <5>1
        <5> QED
          BY <4>2, <5>2
      <4> QED
        BY <4>1, <4>2
    <3> QED
      BY <3>3 DEF k
  <2> HIDE DEF A, m, n, O
  <2>3. A = <<>> <=> Len(A) = 0
    BY <1>4
  <2> QED
    BY <1>3, <2>2, <2>3
<1>9. R = <<>> <=> m <= n
  <2>1. R = [i \in 1..(m - n) |-> R[i]]
    BY DEF ElementsRemoved
  <2>2. Len(R) = IF m - n > 0 THEN m - n ELSE 0
    <3> DEFINE k == m - n
    <3>1. k \in Int
      BY <1>3
    <3> HIDE DEF R, k
    <3>2. R = [i \in 1..k |-> R[i]]
      BY <2>1 DEF k
    <3>3. Len(R) = IF k > 0 THEN k ELSE 0
      <4>1. CASE k > 0
        BY <3>1, <3>2, <4>1
      <4>2. CASE ~ (k > 0)
        <5>1. 1..k = {}
          BY <3>1, <4>2
        <5>2. R = <<>>
          BY <3>2, <5>1
        <5> QED
          BY <4>2, <5>2
      <4> QED
        BY <4>1, <4>2
    <3> QED
      BY <3>3 DEF k
  <2> HIDE DEF R, m, n, O
  <2>3. R = <<>> <=> Len(R) = 0
    BY <1>4
  <2> QED
    BY <1>3, <2>2, <2>3
<1>10. OfArray(b, t, p, D) = <<>> <=> Each(V) = <<>> /\ A = <<>> /\ R = <<>>
  <2> HIDE DEF V, A, R, O
  <2>1. Each(V) \o A \in Seq(O) /\ (Each(V) \o A = <<>> <=> Each(V) = <<>> /\ A = <<>>)
    BY <1>4, <1>5, ConcatEqualIffEmpty, ConcatProperties
  <2>2. (Each(V) \o A) \o R = <<>> <=> Each(V) \o A = <<>> /\ R = <<>>
    BY <1>4, <2>1, ConcatEqualIffEmpty
  <2> QED
    BY <1>6, <2>1, <2>2
<1> HIDE DEF V, A, R
<1>11. b[p] = t[p] <=> m = n
  BY <1>1
<1> HIDE DEF m, n
<1>12. ASSUME m = n
       PROVE  Each(V) = <<>> <=> NothingBelow(b, t, p, D)
  <2>1. Each(V) = <<>> <=> \A i \in 0..(m - 1) : D[Append(p, Index(i))] = <<>>
    BY <1>3, <1>5, <1>7, <1>12
  <2>2. \A i \in 0..(m - 1) : /\ Index(i) \in Segment /\ Append(p, Index(i)) \in DOMAIN b
                              /\ Append(p, Index(i)) \in DOMAIN t
    <3> TAKE i \in 0..(m - 1)
    <3>1. i \in Nat /\ i \in 0..(n - 1)
      BY <1>3, <1>12
    <3>2. Index(i) \in Segment
      BY <3>1, SegmentKinds
    <3> QED
      BY <1>2, <3>1, <3>2
  <2>3. \A s \in Segment : Append(p, s) \in DOMAIN b => s[2] \in 0..(m - 1) /\ s = Index(s[2])
    BY <1>2
  <2>4. ASSUME \A i \in 0..(m - 1) : D[Append(p, Index(i))] = <<>>
        PROVE  NothingBelow(b, t, p, D)
    BY <2>3, <2>4 DEF NothingBelow
  <2>5. ASSUME NothingBelow(b, t, p, D)
        PROVE  \A i \in 0..(m - 1) : D[Append(p, Index(i))] = <<>>
    BY <2>2, <2>5 DEF NothingBelow
  <2> QED
    BY <2>1, <2>4, <2>5
<1> QED
  BY <1>3, <1>8, <1>9, <1>10, <1>11, <1>12

\* Scalars have nothing below them; arrays of one length have the same.
LEMMA SameNodeSameBelow ==
  ASSUME NEW b, IsDocument(b), NEW t, IsDocument(t), NEW p \in DOMAIN b, p \in DOMAIN t,
         b[p] = t[p], Variant(b[p]) # "Object"
  PROVE  SameBelow(b, t, p)
<1> SUFFICES ASSUME NEW s \in Segment
             PROVE  Append(p, s) \in DOMAIN b <=> Append(p, s) \in DOMAIN t
  BY DEF SameBelow
<1>1. ASSUME NEW d, IsDocument(d), p \in DOMAIN d, NEW e, IsDocument(e), p \in DOMAIN e,
             d[p] = e[p], Variant(d[p]) # "Object", Append(p, s) \in DOMAIN d
      PROVE  Append(p, s) \in DOMAIN e
  <2>1. /\ Variant(d[p]) = "Array" /\ Held(d[p]) \in Nat
        /\ s[2] \in 0..(Held(d[p]) - 1) /\ s = Index(s[2])
    BY <1>1, WhatIsBelow
  <2>2. \A i \in 0..(Held(e[p]) - 1) : Append(p, Index(i)) \in DOMAIN e
    BY <1>1, <2>1, WhatIsBelow
  <2> QED
    BY <1>1, <2>1, <2>2
<1>2. ASSUME Append(p, s) \in DOMAIN b PROVE Append(p, s) \in DOMAIN t
  BY <1>1, <1>2
<1>3. ASSUME Append(p, s) \in DOMAIN t PROVE Append(p, s) \in DOMAIN b
  BY <1>1, <1>3
<1> QED
  BY <1>2, <1>3

\* Nothing is pushed for a path when the nodes are the same there, the same
\* leads on, and nothing is pushed further down.
LEMMA NodeEmpty ==
  ASSUME NEW b, IsValue(b), NEW t, IsValue(t), NEW p \in DOMAIN b, p \in DOMAIN t,
         NEW X, NEW D, PartsTyped(b, t, p, D)
  PROVE  /\ NodeBut(b, t, X, p, D) = <<>> =>
              b[p] = t[p] /\ SameBelow(b, t, p) /\ NothingBelow(b, t, p, D)
         /\ b[p] = t[p] /\ p \notin X /\ SameBelow(b, t, p) /\ NothingBelow(b, t, p, D) =>
              NodeBut(b, t, X, p, D) = <<>>
<1> DEFINE N == NodeBut(b, t, X, p, D)
<1>1. /\ IsDocument(b) /\ IsDocument(t) /\ IsNode(b[p]) /\ IsNode(t[p])
  BY DEF IsValue, IsDocument
<1>2. CASE Both(b, t, p, "Object")
  <2>1. N = OfObject(b, t, p, D)
    BY <1>1, <1>2, NodeCases
  <2>2. N = <<>> <=> SameBelow(b, t, p) /\ NothingBelow(b, t, p, D)
    BY <1>1, <1>2, <2>1, ObjectEmpty
  <2>3. b[p] = t[p]
    BY <1>1, <1>2 DEF Both, IsNode
  <2> QED
    BY <2>2, <2>3
<1>3. CASE Both(b, t, p, "Array")
  <2>1. N = OfArray(b, t, p, D)
    BY <1>1, <1>3, NodeCases
  <2>2. N = <<>> <=> b[p] = t[p] /\ NothingBelow(b, t, p, D)
    BY <1>1, <1>3, <2>1, ArrayEmpty
  <2>3. b[p] = t[p] => SameBelow(b, t, p)
    BY <1>1, <1>3, SameNodeSameBelow DEF Both
  <2> QED
    BY <2>2, <2>3
<1>4. CASE b[p] = t[p] /\ Variant(b[p]) \notin Containers
  <2>1. N = IF p \in X THEN Replacing(t, p) ELSE <<>>
    BY <1>1, <1>4, NodeCases
  <2>2. SameBelow(b, t, p)
    BY <1>1, <1>4, SameNodeSameBelow DEF Containers
  <2>3. ASSUME NEW s \in Segment PROVE Append(p, s) \notin DOMAIN b
    BY <1>1, <1>4, WhatIsBelow DEF Containers
  <2>4. NothingBelow(b, t, p, D)
    BY <2>3 DEF NothingBelow
  <2> QED
    BY <1>4, <2>1, <2>2, <2>4
<1>5. CASE b[p] # t[p] /\ Both(b, t, p, "I64")
  <2>1. N = <<CounterOp(p, Held(b[p]), Held(t[p]))>>
    BY <1>1, <1>5, NodeCases
  <2>2. N # <<>>
    BY <2>1
  <2> QED
    BY <1>5, <2>2
<1>6. CASE /\ b[p] # t[p] /\ ~ Both(b, t, p, "Object") /\ ~ Both(b, t, p, "Array")
           /\ ~ Both(b, t, p, "I64")
  <2>1. N = Replacing(t, p)
    BY <1>1, <1>6, NodeCases
  <2>2. N # <<>>
    BY <2>1 DEF Replacing
  <2> QED
    BY <1>6, <2>2
<1> QED
  BY <1>2, <1>3, <1>4, <1>5, <1>6, AllCases

\* Where the documents agree and no float is still to be replaced, nothing is
\* pushed.
LEMMA EqualEmpty ==
  ASSUME NEW b, IsValue(b), NEW t, IsValue(t), NEW X, NEW D, IsDiffs(D, b, t, X),
         NEW p \in DOMAIN b, p \in DOMAIN t, Agree(b, t, p),
         \A x \in X : ~ IsPrefix(p, x)
  PROVE  D[p] = <<>>
<1> DEFINE T == {q \in DOMAIN b : q \in DOMAIN t /\ IsPrefix(p, q) /\ D[q] # <<>>}
<1>1. /\ IsDocument(b) /\ DOMAIN b \subseteq Seq(Segment) /\ p \in Seq(Segment)
      /\ IsPrefix(p, p)
  BY PathDown, PrefixOfItself DEF IsValue, IsDocument
<1>2. T = {}
  <2> SUFFICES ASSUME T # {} PROVE FALSE
    OBVIOUS
  <2>1. T \subseteq DOMAIN b
    OBVIOUS
  <2>2. PICK q \in T : \A s \in Segment : Append(q, s) \notin T
    BY <2>1, Lowest
  <2>3. q \in DOMAIN b /\ q \in DOMAIN t /\ q \in Seq(Segment) /\ IsPrefix(p, q)
    BY <1>1
  <2>4. b[q] = t[q] /\ q \notin X
    BY <2>3 DEF Agree, AgreeAt
  <2>5. ASSUME NEW s \in Segment
        PROVE  /\ Append(q, s) \in DOMAIN b <=> Append(q, s) \in DOMAIN t
               /\ Append(q, s) \in DOMAIN b /\ Append(q, s) \in DOMAIN t =>
                    D[Append(q, s)] = <<>>
    <3>1. Append(q, s) \in Seq(Segment) /\ IsPrefix(p, Append(q, s))
      BY <1>1, <2>3, PathDown, PrefixOfLonger
    <3>2. AgreeAt(b, t, Append(q, s))
      BY <3>1 DEF Agree
    <3> QED
      BY <2>2, <3>1, <3>2 DEF AgreeAt
  <2>6. SameBelow(b, t, q) /\ NothingBelow(b, t, q, D)
    BY <2>5 DEF SameBelow, NothingBelow
  <2>7. PartsTyped(b, t, q, D)
    BY <2>3, DiffsType
  <2>8. NodeBut(b, t, X, q, D) = <<>>
    BY <2>3, <2>4, <2>6, <2>7, NodeEmpty
  <2>9. D[q] = NodeBut(b, t, X, q, D)
    BY <2>3 DEF IsDiffs
  <2> QED
    BY <2>8, <2>9
<1> QED
  BY <1>1, <1>2

\* Where nothing is pushed, the documents agree.
LEMMA EmptyAgrees ==
  ASSUME NEW b, IsValue(b), NEW t, IsValue(t), NEW X, NEW D, IsDiffs(D, b, t, X),
         NEW p \in DOMAIN b, p \in DOMAIN t, D[p] = <<>>
  PROVE  Agree(b, t, p)
<1> DEFINE T == {q \in DOMAIN b : q \in DOMAIN t /\ D[q] = <<>> /\ ~ Agree(b, t, q)}
<1>1. T = {}
  <2> SUFFICES ASSUME T # {} PROVE FALSE
    OBVIOUS
  <2>1. T \subseteq DOMAIN b
    OBVIOUS
  <2>2. PICK q \in T : \A s \in Segment : Append(q, s) \notin T
    BY <2>1, Lowest
  <2>3. /\ q \in DOMAIN b /\ q \in DOMAIN t /\ D[q] = <<>> /\ ~ Agree(b, t, q)
        /\ IsDocument(b) /\ IsDocument(t)
    BY DEF IsValue
  <2>4. NodeBut(b, t, X, q, D) = <<>>
    BY <2>3 DEF IsDiffs
  <2>5. PartsTyped(b, t, q, D)
    BY <2>3, DiffsType
  <2>6. b[q] = t[q] /\ SameBelow(b, t, q) /\ NothingBelow(b, t, q, D)
    BY <2>3, <2>4, <2>5, NodeEmpty
  <2>7. \A s \in Segment : /\ Append(q, s) \in DOMAIN b <=> Append(q, s) \in DOMAIN t
                           /\ Append(q, s) \in DOMAIN t => Agree(b, t, Append(q, s))
    BY <2>2, <2>6 DEF SameBelow, NothingBelow
  <2> QED
    BY <2>3, <2>6, <2>7, AgreeUp
<1> QED
  BY <1>1
-----------------------------------------------------------------------------
(***************************************************************************)
(* What the operations of diff leave.                                      *)
(***************************************************************************)
\* b and e agree on what is neither p nor lies at or below c.
OffSame(b, e, p, c) ==
  \A q \in Seq(Segment) : q # p /\ ~ IsPrefix(c, q) => AgreeAt(b, e, q)

\* c is the path of the element at position i of the array at p.
IsElement(c, p, i) == c = Append(p, Index(i))

\* Nothing is left at p and below.
Gone(e, p) == \A q \in Seq(Segment) : IsPrefix(p, q) => q \notin DOMAIN e

\* Elements before position i stay where they are.
LEMMA BeforeStays ==
  ASSUME NEW d, IsDocument(d), NEW p \in DOMAIN d, Variant(d[p]) = "Array",
         NEW r \in DOMAIN d, NEW i \in Int, NEW n \in Int,
         \A j \in 0..(Held(d[p]) - 1) : IsPrefix(Append(p, Index(j)), r) => j < i
  PROVE  Shift(r, p, i, n) = r
<1>1. CASE IsStrictPrefix(p, r)
  <2> DEFINE s == r[Len(p) + 1]
  <2>1. /\ s \in Segment /\ s = Index(s[2]) /\ s[2] \in 0..(Held(d[p]) - 1)
        /\ IsPrefix(Append(p, s), r)
    BY <1>1, InElement
  <2>2. s[2] < i
    BY <2>1
  <2>3. ~ (s[2] >= i)
    <3>1. Held(d[p]) \in Nat /\ s[2] \in Nat
      BY <2>1, ElementsOf
    <3> HIDE DEF s
    <3> QED
      BY <2>2, <3>1
  <2> QED
    BY <2>3 DEF Shift
<1> QED
  BY <1>1, ShiftStays

\* Set and Replace with a value of the target.
LEMMA SetAgrees ==
  ASSUME NEW b, IsValue(b), NEW t, IsValue(t), NEW p \in DOMAIN t, CanSet(b, p),
         IsPlaceInArray(b, p) => p \in DOMAIN b,
         NEW e, e = SetPath(b, p, ValueAt(t, p))
  PROVE  IsValue(e) /\ SameBut(b, e, p) /\ Agree(e, t, p) /\ p \in DOMAIN e
<1> DEFINE v == ValueAt(t, p)
<1>1. /\ IsDocument(b) /\ IsDocument(t) /\ p \in Seq(Segment) /\ IsDocument(v)
      /\ IsFiniteSet(DOMAIN b) /\ IsFiniteSet(DOMAIN v)
  BY ValueAtDocument, FiniteParts DEF IsValue, IsDocument
<1> HIDE DEF v
<1>2. IsDocument(SetPath(b, p, v))
  BY <1>1, SetPathDocument
<1>3. p \in DOMAIN SetPath(b, p, v) /\ ValueAt(SetPath(b, p, v), p) = v
  BY <1>1, SetThere
<1>4. IsFiniteSet(DOMAIN SetPath(b, p, v))
  BY <1>1, FiniteResults
<1>5. e = SetPath(b, p, v)
  BY DEF v
<1>6. Agree(e, t, p)
  BY <1>1, <1>2, <1>3, <1>5, AgreeIsValue DEF v
<1>7. SameBut(b, e, p)
  <2>1. e = Put(b, p, v)
    BY <1>5 DEF SetPath
  <2>2. DOMAIN b \subseteq Seq(Segment) /\ DOMAIN v \subseteq Seq(Segment)
    BY <1>1 DEF IsDocument
  <2>3. SameBut(b, Put(b, p, v), p)
    BY <1>1, <2>2, PutSame
  <2> QED
    BY <2>1, <2>3
<1> QED
  BY <1>2, <1>3, <1>4, <1>5, <1>6, <1>7 DEF IsValue

\* Remove of a member.
LEMMA RemovedMember ==
  ASSUME NEW b, IsValue(b), NEW p \in DOMAIN b, Variant(b[p]) = "Object",
         NEW k \in MemberKeys(b, p), NEW c, c = Append(p, Key(k)),
         NEW e, e = RemovePath(b, c)
  PROVE  /\ IsValue(e) /\ CanRemove(b, c) /\ SameBut(b, e, c) /\ Gone(e, c)
<1>1. /\ IsDocument(b) /\ p \in Seq(Segment) /\ Key(k) \in Segment /\ c \in DOMAIN b
      /\ Key(k)[1] = "Key"
  BY SegmentKinds DEF IsValue, IsDocument, MemberKeys
<1>2. /\ c \in Seq(Segment) /\ c # Root /\ Front(c) = p /\ Last(c) = Key(k)
  BY <1>1, PathDown
<1>3. CanRemove(b, c)
  BY <1>1, ThereCanRemove
<1>4. IsDocument(e)
  BY <1>1, <1>2, <1>3, RemovePathDocument
<1>5. IsFiniteSet(DOMAIN e)
  <2>1. IsFiniteSet(DOMAIN b)
    BY DEF IsValue
  <2> QED
    BY <2>1, FiniteResults
<1>6. e = Cut(b, c)
  BY <1>1, <1>2 DEF RemovePath, IsPlaceInArray
<1>7. /\ \A q : q \in DOMAIN e <=> q \in DOMAIN b /\ ~ IsPrefix(c, q)
      /\ \A q \in DOMAIN e : e[q] = b[q]
  BY <1>2, <1>6, CutParts
<1> QED
  BY <1>3, <1>4, <1>5, <1>7 DEF IsValue, SameBut, Gone

\* Append with a value of the target.
LEMMA AppendedElement ==
  ASSUME NEW b, IsValue(b), NEW t, IsValue(t), NEW p \in DOMAIN b, Variant(b[p]) = "Array",
         NEW m, m = Held(b[p]), NEW c \in DOMAIN t, IsElement(c, p, m),
         NEW e, e = InsertElement(b, p, m, ValueAt(t, c))
  PROVE  /\ IsValue(e) /\ OffSame(b, e, p, c) /\ Agree(e, t, c)
         /\ p \in DOMAIN e /\ e[p] = Array(m + 1)
<1> DEFINE v == ValueAt(t, c)
           moved == [q \in {Shift(r, p, m, 1) : r \in DOMAIN b} |->
                       b[Shift(q, p, m + 1, -1)]]
           longer == [moved EXCEPT ![p] = Array(Held(@) + 1)]
<1>1. /\ IsDocument(b) /\ IsDocument(t) /\ p \in Seq(Segment) /\ IsDocument(v)
      /\ IsFiniteSet(DOMAIN b) /\ IsFiniteSet(DOMAIN v) /\ m \in Nat
      /\ DOMAIN b \subseteq Seq(Segment) /\ DOMAIN v \subseteq Seq(Segment)
      /\ b = [q \in DOMAIN b |-> b[q]]
  BY ValueAtDocument, FiniteParts, ElementsOf DEF IsValue, IsDocument
<1> HIDE DEF v
<1>2. /\ Index(m) \in Segment /\ c \in Seq(Segment) /\ Front(c) = p /\ Last(c) = Index(m)
      /\ c # Root /\ ~ IsPrefix(c, p) /\ Index(m)[1] = "Index" /\ Index(m)[2] = m
  <2>1. Index(m) \in Segment /\ Index(m)[1] = "Index" /\ Index(m)[2] = m
    BY <1>1, SegmentKinds
  <2> QED
    BY <1>1, <2>1, PathDown DEF IsElement
<1>3. c \notin DOMAIN b
  BY <1>1, ElementsOf DEF IsElement
<1>4. e = SetPath(b, c, v)
  BY <1>1, <1>2, <1>3 DEF SetPath, IsPlaceInArray, v
<1>5. IsDocument(e)
  BY <1>1, InsertDocument DEF v
<1>6. IsFiniteSet(DOMAIN e)
  BY <1>1, <1>4, FiniteResults
<1>7. Agree(e, t, c)
  <2>1. ValueAt(SetPath(b, c, v), c) = v
    BY <1>1, <1>2, SetThere
  <2> QED
    BY <1>1, <1>2, <1>4, <1>5, <2>1, AgreeIsValue DEF v
<1>8. ASSUME NEW r \in DOMAIN b
      PROVE  Shift(r, p, m, 1) = r /\ Shift(r, p, m + 1, -1) = r
  <2>1. \A j \in 0..(Held(b[p]) - 1) : j < m /\ j < m + 1
    BY <1>1
  <2>2. m \in Int /\ m + 1 \in Int /\ 1 \in Int /\ -1 \in Int
    BY <1>1
  <2>3. Shift(r, p, m, 1) = r
    BY <1>1, <2>1, <2>2, BeforeStays
  <2>4. \A k \in Int : k = m + 1 => Shift(r, p, k, -1) = r
    BY <1>1, <2>1, <2>2, BeforeStays
  <2> QED
    BY <2>2, <2>3, <2>4
<1>9. {Shift(r, p, m, 1) : r \in DOMAIN b} = DOMAIN b
  BY <1>8
<1>10. /\ DOMAIN longer = DOMAIN b /\ longer[p] = Array(m + 1)
       /\ \A q \in DOMAIN b : q # p => longer[q] = b[q]
  BY <1>8, <1>9
<1>11. e = Put(longer, c, v)
  BY DEF InsertElement, v, IsElement
<1> HIDE DEF longer
<1>a. DOMAIN longer \subseteq Seq(Segment)
  BY <1>1, <1>10
<1>12. /\ \A q \in Seq(Segment) :
            q \in DOMAIN e <=> IF IsPrefix(c, q) THEN Drop(q, Len(c)) \in DOMAIN v
                               ELSE q \in DOMAIN longer
       /\ \A q \in DOMAIN e :
            e[q] = IF IsPrefix(c, q) THEN v[Drop(q, Len(c))] ELSE longer[q]
  <2>1. /\ c \in Seq(Segment) /\ DOMAIN longer \subseteq Seq(Segment)
        /\ DOMAIN v \subseteq Seq(Segment)
    BY <1>1, <1>2, <1>a
  <2> QED
    BY <2>1, <1>11, PutParts
<1>13. p \in DOMAIN e /\ e[p] = Array(m + 1)
  BY <1>1, <1>2, <1>10, <1>12
<1>14. OffSame(b, e, p, c)
  BY <1>10, <1>12 DEF OffSame, AgreeAt
<1> QED
  BY <1>5, <1>6, <1>7, <1>13, <1>14 DEF IsValue

\* Remove of the last element.
LEMMA RemovedElement ==
  ASSUME NEW b, IsValue(b), NEW p \in DOMAIN b, Variant(b[p]) = "Array",
         NEW i \in Nat, Held(b[p]) = i + 1, NEW c, IsElement(c, p, i),
         NEW e, e = RemovePath(b, c)
  PROVE  /\ IsValue(e) /\ CanRemove(b, c) /\ OffSame(b, e, p, c) /\ Gone(e, c)
         /\ p \in DOMAIN e /\ e[p] = Array(i)
<1>1. /\ IsDocument(b) /\ p \in Seq(Segment) /\ DOMAIN b \subseteq Seq(Segment)
      /\ b = [q \in DOMAIN b |-> b[q]]
  BY DEF IsValue, IsDocument
<1>2. /\ Index(i) \in Segment /\ c \in Seq(Segment) /\ Front(c) = p /\ Last(c) = Index(i)
      /\ c # Root /\ ~ IsPrefix(c, p) /\ Index(i)[1] = "Index" /\ Index(i)[2] = i
  <2>1. Index(i) \in Segment /\ Index(i)[1] = "Index" /\ Index(i)[2] = i
    BY SegmentKinds
  <2> QED
    BY <1>1, <2>1, PathDown DEF IsElement
<1>3. c \in DOMAIN b
  BY <1>1, ElementsOf DEF IsElement
<1>4. CanRemove(b, c)
  BY <1>1, <1>3, ThereCanRemove
<1>5. IsDocument(e)
  BY <1>1, <1>2, <1>4, RemovePathDocument
<1>6. IsFiniteSet(DOMAIN e)
  <2>1. IsFiniteSet(DOMAIN b)
    BY DEF IsValue
  <2> QED
    BY <2>1, FiniteResults
<1>7. e = RemoveElement(b, p, i)
  BY <1>1, <1>2 DEF RemovePath, IsPlaceInArray
<1> DEFINE cut == Cut(b, c)
<1>8. /\ \A q : q \in DOMAIN cut <=> q \in DOMAIN b /\ ~ IsPrefix(c, q)
      /\ \A q \in DOMAIN cut : cut[q] = b[q]
  <2>1. cut = Cut(b, c)
    OBVIOUS
  <2> HIDE DEF cut
  <2> QED
    BY <1>2, <2>1, CutParts
<1>9. e = [q \in {Shift(r, p, i + 1, -1) : r \in DOMAIN cut} |->
             IF q = p THEN Array((i + 1) - 1) ELSE cut[Shift(q, p, i, 1)]]
  BY <1>7 DEF RemoveElement, IsElement
<1> HIDE DEF cut
<1>10. ASSUME NEW r \in DOMAIN cut
       PROVE  Shift(r, p, i + 1, -1) = r /\ Shift(r, p, i, 1) = r
  <2>1. r \in DOMAIN b /\ ~ IsPrefix(c, r)
    BY <1>8
  <2>2. \A j \in 0..(Held(b[p]) - 1) : j < i + 1 /\ (IsPrefix(Append(p, Index(j)), r) => j < i)
    <3> TAKE j \in 0..(Held(b[p]) - 1)
    <3>1. j \in Nat /\ (j = i \/ j < i)
      OBVIOUS
    <3> QED
      BY <2>1, <3>1 DEF IsElement
  <2>3. i \in Int /\ i + 1 \in Int /\ 1 \in Int /\ -1 \in Int
    OBVIOUS
  <2> QED
    BY <1>1, <2>1, <2>2, <2>3, BeforeStays
<1>11. {Shift(r, p, i + 1, -1) : r \in DOMAIN cut} = DOMAIN cut
  BY <1>10
<1>12. /\ DOMAIN e = DOMAIN cut
       /\ \A q \in DOMAIN cut : e[q] = IF q = p THEN Array((i + 1) - 1) ELSE b[q]
  BY <1>8, <1>9, <1>10, <1>11
<1>13. p \in DOMAIN e /\ e[p] = Array(i)
  <2>1. (i + 1) - 1 = i
    OBVIOUS
  <2> QED
    BY <1>1, <1>2, <1>8, <1>12, <2>1
<1>14. OffSame(b, e, p, c) /\ Gone(e, c)
  BY <1>8, <1>12 DEF OffSame, AgreeAt, Gone
<1> QED
  BY <1>4, <1>5, <1>6, <1>13, <1>14 DEF IsValue

\* Increment and Decrement to the value of the target.
LEMMA Counted ==
  ASSUME NEW b, IsValue(b), NEW t, IsValue(t), NEW p \in DOMAIN b, p \in DOMAIN t,
         Both(b, t, p, "I64"), NEW e, e = [b EXCEPT ![p] = t[p]]
  PROVE  /\ IsValue(e) /\ SameBut(b, e, p) /\ Agree(e, t, p) /\ p \in DOMAIN e
<1>1. /\ IsDocument(b) /\ IsDocument(t) /\ p \in Seq(Segment) /\ IsNode(t[p])
      /\ Variant(t[p]) = "I64" /\ Variant(b[p]) = "I64"
  BY DEF IsValue, IsDocument, Both
<1>2. IsDocument(e)
  BY <1>1, RenodedDocument
<1>3. DOMAIN e = DOMAIN b /\ e[p] = t[p] /\ \A q \in DOMAIN b : q # p => e[q] = b[q]
  BY <1>1
<1>4. IsValue(e)
  BY <1>2, <1>3 DEF IsValue
<1>5. SameBut(b, e, p)
  <2>1. IsPrefix(p, p)
    BY <1>1, PathDown, PrefixOfItself
  <2> QED
    BY <1>3, <2>1 DEF SameBut
<1>6. ASSUME NEW s \in Segment
      PROVE  Append(p, s) \notin DOMAIN e /\ Append(p, s) \notin DOMAIN t
  BY <1>1, <1>2, <1>3, WhatIsBelow
<1>7. Agree(e, t, p)
  BY <1>1, <1>2, <1>3, <1>6, AgreeUp
<1> QED
  BY <1>3, <1>4, <1>5, <1>7
-----------------------------------------------------------------------------
(***************************************************************************)
(* What apply_op makes of the operations of diff.                          *)
(***************************************************************************)
\* The operation o succeeds on the document b and leaves e.
Does(b, o, e) ==
  \/ /\ o.kind \in {"Set", "Replace"} /\ o.value # Missing /\ CanSet(b, o.path)
     /\ e = SetPath(b, o.path, o.value)
  \/ /\ o.kind = "Remove" /\ o.path \in DOMAIN b /\ CanRemove(b, o.path)
     /\ e = RemovePath(b, o.path)
  \/ /\ o.kind = "Append" /\ o.value # Missing /\ o.path \in DOMAIN b
     /\ Variant(b[o.path]) = "Array"
     /\ e = InsertElement(b, o.path, Held(b[o.path]), o.value)
  \/ /\ o.kind \in {"Increment", "Decrement"} /\ IsAmount(o.value) /\ o.path \in DOMAIN b
     /\ Variant(b[o.path]) = "I64"
     /\ e = [b EXCEPT ![o.path] =
               <<"I64", WrapI64(Held(b[o.path]) + Sign(o) * Held(o.value[Root]))>>]

\* apply_op has one outcome for an operation that succeeds.
LEMMA DoesIt ==
  ASSUME IsDocument(doc), NEW o, NEW e, Does(doc, o, e), Apply(o)
  PROVE  Becomes(e)
<1>1. CASE o.kind \in {"Set", "Replace"}
  <2>1. SetOp(o)
    BY <1>1 DEF Apply, SetOp, RemoveOp, AppendOp, PrependOp, InsertOp, CountOp, MergeOp,
                MoveOp, CopyOp, ClearOp
  <2>2. o.value # Missing /\ CanSet(doc, o.path) /\ e = SetPath(doc, o.path, o.value)
    BY <1>1 DEF Does
  <2> QED
    BY <2>1, <2>2 DEF SetOp, Lacks, Place
<1>2. CASE o.kind = "Remove"
  <2>1. RemoveOp(o)
    BY <1>2 DEF Apply, SetOp, RemoveOp, AppendOp, PrependOp, InsertOp, CountOp, MergeOp,
                MoveOp, CopyOp, ClearOp
  <2>2. CanRemove(doc, o.path) /\ e = RemovePath(doc, o.path)
    BY <1>2 DEF Does
  <2> QED
    BY <2>1, <2>2 DEF RemoveOp
<1>3. CASE o.kind = "Append"
  <2>1. AppendOp(o)
    BY <1>3 DEF Apply, SetOp, RemoveOp, AppendOp, PrependOp, InsertOp, CountOp, MergeOp,
                MoveOp, CopyOp, ClearOp
  <2>2. /\ o.value # Missing /\ o.path \in DOMAIN doc /\ Variant(doc[o.path]) = "Array"
        /\ e = InsertElement(doc, o.path, Held(doc[o.path]), o.value)
    BY <1>3 DEF Does
  <2>3. Held(doc[o.path]) \in Nat
    BY <2>2 DEF IsDocument, IsNode
  <2>4. LengthAt(o.path) = Held(doc[o.path])
    BY <2>2 DEF LengthAt
  <2>5. IntoArray(o, Held(doc[o.path]))
    BY <2>1, <2>4 DEF AppendOp
  <2>6. ~ (Held(doc[o.path]) > Held(doc[o.path]))
    BY <2>3
  <2> QED
    BY <2>2, <2>5, <2>6 DEF IntoArray, Lacks, Nowhere, Mismatch
<1>4. CASE o.kind \in {"Increment", "Decrement"}
  <2>1. CountOp(o)
    BY <1>4 DEF Apply, SetOp, RemoveOp, AppendOp, PrependOp, InsertOp, CountOp, MergeOp,
                MoveOp, CopyOp, ClearOp
  <2>2. /\ IsAmount(o.value) /\ o.path \in DOMAIN doc /\ Variant(doc[o.path]) = "I64"
        /\ e = [doc EXCEPT ![o.path] = <<"I64", WrapI64(Added(o))>>]
    BY <1>4 DEF Does, Added
  <2> QED
    BY <2>1, <2>2 DEF CountOp, Nowhere, Mismatch, At
<1> QED
  BY <1>1, <1>2, <1>3, <1>4 DEF Does

\* Arithmetic that wraps takes a counter to any other value.
LEMMA CountsThere ==
  ASSUME NEW x \in I64, NEW y \in I64
  PROVE  /\ WrapI64(x + WrapI64(y - x)) = y
         /\ WrapI64(x - WrapI64(x - y)) = y
<1> DEFINE m == 2 * Half
<1>1. /\ Half \in Nat /\ Half > 0 /\ m \in Nat /\ x \in Int /\ y \in Int
      /\ -Half <= x /\ x < Half /\ -Half <= y /\ y < Half
  BY DocumentConstants DEF I64
<1>2. \A n \in Int : /\ n \in I64 => WrapI64(n) = n
                     /\ n >= Half /\ n < Half + m => WrapI64(n) = n - m
                     /\ n < -Half /\ n >= -Half - m => WrapI64(n) = n + m
  BY WrapsOnce
<1>3. \A n \in Int : n \in I64 <=> -Half <= n /\ n < Half
  BY <1>1 DEF I64
<1>4. m = Half + Half
  BY <1>1
<1> HIDE DEF m
<1>5. ASSUME NEW d \in Int, d = y - x PROVE WrapI64(x + WrapI64(d)) = y
  <2> DEFINE w == WrapI64(d)
  <2>1. w \in {d, d - m, d + m}
    <3>1. d < Half + m /\ d >= -Half - m
      BY <1>1, <1>4, <1>5
    <3>2. CASE d \in I64
      BY <1>2, <3>2
    <3>3. CASE d >= Half
      BY <1>2, <3>1, <3>3
    <3>4. CASE d < -Half
      BY <1>2, <3>1, <3>4
    <3> QED
      BY <1>1, <1>3, <3>2, <3>3, <3>4
  <2> HIDE DEF w
  <2>2. x + w \in {y, y - m, y + m}
    BY <1>1, <1>5, <2>1
  <2> DEFINE z == x + w
  <2>3. z \in {y, y - m, y + m} /\ z \in Int
    BY <1>1, <2>2
  <2> HIDE DEF z
  <2>4. WrapI64(z) = y
    <3>1. CASE z = y
      <4>1. z \in I64 /\ z \in Int
        BY <1>1, <3>1
      <4>2. WrapI64(z) = z
        BY <1>2, <4>1
      <4> QED
        BY <3>1, <4>2
    <3>2. CASE z = y - m
      <4>1. z < -Half /\ z >= -Half - m /\ z + m = y
        BY <1>1, <1>4, <3>2
      <4> QED
        BY <1>2, <2>3, <4>1
    <3>3. CASE z = y + m
      <4>1. z >= Half /\ z < Half + m /\ z - m = y
        BY <1>1, <1>4, <3>3
      <4> QED
        BY <1>2, <2>3, <4>1
    <3> QED
      BY <2>3, <3>1, <3>2, <3>3
  <2> QED
    BY <2>4 DEF z, w
<1>6. ASSUME NEW d \in Int, d = x - y PROVE WrapI64(x - WrapI64(d)) = y
  <2> DEFINE w == WrapI64(d)
  <2>1. w \in {d, d - m, d + m}
    <3>1. d < Half + m /\ d >= -Half - m
      BY <1>1, <1>4, <1>6
    <3>2. CASE d \in I64
      BY <1>2, <3>2
    <3>3. CASE d >= Half
      BY <1>2, <3>1, <3>3
    <3>4. CASE d < -Half
      BY <1>2, <3>1, <3>4
    <3> QED
      BY <1>1, <1>3, <3>2, <3>3, <3>4
  <2> HIDE DEF w
  <2>2. x - w \in {y, y - m, y + m}
    BY <1>1, <1>6, <2>1
  <2> DEFINE z == x - w
  <2>3. z \in {y, y - m, y + m} /\ z \in Int
    BY <1>1, <2>2
  <2> HIDE DEF z
  <2>4. WrapI64(z) = y
    <3>1. CASE z = y
      <4>1. z \in I64 /\ z \in Int
        BY <1>1, <3>1
      <4>2. WrapI64(z) = z
        BY <1>2, <4>1
      <4> QED
        BY <3>1, <4>2
    <3>2. CASE z = y - m
      <4>1. z < -Half /\ z >= -Half - m /\ z + m = y
        BY <1>1, <1>4, <3>2
      <4> QED
        BY <1>2, <2>3, <4>1
    <3>3. CASE z = y + m
      <4>1. z >= Half /\ z < Half + m /\ z - m = y
        BY <1>1, <1>4, <3>3
      <4> QED
        BY <1>2, <2>3, <4>1
    <3> QED
      BY <2>3, <3>1, <3>2, <3>3
  <2> QED
    BY <2>4 DEF z, w
<1>7. y - x \in Int /\ x - y \in Int
  BY <1>1
<1> QED
  BY <1>5, <1>6, <1>7

\* The counter operation diff asks for.
LEMMA CounterDoes ==
  ASSUME NEW b, IsValue(b), NEW t, IsValue(t), NEW p \in DOMAIN b, p \in DOMAIN t,
         Both(b, t, p, "I64"), NEW o, o = CounterOp(p, Held(b[p]), Held(t[p]))
  PROVE  Does(b, o, [b EXCEPT ![p] = t[p]])
<1> DEFINE x == Held(b[p])
           y == Held(t[p])
<1>1. /\ IsNode(b[p]) /\ IsNode(t[p]) /\ Variant(b[p]) = "I64" /\ Variant(t[p]) = "I64"
      /\ x \in I64 /\ y \in I64 /\ t[p] = <<"I64", y>>
  BY DEF IsValue, IsDocument, IsNode, Both
<1>2. x \in Int /\ y \in Int /\ WrapI64(y - x) \in I64 /\ WrapI64(x - y) \in I64
      /\ WrapI64(y - x) \in Int /\ WrapI64(x - y) \in Int
  <2>1. x \in Int /\ y \in Int
    BY <1>1, Wraps
  <2>2. y - x \in Int /\ x - y \in Int
    BY <2>1
  <2> QED
    BY <2>1, <2>2, Wraps
<1>3. /\ WrapI64(x + WrapI64(y - x)) = y
      /\ WrapI64(x - WrapI64(x - y)) = y
  BY <1>1, CountsThere
<1>4. \A n \in I64 : /\ Leaf(<<"I64", n>>) # Missing
                     /\ Leaf(<<"I64", n>>)[Root] = <<"I64", n>>
  BY TargetsAreValues DEF Leaf
<1>5. \A n \in I64 : IsAmount(Leaf(<<"I64", n>>)) /\ Held(Leaf(<<"I64", n>>)[Root]) = n
  <2> TAKE n \in I64
  <2> DEFINE v == Leaf(<<"I64", n>>)
  <2>1. v # Missing /\ v[Root] = <<"I64", n>>
    BY <1>4
  <2> HIDE DEF v
  <2>2. IsAmount(v) /\ Held(v[Root]) = n
    BY <2>1 DEF IsAmount, Variant, Held
  <2> QED
    BY <2>2 DEF v
<1> HIDE DEF x, y
<1>6. CASE y > x
  <2> DEFINE w == WrapI64(y - x)
             v == Leaf(<<"I64", w>>)
  <2>1. w \in I64 /\ w \in Int /\ WrapI64(x + w) = y
    BY <1>2, <1>3
  <2> HIDE DEF w
  <2>2. IsAmount(v) /\ Held(v[Root]) = w
    BY <1>5, <2>1
  <2> HIDE DEF v
  <2>3. o = Op("Increment", p, v)
    BY <1>6 DEF CounterOp, x, y, v, w
  <2>4. o.kind = "Increment" /\ o.path = p /\ o.value = v /\ Sign(o) = 1
    BY <2>3 DEF Op, Sign
  <2>5. x + Sign(o) * Held(o.value[Root]) = x + w
    BY <1>2, <2>1, <2>2, <2>4
  <2>6. <<"I64", WrapI64(x + Sign(o) * Held(o.value[Root]))>> = t[p]
    BY <1>1, <2>1, <2>5
  <2> QED
    BY <1>1, <2>2, <2>4, <2>6 DEF Does, x
<1>7. CASE ~ (y > x)
  <2> DEFINE w == WrapI64(x - y)
             v == Leaf(<<"I64", w>>)
  <2>1. w \in I64 /\ w \in Int /\ WrapI64(x - w) = y
    BY <1>2, <1>3
  <2> HIDE DEF w
  <2>2. IsAmount(v) /\ Held(v[Root]) = w
    BY <1>5, <2>1
  <2> HIDE DEF v
  <2>3. o = Op("Decrement", p, v)
    BY <1>7 DEF CounterOp, x, y, v, w
  <2>4. o.kind = "Decrement" /\ o.path = p /\ o.value = v /\ Sign(o) = -1
    BY <2>3 DEF Op, Sign
  <2>5. x + Sign(o) * Held(o.value[Root]) = x - w
    BY <1>2, <2>1, <2>2, <2>4
  <2>6. <<"I64", WrapI64(x + Sign(o) * Held(o.value[Root]))>> = t[p]
    BY <1>1, <2>1, <2>5
  <2> QED
    BY <1>1, <2>2, <2>4, <2>6 DEF Does, x
<1> QED
  BY <1>6, <1>7
-----------------------------------------------------------------------------
(***************************************************************************)
(* What diff says after a change to one member or element.                 *)
(***************************************************************************)
\* Of the floats still to be replaced all that are not at or below p are left.
LeftOf(Y, X, p) == Y \subseteq X /\ \A x \in X : ~ IsPrefix(p, x) => x \in Y

\* From b to e the container at p itself has changed at the most, and what is at
\* and below one segment after it.
Changed(b, e, t, X, Y, p, s, D, E) ==
  /\ IsValue(b) /\ IsValue(e) /\ IsValue(t) /\ X \subseteq Seq(Segment)
  /\ IsDiffs(D, b, t, X) /\ IsDiffs(E, e, t, Y)
  /\ p \in DOMAIN b /\ p \in DOMAIN e /\ p \in DOMAIN t /\ s \in Segment
  /\ OffSame(b, e, p, Append(p, s)) /\ LeftOf(Y, X, Append(p, s))

\* A path goes on from p by one segment only.
LEMMA OneWayOn ==
  ASSUME NEW p \in Seq(Segment), NEW q \in Seq(Segment), NEW s \in Segment,
         NEW r \in Segment, IsPrefix(Append(p, s), q), IsPrefix(Append(p, r), q)
  PROVE  s = r
<1>1. ASSUME NEW u \in Segment, IsPrefix(Append(p, u), q)
      PROVE  q[Len(p) + 1] = u
  <2> DEFINE n == Len(p) + 1
             a == Append(p, u)
  <2>1. /\ a \in Seq(Segment) /\ Len(a) = n /\ n \in Nat /\ n > 0 /\ a[n] = u
    OBVIOUS
  <2>2. n <= Len(q) /\ SubSeq(a, 1, n) = SubSeq(q, 1, n)
    <3> HIDE DEF n
    <3> QED
      BY <1>1, <2>1 DEF IsPrefix
  <2>3. n \in 0..n /\ n \in 0..Len(q) /\ n \in 1..n
    BY <2>1, <2>2
  <2> HIDE DEF n, a
  <2>4. SubSeq(a, 1, n)[n] = a[n] /\ SubSeq(q, 1, n)[n] = q[n]
    BY <2>1, <2>3, PathStart
  <2> QED
    BY <2>1, <2>2, <2>4 DEF n
<1> QED
  BY <1>1

\* For the other members and elements of the container nothing changes.
LEMMA Siblings ==
  ASSUME NEW b, NEW e, NEW t, NEW X, NEW Y, NEW p, NEW s, NEW D, NEW E,
         Changed(b, e, t, X, Y, p, s, D, E), NEW r \in Segment, r # s
  PROVE  /\ Append(p, r) \in DOMAIN b <=> Append(p, r) \in DOMAIN e
         /\ Append(p, r) \in DOMAIN b /\ Append(p, r) \in DOMAIN t =>
              E[Append(p, r)] = D[Append(p, r)]
<1> DEFINE c == Append(p, s)
           a == Append(p, r)
<1>1. /\ IsDocument(b) /\ IsDocument(e) /\ IsDocument(t) /\ IsValue(b)
      /\ p \in Seq(Segment) /\ X \subseteq Seq(Segment)
      /\ IsDiffs(D, b, t, X) /\ IsDiffs(E, e, t, Y) /\ s \in Segment
      /\ OffSame(b, e, p, c) /\ LeftOf(Y, X, c)
  BY DEF Changed, IsValue, IsDocument
<1>2. /\ a \in Seq(Segment) /\ IsPrefix(a, a) /\ IsPrefix(p, a) /\ ~ IsPrefix(a, p)
  <2>1. a \in Seq(Segment) /\ IsPrefix(p, a) /\ ~ IsPrefix(a, p)
    BY <1>1, PathDown
  <2> QED
    BY <2>1, PrefixOfItself
<1>3. ASSUME NEW q \in Seq(Segment), IsPrefix(a, q)
      PROVE  q # p /\ ~ IsPrefix(c, q)
  BY <1>1, <1>2, <1>3, OneWayOn
<1> HIDE DEF a, c
<1>4. Agree(b, e, a)
  BY <1>1, <1>3 DEF Agree, OffSame
<1>5. \A q \in Seq(Segment) : IsPrefix(a, q) => (q \in X <=> q \in Y)
  BY <1>1, <1>3 DEF LeftOf
<1>6. a \in DOMAIN b <=> a \in DOMAIN e
  BY <1>2, <1>4 DEF Agree, AgreeAt
<1>7. a \in DOMAIN b /\ a \in DOMAIN t => E[a] = D[a]
  BY <1>1, <1>4, <1>5, Local
<1> QED
  BY <1>6, <1>7 DEF a

\* A member has been changed or set.
LEMMA AfterMember ==
  ASSUME NEW b, NEW e, NEW t, NEW X, NEW Y, NEW p, NEW D, NEW E, NEW k,
         Changed(b, e, t, X, Y, p, Key(k), D, E), Both(b, t, p, "Object"), e[p] = b[p],
         Each(MembersRemoved(b, t, p)) = <<>>, k \in DOMAIN MembersVisited(b, t, p, D),
         IsFirst(Numbered(MembersVisited(b, t, p, D)), k),
         Append(p, Key(k)) \in DOMAIN e,
         E[Append(p, Key(k))] = Tail(MembersVisited(b, t, p, D)[k])
  PROVE  Begins(D[p], Head(MembersVisited(b, t, p, D)[k]), E[p])
<1> DEFINE O == OpsFor(t)
           R == MembersRemoved(b, t, p)
           S == MembersRemoved(e, t, p)
           V == MembersVisited(b, t, p, D)
           W == MembersVisited(e, t, p, E)
<1>1. /\ IsValue(b) /\ IsValue(e) /\ IsValue(t) /\ IsDocument(b) /\ IsDocument(e)
      /\ IsDocument(t) /\ IsDiffs(D, b, t, X) /\ IsDiffs(E, e, t, Y)
      /\ p \in DOMAIN b /\ p \in DOMAIN e /\ p \in DOMAIN t /\ Key(k) \in Segment
      /\ IsNode(b[p]) /\ IsNode(e[p]) /\ IsNode(t[p])
  BY DEF Changed, IsValue, IsDocument
<1>2. PartsTyped(b, t, p, D)
  BY <1>1, DiffsType
<1>3. PartsTyped(e, t, p, E)
  BY <1>1, DiffsType
<1>4. IsParts(R, O) /\ IsParts(V, O) /\ IsParts(S, O) /\ IsParts(W, O)
  BY <1>2, <1>3 DEF PartsTyped
<1>5. D[p] = NodeBut(b, t, X, p, D) /\ E[p] = NodeBut(e, t, Y, p, E)
  BY <1>1 DEF IsDiffs
<1>6. D[p] = Each(R) \o Each(V)
  <2>1. NodeBut(b, t, X, p, D) = OfObject(b, t, p, D)
    BY <1>1, NodeCases
  <2> QED
    BY <1>5, <2>1 DEF OfObject
<1>7. E[p] = Each(S) \o Each(W)
  <2>1. Both(e, t, p, "Object")
    BY DEF Both
  <2>2. NodeBut(e, t, Y, p, E) = OfObject(e, t, p, E)
    BY <1>1, <2>1, NodeCases
  <2> QED
    BY <1>5, <2>2 DEF OfObject
<1>8. MemberKeys(b, p) \subseteq MemberKeys(t, p)
  <2>1. \A n \in DOMAIN R : R[n] = <<>>
    BY <1>4, EachType
  <2>2. \A n \in MemberKeys(b, p) \ MemberKeys(t, p) :
          R[n] = <<Op("Remove", Append(p, Key(n)), Missing)>>
    BY DEF MembersRemoved
  <2>3. DOMAIN R = MemberKeys(b, p) \ MemberKeys(t, p)
    BY DEF MembersRemoved
  <2>4. \A n \in MemberKeys(b, p) \ MemberKeys(t, p) : R[n] # <<>>
    BY <2>2
  <2> HIDE DEF R
  <2> QED
    BY <2>1, <2>3, <2>4
<1>9. DOMAIN V = MemberKeys(t, p) /\ DOMAIN W = MemberKeys(t, p)
  BY DEF MembersVisited
<1>10. \A n \in Keys : Key(n) \in Segment /\ (Key(n) = Key(k) => n = k)
  BY SegmentKinds DEF Key
<1>11. \A n \in Keys : n # k =>
         /\ Append(p, Key(n)) \in DOMAIN b <=> Append(p, Key(n)) \in DOMAIN e
         /\ Append(p, Key(n)) \in DOMAIN b /\ Append(p, Key(n)) \in DOMAIN t =>
              E[Append(p, Key(n))] = D[Append(p, Key(n))]
  BY <1>10, Siblings
<1>12. MemberKeys(e, p) \subseteq MemberKeys(t, p)
  BY <1>8, <1>9, <1>11 DEF MemberKeys
<1>13. Each(S) = <<>>
  <2>1. DOMAIN S = {}
    BY <1>12 DEF MembersRemoved
  <2> HIDE DEF S
  <2> QED
    BY <1>4, <2>1, EachType
<1>14. W[k] = Tail(V[k])
  BY <1>9 DEF MembersVisited
<1>15. \A n \in MemberKeys(t, p) : n # k => W[n] = V[n]
  <2> TAKE n \in MemberKeys(t, p)
  <2>1. n \in Keys /\ Append(p, Key(n)) \in DOMAIN t
    BY DEF MemberKeys
  <2> QED
    BY <1>11, <2>1 DEF MembersVisited
<1>16. IsAfter(Numbered(W), Numbered(V), k)
  <2>1. k \in Nat
    BY <1>4, <1>9 DEF IsParts
  <2> HIDE DEF V, W
  <2> QED
    BY <1>9, <1>14, <1>15, <2>1 DEF IsAfter, Numbered
<1>17. Each(V) \in Seq(O) /\ Each(W) \in Seq(O)
  BY <1>4, EachType
<1> HIDE DEF V, W, R, S
<1>18. Begins(Each(V), Head(V[k]), Each(W))
  BY <1>4, <1>9, <1>16, EachAfter DEF V
<1>19. D[p] = Each(V) /\ E[p] = Each(W)
  BY <1>6, <1>7, <1>13, <1>17, ConcatEmptySeq DEF R
<1> QED
  BY <1>18, <1>19 DEF V

\* A member has been removed.
LEMMA AfterRemoved ==
  ASSUME NEW b, NEW e, NEW t, NEW X, NEW Y, NEW p, NEW D, NEW E, NEW k,
         Changed(b, e, t, X, Y, p, Key(k), D, E), Both(b, t, p, "Object"), e[p] = b[p],
         k \in DOMAIN MembersRemoved(b, t, p), IsFirst(Numbered(MembersRemoved(b, t, p)), k),
         Append(p, Key(k)) \notin DOMAIN e
  PROVE  Begins(D[p], Op("Remove", Append(p, Key(k)), Missing), E[p])
<1> DEFINE O == OpsFor(t)
           R == MembersRemoved(b, t, p)
           S == MembersRemoved(e, t, p)
           V == MembersVisited(b, t, p, D)
           W == MembersVisited(e, t, p, E)
           op == Op("Remove", Append(p, Key(k)), Missing)
<1>1. /\ IsValue(b) /\ IsValue(e) /\ IsValue(t) /\ IsDocument(b) /\ IsDocument(e)
      /\ IsDocument(t) /\ IsDiffs(D, b, t, X) /\ IsDiffs(E, e, t, Y)
      /\ p \in DOMAIN b /\ p \in DOMAIN e /\ p \in DOMAIN t /\ Key(k) \in Segment
      /\ IsNode(b[p]) /\ IsNode(e[p]) /\ IsNode(t[p])
  BY DEF Changed, IsValue, IsDocument
<1>2. PartsTyped(b, t, p, D)
  BY <1>1, DiffsType
<1>3. PartsTyped(e, t, p, E)
  BY <1>1, DiffsType
<1>4. IsParts(R, O) /\ IsParts(V, O) /\ IsParts(S, O) /\ IsParts(W, O)
  BY <1>2, <1>3 DEF PartsTyped
<1>5. D[p] = NodeBut(b, t, X, p, D) /\ E[p] = NodeBut(e, t, Y, p, E)
  BY <1>1 DEF IsDiffs
<1>6. D[p] = Each(R) \o Each(V)
  <2>1. NodeBut(b, t, X, p, D) = OfObject(b, t, p, D)
    BY <1>1, NodeCases
  <2> QED
    BY <1>5, <2>1 DEF OfObject
<1>7. E[p] = Each(S) \o Each(W)
  <2>1. Both(e, t, p, "Object")
    BY DEF Both
  <2>2. NodeBut(e, t, Y, p, E) = OfObject(e, t, p, E)
    BY <1>1, <2>1, NodeCases
  <2> QED
    BY <1>5, <2>2 DEF OfObject
<1>8. /\ DOMAIN R = MemberKeys(b, p) \ MemberKeys(t, p)
      /\ DOMAIN S = MemberKeys(e, p) \ MemberKeys(t, p)
      /\ \A n \in DOMAIN R : R[n] = <<Op("Remove", Append(p, Key(n)), Missing)>>
      /\ \A n \in DOMAIN S : S[n] = <<Op("Remove", Append(p, Key(n)), Missing)>>
  BY DEF MembersRemoved
<1>9. DOMAIN V = MemberKeys(t, p) /\ DOMAIN W = MemberKeys(t, p)
  BY DEF MembersVisited
<1>10. \A n \in Keys : Key(n) \in Segment /\ (Key(n) = Key(k) => n = k)
  BY SegmentKinds DEF Key
<1>11. \A n \in Keys : n # k =>
         /\ Append(p, Key(n)) \in DOMAIN b <=> Append(p, Key(n)) \in DOMAIN e
         /\ Append(p, Key(n)) \in DOMAIN b /\ Append(p, Key(n)) \in DOMAIN t =>
              E[Append(p, Key(n))] = D[Append(p, Key(n))]
  BY <1>10, Siblings
<1>12. DOMAIN S = DOMAIN R \ {k}
  BY <1>8, <1>11 DEF MemberKeys
<1>13. R[k] = <<op>> /\ Head(R[k]) = op /\ Tail(R[k]) = <<>>
  <2>1. R[k] = <<op>>
    BY <1>8
  <2> HIDE DEF op, R
  <2>2. Head(<<op>>) = op /\ Tail(<<op>>) = <<>>
    OBVIOUS
  <2> QED
    BY <2>1, <2>2
<1>14. k \in DOMAIN R /\ k \in Nat
  BY <1>4 DEF IsParts
<1>15. IsAfter(Numbered(S), Numbered(R), k)
  <2>1. \A n \in DOMAIN S : S[n] = R[n]
    BY <1>8, <1>12
  <2> HIDE DEF R, S
  <2> QED
    BY <1>12, <1>13, <1>14, <2>1 DEF IsAfter, Numbered
<1>16. \A n \in MemberKeys(t, p) : W[n] = V[n]
  <2> TAKE n \in MemberKeys(t, p)
  <2>1. n \in Keys /\ Append(p, Key(n)) \in DOMAIN t /\ n # k
    BY <1>8 DEF MemberKeys
  <2> QED
    BY <1>11, <2>1 DEF MembersVisited
<1>17. Each(W) = Each(V)
  <2> HIDE DEF V, W
  <2>1. \A n \in Nat : Numbered(V)[n] = Numbered(W)[n]
    BY <1>9, <1>16 DEF Numbered
  <2> QED
    BY <1>4, <2>1, EachSame
<1>18. /\ Each(V) \in Seq(O) /\ Each(R) \in Seq(O) /\ Each(S) \in Seq(O)
  BY <1>4, EachType
<1>19. op \in O
  <2>1. <<op>> \in Seq(O)
    <3>1. R[k] \in Seq(O)
      BY <1>4 DEF IsParts
    <3> QED
      BY <1>13, <3>1
  <2> HIDE DEF op, O
  <2> QED
    BY <2>1
<1>20. Begins(Each(R), Head(R[k]), Each(S))
  <2> HIDE DEF R, S
  <2> QED
    BY <1>4, <1>14, <1>15, EachAfter DEF R
<1>21. Begins(Each(R), op, Each(S))
  BY <1>13, <1>20
<1> HIDE DEF V, W, R, S, op, O
<1>22. Begins(Each(R) \o Each(V), op, Each(S) \o Each(V))
  BY <1>18, <1>19, <1>21, BeginsHere
<1> QED
  BY <1>6, <1>7, <1>17, <1>22 DEF op

\* An element has been changed.
LEMMA AfterElement ==
  ASSUME NEW b, NEW e, NEW t, NEW X, NEW Y, NEW p, NEW D, NEW E, NEW i \in Nat,
         Changed(b, e, t, X, Y, p, Index(i), D, E), Both(b, t, p, "Array"), e[p] = b[p],
         i \in DOMAIN ElementsVisited(p, Held(b[p]), Held(t[p]), D),
         IsFirst(Numbered(ElementsVisited(p, Held(b[p]), Held(t[p]), D)), i),
         E[Append(p, Index(i))] = Tail(D[Append(p, Index(i))])
  PROVE  Begins(D[p], Head(D[Append(p, Index(i))]), E[p])
<1> DEFINE O == OpsFor(t)
           m == Held(b[p])
           n == Held(t[p])
           V == ElementsVisited(p, m, n, D)
           W == ElementsVisited(p, m, n, E)
           A == ElementsAppended(t, p, m, n)
           R == ElementsRemoved(p, m, n)
           h == Head(D[Append(p, Index(i))])
<1>1. /\ IsValue(b) /\ IsValue(e) /\ IsValue(t) /\ IsDocument(b) /\ IsDocument(e)
      /\ IsDocument(t) /\ IsDiffs(D, b, t, X) /\ IsDiffs(E, e, t, Y)
      /\ p \in DOMAIN b /\ p \in DOMAIN e /\ p \in DOMAIN t /\ Index(i) \in Segment
      /\ IsNode(b[p]) /\ IsNode(e[p]) /\ IsNode(t[p]) /\ Both(e, t, p, "Array")
  BY DEF Changed, IsValue, IsDocument, Both
<1>2. PartsTyped(b, t, p, D)
  BY <1>1, DiffsType
<1>3. PartsTyped(e, t, p, E)
  BY <1>1, DiffsType
<1>4. IsParts(V, O) /\ IsParts(W, O) /\ A \in Seq(O) /\ R \in Seq(O)
  BY <1>1, <1>2, <1>3 DEF PartsTyped
<1>5. D[p] = NodeBut(b, t, X, p, D) /\ E[p] = NodeBut(e, t, Y, p, E)
  BY <1>1 DEF IsDiffs
<1>6. D[p] = (Each(V) \o A) \o R
  <2>1. NodeBut(b, t, X, p, D) = OfArray(b, t, p, D)
    BY <1>1, NodeCases
  <2> QED
    BY <1>5, <2>1 DEF OfArray
<1>7. E[p] = (Each(W) \o A) \o R
  <2>1. NodeBut(e, t, Y, p, E) = OfArray(e, t, p, E)
    BY <1>1, NodeCases
  <2> QED
    BY <1>5, <2>1 DEF OfArray
<1>8. m \in Nat /\ n \in Nat
  BY <1>1 DEF IsNode, Both
<1>9. /\ DOMAIN V = {j \in 0..(m - 1) : j < n} /\ DOMAIN W = DOMAIN V
      /\ \A j \in DOMAIN V : /\ V[j] = D[Append(p, Index(j))]
                             /\ W[j] = E[Append(p, Index(j))]
  BY DEF ElementsVisited
<1>10. ASSUME NEW j \in DOMAIN V, j # i PROVE W[j] = V[j]
  <2>1. j \in Nat /\ j \in 0..(m - 1) /\ j \in 0..(n - 1)
    BY <1>8, <1>9
  <2>2. Index(j) \in Segment /\ Index(j) # Index(i)
    BY <1>10, <2>1, SegmentKinds
  <2>3. Append(p, Index(j)) \in DOMAIN b /\ Append(p, Index(j)) \in DOMAIN t
    BY <1>1, <2>1, <2>2, WhatIsBelow DEF Both
  <2>4. E[Append(p, Index(j))] = D[Append(p, Index(j))]
    BY <2>2, <2>3, Siblings
  <2> QED
    BY <1>9, <2>4
<1>11. W[i] = Tail(V[i]) /\ h = Head(V[i]) /\ i \in DOMAIN V /\ V[i] \in Seq(O)
  BY <1>4, <1>9 DEF IsParts
<1>12. IsFirst(Numbered(V), i)
  OBVIOUS
<1> HIDE DEF V, W, A, R, O, h
<1>13. IsAfter(Numbered(W), Numbered(V), i)
  BY <1>9, <1>10, <1>11 DEF IsAfter, Numbered
<1>14. Begins(Each(V), h, Each(W))
  BY <1>4, <1>11, <1>12, <1>13, EachAfter
<1>15. Each(V) \in Seq(O) /\ Each(W) \in Seq(O) /\ h \in O
  <2>1. V[i] # <<>>
    BY <1>11, <1>12 DEF IsFirst, Numbered
  <2>2. h \in O
    BY <1>11, <2>1
  <2> QED
    BY <1>4, <2>2, EachType
<1>16. Begins(Each(V) \o A, h, Each(W) \o A) /\ Each(W) \o A \in Seq(O)
  <2>1. Begins(Each(V) \o A, h, Each(W) \o A)
    BY <1>4, <1>14, <1>15, BeginsHere
  <2> QED
    BY <1>4, <1>15, <2>1, ConcatProperties
<1>17. Begins((Each(V) \o A) \o R, h, (Each(W) \o A) \o R)
  BY <1>4, <1>15, <1>16, BeginsHere
<1> QED
  BY <1>6, <1>7, <1>17 DEF h

\* A row is its first element, and then the others.
LEMMA RowBegins ==
  ASSUME NEW O, NEW k \in Nat, NEW A \in Seq(O), NEW B \in Seq(O),
         Len(A) = k + 1, Len(B) = k, \A i \in 1..k : B[i] = A[i + 1]
  PROVE  Begins(A, A[1], B)
<1>1. A # <<>> /\ Head(A) = A[1] /\ Tail(A) \in Seq(O) /\ Len(Tail(A)) = k
      /\ \A i \in 1..k : Tail(A)[i] = A[i + 1]
  OBVIOUS
<1>2. Tail(A) = B
  <2> DEFINE T == Tail(A)
  <2>1. T \in Seq(O) /\ Len(T) = k /\ \A i \in 1..k : T[i] = A[i + 1]
    BY <1>1
  <2> HIDE DEF T
  <2>2. T = B
    BY <2>1
  <2> QED
    BY <2>2 DEF T
<1>3. A = <<Head(A)>> \o Tail(A)
  BY <1>1, FirstAndOthers
<1> QED
  BY <1>1, <1>2, <1>3 DEF Begins

\* An element has been appended.
LEMMA AfterAppended ==
  ASSUME NEW b, NEW e, NEW t, NEW X, NEW Y, NEW p, NEW D, NEW E, NEW m \in Nat,
         Changed(b, e, t, X, Y, p, Index(m), D, E), Both(b, t, p, "Array"),
         Held(b[p]) = m, e[p] = Array(m + 1), NEW n \in Nat, Held(t[p]) = n, m < n,
         Each(ElementsVisited(p, m, n, D)) = <<>>, E[Append(p, Index(m))] = <<>>
  PROVE  Begins(D[p], Op("Append", p, ValueAt(t, Append(p, Index(m)))), E[p])
<1> DEFINE O == OpsFor(t)
           V == ElementsVisited(p, m, n, D)
           W == ElementsVisited(p, m + 1, n, E)
           A == ElementsAppended(t, p, m, n)
           B == ElementsAppended(t, p, m + 1, n)
           R == ElementsRemoved(p, m, n)
           S == ElementsRemoved(p, m + 1, n)
           op == Op("Append", p, ValueAt(t, Append(p, Index(m))))
<1>1. /\ IsValue(b) /\ IsValue(e) /\ IsValue(t) /\ IsDocument(b) /\ IsDocument(e)
      /\ IsDocument(t) /\ IsDiffs(D, b, t, X) /\ IsDiffs(E, e, t, Y)
      /\ p \in DOMAIN b /\ p \in DOMAIN e /\ p \in DOMAIN t /\ Index(m) \in Segment
      /\ IsNode(b[p]) /\ IsNode(e[p]) /\ IsNode(t[p]) /\ Both(e, t, p, "Array")
      /\ Held(e[p]) = m + 1
  <2>1. Variant(e[p]) = "Array" /\ Held(e[p]) = m + 1
    BY DEF Array, Variant, Held
  <2>2. Both(e, t, p, "Array")
    BY <2>1 DEF Both
  <2> QED
    BY <2>1, <2>2 DEF Changed, IsValue, IsDocument
<1>2. PartsTyped(b, t, p, D)
  BY <1>1, DiffsType
<1>3. PartsTyped(e, t, p, E)
  BY <1>1, DiffsType
<1>4. /\ IsParts(V, O) /\ A \in Seq(O) /\ R \in Seq(O)
      /\ IsParts(W, O) /\ B \in Seq(O) /\ S \in Seq(O)
  BY <1>1, <1>2, <1>3 DEF PartsTyped
<1>5. D[p] = NodeBut(b, t, X, p, D) /\ E[p] = NodeBut(e, t, Y, p, E)
  BY <1>1 DEF IsDiffs
<1>6. D[p] = (Each(V) \o A) \o R
  <2>1. NodeBut(b, t, X, p, D) = OfArray(b, t, p, D)
    BY <1>1, NodeCases
  <2> QED
    BY <1>5, <2>1 DEF OfArray
<1>7. E[p] = (Each(W) \o B) \o S
  <2>1. NodeBut(e, t, Y, p, E) = OfArray(e, t, p, E)
    BY <1>1, NodeCases
  <2> QED
    BY <1>1, <1>5, <2>1 DEF OfArray
<1>8. R = <<>> /\ S = <<>>
  <2>1. 1..(m - n) = {} /\ 1..((m + 1) - n) = {}
    OBVIOUS
  <2> QED
    BY <2>1 DEF ElementsRemoved
<1>9. Each(W) = <<>>
  <2>1. /\ DOMAIN V = {j \in 0..(m - 1) : j < n} /\ DOMAIN W = {j \in 0..((m + 1) - 1) : j < n}
        /\ \A j \in DOMAIN V : V[j] = D[Append(p, Index(j))]
        /\ \A j \in DOMAIN W : W[j] = E[Append(p, Index(j))]
    BY DEF ElementsVisited
  <2>2. \A j \in DOMAIN V : V[j] = <<>>
    BY <1>4, EachType
  <2> HIDE DEF V, W
  <2>3. ASSUME NEW j \in DOMAIN W, j # m PROVE W[j] = <<>>
    <3>1. j \in Nat /\ j \in 0..(m - 1) /\ j \in 0..(n - 1) /\ j \in DOMAIN V
      BY <2>1, <2>3
    <3>2. Index(j) \in Segment /\ Index(j) # Index(m)
      BY <2>3, <3>1, SegmentKinds
    <3>3. Append(p, Index(j)) \in DOMAIN b /\ Append(p, Index(j)) \in DOMAIN t
      BY <1>1, <3>1, <3>2, WhatIsBelow DEF Both
    <3>4. E[Append(p, Index(j))] = D[Append(p, Index(j))]
      BY <3>2, <3>3, Siblings
    <3> QED
      BY <2>1, <2>2, <3>1, <3>4
  <2>4. \A j \in DOMAIN W : W[j] = <<>>
    BY <2>1, <2>3
  <2> QED
    BY <1>4, <2>4, EachType
<1>10. Begins(A, op, B)
  <2> DEFINE k == n - (m + 1)
             f(x) == Op("Append", p, ValueAt(t, Append(p, Index(x))))
  <2>1. k \in Nat /\ n - m = k + 1
    OBVIOUS
  <2>2. A = [x \in 1..(n - m) |-> f(m + x - 1)] /\ B = [x \in 1..k |-> f((m + 1) + x - 1)]
    BY DEF ElementsAppended
  <2>3. op = f(m)
    OBVIOUS
  <2> HIDE DEF f, A, B, op, k, O
  <2>4. Len(A) = k + 1 /\ Len(B) = k
    BY <2>1, <2>2
  <2>5. \A x \in 1..k : m + (x + 1) - 1 = (m + 1) + x - 1 /\ x + 1 \in 1..(n - m)
    BY <2>1
  <2>6. \A x \in 1..k : B[x] = A[x + 1]
    BY <2>2, <2>5
  <2>7. 1 \in 1..(n - m) /\ m + 1 - 1 = m
    BY <2>1
  <2>8. A[1] = op
    BY <2>2, <2>3, <2>7
  <2> QED
    BY <1>4, <2>1, <2>4, <2>6, <2>8, RowBegins
<1> HIDE DEF V, W, A, B, R, S, op, O
<1>11. D[p] = A
  <2>1. <<>> \o A = A /\ A \o <<>> = A
    BY <1>4, ConcatEmptySeq
  <2> QED
    BY <1>6, <1>8, <2>1 DEF V
<1>12. E[p] = B
  <2>1. <<>> \o B = B /\ B \o <<>> = B
    BY <1>4, ConcatEmptySeq
  <2> QED
    BY <1>7, <1>8, <1>9, <2>1
<1> QED
  BY <1>10, <1>11, <1>12 DEF op

\* The last element has been removed.
LEMMA AfterLast ==
  ASSUME NEW b, NEW e, NEW t, NEW X, NEW Y, NEW p, NEW D, NEW E, NEW m \in Nat,
         Changed(b, e, t, X, Y, p, Index(m), D, E), Both(b, t, p, "Array"),
         Held(b[p]) = m + 1, e[p] = Array(m), NEW n \in Nat, Held(t[p]) = n, n <= m,
         Each(ElementsVisited(p, m + 1, n, D)) = <<>>
  PROVE  Begins(D[p], Op("Remove", Append(p, Index(m)), Missing), E[p])
<1> DEFINE O == OpsFor(t)
           V == ElementsVisited(p, m + 1, n, D)
           W == ElementsVisited(p, m, n, E)
           A == ElementsAppended(t, p, m + 1, n)
           B == ElementsAppended(t, p, m, n)
           R == ElementsRemoved(p, m + 1, n)
           S == ElementsRemoved(p, m, n)
           op == Op("Remove", Append(p, Index(m)), Missing)
<1>1. /\ IsValue(b) /\ IsValue(e) /\ IsValue(t) /\ IsDocument(b) /\ IsDocument(e)
      /\ IsDocument(t) /\ IsDiffs(D, b, t, X) /\ IsDiffs(E, e, t, Y)
      /\ p \in DOMAIN b /\ p \in DOMAIN e /\ p \in DOMAIN t /\ Index(m) \in Segment
      /\ IsNode(b[p]) /\ IsNode(e[p]) /\ IsNode(t[p]) /\ Both(e, t, p, "Array")
      /\ Held(e[p]) = m
  <2>1. Variant(e[p]) = "Array" /\ Held(e[p]) = m
    BY DEF Array, Variant, Held
  <2>2. Both(e, t, p, "Array")
    BY <2>1 DEF Both
  <2> QED
    BY <2>1, <2>2 DEF Changed, IsValue, IsDocument
<1>2. PartsTyped(b, t, p, D)
  BY <1>1, DiffsType
<1>3. PartsTyped(e, t, p, E)
  BY <1>1, DiffsType
<1>4. /\ IsParts(V, O) /\ A \in Seq(O) /\ R \in Seq(O)
      /\ IsParts(W, O) /\ B \in Seq(O) /\ S \in Seq(O)
  BY <1>1, <1>2, <1>3 DEF PartsTyped
<1>5. D[p] = NodeBut(b, t, X, p, D) /\ E[p] = NodeBut(e, t, Y, p, E)
  BY <1>1 DEF IsDiffs
<1>6. D[p] = (Each(V) \o A) \o R
  <2>1. NodeBut(b, t, X, p, D) = OfArray(b, t, p, D)
    BY <1>1, NodeCases
  <2> QED
    BY <1>5, <2>1 DEF OfArray
<1>7. E[p] = (Each(W) \o B) \o S
  <2>1. NodeBut(e, t, Y, p, E) = OfArray(e, t, p, E)
    BY <1>1, NodeCases
  <2> QED
    BY <1>1, <1>5, <2>1 DEF OfArray
<1>8. A = <<>> /\ B = <<>>
  <2>1. 1..(n - m) = {} /\ 1..(n - (m + 1)) = {}
    OBVIOUS
  <2> QED
    BY <2>1 DEF ElementsAppended
<1>9. Each(W) = <<>>
  <2>1. /\ DOMAIN V = {j \in 0..((m + 1) - 1) : j < n} /\ DOMAIN W = {j \in 0..(m - 1) : j < n}
        /\ \A j \in DOMAIN V : V[j] = D[Append(p, Index(j))]
        /\ \A j \in DOMAIN W : W[j] = E[Append(p, Index(j))]
    BY DEF ElementsVisited
  <2>2. \A j \in DOMAIN V : V[j] = <<>>
    BY <1>4, EachType
  <2> HIDE DEF V, W
  <2>3. ASSUME NEW j \in DOMAIN W PROVE W[j] = <<>>
    <3>1. j \in Nat /\ j \in 0..((m + 1) - 1) /\ j \in 0..(n - 1) /\ j \in DOMAIN V /\ j # m
      BY <2>1, <2>3
    <3>2. Index(j) \in Segment /\ Index(j) # Index(m)
      BY <2>3, <3>1, SegmentKinds
    <3>3. Append(p, Index(j)) \in DOMAIN b /\ Append(p, Index(j)) \in DOMAIN t
      BY <1>1, <3>1, <3>2, WhatIsBelow DEF Both
    <3>4. E[Append(p, Index(j))] = D[Append(p, Index(j))]
      BY <3>2, <3>3, Siblings
    <3> QED
      BY <2>1, <2>2, <3>1, <3>4
  <2>4. \A j \in DOMAIN W : W[j] = <<>>
    BY <2>3
  <2> QED
    BY <1>4, <2>4, EachType
<1>10. Begins(R, op, S)
  <2> DEFINE k == m - n
             f(x) == Op("Remove", Append(p, Index(x)), Missing)
  <2>1. k \in Nat /\ (m + 1) - n = k + 1
    OBVIOUS
  <2>2. R = [x \in 1..((m + 1) - n) |-> f((m + 1) - x)] /\ S = [x \in 1..k |-> f(m - x)]
    BY DEF ElementsRemoved
  <2>3. op = f(m)
    OBVIOUS
  <2> HIDE DEF f, R, S, op, k, O
  <2>4. Len(R) = k + 1 /\ Len(S) = k
    BY <2>1, <2>2
  <2>5. \A x \in 1..k : (m + 1) - (x + 1) = m - x /\ x + 1 \in 1..((m + 1) - n)
    BY <2>1
  <2>6. \A x \in 1..k : S[x] = R[x + 1]
    BY <2>2, <2>5
  <2>7. 1 \in 1..((m + 1) - n) /\ (m + 1) - 1 = m
    BY <2>1
  <2>8. R[1] = op
    BY <2>2, <2>3, <2>7
  <2> QED
    BY <1>4, <2>1, <2>4, <2>6, <2>8, RowBegins
<1> HIDE DEF V, W, A, B, R, S, op, O
<1>11. D[p] = R
  <2>1. <<>> \o R = R /\ <<>> \o <<>> = <<>>
    BY <1>4, ConcatEmptySeq
  <2> QED
    BY <1>6, <1>8, <2>1 DEF V
<1>12. E[p] = S
  <2>1. <<>> \o S = S /\ <<>> \o <<>> = <<>>
    BY <1>4, ConcatEmptySeq
  <2> QED
    BY <1>7, <1>8, <1>9, <2>1
<1> QED
  BY <1>10, <1>11, <1>12 DEF op
-----------------------------------------------------------------------------
(***************************************************************************)
(* The first operation of a delta takes the document to where the others   *)
(* are all that diff would say.                                            *)
(***************************************************************************)
\* What is right in b is right in e.
Nearer(b, e, t) == \A q \in Seq(Segment) : AgreeAt(b, t, q) => AgreeAt(e, t, q)

\* The operation o succeeds, changes nothing but what is at p and below, makes
\* nothing worse, and r is what diff says of p from then on.
Progress(b, t, X, p, o, r) ==
  \E e, Y : /\ IsValue(e) /\ Does(b, o, e) /\ SameBut(b, e, p) /\ p \in DOMAIN e
            /\ Nearer(b, e, t) /\ LeftOf(Y, X, p)
            /\ \A E : IsDiffs(E, e, t, Y) => E[p] = r

Asked(b, t, X, D, p) ==
  /\ IsValue(b) /\ IsValue(t) /\ X \subseteq Seq(Segment) /\ IsDiffs(D, b, t, X)
  /\ p \in DOMAIN b /\ p \in DOMAIN t /\ \A q \in DOMAIN t : ValueAt(t, q) # Missing

\* A sequence that begins with h and goes on with r.
LEMMA BeginsIs ==
  ASSUME NEW O, NEW s, NEW h, NEW r \in Seq(O), Begins(s, h, r)
  PROVE  s # <<>> /\ Head(s) = h /\ Tail(s) = r
<1> DEFINE U == O \cup {h}
<1>1. r \in Seq(U) /\ h \in U
  OBVIOUS
<1> HIDE DEF U
<1> QED
  BY <1>1, BeginsHere

\* A change at p and below c makes nothing worse if it is right there.
LEMMA NearerBy ==
  ASSUME NEW b, NEW e, NEW t, NEW p, NEW c, OffSame(b, e, p, c),
         AgreeAt(b, t, p) => AgreeAt(e, t, p),
         \A q \in Seq(Segment) : IsPrefix(c, q) => AgreeAt(e, t, q)
  PROVE  Nearer(b, e, t)
BY DEF Nearer, OffSame, AgreeAt

\* A change below c is one at p and below c.
LEMMA SameIsOff ==
  ASSUME NEW b, NEW e, NEW p, NEW c, SameBut(b, e, c)
  PROVE  OffSame(b, e, p, c)
BY DEF SameBut, OffSame, AgreeAt

\* A change at one member or element leaves its container where it is.
LEMMA SameAtParent ==
  ASSUME NEW b, IsDocument(b), NEW e, NEW p \in DOMAIN b, NEW s \in Segment,
         SameBut(b, e, Append(p, s))
  PROVE  p \in DOMAIN e /\ e[p] = b[p] /\ SameBut(b, e, p)
<1>1. p \in Seq(Segment)
  BY DEF IsDocument
<1>2. /\ Append(p, s) \in Seq(Segment) /\ IsPrefix(p, Append(p, s))
      /\ ~ IsPrefix(Append(p, s), p)
  BY <1>1, PathDown
<1>3. SameBut(b, e, p)
  BY <1>1, <1>2, SameAbove
<1> QED
  BY <1>1, <1>2, <1>3 DEF SameBut

\* A change at p and below an element of p is one below p.
LEMMA OffIsSame ==
  ASSUME NEW b, NEW e, NEW p \in Seq(Segment), NEW s \in Segment,
         OffSame(b, e, p, Append(p, s))
  PROVE  SameBut(b, e, p)
<1>1. \A q \in Seq(Segment) : IsPrefix(Append(p, s), q) => IsPrefix(p, q)
  BY PathDown
<1>2. IsPrefix(p, p)
  BY PrefixOfItself
<1> QED
  BY <1>1, <1>2 DEF SameBut, OffSame, AgreeAt

\* What is left but below a member is left but below its parent.
LEMMA LeftAbove ==
  ASSUME NEW X, X \subseteq Seq(Segment), NEW Y, NEW p \in Seq(Segment), NEW s \in Segment,
         LeftOf(Y, X, Append(p, s))
  PROVE  LeftOf(Y, X, p)
<1>1. \A q \in Seq(Segment) : IsPrefix(Append(p, s), q) => IsPrefix(p, q)
  BY PathDown
<1> QED
  BY <1>1 DEF LeftOf

\* It is enough to know where an operation leads, and what diff says there.
LEMMA ProgressBy ==
  ASSUME NEW b, NEW t, NEW X, NEW D, NEW p, Asked(b, t, X, D, p), NEW o,
         NEW e, IsValue(e), Does(b, o, e), SameBut(b, e, p), p \in DOMAIN e,
         Nearer(b, e, t), NEW Y, LeftOf(Y, X, p),
         \A E : IsDiffs(E, e, t, Y) => Begins(D[p], o, E[p])
  PROVE  Progress(b, t, X, p, Head(D[p]), Tail(D[p]))
<1>1. IsValue(b) /\ IsValue(t) /\ IsDocument(t) /\ p \in DOMAIN t
  BY DEF Asked, IsValue
<1>2. PICK F : IsDiffs(F, e, t, Y)
  BY <1>1, DiffsExist
<1>3. ASSUME NEW E, IsDiffs(E, e, t, Y)
      PROVE  D[p] # <<>> /\ Head(D[p]) = o /\ Tail(D[p]) = E[p]
  <2>1. Begins(D[p], o, E[p])
    BY <1>3
  <2>2. E[p] \in Seq(OpsFor(t))
    BY <1>1, <1>3, DiffsType
  <2> QED
    BY <2>1, <2>2, BeginsIs
<1>4. Head(D[p]) = o
  BY <1>2, <1>3
<1>5. \A E : IsDiffs(E, e, t, Y) => E[p] = Tail(D[p])
  BY <1>3
<1> QED
  BY <1>4, <1>5 DEF Progress

\* Progress at a member or an element is progress for its container.
LEMMA ProgressUp ==
  ASSUME NEW b, NEW t, NEW X, NEW D, NEW p, Asked(b, t, X, D, p), NEW s \in Segment,
         NEW o, NEW r, Progress(b, t, X, Append(p, s), o, r),
         \A e, Y, E : /\ Changed(b, e, t, X, Y, p, s, D, E) /\ e[p] = b[p]
                      /\ Append(p, s) \in DOMAIN e /\ E[Append(p, s)] = r
                      => Begins(D[p], o, E[p])
  PROVE  Progress(b, t, X, p, Head(D[p]), Tail(D[p]))
<1> DEFINE c == Append(p, s)
<1>1. PICK e, Y : /\ IsValue(e) /\ Does(b, o, e) /\ SameBut(b, e, c) /\ c \in DOMAIN e
                  /\ Nearer(b, e, t) /\ LeftOf(Y, X, c)
                  /\ \A E : IsDiffs(E, e, t, Y) => E[c] = r
  BY DEF Progress
<1>2. /\ IsValue(b) /\ IsDocument(b) /\ IsValue(t) /\ p \in DOMAIN b /\ p \in DOMAIN t
      /\ p \in Seq(Segment) /\ X \subseteq Seq(Segment) /\ IsDiffs(D, b, t, X)
  BY DEF Asked, IsValue, IsDocument
<1>3. p \in DOMAIN e /\ e[p] = b[p] /\ SameBut(b, e, p)
  BY <1>1, <1>2, SameAtParent
<1>4. LeftOf(Y, X, p)
  BY <1>1, <1>2, LeftAbove
<1>5. OffSame(b, e, p, c)
  BY <1>1, SameIsOff
<1>6. ASSUME NEW E, IsDiffs(E, e, t, Y) PROVE Begins(D[p], o, E[p])
  <2>1. Changed(b, e, t, X, Y, p, s, D, E)
    BY <1>1, <1>2, <1>3, <1>5, <1>6 DEF Changed
  <2>2. E[c] = r
    BY <1>1, <1>6
  <2> QED
    BY <1>1, <1>3, <2>1, <2>2
<1> HIDE DEF c
<1> QED
  BY <1>1, <1>3, <1>4, <1>6, ProgressBy

\* Below p there is progress wherever there is something to do.
ProgressBelow(b, t, X, D, p) ==
  \A s \in Segment : /\ Append(p, s) \in DOMAIN b /\ Append(p, s) \in DOMAIN t
                     /\ D[Append(p, s)] # <<>>
                     => Progress(b, t, X, Append(p, s), Head(D[Append(p, s)]),
                                 Tail(D[Append(p, s)]))

\* An operation that makes everything at p and below right is the last one there.
LEMMA ProgressHere ==
  ASSUME NEW b, NEW t, NEW X, NEW D, NEW p, Asked(b, t, X, D, p), NEW o, D[p] = <<o>>,
         NEW e, IsValue(e), Does(b, o, e), SameBut(b, e, p), p \in DOMAIN e, Agree(e, t, p)
  PROVE  Progress(b, t, X, p, Head(D[p]), Tail(D[p]))
<1> DEFINE Y == {x \in X : ~ IsPrefix(p, x)}
<1>1. IsValue(t) /\ p \in DOMAIN t /\ p \in Seq(Segment) /\ IsPrefix(p, p)
  BY PrefixOfItself DEF Asked, IsValue, IsDocument
<1>2. LeftOf(Y, X, p) /\ \A x \in Y : ~ IsPrefix(p, x)
  BY DEF LeftOf
<1> HIDE DEF Y
<1>3. Nearer(b, e, t)
  <2>1. OffSame(b, e, p, p)
    BY SameIsOff
  <2>2. AgreeAt(e, t, p) /\ \A q \in Seq(Segment) : IsPrefix(p, q) => AgreeAt(e, t, q)
    BY <1>1 DEF Agree
  <2> QED
    BY <2>1, <2>2, NearerBy
<1>4. ASSUME NEW E, IsDiffs(E, e, t, Y) PROVE Begins(D[p], o, E[p])
  <2>1. E[p] = <<>>
    BY <1>1, <1>2, <1>4, EqualEmpty
  <2> DEFINE one == <<o>>
  <2>2. one \in Seq({o})
    OBVIOUS
  <2>3. one \o <<>> = one
    <3> HIDE DEF one
    <3> QED
      BY <2>2, ConcatEmptySeq
  <2> QED
    BY <2>1, <2>3 DEF Begins
<1> QED
  BY <1>2, <1>3, <1>4, ProgressBy

\* A scalar is replaced.
LEMMA ProgressReplaced ==
  ASSUME NEW b, NEW t, NEW X, NEW D, NEW p, Asked(b, t, X, D, p), D[p] = Replacing(t, p)
  PROVE  Progress(b, t, X, p, Head(D[p]), Tail(D[p]))
<1> DEFINE v == ValueAt(t, p)
           o == Op("Replace", p, v)
           e == SetPath(b, p, v)
<1>1. /\ IsValue(b) /\ IsValue(t) /\ IsDocument(b) /\ p \in DOMAIN b /\ p \in DOMAIN t
      /\ v # Missing
  BY DEF Asked, IsValue
<1>2. CanSet(b, p)
  BY <1>1, ThereCanRemove DEF CanRemove, CanSet
<1>3. IsValue(e) /\ SameBut(b, e, p) /\ Agree(e, t, p) /\ p \in DOMAIN e
  BY <1>1, <1>2, SetAgrees
<1>4. o.kind = "Replace" /\ o.path = p /\ o.value = v /\ D[p] = <<o>>
  BY DEF Op, Replacing
<1> HIDE DEF o, v
<1>5. Does(b, o, e)
  BY <1>1, <1>2, <1>4 DEF Does
<1> HIDE DEF e
<1> QED
  BY <1>3, <1>4, <1>5, ProgressHere

\* A counter is counted up or down.
LEMMA ProgressCounted ==
  ASSUME NEW b, NEW t, NEW X, NEW D, NEW p, Asked(b, t, X, D, p), Both(b, t, p, "I64"),
         D[p] = <<CounterOp(p, Held(b[p]), Held(t[p]))>>
  PROVE  Progress(b, t, X, p, Head(D[p]), Tail(D[p]))
<1> DEFINE o == CounterOp(p, Held(b[p]), Held(t[p]))
           e == [b EXCEPT ![p] = t[p]]
<1>1. IsValue(b) /\ IsValue(t) /\ p \in DOMAIN b /\ p \in DOMAIN t /\ D[p] = <<o>>
  BY DEF Asked
<1>2. IsValue(e) /\ SameBut(b, e, p) /\ Agree(e, t, p) /\ p \in DOMAIN e
  BY <1>1, Counted
<1>3. Does(b, o, e)
  BY <1>1, CounterDoes
<1> HIDE DEF o, e
<1> QED
  BY <1>1, <1>2, <1>3, ProgressHere

\* Members that the target does not have are removed first.
LEMMA ProgressRemoved ==
  ASSUME NEW b, NEW t, NEW X, NEW D, NEW p, Asked(b, t, X, D, p), Both(b, t, p, "Object"),
         Each(MembersRemoved(b, t, p)) # <<>>
  PROVE  Progress(b, t, X, p, Head(D[p]), Tail(D[p]))
<1> DEFINE R == MembersRemoved(b, t, p)
<1>1. /\ IsValue(b) /\ IsDocument(b) /\ IsValue(t) /\ IsDocument(t) /\ p \in DOMAIN b
      /\ p \in DOMAIN t /\ p \in Seq(Segment) /\ X \subseteq Seq(Segment)
      /\ IsDiffs(D, b, t, X) /\ Variant(b[p]) = "Object"
  BY DEF Asked, IsValue, IsDocument, Both
<1>2. IsParts(R, OpsFor(t))
  BY <1>1, DiffsType DEF PartsTyped
<1>3. PICK k \in DOMAIN R : k \in Nat /\ IsFirst(Numbered(R), k)
  <2> HIDE DEF R
  <2>1. Each(R) # <<>>
    BY DEF R
  <2> QED
    BY <1>2, <2>1, FirstPart
<1> DEFINE c == Append(p, Key(k))
           o == Op("Remove", c, Missing)
           e == RemovePath(b, c)
<1>4. k \in MemberKeys(b, p) /\ k \notin MemberKeys(t, p)
  BY <1>3 DEF MembersRemoved
<1>5. Key(k) \in Segment /\ c \notin DOMAIN t /\ c \in Seq(Segment)
  <2>1. Key(k) \in Segment
    BY <1>4, SegmentKinds DEF MemberKeys
  <2> QED
    BY <1>1, <1>4, <2>1, PathDown DEF MemberKeys
<1>6. IsValue(e) /\ CanRemove(b, c) /\ SameBut(b, e, c) /\ Gone(e, c)
  BY <1>1, <1>4, RemovedMember
<1>7. o.kind = "Remove" /\ o.path = c
  BY DEF Op
<1>8. Does(b, o, e)
  <2> HIDE DEF o
  <2>1. c \in DOMAIN b
    BY <1>4 DEF MemberKeys
  <2> QED
    BY <1>6, <1>7, <2>1 DEF Does
<1> HIDE DEF e
<1>9. p \in DOMAIN e /\ e[p] = b[p] /\ SameBut(b, e, p) /\ OffSame(b, e, p, c)
  BY <1>1, <1>5, <1>6, SameAtParent, SameIsOff
<1>10. LeftOf(X, X, p) /\ LeftOf(X, X, c)
  BY DEF LeftOf
<1>11. Nearer(b, e, t)
  <2>1. ASSUME NEW q \in Seq(Segment), IsPrefix(c, q) PROVE AgreeAt(e, t, q)
    <3>1. q \notin DOMAIN t
      BY <1>1, <1>5, <2>1, OnTheWay
    <3> QED
      BY <1>6, <2>1, <3>1 DEF Gone, AgreeAt
  <2>2. AgreeAt(b, t, p) => AgreeAt(e, t, p)
    BY <1>1, <1>9 DEF AgreeAt
  <2> HIDE DEF c
  <2> QED
    BY <1>9, <2>1, <2>2, NearerBy
<1>12. c \notin DOMAIN e
  BY <1>5, <1>6, PrefixOfItself DEF Gone
<1>13. ASSUME NEW E, IsDiffs(E, e, t, X) PROVE Begins(D[p], o, E[p])
  <2>1. Changed(b, e, t, X, X, p, Key(k), D, E)
    BY <1>1, <1>5, <1>6, <1>9, <1>10, <1>13 DEF Changed
  <2> QED
    BY <1>3, <1>9, <1>12, <2>1, AfterRemoved
<1> HIDE DEF o
<1> QED
  BY <1>6, <1>8, <1>9, <1>10, <1>11, <1>13, ProgressBy

\* Then those it has are visited, and set where they are not there.
LEMMA ProgressVisited ==
  ASSUME NEW b, NEW t, NEW X, NEW D, NEW p, Asked(b, t, X, D, p), Both(b, t, p, "Object"),
         Each(MembersRemoved(b, t, p)) = <<>>, Each(MembersVisited(b, t, p, D)) # <<>>,
         ProgressBelow(b, t, X, D, p)
  PROVE  Progress(b, t, X, p, Head(D[p]), Tail(D[p]))
<1> DEFINE V == MembersVisited(b, t, p, D)
<1>1. /\ IsValue(b) /\ IsDocument(b) /\ IsValue(t) /\ IsDocument(t) /\ p \in DOMAIN b
      /\ p \in DOMAIN t /\ p \in Seq(Segment) /\ X \subseteq Seq(Segment)
      /\ IsDiffs(D, b, t, X) /\ Variant(b[p]) = "Object"
  BY DEF Asked, IsValue, IsDocument, Both
<1>2. IsParts(V, OpsFor(t))
  BY <1>1, DiffsType DEF PartsTyped
<1>3. PICK k \in DOMAIN V : k \in Nat /\ IsFirst(Numbered(V), k)
  <2> HIDE DEF V
  <2>1. Each(V) # <<>>
    BY DEF V
  <2> QED
    BY <1>2, <2>1, FirstPart
<1>4. V[k] # <<>>
  <2> HIDE DEF V
  <2> QED
    BY <1>3 DEF IsFirst, Numbered
<1> DEFINE c == Append(p, Key(k))
           v == ValueAt(t, c)
<1>5. /\ k \in MemberKeys(t, p) /\ c \in DOMAIN t
      /\ V[k] = IF c \in DOMAIN b THEN D[c] ELSE <<Op("Set", c, v)>>
  BY <1>3 DEF MembersVisited, MemberKeys
<1>6. Key(k) \in Segment /\ c \in Seq(Segment) /\ Key(k)[1] = "Key"
      /\ Front(c) = p /\ Last(c) = Key(k) /\ c # Root /\ IsPrefix(c, c)
  <2>1. Key(k) \in Segment /\ Key(k)[1] = "Key"
    BY <1>5, SegmentKinds DEF MemberKeys
  <2> QED
    BY <1>1, <2>1, PathDown, PrefixOfItself
<1>7. CASE c \in DOMAIN b
  <2>1. V[k] = D[c]
    BY <1>5, <1>7
  <2>2. Progress(b, t, X, c, Head(D[c]), Tail(D[c]))
    BY <1>4, <1>5, <1>6, <1>7, <2>1 DEF ProgressBelow
  <2>3. ASSUME NEW e, NEW Y, NEW E, Changed(b, e, t, X, Y, p, Key(k), D, E), e[p] = b[p],
               c \in DOMAIN e, E[c] = Tail(D[c])
        PROVE  Begins(D[p], Head(D[c]), E[p])
    <3>1. E[Append(p, Key(k))] = Tail(MembersVisited(b, t, p, D)[k])
      BY <2>1, <2>3
    <3>2. Begins(D[p], Head(MembersVisited(b, t, p, D)[k]), E[p])
      BY <1>3, <2>3, <3>1, AfterMember
    <3> QED
      BY <2>1, <3>2
  <2> HIDE DEF V
  <2> QED
    BY <1>6, <2>2, <2>3, ProgressUp
<1>8. CASE c \notin DOMAIN b
  <2> DEFINE o == Op("Set", c, v)
             e == SetPath(b, c, v)
             Y == {x \in X : ~ IsPrefix(c, x)}
  <2>1. V[k] = <<o>> /\ Head(V[k]) = o /\ Tail(V[k]) = <<>>
    <3>1. V[k] = <<o>>
      BY <1>5, <1>8
    <3> HIDE DEF o, V
    <3>2. Head(<<o>>) = o /\ Tail(<<o>>) = <<>>
      OBVIOUS
    <3> QED
      BY <3>1, <3>2
  <2>2. CanSet(b, c) /\ ~ IsPlaceInArray(b, c)
    BY <1>1, <1>6 DEF CanSet, IsKeyOfObject, IsPlaceInArray
  <2>3. IsValue(e) /\ SameBut(b, e, c) /\ Agree(e, t, c) /\ c \in DOMAIN e
    BY <1>1, <1>5, <2>2, SetAgrees
  <2>4. v # Missing
    BY <1>5 DEF Asked
  <2>5. o.kind = "Set" /\ o.path = c /\ o.value = v
    BY DEF Op
  <2>6. Does(b, o, e)
    <3> HIDE DEF o, v
    <3> QED
      BY <2>2, <2>4, <2>5 DEF Does
  <2> HIDE DEF e
  <2>7. p \in DOMAIN e /\ e[p] = b[p] /\ SameBut(b, e, p) /\ OffSame(b, e, p, c)
    BY <1>1, <1>6, <2>3, SameAtParent, SameIsOff
  <2>8. LeftOf(Y, X, c) /\ \A x \in Y : ~ IsPrefix(c, x)
    BY DEF LeftOf
  <2> HIDE DEF Y
  <2>9. LeftOf(Y, X, p)
    BY <1>1, <1>6, <2>8, LeftAbove
  <2>10. Nearer(b, e, t)
    <3>1. AgreeAt(b, t, p) => AgreeAt(e, t, p)
      BY <1>1, <2>7 DEF AgreeAt
    <3>2. \A q \in Seq(Segment) : IsPrefix(c, q) => AgreeAt(e, t, q)
      BY <2>3 DEF Agree
    <3> HIDE DEF c
    <3> QED
      BY <2>7, <3>1, <3>2, NearerBy
  <2>11. ASSUME NEW E, IsDiffs(E, e, t, Y) PROVE Begins(D[p], o, E[p])
    <3>1. Changed(b, e, t, X, Y, p, Key(k), D, E)
      BY <1>1, <1>6, <2>3, <2>7, <2>8, <2>11 DEF Changed
    <3>2. E[c] = <<>>
      <4> HIDE DEF c
      <4> QED
        BY <1>1, <1>5, <2>3, <2>8, <2>11, EqualEmpty
    <3>3. E[Append(p, Key(k))] = Tail(MembersVisited(b, t, p, D)[k])
      BY <2>1, <3>2
    <3>4. Begins(D[p], Head(MembersVisited(b, t, p, D)[k]), E[p])
      BY <1>3, <2>3, <2>7, <3>1, <3>3, AfterMember
    <3> QED
      BY <2>1, <3>4
  <2> HIDE DEF o, V
  <2> QED
    BY <2>3, <2>6, <2>7, <2>9, <2>10, <2>11, ProgressBy
<1> QED
  BY <1>7, <1>8

\* Elements both have are visited first.
LEMMA ProgressElement ==
  ASSUME NEW b, NEW t, NEW X, NEW D, NEW p, Asked(b, t, X, D, p), Both(b, t, p, "Array"),
         Each(ElementsVisited(p, Held(b[p]), Held(t[p]), D)) # <<>>,
         ProgressBelow(b, t, X, D, p)
  PROVE  Progress(b, t, X, p, Head(D[p]), Tail(D[p]))
<1> DEFINE m == Held(b[p])
           n == Held(t[p])
           V == ElementsVisited(p, m, n, D)
<1>1. /\ IsValue(b) /\ IsDocument(b) /\ IsValue(t) /\ IsDocument(t) /\ p \in DOMAIN b
      /\ p \in DOMAIN t /\ p \in Seq(Segment) /\ X \subseteq Seq(Segment)
      /\ IsDiffs(D, b, t, X) /\ Variant(b[p]) = "Array" /\ Variant(t[p]) = "Array"
      /\ IsNode(b[p]) /\ IsNode(t[p])
  BY DEF Asked, IsValue, IsDocument, Both
<1>2. IsParts(V, OpsFor(t))
  BY <1>1, DiffsType DEF PartsTyped
<1>3. PICK i \in DOMAIN V : i \in Nat /\ IsFirst(Numbered(V), i)
  <2> HIDE DEF V
  <2>1. Each(V) # <<>>
    BY DEF V
  <2> QED
    BY <1>2, <2>1, FirstPart
<1>4. V[i] # <<>>
  <2> HIDE DEF V
  <2> QED
    BY <1>3 DEF IsFirst, Numbered
<1> DEFINE c == Append(p, Index(i))
<1>5. V[i] = D[c] /\ i \in 0..(m - 1) /\ i < n
  BY <1>3 DEF ElementsVisited
<1>6. m \in Nat /\ n \in Nat /\ i \in Nat /\ i \in 0..(n - 1)
  BY <1>1, <1>3, <1>5 DEF IsNode
<1>7. Index(i) \in Segment /\ c \in DOMAIN b /\ c \in DOMAIN t
  <2>1. Index(i) \in Segment
    BY <1>6, SegmentKinds
  <2> QED
    BY <1>1, <1>5, <1>6, <2>1, WhatIsBelow
<1>8. Progress(b, t, X, c, Head(D[c]), Tail(D[c]))
  BY <1>4, <1>5, <1>7 DEF ProgressBelow
<1>9. ASSUME NEW e, NEW Y, NEW E, Changed(b, e, t, X, Y, p, Index(i), D, E), e[p] = b[p],
             E[c] = Tail(D[c])
      PROVE  Begins(D[p], Head(D[c]), E[p])
  BY <1>3, <1>9, AfterElement
<1> HIDE DEF V
<1> QED
  BY <1>7, <1>8, <1>9, ProgressUp

\* Then elements the target has more of are appended.
LEMMA ProgressAppended ==
  ASSUME NEW b, NEW t, NEW X, NEW D, NEW p, Asked(b, t, X, D, p), Both(b, t, p, "Array"),
         NEW m \in Nat, NEW n \in Nat, Held(b[p]) = m, Held(t[p]) = n, m < n,
         Each(ElementsVisited(p, m, n, D)) = <<>>
  PROVE  Progress(b, t, X, p, Head(D[p]), Tail(D[p]))
<1> DEFINE c == Append(p, Index(m))
           v == ValueAt(t, c)
           o == Op("Append", p, v)
           e == InsertElement(b, p, m, v)
           Y == {x \in X : ~ IsPrefix(c, x)}
<1>1. /\ IsValue(b) /\ IsDocument(b) /\ IsValue(t) /\ IsDocument(t) /\ p \in DOMAIN b
      /\ p \in DOMAIN t /\ p \in Seq(Segment) /\ X \subseteq Seq(Segment)
      /\ IsDiffs(D, b, t, X) /\ Variant(b[p]) = "Array" /\ Variant(t[p]) = "Array"
      /\ t[p] = <<"Array", n>> /\ b[p] = <<"Array", m>>
  BY DEF Asked, IsValue, IsDocument, IsNode, Both
<1>2. Index(m) \in Segment /\ c \in DOMAIN t /\ c \in Seq(Segment) /\ IsElement(c, p, m)
  <2>1. Index(m) \in Segment /\ m \in 0..(n - 1)
    BY SegmentKinds
  <2> QED
    BY <1>1, <2>1, WhatIsBelow, PathDown DEF IsElement
<1>3. v # Missing
  BY <1>2 DEF Asked
<1>4. o.kind = "Append" /\ o.path = p /\ o.value = v
  BY DEF Op
<1>5. Does(b, o, e)
  <2> HIDE DEF o, v
  <2> QED
    BY <1>1, <1>3, <1>4 DEF Does
<1>6. /\ IsValue(e) /\ OffSame(b, e, p, c) /\ Agree(e, t, c)
      /\ p \in DOMAIN e /\ e[p] = Array(m + 1)
  <2>1. e = InsertElement(b, p, m, ValueAt(t, c)) /\ m = Held(b[p])
    OBVIOUS
  <2> HIDE DEF c, e
  <2> QED
    BY <1>1, <1>2, <2>1, AppendedElement
<1> HIDE DEF e
<1>7. SameBut(b, e, p)
  BY <1>1, <1>2, <1>6, OffIsSame
<1>8. LeftOf(Y, X, c) /\ \A x \in Y : ~ IsPrefix(c, x)
  BY DEF LeftOf
<1> HIDE DEF Y
<1>9. LeftOf(Y, X, p)
  BY <1>1, <1>2, <1>8, LeftAbove
<1>10. Nearer(b, e, t)
  <2>1. ~ AgreeAt(b, t, p)
    BY <1>1 DEF AgreeAt
  <2>2. \A q \in Seq(Segment) : IsPrefix(c, q) => AgreeAt(e, t, q)
    BY <1>6 DEF Agree
  <2> HIDE DEF c
  <2> QED
    BY <1>6, <2>1, <2>2, NearerBy
<1>11. ASSUME NEW E, IsDiffs(E, e, t, Y) PROVE Begins(D[p], o, E[p])
  <2>1. Changed(b, e, t, X, Y, p, Index(m), D, E)
    BY <1>1, <1>2, <1>6, <1>8, <1>11 DEF Changed
  <2>2. c \in DOMAIN e
    <3>1. IsPrefix(c, c)
      BY <1>2, PrefixOfItself
    <3> QED
      BY <1>2, <1>6, <3>1 DEF Agree, AgreeAt
  <2>3. E[c] = <<>>
    <3> HIDE DEF c
    <3> QED
      BY <1>1, <1>2, <1>6, <1>8, <1>11, <2>2, EqualEmpty
  <2> QED
    BY <1>6, <2>1, <2>3, AfterAppended
<1> HIDE DEF o, c
<1> QED
  BY <1>5, <1>6, <1>7, <1>9, <1>10, <1>11, ProgressBy

\* Or those it has less of are removed, from the last on.
LEMMA ProgressLast ==
  ASSUME NEW b, NEW t, NEW X, NEW D, NEW p, Asked(b, t, X, D, p), Both(b, t, p, "Array"),
         NEW m \in Nat, NEW n \in Nat, Held(b[p]) = m + 1, Held(t[p]) = n, n <= m,
         Each(ElementsVisited(p, m + 1, n, D)) = <<>>
  PROVE  Progress(b, t, X, p, Head(D[p]), Tail(D[p]))
<1> DEFINE c == Append(p, Index(m))
           o == Op("Remove", c, Missing)
           e == RemovePath(b, c)
<1>1. /\ IsValue(b) /\ IsDocument(b) /\ IsValue(t) /\ IsDocument(t) /\ p \in DOMAIN b
      /\ p \in DOMAIN t /\ p \in Seq(Segment) /\ X \subseteq Seq(Segment)
      /\ IsDiffs(D, b, t, X) /\ Variant(b[p]) = "Array" /\ Variant(t[p]) = "Array"
      /\ t[p] = <<"Array", n>> /\ b[p] = <<"Array", m + 1>>
  BY DEF Asked, IsValue, IsDocument, IsNode, Both
<1>2. Index(m) \in Segment /\ c \notin DOMAIN t /\ c \in Seq(Segment) /\ IsElement(c, p, m)
  <2>1. Index(m) \in Segment /\ ~ (m < n)
    BY SegmentKinds
  <2>2. c \notin DOMAIN t
    BY <1>1, <2>1, ElementsOf
  <2> QED
    BY <1>1, <2>1, <2>2, PathDown DEF IsElement
<1>3. o.kind = "Remove" /\ o.path = c
  BY DEF Op
<1>4. /\ IsValue(e) /\ CanRemove(b, c) /\ OffSame(b, e, p, c) /\ Gone(e, c)
      /\ p \in DOMAIN e /\ e[p] = Array(m)
  <2> HIDE DEF c
  <2>1. IsValue(b) /\ p \in DOMAIN b /\ Variant(b[p]) = "Array" /\ IsElement(c, p, m)
    BY <1>1, <1>2
  <2>2. m \in Nat /\ Held(b[p]) = m + 1
    OBVIOUS
  <2> QED
    BY <2>1, <2>2, RemovedElement
<1>5. Does(b, o, e)
  <2> HIDE DEF o
  <2>1. c \in DOMAIN b
    BY <1>1, ElementsOf
  <2> QED
    BY <1>3, <1>4, <2>1 DEF Does
<1> HIDE DEF e
<1>7. SameBut(b, e, p)
  BY <1>1, <1>2, <1>4, OffIsSame
<1>8. LeftOf(X, X, c) /\ LeftOf(X, X, p)
  BY DEF LeftOf
<1>9. Nearer(b, e, t)
  <2>1. ~ AgreeAt(b, t, p)
    <3>1. b[p] # t[p]
      BY <1>1
    <3> QED
      BY <1>1, <3>1 DEF AgreeAt
  <2>2. ASSUME NEW q \in Seq(Segment), IsPrefix(c, q) PROVE AgreeAt(e, t, q)
    <3>1. q \notin DOMAIN t
      BY <1>1, <1>2, <2>2, OnTheWay
    <3> QED
      BY <1>4, <2>2, <3>1 DEF Gone, AgreeAt
  <2> HIDE DEF c
  <2> QED
    BY <1>4, <2>1, <2>2, NearerBy
<1>10. ASSUME NEW E, IsDiffs(E, e, t, X) PROVE Begins(D[p], o, E[p])
  <2>1. Changed(b, e, t, X, X, p, Index(m), D, E)
    BY <1>1, <1>2, <1>4, <1>8, <1>10 DEF Changed
  <2> QED
    BY <1>4, <2>1, AfterLast
<1> HIDE DEF o, c
<1> QED
  BY <1>4, <1>5, <1>7, <1>8, <1>9, <1>10, ProgressBy

\* In two arrays there is progress.
LEMMA ProgressInArray ==
  ASSUME NEW b, NEW t, NEW X, NEW D, NEW p, Asked(b, t, X, D, p), Both(b, t, p, "Array"),
         OfArray(b, t, p, D) # <<>>, ProgressBelow(b, t, X, D, p)
  PROVE  Progress(b, t, X, p, Head(D[p]), Tail(D[p]))
<1> DEFINE m == Held(b[p])
           n == Held(t[p])
<1>1. /\ IsValue(b) /\ IsDocument(b) /\ IsValue(t) /\ IsDocument(t) /\ p \in DOMAIN b
      /\ p \in DOMAIN t /\ IsNode(b[p]) /\ IsNode(t[p]) /\ IsDiffs(D, b, t, X)
  BY DEF Asked, IsValue, IsDocument
<1>2. m \in Nat /\ n \in Nat
  BY <1>1 DEF IsNode, Both
<1>3. CASE Each(ElementsVisited(p, m, n, D)) # <<>>
  BY <1>3, ProgressElement
<1>4. CASE Each(ElementsVisited(p, m, n, D)) = <<>> /\ m < n
  BY <1>2, <1>4, ProgressAppended
<1>5. CASE Each(ElementsVisited(p, m, n, D)) = <<>> /\ n < m
  <2> DEFINE l == m - 1
  <2>1. l \in Nat /\ m = l + 1 /\ n <= l
    BY <1>2, <1>5
  <2> HIDE DEF l
  <2>2. Held(b[p]) = l + 1 /\ Held(t[p]) = n /\ Each(ElementsVisited(p, l + 1, n, D)) = <<>>
    BY <1>5, <2>1
  <2> HIDE DEF m, n
  <2> QED
    BY <1>2, <2>1, <2>2, ProgressLast
<1>6. CASE Each(ElementsVisited(p, m, n, D)) = <<>> /\ m = n
  <2>1. PartsTyped(b, t, p, D)
    BY <1>1, DiffsType
  <2>2. 1..(n - m) = {} /\ 1..(m - n) = {}
    BY <1>2, <1>6
  <2>3. ElementsAppended(t, p, m, n) = <<>> /\ ElementsRemoved(p, m, n) = <<>>
    BY <2>2 DEF ElementsAppended, ElementsRemoved
  <2>4. OfArray(b, t, p, D) = (<<>> \o <<>>) \o <<>>
    BY <1>6, <2>3 DEF OfArray
  <2>5. (<<>> \o <<>>) \o <<>> = <<>>
    OBVIOUS
  <2> QED
    BY <2>4, <2>5
<1> QED
  BY <1>2, <1>3, <1>4, <1>5, <1>6

\* In two objects there is progress.
LEMMA ProgressInObject ==
  ASSUME NEW b, NEW t, NEW X, NEW D, NEW p, Asked(b, t, X, D, p), Both(b, t, p, "Object"),
         OfObject(b, t, p, D) # <<>>, ProgressBelow(b, t, X, D, p)
  PROVE  Progress(b, t, X, p, Head(D[p]), Tail(D[p]))
<1>1. CASE Each(MembersRemoved(b, t, p)) # <<>>
  BY <1>1, ProgressRemoved
<1>2. CASE /\ Each(MembersRemoved(b, t, p)) = <<>>
           /\ Each(MembersVisited(b, t, p, D)) # <<>>
  BY <1>2, ProgressVisited
<1>3. CASE /\ Each(MembersRemoved(b, t, p)) = <<>>
           /\ Each(MembersVisited(b, t, p, D)) = <<>>
  <2>1. OfObject(b, t, p, D) = <<>> \o <<>>
    BY <1>3 DEF OfObject
  <2>2. <<>> \o <<>> = <<>>
    OBVIOUS
  <2> QED
    BY <2>1, <2>2
<1> QED
  BY <1>1, <1>2, <1>3

\* Wherever diff has something to say, there is progress.
LEMMA ProgressAlways ==
  ASSUME NEW b, NEW t, NEW X, NEW D, NEW p, Asked(b, t, X, D, p), D[p] # <<>>
  PROVE  Progress(b, t, X, p, Head(D[p]), Tail(D[p]))
<1> DEFINE Fails1(q) == D[q] # <<>> /\ ~ Progress(b, t, X, q, Head(D[q]), Tail(D[q]))
           T == {q \in DOMAIN b : q \in DOMAIN t /\ Fails1(q)}
<1>1. /\ IsValue(b) /\ IsDocument(b) /\ IsDocument(t) /\ IsDiffs(D, b, t, X)
      /\ p \in DOMAIN b /\ p \in DOMAIN t
  BY DEF Asked, IsValue
<1>2. T = {}
  <2> SUFFICES ASSUME T # {} PROVE FALSE
    OBVIOUS
  <2>1. T \subseteq DOMAIN b
    OBVIOUS
  <2>2. PICK q \in T : \A s \in Segment : Append(q, s) \notin T
    BY <1>1, <2>1, Lowest
  <2>3. /\ q \in DOMAIN b /\ q \in DOMAIN t /\ D[q] # <<>>
        /\ ~ Progress(b, t, X, q, Head(D[q]), Tail(D[q]))
    OBVIOUS
  <2>4. ProgressBelow(b, t, X, D, q)
    BY <2>2 DEF ProgressBelow
  <2>5. Asked(b, t, X, D, q) /\ IsNode(b[q]) /\ IsNode(t[q])
    BY <1>1, <2>3 DEF Asked, IsDocument
  <2>6. D[q] = NodeBut(b, t, X, q, D)
    BY <1>1, <2>3 DEF IsDiffs
  <2> HIDE DEF T
  <2>7. CASE Both(b, t, q, "Object")
    <3>1. D[q] = OfObject(b, t, q, D)
      BY <2>5, <2>6, <2>7, NodeCases
    <3> QED
      BY <2>3, <2>4, <2>5, <2>7, <3>1, ProgressInObject
  <2>8. CASE Both(b, t, q, "Array")
    <3>1. D[q] = OfArray(b, t, q, D)
      BY <2>5, <2>6, <2>8, NodeCases
    <3> QED
      BY <2>3, <2>4, <2>5, <2>8, <3>1, ProgressInArray
  <2>9. CASE b[q] = t[q] /\ Variant(b[q]) \notin Containers
    <3>1. NodeBut(b, t, X, q, D) = IF q \in X THEN Replacing(t, q) ELSE <<>>
      BY <2>5, <2>9, NodeCases
    <3>2. D[q] = Replacing(t, q)
      BY <2>3, <2>6, <3>1
    <3> QED
      BY <2>3, <2>5, <3>2, ProgressReplaced
  <2>10. CASE b[q] # t[q] /\ Both(b, t, q, "I64")
    <3>1. D[q] = <<CounterOp(q, Held(b[q]), Held(t[q]))>>
      BY <2>5, <2>6, <2>10, NodeCases
    <3> QED
      BY <2>3, <2>5, <2>10, <3>1, ProgressCounted
  <2>11. CASE /\ b[q] # t[q] /\ ~ Both(b, t, q, "Object") /\ ~ Both(b, t, q, "Array")
              /\ ~ Both(b, t, q, "I64")
    <3>1. D[q] = Replacing(t, q)
      BY <2>5, <2>6, <2>11, NodeCases
    <3> QED
      BY <2>3, <2>5, <3>1, ProgressReplaced
  <2> QED
    BY <2>7, <2>8, <2>9, <2>10, <2>11, AllCases
<1> QED
  BY <1>1, <1>2
-----------------------------------------------------------------------------
(***************************************************************************)
(* A delta that has been through a file is still one.                      *)
(***************************************************************************)
\* A node read back is a node, and no other node becomes a container.
LEMMA NodeReread ==
  ASSUME NEW node, IsNode(node),
         Variant(node) \in Unsigned \/ WholeFloat(node) => Held(node) \in I64
  PROVE  /\ IsNode(TextNode(node))
         /\ Variant(node) \in Containers \/ Variant(TextNode(node)) \in Containers =>
              TextNode(node) = node
<1>1. CASE Variant(node) \in Unsigned \cup Signed \/ WholeFloat(node)
  <2>1. TextNode(node) = <<"I64", Held(node)>>
    BY <1>1 DEF TextNode, Signed, Unsigned, WholeFloat, Floats, Quoted
  <2>2. Held(node) \in I64
    BY <1>1 DEF IsNode, Signed, Unsigned
  <2>3. Variant(node) \notin Containers
    BY <1>1 DEF WholeFloat, Floats, Signed, Unsigned, Containers
  <2> QED
    BY <2>1, <2>2, <2>3 DEF IsNode, Variant, Held, Containers
<1>2. CASE ~ (Variant(node) \in Unsigned \cup Signed \/ WholeFloat(node))
  <2>1. CASE Variant(node) \in Floats /\ Held(node) = NaN
    <3>1. TextNode(node) = <<"String", NaNWord>>
      BY <1>2, <2>1, TextConstants DEF TextNode, Floats, Quoted
    <3> QED
      BY <2>1, <3>1 DEF IsNode, Variant, Held, Containers, Floats
  <2>2. CASE Variant(node) \in Floats /\ Held(node) # NaN
    <3>1. Held(node) \in Fractions
      BY <1>2, <2>2 DEF WholeFloat
    <3>2. TextNode(node) = <<"F64", Short(Held(node))>> \/ TextNode(node) = node
      BY <1>2, <2>2, <3>1 DEF TextNode, Floats, Quoted
    <3> QED
      BY <2>2, <3>2 DEF IsNode, Variant, Held, Containers, Floats
  <2>3. CASE Variant(node) \in Quoted
    <3> DEFINE v == IF Variant(node) = "Enum" THEN "String" ELSE Variant(node)
               h == IF IsAscii(Held(node)) THEN Held(node) ELSE Garbled(Held(node))
    <3>1. TextNode(node) = <<v, h>>
      BY <1>2, <2>3 DEF TextNode, Quoted, Floats
    <3>2. v \in Quoted
      BY <2>3 DEF Quoted
    <3> HIDE DEF v, h
    <3> QED
      BY <2>3, <3>1, <3>2 DEF IsNode, Variant, Held, Containers, Quoted
  <2>4. CASE Variant(node) = "Decimal"
    <3> DEFINE h == <<Held(node)[1] * PowerOfTen[Held(node)[2]], Held(node)[2]>>
    <3>1. TextNode(node) = <<"Decimal", h>>
      BY <1>2, <2>4 DEF TextNode, Quoted, Floats
    <3> HIDE DEF h
    <3> QED
      BY <2>4, <3>1 DEF IsNode, Variant, Held, Containers
  <2>5. CASE Variant(node) \notin Floats \cup Quoted \cup {"Decimal"}
    <3>1. TextNode(node) = node
      BY <1>2, <2>5 DEF TextNode, Quoted, Floats
    <3> QED
      BY <3>1
  <2> QED
    BY <2>1, <2>2, <2>3, <2>4, <2>5
<1> QED
  BY <1>1, <1>2

\* A value read back is a value.
LEMMA ValueReread ==
  ASSUME NEW v, IsValue(v), ValueReadable(v), NEW w, w = [p \in DOMAIN v |-> TextNode(v[p])]
  PROVE  IsValue(w)
<1>1. DOMAIN w = DOMAIN v /\ IsDocument(v)
  BY DEF IsValue
<1>2. ASSUME NEW p \in DOMAIN v
      PROVE  /\ IsNode(w[p])
             /\ Variant(v[p]) \in Containers \/ Variant(w[p]) \in Containers => w[p] = v[p]
  <2>1. IsNode(v[p]) /\ w[p] = TextNode(v[p])
    BY <1>1 DEF IsDocument
  <2>2. Variant(v[p]) \in Unsigned \/ WholeFloat(v[p]) => Held(v[p]) \in I64
    BY DEF ValueReadable
  <2> QED
    BY <2>1, <2>2, NodeReread
<1>3. ASSUME NEW p \in DOMAIN v, NEW n \in 1..Len(p)
      PROVE  SubSeq(p, 1, n - 1) \in DOMAIN v /\ Leads(w[SubSeq(p, 1, n - 1)], p[n])
  <2> DEFINE r == SubSeq(p, 1, n - 1)
  <2>1. r \in DOMAIN v /\ Leads(v[r], p[n])
    BY <1>1 DEF IsDocument
  <2>2. Variant(v[r]) \in Containers
    BY <2>1 DEF Leads, Containers
  <2>3. w[r] = v[r]
    BY <1>2, <2>1, <2>2
  <2> QED
    BY <2>1, <2>3
<1>4. ASSUME NEW p \in DOMAIN v, Variant(w[p]) = "Array", NEW i \in 0..(Held(w[p]) - 1)
      PROVE  Append(p, Index(i)) \in DOMAIN v
  <2>1. w[p] = v[p]
    BY <1>2, <1>4 DEF Containers
  <2> QED
    BY <1>1, <1>4, <2>1 DEF IsDocument
<1>5. w = [p \in DOMAIN w |-> w[p]]
  OBVIOUS
<1>6. DOMAIN w \subseteq Seq(Segment) /\ Root \in DOMAIN w /\ IsFiniteSet(DOMAIN w)
  BY <1>1 DEF IsDocument, IsValue
<1> QED
  BY <1>1, <1>2, <1>3, <1>4, <1>5, <1>6 DEF IsValue, IsDocument

\* An operation read back is an operation.
LEMMA OpReread ==
  ASSUME NEW op, IsOp(op), op = [f \in DOMAIN op |-> op[f]], Readable(op)
  PROVE  IsOp(Reread(op))
<1> DEFINE v == [p \in DOMAIN op.value |-> TextNode(op.value[p])]
           path == TextPath(op.path)
           value == IF op.value = Missing THEN Missing ELSE v
<1>1. op.value # Missing => IsValue(v)
  BY ValueReread DEF IsOp, Readable
<1>2. path \in Seq(Segment)
  <2>1. op.path \in Seq(Segment)
    BY DEF IsOp
  <2>2. ASSUME NEW i \in DOMAIN op.path PROVE path[i] \in Segment
    <3>1. op.path[i] \in Segment
      BY <2>1
    <3>2. op.path[i][2] \in Numeric => Index(op.path[i][2]) \in Segment
      BY SegmentKinds, TextConstants, DocumentConstants
    <3> QED
      BY <3>1, <3>2 DEF TextPath
  <2>3. DOMAIN op.path = 1..Len(op.path) /\ Len(op.path) \in Nat
    BY <2>1
  <2>4. path = [i \in 1..Len(op.path) |-> path[i]]
    BY <2>3 DEF TextPath
  <2> HIDE DEF path
  <2>5. path \in [1..Len(op.path) -> Segment]
    BY <2>2, <2>3, <2>4
  <2> QED
    BY <2>3, <2>5, RowType
<1>3. Reread(op) = [op EXCEPT !.path = path, !.value = value]
  BY DEF Reread
<1>4. value # Missing => IsValue(value)
  BY <1>1
<1> HIDE DEF path, value
<1> DEFINE r == Reread(op)
<1>5. /\ DOMAIN r = DOMAIN op /\ r.kind = op.kind /\ r.path = path /\ r.value = value
      /\ r.from = op.from /\ r.index = op.index
  BY <1>3 DEF IsOp
<1> HIDE DEF r
<1> QED
  BY <1>2, <1>4, <1>5 DEF IsOp, r

\* Values and operations of diff.
LEMMA DiffOps ==
  ASSUME NEW t \in Targets, NEW o \in OpsFor(t)
  PROVE  IsOp(o) /\ o = [f \in DOMAIN o |-> o[f]]
<1>1. \A q \in DOMAIN t : IsValue(ValueAt(t, q))
  BY TargetsAreValues, ValueAtDocument, FiniteParts DEF IsValue
<1>2. ASSUME NEW n \in I64 PROVE IsValue(Leaf(<<"I64", n>>))
  <2>1. IsNode(<<"I64", n>>)
    BY DEF IsNode, Variant, Held
  <2>2. IsDocument(Leaf(<<"I64", n>>))
    BY <2>1, LeafDocument DEF Variant
  <2>3. DOMAIN Leaf(<<"I64", n>>) = {Root}
    BY DEF Leaf
  <2> QED
    BY <2>2, <2>3, FS_Singleton DEF IsValue
<1>3. o.value # Missing => IsValue(o.value)
  BY <1>1, <1>2 DEF OpsFor, Values
<1> QED
  BY <1>3 DEF OpsFor, IsOp
-----------------------------------------------------------------------------
(***************************************************************************)
(* diff and patch.                                                         *)
(***************************************************************************)
\* The operations left are what diff says of the document and the target, but
\* for floats that are NaN: those not in X have been replaced already.
Left == \E X, D : /\ X \subseteq NaNs(target) /\ IsDiffs(D, doc, target, X)
                  /\ todo = D[Root]

\* What is always true of diff and patch.  A delta read from a file is only
\* known to be one.
SyncInv == /\ IsValue(doc) /\ target \in Targets
           /\ \E O : (\A o \in O : IsOp(o)) /\ todo \in Seq(O)
           /\ ~ reread => /\ result \in {"applying", "ok"} /\ Left
                          /\ result = "ok" => todo = <<>>

\* The target is a document, and Root is everywhere.
LEMMA BothRooted ==
  ASSUME SyncInv
  PROVE  /\ IsValue(doc) /\ IsDocument(doc) /\ Root \in DOMAIN doc
         /\ IsValue(target) /\ IsDocument(target) /\ Root \in DOMAIN target
         /\ \A p \in DOMAIN target : ValueAt(target, p) # Missing
         /\ NaNs(target) \subseteq DOMAIN target /\ DOMAIN target \subseteq Seq(Segment)
<1>1. IsValue(doc) /\ IsValue(target) /\ \A p \in DOMAIN target : ValueAt(target, p) # Missing
  BY TargetsAreValues DEF SyncInv
<1>2. IsDocument(doc) /\ IsDocument(target)
  BY <1>1 DEF IsValue
<1>3. Root \in DOMAIN doc
  BY <1>2 DEF IsDocument
<1>4. Root \in DOMAIN target /\ DOMAIN target \subseteq Seq(Segment)
  BY <1>2 DEF IsDocument
<1> QED
  BY <1>1, <1>2, <1>3, <1>4 DEF NaNs

\* What diff pushes are operations.
LEMMA LeftTyped ==
  ASSUME NEW t \in Targets, NEW b, IsValue(b), NEW X, NEW D, IsDiffs(D, b, t, X)
  PROVE  D[Root] \in Seq(OpsFor(t)) /\ \A o \in OpsFor(t) : IsOp(o)
<1>1. IsValue(t) /\ Root \in DOMAIN t /\ Root \in DOMAIN b
  BY TargetsAreValues DEF IsValue, IsDocument
<1> QED
  BY <1>1, DiffsType, DiffOps

\* The invariant holds at the start,
LEMMA SyncInitially == SyncInit => SyncInv
<1> SUFFICES ASSUME SyncInit PROVE SyncInv
  OBVIOUS
<1>1. /\ IsValue(doc) /\ target \in Targets /\ IsValue(target) /\ IsDocument(target)
      /\ result = "applying" /\ todo = Diffs(doc, target)[Root]
  BY OpsAreOps, TargetsAreValues DEF SyncInit, Init, Diff, IsValue
<1>2. IsDiffs(Diffs(doc, target), doc, target, NaNs(target))
  BY <1>1, DiffsAtFirst
<1>3. todo \in Seq(OpsFor(target)) /\ \A o \in OpsFor(target) : IsOp(o)
  BY <1>1, <1>2, LeftTyped
<1>4. Left
  BY <1>1, <1>2 DEF Left
<1> QED
  BY <1>1, <1>3, <1>4 DEF SyncInv

\* The first operation of what diff says succeeds, the others are what it says of the
\* document the first leaves, and that is as near to the target as the one before.
LEMMA Forward ==
  ASSUME SyncInv, UNCHANGED target, NEW X, X \subseteq NaNs(target),
         NEW D, IsDiffs(D, doc, target, X), D[Root] # <<>>, NEW o, o = Head(D[Root]), Apply(o)
  PROVE  /\ IsValue(doc)' /\ UNCHANGED result /\ Nearer(doc, doc', target)
         /\ \E Y, E : /\ Y \subseteq NaNs(target) /\ IsDiffs(E, doc', target, Y)
                     /\ E[Root] = Tail(D[Root])
<1>1. Asked(doc, target, X, D, Root)
  BY BothRooted DEF Asked
<1>2. Progress(doc, target, X, Root, Head(D[Root]), Tail(D[Root]))
  BY <1>1, ProgressAlways
<1>3. PICK e, Y : /\ IsValue(e) /\ Does(doc, o, e) /\ Nearer(doc, e, target)
                  /\ LeftOf(Y, X, Root)
                  /\ \A E : IsDiffs(E, e, target, Y) => E[Root] = Tail(D[Root])
  BY <1>2 DEF Progress
<1>4. Becomes(e)
  BY <1>3, BothRooted, DoesIt
<1>5. doc' = e /\ UNCHANGED result
  BY <1>4 DEF Becomes
<1>6. PICK E : IsDiffs(E, e, target, Y)
  BY <1>3, BothRooted, DiffsExist
<1>7. Y \subseteq NaNs(target) /\ E[Root] = Tail(D[Root])
  BY <1>3, <1>6 DEF LeftOf
<1> QED
  BY <1>3, <1>5, <1>6, <1>7

\* So it is for the operations that are left.
LEMMA StepTowards ==
  ASSUME SyncInv, ~ reread, SyncStep
  PROVE  IsValue(doc)' /\ UNCHANGED result /\ Left' /\ Nearer(doc, doc', target)
<1>1. PICK X, D : X \subseteq NaNs(target) /\ IsDiffs(D, doc, target, X) /\ todo = D[Root]
  BY DEF SyncInv, Left
<1>2. /\ D[Root] # <<>> /\ Apply(Head(D[Root])) /\ todo' = Tail(D[Root])
      /\ UNCHANGED target
  BY <1>1 DEF SyncStep
<1>3. /\ IsValue(doc)' /\ UNCHANGED result /\ Nearer(doc, doc', target)
      /\ \E Y, E : /\ Y \subseteq NaNs(target) /\ IsDiffs(E, doc', target, Y)
                  /\ E[Root] = Tail(D[Root])
  BY <1>1, <1>2, Forward
<1>4. Left'
  BY <1>2, <1>3 DEF Left
<1> QED
  BY <1>3, <1>4

\* Whatever an operation of a delta does, what it leaves is a value.
LEMMA StepKeeps ==
  ASSUME SyncInv, SyncStep
  PROVE  /\ IsValue(doc)' /\ UNCHANGED <<target, reread>>
         /\ (\E O : (\A o \in O : IsOp(o)) /\ todo \in Seq(O))'
<1>1. PICK O : (\A o \in O : IsOp(o)) /\ todo \in Seq(O)
  BY DEF SyncInv
<1>2. todo # <<>> /\ Apply(Head(todo)) /\ todo' = Tail(todo) /\ UNCHANGED <<target, reread>>
  BY DEF SyncStep
<1>3. Head(todo) \in O /\ todo' \in Seq(O)
  BY <1>1, <1>2
<1>4. Keeps /\ IsFiniteSet(DOMAIN doc')
  BY <1>1, <1>2, <1>3, BothRooted, ApplyKeeps, ApplyFinite DEF IsValue
<1>5. IsDocument(doc')
  BY <1>4, BothRooted DEF Keeps
<1> QED
  BY <1>1, <1>2, <1>3, <1>4, <1>5 DEF IsValue

\* What is read from the file is a delta.
LEMMA LoadKeeps ==
  ASSUME SyncInv, LoadDelta
  PROVE  SyncInv'
<1>1. ~ reread /\ reread' = TRUE /\ UNCHANGED <<doc, target>>
  BY DEF LoadDelta, Fails, vars
<1>2. IsValue(doc)' /\ target' \in Targets
  BY <1>1 DEF SyncInv
<1>3. (\E O : (\A o \in O : IsOp(o)) /\ todo \in Seq(O))'
  <2>1. CASE UNCHANGED todo
    BY <2>1 DEF SyncInv
  <2>2. CASE /\ \A i \in DOMAIN todo : Readable(todo[i])
             /\ todo' = [i \in DOMAIN todo |-> Reread(todo[i])]
    <3>1. PICK X, D : IsDiffs(D, doc, target, X) /\ todo = D[Root]
      BY <1>1 DEF SyncInv, Left
    <3>2. todo \in Seq(OpsFor(target))
      BY <3>1, LeftTyped DEF SyncInv
    <3> DEFINE N == {Reread(todo[i]) : i \in DOMAIN todo}
    <3>3. ASSUME NEW i \in DOMAIN todo PROVE IsOp(Reread(todo[i]))
      <4>1. todo[i] \in OpsFor(target) /\ Readable(todo[i])
        BY <2>2, <3>2
      <4> HIDE DEF N
      <4>2. IsOp(todo[i]) /\ todo[i] = [f \in DOMAIN todo[i] |-> todo[i][f]]
        BY <4>1, DiffOps DEF SyncInv
      <4> QED
        BY <4>1, <4>2, OpReread
    <3>4. \A o \in N : IsOp(o)
      BY <3>3
    <3>5. todo' \in [1..Len(todo) -> N] /\ Len(todo) \in Nat
      BY <2>2, <3>2
    <3>6. todo' \in Seq(N)
      BY <3>5, RowType
    <3> QED
      BY <3>4, <3>6
  <2> QED
    BY <2>1, <2>2 DEF LoadDelta
<1> QED
  BY <1>1, <1>2, <1>3 DEF SyncInv

\* every step of diff and patch keeps it,
LEMMA SyncAlways == SyncInv /\ [PatchNext]_syncVars => SyncInv'
<1> SUFFICES ASSUME SyncInv, [PatchNext]_syncVars PROVE SyncInv'
  OBVIOUS
<1>1. CASE LoadDelta
  BY <1>1, LoadKeeps
<1>2. CASE SyncStep
  <2>1. /\ IsValue(doc)' /\ UNCHANGED <<target, reread>> /\ result = "applying"
        /\ (\E O : (\A o \in O : IsOp(o)) /\ todo \in Seq(O))'
    BY <1>2, StepKeeps DEF SyncStep
  <2>2. ~ reread => UNCHANGED result /\ Left'
    BY <1>2, StepTowards
  <2> QED
    BY <2>1, <2>2 DEF SyncInv
<1>3. ASSUME UNCHANGED <<doc, target, todo, reread>>,
             result' = "ok" => todo = <<>> \/ result = "ok",
             result' \in {"ok", result}
      PROVE  SyncInv'
  <2>1. Left' <=> Left
    BY <1>3 DEF Left
  <2> QED
    BY <1>3, <2>1 DEF SyncInv
<1>4. CASE SyncReturn
  BY <1>3, <1>4 DEF SyncReturn, Return
<1>5. CASE SyncDone
  BY <1>3, <1>5 DEF SyncDone, Done, vars
<1>6. CASE UNCHANGED syncVars
  BY <1>3, <1>6 DEF syncVars, vars
<1> QED
  BY <1>1, <1>2, <1>4, <1>5, <1>6 DEF PatchNext, SyncNext

\* and so it always holds.
LEMMA AlwaysInSync == PatchSpec => []SyncInv
  BY SyncInitially, SyncAlways, PTL DEF PatchSpec

\* diff and apply_delta together: no operation of a delta from diff is refused,
\* and when all are applied the document is the target, exactly.
THEOREM AlwaysConverges == PatchSpec => []Converges
<1>1. SyncInv => Converges
  <2> SUFFICES ASSUME SyncInv, ~ reread, result = "ok" PROVE doc = target
    BY DEF Converges, SyncInv
  <2>1. PICK X, D : IsDiffs(D, doc, target, X) /\ <<>> = D[Root]
    BY DEF SyncInv, Left
  <2>2. Agree(doc, target, Root)
    BY <2>1, BothRooted, EmptyAgrees
  <2> QED
    BY <2>2, BothRooted, AgreeIsEqual
<1> QED
  BY <1>1, AlwaysInSync, PTL

\* diff on the document apply_delta has got to asks for just the operations that
\* are left: apply_delta may be started over from there.
THEOREM AlwaysResumable == PatchSpec => []Resumable
<1>1. SyncInv => Resumable
  <2> SUFFICES ASSUME SyncInv, ~ reread, ~ HoldsNaN(target) PROVE Diff(doc, target) = todo
    BY DEF Resumable
  <2>1. PICK X, D : X \subseteq NaNs(target) /\ IsDiffs(D, doc, target, X) /\ todo = D[Root]
    BY DEF SyncInv, Left
  <2>2. X = NaNs(target)
    BY <2>1 DEF NaNs, HoldsNaN
  <2>3. IsDiffs(Diffs(doc, target), doc, target, X)
    BY <2>2, BothRooted, DiffsAtFirst
  <2> QED
    BY <2>1, <2>3, BothRooted, DiffsUnique DEF Diff
<1> QED
  BY <1>1, AlwaysInSync, PTL

\* diff finds nothing to do only when the documents are equal, whatever apply_delta
\* has made of one of them.
THEOREM EmptyAlwaysMeansEqual == PatchSpec => []EmptyMeansEqual
<1>1. SyncInv => EmptyMeansEqual
  <2> SUFFICES ASSUME SyncInv, Diffs(doc, target)[Root] = <<>> PROVE doc = target
    BY DEF EmptyMeansEqual, Diff
  <2>1. IsDiffs(Diffs(doc, target), doc, target, NaNs(target))
    BY BothRooted, DiffsAtFirst
  <2>2. Agree(doc, target, Root)
    BY <2>1, BothRooted, EmptyAgrees
  <2> QED
    BY <2>2, BothRooted, AgreeIsEqual
<1> QED
  BY <1>1, AlwaysInSync, PTL

\* Without NaN an operation of the delta changes the document: diff asks for it
\* before, and for the others after.
LEMMA NoIdleStep ==
  ASSUME SyncInv, SyncInv', SyncStep, ~ reread, ~ reread', ~ HoldsNaN(target)
  PROVE  doc' # doc
<1> SUFFICES ASSUME doc' = doc PROVE FALSE
  OBVIOUS
<1>1. /\ todo # <<>> /\ todo' = Tail(todo) /\ target' = target
  BY DEF SyncStep
<1>2. PICK X, D : X \subseteq NaNs(target) /\ IsDiffs(D, doc, target, X) /\ todo = D[Root]
  BY DEF SyncInv, Left
<1>3. \E Y, E : Y \subseteq NaNs(target) /\ IsDiffs(E, doc, target, Y) /\ todo' = E[Root]
  BY <1>1 DEF SyncInv, Left
<1>4. PICK Y, E : Y \subseteq NaNs(target) /\ IsDiffs(E, doc, target, Y) /\ todo' = E[Root]
  BY <1>3
<1>5. X = {} /\ Y = {}
  BY <1>2, <1>4 DEF NaNs, HoldsNaN
<1>6. D[Root] = E[Root]
  BY <1>2, <1>4, <1>5, BothRooted, DiffsUnique
<1>7. \E O : todo \in Seq(O)
  BY DEF SyncInv
<1>8. PICK O : todo \in Seq(O)
  BY <1>7
<1>9. Len(Tail(todo)) = Len(todo) - 1 /\ Len(todo) \in Nat
  BY <1>1, <1>8
<1> QED
  BY <1>1, <1>2, <1>4, <1>6, <1>9

\* No operation of a delta from diff disturbs a place at which the document is
\* like the target, makes one that neither has, or does nothing.
THEOREM NeverGoesAstray == PatchSpec => NeverAstray
<1> DEFINE Right ==
      /\ \A q \in DOMAIN doc \cup DOMAIN doc' \cup DOMAIN target :
           SameAt(doc, target, q) => SameAt(doc', target, q)
      /\ todo' # todo /\ ~ HoldsNaN(target) => doc' # doc
<1>1. ASSUME SyncInv, SyncInv', [PatchNext]_syncVars, ~ reread' PROVE Right
  <2>1. CASE UNCHANGED <<doc, todo>>
    BY <2>1
  <2>2. CASE SyncStep
    <3>1. ~ reread
      BY <1>1, <2>2 DEF SyncStep
    <3>2. IsDocument(doc') /\ Nearer(doc, doc', target)
      BY <1>1, <2>2, <3>1, StepTowards DEF IsValue
    <3>3. \A q \in DOMAIN doc \cup DOMAIN doc' \cup DOMAIN target : q \in Seq(Segment)
      BY <1>1, <3>2, BothRooted DEF IsDocument
    <3>4. \A q \in DOMAIN doc \cup DOMAIN doc' \cup DOMAIN target :
            SameAt(doc, target, q) => SameAt(doc', target, q)
      BY <3>2, <3>3 DEF Nearer, AgreeAt, SameAt
    <3>5. ~ HoldsNaN(target) => doc' # doc
      BY <1>1, <2>2, <3>1, NoIdleStep
    <3> QED
      BY <3>4, <3>5
  <2> QED
    BY <1>1, <2>1, <2>2
    DEF PatchNext, SyncNext, LoadDelta, SyncReturn, Return, SyncDone, Done, syncVars, vars, Fails
<1>2. SyncInv /\ SyncInv' /\ [PatchNext]_syncVars => [~ reread' => Right]_syncVars
  BY <1>1
<1> QED
  BY <1>2, AlwaysInSync, PTL DEF PatchSpec, NeverAstray, Right
-----------------------------------------------------------------------------
(***************************************************************************)
(* The delta read from a file, when the text can express the target.       *)
(***************************************************************************)
\* The operations s, read back from a file.
InText(s) == [i \in DOMAIN s |-> Reread(s[i])]

\* What is left is what diff says, as it is read back; or an operation has failed, and
\* what it should have removed is still there.
TextInv ==
  reread /\ SurvivesText(target) /\ NoCounters(target) =>
    \/ result \notin {"applying", "ok"} /\ ~ SurvivesText(doc)
    \/ /\ result \in {"applying", "ok"} /\ (result = "ok" => todo = <<>>)
       /\ \E X, D : /\ X \subseteq NaNs(target) /\ IsDiffs(D, doc, target, X)
                    /\ todo = InText(D[Root])

\* A sequence is the function its elements make.
LEMMA SequenceForm ==
  ASSUME NEW S, NEW s \in Seq(S)
  PROVE  /\ s = [i \in 1..Len(s) |-> s[i]] /\ Len(s) \in Nat /\ DOMAIN s = 1..Len(s)
         /\ (DOMAIN s = {} => s = <<>>)
<1>1. s \in [1..Len(s) -> S] /\ Len(s) \in Nat
  OBVIOUS
<1>2. s = [i \in 1..Len(s) |-> s[i]]
  BY <1>1
<1>3. DOMAIN s = 1..Len(s)
  BY <1>1
<1>4. ASSUME DOMAIN s = {} PROVE s = <<>>
  <2>1. Len(s) = 0
    BY <1>1, <1>3, <1>4
  <2> QED
    BY <2>1
<1> QED
  BY <1>1, <1>2, <1>3, <1>4

\* What Append puts where.
LEMMA AppendForm ==
  ASSUME NEW S, NEW p \in Seq(S), NEW z \in S
  PROVE  /\ DOMAIN Append(p, z) = 1..(Len(p) + 1) /\ Append(p, z)[Len(p) + 1] = z
         /\ \A i \in 1..Len(p) : Append(p, z)[i] = p[i]
         /\ Append(p, z) = [i \in 1..(Len(p) + 1) |-> Append(p, z)[i]]
<1>1. Append(p, z) \in Seq(S) /\ Len(Append(p, z)) = Len(p) + 1
  OBVIOUS
<1>2. Append(p, z)[Len(p) + 1] = z /\ \A i \in 1..Len(p) : Append(p, z)[i] = p[i]
  OBVIOUS
<1> QED
  BY <1>1, <1>2, SequenceForm

\* A path the text keeps has no segment that looks like another.
LEMMA PathKept ==
  ASSUME NEW d, IsDocument(d), SurvivesText(d), NEW p \in DOMAIN d
  PROVE  TextPath(p) = p
<1>1. p \in Seq(Segment)
  BY DEF IsDocument
<1>2. ASSUME NEW i \in DOMAIN p, p[i][2] \in Numeric PROVE Index(p[i][2]) = p[i]
  <2>1. p[i] \in Segment
    BY <1>1
  <2>2. p[i][1] # "Key"
    BY <1>2, TextConstants DEF SurvivesText, ValueReadable
  <2> QED
    BY <2>1, <2>2, SegmentKinds
<1>3. p = [i \in DOMAIN p |-> p[i]]
  BY <1>1
<1>4. TextPath(p) = [i \in DOMAIN p |-> p[i]]
  BY <1>2 DEF TextPath
<1> QED
  BY <1>3, <1>4

\* A part of what the text keeps is kept, and can be read.
LEMMA PartKept ==
  ASSUME NEW d, IsDocument(d), SurvivesText(d), NEW p \in DOMAIN d, NEW v, v = ValueAt(d, p)
  PROVE  ValueReadable(v) /\ [q \in DOMAIN v |-> TextNode(v[q])] = v
<1>1. /\ v = [q \in DOMAIN v |-> v[q]] /\ DOMAIN v \subseteq Seq(Segment)
      /\ \A q \in Seq(Segment) : q \in DOMAIN v <=> p \o q \in DOMAIN d
      /\ \A q \in DOMAIN v : v[q] = d[p \o q]
  BY ValueAtParts DEF IsDocument
<1>2. p \in Seq(Segment)
  BY DEF IsDocument
<1>3. ASSUME NEW q \in DOMAIN v
      PROVE  /\ TextNode(v[q]) = v[q]
             /\ \A i \in DOMAIN q : q[i][1] = "Key" => q[i][2] \notin NotWords
             /\ Variant(v[q]) \in Unsigned \/ WholeFloat(v[q]) => Held(v[q]) \in I64
             /\ Variant(v[q]) = "TypedArray" => Held(v[q])[2] # NaN
  <2>1. p \o q \in DOMAIN d /\ v[q] = d[p \o q] /\ q \in Seq(Segment)
    BY <1>1
  <2>2. ASSUME NEW i \in DOMAIN q, q[i][1] = "Key" PROVE q[i][2] \notin NotWords
    <3>1. Len(p) + i \in DOMAIN (p \o q) /\ (p \o q)[Len(p) + i] = q[i]
      BY <1>2, <2>1
    <3> QED
      BY <2>1, <2>2, <3>1 DEF SurvivesText, ValueReadable
  <2> QED
    BY <2>1, <2>2 DEF SurvivesText, ValueReadable
<1>4. ValueReadable(v)
  BY <1>3 DEF ValueReadable
<1> QED
  BY <1>1, <1>3, <1>4

\* An operation from diff can be read, and is read as it was, but for the last key of
\* what it removes.
LEMMA OpKept ==
  ASSUME NEW t \in Targets, SurvivesText(t), NoCounters(t), NEW o \in OpsFor(t)
  PROVE  /\ Readable(o)
         /\ TextPath(o.path) = o.path => Reread(o) = o
         /\ TextPath(o.path) # o.path => o.kind = "Remove"
<1>1. IsDocument(t)
  BY TargetsAreValues DEF IsValue
<1>2. /\ o.value \in Values(t) /\ o.path \in Seq(Segment) /\ o.kind \in DeltaOpKind
      /\ Pushed(t, o.kind, o.path, o.value) /\ o = [f \in DOMAIN o |-> o[f]]
      /\ DOMAIN o = {"kind", "path", "value", "from", "index"}
  BY DEF OpsFor
<1>3. o.kind \notin {"Increment", "Decrement"}
  BY <1>2 DEF Pushed, NoCounters
<1>4. o.value = Missing \/ \E q \in DOMAIN t : o.value = ValueAt(t, q)
  BY <1>2, <1>3 DEF Pushed
<1>5. o.value # Missing => /\ ValueReadable(o.value)
                           /\ [p \in DOMAIN o.value |-> TextNode(o.value[p])] = o.value
  BY <1>1, <1>4, PartKept
<1>6. Readable(o)
  BY <1>3, <1>5 DEF Readable
<1>7. TextPath(o.path) = o.path => Reread(o) = o
  BY <1>2, <1>5 DEF Reread
<1>8. o.kind # "Remove" => TextPath(o.path) = o.path
  BY <1>1, <1>2, PathKept DEF Pushed
<1> QED
  BY <1>6, <1>7, <1>8

\* What is removed under a key that looks like an index is not found.
LEMMA NotRemoved ==
  ASSUME IsDocument(doc), NEW t \in Targets, SurvivesText(t), NEW o \in OpsFor(t),
         o.kind = "Remove", o.path \in DOMAIN doc, TextPath(o.path) # o.path,
         NEW r, r = Reread(o), Apply(r)
  PROVE  Fails("InvalidPath") /\ ~ SurvivesText(doc)
<1> DEFINE p == Front(o.path)
           s == Last(o.path)
<1>1. /\ IsDocument(t) /\ p \in DOMAIN t /\ o.path # Root /\ o.path \in Seq(Segment)
  BY TargetsAreValues DEF IsValue, OpsFor, Pushed
<1>2. p \in Seq(Segment) /\ s \in Segment /\ Append(p, s) = o.path
  <2> DEFINE w == o.path
  <2>1. w \in Seq(Segment) /\ w # <<>>
    BY <1>1 DEF Root
  <2> HIDE DEF w
  <2>2. Front(w) \in Seq(Segment) /\ Last(w) \in Segment /\ Append(Front(w), Last(w)) = w
    BY <2>1, PathSplits
  <2> QED
    BY <2>2 DEF w
<1>3. ~ SurvivesText(doc)
  BY PathKept
<1>4. TextPath(p) = p
  BY <1>1, PathKept
<1>5. s[1] = "Key" /\ s[2] \in Numeric /\ TextPath(o.path) = Append(p, Index(s[2]))
  <2> HIDE DEF p, s
  <2>1. /\ DOMAIN Append(p, s) = 1..(Len(p) + 1) /\ Len(p) \in Nat /\ DOMAIN p = 1..Len(p)
        /\ Append(p, s)[Len(p) + 1] = s
        /\ \A i \in 1..Len(p) : Append(p, s)[i] = p[i]
    BY <1>2
  <2> DEFINE z == IF s[2] \in Numeric THEN Index(s[2]) ELSE s
  <2>2. \A i \in 1..Len(p) : (IF p[i][2] \in Numeric THEN Index(p[i][2]) ELSE p[i]) = p[i]
    <3>1. \A i \in DOMAIN p :
            TextPath(p)[i] = IF p[i][2] \in Numeric THEN Index(p[i][2]) ELSE p[i]
      BY DEF TextPath
    <3> QED
      BY <1>4, <2>1, <3>1
  <2>3. /\ DOMAIN TextPath(o.path) = 1..(Len(p) + 1)
        /\ \A i \in 1..Len(p) : TextPath(o.path)[i] = p[i]
        /\ TextPath(o.path)[Len(p) + 1] = z
        /\ TextPath(o.path) = [i \in 1..(Len(p) + 1) |-> TextPath(o.path)[i]]
    BY <1>2, <2>1, <2>2 DEF TextPath
  <2>4. TextPath(o.path) = Append(p, z)
    <3>1. /\ DOMAIN Append(p, z) = 1..(Len(p) + 1) /\ Append(p, z)[Len(p) + 1] = z
          /\ \A i \in 1..Len(p) : Append(p, z)[i] = p[i]
          /\ Append(p, z) = [i \in 1..(Len(p) + 1) |-> Append(p, z)[i]]
      <4>1. z \in Segment
        BY <1>2, SegmentKinds, TextConstants, DocumentConstants
      <4> HIDE DEF z
      <4> QED
        BY <1>2, <4>1, AppendForm
    <3>2. \A i \in 1..(Len(p) + 1) : i \in 1..Len(p) \/ i = Len(p) + 1
      BY <2>1
    <3> HIDE DEF z
    <3>3. \A i \in 1..(Len(p) + 1) : TextPath(o.path)[i] = Append(p, z)[i]
      BY <2>3, <3>1, <3>2
    <3> QED
      BY <2>3, <3>1, <3>3
  <2>5. z # s
    BY <1>2, <2>4
  <2>6. s[2] \in Numeric /\ s # Index(s[2])
    BY <2>5
  <2> QED
    BY <1>2, <2>4, <2>6, SegmentKinds
<1> DEFINE q == Append(p, Index(s[2]))
<1>6. Index(s[2]) \in Segment /\ Index(s[2])[1] = "Index"
  BY <1>2, <1>5, SegmentKinds, TextConstants, DocumentConstants
<1>7. q # Root /\ Front(q) = p /\ Last(q) = Index(s[2])
  BY <1>2, <1>6, PathDown
<1>8. p \in DOMAIN doc /\ Variant(doc[p]) = "Object"
  <2>1. IsPrefix(p, o.path)
    <3> HIDE DEF p, s
    <3>1. IsPrefix(p, Append(p, s))
      BY <1>2, PathDown
    <3> QED
      BY <1>2, <3>1
  <2>2. p \in DOMAIN doc
    BY <1>2, <2>1, OnTheWay
  <2>3. Append(p, s) \in DOMAIN doc /\ s # Index(s[2])
    BY <1>2, <1>5, <1>6
  <2> HIDE DEF p, s
  <2> QED
    BY <1>2, <2>2, <2>3, WhatIsBelow
<1>9. ~ CanRemove(doc, q)
  BY <1>6, <1>7, <1>8 DEF CanRemove, IsKeyOfObject, IsPlaceInArray
<1>10. r.kind = "Remove" /\ r.path = q
  <2>1. DOMAIN o = {"kind", "path", "value", "from", "index"}
    BY DEF OpsFor
  <2> QED
    BY <1>5, <2>1 DEF Reread
<1>11. RemoveOp(r)
  <2>1. IsOp(r)
    <3>1. IsOp(o) /\ o = [f \in DOMAIN o |-> o[f]]
      BY DiffOps
    <3>2. Readable(o)
      BY DEF Readable, OpsFor, Pushed
    <3> QED
      BY <3>1, <3>2, OpReread
  <2> QED
    BY <1>10, <2>1, ByKind
<1> QED
  BY <1>3, <1>9, <1>10, <1>11 DEF RemoveOp


\* The first operation of what diff says, read back: it is the same, and succeeds, or it
\* is not found.
LEMMA ForwardInText ==
  ASSUME SyncInv, UNCHANGED target, SurvivesText(target), NoCounters(target),
         NEW X, X \subseteq NaNs(target), NEW D, IsDiffs(D, doc, target, X), D[Root] # <<>>,
         NEW r, r = Reread(Head(D[Root])), Apply(r), result = "applying"
  PROVE  \/ Fails("InvalidPath") /\ ~ SurvivesText(doc)
         \/ /\ UNCHANGED result
            /\ \E Y, E : /\ Y \subseteq NaNs(target) /\ IsDiffs(E, doc', target, Y)
                         /\ E[Root] = Tail(D[Root])
<1> DEFINE o == Head(D[Root])
<1>1. D[Root] \in Seq(OpsFor(target)) /\ target \in Targets /\ IsDocument(doc)
  BY LeftTyped, BothRooted DEF SyncInv
<1>2. o \in OpsFor(target)
  BY <1>1
<1> HIDE DEF o
<1>3. /\ TextPath(o.path) = o.path => r = o
      /\ TextPath(o.path) # o.path => o.kind = "Remove"
  BY <1>1, <1>2, OpKept DEF o
<1>4. CASE TextPath(o.path) = o.path
  <2>1. o = Head(D[Root]) /\ Apply(o)
    BY <1>3, <1>4 DEF o
  <2> QED
    BY <2>1, Forward
<1>5. CASE TextPath(o.path) # o.path
  <2>1. o.path \in DOMAIN doc
    <3>1. Asked(doc, target, X, D, Root)
      BY BothRooted DEF Asked
    <3>2. Progress(doc, target, X, Root, o, Tail(D[Root]))
      BY <3>1, ProgressAlways DEF o
    <3>3. PICK e : Does(doc, o, e)
      BY <3>2 DEF Progress
    <3> QED
      BY <1>3, <1>5, <3>3 DEF Does
  <2>2. r = Reread(o)
    BY DEF o
  <2> QED
    BY <1>1, <1>2, <1>3, <1>5, <2>1, <2>2, NotRemoved
<1> QED
  BY <1>4, <1>5

\* The operations of a file that were not the last ones.
LEMMA InTextParts ==
  ASSUME NEW O, NEW s \in Seq(O), InText(s) # <<>>
  PROVE  /\ s # <<>> /\ Head(InText(s)) = Reread(Head(s))
         /\ Tail(InText(s)) = InText(Tail(s))
<1> DEFINE w == InText(s)
           N == {Reread(s[i]) : i \in DOMAIN s}
<1>1. Len(s) \in Nat /\ DOMAIN s = 1..Len(s)
  OBVIOUS
<1>2. w = [i \in 1..Len(s) |-> Reread(s[i])]
  BY <1>1 DEF InText
<1>3. w \in [1..Len(s) -> N]
  BY <1>1, <1>2
<1>4. w \in Seq(N)
  <2> HIDE DEF w, N
  <2> QED
    BY <1>1, <1>3, RowType
<1>5. Len(w) = Len(s)
  <2>1. DOMAIN w = 1..Len(s)
    BY <1>2
  <2> HIDE DEF w
  <2> QED
    BY <1>1, <1>4, <2>1
<1>6. s # <<>> /\ Len(s) > 0
  BY <1>1, <1>2
<1>7. /\ Tail(s) \in Seq(O) /\ Len(Tail(s)) = Len(s) - 1 /\ Head(s) = s[1]
      /\ DOMAIN Tail(s) = 1..(Len(s) - 1) /\ \A i \in 1..(Len(s) - 1) : Tail(s)[i] = s[i + 1]
  BY <1>6
<1>8. /\ Tail(w) = [i \in 1..(Len(s) - 1) |-> w[i + 1]] /\ Head(w) = w[1]
  <2> HIDE DEF w, N
  <2>1. w # <<>>
    BY <1>1, <1>4, <1>5, <1>6
  <2>2. /\ Tail(w) \in Seq(N) /\ Len(Tail(w)) = Len(w) - 1 /\ Head(w) = w[1]
        /\ \A i \in 1..(Len(w) - 1) : Tail(w)[i] = w[i + 1]
    BY <1>4, <2>1
  <2>3. Tail(w) = [i \in 1..Len(Tail(w)) |-> Tail(w)[i]]
    BY <2>2, SequenceForm
  <2> QED
    BY <1>5, <2>2, <2>3
<1>9. Head(w) = Reread(Head(s))
  BY <1>1, <1>2, <1>6, <1>7, <1>8
<1>10. \A i \in 1..(Len(s) - 1) : w[i + 1] = Reread(Tail(s)[i])
  BY <1>1, <1>2, <1>7
<1>11. InText(Tail(s)) = [i \in 1..(Len(s) - 1) |-> Reread(Tail(s)[i])]
  BY <1>7 DEF InText
<1>12. Tail(w) = InText(Tail(s))
  BY <1>8, <1>10, <1>11
<1> QED
  BY <1>6, <1>9, <1>12

\* Nothing of that changes as the delta is read and applied.
LEMMA TextAlways == SyncInv /\ TextInv /\ [PatchNext]_syncVars => TextInv'
<1> SUFFICES ASSUME SyncInv, TextInv, [PatchNext]_syncVars, reread',
                    SurvivesText(target'), NoCounters(target')
             PROVE  TextInv'
  BY DEF TextInv
<1>1. UNCHANGED target /\ SurvivesText(target) /\ NoCounters(target)
  BY DEF PatchNext, LoadDelta, SyncNext, SyncStep, SyncReturn, SyncDone, syncVars
<1>2. CASE LoadDelta
  <2>1. PICK X, D : X \subseteq NaNs(target) /\ IsDiffs(D, doc, target, X) /\ todo = D[Root]
    BY <1>2 DEF LoadDelta, SyncInv, Left
  <2>2. todo \in Seq(OpsFor(target)) /\ target \in Targets
    BY <2>1, LeftTyped DEF SyncInv
  <2>3. \A i \in DOMAIN todo : Readable(todo[i])
    <3> SUFFICES ASSUME NEW i \in DOMAIN todo PROVE Readable(todo[i])
      OBVIOUS
    <3>1. todo[i] \in OpsFor(target)
      BY <2>2
    <3> QED
      BY <1>1, <2>2, <3>1, OpKept
  <2>4. /\ todo' = InText(D[Root]) /\ UNCHANGED <<doc, result>> /\ result = "applying"
    BY <1>2, <2>1, <2>3 DEF LoadDelta, InText, vars
  <2> QED
    BY <1>1, <2>1, <2>4 DEF TextInv
<1>3. CASE UNCHANGED <<doc, target, todo, reread>> /\ result' = result
  BY <1>3 DEF TextInv
<1>4. CASE SyncStep
  <2>1. reread /\ result = "applying" /\ todo # <<>> /\ Apply(Head(todo)) /\ todo' = Tail(todo)
    BY <1>4 DEF SyncStep
  <2>2. PICK X, D : /\ X \subseteq NaNs(target) /\ IsDiffs(D, doc, target, X)
                    /\ todo = InText(D[Root])
    BY <1>1, <2>1 DEF TextInv
  <2>3. D[Root] \in Seq(OpsFor(target))
    BY <2>2, LeftTyped DEF SyncInv
  <2>4. D[Root] # <<>> /\ Head(todo) = Reread(Head(D[Root])) /\ todo' = InText(Tail(D[Root]))
    BY <2>1, <2>2, <2>3, InTextParts
  <2>5. \/ Fails("InvalidPath") /\ ~ SurvivesText(doc)
        \/ /\ UNCHANGED result
           /\ \E Y, E : /\ Y \subseteq NaNs(target) /\ IsDiffs(E, doc', target, Y)
                        /\ E[Root] = Tail(D[Root])
    BY <1>1, <2>1, <2>2, <2>4, ForwardInText
  <2>6. CASE Fails("InvalidPath") /\ ~ SurvivesText(doc)
    <3>1. result' = "InvalidPath" /\ doc' = doc
      BY <2>6 DEF Fails
    <3> QED
      BY <2>6, <3>1 DEF TextInv
  <2>7. CASE /\ UNCHANGED result
             /\ \E Y, E : /\ Y \subseteq NaNs(target) /\ IsDiffs(E, doc', target, Y)
                          /\ E[Root] = Tail(D[Root])
    <3>1. PICK Y, E : /\ Y \subseteq NaNs(target) /\ IsDiffs(E, doc', target, Y)
                      /\ E[Root] = Tail(D[Root])
      BY <2>7
    <3>2. todo' = InText(E[Root])
      BY <2>4, <3>1
    <3> QED
      BY <1>1, <2>1, <2>7, <3>1, <3>2 DEF TextInv
  <2> QED
    BY <2>5, <2>6, <2>7
<1>5. CASE SyncReturn
  <2>1. /\ UNCHANGED <<doc, target, todo, reread>> /\ todo = <<>> /\ result = "applying"
        /\ result' = "ok"
    BY <1>5 DEF SyncReturn, Return
  <2> QED
    BY <1>1, <2>1 DEF TextInv
<1>6. CASE SyncDone \/ UNCHANGED syncVars
  BY <1>3, <1>6 DEF SyncDone, Done, syncVars, vars
<1> QED
  BY <1>2, <1>4, <1>5, <1>6 DEF PatchNext, SyncNext

\* sx diff followed by sx patch: if the text can express the target and there are no
\* counters, the delta that was read makes the target of any base.
THEOREM AlwaysPatched == PatchSpec => []PatchedThroughText
<1>1. SyncInit => TextInv
  BY DEF SyncInit, TextInv
<1>2. SyncInv /\ TextInv => PatchedThroughText
  <2> SUFFICES ASSUME SyncInv, TextInv, reread, SurvivesText(target), NoCounters(target),
                      SurvivesText(doc)
               PROVE  result \in {"applying", "ok"} /\ (result = "ok" => doc = target)
    BY DEF PatchedThroughText
  <2>1. PICK X, D : IsDiffs(D, doc, target, X) /\ todo = InText(D[Root])
    BY DEF TextInv
  <2>2. result \in {"applying", "ok"} /\ (result = "ok" => todo = <<>>)
    BY DEF TextInv
  <2>3. ASSUME todo = <<>> PROVE doc = target
    <3>1. D[Root] \in Seq(OpsFor(target))
      BY <2>1, LeftTyped DEF SyncInv
    <3>2. D[Root] = <<>>
      <4> DEFINE s == D[Root]
                 O == OpsFor(target)
      <4>1. [i \in DOMAIN s |-> Reread(s[i])] = <<>> /\ s \in Seq(O)
        BY <2>1, <2>3, <3>1 DEF InText
      <4> HIDE DEF s, O
      <4>2. DOMAIN [i \in DOMAIN s |-> Reread(s[i])] = DOMAIN s
        OBVIOUS
      <4>3. DOMAIN s = DOMAIN <<>>
        BY <4>1, <4>2
      <4>4. s = <<>>
        <5>1. <<>> \in Seq(O) /\ Len(<<>>) = 0
          OBVIOUS
        <5> QED
          BY <4>1, <4>3, <5>1, SequenceForm
      <4> QED
        BY <4>4 DEF s
    <3>3. Agree(doc, target, Root)
      BY <2>1, <3>2, BothRooted, EmptyAgrees
    <3> QED
      BY <3>3, BothRooted, AgreeIsEqual
  <2> QED
    BY <2>2, <2>3
<1> QED
  BY <1>1, <1>2, TextAlways, AlwaysInSync, PTL DEF PatchSpec
=============================================================================
