----------------------------- MODULE DeltaSync -----------------------------
(***************************************************************************)
(* diff and apply_delta of sx-delta together: the delta that diff computes *)
(* from a base document to a target is applied to the base, operation by   *)
(* operation.                                                              *)
(***************************************************************************)
EXTENDS Delta

CONSTANT Targets \* the target documents

ASSUME TargetsAreValues ==
  /\ \A d \in Targets : IsValue(d) /\ \A p \in DOMAIN d : ValueAt(d, p) # Missing
  /\ \A n \in I64 : Leaf(<<"I64", n>>) # Missing

VARIABLES target, \* the document the delta leads to
          todo,   \* the operations of the delta not applied yet
          reread  \* whether the delta has been through a file

syncVars == <<vars, target, todo, reread>>

Op(kind, path, value) ==
  [kind |-> kind, path |-> path, value |-> value, from |-> Missing, index |-> Missing]

\* One after the other, in the order of the numbers they are for.  Members of an
\* object are visited in the order of their keys, elements in theirs.
Each(ops) ==
  LET beyond == IF DOMAIN ops = {} THEN 0 ELSE Max(DOMAIN ops) + 1
  IN  FlattenSeq([n \in 1..beyond |-> IF n - 1 \in DOMAIN ops THEN ops[n - 1] ELSE <<>>])

\* Mutant: the elements are removed in the order of their positions.
ElementsRemovedUpwards(p, from, to) ==
  [n \in 1..(from - to) |-> Op("Remove", Append(p, Index(to + n - 1)), Missing)]

ElementsRemoved(p, from, to) ==
  [n \in 1..(from - to) |-> Op("Remove", Append(p, Index(from - n)), Missing)]

\* Mutants: a scalar is always replaced; scalars of one variant are equal.
AlwaysDiffers(u, v) == TRUE
OtherVariant(u, v) == Variant(u) # Variant(v)

\* Not equal for Rust's ==.
Differs(u, v) == u # v \/ Held(u) = NaN

CounterOp(p, x, y) ==
  IF y > x THEN Op("Increment", p, Leaf(<<"I64", WrapI64(y - x)>>))
           ELSE Op("Decrement", p, Leaf(<<"I64", WrapI64(x - y)>>))

\* What diff_at pushes for the members and the elements of containers at p, when
\* DiffAt is what it pushes further down.
MembersRemoved(b, t, p) ==
  [k \in MemberKeys(b, p) \ MemberKeys(t, p) |-> <<Op("Remove", Append(p, Key(k)), Missing)>>]

MembersVisited(b, t, p, DiffAt) ==
  [k \in MemberKeys(t, p) |->
     LET q == Append(p, Key(k))
     IN  IF q \in DOMAIN b THEN DiffAt[q] ELSE <<Op("Set", q, ValueAt(t, q))>>]

ElementsVisited(p, from, to, DiffAt) ==
  [i \in {i \in 0..(from - 1) : i < to} |-> DiffAt[Append(p, Index(i))]]

ElementsAppended(t, p, from, to) ==
  [n \in 1..(to - from) |-> Op("Append", p, ValueAt(t, Append(p, Index(from + n - 1))))]

\* What it pushes at p.
DiffNode(b, t, p, DiffAt) ==
  LET Both(variant) == Variant(b[p]) = variant /\ Variant(t[p]) = variant
      m == Held(b[p])
      n == Held(t[p])
  IN  CASE Both("Object") -> Each(MembersRemoved(b, t, p))
                               \o Each(MembersVisited(b, t, p, DiffAt))
        [] Both("Array") -> Each(ElementsVisited(p, m, n, DiffAt))
                              \o ElementsAppended(t, p, m, n) \o ElementsRemoved(p, m, n)
        [] Both("I64") /\ m # n -> <<CounterOp(p, m, n)>>
        [] OTHER -> IF Differs(b[p], t[p]) THEN <<Op("Replace", p, ValueAt(t, p))>> ELSE <<>>

Diffs(b, t) ==
  LET DiffAt[p \in DOMAIN b \cap DOMAIN t] == DiffNode(b, t, p, DiffAt) IN DiffAt

Diff(b, t) == Diffs(b, t)[Root]

SyncInit == /\ Init
            /\ target \in Targets
            /\ todo = Diff(doc, target)
            /\ reread = FALSE

SyncStep == /\ result = "applying" /\ todo # <<>>
            /\ Apply(Head(todo))
            /\ last' = Head(todo)
            /\ todo' = Tail(todo)
            /\ UNCHANGED <<target, reread>>

SyncReturn == /\ todo = <<>>
              /\ Return
              /\ UNCHANGED <<target, todo, reread>>

SyncDone == Done /\ UNCHANGED <<target, todo, reread>>

SyncNext == SyncStep \/ SyncReturn \/ SyncDone

SyncSpec == SyncInit /\ [][SyncNext]_syncVars
-----------------------------------------------------------------------------
HoldsNaN(d) == \E p \in DOMAIN d : Held(d[p]) = NaN

\* The delta from diff leads from the base to the target, exactly, and none of
\* its operations is refused: whatever the two documents are, an operation
\* never disturbs a path a later one uses.
Converges == ~ reread => /\ result \in {"applying", "ok"}
                         /\ result = "ok" => doc = target

\* Wherever the application of a delta stops, a fresh diff against the same
\* target asks for just the operations that are left: nothing is done twice
\* and nothing is forgotten by a caller that starts over from there.
Resumable ==
  result = "applying" /\ ~ reread /\ ~ HoldsNaN(target) => Diff(doc, target) = todo

\* An empty delta means equal documents.
EmptyMeansEqual == Diff(doc, target) = <<>> => doc = target

\* Two documents have the same node at q, or neither has one.
SameAt(d, e, q) == /\ q \in DOMAIN d <=> q \in DOMAIN e
                   /\ q \in DOMAIN e => d[q] = e[q]

\* No operation of the delta is a detour: each one changes the document, but
\* nowhere where the document is like the target already, and it leaves nothing
\* at a path that neither of them has.  (A NaN that is there already is set
\* again; that changes nothing.)
NeverAstray ==
  [][~ reread' =>
       /\ \A q \in DOMAIN doc \cup DOMAIN doc' \cup DOMAIN target :
            SameAt(doc, target, q) => SameAt(doc', target, q)
       /\ todo' # todo /\ ~ HoldsNaN(target) => doc' # doc]_syncVars
=============================================================================
