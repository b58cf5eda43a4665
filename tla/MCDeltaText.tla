----------------------------- MODULE MCDeltaText -----------------------------
(***************************************************************************)
(* All pairs of documents of a small grammar: scalars of every kind diff   *)
(* treats apart, with counters at both ends of their range; the values the *)
(* text does and does not keep, an unsigned integer that fits an i64 and   *)
(* one that does not, floats, an accented string, and members under a key  *)
(* of digits; objects and arrays of them, and one more level of nesting.   *)
(***************************************************************************)
EXTENDS DeltaText, TLC

MCScalars == {Null, <<"I64", -Half>>, <<"I64", 0>>, <<"I64", 1>>, <<"I64", Half - 1>>,
              <<"U64", 1>>, <<"U64", Half>>, <<"F64", 1>>, <<"F64", NaN>>,
              <<"String", 1>>, <<"String", 2>>}

Leaves == {Leaf(s) : s \in MCScalars}

Few == {Leaf(<<"I64", -Half>>), Leaf(<<"I64", Half - 1>>), Leaf(<<"F64", NaN>>),
        Leaf(<<"String", 1>>), Leaf(<<"U64", 1>>)}

ObjectsOf(S) == {ObjectOf(m) : m \in UNION {[ks -> S] : ks \in SUBSET Keys}}

ArraysOf(S, n) == {ArrayOf(a) : a \in UNION {[1..k -> S] : k \in 0..n}}

Nested == {ArrayOf(<<>>), ArrayOf(<<Leaf(<<"I64", 0>>), Leaf(<<"I64", 1>>)>>),
           ObjectOf(1 :> Leaf(<<"I64", 0>>)), Leaf(<<"String", 1>>)}

Inner == {Leaf(<<"String", 1>>), Leaf(Null), ObjectOf(1 :> Leaf(<<"String", 2>>)),
          ObjectOf(1 :> Leaf(<<"String", 1>>))}

MCDocuments == Leaves \cup ObjectsOf(Few) \cup ArraysOf(Few, 2)
                 \cup ObjectsOf(Nested) \cup ArraysOf(Nested, 3)
                 \cup ObjectsOf(Inner) \cup ArraysOf(Inner, 3)

\* Objects whose members are counters.
CounterDocuments == ObjectsOf({Leaf(<<"I64", 0>>), Leaf(<<"I64", 1>>)})
=============================================================================
