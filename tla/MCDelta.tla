------------------------------- MODULE MCDelta -------------------------------
(***************************************************************************)
(* Deltas of up to MaxOps operations on documents that hold counters at    *)
(* the ends of their range, an object within an object and arrays whose    *)
(* elements are objects, with paths into all of them, paths that lead      *)
(* nowhere and operands that are missing or of the wrong variant.          *)
(***************************************************************************)
EXTENDS Delta, TLC

Str(n) == Leaf(<<"String", n>>)
Signed(n) == Leaf(<<"I64", n>>)
Unsigned(n) == Leaf(<<"U64", n>>)

Items == ArrayOf(<<Str(1), ObjectOf(2 :> Str(2)), ObjectOf(1 :> Signed(3))>>)

MCBases == {ObjectOf(1 :> Items @@ 2 :> Signed(Half - 1)),
            ObjectOf(1 :> ObjectOf(1 :> Unsigned(2 * Half - 2)) @@ 2 :> ArrayOf(<<Signed(1)>>))}

MCScalars == {Null} \cup {<<"String", n>> : n \in 0..2}
               \cup {<<"I64", n>> : n \in I64} \cup {<<"U64", n>> : n \in U64}

At1 == <<Key(1)>>
At2 == <<Key(2)>>
First == <<Key(1), Index(0)>>
Second == <<Key(1), Index(1)>>
Beyond == <<Key(1), Index(3)>>
Inner == <<Key(1), Key(1)>>
Deep == <<Key(1), Index(1), Key(1)>>

Paths == {At1, At2, First, Second, Beyond, Inner, Deep}

Operation(kind, path, value, from, index) ==
  [kind |-> kind, path |-> path, value |-> value, from |-> from, index |-> index]

MCOps ==
  {Operation("Set", p, Str(1), Missing, Missing) : p \in Paths \cup {Root}}
  \cup {Operation(k, At1, Missing, Missing, 0) :
          k \in {"Replace", "Append", "Insert", "Increment", "Merge", "Move"}}
  \cup {Operation("Remove", p, Missing, Missing, Missing) : p \in Paths \cup {Root}}
  \cup {Operation(k, p, Signed(2), Missing, i) : k \in {"Append", "Prepend", "Insert"},
          p \in {At1, At2, First}, i \in {1}}
  \cup {Operation("Insert", At1, Str(2), Missing, i) : i \in {Missing, 4}}
  \cup {Operation(k, p, v, Missing, Missing) : k \in {"Increment", "Decrement"},
          p \in {At2, Inner, Deep}, v \in {Signed(2), Signed(-Half), Unsigned(Half)}}
  \cup {Operation("Merge", p, v, Missing, Missing) : p \in {At1, Second, Root},
          v \in {ObjectOf(1 :> Items), Str(1)}}
  \cup {Operation(k, p, Missing, f, Missing) : k \in {"Move", "Copy"},
          p \in Paths, f \in {At2, First, Second, Inner}}
  \cup {Operation("Clear", p, Missing, Missing, Missing) : p \in {At1, At2, First, Beyond}}
=============================================================================
