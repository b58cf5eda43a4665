------------------------------ MODULE TextForm ------------------------------
(***************************************************************************)
(* A document written as text by the formatter of sx-text and read back by *)
(* its parser, node by node.                                               *)
(*                                                                         *)
(* Strings, and the contents of the variants written with a string in      *)
(* quotes, are numbers, those from 100 on strings garbled before.  Floats  *)
(* are numbers, too; a decimal is a pair of scaled and scale, money has    *)
(* its currency before them, and a typed array is a pair of the type of    *)
(* its elements and a number for the elements, NaN if one of them is.      *)
(***************************************************************************)
EXTENDS Documents

CONSTANTS Numeric,   \* the keys spelled with digits alone, each as its number
          NotWords,  \* the keys that are no identifiers, these among them
          Accented,  \* the strings that are not ASCII
          Fractions  \* the floats with a fraction

ASSUME TextConstants ==
  Numeric \subseteq NotWords /\ NotWords \subseteq Keys /\ NaN \notin Fractions \cup {0}

Unsigned == {"U8", "U16", "U32", "U64"}
Signed == {"I8", "I16", "I32", "I64"}
Floats == {"F32", "F64"}
Quoted == {"String", "Enum", "Url", "Email", "Timestamp", "Date", "Duration", "Reference"}

IsAscii(s) == s \notin Accented /\ s < 100

\* The string a garbled one becomes: each of its bytes is read as a character.
Garbled(s) == s + 100

\* The word NaN is read as a string.
NaNWord == 99

\* The f64 that the shortest decimal fraction of an f32 stands for.
Short(n) == n + 50

\* 10 ^ n, as a function defined by recursion.
PowerOfTen[n \in Nat] == IF n = 0 THEN 1 ELSE 10 * PowerOfTen[n - 1]

WholeFloat(node) ==
  Variant(node) \in Floats /\ Held(node) # NaN /\ Held(node) \notin Fractions

\* Mutant: the amount of money is scaled like a decimal.
MoneyScaledToo(node) ==
  IF Variant(node) = "Money"
  THEN <<"Money", [Held(node) EXCEPT ![2] = @ * PowerOfTen[Held(node)[3]]]>> ELSE node

\* A node as it is read back: the text does not keep an integer's width, a
\* whole float has no point, and a string is read byte by byte.  The parser
\* scales a decimal's number, which the formatter has printed scaled already.
TextNode(node) ==
  CASE Variant(node) \in Unsigned \cup Signed \/ WholeFloat(node) -> <<"I64", Held(node)>>
    [] Variant(node) \in Floats /\ Held(node) = NaN -> <<"String", NaNWord>>
    [] Variant(node) = "F32" /\ Held(node) \in Fractions -> <<"F64", Short(Held(node))>>
    [] Variant(node) \in Quoted ->
         <<IF Variant(node) = "Enum" THEN "String" ELSE Variant(node),
           IF IsAscii(Held(node)) THEN Held(node) ELSE Garbled(Held(node))>>
    [] Variant(node) = "Decimal" ->
         <<"Decimal", <<Held(node)[1] * PowerOfTen[Held(node)[2]], Held(node)[2]>>>>
    [] OTHER -> node

\* The parser takes nothing but an identifier for the key the formatter has
\* printed without quotes, no integer beyond an i64, and no NaN in an array of
\* floats.
ValueReadable(d) ==
  /\ \A p \in DOMAIN d : \A i \in DOMAIN p : p[i][1] = "Key" => p[i][2] \notin NotWords
  /\ \A p \in DOMAIN d :
       Variant(d[p]) \in Unsigned \/ WholeFloat(d[p]) => Held(d[p]) \in I64
  /\ \A p \in DOMAIN d : Variant(d[p]) = "TypedArray" => Held(d[p])[2] # NaN
=============================================================================
