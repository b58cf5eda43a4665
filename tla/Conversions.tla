---------------------------- MODULE Conversions ----------------------------
(***************************************************************************)
(* The forms of a document: text, binary values (write_value and           *)
(* read_value of sx-binary) and JSON (sx_to_json and json_to_sx of         *)
(* sx-core), and the ways to read them.  JSON is read by json_to_sx, or,   *)
(* as the command line does it, by the parser of the text form.            *)
(*                                                                         *)
(* A JSON document is a document, too, with integers, floats and strings   *)
(* for leaves.  What the bridge puts beside a tag is a string, or data     *)
(* that stand for the node they were made of.                              *)
(***************************************************************************)
EXTENDS TextForm

CONSTANTS TypeKey, ValueKey \* $type and $value

ASSUME ConversionConstants ==
  /\ TypeKey # ValueKey /\ {TypeKey, ValueKey} \subseteq NotWords
  /\ Accented \cap (61..69 \cup {NaNWord}) = {} \* the tags are ASCII, and so is "NaN"

Readers == {"text", "binary", "json", "json_text"}

FormOf(reader) == IF reader = "json_text" THEN "json" ELSE reader

Plainly == {"String", "Enum", "Url", "Email"}
TaggedString == {"Timestamp", "Date", "Duration", "Reference"}
TaggedData == {"Bytes", "Uuid", "Decimal", "Money", "TypedArray"}
Tagged == TaggedString \cup TaggedData

\* The variants of SxValue whose nodes every form has something for.
SxVariants ==
  {"Null", "Bool", "Array", "Object"}
    \cup Unsigned \cup Signed \cup Floats \cup Plainly \cup Tagged

\* The string that is the tag of a variant.
TagWord(variant) ==
  60 + CHOOSE i \in 1..9 :
         << "Timestamp", "Date", "Duration", "Reference",
            "Bytes", "Uuid", "Decimal", "Money", "TypedArray" >>[i] = variant

IsTagWord(s) == s \in 61..69
VariantOf(tag) == CHOOSE v \in Tagged : TagWord(v) = tag

Blank == 98

(***************************************************************************)
(* Binary values.                                                          *)
(***************************************************************************)
\* Mutant: the byte that tells money from decimals is not looked at.
MoneyAsDecimal(node) ==
  CASE Variant(node) = "Money" -> <<"Decimal", Tail(Held(node))>>
    [] Variant(node) \in Unsigned -> <<"U64", Held(node)>>
    [] Variant(node) \in Signed -> <<"I64", Held(node)>>
    [] Variant(node) \in Floats -> <<"F64", Held(node)>>
    [] Variant(node) \in Plainly -> <<"String", Held(node)>>
    [] OTHER -> node

BinaryNode(node) ==
  CASE Variant(node) \in Unsigned -> <<"U64", Held(node)>>
    [] Variant(node) \in Signed -> <<"I64", Held(node)>>
    [] Variant(node) \in Floats -> <<"F64", Held(node)>>
    [] Variant(node) \in Plainly -> <<"String", Held(node)>>
    [] OTHER -> node

(***************************************************************************)
(* JSON.                                                                   *)
(***************************************************************************)
JsonNode(node) ==
  CASE Variant(node) \in Unsigned \cup Signed -> <<"Integer", Held(node)>>
    [] Variant(node) \in Floats ->
         IF Held(node) = NaN THEN Null ELSE <<"Float", Held(node)>>
    [] Variant(node) \in Plainly -> <<"String", Held(node)>>
    [] Variant(node) \in Tagged -> Object
    [] OTHER -> node

Content(node) ==
  IF Variant(node) \in TaggedString THEN <<"String", Held(node)>> ELSE <<"Data", node>>

ToJson(d) ==
  LET members == {Append(p, Key(k)) : p \in {q \in DOMAIN d : Variant(d[q]) \in Tagged},
                                      k \in {TypeKey, ValueKey}}
  IN  [p \in DOMAIN d \cup members |->
         IF p \in DOMAIN d THEN JsonNode(d[p])
         ELSE IF Last(p) = Key(TypeKey) THEN <<"String", TagWord(Variant(d[Front(p)]))>>
         ELSE Content(d[Front(p)])]

\* Mutant: every number is read as a float.
NumberAsFloat(n) == <<"F64", n>>

NumberRead(n) == <<IF n \in I64 THEN "I64" ELSE "U64", n>>

\* The objects that json_to_sx takes for tagged, whoever made them.
TaggedObjects(j) ==
  {p \in DOMAIN j :
     /\ {Append(p, Key(TypeKey)), Append(p, Key(ValueKey))} \subseteq DOMAIN j
     /\ Variant(j[Append(p, Key(TypeKey))]) = "String"}

\* Those that are not inside the value of another.
Outermost(paths) == {p \in paths : \A q \in paths : ~ IsStrictPrefix(q, p)}

TagAt(j, p) == Held(j[Append(p, Key(TypeKey))])
ContentAt(j, p) == j[Append(p, Key(ValueKey))]

\* A tag of a string takes any value, for a blank one if it is no string.
TagReadable(j, p) ==
  /\ IsTagWord(TagAt(j, p))
  /\ VariantOf(TagAt(j, p)) \in TaggedData =>
       /\ Variant(ContentAt(j, p)) = "Data"
       /\ Variant(Held(ContentAt(j, p))) = VariantOf(TagAt(j, p))

\* What is not a number in a typed array has become null, and is read as 0.
Untagged(variant, content) ==
  IF variant \in TaggedString
  THEN <<variant, IF Variant(content) = "String" THEN Held(content) ELSE Blank>>
  ELSE IF variant = "TypedArray" /\ Held(Held(content))[2] = NaN
  THEN <<variant, <<Held(Held(content))[1], 0>>>>
  ELSE Held(content)

FromJson(j) ==
  LET tagged == Outermost(TaggedObjects(j))
  IN  [p \in {q \in DOMAIN j : \A t \in tagged : ~ IsStrictPrefix(t, q)} |->
         CASE p \in tagged -> Untagged(VariantOf(TagAt(j, p)), ContentAt(j, p))
           [] Variant(j[p]) = "Integer" -> NumberRead(Held(j[p]))
           [] Variant(j[p]) = "Float" -> <<"F64", Held(j[p])>>
           [] OTHER -> j[p]]

\* The parser of the text form knows no tags; it reads keys in quotes (they are
\* taken to be ASCII, others it would garble like strings), and floats with the
\* point that JSON gives them.
JsonTextNode(node) ==
  CASE Variant(node) = "Integer" -> <<"I64", Held(node)>>
    [] Variant(node) = "Float" -> <<"F64", Held(node)>>
    [] Variant(node) = "String" -> TextNode(node)
    [] OTHER -> node

(***************************************************************************)
(* What a reader makes of a document stored in the form it reads.          *)
(***************************************************************************)
NodeWise(Translate(_), d) == [p \in DOMAIN d |-> Translate(d[p])]

CanRead(reader, d) ==
  CASE reader = "text" -> ValueReadable(d)
    [] reader = "binary" -> TRUE
    [] reader = "json" ->
         \A p \in Outermost(TaggedObjects(ToJson(d))) : TagReadable(ToJson(d), p)
    [] reader = "json_text" ->
         \A p \in DOMAIN d : Variant(d[p]) \in Unsigned => Held(d[p]) \in I64

Reading(reader, d) ==
  CASE reader = "text" -> NodeWise(TextNode, d)
    [] reader = "binary" -> NodeWise(BinaryNode, d)
    [] reader = "json" -> FromJson(ToJson(d))
    [] reader = "json_text" -> NodeWise(JsonTextNode, ToJson(d))
=============================================================================
