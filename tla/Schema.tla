------------------------------- MODULE Schema -------------------------------
(***************************************************************************)
(* The schemas of sx-schema: reading one, validating a document, and the   *)
(* plan that leads from one schema to another.                             *)
(*                                                                         *)
(* A type is written as its base and the number of pairs of brackets after *)
(* it: [layers |-> 1, base |-> <<"Name", "u16">>] is u16[].                *)
(***************************************************************************)
EXTENDS TextForm, Functions

CONSTANT NarrowLimit \* the integers below it fit all widths below 64

NoDefault == <<"NoDefault", 0>>

\* The lines of a schema, with the types as they are spelled.
IsField(line) ==
  /\ DOMAIN line = {"id", "name", "type", "optional", "default"}
  /\ line.name \in Keys /\ line.optional \in BOOLEAN
  /\ DOMAIN line.type = {"layers", "base"} /\ line.type.layers \in Nat
  /\ line.type.base[1] \in {"Name", "typed", "enum"}

Primitives == {"null", "bool", "u16", "u32", "u64", "i8", "i16", "i64", "string", "bytes",
               "uuid", "timestamp", "date", "duration", "decimal", "money", "object", "table"}

Elements == {"u8", "i32", "f32", "f64", "bool"}

(***************************************************************************)
(* Reading.                                                                *)
(***************************************************************************)
\* Every name that is none of the primitive types is that of an object, u8,
\* i32, f32 and f64 included.
parse_type(type) ==
  [type EXCEPT !.base =
     IF @[1] = "Name" THEN <<IF @[2] \in Primitives THEN "Primitive" ELSE "Object", @[2]>>
     ELSE @]

\* The default is a value in the text form.
parse_field_line(line) ==
  [line EXCEPT !.type = parse_type(@), !.default = TextNode(@)]

CanParse(lines) ==
  /\ lines # <<>>
  /\ \A i \in DOMAIN lines :
       /\ lines[i].type.base[1] = "typed" => lines[i].type.base[2] \in Elements
       /\ lines[i].default # NoDefault => ValueReadable(Leaf(lines[i].default))

parse_schema(lines) == [i \in DOMAIN lines |-> parse_field_line(lines[i])]

(***************************************************************************)
(* Validating.                                                             *)
(***************************************************************************)
PrimitiveFits(name, node) ==
  CASE name \in {"u16", "u32"} ->
         \/ Variant(node) = IF name = "u16" THEN "U16" ELSE "U32"
         \/ Variant(node) = "U64" /\ Held(node) < NarrowLimit
    [] name \in {"i8", "i16"} ->
         \/ Variant(node) = IF name = "i8" THEN "I8" ELSE "I16"
         \/ Variant(node) = "I64" /\ Held(node) \in (-NarrowLimit)..(NarrowLimit - 1)
    [] OTHER ->
         Variant(node) =
           [null |-> "Null", bool |-> "Bool", u64 |-> "U64", i64 |-> "I64",
            string |-> "String", bytes |-> "Bytes", uuid |-> "Uuid",
            timestamp |-> "Timestamp", date |-> "Date", duration |-> "Duration",
            decimal |-> "Decimal", money |-> "Money", object |-> "Object",
            table |-> "Table"][name]

BaseFits(base, node) ==
  CASE base[1] = "Primitive" -> PrimitiveFits(base[2], node)
    [] base[1] = "Object" -> Variant(node) = "Object"
    [] base[1] = "typed" -> Variant(node) = "TypedArray" /\ Held(node)[1] = base[2]
    [] base[1] = "enum" -> Variant(node) \in {"Enum", "String"} /\ Held(node) \in Range(base[2])

\* Arrays as deep as the type has layers, and what is in the innermost fits.
validate_type(type, value) ==
  \A p \in DOMAIN value :
    /\ Len(p) < type.layers => Variant(value[p]) = "Array"
    /\ Len(p) = type.layers => BaseFits(type.base, value[p])

Needed(field) == ~ field.optional /\ field.default = NoDefault

\* Members that are no fields are let through.
validate(schema, d) ==
  /\ Variant(d[Root]) = "Object"
  /\ \A i \in DOMAIN schema :
       IF schema[i].name \in MemberKeys(d, Root)
       THEN validate_type(schema[i].type, ValueAt(d, <<Key(schema[i].name)>>))
       ELSE ~ Needed(schema[i])

(***************************************************************************)
(* From one schema to another.                                             *)
(***************************************************************************)
Ids(schema) == {schema[i].id : i \in DOMAIN schema}

\* Of the fields with the same id the last counts.
ById(schema, id) == schema[SelectLastInSeq(schema, LAMBDA f : f.id = id)]

\* Mutant: a field that is needed may be added.
AddedAnyway(field) ==
  [kind |-> IF field.default # NoDefault THEN "AddDefaultField" ELSE "AddOptionalField",
   from |-> field, to |-> field]

AddStep(field) ==
  [kind |-> IF field.optional THEN "AddOptionalField"
            ELSE IF field.default # NoDefault THEN "AddDefaultField"
            ELSE "IncompatibleChange",
   from |-> field, to |-> field]

KeepStep(old, new) ==
  [kind |-> IF old.type # new.type THEN "IncompatibleChange"
            ELSE IF old.name = new.name THEN "CopyField" ELSE "RenameField",
   from |-> old, to |-> new]

RemoveStep(field) == [kind |-> "IncompatibleChange", from |-> field, to |-> field]

check_compatibility(old, new) ==
  LET steps ==
        {KeepStep(ById(old, id), ById(new, id)) : id \in Ids(old) \cap Ids(new)}
          \cup {RemoveStep(ById(old, id)) : id \in Ids(old) \ Ids(new)}
          \cup {AddStep(ById(new, id)) : id \in Ids(new) \ Ids(old)}
  IN  [compatible |-> \A s \in steps : s.kind # "IncompatibleChange", steps |-> steps]
=============================================================================
