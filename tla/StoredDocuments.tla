--------------------------- MODULE StoredDocuments ---------------------------
(***************************************************************************)
(* A document that is kept in a file and goes from form to form: sx        *)
(* convert reads the file and writes it anew, other programs read JSON     *)
(* with json_to_sx, and a program that keeps its documents to a schema     *)
(* carries the document over when the schema changes.                      *)
(*                                                                         *)
(* The arrays of objects and the tables that the binary form lays out by   *)
(* columns are in module BinaryStore, not here.                            *)
(***************************************************************************)
EXTENDS Canonical, Schema

CONSTANTS Originals, \* the documents
          Schemas,   \* schemas as they are written: sequences of lines
          MaxTrips   \* how often the file is written anew

\* The nodes SxValue can hold, in the forms this module has for their contents:
\* integers are of their width, and the shortest decimal of an f32 with a fraction
\* has a fraction, too.
IsSxNode(node) ==
  /\ IsNode(node) /\ Variant(node) \in SxVariants
  /\ Variant(node) \in {"U8", "U16", "U32"} => Held(node) < NarrowLimit
  /\ Variant(node) \in {"I8", "I16", "I32"} => Held(node) \in (-NarrowLimit)..(NarrowLimit - 1)
  /\ Variant(node) = "Decimal" => Held(node) \in Int \X Nat
  /\ Variant(node) = "Money" => Held(node) \in Int \X Int \X Nat
  /\ Variant(node) = "F32" /\ Held(node) \in Fractions => Short(Held(node)) \in Fractions

ASSUME StoredConstants ==
  /\ \A d \in Originals : IsDocument(d) /\ \A p \in DOMAIN d : IsSxNode(d[p])
  /\ \A lines \in Schemas :
       /\ Len(lines) \in Nat /\ DOMAIN lines = 1..Len(lines)
       /\ \A i \in DOMAIN lines :
            /\ IsField(lines[i])
            /\ lines[i].default # NoDefault =>
                 IsSxNode(lines[i].default) /\ IsDocument(Leaf(lines[i].default))
  /\ MaxTrips \in Nat

Forms == {"text", "binary", "json"}

NoSchema == <<>>

VARIABLES original, \* the document as it was made
          file,     \* the form of the file, and the document written into it
          schema,   \* the schema the document is kept to
          ways,     \* how the file has been read so far
          trips,
          outcome   \* "ok", or "failed" when the file could not be read

vars == <<original, file, schema, ways, trips, outcome>>

Kept == {NoSchema} \cup {parse_schema(lines) : lines \in {l \in Schemas : CanParse(l)}}

Init ==
  /\ original \in Originals
  /\ \E form \in Forms : file = [form |-> form, doc |-> original]
  /\ schema \in {s \in Kept : s # NoSchema => validate(s, original)}
  /\ ways = {} /\ trips = 0 /\ outcome = "ok"

\* The file is read, and what was read is written in the form to.
Trip(reader, to) ==
  /\ outcome = "ok" /\ trips < MaxTrips
  /\ trips' = trips + 1
  /\ ways' = ways \cup {reader}
  /\ \/ /\ CanRead(reader, file.doc)
        /\ file' = [form |-> to, doc |-> Reading(reader, file.doc)]
        /\ UNCHANGED outcome
     \/ /\ ~ CanRead(reader, file.doc)
        /\ outcome' = "failed"
        /\ UNCHANGED file
  /\ UNCHANGED <<original, schema>>

\* load_value tells apart binary files and others only.
load_value(form) == IF form = "json" THEN "json_text" ELSE form

Convert == \E to \in Forms : Trip(load_value(file.form), to)

Import == file.form = "json" /\ \E to \in Forms : Trip("json", to)

\* The document that the steps of a plan make of d.
Migrated(d, steps) ==
  LET copied == {s \in steps : /\ s.kind \in {"CopyField", "RenameField"}
                               /\ s.from.name \in MemberKeys(d, Root)}
      added == {s \in steps : s.kind = "AddDefaultField"}
      StepTo(name) == CHOOSE s \in copied \cup added : s.to.name = name
  IN  ObjectOf([name \in {s.to.name : s \in copied \cup added} |->
         IF StepTo(name) \in copied THEN ValueAt(d, <<Key(StepTo(name).from.name)>>)
         ELSE Leaf(StepTo(name).to.default)])

Upgrade ==
  /\ outcome = "ok" /\ trips < MaxTrips /\ schema # NoSchema
  /\ CanRead(file.form, file.doc)
  /\ \E new \in Kept \ {NoSchema, schema} :
       LET report == check_compatibility(schema, new)
           value == Reading(file.form, file.doc)
       IN  /\ report.compatible /\ Variant(value[Root]) = "Object"
           /\ file' = [file EXCEPT !.doc = Migrated(value, report.steps)]
           /\ schema' = new
  /\ ways' = ways \cup {file.form} /\ trips' = trips + 1
  /\ UNCHANGED <<original, outcome>>

Next == Convert \/ Import \/ Upgrade

Spec == Init /\ [][Next]_vars
-----------------------------------------------------------------------------
Nodes(d) == {d[p] : p \in DOMAIN d}

\* The nodes that every form has, and has under one name only.
Portable(node) ==
  CASE Variant(node) = "F64" -> Held(node) \in Fractions
    [] Variant(node) \in {"String"} \cup TaggedString -> IsAscii(Held(node))
    [] Variant(node) = "TypedArray" -> Held(node)[2] # NaN
    [] Variant(node) = "Decimal" -> Held(node)[2] = 0
    [] OTHER -> Variant(node) \in {"Null", "Bool", "I64", "Array", "Object", "Bytes",
                                   "Uuid", "Money"}

NoneTagged(d) == \A node \in Nodes(d) : Variant(node) \notin Tagged

\* A document of portable nodes under keys that are words is the same after any
\* chain of conversions; when sx has read JSON, which it reads as text, one
\* without tagged nodes is (format_canonical and parse_sx_text, write_value and
\* read_value, sx_to_json and json_to_sx).
PortableUnchanged ==
  /\ schema = NoSchema
  /\ \A node \in Nodes(original) : Portable(node)
  /\ \A p \in DOMAIN original : \A i \in DOMAIN p : p[i][2] \notin NotWords
  /\ "json_text" \in ways => NoneTagged(original)
  => outcome = "ok" /\ file.doc = original

AllAscii(d) ==
  \A node \in Nodes(d) : Variant(node) \in Quoted => IsAscii(Held(node))

\* No object looks as if it were tagged.
NoLookalikes(d) == \A p \in TaggedObjects(ToJson(d)) : Variant(d[p]) \in Tagged

Finite(d) == \A node \in Nodes(d) : Variant(node) = "TypedArray" => Held(node)[2] # NaN

\* Whatever binary and JSON files a document has been through, its JSON says the
\* same, even where the document has lost widths, variants and tags: it was not
\* taken for tagged at the start, and there is nothing in it that JSON or the
\* lexer garbles (sx_to_json, json_to_sx, write_value).
JsonViewKept ==
  /\ schema = NoSchema /\ "text" \notin ways
  /\ NoLookalikes(original) /\ Finite(original)
  /\ "json_text" \in ways => AllAscii(original)
  => ToJson(file.doc) = ToJson(original)

NoScale(d) == \A node \in Nodes(d) : Variant(node) = "Decimal" => Held(node)[2] = 0

\* Wherever a document has been, reading it twice in one form gives what reading
\* it once gives, and can be done if it could be done once.  The text form makes
\* exceptions of decimals with a scale and of strings that are not ASCII: every
\* trip changes them again (parse_scaled_decimal, lex_string).
Settles ==
  \A reader \in Readers :
    /\ CanRead(reader, file.doc)
    /\ reader \in {"text", "json_text"} => AllAscii(file.doc)
    /\ reader = "text" => NoScale(file.doc)
    => LET once == Reading(reader, file.doc)
       IN  CanRead(reader, once) /\ Reading(reader, once) = once

\* The logical hash of a document is that of the binary file it is kept in,
\* which has no room for the widths of its numbers, provided that it has no
\* enums, URLs and e-mail addresses, which become strings (logical_hash,
\* write_value).
HashSurvivesBinary ==
  /\ schema = NoSchema /\ ways \subseteq {"binary"}
  /\ \A node \in Nodes(original) : Variant(node) \notin Plainly \ {"String"}
  => canonicalize(file.doc) = canonicalize(original)

\* Whether two nodes mean the same, by what they stand for.
SameNumber(s, m, t, n) ==
  IF m <= n THEN s * PowerOfTen[n - m] = t ELSE s = t * PowerOfTen[m - n]

SameMeaning(a, b) ==
  LET Both(kind) == Variant(a) \in kind /\ Variant(b) \in kind
  IN  IF Both({"Decimal"})
      THEN SameNumber(Held(a)[1], Held(a)[2], Held(b)[1], Held(b)[2])
      ELSE IF Both({"Money"})
      THEN /\ Held(a)[1] = Held(b)[1]
           /\ SameNumber(Held(a)[2], Held(a)[3], Held(b)[2], Held(b)[3])
      ELSE IF Both(Unsigned) \/ Both(Signed) THEN Held(a) = Held(b)
      ELSE IF Both(Floats) THEN normalize_float(Held(a)) = normalize_float(Held(b))
      ELSE IF Both({"Timestamp"}) \/ Both({"Email"}) THEN Folded(Held(a)) = Folded(Held(b))
      ELSE a = b

\* Two values have the same logical hash exactly if they mean the same: the same
\* number, however many zeros it is written with, the same amount of the same
\* money, the same instant, in whatever form they have come and been stored.  A
\* float is a number to 15 decimals only, so that two different ones may mean the
\* same; a number is no amount of money and a signed one no unsigned one
\* (canonicalize, normalize_float, normalize_decimal).
SameHashSameMeaning ==
  \A a, b \in Nodes(file.doc) \cup Nodes(original) :
    logically_equal(Leaf(a), Leaf(b)) <=>
      /\ canonicalize(Leaf(a)) # Leaf(NoForm) /\ canonicalize(Leaf(b)) # Leaf(NoForm)
      /\ SameMeaning(a, b)

\* An upgrade that asks no more of the fields there are than the old schema did,
\* and adds defaults that fit their types.  The plan sees to neither.
Sound(old, new) ==
  /\ \A i, j \in DOMAIN new : i # j => new[i].id # new[j].id /\ new[i].name # new[j].name
  /\ \A i \in DOMAIN old, j \in DOMAIN new :
       old[i].id = new[j].id => (Needed(new[j]) => Needed(old[i]))
  /\ \A j \in DOMAIN new :
       new[j].default # NoDefault => validate_type(new[j].type, Leaf(new[j].default))

\* A document that is valid under its schema is so when it has been through a
\* binary file, through text or untagged JSON if it has no unsigned integers and
\* no strings that are not ASCII, and through every upgrade the plan calls
\* compatible, if the new schema is sound (validate, check_compatibility).
StaysValid ==
  [][/\ schema # NoSchema /\ validate(schema, file.doc) /\ outcome' = "ok"
     /\ file.form # "binary" =>
          AllAscii(file.doc) /\ \A node \in Nodes(file.doc) : Variant(node) \notin Unsigned
     /\ file.form = "json" => TaggedObjects(ToJson(file.doc)) = {}
     /\ schema' # schema => Sound(schema, schema')
     => validate(schema', file'.doc)]_vars
=============================================================================
