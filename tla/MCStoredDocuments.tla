-------------------------- MODULE MCStoredDocuments --------------------------
(***************************************************************************)
(* Documents with every kind of node alone and in pairs, objects that look *)
(* tagged, members under a key of digits, and records with schemas whose   *)
(* fields are renamed, added with and without a default, dropped, made     *)
(* optional and needed, and given other types.                             *)
(***************************************************************************)
EXTENDS StoredDocuments, TLC

Plain == {Null, <<"Bool", 1>>, <<"I64", 1>>, <<"I64", -1>>, <<"U64", 1>>, <<"U64", Half>>,
          <<"F64", 1>>, <<"F64", 5>>, <<"F64", NaN>>, <<"String", 1>>, <<"String", 2>>}

Narrow == {<<"U8", 1>>, <<"I8", -1>>, <<"F32", 1>>, <<"F32", 5>>,
           <<"Enum", 1>>, <<"Url", 1>>, <<"Email", 1>>, <<"Email", 11>>}

\* 2 and 4 are as good as zero, above and below it; 3 is next to 5.
Close == {<<"F64", 0>>, <<"F64", 2>>, <<"F64", 3>>, <<"F64", 4>>, <<"F64", 5>>}

MinusZero == 40

MCRounded == 2 :> 0 @@ 3 :> 5 @@ 4 :> MinusZero @@ 5 :> 5 @@ 55 :> 55

Special == {<<"Timestamp", 1>>, <<"Timestamp", 11>>, <<"Timestamp", 2>>, <<"Date", 1>>,
            <<"Duration", 1>>, <<"Reference", 1>>, <<"Bytes", 1>>, <<"Uuid", 1>>,
            <<"TypedArray", <<"u8", 1>>>>, <<"TypedArray", <<"f64", NaN>>>>}

Numbers == {<<"Decimal", <<100, 2>>>>, <<"Decimal", <<1, 0>>>>, <<"Decimal", <<0, 1>>>>,
            <<"Decimal", <<0, 0>>>>, <<"Money", <<1, 100, 2>>>>, <<"Money", <<1, 1, 0>>>>,
            <<"Money", <<2, 1, 0>>>>}

Leaves == {Leaf(n) : n \in Plain \cup Narrow \cup Close \cup Special \cup Numbers}

Some == {Leaf(n) : n \in {<<"I64", 1>>, <<"U64", 1>>, <<"U64", Half>>, <<"F32", 5>>,
                          <<"F64", 1>>, <<"String", 1>>, <<"Date", 1>>, <<"Uuid", 1>>}}

Lookalikes ==
  {ObjectOf(TypeKey :> Leaf(tag) @@ ValueKey :> content) :
     tag \in {<<"String", TagWord("Date")>>, <<"String", TagWord("Uuid")>>, <<"I64", 1>>},
     content \in {Leaf(<<"String", 1>>), Leaf(<<"Uuid", 1>>), Leaf(<<"Date", 1>>),
                  ObjectOf(1 :> Leaf(Null))}}

Nodewise ==
  Leaves
    \cup {ObjectOf(k :> v) : k \in {1, 7}, v \in Some}
    \cup {ObjectOf(1 :> v @@ 4 :> w) : v \in Some, w \in Some}
    \cup {ArrayOf(<<Leaf(a), Leaf(b)>>) : a \in Numbers, b \in Numbers}
    \cup {ArrayOf(<<Leaf(a), Leaf(b)>>) : a \in Close, b \in Close}
    \cup {ArrayOf(<<ObjectOf(1 :> Leaf(a)), Leaf(b)>>) : a \in Narrow, b \in Special}
    \cup Lookalikes \cup {ArrayOf(<<d, d>>) : d \in Lookalikes}

\* The types of fields, and values that have them or nearly.
Type(layers, base) == [layers |-> layers, base |-> base]

Types == {Type(0, <<"Name", "u16">>), Type(0, <<"Name", "i8">>), Type(0, <<"Name", "u8">>),
          Type(0, <<"Name", "string">>), Type(1, <<"Name", "string">>),
          Type(0, <<"enum", <<1, 2>>>>), Type(2, <<"typed", "u8">>), Type(0, <<"typed", "u16">>)}

Values == {Leaf(<<"U16", 1>>), Leaf(<<"U64", 1>>), Leaf(<<"U64", Half>>), Leaf(<<"I8", -1>>),
           Leaf(<<"Enum", 1>>), Leaf(<<"Enum", 2>>), Leaf(<<"String", 1>>), ObjectOf(<<>>),
           ArrayOf(<<Leaf(<<"String", 1>>), Leaf(<<"String", 3>>)>>),
           ArrayOf(<<ArrayOf(<<Leaf(<<"TypedArray", <<"u8", 1>>>>)>>), ArrayOf(<<>>)>>)}

Records == {ObjectOf(1 :> v) : v \in Values}
             \cup {ObjectOf(1 :> v @@ 4 :> Leaf(<<"I64", 1>>)) : v \in Values}

Field(id, name, type, optional, default) ==
  [id |-> id, name |-> name, type |-> type, optional |-> optional, default |-> default]

\* One field, and a second one that is there in all the ways a field can be.
MCSchemas ==
  {<<Field(1, name, type, FALSE, NoDefault)>> : name \in {1, 5}, type \in Types}
    \cup {<<Field(1, 1, type, FALSE, NoDefault), Field(2, 4, second, optional, default)>> :
            type \in Types, second \in {Type(0, <<"Name", "i64">>), Type(0, <<"Name", "u64">>)},
            optional \in BOOLEAN, default \in {NoDefault, <<"I64", 1>>}}

MCOriginals == Nodewise \cup Records
=============================================================================
