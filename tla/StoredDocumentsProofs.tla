----------------------- MODULE StoredDocumentsProofs -----------------------
(***************************************************************************)
(* Proofs of what a document keeps on its way from form to form: for any   *)
(* documents, any keys and strings, and any number of trips.               *)
(***************************************************************************)
EXTENDS StoredDocuments, DocumentsProofs
-----------------------------------------------------------------------------
(***************************************************************************)
(* Powers of ten, and division by them.                                    *)
(***************************************************************************)
\* f gives the powers of ten as far as n.
PowersTo(f, n) ==
  /\ f \in [0..n -> Nat \ {0}]
  /\ f[0] = 1 /\ \A i \in 1..n : f[i] = 10 * f[i - 1]

\* There are such functions.
LEMMA PowersExist ==
  ASSUME NEW n \in Nat
  PROVE  \E f : PowersTo(f, n)
<1> DEFINE T == {m \in Nat : ~ \E f : PowersTo(f, m)}
<1> SUFFICES ASSUME T # {} PROVE FALSE
  OBVIOUS
<1>1. PICK m \in T : \A k \in T : m <= k
  BY LeastNumber
<1>2. m # 0
  <2>1. PowersTo([i \in 0..0 |-> 1], 0)
    BY DEF PowersTo
  <2> QED
    BY <2>1
<1>3. m - 1 \in Nat /\ m - 1 \notin T
  BY <1>1, <1>2
<1>4. PICK f : PowersTo(f, m - 1)
  BY <1>3
<1> DEFINE g == [i \in 0..m |-> IF i = m THEN 10 * f[m - 1] ELSE f[i]]
<1>5. PowersTo(g, m)
  <2>1. \A i \in 0..(m - 1) : f[i] \in Nat \ {0}
    BY <1>4 DEF PowersTo
  <2>2. g \in [0..m -> Nat \ {0}]
    BY <1>3, <2>1
  <2>3. g[0] = 1
    BY <1>2, <1>4 DEF PowersTo
  <2>4. ASSUME NEW i \in 1..m PROVE g[i] = 10 * g[i - 1]
    <3>1. i - 1 \in 0..m /\ i - 1 # m /\ i \in 0..m
      BY <1>3
    <3>2. CASE i = m
      BY <3>1, <3>2
    <3>3. CASE i # m
      <4>1. i \in 1..(m - 1)
        BY <1>3, <3>3
      <4>2. f[i] = 10 * f[i - 1]
        BY <1>4, <4>1 DEF PowersTo
      <4> QED
        BY <3>1, <3>3, <4>2
    <3> QED
      BY <3>2, <3>3
  <2> HIDE DEF g
  <2> QED
    BY <2>2, <2>3, <2>4 DEF PowersTo
<1> QED
  BY <1>5

\* As far as they go, they are the same.
LEMMA PowersUnique ==
  ASSUME NEW n \in Nat, NEW m \in Nat, NEW f, NEW g, PowersTo(f, n), PowersTo(g, m),
         NEW i \in Nat, i <= n, i <= m
  PROVE  f[i] = g[i]
<1> DEFINE T == {k \in Nat : k <= n /\ k <= m /\ f[k] # g[k]}
<1> SUFFICES ASSUME T # {} PROVE FALSE
  OBVIOUS
<1>1. PICK k \in T : \A l \in T : k <= l
  BY LeastNumber
<1>2. k # 0
  BY <1>1 DEF PowersTo
<1>3. k - 1 \in Nat /\ k - 1 \notin T /\ k \in 1..n /\ k \in 1..m
  BY <1>1, <1>2
<1>4. f[k - 1] = g[k - 1]
  BY <1>3
<1> QED
  BY <1>1, <1>3, <1>4 DEF PowersTo

\* The equation that defines the powers of ten has a solution.
LEMMA Powers ==
  /\ PowerOfTen \in [Nat -> Nat \ {0}]
  /\ PowerOfTen[0] = 1
  /\ \A n \in Nat : PowerOfTen[n + 1] = 10 * PowerOfTen[n]
<1> DEFINE F(n) == CHOOSE f : PowersTo(f, n)
           g == [n \in Nat |-> F(n)[n]]
           Solves(f) == f = [n \in Nat |-> IF n = 0 THEN 1 ELSE 10 * f[n - 1]]
<1>1. \A n \in Nat : PowersTo(F(n), n)
  BY PowersExist
<1> HIDE DEF F
<1>2. \A n \in Nat : g[n] \in Nat \ {0}
  BY <1>1 DEF PowersTo
<1>3. g[0] = 1
  BY <1>1 DEF PowersTo
<1>4. ASSUME NEW n \in Nat, n # 0 PROVE g[n] = 10 * g[n - 1]
  <2>1. n - 1 \in Nat /\ n \in 1..n
    BY <1>4
  <2>2. F(n)[n] = 10 * F(n)[n - 1]
    BY <1>1, <2>1 DEF PowersTo
  <2>3. F(n)[n - 1] = F(n - 1)[n - 1]
    BY <1>1, <2>1, PowersUnique
  <2> QED
    BY <2>1, <2>2, <2>3
<1>5. Solves(g)
  BY <1>3, <1>4
<1>6. PowerOfTen = CHOOSE f : Solves(f)
  BY DEF PowerOfTen
<1> HIDE DEF g, Solves
<1>7. Solves(PowerOfTen)
  BY <1>5, <1>6
<1>8. \A n \in Nat : PowerOfTen[n] = IF n = 0 THEN 1 ELSE 10 * PowerOfTen[n - 1]
  BY <1>7 DEF Solves
<1>9. \A n \in Nat : PowerOfTen[n] \in Nat \ {0}
  <2> DEFINE T == {n \in Nat : PowerOfTen[n] \notin Nat \ {0}}
  <2> SUFFICES ASSUME T # {} PROVE FALSE
    OBVIOUS
  <2>1. PICK k \in T : \A l \in T : k <= l
    BY LeastNumber
  <2>2. k # 0
    BY <1>8, <2>1
  <2>3. k - 1 \in Nat /\ k - 1 \notin T
    BY <2>1, <2>2
  <2> QED
    BY <1>8, <2>1, <2>2, <2>3
<1>10. PowerOfTen = [n \in Nat |-> PowerOfTen[n]]
  BY <1>7 DEF Solves
<1>11. \A n \in Nat : PowerOfTen[n + 1] = 10 * PowerOfTen[n]
  BY <1>8
<1>12. PowerOfTen \in [Nat -> Nat \ {0}]
  BY <1>9, <1>10, Zenon
<1> QED
  BY <1>8, <1>11, <1>12

\* The power of a sum is the product of the powers.
LEMMA PowersAdd ==
  ASSUME NEW m \in Nat, NEW n \in Nat
  PROVE  PowerOfTen[m + n] = PowerOfTen[m] * PowerOfTen[n]
<1> DEFINE T == {k \in Nat : PowerOfTen[m + k] # PowerOfTen[m] * PowerOfTen[k]}
<1> SUFFICES ASSUME T # {} PROVE FALSE
  OBVIOUS
<1>1. PICK k \in T : \A l \in T : k <= l
  BY LeastNumber
<1>2. k # 0
  BY <1>1, Powers
<1>3. k - 1 \in Nat /\ k - 1 \notin T
  BY <1>1, <1>2
<1> DEFINE a == PowerOfTen[m]
           b == PowerOfTen[k - 1]
<1>4. PowerOfTen[m + (k - 1)] = a * b /\ a \in Nat /\ b \in Nat
  BY <1>3, Powers
<1>5. PowerOfTen[k] = 10 * b /\ PowerOfTen[m + k] = 10 * PowerOfTen[m + (k - 1)]
  <2>1. (k - 1) + 1 = k /\ m + (k - 1) \in Nat /\ (m + (k - 1)) + 1 = m + k
    BY <1>3
  <2> QED
    BY <1>3, <2>1, Powers
<1>6. 10 * (a * b) = a * (10 * b)
  BY <1>4
<1> HIDE DEF a, b
<1>7. PowerOfTen[m + k] = a * PowerOfTen[k]
  BY <1>4, <1>5, <1>6
<1> QED
  BY <1>1, <1>7 DEF a

\* Division without a rest.
LEMMA DivMod ==
  ASSUME NEW s \in Int, NEW q \in Nat \ {0}
  PROVE  /\ s \div q \in Int
         /\ s % q = 0 => s = (s \div q) * q
         /\ \A u \in Int : s = u * q => s % q = 0
<1>1. s \div q \in Int
  OBVIOUS
<1>2. ASSUME NEW u \in Int, s = u * q PROVE s % q = 0
  BY <1>2
<1>3. ASSUME s % q = 0 PROVE s = (s \div q) * q
  BY <1>3
<1> QED
  BY <1>1, <1>2, <1>3

(***************************************************************************)
(* The logical hash of a document in a binary file.                        *)
(***************************************************************************)
\* What reading a binary value makes of a node, it makes of it once.
LEMMA BinaryOnce ==
  ASSUME NEW node
  PROVE  BinaryNode(BinaryNode(node)) = BinaryNode(node)
BY DEF BinaryNode, Variant, Held, Unsigned, Signed, Floats, Plainly

\* No variant is of two kinds.
LEMMA Disjoint ==
  Unsigned \cap Signed = {} /\ Unsigned \cap Floats = {} /\ Signed \cap Floats = {}
BY DEF Unsigned, Signed, Floats

\* A width is no part of the canonical form, and the timestamps stay.
LEMMA BinaryKeepsForm ==
  ASSUME NEW node, IsNode(node), Variant(node) \notin Plainly \ {"String"}
  PROVE  /\ CanonicalNode(BinaryNode(node)) = CanonicalNode(node)
         /\ Variant(node) = "Timestamp" => BinaryNode(node) = node
         /\ Variant(BinaryNode(node)) = "Timestamp" => Variant(node) = "Timestamp"
<1>1. CASE Variant(node) \in Unsigned \cup Signed \cup Floats
  <2>1. \/ Variant(node) \in Unsigned /\ BinaryNode(node) = <<"U64", Held(node)>>
        \/ Variant(node) \in Signed /\ BinaryNode(node) = <<"I64", Held(node)>>
        \/ Variant(node) \in Floats /\ BinaryNode(node) = <<"F64", Held(node)>>
    BY <1>1 DEF BinaryNode, Unsigned, Signed, Floats
  <2>2. /\ Variant(BinaryNode(node)) \in Unsigned <=> Variant(node) \in Unsigned
        /\ Variant(BinaryNode(node)) \in Signed <=> Variant(node) \in Signed
        /\ Variant(BinaryNode(node)) \in Unsigned \cup Signed \cup Floats
        /\ Held(BinaryNode(node)) = Held(node)
    BY <2>1 DEF Variant, Held, Unsigned, Signed, Floats
  <2>3. NumberForm(BinaryNode(node)) = NumberForm(node)
    BY <1>1, <2>2, Disjoint DEF NumberForm
  <2>4. \A n : Variant(n) \in Unsigned \cup Signed \cup Floats =>
          CanonicalNode(n) = NumberForm(n) /\ Variant(n) # "Timestamp"
    BY DEF CanonicalNode, Unsigned, Signed, Floats
  <2> QED
    BY <1>1, <2>2, <2>3, <2>4
<1>2. CASE Variant(node) = "String"
  <2>1. node = <<"String", Held(node)>>
    BY <1>2 DEF IsNode
  <2>2. BinaryNode(node) = <<"String", Held(node)>>
    BY <1>2 DEF BinaryNode, Unsigned, Signed, Floats, Plainly
  <2> QED
    BY <2>1, <2>2
<1>3. CASE Variant(node) \notin Unsigned \cup Signed \cup Floats \cup {"String"}
  <2>1. BinaryNode(node) = node
    BY <1>3 DEF BinaryNode, Variant, Held, Unsigned, Signed, Floats, Plainly
  <2> QED
    BY <2>1
<1> QED
  BY <1>1, <1>2, <1>3

\* So a document without strings under other names keeps its canonical form.
LEMMA BinaryKeepsCanonical ==
  ASSUME NEW d, IsDocument(d),
         \A p \in DOMAIN d : Variant(d[p]) \notin Plainly \ {"String"}
  PROVE  canonicalize(NodeWise(BinaryNode, d)) = canonicalize(d)
<1> DEFINE e == [p \in DOMAIN d |-> BinaryNode(d[p])]
           Bad(f, p) == /\ Variant(f[p]) = "Timestamp"
                        /\ (Held(f[p]) = Blank \/ ~ IsAscii(Held(f[p])))
<1>1. DOMAIN e = DOMAIN d
  OBVIOUS
<1>2. \A p \in DOMAIN d : /\ CanonicalNode(e[p]) = CanonicalNode(d[p])
                          /\ Bad(e, p) <=> Bad(d, p)
  BY BinaryKeepsForm DEF IsDocument
<1>3. [p \in DOMAIN e |-> CanonicalNode(e[p])] = [p \in DOMAIN d |-> CanonicalNode(d[p])]
  BY <1>1, <1>2
<1>4. (\E p \in DOMAIN e : Bad(e, p)) <=> (\E p \in DOMAIN d : Bad(d, p))
  BY <1>1, <1>2
<1> HIDE DEF e
<1>5. canonicalize(e) = canonicalize(d)
  BY <1>3, <1>4 DEF canonicalize, NodeWise
<1> QED
  BY <1>5 DEF NodeWise, e

\* In binary files a document is as it was made, or has been read once.
OnceRead ==
  schema = NoSchema /\ ways \subseteq {"binary"}
    => file.doc = original \/ file.doc = NodeWise(BinaryNode, original)

HashInv == OnceRead /\ original \in Originals

\* Nothing has been read at the start.
LEMMA HashInvBegins == Init => HashInv
BY DEF Init, HashInv, OnceRead

\* A trip reads the file or leaves it.
LEMMA TripReads ==
  ASSUME NEW reader, NEW to, Trip(reader, to)
  PROVE  /\ schema' = schema /\ original' = original /\ ways' = ways \cup {reader}
         /\ \/ file' = file /\ outcome' = "failed" /\ ~ CanRead(reader, file.doc)
            \/ /\ file' = [form |-> to, doc |-> Reading(reader, file.doc)]
               /\ outcome' = outcome /\ CanRead(reader, file.doc)
BY DEF Trip

\* An upgrade ends with a schema.
LEMMA UpgradeHasSchema == Upgrade => schema' # NoSchema
BY DEF Upgrade

\* Every step is a trip or an upgrade.
LEMMA Steps ==
  ASSUME Next
  PROVE  (\E reader, to : Trip(reader, to)) \/ Upgrade
BY DEF Next, Convert, Import

\* How a binary file is read.
LEMMA BinaryReading ==
  ASSUME NEW d
  PROVE  Reading("binary", d) = NodeWise(BinaryNode, d)
BY DEF Reading

\* Read twice from binary, a document is what it is when it is read once.
LEMMA BinaryTwice ==
  ASSUME NEW d
  PROVE  NodeWise(BinaryNode, NodeWise(BinaryNode, d)) = NodeWise(BinaryNode, d)
BY BinaryOnce DEF NodeWise

\* No step disturbs it.
LEMMA HashInvStep == HashInv /\ [Next]_vars => HashInv'
<1> SUFFICES ASSUME HashInv, [Next]_vars PROVE HashInv'
  OBVIOUS
<1>1. CASE \E reader, to : Trip(reader, to)
  <2>1. PICK reader, to : Trip(reader, to)
    BY <1>1
  <2>2. /\ schema' = schema /\ original' = original /\ ways' = ways \cup {reader}
        /\ \/ file' = file
           \/ file' = [form |-> to, doc |-> Reading(reader, file.doc)]
    BY <2>1, TripReads
  <2>3. ASSUME schema' = NoSchema, ways' \subseteq {"binary"}
        PROVE  file'.doc = original' \/ file'.doc = NodeWise(BinaryNode, original')
    <3>1. reader = "binary" /\ ways \subseteq {"binary"} /\ schema = NoSchema
      BY <2>2, <2>3
    <3>2. file.doc = original \/ file.doc = NodeWise(BinaryNode, original)
      BY <3>1 DEF HashInv, OnceRead
    <3>3. file'.doc = file.doc \/ file'.doc = NodeWise(BinaryNode, file.doc)
      BY <2>2, <3>1, BinaryReading
    <3> QED
      BY <2>2, <3>2, <3>3, BinaryTwice
  <2> QED
    BY <2>2, <2>3 DEF HashInv, OnceRead
<1>2. CASE Upgrade
  <2>1. original' = original
    BY <1>2 DEF Upgrade
  <2> QED
    BY <1>2, <2>1, UpgradeHasSchema DEF HashInv, OnceRead
<1>3. CASE UNCHANGED vars
  BY <1>3 DEF vars, HashInv, OnceRead
<1> QED
  BY <1>1, <1>2, <1>3, Steps

\* It is what keeps the hash.
LEMMA HashInvImplies == HashInv => HashSurvivesBinary
<1> SUFFICES ASSUME HashInv, schema = NoSchema, ways \subseteq {"binary"},
                    \A node \in Nodes(original) : Variant(node) \notin Plainly \ {"String"}
             PROVE  canonicalize(file.doc) = canonicalize(original)
  BY DEF HashSurvivesBinary
<1>1. file.doc = original \/ file.doc = NodeWise(BinaryNode, original)
  BY DEF HashInv, OnceRead
<1>2. \A p \in DOMAIN original : Variant(original[p]) \notin Plainly \ {"String"}
  BY DEF Nodes
<1>3. IsDocument(original)
  BY StoredConstants DEF IsSxNode, HashInv
<1> QED
  BY <1>1, <1>2, <1>3, BinaryKeepsCanonical

\* logical_hash gives a document without enums, URLs and e-mail addresses the
\* same digest after any number of trips through binary files, in which its
\* numbers lose their widths.
THEOREM HashAlwaysSurvivesBinary == Spec => []HashSurvivesBinary
BY HashInvBegins, HashInvStep, HashInvImplies, PTL DEF Spec
-----------------------------------------------------------------------------
(***************************************************************************)
(* A document of portable nodes, node by node.                             *)
(***************************************************************************)
PortableDocument(d) ==
  /\ IsDocument(d)
  /\ \A p \in DOMAIN d :
       /\ Portable(d[p])
       /\ Variant(d[p]) = "Decimal" => Held(d[p]) \in Int \X Nat
       /\ \A i \in DOMAIN p : p[i][2] \notin NotWords

\* The variants there are of portable nodes.
LEMMA PortableVariants ==
  ASSUME NEW node, Portable(node)
  PROVE  \/ Variant(node) = "F64" /\ Held(node) \in Fractions
         \/ Variant(node) \in {"String"} \cup TaggedString /\ IsAscii(Held(node))
         \/ Variant(node) = "TypedArray" /\ Held(node)[2] # NaN
         \/ Variant(node) = "Decimal" /\ Held(node)[2] = 0
         \/ Variant(node) \in {"Null", "Bool", "I64", "Array", "Object", "Bytes", "Uuid",
                               "Money"}
BY DEF Portable, TaggedString

\* The text form keeps a portable node.
LEMMA TextKeeps ==
  ASSUME NEW node, IsNode(node), Portable(node),
         Variant(node) = "Decimal" => Held(node) \in Int \X Nat
  PROVE  TextNode(node) = node
<1>1. node = <<Variant(node), Held(node)>>
  BY DEF IsNode
<1>2. CASE Variant(node) = "F64" /\ Held(node) \in Fractions
  <2>1. Held(node) # NaN /\ ~ WholeFloat(node)
    BY <1>2, TextConstants DEF WholeFloat
  <2> QED
    BY <1>2, <2>1 DEF TextNode, Unsigned, Signed, Floats, Quoted
<1>3. CASE Variant(node) \in {"String"} \cup TaggedString /\ IsAscii(Held(node))
  <2>1. TextNode(node) = <<Variant(node), Held(node)>>
    BY <1>3 DEF TextNode, TaggedString, Unsigned, Signed, Floats, Quoted, WholeFloat
  <2> QED
    BY <1>1, <2>1
<1>4. CASE Variant(node) = "Decimal" /\ Held(node)[2] = 0
  <2>1. TextNode(node) = <<"Decimal", <<Held(node)[1] * PowerOfTen[0], 0>>>>
    BY <1>4 DEF TextNode, Unsigned, Signed, Floats, Quoted, WholeFloat
  <2>2. Held(node)[1] \in Int /\ Held(node) = <<Held(node)[1], 0>>
    BY <1>4
  <2>3. Held(node)[1] * PowerOfTen[0] = Held(node)[1]
    BY <2>2, Powers
  <2> QED
    BY <1>1, <1>4, <2>1, <2>2, <2>3
<1>5. CASE Variant(node) = "I64"
  <2>1. TextNode(node) = <<"I64", Held(node)>>
    BY <1>5 DEF TextNode, Unsigned, Signed, Floats, Quoted, WholeFloat
  <2> QED
    BY <1>1, <1>5, <2>1
<1>6. CASE Variant(node) \in {"Null", "Bool", "Array", "Object", "Bytes", "Uuid", "Money",
                              "TypedArray"}
  BY <1>6 DEF TextNode, Unsigned, Signed, Floats, Quoted, WholeFloat
<1> QED
  BY <1>2, <1>3, <1>4, <1>5, <1>6, PortableVariants

\* The binary form keeps a portable node.
LEMMA BinaryKeeps ==
  ASSUME NEW node, IsNode(node), Portable(node)
  PROVE  BinaryNode(node) = node
<1>1. node = <<Variant(node), Held(node)>>
  BY DEF IsNode
<1>2. CASE Variant(node) = "F64"
  <2>1. BinaryNode(node) = <<"F64", Held(node)>>
    BY <1>2 DEF BinaryNode, Unsigned, Signed, Floats, Plainly
  <2> QED
    BY <1>1, <1>2, <2>1
<1>3. CASE Variant(node) = "I64"
  <2>1. BinaryNode(node) = <<"I64", Held(node)>>
    BY <1>3 DEF BinaryNode, Unsigned, Signed, Floats, Plainly
  <2> QED
    BY <1>1, <1>3, <2>1
<1>4. CASE Variant(node) = "String"
  BY <1>1, <1>4 DEF BinaryNode, Unsigned, Signed, Floats, Plainly
<1>5. CASE Variant(node) \in TaggedString
               \cup {"TypedArray", "Decimal", "Null", "Bool", "Array", "Object", "Bytes",
                     "Uuid", "Money"}
  BY <1>5 DEF BinaryNode, TaggedString, Unsigned, Signed, Floats, Plainly
<1> QED
  BY <1>2, <1>3, <1>4, <1>5, PortableVariants

\* What JSON has for a portable node that is not tagged says what it was.
LEMMA JsonLeafKeeps ==
  ASSUME NEW node, IsNode(node), Portable(node), Variant(node) \notin Tagged
  PROVE  LET j == JsonNode(node) IN
           \/ node = <<"I64", Held(node)>> /\ j = <<"Integer", Held(node)>>
                /\ Held(node) \in I64
           \/ node = <<"F64", Held(node)>> /\ j = <<"Float", Held(node)>>
           \/ node = <<"String", Held(node)>> /\ j = node /\ IsAscii(Held(node))
           \/ j = node /\ Variant(node) \in {"Null", "Bool", "Array", "Object"}
<1>1. node = <<Variant(node), Held(node)>>
  BY DEF IsNode
<1>2. CASE Variant(node) = "F64" /\ Held(node) \in Fractions
  <2>1. Held(node) # NaN
    BY <1>2, TextConstants
  <2>2. JsonNode(node) = <<"Float", Held(node)>>
    BY <1>2, <2>1 DEF JsonNode, Unsigned, Signed, Floats, Plainly, Tagged, TaggedString,
       TaggedData
  <2> QED
    BY <1>1, <1>2, <2>2
<1>3. CASE Variant(node) = "I64"
  <2>1. JsonNode(node) = <<"Integer", Held(node)>>
    BY <1>3 DEF JsonNode, Unsigned, Signed, Floats, Plainly, Tagged, TaggedString,
       TaggedData
  <2>2. Held(node) \in I64
    BY <1>3 DEF IsNode
  <2> QED
    BY <1>1, <1>3, <2>1, <2>2
<1>4. CASE Variant(node) = "String" /\ IsAscii(Held(node))
  BY <1>1, <1>4 DEF JsonNode, Unsigned, Signed, Floats, Plainly
<1>5. CASE Variant(node) \in {"Null", "Bool", "Array", "Object"}
  BY <1>5 DEF JsonNode, Unsigned, Signed, Floats, Plainly, Tagged, TaggedString, TaggedData
<1> QED
  BY <1>2, <1>3, <1>4, <1>5, PortableVariants DEF Tagged, TaggedData
-----------------------------------------------------------------------------
(***************************************************************************)
(* Such a document as a whole: read in any form, it is what it was.        *)
(***************************************************************************)
LEMMA TextTripKeeps ==
  ASSUME NEW d, PortableDocument(d)
  PROVE  CanRead("text", d) /\ Reading("text", d) = d
<1>1. NodeWise(TextNode, d) = d
  <2> DEFINE e == [p \in DOMAIN d |-> TextNode(d[p])]
  <2>1. \A p \in DOMAIN d : e[p] = d[p]
    BY TextKeeps DEF PortableDocument, IsDocument
  <2>2. e = [p \in DOMAIN d |-> d[p]]
    BY <2>1
  <2> QED
    BY <2>2 DEF NodeWise, PortableDocument, IsDocument
<1>2. ValueReadable(d)
  <2>1. ASSUME NEW p \in DOMAIN d
        PROVE  /\ Variant(d[p]) \notin Unsigned /\ ~ WholeFloat(d[p])
               /\ Variant(d[p]) = "TypedArray" => Held(d[p])[2] # NaN
               /\ \A i \in DOMAIN p : p[i][2] \notin NotWords
    <3>1. Portable(d[p]) /\ \A i \in DOMAIN p : p[i][2] \notin NotWords
      BY DEF PortableDocument
    <3>2. Variant(d[p]) \notin Unsigned
      BY <3>1, PortableVariants DEF Unsigned, TaggedString
    <3>3. ~ WholeFloat(d[p])
      BY <3>1, PortableVariants DEF WholeFloat, Floats, TaggedString
    <3>4. Variant(d[p]) = "TypedArray" => Held(d[p])[2] # NaN
      BY <3>1, PortableVariants DEF TaggedString
    <3> QED
      BY <3>1, <3>2, <3>3, <3>4
  <2> QED
    BY <2>1 DEF ValueReadable
<1> QED
  BY <1>1, <1>2 DEF CanRead, Reading

\* A trip through a binary file.
LEMMA BinaryTripKeeps ==
  ASSUME NEW d, PortableDocument(d)
  PROVE  CanRead("binary", d) /\ Reading("binary", d) = d
<1> DEFINE e == [p \in DOMAIN d |-> BinaryNode(d[p])]
<1>1. \A p \in DOMAIN d : e[p] = d[p]
  BY BinaryKeeps DEF PortableDocument, IsDocument
<1>2. e = [p \in DOMAIN d |-> d[p]]
  BY <1>1
<1>3. NodeWise(BinaryNode, d) = d
  BY <1>2 DEF NodeWise, PortableDocument, IsDocument
<1> QED
  BY <1>3 DEF CanRead, Reading

(***************************************************************************)
(* JSON: a tagged node becomes an object with two members under keys that  *)
(* the document has nowhere, and no other object looks like one.           *)
(***************************************************************************)
TaggedPaths(d) == {p \in DOMAIN d : Variant(d[p]) \in Tagged}

Beside(p, k) == Append(p, Key(k))

TagKeys == {TypeKey, ValueKey}

\* The two keys of a tagged object are keys, though no words.
LEMMA TagKeysAreKeys ==
  /\ TypeKey # ValueKey /\ TagKeys \subseteq NotWords /\ TagKeys \subseteq Keys
  /\ \A k \in TagKeys : Key(k) \in Segment
BY ConversionConstants, TextConstants DEF TagKeys, Key, Segment

\* A tagged node is a leaf: no path leads through it.
LEMMA TaggedAreLeaves ==
  ASSUME NEW d, IsDocument(d), NEW t \in TaggedPaths(d), NEW p \in DOMAIN d
  PROVE  ~ IsStrictPrefix(t, p)
<1> SUFFICES ASSUME IsStrictPrefix(t, p) PROVE FALSE
  OBVIOUS
<1>1. t \in Seq(Segment) /\ p \in Seq(Segment)
  BY DEF IsDocument, TaggedPaths
<1>2. Len(t) < Len(p) /\ SubSeq(p, 1, Len(t)) = t /\ Len(t) \in Nat /\ Len(p) \in Nat
  BY <1>1 DEF IsStrictPrefix, IsPrefix
<1>3. Len(t) + 1 \in 1..Len(p) /\ (Len(t) + 1) - 1 = Len(t)
  BY <1>2
<1>4. Leads(d[t], p[Len(t) + 1])
  BY <1>2, <1>3 DEF IsDocument
<1> QED
  BY <1>4 DEF Leads, TaggedPaths, Tagged, TaggedString, TaggedData

\* The paths of what is beside the tags.
Members(d) == {Beside(p, k) : p \in TaggedPaths(d), k \in TagKeys}

\* A path to a member of a tagged object is new, and says whose it is.
LEMMA MembersAreNew ==
  ASSUME NEW d, IsDocument(d), NEW p \in TaggedPaths(d), NEW k \in TagKeys
  PROVE  /\ Beside(p, k) \in Members(d) /\ Beside(p, k) \notin DOMAIN d
         /\ Beside(p, k) \in Seq(Segment) /\ Len(Beside(p, k)) = Len(p) + 1
         /\ Front(Beside(p, k)) = p /\ Last(Beside(p, k)) = Key(k)
         /\ IsStrictPrefix(p, Beside(p, k))
<1>1. p \in Seq(Segment) /\ Key(k) \in Segment /\ p \in DOMAIN d
  BY TagKeysAreKeys DEF TaggedPaths, IsDocument
<1>2. /\ Beside(p, k) \in Seq(Segment) /\ Len(Beside(p, k)) = Len(p) + 1
      /\ Beside(p, k)[Len(p) + 1] = Key(k) /\ Len(p) \in Nat
      /\ SubSeq(Beside(p, k), 1, Len(p)) = p
  <2> HIDE DEF Key, Segment
  <2> QED
    BY <1>1 DEF Beside
<1>3. Front(Beside(p, k)) = p /\ Last(Beside(p, k)) = Key(k)
  BY <1>2 DEF Front, Last
<1>4. IsStrictPrefix(p, Beside(p, k))
  <2>1. SubSeq(p, 1, Len(p)) = p
    <3> HIDE DEF Segment
    <3> QED
      BY <1>1
  <2>2. Len(p) <= Len(Beside(p, k)) /\ p # Beside(p, k)
    BY <1>2
  <2> QED
    BY <1>2, <2>1, <2>2 DEF IsStrictPrefix, IsPrefix
<1>5. Beside(p, k) \notin DOMAIN d
  BY <1>4, TaggedAreLeaves
<1> QED
  BY <1>2, <1>3, <1>4, <1>5 DEF Members

\* The paths of the JSON document and what they lead to.
LEMMA JsonOf ==
  ASSUME NEW d, IsDocument(d), NEW j, j = ToJson(d)
  PROVE  /\ DOMAIN j = DOMAIN d \cup Members(d)
         /\ \A p \in DOMAIN d : j[p] = JsonNode(d[p])
         /\ \A p \in TaggedPaths(d) :
              /\ j[Beside(p, TypeKey)] = <<"String", TagWord(Variant(d[p]))>>
              /\ j[Beside(p, ValueKey)] = Content(d[p])
<1>1. Members(d) = {Append(p, Key(k)) : p \in {q \in DOMAIN d : Variant(d[q]) \in Tagged},
                                        k \in {TypeKey, ValueKey}}
  BY DEF Members, TaggedPaths, Beside, TagKeys
<1>2. j = [p \in DOMAIN d \cup Members(d) |->
             IF p \in DOMAIN d THEN JsonNode(d[p])
             ELSE IF Last(p) = Key(TypeKey)
             THEN <<"String", TagWord(Variant(d[Front(p)]))>>
             ELSE Content(d[Front(p)])]
  BY <1>1 DEF ToJson
<1>3. DOMAIN j = DOMAIN d \cup Members(d)
  BY <1>2
<1>4. \A p \in DOMAIN d : j[p] = JsonNode(d[p])
  BY <1>2
<1>5. ASSUME NEW p \in TaggedPaths(d)
      PROVE  /\ j[Beside(p, TypeKey)] = <<"String", TagWord(Variant(d[p]))>>
             /\ j[Beside(p, ValueKey)] = Content(d[p])
  <2>1. TypeKey \in TagKeys /\ ValueKey \in TagKeys /\ Key(TypeKey) # Key(ValueKey)
    BY TagKeysAreKeys DEF TagKeys, Key
  <2>2. \A k \in TagKeys : /\ Beside(p, k) \in Members(d) /\ Beside(p, k) \notin DOMAIN d
                           /\ Front(Beside(p, k)) = p /\ Last(Beside(p, k)) = Key(k)
    BY MembersAreNew
  <2> QED
    BY <1>2, <2>1, <2>2
<1> QED
  BY <1>3, <1>4, <1>5

\* json_to_sx takes for tagged what was tagged, and besides only objects of the
\* document.
LEMMA TaggedLookTagged ==
  ASSUME NEW d, IsDocument(d), NEW j, j = ToJson(d)
  PROVE  /\ TaggedPaths(d) \subseteq TaggedObjects(j)
         /\ Outermost(TaggedPaths(d)) = TaggedPaths(d)
         /\ \A p \in TaggedObjects(j) :
              /\ p \in DOMAIN d
              /\ Beside(p, TypeKey) \in DOMAIN d \/ p \in TaggedPaths(d)
<1>1. /\ DOMAIN j = DOMAIN d \cup Members(d)
      /\ \A p \in TaggedPaths(d) :
           j[Beside(p, TypeKey)] = <<"String", TagWord(Variant(d[p]))>>
  BY JsonOf
<1>2. TypeKey \in TagKeys /\ ValueKey \in TagKeys /\ Key(TypeKey) \in Segment
  BY TagKeysAreKeys DEF TagKeys
<1>3. ASSUME NEW p \in TaggedPaths(d)
      PROVE  p \in TaggedObjects(j)
  <2>1. {Beside(p, TypeKey), Beside(p, ValueKey)} \subseteq DOMAIN j
    BY <1>1, <1>2, MembersAreNew
  <2>2. Variant(j[Beside(p, TypeKey)]) = "String"
    BY <1>1 DEF Variant
  <2>3. p \in DOMAIN j
    BY <1>1 DEF TaggedPaths
  <2> QED
    BY <2>1, <2>2, <2>3 DEF TaggedObjects, Beside
<1>4. ASSUME NEW p \in TaggedObjects(j)
      PROVE  /\ p \in DOMAIN d
             /\ Beside(p, TypeKey) \in DOMAIN d \/ p \in TaggedPaths(d)
  <2>1. p \in DOMAIN j /\ Beside(p, TypeKey) \in DOMAIN j
    BY DEF TaggedObjects, Beside
  <2>2. p \in Seq(Segment)
    BY <1>1, <2>1, MembersAreNew DEF IsDocument, Members
  <2>3. /\ Len(p) \in Nat /\ Len(Beside(p, TypeKey)) = Len(p) + 1
        /\ SubSeq(Beside(p, TypeKey), 1, Len(p)) = p
        /\ Front(Beside(p, TypeKey)) = p
    <3> HIDE DEF Key, Segment
    <3> QED
      BY <1>2, <2>2 DEF Beside, Front
  <2>4. CASE Beside(p, TypeKey) \in DOMAIN d
    <3>1. Len(p) + 1 \in 1..Len(Beside(p, TypeKey)) /\ (Len(p) + 1) - 1 = Len(p)
      BY <2>3
    <3>2. p \in DOMAIN d
      BY <2>3, <2>4, <3>1 DEF IsDocument
    <3> QED
      BY <2>4, <3>2
  <2>5. CASE Beside(p, TypeKey) \in Members(d)
    <3>1. PICK t \in TaggedPaths(d), k \in TagKeys : Beside(p, TypeKey) = Beside(t, k)
      BY <2>5 DEF Members
    <3>2. p = t
      BY <2>3, <3>1, MembersAreNew
    <3> QED
      BY <3>2 DEF TaggedPaths
  <2> QED
    BY <1>1, <2>1, <2>4, <2>5
<1>5. Outermost(TaggedPaths(d)) = TaggedPaths(d)
  BY TaggedAreLeaves DEF Outermost, TaggedPaths
<1> QED
  BY <1>3, <1>4, <1>5

\* JSON is a function, like any document.
LEMMA JsonIsFunction ==
  ASSUME NEW d
  PROVE  ToJson(d) = [p \in DOMAIN ToJson(d) |-> ToJson(d)[p]]
BY DEF ToJson

\* Its paths are sequences of segments.
LEMMA JsonPaths ==
  ASSUME NEW d, IsDocument(d)
  PROVE  DOMAIN ToJson(d) \subseteq Seq(Segment)
<1> DEFINE j == ToJson(d)
<1>1. DOMAIN j = DOMAIN d \cup Members(d)
  BY JsonOf
<1>2. DOMAIN d \subseteq Seq(Segment)
  BY DEF IsDocument
<1>3. Members(d) \subseteq Seq(Segment)
  BY MembersAreNew DEF Members
<1> QED
  BY <1>1, <1>2, <1>3

\* Each tagged variant has a tag of its own.
LEMMA TagsNameVariants ==
  ASSUME NEW v \in Tagged
  PROVE  IsTagWord(TagWord(v)) /\ VariantOf(TagWord(v)) = v
<1> DEFINE names == << "Timestamp", "Date", "Duration", "Reference",
                       "Bytes", "Uuid", "Decimal", "Money", "TypedArray" >>
           Nth(u) == CHOOSE i \in 1..9 : names[i] = u
<1>1. \A u \in Tagged : \E i \in 1..9 : names[i] = u
  <2>1. /\ names[1] = "Timestamp" /\ names[2] = "Date" /\ names[3] = "Duration"
        /\ names[4] = "Reference" /\ names[5] = "Bytes" /\ names[6] = "Uuid"
        /\ names[7] = "Decimal" /\ names[8] = "Money" /\ names[9] = "TypedArray"
    OBVIOUS
  <2> HIDE DEF names
  <2> QED
    BY <2>1 DEF Tagged, TaggedString, TaggedData
<1>2. \A u \in Tagged : TagWord(u) = 60 + Nth(u)
  BY DEF TagWord
<1> HIDE DEF names
<1>3. \A u \in Tagged : Nth(u) \in 1..9 /\ names[Nth(u)] = u
  BY <1>1
<1> HIDE DEF Nth
<1>4. \A u \in Tagged : TagWord(u) = TagWord(v) => u = v
  BY <1>2, <1>3
<1>5. VariantOf(TagWord(v)) = v
  BY <1>4 DEF VariantOf
<1> QED
  BY <1>2, <1>3, <1>5 DEF IsTagWord

\* What is beside the tag is what was tagged.
LEMMA UntaggedIsWhatWas ==
  ASSUME NEW node, IsNode(node), Variant(node) \in Tagged,
         Variant(node) = "TypedArray" => Held(node)[2] # NaN
  PROVE  /\ Untagged(Variant(node), Content(node)) = node
         /\ Variant(node) \in TaggedData =>
              Variant(Content(node)) = "Data" /\ Held(Content(node)) = node
<1>1. node = <<Variant(node), Held(node)>>
  BY DEF IsNode
<1>2. CASE Variant(node) \in TaggedString
  <2>1. Content(node) = <<"String", Held(node)>>
    BY <1>2 DEF Content
  <2>2. Variant(Content(node)) = "String" /\ Held(Content(node)) = Held(node)
    BY <2>1 DEF Variant, Held
  <2>3. Variant(node) \notin TaggedData
    BY <1>2 DEF TaggedString, TaggedData
  <2> QED
    BY <1>1, <1>2, <2>2, <2>3 DEF Untagged
<1>3. CASE Variant(node) \in TaggedData
  <2>1. Variant(node) \notin TaggedString
    BY <1>3 DEF TaggedString, TaggedData
  <2>2. Content(node) = <<"Data", node>>
    BY <2>1 DEF Content
  <2>3. Variant(Content(node)) = "Data" /\ Held(Content(node)) = node
    BY <2>2 DEF Variant, Held
  <2> QED
    BY <2>1, <2>3 DEF Untagged
<1> QED
  BY <1>2, <1>3 DEF Tagged

\* What json_to_sx makes of a leaf.
LeafRead(n) ==
  CASE Variant(n) = "Integer" -> NumberRead(Held(n))
    [] Variant(n) = "Float" -> <<"F64", Held(n)>>
    [] OTHER -> n

\* A document in which nothing but the tagged nodes looks tagged is read node by
\* node.
LEMMA JsonReading ==
  ASSUME NEW d, IsDocument(d), Finite(d), TaggedObjects(ToJson(d)) = TaggedPaths(d)
  PROVE  /\ CanRead("json", d)
         /\ Reading("json", d) =
              [p \in DOMAIN d |->
                 IF p \in TaggedPaths(d) THEN d[p] ELSE LeafRead(JsonNode(d[p]))]
<1> DEFINE j == ToJson(d)
           outside == {q \in DOMAIN j : \A t \in TaggedPaths(d) : ~ IsStrictPrefix(t, q)}
           Read(p) == CASE p \in TaggedPaths(d) ->
                             Untagged(VariantOf(TagAt(j, p)), ContentAt(j, p))
                        [] Variant(j[p]) = "Integer" -> NumberRead(Held(j[p]))
                        [] Variant(j[p]) = "Float" -> <<"F64", Held(j[p])>>
                        [] OTHER -> j[p]
<1>1. /\ Outermost(TaggedObjects(j)) = TaggedPaths(d)
      /\ DOMAIN j = DOMAIN d \cup Members(d)
      /\ \A p \in DOMAIN d : j[p] = JsonNode(d[p])
  BY JsonOf, TaggedLookTagged
<1>2. FromJson(j) = [p \in outside |-> Read(p)]
  BY <1>1 DEF FromJson
<1> HIDE DEF j
<1>3. ASSUME NEW p \in TaggedPaths(d)
      PROVE  /\ Variant(d[p]) \in Tagged /\ IsNode(d[p])
             /\ Variant(d[p]) = "TypedArray" => Held(d[p])[2] # NaN
             /\ TagAt(j, p) = TagWord(Variant(d[p])) /\ ContentAt(j, p) = Content(d[p])
  <2>1. /\ j[Beside(p, TypeKey)] = <<"String", TagWord(Variant(d[p]))>>
        /\ j[Beside(p, ValueKey)] = Content(d[p])
    BY JsonOf DEF j
  <2>2. Variant(d[p]) \in Tagged /\ IsNode(d[p])
    BY DEF TaggedPaths, IsDocument
  <2>3. Variant(d[p]) = "TypedArray" => Held(d[p])[2] # NaN
    BY DEF TaggedPaths, Finite, Nodes
  <2> QED
    BY <2>1, <2>2, <2>3 DEF TagAt, ContentAt, Beside, Held
<1>4. ASSUME NEW p \in TaggedPaths(d)
      PROVE  TagReadable(j, p) /\ Untagged(VariantOf(TagAt(j, p)), ContentAt(j, p)) = d[p]
  <2>1. IsTagWord(TagAt(j, p)) /\ VariantOf(TagAt(j, p)) = Variant(d[p])
    BY <1>3, TagsNameVariants
  <2> QED
    BY <1>3, <2>1, UntaggedIsWhatWas DEF TagReadable
<1>5. outside = DOMAIN d
  <2>1. ASSUME NEW q \in Members(d)
        PROVE  q \notin outside
    BY MembersAreNew DEF Members
  <2> QED
    BY <1>1, <2>1, TaggedAreLeaves
<1>6. ASSUME NEW p \in DOMAIN d
      PROVE  Read(p) = IF p \in TaggedPaths(d) THEN d[p] ELSE LeafRead(JsonNode(d[p]))
  <2>1. CASE p \in TaggedPaths(d)
    <3>1. Variant(j[p]) # "Integer" /\ Variant(j[p]) # "Float"
      BY <1>1, <2>1 DEF JsonNode, TaggedPaths, Tagged, TaggedString, TaggedData, Unsigned,
         Signed, Floats, Plainly, Object, Variant
    <3> QED
      BY <1>4, <2>1, <3>1
  <2>2. CASE p \notin TaggedPaths(d)
    BY <1>1, <2>2 DEF LeafRead
  <2> QED
    BY <2>1, <2>2
<1> HIDE DEF outside, Read
<1>7. FromJson(j) = [p \in DOMAIN d |->
                       IF p \in TaggedPaths(d) THEN d[p] ELSE LeafRead(JsonNode(d[p]))]
  BY <1>2, <1>5, <1>6
<1> QED
  BY <1>1, <1>4, <1>7 DEF CanRead, Reading, j

\* A trip through JSON that json_to_sx reads.
LEMMA JsonTripKeeps ==
  ASSUME NEW d, PortableDocument(d)
  PROVE  CanRead("json", d) /\ Reading("json", d) = d
<1>1. ASSUME NEW p \in DOMAIN d
      PROVE  /\ IsNode(d[p]) /\ Portable(d[p])
             /\ Variant(d[p]) = "TypedArray" => Held(d[p])[2] # NaN
  <2>1. IsNode(d[p]) /\ Portable(d[p])
    BY DEF PortableDocument, IsDocument
  <2> QED
    BY <2>1, PortableVariants DEF TaggedString
<1>2. Finite(d)
  BY <1>1 DEF Finite, Nodes
<1>3. \A p \in DOMAIN d : Beside(p, TypeKey) \notin DOMAIN d
  <2>1. SUFFICES ASSUME NEW p \in DOMAIN d, Beside(p, TypeKey) \in DOMAIN d PROVE FALSE
    OBVIOUS
  <2>2. p \in Seq(Segment) /\ Key(TypeKey) \in Segment /\ TypeKey \in NotWords
    BY TagKeysAreKeys DEF TagKeys, PortableDocument, IsDocument
  <2>3. Len(p) + 1 \in DOMAIN Beside(p, TypeKey) /\ Beside(p, TypeKey)[Len(p) + 1] = Key(TypeKey)
    <3> HIDE DEF Key, Segment
    <3> QED
      BY <2>2 DEF Beside
  <2>4. Beside(p, TypeKey)[Len(p) + 1][2] = TypeKey
    BY <2>3 DEF Key
  <2> QED
    BY <2>1, <2>2, <2>3, <2>4 DEF PortableDocument
<1>4. IsDocument(d)
  BY DEF PortableDocument
<1>5. TaggedObjects(ToJson(d)) = TaggedPaths(d)
  BY <1>3, <1>4, TaggedLookTagged
<1>6. ASSUME NEW p \in DOMAIN d, p \notin TaggedPaths(d)
      PROVE  LeafRead(JsonNode(d[p])) = d[p]
  <2> DEFINE n == JsonNode(d[p])
  <2>1. \/ d[p] = <<"I64", Held(d[p])>> /\ n = <<"Integer", Held(d[p])>>
             /\ Held(d[p]) \in I64
        \/ d[p] = <<"F64", Held(d[p])>> /\ n = <<"Float", Held(d[p])>>
        \/ d[p] = <<"String", Held(d[p])>> /\ n = d[p]
        \/ n = d[p] /\ Variant(d[p]) \in {"Null", "Bool", "Array", "Object"}
    BY <1>1, <1>6, JsonLeafKeeps DEF TaggedPaths
  <2> HIDE DEF n
  <2>2. CASE d[p] = <<"I64", Held(d[p])>> /\ n = <<"Integer", Held(d[p])>>
             /\ Held(d[p]) \in I64
    <3>1. Variant(n) = "Integer" /\ Held(n) = Held(d[p])
      BY <2>2 DEF Variant, Held
    <3> QED
      BY <2>2, <3>1 DEF NumberRead, LeafRead, n
  <2>3. CASE d[p] = <<"F64", Held(d[p])>> /\ n = <<"Float", Held(d[p])>>
    <3>1. Variant(n) = "Float" /\ Held(n) = Held(d[p])
      BY <2>3 DEF Variant, Held
    <3> QED
      BY <2>3, <3>1 DEF LeafRead, n
  <2>4. CASE n = d[p] /\ Variant(d[p]) \in {"String", "Null", "Bool", "Array", "Object"}
    BY <2>4 DEF LeafRead, n
  <2>5. d[p] = <<"String", Held(d[p])>> => Variant(d[p]) = "String"
    BY DEF Variant
  <2> QED
    BY <2>1, <2>2, <2>3, <2>4, <2>5
<1>7. Reading("json", d) = [p \in DOMAIN d |-> d[p]]
  BY <1>2, <1>4, <1>5, <1>6, JsonReading
<1> QED
  BY <1>2, <1>4, <1>5, <1>7, JsonReading DEF IsDocument

\* Without tagged nodes, what the parser of the text form makes of the JSON is
\* the document, too.
LEMMA JsonTextTripKeeps ==
  ASSUME NEW d, PortableDocument(d), NoneTagged(d)
  PROVE  CanRead("json_text", d) /\ Reading("json_text", d) = d
<1> DEFINE j == ToJson(d)
<1> HIDE DEF j
<1>1. TaggedPaths(d) = {} /\ Members(d) = {}
  BY DEF NoneTagged, Nodes, TaggedPaths, Members
<1>2. DOMAIN j = DOMAIN d /\ \A p \in DOMAIN d : j[p] = JsonNode(d[p])
  BY <1>1, JsonOf DEF j, PortableDocument
<1>3. ASSUME NEW p \in DOMAIN d
      PROVE  JsonTextNode(j[p]) = d[p] /\ Variant(d[p]) \notin Unsigned
  <2>1. \/ d[p] = <<"I64", Held(d[p])>> /\ j[p] = <<"Integer", Held(d[p])>>
             /\ Held(d[p]) \in I64
        \/ d[p] = <<"F64", Held(d[p])>> /\ j[p] = <<"Float", Held(d[p])>>
        \/ d[p] = <<"String", Held(d[p])>> /\ j[p] = d[p] /\ IsAscii(Held(d[p]))
        \/ j[p] = d[p] /\ Variant(d[p]) \in {"Null", "Bool", "Array", "Object"}
    BY <1>1, <1>2, JsonLeafKeeps DEF TaggedPaths, PortableDocument, IsDocument
  <2>2. CASE d[p] = <<"I64", Held(d[p])>> /\ j[p] = <<"Integer", Held(d[p])>>
    <3>1. Variant(j[p]) = "Integer" /\ Held(j[p]) = Held(d[p]) /\ Variant(d[p]) = "I64"
      BY <2>2 DEF Variant, Held
    <3> QED
      BY <2>2, <3>1 DEF JsonTextNode, Unsigned
  <2>3. CASE d[p] = <<"F64", Held(d[p])>> /\ j[p] = <<"Float", Held(d[p])>>
    <3>1. Variant(j[p]) = "Float" /\ Held(j[p]) = Held(d[p]) /\ Variant(d[p]) = "F64"
      BY <2>3 DEF Variant, Held
    <3> QED
      BY <2>3, <3>1 DEF JsonTextNode, Unsigned
  <2>4. CASE d[p] = <<"String", Held(d[p])>> /\ j[p] = d[p] /\ IsAscii(Held(d[p]))
    <3>1. Variant(d[p]) = "String"
      BY <2>4 DEF Variant
    <3>2. TextNode(d[p]) = <<"String", Held(d[p])>>
      BY <2>4, <3>1 DEF TextNode, Unsigned, Signed, Floats, Quoted, WholeFloat
    <3> QED
      BY <2>4, <3>1, <3>2 DEF JsonTextNode, Unsigned
  <2>5. CASE j[p] = d[p] /\ Variant(d[p]) \in {"Null", "Bool", "Array", "Object"}
    BY <2>5 DEF JsonTextNode, Unsigned
  <2> QED
    BY <2>1, <2>2, <2>3, <2>4, <2>5
<1>4. NodeWise(JsonTextNode, j) = [p \in DOMAIN d |-> d[p]]
  BY <1>2, <1>3 DEF NodeWise
<1> QED
  BY <1>3, <1>4 DEF CanRead, Reading, j, PortableDocument, IsDocument
-----------------------------------------------------------------------------
(***************************************************************************)
(* Any chain of conversions.                                               *)
(***************************************************************************)
\* Nothing has changed as long as the assumptions of PortableUnchanged hold.
PortableInv ==
  /\ original \in Originals /\ file.form \in Forms
  /\ PortableUnchanged

\* The document is in the file at the start.
LEMMA PortableInvBegins == Init => PortableInv
BY DEF Init, PortableInv, PortableUnchanged

\* The ways a file of some form is read.
LEMMA Readings ==
  ASSUME Next, file.form \in Forms
  PROVE  (\E reader \in Readers, to \in Forms : Trip(reader, to)) \/ Upgrade
<1>1. load_value(file.form) \in Readers /\ "json" \in Readers
  BY DEF load_value, Forms, Readers
<1> QED
  BY <1>1 DEF Next, Convert, Import

\* Every reader reads a portable document as it was written.
LEMMA TripsKeep ==
  ASSUME NEW d, PortableDocument(d), NEW reader \in Readers,
         reader = "json_text" => NoneTagged(d)
  PROVE  CanRead(reader, d) /\ Reading(reader, d) = d
BY TextTripKeeps, BinaryTripKeeps, JsonTripKeeps, JsonTextTripKeeps DEF Readers

\* No step disturbs it.
LEMMA PortableInvStep == PortableInv /\ [Next]_vars => PortableInv'
<1> SUFFICES ASSUME PortableInv, [Next]_vars PROVE PortableInv'
  OBVIOUS
<1>1. CASE \E reader \in Readers, to \in Forms : Trip(reader, to)
  <2>1. PICK reader \in Readers, to \in Forms : Trip(reader, to)
    BY <1>1
  <2>2. /\ schema' = schema /\ original' = original /\ ways' = ways \cup {reader}
        /\ \/ file' = file /\ outcome' = "failed" /\ ~ CanRead(reader, file.doc)
           \/ /\ file' = [form |-> to, doc |-> Reading(reader, file.doc)]
              /\ outcome' = outcome /\ CanRead(reader, file.doc)
    BY <2>1, TripReads
  <2>3. file'.form \in Forms /\ original' \in Originals
    BY <2>2 DEF PortableInv
  <2>4. ASSUME schema' = NoSchema,
               \A node \in Nodes(original') : Portable(node),
               \A p \in DOMAIN original' : \A i \in DOMAIN p : p[i][2] \notin NotWords,
               "json_text" \in ways' => NoneTagged(original')
        PROVE  outcome' = "ok" /\ file'.doc = original'
    <3>1. outcome = "ok" /\ file.doc = original
      BY <2>2, <2>4 DEF PortableInv, PortableUnchanged
    <3>2. PortableDocument(original)
      BY <2>2, <2>4, StoredConstants DEF IsSxNode, PortableInv, PortableDocument, Nodes
    <3>3. reader = "json_text" => NoneTagged(original)
      BY <2>2, <2>4
    <3>4. CanRead(reader, file.doc) /\ Reading(reader, file.doc) = original
      BY <3>1, <3>2, <3>3, TripsKeep
    <3> QED
      BY <2>2, <3>1, <3>4
  <2> QED
    BY <2>3, <2>4 DEF PortableInv, PortableUnchanged
<1>2. CASE Upgrade
  <2>1. original' = original /\ file'.form = file.form
    BY <1>2 DEF Upgrade
  <2>2. schema' # NoSchema
    BY <1>2, UpgradeHasSchema
  <2> QED
    BY <2>1, <2>2 DEF PortableInv, PortableUnchanged
<1>3. CASE UNCHANGED vars
  BY <1>3 DEF vars, PortableInv, PortableUnchanged, Nodes, NoneTagged
<1> QED
  BY <1>1, <1>2, <1>3, Readings DEF PortableInv

\* However often a document of portable nodes is written as text, binary or JSON
\* and read back, in whatever order, every reading succeeds and gives the
\* document that was made.
THEOREM PortableAlwaysUnchanged == Spec => []PortableUnchanged
<1>1. PortableInv => PortableUnchanged
  BY DEF PortableInv
<1> QED
  BY <1>1, PortableInvBegins, PortableInvStep, PTL DEF Spec
-----------------------------------------------------------------------------
(***************************************************************************)
(* What JSON says of a document, whatever has become of its nodes.         *)
(***************************************************************************)
\* Documents whose nodes have the same JSON, and the same tags, have the same
\* JSON.
LEMMA SameNodesSameJson ==
  ASSUME NEW d, NEW e, DOMAIN e = DOMAIN d, DOMAIN d \subseteq Seq(Segment),
         \A p \in DOMAIN d :
           /\ JsonNode(e[p]) = JsonNode(d[p])
           /\ Variant(e[p]) \in Tagged <=> Variant(d[p]) \in Tagged
           /\ Variant(d[p]) \in Tagged => e[p] = d[p]
  PROVE  ToJson(e) = ToJson(d)
<1> DEFINE Value(f, p) == IF p \in DOMAIN f THEN JsonNode(f[p])
                          ELSE IF Last(p) = Key(TypeKey)
                          THEN <<"String", TagWord(Variant(f[Front(p)]))>>
                          ELSE Content(f[Front(p)])
<1>1. TaggedPaths(e) = TaggedPaths(d)
  BY DEF TaggedPaths
<1>2. Members(e) = Members(d)
  BY <1>1 DEF Members
<1>3. \A f : ToJson(f) = [p \in DOMAIN f \cup Members(f) |-> Value(f, p)]
  <2>1. \A f : Members(f) = {Append(p, Key(k)) : p \in {q \in DOMAIN f : Variant(f[q]) \in Tagged},
                                                 k \in {TypeKey, ValueKey}}
    BY DEF Members, TaggedPaths, Beside, TagKeys
  <2> QED
    BY <2>1 DEF ToJson
<1>4. ASSUME NEW p \in DOMAIN d \cup Members(d)
      PROVE  Value(e, p) = Value(d, p)
  <2>1. CASE p \in DOMAIN d
    BY <2>1
  <2>2. CASE p \notin DOMAIN d
    <3>1. PICK q \in TaggedPaths(d), k \in TagKeys : p = Beside(q, k)
      BY <2>2 DEF Members
    <3>2. q \in Seq(Segment) /\ Key(k) \in Segment
      BY TagKeysAreKeys DEF TaggedPaths
    <3>3. Front(p) = q
      <4> HIDE DEF Key, Segment
      <4> QED
        BY <3>1, <3>2 DEF Beside, Front
    <3>4. e[Front(p)] = d[Front(p)]
      BY <3>3 DEF TaggedPaths
    <3> QED
      BY <2>2, <3>4
  <2> QED
    BY <2>1, <2>2
<1> HIDE DEF Value
<1> QED
  BY <1>2, <1>3, <1>4

\* A binary file says the same of the nodes it has.
LEMMA BinaryKeepsJson ==
  ASSUME NEW node
  PROVE  /\ JsonNode(BinaryNode(node)) = JsonNode(node)
         /\ Variant(BinaryNode(node)) \in Tagged <=> Variant(node) \in Tagged
         /\ Variant(node) \in Tagged => BinaryNode(node) = node
<1>1. CASE Variant(node) \in Unsigned \cup Signed
  <2>1. \/ BinaryNode(node) = <<"U64", Held(node)>>
        \/ BinaryNode(node) = <<"I64", Held(node)>>
    BY <1>1 DEF BinaryNode, Unsigned, Signed, Floats, Plainly
  <2>2. /\ Variant(BinaryNode(node)) \in {"U64", "I64"}
        /\ Held(BinaryNode(node)) = Held(node)
    BY <2>1 DEF Variant, Held
  <2>3. /\ JsonNode(BinaryNode(node)) = <<"Integer", Held(node)>>
        /\ JsonNode(node) = <<"Integer", Held(node)>>
    BY <1>1, <2>2 DEF JsonNode, Unsigned, Signed, Floats, Plainly, Tagged, TaggedString,
       TaggedData
  <2> QED
    BY <1>1, <2>2, <2>3 DEF Tagged, TaggedString, TaggedData, Unsigned, Signed
<1>2. CASE Variant(node) \in Floats
  <2>1. BinaryNode(node) = <<"F64", Held(node)>>
    BY <1>2 DEF BinaryNode, Unsigned, Signed, Floats, Plainly
  <2>2. Variant(BinaryNode(node)) = "F64" /\ Held(BinaryNode(node)) = Held(node)
    BY <2>1 DEF Variant, Held
  <2>3. \A n : Variant(n) \in Floats =>
          JsonNode(n) = IF Held(n) = NaN THEN Null ELSE <<"Float", Held(n)>>
    BY DEF JsonNode, Unsigned, Signed, Floats, Plainly, Tagged, TaggedString, TaggedData
  <2> QED
    BY <1>2, <2>2, <2>3 DEF Tagged, TaggedString, TaggedData, Floats
<1>3. CASE Variant(node) \in Plainly
  <2>1. BinaryNode(node) = <<"String", Held(node)>>
    BY <1>3 DEF BinaryNode, Unsigned, Signed, Floats, Plainly
  <2>2. Variant(BinaryNode(node)) = "String" /\ Held(BinaryNode(node)) = Held(node)
    BY <2>1 DEF Variant, Held
  <2>3. \A n : Variant(n) \in Plainly => JsonNode(n) = <<"String", Held(n)>>
    BY DEF JsonNode, Unsigned, Signed, Floats, Plainly, Tagged, TaggedString, TaggedData
  <2> QED
    BY <1>3, <2>2, <2>3 DEF Tagged, TaggedString, TaggedData, Plainly
<1>4. CASE Variant(node) \notin Unsigned \cup Signed \cup Floats \cup Plainly
  BY <1>4 DEF BinaryNode, Unsigned, Signed, Floats, Plainly
<1> QED
  BY <1>1, <1>2, <1>3, <1>4

\* The variants of nodes in a file: those of SxValue, and the data beside the tag
\* of a node whose JSON has been read as text.
AllVariants == SxVariants \cup {"Data"}

\* What JSON has for a node that is not tagged.
LEMMA JsonOfLeaf ==
  ASSUME NEW node, Variant(node) \in AllVariants, Variant(node) \notin Tagged
  PROVE  LET n == JsonNode(node) IN
           \/ n = <<"Integer", Held(node)>>
           \/ n = <<"Float", Held(node)>> /\ Held(node) # NaN
           \/ n = <<"String", Held(node)>> /\ Variant(node) \in Plainly
           \/ Variant(n) \in {"Null", "Bool", "Array", "Object", "Data"}
<1>1. CASE Variant(node) \in Unsigned \cup Signed
  BY <1>1 DEF JsonNode, Unsigned, Signed, Floats, Plainly, Tagged, TaggedString, TaggedData
<1>2. CASE Variant(node) \in Floats
  <2>1. JsonNode(node) = IF Held(node) = NaN THEN Null ELSE <<"Float", Held(node)>>
    BY <1>2 DEF JsonNode, Unsigned, Signed, Floats, Plainly, Tagged, TaggedString,
       TaggedData
  <2> QED
    BY <2>1 DEF Null, Variant
<1>3. CASE Variant(node) \in Plainly
  BY <1>3 DEF JsonNode, Unsigned, Signed, Floats, Plainly, Tagged, TaggedString, TaggedData
<1>4. CASE Variant(node) \in {"Null", "Bool", "Array", "Object", "Data"}
  BY <1>4 DEF JsonNode, Unsigned, Signed, Floats, Plainly, Tagged, TaggedString, TaggedData
<1> QED
  BY <1>1, <1>2, <1>3, <1>4 DEF AllVariants, SxVariants

\* Reading such a node and writing it again changes nothing.
LEMMA LeafReadKeepsJson ==
  ASSUME NEW node, Variant(node) \in AllVariants, Variant(node) \notin Tagged
  PROVE  /\ JsonNode(LeafRead(JsonNode(node))) = JsonNode(node)
         /\ Variant(LeafRead(JsonNode(node))) \notin Tagged
<1> DEFINE n == JsonNode(node)
           h == Held(node)
<1>1. \/ n = <<"Integer", h>>
      \/ n = <<"Float", h>> /\ h # NaN
      \/ n = <<"String", h>>
      \/ Variant(n) \in {"Null", "Bool", "Array", "Object", "Data"}
  BY JsonOfLeaf
<1> HIDE DEF n, h
<1>2. CASE n = <<"Integer", h>>
  <2>1. LeafRead(n) = <<IF h \in I64 THEN "I64" ELSE "U64", h>>
    BY <1>2 DEF LeafRead, NumberRead, Variant, Held
  <2>2. Variant(LeafRead(n)) \in {"I64", "U64"} /\ Held(LeafRead(n)) = h
    BY <2>1 DEF Variant, Held
  <2> QED
    BY <1>2, <2>2 DEF n, JsonNode, Unsigned, Signed, Floats, Plainly, Tagged, TaggedString,
       TaggedData
<1>3. CASE n = <<"Float", h>> /\ h # NaN
  <2>1. LeafRead(n) = <<"F64", h>>
    BY <1>3 DEF LeafRead, Variant, Held
  <2>2. Variant(LeafRead(n)) = "F64" /\ Held(LeafRead(n)) = h
    BY <2>1 DEF Variant, Held
  <2> QED
    BY <1>3, <2>2 DEF n, JsonNode, Unsigned, Signed, Floats, Plainly, Tagged, TaggedString,
       TaggedData
<1>4. CASE n = <<"String", h>>
  <2>1. LeafRead(n) = n /\ Variant(n) = "String" /\ Held(n) = h
    BY <1>4 DEF LeafRead, Variant, Held
  <2> QED
    BY <1>4, <2>1 DEF n, JsonNode, Unsigned, Signed, Floats, Plainly, Tagged, TaggedString,
       TaggedData
<1>5. CASE Variant(n) \in {"Null", "Bool", "Array", "Object", "Data"}
  <2>1. LeafRead(n) = n
    BY <1>5 DEF LeafRead
  <2> QED
    BY <1>5, <2>1 DEF n, JsonNode, Unsigned, Signed, Floats, Plainly, Tagged, TaggedString,
       TaggedData
<1> QED
  BY <1>1, <1>2, <1>3, <1>4, <1>5 DEF n

\* The documents that say in JSON what they are.
Plain(d) ==
  /\ IsDocument(d) /\ NoLookalikes(d) /\ Finite(d)
  /\ \A p \in DOMAIN d : Variant(d[p]) \in AllVariants

\* json_to_sx changes nothing about the JSON of a document.
LEMMA JsonKeepsJson ==
  ASSUME NEW d, Plain(d)
  PROVE  CanRead("json", d) /\ ToJson(Reading("json", d)) = ToJson(d)
<1> DEFINE e == [p \in DOMAIN d |->
                   IF p \in TaggedPaths(d) THEN d[p] ELSE LeafRead(JsonNode(d[p]))]
<1>1. IsDocument(d) /\ Finite(d) /\ DOMAIN d \subseteq Seq(Segment)
  BY DEF Plain, IsDocument
<1>2. TaggedObjects(ToJson(d)) = TaggedPaths(d)
  BY <1>1, TaggedLookTagged DEF Plain, NoLookalikes, TaggedPaths
<1>3. CanRead("json", d) /\ Reading("json", d) = e
  BY <1>1, <1>2, JsonReading
<1>4. ASSUME NEW p \in DOMAIN d
      PROVE  /\ JsonNode(e[p]) = JsonNode(d[p])
             /\ Variant(e[p]) \in Tagged <=> Variant(d[p]) \in Tagged
             /\ Variant(d[p]) \in Tagged => e[p] = d[p]
  <2>1. CASE p \in TaggedPaths(d)
    BY <2>1
  <2>2. CASE p \notin TaggedPaths(d)
    <3>1. Variant(d[p]) \in AllVariants /\ Variant(d[p]) \notin Tagged
      BY <2>2 DEF TaggedPaths, Plain
    <3>2. e[p] = LeafRead(JsonNode(d[p]))
      BY <2>2
    <3> QED
      BY <3>1, <3>2, LeafReadKeepsJson
  <2> QED
    BY <2>1, <2>2
<1>5. DOMAIN e = DOMAIN d
  OBVIOUS
<1> HIDE DEF e
<1>6. ToJson(e) = ToJson(d)
  BY <1>1, <1>4, <1>5, SameNodesSameJson
<1> QED
  BY <1>3, <1>6

\* The parser of the text form reads the nodes of JSON as JSON has them, tags
\* and all.
LEMMA JsonTextKeepsJson ==
  ASSUME NEW d, IsDocument(d), AllAscii(d),
         \A p \in DOMAIN d : Variant(d[p]) \in AllVariants
  PROVE  ToJson(NodeWise(JsonTextNode, ToJson(d))) = ToJson(d)
<1> DEFINE j == ToJson(d)
           e == NodeWise(JsonTextNode, j)
<1>1. IsDocument(d) /\ DOMAIN d \subseteq Seq(Segment)
  BY DEF IsDocument
<1>2. /\ DOMAIN j = DOMAIN d \cup Members(d)
      /\ \A p \in DOMAIN d : j[p] = JsonNode(d[p])
      /\ \A p \in TaggedPaths(d) :
           /\ j[Beside(p, TypeKey)] = <<"String", TagWord(Variant(d[p]))>>
           /\ j[Beside(p, ValueKey)] = Content(d[p])
  BY <1>1, JsonOf
<1> HIDE DEF j
<1>3. ASSUME NEW p \in DOMAIN j
      PROVE  \/ j[p] = <<"Integer", Held(j[p])>>
             \/ j[p] = <<"Float", Held(j[p])>> /\ Held(j[p]) # NaN
             \/ j[p] = <<"String", Held(j[p])>> /\ IsAscii(Held(j[p]))
             \/ Variant(j[p]) \in {"Null", "Bool", "Array", "Object", "Data"}
  <2>1. ASSUME p \in DOMAIN d, p \notin TaggedPaths(d)
        PROVE  \/ j[p] = <<"Integer", Held(j[p])>>
               \/ j[p] = <<"Float", Held(j[p])>> /\ Held(j[p]) # NaN
               \/ j[p] = <<"String", Held(j[p])>> /\ IsAscii(Held(j[p]))
               \/ Variant(j[p]) \in {"Null", "Bool", "Array", "Object", "Data"}
    <3>1. Variant(d[p]) \in AllVariants /\ Variant(d[p]) \notin Tagged
      BY <2>1 DEF TaggedPaths
    <3>2. Variant(d[p]) \in Plainly => IsAscii(Held(d[p]))
      BY <2>1 DEF AllAscii, Nodes, Plainly, Quoted
    <3> QED
      BY <1>2, <2>1, <3>1, <3>2, JsonOfLeaf DEF Held
  <2>2. CASE p \in TaggedPaths(d)
    <3>1. j[p] = Object
      BY <1>2, <2>2 DEF TaggedPaths, JsonNode, Tagged, TaggedString, TaggedData, Unsigned,
         Signed, Floats, Plainly
    <3> QED
      BY <3>1 DEF Object, Variant
  <2>3. ASSUME NEW q \in TaggedPaths(d), p = Beside(q, TypeKey)
        PROVE  j[p] = <<"String", Held(j[p])>> /\ IsAscii(Held(j[p]))
    <3>1. TagWord(Variant(d[q])) \in 61..69
      BY TagsNameVariants DEF TaggedPaths, IsTagWord
    <3> QED
      BY <1>2, <2>3, <3>1, ConversionConstants DEF Held, IsAscii
  <2>4. ASSUME NEW q \in TaggedPaths(d), p = Beside(q, ValueKey)
        PROVE  \/ j[p] = <<"String", Held(j[p])>> /\ IsAscii(Held(j[p]))
               \/ Variant(j[p]) = "Data"
    <3>1. Variant(d[q]) \in TaggedString => IsAscii(Held(d[q]))
      BY DEF AllAscii, Nodes, TaggedPaths, TaggedString, Quoted
    <3>2. j[p] = Content(d[q])
      BY <1>2, <2>4
    <3>3. CASE Variant(d[q]) \in TaggedString
      <4>1. j[p] = <<"String", Held(d[q])>>
        BY <3>2, <3>3 DEF Content
      <4> QED
        BY <3>1, <3>3, <4>1 DEF Held
    <3>4. CASE Variant(d[q]) \notin TaggedString
      <4>1. j[p] = <<"Data", d[q]>>
        BY <3>2, <3>4 DEF Content
      <4> QED
        BY <4>1 DEF Variant
    <3> QED
      BY <3>3, <3>4
  <2> QED
    BY <1>2, <2>1, <2>2, <2>3, <2>4 DEF Members, TagKeys
<1>4. ASSUME NEW p \in DOMAIN j
      PROVE  /\ JsonNode(JsonTextNode(j[p])) = j[p]
             /\ Variant(JsonTextNode(j[p])) \notin Tagged
  <2> DEFINE n == j[p]
             m == JsonTextNode(n)
  <2> HIDE DEF n
  <2>1. CASE n = <<"Integer", Held(n)>>
    <3>1. m = <<"I64", Held(n)>>
      BY <2>1 DEF JsonTextNode, Variant
    <3>2. Variant(m) = "I64" /\ Held(m) = Held(n)
      BY <3>1 DEF Variant, Held
    <3> QED
      BY <2>1, <3>2 DEF n, JsonNode, Unsigned, Signed, Floats, Plainly, Tagged,
         TaggedString, TaggedData
  <2>2. CASE n = <<"Float", Held(n)>> /\ Held(n) # NaN
    <3>1. m = <<"F64", Held(n)>>
      BY <2>2 DEF JsonTextNode, Variant
    <3>2. Variant(m) = "F64" /\ Held(m) = Held(n)
      BY <3>1 DEF Variant, Held
    <3>3. JsonNode(m) = <<"Float", Held(n)>>
      BY <2>2, <3>2 DEF JsonNode, Unsigned, Signed, Floats, Plainly, Tagged,
         TaggedString, TaggedData
    <3> QED
      BY <2>2, <3>2, <3>3 DEF n, Tagged, TaggedString, TaggedData
  <2>3. CASE n = <<"String", Held(n)>> /\ IsAscii(Held(n))
    <3>1. Variant(n) = "String"
      BY <2>3 DEF Variant
    <3>2. TextNode(n) = <<"String", Held(n)>>
      BY <2>3, <3>1 DEF TextNode, Unsigned, Signed, Floats, Quoted, WholeFloat
    <3>3. m = n
      BY <2>3, <3>1, <3>2 DEF JsonTextNode
    <3>4. JsonNode(n) = <<"String", Held(n)>>
      BY <3>1 DEF JsonNode, Unsigned, Signed, Floats, Plainly, Tagged, TaggedString,
         TaggedData
    <3> QED
      BY <2>3, <3>1, <3>3, <3>4 DEF n, Tagged, TaggedString, TaggedData
  <2>4. CASE Variant(n) \in {"Null", "Bool", "Array", "Object", "Data"}
    <3>1. m = n
      BY <2>4 DEF JsonTextNode
    <3> QED
      BY <2>4, <3>1 DEF n, JsonNode, Unsigned, Signed, Floats, Plainly, Tagged,
         TaggedString, TaggedData
  <2> QED
    BY <1>3, <2>1, <2>2, <2>3, <2>4 DEF n
<1>5. DOMAIN e = DOMAIN j /\ \A p \in DOMAIN j : e[p] = JsonTextNode(j[p])
  BY DEF NodeWise
<1> HIDE DEF e
<1>6. {q \in DOMAIN e : Variant(e[q]) \in Tagged} = {}
  BY <1>4, <1>5
<1>7. ToJson(e) = [p \in DOMAIN j |-> j[p]]
  <2>1. \A p \in DOMAIN j : JsonNode(e[p]) = j[p]
    BY <1>4, <1>5
  <2>2. ToJson(e) = [p \in DOMAIN e |-> JsonNode(e[p])]
    <3> DEFINE members == {Append(p, Key(k)) :
                             p \in {q \in DOMAIN e : Variant(e[q]) \in Tagged},
                             k \in {TypeKey, ValueKey}}
           Value(p) == IF p \in DOMAIN e THEN JsonNode(e[p])
                       ELSE IF Last(p) = Key(TypeKey)
                       THEN <<"String", TagWord(Variant(e[Front(p)]))>>
                       ELSE Content(e[Front(p)])
    <3>1. ToJson(e) = [p \in DOMAIN e \cup members |-> Value(p)]
      BY DEF ToJson
    <3>2. members = {}
      BY <1>6
    <3>3. \A p \in DOMAIN e : Value(p) = JsonNode(e[p])
      OBVIOUS
    <3> HIDE DEF members, Value
    <3>4. ToJson(e) = [p \in DOMAIN e |-> Value(p)]
      BY <3>1, <3>2
    <3> QED
      BY <3>3, <3>4
  <2> QED
    BY <1>5, <2>1, <2>2
<1> QED
  BY <1>7, JsonIsFunction DEF e, j

\* What the file says in JSON is what the document said at first.
JsonInv ==
  /\ original \in Originals /\ file.form \in Forms
  /\ JsonViewKept

\* The JSON is the same at the start.
LEMMA JsonInvBegins == Init => JsonInv
BY DEF Init, JsonInv, JsonViewKept

\* No step disturbs it.
LEMMA JsonInvStep == JsonInv /\ [Next]_vars => JsonInv'
<1> SUFFICES ASSUME JsonInv, [Next]_vars PROVE JsonInv'
  OBVIOUS
<1>1. CASE \E reader \in Readers, to \in Forms : Trip(reader, to)
  <2>1. PICK reader \in Readers, to \in Forms : Trip(reader, to)
    BY <1>1
  <2>2. /\ schema' = schema /\ original' = original /\ ways' = ways \cup {reader}
        /\ \/ file' = file
           \/ /\ file' = [form |-> to, doc |-> Reading(reader, file.doc)]
    BY <2>1, TripReads
  <2>3. file'.form \in Forms /\ original' \in Originals
    BY <2>2 DEF JsonInv
  <2>4. ASSUME schema' = NoSchema, "text" \notin ways', NoLookalikes(original'),
               Finite(original'), "json_text" \in ways' => AllAscii(original')
        PROVE  ToJson(file'.doc) = ToJson(original')
    <3>1. ToJson(file.doc) = ToJson(original)
      BY <2>2, <2>4 DEF JsonInv, JsonViewKept
    <3>2. Plain(original)
      BY <2>2, <2>4, StoredConstants DEF IsSxNode, JsonInv, Plain, AllVariants
    <3>3. CASE reader = "binary"
      <4> DEFINE d == file.doc
                 e == NodeWise(BinaryNode, d)
      <4>1. DOMAIN d \subseteq DOMAIN ToJson(original)
        BY <3>1 DEF ToJson
      <4>2. DOMAIN ToJson(original) \subseteq Seq(Segment)
        BY <3>2, JsonPaths DEF Plain
      <4>3. DOMAIN e = DOMAIN d /\ \A p \in DOMAIN d : e[p] = BinaryNode(d[p])
        BY DEF NodeWise
      <4> HIDE DEF d, e
      <4>4. ToJson(e) = ToJson(d)
        BY <4>1, <4>2, <4>3, BinaryKeepsJson, SameNodesSameJson
      <4> QED
        BY <2>2, <3>1, <3>3, <4>4, BinaryReading DEF d, e
    <3>4. CASE reader = "json"
      <4>1. Reading(reader, file.doc) = Reading(reader, original)
        BY <3>1, <3>4 DEF Reading
      <4> QED
        BY <2>2, <3>1, <3>2, <3>4, <4>1, JsonKeepsJson
    <3>5. CASE reader = "json_text"
      <4>1. Reading(reader, file.doc) = NodeWise(JsonTextNode, ToJson(original))
        BY <3>1, <3>5 DEF Reading
      <4> QED
        BY <2>2, <2>4, <3>1, <3>2, <3>5, <4>1, JsonTextKeepsJson DEF Plain
    <3> QED
      BY <2>2, <2>4, <3>3, <3>4, <3>5 DEF Readers
  <2> QED
    BY <2>3, <2>4 DEF JsonInv, JsonViewKept
<1>2. CASE Upgrade
  <2>1. original' = original /\ file'.form = file.form
    BY <1>2 DEF Upgrade
  <2>2. schema' # NoSchema
    BY <1>2, UpgradeHasSchema
  <2> QED
    BY <2>1, <2>2 DEF JsonInv, JsonViewKept
<1>3. CASE UNCHANGED vars
  BY <1>3 DEF vars, JsonInv, JsonViewKept
<1> QED
  BY <1>1, <1>2, <1>3, Readings DEF JsonInv

\* However often a document that says in JSON what it is goes through binary and
\* JSON files, its JSON stays the same, whatever variants and tags its nodes have
\* lost on the way.
THEOREM JsonViewAlwaysKept == Spec => []JsonViewKept
<1>1. JsonInv => JsonViewKept
  BY DEF JsonInv
<1> QED
  BY <1>1, JsonInvBegins, JsonInvStep, PTL DEF Spec
-----------------------------------------------------------------------------
(***************************************************************************)
(* Decimals: the normal form of a number, and when two are the same.       *)
(***************************************************************************)
\* u and k are s and m without the zeros at the end.
IsNormal(s, m, u, k) ==
  /\ u \in Int /\ k \in Nat /\ k <= m
  /\ s = u * PowerOfTen[m - k]
  /\ k = 0 \/ \A v \in Int : u # 10 * v

\* normalize_decimal comes to a normal form of its number.
LEMMA NormalForm ==
  ASSUME NEW s \in Int, NEW m \in Nat
  PROVE  \E u, k : normalize_decimal(s, m) = <<u, k>> /\ IsNormal(s, m, u, k)
<1> DEFINE Cuts(z) == /\ s % PowerOfTen[z] = 0
                      /\ \A more \in (z + 1)..m : s % PowerOfTen[more] # 0
           z == CHOOSE x \in 0..m : Cuts(x)
<1>1. \E x \in 0..m : Cuts(x)
  <2> DEFINE T == {y \in Nat : y <= m /\ s % PowerOfTen[m - y] = 0}
  <2>1. m \in T
    <3>1. s % 1 = 0
      OBVIOUS
    <3> QED
      BY <3>1, Powers
  <2>2. PICK y \in T : \A x \in T : y <= x
    BY <2>1, LeastNumber
  <2>3. ASSUME NEW more \in ((m - y) + 1)..m PROVE s % PowerOfTen[more] # 0
    <3>1. m - more \in Nat /\ m - more < y /\ m - (m - more) = more
      BY <2>2
    <3> QED
      BY <2>2, <3>1
  <2>4. m - y \in 0..m
    BY <2>2
  <2> QED
    BY <2>2, <2>3, <2>4
<1>2. z \in 0..m /\ Cuts(z)
  BY <1>1
<1>3. normalize_decimal(s, m) = <<s \div PowerOfTen[z], m - z>>
  BY DEF normalize_decimal
<1> HIDE DEF z
<1> DEFINE u == s \div PowerOfTen[z]
<1>4. z \in Nat /\ PowerOfTen[z] \in Nat \ {0} /\ m - z \in Nat /\ m - (m - z) = z
  BY <1>2, Powers
<1>5. u \in Int /\ s = u * PowerOfTen[z]
  BY <1>2, <1>4, DivMod
<1>6. ASSUME m - z # 0, NEW v \in Int, u = 10 * v PROVE FALSE
  <2>1. z + 1 \in (z + 1)..m /\ z + 1 \in Nat
    BY <1>2, <1>6
  <2>2. PowerOfTen[z + 1] = 10 * PowerOfTen[z] /\ PowerOfTen[z + 1] \in Nat \ {0}
    BY <1>4, <2>1, Powers
  <2>3. s = v * PowerOfTen[z + 1]
    <3> DEFINE p == PowerOfTen[z]
    <3>1. p \in Nat /\ s = u * p
      BY <1>4, <1>5
    <3> HIDE DEF p, u
    <3>2. s = (10 * v) * p
      BY <1>6, <3>1
    <3>3. s = v * (10 * p)
      BY <3>1, <3>2
    <3> QED
      BY <2>2, <3>3 DEF p
  <2>4. s % PowerOfTen[z + 1] = 0
    BY <2>2, <2>3, DivMod
  <2> QED
    BY <1>2, <2>1, <2>4
<1> HIDE DEF u
<1>7. IsNormal(s, m, u, m - z)
  BY <1>4, <1>5, <1>6 DEF IsNormal
<1> QED
  BY <1>3, <1>7 DEF u

\* A factor that is not zero may be cancelled.
LEMMA Cancel ==
  ASSUME NEW a \in Int, NEW b \in Int, NEW q \in Nat \ {0}, a * q = b * q
  PROVE  a = b
<1>1. (a - b) * q = 0
  OBVIOUS
<1> QED
  BY <1>1

\* Multiplied out, there is no difference between the two sides.
LEMMA SameMultiplied ==
  ASSUME NEW s \in Int, NEW m \in Nat, NEW t \in Int, NEW n \in Nat
  PROVE  SameNumber(s, m, t, n) <=> s * PowerOfTen[n] = t * PowerOfTen[m]
<1>1. CASE m <= n
  <2> DEFINE p == PowerOfTen[m]
             q == PowerOfTen[n - m]
  <2>1. p \in Nat \ {0} /\ q \in Nat \ {0} /\ PowerOfTen[n] = q * p
    <3>1. n - m \in Nat /\ (n - m) + m = n
      BY <1>1
    <3> QED
      BY <3>1, Powers, PowersAdd
  <2>2. SameNumber(s, m, t, n) <=> s * q = t
    BY <1>1 DEF SameNumber
  <2> HIDE DEF p, q
  <2>3. s * (q * p) = (s * q) * p /\ s * q \in Int
    BY <2>1
  <2>4. (s * q) * p = t * p => s * q = t
    BY <2>1, <2>3, Cancel
  <2> QED
    BY <2>1, <2>2, <2>3, <2>4 DEF p
<1>2. CASE ~ (m <= n)
  <2> DEFINE p == PowerOfTen[n]
             q == PowerOfTen[m - n]
  <2>1. p \in Nat \ {0} /\ q \in Nat \ {0} /\ PowerOfTen[m] = q * p
    <3>1. m - n \in Nat /\ (m - n) + n = m
      BY <1>2
    <3> QED
      BY <3>1, Powers, PowersAdd
  <2>2. SameNumber(s, m, t, n) <=> s = t * q
    BY <1>2 DEF SameNumber
  <2> HIDE DEF p, q
  <2>3. t * (q * p) = (t * q) * p /\ t * q \in Int
    BY <2>1
  <2>4. s * p = (t * q) * p => s = t * q
    BY <2>1, <2>3, Cancel
  <2> QED
    BY <2>1, <2>2, <2>3, <2>4 DEF p
<1> QED
  BY <1>1, <1>2

\* Of two normal forms of one number neither has more places than the other.
LEMMA NoMorePlaces ==
  ASSUME NEW u \in Int, NEW k \in Nat, NEW v \in Int, NEW l \in Nat, k < l,
         u * PowerOfTen[l] = v * PowerOfTen[k]
  PROVE  \E w \in Int : v = 10 * w
<1> DEFINE p == PowerOfTen[k]
           q == PowerOfTen[(l - k) - 1]
<1>1. p \in Nat \ {0} /\ q \in Nat \ {0} /\ PowerOfTen[l] = (10 * q) * p
  <2>1. l - k \in Nat /\ (l - k) - 1 \in Nat /\ (l - k) + k = l
    OBVIOUS
  <2>2. ((l - k) - 1) + 1 = l - k
    BY <2>1
  <2>3. PowerOfTen[l] = PowerOfTen[l - k] * PowerOfTen[k]
    BY <2>1, PowersAdd
  <2>4. PowerOfTen[l - k] = 10 * q
    BY <2>1, <2>2, Powers
  <2>5. p \in Nat \ {0} /\ q \in Nat \ {0}
    BY <2>1, Powers
  <2> QED
    BY <2>3, <2>4, <2>5
<1>2. u * ((10 * q) * p) = v * p
  BY <1>1
<1> HIDE DEF p, q
<1>3. u * ((10 * q) * p) = (10 * (u * q)) * p /\ u * q \in Int
  BY <1>1
<1>4. v = 10 * (u * q)
  BY <1>1, <1>2, <1>3, Cancel
<1> QED
  BY <1>3, <1>4

\* Two numbers are the same exactly if they have the same normal form.
LEMMA SameNormalForm ==
  ASSUME NEW s \in Int, NEW m \in Nat, NEW t \in Int, NEW n \in Nat
  PROVE  SameNumber(s, m, t, n) <=> normalize_decimal(s, m) = normalize_decimal(t, n)
<1>1. PICK u, k : normalize_decimal(s, m) = <<u, k>> /\ IsNormal(s, m, u, k)
  BY NormalForm
<1>2. PICK v, l : normalize_decimal(t, n) = <<v, l>> /\ IsNormal(t, n, v, l)
  BY NormalForm
<1>3. /\ u \in Int /\ k \in Nat /\ k <= m /\ v \in Int /\ l \in Nat /\ l <= n
      /\ m - k \in Nat /\ n - l \in Nat
  BY <1>1, <1>2 DEF IsNormal
<1> DEFINE a == PowerOfTen[m - k]
           b == PowerOfTen[n - l]
           c == PowerOfTen[k]
           d == PowerOfTen[l]
<1>4. /\ a \in Nat \ {0} /\ b \in Nat \ {0} /\ c \in Nat \ {0} /\ d \in Nat \ {0}
      /\ PowerOfTen[m] = a * c /\ PowerOfTen[n] = b * d /\ s = u * a /\ t = v * b
  <2>1. (m - k) + k = m /\ (n - l) + l = n
    BY <1>3
  <2> QED
    BY <1>1, <1>2, <1>3, <2>1, Powers, PowersAdd DEF IsNormal
<1>5. SameNumber(s, m, t, n) <=> s * (b * d) = t * (a * c)
  <2>1. SameNumber(s, m, t, n) <=> s * PowerOfTen[n] = t * PowerOfTen[m]
    BY SameMultiplied
  <2> HIDE DEF a, b, c, d
  <2> QED
    BY <1>4, <2>1
<1>6. SameNumber(s, m, t, n) <=> u * d = v * c
  <2> HIDE DEF a, b, c, d
  <2>1. s * (b * d) = (u * d) * (a * b) /\ t * (a * c) = (v * c) * (a * b)
    BY <1>3, <1>4
  <2>2. u * d \in Int /\ v * c \in Int /\ a * b \in Nat \ {0}
    BY <1>3, <1>4
  <2>3. (u * d) * (a * b) = (v * c) * (a * b) <=> u * d = v * c
    BY <2>2, Cancel
  <2> QED
    BY <1>5, <2>1, <2>3
<1>7. ASSUME u * d = v * c PROVE u = v /\ k = l
  <2>1. ~ (k < l)
    <3> SUFFICES ASSUME k < l PROVE FALSE
      OBVIOUS
    <3>1. \E w \in Int : v = 10 * w
      BY <1>3, <1>7, NoMorePlaces
    <3> QED
      BY <1>2, <1>3, <3>1 DEF IsNormal
  <2>2. ~ (l < k)
    <3> SUFFICES ASSUME l < k PROVE FALSE
      OBVIOUS
    <3>1. \E w \in Int : u = 10 * w
      BY <1>3, <1>7, NoMorePlaces
    <3> QED
      BY <1>1, <1>3, <3>1 DEF IsNormal
  <2>3. k = l
    BY <1>3, <2>1, <2>2
  <2> QED
    BY <1>3, <1>4, <1>7, <2>3, Cancel
<1> QED
  BY <1>1, <1>2, <1>6, <1>7
-----------------------------------------------------------------------------
(***************************************************************************)
(* What has the same logical hash, and what means the same.                *)
(***************************************************************************)
\* The nodes a file may hold: what SxValue has, and the data beside the tag of a node
\* whose JSON has been read as text.
IsData(node) == /\ Variant(node) = "Data" /\ node = <<"Data", Held(node)>>
                /\ IsSxNode(Held(node)) /\ Variant(Held(node)) \in TaggedData

KeptNode(node) == IsSxNode(node) \/ IsData(node)

\* The first half of a canonical form.
FormName(node) ==
  CASE Variant(node) \in Unsigned -> "u"
    [] Variant(node) \in Signed -> "i"
    [] Variant(node) \in Floats -> "f"
    [] OTHER -> Variant(node)

\* The canonical form of a node, variant by variant.
LEMMA CanonicalForms ==
  ASSUME NEW node, KeptNode(node)
  PROVE  /\ CanonicalNode(node) = <<FormName(node), CanonicalNode(node)[2]>>
         /\ FormName(node) # "ValidationError"
         /\ \/ FormName(node) \in {"u", "i"} /\ CanonicalNode(node)[2] = Held(node)
            \/ /\ FormName(node) = "f"
               /\ CanonicalNode(node)[2] = normalize_float(Held(node))
            \/ /\ FormName(node) = "Decimal" /\ Held(node) \in Int \X Nat
               /\ CanonicalNode(node)[2] = normalize_decimal(Held(node)[1], Held(node)[2])
            \/ /\ FormName(node) = "Money" /\ Held(node) \in Int \X Int \X Nat
               /\ CanonicalNode(node)[2] =
                    <<Held(node)[1], normalize_decimal(Held(node)[2], Held(node)[3])>>
            \/ FormName(node) \in {"Timestamp", "Email"}
                 /\ CanonicalNode(node)[2] = Folded(Held(node))
            \/ /\ FormName(node) \notin {"u", "i", "f", "Decimal", "Money", "Timestamp", "Email"}
               /\ CanonicalNode(node) = node
<1>1. /\ node = <<Variant(node), Held(node)>> /\ Variant(node) \in SxVariants \cup {"Data"}
      /\ Variant(node) = "Decimal" => Held(node) \in Int \X Nat
      /\ Variant(node) = "Money" => Held(node) \in Int \X Int \X Nat
  BY DEF KeptNode, IsData, IsSxNode, IsNode
<1>2. CASE Variant(node) \in Unsigned \cup Signed \cup Floats
  <2>0. Variant(node) \notin {"Decimal", "Money", "Timestamp", "Email"}
    BY <1>2 DEF Unsigned, Signed, Floats
  <2>1. CanonicalNode(node) = NumberForm(node)
    BY <1>2, <2>0 DEF CanonicalNode
  <2>2. CASE Variant(node) \in Unsigned
    BY <2>1, <2>2, Disjoint DEF NumberForm, FormName
  <2>3. CASE Variant(node) \in Signed
    <3>1. Variant(node) \notin Unsigned
      BY <2>3, Disjoint
    <3> QED
      BY <2>1, <2>3, <3>1 DEF NumberForm, FormName
  <2>4. CASE Variant(node) \in Floats
    <3>1. Variant(node) \notin Unsigned \cup Signed
      BY <2>4, Disjoint
    <3> QED
      BY <2>1, <2>4, <3>1 DEF NumberForm, FormName
  <2> QED
    BY <1>2, <2>2, <2>3, <2>4
<1>3. CASE Variant(node) = "Decimal"
  <2>1. /\ CanonicalNode(node) =
             <<"Decimal", normalize_decimal(Held(node)[1], Held(node)[2])>>
        /\ FormName(node) = "Decimal"
    BY <1>3 DEF CanonicalNode, FormName, Unsigned, Signed, Floats
  <2> QED
    BY <1>1, <1>3, <2>1
<1>4. CASE Variant(node) = "Money"
  <2>1. /\ CanonicalNode(node) =
             <<"Money", <<Held(node)[1], normalize_decimal(Held(node)[2], Held(node)[3])>>>>
        /\ FormName(node) = "Money"
    BY <1>4 DEF CanonicalNode, FormName, Unsigned, Signed, Floats
  <2> QED
    BY <1>1, <1>4, <2>1
<1>5. CASE Variant(node) \in {"Timestamp", "Email"}
  <2>1. /\ CanonicalNode(node) = <<Variant(node), Folded(Held(node))>>
        /\ FormName(node) = Variant(node)
    BY <1>5 DEF CanonicalNode, FormName, Unsigned, Signed, Floats
  <2> QED
    BY <1>5, <2>1
<1>6. CASE Variant(node) \notin Unsigned \cup Signed \cup Floats
                                  \cup {"Decimal", "Money", "Timestamp", "Email"}
  <2>1. CanonicalNode(node) = node /\ FormName(node) = Variant(node)
    BY <1>6 DEF CanonicalNode, FormName
  <2>2. /\ FormName(node) \notin {"u", "i", "f", "Decimal", "Money", "Timestamp", "Email"}
        /\ FormName(node) # "ValidationError"
    BY <1>1, <1>6, <2>1 DEF SxVariants, Unsigned, Signed, Floats, Plainly, Tagged,
       TaggedString, TaggedData
  <2> QED
    BY <1>1, <2>1, <2>2
<1> QED
  BY <1>2, <1>3, <1>4, <1>5, <1>6

\* Two nodes have the same form exactly if they mean the same.
LEMMA SameFormSameMeaning ==
  ASSUME NEW a, NEW b, KeptNode(a), KeptNode(b)
  PROVE  CanonicalNode(a) = CanonicalNode(b) <=> SameMeaning(a, b)
<1> DEFINE f == FormName(a)
           x == CanonicalNode(a)[2]
           y == CanonicalNode(b)[2]
<1>1. CanonicalNode(a) = CanonicalNode(b) <=> f = FormName(b) /\ x = y
  BY CanonicalForms
<1>2. ASSUME NEW node
      PROVE  /\ FormName(node) = "u" => Variant(node) \in Unsigned \/ Variant(node) = "u"
             /\ FormName(node) = "i" => Variant(node) \in Signed \/ Variant(node) = "i"
             /\ FormName(node) = "f" => Variant(node) \in Floats \/ Variant(node) = "f"
             /\ Variant(node) \in Unsigned => FormName(node) = "u"
             /\ Variant(node) \in Signed => FormName(node) = "i"
             /\ Variant(node) \in Floats => FormName(node) = "f"
             /\ FormName(node) \notin {"u", "i", "f"} => FormName(node) = Variant(node)
             /\ Variant(node) \in {"Decimal", "Money", "Timestamp", "Email"} =>
                  FormName(node) = Variant(node)
  BY Disjoint DEF FormName, Unsigned, Signed, Floats
<1>3. ASSUME NEW node, KeptNode(node) PROVE Variant(node) \notin {"u", "i", "f"}
  BY <1>3 DEF KeptNode, IsSxNode, IsData, SxVariants, Unsigned, Signed, Floats, Plainly,
     Tagged, TaggedString, TaggedData
<1>4. CASE f # FormName(b)
  <2>1. a # b
    BY <1>4
  <2>2. ~ SameMeaning(a, b)
    BY <1>2, <1>4, <2>1 DEF SameMeaning
  <2> QED
    BY <1>1, <1>4, <2>2
<1>5. CASE f = FormName(b) /\ f \in {"u", "i"}
  <2>1. x = Held(a) /\ y = Held(b)
    BY <1>5, CanonicalForms
  <2>2. SameMeaning(a, b) <=> Held(a) = Held(b)
    BY <1>2, <1>3, <1>5 DEF SameMeaning
  <2> QED
    BY <1>1, <1>5, <2>1, <2>2
<1>10. CASE f = FormName(b) /\ f = "f"
  <2>1. x = normalize_float(Held(a)) /\ y = normalize_float(Held(b))
    BY <1>10, CanonicalForms
  <2>2. SameMeaning(a, b) <=> normalize_float(Held(a)) = normalize_float(Held(b))
    BY <1>2, <1>3, <1>10, Disjoint DEF SameMeaning
  <2> QED
    BY <1>1, <1>10, <2>1, <2>2
<1>6. CASE f = FormName(b) /\ f = "Decimal"
  <2>1. /\ x = normalize_decimal(Held(a)[1], Held(a)[2]) /\ Held(a) \in Int \X Nat
        /\ y = normalize_decimal(Held(b)[1], Held(b)[2]) /\ Held(b) \in Int \X Nat
    BY <1>6, CanonicalForms
  <2>2. SameMeaning(a, b) <=> SameNumber(Held(a)[1], Held(a)[2], Held(b)[1], Held(b)[2])
    BY <1>2, <1>6 DEF SameMeaning
  <2>3. SameNumber(Held(a)[1], Held(a)[2], Held(b)[1], Held(b)[2]) <=> x = y
    BY <2>1, SameNormalForm
  <2> QED
    BY <1>1, <1>6, <2>2, <2>3
<1>7. CASE f = FormName(b) /\ f = "Money"
  <2>1. /\ x = <<Held(a)[1], normalize_decimal(Held(a)[2], Held(a)[3])>>
        /\ y = <<Held(b)[1], normalize_decimal(Held(b)[2], Held(b)[3])>>
        /\ Held(a) \in Int \X Int \X Nat /\ Held(b) \in Int \X Int \X Nat
    BY <1>7, CanonicalForms
  <2>2. SameMeaning(a, b) <=> /\ Held(a)[1] = Held(b)[1]
                              /\ SameNumber(Held(a)[2], Held(a)[3], Held(b)[2], Held(b)[3])
    BY <1>2, <1>7 DEF SameMeaning
  <2>3. SameNumber(Held(a)[2], Held(a)[3], Held(b)[2], Held(b)[3]) <=>
          normalize_decimal(Held(a)[2], Held(a)[3]) = normalize_decimal(Held(b)[2], Held(b)[3])
    BY <2>1, SameNormalForm
  <2>4. x = y <=> /\ Held(a)[1] = Held(b)[1]
                  /\ normalize_decimal(Held(a)[2], Held(a)[3]) =
                       normalize_decimal(Held(b)[2], Held(b)[3])
    BY <2>1
  <2> QED
    BY <1>1, <1>7, <2>2, <2>3, <2>4
<1>8. CASE f = FormName(b) /\ f \in {"Timestamp", "Email"}
  <2>1. x = Folded(Held(a)) /\ y = Folded(Held(b))
    BY <1>8, CanonicalForms
  <2>2. SameMeaning(a, b) <=> Folded(Held(a)) = Folded(Held(b))
    BY <1>2, <1>8 DEF SameMeaning
  <2> QED
    BY <1>1, <1>8, <2>1, <2>2
<1>9. CASE /\ f = FormName(b)
           /\ f \notin {"u", "i", "f", "Decimal", "Money", "Timestamp", "Email"}
  <2>1. CanonicalNode(a) = a /\ CanonicalNode(b) = b
    BY <1>9, CanonicalForms
  <2>2. SameMeaning(a, b) <=> a = b
    BY <1>2, <1>9 DEF SameMeaning
  <2> QED
    BY <2>1, <2>2
<1> QED
  BY <1>4, <1>5, <1>6, <1>7, <1>8, <1>9, <1>10

\* The same with logical_hash, which refuses what is no timestamp.
LEMMA SameHashes ==
  ASSUME NEW a, NEW b, KeptNode(a), KeptNode(b)
  PROVE  logically_equal(Leaf(a), Leaf(b)) <=>
           /\ canonicalize(Leaf(a)) # Leaf(NoForm) /\ canonicalize(Leaf(b)) # Leaf(NoForm)
           /\ SameMeaning(a, b)
<1> DEFINE Bad(n) == Variant(n) = "Timestamp" /\ (Held(n) = Blank \/ ~ IsAscii(Held(n)))
<1>1. \A n : DOMAIN Leaf(n) = {Root} /\ Leaf(n)[Root] = n
  BY DEF Leaf
<1>2. \A n : canonicalize(Leaf(n)) = IF Bad(n) THEN Leaf(NoForm) ELSE Leaf(CanonicalNode(n))
  <2> TAKE n
  <2>1. NodeWise(CanonicalNode, Leaf(n)) = Leaf(CanonicalNode(n))
    BY <1>1 DEF NodeWise, Leaf
  <2> QED
    BY <1>1, <2>1 DEF canonicalize
<1> HIDE DEF Bad
<1>3. \A m, n : Leaf(m) = Leaf(n) <=> m = n
  BY <1>1
<1>4. \A n : KeptNode(n) => CanonicalNode(n) # NoForm
  <2> TAKE n
  <2>1. KeptNode(n) => CanonicalNode(n)[1] # "ValidationError"
    BY CanonicalForms
  <2> QED
    BY <2>1 DEF NoForm
<1> QED
  BY <1>2, <1>3, <1>4, SameFormSameMeaning DEF logically_equal

-----------------------------------------------------------------------------
(***************************************************************************)
(* The nodes of the file stay nodes it may hold, whatever reads them.      *)
(***************************************************************************)
\* Nodes there are, whatever they hold.
LEMMA SxNodes ==
  ASSUME NEW h
  PROVE  /\ h \in I64 => IsSxNode(<<"I64", h>>)
         /\ h \in U64 => IsSxNode(<<"U64", h>>)
         /\ \A v \in {"F64", "TypedArray"} \cup Plainly \cup TaggedString : IsSxNode(<<v, h>>)
         /\ h \in Int \X Nat => IsSxNode(<<"Decimal", h>>)
         /\ IsSxNode(Null) /\ IsSxNode(Object)
<1>1. \A v : Variant(<<v, h>>) = v /\ Held(<<v, h>>) = h
  BY DEF Variant, Held
<1>2. /\ h \in I64 => IsSxNode(<<"I64", h>>)
      /\ h \in U64 => IsSxNode(<<"U64", h>>)
      /\ h \in Int \X Nat => IsSxNode(<<"Decimal", h>>)
  BY <1>1 DEF IsSxNode, IsNode, SxVariants, Signed, Unsigned, Tagged, TaggedData
<1>3. ASSUME NEW v \in {"F64", "TypedArray"} \cup Plainly \cup TaggedString
      PROVE  IsSxNode(<<v, h>>)
  <2>1. v \in SxVariants /\ v \notin {"Decimal", "Money", "F32"}
    BY DEF SxVariants, Floats, Tagged, TaggedData, TaggedString, Plainly
  <2>2. v \notin {"I8", "I16", "I32", "I64", "U8", "U16", "U32", "U64", "Array", "Object"}
    BY DEF Plainly, TaggedString
  <2> QED
    BY <1>1, <2>1, <2>2 DEF IsSxNode, IsNode
<1>4. IsSxNode(Null) /\ IsSxNode(Object)
  BY DEF IsSxNode, IsNode, SxVariants, Null, Object, Variant, Held
<1> QED
  BY <1>2, <1>3, <1>4

\* A node read from text.
LEMMA TextKept ==
  ASSUME NEW node, KeptNode(node),
         Variant(node) \in Unsigned \/ WholeFloat(node) => Held(node) \in I64
  PROVE  KeptNode(TextNode(node))
<1> DEFINE v == Variant(node)
           h == Held(node)
<1>1. IsSxNode(node) \/ v = "Data"
  BY DEF KeptNode, IsData
<1>2. CASE v \in Unsigned \cup Signed \/ WholeFloat(node)
  <2>1. TextNode(node) = <<"I64", h>>
    <3>1. v \in Unsigned \cup Signed \cup Floats
      BY <1>2 DEF WholeFloat
    <3>2. v \notin Quoted \cup {"Decimal"}
      BY <3>1 DEF Unsigned, Signed, Floats, Quoted
    <3>3. ~ (v \in Floats /\ h = NaN) /\ ~ (v = "F32" /\ h \in Fractions)
      BY <1>2 DEF WholeFloat, Unsigned, Signed, Floats
    <3> QED
      BY <1>2, <3>2, <3>3 DEF TextNode
  <2>2. h \in I64
    <3>1. v \in Signed => IsNode(node)
      BY <1>1 DEF Signed, IsSxNode
    <3> QED
      BY <1>2, <3>1 DEF IsNode, Signed
  <2> QED
    BY <2>1, <2>2, SxNodes DEF KeptNode
<1>3. CASE v \in Floats /\ h = NaN
  <2>1. TextNode(node) = <<"String", NaNWord>>
    BY <1>3, TextConstants DEF TextNode, WholeFloat, Floats, Unsigned, Signed, Quoted
  <2> QED
    BY <2>1, SxNodes DEF KeptNode, Plainly
<1>4. CASE v = "F32" /\ h \in Fractions
  <2>1. TextNode(node) = <<"F64", Short(h)>>
    BY <1>4, TextConstants DEF TextNode, WholeFloat, Floats, Unsigned, Signed, Quoted
  <2> QED
    BY <2>1, SxNodes DEF KeptNode
<1>5. CASE v \in Quoted
  <2>1. TextNode(node) =
          <<IF v = "Enum" THEN "String" ELSE v, IF IsAscii(h) THEN h ELSE Garbled(h)>>
    <3>1. v \notin Unsigned \cup Signed \cup Floats \cup {"Decimal", "F32"} /\ ~ WholeFloat(node)
      BY <1>5 DEF WholeFloat, Floats, Unsigned, Signed, Quoted
    <3> QED
      BY <1>5, <3>1 DEF TextNode
  <2>2. (IF v = "Enum" THEN "String" ELSE v) \in Plainly \cup TaggedString
    BY <1>5 DEF Quoted, Plainly, TaggedString
  <2> QED
    BY <2>1, <2>2, SxNodes DEF KeptNode
<1>6. CASE v = "Decimal"
  <2>1. TextNode(node) = <<"Decimal", <<h[1] * PowerOfTen[h[2]], h[2]>>>>
    <3>1. v \notin Unsigned \cup Signed \cup Floats \cup Quoted \cup {"F32"} /\ ~ WholeFloat(node)
      BY <1>6 DEF WholeFloat, Floats, Unsigned, Signed, Quoted
    <3> QED
      BY <1>6, <3>1 DEF TextNode
  <2>2. h \in Int \X Nat
    BY <1>1, <1>6 DEF IsSxNode
  <2>3. h[1] \in Int /\ h[2] \in Nat /\ PowerOfTen[h[2]] \in Nat
    BY <2>2, Powers
  <2>4. <<h[1] * PowerOfTen[h[2]], h[2]>> \in Int \X Nat
    BY <2>3
  <2> HIDE DEF h
  <2> QED
    BY <2>1, <2>4, SxNodes DEF KeptNode
<1>7. CASE /\ ~ (v \in Unsigned \cup Signed \/ WholeFloat(node))
           /\ ~ (v \in Floats /\ h = NaN) /\ ~ (v = "F32" /\ h \in Fractions)
           /\ v \notin Quoted /\ v # "Decimal"
  <2>1. TextNode(node) = node
    BY <1>7 DEF TextNode
  <2> QED
    BY <2>1
<1> QED
  BY <1>2, <1>3, <1>4, <1>5, <1>6, <1>7

\* A node read from a binary file.
LEMMA BinaryKept ==
  ASSUME NEW node, KeptNode(node)
  PROVE  KeptNode(BinaryNode(node))
<1> DEFINE v == Variant(node)
           h == Held(node)
<1>1. IsSxNode(node) \/ v = "Data"
  BY DEF KeptNode, IsData
<1>2. v = "Data" => v \notin Unsigned \cup Signed
  BY DEF Unsigned, Signed
<1>3. (v \in Unsigned => h \in U64) /\ (v \in Signed => h \in I64)
  BY <1>1, <1>2 DEF IsSxNode, IsNode, Unsigned, Signed
<1>4. \/ v \in Unsigned /\ BinaryNode(node) = <<"U64", h>>
      \/ v \in Signed /\ BinaryNode(node) = <<"I64", h>>
      \/ BinaryNode(node) = <<"F64", h>>
      \/ BinaryNode(node) = <<"String", h>>
      \/ BinaryNode(node) = node
  BY DEF BinaryNode, Unsigned, Signed, Floats, Plainly
<1> QED
  BY <1>3, <1>4, SxNodes DEF KeptNode, Plainly

\* The documents whose nodes are all of that kind.
IsKept(d) == IsDocument(d) /\ \A p \in DOMAIN d : KeptNode(d[p])

\* The nodes of its JSON: integers and floats have lost their variants.
IsJson(n) ==
  \/ KeptNode(n) /\ Variant(n) \notin Signed \cup Unsigned \cup Floats
  \/ n = <<"Integer", Held(n)>> /\ Held(n) \in I64 \cup U64
  \/ n = <<"Float", Held(n)>>

\* What JSON has for a node.
LEMMA JsonNodeIsJson ==
  ASSUME NEW node, KeptNode(node)
  PROVE  /\ IsJson(JsonNode(node))
         /\ JsonNode(node) = IF Variant(node) \in Unsigned \cup Signed
                             THEN <<"Integer", Held(node)>>
                             ELSE IF Variant(node) \in Floats
                             THEN IF Held(node) = NaN THEN Null ELSE <<"Float", Held(node)>>
                             ELSE IF Variant(node) \in Plainly
                             THEN <<"String", Held(node)>>
                             ELSE IF Variant(node) \in Tagged THEN Object ELSE node
<1> DEFINE v == Variant(node)
           h == Held(node)
           m == JsonNode(node)
<1>1. IsSxNode(node) \/ v = "Data"
  BY DEF KeptNode, IsData
<1>2. /\ v \in Unsigned \cup Signed => v \notin Floats \cup Plainly \cup Tagged
      /\ v \in Floats => v \notin Plainly \cup Tagged
      /\ v \in Plainly => v \notin Tagged
  BY DEF Unsigned, Signed, Floats, Plainly, Tagged, TaggedString, TaggedData
<1>3. m = IF v \in Unsigned \cup Signed THEN <<"Integer", h>>
          ELSE IF v \in Floats THEN IF h = NaN THEN Null ELSE <<"Float", h>>
          ELSE IF v \in Plainly THEN <<"String", h>>
          ELSE IF v \in Tagged THEN Object ELSE node
  BY <1>2 DEF JsonNode
<1> HIDE DEF m
<1>4. v \in Unsigned \cup Signed => h \in I64 \cup U64
  BY <1>1 DEF IsSxNode, IsNode, Unsigned, Signed
<1>5. {"Null", "String", "Object"} \cap (Signed \cup Unsigned \cup Floats) = {}
  BY DEF Unsigned, Signed, Floats
<1>6. KeptNode(Null) /\ KeptNode(Object) /\ KeptNode(<<"String", h>>)
  BY SxNodes DEF KeptNode, Plainly
<1>7. CASE v \in Unsigned \cup Signed
  <2>1. m = <<"Integer", h>>
    BY <1>3, <1>7
  <2>2. Held(m) = h
    BY <2>1 DEF Held
  <2> QED
    BY <1>3, <1>4, <1>7, <2>1, <2>2 DEF IsJson, m
<1>8. CASE v \in Floats
  <2>1. m = Null \/ m = <<"Float", h>>
    BY <1>2, <1>3, <1>8
  <2>2. Variant(Null) = "Null" /\ Held(<<"Float", h>>) = h
    BY DEF Null, Variant, Held
  <2>3. IsJson(m)
    BY <1>5, <1>6, <2>1, <2>2 DEF IsJson
  <2> QED
    BY <1>3, <2>3 DEF m
<1>9. CASE v \in Plainly \cup Tagged
  <2>1. m = <<"String", h>> \/ m = Object
    BY <1>2, <1>3, <1>9
  <2>2. Variant(<<"String", h>>) = "String" /\ Variant(Object) = "Object"
    BY DEF Object, Variant
  <2>3. IsJson(m)
    BY <1>5, <1>6, <2>1, <2>2 DEF IsJson
  <2> QED
    BY <1>3, <2>3 DEF m
<1>10. CASE v \notin Unsigned \cup Signed \cup Floats \cup Plainly \cup Tagged
  <2>1. m = node
    BY <1>3, <1>10
  <2>2. IsJson(m)
    BY <1>10, <2>1 DEF IsJson
  <2> QED
    BY <1>3, <2>2 DEF m
<1> QED
  BY <1>7, <1>8, <1>9, <1>10

\* What is beside a tag.
LEMMA ContentIsJson ==
  ASSUME NEW node, KeptNode(node), Variant(node) \in Tagged
  PROVE  IsJson(Content(node)) /\ Variant(Content(node)) \in {"String", "Data"}
<1> DEFINE h == Held(node)
<1>1. IsSxNode(node)
  BY DEF KeptNode, IsData, Tagged, TaggedString, TaggedData
<1>2. {"String", "Data"} \cap (Signed \cup Unsigned \cup Floats) = {}
  BY DEF Unsigned, Signed, Floats
<1>3. CASE Variant(node) \in TaggedString
  <2>1. Content(node) = <<"String", h>>
    BY <1>3 DEF Content
  <2>2. KeptNode(<<"String", h>>) /\ Variant(<<"String", h>>) = "String"
    BY SxNodes DEF KeptNode, Plainly, Variant
  <2> QED
    BY <1>2, <2>1, <2>2 DEF IsJson
<1>4. CASE Variant(node) \notin TaggedString
  <2> DEFINE c == <<"Data", node>>
  <2>1. Content(node) = c
    BY <1>4 DEF Content
  <2>2. Variant(c) = "Data" /\ Held(c) = node
    BY DEF Variant, Held
  <2>3. Variant(node) \in TaggedData
    BY <1>4 DEF Tagged
  <2> HIDE DEF c
  <2>4. c = <<"Data", Held(c)>>
    BY <2>2 DEF c
  <2>5. KeptNode(c)
    BY <1>1, <2>2, <2>3, <2>4 DEF KeptNode, IsData
  <2> QED
    BY <1>2, <2>1, <2>2, <2>5 DEF IsJson
<1> QED
  BY <1>3, <1>4

\* The JSON of a document, path by path.
LEMMA JsonNodes ==
  ASSUME NEW d, IsKept(d), NEW j, j = ToJson(d), NEW p \in DOMAIN j
  PROVE  /\ IsJson(j[p])
         /\ \/ p \in DOMAIN d /\ j[p] = JsonNode(d[p])
            \/ p \notin DOMAIN d /\ p \in Members(d) /\ Variant(j[p]) \in {"String", "Data"}
<1>1. /\ IsDocument(d) /\ DOMAIN j = DOMAIN d \cup Members(d)
      /\ \A q \in DOMAIN d : j[q] = JsonNode(d[q])
      /\ \A q \in TaggedPaths(d) :
           /\ j[Beside(q, TypeKey)] = <<"String", TagWord(Variant(d[q]))>>
           /\ j[Beside(q, ValueKey)] = Content(d[q])
  BY JsonOf DEF IsKept
<1>2. CASE p \in DOMAIN d
  BY <1>1, <1>2, JsonNodeIsJson DEF IsKept
<1>3. CASE p \notin DOMAIN d
  <2>1. PICK q \in TaggedPaths(d), k \in TagKeys : p = Beside(q, k)
    BY <1>1, <1>3 DEF Members
  <2>2. KeptNode(d[q]) /\ Variant(d[q]) \in Tagged
    BY DEF TaggedPaths, IsKept
  <2>3. CASE k = TypeKey
    <3> DEFINE w == TagWord(Variant(d[q]))
    <3>1. j[p] = <<"String", w>>
      BY <1>1, <2>1, <2>3
    <3> HIDE DEF w
    <3>2. KeptNode(<<"String", w>>) /\ Variant(<<"String", w>>) = "String"
      BY SxNodes DEF KeptNode, Plainly, Variant
    <3>3. "String" \notin Signed \cup Unsigned \cup Floats
      BY DEF Unsigned, Signed, Floats
    <3> QED
      BY <1>1, <1>3, <3>1, <3>2, <3>3 DEF IsJson
  <2>4. CASE k = ValueKey
    <3>1. j[p] = Content(d[q])
      BY <1>1, <2>1, <2>4
    <3> QED
      BY <1>1, <1>3, <2>2, <3>1, ContentIsJson
  <2> QED
    BY <2>3, <2>4 DEF TagKeys
<1> QED
  BY <1>2, <1>3

\* A node that may be in a file is one of a document.
LEMMA KeptAreNodes ==
  ASSUME NEW node, KeptNode(node)
  PROVE  /\ IsNode(node) /\ node = <<Variant(node), Held(node)>>
         /\ Variant(node) \in AllVariants
BY DEF KeptNode, IsData, IsSxNode, IsNode, AllVariants

\* A document read node by node is a document if its containers stay.
LEMMA NodewiseDocument ==
  ASSUME NEW d, IsDocument(d), NEW e, e = [p \in DOMAIN d |-> e[p]],
         \A p \in DOMAIN d :
           /\ IsNode(e[p])
           /\ Variant(d[p]) \in {"Array", "Object"} \/ Variant(e[p]) = "Array" => e[p] = d[p]
  PROVE  IsDocument(e)
<1>1. DOMAIN e = DOMAIN d
  OBVIOUS
<1>2. ASSUME NEW p \in DOMAIN d, NEW n \in 1..Len(p)
      PROVE  SubSeq(p, 1, n - 1) \in DOMAIN e /\ Leads(e[SubSeq(p, 1, n - 1)], p[n])
  <2>1. SubSeq(p, 1, n - 1) \in DOMAIN d /\ Leads(d[SubSeq(p, 1, n - 1)], p[n])
    BY DEF IsDocument
  <2> QED
    BY <1>1, <2>1 DEF Leads
<1>3. ASSUME NEW p \in DOMAIN d, Variant(e[p]) = "Array", NEW i \in 0..(Held(e[p]) - 1)
      PROVE  Append(p, Index(i)) \in DOMAIN e
  BY <1>1, <1>3 DEF IsDocument
<1>4. e = [p \in DOMAIN e |-> e[p]] /\ DOMAIN e \subseteq Seq(Segment) /\ Root \in DOMAIN e
  BY <1>1 DEF IsDocument
<1> QED
  BY <1>1, <1>2, <1>3, <1>4 DEF IsDocument

\* The text form and the binary form keep containers.
LEMMA ContainersStay ==
  ASSUME NEW node, Variant(node) \in {"Array", "Object"}
  PROVE  TextNode(node) = node /\ BinaryNode(node) = node
BY DEF TextNode, BinaryNode, WholeFloat, Unsigned, Signed, Floats, Quoted, Plainly

\* They make no arrays.
LEMMA NoNewArrays ==
  ASSUME NEW node, Variant(node) # "Array"
  PROVE  Variant(TextNode(node)) # "Array" /\ Variant(BinaryNode(node)) # "Array"
<1> DEFINE v == Variant(node)
           h == Held(node)
<1>1. \/ Variant(BinaryNode(node)) \in {"U64", "I64", "F64", "String"}
      \/ BinaryNode(node) = node
  BY DEF BinaryNode, Variant, Unsigned, Signed, Floats, Plainly
<1>2. \/ TextNode(node) = node
      \/ \E w \in {"I64", "String", "F64", "Decimal"} \cup Quoted : \E x :
           TextNode(node) = <<w, x>>
  BY DEF TextNode, WholeFloat, Unsigned, Signed, Floats
<1>3. \A w, x : Variant(<<w, x>>) = w
  BY DEF Variant
<1> QED
  BY <1>1, <1>2, <1>3 DEF Quoted

\* A trip through text.
LEMMA TextTripKept ==
  ASSUME NEW d, IsKept(d), CanRead("text", d)
  PROVE  IsKept(Reading("text", d))
<1> DEFINE e == NodeWise(TextNode, d)
<1>1. Reading("text", d) = e /\ ValueReadable(d)
  BY DEF Reading, CanRead
<1>2. e = [p \in DOMAIN d |-> e[p]] /\ \A p \in DOMAIN d : e[p] = TextNode(d[p])
  BY DEF NodeWise
<1> HIDE DEF e
<1>3. \A p \in DOMAIN d : KeptNode(e[p])
  BY <1>1, <1>2, TextKept DEF IsKept, ValueReadable
<1>4. ASSUME NEW p \in DOMAIN d,
             Variant(d[p]) \in {"Array", "Object"} \/ Variant(e[p]) = "Array"
      PROVE  e[p] = d[p]
  BY <1>2, <1>4, NoNewArrays, ContainersStay
<1>5. IsDocument(e)
  BY <1>2, <1>3, <1>4, KeptAreNodes, NodewiseDocument DEF IsKept
<1> QED
  BY <1>1, <1>2, <1>3, <1>5 DEF IsKept

\* A trip through a binary file.
LEMMA BinaryTripKept ==
  ASSUME NEW d, IsKept(d)
  PROVE  IsKept(Reading("binary", d))
<1> DEFINE e == NodeWise(BinaryNode, d)
<1>1. Reading("binary", d) = e
  BY DEF Reading
<1>2. e = [p \in DOMAIN d |-> e[p]] /\ \A p \in DOMAIN d : e[p] = BinaryNode(d[p])
  BY DEF NodeWise
<1> HIDE DEF e
<1>3. \A p \in DOMAIN d : KeptNode(e[p])
  BY <1>1, <1>2, BinaryKept DEF IsKept
<1>4. ASSUME NEW p \in DOMAIN d,
             Variant(d[p]) \in {"Array", "Object"} \/ Variant(e[p]) = "Array"
      PROVE  e[p] = d[p]
  BY <1>2, <1>4, NoNewArrays, ContainersStay
<1>5. IsDocument(e)
  BY <1>2, <1>3, <1>4, KeptAreNodes, NodewiseDocument DEF IsKept
<1> QED
  BY <1>1, <1>2, <1>3, <1>5 DEF IsKept

\* JSON is put together as a document is, and its containers are those of the
\* document and the tagged objects.
LEMMA JsonShape ==
  ASSUME NEW d, IsKept(d), NEW j, j = ToJson(d)
  PROVE  /\ DOMAIN j \subseteq Seq(Segment) /\ Root \in DOMAIN j
         /\ \A p \in Seq(Segment), s \in Segment :
              Append(p, s) \in DOMAIN j => p \in DOMAIN j /\ Leads(j[p], s)
         /\ \A p \in DOMAIN j : Variant(j[p]) = "Array" =>
              /\ p \in DOMAIN d /\ j[p] = d[p]
              /\ \A i \in 0..(Held(j[p]) - 1) : Append(p, Index(i)) \in DOMAIN j
<1>1. IsDocument(d) /\ Rooted(d) /\ CompleteBut(d, Root) /\ \A p \in DOMAIN d : KeptNode(d[p])
  BY DocumentParts DEF IsKept
<1>2. /\ DOMAIN j = DOMAIN d \cup Members(d)
      /\ \A p \in DOMAIN d : j[p] = JsonNode(d[p])
  BY <1>1, JsonOf
<1>3. DOMAIN j \subseteq Seq(Segment) /\ Root \in DOMAIN j
  BY <1>1, <1>2, JsonPaths DEF Rooted
<1>4. ASSUME NEW p \in DOMAIN d
      PROVE  /\ Variant(d[p]) \in {"Array", "Object"} => j[p] = d[p]
             /\ Variant(d[p]) \in Tagged => j[p] = Object
             /\ Variant(j[p]) = "Array" => j[p] = d[p]
  <2>1. j[p] = IF Variant(d[p]) \in Unsigned \cup Signed
               THEN <<"Integer", Held(d[p])>>
               ELSE IF Variant(d[p]) \in Floats
               THEN IF Held(d[p]) = NaN THEN Null ELSE <<"Float", Held(d[p])>>
               ELSE IF Variant(d[p]) \in Plainly
               THEN <<"String", Held(d[p])>>
               ELSE IF Variant(d[p]) \in Tagged THEN Object ELSE d[p]
    BY <1>1, <1>2, JsonNodeIsJson
  <2>2. {"Array", "Object"} \cap (Unsigned \cup Signed \cup Floats \cup Plainly \cup Tagged) = {}
    BY DEF Unsigned, Signed, Floats, Plainly, Tagged, TaggedString, TaggedData
  <2>3. Tagged \cap (Unsigned \cup Signed \cup Floats \cup Plainly) = {}
    BY DEF Unsigned, Signed, Floats, Plainly, Tagged, TaggedString, TaggedData
  <2>4. \A h : /\ Variant(<<"Integer", h>>) # "Array" /\ Variant(<<"Float", h>>) # "Array"
               /\ Variant(<<"String", h>>) # "Array"
    BY DEF Variant
  <2>5. Variant(Null) # "Array" /\ Variant(Object) # "Array"
    BY DEF Variant, Null, Object
  <2>6. Variant(d[p]) \in {"Array", "Object"} => j[p] = d[p]
    BY <2>1, <2>2
  <2>7. Variant(d[p]) \in Tagged => j[p] = Object
    BY <2>1, <2>3
  <2>8. Variant(j[p]) = "Array" => j[p] = d[p]
    BY <2>1, <2>4, <2>5
  <2> QED
    BY <2>6, <2>7, <2>8
<1>5. ASSUME NEW p \in Seq(Segment), NEW s \in Segment, Append(p, s) \in DOMAIN j
      PROVE  p \in DOMAIN j /\ Leads(j[p], s)
  <2>1. CASE Append(p, s) \in DOMAIN d
    <3>1. p \in DOMAIN d /\ Leads(d[p], s)
      BY <1>1, <2>1 DEF Rooted
    <3> QED
      BY <1>2, <1>4, <3>1 DEF Leads
  <2>2. CASE Append(p, s) \in Members(d)
    <3>1. PICK q \in TaggedPaths(d), k \in TagKeys : Append(p, s) = Append(q, Key(k))
      BY <2>2 DEF Members, Beside
    <3>2. q \in Seq(Segment) /\ Key(k) \in Segment /\ q \in DOMAIN d /\ Variant(d[q]) \in Tagged
      BY <1>1, TagKeysAreKeys DEF TaggedPaths, Rooted
    <3>3. p = q /\ s = Key(k)
      BY <3>1, <3>2, PathEnds
    <3>4. j[p] = Object
      BY <1>4, <3>2, <3>3
    <3> QED
      BY <1>2, <3>2, <3>3, <3>4 DEF Leads, Object, Variant, Key
  <2> QED
    BY <1>2, <1>5, <2>1, <2>2
<1>6. ASSUME NEW p \in DOMAIN j, Variant(j[p]) = "Array"
      PROVE  /\ p \in DOMAIN d /\ j[p] = d[p]
             /\ \A i \in 0..(Held(j[p]) - 1) : Append(p, Index(i)) \in DOMAIN j
  <2>1. p \in DOMAIN d
    BY <1>6, JsonNodes
  <2>2. j[p] = d[p]
    BY <1>4, <1>6, <2>1
  <2>3. \A i \in 0..(Held(d[p]) - 1) : Append(p, Index(i)) \in DOMAIN d
    BY <1>1, <1>6, <2>1, <2>2 DEF IsDocument
  <2> QED
    BY <1>2, <2>1, <2>2, <2>3
<1> QED
  BY <1>3, <1>5, <1>6

\* The nodes read from JSON that is not tagged.
LEMMA LeafReadKept ==
  ASSUME NEW n, IsJson(n)
  PROVE  /\ KeptNode(LeafRead(n))
         /\ Variant(n) \in {"Array", "Object"} \/ Variant(LeafRead(n)) = "Array" =>
              LeafRead(n) = n
<1>1. CASE n = <<"Integer", Held(n)>> /\ Held(n) \in I64 \cup U64
  <2>1. LeafRead(n) = NumberRead(Held(n)) /\ Variant(n) = "Integer"
    BY <1>1 DEF LeafRead, Variant
  <2>2. \/ LeafRead(n) = <<"I64", Held(n)>> /\ Held(n) \in I64
        \/ LeafRead(n) = <<"U64", Held(n)>> /\ Held(n) \in U64
    BY <1>1, <2>1 DEF NumberRead
  <2>3. Variant(LeafRead(n)) \in {"I64", "U64"}
    BY <2>2 DEF Variant
  <2> QED
    BY <2>1, <2>2, <2>3, SxNodes DEF KeptNode
<1>2. CASE n = <<"Float", Held(n)>>
  <2>1. LeafRead(n) = <<"F64", Held(n)>> /\ Variant(n) = "Float"
    BY <1>2 DEF LeafRead, Variant
  <2>2. Variant(LeafRead(n)) = "F64"
    BY <2>1 DEF Variant
  <2> QED
    BY <2>1, <2>2, SxNodes DEF KeptNode
<1>3. CASE KeptNode(n)
  <2>1. Variant(n) \notin {"Integer", "Float"}
    BY <1>3, KeptAreNodes DEF AllVariants, SxVariants, Unsigned, Signed, Floats, Plainly,
       Tagged, TaggedString, TaggedData
  <2>2. LeafRead(n) = n
    BY <2>1 DEF LeafRead
  <2> QED
    BY <1>3, <2>2
<1> QED
  BY <1>1, <1>2, <1>3 DEF IsJson

\* Every tag is that of a variant.
LEMMA VariantsOfTags ==
  ASSUME NEW tag, IsTagWord(tag)
  PROVE  VariantOf(tag) \in Tagged /\ TagWord(VariantOf(tag)) = tag
<1> DEFINE names == << "Timestamp", "Date", "Duration", "Reference",
                       "Bytes", "Uuid", "Decimal", "Money", "TypedArray" >>
           v == names[tag - 60]
<1>1. tag - 60 \in 1..9 /\ tag = 60 + (tag - 60)
  BY DEF IsTagWord
<1>2. /\ names[1] = "Timestamp" /\ names[2] = "Date" /\ names[3] = "Duration"
      /\ names[4] = "Reference" /\ names[5] = "Bytes" /\ names[6] = "Uuid"
      /\ names[7] = "Decimal" /\ names[8] = "Money" /\ names[9] = "TypedArray"
  OBVIOUS
<1>3. TagWord(v) = 60 + CHOOSE i \in 1..9 : names[i] = v
  BY DEF TagWord
<1> HIDE DEF names
<1>4. v \in Tagged
  BY <1>1, <1>2 DEF Tagged, TaggedString, TaggedData
<1>5. \A i \in 1..9, k \in 1..9 : names[i] = names[k] => i = k
  BY <1>2
<1>6. TagWord(v) = tag
  BY <1>1, <1>3, <1>5
<1> QED
  BY <1>4, <1>6 DEF VariantOf

\* The nodes read from tagged JSON.
LEMMA UntaggedKept ==
  ASSUME NEW v \in Tagged, NEW c, IsJson(c),
         v \in TaggedData => Variant(c) = "Data" /\ Variant(Held(c)) = v
  PROVE  /\ KeptNode(Untagged(v, c)) /\ Variant(Untagged(v, c)) = v
         /\ v = "TypedArray" => Held(Untagged(v, c))[2] # NaN
<1>1. CASE v \in TaggedString
  <2> DEFINE h == IF Variant(c) = "String" THEN Held(c) ELSE Blank
  <2>1. Untagged(v, c) = <<v, h>>
    BY <1>1 DEF Untagged
  <2> HIDE DEF h
  <2>2. IsSxNode(<<v, h>>)
    BY <1>1, SxNodes
  <2>3. Variant(<<v, h>>) = v /\ v # "TypedArray"
    BY <1>1 DEF Variant, TaggedString
  <2> QED
    BY <2>1, <2>2, <2>3 DEF KeptNode
<1>2. CASE v \in TaggedData
  <2>1. v \notin TaggedString
    BY <1>2 DEF TaggedString, TaggedData
  <2>2. IsSxNode(Held(c)) /\ Variant(Held(c)) = v
    <3>1. KeptNode(c)
      <4>1. c = <<"Integer", Held(c)>> => Variant(c) = "Integer"
        BY DEF Variant
      <4>2. c = <<"Float", Held(c)>> => Variant(c) = "Float"
        BY DEF Variant
      <4> QED
        BY <1>2, <4>1, <4>2 DEF IsJson
    <3>2. ~ IsSxNode(c)
      BY <1>2 DEF IsSxNode, SxVariants, Unsigned, Signed, Floats, Plainly, Tagged,
         TaggedString, TaggedData
    <3> QED
      BY <1>2, <3>1, <3>2 DEF KeptNode, IsData
  <2>3. CASE v = "TypedArray" /\ Held(Held(c))[2] = NaN
    <3> DEFINE h == <<Held(Held(c))[1], 0>>
    <3>1. Untagged(v, c) = <<v, h>>
      BY <2>1, <2>3 DEF Untagged
    <3>2. Held(<<v, h>>)[2] # NaN
      BY TextConstants DEF Held
    <3> HIDE DEF h
    <3>3. IsSxNode(<<v, h>>)
      BY <2>3, SxNodes
    <3>4. Variant(<<v, h>>) = v
      BY DEF Variant
    <3> QED
      BY <3>1, <3>2, <3>3, <3>4 DEF KeptNode
  <2>4. CASE ~ (v = "TypedArray" /\ Held(Held(c))[2] = NaN)
    <3>1. Untagged(v, c) = Held(c)
      BY <2>1, <2>4 DEF Untagged
    <3> QED
      BY <2>2, <2>4, <3>1 DEF KeptNode
  <2> QED
    BY <2>3, <2>4
<1> QED
  BY <1>1, <1>2 DEF Tagged

\* The paths outside the objects that are read as tagged.
Outside(j) == {q \in DOMAIN j : \A t \in Outermost(TaggedObjects(j)) : ~ IsStrictPrefix(t, q)}

\* JSON has an empty object for a tagged node.
LEMMA JsonOfTagged ==
  ASSUME NEW node, Variant(node) \in Tagged
  PROVE  JsonNode(node) = Object
BY DEF JsonNode, Tagged, TaggedString, TaggedData, Unsigned, Signed, Floats, Plainly

\* What json_to_sx makes of JSON, path by path.
LEMMA JsonTripReads ==
  ASSUME NEW d, IsKept(d), CanRead("json", d), NEW e, e = Reading("json", d),
         NEW j, j = ToJson(d), NEW T, T = Outermost(TaggedObjects(j))
  PROVE  /\ DOMAIN e = Outside(j) /\ e = [p \in Outside(j) |-> e[p]]
         /\ \A p \in T \cap Outside(j) :
              /\ KeptNode(e[p]) /\ Variant(e[p]) \in Tagged
              /\ Variant(e[p]) = "TypedArray" => Held(e[p])[2] # NaN
         /\ \A p \in Outside(j) : p \notin T => e[p] = LeafRead(j[p])
<1> DEFINE Read(p) == CASE p \in T -> Untagged(VariantOf(TagAt(j, p)), ContentAt(j, p))
                        [] Variant(j[p]) = "Integer" -> NumberRead(Held(j[p]))
                        [] Variant(j[p]) = "Float" -> <<"F64", Held(j[p])>>
                        [] OTHER -> j[p]
<1>1. e = [p \in Outside(j) |-> Read(p)]
  BY DEF Reading, FromJson, Outside
<1>2. \A p \in T : TagReadable(j, p)
  BY DEF CanRead
<1>3. /\ DOMAIN j \subseteq Seq(Segment)
      /\ \A p \in Seq(Segment), s \in Segment :
           Append(p, s) \in DOMAIN j => p \in DOMAIN j /\ Leads(j[p], s)
      /\ \A p \in DOMAIN j : IsJson(j[p])
  BY JsonShape, JsonNodes
<1>4. \A p \in T : p \in DOMAIN j /\ Append(p, Key(ValueKey)) \in DOMAIN j
  BY DEF Outermost, TaggedObjects
<1>5. ASSUME NEW p \in T, p \in Outside(j)
      PROVE  /\ KeptNode(e[p]) /\ Variant(e[p]) \in Tagged
             /\ Variant(e[p]) = "TypedArray" => Held(e[p])[2] # NaN
  <2> DEFINE v == VariantOf(TagAt(j, p))
             c == ContentAt(j, p)
  <2>1. e[p] = Untagged(v, c)
    <3>1. p \in Seq(Segment) /\ Key(ValueKey) \in Segment
      BY <1>3, <1>4, TagKeysAreKeys DEF TagKeys
    <3>2. Variant(j[p]) \in {"Array", "Object"}
      BY <1>3, <1>4, <3>1 DEF Leads
    <3>3. Read(p) = Untagged(v, c)
      BY <1>5, <3>2
    <3> HIDE DEF Read
    <3> QED
      BY <1>1, <1>5, <3>3
  <2>2. v \in Tagged /\ (v \in TaggedData => Variant(c) = "Data" /\ Variant(Held(c)) = v)
    BY <1>2, VariantsOfTags DEF TagReadable
  <2>3. IsJson(c)
    BY <1>3, <1>4 DEF ContentAt
  <2> HIDE DEF v, c
  <2>4. /\ KeptNode(Untagged(v, c)) /\ Variant(Untagged(v, c)) = v
        /\ v = "TypedArray" => Held(Untagged(v, c))[2] # NaN
    BY <2>2, <2>3, UntaggedKept
  <2> QED
    BY <2>1, <2>2, <2>4
<1>6. ASSUME NEW p \in Outside(j), p \notin T PROVE e[p] = LeafRead(j[p])
  <2>1. Read(p) = LeafRead(j[p])
    BY <1>6 DEF LeafRead
  <2> HIDE DEF Read
  <2> QED
    BY <1>1, <1>6, <2>1
<1>7. DOMAIN e = Outside(j) /\ e = [p \in Outside(j) |-> e[p]]
  BY <1>1
<1> HIDE DEF Read
<1> QED
  BY <1>5, <1>6, <1>7

\* A trip through JSON that json_to_sx reads.
LEMMA JsonTripKept ==
  ASSUME NEW d, IsKept(d), CanRead("json", d)
  PROVE  IsKept(Reading("json", d))
<1> DEFINE j == ToJson(d)
           T == Outermost(TaggedObjects(j))
           e == Reading("json", d)
<1>1. /\ DOMAIN j \subseteq Seq(Segment) /\ Root \in DOMAIN j
      /\ \A p \in Seq(Segment), s \in Segment :
           Append(p, s) \in DOMAIN j => p \in DOMAIN j /\ Leads(j[p], s)
      /\ \A p \in DOMAIN j : Variant(j[p]) = "Array" =>
           /\ p \in DOMAIN d /\ j[p] = d[p]
           /\ \A i \in 0..(Held(j[p]) - 1) : Append(p, Index(i)) \in DOMAIN j
  BY JsonShape
<1>2. \A p \in DOMAIN j : IsJson(j[p])
  BY JsonNodes
<1>3. /\ DOMAIN e = Outside(j) /\ e = [p \in Outside(j) |-> e[p]]
      /\ \A p \in T \cap Outside(j) : KeptNode(e[p]) /\ Variant(e[p]) \in Tagged
      /\ \A p \in Outside(j) : p \notin T => e[p] = LeafRead(j[p])
  BY JsonTripReads
<1>4. \A q : q \in Outside(j) <=> q \in DOMAIN j /\ \A t \in T : ~ IsStrictPrefix(t, q)
  BY DEF Outside
<1> HIDE DEF e, j
<1>5. \A p \in DOMAIN e : KeptNode(e[p])
  BY <1>2, <1>3, <1>4, LeafReadKept
<1>6. \A t \in T : t \in Seq(Segment)
  BY <1>1 DEF Outermost, TaggedObjects
<1> HIDE DEF T
<1>7. ASSUME NEW p \in Seq(Segment), NEW s \in Segment, Append(p, s) \in Outside(j)
      PROVE  p \in Outside(j) /\ p \notin T
  <2>1. p \in DOMAIN j
    BY <1>1, <1>4, <1>7
  <2>2. IsPrefix(p, p) /\ IsPrefix(p, Append(p, s)) /\ p # Append(p, s)
    <3>1. Len(Append(p, s)) = Len(p) + 1 /\ Len(p) \in Nat
      OBVIOUS
    <3> QED
      BY <3>1, PrefixOfItself, PrefixOfLonger
  <2>3. p \notin T
    BY <1>4, <1>7, <2>2 DEF IsStrictPrefix
  <2>4. ASSUME NEW t \in T, IsStrictPrefix(t, p) PROVE FALSE
    <3>1. IsPrefix(t, Append(p, s))
      BY <1>6, <2>4, PrefixOfLonger DEF IsStrictPrefix
    <3>2. t # Append(p, s)
      <4>1. Len(t) <= Len(p) /\ Len(Append(p, s)) = Len(p) + 1 /\ Len(p) \in Nat
        BY <2>4 DEF IsStrictPrefix, IsPrefix
      <4> QED
        BY <4>1
    <3> QED
      BY <1>4, <1>7, <3>1, <3>2 DEF IsStrictPrefix
  <2> QED
    BY <1>4, <2>1, <2>3, <2>4
<1>8. ASSUME NEW p \in Seq(Segment), NEW s \in Segment, Append(p, s) \in DOMAIN e
      PROVE  p \in DOMAIN e /\ Leads(e[p], s)
  <2>1. p \in Outside(j) /\ p \notin T /\ Append(p, s) \in DOMAIN j
    BY <1>3, <1>4, <1>7, <1>8
  <2>2. Leads(j[p], s) /\ p \in DOMAIN j
    BY <1>1, <2>1
  <2>3. Variant(j[p]) \in {"Array", "Object"}
    BY <2>2 DEF Leads
  <2>4. e[p] = j[p]
    BY <1>2, <1>3, <1>4, <2>1, <2>2, <2>3, LeafReadKept
  <2> QED
    BY <1>3, <1>4, <2>1, <2>2, <2>4
<1>9. Root \in Outside(j)
  <2>1. \A t \in T : ~ IsStrictPrefix(t, Root)
    BY <1>6, PrefixOfItself DEF IsStrictPrefix, Root
  <2> QED
    BY <1>1, <1>4, <2>1
<1>10. ASSUME NEW p \in DOMAIN e, Variant(e[p]) = "Array", NEW i \in 0..(Held(e[p]) - 1)
       PROVE  Append(p, Index(i)) \in DOMAIN e
  <2>1. p \in Outside(j) /\ p \in Seq(Segment) /\ IsNode(e[p])
    BY <1>1, <1>3, <1>4, <1>5, KeptAreNodes
  <2>2. p \notin T
    BY <1>3, <1>4, <1>10, <2>1 DEF Tagged, TaggedString, TaggedData
  <2>3. e[p] = j[p] /\ Variant(j[p]) = "Array"
    BY <1>2, <1>3, <1>4, <1>10, <2>1, <2>2, LeafReadKept
  <2>4. Append(p, Index(i)) \in DOMAIN j
    BY <1>1, <1>4, <1>10, <2>1, <2>3
  <2>5. i \in Nat /\ Index(i) \in Segment
    BY <1>10, <2>1, SegmentKinds DEF IsNode
  <2>6. ASSUME NEW t \in T, IsStrictPrefix(t, Append(p, Index(i))) PROVE FALSE
    <3>1. IsPrefix(t, p)
      BY <1>6, <2>1, <2>5, <2>6, PrefixOfLonger DEF IsStrictPrefix
    <3> QED
      BY <1>4, <2>1, <2>2, <3>1 DEF IsStrictPrefix
  <2> QED
    BY <1>3, <1>4, <2>4, <2>6
<1>11. Rooted(e) /\ CompleteBut(e, Root)
  <2>1. \A p \in DOMAIN e : IsNode(e[p])
    BY <1>3, <1>4, <1>5, KeptAreNodes
  <2>2. DOMAIN e \subseteq Seq(Segment) /\ e = [p \in DOMAIN e |-> e[p]] /\ Root \in DOMAIN e
    BY <1>1, <1>3, <1>4, <1>9
  <2> QED
    BY <1>8, <1>10, <2>1, <2>2 DEF Rooted, CompleteBut
<1> QED
  BY <1>3, <1>4, <1>5, <1>11, DocumentFrom DEF IsKept, e

\* A node read as text from JSON.
LEMMA JsonTextKept ==
  ASSUME NEW n, IsJson(n), Variant(n) = "Integer" => Held(n) \in I64
  PROVE  /\ KeptNode(JsonTextNode(n))
         /\ Variant(n) \in {"Array", "Object"} \/ Variant(JsonTextNode(n)) = "Array" =>
              JsonTextNode(n) = n
<1> DEFINE m == JsonTextNode(n)
<1>1. CASE n = <<"Integer", Held(n)>> /\ Held(n) \in I64 \cup U64
  <2>1. Variant(n) = "Integer"
    BY <1>1 DEF Variant
  <2>2. m = <<"I64", Held(n)>>
    BY <2>1 DEF JsonTextNode
  <2>3. Variant(m) = "I64"
    BY <2>2 DEF Variant
  <2> QED
    BY <2>1, <2>2, <2>3, SxNodes DEF KeptNode
<1>2. CASE n = <<"Float", Held(n)>>
  <2>1. Variant(n) = "Float"
    BY <1>2 DEF Variant
  <2>2. m = <<"F64", Held(n)>>
    BY <2>1 DEF JsonTextNode
  <2>3. Variant(m) = "F64"
    BY <2>2 DEF Variant
  <2> QED
    BY <2>1, <2>2, <2>3, SxNodes DEF KeptNode
<1>3. CASE KeptNode(n) /\ Variant(n) = "String"
  <2>1. m = TextNode(n)
    BY <1>3 DEF JsonTextNode
  <2>2. KeptNode(TextNode(n)) /\ Variant(TextNode(n)) # "Array"
    BY <1>3, TextKept, NoNewArrays DEF WholeFloat, Unsigned, Floats
  <2> QED
    BY <1>3, <2>1, <2>2
<1>4. CASE KeptNode(n) /\ Variant(n) # "String"
  <2>1. Variant(n) \notin {"Integer", "Float"}
    BY <1>4, KeptAreNodes DEF AllVariants, SxVariants, Unsigned, Signed, Floats, Plainly,
       Tagged, TaggedString, TaggedData
  <2>2. m = n
    BY <1>4, <2>1 DEF JsonTextNode
  <2> QED
    BY <1>4, <2>2
<1> QED
  BY <1>1, <1>2, <1>3, <1>4 DEF IsJson

\* A trip through JSON that is read as text.
LEMMA JsonTextTripKept ==
  ASSUME NEW d, IsKept(d), CanRead("json_text", d)
  PROVE  IsKept(Reading("json_text", d))
<1> DEFINE j == ToJson(d)
           e == NodeWise(JsonTextNode, j)
<1>1. Reading("json_text", d) = e /\ e = [p \in DOMAIN j |-> e[p]]
      /\ \A p \in DOMAIN j : e[p] = JsonTextNode(j[p])
  BY DEF Reading, NodeWise
<1>2. \A p \in DOMAIN d : Variant(d[p]) \in Unsigned => Held(d[p]) \in I64
  BY DEF CanRead
<1>3. /\ DOMAIN j \subseteq Seq(Segment) /\ Root \in DOMAIN j
      /\ \A p \in Seq(Segment), s \in Segment :
           Append(p, s) \in DOMAIN j => p \in DOMAIN j /\ Leads(j[p], s)
      /\ \A p \in DOMAIN j : Variant(j[p]) = "Array" =>
           /\ p \in DOMAIN d /\ j[p] = d[p]
           /\ \A i \in 0..(Held(j[p]) - 1) : Append(p, Index(i)) \in DOMAIN j
  BY JsonShape
<1>4. ASSUME NEW p \in DOMAIN j
      PROVE  IsJson(j[p]) /\ (Variant(j[p]) = "Integer" => Held(j[p]) \in I64)
  <2>1. /\ IsJson(j[p])
        /\ \/ p \in DOMAIN d /\ j[p] = JsonNode(d[p])
           \/ Variant(j[p]) \in {"String", "Data"}
    BY JsonNodes
  <2>2. ASSUME p \in DOMAIN d, j[p] = JsonNode(d[p]), Variant(j[p]) = "Integer"
        PROVE  Held(j[p]) \in I64
    <3>1. KeptNode(d[p])
      BY <2>2 DEF IsKept
    <3>2. CASE Variant(d[p]) \in Unsigned \cup Signed
      <4>1. j[p] = <<"Integer", Held(d[p])>>
        BY <2>2, <3>1, <3>2, JsonNodeIsJson
      <4>2. Held(j[p]) = Held(d[p])
        BY <4>1 DEF Held
      <4>3. Variant(d[p]) \in Signed => Held(d[p]) \in I64
        BY <3>1, KeptAreNodes DEF IsNode, Signed
      <4> QED
        BY <1>2, <2>2, <3>2, <4>2, <4>3
    <3>3. CASE Variant(d[p]) \notin Unsigned \cup Signed
      <4>1. \/ j[p] = Null \/ j[p] = <<"Float", Held(d[p])>>
            \/ j[p] = <<"String", Held(d[p])>> \/ j[p] = Object \/ j[p] = d[p]
        BY <2>2, <3>1, <3>3, JsonNodeIsJson
      <4>2. Variant(d[p]) # "Integer"
        BY <3>1, KeptAreNodes DEF AllVariants, SxVariants, Unsigned, Signed, Floats, Plainly,
           Tagged, TaggedString, TaggedData
      <4>3. Variant(j[p]) # "Integer"
        BY <4>1, <4>2 DEF Variant, Null, Object
      <4> QED
        BY <2>2, <4>3
    <3> QED
      BY <3>2, <3>3
  <2> QED
    BY <2>1, <2>2
<1> HIDE DEF e, j
<1>5. \A p \in DOMAIN j :
        /\ KeptNode(e[p])
        /\ Variant(j[p]) \in {"Array", "Object"} \/ Variant(e[p]) = "Array" => e[p] = j[p]
  BY <1>1, <1>4, JsonTextKept
<1>6. DOMAIN e = DOMAIN j
  BY <1>1
<1>7. \A p \in Seq(Segment), s \in Segment :
        Append(p, s) \in DOMAIN e => p \in DOMAIN e /\ Leads(e[p], s)
  BY <1>3, <1>5, <1>6 DEF Leads
<1>8. Rooted(e)
  BY <1>1, <1>3, <1>5, <1>6, <1>7, KeptAreNodes DEF Rooted
<1>9. CompleteBut(e, Root)
  BY <1>3, <1>5, <1>6 DEF CompleteBut
<1> QED
  BY <1>1, <1>5, <1>6, <1>8, <1>9, DocumentFrom DEF IsKept

\* A trip through any form.
LEMMA TripKept ==
  ASSUME NEW d, IsKept(d), NEW reader \in Readers, CanRead(reader, d)
  PROVE  IsKept(Reading(reader, d))
BY TextTripKept, BinaryTripKept, JsonTripKept, JsonTextTripKept DEF Readers

-----------------------------------------------------------------------------
(***************************************************************************)
(* What an upgrade makes of a document is one, too.                        *)
(***************************************************************************)
\* The paths of an object: its own, and those of its members.
LEMMA ObjectOfParts ==
  ASSUME NEW f, DOMAIN f \subseteq Keys, \A k \in DOMAIN f : DOMAIN f[k] \subseteq Seq(Segment),
         NEW e, e = ObjectOf(f)
  PROVE  /\ e = [q \in DOMAIN e |-> e[q]] /\ DOMAIN e \subseteq Seq(Segment)
         /\ Root \in DOMAIN e /\ e[Root] = Object
         /\ \A q \in Seq(Segment) : q # Root =>
              (q \in DOMAIN e <=> /\ q[1][1] = "Key" /\ q[1][2] \in DOMAIN f
                                  /\ Tail(q) \in DOMAIN f[q[1][2]])
         /\ \A q \in DOMAIN e : q # Root => e[q] = f[q[1][2]][Tail(q)]
<1> DEFINE paths == UNION {{<<Key(k)>> \o r : r \in DOMAIN f[k]} : k \in DOMAIN f}
<1>1. e = [q \in {Root} \cup paths |->
             IF q = Root THEN Object ELSE f[q[1][2]][Tail(q)]]
  BY DEF ObjectOf
<1>2. ASSUME NEW k \in Keys, NEW r \in Seq(Segment)
      PROVE  /\ <<Key(k)>> \o r \in Seq(Segment) /\ <<Key(k)>> \o r # Root
             /\ (<<Key(k)>> \o r)[1] = Key(k) /\ Tail(<<Key(k)>> \o r) = r
  <2>1. Key(k) \in Segment
    BY SegmentKinds
  <2> QED
    BY <2>1 DEF Root
<1>3. \A k : Key(k)[1] = "Key" /\ Key(k)[2] = k
  BY DEF Key
<1>4. ASSUME NEW q \in paths
      PROVE  /\ q \in Seq(Segment) /\ q # Root /\ q[1][1] = "Key" /\ q[1][2] \in DOMAIN f
             /\ Tail(q) \in DOMAIN f[q[1][2]]
  <2>1. PICK k \in DOMAIN f : \E r \in DOMAIN f[k] : q = <<Key(k)>> \o r
    OBVIOUS
  <2>2. PICK r \in DOMAIN f[k] : q = <<Key(k)>> \o r
    BY <2>1
  <2>3. q \in Seq(Segment) /\ q # Root /\ q[1] = Key(k) /\ Tail(q) = r
    BY <1>2, <2>2
  <2> QED
    BY <1>3, <2>3
<1>5. ASSUME NEW q \in Seq(Segment), q # Root, q[1][1] = "Key", q[1][2] \in DOMAIN f,
             Tail(q) \in DOMAIN f[q[1][2]]
      PROVE  q \in paths
  <2>1. q[1] \in Segment
    BY <1>5 DEF Root
  <2>2. q[1] = Key(q[1][2])
    BY <1>5, <2>1, SegmentKinds
  <2>3. q = <<q[1]>> \o Tail(q)
    BY <1>5 DEF Root
  <2>4. q = <<Key(q[1][2])>> \o Tail(q)
    BY <2>2, <2>3
  <2>5. \E k \in DOMAIN f : \E r \in DOMAIN f[k] : q = <<Key(k)>> \o r
    BY <1>5, <2>4
  <2> QED
    BY <2>5
<1> HIDE DEF paths
<1>6. DOMAIN e = {Root} \cup paths /\ Root \in Seq(Segment)
  BY <1>1 DEF Root
<1> QED
  BY <1>1, <1>4, <1>5, <1>6

\* An object of documents is a document.
LEMMA ObjectOfKept ==
  ASSUME NEW f, DOMAIN f \subseteq Keys, \A k \in DOMAIN f : IsKept(f[k])
  PROVE  IsKept(ObjectOf(f))
<1> DEFINE e == ObjectOf(f)
<1>1. \A k \in DOMAIN f : /\ Rooted(f[k]) /\ CompleteBut(f[k], Root)
                          /\ DOMAIN f[k] \subseteq Seq(Segment)
                          /\ \A p \in DOMAIN f[k] : KeptNode(f[k][p])
  BY DocumentParts DEF IsKept, IsDocument
<1>2. /\ e = [q \in DOMAIN e |-> e[q]] /\ DOMAIN e \subseteq Seq(Segment)
      /\ Root \in DOMAIN e /\ e[Root] = Object
      /\ \A q \in Seq(Segment) : q # Root =>
           (q \in DOMAIN e <=> /\ q[1][1] = "Key" /\ q[1][2] \in DOMAIN f
                               /\ Tail(q) \in DOMAIN f[q[1][2]])
      /\ \A q \in DOMAIN e : q # Root => e[q] = f[q[1][2]][Tail(q)]
  BY <1>1, ObjectOfParts
<1> HIDE DEF e
<1>3. \A q \in DOMAIN e : KeptNode(e[q])
  <2>1. KeptNode(Object)
    BY SxNodes DEF KeptNode
  <2> QED
    BY <1>1, <1>2, <2>1
<1>4. ASSUME NEW p \in Seq(Segment), NEW s \in Segment
      PROVE  /\ Append(p, s) \in Seq(Segment) /\ Append(p, s) # Root
             /\ p = Root => Append(p, s)[1] = s
             /\ p # Root => /\ Append(p, s)[1] = p[1] /\ Tail(p) \in Seq(Segment)
                            /\ Tail(Append(p, s)) = Append(Tail(p), s)
  <2>1. CASE p = Root
    BY <2>1 DEF Root
  <2>2. CASE p # Root
    <3>1. Len(p) > 0 /\ Len(p) \in Nat
      BY <2>2 DEF Root
    <3>2. Append(p, s)[1] = p[1] /\ Tail(p) \in Seq(Segment)
      BY <2>2, <3>1 DEF Root
    <3>3. Tail(Append(p, s)) = Append(Tail(p), s)
      BY <2>2, <3>1 DEF Root
    <3> QED
      BY <2>2, <3>2, <3>3, PathEnds DEF Root
  <2> QED
    BY <2>1, <2>2
<1>5. ASSUME NEW p \in Seq(Segment), NEW s \in Segment, Append(p, s) \in DOMAIN e
      PROVE  p \in DOMAIN e /\ Leads(e[p], s)
  <2> DEFINE q == Append(p, s)
  <2>1. q[1][1] = "Key" /\ q[1][2] \in DOMAIN f /\ Tail(q) \in DOMAIN f[q[1][2]]
    BY <1>2, <1>4, <1>5
  <2>2. CASE p = Root
    <3>1. s[1] = "Key"
      BY <1>4, <2>1, <2>2
    <3> QED
      BY <1>2, <2>2, <3>1 DEF Leads, Object, Variant
  <2>3. CASE p # Root
    <3>1. /\ q[1] = p[1] /\ Tail(p) \in Seq(Segment) /\ Tail(q) = Append(Tail(p), s)
      BY <1>4, <2>3
    <3> DEFINE v == f[p[1][2]]
    <3>2. p[1][2] \in DOMAIN f /\ Append(Tail(p), s) \in DOMAIN v /\ Rooted(v)
      BY <1>1, <2>1, <3>1
    <3> HIDE DEF v, q
    <3>3. Tail(p) \in DOMAIN v /\ Leads(v[Tail(p)], s)
      BY <3>1, <3>2 DEF Rooted
    <3>4. p \in DOMAIN e /\ e[p] = v[Tail(p)]
      BY <1>2, <2>1, <2>3, <3>1, <3>2, <3>3 DEF v
    <3> QED
      BY <3>3, <3>4
  <2> QED
    BY <2>2, <2>3
<1>6. ASSUME NEW p \in DOMAIN e, Variant(e[p]) = "Array", NEW i \in 0..(Held(e[p]) - 1)
      PROVE  Append(p, Index(i)) \in DOMAIN e
  <2>1. p # Root
    BY <1>2, <1>6 DEF Object, Variant
  <2>2. p \in Seq(Segment) /\ IsNode(e[p])
    BY <1>2, <1>3, KeptAreNodes
  <2>3. i \in Nat /\ Index(i) \in Segment
    BY <1>6, <2>2, SegmentKinds DEF IsNode
  <2> DEFINE v == f[p[1][2]]
  <2>4. /\ p[1][1] = "Key" /\ p[1][2] \in DOMAIN f /\ Tail(p) \in DOMAIN v
        /\ e[p] = v[Tail(p)] /\ CompleteBut(v, Root)
    BY <1>1, <1>2, <2>1, <2>2
  <2>5. /\ Append(p, Index(i)) \in Seq(Segment) /\ Append(p, Index(i)) # Root
        /\ Append(p, Index(i))[1] = p[1] /\ Tail(p) \in Seq(Segment)
        /\ Tail(Append(p, Index(i))) = Append(Tail(p), Index(i))
    BY <1>4, <2>1, <2>2, <2>3
  <2>6. Append(Tail(p), Index(i)) # Root
    BY <1>4, <2>3, <2>5
  <2> HIDE DEF v
  <2>7. Append(Tail(p), Index(i)) \in DOMAIN v
    BY <1>6, <2>4, <2>6 DEF CompleteBut
  <2> QED
    BY <1>2, <2>4, <2>5, <2>7 DEF v
<1>7. Rooted(e) /\ CompleteBut(e, Root)
  <2>1. \A q \in DOMAIN e : IsNode(e[q])
    BY <1>3, KeptAreNodes
  <2> QED
    BY <1>2, <1>5, <1>6, <2>1 DEF Rooted, CompleteBut
<1> QED
  BY <1>3, <1>7, DocumentFrom DEF IsKept, e

\* The value of a member.
LEMMA ValueAtKept ==
  ASSUME NEW d, IsKept(d), NEW p \in DOMAIN d
  PROVE  IsKept(ValueAt(d, p))
<1> DEFINE e == ValueAt(d, p)
<1>1. IsDocument(d) /\ p \in Seq(Segment) /\ DOMAIN d \subseteq Seq(Segment)
  BY DEF IsKept, IsDocument
<1>2. DOMAIN e \subseteq Seq(Segment) /\ \A q \in DOMAIN e : p \o q \in DOMAIN d /\ e[q] = d[p \o q]
  BY <1>1, ValueAtParts
<1>3. IsDocument(e)
  BY <1>1, ValueAtDocument
<1> HIDE DEF e
<1> QED
  BY <1>2, <1>3 DEF IsKept, e

\* Schemas as they are kept: their fields have names, and defaults that a file
\* may hold.
SchemaKept(s) ==
  /\ Len(s) \in Nat /\ DOMAIN s = 1..Len(s)
  /\ \A i \in DOMAIN s :
       s[i].name \in Keys /\ (s[i].default # NoDefault => IsKept(Leaf(s[i].default)))

\* Every schema a program may keep its documents to is one.
LEMMA SchemasKept ==
  ASSUME NEW s \in Kept
  PROVE  SchemaKept(s)
<1>1. CASE s = NoSchema
  BY <1>1 DEF NoSchema, SchemaKept
<1>2. CASE s # NoSchema
  <2>1. PICK lines \in Schemas : CanParse(lines) /\ s = parse_schema(lines)
    BY <1>2 DEF Kept
  <2>2. /\ Len(lines) \in Nat /\ DOMAIN lines = 1..Len(lines)
        /\ \A i \in DOMAIN lines :
             /\ IsField(lines[i])
             /\ lines[i].default # NoDefault =>
                  IsSxNode(lines[i].default) /\ IsDocument(Leaf(lines[i].default))
    BY StoredConstants
  <2>3. DOMAIN s = 1..Len(lines) /\ \A i \in DOMAIN s : s[i] = parse_field_line(lines[i])
    BY <2>1, <2>2 DEF parse_schema
  <2>4. Len(s) = Len(lines)
    BY <2>1, <2>2 DEF parse_schema
  <2>5. ASSUME NEW i \in DOMAIN s
        PROVE  s[i].name \in Keys /\ (s[i].default # NoDefault => IsKept(Leaf(s[i].default)))
    <3> DEFINE line == lines[i]
               given == line.default
    <3>1. s[i] = [line EXCEPT !.type = parse_type(@), !.default = TextNode(@)]
      BY <2>3 DEF parse_field_line
    <3>2. IsField(line)
      BY <2>2, <2>3
    <3>3. s[i].name = line.name /\ s[i].default = TextNode(given)
      BY <3>1, <3>2 DEF IsField
    <3>4. CASE given = NoDefault
      <4>1. TextNode(NoDefault) = NoDefault
        BY DEF NoDefault, TextNode, WholeFloat, Variant, Unsigned, Signed, Floats, Quoted
      <4> QED
        BY <3>2, <3>3, <3>4, <4>1 DEF IsField
    <3>5. CASE given # NoDefault
      <4>1. IsSxNode(given) /\ IsDocument(Leaf(given)) /\ ValueReadable(Leaf(given))
        BY <2>1, <2>2, <2>3, <3>5 DEF CanParse
      <4>2. DOMAIN Leaf(given) = {Root} /\ Leaf(given)[Root] = given
        BY DEF Leaf
      <4> HIDE DEF given
      <4>3. IsKept(Leaf(given)) /\ CanRead("text", Leaf(given))
        BY <4>1, <4>2 DEF IsKept, KeptNode, CanRead
      <4>4. Reading("text", Leaf(given)) = Leaf(TextNode(given))
        BY <4>2 DEF Reading, NodeWise, Leaf
      <4>5. IsKept(Leaf(TextNode(given)))
        BY <4>3, <4>4, TextTripKept
      <4> QED
        BY <3>2, <3>3, <4>5 DEF IsField
    <3> QED
      BY <3>4, <3>5
  <2> QED
    BY <2>2, <2>3, <2>4, <2>5 DEF SchemaKept
<1> QED
  BY <1>1, <1>2

\* ById finds the last field with the id.
LEMMA ByIdFinds ==
  ASSUME NEW s, Len(s) \in Nat, DOMAIN s = 1..Len(s), NEW id \in Ids(s)
  PROVE  \E i \in DOMAIN s : /\ ById(s, id) = s[i] /\ s[i].id = id
                             /\ \A k \in DOMAIN s : s[k].id = id => k <= i
<1> DEFINE I == {i \in 1..Len(s) : s[i].id = id}
<1>1. \E i \in I : \A k \in I : i >= k
  <2> DEFINE T == {n \in Nat : Len(s) - n \in I}
  <2>1. PICK i \in I : TRUE
    BY DEF Ids
  <2>2. Len(s) - i \in T
    <3>1. i \in 1..Len(s) /\ Len(s) - i \in Nat /\ Len(s) - (Len(s) - i) = i
      OBVIOUS
    <3> QED
      BY <3>1
  <2>3. PICK n \in T : \A m \in T : n <= m
    BY <2>2, LeastNumber
  <2>4. ASSUME NEW k \in I PROVE Len(s) - n >= k
    <3>1. k \in 1..Len(s) /\ Len(s) - k \in Nat /\ Len(s) - (Len(s) - k) = k
      OBVIOUS
    <3>2. n <= Len(s) - k
      BY <2>3, <3>1
    <3> QED
      BY <3>1, <3>2
  <2> QED
    BY <2>3, <2>4
<1> DEFINE m == CHOOSE x \in I : \A y \in I : x >= y
<1>2. m \in I /\ \A y \in I : m >= y
  BY <1>1
<1>3. SelectLastInSeq(s, LAMBDA f : f.id = id) = m
  BY <1>1 DEF SelectLastInSeq, Max
<1>4. ById(s, id) = s[m]
  BY <1>3 DEF ById
<1> HIDE DEF m
<1> QED
  BY <1>2, <1>4

\* The fields that the steps of a plan lead to: a field of the new schema, with a
\* default if the step adds one.
LEMMA StepsLeadSomewhere ==
  ASSUME NEW old, NEW new, SchemaKept(new),
         NEW s \in check_compatibility(old, new).steps, s.kind # "IncompatibleChange"
  PROVE  \E j \in DOMAIN new :
           s.to = new[j] /\ (s.kind = "AddDefaultField" => s.to.default # NoDefault)
<1> DEFINE kept == {KeepStep(ById(old, id), ById(new, id)) : id \in Ids(old) \cap Ids(new)}
           removed == {RemoveStep(ById(old, id)) : id \in Ids(old) \ Ids(new)}
           added == {AddStep(ById(new, id)) : id \in Ids(new) \ Ids(old)}
<1>1. s \in kept \cup removed \cup added
  BY DEF check_compatibility
<1>2. s \notin removed
  BY DEF RemoveStep
<1>3. CASE s \in kept
  <2>1. PICK id \in Ids(old) \cap Ids(new) : s = KeepStep(ById(old, id), ById(new, id))
    BY <1>3
  <2>2. s.to = ById(new, id) /\ s.kind # "AddDefaultField"
    BY <2>1 DEF KeepStep
  <2> QED
    BY <2>2, ByIdFinds DEF SchemaKept
<1>4. CASE s \in added
  <2>1. PICK id \in Ids(new) \ Ids(old) : s = AddStep(ById(new, id))
    BY <1>4
  <2>2. s.to = ById(new, id) /\ (s.kind = "AddDefaultField" => s.to.default # NoDefault)
    BY <2>1 DEF AddStep
  <2> QED
    BY <2>2, ByIdFinds DEF SchemaKept
<1> QED
  BY <1>1, <1>2, <1>3, <1>4

\* What a plan that is compatible makes of a document.
LEMMA MigratedKept ==
  ASSUME NEW d, IsKept(d), NEW old, NEW new, SchemaKept(new),
         NEW report, report = check_compatibility(old, new), report.compatible
  PROVE  IsKept(Migrated(d, report.steps))
<1> DEFINE steps == report.steps
           copied == {s \in steps : /\ s.kind \in {"CopyField", "RenameField"}
                                    /\ s.from.name \in MemberKeys(d, Root)}
           added == {s \in steps : s.kind = "AddDefaultField"}
           StepTo(name) == CHOOSE s \in copied \cup added : s.to.name = name
           names == {s.to.name : s \in copied \cup added}
           f == [name \in names |->
                   IF StepTo(name) \in copied
                   THEN ValueAt(d, <<Key(StepTo(name).from.name)>>)
                   ELSE Leaf(StepTo(name).to.default)]
<1>1. Migrated(d, steps) = ObjectOf(f)
  BY DEF Migrated
<1>2. \A s \in steps : s.kind # "IncompatibleChange"
  BY DEF check_compatibility
<1>3. \A s \in steps : \E j \in DOMAIN new :
        s.to = new[j] /\ (s.kind = "AddDefaultField" => s.to.default # NoDefault)
  BY <1>2, StepsLeadSomewhere
<1>4. \A s \in steps : s.to.name \in Keys
  BY <1>3 DEF SchemaKept
<1>5. \A s \in added : IsKept(Leaf(s.to.default))
  BY <1>3 DEF SchemaKept
<1>6. \A s \in copied : IsKept(ValueAt(d, <<Key(s.from.name)>>))
  <2> TAKE s \in copied
  <2> DEFINE k == s.from.name
  <2>1. k \in MemberKeys(d, Root)
    OBVIOUS
  <2>2. Append(Root, Key(k)) = <<Key(k)>>
    BY DEF Root
  <2> HIDE DEF k
  <2>3. <<Key(k)>> \in DOMAIN d
    BY <2>1, <2>2 DEF MemberKeys
  <2>4. IsKept(ValueAt(d, <<Key(k)>>))
    BY <2>3, ValueAtKept
  <2> QED
    BY <2>4 DEF k
<1>7. names \subseteq Keys
  BY <1>4
<1> HIDE DEF copied, added, steps
<1>8. ASSUME NEW name \in names PROVE IsKept(f[name])
  <2>1. \E s \in copied \cup added : s.to.name = name
    OBVIOUS
  <2> DEFINE s == StepTo(name)
  <2>2. s \in copied \cup added
    BY <2>1
  <2>3. f[name] = IF s \in copied THEN ValueAt(d, <<Key(s.from.name)>>)
                  ELSE Leaf(s.to.default)
    OBVIOUS
  <2> HIDE DEF s, f
  <2> QED
    BY <1>5, <1>6, <2>2, <2>3
<1>9. DOMAIN f = names
  OBVIOUS
<1> HIDE DEF f, names
<1>10. IsKept(ObjectOf(f))
  BY <1>7, <1>8, <1>9, ObjectOfKept
<1> QED
  BY <1>1, <1>10 DEF steps

-----------------------------------------------------------------------------
(***************************************************************************)
(* The same hash, the same meaning.                                        *)
(***************************************************************************)
\* The file holds a document, whatever has happened to it.
FileInv ==
  /\ original \in Originals /\ schema \in Kept
  /\ file = [form |-> file.form, doc |-> file.doc]
  /\ file.form \in Forms /\ IsKept(file.doc)

\* The documents there are at the start.
LEMMA OriginalsKept ==
  ASSUME NEW d \in Originals
  PROVE  IsKept(d)
BY StoredConstants DEF IsKept, KeptNode

\* It does at the start.
LEMMA FileInvBegins == Init => FileInv
<1> SUFFICES ASSUME Init PROVE FileInv
  OBVIOUS
<1>1. PICK form \in Forms : file = [form |-> form, doc |-> original]
  BY DEF Init
<1>2. original \in Originals /\ schema \in Kept
  BY DEF Init
<1> QED
  BY <1>1, <1>2, OriginalsKept DEF FileInv

\* An upgrade reads the file and leaves what the plan makes of it.
LEMMA UpgradeReads ==
  ASSUME Upgrade
  PROVE  /\ original' = original /\ CanRead(file.form, file.doc)
         /\ outcome' = outcome /\ ways' = ways \cup {file.form} /\ schema # NoSchema
         /\ \E new \in Kept :
              LET report == check_compatibility(schema, new)
                  value == Reading(file.form, file.doc)
              IN  /\ report.compatible /\ schema' = new /\ Variant(value[Root]) = "Object"
                  /\ file' = [file EXCEPT !.doc = Migrated(value, report.steps)]
BY DEF Upgrade

\* No step disturbs it.
LEMMA FileInvStep == FileInv /\ [Next]_vars => FileInv'
<1> SUFFICES ASSUME FileInv, [Next]_vars PROVE FileInv'
  OBVIOUS
<1>1. Forms \subseteq Readers
  BY DEF Forms, Readers
<1>2. ASSUME NEW reader \in Readers, NEW to \in Forms, Trip(reader, to) PROVE FileInv'
  <2>1. /\ schema' = schema /\ original' = original
        /\ \/ file' = file
           \/ file' = [form |-> to, doc |-> Reading(reader, file.doc)] /\ CanRead(reader, file.doc)
    BY <1>2, TripReads
  <2>2. IsKept(file.doc)
    BY DEF FileInv
  <2>3. CanRead(reader, file.doc) => IsKept(Reading(reader, file.doc))
    BY <2>2, TripKept
  <2> QED
    BY <2>1, <2>3 DEF FileInv
<1>3. CASE Upgrade
  <2> DEFINE value == Reading(file.form, file.doc)
  <2>1. PICK new \in Kept : /\ check_compatibility(schema, new).compatible /\ schema' = new
                            /\ file' = [file EXCEPT !.doc =
                                 Migrated(value, check_compatibility(schema, new).steps)]
    BY <1>3, UpgradeReads
  <2>2. original' = original /\ CanRead(file.form, file.doc)
    BY <1>3, UpgradeReads
  <2>3. IsKept(value)
    BY <1>1, <2>2, TripKept DEF FileInv
  <2> HIDE DEF value
  <2>4. IsKept(Migrated(value, check_compatibility(schema, new).steps))
    BY <2>1, <2>3, SchemasKept, MigratedKept
  <2> DEFINE m == Migrated(value, check_compatibility(schema, new).steps)
  <2> HIDE DEF m
  <2>5. file' = [file EXCEPT !.doc = m] /\ file = [form |-> file.form, doc |-> file.doc]
    BY <2>1 DEF FileInv, m
  <2>6. file' = [form |-> file.form, doc |-> m]
    BY <2>5
  <2> QED
    BY <2>1, <2>2, <2>4, <2>6 DEF FileInv, m
<1>4. CASE UNCHANGED vars
  BY <1>4 DEF vars, FileInv
<1> QED
  BY <1>2, <1>3, <1>4, Readings DEF FileInv

\* Then nodes with the same hash mean the same.
LEMMA FileInvImplies == FileInv => SameHashSameMeaning
<1> SUFFICES ASSUME FileInv PROVE SameHashSameMeaning
  OBVIOUS
<1>1. \A node \in Nodes(file.doc) \cup Nodes(original) : KeptNode(node)
  BY OriginalsKept DEF FileInv, IsKept, Nodes
<1> QED
  BY <1>1, SameHashes DEF SameHashSameMeaning

\* SameHashSameMeaning: nodes in the file, or in the document it began with, have
\* the same logical hash exactly if they mean the same, floats to 15 decimals,
\* whatever the readers and the upgrades have made of them.
THEOREM SameHashAlwaysSameMeaning == Spec => []SameHashSameMeaning
BY FileInvBegins, FileInvStep, FileInvImplies, PTL DEF Spec
-----------------------------------------------------------------------------
(***************************************************************************)
(* Reading twice.                                                          *)
(***************************************************************************)
\* Read as text once, a node stays as it is, and is one the text form can have.
LEMMA TextOnce ==
  ASSUME NEW node, KeptNode(node),
         Variant(node) \in Quoted => IsAscii(Held(node)),
         Variant(node) = "Decimal" => Held(node)[2] = 0
  PROVE  LET m == TextNode(node) IN
           /\ TextNode(m) = m /\ Variant(m) \notin Unsigned /\ ~ WholeFloat(m)
           /\ Variant(m) = "TypedArray" => m = node
<1> DEFINE v == Variant(node)
           h == Held(node)
           m == TextNode(node)
           Settled == /\ TextNode(m) = m /\ Variant(m) \notin Unsigned /\ ~ WholeFloat(m)
                      /\ Variant(m) = "TypedArray" => m = node
<1> SUFFICES Settled
  OBVIOUS
<1>1. IsSxNode(node) \/ v = "Data"
  BY DEF KeptNode, IsData
<1>2. node = <<v, h>>
  BY KeptAreNodes
<1>3. \A w, x : Variant(<<w, x>>) = w /\ Held(<<w, x>>) = x
  BY DEF Variant, Held
<1>4. CASE v \in Unsigned \cup Signed \/ WholeFloat(node)
  <2>1. m = <<"I64", h>>
    <3>1. v \in Unsigned \cup Signed \cup Floats
      BY <1>4 DEF WholeFloat
    <3>2. v \notin Quoted \cup {"Decimal"}
      BY <3>1 DEF Unsigned, Signed, Floats, Quoted
    <3>3. ~ (v \in Floats /\ h = NaN) /\ ~ (v = "F32" /\ h \in Fractions)
      BY <1>4 DEF WholeFloat, Unsigned, Signed, Floats
    <3> QED
      BY <1>4, <3>2, <3>3 DEF TextNode
  <2> HIDE DEF h
  <2>2. TextNode(<<"I64", h>>) = <<"I64", h>>
    BY <1>3 DEF TextNode, WholeFloat, Unsigned, Signed, Floats, Quoted
  <2> HIDE DEF m
  <2> QED
    BY <1>3, <2>1, <2>2 DEF WholeFloat, Unsigned, Floats
<1>5. CASE v \in Floats /\ h = NaN
  <2>1. m = <<"String", NaNWord>>
    BY <1>5, TextConstants DEF TextNode, WholeFloat, Floats, Unsigned, Signed, Quoted
  <2>2. IsAscii(NaNWord)
    BY ConversionConstants DEF IsAscii, NaNWord
  <2>3. TextNode(<<"String", NaNWord>>) = <<"String", NaNWord>>
    BY <1>3, <2>2 DEF TextNode, WholeFloat, Floats, Unsigned, Signed, Quoted
  <2> HIDE DEF m
  <2> QED
    BY <1>3, <2>1, <2>3 DEF WholeFloat, Unsigned, Floats
<1>6. CASE v = "F32" /\ h \in Fractions
  <2>1. m = <<"F64", Short(h)>>
    BY <1>6, TextConstants DEF TextNode, WholeFloat, Floats, Unsigned, Signed, Quoted
  <2>2. Short(h) \in Fractions
    BY <1>1, <1>6 DEF IsSxNode
  <2> DEFINE x == Short(h)
  <2> HIDE DEF x, m
  <2>3. x \in Fractions /\ x # NaN
    BY <2>2, TextConstants DEF x
  <2>4. TextNode(<<"F64", x>>) = <<"F64", x>>
    BY <1>3, <2>3 DEF TextNode, WholeFloat, Floats, Unsigned, Signed, Quoted
  <2> QED
    BY <1>3, <2>1, <2>3, <2>4 DEF WholeFloat, Unsigned, x
<1>7. CASE v \in Quoted
  <2> DEFINE w == IF v = "Enum" THEN "String" ELSE v
  <2>1. m = <<w, h>>
    <3>1. v \notin Unsigned \cup Signed \cup Floats \cup {"Decimal", "F32"} /\ ~ WholeFloat(node)
      BY <1>7 DEF WholeFloat, Floats, Unsigned, Signed, Quoted
    <3> QED
      BY <1>7, <3>1 DEF TextNode
  <2>2. w \in Quoted /\ w # "Enum" /\ IsAscii(h)
    BY <1>7 DEF Quoted
  <2>3. w \notin Unsigned \cup Signed \cup Floats \cup {"Decimal", "F32", "TypedArray"}
    BY <2>2 DEF Floats, Unsigned, Signed, Quoted
  <2> HIDE DEF w, m, h
  <2>4. TextNode(<<w, h>>) = <<w, h>>
    BY <1>3, <2>2, <2>3 DEF TextNode, WholeFloat
  <2> QED
    BY <1>3, <2>1, <2>3, <2>4 DEF WholeFloat
<1>8. CASE v = "Decimal"
  <2>1. TextNode(node) = <<"Decimal", <<h[1] * PowerOfTen[h[2]], h[2]>>>>
    <3>1. v \notin Unsigned \cup Signed \cup Floats \cup Quoted \cup {"F32"} /\ ~ WholeFloat(node)
      BY <1>8 DEF WholeFloat, Floats, Unsigned, Signed, Quoted
    <3> QED
      BY <1>8, <3>1 DEF TextNode
  <2>2. h \in Int \X Nat /\ h[2] = 0
    BY <1>1, <1>8 DEF IsSxNode
  <2>3. h[1] * PowerOfTen[h[2]] = h[1] /\ h = <<h[1], h[2]>>
    <3>1. PowerOfTen[0] = 1
      BY Powers
    <3> HIDE DEF h
    <3> QED
      BY <2>2, <3>1
  <2>4. m = node
    BY <1>2, <1>8, <2>1, <2>3
  <2>5. Variant(m) = "Decimal"
    BY <1>8, <2>4
  <2> HIDE DEF m
  <2> QED
    BY <2>4, <2>5 DEF WholeFloat, Unsigned, Floats, m
<1>9. CASE /\ ~ (v \in Unsigned \cup Signed \/ WholeFloat(node))
           /\ ~ (v \in Floats /\ h = NaN) /\ ~ (v = "F32" /\ h \in Fractions)
           /\ v \notin Quoted /\ v # "Decimal"
  <2>1. m = node
    BY <1>9 DEF TextNode
  <2> HIDE DEF m
  <2> QED
    BY <1>9, <2>1 DEF m
<1> HIDE DEF m
<1> QED
  BY <1>4, <1>5, <1>6, <1>7, <1>8, <1>9

\* A document read from text, read from text again.
LEMMA TextSettles ==
  ASSUME NEW d, IsKept(d), CanRead("text", d), AllAscii(d), NoScale(d),
         NEW e, e = Reading("text", d)
  PROVE  CanRead("text", e) /\ Reading("text", e) = e
<1>1. e = [p \in DOMAIN d |-> TextNode(d[p])] /\ ValueReadable(d)
  BY DEF Reading, NodeWise, CanRead
<1>2. ASSUME NEW p \in DOMAIN d
      PROVE  /\ TextNode(e[p]) = e[p] /\ Variant(e[p]) \notin Unsigned /\ ~ WholeFloat(e[p])
             /\ Variant(e[p]) = "TypedArray" => e[p] = d[p]
  <2>1. KeptNode(d[p]) /\ e[p] = TextNode(d[p])
    BY <1>1 DEF IsKept
  <2>2. Variant(d[p]) \in Quoted => IsAscii(Held(d[p]))
    BY DEF AllAscii, Nodes
  <2>3. Variant(d[p]) = "Decimal" => Held(d[p])[2] = 0
    BY DEF NoScale, Nodes
  <2> QED
    BY <2>1, <2>2, <2>3, TextOnce
<1>3. DOMAIN e = DOMAIN d
  BY <1>1
<1>4. ValueReadable(e)
  BY <1>1, <1>2, <1>3 DEF ValueReadable
<1>5. NodeWise(TextNode, e) = e
  <2>1. NodeWise(TextNode, e) = [p \in DOMAIN d |-> TextNode(e[p])]
    BY <1>3 DEF NodeWise
  <2>2. e = [p \in DOMAIN d |-> e[p]]
    BY <1>1, <1>3
  <2> QED
    BY <1>2, <2>1, <2>2
<1> QED
  BY <1>4, <1>5 DEF CanRead, Reading

\* No integer is unsigned that has been read as text from JSON.
LEMMA JsonTextIsSigned ==
  ASSUME NEW n, IsJson(n)
  PROVE  Variant(JsonTextNode(n)) \notin Unsigned
<1>1. \A w, x : Variant(<<w, x>>) = w /\ Held(<<w, x>>) = x
  BY DEF Variant, Held
<1>2. CASE n = <<"Integer", Held(n)>> \/ n = <<"Float", Held(n)>>
  <2>1. JsonTextNode(n) = <<"I64", Held(n)>> \/ JsonTextNode(n) = <<"F64", Held(n)>>
    BY <1>1, <1>2 DEF JsonTextNode
  <2> QED
    BY <1>1, <2>1 DEF Unsigned
<1>3. CASE Variant(n) = "String"
  <2>1. \E x : TextNode(n) = <<"String", x>>
    BY <1>3 DEF TextNode, WholeFloat, Unsigned, Signed, Floats, Quoted
  <2>2. JsonTextNode(n) = TextNode(n)
    BY <1>3 DEF JsonTextNode
  <2> QED
    BY <1>1, <2>1, <2>2 DEF Unsigned
<1>4. CASE KeptNode(n) /\ Variant(n) \notin Signed \cup Unsigned \cup Floats \cup {"String"}
  <2>1. Variant(n) \notin {"Integer", "Float"}
    BY <1>4, KeptAreNodes DEF AllVariants, SxVariants, Unsigned, Signed, Floats, Plainly,
       Tagged, TaggedString, TaggedData
  <2>2. JsonTextNode(n) = n
    BY <1>4, <2>1 DEF JsonTextNode
  <2> QED
    BY <1>4, <2>2
<1> QED
  BY <1>2, <1>3, <1>4 DEF IsJson

\* A document read as text from JSON, read so again.
LEMMA JsonTextSettles ==
  ASSUME NEW d, IsKept(d), CanRead("json_text", d), AllAscii(d),
         NEW e, e = Reading("json_text", d)
  PROVE  CanRead("json_text", e) /\ Reading("json_text", e) = e
<1> DEFINE j == ToJson(d)
<1>1. e = NodeWise(JsonTextNode, j)
  BY DEF Reading
<1>2. ToJson(e) = j
  BY <1>1, KeptAreNodes, JsonTextKeepsJson DEF IsKept
<1>3. Reading("json_text", e) = e
  BY <1>1, <1>2 DEF Reading
<1>4. DOMAIN e = DOMAIN j /\ \A p \in DOMAIN j : e[p] = JsonTextNode(j[p])
  BY <1>1 DEF NodeWise
<1>5. \A p \in DOMAIN j : IsJson(j[p])
  BY JsonNodes
<1>6. \A p \in DOMAIN e : Variant(e[p]) \notin Unsigned
  BY <1>4, <1>5, JsonTextIsSigned
<1> QED
  BY <1>3, <1>6 DEF CanRead

\* A document read from a binary file, read from one again.
LEMMA BinarySettles ==
  ASSUME NEW d, NEW e, e = Reading("binary", d)
  PROVE  CanRead("binary", e) /\ Reading("binary", e) = e
BY BinaryReading, BinaryTwice DEF CanRead

\* Every path has an outermost one before it.
LEMMA OutermostBefore ==
  ASSUME NEW P \in SUBSET Seq(Segment), NEW p \in P
  PROVE  \E t \in Outermost(P) : IsPrefix(t, p)
<1> DEFINE before == {q \in P : IsPrefix(q, p)}
           lengths == {Len(q) : q \in before}
<1>1. p \in Seq(Segment) /\ P \subseteq Seq(Segment)
  OBVIOUS
<1>2. p \in before
  BY <1>1, PrefixOfItself
<1>3. lengths \subseteq Nat /\ Len(p) \in lengths
  BY <1>2
<1>4. PICK n \in lengths : \A m \in lengths : n <= m
  BY <1>3, LeastNumber
<1>5. PICK t \in before : Len(t) = n
  BY <1>4
<1>6. ASSUME NEW q \in P, IsStrictPrefix(q, t) PROVE FALSE
  <2>1. q \in Seq(Segment) /\ t \in Seq(Segment) /\ IsPrefix(q, t) /\ q # t /\ IsPrefix(t, p)
    BY <1>1, <1>5, <1>6 DEF IsStrictPrefix
  <2>2. q \in before
    BY <1>1, <2>1, PrefixOfPrefix
  <2>3. Len(t) <= Len(q) /\ Len(q) <= Len(t)
    BY <1>4, <1>5, <2>1, <2>2 DEF IsPrefix
  <2>4. IsPrefix(t, q)
    <3>1. Len(t) = Len(q) /\ SubSeq(t, 1, Len(q)) = q
      BY <2>1, <2>3 DEF IsPrefix
    <3>2. t = q
      BY <2>1, <3>1
    <3> QED
      BY <2>1, <3>2
  <2> QED
    BY <2>1, <2>4, PrefixBothWays
<1> QED
  BY <1>5, <1>6 DEF Outermost

\* A document read from JSON, read from JSON again: its tagged nodes are the
\* objects that were read as tagged, and no others look like them.
LEMMA JsonSettles ==
  ASSUME NEW d, IsKept(d), CanRead("json", d), NEW e, e = Reading("json", d)
  PROVE  CanRead("json", e) /\ Reading("json", e) = e
<1> DEFINE j == ToJson(d)
           again == ToJson(e)
           T == Outermost(TaggedObjects(j))
<1>1. IsDocument(d) /\ DOMAIN d \subseteq Seq(Segment) /\ DOMAIN j \subseteq Seq(Segment)
  BY JsonShape DEF IsKept, IsDocument
<1>2. IsKept(e) /\ IsDocument(e)
  BY JsonTripKept DEF IsKept
<1>3. /\ DOMAIN e = Outside(j)
      /\ \A p \in T \cap Outside(j) :
           /\ Variant(e[p]) \in Tagged
           /\ Variant(e[p]) = "TypedArray" => Held(e[p])[2] # NaN
      /\ \A p \in Outside(j) : p \notin T => e[p] = LeafRead(j[p])
  BY JsonTripReads
<1>4. TaggedPaths(d) \subseteq TaggedObjects(j) /\ TaggedObjects(j) \subseteq DOMAIN j
  BY <1>1, TaggedLookTagged DEF TaggedObjects
<1>5. T \subseteq Outside(j)
  BY <1>4 DEF Outermost, Outside
<1>6. ASSUME NEW p \in TaggedObjects(j), p \in Outside(j)
      PROVE  p \in T
  <2>1. PICK t \in T : IsPrefix(t, p)
    BY <1>1, <1>4, OutermostBefore
  <2> QED
    BY <1>6, <2>1 DEF Outside, IsStrictPrefix
<1>7. ASSUME NEW p \in Outside(j), p \notin T
      PROVE  p \in DOMAIN d /\ p \notin TaggedPaths(d)
  <2>1. p \in DOMAIN d
    <3>1. SUFFICES ASSUME p \notin DOMAIN d PROVE FALSE
      OBVIOUS
    <3>2. p \in Members(d)
      BY <1>1, <3>1, JsonOf DEF Outside
    <3>3. PICK q \in TaggedPaths(d) : IsStrictPrefix(q, p) /\ p \in Seq(Segment)
      BY <1>1, <3>2, MembersAreNew DEF Members
    <3>4. PICK t \in T : IsPrefix(t, q)
      BY <1>1, <1>4, OutermostBefore
    <3>5. t \in Seq(Segment) /\ q \in Seq(Segment)
      BY <1>1, <1>4 DEF Outermost
    <3>6. IsStrictPrefix(t, p)
      <4>1. IsPrefix(q, p) /\ q # p
        BY <3>3 DEF IsStrictPrefix
      <4>2. IsPrefix(t, p)
        BY <3>3, <3>4, <3>5, <4>1, PrefixOfPrefix
      <4>3. t # p
        BY <3>3, <3>4, <3>5, <4>1, PrefixBothWays
      <4> QED
        BY <4>2, <4>3 DEF IsStrictPrefix
    <3> QED
      BY <1>7, <3>6 DEF Outside
  <2>2. p \notin TaggedPaths(d)
    BY <1>4, <1>6, <1>7
  <2> QED
    BY <2>1, <2>2
<1>8. ASSUME NEW p \in Outside(j), p \notin T
      PROVE  e[p] = LeafRead(j[p]) /\ JsonNode(e[p]) = j[p] /\ Variant(e[p]) \notin Tagged
  <2>1. p \in DOMAIN d /\ Variant(d[p]) \notin Tagged /\ Variant(d[p]) \in AllVariants
    BY <1>7, <1>8, KeptAreNodes DEF TaggedPaths, IsKept
  <2>2. j[p] = JsonNode(d[p])
    BY <1>1, <2>1, JsonOf
  <2> QED
    BY <1>3, <1>8, <2>1, <2>2, LeafReadKeepsJson
<1>9. TaggedPaths(e) = T
  BY <1>3, <1>5, <1>8 DEF TaggedPaths
<1>10. Finite(e)
  <2>1. ASSUME NEW p \in DOMAIN e, Variant(e[p]) = "TypedArray" PROVE Held(e[p])[2] # NaN
    <3>1. "TypedArray" \in Tagged
      BY DEF Tagged, TaggedData
    <3> QED
      BY <1>3, <1>8, <2>1, <3>1
  <2> QED
    BY <2>1 DEF Finite, Nodes
<1> HIDE DEF j, again, T
<1>11. TaggedObjects(again) \subseteq TaggedPaths(e)
  <2>1. SUFFICES ASSUME NEW p \in TaggedObjects(again), p \notin TaggedPaths(e) PROVE FALSE
    OBVIOUS
  <2>2. /\ DOMAIN again = DOMAIN e \cup Members(e)
        /\ \A q \in DOMAIN e : again[q] = JsonNode(e[q])
    BY <1>2, JsonOf DEF again
  <2>3. p \in DOMAIN e /\ p \in Seq(Segment)
    BY <1>2, <2>1, TaggedLookTagged DEF again, IsDocument
  <2>4. ASSUME NEW k \in TagKeys PROVE Beside(p, k) \in DOMAIN e
    <3>1. Beside(p, k) \in DOMAIN again
      BY <2>1, <2>4 DEF TaggedObjects, Beside, TagKeys
    <3>2. ASSUME Beside(p, k) \in Members(e) PROVE FALSE
      <4>1. PICK q \in TaggedPaths(e), l \in TagKeys : Beside(p, k) = Beside(q, l)
        BY <3>2 DEF Members
      <4>2. q \in Seq(Segment) /\ Key(k) \in Segment /\ Key(l) \in Segment
        BY <1>2, TagKeysAreKeys DEF TaggedPaths, IsDocument
      <4>3. p = q
        BY <2>3, <4>1, <4>2, PathEnds DEF Beside
      <4> QED
        BY <2>1, <4>3
    <3> QED
      BY <2>2, <3>1, <3>2
  <2> DEFINE r == Beside(p, TypeKey)
  <2>5. r \in DOMAIN e /\ Beside(p, ValueKey) \in DOMAIN e
    BY <2>4 DEF TagKeys
  <2>6. Variant(again[r]) = "String"
    BY <2>1 DEF TaggedObjects, Beside
  <2> HIDE DEF r
  <2>7. again[r] = j[r]
    <3>1. r \notin T
      <4>1. SUFFICES ASSUME r \in T PROVE FALSE
        OBVIOUS
      <4>2. Variant(e[r]) \in Tagged
        BY <1>9, <4>1 DEF TaggedPaths
      <4>3. again[r] = Object
        BY <1>2, <2>2, <2>5, <4>2, KeptAreNodes, JsonOfTagged
      <4> QED
        BY <2>6, <4>3 DEF Object, Variant
    <3> QED
      BY <1>3, <1>8, <2>2, <2>5, <3>1
  <2>8. p \in TaggedObjects(j)
    <3>1. {Append(p, Key(TypeKey)), Append(p, Key(ValueKey))} \subseteq DOMAIN j
      BY <1>3, <2>5 DEF r, Beside, Outside
    <3>2. Variant(j[Append(p, Key(TypeKey))]) = "String"
      BY <2>6, <2>7 DEF r, Beside
    <3>3. p \in DOMAIN j
      BY <1>3, <2>3 DEF Outside
    <3> QED
      BY <3>1, <3>2, <3>3 DEF TaggedObjects
  <2>9. p \in T
    BY <1>3, <1>6, <2>3, <2>8
  <2> QED
    BY <1>9, <2>1, <2>9
<1>12. TaggedObjects(again) = TaggedPaths(e)
  BY <1>2, <1>11, TaggedLookTagged DEF again
<1>13. /\ CanRead("json", e)
       /\ Reading("json", e) =
            [p \in DOMAIN e |->
               IF p \in TaggedPaths(e) THEN e[p] ELSE LeafRead(JsonNode(e[p]))]
  BY <1>2, <1>10, <1>12, JsonReading DEF again
<1>14. ASSUME NEW p \in DOMAIN e, p \notin TaggedPaths(e)
       PROVE  LeafRead(JsonNode(e[p])) = e[p]
  BY <1>3, <1>8, <1>9, <1>14
<1>15. e = [p \in DOMAIN e |-> e[p]]
  BY <1>2 DEF IsDocument
<1> QED
  BY <1>13, <1>14, <1>15

\* The document in the file settles, however it has come there.
LEMMA FileInvSettles == FileInv => Settles
<1> SUFFICES ASSUME FileInv, NEW reader \in Readers, CanRead(reader, file.doc),
                    reader \in {"text", "json_text"} => AllAscii(file.doc),
                    reader = "text" => NoScale(file.doc)
             PROVE  LET once == Reading(reader, file.doc)
                    IN  CanRead(reader, once) /\ Reading(reader, once) = once
  BY DEF Settles
<1>1. IsKept(file.doc)
  BY DEF FileInv
<1> QED
  BY <1>1, TextSettles, BinarySettles, JsonSettles, JsonTextSettles DEF Readers

\* Settles: wherever a document has been, what a reader makes of it the same
\* reader can read, and makes nothing else of it; for the text form, if its strings
\* are ASCII and its decimals have no scale.
THEOREM FilesAlwaysSettle == Spec => []Settles
BY FileInvBegins, FileInvStep, FileInvSettles, PTL DEF Spec

-----------------------------------------------------------------------------
(***************************************************************************)
(* Validity: what fits a type goes on fitting it.                          *)
(***************************************************************************)
\* What a trip may make of a node that fits a type: widths go, an enum becomes a
\* string, and a decimal gets another number.  Floats, URLs and addresses fit no
\* type there is.
Widened(n, m) ==
  \/ m = n
  \/ Variant(n) = "Decimal" /\ Variant(m) = "Decimal"
  \/ Variant(n) \in Signed /\ m = <<"I64", Held(n)>>
  \/ Variant(n) \in Unsigned /\ m = <<"U64", Held(n)>>
  \/ Variant(n) = "Enum" /\ m = <<"String", Held(n)>>
  \/ Variant(n) \in Floats \cup {"Url", "Email"}

\* The bases of types as parse_type makes them.
IsBase(base) ==
  /\ base[1] \in {"Primitive", "Object", "typed", "enum"}
  /\ base[1] = "Primitive" => base[2] \in Primitives

\* The variants that fit the primitive types that have only one.
LEMMA PrimitiveNames ==
  ASSUME NEW name \in Primitives, name \notin {"u16", "u32", "i8", "i16"}
  PROVE  \E v \in {"Null", "Bool", "U64", "I64", "String", "Bytes", "Uuid", "Timestamp",
                   "Date", "Duration", "Decimal", "Money", "Object", "Table"} :
           \A node : PrimitiveFits(name, node) <=> Variant(node) = v
<1> DEFINE names == [null |-> "Null", bool |-> "Bool", u64 |-> "U64", i64 |-> "I64",
                     string |-> "String", bytes |-> "Bytes", uuid |-> "Uuid",
                     timestamp |-> "Timestamp", date |-> "Date", duration |-> "Duration",
                     decimal |-> "Decimal", money |-> "Money", object |-> "Object",
                     table |-> "Table"]
<1>1. \A node : PrimitiveFits(name, node) <=> Variant(node) = names[name]
  BY DEF PrimitiveFits
<1>2. name \in {"null", "bool", "u64", "i64", "string", "bytes", "uuid", "timestamp", "date",
                "duration", "decimal", "money", "object", "table"}
  BY DEF Primitives
<1>3. names[name] \in {"Null", "Bool", "U64", "I64", "String", "Bytes", "Uuid", "Timestamp",
                       "Date", "Duration", "Decimal", "Money", "Object", "Table"}
  BY <1>2
<1> QED
  BY <1>1, <1>3

\* A widened node fits what the node fits.
LEMMA WidenedFits ==
  ASSUME NEW base, IsBase(base), NEW n, KeptNode(n), NEW m, Widened(n, m), BaseFits(base, n)
  PROVE  BaseFits(base, m)
<1> DEFINE v == Variant(n)
           h == Held(n)
<1>1. \A w, x : Variant(<<w, x>>) = w /\ Held(<<w, x>>) = x
  BY DEF Variant, Held
<1>2. /\ v \in {"U8", "U16", "U32"} => h < NarrowLimit
      /\ v \in {"I8", "I16", "I32"} => h \in (-NarrowLimit)..(NarrowLimit - 1)
  BY DEF KeptNode, IsSxNode, IsData
<1>3. SUFFICES ASSUME m # n PROVE BaseFits(base, m)
  OBVIOUS
<1>4. CASE base[1] = "Primitive"
  <2> DEFINE name == base[2]
  <2>1. name \in Primitives
    BY <1>4 DEF IsBase
  <2>2. PrimitiveFits(name, n)
    BY <1>4 DEF BaseFits
  <2> HIDE DEF v, h
  <2>3. PrimitiveFits(name, m)
    <3>1. CASE name \in {"u16", "u32"}
      <4>1. \/ v = IF name = "u16" THEN "U16" ELSE "U32"
            \/ v = "U64" /\ h < NarrowLimit
        BY <2>2, <3>1 DEF PrimitiveFits, v, h
      <4>2. v \in {"U16", "U32", "U64"} /\ h < NarrowLimit
        BY <1>2, <4>1
      <4>3. m = <<"U64", h>>
        BY <1>3, <4>2 DEF Widened, Signed, Floats, v, h
      <4>4. Variant(m) = "U64" /\ Held(m) = h
        BY <1>1, <4>3
      <4> QED
        BY <3>1, <4>2, <4>4 DEF PrimitiveFits
    <3>2. CASE name \in {"i8", "i16"}
      <4>1. \/ v = IF name = "i8" THEN "I8" ELSE "I16"
            \/ v = "I64" /\ h \in (-NarrowLimit)..(NarrowLimit - 1)
        BY <2>2, <3>2 DEF PrimitiveFits, v, h
      <4>2. v \in {"I8", "I16", "I64"} /\ h \in (-NarrowLimit)..(NarrowLimit - 1)
        BY <1>2, <4>1
      <4>3. m = <<"I64", h>>
        BY <1>3, <4>2 DEF Widened, Unsigned, Floats, v, h
      <4>4. Variant(m) = "I64" /\ Held(m) = h
        BY <1>1, <4>3
      <4> QED
        BY <3>2, <4>2, <4>4 DEF PrimitiveFits
    <3>3. CASE name \notin {"u16", "u32", "i8", "i16"}
      <4>1. PICK w \in {"Null", "Bool", "U64", "I64", "String", "Bytes", "Uuid", "Timestamp",
                        "Date", "Duration", "Decimal", "Money", "Object", "Table"} :
              \A node : PrimitiveFits(name, node) <=> Variant(node) = w
        BY <2>1, <3>3, PrimitiveNames
      <4>2. v = w
        BY <2>2, <4>1 DEF v
      <4>3. w \notin Floats \cup {"Url", "Email", "Enum"} /\ (w \in Signed => w = "I64")
            /\ (w \in Unsigned => w = "U64")
        BY DEF Floats, Signed, Unsigned
      <4>4. Variant(m) = w
        BY <1>1, <1>3, <4>2, <4>3 DEF Widened, v, h
      <4> QED
        BY <4>1, <4>4
    <3> QED
      BY <3>1, <3>2, <3>3
  <2> QED
    BY <1>4, <2>3 DEF BaseFits
<1>5. CASE base[1] = "Object"
  <2>1. v = "Object"
    BY <1>5 DEF BaseFits
  <2> QED
    BY <1>3, <2>1 DEF Widened, Signed, Unsigned, Floats
<1>6. CASE base[1] = "typed"
  <2>1. v = "TypedArray"
    BY <1>6 DEF BaseFits
  <2> QED
    BY <1>3, <2>1 DEF Widened, Signed, Unsigned, Floats
<1>7. CASE base[1] = "enum"
  <2>1. v \in {"Enum", "String"} /\ h \in Range(base[2])
    BY <1>7 DEF BaseFits
  <2> HIDE DEF v, h
  <2>2. m = <<"String", h>>
    BY <1>3, <2>1 DEF Widened, Signed, Unsigned, Floats, v, h
  <2>3. Variant(m) = "String" /\ Held(m) = h
    BY <1>1, <2>2
  <2> QED
    BY <1>7, <2>1, <2>3 DEF BaseFits
<1> QED
  BY <1>4, <1>5, <1>6, <1>7 DEF IsBase

\* Containers stay what they are.
LEMMA WidenedContainers ==
  ASSUME NEW n, NEW m, Widened(n, m), Variant(n) \in {"Array", "Object"}
  PROVE  m = n
BY DEF Widened, Signed, Unsigned, Floats

\* What each reader makes of a node is widened, under the conditions StaysValid
\* names.
LEMMA TextWidens ==
  ASSUME NEW n, KeptNode(n), Variant(n) \notin Unsigned,
         Variant(n) \in Quoted => IsAscii(Held(n))
  PROVE  Widened(n, TextNode(n))
<1> DEFINE v == Variant(n)
           h == Held(n)
           m == TextNode(n)
<1>1. n = <<v, h>>
  BY KeptAreNodes
<1>2. CASE v \in Signed
  <2>1. m = <<"I64", h>>
    BY <1>2 DEF TextNode, WholeFloat, Floats, Unsigned, Signed, Quoted
  <2> QED
    BY <1>2, <2>1 DEF Widened
<1>3. CASE v \in Floats
  BY <1>3 DEF Widened
<1>4. CASE v \in Quoted
  <2>1. v \notin Unsigned \cup Signed \cup Floats \cup {"Decimal", "F32"} /\ ~ WholeFloat(n)
    BY <1>4 DEF WholeFloat, Floats, Unsigned, Signed, Quoted
  <2>2. m = <<IF v = "Enum" THEN "String" ELSE v, h>>
    BY <1>4, <2>1 DEF TextNode
  <2> QED
    BY <1>1, <2>2 DEF Widened
<1>5. CASE v = "Decimal"
  <2>1. \E x : m = <<"Decimal", x>>
    BY <1>5 DEF TextNode, WholeFloat, Floats, Unsigned, Signed, Quoted
  <2>2. Variant(m) = "Decimal"
    BY <2>1 DEF Variant
  <2> QED
    BY <1>5, <2>2 DEF Widened
<1>6. CASE v \notin Signed \cup Floats \cup Quoted \cup {"Decimal"}
  <2>1. m = n
    BY <1>6 DEF TextNode, WholeFloat, Floats
  <2> QED
    BY <2>1 DEF Widened
<1> QED
  BY <1>2, <1>3, <1>4, <1>5, <1>6

\* The binary form widens whatever it does not keep.
LEMMA BinaryWidens ==
  ASSUME NEW n, KeptNode(n)
  PROVE  Widened(n, BinaryNode(n))
<1> DEFINE v == Variant(n)
           h == Held(n)
<1>1. n = <<v, h>>
  BY KeptAreNodes
<1>2. CASE v \in Unsigned \cup Signed
  <2>1. IF v \in Unsigned THEN BinaryNode(n) = <<"U64", h>> ELSE BinaryNode(n) = <<"I64", h>>
    BY <1>2 DEF BinaryNode, Unsigned, Signed, Floats, Plainly
  <2> QED
    BY <1>2, <2>1 DEF Widened
<1>3. CASE v \in Plainly
  <2>1. BinaryNode(n) = <<"String", h>>
    BY <1>3 DEF BinaryNode, Unsigned, Signed, Floats, Plainly
  <2> QED
    BY <1>1, <1>3, <2>1 DEF Widened, Plainly
<1>4. CASE v \in Floats
  BY <1>4 DEF Widened
<1>5. CASE v \notin Unsigned \cup Signed \cup Floats \cup Plainly
  <2>1. BinaryNode(n) = n
    BY <1>5 DEF BinaryNode
  <2> QED
    BY <2>1 DEF Widened
<1> QED
  BY <1>2, <1>3, <1>4, <1>5

\* The variants of nodes that JSON has no number for, and no tag, and no string.
LEMMA OtherVariants ==
  ASSUME NEW n, KeptNode(n),
         Variant(n) \notin Unsigned \cup Signed \cup Floats \cup Plainly \cup Tagged
  PROVE  Variant(n) \in {"Null", "Bool", "Array", "Object", "Data"}
BY KeptAreNodes DEF AllVariants, SxVariants

\* So does JSON, read as JSON or as text.
LEMMA JsonWidens ==
  ASSUME NEW n, KeptNode(n), Variant(n) \notin Unsigned \cup Tagged,
         Variant(n) \in Quoted => IsAscii(Held(n))
  PROVE  Widened(n, LeafRead(JsonNode(n))) /\ Widened(n, JsonTextNode(JsonNode(n)))
<1> DEFINE v == Variant(n)
           h == Held(n)
           j == JsonNode(n)
<1>1. n = <<v, h>> /\ (v \in Signed => h \in I64)
  BY KeptAreNodes DEF IsNode, Signed
<1>2. \A w, x : Variant(<<w, x>>) = w /\ Held(<<w, x>>) = x
  BY DEF Variant, Held
<1>3. j = IF v \in Unsigned \cup Signed THEN <<"Integer", h>>
          ELSE IF v \in Floats THEN IF h = NaN THEN Null ELSE <<"Float", h>>
          ELSE IF v \in Plainly THEN <<"String", h>>
          ELSE IF v \in Tagged THEN Object ELSE n
  BY JsonNodeIsJson
<1> HIDE DEF j
<1>4. CASE v \in Signed
  <2>1. j = <<"Integer", h>>
    BY <1>3, <1>4
  <2>2. LeafRead(j) = <<"I64", h>> /\ JsonTextNode(j) = <<"I64", h>>
    BY <1>1, <1>2, <1>4, <2>1 DEF LeafRead, NumberRead, JsonTextNode
  <2> QED
    BY <1>4, <2>2 DEF Widened, j
<1>5. CASE v \in Floats
  BY <1>5 DEF Widened
<1>6. CASE v \in Plainly
  <2>1. j = <<"String", h>> /\ Variant(j) = "String" /\ Held(j) = h
    BY <1>2, <1>3, <1>6 DEF Plainly, Unsigned, Signed, Floats
  <2>2. IsAscii(h)
    BY <1>6 DEF Plainly, Quoted
  <2>3. LeafRead(j) = j
    BY <2>1 DEF LeafRead
  <2>4. TextNode(j) = <<"String", h>>
    BY <2>1, <2>2 DEF TextNode, WholeFloat, Floats, Unsigned, Signed, Quoted
  <2>5. JsonTextNode(j) = j
    BY <2>1, <2>4 DEF JsonTextNode
  <2> QED
    BY <1>1, <1>6, <2>1, <2>3, <2>5 DEF Widened, Plainly, j
<1>7. CASE v \notin Signed \cup Floats \cup Plainly
  <2>1. j = n /\ v \in {"Null", "Bool", "Array", "Object", "Data"}
    BY <1>3, <1>7, OtherVariants
  <2>2. LeafRead(j) = n /\ JsonTextNode(j) = n
    BY <2>1 DEF LeafRead, JsonTextNode
  <2> QED
    BY <2>2 DEF Widened, j
<1> QED
  BY <1>4, <1>5, <1>6, <1>7

\* The bases of the types in schemas that have been parsed.
LEMMA SchemasTyped ==
  ASSUME NEW s \in Kept, NEW i \in DOMAIN s
  PROVE  IsBase(s[i].type.base)
<1>1. s # NoSchema
  BY DEF NoSchema
<1>2. PICK lines \in Schemas : CanParse(lines) /\ s = parse_schema(lines)
  BY <1>1 DEF Kept
<1>3. DOMAIN s = DOMAIN lines /\ s[i] = parse_field_line(lines[i])
  BY <1>2 DEF parse_schema
<1> DEFINE line == lines[i]
           base == line.type.base
<1>4. IsField(line)
  BY <1>2, <1>3, StoredConstants
<1>5. s[i] = [line EXCEPT !.type = parse_type(@), !.default = TextNode(@)]
  BY <1>3 DEF parse_field_line
<1>6. DOMAIN line = {"id", "name", "type", "optional", "default"}
      /\ DOMAIN line.type = {"layers", "base"} /\ base[1] \in {"Name", "typed", "enum"}
  BY <1>4 DEF IsField
<1>7. s[i].type = parse_type(line.type)
  BY <1>5, <1>6
<1>8. s[i].type.base = IF base[1] = "Name"
                       THEN <<IF base[2] \in Primitives THEN "Primitive" ELSE "Object", base[2]>>
                       ELSE base
  BY <1>6, <1>7 DEF parse_type
<1> HIDE DEF base
<1>9. CASE base[1] = "Name"
  <2>1. s[i].type.base = <<IF base[2] \in Primitives THEN "Primitive" ELSE "Object", base[2]>>
    BY <1>8, <1>9
  <2> QED
    BY <2>1 DEF IsBase
<1>10. CASE base[1] \in {"typed", "enum"}
  BY <1>8, <1>10 DEF IsBase
<1> QED
  BY <1>6, <1>9, <1>10 DEF base

\* The value at a path, said of the value itself.
LEMMA ValueAtIs ==
  ASSUME NEW d, NEW p \in Seq(Segment), DOMAIN d \subseteq Seq(Segment)
  PROVE  /\ DOMAIN ValueAt(d, p) \subseteq Seq(Segment)
         /\ \A q \in Seq(Segment) : q \in DOMAIN ValueAt(d, p) <=> p \o q \in DOMAIN d
         /\ \A q \in DOMAIN ValueAt(d, p) : ValueAt(d, p)[q] = d[p \o q]
<1> DEFINE e == ValueAt(d, p)
<1>1. e = ValueAt(d, p)
  OBVIOUS
<1> HIDE DEF e
<1>2. /\ DOMAIN e \subseteq Seq(Segment)
      /\ \A q \in Seq(Segment) : q \in DOMAIN e <=> p \o q \in DOMAIN d
      /\ \A q \in DOMAIN e : e[q] = d[p \o q]
  BY <1>1, ValueAtParts
<1> QED
  BY <1>1, <1>2, Zenon

\* A document whose nodes are widened stays valid.
LEMMA WidenedValid ==
  ASSUME NEW d, IsKept(d), NEW e, DOMAIN e = DOMAIN d,
         \A p \in DOMAIN d : Widened(d[p], e[p]),
         NEW s \in Kept, validate(s, d)
  PROVE  validate(s, e)
<1>1. /\ DOMAIN d \subseteq Seq(Segment) /\ Root \in DOMAIN d
      /\ \A p \in DOMAIN d : KeptNode(d[p])
  BY DEF IsKept, IsDocument
<1>2. Variant(e[Root]) = "Object"
  <2>1. Variant(d[Root]) = "Object"
    BY DEF validate
  <2> QED
    BY <1>1, <2>1, WidenedContainers
<1>3. MemberKeys(e, Root) = MemberKeys(d, Root)
  BY DEF MemberKeys
<1>4. ASSUME NEW i \in DOMAIN s, s[i].name \in MemberKeys(d, Root)
      PROVE  validate_type(s[i].type, ValueAt(e, <<Key(s[i].name)>>))
  <2> DEFINE q == <<Key(s[i].name)>>
             v == ValueAt(d, q)
             w == ValueAt(e, q)
             type == s[i].type
  <2>1. validate_type(type, v)
    BY <1>4 DEF validate
  <2>2. q \in Seq(Segment)
    BY <1>4, SegmentKinds DEF MemberKeys
  <2> HIDE DEF q
  <2>3. /\ DOMAIN v \subseteq Seq(Segment)
        /\ \A p \in Seq(Segment) : p \in DOMAIN v <=> q \o p \in DOMAIN d
        /\ \A p \in DOMAIN v : v[p] = d[q \o p]
    BY <1>1, <2>2, ValueAtIs, Zenon
  <2>4. /\ DOMAIN w \subseteq Seq(Segment)
        /\ \A p \in Seq(Segment) : p \in DOMAIN w <=> q \o p \in DOMAIN e
        /\ \A p \in DOMAIN w : w[p] = e[q \o p]
    BY <1>1, <2>2, ValueAtIs, Zenon
  <2>5. IsBase(type.base)
    BY SchemasTyped
  <2> HIDE DEF v, w, type
  <2>6. ASSUME NEW p \in DOMAIN w
        PROVE  /\ Len(p) < type.layers => Variant(w[p]) = "Array"
               /\ Len(p) = type.layers => BaseFits(type.base, w[p])
    <3>1. p \in DOMAIN v /\ KeptNode(v[p]) /\ Widened(v[p], w[p])
      BY <1>1, <2>3, <2>4
    <3>2. /\ Len(p) < type.layers => Variant(v[p]) = "Array"
          /\ Len(p) = type.layers => BaseFits(type.base, v[p])
      BY <2>1, <3>1 DEF validate_type
    <3> QED
      BY <2>5, <3>1, <3>2, WidenedContainers, WidenedFits
  <2> QED
    BY <2>6 DEF validate_type, q, w, type
<1>5. \A i \in DOMAIN s : s[i].name \notin MemberKeys(d, Root) => ~ Needed(s[i])
  BY DEF validate
<1> QED
  BY <1>2, <1>3, <1>4, <1>5 DEF validate

\* So does a document that has been through a file.
LEMMA TripStaysValid ==
  ASSUME NEW d, IsKept(d), NEW s \in Kept, validate(s, d),
         NEW reader \in Readers, CanRead(reader, d),
         reader # "binary" =>
           AllAscii(d) /\ \A node \in Nodes(d) : Variant(node) \notin Unsigned,
         reader \in {"json", "json_text"} => TaggedObjects(ToJson(d)) = {}
  PROVE  validate(s, Reading(reader, d))
<1> DEFINE e == Reading(reader, d)
           j == ToJson(d)
<1>1. \A p \in DOMAIN d : KeptNode(d[p]) /\ d[p] \in Nodes(d)
  BY DEF IsKept, Nodes
<1>2. ASSUME reader # "binary", NEW p \in DOMAIN d
      PROVE  /\ Variant(d[p]) \notin Unsigned
             /\ Variant(d[p]) \in Quoted => IsAscii(Held(d[p]))
  BY <1>1, <1>2 DEF AllAscii
<1>3. ASSUME reader \in {"json", "json_text"}
      PROVE  /\ DOMAIN j = DOMAIN d
             /\ \A p \in DOMAIN d : j[p] = JsonNode(d[p]) /\ Variant(d[p]) \notin Tagged
  <2>1. IsDocument(d)
    BY DEF IsKept
  <2>2. TaggedPaths(d) = {}
    BY <1>3, <2>1, TaggedLookTagged
  <2>3. Members(d) = {}
    BY <2>2 DEF Members
  <2> QED
    BY <2>1, <2>2, <2>3, JsonOf DEF TaggedPaths
<1>4. CASE reader = "text"
  <2>1. e = [p \in DOMAIN d |-> TextNode(d[p])]
    BY <1>4 DEF Reading, NodeWise
  <2>2. \A p \in DOMAIN d : Widened(d[p], TextNode(d[p]))
    BY <1>1, <1>2, <1>4, TextWidens
  <2> HIDE DEF e
  <2> QED
    BY <2>1, <2>2, WidenedValid DEF e
<1>5. CASE reader = "binary"
  <2>1. e = [p \in DOMAIN d |-> BinaryNode(d[p])]
    BY <1>5 DEF Reading, NodeWise
  <2>2. \A p \in DOMAIN d : Widened(d[p], BinaryNode(d[p]))
    BY <1>1, BinaryWidens
  <2> HIDE DEF e
  <2> QED
    BY <2>1, <2>2, WidenedValid DEF e
<1>6. CASE reader = "json"
  <2>1. Outside(j) = DOMAIN j /\ Outermost(TaggedObjects(j)) = {}
    BY <1>6 DEF Outside, Outermost
  <2>2. CanRead("json", d) /\ e = Reading("json", d)
    BY <1>6
  <2>3. DOMAIN e = Outside(j) /\ \A p \in Outside(j) : e[p] = LeafRead(j[p])
    BY <2>1, <2>2, JsonTripReads
  <2>4. \A p \in DOMAIN d : Widened(d[p], LeafRead(JsonNode(d[p])))
    BY <1>1, <1>2, <1>3, <1>6, JsonWidens
  <2> HIDE DEF e, j
  <2>5. DOMAIN e = DOMAIN d /\ \A p \in DOMAIN d : Widened(d[p], e[p])
    BY <1>3, <1>6, <2>1, <2>3, <2>4
  <2> QED
    BY <2>5, WidenedValid DEF e
<1>7. CASE reader = "json_text"
  <2>1. e = [p \in DOMAIN j |-> JsonTextNode(j[p])]
    BY <1>7 DEF Reading, NodeWise
  <2>2. \A p \in DOMAIN d : Widened(d[p], JsonTextNode(JsonNode(d[p])))
    BY <1>1, <1>2, <1>3, <1>7, JsonWidens
  <2> HIDE DEF e, j
  <2>3. DOMAIN e = DOMAIN d /\ \A p \in DOMAIN d : Widened(d[p], e[p])
    BY <1>3, <1>7, <2>1, <2>2
  <2> QED
    BY <2>3, WidenedValid DEF e
<1> QED
  BY <1>4, <1>5, <1>6, <1>7 DEF Readers

\* A path that begins with a key.
LEMMA KeyFirst ==
  ASSUME NEW k \in Keys
  PROVE  /\ <<Key(k)>> \in Seq(Segment) /\ <<Key(k)>> # Root
         /\ Append(Root, Key(k)) = <<Key(k)>>
         /\ \A q \in Seq(Segment) : /\ <<Key(k)>> \o q \in Seq(Segment) /\ <<Key(k)>> \o q # Root
                                    /\ (<<Key(k)>> \o q)[1] = Key(k)
                                    /\ Tail(<<Key(k)>> \o q) = q
<1>1. Key(k) \in Segment
  BY SegmentKinds
<1> HIDE DEF Key, Segment
<1> QED
  BY <1>1 DEF Root

\* A step of a plan that copies a field finds it in the old schema, and gives it
\* no other type.
LEMMA CopiesKeepTypes ==
  ASSUME NEW old, SchemaKept(old), NEW new,
         NEW s \in check_compatibility(old, new).steps,
         s.kind \in {"CopyField", "RenameField"}
  PROVE  \E i \in DOMAIN old : s.from = old[i] /\ s.from.type = s.to.type
<1> DEFINE kept == {KeepStep(ById(old, id), ById(new, id)) : id \in Ids(old) \cap Ids(new)}
           removed == {RemoveStep(ById(old, id)) : id \in Ids(old) \ Ids(new)}
           added == {AddStep(ById(new, id)) : id \in Ids(new) \ Ids(old)}
<1>1. s \in kept \cup removed \cup added
  BY DEF check_compatibility
<1>2. s \notin removed
  BY DEF RemoveStep
<1>3. s \notin added
  <2>1. ASSUME NEW id, s = AddStep(ById(new, id)) PROVE FALSE
    BY <2>1 DEF AddStep
  <2> QED
    BY <2>1
<1>4. PICK id \in Ids(old) \cap Ids(new) : s = KeepStep(ById(old, id), ById(new, id))
  BY <1>1, <1>2, <1>3
<1>5. s.from = ById(old, id) /\ s.to = ById(new, id) /\ s.from.type = s.to.type
  BY <1>4 DEF KeepStep
<1>6. \E i \in DOMAIN old : ById(old, id) = old[i]
  BY ByIdFinds DEF SchemaKept
<1> QED
  BY <1>5, <1>6

\* What a plan that is compatible, to a sound schema, makes of a valid document.
LEMMA MigratedValid ==
  ASSUME NEW d, IsKept(d), NEW old \in Kept, NEW new \in Kept, Sound(old, new),
         validate(old, d),
         NEW report, report = check_compatibility(old, new), report.compatible
  PROVE  validate(new, Migrated(d, report.steps))
<1> DEFINE steps == report.steps
           copied == {s \in steps : /\ s.kind \in {"CopyField", "RenameField"}
                                    /\ s.from.name \in MemberKeys(d, Root)}
           added == {s \in steps : s.kind = "AddDefaultField"}
           StepTo(name) == CHOOSE s \in copied \cup added : s.to.name = name
           names == {s.to.name : s \in copied \cup added}
           f == [name \in names |->
                   IF StepTo(name) \in copied
                   THEN ValueAt(d, <<Key(StepTo(name).from.name)>>)
                   ELSE Leaf(StepTo(name).to.default)]
           e == ObjectOf(f)
<1>1. Migrated(d, steps) = e
  BY DEF Migrated
<1>2. SchemaKept(old) /\ SchemaKept(new)
  BY SchemasKept
<1>3. /\ \A i, j \in DOMAIN new : i # j => new[i].id # new[j].id /\ new[i].name # new[j].name
      /\ \A i \in DOMAIN old, j \in DOMAIN new :
           old[i].id = new[j].id => (Needed(new[j]) => Needed(old[i]))
      /\ \A j \in DOMAIN new :
           new[j].default # NoDefault => validate_type(new[j].type, Leaf(new[j].default))
  BY DEF Sound
<1>4. ASSUME NEW s \in steps
      PROVE  /\ s.kind # "IncompatibleChange"
             /\ \E j \in DOMAIN new :
                  s.to = new[j] /\ (s.kind = "AddDefaultField" => s.to.default # NoDefault)
  <2>1. s.kind # "IncompatibleChange"
    BY DEF check_compatibility
  <2> QED
    BY <1>2, <2>1, StepsLeadSomewhere
<1>5. ASSUME NEW s \in copied
      PROVE  \E i \in DOMAIN old : s.from = old[i] /\ s.from.type = s.to.type
  BY <1>2, <1>4, CopiesKeepTypes
<1>6. ASSUME NEW name \in names
      PROVE  /\ name \in Keys /\ IsKept(f[name])
             /\ \A j \in DOMAIN new : new[j].name = name => validate_type(new[j].type, f[name])
  <2> DEFINE s == StepTo(name)
  <2>1. s \in copied \cup added /\ s.to.name = name
    <3>1. \E t \in copied \cup added : t.to.name = name
      OBVIOUS
    <3> QED
      BY <3>1
  <2>2. f[name] = IF s \in copied THEN ValueAt(d, <<Key(s.from.name)>>)
                  ELSE Leaf(s.to.default)
    OBVIOUS
  <2> HIDE DEF s, f
  <2>3. PICK j \in DOMAIN new :
          s.to = new[j] /\ (s.kind = "AddDefaultField" => s.to.default # NoDefault)
    BY <1>4, <2>1
  <2>4. name \in Keys /\ \A i \in DOMAIN new : new[i].name = name => i = j
    BY <1>2, <1>3, <2>1, <2>3 DEF SchemaKept
  <2>5. CASE s \in copied
    <3> DEFINE k == s.from.name
    <3>1. k \in MemberKeys(d, Root)
      BY <2>5
    <3>2. PICK i \in DOMAIN old : s.from = old[i] /\ s.from.type = s.to.type
      BY <1>5, <2>5
    <3>3. validate_type(new[j].type, ValueAt(d, <<Key(k)>>))
      BY <2>3, <3>1, <3>2 DEF validate
    <3>4. <<Key(k)>> \in DOMAIN d
      <4>1. Append(Root, Key(k)) = <<Key(k)>>
        BY DEF Root
      <4> HIDE DEF k
      <4> QED
        BY <3>1, <4>1 DEF MemberKeys
    <3>5. IsKept(ValueAt(d, <<Key(k)>>))
      BY <3>4, ValueAtKept
    <3> QED
      BY <2>2, <2>4, <2>5, <3>3, <3>5
  <2>6. CASE s \notin copied
    <3>1. s.to.default # NoDefault
      BY <2>1, <2>3, <2>6
    <3>2. IsKept(Leaf(s.to.default)) /\ validate_type(new[j].type, Leaf(s.to.default))
      BY <1>2, <1>3, <2>3, <3>1 DEF SchemaKept
    <3> QED
      BY <2>2, <2>4, <2>6, <3>2
  <2> QED
    BY <2>5, <2>6
<1>7. DOMAIN f = names
  OBVIOUS
<1>8. ASSUME NEW j \in DOMAIN new, new[j].name \notin names
      PROVE  ~ Needed(new[j])
  <2> DEFINE id == new[j].id
  <2>1. ById(new, id) = new[j] /\ id \in Ids(new)
    <3>1. id \in Ids(new)
      BY DEF Ids
    <3>2. Len(new) \in Nat /\ DOMAIN new = 1..Len(new)
      BY <1>2 DEF SchemaKept
    <3> HIDE DEF id
    <3>3. PICK i \in DOMAIN new : ById(new, id) = new[i] /\ new[i].id = id
      BY <3>1, <3>2, ByIdFinds
    <3>4. i = j
      BY <1>3, <3>3 DEF id
    <3> QED
      BY <3>1, <3>3, <3>4
  <2>2. CASE id \in Ids(old)
    <3> DEFINE s == KeepStep(ById(old, id), ById(new, id))
    <3>1. s \in steps
      BY <2>1, <2>2 DEF check_compatibility
    <3>2. PICK i \in DOMAIN old : ById(old, id) = old[i] /\ old[i].id = id
      BY <1>2, <2>2, ByIdFinds DEF SchemaKept
    <3>3. s.from = old[i] /\ s.to = new[j] /\ s.kind # "IncompatibleChange"
      BY <1>4, <2>1, <3>1, <3>2 DEF KeepStep
    <3>4. s.kind \in {"CopyField", "RenameField"}
      BY <3>3 DEF KeepStep
    <3> HIDE DEF s
    <3>5. old[i].name \notin MemberKeys(d, Root)
      <4>1. s \notin copied
        BY <1>8, <3>3
      <4> QED
        BY <3>1, <3>3, <3>4, <4>1
    <3>6. ~ Needed(old[i])
      BY <3>5 DEF validate
    <3> QED
      BY <1>3, <3>2, <3>6
  <2>3. CASE id \notin Ids(old)
    <3> DEFINE s == AddStep(ById(new, id))
    <3>1. s \in steps
      BY <2>1, <2>3 DEF check_compatibility
    <3>2. s.kind # "IncompatibleChange"
      BY <1>4, <3>1
    <3> QED
      BY <2>1, <3>2 DEF AddStep, Needed
  <2> QED
    BY <2>2, <2>3
<1> HIDE DEF f, names
<1>9. /\ DOMAIN f \subseteq Keys
      /\ \A k \in DOMAIN f : IsKept(f[k]) /\ IsDocument(f[k]) /\ Root \in DOMAIN f[k]
                             /\ DOMAIN f[k] \subseteq Seq(Segment)
  BY <1>6, <1>7 DEF IsKept, IsDocument
<1>10. /\ DOMAIN e \subseteq Seq(Segment) /\ Root \in DOMAIN e /\ e[Root] = Object
       /\ \A q \in Seq(Segment) : q # Root =>
            (q \in DOMAIN e <=> /\ q[1][1] = "Key" /\ q[1][2] \in DOMAIN f
                                /\ Tail(q) \in DOMAIN f[q[1][2]])
       /\ \A q \in DOMAIN e : q # Root => e[q] = f[q[1][2]][Tail(q)]
  BY <1>9, ObjectOfParts
<1> HIDE DEF e
<1>11. ASSUME NEW k \in Keys
       PROVE  /\ k \in MemberKeys(e, Root) <=> k \in names
              /\ k \in names => \A type : validate_type(type, f[k]) =>
                                   validate_type(type, ValueAt(e, <<Key(k)>>))
  <2>1. /\ <<Key(k)>> \in Seq(Segment) /\ <<Key(k)>> # Root
        /\ Append(Root, Key(k)) = <<Key(k)>>
        /\ \A q \in Seq(Segment) : /\ <<Key(k)>> \o q \in Seq(Segment) /\ <<Key(k)>> \o q # Root
                                   /\ (<<Key(k)>> \o q)[1] = Key(k)
                                   /\ Tail(<<Key(k)>> \o q) = q
    BY KeyFirst
  <2>2. Key(k)[1] = "Key" /\ Key(k)[2] = k /\ Tail(<<Key(k)>>) = Root /\ <<Key(k)>>[1] = Key(k)
    BY DEF Key, Root
  <2> HIDE DEF Key
  <2>3. k \in MemberKeys(e, Root) <=> <<Key(k)>> \in DOMAIN e
    BY <2>1 DEF MemberKeys
  <2>4. k \in MemberKeys(e, Root) <=> k \in names
    <3> DEFINE q == <<Key(k)>>
    <3>1. q \in Seq(Segment) /\ q # Root /\ q[1][1] = "Key" /\ q[1][2] = k /\ Tail(q) = Root
      BY <2>1, <2>2
    <3>2. k \in MemberKeys(e, Root) <=> q \in DOMAIN e
      BY <2>3
    <3> HIDE DEF q
    <3>3. q \in DOMAIN e <=> k \in DOMAIN f /\ Root \in DOMAIN f[k]
      BY <1>10, <3>1
    <3> QED
      BY <1>7, <1>9, <3>2, <3>3
  <2>5. ASSUME k \in names, NEW type, validate_type(type, f[k])
        PROVE  validate_type(type, ValueAt(e, <<Key(k)>>))
    <3> DEFINE v == ValueAt(e, <<Key(k)>>)
    <3>1. /\ DOMAIN v \subseteq Seq(Segment)
          /\ \A q \in Seq(Segment) : q \in DOMAIN v <=> <<Key(k)>> \o q \in DOMAIN e
          /\ \A q \in DOMAIN v : v[q] = e[<<Key(k)>> \o q]
      <4> DEFINE r == <<Key(k)>>
      <4>1. r \in Seq(Segment) /\ DOMAIN e \subseteq Seq(Segment)
        BY <1>10, <2>1
      <4> HIDE DEF r
      <4>2. /\ DOMAIN ValueAt(e, r) \subseteq Seq(Segment)
            /\ \A q \in Seq(Segment) : q \in DOMAIN ValueAt(e, r) <=> r \o q \in DOMAIN e
            /\ \A q \in DOMAIN ValueAt(e, r) : ValueAt(e, r)[q] = e[r \o q]
        BY <4>1, ValueAtIs, Zenon
      <4> QED
        BY <4>2 DEF r
    <3> HIDE DEF v
    <3>2. ASSUME NEW q \in DOMAIN v
          PROVE  q \in DOMAIN f[k] /\ v[q] = f[k][q]
      <4> DEFINE r == <<Key(k)>> \o q
      <4>1. r \in DOMAIN e /\ r \in Seq(Segment) /\ r # Root /\ r[1] = Key(k) /\ Tail(r) = q
        BY <2>1, <3>1
      <4>2. v[q] = e[r]
        BY <3>1
      <4> HIDE DEF r
      <4> QED
        BY <1>10, <2>2, <4>1, <4>2
    <3> QED
      BY <2>5, <3>2 DEF validate_type, v
  <2> QED
    BY <2>4, <2>5
<1>12. ASSUME NEW j \in DOMAIN new
       PROVE  IF new[j].name \in MemberKeys(e, Root)
              THEN validate_type(new[j].type, ValueAt(e, <<Key(new[j].name)>>))
              ELSE ~ Needed(new[j])
  BY <1>2, <1>6, <1>8, <1>11 DEF SchemaKept
<1>13. validate(new, e)
  BY <1>10, <1>12 DEF validate, Object, Variant
<1> QED
  BY <1>1, <1>13

\* What StaysValid says of a step.
StepStaysValid ==
  /\ schema # NoSchema /\ validate(schema, file.doc) /\ outcome' = "ok"
  /\ file.form # "binary" =>
       AllAscii(file.doc) /\ \A node \in Nodes(file.doc) : Variant(node) \notin Unsigned
  /\ file.form = "json" => TaggedObjects(ToJson(file.doc)) = {}
  /\ schema' # schema => Sound(schema, schema')
  => validate(schema', file'.doc)

\* Trips read the file in a way its form allows, and an upgrade is to another
\* schema.
LEMMA StepsRead ==
  ASSUME Next, file.form \in Forms
  PROVE  \/ Upgrade /\ schema' # schema
         \/ \E reader \in Readers, to \in Forms :
              /\ Trip(reader, to)
              /\ reader = "binary" <=> file.form = "binary"
              /\ reader \in {"json", "json_text"} <=> file.form = "json"
<1>1. CASE Convert
  <2>1. PICK to \in Forms : Trip(load_value(file.form), to)
    BY <1>1 DEF Convert
  <2>2. /\ load_value(file.form) \in Readers
        /\ load_value(file.form) = "binary" <=> file.form = "binary"
        /\ load_value(file.form) \in {"json", "json_text"} <=> file.form = "json"
    BY DEF load_value, Forms, Readers
  <2> QED
    BY <2>1, <2>2
<1>2. CASE Import
  <2>1. PICK to \in Forms : Trip("json", to)
    BY <1>2 DEF Import
  <2>2. "json" \in Readers /\ file.form = "json"
    BY <1>2 DEF Readers, Import
  <2> QED
    BY <2>1, <2>2
<1>3. CASE Upgrade
  BY <1>3 DEF Upgrade
<1> QED
  BY <1>1, <1>2, <1>3 DEF Next

\* Every step keeps a valid document valid.
LEMMA FileInvStaysValid == FileInv /\ [Next]_vars => [StepStaysValid]_vars
<1> SUFFICES ASSUME FileInv, [Next]_vars,
                    schema # NoSchema, validate(schema, file.doc), outcome' = "ok",
                    file.form # "binary" =>
                      /\ AllAscii(file.doc)
                      /\ \A node \in Nodes(file.doc) : Variant(node) \notin Unsigned,
                    file.form = "json" => TaggedObjects(ToJson(file.doc)) = {},
                    schema' # schema => Sound(schema, schema')
             PROVE  validate(schema', file'.doc) \/ UNCHANGED vars
  BY DEF StepStaysValid
<1>1. file.form \in Forms /\ IsKept(file.doc) /\ schema \in Kept
      /\ file = [form |-> file.form, doc |-> file.doc]
  BY DEF FileInv
<1>2. ASSUME NEW reader \in Readers, CanRead(reader, file.doc),
             reader = "binary" <=> file.form = "binary",
             reader \in {"json", "json_text"} <=> file.form = "json"
      PROVE  validate(schema, Reading(reader, file.doc))
  BY <1>1, <1>2, TripStaysValid
<1>3. ASSUME NEW reader \in Readers, NEW to \in Forms, Trip(reader, to),
             reader = "binary" <=> file.form = "binary",
             reader \in {"json", "json_text"} <=> file.form = "json"
      PROVE  validate(schema', file'.doc)
  <2>1. /\ schema' = schema /\ CanRead(reader, file.doc)
        /\ file' = [form |-> to, doc |-> Reading(reader, file.doc)]
    BY <1>3, TripReads
  <2>2. file'.doc = Reading(reader, file.doc)
    BY <2>1
  <2>3. validate(schema, Reading(reader, file.doc))
    BY <1>2, <1>3, <2>1
  <2> QED
    BY <2>1, <2>2, <2>3
<1>4. ASSUME Upgrade, schema' # schema
      PROVE  validate(schema', file'.doc)
  <2> DEFINE value == Reading(file.form, file.doc)
  <2>1. PICK new \in Kept : /\ check_compatibility(schema, new).compatible /\ schema' = new
                            /\ file' = [file EXCEPT !.doc =
                                 Migrated(value, check_compatibility(schema, new).steps)]
    BY <1>4, UpgradeReads
  <2>2. CanRead(file.form, file.doc) /\ file.form \in Readers /\ file.form # "json_text"
    BY <1>1, <1>4, UpgradeReads DEF Forms, Readers
  <2>3. IsKept(value) /\ validate(schema, value)
    BY <1>1, <1>2, <2>2, TripKept
  <2> HIDE DEF value
  <2>4. validate(new, Migrated(value, check_compatibility(schema, new).steps))
    BY <1>1, <1>4, <2>1, <2>3, MigratedValid
  <2> DEFINE m == Migrated(value, check_compatibility(schema, new).steps)
  <2> HIDE DEF m
  <2>5. file' = [file EXCEPT !.doc = m]
    BY <2>1 DEF m
  <2>6. file'.doc = m
    BY <1>1, <2>5
  <2> QED
    BY <2>1, <2>4, <2>6 DEF m
<1> QED
  BY <1>1, <1>3, <1>4, StepsRead

\* StaysValid: a valid document stays valid on every trip through a binary file,
\* on one through text or untagged JSON if it has no unsigned integers and no
\* strings that are not ASCII, and on every compatible upgrade to a sound schema.
THEOREM AlwaysStaysValid == Spec => StaysValid
<1>1. Init => FileInv
  BY FileInvBegins
<1>2. FileInv /\ [Next]_vars => FileInv'
  BY FileInvStep
<1>3. FileInv /\ [Next]_vars => [StepStaysValid]_vars
  BY FileInvStaysValid
<1>4. StaysValid <=> [][StepStaysValid]_vars
  BY DEF StaysValid, StepStaysValid
<1> QED
  BY <1>1, <1>2, <1>3, <1>4, PTL DEF Spec
=============================================================================
