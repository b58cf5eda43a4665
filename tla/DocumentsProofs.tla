--------------------------- MODULE DocumentsProofs ---------------------------
(***************************************************************************)
(* What the operations on documents leave behind: a document, whatever the *)
(* document, the path and the value are.                                   *)
(***************************************************************************)
EXTENDS Documents, SequenceTheorems, WellFoundedInduction, TLAPS
-----------------------------------------------------------------------------
(***************************************************************************)
(* Paths: what comes before a path, and what is left of it.                *)
(***************************************************************************)
\* What Append puts at the end, Front and Last take apart again.
LEMMA PathEnds ==
  ASSUME NEW S, NEW t \in Seq(S), NEW s \in S
  PROVE  /\ Append(t, s) \in Seq(S) /\ Append(t, s) # <<>>
         /\ Front(Append(t, s)) = t /\ Last(Append(t, s)) = s
BY DEF Front, Last

\* A path that is not empty is its front and its last segment.
LEMMA PathSplits ==
  ASSUME NEW S, NEW q \in Seq(S), q # <<>>
  PROVE  /\ Front(q) \in Seq(S) /\ Last(q) \in S /\ Append(Front(q), Last(q)) = q
         /\ Len(Front(q)) = Len(q) - 1 /\ Len(q) > 0
<1> DEFINE a == Append(Front(q), Last(q))
<1>1. Len(q) \in Nat /\ Len(q) > 0
  OBVIOUS
<1>2. \A i \in 1..(Len(q) - 1) : q[i] \in S
  BY <1>1
<1>3. /\ Front(q) \in Seq(S) /\ Len(Front(q)) = Len(q) - 1
      /\ \A i \in 1..(Len(q) - 1) : Front(q)[i] = q[i]
  <2> DEFINE n == Len(q) - 1
  <2>1. n \in Int /\ 1 \in Int /\ \A i \in 1..n : q[i] \in S
    BY <1>1, <1>2
  <2>2. /\ SubSeq(q, 1, n) \in Seq(S)
        /\ Len(SubSeq(q, 1, n)) = IF 1 <= n THEN n - 1 + 1 ELSE 0
        /\ \A i \in 1..(n - 1 + 1) : SubSeq(q, 1, n)[i] = q[1 + i - 1]
    <3> HIDE DEF n
    <3> QED
      BY <2>1, SubSeqProperties
  <2>3. Front(q) = SubSeq(q, 1, n)
    BY DEF Front
  <2>4. n \in Nat
    BY <1>1
  <2> HIDE DEF n
  <2>5. n - 1 + 1 = n /\ (~ (1 <= n) => n = 0) /\ \A i \in 1..n : 1 + i - 1 = i
    BY <2>4
  <2>6. Len(Front(q)) = n /\ Front(q) \in Seq(S) /\ \A i \in 1..n : Front(q)[i] = q[i]
    BY <2>2, <2>3, <2>4, <2>5
  <2> QED
    BY <2>6 DEF n
<1>4. Last(q) \in S /\ Last(q) = q[Len(q)]
  BY <1>1 DEF Last
<1>5. a \in Seq(S) /\ Len(a) = Len(q) /\ \A i \in 1..Len(q) : a[i] = q[i]
  BY <1>1, <1>3, <1>4
<1> HIDE DEF a
<1>6. a = q
  BY <1>5, SeqEqual
<1> QED
  BY <1>1, <1>3, <1>4, <1>6 DEF a

\* What comes before a path with one segment more.
LEMMA PrefixOfLonger ==
  ASSUME NEW S, NEW p \in Seq(S), NEW t \in Seq(S), NEW s \in S
  PROVE  IsPrefix(p, Append(t, s)) <=> IsPrefix(p, t) \/ p = Append(t, s)
<1>1. ASSUME IsPrefix(p, t) PROVE IsPrefix(p, Append(t, s))
  BY <1>1 DEF IsPrefix
<1>2. ASSUME p = Append(t, s) PROVE IsPrefix(p, Append(t, s))
  BY <1>2 DEF IsPrefix
<1>3. ASSUME IsPrefix(p, Append(t, s)), ~ IsPrefix(p, t)
      PROVE  p = Append(t, s)
  BY <1>3 DEF IsPrefix
<1> QED
  BY <1>1, <1>2, <1>3

\* Every path, and the empty one, comes before itself and nothing before the empty one.
LEMMA PrefixOfItself ==
  ASSUME NEW S, NEW p \in Seq(S)
  PROVE  IsPrefix(p, p) /\ IsPrefix(<<>>, p) /\ (IsPrefix(p, <<>>) => p = <<>>)
BY DEF IsPrefix

\* Two paths that each come before the other are the same.
LEMMA PrefixBothWays ==
  ASSUME NEW S, NEW p \in Seq(S), NEW q \in Seq(S), IsPrefix(p, q), IsPrefix(q, p)
  PROVE  p = q
BY DEF IsPrefix

\* Coming before is transitive.
LEMMA PrefixOfPrefix ==
  ASSUME NEW S, NEW p \in Seq(S), NEW q \in Seq(S), NEW r \in Seq(S),
         IsPrefix(p, q), IsPrefix(q, r)
  PROVE  IsPrefix(p, r)
BY DEF IsPrefix

\* A path beyond p, with p taken off again.
LEMMA PathBeyond ==
  ASSUME NEW S, NEW p \in Seq(S), NEW r \in Seq(S)
  PROVE  /\ p \o r \in Seq(S) /\ IsPrefix(p, p \o r) /\ Drop(p \o r, Len(p)) = r
         /\ p \o <<>> = p /\ Drop(p, Len(p)) = <<>>
BY DEF IsPrefix, Drop

\* What is left of a path that p comes before leads from p to that path.
LEMMA PathRest ==
  ASSUME NEW S, NEW p \in Seq(S), NEW q \in Seq(S), IsPrefix(p, q)
  PROVE  Drop(q, Len(p)) \in Seq(S) /\ p \o Drop(q, Len(p)) = q
BY DEF IsPrefix, Drop

\* Joining paths and dropping a prefix commute with one segment more.
LEMMA PathGrows ==
  ASSUME NEW S, NEW p \in Seq(S), NEW t \in Seq(S), NEW s \in S
  PROVE  /\ p \o Append(t, s) = Append(p \o t, s)
         /\ IsPrefix(p, t) => Drop(Append(t, s), Len(p)) = Append(Drop(t, Len(p)), s)
<1>1. \A u \in Seq(S) : p \o Append(u, s) = Append(p \o u, s)
  <2> TAKE u \in Seq(S)
  <2> DEFINE a == p \o Append(u, s)
             b == Append(p \o u, s)
  <2>1. /\ a \in Seq(S) /\ b \in Seq(S)
        /\ Len(a) = Len(p) + Len(u) + 1 /\ Len(b) = Len(p) + Len(u) + 1
    OBVIOUS
  <2>2. ASSUME NEW i \in 1..(Len(p) + Len(u) + 1)
        PROVE  a[i] = b[i]
    <3>1. CASE i <= Len(p)
      BY <3>1
    <3>2. CASE i > Len(p) /\ i <= Len(p) + Len(u)
      BY <3>2
    <3>3. CASE i = Len(p) + Len(u) + 1
      BY <3>3
    <3> QED
      BY <3>1, <3>2, <3>3
  <2> HIDE DEF a, b
  <2>3. a = b
    BY <2>1, <2>2, SeqEqual
  <2> QED
    BY <2>3 DEF a, b
<1>2. ASSUME IsPrefix(p, t)
      PROVE  Drop(Append(t, s), Len(p)) = Append(Drop(t, Len(p)), s)
  <2> DEFINE a == Drop(Append(t, s), Len(p))
             b == Append(Drop(t, Len(p)), s)
  <2>1. /\ p \o Drop(t, Len(p)) = t /\ Drop(t, Len(p)) \in Seq(S)
        /\ IsPrefix(p, Append(t, s)) /\ Append(t, s) \in Seq(S)
    BY <1>2, PathRest, PrefixOfLonger
  <2>2. p \o b = Append(t, s) /\ b \in Seq(S)
    BY <2>1, <1>1
  <2> HIDE DEF b
  <2>3. Drop(p \o b, Len(p)) = b
    BY <2>2, PathBeyond
  <2>4. Drop(Append(t, s), Len(p)) = b
    BY <2>2, <2>3
  <2> QED
    BY <2>4 DEF b
<1> QED
  BY <1>1, <1>2

\* The first m segments of a path.
LEMMA PathStart ==
  ASSUME NEW S, NEW p \in Seq(S), NEW m \in 0..Len(p)
  PROVE  /\ SubSeq(p, 1, m) \in Seq(S) /\ Len(SubSeq(p, 1, m)) = m
         /\ \A i \in 1..m : SubSeq(p, 1, m)[i] = p[i]
<1>1. m \in Nat /\ m \in Int /\ 1 \in Int /\ \A i \in 1..m : p[i] \in S
  OBVIOUS
<1>2. /\ SubSeq(p, 1, m) \in Seq(S)
      /\ Len(SubSeq(p, 1, m)) = IF 1 <= m THEN m - 1 + 1 ELSE 0
      /\ \A i \in 1..(m - 1 + 1) : SubSeq(p, 1, m)[i] = p[1 + i - 1]
  BY <1>1, SubSeqProperties
<1>3. m - 1 + 1 = m /\ (~ (1 <= m) => m = 0) /\ \A i \in 1..m : 1 + i - 1 = i
  BY <1>1
<1> QED
  BY <1>2, <1>3

\* The first m segments are the first m - 1 and one more.
LEMMA PathByPath ==
  ASSUME NEW S, NEW p \in Seq(S), NEW m \in 1..Len(p)
  PROVE  /\ SubSeq(p, 1, m - 1) \in Seq(S) /\ p[m] \in S
         /\ Append(SubSeq(p, 1, m - 1), p[m]) = SubSeq(p, 1, m)
<1> DEFINE a == SubSeq(p, 1, m - 1)
           b == SubSeq(p, 1, m)
<1>1. m - 1 \in 0..Len(p) /\ m \in 0..Len(p) /\ p[m] \in S /\ m \in Nat
  OBVIOUS
<1>2. a \in Seq(S) /\ Len(a) = m - 1 /\ \A i \in 1..(m - 1) : a[i] = p[i]
  BY <1>1, PathStart
<1>3. b \in Seq(S) /\ Len(b) = m /\ \A i \in 1..m : b[i] = p[i]
  BY <1>1, PathStart
<1> HIDE DEF a, b
<1>4. /\ Append(a, p[m]) \in Seq(S) /\ Len(Append(a, p[m])) = m
      /\ \A i \in 1..m : Append(a, p[m])[i] = b[i]
  BY <1>1, <1>2, <1>3
<1>5. Append(a, p[m]) = b
  BY <1>3, <1>4, SeqEqual
<1> QED
  BY <1>1, <1>2, <1>5 DEF a, b

\* Every set of numbers that is not empty has a least.
LEMMA LeastNumber ==
  ASSUME NEW T, T \subseteq Nat, T # {}
  PROVE  \E x \in T : \A y \in T : x <= y
<1> DEFINE R == {pair \in Nat \X Nat : pair[1] < pair[2]}
<1>1. IsWellFoundedOn(R, Nat)
  BY NatLessThanWellFounded DEF OpToRel
<1> HIDE DEF R
<1>2. PICK x \in T : \A y \in T : <<y, x>> \notin R
  BY <1>1, WFMin
<1>3. ASSUME NEW y \in T PROVE x <= y
  <2>1. x \in Nat /\ y \in Nat /\ <<y, x>> \in Nat \X Nat
    OBVIOUS
  <2>2. ~ (y < x)
    BY <1>2, <2>1 DEF R
  <2> QED
    BY <2>1, <2>2
<1> QED
  BY <1>3
-----------------------------------------------------------------------------
(***************************************************************************)
(* Documents, told by parents and children.                                *)
(***************************************************************************)
\* Every path is there with the container it leads through last.
Rooted(d) ==
  /\ d = [p \in DOMAIN d |-> d[p]] /\ DOMAIN d \subseteq Seq(Segment)
  /\ Root \in DOMAIN d
  /\ \A p \in DOMAIN d : IsNode(d[p])
  /\ \A p \in Seq(Segment), s \in Segment :
       Append(p, s) \in DOMAIN d => p \in DOMAIN d /\ Leads(d[p], s)

\* No element of an array is missing, but perhaps the one at h.
CompleteBut(d, h) ==
  \A p \in DOMAIN d : Variant(d[p]) = "Array" =>
    \A i \in 0..(Held(d[p]) - 1) :
      Append(p, Index(i)) \in DOMAIN d \/ Append(p, Index(i)) = h

\* A segment is a key or an index.
LEMMA SegmentKinds ==
  /\ \A k \in Keys : Key(k) \in Segment /\ Key(k)[1] = "Key"
  /\ \A i \in Nat : Index(i) \in Segment /\ Index(i)[1] = "Index" /\ Index(i)[2] = i
  /\ \A s \in Segment : \/ s[1] = "Key" /\ s[2] \in Keys /\ s = Key(s[2])
                        \/ s[1] = "Index" /\ s[2] \in Nat /\ s = Index(s[2])
  /\ \A i, j : Index(i) = Index(j) => i = j
BY DEF Segment, Key, Index

\* A document has both parts, whatever the hole.
LEMMA DocumentParts ==
  ASSUME NEW d, IsDocument(d), NEW h
  PROVE  Rooted(d) /\ CompleteBut(d, h)
<1>1. CompleteBut(d, h)
  BY DEF IsDocument, CompleteBut
<1>2. ASSUME NEW p \in Seq(Segment), NEW s \in Segment, Append(p, s) \in DOMAIN d
      PROVE  p \in DOMAIN d /\ Leads(d[p], s)
  <2> DEFINE q == Append(p, s)
  <2>1. /\ q \in Seq(Segment) /\ Len(p) \in Nat /\ Len(p) + 1 \in 1..Len(q)
        /\ q[Len(p) + 1] = s /\ (Len(p) + 1) - 1 = Len(p)
    OBVIOUS
  <2>2. SubSeq(q, 1, Len(p)) = p
    OBVIOUS
  <2> HIDE DEF q
  <2>3. /\ SubSeq(q, 1, (Len(p) + 1) - 1) \in DOMAIN d
        /\ Leads(d[SubSeq(q, 1, (Len(p) + 1) - 1)], q[Len(p) + 1])
    BY <1>2, <2>1 DEF IsDocument, q
  <2> QED
    BY <2>1, <2>2, <2>3
<1>3. Rooted(d)
  BY <1>2 DEF IsDocument, Rooted
<1> QED
  BY <1>1, <1>3

\* What is rooted and lacks no element is a document.
LEMMA DocumentFrom ==
  ASSUME NEW d, Rooted(d), CompleteBut(d, Root)
  PROVE  IsDocument(d)
<1>1. ASSUME NEW p \in DOMAIN d, Variant(d[p]) = "Array", NEW i \in 0..(Held(d[p]) - 1)
      PROVE  Append(p, Index(i)) \in DOMAIN d
  <2>1. Held(d[p]) \in Nat /\ p \in Seq(Segment)
    BY <1>1 DEF Rooted, IsNode
  <2>2. Index(i) \in Segment
    BY <2>1, SegmentKinds
  <2>3. Append(p, Index(i)) # Root
    BY <2>1, <2>2, PathEnds DEF Root
  <2> QED
    BY <1>1, <2>3 DEF CompleteBut
<1>2. ASSUME NEW p \in DOMAIN d, NEW m \in 0..Len(p)
      PROVE  SubSeq(p, 1, m) \in DOMAIN d
  <2> DEFINE T == {k \in 0..Len(p) : SubSeq(p, 1, Len(p) - k) \notin DOMAIN d}
  <2>1. p \in Seq(Segment) /\ Len(p) \in Nat
    BY DEF Rooted
  <2>2. T = {}
    <3> SUFFICES ASSUME T # {} PROVE FALSE
      OBVIOUS
    <3>1. T \subseteq Nat
      BY <2>1
    <3>2. PICK k \in T : \A j \in T : k <= j
      BY <3>1, LeastNumber
    <3>3. k \in 0..Len(p) /\ SubSeq(p, 1, Len(p) - k) \notin DOMAIN d
      OBVIOUS
    <3>4. SubSeq(p, 1, Len(p)) = p
      BY <2>1
    <3>5. k # 0
      <4> SUFFICES ASSUME k = 0 PROVE FALSE
        OBVIOUS
      <4>1. Len(p) - k = Len(p)
        BY <2>1
      <4> QED
        BY <3>3, <3>4, <4>1
    <3> DEFINE n == Len(p) - k + 1
    <3>6. /\ n \in 1..Len(p) /\ n - 1 = Len(p) - k
          /\ k - 1 \in 0..Len(p) /\ Len(p) - (k - 1) = n /\ ~ (k <= k - 1)
      BY <2>1, <3>3, <3>5
    <3> HIDE DEF n
    <3>7. SubSeq(p, 1, n) \in DOMAIN d
      <4>1. k - 1 \notin T
        BY <3>2, <3>6
      <4>2. SubSeq(p, 1, Len(p) - (k - 1)) \in DOMAIN d
        BY <3>6, <4>1
      <4> QED
        BY <3>6, <4>2
    <3>8. /\ SubSeq(p, 1, n - 1) \in Seq(Segment) /\ p[n] \in Segment
          /\ Append(SubSeq(p, 1, n - 1), p[n]) = SubSeq(p, 1, n)
      BY <2>1, <3>6, PathByPath
    <3>9. SubSeq(p, 1, n - 1) \in DOMAIN d
      <4>1. Append(SubSeq(p, 1, n - 1), p[n]) \in DOMAIN d
        BY <3>7, <3>8
      <4> QED
        BY <3>8, <4>1 DEF Rooted
    <3>10. n - 1 = Len(p) - k
      BY <3>6
    <3> QED
      BY <3>3, <3>9, <3>10
  <2>3. Len(p) - m \in 0..Len(p) /\ Len(p) - (Len(p) - m) = m
    BY <2>1
  <2> QED
    BY <2>2, <2>3
<1>3. ASSUME NEW p \in DOMAIN d, NEW n \in 1..Len(p)
      PROVE  SubSeq(p, 1, n - 1) \in DOMAIN d /\ Leads(d[SubSeq(p, 1, n - 1)], p[n])
  <2>1. p \in Seq(Segment) /\ n \in 0..Len(p)
    BY DEF Rooted
  <2>2. SubSeq(p, 1, n) \in DOMAIN d
    BY <1>2, <2>1
  <2>3. /\ SubSeq(p, 1, n - 1) \in Seq(Segment) /\ p[n] \in Segment
        /\ Append(SubSeq(p, 1, n - 1), p[n]) = SubSeq(p, 1, n)
    BY <2>1, PathByPath
  <2> QED
    BY <2>2, <2>3, ZenonT(60) DEF Rooted
<1> QED
  BY <1>1, <1>3 DEF IsDocument, Rooted
-----------------------------------------------------------------------------
(***************************************************************************)
(* Putting a document into a document.                                     *)
(***************************************************************************)
\* The paths of d with v at p, and what they lead to.
LEMMA PutParts ==
  ASSUME NEW d, NEW v, NEW p \in Seq(Segment),
         DOMAIN d \subseteq Seq(Segment), DOMAIN v \subseteq Seq(Segment),
         NEW e, e = Put(d, p, v)
  PROVE  /\ e = [q \in DOMAIN e |-> e[q]] /\ DOMAIN e \subseteq Seq(Segment)
         /\ \A q \in Seq(Segment) :
              q \in DOMAIN e <=> IF IsPrefix(p, q) THEN Drop(q, Len(p)) \in DOMAIN v
                                 ELSE q \in DOMAIN d
         /\ \A q \in DOMAIN e :
              e[q] = IF IsPrefix(p, q) THEN v[Drop(q, Len(p))] ELSE d[q]
<1> DEFINE new == {p \o r : r \in DOMAIN v}
           old == DOMAIN d \ Below(d, p)
<1>1. /\ e = [q \in old \cup new |-> IF IsPrefix(p, q) THEN v[Drop(q, Len(p))] ELSE d[q]]
  BY DEF Put
<1>2. ASSUME NEW q \in Seq(Segment)
      PROVE  q \in new <=> IsPrefix(p, q) /\ Drop(q, Len(p)) \in DOMAIN v
  <2>1. ASSUME q \in new
        PROVE  IsPrefix(p, q) /\ Drop(q, Len(p)) \in DOMAIN v
    <3>1. PICK r \in DOMAIN v : q = p \o r
      BY <2>1
    <3>2. r \in Seq(Segment)
      OBVIOUS
    <3>3. IsPrefix(p, p \o r) /\ Drop(p \o r, Len(p)) = r
      BY <3>2, PathBeyond
    <3> QED
      BY <3>1, <3>3
  <2>2. ASSUME IsPrefix(p, q), Drop(q, Len(p)) \in DOMAIN v
        PROVE  q \in new
    <3>1. p \o Drop(q, Len(p)) = q
      BY <2>2, PathRest
    <3> QED
      BY <2>2, <3>1
  <2> QED
    BY <2>1, <2>2
<1>3. \A q \in Seq(Segment) : q \in old <=> q \in DOMAIN d /\ ~ IsPrefix(p, q)
  BY DEF Below
<1>4. old \cup new \subseteq Seq(Segment)
  BY PathBeyond, ZenonT(60)
<1> HIDE DEF old, new
<1>5. DOMAIN e = old \cup new
  BY <1>1
<1> QED
  BY <1>1, <1>2, <1>3, <1>4, <1>5

\* The document has, or can be given, something at p.
Attached(d, p) ==
  \/ p = Root
  \/ \E t \in DOMAIN d, s \in Segment : p = Append(t, s) /\ Leads(d[t], s)

\* Putting a document where there is a place for it keeps the paths whole.
LEMMA PutRooted ==
  ASSUME NEW d, NEW v, NEW p \in Seq(Segment), Rooted(d), Rooted(v), Attached(d, p)
  PROVE  Rooted(Put(d, p, v))
<1> DEFINE e == Put(d, p, v)
<1>1. DOMAIN d \subseteq Seq(Segment) /\ DOMAIN v \subseteq Seq(Segment)
  BY DEF Rooted
<1>2. /\ e = [q \in DOMAIN e |-> e[q]] /\ DOMAIN e \subseteq Seq(Segment)
      /\ \A q \in Seq(Segment) :
           q \in DOMAIN e <=> IF IsPrefix(p, q) THEN Drop(q, Len(p)) \in DOMAIN v
                              ELSE q \in DOMAIN d
      /\ \A q \in DOMAIN e :
           e[q] = IF IsPrefix(p, q) THEN v[Drop(q, Len(p))] ELSE d[q]
  BY <1>1, PutParts
<1> HIDE DEF e
<1>3. Root \in DOMAIN e
  <2>1. Root \in Seq(Segment)
    BY DEF Root
  <2>2. Drop(p, Len(p)) = Root
    BY PathBeyond DEF Root
  <2>3. IsPrefix(p, Root) => p = Root
    BY PrefixOfItself DEF Root
  <2>4. Root \in DOMAIN d /\ Root \in DOMAIN v
    BY DEF Rooted
  <2> QED
    BY <1>2, <2>1, <2>2, <2>3, <2>4
<1>4. \A q \in DOMAIN e : IsNode(e[q])
  BY <1>2 DEF Rooted
<1>5. ASSUME NEW t \in Seq(Segment), NEW s \in Segment, Append(t, s) \in DOMAIN e
      PROVE  t \in DOMAIN e /\ Leads(e[t], s)
  <2>1. Append(t, s) \in Seq(Segment)
    BY PathEnds
  <2>2. IsPrefix(p, Append(t, s)) <=> IsPrefix(p, t) \/ p = Append(t, s)
    BY PrefixOfLonger
  <2>3. CASE IsPrefix(p, t)
    <3>1. Drop(t, Len(p)) \in Seq(Segment)
      BY <2>3, PathRest
    <3>2. Append(Drop(t, Len(p)), s) \in DOMAIN v
      <4>1. Drop(Append(t, s), Len(p)) = Append(Drop(t, Len(p)), s)
        BY <2>3, PathGrows
      <4> QED
        BY <1>2, <1>5, <2>1, <2>2, <2>3, <4>1
    <3>3. Drop(t, Len(p)) \in DOMAIN v /\ Leads(v[Drop(t, Len(p))], s)
      BY <3>1, <3>2 DEF Rooted
    <3> QED
      BY <1>2, <2>3, <3>3
  <2>4. CASE ~ IsPrefix(p, t) /\ p = Append(t, s)
    <3>1. p # Root
      BY <2>4, PathEnds DEF Root
    <3>2. PICK t2 \in DOMAIN d, s2 \in Segment : p = Append(t2, s2) /\ Leads(d[t2], s2)
      BY <3>1 DEF Attached
    <3>3. t = t2 /\ s = s2
      <4>1. t2 \in Seq(Segment)
        BY <1>1
      <4>2. Front(p) = t2 /\ Last(p) = s2
        BY <3>2, <4>1, PathEnds
      <4>3. Front(p) = t /\ Last(p) = s
        BY <2>4, PathEnds
      <4> QED
        BY <4>2, <4>3
    <3> QED
      BY <1>2, <2>4, <3>2, <3>3
  <2>5. CASE ~ IsPrefix(p, Append(t, s))
    <3>1. Append(t, s) \in DOMAIN d
      BY <1>2, <1>5, <2>1, <2>5
    <3>2. t \in DOMAIN d /\ Leads(d[t], s)
      BY <3>1 DEF Rooted
    <3> QED
      BY <1>2, <2>2, <2>5, <3>2
  <2> QED
    BY <2>2, <2>3, <2>4, <2>5
<1> QED
  BY <1>2, <1>3, <1>4, <1>5 DEF Rooted, e

\* Putting a document into the hole fills it.
LEMMA PutComplete ==
  ASSUME NEW d, NEW v, NEW p \in Seq(Segment), Rooted(d), Rooted(v),
         CompleteBut(d, p), CompleteBut(v, Root)
  PROVE  CompleteBut(Put(d, p, v), Root)
<1> DEFINE e == Put(d, p, v)
<1>1. DOMAIN d \subseteq Seq(Segment) /\ DOMAIN v \subseteq Seq(Segment) /\ Root \in DOMAIN v
  BY DEF Rooted
<1>2. /\ DOMAIN e \subseteq Seq(Segment)
      /\ \A q \in Seq(Segment) :
           q \in DOMAIN e <=> IF IsPrefix(p, q) THEN Drop(q, Len(p)) \in DOMAIN v
                              ELSE q \in DOMAIN d
      /\ \A q \in DOMAIN e :
           e[q] = IF IsPrefix(p, q) THEN v[Drop(q, Len(p))] ELSE d[q]
  BY <1>1, PutParts
<1> HIDE DEF e
<1>3. ASSUME NEW q \in DOMAIN e, Variant(e[q]) = "Array", NEW i \in 0..(Held(e[q]) - 1)
      PROVE  Append(q, Index(i)) \in DOMAIN e
  <2>1. q \in Seq(Segment) /\ IsNode(e[q])
    BY <1>2 DEF Rooted
  <2>2. i \in Nat /\ Index(i) \in Segment
    BY <1>3, <2>1, SegmentKinds DEF IsNode
  <2>3. Append(q, Index(i)) \in Seq(Segment) /\ Append(q, Index(i)) # Root
    BY <2>1, <2>2, PathEnds DEF Root
  <2>4. IsPrefix(p, Append(q, Index(i))) <=> IsPrefix(p, q) \/ p = Append(q, Index(i))
    BY <2>1, <2>2, PrefixOfLonger
  <2>5. CASE IsPrefix(p, q)
    <3>1. Drop(q, Len(p)) \in DOMAIN v /\ e[q] = v[Drop(q, Len(p))]
      BY <1>2, <2>1, <2>5
    <3>2. Append(Drop(q, Len(p)), Index(i)) \in DOMAIN v
      <4>1. Append(Drop(q, Len(p)), Index(i)) # Root
        BY <1>1, <2>2, <3>1, PathEnds DEF Root
      <4> QED
        BY <1>3, <3>1, <4>1 DEF CompleteBut
    <3>3. Drop(Append(q, Index(i)), Len(p)) = Append(Drop(q, Len(p)), Index(i))
      BY <2>1, <2>2, <2>5, PathGrows
    <3> QED
      BY <1>2, <2>3, <2>4, <2>5, <3>2, <3>3
  <2>6. CASE p = Append(q, Index(i))
    <3>1. Drop(p, Len(p)) = Root /\ IsPrefix(p, p)
      BY PathBeyond, PrefixOfItself DEF Root
    <3> QED
      BY <1>1, <1>2, <2>6, <3>1
  <2>7. CASE ~ IsPrefix(p, q) /\ p # Append(q, Index(i))
    <3>1. q \in DOMAIN d /\ e[q] = d[q]
      BY <1>2, <2>1, <2>7
    <3>2. Append(q, Index(i)) \in DOMAIN d
      BY <1>3, <2>7, <3>1 DEF CompleteBut
    <3> QED
      BY <1>2, <2>3, <2>4, <2>7, <3>2
  <2> QED
    BY <2>5, <2>6, <2>7
<1> QED
  BY <1>3 DEF CompleteBut, e

\* Putting a document where there is a place for it leaves a document.
LEMMA PutDocument ==
  ASSUME NEW d, NEW v, NEW p \in Seq(Segment), Rooted(d), CompleteBut(d, p),
         IsDocument(v), Attached(d, p)
  PROVE  IsDocument(Put(d, p, v))
BY DocumentParts, DocumentFrom, PutRooted, PutComplete

\* A leaf is a document if it holds no elements.
LEMMA LeafDocument ==
  ASSUME NEW node, IsNode(node), Variant(node) = "Array" => Held(node) = 0
  PROVE  IsDocument(Leaf(node))
<1> DEFINE d == Leaf(node)
<1>1. DOMAIN d = {Root} /\ d[Root] = node /\ d = [p \in DOMAIN d |-> d[p]]
  BY DEF Leaf
<1> HIDE DEF d
<1>2. \A p \in Seq(Segment), s \in Segment : Append(p, s) # Root
  BY PathEnds DEF Root
<1>3. Rooted(d)
  BY <1>1, <1>2 DEF Rooted, Root
<1>4. CompleteBut(d, Root)
  BY <1>1 DEF CompleteBut
<1> QED
  BY <1>3, <1>4, DocumentFrom DEF d

\* The paths of the value at p, and what they lead to.
LEMMA ValueAtParts ==
  ASSUME NEW d, NEW p \in Seq(Segment), DOMAIN d \subseteq Seq(Segment),
         NEW e, e = ValueAt(d, p)
  PROVE  /\ e = [q \in DOMAIN e |-> e[q]] /\ DOMAIN e \subseteq Seq(Segment)
         /\ \A q \in Seq(Segment) : q \in DOMAIN e <=> p \o q \in DOMAIN d
         /\ \A q \in DOMAIN e : e[q] = d[p \o q]
<1> DEFINE paths == {Drop(r, Len(p)) : r \in Below(d, p)}
<1>1. e = [q \in paths |-> d[p \o q]]
  BY DEF ValueAt
<1>2. paths \subseteq Seq(Segment)
  BY PathRest DEF Below
<1>3. ASSUME NEW q \in Seq(Segment)
      PROVE  q \in paths <=> p \o q \in DOMAIN d
  <2>1. ASSUME q \in paths PROVE p \o q \in DOMAIN d
    <3>1. PICK r \in Below(d, p) : q = Drop(r, Len(p))
      BY <2>1
    <3>2. r \in DOMAIN d /\ r \in Seq(Segment) /\ IsPrefix(p, r)
      BY DEF Below
    <3>3. p \o Drop(r, Len(p)) = r
      BY <3>2, PathRest
    <3> QED
      BY <3>1, <3>2, <3>3
  <2>2. ASSUME p \o q \in DOMAIN d PROVE q \in paths
    <3>1. IsPrefix(p, p \o q) /\ Drop(p \o q, Len(p)) = q
      BY PathBeyond
    <3> QED
      BY <2>2, <3>1 DEF Below
  <2> QED
    BY <2>1, <2>2
<1> HIDE DEF paths
<1> QED
  BY <1>1, <1>2, <1>3

\* The value at a path of a document is a document.
LEMMA ValueAtDocument ==
  ASSUME NEW d, IsDocument(d), NEW p \in DOMAIN d
  PROVE  IsDocument(ValueAt(d, p))
<1> DEFINE e == ValueAt(d, p)
<1>1. Rooted(d) /\ CompleteBut(d, Root) /\ p \in Seq(Segment) /\ DOMAIN d \subseteq Seq(Segment)
  BY DocumentParts DEF IsDocument
<1>2. /\ e = [q \in DOMAIN e |-> e[q]] /\ DOMAIN e \subseteq Seq(Segment)
      /\ \A q \in Seq(Segment) : q \in DOMAIN e <=> p \o q \in DOMAIN d
      /\ \A q \in DOMAIN e : e[q] = d[p \o q]
  BY <1>1, ValueAtParts
<1> HIDE DEF e
<1>3. Root \in DOMAIN e
  <2>1. p \o Root = p
    <3>1. p \o <<>> = p
      BY <1>1, PathBeyond
    <3> QED
      BY <3>1 DEF Root
  <2>2. Root \in Seq(Segment)
    BY DEF Root
  <2>3. p \o Root \in DOMAIN d
    BY <2>1
  <2> QED
    BY <1>2, <2>2, <2>3
<1>4. \A q \in DOMAIN e : IsNode(e[q])
  BY <1>1, <1>2 DEF Rooted
<1>5. ASSUME NEW t \in Seq(Segment), NEW s \in Segment, Append(t, s) \in DOMAIN e
      PROVE  t \in DOMAIN e /\ Leads(e[t], s)
  <2>1. Append(t, s) \in Seq(Segment) /\ p \o t \in Seq(Segment)
    BY <1>1, PathEnds, PathBeyond
  <2>2. p \o Append(t, s) = Append(p \o t, s)
    <3>1. p \in Seq(Segment)
      BY <1>1
    <3> QED
      BY <3>1, PathGrows
  <2>3. Append(p \o t, s) \in DOMAIN d
    BY <1>2, <1>5, <2>1, <2>2
  <2>4. p \o t \in DOMAIN d /\ Leads(d[p \o t], s)
    BY <1>1, <2>1, <2>3 DEF Rooted
  <2> QED
    BY <1>2, <2>4
<1>6. ASSUME NEW q \in DOMAIN e, Variant(e[q]) = "Array", NEW i \in 0..(Held(e[q]) - 1)
      PROVE  Append(q, Index(i)) \in DOMAIN e
  <2>1. q \in Seq(Segment) /\ p \o q \in DOMAIN d /\ e[q] = d[p \o q] /\ IsNode(e[q])
    BY <1>2, <1>4
  <2>2. i \in Nat /\ Index(i) \in Segment
    BY <1>6, <2>1, SegmentKinds DEF IsNode
  <2>3. Append(q, Index(i)) \in Seq(Segment) /\ Append(p \o q, Index(i)) # Root
    BY <1>1, <2>1, <2>2, PathEnds DEF Root
  <2>4. Append(p \o q, Index(i)) \in DOMAIN d
    BY <1>1, <1>6, <2>1, <2>3 DEF CompleteBut
  <2>5. p \o Append(q, Index(i)) = Append(p \o q, Index(i))
    BY <1>1, <2>1, <2>2, PathGrows
  <2> QED
    BY <1>2, <2>3, <2>4, <2>5
<1>7. Rooted(e) /\ CompleteBut(e, Root)
  BY <1>2, <1>3, <1>4, <1>5, <1>6 DEF Rooted, CompleteBut
<1> QED
  BY <1>7, DocumentFrom DEF e

\* The paths that a cut leaves.
LEMMA CutParts ==
  ASSUME NEW d, NEW p \in Seq(Segment), NEW e, e = Cut(d, p)
  PROVE  /\ e = [q \in DOMAIN e |-> e[q]]
         /\ \A q : q \in DOMAIN e <=> q \in DOMAIN d /\ ~ IsPrefix(p, q)
         /\ \A q \in DOMAIN e : e[q] = d[q]
BY DEF Cut, Below

\* What is left when something is cut out lacks nothing else.
LEMMA CutRooted ==
  ASSUME NEW d, NEW p \in Seq(Segment), Rooted(d), CompleteBut(d, Root), p # Root
  PROVE  Rooted(Cut(d, p)) /\ CompleteBut(Cut(d, p), p)
<1> DEFINE e == Cut(d, p)
<1>1. /\ e = [q \in DOMAIN e |-> e[q]]
      /\ \A q : q \in DOMAIN e <=> q \in DOMAIN d /\ ~ IsPrefix(p, q)
      /\ \A q \in DOMAIN e : e[q] = d[q]
  BY CutParts
<1> HIDE DEF e
<1>2. DOMAIN e \subseteq Seq(Segment) /\ \A q \in DOMAIN e : IsNode(e[q])
  BY <1>1 DEF Rooted
<1>3. Root \in DOMAIN e
  BY <1>1, PrefixOfItself DEF Rooted, Root
<1>4. ASSUME NEW t \in Seq(Segment), NEW s \in Segment, Append(t, s) \in DOMAIN e
      PROVE  t \in DOMAIN e /\ Leads(e[t], s)
  <2>1. t \in DOMAIN d /\ Leads(d[t], s)
    BY <1>1, <1>4 DEF Rooted
  <2>2. ~ IsPrefix(p, t)
    BY <1>1, <1>4, PrefixOfLonger
  <2> QED
    BY <1>1, <2>1, <2>2
<1>5. ASSUME NEW q \in DOMAIN e, Variant(e[q]) = "Array", NEW i \in 0..(Held(e[q]) - 1)
      PROVE  Append(q, Index(i)) \in DOMAIN e \/ Append(q, Index(i)) = p
  <2>1. q \in Seq(Segment) /\ q \in DOMAIN d /\ e[q] = d[q] /\ IsNode(e[q]) /\ ~ IsPrefix(p, q)
    BY <1>1, <1>2
  <2>2. i \in Nat /\ Index(i) \in Segment
    BY <1>5, <2>1, SegmentKinds DEF IsNode
  <2>3. Append(q, Index(i)) # Root
    BY <2>1, <2>2, PathEnds DEF Root
  <2>4. Append(q, Index(i)) \in DOMAIN d
    BY <1>5, <2>1, <2>3 DEF CompleteBut
  <2>5. IsPrefix(p, Append(q, Index(i))) => p = Append(q, Index(i))
    BY <2>1, <2>2, PrefixOfLonger
  <2> QED
    BY <1>1, <2>4, <2>5
<1> QED
  BY <1>1, <1>2, <1>3, <1>4, <1>5 DEF Rooted, CompleteBut, e
-----------------------------------------------------------------------------
(***************************************************************************)
(* Elements of an array that move up or down.                              *)
(***************************************************************************)
\* A path that does not lead into the array at p stays.
LEMMA ShiftStays ==
  ASSUME NEW p, NEW q, NEW i, NEW n, ~ IsStrictPrefix(p, q)
  PROVE  Shift(q, p, i, n) = q
BY DEF Shift

\* A strictly longer path agrees with the shorter one and goes on.
LEMMA StrictlyLonger ==
  ASSUME NEW p \in Seq(Segment), NEW q \in Seq(Segment), IsStrictPrefix(p, q)
  PROVE  /\ Len(p) \in Nat /\ Len(q) \in Nat /\ Len(p) < Len(q)
         /\ Len(p) + 1 \in 1..Len(q) /\ q[Len(p) + 1] \in Segment
         /\ \A k \in 1..Len(p) : q[k] = p[k]
<1>1. Len(p) \in Nat /\ Len(q) \in Nat /\ Len(p) <= Len(q) /\ p # q
  BY DEF IsStrictPrefix, IsPrefix
<1>2. SubSeq(p, 1, Len(p)) = SubSeq(q, 1, Len(p))
  BY DEF IsStrictPrefix, IsPrefix
<1>3. Len(p) \in 0..Len(p) /\ Len(p) \in 0..Len(q)
  BY <1>1
<1>4. \A k \in 1..Len(p) : SubSeq(p, 1, Len(p))[k] = p[k] /\ SubSeq(q, 1, Len(p))[k] = q[k]
  BY <1>3, PathStart
<1>5. \A k \in 1..Len(p) : q[k] = p[k]
  BY <1>2, <1>4
<1>6. Len(p) # Len(q)
  BY <1>1, <1>5, SeqEqual
<1> QED
  BY <1>1, <1>5, <1>6

\* The other way round.
LEMMA StrictlyLongerIs ==
  ASSUME NEW p \in Seq(Segment), NEW q \in Seq(Segment), Len(p) < Len(q),
         \A k \in 1..Len(p) : q[k] = p[k]
  PROVE  IsStrictPrefix(p, q)
<1>1. Len(p) \in Nat /\ Len(q) \in Nat /\ Len(p) \in 0..Len(p) /\ Len(p) \in 0..Len(q)
  OBVIOUS
<1> DEFINE a == SubSeq(p, 1, Len(p))
           b == SubSeq(q, 1, Len(p))
<1>2. a \in Seq(Segment) /\ Len(a) = Len(p) /\ \A k \in 1..Len(p) : a[k] = p[k]
  BY <1>1, PathStart
<1>3. b \in Seq(Segment) /\ Len(b) = Len(p) /\ \A k \in 1..Len(p) : b[k] = q[k]
  BY <1>1, PathStart
<1> HIDE DEF a, b
<1>4. a = b
  BY <1>2, <1>3, SeqEqual
<1> QED
  BY <1>1, <1>4 DEF IsStrictPrefix, IsPrefix, a, b

\* A path that leads into the array at p to an element from position i on has
\* that position changed, and nothing else.
LEMMA ShiftMoves ==
  ASSUME NEW p \in Seq(Segment), NEW q \in Seq(Segment), NEW i \in Int, NEW n \in Int,
         IsStrictPrefix(p, q), q[Len(p) + 1][2] >= i, q[Len(p) + 1][2] + n \in Nat,
         NEW r, r = Shift(q, p, i, n)
  PROVE  /\ r \in Seq(Segment) /\ Len(r) = Len(q)
         /\ r[Len(p) + 1] = Index(q[Len(p) + 1][2] + n)
         /\ \A k \in 1..Len(q) : k # Len(p) + 1 => r[k] = q[k]
         /\ IsStrictPrefix(p, r)
<1> DEFINE m == Len(p) + 1
           x == Index(q[m][2] + n)
<1>1. /\ Len(p) \in Nat /\ Len(p) < Len(q) /\ m \in 1..Len(q)
      /\ \A k \in 1..Len(p) : q[k] = p[k] /\ k # m /\ k \in 1..Len(q)
  BY StrictlyLonger
<1>2. x \in Segment
  BY SegmentKinds
<1>3. r = [q EXCEPT ![m] = x]
  BY DEF Shift
<1> HIDE DEF m, x
<1>4. /\ r \in Seq(Segment) /\ Len(r) = Len(q)
      /\ \A k \in 1..Len(q) : r[k] = IF k = m THEN x ELSE q[k]
  BY <1>1, <1>2, <1>3, ExceptSeq
<1>5. IsStrictPrefix(p, r)
  BY <1>1, <1>4, StrictlyLongerIs
<1> QED
  BY <1>1, <1>4, <1>5 DEF m, x

\* Moving a path segment by segment.
LEMMA ShiftGrows ==
  ASSUME NEW p \in Seq(Segment), NEW t \in Seq(Segment), NEW s \in Segment,
         NEW i \in Int, NEW n \in Int, i + n >= 0
  PROVE  /\ t = p /\ s[2] >= i =>
              Shift(Append(t, s), p, i, n) = Append(p, Index(s[2] + n))
         /\ ~ (t = p /\ s[2] >= i) =>
              Shift(Append(t, s), p, i, n) = Append(Shift(t, p, i, n), s)
<1> DEFINE q == Append(t, s)
           m == Len(p) + 1
<1>1. q \in Seq(Segment) /\ Len(q) = Len(t) + 1 /\ Len(t) \in Nat /\ Len(p) \in Nat
  OBVIOUS
<1>2. q[Len(t) + 1] = s /\ \A k \in 1..Len(t) : q[k] = t[k]
  OBVIOUS
<1>3. s[2] \in Nat
  BY SegmentKinds, DocumentConstants
<1> HIDE DEF q
<1>4. CASE t = p
  <2>1. IsStrictPrefix(p, q)
    BY <1>1, <1>2, <1>4, StrictlyLongerIs
  <2>2. q[m] = s /\ Len(q) = m
    BY <1>1, <1>2, <1>4
  <2>3. Shift(t, p, i, n) = t
    BY <1>4 DEF Shift, IsStrictPrefix
  <2>4. CASE s[2] >= i
    <3> DEFINE r == Shift(q, p, i, n)
               u == Append(p, Index(s[2] + n))
    <3>1. s[2] + n \in Nat
      BY <1>3, <2>4
    <3>2. /\ r \in Seq(Segment) /\ Len(r) = Len(q) /\ r[m] = Index(s[2] + n)
          /\ \A k \in 1..Len(q) : k # m => r[k] = q[k]
      <4>1. q[Len(p) + 1][2] >= i /\ q[Len(p) + 1][2] + n \in Nat /\ q[Len(p) + 1] = s
        BY <2>2, <2>4, <3>1
      <4> HIDE DEF r
      <4>2. r = Shift(q, p, i, n)
        BY DEF r
      <4>3. /\ r \in Seq(Segment) /\ Len(r) = Len(q)
            /\ r[Len(p) + 1] = Index(q[Len(p) + 1][2] + n)
            /\ \A k \in 1..Len(q) : k # Len(p) + 1 => r[k] = q[k]
        BY <1>1, <2>1, <4>1, <4>2, ShiftMoves
      <4> QED
        BY <4>1, <4>3
    <3>3. Index(s[2] + n) \in Segment
      BY <3>1, SegmentKinds
    <3>4. /\ u \in Seq(Segment) /\ Len(u) = m /\ u[m] = Index(s[2] + n)
          /\ \A k \in 1..Len(p) : u[k] = p[k]
      BY <3>3
    <3> HIDE DEF r, u
    <3>5. \A k \in 1..m : r[k] = u[k]
      BY <1>1, <1>2, <1>4, <2>2, <3>2, <3>4
    <3>6. r = u
      BY <2>2, <3>2, <3>4, <3>5, SeqEqual
    <3> QED
      BY <1>4, <2>4, <3>6 DEF r, u, q
  <2>5. CASE ~ (s[2] >= i)
    <3>1. Shift(q, p, i, n) = q
      BY <2>2, <2>5 DEF Shift
    <3> QED
      BY <2>3, <2>5, <3>1 DEF q
  <2> QED
    BY <2>4, <2>5
<1>5. CASE IsStrictPrefix(p, t)
  <2>1. /\ Len(p) < Len(t) /\ m \in 1..Len(t) /\ \A k \in 1..Len(p) : t[k] = p[k]
        /\ t[m] \in Segment
    BY <1>5, StrictlyLonger
  <2>2. q[m] = t[m] /\ \A k \in 1..Len(p) : q[k] = p[k]
    BY <1>2, <2>1
  <2>3. IsStrictPrefix(p, q)
    BY <1>1, <2>1, <2>2, StrictlyLongerIs, SMTT(60)
  <2>4. t # p
    BY <1>5 DEF IsStrictPrefix
  <2>5. CASE t[m][2] >= i
    <3> DEFINE r == Shift(q, p, i, n)
               w == Shift(t, p, i, n)
               u == Append(w, s)
    <3>1. t[m][2] + n \in Nat
      <4>1. t[m][2] \in Nat
        BY <2>1, SegmentKinds, DocumentConstants
      <4> QED
        BY <2>5, <4>1
    <3>2. /\ r \in Seq(Segment) /\ Len(r) = Len(q) /\ r[m] = Index(t[m][2] + n)
          /\ \A k \in 1..Len(q) : k # m => r[k] = q[k]
      <4>1. q[m][2] >= i /\ q[m][2] + n \in Nat
        BY <2>2, <2>5, <3>1
      <4>2. /\ r \in Seq(Segment) /\ Len(r) = Len(q) /\ r[m] = Index(q[m][2] + n)
            /\ \A k \in 1..Len(q) : k # m => r[k] = q[k]
        BY <1>1, <2>3, <4>1, ShiftMoves
      <4> QED
        BY <2>2, <4>2
    <3>3. /\ w \in Seq(Segment) /\ Len(w) = Len(t) /\ w[m] = Index(t[m][2] + n)
          /\ \A k \in 1..Len(t) : k # m => w[k] = t[k]
      BY <1>1, <1>5, <2>5, <3>1, ShiftMoves
    <3> HIDE DEF w
    <3>4. /\ u \in Seq(Segment) /\ Len(u) = Len(t) + 1 /\ u[Len(t) + 1] = s
          /\ \A k \in 1..Len(t) : u[k] = w[k]
      BY <3>3
    <3> HIDE DEF r, u
    <3>5. \A k \in 1..(Len(t) + 1) : r[k] = u[k]
      <4> TAKE k \in 1..(Len(t) + 1)
      <4>1. m \in 1..Len(t) /\ m # Len(t) + 1 /\ k \in 1..Len(q)
        BY <1>1, <2>1
      <4>2. CASE k = m
        BY <3>2, <3>3, <3>4, <4>1, <4>2
      <4>3. CASE k # m /\ k \in 1..Len(t)
        BY <1>2, <3>2, <3>3, <3>4, <4>1, <4>3
      <4>4. CASE k = Len(t) + 1
        BY <1>2, <3>2, <3>4, <4>1, <4>4
      <4> QED
        BY <1>1, <4>2, <4>3, <4>4
    <3>6. r = u
      BY <1>1, <3>2, <3>4, <3>5, SeqEqual
    <3> QED
      BY <2>4, <3>6 DEF r, u, w, q
  <2>6. CASE ~ (t[m][2] >= i)
    <3>1. Shift(q, p, i, n) = q /\ Shift(t, p, i, n) = t
      BY <2>2, <2>6 DEF Shift
    <3> QED
      BY <2>4, <3>1 DEF q
  <2> QED
    BY <2>5, <2>6
<1>6. CASE t # p /\ ~ IsStrictPrefix(p, t)
  <2>1. ~ IsPrefix(p, t)
    BY <1>6 DEF IsStrictPrefix
  <2>2. ~ IsStrictPrefix(p, q)
    BY <2>1, PrefixOfLonger DEF IsStrictPrefix, q
  <2> QED
    BY <1>6, <2>2, ShiftStays, ZenonT(60) DEF q
<1> QED
  BY <1>4, <1>5, <1>6

\* Moving keeps paths paths, those below p below p, and moves neither p nor the root.
LEMMA ShiftPath ==
  ASSUME NEW p \in Seq(Segment), NEW q \in Seq(Segment), NEW i \in Int, NEW n \in Int,
         i + n >= 0
  PROVE  /\ Shift(q, p, i, n) \in Seq(Segment)
         /\ IsStrictPrefix(p, Shift(q, p, i, n)) <=> IsStrictPrefix(p, q)
         /\ Shift(q, p, i, n) = p <=> q = p
         /\ Shift(q, p, i, n) = Root <=> q = Root
<1>1. CASE ~ IsStrictPrefix(p, q)
  BY <1>1, ShiftStays
<1>2. CASE IsStrictPrefix(p, q)
  <2>1. /\ Len(p) \in Nat /\ Len(q) > Len(p) /\ Len(q) \in Nat
        /\ q[Len(p) + 1] \in Segment
    BY <1>2, StrictlyLonger
  <2>2. q[Len(p) + 1][2] \in Nat
    BY <2>1, SegmentKinds, DocumentConstants
  <2>3. q # Root /\ q # p
    BY <2>1 DEF Root
  <2>4. CASE q[Len(p) + 1][2] >= i
    <3>1. q[Len(p) + 1][2] + n \in Nat
      BY <2>2, <2>4
    <3>2. /\ Shift(q, p, i, n) \in Seq(Segment) /\ Len(Shift(q, p, i, n)) = Len(q)
          /\ IsStrictPrefix(p, Shift(q, p, i, n))
      BY <1>2, <2>4, <3>1, ShiftMoves
    <3>3. Shift(q, p, i, n) # Root /\ Shift(q, p, i, n) # p
      BY <2>1, <3>2 DEF Root
    <3> QED
      BY <1>2, <2>3, <3>2, <3>3
  <2>5. CASE ~ (q[Len(p) + 1][2] >= i)
    <3>1. Shift(q, p, i, n) = q
      BY <2>5 DEF Shift
    <3> QED
      BY <3>1
  <2> QED
    BY <2>4, <2>5
<1> QED
  BY <1>1, <1>2

\* Elements that moved up move back down, and the other way round.
LEMMA ShiftBack ==
  ASSUME NEW p \in Seq(Segment), NEW q \in Seq(Segment), NEW i \in Int, NEW n \in Int,
         i + n >= 0, NEW k \in Int, k = i + n, NEW m \in Int, n + m = 0,
         IsStrictPrefix(p, q) =>
           /\ q[Len(p) + 1] = Index(q[Len(p) + 1][2])
           /\ q[Len(p) + 1][2] >= i \/ q[Len(p) + 1][2] < k
  PROVE  Shift(Shift(q, p, i, n), p, k, m) = q
<1>1. CASE ~ IsStrictPrefix(p, q)
  BY <1>1, ShiftStays
<1>2. CASE IsStrictPrefix(p, q)
  <2> DEFINE x == q[Len(p) + 1][2]
             r == Shift(q, p, i, n)
             u == Shift(r, p, k, m)
  <2>1. /\ Len(p) \in Nat /\ Len(p) + 1 \in 1..Len(q) /\ q[Len(p) + 1] \in Segment
    BY <1>2, StrictlyLonger
  <2>2. x \in Nat
    BY <2>1, SegmentKinds, DocumentConstants
  <2>3. CASE x >= i
    <3>1. x + n \in Nat /\ x + n >= k /\ x + n + m = x
      <4> HIDE DEF x
      <4>1. x + n >= k /\ x + n >= 0 /\ x + n \in Int
        BY <2>2, <2>3
      <4>2. m = -n
        OBVIOUS
      <4> QED
        BY <2>2, <4>1, <4>2
    <3>2. /\ r \in Seq(Segment) /\ Len(r) = Len(q) /\ r[Len(p) + 1] = Index(x + n)
          /\ \A l \in 1..Len(q) : l # Len(p) + 1 => r[l] = q[l]
          /\ IsStrictPrefix(p, r)
      BY <1>2, <2>3, <3>1, ShiftMoves
    <3>3. r[Len(p) + 1][2] = x + n
      BY <3>2 DEF Index
    <3> HIDE DEF r
    <3>4. r[Len(p) + 1][2] >= k /\ r[Len(p) + 1][2] + m \in Nat
      BY <2>2, <3>1, <3>3
    <3>5. /\ u \in Seq(Segment) /\ Len(u) = Len(r)
          /\ u[Len(p) + 1] = Index(r[Len(p) + 1][2] + m)
          /\ \A l \in 1..Len(r) : l # Len(p) + 1 => u[l] = r[l]
      BY <3>2, <3>4, ShiftMoves
    <3>6. u[Len(p) + 1] = q[Len(p) + 1]
      BY <1>2, <3>1, <3>3, <3>5
    <3> HIDE DEF u
    <3>7. \A l \in 1..Len(q) : u[l] = q[l]
      BY <3>2, <3>5, <3>6
    <3>8. u = q
      BY <3>2, <3>5, <3>7, SeqEqual
    <3> QED
      BY <3>8 DEF u, r
  <2>4. CASE ~ (x >= i)
    <3>1. r = q
      BY <2>4 DEF Shift
    <3>2. ~ (x >= k)
      BY <1>2, <2>2, <2>4
    <3>3. Shift(q, p, k, m) = q
      BY <3>2 DEF Shift
    <3> QED
      BY <3>1, <3>3
  <2> QED
    BY <2>3, <2>4
<1> QED
  BY <1>1, <1>2

\* What the two lemmas before say, of all paths.
ShiftsPaths(p, i, n) ==
  /\ \A r \in Seq(Segment) :
       /\ Shift(r, p, i, n) \in Seq(Segment)
       /\ Shift(r, p, i, n) = p <=> r = p
       /\ Shift(r, p, i, n) = Root <=> r = Root
  /\ \A r \in Seq(Segment), s \in Segment :
       /\ r = p /\ s[2] >= i =>
            Shift(Append(r, s), p, i, n) = Append(p, Index(s[2] + n))
       /\ ~ (r = p /\ s[2] >= i) =>
            Shift(Append(r, s), p, i, n) = Append(Shift(r, p, i, n), s)

\* So it is in every array.
LEMMA ShiftAll ==
  ASSUME NEW p \in Seq(Segment), NEW i \in Int, NEW n \in Int, i + n >= 0
  PROVE  ShiftsPaths(p, i, n)
BY ShiftPath, ShiftGrows DEF ShiftsPaths

\* D is a part of the document d that holds the array at p and, with every
\* path, what it leads through; no array but that one lacks an element.
PartOf(D, d, p) ==
  /\ D \subseteq DOMAIN d /\ Root \in D /\ p \in D /\ Variant(d[p]) = "Array"
  /\ \A t \in Seq(Segment), s \in Segment : Append(t, s) \in D => t \in D
  /\ \A q \in D : q # p /\ Variant(d[q]) = "Array" =>
       \A j \in 0..(Held(d[q]) - 1) : Append(q, Index(j)) \in D

Position(j, i, n) == IF j >= i THEN j + n ELSE j

\* Once its elements from position i on have moved by n, the array at p has h
\* elements, but perhaps for the hole.
Fills(D, p, i, n, h, hole) ==
  /\ \A j \in Nat : Append(p, Index(j)) \in D => Position(j, i, n) < h
  /\ \A k \in 0..(h - 1) :
       \/ Append(p, Index(k)) = hole
       \/ \E j \in Nat : Append(p, Index(j)) \in D /\ k = Position(j, i, n)

\* e is this part of d, moved.
MovedTo(e, D, d, p, i, n, h) ==
  /\ e = [q \in DOMAIN e |-> e[q]]
  /\ DOMAIN e = {Shift(r, p, i, n) : r \in D}
  /\ \A r \in D : e[Shift(r, p, i, n)] = IF r = p THEN Array(h) ELSE d[r]

\* Nothing is missing from a part of a document that has moved, but perhaps
\* the hole.
LEMMA MovedDocument ==
  ASSUME NEW d, Rooted(d), NEW D, NEW p \in Seq(Segment), PartOf(D, d, p),
         NEW i \in Int, NEW n \in Int, i + n >= 0, NEW h \in Nat, NEW hole,
         Fills(D, p, i, n, h, hole), NEW e, MovedTo(e, D, d, p, i, n, h)
  PROVE  Rooted(e) /\ CompleteBut(e, hole)
<1>1. /\ D \subseteq Seq(Segment) /\ p \in D /\ Root \in D /\ p \in Seq(Segment) /\ i \in Int
      /\ \A q \in DOMAIN d : IsNode(d[q])
      /\ \A t \in Seq(Segment), s \in Segment :
           Append(t, s) \in DOMAIN d => t \in DOMAIN d /\ Leads(d[t], s)
  BY DEF Rooted, PartOf
<1>2. /\ \A r \in Seq(Segment) :
           /\ Shift(r, p, i, n) \in Seq(Segment)
           /\ Shift(r, p, i, n) = p <=> r = p
           /\ Shift(r, p, i, n) = Root <=> r = Root
      /\ \A r \in Seq(Segment), s \in Segment :
           /\ r = p /\ s[2] >= i =>
                Shift(Append(r, s), p, i, n) = Append(p, Index(s[2] + n))
           /\ ~ (r = p /\ s[2] >= i) =>
                Shift(Append(r, s), p, i, n) = Append(Shift(r, p, i, n), s)
  <2>1. ShiftsPaths(p, i, n)
    BY ShiftAll
  <2> QED
    BY <2>1 DEF ShiftsPaths
<1>3. Shift(p, p, i, n) = p /\ Shift(Root, p, i, n) = Root
  BY <1>1, <1>2
<1>4. /\ DOMAIN e = {Shift(r, p, i, n) : r \in D}
      /\ \A r \in D : e[Shift(r, p, i, n)] = IF r = p THEN Array(h) ELSE d[r]
      /\ \A q \in DOMAIN e : \E r \in D : q = Shift(r, p, i, n)
  <2>1. DOMAIN e = {Shift(r, p, i, n) : r \in D}
    BY DEF MovedTo
  <2> QED
    BY <2>1 DEF MovedTo
<1>5. \A q \in DOMAIN e : IsNode(e[q])
  <2>1. IsNode(Array(h))
    BY DEF IsNode, Array, Variant, Held
  <2>2. ASSUME NEW q \in DOMAIN e PROVE IsNode(e[q])
    <3>1. PICK r \in D : q = Shift(r, p, i, n)
      BY <1>4
    <3>2. IsNode(d[r])
      BY <1>1 DEF PartOf
    <3> QED
      BY <1>4, <2>1, <3>1, <3>2
  <2> QED
    BY <2>2
<1>6. ASSUME NEW t \in Seq(Segment), NEW s \in Segment, Append(t, s) \in DOMAIN e
      PROVE  t \in DOMAIN e /\ Leads(e[t], s)
  <2>1. PICK r \in D : Append(t, s) = Shift(r, p, i, n)
    <3> DEFINE u == Append(t, s)
    <3>1. u \in DOMAIN e
      BY <1>6
    <3> HIDE DEF u
    <3>2. \E r \in D : u = Shift(r, p, i, n)
      BY <1>4, <3>1
    <3> QED
      BY <3>2 DEF u
  <2>2. r \in Seq(Segment) /\ r # <<>>
    <3>1. Append(t, s) # <<>>
      BY PathEnds
    <3> QED
      BY <1>1, <1>2, <2>1, <3>1 DEF Root
  <2> DEFINE f == Front(r)
             l == Last(r)
  <2>3. f \in Seq(Segment) /\ l \in Segment /\ Append(f, l) = r
    BY <2>2, PathSplits
  <2> HIDE DEF f, l
  <2>4. f \in D /\ Leads(d[f], l)
    BY <1>1, <2>3 DEF PartOf
  <2>5. f = p => l[2] \in Nat /\ l = Index(l[2])
    <3>1. f = p => l[1] # "Key"
      BY <2>4 DEF Leads, PartOf
    <3> QED
      BY <2>3, <3>1, SegmentKinds
  <2>6. CASE f = p /\ l[2] >= i
    <3>1. Append(t, s) = Append(p, Index(l[2] + n)) /\ l[2] + n \in Nat /\ l[2] + n < h
      <4>1. l[2] + n < h /\ l[2] + n \in Nat
        <5>1. l[2] \in Nat /\ Append(p, Index(l[2])) \in D
          BY <2>3, <2>5, <2>6
        <5>2. Position(l[2], i, n) < h
          BY <5>1 DEF Fills
        <5> QED
          BY <2>6, <5>1, <5>2 DEF Position
      <4> QED
        BY <1>1, <1>2, <2>1, <2>3, <2>5, <2>6, <4>1
    <3>2. Index(l[2] + n) \in Segment
      BY <3>1, SegmentKinds
    <3>3. t = p /\ s = Index(l[2] + n)
      <4>1. /\ Front(Append(t, s)) = t /\ Last(Append(t, s)) = s
        BY PathEnds
      <4>2. /\ Front(Append(p, Index(l[2] + n))) = p
            /\ Last(Append(p, Index(l[2] + n))) = Index(l[2] + n)
        BY <1>1, <3>2, PathEnds
      <4> QED
        BY <3>1, <4>1, <4>2
    <3>4. e[p] = Array(h) /\ p \in DOMAIN e
      BY <1>1, <1>3, <1>4
    <3> QED
      BY <3>1, <3>3, <3>4 DEF Leads, Array, Variant, Held, Index
  <2>7. CASE ~ (f = p /\ l[2] >= i)
    <3>1. Append(t, s) = Append(Shift(f, p, i, n), l) /\ Shift(f, p, i, n) \in Seq(Segment)
      BY <1>2, <2>1, <2>3, <2>7
    <3>2. t = Shift(f, p, i, n) /\ s = l
      <4>1. /\ Front(Append(t, s)) = t /\ Last(Append(t, s)) = s
        BY PathEnds
      <4>2. /\ Front(Append(Shift(f, p, i, n), l)) = Shift(f, p, i, n)
            /\ Last(Append(Shift(f, p, i, n), l)) = l
        BY <2>3, <3>1, PathEnds
      <4> QED
        BY <3>1, <4>1, <4>2
    <3>3. t \in DOMAIN e /\ e[t] = IF f = p THEN Array(h) ELSE d[f]
      BY <1>4, <2>4, <3>2
    <3>4. CASE f = p
      <4>1. l[2] \in Nat /\ l = Index(l[2]) /\ ~ (l[2] >= i)
        BY <2>5, <2>7, <3>4
      <4>2. Append(p, Index(l[2])) \in D
        BY <2>3, <2>4, <3>4, <4>1
      <4>3. l[2] < h
        BY <4>1, <4>2 DEF Fills, Position
      <4> QED
        BY <3>2, <3>3, <3>4, <4>1, <4>3 DEF Leads, Array, Variant, Held, Index
    <3>5. CASE f # p
      BY <2>4, <3>2, <3>3, <3>5
    <3> QED
      BY <3>4, <3>5
  <2> QED
    BY <2>6, <2>7
<1>7. ASSUME NEW q \in DOMAIN e, Variant(e[q]) = "Array", NEW k \in 0..(Held(e[q]) - 1)
      PROVE  Append(q, Index(k)) \in DOMAIN e \/ Append(q, Index(k)) = hole
  <2>1. PICK r \in D : q = Shift(r, p, i, n)
    BY <1>4
  <2>2. e[q] = IF r = p THEN Array(h) ELSE d[r]
    BY <1>4, <2>1
  <2>3. k \in Nat /\ Index(k) \in Segment
    BY <1>5, <1>7, SegmentKinds DEF IsNode
  <2>4. CASE r = p
    <3>1. q = p /\ k \in 0..(h - 1)
      BY <1>3, <1>7, <2>1, <2>2, <2>4 DEF Array, Held
    <3>2. ASSUME NEW j \in Nat, Append(p, Index(j)) \in D, k = Position(j, i, n)
          PROVE  Append(p, Index(k)) \in DOMAIN e
      <4>1. Index(j) \in Segment /\ Index(j)[2] = j
        BY SegmentKinds
      <4>2. Shift(Append(p, Index(j)), p, i, n) = Append(p, Index(k))
        BY <1>1, <1>2, <1>3, <3>2, <4>1, SMTT(60) DEF Position
      <4> QED
        BY <1>4, <3>2, <4>2
    <3> QED
      BY <3>1, <3>2 DEF Fills
  <2>5. CASE r # p
    <3>1. Append(r, Index(k)) \in D
      BY <1>7, <2>2, <2>5 DEF PartOf
    <3>2. Shift(Append(r, Index(k)), p, i, n) = Append(Shift(r, p, i, n), Index(k))
      BY <1>1, <1>2, <2>3, <2>5
    <3> QED
      BY <1>4, <2>1, <3>1, <3>2
  <2> QED
    BY <2>4, <2>5
<1>8. DOMAIN e \subseteq Seq(Segment) /\ Root \in DOMAIN e
  BY <1>1, <1>2, <1>3, <1>4
<1> QED
  BY <1>5, <1>6, <1>7, <1>8 DEF MovedTo, Rooted, CompleteBut

\* What lies below an array lies in one of its elements.
LEMMA InElement ==
  ASSUME NEW d, IsDocument(d), NEW p \in DOMAIN d, Variant(d[p]) = "Array",
         NEW q \in DOMAIN d, IsStrictPrefix(p, q), NEW s, s = q[Len(p) + 1]
  PROVE  /\ s \in Segment /\ s = Index(s[2]) /\ s[2] \in 0..(Held(d[p]) - 1)
         /\ IsPrefix(Append(p, s), q)
<1>1. p \in Seq(Segment) /\ q \in Seq(Segment)
  BY DEF IsDocument
<1>2. /\ Len(p) \in Nat /\ Len(q) \in Nat /\ Len(p) + 1 \in 1..Len(q) /\ s \in Segment
      /\ (Len(p) + 1) - 1 = Len(p) /\ IsPrefix(p, q)
  BY <1>1, StrictlyLonger DEF IsStrictPrefix
<1>3. SubSeq(q, 1, Len(p)) = p
  BY <1>1, <1>2 DEF IsPrefix
<1>4. Leads(d[p], s)
  <2>1. Leads(d[SubSeq(q, 1, (Len(p) + 1) - 1)], q[Len(p) + 1])
    BY <1>2 DEF IsDocument
  <2> QED
    BY <1>2, <1>3, <2>1
<1>5. s[1] = "Index" /\ s[2] < Held(d[p])
  BY <1>4 DEF Leads
<1>6. s = Index(s[2]) /\ s[2] \in Nat
  BY <1>2, <1>5, SegmentKinds
<1>7. Held(d[p]) \in Nat
  BY DEF IsDocument, IsNode
<1>8. IsPrefix(Append(p, s), q)
  <2>1. Append(SubSeq(q, 1, (Len(p) + 1) - 1), q[Len(p) + 1]) = SubSeq(q, 1, Len(p) + 1)
    BY <1>1, <1>2, PathByPath
  <2>2. Append(p, s) = SubSeq(q, 1, Len(p) + 1) /\ Len(Append(p, s)) = Len(p) + 1
    BY <1>1, <1>2, <1>3, <2>1
  <2>3. /\ Append(p, s) \in Seq(Segment)
        /\ SubSeq(Append(p, s), 1, Len(Append(p, s))) = Append(p, s)
    BY <1>1, <1>2
  <2> QED
    BY <1>2, <2>2, <2>3 DEF IsPrefix
<1> QED
  BY <1>2, <1>5, <1>6, <1>7, <1>8

\* An element of an array is one of its elements.
LEMMA ElementsOf ==
  ASSUME NEW d, IsDocument(d), NEW p \in DOMAIN d, Variant(d[p]) = "Array"
  PROVE  /\ Held(d[p]) \in Nat
         /\ \A j \in Nat : Append(p, Index(j)) \in DOMAIN d <=> j < Held(d[p])
<1>1. p \in Seq(Segment) /\ Held(d[p]) \in Nat /\ Rooted(d)
  BY DocumentParts DEF IsDocument, IsNode
<1>2. ASSUME NEW j \in Nat, Append(p, Index(j)) \in DOMAIN d
      PROVE  j < Held(d[p])
  <2>1. Index(j) \in Segment /\ Index(j)[1] = "Index" /\ Index(j)[2] = j
    BY SegmentKinds
  <2>2. Leads(d[p], Index(j))
    BY <1>1, <1>2, <2>1 DEF Rooted
  <2> QED
    BY <2>1, <2>2 DEF Leads
<1>3. ASSUME NEW j \in Nat, j < Held(d[p])
      PROVE  Append(p, Index(j)) \in DOMAIN d
  <2>1. j \in 0..(Held(d[p]) - 1)
    BY <1>1, <1>3
  <2> QED
    BY <2>1 DEF IsDocument
<1> QED
  BY <1>1, <1>2, <1>3

\* Vec::insert leaves a document.
LEMMA InsertDocument ==
  ASSUME NEW d, IsDocument(d), NEW p \in DOMAIN d, Variant(d[p]) = "Array",
         NEW i \in 0..Held(d[p]), NEW v, IsDocument(v)
  PROVE  IsDocument(InsertElement(d, p, i, v))
<1> DEFINE h == Held(d[p])
           moved == [q \in {Shift(r, p, i, 1) : r \in DOMAIN d} |->
                       d[Shift(q, p, i + 1, -1)]]
           e == [moved EXCEPT ![p] = Array(Held(@) + 1)]
           hole == Append(p, Index(i))
<1>1. /\ p \in Seq(Segment) /\ h \in Nat /\ i \in Nat /\ DOMAIN d \subseteq Seq(Segment)
      /\ \A j \in Nat : Append(p, Index(j)) \in DOMAIN d <=> j < h
  BY ElementsOf DEF IsDocument
<1>2. Rooted(d) /\ CompleteBut(d, Root)
  BY DocumentParts
<1>3. PartOf(DOMAIN d, d, p)
  BY <1>2 DEF PartOf, Rooted, IsDocument
<1>4. Fills(DOMAIN d, p, i, 1, h + 1, hole)
  <2>1. ASSUME NEW j \in Nat, Append(p, Index(j)) \in DOMAIN d
        PROVE  Position(j, i, 1) < h + 1
    BY <1>1, <2>1 DEF Position
  <2>2. ASSUME NEW k \in 0..((h + 1) - 1), Append(p, Index(k)) # hole
        PROVE  \E j \in Nat : Append(p, Index(j)) \in DOMAIN d /\ k = Position(j, i, 1)
    <3>1. k # i /\ k \in Nat /\ k <= h
      BY <1>1, <2>2
    <3>2. CASE k < i
      <4>1. k < h /\ k = Position(k, i, 1)
        BY <1>1, <3>1, <3>2 DEF Position
      <4> QED
        BY <1>1, <3>1, <4>1
    <3>3. CASE k > i
      <4>1. k - 1 \in Nat /\ k - 1 < h /\ k = Position(k - 1, i, 1)
        BY <1>1, <3>1, <3>3 DEF Position
      <4> QED
        BY <1>1, <4>1
    <3> QED
      BY <1>1, <3>1, <3>2, <3>3
  <2> QED
    BY <2>1, <2>2 DEF Fills
<1>5. ASSUME NEW r \in DOMAIN d
      PROVE  Shift(Shift(r, p, i, 1), p, i + 1, -1) = r
  <2>1. r \in Seq(Segment)
    BY <1>1
  <2>2. IsStrictPrefix(p, r) => /\ r[Len(p) + 1] = Index(r[Len(p) + 1][2])
                                /\ r[Len(p) + 1][2] \in Nat
    BY InElement
  <2>3. IsStrictPrefix(p, r) => /\ r[Len(p) + 1] = Index(r[Len(p) + 1][2])
                                /\ r[Len(p) + 1][2] >= i \/ r[Len(p) + 1][2] < i + 1
    BY <1>1, <2>2
  <2>4. i \in Int /\ 1 \in Int /\ i + 1 >= 0 /\ i + 1 \in Int /\ -1 \in Int /\ 1 + -1 = 0
    BY <1>1
  <2> QED
    BY <1>1, <2>1, <2>3, <2>4, ShiftBack
<1>6. MovedTo(e, DOMAIN d, d, p, i, 1, h + 1)
  <2>1. DOMAIN moved = {Shift(r, p, i, 1) : r \in DOMAIN d} /\ DOMAIN e = DOMAIN moved
    OBVIOUS
  <2>2. \A r \in DOMAIN d : moved[Shift(r, p, i, 1)] = d[r]
    BY <1>5
  <2>3. ShiftsPaths(p, i, 1)
    BY <1>1, ShiftAll
  <2>4. \A r \in DOMAIN d : Shift(r, p, i, 1) = p <=> r = p
    BY <1>1, <2>3 DEF ShiftsPaths
  <2> HIDE DEF moved
  <2>5. p \in DOMAIN moved /\ moved[p] = d[p]
    BY <2>1, <2>2, <2>4
  <2>6. \A r \in DOMAIN d : e[Shift(r, p, i, 1)] = IF r = p THEN Array(h + 1) ELSE d[r]
    BY <2>1, <2>2, <2>4, <2>5
  <2> QED
    BY <2>1, <2>6 DEF MovedTo
<1>7. Put(e, hole, v) = InsertElement(d, p, i, v)
  BY DEF InsertElement
<1> HIDE DEF e, hole, moved
<1>8. Rooted(e) /\ CompleteBut(e, hole)
  <2>1. i \in Int /\ 1 \in Int /\ i + 1 >= 0 /\ h + 1 \in Nat
    BY <1>1
  <2> QED
    BY <1>1, <1>2, <1>3, <1>4, <1>6, <2>1, MovedDocument
<1>9. Attached(e, hole) /\ hole \in Seq(Segment)
  <2>1. Index(i) \in Segment /\ Index(i)[1] = "Index" /\ Index(i)[2] = i
    BY <1>1, SegmentKinds
  <2>2. p \in DOMAIN e /\ e[p] = Array(h + 1)
    <3>1. ShiftsPaths(p, i, 1)
      BY <1>1, ShiftAll
    <3>2. Shift(p, p, i, 1) = p
      BY <1>1, <3>1 DEF ShiftsPaths
    <3> QED
      BY <1>6, <3>2 DEF MovedTo
  <2>3. Leads(e[p], Index(i))
    BY <1>1, <2>1, <2>2 DEF Leads, Array, Variant, Held
  <2> QED
    BY <1>1, <2>1, <2>2, <2>3, PathEnds DEF Attached, hole
<1> QED
  BY <1>7, <1>8, <1>9, PutDocument

\* Vec::remove leaves a document.
LEMMA RemoveDocument ==
  ASSUME NEW d, IsDocument(d), NEW p \in DOMAIN d, Variant(d[p]) = "Array",
         NEW i \in 0..(Held(d[p]) - 1)
  PROVE  IsDocument(RemoveElement(d, p, i))
<1> DEFINE h == Held(d[p])
           gone == Append(p, Index(i))
           cut == Cut(d, gone)
           D == DOMAIN cut
           e == [q \in {Shift(r, p, i + 1, -1) : r \in D} |->
                   IF q = p THEN Array(h - 1) ELSE cut[Shift(q, p, i, 1)]]
<1>1. /\ p \in Seq(Segment) /\ h \in Nat /\ i \in Nat /\ i < h /\ DOMAIN d \subseteq Seq(Segment)
      /\ \A j \in Nat : Append(p, Index(j)) \in DOMAIN d <=> j < h
  BY ElementsOf DEF IsDocument
<1>2. /\ Index(i) \in Segment /\ gone \in Seq(Segment) /\ gone # Root
      /\ Front(gone) = p /\ Last(gone) = Index(i)
  BY <1>1, SegmentKinds, PathEnds DEF Root
<1>3. Rooted(d) /\ CompleteBut(d, Root)
  BY DocumentParts
<1>4. e = RemoveElement(d, p, i)
  BY DEF RemoveElement
<1>5. /\ \A q : q \in D <=> q \in DOMAIN d /\ ~ IsPrefix(gone, q)
      /\ \A q \in D : cut[q] = d[q]
  BY <1>2, CutParts
<1>6. Rooted(cut)
  BY <1>2, <1>3, CutRooted
<1> HIDE DEF gone, cut
<1>7. p \in D
  <2>1. ASSUME IsPrefix(gone, p) PROVE FALSE
    <3>1. IsPrefix(p, p) /\ (IsPrefix(p, gone) <=> IsPrefix(p, p) \/ p = gone)
      BY <1>1, <1>2, PrefixOfItself, PrefixOfLonger DEF gone
    <3>2. p = gone
      BY <1>1, <1>2, <2>1, <3>1, PrefixBothWays
    <3>3. Len(gone) = Len(p) + 1 /\ Len(p) \in Nat
      BY <1>1, <1>2 DEF gone
    <3> QED
      BY <3>2, <3>3
  <2> QED
    BY <1>5, <2>1
<1>8. \A j \in Nat : Append(p, Index(j)) \in D <=> j < h /\ j # i
  <2>1. ASSUME NEW j \in Nat PROVE Append(p, Index(j)) \in D <=> j < h /\ j # i
    <3>1. Index(j) \in Segment /\ (Index(j) = Index(i) <=> j = i)
      BY SegmentKinds
    <3>2. Append(p, Index(j)) = gone <=> j = i
      <4>1. Last(Append(p, Index(j))) = Index(j)
        BY <1>1, <3>1, PathEnds
      <4> QED
        BY <1>2, <3>1, <4>1 DEF gone
    <3>3. IsPrefix(gone, Append(p, Index(j))) <=> IsPrefix(gone, p) \/ gone = Append(p, Index(j))
      BY <1>1, <1>2, <3>1, PrefixOfLonger
    <3> QED
      BY <1>1, <1>5, <1>7, <3>2, <3>3
  <2> QED
    BY <2>1
<1>9. PartOf(D, d, p)
  <2>1. ASSUME NEW t \in Seq(Segment), NEW s \in Segment, Append(t, s) \in D
        PROVE  t \in D
    BY <1>6, <2>1 DEF Rooted
  <2>2. ASSUME NEW q \in D, q # p, Variant(d[q]) = "Array", NEW j \in 0..(Held(d[q]) - 1)
        PROVE  Append(q, Index(j)) \in D
    <3>1. q \in DOMAIN d /\ q \in Seq(Segment) /\ ~ IsPrefix(gone, q)
      BY <1>1, <1>5
    <3>2. Append(q, Index(j)) \in DOMAIN d /\ j \in Nat
      BY <2>2, <3>1 DEF IsDocument, IsNode
    <3>3. Index(j) \in Segment
      BY <3>2, SegmentKinds
    <3>4. gone # Append(q, Index(j))
      <4>1. Front(Append(q, Index(j))) = q
        BY <3>1, <3>3, PathEnds
      <4> QED
        BY <1>2, <2>2, <4>1
    <3>5. ~ IsPrefix(gone, Append(q, Index(j)))
      BY <1>2, <3>1, <3>3, <3>4, PrefixOfLonger
    <3> QED
      BY <1>5, <3>2, <3>5
  <2>3. D \subseteq DOMAIN d /\ Root \in D
    BY <1>5, <1>6 DEF Rooted
  <2> QED
    BY <1>7, <2>1, <2>2, <2>3 DEF PartOf
<1>10. Fills(D, p, i + 1, -1, h - 1, Root)
  <2>1. ASSUME NEW j \in Nat, Append(p, Index(j)) \in D
        PROVE  Position(j, i + 1, -1) < h - 1
    BY <1>1, <1>8, <2>1 DEF Position
  <2>2. ASSUME NEW k \in 0..((h - 1) - 1)
        PROVE  \E j \in Nat : Append(p, Index(j)) \in D /\ k = Position(j, i + 1, -1)
    <3>1. k \in Nat /\ k < h - 1
      BY <1>1, <2>2
    <3>2. CASE k < i
      <4>1. k < h /\ k # i /\ k = Position(k, i + 1, -1)
        BY <1>1, <3>1, <3>2 DEF Position
      <4> QED
        BY <1>8, <3>1, <4>1
    <3>3. CASE ~ (k < i)
      <4>1. k + 1 \in Nat /\ k + 1 < h /\ k + 1 # i /\ k = Position(k + 1, i + 1, -1)
        BY <1>1, <3>1, <3>3 DEF Position
      <4> QED
        BY <1>8, <4>1
    <3> QED
      BY <3>2, <3>3
  <2> QED
    BY <2>1, <2>2 DEF Fills
<1>11. /\ i + 1 \in Int /\ -1 \in Int /\ (i + 1) + -1 >= 0 /\ h - 1 \in Nat
       /\ i \in Int /\ i = (i + 1) + -1 /\ 1 \in Int /\ -1 + 1 = 0
  <2> HIDE DEF h
  <2>1. /\ i + 1 \in Int /\ (i + 1) + -1 >= 0 /\ h - 1 \in Nat
        /\ i \in Int /\ i = (i + 1) + -1
    BY <1>1
  <2>2. -1 \in Int /\ 1 \in Int /\ -1 + 1 = 0
    OBVIOUS
  <2> QED
    BY <2>1, <2>2
<1>12. ASSUME NEW r \in D
       PROVE  Shift(Shift(r, p, i + 1, -1), p, i, 1) = r
  <2>1. r \in Seq(Segment) /\ r \in DOMAIN d /\ ~ IsPrefix(gone, r)
    BY <1>1, <1>5
  <2>2. IsStrictPrefix(p, r) => /\ r[Len(p) + 1] = Index(r[Len(p) + 1][2])
                                /\ r[Len(p) + 1][2] \in 0..(h - 1)
                                /\ IsPrefix(Append(p, r[Len(p) + 1]), r)
    BY <2>1, InElement
  <2>3. IsStrictPrefix(p, r) => r[Len(p) + 1][2] # i
    BY <2>1, <2>2 DEF gone
  <2>4. IsStrictPrefix(p, r) => /\ r[Len(p) + 1] = Index(r[Len(p) + 1][2])
                                /\ r[Len(p) + 1][2] >= i + 1 \/ r[Len(p) + 1][2] < i
    BY <1>1, <2>2, <2>3
  <2> QED
    BY <1>1, <1>11, <2>1, <2>4, ShiftBack
<1>13. MovedTo(e, D, d, p, i + 1, -1, h - 1)
  <2>1. DOMAIN e = {Shift(r, p, i + 1, -1) : r \in D}
    OBVIOUS
  <2>2. ShiftsPaths(p, i + 1, -1)
    BY <1>1, <1>11, ShiftAll
  <2>3. \A r \in D : Shift(r, p, i + 1, -1) = p <=> r = p
    BY <1>1, <1>5, <2>2 DEF ShiftsPaths
  <2>4. ASSUME NEW r \in D
        PROVE  e[Shift(r, p, i + 1, -1)] = IF r = p THEN Array(h - 1) ELSE d[r]
    BY <1>5, <1>12, <2>3
  <2> QED
    BY <2>1, <2>4 DEF MovedTo
<1> HIDE DEF e, D, h
<1>14. Rooted(e) /\ CompleteBut(e, Root)
  BY <1>1, <1>3, <1>9, <1>10, <1>11, <1>13, MovedDocument
<1> QED
  BY <1>4, <1>14, DocumentFrom

\* Looking for an element that is not there, just after the end.
LEMMA PlaceAtEnd ==
  ASSUME NEW d, IsDocument(d), NEW p \in Seq(Segment), IsPlaceInArray(d, p)
  PROVE  /\ Front(p) \in DOMAIN d /\ Variant(d[Front(p)]) = "Array"
         /\ p = Append(Front(p), Index(Last(p)[2])) /\ Last(p)[2] \in Nat
         /\ p \in DOMAIN d <=> Last(p)[2] < Held(d[Front(p)])
         /\ p \notin DOMAIN d <=> Last(p)[2] = Held(d[Front(p)])
<1>1. Last(p) \in Segment /\ Append(Front(p), Last(p)) = p
  BY PathSplits DEF IsPlaceInArray, Root
<1>2. Last(p)[2] \in Nat /\ Last(p) = Index(Last(p)[2])
  BY <1>1, SegmentKinds DEF IsPlaceInArray
<1>3. Front(p) \in DOMAIN d /\ Variant(d[Front(p)]) = "Array" /\ Last(p)[2] <= Held(d[Front(p)])
  BY DEF IsPlaceInArray
<1> DEFINE h == Held(d[Front(p)])
           j == Last(p)[2]
<1>4. h \in Nat /\ (Append(Front(p), Index(j)) \in DOMAIN d <=> j < h)
  BY <1>2, <1>3, ElementsOf
<1>5. p = Append(Front(p), Index(j)) /\ j \in Nat /\ j <= h
  BY <1>1, <1>2, <1>3
<1> HIDE DEF h, j
<1>6. (p \in DOMAIN d <=> j < h) /\ (p \notin DOMAIN d <=> j = h)
  <2>1. p \in DOMAIN d <=> j < h
    BY <1>4, <1>5
  <2>2. j = h <=> ~ (j < h)
    BY <1>4, <1>5
  <2> QED
    BY <2>1, <2>2
<1> QED
  BY <1>3, <1>5, <1>6 DEF h, j

\* What is there can be put again.
LEMMA AttachedThere ==
  ASSUME NEW d, IsDocument(d), NEW p \in DOMAIN d
  PROVE  p \in Seq(Segment) /\ Attached(d, p)
<1>1. p \in Seq(Segment) /\ Rooted(d)
  BY DocumentParts DEF IsDocument
<1>2. CASE p = Root
  BY <1>1, <1>2 DEF Attached
<1>3. CASE p # Root
  <2>1. Front(p) \in Seq(Segment) /\ Last(p) \in Segment /\ Append(Front(p), Last(p)) = p
    BY <1>1, <1>3, PathSplits DEF Root
  <2>2. Append(Front(p), Last(p)) \in DOMAIN d
    BY <2>1
  <2>3. Front(p) \in DOMAIN d /\ Leads(d[Front(p)], Last(p))
    BY <1>1, <2>1, <2>2 DEF Rooted
  <2> QED
    BY <1>1, <2>1, <2>3 DEF Attached
<1> QED
  BY <1>2, <1>3

\* set_path leaves a document when it succeeds.
LEMMA SetPathDocument ==
  ASSUME NEW d, IsDocument(d), NEW p \in Seq(Segment), NEW v, IsDocument(v), CanSet(d, p)
  PROVE  IsDocument(SetPath(d, p, v))
<1>1. Rooted(d) /\ CompleteBut(d, p)
  BY DocumentParts
<1>2. CASE IsPlaceInArray(d, p) /\ p \notin DOMAIN d
  <2>1. /\ Front(p) \in DOMAIN d /\ Variant(d[Front(p)]) = "Array"
        /\ Held(d[Front(p)]) \in 0..Held(d[Front(p)])
    BY <1>2, PlaceAtEnd
  <2>2. IsDocument(InsertElement(d, Front(p), Held(d[Front(p)]), v))
    BY <2>1, InsertDocument
  <2> QED
    BY <1>2, <2>2 DEF SetPath
<1>3. CASE IsPlaceInArray(d, p) /\ p \in DOMAIN d
  <2>1. /\ Front(p) \in DOMAIN d /\ Last(p) \in Segment /\ p = Append(Front(p), Last(p))
        /\ Leads(d[Front(p)], Last(p))
    <3>1. /\ Front(p) \in Seq(Segment) /\ Last(p) \in Segment /\ Append(Front(p), Last(p)) = p
      BY <1>3, PathSplits DEF IsPlaceInArray, Root
    <3>2. Append(Front(p), Last(p)) \in DOMAIN d
      BY <1>3, <3>1
    <3> QED
      BY <1>1, <3>1, <3>2 DEF Rooted
  <2>2. Attached(d, p)
    BY <2>1 DEF Attached
  <2>3. IsDocument(Put(d, p, v))
    BY <1>1, <2>2, PutDocument
  <2> QED
    BY <1>3, <2>3 DEF SetPath
<1>4. CASE ~ IsPlaceInArray(d, p)
  <2>1. Attached(d, p)
    <3>1. CASE p = Root
      BY <3>1 DEF Attached
    <3>2. CASE IsKeyOfObject(d, p)
      <4>1. /\ Front(p) \in DOMAIN d /\ Last(p) \in Segment /\ p = Append(Front(p), Last(p))
        BY <3>2, PathSplits DEF IsKeyOfObject, Root
      <4>2. Leads(d[Front(p)], Last(p))
        BY <3>2 DEF IsKeyOfObject, Leads
      <4> QED
        BY <4>1, <4>2 DEF Attached
    <3> QED
      BY <1>4, <3>1, <3>2 DEF CanSet
  <2>2. IsDocument(Put(d, p, v))
    BY <1>1, <2>1, PutDocument
  <2> QED
    BY <1>4, <2>2 DEF SetPath
<1> QED
  BY <1>2, <1>3, <1>4

\* What is there can be removed.
LEMMA ThereCanRemove ==
  ASSUME NEW d, IsDocument(d), NEW p \in DOMAIN d
  PROVE  CanRemove(d, p)
<1>1. Attached(d, p) /\ p \in Seq(Segment)
  BY AttachedThere
<1>2. CASE p = Root
  BY <1>2 DEF CanRemove
<1>3. CASE p # Root
  <2>1. PICK t \in DOMAIN d, s \in Segment : p = Append(t, s) /\ Leads(d[t], s)
    BY <1>1, <1>3 DEF Attached
  <2>2. t \in Seq(Segment) /\ Front(p) = t /\ Last(p) = s
    BY <2>1, PathEnds DEF IsDocument
  <2>3. CASE Variant(d[t]) = "Object" /\ s[1] = "Key"
    BY <1>3, <2>2, <2>3 DEF CanRemove, IsKeyOfObject
  <2>4. CASE Variant(d[t]) = "Array" /\ s[1] = "Index" /\ s[2] < Held(d[t])
    <3>1. s[2] \in Nat /\ Held(d[t]) \in Nat
      BY <2>4, SegmentKinds DEF IsDocument, IsNode
    <3>2. s[2] <= Held(d[t])
      BY <2>4, <3>1
    <3> QED
      BY <1>3, <2>2, <2>4, <3>2 DEF CanRemove, IsPlaceInArray
  <2> QED
    BY <2>1, <2>3, <2>4 DEF Leads
<1> QED
  BY <1>2, <1>3

\* remove_path leaves a document when it succeeds.
LEMMA RemovePathDocument ==
  ASSUME NEW d, IsDocument(d), NEW p \in Seq(Segment), CanRemove(d, p)
  PROVE  IsDocument(RemovePath(d, p))
<1>1. CASE p = Root
  <2>1. IsNode(Null) /\ Variant(Null) # "Array"
    BY DEF IsNode, Null, Variant, Held
  <2> QED
    BY <1>1, <2>1, LeafDocument DEF RemovePath
<1>2. CASE p # Root /\ IsPlaceInArray(d, p)
  <2>1. p \in DOMAIN d
    BY <1>2 DEF CanRemove, IsKeyOfObject, IsPlaceInArray
  <2>2. /\ Front(p) \in DOMAIN d /\ Variant(d[Front(p)]) = "Array"
        /\ Last(p)[2] \in 0..(Held(d[Front(p)]) - 1)
    <3>1. /\ Front(p) \in DOMAIN d /\ Variant(d[Front(p)]) = "Array"
          /\ Last(p)[2] \in Nat /\ Last(p)[2] < Held(d[Front(p)])
      BY <1>2, <2>1, PlaceAtEnd
    <3>2. Held(d[Front(p)]) \in Nat
      BY <3>1, ElementsOf
    <3> QED
      BY <3>1, <3>2
  <2>3. IsDocument(RemoveElement(d, Front(p), Last(p)[2]))
    BY <2>2, RemoveDocument
  <2> QED
    BY <1>2, <2>3 DEF RemovePath
<1>3. CASE p # Root /\ ~ IsPlaceInArray(d, p)
  <2>1. Rooted(d) /\ CompleteBut(d, Root) /\ Variant(d[Front(p)]) = "Object"
    BY <1>3, DocumentParts DEF CanRemove, IsKeyOfObject
  <2>2. Rooted(Cut(d, p)) /\ CompleteBut(Cut(d, p), p)
    BY <1>3, <2>1, CutRooted
  <2>3. CompleteBut(Cut(d, p), Root)
    <3>1. ASSUME NEW q \in DOMAIN Cut(d, p), Variant(Cut(d, p)[q]) = "Array",
                 NEW i \in 0..(Held(Cut(d, p)[q]) - 1)
          PROVE  Append(q, Index(i)) # p
      <4>1. q \in Seq(Segment) /\ q \in DOMAIN d /\ Cut(d, p)[q] = d[q] /\ IsNode(d[q])
        BY <2>1, CutParts DEF Rooted
      <4>2. Index(i) \in Segment
        BY <3>1, <4>1, SegmentKinds DEF IsNode
      <4>3. Front(Append(q, Index(i))) = q
        BY <4>1, <4>2, PathEnds
      <4> QED
        BY <2>1, <3>1, <4>1, <4>3
    <3> QED
      BY <2>2, <3>1 DEF CompleteBut
  <2>4. IsDocument(Cut(d, p))
    BY <2>2, <2>3, DocumentFrom
  <2> QED
    BY <1>3, <2>4 DEF RemovePath
<1> QED
  BY <1>1, <1>2, <1>3
-----------------------------------------------------------------------------
(***************************************************************************)
(* The members of objects.                                                 *)
(***************************************************************************)
\* A longer path goes on with one segment more.
LEMMA NextSegment ==
  ASSUME NEW p \in Seq(Segment), NEW q \in Seq(Segment), IsPrefix(p, q), p # q,
         NEW s, s = q[Len(p) + 1]
  PROVE  /\ s \in Segment /\ IsPrefix(Append(p, s), q)
         /\ Drop(q, Len(p)) # Root /\ Drop(q, Len(p))[1] = s
<1>1. /\ Len(p) \in Nat /\ Len(q) \in Nat /\ Len(p) < Len(q) /\ Len(p) + 1 \in 1..Len(q)
      /\ s \in Segment /\ (Len(p) + 1) - 1 = Len(p)
  BY StrictlyLonger DEF IsStrictPrefix
<1>2. SubSeq(q, 1, Len(p)) = p
  BY <1>1 DEF IsPrefix
<1>3. Append(SubSeq(q, 1, (Len(p) + 1) - 1), q[Len(p) + 1]) = SubSeq(q, 1, Len(p) + 1)
  BY <1>1, PathByPath
<1>4. Append(p, s) = SubSeq(q, 1, Len(p) + 1) /\ Len(Append(p, s)) = Len(p) + 1
  BY <1>1, <1>2, <1>3
<1>5. /\ Append(p, s) \in Seq(Segment)
      /\ SubSeq(Append(p, s), 1, Len(Append(p, s))) = Append(p, s)
  BY <1>1
<1>6. IsPrefix(Append(p, s), q)
  BY <1>1, <1>4, <1>5 DEF IsPrefix
<1>7. Len(Drop(q, Len(p))) = Len(q) - Len(p) /\ Drop(q, Len(p))[1] = s
  BY <1>1 DEF Drop
<1> QED
  BY <1>1, <1>6, <1>7 DEF Root

\* What a path leads through is there.
LEMMA OnTheWay ==
  ASSUME NEW d, IsDocument(d), NEW q \in DOMAIN d, NEW p \in Seq(Segment), IsPrefix(p, q)
  PROVE  p \in DOMAIN d
<1>1. q \in Seq(Segment)
  BY DEF IsDocument
<1>2. CASE p = q
  BY <1>2
<1>3. CASE p # q
  <2>1. /\ Len(p) \in Nat /\ Len(p) + 1 \in 1..Len(q) /\ (Len(p) + 1) - 1 = Len(p)
    BY <1>1, <1>3, StrictlyLonger DEF IsStrictPrefix
  <2>2. SubSeq(q, 1, Len(p)) = p
    BY <1>1, <2>1 DEF IsPrefix
  <2>3. SubSeq(q, 1, (Len(p) + 1) - 1) \in DOMAIN d
    BY <2>1 DEF IsDocument
  <2> QED
    BY <2>1, <2>2, <2>3
<1> QED
  BY <1>2, <1>3

\* Every member of an object lies at or below one of its keys.
LEMMA BelowAKey ==
  ASSUME NEW v, IsDocument(v), Variant(v[Root]) = "Object",
         NEW r \in DOMAIN v, r # Root
  PROVE  \E k \in MemberKeys(v, Root) : r[1] = Key(k)
<1>1. r \in Seq(Segment) /\ Root \in Seq(Segment) /\ IsPrefix(Root, r) /\ Len(Root) + 1 = 1
  BY PrefixOfItself DEF IsDocument, Root
<1>2. r[1] \in Segment /\ IsPrefix(Append(Root, r[1]), r)
  BY <1>1, NextSegment
<1>3. Append(Root, r[1]) \in DOMAIN v /\ Append(Root, r[1]) \in Seq(Segment)
  <2>1. Append(Root, r[1]) \in Seq(Segment)
    BY <1>1, <1>2, PathEnds
  <2> QED
    BY <1>2, <2>1, OnTheWay
<1>4. Leads(v[Root], r[1])
  BY <1>1, <1>2, <1>3, DocumentParts DEF Rooted
<1>5. r[1][1] = "Key"
  BY <1>4 DEF Leads
<1>6. r[1][2] \in Keys /\ r[1] = Key(r[1][2])
  BY <1>2, <1>5, SegmentKinds
<1> QED
  BY <1>3, <1>6 DEF MemberKeys
==============================================================================
