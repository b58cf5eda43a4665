-------------------------- MODULE BinaryStoreProofs --------------------------
(***************************************************************************)
(* A file that nothing happened to is read back with every cell in its row *)
(* and column; a table's questions are answered by its rows whether it was *)
(* stored between them or not; damage in one place is never mistaken for   *)
(* another value, with the exceptions the code leaves open; and the fast   *)
(* paths agree with the decoder on any file, damaged or not: for all       *)
(* values the program may hold, any threshold and any number of columns,   *)
(* rows and questions.                                                     *)
(***************************************************************************)
EXTENDS BinaryStore, FiniteSetTheorems, SequenceTheorems, TLAPS

(***************************************************************************)
(* Numbers in order.                                                       *)
(***************************************************************************)
\* How many numbers of a set a number is not exceeded by.
Rank(S, n) == Cardinality({m \in S : m <= n})

\* A greater number has a greater rank, and all ranks are taken.
LEMMA Ranks ==
  ASSUME NEW S, S \subseteq Int, IsFiniteSet(S)
  PROVE  /\ Cardinality(S) \in Nat
         /\ \A n \in S : Rank(S, n) \in 1..Cardinality(S)
         /\ \A m, n \in S : m < n => Rank(S, m) < Rank(S, n)
         /\ \A i \in 1..Cardinality(S) : \E n \in S : Rank(S, n) = i
<1> DEFINE Upto(n) == {m \in S : m <= n}
           c == Cardinality(S)
<1>1. c \in Nat
  BY FS_CardinalityType
<1>2. ASSUME NEW n \in S
      PROVE  IsFiniteSet(Upto(n)) /\ Cardinality(Upto(n)) \in Nat /\ Cardinality(Upto(n)) <= c
  BY FS_Subset, FS_CardinalityType
<1>3. ASSUME NEW n \in S PROVE Rank(S, n) \in 1..c
  <2>1. Upto(n) # {}
    <3>1. n \in Upto(n)
      OBVIOUS
    <3> QED
      BY <3>1
  <2>2. Cardinality(Upto(n)) # 0
    BY <1>2, <2>1, FS_EmptySet
  <2> HIDE DEF c
  <2> QED
    BY <1>1, <1>2, <2>2 DEF Rank
<1>4. ASSUME NEW m \in S, NEW n \in S, m < n PROVE Rank(S, m) < Rank(S, n)
  <2>1. Upto(m) \subseteq Upto(n) /\ n \in Upto(n) /\ n \notin Upto(m)
    <3>1. m \in Int /\ n \in Int
      OBVIOUS
    <3>2. n <= n /\ ~ (n <= m) /\ \A k \in Int : k <= m => k <= n
      BY <1>4, <3>1
    <3> QED
      BY <3>2
  <2>2. Upto(m) # Upto(n) /\ Upto(m) \in SUBSET Upto(n)
    BY <2>1
  <2> HIDE DEF Upto
  <2>3. /\ Cardinality(Upto(m)) <= Cardinality(Upto(n))
        /\ Cardinality(Upto(m)) # Cardinality(Upto(n))
    BY <1>2, <2>2, FS_Subset
  <2>4. Cardinality(Upto(m)) \in Nat /\ Cardinality(Upto(n)) \in Nat
    BY <1>2
  <2> QED
    BY <2>3, <2>4 DEF Rank, Upto
<1>5. ASSUME NEW i \in 1..c PROVE \E n \in S : Rank(S, n) = i
  <2> DEFINE f == [n \in S |-> Rank(S, n)]
  <2>1. f \in [S -> 1..c]
    BY <1>3
  <2>2. \A m, n \in S : f[m] = f[n] => m = n
    <3>1. SUFFICES ASSUME NEW m \in S, NEW n \in S, m # n PROVE f[m] # f[n]
      OBVIOUS
    <3>2. m < n \/ n < m
      BY <3>1
    <3>3. Rank(S, m) \in Int /\ Rank(S, n) \in Int
      BY <1>3
    <3> QED
      BY <1>4, <3>2, <3>3
  <2> HIDE DEF f
  <2>3. f \in Injection(S, 1..c)
    BY <2>1, <2>2 DEF Injection, IsInjective
  <2>4. IsFiniteSet(1..c) /\ Cardinality(1..c) = c
    <3> HIDE DEF c
    <3> QED
      BY <1>1, FS_Interval
  <2>5. f \in Surjection(S, 1..c)
    BY <2>3, <2>4, FS_Injection
  <2>6. \E n \in S : f[n] = i
    BY <2>5 DEF Surjection
  <2> QED
    BY <2>6 DEF f
<1> QED
  BY <1>1, <1>3, <1>4, <1>5

\* InOrder lists a set of numbers, each once and in their order.
LEMMA InOrderLists ==
  ASSUME NEW S, S \subseteq Int, IsFiniteSet(S)
  PROVE  /\ DOMAIN InOrder(S) = 1..Cardinality(S) /\ Cardinality(S) \in Nat
         /\ InOrder(S) = [i \in 1..Cardinality(S) |-> InOrder(S)[i]]
         /\ \A i \in 1..Cardinality(S) : InOrder(S)[i] \in S /\ Rank(S, InOrder(S)[i]) = i
         /\ \A n \in S : \E i \in 1..Cardinality(S) : InOrder(S)[i] = n
         /\ \A i, j \in 1..Cardinality(S) : i < j => InOrder(S)[i] < InOrder(S)[j]
<1> DEFINE c == Cardinality(S)
           order == InOrder(S)
<1>1. order = [i \in 1..c |-> CHOOSE n \in S : Rank(S, n) = i]
  BY DEF InOrder, Rank
<1>2. c \in Nat
  BY Ranks
<1>3. ASSUME NEW i \in 1..c PROVE order[i] \in S /\ Rank(S, order[i]) = i
  <2>1. \E n \in S : Rank(S, n) = i
    BY Ranks
  <2>2. order[i] = CHOOSE n \in S : Rank(S, n) = i
    BY <1>1
  <2> QED
    BY <2>1, <2>2
<1> HIDE DEF order
<1>4. ASSUME NEW m \in S, NEW n \in S, Rank(S, m) = Rank(S, n) PROVE m = n
  <2>1. m < n \/ n < m \/ m = n
    OBVIOUS
  <2>2. Rank(S, m) \in 1..c
    BY Ranks
  <2>3. ~ (Rank(S, m) < Rank(S, n)) /\ ~ (Rank(S, n) < Rank(S, m))
    BY <1>2, <1>4, <2>2
  <2> QED
    BY <2>1, <2>3, Ranks
<1>5. ASSUME NEW n \in S PROVE \E i \in 1..c : order[i] = n
  <2>1. Rank(S, n) \in 1..c
    BY Ranks
  <2>2. order[Rank(S, n)] \in S /\ Rank(S, order[Rank(S, n)]) = Rank(S, n)
    BY <1>3, <2>1
  <2> QED
    BY <1>4, <2>1, <2>2
<1>6. ASSUME NEW i \in 1..c, NEW j \in 1..c, i < j PROVE order[i] < order[j]
  <2>1. order[i] \in Int /\ order[j] \in Int /\ order[i] # order[j]
    <3>1. i # j
      BY <1>2, <1>6
    <3> HIDE DEF c
    <3> QED
      BY <1>3, <3>1
  <2>2. ~ (order[j] < order[i])
    <3>1. order[j] < order[i] => Rank(S, order[j]) < Rank(S, order[i])
      BY <1>3, Ranks
    <3>2. Rank(S, order[j]) = j /\ Rank(S, order[i]) = i
      BY <1>3
    <3> QED
      BY <1>2, <1>6, <3>1, <3>2
  <2> QED
    BY <2>1, <2>2
<1> QED
  BY <1>1, <1>2, <1>3, <1>5, <1>6 DEF order

\* The numbers up to n in order are themselves.
LEMMA InOrderAll ==
  ASSUME NEW n \in Nat
  PROVE  InOrder(1..n) = [i \in 1..n |-> i]
<1>1. IsFiniteSet(1..n) /\ Cardinality(1..n) = n /\ 1..n \subseteq Int
  BY FS_Interval
<1>2. ASSUME NEW i \in 1..n PROVE Rank(1..n, i) = i
  <2>1. {m \in 1..n : m <= i} = 1..i
    BY <1>2
  <2>2. Cardinality(1..i) = i
    BY <1>2, FS_Interval
  <2> QED
    BY <2>1, <2>2 DEF Rank
<1>3. ASSUME NEW i \in 1..n PROVE InOrder(1..n)[i] = i
  <2>1. InOrder(1..n)[i] \in 1..n /\ Rank(1..n, InOrder(1..n)[i]) = i
    BY <1>1, InOrderLists
  <2> QED
    BY <1>2, <2>1
<1> QED
  BY <1>1, <1>3, InOrderLists

\* What Those takes of a sequence.
LEMMA ThoseTake ==
  ASSUME NEW seq, NEW S, S \subseteq Int, IsFiniteSet(S)
  PROVE  /\ DOMAIN Those(seq, S) = 1..Cardinality(S)
         /\ Those(seq, S) = [i \in 1..Cardinality(S) |-> Those(seq, S)[i]]
         /\ Len(Those(seq, S)) = Cardinality(S) /\ Cardinality(S) \in Nat
         /\ \A i \in 1..Cardinality(S) : Those(seq, S)[i] = seq[InOrder(S)[i]]
<1>1. DOMAIN InOrder(S) = 1..Cardinality(S) /\ Cardinality(S) \in Nat
  BY InOrderLists
<1>2. Those(seq, S) = [i \in 1..Cardinality(S) |-> seq[InOrder(S)[i]]]
  BY <1>1 DEF Those
<1> QED
  BY <1>1, <1>2

\* All of a sequence is the sequence.
LEMMA ThoseAll ==
  ASSUME NEW n \in Nat, NEW seq, seq = [i \in 1..n |-> seq[i]]
  PROVE  Those(seq, 1..n) = seq
<1>1. Those(seq, 1..n) = [i \in 1..n |-> seq[i]]
  BY InOrderAll DEF Those
<1> QED
  BY <1>1

\* The least number of a set.
LEMMA MinOf ==
  ASSUME NEW S, S \subseteq Int, IsFiniteSet(S), S # {}
  PROVE  Min(S) \in S /\ \A n \in S : Min(S) <= n
<1> DEFINE c == Cardinality(S)
<1>1. c \in Nat /\ c # 0
  BY FS_CardinalityType, FS_EmptySet
<1>2. 1 \in 1..c
  BY <1>1
<1>3. InOrder(S)[1] \in S
  BY <1>2, InOrderLists
<1>4. ASSUME NEW n \in S PROVE InOrder(S)[1] <= n
  <2>1. PICK i \in 1..c : InOrder(S)[i] = n
    BY InOrderLists
  <2>2. i = 1 \/ 1 < i
    BY <1>1
  <2>3. 1 < i => InOrder(S)[1] < n
    BY <1>2, <2>1, InOrderLists
  <2>4. InOrder(S)[1] \in Int /\ n \in Int
    BY <1>3
  <2> HIDE DEF c
  <2>5. CASE i = 1
    BY <2>1, <2>4, <2>5
  <2>6. CASE 1 < i
    BY <2>3, <2>4, <2>6
  <2> QED
    BY <2>2, <2>5, <2>6
<1>5. \E x \in S : \A y \in S : x =< y
  BY <1>3, <1>4
<1> QED
  BY <1>5 DEF Min

\* Where a sequence first passes a test is looked up like this.
LEMMA FirstOf ==
  ASSUME NEW n \in Nat, NEW I, I = {i \in 1..n : i \in I}
  PROVE  I # {} => Min(I) \in I /\ \A i \in I : Min(I) <= i
<1>1. IsFiniteSet(1..n) /\ I \in SUBSET (1..n)
  BY FS_Interval
<1>2. IsFiniteSet(I) /\ I \subseteq Int
  BY <1>1, FS_Subset
<1> QED
  BY <1>2, MinOf
-----------------------------------------------------------------------------
(***************************************************************************)
(* Columns.                                                                *)
(***************************************************************************)
\* Division leaves a remainder.
LEMMA Divided ==
  ASSUME NEW a \in Nat, NEW b \in Nat \ {0}
  PROVE  /\ a \div b \in Nat /\ a % b \in 0..(b - 1)
         /\ a = (a \div b) * b + (a % b)
<1> DEFINE T == {t \in 0..a : a < (t + 1) * b}
           q == Min(T)
<1>1. a < (a + 1) * b
  OBVIOUS
<1>2. q \in T /\ \A t \in T : q <= t
  <2>1. a \in T
    BY <1>1
  <2>2. T = {t \in 0..a : t \in T} /\ IsFiniteSet(0..a)
    BY FS_Interval
  <2>3. IsFiniteSet(T) /\ T \subseteq Int
    BY <2>2, FS_Subset
  <2> QED
    BY <2>1, <2>3, MinOf
<1>3. q * b <= a
  <2>1. CASE q = 0
    BY <2>1
  <2>2. CASE q # 0
    <3>1. q \in 1..a /\ q - 1 \notin T
      BY <1>2, <2>2
    <3>2. q - 1 \in 0..a /\ ~ (a < (q - 1 + 1) * b)
      BY <3>1
    <3>3. q - 1 + 1 = q /\ q * b \in Int
      BY <3>1
    <3> QED
      BY <3>2, <3>3
  <2> QED
    BY <2>1, <2>2
<1>4. q \in Nat /\ a < (q + 1) * b
  BY <1>2
<1> HIDE DEF q
<1> DEFINE r == a - q * b
<1>5. (q + 1) * b = q * b + b /\ q * b \in Int
  BY <1>4
<1>6. r \in 0..(b - 1) /\ a = q * b + r
  BY <1>3, <1>4, <1>5
<1> HIDE DEF r
<1>7. a \div b = q
  BY <1>4, <1>6
<1>8. a % b = r
  BY <1>4, <1>6
<1>9. a \div b \in Nat
  BY <1>4, <1>7
<1>10. a % b \in 0..(b - 1)
  BY <1>6, <1>8, Zenon
<1>11. a = (a \div b) * b + (a % b)
  BY <1>6, <1>7, <1>8, Zenon
<1> QED
  BY <1>9, <1>10, <1>11

\* So many bytes have room for so many bits.
LEMMA BytesEnough ==
  ASSUME NEW n \in Nat, NEW b \in Nat \ {0}, NEW q \in Nat, q * b < n
  PROVE  q + 1 \in 1..((n + b - 1) \div b)
<1> DEFINE m == n + b - 1
           c == m \div b
<1>1. m \in Nat /\ (q + 1) * b <= m
  <2>1. q * b \in Nat /\ (q + 1) * b = q * b + b
    OBVIOUS
  <2> QED
    BY <2>1
<1> HIDE DEF m
<1>2. c \in Nat /\ m % b \in 0..(b - 1) /\ m = c * b + (m % b)
  BY <1>1, Divided
<1> HIDE DEF c
<1>3. m < (c + 1) * b
  BY <1>1, <1>2
<1>4. (q + 1) * b < (c + 1) * b
  <2>1. (q + 1) * b \in Int /\ (c + 1) * b \in Int /\ m \in Int
    BY <1>1, <1>2
  <2> QED
    BY <1>1, <1>3, <2>1
<1>5. q + 1 < c + 1
  BY <1>2, <1>4
<1> QED
  BY <1>2, <1>5 DEF c, m

\* The bits in the bytes are those that were packed.
LEMMA BitsKept ==
  ASSUME NEW bits, Len(bits) \in Nat, NEW i \in 1..Len(bits), bits[i] \in BOOLEAN
  PROVE  Bit(pack_bits(bits), i) = bits[i]
<1> DEFINE n == Len(bits)
           q == (i - 1) \div ByteBits
           r == (i - 1) % ByteBits
           bytes == pack_bits(bits)
<1>1. ByteBits \in Nat \ {0} /\ i - 1 \in Nat
  BY ColumnarConstants
<1>2. q \in Nat /\ r \in 0..(ByteBits - 1) /\ i - 1 = q * ByteBits + r
  BY <1>1, Divided
<1> HIDE DEF q, r
<1>3. q * ByteBits + r < n /\ q * ByteBits + r + 1 = i /\ q * ByteBits \in Nat
  BY <1>1, <1>2
<1>4. q * ByteBits < n
  BY <1>2, <1>3
<1>5. q + 1 \in 1..((n + ByteBits - 1) \div ByteBits)
  BY <1>1, <1>2, <1>4, BytesEnough
<1>6. \A x \in 1..((n + ByteBits - 1) \div ByteBits) :
        \A k \in 0..(ByteBits - 1) :
          k \in bytes[x] <=> (x - 1) * ByteBits + k < n /\ bits[(x - 1) * ByteBits + k + 1]
  BY DEF pack_bits
<1> HIDE DEF bytes
<1>7. q + 1 - 1 = q
  BY <1>2
<1>8. r \in bytes[q + 1] <=> bits[i]
  BY <1>2, <1>3, <1>5, <1>6, <1>7
<1> QED
  BY <1>8 DEF Bit, q, r, bytes

\* A dictionary has every string.
LEMMA DictionaryComplete ==
  ASSUME NEW strings, Len(strings) \in Nat, DOMAIN strings = 1..Len(strings),
         NEW i \in 1..Len(strings)
  PROVE  /\ Len(Dictionary(strings)) \in Nat
         /\ DOMAIN Dictionary(strings) = 1..Len(Dictionary(strings))
         /\ \E k \in 1..Len(Dictionary(strings)) : Dictionary(strings)[k] = strings[i]
<1> DEFINE n == Len(strings)
           firsts == {k \in DOMAIN strings : \A j \in 1..(k - 1) : strings[j] # strings[k]}
           same == {j \in 1..n : strings[j] = strings[i]}
           dict == Dictionary(strings)
<1>1. firsts \subseteq Int /\ IsFiniteSet(firsts)
  <2>1. IsFiniteSet(1..n) /\ firsts \in SUBSET (1..n)
    BY FS_Interval
  <2> QED
    BY <2>1, FS_Subset
<1>2. /\ Len(dict) = Cardinality(firsts) /\ DOMAIN dict = 1..Cardinality(firsts)
      /\ \A k \in 1..Cardinality(firsts) : dict[k] = strings[InOrder(firsts)[k]]
  <2>1. dict = Those(strings, firsts)
    BY DEF Dictionary
  <2> HIDE DEF dict, firsts
  <2> QED
    BY <1>1, <2>1, ThoseTake
<1>3. Cardinality(firsts) \in Nat
  BY <1>1, FS_CardinalityType
<1> HIDE DEF dict, firsts
<1>5. Min(same) \in same /\ \A j \in same : Min(same) <= j
  <2>1. i \in same /\ same = {j \in 1..n : j \in same}
    OBVIOUS
  <2> QED
    BY <2>1, FirstOf
<1>6. Min(same) \in firsts
  <2>1. Min(same) \in 1..n /\ strings[Min(same)] = strings[i]
    BY <1>5
  <2>2. ASSUME NEW j \in 1..(Min(same) - 1) PROVE strings[j] # strings[Min(same)]
    <3>1. j \in 1..n /\ ~ (Min(same) <= j)
      BY <2>1
    <3> QED
      BY <1>5, <2>1, <3>1
  <2> QED
    BY <2>1, <2>2 DEF firsts
<1> DEFINE first == Min(same)
<1> HIDE DEF first
<1>7. PICK k \in 1..Cardinality(firsts) : InOrder(firsts)[k] = first
  <2>1. first \in firsts
    BY <1>6 DEF first
  <2> QED
    BY <1>1, <2>1, InOrderLists
<1>8. dict[k] = strings[i]
  <2>1. dict[k] = strings[first]
    BY <1>2, <1>7
  <2> QED
    BY <1>5, <2>1 DEF first
<1> QED
  BY <1>2, <1>3, <1>8 DEF dict

\* Cells that a column of this kind can hold.
Storable(kind, cells) ==
  /\ kind \in 1..4 /\ IsSequence(cells)
  /\ kind = 3 => \A i \in 1..Len(cells) : cells[i][2] \in BOOLEAN

\* The contents of cells, as the variant a kind of column stands for.
Recast(kind, cells) == [i \in 1..Len(cells) |-> <<VariantOf[kind], cells[i][2]>>]

\* A column with as many cells as there are rows, and strings that can be found.
WholeColumn(column, rows) ==
  /\ column = [name |-> column.name, kind |-> column.kind, len |-> column.len,
               dict |-> column.dict, data |-> column.data]
  /\ column.len = rows /\ RefsResolve(column)
  /\ column.kind = 1 /\ DOMAIN column.data # {} => Len(column.dict) \in Nat
  /\ VariantOf[column.kind] \in Numeric => column.kind \in {2, 4}
  /\ column.kind \in {2, 4}
       => DOMAIN column.data = 1..rows /\ column.data = [i \in 1..rows |-> column.data[i]]

\* What a column holds when it is read again: the contents of its cells, as the
\* variant its kind stands for.
LEMMA ColumnKept ==
  ASSUME NEW name, NEW kind, NEW cells, Storable(kind, cells)
  PROVE  LET column == Column(name, kind, cells)
         IN  /\ column.name = name /\ column.kind = kind /\ column.len = Len(cells)
             /\ RefsResolve(column)
             /\ CellsOf(column) = Recast(kind, cells)
             /\ \A i \in 1..Len(cells) : CellOf(column, i) = Recast(kind, cells)[i]
             /\ WholeColumn(column, Len(cells))
<1> DEFINE column == Column(name, kind, cells)
           n == Len(cells)
           contents == [i \in DOMAIN cells |-> cells[i][2]]
           dict == IF kind = 1 THEN Dictionary(contents) ELSE <<>>
           Places(i) == {k \in 1..Len(dict) : dict[k] = contents[i]}
<1>0. /\ kind \in 1..4 /\ IsSequence(cells)
      /\ kind = 3 => \A i \in 1..Len(cells) : cells[i][2] \in BOOLEAN
  BY DEF Storable
<1>1. n \in Nat /\ DOMAIN cells = 1..n
  BY <1>0 DEF IsSequence
<1>2. /\ contents = [i \in 1..n |-> cells[i][2]] /\ DOMAIN contents = 1..n /\ Len(contents) = n
      /\ \A i \in 1..n : contents[i] = cells[i][2]
  BY <1>1
<1>3. /\ column.name = name /\ column.kind = kind /\ column.len = n /\ column.dict = dict
      /\ kind = 1 => column.data = [i \in DOMAIN cells |->
                                      SelectInSeq(dict, LAMBDA s : s = contents[i]) - 1]
      /\ kind = 3 => column.data = pack_bits(contents)
      /\ kind \in {2, 4} => column.data = contents
      /\ column = [name |-> column.name, kind |-> column.kind, len |-> column.len,
                   dict |-> column.dict, data |-> column.data]
  <2> DEFINE refs == [i \in DOMAIN cells |-> SelectInSeq(dict, LAMBDA s : s = contents[i]) - 1]
             bytes == pack_bits(contents)
  <2>1. column = [name |-> name, kind |-> kind, len |-> n, dict |-> dict,
                  data |-> CASE kind = 1 -> refs [] kind = 3 -> bytes [] OTHER -> contents]
    BY Zenon DEF Column
  <2> HIDE DEF refs, bytes, contents, dict, n
  <2>2. /\ column.name = name /\ column.kind = kind /\ column.len = n /\ column.dict = dict
        /\ kind = 1 => column.data = refs
        /\ kind = 3 => column.data = bytes
        /\ kind \in {2, 4} => column.data = contents
        /\ column = [name |-> column.name, kind |-> column.kind, len |-> column.len,
                     dict |-> column.dict, data |-> column.data]
    BY <2>1
  <2> QED
    BY <2>2, Zenon DEF refs, bytes
<1> HIDE DEF contents, n, dict, column
<1>4. ASSUME kind = 1, NEW i \in 1..n
      PROVE  /\ column.data[i] + 1 \in 1..Len(dict) /\ column.data[i] \in Int
             /\ dict[column.data[i] + 1] = contents[i] /\ Len(dict) \in Nat
  <2>1. Len(dict) \in Nat /\ Places(i) # {}
    <3>1. dict = Dictionary(contents)
      BY <1>4 DEF dict
    <3>2. /\ Len(Dictionary(contents)) \in Nat
          /\ \E k \in 1..Len(Dictionary(contents)) : Dictionary(contents)[k] = contents[i]
      <4>1. /\ Len(contents) \in Nat /\ DOMAIN contents = 1..Len(contents)
            /\ i \in 1..Len(contents)
        BY <1>1, <1>2
      <4> HIDE DEF Places
      <4> QED
        BY <4>1, DictionaryComplete
    <3> QED
      BY <3>1, <3>2
  <2>2. Places(i) = {k \in 1..Len(dict) : k \in Places(i)}
    OBVIOUS
  <2>3. Min(Places(i)) \in Places(i)
    <3> HIDE DEF Places
    <3> QED
      BY <2>1, <2>2, FirstOf
  <2>4. SelectInSeq(dict, LAMBDA s : s = contents[i]) = Min(Places(i))
    BY <2>1 DEF SelectInSeq
  <2>5. column.data[i] = Min(Places(i)) - 1
    BY <1>1, <1>3, <1>4, <2>4
  <2> DEFINE k == Min(Places(i))
  <2>6. k \in 1..Len(dict) /\ dict[k] = contents[i] /\ column.data[i] = k - 1
    BY <2>3, <2>5
  <2> HIDE DEF k
  <2>7. column.data[i] + 1 = k /\ column.data[i] \in Int
    BY <2>1, <2>6
  <2> QED
    BY <2>1, <2>6, <2>7
<1>5. RefsResolve(column)
  <2>1. SUFFICES ASSUME kind = 1, NEW i \in DOMAIN column.data
                 PROVE  column.data[i] < Len(column.dict)
    BY <1>3 DEF RefsResolve
  <2>2. i \in 1..n
    BY <1>1, <1>3, <2>1
  <2> QED
    BY <1>3, <1>4, <2>1, <2>2
<1>6. ASSUME NEW i \in 1..n PROVE CellOf(column, i) = <<VariantOf[kind], contents[i]>>
  <2>1. CASE kind = 1
    BY <1>3, <1>4, <2>1 DEF CellOf
  <2>2. CASE kind = 3
    <3>1. contents[i] \in BOOLEAN
      BY <1>0, <1>2, <2>2 DEF n
    <3>2. Bit(column.data, i) = contents[i]
      BY <1>1, <1>2, <1>3, <2>2, <3>1, BitsKept
    <3> QED
      BY <1>3, <2>2, <3>2 DEF CellOf
  <2>3. CASE kind \in {2, 4}
    BY <1>3, <2>3 DEF CellOf
  <2> QED
    BY <1>0, <2>1, <2>2, <2>3
<1>7. CellsOf(column) = [i \in 1..n |-> CellOf(column, i)]
  BY <1>3 DEF CellsOf
<1>8. VariantOf[kind] \in Numeric => kind \in {2, 4}
  BY <1>0 DEF VariantOf, Numeric
<1>9. WholeColumn(column, n)
  <2>1. contents = [i \in 1..n |-> contents[i]]
    BY <1>2
  <2>2. column.kind \in {2, 4}
          => DOMAIN column.data = 1..n /\ column.data = [i \in 1..n |-> column.data[i]]
    BY <1>2, <1>3, <2>1
  <2>3. column.kind = 1 /\ DOMAIN column.data # {} => Len(column.dict) \in Nat
    <3>1. SUFFICES ASSUME kind = 1, NEW i \in DOMAIN column.data PROVE Len(dict) \in Nat
      BY <1>3
    <3>2. i \in 1..n
      BY <1>1, <1>3, <3>1
    <3> QED
      BY <1>4, <3>1, <3>2
  <2> HIDE DEF n
  <2> QED
    BY <1>3, <1>5, <1>8, <2>2, <2>3 DEF WholeColumn
<1> QED
  BY <1>2, <1>3, <1>5, <1>6, <1>7, <1>9 DEF n, column, Recast

\* A payload with at least one column and one row, and nothing wrong with it.
Whole(payload) ==
  /\ payload.rows \in Nat /\ payload.rows >= 1
  /\ Len(payload.columns) \in Nat /\ DOMAIN payload.columns = 1..Len(payload.columns)
  /\ \A c \in DOMAIN payload.columns : WholeColumn(payload.columns[c], payload.rows)
  /\ ColumnNames(payload) # {} /\ ColumnNames(payload) \subseteq Names
  /\ IsFiniteSet(ColumnNames(payload))

\* A payload as the encoder makes it: a column for each name, in their order.
IsPayload(payload, names, rows, kinds, cells) ==
  /\ payload.rows = rows
  /\ payload.columns =
       [c \in DOMAIN InOrder(names) |->
          Column(InOrder(names)[c], kinds[InOrder(names)[c]], cells[InOrder(names)[c]])]

\* Its columns are found by their names.
LEMMA ColumnsFound ==
  ASSUME NEW names, names \subseteq Names, IsFiniteSet(names),
         NEW rows, NEW kinds, NEW cells, NEW payload,
         IsPayload(payload, names, rows, kinds, cells)
  PROVE  /\ ColumnNames(payload) = names
         /\ \A f \in names : ColumnNamed(payload, f) = Column(f, kinds[f], cells[f])
         /\ \A c \in DOMAIN payload.columns :
              \E f \in names : payload.columns[c] = Column(f, kinds[f], cells[f])
         /\ Len(payload.columns) \in Nat /\ DOMAIN payload.columns = 1..Len(payload.columns)
<1> DEFINE n == Cardinality(names)
           order == InOrder(names)
           columns == payload.columns
<1>1. names \subseteq Int
  BY ColumnarConstants
<1>2. /\ n \in Nat /\ DOMAIN order = 1..n
      /\ \A c \in 1..n : order[c] \in names
      /\ \A f \in names : \E c \in 1..n : order[c] = f
      /\ \A c, e \in 1..n : c < e => order[c] < order[e]
  BY <1>1, InOrderLists
<1> HIDE DEF n, order
<1>3. columns = [c \in 1..n |-> Column(order[c], kinds[order[c]], cells[order[c]])]
  BY <1>2 DEF IsPayload, order
<1> HIDE DEF columns
<1>4. /\ DOMAIN columns = 1..n /\ Len(columns) = n
      /\ \A c \in 1..n : columns[c] = Column(order[c], kinds[order[c]], cells[order[c]])
      /\ \A c \in 1..n : columns[c].name = order[c]
  <2>1. \A name, kind, list : Column(name, kind, list).name = name
    BY Zenon DEF Column
  <2>2. /\ DOMAIN columns = 1..n /\ Len(columns) = n
        /\ \A c \in 1..n : columns[c] = Column(order[c], kinds[order[c]], cells[order[c]])
    BY <1>2, <1>3
  <2> QED
    BY <2>1, <2>2
<1>5. ColumnNames(payload) = names
  BY <1>2, <1>4 DEF ColumnNames, columns
<1>6. ASSUME NEW f \in names PROVE ColumnNamed(payload, f) = Column(f, kinds[f], cells[f])
  <2> DEFINE I == {c \in 1..Len(columns) : columns[c].name = f}
  <2>1. PICK c \in 1..n : order[c] = f
    BY <1>2
  <2>2. I = {c}
    <3>1. \A e \in 1..n : order[e] = f => e = c
      <4>1. SUFFICES ASSUME NEW e \in 1..n, order[e] = f, e # c PROVE FALSE
        OBVIOUS
      <4>2. e < c \/ c < e
        BY <1>2, <4>1
      <4>3. order[e] < order[c] \/ order[c] < order[e]
        BY <1>2, <4>2
      <4>4. order[c] \in Int /\ order[e] = order[c]
        BY <1>1, <1>2, <2>1, <4>1
      <4> QED
        BY <4>3, <4>4
    <3> QED
      BY <1>4, <2>1, <3>1
  <2>3. Min(I) = c
    <3>1. I = {e \in 1..n : e \in I} /\ I # {}
      BY <2>2
    <3>2. Min(I) \in I
      BY <1>2, <3>1, FirstOf
    <3> QED
      BY <2>2, <3>2
  <2>4. SelectInSeq(columns, LAMBDA e : e.name = f) = c
    BY <2>2, <2>3 DEF SelectInSeq
  <2>5. ColumnNamed(payload, f) = columns[c]
    BY <2>4 DEF ColumnNamed, columns
  <2> QED
    BY <1>4, <2>1, <2>5
<1> QED
  BY <1>2, <1>4, <1>5, <1>6 DEF columns

\* A payload as the encoder makes it decodes.
LEMMA PayloadDecodes ==
  ASSUME NEW names, names \subseteq Names, IsFiniteSet(names),
         NEW n \in Nat, NEW kinds, NEW cells, NEW payload,
         IsPayload(payload, names, n, kinds, cells),
         \A f \in names :
           Storable(kinds[f], cells[f]) /\ Len(cells[f]) = n
  PROVE  /\ LengthsAgree(payload) /\ payload.rows = n
         /\ \A c \in DOMAIN payload.columns : RefsResolve(payload.columns[c])
         /\ ColumnNames(payload) = names
         /\ \A f \in names :
              LET column == ColumnNamed(payload, f)
              IN  /\ CellsOf(column) = Recast(kinds[f], cells[f])
                  /\ \A i \in 1..n : CellOf(column, i) = Recast(kinds[f], cells[f])[i]
         /\ names # {} /\ n >= 1 => Whole(payload)
<1>1. /\ ColumnNames(payload) = names
      /\ \A f \in names : ColumnNamed(payload, f) = Column(f, kinds[f], cells[f])
      /\ \A c \in DOMAIN payload.columns :
           \E f \in names : payload.columns[c] = Column(f, kinds[f], cells[f])
      /\ Len(payload.columns) \in Nat /\ DOMAIN payload.columns = 1..Len(payload.columns)
  BY ColumnsFound
<1>2. ASSUME NEW f \in names
      PROVE  LET column == Column(f, kinds[f], cells[f])
             IN  /\ column.len = n /\ RefsResolve(column) /\ WholeColumn(column, n)
                 /\ CellsOf(column) = Recast(kinds[f], cells[f])
                 /\ \A i \in 1..n : CellOf(column, i) = Recast(kinds[f], cells[f])[i]
  BY ColumnKept
<1>3. payload.rows = n
  BY DEF IsPayload
<1>4. LengthsAgree(payload) /\ \A c \in DOMAIN payload.columns : RefsResolve(payload.columns[c])
  <2>1. ASSUME NEW c \in DOMAIN payload.columns
        PROVE  payload.columns[c].len = n /\ RefsResolve(payload.columns[c])
    <3>1. PICK f \in names : payload.columns[c] = Column(f, kinds[f], cells[f])
      BY <1>1
    <3> QED
      BY <1>2, <3>1
  <2> QED
    BY <1>3, <2>1 DEF LengthsAgree
<1>5. ASSUME names # {}, n >= 1 PROVE Whole(payload)
  <2>1. \A c \in DOMAIN payload.columns : WholeColumn(payload.columns[c], n)
    BY <1>1, <1>2
  <2> QED
    BY <1>1, <1>3, <1>5, <2>1 DEF Whole
<1> QED
  BY <1>1, <1>2, <1>3, <1>4, <1>5

\* An event batch is decoded to what it was encoded from.
LEMMA BatchDecodes ==
  ASSUME NEW value, IsValue(value), IsEventBatch(value)
  PROVE  /\ decode_columnar_event_batch(encode_columnar_event_batch(value[2])) = Ok(value)
         /\ Whole(encode_columnar_event_batch(value[2]))
<1> DEFINE rows == value[2]
           n == Len(rows)
           names == DOMAIN rows[1][2]
           kinds == [f \in names |-> FieldKind(rows, f)]
           cells == [f \in names |-> [i \in DOMAIN rows |-> rows[i][2][f]]]
           payload == encode_columnar_event_batch(rows)
<1>1. value = <<"Array", rows>> /\ IsArray(rows)
  <2>1. value[1] = "Array"
    BY DEF IsEventBatch
  <2> QED
    BY <2>1 DEF IsValue, IsObject, IsRow, IsCell
<1>2. n \in Nat /\ DOMAIN rows = 1..n /\ 1 \in 1..n /\ rows = [i \in 1..n |-> rows[i]]
  <2>1. n \in Nat /\ rows = [i \in 1..n |-> rows[i]]
    BY <1>1 DEF IsArray, IsSequence
  <2>2. n >= Threshold /\ Threshold \in Nat \ {0}
    BY ColumnarConstants DEF IsEventBatch
  <2> HIDE DEF rows, n
  <2> QED
    BY <2>1, <2>2
<1>3. \A i \in 1..n : IsRow(rows[i]) /\ DOMAIN rows[i][2] = names
  BY <1>2 DEF IsEventBatch, RowsAlike
<1>4. ASSUME NEW i \in 1..n
      PROVE  /\ rows[i] = <<"Object", [f \in names |-> rows[i][2][f]]>>
             /\ names \subseteq Names /\ IsFiniteSet(names)
             /\ \A f \in names : IsCell(rows[i][2][f])
  <2>1. IsObject(rows[i]) \/ IsCell(rows[i])
    BY <1>1, <1>2 DEF IsArray
  <2>2. IsRow(rows[i]) /\ DOMAIN rows[i][2] = names
    BY <1>3
  <2>3. IsObject(rows[i])
    BY <2>1, <2>2 DEF IsRow, IsCell
  <2> HIDE DEF names
  <2> QED
    BY <2>2, <2>3 DEF IsObject
<1>5. ASSUME NEW f \in names
      PROVE  \E v \in {"String", "I64", "Bool"} :
               FieldKind(rows, f) = KindOf[v] /\ \A i \in 1..n : rows[i][2][f][1] = v
  <2>1. FieldKind(rows, f) # NoKind
    BY DEF IsEventBatch
  <2> DEFINE v == rows[1][2][f][1]
  <2>2. v \in {"String", "I64", "Bool"} /\ \A i \in DOMAIN rows : rows[i][2][f][1] = v
    BY <2>1 DEF FieldKind
  <2>3. FieldKind(rows, f) = KindOf[v]
    BY <2>2 DEF FieldKind
  <2> HIDE DEF v
  <2> QED
    BY <1>2, <2>2, <2>3
<1>6. IsPayload(payload, names, n, kinds, cells)
  <2>1. payload.rows = n
    BY DEF encode_columnar_event_batch
  <2>2. payload.columns = [c \in DOMAIN InOrder(names) |->
                             Column(InOrder(names)[c], FieldKind(rows, InOrder(names)[c]),
                                    [i \in DOMAIN rows |-> rows[i][2][InOrder(names)[c]]])]
    BY Zenon DEF encode_columnar_event_batch, Columns
  <2>3. \A c \in DOMAIN InOrder(names) : InOrder(names)[c] \in names
    <3>1. names \subseteq Int /\ IsFiniteSet(names)
      <4>1. names \subseteq Names /\ IsFiniteSet(names)
        BY <1>2, <1>4
      <4> HIDE DEF names
      <4> QED
        BY <4>1, ColumnarConstants
    <3> QED
      BY <3>1, InOrderLists
  <2> DEFINE order == InOrder(names)
  <2>4. \A c \in DOMAIN order : /\ kinds[order[c]] = FieldKind(rows, order[c])
                                /\ cells[order[c]] = [i \in DOMAIN rows |-> rows[i][2][order[c]]]
    BY <2>3
  <2> HIDE DEF kinds, cells, names, rows, payload
  <2> QED
    BY <2>1, <2>2, <2>4 DEF IsPayload
<1>7. ASSUME NEW f \in names
      PROVE  /\ kinds[f] \in 1..4 /\ IsSequence(cells[f]) /\ Len(cells[f]) = n
             /\ kinds[f] = 3 => \A i \in 1..n : cells[f][i][2] \in BOOLEAN
             /\ \A i \in 1..n : Recast(kinds[f], cells[f])[i] = rows[i][2][f]
  <2>1. PICK v \in {"String", "I64", "Bool"} :
          FieldKind(rows, f) = KindOf[v] /\ \A i \in 1..n : rows[i][2][f][1] = v
    BY <1>5
  <2>2. kinds[f] = KindOf[v] /\ cells[f] = [i \in 1..n |-> rows[i][2][f]]
    BY <1>2, <2>1
  <2>3. KindOf[v] \in 1..4 /\ (KindOf[v] = 3 => v = "Bool") /\ VariantOf[KindOf[v]] = v
    BY DEF KindOf, VariantOf
  <2>4. \A i \in 1..n : IsCell(rows[i][2][f])
    BY <1>4
  <2> HIDE DEF kinds, cells, rows, n
  <2>5. IsSequence(cells[f]) /\ Len(cells[f]) = n /\ \A i \in 1..n : cells[f][i] = rows[i][2][f]
    BY <1>2, <2>2 DEF IsSequence
  <2>6. \A i \in 1..n : /\ rows[i][2][f] = <<v, rows[i][2][f][2]>>
                        /\ v = "Bool" => rows[i][2][f][2] \in BOOLEAN
    BY <2>1, <2>4 DEF IsCell
  <2>7. \A i \in 1..n : cells[f][i][2] = rows[i][2][f][2]
    BY <2>5
  <2>8. kinds[f] = 3 => \A i \in 1..n : cells[f][i][2] \in BOOLEAN
    BY <2>2, <2>3, <2>6, <2>7
  <2>9. ASSUME NEW i \in 1..n PROVE Recast(kinds[f], cells[f])[i] = rows[i][2][f]
    <3>1. VariantOf[kinds[f]] = v
      BY <2>2, <2>3
    <3>2. Recast(kinds[f], cells[f])[i] = <<VariantOf[kinds[f]], cells[f][i][2]>>
      BY <2>5 DEF Recast
    <3> QED
      BY <2>6, <2>7, <3>1, <3>2
  <2> QED
    BY <2>2, <2>3, <2>5, <2>8, <2>9
<1>0. names # {} /\ n >= 1
  <2>1. names # {}
    BY DEF IsEventBatch, RowsAlike
  <2>2. 1 \in 1..n /\ n \in Nat
    BY <1>2
  <2> HIDE DEF names, n
  <2> QED
    BY <2>1, <2>2
<1>8. names \subseteq Names /\ IsFiniteSet(names)
  BY <1>2, <1>4
<1> HIDE DEF kinds, cells, payload, names, n, rows
<1>9. /\ LengthsAgree(payload) /\ payload.rows = n
      /\ \A c \in DOMAIN payload.columns : RefsResolve(payload.columns[c])
      /\ ColumnNames(payload) = names
      /\ \A f \in names : \A i \in 1..n : CellOf(ColumnNamed(payload, f), i) = rows[i][2][f]
      /\ Whole(payload)
  <2>1. \A f \in names :
          Storable(kinds[f], cells[f]) /\ Len(cells[f]) = n
    BY <1>7 DEF Storable
  <2>2. /\ LengthsAgree(payload) /\ payload.rows = n
        /\ \A c \in DOMAIN payload.columns : RefsResolve(payload.columns[c])
        /\ ColumnNames(payload) = names
        /\ \A f \in names : \A i \in 1..n : CellOf(ColumnNamed(payload, f), i)
                                            = Recast(kinds[f], cells[f])[i]
        /\ Whole(payload)
    BY <1>0, <1>2, <1>6, <1>8, <2>1, PayloadDecodes
  <2> QED
    BY <1>7, <2>2
<1>10. decode_columnar_event_batch(payload) =
         Ok(<<"Array", [i \in 1..n |->
               <<"Object", [f \in names |-> CellOf(ColumnNamed(payload, f), i)]>>]>>)
  BY <1>9 DEF decode_columnar_event_batch, Decoded, parse_columnar_payload, IsOk, Ok
<1>11. \A i \in 1..n :
         <<"Object", [f \in names |-> CellOf(ColumnNamed(payload, f), i)]>> = rows[i]
  BY <1>4, <1>9
<1>12. decode_columnar_event_batch(payload) = Ok(<<"Array", [i \in 1..n |-> rows[i]]>>)
  BY <1>10, <1>11
<1> QED
  BY <1>1, <1>2, <1>9, <1>12 DEF payload, rows

\* A column with a kind can be stored, and its cells say the same afterwards.
LEMMA KindKeepsCells ==
  ASSUME NEW column, IsColumn(column), Len(column.cells) >= 1, ColumnKind(column) # NoKind
  PROVE  LET kind == ColumnKind(column)
             kept == Recast(kind, column.cells)
         IN  /\ Storable(kind, column.cells)
             /\ \A i \in 1..Len(column.cells) :
                  /\ IsCell(kept[i]) /\ Meaning(kept[i]) = Meaning(column.cells[i])
                  /\ column.store = "Values" => kept[i] = column.cells[i]
<1> DEFINE cells == column.cells
           n == Len(cells)
           kind == ColumnKind(column)
<1>1. IsSequence(cells) /\ n \in Nat /\ DOMAIN cells = 1..n /\ 1 \in 1..n
  BY DEF IsColumn, IsSequence
<1>2. \A i \in 1..n : IsCell(cells[i])
  BY <1>1 DEF IsColumn
<1> HIDE DEF n, cells
<1>3. \E v \in DOMAIN KindOf \cup DOMAIN KindOfTyped :
        /\ \A i \in 1..n : cells[i][1] = v
        /\ \/ column.store = "Values" /\ v \in DOMAIN KindOf /\ kind = KindOf[v]
           \/ column.store # "Values" /\ v \in DOMAIN KindOfTyped /\ kind = KindOfTyped[v]
  <2>1. CASE column.store = "Values"
    <3>1. PICK v \in DOMAIN KindOf : \A i \in DOMAIN cells : cells[i][1] = v
      BY <2>1 DEF ColumnKind, cells
    <3>2. kind = KindOf[cells[1][1]]
      BY <2>1, <3>1 DEF ColumnKind, cells
    <3> QED
      BY <1>1, <2>1, <3>1, <3>2
  <2>2. CASE column.store # "Values"
    <3>1. column.store \in DOMAIN KindOfTyped /\ \A i \in 1..n : cells[i][1] = column.store
      BY <1>1, <2>2 DEF IsColumn, cells
    <3>2. kind = KindOfTyped[column.store]
      BY <2>2 DEF ColumnKind
    <3> QED
      BY <2>2, <3>1, <3>2
  <2> QED
    BY <2>1, <2>2
<1>4. PICK v \in DOMAIN KindOf \cup DOMAIN KindOfTyped :
        /\ \A i \in 1..n : cells[i][1] = v
        /\ \/ column.store = "Values" /\ v \in DOMAIN KindOf /\ kind = KindOf[v]
           \/ column.store # "Values" /\ v \in DOMAIN KindOfTyped /\ kind = KindOfTyped[v]
  BY <1>3
<1> HIDE DEF kind
<1>5. /\ kind \in 1..4 /\ (kind = 3 => v = "Bool") /\ (VariantOf[kind] = "Bool" => v = "Bool")
      /\ column.store = "Values" => VariantOf[kind] = v
      /\ VariantOf[kind] \in {"String", "I64", "Bool", "F64"}
      /\ \/ VariantOf[kind] = "I64" /\ v \in {"I64", "I32", "U8"}
         \/ VariantOf[kind] = "F64" /\ v \in {"F64", "F32"}
         \/ VariantOf[kind] = v /\ v \in {"Bool", "String"}
  BY <1>4 DEF KindOf, KindOfTyped, VariantOf
<1>6. ASSUME NEW i \in 1..n
      PROVE  /\ cells[i] = <<v, cells[i][2]>>
             /\ v = "Bool" => cells[i][2] \in BOOLEAN
             /\ v \in {"I64", "I32", "U8", "F64", "F32"} => cells[i][2] \in Int
  BY <1>2, <1>4 DEF IsCell, Numeric
<1>7. Storable(kind, cells)
  BY <1>1, <1>5, <1>6 DEF Storable, n
<1>8. ASSUME NEW i \in 1..n
      PROVE  /\ IsCell(Recast(kind, cells)[i])
             /\ Meaning(Recast(kind, cells)[i]) = Meaning(cells[i])
             /\ column.store = "Values" => Recast(kind, cells)[i] = cells[i]
  <2> DEFINE w == VariantOf[kind]
             x == cells[i][2]
  <2>1. Recast(kind, cells)[i] = <<w, x>>
    BY DEF Recast, n
  <2>2. cells[i] = <<v, x>>
    BY <1>6
  <2>3. /\ w \in {"String", "I64", "Bool", "F64"}
        /\ \/ w = "I64" /\ v \in {"I64", "I32", "U8"}
           \/ w = "F64" /\ v \in {"F64", "F32"}
           \/ w = v /\ v \in {"Bool", "String"}
        /\ column.store = "Values" => w = v
        /\ v = "Bool" => x \in BOOLEAN
        /\ v \in {"I64", "I32", "U8", "F64", "F32"} => x \in Int
    BY <1>5, <1>6
  <2> HIDE DEF w, x
  <2>4. IsCell(<<w, x>>)
    BY <2>3 DEF IsCell, Numeric
  <2>5. Meaning(<<w, x>>) = Meaning(<<v, x>>)
    BY <2>3 DEF Meaning
  <2> QED
    BY <2>1, <2>2, <2>3, <2>4, <2>5
<1> QED
  BY <1>7, <1>8 DEF n, cells, kind

\* A table as it comes back from its columns.
Kept(table) ==
  [c \in DOMAIN table |->
     [store |-> "Values", cells |-> Recast(ColumnKind(table[c]), table[c].cells)]]

\* A table laid out by columns is decoded to what its columns hold.
LEMMA TableDecodes ==
  ASSUME NEW value, IsValue(value), IsColumnarTable(value)
  PROVE  /\ value = <<"Table", value[2]>> /\ IsTable(value[2])
         /\ \A c \in DOMAIN value[2] :
              Len(value[2][c].cells) >= 1 /\ ColumnKind(value[2][c]) # NoKind
         /\ decode_columnar_table(encode_columnar_table(value[2]))
              = Ok(<<"Table", Kept(value[2])>>)
         /\ Whole(encode_columnar_table(value[2]))
<1> DEFINE table == value[2]
           n == row_count(table)
           names == DOMAIN table
           kinds == [c \in names |-> ColumnKind(table[c])]
           cells == [c \in names |-> table[c].cells]
           payload == encode_columnar_table(table)
<1>1. value = <<"Table", table>> /\ IsTable(table)
  <2>1. value[1] = "Table"
    BY DEF IsColumnarTable
  <2> QED
    BY <2>1 DEF IsValue, IsObject, IsRow, IsCell
<1> HIDE DEF table
<1>3. ASSUME NEW c \in names
      PROVE  /\ IsColumn(table[c]) /\ ColumnKind(table[c]) # NoKind
             /\ Len(table[c].cells) = n
  BY <1>1 DEF IsColumnarTable, IsTable, table
<1>4. names \subseteq Names /\ IsFiniteSet(names) /\ names \subseteq Int
  <2>1. names \subseteq Names /\ IsFiniteSet(names)
    BY <1>1 DEF IsTable
  <2> HIDE DEF names
  <2> QED
    BY <2>1, ColumnarConstants
<1>5. n \in Nat
  <2>1. CASE names = {}
    BY <2>1 DEF row_count
  <2>2. CASE names # {}
    <3>1. Min(names) \in names
      <4> HIDE DEF names
      <4> QED
        BY <1>4, <2>2, MinOf
    <3>2. n = Len(table[Min(names)].cells)
      BY <2>2 DEF row_count
    <3> HIDE DEF names
    <3> QED
      BY <1>3, <3>1, <3>2 DEF IsColumn, IsSequence
  <2> QED
    BY <2>1, <2>2
<1>2. n >= 1
  <2>1. n >= Threshold
    BY DEF IsColumnarTable, table
  <2> HIDE DEF n
  <2> QED
    BY <1>5, <2>1, ColumnarConstants
<1>0. names # {}
  <2>1. names = {} => n = 0
    BY DEF row_count
  <2> HIDE DEF names, n
  <2> QED
    BY <1>2, <2>1
<1>6. IsPayload(payload, names, n, kinds, cells)
  <2>1. payload.rows = n
    BY DEF encode_columnar_table
  <2>2. payload.columns = [c \in DOMAIN InOrder(names) |->
                             Column(InOrder(names)[c], ColumnKind(table[InOrder(names)[c]]),
                                    table[InOrder(names)[c]].cells)]
    BY Zenon DEF encode_columnar_table, Columns
  <2>3. \A c \in DOMAIN InOrder(names) : InOrder(names)[c] \in names
    <3> HIDE DEF names
    <3> QED
      BY <1>4, InOrderLists
  <2> DEFINE order == InOrder(names)
  <2>4. \A c \in DOMAIN order : /\ kinds[order[c]] = ColumnKind(table[order[c]])
                                /\ cells[order[c]] = table[order[c]].cells
    BY <2>3
  <2> HIDE DEF kinds, cells, names, payload
  <2> QED
    BY <2>1, <2>2, <2>4 DEF IsPayload
<1>7. \A c \in names : /\ kinds[c] = ColumnKind(table[c]) /\ cells[c] = table[c].cells
  OBVIOUS
<1> HIDE DEF kinds, cells, payload, names, n
<1>8. \A c \in names : Storable(kinds[c], cells[c]) /\ Len(cells[c]) = n
  <2>1. SUFFICES ASSUME NEW c \in names
                 PROVE  Storable(kinds[c], cells[c]) /\ Len(cells[c]) = n
    OBVIOUS
  <2>2. IsColumn(table[c]) /\ Len(table[c].cells) >= 1 /\ ColumnKind(table[c]) # NoKind
    BY <1>2, <1>3
  <2>3. Storable(ColumnKind(table[c]), table[c].cells)
    BY <2>2, KindKeepsCells
  <2> QED
    BY <1>3, <1>7, <2>3
<1>9. /\ LengthsAgree(payload) /\ payload.rows = n
      /\ \A c \in DOMAIN payload.columns : RefsResolve(payload.columns[c])
      /\ ColumnNames(payload) = names
      /\ \A c \in names : CellsOf(ColumnNamed(payload, c)) = Recast(kinds[c], cells[c])
      /\ Whole(payload)
  <2>1. names \subseteq Names /\ IsFiniteSet(names)
    BY <1>4
  <2> QED
    BY <1>0, <1>2, <1>5, <1>6, <1>8, <2>1, PayloadDecodes
<1>10. decode_columnar_table(payload) =
         Ok(<<"Table", [c \in names |->
               [store |-> "Values", cells |-> CellsOf(ColumnNamed(payload, c))]]>>)
  BY <1>9 DEF decode_columnar_table, Decoded, parse_columnar_payload, IsOk, Ok
<1>11. decode_columnar_table(payload) =
         Ok(<<"Table", [c \in names |->
               [store |-> "Values", cells |-> Recast(ColumnKind(table[c]), table[c].cells)]]>>)
  <2>1. \A c \in names : CellsOf(ColumnNamed(payload, c))
                           = Recast(ColumnKind(table[c]), table[c].cells)
    BY <1>7, <1>9
  <2> QED
    BY <1>10, <2>1
<1>12. decode_columnar_table(payload) = Ok(<<"Table", Kept(table)>>)
  BY <1>11 DEF Kept, names
<1>13. \A c \in names : Len(table[c].cells) >= 1 /\ ColumnKind(table[c]) # NoKind
  BY <1>2, <1>3
<1> QED
  BY <1>1, <1>9, <1>12, <1>13 DEF table, payload, names

\* It is a value that says the same, and the same table when no column is typed.
LEMMA TableKept ==
  ASSUME NEW table, IsTable(table),
         \A c \in DOMAIN table : Len(table[c].cells) >= 1 /\ ColumnKind(table[c]) # NoKind
  PROVE  /\ IsTable(Kept(table))
         /\ MeaningOf(<<"Table", Kept(table)>>) = MeaningOf(<<"Table", table>>)
         /\ (\A c \in DOMAIN table : table[c].store = "Values") => Kept(table) = table
<1> DEFINE kept == Kept(table)
           names == DOMAIN table
<1>1. /\ DOMAIN kept = names /\ kept = [c \in names |-> kept[c]]
      /\ \A c \in names : kept[c] = [store |-> "Values",
                                     cells |-> Recast(ColumnKind(table[c]), table[c].cells)]
  BY DEF Kept
<1> HIDE DEF kept
<1>2. /\ names \subseteq Names /\ IsFiniteSet(names) /\ table = [c \in names |-> table[c]]
      /\ \A c \in names : IsColumn(table[c])
  BY DEF IsTable
<1>3. ASSUME NEW c \in names
      PROVE  /\ IsColumn(kept[c]) /\ Len(kept[c].cells) = Len(table[c].cells)
             /\ DOMAIN kept[c].cells = 1..Len(table[c].cells)
             /\ DOMAIN table[c].cells = 1..Len(table[c].cells)
             /\ \A i \in 1..Len(table[c].cells) :
                  Meaning(kept[c].cells[i]) = Meaning(table[c].cells[i])
             /\ table[c].store = "Values" => kept[c] = table[c]
  <2> DEFINE cells == table[c].cells
             n == Len(cells)
             recast == Recast(ColumnKind(table[c]), cells)
  <2>1. /\ n \in Nat /\ cells = [i \in 1..n |-> cells[i]] /\ DOMAIN cells = 1..n
        /\ table[c] = [store |-> table[c].store, cells |-> cells]
    BY <1>2 DEF IsColumn, IsSequence
  <2>2. /\ DOMAIN recast = 1..n /\ Len(recast) = n /\ recast = [i \in 1..n |-> recast[i]]
    BY <2>1 DEF Recast
  <2>3. \A i \in 1..n : /\ IsCell(recast[i]) /\ Meaning(recast[i]) = Meaning(cells[i])
                        /\ table[c].store = "Values" => recast[i] = cells[i]
    <3>1. IsColumn(table[c]) /\ Len(table[c].cells) >= 1 /\ ColumnKind(table[c]) # NoKind
      BY <1>2
    <3> QED
      BY <3>1, KindKeepsCells
  <2> HIDE DEF recast
  <2>4. kept[c] = [store |-> "Values", cells |-> recast]
    BY <1>1 DEF recast
  <2>5. kept[c].store = "Values" /\ kept[c].cells = recast
    BY <2>4
  <2> HIDE DEF cells, n
  <2>6. IsColumn(kept[c])
    <3>1. IsSequence(recast)
      BY <2>1, <2>2 DEF IsSequence
    <3> QED
      BY <2>2, <2>3, <2>4, <2>5, <3>1 DEF IsColumn
  <2>7. table[c].store = "Values" => recast = cells
    BY <2>1, <2>2, <2>3
  <2>8. table[c].store = "Values" => kept[c] = table[c]
    BY <2>1, <2>4, <2>7
  <2>9. \A i \in 1..n : Meaning(kept[c].cells[i]) = Meaning(cells[i])
    BY <2>3, <2>5
  <2> QED
    BY <2>1, <2>2, <2>5, <2>6, <2>8, <2>9 DEF cells, n
<1>4. IsTable(kept)
  BY <1>1, <1>2, <1>3 DEF IsTable
<1>5. MeaningOf(<<"Table", kept>>) = MeaningOf(<<"Table", table>>)
  <2> DEFINE Says(t) == [c \in DOMAIN t |-> [i \in DOMAIN t[c].cells |-> Meaning(t[c].cells[i])]]
  <2>1. \A t : MeaningOf(<<"Table", t>>) = <<"Table", Says(t)>>
    BY DEF MeaningOf
  <2>2. Says(kept) = Says(table)
    BY <1>1, <1>3
  <2> QED
    BY <2>1, <2>2
<1>6. (\A c \in names : table[c].store = "Values") => kept = table
  BY <1>1, <1>2, <1>3
<1> QED
  BY <1>4, <1>5, <1>6 DEF kept

(***************************************************************************)
(* Values written plainly.                                                 *)
(***************************************************************************)
SteadyVariants == {"I64", "U64", "F64", "Bool", "String", "Null"}

\* A cell says the same whatever becomes of its width.
LEMMA CellWidened ==
  ASSUME NEW cell, IsCell(cell)
  PROVE  /\ IsCell(Widened(cell)) /\ Meaning(Widened(cell)) = Meaning(cell)
         /\ cell[1] \in SteadyVariants => Widened(cell) = cell
<1> DEFINE v == cell[1]
           x == cell[2]
<1>1. /\ cell = <<v, x>> /\ v \notin {"Array", "Object", "Table"}
      /\ v \in Numeric => x \in Int
      /\ v = "Bool" => x \in BOOLEAN
  BY DEF IsCell
<1>2. PICK w : /\ Widened(cell) = <<w, x>>
               /\ \/ w = v /\ v \notin {"U8", "U16", "U32", "I8", "I16", "I32", "F32"}
                  \/ w = "U64" /\ v \in {"U8", "U16", "U32"}
                  \/ w = "I64" /\ v \in {"I8", "I16", "I32"}
                  \/ w = "F64" /\ v = "F32"
  BY <1>1 DEF Widened
<1> HIDE DEF v, x
<1>3. IsCell(<<w, x>>)
  BY <1>1, <1>2 DEF IsCell, Numeric
<1>4. Meaning(<<w, x>>) = Meaning(<<v, x>>)
  BY <1>2 DEF Meaning
<1>5. v \in SteadyVariants => w = v
  BY <1>2 DEF SteadyVariants
<1> QED
  BY <1>1, <1>2, <1>3, <1>4, <1>5 DEF v

\* An item says the same.
LEMMA ItemWidened ==
  ASSUME NEW item, IsObject(item) \/ IsCell(item)
  PROVE  /\ IsObject(item) => IsObject(WidenedItem(item))
         /\ IsCell(item) => IsCell(WidenedItem(item))
         /\ MeaningOfItem(WidenedItem(item)) = MeaningOfItem(item)
<1>1. CASE IsObject(item)
  <2> DEFINE fields == item[2]
             names == DOMAIN fields
             widened == [f \in names |-> Widened(fields[f])]
  <2>1. /\ item = <<"Object", [f \in names |-> fields[f]]>> /\ IsRow(item)
        /\ names \subseteq Names /\ IsFiniteSet(names)
        /\ \A f \in names : IsCell(fields[f])
    BY <1>1 DEF IsObject
  <2> HIDE DEF fields, names
  <2>2. WidenedItem(item) = <<"Object", widened>>
    BY <2>1 DEF WidenedItem, names, fields
  <2>3. \A f \in names : IsCell(widened[f]) /\ Meaning(widened[f]) = Meaning(fields[f])
    BY <2>1, CellWidened
  <2>4. DOMAIN widened = names /\ widened = [f \in names |-> widened[f]]
    OBVIOUS
  <2> HIDE DEF widened
  <2>5. IsRow(<<"Object", widened>>) /\ <<"Object", widened>>[2] = widened
    BY DEF IsRow
  <2>6. IsObject(<<"Object", widened>>)
    BY <2>1, <2>3, <2>4, <2>5 DEF IsObject
  <2>7. MeaningOfItem(<<"Object", widened>>)
          = <<"Object", [f \in names |-> Meaning(widened[f])]>>
    BY <2>4, <2>5 DEF MeaningOfItem
  <2>8. MeaningOfItem(item) = <<"Object", [f \in names |-> Meaning(fields[f])]>>
    BY <2>1 DEF MeaningOfItem, fields, names
  <2>9. ~IsCell(item)
    BY <2>1 DEF IsCell, IsRow
  <2> QED
    BY <2>2, <2>3, <2>6, <2>7, <2>8, <2>9
<1>2. CASE IsCell(item)
  <2>1. ~IsRow(item) /\ ~IsObject(item)
    BY <1>2 DEF IsCell, IsRow, IsObject
  <2>2. WidenedItem(item) = Widened(item) /\ MeaningOfItem(item) = Meaning(item)
    BY <2>1 DEF WidenedItem, MeaningOfItem
  <2>3. IsCell(Widened(item)) /\ Meaning(Widened(item)) = Meaning(item)
    BY <1>2, CellWidened
  <2>4. ~IsRow(Widened(item))
    BY <2>3 DEF IsCell, IsRow
  <2>5. MeaningOfItem(Widened(item)) = Meaning(Widened(item))
    BY <2>4 DEF MeaningOfItem
  <2> QED
    BY <2>1, <2>2, <2>3, <2>5
<1> QED
  BY <1>1, <1>2

\* The cells of a column say the same.
LEMMA CellsWidened ==
  ASSUME NEW column, IsColumn(column), column.store = "Values"
  PROVE  LET wide == [column EXCEPT !.cells = [i \in DOMAIN @ |-> Widened(@[i])]]
         IN  /\ IsColumn(wide)
             /\ DOMAIN wide.cells = DOMAIN column.cells
             /\ \A i \in DOMAIN column.cells : Meaning(wide.cells[i]) = Meaning(column.cells[i])
             /\ (\A i \in DOMAIN column.cells : column.cells[i][1] \in SteadyVariants)
                  => wide = column
<1> DEFINE cells == column.cells
           n == Len(cells)
           widened == [i \in DOMAIN cells |-> Widened(cells[i])]
           wide == [column EXCEPT !.cells = widened]
<1>1. /\ column = [store |-> "Values", cells |-> cells]
      /\ n \in Nat /\ cells = [i \in 1..n |-> cells[i]] /\ DOMAIN cells = 1..n
      /\ \A i \in 1..n : IsCell(cells[i])
  BY DEF IsColumn, IsSequence
<1>2. /\ DOMAIN widened = 1..n /\ Len(widened) = n /\ widened = [i \in 1..n |-> widened[i]]
      /\ \A i \in 1..n : widened[i] = Widened(cells[i])
  BY <1>1
<1> HIDE DEF cells, n, widened
<1>3. wide = [store |-> "Values", cells |-> widened]
  BY <1>1
<1>4. /\ wide.store = "Values" /\ wide.cells = widened
      /\ wide = [store |-> wide.store, cells |-> wide.cells]
  BY <1>3
<1> HIDE DEF wide
<1>5. \A i \in 1..n : /\ IsCell(widened[i]) /\ Meaning(widened[i]) = Meaning(cells[i])
                      /\ cells[i][1] \in SteadyVariants => widened[i] = cells[i]
  BY <1>1, <1>2, CellWidened
<1>6. IsColumn(wide)
  <2>1. IsSequence(widened)
    BY <1>1, <1>2 DEF IsSequence
  <2> QED
    BY <1>2, <1>4, <1>5, <2>1 DEF IsColumn
<1>7. (\A i \in 1..n : cells[i][1] \in SteadyVariants) => widened = cells
  BY <1>1, <1>2, <1>5
<1>8. (\A i \in 1..n : cells[i][1] \in SteadyVariants) => wide = column
  BY <1>1, <1>3, <1>7
<1> QED
  BY <1>1, <1>2, <1>4, <1>5, <1>6, <1>8 DEF wide, cells, widened

\* A value written plainly is read as one that says the same.
LEMMA PlainKept ==
  ASSUME NEW value, IsValue(value)
  PROVE  /\ IsValue(Plain(value)) /\ MeaningOf(Plain(value)) = MeaningOf(value)
         /\ value[1] = "Table" /\ Steady(value[2]) => Plain(value) = value
<1>1. CASE value = <<"Table", value[2]>> /\ IsTable(value[2])
  <2> DEFINE table == value[2]
             names == DOMAIN table
             Wide(c) == [table[c] EXCEPT !.cells = [i \in DOMAIN @ |-> Widened(@[i])]]
             plain == [c \in names |-> IF table[c].store # "Values" THEN table[c] ELSE Wide(c)]
             Says(t) == [c \in DOMAIN t |->
                           [i \in DOMAIN t[c].cells |-> Meaning(t[c].cells[i])]]
  <2>1. /\ value = <<"Table", table>> /\ value[1] = "Table"
        /\ names \subseteq Names /\ IsFiniteSet(names) /\ table = [c \in names |-> table[c]]
        /\ \A c \in names : IsColumn(table[c])
    BY <1>1 DEF IsTable
  <2>2. Plain(value) = <<"Table", plain>>
    BY <2>1, Zenon DEF Plain
  <2> HIDE DEF table
  <2>3. ASSUME NEW c \in names
        PROVE  /\ IsColumn(plain[c]) /\ DOMAIN plain[c].cells = DOMAIN table[c].cells
               /\ \A i \in DOMAIN table[c].cells :
                    Meaning(plain[c].cells[i]) = Meaning(table[c].cells[i])
               /\ Steady(table) => plain[c] = table[c]
    <3>1. CASE table[c].store # "Values"
      <4>1. plain[c] = table[c]
        BY <3>1
      <4> QED
        BY <2>1, <4>1
    <3>2. CASE table[c].store = "Values"
      <4>1. plain[c] = Wide(c)
        BY <3>2
      <4> HIDE DEF plain
      <4>2. /\ IsColumn(Wide(c)) /\ DOMAIN Wide(c).cells = DOMAIN table[c].cells
            /\ \A i \in DOMAIN table[c].cells :
                 Meaning(Wide(c).cells[i]) = Meaning(table[c].cells[i])
            /\ (\A i \in DOMAIN table[c].cells : table[c].cells[i][1] \in SteadyVariants)
                 => Wide(c) = table[c]
        BY <2>1, <3>2, CellsWidened
      <4> HIDE DEF Wide
      <4>3. Steady(table) => \A i \in DOMAIN table[c].cells :
                               table[c].cells[i][1] \in SteadyVariants
        BY DEF Steady, SteadyVariants
      <4> QED
        BY <4>1, <4>2, <4>3
    <3> QED
      BY <3>1, <3>2
  <2>4. DOMAIN plain = names /\ plain = [c \in names |-> plain[c]]
    OBVIOUS
  <2> HIDE DEF plain
  <2>5. IsTable(plain)
    BY <2>1, <2>3, <2>4 DEF IsTable
  <2>6. IsValue(<<"Table", plain>>)
    BY <2>5 DEF IsValue
  <2>7. \A t : MeaningOf(<<"Table", t>>) = <<"Table", Says(t)>>
    BY DEF MeaningOf
  <2>8. Says(plain) = Says(table)
    BY <2>1, <2>3, <2>4
  <2>9. Steady(table) => plain = table
    BY <2>1, <2>3, <2>4
  <2> HIDE DEF Says
  <2>10. MeaningOf(Plain(value)) = MeaningOf(value)
    BY <2>1, <2>2, <2>7, <2>8
  <2> QED
    BY <2>1, <2>2, <2>6, <2>9, <2>10 DEF table
<1>2. CASE value = <<"Array", value[2]>> /\ IsArray(value[2])
  <2> DEFINE items == value[2]
             n == Len(items)
             plain == [i \in DOMAIN items |-> WidenedItem(items[i])]
             Says(a) == [i \in DOMAIN a |-> MeaningOfItem(a[i])]
  <2>1. /\ value = <<"Array", items>> /\ value[1] = "Array"
        /\ n \in Nat /\ DOMAIN items = 1..n
        /\ \A i \in 1..n : IsObject(items[i]) \/ IsCell(items[i])
    BY <1>2 DEF IsArray, IsSequence
  <2>2. Plain(value) = <<"Array", plain>>
    BY <2>1 DEF Plain
  <2> HIDE DEF items, n
  <2>3. /\ DOMAIN plain = 1..n /\ Len(plain) = n /\ plain = [i \in 1..n |-> plain[i]]
        /\ \A i \in 1..n : plain[i] = WidenedItem(items[i])
    BY <2>1
  <2> HIDE DEF plain
  <2>4. \A i \in 1..n : /\ IsObject(plain[i]) \/ IsCell(plain[i])
                        /\ MeaningOfItem(plain[i]) = MeaningOfItem(items[i])
    BY <2>1, <2>3, ItemWidened
  <2>5. IsSequence(plain)
    BY <2>1, <2>3 DEF IsSequence
  <2>6. IsArray(plain)
    BY <2>3, <2>4, <2>5 DEF IsArray
  <2>7. IsValue(<<"Array", plain>>)
    BY <2>6 DEF IsValue
  <2>8. \A a : MeaningOf(<<"Array", a>>) = <<"Array", Says(a)>>
    BY DEF MeaningOf
  <2>9. Says(plain) = Says(items)
    BY <2>1, <2>3, <2>4
  <2> HIDE DEF Says
  <2> QED
    BY <2>1, <2>2, <2>7, <2>8, <2>9
<1>3. CASE IsObject(value) \/ IsCell(value)
  <2>1. value[1] \notin {"Array", "Table"}
    BY <1>3 DEF IsObject, IsRow, IsCell
  <2>2. Plain(value) = WidenedItem(value) /\ MeaningOf(value) = MeaningOfItem(value)
    BY <2>1 DEF Plain, MeaningOf
  <2>3. /\ IsObject(WidenedItem(value)) \/ IsCell(WidenedItem(value))
        /\ MeaningOfItem(WidenedItem(value)) = MeaningOfItem(value)
    BY <1>3, ItemWidened
  <2>4. WidenedItem(value)[1] \notin {"Array", "Table"}
    BY <2>3 DEF IsObject, IsRow, IsCell
  <2>5. MeaningOf(WidenedItem(value)) = MeaningOfItem(WidenedItem(value))
    BY <2>4 DEF MeaningOf
  <2>6. IsValue(WidenedItem(value))
    BY <2>3 DEF IsValue
  <2> QED
    BY <2>1, <2>2, <2>3, <2>5, <2>6
<1> QED
  BY <1>1, <1>2, <1>3 DEF IsValue
-----------------------------------------------------------------------------
(***************************************************************************)
(* A file as the encoder makes it.                                         *)
(***************************************************************************)
InColumnsOf(value) == IsEventBatch(value) \/ IsColumnarTable(value)

ColumnsOf(value) ==
  IF IsEventBatch(value) THEN encode_columnar_event_batch(value[2])
  ELSE encode_columnar_table(value[2])

CodecOf(value) == IF value[1] = "Table" THEN 2 ELSE 1

\* One more at the end of a list.
LEMMA AddedLast ==
  ASSUME NEW n \in Nat, NEW s, Len(s) = n, s = [i \in 1..n |-> s[i]], NEW d
  PROVE  s \o <<d>> = [i \in 1..(n + 1) |-> IF i <= n THEN s[i] ELSE d]
<1> DEFINE S == {s[i] : i \in 1..n} \cup {d}
           t == <<d>>
           u == s \o t
<1>1. s \in Seq(S) /\ t \in Seq(S) /\ Len(t) = 1 /\ t[1] = d
  OBVIOUS
<1> HIDE DEF S, t
<1>2. /\ u \in Seq(S) /\ Len(u) = n + 1
      /\ \A i \in 1..(n + 1) : u[i] = IF i <= n THEN s[i] ELSE t[i - n]
  <2>1. /\ u \in Seq(S) /\ Len(u) = Len(s) + Len(t)
        /\ \A i \in 1..(Len(s) + Len(t)) : u[i] = IF i <= Len(s) THEN s[i] ELSE t[i - Len(s)]
    BY <1>1, ConcatProperties
  <2> QED
    BY <1>1, <2>1
<1>3. \A i \in 1..(n + 1) : u[i] = IF i <= n THEN s[i] ELSE d
  BY <1>1, <1>2
<1> HIDE DEF u
<1>4. u = [i \in 1..(n + 1) |-> u[i]]
  BY <1>2
<1>5. u = [i \in 1..(n + 1) |-> IF i <= n THEN s[i] ELSE d]
  BY <1>3, <1>4
<1> QED
  BY <1>5 DEF u, t

\* Short lists put together.
LEMMA ShortLists ==
  ASSUME NEW a, NEW b, NEW c, NEW d, NEW e
  PROVE  /\ <<a, b, c>> \o <<d>> = <<a, b, c, d>>
         /\ <<a, b, c, d>> \o <<e>> = <<a, b, c, d, e>>
         /\ <<a, b, c>> \o <<>> = <<a, b, c>>
         /\ <<a, b, c, d>> \o <<>> = <<a, b, c, d>>
         /\ <<a, b, c, d, e>> \o <<>> = <<a, b, c, d, e>>
<1>1. <<a, b, c>> \o <<d>> = <<a, b, c, d>>
  <2> DEFINE s == <<a, b, c>>
  <2>1. Len(s) = 3 /\ s = [i \in 1..3 |-> s[i]] /\ s[1] = a /\ s[2] = b /\ s[3] = c
    OBVIOUS
  <2> HIDE DEF s
  <2> DEFINE u == s \o <<d>>
  <2>2. u = [i \in 1..(3 + 1) |-> IF i <= 3 THEN s[i] ELSE d]
    BY <2>1, AddedLast
  <2> HIDE DEF u
  <2>3. u = [i \in 1..4 |-> u[i]] /\ u[1] = a /\ u[2] = b /\ u[3] = c /\ u[4] = d
    BY <2>1, <2>2
  <2>4. u = <<a, b, c, d>>
    BY <2>3
  <2> QED
    BY <2>4 DEF s, u
<1>2. <<a, b, c, d>> \o <<e>> = <<a, b, c, d, e>>
  <2> DEFINE s == <<a, b, c, d>>
  <2>1. Len(s) = 4 /\ s = [i \in 1..4 |-> s[i]] /\ s[1] = a /\ s[2] = b /\ s[3] = c /\ s[4] = d
    OBVIOUS
  <2> HIDE DEF s
  <2> DEFINE u == s \o <<e>>
  <2>2. u = [i \in 1..(4 + 1) |-> IF i <= 4 THEN s[i] ELSE e]
    BY <2>1, AddedLast
  <2> HIDE DEF u
  <2>3. u = [i \in 1..5 |-> u[i]] /\ u[1] = a /\ u[2] = b /\ u[3] = c /\ u[4] = d /\ u[5] = e
    BY <2>1, <2>2
  <2>4. u = <<a, b, c, d, e>>
    BY <2>3
  <2> QED
    BY <2>4 DEF s, u
<1>3. /\ <<a, b, c>> \o <<>> = <<a, b, c>>
      /\ <<a, b, c, d>> \o <<>> = <<a, b, c, d>>
      /\ <<a, b, c, d, e>> \o <<>> = <<a, b, c, d, e>>
  OBVIOUS
<1> QED
  BY <1>1, <1>2, <1>3

\* The segments: the value or a marker first, the columns last, and what lies
\* between can be read.
LEMMA SegmentsAre ==
  ASSUME NEW value
  PROVE  LET segments == Segments(value)
             n == Len(segments)
         IN  /\ n \in Nat /\ n >= 3 /\ DOMAIN segments = 1..n
             /\ segments[1] = Segment("ValueData", 0,
                  <<"Value", IF InColumnsOf(value) THEN Marker(CodecOf(value)) ELSE Plain(value)>>)
             /\ \A i \in 2..n : \/ /\ InColumnsOf(value) /\ i = n
                                   /\ segments[i] = Segment("ColumnData", CodecOf(value),
                                                            <<"Columns", ColumnsOf(value)>>)
                                \/ /\ segments[i].kind \in {"HotIndex", "PresenceMap"}
                                   /\ segments[i].codec = 0
                                   /\ segments[i].data[1] \in {"Hot", "Presence"}
                                \/ /\ segments[i].kind \in {"ShapeTable", "Dictionary"}
                                   /\ segments[i].codec = 0
                                   /\ segments[i].data[1] \in {"Shapes", "Strings"}
             /\ InColumnsOf(value) => segments[n] = Segment("ColumnData", CodecOf(value),
                                                            <<"Columns", ColumnsOf(value)>>)
<1> DEFINE batch == IsEventBatch(value)
           table == ~batch /\ IsColumnarTable(value)
           codec == CodecOf(value)
           plain == Segment("ValueData", 0,
                            <<"Value", IF batch \/ table THEN Marker(codec) ELSE Plain(value)>>)
           shapes == Segment("ShapeTable", 0, <<"Shapes", Shapes(value)>>)
           strings == Segment("Dictionary", 0, <<"Strings", Strings(value)>>)
           hot == Segment("HotIndex", 0, <<"Hot", InOrder(DOMAIN value[2])>>)
           presence == Segment("PresenceMap", 0, <<"Presence", Presence(value[2])>>)
           rows == Segment("ColumnData", codec,
                           <<"Columns", encode_columnar_event_batch(value[2])>>)
           columns == Segment("ColumnData", codec, <<"Columns", encode_columnar_table(value[2])>>)
           When(condition, segment) == IF condition THEN <<segment>> ELSE <<>>
           base == <<plain, shapes, strings>>
<1>1. Segments(value) = base \o When(value[1] = "Object", hot)
                          \o When(value[1] = "Table", presence)
                          \o When(batch, rows) \o When(table, columns)
  BY Zenon DEF Segments, CodecOf
<1>2. /\ batch => value[1] = "Array"
      /\ table => value[1] = "Table"
  BY DEF IsEventBatch, IsColumnarTable
<1>3. /\ shapes.kind = "ShapeTable" /\ shapes.codec = 0 /\ shapes.data[1] = "Shapes"
      /\ strings.kind = "Dictionary" /\ strings.codec = 0 /\ strings.data[1] = "Strings"
      /\ hot.kind = "HotIndex" /\ hot.codec = 0 /\ hot.data[1] = "Hot"
      /\ presence.kind = "PresenceMap" /\ presence.codec = 0 /\ presence.data[1] = "Presence"
  BY DEF Segment
<1>4. /\ InColumnsOf(value) <=> batch \/ table
      /\ batch => rows = Segment("ColumnData", codec, <<"Columns", ColumnsOf(value)>>)
      /\ table => columns = Segment("ColumnData", codec, <<"Columns", ColumnsOf(value)>>)
  BY DEF InColumnsOf, ColumnsOf
<1>5. plain = Segment("ValueData", 0,
          <<"Value", IF InColumnsOf(value) THEN Marker(CodecOf(value)) ELSE Plain(value)>>)
  BY <1>4
<1> HIDE DEF plain, shapes, strings, hot, presence, rows, columns, batch, table
<1>6. /\ base \o <<>> = base
      /\ base \o <<hot>> = <<plain, shapes, strings, hot>>
      /\ base \o <<presence>> = <<plain, shapes, strings, presence>>
      /\ base \o <<rows>> = <<plain, shapes, strings, rows>>
  BY ShortLists
<1>7. CASE value[1] = "Object"
  <2>1. Segments(value) = <<plain, shapes, strings, hot>>
    <3> DEFINE four == <<plain, shapes, strings, hot>>
    <3>1. Segments(value) = base \o <<hot>> \o <<>> \o <<>> \o <<>>
      BY <1>1, <1>2, <1>7
    <3>2. four \o <<>> = four
      BY ShortLists
    <3>3. base \o <<>> = base /\ base \o <<hot>> = four
      BY <1>6
    <3> HIDE DEF base, four
    <3>4. Segments(value) = four
      BY <3>1, <3>2, <3>3
    <3> QED
      BY <3>4 DEF four
  <2> QED
    BY <1>2, <1>3, <1>4, <1>5, <1>7, <2>1
<1>8. CASE value[1] = "Table" /\ table
  <2>1. Segments(value) = <<plain, shapes, strings, presence, columns>>
    <3> DEFINE four == <<plain, shapes, strings, presence>>
    <3>1. Segments(value) = base \o <<>> \o <<presence>> \o <<>> \o <<columns>>
      BY <1>1, <1>2, <1>8
    <3>2. four \o <<>> = four
      BY ShortLists
    <3>3. base \o <<>> = base /\ base \o <<presence>> = four
      BY <1>6
    <3>4. four \o <<columns>> = <<plain, shapes, strings, presence, columns>>
      BY ShortLists
    <3> DEFINE five == <<plain, shapes, strings, presence, columns>>
    <3>5. four \o <<columns>> = five
      BY <3>4
    <3> HIDE DEF base, four, five
    <3>6. Segments(value) = five
      BY <3>1, <3>2, <3>3, <3>5
    <3> QED
      BY <3>6 DEF five
  <2> QED
    BY <1>2, <1>3, <1>4, <1>5, <1>8, <2>1
<1>9. CASE value[1] = "Table" /\ ~table
  <2>1. Segments(value) = <<plain, shapes, strings, presence>>
    <3> DEFINE four == <<plain, shapes, strings, presence>>
    <3>1. Segments(value) = base \o <<>> \o <<presence>> \o <<>> \o <<>>
      BY <1>1, <1>2, <1>9
    <3>2. four \o <<>> = four
      BY ShortLists
    <3>3. base \o <<>> = base /\ base \o <<presence>> = four
      BY <1>6
    <3> HIDE DEF base, four
    <3>4. Segments(value) = four
      BY <3>1, <3>2, <3>3
    <3> QED
      BY <3>4 DEF four
  <2> QED
    BY <1>2, <1>3, <1>4, <1>5, <1>9, <2>1
<1>10. CASE value[1] \notin {"Object", "Table"} /\ batch
  <2>1. Segments(value) = <<plain, shapes, strings, rows>>
    <3> DEFINE four == <<plain, shapes, strings, rows>>
    <3>1. Segments(value) = base \o <<>> \o <<>> \o <<rows>> \o <<>>
      BY <1>1, <1>2, <1>10
    <3>2. four \o <<>> = four
      BY ShortLists
    <3>3. base \o <<>> = base /\ base \o <<rows>> = four
      BY <1>6
    <3> HIDE DEF base, four
    <3>4. Segments(value) = four
      BY <3>1, <3>2, <3>3
    <3> QED
      BY <3>4 DEF four
  <2> QED
    BY <1>2, <1>3, <1>4, <1>5, <1>10, <2>1
<1>11. CASE value[1] \notin {"Object", "Table"} /\ ~batch
  <2>1. Segments(value) = <<plain, shapes, strings>>
    <3> DEFINE four == <<plain, shapes, strings>>
    <3>1. Segments(value) = base \o <<>> \o <<>> \o <<>> \o <<>>
      BY <1>1, <1>2, <1>11
    <3>2. four \o <<>> = four
      BY ShortLists
    <3>3. base \o <<>> = base /\ base \o <<>> = four
      BY <1>6
    <3> HIDE DEF base, four
    <3>4. Segments(value) = four
      BY <3>1, <3>2, <3>3
    <3> QED
      BY <3>4 DEF four
  <2> QED
    BY <1>2, <1>3, <1>4, <1>5, <1>11, <2>1
<1> QED
  BY <1>7, <1>8, <1>9, <1>10, <1>11

\* Segments as an encoder may write them.
Sound(segments) ==
  /\ Len(segments) \in Nat /\ DOMAIN segments = 1..Len(segments)
  /\ \A i \in DOMAIN segments : segments[i].kind \in Kinds \ {"Extension"}

\* An undamaged container is taken in entry by entry.
LEMMA ContainerParses ==
  ASSUME NEW segments, Sound(segments), NEW hashes, hashes \subseteq Hashes
  PROVE  LET whole == Container(segments, hashes)
         IN  /\ parse_container(whole) = Ok(whole.entries)
             /\ DOMAIN whole.entries = 1..Len(segments) /\ Len(whole.entries) = Len(segments)
             /\ \A i \in 1..Len(segments) :
                  /\ whole.entries[i].kind = segments[i].kind
                  /\ whole.entries[i].codec = segments[i].codec
                  /\ segment_slice(whole, whole.entries[i]) = segments[i].data
<1> DEFINE n == Len(segments)
           whole == Container(segments, hashes)
           entries == [i \in DOMAIN segments |->
                         [kind |-> segments[i].kind, codec |-> segments[i].codec,
                          required |-> FALSE, place |-> i, sum |-> segments[i].data]]
           read == EntriesRead(whole)
           slots == HashSlots(hashes)
<1>1. n \in Nat /\ DOMAIN segments = 1..n
  BY DEF Sound
<1>2. slots \in Nat
  <2>1. IsFiniteSet(Hashes)
    <3>1. IsFiniteSet({"schema"}) /\ IsFiniteSet({"schema"} \cup {"logical"})
      BY FS_Singleton, FS_AddElement
    <3>2. Hashes = {"schema"} \cup {"logical"}
      BY DEF Hashes
    <3> QED
      BY <3>1, <3>2
  <2>2. Cardinality(hashes) \in Nat
    BY <2>1, FS_Subset, FS_CardinalityType
  <2> QED
    BY <2>2 DEF HashSlots
<1>3. /\ whole.magic = TRUE /\ whole.version = Version /\ whole.flags = hashes
      /\ whole.hashes = hashes /\ whole.size = Size(hashes, n) /\ whole.total = Size(hashes, n)
      /\ whole.count = n /\ whole.entries = entries
      /\ whole.segments = [i \in DOMAIN segments |-> segments[i].data]
  BY DEF Container
<1>4. DOMAIN entries = 1..n /\ Len(entries) = n /\ entries = [i \in 1..n |-> entries[i]]
  BY <1>1
<1>5. ASSUME NEW i \in 1..n
      PROVE  /\ entries[i].kind = segments[i].kind /\ entries[i].codec = segments[i].codec
             /\ entries[i].required = FALSE /\ entries[i].place = i
             /\ entries[i].sum = segments[i].data
  BY <1>1
<1>6. Size(hashes, n) = 1 + slots + 2 * n
  BY DEF Size
<1> HIDE DEF whole, entries, slots, n
<1>7. HeaderError(whole) = NoError
  <2>1. /\ whole.size = 1 + slots + 2 * n /\ whole.size # 0
        /\ ~ (1 + slots > whole.size) /\ ~ (1 + slots + n > whole.size)
    BY <1>1, <1>2, <1>3, <1>6
  <2> QED
    BY <1>3, <2>1 DEF HeaderError, slots
<1>8. read = entries
  <2>1. slots - slots = 0
    BY <1>2
  <2>2. read = [i \in 1..n |-> IF i + 0 \in 1..n THEN entries[i + 0] ELSE Stray(whole)]
    BY <1>3, <1>4, <2>1 DEF EntriesRead, slots
  <2>3. \A i \in 1..n : i + 0 = i
    BY <1>1
  <2>4. read = [i \in 1..n |-> entries[i]]
    BY <2>2, <2>3
  <2> QED
    BY <1>4, <2>4
<1> HIDE DEF read
<1>9. ASSUME NEW i \in 1..n
      PROVE  /\ segment_slice(whole, entries[i]) = segments[i].data
             /\ EntryError(whole, entries[i]) = NoError
             /\ entries[i].kind # "Extension"
  <2>1. segments[i].kind \in Kinds \ {"Extension"}
    BY <1>1 DEF Sound
  <2>2. entries[i].place = i /\ i # 0
    <3>1. i # 0
      BY <1>1
    <3> QED
      BY <1>5, <3>1
  <2>3. DOMAIN whole.segments = 1..n /\ Len(whole.segments) = n
        /\ whole.segments[i] = segments[i].data
    BY <1>1, <1>3
  <2>4. segment_slice(whole, entries[i]) = segments[i].data
    BY <2>2, <2>3 DEF segment_slice
  <2>5. ~ (entries[i].place > Len(whole.segments))
    BY <1>1, <2>2, <2>3
  <2> QED
    BY <1>5, <2>1, <2>4, <2>5 DEF EntryError
<1>10. {i \in DOMAIN read : EntryError(whole, read[i]) # NoError} = {}
  <2>1. \A i \in 1..n : EntryError(whole, entries[i]) = NoError
    BY <1>9
  <2>2. DOMAIN read = 1..n /\ \A i \in 1..n : read[i] = entries[i]
    BY <1>4, <1>8
  <2> QED
    BY <2>1, <2>2
<1>11. {i \in DOMAIN read : read[i].kind # "Extension"} = 1..n
  <2>1. \A i \in 1..n : entries[i].kind # "Extension"
    BY <1>9
  <2>2. DOMAIN read = 1..n /\ \A i \in 1..n : read[i] = entries[i]
    BY <1>4, <1>8
  <2> QED
    BY <2>1, <2>2
<1>12. Those(read, {i \in DOMAIN read : read[i].kind # "Extension"}) = entries
  <2>1. Those(entries, 1..n) = entries
    BY <1>1, <1>4, ThoseAll
  <2> QED
    BY <1>8, <1>11, <2>1
<1>13. parse_container(whole) = Ok(entries)
  BY <1>7, <1>10, <1>12 DEF parse_container, read
<1>14. \A i \in 1..n : /\ entries[i].kind = segments[i].kind
                        /\ entries[i].codec = segments[i].codec
                        /\ segment_slice(whole, entries[i]) = segments[i].data
  BY <1>5, <1>9
<1>15. whole.entries = entries
  BY <1>3
<1> QED
  BY <1>4, <1>13, <1>14, <1>15 DEF whole, n

FirstOfKind(entries, kind) == SelectInSeq(entries, LAMBDA e : e.kind = kind)

\* An entry that is the only one of its kind is found, and one that is not there is not.
LEMMA KindFound ==
  ASSUME NEW n \in Nat, NEW entries, Len(entries) = n, NEW kind
  PROVE  LET found == FirstOfKind(entries, kind)
         IN  /\ \A k \in 1..n :
                  entries[k].kind = kind /\ (\A i \in 1..n : entries[i].kind = kind => i = k)
                    => found = k
             /\ (\A i \in 1..n : entries[i].kind # kind) => found = 0
<1> DEFINE I == {i \in 1..Len(entries) : entries[i].kind = kind}
           found == FirstOfKind(entries, kind)
<1>1. found = IF I # {} THEN Min(I) ELSE 0
  BY DEF FirstOfKind, SelectInSeq
<1> HIDE DEF found
<1>2. ASSUME NEW k \in 1..n, entries[k].kind = kind,
             \A i \in 1..n : entries[i].kind = kind => i = k
      PROVE  found = k
  <2>1. I = {k}
    BY <1>2
  <2>2. I = {i \in 1..n : i \in I} /\ I # {}
    BY <2>1
  <2>3. Min(I) \in I
    <3> HIDE DEF I
    <3> QED
      BY <2>2, FirstOf
  <2> QED
    BY <1>1, <2>1, <2>3
<1>3. ASSUME \A i \in 1..n : entries[i].kind # kind PROVE found = 0
  <2>1. I = {}
    BY <1>3
  <2> QED
    BY <1>1, <2>1
<1> QED
  BY <1>2, <1>3 DEF found

\* What a file written from a value decodes to.
Stored(value) ==
  IF IsEventBatch(value) THEN value
  ELSE IF IsColumnarTable(value) THEN <<"Table", Kept(value[2])>> ELSE Plain(value)

\* An undamaged file decodes.
LEMMA FileDecodes ==
  ASSUME NEW value, IsValue(value), NEW hashes, hashes \subseteq Hashes
  PROVE  decode_binary(encode_binary(value, hashes)) = Ok(Stored(value))
<1> DEFINE segments == Segments(value)
           n == Len(segments)
           whole == encode_binary(value, hashes)
           entries == whole.entries
           columns == FirstOfKind(entries, "ColumnData")
           plain == FirstOfKind(entries, "ValueData")
           invalid == {i \in DOMAIN entries : MetadataError(whole, entries[i]) # NoError}
           inside == InColumnsOf(value)
<1>1. /\ n \in Nat /\ n >= 3 /\ DOMAIN segments = 1..n
      /\ segments[1] = Segment("ValueData", 0,
           <<"Value", IF inside THEN Marker(CodecOf(value)) ELSE Plain(value)>>)
      /\ \A i \in 2..n : \/ /\ inside /\ i = n
                            /\ segments[i] = Segment("ColumnData", CodecOf(value),
                                                     <<"Columns", ColumnsOf(value)>>)
                         \/ /\ segments[i].kind \in {"HotIndex", "PresenceMap"}
                         \/ /\ segments[i].kind \in {"ShapeTable", "Dictionary"}
                            /\ segments[i].data[1] \in {"Shapes", "Strings"}
      /\ inside => segments[n] = Segment("ColumnData", CodecOf(value),
                                         <<"Columns", ColumnsOf(value)>>)
  BY SegmentsAre
<1> HIDE DEF segments, n, inside
<1>2. /\ segments[1].kind = "ValueData"
      /\ segments[1].data = <<"Value", IF inside THEN Marker(CodecOf(value)) ELSE Plain(value)>>
      /\ inside => /\ segments[n].kind = "ColumnData" /\ segments[n].codec = CodecOf(value)
                   /\ segments[n].data = <<"Columns", ColumnsOf(value)>>
      /\ \A i \in 2..n :
           /\ segments[i].kind = "ColumnData" => inside /\ i = n
           /\ segments[i].kind \in {"ColumnData", "HotIndex", "PresenceMap", "ShapeTable",
                                    "Dictionary"}
           /\ segments[i].kind \in {"ShapeTable", "Dictionary"}
                => segments[i].data[1] \in {"Shapes", "Strings"}
  BY <1>1 DEF Segment
<1>3. \A i \in 1..n : i = 1 \/ i \in 2..n
  BY <1>1
<1>4. Sound(segments)
  <2>1. \A i \in 1..n : segments[i].kind \in Kinds \ {"Extension"}
    BY <1>2, <1>3 DEF Kinds
  <2> QED
    BY <1>1, <2>1 DEF Sound, n
<1>5. /\ parse_container(whole) = Ok(entries)
      /\ DOMAIN entries = 1..n /\ Len(entries) = n
      /\ \A i \in 1..n : /\ entries[i].kind = segments[i].kind
                         /\ entries[i].codec = segments[i].codec
                         /\ segment_slice(whole, entries[i]) = segments[i].data
  BY <1>4, ContainerParses DEF encode_binary, n, segments
<1> HIDE DEF whole
<1>6. invalid = {}
  <2>1. SUFFICES ASSUME NEW i \in 1..n PROVE MetadataError(whole, entries[i]) = NoError
    BY <1>5
  <2> QED
    BY <1>2, <1>3, <1>5 DEF MetadataError
<1>7. /\ inside => columns = n
      /\ ~inside => columns = 0 /\ plain = 1
  <2> HIDE DEF entries
  <2>1. inside => /\ entries[n].kind = "ColumnData" /\ n \in 1..n
                  /\ \A i \in 1..n : entries[i].kind = "ColumnData" => i = n
    BY <1>1, <1>2, <1>3, <1>5
  <2>2. ~inside => \A i \in 1..n : entries[i].kind # "ColumnData"
    <3>1. ~inside => \A i \in 1..n : segments[i].kind # "ColumnData"
      BY <1>2, <1>3
    <3> QED
      BY <1>5, <3>1
  <2>3. /\ entries[1].kind = "ValueData" /\ 1 \in 1..n
        /\ \A i \in 1..n : entries[i].kind = "ValueData" => i = 1
    BY <1>1, <1>2, <1>3, <1>5
  <2>4. (inside => columns = n) /\ (~inside => columns = 0)
    BY <1>1, <1>5, <2>1, <2>2, KindFound
  <2>5. plain = 1
    BY <1>1, <1>5, <2>3, KindFound
  <2> QED
    BY <2>4, <2>5
<1>8. decode_binary(whole) =
        IF columns # 0
        THEN DecodeColumns(segment_slice(whole, entries[columns]), entries[columns].codec)
        ELSE IF plain # 0 THEN decode_value(segment_slice(whole, entries[plain]))
        ELSE Err("ValidationError")
  <2>1. Got(parse_container(whole)) = entries /\ IsOk(parse_container(whole))
    BY <1>5 DEF Got, IsOk, Ok
  <2> QED
    BY <1>6, <2>1, Zenon DEF decode_binary, FirstOfKind
<1> HIDE DEF columns, plain, invalid, entries
<1>9. CASE inside
  <2>1. decode_binary(whole) = DecodeColumns(<<"Columns", ColumnsOf(value)>>, CodecOf(value))
    BY <1>1, <1>2, <1>5, <1>7, <1>8, <1>9
  <2>2. CASE IsEventBatch(value)
    <3>1. value[1] = "Array" /\ CodecOf(value) = 1
      BY <2>2 DEF IsEventBatch, CodecOf
    <3>2. decode_binary(whole) = decode_columnar_event_batch(ColumnsOf(value))
      BY <2>1, <3>1 DEF DecodeColumns, InColumns
    <3>3. decode_columnar_event_batch(ColumnsOf(value)) = Ok(value)
      BY <2>2, BatchDecodes DEF ColumnsOf
    <3> QED
      BY <2>2, <3>2, <3>3 DEF Stored, whole
  <2>3. CASE ~IsEventBatch(value)
    <3>1. IsColumnarTable(value) /\ value[1] = "Table" /\ CodecOf(value) = 2
      BY <1>9, <2>3 DEF inside, InColumnsOf, IsColumnarTable, CodecOf
    <3>2. decode_binary(whole) = decode_columnar_table(ColumnsOf(value))
      BY <2>1, <3>1 DEF DecodeColumns, InColumns
    <3>3. decode_columnar_table(ColumnsOf(value)) = Ok(<<"Table", Kept(value[2])>>)
      BY <2>3, <3>1, TableDecodes DEF ColumnsOf
    <3> QED
      BY <2>3, <3>1, <3>2, <3>3 DEF Stored, whole
  <2> QED
    BY <2>2, <2>3
<1>10. CASE ~inside
  <2>1. decode_binary(whole) = decode_value(<<"Value", Plain(value)>>)
    BY <1>1, <1>2, <1>5, <1>7, <1>8, <1>10
  <2>2. Stored(value) = Plain(value)
    BY <1>10 DEF Stored, inside, InColumnsOf
  <2> QED
    BY <2>1, <2>2 DEF decode_value, whole
<1> QED
  BY <1>9, <1>10 DEF whole

\* A value read from an undamaged file says the same, and is the same table if
\* it was one of rows that keeps its widths.
LEMMA StoredKept ==
  ASSUME NEW value, IsValue(value)
  PROVE  /\ IsValue(Stored(value)) /\ MeaningOf(Stored(value)) = MeaningOf(value)
         /\ value[1] = "Table" /\ Steady(value[2]) => Stored(value) = value
<1>1. CASE IsEventBatch(value)
  BY <1>1 DEF Stored
<1>2. CASE ~IsEventBatch(value) /\ IsColumnarTable(value)
  <2> DEFINE table == value[2]
  <2>1. /\ value = <<"Table", table>> /\ IsTable(table)
        /\ \A c \in DOMAIN table : Len(table[c].cells) >= 1 /\ ColumnKind(table[c]) # NoKind
    BY <1>2, TableDecodes
  <2>2. Stored(value) = <<"Table", Kept(table)>>
    BY <1>2 DEF Stored
  <2> HIDE DEF table
  <2>3. /\ IsTable(Kept(table))
        /\ MeaningOf(<<"Table", Kept(table)>>) = MeaningOf(<<"Table", table>>)
        /\ (\A c \in DOMAIN table : table[c].store = "Values") => Kept(table) = table
    BY <2>1, TableKept
  <2>4. IsValue(<<"Table", Kept(table)>>)
    BY <2>3 DEF IsValue
  <2>5. Steady(table) => \A c \in DOMAIN table : table[c].store = "Values"
    BY DEF Steady
  <2> QED
    BY <2>1, <2>2, <2>3, <2>4, <2>5 DEF table
<1>3. CASE ~IsEventBatch(value) /\ ~IsColumnarTable(value)
  BY <1>3, PlainKept DEF Stored
<1> QED
  BY <1>1, <1>2, <1>3

-----------------------------------------------------------------------------
(***************************************************************************)
(* Questions.                                                              *)
(***************************************************************************)
\* A column with the cells in these places only.
Taken(column, places) == [column EXCEPT !.cells = Those(@, places)]

\* Some of the cells of a column make a column.
LEMMA ColumnTaken ==
  ASSUME NEW column, IsColumn(column), column.store = "Values",
         NEW places, places \subseteq DOMAIN column.cells
  PROVE  LET taken == Taken(column, places)
         IN  /\ IsColumn(taken) /\ taken.store = "Values"
             /\ taken.cells = Those(column.cells, places)
             /\ Len(taken.cells) = Cardinality(places) /\ Cardinality(places) \in Nat
             /\ DOMAIN taken.cells = 1..Cardinality(places)
             /\ \A i \in 1..Cardinality(places) :
                  /\ InOrder(places)[i] \in places
                  /\ taken.cells[i] = column.cells[InOrder(places)[i]]
<1> DEFINE cells == column.cells
           n == Len(cells)
           some == Those(cells, places)
           taken == Taken(column, places)
           k == Cardinality(places)
<1>1. /\ column = [store |-> "Values", cells |-> cells]
      /\ n \in Nat /\ DOMAIN cells = 1..n
      /\ \A i \in 1..n : IsCell(cells[i])
  BY DEF IsColumn, IsSequence
<1>2. taken = [store |-> "Values", cells |-> some]
  <2>1. taken = [column EXCEPT !.cells = some]
    BY DEF Taken
  <2> HIDE DEF some, cells, taken
  <2> QED
    BY <1>1, <2>1
<1>3. taken.store = "Values" /\ taken.cells = some
  BY <1>2
<1>4. places \subseteq Int /\ IsFiniteSet(places) /\ places \subseteq 1..n
  <2>1. places \subseteq 1..n
    BY <1>1
  <2> HIDE DEF n
  <2>2. IsFiniteSet(1..n)
    BY <1>1, FS_Interval
  <2> QED
    BY <1>1, <2>1, <2>2, FS_Subset
<1>5. /\ DOMAIN some = 1..k /\ some = [i \in 1..k |-> some[i]]
      /\ Len(some) = k /\ k \in Nat
      /\ \A i \in 1..k : some[i] = cells[InOrder(places)[i]] /\ InOrder(places)[i] \in places
  <2> HIDE DEF cells
  <2> QED
    BY <1>4, ThoseTake, InOrderLists
<1> HIDE DEF cells, n, some, taken, k
<1>6. IsSequence(some) /\ \A i \in 1..k : IsCell(some[i])
  BY <1>1, <1>4, <1>5 DEF IsSequence
<1>7. IsColumn(taken)
  BY <1>2, <1>3, <1>5, <1>6 DEF IsColumn
<1> QED
  BY <1>3, <1>5, <1>7 DEF cells, some, taken, k

\* Where a mask keeps a row.
Places(column, mask) == {i \in DOMAIN column.cells \cap DOMAIN mask : mask[i]}

\* A filtered table, and one of some columns, are tables.
LEMMA StillTable ==
  ASSUME NEW table, IsTable(table)
  PROVE  /\ \A mask : IsTable(apply_row_mask(table, mask))
         /\ \A names : IsTable(select_columns(table, names))
<1>1. /\ DOMAIN table \subseteq Names /\ IsFiniteSet(DOMAIN table)
      /\ \A c \in DOMAIN table : IsColumn(table[c])
  BY DEF IsTable
<1>2. ASSUME NEW mask PROVE IsTable(apply_row_mask(table, mask))
  <2> DEFINE masked == apply_row_mask(table, mask)
  <2>1. /\ DOMAIN masked = DOMAIN table /\ masked = [c \in DOMAIN masked |-> masked[c]]
        /\ \A c \in DOMAIN table :
             masked[c] = IF table[c].store # "Values" THEN table[c]
                         ELSE Taken(table[c], Places(table[c], mask))
    BY DEF apply_row_mask, Places, Taken
  <2> HIDE DEF masked
  <2>2. ASSUME NEW c \in DOMAIN table PROVE IsColumn(masked[c])
    <3>1. CASE table[c].store # "Values"
      BY <1>1, <2>1, <3>1
    <3>2. CASE table[c].store = "Values"
      <4>1. Places(table[c], mask) \subseteq DOMAIN table[c].cells
        BY DEF Places
      <4> QED
        BY <1>1, <2>1, <3>2, <4>1, ColumnTaken
    <3> QED
      BY <3>1, <3>2
  <2> QED
    BY <1>1, <2>1, <2>2 DEF IsTable, masked
<1>3. ASSUME NEW names PROVE IsTable(select_columns(table, names))
  <2> DEFINE selected == select_columns(table, names)
  <2>1. /\ DOMAIN selected = DOMAIN table \cap names
        /\ selected = [c \in DOMAIN selected |-> selected[c]]
        /\ \A c \in DOMAIN table \cap names : selected[c] = table[c]
    BY DEF select_columns
  <2> HIDE DEF selected
  <2>2. IsFiniteSet(DOMAIN table \cap names)
    BY <1>1, FS_Intersection
  <2> QED
    BY <1>1, <2>1, <2>2 DEF IsTable, selected
<1> QED
  BY <1>2, <1>3
-----------------------------------------------------------------------------
(***************************************************************************)
(* The file says what was written.                                         *)
(***************************************************************************)
\* What is held can be written unless it was read from a damaged file, and then
\* it cannot be written; an undamaged file is as the encoder made it.
FileInvariant ==
  /\ IsValue(original) /\ IsValue(written)
  /\ fault = NoFault \/ ~Readable => IsValue(held)
  /\ fault = NoFault /\ Exists
       => \E hashes \in SUBSET Hashes : file = encode_binary(written, hashes)

\* The file invariant holds at the start.
LEMMA FileStarts == Init => FileInvariant
<1> SUFFICES ASSUME Init PROVE FileInvariant
  OBVIOUS
<1>1. IsValue(original)
  BY BinaryStoreConstants DEF Init
<1> QED
  BY <1>1 DEF Init, FileInvariant, Exists

\* Every step keeps the file invariant.
LEMMA FileSteps == FileInvariant /\ [Next]_vars => FileInvariant'
<1> SUFFICES ASSUME FileInvariant, [Next]_vars PROVE FileInvariant'
  OBVIOUS
<1> USE DEF FileInvariant
<1>1. ASSUME NEW hashes \in HashChoices, Write(hashes) PROVE FileInvariant'
  <2>1. hashes \in SUBSET Hashes
    BY BinaryStoreConstants
  <2>2. /\ file' = encode_binary(written', hashes) /\ fault' = NoFault
        /\ original' = original /\ held' = held /\ written' = held /\ IsValue(held)
    BY <1>1 DEF Write
  <2> QED
    BY <2>1, <2>2
<1>2. CASE Read
  <2>1. /\ original' = original /\ file' = file /\ written' = written /\ fault' = fault
        /\ held' = Got(decode_binary(file)) /\ Readable
    BY <1>2 DEF Read
  <2>2. Readable' /\ (Exists' <=> Exists)
    BY <2>1 DEF Readable, Exists
  <2>3. CASE fault = NoFault
    <3>1. PICK hashes \in SUBSET Hashes : file = encode_binary(written, hashes)
      BY <2>1, <2>3 DEF Readable
    <3>2. held' = Stored(written)
      BY <2>1, <3>1, FileDecodes DEF Got, Ok
    <3>3. IsValue(held')
      BY <3>2, StoredKept
    <3> QED
      BY <2>1, <2>2, <3>1, <3>3
  <2>4. CASE fault # NoFault
    BY <2>1, <2>2, <2>4
  <2> QED
    BY <2>3, <2>4
<1>3. ASSUME NEW filter \in Filters, Filter(filter) PROVE FileInvariant'
  <2>1. /\ original' = original /\ file' = file /\ written' = written /\ fault' = fault
        /\ fault = NoFault /\ held[1] = "Table" /\ IsValue(held)
        /\ held' = <<"Table", Got(Filtered(held[2], filter))>>
        /\ IsOk(Filtered(held[2], filter))
    BY <1>3 DEF Filter, Asking
  <2>2. IsTable(held[2])
    BY <2>1 DEF IsValue, IsObject, IsRow, IsCell
  <2>3. Got(Filtered(held[2], filter))
          = apply_row_mask(held[2], Got(row_filter(held[2], filter)))
    BY <2>1 DEF Filtered, Got, Ok, IsOk
  <2>4. IsValue(held')
    BY <2>1, <2>2, <2>3, StillTable DEF IsValue
  <2> QED
    BY <2>1, <2>4 DEF Exists
<1>4. ASSUME NEW names \in Selections, Select(names) PROVE FileInvariant'
  <2>1. /\ original' = original /\ file' = file /\ written' = written /\ fault' = fault
        /\ fault = NoFault /\ held[1] = "Table" /\ IsValue(held)
        /\ held' = <<"Table", select_columns(held[2], names)>>
    BY <1>4 DEF Select, Asking
  <2>2. IsTable(held[2])
    BY <2>1 DEF IsValue, IsObject, IsRow, IsCell
  <2>3. IsValue(held')
    BY <2>1, <2>2, StillTable DEF IsValue
  <2> QED
    BY <2>1, <2>3 DEF Exists
<1>5. CASE Damage
  <2>1. /\ original' = original /\ held' = held /\ written' = written /\ fault = NoFault
    BY <1>5 DEF Damage
  <2>2. fault' # NoFault
    BY <1>5 DEF Damage, NoFault
  <2> QED
    BY <2>1, <2>2
<1>6. CASE WriteWrong
  <2>1. /\ original' = original /\ held' = held /\ written' = held /\ fault = NoFault
        /\ fault' = "column"
    BY <1>6 DEF WriteWrong
  <2> QED
    BY <2>1 DEF NoFault
<1>7. CASE UNCHANGED vars
  BY <1>7 DEF vars, Readable, Exists
<1> QED
  BY <1>1, <1>2, <1>3, <1>4, <1>5, <1>6, <1>7 DEF Next

\* The file invariant always holds.
THEOREM FileAlwaysSound == Spec => []FileInvariant
<1> QED
  BY FileStarts, FileSteps, PTL DEF Spec

\* A file that is not damaged always decodes, to a value that says the same as
\* the one it was written from, whether it was laid out by columns or plainly
\* and whatever was written, read and asked before (encode_binary,
\* decode_binary and the columnar codecs).
THEOREM FilesAlwaysReadBack == Spec => []RoundTrip
<1>1. FileInvariant => RoundTrip
  <2> SUFFICES ASSUME FileInvariant, Exists, fault = NoFault
               PROVE  /\ IsOk(decode_binary(file))
                      /\ MeaningOf(Got(decode_binary(file))) = MeaningOf(written)
    BY DEF RoundTrip
  <2>1. PICK hashes \in SUBSET Hashes : file = encode_binary(written, hashes)
    BY DEF FileInvariant
  <2>2. IsValue(written)
    BY DEF FileInvariant
  <2>3. decode_binary(file) = Ok(Stored(written))
    BY <2>1, <2>2, FileDecodes
  <2> QED
    BY <2>2, <2>3, StoredKept DEF Ok, Got, IsOk
<1> QED
  BY <1>1, FileAlwaysSound, PTL
-----------------------------------------------------------------------------
(***************************************************************************)
(* Questions one after the other.                                          *)
(***************************************************************************)
\* after[i] is what the first i questions leave of the rows.
Following(after, rows, questions, n) ==
  after = [i \in 0..n |-> IF i = 0 THEN rows ELSE Answer(after[i - 1], questions[i])]

\* There is such a function.
LEMMA FollowingExists ==
  ASSUME NEW rows, NEW questions, NEW n \in Nat
  PROVE  \E after : Following(after, rows, questions, n)
<1> DEFINE Possible(k) == \E after : Following(after, rows, questions, k)
           T == {k \in 0..n : ~Possible(k)}
<1> SUFFICES ASSUME ~Possible(n) PROVE FALSE
  OBVIOUS
<1> DEFINE m == Min(T)
<1>1. m \in T /\ \A k \in T : m <= k
  <2>1. n \in T /\ T \subseteq 0..n
    OBVIOUS
  <2>2. IsFiniteSet(0..n)
    BY FS_Interval
  <2> HIDE DEF T
  <2>3. IsFiniteSet(T)
    BY <2>1, <2>2, FS_Subset
  <2>4. T \subseteq Int /\ T # {}
    BY <2>1
  <2> QED
    BY <2>3, <2>4, MinOf
<1> HIDE DEF m
<1>2. m \in 0..n /\ ~Possible(m)
  BY <1>1
<1>3. m # 0
  <2>1. SUFFICES ASSUME m = 0 PROVE FALSE
    OBVIOUS
  <2> DEFINE f == [i \in 0..0 |-> rows]
  <2>2. Following(f, rows, questions, 0)
    <3>1. \A i \in 0..0 : i = 0
      OBVIOUS
    <3> QED
      BY <3>1 DEF Following
  <2> QED
    BY <1>2, <2>1, <2>2
<1>4. m - 1 \in 0..n /\ m - 1 \notin T
  BY <1>1, <1>2, <1>3
<1>5. PICK f : Following(f, rows, questions, m - 1)
  BY <1>4
<1> DEFINE g == [i \in 0..m |-> IF i < m THEN f[i] ELSE Answer(f[m - 1], questions[m])]
<1>6. Following(g, rows, questions, m)
  <2>1. DOMAIN g = 0..m /\ g[m] = Answer(f[m - 1], questions[m])
    BY <1>2
  <2>2. \A i \in 0..(m - 1) : g[i] = f[i]
    BY <1>2
  <2>3. \A i \in 0..(m - 1) : f[i] = IF i = 0 THEN rows ELSE Answer(f[i - 1], questions[i])
    BY <1>5 DEF Following
  <2>4. g = [i \in 0..m |-> g[i]]
    OBVIOUS
  <2> HIDE DEF g
  <2>5. ASSUME NEW i \in 0..m
        PROVE  g[i] = IF i = 0 THEN rows ELSE Answer(g[i - 1], questions[i])
    <3>1. CASE i = m
      <4>1. g[m - 1] = f[m - 1]
        BY <1>2, <1>3, <2>2
      <4> QED
        BY <1>3, <2>1, <3>1, <4>1
    <3>2. CASE i # m /\ i = 0
      BY <1>2, <2>2, <2>3, <3>2
    <3>3. CASE i # m /\ i # 0
      <4>1. i \in 0..(m - 1) /\ i - 1 \in 0..(m - 1)
        BY <1>2, <3>3
      <4> QED
        BY <2>2, <2>3, <3>3, <4>1
    <3> QED
      BY <3>1, <3>2, <3>3
  <2> QED
    BY <2>4, <2>5 DEF Following
<1> QED
  BY <1>2, <1>6

\* The same questions leave the same rows.
LEMMA FollowingSame ==
  ASSUME NEW rows, NEW questions, NEW others, NEW n \in Nat, NEW m \in Nat, NEW k \in Nat,
         k <= n, k <= m, \A i \in 1..k : questions[i] = others[i],
         NEW f, Following(f, rows, questions, n), NEW g, Following(g, rows, others, m)
  PROVE  f[k] = g[k]
<1> DEFINE T == {i \in 0..k : f[i] # g[i]}
           l == Min(T)
<1> SUFFICES ASSUME f[k] # g[k] PROVE FALSE
  OBVIOUS
<1>1. l \in T /\ \A i \in T : l <= i
  <2>1. k \in T /\ T \subseteq 0..k
    OBVIOUS
  <2>2. IsFiniteSet(0..k)
    BY FS_Interval
  <2> HIDE DEF T
  <2>3. IsFiniteSet(T)
    BY <2>1, <2>2, FS_Subset
  <2>4. T \subseteq Int /\ T # {}
    BY <2>1
  <2> QED
    BY <2>3, <2>4, MinOf
<1> HIDE DEF l
<1>2. /\ \A i \in 0..n : f[i] = IF i = 0 THEN rows ELSE Answer(f[i - 1], questions[i])
      /\ \A i \in 0..m : g[i] = IF i = 0 THEN rows ELSE Answer(g[i - 1], others[i])
  BY DEF Following
<1>3. l \in 0..n /\ l \in 0..m /\ l \in 0..k /\ f[l] # g[l]
  BY <1>1
<1>4. l # 0
  BY <1>2, <1>3
<1>5. l - 1 \in 0..k /\ l - 1 \notin T /\ l \in 1..k
  BY <1>1, <1>3, <1>4
<1>6. f[l - 1] = g[l - 1] /\ questions[l] = others[l]
  BY <1>5
<1>7. /\ f[l] = Answer(f[l - 1], questions[l])
      /\ g[l] = Answer(g[l - 1], others[l])
  BY <1>2, <1>3, <1>4
<1> QED
  BY <1>3, <1>6, <1>7

\* What the questions leave is what such a function says.
LEMMA AnsweredFollows ==
  ASSUME NEW rows, NEW questions, Len(questions) \in Nat
  PROVE  \E after : /\ Following(after, rows, questions, Len(questions))
                    /\ Answered(rows, questions) = after[Len(questions)]
<1> DEFINE n == Len(questions)
           after == CHOOSE f : Following(f, rows, questions, n)
<1>1. Following(after, rows, questions, n)
  BY FollowingExists
<1>2. Answered(rows, questions) = after[n]
  BY DEF Answered, Following
<1> QED
  BY <1>1, <1>2

\* No question leaves everything, and one more is asked of what the others left.
LEMMA OneMoreAnswered ==
  ASSUME NEW rows, NEW questions, IsSequence(questions), NEW question
  PROVE  /\ Answered(rows, <<>>) = rows
         /\ IsSequence(Append(questions, question))
         /\ Answered(rows, Append(questions, question))
              = Answer(Answered(rows, questions), question)
<1> DEFINE n == Len(questions)
           more == Append(questions, question)
<1>1. Answered(rows, <<>>) = rows
  <2>1. Len(<<>>) \in Nat /\ Len(<<>>) = 0
    OBVIOUS
  <2>2. PICK after : /\ Following(after, rows, <<>>, Len(<<>>))
                     /\ Answered(rows, <<>>) = after[Len(<<>>)]
    BY <2>1, AnsweredFollows
  <2>3. after[0] = rows
    BY <2>1, <2>2 DEF Following
  <2> QED
    BY <2>1, <2>2, <2>3
<1>2. n \in Nat
  BY DEF IsSequence
<1>3. questions = [i \in 1..n |-> questions[i]]
  BY DEF IsSequence
<1>4. /\ Len(more) = n + 1 /\ IsSequence(more)
      /\ more[n + 1] = question /\ \A i \in 1..n : more[i] = questions[i]
  <2> DEFINE S == {questions[i] : i \in 1..n} \cup {question}
  <2>1. questions \in Seq(S) /\ question \in S
    BY <1>2, <1>3
  <2> HIDE DEF S
  <2>2. /\ more \in Seq(S) /\ Len(more) = Len(questions) + 1
        /\ \A i \in 1..Len(questions) : more[i] = questions[i]
        /\ more[Len(questions) + 1] = question
    BY <2>1, AppendProperties
  <2> HIDE DEF more
  <2>3. IsSequence(more)
    BY <2>2 DEF IsSequence
  <2> QED
    BY <2>2, <2>3
<1> HIDE DEF more, n
<1>5. PICK f : Following(f, rows, questions, n) /\ Answered(rows, questions) = f[n]
  BY <1>2, AnsweredFollows DEF n
<1>6. PICK g : Following(g, rows, more, n + 1) /\ Answered(rows, more) = g[n + 1]
  <2>1. Len(more) \in Nat
    BY <1>2, <1>4
  <2> QED
    BY <1>4, <2>1, AnsweredFollows
<1>7. f[n] = g[n]
  <2>1. n + 1 \in Nat /\ n <= n + 1 /\ n <= n
    BY <1>2
  <2>2. \A i \in 1..n : questions[i] = more[i]
    BY <1>4
  <2> QED
    BY <1>2, <1>5, <1>6, <2>1, <2>2, FollowingSame
<1>8. g[n + 1] = Answer(g[n], question)
  <2> DEFINE k == n + 1
  <2>1. k \in 0..k /\ k # 0 /\ k - 1 = n
    BY <1>2
  <2>2. \A i \in 0..k : g[i] = IF i = 0 THEN rows ELSE Answer(g[i - 1], more[i])
    BY <1>6 DEF Following
  <2>3. more[k] = question
    BY <1>4
  <2> HIDE DEF k
  <2>4. g[k] = Answer(g[n], question)
    BY <2>1, <2>2, <2>3
  <2> QED
    BY <2>4 DEF k
<1> QED
  BY <1>1, <1>4, <1>5, <1>6, <1>7, <1>8 DEF more

\* A table whose columns have the same length and keep their widths.
IsRowTable(table) == IsTable(table) /\ Rectangular(table) /\ Steady(table)

\* The rows of such a table.
LEMMA RowsOfTable ==
  ASSUME NEW table, IsRowTable(table)
  PROVE  LET n == row_count(table)
         IN  /\ n \in Nat /\ DOMAIN Rows(table) = 1..n
             /\ \A c \in DOMAIN table :
                  /\ IsColumn(table[c]) /\ table[c].store = "Values"
                  /\ DOMAIN table[c].cells = 1..n /\ Len(table[c].cells) = n
                  /\ \A i \in 1..n : table[c].cells[i][1] \in SteadyVariants
             /\ \A i \in 1..n :
                  Rows(table)[i] = <<"Object", [c \in DOMAIN table |-> table[c].cells[i]]>>
<1> DEFINE n == row_count(table)
           names == DOMAIN table
<1>1. ASSUME NEW c \in names
      PROVE  /\ IsColumn(table[c]) /\ table[c].store = "Values"
             /\ Len(table[c].cells) = n /\ n \in Nat /\ DOMAIN table[c].cells = 1..n
             /\ \A i \in 1..n : table[c].cells[i][1] \in SteadyVariants
  <2>1. IsColumn(table[c]) /\ Len(table[c].cells) = n /\ table[c].store = "Values"
    BY DEF IsRowTable, IsTable, Rectangular, Steady
  <2>2. n \in Nat /\ DOMAIN table[c].cells = 1..n
    BY <2>1 DEF IsColumn, IsSequence
  <2>3. \A i \in DOMAIN table[c].cells : table[c].cells[i][1] \in SteadyVariants
    BY DEF IsRowTable, Steady, SteadyVariants
  <2> QED
    BY <2>1, <2>2, <2>3
<1>2. n \in Nat
  <2>1. CASE names = {}
    BY <2>1 DEF row_count
  <2>2. CASE names # {}
    BY <1>1, <2>2
  <2> QED
    BY <2>1, <2>2
<1>3. Rows(table) = [i \in 1..n |-> <<"Object", [c \in names |-> table[c].cells[i]]>>]
  BY DEF Rows
<1> HIDE DEF n, names
<1>4. /\ DOMAIN Rows(table) = 1..n
      /\ \A i \in 1..n : Rows(table)[i] = <<"Object", [c \in names |-> table[c].cells[i]]>>
  BY <1>3
<1> QED
  BY <1>1, <1>2, <1>4 DEF n, names

\* How many rows a table has whose columns all have the same length.
LEMMA RowCount ==
  ASSUME NEW table, DOMAIN table \subseteq Names, IsFiniteSet(DOMAIN table),
         DOMAIN table # {}, NEW n, \A c \in DOMAIN table : Len(table[c].cells) = n
  PROVE  row_count(table) = n
<1> DEFINE names == DOMAIN table
<1>1. names \subseteq Names /\ IsFiniteSet(names) /\ names # {}
  OBVIOUS
<1>2. Min(names) \in names
  <2> HIDE DEF names
  <2>1. names \subseteq Int
    BY <1>1, ColumnarConstants
  <2> QED
    BY <1>1, <2>1, MinOf
<1> QED
  BY <1>2 DEF row_count

\* A filter leaves the rows that satisfy it.
LEMMA FilterAnswers ==
  ASSUME NEW table, IsRowTable(table), NEW filter, filter.op # "select",
         IsOk(Filtered(table, filter))
  PROVE  /\ IsRowTable(Got(Filtered(table, filter)))
         /\ Rows(Got(Filtered(table, filter))) = Answer(Rows(table), filter)
<1> DEFINE n == row_count(table)
           names == DOMAIN table
           wanted == table[filter.column].cells
           mask == [i \in 1..n |-> Satisfies(filter, wanted[i])]
           P == {i \in 1..n : Satisfies(filter, wanted[i])}
           k == Cardinality(P)
           order == InOrder(P)
           masked == apply_row_mask(table, mask)
<1>1. /\ n \in Nat /\ DOMAIN Rows(table) = 1..n
      /\ \A c \in names :
           /\ IsColumn(table[c]) /\ table[c].store = "Values"
           /\ DOMAIN table[c].cells = 1..n /\ Len(table[c].cells) = n
           /\ \A i \in 1..n : table[c].cells[i][1] \in SteadyVariants
      /\ \A i \in 1..n : Rows(table)[i] = <<"Object", [c \in names |-> table[c].cells[i]]>>
  BY RowsOfTable
<1>2. /\ names \subseteq Names /\ IsFiniteSet(names)
      /\ IsTable(table)
  BY DEF IsRowTable, IsTable
<1>3. filter.column \in names /\ row_filter(table, filter) = Ok(mask)
  BY DEF Filtered, row_filter, IsOk, Err, Ok
<1>4. Got(Filtered(table, filter)) = masked
  BY <1>3 DEF Filtered, IsOk, Ok, Got
<1>5. P \subseteq Int /\ IsFiniteSet(P) /\ P \subseteq 1..n
  <2>0. n \in Nat
    BY <1>1
  <2>1. P \subseteq 1..n
    OBVIOUS
  <2> HIDE DEF P, n, names, wanted, mask, order, masked
  <2>2. IsFiniteSet(1..n)
    BY <2>0, FS_Interval
  <2>3. IsFiniteSet(P)
    BY <2>1, <2>2, FS_Subset
  <2>4. P \subseteq Int
    BY <2>0, <2>1
  <2> QED
    BY <2>1, <2>3, <2>4
<1>6. ASSUME NEW c \in names
      PROVE  Places(table[c], mask) = P
  BY <1>1 DEF Places
<1> HIDE DEF n, mask, k, order, P
<1>7. /\ DOMAIN masked = names /\ IsTable(masked)
      /\ \A c \in names : masked[c] = Taken(table[c], P)
  <2>1. \A c \in names : masked[c] = Taken(table[c], Places(table[c], mask))
    BY <1>1 DEF apply_row_mask, Places, Taken
  <2>2. DOMAIN masked = names
    BY DEF apply_row_mask
  <2> HIDE DEF masked
  <2> QED
    BY <1>2, <1>6, <2>1, <2>2, StillTable DEF masked
<1> HIDE DEF masked
<1>8. ASSUME NEW c \in names
      PROVE  /\ masked[c].store = "Values" /\ Len(masked[c].cells) = k /\ k \in Nat
             /\ DOMAIN masked[c].cells = 1..k
             /\ \A i \in 1..k : /\ order[i] \in 1..n
                                /\ masked[c].cells[i] = table[c].cells[order[i]]
  <2>1. IsColumn(table[c]) /\ table[c].store = "Values" /\ P \subseteq DOMAIN table[c].cells
    BY <1>1, <1>5
  <2>2. LET taken == Taken(table[c], P)
        IN  /\ taken.store = "Values"
            /\ Len(taken.cells) = Cardinality(P) /\ Cardinality(P) \in Nat
            /\ DOMAIN taken.cells = 1..Cardinality(P)
            /\ \A i \in 1..Cardinality(P) :
                 /\ InOrder(P)[i] \in P
                 /\ taken.cells[i] = table[c].cells[InOrder(P)[i]]
    BY <2>1, ColumnTaken
  <2> QED
    BY <1>5, <1>7, <2>2 DEF k, order
<1>9. row_count(masked) = k
  BY <1>2, <1>3, <1>7, <1>8, RowCount
<1>10. Rectangular(masked)
  BY <1>7, <1>8, <1>9 DEF Rectangular
<1>11. Steady(masked)
  <2>1. SUFFICES ASSUME NEW c \in names, NEW i \in 1..k
                 PROVE  masked[c].cells[i][1] \in SteadyVariants
    BY <1>7, <1>8 DEF Steady, SteadyVariants
  <2>2. masked[c].cells[i] = table[c].cells[order[i]] /\ order[i] \in 1..n
    BY <1>8
  <2> QED
    BY <1>1, <2>2
<1>12. Rows(masked) = [i \in 1..k |-> Rows(table)[order[i]]]
  <2>1. Rows(masked) = [i \in 1..k |-> <<"Object", [c \in names |-> masked[c].cells[i]]>>]
    BY <1>7, <1>9 DEF Rows
  <2>2. ASSUME NEW i \in 1..k
        PROVE  <<"Object", [c \in names |-> masked[c].cells[i]]>> = Rows(table)[order[i]]
    <3>1. order[i] \in 1..n /\ \A c \in names : masked[c].cells[i] = table[c].cells[order[i]]
      BY <1>3, <1>8
    <3>2. Rows(table)[order[i]] = <<"Object", [c \in names |-> table[c].cells[order[i]]]>>
      BY <1>1, <3>1
    <3>3. [c \in names |-> masked[c].cells[i]] = [c \in names |-> table[c].cells[order[i]]]
      BY <3>1
    <3> QED
      BY <3>2, <3>3
  <2> QED
    BY <2>1, <2>2
<1>13. Answer(Rows(table), filter) = [i \in 1..k |-> Rows(table)[order[i]]]
  <2> DEFINE Q == {i \in DOMAIN Rows(table) :
                     Satisfies(filter, Rows(table)[i][2][filter.column])}
  <2>1. Answer(Rows(table), filter) = Those(Rows(table), Q)
    BY DEF Answer
  <2>2. Q = P
    <3>1. ASSUME NEW i \in 1..n PROVE Rows(table)[i][2][filter.column] = wanted[i]
      BY <1>1, <1>3
    <3> QED
      BY <1>1, <3>1 DEF P
  <2> HIDE DEF Q
  <2>3. /\ DOMAIN Those(Rows(table), P) = 1..k
        /\ Those(Rows(table), P) = [i \in 1..k |-> Those(Rows(table), P)[i]]
        /\ \A i \in 1..k : Those(Rows(table), P)[i] = Rows(table)[order[i]]
    BY <1>5, ThoseTake DEF k, order
  <2>4. Those(Rows(table), P) = [i \in 1..k |-> Rows(table)[order[i]]]
    BY <2>3
  <2> QED
    BY <2>1, <2>2, <2>4
<1>14. IsRowTable(masked) /\ Rows(masked) = Answer(Rows(table), filter)
  BY <1>7, <1>10, <1>11, <1>12, <1>13 DEF IsRowTable
<1> QED
  BY <1>4, <1>14

\* A choice of columns leaves those columns of the rows.
LEMMA SelectAnswers ==
  ASSUME NEW table, IsRowTable(table), NEW chosen, NEW question,
         question = [op |-> "select", columns |-> chosen]
  PROVE  /\ IsRowTable(select_columns(table, chosen))
         /\ Rows(select_columns(table, chosen)) = Answer(Rows(table), question)
<1> DEFINE n == row_count(table)
           names == DOMAIN table
           some == names \cap chosen
           selected == select_columns(table, chosen)
<1>1. /\ n \in Nat /\ DOMAIN Rows(table) = 1..n
      /\ \A c \in names :
           /\ IsColumn(table[c]) /\ table[c].store = "Values"
           /\ DOMAIN table[c].cells = 1..n /\ Len(table[c].cells) = n
           /\ \A i \in 1..n : table[c].cells[i][1] \in SteadyVariants
      /\ \A i \in 1..n : Rows(table)[i] = <<"Object", [c \in names |-> table[c].cells[i]]>>
  BY RowsOfTable
<1>2. names \subseteq Names /\ IsFiniteSet(names) /\ IsTable(table)
  BY DEF IsRowTable, IsTable
<1>3. DOMAIN selected = some /\ \A c \in some : selected[c] = table[c]
  BY DEF select_columns
<1>4. IsTable(selected)
  BY <1>2, StillTable
<1>5. some \subseteq names /\ IsFiniteSet(some)
  BY <1>2, FS_Intersection
<1> HIDE DEF selected, n
<1>6. row_count(selected) = IF some = {} THEN 0 ELSE n
  <2>1. CASE some = {}
    BY <1>3, <2>1 DEF row_count
  <2>2. CASE some # {}
    <3>1. DOMAIN selected \subseteq Names /\ IsFiniteSet(DOMAIN selected)
      BY <1>2, <1>3, <1>5
    <3>2. \A c \in DOMAIN selected : Len(selected[c].cells) = n
      BY <1>1, <1>3, <1>5
    <3>3. row_count(selected) = n
      BY <1>3, <2>2, <3>1, <3>2, RowCount
    <3> QED
      BY <2>2, <3>3
  <2> QED
    BY <2>1, <2>2
<1>7. Rectangular(selected)
  BY <1>1, <1>3, <1>5, <1>6 DEF Rectangular
<1>8. Steady(selected)
  BY <1>1, <1>3, <1>5 DEF Steady, SteadyVariants
<1>9. ASSUME NEW i \in 1..n
      PROVE  DOMAIN Rows(table)[i][2] = names /\ \A c \in names : Rows(table)[i][2][c]
                                                                  = table[c].cells[i]
  BY <1>1
<1>10. Answer(Rows(table), question)
         = [i \in {j \in DOMAIN Rows(table) : DOMAIN Rows(table)[j][2] \cap chosen # {}} |->
              <<"Object", [c \in DOMAIN Rows(table)[i][2] \cap chosen |-> Rows(table)[i][2][c]]>>]
  BY DEF Answer
<1>11. CASE some = {}
  <2>1. {j \in DOMAIN Rows(table) : DOMAIN Rows(table)[j][2] \cap chosen # {}} = {}
    BY <1>1, <1>9, <1>11
  <2>2. Answer(Rows(table), question) = <<>>
    <3> DEFINE some_rows == {j \in DOMAIN Rows(table) : DOMAIN Rows(table)[j][2] \cap chosen # {}}
               Row(i) == <<"Object", [c \in DOMAIN Rows(table)[i][2] \cap chosen |->
                                        Rows(table)[i][2][c]]>>
    <3>1. Answer(Rows(table), question) = [i \in some_rows |-> Row(i)] /\ some_rows = {}
      BY <1>10, <2>1
    <3> HIDE DEF some_rows, Row
    <3> QED
      BY <3>1
  <2>3. row_count(selected) = 0
    BY <1>6, <1>11
  <2>4. Rows(selected) = <<>>
    BY <2>3 DEF Rows
  <2> QED
    BY <1>4, <1>7, <1>8, <2>2, <2>4 DEF IsRowTable, selected
<1>12. CASE some # {}
  <2>1. {j \in DOMAIN Rows(table) : DOMAIN Rows(table)[j][2] \cap chosen # {}} = 1..n
    BY <1>1, <1>9, <1>12
  <2>2. Rows(selected) = [i \in 1..n |-> <<"Object", [c \in some |-> selected[c].cells[i]]>>]
    <3>1. row_count(selected) = n
      BY <1>6, <1>12
    <3> QED
      BY <1>3, <3>1 DEF Rows
  <2>3. ASSUME NEW i \in 1..n
        PROVE  [c \in some |-> selected[c].cells[i]]
                 = [c \in DOMAIN Rows(table)[i][2] \cap chosen |-> Rows(table)[i][2][c]]
    BY <1>3, <1>5, <1>9
  <2>4. Rows(selected) = Answer(Rows(table), question)
    BY <1>10, <2>1, <2>2, <2>3
  <2> QED
    BY <1>4, <1>7, <1>8, <2>4 DEF IsRowTable, selected
<1> QED
  BY <1>11, <1>12
-----------------------------------------------------------------------------
(***************************************************************************)
(* The table held is the original one as its rows answer the questions.    *)
(***************************************************************************)
\* The program started with a table of rows that keeps its widths.
OfRows == original[1] = "Table" /\ Rectangular(original[2]) /\ Steady(original[2])

\* A value is what these questions leave of the original.
Leaves(value, questions) ==
  /\ value = <<"Table", value[2]>> /\ value[1] = "Table" /\ IsRowTable(value[2])
  /\ Rows(value[2]) = Answered(Rows(original[2]), questions)

\* What is held is what the questions asked leave, and what was written is what
\* those asked before left.
QuestionsInvariant ==
  /\ IsSequence(asked) /\ IsSequence(saved)
  /\ OfRows => /\ Leaves(written, saved)
               /\ fault = NoFault \/ ~Readable => Leaves(held, asked)

\* The questions invariant holds at the start.
LEMMA QuestionsStart == Init => QuestionsInvariant
<1> SUFFICES ASSUME Init PROVE QuestionsInvariant
  OBVIOUS
<1>1. /\ IsValue(original) /\ held = original /\ written = original
      /\ asked = <<>> /\ saved = <<>>
  BY BinaryStoreConstants DEF Init
<1>2. IsSequence(<<>>)
  BY DEF IsSequence
<1>3. ASSUME OfRows PROVE Leaves(original, <<>>)
  <2>1. original = <<"Table", original[2]>> /\ IsTable(original[2])
    BY <1>1, <1>3 DEF OfRows, IsValue, IsObject, IsRow, IsCell
  <2>2. Answered(Rows(original[2]), <<>>) = Rows(original[2])
    BY <1>2, OneMoreAnswered
  <2> QED
    BY <1>3, <2>1, <2>2 DEF OfRows, Leaves, IsRowTable
<1> QED
  BY <1>1, <1>2, <1>3 DEF QuestionsInvariant

\* Every step keeps the questions invariant.
LEMMA QuestionsStep ==
  FileInvariant /\ QuestionsInvariant /\ [Next]_vars => QuestionsInvariant'
<1> SUFFICES ASSUME FileInvariant, QuestionsInvariant, [Next]_vars PROVE QuestionsInvariant'
  OBVIOUS
<1>1. ASSUME NEW hashes \in HashChoices, Write(hashes) PROVE QuestionsInvariant'
  <2>1. /\ fault = NoFault \/ ~Readable
        /\ original' = original /\ held' = held /\ asked' = asked
        /\ written' = held /\ saved' = asked
    BY <1>1 DEF Write
  <2>2. OfRows' => Leaves(held, asked)
    BY <2>1 DEF QuestionsInvariant, OfRows
  <2> QED
    BY <2>1, <2>2 DEF QuestionsInvariant, OfRows, Leaves
<1>2. CASE Read
  <2>1. /\ original' = original /\ file' = file /\ written' = written /\ fault' = fault
        /\ saved' = saved /\ asked' = saved
        /\ held' = Got(decode_binary(file)) /\ Readable
    BY <1>2 DEF Read
  <2>2. Readable'
    BY <2>1 DEF Readable, Exists
  <2>3. ASSUME OfRows, fault = NoFault PROVE held' = written
    <3>1. PICK hashes \in SUBSET Hashes : file = encode_binary(written, hashes)
      BY <2>1, <2>3 DEF Readable, FileInvariant
    <3>2. IsValue(written) /\ written[1] = "Table" /\ Steady(written[2])
      BY <2>3 DEF FileInvariant, QuestionsInvariant, Leaves, IsRowTable
    <3>3. held' = Stored(written)
      BY <2>1, <3>1, <3>2, FileDecodes DEF Got, Ok
    <3> QED
      BY <3>2, <3>3, StoredKept
  <2>4. OfRows' => OfRows
    BY <2>1 DEF OfRows
  <2>5. ASSUME OfRows' PROVE /\ Leaves(written, saved)'
                             /\ (fault = NoFault \/ ~Readable)' => Leaves(held, asked)'
    <3>1. Leaves(written, saved)
      BY <2>4, <2>5 DEF QuestionsInvariant
    <3>2. Leaves(written, saved)'
      BY <2>1, <3>1 DEF Leaves
    <3>3. ASSUME fault' = NoFault PROVE Leaves(held, asked)'
      <4>1. held' = written /\ asked' = saved
        BY <2>1, <2>3, <2>4, <2>5, <3>3
      <4> QED
        BY <2>1, <3>1, <4>1 DEF Leaves
    <3> QED
      BY <2>2, <3>2, <3>3
  <2>6. IsSequence(asked)' /\ IsSequence(saved)'
    BY <2>1 DEF QuestionsInvariant
  <2> QED
    BY <2>5, <2>6 DEF QuestionsInvariant
<1>3. ASSUME NEW filter \in Filters, Filter(filter) PROVE QuestionsInvariant'
  <2>1. /\ original' = original /\ written' = written /\ saved' = saved /\ fault = NoFault
        /\ IsOk(Filtered(held[2], filter)) /\ asked' = Append(asked, filter)
        /\ held' = <<"Table", Got(Filtered(held[2], filter))>>
    BY <1>3 DEF Filter, Asking
  <2>2. filter.op # "select"
    BY BinaryStoreConstants DEF NumericOp
  <2>3. IsSequence(asked) /\ IsSequence(saved)
    BY DEF QuestionsInvariant
  <2>4. IsSequence(Append(asked, filter))
    BY <2>3, OneMoreAnswered
  <2>5. ASSUME OfRows PROVE Leaves(written, saved) /\ Leaves(held', Append(asked, filter))
    <3>1. Leaves(written, saved) /\ Leaves(held, asked)
      BY <2>1, <2>5 DEF QuestionsInvariant
    <3> DEFINE table == Got(Filtered(held[2], filter))
    <3>2. IsRowTable(table) /\ Rows(table) = Answer(Rows(held[2]), filter)
      BY <2>1, <2>2, <3>1, FilterAnswers DEF Leaves
    <3> HIDE DEF table
    <3>3. held' = <<"Table", table>> /\ held'[1] = "Table" /\ held'[2] = table
      BY <2>1 DEF table
    <3>4. Rows(held[2]) = Answered(Rows(original[2]), asked)
      BY <3>1 DEF Leaves
    <3>5. Rows(table) = Answered(Rows(original[2]), Append(asked, filter))
      BY <2>3, <3>2, <3>4, OneMoreAnswered
    <3> QED
      BY <3>1, <3>2, <3>3, <3>5 DEF Leaves
  <2> QED
    BY <2>1, <2>3, <2>4, <2>5 DEF QuestionsInvariant, OfRows, Leaves
<1>4. ASSUME NEW names \in Selections, Select(names) PROVE QuestionsInvariant'
  <2> DEFINE question == [op |-> "select", columns |-> names]
  <2>1. /\ original' = original /\ written' = written /\ saved' = saved /\ fault = NoFault
        /\ asked' = Append(asked, question)
        /\ held' = <<"Table", select_columns(held[2], names)>>
    BY <1>4 DEF Select, Asking
  <2>3. IsSequence(asked) /\ IsSequence(saved)
    BY DEF QuestionsInvariant
  <2>4. IsSequence(Append(asked, question))
    BY <2>3, OneMoreAnswered
  <2>5. ASSUME OfRows PROVE Leaves(written, saved) /\ Leaves(held', Append(asked, question))
    <3>1. Leaves(written, saved) /\ Leaves(held, asked)
      BY <2>1, <2>5 DEF QuestionsInvariant
    <3> DEFINE table == select_columns(held[2], names)
    <3>2. IsRowTable(table) /\ Rows(table) = Answer(Rows(held[2]), question)
      BY <3>1, SelectAnswers DEF Leaves
    <3> HIDE DEF table, question
    <3>3. held' = <<"Table", table>> /\ held'[1] = "Table" /\ held'[2] = table
      BY <2>1 DEF table
    <3>4. Rows(held[2]) = Answered(Rows(original[2]), asked)
      BY <3>1 DEF Leaves
    <3>5. Rows(table) = Answered(Rows(original[2]), Append(asked, question))
      BY <2>3, <3>2, <3>4, OneMoreAnswered
    <3> QED
      BY <3>1, <3>2, <3>3, <3>5 DEF Leaves
  <2> HIDE DEF question
  <2> QED
    BY <2>1, <2>3, <2>4, <2>5 DEF QuestionsInvariant, OfRows, Leaves
<1>5. CASE Damage
  <2>1. /\ original' = original /\ held' = held /\ written' = written /\ fault = NoFault
        /\ asked' = asked /\ saved' = saved
    BY <1>5 DEF Damage
  <2> QED
    BY <2>1 DEF QuestionsInvariant, OfRows, Leaves
<1>6. CASE WriteWrong
  <2>1. /\ original' = original /\ held' = held /\ written' = held /\ fault = NoFault
        /\ asked' = asked /\ saved' = asked
    BY <1>6 DEF WriteWrong
  <2> QED
    BY <2>1 DEF QuestionsInvariant, OfRows, Leaves
<1>7. CASE UNCHANGED vars
  BY <1>7 DEF vars, QuestionsInvariant, OfRows, Leaves, Readable, Exists
<1> QED
  BY <1>1, <1>2, <1>3, <1>4, <1>5, <1>6, <1>7 DEF Next

\* However writes, reads, filters and selections follow each other, the table
\* held is the original one as its rows answer the questions asked, one after
\* the other (row_filter, apply_row_mask, select_columns of sx-runtime between
\* trips through encode_binary and decode_binary).
THEOREM QuestionsAlwaysOnRows == Spec => []QuestionsOnRows
<1>1. QuestionsInvariant => QuestionsOnRows
  BY DEF QuestionsInvariant, QuestionsOnRows, OfRows, Leaves, IsRowTable
<1>2. Spec => []QuestionsInvariant
  BY QuestionsStart, QuestionsStep, FileAlwaysSound, PTL DEF Spec
<1> QED
  BY <1>1, <1>2, PTL
-----------------------------------------------------------------------------
(***************************************************************************)
(* One payload and its four readers.                                       *)
(***************************************************************************)
RowsOf(payload) ==
  <<"Array", [i \in 1..payload.rows |->
      <<"Object", [f \in ColumnNames(payload) |->
                     CellOf(ColumnNamed(payload, f), i)]>>]>>

TableOf(payload) ==
  <<"Table", [c \in ColumnNames(payload) |->
      [store |-> "Values", cells |-> CellsOf(ColumnNamed(payload, c))]]>>

\* A name that a column has leads to a column of that name.
LEMMA NamedThere ==
  ASSUME NEW payload, Len(payload.columns) \in Nat,
         DOMAIN payload.columns = 1..Len(payload.columns), NEW f \in ColumnNames(payload)
  PROVE  \E c \in DOMAIN payload.columns :
           /\ c = SelectInSeq(payload.columns, LAMBDA column : column.name = f)
           /\ ColumnNamed(payload, f) = payload.columns[c] /\ payload.columns[c].name = f
<1> DEFINE columns == payload.columns
           I == {c \in 1..Len(columns) : columns[c].name = f}
<1>1. I # {} /\ I = {c \in 1..Len(columns) : c \in I}
  BY DEF ColumnNames
<1>2. Min(I) \in I
  <2> HIDE DEF I
  <2> QED
    BY <1>1, FirstOf
<1>3. SelectInSeq(columns, LAMBDA column : column.name = f) = Min(I)
  BY <1>1 DEF SelectInSeq
<1> QED
  BY <1>2, <1>3 DEF ColumnNamed

\* What a whole payload says of the column of a name.
LEMMA WholeNamed ==
  ASSUME NEW payload, Whole(payload), NEW f \in ColumnNames(payload)
  PROVE  /\ WholeColumn(ColumnNamed(payload, f), payload.rows)
         /\ ColumnNamed(payload, f).name = f
         /\ CellsOf(ColumnNamed(payload, f))
              = [i \in 1..payload.rows |-> CellOf(ColumnNamed(payload, f), i)]
<1>1. /\ Len(payload.columns) \in Nat /\ DOMAIN payload.columns = 1..Len(payload.columns)
      /\ \A c \in DOMAIN payload.columns : WholeColumn(payload.columns[c], payload.rows)
  BY DEF Whole
<1>2. PICK c \in DOMAIN payload.columns :
        ColumnNamed(payload, f) = payload.columns[c] /\ payload.columns[c].name = f
  BY <1>1, NamedThere
<1>3. WholeColumn(ColumnNamed(payload, f), payload.rows) /\ ColumnNamed(payload, f).name = f
  BY <1>1, <1>2
<1>4. ColumnNamed(payload, f).len = payload.rows
  BY <1>3 DEF WholeColumn
<1> QED
  BY <1>3, <1>4 DEF CellsOf

\* A whole payload decodes as rows and as a table.
LEMMA WholeDecodes ==
  ASSUME NEW payload, Whole(payload)
  PROVE  /\ decode_columnar_event_batch(payload) = Ok(RowsOf(payload))
         /\ decode_columnar_table(payload) = Ok(TableOf(payload))
<1>1. \A c \in DOMAIN payload.columns :
        payload.columns[c].len = payload.rows /\ RefsResolve(payload.columns[c])
  BY DEF Whole, WholeColumn
<1>2. \A value : Decoded(payload, value) = Ok(value)
  BY <1>1 DEF Decoded, parse_columnar_payload, LengthsAgree, IsOk, Ok
<1> QED
  BY <1>2, Zenon DEF decode_columnar_event_batch, decode_columnar_table, RowsOf, TableOf

\* Taken as a table, it has the rows it has taken as rows.
LEMMA WholeRows ==
  ASSUME NEW payload, Whole(payload)
  PROVE  Rows(TableOf(payload)[2]) = RowsOf(payload)[2]
<1> DEFINE names == ColumnNames(payload)
           n == payload.rows
           Cells(c) == CellsOf(ColumnNamed(payload, c))
           table == TableOf(payload)[2]
<1>1. n \in Nat /\ names # {} /\ names \subseteq Names /\ IsFiniteSet(names)
  BY DEF Whole
<1>2. DOMAIN table = names /\ \A c \in names : table[c].cells = Cells(c)
  BY DEF TableOf
<1>3. ASSUME NEW c \in names
      PROVE  /\ Cells(c) = [i \in 1..n |-> CellOf(ColumnNamed(payload, c), i)]
             /\ Len(Cells(c)) = n
             /\ \A i \in 1..n : Cells(c)[i] = CellOf(ColumnNamed(payload, c), i)
  <2>1. Cells(c) = [i \in 1..n |-> CellOf(ColumnNamed(payload, c), i)]
    BY WholeNamed
  <2> HIDE DEF Cells, n
  <2> QED
    BY <1>1, <2>1
<1> HIDE DEF names, n, Cells, table
<1>4. Min(names) \in names
  <2>1. names \subseteq Int
    BY <1>1, ColumnarConstants
  <2> QED
    BY <1>1, <2>1, MinOf
<1>5. row_count(table) = n
  BY <1>1, <1>2, <1>3, <1>4 DEF row_count
<1>6. \A i \in 1..n : [c \in names |-> table[c].cells[i]]
                        = [c \in names |-> CellOf(ColumnNamed(payload, c), i)]
  BY <1>2, <1>3
<1>7. Rows(table) = [i \in 1..n |-> <<"Object", [c \in names |-> table[c].cells[i]]>>]
  BY <1>2, <1>5 DEF Rows
<1>8. RowsOf(payload)[2]
        = [i \in 1..n |-> <<"Object", [c \in names |-> CellOf(ColumnNamed(payload, c), i)]>>]
  BY DEF RowsOf, n, names
<1> QED
  BY <1>6, <1>7, <1>8 DEF table

\* Nothing taken from a sequence is the empty sequence.
LEMMA ThoseNone == ASSUME NEW seq PROVE Those(seq, {}) = <<>>
<1>1. DOMAIN Those(seq, {}) = 1..0 /\ Those(seq, {}) = [i \in 1..0 |-> Those(seq, {})[i]]
  BY ThoseTake, FS_EmptySet
<1> QED
  BY <1>1

\* The values of a field read from one column are those in the decoded rows.
LEMMA WholeExtract ==
  ASSUME NEW payload, Whole(payload), NEW field
  PROVE  extract_event_batch_field_column(payload, field)
           = Ok(FieldOf(RowsOf(payload), field))
<1> DEFINE names == ColumnNames(payload)
           n == payload.rows
           column == ColumnNamed(payload, field)
           rows == RowsOf(payload)[2]
           Has(item) == IsRow(item) /\ field \in DOMAIN item[2]
           having == Those(rows, {i \in DOMAIN rows : Has(rows[i])})
<1>1. n \in Nat
  BY DEF Whole
<1>2. /\ RowsOf(payload)[1] = "Array" /\ DOMAIN rows = 1..n
      /\ rows = [i \in 1..n |-> rows[i]]
      /\ \A i \in 1..n :
           rows[i] = <<"Object", [f \in names |-> CellOf(ColumnNamed(payload, f), i)]>>
  BY DEF RowsOf
<1>3. FieldOf(RowsOf(payload), field) = [i \in DOMAIN having |-> having[i][2][field]]
  BY <1>2, Zenon DEF FieldOf
<1>4. CASE field \in names
  <2>1. WholeColumn(column, n) /\ CellsOf(column) = [i \in 1..n |-> CellOf(column, i)]
    BY <1>4, WholeNamed
  <2>2. extract_event_batch_field_column(payload, field) = Ok(CellsOf(column))
    BY <1>4, <2>1 DEF extract_event_batch_field_column, WholeColumn
  <2> HIDE DEF rows, n, names, having
  <2>3. \A i \in 1..n : Has(rows[i]) /\ rows[i][2][field] = CellOf(column, i)
    BY <1>2, <1>4 DEF IsRow
  <2>4. {i \in DOMAIN rows : Has(rows[i])} = 1..n
    BY <1>2, <2>3
  <2>5. having = rows
    BY <1>1, <1>2, <2>4, ThoseAll DEF having
  <2>6. [i \in DOMAIN having |-> having[i][2][field]] = [i \in 1..n |-> CellOf(column, i)]
    BY <1>2, <2>3, <2>5
  <2> QED
    BY <1>3, <2>1, <2>2, <2>6
<1>5. CASE field \notin names
  <2>1. extract_event_batch_field_column(payload, field) = Ok(<<>>)
    BY <1>5 DEF extract_event_batch_field_column
  <2> HIDE DEF rows, n, names, having
  <2>2. \A i \in 1..n : ~Has(rows[i])
    BY <1>2, <1>5
  <2>3. {i \in DOMAIN rows : Has(rows[i])} = {}
    BY <1>2, <2>2
  <2>4. having = <<>>
    BY <2>3, ThoseNone DEF having
  <2>5. [i \in DOMAIN having |-> having[i][2][field]] = <<>>
    BY <2>4
  <2> QED
    BY <1>3, <2>1, <2>5
<1> QED
  BY <1>4, <1>5

\* Columns without numbers are refused by one reader and not by the other.
NumbersIn(value, name) ==
  value[1] = "Table" /\ name \in DOMAIN value[2]
    => \A i \in DOMAIN value[2][name].cells : value[2][name].cells[i][1] \in Numeric

\* The numbers counted in one column are those in the decoded table.
LEMMA WholeScan ==
  ASSUME NEW payload, Whole(payload), NEW name, NEW rhs, NumbersIn(TableOf(payload), name)
  PROVE  scan_table_column_numeric_gt(payload, name, rhs)
           = ScanTable(TableOf(payload), name, rhs)
<1> DEFINE names == ColumnNames(payload)
           n == payload.rows
           column == ColumnNamed(payload, name)
           table == TableOf(payload)[2]
           cells == CellsOf(column)
<1>1. n \in Nat /\ n >= 1
  BY DEF Whole
<1>2. /\ TableOf(payload)[1] = "Table" /\ DOMAIN table = names
      /\ name \in names => table[name].cells = cells
  BY DEF TableOf
<1>3. CASE name \in names
  <2>1. WholeColumn(column, n) /\ cells = [i \in 1..n |-> CellOf(column, i)]
    BY <1>3, WholeNamed
  <2>2. \A i \in 1..n : CellOf(column, i)[1] = VariantOf[column.kind]
    BY DEF CellOf
  <2> HIDE DEF n, names, table, column, cells
  <2>3. DOMAIN cells = 1..n /\ \A i \in 1..n : cells[i] = CellOf(column, i)
    BY <2>1
  <2>4. \A i \in 1..n : cells[i][1] \in Numeric
    BY <1>2, <1>3, <2>3 DEF NumbersIn, table
  <2>5. 1 \in 1..n
    BY <1>1
  <2>6. VariantOf[column.kind] \in Numeric
    BY <2>2, <2>3, <2>4, <2>5
  <2>7. /\ column.kind \in {2, 4} /\ column.len = n
        /\ DOMAIN column.data = 1..n /\ column.data = [i \in 1..n |-> column.data[i]]
    BY <2>1, <2>6 DEF WholeColumn
  <2>8. scan_table_column_numeric_gt(payload, name, rhs) = Ok(NumbersAbove(column.data, rhs))
    BY <1>3, <2>7 DEF scan_table_column_numeric_gt, column, n, names
  <2>9. NumericCells(cells) = cells
    <3>1. {i \in DOMAIN cells : cells[i][1] \in Numeric} = 1..n
      BY <2>3, <2>4
    <3>2. cells = [i \in 1..n |-> cells[i]]
      BY <2>1
    <3>3. Those(cells, 1..n) = cells
      BY <1>1, <3>2, ThoseAll
    <3> QED
      BY <3>1, <3>3 DEF NumericCells
  <2>10. [i \in DOMAIN cells |-> cells[i][2]] = column.data
    <3>1. \A i \in 1..n : CellOf(column, i)[2] = column.data[i]
      <4>1. column.kind # 1 /\ column.kind # 3
        BY <2>7
      <4> QED
        BY <4>1 DEF CellOf
    <3>2. [i \in DOMAIN cells |-> cells[i][2]] = [i \in 1..n |-> column.data[i]]
      BY <2>3, <3>1
    <3> QED
      BY <2>7, <3>2
  <2>11. ScanTable(TableOf(payload), name, rhs)
           = Ok(NumbersAbove([i \in DOMAIN NumericCells(cells) |-> NumericCells(cells)[i][2]],
                             rhs))
    BY <1>2, <1>3, Zenon DEF ScanTable, table
  <2> QED
    BY <2>8, <2>9, <2>10, <2>11
<1>4. CASE name \notin names
  BY <1>2, <1>4 DEF ScanTable, scan_table_column_numeric_gt
<1> QED
  BY <1>3, <1>4

\* What was laid out by columns is read back from its payload.
LEMMA StoredByColumns ==
  ASSUME NEW value, IsValue(value), InColumnsOf(value)
  PROVE  /\ Whole(ColumnsOf(value))
         /\ CodecOf(value) = 1 => Stored(value) = RowsOf(ColumnsOf(value))
         /\ CodecOf(value) = 2 => Stored(value) = TableOf(ColumnsOf(value))
         /\ CodecOf(value) \in {1, 2}
         /\ CodecOf(value) = 2 <=> value[1] = "Table"
<1> DEFINE payload == ColumnsOf(value)
<1>1. \A a, b : Ok(a) = Ok(b) => a = b
  BY DEF Ok
<1>2. CASE IsEventBatch(value)
  <2>1. payload = encode_columnar_event_batch(value[2]) /\ CodecOf(value) = 1
        /\ value[1] # "Table"
    BY <1>2 DEF ColumnsOf, CodecOf, IsEventBatch
  <2>2. decode_columnar_event_batch(payload) = Ok(value) /\ Whole(payload)
    BY <1>2, <2>1, BatchDecodes
  <2>3. value = RowsOf(payload)
    BY <1>1, <2>2, WholeDecodes
  <2> QED
    BY <1>2, <2>1, <2>2, <2>3 DEF Stored
<1>3. CASE ~IsEventBatch(value)
  <2>1. IsColumnarTable(value)
    BY <1>3 DEF InColumnsOf
  <2>2. payload = encode_columnar_table(value[2]) /\ CodecOf(value) = 2 /\ value[1] = "Table"
    BY <1>3, <2>1 DEF ColumnsOf, CodecOf, IsColumnarTable
  <2>3. decode_columnar_table(payload) = Ok(<<"Table", Kept(value[2])>>) /\ Whole(payload)
    BY <2>1, <2>2, TableDecodes
  <2>4. <<"Table", Kept(value[2])>> = TableOf(payload)
    BY <1>1, <2>3, WholeDecodes
  <2> QED
    BY <1>3, <2>1, <2>2, <2>3, <2>4 DEF Stored
<1> QED
  BY <1>2, <1>3
-----------------------------------------------------------------------------
(***************************************************************************)
(* What can be taken in of a damaged file.                                 *)
(***************************************************************************)
\* A file with a table of n entries, wherever it is thought to start.
IsFile(whole, n) ==
  /\ n \in Nat /\ DOMAIN whole.entries = 1..n /\ whole.count \in Nat
  /\ HashSlots(whole.flags) \in Int /\ HashSlots(whole.hashes) \in Int

\* An entry that is taken in and not passed over is one of the file's, and the
\* bytes it leads to have its checksum; without a shift or a cut all are there.
LEMMA Parsed ==
  ASSUME NEW whole, NEW n, IsFile(whole, n), NEW entries, parse_container(whole) = Ok(entries)
  PROVE  /\ Len(entries) \in Nat /\ DOMAIN entries = 1..Len(entries)
         /\ \A j \in 1..Len(entries) :
              \E i \in 1..n : /\ entries[j] = whole.entries[i]
                              /\ segment_slice(whole, whole.entries[i]) = whole.entries[i].sum
         /\ /\ whole.count = n /\ HashSlots(whole.flags) = HashSlots(whole.hashes)
            /\ \A i \in 1..n : whole.entries[i].kind # "Extension"
            => \A i \in 1..n : \E j \in 1..Len(entries) : entries[j] = whole.entries[i]
<1> DEFINE read == EntriesRead(whole)
           errors == {i \in DOMAIN read : EntryError(whole, read[i]) # NoError}
           S == {i \in DOMAIN read : read[i].kind # "Extension"}
           skipped == HashSlots(whole.flags) - HashSlots(whole.hashes)
           count == whole.count
           order == InOrder(S)
           k == Cardinality(S)
<1>1. n \in Nat /\ DOMAIN whole.entries = 1..n /\ count \in Nat /\ skipped \in Int
  BY DEF IsFile
<1>2. errors = {} /\ Ok(entries) = Ok(Those(read, S))
  <2>1. \A x, code : Ok(x) # Err(code)
    BY DEF Ok, Err
  <2> HIDE DEF read, errors, S
  <2>2. \/ \E code : parse_container(whole) = Err(code)
        \/ errors = {} /\ parse_container(whole) = Ok(Those(read, S))
    BY Zenon DEF parse_container, read, errors, S
  <2> QED
    BY <2>1, <2>2
<1>3. entries = Those(read, S)
  BY <1>2 DEF Ok
<1>4. /\ DOMAIN read = 1..count
      /\ \A i \in 1..count : read[i] = IF i + skipped \in 1..n THEN whole.entries[i + skipped]
                                       ELSE Stray(whole)
  <2>1. read = [i \in 1..count |-> IF i + skipped \in DOMAIN whole.entries
                                   THEN whole.entries[i + skipped] ELSE Stray(whole)]
    BY Zenon DEF EntriesRead
  <2> HIDE DEF read, count, skipped
  <2> QED
    BY <1>1, <2>1
<1>5. S \subseteq 1..count
  BY <1>4
<1>6. S \subseteq Int /\ IsFiniteSet(S)
  <2> HIDE DEF S, count
  <2>1. IsFiniteSet(1..count)
    BY <1>1, FS_Interval
  <2>2. IsFiniteSet(S)
    BY <1>5, <2>1, FS_Subset
  <2>3. S \subseteq Int
    BY <1>1, <1>5
  <2> QED
    BY <2>2, <2>3
<1>7. /\ Len(entries) = k /\ k \in Nat /\ DOMAIN entries = 1..k
      /\ \A j \in 1..k : entries[j] = read[order[j]] /\ order[j] \in S
      /\ \A i \in S : \E j \in 1..k : order[j] = i
  <2> HIDE DEF S, read
  <2> QED
    BY <1>3, <1>6, ThoseTake, InOrderLists
<1>8. ASSUME NEW i \in S
      PROVE  /\ i + skipped \in 1..n /\ read[i] = whole.entries[i + skipped]
             /\ segment_slice(whole, read[i]) = read[i].sum
  <2>1. i \in 1..count /\ read[i].kind # "Extension" /\ EntryError(whole, read[i]) = NoError
    <3>1. i \in DOMAIN read /\ read[i].kind # "Extension"
      OBVIOUS
    <3> HIDE DEF read
    <3> QED
      BY <1>2, <1>4, <3>1
  <2> HIDE DEF read, S, skipped, count
  <2>2. read[i].kind \in Kinds /\ segment_slice(whole, read[i]) = read[i].sum
    BY <2>1 DEF EntryError, NoError
  <2>3. i + skipped \in 1..n
    <3>1. CASE read[i] = Stray(whole)
      <4>1. read[i].kind = "Unknown"
        BY <2>1, <3>1 DEF Stray
      <4> QED
        BY <2>2, <4>1 DEF Kinds
    <3> QED
      BY <1>4, <2>1, <3>1
  <2> QED
    BY <1>4, <2>1, <2>2, <2>3
<1>9. ASSUME NEW j \in 1..k
      PROVE  \E i \in 1..n : /\ entries[j] = whole.entries[i]
                             /\ segment_slice(whole, whole.entries[i]) = whole.entries[i].sum
  <2> HIDE DEF S, read, order, k, skipped
  <2>1. order[j] \in S /\ entries[j] = read[order[j]]
    BY <1>7
  <2> DEFINE i == order[j] + skipped
  <2>2. /\ i \in 1..n /\ read[order[j]] = whole.entries[i]
        /\ segment_slice(whole, read[order[j]]) = read[order[j]].sum
    BY <1>8, <2>1
  <2> HIDE DEF i
  <2> QED
    BY <2>1, <2>2
<1>10. ASSUME whole.count = n, HashSlots(whole.flags) = HashSlots(whole.hashes),
              \A i \in 1..n : whole.entries[i].kind # "Extension", NEW i \in 1..n
       PROVE  \E j \in 1..k : entries[j] = whole.entries[i]
  <2>1. skipped = 0
    BY <1>10 DEF IsFile
  <2>2. i + skipped = i
    BY <1>1, <2>1
  <2>3. read[i] = whole.entries[i] /\ i \in DOMAIN read
    <3> HIDE DEF read, skipped
    <3> QED
      BY <1>4, <1>10, <2>2
  <2>4. i \in S
    BY <1>10, <2>3
  <2> HIDE DEF S, read, order, k
  <2>5. PICK j \in 1..k : order[j] = i
    BY <1>7, <2>4
  <2> QED
    BY <1>7, <2>3, <2>5
<1> HIDE DEF k
<1> QED
  BY <1>7, <1>9, <1>10

\* What can be told of a segment by its kind, its codec or its data.
LEMMA SegmentFacts ==
  ASSUME NEW value
  PROVE  LET segments == Segments(value)
             n == Len(segments)
         IN  /\ n \in Nat /\ n >= 3 /\ DOMAIN segments = 1..n
             /\ \A i \in 1..n :
                  /\ segments[i].kind \in Kinds \ {"Extension"}
                  /\ \/ segments[i].kind = "ColumnData"
                     \/ segments[i].codec # 0
                     \/ segments[i].data[1] = "Columns"
                     => i = n /\ InColumnsOf(value)
                  /\ segments[i].data[1] = "Value" => i = 1
                  /\ segments[i].data[1] # "Elsewhere"
                  /\ segments[i].kind \in {"Dictionary", "ShapeTable"}
                       => segments[i].data[1] \in {"Shapes", "Strings"}
             /\ segments[1].kind = "ValueData"
             /\ segments[1].data = <<"Value", IF InColumnsOf(value) THEN Marker(CodecOf(value))
                                              ELSE Plain(value)>>
             /\ InColumnsOf(value) => /\ segments[n].kind = "ColumnData"
                                      /\ segments[n].codec = CodecOf(value)
                                      /\ segments[n].data = <<"Columns", ColumnsOf(value)>>
<1> DEFINE segments == Segments(value)
           n == Len(segments)
           inside == InColumnsOf(value)
           first == IF inside THEN Marker(CodecOf(value)) ELSE Plain(value)
           payload == ColumnsOf(value)
           codec == CodecOf(value)
<1>1. /\ n \in Nat /\ n >= 3 /\ DOMAIN segments = 1..n
      /\ segments[1] = Segment("ValueData", 0, <<"Value", first>>)
      /\ \A i \in 2..n :
           \/ /\ inside /\ i = n
              /\ segments[i] = Segment("ColumnData", codec, <<"Columns", payload>>)
           \/ /\ segments[i].kind \in {"HotIndex", "PresenceMap"} /\ segments[i].codec = 0
              /\ segments[i].data[1] \in {"Hot", "Presence"}
           \/ /\ segments[i].kind \in {"ShapeTable", "Dictionary"} /\ segments[i].codec = 0
              /\ segments[i].data[1] \in {"Shapes", "Strings"}
      /\ inside => segments[n] = Segment("ColumnData", codec, <<"Columns", payload>>)
  BY SegmentsAre
<1> HIDE DEF segments, n, inside, first, payload, codec
<1>2. /\ segments[1].kind = "ValueData" /\ segments[1].codec = 0
      /\ segments[1].data = <<"Value", first>> /\ segments[1].data[1] = "Value"
      /\ inside => /\ segments[n].kind = "ColumnData" /\ segments[n].codec = codec
                   /\ segments[n].data = <<"Columns", payload>>
                   /\ segments[n].data[1] = "Columns"
  BY <1>1 DEF Segment
<1>3. ASSUME NEW i \in 2..n
      PROVE  \/ /\ inside /\ i = n /\ segments[i].kind = "ColumnData"
                /\ segments[i].data[1] = "Columns"
             \/ /\ segments[i].kind \in {"HotIndex", "PresenceMap"} /\ segments[i].codec = 0
                /\ segments[i].data[1] \in {"Hot", "Presence"}
             \/ /\ segments[i].kind \in {"ShapeTable", "Dictionary"} /\ segments[i].codec = 0
                /\ segments[i].data[1] \in {"Shapes", "Strings"}
  BY <1>1, <1>2
<1>4. ASSUME NEW i \in 1..n
      PROVE  /\ segments[i].kind \in Kinds \ {"Extension"}
             /\ \/ segments[i].kind = "ColumnData"
                \/ segments[i].codec # 0
                \/ segments[i].data[1] = "Columns"
                => i = n /\ inside
             /\ segments[i].data[1] = "Value" => i = 1
             /\ segments[i].data[1] # "Elsewhere"
             /\ segments[i].kind \in {"Dictionary", "ShapeTable"}
                  => segments[i].data[1] \in {"Shapes", "Strings"}
  <2>1. CASE i = 1
    BY <1>2, <2>1 DEF Kinds
  <2>2. CASE i \in 2..n
    BY <1>3, <2>2 DEF Kinds
  <2> QED
    BY <1>1, <2>1, <2>2
<1> QED
  BY <1>1, <1>2, <1>4 DEF segments, n, inside, first, payload, codec

Losing == {"flags", "count", "kind"}

\* A file written from a value, with one thing wrong in it.
Follows(whole, value, problem) ==
  LET segments == Segments(value)
      n == Len(segments)
  IN  /\ IsFile(whole, n)
      /\ \A i \in 1..n :
           /\ problem # "kind" => whole.entries[i].kind = segments[i].kind
           /\ problem # "codec" => whole.entries[i].codec = segments[i].codec
           /\ problem # "sum" => whole.entries[i].sum = segments[i].data
      /\ problem \notin Losing
           => whole.count = n /\ HashSlots(whole.flags) = HashSlots(whole.hashes)
      /\ problem \in {"sum", "bytes"}
           => \E i \in 1..n : segment_slice(whole, whole.entries[i]) # whole.entries[i].sum

\* An entry that is the i-th of the file, and as it was written but for the problem.
Matches(whole, value, problem, entry, i) ==
  /\ entry = whole.entries[i]
  /\ problem # "kind" => entry.kind = Segments(value)[i].kind
  /\ problem # "codec" => entry.codec = Segments(value)[i].codec
  /\ segment_slice(whole, entry) = Segments(value)[i].data

\* The entries that were taken in of such a file.
TakenIn(whole, value, problem, entries) ==
  /\ parse_container(whole) = Ok(entries)
  /\ Len(entries) \in Nat /\ DOMAIN entries = 1..Len(entries)
  /\ \A j \in 1..Len(entries) :
       \E i \in 1..Len(Segments(value)) : Matches(whole, value, problem, entries[j], i)
  /\ problem \notin Losing
       => \A i \in 1..Len(Segments(value)) :
            \E j \in 1..Len(entries) : Matches(whole, value, problem, entries[j], i)

\* What is taken in of a file with one thing wrong is as it was written but for that.
LEMMA FollowingParsed ==
  ASSUME NEW whole, NEW value, NEW problem, Follows(whole, value, problem),
         IsOk(parse_container(whole))
  PROVE  TakenIn(whole, value, problem, Got(parse_container(whole)))
<1> DEFINE segments == Segments(value)
           n == Len(segments)
           entries == Got(parse_container(whole))
           slots == HashSlots(whole.flags) = HashSlots(whole.hashes)
<1>1. parse_container(whole) = Ok(entries)
  <2> DEFINE parsed == parse_container(whole)
  <2>1. (\E code : parsed = Err(code)) \/ (\E x : parsed = Ok(x))
    BY Zenon DEF parse_container
  <2> HIDE DEF parsed
  <2>2. parsed = Ok(Got(parsed))
    BY <2>1 DEF IsOk, Ok, Err, Got, parsed
  <2> QED
    BY <2>2 DEF parsed
<1>2. /\ IsFile(whole, n)
      /\ \A i \in 1..n :
           /\ problem # "kind" => whole.entries[i].kind = segments[i].kind
           /\ problem # "codec" => whole.entries[i].codec = segments[i].codec
           /\ problem # "sum" => whole.entries[i].sum = segments[i].data
      /\ problem \notin Losing => whole.count = n /\ slots
      /\ problem \in {"sum", "bytes"}
           => \E i \in 1..n : segment_slice(whole, whole.entries[i]) # whole.entries[i].sum
  BY Zenon DEF Follows
<1>3. \A i \in 1..n : segments[i].kind # "Extension"
  BY SegmentFacts
<1> HIDE DEF segments, n, entries
<1>4. /\ Len(entries) \in Nat /\ DOMAIN entries = 1..Len(entries)
      /\ \A j \in 1..Len(entries) :
           \E i \in 1..n : /\ entries[j] = whole.entries[i]
                           /\ segment_slice(whole, whole.entries[i]) = whole.entries[i].sum
      /\ /\ whole.count = n /\ slots
         /\ \A i \in 1..n : whole.entries[i].kind # "Extension"
         => \A i \in 1..n : \E j \in 1..Len(entries) : entries[j] = whole.entries[i]
  BY <1>1, <1>2, Parsed
<1>5. problem \notin Losing
        => \A i \in 1..n : \E j \in 1..Len(entries) : entries[j] = whole.entries[i]
  BY <1>2, <1>3, <1>4 DEF Losing
<1>6. \A j \in 1..Len(entries) :
        segment_slice(whole, entries[j]) = entries[j].sum
  BY <1>4
<1>7. problem \notin {"sum", "bytes"}
  BY <1>2, <1>5, <1>6 DEF Losing
<1>8. ASSUME NEW entry, NEW i \in 1..n, entry = whole.entries[i],
             segment_slice(whole, entry) = entry.sum
      PROVE  Matches(whole, value, problem, entry, i)
  BY <1>2, <1>7, <1>8 DEF Matches, segments
<1>9. \A j \in 1..Len(entries) : \E i \in 1..n : Matches(whole, value, problem, entries[j], i)
  BY <1>4, <1>8
<1>10. problem \notin Losing
         => \A i \in 1..n : \E j \in 1..Len(entries) :
              Matches(whole, value, problem, entries[j], i)
  BY <1>5, <1>6, <1>8
<1> QED
  BY <1>1, <1>4, <1>9, <1>10 DEF TakenIn, n, segments, entries

\* The first place of a sequence that passes a test passes it.
LEMMA FirstPasses ==
  ASSUME NEW entries, Len(entries) \in Nat, NEW kind, NEW codec
  PROVE  /\ LET k == FirstOfKind(entries, kind)
            IN  /\ k # 0 => k \in 1..Len(entries) /\ entries[k].kind = kind
                /\ k = 0 => \A j \in 1..Len(entries) : entries[j].kind # kind
         /\ LET c == ColumnSegment(entries, codec)
            IN  c # 0 => /\ c \in 1..Len(entries)
                         /\ entries[c].kind = "ColumnData" /\ entries[c].codec = codec
<1> DEFINE n == Len(entries)
           I == {j \in 1..n : entries[j].kind = kind}
           J == {j \in 1..n : entries[j].kind = "ColumnData" /\ entries[j].codec = codec}
<1>1. FirstOfKind(entries, kind) = IF I # {} THEN Min(I) ELSE 0
  BY DEF FirstOfKind, SelectInSeq
<1>2. ColumnSegment(entries, codec) = IF J # {} THEN Min(J) ELSE 0
  BY DEF ColumnSegment, SelectInSeq
<1>3. (I # {} => Min(I) \in I) /\ (J # {} => Min(J) \in J)
  <2>1. I = {j \in 1..n : j \in I} /\ J = {j \in 1..n : j \in J}
    OBVIOUS
  <2> HIDE DEF I, J
  <2> QED
    BY <2>1, FirstOf
<1>4. \A j \in I : j # 0
  OBVIOUS
<1> QED
  BY <1>1, <1>2, <1>3, <1>4

\* A file that is taken in is decoded by its first column segment, and from its
\* first plain value if there is none.
LEMMA DecodeUnfolds ==
  ASSUME NEW whole, NEW entries, parse_container(whole) = Ok(entries)
  PROVE  LET columns == FirstOfKind(entries, "ColumnData")
             plain == FirstOfKind(entries, "ValueData")
             invalid == {i \in DOMAIN entries : MetadataError(whole, entries[i]) # NoError}
             result == IF columns # 0
                       THEN DecodeColumns(segment_slice(whole, entries[columns]),
                                          entries[columns].codec)
                       ELSE IF plain # 0 THEN decode_value(segment_slice(whole, entries[plain]))
                       ELSE Err("ValidationError")
         IN  /\ IsOk(decode_binary(whole)) => decode_binary(whole) = result
             /\ invalid = {} => decode_binary(whole) = result
<1> DEFINE columns == FirstOfKind(entries, "ColumnData")
           plain == FirstOfKind(entries, "ValueData")
           invalid == {i \in DOMAIN entries : MetadataError(whole, entries[i]) # NoError}
           result == IF columns # 0
                     THEN DecodeColumns(segment_slice(whole, entries[columns]),
                                        entries[columns].codec)
                     ELSE IF plain # 0 THEN decode_value(segment_slice(whole, entries[plain]))
                     ELSE Err("ValidationError")
           problem == MetadataError(whole, entries[Min(invalid)])
<1>1. Got(parse_container(whole)) = entries /\ IsOk(parse_container(whole))
  BY DEF Got, IsOk, Ok
<1>2. decode_binary(whole) = IF invalid # {} THEN Err(problem) ELSE result
  BY <1>1, Zenon DEF decode_binary, FirstOfKind
<1>3. ~IsOk(Err(problem))
  BY DEF IsOk, Err
<1> HIDE DEF invalid, result, problem
<1> QED
  BY <1>2, <1>3 DEF invalid, result

\* What column segments decode to, going by their codec.
ViewOf(payload, codec) == IF codec = 1 THEN RowsOf(payload) ELSE TableOf(payload)

\* A column segment of a whole payload decodes to what its codec makes of it.
LEMMA ColumnsDecode ==
  ASSUME NEW payload, Whole(payload), NEW codec
  PROVE  /\ codec \in {1, 2}
              => DecodeColumns(<<"Columns", payload>>, codec) = Ok(ViewOf(payload, codec))
         /\ codec \notin {1, 2} => ~IsOk(DecodeColumns(<<"Columns", payload>>, codec))
<1>1. \A data : data = <<"Columns", payload>> =>
        /\ codec = 1 => DecodeColumns(data, codec) = decode_columnar_event_batch(payload)
        /\ codec = 2 => DecodeColumns(data, codec) = decode_columnar_table(payload)
        /\ codec \notin {1, 2} => DecodeColumns(data, codec) = Err("UnsupportedFeature")
  BY DEF DecodeColumns, InColumns
<1>2. ~IsOk(Err("UnsupportedFeature"))
  BY DEF IsOk, Err
<1> QED
  BY <1>1, <1>2, WholeDecodes DEF ViewOf

\* With a column segment in sight, what is decoded are the columns that were
\* written, as the codec of their entry says.
LEMMA DecodedByColumns ==
  ASSUME NEW whole, NEW value, IsValue(value), NEW problem, NEW entries,
         TakenIn(whole, value, problem, entries),
         NEW j \in 1..Len(entries), entries[j].kind = "ColumnData",
         IsOk(decode_binary(whole))
  PROVE  LET n == Len(Segments(value))
         IN  /\ InColumnsOf(value)
             /\ \E k \in 1..Len(entries) :
                  /\ entries[k].kind = "ColumnData" /\ entries[k].codec \in {1, 2}
                  /\ Matches(whole, value, problem, entries[k], n)
                  /\ decode_binary(whole) = Ok(ViewOf(ColumnsOf(value), entries[k].codec))
<1> DEFINE n == Len(Segments(value))
           k == FirstOfKind(entries, "ColumnData")
<1>1. /\ parse_container(whole) = Ok(entries) /\ Len(entries) \in Nat
      /\ \A m \in 1..Len(entries) :
           \E i \in 1..n : Matches(whole, value, problem, entries[m], i)
  BY DEF TakenIn
<1>2. k # 0 /\ k \in 1..Len(entries) /\ entries[k].kind = "ColumnData"
  BY <1>1, FirstPasses
<1>3. decode_binary(whole)
        = DecodeColumns(segment_slice(whole, entries[k]), entries[k].codec)
  BY <1>1, <1>2, DecodeUnfolds
<1> HIDE DEF k
<1>4. PICK i \in 1..n : Matches(whole, value, problem, entries[k], i)
  BY <1>1, <1>2
<1>5. segment_slice(whole, entries[k]) = Segments(value)[i].data
  BY <1>4 DEF Matches
<1>6. Segments(value)[i].data[1] = "Columns"
  <2> DEFINE data == Segments(value)[i].data
             codec == entries[k].codec
  <2>1. IsOk(DecodeColumns(data, codec))
    BY <1>3, <1>5
  <2> HIDE DEF data, codec
  <2>2. data[1] # "Columns" => \E code : DecodeColumns(data, codec) = Err(code)
    BY Zenon DEF DecodeColumns, InColumns
  <2>3. \A code : ~IsOk(Err(code))
    BY DEF IsOk, Err
  <2> QED
    BY <2>1, <2>2, <2>3 DEF data
<1>7. i = n /\ InColumnsOf(value)
  BY <1>6, SegmentFacts
<1>8. Segments(value)[n].data = <<"Columns", ColumnsOf(value)>>
  BY <1>7, SegmentFacts
<1>9. Whole(ColumnsOf(value))
  BY <1>7, StoredByColumns
<1>10. decode_binary(whole) = DecodeColumns(<<"Columns", ColumnsOf(value)>>, entries[k].codec)
  BY <1>3, <1>5, <1>7, <1>8
<1>11. /\ entries[k].codec \in {1, 2}
       /\ decode_binary(whole) = Ok(ViewOf(ColumnsOf(value), entries[k].codec))
  BY <1>9, <1>10, ColumnsDecode
<1> QED
  BY <1>2, <1>4, <1>7, <1>11

\* With none in sight it is what was written plainly: the value, or the
\* placeholder for columns that were lost.
LEMMA DecodedPlainly ==
  ASSUME NEW whole, NEW value, NEW problem, NEW entries,
         TakenIn(whole, value, problem, entries),
         \A j \in 1..Len(entries) : entries[j].kind # "ColumnData",
         IsOk(decode_binary(whole))
  PROVE  /\ decode_binary(whole) = Ok(IF InColumnsOf(value) THEN Marker(CodecOf(value))
                                      ELSE Plain(value))
         /\ InColumnsOf(value) => problem \in Losing
<1> DEFINE n == Len(Segments(value))
           columns == FirstOfKind(entries, "ColumnData")
           k == FirstOfKind(entries, "ValueData")
           first == IF InColumnsOf(value) THEN Marker(CodecOf(value)) ELSE Plain(value)
<1>1. /\ parse_container(whole) = Ok(entries) /\ Len(entries) \in Nat
      /\ \A m \in 1..Len(entries) :
           \E i \in 1..n : Matches(whole, value, problem, entries[m], i)
      /\ problem \notin Losing
           => \A i \in 1..n : \E m \in 1..Len(entries) :
                Matches(whole, value, problem, entries[m], i)
  BY DEF TakenIn
<1>2. columns = 0 /\ (k # 0 => k \in 1..Len(entries) /\ entries[k].kind = "ValueData")
  BY <1>1, FirstPasses
<1>3. \A code : ~IsOk(Err(code))
  BY DEF IsOk, Err
<1>4. k # 0 /\ decode_binary(whole) = decode_value(segment_slice(whole, entries[k]))
  BY <1>1, <1>2, <1>3, DecodeUnfolds
<1> HIDE DEF k
<1>5. PICK i \in 1..n : Matches(whole, value, problem, entries[k], i)
  BY <1>1, <1>2, <1>4
<1>6. segment_slice(whole, entries[k]) = Segments(value)[i].data
  BY <1>5 DEF Matches
<1>7. Segments(value)[i].data[1] = "Value"
  BY <1>3, <1>4, <1>6 DEF decode_value
<1>8. Segments(value)[i].data = <<"Value", first>>
  <2>1. i = 1
    BY <1>7, SegmentFacts
  <2> QED
    BY <2>1, SegmentFacts
<1>9. decode_binary(whole) = Ok(first)
  <2> HIDE DEF first
  <2> QED
    BY <1>4, <1>6, <1>8 DEF decode_value
<1>10. ASSUME InColumnsOf(value), problem \notin Losing PROVE FALSE
  <2>1. n \in 1..n /\ Segments(value)[n].kind = "ColumnData"
    BY <1>10, SegmentFacts
  <2>2. PICK m \in 1..Len(entries) : Matches(whole, value, problem, entries[m], n)
    BY <1>1, <1>10, <2>1
  <2>3. entries[m].kind = "ColumnData"
    BY <1>10, <2>1, <2>2 DEF Matches, Losing
  <2> QED
    BY <2>3
<1> QED
  BY <1>9, <1>10

\* A column segment that a fast path finds holds the columns that were written,
\* and what it makes of them is what is decoded, or what was written.
LEMMA ReadByColumns ==
  ASSUME NEW whole, NEW value, IsValue(value), NEW problem, NEW entries,
         TakenIn(whole, value, problem, entries),
         NEW codec \in {1, 2}, ColumnSegment(entries, codec) # 0
  PROVE  LET payload == ColumnsOf(value)
             c == ColumnSegment(entries, codec)
         IN  /\ Whole(payload)
             /\ segment_slice(whole, entries[c]) = <<"Columns", payload>>
             /\ IsOk(decode_binary(whole)) => decode_binary(whole) = Ok(ViewOf(payload, codec))
             /\ ~IsOk(decode_binary(whole)) => Stored(value) = ViewOf(payload, codec)
<1> DEFINE segments == Segments(value)
           n == Len(segments)
           payload == ColumnsOf(value)
           c == ColumnSegment(entries, codec)
           invalid == {i \in DOMAIN entries : MetadataError(whole, entries[i]) # NoError}
<1>1. /\ parse_container(whole) = Ok(entries) /\ Len(entries) \in Nat
      /\ DOMAIN entries = 1..Len(entries)
      /\ \A m \in 1..Len(entries) :
           \E i \in 1..n : Matches(whole, value, problem, entries[m], i)
  BY DEF TakenIn
<1>2. c \in 1..Len(entries) /\ entries[c].kind = "ColumnData" /\ entries[c].codec = codec
  BY <1>1, FirstPasses
<1> HIDE DEF c
<1>3. PICK i \in 1..n : Matches(whole, value, problem, entries[c], i)
  BY <1>1, <1>2
<1>4. i = n /\ InColumnsOf(value)
  <2>1. segments[i].kind = "ColumnData" \/ segments[i].codec # 0
    BY <1>2, <1>3 DEF Matches
  <2> QED
    BY <2>1, SegmentFacts
<1>5. segments[n].codec = CodecOf(value) /\ segments[n].data = <<"Columns", payload>>
  BY <1>4, SegmentFacts
<1>6. /\ Whole(payload)
      /\ CodecOf(value) = 1 => Stored(value) = RowsOf(payload)
      /\ CodecOf(value) = 2 => Stored(value) = TableOf(payload)
  BY <1>4, StoredByColumns
<1>7. segment_slice(whole, entries[c]) = <<"Columns", payload>>
  BY <1>3, <1>4, <1>5 DEF Matches
<1>8. ASSUME IsOk(decode_binary(whole))
      PROVE  decode_binary(whole) = Ok(ViewOf(payload, codec))
  <2>1. PICK k \in 1..Len(entries) :
          /\ Matches(whole, value, problem, entries[k], n)
          /\ decode_binary(whole) = Ok(ViewOf(payload, entries[k].codec))
    BY <1>2, <1>8, DecodedByColumns
  <2>2. entries[k] = entries[c]
    BY <1>3, <1>4, <2>1 DEF Matches
  <2> QED
    BY <1>2, <2>1, <2>2
<1>9. CASE problem # "codec"
  <2>1. codec = CodecOf(value)
    BY <1>2, <1>3, <1>4, <1>5, <1>9 DEF Matches
  <2>2. Stored(value) = ViewOf(payload, codec)
    BY <1>6, <2>1 DEF ViewOf
  <2> QED
    BY <1>6, <1>7, <1>8, <2>2 DEF c
<1>10. CASE problem = "codec"
  <2>1. ASSUME NEW m \in 1..Len(entries) PROVE MetadataError(whole, entries[m]) = NoError
    <3>1. PICK l \in 1..n : Matches(whole, value, problem, entries[m], l)
      BY <1>1
    <3>2. /\ entries[m].kind = segments[l].kind
          /\ segment_slice(whole, entries[m]) = segments[l].data
      BY <1>10, <3>1 DEF Matches
    <3>3. segments[l].kind \in {"Dictionary", "ShapeTable"}
            => segments[l].data[1] \in {"Shapes", "Strings"}
      BY SegmentFacts
    <3> QED
      BY <3>2, <3>3 DEF MetadataError
  <2>2. invalid = {}
    BY <1>1, <2>1
  <2> DEFINE k == FirstOfKind(entries, "ColumnData")
  <2>3. k # 0 /\ k \in 1..Len(entries) /\ entries[k].kind = "ColumnData"
    BY <1>1, <1>2, FirstPasses
  <2>4. decode_binary(whole)
          = DecodeColumns(segment_slice(whole, entries[k]), entries[k].codec)
    BY <1>1, <2>2, <2>3, DecodeUnfolds
  <2> HIDE DEF k
  <2>5. PICK l \in 1..n : Matches(whole, value, problem, entries[k], l)
    BY <1>1, <2>3
  <2>6. segments[l].kind = "ColumnData"
    BY <1>10, <2>3, <2>5 DEF Matches
  <2>7. l = n
    BY <2>6, SegmentFacts
  <2>8. entries[k] = entries[c]
    BY <1>3, <1>4, <2>5, <2>7 DEF Matches
  <2>9. decode_binary(whole) = DecodeColumns(<<"Columns", payload>>, codec)
    BY <1>2, <1>7, <2>4, <2>8
  <2>10. decode_binary(whole) = Ok(ViewOf(payload, codec))
    BY <1>6, <2>9, ColumnsDecode
  <2>11. IsOk(decode_binary(whole))
    BY <2>10 DEF IsOk, Ok
  <2> QED
    BY <1>6, <1>7, <2>10, <2>11 DEF c
<1> QED
  BY <1>9, <1>10

\* What the damage to a file can come to.
LEMMA DamageSeen ==
  ASSUME NEW whole, NEW value, IsValue(value), NEW problem, Follows(whole, value, problem),
         IsOk(decode_binary(whole))
  PROVE  \/ decode_binary(whole) = Ok(Stored(value))
         \/ /\ problem \in Losing /\ InColumnsOf(value)
            /\ decode_binary(whole) = Ok(Marker(CodecOf(value)))
         \/ /\ problem = "codec" /\ InColumnsOf(value)
            /\ decode_binary(whole) = Ok(ViewOf(ColumnsOf(value), 3 - CodecOf(value)))
<1> DEFINE n == Len(Segments(value))
           entries == Got(parse_container(whole))
<1>1. IsOk(parse_container(whole))
  <2>1. ~IsOk(parse_container(whole)) => decode_binary(whole) = parse_container(whole)
    BY Zenon DEF decode_binary
  <2> QED
    BY <2>1
<1>2. TakenIn(whole, value, problem, entries)
  BY <1>1, FollowingParsed
<1> HIDE DEF entries
<1>3. CASE \A j \in 1..Len(entries) : entries[j].kind # "ColumnData"
  <2>1. /\ decode_binary(whole) = Ok(IF InColumnsOf(value) THEN Marker(CodecOf(value))
                                     ELSE Plain(value))
        /\ InColumnsOf(value) => problem \in Losing
    BY <1>2, <1>3, DecodedPlainly
  <2>2. ~InColumnsOf(value) => Stored(value) = Plain(value)
    BY DEF Stored, InColumnsOf
  <2> QED
    BY <2>1, <2>2
<1>4. CASE \E j \in 1..Len(entries) : entries[j].kind = "ColumnData"
  <2>1. PICK j \in 1..Len(entries) : entries[j].kind = "ColumnData"
    BY <1>4
  <2>2. InColumnsOf(value)
    BY <1>2, <2>1, DecodedByColumns
  <2>3. PICK k \in 1..Len(entries) :
          /\ entries[k].codec \in {1, 2} /\ Matches(whole, value, problem, entries[k], n)
          /\ decode_binary(whole) = Ok(ViewOf(ColumnsOf(value), entries[k].codec))
    BY <1>2, <2>1, DecodedByColumns
  <2>4. /\ CodecOf(value) = 1 => Stored(value) = RowsOf(ColumnsOf(value))
        /\ CodecOf(value) = 2 => Stored(value) = TableOf(ColumnsOf(value))
        /\ CodecOf(value) \in {1, 2}
    BY <2>2, StoredByColumns
  <2>5. Segments(value)[n].codec = CodecOf(value)
    BY <2>2, SegmentFacts
  <2>6. CASE entries[k].codec = CodecOf(value)
    BY <2>3, <2>4, <2>6 DEF ViewOf
  <2>7. CASE entries[k].codec # CodecOf(value)
    <3>1. problem = "codec"
      BY <2>3, <2>5, <2>7 DEF Matches
    <3>2. entries[k].codec = 3 - CodecOf(value)
      BY <2>3, <2>4, <2>7
    <3> QED
      BY <2>2, <2>3, <3>1, <3>2
  <2> QED
    BY <2>6, <2>7
<1> QED
  BY <1>3, <1>4

\* A fast path agrees with what it should have found.
Agrees(answer, expected, decoded) ==
  IF IsOk(answer) THEN answer = expected ELSE IsOk(decoded) => answer = expected

\* Both fast paths agree with what is decoded, or else with what was written.
PathsAgree(whole, intact) ==
  LET decoded == decode_binary(whole)
      value == IF IsOk(decoded) THEN Got(decoded) ELSE intact
  IN  \A c \in Names :
        /\ Agrees(decode_hot_field_values(whole, c), Ok(FieldOf(value, c)), decoded)
        /\ \A n \in 0..1 : NumbersIn(value, c) =>
             Agrees(scan_table_numeric_gt(whole, c, n), ScanTable(value, c, n), decoded)

\* The fast paths agree on a file with one thing wrong.
LEMMA FollowingAgrees ==
  ASSUME NEW whole, NEW value, IsValue(value), NEW problem, Follows(whole, value, problem)
  PROVE  PathsAgree(whole, Stored(value))
<1> DEFINE parsed == parse_container(whole)
           entries == Got(parsed)
           decoded == decode_binary(whole)
           seen == IF IsOk(decoded) THEN Got(decoded) ELSE Stored(value)
           payload == ColumnsOf(value)
<1>1. \A x : Got(Ok(x)) = x /\ IsOk(Ok(x))
  BY DEF Got, Ok, IsOk
<1>2. ~IsOk(parsed) => ~IsOk(decoded)
  <2>1. ~IsOk(parsed) => decoded = parsed
    BY Zenon DEF decode_binary
  <2> QED
    BY <2>1
<1>3. IsOk(parsed) => TakenIn(whole, value, problem, entries)
  BY FollowingParsed
<1> HIDE DEF parsed, entries, decoded, seen, payload
<1>4. ASSUME IsOk(parsed), NEW codec \in {1, 2}, ColumnSegment(entries, codec) # 0
      PROVE  /\ Whole(payload) /\ seen = ViewOf(payload, codec)
             /\ segment_slice(whole, entries[ColumnSegment(entries, codec)])
                  = <<"Columns", payload>>
  <2>1. /\ Whole(payload)
        /\ segment_slice(whole, entries[ColumnSegment(entries, codec)])
             = <<"Columns", payload>>
        /\ IsOk(decoded) => decoded = Ok(ViewOf(payload, codec))
        /\ ~IsOk(decoded) => Stored(value) = ViewOf(payload, codec)
    BY <1>3, <1>4, ReadByColumns DEF decoded, payload
  <2> QED
    BY <1>1, <2>1 DEF seen
<1>5. ASSUME NEW c
      PROVE  Agrees(decode_hot_field_values(whole, c), Ok(FieldOf(seen, c)), decoded)
  <2> DEFINE answer == decode_hot_field_values(whole, c)
             k == ColumnSegment(entries, 1)
  <2>1. answer = IF ~IsOk(parsed) THEN parsed
                 ELSE IF k # 0
                 THEN InColumns(segment_slice(whole, entries[k]),
                                LAMBDA p : extract_event_batch_field_column(p, c))
                 ELSE IF IsOk(decoded) THEN Ok(FieldOf(Got(decoded), c)) ELSE decoded
    BY Zenon DEF decode_hot_field_values, parsed, entries, decoded
  <2> HIDE DEF answer, k
  <2>2. CASE ~IsOk(parsed)
    BY <1>2, <2>1, <2>2 DEF Agrees, answer
  <2>3. CASE IsOk(parsed) /\ k # 0
    <3>1. /\ Whole(payload) /\ seen = RowsOf(payload)
          /\ segment_slice(whole, entries[k]) = <<"Columns", payload>>
      BY <1>4, <2>3 DEF ViewOf, k
    <3>2. answer = extract_event_batch_field_column(payload, c)
      BY <2>1, <2>3, <3>1 DEF InColumns
    <3>3. answer = Ok(FieldOf(seen, c))
      BY <3>1, <3>2, WholeExtract
    <3> QED
      BY <3>3 DEF Agrees, answer
  <2>4. CASE IsOk(parsed) /\ k = 0
    BY <2>1, <2>4 DEF Agrees, answer, seen
  <2> QED
    BY <2>2, <2>3, <2>4
<1>6. ASSUME NEW c, NEW n, NumbersIn(seen, c)
      PROVE  Agrees(scan_table_numeric_gt(whole, c, n), ScanTable(seen, c, n), decoded)
  <2> DEFINE answer == scan_table_numeric_gt(whole, c, n)
             k == ColumnSegment(entries, 2)
  <2>1. answer = IF ~IsOk(parsed) THEN parsed
                 ELSE IF k # 0
                 THEN InColumns(segment_slice(whole, entries[k]),
                                LAMBDA p : scan_table_column_numeric_gt(p, c, n))
                 ELSE IF IsOk(decoded) THEN ScanTable(Got(decoded), c, n) ELSE decoded
    BY Zenon DEF scan_table_numeric_gt, parsed, entries, decoded
  <2> HIDE DEF answer, k
  <2>2. CASE ~IsOk(parsed)
    BY <1>2, <2>1, <2>2 DEF Agrees, answer
  <2>3. CASE IsOk(parsed) /\ k # 0
    <3>1. /\ Whole(payload) /\ seen = TableOf(payload)
          /\ segment_slice(whole, entries[k]) = <<"Columns", payload>>
      BY <1>4, <2>3 DEF ViewOf, k
    <3>2. answer = scan_table_column_numeric_gt(payload, c, n)
      BY <2>1, <2>3, <3>1 DEF InColumns
    <3>3. answer = ScanTable(seen, c, n)
      BY <1>6, <3>1, <3>2, WholeScan
    <3> QED
      BY <3>3 DEF Agrees, answer
  <2>4. CASE IsOk(parsed) /\ k = 0
    BY <2>1, <2>4 DEF Agrees, answer, seen
  <2> QED
    BY <2>2, <2>3, <2>4
<1> QED
  BY <1>5, <1>6, Zenon DEF PathsAgree, seen, decoded
-----------------------------------------------------------------------------
(***************************************************************************)
(* A file whose encoder got a column wrong.                                *)
(***************************************************************************)
\* A column gone wrong keeps its name, and is too long or has a reference that
\* leads nowhere.
LEMMA Miswrote ==
  ASSUME NEW column, NEW rows \in Nat, WholeColumn(column, rows), NEW bad \in Miswritten(column)
  PROVE  bad.name = column.name /\ (bad.len # rows \/ ~RefsResolve(bad))
<1>1. /\ column = [name |-> column.name, kind |-> column.kind, len |-> column.len,
                   dict |-> column.dict, data |-> column.data]
      /\ column.len = rows
      /\ column.kind = 1 /\ DOMAIN column.data # {} => Len(column.dict) \in Nat
  BY DEF WholeColumn
<1>2. CASE bad = Column(column.name, column.kind, Append(CellsOf(column), CellOf(column, 1)))
  <2> DEFINE cells == CellsOf(column)
             more == Append(cells, CellOf(column, 1))
  <2>1. \A name, kind, list : /\ Column(name, kind, list).name = name
                              /\ Column(name, kind, list).len = Len(list)
    BY Zenon DEF Column
  <2>2. cells = [i \in 1..rows |-> CellOf(column, i)]
    BY <1>1 DEF CellsOf
  <2>3. Len(more) = rows + 1
    <3> DEFINE S == {CellOf(column, i) : i \in 1..rows} \cup {CellOf(column, 1)}
    <3>1. cells \in Seq(S) /\ Len(cells) = rows /\ CellOf(column, 1) \in S
      BY <2>2
    <3> HIDE DEF cells, S
    <3> QED
      BY <3>1
  <2>4. bad = Column(column.name, column.kind, more)
    BY <1>2
  <2> HIDE DEF more, cells
  <2>5. bad.name = column.name /\ bad.len = Len(more)
    BY <2>1, <2>4
  <2> QED
    BY <2>3, <2>5
<1>3. ASSUME column.kind = 1, NEW i \in DOMAIN column.data,
             bad = [column EXCEPT !.data[i] = Len(column.dict)]
      PROVE  bad.name = column.name /\ ~RefsResolve(bad)
  <2>1. /\ bad.name = column.name /\ bad.kind = 1 /\ bad.dict = column.dict
        /\ bad.data = [column.data EXCEPT ![i] = Len(column.dict)]
    BY <1>1, <1>3
  <2>2. i \in DOMAIN bad.data /\ bad.data[i] = Len(bad.dict)
    BY <1>3, <2>1
  <2>3. Len(bad.dict) \in Nat
    BY <1>1, <1>3, <2>1
  <2>4. ~ (bad.data[i] < Len(bad.dict))
    BY <2>2, <2>3
  <2> QED
    BY <2>1, <2>2, <2>4 DEF RefsResolve
<1>4. \/ bad = Column(column.name, column.kind, Append(CellsOf(column), CellOf(column, 1)))
      \/ /\ column.kind = 1
         /\ \E i \in DOMAIN column.data : bad = [column EXCEPT !.data[i] = Len(column.dict)]
  <2>1. bad \in {Column(column.name, column.kind, Append(CellsOf(column), CellOf(column, 1)))}
                 \cup {[column EXCEPT !.data[i] = Len(column.dict)] :
                         i \in IF column.kind = 1 THEN DOMAIN column.data ELSE {}}
    BY Zenon DEF Miswritten
  <2> QED
    BY <2>1
<1> QED
  BY <1>2, <1>3, <1>4

\* A payload that is whole but for one column.
WrongAt(wrong, payload, c) ==
  /\ wrong.rows = payload.rows /\ DOMAIN wrong.columns = DOMAIN payload.columns
  /\ c \in DOMAIN payload.columns
  /\ \A e \in DOMAIN payload.columns : e # c => wrong.columns[e] = payload.columns[e]
  /\ wrong.columns[c].name = payload.columns[c].name
  /\ wrong.columns[c].len # payload.rows \/ ~RefsResolve(wrong.columns[c])

\* It does not decode; what is read of it by itself is right.
LEMMA WrongReads ==
  ASSUME NEW payload, Whole(payload), NEW wrong, NEW c, WrongAt(wrong, payload, c)
  PROVE  /\ ~IsOk(decode_columnar_event_batch(wrong)) /\ ~IsOk(decode_columnar_table(wrong))
         /\ \A field :
              IsOk(extract_event_batch_field_column(wrong, field))
                => extract_event_batch_field_column(wrong, field)
                     = extract_event_batch_field_column(payload, field)
         /\ \A name, rhs :
              IsOk(scan_table_column_numeric_gt(wrong, name, rhs))
                => scan_table_column_numeric_gt(wrong, name, rhs)
                     = scan_table_column_numeric_gt(payload, name, rhs)
<1> DEFINE good == payload.columns
           columns == wrong.columns
           m == Len(good)
<1>1. /\ wrong.rows = payload.rows /\ c \in 1..m
      /\ DOMAIN columns = 1..m /\ DOMAIN good = 1..m /\ m \in Nat
      /\ \A e \in 1..m : e # c => columns[e] = good[e]
      /\ columns[c].name = good[c].name
      /\ columns[c].len # payload.rows \/ ~RefsResolve(columns[c])
  BY DEF Whole, WrongAt
<1> HIDE DEF good, columns, m
<1>2. Len(columns) = m /\ \A e \in 1..m : columns[e].name = good[e].name
  BY <1>1
<1>3. \A code : ~IsOk(Err(code))
  BY DEF IsOk, Err
<1>4. ASSUME NEW value PROVE ~IsOk(Decoded(wrong, value))
  <2>1. parse_columnar_payload(wrong) = IF LengthsAgree(wrong) THEN Ok(wrong)
                                        ELSE Err("InvalidLength")
    BY Zenon DEF parse_columnar_payload
  <2>2. CASE columns[c].len # payload.rows
    <3>1. ~LengthsAgree(wrong)
      BY <1>1, <2>2 DEF LengthsAgree, columns
    <3>2. ~IsOk(parse_columnar_payload(wrong))
      BY <1>3, <2>1, <3>1
    <3> QED
      BY <3>2 DEF Decoded
  <2>3. CASE ~RefsResolve(columns[c])
    <3>1. ~ \A e \in DOMAIN wrong.columns : RefsResolve(wrong.columns[e])
      BY <1>1, <2>3 DEF columns
    <3>2. Decoded(wrong, value) \in {parse_columnar_payload(wrong), Err("InvalidDictionaryRef")}
          /\ (IsOk(parse_columnar_payload(wrong))
                => Decoded(wrong, value) = Err("InvalidDictionaryRef"))
      BY <3>1, Zenon DEF Decoded
    <3> QED
      BY <1>3, <3>2
  <2> QED
    BY <1>1, <2>2, <2>3
<1>5. ~IsOk(decode_columnar_event_batch(wrong)) /\ ~IsOk(decode_columnar_table(wrong))
  BY <1>4, Zenon DEF decode_columnar_event_batch, decode_columnar_table
<1>6. ColumnNames(wrong) = ColumnNames(payload)
  <2>1. \A e \in DOMAIN columns : columns[e].name = good[e].name
    BY <1>1, <1>2
  <2>2. DOMAIN columns = DOMAIN good
    BY <1>1
  <2> QED
    BY <2>1, <2>2 DEF ColumnNames, columns, good
<1>7. ASSUME NEW f \in ColumnNames(payload)
      PROVE  \/ ColumnNamed(wrong, f) = ColumnNamed(payload, f)
             \/ ColumnNamed(wrong, f) = columns[c]
  <2> DEFINE I == {e \in 1..m : good[e].name = f}
             J == {e \in 1..m : columns[e].name = f}
  <2>1. I = J
    BY <1>2
  <2>2. SelectInSeq(columns, LAMBDA e : e.name = f) = SelectInSeq(good, LAMBDA e : e.name = f)
    <3>1. SelectInSeq(columns, LAMBDA e : e.name = f) = IF J # {} THEN Min(J) ELSE 0
      BY <1>2 DEF SelectInSeq
    <3>2. SelectInSeq(good, LAMBDA e : e.name = f) = IF I # {} THEN Min(I) ELSE 0
      BY DEF SelectInSeq, m
    <3> HIDE DEF I, J
    <3> QED
      BY <2>1, <3>1, <3>2
  <2>3. PICK e \in DOMAIN good : /\ e = SelectInSeq(good, LAMBDA column : column.name = f)
                                 /\ ColumnNamed(payload, f) = good[e]
    BY <1>1, NamedThere DEF good, m
  <2>4. ColumnNamed(wrong, f) = columns[e]
    <3>1. SelectInSeq(columns, LAMBDA column : column.name = f) = e
      BY <2>2, <2>3
    <3> QED
      BY <3>1 DEF ColumnNamed, columns
  <2> QED
    BY <1>1, <2>3, <2>4
<1>8. ASSUME NEW field, IsOk(extract_event_batch_field_column(wrong, field))
      PROVE  extract_event_batch_field_column(wrong, field)
               = extract_event_batch_field_column(payload, field)
  <2>1. CASE field \notin ColumnNames(payload)
    BY <1>6, <2>1 DEF extract_event_batch_field_column
  <2>2. CASE field \in ColumnNames(payload)
    <3>1. ColumnNamed(wrong, field).len = wrong.rows /\ RefsResolve(ColumnNamed(wrong, field))
      BY <1>3, <1>6, <1>8, <2>2 DEF extract_event_batch_field_column
    <3>2. ColumnNamed(wrong, field) = ColumnNamed(payload, field)
      BY <1>1, <1>7, <2>2, <3>1
    <3> QED
      BY <1>1, <1>6, <3>2 DEF extract_event_batch_field_column
  <2> QED
    BY <2>1, <2>2
<1>9. ASSUME NEW name, NEW rhs, IsOk(scan_table_column_numeric_gt(wrong, name, rhs))
      PROVE  scan_table_column_numeric_gt(wrong, name, rhs)
               = scan_table_column_numeric_gt(payload, name, rhs)
  <2>1. CASE name \notin ColumnNames(payload)
    BY <1>6, <2>1 DEF scan_table_column_numeric_gt
  <2>2. CASE name \in ColumnNames(payload)
    <3>1. ColumnNamed(wrong, name).len = wrong.rows /\ ColumnNamed(wrong, name).kind \in {2, 4}
      BY <1>3, <1>6, <1>9, <2>2 DEF scan_table_column_numeric_gt
    <3>2. RefsResolve(ColumnNamed(wrong, name))
      BY <3>1 DEF RefsResolve
    <3>3. ColumnNamed(wrong, name) = ColumnNamed(payload, name)
      BY <1>1, <1>7, <2>2, <3>1, <3>2
    <3> QED
      BY <1>1, <1>6, <3>3 DEF scan_table_column_numeric_gt
  <2> QED
    BY <2>1, <2>2
<1> QED
  BY <1>5, <1>8, <1>9

\* A file written from a value by columns, one of which went wrong.
WrongColumns(whole, value) ==
  LET segments == Segments(value)
  IN  /\ InColumnsOf(value)
      /\ \E c \in DOMAIN ColumnsOf(value).columns :
           \E column \in Miswritten(ColumnsOf(value).columns[c]) :
             whole = Container([segments EXCEPT ![Len(segments)].data[2].columns[c] = column], {})

\* What can be taken in of it are the segments that were written, with a payload
\* that is wrong in one column.
LEMMA WrongParsed ==
  ASSUME NEW whole, NEW value, IsValue(value), WrongColumns(whole, value)
  PROVE  LET n == Len(Segments(value))
         IN  \E entries, wrong, c :
               /\ parse_container(whole) = Ok(entries) /\ Len(entries) = n /\ n \in Nat
               /\ WrongAt(wrong, ColumnsOf(value), c)
               /\ \A i \in 1..n : entries[i].kind = "ColumnData" => i = n
               /\ entries[n].kind = "ColumnData" /\ entries[n].codec = CodecOf(value)
               /\ segment_slice(whole, entries[n]) = <<"Columns", wrong>> /\ n \in 1..n
<1> DEFINE segments == Segments(value)
           n == Len(segments)
           payload == ColumnsOf(value)
<1>1. /\ InColumnsOf(value)
      /\ \E e \in DOMAIN payload.columns : \E column \in Miswritten(payload.columns[e]) :
           whole = Container([segments EXCEPT ![n].data[2].columns[e] = column], {})
  BY Zenon DEF WrongColumns
<1>0. PICK c \in DOMAIN payload.columns : \E column \in Miswritten(payload.columns[c]) :
        whole = Container([segments EXCEPT ![n].data[2].columns[c] = column], {})
  BY <1>1
<1>2. PICK bad \in Miswritten(payload.columns[c]) :
        whole = Container([segments EXCEPT ![n].data[2].columns[c] = bad], {})
  BY <1>0
<1> DEFINE changed == [segments EXCEPT ![n].data[2].columns[c] = bad]
           wrong == [payload EXCEPT !.columns[c] = bad]
           entries == whole.entries
<1>3. /\ n \in Nat /\ n >= 3 /\ DOMAIN segments = 1..n
      /\ segments[n] = Segment("ColumnData", CodecOf(value), <<"Columns", payload>>)
  BY <1>1, SegmentsAre
<1>4. \A i \in 1..n : /\ segments[i].kind \in Kinds \ {"Extension"}
                      /\ segments[i].kind = "ColumnData" => i = n
  BY SegmentFacts
<1>5. Whole(payload)
  BY <1>1, StoredByColumns
<1>6. payload = [rows |-> payload.rows, columns |-> payload.columns]
  BY Zenon DEF ColumnsOf, encode_columnar_event_batch, encode_columnar_table
<1> HIDE DEF segments, n, payload
<1>7. WrongAt(wrong, payload, c)
  <2>1. /\ wrong.rows = payload.rows /\ wrong.columns = [payload.columns EXCEPT ![c] = bad]
    BY <1>6
  <2>2. WholeColumn(payload.columns[c], payload.rows) /\ payload.rows \in Nat
    BY <1>2, <1>5 DEF Whole
  <2>3. bad.name = payload.columns[c].name /\ (bad.len # payload.rows \/ ~RefsResolve(bad))
    BY <1>2, <2>2, Miswrote
  <2> HIDE DEF wrong
  <2>4. /\ DOMAIN wrong.columns = DOMAIN payload.columns /\ wrong.columns[c] = bad
        /\ \A e \in DOMAIN payload.columns : e # c => wrong.columns[e] = payload.columns[e]
    BY <1>2, <2>1
  <2> QED
    BY <1>2, <2>1, <2>3, <2>4 DEF WrongAt
<1>8. /\ DOMAIN changed = 1..n /\ Len(changed) = n /\ n \in 1..n
      /\ \A i \in 1..n : i # n => changed[i] = segments[i]
      /\ changed[n] = Segment("ColumnData", CodecOf(value), <<"Columns", wrong>>)
  <2> DEFINE last == segments[n]
             data == [last.data EXCEPT ![2].columns[c] = bad]
             replaced == [last EXCEPT !.data = data]
  <2>1. n \in 1..n /\ DOMAIN changed = 1..n
    BY <1>3
  <2>2. last.data = <<"Columns", payload>>
    BY <1>3 DEF Segment
  <2>3. data = <<"Columns", wrong>>
    BY <2>2
  <2>4. changed = [segments EXCEPT ![n] = replaced]
    OBVIOUS
  <2> HIDE DEF data, changed
  <2>5. replaced = Segment("ColumnData", CodecOf(value), data)
    BY <1>3 DEF Segment
  <2> HIDE DEF last, replaced
  <2>6. changed[n] = replaced /\ \A i \in 1..n : i # n => changed[i] = segments[i]
    BY <1>3, <2>1, <2>4
  <2>7. Len(changed) = n
    BY <1>3, <2>1
  <2> QED
    BY <2>1, <2>3, <2>5, <2>6, <2>7
<1>9. whole = Container(changed, {})
  BY <1>2
<1> HIDE DEF changed, wrong
<1>10. changed[n].kind = "ColumnData" /\ changed[n].codec = CodecOf(value)
       /\ changed[n].data = <<"Columns", wrong>>
  BY <1>8 DEF Segment
<1>11. \A i \in 1..n : /\ changed[i].kind \in Kinds \ {"Extension"}
                       /\ changed[i].kind = "ColumnData" => i = n
  <2>1. "ColumnData" \in Kinds \ {"Extension"}
    BY DEF Kinds
  <2> QED
    BY <1>4, <1>8, <1>10, <2>1
<1>12. Sound(changed)
  BY <1>3, <1>8, <1>11 DEF Sound
<1>13. /\ parse_container(whole) = Ok(entries) /\ Len(entries) = n
       /\ \A i \in 1..n : /\ entries[i].kind = changed[i].kind
                          /\ entries[i].codec = changed[i].codec
                          /\ segment_slice(whole, entries[i]) = changed[i].data
  <2>1. {} \subseteq Hashes
    OBVIOUS
  <2> QED
    BY <1>8, <1>9, <1>12, <2>1, ContainerParses
<1> HIDE DEF entries
<1>14. /\ \A i \in 1..n : entries[i].kind = "ColumnData" => i = n
       /\ entries[n].kind = "ColumnData" /\ entries[n].codec = CodecOf(value)
       /\ segment_slice(whole, entries[n]) = <<"Columns", wrong>>
  BY <1>8, <1>10, <1>11, <1>13
<1> QED
  BY <1>3, <1>7, <1>8, <1>13, <1>14 DEF n, segments, payload

\* A file with a wrong column cannot be decoded, and the fast paths read the
\* other columns right.
LEMMA WrongFile ==
  ASSUME NEW whole, NEW value, IsValue(value), WrongColumns(whole, value)
  PROVE  ~IsOk(decode_binary(whole)) /\ PathsAgree(whole, Stored(value))
<1> DEFINE n == Len(Segments(value))
           payload == ColumnsOf(value)
           codec == CodecOf(value)
           decoded == decode_binary(whole)
           stored == Stored(value)
<1>1. PICK entries, wrong, at :
        /\ parse_container(whole) = Ok(entries) /\ Len(entries) = n /\ n \in Nat
        /\ WrongAt(wrong, payload, at)
        /\ \A i \in 1..n : entries[i].kind = "ColumnData" => i = n
        /\ entries[n].kind = "ColumnData" /\ entries[n].codec = codec
        /\ segment_slice(whole, entries[n]) = <<"Columns", wrong>> /\ n \in 1..n
  BY WrongParsed
<1>2. /\ Whole(payload) /\ codec \in {1, 2}
      /\ codec = 1 => stored = RowsOf(payload)
      /\ codec = 2 => stored = TableOf(payload)
  <2>1. InColumnsOf(value)
    BY DEF WrongColumns
  <2> QED
    BY <2>1, StoredByColumns
<1>3. /\ ~IsOk(decode_columnar_event_batch(wrong)) /\ ~IsOk(decode_columnar_table(wrong))
      /\ \A field : IsOk(extract_event_batch_field_column(wrong, field))
                      => extract_event_batch_field_column(wrong, field)
                           = extract_event_batch_field_column(payload, field)
      /\ \A name, rhs : IsOk(scan_table_column_numeric_gt(wrong, name, rhs))
                          => scan_table_column_numeric_gt(wrong, name, rhs)
                               = scan_table_column_numeric_gt(payload, name, rhs)
  BY <1>1, <1>2, WrongReads
<1>4. Got(parse_container(whole)) = entries /\ IsOk(parse_container(whole))
  BY <1>1 DEF Got, IsOk, Ok
<1> HIDE DEF n, payload, codec, decoded, stored
<1>5. ~IsOk(decoded)
  <2> DEFINE k == FirstOfKind(entries, "ColumnData")
  <2>1. k = n /\ n # 0
    BY <1>1, FirstPasses
  <2>2. IsOk(decoded)
          => decoded = DecodeColumns(segment_slice(whole, entries[k]), entries[k].codec)
    BY <1>1, <2>1, DecodeUnfolds DEF decoded
  <2> HIDE DEF k
  <2>3. IsOk(decoded) => decoded = DecodeColumns(<<"Columns", wrong>>, codec)
    BY <1>1, <2>1, <2>2
  <2>4. \A data : data = <<"Columns", wrong>> =>
          /\ codec = 1 => DecodeColumns(data, codec) = decode_columnar_event_batch(wrong)
          /\ codec = 2 => DecodeColumns(data, codec) = decode_columnar_table(wrong)
    BY DEF DecodeColumns, InColumns
  <2> QED
    BY <1>2, <1>3, <2>3, <2>4
<1>6. ASSUME NEW c
      PROVE  Agrees(decode_hot_field_values(whole, c), Ok(FieldOf(stored, c)), decoded)
  <2> DEFINE answer == decode_hot_field_values(whole, c)
             k == ColumnSegment(entries, 1)
  <2>1. answer = IF k # 0
                 THEN InColumns(segment_slice(whole, entries[k]),
                                LAMBDA p : extract_event_batch_field_column(p, c))
                 ELSE IF IsOk(decoded) THEN Ok(FieldOf(Got(decoded), c)) ELSE decoded
    BY <1>4, Zenon DEF decode_hot_field_values, decoded
  <2>2. k # 0 => k = n /\ codec = 1
    BY <1>1, FirstPasses
  <2> HIDE DEF answer, k
  <2>3. CASE k # 0
    <3>1. answer = extract_event_batch_field_column(wrong, c)
      BY <1>1, <2>1, <2>2, <2>3 DEF InColumns
    <3>2. extract_event_batch_field_column(payload, c) = Ok(FieldOf(stored, c))
      BY <1>2, <2>2, <2>3, WholeExtract
    <3> QED
      BY <1>3, <1>5, <3>1, <3>2 DEF Agrees, answer
  <2>4. CASE k = 0
    BY <1>5, <2>1, <2>4 DEF Agrees, answer
  <2> QED
    BY <2>3, <2>4
<1>7. ASSUME NEW c, NEW r, NumbersIn(stored, c)
      PROVE  Agrees(scan_table_numeric_gt(whole, c, r), ScanTable(stored, c, r), decoded)
  <2> DEFINE answer == scan_table_numeric_gt(whole, c, r)
             k == ColumnSegment(entries, 2)
  <2>1. answer = IF k # 0
                 THEN InColumns(segment_slice(whole, entries[k]),
                                LAMBDA p : scan_table_column_numeric_gt(p, c, r))
                 ELSE IF IsOk(decoded) THEN ScanTable(Got(decoded), c, r) ELSE decoded
    BY <1>4, Zenon DEF scan_table_numeric_gt, decoded
  <2>2. k # 0 => k = n /\ codec = 2
    BY <1>1, FirstPasses
  <2> HIDE DEF answer, k
  <2>3. CASE k # 0
    <3>1. answer = scan_table_column_numeric_gt(wrong, c, r)
      BY <1>1, <2>1, <2>2, <2>3 DEF InColumns
    <3>2. scan_table_column_numeric_gt(payload, c, r) = ScanTable(stored, c, r)
      BY <1>2, <1>7, <2>2, <2>3, WholeScan
    <3> QED
      BY <1>3, <1>5, <3>1, <3>2 DEF Agrees, answer
  <2>4. CASE k = 0
    BY <1>5, <2>1, <2>4 DEF Agrees, answer
  <2> QED
    BY <2>3, <2>4
<1>8. (IF IsOk(decoded) THEN Got(decoded) ELSE stored) = stored
  BY <1>5
<1> QED
  BY <1>5, <1>6, <1>7, <1>8, Zenon DEF PathsAgree, decoded, stored
-----------------------------------------------------------------------------
(***************************************************************************)
(* Damage.                                                                 *)
(***************************************************************************)
\* A file as the encoder makes it.
FreshFile(whole, value, hashes) ==
  LET segments == Segments(value)
      n == Len(segments)
  IN  /\ whole = [magic |-> whole.magic, version |-> whole.version, flags |-> hashes,
                  hashes |-> hashes, size |-> whole.size, total |-> whole.total, count |-> n,
                  entries |-> whole.entries, segments |-> whole.segments,
                  plausible |-> whole.plausible]
      /\ whole.entries = [i \in 1..n |->
                            [kind |-> segments[i].kind, codec |-> segments[i].codec,
                             required |-> FALSE, place |-> i, sum |-> segments[i].data]]
      /\ whole.segments = [i \in 1..n |-> segments[i].data]

\* The encoder makes such files.
LEMMA EncodedFresh ==
  ASSUME NEW value, NEW hashes
  PROVE  FreshFile(encode_binary(value, hashes), value, hashes)
<1> DEFINE whole == encode_binary(value, hashes)
           n == Len(Segments(value))
<1>1. DOMAIN Segments(value) = 1..n
  BY SegmentFacts
<1>2. whole = Container(Segments(value), hashes)
  BY DEF encode_binary
<1> HIDE DEF whole
<1>3. whole = [magic |-> whole.magic, version |-> whole.version, flags |-> hashes,
               hashes |-> hashes, size |-> whole.size, total |-> whole.total, count |-> n,
               entries |-> whole.entries, segments |-> whole.segments,
               plausible |-> whole.plausible]
  BY <1>2 DEF Container
<1>4. /\ whole.entries = [i \in DOMAIN Segments(value) |->
                            [kind |-> Segments(value)[i].kind, codec |-> Segments(value)[i].codec,
                             required |-> FALSE, place |-> i, sum |-> Segments(value)[i].data]]
      /\ whole.segments = [i \in DOMAIN Segments(value) |-> Segments(value)[i].data]
  BY <1>2 DEF Container
<1> QED
  BY <1>1, <1>3, <1>4 DEF FreshFile, whole

\* The slots of the hashes are a number.
LEMMA SlotsCount == ASSUME NEW hashes \in SUBSET Hashes PROVE HashSlots(hashes) \in Int
<1>1. IsFiniteSet({"schema"}) /\ IsFiniteSet({"schema"} \cup {"logical"})
  BY FS_Singleton, FS_AddElement
<1>2. Hashes = {"schema"} \cup {"logical"}
  BY DEF Hashes
<1>3. Cardinality(hashes) \in Nat
  BY <1>1, <1>2, FS_Subset, FS_CardinalityType
<1> QED
  BY <1>3 DEF HashSlots

\* With the table as it was, only the header can be wrong.
LEMMA TableFollows ==
  ASSUME NEW whole, NEW value, NEW hashes \in SUBSET Hashes, FreshFile(whole, value, hashes),
         NEW damaged, damaged.entries = whole.entries, damaged.count \in Nat,
         damaged.hashes = hashes, damaged.flags \in SUBSET Hashes,
         NEW problem, problem \notin {"sum", "bytes"},
         problem \notin Losing => damaged.count = whole.count /\ damaged.flags = hashes
  PROVE  Follows(damaged, value, problem)
<1> DEFINE segments == Segments(value)
           n == Len(segments)
<1>1. n \in Nat
  BY SegmentFacts
<1>2. /\ whole.count = n
      /\ whole.entries = [i \in 1..n |->
                            [kind |-> segments[i].kind, codec |-> segments[i].codec,
                             required |-> FALSE, place |-> i, sum |-> segments[i].data]]
  BY DEF FreshFile
<1> HIDE DEF n, segments
<1>3. /\ DOMAIN damaged.entries = 1..n
      /\ \A i \in 1..n : /\ damaged.entries[i].kind = segments[i].kind
                         /\ damaged.entries[i].codec = segments[i].codec
                         /\ damaged.entries[i].sum = segments[i].data
  BY <1>2
<1>4. IsFile(damaged, n)
  <2>1. HashSlots(damaged.flags) \in Int /\ HashSlots(damaged.hashes) \in Int
    BY SlotsCount
  <2> QED
    BY <1>1, <1>3, <2>1 DEF IsFile
<1> QED
  BY <1>2, <1>3, <1>4 DEF Follows, n, segments

\* With one entry not as it was, what was said of the others holds.
LEMMA EntryFollows ==
  ASSUME NEW whole, NEW value, NEW hashes \in SUBSET Hashes, FreshFile(whole, value, hashes),
         NEW i \in 1..Len(Segments(value)), NEW entry, NEW damaged,
         damaged.entries = [whole.entries EXCEPT ![i] = entry],
         damaged.segments = whole.segments, damaged.count = whole.count,
         damaged.hashes = hashes, damaged.flags = hashes,
         NEW problem, problem # "bytes",
         problem # "kind" => entry.kind = whole.entries[i].kind,
         problem # "codec" => entry.codec = whole.entries[i].codec,
         problem # "sum" => entry.sum = whole.entries[i].sum,
         problem = "sum" => entry.place = i /\ entry.sum # whole.segments[i]
  PROVE  Follows(damaged, value, problem)
<1> DEFINE segments == Segments(value)
           n == Len(segments)
<1>1. n \in Nat
  BY SegmentFacts
<1>2. /\ whole.count = n
      /\ whole.entries = [j \in 1..n |->
                            [kind |-> segments[j].kind, codec |-> segments[j].codec,
                             required |-> FALSE, place |-> j, sum |-> segments[j].data]]
  BY DEF FreshFile
<1>3. i \in 1..n
  OBVIOUS
<1> HIDE DEF n, segments
<1>4. /\ DOMAIN damaged.entries = 1..n /\ damaged.entries[i] = entry
      /\ \A j \in 1..n : j # i => damaged.entries[j] = whole.entries[j]
  BY <1>2, <1>3
<1>5. \A j \in 1..n : /\ whole.entries[j].kind = segments[j].kind
                      /\ whole.entries[j].codec = segments[j].codec
                      /\ whole.entries[j].sum = segments[j].data
  BY <1>2
<1>6. \A j \in 1..n : /\ problem # "kind" => damaged.entries[j].kind = segments[j].kind
                      /\ problem # "codec" => damaged.entries[j].codec = segments[j].codec
                      /\ problem # "sum" => damaged.entries[j].sum = segments[j].data
  BY <1>3, <1>4, <1>5
<1>7. IsFile(damaged, n)
  <2>1. HashSlots(damaged.flags) \in Int /\ HashSlots(damaged.hashes) \in Int
    BY SlotsCount
  <2> QED
    BY <1>1, <1>2, <1>4, <2>1 DEF IsFile
<1>8. problem = "sum" => segment_slice(damaged, damaged.entries[i]) # damaged.entries[i].sum
  <2>1. i # 0
    BY <1>1, <1>3
  <2> QED
    BY <1>4, <2>1 DEF segment_slice
<1> QED
  BY <1>2, <1>3, <1>6, <1>7, <1>8 DEF Follows, n, segments

\* The same but for the bytes of one segment.
OtherBytes(damaged, whole, hashes, i, bytes) ==
  /\ damaged.entries = whole.entries
  /\ damaged.segments = [whole.segments EXCEPT ![i] = bytes] /\ damaged.count = whole.count
  /\ damaged.hashes = hashes /\ damaged.flags = hashes

\* With other bytes in a segment its checksum fails.
LEMMA BytesFollow ==
  ASSUME NEW whole, NEW value, NEW hashes \in SUBSET Hashes, FreshFile(whole, value, hashes),
         NEW i \in 1..Len(Segments(value)), NEW bytes, bytes # whole.segments[i], NEW damaged,
         OtherBytes(damaged, whole, hashes, i, bytes)
  PROVE  Follows(damaged, value, "bytes")
<1> DEFINE segments == Segments(value)
           n == Len(segments)
<1>1. n \in Nat
  BY SegmentFacts
<1>2. /\ whole.count = n
      /\ whole.entries = [j \in 1..n |->
                            [kind |-> segments[j].kind, codec |-> segments[j].codec,
                             required |-> FALSE, place |-> j, sum |-> segments[j].data]]
      /\ whole.segments = [j \in 1..n |-> segments[j].data]
  BY DEF FreshFile
<1>3. i \in 1..n
  OBVIOUS
<1>0. /\ damaged.entries = whole.entries
      /\ damaged.segments = [whole.segments EXCEPT ![i] = bytes] /\ damaged.count = whole.count
      /\ damaged.hashes = hashes /\ damaged.flags = hashes
  BY DEF OtherBytes
<1> HIDE DEF n, segments
<1>4. /\ DOMAIN damaged.entries = 1..n
      /\ \A j \in 1..n : /\ damaged.entries[j].kind = segments[j].kind
                         /\ damaged.entries[j].codec = segments[j].codec
                         /\ damaged.entries[j].sum = segments[j].data
                         /\ damaged.entries[j].place = j
  BY <1>0, <1>2
<1>5. IsFile(damaged, n)
  <2>1. HashSlots(damaged.flags) \in Int /\ HashSlots(damaged.hashes) \in Int
    BY <1>0, SlotsCount
  <2> QED
    BY <1>0, <1>1, <1>2, <1>4, <2>1 DEF IsFile
<1>6. segment_slice(damaged, damaged.entries[i]) # damaged.entries[i].sum
  <2>1. i # 0
    BY <1>1, <1>3
  <2>2. damaged.segments[i] = bytes /\ whole.segments[i] = segments[i].data
    BY <1>0, <1>2, <1>3
  <2> QED
    BY <1>3, <1>4, <2>1, <2>2 DEF segment_slice
<1> QED
  BY <1>0, <1>2, <1>3, <1>4, <1>5, <1>6 DEF Follows, n, segments

\* The fields of a file.
LEMMA FreshRecord ==
  ASSUME NEW whole, NEW value, NEW hashes, FreshFile(whole, value, hashes)
  PROVE  whole = [magic |-> whole.magic, version |-> whole.version, flags |-> hashes,
                  hashes |-> hashes, size |-> whole.size, total |-> whole.total,
                  count |-> whole.count, entries |-> whole.entries, segments |-> whole.segments,
                  plausible |-> whole.plausible]
<1> QED
  BY DEF FreshFile

\* The same table, segments and hashes, with this count and these flags.
SameTable(other, whole, hashes, count, flags) ==
  /\ other.entries = whole.entries /\ other.segments = whole.segments
  /\ other.count = count /\ other.flags = flags /\ other.hashes = hashes

\* What a header keeps when one of its other fields is changed.
LEMMA HeaderKept ==
  ASSUME NEW whole, NEW value, NEW hashes, FreshFile(whole, value, hashes), NEW x, NEW other,
         \/ other = [whole EXCEPT !.magic = x] \/ other = [whole EXCEPT !.version = x]
         \/ other = [whole EXCEPT !.total = x] \/ other = [whole EXCEPT !.size = x]
  PROVE  SameTable(other, whole, hashes, whole.count, hashes)
<1> QED
  BY FreshRecord DEF SameTable

\* The same for the flags and for the count, read either way.
LEMMA FlagsKept ==
  ASSUME NEW whole, NEW value, NEW hashes, FreshFile(whole, value, hashes), NEW x,
         NEW other \in Reads([whole EXCEPT !.flags = x])
  PROVE  SameTable(other, whole, hashes, whole.count, x)
<1> DEFINE once == [whole EXCEPT !.flags = x]
<1>1. once = [magic |-> whole.magic, version |-> whole.version, flags |-> x, hashes |-> hashes,
             size |-> whole.size, total |-> whole.total, count |-> whole.count,
             entries |-> whole.entries, segments |-> whole.segments, plausible |-> whole.plausible]
  BY FreshRecord
<1>2. other = once \/ other = [once EXCEPT !.plausible = TRUE]
  BY DEF Reads
<1> HIDE DEF once
<1>3. CASE other = once
  BY <1>1, <1>3 DEF SameTable
<1>4. CASE other = [once EXCEPT !.plausible = TRUE]
  BY <1>1, <1>4 DEF SameTable
<1> QED
  BY <1>2, <1>3, <1>4

\* The same for the count.
LEMMA CountKept ==
  ASSUME NEW whole, NEW value, NEW hashes, FreshFile(whole, value, hashes), NEW x,
         NEW other \in Reads([whole EXCEPT !.count = x])
  PROVE  SameTable(other, whole, hashes, x, hashes)
<1> DEFINE once == [whole EXCEPT !.count = x]
<1>1. once = [magic |-> whole.magic, version |-> whole.version, flags |-> hashes, hashes |-> hashes,
             size |-> whole.size, total |-> whole.total, count |-> x,
             entries |-> whole.entries, segments |-> whole.segments, plausible |-> whole.plausible]
  BY FreshRecord
<1>2. other = once \/ other = [once EXCEPT !.plausible = TRUE]
  BY DEF Reads
<1> HIDE DEF once
<1>3. CASE other = once
  BY <1>1, <1>3 DEF SameTable
<1>4. CASE other = [once EXCEPT !.plausible = TRUE]
  BY <1>1, <1>4 DEF SameTable
<1> QED
  BY <1>2, <1>3, <1>4

\* Other entries leave the rest as it was.
LEMMA EntriesReplaced ==
  ASSUME NEW whole, NEW value, NEW hashes, FreshFile(whole, value, hashes), NEW x,
         NEW other \in Reads([whole EXCEPT !.entries = x])
  PROVE  /\ other.entries = x /\ other.segments = whole.segments
         /\ other.count = whole.count /\ other.flags = hashes /\ other.hashes = hashes
<1> DEFINE once == [whole EXCEPT !.entries = x]
<1>1. once = [magic |-> whole.magic, version |-> whole.version, flags |-> hashes, hashes |-> hashes,
             size |-> whole.size, total |-> whole.total, count |-> whole.count,
             entries |-> x, segments |-> whole.segments, plausible |-> whole.plausible]
  BY FreshRecord
<1>2. other = once \/ other = [once EXCEPT !.plausible = TRUE]
  BY DEF Reads
<1> HIDE DEF once
<1>3. CASE other = once
  BY <1>1, <1>3
<1>4. CASE other = [once EXCEPT !.plausible = TRUE]
  BY <1>1, <1>4
<1> QED
  BY <1>2, <1>3, <1>4

\* Other segments leave the rest as it was.
LEMMA SegmentsReplaced ==
  ASSUME NEW whole, NEW value, NEW hashes, FreshFile(whole, value, hashes), NEW x
  PROVE  LET other == [whole EXCEPT !.segments = x]
         IN  /\ other.entries = whole.entries /\ other.segments = x
             /\ other.count = whole.count /\ other.flags = hashes /\ other.hashes = hashes
<1> QED
  BY FreshRecord

\* Damage to the header leaves a file with that wrong.
LEMMA HeaderDamaged ==
  ASSUME NEW hashes \in SUBSET Hashes, FreshFile(file, written, hashes),
         NEW where \in {"magic", "version", "flags", "total", "count", "size"},
         NEW damaged \in InHeader(where)
  PROVE  Follows(damaged, written, where)
<1>1. file.count \in Nat
  <2>1. file.count = Len(Segments(written))
    BY DEF FreshFile
  <2> QED
    BY <2>1, SegmentFacts
<1>2. CASE where \in {"magic", "version", "total", "size"}
  <2>1. SameTable(damaged, file, hashes, file.count, hashes)
    <3>1. CASE where = "magic"
      <4>1. damaged = [file EXCEPT !.magic = FALSE]
        BY <3>1 DEF InHeader
      <4> QED
        BY <4>1, HeaderKept
    <3>2. CASE where = "version"
      <4>1. PICK x : damaged = [file EXCEPT !.version = x]
        BY <3>2 DEF InHeader
      <4> QED
        BY <4>1, HeaderKept
    <3>3. CASE where = "total"
      <4>1. PICK x : damaged = [file EXCEPT !.total = x]
        BY <3>3 DEF InHeader
      <4> QED
        BY <4>1, HeaderKept
    <3>4. CASE where = "size"
      <4>1. PICK x : damaged = [file EXCEPT !.size = x]
        BY <3>4 DEF InHeader
      <4> QED
        BY <4>1, HeaderKept
    <3> QED
      BY <1>2, <3>1, <3>2, <3>3, <3>4
  <2>2. where \notin {"sum", "bytes"}
    BY <1>2
  <2> QED
    BY <1>1, <2>1, <2>2, TableFollows DEF SameTable
<1>3. CASE where = "flags"
  <2>1. PICK h \in SUBSET Hashes : damaged \in Reads([file EXCEPT !.flags = h])
    BY <1>3 DEF InHeader
  <2>2. SameTable(damaged, file, hashes, file.count, h)
    BY <2>1, FlagsKept
  <2>3. where \notin {"sum", "bytes"} /\ where \in Losing
    BY <1>3 DEF Losing
  <2> QED
    BY <1>1, <2>2, <2>3, TableFollows DEF SameTable
<1>4. CASE where = "count"
  <2>1. PICK n \in 0..(file.count + 2) : damaged \in Reads([file EXCEPT !.count = n])
    BY <1>4 DEF InHeader
  <2>2. SameTable(damaged, file, hashes, n, hashes)
    BY <2>1, CountKept
  <2>3. where \notin {"sum", "bytes"} /\ where \in Losing
    BY <1>4 DEF Losing
  <2>4. n \in Nat
    BY <1>1
  <2> QED
    BY <2>2, <2>3, <2>4, TableFollows DEF SameTable
<1> QED
  BY <1>2, <1>3, <1>4

\* Damage to an entry or to a segment leaves a file with that wrong.
LEMMA SegmentDamaged ==
  ASSUME NEW hashes \in SUBSET Hashes, FreshFile(file, written, hashes),
         NEW i \in DOMAIN file.entries,
         NEW where \in {"kind", "codec", "required", "place", "sum", "bytes"},
         NEW damaged \in InSegment(where, i), damaged # file
  PROVE  Follows(damaged, written, where)
<1> DEFINE segments == Segments(written)
           n == Len(segments)
           entry == file.entries[i]
           With(e) == [file EXCEPT !.entries = [file.entries EXCEPT ![i] = e]]
<1>1. /\ file.entries = [j \in 1..n |->
                           [kind |-> segments[j].kind, codec |-> segments[j].codec,
                            required |-> FALSE, place |-> j, sum |-> segments[j].data]]
      /\ file.segments = [j \in 1..n |-> segments[j].data]
  BY DEF FreshFile
<1> HIDE DEF segments, n
<1>2. i \in 1..n
  BY <1>1
<1>3. /\ entry = [kind |-> entry.kind, codec |-> entry.codec, required |-> FALSE,
                  place |-> i, sum |-> entry.sum]
      /\ entry.sum = segments[i].data /\ file.segments[i] = segments[i].data
  <2>1. entry = [kind |-> segments[i].kind, codec |-> segments[i].codec, required |-> FALSE,
                 place |-> i, sum |-> segments[i].data]
    BY <1>1, <1>2
  <2>2. file.segments[i] = segments[i].data
    BY <1>1, <1>2
  <2> HIDE DEF entry
  <2> QED
    BY <2>1, <2>2
<1>4. ASSUME NEW e, damaged \in Reads(With(e)), where # "bytes",
             where # "kind" => e.kind = entry.kind,
             where # "codec" => e.codec = entry.codec,
             where # "sum" => e.sum = entry.sum,
             where = "sum" => e.place = i /\ e.sum # file.segments[i]
      PROVE  Follows(damaged, written, where)
  <2>1. /\ damaged.entries = [file.entries EXCEPT ![i] = e]
        /\ damaged.segments = file.segments /\ damaged.count = file.count
        /\ damaged.flags = hashes /\ damaged.hashes = hashes
    BY <1>4, EntriesReplaced
  <2> QED
    BY <1>2, <1>4, <2>1, EntryFollows DEF n, segments
<1>5. \A e : With(e) \in Reads(With(e))
  BY DEF Reads
<1>6. CASE where = "kind"
  <2>1. PICK k : damaged \in Reads([file EXCEPT !.entries[i].kind = k])
    BY <1>6 DEF InSegment
  <2> DEFINE e == [entry EXCEPT !.kind = k]
  <2>2. damaged \in Reads(With(e))
    BY <2>1
  <2>3. e.codec = entry.codec /\ e.sum = entry.sum
    BY <1>3
  <2> HIDE DEF e, With
  <2> QED
    BY <1>4, <1>6, <2>2, <2>3
<1>7. CASE where = "codec"
  <2>1. PICK k : damaged = [file EXCEPT !.entries[i].codec = k]
    BY <1>7 DEF InSegment
  <2> DEFINE e == [entry EXCEPT !.codec = k]
  <2>2. damaged = With(e)
    BY <2>1
  <2>3. e.kind = entry.kind /\ e.sum = entry.sum
    BY <1>3
  <2> HIDE DEF e, With
  <2> QED
    BY <1>4, <1>5, <1>7, <2>2, <2>3
<1>8. CASE where = "required"
  <2>1. damaged = [file EXCEPT !.entries[i].required = TRUE]
    BY <1>8 DEF InSegment
  <2> DEFINE e == [entry EXCEPT !.required = TRUE]
  <2>2. damaged = With(e)
    BY <2>1
  <2>3. e.kind = entry.kind /\ e.codec = entry.codec /\ e.sum = entry.sum
    BY <1>3
  <2> HIDE DEF e, With
  <2> QED
    BY <1>4, <1>5, <1>8, <2>2, <2>3
<1>9. CASE where = "place"
  <2>1. PICK k : damaged = [file EXCEPT !.entries[i].place = k]
    BY <1>9 DEF InSegment
  <2> DEFINE e == [entry EXCEPT !.place = k]
  <2>2. damaged = With(e)
    BY <2>1
  <2>3. e.kind = entry.kind /\ e.codec = entry.codec /\ e.sum = entry.sum
    BY <1>3
  <2> HIDE DEF e, With
  <2> QED
    BY <1>4, <1>5, <1>9, <2>2, <2>3
<1>10. /\ file = [file EXCEPT !.entries = file.entries]
       /\ file = [file EXCEPT !.segments = file.segments]
  BY FreshRecord
<1>11. CASE where = "sum"
  <2>1. damaged = [file EXCEPT !.entries[i].sum = Garbled]
    BY <1>11 DEF InSegment
  <2> DEFINE e == [entry EXCEPT !.sum = Garbled]
  <2>2. damaged = With(e)
    BY <2>1
  <2>3. /\ e.kind = entry.kind /\ e.codec = entry.codec /\ e.sum = Garbled /\ e.place = i
        /\ entry.sum = Garbled => e = entry
    BY <1>3
  <2>4. e # entry
    <3>1. [file.entries EXCEPT ![i] = entry] = file.entries
      BY <1>1, <1>2
    <3>2. With(entry) = file
      BY <1>10, <3>1
    <3> HIDE DEF e, entry, With
    <3> QED
      BY <2>2, <3>2
  <2>5. e.sum # file.segments[i]
    BY <1>3, <2>3, <2>4
  <2> HIDE DEF e, With
  <2> QED
    BY <1>4, <1>5, <1>11, <2>2, <2>3, <2>5
<1>12. CASE where = "bytes"
  <2> DEFINE bytes == Altered(file.segments[i])
  <2>1. damaged = [file EXCEPT !.segments[i] = Altered(@)]
    BY <1>12 DEF InSegment
  <2>2. damaged = [file EXCEPT !.segments = [file.segments EXCEPT ![i] = bytes]]
    BY <2>1
  <2> HIDE DEF bytes
  <2>3. bytes # file.segments[i]
    <3>1. [file.segments EXCEPT ![i] = file.segments[i]] = file.segments
      BY <1>1, <1>2
    <3> QED
      BY <1>10, <2>2, <3>1
  <2>4. /\ damaged.entries = file.entries
        /\ damaged.segments = [file.segments EXCEPT ![i] = bytes]
        /\ damaged.count = file.count /\ damaged.flags = hashes /\ damaged.hashes = hashes
    BY <2>2, SegmentsReplaced
  <2>5. Follows(damaged, written, "bytes")
    <3>1. OtherBytes(damaged, file, hashes, i, bytes)
      BY <2>4 DEF OtherBytes
    <3> QED
      BY <1>2, <2>3, <3>1, BytesFollow DEF n, segments
  <2> QED
    BY <1>12, <2>5
<1> QED
  BY <1>6, <1>7, <1>8, <1>9, <1>11, <1>12
-----------------------------------------------------------------------------
(***************************************************************************)
(* Whatever the file has suffered.                                         *)
(***************************************************************************)
\* A damaged file is as it was written but for one thing.
Suffered(whole, value, problem) ==
  /\ problem = "column" => WrongColumns(whole, value)
  /\ problem \notin {NoFault, "column"} => Follows(whole, value, problem)

DamageInvariant == FileInvariant /\ Suffered(file, written, fault)

\* It is so at the start.
LEMMA DamageStarts == Init => DamageInvariant
<1> SUFFICES ASSUME Init PROVE DamageInvariant
  OBVIOUS
<1>1. FileInvariant
  BY FileStarts
<1>2. fault = NoFault /\ NoFault # "column"
  BY DEF Init, NoFault
<1> QED
  BY <1>1, <1>2 DEF DamageInvariant, Suffered

\* Damage to an undamaged file leaves one thing wrong in it.
LEMMA DamageDone == ASSUME FileInvariant, Damage PROVE Suffered(file', written', fault')
<1>1. fault = NoFault /\ Exists /\ written' = written
  BY DEF Damage
<1>2. PICK hashes \in SUBSET Hashes : file = encode_binary(written, hashes)
  BY <1>1 DEF FileInvariant
<1>3. FreshFile(file, written, hashes)
  BY <1>2, EncodedFresh
<1>4. CASE \E where \in {"magic", "version", "flags", "total", "count", "size"} :
             file' \in InHeader(where) \ {file} /\ fault' = where
  <2>1. PICK where \in {"magic", "version", "flags", "total", "count", "size"} :
          file' \in InHeader(where) \ {file} /\ fault' = where
    BY <1>4
  <2>2. Follows(file', written, where)
    BY <1>3, <2>1, HeaderDamaged
  <2>3. fault' # "column"
    BY <2>1
  <2> QED
    BY <1>1, <2>1, <2>2, <2>3 DEF Suffered
<1>5. CASE \E i \in DOMAIN file.entries :
             \E where \in {"kind", "codec", "required", "place", "sum", "bytes"} :
               file' \in InSegment(where, i) \ {file} /\ fault' = where
  <2>1. PICK i \in DOMAIN file.entries :
          \E where \in {"kind", "codec", "required", "place", "sum", "bytes"} :
            file' \in InSegment(where, i) \ {file} /\ fault' = where
    BY <1>5
  <2>2. PICK where \in {"kind", "codec", "required", "place", "sum", "bytes"} :
          file' \in InSegment(where, i) \ {file} /\ fault' = where
    BY <2>1
  <2>3. Follows(file', written, where)
    BY <1>3, <2>2, SegmentDamaged
  <2>4. fault' # "column"
    BY <2>2
  <2> QED
    BY <1>1, <2>2, <2>3, <2>4 DEF Suffered
<1> QED
  BY <1>4, <1>5 DEF Damage

\* An encoder that gets a column wrong gets one column of what is held wrong.
LEMMA WrongDone == ASSUME FileInvariant, WriteWrong PROVE Suffered(file', written', fault')
<1> DEFINE segments == Segments(held)
           n == Len(segments)
           payload == ColumnsOf(held)
<1>1. /\ fault = NoFault /\ written' = held /\ fault' = "column"
      /\ segments[n].kind = "ColumnData"
      /\ \E c \in DOMAIN segments[n].data[2].columns :
           \E column \in Miswritten(segments[n].data[2].columns[c]) :
             file' = Container([segments EXCEPT ![n].data[2].columns[c] = column], {})
  BY DEF WriteWrong
<1>2. InColumnsOf(held) /\ segments[n].data = <<"Columns", payload>>
  <2>1. /\ n \in Nat /\ n >= 3
        /\ \A i \in 1..n : segments[i].kind = "ColumnData" => InColumnsOf(held)
        /\ InColumnsOf(held) => segments[n].data = <<"Columns", payload>>
    BY SegmentFacts
  <2> HIDE DEF n, segments, payload
  <2>2. n \in 1..n
    BY <2>1
  <2> QED
    BY <1>1, <2>1, <2>2
<1>3. segments[n].data[2] = payload
  BY <1>2
<1>4. WrongColumns(file', held)
  <2>1. \E c \in DOMAIN payload.columns :
          \E column \in Miswritten(payload.columns[c]) :
            file' = Container([segments EXCEPT ![n].data[2].columns[c] = column], {})
    BY <1>1, <1>3
  <2> QED
    BY <1>2, <2>1 DEF WrongColumns
<1>5. fault' \in {NoFault, "column"}
  BY <1>1
<1> QED
  BY <1>1, <1>4, <1>5 DEF Suffered

\* Every step keeps a damaged file as it was written but for one thing.
LEMMA DamageSteps == DamageInvariant /\ [Next]_vars => DamageInvariant'
<1> SUFFICES ASSUME DamageInvariant, [Next]_vars PROVE DamageInvariant'
  OBVIOUS
<1>1. FileInvariant /\ Suffered(file, written, fault)
  BY DEF DamageInvariant
<1>2. FileInvariant'
  BY <1>1, FileSteps
<1>3. ASSUME UNCHANGED <<file, written, fault>> PROVE Suffered(file', written', fault')
  BY <1>1, <1>3
<1>4. ASSUME NEW hashes \in HashChoices, Write(hashes) PROVE Suffered(file', written', fault')
  <2>1. fault' = NoFault /\ NoFault # "column"
    BY <1>4 DEF Write, NoFault
  <2> QED
    BY <2>1 DEF Suffered
<1>5. ASSUME Read PROVE Suffered(file', written', fault')
  BY <1>3, <1>5 DEF Read
<1>6. ASSUME NEW filter \in Filters, Filter(filter) PROVE Suffered(file', written', fault')
  BY <1>3, <1>6 DEF Filter
<1>7. ASSUME NEW names \in Selections, Select(names) PROVE Suffered(file', written', fault')
  BY <1>3, <1>7 DEF Select
<1>8. ASSUME Damage PROVE Suffered(file', written', fault')
  BY <1>1, <1>8, DamageDone
<1>9. ASSUME WriteWrong PROVE Suffered(file', written', fault')
  BY <1>1, <1>9, WrongDone
<1>10. ASSUME UNCHANGED vars PROVE Suffered(file', written', fault')
  BY <1>3, <1>10 DEF vars
<1>11. Suffered(file', written', fault')
  BY <1>4, <1>5, <1>6, <1>7, <1>8, <1>9, <1>10 DEF Next
<1> QED
  BY <1>2, <1>11 DEF DamageInvariant

\* A damaged file is always as it was written but for the one thing that fault
\* names (the segments of encode_binary and the header and the table before them).
THEOREM DamageAlwaysInOnePlace == Spec => []DamageInvariant
<1> QED
  BY DamageStarts, DamageSteps, PTL DEF Spec

\* What an undamaged file says of what was written.
LEMMA IntactSays == FileInvariant => Got(decode_binary(Intact)) = Stored(written)
<1> SUFFICES ASSUME FileInvariant PROVE Got(decode_binary(Intact)) = Stored(written)
  OBVIOUS
<1>1. IsValue(written) /\ {} \subseteq Hashes
  BY DEF FileInvariant
<1>2. decode_binary(Intact) = Ok(Stored(written))
  BY <1>1, FileDecodes DEF Intact
<1> QED
  BY <1>2 DEF Got, Ok

\* With its codec confused, rows come back as the table they make and a table as
\* its rows.
LEMMA CodecSeen ==
  ASSUME NEW value, IsValue(value), InColumnsOf(value),
         NEW result, result = ViewOf(ColumnsOf(value), 3 - CodecOf(value))
  PROVE  /\ result[1] # Stored(value)[1]
         /\ IF Stored(value)[1] = "Table" THEN result[2] = Rows(Stored(value)[2])
            ELSE Rows(result[2]) = Stored(value)[2]
<1> DEFINE payload == ColumnsOf(value)
<1>1. /\ Whole(payload) /\ CodecOf(value) \in {1, 2}
      /\ CodecOf(value) = 1 => Stored(value) = RowsOf(payload)
      /\ CodecOf(value) = 2 => Stored(value) = TableOf(payload)
  BY StoredByColumns
<1>2. Rows(TableOf(payload)[2]) = RowsOf(payload)[2]
  BY <1>1, WholeRows
<1>3. RowsOf(payload)[1] = "Array" /\ TableOf(payload)[1] = "Table"
  BY DEF RowsOf, TableOf
<1> HIDE DEF payload
<1>4. CASE CodecOf(value) = 1
  <2>1. result = TableOf(payload) /\ Stored(value) = RowsOf(payload)
    BY <1>1, <1>4 DEF ViewOf, payload
  <2> QED
    BY <1>2, <1>3, <2>1
<1>5. CASE CodecOf(value) = 2
  <2>1. result = RowsOf(payload) /\ Stored(value) = TableOf(payload)
    BY <1>1, <1>5 DEF ViewOf, payload
  <2> QED
    BY <1>2, <1>3, <2>1
<1> QED
  BY <1>1, <1>4, <1>5

\* Damage in one place is never mistaken for another value, but for a column
\* segment lost from sight, whose placeholder is returned, and for one whose codec
\* is confused, which is read as rows instead of a table or the reverse
\* (parse_container, decode_binary).
THEOREM DamageNeverSilent == Spec => []NoSilentChange
<1>1. DamageInvariant => NoSilentChange
  <2> DEFINE result == decode_binary(file)
             intact == Got(decode_binary(Intact))
             lost == /\ fault \in {"flags", "count", "kind"} /\ ByColumns
                     /\ Got(result) = Marker(IF written[1] = "Table" THEN 2 ELSE 1)
             confused == /\ fault = "codec" /\ ByColumns /\ Got(result)[1] # intact[1]
                         /\ IF intact[1] = "Table" THEN Got(result)[2] = Rows(intact[2])
                            ELSE Rows(Got(result)[2]) = intact[2]
  <2> SUFFICES ASSUME DamageInvariant, fault # NoFault, IsOk(result)
               PROVE  Got(result) = intact \/ lost \/ confused
    BY DEF NoSilentChange
  <2>1. /\ FileInvariant /\ IsValue(written)
        /\ fault = "column" => WrongColumns(file, written)
        /\ fault # "column" => Follows(file, written, fault)
    BY DEF DamageInvariant, Suffered, FileInvariant
  <2>2. intact = Stored(written)
    BY <2>1, IntactSays
  <2>3. ByColumns <=> InColumnsOf(written)
    BY DEF ByColumns, InColumnsOf
  <2>4. fault # "column"
    BY <2>1, WrongFile
  <2>5. \A x : Got(Ok(x)) = x
    BY DEF Got, Ok
  <2>6. \/ result = Ok(Stored(written))
        \/ fault \in Losing /\ InColumnsOf(written) /\ result = Ok(Marker(CodecOf(written)))
        \/ /\ fault = "codec" /\ InColumnsOf(written)
           /\ result = Ok(ViewOf(ColumnsOf(written), 3 - CodecOf(written)))
    BY <2>1, <2>4, DamageSeen
  <2>7. CASE result = Ok(Stored(written))
    BY <2>2, <2>5, <2>7
  <2>8. CASE fault \in Losing /\ InColumnsOf(written) /\ result = Ok(Marker(CodecOf(written)))
    <3>1. lost
      BY <2>3, <2>5, <2>8 DEF Losing, CodecOf
    <3> QED
      BY <3>1
  <2>9. CASE /\ fault = "codec" /\ InColumnsOf(written)
             /\ result = Ok(ViewOf(ColumnsOf(written), 3 - CodecOf(written)))
    <3> DEFINE view == ViewOf(ColumnsOf(written), 3 - CodecOf(written))
    <3>1. /\ view[1] # Stored(written)[1]
          /\ IF Stored(written)[1] = "Table" THEN view[2] = Rows(Stored(written)[2])
             ELSE Rows(view[2]) = Stored(written)[2]
      BY <2>1, <2>9, CodecSeen
    <3>2. Got(result) = view
      BY <2>5, <2>9
    <3> HIDE DEF view, result, intact
    <3>3. confused
      BY <2>2, <2>3, <2>9, <3>1, <3>2
    <3> QED
      BY <3>3
  <2> QED
    BY <2>6, <2>7, <2>8, <2>9
<1> QED
  BY <1>1, DamageAlwaysInOnePlace, PTL

\* Whatever the file has suffered, what the two fast paths answer is what the
\* decoded value says, and what was written says where only they can read it
\* (decode_hot_field_values, scan_table_numeric_gt).
THEOREM FastPathsAlwaysAgree == Spec => []FastPathsAgree
<1>1. ASSUME DamageInvariant, Exists PROVE PathsAgree(file, Stored(written))
  <2>1. /\ IsValue(written)
        /\ fault = "column" => WrongColumns(file, written)
        /\ fault \notin {NoFault, "column"} => Follows(file, written, fault)
        /\ fault = NoFault => \E hashes \in SUBSET Hashes : file = encode_binary(written, hashes)
    BY <1>1 DEF DamageInvariant, Suffered, FileInvariant
  <2>2. CASE fault = "column"
    BY <2>1, <2>2, WrongFile
  <2>3. CASE fault \notin {NoFault, "column"}
    BY <2>1, <2>3, FollowingAgrees
  <2>4. CASE fault = NoFault
    <3>1. PICK hashes \in SUBSET Hashes : file = encode_binary(written, hashes)
      BY <2>1, <2>4
    <3>2. FreshFile(file, written, hashes)
      BY <3>1, EncodedFresh
    <3>3. file.count \in Nat /\ file.flags = hashes /\ file.hashes = hashes
      <4>1. file.count = Len(Segments(written))
        BY <3>2 DEF FreshFile
      <4>2. file.flags = hashes /\ file.hashes = hashes
        BY <3>2, FreshRecord
      <4> QED
        BY <4>1, <4>2, SegmentFacts
    <3>4. Follows(file, written, NoFault)
      <4>1. NoFault \notin {"sum", "bytes"}
        BY DEF NoFault
      <4> QED
        BY <3>2, <3>3, <4>1, TableFollows
    <3> QED
      BY <2>1, <3>4, FollowingAgrees
  <2> QED
    BY <2>2, <2>3, <2>4
<1>2. ASSUME DamageInvariant PROVE FastPathsAgree
  <2> DEFINE decoded == decode_binary(file)
             value == IF IsOk(decoded) THEN Got(decoded) ELSE Got(decode_binary(Intact))
             Same(answer, expected) ==
               IF IsOk(answer) THEN answer = expected ELSE IsOk(decoded) => answer = expected
             Numbers(c) ==
               value[1] = "Table" /\ c \in DOMAIN value[2]
                 => \A i \in DOMAIN value[2][c].cells : value[2][c].cells[i][1] \in Numeric
  <2> SUFFICES ASSUME Exists
               PROVE  \A c \in Names :
                        /\ Same(decode_hot_field_values(file, c), Ok(FieldOf(value, c)))
                        /\ \A n \in 0..1 : Numbers(c) =>
                             Same(scan_table_numeric_gt(file, c, n), ScanTable(value, c, n))
    BY DEF FastPathsAgree
  <2>1. PathsAgree(file, Stored(written))
    BY <1>1, <1>2
  <2>2. Got(decode_binary(Intact)) = Stored(written)
    BY <1>2, IntactSays DEF DamageInvariant
  <2>3. \A c \in Names :
          /\ Agrees(decode_hot_field_values(file, c), Ok(FieldOf(value, c)), decoded)
          /\ \A n \in 0..1 : NumbersIn(value, c) =>
               Agrees(scan_table_numeric_gt(file, c, n), ScanTable(value, c, n), decoded)
    BY <2>1, <2>2 DEF PathsAgree
  <2> HIDE DEF decoded, value
  <2>4. \A c : Numbers(c) => NumbersIn(value, c)
    BY DEF NumbersIn
  <2> HIDE DEF Numbers
  <2>5. \A answer, expected : Agrees(answer, expected, decoded) => Same(answer, expected)
    BY DEF Agrees
  <2> HIDE DEF Same
  <2> QED
    BY <2>3, <2>4, <2>5
<1> QED
  BY <1>2, DamageAlwaysInOnePlace, PTL
=============================================================================
