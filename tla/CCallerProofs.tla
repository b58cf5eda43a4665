---------------------------- MODULE CCallerProofs ----------------------------
(***************************************************************************)
(* A program that keeps to the ownership rules never misuses a pointer,    *)
(* holds everything on the heap once, and finds what it holds unchanged:   *)
(* for any number of addresses and pointer variables, and whatever the     *)
(* messages are.                                                           *)
(***************************************************************************)
EXTENDS CCaller, TLAPS

\* The kinds of objects on the heap.
Kinds == {"message", "error", "string", "bytes"}

\* What a call that succeeds or fails leaves: nothing, or one new object.
Handed(a) ==
  \/ a = Null /\ heap' = heap
  \/ /\ a \in Addresses /\ heap[a] = Free
     /\ \E obj : obj.kind \in Kinds /\ heap' = [heap EXCEPT ![a] = obj]

\* What a function's body may come to: nothing, or an object of the four kinds.
IsOutcome(obj) == obj = Nothing \/ obj.kind \in Kinds

\* A failure is an object, and so is what a body makes.
LEMMA OutcomesAreKinds ==
  ASSUME NEW value
  PROVE  /\ IsOutcome(Failure(value))
         /\ \A kind \in Kinds : IsOutcome(Object(kind, value))
BY DEF IsOutcome, Failure, Object, Kinds

\* run_ffi hands out what the body came to, or an error.
LEMMA AnswerHands ==
  ASSUME NEW given, NEW a, NEW body, IsOutcome(body),
         \E obj \in Answers(given, body) : Hand(obj, given, a)
  PROVE  Handed(a)
<1>1. PICK obj \in Answers(given, body) : Hand(obj, given, a)
  OBVIOUS
<1>2. IsOutcome(obj)
  BY OutcomesAreKinds DEF Answers
<1> QED
  BY <1>1, <1>2 DEF Hand, Handed, IsOutcome

\* A function of the caller's message, or of null, is no misuse.
LEMMA UseIsFair ==
  ASSUME ~ misused, NEW p, p = Null \/ IsA(p, "message"), NEW given,
         IF "out" \in given THEN Uses(p) ELSE UNCHANGED misused
  PROVE  ~ misused'
BY DEF Uses

\* The functions of one message.
LEMMA AskHands ==
  ASSUME ~ misused, NEW p, p = Null \/ IsA(p, "message"), NEW given, NEW a, NEW f,
         \/ sx_message_to_text(p, given, a)
         \/ sx_message_encode_binary(p, given, a)
         \/ sx_hash_logical(p, given, a)
         \/ sx_value_get_string(p, given, a)
         \/ sx_value_get_bytes(p, given, a)
         \/ sx_value_get_field(p, f, given, a)
  PROVE  Handed(a) /\ ~ misused'
<1> DEFINE v == heap[p].value
           Result(body) == IF IsA(p, "message") THEN body ELSE Failure("ValidationError")
           Hands(body) == /\ \E obj \in Answers(given, Result(body)) : Hand(obj, given, a)
                          /\ IF "out" \in given THEN Uses(p) ELSE UNCHANGED misused
<1>1. ASSUME NEW body, IsOutcome(body), Hands(body) PROVE Handed(a) /\ ~ misused'
  <2>1. IsOutcome(Result(body))
    BY <1>1, OutcomesAreKinds
  <2> HIDE DEF Result
  <2> QED
    BY <1>1, <2>1, AnswerHands, UseIsFair
<1>2. IsOutcome(CString(v))
  BY OutcomesAreKinds DEF CString, Kinds
<1>3. IsOutcome(Object("bytes", v)) /\ IsOutcome(Object("message", Member[v][f]))
  BY OutcomesAreKinds DEF Kinds
<1>4. CASE sx_message_to_text(p, given, a)
  <2>1. Hands(CString(v))
    BY <1>4 DEF sx_message_to_text, Of
  <2> QED
    BY <1>1, <1>2, <2>1
<1>5. CASE sx_message_encode_binary(p, given, a) \/ sx_hash_logical(p, given, a)
  <2>1. Hands(Object("bytes", v))
    BY <1>5 DEF sx_message_encode_binary, sx_hash_logical, Of
  <2> QED
    BY <1>1, <1>3, <2>1
<1>6. CASE sx_value_get_string(p, given, a)
  <2> DEFINE body == IF v \in Textual THEN CString(v) ELSE Failure("TypeMismatch")
  <2>1. Hands(body)
    BY <1>6 DEF sx_value_get_string, Of
  <2>2. IsOutcome(body)
    BY <1>2, OutcomesAreKinds
  <2> QED
    BY <1>1, <2>1, <2>2
<1>7. CASE sx_value_get_bytes(p, given, a)
  <2> DEFINE body == IF v \notin Binary THEN Failure("TypeMismatch")
                     ELSE IF v \in NoBytes THEN Nothing ELSE Object("bytes", v)
  <2>1. Hands(body)
    BY <1>7 DEF sx_value_get_bytes, Of
  <2>2. IsOutcome(body)
    BY <1>3, OutcomesAreKinds DEF IsOutcome
  <2> QED
    BY <1>1, <2>1, <2>2
<1>8. CASE sx_value_get_field(p, f, given, a)
  <2> DEFINE body == IF f \in DOMAIN Member[v] THEN Object("message", Member[v][f])
                     ELSE Failure("InvalidPath")
  <2>1. Hands(body)
    BY <1>8 DEF sx_value_get_field, Of
  <2>2. IsOutcome(body)
    BY <1>3, OutcomesAreKinds
  <2> QED
    BY <1>1, <2>1, <2>2
<1> QED
  BY <1>4, <1>5, <1>6, <1>7, <1>8

\* sx_apply_delta, of two messages or null.
LEMMA PatchHands ==
  ASSUME ~ misused, NEW base, base = Null \/ IsA(base, "message"),
         NEW delta, delta = Null \/ IsA(delta, "message"), NEW given, NEW a,
         sx_apply_delta(base, delta, given, a)
  PROVE  Handed(a) /\ ~ misused'
<1> DEFINE body == IF IsA(base, "message") /\ IsA(delta, "message")
                   THEN PatchOf(heap[base].value, heap[delta].value)
                   ELSE Failure("ValidationError")
<1>1. IsOutcome(PatchOf(heap[base].value, heap[delta].value))
  BY OutcomesAreKinds DEF PatchOf, Kinds
<1>2. IsOutcome(body)
  BY <1>1, OutcomesAreKinds
<1>3. \E obj \in Answers(given, body) : Hand(obj, given, a)
  BY DEF sx_apply_delta
<1>4. ~ misused'
  BY DEF sx_apply_delta
<1> HIDE DEF body
<1> QED
  BY <1>2, <1>3, <1>4, AnswerHands

\* The functions that make a message of what they are given, null included.
LEMMA MakeHands ==
  ASSUME ~ misused, NEW input, NEW given, NEW a,
         \/ sx_message_parse_text(input, given, a)
         \/ sx_message_decode_binary(input, given, a)
  PROVE  Handed(a) /\ ~ misused'
<1> DEFINE body(code) == IF input = Null THEN Failure("ValidationError")
                         ELSE IF input = Malformed THEN Failure(code)
                         ELSE Object("message", input)
<1>1. \A code : IsOutcome(body(code))
  BY OutcomesAreKinds DEF Kinds
<1>2. \E code : \E obj \in Answers(given, body(code)) : Hand(obj, given, a)
  BY DEF sx_message_parse_text, sx_message_decode_binary
<1>3. ~ misused'
  BY DEF sx_message_parse_text, sx_message_decode_binary
<1> HIDE DEF body
<1> QED
  BY <1>1, <1>2, <1>3, AnswerHands

\* The heap holds objects of the four kinds; a pointer variable is empty or
\* claims to hold one of them.
TypeOK ==
  /\ heap = [a \in Addresses |-> heap[a]]
  /\ \A a \in Addresses : heap[a] = Free \/ heap[a].kind \in Kinds
  /\ holds = [x \in Pointers |-> holds[x]]
  /\ \A x \in Pointers : holds[x] = Nil \/ holds[x].kind \in Kinds

\* The inductive invariant.
IInv == TypeOK /\ NoMisuse /\ HeldOnce

LEMMA InitEstablishes == Init => IInv
<1> SUFFICES ASSUME Init PROVE IInv
  OBVIOUS
<1> USE DEF Init, AbiInit
<1>1. TypeOK
  BY DEF TypeOK
<1>2. NoMisuse
  BY DEF NoMisuse
<1>3. HeldOnce
  BY DEF HeldOnce, Allocated, Nil
<1> QED
  BY <1>1, <1>2, <1>3 DEF IInv
-----------------------------------------------------------------------------
\* Every call of the program.
LEMMA CallHands ==
  ASSUME IInv, Call
  PROVE  \E x \in Vacant, a \in Addresses \cup {Null} : Keep(x, a) /\ Handed(a) /\ ~ misused'
<1>1. PICK x \in Vacant, given \in SUBSET {"out", "err"}, a \in Addresses \cup {Null} :
        /\ \/ Make(given, a)
           \/ \E p \in Holding("message") \cup {Null} : Ask(p, given, a)
        /\ Keep(x, a)
  BY DEF Call
<1>2. \A p \in Holding("message") \cup {Null} : p = Null \/ IsA(p, "message")
  BY DEF IInv, HeldOnce, Holding, Nil
<1>3. ASSUME NEW p \in Holding("message") \cup {Null}, Ask(p, given, a)
      PROVE  Handed(a) /\ ~ misused'
  <2>1. CASE \E q \in Holding("message") \cup {Null} : sx_apply_delta(p, q, given, a)
    BY <1>2, <2>1, PatchHands DEF IInv, NoMisuse
  <2>2. CASE ~ \E q \in Holding("message") \cup {Null} : sx_apply_delta(p, q, given, a)
    BY <1>2, <1>3, <2>2, AskHands DEF IInv, NoMisuse, Ask
  <2> QED
    BY <2>1, <2>2
<1> QED
  BY <1>1, <1>3, MakeHands DEF IInv, NoMisuse, Make
-----------------------------------------------------------------------------
\* The types and the holdings depend on heap and variables alone.
LEMMA SameHeap ==
  ASSUME TypeOK, HeldOnce, heap' = heap, holds' = holds
  PROVE  TypeOK' /\ HeldOnce'
<1>1. TypeOK'
  BY DEF TypeOK
<1>2. Allocated' = Allocated
  BY DEF Allocated
<1>3. HeldOnce'
  BY <1>2 DEF HeldOnce, IsA
<1> QED
  BY <1>1, <1>3

\* A call: the new object goes to a variable that held nothing.
LEMMA CallStep == IInv /\ Call => IInv'
<1> SUFFICES ASSUME IInv, Call PROVE IInv'
  OBVIOUS
<1>1. PICK x \in Vacant, a \in Addresses \cup {Null} : Keep(x, a) /\ Handed(a) /\ ~ misused'
  BY CallHands
<1>2. CASE a = Null /\ heap' = heap
  <2>1. holds' = holds
    BY <1>1, <1>2 DEF Keep, IInv, TypeOK, Vacant
  <2> QED
    BY <1>1, <1>2, <2>1, SameHeap DEF IInv, NoMisuse
<1>3. CASE a \in Addresses /\ heap[a] = Free
           /\ \E obj : obj.kind \in Kinds /\ heap' = [heap EXCEPT ![a] = obj]
  <2>1. PICK obj : obj.kind \in Kinds /\ heap' = [heap EXCEPT ![a] = obj]
    BY <1>3
  <2>2. /\ a # Null /\ obj # Free
        /\ heap'[a] = obj
        /\ \A b \in Addresses \ {a} : heap'[b] = heap[b]
    BY <1>3, <2>1, AbiConstants DEF IInv, TypeOK, Kinds, Free
  <2>3. /\ x \in Pointers /\ holds[x] = Nil
        /\ holds'[x] = [at |-> a, kind |-> obj.kind]
        /\ \A y \in Pointers \ {x} : holds'[y] = holds[y]
    BY <1>1, <2>2 DEF Keep, Vacant, IInv, TypeOK
  <2>4. \A y \in Pointers : holds[y].at # a
    BY <1>3, <2>2 DEF IInv, HeldOnce, Allocated
  <2>5. TypeOK'
    BY <1>1, <2>1, <2>2, <2>3 DEF IInv, TypeOK, Keep
  <2>6. Allocated' = Allocated \cup {a}
    BY <1>3, <2>2 DEF Allocated
  <2>7. HeldOnce'
    <3>1. {holds'[y].at : y \in Pointers} \ {Null}
            = ({holds[y].at : y \in Pointers} \ {Null}) \cup {a}
      BY <2>2, <2>3 DEF Nil
    <3>2. \A y \in Pointers : holds'[y] # Nil =>
            holds'[y].at \in Addresses /\ heap'[holds'[y].at].kind = holds'[y].kind
      BY <1>3, <2>2, <2>3, <2>4 DEF IInv, HeldOnce, IsA
    <3>3. \A y, z \in Pointers : holds'[y].at = holds'[z].at /\ y # z => holds'[y] = Nil
      BY <2>2, <2>3, <2>4 DEF IInv, HeldOnce
    <3> QED
      BY <2>6, <3>1, <3>2, <3>3 DEF IInv, HeldOnce, IsA
  <2> QED
    BY <1>1, <2>5, <2>7 DEF IInv, NoMisuse
<1> QED
  BY <1>1, <1>2, <1>3 DEF Handed

\* What a variable holds is released as what it is: no misuse, and its object
\* alone leaves the heap.
LEMMA FreeHeld ==
  ASSUME IInv, NEW y \in Pointers, sx_free(holds[y].at, holds[y].kind)
  PROVE  /\ ~ misused'
         /\ holds[y] = Nil => heap' = heap
         /\ holds[y] # Nil => /\ holds[y].at \in Addresses
                              /\ heap' = [heap EXCEPT ![holds[y].at] = Free]
<1>1. CASE holds[y] = Nil
  BY <1>1 DEF sx_free, abiVars, Nil, IInv, NoMisuse
<1>2. CASE holds[y] # Nil
  <2>1. IsA(holds[y].at, holds[y].kind) /\ holds[y].at # Null
    BY <1>2, AbiConstants DEF IInv, HeldOnce, IsA
  <2> QED
    BY <1>2, <2>1 DEF sx_free, IsA, IInv, NoMisuse
<1> QED
  BY <1>1, <1>2

\* When a variable's object is released and the variable is empty or takes
\* over what another held, everything is still held once.
LEMMA GiveUpStep ==
  ASSUME IInv, NEW y \in Pointers, sx_free(holds[y].at, holds[y].kind),
         NEW x \in Pointers,
         holds' = [holds EXCEPT ![y] = IF x = y THEN Nil ELSE holds[x], ![x] = Nil]
  PROVE  IInv'
<1>1. /\ ~ misused'
      /\ holds[y] = Nil => heap' = heap
      /\ holds[y] # Nil => /\ holds[y].at \in Addresses
                           /\ heap' = [heap EXCEPT ![holds[y].at] = Free]
  BY FreeHeld
<1>2. /\ holds' = [z \in Pointers |-> holds'[z]]
      /\ holds'[x] = Nil
      /\ x # y => holds'[y] = holds[x]
      /\ \A z \in Pointers \ {x, y} : holds'[z] = holds[z]
  BY DEF IInv, TypeOK
<1>3. /\ heap' = [a \in Addresses |-> heap'[a]]
      /\ \A a \in Addresses : heap'[a] = IF a = holds[y].at THEN Free ELSE heap[a]
  <2>1. holds[y] = Nil => holds[y].at \notin Addresses
    BY AbiConstants DEF Nil
  <2> QED
    BY <1>1, <2>1 DEF IInv, TypeOK
<1>4. TypeOK'
  BY <1>2, <1>3 DEF IInv, TypeOK
<1>5. \A z \in Pointers : holds'[z] # Nil =>
        \E w \in Pointers \ {y} : /\ holds'[z] = holds[w] /\ holds[w] # Nil
                                 /\ w = (IF z = y THEN x ELSE z)
  BY <1>2
<1>6. \A w \in Pointers \ {y} : holds[w] # Nil =>
        /\ holds[w].at # holds[y].at
        /\ IsA(holds[w].at, holds[w].kind)
  <2> SUFFICES ASSUME NEW w \in Pointers \ {y}, holds[w] # Nil
               PROVE  /\ holds[w].at # holds[y].at
                      /\ IsA(holds[w].at, holds[w].kind)
    OBVIOUS
  <2>1. HeldOnce
    BY DEF IInv
  <2> QED
    BY <2>1 DEF HeldOnce
<1>7. \A z \in Pointers : holds'[z] # Nil =>
        holds'[z].at \in Addresses /\ heap'[holds'[z].at].kind = holds'[z].kind
  <2> SUFFICES ASSUME NEW z \in Pointers, holds'[z] # Nil
               PROVE  holds'[z].at \in Addresses /\ heap'[holds'[z].at].kind = holds'[z].kind
    OBVIOUS
  <2>1. PICK w \in Pointers \ {y} : holds'[z] = holds[w] /\ holds[w] # Nil
    BY <1>5
  <2>2. /\ holds[w].at \in Addresses /\ heap[holds[w].at].kind = holds[w].kind
        /\ holds[w].at # holds[y].at
    BY <1>6, <2>1 DEF IsA
  <2>3. heap'[holds[w].at] = heap[holds[w].at]
    BY <1>3, <2>2
  <2> QED
    BY <2>1, <2>2, <2>3
<1>8. \A z, v \in Pointers : holds'[z].at = holds'[v].at /\ z # v => holds'[z] = Nil
  <2> SUFFICES ASSUME NEW z \in Pointers, NEW v \in Pointers,
                      holds'[z].at = holds'[v].at, z # v, holds'[z] # Nil
               PROVE  FALSE
    OBVIOUS
  <2>1. holds'[v] # Nil
    <3>1. holds'[z].at \in Addresses
      BY <1>7
    <3>2. Nil.at \notin Addresses
      BY AbiConstants DEF Nil
    <3> QED
      BY <3>1, <3>2
  <2> DEFINE from(u) == IF u = y THEN x ELSE u
  <2>2. /\ holds'[z] = holds[from(z)] /\ holds[from(z)] # Nil
        /\ holds'[v] = holds[from(v)] /\ holds[from(v)] # Nil
    BY <1>5, <2>1
  <2>3. from(z) # from(v) /\ from(z) \in Pointers /\ from(v) \in Pointers
    BY <1>2, <2>1
  <2> HIDE DEF from
  <2>4. HeldOnce
    BY DEF IInv
  <2> QED
    BY <2>2, <2>3, <2>4 DEF HeldOnce
<1>9. Allocated' = {holds'[z].at : z \in Pointers} \ {Null}
  <2>1. Allocated' = Allocated \ {holds[y].at}
    BY <1>3 DEF Allocated
  <2>2. ASSUME NEW a \in Allocated' PROVE a \in {holds'[z].at : z \in Pointers} \ {Null}
    <3>1. PICK w \in Pointers : holds[w].at = a /\ a # Null /\ a # holds[y].at
      BY <2>1 DEF IInv, HeldOnce
    <3>2. CASE w = x
      <4>1. y # x /\ holds'[y].at = a
        BY <1>2, <3>1, <3>2
      <4> QED
        BY <3>1, <4>1
    <3>3. CASE w # x
      <4>1. holds'[w].at = a
        BY <1>2, <3>1, <3>3
      <4> QED
        BY <3>1, <4>1
    <3> QED
      BY <3>2, <3>3
  <2>3. ASSUME NEW z \in Pointers, holds'[z].at # Null PROVE holds'[z].at \in Allocated'
    <3>1. holds'[z] # Nil
      BY <2>3 DEF Nil
    <3>2. PICK w \in Pointers \ {y} : holds'[z] = holds[w] /\ holds[w] # Nil
      BY <1>5, <3>1
    <3>3. holds[w].at \in Allocated
      BY <2>3, <3>2 DEF IInv, HeldOnce
    <3> QED
      BY <1>6, <2>1, <3>2, <3>3
  <2> QED
    BY <2>2, <2>3
<1>10. HeldOnce'
  BY <1>7, <1>8, <1>9 DEF HeldOnce, IsA
<1> QED
  BY <1>1, <1>4, <1>10 DEF IInv, NoMisuse

LEMMA ReleaseStep == IInv /\ Release => IInv'
<1> SUFFICES ASSUME IInv, Release PROVE IInv'
  OBVIOUS
<1>1. PICK x \in Pointers : /\ sx_free(holds[x].at, holds[x].kind)
                            /\ holds' = [holds EXCEPT ![x] = Nil]
  BY DEF Release
<1>2. holds' = [holds EXCEPT ![x] = IF x = x THEN Nil ELSE holds[x], ![x] = Nil]
  BY <1>1 DEF IInv, TypeOK
<1> QED
  BY <1>1, <1>2, GiveUpStep

LEMMA AssignStep == IInv /\ Assign => IInv'
<1> SUFFICES ASSUME IInv, Assign PROVE IInv'
  OBVIOUS
<1>1. PICK x, y \in Pointers : /\ x # y
                               /\ sx_free(holds[y].at, holds[y].kind)
                               /\ holds' = [holds EXCEPT ![y] = holds[x], ![x] = Nil]
  BY DEF Assign
<1>2. holds' = [holds EXCEPT ![y] = IF x = y THEN Nil ELSE holds[x], ![x] = Nil]
  BY <1>1
<1> QED
  BY <1>1, <1>2, GiveUpStep

LEMMA ReadStep == IInv /\ ReadScalar => IInv'
<1> SUFFICES ASSUME IInv, ReadScalar PROVE IInv'
  OBVIOUS
<1>1. heap' = heap /\ holds' = holds
  BY DEF ReadScalar, sx_value_get_scalar
<1>2. ~ misused'
  <2>1. PICK p \in Holding("message") \cup {Null} : Uses(p)
    BY DEF ReadScalar, sx_value_get_scalar
  <2>2. p = Null \/ IsA(p, "message")
    BY DEF IInv, HeldOnce, Holding, Nil
  <2> QED
    BY <2>1, <2>2 DEF Uses, IInv, NoMisuse
<1> QED
  BY <1>1, <1>2, SameHeap DEF IInv, NoMisuse
-----------------------------------------------------------------------------
\* The invariant holds in every state of every program that keeps to the rules.
THEOREM Invariant == Spec => []IInv
<1>1. IInv /\ [Next]_vars => IInv'
  <2> SUFFICES ASSUME IInv, [Next]_vars PROVE IInv'
    OBVIOUS
  <2>1. CASE Call
    BY <2>1, CallStep
  <2>2. CASE ReadScalar
    BY <2>2, ReadStep
  <2>3. CASE Release
    BY <2>3, ReleaseStep
  <2>4. CASE Assign
    BY <2>4, AssignStep
  <2>5. CASE UNCHANGED vars
    BY <2>5, SameHeap DEF vars, abiVars, IInv, NoMisuse
  <2> QED
    BY <2>1, <2>2, <2>3, <2>4, <2>5 DEF Next
<1> QED
  BY InitEstablishes, <1>1, PTL DEF Spec

\* The ABI hands out no pointer whose use or release, by the rules, is undefined.
THEOREM NeverMisused == Spec => []NoMisuse
<1>1. IInv => NoMisuse
  BY DEF IInv
<1> QED
  BY Invariant, <1>1, PTL

\* Everything on the heap is held by one variable of the program: no call, and
\* no failure of a call, leaves anything behind.
THEOREM NothingLeaks == Spec => []HeldOnce
<1>1. IInv => HeldOnce
  BY DEF IInv
<1> QED
  BY Invariant, <1>1, PTL

\* What a variable goes on holding is not changed by any step.
LEMMA HeldIsKept ==
  ASSUME IInv, [Next]_vars, NEW x \in Pointers, holds[x] # Nil, holds'[x] = holds[x]
  PROVE  heap'[holds[x].at] = heap[holds[x].at]
<1>1. holds[x].at \in Addresses /\ heap[holds[x].at] # Free
  <2>1. HeldOnce
    BY DEF IInv
  <2>2. IsA(holds[x].at, holds[x].kind)
    BY <2>1 DEF HeldOnce
  <2>3. holds[x].at \in Allocated
    BY <2>1, <2>2, AbiConstants DEF HeldOnce, IsA
  <2> QED
    BY <2>2, <2>3 DEF IsA, Allocated
<1>2. CASE Call
  <2>1. PICK y \in Vacant, a \in Addresses \cup {Null} : Keep(y, a) /\ Handed(a) /\ ~ misused'
    BY <1>2, CallHands
  <2> QED
    BY <1>1, <2>1 DEF Handed, IInv, TypeOK
<1>3. CASE ReadScalar \/ UNCHANGED vars
  BY <1>3 DEF ReadScalar, sx_value_get_scalar, vars, abiVars
<1>4. ASSUME NEW y \in Pointers, y # x, sx_free(holds[y].at, holds[y].kind)
      PROVE  heap'[holds[x].at] = heap[holds[x].at]
  <2>1. holds[y] # Nil => holds[y].at # holds[x].at
    BY <1>4 DEF IInv, HeldOnce
  <2> QED
    BY <1>1, <1>4, <2>1, FreeHeld DEF IInv, TypeOK
<1>5. CASE Release
  <2>1. PICK y \in Pointers : /\ sx_free(holds[y].at, holds[y].kind)
                              /\ holds' = [holds EXCEPT ![y] = Nil]
    BY <1>5 DEF Release
  <2>2. y # x
    BY <2>1 DEF IInv, TypeOK
  <2> QED
    BY <1>4, <2>1, <2>2
<1>6. CASE Assign
  <2>1. PICK z, y \in Pointers : /\ z # y
                                 /\ sx_free(holds[y].at, holds[y].kind)
                                 /\ holds' = [holds EXCEPT ![y] = holds[z], ![z] = Nil]
    BY <1>6 DEF Assign
  <2>2. y = x => holds'[x] = holds[z]
    BY <2>1 DEF IInv, TypeOK
  <2>3. y # x
    BY <2>1, <2>2 DEF IInv, HeldOnce
  <2> QED
    BY <1>4, <2>1, <2>3
<1> QED
  BY <1>2, <1>3, <1>5, <1>6 DEF Next

\* No call changes what the program still holds: a field does not follow its
\* parent, and a base is not touched by the delta applied to it.
THEOREM HeldIsUndisturbed == Spec => Undisturbed
<1> DEFINE Kept == \A x \in Pointers : holds[x] # Nil /\ holds'[x] = holds[x] =>
                     heap'[holds[x].at] = heap[holds[x].at]
<1>1. IInv /\ [Next]_vars => Kept
  BY HeldIsKept
<1> QED
  BY Invariant, <1>1, PTL DEF Spec, Undisturbed
=============================================================================
