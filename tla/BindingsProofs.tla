--------------------------- MODULE BindingsProofs ---------------------------
(***************************************************************************)
(* The bindings keep to the ownership rules of the C binding, and so use   *)
(* no pointer they should not and lose nothing: for any number of          *)
(* messages, threads and addresses, and whatever the messages hold.        *)
(***************************************************************************)
EXTENDS Bindings, TLAPS

\* The kinds of objects on the heap.
Kinds == {"message", "error", "string", "bytes"}

\* What a call that succeeds or fails leaves: nothing, or one new object.
Handed(a) ==
  \/ a = Null /\ heap' = heap
  \/ /\ a \in Addresses /\ heap[a] = Free
     /\ \E obj : obj.kind \in Kinds /\ heap' = [heap EXCEPT ![a] = obj]

\* What a function's body may come to: nothing, or an object of the four kinds.
IsOutcome(obj) == obj = Nothing \/ obj.kind \in Kinds

\* A failure is an object, and so is what a body makes.
LEMMA OutcomesAreKinds ==
  ASSUME NEW value
  PROVE  /\ IsOutcome(Failure(value))
         /\ \A kind \in Kinds : IsOutcome(Object(kind, value))
BY DEF IsOutcome, Failure, Object, Kinds

\* run_ffi hands out what the body came to, or an error.
LEMMA AnswerHands ==
  ASSUME NEW given, NEW a, NEW body, IsOutcome(body),
         \E obj \in Answers(given, body) : Hand(obj, given, a)
  PROVE  Handed(a)
<1>1. PICK obj \in Answers(given, body) : Hand(obj, given, a)
  OBVIOUS
<1>2. IsOutcome(obj)
  BY OutcomesAreKinds DEF Answers
<1> QED
  BY <1>1, <1>2 DEF Hand, Handed, IsOutcome

\* A function of the caller's message, or of null, is no misuse.
LEMMA UseIsFair ==
  ASSUME ~ misused, NEW p, p = Null \/ IsA(p, "message"), NEW given,
         IF "out" \in given THEN Uses(p) ELSE UNCHANGED misused
  PROVE  ~ misused'
BY DEF Uses

\* The functions of one message.
LEMMA AskHands ==
  ASSUME ~ misused, NEW p, p = Null \/ IsA(p, "message"), NEW given, NEW a, NEW f,
         \/ sx_message_to_text(p, given, a)
         \/ sx_message_encode_binary(p, given, a)
         \/ sx_hash_logical(p, given, a)
         \/ sx_value_get_string(p, given, a)
         \/ sx_value_get_bytes(p, given, a)
         \/ sx_value_get_field(p, f, given, a)
  PROVE  Handed(a) /\ ~ misused'
<1> DEFINE v == heap[p].value
           Result(body) == IF IsA(p, "message") THEN body ELSE Failure("ValidationError")
           Hands(body) == /\ \E obj \in Answers(given, Result(body)) : Hand(obj, given, a)
                          /\ IF "out" \in given THEN Uses(p) ELSE UNCHANGED misused
<1>1. ASSUME NEW body, IsOutcome(body), Hands(body) PROVE Handed(a) /\ ~ misused'
  <2>1. IsOutcome(Result(body))
    BY <1>1, OutcomesAreKinds
  <2> HIDE DEF Result
  <2> QED
    BY <1>1, <2>1, AnswerHands, UseIsFair
<1>2. IsOutcome(CString(v))
  BY OutcomesAreKinds DEF CString, Kinds
<1>3. IsOutcome(Object("bytes", v)) /\ IsOutcome(Object("message", Member[v][f]))
  BY OutcomesAreKinds DEF Kinds
<1>4. CASE sx_message_to_text(p, given, a)
  <2>1. Hands(CString(v))
    BY <1>4 DEF sx_message_to_text, Of
  <2> QED
    BY <1>1, <1>2, <2>1
<1>5. CASE sx_message_encode_binary(p, given, a) \/ sx_hash_logical(p, given, a)
  <2>1. Hands(Object("bytes", v))
    BY <1>5 DEF sx_message_encode_binary, sx_hash_logical, Of
  <2> QED
    BY <1>1, <1>3, <2>1
<1>6. CASE sx_value_get_string(p, given, a)
  <2> DEFINE body == IF v \in Textual THEN CString(v) ELSE Failure("TypeMismatch")
  <2>1. Hands(body)
    BY <1>6 DEF sx_value_get_string, Of
  <2>2. IsOutcome(body)
    BY <1>2, OutcomesAreKinds
  <2> QED
    BY <1>1, <2>1, <2>2
<1>7. CASE sx_value_get_bytes(p, given, a)
  <2> DEFINE body == IF v \notin Binary THEN Failure("TypeMismatch")
                     ELSE IF v \in NoBytes THEN Nothing ELSE Object("bytes", v)
  <2>1. Hands(body)
    BY <1>7 DEF sx_value_get_bytes, Of
  <2>2. IsOutcome(body)
    BY <1>3, OutcomesAreKinds DEF IsOutcome
  <2> QED
    BY <1>1, <2>1, <2>2
<1>8. CASE sx_value_get_field(p, f, given, a)
  <2> DEFINE body == IF f \in DOMAIN Member[v] THEN Object("message", Member[v][f])
                     ELSE Failure("InvalidPath")
  <2>1. Hands(body)
    BY <1>8 DEF sx_value_get_field, Of
  <2>2. IsOutcome(body)
    BY <1>3, OutcomesAreKinds
  <2> QED
    BY <1>1, <2>1, <2>2
<1> QED
  BY <1>4, <1>5, <1>6, <1>7, <1>8

\* sx_apply_delta, of two messages or null.
LEMMA PatchHands ==
  ASSUME ~ misused, NEW base, base = Null \/ IsA(base, "message"),
         NEW delta, delta = Null \/ IsA(delta, "message"), NEW given, NEW a,
         sx_apply_delta(base, delta, given, a)
  PROVE  Handed(a) /\ ~ misused'
<1> DEFINE body == IF IsA(base, "message") /\ IsA(delta, "message")
                   THEN PatchOf(heap[base].value, heap[delta].value)
                   ELSE Failure("ValidationError")
<1>1. IsOutcome(PatchOf(heap[base].value, heap[delta].value))
  BY OutcomesAreKinds DEF PatchOf, Kinds
<1>2. IsOutcome(body)
  BY <1>1, OutcomesAreKinds
<1>3. \E obj \in Answers(given, body) : Hand(obj, given, a)
  BY DEF sx_apply_delta
<1>4. ~ misused'
  BY DEF sx_apply_delta
<1> HIDE DEF body
<1> QED
  BY <1>2, <1>3, <1>4, AnswerHands

\* The functions that make a message of what they are given, null included.
LEMMA MakeHands ==
  ASSUME ~ misused, NEW input, NEW given, NEW a,
         \/ sx_message_parse_text(input, given, a)
         \/ sx_message_decode_binary(input, given, a)
  PROVE  Handed(a) /\ ~ misused'
<1> DEFINE body(code) == IF input = Null THEN Failure("ValidationError")
                         ELSE IF input = Malformed THEN Failure(code)
                         ELSE Object("message", input)
<1>1. \A code : IsOutcome(body(code))
  BY OutcomesAreKinds DEF Kinds
<1>2. \E code : \E obj \in Answers(given, body(code)) : Hand(obj, given, a)
  BY DEF sx_message_parse_text, sx_message_decode_binary
<1>3. ~ misused'
  BY DEF sx_message_parse_text, sx_message_decode_binary
<1> HIDE DEF body
<1> QED
  BY <1>1, <1>2, <1>3, AnswerHands

Nil == [at |-> Null, kind |-> "none"]

Holders == Objects \cup Threads \cup {"local"}

HeapOK ==
  /\ heap = [a \in Addresses |-> heap[a]]
  /\ \A a \in Addresses : heap[a] = Free \/ heap[a].kind \in Kinds

\* A method in progress keeps its object there until it returns.
CallOK(c) ==
  /\ c = [self |-> c.self, step |-> c.step, at |-> c.at, kind |-> c.kind, code |-> c.code]
  /\ c.step \in {"called", "returned"} =>
       /\ language = "Python"
       /\ c.self = "class" \/ (c.self \in Objects /\ handle[c.self] # Gone)
  /\ c.step = "returned" => c.at \in Addresses /\ c.kind \in Kinds

TypeOK ==
  /\ language \in {"Python", "C++", "Java"}
  /\ handle \in [Objects -> Addresses \cup {Null, Gone}]
  /\ raw \in [Objects -> Addresses \cup {Null, Gone}]
  /\ call = [t \in Threads |-> call[t]]
  /\ \A t \in Threads : CallOK(call[t])
  /\ got \in [at : Addresses, kind : Kinds] \cup {Nil}

\* What is held is on the heap as what it is held as,
Honest ==
  \A x \in Holders : Held[x] # Nil => IsA(Held[x].at, Held[x].kind) /\ Held[x].kind \in Kinds

\* and held once.
Apart == \A x, y \in Holders : Held[x].at = Held[y].at /\ x # y => Held[x] = Nil

Sound == HeapOK /\ ~ misused /\ Honest /\ Apart /\ NothingLost

\* The inductive invariant.
IInv == TypeOK /\ Sound
-----------------------------------------------------------------------------
\* What a message holds by its handle, and a thread by its call.
ByHandle(p) == IF p \in Addresses THEN [at |-> p, kind |-> "message"] ELSE Nil
ByCall(c) == IF c.step = "returned" THEN [at |-> c.at, kind |-> c.kind] ELSE Nil

\* Held, holder by holder.
LEMMA HeldIs ==
  /\ Held = [x \in Holders |-> Held[x]]
  /\ \A x \in Objects : Held[x] = ByHandle(IF language = "C++" THEN raw[x] ELSE handle[x])
  /\ \A t \in Threads : Held[t] = ByCall(call[t])
  /\ Held["local"] = got
BY BindingConstants DEF Held, Holders, ByHandle, ByCall, Nil

\* The same in the next state.
LEMMA HeldIsNext ==
  /\ Held' = [x \in Holders |-> Held'[x]]
  /\ \A x \in Objects : Held'[x] = ByHandle(IF language' = "C++" THEN raw'[x] ELSE handle'[x])
  /\ \A t \in Threads : Held'[t] = ByCall(call'[t])
  /\ Held'["local"] = got'
BY BindingConstants DEF Held, Holders, ByHandle, ByCall, Nil

\* At the start nothing is held and nothing is on the heap.
LEMMA InitEstablishes == Init => IInv
<1> SUFFICES ASSUME Init PROVE IInv
  OBVIOUS
<1> USE DEF Init, Python!Init, Cpp!Init, Python!AbiInit, Cpp!AbiInit
<1>1. TypeOK
  BY DEF TypeOK, CallOK, Python!Idle, Python!In, Nil, Cpp!Nil
<1>2. HeapOK /\ ~ misused
  BY DEF HeapOK, Free, Python!Free
<1>3. \A x \in Holders : Held[x] = Nil
  BY HeldIs, BindingConstants DEF Holders, ByHandle, ByCall, Nil, Cpp!Nil, Python!Idle, Python!In
<1>4. Honest /\ Apart
  BY <1>3 DEF Honest, Apart
<1>5. NothingLost
  BY DEF NothingLost, Python!Free
<1> QED
  BY <1>1, <1>2, <1>4, <1>5 DEF IInv, Sound
-----------------------------------------------------------------------------
(***************************************************************************)
(* The steps of the rules.                                                 *)
(***************************************************************************)
Given == {"out", "err"}

Messages == {Held[x].at : x \in {y \in Holders : Held[y].kind = "message"}}

\* A call hands out a: one that makes a message, or one of a message held.
Calls(a) ==
  \/ \E input \in Values \cup {Malformed, Null} :
       \/ sx_message_parse_text(input, Given, a)
       \/ sx_message_decode_binary(input, Given, a)
  \/ \E p \in Messages \cup {Null} :
       \/ sx_message_to_text(p, Given, a)
       \/ sx_message_encode_binary(p, Given, a)
       \/ sx_hash_logical(p, Given, a)
       \/ sx_value_get_string(p, Given, a)
       \/ \E f \in UNION {DOMAIN Member[v] : v \in Values} :
            sx_value_get_field(p, f, Given, a)

\* A holder that held nothing takes what a call hands out,
Takes(x, a) ==
  /\ Held[x] = Nil /\ a \in Addresses /\ Calls(a)
  /\ Held' = [Held EXCEPT ![x] = [at |-> a, kind |-> heap'[a].kind]]

\* y gives up what it holds and takes over what x holds, unless it is x.
GivesUp(x, y) ==
  /\ sx_free(Held[y].at, Held[y].kind)
  /\ Held' = [Held EXCEPT ![y] = IF x = y THEN Nil ELSE Held[x], ![x] = Nil]

\* Nothing is handed out, passed on or released.
Rests == heap' = heap /\ misused' = misused /\ Held' = Held

\* A step of the rules, or none, or Java or C++ drops an error.
OfTheRules ==
  \/ \E x \in Holders, a \in Addresses : Takes(x, a)
  \/ \E x, y \in Holders : GivesUp(x, y)
  \/ Drops
  \/ Rests

\* A call hands out one new object, and uses no pointer it should not.
LEMMA CallHands ==
  ASSUME Sound, NEW a \in Addresses, Calls(a)
  PROVE  /\ ~ misused' /\ heap[a] = Free /\ a # Null
         /\ \E obj : obj.kind \in Kinds /\ heap' = [heap EXCEPT ![a] = obj]
<1>1. \A p \in Messages \cup {Null} : p = Null \/ IsA(p, "message")
  BY DEF Sound, Honest, Messages, Nil
<1>2. Handed(a) /\ ~ misused'
  BY <1>1, MakeHands, AskHands DEF Sound, Calls
<1> QED
  BY <1>2, AbiConstants DEF Handed

\* Where nothing moves, everything stays sound;
LEMMA RestStep ==
  ASSUME Sound, Rests, language' = language
  PROVE  Sound'
BY DEF Sound, Rests, HeapOK, Honest, Apart, NothingLost, IsA

\* a new object is held by the one that took it;
LEMMA TakeStep ==
  ASSUME Sound, NEW x \in Holders, NEW a, Takes(x, a), language' = language
  PROVE  Sound'
<1>1. PICK obj : /\ heap[a] = Free /\ a \in Addresses /\ a # Null /\ ~ misused'
                 /\ obj.kind \in Kinds /\ heap' = [heap EXCEPT ![a] = obj]
  BY CallHands DEF Takes
<1>2. /\ heap' = [b \in Addresses |-> heap'[b]]
      /\ heap'[a] = obj /\ \A b \in Addresses \ {a} : heap'[b] = heap[b]
  BY <1>1 DEF Sound, HeapOK
<1>3. /\ Held'[x] = [at |-> a, kind |-> obj.kind]
      /\ \A y \in Holders \ {x} : Held'[y] = Held[y]
  BY <1>2, HeldIs DEF Takes
<1>4. \A y \in Holders : Held[y] # Nil => Held[y].at # a
  BY <1>1 DEF Sound, Honest, IsA, Free, Kinds
<1>5. HeapOK' /\ ~ misused'
  BY <1>1, <1>2 DEF Sound, HeapOK, Takes
<1>6. Honest'
  BY <1>1, <1>2, <1>3, <1>4 DEF Sound, Honest, IsA
<1>7. Apart'
  BY <1>1, <1>3, <1>4 DEF Sound, Apart, Nil, Takes
<1>8. NothingLost'
  <2> SUFFICES ASSUME NEW b \in Addresses, heap'[b].kind # "free",
                      ~ (language \in {"Java", "C++"} /\ heap'[b].kind = "error")
               PROVE  \E y \in Holders : Held'[y] = [at |-> b, kind |-> heap'[b].kind]
    BY HeldIsNext DEF NothingLost
  <2>1. CASE b = a
    BY <1>2, <1>3, <2>1
  <2>2. CASE b # a
    <3>1. PICK y \in Holders : Held[y] = [at |-> b, kind |-> heap[b].kind]
      BY <1>2, <2>2, HeldIs DEF Sound, NothingLost
    <3>2. y # x
      BY <1>1, <3>1, AbiConstants DEF Takes, Nil
    <3> QED
      BY <1>2, <1>3, <2>2, <3>1, <3>2
  <2> QED
    BY <2>1, <2>2
<1> QED
  BY <1>5, <1>6, <1>7, <1>8 DEF Sound

\* what is given up leaves the heap with its only holder.
LEMMA GiveUpStep ==
  ASSUME Sound, NEW x \in Holders, NEW y \in Holders, GivesUp(x, y), language' = language
  PROVE  Sound'
<1>1. /\ ~ misused'
      /\ heap' = [a \in Addresses |-> heap'[a]]
      /\ \A a \in Addresses : heap'[a] = IF a = Held[y].at THEN Free ELSE heap[a]
  <2>1. CASE Held[y] = Nil
    BY <2>1, AbiConstants DEF Sound, HeapOK, GivesUp, sx_free, abiVars, Nil
  <2>2. CASE Held[y] # Nil
    BY <2>2, AbiConstants DEF Sound, HeapOK, Honest, GivesUp, sx_free, IsA
  <2> QED
    BY <2>1, <2>2
<1>2. /\ Held'[x] = Nil
      /\ x # y => Held'[y] = Held[x]
      /\ \A z \in Holders \ {x, y} : Held'[z] = Held[z]
  BY HeldIs DEF GivesUp
<1>3. \A z \in Holders : Held'[z] # Nil =>
        \E w \in Holders \ {y} : /\ Held'[z] = Held[w] /\ Held[w] # Nil
                                 /\ w = (IF z = y THEN x ELSE z)
  BY <1>2
<1>4. \A w \in Holders \ {y} : Held[w] # Nil =>
        /\ Held[w].at # Held[y].at /\ Held[w].at \in Addresses
        /\ heap[Held[w].at].kind = Held[w].kind /\ Held[w].kind \in Kinds
  BY DEF Sound, Honest, Apart, IsA
<1>5. HeapOK' /\ ~ misused'
  BY <1>1 DEF Sound, HeapOK
<1>6. Honest'
  <2> SUFFICES ASSUME NEW z \in Holders, Held'[z] # Nil
               PROVE  /\ Held'[z].at \in Addresses /\ heap'[Held'[z].at].kind = Held'[z].kind
                      /\ Held'[z].kind \in Kinds
    BY DEF Honest, IsA, Nil
  <2> QED
    BY <1>1, <1>3, <1>4
<1>7. Apart'
  <2> SUFFICES ASSUME NEW z \in Holders, NEW v \in Holders,
                      Held'[z].at = Held'[v].at, z # v, Held'[z] # Nil
               PROVE  FALSE
    BY DEF Apart, Nil
  <2>1. Held'[v] # Nil
    BY <1>3, <1>4, AbiConstants DEF Nil
  <2> DEFINE from(u) == IF u = y THEN x ELSE u
  <2>2. /\ Held'[z] = Held[from(z)] /\ Held[from(z)] # Nil
        /\ Held'[v] = Held[from(v)] /\ Held[from(v)] # Nil
    BY <1>3, <2>1
  <2>3. from(z) # from(v) /\ from(z) \in Holders /\ from(v) \in Holders
    BY <1>2, <2>1
  <2> HIDE DEF from
  <2> QED
    BY <2>2, <2>3 DEF Sound, Apart
<1>8. NothingLost'
  <2> SUFFICES ASSUME NEW a \in Addresses, heap'[a].kind # "free",
                      ~ (language \in {"Java", "C++"} /\ heap'[a].kind = "error")
               PROVE  \E z \in Holders : Held'[z] = [at |-> a, kind |-> heap'[a].kind]
    BY HeldIsNext DEF NothingLost
  <2>1. a # Held[y].at /\ heap'[a] = heap[a]
    BY <1>1 DEF Free
  <2>2. PICK w \in Holders : Held[w] = [at |-> a, kind |-> heap[a].kind]
    BY <2>1, HeldIs DEF Sound, NothingLost
  <2>3. w # y
    BY <2>1, <2>2
  <2> QED
    BY <1>2, <2>1, <2>2, <2>3
<1> QED
  BY <1>5, <1>6, <1>7, <1>8 DEF Sound

\* Java or C++ leaves an error behind.
LEMMA DropStep ==
  ASSUME Sound, Drops, UNCHANGED <<language, call>>
  PROVE  Sound'
<1>1. /\ heap' = heap /\ misused' = misused
      /\ IF language = "C++" THEN raw' = raw ELSE handle' = handle
      /\ got.kind = "error" /\ got' = Nil /\ language \in {"Java", "C++"}
  BY DEF Drops, Java!Throw, Java!abiVars, Java!Nil, Nil,
         Cpp!throw_without_error, Cpp!abiVars, Cpp!Nil
<1>2. /\ Held["local"] = got /\ Held'["local"] = Nil
      /\ \A x \in Holders \ {"local"} : Held'[x] = Held[x]
  BY <1>1, HeldIs, HeldIsNext DEF Holders
<1>3. HeapOK' /\ ~ misused' /\ Honest'
  BY <1>1, <1>2 DEF Sound, HeapOK, Honest, IsA
<1>4. Apart'
  <2>1. \A x \in Holders : Held'[x] # Nil => Held'[x].at # Null /\ Held'[x] = Held[x]
    BY <1>2, AbiConstants DEF Sound, Honest, IsA
  <2> QED
    BY <2>1 DEF Sound, Apart, Nil
<1>5. NothingLost'
  <2> SUFFICES ASSUME NEW a \in Addresses, heap'[a].kind # "free", heap'[a].kind # "error"
               PROVE  \E x \in Holders : Held'[x] = [at |-> a, kind |-> heap'[a].kind]
    BY <1>1, HeldIsNext DEF NothingLost
  <2>1. PICK x \in Holders : Held[x] = [at |-> a, kind |-> heap[a].kind]
    BY <1>1, HeldIs DEF Sound, NothingLost
  <2> QED
    BY <1>1, <1>2, <2>1
<1> QED
  BY <1>3, <1>4, <1>5 DEF Sound
-----------------------------------------------------------------------------
(***************************************************************************)
(* Python.                                                                 *)
(***************************************************************************)
\* Python's functions are those of the ABI.
LEMMA PythonAbi ==
  ASSUME NEW p, NEW a, NEW f
  PROVE  /\ Python!sx_message_parse_text(p, Given, a) <=> sx_message_parse_text(p, Given, a)
         /\ Python!sx_message_decode_binary(p, Given, a) <=> sx_message_decode_binary(p, Given, a)
         /\ Python!sx_message_to_text(p, Given, a) <=> sx_message_to_text(p, Given, a)
         /\ Python!sx_message_encode_binary(p, Given, a) <=> sx_message_encode_binary(p, Given, a)
         /\ Python!sx_hash_logical(p, Given, a) <=> sx_hash_logical(p, Given, a)
         /\ Python!sx_value_get_string(p, Given, a) <=> sx_value_get_string(p, Given, a)
         /\ Python!sx_value_get_field(p, f, Given, a) <=> sx_value_get_field(p, f, Given, a)
         /\ Python!sx_free(p, f) <=> sx_free(p, f)
BY DEF Python!sx_message_parse_text, Python!sx_message_decode_binary, Python!sx_message_to_text,
  Python!sx_message_encode_binary, Python!sx_hash_logical, Python!sx_value_get_string,
  Python!sx_value_get_field, Python!sx_free, Python!Of, Python!Answers, Python!Hand, Python!Failure,
  Python!Object, Python!Free, Python!IsA, Python!Uses, Python!CString, Python!Nothing,
  Python!abiVars,
  sx_message_parse_text, sx_message_decode_binary, sx_message_to_text,
  sx_message_encode_binary, sx_hash_logical, sx_value_get_string,
  sx_value_get_field, sx_free, Of, Answers, Hand, Failure,
  Object, Free, IsA, Uses, CString, Nothing, abiVars

\* A method's call of the ABI.
LEMMA PythonCalls ==
  ASSUME IInv, language = "Python", NEW t \in Threads, Python!CallAbi(t),
         UNCHANGED <<language, raw, got>>
  PROVE  OfTheRules /\ TypeOK'
<1>1. PICK a \in Addresses :
        /\ IF call[t].self = "class" THEN Python!Construct(a)
           ELSE Python!Read(handle[call[t].self], a)
        /\ call' = [call EXCEPT ![t] =
                      Python!In(call[t].self, "returned", a, heap'[a].kind, "none")]
  BY DEF Python!CallAbi
<1>2. call[t].step = "called" /\ handle' = handle /\ CallOK(call[t])
  BY DEF Python!CallAbi, IInv, TypeOK
<1>3. Calls(a)
  <2>1. CASE call[t].self = "class"
    BY <1>1, <2>1, PythonAbi DEF Python!Construct, Python!Given, Given, Calls
  <2>2. CASE call[t].self # "class"
    <3> DEFINE w == call[t].self
               p == handle[w]
    <3>1. w \in Objects /\ p \in Addresses \cup {Null}
      BY <1>2, <2>2 DEF CallOK, IInv, TypeOK
    <3>2. p \in Messages \cup {Null}
      <4>1. p \in Addresses => Held[w] = [at |-> p, kind |-> "message"]
        BY <3>1, HeldIs DEF ByHandle
      <4> QED
        BY <3>1, <4>1 DEF Messages, Holders
    <3>3. Python!Read(p, a)
      BY <1>1, <2>2
    <3> HIDE DEF p
    <3> QED
      BY <3>2, <3>3, PythonAbi DEF Python!Read, Python!Given, Given, Calls
  <2> QED
    BY <2>1, <2>2
<1>4. heap'[a].kind \in Kinds
  BY <1>3, CallHands DEF IInv, Sound, HeapOK
<1>5. /\ call'[t] = Python!In(call[t].self, "returned", a, heap'[a].kind, "none")
      /\ \A u \in Threads \ {t} : call'[u] = call[u]
      /\ call' = [u \in Threads |-> call'[u]]
  BY <1>1 DEF IInv, TypeOK
<1>6. Takes(t, a)
  <2>1. Held[t] = Nil
    BY <1>2, HeldIs DEF ByCall
  <2>2. Held'[t] = [at |-> a, kind |-> heap'[a].kind]
    BY <1>5, HeldIsNext DEF ByCall, Python!In
  <2>3. \A x \in Holders \ {t} : Held'[x] = Held[x]
    BY <1>2, <1>5, HeldIs, HeldIsNext DEF Holders
  <2>4. Held' = [Held EXCEPT ![t] = [at |-> a, kind |-> heap'[a].kind]]
    BY <2>2, <2>3, HeldIs, HeldIsNext DEF Holders
  <2> QED
    BY <1>3, <2>1, <2>4 DEF Takes
<1>7. TypeOK'
  BY <1>2, <1>4, <1>5 DEF IInv, TypeOK, CallOK, Python!In
<1> QED
  BY <1>6, <1>7 DEF OfTheRules, Holders

\* A thread goes on to another step of its method.
LEMMA ThreadGoesOn ==
  ASSUME IInv, NEW t \in Threads, NEW c, call' = [call EXCEPT ![t] = c],
         UNCHANGED <<language, handle, raw, got>>
  PROVE  /\ Held' = [Held EXCEPT ![t] = ByCall(c)]
         /\ CallOK(c) => TypeOK'
<1>1. /\ call'[t] = c /\ \A u \in Threads \ {t} : call'[u] = call[u]
      /\ call' = [u \in Threads |-> call'[u]]
  BY DEF IInv, TypeOK
<1>2. Held'[t] = ByCall(c) /\ \A x \in Holders \ {t} : Held'[x] = Held[x]
  BY <1>1, HeldIs, HeldIsNext DEF Holders
<1> QED
  BY <1>1, <1>2, HeldIs, HeldIsNext DEF IInv, TypeOK, CallOK, Holders

\* An exception on its way holds nothing.
LEMMA Raised ==
  ASSUME NEW c, CallOK(c), NEW step \in {"raising", "raised"}, NEW code
  PROVE  LET d == [c EXCEPT !.step = step, !.code = code]
         IN  CallOK(d) /\ d.step # "returned"
<1> DEFINE d == [c EXCEPT !.step = step, !.code = code]
<1>1. d = [self |-> c.self, step |-> step, at |-> c.at, kind |-> c.kind, code |-> code]
  <2>1. PICK self, was, at, kind, old :
          c = [self |-> self, step |-> was, at |-> at, kind |-> kind, code |-> old]
    BY Zenon DEF CallOK
  <2> HIDE DEF d
  <2>2. d = [self |-> self, step |-> step, at |-> at, kind |-> kind, code |-> code]
    <3>1. [c EXCEPT !.step = step]
            = [self |-> self, step |-> step, at |-> at, kind |-> kind, code |-> old]
      BY <2>1
    <3>2. d = [[c EXCEPT !.step = step] EXCEPT !.code = code]
      BY DEF d
    <3> QED
      BY <3>1, <3>2
  <2> QED
    BY <2>1, <2>2
<1> HIDE DEF d
<1>2. CallOK(d) /\ d.step # "returned"
  BY <1>1 DEF CallOK
<1> QED
  BY <1>2 DEF d

\* It begins a method, or raises or catches an exception.
LEMMA PythonRests ==
  ASSUME IInv, language = "Python", NEW t \in Threads, UNCHANGED <<language, raw, got>>,
         \/ Python!EnterClass(t) \/ Python!EnterMethod(t)
         \/ Python!RaiseError(t) \/ Python!Caught(t)
  PROVE  OfTheRules /\ TypeOK'
<1>1. ASSUME NEW c, call' = [call EXCEPT ![t] = c], CallOK(c), c.step # "returned",
             UNCHANGED <<heap, misused, handle>>, call[t].step # "returned"
      PROVE  OfTheRules /\ TypeOK'
  <2>1. Held[t] = Nil /\ ByCall(c) = Nil
    BY <1>1, HeldIs DEF ByCall
  <2>2. Held' = [Held EXCEPT ![t] = Nil] /\ TypeOK'
    BY <1>1, <2>1, ThreadGoesOn
  <2>3. Held' = Held
    BY <2>1, <2>2, HeldIs
  <2> QED
    BY <1>1, <2>2, <2>3 DEF OfTheRules, Rests
<1>2. CASE Python!EnterClass(t) \/ Python!EnterMethod(t)
  <2>1. PICK self : /\ self = "class" \/ (self \in Objects /\ handle[self] # Gone)
                    /\ Python!Enter(t, self)
    BY <1>2 DEF Python!EnterClass, Python!EnterMethod
  <2> DEFINE c == Python!In(self, "called", Null, "none", "none")
  <2>2. CallOK(c) /\ c.step # "returned"
    BY <2>1 DEF CallOK, Python!In
  <2>3. /\ call' = [call EXCEPT ![t] = c] /\ call[t].step # "returned"
        /\ UNCHANGED <<heap, misused, handle>>
    BY <2>1 DEF Python!Enter, Python!Idle, Python!In, Python!abiVars
  <2> HIDE DEF c
  <2> QED
    BY <1>1, <2>2, <2>3
<1>3. CASE Python!RaiseError(t)
  <2>1. PICK code : call' = [call EXCEPT ![t].step = "raised", ![t].code = code]
    BY <1>3 DEF Python!RaiseError
  <2> DEFINE c == [call[t] EXCEPT !.step = "raised", !.code = code]
  <2>2. CallOK(c) /\ c.step # "returned"
    BY Raised DEF IInv, TypeOK
  <2>3. /\ call' = [call EXCEPT ![t] = c] /\ call[t].step # "returned"
        /\ UNCHANGED <<heap, misused, handle>>
    BY <1>3, <2>1 DEF Python!RaiseError, Python!abiVars
  <2> HIDE DEF c
  <2> QED
    BY <1>1, <2>2, <2>3
<1>4. CASE Python!Caught(t)
  <2>1. CallOK(Python!Idle) /\ Python!Idle.step # "returned"
    BY DEF CallOK, Python!Idle, Python!In
  <2> QED
    BY <1>1, <1>4, <2>1 DEF Python!Caught, Python!abiVars
<1> QED
  BY <1>2, <1>3, <1>4

\* The outcome of a call is wrapped, released, or copied and released.
LEMMA PythonReturns ==
  ASSUME IInv, language = "Python", NEW t \in Threads, UNCHANGED <<language, raw, got>>,
         \/ Python!Wrap(t) \/ Python!Discard(t)
         \/ Python!CopyOut(t) \/ Python!ReleaseError(t)
  PROVE  OfTheRules /\ TypeOK'
<1>1. /\ Held[t] = [at |-> call[t].at, kind |-> call[t].kind]
      /\ t \in Holders /\ CallOK(call[t]) /\ call[t].step = "returned"
  BY HeldIs DEF IInv, TypeOK, ByCall, Holders, Python!Wrap, Python!Discard, Python!CopyOut,
                Python!ReleaseError
<1>2. ASSUME NEW c, call' = [call EXCEPT ![t] = c], CallOK(c), c.step # "returned",
             handle' = handle, Python!sx_free(call[t].at, call[t].kind)
      PROVE  OfTheRules /\ TypeOK'
  <2>1. Held' = [Held EXCEPT ![t] = Nil] /\ TypeOK'
    BY <1>2, ThreadGoesOn DEF ByCall
  <2>2. sx_free(Held[t].at, Held[t].kind)
    BY <1>1, <1>2, PythonAbi
  <2>3. GivesUp(t, t)
    BY <1>1, <2>1, <2>2, HeldIs DEF GivesUp
  <2> QED
    BY <1>1, <2>1, <2>3 DEF OfTheRules
<1>3. CallOK(Python!Idle) /\ Python!Idle.step # "returned"
  BY DEF CallOK, Python!Idle, Python!In
<1>4. CASE Python!Discard(t) \/ Python!CopyOut(t)
  BY <1>2, <1>3, <1>4 DEF Python!Discard, Python!CopyOut
<1>5. CASE Python!ReleaseError(t)
  <2> DEFINE c == [call[t] EXCEPT !.step = "raising", !.code = heap[call[t].at].value]
  <2>1. CallOK(c) /\ c.step # "returned"
    BY <1>1, Raised
  <2>2. call' = [call EXCEPT ![t] = c]
    BY <1>5 DEF Python!ReleaseError
  <2> HIDE DEF c
  <2> QED
    BY <1>2, <1>5, <2>1, <2>2 DEF Python!ReleaseError
<1>6. CASE Python!Wrap(t)
  <2>1. PICK w \in Objects : handle[w] = Gone /\ handle' = [handle EXCEPT ![w] = call[t].at]
    BY <1>6 DEF Python!Wrap
  <2>2. /\ call[t].kind = "message" /\ UNCHANGED <<heap, misused>>
        /\ call' = [call EXCEPT ![t] = Python!Idle]
    BY <1>6 DEF Python!Wrap, Python!abiVars
  <2>3. /\ call'[t] = Python!Idle /\ \A u \in Threads \ {t} : call'[u] = call[u]
        /\ call' = [u \in Threads |-> call'[u]]
    BY <2>2 DEF IInv, TypeOK
  <2>4. /\ handle'[w] = call[t].at /\ call[t].at \in Addresses
        /\ \A x \in Objects \ {w} : handle'[x] = handle[x]
        /\ handle' \in [Objects -> Addresses \cup {Null, Gone}]
    BY <1>1, <2>1 DEF IInv, TypeOK, CallOK
  <2>5. TypeOK'
    BY <1>3, <2>1, <2>3, <2>4, BindingConstants DEF IInv, TypeOK, CallOK
  <2>6. /\ Held[w] = Nil /\ Held'[w] = Held[t] /\ Held'[t] = Nil /\ w # t
        /\ \A x \in Holders \ {w, t} : Held'[x] = Held[x]
    <3>1. Held[w] = Nil
      BY <2>1, HeldIs, BindingConstants DEF ByHandle
    <3>2. Held'[w] = Held[t] /\ Held'[t] = Nil
      BY <1>1, <1>3, <2>2, <2>3, <2>4, HeldIsNext DEF ByHandle, ByCall
    <3>3. w # t
      BY BindingConstants
    <3> QED
      BY <2>3, <2>4, <3>1, <3>2, <3>3, HeldIs, HeldIsNext DEF Holders
  <2>7. sx_free(Held[w].at, Held[w].kind)
    BY <2>2, <2>6 DEF sx_free, Nil, abiVars
  <2>8. GivesUp(t, w)
    BY <1>1, <2>6, <2>7, HeldIs, HeldIsNext DEF GivesUp, Holders
  <2> QED
    BY <1>1, <2>5, <2>8 DEF OfTheRules, Holders
<1> QED
  BY <1>4, <1>5, <1>6

\* A message is released by its handle, a closed one has none.
LEMMA FreeByHandle ==
  ASSUME NEW p \in Addresses \cup {Null}, sx_free(p, "message")
  PROVE  sx_free(ByHandle(p).at, ByHandle(p).kind)
BY AbiConstants DEF ByHandle, sx_free, Nil

\* A message is closed, or collected.
LEMMA PythonCloses ==
  ASSUME IInv, language = "Python", NEW w \in Objects, UNCHANGED <<language, raw, got>>,
         Python!Close(w) \/ Python!Collect(w)
  PROVE  OfTheRules /\ TypeOK'
<1>1. PICK p \in {Null, Gone} : handle' = [handle EXCEPT ![w] = p]
  BY DEF Python!Close, Python!Collect
<1>2. /\ handle[w] \in Addresses \cup {Null} /\ call' = call
      /\ \A t \in Threads : call[t].self # w
      /\ sx_free(handle[w], "message")
  BY PythonAbi DEF Python!Close, Python!Collect, Python!InUse, IInv, TypeOK
<1>3. /\ handle'[w] = p /\ \A x \in Objects \ {w} : handle'[x] = handle[x]
      /\ handle' \in [Objects -> Addresses \cup {Null, Gone}]
  BY <1>1 DEF IInv, TypeOK
<1>4. TypeOK'
  BY <1>2, <1>3 DEF IInv, TypeOK, CallOK
<1>5. Held'[w] = Nil /\ \A x \in Holders \ {w} : Held'[x] = Held[x]
  BY <1>2, <1>3, HeldIs, HeldIsNext, BindingConstants, AbiConstants DEF Holders, ByHandle
<1>6. sx_free(Held[w].at, Held[w].kind)
  BY <1>2, FreeByHandle, HeldIs
<1>7. GivesUp(w, w)
  BY <1>5, <1>6, HeldIs, HeldIsNext DEF GivesUp, Holders
<1> QED
  BY <1>4, <1>7 DEF OfTheRules, Holders

\* Every step of a program in Python.
LEMMA PythonStep ==
  ASSUME IInv, language = "Python", Python!Next, UNCHANGED <<language, raw, got>>
  PROVE  OfTheRules /\ TypeOK'
BY PythonCalls, PythonRests, PythonReturns, PythonCloses DEF Python!Next, Python!Method
-----------------------------------------------------------------------------
(***************************************************************************)
(* C++.                                                                    *)
(***************************************************************************)
\* The functions that C++ calls are those of the ABI.
LEMMA CppAbi ==
  ASSUME NEW p, NEW a, NEW kind
  PROVE  /\ Cpp!sx_message_parse_text(p, Given, a) <=> sx_message_parse_text(p, Given, a)
         /\ Cpp!sx_message_to_text(p, Given, a) <=> sx_message_to_text(p, Given, a)
         /\ Cpp!sx_message_encode_binary(p, Given, a) <=> sx_message_encode_binary(p, Given, a)
         /\ Cpp!sx_free(p, kind) <=> sx_free(p, kind)
BY DEF Cpp!sx_message_parse_text, Cpp!sx_message_to_text, Cpp!sx_message_encode_binary,
       Cpp!sx_free, Cpp!Of, Cpp!Answers, Cpp!Hand, Cpp!Failure, Cpp!Object, Cpp!Free, Cpp!IsA,
       Cpp!Uses, Cpp!CString, Cpp!Nothing, Cpp!abiVars,
       sx_message_parse_text, sx_message_to_text, sx_message_encode_binary,
       sx_free, Of, Answers, Hand, Failure, Object, Free, IsA,
       Uses, CString, Nothing, abiVars

\* Only what the method in progress was handed changes.
LEMMA LocalGoesOn ==
  ASSUME UNCHANGED <<language, handle, raw, call>>
  PROVE  Held' = [Held EXCEPT !["local"] = got']
BY HeldIs, HeldIsNext DEF Holders

\* The local variable of the method in progress takes what a call hands out.
LEMMA LocalTakes ==
  ASSUME IInv, got = Nil, NEW a \in Addresses, Calls(a),
         got' = [at |-> a, kind |-> heap'[a].kind], UNCHANGED <<language, handle, raw, call>>
  PROVE  OfTheRules /\ TypeOK'
<1>1. heap'[a].kind \in Kinds
  BY CallHands DEF IInv, Sound, HeapOK
<1>2. TypeOK'
  BY <1>1 DEF IInv, TypeOK, CallOK
<1>3. Takes("local", a)
  BY LocalGoesOn, HeldIs DEF Takes
<1> QED
  BY <1>2, <1>3 DEF OfTheRules, Holders

\* What it holds is copied, and released.
LEMMA LocalReleases ==
  ASSUME IInv, sx_free(got.at, got.kind), got' = Nil, UNCHANGED <<language, handle, raw, call>>
  PROVE  OfTheRules /\ TypeOK'
<1>1. TypeOK'
  BY DEF IInv, TypeOK, CallOK
<1>2. GivesUp("local", "local")
  BY LocalGoesOn, HeldIs DEF GivesUp, Holders
<1> QED
  BY <1>1, <1>2 DEF OfTheRules, Holders

\* A method calls the ABI, of a message that may be empty.
LEMMA CppCalls ==
  ASSUME IInv, language = "C++", UNCHANGED <<language, handle, call>>,
         \/ Cpp!parse_text
         \/ \E x \in Objects : Cpp!to_text(x) \/ Cpp!to_binary(x)
  PROVE  OfTheRules /\ TypeOK'
<1>1. got = Nil /\ raw' = raw
  BY DEF Cpp!parse_text, Cpp!to_text, Cpp!to_binary, Cpp!Unborn, Cpp!Alive, Cpp!Nil, Nil, Cpp!Got
<1>2. \A x \in Objects : raw[x] # Gone => raw[x] \in Messages \cup {Null}
  <2> SUFFICES ASSUME NEW x \in Objects, raw[x] \in Addresses PROVE raw[x] \in Messages
    BY DEF IInv, TypeOK
  <2>1. Held[x] = [at |-> raw[x], kind |-> "message"]
    BY HeldIs DEF ByHandle
  <2> QED
    BY <2>1 DEF Messages, Holders
<1>3. PICK a \in Addresses : Calls(a) /\ got' = [at |-> a, kind |-> heap'[a].kind]
  <2>1. CASE Cpp!parse_text
    BY <2>1, CppAbi DEF Cpp!parse_text, Cpp!Given, Given, Cpp!Got, Calls
  <2>2. ASSUME NEW x \in Objects, Cpp!to_text(x) \/ Cpp!to_binary(x)
        PROVE  \E a \in Addresses : Calls(a) /\ got' = [at |-> a, kind |-> heap'[a].kind]
    <3> DEFINE p == raw[x]
    <3>1. p \in Messages \cup {Null}
      BY <1>2, <2>2 DEF Cpp!to_text, Cpp!to_binary, Cpp!Alive
    <3>2. PICK a \in Addresses :
            /\ sx_message_to_text(p, Given, a) \/ sx_message_encode_binary(p, Given, a)
            /\ Cpp!Got(a)
      BY <2>2, CppAbi DEF Cpp!to_text, Cpp!to_binary, Cpp!Given, Given
    <3> HIDE DEF p
    <3> QED
      BY <3>1, <3>2 DEF Cpp!Got, Calls
  <2> QED
    BY <2>1, <2>2
<1> QED
  BY <1>1, <1>3, LocalTakes

\* A message is made empty or moved, or is destroyed.
LEMMA CppMoves ==
  ASSUME IInv, language = "C++", UNCHANGED <<language, handle, call, got>>,
         NEW x \in Objects, NEW other \in Objects,
         \/ Cpp!Construct(x) \/ Cpp!Destroy(x)
         \/ Cpp!MoveConstruct(x, other) \/ Cpp!MoveAssign(x, other)
  PROVE  OfTheRules /\ TypeOK'
<1>1. /\ raw' \in [Objects -> Addresses \cup {Null, Gone}]
      /\ TypeOK'
  BY DEF IInv, TypeOK, CallOK, Cpp!Construct, Cpp!Destroy, Cpp!MoveConstruct, Cpp!MoveAssign
<1>2. \A y \in Objects : Held[y] = ByHandle(raw[y]) /\ Held'[y] = ByHandle(raw'[y])
  BY HeldIs, HeldIsNext
<1>3. \A y \in Holders \ Objects : Held'[y] = Held[y]
  BY HeldIs, HeldIsNext DEF Holders
<1>4. ByHandle(Null) = Nil /\ ByHandle(Gone) = Nil
  BY AbiConstants, BindingConstants DEF ByHandle
<1>5. ASSUME raw' = raw, UNCHANGED <<heap, misused>> PROVE OfTheRules
  <2>1. Held' = Held
    BY <1>2, <1>3, <1>5, HeldIs, HeldIsNext
  <2> QED
    BY <1>5, <2>1 DEF OfTheRules, Rests
<1>6. CASE Cpp!Construct(x)
  <2>1. /\ raw[x] = Gone /\ raw'[x] = Null /\ UNCHANGED <<heap, misused>>
        /\ \A y \in Objects \ {x} : raw'[y] = raw[y]
    BY <1>6 DEF Cpp!Construct, Cpp!Unborn, Cpp!abiVars, IInv, TypeOK
  <2>2. Held' = Held
    BY <1>2, <1>3, <1>4, <2>1, HeldIs, HeldIsNext
  <2> QED
    BY <1>1, <2>1, <2>2 DEF OfTheRules, Rests
<1>7. CASE Cpp!Destroy(x)
  <2>1. /\ raw[x] \in Addresses \cup {Null} /\ raw'[x] = Gone
        /\ \A y \in Objects \ {x} : raw'[y] = raw[y]
        /\ sx_free(raw[x], "message")
    BY <1>7, CppAbi DEF Cpp!Destroy, Cpp!Alive, IInv, TypeOK
  <2>2. GivesUp(x, x)
    BY <1>2, <1>3, <1>4, <2>1, FreeByHandle, HeldIs, HeldIsNext DEF GivesUp, Holders
  <2> QED
    BY <1>1, <2>2 DEF OfTheRules, Holders
<1>8. CASE x # other /\ (Cpp!MoveConstruct(x, other) \/ Cpp!MoveAssign(x, other))
  <2>1. /\ raw'[x] = raw[other] /\ raw'[other] = Null
        /\ \A y \in Objects \ {x, other} : raw'[y] = raw[y]
    BY <1>8 DEF Cpp!MoveConstruct, Cpp!MoveAssign, IInv, TypeOK
  <2>2. sx_free(Held[x].at, Held[x].kind)
    <3>1. CASE Cpp!MoveConstruct(x, other)
      <4>1. Held[x] = Nil /\ UNCHANGED abiVars
        BY <1>2, <1>4, <3>1 DEF Cpp!MoveConstruct, Cpp!Unborn, Cpp!abiVars, abiVars
      <4> QED
        BY <4>1 DEF sx_free, Nil
    <3>2. CASE Cpp!MoveAssign(x, other)
      <4>1. raw[x] \in Addresses \cup {Null} /\ sx_free(raw[x], "message")
        BY <1>8, <3>2, CppAbi DEF Cpp!MoveAssign, Cpp!Alive, IInv, TypeOK
      <4> QED
        BY <1>2, <4>1, FreeByHandle
    <3> QED
      BY <1>8, <3>1, <3>2
  <2>3. Held'[x] = Held[other] /\ Held'[other] = Nil
    BY <1>2, <1>4, <2>1
  <2>4. \A y \in Holders \ {x, other} : Held'[y] = Held[y]
    BY <1>2, <1>3, <2>1
  <2>5. GivesUp(other, x)
    BY <1>8, <2>2, <2>3, <2>4, HeldIs, HeldIsNext DEF GivesUp, Holders
  <2> QED
    BY <1>1, <2>5 DEF OfTheRules, Holders
<1>9. CASE x = other /\ (Cpp!MoveConstruct(x, other) \/ Cpp!MoveAssign(x, other))
  BY <1>1, <1>5, <1>9 DEF Cpp!MoveConstruct, Cpp!MoveAssign, Cpp!Unborn, Cpp!Alive, Cpp!abiVars
<1> QED
  BY <1>6, <1>7, <1>8, <1>9

\* The message a method was handed goes to a variable that held nothing.
LEMMA LocalPasses ==
  ASSUME IInv, got.kind = "message", got' = Nil, UNCHANGED <<language, call, heap, misused>>,
         NEW x \in Objects, Held[x] = Nil, Held'[x] = ByHandle(got.at),
         \A y \in Objects \ {x} : Held'[y] = Held[y]
  PROVE  GivesUp("local", x)
<1>1. got = [at |-> got.at, kind |-> "message"] /\ got.at \in Addresses
  BY DEF IInv, TypeOK, Nil
<1>2. Held'[x] = got /\ Held["local"] = got /\ Held'["local"] = Nil /\ x # "local"
  BY <1>1, HeldIs, HeldIsNext, BindingConstants DEF ByHandle
<1>3. \A y \in Holders \ {x, "local"} : Held'[y] = Held[y]
  BY HeldIs, HeldIsNext DEF Holders
<1>4. sx_free(Held[x].at, Held[x].kind)
  BY DEF sx_free, Nil, abiVars
<1> QED
  BY <1>2, <1>3, <1>4, HeldIs, HeldIsNext DEF GivesUp, Holders

\* A method returns, or throws.
LEMMA CppReturns ==
  ASSUME IInv, language = "C++", UNCHANGED <<language, handle, call>>,
         \/ Cpp!ReturnMessage \/ Cpp!ReturnCopy
         \/ Cpp!throw_if_error \/ Cpp!throw_without_error
  PROVE  OfTheRules /\ TypeOK'
<1>1. CASE Cpp!ReturnCopy \/ Cpp!throw_if_error
  <2>1. sx_free(got.at, got.kind) /\ got' = Nil /\ raw' = raw
    BY <1>1, CppAbi DEF Cpp!ReturnCopy, Cpp!throw_if_error, Cpp!Nil, Nil
  <2> QED
    BY <2>1, LocalReleases
<1>2. CASE Cpp!ReturnMessage
  <2>1. PICK x \in Objects : raw[x] = Gone /\ raw' = [raw EXCEPT ![x] = got.at]
    BY <1>2 DEF Cpp!ReturnMessage
  <2>2. got.kind = "message" /\ got' = Nil /\ UNCHANGED <<heap, misused>>
    BY <1>2 DEF Cpp!ReturnMessage, Cpp!Nil, Nil, Cpp!abiVars
  <2>3. got.at \in Addresses
    BY <2>2 DEF IInv, TypeOK, Nil
  <2>4. TypeOK'
    BY <2>1, <2>2, <2>3 DEF IInv, TypeOK, CallOK
  <2>5. /\ raw'[x] = got.at /\ \A y \in Objects \ {x} : raw'[y] = raw[y]
    BY <2>1 DEF IInv, TypeOK
  <2>6. /\ Held[x] = Nil /\ Held'[x] = ByHandle(got.at)
        /\ \A y \in Objects \ {x} : Held'[y] = Held[y]
    <3>1. Held[x] = Nil
      BY <2>1, HeldIs, BindingConstants DEF ByHandle
    <3>2. Held'[x] = ByHandle(got.at)
      BY <2>5, HeldIsNext
    <3>3. \A y \in Objects \ {x} : Held'[y] = Held[y]
      BY <2>5, HeldIs, HeldIsNext
    <3> QED
      BY <3>1, <3>2, <3>3
  <2>7. GivesUp("local", x)
    BY <2>2, <2>6, LocalPasses
  <2> QED
    BY <2>4, <2>7 DEF OfTheRules, Holders
<1>3. CASE Cpp!throw_without_error
  BY <1>3 DEF OfTheRules, Drops, IInv, TypeOK, CallOK, Cpp!throw_without_error, Cpp!Nil, Nil
<1> QED
  BY <1>1, <1>2, <1>3

\* Every step of a program in C++.
LEMMA CppStep ==
  ASSUME IInv, language = "C++", Cpp!Next, UNCHANGED <<language, handle, call>>
  PROVE  OfTheRules /\ TypeOK'
<1>1. CASE Cpp!parse_text \/ \E x \in Objects : Cpp!to_text(x) \/ Cpp!to_binary(x)
  BY <1>1, CppCalls
<1>2. CASE \/ Cpp!ReturnMessage \/ Cpp!ReturnCopy
           \/ Cpp!throw_if_error \/ Cpp!throw_without_error
  BY <1>2, CppReturns
<1>3. ASSUME NEW x \in Objects, NEW other \in Objects,
             \/ Cpp!Construct(x) \/ Cpp!Destroy(x)
             \/ Cpp!MoveConstruct(x, other) \/ Cpp!MoveAssign(x, other)
      PROVE  OfTheRules /\ TypeOK'
  <2>1. got' = got
    BY <1>3 DEF Cpp!Construct, Cpp!Destroy, Cpp!MoveConstruct, Cpp!MoveAssign
  <2> QED
    BY <1>3, <2>1, CppMoves
<1> QED
  BY <1>1, <1>2, <1>3 DEF Cpp!Next
-----------------------------------------------------------------------------
(***************************************************************************)
(* Java.                                                                   *)
(***************************************************************************)
\* The functions that Java calls are those of the ABI.
LEMMA JavaAbi ==
  ASSUME NEW p, NEW a, NEW kind
  PROVE  /\ Java!sx_message_parse_text(p, Given, a) <=> sx_message_parse_text(p, Given, a)
         /\ Java!sx_message_to_text(p, Given, a) <=> sx_message_to_text(p, Given, a)
         /\ Java!sx_free(p, kind) <=> sx_free(p, kind)
BY DEF Java!sx_message_parse_text, Java!sx_message_to_text, Java!sx_free, Java!Of, Java!Answers,
       Java!Hand, Java!Failure, Java!Object, Java!Free, Java!IsA, Java!Uses, Java!CString,
       Java!Nothing, Java!abiVars,
       sx_message_parse_text, sx_message_to_text, sx_free, Of, Answers,
       Hand, Failure, Object, Free, IsA, Uses, CString, Nothing, abiVars

\* A method calls the ABI, of a message that may be closed.
LEMMA JavaCalls ==
  ASSUME IInv, language = "Java", UNCHANGED <<language, raw, call>>,
         Java!parseText \/ \E x \in Objects : Java!toText(x)
  PROVE  OfTheRules /\ TypeOK'
<1>1. got = Nil /\ handle' = handle
  BY DEF Java!parseText, Java!toText, Java!Alive, Java!Nil, Nil, Java!Got
<1>2. \A x \in Objects : handle[x] # Gone => handle[x] \in Messages \cup {Null}
  <2> SUFFICES ASSUME NEW x \in Objects, handle[x] \in Addresses PROVE handle[x] \in Messages
    BY DEF IInv, TypeOK
  <2>1. Held[x] = [at |-> handle[x], kind |-> "message"]
    BY HeldIs DEF ByHandle
  <2> QED
    BY <2>1 DEF Messages, Holders
<1>3. PICK a \in Addresses : Calls(a) /\ got' = [at |-> a, kind |-> heap'[a].kind]
  <2>1. CASE Java!parseText
    BY <2>1, JavaAbi DEF Java!parseText, Java!Given, Given, Java!Got, Calls
  <2>2. ASSUME NEW x \in Objects, Java!toText(x)
        PROVE  \E a \in Addresses : Calls(a) /\ got' = [at |-> a, kind |-> heap'[a].kind]
    <3> DEFINE p == handle[x]
    <3>1. p \in Messages \cup {Null}
      BY <1>2, <2>2 DEF Java!toText, Java!Alive
    <3>2. PICK a \in Addresses : sx_message_to_text(p, Given, a) /\ Java!Got(a)
      BY <2>2, JavaAbi DEF Java!toText, Java!Given, Given
    <3> HIDE DEF p
    <3> QED
      BY <3>1, <3>2 DEF Java!Got, Calls
  <2> QED
    BY <2>1, <2>2
<1> QED
  BY <1>1, <1>3, LocalTakes

\* A method returns, or throws and drops its error.
LEMMA JavaReturns ==
  ASSUME IInv, language = "Java", UNCHANGED <<language, raw, call>>,
         Java!ReturnMessage \/ Java!ReturnText \/ Java!Throw
  PROVE  OfTheRules /\ TypeOK'
<1>1. CASE Java!ReturnText
  <2>1. sx_free(got.at, got.kind) /\ got' = Nil /\ handle' = handle
    BY <1>1, JavaAbi DEF Java!ReturnText, Java!Nil, Nil
  <2> QED
    BY <2>1, LocalReleases
<1>2. CASE Java!ReturnMessage
  <2>1. PICK x \in Objects : handle[x] = Gone /\ handle' = [handle EXCEPT ![x] = got.at]
    BY <1>2 DEF Java!ReturnMessage
  <2>2. got.kind = "message" /\ got' = Nil /\ UNCHANGED <<heap, misused>>
    BY <1>2 DEF Java!ReturnMessage, Java!Nil, Nil, Java!abiVars
  <2>3. got.at \in Addresses
    BY <2>2 DEF IInv, TypeOK, Nil
  <2>4. /\ handle'[x] = got.at /\ \A y \in Objects \ {x} : handle'[y] = handle[y]
    BY <2>1 DEF IInv, TypeOK
  <2>5. TypeOK'
    BY <2>1, <2>2, <2>3, <2>4, BindingConstants DEF IInv, TypeOK, CallOK
  <2>6. /\ Held[x] = Nil /\ Held'[x] = ByHandle(got.at)
        /\ \A y \in Objects \ {x} : Held'[y] = Held[y]
    <3>1. Held[x] = Nil
      BY <2>1, HeldIs, BindingConstants DEF ByHandle
    <3>2. Held'[x] = ByHandle(got.at)
      BY <2>4, HeldIsNext
    <3>3. \A y \in Objects \ {x} : Held'[y] = Held[y]
      BY <2>4, HeldIs, HeldIsNext
    <3> QED
      BY <3>1, <3>2, <3>3
  <2>7. GivesUp("local", x)
    BY <2>2, <2>6, LocalPasses
  <2> QED
    BY <2>5, <2>7 DEF OfTheRules, Holders
<1>3. CASE Java!Throw
  BY <1>3 DEF OfTheRules, Drops, IInv, TypeOK, CallOK, Java!Throw, Java!Nil, Nil
<1> QED
  BY <1>1, <1>2, <1>3

\* A message is closed, or a closed one collected.
LEMMA JavaCloses ==
  ASSUME IInv, language = "Java", UNCHANGED <<language, raw, call>>, NEW x \in Objects,
         Java!close(x) \/ Java!Collect(x)
  PROVE  OfTheRules /\ TypeOK'
<1>1. PICK p \in {Null, Gone} : handle' = [handle EXCEPT ![x] = p]
  BY DEF Java!close, Java!Collect
<1>2. handle[x] \in Addresses \cup {Null} /\ got = Nil /\ got' = got
  BY DEF Java!close, Java!Collect, Java!Alive, Java!Nil, Nil, IInv, TypeOK
<1>3. sx_free(handle[x], "message")
  BY JavaAbi DEF Java!close, Java!Collect, Java!abiVars, sx_free, abiVars
<1>4. /\ handle'[x] = p /\ \A y \in Objects \ {x} : handle'[y] = handle[y]
      /\ handle' \in [Objects -> Addresses \cup {Null, Gone}]
  BY <1>1 DEF IInv, TypeOK
<1>5. Held'[x] = Nil /\ \A y \in Holders \ {x} : Held'[y] = Held[y]
  BY <1>2, <1>4, HeldIs, HeldIsNext, BindingConstants, AbiConstants DEF Holders, ByHandle
<1>6. sx_free(Held[x].at, Held[x].kind)
  BY <1>2, <1>3, FreeByHandle, HeldIs
<1>7. GivesUp(x, x)
  BY <1>5, <1>6, HeldIs, HeldIsNext DEF GivesUp, Holders
<1>8. TypeOK'
  BY <1>2, <1>4 DEF IInv, TypeOK, CallOK
<1> QED
  BY <1>7, <1>8 DEF OfTheRules, Holders

\* Every step of a program in Java.
LEMMA JavaStep ==
  ASSUME IInv, language = "Java", Java!Next, UNCHANGED <<language, raw, call>>
  PROVE  OfTheRules /\ TypeOK'
BY JavaCalls, JavaReturns, JavaCloses DEF Java!Next
-----------------------------------------------------------------------------
\* Every step of every program is one of the rules, or drops an error.
LEMMA NextIsOfTheRules ==
  ASSUME IInv, Next
  PROVE  OfTheRules /\ TypeOK' /\ language' = language /\ (Drops => call' = call)
BY PythonStep, CppStep, JavaStep DEF Next, Drops

\* Such a step keeps everything held once, and as what it is.
LEMMA OfTheRulesKept ==
  ASSUME IInv, OfTheRules, language' = language, Drops => call' = call
  PROVE  Sound'
BY TakeStep, GiveUpStep, DropStep, RestStep DEF OfTheRules, IInv

\* The invariant holds in every state of every program in Python, C++ and Java.
THEOREM Invariant == Spec => []IInv
<1>1. IInv /\ [Next]_vars => IInv'
  <2> SUFFICES ASSUME IInv, [Next]_vars PROVE IInv'
    OBVIOUS
  <2>1. CASE Next
    BY <2>1, NextIsOfTheRules, OfTheRulesKept DEF IInv
  <2>2. CASE UNCHANGED vars
    <3>1. Held' = Held
      BY <2>2 DEF vars, Held
    <3>2. Sound'
      BY <2>2, <3>1, RestStep DEF vars, Rests, IInv
    <3>3. TypeOK'
      BY <2>2 DEF vars, IInv, TypeOK, CallOK
    <3> QED
      BY <3>2, <3>3 DEF IInv
  <2> QED
    BY <2>1, <2>2
<1> QED
  BY InitEstablishes, <1>1, PTL DEF Spec

\* No binding gives a function of the ABI a pointer to what it is not for, and
\* what it keeps a pointer to is there, but for the error that Python has
\* released and whose code it still reads.
THEOREM BindingsNeverMisuse == Spec => []NoMisuse
<1>1. IInv => NoMisuse
  <2> SUFFICES ASSUME IInv, NEW x \in DOMAIN Kept, Kept[x].kind # "none",
                      ~ (x \in Threads /\ call[x].step = "raising")
               PROVE  IsA(Kept[x].at, Kept[x].kind)
    BY DEF NoMisuse, IInv, Sound
  <2>1. x \in Holders /\ Kept[x] = Held[x]
    BY HeldIs DEF Kept
  <2> QED
    BY <2>1 DEF IInv, Sound, Honest, Nil
<1> QED
  BY Invariant, <1>1, PTL

\* No binding leaves anything on the heap that it no longer holds, but for the
\* errors that Java drops, and C++ where it reads err before the call.
THEOREM BindingsLoseNothing == Spec => []NothingLost
<1>1. IInv => NothingLost
  BY DEF IInv, Sound
<1> QED
  BY Invariant, <1>1, PTL
-----------------------------------------------------------------------------
(***************************************************************************)
(* The refinement of the C caller.                                         *)
(***************************************************************************)
\* The functions that the rules speak of are those of the ABI.
LEMMA RulesAbi ==
  ASSUME NEW p, NEW a, NEW given, NEW x
  PROVE  /\ Rules!sx_message_parse_text(p, given, a) <=> sx_message_parse_text(p, given, a)
         /\ Rules!sx_message_decode_binary(p, given, a) <=> sx_message_decode_binary(p, given, a)
         /\ Rules!sx_message_to_text(p, given, a) <=> sx_message_to_text(p, given, a)
         /\ Rules!sx_message_encode_binary(p, given, a) <=> sx_message_encode_binary(p, given, a)
         /\ Rules!sx_hash_logical(p, given, a) <=> sx_hash_logical(p, given, a)
         /\ Rules!sx_value_get_string(p, given, a) <=> sx_value_get_string(p, given, a)
         /\ Rules!sx_value_get_field(p, x, given, a) <=> sx_value_get_field(p, x, given, a)
         /\ Rules!sx_free(p, x) <=> sx_free(p, x)
BY DEF Rules!sx_message_parse_text, Rules!sx_message_decode_binary, Rules!sx_message_to_text,
       Rules!sx_message_encode_binary, Rules!sx_hash_logical, Rules!sx_value_get_string,
       Rules!sx_value_get_field, Rules!sx_free, Rules!Of, Rules!Answers, Rules!Hand,
       Rules!Failure, Rules!Object, Rules!Free, Rules!IsA, Rules!Uses, Rules!CString,
       Rules!Nothing, Rules!abiVars,
       sx_message_parse_text, sx_message_decode_binary, sx_message_to_text,
       sx_message_encode_binary, sx_hash_logical, sx_value_get_string,
       sx_value_get_field, sx_free, Of, Answers, Hand, Failure,
       Object, Free, IsA, Uses, CString, Nothing, abiVars

\* A method of Python has released its error and has still to read its code.
Raises(x) == x \in Threads /\ call[x].step = "raising"

\* Kept, pointer by pointer: it holds nothing more than Held but to the errors
\* already released.
LEMMA KeptIs ==
  /\ Kept = [x \in Holders |-> Kept[x]]
  /\ \A x \in Holders : Kept[x] = IF Raises(x) THEN [at |-> call[x].at, kind |-> "error"]
                                  ELSE Held[x]
  /\ \A x \in Holders : Raises(x) => Held[x] = Nil
<1>1. DOMAIN Held = Holders
  BY HeldIs
<1>2. Kept = [x \in Holders |-> IF x \in Threads /\ call[x].step = "raising"
                                THEN [at |-> call[x].at, kind |-> "error"] ELSE Held[x]]
  BY <1>1 DEF Kept
<1>3. \A x \in Holders : Raises(x) => Held[x] = Nil
  BY HeldIs DEF Raises, ByCall
<1> QED
  BY <1>2, <1>3 DEF Raises

\* The same in the next state.
LEMMA KeptIsNext ==
  /\ Kept' = [x \in Holders |-> Kept'[x]]
  /\ \A x \in Holders : Kept'[x] = IF Raises(x)' THEN [at |-> call'[x].at, kind |-> "error"]
                                   ELSE Held'[x]
  /\ \A x \in Holders : Raises(x)' => Held'[x] = Nil
<1>1. DOMAIN Held' = Holders
  BY HeldIsNext
<1>2. Kept' = [x \in Holders |-> IF x \in Threads /\ call'[x].step = "raising"
                                 THEN [at |-> call'[x].at, kind |-> "error"] ELSE Held'[x]]
  BY <1>1 DEF Kept
<1>3. \A x \in Holders : Raises(x)' => Held'[x] = Nil
  BY HeldIsNext DEF Raises, ByCall
<1> QED
  BY <1>2, <1>3 DEF Raises

\* No method comes to have an error to read, or reads it.
Steady ==
  \A t \in Threads : /\ Raises(t)' <=> Raises(t)
                     /\ Raises(t) => call'[t] = call[t]

\* Every step is such a step, but for those that Python has of its own.
LEMMA SteadyOrOverstays ==
  ASSUME IInv, Next
  PROVE  Steady \/ Overstays
<1>1. CASE UNCHANGED call
  BY <1>1 DEF Steady, Raises
<1>2. CASE Python!Next /\ language = "Python"
  <2>1. ASSUME NEW t \in Threads, NEW c, call' = [call EXCEPT ![t] = c],
               call[t].step # "raising", c.step # "raising"
        PROVE  Steady
    BY <2>1 DEF Steady, Raises, IInv, TypeOK
  <2>2. ASSUME NEW t \in Threads, Python!Method(t)
        PROVE  Steady \/ Overstays
    <3>1. CASE Python!EnterClass(t) \/ Python!EnterMethod(t)
      BY <2>1, <3>1 DEF Python!EnterClass, Python!EnterMethod, Python!Enter, Python!Idle, Python!In
    <3>2. CASE Python!CallAbi(t)
      BY <2>1, <3>2 DEF Python!CallAbi, Python!In
    <3>3. CASE Python!Wrap(t) \/ Python!Discard(t) \/ Python!CopyOut(t) \/ Python!Caught(t)
      BY <2>1, <3>3 DEF Python!Wrap, Python!Discard, Python!CopyOut, Python!Caught,
                        Python!Idle, Python!In
    <3>4. CASE Python!ReleaseError(t) \/ Python!RaiseError(t)
      BY <1>2, <3>4 DEF Overstays
    <3> QED
      BY <2>2, <3>1, <3>2, <3>3, <3>4 DEF Python!Method
  <2>3. ASSUME NEW w \in Objects, Python!Close(w) \/ Python!Collect(w)
        PROVE  Steady
    BY <2>3 DEF Python!Close, Python!Collect, Steady, Raises
  <2> QED
    BY <1>2, <2>2, <2>3 DEF Python!Next
<1> QED
  BY <1>1, <1>2 DEF Next

\* In a steady step what is kept changes as what is held does.
LEMMA SteadyKept ==
  ASSUME Steady
  PROVE  \A x \in Holders : /\ Raises(x) => Kept'[x] = Kept[x] /\ Held'[x] = Nil
                            /\ ~ Raises(x) => Kept[x] = Held[x] /\ Kept'[x] = Held'[x]
<1>1. \A x \in Holders : Raises(x)' <=> Raises(x)
  BY DEF Steady, Raises
<1>2. \A x \in Holders : Raises(x) => call'[x] = call[x]
  BY DEF Steady, Raises
<1> QED
  BY <1>1, <1>2, KeptIs, KeptIsNext

\* Taking what a call hands out is CCaller's Call,
LEMMA TakesIsCall ==
  ASSUME IInv, Steady, NEW x \in Holders, NEW a \in Addresses, Takes(x, a)
  PROVE  Rules!Call
<1>1. ~ Raises(x)
  <2>1. Held'[x] # Nil
    BY HeldIs, AbiConstants DEF Takes, Nil
  <2> QED
    BY <2>1, SteadyKept
<1>2. x \in Rules!Vacant
  BY <1>1, SteadyKept DEF Rules!Vacant, Rules!Nil, Nil, Takes, Holders
<1>3. Rules!Holding("message") = Messages
  <2>1. \A y \in Holders : Kept[y].kind = "message" <=> Held[y].kind = "message"
    BY KeptIs DEF Nil
  <2>2. \A y \in Holders : Kept[y].kind = "message" => Kept[y] = Held[y]
    BY KeptIs
  <2> QED
    BY <2>1, <2>2 DEF Rules!Holding, Messages, Holders
<1>4. Rules!Keep(x, a)
  <2>1. Kept'[x] = [at |-> a, kind |-> heap'[a].kind]
    BY <1>1, SteadyKept, HeldIs DEF Takes
  <2>2. \A y \in Holders \ {x} : Kept'[y] = Kept[y]
    BY SteadyKept, HeldIs DEF Takes
  <2>3. Kept' = [Kept EXCEPT ![x] = [at |-> a, kind |-> heap'[a].kind]]
    BY <2>1, <2>2, KeptIs, KeptIsNext
  <2> QED
    BY <2>3, AbiConstants DEF Rules!Keep
<1>5. Given \in SUBSET {"out", "err"}
  BY DEF Given
<1>6. \/ Rules!Make(Given, a)
      \/ \E p \in Rules!Holding("message") \cup {Null} : Rules!Ask(p, Given, a)
  BY <1>3, RulesAbi DEF Takes, Calls, Rules!Make, Rules!Ask
<1> QED
  BY <1>2, <1>4, <1>5, <1>6 DEF Rules!Call

\* giving up is its Release, and passing on its Assign.
LEMMA GivesUpIsRelease ==
  ASSUME Steady, NEW x \in Holders, NEW y \in Holders, GivesUp(x, y)
  PROVE  Rules!Release \/ Rules!Assign \/ UNCHANGED Rules!vars
<1>1. /\ Held'[x] = Nil
      /\ x # y => Held'[y] = Held[x]
      /\ \A z \in Holders \ {x, y} : Held'[z] = Held[z]
  BY HeldIs DEF GivesUp
<1>2. \A z \in Holders \ {x, y} : Kept'[z] = Kept[z]
  BY <1>1, SteadyKept
<1>3. CASE Raises(y)
  <2>1. Held[y] = Nil /\ Kept'[y] = Kept[y]
    BY <1>3, KeptIs, SteadyKept
  <2>2. UNCHANGED abiVars
    BY <2>1 DEF GivesUp, sx_free, Nil
  <2>3. Kept'[x] = Kept[x]
    <3>1. x # y => Held[x] = Nil
      BY <1>1, <1>3, SteadyKept
    <3> QED
      BY <1>1, <2>1, <3>1, SteadyKept
  <2>4. Kept' = Kept
    BY <1>2, <2>1, <2>3, KeptIs, KeptIsNext
  <2> QED
    BY <2>2, <2>4 DEF Rules!vars, Rules!abiVars, abiVars
<1>4. CASE ~ Raises(y)
  <2>1. Kept[y] = Held[y] /\ Kept'[y] = Held'[y]
    BY <1>4, SteadyKept
  <2>2. Rules!sx_free(Kept[y].at, Kept[y].kind)
    BY <2>1, RulesAbi DEF GivesUp
  <2>3. CASE x = y \/ Raises(x)
    <3>1. Kept'[y] = Nil
      BY <1>1, <2>1, <2>3, KeptIs
    <3>2. \A z \in Holders \ {y} : Kept'[z] = Kept[z]
      BY <1>2, <2>3, SteadyKept
    <3>3. Kept' = [Kept EXCEPT ![y] = Rules!Nil]
      BY <3>1, <3>2, KeptIs, KeptIsNext DEF Rules!Nil, Nil
    <3> QED
      BY <2>2, <3>3 DEF Rules!Release, Holders
  <2>4. CASE x # y /\ ~ Raises(x)
    <3>1. Kept'[y] = Kept[x] /\ Kept'[x] = Nil
      BY <1>1, <2>1, <2>4, SteadyKept
    <3>2. Kept' = [Kept EXCEPT ![y] = Kept[x], ![x] = Rules!Nil]
      BY <1>2, <3>1, KeptIs, KeptIsNext DEF Rules!Nil, Nil
    <3> QED
      BY <2>2, <2>4, <3>2 DEF Rules!Assign, Holders
  <2> QED
    BY <2>3, <2>4
<1> QED
  BY <1>3, <1>4

\* A program that uses a binding is a program in C that keeps to the rules:
\* every step of a binding is a step of CCaller, or none, but for the errors
\* that Java and C++ drop and the error that Python reads after its release.
THEOREM BindingsFollowTheRules == Spec => FollowsTheRules
<1> DEFINE Follows == UNCHANGED Rules!vars \/ Drops \/ Overstays \/ Rules!Next
<1>1. Init => Rules!Init
  <2> SUFFICES ASSUME Init PROVE Rules!Init
    OBVIOUS
  <2>1. Rules!AbiInit
    BY DEF Init, Python!Init, Python!AbiInit, Rules!AbiInit, Python!Free, Rules!Free
  <2>2. \A x \in Holders : Held[x] = Nil /\ ~ Raises(x)
    BY HeldIs, BindingConstants
       DEF Init, Python!Init, Cpp!Init, Holders, ByHandle, ByCall, Nil, Cpp!Nil, Python!Idle,
           Python!In, Raises
  <2>3. Kept = [x \in Holders |-> Nil]
    BY <2>2, KeptIs
  <2> QED
    BY <2>1, <2>3 DEF Rules!Init, Rules!Nil, Nil, Holders
<1>2. IInv /\ [Next]_vars => [Follows]_vars
  <2> SUFFICES ASSUME IInv, Next, ~ Overstays PROVE Follows
    OBVIOUS
  <2>0. Steady
    BY SteadyOrOverstays
  <2>1. CASE \E x \in Holders, a \in Addresses : Takes(x, a)
    BY <2>0, <2>1, TakesIsCall DEF Rules!Next
  <2>2. CASE \E x, y \in Holders : GivesUp(x, y)
    BY <2>0, <2>2, GivesUpIsRelease DEF Rules!Next
  <2>3. CASE Rests
    <3>1. Kept' = Kept
      BY <2>0, <2>3, SteadyKept, KeptIs, KeptIsNext DEF Rests
    <3> QED
      BY <2>3, <3>1 DEF Rests, Rules!vars, Rules!abiVars
  <2>4. CASE Drops
    BY <2>4
  <2> QED
    BY <2>1, <2>2, <2>3, <2>4, NextIsOfTheRules DEF OfTheRules
<1> HIDE DEF Follows
<1>3. Spec => Rules!Init /\ [][Follows]_vars
  BY <1>1, <1>2, Invariant, PTL DEF Spec
<1> QED
  BY <1>3 DEF FollowsTheRules, Follows
=============================================================================
