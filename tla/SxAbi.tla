------------------------------- MODULE SxAbi -------------------------------
(***************************************************************************)
(* The C ABI of sx-ffi: the objects its functions hand out on the heap and *)
(* what each function does to them.  The ABI keeps no table of what it has *)
(* handed out: it takes the pointers it is given for what they should be,  *)
(* and the behaviour is undefined if they are not ("misused").             *)
(*                                                                         *)
(* Every function is a relation between the heap before and after and the  *)
(* pointer a it hands out.  The set given says which of the out-parameters *)
(* out_msg, out_text or out_buf ("out") and out_err ("err") are not null.  *)
(***************************************************************************)
EXTENDS FiniteSets

CONSTANTS Addresses, \* where objects can be allocated
          Null,      \* the null pointer
          Values,    \* what messages hold
          Member,    \* value -> field name -> value
          Textual,   \* the values that are strings
          Binary,    \* the values that are bytes
          NoBytes,   \* those of them that are empty
          HoldsNul,  \* the values whose text has a NUL character in it
          Deltas,    \* the values that are deltas
          Patched,   \* <<base, delta>> -> the patched value, where there is one
          Malformed  \* input that is no value

ASSUME AbiConstants ==
  /\ Null \notin Addresses /\ Malformed \notin Values
  /\ DOMAIN Member = Values
  /\ \A v \in Values : \A f \in DOMAIN Member[v] : Member[v][f] \in Values
  /\ Textual \subseteq Values /\ NoBytes \subseteq Binary /\ Binary \subseteq Values
  /\ DOMAIN Patched \subseteq Values \X Deltas

VARIABLES heap,   \* address -> the object allocated there
          misused \* whether a function was given a pointer to what it is not for

abiVars == <<heap, misused>>

Free == [kind |-> "free", value |-> Null]
Object(kind, value) == [kind |-> kind, value |-> value]
Failure(code) == Object("error", code)

\* An empty buffer: no memory is allocated for it.
Nothing == Object("nothing", Null)

AbiInit == heap = [a \in Addresses |-> Free] /\ misused = FALSE

Allocated == {a \in Addresses : heap[a] # Free}

IsA(p, kind) == p \in Addresses /\ heap[p].kind = kind

Uses(p) == misused' = (misused \/ (p # Null /\ ~ IsA(p, "message")))

\* Mutant: the error object is made although the caller takes none.
HandAnyway(obj, given, a) ==
  IF obj = Nothing THEN a = Null /\ UNCHANGED heap
  ELSE \E b \in Addresses : /\ heap[b] = Free
                            /\ heap' = [heap EXCEPT ![b] = obj]
                            /\ a = (IF obj.kind = "error" /\ "err" \notin given
                                    THEN Null ELSE b)

Hand(obj, given, a) ==
  IF obj = Nothing \/ (obj.kind = "error" /\ "err" \notin given)
  THEN a = Null /\ UNCHANGED heap
  ELSE /\ a \in Addresses /\ heap[a] = Free
       /\ heap' = [heap EXCEPT ![a] = obj]

\* run_ffi: the answer of the function's body, or an error in place of a panic.
Answers(given, Body) == {IF "out" \in given THEN Body ELSE Failure("ValidationError"),
                         Failure("Internal")}

\* A function of a message: Body(v) is its answer if the message holds v.
Of(p, given, a, Body(_)) ==
  /\ \E obj \in Answers(given, IF IsA(p, "message") THEN Body(heap[p].value)
                               ELSE Failure("ValidationError")) : Hand(obj, given, a)
  /\ IF "out" \in given THEN Uses(p) ELSE UNCHANGED misused
-----------------------------------------------------------------------------
sx_message_parse_text(text, given, a) ==
  /\ \E obj \in Answers(given, IF text = Null THEN Failure("ValidationError")
                               ELSE IF text = Malformed THEN Failure("ParseError")
                               ELSE Object("message", text)) : Hand(obj, given, a)
  /\ UNCHANGED misused

sx_message_decode_binary(data, given, a) ==
  /\ \E obj \in Answers(given, IF data = Null THEN Failure("ValidationError")
                               ELSE IF data = Malformed THEN Failure("InvalidMagic")
                               ELSE Object("message", data)) : Hand(obj, given, a)
  /\ UNCHANGED misused

\* A C string cannot be made of text that has a NUL in it.
CString(v) == IF v \in HoldsNul THEN Failure("Internal") ELSE Object("string", v)

sx_message_to_text(p, given, a) == Of(p, given, a, CString)

sx_message_encode_binary(p, given, a) ==
  LET Encoded(v) == Object("bytes", v) IN Of(p, given, a, Encoded)

sx_hash_logical(p, given, a) ==
  LET Hashed(v) == Object("bytes", v) IN Of(p, given, a, Hashed)

\* Mutant: the field is not copied; the handle is that of the whole message.
FieldNotCopied(p, field, given, a) ==
  /\ IsA(p, "message") /\ field \in DOMAIN Member[heap[p].value]
  /\ a = p
  /\ UNCHANGED <<heap, misused>>

sx_value_get_field(p, field, given, a) ==
  LET Field(v) == IF field \in DOMAIN Member[v] THEN Object("message", Member[v][field])
                  ELSE Failure("InvalidPath")
  IN  Of(p, given, a, Field)

sx_value_get_string(p, given, a) ==
  LET String(v) == IF v \in Textual THEN CString(v) ELSE Failure("TypeMismatch")
  IN  Of(p, given, a, String)

sx_value_get_bytes(p, given, a) ==
  LET Bytes(v) == IF v \notin Binary THEN Failure("TypeMismatch")
                  ELSE IF v \in NoBytes THEN Nothing ELSE Object("bytes", v)
  IN  Of(p, given, a, Bytes)

PatchOf(base, delta) ==
  IF delta \notin Deltas THEN Failure("TypeMismatch")
  ELSE IF <<base, delta>> \in DOMAIN Patched THEN Object("message", Patched[<<base, delta>>])
  ELSE Failure("InvalidPath")

\* Mutant: the base message itself is patched, and a copy of it handed out.
PatchInPlace(base, delta, given, a) ==
  /\ IsA(base, "message") /\ IsA(delta, "message")
  /\ PatchOf(heap[base].value, heap[delta].value).kind = "message"
  /\ a \in Addresses /\ heap[a] = Free
  /\ LET obj == PatchOf(heap[base].value, heap[delta].value)
     IN  heap' = [heap EXCEPT ![a] = obj, ![base] = obj]
  /\ UNCHANGED misused

sx_apply_delta(base, delta, given, a) ==
  /\ \E obj \in Answers(given, IF IsA(base, "message") /\ IsA(delta, "message")
                               THEN PatchOf(heap[base].value, heap[delta].value)
                               ELSE Failure("ValidationError")) : Hand(obj, given, a)
  /\ misused' = (misused \/ ("out" \in given /\ base # Null
                             /\ \E p \in {base, delta} \ {Null} : ~ IsA(p, "message")))

\* sx_value_get_type, _i64, _u64 and _bool: they hand out nothing.
sx_value_get_scalar(p) == Uses(p) /\ UNCHANGED heap

\* sx_message_free, sx_error_free, sx_string_free and sx_bytes_free, each for
\* its kind of object.
sx_free(p, kind) ==
  IF p = Null THEN UNCHANGED abiVars
  ELSE IF IsA(p, kind) THEN heap' = [heap EXCEPT ![p] = Free] /\ UNCHANGED misused
  ELSE misused' = TRUE /\ UNCHANGED heap
=============================================================================
