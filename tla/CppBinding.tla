----------------------------- MODULE CppBinding -----------------------------
(***************************************************************************)
(* A program in C++ that makes, moves, assigns, reads and destroys         *)
(* sx::Message objects, moved-from ones included.                          *)
(***************************************************************************)
EXTENDS SxAbi

CONSTANTS Messages, \* the variables of type sx::Message
          Gone      \* of a variable whose lifetime has not begun, or has ended

VARIABLES raw, \* variable -> its raw_: an address, or Null
          got  \* what the method in progress was handed by the ABI

vars == <<abiVars, raw, got>>

Nil == [at |-> Null, kind |-> "none"]

Init == /\ AbiInit
        /\ raw = [x \in Messages |-> Gone]
        /\ got = Nil

Alive(x) == got = Nil /\ raw[x] # Gone
Unborn(x) == got = Nil /\ raw[x] = Gone

\* A method calls the ABI and has the result, or the error, in a local variable.
Got(a) == got' = [at |-> a, kind |-> heap'[a].kind] /\ UNCHANGED raw

Given == {"out", "err"}

parse_text ==
  /\ \E x \in Messages : Unborn(x)
  /\ \E text \in Values \cup {Malformed}, a \in Addresses :
       sx_message_parse_text(text, Given, a) /\ Got(a)

to_text(x) ==
  Alive(x) /\ \E a \in Addresses : sx_message_to_text(raw[x], Given, a) /\ Got(a)

to_binary(x) ==
  Alive(x) /\ \E a \in Addresses : sx_message_encode_binary(raw[x], Given, a) /\ Got(a)

\* return Message(msg)
ReturnMessage ==
  /\ got.kind = "message"
  /\ \E x \in Messages : raw[x] = Gone /\ raw' = [raw EXCEPT ![x] = got.at]
  /\ got' = Nil
  /\ UNCHANGED abiVars

\* The string or the buffer is copied and freed.
ReturnCopy ==
  /\ got.kind \in {"string", "bytes"}
  /\ sx_free(got.at, got.kind)
  /\ got' = Nil
  /\ UNCHANGED raw

\* throw_if_error(sx_...(..., &err), err): which of its two arguments comes
\* first is left to the compiler.  Where err is read after the call, the error
\* is copied into the message of the exception, and freed.
throw_if_error ==
  /\ got.kind = "error"
  /\ sx_free(got.at, "error")
  /\ got' = Nil
  /\ UNCHANGED raw

\* Where err is read before the call it is null: an exception all the same,
\* and nothing refers any more to what the call has put there.
throw_without_error ==
  /\ got.kind = "error"
  /\ got' = Nil
  /\ UNCHANGED <<abiVars, raw>>

\* Message(nullptr)
Construct(x) == /\ Unborn(x)
                /\ raw' = [raw EXCEPT ![x] = Null]
                /\ UNCHANGED <<abiVars, got>>

MoveConstruct(x, other) == /\ Unborn(x) /\ Alive(other)
                           /\ raw' = [raw EXCEPT ![x] = raw[other], ![other] = Null]
                           /\ UNCHANGED <<abiVars, got>>

\* Mutant: the other variable keeps its pointer.
MoveAssignSharing(x, other) ==
  /\ Alive(x) /\ Alive(other)
  /\ IF x = other THEN UNCHANGED <<abiVars, raw>>
     ELSE sx_free(raw[x], "message") /\ raw' = [raw EXCEPT ![x] = raw[other]]
  /\ UNCHANGED got

MoveAssign(x, other) ==
  /\ Alive(x) /\ Alive(other)
  /\ IF x = other THEN UNCHANGED <<abiVars, raw>>
     ELSE /\ sx_free(raw[x], "message")
          /\ raw' = [raw EXCEPT ![x] = raw[other], ![other] = Null]
  /\ UNCHANGED got

Destroy(x) == /\ Alive(x)
              /\ sx_free(raw[x], "message")
              /\ raw' = [raw EXCEPT ![x] = Gone]
              /\ UNCHANGED got

Next == \/ parse_text \/ ReturnMessage \/ ReturnCopy
        \/ throw_if_error \/ throw_without_error
        \/ \E x \in Messages :
             \/ to_text(x) \/ to_binary(x) \/ Construct(x) \/ Destroy(x)
             \/ \E other \in Messages : MoveConstruct(x, other) \/ MoveAssign(x, other)

Spec == Init /\ [][Next]_vars
=============================================================================
