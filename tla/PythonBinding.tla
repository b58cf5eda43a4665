--------------------------- MODULE PythonBinding ---------------------------
(***************************************************************************)
(* A program in Python that uses SxMessage objects from several threads.   *)
(* ctypes gives up the interpreter lock while a function of the ABI runs,  *)
(* so a method takes several steps: the call of the function, on the       *)
(* handle read before it, and what the method does with the outcome.       *)
(*                                                                         *)
(* The program closes no message while another thread is in a method of    *)
(* it; the garbage collector can wait, a method keeps its object alive.    *)
(***************************************************************************)
EXTENDS SxAbi

CONSTANTS Wrappers, \* the SxMessage objects
          Threads,
          Gone      \* the handle of an object not made yet, or collected

VARIABLES handle, \* object -> its _handle: an address, or Null for None
          call    \* thread -> the method it is in

vars == <<abiVars, handle, call>>

\* What may be read as a code in memory that has been freed.
Anything == {"ValidationError", "ParseError", "InvalidMagic", "Internal", "InvalidPath",
             "TypeMismatch", "garbage"}

\* A method of object self is at a step; at and kind tell what it was handed,
\* code is the code of its error and then of its exception.
In(self, step, at, kind, code) ==
  [self |-> self, step |-> step, at |-> at, kind |-> kind, code |-> code]

Idle == In(Gone, "idle", Null, "none", "none")

Init == /\ AbiInit
        /\ handle = [w \in Wrappers |-> Gone]
        /\ call = [t \in Threads |-> Idle]

Given == {"out", "err"}

InUse(w) == \E t \in Threads : call[t].self = w

Enter(t, self) == /\ call[t] = Idle
                  /\ call' = [call EXCEPT ![t] = In(self, "called", Null, "none", "none")]
                  /\ UNCHANGED <<abiVars, handle>>

\* A class method, or a method of an object, until its call of the ABI.
EnterClass(t) == Enter(t, "class")
EnterMethod(t) == \E w \in Wrappers : handle[w] # Gone /\ Enter(t, w)

Construct(a) == \E input \in Values \cup {Malformed} :
                  \/ sx_message_parse_text(input, Given, a)
                  \/ sx_message_decode_binary(input, Given, a)

Read(p, a) == \/ sx_message_to_text(p, Given, a)
              \/ sx_message_encode_binary(p, Given, a)
              \/ sx_hash_logical(p, Given, a)
              \/ sx_value_get_string(p, Given, a)
              \/ \E f \in UNION {DOMAIN Member[v] : v \in Values} :
                   sx_value_get_field(p, f, Given, a)

CallAbi(t) ==
  /\ call[t].step = "called"
  /\ \E a \in Addresses :
       /\ IF call[t].self = "class" THEN Construct(a) ELSE Read(handle[call[t].self], a)
       /\ call' = [call EXCEPT ![t] =
                     In(call[t].self, "returned", a, heap'[a].kind, "none")]
  /\ UNCHANGED handle

\* cls(out): a new object takes the message.
Wrap(t) ==
  /\ call[t].step = "returned" /\ call[t].kind = "message"
  /\ \E w \in Wrappers : /\ handle[w] = Gone
                         /\ handle' = [handle EXCEPT ![w] = call[t].at]
  /\ call' = [call EXCEPT ![t] = Idle]
  /\ UNCHANGED abiVars

\* The program does not keep the new object: it is collected at once.
Discard(t) ==
  /\ call[t].step = "returned" /\ call[t].kind = "message"
  /\ sx_free(call[t].at, "message")
  /\ call' = [call EXCEPT ![t] = Idle]
  /\ UNCHANGED handle

\* Mutant: the copy is returned and what it was made of is not freed.
CopyOnly(t) ==
  /\ call[t].step = "returned" /\ call[t].kind \in {"string", "bytes"}
  /\ call' = [call EXCEPT ![t] = Idle]
  /\ UNCHANGED <<abiVars, handle>>

\* A string or a buffer is copied and freed.
CopyOut(t) ==
  /\ call[t].step = "returned" /\ call[t].kind \in {"string", "bytes"}
  /\ sx_free(call[t].at, call[t].kind)
  /\ call' = [call EXCEPT ![t] = Idle]
  /\ UNCHANGED handle

\* _raise_error copies the message and frees the error,
ReleaseError(t) ==
  /\ call[t].step = "returned" /\ call[t].kind = "error"
  /\ sx_free(call[t].at, "error")
  /\ call' = [call EXCEPT ![t].step = "raising", ![t].code = heap[call[t].at].value]
  /\ UNCHANGED handle

\* and then reads the code where the error was: in memory that may hold
\* anything by now.  No function of the ABI takes part in this misuse.
RaiseError(t) ==
  /\ call[t].step = "raising"
  /\ \E code \in IF heap[call[t].at].kind = "error" THEN {heap[call[t].at].value}
                  ELSE Anything :
       call' = [call EXCEPT ![t].step = "raised", ![t].code = code]
  /\ UNCHANGED <<abiVars, handle>>

\* The program catches the exception.
Caught(t) == /\ call[t].step = "raised"
             /\ call' = [call EXCEPT ![t] = Idle]
             /\ UNCHANGED <<abiVars, handle>>

\* close(); on a closed message it does nothing.
Close(w) ==
  /\ handle[w] # Gone /\ ~ InUse(w)
  /\ sx_free(handle[w], "message")
  /\ handle' = [handle EXCEPT ![w] = Null]
  /\ UNCHANGED call

\* __del__: the object is collected.
Collect(w) ==
  /\ handle[w] # Gone /\ ~ InUse(w)
  /\ sx_free(handle[w], "message")
  /\ handle' = [handle EXCEPT ![w] = Gone]
  /\ UNCHANGED call

Method(t) == \/ EnterClass(t) \/ EnterMethod(t) \/ CallAbi(t)
             \/ Wrap(t) \/ Discard(t) \/ CopyOut(t)
             \/ ReleaseError(t) \/ RaiseError(t) \/ Caught(t)

Next == \/ \E t \in Threads : Method(t)
        \/ \E w \in Wrappers : Close(w) \/ Collect(w)

Spec == Init /\ [][Next]_vars
-----------------------------------------------------------------------------
\* SxError reports the code of the error that the method was handed.
ReportsItsError ==
  [][\A t \in Threads : call[t].step = "raising" /\ call'[t].step = "raised"
                          => call'[t].code = call[t].code]_vars
=============================================================================
