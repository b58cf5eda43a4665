------------------------------ MODULE Bindings ------------------------------
(***************************************************************************)
(* A process that uses sx-ffi through one of its bindings: a program in    *)
(* Python, in C++ or in Java.  Each has the heap, the objects and the      *)
(* methods of its own module; those of the other two stay as they are.     *)
(***************************************************************************)
EXTENDS SxAbi

CONSTANTS Objects, \* the program's messages
          Threads, \* its threads, in Python
          Gone     \* of a message that is not there

\* Each has a name of its own.
ASSUME BindingConstants ==
  /\ Objects \cap Threads = {} /\ "local" \notin Objects \cup Threads
  /\ Gone \notin Addresses

VARIABLES language, handle, call, raw, got

vars == <<language, heap, misused, handle, call, raw, got>>

Python == INSTANCE PythonBinding WITH Wrappers <- Objects
Cpp == INSTANCE CppBinding WITH Messages <- Objects
Java == INSTANCE JavaBinding WITH Messages <- Objects

Init == /\ language \in {"Python", "C++", "Java"}
        /\ Python!Init
        /\ Cpp!Init

Next == \/ language = "Python" /\ Python!Next /\ UNCHANGED <<language, raw, got>>
        \/ language = "C++" /\ Cpp!Next /\ UNCHANGED <<language, handle, call>>
        \/ language = "Java" /\ Java!Next /\ UNCHANGED <<language, raw, call>>

Spec == Init /\ [][Next]_vars
-----------------------------------------------------------------------------
\* What the program's messages and the methods in progress have to release.
Held ==
  LET Nil == [at |-> Null, kind |-> "none"]
      Message(p) == IF p \in Addresses THEN [at |-> p, kind |-> "message"] ELSE Nil
      Outcome(m) == IF m.step = "returned" THEN [at |-> m.at, kind |-> m.kind] ELSE Nil
  IN  [x \in Objects \cup Threads \cup {"local"} |->
         IF x \in Objects THEN Message(IF language = "C++" THEN raw[x] ELSE handle[x])
         ELSE IF x \in Threads THEN Outcome(call[x]) ELSE got]

\* The pointers kept: those to what is held, and that of a method of Python to
\* the error it has released, whose code it has still to read.
Kept == [x \in DOMAIN Held |->
           IF x \in Threads /\ call[x].step = "raising"
           THEN [at |-> call[x].at, kind |-> "error"] ELSE Held[x]]

Rules == INSTANCE CCaller WITH Pointers <- Objects \cup Threads \cup {"local"},
                               holds <- Kept

\* Java drops the error it was handed, and so does C++ where err is read before
\* the call that fills it.
Drops == \/ language = "Java" /\ Java!Throw
         \/ language = "C++" /\ Cpp!throw_without_error

\* Python releases an error, and keeps the pointer until it has read the code.
Overstays ==
  language = "Python" /\ \E t \in Threads : Python!ReleaseError(t) \/ Python!RaiseError(t)

\* Whatever a program does with its messages (used when closed, closed again,
\* moved, assigned to themselves, dropped), in whatever order its threads take
\* turns, the binding keeps to the ownership rules of the C binding, with two
\* exceptions: an error may be dropped by Java and by C++ (SxMessage.java:17-19,
\* 27-29, sx.hpp:51, 58, 67), and Python keeps and reads the pointer to an error
\* that it has released (api.py:176-177).
FollowsTheRules ==
  Rules!Init /\ [][UNCHANGED Rules!vars \/ Drops \/ Overstays \/ Rules!Next]_vars

\* No function of the ABI is given a pointer to what it is not for, and what
\* the binding keeps a pointer to is there and of that kind, but for the error
\* that Python has released and whose code it still reads, which may be gone or
\* be another's by then (api.py:176-177; ReportsItsError is what comes of it).
NoMisuse ==
  /\ ~ misused
  /\ \A x \in DOMAIN Kept : Kept[x].kind # "none" =>
       \/ IsA(Kept[x].at, Kept[x].kind)
       \/ x \in Threads /\ call[x].step = "raising"

\* Everything on the heap is still held by the program, and will be released
\* when that message is closed or that method returns; only errors are left
\* behind, by Java, which never frees one, and by C++ where the order of the
\* arguments of throw_if_error has it see null.
NothingLost ==
  \A a \in Addresses : heap[a].kind # "free" =>
    \/ \E x \in DOMAIN Held : Held[x] = [at |-> a, kind |-> heap[a].kind]
    \/ language \in {"Java", "C++"} /\ heap[a].kind = "error"

\* An SxError of the Python binding reports the code of its error, as api.py
\* has it: SX[{info.code}].
ReportsItsError == Python!ReportsItsError
=============================================================================
