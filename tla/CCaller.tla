------------------------------ MODULE CCaller ------------------------------
(***************************************************************************)
(* A program in C that calls the functions of sx-ffi in any order, with    *)
(* null pointers among its arguments, and keeps to the ownership rules of  *)
(* the C binding: what a function has handed out it releases once, with    *)
(* the function for its kind, and uses only until then.                    *)
(***************************************************************************)
EXTENDS SxAbi

CONSTANT Pointers \* the pointer variables of the program

VARIABLE holds \* pointer variable -> the object it points to and its kind

vars == <<abiVars, holds>>

Nil == [at |-> Null, kind |-> "none"]

Init == AbiInit /\ holds = [x \in Pointers |-> Nil]

Vacant == {x \in Pointers : holds[x] = Nil}

Holding(kind) == {holds[x].at : x \in {y \in Pointers : holds[y].kind = kind}}

\* A call leaves its result, or its error, in a variable that was vacant.
Keep(x, a) ==
  holds' = [holds EXCEPT ![x] = IF a = Null THEN Nil
                                ELSE [at |-> a, kind |-> heap'[a].kind]]

\* A function that makes a message from what the program gives it.
Make(given, a) == \E input \in Values \cup {Malformed, Null} :
                    \/ sx_message_parse_text(input, given, a)
                    \/ sx_message_decode_binary(input, given, a)

Ask(p, given, a) == \/ sx_message_to_text(p, given, a)
                    \/ sx_message_encode_binary(p, given, a)
                    \/ sx_hash_logical(p, given, a)
                    \/ sx_value_get_string(p, given, a)
                    \/ sx_value_get_bytes(p, given, a)
                    \/ \E f \in UNION {DOMAIN Member[v] : v \in Values} :
                         sx_value_get_field(p, f, given, a)
                    \/ \E q \in Holding("message") \cup {Null} :
                         sx_apply_delta(p, q, given, a)

Call == \E x \in Vacant, given \in SUBSET {"out", "err"}, a \in Addresses \cup {Null} :
          /\ \/ Make(given, a)
             \/ \E p \in Holding("message") \cup {Null} : Ask(p, given, a)
          /\ Keep(x, a)

ReadScalar == /\ \E p \in Holding("message") \cup {Null} : sx_value_get_scalar(p)
              /\ UNCHANGED holds

Release == \E x \in Pointers :
             /\ sx_free(holds[x].at, holds[x].kind)
             /\ holds' = [holds EXCEPT ![x] = Nil]

\* One variable is assigned to another, which gives up what it held.
Assign == \E x, y \in Pointers :
            /\ x # y
            /\ sx_free(holds[y].at, holds[y].kind)
            /\ holds' = [holds EXCEPT ![y] = holds[x], ![x] = Nil]

Next == Release \/ Assign \/ ReadScalar \/ Call

Spec == Init /\ [][Next]_vars
-----------------------------------------------------------------------------
\* To a program that keeps to the rules, the ABI never hands out a pointer
\* whose use or release is undefined: not to an object that is part of another
\* one, nor to one it has handed out before.
NoMisuse == ~ misused

\* Everything on the heap is held by the program, by one variable and as what
\* it is: no error path leaks, and a program that releases all it holds has
\* released everything.
HeldOnce ==
  /\ Allocated = {holds[x].at : x \in Pointers} \ {Null}
  /\ \A x \in Pointers : holds[x] # Nil => IsA(holds[x].at, holds[x].kind)
  /\ \A x, y \in Pointers : holds[x].at = holds[y].at /\ x # y => holds[x] = Nil

\* What the program holds does not change under its hands: a field does not
\* follow its parent, and a base is not touched by the delta applied to it.
Undisturbed ==
  [][\A x \in Pointers :
       holds[x] # Nil /\ holds'[x] = holds[x] => heap'[holds[x].at] = heap[holds[x].at]]_vars
=============================================================================
