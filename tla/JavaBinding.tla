---------------------------- MODULE JavaBinding ----------------------------
(***************************************************************************)
(* A program in Java that parses messages, prints them and closes every    *)
(* one, some of them more than once.                                       *)
(***************************************************************************)
EXTENDS SxAbi

CONSTANTS Messages, \* the SxMessage objects
          Gone      \* of an object not made yet, or collected after its close

VARIABLES handle, \* object -> its handle: an address, or Null
          got     \* what the method in progress was handed by the ABI

vars == <<abiVars, handle, got>>

Nil == [at |-> Null, kind |-> "none"]

Init == /\ AbiInit
        /\ handle = [x \in Messages |-> Gone]
        /\ got = Nil

Alive(x) == got = Nil /\ handle[x] # Gone

Got(a) == got' = [at |-> a, kind |-> heap'[a].kind] /\ UNCHANGED handle

Given == {"out", "err"}

parseText ==
  /\ got = Nil /\ \E x \in Messages : handle[x] = Gone
  /\ \E text \in Values \cup {Malformed, Null}, a \in Addresses :
       sx_message_parse_text(text, Given, a) /\ Got(a)

toText(x) ==
  Alive(x) /\ \E a \in Addresses : sx_message_to_text(handle[x], Given, a) /\ Got(a)

ReturnMessage ==
  /\ got.kind = "message"
  /\ \E x \in Messages : handle[x] = Gone /\ handle' = [handle EXCEPT ![x] = got.at]
  /\ got' = Nil
  /\ UNCHANGED abiVars

ReturnText ==
  /\ got.kind = "string"
  /\ sx_free(got.at, "string")
  /\ got' = Nil
  /\ UNCHANGED handle

\* A RuntimeException; what outErr refers to is left alone.
Throw ==
  /\ got.kind = "error"
  /\ got' = Nil
  /\ UNCHANGED <<abiVars, handle>>

\* Mutant: the handle stays.
CloseOnly(x) ==
  /\ Alive(x)
  /\ sx_free(handle[x], "message")
  /\ UNCHANGED <<handle, got>>

close(x) ==
  /\ Alive(x)
  /\ sx_free(handle[x], "message")
  /\ handle' = [handle EXCEPT ![x] = Null]
  /\ UNCHANGED got

Collect(x) == /\ Alive(x) /\ handle[x] = Null
              /\ handle' = [handle EXCEPT ![x] = Gone]
              /\ UNCHANGED <<abiVars, got>>

Next == \/ parseText \/ ReturnMessage \/ ReturnText \/ Throw
        \/ \E x \in Messages : toText(x) \/ close(x) \/ Collect(x)

Spec == Init /\ [][Next]_vars
=============================================================================
