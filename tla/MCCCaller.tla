------------------------------ MODULE MCCCaller ------------------------------
(***************************************************************************)
(* Messages that are an object with two fields, a string with a NUL in it, *)
(* an empty byte string, and a delta that patches the object.              *)
(***************************************************************************)
EXTENDS CCaller, TLC

CONSTANTS record, nul, nobytes, delta

MCMember == record :> [name |-> nul, data |-> nobytes] @@ [v \in {nul, nobytes, delta} |-> <<>>]

MCPatched == <<record, delta>> :> nul

Interchangeable == Permutations(Addresses) \cup Permutations(Pointers)
=============================================================================
