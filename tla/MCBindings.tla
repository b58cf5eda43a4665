----------------------------- MODULE MCBindings -----------------------------
(***************************************************************************)
(* Messages that are an object with one field, or that field, a string.    *)
(***************************************************************************)
EXTENDS Bindings, TLC

CONSTANTS record, str

MCMember == record :> [name |-> str] @@ str :> <<>>

NoPatch == <<>>

Interchangeable ==
  Permutations(Addresses) \cup Permutations(Objects) \cup Permutations(Threads)
=============================================================================
