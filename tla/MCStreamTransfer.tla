-------------------------- MODULE MCStreamTransfer --------------------------
(***************************************************************************)
(* Two messages, of two chunks and of one, and a frame of another kind, in *)
(* every order, with repetitions and omissions.                            *)
(***************************************************************************)
EXTENDS StreamTransfer, TLC

CONSTANTS m1, m2, x, y

MCMessage == m1 :> <<x, y>> @@ m2 :> <<y>>

MCLength == [p \in {x, y} |-> 1]

MCWritable == ChunkFrames \cup {[kind |-> "Message", metadata |-> NoMeta, payload |-> x]}
=============================================================================
