----------------------------- MODULE Reassembly -----------------------------
(***************************************************************************)
(* What reconstruct_chunks promises, independently of how it goes through  *)
(* the frames: in one step it either delivers every message of the slice   *)
(* whole, or refuses a slice that really has a defect.  Of a slice whose   *)
(* only defect is a count of 0, it may do either.                          *)
(***************************************************************************)
EXTENDS Frames

CONSTANT Pending, \* the call has not returned
         Refused  \* the call has returned an error

VARIABLES frames, \* the slice handed to the call
          answer  \* Pending, Refused or the rebuilt messages

Init == frames \in Seq(Frame) /\ answer = Pending

Deliver == /\ answer = Pending
           /\ IsRebuilt(frames, answer')
           /\ UNCHANGED frames

Refuse == /\ answer = Pending
          /\ ~ WellFormed(frames)
          /\ answer' = Refused
          /\ UNCHANGED frames

Spec == Init /\ [][Deliver \/ Refuse]_<<frames, answer>>
=============================================================================
