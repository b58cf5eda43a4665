------------------------------ MODULE Transfer ------------------------------
(***************************************************************************)
(* What an application that splits messages into chunk frames, streams     *)
(* them and reassembles them relies on: it ends up with some of the        *)
(* messages that were sent, each as it was sent, or with an error.         *)
(***************************************************************************)
CONSTANTS Message, \* message id -> the message sent under it
          Pending, \* no answer yet
          Refused  \* an error

VARIABLE inbox \* Pending, Refused, or the messages received

Init == inbox = Pending

Receive == /\ inbox = Pending
           /\ \E S \in SUBSET DOMAIN Message : inbox' = [id \in S |-> Message[id]]

Refuse == inbox = Pending /\ inbox' = Refused

Spec == Init /\ [][Receive \/ Refuse]_inbox
=============================================================================
