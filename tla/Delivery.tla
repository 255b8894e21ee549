------------------------------ MODULE Delivery ------------------------------
(* What an FMXP session promises about requests, and nothing else: what one   *)
(* side puts on the wire reaches the other side's application in the same     *)
(* order, without gaps and at most once.  It says nothing about progress: a   *)
(* session may end at any point, and what was not received then never is.     *)
EXTENDS Naturals, Sequences

CONSTANT Frame      \* the frames that can be submitted

VARIABLES
  submitted,        \* every frame put on the wire, in order
  received          \* every frame handed to the receiving application

vars == <<submitted, received>>

Init == submitted = <<>> /\ received = <<>>

Submit == /\ \E f \in Frame : submitted' = Append(submitted, f)
          /\ UNCHANGED received

Receive == /\ Len(received) < Len(submitted)
           /\ received' = Append(received, submitted[Len(received) + 1])
           /\ UNCHANGED submitted

Next == Submit \/ Receive

Spec == Init /\ [][Next]_vars
=============================================================================
