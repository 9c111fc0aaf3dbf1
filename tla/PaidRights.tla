------------------------------ MODULE PaidRights ------------------------------
(***************************************************************************)
(* What an online order promises, whatever channel settles it: the member  *)
(* gets one right for one payment of money; money that could not be turned *)
(* into a right is held; it goes back only after it was promised back, and *)
(* once it is promised back no right is created from it any more.          *)
(***************************************************************************)
CONSTANT Payment

VARIABLES
  phase,      \* "unpaid", "held" (money, no right), "granted" or "returned"
  promised    \* a refund of the payment has been approved

vars == <<phase, promised>>

Init ==
  /\ phase = [p \in Payment |-> "unpaid"]
  /\ promised = [p \in Payment |-> FALSE]

\* Money arrives and cannot be turned into a right now.
Collect(p) ==
  /\ phase[p] = "unpaid"
  /\ phase' = [phase EXCEPT ![p] = "held"]
  /\ UNCHANGED promised

\* A right is created, with the money arriving or from money held before.
Grant(p) ==
  /\ phase[p] \in {"unpaid", "held"}
  /\ ~promised[p]
  /\ phase' = [phase EXCEPT ![p] = "granted"]
  /\ UNCHANGED promised

PromiseRefund(p) ==
  /\ phase[p] \in {"held", "granted"}
  /\ ~promised[p]
  /\ promised' = [promised EXCEPT ![p] = TRUE]
  /\ UNCHANGED phase

Return(p) ==
  /\ phase[p] \in {"held", "granted"}
  /\ promised[p]
  /\ phase' = [phase EXCEPT ![p] = "returned"]
  /\ UNCHANGED promised

Next == \E p \in Payment : Collect(p) \/ Grant(p) \/ PromiseRefund(p) \/ Return(p)

Spec == Init /\ [][Next]_vars

================================================================================
