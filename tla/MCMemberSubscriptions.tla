------------------------- MODULE MCMemberSubscriptions -------------------------
(* MemberSubscriptions on a few orders and requests.                         *)
EXTENDS MemberSubscriptions, TLC

Symmetric == Permutations(Request)
NoFullHouse == {FALSE}
AnyHouse == BOOLEAN

\* Every way to buy a plan as the first order; an upgrade and a lower plan.
FirstOrder == [order : {1}, tier : {1, 2}, channel : {"desk", "counter", "online"}, ask : {0, 2}]
UpAndDown ==
  { [order |-> 1, tier |-> 2, channel |-> "online", ask |-> 2],
    [order |-> 2, tier |-> 1, channel |-> "desk", ask |-> 0] }

\* No handler asks how much of the money was promised, only whether any was.
Seen ==
  <<clock, sub, req,
    [o \in Order |-> [pay[o] EXCEPT !.refund = IF @ = "no" THEN "no" ELSE "full"]]>>

================================================================================
