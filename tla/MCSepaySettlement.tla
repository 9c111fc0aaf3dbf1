--------------------------- MODULE MCSepaySettlement ---------------------------
(* Instances of SepaySettlement for TLC: what the bank credits may carry.  *)
EXTENDS SepaySettlement, TLC

CONSTANTS p1, p2, r1

T(code, names, exact, ours, ref) ==
  [code |-> code, names |-> names, exact |-> exact, ours |-> ours, ref |-> ref]

\* Exact payments only, with and without a bank reference.
ExactTransfers == {T(p, {p}, TRUE, TRUE, NoRef) : p \in Payment}

\* Two orders whose payers' banks reuse one reference, wrong amounts, a wrong
\* account, a content naming both orders and a code that is no order.
MixedTransfers ==
  {T(p, {p}, TRUE, TRUE, r1) : p \in Payment}
  \cup {T(p1, {p1}, FALSE, TRUE, r1), T(p1, {p1}, TRUE, FALSE, NoRef),
        T(p1, {p1, p2}, TRUE, TRUE, NoRef), T(NoPayment, {}, FALSE, TRUE, NoRef)}

\* Bank credits differ in nothing but what they carry.
CreditSymmetry == Permutations(Credit)

================================================================================
