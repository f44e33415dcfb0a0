------------------------------ MODULE MCBounded ------------------------------
(***************************************************************************)
(* A settlement plan of one gated, conditional pair, and an evidence-only  *)
(* plan.                                                                   *)
(***************************************************************************)
EXTENDS BoundedCoordinator

Acct(party) == <<"wallet", party, "EUR">>
MCAccounts == {Acct("payer"), Acct("payee"), Acct("other")}
MCPayloads == {"one", "two", "three"}
MCComputeFault == [p \in MCPayloads |-> None]
\* The instances are not symmetric: the refinement follows one of them.
MCSymmetry == Permutations(Keys)

Entry(name, kind, To(_)) ==
  [name |-> name, kind |-> kind, guard |-> "cmp", gate |-> "alpha",
   leg |-> [p \in MCPayloads |->
              [amountCode |-> None, amount |-> 2, accountCode |-> None,
               account |-> Acct(To(p))]]]

\* A gated pair whose destination depends on the payload; payload "three"
\* suppresses it.
SettlementEffects ==
  << Entry("out", "debit", LAMBDA p : "payer"),
     Entry("in", "credit", LAMBDA p : IF p = "one" THEN "payee" ELSE "other") >>
OnePolicy == <<"alpha">>
MCComparisons == {"cmp"}
MCCompare == [c \in MCComparisons |->
                [p \in MCPayloads |-> IF p = "three" THEN "false" ELSE "true"]]
=============================================================================
