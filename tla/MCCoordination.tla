--------------------------- MODULE MCCoordination ---------------------------
(***************************************************************************)
(* Small coordination plans for model checking Coordination and            *)
(* BoundedCoordinator.  Every payload p carries one amount; parties and    *)
(* currencies resolve to fixed accounts unless a payload makes them fail.  *)
(***************************************************************************)
EXTENDS Coordination

Src == <<"wallet", "payer", "EUR">>
Dst == <<"wallet", "payee", "EUR">>
Fee == <<"fees", "payee", "USD">>
FeeSrc == <<"fees", "payer", "USD">>
MCAccounts == {Src, Dst, Fee, FeeSrc}

\* Payloads: two good ones, one that overflows when posted twice, one with a
\* mistyped input, one whose computes fault, one with an unresolved party, one
\* with a negative amount.
MCPayloads == {"small", "large", "mistyped", "badcompute", "noparty", "negative"}
MCIllTyped == {"mistyped"}
MCComputeFault ==
  [p \in MCPayloads |-> IF p = "badcompute" THEN "expr.overflow" ELSE None]

AmountOf == [p \in MCPayloads |->
               CASE p = "large" -> 5 [] p = "negative" -> -1 [] OTHER -> 2]

Leg(acct) ==
  [p \in MCPayloads |->
     [amountCode |-> None, amount |-> AmountOf[p],
      accountCode |-> IF p = "noparty" /\ acct = Dst THEN "operand.unresolved" ELSE None,
      account |-> acct]]

Pair(name, from, to, g, gate) ==
  << [name |-> name, kind |-> "debit", guard |-> g, gate |-> gate, leg |-> Leg(from)],
     [name |-> name, kind |-> "credit", guard |-> g, gate |-> gate, leg |-> Leg(to)] >>

\* Two quorums, each gating its own balanced pair, whose legs interleave in
\* plan order, and a comparison group that is suppressed, true or faulting by
\* payload.
MCAttestations == <<"alpha", "beta">>
MCComparisons == {"cmp"}
MCCompare ==
  [c \in MCComparisons |->
     [p \in MCPayloads |-> CASE p = "small" -> "false"
                             [] p = "noparty" -> "expr.unbound"
                             [] OTHER -> "true"]]
TemporalEffects ==
  LET a == Pair("pay", Src, Dst, "alpha", NoPolicy)
      b == Pair("fee", FeeSrc, Fee, "beta", NoPolicy)
  IN  <<a[1], b[1], a[2], b[2]>> \o Pair("tax", Dst, Src, "cmp", NoPolicy)

\* The plan is one that ValueConserved is about.
ASSUME PlanBalances == Balanced /\ IsFiniteSet(Accounts)
=============================================================================
