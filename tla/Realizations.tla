----------------------------- MODULE Realizations -----------------------------
(***************************************************************************)
(* The realizations of a coordination, checked side by side: PostgreSQL's  *)
(* functions and the four kinds of Solidity contract.  They share no       *)
(* state: a behaviour is one rail's, chosen at the start, and the          *)
(* variables of the others are idle.                                       *)
(***************************************************************************)
EXTENDS Integers, Sequences, TLC

CONSTANTS
  Sessions, Observers, o1, o2, stranger,       \* PostgreSQL
  MaxObservers,
  Chains, Signers, Width, MaxSignatures,       \* Solidity
  NoKey, MaxBalance

VARIABLES rail, db, tx, chain, guards, contract

postgresVars == <<db, tx>>
solidityVars == <<chain, guards, contract>>
vars == <<rail, postgresVars, solidityVars>>

Symmetry == Permutations(Sessions)

-----------------------------------------------------------------------------
(* The plans.  Operands never fault; an amount depends on the payload.     *)

Src == <<"wallet", "payer", "EUR">>
Dst == <<"wallet", "payee", "EUR">>
FeeSrc == <<"fees", "payer", "EUR">>
FeeDst == <<"fees", "payee", "EUR">>
Places == {Src, Dst, FeeSrc, FeeDst}

Ungated == "ungated"
Unconditional == "unconditional"
NoRefusal(Payloads) == [p \in Payloads |-> ""]

Leg(amounts, acct) ==
  [p \in DOMAIN amounts |->
     [amountCode |-> "", amount |-> amounts[p], accountCode |-> "", account |-> acct]]
Entry(name, kind, g, q, leg) ==
  [name |-> name, kind |-> kind, guard |-> g, gate |-> q, leg |-> leg]

(***************************************************************************)
(* PostgreSQL: three policies, each gating a balanced pair: alpha and beta *)
(* over the same two accounts in opposite order, gamma over two of its     *)
(* own.  Payload B's fee leaves the range of a balance on its second leg.  *)
(***************************************************************************)
Payment == [A |-> 1, B |-> 2]
Fee == [A |-> 1, B |-> 4]
PostgresEffects ==
  << Entry("pay_debit", "debit", "alpha", Ungated, Leg(Payment, Src)),
     Entry("refund_debit", "debit", "beta", Ungated, Leg(Payment, Dst)),
     Entry("pay_credit", "credit", "alpha", Ungated, Leg(Payment, Dst)),
     Entry("refund_credit", "credit", "beta", Ungated, Leg(Payment, Src)),
     Entry("fee_debit", "debit", "gamma", Ungated, Leg(Fee, FeeSrc)),
     Entry("fee_credit", "credit", "gamma", Ungated, Leg(Fee, FeeDst)) >>
PostgresPolicies == {"alpha", "beta", "gamma"}

(***************************************************************************)
(* Solidity: pairs within one ledger and across ledgers.  W fits neither   *)
(* the evaluator's balances nor, cast, a signed word; F faults in a        *)
(* compute, and in a comparison; N fires no guarded posting.               *)
(***************************************************************************)
SolPayloads == {"A", "B", "W", "F", "N"}
Price == [A |-> 1, B |-> 2, W |-> 9, F |-> 1, N |-> 1]
Fault == [NoRefusal(SolPayloads) EXCEPT !["F"] = "compute.overflow"]
Comparing == {"small", "large"}
Comparison == [small |-> [A |-> "true", B |-> "true", W |-> "true", F |-> "guard.fault", N |-> "false"],
               large |-> [A |-> "false", B |-> "true", W |-> "false", F |-> "guard.fault", N |-> "false"]]
TwoPairs(g, h, q, price) ==
  << Entry("pay_debit", "debit", g, q, Leg(price, Src)),
     Entry("fee_debit", "debit", h, q, Leg(price, FeeSrc)),
     Entry("pay_credit", "credit", g, q, Leg(price, FeeDst)),
     Entry("fee_credit", "credit", h, q, Leg(price, Dst)) >>
TemporalPayloads == SolPayloads \ {"N"}
TemporalPrice == [p \in TemporalPayloads |-> Price[p]]

\* A repeated observer and address(0) among the arguments; the last three revert.
GuardArguments ==
  {<<<<1, 2>>, 2>>, <<<<2, 0, 2, 1>>, 1>>, <<<<1, 0>>, 1>>,
   <<<<1, 1>>, 2>>, <<<<0>>, 1>>, <<<<1>>, 0>>}

-----------------------------------------------------------------------------
(***************************************************************************)
(* The rails, each with what RailProofs proves of it.  A rail reads neither *)
(* the Deployments nor the ObserverSet and Quorum of the other kind.       *)
(***************************************************************************)
Postgres == INSTANCE RailProofs WITH
  Keys <- {"k1"}, Payloads <- {"A", "B"}, IllTyped <- {}, ComputeFault <- NoRefusal({"A", "B"}),
  ComputeCount <- 0, ObligationCount <- 0, Attestations <- <<"alpha", "beta", "gamma">>,
  Comparisons <- {}, Compare <- << >>, Effects <- PostgresEffects, Accounts <- Places,
  ObserverSet <- [p \in PostgresPolicies |-> {o1, o2}],
  Quorum <- [p \in PostgresPolicies |-> IF p = "alpha" THEN 1 ELSE 2], Deployments <- {}

TemporalContract == INSTANCE RailProofs WITH
  Keys <- {"k1"}, Payloads <- TemporalPayloads, IllTyped <- {}, ComputeFault <- Fault,
  ComputeCount <- 0, ObligationCount <- 0, Attestations <- <<"alpha", "beta">>,
  Comparisons <- {}, Compare <- << >>, Effects <- TwoPairs("alpha", "beta", Ungated, TemporalPrice),
  Accounts <- Places, Deployments <- GuardArguments, ObserverSet <- << >>, Quorum <- << >>
GatedContract == INSTANCE RailProofs WITH
  Keys <- {"k1", "k2"}, Payloads <- SolPayloads, IllTyped <- {}, ComputeFault <- NoRefusal(SolPayloads),
  ComputeCount <- 0, ObligationCount <- 0, Attestations <- <<"alpha">>,
  Comparisons <- Comparing, Compare <- Comparison, Effects <- TwoPairs("small", "large", "alpha", Price),
  Accounts <- Places, Deployments <- GuardArguments, ObserverSet <- << >>, Quorum <- << >>
UngatedContract == INSTANCE RailProofs WITH
  Keys <- {"k1", "k2"}, Payloads <- SolPayloads, IllTyped <- {}, ComputeFault <- Fault,
  ComputeCount <- 0, ObligationCount <- 0, Attestations <- << >>,
  Comparisons <- Comparing, Compare <- Comparison,
  Effects <- TwoPairs(Unconditional, "large", Ungated, Price),
  Accounts <- Places, Deployments <- {}, ObserverSet <- << >>, Quorum <- << >>
EvidenceContract == INSTANCE RailProofs WITH
  Keys <- {"k1", "k2"}, Payloads <- {"A", "B"}, IllTyped <- {}, ComputeFault <- NoRefusal({"A", "B"}),
  ComputeCount <- 0, ObligationCount <- 0, Attestations <- <<"alpha">>,
  Comparisons <- {}, Compare <- << >>, Effects <- << >>,
  Accounts <- Places, Deployments <- GuardArguments, ObserverSet <- << >>, Quorum <- << >>

ASSUME RailPlans ==
  /\ Postgres!PlanAssumption
  /\ TemporalContract!PlanAssumption /\ GatedContract!PlanAssumption
  /\ UngatedContract!PlanAssumption /\ EvidenceContract!PlanAssumption
  /\ Postgres!TemporalPlan
  /\ TemporalContract!ContractPlan /\ GatedContract!ContractPlan
  /\ UngatedContract!ContractPlan /\ EvidenceContract!ContractPlan
  /\ TemporalContract!WordsSuffice /\ GatedContract!WordsSuffice
  /\ UngatedContract!WordsSuffice /\ EvidenceContract!WordsSuffice

PostgresIdle == db = "idle" /\ tx = "idle"
SolidityIdle == chain = "idle" /\ guards = "idle" /\ contract = "idle"

Init ==
  \/ rail = "postgres" /\ Postgres!Init /\ SolidityIdle
  \/ rail = "temporal" /\ TemporalContract!Deployed /\ PostgresIdle
  \/ rail = "gated" /\ GatedContract!Deployed /\ PostgresIdle
  \/ rail = "ungated" /\ UngatedContract!Deployed /\ PostgresIdle
  \/ rail = "evidence" /\ EvidenceContract!Deployed /\ PostgresIdle

Next ==
  \/ rail = "postgres" /\ Postgres!Next /\ UNCHANGED <<rail, solidityVars>>
  \/ rail = "temporal" /\ TemporalContract!Transaction /\ UNCHANGED <<rail, postgresVars>>
  \/ rail = "gated" /\ GatedContract!Transaction /\ UNCHANGED <<rail, postgresVars>>
  \/ rail = "ungated" /\ UngatedContract!Transaction /\ UNCHANGED <<rail, postgresVars>>
  \/ rail = "evidence" /\ EvidenceContract!Transaction /\ UNCHANGED <<rail, postgresVars>>

Spec == Init /\ [][Next]_vars

-----------------------------------------------------------------------------
\* Whatever the rail, nothing is posted that was not earned: the postings
\* stand once each, and each rests on an acceptance that a real quorum gave
\* (PostgresTemporal!PostingsAreEarned, SolidityContracts!EventsAreEarned).
PostingsAreEarned ==
  /\ rail = "postgres" => Postgres!PostingsAreEarned
  /\ rail = "temporal" => TemporalContract!EventsAreEarned
  /\ rail = "gated" => GatedContract!EventsAreEarned
  /\ rail = "ungated" => UngatedContract!EventsAreEarned
  /\ rail = "evidence" => EvidenceContract!EventsAreEarned

\* Whatever the rail, what it commits is what the reference evaluator commits,
\* but for the exceptions CommitIsATransition (of a step of PostgresTemporal) and
\* CallsAreTransitions (of every call SolidityContracts can make) name. A fork
\* can happen in every state of a contract, so its calls are looked at there.
CommitsATransition ==
  /\ rail = "postgres" => Postgres!CommitIsATransition
  /\ chain' # chain => /\ rail = "temporal" => TemporalContract!CallsAreTransitions
                       /\ rail = "gated" => GatedContract!CallsAreTransitions
                       /\ rail = "ungated" => UngatedContract!CallsAreTransitions
                       /\ rail = "evidence" => EvidenceContract!CallsAreTransitions

RailsCommitTransitions == [][CommitsATransition]_vars

\* What PostgreSQL commits under a key is committed for the claim pinned on it:
\* execute_ "refuses a payload whose claim differs from the pinned one"
\* (test/ir/oracle/accepted_multi_policy.neu 103).
OneClaimPerKey == rail = "postgres" => Postgres!OneClaimPerKey
=============================================================================
