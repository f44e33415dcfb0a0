-------------------------- MODULE SolidityContracts --------------------------
(***************************************************************************)
(* The Solidity realization of one coordination: the generated contract    *)
(* (SolidityTemporalIdiomRecipes.td, SolidityEffectfulIdiomRecipes.td and  *)
(* SolidityEvidenceIdiomRecipes.td with the builders of                    *)
(* SolidityTargetNodes.td) and, per policy, the guard it trusts            *)
(* (ThresholdQuorumAcceptance.sol.inc).  The plan decides the contract:    *)
(* temporal, single-shot gated by its one policy, single-shot ungated, or  *)
(* evidence-only.                                                          *)
(*                                                                         *)
(* A transaction is one step; one that reverts changes nothing and is no   *)
(* step.  Words have Width bits (256 in the code).  A digest is the record *)
(* of what it hashes, an address a natural number.  The evidence hash that *)
(* is co-signed with the execution claim is left out, and so is the        *)
(* evaluator's MaxBalance, which the contract does not know.               *)
(***************************************************************************)
EXTENDS CoordinationEval

CONSTANTS
  Chains,        \* chain ids: a fork changes the one the contracts run on
  Signers,       \* accounts that sign digests
  Deployments,   \* constructor arguments of a guard: <<observers, threshold>>
  Width,         \* bits of a word
  MaxSignatures  \* the most signatures submitted with a claim

VARIABLES
  chain,         \* block.chainid
  guards,        \* policy -> its deployed ThresholdQuorumAcceptance
  contract       \* the storage of the coordination's contract, and its events

solVars == <<chain, guards, contract>>

Zero == 0                          \* address(0)
Nobody == 1 + Max({Zero} \cup Signers) \* what ecrecover makes of another digest
ZeroClaim == <<"bytes32(0)">>      \* an execution claim that authorizes nothing
SignedClaims == Claims \cup {ZeroClaim}
Gated == Policies # {}

\* The plans a contract is generated for, and what its guards are deployed with:
\* ABI-typed inputs and non-negative operands, constructor arguments, one policy
\* that gates every effect of a single-shot contract, and every guard group
\* balanced, as the plan's construction verifies.
Amount(i, p) == Effects[i].leg[p].amount
Ledger(i, p) == Effects[i].leg[p].account[1]
Amounts(p) == [i \in EffectIds |-> Amount(i, p)]
SumOf(kind, S, p) == SumFunctionOnSet(Amounts(p), {i \in S : Effects[i].kind = kind})
ContractPlan ==
  /\ Width \in Nat \ {0} /\ 2^Width \in Nat \ {0} /\ MaxSignatures \in Nat
  /\ Signers \subseteq Nat \ {Zero} /\ IsFiniteSet(Signers)
  /\ \A args \in Deployments :
       args[1] \in Seq(Signers \cup {Zero}) /\ args[2] \in 0 .. 2^Width - 1
  /\ Temporal => NoGuard \notin Groups /\ Groups \subseteq Policies
  /\ ~Temporal => /\ Len(Attestations) <= 1
                  /\ Gated => \A i \in EffectIds : Effects[i].gate \in Policies
  /\ IllTyped = {}
  /\ \A g \in Groups \cap Comparisons, p \in Payloads : Compare[g][p] # None
  /\ EvidenceOnly => \A p \in Payloads : ComputeFault[p] = None
  /\ \A i \in EffectIds, p \in Payloads : OperandCode(i, p) = None /\ Amount(i, p) < 2^Width
  /\ \A g \in Groups, p \in Payloads : SumOf("debit", Legs({g}), p) = SumOf("credit", Legs({g}), p)

-----------------------------------------------------------------------------
(* ThresholdQuorumAcceptance                                               *)

\* Mutant of Authorized: a repeated observer still counts towards N.
CountingRepeats(args) ==
  [set |-> ToSet(args[1]) \ {Zero}, count |-> Len(SelectSeq(args[1], LAMBDA o : o # Zero))]

\* isObserver and the count n of the constructor's loop.
Authorized(args) ==
  LET set == ToSet(args[1]) \ {Zero} IN [set |-> set, count |-> Cardinality(set)]

ConstructorReverts(args) ==
  \/ Authorized(args).count = 0
  \/ args[2] = 0 \/ args[2] > Authorized(args).count

\* accepted[k] is acceptedExecutionClaim(k), NoClaim while accepted(k) is
\* false; backed[k] records whether its quorum was what accept() promises.
Deploy(args) ==
  [observers |-> Authorized(args).set, threshold |-> args[2], cachedChain |-> chain,
   accepted |-> [k \in Keys |-> NoClaim], backed |-> [k \in Keys |-> FALSE]]

\* Mutant of DomainSeparator: the cached value is never rebuilt.
DomainAsDeployed(q) == guards[q].cachedChain

\* The domain: (chain, this guard, capability); guard and capability are q.
DomainSeparator(q) ==
  IF chain = guards[q].cachedChain THEN guards[q].cachedChain ELSE chain

ClaimDigest(q, k, c) == [chain |-> DomainSeparator(q), guard |-> q, key |-> k, claim |-> c]

\* Signatures a caller may submit: by anyone for the digest asked for; by an
\* observer for one that differs from it in a field; and by an observer but
\* malformed, malleable or with a recovery id that recovers no one.
NearDigests(d) ==
  {[d EXCEPT !.chain = x] : x \in Chains} \cup {[d EXCEPT !.guard = x] : x \in Policies}
    \cup {[d EXCEPT !.key = x] : x \in Keys}
    \cup {[d EXCEPT !.claim = CHOOSE x \in SignedClaims : x # d.claim]}
Signatures(q, d) ==
  [form : {"valid"}, signer : Signers, digest : {d}]
    \cup [form : {"valid"}, signer : guards[q].observers, digest : NearDigests(d)]
    \cup [form : {"short", "high-s", "bad-v"}, signer : guards[q].observers, digest : {d}]

\* _recover, for a signature it does not revert on.
Recover(sig, d) ==
  IF sig.form = "bad-v" THEN Zero ELSE IF sig.digest = d THEN sig.signer ELSE Nobody

\* Mutants of SignedQuorumMet: signers need not ascend, or M - 1 of them suffice.
QuorumUnordered(q, d, sigs) ==
  /\ Len(sigs) >= guards[q].threshold
  /\ \A i \in DOMAIN sigs : /\ sigs[i].form \notin {"short", "high-s"}
                            /\ Recover(sigs[i], d) \in guards[q].observers
QuorumShort(q, d, sigs) ==
  /\ Len(sigs) + 1 >= guards[q].threshold
  /\ \A i \in DOMAIN sigs :
       /\ sigs[i].form \notin {"short", "high-s"}
       /\ Recover(sigs[i], d) \in guards[q].observers
       /\ Recover(sigs[i], d) > (IF i = 1 THEN Zero ELSE Recover(sigs[i - 1], d))

SignedQuorumMet(q, d, sigs) ==
  /\ Len(sigs) >= guards[q].threshold
  /\ \A i \in DOMAIN sigs :
       /\ sigs[i].form \notin {"short", "high-s"}
       /\ Recover(sigs[i], d) \in guards[q].observers
       /\ Recover(sigs[i], d) > (IF i = 1 THEN Zero ELSE Recover(sigs[i - 1], d))

\* What the guard promises of a quorum: M observers signed this claim, for
\* this guard and key, on the chain it is accepted on.
Backed(q, k, c, sigs) ==
  LET d == [chain |-> chain, guard |-> q, key |-> k, claim |-> c]
  IN  Cardinality({s \in guards[q].observers :
                     \E i \in DOMAIN sigs : sigs[i].form # "bad-v" /\ sigs[i].signer = s
                                            /\ sigs[i].digest = d})
        >= guards[q].threshold

\* Mutant of AcceptClaim: a claim already accepted is replaced.
AcceptAgain(q, k, c) ==
  \E sigs \in BoundedSeq(Signatures(q, ClaimDigest(q, k, c)), MaxSignatures) :
    /\ SignedQuorumMet(q, ClaimDigest(q, k, c), sigs)
    /\ guards' = [guards EXCEPT ![q].accepted[k] = c, ![q].backed[k] = Backed(q, k, c, sigs)]
    /\ UNCHANGED <<chain, contract>>

AcceptClaim(q, k, c) ==
  /\ guards[q].accepted[k] = NoClaim
  /\ \E sigs \in BoundedSeq(Signatures(q, ClaimDigest(q, k, c)), MaxSignatures) :
       /\ SignedQuorumMet(q, ClaimDigest(q, k, c), sigs)
       /\ guards' = [guards EXCEPT ![q].accepted[k] = c, ![q].backed[k] = Backed(q, k, c, sigs)]
  /\ UNCHANGED <<chain, contract>>

\* A fork of the network: the contracts go on under another chain id.
Fork == \E x \in Chains \ {chain} : chain' = x /\ UNCHANGED <<guards, contract>>

-----------------------------------------------------------------------------
(* The contract: money arithmetic                                          *)

\* int256(amount): the cast wraps.
AsInt(n) == IF n < 2^(Width - 1) THEN n ELSE n - 2^Width
NetDelta(i, p) == IF Effects[i].kind = "credit" THEN AsInt(Amount(i, p)) ELSE -AsInt(Amount(i, p))

PostingOrder(i, j) == IF Temporal THEN GroupOrder(i, j) ELSE i <= j

\* net[k][ledger], debitTotal[k] and creditTotal[k] once the postings of S are made.
NetDeltas(p) == [i \in EffectIds |-> NetDelta(i, p)]
NetAfter(k, l, S, p) ==
  contract.net[k][l] + SumFunctionOnSet(NetDeltas(p), {i \in S : Ledger(i, p) = l})
TotalAfter(k, kind, S, p) == contract.total[k][kind] + SumOf(kind, S, p)

\* Checked arithmetic: some += or -= of the postings leaves its type. A total
\* only grows, so its last value decides.
Overflows(k, S, p) ==
  \/ \E i \in S : NetAfter(k, Ledger(i, p), {j \in S : PostingOrder(j, i)}, p)
                    \notin -(2^(Width - 1)) .. (2^(Width - 1) - 1)
  \/ \E kind \in {"debit", "credit"} : TotalAfter(k, kind, S, p) >= 2^Width

TotalsAgree(k, S, p) == TotalAfter(k, "debit", S, p) = TotalAfter(k, "credit", S, p)

Ledgers == {a[1] : a \in Accounts}

\* The postings of S made and their events emitted.
Posted(k, S, p) ==
  [contract EXCEPT
     !.net[k] = [l \in Ledgers |-> NetAfter(k, l, S, p)],
     !.total[k] = [kind \in {"debit", "credit"} |-> TotalAfter(k, kind, S, p)],
     !.events = @ (+) SetToBag({<<k, p, i>> : i \in S})]

-----------------------------------------------------------------------------
(* execute() of the temporal contract                                      *)

\* Mutant of Holding: any accepted claim of the key opens the group.
HoldingAnyClaim(k, p) == {g \in Groups : guards[g].accepted[k] # NoClaim} \ contract.groups[k]

\* The groups whose own guard accepted this very claim, not committed yet.
Holding(k, p) == {g \in Groups : guards[g].accepted[k] = <<k, p>>} \ contract.groups[k]

\* Mutant of AllCommitted: the flags as they were before this call.
AllDoneBefore(k, p) == Groups \subseteq contract.groups[k]

AllCommitted(k, p) == Groups \subseteq contract.groups[k] \cup Holding(k, p)

TemporalReverts(k, p) ==
  \/ contract.status[k] = Success
  \/ contract.claim[k] \notin {NoClaim, <<k, p>>}
  \/ ComputeFault[p] # None
  \/ Overflows(k, Legs(Holding(k, p)), p)
  \/ AllCommitted(k, p) /\ ~TotalsAgree(k, Legs(Holding(k, p)), p)

\* Mutant of TemporalCall: the claim is pinned by the terminal, not by progress.
TemporalCallPinsLate(k, p) ==
  [Posted(k, Legs(Holding(k, p)), p) EXCEPT
     !.groups[k] = @ \cup Holding(k, p),
     !.claim[k] = IF AllCommitted(k, p) THEN <<k, p>> ELSE @,
     !.status[k] = IF AllCommitted(k, p) THEN Success ELSE Open]

\* The claim is pinned by the first call that makes progress.
TemporalCall(k, p) ==
  [Posted(k, Legs(Holding(k, p)), p) EXCEPT
     !.groups[k] = @ \cup Holding(k, p),
     !.claim[k] = IF Holding(k, p) # {} THEN <<k, p>> ELSE @,
     !.status[k] = IF AllCommitted(k, p) THEN Success ELSE Open]

-----------------------------------------------------------------------------
(* The single-shot and the evidence-only contract                          *)

IsAccepted(k) == \E q \in Policies : guards[q].accepted[k] # NoClaim

FiringFor(p) ==
  {i \in EffectIds : Effects[i].guard = NoGuard \/ Compare[Effects[i].guard][p] = "true"}
GuardReverts(p) ==
  \E i \in EffectIds : Effects[i].guard # NoGuard /\ Compare[Effects[i].guard][p] \notin {"true", "false"}

\* Mutant of SingleReverts: the status of the key is not required to be None.
SingleRepeats(k, p) ==
  \/ IF Gated THEN ~IsAccepted(k) ELSE k \notin contract.attested
  \/ ComputeFault[p] # None \/ GuardReverts(p)
  \/ Overflows(k, FiringFor(p), p) \/ ~TotalsAgree(k, FiringFor(p), p)

\* execute(), or the accept() of the evidence-only contract, which only looks
\* at the key: both share the two checks of the key.
SingleReverts(k, p) ==
  \/ contract.status[k] # Open
  \/ IF Gated THEN ~IsAccepted(k) ELSE k \notin contract.attested
  \/ ComputeFault[p] # None \/ GuardReverts(p)
  \/ Overflows(k, FiringFor(p), p) \/ ~TotalsAgree(k, FiringFor(p), p)

\* claim[k] is not stored by this contract: it remembers the call.
SingleCall(k, p) ==
  [Posted(k, FiringFor(p), p) EXCEPT !.claim[k] = <<k, p>>, !.status[k] = Success]

\* attest() of the ungated contract.
Attest(k) ==
  /\ ~Gated /\ contract.status[k] = Open
  /\ contract' = [contract EXCEPT !.attested = @ \cup {k}]
  /\ UNCHANGED <<chain, guards>>

-----------------------------------------------------------------------------
CallReverts(k, p) == IF Temporal THEN TemporalReverts(k, p) ELSE SingleReverts(k, p)
AfterCall(k, p) == IF Temporal THEN TemporalCall(k, p) ELSE SingleCall(k, p)

Call(k, p) ==
  /\ ~CallReverts(k, p)
  /\ contract' = AfterCall(k, p)
  /\ UNCHANGED <<chain, guards>>

Deployed ==
  /\ chain \in Chains
  /\ guards \in [Policies -> {Deploy(args) : args \in {a \in Deployments : ~ConstructorReverts(a)}}]
  /\ contract = [status |-> [k \in Keys |-> Open], claim |-> [k \in Keys |-> NoClaim],
                 groups |-> [k \in Keys |-> {}], attested |-> {},
                 net |-> [k \in Keys |-> [l \in Ledgers |-> 0]],
                 total |-> [k \in Keys |-> [kind \in {"debit", "credit"} |-> 0]],
                 events |-> EmptyBag]

Transaction ==
  \/ \E q \in Policies, k \in Keys, c \in SignedClaims : AcceptClaim(q, k, c)
  \/ \E k \in Keys : Attest(k)
  \/ \E k \in Keys, p \in Payloads : Call(k, p)
  \/ Fork

ContractSpec == Deployed /\ [][Transaction]_solVars

-----------------------------------------------------------------------------
\* The posting events of a key, and what an event posts.
EventsOf(k) == {e \in DOMAIN contract.events : e[1] = k}
EventAmounts(c) == [e \in DOMAIN c.events |-> c.events[e] * Amount(e[3], e[2])]
EventDeltas(c) == [e \in DOMAIN c.events |-> c.events[e] * Delta(e[3], e[2])]

\* The contract's storage and events as the reference evaluator's state: its
\* balances are what the posting events of all keys add up to.
EvaluatedContract(c) ==
  [balances |-> [a \in Accounts |->
     SumFunctionOnSet(EventDeltas(c),
                      {e \in DOMAIN c.events : Effects[e[3]].leg[e[2]].account = a})],
   postedKeys |-> {k \in Keys : c.status[k] = Success},
   keyClaim |-> c.claim,
   committedGroups |-> c.groups,
   keyStatus |-> c.status]

\* Every acceptance was signed by a quorum that can exist
\* (ThresholdQuorumAcceptance.sol.inc 138-165).
QuorumsAreReal ==
  \A q \in Policies :
    /\ guards[q].threshold \in 1 .. Cardinality(guards[q].observers)
    /\ \A k \in Keys : guards[q].accepted[k] # NoClaim => guards[q].backed[k]

\* The acceptance or the attestation an event rests on: its own guard accepted
\* its claim (temporal), the guard its key (single-shot).
Rests(e) ==
  IF Temporal THEN guards[Effects[e[3]].guard].accepted[e[1]] = <<e[1], e[2]>>
  ELSE IF Gated THEN IsAccepted(e[1]) ELSE e[1] \in contract.attested

\* The events of a key are the legs it committed, each once, under its claim.
EventsAreCommits(k) ==
  /\ {e[3] : e \in EventsOf(k)} = PostedLegs(EvaluatedContract(contract), k)
  /\ \A e \in EventsOf(k) :
       contract.events[e] = 1 /\ <<k, e[2]>> = contract.claim[k] /\ Rests(e)
  /\ contract.status[k] = Success /\ Temporal => contract.groups[k] = Groups

\* The totals and the net positions of a key are its events' sums, in the words
\* that hold them.
PositionsAreSums(k) ==
  /\ \A kind \in {"debit", "credit"} :
       contract.total[k][kind]
         = SumFunctionOnSet(EventAmounts(contract),
                            {e \in EventsOf(k) : Effects[e[3]].kind = kind})
  /\ \A l \in Ledgers :
       (contract.net[k][l]
          - SumFunctionOnSet(EventDeltas(contract),
                             {e \in EventsOf(k) : Ledger(e[3], e[2]) = l})) % 2^Width = 0

\* What stands in the postings was earned: the quorums are real, and the events
\* and the positions are those of what was accepted, called and posted once.
EventsAreEarned ==
  /\ QuorumsAreReal
  /\ \A k \in Keys : EventsAreCommits(k) /\ PositionsAreSums(k)

\* What the contract's words must hold for its calls to be the evaluator's: all
\* that a payload posts, unless each of its amounts is beyond what can be added
\* to a balance of the evaluator's.  (256 bits hold it for amounts of 64 bits.)
WordsHold(p) ==
  /\ \A l \in Ledgers : SumFunctionOnSet(Amounts(p), {i \in EffectIds : Ledger(i, p) = l}) < 2^(Width - 1)
  /\ \A kind \in {"debit", "credit"} : SumOf(kind, EffectIds, p) < 2^Width
BeyondBalances(p) == \A i \in EffectIds : Amount(i, p) > 2 * MaxBalance + 1
WordsSuffice ==
  /\ 2^(Width - 1) \in Nat /\ 2^Width = 2 * 2^(Width - 1)
  /\ \A p \in Payloads : WordsHold(p) \/ BeyondBalances(p)

\* The verdicts the evaluator is given for a call: what the guards say.
VerdictsFor(k, p) ==
  [q \in Policies |->
     IF guards[q].accepted[k] = <<k, p>> \/ (~Temporal /\ guards[q].accepted[k] # NoClaim)
     THEN "accepted" ELSE "absent"]

\* The transactions of the contract are the transitions of the reference
\* evaluator: whatever was accepted, called and forked before, a call reverts
\* when the evaluator refuses or replays and otherwise leaves the evaluator's
\* next state; except that the evaluator's balances have a narrower range, that
\* the ungated contract also requires attest(), and that the gated one requires
\* a quorum even of a call none of whose postings fires.
CallsAreTransitions ==
  \A k \in Keys, p \in Payloads :
    LET in == [authorized |-> TRUE, key |-> k, payload |-> p, attestations |-> VerdictsFor(k, p)]
        r == Transition(EvaluatedContract(contract), in)
    IN  \/ r.code = "balance.overflow"
        \/ ~Temporal /\ ~Gated /\ k \notin contract.attested
        \/ ~Temporal /\ Gated /\ ~IsAccepted(k) /\ FiringFor(p) = {} /\ CallReverts(k, p)
        \/ /\ CallReverts(k, p) <=> r.outcome \in {"refused", "replayed"}
           /\ ~CallReverts(k, p) => EvaluatedContract(AfterCall(k, p)) = r.next
=============================================================================
