-------------------------- MODULE CoordinationEval --------------------------
(***************************************************************************)
(* The reference evaluator of a coordination plan: the pure function       *)
(* evaluateTransition(plan, state, input) of                               *)
(* lib/spec-contract/CoordinationEval.cpp, the oracle every realization is *)
(* compared with.  The plan is the module's constants; an EvalState is a   *)
(* record; Transition(s, in) is the TransitionResult.                      *)
(*                                                                         *)
(* Data abstracted: a payload stands for the values of all declared inputs *)
(* (so an execution claim, the hash of coordination identity, key and      *)
(* typed inputs, is the pair <<key, payload>>); expressions are tabulated  *)
(* by payload; the trace is represented by its length.                     *)
(***************************************************************************)
EXTENDS Integers, Sequences, FiniteSets, SequencesExt

CONSTANTS
  Keys,            \* values the workflow key can resolve to
  NoKey,           \* the workflow key is absent from the input, or empty
  Payloads,        \* assignments of values to the declared inputs
  IllTyped,        \* payloads with a missing, ambiguous or mistyped input
  ComputeFault,    \* payload -> the refusal code of folding the computes
  ComputeCount,    \* number of computes of the plan
  Attestations,    \* the declared policies, in order
  Comparisons,     \* guard keys of comparison guards
  Compare,         \* comparison -> payload -> "true", "false" or a fault code
  Effects,         \* the plan's effects, in order
  ObligationCount, \* number of obligations of the plan
  Accounts,        \* (ledger, party, currency) posting identities
  MaxBalance       \* the largest value of a balance (2^63 - 1 in the code)

None == ""                        \* no refusal code
NoPolicy == "ungated"
NoGuard == "unconditional"
Success == "success"              \* plan.terminal.success
Open == "open"                    \* a key with no keyStatus entry
NoClaim == << >>                  \* a key with no keyClaim entry
Verdicts == {"absent", "rejected", "accepted"}

Policies == ToSet(Attestations)
EffectIds == DOMAIN Effects
Groups == {Effects[i].guard : i \in EffectIds}   \* partition by guardKey
Balance == (-MaxBalance - 1) .. MaxBalance       \* long long
Balances == [Accounts -> Balance]
Claims == Keys \X Payloads

\* What resolving one effect's operands against a payload yields.
Operands == [amountCode : STRING, amount : Int, accountCode : STRING,
             account : Accounts]

ASSUME PlanAssumption ==
  /\ NoKey \notin Keys
  /\ IllTyped \subseteq Payloads
  /\ MaxBalance \in Nat
  /\ ComputeCount \in Nat
  /\ ObligationCount \in Nat
  /\ Attestations \in Seq(STRING)
  /\ Effects \in Seq([name : STRING, kind : STRING, guard : STRING, gate : STRING,
                      leg : [Payloads -> Operands]])
  /\ NoGuard \notin Policies \cup Comparisons
  /\ NoPolicy \notin Policies
  /\ Policies \cap Comparisons = {}
  /\ \A i \in EffectIds :
       /\ Effects[i].guard \in Policies \cup Comparisons \cup {NoGuard}
       /\ Effects[i].gate \in Policies \cup {NoPolicy}
  /\ Effects # << >> \/ Attestations # << >>

EvalState == [balances : Balances,
              postedKeys : SUBSET Keys,
              keyClaim : [Keys -> Claims \cup {NoClaim}],
              committedGroups : [Keys -> SUBSET Groups],
              keyStatus : [Keys -> {Open, Success}]]

EmptyState == [balances |-> [a \in Accounts |-> 0],
               postedKeys |-> {},
               keyClaim |-> [k \in Keys |-> NoClaim],
               committedGroups |-> [k \in Keys |-> {}],
               keyStatus |-> [k \in Keys |-> Open]]

TransitionInput == [authorized : BOOLEAN,
                    key : Keys \cup {NoKey},
                    payload : Payloads,
                    attestations : [Policies -> Verdicts]]

-----------------------------------------------------------------------------
(* Guards, operands and staging                                            *)

IsAcceptedGuard(g) == g \in Policies

Temporal == \E i \in EffectIds : IsAcceptedGuard(Effects[i].guard)
EvidenceOnly == Effects = << >> /\ Attestations # << >>

Accepted(in, p) == in.attestations[p] = "accepted"

EvalGuard(g, in) ==
  IF g = NoGuard THEN "true"
  ELSE IF IsAcceptedGuard(g) THEN IF Accepted(in, g) THEN "true" ELSE "false"
  ELSE Compare[g][in.payload]

Holds(g, in) == EvalGuard(g, in) = "true"
GuardFaults(g, in) == EvalGuard(g, in) \notin {"true", "false"}

\* resolveAmount, then resolveSymbol of party and currency: "" on success.
OperandCode(i, p) ==
  LET o == Effects[i].leg[p]
  IN  IF Effects[i].kind \notin {"debit", "credit"} THEN "effect.kind"
      ELSE IF o.amountCode # None THEN o.amountCode
      ELSE IF o.amount < 0 THEN "amount.negative"
      ELSE o.accountCode

Delta(i, p) == IF Effects[i].kind = "credit" THEN Effects[i].leg[p].amount
                                             ELSE -Effects[i].leg[p].amount

\* What posting each effect for payload p adds to its account's balance.
Deltas(p) == [i \in EffectIds |-> Delta(i, p)]

LegsOn(S, p, a) == {i \in S : Effects[i].leg[p].account = a}

\* Mutant of Staged: saturate at the bounds instead of leaving the range.
StagedSaturating(bal, S, p) ==
  LET Clamp(n) == IF n > MaxBalance THEN MaxBalance
                  ELSE IF n < -MaxBalance - 1 THEN -MaxBalance - 1 ELSE n
  IN  [a \in Accounts |->
         Clamp(bal[a] + SumFunctionOnSet(Deltas(p), LegsOn(S, p, a)))]

\* The balances after posting the effects of S for payload p, unchecked: only
\* the accounts that some effect of S touches are written.
Staged(bal, S, p) ==
  [a \in Accounts |->
     IF LegsOn(S, p, a) = {} THEN bal[a]
     ELSE bal[a] + SumFunctionOnSet(Deltas(p), LegsOn(S, p, a))]

\* The code of the first effect of S, in the order Before, that has one.
FirstCode(S, Code(_), Before(_, _)) ==
  Code(CHOOSE i \in S : Code(i) # None /\ \A j \in S : Code(j) # None => Before(i, j))

Refused(s, code) == [outcome |-> "refused", code |-> code, next |-> s, steps |-> 0]
Unchanged(s, outcome, steps) ==
  [outcome |-> outcome, code |-> None, next |-> s, steps |-> steps]

\* Mutant of Post: other keys' entries dropped.
PostDroppingOthers(s, k, c) == [s EXCEPT !.postedKeys = {k},
                                         !.keyClaim = [@ EXCEPT ![k] = c],
                                         !.keyStatus = [@ EXCEPT ![k] = Success]]

\* Mark key k posted for claim c, at its success terminal.
Post(s, k, c) == [s EXCEPT !.postedKeys = @ \cup {k},
                           !.keyClaim = [@ EXCEPT ![k] = c],
                           !.keyStatus = [@ EXCEPT ![k] = Success]]
-----------------------------------------------------------------------------
(* Admission: authorization, key, typed inputs, claim, replay (steps 1-3)  *)

Claim(in) == <<in.key, in.payload>>

\* Mutant of AdmissionCode: the pinned claim is not compared.
AdmissionWithoutClaim(s, in) ==
  IF ~in.authorized THEN "auth.denied"
  ELSE IF in.key = NoKey THEN "key.unresolved"
  ELSE IF in.payload \in IllTyped THEN "claim.input"
  ELSE None

AdmissionCode(s, in) ==
  IF ~in.authorized THEN "auth.denied"
  ELSE IF in.key = NoKey THEN "key.unresolved"
  ELSE IF in.payload \in IllTyped THEN "claim.input"
  ELSE IF s.keyClaim[in.key] \notin {NoClaim, Claim(in)} THEN "claim.mismatch"
  ELSE IF /\ in.key \in s.postedKeys
          /\ s.keyClaim[in.key] = NoClaim \/ s.keyStatus[in.key] = Open
       THEN "state.invalid"
  ELSE None

\* Mutant of IsReplay: any key with a claim replays, a partial one included.
ReplayOnClaim(s, in) == s.keyClaim[in.key] # NoClaim

IsReplay(s, in) == in.key \in s.postedKeys

-----------------------------------------------------------------------------
(* 5b. Evidence-only: the transition is the acceptance.                    *)

PolicyCode(in, n) ==
  CASE in.attestations[Attestations[n]] = "absent"   -> "evidence.malformed"
    [] in.attestations[Attestations[n]] = "rejected" -> "attestation.rejected"
    [] in.attestations[Attestations[n]] = "accepted" -> None

AcceptEvidence(s, in) ==
  LET order == DOMAIN Attestations
      Code(n) == PolicyCode(in, n)
  IN  IF \E n \in order : Code(n) # None
      THEN Refused(s, FirstCode(order, Code, <=))
      ELSE [outcome |-> "terminal", code |-> None,
            next |-> Post(s, in.key, Claim(in)),
            steps |-> 3 + ComputeCount + Len(Attestations)]

-----------------------------------------------------------------------------
(* 5c. Temporal: each group commits on its own, at most once per key.      *)

FirstIndex(g) == Min({i \in EffectIds : Effects[i].guard = g})

\* Groups are visited in order of first appearance, effects in plan order.
GroupOrder(i, j) ==
  LET gi == FirstIndex(Effects[i].guard)
      gj == FirstIndex(Effects[j].guard)
  IN  gi < gj \/ (gi = gj /\ i <= j)

Legs(gs) == {i \in EffectIds : Effects[i].guard \in gs}
GuardedGroups == Groups \ {NoGuard}

\* Unconditional, any accepted() group, or a comparison that holds for p.
Required(p) ==
  {g \in Groups : g = NoGuard \/ IsAcceptedGuard(g) \/ Compare[g][p] = "true"}

\* What a balanced coordination promises of each of its groups: the amounts
\* it debits, with their currencies, are those it credits, as multisets,
\* whenever all its operands resolve.
ValueOf(i, p) == <<Effects[i].leg[p].amount, Effects[i].leg[p].account[3]>>
ValueLegs(g, kind, p, v) ==
  {i \in Legs({g}) : Effects[i].kind = kind /\ ValueOf(i, p) = v}
Balanced ==
  \A g \in Groups, p \in Payloads :
    (\A i \in Legs({g}) : OperandCode(i, p) = None) =>
      \A v \in {ValueOf(i, p) : i \in Legs({g})} :
        Cardinality(ValueLegs(g, "debit", p, v)) = Cardinality(ValueLegs(g, "credit", p, v))

\* Mutant of Committable: groups the key already committed are staged again.
CommittableAgain(s, in) == {g \in Groups : Holds(g, in)}

Committable(s, in) == {g \in Groups : Holds(g, in)} \ s.committedGroups[in.key]

\* Mutant of PartialLedgerInvalid: a ledger without a claim is not noticed.
UnknownGroupOnly(s, k) == ~(s.committedGroups[k] \subseteq Groups)

\* A commit ledger that its claim or the plan's groups do not back.
PartialLedgerInvalid(s, k) ==
  /\ s.committedGroups[k] # {}
  /\ s.keyClaim[k] = NoClaim \/ ~(s.committedGroups[k] \subseteq Groups)

\* Mutant of TemporalLegCode: the sum is not checked.
TemporalLegUnchecked(s, in, gs, i) == OperandCode(i, in.payload)

TemporalLegCode(s, in, gs, i) ==
  IF OperandCode(i, in.payload) # None THEN OperandCode(i, in.payload)
  ELSE IF Staged(s.balances, {j \in Legs(gs) : GroupOrder(j, i)}, in.payload)
            \notin Balances
       THEN "balance.overflow"
  ELSE None

\* Mutants of CommitGroups: completion decided on the ledger as it was before
\* this commit; the claim pinned only at the terminal.
CommitJudgedEarly(s, in, gs) ==
  LET allDone == Required(in.payload) \subseteq s.committedGroups[in.key]
      committed ==
        [s EXCEPT !.balances = Staged(@, Legs(gs), in.payload),
                  !.committedGroups = [@ EXCEPT ![in.key] = @ \cup gs],
                  !.keyClaim = [@ EXCEPT ![in.key] = Claim(in)]]
  IN  [outcome |-> IF allDone THEN "terminal" ELSE "progress", code |-> None,
       next |-> IF allDone THEN Post(committed, in.key, Claim(in)) ELSE committed,
       steps |-> 1]
CommitWithoutPin(s, in, gs) ==
  LET committed ==
        [s EXCEPT !.balances = Staged(@, Legs(gs), in.payload),
                  !.committedGroups = [@ EXCEPT ![in.key] = @ \cup gs]]
      allDone == Required(in.payload) \subseteq committed.committedGroups[in.key]
  IN  [outcome |-> IF allDone THEN "terminal" ELSE "progress", code |-> None,
       next |-> IF allDone THEN Post(committed, in.key, Claim(in)) ELSE committed,
       steps |-> 1]

CommitGroups(s, in, gs) ==
  LET done == s.committedGroups[in.key] \cup gs
      allDone == Required(in.payload) \subseteq done
      committed ==
        [s EXCEPT !.balances = Staged(@, Legs(gs), in.payload),
                  !.committedGroups = [@ EXCEPT ![in.key] = done],
                  !.keyClaim = [@ EXCEPT ![in.key] = Claim(in)]]
  IN  [outcome |-> IF allDone THEN "terminal" ELSE "progress",
       code |-> None,
       next |-> IF allDone THEN Post(committed, in.key, Claim(in)) ELSE committed,
       steps |-> 1 + ComputeCount + Cardinality(GuardedGroups)
                   + 2 * Cardinality(Legs(gs)) + (IF allDone THEN 2 ELSE 0)]

TemporalTransition(s, in) ==
  LET gs == Committable(s, in)
      GuardCode(i) == IF GuardFaults(Effects[i].guard, in)
                      THEN EvalGuard(Effects[i].guard, in) ELSE None
      LegCode(i) == TemporalLegCode(s, in, gs, i)
  IN  IF PartialLedgerInvalid(s, in.key) THEN Refused(s, "state.invalid")
      ELSE IF \E i \in EffectIds : GuardCode(i) # None
           THEN Refused(s, FirstCode(EffectIds, GuardCode, GroupOrder))
      ELSE IF \E i \in Legs(gs) : LegCode(i) # None
           THEN Refused(s, FirstCode(Legs(gs), LegCode, GroupOrder))
      ELSE IF gs = {}
           THEN Unchanged(s, "noprogress",
                          2 + ComputeCount + Cardinality(GuardedGroups))
      ELSE CommitGroups(s, in, gs)

-----------------------------------------------------------------------------
(* 6-7. Single-shot: every firing effect in one commit.                    *)

Firing(in) == {i \in EffectIds : Holds(Effects[i].guard, in)}

EffectCode(s, in, i) ==
  LET e == Effects[i]
  IN  IF e.kind \notin {"debit", "credit"} THEN "effect.kind"
      ELSE IF GuardFaults(e.guard, in) THEN EvalGuard(e.guard, in)
      ELSE IF i \notin Firing(in) THEN None
      ELSE IF e.gate # NoPolicy /\ ~Accepted(in, e.gate) THEN "attestation.rejected"
      ELSE IF OperandCode(i, in.payload) # None THEN OperandCode(i, in.payload)
      ELSE IF Staged(s.balances, {j \in Firing(in) : j <= i}, in.payload)
                \notin Balances
           THEN "balance.overflow"
      ELSE None

SingleShotSteps(in) ==
  3 + ComputeCount + ObligationCount + 2 * Cardinality(Firing(in))
    + Cardinality({i \in EffectIds : Effects[i].guard # NoGuard})
    + Cardinality({i \in Firing(in) : Effects[i].gate # NoPolicy})

SingleShotTransition(s, in) ==
  LET Code(i) == EffectCode(s, in, i)
  IN  IF \E i \in EffectIds : Code(i) # None
      THEN Refused(s, FirstCode(EffectIds, Code, <=))
      ELSE [outcome |-> "terminal", code |-> None,
            next |-> Post([s EXCEPT !.balances = Staged(@, Firing(in), in.payload)],
                          in.key, Claim(in)),
            steps |-> SingleShotSteps(in)]

-----------------------------------------------------------------------------
\* The effects whose deltas key k has put on the ledger of s.
PostedLegs(s, k) ==
  IF Temporal THEN Legs(s.committedGroups[k])
  ELSE IF k \in s.postedKeys
       THEN {i \in EffectIds : Effects[i].guard = NoGuard
                 \/ Compare[Effects[i].guard][s.keyClaim[k][2]] = "true"}
  ELSE {}

\* A key's terminal, posted and commit records agree in s.
KeyComplete(s, k) ==
  /\ s.keyStatus[k] = Success <=> k \in s.postedKeys
  /\ k \in s.postedKeys => s.keyClaim[k] # NoClaim
  /\ Temporal /\ s.keyClaim[k] # NoClaim =>
       (k \in s.postedKeys <=>
          Required(s.keyClaim[k][2]) \subseteq s.committedGroups[k])

\* What key k committed in s, its claim requires.
KeyBacked(s, k) ==
  /\ s.keyClaim[k] # NoClaim => s.keyClaim[k][1] = k
  /\ \A g \in s.committedGroups[k] :
       /\ s.keyClaim[k] # NoClaim
       /\ g \in Required(s.keyClaim[k][2])

ClaimedKeys(s) == {k \in Keys : s.keyClaim[k] # NoClaim}

\* What the legs of k on the ledger of s, at its claim, put on account a.
PostedOn(s, k, a) ==
  LET p == s.keyClaim[k][2]
  IN  SumFunctionOnSet(Deltas(p), LegsOn(PostedLegs(s, k), p, a))

-----------------------------------------------------------------------------
Transition(s, in) ==
  IF AdmissionCode(s, in) # None THEN Refused(s, AdmissionCode(s, in))
  ELSE IF IsReplay(s, in) THEN Unchanged(s, "replayed", 3)
  ELSE IF ComputeFault[in.payload] # None THEN Refused(s, ComputeFault[in.payload])
  ELSE IF EvidenceOnly THEN AcceptEvidence(s, in)
  ELSE IF Temporal THEN TemporalTransition(s, in)
  ELSE SingleShotTransition(s, in)
=============================================================================
