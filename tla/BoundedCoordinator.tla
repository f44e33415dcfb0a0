------------------------- MODULE BoundedCoordinator -------------------------
(***************************************************************************)
(* The shared bounded coordinator of lib/spec-contract/                    *)
(* BoundedCoordinator.cpp: it admits one plan, derives static step and     *)
(* storage bounds from it, and hosts many instances of it, each with its   *)
(* own EvalState, running the reference evaluator per call and rolling     *)
(* back a call that overruns a bound.                                      *)
(***************************************************************************)
EXTENDS CoordinationEval

CONSTANTS
  Instances,       \* instance ids a caller may name
  Watched          \* any one of them, the one the refinement follows

ASSUME WatchedAssumption == Watched \in Instances

kBoundedMaxEffects == 4
kBoundedMaxComputes == 4
kBoundedMaxAttestations == 1
kBoundedMaxSteps == 32
kBoundedMaxStorageSlots == 16

VARIABLES
  phase,       \* "new", then "hosting" or "rejected" by create()
  hosted,      \* ids with an entry in instances_
  instances,   \* their EvalStates (EmptyState for an id without an entry)
  lastOf,      \* per instance, its last reference result that was kept
  answer       \* instance, outcome and code of the last answer to a caller

hostVars == <<phase, hosted, instances, lastOf, answer>>

NoHostedCall == [outcome |-> "none", code |-> None, key |-> NoKey]

\* Mutants of the bounds: gates and guards not counted; the touched accounts
\* counted once per pair of legs.
MaxStepsTight == 3 + ComputeCount + 2 * Len(Effects)
MaxSteps == 3 + ComputeCount + 4 * Len(Effects)
MaxStorageSlots == 2 + 2 * Len(Effects)

AdmitBounded ==
  /\ \A i \in EffectIds : Effects[i].kind \in {"debit", "credit"}
  /\ Len(Effects) <= kBoundedMaxEffects
  /\ ComputeCount <= kBoundedMaxComputes
  /\ Len(Attestations) <= kBoundedMaxAttestations
  /\ MaxSteps <= kBoundedMaxSteps
  /\ MaxStorageSlots <= kBoundedMaxStorageSlots

\* Entries of the balances map: accounts some committed leg has touched.
BalanceEntries(s) ==
  UNION {{Effects[i].leg[s.keyClaim[k][2]].account : i \in PostedLegs(s, k)} :
           k \in {k \in Keys : s.keyClaim[k] # NoClaim}}

Slots(s) == Cardinality(BalanceEntries(s)) + Cardinality(s.postedKeys)
              + Cardinality({k \in Keys : s.keyStatus[k] # Open})

BoundCode(r) == IF r.steps > MaxSteps THEN "bounds.step_exceeded"
                ELSE IF Slots(r.next) > MaxStorageSlots THEN "bounds.storage_exceeded"
                ELSE None

HostInit ==
  /\ phase = "new"
  /\ hosted = {}
  /\ instances = [i \in Instances |-> EmptyState]
  /\ lastOf = [i \in Instances |-> NoHostedCall]
  /\ answer = [instance |-> NoKey, outcome |-> "none", code |-> None]

Create == /\ phase = "new"
          /\ phase' = IF AdmitBounded THEN "hosting" ELSE "rejected"
          /\ UNCHANGED <<hosted, instances, lastOf, answer>>

RunWithoutRollback(i, in) ==
  LET r == Transition(instances[i], in)
      overrun == BoundCode(r)
  IN  /\ phase = "hosting"
      /\ hosted' = hosted \cup {i}
      /\ instances' = [instances EXCEPT ![i] = r.next]
      /\ IF overrun = None
         THEN /\ lastOf' = [lastOf EXCEPT ![i] = [outcome |-> r.outcome,
                                                  code |-> r.code, key |-> in.key]]
              /\ answer' = [instance |-> i, outcome |-> r.outcome, code |-> r.code]
         ELSE /\ answer' = [instance |-> i, outcome |-> "refused", code |-> overrun]
              /\ UNCHANGED lastOf
      /\ UNCHANGED phase

Run(i, in) ==
  LET r == Transition(instances[i], in)
      overrun == BoundCode(r)
  IN  /\ phase = "hosting"
      /\ hosted' = hosted \cup {i}
      /\ IF overrun = None
         THEN /\ instances' = [instances EXCEPT ![i] = r.next]
              /\ lastOf' = [lastOf EXCEPT ![i] = [outcome |-> r.outcome,
                                                  code |-> r.code, key |-> in.key]]
              /\ answer' = [instance |-> i, outcome |-> r.outcome, code |-> r.code]
         ELSE /\ answer' = [instance |-> i, outcome |-> "refused", code |-> overrun]
              /\ UNCHANGED <<instances, lastOf>>
      /\ UNCHANGED phase

HostNext == Create \/ \E i \in Instances, in \in TransitionInput : Run(i, in)

HostSpec == HostInit /\ [][HostNext]_hostVars

-----------------------------------------------------------------------------
\* Seen from one instance, whichever it is, the shared coordinator is a
\* coordination of its own run by the reference evaluator: the other instances'
\* calls and the calls rolled back for a bound are stutters of it
\* (BoundedCoordinator.cpp 74-103).
Reference == INSTANCE Coordination WITH state <- instances[Watched], last <- lastOf[Watched]
EachInstanceIsAReference == Reference!Spec

\* maxSteps is what BoundedCoordinator.h 43-44 says it is, an upper bound on
\* the observations one transition emits: no call on an admitted plan is
\* refused for its steps.
StepBoundCovers == answer.code # "bounds.step_exceeded"
=============================================================================
