---------------------------- MODULE Coordination ----------------------------
(***************************************************************************)
(* A coordination driven by any sequence of invocations: each step is one  *)
(* call of evaluateTransition (CoordinationEval.cpp) on the state the      *)
(* previous one returned, for any key, payload, verdicts and authorization *)
(* the caller may present.                                                 *)
(***************************************************************************)
EXTENDS CoordinationEval

VARIABLES
  state,   \* the EvalState threaded through the calls
  last     \* outcome, refusal code and key of the last call

vars == <<state, last>>

NoCall == [outcome |-> "none", code |-> None, key |-> NoKey]

Init == /\ state = EmptyState
        /\ last = NoCall

Evaluate(in) ==
  LET r == Transition(state, in)
  IN  /\ state' = r.next
      /\ last' = [outcome |-> r.outcome, code |-> r.code, key |-> in.key]

Next == \E in \in TransitionInput : Evaluate(in)

Spec == Init /\ [][Next]_vars

-----------------------------------------------------------------------------
TypeOK ==
  /\ state \in EvalState
  /\ last.key \in Keys \cup {NoKey}
  /\ last.outcome \in {"none", "refused", "replayed", "noprogress", "progress", "terminal"}

\* The ledger is exactly what the commit ledger and the pinned claims say: no
\* leg of a (key, group) is posted twice, dropped, or posted for a payload
\* other than the key's claim, whatever the order of calls
\* (CoordinationEval.cpp 431-513, 546-613).
LedgerMatchesCommits ==
  \A a \in Accounts :
    state.balances[a] =
      SumFunctionOnSet([k \in Keys |-> PostedOn(state, k, a)], ClaimedKeys(state))

\* Value is conserved in every currency at every call boundary: a group's
\* balanced legs are published together or not at all, a mid-group overflow
\* or operand fault included.  (For a Balanced plan, which assemblePlan requires
\* of a `balanced` coordination.)
ValueConserved ==
  \A c \in {a[3] : a \in Accounts} :
    SumFunctionOnSet(state.balances, {a \in Accounts : a[3] = c}) = 0

\* A key is at its terminal exactly when it was posted, only with a claim, and
\* for a temporal plan exactly when every group its claim requires has
\* committed: no key is left complete but open, or terminal but incomplete
\* (CoordinationEval.cpp 515-531).
TerminalIffComplete == \A k \in Keys : KeyComplete(state, k)

\* What was committed under a key was committed for its claim: the claim names
\* the key itself, exists once anything is committed, and no comparison group
\* that is false for the claimed payload is in the commit ledger.
CommitsBackedByClaim == \A k \in Keys : KeyBacked(state, k)

\* The dispositions' contract (CoordinationEval.h 92-104): progress leaves the
\* key open, terminal and replayed find it posted, no-progress finds it open.
OutcomeContract ==
  /\ last.outcome \in {"terminal", "replayed"} => last.key \in state.postedKeys
  /\ last.outcome \in {"progress", "noprogress"} => last.key \notin state.postedKeys
  /\ last.outcome = "progress" => state.committedGroups[last.key] # {}

\* A claim, once established for a key, and a commit, once made, are never
\* changed or taken back; a posted key stays posted (CoordinationEval.cpp
\* 214-220, 511-531).
CommitsAreForever ==
  [][\A k \in Keys :
       /\ state.keyClaim[k] # NoClaim => state'.keyClaim[k] = state.keyClaim[k]
       /\ state.committedGroups[k] \subseteq state'.committedGroups[k]
       /\ k \in state.postedKeys => k \in state'.postedKeys]_vars

\* A call that is refused, replayed or makes no progress changes nothing, and
\* one that commits changes the records of its own key only.
CallsTouchOneKey ==
  [][/\ last'.outcome \in {"refused", "replayed", "noprogress"} => state' = state
     /\ \A k \in Keys \ {last'.key} :
          /\ state'.keyClaim[k] = state.keyClaim[k]
          /\ state'.committedGroups[k] = state.committedGroups[k]
          /\ state'.keyStatus[k] = state.keyStatus[k]
          /\ k \in state'.postedKeys <=> k \in state.postedKeys]_vars

\* The records of a key contradict each other.
Inconsistent(s, k) ==
  \/ k \in s.postedKeys /\ (s.keyClaim[k] = NoClaim \/ s.keyStatus[k] = Open)
  \/ /\ k \notin s.postedKeys
     /\ Temporal
     /\ s.committedGroups[k] # {}
     /\ s.keyClaim[k] = NoClaim \/ ~(s.committedGroups[k] \subseteq Groups)

\* A caller may hand the evaluator any state (a scenario's initial state), one
\* that no sequence of commits produced included: here any records of one key.
Supplied(k, P, c, g, t) ==
  [EmptyState EXCEPT !.postedKeys = P, !.keyClaim[k] = c, !.committedGroups[k] = g, !.keyStatus[k] = t]
SuppliedStates(k) ==
  {Supplied(k, P, c, g, t) :
     P \in SUBSET {k}, c \in Claims \cup {NoClaim}, g \in SUBSET (Groups \cup {"ghost"}), t \in {Open, Success}}

\* Whatever state the caller supplies, nothing is ever committed under a key
\* whose records contradict each other: such a state fails closed, whatever
\* call comes first (CoordinationEval.cpp 228-243, 381-396).
InconsistentKeyFrozen ==
  last = NoCall =>
    \A k \in Keys, in \in TransitionInput :
      \A s \in {t \in SuppliedStates(k) : Inconsistent(t, k)} :
        LET next == Transition(s, in).next
        IN  /\ next.committedGroups[k] = s.committedGroups[k]
            /\ next.keyClaim[k] = s.keyClaim[k]
            /\ in.key = k => next = s

=============================================================================
