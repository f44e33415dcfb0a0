------------------------- MODULE CoordinationProofs -------------------------
(***************************************************************************)
(* Theorems about the reference evaluator and what hosts it, for every     *)
(* plan, key set and payload set: lemmas about one transition, then the    *)
(* behaviours of Coordination, then those of the BoundedCoordinator that   *)
(* hosts many instances of it.                                             *)
(***************************************************************************)
EXTENDS Coordination, BoundedCoordinator, FiniteSums, TLAPS

-----------------------------------------------------------------------------
(* The last leg of a commit: its overflow check covers the whole commit.   *)

\* The effects are numbered from one, in plan order.
LEMMA EffectIdsInterval == EffectIds = 1 .. Len(Effects) /\ Len(Effects) \in Nat
BY PlanAssumption DEF PlanAssumption, EffectIds

\* A group's first index is a position of the plan.
LEMMA FirstIndexInPlan ==
  ASSUME NEW g \in Groups
  PROVE  FirstIndex(g) \in 0 .. Len(Effects)
<1> DEFINE S == {i \in EffectIds : Effects[i].guard = g}
<1>1. S \in SUBSET Nat /\ S # {} /\ S \in SUBSET (0 .. Len(Effects))
  BY EffectIdsInterval DEF Groups
<1>2. \E x \in S : \A y \in S : x <= y
  BY <1>1, LeastExists
<1>3. Min(S) \in S
  BY <1>2 DEF Min
<1> QED BY <1>1, <1>3 DEF FirstIndex

\* A nonempty set of effects has a last one in plan order.
LEMMA LastEffect ==
  ASSUME NEW S \in SUBSET EffectIds, S # {}
  PROVE  \E i \in S : \A j \in S : j <= i
<1>1. S \in SUBSET (0 .. Len(Effects)) /\ Len(Effects) \in Nat
  BY EffectIdsInterval
<1> QED BY <1>1, GreatestExists

\* The legs of a nonempty set of groups have a last one in commit order.
LEMMA LastLeg ==
  ASSUME NEW gs \in SUBSET Groups, gs # {}
  PROVE  \E i \in Legs(gs) : \A j \in Legs(gs) : GroupOrder(j, i)
<1> DEFINE First(i) == FirstIndex(Effects[i].guard)
           F == {First(i) : i \in Legs(gs)}
<1>1. \A i \in Legs(gs) : First(i) \in 0 .. Len(Effects)
  BY FirstIndexInPlan DEF Legs, Groups
<1>2. Legs(gs) # {}
  BY DEF Legs, Groups
<1>3. F \in SUBSET (0 .. Len(Effects)) /\ F # {}
  BY <1>1, <1>2
<1>4. PICK f \in F : \A x \in F : x <= f
  BY <1>3, GreatestExists, EffectIdsInterval
<1> DEFINE S == {i \in Legs(gs) : First(i) = f}
<1>5. S \in SUBSET EffectIds /\ S # {}
  BY <1>4 DEF Legs
<1>6. PICK i \in S : \A j \in S : j <= i
  BY <1>5, LastEffect
<1>7. ASSUME NEW j \in Legs(gs) PROVE GroupOrder(j, i)
  <2>1. First(j) \in F /\ First(j) <= f /\ First(i) = f
    BY <1>4, <1>6
  <2>2. First(j) \in Int /\ f \in Int
    BY <1>1, <1>3, EffectIdsInterval
  <2>3. CASE First(j) < f
    BY <2>1, <2>3 DEF GroupOrder
  <2>4. CASE First(j) = f
    <3>1. j \in S
      BY <2>4
    <3>2. j <= i
      BY <3>1, <1>6
    <3> QED BY <2>1, <2>4, <3>2 DEF GroupOrder
  <2> QED BY <2>1, <2>2, <2>3, <2>4
<1> QED BY <1>6, <1>7

\* A set of legs that passed the per-leg overflow check leaves every balance
\* in range: the check of the last leg is the check of all.
LEMMA TemporalBalances ==
  ASSUME NEW s \in EvalState, NEW in \in TransitionInput,
         NEW gs \in SUBSET Groups, gs # {},
         \A i \in Legs(gs) : TemporalLegCode(s, in, gs, i) = None
  PROVE  Staged(s.balances, Legs(gs), in.payload) \in Balances
<1>1. PICK i \in Legs(gs) : \A j \in Legs(gs) : GroupOrder(j, i)
  BY LastLeg
<1>2. {j \in Legs(gs) : GroupOrder(j, i)} = Legs(gs)
  BY <1>1
<1>3. TemporalLegCode(s, in, gs, i) = None
  OBVIOUS
<1> QED BY <1>2, <1>3 DEF TemporalLegCode, None

\* The same for a single-shot commit (CoordinationEval.cpp 549-609).
LEMMA SingleShotBalances ==
  ASSUME NEW s \in EvalState, NEW in \in TransitionInput,
         \A i \in EffectIds : EffectCode(s, in, i) = None
  PROVE  Staged(s.balances, Firing(in), in.payload) \in Balances
<1>1. Firing(in) \in SUBSET EffectIds
  BY DEF Firing
<1>2. CASE Firing(in) = {}
  <2>1. Staged(s.balances, {}, in.payload) = [a \in Accounts |-> s.balances[a]]
    BY DEF Staged, LegsOn
  <2> QED BY <2>1, <1>2 DEF EvalState, Balances
<1>3. CASE Firing(in) # {}
  <2>1. PICK i \in Firing(in) : \A j \in Firing(in) : j <= i
    BY <1>1, <1>3, LastEffect
  <2>2. {j \in Firing(in) : j <= i} = Firing(in)
    BY <2>1
  <2>3. EffectCode(s, in, i) = None /\ Holds(Effects[i].guard, in)
    BY <1>1 DEF Firing
  <2> QED BY <2>2, <2>3 DEF EffectCode, None, Holds, GuardFaults
<1> QED BY <1>2, <1>3

-----------------------------------------------------------------------------
(* What a transition can do                                                *)

\* The call got past admission and is not a replay.
Fresh(s, in) ==
  /\ in.key \in Keys \ s.postedKeys
  /\ s.keyClaim[in.key] \in {NoClaim, Claim(in)}

SingleShotCommit(s, in) ==
  Post([s EXCEPT !.balances = Staged(@, Firing(in), in.payload)], in.key, Claim(in))

\* A transition leaves the state alone, or it is the commit of one of the
\* three plan shapes with all checks of that shape passed.
LEMMA TransitionCases ==
  ASSUME NEW s \in EvalState, NEW in \in TransitionInput
  PROVE  LET r == Transition(s, in) IN
         \/ r.outcome = "refused" /\ r.next = s
         \/ r.outcome = "replayed" /\ r.next = s /\ in.key \in s.postedKeys
         \/ /\ Fresh(s, in)
            /\ \/ r.outcome = "noprogress" /\ r.next = s
               \/ /\ EvidenceOnly
                  /\ r.outcome = "terminal"
                  /\ r.next = Post(s, in.key, Claim(in))
               \/ /\ ~EvidenceOnly /\ Temporal
                  /\ Committable(s, in) # {}
                  /\ \A i \in Legs(Committable(s, in)) :
                       TemporalLegCode(s, in, Committable(s, in), i) = None
                  /\ r = CommitGroups(s, in, Committable(s, in))
               \/ /\ ~EvidenceOnly /\ ~Temporal
                  /\ \A i \in EffectIds : EffectCode(s, in, i) = None
                  /\ r.outcome = "terminal"
                  /\ r.next = SingleShotCommit(s, in)
<1> DEFINE r == Transition(s, in)
<1>1. CASE AdmissionCode(s, in) # None
  BY <1>1 DEF Transition, Refused
<1>2. CASE AdmissionCode(s, in) = None /\ IsReplay(s, in)
  BY <1>2 DEF Transition, Unchanged, IsReplay
<1>3. CASE AdmissionCode(s, in) = None /\ ~IsReplay(s, in)
  <2>1. Fresh(s, in)
    BY <1>3 DEF AdmissionCode, IsReplay, Fresh, None, TransitionInput
  <2>2. CASE ComputeFault[in.payload] # None
    BY <1>3, <2>2 DEF Transition, Refused
  <2>3. CASE ComputeFault[in.payload] = None /\ EvidenceOnly
    BY <1>3, <2>1, <2>3 DEF Transition, AcceptEvidence, Refused
  <2>4. CASE ComputeFault[in.payload] = None /\ ~EvidenceOnly /\ Temporal
    BY <1>3, <2>1, <2>4 DEF Transition, TemporalTransition, Refused, Unchanged
  <2>5. CASE ComputeFault[in.payload] = None /\ ~EvidenceOnly /\ ~Temporal
    BY <1>3, <2>1, <2>5 DEF Transition, SingleShotTransition, Refused, SingleShotCommit
  <2> QED BY <2>2, <2>3, <2>4, <2>5
<1> QED BY <1>1, <1>2, <1>3

-----------------------------------------------------------------------------
(* The records after a commit                                              *)

\* The claim of a call names its own key and payload.
LEMMA ClaimIsPair ==
  ASSUME NEW in \in TransitionInput, in.key \in Keys
  PROVE  /\ Claim(in) \in Claims
         /\ Claim(in) # NoClaim
         /\ Claim(in)[1] = in.key
         /\ Claim(in)[2] = in.payload
BY DEF Claim, Claims, NoClaim, TransitionInput

\* What posting a key changes, record by record.
LEMMA PostRecords ==
  ASSUME NEW s \in EvalState, NEW k \in Keys, NEW c \in Claims
  PROVE  /\ Post(s, k, c) \in EvalState
         /\ Post(s, k, c).balances = s.balances
         /\ Post(s, k, c).postedKeys = s.postedKeys \cup {k}
         /\ Post(s, k, c).keyClaim = [s.keyClaim EXCEPT ![k] = c]
         /\ Post(s, k, c).committedGroups = s.committedGroups
         /\ Post(s, k, c).keyStatus = [s.keyStatus EXCEPT ![k] = Success]
BY DEF Post, EvalState

\* The state a temporal commit of the groups gs leaves before it is judged
\* complete.
GroupsCommitted(s, in, gs) ==
  [s EXCEPT !.balances = Staged(@, Legs(gs), in.payload),
            !.committedGroups = [@ EXCEPT ![in.key] = s.committedGroups[in.key] \cup gs],
            !.keyClaim = [@ EXCEPT ![in.key] = Claim(in)]]

\* What committing groups changes, record by record.
LEMMA GroupsCommittedRecords ==
  ASSUME NEW s \in EvalState, NEW in \in TransitionInput, in.key \in Keys,
         NEW gs \in SUBSET Groups,
         Staged(s.balances, Legs(gs), in.payload) \in Balances
  PROVE  LET t == GroupsCommitted(s, in, gs) IN
         /\ t \in EvalState
         /\ t.postedKeys = s.postedKeys
         /\ t.keyClaim = [s.keyClaim EXCEPT ![in.key] = Claim(in)]
         /\ t.committedGroups = [s.committedGroups EXCEPT ![in.key] = @ \cup gs]
         /\ t.keyStatus = s.keyStatus
<1>1. Claim(in) \in Claims
  BY ClaimIsPair
<1> QED BY <1>1 DEF GroupsCommitted, EvalState

\* A group that may commit is one its claim requires.
LEMMA CommittableRequired ==
  ASSUME NEW s, NEW in, NEW g \in Committable(s, in)
  PROVE  g \in Required(in.payload)
BY DEF Committable, Required, Holds, EvalGuard, Groups

StateOK(s) == s \in EvalState /\ \A k \in Keys : KeyComplete(s, k) /\ KeyBacked(s, k)

\* Accepting evidence keeps the records of every key consistent.
LEMMA EvidencePreserves ==
  ASSUME NEW s, StateOK(s), NEW in \in TransitionInput, Fresh(s, in), ~Temporal
  PROVE  StateOK(Post(s, in.key, Claim(in)))
<1> DEFINE t == Post(s, in.key, Claim(in))
<1>1. Claim(in) \in Claims /\ Claim(in) # NoClaim /\ Claim(in)[1] = in.key
  BY ClaimIsPair DEF Fresh
<1>2. /\ t \in EvalState
      /\ t.postedKeys = s.postedKeys \cup {in.key}
      /\ t.keyClaim = [s.keyClaim EXCEPT ![in.key] = Claim(in)]
      /\ t.committedGroups = s.committedGroups
      /\ t.keyStatus = [s.keyStatus EXCEPT ![in.key] = Success]
  BY <1>1, PostRecords DEF StateOK, Fresh
<1>3. ASSUME NEW k \in Keys PROVE KeyComplete(t, k)
  <2>1. KeyComplete(s, k)
    BY DEF StateOK
  <2> QED BY <2>1, <1>1, <1>2 DEF KeyComplete, StateOK, EvalState
<1>4. ASSUME NEW k \in Keys PROVE KeyBacked(t, k)
  <2>1. KeyBacked(s, k)
    BY DEF StateOK
  <2> QED BY <2>1, <1>1, <1>2 DEF KeyBacked, StateOK, EvalState, Fresh
<1> QED BY <1>2, <1>3, <1>4 DEF StateOK

\* So does a single-shot commit.
LEMMA SingleShotPreserves ==
  ASSUME NEW s, StateOK(s), NEW in \in TransitionInput, Fresh(s, in), ~Temporal,
         \A i \in EffectIds : EffectCode(s, in, i) = None
  PROVE  StateOK(SingleShotCommit(s, in))
<1> DEFINE t == [s EXCEPT !.balances = Staged(@, Firing(in), in.payload)]
<1>1. Staged(s.balances, Firing(in), in.payload) \in Balances
  BY SingleShotBalances DEF StateOK
<1>2. /\ t \in EvalState
      /\ t.postedKeys = s.postedKeys
      /\ t.keyClaim = s.keyClaim
      /\ t.committedGroups = s.committedGroups
      /\ t.keyStatus = s.keyStatus
  BY <1>1 DEF StateOK, EvalState
<1>3. StateOK(t) /\ Fresh(t, in)
  BY <1>2 DEF StateOK, KeyComplete, KeyBacked, Fresh
<1>4. StateOK(Post(t, in.key, Claim(in)))
  BY <1>3, EvidencePreserves
<1> QED BY <1>4 DEF SingleShotCommit

\* So does a commit of groups, complete or not, for an unpinned key or for
\* the payload already pinned.
LEMMA TemporalPreserves ==
  ASSUME NEW s, StateOK(s), NEW in \in TransitionInput, Fresh(s, in), Temporal,
         Committable(s, in) # {},
         \A i \in Legs(Committable(s, in)) :
           TemporalLegCode(s, in, Committable(s, in), i) = None
  PROVE  StateOK(CommitGroups(s, in, Committable(s, in)).next)
<1> DEFINE gs == Committable(s, in)
           t == GroupsCommitted(s, in, gs)
           u == Post(t, in.key, Claim(in))
           done == s.committedGroups[in.key] \cup gs
           r == CommitGroups(s, in, gs)
<1>1. gs \in SUBSET Groups /\ s \in EvalState
  BY DEF Committable, StateOK
<1>2. Staged(s.balances, Legs(gs), in.payload) \in Balances
  BY <1>1, TemporalBalances
<1>3. /\ t \in EvalState
      /\ t.postedKeys = s.postedKeys
      /\ t.keyClaim = [s.keyClaim EXCEPT ![in.key] = Claim(in)]
      /\ t.committedGroups = [s.committedGroups EXCEPT ![in.key] = @ \cup gs]
      /\ t.keyStatus = s.keyStatus
  BY <1>1, <1>2, GroupsCommittedRecords DEF Fresh
<1>4. /\ Claim(in) \in Claims
      /\ Claim(in) # NoClaim
      /\ Claim(in)[1] = in.key
      /\ Claim(in)[2] = in.payload
  BY ClaimIsPair DEF Fresh
<1>5. /\ u \in EvalState
      /\ u.postedKeys = s.postedKeys \cup {in.key}
      /\ u.keyClaim = t.keyClaim
      /\ u.committedGroups = t.committedGroups
      /\ u.keyStatus = [s.keyStatus EXCEPT ![in.key] = Success]
  <2>1. [t.keyClaim EXCEPT ![in.key] = Claim(in)] = t.keyClaim
    BY <1>3 DEF EvalState, Fresh
  <2> QED BY <1>3, <1>4, <2>1, PostRecords DEF Fresh
<1>6. r.next = IF Required(in.payload) \subseteq done THEN u ELSE t
  BY DEF CommitGroups, GroupsCommitted
<1>7. \A k \in Keys : KeyBacked(t, k)
  <2> SUFFICES ASSUME NEW k \in Keys PROVE KeyBacked(t, k)
    OBVIOUS
  <2>1. KeyBacked(s, k)
    BY DEF StateOK
  <2>2. CASE k # in.key
    BY <1>1, <1>3, <2>1, <2>2 DEF KeyBacked, EvalState
  <2>3. CASE k = in.key
    <3>1. t.keyClaim[k] = Claim(in) /\ t.committedGroups[k] = done
      BY <1>1, <1>3, <2>3 DEF EvalState
    <3>2. \A g \in s.committedGroups[k] : g \in Required(in.payload)
      BY <2>1, <2>3, <1>4 DEF KeyBacked, Fresh
    <3>3. \A g \in gs : g \in Required(in.payload)
      BY CommittableRequired
    <3> QED BY <3>1, <3>2, <3>3, <1>4, <2>3 DEF KeyBacked
  <2> QED BY <2>2, <2>3
<1>8. CASE Required(in.payload) \subseteq done
  <2>1. ASSUME NEW k \in Keys PROVE KeyComplete(u, k)
    <3>1. KeyComplete(s, k)
      BY DEF StateOK
    <3>2. CASE k # in.key
      BY <1>1, <1>3, <1>5, <3>1, <3>2 DEF KeyComplete, EvalState
    <3>3. CASE k = in.key
      <4>1. u.keyClaim[k] = Claim(in) /\ u.committedGroups[k] = done
        BY <1>1, <1>3, <1>5, <3>3 DEF EvalState
      <4>2. u.keyStatus[k] = Success /\ k \in u.postedKeys
        BY <1>1, <1>5, <3>3 DEF EvalState
      <4> QED BY <4>1, <4>2, <1>4, <1>8 DEF KeyComplete
    <3> QED BY <3>2, <3>3
  <2>2. \A k \in Keys : KeyBacked(u, k)
    BY <1>5, <1>7 DEF KeyBacked
  <2> QED BY <1>5, <1>6, <1>8, <2>1, <2>2 DEF StateOK
<1>9. CASE ~(Required(in.payload) \subseteq done)
  <2>1. ASSUME NEW k \in Keys PROVE KeyComplete(t, k)
    <3>1. KeyComplete(s, k)
      BY DEF StateOK
    <3>2. CASE k # in.key
      BY <1>1, <1>3, <3>1, <3>2 DEF KeyComplete, EvalState
    <3>3. CASE k = in.key
      <4>1. t.keyClaim[k] = Claim(in) /\ t.committedGroups[k] = done
        BY <1>1, <1>3, <3>3 DEF EvalState
      <4>2. k \notin t.postedKeys /\ t.keyStatus[k] # Success
        BY <1>1, <1>3, <3>1, <3>3 DEF KeyComplete, Fresh
      <4> QED BY <4>1, <4>2, <1>4, <1>9 DEF KeyComplete
    <3> QED BY <3>2, <3>3
  <2> QED BY <1>3, <1>6, <1>7, <1>9, <2>1 DEF StateOK
<1> QED BY <1>8, <1>9

-----------------------------------------------------------------------------
(* One transition                                                          *)

\* Evidence-only plans have no effects, so no accepted() group.
LEMMA EvidenceOnlyNotTemporal == EvidenceOnly => ~Temporal
BY EffectIdsInterval DEF EvidenceOnly, Temporal

\* Every transition keeps a consistent state consistent.
LEMMA TransitionPreserves ==
  ASSUME NEW s, StateOK(s), NEW in \in TransitionInput
  PROVE  StateOK(Transition(s, in).next)
<1>1. s \in EvalState
  BY DEF StateOK
<1> QED BY <1>1, TransitionCases, EvidencePreserves, SingleShotPreserves,
           TemporalPreserves, EvidenceOnlyNotTemporal

\* What the records of key k must keep from s to t: its claim, its commits and
\* its terminal.
Kept(s, t, k) ==
  /\ s.keyClaim[k] # NoClaim => t.keyClaim[k] = s.keyClaim[k]
  /\ s.committedGroups[k] \subseteq t.committedGroups[k]
  /\ k \in s.postedKeys => k \in t.postedKeys

Untouched(s, t, k) ==
  /\ t.keyClaim[k] = s.keyClaim[k]
  /\ t.committedGroups[k] = s.committedGroups[k]
  /\ t.keyStatus[k] = s.keyStatus[k]
  /\ k \in t.postedKeys <=> k \in s.postedKeys

\* The postconditions of each disposition.
Disposed(s, in, r) ==
  /\ r.outcome \in {"refused", "replayed", "noprogress", "progress", "terminal"}
  /\ r.outcome \in {"refused", "replayed", "noprogress"} => r.next = s
  /\ r.outcome \in {"terminal", "replayed"} => in.key \in r.next.postedKeys
  /\ r.outcome \in {"progress", "noprogress"} => in.key \notin r.next.postedKeys
  /\ r.outcome = "progress" => r.next.committedGroups[in.key] # {}

\* Posting a key takes nothing back and touches no other key.
LEMMA PostEffect ==
  ASSUME NEW s \in EvalState, NEW in \in TransitionInput, Fresh(s, in)
  PROVE  LET t == Post(s, in.key, Claim(in)) IN
         /\ in.key \in t.postedKeys
         /\ \A k \in Keys : Kept(s, t, k)
         /\ \A k \in Keys \ {in.key} : Untouched(s, t, k)
<1>1. Claim(in) \in Claims /\ in.key \in Keys
  BY ClaimIsPair DEF Fresh
<1> DEFINE t == Post(s, in.key, Claim(in))
<1>2. /\ t.postedKeys = s.postedKeys \cup {in.key}
      /\ t.keyClaim = [s.keyClaim EXCEPT ![in.key] = Claim(in)]
      /\ t.committedGroups = s.committedGroups
      /\ t.keyStatus = [s.keyStatus EXCEPT ![in.key] = Success]
  BY <1>1, PostRecords
<1> QED BY <1>1, <1>2 DEF Kept, Untouched, EvalState, Fresh

\* No transition takes anything back or touches another key, and the outcome
\* it reports is true of the state it leaves.
LEMMA TransitionEffect ==
  ASSUME NEW s \in EvalState, NEW in \in TransitionInput
  PROVE  LET r == Transition(s, in) IN
         /\ Disposed(s, in, r)
         /\ \A k \in Keys : Kept(s, r.next, k)
         /\ \A k \in Keys \ {in.key} : Untouched(s, r.next, k)
<1> DEFINE r == Transition(s, in)
           gs == Committable(s, in)
<1>1. CASE r.outcome = "refused" /\ r.next = s
  BY <1>1 DEF Disposed, Kept, Untouched
<1>2. CASE r.outcome = "replayed" /\ r.next = s /\ in.key \in s.postedKeys
  BY <1>2 DEF Disposed, Kept, Untouched
<1>3. CASE Fresh(s, in) /\ r.outcome = "noprogress" /\ r.next = s
  BY <1>3 DEF Disposed, Kept, Untouched, Fresh
<1>4. CASE Fresh(s, in) /\ r.outcome = "terminal" /\ r.next = Post(s, in.key, Claim(in))
  BY <1>4, PostEffect DEF Disposed
<1>5. CASE /\ Fresh(s, in)
           /\ \A i \in EffectIds : EffectCode(s, in, i) = None
           /\ r.outcome = "terminal"
           /\ r.next = SingleShotCommit(s, in)
  <2> DEFINE t == [s EXCEPT !.balances = Staged(@, Firing(in), in.payload)]
  <2>1. Staged(s.balances, Firing(in), in.payload) \in Balances
    BY <1>5, SingleShotBalances
  <2>2. /\ t \in EvalState
        /\ t.postedKeys = s.postedKeys
        /\ t.keyClaim = s.keyClaim
        /\ t.committedGroups = s.committedGroups
        /\ t.keyStatus = s.keyStatus
    BY <2>1 DEF EvalState
  <2>3. Fresh(t, in)
    BY <1>5, <2>2 DEF Fresh
  <2> HIDE DEF t
  <2>4. r.next = Post(t, in.key, Claim(in))
    BY <1>5 DEF SingleShotCommit, t
  <2>5. /\ in.key \in r.next.postedKeys
        /\ \A k \in Keys : Kept(t, r.next, k)
        /\ \A k \in Keys \ {in.key} : Untouched(t, r.next, k)
    BY <2>2, <2>3, <2>4, PostEffect
  <2> QED BY <1>5, <2>2, <2>5 DEF Disposed, Kept, Untouched
<1>6. CASE /\ Fresh(s, in)
           /\ gs # {}
           /\ \A i \in Legs(gs) : TemporalLegCode(s, in, gs, i) = None
           /\ r = CommitGroups(s, in, gs)
  <2> DEFINE t == GroupsCommitted(s, in, gs)
             allDone == Required(in.payload) \subseteq (s.committedGroups[in.key] \cup gs)
  <2>1. gs \in SUBSET Groups
    BY DEF Committable
  <2>2. Staged(s.balances, Legs(gs), in.payload) \in Balances
    BY <1>6, <2>1, TemporalBalances
  <2>3. /\ t \in EvalState
        /\ t.postedKeys = s.postedKeys
        /\ t.keyClaim = [s.keyClaim EXCEPT ![in.key] = Claim(in)]
        /\ t.committedGroups = [s.committedGroups EXCEPT ![in.key] = @ \cup gs]
        /\ t.keyStatus = s.keyStatus
    BY <1>6, <2>1, <2>2, GroupsCommittedRecords DEF Fresh
  <2>4. /\ r.outcome = IF allDone THEN "terminal" ELSE "progress"
        /\ r.next = IF allDone THEN Post(t, in.key, Claim(in)) ELSE t
    BY <1>6 DEF CommitGroups, GroupsCommitted
  <2>5. /\ Fresh(t, in)
        /\ \A k \in Keys : Kept(s, t, k)
        /\ \A k \in Keys \ {in.key} : Untouched(s, t, k)
        /\ t.committedGroups[in.key] # {}
    BY <1>6, <2>3 DEF Fresh, Kept, Untouched, EvalState
  <2> HIDE DEF t
  <2>6. CASE allDone
    <3>1. LET u == Post(t, in.key, Claim(in)) IN
          /\ in.key \in u.postedKeys
          /\ \A k \in Keys : Kept(t, u, k)
          /\ \A k \in Keys \ {in.key} : Untouched(t, u, k)
      BY <2>3, <2>5, PostEffect
    <3> QED BY <2>4, <2>5, <2>6, <3>1 DEF Disposed, Kept, Untouched
  <2>7. CASE ~allDone
    BY <2>4, <2>5, <2>7 DEF Disposed, Fresh
  <2> QED BY <2>6, <2>7
<1> QED BY <1>1, <1>2, <1>3, <1>4, <1>5, <1>6, TransitionCases

-----------------------------------------------------------------------------
(* What a set of legs puts on an account                                   *)

\* The operands of an effect are those of the plan's assumption.
LEMMA EffectType ==
  ASSUME NEW i \in EffectIds, NEW p \in Payloads
  PROVE  Effects[i].leg[p] \in Operands
<1> DEFINE Entry == [name : STRING, kind : STRING, guard : STRING, gate : STRING,
                     leg : [Payloads -> Operands]]
<1>1. Effects \in Seq(Entry)
  BY PlanAssumption DEF PlanAssumption
<1> HIDE DEF Entry
<1>2. Effects[i] \in Entry
  BY <1>1 DEF EffectIds
<1> QED BY <1>2 DEF Entry

\* Every set of effects is finite, and each effect adds an integer.
LEMMA DeltasAreInts ==
  ASSUME NEW p \in Payloads, NEW S \in SUBSET EffectIds
  PROVE  IsFiniteSet(S) /\ \A i \in S : Deltas(p)[i] = Delta(i, p) /\ Deltas(p)[i] \in Int
<1>1. IsFiniteSet(EffectIds)
  BY EffectIdsInterval, FS_Interval
<1>2. IsFiniteSet(S)
  BY <1>1, FS_Subset
<1>3. ASSUME NEW i \in S PROVE Deltas(p)[i] = Delta(i, p) /\ Deltas(p)[i] \in Int
  <2>1. Deltas(p)[i] = Delta(i, p)
    BY DEF Deltas
  <2>2. Effects[i].leg[p].amount \in Int
    BY EffectType DEF Operands
  <2> QED BY <2>1, <2>2 DEF Delta
<1> QED BY <1>2, <1>3

\* Posting adds, to every account, the sum of its legs' deltas.
LEMMA StagedAdds ==
  ASSUME NEW bal \in Balances, NEW p \in Payloads, NEW S \in SUBSET EffectIds,
         NEW a \in Accounts
  PROVE  /\ SumFunctionOnSet(Deltas(p), LegsOn(S, p, a)) \in Int
         /\ Staged(bal, S, p)[a] = bal[a] + SumFunctionOnSet(Deltas(p), LegsOn(S, p, a))
<1>1. LegsOn(S, p, a) \in SUBSET EffectIds
  BY DEF LegsOn
<1>2. SumFunctionOnSet(Deltas(p), LegsOn(S, p, a)) \in Int
  BY <1>1, DeltasAreInts, SumInt
<1>3. bal[a] \in Int
  BY PlanAssumption DEF Balances, Balance, PlanAssumption
<1>4. LegsOn(S, p, a) = {} => SumFunctionOnSet(Deltas(p), LegsOn(S, p, a)) = 0
  BY SumEmpty
<1> QED BY <1>2, <1>3, <1>4 DEF Staged

\* Two disjoint sets of legs put on an account what each of them puts there.
LEMMA LegsSplit ==
  ASSUME NEW p \in Payloads, NEW S \in SUBSET EffectIds, NEW T \in SUBSET EffectIds,
         S \cap T = {}, NEW a
  PROVE  SumFunctionOnSet(Deltas(p), LegsOn(S \cup T, p, a))
           = SumFunctionOnSet(Deltas(p), LegsOn(S, p, a))
               + SumFunctionOnSet(Deltas(p), LegsOn(T, p, a))
<1>1. /\ LegsOn(S, p, a) \in SUBSET EffectIds
      /\ LegsOn(T, p, a) \in SUBSET EffectIds
      /\ LegsOn(S, p, a) \cap LegsOn(T, p, a) = {}
      /\ LegsOn(S \cup T, p, a) = LegsOn(S, p, a) \cup LegsOn(T, p, a)
  BY DEF LegsOn
<1>2. /\ IsFiniteSet(LegsOn(S, p, a)) /\ IsFiniteSet(LegsOn(T, p, a))
      /\ \A i \in LegsOn(S, p, a) \cup LegsOn(T, p, a) : Deltas(p)[i] \in Int
  BY <1>1, DeltasAreInts
<1> QED BY <1>1, <1>2, SumSplits, SMTT(40)

-----------------------------------------------------------------------------
(* The ledger matches the commits                                          *)

LedgerMatches(s) ==
  \A a \in Accounts :
    s.balances[a] = SumFunctionOnSet([k \in Keys |-> PostedOn(s, k, a)], ClaimedKeys(s))

\* Finitely many keys have been claimed, and the ledger is their postings.
LedgerOK(s) == IsFiniteSet(ClaimedKeys(s)) /\ LedgerMatches(s)

\* A key's postings are effects, and put an integer on every account.
LEMMA PostedOnInt ==
  ASSUME NEW s \in EvalState, NEW k \in ClaimedKeys(s), NEW a
  PROVE  PostedOn(s, k, a) \in Int
<1>1. s.keyClaim[k][2] \in Payloads
  BY DEF ClaimedKeys, EvalState, Claims
<1>2. PostedLegs(s, k) \in SUBSET EffectIds
  BY DEF PostedLegs, Legs
<1>3. LegsOn(PostedLegs(s, k), s.keyClaim[k][2], a) \in SUBSET EffectIds
  BY <1>2 DEF LegsOn
<1> QED BY <1>1, <1>3, DeltasAreInts, SumInt DEF PostedOn

\* Key k of t has posted the legs new on top of those it had posted in s, for
\* one claim; no other key has posted anything.
Adds(s, t, k, p, new) ==
  /\ new \in SUBSET EffectIds
  /\ t.balances = Staged(s.balances, new, p)
  /\ s.keyClaim[k] = NoClaim => PostedLegs(s, k) = {}
  /\ s.keyClaim[k] # NoClaim => s.keyClaim[k][2] = p
  /\ t.keyClaim[k] # NoClaim /\ t.keyClaim[k][2] = p
  /\ PostedLegs(s, k) \cap new = {}
  /\ PostedLegs(t, k) = PostedLegs(s, k) \cup new
  /\ \A j \in Keys \ {k} : /\ t.keyClaim[j] = s.keyClaim[j]
                           /\ PostedLegs(t, j) = PostedLegs(s, j)

\* Such a posting keeps the ledger equal to the postings.
LEMMA PostingKeepsLedger ==
  ASSUME NEW s \in EvalState, NEW t \in EvalState, LedgerOK(s),
         NEW k \in Keys, NEW p \in Payloads, NEW new, Adds(s, t, k, p, new)
  PROVE  LedgerOK(t)
<1> DEFINE CS == ClaimedKeys(s)
           CT == ClaimedKeys(t)
<1>1. CT = CS \cup {k} /\ IsFiniteSet(CS) /\ IsFiniteSet(CT)
  <2>1. CT = CS \cup {k}
    BY DEF ClaimedKeys, Adds
  <2> QED BY <2>1, FS_AddElement DEF LedgerOK
<1>2. ASSUME NEW a \in Accounts
      PROVE  t.balances[a] = SumFunctionOnSet([j \in Keys |-> PostedOn(t, j, a)], CT)
  <2> DEFINE F == [j \in Keys |-> PostedOn(s, j, a)]
             H == [j \in Keys |-> PostedOn(t, j, a)]
             Added == SumFunctionOnSet(Deltas(p), LegsOn(new, p, a))
             Rest == CS \ {k}
  <2>1. t.balances[a] = s.balances[a] + Added /\ Added \in Int
    BY StagedAdds DEF Adds, EvalState
  <2>2. s.balances[a] = SumFunctionOnSet(F, CS)
    BY DEF LedgerOK, LedgerMatches
  <2>3. /\ \A j \in CS : F[j] \in Int
        /\ \A j \in CT : H[j] \in Int
    BY PostedOnInt DEF ClaimedKeys
  <2>4. \A j \in Rest : F[j] = H[j]
    BY DEF Adds, PostedOn, ClaimedKeys
  <2>5. IsFiniteSet(Rest) /\ CT \ {k} = Rest /\ k \in CT
    BY <1>1, FS_Subset
  <2>6. H[k] = SumFunctionOnSet(Deltas(p), LegsOn(PostedLegs(s, k), p, a)) + Added
    <3>1. PostedLegs(s, k) \in SUBSET EffectIds
      BY DEF PostedLegs, Legs
    <3>2. H[k] = SumFunctionOnSet(Deltas(p), LegsOn(PostedLegs(s, k) \cup new, p, a))
      BY DEF Adds, PostedOn
    <3>3. new \in SUBSET EffectIds /\ PostedLegs(s, k) \cap new = {}
      BY DEF Adds
    <3> QED BY <3>1, <3>2, <3>3, LegsSplit
  <2> HIDE DEF F, H, Added, Rest, CS, CT
  <2>7. SumFunctionOnSet(H, CT) = H[k] + SumFunctionOnSet(H, Rest)
    BY <1>1, <2>3, <2>5, SumTakesOut
  <2>8. SumFunctionOnSet(F, Rest) = SumFunctionOnSet(H, Rest)
    BY <2>4, <2>5, SumAgrees
  <2>9. SumFunctionOnSet(F, Rest) \in Int
    <3>1. \A j \in Rest : F[j] \in Int
      BY <2>3 DEF Rest
    <3> QED BY <2>5, <3>1, SumInt
  <2>10. CASE k \in CS
    <3>1. F[k] = SumFunctionOnSet(Deltas(p), LegsOn(PostedLegs(s, k), p, a))
      BY <2>10 DEF F, CS, Adds, PostedOn, ClaimedKeys
    <3>2. SumFunctionOnSet(F, CS) = F[k] + SumFunctionOnSet(F, Rest)
      BY <1>1, <2>3, <2>10, SumTakesOut DEF Rest
    <3>3. F[k] \in Int
      BY <2>3, <2>10
    <3> QED BY <2>1, <2>2, <2>6, <2>7, <2>8, <2>9, <3>1, <3>2, <3>3 DEF H
  <2>11. CASE k \notin CS
    <3>1. Rest = CS
      BY <2>11 DEF Rest
    <3>2. LegsOn(PostedLegs(s, k), p, a) = {}
      BY <2>11 DEF CS, Adds, ClaimedKeys, LegsOn
    <3>3. H[k] = Added
      BY <2>1, <2>6, <3>2, SumEmpty
    <3> QED BY <2>1, <2>2, <2>7, <2>8, <2>9, <3>1, <3>3 DEF H
  <2> QED BY <2>10, <2>11
<1> QED BY <1>1, <1>2 DEF LedgerOK, LedgerMatches

\* Marking a key of a temporal plan posted, for the claim it has, changes no
\* posting.
LEMMA MarkingKeepsLedger ==
  ASSUME NEW s \in EvalState, LedgerOK(s), Temporal, NEW k \in Keys, NEW c \in Claims,
         s.keyClaim[k] = c
  PROVE  LedgerOK(Post(s, k, c))
<1> DEFINE t == Post(s, k, c)
<1>1. t.balances = s.balances /\ t.committedGroups = s.committedGroups
  BY PostRecords, ZenonT(40)
<1>2. t.keyClaim = s.keyClaim
  BY DEF Post, EvalState
<1> HIDE DEF t
<1>3. \A j : PostedLegs(t, j) = PostedLegs(s, j)
  BY <1>1 DEF PostedLegs
<1>4. ClaimedKeys(t) = ClaimedKeys(s)
  BY <1>2 DEF ClaimedKeys
<1>5. \A a : [j \in Keys |-> PostedOn(t, j, a)] = [j \in Keys |-> PostedOn(s, j, a)]
  BY <1>2, <1>3 DEF PostedOn
<1>6. LedgerOK(t)
  BY <1>1, <1>4, <1>5 DEF LedgerOK, LedgerMatches
<1> QED BY <1>6 DEF t

\* A commit of groups that the key had not committed adds their legs.
LEMMA GroupsAdd ==
  ASSUME NEW s, StateOK(s), LedgerOK(s), NEW in \in TransitionInput, Fresh(s, in), Temporal,
         Committable(s, in) # {},
         \A i \in Legs(Committable(s, in)) :
           TemporalLegCode(s, in, Committable(s, in), i) = None
  PROVE  LedgerOK(CommitGroups(s, in, Committable(s, in)).next)
<1> DEFINE gs == Committable(s, in)
           t == GroupsCommitted(s, in, gs)
           u == Post(t, in.key, Claim(in))
<1>1. gs \in SUBSET Groups /\ s \in EvalState /\ in.key \in Keys /\ in.payload \in Payloads
  BY DEF Committable, StateOK, Fresh, TransitionInput
<1>2. Staged(s.balances, Legs(gs), in.payload) \in Balances
  BY <1>1, TemporalBalances
<1>3. /\ t \in EvalState
      /\ t.keyClaim = [s.keyClaim EXCEPT ![in.key] = Claim(in)]
      /\ t.committedGroups = [s.committedGroups EXCEPT ![in.key] = @ \cup gs]
  BY <1>1, <1>2, GroupsCommittedRecords
<1>4. t.balances = Staged(s.balances, Legs(gs), in.payload)
  BY <1>1 DEF GroupsCommitted, EvalState
<1>5. Claim(in) \in Claims /\ Claim(in) # NoClaim /\ Claim(in)[2] = in.payload
  BY <1>1, ClaimIsPair
<1>6. s.keyClaim[in.key] = NoClaim => s.committedGroups[in.key] = {}
  BY <1>1 DEF StateOK, KeyBacked
<1>7. s.committedGroups[in.key] \cap gs = {}
  BY DEF Committable
<1> HIDE DEF gs, t
<1>8. Adds(s, t, in.key, in.payload, Legs(gs))
  <2>1. /\ t.committedGroups[in.key] = s.committedGroups[in.key] \cup gs
        /\ t.keyClaim[in.key] = Claim(in)
        /\ \A j \in Keys \ {in.key} : /\ t.committedGroups[j] = s.committedGroups[j]
                                      /\ t.keyClaim[j] = s.keyClaim[j]
    BY <1>1, <1>3 DEF EvalState
  <2>2. /\ PostedLegs(s, in.key) \cap Legs(gs) = {}
        /\ PostedLegs(t, in.key) = PostedLegs(s, in.key) \cup Legs(gs)
        /\ s.keyClaim[in.key] = NoClaim => PostedLegs(s, in.key) = {}
    BY <2>1, <1>6, <1>7 DEF PostedLegs, Legs
  <2>3. \A j \in Keys \ {in.key} : PostedLegs(t, j) = PostedLegs(s, j)
    BY <2>1 DEF PostedLegs
  <2>4. s.keyClaim[in.key] # NoClaim => s.keyClaim[in.key][2] = in.payload
    BY <1>5 DEF Fresh
  <2>5. Legs(gs) \in SUBSET EffectIds
    BY DEF Legs
  <2> QED BY <2>1, <2>2, <2>3, <2>4, <2>5, <1>4, <1>5 DEF Adds
<1>9. LedgerOK(t)
  BY <1>1, <1>3, <1>8, PostingKeepsLedger
<1>10. LedgerOK(u)
  <2>1. t.keyClaim[in.key] = Claim(in)
    BY <1>1, <1>3 DEF EvalState
  <2> QED BY <1>1, <1>3, <1>5, <1>9, <2>1, MarkingKeepsLedger
<1>11. CommitGroups(s, in, gs).next \in {t, u}
  BY DEF CommitGroups, GroupsCommitted, t
<1> QED BY <1>9, <1>10, <1>11 DEF gs

\* A single-shot commit adds every firing leg, once.
LEMMA SingleShotAdds ==
  ASSUME NEW s, StateOK(s), LedgerOK(s), NEW in \in TransitionInput, Fresh(s, in), ~Temporal,
         \A i \in EffectIds : EffectCode(s, in, i) = None
  PROVE  LedgerOK(SingleShotCommit(s, in))
<1> DEFINE t == SingleShotCommit(s, in)
           b == [s EXCEPT !.balances = Staged(@, Firing(in), in.payload)]
<1>1. s \in EvalState /\ in.key \in Keys /\ in.payload \in Payloads
  BY DEF StateOK, Fresh, TransitionInput
<1>2. Staged(s.balances, Firing(in), in.payload) \in Balances
  BY <1>1, SingleShotBalances
<1>3. /\ b \in EvalState
      /\ b.balances = Staged(s.balances, Firing(in), in.payload)
      /\ b.postedKeys = s.postedKeys
      /\ b.keyClaim = s.keyClaim
      /\ b.committedGroups = s.committedGroups
  BY <1>1, <1>2 DEF EvalState
<1>4. Claim(in) \in Claims /\ Claim(in) # NoClaim /\ Claim(in)[2] = in.payload
  BY <1>1, ClaimIsPair
<1>5. /\ t \in EvalState
      /\ t.balances = Staged(s.balances, Firing(in), in.payload)
      /\ t.postedKeys = s.postedKeys \cup {in.key}
      /\ t.keyClaim = [s.keyClaim EXCEPT ![in.key] = Claim(in)]
  <2>1. t = Post(b, in.key, Claim(in))
    BY DEF SingleShotCommit
  <2> HIDE DEF b, t
  <2>2. /\ t \in EvalState
        /\ t.balances = b.balances
        /\ t.postedKeys = b.postedKeys \cup {in.key}
        /\ t.keyClaim = [b.keyClaim EXCEPT ![in.key] = Claim(in)]
    BY <1>1, <1>3, <1>4, <2>1, PostRecords, ZenonT(40)
  <2> QED BY <1>3, <2>2
<1> HIDE DEF b, t
<1>6. Adds(s, t, in.key, in.payload, Firing(in))
  <2>1. /\ t.keyClaim[in.key] = Claim(in)
        /\ \A j \in Keys \ {in.key} : t.keyClaim[j] = s.keyClaim[j]
    BY <1>1, <1>5 DEF EvalState
  <2>2. PostedLegs(s, in.key) = {}
    BY DEF PostedLegs, Fresh
  <2>3. PostedLegs(t, in.key) = Firing(in)
    <3>1. PostedLegs(t, in.key) = {i \in EffectIds : Effects[i].guard = NoGuard
                                     \/ Compare[Effects[i].guard][in.payload] = "true"}
      BY <1>4, <1>5, <2>1 DEF PostedLegs
    <3>2. \A i \in EffectIds : ~IsAcceptedGuard(Effects[i].guard)
      BY DEF Temporal
    <3> QED BY <3>1, <3>2 DEF Firing, Holds, EvalGuard
  <2>4. \A j \in Keys \ {in.key} : PostedLegs(t, j) = PostedLegs(s, j)
    BY <1>5, <2>1 DEF PostedLegs
  <2>5. s.keyClaim[in.key] # NoClaim => s.keyClaim[in.key][2] = in.payload
    BY <1>4 DEF Fresh
  <2>6. Firing(in) \in SUBSET EffectIds
    BY DEF Firing
  <2> QED BY <2>1, <2>2, <2>3, <2>4, <2>5, <2>6, <1>4, <1>5 DEF Adds
<1>7. LedgerOK(t)
  BY <1>1, <1>5, <1>6, PostingKeepsLedger
<1> QED BY <1>7 DEF t

\* An accepted evidence-only claim adds nothing: the plan has no effects.
LEMMA EvidenceAdds ==
  ASSUME NEW s, StateOK(s), LedgerOK(s), NEW in \in TransitionInput, Fresh(s, in), EvidenceOnly
  PROVE  LedgerOK(Post(s, in.key, Claim(in)))
<1> DEFINE t == Post(s, in.key, Claim(in))
<1>1. s \in EvalState /\ in.key \in Keys /\ in.payload \in Payloads
  BY DEF StateOK, Fresh, TransitionInput
<1>2. Claim(in) \in Claims /\ Claim(in) # NoClaim /\ Claim(in)[2] = in.payload
  BY <1>1, ClaimIsPair
<1>3. /\ t \in EvalState
      /\ t.balances = s.balances
      /\ t.keyClaim = [s.keyClaim EXCEPT ![in.key] = Claim(in)]
  BY <1>1, <1>2, PostRecords, ZenonT(40)
<1> HIDE DEF t
<1>4. \A x, j : PostedLegs(x, j) = {}
  <2>1. EffectIds = {}
    BY DEF EvidenceOnly, EffectIds
  <2> QED BY <2>1 DEF PostedLegs, Legs
<1>5. Staged(s.balances, {}, in.payload) = s.balances
  <2>1. \A a : LegsOn({}, in.payload, a) = {}
    BY DEF LegsOn
  <2> QED BY <1>1, <2>1 DEF Staged, EvalState, Balances
<1>6. Adds(s, t, in.key, in.payload, {})
  <2>1. /\ t.keyClaim[in.key] = Claim(in)
        /\ \A j \in Keys \ {in.key} : t.keyClaim[j] = s.keyClaim[j]
    BY <1>1, <1>3 DEF EvalState
  <2>2. s.keyClaim[in.key] # NoClaim => s.keyClaim[in.key][2] = in.payload
    BY <1>2 DEF Fresh
  <2> QED BY <2>1, <2>2, <1>2, <1>3, <1>4, <1>5 DEF Adds
<1>7. LedgerOK(t)
  BY <1>1, <1>3, <1>6, PostingKeepsLedger
<1> QED BY <1>7 DEF t

\* Every call keeps the ledger equal to the postings.
LEMMA TransitionKeepsLedger ==
  ASSUME NEW s, StateOK(s), LedgerOK(s), NEW in \in TransitionInput
  PROVE  LedgerOK(Transition(s, in).next)
<1>1. s \in EvalState
  BY DEF StateOK
<1> QED BY <1>1, TransitionCases, GroupsAdd, SingleShotAdds, EvidenceAdds

\* The empty ledger is what no postings put on it.
LEMMA EmptyLedger == LedgerOK(EmptyState)
<1>1. ClaimedKeys(EmptyState) = {}
  BY DEF ClaimedKeys, EmptyState
<1> QED BY <1>1, SumEmpty, FS_EmptySet DEF LedgerOK, LedgerMatches, EmptyState

-----------------------------------------------------------------------------
(* Value is conserved                                                      *)

\* Finite sets have finite images.
LEMMA FiniteImage ==
  ASSUME NEW S, IsFiniteSet(S), NEW f
  PROVE  IsFiniteSet({f[x] : x \in S})
<1> DEFINE T == {f[x] : x \in S}
           h == [x \in S |-> f[x]]
<1>1. h \in Surjection(S, T)
  BY DEF Surjection
<1> HIDE DEF h, T
<1>2. IsFiniteSet(T)
  BY <1>1, FS_Surjection
<1> QED BY <1>2 DEF T

\* What posting adds to a set of accounts is the sum over the legs on them.
LEMMA StagedTotal ==
  ASSUME NEW bal \in Balances, NEW p \in Payloads, NEW S \in SUBSET EffectIds,
         NEW A \in SUBSET Accounts, IsFiniteSet(A)
  PROVE  SumFunctionOnSet(Staged(bal, S, p), A)
           = SumFunctionOnSet(bal, A)
               + SumFunctionOnSet(Deltas(p), {i \in S : Effects[i].leg[p].account \in A})
<1> DEFINE onA == [a \in A |-> SumFunctionOnSet(Deltas(p), LegsOn(S, p, a))]
           acct == [i \in S |-> Effects[i].leg[p].account]
<1>1. \A a \in A : /\ bal[a] \in Int
                   /\ onA[a] \in Int
                   /\ Staged(bal, S, p)[a] = bal[a] + onA[a]
  <2> SUFFICES ASSUME NEW a \in A
               PROVE  /\ bal[a] \in Int
                      /\ onA[a] \in Int
                      /\ Staged(bal, S, p)[a] = bal[a] + onA[a]
    OBVIOUS
  <2>1. bal[a] \in Int
    BY PlanAssumption DEF Balances, Balance, PlanAssumption
  <2> QED BY <2>1, StagedAdds
<1>2. SumFunctionOnSet(Staged(bal, S, p), A)
        = SumFunctionOnSet(bal, A) + SumFunctionOnSet(onA, A)
  <2> HIDE DEF onA
  <2> QED BY <1>1, SumPlus
<1>3. IsFiniteSet(S) /\ \A i \in S : Deltas(p)[i] \in Int
  BY DeltasAreInts
<1>4. \A a \in A : onA[a] = SumFunctionOnSet(Deltas(p), Bucket(S, acct, a))
  <2>1. \A a \in A : LegsOn(S, p, a) = Bucket(S, acct, a)
    BY DEF LegsOn, Bucket
  <2> QED BY <2>1
<1>5. Buckets(S, acct, A) = {i \in S : Effects[i].leg[p].account \in A}
  BY DEF Buckets
<1> HIDE DEF onA, acct
<1>6. SumFunctionOnSet(onA, A) = SumFunctionOnSet(Deltas(p), Buckets(S, acct, A))
  BY <1>3, <1>4, SumBuckets
<1> QED BY <1>2, <1>5, <1>6

\* The legs of S for payload p on accounts of currency c.
InCurrency(S, p, c) == {i \in S : Effects[i].leg[p].account[3] = c}

\* Resolved operands: the effect is a debit or a credit of its amount.
LEMMA ResolvedDelta ==
  ASSUME NEW i \in EffectIds, NEW p \in Payloads, OperandCode(i, p) = None
  PROVE  \/ Effects[i].kind = "debit" /\ Delta(i, p) = -Effects[i].leg[p].amount
         \/ Effects[i].kind = "credit" /\ Delta(i, p) = Effects[i].leg[p].amount
BY DEF OperandCode, Delta, None

\* The legs of one group with one value cancel.
LEMMA ValueCancels ==
  ASSUME NEW g \in Groups, NEW p \in Payloads, Balanced,
         \A i \in Legs({g}) : OperandCode(i, p) = None,
         NEW v \in {ValueOf(i, p) : i \in Legs({g})}
  PROVE  SumFunctionOnSet(Deltas(p), {i \in Legs({g}) : ValueOf(i, p) = v}) = 0
<1> DEFINE D == ValueLegs(g, "debit", p, v)
           C == ValueLegs(g, "credit", p, v)
<1>1. Cardinality(D) = Cardinality(C)
  BY DEF Balanced
<1>2. D \in SUBSET EffectIds /\ C \in SUBSET EffectIds
  BY DEF ValueLegs, Legs
<1>3. IsFiniteSet(D) /\ IsFiniteSet(C) /\ \A i \in D \cup C : Deltas(p)[i] \in Int
  BY <1>2, DeltasAreInts
<1>4. D \cap C = {}
  BY DEF ValueLegs
<1>5. {i \in Legs({g}) : ValueOf(i, p) = v} = D \cup C
  BY ResolvedDelta DEF ValueLegs, Legs
<1>6. v[1] \in Int
  <2>1. PICK i \in Legs({g}) : v = ValueOf(i, p)
    OBVIOUS
  <2>2. Effects[i].leg[p].amount \in Int
    BY EffectType DEF Legs, Operands
  <2> QED BY <2>1, <2>2 DEF ValueOf
<1>7. \A i \in D : Deltas(p)[i] = -v[1]
  <2> SUFFICES ASSUME NEW i \in D PROVE Deltas(p)[i] = -v[1]
    OBVIOUS
  <2>1. Effects[i].kind = "debit" /\ v[1] = Effects[i].leg[p].amount
    BY DEF ValueLegs, ValueOf
  <2>2. Deltas(p)[i] = Delta(i, p)
    BY <1>2, DeltasAreInts
  <2> QED BY <2>1, <2>2 DEF Delta
<1>8. \A i \in C : Deltas(p)[i] = v[1]
  <2> SUFFICES ASSUME NEW i \in C PROVE Deltas(p)[i] = v[1]
    OBVIOUS
  <2>1. Effects[i].kind = "credit" /\ v[1] = Effects[i].leg[p].amount
    BY DEF ValueLegs, ValueOf
  <2>2. Deltas(p)[i] = Delta(i, p)
    BY <1>2, DeltasAreInts
  <2> QED BY <2>1, <2>2 DEF Delta
<1> HIDE DEF D, C
<1>9. SumFunctionOnSet(Deltas(p), D) = (-v[1]) * Cardinality(D)
  BY <1>3, <1>6, <1>7, SumConstant
<1>10. SumFunctionOnSet(Deltas(p), C) = v[1] * Cardinality(C)
  BY <1>3, <1>6, <1>8, SumConstant
<1>11. SumFunctionOnSet(Deltas(p), D \cup C)
         = SumFunctionOnSet(Deltas(p), D) + SumFunctionOnSet(Deltas(p), C)
  BY <1>3, <1>4, SumSplits
<1>12. Cardinality(C) \in Nat
  BY <1>3, FS_CardinalityType
<1>13. (-v[1]) * Cardinality(C) + v[1] * Cardinality(C) = 0
  BY <1>6, <1>12
<1> QED BY <1>1, <1>5, <1>9, <1>10, <1>11, <1>13

\* In every currency, the legs of one group cancel.
LEMMA GroupCancels ==
  ASSUME NEW g \in Groups, NEW p \in Payloads, Balanced,
         \A i \in Legs({g}) : OperandCode(i, p) = None, NEW c
  PROVE  SumFunctionOnSet(Deltas(p), InCurrency(Legs({g}), p, c)) = 0
<1> DEFINE L == Legs({g})
           value == [i \in L |-> ValueOf(i, p)]
           V == {value[i] : i \in L}
           VC == {v \in V : v[2] = c}
           t == [v \in VC |-> SumFunctionOnSet(Deltas(p), Bucket(L, value, v))]
<1>1. L \in SUBSET EffectIds
  BY DEF Legs
<1>2. IsFiniteSet(L) /\ \A i \in L : Deltas(p)[i] \in Int
  BY <1>1, DeltasAreInts
<1>3. IsFiniteSet(VC)
  <2>1. IsFiniteSet(V)
    BY <1>2, FiniteImage
  <2> QED BY <2>1, FS_Subset
<1>4. \A v \in VC : t[v] = 0
  <2> SUFFICES ASSUME NEW v \in VC PROVE t[v] = 0
    OBVIOUS
  <2>1. Bucket(L, value, v) = {i \in L : ValueOf(i, p) = v}
    BY DEF Bucket
  <2>2. v \in {ValueOf(i, p) : i \in L}
    OBVIOUS
  <2> QED BY <2>1, <2>2, ValueCancels
<1>5. Buckets(L, value, VC) = InCurrency(L, p, c)
  BY DEF InCurrency, ValueOf, Buckets
<1>6. \A v \in VC : t[v] = SumFunctionOnSet(Deltas(p), Bucket(L, value, v))
  OBVIOUS
<1> HIDE DEF t, VC, V, value, L
<1>7. SumFunctionOnSet(t, VC) = 0
  BY <1>3, <1>4, SumZero
<1>8. SumFunctionOnSet(t, VC) = SumFunctionOnSet(Deltas(p), Buckets(L, value, VC))
  BY <1>2, <1>3, <1>6, SumBuckets
<1> QED BY <1>5, <1>7, <1>8 DEF L

\* So do the legs of any set of groups.
LEMMA GroupsCancel ==
  ASSUME NEW gs \in SUBSET Groups, NEW p \in Payloads, Balanced,
         \A i \in Legs(gs) : OperandCode(i, p) = None, NEW c
  PROVE  SumFunctionOnSet(Deltas(p), InCurrency(Legs(gs), p, c)) = 0
<1> DEFINE L == InCurrency(Legs(gs), p, c)
           guard == [i \in L |-> Effects[i].guard]
           t == [g \in gs |-> SumFunctionOnSet(Deltas(p), Bucket(L, guard, g))]
<1>1. L \in SUBSET EffectIds
  BY DEF Legs, InCurrency
<1>2. IsFiniteSet(L) /\ \A i \in L : Deltas(p)[i] \in Int
  BY <1>1, DeltasAreInts
<1>3. IsFiniteSet(gs)
  <2> DEFINE all == [i \in EffectIds |-> Effects[i].guard]
  <2>1. IsFiniteSet(EffectIds)
    BY EffectIdsInterval, FS_Interval
  <2>2. {all[i] : i \in EffectIds} = Groups
    BY DEF Groups
  <2> HIDE DEF all
  <2>3. IsFiniteSet({all[i] : i \in EffectIds})
    BY <2>1, FiniteImage
  <2> QED BY <2>2, <2>3, FS_Subset
<1>4. \A g \in gs : t[g] = 0
  <2> SUFFICES ASSUME NEW g \in gs PROVE t[g] = 0
    OBVIOUS
  <2>1. Bucket(L, guard, g) = InCurrency(Legs({g}), p, c)
    BY DEF InCurrency, Legs, Bucket
  <2>2. \A i \in Legs({g}) : OperandCode(i, p) = None
    BY DEF Legs
  <2> QED BY <2>1, <2>2, GroupCancels
<1>5. Buckets(L, guard, gs) = L
  BY DEF InCurrency, Legs, Buckets
<1>6. \A g \in gs : t[g] = SumFunctionOnSet(Deltas(p), Bucket(L, guard, g))
  OBVIOUS
<1> HIDE DEF t, L, guard
<1>7. SumFunctionOnSet(t, gs) = 0
  BY <1>3, <1>4, SumZero
<1>8. SumFunctionOnSet(t, gs) = SumFunctionOnSet(Deltas(p), Buckets(L, guard, gs))
  BY <1>2, <1>3, <1>6, SumBuckets
<1> QED BY <1>5, <1>7, <1>8 DEF L

Conserved(bal) ==
  \A c \in {a[3] : a \in Accounts} :
    SumFunctionOnSet(bal, {a \in Accounts : a[3] = c}) = 0

\* The empty ledger conserves value.
LEMMA EmptyConserves ==
  ASSUME IsFiniteSet(Accounts)
  PROVE  Conserved(EmptyState.balances)
<1>1. \A c : /\ IsFiniteSet({a \in Accounts : a[3] = c})
             /\ \A a \in {a \in Accounts : a[3] = c} : EmptyState.balances[a] = 0
  BY FS_Subset DEF EmptyState
<1>2. \A c : SumFunctionOnSet(EmptyState.balances, {a \in Accounts : a[3] = c}) = 0
  BY <1>1, SumZero
<1> QED BY <1>2 DEF Conserved

\* Posting whole groups whose operands resolve conserves value.
LEMMA StagedConserves ==
  ASSUME Balanced, IsFiniteSet(Accounts), NEW bal \in Balances, Conserved(bal),
         NEW gs \in SUBSET Groups, NEW p \in Payloads,
         \A i \in Legs(gs) : OperandCode(i, p) = None
  PROVE  Conserved(Staged(bal, Legs(gs), p))
<1> SUFFICES ASSUME NEW c \in {a[3] : a \in Accounts}
             PROVE  SumFunctionOnSet(Staged(bal, Legs(gs), p), {a \in Accounts : a[3] = c}) = 0
  BY DEF Conserved
<1> DEFINE A == {a \in Accounts : a[3] = c}
           OnA == {i \in Legs(gs) : Effects[i].leg[p].account \in A}
<1>1. IsFiniteSet(A) /\ A \in SUBSET Accounts
  BY FS_Subset
<1>2. Legs(gs) \in SUBSET EffectIds
  BY DEF Legs
<1>3. OnA = InCurrency(Legs(gs), p, c)
  <2>1. \A i \in Legs(gs) : Effects[i].leg[p].account \in Accounts
    BY <1>2, EffectType DEF Operands
  <2> QED BY <2>1 DEF InCurrency
<1>4. SumFunctionOnSet(bal, A) = 0
  BY DEF Conserved
<1> HIDE DEF A
<1>5. SumFunctionOnSet(Staged(bal, Legs(gs), p), A)
        = SumFunctionOnSet(bal, A)
            + SumFunctionOnSet(Deltas(p), OnA)
  BY <1>1, <1>2, StagedTotal
<1>6. SumFunctionOnSet(Deltas(p), InCurrency(Legs(gs), p, c)) = 0
  BY GroupsCancel
<1> HIDE DEF OnA
<1>7. SumFunctionOnSet(Staged(bal, Legs(gs), p), A) = 0
  BY <1>3, <1>4, <1>5, <1>6
<1> QED BY <1>7 DEF A

\* A call leaves the balances alone or posts whole groups whose operands resolve.
LEMMA TransitionBalances ==
  ASSUME NEW s \in EvalState, NEW in \in TransitionInput
  PROVE  LET t == Transition(s, in).next IN
         \/ t.balances = s.balances
         \/ \E gs \in SUBSET Groups :
              /\ \A i \in Legs(gs) : OperandCode(i, in.payload) = None
              /\ t.balances = Staged(s.balances, Legs(gs), in.payload)
<1> DEFINE t == Transition(s, in).next
<1>1. CASE Fresh(s, in) /\ t = Post(s, in.key, Claim(in))
  <2>1. Claim(in) \in Claims /\ in.key \in Keys
    BY <1>1, ClaimIsPair DEF Fresh
  <2> HIDE DEF t
  <2>2. t.balances = s.balances
    BY <1>1, <2>1, PostRecords, ZenonT(40)
  <2> QED BY <2>2 DEF t
<1>2. CASE /\ Fresh(s, in)
           /\ \A i \in Legs(Committable(s, in)) :
                TemporalLegCode(s, in, Committable(s, in), i) = None
           /\ t = CommitGroups(s, in, Committable(s, in)).next
  <2> DEFINE gs == Committable(s, in)
  <2>1. gs \in SUBSET Groups
    BY DEF Committable
  <2>2. \A i \in Legs(gs) : OperandCode(i, in.payload) = None
    BY <1>2 DEF TemporalLegCode
  <2> HIDE DEF gs
  <2>3. CommitGroups(s, in, gs).next.balances = Staged(s.balances, Legs(gs), in.payload)
    BY DEF CommitGroups, Post, EvalState
  <2> QED BY <1>2, <2>1, <2>2, <2>3 DEF gs
<1>3. CASE /\ Fresh(s, in)
           /\ \A i \in EffectIds : EffectCode(s, in, i) = None
           /\ t = SingleShotCommit(s, in)
  <2> DEFINE gs == {g \in Groups : Holds(g, in)}
  <2>1. Legs(gs) = Firing(in)
    BY DEF Legs, Firing, Groups
  <2>2. \A i \in Firing(in) : OperandCode(i, in.payload) = None
    BY <1>3 DEF Firing, EffectCode, None, Holds, GuardFaults
  <2>3. SingleShotCommit(s, in).balances = Staged(s.balances, Firing(in), in.payload)
    BY DEF SingleShotCommit, Post, EvalState
  <2>4. gs \in SUBSET Groups
    OBVIOUS
  <2> HIDE DEF gs
  <2> QED BY <1>3, <2>1, <2>2, <2>3, <2>4
<1> QED BY <1>1, <1>2, <1>3, TransitionCases

-----------------------------------------------------------------------------
(* The invariants of every behaviour                                       *)

Inv == TypeOK /\ TerminalIffComplete /\ CommitsBackedByClaim /\ OutcomeContract

\* The empty state satisfies the inductive invariant.
LEMMA InitEstablishes == Init => Inv
<1> SUFFICES ASSUME Init PROVE Inv
  OBVIOUS
<1>1. state \in EvalState
  BY PlanAssumption DEF Init, PlanAssumption, EmptyState, EvalState, Balances, Balance
<1>2. last = NoCall /\ last.key = NoKey /\ last.outcome = "none"
  BY DEF Init, NoCall
<1>3. \A k \in Keys : KeyComplete(state, k) /\ KeyBacked(state, k)
  BY DEF Init, EmptyState, KeyComplete, KeyBacked, Open, Success
<1> QED BY <1>1, <1>2, <1>3 DEF Inv, TypeOK, TerminalIffComplete, CommitsBackedByClaim,
                                OutcomeContract

\* Every call preserves it.
LEMMA NextPreserves == Inv /\ [Next]_vars => Inv'
<1> SUFFICES ASSUME Inv, [Next]_vars PROVE Inv'
  OBVIOUS
<1>1. StateOK(state)
  BY DEF Inv, TypeOK, TerminalIffComplete, CommitsBackedByClaim, StateOK
<1>2. ASSUME NEW in \in TransitionInput, Evaluate(in) PROVE Inv'
  <2> DEFINE r == Transition(state, in)
  <2>1. /\ state' = r.next
        /\ last'.outcome = r.outcome
        /\ last'.key = in.key
    BY <1>2 DEF Evaluate
  <2>2. StateOK(r.next)
    BY <1>1, TransitionPreserves
  <2>3. Disposed(state, in, r)
    BY <1>1, TransitionEffect DEF StateOK
  <2> HIDE DEF r
  <2>4. TypeOK'
    BY <2>1, <2>2, <2>3 DEF TypeOK, StateOK, Disposed, TransitionInput
  <2>5. TerminalIffComplete' /\ CommitsBackedByClaim'
    BY <2>1, <2>2 DEF TerminalIffComplete, CommitsBackedByClaim, StateOK
  <2>6. OutcomeContract'
    BY <2>1, <2>3 DEF OutcomeContract, Disposed
  <2> QED BY <2>4, <2>5, <2>6 DEF Inv
<1>3. CASE UNCHANGED vars
  BY <1>3 DEF Inv, vars, TypeOK, TerminalIffComplete, CommitsBackedByClaim, OutcomeContract
<1> QED BY <1>2, <1>3 DEF Next

\* It holds in every reachable state.
LEMMA InvInvariant == Spec => []Inv
BY InitEstablishes, NextPreserves, PTL DEF Spec

\* Every balance stays in the range of the 64-bit ledger and every record in
\* its type, for every plan: the per-leg overflow check is enough.
THEOREM TypeCorrect == Spec => []TypeOK
<1>1. Inv => TypeOK
  BY DEF Inv
<1> QED BY <1>1, InvInvariant, PTL

\* A key is terminal exactly when posted, and for a temporal plan exactly when
\* every group its claim requires has committed.
THEOREM TerminalExactlyWhenComplete == Spec => []TerminalIffComplete
<1>1. Inv => TerminalIffComplete
  BY DEF Inv
<1> QED BY <1>1, InvInvariant, PTL

\* Whatever is committed under a key was committed for the key's claim.
THEOREM CommitsAreBacked == Spec => []CommitsBackedByClaim
<1>1. Inv => CommitsBackedByClaim
  BY DEF Inv
<1> QED BY <1>1, InvInvariant, PTL

\* The dispositions say what the state shows.
THEOREM OutcomesAreTrue == Spec => []OutcomeContract
<1>1. Inv => OutcomeContract
  BY DEF Inv
<1> QED BY <1>1, InvInvariant, PTL

\* A step keeps every claim, commit and terminal, and touches one key.
LEMMA StepEffect ==
  ASSUME Inv, Next
  PROVE  /\ last'.outcome \in {"refused", "replayed", "noprogress"} => state' = state
         /\ \A k \in Keys : Kept(state, state', k)
         /\ \A k \in Keys \ {last'.key} : Untouched(state, state', k)
<1>1. PICK in \in TransitionInput : Evaluate(in)
  BY DEF Next
<1> DEFINE r == Transition(state, in)
<1>2. /\ state' = r.next
      /\ last'.outcome = r.outcome
      /\ last'.key = in.key
  BY <1>1 DEF Evaluate
<1>3. /\ Disposed(state, in, r)
      /\ \A k \in Keys : Kept(state, r.next, k)
      /\ \A k \in Keys \ {in.key} : Untouched(state, r.next, k)
  BY TransitionEffect DEF Inv, TypeOK
<1> HIDE DEF r
<1> QED BY <1>2, <1>3 DEF Disposed

\* No call ever changes an established claim, takes back a commit or reopens a
\* posted key.
THEOREM CommitsStay == Spec => CommitsAreForever
<1>1. Inv /\ [Next]_vars =>
        [\A k \in Keys :
           /\ state.keyClaim[k] # NoClaim => state'.keyClaim[k] = state.keyClaim[k]
           /\ state.committedGroups[k] \subseteq state'.committedGroups[k]
           /\ k \in state.postedKeys => k \in state'.postedKeys]_vars
  BY StepEffect DEF Kept
<1> QED BY <1>1, InvInvariant, PTL DEF Spec, CommitsAreForever

\* A call that does not commit changes nothing; one that does changes the
\* records of its own key only.
THEOREM OneKeyPerCall == Spec => CallsTouchOneKey
<1>1. Inv /\ [Next]_vars =>
        [/\ last'.outcome \in {"refused", "replayed", "noprogress"} => state' = state
         /\ \A k \in Keys \ {last'.key} :
              /\ state'.keyClaim[k] = state.keyClaim[k]
              /\ state'.committedGroups[k] = state.committedGroups[k]
              /\ state'.keyStatus[k] = state.keyStatus[k]
              /\ k \in state'.postedKeys <=> k \in state.postedKeys]_vars
  BY StepEffect DEF Untouched
<1> QED BY <1>1, InvInvariant, PTL DEF Spec, CallsTouchOneKey

-----------------------------------------------------------------------------
(* The ledger                                                              *)

\* The ledger is at every call boundary exactly the legs that the commit ledger
\* and the pinned claims name, each posted once, for any plan and any order of
\* calls (CoordinationEval.cpp 431-513, 546-613).
THEOREM LedgerIsCommits == Spec => []LedgerMatchesCommits
<1>1. Init => LedgerOK(state)
  BY EmptyLedger DEF Init
<1>2. ASSUME Inv, LedgerOK(state), [Next]_vars PROVE LedgerOK(state)'
  <2>1. CASE \E in \in TransitionInput : Evaluate(in)
    <3>1. PICK in \in TransitionInput : Evaluate(in)
      BY <2>1
    <3>2. state' = Transition(state, in).next
      BY <3>1 DEF Evaluate
    <3>3. StateOK(state)
      BY <1>2 DEF Inv, StateOK, TypeOK, TerminalIffComplete, CommitsBackedByClaim
    <3>4. LedgerOK(Transition(state, in).next)
      BY <1>2, <3>3, TransitionKeepsLedger
    <3> QED BY <3>2, <3>4
  <2>2. CASE UNCHANGED vars
    BY <1>2, <2>2 DEF vars
  <2> QED BY <1>2, <2>1, <2>2 DEF Next
<1>3. LedgerOK(state) => LedgerMatchesCommits
  BY DEF LedgerOK, LedgerMatches, LedgerMatchesCommits
<1> QED BY <1>1, <1>2, <1>3, InvInvariant, PTL DEF Spec

\* In every currency the balances add up to zero at every call boundary, for any
\* balanced plan over finitely many accounts: a group is posted whole or not at
\* all, whatever faults, overflows or order of calls (CoordinationEval.cpp
\* 431-513, 546-613; CoordinationPlan.cpp 390-411).
THEOREM ValueIsConserved ==
  ASSUME Balanced, IsFiniteSet(Accounts)
  PROVE  Spec => []ValueConserved
<1>1. Init => Conserved(state.balances)
  BY EmptyConserves DEF Init
<1>2. ASSUME Inv, Conserved(state.balances), [Next]_vars PROVE Conserved(state.balances)'
  <2>1. CASE \E in \in TransitionInput : Evaluate(in)
    <3>1. PICK in \in TransitionInput : Evaluate(in)
      BY <2>1
    <3>2. state' = Transition(state, in).next
      BY <3>1 DEF Evaluate
    <3>3. state \in EvalState /\ state.balances \in Balances /\ in.payload \in Payloads
      BY <1>2 DEF Inv, TypeOK, EvalState, TransitionInput
    <3>4. Conserved(Transition(state, in).next.balances)
      BY <1>2, <3>3, TransitionBalances, StagedConserves
    <3> QED BY <3>2, <3>4 DEF Conserved
  <2>2. CASE UNCHANGED vars
    BY <1>2, <2>2 DEF vars, Conserved
  <2> QED BY <1>2, <2>1, <2>2 DEF Next
<1>3. Conserved(state.balances) => ValueConserved
  BY DEF Conserved, ValueConserved
<1> QED BY <1>1, <1>2, <1>3, InvInvariant, PTL DEF Spec

-----------------------------------------------------------------------------
(* Supplied states, which need not be in EvalState                         *)

\* States with balances in X and any records, of groups the plan lacks as well.
Records(X) == [balances : X,
               postedKeys : SUBSET Keys,
               keyClaim : [Keys -> Claims \cup {NoClaim}],
               committedGroups : [Keys -> SUBSET (Groups \cup {"ghost"})],
               keyStatus : [Keys -> {Open, Success}]]

\* The supplied states are such states.
LEMMA SuppliedRecords ==
  ASSUME NEW k \in Keys, NEW s \in SuppliedStates(k)
  PROVE  s \in Records({s.balances})
<1> DEFINE X == {EmptyState.balances}
<1>1. EmptyState \in Records(X)
  BY DEF EmptyState, Records
<1>2. PICK P \in SUBSET {k}, c \in Claims \cup {NoClaim},
           g \in SUBSET (Groups \cup {"ghost"}), t \in {Open, Success} :
        s = Supplied(k, P, c, g, t)
  BY DEF SuppliedStates
<1> HIDE DEF X
<1>3. s \in Records(X)
  BY <1>1, <1>2 DEF Records, Supplied
<1> QED BY <1>3 DEF Records

\* A posting writes one key's claim and no commits.
LEMMA PostedRecords ==
  ASSUME NEW X, NEW s \in Records(X), NEW j, NEW c
  PROVE  /\ Post(s, j, c).keyClaim = [s.keyClaim EXCEPT ![j] = c]
         /\ Post(s, j, c).committedGroups = s.committedGroups
BY DEF Post, Records

\* A commit of groups writes one key's claim and commits.
LEMMA CommittedRecords ==
  ASSUME NEW X, NEW s \in Records(X), NEW in, NEW gs
  PROVE  /\ GroupsCommitted(s, in, gs).keyClaim = [s.keyClaim EXCEPT ![in.key] = Claim(in)]
         /\ GroupsCommitted(s, in, gs).committedGroups
              = [s.committedGroups EXCEPT ![in.key] = @ \cup gs]
BY DEF GroupsCommitted, Records

\* A commit of groups for another key, complete or not, leaves the claim and
\* the commits of key k.
LEMMA GroupsKeepOthers ==
  ASSUME NEW X, NEW s \in Records(X), NEW k \in Keys, NEW in \in TransitionInput, in.key # k,
         NEW gs \in SUBSET Groups
  PROVE  LET next == CommitGroups(s, in, gs).next
         IN  next.committedGroups[k] = s.committedGroups[k] /\ next.keyClaim[k] = s.keyClaim[k]
<1> DEFINE t == GroupsCommitted(s, in, gs)
           Y == {t.balances}
<1>1. /\ t.keyClaim = [s.keyClaim EXCEPT ![in.key] = Claim(in)]
      /\ t.committedGroups = [s.committedGroups EXCEPT ![in.key] = @ \cup gs]
  BY CommittedRecords
<1>2. t \in [balances : Y, postedKeys : {t.postedKeys}, keyClaim : {t.keyClaim},
             committedGroups : {t.committedGroups}, keyStatus : {t.keyStatus}]
  BY DEF GroupsCommitted, Records
<1> HIDE DEF t
<1>3. /\ Post(t, in.key, Claim(in)).keyClaim = [t.keyClaim EXCEPT ![in.key] = Claim(in)]
      /\ Post(t, in.key, Claim(in)).committedGroups = t.committedGroups
  BY <1>2 DEF Post
<1>4. \/ CommitGroups(s, in, gs).next = t
      \/ CommitGroups(s, in, gs).next = Post(t, in.key, Claim(in))
  BY DEF CommitGroups, GroupsCommitted, t
<1> QED BY <1>1, <1>3, <1>4 DEF Records

\* A call for another key leaves the claim and the commits of key k.
LEMMA OtherCallsKeep ==
  ASSUME NEW k \in Keys, NEW s \in SuppliedStates(k), NEW in \in TransitionInput, in.key # k
  PROVE  LET next == Transition(s, in).next
         IN  next.committedGroups[k] = s.committedGroups[k] /\ next.keyClaim[k] = s.keyClaim[k]
<1> DEFINE Same(t) == t.committedGroups[k] = s.committedGroups[k] /\ t.keyClaim[k] = s.keyClaim[k]
           B == Staged(s.balances, Firing(in), in.payload)
           staged == [s EXCEPT !.balances = B]
<1>1. \A code : Same(Refused(s, code).next)
  BY DEF Refused
<1>2. \A outcome, steps : Same(Unchanged(s, outcome, steps).next)
  BY DEF Unchanged
<1>3. s \in Records({s.balances})
  BY SuppliedRecords
<1>4. /\ staged \in Records({B})
      /\ staged.keyClaim = s.keyClaim
      /\ staged.committedGroups = s.committedGroups
  <2> HIDE DEF B
  <2> QED BY <1>3 DEF Records
<1>5. Same(Post(s, in.key, Claim(in)))
  <2>1. /\ Post(s, in.key, Claim(in)).keyClaim = [s.keyClaim EXCEPT ![in.key] = Claim(in)]
        /\ Post(s, in.key, Claim(in)).committedGroups = s.committedGroups
    BY <1>3, PostedRecords, ZenonT(40)
  <2>2. DOMAIN s.keyClaim = Keys
    BY <1>3 DEF Records
  <2> QED BY <2>1, <2>2
<1>6. Same(Post(staged, in.key, Claim(in)))
  <2> HIDE DEF B, staged
  <2>1. /\ Post(staged, in.key, Claim(in)).keyClaim = [staged.keyClaim EXCEPT ![in.key] = Claim(in)]
        /\ Post(staged, in.key, Claim(in)).committedGroups = staged.committedGroups
    BY <1>4, PostedRecords
  <2>2. DOMAIN s.keyClaim = Keys
    BY <1>3 DEF Records
  <2> QED BY <1>4, <2>1, <2>2
<1>7. Same(AcceptEvidence(s, in).next)
  BY <1>1, <1>5 DEF AcceptEvidence
<1>8. Same(TemporalTransition(s, in).next)
  <2>1. CASE Committable(s, in) = {}
    BY <1>1, <1>2, <2>1 DEF TemporalTransition
  <2>2. Same(CommitGroups(s, in, Committable(s, in)).next)
    <3>1. Committable(s, in) \in SUBSET Groups
      BY DEF Committable
    <3> QED BY <1>3, <3>1, GroupsKeepOthers
  <2> QED BY <1>1, <2>1, <2>2 DEF TemporalTransition
<1>9. Same(SingleShotTransition(s, in).next)
  <2>1. CASE \E i \in EffectIds : EffectCode(s, in, i) # None
    <3>1. \E code : SingleShotTransition(s, in) = Refused(s, code)
      BY <2>1 DEF SingleShotTransition
    <3> QED BY <3>1, <1>1
  <2>2. CASE ~ \E i \in EffectIds : EffectCode(s, in, i) # None
    <3>1. SingleShotTransition(s, in).next = Post(staged, in.key, Claim(in))
      BY <2>2 DEF SingleShotTransition
    <3> QED BY <3>1, <1>6
  <2> QED BY <2>1, <2>2
<1> HIDE DEF Same
<1>10. Same(Transition(s, in).next)
  <2>1. CASE AdmissionCode(s, in) # None
    BY <2>1, <1>1 DEF Transition
  <2>2. CASE AdmissionCode(s, in) = None /\ IsReplay(s, in)
    BY <2>2, <1>2 DEF Transition
  <2>3. CASE AdmissionCode(s, in) = None /\ ~IsReplay(s, in)
    BY <2>3, <1>1, <1>7, <1>8, <1>9 DEF Transition
  <2> QED BY <2>1, <2>2, <2>3
<1> QED BY <1>10 DEF Same

\* A call for a key whose records contradict each other changes nothing.
LEMMA InconsistentRefused ==
  ASSUME NEW k \in Keys, NEW s, Inconsistent(s, k), NEW in \in TransitionInput, in.key = k
  PROVE  Transition(s, in).next = s
<1>1. CASE AdmissionCode(s, in) # None
  BY <1>1 DEF Transition, Refused
<1>2. CASE AdmissionCode(s, in) = None
  <2>1. k \notin s.postedKeys
    BY <1>2 DEF AdmissionCode, Inconsistent, None
  <2>2. Temporal /\ PartialLedgerInvalid(s, k)
    BY <2>1 DEF Inconsistent, PartialLedgerInvalid
  <2>3. TemporalTransition(s, in).next = s
    BY <2>2 DEF TemporalTransition, Refused
  <2>4. ~EvidenceOnly /\ ~IsReplay(s, in)
    BY <2>1, <2>2, EvidenceOnlyNotTemporal DEF IsReplay
  <2> QED BY <1>2, <2>2, <2>3, <2>4 DEF Transition, Refused
<1> QED BY <1>1, <1>2

\* Whatever records of a key the caller supplies, if they contradict each other
\* nothing is ever committed under that key.
THEOREM InconsistentStaysFrozen == Spec => []InconsistentKeyFrozen
<1>1. InconsistentKeyFrozen
  BY OtherCallsKeep, InconsistentRefused DEF InconsistentKeyFrozen
<1> QED BY <1>1, PTL

-----------------------------------------------------------------------------
(* Every instance is consistent                                            *)

\* Every instance's records agree with each other, and its ledger is what the
\* commits of its keys put on it.
HostedOK ==
  /\ DOMAIN instances = Instances
  /\ \A i \in Instances : StateOK(instances[i]) /\ LedgerOK(instances[i])

\* The empty state is consistent.
LEMMA EmptyStateOK == StateOK(EmptyState)
BY PlanAssumption DEF PlanAssumption, StateOK, EmptyState, EvalState, Balances, Balance, NoClaim,
   Open, Success, KeyComplete, KeyBacked

\* HostedOK is inductive: a kept call is a transition of one instance, and a
\* call that is rolled back changes none.
LEMMA HostedInvariant == HostSpec => []HostedOK
<1>1. HostInit => HostedOK
  BY EmptyStateOK, EmptyLedger DEF HostInit, HostedOK
<1>2. ASSUME HostedOK, [HostNext]_hostVars PROVE HostedOK'
  <2>1. CASE Create \/ UNCHANGED hostVars
    BY <1>2, <2>1 DEF Create, hostVars, HostedOK
  <2>2. ASSUME NEW i \in Instances, NEW in \in TransitionInput, Run(i, in)
        PROVE  HostedOK'
    <3> DEFINE t == Transition(instances[i], in).next
    <3>1. StateOK(t) /\ LedgerOK(t)
      BY <1>2, TransitionPreserves, TransitionKeepsLedger DEF HostedOK
    <3> HIDE DEF t
    <3>2. instances' = instances \/ instances' = [instances EXCEPT ![i] = t]
      BY <2>2 DEF Run, t
    <3> QED BY <1>2, <3>1, <3>2 DEF HostedOK
  <2> QED BY <1>2, <2>1, <2>2 DEF HostNext
<1> QED BY <1>1, <1>2, PTL DEF HostSpec
-----------------------------------------------------------------------------
(* The step bound                                                          *)

StepExceeded == "bounds.step_exceeded"

\* c is a code the plan brings: of its computes, comparisons or operands.
PlanCode(c) ==
  \E p \in Payloads :
    \/ c = ComputeFault[p]
    \/ \E g \in Comparisons : c = Compare[g][p]
    \/ \E i \in EffectIds : c \in {Effects[i].leg[p].amountCode, Effects[i].leg[p].accountCode}

\* A nonempty set of effects has a first one in plan order.
LEMMA FirstEffect ==
  ASSUME NEW S \in SUBSET EffectIds, S # {}
  PROVE  \E i \in S : \A j \in S : i <= j
<1>1. S \in SUBSET Nat
  BY EffectIdsInterval
<1> QED BY <1>1, LeastExists

\* A nonempty set of effects has one that comes first in commit order.
LEMMA FirstInGroups ==
  ASSUME NEW S \in SUBSET EffectIds, S # {}
  PROVE  \E i \in S : \A j \in S : GroupOrder(i, j)
<1> DEFINE First(i) == FirstIndex(Effects[i].guard)
           F == {First(i) : i \in S}
<1>1. \A i \in S : First(i) \in Nat
  BY FirstIndexInPlan, EffectIdsInterval DEF Groups
<1>2. F \in SUBSET Nat /\ F # {}
  BY <1>1
<1>3. PICK f \in F : \A x \in F : f <= x
  BY <1>2, LeastExists
<1> DEFINE T == {i \in S : First(i) = f}
<1>4. T \in SUBSET EffectIds /\ T # {}
  BY <1>3
<1>5. PICK i \in T : \A j \in T : i <= j
  BY <1>4, FirstEffect
<1>6. ASSUME NEW j \in S PROVE GroupOrder(i, j)
  <2>1. First(j) \in Nat /\ f \in Nat /\ f <= First(j) /\ First(i) = f
    BY <1>1, <1>2, <1>3, <1>5
  <2>2. First(j) = f => i <= j
    BY <1>5
  <2> QED BY <2>1, <2>2 DEF GroupOrder
<1> QED BY <1>5, <1>6

\* Resolving an operand fails with a code of the plan or a fixed one.
LEMMA OwnOperandCode ==
  ASSUME ~PlanCode(StepExceeded), NEW i \in EffectIds, NEW p \in Payloads
  PROVE  OperandCode(i, p) # StepExceeded
BY DEF PlanCode, OperandCode, None, StepExceeded

\* Faulting guards are comparisons, and fault with the plan's codes.
LEMMA OwnGuardCode ==
  ASSUME ~PlanCode(StepExceeded), NEW i \in EffectIds, NEW in \in TransitionInput,
         GuardFaults(Effects[i].guard, in)
  PROVE  EvalGuard(Effects[i].guard, in) # StepExceeded
<1>1. EvalGuard(Effects[i].guard, in) = Compare[Effects[i].guard][in.payload]
  BY DEF GuardFaults, EvalGuard
<1>2. Effects[i].guard \in Comparisons
  BY PlanAssumption DEF PlanAssumption, GuardFaults, EvalGuard, IsAcceptedGuard
<1> QED BY <1>1, <1>2 DEF PlanCode, TransitionInput

\* A refusal of a group commit names a code of the plan or a fixed one.
LEMMA TemporalCode ==
  ASSUME ~PlanCode(StepExceeded), NEW s, NEW in \in TransitionInput
  PROVE  TemporalTransition(s, in).code # StepExceeded
<1> DEFINE gs == Committable(s, in)
           GuardCode(i) == IF GuardFaults(Effects[i].guard, in)
                           THEN EvalGuard(Effects[i].guard, in) ELSE None
           LegCode(i) == TemporalLegCode(s, in, gs, i)
<1>1. ASSUME NEW i \in EffectIds PROVE GuardCode(i) # StepExceeded
  BY OwnGuardCode DEF None, StepExceeded
<1>2. ASSUME NEW i \in EffectIds PROVE LegCode(i) # StepExceeded
  <2>1. OperandCode(i, in.payload) # StepExceeded
    BY OwnOperandCode DEF TransitionInput
  <2> QED BY <2>1 DEF TemporalLegCode, None, StepExceeded
<1>3. CASE \E i \in EffectIds : GuardCode(i) # None
  <2> DEFINE S == {i \in EffectIds : GuardCode(i) # None}
  <2> HIDE DEF GuardCode
  <2>1. \E i \in S : \A j \in S : GroupOrder(i, j)
    BY <1>3, FirstInGroups
  <2>2. \E i \in EffectIds : GuardCode(i) # None
                              /\ \A j \in EffectIds : GuardCode(j) # None => GroupOrder(i, j)
    BY <2>1
  <2>3. FirstCode(EffectIds, GuardCode, GroupOrder) # StepExceeded
    BY <2>2, <1>1 DEF FirstCode
  <2>4. \/ TemporalTransition(s, in).code = "state.invalid"
        \/ TemporalTransition(s, in).code = FirstCode(EffectIds, GuardCode, GroupOrder)
    BY <1>3 DEF TemporalTransition, Refused, GuardCode
  <2> QED BY <2>3, <2>4 DEF StepExceeded
<1>4. CASE \E i \in Legs(gs) : LegCode(i) # None
  <2> DEFINE S == {i \in Legs(gs) : LegCode(i) # None}
  <2>1. S \in SUBSET EffectIds /\ Legs(gs) \in SUBSET EffectIds
    BY DEF Legs
  <2> HIDE DEF LegCode
  <2>2. \E i \in S : \A j \in S : GroupOrder(i, j)
    BY <1>4, <2>1, FirstInGroups
  <2>3. \E i \in Legs(gs) : LegCode(i) # None
                            /\ \A j \in Legs(gs) : LegCode(j) # None => GroupOrder(i, j)
    BY <2>2
  <2>4. FirstCode(Legs(gs), LegCode, GroupOrder) # StepExceeded
    BY <2>1, <2>3, <1>2 DEF FirstCode
  <2>5. \/ TemporalTransition(s, in).code = "state.invalid"
        \/ \E i \in EffectIds : GuardCode(i) # None
        \/ TemporalTransition(s, in).code = FirstCode(Legs(gs), LegCode, GroupOrder)
    BY <1>4 DEF TemporalTransition, Refused, LegCode
  <2> QED BY <1>3, <2>4, <2>5 DEF StepExceeded
<1>5. CASE ~(\E i \in EffectIds : GuardCode(i) # None) /\ ~(\E i \in Legs(gs) : LegCode(i) # None)
  BY <1>5 DEF TemporalTransition, Refused, Unchanged, CommitGroups, None, StepExceeded
<1> QED BY <1>3, <1>4, <1>5

\* So does a refusal of a single-shot commit.
LEMMA SingleShotCode ==
  ASSUME ~PlanCode(StepExceeded), NEW s, NEW in \in TransitionInput
  PROVE  SingleShotTransition(s, in).code # StepExceeded
<1> DEFINE Code(i) == EffectCode(s, in, i)
<1>1. ASSUME NEW i \in EffectIds PROVE Code(i) # StepExceeded
  <2>1. OperandCode(i, in.payload) # StepExceeded
    BY OwnOperandCode DEF TransitionInput
  <2>2. GuardFaults(Effects[i].guard, in) => EvalGuard(Effects[i].guard, in) # StepExceeded
    BY OwnGuardCode
  <2> QED BY <2>1, <2>2 DEF EffectCode, None, StepExceeded
<1>2. CASE \E i \in EffectIds : Code(i) # None
  <2> DEFINE S == {i \in EffectIds : Code(i) # None}
  <2> HIDE DEF Code
  <2>1. \E i \in S : \A j \in S : i <= j
    BY <1>2, FirstEffect
  <2>2. \E i \in EffectIds : Code(i) # None
                              /\ \A j \in EffectIds : Code(j) # None => i <= j
    BY <2>1
  <2>3. FirstCode(EffectIds, Code, <=) # StepExceeded
    BY <2>2, <1>1 DEF FirstCode
  <2>4. SingleShotTransition(s, in).code = FirstCode(EffectIds, Code, <=)
    BY <1>2 DEF SingleShotTransition, Refused, Code
  <2> QED BY <2>3, <2>4
<1>3. CASE ~(\E i \in EffectIds : Code(i) # None)
  BY <1>3 DEF SingleShotTransition, None, StepExceeded
<1> QED BY <1>2, <1>3

\* No call on a plan with effects is answered with the bound's code by itself.
LEMMA TransitionCode ==
  ASSUME ~PlanCode(StepExceeded), Effects # << >>, NEW s, NEW in \in TransitionInput
  PROVE  Transition(s, in).code # StepExceeded
<1>1. AdmissionCode(s, in) # StepExceeded
  BY DEF AdmissionCode, None, StepExceeded
<1>2. ComputeFault[in.payload] # StepExceeded
  BY DEF PlanCode, TransitionInput
<1>3. ~EvidenceOnly
  BY DEF EvidenceOnly
<1> QED BY <1>1, <1>2, <1>3, TemporalCode, SingleShotCode
        DEF Transition, Refused, Unchanged, None, StepExceeded

Guarded == {i \in EffectIds : Effects[i].guard # NoGuard}
Gated == {i \in EffectIds : Effects[i].gate # NoPolicy}

\* The observations BoundedCoordinator.cpp 52-53 leaves out of the derivation,
\* the obligations', fit in what it grants and the plan does not use: four
\* observations an effect, its guard's and its policy's included.
ObligationsFit ==
  Temporal \/ ObligationCount + Cardinality(Guarded) + Cardinality(Gated) <= 2 * Len(Effects)

\* A set of effects has at most as many as the plan, and so has the guards'.
LEMMA EffectCount ==
  ASSUME NEW S \in SUBSET EffectIds
  PROVE  IsFiniteSet(S) /\ Cardinality(S) \in Nat /\ Cardinality(S) <= Len(Effects)
<1>1. IsFiniteSet(EffectIds) /\ Cardinality(EffectIds) = Len(Effects)
  <2>1. 1 \in Int /\ Len(Effects) \in Int /\ EffectIds = 1 .. Len(Effects)
    BY EffectIdsInterval
  <2>2. /\ IsFiniteSet(1 .. Len(Effects))
        /\ Cardinality(1 .. Len(Effects)) = IF 1 > Len(Effects) THEN 0 ELSE Len(Effects) - 1 + 1
    BY <2>1, FS_Interval
  <2> QED BY <2>1, <2>2, EffectIdsInterval
<1> QED BY <1>1, FS_Subset, FS_CardinalityType

\* There are no more guarded groups than effects.
LEMMA GroupCount ==
  Cardinality(GuardedGroups) \in Nat /\ Cardinality(GuardedGroups) <= Len(Effects)
<1> DEFINE guard == [i \in EffectIds |-> Effects[i].guard]
<1>1. guard \in Surjection(EffectIds, Groups)
  BY DEF Surjection, Groups
<1>2. IsFiniteSet(EffectIds) /\ Cardinality(EffectIds) <= Len(Effects)
  BY EffectCount
<1> HIDE DEF guard
<1>3. IsFiniteSet(Groups) /\ Cardinality(Groups) <= Cardinality(EffectIds)
  BY <1>1, <1>2, FS_Surjection
<1>4. GuardedGroups \in SUBSET Groups
  BY DEF GuardedGroups
<1> QED BY <1>2, <1>3, <1>4, FS_Subset, FS_CardinalityType, EffectIdsInterval

\* A transition emits at most maxSteps observations.
LEMMA StepsFit ==
  ASSUME Effects # << >>, ObligationsFit, NEW s, NEW in \in TransitionInput
  PROVE  Transition(s, in).steps \in Nat /\ Transition(s, in).steps <= MaxSteps
<1> DEFINE n == Len(Effects)
<1>1. n \in Nat /\ n > 0 /\ ComputeCount \in Nat /\ ObligationCount \in Nat
  BY EffectIdsInterval, PlanAssumption DEF PlanAssumption
<1>2. MaxSteps = 3 + ComputeCount + 4 * n
  BY DEF MaxSteps
<1>3. ~EvidenceOnly
  BY DEF EvidenceOnly
<1>4. CASE Temporal
  <2>1. TemporalTransition(s, in).steps \in 0 .. (3 + ComputeCount + 4 * n)
    <3> DEFINE gs == Committable(s, in)
    <3>1. Cardinality(Legs(gs)) \in Nat /\ Cardinality(Legs(gs)) <= n
      BY EffectCount DEF Legs
    <3>2. CommitGroups(s, in, gs).steps \in 0 .. (3 + ComputeCount + 4 * n)
      <4> HIDE DEF gs
      <4> QED BY <1>1, <3>1, GroupCount, SMTT(40) DEF CommitGroups
    <3> QED BY <1>1, <3>2, GroupCount DEF TemporalTransition, Refused, Unchanged
  <2> QED BY <1>1, <1>2, <1>3, <1>4, <2>1 DEF Transition, Refused, Unchanged
<1>5. CASE ~Temporal
  <2> DEFINE firingGated == {i \in Firing(in) : Effects[i].gate # NoPolicy}
  <2>1. Firing(in) \in SUBSET EffectIds /\ firingGated \in SUBSET Gated
        /\ Gated \in SUBSET EffectIds /\ Guarded \in SUBSET EffectIds
    BY DEF Firing, Gated, Guarded
  <2>2. /\ Cardinality(Firing(in)) \in Nat /\ Cardinality(Firing(in)) <= n
        /\ Cardinality(firingGated) \in Nat /\ Cardinality(firingGated) <= Cardinality(Gated)
        /\ Cardinality(Gated) \in Nat /\ Cardinality(Guarded) \in Nat
    BY <2>1, EffectCount, FS_Subset, FS_CardinalityType
  <2>3. SingleShotSteps(in) = 3 + ComputeCount + ObligationCount
                              + 2 * Cardinality(Firing(in)) + Cardinality(Guarded)
                              + Cardinality(firingGated)
    BY DEF SingleShotSteps, Guarded
  <2> HIDE DEF firingGated
  <2>4. SingleShotSteps(in) \in 0 .. (3 + ComputeCount + 4 * n)
    BY <1>1, <1>5, <2>2, <2>3 DEF ObligationsFit
  <2>5. SingleShotTransition(s, in).steps \in 0 .. (3 + ComputeCount + 4 * n)
    BY <1>1, <2>4 DEF SingleShotTransition, Refused
  <2> QED BY <1>1, <1>2, <1>3, <1>5, <2>5 DEF Transition, Refused, Unchanged
<1> QED BY <1>4, <1>5

\* On a plan with effects, whose own codes are not the bound's and whose
\* obligations fit, no call is refused for its steps: the static bound of
\* BoundedCoordinator.cpp 52 covers every transition.
THEOREM StepsAreCovered ==
  ASSUME Effects # << >>, ObligationsFit, ~PlanCode(StepExceeded)
  PROVE  HostSpec => []StepBoundCovers
<1>1. HostInit => StepBoundCovers
  <2>1. HostInit => answer = [instance |-> NoKey, outcome |-> "none", code |-> None]
    BY DEF HostInit
  <2>2. [instance |-> NoKey, outcome |-> "none", code |-> None].code = None
    OBVIOUS
  <2> QED BY <2>1, <2>2 DEF StepBoundCovers, None
<1>2. ASSUME StepBoundCovers, [HostNext]_hostVars PROVE StepBoundCovers'
  <2>1. CASE Create \/ UNCHANGED hostVars
    BY <1>2, <2>1 DEF Create, hostVars, StepBoundCovers
  <2>2. ASSUME NEW i \in Instances, NEW in \in TransitionInput, Run(i, in)
        PROVE  StepBoundCovers'
    <3> DEFINE r == Transition(instances[i], in)
    <3>1. r.steps \in Nat /\ r.steps <= MaxSteps /\ MaxSteps \in Int /\ r.code # StepExceeded
      BY StepsFit, TransitionCode, EffectIdsInterval, PlanAssumption DEF PlanAssumption, MaxSteps
    <3>2. answer'.code = IF BoundCode(r) = None THEN r.code ELSE BoundCode(r)
      BY <2>2 DEF Run
    <3> HIDE DEF r
    <3>3. BoundCode(r) # StepExceeded
      BY <3>1 DEF BoundCode, None, StepExceeded
    <3> QED BY <3>1, <3>2, <3>3 DEF StepBoundCovers, StepExceeded
  <2> QED BY <1>2, <2>1, <2>2 DEF HostNext
<1> QED BY <1>1, <1>2, PTL DEF HostSpec

\* In every currency, the balances of every instance add up to zero, for any
\* balanced plan over finitely many accounts: the coordinator mixes no two
\* instances' ledgers, and what it rolls back it rolls back whole.
THEOREM EveryInstanceConserves ==
  ASSUME Balanced, IsFiniteSet(Accounts)
  PROVE  HostSpec => [](\A i \in Instances : Conserved(instances[i].balances))
<1> DEFINE AllConserve == \A i \in Instances : Conserved(instances[i].balances)
<1>1. HostInit => AllConserve
  <2>1. Conserved(EmptyState.balances)
    BY EmptyConserves
  <2> QED BY <2>1 DEF HostInit
<1>2. ASSUME HostedOK, AllConserve, [HostNext]_hostVars PROVE AllConserve'
  <2>1. CASE Create \/ UNCHANGED hostVars
    BY <1>2, <2>1 DEF Create, hostVars
  <2>2. ASSUME NEW i \in Instances, NEW in \in TransitionInput, Run(i, in)
        PROVE  AllConserve'
    <3> DEFINE t == Transition(instances[i], in).next
    <3>1. instances[i] \in EvalState /\ instances[i].balances \in Balances
          /\ in.payload \in Payloads
      BY <1>2 DEF HostedOK, StateOK, EvalState, TransitionInput
    <3>2. Conserved(t.balances)
      BY <1>2, <3>1, TransitionBalances, StagedConserves
    <3> HIDE DEF t
    <3>3. instances' = instances \/ instances' = [instances EXCEPT ![i] = t]
      BY <2>2 DEF Run, t
    <3> QED BY <1>2, <3>2, <3>3 DEF HostedOK
  <2> QED BY <1>2, <2>1, <2>2 DEF HostNext
<1> QED BY <1>1, <1>2, HostedInvariant, PTL DEF HostSpec

-----------------------------------------------------------------------------
(* One evaluator                                                           *)

\* The evaluator the coordinator runs and the one of the reference it is
\* compared with are the same function of the state and the input.
LEMMA SameEvaluator ==
  ASSUME NEW s, NEW in
  PROVE  Reference!Transition(s, in) = Transition(s, in)
<1> USE DEF Cardinality, Reference!Cardinality, Min, Reference!Min, SumFunctionOnSet,
        Reference!SumFunctionOnSet, FoldFunctionOnSet, Reference!FoldFunctionOnSet,
        MapThenFoldSet, Reference!MapThenFoldSet, ToSet, Reference!ToSet, None,
        Reference!None, NoPolicy, Reference!NoPolicy, NoGuard, Reference!NoGuard,
        Success, Reference!Success, Open, Reference!Open, NoClaim, Reference!NoClaim,
        Verdicts, Reference!Verdicts, Policies, Reference!Policies, EffectIds,
        Reference!EffectIds, Groups, Reference!Groups, Balance, Reference!Balance,
        Balances, Reference!Balances, Claims, Reference!Claims, EmptyState,
        Reference!EmptyState, TransitionInput, Reference!TransitionInput,
        IsAcceptedGuard, Reference!IsAcceptedGuard, Temporal, Reference!Temporal,
        EvidenceOnly, Reference!EvidenceOnly, Accepted, Reference!Accepted, EvalGuard,
        Reference!EvalGuard, Holds, Reference!Holds, GuardFaults, Reference!GuardFaults,
        OperandCode, Reference!OperandCode, Delta, Reference!Delta, Deltas,
        Reference!Deltas, LegsOn, Reference!LegsOn, Staged, Reference!Staged, FirstCode,
        Reference!FirstCode, Refused, Reference!Refused, Unchanged, Reference!Unchanged,
        Post, Reference!Post, Claim, Reference!Claim, AdmissionCode,
        Reference!AdmissionCode, IsReplay, Reference!IsReplay, PolicyCode,
        Reference!PolicyCode, AcceptEvidence, Reference!AcceptEvidence, FirstIndex,
        Reference!FirstIndex, GroupOrder, Reference!GroupOrder, Legs, Reference!Legs,
        GuardedGroups, Reference!GuardedGroups, Required, Reference!Required,
        Committable, Reference!Committable, PartialLedgerInvalid,
        Reference!PartialLedgerInvalid, TemporalLegCode, Reference!TemporalLegCode,
        CommitGroups, Reference!CommitGroups, TemporalTransition,
        Reference!TemporalTransition, Firing, Reference!Firing, EffectCode,
        Reference!EffectCode, SingleShotSteps, Reference!SingleShotSteps,
        SingleShotTransition, Reference!SingleShotTransition
<1>1. /\ Reference!AdmissionCode(s, in) = AdmissionCode(s, in)
      /\ Reference!IsReplay(s, in) = IsReplay(s, in)
      /\ Reference!Unchanged(s, "replayed", 3) = Unchanged(s, "replayed", 3)
      /\ \A c : Reference!Refused(s, c) = Refused(s, c)
  BY Zenon
<1>2. Reference!AcceptEvidence(s, in) = AcceptEvidence(s, in)
  BY Zenon
<1>3. Reference!TemporalTransition(s, in) = TemporalTransition(s, in)
  BY Zenon
<1>4. Reference!SingleShotTransition(s, in) = SingleShotTransition(s, in)
  BY Zenon
<1>5. Reference!None = None /\ Reference!EvidenceOnly = EvidenceOnly /\ Reference!Temporal = Temporal
  BY Zenon
<1> HIDE DEF Cardinality, Reference!Cardinality, Min, Reference!Min, SumFunctionOnSet,
        Reference!SumFunctionOnSet, FoldFunctionOnSet, Reference!FoldFunctionOnSet,
        MapThenFoldSet, Reference!MapThenFoldSet, ToSet, Reference!ToSet, None,
        Reference!None, NoPolicy, Reference!NoPolicy, NoGuard, Reference!NoGuard,
        Success, Reference!Success, Open, Reference!Open, NoClaim, Reference!NoClaim,
        Verdicts, Reference!Verdicts, Policies, Reference!Policies, EffectIds,
        Reference!EffectIds, Groups, Reference!Groups, Balance, Reference!Balance,
        Balances, Reference!Balances, Claims, Reference!Claims, EmptyState,
        Reference!EmptyState, TransitionInput, Reference!TransitionInput,
        IsAcceptedGuard, Reference!IsAcceptedGuard, Temporal, Reference!Temporal,
        EvidenceOnly, Reference!EvidenceOnly, Accepted, Reference!Accepted, EvalGuard,
        Reference!EvalGuard, Holds, Reference!Holds, GuardFaults, Reference!GuardFaults,
        OperandCode, Reference!OperandCode, Delta, Reference!Delta, Deltas,
        Reference!Deltas, LegsOn, Reference!LegsOn, Staged, Reference!Staged, FirstCode,
        Reference!FirstCode, Refused, Reference!Refused, Unchanged, Reference!Unchanged,
        Post, Reference!Post, Claim, Reference!Claim, AdmissionCode,
        Reference!AdmissionCode, IsReplay, Reference!IsReplay, PolicyCode,
        Reference!PolicyCode, AcceptEvidence, Reference!AcceptEvidence, FirstIndex,
        Reference!FirstIndex, GroupOrder, Reference!GroupOrder, Legs, Reference!Legs,
        GuardedGroups, Reference!GuardedGroups, Required, Reference!Required,
        Committable, Reference!Committable, PartialLedgerInvalid,
        Reference!PartialLedgerInvalid, TemporalLegCode, Reference!TemporalLegCode,
        CommitGroups, Reference!CommitGroups, TemporalTransition,
        Reference!TemporalTransition, Firing, Reference!Firing, EffectCode,
        Reference!EffectCode, SingleShotSteps, Reference!SingleShotSteps,
        SingleShotTransition, Reference!SingleShotTransition
<1> QED BY <1>1, <1>2, <1>3, <1>4, <1>5 DEF Transition, Reference!Transition

\* They start from the same state and are given the same inputs.
LEMMA SameInputs ==
  Reference!EmptyState = EmptyState /\ Reference!TransitionInput = TransitionInput
BY Zenon
   DEF EmptyState, Reference!EmptyState, NoClaim, Reference!NoClaim, Open, Reference!Open,
   TransitionInput, Reference!TransitionInput, Policies, Reference!Policies, Verdicts,
   Reference!Verdicts, ToSet, Reference!ToSet

-----------------------------------------------------------------------------
(* The coordinator implements the reference evaluator                      *)

\* The shared coordinator keeps a state and a last result per instance.
Hosting == /\ DOMAIN instances = Instances
           /\ DOMAIN lastOf = Instances

\* Every instance has a state and a last result.
LEMMA HostingInvariant == HostSpec => []Hosting
<1>1. HostInit => Hosting
  BY DEF HostInit, Hosting
<1>2. Hosting /\ [HostNext]_hostVars => Hosting'
  BY DEF Hosting, HostNext, Create, Run, hostVars
<1> QED BY <1>1, <1>2, PTL DEF HostSpec

\* A call of an instance is a step of the watched instance's reference
\* evaluator when it is the watched one's and is kept, and a stutter of it else.
LEMMA RunIsAReferenceStep ==
  ASSUME Hosting, NEW i \in Instances, NEW in \in TransitionInput, Run(i, in)
  PROVE  Reference!Next \/ UNCHANGED Reference!vars
<1> DEFINE r == Transition(instances[i], in)
<1>1. CASE BoundCode(r) = None /\ i = Watched
  <2>1. /\ instances'[Watched] = Transition(instances[Watched], in).next
        /\ lastOf'[Watched] = [outcome |-> Transition(instances[Watched], in).outcome,
                               code |-> Transition(instances[Watched], in).code, key |-> in.key]
    BY <1>1 DEF Hosting, Run
  <2>2. Reference!Evaluate(in)
    BY <2>1, SameEvaluator DEF Reference!Evaluate
  <2> QED BY <2>2, SameInputs DEF Reference!Next
<1>2. CASE BoundCode(r) # None \/ i # Watched
  <2>1. instances'[Watched] = instances[Watched] /\ lastOf'[Watched] = lastOf[Watched]
    BY <1>2, WatchedAssumption DEF Hosting, Run, WatchedAssumption
  <2> QED BY <2>1 DEF Reference!vars
<1> QED BY <1>1, <1>2

\* The shared coordinator implements the reference evaluator for each instance,
\* whatever the other instances do and whichever calls are rolled back
\* (BoundedCoordinator.cpp 74-103).
THEOREM HostsReferences == HostSpec => EachInstanceIsAReference
<1>1. HostInit => Reference!Init
  BY WatchedAssumption, SameInputs
     DEF HostInit, Reference!Init, NoHostedCall, Reference!NoCall, None, Reference!None, WatchedAssumption
<1>2. ASSUME Hosting, [HostNext]_hostVars PROVE Reference!Next \/ UNCHANGED Reference!vars
  BY <1>2, RunIsAReferenceStep DEF HostNext, Create, hostVars, Reference!vars
<1> QED BY <1>1, <1>2, HostingInvariant, PTL DEF HostSpec, EachInstanceIsAReference, Reference!Spec
=============================================================================
