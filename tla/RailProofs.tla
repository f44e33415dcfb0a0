----------------------------- MODULE RailProofs -----------------------------
(***************************************************************************)
(* Theorems about the two realizations of a coordination, for every plan,  *)
(* every number of database sessions and every word width: what stands in  *)
(* the postings was accepted, and is there once; and what a realization    *)
(* commits is what the reference evaluator answers.                        *)
(***************************************************************************)
EXTENDS PostgresTemporal, SolidityContracts, FiniteSums, TLAPS

-----------------------------------------------------------------------------
(* The plan                                                                *)

\* The effects are numbered from one, in plan order.
LEMMA EffectIdsInterval == EffectIds = 1 .. Len(Effects) /\ Len(Effects) \in Nat
BY PlanAssumption DEF PlanAssumption, EffectIds

\* Every effect has its kind, its guard and a leg per payload.
LEMMA EffectType ==
  ASSUME NEW i \in EffectIds, NEW p \in Payloads
  PROVE  /\ Effects[i].guard \in Groups
         /\ Effects[i].leg[p] \in Operands
         /\ Effects[i].leg[p].amount \in Int /\ Delta(i, p) \in Int
<1> DEFINE Entry == [name : STRING, kind : STRING, guard : STRING, gate : STRING,
                     leg : [Payloads -> Operands]]
<1>1. Effects \in Seq(Entry)
  BY PlanAssumption DEF PlanAssumption
<1> HIDE DEF Entry
<1>2. Effects[i] \in Entry
  BY <1>1 DEF EffectIds
<1>3. Effects[i].leg[p] \in Operands
  BY <1>2 DEF Entry
<1>4. Effects[i].leg[p].amount \in Int
  BY <1>3 DEF Operands
<1> QED BY <1>3, <1>4 DEF Groups, Delta

\* Every set of effects is finite.
LEMMA LegsFinite == ASSUME NEW S \in SUBSET EffectIds PROVE IsFiniteSet(S)
<1>1. IsFiniteSet(EffectIds)
  BY EffectIdsInterval, FS_Interval
<1> QED BY <1>1, FS_Subset

\* A group first appears at one of its effects, so no two groups first appear
\* at the same one.
LEMMA FirstIndexInPlan ==
  ASSUME NEW g \in Groups
  PROVE  FirstIndex(g) \in EffectIds /\ Effects[FirstIndex(g)].guard = g
<1> DEFINE S == {i \in EffectIds : Effects[i].guard = g}
<1>1. S \in SUBSET Nat /\ S # {}
  BY EffectIdsInterval DEF Groups
<1>2. PICK x \in S : \A y \in S : x <= y
  BY <1>1, LeastExists
<1>3. Min(S) \in S
  BY <1>2 DEF Min
<1> QED BY <1>3 DEF FirstIndex

-----------------------------------------------------------------------------
(* The order of the groups                                                 *)

\* q lists the groups of S in order of first appearance.
Lists(q, S) ==
  /\ q \in [1 .. Cardinality(S) -> S]
  /\ \A m, n \in DOMAIN q : m < n => FirstIndex(q[m]) < FirstIndex(q[n])

\* A nonempty set of groups has one that appears last.
LEMMA LastGroup ==
  ASSUME NEW S \in SUBSET Groups, S # {}
  PROVE  \E g \in S : \A h \in S \ {g} : FirstIndex(h) < FirstIndex(g)
<1> DEFINE M == Len(Effects)
           T == {M - FirstIndex(g) : g \in S}
<1>1. \A g \in S : FirstIndex(g) \in 1 .. M /\ M \in Nat /\ FirstIndex(g) \in Nat
                   /\ M - FirstIndex(g) \in Nat
  BY FirstIndexInPlan, EffectIdsInterval
<1>2. T \in SUBSET Nat /\ T # {}
  BY <1>1
<1>3. PICK t \in T : \A u \in T : t <= u
  BY <1>2, LeastExists
<1>4. PICK g \in S : t = M - FirstIndex(g)
  BY <1>3
<1>5. ASSUME NEW h \in S \ {g} PROVE FirstIndex(h) < FirstIndex(g)
  <2>1. M - FirstIndex(g) <= M - FirstIndex(h)
    BY <1>3, <1>4
  <2>2. FirstIndex(h) # FirstIndex(g)
    BY FirstIndexInPlan
  <2> HIDE DEF M
  <2> QED BY <1>1, <2>1, <2>2
<1> QED BY <1>5

\* There are finitely many groups.
LEMMA GroupsFinite == IsFiniteSet(Groups)
<1>1. [g \in Groups |-> FirstIndex(g)] \in Injection(Groups, EffectIds)
  BY FirstIndexInPlan DEF Injection, IsInjective
<1> QED BY <1>1, FS_Injection, LegsFinite

\* Every set of groups can be listed.
LEMMA ListExists == \A S \in SUBSET Groups : \E q : Lists(q, S)
<1>1. IsFiniteSet(Groups)
  BY GroupsFinite
<1> SUFFICES ASSUME NEW U \in SUBSET Groups PROVE \E q : Lists(q, U)
  OBVIOUS
<1> DEFINE G == {S \in SUBSET U : \E q : Lists(q, S)}
<1>2. IsFiniteSet(U)
  BY <1>1, FS_Subset
<1>3. ASSUME NEW T \in SUBSET U, \A V \in SUBSET T : V # T => V \in G PROVE T \in G
  <2>1. IsFiniteSet(T) /\ Cardinality(T) \in Nat
    BY <1>2, FS_Subset, FS_CardinalityType
  <2>2. CASE T = {}
    <3>1. Cardinality(T) = 0
      BY <2>2, FS_EmptySet
    <3>2. Lists([n \in {} |-> n], T)
      BY <3>1, <2>2 DEF Lists
    <3> QED BY <3>2
  <2>3. CASE T # {}
    <3>1. PICK g \in T : \A h \in T \ {g} : FirstIndex(h) < FirstIndex(g)
      BY <2>3, LastGroup
    <3> DEFINE V == T \ {g}  c == Cardinality(V)
    <3>2. Cardinality(T) = c + 1 /\ c \in Nat
      <4>1. IsFiniteSet(V) /\ c = Cardinality(T) - 1
        BY <2>1, FS_RemoveElement
      <4>2. c \in Nat
        BY <4>1, FS_CardinalityType
      <4> QED BY <2>1, <4>1, <4>2
    <3>3. PICK q : Lists(q, V)
      BY <1>3
    <3> DEFINE r == [n \in 1 .. c + 1 |-> IF n = c + 1 THEN g ELSE q[n]]
    <3> HIDE DEF c
    <3>q. q \in [1 .. c -> V]
      BY <3>3 DEF Lists, c
    <3>4. r \in [1 .. Cardinality(T) -> T]
      BY <3>2, <3>q
    <3>5. ASSUME NEW m \in DOMAIN r, NEW n \in DOMAIN r, m < n
          PROVE  FirstIndex(r[m]) < FirstIndex(r[n])
      <4>1. m \in 1 .. c /\ r[m] = q[m] /\ q[m] \in V
        BY <3>2, <3>q, <3>5
      <4>2. CASE n = c + 1
        BY <4>1, <4>2, <3>1
      <4>3. CASE n # c + 1
        <5>1. n \in DOMAIN q /\ m \in DOMAIN q /\ r[n] = q[n]
          BY <4>1, <4>3, <3>2, <3>q
        <5> QED BY <5>1, <4>1, <3>3, <3>5 DEF Lists
      <4> QED BY <4>2, <4>3
    <3> HIDE DEF r
    <3>6. Lists(r, T)
      BY <3>4, <3>5 DEF Lists
    <3> QED BY <3>6
  <2> QED BY <2>2, <2>3
<1>5. G \in SUBSET (SUBSET U)
  OBVIOUS
<1> HIDE DEF G
<1>4. U \in G
  BY <1>2, <1>3, <1>5, SizeInduction
<1> QED BY <1>4 DEF G

\* GroupSeq lists every group once, in order of first appearance.
LEMMA GroupSeqLists ==
  /\ Len(GroupSeq) \in Nat /\ DOMAIN GroupSeq = 1 .. Len(GroupSeq)
  /\ \A m, n \in DOMAIN GroupSeq : m < n => FirstIndex(GroupSeq[m]) < FirstIndex(GroupSeq[n])
  /\ \A n \in DOMAIN GroupSeq : GroupSeq[n] \in Groups
  /\ \A g \in Groups : \E n \in DOMAIN GroupSeq : GroupSeq[n] = g
  /\ \A m, n \in DOMAIN GroupSeq : GroupSeq[m] = GroupSeq[n] => m = n
<1> DEFINE c == Cardinality(Groups)
<1>1. IsFiniteSet(Groups) /\ c \in Nat
  BY GroupsFinite, FS_CardinalityType
<1>2. Lists(GroupSeq, Groups)
  BY ListExists, Zenon DEF GroupSeq, Lists
<1> HIDE DEF c
<1>3. GroupSeq \in [1 .. c -> Groups]
  BY <1>2 DEF Lists, c
<1>4. ASSUME NEW m \in DOMAIN GroupSeq, NEW n \in DOMAIN GroupSeq, GroupSeq[m] = GroupSeq[n]
      PROVE  m = n
  <2>1. \A x, y \in DOMAIN GroupSeq : x < y => FirstIndex(GroupSeq[x]) < FirstIndex(GroupSeq[y])
    BY <1>2 DEF Lists
  <2>2. FirstIndex(GroupSeq[m]) \in Nat /\ m \in Nat /\ n \in Nat
    BY <1>1, <1>3, FirstIndexInPlan, EffectIdsInterval
  <2> QED BY <2>1, <2>2, <1>4
<1>5. GroupSeq \in Injection(1 .. c, Groups)
  BY <1>3, <1>4 DEF Injection, IsInjective
<1>6. IsFiniteSet(1 .. c) /\ Cardinality(1 .. c) = c
  BY <1>1, FS_Interval
<1>7. GroupSeq \in Surjection(1 .. c, Groups)
  BY <1>1, <1>5, <1>6, FS_Injection DEF c
<1>8. Len(GroupSeq) = c
  BY <1>1, <1>3
<1>9. \A m, n \in DOMAIN GroupSeq : m < n => FirstIndex(GroupSeq[m]) < FirstIndex(GroupSeq[n])
  BY <1>2 DEF Lists
<1> QED BY <1>1, <1>3, <1>4, <1>7, <1>8, <1>9 DEF Surjection

-----------------------------------------------------------------------------
(* What every state of the database keeps                                  *)

PostingRows == Keys \X Payloads \X EffectIds
CallPlaces == {"idle", "accepting", "accepted", "claim", "group", "legs", "pin", "pinning",
               "done", "balance", "status", "commit"}
CallRecords ==
  [pc : CallPlaces, key : Keys \cup {NoKey}, payload : Payloads \cup {None}, n : Int,
   legs : SUBSET EffectIds, groups : SUBSET Groups, sawClaim : Claims \cup {NoClaim},
   sawGroups : SUBSET Groups, pin : BOOLEAN, recon : BOOLEAN]
Tables ==
  [ledger : [Accounts -> Int],
   postings : {SetToBag(D) : D \in {D \in SUBSET PostingRows : IsFiniteSet(D)}},
   groups : [Keys -> SUBSET Groups],
   claim : [Keys -> Claims \cup {NoClaim}],
   reconciled : SUBSET Keys,
   accepted : [Keys -> [Policies -> Claims \cup {NoClaim}]]]

\* A call's own writes: the legs of the groups it committed, and those it has
\* posted of the group it is at.
CallOK(t) ==
  /\ t.pc = "idle" => t = NoTx
  /\ t.pc # "idle" => t.key \in Keys /\ t.payload \in Payloads
  /\ t.pc \in {"accepting", "accepted", "group", "legs"} => t.n \in DOMAIN GroupSeq
  /\ t.pc \in {"accepting", "accepted", "claim"} => t.groups = {}
  /\ t.pc # "legs" => t.legs = Legs(t.groups)
  /\ t.pc = "legs" => /\ Legs(t.groups) \subseteq t.legs
                      /\ t.legs \subseteq Legs(t.groups \cup {GroupSeq[t.n]})

\* What it posts was accepted for its claim, and no other call committed it;
\* what it accepts, nobody accepted.
BackedBy(d, t) ==
  /\ \A g \in t.groups : g \notin d.groups[t.key] /\ d.accepted[t.key][g] = <<t.key, t.payload>>
  /\ t.pc = "legs" => d.accepted[t.key][GroupSeq[t.n]] = <<t.key, t.payload>>
  /\ t.pc = "accepted" => d.accepted[t.key][GroupSeq[t.n]] = NoClaim

\* Two calls of one key hold no group's row, and no acceptance, both.
Apart(t, u) ==
  t.key = u.key => /\ t.groups \cap u.groups = {}
                   /\ t.pc = "accepted" /\ u.pc = "accepted" => t.n # u.n

\* The postings of a key are the legs of its committed groups.
RowsAreCommits(d) ==
  \A k \in Keys, i \in EffectIds :
    Effects[i].guard \in d.groups[k] <=> \E p \in Payloads : <<k, p, i>> \in DOMAIN d.postings

RowsOn(d, a) == {e \in DOMAIN d.postings : Account(e[3], e[2]) = a}
LedgerIsRows(d) ==
  \A a \in Accounts : d.ledger[a] = SumFunctionOnSet(Signed(d.postings), RowsOn(d, a))

RowsAccepted(d) ==
  \A e \in DOMAIN d.postings : d.accepted[e[1]][Effects[e[3]].guard] = <<e[1], e[2]>>

TablesOK(d) == d \in Tables /\ RowsAreCommits(d) /\ LedgerIsRows(d) /\ RowsAccepted(d)
CallsOK ==
  /\ tx \in [Sessions -> CallRecords]
  /\ \A s \in Sessions : CallOK(tx[s]) /\ BackedBy(db, tx[s])
  /\ \A s, r \in Sessions : s # r => Apart(tx[s], tx[r])

\* The inductive invariant.
PostgresInv == TablesOK(db) /\ CallsOK

-----------------------------------------------------------------------------
(* A step of one call                                                      *)

\* A claim is not the absence of one.
LEMMA PairIsNotEmpty == ASSUME NEW a, NEW b PROVE <<a, b>> # NoClaim
BY DEF NoClaim

\* No legs are those of no groups.
LEMMA NoLegs == Legs({}) = {}
BY DEF Legs

\* An idle session has the record of a call that has nothing.
LEMMA NoCallTyped == NoTx \in CallRecords
BY DEF NoTx, CallRecords, CallPlaces, None

\* The state in which no call was made satisfies the inductive invariant.
LEMMA PostgresStarts == ASSUME TemporalPlan, Init PROVE PostgresInv
<1>1. NoTx \in CallRecords
  BY NoCallTyped
<1>2. CallOK(NoTx)
  BY NoLegs DEF CallOK, NoTx
<1>3. CallsOK
  <2>1. \A s \in Sessions : tx[s] = NoTx
    BY DEF Init
  <2>2. tx \in [Sessions -> CallRecords]
    BY <1>1 DEF Init
  <2>3. BackedBy(db, NoTx) /\ Apart(NoTx, NoTx)
    BY DEF BackedBy, Apart, NoTx
  <2> QED BY <1>2, <2>1, <2>2, <2>3 DEF CallsOK
<1>4. db.postings = SetToBag({}) /\ DOMAIN db.postings = {}
  BY DEF Init, EmptyBag, SetToBag
<1>5. db \in Tables
  <2>1. {} \in {D \in SUBSET PostingRows : IsFiniteSet(D)}
    BY FS_EmptySet
  <2> QED BY <2>1 DEF Init, EmptyBag, Tables
<1>6. RowsAreCommits(db) /\ RowsAccepted(db)
  BY <1>4 DEF Init, RowsAreCommits, RowsAccepted
<1>7. LedgerIsRows(db)
  <2>1. \A a \in Accounts : RowsOn(db, a) = {} /\ db.ledger[a] = 0
    BY <1>4 DEF Init, RowsOn
  <2> QED BY <2>1, SumEmpty DEF LedgerIsRows
<1> QED BY <1>3, <1>5, <1>6, <1>7 DEF PostgresInv, TablesOK

\* A step of one call that leaves the tables alone keeps the invariant, if
\* what the call becomes does.
LEMMA CallSteps ==
  ASSUME PostgresInv, NEW s \in Sessions, NEW t \in CallRecords,
         CallOK(t), BackedBy(db, t), \A r \in Sessions \ {s} : Apart(t, tx[r]),
         Step(s, t)
  PROVE  PostgresInv'
<1>1. db' = db /\ tx' = [tx EXCEPT ![s] = t] /\ tx \in [Sessions -> CallRecords]
  BY DEF Step, PostgresInv, CallsOK
<1>2. tx' \in [Sessions -> CallRecords] /\ tx'[s] = t /\ \A r \in Sessions \ {s} : tx'[r] = tx[r]
  BY <1>1
<1>3. \A r \in Sessions : CallOK(tx'[r]) /\ BackedBy(db, tx'[r])
  BY <1>2 DEF PostgresInv, CallsOK
<1>4. \A r, q \in Sessions : r # q => Apart(tx'[r], tx'[q])
  <2>1. \A r \in Sessions \ {s} : Apart(tx[r], t)
    BY DEF Apart
  <2>2. \A r, q \in Sessions : r # q => Apart(tx[r], tx[q])
    BY DEF PostgresInv, CallsOK
  <2> QED BY <1>2, <2>1, <2>2
<1> QED BY <1>1, <1>2, <1>3, <1>4 DEF PostgresInv, CallsOK

\* A call that ends, or raises, leaves nothing of itself.
LEMMA RaiseKeeps == ASSUME PostgresInv, NEW s \in Sessions, Raise(s) PROVE PostgresInv'
<1>1. NoTx \in CallRecords
  BY NoCallTyped
<1>2. CallOK(NoTx) /\ BackedBy(db, NoTx) /\ \A r \in Sessions : Apart(NoTx, tx[r])
  BY NoLegs DEF CallOK, BackedBy, Apart, NoTx
<1> QED BY <1>1, <1>2, CallSteps DEF Raise

\* A call that goes on with the groups it has, at a place of its own, keeps
\* the invariant.
LEMMA GoesOn ==
  ASSUME PostgresInv, NEW s \in Sessions, tx[s].pc # "idle", NEW t \in CallRecords,
         t.key = tx[s].key, t.payload = tx[s].payload, t.groups = tx[s].groups,
         t.pc \notin {"idle", "accepting", "accepted", "claim", "legs"},
         t.legs = Legs(t.groups), t.pc = "group" => t.n \in DOMAIN GroupSeq,
         Step(s, t)
  PROVE  PostgresInv'
<1>1. CallOK(tx[s]) /\ BackedBy(db, tx[s]) /\ \A r \in Sessions \ {s} : Apart(tx[s], tx[r])
  BY DEF PostgresInv, CallsOK
<1>2. CallOK(t)
  BY <1>1 DEF CallOK
<1>3. BackedBy(db, t)
  BY <1>1 DEF BackedBy
<1>4. \A r \in Sessions \ {s} : Apart(t, tx[r])
  BY <1>1 DEF Apart
<1> QED BY <1>2, <1>3, <1>4, CallSteps

\* The record of a call in progress.
LEMMA InCall ==
  ASSUME PostgresInv, NEW s \in Sessions
  PROVE  /\ tx[s] \in CallRecords /\ CallOK(tx[s]) /\ BackedBy(db, tx[s])
         /\ tx[s].pc # "idle" => tx[s].key \in Keys /\ tx[s].payload \in Payloads
         /\ tx[s].groups \in SUBSET Groups /\ tx[s].legs \in SUBSET EffectIds
         /\ \A r \in Sessions \ {s} : Apart(tx[s], tx[r])
BY DEF PostgresInv, CallsOK, CallRecords, CallOK

\* A call at another session, at a place of its own, is one of the others.
LEMMA InOthers ==
  ASSUME NEW s \in Sessions, NEW r \in Sessions \ {s}, tx[r].pc # "idle", tx[r].key = tx[s].key
  PROVE  r \in Others(s) /\ r \in SameKey(s)
BY DEF Others, SameKey

\* accept_'s first statements keep the invariant.
LEMMA AcceptKeeps ==
  ASSUME TemporalPlan, PostgresInv, NEW s \in Sessions, NEW k \in Keys, NEW p \in Groups,
         NEW payload \in Payloads, NEW obs, Accept(s, k, p, payload, obs)
  PROVE  PostgresInv'
<1>1. CASE Raise(s)
  BY <1>1, RaiseKeeps
<1>2. CASE ~Raise(s)
  <2> DEFINE n == CHOOSE n \in DOMAIN GroupSeq : GroupSeq[n] = p
             t == [NoTx EXCEPT !.pc = "accepting", !.key = k, !.payload = payload, !.n = n]
  <2>1. n \in DOMAIN GroupSeq /\ n \in Int
    BY GroupSeqLists
  <2>2. Step(s, t)
    BY <1>2 DEF Accept
  <2> HIDE DEF n
  <2>3. t \in CallRecords
    BY <2>1 DEF NoTx, CallRecords, CallPlaces
  <2>4. CallOK(t) /\ BackedBy(db, t) /\ \A r \in Sessions : Apart(t, tx[r])
    BY <2>1, NoLegs DEF CallOK, BackedBy, Apart, NoTx
  <2> HIDE DEF t
  <2> QED BY <2>2, <2>3, <2>4, CallSteps
<1> QED BY <1>1, <1>2

\* The acceptance row is inserted only where no row is, committed or not.
LEMMA AcceptInsertKeeps ==
  ASSUME PostgresInv, NEW s \in Sessions, AcceptInsert(s)
  PROVE  PostgresInv'
<1>1. CASE Raise(s)
  BY <1>1, RaiseKeeps
<1>2. CASE ~Raise(s)
  <2> DEFINE t == [tx[s] EXCEPT !.pc = "accepted"]
  <2>1. tx[s] \in CallRecords /\ CallOK(tx[s]) /\ BackedBy(db, tx[s])
        /\ \A r \in Sessions \ {s} : Apart(tx[s], tx[r])
    BY InCall
  <2>2. Step(s, t) /\ tx[s].pc = "accepting" /\ db.accepted[tx[s].key][Group(s)] = NoClaim
    BY <1>2 DEF AcceptInsert, GoTo, At
  <2>3. t \in CallRecords /\ t.pc = "accepted" /\ t.key = tx[s].key /\ t.n = tx[s].n
        /\ t.groups = tx[s].groups /\ t.legs = tx[s].legs /\ t.payload = tx[s].payload
    BY <2>1 DEF CallRecords, CallPlaces
  <2> HIDE DEF t
  <2>4. CallOK(t)
    BY <2>1, <2>2, <2>3 DEF CallOK
  <2>5. BackedBy(db, t)
    BY <2>1, <2>2, <2>3 DEF BackedBy, CallOK, Group
  <2>6. ASSUME NEW r \in Sessions \ {s} PROVE Apart(t, tx[r])
    <3>1. tx[r].key = tx[s].key /\ tx[r].pc = "accepted" => tx[r].n # tx[s].n
      BY InOthers DEF AcceptInsert, At
    <3> QED BY <2>1, <2>3, <3>1 DEF Apart
  <2> QED BY <2>2, <2>3, <2>4, <2>5, <2>6, CallSteps
<1> QED BY <1>1, <1>2

\* execute_ starts with nothing of its own.
LEMMA ExecuteKeeps ==
  ASSUME PostgresInv, NEW s \in Sessions, NEW k \in Keys, NEW payload \in Payloads,
         Execute(s, k, payload)
  PROVE  PostgresInv'
<1>1. CASE Raise(s)
  BY <1>1, RaiseKeeps
<1>2. CASE ~Raise(s)
  <2> DEFINE t == [NoTx EXCEPT !.pc = "claim", !.key = k, !.payload = payload]
  <2>1. Step(s, t)
    BY <1>2 DEF Execute
  <2>2. NoTx \in CallRecords
    BY NoCallTyped
  <2>3. t \in CallRecords
    BY <2>2 DEF CallRecords, CallPlaces
  <2>4. CallOK(t) /\ BackedBy(db, t) /\ \A r \in Sessions : Apart(t, tx[r])
    BY NoLegs DEF CallOK, BackedBy, Apart, NoTx
  <2> HIDE DEF t
  <2> QED BY <2>1, <2>3, <2>4, CallSteps
<1> QED BY <1>1, <1>2

\* The call goes on to the first group, if there is one.
LEMMA ClaimCheckKeeps ==
  ASSUME TemporalPlan, PostgresInv, NEW s \in Sessions, ClaimCheck(s)
  PROVE  PostgresInv'
<1>1. CASE Raise(s)
  BY <1>1, RaiseKeeps
<1>2. CASE ~Raise(s)
  <2> DEFINE t == [tx[s] EXCEPT !.pc = "group", !.n = 1, !.sawClaim = db.claim[tx[s].key]]
  <2>1. tx[s] \in CallRecords /\ CallOK(tx[s]) /\ tx[s].pc = "claim" /\ tx[s].key \in Keys
    BY InCall DEF ClaimCheck, At
  <2>2. Step(s, t)
    BY <1>2 DEF ClaimCheck
  <2>3. db.claim[tx[s].key] \in Claims \cup {NoClaim}
    BY <2>1 DEF PostgresInv, TablesOK, Tables
  <2>4. /\ t \in CallRecords /\ t.pc = "group" /\ t.key = tx[s].key /\ t.n = 1
        /\ t.groups = tx[s].groups /\ t.legs = tx[s].legs /\ t.payload = tx[s].payload
    <3>1. 1 \in Int
      OBVIOUS
    <3> DEFINE c == db.claim[tx[s].key]  n == 1
    <3> HIDE DEF c, n
    <3>2. LET u == [tx[s] EXCEPT !.pc = "group", !.n = n, !.sawClaim = c]
          IN  /\ u \in CallRecords /\ u.pc = "group" /\ u.key = tx[s].key /\ u.n = n
              /\ u.groups = tx[s].groups /\ u.legs = tx[s].legs /\ u.payload = tx[s].payload
      BY <2>1, <2>3, <3>1 DEF CallRecords, CallPlaces, c, n
    <3> QED BY <3>2 DEF c, n
  <2>5. 1 \in DOMAIN GroupSeq
    <3>1. Effects[1].guard \in Groups
      BY EffectIdsInterval DEF TemporalPlan, Groups, EffectIds
    <3> QED BY <3>1, GroupSeqLists
  <2> HIDE DEF t
  <2> QED BY <2>1, <2>2, <2>4, <2>5, GoesOn DEF CallOK
<1> QED BY <1>1, <1>2

\* After the group a call is at comes the next one, or the pin.
LEMMA NextGroupFollows ==
  ASSUME NEW t \in CallRecords, t.n \in DOMAIN GroupSeq
  PROVE  LET u == NextGroup(t)
         IN  /\ u \in CallRecords /\ u.pc \in {"group", "pin"}
             /\ u.pc = "group" => u.n \in DOMAIN GroupSeq /\ u.n = t.n + 1
             /\ u.key = t.key /\ u.payload = t.payload
             /\ u.groups = t.groups /\ u.legs = t.legs
             /\ u.sawClaim = t.sawClaim /\ u.pin = t.pin /\ u.recon = t.recon
<1>1. Len(GroupSeq) \in Nat /\ t.n \in 1 .. Len(GroupSeq)
  BY GroupSeqLists
<1>2. CASE t.n = Len(GroupSeq)
  BY <1>1, <1>2 DEF NextGroup, CallRecords, CallPlaces
<1>3. CASE t.n # Len(GroupSeq)
  <2>1. NextGroup(t) = [t EXCEPT !.pc = "group", !.n = t.n + 1]
    BY <1>3 DEF NextGroup
  <2>2. t.n + 1 \in DOMAIN GroupSeq /\ t.n + 1 \in Int
    BY <1>1, <1>3, GroupSeqLists
  <2> QED BY <2>1, <2>2 DEF CallRecords, CallPlaces
<1> QED BY <1>2, <1>3

\* A group whose predicate holds is entered, any other is passed.
LEMMA GroupGuardKeeps ==
  ASSUME PostgresInv, NEW s \in Sessions, GroupGuard(s)
  PROVE  PostgresInv'
<1>1. /\ tx[s] \in CallRecords /\ CallOK(tx[s]) /\ BackedBy(db, tx[s])
      /\ tx[s].pc = "group" /\ \A r \in Sessions \ {s} : Apart(tx[s], tx[r])
  BY InCall DEF GroupGuard, At
<1>2. tx[s].n \in DOMAIN GroupSeq /\ tx[s].legs = Legs(tx[s].groups)
  BY <1>1 DEF CallOK
<1>3. CASE GroupHolds(s)
  <2> DEFINE t == [tx[s] EXCEPT !.pc = "legs"]
  <2>1. Step(s, t)
    BY <1>3 DEF GroupGuard, GoTo
  <2>2. /\ t \in CallRecords /\ t.pc = "legs" /\ t.key = tx[s].key /\ t.n = tx[s].n
        /\ t.groups = tx[s].groups /\ t.legs = tx[s].legs /\ t.payload = tx[s].payload
    BY <1>1 DEF CallRecords, CallPlaces
  <2> HIDE DEF t
  <2>3. Legs(t.groups) \subseteq Legs(t.groups \cup {GroupSeq[t.n]})
    BY DEF Legs
  <2>4. CallOK(t)
    BY <1>1, <1>2, <2>2, <2>3 DEF CallOK
  <2>5. BackedBy(db, t)
    BY <1>1, <1>3, <2>2 DEF BackedBy, GroupHolds, Group, TxClaim
  <2>6. \A r \in Sessions \ {s} : Apart(t, tx[r])
    BY <1>1, <2>2 DEF Apart
  <2> QED BY <2>1, <2>2, <2>4, <2>5, <2>6, CallSteps
<1>4. CASE ~GroupHolds(s)
  <2> DEFINE t == NextGroup(tx[s])
  <2>1. Step(s, t)
    BY <1>4 DEF GroupGuard
  <2>2. /\ t \in CallRecords /\ t.pc \in {"group", "pin"} /\ t.key = tx[s].key
        /\ t.payload = tx[s].payload /\ t.groups = tx[s].groups /\ t.legs = tx[s].legs
        /\ t.pc = "group" => t.n \in DOMAIN GroupSeq
    BY <1>1, <1>2, NextGroupFollows
  <2> HIDE DEF t
  <2> QED BY <1>1, <1>2, <2>1, <2>2, GoesOn
<1> QED BY <1>3, <1>4

\* The next posting is one of the group's that is not made yet.
LEMMA NextPosting ==
  ASSUME NEW s \in Sessions, Unposted(s) # {}
  PROVE  Min(Unposted(s)) \in Unposted(s)
<1>1. Unposted(s) \in SUBSET Nat
  BY EffectIdsInterval DEF Unposted, Legs
<1>2. PICK x \in Unposted(s) : \A y \in Unposted(s) : x <= y
  BY <1>1, LeastExists
<1> QED BY <1>2 DEF Min

\* A posting is one of the group the call is at.
LEMMA PostLegKeeps ==
  ASSUME PostgresInv, NEW s \in Sessions, PostLeg(s)
  PROVE  PostgresInv'
<1>1. CASE Raise(s)
  BY <1>1, RaiseKeeps
<1>2. CASE ~Raise(s)
  <2> DEFINE i == Min(Unposted(s))
             t == [tx[s] EXCEPT !.legs = @ \cup {i}]
  <2>1. /\ tx[s] \in CallRecords /\ CallOK(tx[s]) /\ BackedBy(db, tx[s])
        /\ tx[s].pc = "legs" /\ \A r \in Sessions \ {s} : Apart(tx[s], tx[r])
    BY InCall DEF PostLeg, At
  <2>2. Step(s, t) /\ i \in Legs({Group(s)}) /\ i \in EffectIds
    BY <1>2, NextPosting DEF PostLeg, Unposted, Legs
  <2> HIDE DEF i
  <2>3. /\ t \in CallRecords /\ t.pc = "legs" /\ t.key = tx[s].key /\ t.n = tx[s].n
        /\ t.groups = tx[s].groups /\ t.legs = tx[s].legs \cup {i} /\ t.payload = tx[s].payload
    BY <2>1, <2>2 DEF CallRecords, CallPlaces
  <2> HIDE DEF t
  <2>4. i \in Legs(t.groups \cup {GroupSeq[t.n]})
    BY <2>2, <2>3 DEF Legs, Group
  <2>5. CallOK(t)
    BY <2>1, <2>3, <2>4 DEF CallOK
  <2>6. BackedBy(db, t) /\ \A r \in Sessions \ {s} : Apart(t, tx[r])
    BY <2>1, <2>3 DEF BackedBy, Apart
  <2> QED BY <2>2, <2>3, <2>5, <2>6, CallSteps
<1> QED BY <1>1, <1>2

\* A group's row is inserted once its legs are posted, and only where no row
\* is, committed or not.
LEMMA InsertGroupKeeps ==
  ASSUME PostgresInv, NEW s \in Sessions, InsertGroup(s)
  PROVE  PostgresInv'
<1>1. CASE Raise(s)
  BY <1>1, RaiseKeeps
<1>2. CASE ~Raise(s)
  <2> DEFINE g == Group(s)
             v == [tx[s] EXCEPT !.groups = @ \cup {g}]
             t == NextGroup(v)
  <2>1. /\ tx[s] \in CallRecords /\ CallOK(tx[s]) /\ BackedBy(db, tx[s])
        /\ tx[s].pc = "legs" /\ \A r \in Sessions \ {s} : Apart(tx[s], tx[r])
    BY InCall DEF InsertGroup, At
  <2>2. Step(s, t) /\ g \notin db.groups[tx[s].key] /\ Legs({g}) \subseteq tx[s].legs
    BY <1>2 DEF InsertGroup, Unposted
  <2>3. tx[s].n \in DOMAIN GroupSeq /\ g \in Groups
    BY <2>1, GroupSeqLists DEF CallOK, Group
  <2>4. /\ v \in CallRecords /\ v.key = tx[s].key /\ v.n = tx[s].n
        /\ v.groups = tx[s].groups \cup {g} /\ v.legs = tx[s].legs /\ v.payload = tx[s].payload
    BY <2>1, <2>3 DEF CallRecords
  <2> HIDE DEF v
  <2>5. /\ t \in CallRecords /\ t.pc \in {"group", "pin"} /\ t.key = tx[s].key
        /\ t.payload = tx[s].payload /\ t.groups = tx[s].groups \cup {g}
        /\ t.legs = tx[s].legs
        /\ t.pc = "group" => t.n \in DOMAIN GroupSeq
    BY <2>3, <2>4, NextGroupFollows
  <2> HIDE DEF t
  <2>6. t.legs = Legs(t.groups)
    <3>1. /\ Legs(tx[s].groups) \subseteq tx[s].legs
          /\ tx[s].legs \subseteq Legs(tx[s].groups \cup {g})
      BY <2>1 DEF CallOK, Group
    <3>2. Legs(tx[s].groups \cup {g}) = Legs(tx[s].groups) \cup Legs({g})
      BY DEF Legs
    <3> QED BY <2>2, <2>5, <3>1, <3>2
  <2>7. CallOK(t)
    BY <2>1, <2>5, <2>6 DEF CallOK
  <2>8. BackedBy(db, t)
    BY <2>1, <2>2, <2>5 DEF BackedBy, Group
  <2>9. ASSUME NEW r \in Sessions \ {s} PROVE Apart(t, tx[r])
    <3>1. tx[r].key = tx[s].key /\ tx[r].pc # "idle" => g \notin tx[r].groups
      BY InOthers DEF InsertGroup
    <3>2. tx[r].pc = "idle" => tx[r].groups = {}
      <4>1. CallOK(tx[r])
        BY InCall
      <4>2. NoTx.groups = {}
        BY DEF NoTx
      <4> QED BY <4>1, <4>2 DEF CallOK
    <3> QED BY <2>1, <2>5, <3>1, <3>2 DEF Apart
  <2> QED BY <2>2, <2>5, <2>7, <2>8, <2>9, CallSteps
<1> QED BY <1>1, <1>2

\* The statements after the groups' leave the call's rows as they are.
LEMMA LaterStatementsKeep ==
  ASSUME PostgresInv, NEW s \in Sessions,
         PinCheck(s) \/ InsertClaim(s) \/ DoneCheck(s) \/ BalanceCheck(s) \/ StatusWrite(s)
  PROVE  PostgresInv'
<1> DEFINE Later == {"pin", "pinning", "done", "balance", "status", "commit"}
<1>1. CASE Raise(s)
  BY <1>1, RaiseKeeps
<1>2. ASSUME ~Raise(s)
      PROVE  /\ tx[s].pc \in Later
             /\ \E pc \in Later, saw \in SUBSET Groups, pin, recon \in BOOLEAN :
                  Step(s, [tx[s] EXCEPT !.pc = pc, !.sawGroups = saw, !.pin = pin, !.recon = recon])
  <2> DEFINE R(pc, saw, pin, recon) ==
               [tx[s] EXCEPT !.pc = pc, !.sawGroups = saw, !.pin = pin, !.recon = recon]
             u == tx[s]
  <2> SUFFICES /\ u.pc \in Later
               /\ \E pc \in Later, saw \in SUBSET Groups, pin, recon \in BOOLEAN :
                    Step(s, R(pc, saw, pin, recon))
    OBVIOUS
  <2>1. u \in CallRecords
    BY InCall
  <2>2. CASE PinCheck(s)
    <3>1. PICK pc \in {"pinning", "done"} : Step(s, [tx[s] EXCEPT !.pc = pc])
      BY <2>2 DEF PinCheck, GoTo
    <3>2. [tx[s] EXCEPT !.pc = pc] = R(pc, u.sawGroups, u.pin, u.recon)
      BY <2>1 DEF CallRecords
    <3>3. u.sawGroups \in SUBSET Groups /\ u.pin \in BOOLEAN /\ u.recon \in BOOLEAN
      BY <2>1 DEF CallRecords
    <3>4. u.pc \in Later
      BY <2>2 DEF PinCheck, At
    <3>5. Step(s, R(pc, u.sawGroups, u.pin, u.recon))
      BY <3>1, <3>2
    <3> HIDE DEF R, u, Later
    <3>6. {"pinning", "done", "commit", "balance", "status"} \subseteq Later
      BY DEF Later
    <3> QED BY <3>3, <3>4, <3>5, <3>6
  <2>3. CASE InsertClaim(s)
    <3>1. Step(s, [tx[s] EXCEPT !.pc = "done", !.pin = TRUE])
      BY <2>3, <1>2 DEF InsertClaim
    <3>2. [tx[s] EXCEPT !.pc = "done", !.pin = TRUE] = R("done", u.sawGroups, TRUE, u.recon)
      BY <2>1 DEF CallRecords
    <3>3. u.sawGroups \in SUBSET Groups /\ u.recon \in BOOLEAN
      BY <2>1 DEF CallRecords
    <3>4. u.pc \in Later
      BY <2>3 DEF InsertClaim, At
    <3>5. Step(s, R("done", u.sawGroups, TRUE, u.recon))
      BY <3>1, <3>2
    <3> HIDE DEF R, u, Later
    <3>6. {"pinning", "done", "commit", "balance", "status"} \subseteq Later
      BY DEF Later
    <3> QED BY <3>3, <3>4, <3>5, <3>6
  <2>4. CASE DoneCheck(s)
    <3> DEFINE saw == db.groups[u.key]
    <3>1. PICK pc \in {"commit", "balance", "status"} :
            Step(s, [tx[s] EXCEPT !.sawGroups = saw, !.pc = pc])
      BY <2>4 DEF DoneCheck
    <3>2. saw \in SUBSET Groups /\ u.pin \in BOOLEAN /\ u.recon \in BOOLEAN
      <4>1. u.key \in Keys
        BY <2>4, InCall DEF DoneCheck, At
      <4> QED BY <2>1, <4>1 DEF CallRecords, PostgresInv, TablesOK, Tables
    <3> HIDE DEF saw
    <3>3. [tx[s] EXCEPT !.sawGroups = saw, !.pc = pc] = R(pc, saw, u.pin, u.recon)
      BY <2>1 DEF CallRecords
    <3>4. u.pc \in Later
      BY <2>4 DEF DoneCheck, At
    <3>5. Step(s, R(pc, saw, u.pin, u.recon))
      BY <3>1, <3>3
    <3> HIDE DEF R, u, Later
    <3>6. {"pinning", "done", "commit", "balance", "status"} \subseteq Later
      BY DEF Later
    <3> QED BY <3>2, <3>4, <3>5, <3>6
  <2>5. CASE BalanceCheck(s)
    <3>1. Step(s, [tx[s] EXCEPT !.pc = "status"])
      BY <2>5, <1>2 DEF BalanceCheck, GoTo
    <3>2. [tx[s] EXCEPT !.pc = "status"] = R("status", u.sawGroups, u.pin, u.recon)
      BY <2>1 DEF CallRecords
    <3>3. u.sawGroups \in SUBSET Groups /\ u.pin \in BOOLEAN /\ u.recon \in BOOLEAN
      BY <2>1 DEF CallRecords
    <3>4. u.pc \in Later
      BY <2>5 DEF BalanceCheck, At
    <3>5. Step(s, R("status", u.sawGroups, u.pin, u.recon))
      BY <3>1, <3>2
    <3> HIDE DEF R, u, Later
    <3>6. {"pinning", "done", "commit", "balance", "status"} \subseteq Later
      BY DEF Later
    <3> QED BY <3>3, <3>4, <3>5, <3>6
  <2>6. CASE StatusWrite(s)
    <3>1. Step(s, [tx[s] EXCEPT !.pc = "commit", !.recon = TRUE])
      BY <2>6 DEF StatusWrite
    <3>2. [tx[s] EXCEPT !.pc = "commit", !.recon = TRUE] = R("commit", u.sawGroups, u.pin, TRUE)
      BY <2>1 DEF CallRecords
    <3>3. u.sawGroups \in SUBSET Groups /\ u.pin \in BOOLEAN
      BY <2>1 DEF CallRecords
    <3>4. u.pc \in Later
      BY <2>6 DEF StatusWrite, At
    <3>5. Step(s, R("commit", u.sawGroups, u.pin, TRUE))
      BY <3>1, <3>2
    <3> HIDE DEF R, u, Later
    <3>6. {"pinning", "done", "commit", "balance", "status"} \subseteq Later
      BY DEF Later
    <3> QED BY <3>3, <3>4, <3>5, <3>6
  <2> QED BY <2>2, <2>3, <2>4, <2>5, <2>6
<1>3. ASSUME tx[s].pc \in Later, NEW pc \in Later, NEW saw \in SUBSET Groups,
             NEW pin \in BOOLEAN, NEW recon \in BOOLEAN,
             Step(s, [tx[s] EXCEPT !.pc = pc, !.sawGroups = saw, !.pin = pin, !.recon = recon])
      PROVE  PostgresInv'
  <2> DEFINE t == [tx[s] EXCEPT !.pc = pc, !.sawGroups = saw, !.pin = pin, !.recon = recon]
  <2>1. tx[s] \in CallRecords /\ tx[s].legs = Legs(tx[s].groups)
    BY <1>3, InCall DEF CallOK
  <2>2. /\ t \in CallRecords /\ t.pc = pc /\ t.key = tx[s].key
        /\ t.groups = tx[s].groups /\ t.legs = tx[s].legs /\ t.payload = tx[s].payload
    <3> DEFINE u == tx[s]
    <3>1. pc \in CallPlaces
      BY DEF CallPlaces
    <3> HIDE DEF u, CallPlaces
    <3>2. u \in CallRecords /\ t = [u EXCEPT !.pc = pc, !.sawGroups = saw, !.pin = pin, !.recon = recon]
      BY <2>1 DEF u
    <3> HIDE DEF t
    <3>3. /\ t \in CallRecords /\ t.pc = pc /\ t.key = u.key
          /\ t.groups = u.groups /\ t.legs = u.legs /\ t.payload = u.payload
      BY <1>3, <3>1, <3>2 DEF CallRecords
    <3> QED BY <3>3 DEF u
  <2>3. Step(s, t)
    BY <1>3
  <2> HIDE DEF t
  <2> QED BY <1>3, <2>1, <2>2, <2>3, GoesOn
<1> QED BY <1>1, <1>2, <1>3

-----------------------------------------------------------------------------
(* Bags of rows                                                            *)

\* The rows that legs L leave for one call.
RowsFor(k, p, L) == {<<k, p, i>> : i \in L}

\* A set as a bag has each of its members once.
LEMMA BagOfSet ==
  ASSUME NEW D
  PROVE  DOMAIN SetToBag(D) = D /\ \A e \in D : SetToBag(D)[e] = 1
BY DEF SetToBag

\* Rows that are not there yet are added once.
LEMMA BagGrows ==
  ASSUME NEW D, NEW N, D \cap N = {}
  PROVE  SetToBag(D) (+) SetToBag(N) = SetToBag(D \cup N)
<1>1. DOMAIN SetToBag(D) = D /\ DOMAIN SetToBag(N) = N
  BY BagOfSet
<1>2. SetToBag(D) (+) SetToBag(N) =
        [e \in D \cup N |-> (IF e \in D THEN 1 ELSE 0) + (IF e \in N THEN 1 ELSE 0)]
  BY <1>1, BagOfSet DEF (+)
<1>3. \A e \in D \cup N : (IF e \in D THEN 1 ELSE 0) + (IF e \in N THEN 1 ELSE 0) = 1
  OBVIOUS
<1> QED BY <1>2, <1>3 DEF SetToBag

\* Finitely many legs leave finitely many rows, and no two leave the same.
LEMMA RowsForFinite ==
  ASSUME NEW k, NEW p, NEW L, IsFiniteSet(L)
  PROVE  IsFiniteSet(RowsFor(k, p, L))
<1> DEFINE f == [i \in L |-> <<k, p, i>>]
<1>1. f \in Surjection(L, RowsFor(k, p, L))
  BY DEF Surjection, RowsFor
<1> HIDE DEF f
<1> QED BY <1>1, FS_Surjection

\* What a call's rows add up to is what its legs do.
LEMMA SumOfRows ==
  ASSUME NEW f, NEW d, NEW L, IsFiniteSet(L), NEW k, NEW p,
         \A i \in L : f[<<k, p, i>>] \in Int /\ f[<<k, p, i>>] = d[i]
  PROVE  SumFunctionOnSet(f, RowsFor(k, p, L)) = SumFunctionOnSet(d, L)
<1> DEFINE G == {T \in SUBSET L : SumFunctionOnSet(f, RowsFor(k, p, T)) = SumFunctionOnSet(d, T)}
<1>1. ASSUME NEW T \in SUBSET L, \A V \in SUBSET T : V # T => V \in G
      PROVE  T \in G
  <2>1. IsFiniteSet(T)
    BY FS_Subset
  <2>2. CASE T = {}
    <3>1. RowsFor(k, p, T) = {}
      BY <2>2 DEF RowsFor
    <3> QED BY <2>2, <3>1, SumEmpty
  <2>3. CASE T # {}
    <3> DEFINE j == Pick(T)
               R == RowsFor(k, p, T)
               e == <<k, p, j>>
    <3>1. T \ {j} \in G /\ j \in T /\ j \in L
      BY <1>1, <2>3, PickIn
    <3>2. SumFunctionOnSet(d, T) = d[j] + SumFunctionOnSet(d, T \ {j})
      BY <2>1, <2>3, SumRecursion
    <3> HIDE DEF j
    <3>3. e \in R /\ R \ {e} = RowsFor(k, p, T \ {j})
      BY <3>1 DEF RowsFor
    <3>4. IsFiniteSet(R)
      BY <2>1, RowsForFinite
    <3>5. \A x \in R : f[x] \in Int
      BY DEF RowsFor
    <3>6. f[e] = d[j]
      BY <3>1
    <3>8. SumFunctionOnSet(f, RowsFor(k, p, T \ {j})) = SumFunctionOnSet(d, T \ {j})
      BY <3>1
    <3> HIDE DEF R, e, G
    <3>7. SumFunctionOnSet(f, R) = f[e] + SumFunctionOnSet(f, R \ {e})
      BY <3>3, <3>4, <3>5, SumTakesOut
    <3>9. SumFunctionOnSet(f, R) = SumFunctionOnSet(d, T)
      BY <3>2, <3>3, <3>6, <3>7, <3>8
    <3> QED BY <3>9 DEF G, R
  <2> QED BY <2>2, <2>3
<1>2. G \in SUBSET (SUBSET L)
  OBVIOUS
<1> HIDE DEF G
<1>3. L \in G
  BY <1>1, <1>2, SizeInduction
<1> QED BY <1>3 DEF G
-----------------------------------------------------------------------------
(* A commit                                                                *)

\* A commit ends its call; what the tables then say of the others suffices.
LEMMA CommitFrames ==
  ASSUME PostgresInv, NEW s \in Sessions, tx' = [tx EXCEPT ![s] = NoTx], TablesOK(db'),
         \A r \in Sessions \ {s} : BackedBy(db', tx[r])
  PROVE  PostgresInv'
<1>1. NoTx \in CallRecords
  BY NoCallTyped
<1>2. CallOK(NoTx) /\ BackedBy(db', NoTx) /\ \A r \in Sessions : Apart(NoTx, tx[r]) /\ Apart(tx[r], NoTx)
  BY NoLegs DEF CallOK, BackedBy, Apart, NoTx
<1>3. tx \in [Sessions -> CallRecords]
  BY DEF PostgresInv, CallsOK
<1>4. tx' \in [Sessions -> CallRecords] /\ tx'[s] = NoTx /\ \A r \in Sessions \ {s} : tx'[r] = tx[r]
  BY <1>1, <1>3
<1>5. \A r \in Sessions : CallOK(tx'[r]) /\ BackedBy(db', tx'[r])
  BY <1>2, <1>4 DEF PostgresInv, CallsOK
<1>6. \A r, q \in Sessions : r # q => Apart(tx'[r], tx'[q])
  BY <1>2, <1>4 DEF PostgresInv, CallsOK
<1> QED BY <1>4, <1>5, <1>6 DEF PostgresInv, CallsOK

\* From d to e, policy g accepts c for key k and no other acceptance changes.
AcceptsOnly(d, e, k, g, c) ==
  /\ e.accepted[k][g] = c
  /\ \A x \in Keys, q \in Policies : x # k \/ q # g => e.accepted[x][q] = d.accepted[x][q]

\* An acceptance changes one row of one table.
LEMMA AcceptanceAdded ==
  ASSUME NEW d \in Tables, NEW k \in Keys, NEW g \in Policies, NEW c \in Claims, NEW e,
         e = [d EXCEPT !.accepted[k][g] = c]
  PROVE  /\ e \in Tables
         /\ e.postings = d.postings /\ e.groups = d.groups /\ e.ledger = d.ledger
         /\ AcceptsOnly(d, e, k, g, c)
<1> DEFINE A == [Keys -> [Policies -> Claims \cup {NoClaim}]]
           P == {SetToBag(D) : D \in {D \in SUBSET PostingRows : IsFiniteSet(D)}}
           L == [Accounts -> Int]
           C == [Keys -> Claims \cup {NoClaim}]
           a == [d.accepted EXCEPT ![k][g] = c]
<1>1. d.accepted \in A /\ e = [d EXCEPT !.accepted = a]
  BY DEF Tables
<1>2. a \in A /\ a[k][g] = c
      /\ \A x \in Keys, q \in Policies : x # k \/ q # g => a[x][q] = d.accepted[x][q]
  BY <1>1
<1>3. Tables = [ledger : L, postings : P, groups : [Keys -> SUBSET Groups], claim : C,
                reconciled : SUBSET Keys, accepted : A]
  BY DEF Tables
<1> HIDE DEF A, P, L, C, a
<1>4. e \in Tables /\ e.accepted = a
      /\ e.postings = d.postings /\ e.groups = d.groups /\ e.ledger = d.ledger
  BY <1>1, <1>2, <1>3
<1> QED BY <1>2, <1>4 DEF AcceptsOnly

\* The commit of accept_ adds an acceptance where there was none.
LEMMA AcceptedCommits ==
  ASSUME TemporalPlan, PostgresInv, NEW s \in Sessions, At(s, "accepted"), Commit(s)
  PROVE  PostgresInv'
<1> DEFINE t == tx[s]
           k == t.key
           g == Group(s)
           c == <<k, t.payload>>
<1>1. /\ CallOK(t) /\ BackedBy(db, t) /\ k \in Keys /\ t.payload \in Payloads
      /\ \A r \in Sessions \ {s} : Apart(t, tx[r])
  BY InCall DEF At
<1>2. t.n \in DOMAIN GroupSeq /\ g \in Groups /\ db.accepted[k][g] = NoClaim
  BY <1>1, GroupSeqLists DEF CallOK, BackedBy, Group, At
<1>3. g \in Policies /\ c \in Claims
  BY <1>1, <1>2 DEF TemporalPlan, Groups, IsAcceptedGuard, Claims
<1>4. /\ tx' = [tx EXCEPT ![s] = NoTx]
      /\ db' = [db EXCEPT !.accepted[k][g] = c]
  BY DEF Commit, At, TxClaim
<1>5. TablesOK(db)
  BY DEF PostgresInv
<1> HIDE DEF t, k, g, c
<1>6. /\ db' \in Tables
      /\ db'.postings = db.postings /\ db'.groups = db.groups /\ db'.ledger = db.ledger
      /\ AcceptsOnly(db, db', k, g, c)
  BY <1>1, <1>3, <1>4, <1>5, AcceptanceAdded DEF TablesOK
<1>7. /\ db'.accepted[k][g] = c
      /\ \A x \in Keys, q \in Policies : x # k \/ q # g => db'.accepted[x][q] = db.accepted[x][q]
  BY <1>6 DEF AcceptsOnly
<1>8. \A x \in Keys, q \in Groups : q \in Policies
  BY DEF TemporalPlan, Groups, IsAcceptedGuard
<1>9. RowsAreCommits(db') /\ LedgerIsRows(db')
  BY <1>5, <1>6 DEF TablesOK, RowsAreCommits, LedgerIsRows, RowsOn
<1>10. RowsAccepted(db')
  <2> SUFFICES ASSUME NEW e \in DOMAIN db.postings
               PROVE  db'.accepted[e[1]][Effects[e[3]].guard] = <<e[1], e[2]>>
    BY <1>6 DEF RowsAccepted
  <2>1. e[1] \in Keys /\ Effects[e[3]].guard \in Groups
    <3>1. e \in PostingRows
      BY <1>5, BagOfSet DEF TablesOK, Tables
    <3> QED BY <3>1 DEF PostingRows, Groups
  <2>2. db.accepted[e[1]][Effects[e[3]].guard] = <<e[1], e[2]>>
    BY <1>5 DEF TablesOK, RowsAccepted
  <2>3. e[1] # k \/ Effects[e[3]].guard # g
    BY <1>2, <2>2, PairIsNotEmpty
  <2> QED BY <1>7, <1>8, <2>1, <2>2, <2>3
<1>11. ASSUME NEW r \in Sessions \ {s} PROVE BackedBy(db', tx[r])
  <2> DEFINE u == tx[r]
  <2>1. /\ CallOK(u) /\ BackedBy(db, u) /\ Apart(t, u) /\ u.groups \in SUBSET Groups
        /\ u.pc # "idle" => u.key \in Keys
    BY InCall DEF t
  <2>2. u.groups # {} => u.pc # "idle"
    <3>1. NoTx.groups = {}
      BY DEF NoTx
    <3> QED BY <2>1, <3>1 DEF CallOK
  <2>3. ASSUME NEW h \in u.groups
        PROVE  h \notin db'.groups[u.key] /\ db'.accepted[u.key][h] = <<u.key, u.payload>>
    <3>1. h \notin db.groups[u.key] /\ db.accepted[u.key][h] = <<u.key, u.payload>>
      BY <2>1 DEF BackedBy
    <3>2. u.key \in Keys /\ h \in Groups
      BY <2>1, <2>2
    <3>3. u.key # k \/ h # g
      BY <1>2, <3>1, PairIsNotEmpty
    <3> QED BY <1>6, <1>7, <1>8, <3>1, <3>2, <3>3
  <2>4. ASSUME u.pc = "legs"
        PROVE  db'.accepted[u.key][GroupSeq[u.n]] = <<u.key, u.payload>>
    <3>1. db.accepted[u.key][GroupSeq[u.n]] = <<u.key, u.payload>>
      BY <2>1, <2>4 DEF BackedBy
    <3>2. u.key \in Keys /\ GroupSeq[u.n] \in Groups
      BY <2>1, <2>4, GroupSeqLists DEF CallOK
    <3>3. u.key # k \/ GroupSeq[u.n] # g
      BY <1>2, <3>1, PairIsNotEmpty
    <3> QED BY <1>7, <1>8, <3>1, <3>2, <3>3
  <2>5. ASSUME u.pc = "accepted"
        PROVE  db'.accepted[u.key][GroupSeq[u.n]] = NoClaim
    <3>1. db.accepted[u.key][GroupSeq[u.n]] = NoClaim
      BY <2>1, <2>5 DEF BackedBy
    <3>2. u.key \in Keys /\ u.n \in DOMAIN GroupSeq /\ GroupSeq[u.n] \in Groups
      BY <2>1, <2>5, GroupSeqLists DEF CallOK
    <3>3. u.key # k \/ u.n # t.n
      BY <2>1, <2>5 DEF Apart, At, t, k
    <3>4. u.key # k \/ GroupSeq[u.n] # g
      BY <1>2, <3>2, <3>3, GroupSeqLists DEF g, Group, t
    <3> QED BY <1>7, <1>8, <3>1, <3>2, <3>4
  <2> HIDE DEF u
  <2>6. BackedBy(db', u)
    BY <2>3, <2>4, <2>5 DEF BackedBy
  <2> QED BY <2>6 DEF u
<1> QED BY <1>4, <1>6, <1>9, <1>10, <1>11, CommitFrames DEF TablesOK

\* The tables after the commit of execute_: call t's rows are added.
Committed(d, t) ==
  [d EXCEPT !.ledger = Staged(@, t.legs, t.payload),
            !.postings = @ (+) SetToBag(RowsFor(t.key, t.payload, t.legs)),
            !.groups[t.key] = @ \cup t.groups,
            !.claim[t.key] = IF t.pin THEN <<t.key, t.payload>> ELSE @,
            !.reconciled = IF t.recon THEN @ \cup {t.key} ELSE @]

\* The tables a call commits to and the call it commits.
CanCommit(d, t) ==
  /\ TablesOK(d) /\ t \in CallRecords /\ CallOK(t) /\ BackedBy(d, t) /\ t.pc = "commit"

\* What each table is after a commit.
LEMMA CommittedTables ==
  ASSUME NEW d, NEW t, CanCommit(d, t), NEW e, e = Committed(d, t)
  PROVE  /\ t.key \in Keys /\ t.payload \in Payloads /\ t.legs \in SUBSET EffectIds
         /\ t.groups \in SUBSET Groups /\ t.legs = Legs(t.groups)
         /\ e.postings = d.postings (+) SetToBag(RowsFor(t.key, t.payload, t.legs))
         /\ e.ledger = Staged(d.ledger, t.legs, t.payload)
         /\ e.accepted = d.accepted
         /\ e.groups \in [Keys -> SUBSET Groups]
         /\ e.groups[t.key] = d.groups[t.key] \cup t.groups
         /\ \A k \in Keys \ {t.key} : e.groups[k] = d.groups[k]
         /\ e.claim \in [Keys -> Claims \cup {NoClaim}]
         /\ e.reconciled \in SUBSET Keys
         /\ e = [ledger |-> e.ledger, postings |-> e.postings, groups |-> e.groups,
                 claim |-> e.claim, reconciled |-> e.reconciled, accepted |-> e.accepted]
<1> DEFINE A == [Keys -> [Policies -> Claims \cup {NoClaim}]]
           P == {SetToBag(D) : D \in {D \in SUBSET PostingRows : IsFiniteSet(D)}}
           L == [Accounts -> Int]
           C == [Keys -> Claims \cup {NoClaim}]
           B == d.postings (+) SetToBag(RowsFor(t.key, t.payload, t.legs))
           S == Staged(d.ledger, t.legs, t.payload)
           g == [d.groups EXCEPT ![t.key] = @ \cup t.groups]
           c == [d.claim EXCEPT ![t.key] = IF t.pin THEN <<t.key, t.payload>> ELSE @]
           r == IF t.recon THEN d.reconciled \cup {t.key} ELSE d.reconciled
<1>1. /\ t.key \in Keys /\ t.payload \in Payloads /\ t.legs \in SUBSET EffectIds
      /\ t.groups \in SUBSET Groups /\ t.legs = Legs(t.groups)
  BY DEF CanCommit, CallOK, CallRecords
<1>2. d \in [ledger : L, postings : P, groups : [Keys -> SUBSET Groups], claim : C,
             reconciled : SUBSET Keys, accepted : A]
  BY DEF CanCommit, TablesOK, Tables
<1>3. e = [d EXCEPT !.ledger = S, !.postings = B, !.groups = g, !.claim = c, !.reconciled = r]
  BY DEF Committed
<1> HIDE DEF A, P, L, S, B
<1>4. g \in [Keys -> SUBSET Groups] /\ g[t.key] = d.groups[t.key] \cup t.groups
      /\ \A k \in Keys \ {t.key} : g[k] = d.groups[k]
  BY <1>1, <1>2
<1>5. c \in C
  <2>1. <<t.key, t.payload>> \in Claims /\ d.claim \in C
    BY <1>1, <1>2 DEF Claims
  <2> QED BY <1>1, <2>1
<1>6. r \in SUBSET Keys
  BY <1>1, <1>2
<1> HIDE DEF g, c, r, C
<1>7. /\ e.ledger = S /\ e.postings = B /\ e.groups = g /\ e.claim = c /\ e.reconciled = r
      /\ e.accepted = d.accepted
      /\ e = [ledger |-> e.ledger, postings |-> e.postings, groups |-> e.groups,
              claim |-> e.claim, reconciled |-> e.reconciled, accepted |-> e.accepted]
  BY <1>2, <1>3
<1> QED BY <1>1, <1>4, <1>5, <1>6, <1>7 DEF S, B, C

\* The rows a call adds are not there yet, so its commit adds each once.
LEMMA CommitAddsRows ==
  ASSUME NEW d, NEW t, CanCommit(d, t)
  PROVE  LET N == RowsFor(t.key, t.payload, t.legs)
             D == DOMAIN d.postings
         IN  /\ D \in SUBSET PostingRows /\ IsFiniteSet(D) /\ d.postings = SetToBag(D)
             /\ N \in SUBSET PostingRows /\ IsFiniteSet(N) /\ D \cap N = {}
             /\ Committed(d, t).postings = SetToBag(D \cup N)
<1> DEFINE N == RowsFor(t.key, t.payload, t.legs)
           D == DOMAIN d.postings
<1>1. /\ t.key \in Keys /\ t.payload \in Payloads /\ t.legs \in SUBSET EffectIds
      /\ t.legs = Legs(t.groups)
      /\ Committed(d, t).postings = d.postings (+) SetToBag(N)
  BY CommittedTables
<1>2. PICK E \in SUBSET PostingRows : IsFiniteSet(E) /\ d.postings = SetToBag(E)
  BY DEF CanCommit, TablesOK, Tables
<1>3. D = E
  BY <1>2, BagOfSet
<1>4. N \in SUBSET PostingRows /\ IsFiniteSet(N)
  <2>1. IsFiniteSet(t.legs)
    BY <1>1, LegsFinite
  <2>2. IsFiniteSet(N)
    BY <2>1, RowsForFinite
  <2>3. N \in SUBSET PostingRows
    BY <1>1 DEF RowsFor, PostingRows
  <2> QED BY <2>2, <2>3
<1>5. ASSUME NEW e \in N, e \in D PROVE FALSE
  <2>1. PICK i \in t.legs : e = <<t.key, t.payload, i>>
    BY DEF RowsFor
  <2>2. Effects[i].guard \in t.groups /\ i \in EffectIds
    BY <1>1, <2>1 DEF Legs
  <2>3. Effects[i].guard \in d.groups[t.key]
    BY <1>1, <1>5, <2>1, <2>2 DEF CanCommit, TablesOK, RowsAreCommits
  <2> QED BY <2>2, <2>3 DEF CanCommit, BackedBy
<1>6. D \cap N = {}
  BY <1>5
<1>7. SetToBag(D) (+) SetToBag(N) = SetToBag(D \cup N)
  BY <1>6, BagGrows
<1> QED BY <1>1, <1>2, <1>3, <1>4, <1>6, <1>7

\* After a commit a key's rows are still the legs of its committed groups.
LEMMA CommitKeepsRows ==
  ASSUME NEW d, NEW t, CanCommit(d, t), NEW e, e = Committed(d, t)
  PROVE  RowsAreCommits(e) /\ RowsAccepted(e)
<1> DEFINE N == RowsFor(t.key, t.payload, t.legs)
           D == DOMAIN d.postings
<1>1. /\ t.key \in Keys /\ t.payload \in Payloads /\ t.legs \in SUBSET EffectIds
      /\ t.legs = Legs(t.groups) /\ e.accepted = d.accepted
      /\ e.groups[t.key] = d.groups[t.key] \cup t.groups
      /\ \A k \in Keys \ {t.key} : e.groups[k] = d.groups[k]
  BY CommittedTables
<1>2. DOMAIN e.postings = D \cup N
  BY CommitAddsRows, BagOfSet
<1>3. \A i \in EffectIds : i \in t.legs <=> Effects[i].guard \in t.groups
  BY <1>1 DEF Legs
<1>4. \A k, p, i : <<k, p, i>> \in N <=> k = t.key /\ p = t.payload /\ i \in t.legs
  BY DEF RowsFor
<1>5. RowsAreCommits(d) /\ RowsAccepted(d)
  BY DEF CanCommit, TablesOK
<1> HIDE DEF N, D
<1>6. ASSUME NEW k \in Keys, NEW i \in EffectIds
      PROVE  Effects[i].guard \in e.groups[k] <=> \E p \in Payloads : <<k, p, i>> \in D \cup N
  <2>1. Effects[i].guard \in d.groups[k] <=> \E p \in Payloads : <<k, p, i>> \in D
    BY <1>5 DEF RowsAreCommits, D
  <2>2. CASE k = t.key
    <3>1. (\E p \in Payloads : <<k, p, i>> \in N) <=> Effects[i].guard \in t.groups
      BY <1>1, <1>3, <1>4, <2>2
    <3> QED BY <1>1, <2>1, <2>2, <3>1
  <2>3. CASE k # t.key
    BY <1>1, <1>4, <2>1, <2>3
  <2> QED BY <2>2, <2>3
<1>7. ASSUME NEW x \in D \cup N
      PROVE  e.accepted[x[1]][Effects[x[3]].guard] = <<x[1], x[2]>>
  <2>1. CASE x \in D
    BY <1>1, <1>5, <2>1 DEF RowsAccepted, D
  <2>2. CASE x \in N
    <3>1. PICK i \in t.legs : x = <<t.key, t.payload, i>>
      BY <2>2 DEF N, RowsFor
    <3>2. Effects[i].guard \in t.groups
      BY <1>1, <1>3, <3>1
    <3>3. d.accepted[t.key][Effects[i].guard] = <<t.key, t.payload>>
      BY <3>2 DEF CanCommit, BackedBy
    <3> QED BY <1>1, <3>1, <3>3
  <2> QED BY <2>1, <2>2
<1> QED BY <1>2, <1>6, <1>7 DEF RowsAreCommits, RowsAccepted

\* After a commit a balance is still the sum of its rows.
LEMMA CommitKeepsLedger ==
  ASSUME NEW d, NEW t, CanCommit(d, t), NEW e, e = Committed(d, t)
  PROVE  LedgerIsRows(e) /\ e.ledger \in [Accounts -> Int]
<1> DEFINE N == RowsFor(t.key, t.payload, t.legs)
           D == DOMAIN d.postings
           p == t.payload
<1>1. /\ t.key \in Keys /\ p \in Payloads /\ t.legs \in SUBSET EffectIds
      /\ e.ledger = Staged(d.ledger, t.legs, p)
  BY CommittedTables
<1>2. /\ D \in SUBSET PostingRows /\ IsFiniteSet(D) /\ d.postings = SetToBag(D)
      /\ N \in SUBSET PostingRows /\ IsFiniteSet(N) /\ D \cap N = {}
      /\ e.postings = SetToBag(D \cup N)
  BY CommitAddsRows
<1>3. d.ledger \in [Accounts -> Int] /\ LedgerIsRows(d)
  BY DEF CanCommit, TablesOK, Tables
<1>4. DOMAIN e.postings = D \cup N
  BY <1>2, BagOfSet
<1>5. \A x \in PostingRows : Delta(x[3], x[2]) \in Int
  BY EffectType DEF PostingRows
<1>6. /\ \A x \in D : Signed(d.postings)[x] = Delta(x[3], x[2])
      /\ \A x \in D \cup N : Signed(e.postings)[x] = Delta(x[3], x[2])
  <2>1. \A x \in D : d.postings[x] = 1 /\ x \in PostingRows
    BY <1>2, BagOfSet
  <2>2. \A x \in D \cup N : e.postings[x] = 1 /\ x \in PostingRows
    BY <1>2, BagOfSet
  <2> QED BY <1>4, <1>5, <2>1, <2>2 DEF Signed
<1>7. ASSUME NEW a \in Accounts
      PROVE  /\ e.ledger[a] = SumFunctionOnSet(Signed(e.postings), RowsOn(e, a))
             /\ e.ledger[a] \in Int
  <2> DEFINE L == LegsOn(t.legs, p, a)
             f == Signed(e.postings)
             M == RowsFor(t.key, p, L)
             O == RowsOn(d, a)
  <2>1. L \in SUBSET EffectIds /\ IsFiniteSet(L)
    BY <1>1, LegsFinite DEF LegsOn
  <2>2. RowsOn(e, a) = O \cup M
    <3>1. \A x \in N : x \in M <=> Account(x[3], x[2]) = a
      BY DEF RowsFor, LegsOn, Account
    <3>2. M \subseteq N
      BY DEF RowsFor, LegsOn
    <3> HIDE DEF N, M
    <3> QED BY <1>4, <3>1, <3>2 DEF RowsOn
  <2>3. O \subseteq D /\ M \subseteq N /\ IsFiniteSet(O) /\ IsFiniteSet(M) /\ O \cap M = {}
    <3>1. M \subseteq N
      BY DEF RowsFor, LegsOn
    <3>2. O \subseteq D
      BY DEF RowsOn
    <3> HIDE DEF N, M, D, O
    <3> QED BY <1>2, <3>1, <3>2, FS_Subset
  <2>4. \A x \in O \cup M : f[x] \in Int
    <3>1. \A x \in O \cup M : x \in D \cup N /\ x \in PostingRows
      <4> HIDE DEF O, M, D, N
      <4> QED BY <1>2, <2>3
    <3> HIDE DEF O, M, D, N, f
    <3> QED BY <1>5, <1>6, <3>1 DEF f
  <2>5. SumFunctionOnSet(f, O) = d.ledger[a]
    <3>1. \A x \in O : f[x] = Signed(d.postings)[x]
      BY <1>6, <2>3
    <3> HIDE DEF f, O
    <3>2. SumFunctionOnSet(f, O) = SumFunctionOnSet(Signed(d.postings), O)
      BY <2>3, <3>1, SumAgrees
    <3> QED BY <1>3, <3>2 DEF LedgerIsRows, O
  <2>6. SumFunctionOnSet(f, M) = SumFunctionOnSet(Deltas(p), L)
    <3>1. ASSUME NEW i \in L
          PROVE  /\ f[<<t.key, p, i>>] \in Int
                 /\ f[<<t.key, p, i>>] = Deltas(p)[i]
      <4> DEFINE x == <<t.key, p, i>>
      <4>1. x \in M /\ i \in EffectIds
        BY <2>1 DEF RowsFor
      <4> HIDE DEF f, M, N, D, L
      <4>2. f[x] = Delta(i, p) /\ f[x] \in Int
        BY <1>6, <2>3, <2>4, <4>1 DEF f
      <4> QED BY <4>1, <4>2 DEF Deltas
    <3> HIDE DEF f, L
    <3> QED BY <2>1, <3>1, SumOfRows
  <2>7. SumFunctionOnSet(f, O \cup M) = SumFunctionOnSet(f, O) + SumFunctionOnSet(f, M)
    <3> HIDE DEF f, O, M
    <3> QED BY <2>3, <2>4, SumSplits
  <2>8. \A i \in L : Deltas(p)[i] \in Int
    BY <1>1, <2>1, EffectType DEF Deltas
  <2>9. SumFunctionOnSet(Deltas(p), L) \in Int /\ (L = {} => SumFunctionOnSet(Deltas(p), L) = 0)
    <3> HIDE DEF L
    <3> QED BY <2>1, <2>8, SumInt, SumEmpty
  <2>10. e.ledger[a] = IF L = {} THEN d.ledger[a]
                       ELSE d.ledger[a] + SumFunctionOnSet(Deltas(p), L)
    BY <1>1 DEF Staged
  <2>11. d.ledger[a] \in Int
    BY <1>3
  <2> HIDE DEF L, M, O, f
  <2>12. e.ledger[a] = SumFunctionOnSet(f, O \cup M) /\ e.ledger[a] \in Int
    BY <2>5, <2>6, <2>7, <2>9, <2>10, <2>11
  <2> QED BY <2>2, <2>12 DEF f
<1>8. DOMAIN e.ledger = Accounts /\ e.ledger = [a \in Accounts |-> e.ledger[a]]
  BY <1>1 DEF Staged
<1> QED BY <1>7, <1>8 DEF LedgerIsRows

\* The commit of execute_ posts each leg of its groups once.
LEMMA ExecuteCommits ==
  ASSUME PostgresInv, NEW s \in Sessions, At(s, "commit"), Commit(s)
  PROVE  PostgresInv'
<1> DEFINE t == tx[s]
           d == db
           e == db'
<1>1. /\ t \in CallRecords /\ CallOK(t) /\ BackedBy(d, t) /\ t.pc = "commit"
      /\ \A r \in Sessions \ {s} : Apart(t, tx[r])
  BY InCall DEF At
<1>2. TablesOK(d)
  BY DEF PostgresInv
<1>3. CanCommit(d, t)
  BY <1>1, <1>2 DEF CanCommit
<1>4. tx' = [tx EXCEPT ![s] = NoTx] /\ e = Committed(d, t)
  BY DEF Commit, At, TxClaim, PostingBag, Committed, RowsFor
<1> HIDE DEF t, d, e
<1>5. /\ t.key \in Keys /\ e.accepted = d.accepted
      /\ e.groups \in [Keys -> SUBSET Groups]
      /\ e.groups[t.key] = d.groups[t.key] \cup t.groups
      /\ \A k \in Keys \ {t.key} : e.groups[k] = d.groups[k]
      /\ e.claim \in [Keys -> Claims \cup {NoClaim}]
      /\ e.reconciled \in SUBSET Keys
      /\ e = [ledger |-> e.ledger, postings |-> e.postings, groups |-> e.groups,
              claim |-> e.claim, reconciled |-> e.reconciled, accepted |-> e.accepted]
  BY <1>3, <1>4, CommittedTables
<1>6. /\ RowsAreCommits(e) /\ RowsAccepted(e) /\ LedgerIsRows(e)
      /\ e.ledger \in [Accounts -> Int]
  BY <1>3, <1>4, CommitKeepsRows, CommitKeepsLedger
<1>7. e.postings \in {SetToBag(D) : D \in {D \in SUBSET PostingRows : IsFiniteSet(D)}}
  <2> DEFINE N == RowsFor(t.key, t.payload, t.legs)
             D == DOMAIN d.postings
  <2>1. /\ D \in SUBSET PostingRows /\ IsFiniteSet(D) /\ N \in SUBSET PostingRows /\ IsFiniteSet(N)
        /\ e.postings = SetToBag(D \cup N)
    BY <1>3, <1>4, CommitAddsRows
  <2> HIDE DEF N, D
  <2>2. D \cup N \in SUBSET PostingRows /\ IsFiniteSet(D \cup N)
    BY <2>1, FS_Union
  <2> QED BY <2>1, <2>2
<1>8. e \in Tables
  <2> DEFINE P == {SetToBag(D) : D \in {D \in SUBSET PostingRows : IsFiniteSet(D)}}
             A == [Keys -> [Policies -> Claims \cup {NoClaim}]]
  <2>1. e.accepted \in A /\ e.postings \in P
    BY <1>2, <1>5, <1>7 DEF TablesOK, Tables
  <2>2. Tables = [ledger : [Accounts -> Int], postings : P, groups : [Keys -> SUBSET Groups],
                  claim : [Keys -> Claims \cup {NoClaim}], reconciled : SUBSET Keys,
                  accepted : A]
    BY DEF Tables
  <2> HIDE DEF P, A
  <2> QED BY <1>5, <1>6, <2>1, <2>2
<1>9. TablesOK(db')
  BY <1>6, <1>8 DEF TablesOK, e
<1>10. ASSUME NEW r \in Sessions \ {s} PROVE BackedBy(db', tx[r])
  <2> DEFINE u == tx[r]
  <2>1. BackedBy(d, u) /\ Apart(t, u) /\ CallOK(u)
    BY <1>1, InCall DEF d
  <2>2. u.groups # {} => u.key \in Keys
    <3>1. NoTx.groups = {}
      BY DEF NoTx
    <3> QED BY <2>1, <3>1 DEF CallOK
  <2> HIDE DEF u
  <2>3. \A h \in u.groups : h \notin e.groups[u.key]
    BY <1>5, <2>1, <2>2 DEF BackedBy, Apart
  <2>4. BackedBy(e, u)
    BY <1>5, <2>1, <2>3 DEF BackedBy
  <2> QED BY <2>4 DEF u, e
<1> QED BY <1>4, <1>9, <1>10, CommitFrames

\* Every step of every session keeps the invariant.
LEMMA PostgresStep ==
  ASSUME TemporalPlan, PostgresInv, [Next]_vars
  PROVE  PostgresInv'
<1>1. CASE UNCHANGED vars
  BY <1>1 DEF vars, PostgresInv, CallsOK
<1>2. ASSUME NEW s \in Sessions,
             NEW k \in Keys, NEW p \in Groups, NEW payload \in Payloads, NEW obs,
             Accept(s, k, p, payload, obs)
      PROVE  PostgresInv'
  BY <1>2, AcceptKeeps
<1>3. ASSUME NEW s \in Sessions, Commit(s) PROVE PostgresInv'
  BY <1>3, AcceptedCommits, ExecuteCommits DEF Commit
<1>4. ASSUME NEW s \in Sessions,
             \/ AcceptInsert(s)
             \/ \E k \in Keys, payload \in Payloads : Execute(s, k, payload)
             \/ ClaimCheck(s) \/ GroupGuard(s) \/ PostLeg(s) \/ InsertGroup(s)
      PROVE  PostgresInv'
  BY <1>4, AcceptInsertKeeps, ExecuteKeeps, ClaimCheckKeeps, GroupGuardKeeps, PostLegKeeps,
     InsertGroupKeeps
<1>5. ASSUME NEW s \in Sessions,
             \/ PinCheck(s) \/ InsertClaim(s) \/ DoneCheck(s) \/ BalanceCheck(s) \/ StatusWrite(s)
             \/ Rollback(s)
      PROVE  PostgresInv'
  BY <1>5, LaterStatementsKeep, RaiseKeeps DEF Rollback
<1> QED BY <1>1, <1>2, <1>3, <1>4, <1>5 DEF Next

\* What stands in the postings is what the invariant says of the tables.
LEMMA PostingsFollow == ASSUME TemporalPlan, PostgresInv PROVE PostingsAreEarned
<1>1. db \in Tables /\ RowsAreCommits(db) /\ LedgerIsRows(db) /\ RowsAccepted(db)
  BY DEF PostgresInv, TablesOK
<1>2. PICK D \in SUBSET PostingRows : IsFiniteSet(D) /\ db.postings = SetToBag(D)
  BY <1>1 DEF Tables
<1>3. DOMAIN db.postings = D /\ \A e \in D : db.postings[e] = 1
  BY <1>2, BagOfSet
<1>4. ASSUME NEW k \in Keys, NEW i \in EffectIds
      PROVE  SumFunctionOnSet(db.postings, {e \in DOMAIN db.postings : e[1] = k /\ e[3] = i})
               = IF Effects[i].guard \in db.groups[k] THEN 1 ELSE 0
  <2> DEFINE E == {e \in DOMAIN db.postings : e[1] = k /\ e[3] = i}
  <2>1. CASE Effects[i].guard \in db.groups[k]
    <3>1. PICK p \in Payloads : <<k, p, i>> \in D
      BY <1>1, <1>3, <2>1 DEF RowsAreCommits
    <3> DEFINE x == <<k, p, i>>
    <3>2. ASSUME NEW e \in E PROVE e = x
      <4>1. e \in PostingRows /\ e[1] = k /\ e[3] = i
        BY <1>3
      <4>2. <<e[1], e[2]>> = <<k, p>>
        BY <1>1, <1>3, <3>1 DEF RowsAccepted
      <4> QED BY <4>1, <4>2 DEF PostingRows
    <3>3. E = {x}
      BY <1>3, <3>1, <3>2
    <3> HIDE DEF x
    <3>4. IsFiniteSet({x}) /\ Cardinality({x}) = 1 /\ db.postings[x] = 1
      BY <1>3, <3>1, FS_Singleton DEF x
    <3>5. SumFunctionOnSet(db.postings, {x}) = 1 * 1
      BY <3>4, SumConstant
    <3>6. SumFunctionOnSet(db.postings, E) = 1
      <4> HIDE DEF E
      <4> QED BY <3>3, <3>5
    <3> QED BY <2>1, <3>6
  <2>2. CASE Effects[i].guard \notin db.groups[k]
    <3>1. ASSUME NEW e \in E PROVE FALSE
      <4>1. e \in PostingRows /\ e[1] = k /\ e[3] = i /\ e \in D
        BY <1>3
      <4>2. e = <<k, e[2], i>> /\ e[2] \in Payloads
        BY <4>1 DEF PostingRows
      <4> QED BY <1>1, <1>3, <2>2, <4>1, <4>2 DEF RowsAreCommits
    <3>2. E = {}
      BY <3>1
    <3> QED BY <2>2, <3>2, SumEmpty
  <2> QED BY <2>1, <2>2
<1>5. PostedOnce
  BY <1>1, <1>4 DEF PostedOnce, LedgerIsRows, RowsOn
<1> QED BY <1>1, <1>5 DEF PostingsAreEarned, PostedWasAccepted, RowsAccepted

\* Whatever calls race, fail, deadlock and are retried, at whatever statement:
\* every committed group has each of its legs once, every balance is the sum of
\* its postings, and each posting was accepted by its own policy for its claim.
THEOREM PostgresEarned == ASSUME TemporalPlan PROVE Spec => []PostingsAreEarned
<1>1. Init => PostgresInv
  BY PostgresStarts
<1>2. PostgresInv /\ [Next]_vars => PostgresInv'
  BY PostgresStep
<1>3. PostgresInv => PostingsAreEarned
  BY PostingsFollow
<1> QED BY <1>1, <1>2, <1>3, PTL DEF Spec

-----------------------------------------------------------------------------
(* The contract: quorums                                                   *)

GuardRecords ==
  [observers : SUBSET Signers, threshold : Int, cachedChain : Chains,
   accepted : [Keys -> SignedClaims \cup {NoClaim}], backed : [Keys -> BOOLEAN]]
GuardsOK == guards \in [Policies -> GuardRecords] /\ QuorumsAreReal

\* No signer is the address that a wrong digest recovers to.
LEMMA NobodySigns == ASSUME ContractPlan PROVE Nobody \notin Signers /\ Zero \notin Signers
<1> DEFINE S == {Zero} \cup Signers
<1>1. S \in SUBSET Nat /\ IsFiniteSet(S) /\ S # {}
  <2>1. IsFiniteSet({Zero}) /\ IsFiniteSet(Signers)
    BY FS_Singleton DEF ContractPlan
  <2>2. IsFiniteSet(S)
    BY <2>1, FS_Union
  <2>3. S \in SUBSET Nat /\ S # {}
    BY DEF ContractPlan, Zero
  <2> QED BY <2>2, <2>3
<1>2. \E x \in S : \A y \in S : x >= y
  BY <1>1, FiniteHasGreatest
<1> HIDE DEF S
<1>3. Max(S) \in S /\ \A y \in S : Max(S) >= y
  BY <1>2 DEF Max
<1>4. Signers \subseteq S /\ Zero \notin Signers
  BY DEF S, ContractPlan
<1>5. Nobody = 1 + Max(S)
  BY DEF Nobody, S
<1> DEFINE m == Max(S)
<1>6. m \in Nat /\ Nobody = 1 + m /\ \A y \in S : y \in Nat /\ m >= y
  BY <1>1, <1>3, <1>5
<1> HIDE DEF m
<1> QED BY <1>4, <1>6

\* The domain a guard hashes is that of the chain it runs on.
LEMMA DomainIsChain == ASSUME NEW q PROVE DomainSeparator(q) = chain
BY DEF DomainSeparator

\* A met quorum's signers strictly ascend, so there are as many as signatures.
LEMMA QuorumIsBacked ==
  ASSUME ContractPlan, GuardsOK, NEW q \in Policies, NEW k, NEW c, NEW sigs,
         NEW n \in Nat, DOMAIN sigs = 1 .. n, Len(sigs) = n,
         SignedQuorumMet(q, ClaimDigest(q, k, c), sigs)
  PROVE  Backed(q, k, c, sigs)
<1> DEFINE d == [chain |-> chain, guard |-> q, key |-> k, claim |-> c]
           R(i) == Recover(sigs[i], d)
           O == guards[q].observers
           B == {s \in O : \E i \in DOMAIN sigs : sigs[i].form # "bad-v" /\ sigs[i].signer = s
                                                  /\ sigs[i].digest = d}
<1>1. ClaimDigest(q, k, c) = d
  BY DomainIsChain DEF ClaimDigest
<1>2. /\ n >= guards[q].threshold
      /\ \A i \in 1 .. n : R(i) \in O /\ R(i) > (IF i = 1 THEN Zero ELSE R(i - 1))
  BY <1>1 DEF SignedQuorumMet
<1>3. O \subseteq Signers /\ IsFiniteSet(O) /\ O \subseteq Nat
  <2>1. O \subseteq Signers
    BY DEF GuardsOK, GuardRecords
  <2> QED BY <2>1, FS_Subset DEF ContractPlan
<1>4. ASSUME NEW i \in 1 .. n PROVE R(i) \in B
  <2>1. R(i) # Zero /\ R(i) # Nobody
    BY <1>2, <1>3, NobodySigns
  <2>2. sigs[i].form # "bad-v" /\ sigs[i].digest = d /\ R(i) = sigs[i].signer
    BY <2>1 DEF Recover
  <2> HIDE DEF R, d, O
  <2> QED BY <1>2, <2>2
<1> HIDE DEF R, d, O, B
<1>5. \A i, j \in 1 .. n : i < j => R(i) < R(j)
  <2> DEFINE G == {m \in Nat : \A i, j \in 1 .. n : i < j /\ j <= m => R(i) < R(j)}
  <2>1. 0 \in G
    OBVIOUS
  <2>2. ASSUME NEW m \in G PROVE m + 1 \in G
    <3> SUFFICES ASSUME NEW i \in 1 .. n, NEW j \in 1 .. n, i < j, j = m + 1 PROVE R(i) < R(j)
      OBVIOUS
    <3>1. m \in 1 .. n /\ R(j) > R(m) /\ j # 1
      BY <1>2
    <3>2. i = m \/ R(i) < R(m)
      BY <3>1
    <3>3. R(i) \in Nat /\ R(m) \in Nat /\ R(j) \in Nat
      BY <1>2, <1>3, <3>1
    <3> QED BY <3>1, <3>2, <3>3
  <2>3. G \in SUBSET Nat
    OBVIOUS
  <2> HIDE DEF G
  <2>4. G = Nat
    BY <2>1, <2>2, <2>3, Counting
  <2>5. n \in G
    BY <2>4
  <2> QED BY <2>5 DEF G
<1>6. [i \in 1 .. n |-> R(i)] \in Injection(1 .. n, B)
  <2>1. \A i, j \in 1 .. n : R(i) = R(j) => i = j
    <3> SUFFICES ASSUME NEW i \in 1 .. n, NEW j \in 1 .. n, R(i) = R(j) PROVE i = j
      OBVIOUS
    <3>1. R(i) \in Nat /\ R(j) \in Nat
      BY <1>2, <1>3
    <3> QED BY <1>5, <3>1
  <2> QED BY <1>4, <2>1 DEF Injection, IsInjective
<1>7. IsFiniteSet(B) /\ Cardinality(B) \in Nat
  BY <1>3, FS_Subset, FS_CardinalityType DEF B
<1>8. Cardinality(1 .. n) = n /\ IsFiniteSet(1 .. n)
  BY FS_Interval
<1>9. n <= Cardinality(B)
  BY <1>6, <1>7, <1>8, FS_Injection
<1>10. guards[q].threshold \in Int
  BY DEF GuardsOK, GuardRecords
<1>11. Cardinality(B) >= guards[q].threshold
  BY <1>2, <1>7, <1>9, <1>10
<1> QED BY <1>11 DEF Backed, B, O, d

-----------------------------------------------------------------------------
(* The contract: positions                                                 *)

\* a and b are the same word when m is the number of words.
SameWord(a, b, m) == \E c \in Int : a - b = m * c

\* A remainder is zero where the divisor goes in.
LEMMA SameWordLeavesNone ==
  ASSUME NEW m \in Nat \ {0}, NEW a \in Int, NEW b \in Int, SameWord(a, b, m)
  PROVE  (a - b) % m = 0
<1>1. PICK c \in Int : a - b = m * c
  BY DEF SameWord
<1>2. (m * c) % m = 0
  OBVIOUS
<1> QED BY <1>1, <1>2

\* Sums of two pairs of the same words are the same word.
LEMMA SameWordAdds ==
  ASSUME NEW m \in Nat, NEW a \in Int, NEW b \in Int, NEW x \in Int, NEW y \in Int,
         SameWord(a, b, m), SameWord(x, y, m)
  PROVE  SameWord(a + x, b + y, m)
<1>1. PICK c \in Int : a - b = m * c
  BY DEF SameWord
<1>2. PICK d \in Int : x - y = m * d
  BY DEF SameWord
<1>3. m * (c + d) = m * c + m * d /\ m * c \in Int /\ m * d \in Int /\ c + d \in Int
  OBVIOUS
<1>4. (a + x) - (b + y) = m * (c + d)
  BY <1>1, <1>2, <1>3
<1> QED BY <1>3, <1>4 DEF SameWord

\* Sums of elementwise the same words are the same word.
LEMMA SameWordSums ==
  ASSUME NEW m \in Nat, NEW f, NEW g, NEW S, IsFiniteSet(S),
         \A x \in S : f[x] \in Int /\ g[x] \in Int /\ SameWord(f[x], g[x], m)
  PROVE  SameWord(SumFunctionOnSet(f, S), SumFunctionOnSet(g, S), m)
<1> DEFINE G == {T \in SUBSET S : SameWord(SumFunctionOnSet(f, T), SumFunctionOnSet(g, T), m)}
<1>1. ASSUME NEW T \in SUBSET S, \A V \in SUBSET T : V # T => V \in G
      PROVE  T \in G
  <2>1. IsFiniteSet(T)
    BY FS_Subset
  <2>2. CASE T = {}
    <3>1. SumFunctionOnSet(f, T) = 0 /\ SumFunctionOnSet(g, T) = 0
      BY <2>2, SumEmpty
    <3>2. SameWord(0, 0, m)
      <4>1. 0 - 0 = m * 0 /\ 0 \in Int
        OBVIOUS
      <4> QED BY <4>1 DEF SameWord
    <3> QED BY <3>1, <3>2
  <2>3. CASE T # {}
    <3> DEFINE p == Pick(T)
               A == SumFunctionOnSet(f, T \ {p})
               B == SumFunctionOnSet(g, T \ {p})
    <3>1. p \in S /\ T \ {p} \in G
      BY <1>1, <2>3, PickIn
    <3>2. SumFunctionOnSet(f, T) = f[p] + A /\ SumFunctionOnSet(g, T) = g[p] + B
      BY <2>1, <2>3, SumRecursion
    <3>3. IsFiniteSet(T \ {p})
      BY <2>1, FS_Subset
    <3>4. A \in Int /\ B \in Int
      BY <3>3, SumInt
    <3>5. SameWord(A, B, m) /\ f[p] \in Int /\ g[p] \in Int /\ SameWord(f[p], g[p], m)
      BY <3>1
    <3> HIDE DEF A, B, p
    <3>6. SameWord(f[p] + A, g[p] + B, m)
      BY <3>4, <3>5, SameWordAdds
    <3>7. SameWord(SumFunctionOnSet(f, T), SumFunctionOnSet(g, T), m)
      BY <3>2, <3>6
    <3> QED BY <3>7
  <2> QED BY <2>2, <2>3
<1>2. G \in SUBSET (SUBSET S)
  OBVIOUS
<1> HIDE DEF G
<1>3. S \in G
  BY <1>1, <1>2, SizeInduction
<1> QED BY <1>3 DEF G

\* A cast amount is the same word as the amount.
LEMMA NetIsSameWord ==
  ASSUME ContractPlan, NEW i \in EffectIds, NEW p \in Payloads
  PROVE  /\ NetDelta(i, p) \in Int /\ Delta(i, p) \in Int
         /\ SameWord(NetDelta(i, p), Delta(i, p), 2^Width)
<1> DEFINE m == 2^Width
           a == Amount(i, p)
           w == AsInt(a)
<1>1. a \in Int /\ Delta(i, p) = IF Effects[i].kind = "credit" THEN a ELSE -a
  BY EffectType DEF Amount, Delta
<1>2. m \in Nat
  BY DEF ContractPlan
<1>3. w = a \/ w = a - m
  BY DEF AsInt
<1>4. NetDelta(i, p) = IF Effects[i].kind = "credit" THEN w ELSE -w
  BY DEF NetDelta
<1> HIDE DEF m, a, w
<1>5. \A x \in Int : x - x = m * 0 /\ x - m \in Int /\ (x - m) - x = m * (-1)
                     /\ (-(x - m)) - (-x) = m * 1 /\ -x \in Int /\ -(x - m) \in Int
  <2>1. m * 0 = 0 /\ m * (-1) = -m /\ m * 1 = m
    BY <1>2
  <2>2. \A x \in Int : x - x = 0 /\ x - m \in Int /\ (x - m) - x = -m
    BY <1>2
  <2>3. \A x \in Int : -x \in Int /\ -(x - m) \in Int /\ (-(x - m)) - (-x) = m
    BY <1>2
  <2> QED BY <2>1, <2>2, <2>3
<1>6. \A x \in Int : SameWord(x, x, m) /\ SameWord(x - m, x, m) /\ SameWord(-(x - m), -x, m)
  <2> TAKE x \in Int
  <2>1. SameWord(x, x, m)
    <3>1. x - x = m * 0 /\ 0 \in Int
      BY <1>5
    <3> QED BY <3>1, Zenon DEF SameWord
  <2>2. SameWord(x - m, x, m)
    <3>1. (x - m) - x = m * (-1) /\ -1 \in Int
      BY <1>5
    <3> QED BY <3>1, Zenon DEF SameWord
  <2>3. SameWord(-(x - m), -x, m)
    <3>1. (-(x - m)) - (-x) = m * 1 /\ 1 \in Int
      BY <1>5
    <3> QED BY <3>1, Zenon DEF SameWord
  <2> QED BY <2>1, <2>2, <2>3
<1>7. w \in Int /\ -w \in Int /\ -a \in Int
  BY <1>1, <1>2, <1>3
<1>8. SameWord(w, a, m) /\ SameWord(-w, -a, m)
  BY <1>1, <1>3, <1>6, <1>7
<1>9. NetDelta(i, p) \in Int /\ Delta(i, p) \in Int /\ SameWord(NetDelta(i, p), Delta(i, p), m)
  BY <1>1, <1>4, <1>7, <1>8
<1> QED BY <1>9 DEF m

-----------------------------------------------------------------------------
(* The contract: postings                                                  *)

ContractRecords ==
  [status : [Keys -> {Open, Success}], claim : [Keys -> Claims \cup {NoClaim}],
   groups : [Keys -> SUBSET Groups], attested : SUBSET Keys,
   net : [Keys -> [Ledgers -> Int]], total : [Keys -> [{"debit", "credit"} -> Int]],
   events : {SetToBag(D) : D \in {D \in SUBSET PostingRows : IsFiniteSet(D)}}]

\* What the events of c put on the net positions: the cast amounts.
EventNets(c) == [e \in DOMAIN c.events |-> NetDelta(e[3], e[2])]

\* The positions of key k in c are its events' sums.
EventsIn(c, k) == {e \in DOMAIN c.events : e[1] = k}
OfKind(c, k, kind) == {e \in EventsIn(c, k) : Effects[e[3]].kind = kind}
OfLedger(c, k, l) == {e \in EventsIn(c, k) : Ledger(e[3], e[2]) = l}
PositionsAgree(c, k) ==
  /\ \A kind \in {"debit", "credit"} :
       c.total[k][kind] = SumFunctionOnSet(EventAmounts(c), OfKind(c, k, kind))
  /\ \A l \in Ledgers :
       c.net[k][l] = SumFunctionOnSet(EventNets(c), OfLedger(c, k, l))

\* From c to d the legs of S are posted for key k and payload p.
PostsLegs(c, d, k, p, S) ==
  /\ d.events = c.events (+) SetToBag(RowsFor(k, p, S))
  /\ d.total = [c.total EXCEPT ![k] = [kind \in {"debit", "credit"} |-> @[kind] + SumOf(kind, S, p)]]
  /\ d.net = [c.net EXCEPT ![k] =
       [l \in Ledgers |-> @[l] + SumFunctionOnSet(NetDeltas(p), {i \in S : Ledger(i, p) = l})]]
CanPost(c, k, p, S) ==
  /\ c \in ContractRecords /\ \A x \in Keys : PositionsAgree(c, x)
  /\ k \in Keys /\ p \in Payloads /\ S \in SUBSET EffectIds
  /\ \A e \in EventsIn(c, k) : e[3] \notin S

GrowsBy(f, g, d, O, M, L) ==
  /\ SumFunctionOnSet(f, O \cup M) = SumFunctionOnSet(g, O) + SumFunctionOnSet(d, L)
  /\ SumFunctionOnSet(g, O) \in Int /\ SumFunctionOnSet(d, L) \in Int

\* A sum over old rows and a call's new ones is the sum of the old and of the
\* legs of the call.
LEMMA SumGrows ==
  ASSUME NEW f, NEW g, NEW d, NEW O, IsFiniteSet(O), NEW L, IsFiniteSet(L), NEW k, NEW p,
         O \cap RowsFor(k, p, L) = {}, \A x \in O : g[x] \in Int /\ f[x] = g[x],
         \A i \in L : f[<<k, p, i>>] \in Int /\ f[<<k, p, i>>] = d[i]
  PROVE  GrowsBy(f, g, d, O, RowsFor(k, p, L), L)
<1> DEFINE M == RowsFor(k, p, L)
<1>1. IsFiniteSet(M)
  BY RowsForFinite
<1>2. \A x \in M : f[x] \in Int
  BY DEF RowsFor
<1>3. SumFunctionOnSet(f, M) = SumFunctionOnSet(d, L)
  BY SumOfRows
<1>4. SumFunctionOnSet(f, O) = SumFunctionOnSet(g, O)
  BY SumAgrees
<1>5. \A i \in L : d[i] \in Int
  OBVIOUS
<1>6. SumFunctionOnSet(g, O) \in Int
  BY SumInt
<1>7. SumFunctionOnSet(d, L) \in Int
  BY <1>5, SumInt
<1>8. O \cap M = {}
  OBVIOUS
<1> HIDE DEF M
<1>9. \A x \in O \cup M : f[x] \in Int
  BY <1>2
<1>10. SumFunctionOnSet(f, O \cup M) = SumFunctionOnSet(f, O) + SumFunctionOnSet(f, M)
  BY <1>1, <1>8, <1>9, SumSplits
<1> QED BY <1>3, <1>4, <1>6, <1>7, <1>10 DEF M, GrowsBy

\* The events a call posts are not there yet, so each is there once.
LEMMA PostsOnce ==
  ASSUME NEW c, NEW d, NEW k, NEW p, NEW S, CanPost(c, k, p, S), PostsLegs(c, d, k, p, S)
  PROVE  LET N == RowsFor(k, p, S)
             D == DOMAIN c.events
         IN  /\ D \in SUBSET PostingRows /\ IsFiniteSet(D) /\ \A e \in D : c.events[e] = 1
             /\ N \in SUBSET PostingRows /\ IsFiniteSet(N) /\ D \cap N = {}
             /\ DOMAIN d.events = D \cup N /\ \A e \in D \cup N : d.events[e] = 1
             /\ d.events \in {SetToBag(E) : E \in {E \in SUBSET PostingRows : IsFiniteSet(E)}}
<1> DEFINE N == RowsFor(k, p, S)
           D == DOMAIN c.events
<1>1. PICK E \in SUBSET PostingRows : IsFiniteSet(E) /\ c.events = SetToBag(E)
  BY DEF CanPost, ContractRecords
<1>2. D = E /\ \A e \in D : c.events[e] = 1
  BY <1>1, BagOfSet
<1>3. IsFiniteSet(S) /\ k \in Keys /\ p \in Payloads /\ S \in SUBSET EffectIds
  BY LegsFinite DEF CanPost
<1>4. N \in SUBSET PostingRows /\ IsFiniteSet(N)
  <2>1. IsFiniteSet(N)
    BY <1>3, RowsForFinite
  <2>2. N \in SUBSET PostingRows
    BY <1>3 DEF RowsFor, PostingRows
  <2> QED BY <2>1, <2>2
<1>5. D \cap N = {}
  <2>1. \A e \in N : e[1] = k /\ e[3] \in S
    BY DEF RowsFor
  <2>2. \A e \in D : e[1] = k => e[3] \notin S
    BY DEF CanPost, EventsIn
  <2> HIDE DEF N, D
  <2> QED BY <2>1, <2>2
<1>6. d.events = SetToBag(D \cup N)
  <2>1. d.events = SetToBag(D) (+) SetToBag(N)
    BY <1>1, <1>2 DEF PostsLegs
  <2> QED BY <1>5, <2>1, BagGrows
<1>7. DOMAIN d.events = D \cup N /\ \A e \in D \cup N : d.events[e] = 1
  BY <1>6, BagOfSet
<1>8. D \cup N \in SUBSET PostingRows /\ IsFiniteSet(D \cup N)
  <2> HIDE DEF N, D
  <2> QED BY <1>1, <1>2, <1>4, FS_Union
<1> QED BY <1>1, <1>2, <1>4, <1>5, <1>6, <1>7, <1>8

\* What an event stands for is what its effect posts.
LEMMA EventValues ==
  ASSUME ContractPlan,
         NEW c, DOMAIN c.events \in SUBSET PostingRows, NEW e \in DOMAIN c.events, c.events[e] = 1
  PROVE  /\ EventAmounts(c)[e] = Amount(e[3], e[2]) /\ Amount(e[3], e[2]) \in Int
         /\ EventDeltas(c)[e] = Delta(e[3], e[2]) /\ Delta(e[3], e[2]) \in Int
         /\ EventNets(c)[e] = NetDelta(e[3], e[2]) /\ NetDelta(e[3], e[2]) \in Int
<1>1. Amount(e[3], e[2]) \in Int /\ Delta(e[3], e[2]) \in Int
  BY EffectType DEF PostingRows, Amount
<1>2. EventAmounts(c)[e] = 1 * Amount(e[3], e[2]) /\ EventDeltas(c)[e] = 1 * Delta(e[3], e[2])
  BY DEF EventAmounts, EventDeltas
<1>3. EventNets(c)[e] = NetDelta(e[3], e[2])
  BY DEF EventNets
<1>4. NetDelta(e[3], e[2]) \in Int
  BY NetIsSameWord DEF PostingRows
<1> QED BY <1>1, <1>2, <1>3, <1>4

\* The positions of other keys do not move.
LEMMA OthersStay ==
  ASSUME ContractPlan, NEW c, NEW d, NEW k, NEW p, NEW S, CanPost(c, k, p, S), PostsLegs(c, d, k, p, S),
         NEW x \in Keys \ {k}
  PROVE  PositionsAgree(d, x)
<1> DEFINE N == RowsFor(k, p, S)
           D == DOMAIN c.events
           E == EventsIn(c, x)
<1>1. /\ D \in SUBSET PostingRows /\ IsFiniteSet(D) /\ \A e \in D : c.events[e] = 1
      /\ N \in SUBSET PostingRows /\ DOMAIN d.events = D \cup N
      /\ \A e \in D \cup N : d.events[e] = 1
  BY PostsOnce
<1>2. \A e \in N : e[1] = k
  BY DEF RowsFor
<1> HIDE DEF N
<1>3. EventsIn(d, x) = E /\ E \subseteq D
  BY <1>1, <1>2 DEF EventsIn
<1>4. \A e \in E : /\ EventAmounts(d)[e] = EventAmounts(c)[e]
                   /\ EventNets(d)[e] = EventNets(c)[e]
  BY <1>1, <1>3, EventValues
<1>5. d.total[x] = c.total[x] /\ d.net[x] = c.net[x]
  BY DEF PostsLegs, CanPost, ContractRecords
<1> HIDE DEF D, E
<1>6. IsFiniteSet(E)
  BY <1>1, <1>3, FS_Subset
<1>7. ASSUME NEW kind \in {"debit", "credit"}
      PROVE  d.total[x][kind] = SumFunctionOnSet(EventAmounts(d), OfKind(d, x, kind))
  <2>1. OfKind(d, x, kind) = OfKind(c, x, kind) /\ OfKind(c, x, kind) \subseteq E
    BY <1>3 DEF OfKind, E
  <2>2. IsFiniteSet(OfKind(c, x, kind))
    BY <1>6, <2>1, FS_Subset
  <2>3. SumFunctionOnSet(EventAmounts(d), OfKind(c, x, kind))
          = SumFunctionOnSet(EventAmounts(c), OfKind(c, x, kind))
    BY <1>4, <2>1, <2>2, SumAgrees
  <2> QED BY <1>5, <2>1, <2>3 DEF CanPost, PositionsAgree
<1>8. ASSUME NEW l \in Ledgers
      PROVE  d.net[x][l] = SumFunctionOnSet(EventNets(d), OfLedger(d, x, l))
  <2>1. OfLedger(d, x, l) = OfLedger(c, x, l) /\ OfLedger(c, x, l) \subseteq E
    BY <1>3 DEF OfLedger, E
  <2>2. IsFiniteSet(OfLedger(c, x, l))
    BY <1>6, <2>1, FS_Subset
  <2>3. SumFunctionOnSet(EventNets(d), OfLedger(c, x, l))
          = SumFunctionOnSet(EventNets(c), OfLedger(c, x, l))
    BY <1>4, <2>1, <2>2, SumAgrees
  <2> QED BY <1>5, <2>1, <2>3 DEF CanPost, PositionsAgree
<1> QED BY <1>7, <1>8 DEF PositionsAgree

\* The positions of the key move by what its new events say.
LEMMA OwnMove ==
  ASSUME ContractPlan, NEW c, NEW d, NEW k, NEW p, NEW S,
         CanPost(c, k, p, S), PostsLegs(c, d, k, p, S)
  PROVE  /\ PositionsAgree(d, k)
         /\ \A kind \in {"debit", "credit"} : d.total[k][kind] \in Int
         /\ \A l \in Ledgers : d.net[k][l] \in Int
<1> DEFINE N == RowsFor(k, p, S)
           D == DOMAIN c.events
<1>1. /\ D \in SUBSET PostingRows /\ IsFiniteSet(D) /\ \A e \in D : c.events[e] = 1
      /\ N \in SUBSET PostingRows /\ D \cap N = {} /\ DOMAIN d.events = D \cup N
      /\ \A e \in D \cup N : d.events[e] = 1
  BY PostsOnce
<1>2. \A e \in D \cup N : /\ EventAmounts(d)[e] = Amount(e[3], e[2])
                          /\ EventNets(d)[e] = NetDelta(e[3], e[2])
                          /\ Amount(e[3], e[2]) \in Int /\ NetDelta(e[3], e[2]) \in Int
  <2> HIDE DEF N, D
  <2>1. DOMAIN d.events \in SUBSET PostingRows
    BY <1>1
  <2> QED BY <1>1, <2>1, EventValues
<1>3. \A e \in D : /\ EventAmounts(c)[e] = Amount(e[3], e[2])
                   /\ EventNets(c)[e] = NetDelta(e[3], e[2])
  BY <1>1, EventValues
<1>4. k \in Keys /\ p \in Payloads /\ S \in SUBSET EffectIds /\ PositionsAgree(c, k)
      /\ c.net \in [Keys -> [Ledgers -> Int]]
      /\ c.total \in [Keys -> [{"debit", "credit"} -> Int]]
  BY DEF CanPost, ContractRecords
<1>5. \A i \in S : <<k, p, i>> \in N
  BY DEF RowsFor
<1>6. ASSUME NEW kind \in {"debit", "credit"}
      PROVE  /\ d.total[k][kind] = SumFunctionOnSet(EventAmounts(d), OfKind(d, k, kind))
             /\ d.total[k][kind] \in Int
  <2> DEFINE L == {i \in S : Effects[i].kind = kind}
             O == OfKind(c, k, kind)
             M == RowsFor(k, p, L)
             f == EventAmounts(d)
             g == EventAmounts(c)
             w == Amounts(p)
  <2>1. OfKind(d, k, kind) = O \cup M
    <3>1. \A e \in N : e \in M <=> Effects[e[3]].kind = kind
      BY DEF RowsFor
    <3>2. M \subseteq N /\ \A e \in N : e[1] = k
      BY DEF RowsFor
    <3> HIDE DEF N, M
    <3> QED BY <1>1, <3>1, <3>2 DEF OfKind, EventsIn
  <2>2. O \subseteq D /\ IsFiniteSet(O) /\ L \subseteq S /\ IsFiniteSet(L) /\ M \subseteq N
    <3>1. O \subseteq D /\ L \subseteq S
      BY DEF OfKind, EventsIn
    <3>2. M \subseteq N
      BY DEF RowsFor
    <3>3. IsFiniteSet(L)
      BY <1>4, LegsFinite
    <3> HIDE DEF O, D, L, M, N
    <3> QED BY <1>1, <3>1, <3>2, <3>3, FS_Subset
  <2>3. \A i \in L : w[i] = Amount(i, p)
    BY <1>4 DEF Amounts
  <2>4. \A i \in L : f[<<k, p, i>>] \in Int /\ f[<<k, p, i>>] = w[i]
    <3> SUFFICES ASSUME NEW i \in L PROVE f[<<k, p, i>>] \in Int /\ f[<<k, p, i>>] = w[i]
      OBVIOUS
    <3> DEFINE e == <<k, p, i>>
    <3>1. e \in D \cup N /\ e[3] = i /\ e[2] = p
      BY <1>5, <2>2
    <3> HIDE DEF e, f, w, L, D, N
    <3>2. f[e] = Amount(i, p) /\ Amount(i, p) \in Int
      BY <1>2, <3>1 DEF f
    <3> QED BY <2>3, <3>2 DEF e
  <2>5. \A x \in O : g[x] \in Int /\ f[x] = g[x]
    <3> HIDE DEF O, D, N
    <3> QED BY <1>2, <1>3, <2>2
  <2>6. O \cap M = {}
    <3> HIDE DEF O, D, N, M
    <3> QED BY <1>1, <2>2
  <2> HIDE DEF O, L, f, g, w
  <2>7. /\ SumFunctionOnSet(f, O \cup M) = SumFunctionOnSet(g, O) + SumFunctionOnSet(w, L)
        /\ SumFunctionOnSet(g, O) \in Int /\ SumFunctionOnSet(w, L) \in Int
    <3>1. GrowsBy(f, g, w, O, M, L)
      BY <2>2, <2>4, <2>5, <2>6, SumGrows
    <3> QED BY <3>1 DEF GrowsBy
  <2>8. d.total[k][kind] = c.total[k][kind] + SumFunctionOnSet(w, L)
    BY <1>4 DEF PostsLegs, SumOf, w, L
  <2>9. c.total[k][kind] = SumFunctionOnSet(g, O)
    BY <1>4 DEF PositionsAgree, g, O
  <2>10. d.total[k][kind] = SumFunctionOnSet(f, O \cup M) /\ d.total[k][kind] \in Int
    BY <2>7, <2>8, <2>9
  <2> QED BY <2>1, <2>10 DEF f
<1>7. ASSUME NEW l \in Ledgers
      PROVE  /\ d.net[k][l] = SumFunctionOnSet(EventNets(d), OfLedger(d, k, l))
             /\ d.net[k][l] \in Int
  <2> DEFINE L == {i \in S : Ledger(i, p) = l}
             O == OfLedger(c, k, l)
             M == RowsFor(k, p, L)
             f == EventNets(d)
             g == EventNets(c)
             w == NetDeltas(p)
  <2>1. OfLedger(d, k, l) = O \cup M
    <3>1. \A e \in N : e \in M <=> Ledger(e[3], e[2]) = l
      BY DEF RowsFor
    <3>2. M \subseteq N /\ \A e \in N : e[1] = k
      BY DEF RowsFor
    <3> HIDE DEF N, M
    <3> QED BY <1>1, <3>1, <3>2 DEF OfLedger, EventsIn
  <2>2. O \subseteq D /\ IsFiniteSet(O) /\ L \subseteq S /\ IsFiniteSet(L) /\ M \subseteq N
    <3>1. O \subseteq D /\ L \subseteq S
      BY DEF OfLedger, EventsIn
    <3>2. M \subseteq N
      BY DEF RowsFor
    <3>3. IsFiniteSet(L)
      BY <1>4, LegsFinite
    <3> HIDE DEF O, D, L, M, N
    <3> QED BY <1>1, <3>1, <3>2, <3>3, FS_Subset
  <2>3. \A i \in L : w[i] = NetDelta(i, p)
    BY <1>4 DEF NetDeltas
  <2>4. \A i \in L : f[<<k, p, i>>] \in Int /\ f[<<k, p, i>>] = w[i]
    <3> SUFFICES ASSUME NEW i \in L PROVE f[<<k, p, i>>] \in Int /\ f[<<k, p, i>>] = w[i]
      OBVIOUS
    <3> DEFINE e == <<k, p, i>>
    <3>1. e \in D \cup N /\ e[3] = i /\ e[2] = p
      BY <1>5, <2>2
    <3> HIDE DEF e, f, w, L, D, N
    <3>2. f[e] = NetDelta(i, p) /\ NetDelta(i, p) \in Int
      BY <1>2, <3>1 DEF f
    <3> QED BY <2>3, <3>2 DEF e
  <2>5. \A x \in O : g[x] \in Int /\ f[x] = g[x]
    <3> HIDE DEF O, D, N
    <3> QED BY <1>2, <1>3, <2>2
  <2>6. O \cap M = {}
    <3> HIDE DEF O, D, N, M
    <3> QED BY <1>1, <2>2
  <2> HIDE DEF O, L, f, g, w
  <2>7. /\ SumFunctionOnSet(f, O \cup M) = SumFunctionOnSet(g, O) + SumFunctionOnSet(w, L)
        /\ SumFunctionOnSet(g, O) \in Int /\ SumFunctionOnSet(w, L) \in Int
    <3>1. GrowsBy(f, g, w, O, M, L)
      BY <2>2, <2>4, <2>5, <2>6, SumGrows
    <3> QED BY <3>1 DEF GrowsBy
  <2>8. d.net[k][l] = c.net[k][l] + SumFunctionOnSet(w, L)
    BY <1>4 DEF PostsLegs, w, L
  <2>9. c.net[k][l] = SumFunctionOnSet(g, O)
    BY <1>4 DEF PositionsAgree, g, O
  <2>10. d.net[k][l] = SumFunctionOnSet(f, O \cup M) /\ d.net[k][l] \in Int
    BY <2>7, <2>8, <2>9
  <2> QED BY <2>1, <2>10 DEF f
<1> QED BY <1>6, <1>7 DEF PositionsAgree

-----------------------------------------------------------------------------
(* The contract: its transactions                                          *)

\* The totals fit their words; the status of a key says whether it is complete.
KeyTracked(c, k) ==
  /\ \A kind \in {"debit", "credit"} : c.total[k][kind] < 2^Width
  /\ Temporal => (c.groups[k] = Groups => c.status[k] = Success)
  /\ ~Temporal => (c.claim[k] = NoClaim <=> c.status[k] = Open)

ContractOK ==
  /\ contract \in ContractRecords
  /\ \A k \in Keys : EventsAreCommits(k) /\ PositionsAgree(contract, k) /\ KeyTracked(contract, k)

\* The inductive invariant.
ContractInv == GuardsOK /\ ContractOK

\* What a key is to have posted, from the contract's storage.
LEMMA LegsToPost ==
  ASSUME NEW c, NEW k \in Keys
  PROVE  PostedLegs(EvaluatedContract(c), k)
           = IF Temporal THEN Legs(c.groups[k])
             ELSE IF c.status[k] = Success THEN FiringFor(c.claim[k][2]) ELSE {}
<1> DEFINE v == EvaluatedContract(c)
<1>1. /\ v.committedGroups = c.groups /\ v.keyClaim = c.claim
      /\ v.postedKeys = {x \in Keys : c.status[x] = Success}
  BY DEF EvaluatedContract
<1> HIDE DEF v
<1>2. k \in v.postedKeys <=> c.status[k] = Success
  BY <1>1
<1>3. PostedLegs(v, k) = IF Temporal THEN Legs(c.groups[k])
                         ELSE IF c.status[k] = Success THEN FiringFor(c.claim[k][2]) ELSE {}
  BY <1>1, <1>2 DEF PostedLegs, FiringFor
<1> QED BY <1>3 DEF v

\* The fields of the storage once the legs of S are posted.
LEMMA PostedFields ==
  ASSUME NEW c \in ContractRecords, c = contract, NEW k \in Keys, NEW p, NEW S,
         NEW d, d = Posted(k, S, p)
  PROVE  /\ PostsLegs(c, d, k, p, S)
         /\ d.status = c.status /\ d.claim = c.claim /\ d.groups = c.groups
         /\ d.attested = c.attested
         /\ d = [status |-> d.status, claim |-> d.claim, groups |-> d.groups,
                 attested |-> d.attested, net |-> d.net, total |-> d.total, events |-> d.events]
<1> DEFINE E == {SetToBag(D) : D \in {D \in SUBSET PostingRows : IsFiniteSet(D)}}
           A == [Keys -> [Ledgers -> Int]]
           T == [Keys -> [{"debit", "credit"} -> Int]]
           C == [Keys -> Claims \cup {NoClaim}]
           net == [c.net EXCEPT ![k] =
                     [l \in Ledgers |-> @[l] + SumFunctionOnSet(NetDeltas(p), {i \in S : Ledger(i, p) = l})]]
           total == [c.total EXCEPT ![k] =
                       [kind \in {"debit", "credit"} |-> @[kind] + SumOf(kind, S, p)]]
           events == c.events (+) SetToBag(RowsFor(k, p, S))
<1>1. c \in [status : [Keys -> {Open, Success}], claim : C, groups : [Keys -> SUBSET Groups],
             attested : SUBSET Keys, net : A, total : T, events : E]
  BY DEF ContractRecords
<1>2. d = [c EXCEPT !.net = net, !.total = total, !.events = events]
  <2>1. /\ net = [c.net EXCEPT ![k] = [l \in Ledgers |-> NetAfter(k, l, S, p)]]
        /\ total = [c.total EXCEPT ![k] = [kind \in {"debit", "credit"} |-> TotalAfter(k, kind, S, p)]]
        /\ events = c.events (+) SetToBag({<<k, p, i>> : i \in S})
    BY DEF NetAfter, TotalAfter, RowsFor
  <2> HIDE DEF net, total, events
  <2>2. d = [c EXCEPT !.net[k] = [l \in Ledgers |-> NetAfter(k, l, S, p)],
                      !.total[k] = [kind \in {"debit", "credit"} |-> TotalAfter(k, kind, S, p)],
                      !.events = @ (+) SetToBag({<<k, p, i>> : i \in S})]
    BY DEF Posted
  <2> QED BY <2>1, <2>2
<1> HIDE DEF E, A, T, C, net, total, events
<1>3. /\ d.net = net /\ d.total = total /\ d.events = events
      /\ d.status = c.status /\ d.claim = c.claim /\ d.groups = c.groups
      /\ d.attested = c.attested
      /\ d = [status |-> d.status, claim |-> d.claim, groups |-> d.groups,
              attested |-> d.attested, net |-> d.net, total |-> d.total, events |-> d.events]
  BY <1>1, <1>2
<1>4. PostsLegs(c, d, k, p, S)
  BY <1>3 DEF PostsLegs, net, total, events
<1> QED BY <1>3, <1>4

\* A call that posts legs of key k keeps the contract's invariant, if its
\* flags and its claim are those of what it posted.
LEMMA PostingKeeps ==
  ASSUME ContractPlan, ContractOK, guards' = guards,
         NEW k \in Keys, NEW p \in Payloads, NEW S \in SUBSET EffectIds, NEW d, d = contract',
         \A e \in EventsOf(k) : e[3] \notin S, PostsLegs(contract, d, k, p, S),
         d = [status |-> d.status, claim |-> d.claim, groups |-> d.groups,
              attested |-> d.attested, net |-> d.net, total |-> d.total, events |-> d.events],
         d.status \in [Keys -> {Open, Success}], d.claim \in [Keys -> Claims \cup {NoClaim}],
         d.groups \in [Keys -> SUBSET Groups], d.attested = contract.attested,
         \A x \in Keys \ {k} : /\ d.status[x] = contract.status[x]
                               /\ d.claim[x] = contract.claim[x]
                               /\ d.groups[x] = contract.groups[x],
         PostedLegs(EvaluatedContract(d), k) = PostedLegs(EvaluatedContract(contract), k) \cup S,
         \A e \in EventsOf(k) : d.claim[k] = <<k, e[2]>>,
         S # {} => d.claim[k] = <<k, p>>,
         \A i \in S : Rests(<<k, p, i>>),
         d.status[k] = Success /\ Temporal => d.groups[k] = Groups, KeyTracked(d, k)
  PROVE  ContractOK'
<1> DEFINE c == contract
           N == RowsFor(k, p, S)
           D == DOMAIN c.events
<1>1. CanPost(c, k, p, S)
  BY DEF CanPost, ContractOK, EventsIn, EventsOf
<1>2. /\ D \in SUBSET PostingRows /\ \A e \in D : c.events[e] = 1
      /\ DOMAIN d.events = D \cup N /\ \A e \in D \cup N : d.events[e] = 1
      /\ d.events \in {SetToBag(E) : E \in {E \in SUBSET PostingRows : IsFiniteSet(E)}}
  BY <1>1, PostsOnce
<1>3. /\ \A x \in Keys : PositionsAgree(d, x)
      /\ \A kind \in {"debit", "credit"} : d.total[k][kind] \in Int
      /\ \A l \in Ledgers : d.net[k][l] \in Int
  <2>1. \A x \in Keys \ {k} : PositionsAgree(d, x)
    BY <1>1, OthersStay
  <2>2. /\ PositionsAgree(d, k)
        /\ \A kind \in {"debit", "credit"} : d.total[k][kind] \in Int
        /\ \A l \in Ledgers : d.net[k][l] \in Int
    BY <1>1, OwnMove
  <2> QED BY <2>1, <2>2
<1>4. c.total \in [Keys -> [{"debit", "credit"} -> Int]] /\ c.net \in [Keys -> [Ledgers -> Int]]
      /\ c.attested \in SUBSET Keys
  BY DEF ContractOK, ContractRecords
<1>5. d.total \in [Keys -> [{"debit", "credit"} -> Int]]
  <2> DEFINE t == [kind \in {"debit", "credit"} |-> c.total[k][kind] + SumOf(kind, S, p)]
  <2>1. d.total = [c.total EXCEPT ![k] = t]
    BY DEF PostsLegs
  <2>2. d.total[k] = t
    BY <1>4, <2>1
  <2>3. t \in [{"debit", "credit"} -> Int]
    BY <1>3, <2>2
  <2> HIDE DEF t
  <2> QED BY <1>4, <2>1, <2>3
<1>6. d.net \in [Keys -> [Ledgers -> Int]]
  <2> DEFINE t == [l \in Ledgers |-> c.net[k][l]
                     + SumFunctionOnSet(NetDeltas(p), {i \in S : Ledger(i, p) = l})]
  <2>1. d.net = [c.net EXCEPT ![k] = t]
    BY DEF PostsLegs
  <2>2. d.net[k] = t
    BY <1>4, <2>1
  <2>3. t \in [Ledgers -> Int]
    BY <1>3, <2>2
  <2> HIDE DEF t
  <2> QED BY <1>4, <2>1, <2>3
<1>7. d \in ContractRecords
  <2> DEFINE E == {SetToBag(W) : W \in {W \in SUBSET PostingRows : IsFiniteSet(W)}}
             A == [Keys -> [Ledgers -> Int]]
             T == [Keys -> [{"debit", "credit"} -> Int]]
             C == [Keys -> Claims \cup {NoClaim}]
             B == SUBSET Keys
             G == [Keys -> SUBSET Groups]
             U == [Keys -> {Open, Success}]
  <2>1. /\ d.status \in U /\ d.claim \in C /\ d.groups \in G /\ d.attested \in B /\ d.net \in A
        /\ d.total \in T /\ d.events \in E
    BY <1>2, <1>4, <1>5, <1>6
  <2>2. ContractRecords = [status : U, claim : C, groups : G, attested : B, net : A, total : T,
                           events : E]
    BY DEF ContractRecords
  <2> HIDE DEF E, A, T, C, B, G, U
  <2> QED BY <2>1, <2>2
<1>8. ASSUME NEW x \in Keys \ {k} PROVE EventsAreCommits(x)'
  <2>1. EventsAreCommits(x)
    BY DEF ContractOK
  <2>2. EventsOf(x)' = EventsOf(x) /\ EventsOf(x) \subseteq D
    <3>1. \A e \in N : e[1] = k
      BY DEF RowsFor
    <3> HIDE DEF N
    <3> QED BY <1>2, <3>1 DEF EventsOf
  <2>3. PostedLegs(EvaluatedContract(contract), x)' = PostedLegs(EvaluatedContract(c), x)
    <3>1. /\ d.status[x] = c.status[x] /\ d.claim[x] = c.claim[x] /\ d.groups[x] = c.groups[x]
          /\ x \in Keys
      OBVIOUS
    <3> HIDE DEF c
    <3>2. PostedLegs(EvaluatedContract(d), x) =
            IF Temporal THEN Legs(c.groups[x])
            ELSE IF c.status[x] = Success THEN FiringFor(c.claim[x][2]) ELSE {}
      BY <3>1, LegsToPost
    <3>3. PostedLegs(EvaluatedContract(d), x) = PostedLegs(EvaluatedContract(c), x)
      BY <3>1, <3>2, LegsToPost
    <3> QED BY <3>3 DEF c
  <2>4. \A e \in EventsOf(x) : Rests(e)' <=> Rests(e)
    BY DEF Rests, IsAccepted
  <2>5. \A e \in EventsOf(x) : d.events[e] = c.events[e]
    BY <1>2, <2>2
  <2> HIDE DEF c, D, N
  <2> QED BY <2>1, <2>2, <2>3, <2>4, <2>5 DEF EventsAreCommits, c
<1>9. EventsAreCommits(k)'
  <2>1. EventsAreCommits(k)
    BY DEF ContractOK
  <2>2. EventsOf(k)' = EventsOf(k) \cup N /\ EventsOf(k) \subseteq D
    <3>1. \A e \in N : e[1] = k
      BY DEF RowsFor
    <3> HIDE DEF N
    <3> QED BY <1>2, <3>1 DEF EventsOf
  <2>3. {e[3] : e \in EventsOf(k) \cup N} = {e[3] : e \in EventsOf(k)} \cup S
    <3>1. {e[3] : e \in N} = S
      <4>1. \A i \in S : \E e \in N : e[3] = i
        <5>1. \A i \in S : <<k, p, i>> \in N /\ <<k, p, i>>[3] = i
          BY DEF RowsFor
        <5> HIDE DEF N
        <5> QED BY <5>1
      <4>2. \A e \in N : e[3] \in S
        BY DEF RowsFor
      <4> HIDE DEF N
      <4> QED BY <4>1, <4>2
    <3> DEFINE A == EventsOf(k)
    <3> HIDE DEF N, A
    <3>2. {e[3] : e \in A \cup N} = {e[3] : e \in A} \cup {e[3] : e \in N}
      OBVIOUS
    <3> QED BY <3>1, <3>2 DEF A
  <2>4. {e[3] : e \in EventsOf(k)'} = PostedLegs(EvaluatedContract(contract), k)'
    BY <2>1, <2>2, <2>3 DEF EventsAreCommits
  <2>5. \A e \in EventsOf(k)' : d.events[e] = 1
    BY <1>2, <2>2
  <2>6. ASSUME NEW e \in EventsOf(k) \cup N
        PROVE  <<k, e[2]>> = d.claim[k] /\ Rests(e)'
    <3>1. CASE e \in EventsOf(k)
      <4>1. Rests(e)
        BY <2>1, <3>1 DEF EventsAreCommits
      <4>2. Rests(e)' <=> Rests(e)
        BY DEF Rests, IsAccepted
      <4> QED BY <3>1, <4>1, <4>2
    <3>2. CASE e \in N
      <4>1. PICK i \in S : e = <<k, p, i>>
        BY <3>2 DEF RowsFor
      <4>2. Rests(e)
        BY <4>1
      <4>3. Rests(e)' <=> Rests(e)
        BY DEF Rests, IsAccepted
      <4> QED BY <4>1, <4>2, <4>3
    <3> QED BY <3>1, <3>2
  <2> HIDE DEF c, D, N
  <2> QED BY <2>2, <2>4, <2>5, <2>6 DEF EventsAreCommits
<1>10. \A x \in Keys : PositionsAgree(contract, x)'
  <2>1. \A x \in Keys : PositionsAgree(d, x)
    BY <1>3
  <2> QED BY <2>1
<1>11. \A x \in Keys : KeyTracked(contract, x)'
  <2>1. ASSUME NEW x \in Keys \ {k} PROVE KeyTracked(d, x)
    <3>1. KeyTracked(c, x)
      BY DEF ContractOK
    <3>2. d.total[x] = c.total[x]
      BY <1>4 DEF PostsLegs
    <3> QED BY <3>1, <3>2 DEF KeyTracked
  <2> HIDE DEF c
  <2>2. \A x \in Keys : KeyTracked(d, x)
    BY <2>1
  <2> QED BY <2>2 DEF KeyTracked
<1> QED BY <1>7, <1>8, <1>9, <1>10, <1>11 DEF ContractOK

\* The totals of a call that did not overflow fit.
LEMMA TotalsFit ==
  ASSUME ContractPlan, NEW c \in ContractRecords, c = contract, NEW k \in Keys,
         NEW p \in Payloads, NEW S \in SUBSET EffectIds, NEW d,
         PostsLegs(c, d, k, p, S), ~Overflows(k, S, p)
  PROVE  \A kind \in {"debit", "credit"} : d.total[k][kind] < 2^Width
<1> SUFFICES ASSUME NEW kind \in {"debit", "credit"} PROVE d.total[k][kind] < 2^Width
  OBVIOUS
<1>1. d.total[k][kind] = TotalAfter(k, kind, S, p)
  BY DEF PostsLegs, TotalAfter, ContractRecords
<1>2. TotalAfter(k, kind, S, p) \in Int /\ 2^Width \in Int
  <2> DEFINE L == {i \in S : Effects[i].kind = kind}
  <2>1. \A i \in L : Amounts(p)[i] \in Int
    BY EffectType DEF Amounts, Amount
  <2>2. IsFiniteSet(L)
    BY LegsFinite
  <2>3. SumOf(kind, S, p) \in Int
    BY <2>1, <2>2, SumInt DEF SumOf
  <2>4. c.total[k][kind] \in Int
    BY DEF ContractRecords
  <2> QED BY <2>3, <2>4 DEF TotalAfter, ContractPlan
<1> DEFINE n == TotalAfter(k, kind, S, p)
           m == 2^Width
<1>3. ~(n >= m)
  BY DEF Overflows
<1> HIDE DEF n, m
<1>4. n < m
  BY <1>2, <1>3 DEF n, m
<1> QED BY <1>1, <1>4 DEF n, m

\* What a key has posted is not posted again.
LEMMA PostedIsPosted ==
  ASSUME ContractOK, NEW k \in Keys, NEW e \in EventsOf(k)
  PROVE  /\ e[3] \in PostedLegs(EvaluatedContract(contract), k)
         /\ contract.claim[k] = <<k, e[2]>>
BY DEF ContractOK, EventsAreCommits

\* From c to d the legs of S are posted, and the key's status, claim and groups set.
CallWrites(c, d, k, p, S, T, C, G) ==
  /\ PostsLegs(c, d, k, p, S)
  /\ d.status = [c.status EXCEPT ![k] = T] /\ d.claim = [c.claim EXCEPT ![k] = C]
  /\ d.groups = [c.groups EXCEPT ![k] = G] /\ d.attested = c.attested
  /\ d = [status |-> d.status, claim |-> d.claim, groups |-> d.groups,
          attested |-> d.attested, net |-> d.net, total |-> d.total, events |-> d.events]

\* The temporal contract's call opens the groups it holds.
LEMMA TemporalFields ==
  ASSUME contract \in ContractRecords, NEW k \in Keys, NEW p
  PROVE  CallWrites(contract, TemporalCall(k, p), k, p, Legs(Holding(k, p)),
                    IF AllCommitted(k, p) THEN Success ELSE Open,
                    IF Holding(k, p) # {} THEN <<k, p>> ELSE contract.claim[k],
                    contract.groups[k] \cup Holding(k, p))
<1> DEFINE c == contract
           H == Holding(k, p)
           S == Legs(H)
           e == Posted(k, S, p)
           d == TemporalCall(k, p)
           G == c.groups[k] \cup H
           C == IF H # {} THEN <<k, p>> ELSE c.claim[k]
           T == IF AllCommitted(k, p) THEN Success ELSE Open
<1>1. /\ PostsLegs(c, e, k, p, S)
      /\ e.status = c.status /\ e.claim = c.claim /\ e.groups = c.groups
      /\ e.attested = c.attested
      /\ e = [status |-> e.status, claim |-> e.claim, groups |-> e.groups,
              attested |-> e.attested, net |-> e.net, total |-> e.total, events |-> e.events]
  <2> HIDE DEF e, S
  <2>1. e = Posted(k, S, p) /\ c = contract
    BY DEF e
  <2> HIDE DEF c
  <2> QED BY <2>1, PostedFields
<1>2. d = [e EXCEPT !.groups[k] = @ \cup H, !.claim[k] = IF H # {} THEN <<k, p>> ELSE @,
                    !.status[k] = T]
  BY DEF TemporalCall
<1> HIDE DEF e, S, T, H, d
<1>3. /\ d.status = [c.status EXCEPT ![k] = T] /\ d.claim = [c.claim EXCEPT ![k] = C]
      /\ d.groups = [c.groups EXCEPT ![k] = G] /\ d.attested = c.attested
      /\ d.net = e.net /\ d.total = e.total /\ d.events = e.events
      /\ d = [status |-> d.status, claim |-> d.claim, groups |-> d.groups,
              attested |-> d.attested, net |-> d.net, total |-> d.total, events |-> d.events]
  <2> HIDE DEF c
  <2>1. /\ e.status = c.status /\ e.claim = c.claim /\ e.groups = c.groups
        /\ e.attested = c.attested
        /\ e = [status |-> e.status, claim |-> e.claim, groups |-> e.groups,
                attested |-> e.attested, net |-> e.net, total |-> e.total, events |-> e.events]
    BY <1>1
  <2> QED BY <1>2, <2>1
<1> HIDE DEF G, C
<1>4. PostsLegs(c, d, k, p, S)
  BY <1>1, <1>3 DEF PostsLegs
<1>5. CallWrites(c, d, k, p, S, T, C, G)
  BY <1>3, <1>4 DEF CallWrites
<1> QED BY <1>5 DEF c, d, S, T, C, G, H

\* A single-shot contract's call closes the key.
LEMMA SingleFields ==
  ASSUME contract \in ContractRecords, NEW k \in Keys, NEW p
  PROVE  CallWrites(contract, SingleCall(k, p), k, p, FiringFor(p), Success, <<k, p>>, contract.groups[k])
<1> DEFINE c == contract
           S == FiringFor(p)
           e == Posted(k, S, p)
           d == SingleCall(k, p)
           C == <<k, p>>
           G == c.groups[k]
<1>1. /\ PostsLegs(c, e, k, p, S)
      /\ e.status = c.status /\ e.claim = c.claim /\ e.groups = c.groups
      /\ e.attested = c.attested
      /\ e = [status |-> e.status, claim |-> e.claim, groups |-> e.groups,
              attested |-> e.attested, net |-> e.net, total |-> e.total, events |-> e.events]
  <2> HIDE DEF e, S
  <2>1. e = Posted(k, S, p) /\ c = contract
    BY DEF e
  <2> HIDE DEF c
  <2> QED BY <2>1, PostedFields
<1>2. d = [e EXCEPT !.claim[k] = <<k, p>>, !.status[k] = Success]
  BY DEF SingleCall
<1>3. c.groups \in [Keys -> SUBSET Groups]
  BY DEF ContractRecords
<1> HIDE DEF e, S, d
<1>4. /\ d.status = [c.status EXCEPT ![k] = Success] /\ d.claim = [c.claim EXCEPT ![k] = C]
      /\ d.groups = c.groups /\ d.attested = c.attested
      /\ d.net = e.net /\ d.total = e.total /\ d.events = e.events
      /\ d = [status |-> d.status, claim |-> d.claim, groups |-> d.groups,
              attested |-> d.attested, net |-> d.net, total |-> d.total, events |-> d.events]
  <2> HIDE DEF c, C
  <2>1. d = [e EXCEPT !.claim[k] = C, !.status[k] = Success]
    BY <1>2 DEF C
  <2>2. /\ e.status = c.status /\ e.claim = c.claim /\ e.groups = c.groups
        /\ e.attested = c.attested
        /\ e = [status |-> e.status, claim |-> e.claim, groups |-> e.groups,
                attested |-> e.attested, net |-> e.net, total |-> e.total, events |-> e.events]
    BY <1>1
  <2> QED BY <2>1, <2>2
<1>5. c.groups = [c.groups EXCEPT ![k] = G]
  BY <1>3
<1> HIDE DEF G, C
<1>6. PostsLegs(c, d, k, p, S)
  BY <1>1, <1>4 DEF PostsLegs
<1>7. CallWrites(c, d, k, p, S, Success, C, G)
  BY <1>4, <1>5, <1>6 DEF CallWrites
<1> QED BY <1>7 DEF c, d, S, C, G

\* A call of the temporal contract posts the legs of the groups it opens.
LEMMA TemporalCallKeeps ==
  ASSUME ContractPlan, ContractOK, Temporal, guards' = guards,
         NEW k \in Keys, NEW p \in Payloads, ~TemporalReverts(k, p), contract' = TemporalCall(k, p)
  PROVE  ContractOK'
<1> DEFINE c == contract
           H == Holding(k, p)
           S == Legs(H)
           d == contract'
           G == c.groups[k] \cup H
           C == IF H # {} THEN <<k, p>> ELSE c.claim[k]
           T == IF AllCommitted(k, p) THEN Success ELSE Open
<1>1. c \in ContractRecords
  BY DEF ContractOK
<1>2. CallWrites(c, d, k, p, S, T, C, G)
  BY <1>1, TemporalFields
<1>4. /\ c.status \in [Keys -> {Open, Success}] /\ c.claim \in [Keys -> Claims \cup {NoClaim}]
      /\ c.groups \in [Keys -> SUBSET Groups]
  BY <1>1 DEF ContractRecords
<1>5. H \in SUBSET Groups /\ S \in SUBSET EffectIds /\ T \in {Open, Success}
      /\ C \in Claims \cup {NoClaim} /\ G \in SUBSET Groups
  <2>1. H \in SUBSET Groups /\ S \in SUBSET EffectIds /\ T \in {Open, Success}
    BY DEF Holding, Legs
  <2>2. <<k, p>> \in Claims
    BY DEF Claims
  <2> HIDE DEF H, S, T
  <2> QED BY <1>4, <2>1, <2>2
<1> HIDE DEF S, T, H, G, C
<1>6. /\ PostsLegs(contract, d, k, p, S) /\ d.attested = c.attested
      /\ d.status = [c.status EXCEPT ![k] = T] /\ d.claim = [c.claim EXCEPT ![k] = C]
      /\ d.groups = [c.groups EXCEPT ![k] = G]
      /\ d = [status |-> d.status, claim |-> d.claim, groups |-> d.groups,
              attested |-> d.attested, net |-> d.net, total |-> d.total, events |-> d.events]
  BY <1>2 DEF CallWrites
<1>8. /\ d.status \in [Keys -> {Open, Success}] /\ d.claim \in [Keys -> Claims \cup {NoClaim}]
      /\ d.groups \in [Keys -> SUBSET Groups]
      /\ d.status[k] = T /\ d.claim[k] = C /\ d.groups[k] = G
      /\ \A x \in Keys \ {k} : /\ d.status[x] = c.status[x]
                               /\ d.claim[x] = c.claim[x]
                               /\ d.groups[x] = c.groups[x]
  BY <1>4, <1>5, <1>6
<1>9. PostedLegs(EvaluatedContract(contract), k) = Legs(c.groups[k])
  BY LegsToPost
<1>10. \A x \in EventsOf(k) : x[3] \notin S
  <2> SUFFICES ASSUME NEW x \in EventsOf(k), x[3] \in S PROVE FALSE
    OBVIOUS
  <2>1. x[3] \in Legs(c.groups[k])
    BY <1>9, PostedIsPosted
  <2> QED BY <2>1 DEF S, H, Legs, Holding
<1>11. PostedLegs(EvaluatedContract(d), k) = PostedLegs(EvaluatedContract(contract), k) \cup S
  <2>1. PostedLegs(EvaluatedContract(d), k) = Legs(d.groups[k])
    BY LegsToPost
  <2>2. Legs(G) = Legs(c.groups[k]) \cup Legs(H)
    BY DEF Legs, G
  <2> QED BY <1>8, <1>9, <2>1, <2>2 DEF S
<1>12. \A x \in EventsOf(k) : d.claim[k] = <<k, x[2]>>
  <2> SUFFICES ASSUME NEW x \in EventsOf(k) PROVE C = <<k, x[2]>>
    BY <1>8
  <2>1. c.claim[k] = <<k, x[2]>>
    BY PostedIsPosted
  <2>2. c.claim[k] \in {NoClaim, <<k, p>>}
    BY DEF TemporalReverts
  <2>3. c.claim[k] = <<k, p>>
    BY <2>1, <2>2, PairIsNotEmpty
  <2> QED BY <2>1, <2>3 DEF C
<1>13. S # {} => d.claim[k] = <<k, p>>
  BY <1>8, NoLegs DEF C, S
<1>14. \A i \in S : Rests(<<k, p, i>>)
  BY DEF S, H, Legs, Holding, Rests
<1>15. d.status[k] = Success /\ Temporal => d.groups[k] = Groups
  <2>1. T = Success => AllCommitted(k, p)
    BY DEF T, Open, Success
  <2>2. AllCommitted(k, p) => Groups \subseteq G
    BY DEF AllCommitted, G, H
  <2> QED BY <1>5, <1>8, <2>1, <2>2
<1>17. KeyTracked(d, k)
  <2>1. ~Overflows(k, S, p)
    BY DEF TemporalReverts, S, H
  <2> HIDE DEF d, c
  <2>2. \A kind \in {"debit", "credit"} : d.total[k][kind] < 2^Width
    BY <1>1, <1>5, <1>6, <2>1, TotalsFit DEF c
  <2>3. G = Groups => T = Success
    BY DEF G, T, H, AllCommitted, c
  <2> QED BY <1>8, <2>2, <2>3 DEF KeyTracked
<1> HIDE DEF d
<1>16. d = contract'
  BY DEF d
<1> QED BY <1>5, <1>6, <1>8, <1>10, <1>11, <1>12, <1>13, <1>14, <1>15, <1>16, <1>17, PostingKeeps

\* A call of a single-shot contract posts what fires for its payload, on a key
\* for which nothing was posted.
LEMMA SingleCallKeeps ==
  ASSUME ContractPlan, ContractOK, ~Temporal, guards' = guards,
         NEW k \in Keys, NEW p \in Payloads, ~SingleReverts(k, p), contract' = SingleCall(k, p)
  PROVE  ContractOK'
<1> DEFINE c == contract
           S == FiringFor(p)
           d == contract'
<1>1. c \in ContractRecords
  BY DEF ContractOK
<1>2. CallWrites(c, d, k, p, S, Success, <<k, p>>, c.groups[k])
  BY <1>1, SingleFields
<1>4. /\ c.status \in [Keys -> {Open, Success}] /\ c.claim \in [Keys -> Claims \cup {NoClaim}]
      /\ c.groups \in [Keys -> SUBSET Groups]
  BY <1>1 DEF ContractRecords
<1>5. S \in SUBSET EffectIds /\ <<k, p>> \in Claims
  BY DEF FiringFor, Claims
<1> HIDE DEF S
<1>6. /\ PostsLegs(contract, d, k, p, S) /\ d.attested = c.attested
      /\ d.status = [c.status EXCEPT ![k] = Success] /\ d.claim = [c.claim EXCEPT ![k] = <<k, p>>]
      /\ d.groups = c.groups
      /\ d = [status |-> d.status, claim |-> d.claim, groups |-> d.groups,
              attested |-> d.attested, net |-> d.net, total |-> d.total, events |-> d.events]
  <2>1. c.groups = [c.groups EXCEPT ![k] = c.groups[k]]
    BY <1>4
  <2> QED BY <1>2, <2>1 DEF CallWrites
<1>8. /\ d.status \in [Keys -> {Open, Success}] /\ d.claim \in [Keys -> Claims \cup {NoClaim}]
      /\ d.groups \in [Keys -> SUBSET Groups]
      /\ d.status[k] = Success /\ d.claim[k] = <<k, p>>
      /\ \A x \in Keys \ {k} : /\ d.status[x] = c.status[x]
                               /\ d.claim[x] = c.claim[x]
                               /\ d.groups[x] = c.groups[x]
  BY <1>4, <1>5, <1>6
<1>9. PostedLegs(EvaluatedContract(contract), k) = {}
  <2>1. c.status[k] # Success
    BY DEF SingleReverts, Open, Success
  <2> QED BY <2>1, LegsToPost
<1>10. EventsOf(k) = {}
  BY <1>9, PostedIsPosted
<1>11. PostedLegs(EvaluatedContract(d), k) = PostedLegs(EvaluatedContract(contract), k) \cup S
  <2>1. PostedLegs(EvaluatedContract(d), k) = FiringFor(d.claim[k][2])
    BY <1>8, LegsToPost
  <2>2. d.claim[k][2] = p
    BY <1>8
  <2> QED BY <1>9, <2>1, <2>2 DEF S
<1>12. \A i \in S : Rests(<<k, p, i>>)
  BY DEF SingleReverts, Rests
<1>14. KeyTracked(d, k)
  <2>1. ~Overflows(k, S, p)
    BY DEF SingleReverts, S
  <2> HIDE DEF d, c
  <2>2. \A kind \in {"debit", "credit"} : d.total[k][kind] < 2^Width
    BY <1>1, <1>5, <1>6, <2>1, TotalsFit DEF c
  <2>3. d.claim[k] # NoClaim /\ d.status[k] # Open
    BY <1>8, PairIsNotEmpty DEF Open, Success
  <2> QED BY <2>2, <2>3 DEF KeyTracked
<1> HIDE DEF d
<1>13. d = contract'
  BY DEF d
<1> QED BY <1>5, <1>6, <1>8, <1>10, <1>11, <1>12, <1>13, <1>14, PostingKeeps

\* An acceptance rests on a real quorum, and replaces none.
LEMMA AcceptClaimKeeps ==
  ASSUME ContractPlan, ContractInv, NEW q \in Policies, NEW k \in Keys, NEW c \in SignedClaims,
         AcceptClaim(q, k, c)
  PROVE  ContractInv'
<1>1. PICK sigs \in BoundedSeq(Signatures(q, ClaimDigest(q, k, c)), MaxSignatures) :
        /\ SignedQuorumMet(q, ClaimDigest(q, k, c), sigs)
        /\ guards' = [guards EXCEPT ![q].accepted[k] = c, ![q].backed[k] = Backed(q, k, c, sigs)]
  BY DEF AcceptClaim
<1>2. PICK n \in 0 .. MaxSignatures : sigs \in [1 .. n -> Signatures(q, ClaimDigest(q, k, c))]
  BY DEF BoundedSeq, SeqOf
<1>3. n \in Nat /\ DOMAIN sigs = 1 .. n /\ Len(sigs) = n
  BY <1>2 DEF ContractPlan
<1>4. GuardsOK /\ ContractOK
  BY DEF ContractInv
<1>5. Backed(q, k, c, sigs) = TRUE
  BY <1>1, <1>3, <1>4, QuorumIsBacked
<1> DEFINE g == guards[q]
           h == [g EXCEPT !.accepted[k] = c, !.backed[k] = TRUE]
<1>6. guards \in [Policies -> GuardRecords] /\ g \in GuardRecords
  BY <1>4 DEF GuardsOK
<1>7. guards' = [guards EXCEPT ![q] = h]
  <2>1. guards' = [guards EXCEPT ![q].accepted[k] = c, ![q].backed[k] = TRUE]
    BY <1>1, <1>5
  <2> QED BY <1>6, <2>1
<1> HIDE DEF g
<1>8. /\ h \in GuardRecords /\ h.observers = g.observers /\ h.threshold = g.threshold
      /\ h.accepted[k] = c /\ h.backed[k] = TRUE
      /\ \A x \in Keys \ {k} : h.accepted[x] = g.accepted[x] /\ h.backed[x] = g.backed[x]
  <2> DEFINE A == [g.accepted EXCEPT ![k] = c]
             B == [g.backed EXCEPT ![k] = TRUE]
  <2>1. h = [g EXCEPT !.accepted = A, !.backed = B]
    OBVIOUS
  <2>2. /\ g.accepted \in [Keys -> SignedClaims \cup {NoClaim}] /\ g.backed \in [Keys -> BOOLEAN]
    BY <1>6 DEF GuardRecords
  <2>3. /\ A \in [Keys -> SignedClaims \cup {NoClaim}] /\ A[k] = c
        /\ \A x \in Keys \ {k} : A[x] = g.accepted[x]
    BY <2>2
  <2>4. /\ B \in [Keys -> BOOLEAN] /\ B[k] = TRUE
        /\ \A x \in Keys \ {k} : B[x] = g.backed[x]
    BY <2>2
  <2> DEFINE AA == [Keys -> SignedClaims \cup {NoClaim}]
             BB == [Keys -> BOOLEAN]
  <2>5. A \in AA /\ B \in BB
    BY <2>3, <2>4
  <2>6. GuardRecords = [observers : SUBSET Signers, threshold : Int, cachedChain : Chains,
                        accepted : AA, backed : BB]
    BY DEF GuardRecords
  <2> HIDE DEF A, B, AA, BB, h
  <2>7. /\ h \in GuardRecords /\ h.observers = g.observers /\ h.threshold = g.threshold
        /\ h.accepted = A /\ h.backed = B
    BY <1>6, <2>1, <2>5, <2>6
  <2> QED BY <2>3, <2>4, <2>7
<1> HIDE DEF h
<1>9. guards' \in [Policies -> GuardRecords] /\ guards'[q] = h
      /\ \A r \in Policies \ {q} : guards'[r] = guards[r]
  BY <1>6, <1>7, <1>8
<1>10. GuardsOK'
  <2> SUFFICES ASSUME NEW r \in Policies
               PROVE  /\ guards'[r].threshold \in 1 .. Cardinality(guards'[r].observers)
                      /\ \A x \in Keys : guards'[r].accepted[x] # NoClaim => guards'[r].backed[x]
    BY <1>9 DEF GuardsOK, QuorumsAreReal
  <2>1. /\ guards[r].threshold \in 1 .. Cardinality(guards[r].observers)
        /\ \A x \in Keys : guards[r].accepted[x] # NoClaim => guards[r].backed[x]
    BY <1>4 DEF GuardsOK, QuorumsAreReal
  <2>2. CASE r = q
    <3>1. guards'[r] = h /\ guards[r] = g
      BY <1>9, <2>2 DEF g
    <3>2. h.threshold \in 1 .. Cardinality(h.observers)
      BY <1>8, <2>1, <3>1
    <3>3. \A x \in Keys : h.accepted[x] # NoClaim => h.backed[x]
      BY <1>8, <2>1, <3>1
    <3> QED BY <3>1, <3>2, <3>3
  <2>3. CASE r # q
    BY <1>9, <2>1, <2>3
  <2> QED BY <2>2, <2>3
<1>11. contract' = contract /\ g.accepted[k] = NoClaim
  BY DEF AcceptClaim, g
<1>12. \A r \in Policies, x \in Keys :
         guards[r].accepted[x] # NoClaim => guards'[r].accepted[x] = guards[r].accepted[x]
  BY <1>8, <1>9, <1>11 DEF g
<1>13. ASSUME NEW x \in Keys PROVE EventsAreCommits(x)'
  <2>1. EventsAreCommits(x)
    BY <1>4 DEF ContractOK
  <2>2. EventsOf(x)' = EventsOf(x)
    BY <1>11 DEF EventsOf
  <2>3. PostedLegs(EvaluatedContract(contract), x)' = PostedLegs(EvaluatedContract(contract), x)
    BY <1>11
  <2>4. ASSUME NEW e \in EventsOf(x) PROVE Rests(e)'
    <3>1. Rests(e) /\ e[1] = x
      BY <2>1 DEF EventsAreCommits, EventsOf
    <3>2. CASE Temporal
      <4>1. e[3] \in EffectIds
        <5>1. PICK D \in SUBSET PostingRows : contract.events = SetToBag(D)
          BY <1>4 DEF ContractOK, ContractRecords
        <5>2. e \in PostingRows
          BY <5>1, BagOfSet DEF EventsOf
        <5> QED BY <5>2 DEF PostingRows
      <4>2. Effects[e[3]].guard \in Policies
        BY <3>2, <4>1 DEF ContractPlan, Groups
      <4>3. guards[Effects[e[3]].guard].accepted[x] = <<x, e[2]>>
        BY <3>1, <3>2 DEF Rests
      <4>4. guards'[Effects[e[3]].guard].accepted[x] = <<x, e[2]>>
        BY <1>12, <4>2, <4>3, PairIsNotEmpty
      <4> QED BY <3>1, <3>2, <4>4 DEF Rests
    <3>3. CASE ~Temporal /\ Gated
      <4>1. IsAccepted(x)
        BY <3>1, <3>3 DEF Rests
      <4>2. IsAccepted(x)'
        BY <1>12, <4>1 DEF IsAccepted
      <4> QED BY <3>1, <3>3, <4>2 DEF Rests
    <3>4. CASE ~Temporal /\ ~Gated
      BY <1>11, <3>1, <3>4 DEF Rests
    <3> QED BY <3>2, <3>3, <3>4
  <2> QED BY <1>11, <2>1, <2>2, <2>3, <2>4 DEF EventsAreCommits
<1>14. ContractOK'
  BY <1>4, <1>11, <1>13 DEF ContractOK
<1> QED BY <1>10, <1>14 DEF ContractInv

\* A constructor that does not revert leaves a quorum that can be met.
LEMMA DeployedGuards ==
  ASSUME ContractPlan, NEW args \in Deployments, ~ConstructorReverts(args), chain \in Chains
  PROVE  /\ Deploy(args) \in GuardRecords
         /\ Deploy(args).threshold \in 1 .. Cardinality(Deploy(args).observers)
         /\ \A k \in Keys : Deploy(args).accepted[k] = NoClaim
<1> DEFINE O == ToSet(args[1]) \ {Zero}
<1>1. O \in SUBSET Signers
  <2>1. args[1] \in Seq(Signers \cup {Zero})
    BY DEF ContractPlan
  <2>2. \A i \in DOMAIN args[1] : args[1][i] \in Signers \cup {Zero}
    BY <2>1
  <2> QED BY <2>2 DEF ToSet
<1>2. IsFiniteSet(O) /\ Cardinality(O) \in Nat
  BY <1>1, FS_Subset, FS_CardinalityType DEF ContractPlan
<1>3. args[2] \in Int /\ args[2] >= 0
  BY DEF ContractPlan
<1>4. Authorized(args).count = Cardinality(O) /\ Authorized(args).set = O
  BY DEF Authorized
<1> HIDE DEF O
<1>5. args[2] \in 1 .. Cardinality(O)
  BY <1>2, <1>3, <1>4 DEF ConstructorReverts
<1>6. Deploy(args) = [observers |-> O, threshold |-> args[2], cachedChain |-> chain,
                      accepted |-> [k \in Keys |-> NoClaim], backed |-> [k \in Keys |-> FALSE]]
  BY <1>4 DEF Deploy
<1> QED BY <1>1, <1>3, <1>5, <1>6 DEF GuardRecords

\* The contract as deployed, with its guards, satisfies the inductive invariant.
LEMMA ContractStarts == ASSUME ContractPlan, Deployed PROVE ContractInv
<1>1. \A q \in Policies : \E args \in Deployments : ~ConstructorReverts(args) /\ guards[q] = Deploy(args)
  BY DEF Deployed
<1>2. chain \in Chains /\ guards = [q \in Policies |-> guards[q]]
  BY DEF Deployed
<1>3. \A q \in Policies : /\ guards[q] \in GuardRecords
                          /\ guards[q].threshold \in 1 .. Cardinality(guards[q].observers)
                          /\ \A k \in Keys : guards[q].accepted[k] = NoClaim
  BY <1>1, <1>2, DeployedGuards
<1>4. GuardsOK
  BY <1>2, <1>3 DEF GuardsOK, QuorumsAreReal
<1>5. contract = [status |-> [k \in Keys |-> Open], claim |-> [k \in Keys |-> NoClaim],
                  groups |-> [k \in Keys |-> {}], attested |-> {},
                  net |-> [k \in Keys |-> [l \in Ledgers |-> 0]],
                  total |-> [k \in Keys |-> [kind \in {"debit", "credit"} |-> 0]],
                  events |-> SetToBag({})]
  BY DEF Deployed, EmptyBag, SetToBag
<1>6. contract \in ContractRecords
  <2> DEFINE E == {SetToBag(D) : D \in {D \in SUBSET PostingRows : IsFiniteSet(D)}}
  <2>1. {} \in {D \in SUBSET PostingRows : IsFiniteSet(D)}
    BY FS_EmptySet
  <2>2. SetToBag({}) \in E
    BY <2>1
  <2>3. ContractRecords =
          [status : [Keys -> {Open, Success}], claim : [Keys -> Claims \cup {NoClaim}],
           groups : [Keys -> SUBSET Groups], attested : SUBSET Keys,
           net : [Keys -> [Ledgers -> Int]], total : [Keys -> [{"debit", "credit"} -> Int]],
           events : E]
    BY DEF ContractRecords
  <2> HIDE DEF E
  <2> QED BY <1>5, <2>2, <2>3
<1>7. DOMAIN contract.events = {} /\ \A k \in Keys : EventsOf(k) = {} /\ EventsIn(contract, k) = {}
  BY <1>5, BagOfSet DEF EventsOf, EventsIn
<1>8. ASSUME NEW k \in Keys PROVE EventsAreCommits(k)
  <2>1. contract.status[k] = Open /\ contract.groups[k] = {}
    BY <1>5
  <2>2. PostedLegs(EvaluatedContract(contract), k) = {}
    <3>1. Open # Success
      BY DEF Open, Success
    <3> QED BY <2>1, <3>1, LegsToPost, NoLegs
  <2> QED BY <1>7, <2>1, <2>2 DEF EventsAreCommits, Open, Success
<1>9. ASSUME NEW k \in Keys PROVE PositionsAgree(contract, k)
  <2>1. \A kind \in {"debit", "credit"} : contract.total[k][kind] = 0 /\ OfKind(contract, k, kind) = {}
    BY <1>5, <1>7 DEF OfKind
  <2>2. \A l \in Ledgers : contract.net[k][l] = 0 /\ OfLedger(contract, k, l) = {}
    BY <1>5, <1>7 DEF OfLedger
  <2> QED BY <2>1, <2>2, SumEmpty DEF PositionsAgree
<1>10. ASSUME NEW k \in Keys PROVE KeyTracked(contract, k)
  <2>1. \A kind \in {"debit", "credit"} : contract.total[k][kind] < 2^Width
    <3> DEFINE m == 2^Width
    <3>1. \A kind \in {"debit", "credit"} : contract.total[k][kind] = 0
      BY <1>5
    <3>2. m \in Nat \ {0}
      BY DEF ContractPlan
    <3> HIDE DEF m
    <3>3. 0 < m
      BY <3>2
    <3> QED BY <3>1, <3>3 DEF m
  <2>2. contract.status[k] = Open /\ contract.claim[k] = NoClaim /\ contract.groups[k] = {}
    BY <1>5
  <2>3. Temporal => Groups # {}
    BY DEF Temporal, Groups
  <2> QED BY <2>1, <2>2, <2>3 DEF KeyTracked
<1> QED BY <1>4, <1>6, <1>8, <1>9, <1>10 DEF ContractInv, ContractOK

\* attest() adds a key, and nothing that rests on one loses it.
LEMMA AttestKeeps ==
  ASSUME ContractInv, NEW k \in Keys, Attest(k)
  PROVE  ContractInv'
<1> DEFINE c == contract
           d == contract'
<1>1. guards' = guards /\ d = [c EXCEPT !.attested = @ \cup {k}] /\ c \in ContractRecords
  BY DEF Attest, ContractInv, ContractOK
<1>2. /\ d.status = c.status /\ d.claim = c.claim /\ d.groups = c.groups /\ d.net = c.net
      /\ d.total = c.total /\ d.events = c.events /\ d \in ContractRecords
      /\ c.attested \subseteq d.attested
  <2> DEFINE E == {SetToBag(D) : D \in {D \in SUBSET PostingRows : IsFiniteSet(D)}}
             A == [Keys -> [Ledgers -> Int]]
             T == [Keys -> [{"debit", "credit"} -> Int]]
  <2>1. ContractRecords =
          [status : [Keys -> {Open, Success}], claim : [Keys -> Claims \cup {NoClaim}],
           groups : [Keys -> SUBSET Groups], attested : SUBSET Keys,
           net : A, total : T, events : E]
    BY DEF ContractRecords
  <2> HIDE DEF E, A, T, c, d
  <2> QED BY <1>1, <2>1
<1>3. GuardsOK'
  BY <1>1 DEF ContractInv, GuardsOK, QuorumsAreReal
<1>4. ASSUME NEW x \in Keys PROVE EventsAreCommits(x)'
  <2>1. EventsAreCommits(x)
    BY DEF ContractInv, ContractOK
  <2>2. EventsOf(x)' = EventsOf(x)
    BY <1>2 DEF EventsOf
  <2>3. PostedLegs(EvaluatedContract(contract), x)' = PostedLegs(EvaluatedContract(c), x)
    <3> HIDE DEF c, d
    <3>1. PostedLegs(EvaluatedContract(d), x) = PostedLegs(EvaluatedContract(c), x)
      BY <1>2, LegsToPost
    <3> QED BY <3>1 DEF d
  <2>4. \A e \in EventsOf(x) : Rests(e)'
    <3> SUFFICES ASSUME NEW e \in EventsOf(x) PROVE Rests(e)'
      OBVIOUS
    <3>1. Rests(e)
      BY <2>1 DEF EventsAreCommits
    <3> QED BY <1>1, <1>2, <3>1 DEF Rests, IsAccepted
  <2> QED BY <1>2, <2>1, <2>2, <2>3, <2>4 DEF EventsAreCommits
<1>5. ASSUME NEW x \in Keys PROVE PositionsAgree(contract, x)'
  <2>1. PositionsAgree(c, x)
    BY DEF ContractInv, ContractOK
  <2> HIDE DEF c, d
  <2>2. PositionsAgree(d, x)
    BY <1>2, <2>1 DEF PositionsAgree, EventAmounts, EventNets, OfKind, OfLedger, EventsIn
  <2> QED BY <2>2 DEF d
<1>6. ASSUME NEW x \in Keys PROVE KeyTracked(contract, x)'
  <2>1. KeyTracked(c, x)
    BY DEF ContractInv, ContractOK
  <2> HIDE DEF c, d
  <2>2. KeyTracked(d, x)
    BY <1>2, <2>1 DEF KeyTracked
  <2> QED BY <2>2 DEF d
<1> QED BY <1>2, <1>3, <1>4, <1>5, <1>6 DEF ContractInv, ContractOK

\* A fork changes the chain, which no acceptance, event or position depends on.
LEMMA NothingMoves ==
  ASSUME ContractInv, guards' = guards, contract' = contract
  PROVE  ContractInv'
<1>1. GuardsOK'
  BY DEF ContractInv, GuardsOK, QuorumsAreReal
<1>2. ASSUME NEW x \in Keys PROVE EventsAreCommits(x)'
  <2>1. EventsAreCommits(x)
    BY DEF ContractInv, ContractOK
  <2>2. EventsOf(x)' = EventsOf(x)
    BY DEF EventsOf
  <2>3. PostedLegs(EvaluatedContract(contract), x)' = PostedLegs(EvaluatedContract(contract), x)
    OBVIOUS
  <2>4. \A e \in EventsOf(x) : Rests(e)' <=> Rests(e)
    BY DEF Rests, IsAccepted
  <2> QED BY <2>1, <2>2, <2>3, <2>4 DEF EventsAreCommits
<1>3. ASSUME NEW x \in Keys PROVE PositionsAgree(contract, x)' /\ KeyTracked(contract, x)'
  BY DEF ContractInv, ContractOK
<1> QED BY <1>1, <1>2, <1>3 DEF ContractInv, ContractOK

\* Every transaction keeps the invariant.
LEMMA ContractStep ==
  ASSUME ContractPlan, ContractInv, [Transaction]_solVars
  PROVE  ContractInv'
<1>1. CASE UNCHANGED solVars \/ Fork
  BY <1>1, NothingMoves DEF solVars, Fork
<1>2. ASSUME NEW q \in Policies, NEW k \in Keys, NEW c \in SignedClaims, AcceptClaim(q, k, c)
      PROVE  ContractInv'
  BY <1>2, AcceptClaimKeeps
<1>3. ASSUME NEW k \in Keys, Attest(k) PROVE ContractInv'
  BY <1>3, AttestKeeps
<1>4. ASSUME NEW k \in Keys, NEW p \in Payloads, Call(k, p) PROVE ContractInv'
  <2>1. ContractOK /\ GuardsOK /\ guards' = guards
    BY <1>4 DEF Call, ContractInv
  <2>2. CASE Temporal
    <3>1. ~TemporalReverts(k, p) /\ contract' = TemporalCall(k, p)
      BY <1>4, <2>2 DEF Call, CallReverts, AfterCall
    <3> QED BY <2>1, <2>2, <3>1, TemporalCallKeeps DEF ContractInv, GuardsOK, QuorumsAreReal
  <2>3. CASE ~Temporal
    <3>1. ~SingleReverts(k, p) /\ contract' = SingleCall(k, p)
      BY <1>4, <2>3 DEF Call, CallReverts, AfterCall
    <3> QED BY <2>1, <2>3, <3>1, SingleCallKeeps DEF ContractInv, GuardsOK, QuorumsAreReal
  <2> QED BY <2>2, <2>3
<1> QED BY <1>1, <1>2, <1>3, <1>4 DEF Transaction

\* What the events and the positions say is what the invariant does.
LEMMA EventsFollow == ASSUME ContractPlan, ContractInv PROVE EventsAreEarned
<1> SUFFICES ASSUME NEW k \in Keys PROVE PositionsAreSums(k)
  BY DEF ContractInv, GuardsOK, ContractOK, EventsAreEarned
<1>1. /\ PositionsAgree(contract, k) /\ contract.net \in [Keys -> [Ledgers -> Int]]
      /\ EventsIn(contract, k) = EventsOf(k)
  BY DEF ContractInv, ContractOK, ContractRecords, EventsIn, EventsOf
<1>2. \A kind \in {"debit", "credit"} :
        OfKind(contract, k, kind) = {e \in EventsOf(k) : Effects[e[3]].kind = kind}
  BY <1>1 DEF OfKind
<1>3. ASSUME NEW l \in Ledgers
      PROVE  (contract.net[k][l]
                - SumFunctionOnSet(EventDeltas(contract),
                                   {e \in EventsOf(k) : Ledger(e[3], e[2]) = l})) % 2^Width = 0
  <2> DEFINE O == OfLedger(contract, k, l)
             f == EventDeltas(contract)
             g == EventNets(contract)
             s == SumFunctionOnSet(f, O)
             m == 2^Width
             n == contract.net[k][l]
  <2>1. O = {e \in EventsOf(k) : Ledger(e[3], e[2]) = l}
    BY <1>1 DEF OfLedger
  <2>2. n \in Int /\ n = SumFunctionOnSet(g, O)
    BY <1>1 DEF PositionsAgree
  <2>3. m \in Nat \ {0}
    BY DEF ContractPlan
  <2>4. PICK D \in SUBSET PostingRows : IsFiniteSet(D) /\ contract.events = SetToBag(D)
    BY DEF ContractInv, ContractOK, ContractRecords
  <2>5. DOMAIN contract.events = D /\ \A e \in D : contract.events[e] = 1
    BY <2>4, BagOfSet
  <2>6. O \subseteq D /\ IsFiniteSet(O)
    <3>1. O \subseteq D
      BY <2>5 DEF OfLedger, EventsIn
    <3> HIDE DEF O
    <3> QED BY <2>4, <3>1, FS_Subset
  <2>7. \A e \in O : f[e] \in Int /\ g[e] \in Int /\ SameWord(g[e], f[e], m)
    <3> SUFFICES ASSUME NEW e \in O PROVE f[e] \in Int /\ g[e] \in Int /\ SameWord(g[e], f[e], m)
      OBVIOUS
    <3>1. e \in D /\ e[3] \in EffectIds /\ e[2] \in Payloads
      BY <2>4, <2>6 DEF PostingRows
    <3>2. f[e] = Delta(e[3], e[2]) /\ g[e] = NetDelta(e[3], e[2])
      <4> HIDE DEF O, f, g
      <4> QED BY <2>5, <3>1, EventValues DEF f, g
    <3> HIDE DEF O, f, g
    <3> QED BY <3>1, <3>2, NetIsSameWord
  <2>8. s \in Int /\ SameWord(n, s, m)
    <3> HIDE DEF O, f, g, m
    <3>1. m \in Nat
      BY <2>3
    <3>2. \A e \in O : f[e] \in Int
      BY <2>7
    <3>3. SumFunctionOnSet(f, O) \in Int
      BY <2>6, <3>2, SumInt
    <3>4. SameWord(SumFunctionOnSet(g, O), SumFunctionOnSet(f, O), m)
      BY <2>6, <2>7, <3>1, SameWordSums
    <3> QED BY <2>2, <3>3, <3>4
  <2> HIDE DEF O, f, s, m, n
  <2>9. (n - s) % m = 0
    BY <2>2, <2>3, <2>8, SameWordLeavesNone
  <2> QED BY <2>1, <2>9 DEF n, s, m, f
<1> QED BY <1>1, <1>2, <1>3 DEF PositionsAreSums, PositionsAgree

\* Whatever is signed, submitted, accepted, forked, called and reverted: each
\* acceptance was signed by a quorum, the events of a key are the legs of what
\* it committed, once each, under the claim that was accepted, and the totals
\* and net positions are their sums in the words that hold them.
THEOREM ContractEarned == ASSUME ContractPlan PROVE ContractSpec => []EventsAreEarned
<1>1. Deployed => ContractInv
  BY ContractStarts
<1>2. ContractInv /\ [Transaction]_solVars => ContractInv'
  BY ContractStep
<1>3. ContractInv => EventsAreEarned
  BY EventsFollow
<1> QED BY <1>1, <1>2, <1>3, PTL DEF ContractSpec

-----------------------------------------------------------------------------
(* What a contract commits is what the reference evaluator commits         *)

\* A sum of naturals over part of a set is at most that over the set.
LEMMA SumOfPart ==
  ASSUME NEW f, NEW S, IsFiniteSet(S), \A x \in S : f[x] \in Nat, NEW T \in SUBSET S
  PROVE  SumFunctionOnSet(f, T) <= SumFunctionOnSet(f, S)
<1>1. IsFiniteSet(T) /\ IsFiniteSet(S \ T)
  BY FS_Subset
<1>2. SumFunctionOnSet(f, T) \in Nat /\ SumFunctionOnSet(f, S \ T) \in Nat
  BY <1>1, SumNat
<1>3. S = T \cup (S \ T) /\ T \cap (S \ T) = {}
  OBVIOUS
<1>4. SumFunctionOnSet(f, T \cup (S \ T)) = SumFunctionOnSet(f, T) + SumFunctionOnSet(f, S \ T)
  BY <1>1, <1>3, SumSplits
<1> DEFINE a == SumFunctionOnSet(f, T)
           b == SumFunctionOnSet(f, S \ T)
<1>5. SumFunctionOnSet(f, S) = a + b
  BY <1>3, <1>4, Zenon
<1> HIDE DEF a, b
<1>6. a \in Nat /\ b \in Nat => a <= a + b
  OBVIOUS
<1> QED BY <1>2, <1>5, <1>6 DEF a, b

\* A sum lies within the sum of what bounds each summand.
LEMMA SumWithin ==
  ASSUME NEW f, NEW g, NEW S, IsFiniteSet(S),
         \A x \in S : f[x] \in Nat /\ g[x] \in Int /\ -f[x] <= g[x] /\ g[x] <= f[x]
  PROVE  /\ SumFunctionOnSet(f, S) \in Nat /\ SumFunctionOnSet(g, S) \in Int
         /\ -SumFunctionOnSet(f, S) <= SumFunctionOnSet(g, S)
         /\ SumFunctionOnSet(g, S) <= SumFunctionOnSet(f, S)
<1> DEFINE u == [x \in S |-> f[x] + g[x]]
           d == [x \in S |-> f[x] - g[x]]
           w == SumFunctionOnSet(f, S)
           v == SumFunctionOnSet(g, S)
<1>1. w \in Nat /\ v \in Int
  BY SumNat, SumInt
<1>2. \A x \in S : u[x] \in Nat /\ d[x] \in Nat /\ d[x] \in Int
                   /\ u[x] = f[x] + g[x] /\ f[x] = d[x] + g[x]
  OBVIOUS
<1> HIDE DEF u, d
<1>3. SumFunctionOnSet(u, S) = w + v
  BY <1>2, SumPlus
<1>4. w = SumFunctionOnSet(d, S) + v
  BY <1>2, SumPlus
<1>5. SumFunctionOnSet(u, S) \in Nat /\ SumFunctionOnSet(d, S) \in Nat
  BY <1>2, SumNat
<1> HIDE DEF w, v
<1>6. -w <= v /\ v <= w
  BY <1>1, <1>3, <1>4, <1>5
<1> QED BY <1>1, <1>6 DEF w, v

\* Amounts are naturals, on ledgers there are.
LEMMA AmountType ==
  ASSUME ContractPlan, NEW i \in EffectIds, NEW p \in Payloads
  PROVE  /\ Amount(i, p) \in Nat /\ Amounts(p)[i] = Amount(i, p) /\ NetDeltas(p)[i] = NetDelta(i, p)
         /\ Deltas(p)[i] = Delta(i, p)
         /\ Effects[i].kind \in {"debit", "credit"} /\ Ledger(i, p) \in Ledgers
         /\ Effects[i].leg[p].account \in Accounts
<1>1. OperandCode(i, p) = None
  BY DEF ContractPlan
<1>2. Effects[i].leg[p] \in Operands /\ Effects[i].leg[p].amount \in Int
  BY EffectType
<1>3. Effects[i].kind \in {"debit", "credit"} /\ ~(Effects[i].leg[p].amount < 0)
  BY <1>1, <1>2 DEF OperandCode, None
<1>4. Effects[i].leg[p].account \in Accounts
  BY <1>2 DEF Operands
<1>5. Amount(i, p) \in Nat
  BY <1>2, <1>3 DEF Amount
<1> QED BY <1>3, <1>4, <1>5 DEF Amounts, NetDeltas, Deltas, Ledger, Ledgers

\* Groups that balance one by one balance together.
LEMMA GroupsBalance ==
  ASSUME ContractPlan, NEW gs \in SUBSET Groups, NEW p \in Payloads
  PROVE  SumOf("debit", Legs(gs), p) = SumOf("credit", Legs(gs), p)
<1> DEFINE t == [g \in gs |-> SumOf("debit", Legs({g}), p)]
           b == [i \in EffectIds |-> Effects[i].guard]
<1>1. IsFiniteSet(gs)
  BY GroupsFinite, FS_Subset
<1>2. ASSUME NEW kind \in {"debit", "credit"}
      PROVE  SumOf(kind, Legs(gs), p) = SumFunctionOnSet(t, gs)
  <2> DEFINE S == {i \in EffectIds : Effects[i].kind = kind}
             f == Amounts(p)
  <2>1. IsFiniteSet(S) /\ \A x \in S : f[x] \in Int
    BY LegsFinite, AmountType
  <2>2. ASSUME NEW g \in gs PROVE t[g] = SumFunctionOnSet(f, Bucket(S, b, g))
    <3>1. t[g] = SumOf(kind, Legs({g}), p)
      BY DEF ContractPlan
    <3>2. {i \in Legs({g}) : Effects[i].kind = kind} = Bucket(S, b, g)
      BY DEF Legs, Bucket
    <3> QED BY <3>1, <3>2 DEF SumOf
  <2>3. {i \in Legs(gs) : Effects[i].kind = kind} = Buckets(S, b, gs)
    BY DEF Legs, Buckets
  <2> HIDE DEF t, b, S, f
  <2>4. SumFunctionOnSet(t, gs) = SumFunctionOnSet(f, Buckets(S, b, gs))
    BY <1>1, <2>1, <2>2, SumBuckets
  <2> QED BY <2>3, <2>4 DEF SumOf, f
<1> HIDE DEF t
<1> QED BY <1>2

-----------------------------------------------------------------------------
(* The order of the postings                                               *)

\* i comes first of S in the order in which legs are posted.
FirstOf(S, i) == i \in S /\ \A j \in S : PostingOrder(i, j)

\* A nonempty set of legs has a first one.
LEMMA FirstPosting == ASSUME NEW S \in SUBSET EffectIds, S # {} PROVE \E i \in S : FirstOf(S, i)
<1>1. EffectIds \subseteq Nat
  BY EffectIdsInterval
<1>2. CASE ~Temporal
  <2>1. PICK i \in S : \A j \in S : i <= j
    BY <1>1, LeastExists
  <2> QED BY <1>2, <2>1 DEF FirstOf, PostingOrder
<1>3. CASE Temporal
  <2> DEFINE F == {FirstIndex(Effects[i].guard) : i \in S}
  <2>1. \A i \in S : FirstIndex(Effects[i].guard) \in Nat
    <3>1. \A i \in S : Effects[i].guard \in Groups
      BY DEF Groups
    <3> QED BY <1>1, <3>1, FirstIndexInPlan
  <2>2. F \in SUBSET Nat /\ F # {}
    BY <2>1
  <2>3. PICK m \in F : \A n \in F : m <= n
    BY <2>2, LeastExists
  <2> DEFINE L == {i \in S : FirstIndex(Effects[i].guard) = m}
  <2>4. L \in SUBSET Nat /\ L # {}
    BY <1>1
  <2>5. PICK i \in L : \A j \in L : i <= j
    BY <2>4, LeastExists
  <2>6. ASSUME NEW j \in S PROVE GroupOrder(i, j)
    <3>1. m <= FirstIndex(Effects[j].guard) /\ m = FirstIndex(Effects[i].guard) /\ m \in Nat
      BY <2>2, <2>3, <2>5
    <3>2. FirstIndex(Effects[j].guard) = m => i <= j
      BY <2>5
    <3> QED BY <2>1, <3>1, <3>2 DEF GroupOrder
  <2> QED BY <1>3, <2>5, <2>6 DEF FirstOf, PostingOrder
<1> QED BY <1>2, <1>3

\* No two legs come before each other.
LEMMA GroupOrderIsStrict ==
  ASSUME NEW i \in EffectIds, NEW j \in EffectIds, GroupOrder(i, j), GroupOrder(j, i)
  PROVE  i = j
<1>1. i \in Nat /\ j \in Nat
  BY EffectIdsInterval
<1>2. FirstIndex(Effects[i].guard) \in Nat /\ FirstIndex(Effects[j].guard) \in Nat
  BY FirstIndexInPlan, EffectIdsInterval DEF Groups
<1> QED BY <1>1, <1>2 DEF GroupOrder

LEMMA OrderIsStrict ==
  ASSUME NEW i \in EffectIds, NEW j \in EffectIds, PostingOrder(i, j), PostingOrder(j, i)
  PROVE  i = j
BY GroupOrderIsStrict, EffectIdsInterval DEF PostingOrder

-----------------------------------------------------------------------------
(* Amounts beyond the evaluator's money                                    *)

\* What is staged for an account is what was on it and what its legs put there.
StagedOn(bal, S, p, a) == bal[a] + SumFunctionOnSet(Deltas(p), LegsOn(S, p, a))
LEMMA StagedIsSum ==
  ASSUME ContractPlan, NEW bal \in [Accounts -> Int], NEW S \in SUBSET EffectIds,
         NEW p \in Payloads, NEW a \in Accounts
  PROVE  Staged(bal, S, p)[a] = StagedOn(bal, S, p, a) /\ StagedOn(bal, S, p, a) \in Int
<1> DEFINE T == LegsOn(S, p, a)
<1>1. IsFiniteSet(T) /\ \A i \in T : Deltas(p)[i] \in Int
  BY LegsFinite, AmountType, EffectType DEF LegsOn
<1>2. SumFunctionOnSet(Deltas(p), T) \in Int
  BY <1>1, SumInt
<1>3. T = {} => SumFunctionOnSet(Deltas(p), T) = 0
  BY SumEmpty
<1>4. bal[a] \in Int
  OBVIOUS
<1> HIDE DEF T
<1> DEFINE x == SumFunctionOnSet(Deltas(p), T)
           y == bal[a]
<1>5. Staged(bal, S, p)[a] = IF T = {} THEN y ELSE y + x
  BY DEF Staged, T
<1>6. StagedOn(bal, S, p, a) = y + x
  BY DEF StagedOn, T
<1>7. T = {} => x = 0
  BY <1>3
<1> HIDE DEF x, y
<1>8. x \in Int /\ y \in Int
  BY <1>2, <1>4 DEF x, y
<1> QED BY <1>5, <1>6, <1>7, <1>8

\* One leg more moves its own account by its own amount.
LEMMA OneLegMoves ==
  ASSUME ContractPlan, NEW bal \in [Accounts -> Int], NEW S \in SUBSET EffectIds,
         NEW p \in Payloads, NEW j \in EffectIds \ S
  PROVE  \E a \in Accounts :
           /\ Staged(bal, S \cup {j}, p)[a] = Staged(bal, S, p)[a] + Delta(j, p)
           /\ Staged(bal, S, p)[a] \in Int
<1> DEFINE a == Effects[j].leg[p].account
           T == LegsOn(S, p, a)
           f == Deltas(p)
<1>1. a \in Accounts /\ f[j] = Delta(j, p) /\ Delta(j, p) \in Int
  BY AmountType, EffectType
<1>2. LegsOn(S \cup {j}, p, a) = T \cup {j} /\ j \notin T /\ S \cup {j} \in SUBSET EffectIds
  BY DEF LegsOn
<1>3. IsFiniteSet(T \cup {j}) /\ \A i \in T \cup {j} : f[i] \in Int
  BY LegsFinite, AmountType, EffectType DEF LegsOn
<1>4. /\ Staged(bal, S, p)[a] = StagedOn(bal, S, p, a) /\ StagedOn(bal, S, p, a) \in Int
      /\ Staged(bal, S \cup {j}, p)[a] = StagedOn(bal, S \cup {j}, p, a)
      /\ bal[a] \in Int
  BY <1>1, <1>2, StagedIsSum
<1> HIDE DEF f, T, a
<1>5. SumFunctionOnSet(f, T \cup {j}) = f[j] + SumFunctionOnSet(f, (T \cup {j}) \ {j})
  BY <1>3, SumTakesOut
<1>6. (T \cup {j}) \ {j} = T
  BY <1>2
<1>7. SumFunctionOnSet(f, T) \in Int
  <2>1. IsFiniteSet(T)
    BY <1>3, FS_Subset
  <2> QED BY <1>3, <2>1, SumInt
<1>8. Staged(bal, S \cup {j}, p)[a] = bal[a] + SumFunctionOnSet(f, T \cup {j})
  BY <1>2, <1>4 DEF StagedOn, f
<1>9. Staged(bal, S, p)[a] = bal[a] + SumFunctionOnSet(f, T)
  BY <1>4 DEF StagedOn, f, T
<1>10. Staged(bal, S \cup {j}, p)[a] = Staged(bal, S, p)[a] + Delta(j, p)
  <2> DEFINE u == Staged(bal, S, p)[a]
             v == Staged(bal, S \cup {j}, p)[a]
             m == SumFunctionOnSet(f, T)
             n == SumFunctionOnSet(f, T \cup {j})
             d == Delta(j, p)
             b == bal[a]
  <2>1. n = d + m /\ v = b + n /\ u = b + m /\ d \in Int /\ m \in Int /\ b \in Int
    BY <1>1, <1>4, <1>5, <1>6, <1>7, <1>8, <1>9
  <2> HIDE DEF u, v, m, n, d, b
  <2>2. v = u + d
    BY <2>1
  <2> QED BY <2>2 DEF u, v, d
<1> QED BY <1>1, <1>4, <1>10

\* Posting the legs of S, in their order, takes a balance out of its range.
LeavesRange(bal, S, p) == \E i \in S : Staged(bal, {j \in S : PostingOrder(j, i)}, p) \notin Balances

\* Two legs of a payload beyond the evaluator's money cannot both be posted: one
\* of them takes a balance out of its range.
LEMMA BeyondOverflows ==
  ASSUME ContractPlan, NEW bal \in [Accounts -> Int], NEW S \in SUBSET EffectIds,
         NEW p \in Payloads, BeyondBalances(p), NEW x \in S, NEW y \in S, x # y
  PROVE  LeavesRange(bal, S, p)
<1>1. PICK i \in S : FirstOf(S, i)
  BY FirstPosting
<1>2. PICK j \in S \ {i} : FirstOf(S \ {i}, j)
  BY FirstPosting
<1>3. {n \in S : PostingOrder(n, i)} = {i}
  BY <1>1, OrderIsStrict DEF FirstOf
<1>4. {n \in S : PostingOrder(n, j)} = {i} \cup {j}
  BY <1>1, <1>2, OrderIsStrict DEF FirstOf
<1>5. PICK a \in Accounts :
        /\ Staged(bal, {i} \cup {j}, p)[a] = Staged(bal, {i}, p)[a] + Delta(j, p)
        /\ Staged(bal, {i}, p)[a] \in Int
  BY OneLegMoves
<1>6. Delta(j, p) > 2 * MaxBalance + 1 \/ -Delta(j, p) > 2 * MaxBalance + 1
  <2>1. Amount(j, p) > 2 * MaxBalance + 1 /\ Amount(j, p) \in Nat
    BY AmountType DEF BeyondBalances
  <2>2. Delta(j, p) = Amount(j, p) \/ Delta(j, p) = -Amount(j, p)
    BY DEF Delta, Amount
  <2> QED BY <2>1, <2>2
<1> SUFFICES ASSUME Staged(bal, {i}, p) \in Balances, Staged(bal, {i} \cup {j}, p) \in Balances
             PROVE  FALSE
  BY <1>3, <1>4 DEF LeavesRange
<1>7. Staged(bal, {i}, p)[a] \in Balance /\ Staged(bal, {i} \cup {j}, p)[a] \in Balance
  BY DEF Balances
<1>8. MaxBalance \in Nat /\ Delta(j, p) \in Int
  BY PlanAssumption, EffectType DEF PlanAssumption
<1> DEFINE u == Staged(bal, {i}, p)[a]
           v == Staged(bal, {i} \cup {j}, p)[a]
           d == Delta(j, p)
<1>9. v = u + d /\ u \in Balance /\ v \in Balance /\ d \in Int
      /\ (d > 2 * MaxBalance + 1 \/ -d > 2 * MaxBalance + 1)
  BY <1>5, <1>6, <1>7, <1>8
<1> HIDE DEF u, v, d
<1> QED BY <1>8, <1>9 DEF Balance

\* A group has two legs to post where amounts are positive.
LEMMA GroupHasTwoLegs ==
  ASSUME ContractPlan, NEW p \in Payloads, BeyondBalances(p), NEW g \in Groups
  PROVE  \E x, y \in Legs({g}) : x # y
<1>1. PICK x \in EffectIds : Effects[x].guard = g
  BY DEF Groups
<1>2. x \in Legs({g}) /\ Effects[x].kind \in {"debit", "credit"}
  BY <1>1, AmountType DEF Legs
<1> SUFFICES ASSUME \A y \in Legs({g}) : y = x PROVE FALSE
  BY <1>2
<1>3. Legs({g}) = {x}
  BY <1>2
<1>4. Amount(x, p) \in Nat \ {0} /\ Amounts(p)[x] = Amount(x, p)
  <2>1. MaxBalance \in Nat /\ Amount(x, p) > 2 * MaxBalance + 1 /\ Amount(x, p) \in Nat
    BY PlanAssumption, AmountType DEF BeyondBalances, PlanAssumption
  <2> QED BY <2>1, AmountType
<1>5. SumOf("debit", {x}, p) = SumOf("credit", {x}, p)
  BY <1>3 DEF ContractPlan
<1>6. SumFunctionOnSet(Amounts(p), {}) = 0
  BY SumEmpty
<1>7. SumFunctionOnSet(Amounts(p), {x}) = Amount(x, p)
  <2>1. IsFiniteSet({x}) /\ {x} \ {x} = {}
    BY FS_Singleton
  <2>2. \A i \in {x} : Amounts(p)[i] \in Int
    BY <1>4
  <2>3. SumFunctionOnSet(Amounts(p), {x}) = Amounts(p)[x] + SumFunctionOnSet(Amounts(p), {x} \ {x})
    BY <2>1, <2>2, SumTakesOut
  <2> QED BY <1>4, <1>6, <2>1, <2>3
<1>8. CASE Effects[x].kind = "debit"
  <2>1. {i \in {x} : Effects[i].kind = "debit"} = {x} /\ {i \in {x} : Effects[i].kind = "credit"} = {}
    BY <1>8
  <2> QED BY <1>4, <1>5, <1>6, <1>7, <2>1 DEF SumOf
<1>9. CASE Effects[x].kind = "credit"
  <2>1. {i \in {x} : Effects[i].kind = "credit"} = {x} /\ {i \in {x} : Effects[i].kind = "debit"} = {}
    BY <1>9
  <2> QED BY <1>4, <1>5, <1>6, <1>7, <2>1 DEF SumOf
<1> QED BY <1>2, <1>8, <1>9

-----------------------------------------------------------------------------
(* Amounts the words hold                                                  *)

\* The events of key k are those of the legs P for payload p.
IsOf(k, p, P) == P \in SUBSET EffectIds /\ EventsOf(k) = RowsFor(k, p, P)

\* The events of a key all of whose claims are p's are the legs it has posted.
LEMMA EventsAreRows ==
  ASSUME ContractInv, NEW k \in Keys, NEW p, \A e \in EventsOf(k) : e[2] = p
  PROVE  IsOf(k, p, PostedLegs(EvaluatedContract(contract), k))
<1> DEFINE P == PostedLegs(EvaluatedContract(contract), k)
<1>1. {e[3] : e \in EventsOf(k)} = P
  BY DEF ContractInv, ContractOK, EventsAreCommits
<1>2. PICK D \in SUBSET PostingRows : contract.events = SetToBag(D)
  BY DEF ContractInv, ContractOK, ContractRecords
<1>3. \A e \in EventsOf(k) : e \in PostingRows /\ e[1] = k
  BY <1>2, BagOfSet DEF EventsOf
<1>4. \A e \in EventsOf(k) : e = <<k, p, e[3]>> /\ e[3] \in EffectIds
  BY <1>3 DEF PostingRows
<1> HIDE DEF P
<1>5. P \in SUBSET EffectIds
  BY <1>1, <1>4
<1>6. \A i \in P : <<k, p, i>> \in EventsOf(k)
  BY <1>1, <1>4
<1>7. EventsOf(k) = RowsFor(k, p, P)
  BY <1>1, <1>4, <1>6 DEF RowsFor
<1> QED BY <1>5, <1>7 DEF IsOf, P

\* What the positions of key k are once the legs of S follow those of P.
Positions(k, p, P, S) ==
  /\ \A kind \in {"debit", "credit"} : TotalAfter(k, kind, S, p) = SumOf(kind, P \cup S, p)
  /\ \A l \in Ledgers : NetAfter(k, l, S, p)
       = SumFunctionOnSet(NetDeltas(p), {i \in P \cup S : Ledger(i, p) = l})

\* The positions of such a key, and what they are once the legs of S follow.
LEMMA PositionsOfLegs ==
  ASSUME ContractPlan, ContractInv, NEW k \in Keys, NEW p \in Payloads, NEW P, IsOf(k, p, P),
         NEW S \in SUBSET EffectIds, S \cap P = {}
  PROVE  Positions(k, p, P, S)
<1> DEFINE c == contract
<1>1. PICK D \in SUBSET PostingRows : contract.events = SetToBag(D)
  BY DEF ContractInv, ContractOK, ContractRecords
<1>2. DOMAIN c.events = D /\ \A e \in D : c.events[e] = 1
  BY <1>1, BagOfSet
<1>3. P \in SUBSET EffectIds /\ EventsIn(c, k) = RowsFor(k, p, P)
  BY DEF IsOf, EventsOf, EventsIn
<1>4. ASSUME NEW i \in P
      PROVE  /\ <<k, p, i>> \in D
             /\ EventAmounts(c)[<<k, p, i>>] = Amount(i, p) /\ Amount(i, p) \in Int
             /\ EventNets(c)[<<k, p, i>>] = NetDelta(i, p) /\ NetDelta(i, p) \in Int
  <2> DEFINE e == <<k, p, i>>
  <2>1. e \in D /\ e[2] = p /\ e[3] = i
    BY <1>2, <1>3 DEF RowsFor, EventsIn
  <2> HIDE DEF e, c
  <2>2. /\ EventAmounts(c)[e] = Amount(e[3], e[2]) /\ Amount(e[3], e[2]) \in Int
        /\ EventNets(c)[e] = NetDelta(e[3], e[2]) /\ NetDelta(e[3], e[2]) \in Int
    BY <1>2, <2>1, EventValues
  <2> QED BY <2>1, <2>2 DEF e
<1>5. PositionsAgree(c, k)
  BY DEF ContractInv, ContractOK
<1>6. ASSUME NEW kind \in {"debit", "credit"}
      PROVE  TotalAfter(k, kind, S, p) = SumOf(kind, P \cup S, p)
  <2> DEFINE A == {i \in P : Effects[i].kind = kind}
             B == {i \in S : Effects[i].kind = kind}
             f == Amounts(p)
  <2>1. OfKind(c, k, kind) = RowsFor(k, p, A)
    BY <1>3 DEF OfKind, RowsFor
  <2>2. \A i \in A : EventAmounts(c)[<<k, p, i>>] \in Int /\ EventAmounts(c)[<<k, p, i>>] = f[i]
    BY <1>3, <1>4 DEF Amounts
  <2>3. IsFiniteSet(A) /\ IsFiniteSet(B) /\ A \cap B = {}
    BY <1>3, LegsFinite
  <2>4. \A i \in A \cup B : f[i] \in Int
    BY <1>3, AmountType
  <2>5. {i \in P \cup S : Effects[i].kind = kind} = A \cup B
    OBVIOUS
  <2>6. c.total[k][kind] = SumFunctionOnSet(EventAmounts(c), OfKind(c, k, kind))
    BY <1>5 DEF PositionsAgree
  <2>7. TotalAfter(k, kind, S, p) = c.total[k][kind] + SumFunctionOnSet(f, B)
    BY DEF TotalAfter, SumOf
  <2> HIDE DEF A, B, f, c
  <2>8. SumFunctionOnSet(EventAmounts(c), RowsFor(k, p, A)) = SumFunctionOnSet(f, A)
    BY <2>2, <2>3, SumOfRows
  <2>9. SumFunctionOnSet(f, A \cup B) = SumFunctionOnSet(f, A) + SumFunctionOnSet(f, B)
    BY <2>3, <2>4, SumSplits
  <2> QED BY <2>1, <2>5, <2>6, <2>7, <2>8, <2>9 DEF SumOf, f
<1>7. ASSUME NEW l \in Ledgers
      PROVE  NetAfter(k, l, S, p) = SumFunctionOnSet(NetDeltas(p), {i \in P \cup S : Ledger(i, p) = l})
  <2> DEFINE A == {i \in P : Ledger(i, p) = l}
             B == {i \in S : Ledger(i, p) = l}
             f == NetDeltas(p)
  <2>1. OfLedger(c, k, l) = RowsFor(k, p, A)
    BY <1>3 DEF OfLedger, RowsFor
  <2>2. \A i \in A : EventNets(c)[<<k, p, i>>] \in Int /\ EventNets(c)[<<k, p, i>>] = f[i]
    BY <1>3, <1>4 DEF NetDeltas
  <2>3. IsFiniteSet(A) /\ IsFiniteSet(B) /\ A \cap B = {}
    BY <1>3, LegsFinite
  <2>4. \A i \in A \cup B : f[i] \in Int
    BY <1>3, AmountType, NetIsSameWord
  <2>5. {i \in P \cup S : Ledger(i, p) = l} = A \cup B
    OBVIOUS
  <2>6. c.net[k][l] = SumFunctionOnSet(EventNets(c), OfLedger(c, k, l))
    BY <1>5 DEF PositionsAgree
  <2>7. NetAfter(k, l, S, p) = c.net[k][l] + SumFunctionOnSet(f, B)
    BY DEF NetAfter
  <2> HIDE DEF A, B, f, c
  <2>8. SumFunctionOnSet(EventNets(c), RowsFor(k, p, A)) = SumFunctionOnSet(f, A)
    BY <2>2, <2>3, SumOfRows
  <2>9. SumFunctionOnSet(f, A \cup B) = SumFunctionOnSet(f, A) + SumFunctionOnSet(f, B)
    BY <2>3, <2>4, SumSplits
  <2> QED BY <2>1, <2>5, <2>6, <2>7, <2>8, <2>9 DEF f
<1> QED BY <1>6, <1>7 DEF Positions

\* Where the words hold a payload's amounts, no cast wraps.
LEMMA CastHolds ==
  ASSUME ContractPlan, WordsSuffice, NEW p \in Payloads, WordsHold(p), NEW i \in EffectIds
  PROVE  -Amount(i, p) <= NetDelta(i, p) /\ NetDelta(i, p) <= Amount(i, p) /\ NetDelta(i, p) \in Int
<1> DEFINE L == {j \in EffectIds : Ledger(j, p) = Ledger(i, p)}
           f == Amounts(p)
           h == 2^(Width - 1)
<1>1. Ledger(i, p) \in Ledgers /\ Amount(i, p) \in Nat /\ f[i] = Amount(i, p)
  BY AmountType
<1>2. IsFiniteSet(L) /\ i \in L /\ \A j \in L : f[j] \in Nat /\ f[j] \in Int
  BY LegsFinite, AmountType
<1>3. SumFunctionOnSet(f, L) < h /\ h \in Nat
  BY <1>1 DEF WordsHold, WordsSuffice
<1> HIDE DEF L, f, h
<1>4. SumFunctionOnSet(f, L) = f[i] + SumFunctionOnSet(f, L \ {i})
  BY <1>2, SumTakesOut
<1>5. SumFunctionOnSet(f, L \ {i}) \in Nat
  <2>1. IsFiniteSet(L \ {i})
    BY <1>2, FS_Subset
  <2> QED BY <1>2, <2>1, SumNat
<1> DEFINE r == SumFunctionOnSet(f, L \ {i})  w == SumFunctionOnSet(f, L)  n == Amount(i, p)
<1>6. w = n + r /\ r \in Nat /\ n \in Nat /\ w < h
  BY <1>1, <1>3, <1>4, <1>5
<1> HIDE DEF r, w
<1>7. n < h
  BY <1>3, <1>6
<1>8. AsInt(n) = n
  BY <1>7 DEF AsInt, h
<1>9. NetDelta(i, p) = n \/ NetDelta(i, p) = -n
  BY <1>8 DEF NetDelta
<1> HIDE DEF n
<1>10. -n <= NetDelta(i, p) /\ NetDelta(i, p) <= n /\ NetDelta(i, p) \in Int
  BY <1>6, <1>9
<1> QED BY <1>10 DEF n

\* Where the words hold a payload's amounts, no posting of it overflows.
LEMMA NoOverflow ==
  ASSUME ContractPlan, WordsSuffice, ContractInv, NEW k \in Keys, NEW p \in Payloads, WordsHold(p),
         NEW P, IsOf(k, p, P), NEW S \in SUBSET EffectIds, S \cap P = {}
  PROVE  ~Overflows(k, S, p)
<1>1. P \in SUBSET EffectIds
  BY DEF IsOf
<1>2. ASSUME NEW i \in S
      PROVE  NetAfter(k, Ledger(i, p), {j \in S : PostingOrder(j, i)}, p)
               \in -(2^(Width - 1)) .. (2^(Width - 1) - 1)
  <2> DEFINE V == {j \in S : PostingOrder(j, i)}
             l == Ledger(i, p)
             T == {j \in P \cup V : Ledger(j, p) = l}
             L == {j \in EffectIds : Ledger(j, p) = l}
             f == Amounts(p)
             g == NetDeltas(p)
             h == 2^(Width - 1)
             n == NetAfter(k, l, V, p)
  <2>1. l \in Ledgers
    BY AmountType
  <2>2. n = SumFunctionOnSet(g, T)
    <3>1. V \in SUBSET EffectIds /\ V \cap P = {}
      OBVIOUS
    <3> HIDE DEF V, l
    <3>2. \A x \in Ledgers : NetAfter(k, x, V, p)
            = SumFunctionOnSet(NetDeltas(p), {j \in P \cup V : Ledger(j, p) = x})
      <4>1. Positions(k, p, P, V)
        BY <3>1, PositionsOfLegs
      <4> QED BY <4>1 DEF Positions
    <3> QED BY <2>1, <3>2
  <2>3. T \in SUBSET L /\ IsFiniteSet(L) /\ IsFiniteSet(T)
    BY <1>1, LegsFinite
  <2>4. \A j \in L : f[j] \in Nat /\ g[j] \in Int /\ -f[j] <= g[j] /\ g[j] <= f[j]
    BY AmountType, CastHolds
  <2>5. SumFunctionOnSet(f, L) < h /\ h \in Nat
    BY <2>1 DEF WordsHold, WordsSuffice
  <2> HIDE DEF T, L, f, g, h, n, V
  <2> DEFINE w == SumFunctionOnSet(f, T)  v == SumFunctionOnSet(f, L)
  <2>6. w <= v
    BY <2>3, <2>4, SumOfPart
  <2>7. w \in Nat /\ n \in Int /\ -w <= n /\ n <= w
    BY <2>2, <2>3, <2>4, SumWithin
  <2>8. v \in Nat
    BY <2>3, <2>4, SumNat
  <2> HIDE DEF w
  <2>9. v < h
    BY <2>5
  <2> HIDE DEF v
  <2>10. n \in -h .. (h - 1)
    BY <2>5, <2>6, <2>7, <2>8, <2>9
  <2> QED BY <2>10 DEF n, h, V
<1>3. ASSUME NEW kind \in {"debit", "credit"} PROVE ~(TotalAfter(k, kind, S, p) >= 2^Width)
  <2> DEFINE f == Amounts(p)
             T == {j \in P \cup S : Effects[j].kind = kind}
             L == {j \in EffectIds : Effects[j].kind = kind}
             m == 2^Width
             n == TotalAfter(k, kind, S, p)
  <2>1. n = SumFunctionOnSet(f, T)
    <3>1. n = SumOf(kind, P \cup S, p)
      <4>1. Positions(k, p, P, S)
        BY PositionsOfLegs
      <4> QED BY <4>1 DEF Positions
    <3> QED BY <3>1 DEF SumOf
  <2>2. T \in SUBSET L /\ IsFiniteSet(L) /\ \A j \in L : f[j] \in Nat
    BY <1>1, LegsFinite, AmountType
  <2>3. SumFunctionOnSet(f, L) < m /\ m \in Nat
    BY DEF WordsHold, SumOf, ContractPlan
  <2> HIDE DEF T, L, f, m, n
  <2>4. SumFunctionOnSet(f, T) <= SumFunctionOnSet(f, L)
    BY <2>2, SumOfPart
  <2>5. IsFiniteSet(T) /\ \A j \in T : f[j] \in Nat
    BY <2>2, FS_Subset
  <2>6. SumFunctionOnSet(f, T) \in Nat /\ SumFunctionOnSet(f, L) \in Nat
    BY <2>2, <2>5, SumNat
  <2> DEFINE v == SumFunctionOnSet(f, L)
  <2>7. n \in Nat /\ v \in Nat /\ n <= v /\ v < m
    BY <2>1, <2>3, <2>4, <2>6
  <2> HIDE DEF v
  <2>8. ~(n >= m)
    BY <2>3, <2>7
  <2> QED BY <2>8 DEF n, m
<1> QED BY <1>2, <1>3 DEF Overflows

-----------------------------------------------------------------------------
(* What the reference evaluator answers for a temporal plan                *)

EvalStates ==
  [balances : [Accounts -> Int], postedKeys : SUBSET Keys, keyClaim : [Keys -> Claims \cup {NoClaim}],
   committedGroups : [Keys -> SUBSET Groups], keyStatus : [Keys -> {Open, Success}]]
EvalCall(k, p, v) == [authorized |-> TRUE, key |-> k, payload |-> p, attestations |-> v]

\* Key k's records allow a call for payload p: open, and not of another claim.
Admits(s, k, p) == k \notin s.postedKeys /\ s.keyClaim[k] \in {NoClaim, <<k, p>>}

\* A call is refused or replayed where the key's records do not allow it, or a
\* compute faults.
LEMMA NotAdmitted ==
  ASSUME NEW s, NEW k \in Keys, NEW p \in Payloads, NEW v, ~Admits(s, k, p) \/ ComputeFault[p] # None
  PROVE  Transition(s, EvalCall(k, p, v)).outcome \in {"refused", "replayed"}
<1> DEFINE in == EvalCall(k, p, v)
           r == Transition(s, in)
<1>1. in.authorized = TRUE /\ in.key = k /\ in.payload = p
  BY DEF EvalCall
<1> HIDE DEF in
<1> SUFFICES r.outcome \in {"refused", "replayed"}
  BY DEF in
<1>2. CASE AdmissionCode(s, in) # None
  <2>1. r = Refused(s, AdmissionCode(s, in))
    BY <1>2 DEF Transition
  <2> HIDE DEF r
  <2> QED BY <2>1 DEF Refused
<1>3. CASE AdmissionCode(s, in) = None /\ IsReplay(s, in)
  <2>1. r = Unchanged(s, "replayed", 3)
    BY <1>3 DEF Transition
  <2> HIDE DEF r
  <2> QED BY <2>1 DEF Unchanged
<1>4. CASE AdmissionCode(s, in) = None /\ ~IsReplay(s, in)
  <2>1. k \notin s.postedKeys
    BY <1>1, <1>4 DEF IsReplay
  <2>2. s.keyClaim[k] \in {NoClaim, <<k, p>>}
    <3>1. Claim(in) = <<k, p>>
      BY <1>1 DEF Claim
    <3> QED BY <1>1, <1>4, <3>1 DEF AdmissionCode, None
  <2>3. ComputeFault[p] # None
    BY <2>1, <2>2 DEF Admits
  <2>4. r = Refused(s, ComputeFault[p])
    BY <1>1, <1>4, <2>3 DEF Transition
  <2> HIDE DEF r
  <2> QED BY <2>4 DEF Refused
<1> QED BY <1>2, <1>3, <1>4

\* Otherwise the plan decides.
LEMMA Admitted ==
  ASSUME NEW s, NEW k \in Keys, NEW p \in Payloads, NEW v, Admits(s, k, p), ComputeFault[p] = None,
         IllTyped = {}
  PROVE  Transition(s, EvalCall(k, p, v))
           = IF EvidenceOnly THEN AcceptEvidence(s, EvalCall(k, p, v))
             ELSE IF Temporal THEN TemporalTransition(s, EvalCall(k, p, v))
             ELSE SingleShotTransition(s, EvalCall(k, p, v))
<1> DEFINE in == EvalCall(k, p, v)
<1>1. in.authorized = TRUE /\ in.key = k /\ in.payload = p
  BY DEF EvalCall
<1> HIDE DEF in
<1>2. k # NoKey
  BY PlanAssumption DEF PlanAssumption
<1>3. Claim(in) = <<k, p>>
  BY <1>1 DEF Claim
<1>4. AdmissionCode(s, in) = None /\ ~IsReplay(s, in)
  BY <1>1, <1>2, <1>3 DEF AdmissionCode, Admits, IsReplay
<1>5. Transition(s, in) = IF EvidenceOnly THEN AcceptEvidence(s, in)
                          ELSE IF Temporal THEN TemporalTransition(s, in)
                          ELSE SingleShotTransition(s, in)
  BY <1>1, <1>4 DEF Transition
<1> QED BY <1>5 DEF in

\* The groups that v accepts and key k has not committed.
Opens(s, k, v) == {g \in Groups : v[g] = "accepted"} \ s.committedGroups[k]
Fits(s, p, S, i) == Staged(s.balances, {j \in S : GroupOrder(j, i)}, p) \in Balances

\* What a commit of groups gs for key k and payload p leaves.
AllIn(s, k, gs) == Groups \subseteq s.committedGroups[k] \cup gs
CommittedState(s, k, p, gs) ==
  [balances |-> Staged(s.balances, Legs(gs), p),
   postedKeys |-> IF AllIn(s, k, gs) THEN s.postedKeys \cup {k} ELSE s.postedKeys,
   keyClaim |-> [s.keyClaim EXCEPT ![k] = <<k, p>>],
   committedGroups |-> [s.committedGroups EXCEPT ![k] = @ \cup gs],
   keyStatus |-> IF AllIn(s, k, gs) THEN [s.keyStatus EXCEPT ![k] = Success] ELSE s.keyStatus]

\* The three answers: a balance would leave its range; nothing to commit; the
\* open groups are committed.
Overflown(s, k, p, v, r) ==
  r.code = "balance.overflow" /\ \E i \in Legs(Opens(s, k, v)) : ~Fits(s, p, Legs(Opens(s, k, v)), i)
Idle(s, k, v, r) == Opens(s, k, v) = {} /\ r.outcome = "noprogress" /\ r.next = s
Commits(s, k, p, v, r) ==
  /\ Opens(s, k, v) # {} /\ r.outcome \in {"progress", "terminal"}
  /\ r.next = CommittedState(s, k, p, Opens(s, k, v))
  /\ \A i \in Legs(Opens(s, k, v)) : Fits(s, p, Legs(Opens(s, k, v)), i)

\* The states of a temporal plan whose groups are all gated, and operands that
\* resolve.
TemporalCallOK(s, k, p) ==
  /\ Temporal /\ Groups \subseteq Policies
  /\ s \in EvalStates /\ k \in Keys /\ p \in Payloads
  /\ s.committedGroups[k] # {} => s.keyClaim[k] # NoClaim

\* A state is the record of its fields.
IsState(s) ==
  s = [balances |-> s.balances, postedKeys |-> s.postedKeys, keyClaim |-> s.keyClaim,
       committedGroups |-> s.committedGroups, keyStatus |-> s.keyStatus]

\* State u is s with key k posted for claim c.
IsPosted(s, u, k, c) ==
  /\ IsState(u) /\ u.balances = s.balances /\ u.committedGroups = s.committedGroups
  /\ u.postedKeys = s.postedKeys \cup {k}
  /\ u.keyClaim = [s.keyClaim EXCEPT ![k] = c]
  /\ u.keyStatus = [s.keyStatus EXCEPT ![k] = Success]

LEMMA PostIs == ASSUME NEW s, IsState(s), NEW k, NEW c PROVE IsPosted(s, Post(s, k, c), k, c)
<1> DEFINE m == [s.keyClaim EXCEPT ![k] = c]
           t == [s.keyStatus EXCEPT ![k] = Success]
           q == s.postedKeys \cup {k}
           u == Post(s, k, c)
<1>1. u = [s EXCEPT !.postedKeys = q, !.keyClaim = m, !.keyStatus = t]
  BY DEF Post
<1>2. s = [balances |-> s.balances, postedKeys |-> s.postedKeys, keyClaim |-> s.keyClaim,
           committedGroups |-> s.committedGroups, keyStatus |-> s.keyStatus]
  BY DEF IsState
<1> HIDE DEF m, t, q, u
<1>3. /\ u = [balances |-> u.balances, postedKeys |-> u.postedKeys, keyClaim |-> u.keyClaim,
              committedGroups |-> u.committedGroups, keyStatus |-> u.keyStatus]
      /\ u.balances = s.balances /\ u.committedGroups = s.committedGroups
      /\ u.postedKeys = q /\ u.keyClaim = m /\ u.keyStatus = t
  BY <1>1, <1>2
<1> QED BY <1>3 DEF IsState, IsPosted, u, q, m, t

LEMMA StatesAreRecords == ASSUME NEW s \in EvalStates PROVE IsState(s)
BY DEF EvalStates, IsState

\* What CommitGroups answers, field by field.
LEMMA CommitGroupsIs ==
  ASSUME NEW s, NEW k, NEW p, NEW v, TemporalCallOK(s, k, p), NEW gs \in SUBSET Groups
  PROVE  LET r == CommitGroups(s, EvalCall(k, p, v), gs)
         IN  r.outcome \in {"progress", "terminal"} /\ r.next = CommittedState(s, k, p, gs)
<1> DEFINE in == EvalCall(k, p, v)
           r == CommitGroups(s, in, gs)
           c == <<k, p>>
           b == Staged(s.balances, Legs(gs), p)
           done == s.committedGroups[k] \cup gs
           g == [s.committedGroups EXCEPT ![k] = done]
           m == [s.keyClaim EXCEPT ![k] = c]
           u == [s EXCEPT !.balances = b, !.committedGroups = g, !.keyClaim = m]
           w == Post(u, k, c)
<1>1. in.key = k /\ in.payload = p /\ Claim(in) = c
  BY DEF EvalCall, Claim
<1>2. Required(p) = Groups
  BY DEF Required, TemporalCallOK, IsAcceptedGuard
<1>3. r.outcome \in {"progress", "terminal"}
  <2> HIDE DEF in
  <2> QED BY DEF CommitGroups
<1>4. IsState(s) /\ s.committedGroups \in [Keys -> SUBSET Groups] /\ k \in Keys
  BY StatesAreRecords DEF TemporalCallOK, EvalStates
<1> HIDE DEF in, c, b, done
<1>5. [s EXCEPT !.balances = Staged(@, Legs(gs), in.payload),
                !.committedGroups = [@ EXCEPT ![in.key] = s.committedGroups[in.key] \cup gs],
                !.keyClaim = [@ EXCEPT ![in.key] = Claim(in)]] = u
  BY <1>1 DEF b, done
<1>6. [s.committedGroups EXCEPT ![k] = done][k] = done
  BY <1>4
<1>7. /\ IsState(u) /\ u.balances = b /\ u.committedGroups = g /\ u.keyClaim = m
      /\ u.postedKeys = s.postedKeys /\ u.keyStatus = s.keyStatus
  <2> HIDE DEF g, m
  <2>1. u = [s EXCEPT !.balances = b, !.committedGroups = g, !.keyClaim = m]
    OBVIOUS
  <2> HIDE DEF u
  <2>2. s = [balances |-> s.balances, postedKeys |-> s.postedKeys, keyClaim |-> s.keyClaim,
             committedGroups |-> s.committedGroups, keyStatus |-> s.keyStatus]
    BY <1>4 DEF IsState
  <2>3. /\ u = [balances |-> u.balances, postedKeys |-> u.postedKeys, keyClaim |-> u.keyClaim,
                committedGroups |-> u.committedGroups, keyStatus |-> u.keyStatus]
        /\ u.balances = b /\ u.committedGroups = g /\ u.keyClaim = m
        /\ u.postedKeys = s.postedKeys /\ u.keyStatus = s.keyStatus
    BY <2>1, <2>2
  <2> QED BY <2>3 DEF IsState
<1>8. u.committedGroups[k] = done
  BY <1>6, <1>7
<1> HIDE DEF u
<1>9. r.next = IF Groups \subseteq done THEN w ELSE u
  BY <1>1, <1>2, <1>5, Zenon DEF CommitGroups, done
<1>10. /\ IsState(w) /\ w.balances = b /\ w.committedGroups = g
       /\ w.postedKeys = s.postedKeys \cup {k} /\ w.keyClaim = m
       /\ w.keyStatus = [s.keyStatus EXCEPT ![k] = Success]
  <2>1. /\ IsState(w) /\ w.balances = u.balances /\ w.committedGroups = u.committedGroups
        /\ w.postedKeys = u.postedKeys \cup {k}
        /\ w.keyClaim = [u.keyClaim EXCEPT ![k] = c]
        /\ w.keyStatus = [u.keyStatus EXCEPT ![k] = Success]
    <3> HIDE DEF w
    <3>1. IsPosted(u, w, k, c)
      BY <1>7, PostIs DEF w
    <3> QED BY <3>1 DEF IsPosted
  <2>2. [m EXCEPT ![k] = c] = m
    OBVIOUS
  <2> HIDE DEF g, m, w
  <2> QED BY <1>7, <2>1, <2>2
<1> HIDE DEF g, m, w
<1>11. r.next = [balances |-> b,
                 postedKeys |-> IF Groups \subseteq done THEN s.postedKeys \cup {k} ELSE s.postedKeys,
                 keyClaim |-> m, committedGroups |-> g,
                 keyStatus |-> IF Groups \subseteq done THEN [s.keyStatus EXCEPT ![k] = Success]
                                                        ELSE s.keyStatus]
  <2>1. w = [balances |-> b, postedKeys |-> s.postedKeys \cup {k}, keyClaim |-> m,
             committedGroups |-> g, keyStatus |-> [s.keyStatus EXCEPT ![k] = Success]]
    BY <1>10 DEF IsState
  <2>2. u = [balances |-> b, postedKeys |-> s.postedKeys, keyClaim |-> m,
             committedGroups |-> g, keyStatus |-> s.keyStatus]
    BY <1>7 DEF IsState
  <2>3. CASE Groups \subseteq done
    BY <1>9, <2>1, <2>3
  <2>4. CASE ~(Groups \subseteq done)
    BY <1>9, <2>2, <2>4
  <2> QED BY <2>3, <2>4
<1>12. r.next = CommittedState(s, k, p, gs)
  <2>1. g = [s.committedGroups EXCEPT ![k] = s.committedGroups[k] \cup gs]
    BY DEF g, done
  <2> QED BY <1>11, <2>1 DEF CommittedState, AllIn, b, c, done, m
<1> QED BY <1>3, <1>12 DEF in

\* A call the key's records allow is answered by what its open groups allow.
LEMMA TemporalAnswer ==
  ASSUME IllTyped = {}, NEW s, NEW k, NEW p, NEW v, TemporalCallOK(s, k, p), Admits(s, k, p),
         ComputeFault[p] = None, v \in [Policies -> {"absent", "accepted"}],
         \A i \in Legs(Opens(s, k, v)) : OperandCode(i, p) = None
  PROVE  LET r == Transition(s, EvalCall(k, p, v))
         IN  Overflown(s, k, p, v, r) \/ Idle(s, k, v, r) \/ Commits(s, k, p, v, r)
<1> DEFINE in == EvalCall(k, p, v)
           r == TemporalTransition(s, in)
           gs == Opens(s, k, v)
           GuardCode(i) == IF GuardFaults(Effects[i].guard, in)
                           THEN EvalGuard(Effects[i].guard, in) ELSE None
           LegCode(i) == TemporalLegCode(s, in, gs, i)
<1>1. k \in Keys /\ p \in Payloads /\ Temporal /\ ~EvidenceOnly
  BY DEF TemporalCallOK, Temporal, EvidenceOnly, EffectIds
<1>2. Transition(s, in) = r
  BY <1>1, Admitted
<1>3. in.key = k /\ in.payload = p /\ in.attestations = v
  BY DEF EvalCall
<1> HIDE DEF in
<1>4. ASSUME NEW g \in Groups
      PROVE  EvalGuard(g, in) \in {"true", "false"} /\ (Holds(g, in) <=> v[g] = "accepted")
  <2>1. g \in Policies /\ g # NoGuard
    BY PlanAssumption DEF PlanAssumption, TemporalCallOK
  <2>2. EvalGuard(g, in) = IF v[g] = "accepted" THEN "true" ELSE "false"
    BY <1>3, <2>1 DEF EvalGuard, IsAcceptedGuard, Accepted
  <2> QED BY <2>2 DEF Holds
<1>5. Committable(s, in) = gs
  BY <1>3, <1>4 DEF Committable, Opens
<1>6. ~PartialLedgerInvalid(s, k)
  BY DEF PartialLedgerInvalid, TemporalCallOK, EvalStates
<1>7. \A i \in EffectIds : GuardCode(i) = None
  BY <1>4 DEF GuardFaults, Groups
<1>8. gs \in SUBSET Groups /\ Legs(gs) \in SUBSET EffectIds
  BY DEF Opens, Legs
<1>9. \A i \in Legs(gs) : LegCode(i) = IF Fits(s, p, Legs(gs), i) THEN None ELSE "balance.overflow"
  BY <1>3 DEF TemporalLegCode, Fits
<1>10. r = IF \E i \in Legs(gs) : LegCode(i) # None
           THEN Refused(s, FirstCode(Legs(gs), LegCode, GroupOrder))
           ELSE IF gs = {} THEN Unchanged(s, "noprogress", 2 + ComputeCount + Cardinality(GuardedGroups))
           ELSE CommitGroups(s, in, gs)
  BY <1>3, <1>5, <1>6, <1>7 DEF TemporalTransition
<1> HIDE DEF r, gs, LegCode
<1>11. CASE \E i \in Legs(gs) : LegCode(i) # None
  <2> DEFINE S == {i \in Legs(gs) : LegCode(i) # None}
  <2>1. S \in SUBSET EffectIds /\ S # {}
    BY <1>8, <1>11
  <2>2. PICK i \in S : FirstOf(S, i)
    BY <2>1, FirstPosting
  <2>3. \E x \in Legs(gs) : LegCode(x) # None
                            /\ \A j \in Legs(gs) : LegCode(j) # None => GroupOrder(x, j)
    BY <1>1, <2>2 DEF FirstOf, PostingOrder
  <2>4. \A x \in Legs(gs) : LegCode(x) # None => LegCode(x) = "balance.overflow"
    BY <1>9
  <2>5. FirstCode(Legs(gs), LegCode, GroupOrder) = "balance.overflow"
    BY <2>3, <2>4 DEF FirstCode
  <2>6. r.code = "balance.overflow"
    BY <1>10, <1>11, <2>5 DEF Refused
  <2>7. \E x \in Legs(gs) : ~Fits(s, p, Legs(gs), x)
    BY <1>9, <2>3
  <2>8. Overflown(s, k, p, v, r)
    BY <2>6, <2>7 DEF Overflown, gs
  <2> QED BY <1>2, <2>8 DEF in
<1>12. CASE ~(\E i \in Legs(gs) : LegCode(i) # None)
  <2>1. \A i \in Legs(gs) : Fits(s, p, Legs(gs), i)
    BY <1>9, <1>12 DEF None
  <2>2. CASE gs = {}
    <3>1. r = Unchanged(s, "noprogress", 2 + ComputeCount + Cardinality(GuardedGroups))
      BY <1>10, <1>12, <2>2
    <3>2. Idle(s, k, v, r)
      BY <2>2, <3>1 DEF Idle, Unchanged, gs
    <3> QED BY <1>2, <3>2 DEF in
  <2>3. CASE gs # {}
    <3>1. r = CommitGroups(s, in, gs)
      BY <1>10, <1>12, <2>3
    <3>2. r.outcome \in {"progress", "terminal"} /\ r.next = CommittedState(s, k, p, gs)
      BY <1>8, <3>1, CommitGroupsIs DEF in
    <3>3. Commits(s, k, p, v, r)
      BY <2>1, <2>3, <3>2 DEF Commits, gs
    <3> QED BY <1>2, <3>3 DEF in
  <2> QED BY <2>2, <2>3
<1> QED BY <1>11, <1>12

-----------------------------------------------------------------------------
(* The contract's state as the evaluator's                                 *)

\* The balances that the events add up to.
BalanceRows(c, a) == {e \in DOMAIN c.events : Effects[e[3]].leg[e[2]].account = a}
EventBalances(c) == [a \in Accounts |-> SumFunctionOnSet(EventDeltas(c), BalanceRows(c, a))]

LEMMA EventBalancesTyped ==
  ASSUME ContractPlan, NEW c \in ContractRecords
  PROVE  EventBalances(c) \in [Accounts -> Int]
<1>1. PICK D \in SUBSET PostingRows : IsFiniteSet(D) /\ c.events = SetToBag(D)
  BY DEF ContractRecords
<1>2. DOMAIN c.events = D /\ \A e \in D : c.events[e] = 1
  BY <1>1, BagOfSet
<1>3. \A e \in D : EventDeltas(c)[e] \in Int
  BY <1>2, EventValues
<1>4. ASSUME NEW a \in Accounts PROVE SumFunctionOnSet(EventDeltas(c), BalanceRows(c, a)) \in Int
  <2>1. BalanceRows(c, a) \subseteq D
    BY <1>2 DEF BalanceRows
  <2>2. IsFiniteSet(BalanceRows(c, a))
    BY <1>1, <2>1, FS_Subset
  <2> QED BY <1>3, <2>1, <2>2, SumInt
<1> QED BY <1>4 DEF EventBalances

\* Posting legs and emitting their events is staging them.
LEMMA EventsAreStaged ==
  ASSUME ContractPlan, NEW c, NEW d, NEW k, NEW p, NEW S, CanPost(c, k, p, S), PostsLegs(c, d, k, p, S)
  PROVE  EventBalances(d) = Staged(EventBalances(c), S, p)
<1> DEFINE N == RowsFor(k, p, S)
           D == DOMAIN c.events
<1>1. /\ D \in SUBSET PostingRows /\ IsFiniteSet(D) /\ \A e \in D : c.events[e] = 1
      /\ N \in SUBSET PostingRows /\ D \cap N = {} /\ DOMAIN d.events = D \cup N
      /\ \A e \in D \cup N : d.events[e] = 1
  BY PostsOnce
<1>2. k \in Keys /\ p \in Payloads /\ S \in SUBSET EffectIds /\ c \in ContractRecords
  BY DEF CanPost
<1>3. \A e \in D \cup N : EventDeltas(d)[e] = Delta(e[3], e[2]) /\ Delta(e[3], e[2]) \in Int
  <2> HIDE DEF N, D
  <2>1. DOMAIN d.events \in SUBSET PostingRows
    BY <1>1
  <2> QED BY <1>1, <2>1, EventValues
<1>4. \A e \in D : EventDeltas(c)[e] = Delta(e[3], e[2])
  BY <1>1, EventValues
<1>5. ASSUME NEW a \in Accounts PROVE EventBalances(d)[a] = Staged(EventBalances(c), S, p)[a]
  <2> DEFINE L == LegsOn(S, p, a)
             O == BalanceRows(c, a)
             M == RowsFor(k, p, L)
             f == EventDeltas(d)
             g == EventDeltas(c)
             w == Deltas(p)
  <2>1. BalanceRows(d, a) = O \cup M
    <3>1. \A e \in N : e \in M <=> Effects[e[3]].leg[e[2]].account = a
      BY DEF RowsFor, LegsOn
    <3>2. M \subseteq N
      BY DEF RowsFor, LegsOn
    <3> HIDE DEF N, M
    <3> QED BY <1>1, <3>1, <3>2 DEF BalanceRows
  <2>2. O \subseteq D /\ IsFiniteSet(O) /\ L \subseteq S /\ IsFiniteSet(L) /\ M \subseteq N
    <3>1. O \subseteq D /\ L \subseteq S
      BY DEF BalanceRows, LegsOn
    <3>2. M \subseteq N
      BY DEF RowsFor, LegsOn
    <3>3. IsFiniteSet(L)
      BY <1>2, LegsFinite DEF LegsOn
    <3> HIDE DEF O, D, L, M, N
    <3> QED BY <1>1, <3>1, <3>2, <3>3, FS_Subset
  <2>3. \A i \in L : w[i] = Delta(i, p)
    BY <1>2 DEF Deltas, LegsOn
  <2>4. ASSUME NEW i \in L PROVE f[<<k, p, i>>] \in Int /\ f[<<k, p, i>>] = w[i]
    <3> DEFINE e == <<k, p, i>>
    <3>1. e \in D \cup N /\ e[3] = i /\ e[2] = p
      BY <2>2 DEF RowsFor
    <3> HIDE DEF e, f, w, L, D, N
    <3>2. f[e] = Delta(i, p) /\ Delta(i, p) \in Int
      BY <1>3, <3>1 DEF f
    <3> QED BY <2>3, <3>2 DEF e
  <2>5. \A x \in O : g[x] \in Int /\ f[x] = g[x]
    BY <1>3, <1>4, <2>2
  <2>6. O \cap M = {}
    BY <1>1, <2>2
  <2> HIDE DEF O, M, L, f, g, w
  <2>7. GrowsBy(f, g, w, O, M, L)
    BY <2>2, <2>4, <2>5, <2>6, SumGrows DEF M
  <2>8. SumFunctionOnSet(f, BalanceRows(d, a)) = SumFunctionOnSet(g, O) + SumFunctionOnSet(w, L)
    BY <2>1, <2>7 DEF GrowsBy
  <2>9. EventBalances(d)[a] = SumFunctionOnSet(f, BalanceRows(d, a))
        /\ EventBalances(c)[a] = SumFunctionOnSet(g, O)
    BY DEF EventBalances, f, g, O
  <2>10. Staged(EventBalances(c), S, p)[a] = StagedOn(EventBalances(c), S, p, a)
    BY <1>2, EventBalancesTyped, StagedIsSum
  <2> QED BY <2>8, <2>9, <2>10 DEF StagedOn, w, L
<1> QED BY <1>5 DEF EventBalances, Staged

\* The contract's state is a state of the evaluator, whose records a call reads.
LEMMA EvaluatedFields ==
  ASSUME NEW c
  PROVE  LET s == EvaluatedContract(c)
         IN  /\ IsState(s) /\ s.balances = EventBalances(c)
             /\ s.postedKeys = {k \in Keys : c.status[k] = Success}
             /\ s.keyClaim = c.claim /\ s.committedGroups = c.groups /\ s.keyStatus = c.status
BY DEF EvaluatedContract, EventBalances, BalanceRows, IsState

LEMMA EvaluatedTyped ==
  ASSUME ContractPlan, NEW c \in ContractRecords
  PROVE  EvaluatedContract(c) \in EvalStates
<1> DEFINE s == EvaluatedContract(c)
<1>1. /\ IsState(s) /\ s.balances = EventBalances(c)
      /\ s.postedKeys = {k \in Keys : c.status[k] = Success}
      /\ s.keyClaim = c.claim /\ s.committedGroups = c.groups /\ s.keyStatus = c.status
  BY EvaluatedFields
<1>2. EventBalances(c) \in [Accounts -> Int]
  BY EventBalancesTyped
<1>3. /\ c.status \in [Keys -> {Open, Success}] /\ c.claim \in [Keys -> Claims \cup {NoClaim}]
      /\ c.groups \in [Keys -> SUBSET Groups]
  BY DEF ContractRecords
<1> HIDE DEF s
<1>4. s.postedKeys \in SUBSET Keys
  BY <1>1
<1>5. s = [balances |-> s.balances, postedKeys |-> s.postedKeys, keyClaim |-> s.keyClaim,
           committedGroups |-> s.committedGroups, keyStatus |-> s.keyStatus]
  BY <1>1 DEF IsState
<1>6. s \in EvalStates
  BY <1>1, <1>2, <1>3, <1>4, <1>5 DEF EvalStates
<1> QED BY <1>6 DEF s

-----------------------------------------------------------------------------
(* What the contract's words cannot refuse                                 *)

LEMMA NoLegsNoOverflow ==
  ASSUME ContractPlan, ContractInv, NEW k \in Keys, NEW p
  PROVE  ~Overflows(k, {}, p)
<1>1. ASSUME NEW kind \in {"debit", "credit"} PROVE ~(TotalAfter(k, kind, {}, p) >= 2^Width)
  <2> DEFINE t == contract.total[k][kind]  m == 2^Width
  <2>1. contract \in ContractRecords /\ KeyTracked(contract, k)
    BY DEF ContractInv, ContractOK
  <2>2. contract.total \in [Keys -> [{"debit", "credit"} -> Int]]
    BY <2>1 DEF ContractRecords
  <2>3. t < m /\ t \in Int /\ m \in Int
    BY <2>1, <2>2 DEF KeyTracked, ContractPlan
  <2>4. SumOf(kind, {}, p) = 0
    <3>1. {i \in {} : Effects[i].kind = kind} = {}
      OBVIOUS
    <3> QED BY <3>1, SumEmpty DEF SumOf
  <2>5. TotalAfter(k, kind, {}, p) = t + 0
    BY <2>4 DEF TotalAfter
  <2> HIDE DEF t, m
  <2>6. ~(t + 0 >= m)
    BY <2>3
  <2> QED BY <2>5, <2>6 DEF m
<1> QED BY <1>1 DEF Overflows

\* Where the evaluator's balances hold the legs, so do the contract's words.
LEMMA NothingOverflows ==
  ASSUME ContractPlan, WordsSuffice, ContractInv, NEW k \in Keys, NEW p \in Payloads,
         NEW P, IsOf(k, p, P), NEW gs \in SUBSET Groups, Legs(gs) \cap P = {},
         NEW bal \in [Accounts -> Int], ~LeavesRange(bal, Legs(gs), p)
  PROVE  ~Overflows(k, Legs(gs), p)
<1> DEFINE S == Legs(gs)
<1>1. S \in SUBSET EffectIds
  BY DEF Legs
<1>2. CASE WordsHold(p)
  BY <1>1, <1>2, NoOverflow
<1>3. CASE BeyondBalances(p)
  <2>1. CASE gs = {}
    BY <2>1, NoLegs, NoLegsNoOverflow
  <2>2. CASE gs # {}
    <3>1. PICK g \in gs : TRUE
      BY <2>2
    <3>2. PICK x, y \in Legs({g}) : x # y
      BY <1>3, GroupHasTwoLegs
    <3>3. x \in S /\ y \in S
      BY <3>1 DEF Legs
    <3> HIDE DEF S
    <3>4. LeavesRange(bal, S, p)
      BY <1>1, <1>3, <3>2, <3>3, BeyondOverflows
    <3> QED BY <3>4 DEF S
  <2> QED BY <2>1, <2>2
<1> QED BY <1>2, <1>3 DEF WordsSuffice

\* The totals of a key that has posted whole groups agree.
LEMMA GroupsAgree ==
  ASSUME ContractPlan, ContractInv, NEW k \in Keys, NEW p \in Payloads,
         NEW old \in SUBSET Groups, IsOf(k, p, Legs(old)), NEW gs \in SUBSET Groups, gs \cap old = {}
  PROVE  TotalsAgree(k, Legs(gs), p)
<1>1. Legs(gs) \in SUBSET EffectIds /\ Legs(gs) \cap Legs(old) = {}
      /\ Legs(old) \cup Legs(gs) = Legs(old \cup gs) /\ old \cup gs \in SUBSET Groups
  BY DEF Legs
<1>2. Positions(k, p, Legs(old), Legs(gs))
  BY <1>1, PositionsOfLegs
<1>3. \A kind \in {"debit", "credit"} : TotalAfter(k, kind, Legs(gs), p) = SumOf(kind, Legs(old \cup gs), p)
  BY <1>1, <1>2 DEF Positions
<1>4. SumOf("debit", Legs(old \cup gs), p) = SumOf("credit", Legs(old \cup gs), p)
  BY <1>1, GroupsBalance
<1> QED BY <1>3, <1>4 DEF TotalsAgree

-----------------------------------------------------------------------------
(* The storage after a call                                                *)

\* State t is s with the legs of S staged, and key k's records set.
MovesTo(s, t, k, p, S, T, C, G) ==
  /\ IsState(t) /\ t.balances = Staged(s.balances, S, p)
  /\ t.postedKeys = IF T = Success THEN s.postedKeys \cup {k} ELSE s.postedKeys \ {k}
  /\ t.keyClaim = [s.keyClaim EXCEPT ![k] = C]
  /\ t.committedGroups = [s.committedGroups EXCEPT ![k] = G]
  /\ t.keyStatus = [s.keyStatus EXCEPT ![k] = T]

\* What the evaluator reads in the storage after a call.
LEMMA EvaluatedAfter ==
  ASSUME ContractPlan, NEW c, NEW d, NEW k, NEW p, NEW S, NEW T, NEW C, NEW G,
         CanPost(c, k, p, S), CallWrites(c, d, k, p, S, T, C, G)
  PROVE  MovesTo(EvaluatedContract(c), EvaluatedContract(d), k, p, S, T, C, G)
<1> DEFINE s == EvaluatedContract(c)
           t == EvaluatedContract(d)
<1>1. /\ IsState(s) /\ s.balances = EventBalances(c)
      /\ s.postedKeys = {x \in Keys : c.status[x] = Success}
      /\ s.keyClaim = c.claim /\ s.committedGroups = c.groups /\ s.keyStatus = c.status
  BY EvaluatedFields
<1>2. /\ IsState(t) /\ t.balances = EventBalances(d)
      /\ t.postedKeys = {x \in Keys : d.status[x] = Success}
      /\ t.keyClaim = d.claim /\ t.committedGroups = d.groups /\ t.keyStatus = d.status
  BY EvaluatedFields
<1> HIDE DEF s, t
<1>3. /\ PostsLegs(c, d, k, p, S) /\ d.status = [c.status EXCEPT ![k] = T]
      /\ d.claim = [c.claim EXCEPT ![k] = C] /\ d.groups = [c.groups EXCEPT ![k] = G]
  BY DEF CallWrites
<1>4. EventBalances(d) = Staged(EventBalances(c), S, p)
  BY <1>3, EventsAreStaged
<1>5. c.status \in [Keys -> {Open, Success}] /\ k \in Keys
  BY DEF CanPost, ContractRecords
<1>6. d.status[k] = T /\ \A x \in Keys \ {k} : d.status[x] = c.status[x]
  BY <1>3, <1>5
<1>7. t.postedKeys = IF T = Success THEN s.postedKeys \cup {k} ELSE s.postedKeys \ {k}
  BY <1>1, <1>2, <1>5, <1>6
<1> QED BY <1>1, <1>2, <1>3, <1>4, <1>7 DEF s, t, MovesTo

\* A key that committed a group has a claim.
LEMMA CommitsHaveClaims ==
  ASSUME ContractInv, Temporal, NEW k \in Keys, contract.groups[k] # {}
  PROVE  contract.claim[k] # NoClaim
<1>1. contract \in ContractRecords /\ EventsAreCommits(k)
  BY DEF ContractInv, ContractOK
<1>2. PICK g \in contract.groups[k] : g \in Groups
  BY <1>1 DEF ContractRecords
<1>3. PICK i \in EffectIds : Effects[i].guard = g
  BY <1>2 DEF Groups
<1>4. i \in Legs(contract.groups[k])
  BY <1>2, <1>3 DEF Legs
<1>5. i \in PostedLegs(EvaluatedContract(contract), k)
  BY <1>4, LegsToPost
<1>6. PICK e \in EventsOf(k) : e[3] = i
  BY <1>1, <1>5 DEF EventsAreCommits
<1>7. contract.claim[k] = <<k, e[2]>>
  BY <1>1 DEF EventsAreCommits
<1> QED BY <1>7, PairIsNotEmpty

\* A key that may be called for p posted for p, if anything.
LEMMA PostedForClaim ==
  ASSUME ContractInv, NEW k \in Keys, NEW p, contract.claim[k] \in {NoClaim, <<k, p>>}
  PROVE  IsOf(k, p, PostedLegs(EvaluatedContract(contract), k))
<1>1. ASSUME NEW e \in EventsOf(k) PROVE e[2] = p
  <2>1. contract.claim[k] = <<k, e[2]>>
    BY DEF ContractInv, ContractOK, EventsAreCommits
  <2> QED BY <2>1, PairIsNotEmpty
<1> QED BY <1>1, EventsAreRows

\* The answer of the evaluator to the call of payload p for key k, and how the
\* contract's agrees with it.
Answer(k, p) == Transition(EvaluatedContract(contract), EvalCall(k, p, VerdictsFor(k, p)))
Agrees(k, p, r) ==
  /\ CallReverts(k, p) <=> r.outcome \in {"refused", "replayed"}
  /\ ~CallReverts(k, p) => EvaluatedContract(AfterCall(k, p)) = r.next

\* A call of the temporal contract is answered as the evaluator answers it.
LEMMA TemporalAgrees ==
  ASSUME ContractPlan, WordsSuffice, ContractInv, Temporal, NEW k \in Keys, NEW p \in Payloads
  PROVE  Answer(k, p).code = "balance.overflow" \/ Agrees(k, p, Answer(k, p))
<1> DEFINE c == contract
           s == EvaluatedContract(c)
           v == VerdictsFor(k, p)
           r == Answer(k, p)
           H == Holding(k, p)
           S == Legs(H)
           d == TemporalCall(k, p)
           t == EvaluatedContract(d)
           T == IF AllCommitted(k, p) THEN Success ELSE Open
           C == IF H # {} THEN <<k, p>> ELSE c.claim[k]
           G == c.groups[k] \cup H
<1>1. /\ c \in ContractRecords /\ KeyTracked(c, k)
      /\ c.status \in [Keys -> {Open, Success}] /\ c.claim \in [Keys -> Claims \cup {NoClaim}]
      /\ c.groups \in [Keys -> SUBSET Groups]
  BY DEF ContractInv, ContractOK, ContractRecords
<1>2. /\ s \in EvalStates /\ IsState(s) /\ s.balances = EventBalances(c)
      /\ s.postedKeys = {x \in Keys : c.status[x] = Success}
      /\ s.keyClaim = c.claim /\ s.committedGroups = c.groups /\ s.keyStatus = c.status
  BY <1>1, EvaluatedFields, EvaluatedTyped
<1>3. r = Transition(s, EvalCall(k, p, v))
  BY DEF Answer
<1>4. CallReverts(k, p) <=> TemporalReverts(k, p)
  BY DEF CallReverts
<1>5. AfterCall(k, p) = d
  BY DEF AfterCall
<1> HIDE DEF r, s, d, v
<1>6. k \in s.postedKeys <=> c.status[k] = Success
  BY <1>2
<1>7. CASE ~Admits(s, k, p) \/ ComputeFault[p] # None
  <2>1. r.outcome \in {"refused", "replayed"}
    BY <1>3, <1>7, NotAdmitted
  <2>2. TemporalReverts(k, p)
    BY <1>2, <1>6, <1>7 DEF Admits, TemporalReverts
  <2> QED BY <1>4, <2>1, <2>2 DEF Agrees, r
<1>8. CASE Admits(s, k, p) /\ ComputeFault[p] = None
  <2>1. c.status[k] # Success /\ c.status[k] = Open /\ c.claim[k] \in {NoClaim, <<k, p>>}
    BY <1>1, <1>2, <1>6, <1>8 DEF Admits
  <2>2. Groups \subseteq Policies /\ IllTyped = {}
    BY DEF ContractPlan
  <2>3. Opens(s, k, v) = H
    <3>1. \A g \in Groups : v[g] = "accepted" <=> guards[g].accepted[k] = <<k, p>>
      BY <2>2 DEF v, VerdictsFor
    <3> QED BY <1>2, <3>1 DEF Opens, Holding
  <2>4. v \in [Policies -> {"absent", "accepted"}]
    BY DEF v, VerdictsFor
  <2>5. TemporalCallOK(s, k, p)
    BY <1>2, <2>2, CommitsHaveClaims DEF TemporalCallOK
  <2>6. H \in SUBSET Groups /\ S \in SUBSET EffectIds
    BY DEF Holding, Legs
  <2>7. \A i \in Legs(Opens(s, k, v)) : OperandCode(i, p) = None
    BY <2>3, <2>6 DEF ContractPlan
  <2>8. Overflown(s, k, p, v, r) \/ Idle(s, k, v, r) \/ Commits(s, k, p, v, r)
    BY <1>3, <1>8, <2>2, <2>4, <2>5, <2>7, TemporalAnswer
  <2>9. IsOf(k, p, Legs(c.groups[k])) /\ Legs(c.groups[k]) = PostedLegs(EvaluatedContract(contract), k)
    BY <2>1, PostedForClaim, LegsToPost
  <2>10. H \cap c.groups[k] = {} /\ S \cap Legs(c.groups[k]) = {} /\ c.groups[k] \in SUBSET Groups
    BY <1>1 DEF Holding, Legs
  <2>11. \A i \in S : Fits(s, p, S, i) => Staged(s.balances, {j \in S : PostingOrder(j, i)}, p) \in Balances
    BY DEF Fits, PostingOrder
  <2>12. (\A i \in S : Fits(s, p, S, i)) => ~Overflows(k, S, p)
    <3> SUFFICES ASSUME \A i \in S : Fits(s, p, S, i) PROVE ~Overflows(k, S, p)
      OBVIOUS
    <3>1. ~LeavesRange(s.balances, S, p)
      BY <2>11 DEF LeavesRange
    <3>2. s.balances \in [Accounts -> Int]
      BY <1>2 DEF EvalStates
    <3> QED BY <2>6, <2>9, <2>10, <3>1, <3>2, NothingOverflows
  <2>13. TotalsAgree(k, S, p)
    BY <2>6, <2>9, <2>10, GroupsAgree
  <2>14. CanPost(c, k, p, S)
    <3>1. \A e \in EventsIn(c, k) : e[3] \notin S
      BY <2>9, <2>10, PostedIsPosted DEF ContractInv, EventsIn, EventsOf
    <3> QED BY <1>1, <2>6, <3>1 DEF CanPost, ContractInv, ContractOK
  <2>15. CallWrites(c, d, k, p, S, T, C, G)
    BY <1>1, TemporalFields DEF d
  <2>16. /\ IsState(t) /\ t.balances = Staged(s.balances, S, p)
         /\ t.postedKeys = IF T = Success THEN s.postedKeys \cup {k} ELSE s.postedKeys \ {k}
         /\ t.keyClaim = [s.keyClaim EXCEPT ![k] = C]
         /\ t.committedGroups = [s.committedGroups EXCEPT ![k] = G]
         /\ t.keyStatus = [s.keyStatus EXCEPT ![k] = T]
    <3> HIDE DEF S, T, C, G, c, t
    <3>1. MovesTo(s, t, k, p, S, T, C, G)
      BY <2>14, <2>15, EvaluatedAfter DEF s, t
    <3> QED BY <3>1 DEF MovesTo
  <2> HIDE DEF t
  <2>17. CASE Overflown(s, k, p, v, r)
    BY <2>17 DEF Overflown, r
  <2>18. CASE Idle(s, k, v, r)
    <3>1. H = {} /\ r.outcome = "noprogress" /\ r.next = s
      BY <2>3, <2>18 DEF Idle
    <3>2. S = {} /\ G = c.groups[k] /\ C = c.claim[k]
      BY <3>1, NoLegs
    <3>3. ~AllCommitted(k, p)
      BY <1>1, <2>1, <2>10, <3>1 DEF AllCommitted, KeyTracked
    <3>4. ~TemporalReverts(k, p)
      BY <1>8, <2>1, <3>2, <3>3, NoLegsNoOverflow DEF TemporalReverts
    <3>5. t = s
      <4>1. t.balances = s.balances
        <5>1. \A a \in Accounts : LegsOn({}, p, a) = {}
          BY DEF LegsOn
        <5>2. s.balances \in [Accounts -> Int]
          BY <1>2 DEF EvalStates
        <5>3. Staged(s.balances, {}, p) = s.balances
          BY <5>1, <5>2 DEF Staged
        <5> QED BY <2>16, <3>2, <5>3
      <4>2. t.postedKeys = s.postedKeys
        BY <1>6, <2>1, <2>16, <3>3 DEF Open, Success
      <4>3. t.keyClaim = s.keyClaim /\ t.committedGroups = s.committedGroups
        <5>1. [c.claim EXCEPT ![k] = c.claim[k]] = c.claim /\ [c.groups EXCEPT ![k] = c.groups[k]] = c.groups
          BY <1>1
        <5> HIDE DEF C, G, c
        <5> QED BY <1>2, <2>16, <3>2, <5>1
      <4>4. t.keyStatus = s.keyStatus
        <5>1. T = c.status[k]
          BY <2>1, <3>3
        <5> HIDE DEF T
        <5> QED BY <1>1, <1>2, <2>16, <5>1
      <4> QED BY <1>2, <2>16, <4>1, <4>2, <4>3, <4>4 DEF IsState
    <3> QED BY <1>4, <1>5, <3>1, <3>4, <3>5 DEF Agrees, r, t
  <2>19. CASE Commits(s, k, p, v, r)
    <3>1. /\ H # {} /\ r.outcome \in {"progress", "terminal"} /\ r.next = CommittedState(s, k, p, H)
          /\ \A i \in S : Fits(s, p, S, i)
      BY <2>3, <2>19 DEF Commits
    <3>2. ~TemporalReverts(k, p)
      BY <1>8, <2>1, <2>12, <2>13, <3>1 DEF TemporalReverts
    <3>3. AllIn(s, k, H) <=> AllCommitted(k, p)
      BY <1>2 DEF AllIn, AllCommitted
    <3>4. t = CommittedState(s, k, p, H)
      <4> DEFINE all == AllIn(s, k, H)
      <4>0. T = IF all THEN Success ELSE Open
        BY <3>3
      <4>6. Open # Success /\ k \notin s.postedKeys /\ s.keyStatus[k] = Open
        BY <1>2, <1>6, <2>1 DEF Open, Success
      <4> HIDE DEF T, all
      <4>1. t.postedKeys = IF all THEN s.postedKeys \cup {k} ELSE s.postedKeys
        <5>1. s.postedKeys \ {k} = s.postedKeys
          BY <4>6
        <5>2. t.postedKeys = IF T = Success THEN s.postedKeys \cup {k} ELSE s.postedKeys \ {k}
          BY <2>16
        <5>3. T = Success <=> all
          BY <4>0, <4>6
        <5> QED BY <5>1, <5>2, <5>3
      <4>2. t.keyStatus = IF all THEN [s.keyStatus EXCEPT ![k] = Success] ELSE s.keyStatus
        <5>1. s.keyStatus = [s.keyStatus EXCEPT ![k] = Open]
          <6> HIDE DEF c
          <6> QED BY <1>1, <1>2, <4>6
        <5>2. t.keyStatus = [s.keyStatus EXCEPT ![k] = T]
          BY <2>16
        <5> QED BY <4>0, <5>1, <5>2
      <4>3. t.keyClaim = [s.keyClaim EXCEPT ![k] = <<k, p>>]
        BY <2>16, <3>1
      <4>4. t.committedGroups = [s.committedGroups EXCEPT ![k] = s.committedGroups[k] \cup H]
        BY <1>2, <2>16
      <4>5. t.balances = Staged(s.balances, Legs(H), p)
        BY <2>16
      <4> QED BY <2>16, <4>1, <4>2, <4>3, <4>4, <4>5 DEF IsState, CommittedState, all
    <3> QED BY <1>4, <1>5, <3>1, <3>2, <3>4 DEF Agrees, r, t
  <2> QED BY <2>8, <2>17, <2>18, <2>19
<1> QED BY <1>7, <1>8

-----------------------------------------------------------------------------
(* What the reference evaluator answers for a single-shot plan             *)

\* Some posting that fires is gated by a policy that did not accept.
Ungranted(v, p) == \E i \in FiringFor(p) : Effects[i].gate # NoPolicy /\ v[Effects[i].gate] # "accepted"
SingleCommits(s, k, p, r) ==
  /\ r.outcome = "terminal" /\ ~LeavesRange(s.balances, FiringFor(p), p)
  /\ r.next = Post([s EXCEPT !.balances = Staged(s.balances, FiringFor(p), p)], k, <<k, p>>)

LEMMA SingleAnswer ==
  ASSUME ContractPlan, ~Temporal, ~EvidenceOnly, NEW s, NEW k \in Keys, NEW p \in Payloads, NEW v,
         Admits(s, k, p), ComputeFault[p] = None
  PROVE  LET r == Transition(s, EvalCall(k, p, v))
         IN  IF GuardReverts(p) \/ Ungranted(v, p) THEN r.outcome = "refused"
             ELSE r.code = "balance.overflow" \/ SingleCommits(s, k, p, r)
<1> DEFINE in == EvalCall(k, p, v)
           r == SingleShotTransition(s, in)
           F == FiringFor(p)
           Code(i) == EffectCode(s, in, i)
           Leaves(i) == Staged(s.balances, {j \in F : j <= i}, p) \notin Balances
           next == Post([s EXCEPT !.balances = Staged(s.balances, F, p)], k, <<k, p>>)
<1>1. IllTyped = {}
  BY DEF ContractPlan
<1>2. Transition(s, in) = r
  BY <1>1, Admitted
<1>3. in.key = k /\ in.payload = p /\ in.attestations = v /\ Claim(in) = <<k, p>>
  BY DEF EvalCall, Claim
<1> HIDE DEF in
<1>4. ASSUME NEW i \in EffectIds
      PROVE  /\ EvalGuard(Effects[i].guard, in)
                  = IF Effects[i].guard = NoGuard THEN "true" ELSE Compare[Effects[i].guard][p]
             /\ Effects[i].guard # NoGuard => Effects[i].guard \in Groups \cap Comparisons
  <2>1. ~IsAcceptedGuard(Effects[i].guard)
    BY DEF Temporal
  <2>2. Effects[i].guard \in Policies \cup Comparisons \cup {NoGuard}
    BY PlanAssumption DEF PlanAssumption
  <2> QED BY <1>3, <2>1, <2>2 DEF EvalGuard, IsAcceptedGuard, Groups
<1>5. Firing(in) = F
  BY <1>4 DEF Firing, Holds, FiringFor
<1>6. GuardReverts(p) <=> \E i \in EffectIds : GuardFaults(Effects[i].guard, in)
  BY <1>4 DEF GuardReverts, GuardFaults
<1>7. ASSUME NEW i \in EffectIds, GuardFaults(Effects[i].guard, in)
      PROVE  EvalGuard(Effects[i].guard, in) # None /\ i \notin F
  <2>1. Effects[i].guard # NoGuard /\ EvalGuard(Effects[i].guard, in) = Compare[Effects[i].guard][p]
    BY <1>4, <1>7 DEF GuardFaults
  <2>2. Compare[Effects[i].guard][p] # None
    BY <1>4, <2>1 DEF ContractPlan
  <2>3. i \notin F
    BY <1>7, <2>1 DEF FiringFor, GuardFaults
  <2> QED BY <2>1, <2>2, <2>3
<1>8. ASSUME NEW i \in EffectIds
      PROVE  Code(i) = IF GuardFaults(Effects[i].guard, in) THEN EvalGuard(Effects[i].guard, in)
                       ELSE IF i \notin F THEN None
                       ELSE IF Effects[i].gate # NoPolicy /\ v[Effects[i].gate] # "accepted"
                            THEN "attestation.rejected"
                       ELSE IF Leaves(i) THEN "balance.overflow" ELSE None
  <2>1. Effects[i].kind \in {"debit", "credit"} /\ OperandCode(i, p) = None
    BY AmountType DEF ContractPlan
  <2> HIDE DEF F
  <2> QED BY <1>3, <1>5, <2>1 DEF EffectCode, Accepted
<1>9. r = IF \E i \in EffectIds : Code(i) # None THEN Refused(s, FirstCode(EffectIds, Code, <=))
          ELSE [outcome |-> "terminal", code |-> None, next |-> next, steps |-> SingleShotSteps(in)]
  BY <1>3, <1>5 DEF SingleShotTransition
<1>10. F \in SUBSET EffectIds
  BY DEF FiringFor
<1> HIDE DEF r, F, Code, Leaves, next
<1>11. CASE GuardReverts(p) \/ Ungranted(v, p)
  <2>1. \E i \in EffectIds : Code(i) # None
    <3>1. CASE GuardReverts(p)
      <4>1. PICK i \in EffectIds : GuardFaults(Effects[i].guard, in)
        BY <1>6, <3>1
      <4>2. Code(i) = EvalGuard(Effects[i].guard, in)
        BY <1>8, <4>1
      <4> QED BY <1>7, <4>1, <4>2
    <3>2. CASE Ungranted(v, p)
      <4>1. PICK i \in F : Effects[i].gate # NoPolicy /\ v[Effects[i].gate] # "accepted"
        BY <3>2 DEF Ungranted, F
      <4>2. ~GuardFaults(Effects[i].guard, in) /\ i \in EffectIds
        BY <1>7, <1>10, <4>1
      <4>3. Code(i) = "attestation.rejected"
        BY <1>8, <4>1, <4>2
      <4> QED BY <4>2, <4>3 DEF None
    <3> QED BY <1>11, <3>1, <3>2
  <2>2. r.outcome = "refused"
    BY <1>9, <2>1 DEF Refused
  <2> QED BY <1>2, <1>11, <2>2 DEF in
<1>12. CASE ~(GuardReverts(p) \/ Ungranted(v, p))
  <2>1. \A i \in EffectIds : Code(i) = IF i \in F /\ Leaves(i) THEN "balance.overflow" ELSE None
    BY <1>6, <1>8, <1>12 DEF Ungranted, F
  <2>2. CASE \E i \in EffectIds : Code(i) # None
    <3> DEFINE S == {i \in EffectIds : Code(i) # None}
    <3>1. S \in SUBSET EffectIds /\ S # {}
      BY <2>2
    <3>2. PICK i \in S : FirstOf(S, i)
      BY <3>1, FirstPosting
    <3>3. \E x \in EffectIds : Code(x) # None /\ \A j \in EffectIds : Code(j) # None => x <= j
      BY <3>2 DEF FirstOf, PostingOrder
    <3>4. \A x \in EffectIds : Code(x) # None => Code(x) = "balance.overflow"
      BY <2>1
    <3>5. FirstCode(EffectIds, Code, <=) = "balance.overflow"
      BY <3>3, <3>4 DEF FirstCode
    <3>6. r.code = "balance.overflow"
      BY <1>9, <2>2, <3>5 DEF Refused
    <3> QED BY <1>2, <1>12, <3>6 DEF in
  <2>3. CASE ~(\E i \in EffectIds : Code(i) # None)
    <3>1. r.outcome = "terminal" /\ r.next = next
      BY <1>9, <2>3
    <3>2. ~LeavesRange(s.balances, F, p)
      <4>1. \A i \in F : ~Leaves(i)
        BY <1>10, <2>1, <2>3 DEF None
      <4> QED BY <4>1 DEF LeavesRange, Leaves, PostingOrder
    <3>3. SingleCommits(s, k, p, r)
      BY <3>1, <3>2 DEF SingleCommits, next, F
    <3> QED BY <1>2, <1>12, <3>3 DEF in
  <2> QED BY <2>2, <2>3
<1> QED BY <1>11, <1>12

-----------------------------------------------------------------------------
(* The calls of a single-shot contract                                     *)

\* What the storage says of a key that is open, and of one that may be called.
LEMMA OpenKeys ==
  ASSUME ContractPlan, ContractInv, ~Temporal, NEW k \in Keys, NEW p
  PROVE  /\ Admits(EvaluatedContract(contract), k, p) <=> contract.status[k] = Open
         /\ contract.status[k] = Open => contract.claim[k] = NoClaim /\ IsOf(k, p, Legs({}))
<1> DEFINE s == EvaluatedContract(contract)
<1>1. /\ contract.status[k] \in {Open, Success}
      /\ contract.claim[k] = NoClaim <=> contract.status[k] = Open
  BY DEF ContractInv, ContractOK, ContractRecords, KeyTracked
<1>2. s.postedKeys = {x \in Keys : contract.status[x] = Success} /\ s.keyClaim = contract.claim
  BY EvaluatedFields
<1>3. Open # Success
  BY DEF Open, Success
<1>4. Admits(s, k, p) <=> contract.status[k] = Open
  <2> HIDE DEF s
  <2> QED BY <1>1, <1>2, <1>3 DEF Admits
<1>5. ASSUME contract.status[k] = Open PROVE IsOf(k, p, Legs({}))
  <2>1. PostedLegs(EvaluatedContract(contract), k) = {}
    BY <1>3, <1>5, LegsToPost
  <2> QED BY <1>1, <1>5, <2>1, PostedForClaim, NoLegs
<1> QED BY <1>1, <1>4, <1>5

\* What fires are whole groups.
LEMMA FiringGroups ==
  ASSUME NEW p
  PROVE  \E gs \in SUBSET Groups : FiringFor(p) = Legs(gs)
<1> DEFINE gs == {g \in Groups : g = NoGuard \/ Compare[g][p] = "true"}
<1>1. FiringFor(p) = Legs(gs)
  BY DEF FiringFor, Legs, Groups
<1> QED BY <1>1

\* Where the evaluator's balances hold what fires, the contract posts it too.
LEMMA FiringPosts ==
  ASSUME ContractPlan, WordsSuffice, ContractInv, ~Temporal, NEW k \in Keys, NEW p \in Payloads,
         contract.status[k] = Open,
         ~LeavesRange(EventBalances(contract), FiringFor(p), p)
  PROVE  /\ ~Overflows(k, FiringFor(p), p) /\ TotalsAgree(k, FiringFor(p), p)
         /\ CanPost(contract, k, p, FiringFor(p))
<1>1. PICK gs \in SUBSET Groups : FiringFor(p) = Legs(gs)
  BY FiringGroups
<1>2. IsOf(k, p, Legs({})) /\ Legs({}) = {}
  BY OpenKeys, NoLegs
<1>3. contract \in ContractRecords /\ \A x \in Keys : PositionsAgree(contract, x)
  BY DEF ContractInv, ContractOK
<1>4. EventBalances(contract) \in [Accounts -> Int]
  BY <1>3, EventBalancesTyped
<1>5. ~Overflows(k, Legs(gs), p)
  BY <1>1, <1>2, <1>4, NothingOverflows
<1>6. TotalsAgree(k, Legs(gs), p)
  BY <1>2, GroupsAgree
<1>7. EventsIn(contract, k) = {}
  BY <1>2 DEF IsOf, RowsFor, EventsOf, EventsIn
<1>8. FiringFor(p) \in SUBSET EffectIds
  BY DEF FiringFor
<1> QED BY <1>1, <1>3, <1>5, <1>6, <1>7, <1>8 DEF CanPost

\* What the evaluator reads after such a call.
LEMMA SingleMoves ==
  ASSUME ContractPlan, ContractInv, NEW k \in Keys, NEW p, CanPost(contract, k, p, FiringFor(p))
  PROVE  LET s == EvaluatedContract(contract)
         IN  EvaluatedContract(SingleCall(k, p))
               = Post([s EXCEPT !.balances = Staged(s.balances, FiringFor(p), p)], k, <<k, p>>)
<1> DEFINE s == EvaluatedContract(contract)
           d == SingleCall(k, p)
           t == EvaluatedContract(d)
           F == FiringFor(p)
           b == Staged(s.balances, F, p)
           u == [s EXCEPT !.balances = b]
           c == <<k, p>>
           w == Post(u, k, c)
           G == contract.groups[k]
<1>1. contract \in ContractRecords
  BY DEF ContractInv, ContractOK
<1>2. CallWrites(contract, d, k, p, F, Success, c, G)
  BY <1>1, SingleFields
<1>3. IsState(s) /\ s.committedGroups = contract.groups
  BY EvaluatedFields
<1>4. [contract.groups EXCEPT ![k] = G] = contract.groups
  BY <1>1 DEF ContractRecords
<1> HIDE DEF F, d, c, G
<1>5. MovesTo(s, t, k, p, F, Success, c, G)
  BY <1>2, EvaluatedAfter DEF F
<1> HIDE DEF s, t, b
<1>6. IsState(u) /\ u.balances = b /\ u.postedKeys = s.postedKeys /\ u.keyClaim = s.keyClaim
      /\ u.committedGroups = s.committedGroups /\ u.keyStatus = s.keyStatus
  <2>1. u = [s EXCEPT !.balances = b]
    OBVIOUS
  <2>2. s = [balances |-> s.balances, postedKeys |-> s.postedKeys, keyClaim |-> s.keyClaim,
             committedGroups |-> s.committedGroups, keyStatus |-> s.keyStatus]
    BY <1>3 DEF IsState
  <2> HIDE DEF u
  <2>3. /\ u = [balances |-> u.balances, postedKeys |-> u.postedKeys, keyClaim |-> u.keyClaim,
                committedGroups |-> u.committedGroups, keyStatus |-> u.keyStatus]
        /\ u.balances = b /\ u.postedKeys = s.postedKeys /\ u.keyClaim = s.keyClaim
        /\ u.committedGroups = s.committedGroups /\ u.keyStatus = s.keyStatus
    BY <2>1, <2>2
  <2> QED BY <2>3 DEF IsState
<1> HIDE DEF u
<1>7. /\ IsState(w) /\ w.balances = u.balances /\ w.committedGroups = u.committedGroups
      /\ w.postedKeys = u.postedKeys \cup {k}
      /\ w.keyClaim = [u.keyClaim EXCEPT ![k] = c]
      /\ w.keyStatus = [u.keyStatus EXCEPT ![k] = Success]
  <2> HIDE DEF w
  <2>1. IsPosted(u, w, k, c)
    BY <1>6, PostIs DEF w
  <2> QED BY <2>1 DEF IsPosted
<1> HIDE DEF w
<1>8. t = w
  BY <1>3, <1>4, <1>5, <1>6, <1>7 DEF MovesTo, IsState, b
<1> QED BY <1>8 DEF t, w, u, b, s, d, F, c

\* A policy of a single-shot contract is its only one.
LEMMA OnePolicy ==
  ASSUME ContractPlan, ~Temporal, NEW q \in Policies, NEW n \in DOMAIN Attestations
  PROVE  Attestations[n] = q /\ Policies = {q}
<1>1. Attestations \in Seq(STRING) /\ Len(Attestations) <= 1
  BY PlanAssumption DEF PlanAssumption, ContractPlan
<1>2. DOMAIN Attestations = 1 .. Len(Attestations) /\ Len(Attestations) \in Nat
  BY <1>1
<1>3. \A m \in DOMAIN Attestations : m = n
  BY <1>1, <1>2
<1> QED BY <1>3 DEF Policies, ToSet

\* A call of the evidence-only contract is answered as the evaluator answers it.
LEMMA EvidenceAgrees ==
  ASSUME ContractPlan, WordsSuffice, ContractInv, EvidenceOnly, NEW k \in Keys, NEW p \in Payloads,
         contract.status[k] = Open, IsAccepted(k)
  PROVE  Agrees(k, p, Answer(k, p))
<1> DEFINE s == EvaluatedContract(contract)
           in == EvalCall(k, p, VerdictsFor(k, p))
           r == Answer(k, p)
<1>1. ~Temporal /\ FiringFor(p) = {} /\ EffectIds = {} /\ ComputeFault[p] = None /\ IllTyped = {}
  BY DEF EvidenceOnly, Temporal, FiringFor, EffectIds, ContractPlan
<1>2. PICK q \in Policies : guards[q].accepted[k] # NoClaim
  BY DEF IsAccepted
<1>3. Gated
  BY <1>2 DEF Gated
<1>4. Admits(s, k, p)
  BY <1>1, OpenKeys
<1>5. r = AcceptEvidence(s, in)
  BY <1>1, <1>4, Admitted DEF Answer
<1>6. in.key = k /\ Claim(in) = <<k, p>> /\ in.attestations[q] = "accepted"
  BY <1>1, <1>2 DEF EvalCall, Claim, VerdictsFor
<1>7. \A n \in DOMAIN Attestations : PolicyCode(in, n) = None
  <2> SUFFICES ASSUME NEW n \in DOMAIN Attestations PROVE PolicyCode(in, n) = None
    OBVIOUS
  <2>1. Attestations[n] = q
    BY <1>1, OnePolicy
  <2> QED BY <1>6, <2>1 DEF PolicyCode
<1> HIDE DEF in, r
<1>8. r.outcome = "terminal" /\ r.next = Post(s, k, <<k, p>>)
  BY <1>5, <1>6, <1>7 DEF AcceptEvidence
<1>9. ~LeavesRange(EventBalances(contract), FiringFor(p), p)
  BY <1>1 DEF LeavesRange
<1>10. /\ ~Overflows(k, FiringFor(p), p) /\ TotalsAgree(k, FiringFor(p), p)
       /\ CanPost(contract, k, p, FiringFor(p))
  BY <1>1, <1>9, FiringPosts
<1>11. ~CallReverts(k, p)
  BY <1>1, <1>3, <1>10 DEF CallReverts, SingleReverts, GuardReverts
<1>12. EvaluatedContract(SingleCall(k, p)) = Post(s, k, <<k, p>>)
  <2>1. EvaluatedContract(SingleCall(k, p))
          = Post([s EXCEPT !.balances = Staged(s.balances, FiringFor(p), p)], k, <<k, p>>)
    BY <1>10, SingleMoves
  <2>2. Staged(s.balances, FiringFor(p), p) = s.balances
    <3>1. s.balances = EventBalances(contract)
      BY EvaluatedFields
    <3>2. \A a \in Accounts : LegsOn({}, p, a) = {}
      BY DEF LegsOn
    <3> HIDE DEF s
    <3> QED BY <1>1, <3>1, <3>2 DEF Staged, EventBalances
  <2>3. [s EXCEPT !.balances = s.balances] = s
    <3>1. IsState(s)
      BY EvaluatedFields
    <3> HIDE DEF s
    <3> QED BY <3>1 DEF IsState
  <2> QED BY <2>1, <2>2, <2>3
<1>13. AfterCall(k, p) = SingleCall(k, p)
  BY <1>1 DEF AfterCall
<1> QED BY <1>8, <1>11, <1>12, <1>13 DEF Agrees, r

\* A call of a single-shot contract whose evidence is there, likewise.
LEMMA SingleAgrees ==
  ASSUME ContractPlan, WordsSuffice, ContractInv, ~Temporal, ~EvidenceOnly,
         NEW k \in Keys, NEW p \in Payloads, contract.status[k] = Open, ComputeFault[p] = None,
         Gated => IsAccepted(k) \/ FiringFor(p) # {}, ~Gated => k \in contract.attested
  PROVE  Answer(k, p).code = "balance.overflow" \/ Agrees(k, p, Answer(k, p))
<1> DEFINE s == EvaluatedContract(contract)
           v == VerdictsFor(k, p)
           r == Answer(k, p)
           F == FiringFor(p)
           next == Post([s EXCEPT !.balances = Staged(s.balances, F, p)], k, <<k, p>>)
<1>1. Admits(s, k, p)
  BY OpenKeys
<1>2. r = Transition(s, EvalCall(k, p, v))
  BY DEF Answer
<1>3. IF GuardReverts(p) \/ Ungranted(v, p) THEN r.outcome = "refused"
      ELSE r.code = "balance.overflow" \/ SingleCommits(s, k, p, r)
  <2> HIDE DEF r, s, v
  <2> QED BY <1>1, <1>2, SingleAnswer
<1>4. \A i \in F : Effects[i].gate \in Policies \cup {NoPolicy} /\ (Gated => Effects[i].gate # NoPolicy)
  BY PlanAssumption DEF PlanAssumption, ContractPlan, FiringFor
<1>5. \A q \in Policies : v[q] = "accepted" <=> IsAccepted(k)
  <2> SUFFICES ASSUME NEW q \in Policies PROVE v[q] = "accepted" <=> IsAccepted(k)
    OBVIOUS
  <2>1. \A x \in Policies : x = q
    <3>1. PICK n \in DOMAIN Attestations : Attestations[n] = q
      BY DEF Policies, ToSet
    <3>2. Policies = {q}
      BY OnePolicy
    <3> QED BY <3>2
  <2>2. IsAccepted(k) <=> guards[q].accepted[k] # NoClaim
    BY <2>1 DEF IsAccepted
  <2>3. <<k, p>> # NoClaim
    BY PairIsNotEmpty
  <2> QED BY <2>2, <2>3 DEF VerdictsFor
<1>6. Ungranted(v, p) <=> (Gated /\ ~IsAccepted(k))
  <2>1. CASE Gated /\ ~IsAccepted(k)
    BY <1>4, <1>5, <2>1 DEF Ungranted
  <2>2. CASE Gated /\ IsAccepted(k)
    BY <1>4, <1>5, <2>2 DEF Ungranted
  <2>3. CASE ~Gated
    BY <1>4, <2>3 DEF Ungranted, Gated
  <2> QED BY <2>1, <2>2, <2>3
<1>7. CallReverts(k, p) <=> \/ Gated /\ ~IsAccepted(k)
                            \/ GuardReverts(p)
                            \/ Overflows(k, F, p) \/ ~TotalsAgree(k, F, p)
  BY DEF CallReverts, SingleReverts
<1>8. AfterCall(k, p) = SingleCall(k, p)
  BY DEF AfterCall
<1>9. CASE GuardReverts(p) \/ Ungranted(v, p)
  BY <1>3, <1>6, <1>7, <1>9 DEF Agrees
<1>10. CASE ~(GuardReverts(p) \/ Ungranted(v, p)) /\ SingleCommits(s, k, p, r)
  <2>1. r.outcome = "terminal" /\ r.next = next /\ ~LeavesRange(s.balances, F, p)
    BY <1>10 DEF SingleCommits
  <2>2. s.balances = EventBalances(contract)
    BY EvaluatedFields
  <2>3. ~Overflows(k, F, p) /\ TotalsAgree(k, F, p) /\ CanPost(contract, k, p, F)
    BY <2>1, <2>2, FiringPosts
  <2>4. ~CallReverts(k, p)
    BY <1>6, <1>7, <1>10, <2>3
  <2>5. EvaluatedContract(SingleCall(k, p)) = next
    BY <2>3, SingleMoves
  <2> HIDE DEF r, next
  <2> QED BY <1>8, <2>1, <2>4, <2>5 DEF Agrees, r
<1> QED BY <1>3, <1>9, <1>10

\* The calls of every contract are the evaluator's transitions.
LEMMA CallsFollow == ASSUME ContractPlan, WordsSuffice, ContractInv PROVE CallsAreTransitions
<1> SUFFICES ASSUME NEW k \in Keys, NEW p \in Payloads
             PROVE  \/ Answer(k, p).code = "balance.overflow"
                    \/ ~Temporal /\ ~Gated /\ k \notin contract.attested
                    \/ ~Temporal /\ Gated /\ ~IsAccepted(k) /\ FiringFor(p) = {} /\ CallReverts(k, p)
                    \/ Agrees(k, p, Answer(k, p))
  BY DEF CallsAreTransitions, Answer, Agrees, EvalCall
<1> DEFINE s == EvaluatedContract(contract)
           r == Answer(k, p)
<1>1. CASE Temporal
  BY <1>1, TemporalAgrees
<1>2. CASE ~Temporal /\ (contract.status[k] # Open \/ ComputeFault[p] # None)
  <2>1. CallReverts(k, p)
    BY <1>2 DEF CallReverts, SingleReverts
  <2>2. ~Admits(s, k, p) \/ ComputeFault[p] # None
    BY <1>2, OpenKeys
  <2>3. r.outcome \in {"refused", "replayed"}
    <3> HIDE DEF s
    <3> QED BY <2>2, NotAdmitted DEF Answer, s
  <2> QED BY <2>1, <2>3 DEF Agrees
<1>3. CASE ~Temporal /\ contract.status[k] = Open /\ ComputeFault[p] = None
  <2>1. CASE ~Gated /\ k \notin contract.attested
    BY <1>3, <2>1
  <2>2. CASE Gated /\ ~IsAccepted(k) /\ FiringFor(p) = {}
    <3>1. CallReverts(k, p)
      BY <1>3, <2>2 DEF CallReverts, SingleReverts
    <3> QED BY <1>3, <2>2, <3>1
  <2>3. CASE /\ Gated => IsAccepted(k) \/ FiringFor(p) # {}
             /\ ~Gated => k \in contract.attested
    <3>1. CASE ~EvidenceOnly
      BY <1>3, <2>3, <3>1, SingleAgrees
    <3>2. CASE EvidenceOnly
      <4>1. Gated
        BY <3>2, PlanAssumption DEF EvidenceOnly, Gated, Policies, ToSet, PlanAssumption
      <4>2. FiringFor(p) = {}
        BY <3>2 DEF EvidenceOnly, FiringFor, EffectIds
      <4> QED BY <1>3, <2>3, <3>2, <4>1, <4>2, EvidenceAgrees
    <3> QED BY <3>1, <3>2
  <2> QED BY <2>1, <2>2, <2>3
<1> QED BY <1>1, <1>2, <1>3

\* For every plan, guard deployment and words that suffice, and whatever was
\* accepted, called and forked before, a call reverts when the evaluator refuses
\* or replays and otherwise leaves the evaluator's next state, but for the three
\* exceptions the property names.
THEOREM ContractConforms == ASSUME ContractPlan, WordsSuffice PROVE ContractSpec => []CallsAreTransitions
<1>1. Deployed => ContractInv
  BY ContractStarts
<1>2. ContractInv /\ [Transaction]_solVars => ContractInv'
  BY ContractStep
<1>3. ContractInv => CallsAreTransitions
  BY CallsFollow
<1> QED BY <1>1, <1>2, <1>3, PTL DEF ContractSpec

-----------------------------------------------------------------------------
(* What a call of the database has checked                                 *)

\* The groups a call has committed come before the one it is at, and of that
\* one it posts the legs in order.
Ordered(t) ==
  /\ t.pc \in {"group", "legs"} =>
       \A g \in t.groups : FirstIndex(g) < FirstIndex(GroupSeq[t.n])
  /\ t.pc = "legs" =>
       \A i \in t.legs, j \in Legs({GroupSeq[t.n]}) \ t.legs : GroupOrder(i, j)

\* Every leg the call posted left its balance in range, and still does.
KeepsRange(b, t) ==
  /\ Staged(b, t.legs, t.payload) \in Balances
  /\ \A i \in t.legs :
       /\ Effects[i].leg[t.payload].amount >= 0
       /\ Staged(b, {j \in t.legs : GroupOrder(j, i)}, t.payload) \in Balances

\* Its computes did not fault, the claim it saw is its own, and it pins its own
\* where none is.
Claimed(d, t) ==
  /\ t.pc \notin {"idle", "accepting", "accepted", "claim"} => ComputeFault[t.payload] = None
  /\ t.sawClaim # NoClaim => d.claim[t.key] = <<t.key, t.payload>>
  /\ t.pin => d.claim[t.key] = NoClaim
  /\ t.pin \/ t.pc = "pinning" => t.groups # {}
  /\ t.pc \in {"done", "balance", "status", "commit"} /\ t.groups # {} =>
       t.pin \/ d.claim[t.key] # NoClaim

\* It reconciles its key only if every group is committed, and leaves it open
\* only if some group was not when it looked.
Judged(d, t) ==
  /\ t.recon \/ t.pc \in {"balance", "status"} => Groups \subseteq d.groups[t.key] \cup t.groups
  /\ t.pc = "commit" /\ ~t.recon => ~(Groups \subseteq t.sawGroups \cup t.groups)

Checked(d, t) == Ordered(t) /\ KeepsRange(d.ledger, t) /\ Claimed(d, t) /\ Judged(d, t)

Touches(t) == {Account(i, t.payload) : i \in t.legs}
\* Two calls do not post to one balance, nor pin one key, both.
Exclusive(t, u) ==
  /\ Touches(t) \cap Touches(u) = {}
  /\ t.key = u.key => ~(t.pin /\ u.pin)

\* Balances are in range; what a key committed, its claim is pinned for; a
\* reconciled key is complete.
TablesChecked(d) ==
  /\ d.ledger \in Balances
  /\ \A k \in Keys : d.groups[k] # {} => d.claim[k] # NoClaim
  /\ \A k \in d.reconciled : Groups \subseteq d.groups[k]

\* The inductive invariant of what commits.
CheckedInv ==
  /\ TablesChecked(db)
  /\ \A s \in Sessions : Checked(db, tx[s])
  /\ \A s, r \in Sessions : s # r => Exclusive(tx[s], tx[r])
-----------------------------------------------------------------------------
(* Every statement keeps what was checked                                  *)

\* Nothing posted leaves the balances as they are.
LEMMA NothingStaged ==
  ASSUME NEW b \in [Accounts -> Int], NEW p
  PROVE  Staged(b, {}, p) = b
<1>1. \A a \in Accounts : LegsOn({}, p, a) = {}
  BY DEF LegsOn
<1> QED BY <1>1 DEF Staged

\* Balances in range are integers.
LEMMA BalancesAreInts == Balances \subseteq [Accounts -> Int]
BY PlanAssumption DEF Balances, Balance, PlanAssumption

\* A call with no legs, no claim seen and nothing pinned has checked nothing.
LEMMA FreshChecked ==
  ASSUME NEW d, d.ledger \in Balances, NEW t, t.legs = {}, t.groups = {},
         t.sawClaim = NoClaim, t.pin = FALSE, t.recon = FALSE,
         t.pc \in {"idle", "accepting", "accepted", "claim"}
  PROVE  Checked(d, t) /\ \A u : Exclusive(t, u) /\ Exclusive(u, t)
<1>1. Staged(d.ledger, {}, t.payload) \in Balances
  BY NothingStaged, BalancesAreInts
<1>2. KeepsRange(d.ledger, t)
  BY <1>1 DEF KeepsRange
<1>3. Ordered(t) /\ Claimed(d, t) /\ Judged(d, t)
  BY DEF Ordered, Claimed, Judged
<1>4. \A u : Exclusive(t, u) /\ Exclusive(u, t)
  BY DEF Exclusive, Touches
<1> QED BY <1>2, <1>3, <1>4 DEF Checked

\* The record of an idle session is such a call's.
LEMMA NoCallChecked ==
  ASSUME NEW d, d.ledger \in Balances
  PROVE  Checked(d, NoTx) /\ \A u : Exclusive(NoTx, u) /\ Exclusive(u, NoTx)
<1>1. /\ NoTx.legs = {} /\ NoTx.groups = {} /\ NoTx.sawClaim = NoClaim /\ NoTx.pin = FALSE
      /\ NoTx.recon = FALSE /\ NoTx.pc = "idle"
  BY DEF NoTx
<1> QED BY <1>1, FreshChecked

\* No call was made, and every balance is nil.
LEMMA CheckedStarts == ASSUME TemporalPlan, Init PROVE CheckedInv
<1>1. db.ledger \in Balances
  <2>1. 0 \in Balance
    BY PlanAssumption DEF PlanAssumption, Balance
  <2>2. db.ledger = [a \in Accounts |-> 0]
    BY DEF Init
  <2> QED BY <2>1, <2>2 DEF Balances
<1>2. \A s \in Sessions : tx[s] = NoTx
  BY DEF Init
<1>3. TablesChecked(db)
  BY <1>1 DEF Init, TablesChecked
<1> QED BY <1>1, <1>2, <1>3, NoCallChecked DEF CheckedInv

\* A step of one call that leaves the tables alone keeps what was checked, if
\* what the call becomes does.
LEMMA CheckedSteps ==
  ASSUME PostgresInv, CheckedInv, NEW s \in Sessions, NEW t, Checked(db, t),
         \A r \in Sessions \ {s} : Exclusive(t, tx[r]), Step(s, t)
  PROVE  CheckedInv'
<1>1. db' = db /\ tx' = [tx EXCEPT ![s] = t] /\ tx \in [Sessions -> CallRecords]
  BY DEF Step, PostgresInv, CallsOK
<1>2. tx'[s] = t /\ \A r \in Sessions \ {s} : tx'[r] = tx[r]
  BY <1>1
<1>3. \A r \in Sessions : Checked(db, tx'[r])
  BY <1>2 DEF CheckedInv
<1>4. \A r, q \in Sessions : r # q => Exclusive(tx'[r], tx'[q])
  <2>1. \A r \in Sessions \ {s} : Exclusive(tx[r], t)
    BY DEF Exclusive
  <2>2. \A r, q \in Sessions : r # q => Exclusive(tx[r], tx[q])
    BY DEF CheckedInv
  <2> QED BY <1>2, <2>1, <2>2
<1>5. TablesChecked(db)
  BY DEF CheckedInv
<1> QED BY <1>1, <1>3, <1>4, <1>5 DEF CheckedInv

\* What a call in progress has checked.
LEMMA InChecked ==
  ASSUME PostgresInv, CheckedInv, NEW s \in Sessions
  PROVE  /\ tx[s] \in CallRecords /\ CallOK(tx[s])
         /\ Ordered(tx[s]) /\ KeepsRange(db.ledger, tx[s]) /\ Claimed(db, tx[s]) /\ Judged(db, tx[s])
         /\ \A r \in Sessions \ {s} : Exclusive(tx[s], tx[r])
         /\ db.ledger \in Balances
BY DEF PostgresInv, CallsOK, CheckedInv, Checked, TablesChecked

\* A call that ends, or raises, leaves nothing of itself.
LEMMA RaiseKeepsChecked ==
  ASSUME PostgresInv, CheckedInv, NEW s \in Sessions, Raise(s)
  PROVE  CheckedInv'
<1>1. db.ledger \in Balances
  BY InChecked
<1>2. Checked(db, NoTx) /\ \A r \in Sessions : Exclusive(NoTx, tx[r])
  BY <1>1, NoCallChecked
<1> QED BY <1>2, CheckedSteps DEF Raise

\* The calls that are made, and those that accept, have posted nothing.
LEMMA FirstStatementsChecked ==
  ASSUME PostgresInv, CheckedInv, NEW s \in Sessions,
         \/ \E k \in Keys, p \in Groups, payload \in Payloads,
               obs \in BoundedSeq(Observers, MaxObservers) : Accept(s, k, p, payload, obs)
         \/ \E k \in Keys, payload \in Payloads : Execute(s, k, payload)
         \/ AcceptInsert(s)
  PROVE  CheckedInv'
<1>1. CASE Raise(s)
  BY <1>1, RaiseKeepsChecked
<1>2. ASSUME ~Raise(s), NEW k, NEW p, NEW payload, NEW obs, Accept(s, k, p, payload, obs)
      PROVE  CheckedInv'
  <2> DEFINE n == CHOOSE n \in DOMAIN GroupSeq : GroupSeq[n] = p
             t == [NoTx EXCEPT !.pc = "accepting", !.key = k, !.payload = payload, !.n = n]
  <2>1. Step(s, t)
    BY <1>2 DEF Accept
  <2> HIDE DEF n
  <2>2. /\ t.legs = {} /\ t.groups = {} /\ t.sawClaim = NoClaim /\ t.pin = FALSE
        /\ t.recon = FALSE /\ t.pc = "accepting"
    BY DEF NoTx
  <2> HIDE DEF t
  <2>3. Checked(db, t) /\ \A r \in Sessions : Exclusive(t, tx[r])
    BY <2>2, FreshChecked, InChecked
  <2> QED BY <2>1, <2>3, CheckedSteps
<1>3. ASSUME ~Raise(s), NEW k, NEW payload, Execute(s, k, payload)
      PROVE  CheckedInv'
  <2> DEFINE t == [NoTx EXCEPT !.pc = "claim", !.key = k, !.payload = payload]
  <2>1. Step(s, t)
    BY <1>3 DEF Execute
  <2>2. /\ t.legs = {} /\ t.groups = {} /\ t.sawClaim = NoClaim /\ t.pin = FALSE
        /\ t.recon = FALSE /\ t.pc = "claim"
    BY DEF NoTx
  <2> HIDE DEF t
  <2>3. Checked(db, t) /\ \A r \in Sessions : Exclusive(t, tx[r])
    BY <2>2, FreshChecked, InChecked
  <2> QED BY <2>1, <2>3, CheckedSteps
<1>4. ASSUME ~Raise(s), AcceptInsert(s) PROVE CheckedInv'
  <2> DEFINE t == [tx[s] EXCEPT !.pc = "accepted"]
  <2>1. tx[s] \in CallRecords /\ Checked(db, tx[s]) /\ \A r \in Sessions \ {s} : Exclusive(tx[s], tx[r])
    BY InChecked DEF CheckedInv
  <2>2. Step(s, t)
    BY <1>4 DEF AcceptInsert, GoTo
  <2>3. /\ t.pc = "accepted" /\ t.key = tx[s].key /\ t.payload = tx[s].payload /\ t.groups = tx[s].groups
        /\ t.legs = tx[s].legs /\ t.sawClaim = tx[s].sawClaim /\ t.pin = tx[s].pin /\ t.recon = tx[s].recon
    BY <2>1 DEF CallRecords
  <2> HIDE DEF t
  <2>4. Checked(db, t)
    BY <2>1, <2>3 DEF Checked, Ordered, KeepsRange, Claimed, Judged
  <2>5. \A r \in Sessions \ {s} : Exclusive(t, tx[r])
    BY <2>1, <2>3 DEF Exclusive, Touches
  <2> QED BY <2>2, <2>4, <2>5, CheckedSteps
<1> QED BY <1>1, <1>2, <1>3, <1>4

\* The claim check lets through a call whose computes do not fault and whose
\* claim is the pinned one, if one is.
LEMMA ClaimCheckKeepsChecked ==
  ASSUME PostgresInv, CheckedInv, NEW s \in Sessions, ClaimCheck(s)
  PROVE  CheckedInv'
<1>1. CASE Raise(s)
  BY <1>1, RaiseKeepsChecked
<1>2. CASE ~Raise(s)
  <2> DEFINE c == db.claim[tx[s].key]
             t == [tx[s] EXCEPT !.pc = "group", !.n = 1, !.sawClaim = c]
  <2>1. /\ tx[s] \in CallRecords /\ tx[s].pc = "claim" /\ tx[s].groups = {}
        /\ KeepsRange(db.ledger, tx[s]) /\ Claimed(db, tx[s]) /\ Judged(db, tx[s])
        /\ \A r \in Sessions \ {s} : Exclusive(tx[s], tx[r])
    BY InChecked DEF ClaimCheck, At, CallOK
  <2>2. Step(s, t) /\ ComputeFault[tx[s].payload] = None
        /\ c \in {NoClaim, <<tx[s].key, tx[s].payload>>}
    BY <1>2 DEF ClaimCheck, TxClaim
  <2> HIDE DEF c
  <2>3. /\ t.pc = "group" /\ t.key = tx[s].key /\ t.payload = tx[s].payload /\ t.groups = tx[s].groups
        /\ t.legs = tx[s].legs /\ t.sawClaim = c /\ t.pin = tx[s].pin /\ t.recon = tx[s].recon
    BY <2>1 DEF CallRecords
  <2> HIDE DEF t
  <2>4. Claimed(db, t)
    BY <2>1, <2>2, <2>3 DEF Claimed, c
  <2>5. Ordered(t) /\ KeepsRange(db.ledger, t) /\ Judged(db, t)
    BY <2>1, <2>3 DEF Ordered, KeepsRange, Judged
  <2>6. \A r \in Sessions \ {s} : Exclusive(t, tx[r])
    BY <2>1, <2>3 DEF Exclusive, Touches
  <2> QED BY <2>2, <2>4, <2>5, <2>6, CheckedSteps DEF Checked
<1> QED BY <1>1, <1>2

\* A call that goes on after its group has checked what it had.
LEMMA NextGroupChecked ==
  ASSUME NEW d, NEW t \in CallRecords, t.n \in DOMAIN GroupSeq,
         \A g \in t.groups : FirstIndex(g) <= FirstIndex(GroupSeq[t.n]),
         KeepsRange(d.ledger, t), ComputeFault[t.payload] = None,
         t.sawClaim # NoClaim => d.claim[t.key] = <<t.key, t.payload>>,
         t.pin => d.claim[t.key] = NoClaim /\ t.groups # {},
         t.recon => Groups \subseteq d.groups[t.key] \cup t.groups
  PROVE  Checked(d, NextGroup(t))
<1> DEFINE u == NextGroup(t)
<1>1. /\ u \in CallRecords /\ u.pc \in {"group", "pin"}
      /\ u.pc = "group" => u.n \in DOMAIN GroupSeq /\ u.n = t.n + 1
      /\ u.key = t.key /\ u.payload = t.payload
      /\ u.groups = t.groups /\ u.legs = t.legs
      /\ u.sawClaim = t.sawClaim /\ u.pin = t.pin /\ u.recon = t.recon
  BY NextGroupFollows
<1> HIDE DEF u
<1>2. ASSUME u.pc = "group", NEW g \in t.groups
      PROVE  FirstIndex(g) < FirstIndex(GroupSeq[u.n])
  <2>1. t.n < u.n /\ g \in Groups
    BY <1>1, <1>2, GroupSeqLists DEF CallRecords
  <2>2. FirstIndex(GroupSeq[t.n]) < FirstIndex(GroupSeq[u.n])
    BY <1>1, <1>2, <2>1, GroupSeqLists
  <2>3. /\ FirstIndex(g) \in Nat /\ FirstIndex(GroupSeq[t.n]) \in Nat
        /\ FirstIndex(GroupSeq[u.n]) \in Nat
    BY <1>1, <1>2, <2>1, FirstIndexInPlan, EffectIdsInterval, GroupSeqLists
  <2> QED BY <2>2, <2>3
<1>3. Ordered(u)
  BY <1>1, <1>2 DEF Ordered
<1>4. KeepsRange(d.ledger, u) /\ Claimed(d, u) /\ Judged(d, u)
  BY <1>1 DEF KeepsRange, Claimed, Judged
<1> QED BY <1>3, <1>4 DEF Checked, u

\* A group is entered after those the call committed, or passed.
LEMMA GroupGuardKeepsChecked ==
  ASSUME PostgresInv, CheckedInv, NEW s \in Sessions, GroupGuard(s)
  PROVE  CheckedInv'
<1>1. /\ tx[s] \in CallRecords /\ CallOK(tx[s]) /\ tx[s].pc = "group"
      /\ Ordered(tx[s]) /\ KeepsRange(db.ledger, tx[s]) /\ Claimed(db, tx[s]) /\ Judged(db, tx[s])
      /\ \A r \in Sessions \ {s} : Exclusive(tx[s], tx[r])
  BY InChecked DEF GroupGuard, At
<1>2. tx[s].n \in DOMAIN GroupSeq /\ tx[s].legs = Legs(tx[s].groups) /\ tx[s].groups \in SUBSET Groups
  BY <1>1 DEF CallOK, CallRecords
<1>3. \A g \in tx[s].groups : FirstIndex(g) < FirstIndex(GroupSeq[tx[s].n])
  BY <1>1 DEF Ordered
<1>4. CASE GroupHolds(s)
  <2> DEFINE t == [tx[s] EXCEPT !.pc = "legs"]
  <2>1. Step(s, t)
    BY <1>4 DEF GroupGuard, GoTo
  <2>2. /\ t.pc = "legs" /\ t.key = tx[s].key /\ t.payload = tx[s].payload /\ t.groups = tx[s].groups
        /\ t.legs = tx[s].legs /\ t.sawClaim = tx[s].sawClaim /\ t.pin = tx[s].pin
        /\ t.recon = tx[s].recon /\ t.n = tx[s].n
    BY <1>1 DEF CallRecords
  <2> HIDE DEF t
  <2>3. ASSUME NEW i \in t.legs, NEW j \in Legs({GroupSeq[t.n]}) PROVE GroupOrder(i, j)
    <3>1. Effects[i].guard \in tx[s].groups /\ Effects[j].guard = GroupSeq[tx[s].n]
      BY <1>2, <2>2 DEF Legs
    <3> QED BY <1>3, <3>1 DEF GroupOrder
  <2>4. Ordered(t)
    BY <1>3, <2>2, <2>3 DEF Ordered
  <2>5. KeepsRange(db.ledger, t) /\ Claimed(db, t) /\ Judged(db, t)
    BY <1>1, <2>2 DEF KeepsRange, Claimed, Judged
  <2>6. \A r \in Sessions \ {s} : Exclusive(t, tx[r])
    BY <1>1, <2>2 DEF Exclusive, Touches
  <2> QED BY <2>1, <2>4, <2>5, <2>6, CheckedSteps DEF Checked
<1>5. CASE ~GroupHolds(s)
  <2> DEFINE t == NextGroup(tx[s])
  <2>1. Step(s, t)
    BY <1>5 DEF GroupGuard
  <2>2. \A g \in tx[s].groups : FirstIndex(g) <= FirstIndex(GroupSeq[tx[s].n])
    <3>1. FirstIndex(GroupSeq[tx[s].n]) \in Nat
      BY <1>2, GroupSeqLists, FirstIndexInPlan, EffectIdsInterval
    <3>2. \A g \in tx[s].groups : FirstIndex(g) \in Nat
      BY <1>2, FirstIndexInPlan, EffectIdsInterval
    <3> QED BY <1>3, <3>1, <3>2
  <2>3. Checked(db, t)
    BY <1>1, <1>2, <2>2, NextGroupChecked DEF Claimed, Judged
  <2>4. t.key = tx[s].key /\ t.payload = tx[s].payload /\ t.legs = tx[s].legs /\ t.pin = tx[s].pin
    BY <1>1, <1>2, NextGroupFollows
  <2> HIDE DEF t
  <2>5. \A r \in Sessions \ {s} : Exclusive(t, tx[r])
    BY <1>1, <2>4 DEF Exclusive, Touches
  <2> QED BY <2>1, <2>3, <2>5, CheckedSteps
<1> QED BY <1>4, <1>5

\* A leg is posted after those before it, on a balance no other call has, and
\* only if the balance stays in range.
LEMMA PostLegKeepsChecked ==
  ASSUME PostgresInv, CheckedInv, NEW s \in Sessions, PostLeg(s)
  PROVE  CheckedInv'
<1>1. CASE Raise(s)
  BY <1>1, RaiseKeepsChecked
<1>2. CASE ~Raise(s)
  <2> DEFINE i == Min(Unposted(s))
             t == [tx[s] EXCEPT !.legs = @ \cup {i}]
  <2>1. /\ tx[s] \in CallRecords /\ CallOK(tx[s]) /\ tx[s].pc = "legs"
        /\ Ordered(tx[s]) /\ KeepsRange(db.ledger, tx[s]) /\ Claimed(db, tx[s]) /\ Judged(db, tx[s])
        /\ \A r \in Sessions \ {s} : Exclusive(tx[s], tx[r])
    BY InChecked DEF PostLeg, At
  <2>2. /\ Step(s, t)
        /\ Effects[i].leg[tx[s].payload].amount >= 0
        /\ \A r \in Others(s) : Account(i, tx[s].payload) \notin Rows(r)
        /\ Staged(db.ledger, tx[s].legs \cup {i}, tx[s].payload) \in Balances
    <3>1. Effects[i].leg[tx[s].payload].amount \in Int
      BY <1>2, <2>1, NextPosting, EffectType DEF PostLeg, Unposted, Legs, CallOK
    <3> QED BY <1>2, <3>1 DEF PostLeg
  <2>3. i \in Legs({GroupSeq[tx[s].n]}) \ tx[s].legs /\ i \in EffectIds /\ tx[s].legs \in SUBSET EffectIds
    BY <2>1, NextPosting DEF PostLeg, Unposted, Legs, Group, CallRecords
  <2>4. \A j \in Unposted(s) : i <= j
    <3>1. Unposted(s) \in SUBSET Nat /\ Unposted(s) # {}
      BY EffectIdsInterval DEF PostLeg, Unposted, Legs
    <3>2. PICK x \in Unposted(s) : \A y \in Unposted(s) : x <= y
      BY <3>1, LeastExists
    <3> QED BY <3>2 DEF Min
  <2> HIDE DEF i
  <2>5. /\ t.pc = "legs" /\ t.key = tx[s].key /\ t.payload = tx[s].payload /\ t.groups = tx[s].groups
        /\ t.legs = tx[s].legs \cup {i} /\ t.sawClaim = tx[s].sawClaim /\ t.pin = tx[s].pin
        /\ t.recon = tx[s].recon /\ t.n = tx[s].n
    BY <2>1 DEF CallRecords
  <2> HIDE DEF t
  <2>6. \A j \in tx[s].legs : GroupOrder(j, i) /\ ~GroupOrder(i, j)
    <3> SUFFICES ASSUME NEW j \in tx[s].legs PROVE GroupOrder(j, i) /\ ~GroupOrder(i, j)
      OBVIOUS
    <3>1. GroupOrder(j, i) /\ j \in EffectIds /\ j # i
      BY <2>1, <2>3 DEF Ordered
    <3> QED BY <2>3, <3>1, GroupOrderIsStrict
  <2>7. GroupOrder(i, i)
    BY <2>3, EffectIdsInterval DEF GroupOrder
  <2>8. Ordered(t)
    <3> SUFFICES ASSUME NEW j \in Legs({GroupSeq[t.n]}) \ t.legs PROVE GroupOrder(i, j)
      BY <2>1, <2>5 DEF Ordered
    <3>1. Effects[i].guard = Effects[j].guard /\ i <= j
      BY <2>3, <2>4, <2>5 DEF Legs, Unposted, Group
    <3> QED BY <3>1 DEF GroupOrder
  <2>9. KeepsRange(db.ledger, t)
    <3>1. {j \in t.legs : GroupOrder(j, i)} = t.legs
      BY <2>5, <2>6, <2>7
    <3>2. \A x \in tx[s].legs : {j \in t.legs : GroupOrder(j, x)} = {j \in tx[s].legs : GroupOrder(j, x)}
      BY <2>5, <2>6
    <3> QED BY <2>1, <2>2, <2>5, <3>1, <3>2 DEF KeepsRange
  <2>10. Claimed(db, t) /\ Judged(db, t)
    BY <2>1, <2>5 DEF Claimed, Judged
  <2>11. ASSUME NEW r \in Sessions \ {s} PROVE Exclusive(t, tx[r])
    <3>1. Account(i, tx[s].payload) \notin Touches(tx[r])
      <4>1. CASE tx[r].pc = "idle"
        <5>1. tx[r] = NoTx
          BY <4>1, InChecked DEF CallOK
        <5> QED BY <5>1 DEF NoTx, Touches
      <4>2. CASE tx[r].pc # "idle"
        <5>1. r \in Others(s)
          BY <4>2 DEF Others
        <5> QED BY <2>2, <5>1 DEF Rows, Touches
      <4> QED BY <4>1, <4>2
    <3>2. Touches(t) = Touches(tx[s]) \cup {Account(i, tx[s].payload)}
      BY <2>5 DEF Touches
    <3> QED BY <2>1, <2>5, <3>1, <3>2 DEF Exclusive
  <2> QED BY <2>2, <2>8, <2>9, <2>10, <2>11, CheckedSteps DEF Checked
<1> QED BY <1>1, <1>2

\* A group whose legs are all posted is committed, and the next one comes after it.
LEMMA InsertGroupKeepsChecked ==
  ASSUME PostgresInv, CheckedInv, NEW s \in Sessions, InsertGroup(s)
  PROVE  CheckedInv'
<1>1. CASE Raise(s)
  BY <1>1, RaiseKeepsChecked
<1>2. CASE ~Raise(s)
  <2> DEFINE g == Group(s)
             v == [tx[s] EXCEPT !.groups = @ \cup {g}]
             t == NextGroup(v)
  <2>1. /\ tx[s] \in CallRecords /\ CallOK(tx[s]) /\ tx[s].pc = "legs"
        /\ Ordered(tx[s]) /\ KeepsRange(db.ledger, tx[s]) /\ Claimed(db, tx[s]) /\ Judged(db, tx[s])
        /\ \A r \in Sessions \ {s} : Exclusive(tx[s], tx[r])
    BY InChecked DEF InsertGroup, At
  <2>2. Step(s, t)
    BY <1>2 DEF InsertGroup
  <2>3. tx[s].n \in DOMAIN GroupSeq /\ g \in Groups /\ g = GroupSeq[tx[s].n] /\ tx[s].groups \in SUBSET Groups
    BY <2>1, GroupSeqLists DEF CallOK, Group, CallRecords
  <2> HIDE DEF g
  <2>4. /\ v \in CallRecords /\ v.key = tx[s].key /\ v.n = tx[s].n
        /\ v.groups = tx[s].groups \cup {g} /\ v.legs = tx[s].legs /\ v.payload = tx[s].payload
        /\ v.sawClaim = tx[s].sawClaim /\ v.pin = tx[s].pin /\ v.recon = tx[s].recon
    BY <2>1, <2>3 DEF CallRecords
  <2> HIDE DEF v
  <2>5. /\ t.key = v.key /\ t.payload = v.payload /\ t.legs = v.legs /\ t.pin = v.pin
    BY <2>3, <2>4, NextGroupFollows
  <2>6. \A h \in v.groups : FirstIndex(h) <= FirstIndex(GroupSeq[v.n])
    <3>1. \A h \in tx[s].groups : FirstIndex(h) < FirstIndex(g)
      BY <2>1, <2>3 DEF Ordered
    <3>2. \A h \in tx[s].groups \cup {g} : FirstIndex(h) \in Nat
      BY <2>3, FirstIndexInPlan, EffectIdsInterval
    <3> QED BY <2>3, <2>4, <3>1, <3>2
  <2>7. Checked(db, t)
    <3>1. KeepsRange(db.ledger, v)
      BY <2>1, <2>4 DEF KeepsRange
    <3>2. /\ ComputeFault[v.payload] = None
          /\ v.sawClaim # NoClaim => db.claim[v.key] = <<v.key, v.payload>>
          /\ v.pin => db.claim[v.key] = NoClaim /\ v.groups # {}
          /\ v.recon => Groups \subseteq db.groups[v.key] \cup v.groups
      BY <2>1, <2>4 DEF Claimed, Judged
    <3> QED BY <2>3, <2>4, <2>6, <3>1, <3>2, NextGroupChecked
  <2> HIDE DEF t
  <2>8. \A r \in Sessions \ {s} : Exclusive(t, tx[r])
    BY <2>1, <2>4, <2>5 DEF Exclusive, Touches
  <2> QED BY <2>2, <2>7, <2>8, CheckedSteps
<1> QED BY <1>1, <1>2

\* A statement after the groups' leaves the call's rows, and what they rest on,
\* as they are.
LEMMA LaterChecked ==
  ASSUME PostgresInv, CheckedInv, NEW s \in Sessions, NEW t,
         t.key = tx[s].key, t.payload = tx[s].payload, t.groups = tx[s].groups, t.legs = tx[s].legs,
         t.pc \notin {"group", "legs"}, Claimed(db, t), Judged(db, t),
         t.pin = tx[s].pin \/ \A r \in SameKey(s) : ~tx[r].pin, Step(s, t)
  PROVE  CheckedInv'
<1>1. KeepsRange(db.ledger, tx[s]) /\ \A r \in Sessions \ {s} : Exclusive(tx[s], tx[r])
  BY InChecked
<1>2. Ordered(t) /\ KeepsRange(db.ledger, t)
  BY <1>1 DEF Ordered, KeepsRange
<1>3. ASSUME NEW r \in Sessions \ {s} PROVE Exclusive(t, tx[r])
  <2>1. CASE tx[r].pc = "idle"
    <3>1. tx[r] = NoTx
      BY <2>1, InChecked DEF CallOK
    <3> QED BY <3>1 DEF NoTx, Exclusive, Touches
  <2>2. CASE tx[r].pc # "idle"
    BY <1>1, <2>2, InOthers DEF Exclusive, Touches
  <2> QED BY <2>1, <2>2
<1> QED BY <1>2, <1>3, CheckedSteps DEF Checked

\* The claim is pinned where none is, and by one call at a time.
LEMMA PinKeepsChecked ==
  ASSUME PostgresInv, CheckedInv, NEW s \in Sessions, PinCheck(s) \/ InsertClaim(s)
  PROVE  CheckedInv'
<1>1. CASE Raise(s)
  BY <1>1, RaiseKeepsChecked
<1>2. tx[s] \in CallRecords /\ Claimed(db, tx[s]) /\ Judged(db, tx[s])
  BY InChecked
<1>3. CASE PinCheck(s)
  <2> DEFINE pc == IF tx[s].groups # {} /\ db.claim[tx[s].key] = NoClaim THEN "pinning" ELSE "done"
             t == [tx[s] EXCEPT !.pc = pc]
  <2>1. Step(s, t) /\ tx[s].pc = "pin"
    BY <1>3 DEF PinCheck, GoTo, At
  <2>2. \/ pc = "pinning" /\ tx[s].groups # {}
        \/ pc = "done" /\ (tx[s].groups = {} \/ db.claim[tx[s].key] # NoClaim)
    OBVIOUS
  <2> HIDE DEF pc
  <2>3. /\ t.pc = pc /\ t.key = tx[s].key /\ t.payload = tx[s].payload /\ t.groups = tx[s].groups
        /\ t.legs = tx[s].legs /\ t.sawClaim = tx[s].sawClaim /\ t.pin = tx[s].pin
        /\ t.recon = tx[s].recon /\ t.sawGroups = tx[s].sawGroups
    BY <1>2 DEF CallRecords
  <2> HIDE DEF t
  <2>4. Claimed(db, t) /\ Judged(db, t)
    BY <1>2, <2>1, <2>2, <2>3 DEF Claimed, Judged
  <2> QED BY <2>1, <2>2, <2>3, <2>4, LaterChecked
<1>4. CASE InsertClaim(s) /\ ~Raise(s)
  <2> DEFINE t == [tx[s] EXCEPT !.pc = "done", !.pin = TRUE]
  <2>1. /\ Step(s, t) /\ tx[s].pc = "pinning" /\ db.claim[tx[s].key] = NoClaim
        /\ \A r \in SameKey(s) : ~tx[r].pin
    BY <1>4 DEF InsertClaim, At
  <2>2. /\ t.pc = "done" /\ t.key = tx[s].key /\ t.payload = tx[s].payload /\ t.groups = tx[s].groups
        /\ t.legs = tx[s].legs /\ t.sawClaim = tx[s].sawClaim /\ t.pin = TRUE
        /\ t.recon = tx[s].recon /\ t.sawGroups = tx[s].sawGroups
    BY <1>2 DEF CallRecords
  <2> HIDE DEF t
  <2>3. Claimed(db, t) /\ Judged(db, t)
    BY <1>2, <2>1, <2>2 DEF Claimed, Judged
  <2> QED BY <2>1, <2>2, <2>3, LaterChecked
<1> QED BY <1>1, <1>3, <1>4

\* The key is reconciled only where the done check found every group committed.
LEMMA DoneKeepsChecked ==
  ASSUME PostgresInv, CheckedInv, NEW s \in Sessions, DoneCheck(s) \/ BalanceCheck(s) \/ StatusWrite(s)
  PROVE  CheckedInv'
<1>1. CASE Raise(s)
  BY <1>1, RaiseKeepsChecked
<1>2. tx[s] \in CallRecords /\ Claimed(db, tx[s]) /\ Judged(db, tx[s])
  BY InChecked
<1>3. CASE DoneCheck(s)
  <2> DEFINE pc == IF ~AllDone(s) THEN "commit" ELSE "balance"
             saw == db.groups[tx[s].key]
             t == [tx[s] EXCEPT !.sawGroups = saw, !.pc = pc]
  <2>1. Step(s, t) /\ tx[s].pc = "done"
    BY <1>3 DEF DoneCheck, At, BalanceAsserted
  <2>2. /\ pc \in {"commit", "balance"}
        /\ pc = "balance" => Groups \subseteq saw \cup tx[s].groups
        /\ pc = "commit" => ~(Groups \subseteq saw \cup tx[s].groups)
    BY DEF AllDone
  <2> HIDE DEF pc, saw
  <2>3. /\ t.pc = pc /\ t.key = tx[s].key /\ t.payload = tx[s].payload /\ t.groups = tx[s].groups
        /\ t.legs = tx[s].legs /\ t.sawClaim = tx[s].sawClaim /\ t.pin = tx[s].pin
        /\ t.recon = tx[s].recon /\ t.sawGroups = saw
    BY <1>2 DEF CallRecords
  <2> HIDE DEF t
  <2>4. Claimed(db, t)
    BY <1>2, <2>1, <2>2, <2>3 DEF Claimed
  <2>5. Judged(db, t)
    BY <1>2, <2>1, <2>2, <2>3 DEF Judged, saw
  <2> QED BY <2>1, <2>2, <2>3, <2>4, <2>5, LaterChecked
<1>4. CASE BalanceCheck(s) /\ ~Raise(s)
  <2> DEFINE t == [tx[s] EXCEPT !.pc = "status"]
  <2>1. Step(s, t) /\ tx[s].pc = "balance"
    BY <1>4 DEF BalanceCheck, GoTo, At
  <2>2. /\ t.pc = "status" /\ t.key = tx[s].key /\ t.payload = tx[s].payload /\ t.groups = tx[s].groups
        /\ t.legs = tx[s].legs /\ t.sawClaim = tx[s].sawClaim /\ t.pin = tx[s].pin
        /\ t.recon = tx[s].recon /\ t.sawGroups = tx[s].sawGroups
    BY <1>2 DEF CallRecords
  <2> HIDE DEF t
  <2>3. Claimed(db, t) /\ Judged(db, t)
    BY <1>2, <2>1, <2>2 DEF Claimed, Judged
  <2> QED BY <2>1, <2>2, <2>3, LaterChecked
<1>5. CASE StatusWrite(s)
  <2> DEFINE t == [tx[s] EXCEPT !.pc = "commit", !.recon = TRUE]
  <2>1. Step(s, t) /\ tx[s].pc = "status"
    BY <1>5 DEF StatusWrite, At
  <2>2. /\ t.pc = "commit" /\ t.key = tx[s].key /\ t.payload = tx[s].payload /\ t.groups = tx[s].groups
        /\ t.legs = tx[s].legs /\ t.sawClaim = tx[s].sawClaim /\ t.pin = tx[s].pin /\ t.recon = TRUE
    BY <1>2 DEF CallRecords
  <2> HIDE DEF t
  <2>3. Claimed(db, t) /\ Judged(db, t)
    BY <1>2, <2>1, <2>2 DEF Claimed, Judged
  <2> QED BY <2>1, <2>2, <2>3, LaterChecked
<1> QED BY <1>1, <1>3, <1>4, <1>5

-----------------------------------------------------------------------------
(* What a commit leaves                                                    *)

\* What a commit of execute_ makes of each table.
CommitWrites(d, t, e) ==
  /\ e.ledger = Staged(d.ledger, t.legs, t.payload)
  /\ e.postings = d.postings (+) SetToBag(RowsFor(t.key, t.payload, t.legs))
  /\ e.groups = [d.groups EXCEPT ![t.key] = d.groups[t.key] \cup t.groups]
  /\ e.claim = [d.claim EXCEPT ![t.key] = IF t.pin THEN <<t.key, t.payload>> ELSE d.claim[t.key]]
  /\ e.reconciled = (IF t.recon THEN d.reconciled \cup {t.key} ELSE d.reconciled)
  /\ e.accepted = d.accepted

LEMMA CommitFields ==
  ASSUME NEW d \in Tables, NEW t, NEW e, e = Committed(d, t)
  PROVE  CommitWrites(d, t, e)
<1> DEFINE B == d.postings (+) SetToBag(RowsFor(t.key, t.payload, t.legs))
           S == Staged(d.ledger, t.legs, t.payload)
           g == [d.groups EXCEPT ![t.key] = d.groups[t.key] \cup t.groups]
           c == [d.claim EXCEPT ![t.key] = IF t.pin THEN <<t.key, t.payload>> ELSE d.claim[t.key]]
           r == IF t.recon THEN d.reconciled \cup {t.key} ELSE d.reconciled
<1>1. e = [d EXCEPT !.ledger = S, !.postings = B, !.groups = g, !.claim = c, !.reconciled = r]
  BY DEF Committed
<1> HIDE DEF B, S, g, c, r
<1>2. /\ e.ledger = S /\ e.postings = B /\ e.groups = g /\ e.claim = c /\ e.reconciled = r
      /\ e.accepted = d.accepted
  BY <1>1 DEF Tables
<1> QED BY <1>2 DEF CommitWrites, B, S, g, c, r

\* The commit of execute_, and the call it commits.
LEMMA ExecuteCommit ==
  ASSUME PostgresInv, NEW s \in Sessions, At(s, "commit"), Commit(s)
  PROVE  /\ tx[s].key \in Keys /\ tx[s].payload \in Payloads
         /\ tx[s].groups \in SUBSET Groups /\ tx[s].legs = Legs(tx[s].groups)
         /\ \A g \in tx[s].groups : g \notin db.groups[tx[s].key]
         /\ tx' = [tx EXCEPT ![s] = NoTx]
         /\ db \in Tables /\ CommitWrites(db, tx[s], db')
<1>1. CallOK(tx[s]) /\ BackedBy(db, tx[s]) /\ tx[s].pc = "commit" /\ tx[s].groups \in SUBSET Groups
  BY InCall DEF At
<1>2. db \in Tables
  BY DEF PostgresInv, TablesOK
<1>3. tx' = [tx EXCEPT ![s] = NoTx] /\ db' = Committed(db, tx[s])
  BY DEF Commit, At, TxClaim, PostingBag, Committed, RowsFor
<1>4. CommitWrites(db, tx[s], db')
  BY <1>2, <1>3, CommitFields
<1> QED BY <1>1, <1>2, <1>3, <1>4 DEF CallOK, BackedBy

\* Where a commit left alone the balances a call posted to, and keeps those it
\* writes in range, what the call posted still fits.
LEMMA RangeIsKept ==
  ASSUME NEW b, NEW e \in Balances, NEW t, KeepsRange(b, t),
         \A i \in t.legs : e[Account(i, t.payload)] = b[Account(i, t.payload)]
  PROVE  KeepsRange(e, t)
<1> DEFINE p == t.payload
<1>1. ASSUME NEW S \in SUBSET t.legs, Staged(b, S, p) \in Balances
      PROVE  Staged(e, S, p) \in Balances
  <2>1. ASSUME NEW a \in Accounts PROVE Staged(e, S, p)[a] \in Balance
    <3>1. CASE LegsOn(S, p, a) = {}
      <4>1. Staged(e, S, p)[a] = e[a]
        BY <3>1 DEF Staged
      <4> QED BY <4>1 DEF Balances
    <3>2. CASE LegsOn(S, p, a) # {}
      <4>1. e[a] = b[a]
        <5>1. PICK i \in t.legs : Effects[i].leg[p].account = a
          BY <3>2 DEF LegsOn
        <5> QED BY <5>1 DEF Account
      <4>2. Staged(e, S, p)[a] = Staged(b, S, p)[a]
        BY <3>2, <4>1 DEF Staged
      <4> QED BY <1>1, <4>2 DEF Balances
    <3> QED BY <3>1, <3>2
  <2>2. Staged(e, S, p) = [a \in Accounts |-> Staged(e, S, p)[a]]
    BY DEF Staged
  <2> QED BY <2>1, <2>2 DEF Balances
<1>2. t.legs \in SUBSET t.legs /\ \A i \in t.legs : {j \in t.legs : GroupOrder(j, i)} \in SUBSET t.legs
  OBVIOUS
<1> QED BY <1>1, <1>2 DEF KeepsRange

\* A commit ends its call; what the tables then keep of the others suffices.
LEMMA CommitFramesChecked ==
  ASSUME PostgresInv, CheckedInv, NEW s \in Sessions, tx' = [tx EXCEPT ![s] = NoTx],
         TablesChecked(db'),
         \A r \in Sessions \ {s} : KeepsRange(db'.ledger, tx[r]) /\ Claimed(db', tx[r]) /\ Judged(db', tx[r])
  PROVE  CheckedInv'
<1>1. tx'[s] = NoTx /\ \A r \in Sessions \ {s} : tx'[r] = tx[r]
  BY DEF PostgresInv, CallsOK
<1>2. Checked(db', NoTx) /\ \A u : Exclusive(NoTx, u) /\ Exclusive(u, NoTx)
  BY NoCallChecked DEF TablesChecked
<1>3. \A r \in Sessions : Checked(db', tx'[r])
  BY <1>1, <1>2, InChecked DEF Checked
<1>4. \A r, q \in Sessions : r # q => Exclusive(tx'[r], tx'[q])
  BY <1>1, <1>2 DEF CheckedInv
<1> QED BY <1>3, <1>4 DEF CheckedInv

\* An acceptance leaves what was checked as it is.
LEMMA AcceptedKeepsChecked ==
  ASSUME TemporalPlan, PostgresInv, CheckedInv, NEW s \in Sessions, At(s, "accepted"), Commit(s)
  PROVE  CheckedInv'
<1> DEFINE a == [db.accepted EXCEPT ![tx[s].key][Group(s)] = TxClaim(s)]
<1>1. tx' = [tx EXCEPT ![s] = NoTx] /\ db' = [db EXCEPT !.accepted = a]
  BY DEF Commit, At
<1>2. db \in Tables
  BY DEF PostgresInv, TablesOK
<1> HIDE DEF a
<1>3. /\ db'.ledger = db.ledger /\ db'.groups = db.groups /\ db'.claim = db.claim
      /\ db'.reconciled = db.reconciled
  BY <1>1, <1>2 DEF Tables
<1>4. TablesChecked(db')
  BY <1>3 DEF CheckedInv, TablesChecked
<1>5. \A r \in Sessions \ {s} : KeepsRange(db'.ledger, tx[r]) /\ Claimed(db', tx[r]) /\ Judged(db', tx[r])
  BY <1>3, InChecked DEF Claimed, Judged
<1> QED BY <1>1, <1>4, <1>5, CommitFramesChecked

\* A commit of execute_ writes only its own balances and its own key's rows,
\* and pins a claim where none is.
LEMMA ExecuteKeepsChecked ==
  ASSUME PostgresInv, CheckedInv, NEW s \in Sessions, At(s, "commit"), Commit(s)
  PROVE  CheckedInv'
<1> DEFINE t == tx[s]
           e == db'
<1>1. /\ t.key \in Keys /\ t.payload \in Payloads /\ tx' = [tx EXCEPT ![s] = NoTx]
      /\ db \in Tables /\ CommitWrites(db, t, e)
  BY ExecuteCommit
<1>2. /\ KeepsRange(db.ledger, t) /\ Claimed(db, t) /\ Judged(db, t) /\ t.pc = "commit"
      /\ \A r \in Sessions \ {s} : Exclusive(t, tx[r])
      /\ TablesChecked(db)
  BY InChecked DEF CheckedInv, At
<1> HIDE DEF t, e
<1>3. /\ e.ledger \in Balances /\ e.ledger = Staged(db.ledger, t.legs, t.payload)
      /\ e.groups = [db.groups EXCEPT ![t.key] = db.groups[t.key] \cup t.groups]
      /\ e.claim = [db.claim EXCEPT ![t.key] = IF t.pin THEN <<t.key, t.payload>> ELSE db.claim[t.key]]
      /\ e.reconciled = IF t.recon THEN db.reconciled \cup {t.key} ELSE db.reconciled
  BY <1>1, <1>2 DEF CommitWrites, KeepsRange
<1>4. /\ db.groups \in [Keys -> SUBSET Groups] /\ db.claim \in [Keys -> Claims \cup {NoClaim}]
      /\ db.reconciled \in SUBSET Keys
  BY <1>1 DEF Tables
<1>5. /\ e.groups[t.key] = db.groups[t.key] \cup t.groups
      /\ e.claim[t.key] = IF t.pin THEN <<t.key, t.payload>> ELSE db.claim[t.key]
      /\ \A k \in Keys \ {t.key} : e.groups[k] = db.groups[k] /\ e.claim[k] = db.claim[k]
  BY <1>1, <1>3, <1>4
<1>6. t.pin => db.claim[t.key] = NoClaim
  BY <1>2 DEF Claimed
<1>7. TablesChecked(e)
  <2>1. ASSUME NEW k \in Keys, e.groups[k] # {} PROVE e.claim[k] # NoClaim
    BY <1>2, <1>5, <2>1, PairIsNotEmpty DEF TablesChecked, Claimed
  <2>2. ASSUME NEW k \in e.reconciled PROVE Groups \subseteq e.groups[k]
    <3>1. CASE k \in db.reconciled
      BY <1>2, <1>4, <1>5, <3>1 DEF TablesChecked
    <3>2. CASE k \notin db.reconciled
      BY <1>2, <1>3, <1>5, <3>2 DEF Judged
    <3> QED BY <3>1, <3>2
  <2> QED BY <1>3, <2>1, <2>2 DEF TablesChecked
<1>8. ASSUME NEW r \in Sessions \ {s}
      PROVE  KeepsRange(e.ledger, tx[r]) /\ Claimed(e, tx[r]) /\ Judged(e, tx[r])
  <2> DEFINE u == tx[r]
  <2>1. /\ KeepsRange(db.ledger, u) /\ Claimed(db, u) /\ Judged(db, u) /\ Exclusive(t, u)
        /\ u.pc # "idle" => u.key \in Keys /\ u.payload \in Payloads
        /\ u.pc = "idle" => u = NoTx
        /\ u.legs \in SUBSET EffectIds
    BY <1>2, InChecked, InCall DEF CallOK
  <2> HIDE DEF u
  <2>2. CASE u.pc = "idle"
    <3>1. Checked(e, u)
      BY <1>3, <2>1, <2>2, NoCallChecked
    <3> QED BY <3>1 DEF Checked, u
  <2>3. CASE u.pc # "idle"
    <3>1. ASSUME NEW i \in u.legs PROVE e.ledger[Account(i, u.payload)] = db.ledger[Account(i, u.payload)]
      <4> DEFINE a == Account(i, u.payload)
      <4>1. a \in Accounts
        <5>1. Effects[i].leg[u.payload] \in Operands
          BY <2>1, <2>3, EffectType
        <5> QED BY <5>1 DEF Account, Operands
      <4>2. LegsOn(t.legs, t.payload, a) = {}
        BY <2>1 DEF Exclusive, Touches, LegsOn, Account
      <4> QED BY <1>3, <4>1, <4>2 DEF Staged
    <3>2. KeepsRange(e.ledger, u)
      BY <1>3, <2>1, <3>1, RangeIsKept
    <3>3. Claimed(e, u)
      BY <1>5, <1>6, <2>1, <2>3, PairIsNotEmpty DEF Claimed, Exclusive
    <3>4. Judged(e, u)
      BY <1>5, <2>1, <2>3 DEF Judged
    <3> QED BY <3>2, <3>3, <3>4 DEF u
  <2> QED BY <2>2, <2>3
<1> QED BY <1>1, <1>7, <1>8, CommitFramesChecked DEF e

\* Every step of every session keeps what was checked.
LEMMA CheckedStep ==
  ASSUME TemporalPlan, PostgresInv, CheckedInv, [Next]_vars
  PROVE  CheckedInv'
<1>1. CASE UNCHANGED vars
  BY <1>1 DEF vars, CheckedInv
<1>2. ASSUME NEW s \in Sessions,
             \/ \E k \in Keys, p \in Groups, payload \in Payloads,
                   obs \in BoundedSeq(Observers, MaxObservers) : Accept(s, k, p, payload, obs)
             \/ AcceptInsert(s)
             \/ \E k \in Keys, payload \in Payloads : Execute(s, k, payload)
      PROVE  CheckedInv'
  BY <1>2, FirstStatementsChecked
<1>3. ASSUME NEW s \in Sessions, Commit(s) PROVE CheckedInv'
  BY <1>3, AcceptedKeepsChecked, ExecuteKeepsChecked DEF Commit
<1>4. ASSUME NEW s \in Sessions,
             ClaimCheck(s) \/ GroupGuard(s) \/ PostLeg(s) \/ InsertGroup(s)
      PROVE  CheckedInv'
  BY <1>4, ClaimCheckKeepsChecked, GroupGuardKeepsChecked, PostLegKeepsChecked,
     InsertGroupKeepsChecked
<1>5. ASSUME NEW s \in Sessions,
             \/ PinCheck(s) \/ InsertClaim(s) \/ DoneCheck(s) \/ BalanceCheck(s) \/ StatusWrite(s)
             \/ Rollback(s)
      PROVE  CheckedInv'
  BY <1>5, PinKeepsChecked, DoneKeepsChecked, RaiseKeepsChecked DEF Rollback
<1> QED BY <1>1, <1>2, <1>3, <1>4, <1>5 DEF Next

-----------------------------------------------------------------------------
(* A commit is a transition of the reference evaluator                     *)

\* The tables, as the evaluator's state, are one.
LEMMA EvaluatedTables ==
  ASSUME NEW d \in Tables
  PROVE  LET s == Evaluated(d)
         IN  /\ s \in EvalStates /\ IsState(s)
             /\ s.balances = d.ledger /\ s.postedKeys = d.reconciled /\ s.keyClaim = d.claim
             /\ s.committedGroups = d.groups
             /\ s.keyStatus = [k \in Keys |-> IF k \in d.reconciled THEN Success ELSE Open]
<1> DEFINE f == [k \in Keys |-> IF k \in d.reconciled THEN Success ELSE Open]
           s == [balances |-> d.ledger, postedKeys |-> d.reconciled, keyClaim |-> d.claim,
                 committedGroups |-> d.groups, keyStatus |-> f]
<1>1. Evaluated(d) = s
  BY DEF Evaluated
<1>2. f \in [Keys -> {Open, Success}]
  OBVIOUS
<1>3. /\ d.ledger \in [Accounts -> Int] /\ d.reconciled \in SUBSET Keys
      /\ d.claim \in [Keys -> Claims \cup {NoClaim}] /\ d.groups \in [Keys -> SUBSET Groups]
  BY DEF Tables
<1> HIDE DEF f
<1>4. s \in EvalStates /\ s = [balances |-> s.balances, postedKeys |-> s.postedKeys, keyClaim |-> s.keyClaim,
                               committedGroups |-> s.committedGroups, keyStatus |-> s.keyStatus]
  BY <1>2, <1>3 DEF EvalStates
<1>5. /\ s.balances = d.ledger /\ s.postedKeys = d.reconciled /\ s.keyClaim = d.claim
      /\ s.committedGroups = d.groups /\ s.keyStatus = f
  OBVIOUS
<1> HIDE DEF s
<1> QED BY <1>1, <1>4, <1>5 DEF IsState, f

\* The verdicts under which the call's own groups hold, and no other.
Granting(t) == [q \in Policies |-> IF q \in t.groups THEN "accepted" ELSE "absent"]
ReferenceNext(d, t, v) == Transition(Evaluated(d), EvalCall(t.key, t.payload, v)).next

\* The state x, but that t's key is not reconciled.
LeftOpen(d, t, x) == [x EXCEPT !.postedKeys = d.reconciled,
                               !.keyStatus = [x.keyStatus EXCEPT ![t.key] = Open]]

\* The commit of a call that posted commits just its groups, and they fit.
LEMMA ReferenceCommits ==
  ASSUME TemporalPlan, NEW d \in Tables, TablesChecked(d), NEW t, t.key \in Keys, t.payload \in Payloads,
         t.groups \in SUBSET Groups, t.groups # {}, t.legs = Legs(t.groups),
         \A g \in t.groups : g \notin d.groups[t.key],
         KeepsRange(d.ledger, t), ComputeFault[t.payload] = None,
         d.claim[t.key] \in {NoClaim, <<t.key, t.payload>>}
  PROVE  ReferenceNext(d, t, Granting(t)) = CommittedState(Evaluated(d), t.key, t.payload, t.groups)
<1> DEFINE s == Evaluated(d)
           k == t.key
           p == t.payload
           v == Granting(t)
           r == Transition(s, EvalCall(k, p, v))
<1>1. /\ s \in EvalStates /\ s.balances = d.ledger /\ s.postedKeys = d.reconciled
      /\ s.keyClaim = d.claim /\ s.committedGroups = d.groups
  BY EvaluatedTables
<1>2. Groups \subseteq Policies /\ IllTyped = {} /\ Temporal
  <2>1. Groups # {}
    BY DEF TemporalPlan, Groups, EffectIds
  <2> QED BY <2>1 DEF TemporalPlan, Temporal, Groups, IsAcceptedGuard
<1> HIDE DEF s, k, p
<1>3. Opens(s, k, v) = t.groups
  BY <1>1, <1>2 DEF Opens, Granting, k
<1>4. TemporalCallOK(s, k, p)
  BY <1>1, <1>2 DEF TemporalCallOK, TablesChecked, k, p
<1>5. Admits(s, k, p)
  <2>1. k \notin d.reconciled
    BY DEF TablesChecked, k
  <2> QED BY <1>1, <2>1 DEF Admits, k, p
<1>6. v \in [Policies -> {"absent", "accepted"}]
  BY DEF Granting
<1>7. \A i \in Legs(Opens(s, k, v)) : OperandCode(i, p) = None /\ Fits(s, p, Legs(Opens(s, k, v)), i)
  <2> SUFFICES ASSUME NEW i \in t.legs PROVE OperandCode(i, p) = None /\ Fits(s, p, t.legs, i)
    BY <1>3
  <2>1. i \in EffectIds /\ Effects[i].leg[p].amount >= 0 /\ Effects[i].leg[p].amount \in Int
    BY EffectType DEF Legs, KeepsRange, p
  <2>2. OperandCode(i, p) = None
    BY <2>1 DEF TemporalPlan, p
  <2> QED BY <1>1, <2>2 DEF KeepsRange, Fits, p
<1> HIDE DEF v
<1>8. Overflown(s, k, p, v, r) \/ Idle(s, k, v, r) \/ Commits(s, k, p, v, r)
  BY <1>2, <1>4, <1>5, <1>6, <1>7, TemporalAnswer DEF p
<1>9. ~Overflown(s, k, p, v, r)
  BY <1>7 DEF Overflown
<1>10. ~Idle(s, k, v, r)
  BY <1>3 DEF Idle
<1>11. r.next = CommittedState(s, k, p, t.groups)
  BY <1>3, <1>8, <1>9, <1>10 DEF Commits
<1> QED BY <1>11 DEF ReferenceNext, s, k, p, v

\* Tables are the record of their fields.
LEMMA TablesAreRecords ==
  ASSUME NEW d \in Tables
  PROVE  d = [ledger |-> d.ledger, postings |-> d.postings, groups |-> d.groups, claim |-> d.claim,
              reconciled |-> d.reconciled, accepted |-> d.accepted]
BY DEF Tables

\* A commit that posted nothing reconciles a complete key, or changes nothing.
LEMMA EmptyCommit ==
  ASSUME NEW d \in Tables, NEW e \in Tables, NEW t, CommitWrites(d, t, e), t.key \in Keys,
         t.groups = {}, t.legs = {}, t.pin = FALSE
  PROVE  e = IF t.recon THEN [d EXCEPT !.reconciled = @ \cup {t.key}] ELSE d
<1> DEFINE r == d.reconciled \cup {t.key}
<1>1. e.ledger = d.ledger
  BY NothingStaged DEF CommitWrites, Tables
<1>2. e.postings = d.postings
  <2>1. PICK D \in SUBSET PostingRows : d.postings = SetToBag(D)
    BY DEF Tables
  <2>2. RowsFor(t.key, t.payload, t.legs) = {}
    BY DEF RowsFor
  <2>3. SetToBag(D) (+) SetToBag({}) = SetToBag(D \cup {})
    BY BagGrows
  <2>4. e.postings = SetToBag(D) (+) SetToBag({})
    BY <2>1, <2>2 DEF CommitWrites
  <2> QED BY <2>1, <2>3, <2>4
<1>3. e.groups = d.groups /\ e.claim = d.claim /\ e.accepted = d.accepted
  BY DEF CommitWrites, Tables
<1>4. e.reconciled = IF t.recon THEN r ELSE d.reconciled
  BY DEF CommitWrites
<1> HIDE DEF r
<1>5. e = [ledger |-> d.ledger, postings |-> d.postings, groups |-> d.groups, claim |-> d.claim,
           reconciled |-> IF t.recon THEN r ELSE d.reconciled, accepted |-> d.accepted]
  BY <1>1, <1>2, <1>3, <1>4, TablesAreRecords
<1>6. d = [ledger |-> d.ledger, postings |-> d.postings, groups |-> d.groups, claim |-> d.claim,
           reconciled |-> d.reconciled, accepted |-> d.accepted]
  BY TablesAreRecords
<1>7. [d EXCEPT !.reconciled = r]
        = [ledger |-> d.ledger, postings |-> d.postings, groups |-> d.groups, claim |-> d.claim,
           reconciled |-> r, accepted |-> d.accepted]
  BY <1>6
<1>8. e = IF t.recon THEN [d EXCEPT !.reconciled = r] ELSE d
  BY <1>5, <1>6, <1>7
<1> QED BY <1>8 DEF r

\* A commit that posted is what the evaluator commits for the call's groups,
\* but that the key may be left open when others completed it meanwhile.
LEMMA PostingCommit ==
  ASSUME NEW d \in Tables, NEW e \in Tables, NEW t, CommitWrites(d, t, e), t.key \in Keys,
         t.legs = Legs(t.groups), t.key \notin d.reconciled, Judged(d, t), t.pc = "commit",
         ~t.pin => d.claim[t.key] = <<t.key, t.payload>>,
         NEW x, x = CommittedState(Evaluated(d), t.key, t.payload, t.groups)
  PROVE  \/ Evaluated(e) = x
         \/ t.sawGroups # d.groups[t.key] /\ Evaluated(e) = LeftOpen(d, t, x)
<1> DEFINE s == Evaluated(d)
           u == Evaluated(e)
           k == t.key
           p == t.payload
           A == AllIn(s, k, t.groups)
<1>1. /\ s.balances = d.ledger /\ s.postedKeys = d.reconciled /\ s.keyClaim = d.claim
      /\ s.committedGroups = d.groups
      /\ s.keyStatus = [y \in Keys |-> IF y \in d.reconciled THEN Success ELSE Open]
  BY EvaluatedTables
<1>2. /\ u.balances = e.ledger /\ u.postedKeys = e.reconciled /\ u.keyClaim = e.claim
      /\ u.committedGroups = e.groups /\ IsState(u)
      /\ u.keyStatus = [y \in Keys |-> IF y \in e.reconciled THEN Success ELSE Open]
  BY EvaluatedTables
<1> HIDE DEF s, u
<1>3. A <=> Groups \subseteq d.groups[k] \cup t.groups
  BY <1>1 DEF AllIn
<1>4. /\ IsState(x) /\ x.balances = e.ledger /\ x.keyClaim = e.claim /\ x.committedGroups = e.groups
      /\ x.postedKeys = IF A THEN d.reconciled \cup {k} ELSE d.reconciled
      /\ x.keyStatus = IF A THEN [s.keyStatus EXCEPT ![k] = Success] ELSE s.keyStatus
  <2>1. [d.claim EXCEPT ![k] = <<k, p>>] = e.claim
    <3>1. e.claim = [d.claim EXCEPT ![k] = IF t.pin THEN <<k, p>> ELSE d.claim[k]]
      BY DEF CommitWrites
    <3> QED BY <3>1
  <2>2. e.ledger = Staged(d.ledger, Legs(t.groups), p) /\ e.groups = [d.groups EXCEPT ![k] = d.groups[k] \cup t.groups]
    BY DEF CommitWrites
  <2>3. x = [balances |-> e.ledger, postedKeys |-> IF A THEN d.reconciled \cup {k} ELSE d.reconciled,
             keyClaim |-> e.claim, committedGroups |-> e.groups,
             keyStatus |-> IF A THEN [s.keyStatus EXCEPT ![k] = Success] ELSE s.keyStatus]
    BY <1>1, <2>1, <2>2 DEF CommittedState, s
  <2> HIDE DEF A, k, p
  <2> QED BY <2>3 DEF IsState
<1>5. CASE t.recon
  <2>1. A /\ e.reconciled = d.reconciled \cup {k}
    BY <1>3, <1>5 DEF Judged, CommitWrites
  <2>2. u.keyStatus = [s.keyStatus EXCEPT ![k] = Success]
    BY <1>1, <1>2, <2>1
  <2>3. u = x
    BY <1>2, <1>4, <2>1, <2>2 DEF IsState
  <2> QED BY <2>3 DEF u
<1>6. CASE ~t.recon
  <2>1. e.reconciled = d.reconciled /\ ~(Groups \subseteq t.sawGroups \cup t.groups)
    BY <1>6 DEF Judged, CommitWrites
  <2>2. u.keyStatus = s.keyStatus
    BY <1>1, <1>2, <2>1
  <2>3. CASE ~A
    <3>1. u = x
      BY <1>2, <1>4, <2>1, <2>2, <2>3 DEF IsState
    <3> QED BY <3>1 DEF u
  <2>4. CASE A
    <3>1. t.sawGroups # d.groups[k]
      BY <1>3, <2>1, <2>4
    <3>2. [x.keyStatus EXCEPT ![k] = Open] = s.keyStatus
      <4>1. s.keyStatus \in [Keys -> {Open, Success}] /\ s.keyStatus[k] = Open /\ k \in Keys
        BY <1>1
      <4>2. x.keyStatus = [s.keyStatus EXCEPT ![k] = Success]
        BY <1>4, <2>4
      <4> HIDE DEF k
      <4> QED BY <4>1, <4>2
    <3> DEFINE K == [x.keyStatus EXCEPT ![k] = Open]
               w == [x EXCEPT !.postedKeys = d.reconciled, !.keyStatus = K]
    <3>3. LeftOpen(d, t, x) = w
      BY DEF LeftOpen
    <3> HIDE DEF K
    <3>4. x = [balances |-> x.balances, postedKeys |-> x.postedKeys, keyClaim |-> x.keyClaim,
               committedGroups |-> x.committedGroups, keyStatus |-> x.keyStatus]
      BY <1>4 DEF IsState
    <3>5. w = [x EXCEPT !.postedKeys = d.reconciled, !.keyStatus = K]
      OBVIOUS
    <3> HIDE DEF w
    <3>6. /\ w = [balances |-> w.balances, postedKeys |-> w.postedKeys, keyClaim |-> w.keyClaim,
                  committedGroups |-> w.committedGroups, keyStatus |-> w.keyStatus]
          /\ w.balances = x.balances /\ w.keyClaim = x.keyClaim
          /\ w.committedGroups = x.committedGroups
          /\ w.postedKeys = d.reconciled /\ w.keyStatus = K
      BY <3>4, <3>5
    <3>7. u = w
      BY <1>2, <1>4, <2>1, <2>2, <3>2, <3>6 DEF IsState, K
    <3> QED BY <3>1, <3>3, <3>7 DEF u
  <2> QED BY <2>3, <2>4
<1> QED BY <1>5, <1>6

\* What CommitIsATransition says of the commit of call t, from tables d to e.
IsAnswer(d, t, e) ==
  \/ t.sawClaim = NoClaim /\ d.claim[t.key] \notin {NoClaim, <<t.key, t.payload>>}
  \/ \E v \in [Policies -> {"absent", "accepted"}] :
       \/ Evaluated(e) = ReferenceNext(d, t, v)
       \/ t.sawGroups # d.groups[t.key] /\ Evaluated(e) = LeftOpen(d, t, ReferenceNext(d, t, v))
  \/ /\ Groups \subseteq d.groups[t.key]
     /\ e = [d EXCEPT !.reconciled = @ \cup {t.key}]

\* The commit of execute_ is one, for the claim it checked.
LEMMA CommitAnswers ==
  ASSUME TemporalPlan, PostgresInv, CheckedInv, NEW s \in Sessions, At(s, "commit"), Commit(s), db' # db
  PROVE  IsAnswer(db, tx[s], db')
<1> DEFINE t == tx[s]
           d == db
           e == db'
           c == <<t.key, t.payload>>
<1>1. /\ t.key \in Keys /\ t.payload \in Payloads
      /\ t.groups \in SUBSET Groups /\ t.legs = Legs(t.groups)
      /\ \A g \in t.groups : g \notin d.groups[t.key]
      /\ d \in Tables /\ CommitWrites(d, t, e)
  BY ExecuteCommit
<1>2. e \in Tables
  <2>1. PostgresInv'
    BY ExecuteCommits
  <2> QED BY <2>1 DEF PostgresInv, TablesOK
<1>3. /\ KeepsRange(d.ledger, t) /\ Claimed(d, t) /\ Judged(d, t) /\ t.pc = "commit"
      /\ TablesChecked(d) /\ t \in CallRecords
  BY InChecked DEF CheckedInv, At
<1>4. e # d
  OBVIOUS
<1> HIDE DEF t, d, e
<1>5. CASE t.groups = {}
  <2>1. t.legs = {} /\ t.pin = FALSE
    BY <1>1, <1>3, <1>5, NoLegs DEF Claimed, CallRecords
  <2>2. e = IF t.recon THEN [d EXCEPT !.reconciled = @ \cup {t.key}] ELSE d
    BY <1>1, <1>2, <1>5, <2>1, EmptyCommit
  <2>3. t.recon
    BY <1>4, <2>2
  <2>4. Groups \subseteq d.groups[t.key]
    BY <1>3, <1>5, <2>3 DEF Judged
  <2>5. IsAnswer(d, t, e)
    BY <2>2, <2>3, <2>4 DEF IsAnswer
  <2> QED BY <2>5 DEF d, t, e
<1>6. CASE t.groups # {} /\ d.claim[t.key] \notin {NoClaim, c}
  <2>1. t.sawClaim = NoClaim
    BY <1>3, <1>6 DEF Claimed
  <2>2. IsAnswer(d, t, e)
    BY <1>6, <2>1 DEF IsAnswer
  <2> QED BY <2>2 DEF d, t, e
<1>7. CASE t.groups # {} /\ d.claim[t.key] \in {NoClaim, c}
  <2> DEFINE v == Granting(t)
             x == CommittedState(Evaluated(d), t.key, t.payload, t.groups)
  <2>1. ComputeFault[t.payload] = None
    BY <1>3 DEF Claimed
  <2>2. ReferenceNext(d, t, v) = x
    BY <1>1, <1>3, <1>7, <2>1, ReferenceCommits
  <2>3. t.key \notin d.reconciled
    BY <1>1, <1>3, <1>7 DEF TablesChecked
  <2>4. ~t.pin => d.claim[t.key] = c
    BY <1>3, <1>7 DEF Claimed
  <2> HIDE DEF x
  <2>5. \/ Evaluated(e) = x
        \/ t.sawGroups # d.groups[t.key] /\ Evaluated(e) = LeftOpen(d, t, x)
    BY <1>1, <1>2, <1>3, <2>3, <2>4, PostingCommit DEF x
  <2>6. v \in [Policies -> {"absent", "accepted"}]
    BY DEF Granting
  <2>7. IsAnswer(d, t, e)
    BY <2>2, <2>5, <2>6 DEF IsAnswer
  <2> QED BY <2>7 DEF d, t, e
<1> QED BY <1>5, <1>6, <1>7

\* A step that ends a call at its commit and changes the tables is its commit.
LEMMA CommitsConform ==
  ASSUME TemporalPlan, PostgresInv, CheckedInv, [Next]_vars
  PROVE  CommitIsATransition
<1> SUFFICES ASSUME NEW s \in Sessions, At(s, "commit"), tx'[s] = NoTx, db' # db
             PROVE  IsAnswer(db, tx[s], db')
  BY DEF CommitIsATransition, IsAnswer, ReferenceNext, LeftOpen, EvalCall, TxClaim
<1>1. Next
  BY DEF vars
<1>2. PICK r \in Sessions : Commit(r)
  BY <1>1 DEF Next, Accept, AcceptInsert, Execute, ClaimCheck, GroupGuard, PostLeg, InsertGroup,
     PinCheck, InsertClaim, DoneCheck, BalanceCheck, StatusWrite, Rollback, GoTo, Raise, Step
<1>3. r = s
  <2> SUFFICES ASSUME r # s PROVE FALSE
    OBVIOUS
  <2>1. tx'[s] = tx[s]
    BY <1>2 DEF Commit, PostgresInv, CallsOK
  <2> QED BY <2>1 DEF At, NoTx
<1> QED BY <1>2, <1>3, CommitAnswers

\* Whatever calls race, fail, deadlock and are retried, each commit is one
\* transition of the reference evaluator, but for the exceptions
\* CommitIsATransition names.
THEOREM PostgresConforms == ASSUME TemporalPlan PROVE Spec => [][CommitIsATransition]_vars
<1>1. Init => PostgresInv /\ CheckedInv
  BY PostgresStarts, CheckedStarts
<1>2. PostgresInv /\ CheckedInv /\ [Next]_vars => PostgresInv' /\ CheckedInv'
  BY PostgresStep, CheckedStep
<1>3. PostgresInv /\ CheckedInv /\ [Next]_vars => [CommitIsATransition]_vars
  BY CommitsConform
<1> QED BY <1>1, <1>2, <1>3, PTL DEF Spec
=============================================================================
