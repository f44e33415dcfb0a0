-------------------------- MODULE PostgresTemporal --------------------------
(***************************************************************************)
(* The PostgreSQL realization of a temporal coordination: the functions    *)
(* accept_<name> and execute_<name> that PostgresModel.cpp and             *)
(* PostgresTemporalIdiomRecipes.td generate, called by concurrent database *)
(* sessions at PostgreSQL's default isolation level.                       *)
(*                                                                         *)
(* Each call is a transaction; each statement of it is one step, and reads *)
(* what is committed at that step together with the call's own writes      *)
(* (READ COMMITTED).  A write waits while another open transaction has     *)
(* written the same row; inserting a primary key that is committed raises. *)
(* An exception, a deadlock victim and a lost connection roll back.        *)
(***************************************************************************)
EXTENDS CoordinationEval

CONSTANTS
  Sessions,        \* database connections
  Observers,       \* identities that may appear in p_observers
  ObserverSet,     \* policy -> the authorized_observer rows of its set
  Quorum,          \* policy -> its threshold M
  MaxObservers     \* the longest p_observers submitted

VARIABLES
  db,              \* the committed tables
  tx               \* per session, the open call: its place and its own writes

vars == <<db, tx>>

\* The temporal rail is selected for plans whose every group is gated. Inputs
\* are typed parameters, so an operand can only be refused for its sign.
TemporalPlan ==
  /\ Effects # << >>
  /\ MaxObservers \in Nat
  /\ \A i \in EffectIds : IsAcceptedGuard(Effects[i].guard)
  /\ IllTyped = {}
  /\ \A i \in EffectIds, p \in Payloads :
       OperandCode(i, p) = IF Effects[i].leg[p].amount < 0 THEN "amount.negative" ELSE None
  /\ \A p \in Policies : ObserverSet[p] \subseteq Observers /\ Quorum[p] \in Nat

\* The groups in order of first appearance.
GroupSeq == CHOOSE q \in [1 .. Cardinality(Groups) -> Groups] :
              \A m, n \in DOMAIN q : m < n => FirstIndex(q[m]) < FirstIndex(q[n])
BalanceAsserted == TRUE       \* the plan is `balanced`

\* sawClaim and sawGroups only record what the claim and done checks read.
NoTx == [pc |-> "idle", key |-> NoKey, payload |-> None, n |-> 0, legs |-> {},
         groups |-> {}, sawClaim |-> NoClaim, sawGroups |-> {},
         pin |-> FALSE, recon |-> FALSE]

Init ==
  /\ db = [ledger |-> [a \in Accounts |-> 0],                  \* ledger_balance
           postings |-> EmptyBag,                              \* postings
           groups |-> [k \in Keys |-> {}],                     \* committed_group
           claim |-> [k \in Keys |-> NoClaim],                 \* key_claim
           reconciled |-> {},                                  \* coordination_status
           accepted |-> [k \in Keys |-> [p \in Policies |-> NoClaim]]]
  /\ tx = [s \in Sessions |-> NoTx]

-----------------------------------------------------------------------------
At(s, pc) == tx[s].pc = pc
Others(s) == {t \in Sessions \ {s} : tx[t].pc # "idle"}
SameKey(s) == {t \in Others(s) : tx[t].key = tx[s].key}
TxClaim(s) == <<tx[s].key, tx[s].payload>>
Group(s) == GroupSeq[tx[s].n]

Step(s, t) == tx' = [tx EXCEPT ![s] = t] /\ UNCHANGED db
GoTo(s, pc) == Step(s, [tx[s] EXCEPT !.pc = pc])
Raise(s) == Step(s, NoTx)

\* The signers of a submitted quorum, as accept_ tests them.
QuorumMet(p, obs) ==
  /\ \A j \in DOMAIN obs : obs[j] \in ObserverSet[p]
  /\ \A i, j \in DOMAIN obs : obs[i] = obs[j] => i = j
  /\ Len(obs) >= Quorum[p]

\* accept_: the policy's row must not exist, the quorum must be met.
Accept(s, k, p, payload, obs) ==
  /\ At(s, "idle")
  /\ IF db.accepted[k][p] # NoClaim \/ ~QuorumMet(p, obs) THEN Raise(s)
     ELSE Step(s, [NoTx EXCEPT !.pc = "accepting", !.key = k, !.payload = payload,
                               !.n = CHOOSE n \in DOMAIN GroupSeq : GroupSeq[n] = p])

AcceptInsert(s) ==
  /\ At(s, "accepting")
  /\ \A t \in SameKey(s) : ~(At(t, "accepted") /\ tx[t].n = tx[s].n)
  /\ IF db.accepted[tx[s].key][Group(s)] # NoClaim THEN Raise(s) ELSE GoTo(s, "accepted")

\* execute_: the replay guard is its first statement.
Execute(s, k, payload) ==
  /\ At(s, "idle")
  /\ IF k \in db.reconciled THEN Raise(s)
     ELSE Step(s, [NoTx EXCEPT !.pc = "claim", !.key = k, !.payload = payload])

\* Mutant of ClaimCheck: the pinned claim is not compared.
ClaimNotCompared(s) ==
  /\ At(s, "claim")
  /\ Step(s, [tx[s] EXCEPT !.pc = "group", !.n = 1, !.sawClaim = db.claim[tx[s].key]])

\* The claim-mismatch guard, then the compute assignments.
ClaimCheck(s) ==
  /\ At(s, "claim")
  /\ IF db.claim[tx[s].key] \notin {NoClaim, TxClaim(s)} \/ ComputeFault[tx[s].payload] # None
     THEN Raise(s)
     ELSE Step(s, [tx[s] EXCEPT !.pc = "group", !.n = 1, !.sawClaim = db.claim[tx[s].key]])

\* Mutant of GroupHolds: any accepted claim of the key opens the group.
AnyClaimHolds(s) ==
  /\ db.accepted[tx[s].key][Group(s)] # NoClaim
  /\ Group(s) \notin db.groups[tx[s].key]

\* holdsPredicate: this policy accepted this claim, and the group is open.
GroupHolds(s) ==
  /\ db.accepted[tx[s].key][Group(s)] = TxClaim(s)
  /\ Group(s) \notin db.groups[tx[s].key]

NextGroup(t) == IF t.n = Len(GroupSeq) THEN [t EXCEPT !.pc = "pin"]
                ELSE [t EXCEPT !.pc = "group", !.n = @ + 1]

GroupGuard(s) ==
  /\ At(s, "group")
  /\ IF GroupHolds(s) THEN GoTo(s, "legs") ELSE Step(s, NextGroup(tx[s]))

Unposted(s) == Legs({Group(s)}) \ tx[s].legs
Account(i, payload) == Effects[i].leg[payload].account
Rows(t) == {Account(i, tx[t].payload) : i \in tx[t].legs}

\* One posting: the negative-money guard, the balance upsert (it waits for the
\* row and adds to the committed balance) and the postings row.
PostLeg(s) ==
  /\ At(s, "legs")
  /\ Unposted(s) # {}
  /\ LET i == Min(Unposted(s))
         p == tx[s].payload
     IN  IF Effects[i].leg[p].amount < 0 THEN Raise(s)
         ELSE /\ \A t \in Others(s) : Account(i, p) \notin Rows(t)
              /\ IF Staged(db.ledger, tx[s].legs \cup {i}, p) \in Balances
                 THEN Step(s, [tx[s] EXCEPT !.legs = @ \cup {i}])
                 ELSE Raise(s)

\* Mutant of InsertGroup: ON CONFLICT DO NOTHING.
InsertGroupLeniently(s) ==
  /\ At(s, "legs")
  /\ Unposted(s) = {}
  /\ \A t \in SameKey(s) : Group(s) \notin tx[t].groups
  /\ Step(s, NextGroup([tx[s] EXCEPT !.groups = @ \cup {Group(s)}]))

InsertGroup(s) ==
  /\ At(s, "legs")
  /\ Unposted(s) = {}
  /\ \A t \in SameKey(s) : Group(s) \notin tx[t].groups
  /\ IF Group(s) \in db.groups[tx[s].key] THEN Raise(s)
     ELSE Step(s, NextGroup([tx[s] EXCEPT !.groups = @ \cup {Group(s)}]))

\* keyClaimPredicate: v_progress AND NOT EXISTS key_claim.
PinCheck(s) ==
  /\ At(s, "pin")
  /\ GoTo(s, IF tx[s].groups # {} /\ db.claim[tx[s].key] = NoClaim THEN "pinning" ELSE "done")

InsertClaim(s) ==
  /\ At(s, "pinning")
  /\ \A t \in SameKey(s) : ~tx[t].pin
  /\ IF db.claim[tx[s].key] # NoClaim THEN Raise(s)
     ELSE Step(s, [tx[s] EXCEPT !.pc = "done", !.pin = TRUE])

\* donePredicate: every group's row is committed, or inserted by this call.
AllDone(s) == Groups \subseteq db.groups[tx[s].key] \cup tx[s].groups

DoneCheck(s) ==
  /\ At(s, "done")
  /\ Step(s, [tx[s] EXCEPT !.sawGroups = db.groups[tx[s].key],
                           !.pc = IF ~AllDone(s) THEN "commit"
                                  ELSE IF BalanceAsserted THEN "balance" ELSE "status"])

\* SUM(signed_amount) of the key's postings, the call's own included.
PostingBag(s) == SetToBag({<<tx[s].key, tx[s].payload, i>> : i \in tx[s].legs})
Signed(B) == [e \in DOMAIN B |-> B[e] * Delta(e[3], e[2])]
KeySum(B, k) == SumFunctionOnSet(Signed(B), {e \in DOMAIN B : e[1] = k})

BalanceCheck(s) ==
  /\ At(s, "balance")
  /\ IF KeySum(db.postings (+) PostingBag(s), tx[s].key) # 0 THEN Raise(s) ELSE GoTo(s, "status")

\* INSERT ... ON CONFLICT DO UPDATE: waits for the row, then always succeeds.
StatusWrite(s) ==
  /\ At(s, "status")
  /\ \A t \in SameKey(s) : ~tx[t].recon
  /\ Step(s, [tx[s] EXCEPT !.pc = "commit", !.recon = TRUE])

Commit(s) ==
  LET t == tx[s]
  IN  /\ tx' = [tx EXCEPT ![s] = NoTx]
      /\ \/ /\ At(s, "commit")
            /\ db' = [db EXCEPT
                 !.ledger = Staged(@, t.legs, t.payload),
                 !.postings = @ (+) PostingBag(s),
                 !.groups[t.key] = @ \cup t.groups,
                 !.claim[t.key] = IF t.pin THEN TxClaim(s) ELSE @,
                 !.reconciled = IF t.recon THEN @ \cup {t.key} ELSE @]
         \/ /\ At(s, "accepted")
            /\ db' = [db EXCEPT !.accepted[t.key][Group(s)] = TxClaim(s)]

\* A deadlock victim, a cancelled statement, a lost connection, a crash.
Rollback(s) == ~At(s, "idle") /\ Raise(s)

Next ==
  \E s \in Sessions :
    \/ \E k \in Keys, p \in Groups, payload \in Payloads, obs \in BoundedSeq(Observers, MaxObservers) :
         Accept(s, k, p, payload, obs)
    \/ AcceptInsert(s)
    \/ \E k \in Keys, payload \in Payloads : Execute(s, k, payload)
    \/ ClaimCheck(s) \/ GroupGuard(s) \/ PostLeg(s) \/ InsertGroup(s)
    \/ PinCheck(s) \/ InsertClaim(s)
    \/ DoneCheck(s) \/ BalanceCheck(s) \/ StatusWrite(s)
    \/ Commit(s)
    \/ Rollback(s)

Spec == Init /\ [][Next]_vars

-----------------------------------------------------------------------------
\* The postings, the commit ledger and the balances tell one story: a
\* committed group has each of its legs once and an uncommitted group none,
\* and a balance is the sum of its postings, whatever calls raced, failed or
\* were retried (postings and ledger_balance against committed_group).
PostedOnce ==
  /\ \A k \in Keys, i \in EffectIds :
       SumFunctionOnSet(db.postings, {e \in DOMAIN db.postings : e[1] = k /\ e[3] = i})
         = IF Effects[i].guard \in db.groups[k] THEN 1 ELSE 0
  /\ \A a \in Accounts :
       db.ledger[a] = SumFunctionOnSet(Signed(db.postings),
                                       {e \in DOMAIN db.postings : Account(e[3], e[2]) = a})

\* Nothing is posted that its own policy's quorum did not accept for that very
\* payload, and what it accepted is never replaced
\* (PostgresModel.cpp 533-542: execution_claim = v_claim).
PostedWasAccepted ==
  \A e \in DOMAIN db.postings : db.accepted[e[1]][Effects[e[3]].guard] = <<e[1], e[2]>>

\* What stands in the postings was accepted and is there once: the ledger a
\* committed transaction leaves is the one its acceptances and commits imply.
PostingsAreEarned == PostedOnce /\ PostedWasAccepted

\* What is committed under a key is committed for the claim pinned on it:
\* execute_ "refuses a payload whose claim differs from the pinned one"
\* (test/ir/oracle/accepted_multi_policy.neu 103).
OneClaimPerKey == \A e \in DOMAIN db.postings : db.claim[e[1]] = <<e[1], e[2]>>

\* The tables as the reference evaluator's state.
Evaluated(d) == [balances |-> d.ledger, postedKeys |-> d.reconciled, keyClaim |-> d.claim,
                 committedGroups |-> d.groups,
                 keyStatus |-> [k \in Keys |-> IF k \in d.reconciled THEN Success ELSE Open]]

\* Every committed call is one transition of the reference evaluator, for some
\* verdicts, although its statements interleave with other calls', except
\* that: the key's claim was pinned to another payload while the call ran; or
\* another group was committed after the call's done check, and the key is left
\* complete but open; or the call found such a key and reconciles it.
CommitIsATransition ==
  \A s \in Sessions : At(s, "commit") /\ tx'[s] = NoTx /\ db' # db =>
       LET k == tx[s].key
           in(v) == [authorized |-> TRUE, key |-> k, payload |-> tx[s].payload,
                     attestations |-> v]
           Reference(v) == Transition(Evaluated(db), in(v)).next
           Opened(e) == [e EXCEPT !.postedKeys = db.reconciled,
                                  !.keyStatus = [@ EXCEPT ![k] = Open]]
       IN  \/ tx[s].sawClaim = NoClaim /\ db.claim[k] \notin {NoClaim, TxClaim(s)}
           \/ \E v \in [Policies -> {"absent", "accepted"}] :
                \/ Evaluated(db') = Reference(v)
                \/ tx[s].sawGroups # db.groups[k] /\ Evaluated(db') = Opened(Reference(v))
           \/ /\ Groups \subseteq db.groups[k]
              /\ db' = [db EXCEPT !.reconciled = @ \cup {k}]
=============================================================================
