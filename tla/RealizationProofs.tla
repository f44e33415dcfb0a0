--------------------------- MODULE RealizationProofs ---------------------------
(***************************************************************************)
(* That no rail of Realizations posts what was not earned, and that what    *)
(* each commits is what the reference evaluator commits: the invariants of  *)
(* the rail the behaviour runs, from RailProofs, at the rail's own plan.    *)
(***************************************************************************)
EXTENDS Realizations, TLAPS

\* The inductive invariant of the rail that runs.
RailInv ==
  /\ rail = "postgres" => Postgres!PostgresInv /\ Postgres!CheckedInv
  /\ rail = "temporal" => TemporalContract!ContractInv
  /\ rail = "gated" => GatedContract!ContractInv
  /\ rail = "ungated" => UngatedContract!ContractInv
  /\ rail = "evidence" => EvidenceContract!ContractInv

\* A behaviour starts with one rail deployed: PostgreSQL's tables empty, or the
\* contract constructed, which did not revert.
LEMMA RailStarts == Init => RailInv
<1> SUFFICES ASSUME Init PROVE RailInv
  OBVIOUS
<1>1. CASE rail = "postgres" /\ Postgres!Init
  BY <1>1, RailPlans, Postgres!PostgresStarts, Postgres!CheckedStarts DEF RailInv
<1>2. CASE rail = "temporal" /\ TemporalContract!Deployed
  BY <1>2, RailPlans, TemporalContract!ContractStarts DEF RailInv
<1>3. CASE rail = "gated" /\ GatedContract!Deployed
  BY <1>3, RailPlans, GatedContract!ContractStarts DEF RailInv
<1>4. CASE rail = "ungated" /\ UngatedContract!Deployed
  BY <1>4, RailPlans, UngatedContract!ContractStarts DEF RailInv
<1>5. CASE rail = "evidence" /\ EvidenceContract!Deployed
  BY <1>5, RailPlans, EvidenceContract!ContractStarts DEF RailInv
<1> QED
  BY <1>1, <1>2, <1>3, <1>4, <1>5 DEF Init

\* The rail never changes, and its own invariant is kept by its own step and by
\* a step that leaves its variables alone.
LEMMA RailStep == RailInv /\ [Next]_vars => RailInv'
<1> SUFFICES ASSUME RailInv, [Next]_vars PROVE RailInv'
  OBVIOUS
<1>0. rail' = rail
  BY DEF Next, vars
<1>1. CASE rail = "postgres"
  <2>1. [Postgres!Next]_(Postgres!vars)
    BY <1>1 DEF Next, vars, postgresVars, Postgres!vars
  <2> QED
    BY <1>0, <1>1, <2>1, RailPlans, Postgres!PostgresStep, Postgres!CheckedStep DEF RailInv
<1>2. CASE rail = "temporal"
  <2>1. [TemporalContract!Transaction]_(TemporalContract!solVars)
    BY <1>2 DEF Next, vars, solidityVars, TemporalContract!solVars
  <2> QED
    BY <1>0, <1>2, <2>1, RailPlans, TemporalContract!ContractStep DEF RailInv
<1>3. CASE rail = "gated"
  <2>1. [GatedContract!Transaction]_(GatedContract!solVars)
    BY <1>3 DEF Next, vars, solidityVars, GatedContract!solVars
  <2> QED
    BY <1>0, <1>3, <2>1, RailPlans, GatedContract!ContractStep DEF RailInv
<1>4. CASE rail = "ungated"
  <2>1. [UngatedContract!Transaction]_(UngatedContract!solVars)
    BY <1>4 DEF Next, vars, solidityVars, UngatedContract!solVars
  <2> QED
    BY <1>0, <1>4, <2>1, RailPlans, UngatedContract!ContractStep DEF RailInv
<1>5. CASE rail = "evidence"
  <2>1. [EvidenceContract!Transaction]_(EvidenceContract!solVars)
    BY <1>5 DEF Next, vars, solidityVars, EvidenceContract!solVars
  <2> QED
    BY <1>0, <1>5, <2>1, RailPlans, EvidenceContract!ContractStep DEF RailInv
<1>6. CASE rail \notin {"postgres", "temporal", "gated", "ungated", "evidence"}
  BY <1>0, <1>6 DEF RailInv
<1> QED
  BY <1>1, <1>2, <1>3, <1>4, <1>5, <1>6

\* What PostingsAreEarned asks of the rail that runs is part of its invariant.
LEMMA EarningFollows == RailInv => PostingsAreEarned
<1> SUFFICES ASSUME RailInv PROVE PostingsAreEarned
  OBVIOUS
<1>1. rail = "postgres" => Postgres!PostingsAreEarned
  BY RailPlans, Postgres!PostingsFollow DEF RailInv
<1>2. rail = "temporal" => TemporalContract!EventsAreEarned
  BY RailPlans, TemporalContract!EventsFollow DEF RailInv
<1>3. rail = "gated" => GatedContract!EventsAreEarned
  BY RailPlans, GatedContract!EventsFollow DEF RailInv
<1>4. rail = "ungated" => UngatedContract!EventsAreEarned
  BY RailPlans, UngatedContract!EventsFollow DEF RailInv
<1>5. rail = "evidence" => EvidenceContract!EventsAreEarned
  BY RailPlans, EvidenceContract!EventsFollow DEF RailInv
<1> QED
  BY <1>1, <1>2, <1>3, <1>4, <1>5 DEF PostingsAreEarned

\* Whatever the rail, what stands posted stands once and rests on an acceptance
\* a real quorum gave: for every number of sessions, chains, signers and
\* observers, and every width of the contracts' words.
THEOREM RealizationsEarned == Spec => []PostingsAreEarned
<1>1. Init => RailInv
  BY RailStarts
<1>2. RailInv /\ [Next]_vars => RailInv'
  BY RailStep
<1>3. RailInv => PostingsAreEarned
  BY EarningFollows
<1> QED
  BY <1>1, <1>2, <1>3, PTL DEF Spec

\* What RailsCommitTransitions asks of a step follows from the invariant of the
\* rail that runs: of PostgreSQL's commits, and of each call of a contract.
LEMMA CommitsFollow == RailInv /\ [Next]_vars => [CommitsATransition]_vars
<1> SUFFICES ASSUME RailInv, Next PROVE CommitsATransition
  OBVIOUS
<1>1. rail = "postgres" => Postgres!CommitIsATransition
  <2> SUFFICES ASSUME rail = "postgres" PROVE Postgres!CommitIsATransition
    OBVIOUS
  <2>1. [Postgres!Next]_(Postgres!vars)
    BY DEF Next
  <2> QED
    BY <2>1, RailPlans, Postgres!CommitsConform DEF RailInv
<1>2. rail = "temporal" => TemporalContract!CallsAreTransitions
  BY RailPlans, TemporalContract!CallsFollow DEF RailInv
<1>3. rail = "gated" => GatedContract!CallsAreTransitions
  BY RailPlans, GatedContract!CallsFollow DEF RailInv
<1>4. rail = "ungated" => UngatedContract!CallsAreTransitions
  BY RailPlans, UngatedContract!CallsFollow DEF RailInv
<1>5. rail = "evidence" => EvidenceContract!CallsAreTransitions
  BY RailPlans, EvidenceContract!CallsFollow DEF RailInv
<1> QED
  BY <1>1, <1>2, <1>3, <1>4, <1>5 DEF CommitsATransition

\* Whatever the rail, it commits what the reference evaluator commits, but for
\* the exceptions named: however many sessions race and roll back, however the
\* chain forks, and whatever the width of the contracts' words.
THEOREM RailsConform == Spec => RailsCommitTransitions
<1>1. Init => RailInv
  BY RailStarts
<1>2. RailInv /\ [Next]_vars => RailInv'
  BY RailStep
<1>3. RailInv /\ [Next]_vars => [CommitsATransition]_vars
  BY CommitsFollow
<1> QED
  BY <1>1, <1>2, <1>3, PTL DEF Spec, RailsCommitTransitions
================================================================================
