-------------------------- MODULE RepositoryProofs --------------------------
(***************************************************************************)
(* The repository's tools keep their word: the lit accounting, the core    *)
(* release, the pressure loop, the domain tools and the generalism matrix, *)
(* each for any instance of the constants RepositoryFlows gives it.        *)
(***************************************************************************)
EXTENDS RepositoryFlows, FiniteSums, SequenceTheorems

-----------------------------------------------------------------------------
(* Checks in order                                                         *)

\* If the first failing check is none, no check fails.
LEMMA FirstOfOk ==
  ASSUME NEW checks, NEW n \in Nat, DOMAIN checks = 1 .. n,
         \A i \in 1 .. n : checks[i].when => checks[i].code # Ok,
         FirstOf(checks) = Ok
  PROVE  \A i \in 1 .. n : ~checks[i].when
<1> DEFINE failed == {i \in DOMAIN checks : checks[i].when}
<1>1. CASE failed = {}
  BY <1>1
<1>2. CASE failed # {}
  <2>1. \E i \in failed : \A j \in failed : i <= j
    <3>1. failed \subseteq Nat
      OBVIOUS
    <3> HIDE DEF failed
    <3> QED BY <1>2, <3>1, LeastExists
  <2>2. (CHOOSE i \in failed : \A j \in failed : i <= j) \in failed
    <3> HIDE DEF failed
    <3> QED BY <2>1
  <2>3. FirstOf(checks) = checks[CHOOSE i \in failed : \A j \in failed : i <= j].code
    BY <1>2 DEF FirstOf
  <2> QED BY <2>2, <2>3
<1> QED BY <1>1, <1>2

\* What an accepted report of lit satisfies.
LEMMA BuildReportAccepts ==
  ASSUME NEW r, BuildReportCode(r) = Ok
  PROVE  LET x     == ParseXunit(r)
             codes == ParseLitJson(r)
             fails == In(codes, FailureCategories)
         IN  /\ DOMAIN codes \subseteq x.found
             /\ Missing(x, codes) \subseteq x.skipped
             /\ x.skipped = In(codes, {"skipped"}) \cup Missing(x, codes)
             /\ x.failing = fails
             /\ In(codes, ExecutedCategories) # {}
             /\ r.status = 0 => fails = {}
<1> DEFINE x     == ParseXunit(r)
           codes == ParseLitJson(r)
           fails == In(codes, FailureCategories)
           C == <<
          Refuse("report-incomplete", ~(DOMAIN codes \subseteq x.found)),
          Refuse("report-incomplete", ~(Missing(x, codes) \subseteq x.skipped)),
          Refuse("skip-mismatch",
                 x.skipped # In(codes, {"skipped"}) \cup Missing(x, codes)),
          Refuse("zero-discovered", x.found = {}),
          Refuse("status-mismatch", x.failing # fails),
          Refuse("zero-attempted", In(codes, Categories \ {"skipped"}) = {}),
          Refuse("zero-executed", In(codes, ExecutedCategories) = {}),
          Refuse("status-suppressed", r.status = 0 /\ fails # {}),
          Refuse("status-mismatch", r.status # (IF fails # {} THEN 1 ELSE 0))>>
<1> HIDE DEF x, codes, fails
<1>1. FirstOf(C) = Ok
  BY DEF BuildReportCode, x, codes, fails
<1>2. DOMAIN C = 1 .. 9
  OBVIOUS
<1>3. \A i \in 1 .. 9 : C[i].when => C[i].code # Ok
  BY DEF Refuse, Ok
<1>4. \A i \in 1 .. 9 : ~C[i].when
  <2> HIDE DEF C
  <2> QED BY <1>1, <1>2, <1>3, FirstOfOk
<1>5. ~C[1].when /\ ~C[2].when /\ ~C[3].when /\ ~C[5].when /\ ~C[7].when /\ ~C[8].when
  <2> HIDE DEF C
  <2> QED BY <1>4
<1> QED BY <1>5 DEF Refuse, x, codes, fails

-----------------------------------------------------------------------------
(* lit's results                                                           *)

\* r is e but for one channel.
Lies(tests, e, r) ==
  \/ r = e
  \/ \E j \in PartialMaps(Tests, LitCodes) : r = [e EXCEPT !.json = j]
  \/ \E s \in 0 .. 2 : r = [e EXCEPT !.status = s]
  \/ \E f, k, g \in SUBSET tests : r = [e EXCEPT !.found = f, !.skipped = k, !.failing = g]

\* At most one channel of a result differs from what lit should have said.
LEMMA OneChannelLies ==
  ASSUME NEW tests, NEW r \in LitResults(tests)
  PROVE  \E truth \in [tests -> LitCodes] : \E o \in SUBSET In(truth, {"skipped"}) :
           Lies(tests, Exact(truth, o), r)
<1>1. PICK e \in UNION {Exacts(truth) : truth \in [tests -> LitCodes]} : r \in Answers(tests, e)
  BY DEF LitResults
<1>2. PICK truth \in [tests -> LitCodes] : e \in Exacts(truth)
  BY <1>1
<1>3. PICK o \in SUBSET In(truth, {"skipped"}) : e = Exact(truth, o)
  BY <1>2 DEF Exacts
<1>4. Lies(tests, e, r)
  <2>1. CASE r = e \/ r \in JsonLies(e) \/ r \in StatusLies(e)
    BY <2>1 DEF Lies, JsonLies, StatusLies
  <2>2. CASE r \in XunitLies(tests, e)
    <3>1. PICK x \in XunitReports(tests) :
            r = [e EXCEPT !.found = x.found, !.skipped = x.skipped, !.failing = x.failing]
      BY <2>2 DEF XunitLies
    <3>2. x.found \in SUBSET tests /\ x.skipped \in SUBSET tests /\ x.failing \in SUBSET tests
      BY DEF XunitReports
    <3> QED BY <3>1, <3>2 DEF Lies
  <2> QED BY <1>1, <2>1, <2>2 DEF Answers
<1> QED BY <1>3, <1>4

\* What an accepted, green result says of the tests that ran.
Truthful(tests, r) ==
  /\ In(r.truth, FailureCategories) = {}
  /\ In(r.truth, ExecutedCategories) # {}
  /\ r.found \subseteq tests
  /\ tests \ r.found \subseteq In(r.truth, {"skipped"}) \ DOMAIN r.json
  /\ \A t \in r.found \cap In(r.truth, {"skipped"}) \cap DOMAIN r.json :
       CategoryOf(r.json, t) = "skipped"

\* A test that neither failed nor was skipped was executed.
LEMMA CategoriesPartition ==
  ASSUME NEW S, NEW codes \in [S -> LitCodes]
  PROVE  /\ In(codes, ExecutedCategories) \cup In(codes, {"skipped"})
              \cup In(codes, FailureCategories) = S
         /\ In(codes, FailureCategories) \cap In(codes, {"skipped"}) = {}
         /\ In(codes, ExecutedCategories) \cap In(codes, {"skipped"}) = {}
<1>1. \A t \in S : codes[t] \in DOMAIN CodeCategory
  BY LitAssumption DEF LitAssumption
<1>2. \A c \in DOMAIN CodeCategory :
        CodeCategory[c] \in ExecutedCategories \cup {"skipped"} \cup FailureCategories
  BY DEF CodeCategory, ExecutedCategories, FailureCategories
<1>3. "skipped" \notin ExecutedCategories \cup FailureCategories
  BY DEF ExecutedCategories, FailureCategories
<1>4. \A t \in S : CategoryOf(codes, t) \in ExecutedCategories \cup {"skipped"} \cup FailureCategories
  BY <1>1, <1>2 DEF CategoryOf
<1> QED BY <1>3, <1>4 DEF In

\* Whichever channel lied, a report that is accepted with status 0 is truthful.
LEMMA AcceptedIsTruthful ==
  ASSUME NEW tests, NEW r \in LitResults(tests), BuildReportCode(r) = Ok, r.status = 0
  PROVE  Truthful(tests, r)
<1>0. PICK truth \in [tests -> LitCodes] :
        \E o \in SUBSET In(truth, {"skipped"}) : Lies(tests, Exact(truth, o), r)
  BY OneChannelLies
<1>1. PICK o \in SUBSET In(truth, {"skipped"}) : Lies(tests, Exact(truth, o), r)
  BY <1>0
<1> DEFINE e == Exact(truth, o)
           executed(codes) == In(codes, ExecutedCategories)
           skipped(codes) == In(codes, {"skipped"})
           fails(codes) == In(codes, FailureCategories)
<1>2. /\ e.truth = truth /\ e.found = tests /\ e.skipped = skipped(truth)
      /\ e.failing = fails(truth)
      /\ e.status = IF fails(truth) # {} THEN 1 ELSE 0
      /\ DOMAIN e = {"truth", "json", "found", "skipped", "failing", "status"}
      /\ e.json = [t \in tests \ o |-> truth[t]]
  BY DEF Exact
<1>3. /\ executed(truth) \cup skipped(truth) \cup fails(truth) = tests
      /\ fails(truth) \cap skipped(truth) = {} /\ executed(truth) \cap skipped(truth) = {}
  BY CategoriesPartition
<1>4. /\ DOMAIN e.json = tests \ o /\ skipped(e.json) = skipped(truth) \ o
      /\ executed(e.json) \subseteq executed(truth) /\ fails(e.json) = fails(truth)
      /\ \A t \in skipped(truth) \ o : CategoryOf(e.json, t) = "skipped"
  <2>1. \A t \in tests \ o : CategoryOf(e.json, t) = CategoryOf(truth, t)
    BY <1>2 DEF CategoryOf
  <2>2. fails(truth) \subseteq tests \ o
    BY <1>3
  <2>3. DOMAIN e.json = tests \ o /\ DOMAIN truth = tests
    BY <1>2
  <2> HIDE DEF e
  <2> QED BY <2>1, <2>2, <2>3 DEF In
<1>5. /\ DOMAIN r.json \subseteq r.found
      /\ r.found \ DOMAIN r.json \subseteq r.skipped \cap r.found
      /\ r.skipped \cap r.found = skipped(r.json) \cup (r.found \ DOMAIN r.json)
      /\ r.failing \cap r.found = {} /\ fails(r.json) = {}
      /\ executed(r.json) # {}
  BY BuildReportAccepts DEF ParseXunit, ParseLitJson, Missing
<1>6. /\ skipped(r.json) = {t \in DOMAIN r.json : CategoryOf(r.json, t) = "skipped"}
      /\ executed(r.json) = {t \in DOMAIN r.json : CategoryOf(r.json, t) \in ExecutedCategories}
      /\ "skipped" \notin ExecutedCategories
  BY DEF In, ExecutedCategories
<1> HIDE DEF e, executed, skipped, fails
<1>7. ASSUME r.truth = truth, fails(truth) = {}, executed(truth) # {}, r.found \subseteq tests,
             tests \ r.found \subseteq skipped(truth) \ DOMAIN r.json,
             \A t \in r.found \cap skipped(truth) \cap DOMAIN r.json :
               CategoryOf(r.json, t) = "skipped"
      PROVE  Truthful(tests, r)
  BY <1>7 DEF Truthful, fails, executed, skipped
<1>8. CASE \E j \in PartialMaps(Tests, LitCodes) : r = [e EXCEPT !.json = j]
  <2>1. /\ r.truth = truth /\ r.found = tests /\ r.skipped = skipped(truth)
        /\ r.status = e.status
    BY <1>2, <1>8
  <2>2. fails(truth) = {}
    BY <1>2, <2>1
  <2>3. skipped(truth) = skipped(r.json) \cup (tests \ DOMAIN r.json)
    BY <1>3, <1>5, <2>1
  <2>4. PICK t \in executed(r.json) : TRUE
    BY <1>5
  <2>5. t \in tests /\ t \notin skipped(r.json) /\ t \in DOMAIN r.json
    BY <1>5, <1>6, <2>1, <2>4
  <2>6. executed(truth) # {}
    BY <1>3, <2>2, <2>3, <2>5
  <2> QED BY <1>6, <1>7, <2>1, <2>2, <2>3, <2>6
<1>9. CASE r = e \/ \E s \in 0 .. 2 : r = [e EXCEPT !.status = s]
  <2>1. /\ r.truth = truth /\ r.found = tests /\ r.json = e.json
    BY <1>2, <1>9
  <2>2. fails(truth) = {} /\ executed(truth) # {}
    BY <1>4, <1>5, <2>1
  <2>3. \A t \in skipped(truth) \cap DOMAIN r.json : CategoryOf(r.json, t) = "skipped"
    BY <1>3, <1>4, <2>1
  <2> QED BY <1>7, <2>1, <2>2, <2>3
<1>10. CASE \E f, k, g \in SUBSET tests :
              r = [e EXCEPT !.found = f, !.skipped = k, !.failing = g]
  <2>1. /\ r.truth = truth /\ r.json = e.json /\ r.found \in SUBSET tests
    BY <1>2, <1>10
  <2>2. fails(truth) = {} /\ executed(truth) # {}
    BY <1>4, <1>5, <2>1
  <2>3. tests \ r.found \subseteq skipped(truth) \ DOMAIN r.json
    BY <1>1, <1>4, <1>5, <2>1 DEF skipped
  <2>4. \A t \in skipped(truth) \cap DOMAIN r.json : CategoryOf(r.json, t) = "skipped"
    BY <1>3, <1>4, <2>1
  <2> QED BY <1>7, <2>1, <2>2, <2>3, <2>4
<1> QED BY <1>1, <1>8, <1>9, <1>10 DEF Lies, e

-----------------------------------------------------------------------------
(* The wrapper's invariant                                                 *)

\* The history is a sequence, and a commit that does not touch the suite has its
\* parent's tests.
HistoryOK ==
  /\ commits \in Seq({commits[i] : i \in DOMAIN commits})
  /\ \A i \in 1 .. Len(commits) :
       i > 1 /\ "suite" \notin commits[i].changed => commits[i].tests = commits[i - 1].tests

\* The stages of a run, each with those after it.
Loaded == run.pc # "idle" \/ run.exit = 0
Ran == run.pc \in {"ran", "wrote"} \/ Green
Wrote == run.pc = "wrote" \/ Green

\* What each stage of a run has established.
RunOK ==
  /\ DOMAIN run = DOMAIN NoRun
  /\ run.pc \in {"idle", "baseline", "ready", "ran", "wrote"}
  /\ run.disturbed \in BOOLEAN
  /\ Loaded => LoadBaseline(run.used) = Ok
  /\ Ran => run.lit \in LitResults(run.ran)
  /\ Wrote => /\ BuildReportCode(run.lit) = Ok
              /\ report = BuildReport(run.lit) /\ run.wrote
  /\ Green => run.lit.status = 0 /\ CompareToBaseline(report, run.used) = Ok

\* The suite is the one of the commit the baseline names, and the next commit
\* banked that baseline.
Banked(h, used, tests, c) ==
  /\ c \in 1 .. (Len(h) - 1)
  /\ used.sourceCommit = c
  /\ h[c + 1].base = used
  /\ h[c].tests = tests

\* What a run nobody disturbed rests on.
TerminalOK ==
  ~run.disturbed =>
    /\ run.pc = "baseline" => run.used = tree.base
    /\ run.terminal /\ run.pc = "ready" => Banked(commits, run.used, tree.tests, Len(commits) - 1)
    /\ run.terminal /\ Ran => \E c \in 1 .. Len(commits) : Banked(commits, run.used, run.ran, c)

LitInv == HistoryOK /\ RunOK /\ TerminalOK

\* The invariant holds at first.
LEMMA LitInitially == Init => LitInv
<1> SUFFICES ASSUME Init PROVE LitInv
  OBVIOUS
<1>1. /\ run = NoRun
      /\ commits = <<[tests |-> tree.tests, base |-> tree.base,
                      changed |-> {"baseline", "wrapper", "suite"}]>>
  BY DEF Init
<1>2. /\ run.pc = "idle" /\ run.exit # 0 /\ run.disturbed = FALSE
  BY <1>1 DEF NoRun, NoExit
<1>3. HistoryOK
  BY <1>1 DEF HistoryOK
<1> QED BY <1>1, <1>2, <1>3 DEF LitInv, RunOK, TerminalOK, Loaded, Ran, Wrote, Green

\* A run that ends with another status than zero claims nothing.
LEMMA RedIsSilent ==
  ASSUME LitInv, UNCHANGED commits,
         run' = NoRun \/ \E status : status # 0 /\ run' = [NoRun EXCEPT !.exit = status]
  PROVE  LitInv'
<1>1. /\ DOMAIN run' = DOMAIN NoRun
      /\ run'.pc = "idle" /\ run'.exit # 0 /\ run'.disturbed = FALSE
  BY DEF NoRun, NoExit
<1>2. HistoryOK'
  BY DEF LitInv, HistoryOK
<1> QED BY <1>1, <1>2 DEF LitInv, RunOK, TerminalOK, Loaded, Ran, Wrote, Green

\* Loading the baseline keeps the invariant.
LEMMA LoadKeeps ==
  ASSUME LitInv, NEW terminal \in BOOLEAN, LoadStep(terminal)
  PROVE  LitInv'
<1>1. UNCHANGED <<commits, tree, report>> /\ Exit(2) => LitInv'
  BY RedIsSilent DEF Exit
<1>2. CASE Exit(2)
  BY <1>1, <1>2 DEF LoadStep
<1>3. CASE ~Exit(2)
  <2>1. /\ LoadBaseline(tree.base) = Ok
        /\ run' = [NoRun EXCEPT !.terminal = terminal, !.used = tree.base, !.pc = "baseline"]
        /\ UNCHANGED <<commits, tree, report>>
    BY <1>3 DEF LoadStep
  <2>2. /\ DOMAIN run' = DOMAIN NoRun /\ run'.pc = "baseline" /\ run'.disturbed = FALSE
        /\ run'.used = tree.base
    BY <2>1 DEF NoRun
  <2>3. HistoryOK'
    BY <2>1 DEF LitInv, HistoryOK
  <2> QED BY <2>1, <2>2, <2>3 DEF LitInv, RunOK, TerminalOK, Loaded, Ran, Wrote, Green
<1> QED BY <1>2, <1>3

\* A terminal run asks git, and learns that the tree is the head's, that the
\* head banked the baseline and that it left its parent's suite alone.
LEMMA ProvenanceIsBanked ==
  ASSUME LitInv, VerifyCleanTree = Ok, VerifyProvenance(run.used) = Ok, run.used = tree.base
  PROVE  Banked(commits, run.used, tree.tests, Len(commits) - 1)
<1>1. tree = [tests |-> HeadCommit.tests, base |-> HeadCommit.base]
  BY DEF VerifyCleanTree, TreeIsClean, Ok
<1>2. /\ ~(Len(commits) < 2) /\ run.used.sourceCommit = Len(commits) - 1
      /\ VerifyArmingDelta(HeadCommit.changed) = Ok
  BY DEF VerifyProvenance, HeadIndex, Ok
<1>3. HeadCommit.changed \subseteq ArmingAllowlist
  <2> DEFINE C == <<Refuse("baseline-arming-delta", ~(HeadCommit.changed \subseteq ArmingAllowlist)),
                    Refuse("baseline-arming-delta", "baseline" \notin HeadCommit.changed)>>
  <2>1. FirstOf(C) = Ok
    BY <1>2 DEF VerifyArmingDelta
  <2>2. DOMAIN C = 1 .. 2 /\ \A i \in 1 .. 2 : C[i].when => C[i].code # Ok
    BY DEF Refuse, Ok
  <2>3. \A i \in 1 .. 2 : ~C[i].when
    <3> HIDE DEF C
    <3>1. 2 \in Nat
      OBVIOUS
    <3> QED BY <2>1, <2>2, <3>1, FirstOfOk
  <2>4. ~C[1].when
    <3> HIDE DEF C
    <3> QED BY <2>3
  <2> QED BY <2>4 DEF Refuse
<1>4. PICK n \in Nat : n = Len(commits)
  BY DEF LitInv, HistoryOK
<1>5. n >= 2 /\ "suite" \notin commits[n].changed
  BY <1>2, <1>3, <1>4 DEF HeadCommit, HeadIndex, ArmingAllowlist
<1>6. commits[n].tests = commits[n - 1].tests
  BY <1>4, <1>5 DEF LitInv, HistoryOK
<1> QED BY <1>1, <1>2, <1>4, <1>5, <1>6 DEF Banked, HeadCommit, HeadIndex

\* The questions to git keep the invariant.
LEMMA PrepareKeeps == LitInv /\ PrepareStep => LitInv'
<1> SUFFICES ASSUME LitInv, PrepareStep PROVE LitInv'
  OBVIOUS
<1>1. run.pc = "baseline" /\ UNCHANGED <<commits, tree>> /\ DOMAIN run = DOMAIN NoRun
  BY DEF PrepareStep, LitInv, RunOK
<1> DEFINE refused == run.terminal /\ \/ VerifyCleanTree # Ok
                                      \/ VerifyProvenance(run.used) # Ok
<1>2. CASE refused
  <2>1. Exit(2)
    BY <1>2 DEF PrepareStep
  <2> QED BY <1>1, <2>1, RedIsSilent DEF Exit
<1>3. CASE ~refused
  <2>1. run' = [run EXCEPT !.pc = "ready"]
    BY <1>3 DEF PrepareStep
  <2>2. /\ DOMAIN run' = DOMAIN NoRun /\ run'.pc = "ready"
        /\ run'.disturbed = run.disturbed /\ run'.used = run.used /\ run'.terminal = run.terminal
    BY <1>1, <2>1 DEF NoRun
  <2>3. HistoryOK'
    BY <1>1 DEF LitInv, HistoryOK
  <2>4. RunOK'
    BY <1>1, <2>2 DEF LitInv, RunOK, Loaded, Ran, Wrote, Green
  <2>5. ASSUME ~run.disturbed, run.terminal
        PROVE  Banked(commits, run.used, tree.tests, Len(commits) - 1)
    <3>1. run.used = tree.base
      BY <1>1, <2>5 DEF LitInv, TerminalOK
    <3> QED BY <1>3, <2>5, <3>1, ProvenanceIsBanked
  <2>6. TerminalOK'
    BY <1>1, <2>2, <2>5 DEF TerminalOK, Ran, Green
  <2> QED BY <2>3, <2>4, <2>6 DEF LitInv
<1> QED BY <1>2, <1>3

\* Running lit keeps the invariant.
LEMMA LitKeeps == LitInv /\ LitStep => LitInv'
<1> SUFFICES ASSUME LitInv, LitStep PROVE LitInv'
  OBVIOUS
<1>1. /\ run.pc = "ready" /\ UNCHANGED <<commits, tree, report>>
      /\ DOMAIN run = DOMAIN NoRun
  BY DEF LitStep, LitInv, RunOK
<1>2. ASSUME NEW r \in LitResults(tree.tests),
             run' = [run EXCEPT !.pc = "ran", !.lit = r, !.ran = tree.tests]
      PROVE  LitInv'
  <2>1. /\ DOMAIN run' = DOMAIN NoRun /\ run'.pc = "ran"
        /\ run'.lit = r /\ run'.ran = tree.tests
        /\ run'.disturbed = run.disturbed /\ run'.used = run.used /\ run'.terminal = run.terminal
    BY <1>1, <1>2 DEF NoRun
  <2>2. HistoryOK'
    BY <1>1 DEF LitInv, HistoryOK
  <2>3. RunOK'
    BY <1>1, <2>1 DEF LitInv, RunOK, Loaded, Ran, Wrote, Green
  <2>4. ASSUME ~run.disturbed, run.terminal
        PROVE  \E c \in 1 .. Len(commits) : Banked(commits, run.used, tree.tests, c)
    <3>1. Banked(commits, run.used, tree.tests, Len(commits) - 1)
      BY <1>1, <2>4 DEF LitInv, TerminalOK
    <3>2. Len(commits) \in Nat
      BY DEF LitInv, HistoryOK
    <3>3. Len(commits) - 1 \in 1 .. Len(commits)
      BY <3>1, <3>2 DEF Banked
    <3> QED BY <3>1, <3>3
  <2>5. TerminalOK'
    BY <1>1, <2>1, <2>4 DEF TerminalOK, Ran, Green
  <2> QED BY <2>2, <2>3, <2>5 DEF LitInv
<1>3. ASSUME NEW s \in {1, 2}, Exit(s) PROVE LitInv'
  BY <1>1, <1>3, RedIsSilent DEF Exit
<1>4. ASSUME NEW s \in 0 .. 2, Exit(IF s = 0 THEN 2 ELSE s) PROVE LitInv'
  <2>1. (IF s = 0 THEN 2 ELSE s) \in {1, 2}
    OBVIOUS
  <2> QED BY <1>3, <1>4, <2>1
<1> QED BY <1>2, <1>3, <1>4 DEF LitStep

\* Writing the report keeps the invariant.
LEMMA WriteKeeps == LitInv /\ WriteStep => LitInv'
<1> SUFFICES ASSUME LitInv, WriteStep PROVE LitInv'
  OBVIOUS
<1>1. run.pc = "ran" /\ UNCHANGED <<commits, tree>> /\ DOMAIN run = DOMAIN NoRun
  BY DEF WriteStep, LitInv, RunOK
<1>2. CASE BuildReportCode(run.lit) = Ok
  <2>1. /\ report' = BuildReport(run.lit)
        /\ run' = [run EXCEPT !.pc = "wrote", !.wrote = TRUE]
    BY <1>2 DEF WriteStep
  <2>2. /\ DOMAIN run' = DOMAIN NoRun /\ run'.pc = "wrote" /\ run'.wrote
        /\ run'.lit = run.lit /\ run'.ran = run.ran
        /\ run'.disturbed = run.disturbed /\ run'.used = run.used /\ run'.terminal = run.terminal
    BY <1>1, <2>1 DEF NoRun
  <2>3. HistoryOK' /\ RunOK' /\ TerminalOK'
    BY <1>1, <1>2, <2>1, <2>2
       DEF LitInv, HistoryOK, RunOK, TerminalOK, Loaded, Ran, Wrote, Green
  <2> QED BY <2>3 DEF LitInv
<1>3. CASE BuildReportCode(run.lit) # Ok
  <2>1. Exit(IF run.lit.status = 0 THEN 2 ELSE run.lit.status)
    BY <1>3 DEF WriteStep
  <2>2. (IF run.lit.status = 0 THEN 2 ELSE run.lit.status) # 0
    OBVIOUS
  <2> QED BY <1>1, <2>1, <2>2, RedIsSilent DEF Exit
<1> QED BY <1>2, <1>3

\* The ratchet keeps the invariant: a zero exit has passed it.
LEMMA CompareKeeps == LitInv /\ CompareStep => LitInv'
<1> SUFFICES ASSUME LitInv, CompareStep PROVE LitInv'
  OBVIOUS
<1> DEFINE bad == CompareToBaseline(report, run.used) # Ok /\ run.lit.status = 0
           status == IF bad THEN 2 ELSE run.lit.status
<1>1. /\ run.pc = "wrote" /\ UNCHANGED <<commits, tree, report>> /\ DOMAIN run = DOMAIN NoRun
      /\ Exit(status)
  BY DEF CompareStep, LitInv, RunOK
<1>2. CASE status # 0
  <2> HIDE DEF status
  <2> QED BY <1>1, <1>2, RedIsSilent DEF Exit
<1>3. CASE status = 0
  <2>1. run' = [run EXCEPT !.pc = "idle", !.exit = 0]
    BY <1>1, <1>3 DEF Exit
  <2>2. run.lit.status = 0 /\ CompareToBaseline(report, run.used) = Ok
    BY <1>3
  <2>3. /\ DOMAIN run' = DOMAIN NoRun /\ run'.pc = "idle" /\ run'.exit = 0 /\ run'.wrote = run.wrote
        /\ run'.lit = run.lit /\ run'.ran = run.ran
        /\ run'.disturbed = run.disturbed /\ run'.used = run.used /\ run'.terminal = run.terminal
    BY <1>1, <2>1 DEF NoRun
  <2>4. HistoryOK' /\ RunOK' /\ TerminalOK'
    BY <1>1, <2>2, <2>3 DEF LitInv, HistoryOK, RunOK, TerminalOK, Loaded, Ran, Wrote, Green
  <2> QED BY <2>4 DEF LitInv
<1> QED BY <1>2, <1>3

\* A killed run claims nothing.
LEMMA KilledKeeps == LitInv /\ Killed => LitInv'
<1> SUFFICES ASSUME LitInv, Killed PROVE LitInv'
  OBVIOUS
<1>1. run' = NoRun /\ UNCHANGED commits
  BY DEF Killed
<1> QED BY <1>1, RedIsSilent

\* The developer's acts disturb the run under way.
LEMMA DisturbedRun ==
  ASSUME LitInv, Disturb
  PROVE  /\ DOMAIN run' = DOMAIN NoRun
         /\ run'.pc = run.pc /\ run'.exit = run.exit /\ run'.wrote = run.wrote
         /\ run'.lit = run.lit /\ run'.ran = run.ran
         /\ run'.used = run.used /\ run'.terminal = run.terminal
         /\ run'.disturbed = (run.disturbed \/ run.pc # "idle")
BY DEF LitInv, RunOK, Disturb, NoRun

\* An edit keeps the invariant.
LEMMA EditKeeps ==
  ASSUME LitInv, NEW t, EditTo(t)
  PROVE  LitInv'
<1>1. UNCHANGED <<commits, report>> /\ Disturb
  BY DEF EditTo
<1>2. HistoryOK' /\ RunOK'
  BY <1>1, DisturbedRun DEF LitInv, HistoryOK, RunOK, Loaded, Ran, Wrote, Green
<1>3. TerminalOK'
  BY <1>1, DisturbedRun DEF LitInv, TerminalOK, Ran, Green
<1> QED BY <1>2, <1>3 DEF LitInv

\* A sequence with one element more is one over its elements.
LEMMA OneMore ==
  ASSUME NEW h, h \in Seq({h[i] : i \in DOMAIN h}), NEW x
  PROVE  /\ Append(h, x) \in Seq({Append(h, x)[i] : i \in DOMAIN Append(h, x)})
         /\ Len(h) \in Nat /\ Len(Append(h, x)) = Len(h) + 1
         /\ Append(h, x)[Len(h) + 1] = x
         /\ \A i \in 1 .. Len(h) : Append(h, x)[i] = h[i]
<1> DEFINE S == {h[i] : i \in DOMAIN h} \cup {x}
           g == Append(h, x)
<1>1. h \in Seq(S) /\ x \in S
  OBVIOUS
<1> HIDE DEF S
<1>2. /\ g \in Seq(S) /\ Len(h) \in Nat /\ Len(g) = Len(h) + 1 /\ g[Len(h) + 1] = x
      /\ \A i \in 1 .. Len(h) : g[i] = h[i]
  BY <1>1
<1> HIDE DEF g
<1> DEFINE R == {g[i] : i \in DOMAIN g}
<1>3. g \in [1 .. Len(h) + 1 -> R]
  BY <1>2
<1> HIDE DEF R
<1>4. g \in Seq(R)
  BY <1>2, <1>3
<1> QED BY <1>2, <1>4 DEF R, g

\* A commit keeps the invariant.
LEMMA CommitKeeps == LitInv /\ Commit => LitInv'
<1> SUFFICES ASSUME LitInv, Commit PROVE LitInv'
  OBVIOUS
<1>1. Disturb /\ UNCHANGED <<tree, report>>
  BY DEF Commit
<1>2. PICK x : /\ commits' = Append(commits, x)
               /\ "suite" \notin x.changed => x.tests = HeadCommit.tests
  BY DEF Commit
<1>3. PICK n \in Nat : n = Len(commits)
  BY DEF LitInv, HistoryOK
<1>4. /\ commits' \in Seq({commits'[i] : i \in DOMAIN commits'})
      /\ Len(commits') = n + 1 /\ commits'[n + 1] = x
      /\ \A i \in 1 .. n : commits'[i] = commits[i]
  BY <1>2, <1>3, OneMore DEF LitInv, HistoryOK
<1>5. HistoryOK'
  <2>1. ASSUME NEW i \in 1 .. n + 1, i > 1, "suite" \notin commits'[i].changed
        PROVE  commits'[i].tests = commits'[i - 1].tests
    <3>1. CASE i = n + 1
      <4>1. i - 1 = n /\ n \in 1 .. n
        BY <2>1, <3>1
      <4> QED BY <1>2, <1>3, <1>4, <2>1, <3>1, <4>1 DEF HeadCommit, HeadIndex
    <3>2. CASE i \in 1 .. n
      <4>1. i - 1 \in 1 .. n
        BY <2>1, <3>2
      <4> QED BY <1>3, <1>4, <2>1, <3>2, <4>1 DEF LitInv, HistoryOK
    <3>3. i = n + 1 \/ i \in 1 .. n
      OBVIOUS
    <3> QED BY <3>1, <3>2, <3>3
  <2> QED BY <1>4, <2>1 DEF HistoryOK
<1>6. RunOK'
  BY <1>1, DisturbedRun DEF LitInv, RunOK, Loaded, Ran, Wrote, Green
<1>7. TerminalOK'
  <2>1. ASSUME NEW u, NEW tests, NEW c \in 1 .. n, Banked(commits, u, tests, c)
        PROVE  c \in 1 .. n + 1 /\ Banked(commits', u, tests, c)
    <3>1. c \in 1 .. (n - 1) /\ c + 1 \in 1 .. n /\ c \in 1 .. n + 1 /\ c \in 1 .. ((n + 1) - 1)
      BY <1>3, <2>1 DEF Banked
    <3> QED BY <1>3, <1>4, <2>1, <3>1 DEF Banked
  <2>2. CASE run.pc = "idle"
    <3>1. ASSUME ~run.disturbed, run.terminal, Green
          PROVE  \E c \in 1 .. n + 1 : Banked(commits', run.used, run.ran, c)
      <4>1. PICK c \in 1 .. n : Banked(commits, run.used, run.ran, c)
        BY <1>3, <3>1 DEF LitInv, TerminalOK, Ran
      <4> QED BY <2>1, <4>1
    <3> QED BY <1>1, <1>4, <2>2, <3>1, DisturbedRun DEF TerminalOK, Ran, Green
  <2>3. CASE run.pc # "idle"
    BY <1>1, <2>3, DisturbedRun DEF TerminalOK
  <2> QED BY <2>2, <2>3
<1> QED BY <1>5, <1>6, <1>7 DEF LitInv

\* Every step of the wrapper and of the developer keeps the invariant.
LEMMA LitStepKeeps == LitInv /\ [Next]_litVars => LitInv'
<1> SUFFICES ASSUME LitInv, [Next]_litVars PROVE LitInv'
  OBVIOUS
<1>1. CASE Next
  <2>1. AddOrDeleteTest \/ ArmBaseline \/ HandEditBaseline => \E t : EditTo(t)
    BY DEF AddOrDeleteTest, ArmBaseline, HandEditBaseline
  <2> QED BY <1>1, <2>1, LoadKeeps, PrepareKeeps, LitKeeps, WriteKeeps, CompareKeeps,
             KilledKeeps, EditKeeps, CommitKeeps DEF Next
<1>2. CASE UNCHANGED litVars
  BY <1>2 DEF litVars, LitInv, HistoryOK, RunOK, TerminalOK, Loaded, Ran, Wrote, Green
<1> QED BY <1>1, <1>2

-----------------------------------------------------------------------------
(* What a zero exit is worth                                               *)

\* The report is of the tests found, each in the category lit's JSON gives it.
LEMMA ReportIs ==
  ASSUME NEW r
  PROVE  /\ BuildReport(r) # NoReport
         /\ BuildReport(r).ids = r.found /\ DOMAIN BuildReport(r).cat = r.found
         /\ \A t \in r.found : BuildReport(r).cat[t] = IF t \in DOMAIN r.json
                                                       THEN CategoryOf(r.json, t) ELSE "skipped"
<1>1. BuildReport(r).kind = "report" /\ NoReport.kind = "none"
  BY DEF BuildReport, NoReport
<1> QED BY <1>1 DEF BuildReport, ParseXunit

\* An armed baseline that loads has the digest of its identities.
LEMMA LoadedIsConsistent ==
  ASSUME NEW b, LoadBaseline(b) = Ok, IsRatcheted(b)
  PROVE  b.digest = b.discovered
<1> DEFINE skips == ReasonMapCode(b.skipAllowed, b.discovered)
           others == ReasonMapCode(b.unresolvedAllowed, b.discovered)
           C == <<Refuse("baseline-malformed", b.discovered = {} \/ b.twice),
                  Refuse("baseline-inconsistent", b.count # Cardinality(b.discovered)),
                  Refuse("baseline-inconsistent", b.digest # b.discovered),
                  Refuse(skips, skips # Ok),
                  Refuse(others, others # Ok)>>
<1>1. FirstOf(C) = Ok
  <2>1. ValidateStageB(b) = Ok
    BY DEF LoadBaseline, IsRatcheted, Ok
  <2> QED BY <2>1 DEF ValidateStageB
<1> HIDE DEF skips, others
<1>2. DOMAIN C = 1 .. 5 /\ 5 \in Nat /\ \A i \in 1 .. 5 : C[i].when => C[i].code # Ok
  <2>1. DOMAIN C = 1 .. 5 /\ 5 \in Nat
    OBVIOUS
  <2>2. /\ C[1].code # Ok /\ C[2].code # Ok /\ C[3].code # Ok
        /\ C[4].code = skips /\ C[5].code = others
    BY DEF Refuse, Ok
  <2>3. (C[4].when => skips # Ok) /\ (C[5].when => others # Ok)
    BY DEF Refuse
  <2> HIDE DEF C
  <2> QED BY <2>1, <2>2, <2>3
<1>3. \A i \in 1 .. 5 : ~C[i].when
  <2> HIDE DEF C
  <2> QED BY <1>1, <1>2, FirstOfOk
<1>4. ~C[3].when
  <2> HIDE DEF C
  <2> QED BY <1>3
<1> QED BY <1>4 DEF Refuse

\* A report that passes the ratchet has lost and newly skipped nothing.
LEMMA ComparedIsRatcheted ==
  ASSUME NEW rep, NEW b, CompareToBaseline(rep, b) = Ok, IsRatcheted(b)
  PROVE  b.discovered \subseteq rep.ids /\ Of(rep, "skipped") \subseteq b.skipAllowed
<1> DEFINE C == <<
      Refuse("baseline-shrinkage", ~(b.discovered \subseteq rep.ids)),
      Refuse("baseline-partition", DOMAIN rep.cat # rep.ids),
      Refuse("baseline-skip-growth", ~(Of(rep, "skipped") \subseteq b.skipAllowed)),
      Refuse("baseline-unresolved-growth",
             ~(Of(rep, "unresolved") \subseteq b.unresolvedAllowed))>>
<1>1. FirstOf(C) = Ok
  BY DEF CompareToBaseline
<1>2. DOMAIN C = 1 .. 4 /\ 4 \in Nat /\ \A i \in 1 .. 4 : C[i].when => C[i].code # Ok
  BY DEF Refuse, Ok
<1>3. \A i \in 1 .. 4 : ~C[i].when
  <2> HIDE DEF C
  <2> QED BY <1>1, <1>2, FirstOfOk
<1>4. ~C[1].when /\ ~C[3].when
  <2> HIDE DEF C
  <2> QED BY <1>3
<1> QED BY <1>4 DEF Refuse

\* What the invariant says of a zero exit.
LEMMA GreenIs ==
  ASSUME LitInv, Green
  PROVE  /\ Truthful(run.ran, run.lit) /\ run.wrote
         /\ report = BuildReport(run.lit)
         /\ LoadBaseline(run.used) = Ok /\ CompareToBaseline(report, run.used) = Ok
BY AcceptedIsTruthful DEF LitInv, RunOK, Ran, Wrote, Loaded, Green

\* The invariant says that a zero exit is true.
LEMMA InvariantIsTrue == LitInv => GreenIsTrue
<1> SUFFICES ASSUME LitInv, Green
             PROVE  /\ In(run.lit.truth, FailureCategories) = {}
                    /\ In(run.lit.truth, ExecutedCategories) # {}
                    /\ run.wrote /\ report # NoReport
                    /\ DOMAIN report.cat \subseteq run.ran
                    /\ run.ran \ DOMAIN report.cat
                         \subseteq In(run.lit.truth, {"skipped"}) \ DOMAIN run.lit.json
  BY DEF GreenIsTrue
<1> QED BY GreenIs, ReportIs DEF Truthful

\* The invariant says that the ratchet holds.
LEMMA InvariantRatchets == LitInv => RatchetHolds
<1> SUFFICES ASSUME LitInv, Green, IsRatcheted(run.used)
             PROVE  /\ run.used.digest \subseteq run.ran \cap report.ids
                    /\ In(run.lit.truth, {"skipped"}) \cap report.ids
                         \subseteq run.used.skipAllowed
  BY DEF RatchetHolds
<1>1. /\ report.ids = run.lit.found /\ run.lit.found \subseteq run.ran
      /\ DOMAIN report.cat = run.lit.found
  BY GreenIs, ReportIs DEF Truthful
<1>2. /\ run.used.digest = run.used.discovered /\ run.used.discovered \subseteq report.ids
      /\ Of(report, "skipped") \subseteq run.used.skipAllowed
  BY GreenIs, LoadedIsConsistent, ComparedIsRatcheted
<1>3. \A t \in In(run.lit.truth, {"skipped"}) \cap report.ids : report.cat[t] = "skipped"
  BY <1>1, GreenIs, ReportIs DEF Truthful
<1> QED BY <1>1, <1>2, <1>3 DEF Of

\* The invariant says that a terminal zero exit is reproducible.
LEMMA InvariantReproduces == LitInv => TerminalIsReproducible
<1> SUFFICES ASSUME LitInv, Green, run.terminal, ~run.disturbed
             PROVE  \E c \in 1 .. (HeadIndex - 1) :
                      /\ run.used.sourceCommit = c
                      /\ commits[c + 1].base = run.used
                      /\ commits[c].tests = run.ran
  BY DEF TerminalIsReproducible
<1>1. PICK c \in 1 .. Len(commits) : Banked(commits, run.used, run.ran, c)
  BY DEF LitInv, TerminalOK, Ran
<1> QED BY <1>1 DEF Banked, HeadIndex

\* The flow of the lit suite keeps its invariant.
LEMMA LitFlow == FlowSpec => [](chosen = "lit" => LitInv)
<1>1. FlowInit => (chosen = "lit" => LitInv)
  BY LitInitially DEF FlowInit
<1>2. (chosen = "lit" => LitInv) /\ [FlowNext]_flowVars => (chosen = "lit" => LitInv)'
  <2> SUFFICES ASSUME chosen = "lit" => LitInv, [FlowNext]_flowVars, chosen' = "lit"
               PROVE  LitInv'
    OBVIOUS
  <2>1. chosen = "lit" /\ [Next]_litVars
    BY DEF FlowNext, flowVars, litVars
  <2> QED BY <2>1, LitStepKeeps
<1> QED BY <1>1, <1>2, PTL DEF FlowSpec

\* A zero exit is believed although one of lit's channels lied: no test of the
\* suite lit was pointed at really failed, one was executed, and the report on
\* disk is this run's.  (run(), build_report)
THEOREM GreenTellsTheTruth == FlowSpec => []LitGreenIsTrue
<1>1. (chosen = "lit" => LitInv) => LitGreenIsTrue
  BY InvariantIsTrue DEF LitGreenIsTrue
<1> QED BY <1>1, LitFlow, PTL

\* Under an armed baseline a zero exit means that no banked test disappeared and
\* that none was newly skipped.  (compare_to_baseline)
THEOREM RatchetIsHeld == FlowSpec => []LitRatchetHolds
<1>1. (chosen = "lit" => LitInv) => LitRatchetHolds
  BY InvariantRatchets DEF LitRatchetHolds
<1> QED BY <1>1, LitFlow, PTL

\* A zero exit of an undisturbed terminal run is evidence about the commit the
\* baseline names.  (verify_clean_tree, verify_provenance)
THEOREM TerminalIsEvidence == FlowSpec => []LitTerminalIsReproducible
<1>1. (chosen = "lit" => LitInv) => LitTerminalIsReproducible
  BY InvariantReproduces DEF LitTerminalIsReproducible
<1> QED BY <1>1, LitFlow, PTL

-----------------------------------------------------------------------------
(* The invariant of the release                                            *)

\* The repository, and what was built from it.
RepoOK ==
  /\ DOMAIN repo = DOMAIN Core!InitRepo /\ DOMAIN build = DOMAIN Core!InitBuild
  /\ repo.commits \in Seq({repo.commits[i] : i \in DOMAIN repo.commits})
  /\ Len(repo.commits) >= 1
  /\ \A o \in build.objects : o.mode \in Modes

\* The report derived last, and the files of its commit.
ReportsOK ==
  /\ \A r, q \in derived : r = q
  /\ \A r \in derived :
       /\ r.head \in 1 .. Len(repo.commits)
       /\ r.disturbed \/ \A f \in DOMAIN r.files : r.files[f] = repo.commits[r.head].tree[f]

\* A candidate that passed was verified as it is.
Passed(c, r) == Core!VerifyTree(c, r) = Ok /\ Required \subseteq Core!Present(c)

\* What the release engineer's tool holds, whoever acts meanwhile.
EngineOK ==
  /\ DOMAIN eng = DOMAIN Core!NoEngine
  /\ \A c, d \in eng.cand : c = d
  /\ \A s \in eng.stage : \A a \in DOMAIN s.bin : s.bin[a].mode \in Modes
  /\ eng.result = Ok => eng.pc = 0 /\ \A c \in eng.cand, r \in derived : Passed(c, r)
  /\ Core!At("candidate", 4) => \A c \in eng.cand : Required \subseteq Core!Present(c)

\* What it may rely on if nobody does.
UndisturbedOK ==
  ~eng.disturbed =>
    /\ eng.tool = "derive" /\ eng.pc \in {2, 3} => Core!Clean
    /\ Core!At("derive", 3) =>
         \A rows \in eng.rows : \A f \in DOMAIN rows : rows[f] = repo.tree[f]
    /\ eng.tool = "emit" /\ eng.pc \in {2, 3} =>
         repo.commits[eng.head] = Core!Snapshot /\ build.sha = eng.head
    /\ Core!At("emit", 3) =>
         /\ \A m \in eng.manifest : m = repo.manifest
         /\ \A s \in eng.stage : \E o \in build.objects : s = Core!Install(o)

\* A receipt's rows are those of its stage, and they are of its commit if the
\* programs were rebuilt.
OfItsCommit(r) ==
  /\ DOMAIN r.receipt.body.rows = r.of.manifest.runtime
  /\ \A a \in DOMAIN r.stage.bin :
       /\ r.stage.bin[a].bytes.tree = r.of.tree
       /\ r.stage.bin[a].bytes.sha = r.receipt.body.commit

ReleasedOK ==
  \A r \in released :
    /\ r.receipt.body.rows = Core!RuntimeRows(r.stage)
    /\ \A a \in DOMAIN r.stage.bin : r.stage.bin[a].mode \in Modes
    /\ r.rebuilt => OfItsCommit(r)

\* The consumer admits against a receipt of the producer, program by program.
Admitting(r) ==
  /\ use.receipt = {r.receipt} /\ r.receipt.body.target = use.platform
  /\ \A p \in use.prefix :
       /\ \A a \in DOMAIN r.receipt.body.rows :
            a \in use.todo \/ Core!AdmitArtifact(p.bin, r.receipt, a) = Ok
       /\ use.pc = "admitted" => use.todo = {} /\ DOMAIN p.bin \subseteq DOMAIN r.receipt.body.rows

UseOK ==
  /\ DOMAIN use = DOMAIN Core!NoUse
  /\ \A p, q \in use.prefix : p = q
  /\ use.pc # "idle" => use.prefix # {}
  /\ use.pc \in {"artifacts", "admitted"} /\ ~use.disturbed => \E r \in released : Admitting(r)

CoreInv == RepoOK /\ ReportsOK /\ EngineOK /\ UndisturbedOK /\ ReleasedOK /\ UseOK

\* The invariant holds at first.
LEMMA CoreInitially == Core!Init => CoreInv
<1> SUFFICES ASSUME Core!Init PROVE CoreInv
  OBVIOUS
<1>1. /\ repo = Core!InitRepo /\ build = Core!InitBuild /\ eng = Core!NoEngine
      /\ derived = {} /\ released = {} /\ use = Core!NoUse
  BY DEF Core!Init
<1>2. repo.commits = <<Core!InitSnapshot>> /\ build.objects = {}
  BY <1>1 DEF Core!InitRepo, Core!InitBuild
<1>3. /\ eng.pc = 0 /\ eng.cand = {} /\ eng.stage = {} /\ eng.result # Ok
      /\ eng.tool = "none"
  BY <1>1 DEF Core!NoEngine, Ok
<1>4. use.prefix = {} /\ use.pc = "idle"
  BY <1>1 DEF Core!NoUse
<1>5. RepoOK
  <2>1. <<Core!InitSnapshot>> \in Seq({<<Core!InitSnapshot>>[i] : i \in DOMAIN <<Core!InitSnapshot>>})
    OBVIOUS
  <2>2. Len(<<Core!InitSnapshot>>) = 1
    OBVIOUS
  <2> QED BY <1>1, <1>2, <2>1, <2>2 DEF RepoOK
<1>6. ReportsOK /\ ReleasedOK
  BY <1>1 DEF ReportsOK, ReleasedOK
<1>7. EngineOK /\ UndisturbedOK
  BY <1>1, <1>3 DEF EngineOK, UndisturbedOK, Core!At
<1>8. UseOK
  BY <1>1, <1>4 DEF UseOK
<1> QED BY <1>5, <1>6, <1>7, <1>8 DEF CoreInv

-----------------------------------------------------------------------------
(* The developer                                                           *)

\* Whoever acts while a tool of the engineer runs disturbs it, and nothing else
\* of it changes.
LEMMA DisturbedEngine ==
  ASSUME EngineOK, Core!Disturb
  PROVE  /\ DOMAIN eng' = DOMAIN eng
         /\ eng'.tool = eng.tool /\ eng'.pc = eng.pc /\ eng'.head = eng.head
         /\ eng'.rows = eng.rows /\ eng'.cand = eng.cand /\ eng'.manifest = eng.manifest
         /\ eng'.stage = eng.stage /\ eng'.result = eng.result
         /\ eng'.disturbed = (eng.disturbed \/ eng.pc # 0)
BY DEF EngineOK, Core!Disturb, Core!NoEngine

\* A developer's step that keeps the repository and the reports right keeps the
\* invariant: it disturbs a running tool.
LEMMA DeveloperKeeps ==
  ASSUME CoreInv, Core!Disturb, UNCHANGED <<derived, released, use>>, RepoOK', ReportsOK'
  PROVE  CoreInv'
<1> USE DisturbedEngine DEF CoreInv
<1>1. EngineOK'
  BY DEF EngineOK, Passed, Core!At
<1>2. UndisturbedOK'
  <2>1. ~eng'.disturbed => eng'.pc = 0
    OBVIOUS
  <2>2. eng'.pc = 0 => UndisturbedOK'
    BY DEF UndisturbedOK, Core!At
  <2>3. eng'.disturbed => UndisturbedOK'
    BY DEF UndisturbedOK
  <2> QED BY <2>1, <2>2, <2>3
<1>3. ReleasedOK'
  BY DEF ReleasedOK, OfItsCommit
<1>4. UseOK'
  BY DEF UseOK, Admitting
<1> QED BY <1>1, <1>2, <1>3, <1>4

\* An edit keeps the invariant.
LEMMA CoreEditKeeps == CoreInv /\ Core!Edit => CoreInv'
<1> SUFFICES ASSUME CoreInv, Core!Edit PROVE CoreInv'
  OBVIOUS
<1>1. Core!Disturb /\ UNCHANGED <<build, derived, released, use>>
  BY DEF Core!Edit
<1>2. DOMAIN repo = {"tree", "manifest", "commits", "edits"}
  BY DEF CoreInv, RepoOK, Core!InitRepo
<1>3. DOMAIN repo' = DOMAIN repo /\ repo'.commits = repo.commits
  BY <1>2 DEF Core!Edit
<1>4. RepoOK' /\ ReportsOK'
  BY <1>1, <1>3 DEF CoreInv, RepoOK, ReportsOK
<1> QED BY <1>1, <1>4, DeveloperKeeps

\* So does a commit: the commits before it stay what they are.
LEMMA CoreCommitKeeps == CoreInv /\ Core!Commit => CoreInv'
<1> SUFFICES ASSUME CoreInv, Core!Commit PROVE CoreInv'
  OBVIOUS
<1>1. Core!Disturb /\ UNCHANGED <<build, derived, released, use>>
  BY DEF Core!Commit
<1>2. DOMAIN repo = {"tree", "manifest", "commits", "edits"}
  BY DEF CoreInv, RepoOK, Core!InitRepo
<1>3. DOMAIN repo' = DOMAIN repo /\ repo'.commits = Append(repo.commits, Core!Snapshot)
  BY <1>2 DEF Core!Commit
<1>4. PICK n \in Nat : n = Len(repo.commits)
  BY DEF CoreInv, RepoOK
<1>5. /\ repo'.commits \in Seq({repo'.commits[i] : i \in DOMAIN repo'.commits})
      /\ Len(repo'.commits) = n + 1
      /\ \A i \in 1 .. n : repo'.commits[i] = repo.commits[i]
  <2>1. PICK h : h = repo.commits
    OBVIOUS
  <2>2. PICK x : x = Core!Snapshot
    OBVIOUS
  <2>3. h \in Seq({h[i] : i \in DOMAIN h})
    BY <2>1 DEF CoreInv, RepoOK
  <2>4. repo'.commits = Append(h, x) /\ n = Len(h)
    BY <1>3, <1>4, <2>1, <2>2
  <2>5. /\ Append(h, x) \in Seq({Append(h, x)[i] : i \in DOMAIN Append(h, x)})
        /\ Len(h) \in Nat /\ Len(Append(h, x)) = Len(h) + 1
        /\ Append(h, x)[Len(h) + 1] = x
        /\ \A i \in 1 .. Len(h) : Append(h, x)[i] = h[i]
    BY <2>3, OneMore, ZenonT(40)
  <2>6. \A i \in 1 .. n : repo'.commits[i] = h[i]
    BY <2>4, <2>5
  <2> QED BY <2>1, <2>4, <2>5, <2>6
<1>6. RepoOK'
  <2>1. DOMAIN repo' = DOMAIN Core!InitRepo /\ DOMAIN build' = DOMAIN Core!InitBuild
    BY <1>1, <1>3 DEF CoreInv, RepoOK
  <2>2. Len(repo'.commits) >= 1 /\ \A o \in build'.objects : o.mode \in Modes
    BY <1>1, <1>4, <1>5 DEF CoreInv, RepoOK
  <2> QED BY <1>5, <2>1, <2>2 DEF RepoOK
<1>7. ReportsOK'
  BY <1>1, <1>4, <1>5, SMTT(40) DEF CoreInv, ReportsOK
<1> QED BY <1>1, <1>6, <1>7, DeveloperKeeps

\* So do a configuration and a compilation.
LEMMA CoreBuildKeeps == CoreInv /\ (Core!Configure \/ Core!Compile) => CoreInv'
<1> SUFFICES ASSUME CoreInv, Core!Configure \/ Core!Compile PROVE CoreInv'
  OBVIOUS
<1>1. Core!Disturb /\ UNCHANGED <<repo, derived, released, use>>
  BY DEF Core!Configure, Core!Compile
<1>2. DOMAIN build = {"sha", "graph", "installs", "objects"}
  BY DEF CoreInv, RepoOK, Core!InitBuild
<1>3. DOMAIN build' = DOMAIN build /\ \A o \in build'.objects : o.mode \in Modes
  <2>1. CASE Core!Configure
    BY <1>2, <2>1 DEF Core!Configure, CoreInv, RepoOK
  <2>2. CASE Core!Compile
    <3>1. PICK m \in Modes, e \in BOOLEAN :
            build' = [build EXCEPT !.objects =
                        {[tree |-> repo.tree, sha |-> build.sha, mode |-> m,
                          empty |-> e /\ m = 755]}]
      BY <2>2, ZenonT(40) DEF Core!Compile
    <3> QED BY <1>2, <3>1
  <2> QED BY <2>1, <2>2
<1>4. RepoOK' /\ ReportsOK'
  BY <1>1, <1>3 DEF CoreInv, RepoOK, ReportsOK
<1> QED BY <1>1, <1>4, DeveloperKeeps

-----------------------------------------------------------------------------
(* What the engineer's checks establish                                    *)

\* FirstOfOk for the checks of the core release.
LEMMA CoreFirstOfOk ==
  ASSUME NEW checks, NEW n \in Nat, DOMAIN checks = 1 .. n,
         \A i \in 1 .. n : checks[i].when => checks[i].code # Ok,
         Core!FirstOf(checks) = Ok
  PROVE  \A i \in 1 .. n : ~checks[i].when
<1>1. FirstOf(checks) = Ok
  BY DEF Core!FirstOf, FirstOf, Core!Ok, Ok
<1> QED BY <1>1, FirstOfOk

\* A report is only begun over a clean tree.
LEMMA DerivationIsClean ==
  ASSUME NEW t, NEW clean \in BOOLEAN, NEW m, NEW g, Core!DeriveCode(t, clean, m, g) = Ok
  PROVE  clean
<1> DEFINE overlay == Core!LoadOverlayPolicy(t)
           export == Core!LoadInstalledExport(m)
           empty == g \cap Core!Present(t) = {}
           core == Core!AssertCoreExport(Core!Provenance(t, g))
           forbidden == Core!AssertCoreBuildGraph(g)
           closure == Core!ConfiguredLibraryClosure(m, g)
           family == Core!ClassifyForbidden(Core!Provenance(t, g))
           C == <<Core!Refuse("dirty_source", ~clean),
                  Core!Refuse(overlay, overlay # Core!Ok),
                  Core!Refuse(export, export # Core!Ok),
                  Core!Refuse("empty_graph", empty),
                  Core!Refuse("core_missing", core # Core!Ok),
                  Core!Refuse("forbidden_build_graph", forbidden # Core!Ok),
                  Core!Refuse("target_closure", closure # Core!Ok),
                  Core!Refuse("forbidden_family", family)>>
<1>1. Core!FirstOf(C) = Ok
  BY DEF Core!DeriveCode
<1> HIDE DEF overlay, export, empty, core, forbidden, closure, family
<1>2. DOMAIN C = 1 .. 8 /\ 8 \in Nat /\ \A i \in 1 .. 8 : C[i].when => C[i].code # Ok
  <2>1. DOMAIN C = 1 .. 8 /\ 8 \in Nat
    OBVIOUS
  <2>2. /\ C[1].code # Ok /\ C[4].code # Ok /\ C[5].code # Ok /\ C[6].code # Ok
        /\ C[7].code # Ok /\ C[8].code # Ok /\ C[2].code = overlay /\ C[3].code = export
    BY DEF Core!Refuse, Ok
  <2>3. (C[2].when => overlay # Ok) /\ (C[3].when => export # Ok)
    BY DEF Core!Refuse, Core!Ok, Ok
  <2> HIDE DEF C
  <2> QED BY <2>1, <2>2, <2>3
<1>3. \A i \in 1 .. 8 : ~C[i].when
  <2> HIDE DEF C
  <2> QED BY <1>1, <1>2, CoreFirstOfOk
<1>4. ~C[1].when
  <2> HIDE DEF C
  <2> QED BY <1>3
<1> QED BY <1>4 DEF Core!Refuse

\* A receipt is only begun over a clean tree and a build configured at HEAD.
LEMMA EmissionIsFresh ==
  ASSUME NEW place, NEW clean \in BOOLEAN, NEW b, NEW head,
         Core!FirstOf(<<
             Core!Refuse("prefix_local_output", Core!RequireOutOfBand(place) # Core!Ok),
             Core!Refuse("dirty_source", ~clean),
             Core!Refuse("build_identity", Core!RequireFreshBuild(b, head) # Core!Ok)>>) = Ok
  PROVE  clean /\ b.sha = head
<1> DEFINE out == Core!RequireOutOfBand(place)
           fresh == Core!RequireFreshBuild(b, head)
           C == <<Core!Refuse("prefix_local_output", out # Core!Ok),
                  Core!Refuse("dirty_source", ~clean),
                  Core!Refuse("build_identity", fresh # Core!Ok)>>
<1>1. Core!FirstOf(C) = Ok
  OBVIOUS
<1> HIDE DEF out, fresh
<1>2. DOMAIN C = 1 .. 3 /\ 3 \in Nat /\ \A i \in 1 .. 3 : C[i].when => C[i].code # Ok
  BY DEF Core!Refuse, Ok
<1>3. \A i \in 1 .. 3 : ~C[i].when
  <2> HIDE DEF C
  <2> QED BY <1>1, <1>2, CoreFirstOfOk
<1>4. ~C[2].when /\ ~C[3].when
  <2> HIDE DEF C
  <2> QED BY <1>3
<1>5. clean /\ fresh = Ok
  BY <1>4 DEF Core!Refuse, Core!Ok, Ok
<1> QED BY <1>5 DEF fresh, Core!RequireFreshBuild, Ok

\* The rows of a receipt are of the programs the manifest declares.
LEMMA RowsAreDeclared ==
  ASSUME NEW stage, NEW m, Core!RuntimeRowsCode(stage, m) = Ok
  PROVE  DOMAIN stage.bin = m.runtime
<1> DEFINE other == \E a \in DOMAIN stage.bin : stage.bin[a].kind # "file"
           C == <<Core!Refuse("artifact_closure", DOMAIN stage.bin # m.runtime),
                  Core!Refuse("non_regular", other)>>
<1>1. Core!FirstOf(C) = Ok
  BY DEF Core!RuntimeRowsCode
<1> HIDE DEF other
<1>2. DOMAIN C = 1 .. 2 /\ 2 \in Nat /\ \A i \in 1 .. 2 : C[i].when => C[i].code # Ok
  BY DEF Core!Refuse, Ok
<1>3. \A i \in 1 .. 2 : ~C[i].when
  <2> HIDE DEF C
  <2> QED BY <1>1, <1>2, CoreFirstOfOk
<1>4. ~C[1].when
  <2> HIDE DEF C
  <2> QED BY <1>3
<1> QED BY <1>4 DEF Core!Refuse

\* A verified candidate holds exactly the report's rows, nothing of a backend
\* and nothing that names the source root.
LEMMA VerifiedIsExact ==
  ASSUME NEW c, NEW r, Core!VerifyTree(c, r) = Ok
  PROVE  /\ Core!Present(c) = DOMAIN r.files
         /\ \A f \in DOMAIN r.files : c[f] = r.files[f] /\ f \notin BackendFiles
         /\ \A f \in Core!Present(c) : c[f] # "rootref"
<1> DEFINE present == Core!Present(c)
           extra == present \ DOMAIN r.files
           shape == Core!ValidateReport(r)
           foreign == Core!ClassifyForbidden(extra)
           family == Core!ClassifyForbidden(DOMAIN r.files)
           C == <<Core!Refuse(shape, shape # Core!Ok),
                  Core!Refuse("missing", ~(DOMAIN r.files \subseteq present)),
                  Core!Refuse("forbidden_family", foreign),
                  Core!Refuse("unreviewed", extra # {}),
                  Core!Refuse("forbidden_family", family),
                  Core!Refuse("stale", \E f \in DOMAIN r.files : c[f] # r.files[f]),
                  Core!Refuse("source_fallback", \E f \in present : c[f] = "rootref")>>
<1>1. Core!FirstOf(C) = Ok
  BY DEF Core!VerifyTree
<1> HIDE DEF present, extra, shape, foreign, family
<1>2. DOMAIN C = 1 .. 7 /\ 7 \in Nat /\ \A i \in 1 .. 7 : C[i].when => C[i].code # Ok
  <2>1. DOMAIN C = 1 .. 7 /\ 7 \in Nat
    OBVIOUS
  <2>2. /\ C[2].code # Ok /\ C[3].code # Ok /\ C[4].code # Ok /\ C[5].code # Ok
        /\ C[6].code # Ok /\ C[7].code # Ok /\ C[1].code = shape
    BY DEF Core!Refuse, Ok
  <2>3. C[1].when => shape # Ok
    BY DEF Core!Refuse, Core!Ok, Ok
  <2> HIDE DEF C
  <2> QED BY <2>1, <2>2, <2>3
<1>3. \A i \in 1 .. 7 : ~C[i].when
  <2> HIDE DEF C
  <2> QED BY <1>1, <1>2, CoreFirstOfOk
<1>4. ~C[2].when /\ ~C[4].when /\ ~C[5].when /\ ~C[6].when /\ ~C[7].when
  <2> HIDE DEF C
  <2> QED BY <1>3
<1>5. /\ DOMAIN r.files \subseteq present /\ extra = {} /\ ~family
      /\ \A f \in DOMAIN r.files : c[f] = r.files[f]
      /\ \A f \in present : c[f] # "rootref"
  BY <1>4 DEF Core!Refuse
<1>6. present = DOMAIN r.files
  BY <1>5 DEF extra
<1>7. \A f \in DOMAIN r.files : f \notin BackendFiles
  BY <1>5 DEF family, Core!ClassifyForbidden
<1> QED BY <1>5, <1>6, <1>7 DEF present

-----------------------------------------------------------------------------
(* The release engineer's tools                                            *)

\* A step of the engineer leaves the repository, the build and the consumer.
LEMMA EngineerKeeps ==
  ASSUME CoreInv, UNCHANGED <<repo, build, use>>, EngineOK', UndisturbedOK',
         UNCHANGED derived \/ ReportsOK', UNCHANGED released \/ (ReleasedOK' /\ UseOK')
  PROVE  CoreInv'
<1>1. RepoOK'
  BY DEF CoreInv, RepoOK
<1>2. ReportsOK'
  BY DEF CoreInv, ReportsOK
<1>3. ReleasedOK' /\ UseOK'
  <2>1. UNCHANGED released => ReleasedOK' /\ UseOK'
    BY DEF CoreInv, ReleasedOK, OfItsCommit, UseOK, Admitting
  <2> QED BY <2>1
<1> QED BY <1>1, <1>2, <1>3 DEF CoreInv

\* A tool that ends holds nothing any more, but for a candidate that passed.
LEMMA FinishKeeps ==
  ASSUME CoreInv, NEW result, Core!Finish(result),
         result = Ok /\ eng.tool = "candidate" =>
           UNCHANGED derived /\ \A c \in eng.cand, r \in derived : Passed(c, r)
  PROVE  EngineOK' /\ UndisturbedOK'
<1>1. CASE result = Ok /\ eng.tool = "candidate"
  <2>1. eng' = [eng EXCEPT !.pc = 0, !.result = Ok]
    BY <1>1 DEF Core!Finish, Core!Ok, Ok
  <2>2. DOMAIN eng = {"tool", "pc", "head", "rows", "cand", "manifest", "stage",
                      "disturbed", "result"}
    BY DEF CoreInv, EngineOK, Core!NoEngine
  <2>3. /\ DOMAIN eng' = DOMAIN eng /\ eng'.pc = 0 /\ eng'.cand = eng.cand
        /\ eng'.stage = eng.stage
    BY <2>1, <2>2
  <2>4. EngineOK'
    BY <1>1, <2>3 DEF CoreInv, EngineOK, Passed, Core!At
  <2>5. UndisturbedOK'
    BY <2>3 DEF UndisturbedOK, Core!At
  <2> QED BY <2>4, <2>5
<1>2. CASE ~(result = Ok /\ eng.tool = "candidate")
  <2>1. eng' = Core!NoEngine
    BY <1>2 DEF Core!Finish, Core!Ok, Ok
  <2>2. /\ DOMAIN eng' = DOMAIN Core!NoEngine /\ eng'.pc = 0 /\ eng'.cand = {}
        /\ eng'.stage = {} /\ eng'.result # Ok
    BY <2>1 DEF Core!NoEngine, Ok
  <2>3. EngineOK' /\ UndisturbedOK'
    BY <2>2 DEF EngineOK, UndisturbedOK, Core!At
  <2> QED BY <2>3
<1> QED BY <1>1, <1>2

\* A tool that goes on has no result yet.
LEMMA RunningTool ==
  ASSUME CoreInv, eng.pc # 0
  PROVE  /\ eng.result # Ok
         /\ DOMAIN eng = {"tool", "pc", "head", "rows", "cand", "manifest", "stage",
                          "disturbed", "result"}
BY DEF CoreInv, EngineOK, Core!NoEngine

\* Starting a tool keeps the invariant.
LEMMA StartKeeps == ASSUME CoreInv, NEW tool, Core!Start(tool) PROVE CoreInv'
<1>1. UNCHANGED <<repo, build, use, derived, released>>
  BY DEF Core!Start
<1>2. eng' = [Core!NoEngine EXCEPT !.tool = tool, !.pc = 1]
  BY DEF Core!Start
<1>3. /\ DOMAIN eng' = DOMAIN Core!NoEngine /\ eng'.pc = 1 /\ eng'.cand = {}
      /\ eng'.stage = {} /\ eng'.result # Ok
  BY <1>2 DEF Core!NoEngine, Ok
<1>4. EngineOK' /\ UndisturbedOK'
  BY <1>3 DEF EngineOK, UndisturbedOK, Core!At
<1> QED BY <1>1, <1>4, EngineerKeeps

\* derive_report begins over a clean tree.
LEMMA DeriveBeginKeeps == CoreInv /\ Core!DeriveBegin => CoreInv'
<1> SUFFICES ASSUME CoreInv, Core!DeriveBegin PROVE CoreInv'
  OBVIOUS
<1>1. UNCHANGED <<repo, build, use, derived, released>> /\ eng.tool = "derive" /\ eng.pc = 1
  BY DEF Core!DeriveBegin, Core!At
<1> DEFINE code == Core!DeriveCode(repo.tree, Core!Clean, repo.manifest, build.graph)
<1>2. CASE Core!Finish(code)
  BY <1>1, <1>2, FinishKeeps, EngineerKeeps
<1>3. CASE code = Ok /\ eng' = [[eng EXCEPT !.manifest = {repo.manifest}] EXCEPT !.pc = @ + 1]
  <2>1. /\ DOMAIN eng' = DOMAIN eng /\ eng'.tool = "derive" /\ eng'.pc = 2
        /\ eng'.cand = eng.cand /\ eng'.stage = eng.stage /\ eng'.result # Ok
    BY <1>1, <1>3, RunningTool
  <2>2. Core!Clean
    BY <1>3, DerivationIsClean DEF Core!Clean
  <2>3. EngineOK'
    BY <2>1 DEF CoreInv, EngineOK, Core!At
  <2>4. UndisturbedOK'
    BY <1>1, <2>1, <2>2 DEF UndisturbedOK, Core!At, Core!Clean, Core!HeadIndex, Core!Snapshot
  <2> QED BY <1>1, <2>3, <2>4, EngineerKeeps
<1>4. \/ Core!Finish(code)
      \/ code = Ok /\ eng' = [[eng EXCEPT !.manifest = {repo.manifest}] EXCEPT !.pc = @ + 1]
  BY DEF Core!DeriveBegin, Core!Goto, Core!Ok, Ok
<1> QED BY <1>2, <1>3, <1>4

\* It takes the identities of the files of the tree.
LEMMA DeriveIdentitiesKeeps == CoreInv /\ Core!DeriveIdentities => CoreInv'
<1> SUFFICES ASSUME CoreInv, Core!DeriveIdentities PROVE CoreInv'
  OBVIOUS
<1>1. UNCHANGED <<repo, build, use, derived, released>> /\ eng.tool = "derive" /\ eng.pc = 2
  BY DEF Core!DeriveIdentities, Core!At
<1> DEFINE rows == Core!Rows(repo.tree, Core!Provenance(repo.tree, build.graph))
<1>2. eng' = [[eng EXCEPT !.rows = {rows}] EXCEPT !.pc = @ + 1]
  BY DEF Core!DeriveIdentities, Core!Goto
<1>3. /\ DOMAIN eng' = DOMAIN eng /\ eng'.tool = "derive" /\ eng'.pc = 3
      /\ eng'.cand = eng.cand /\ eng'.stage = eng.stage /\ eng'.result # Ok
      /\ eng'.disturbed = eng.disturbed /\ eng'.rows = {rows}
  BY <1>1, <1>2, RunningTool
<1>4. \A f \in DOMAIN rows : rows[f] = repo.tree[f]
  BY DEF Core!Rows
<1>5. EngineOK'
  BY <1>3 DEF CoreInv, EngineOK, Core!At
<1>6. UndisturbedOK'
  <2>1. ~eng'.disturbed => Core!Clean'
    BY <1>1, <1>3 DEF CoreInv, UndisturbedOK, Core!Clean, Core!HeadIndex, Core!Snapshot
  <2>2. \A rs \in eng'.rows : \A f \in DOMAIN rs : rs[f] = repo'.tree[f]
    BY <1>1, <1>3, <1>4
  <2> QED BY <1>3, <2>1, <2>2 DEF UndisturbedOK, Core!At
<1> QED BY <1>1, <1>5, <1>6, EngineerKeeps

\* The report it writes names the files of its commit.
LEMMA DeriveFinishKeeps == CoreInv /\ Core!DeriveFinish => CoreInv'
<1> SUFFICES ASSUME CoreInv, Core!DeriveFinish PROVE CoreInv'
  OBVIOUS
<1>1. UNCHANGED <<repo, build, use, released>> /\ eng.tool = "derive" /\ eng.pc = 3
  BY DEF Core!DeriveFinish, Core!At
<1>2. PICK rows, result, new :
        /\ rows \in eng.rows
        /\ new = [files |-> rows, digest |-> rows, head |-> Core!HeadIndex,
                  disturbed |-> eng.disturbed]
        /\ derived' = {new} \/ derived' = derived
        /\ Core!Finish(result)
  BY DEF Core!DeriveFinish
<1>3. EngineOK' /\ UndisturbedOK'
  BY <1>1, <1>2, FinishKeeps
<1>4. UNCHANGED derived \/ ReportsOK'
  <2>1. ASSUME derived' = {new} PROVE ReportsOK'
    <3>1. new.head \in 1 .. Len(repo.commits)
      <4>1. PICK n \in Nat : n = Len(repo.commits)
        BY DEF CoreInv, RepoOK
      <4> QED BY <1>2, <4>1 DEF CoreInv, RepoOK, Core!HeadIndex
    <3>2. ~new.disturbed => \A f \in DOMAIN rows : rows[f] = repo.commits[new.head].tree[f]
      <4>1. ASSUME ~eng.disturbed
            PROVE  Core!Clean /\ \A f \in DOMAIN rows : rows[f] = repo.tree[f]
        BY <1>1, <1>2, <4>1 DEF CoreInv, UndisturbedOK, Core!At
      <4> QED BY <1>2, <4>1 DEF Core!Clean, Core!HeadIndex, Core!Snapshot
    <3> QED BY <1>1, <1>2, <2>1, <3>1, <3>2 DEF ReportsOK
  <2> QED BY <1>2, <2>1
<1> QED BY <1>1, <1>3, <1>4, EngineerKeeps

\* check_candidate copies the files of the report.
LEMMA CandidateCopyKeeps == CoreInv /\ Core!CandidateCopy => CoreInv'
<1> SUFFICES ASSUME CoreInv, Core!CandidateCopy PROVE CoreInv'
  OBVIOUS
<1>1. /\ UNCHANGED <<repo, build, use, derived, released>>
      /\ eng.tool = "candidate" /\ eng.pc = 1
  BY DEF Core!CandidateCopy, Core!At
<1>2. PICK r : eng' = [[eng EXCEPT !.cand = {Core!CopyCandidate(repo.tree, r)}] EXCEPT !.pc = @ + 1]
  BY DEF Core!CandidateCopy, Core!Goto
<1>3. /\ DOMAIN eng' = DOMAIN eng /\ eng'.tool = "candidate" /\ eng'.pc = 2
      /\ \A c, d \in eng'.cand : c = d
  BY <1>1, <1>2, RunningTool
<1>4. eng'.stage = eng.stage /\ eng'.result # Ok
  BY <1>1, <1>2, RunningTool
<1>5. EngineOK'
  BY <1>3, <1>4 DEF CoreInv, EngineOK, Core!At
<1>6. UndisturbedOK'
  BY <1>3 DEF UndisturbedOK, Core!At
<1> QED BY <1>1, <1>5, <1>6, EngineerKeeps

\* It verifies the candidate before and after its build.
LEMMA CandidateVerifyKeeps == CoreInv /\ Core!CandidateVerify => CoreInv'
<1> SUFFICES ASSUME CoreInv, Core!CandidateVerify PROVE CoreInv'
  OBVIOUS
<1>1. /\ UNCHANGED <<repo, build, use, derived, released>>
      /\ eng.tool = "candidate" /\ eng.pc \in {2, 4}
  BY DEF Core!CandidateVerify
<1>2. PICK r \in derived, c \in eng.cand :
        IF Core!VerifyTree(c, r) # Core!Ok THEN Core!Finish(Core!VerifyTree(c, r))
        ELSE IF eng.pc = 4 THEN Core!Finish(Core!Ok) ELSE Core!Goto(eng)
  BY DEF Core!CandidateVerify
<1>3. CASE Core!VerifyTree(c, r) # Ok
  <2>1. Core!Finish(Core!VerifyTree(c, r))
    BY <1>2, <1>3 DEF Core!Ok, Ok
  <2> QED BY <1>1, <1>3, <2>1, FinishKeeps, EngineerKeeps
<1>4. CASE Core!VerifyTree(c, r) = Ok /\ eng.pc = 4
  <2>1. Core!Finish(Ok)
    BY <1>2, <1>4 DEF Core!Ok, Ok
  <2>2. Passed(c, r)
    BY <1>1, <1>4 DEF Passed, CoreInv, EngineOK, Core!At
  <2>3. \A d \in eng.cand, q \in derived : Passed(d, q)
    <3>1. \A d \in eng.cand : d = c
      BY DEF CoreInv, EngineOK
    <3>2. \A q \in derived : q = r
      BY DEF CoreInv, ReportsOK
    <3> QED BY <2>2, <3>1, <3>2
  <2>4. EngineOK' /\ UndisturbedOK'
    BY <1>1, <2>1, <2>3, FinishKeeps
  <2> QED BY <1>1, <2>4, EngineerKeeps
<1>5. CASE Core!VerifyTree(c, r) = Ok /\ eng.pc = 2
  <2>1. eng' = [eng EXCEPT !.pc = @ + 1]
    BY <1>2, <1>5 DEF Core!Goto, Core!Ok, Ok
  <2>2. /\ DOMAIN eng' = DOMAIN eng /\ eng'.tool = "candidate" /\ eng'.pc = 3
        /\ eng'.cand = eng.cand /\ eng'.stage = eng.stage /\ eng'.result # Ok
    BY <1>1, <1>5, <2>1, RunningTool
  <2>3. EngineOK' /\ UndisturbedOK'
    BY <2>2 DEF CoreInv, EngineOK, UndisturbedOK, Core!At
  <2> QED BY <1>1, <2>3, EngineerKeeps
<1> QED BY <1>1, <1>3, <1>4, <1>5

\* The build leaves every required file of the candidate in place.
LEMMA CandidateBuildKeeps == CoreInv /\ Core!CandidateBuild => CoreInv'
<1> SUFFICES ASSUME CoreInv, Core!CandidateBuild PROVE CoreInv'
  OBVIOUS
<1>1. /\ UNCHANGED <<repo, build, use, derived, released>>
      /\ eng.tool = "candidate" /\ eng.pc = 3
  BY DEF Core!CandidateBuild, Core!At
<1>2. CASE Core!Finish("command")
  <2>1. EngineOK' /\ UndisturbedOK'
    BY <1>2, FinishKeeps DEF Ok
  <2> QED BY <1>1, <2>1, EngineerKeeps
<1>3. CASE ~Core!Finish("command")
  <2>1. PICK c \in eng.cand :
          /\ Required \subseteq Core!Present(c)
          /\ \E left \in {c} \cup {[c EXCEPT ![f] = "v2"] : f \in CoreFiles} :
               Core!Goto([eng EXCEPT !.cand = {left}])
    BY <1>3 DEF Core!CandidateBuild
  <2>2. PICK left \in {c} \cup {[c EXCEPT ![f] = "v2"] : f \in CoreFiles} :
          eng' = [[eng EXCEPT !.cand = {left}] EXCEPT !.pc = @ + 1]
    BY <2>1 DEF Core!Goto
  <2>3. Required \subseteq Core!Present(left)
    <3>1. Core!Present(c) \subseteq Core!Present(left)
      BY DEF Core!Present, Core!Absent
    <3> QED BY <2>1, <3>1
  <2>4. /\ DOMAIN eng' = DOMAIN eng /\ eng'.tool = "candidate" /\ eng'.pc = 4
        /\ eng'.cand = {left} /\ eng'.stage = eng.stage /\ eng'.result # Ok
    BY <1>1, <2>2, RunningTool
  <2>5. EngineOK'
    BY <2>3, <2>4 DEF CoreInv, EngineOK, Core!At, Core!Present
  <2>6. UndisturbedOK'
    BY <2>4 DEF UndisturbedOK, Core!At
  <2> QED BY <1>1, <2>5, <2>6, EngineerKeeps
<1> QED BY <1>2, <1>3

\* emit begins over a clean tree and a build configured at HEAD.
LEMMA EmitBeginKeeps == ASSUME CoreInv, NEW place, Core!EmitBegin(place) PROVE CoreInv'
<1>1. UNCHANGED <<repo, build, use, derived, released>> /\ eng.tool = "emit" /\ eng.pc = 1
  BY DEF Core!EmitBegin, Core!At
<1> DEFINE code == Core!FirstOf(<<
             Core!Refuse("prefix_local_output", Core!RequireOutOfBand(place) # Core!Ok),
             Core!Refuse("dirty_source", ~Core!Clean),
             Core!Refuse("build_identity",
                         Core!RequireFreshBuild(build, Core!HeadIndex) # Core!Ok)>>)
<1>2. \/ Core!Finish(code)
      \/ code = Ok /\ eng' = [[eng EXCEPT !.head = Core!HeadIndex] EXCEPT !.pc = @ + 1]
  BY DEF Core!EmitBegin, Core!Goto, Core!Ok, Ok
<1>3. CASE Core!Finish(code)
  <2> HIDE DEF code
  <2> QED BY <1>1, <1>3, FinishKeeps, EngineerKeeps
<1>4. CASE code = Ok /\ eng' = [[eng EXCEPT !.head = Core!HeadIndex] EXCEPT !.pc = @ + 1]
  <2>1. /\ DOMAIN eng' = DOMAIN eng /\ eng'.tool = "emit" /\ eng'.pc = 2
        /\ eng'.cand = eng.cand /\ eng'.stage = eng.stage /\ eng'.result # Ok
        /\ eng'.head = Core!HeadIndex
    BY <1>1, <1>4, RunningTool
  <2>2. Core!Clean \in BOOLEAN
    BY DEF Core!Clean
  <2>3. Core!Clean /\ build.sha = Core!HeadIndex
    BY <1>4, <2>2, EmissionIsFresh
  <2>4. EngineOK'
    BY <2>1 DEF CoreInv, EngineOK, Core!At
  <2>5. UndisturbedOK'
    BY <1>1, <2>1, <2>3 DEF UndisturbedOK, Core!At, Core!Clean, Core!HeadIndex, Core!Snapshot
  <2> QED BY <1>1, <2>4, <2>5, EngineerKeeps
<1> QED BY <1>2, <1>3, <1>4

\* The stage is an install of what was built.
LEMMA EmitStageKeeps == CoreInv /\ Core!EmitStage => CoreInv'
<1> SUFFICES ASSUME CoreInv, Core!EmitStage PROVE CoreInv'
  OBVIOUS
<1>1. UNCHANGED <<repo, build, use, derived, released>> /\ eng.tool = "emit" /\ eng.pc = 2
  BY DEF Core!EmitStage, Core!At
<1>2. CASE Core!Finish("install")
  <2>1. EngineOK' /\ UndisturbedOK'
    BY <1>2, FinishKeeps DEF Ok
  <2> QED BY <1>1, <2>1, EngineerKeeps
<1>3. CASE ~Core!Finish("install")
  <2>1. PICK o \in build.objects :
          eng' = [[eng EXCEPT !.manifest = {repo.manifest}, !.stage = {Core!Install(o)}]
                    EXCEPT !.pc = @ + 1]
    BY <1>3 DEF Core!EmitStage, Core!Goto
  <2>2. /\ DOMAIN eng' = DOMAIN eng /\ eng'.tool = "emit" /\ eng'.pc = 3
        /\ eng'.cand = eng.cand /\ eng'.result # Ok /\ eng'.head = eng.head
        /\ eng'.manifest = {repo.manifest} /\ eng'.stage = {Core!Install(o)}
        /\ eng'.disturbed = eng.disturbed
    BY <1>1, <2>1, RunningTool
  <2>3. \A a \in DOMAIN Core!Install(o).bin : Core!Install(o).bin[a].mode \in Modes
    BY DEF CoreInv, RepoOK, Core!Install, Core!Program
  <2>4. EngineOK'
    BY <2>2, <2>3 DEF CoreInv, EngineOK, Core!At
  <2>5. ~eng.disturbed => repo.commits[eng.head] = Core!Snapshot /\ build.sha = eng.head
    BY <1>1 DEF CoreInv, UndisturbedOK
  <2>6. /\ repo' = repo /\ build' = build /\ Core!Snapshot' = Core!Snapshot
        /\ Core!Install(o)' = Core!Install(o)
    BY <1>1 DEF Core!Snapshot, Core!Install, Core!Program
  <2>7. UndisturbedOK'
    <3>1. \A s \in eng'.stage : \E p \in build'.objects : s = Core!Install(p)'
      BY <2>2, <2>6
    <3> QED BY <2>2, <2>5, <2>6, <3>1 DEF UndisturbedOK, Core!At
  <2> QED BY <1>1, <2>4, <2>7, EngineerKeeps
<1> QED BY <1>2, <1>3

\* A receipt is written of the staged programs.
LEMMA EmitWriteKeeps == CoreInv /\ Core!EmitWrite => CoreInv'
<1> SUFFICES ASSUME CoreInv, Core!EmitWrite PROVE CoreInv'
  OBVIOUS
<1>1. UNCHANGED <<repo, build, use, derived>> /\ eng.tool = "emit" /\ eng.pc = 3
  BY DEF Core!EmitWrite, Core!At
<1>2. PICK s \in eng.stage, m \in eng.manifest, t \in Platforms :
        LET refused == \/ Core!VerifyInstalledManifestCopy(s, repo.manifest) # Core!Ok
                       \/ Core!RuntimeRowsCode(s, m) # Core!Ok
            body == [commit |-> eng.head, target |-> t, export |-> repo.manifest,
                     rows |-> Core!RuntimeRows(s)]
            new == [receipt |-> Core!Seal(body), stage |-> s,
                    of |-> repo.commits[eng.head],
                    rebuilt |-> ~eng.disturbed /\ \A o \in build.objects :
                                    o.tree = repo.tree /\ o.sha = build.sha]
        IN  IF refused THEN Core!Finish("refused") /\ UNCHANGED released
            ELSE released' = released \cup {new} /\ Core!Finish(Core!Ok)
  BY DEF Core!EmitWrite
<1> DEFINE body == [commit |-> eng.head, target |-> t, export |-> repo.manifest,
                    rows |-> Core!RuntimeRows(s)]
           rebuilt == ~eng.disturbed /\ \A o \in build.objects :
                          o.tree = repo.tree /\ o.sha = build.sha
           new == [receipt |-> Core!Seal(body), stage |-> s,
                   of |-> repo.commits[eng.head], rebuilt |-> rebuilt]
<1>3. \/ Core!Finish("refused") /\ UNCHANGED released
      \/ /\ Core!RuntimeRowsCode(s, m) = Ok
         /\ released' = released \cup {new} /\ Core!Finish(Core!Ok)
  BY <1>2 DEF Core!Ok, Ok
<1>4. EngineOK' /\ UndisturbedOK'
  BY <1>1, <1>3, FinishKeeps
<1>5. ASSUME Core!RuntimeRowsCode(s, m) = Ok, released' = released \cup {new}
      PROVE  ReleasedOK' /\ UseOK'
  <2>1. DOMAIN s.bin = m.runtime
    BY <1>5, RowsAreDeclared
  <2>2. /\ new.receipt.body = body /\ new.stage = s /\ new.of = repo.commits[eng.head]
        /\ new.rebuilt = rebuilt
    BY DEF Core!Seal
  <2>3. DOMAIN Core!RuntimeRows(s) = DOMAIN s.bin
    BY DEF Core!RuntimeRows
  <2>4. body.rows = Core!RuntimeRows(s) /\ body.commit = eng.head
    OBVIOUS
  <2>5. ASSUME rebuilt PROVE OfItsCommit(new)
    <3>1. /\ repo.commits[eng.head] = Core!Snapshot /\ build.sha = eng.head
          /\ m = repo.manifest /\ \E o \in build.objects : s = Core!Install(o)
      BY <1>1, <2>5 DEF CoreInv, UndisturbedOK, Core!At
    <3>2. PICK o \in build.objects : s = Core!Install(o)
      BY <3>1
    <3>3. o.tree = repo.tree /\ o.sha = build.sha
      BY <2>5, <3>2
    <3>4. repo.commits[eng.head].tree = repo.tree /\ repo.commits[eng.head].manifest = repo.manifest
      BY <3>1 DEF Core!Snapshot
    <3>5. \A a \in DOMAIN s.bin : s.bin[a].bytes.tree = o.tree /\ s.bin[a].bytes.sha = o.sha
      BY <3>2 DEF Core!Install, Core!Program
    <3> HIDE DEF new, body
    <3>6. DOMAIN new.receipt.body.rows = new.of.manifest.runtime
      BY <2>1, <2>2, <2>3, <2>4, <3>1, <3>4
    <3>7. \A a \in DOMAIN new.stage.bin :
            /\ new.stage.bin[a].bytes.tree = new.of.tree
            /\ new.stage.bin[a].bytes.sha = new.receipt.body.commit
      BY <2>2, <2>4, <3>1, <3>3, <3>4, <3>5
    <3> QED BY <3>6, <3>7 DEF OfItsCommit
  <2>6. \A a \in DOMAIN s.bin : s.bin[a].mode \in Modes
    BY DEF CoreInv, EngineOK
  <2> HIDE DEF new, body, rebuilt
  <2>7. /\ new.receipt.body.rows = Core!RuntimeRows(new.stage)
        /\ \A a \in DOMAIN new.stage.bin : new.stage.bin[a].mode \in Modes
        /\ new.rebuilt => OfItsCommit(new)
    BY <2>2, <2>4, <2>5, <2>6
  <2>8. ReleasedOK'
    BY <1>5, <2>7 DEF CoreInv, ReleasedOK
  <2>9. UseOK'
    BY <1>1, <1>5 DEF CoreInv, UseOK, Admitting
  <2> QED BY <2>8, <2>9
<1>6. UNCHANGED released \/ (ReleasedOK' /\ UseOK')
  <2> HIDE DEF new
  <2> QED BY <1>3, <1>5
<1> QED BY <1>1, <1>4, <1>6, EngineerKeeps

-----------------------------------------------------------------------------
(* The consumer                                                            *)

\* An accepted receipt lies and leads outside the prefix, and is for the
\* platform the consumer says it runs on.
LEMMA AcceptedReceipt ==
  ASSUME NEW receipt, NEW place, NEW platform, NEW pin, NEW m,
         Core!AdmitReceipt(receipt, place, platform, pin, m) = Ok
  PROVE  /\ "prefix" \notin {place.literal, place.resolved}
         /\ receipt.body.target = platform
<1> DEFINE inside == Core!RefuseInPrefixReceipt(place)
           shape == Core!ValidateReceiptShape(receipt)
           seal == Core!VerifyReceiptDigest(receipt)
           pinned == pin # {} /\ receipt.digest \notin pin
           for == Core!ConsumingPlatform(platform, receipt)
           export == Core!DeclaredRuntimePaths(m, receipt)
           C == <<Core!Refuse("receipt.inside_prefix", inside # Core!Ok),
                  Core!Refuse("receipt.shape", shape # Core!Ok),
                  Core!Refuse("receipt.digest_mismatch", seal # Core!Ok),
                  Core!Refuse("receipt.pin_mismatch", pinned),
                  Core!Refuse("platform", for # Core!Ok),
                  Core!Refuse("export", export # Core!Ok)>>
<1>1. Core!FirstOf(C) = Ok
  BY DEF Core!AdmitReceipt
<1> HIDE DEF inside, shape, seal, pinned, for, export
<1>2. DOMAIN C = 1 .. 6 /\ 6 \in Nat /\ \A i \in 1 .. 6 : C[i].when => C[i].code # Ok
  <2>1. DOMAIN C = 1 .. 6 /\ 6 \in Nat
    OBVIOUS
  <2>2. /\ C[1].code # Ok /\ C[2].code # Ok /\ C[3].code # Ok /\ C[4].code # Ok
        /\ C[5].code # Ok /\ C[6].code # Ok
    BY DEF Core!Refuse, Ok
  <2> HIDE DEF C
  <2> QED BY <2>1, <2>2
<1>3. \A i \in 1 .. 6 : ~C[i].when
  <2> HIDE DEF C
  <2> QED BY <1>1, <1>2, CoreFirstOfOk
<1>4. ~C[1].when /\ ~C[5].when
  <2> HIDE DEF C
  <2> QED BY <1>3
<1>5. inside = Ok /\ for = Ok
  BY <1>4 DEF Core!Refuse, Core!Ok, Ok
<1>6. "prefix" \notin {place.literal, place.resolved}
  BY <1>5 DEF inside, Core!RefuseInPrefixReceipt, Ok
<1>7. receipt.body.target = platform
  BY <1>5 DEF for, Core!ConsumingPlatform, Ok
<1> QED BY <1>6, <1>7

\* An admitted artifact is a regular file with the recorded mode and bytes.
LEMMA AdmittedArtifact ==
  ASSUME NEW bin, NEW receipt, NEW a, Core!AdmitArtifact(bin, receipt, a) = Ok
  PROVE  /\ a \in DOMAIN bin /\ bin[a].kind = "file"
         /\ bin[a].mode = receipt.body.rows[a].mode
         /\ bin[a].bytes = receipt.body.rows[a].sha
<1> DEFINE empty == bin[a].bytes.empty
           mode == bin[a].mode # receipt.body.rows[a].mode
           plain == ~Core!Executable(receipt.body.rows[a].mode)
           bytes == bin[a].bytes # receipt.body.rows[a].sha
           C == <<Core!Refuse("artifact.empty", empty),
                  Core!Refuse("artifact.mode_mismatch", mode),
                  Core!Refuse("artifact.not_executable", plain),
                  Core!Refuse("artifact.digest_mismatch", bytes)>>
<1>1. a \in DOMAIN bin /\ bin[a].kind = "file" /\ Core!FirstOf(C) = Ok
  BY DEF Core!AdmitArtifact, Ok
<1> HIDE DEF empty, mode, plain, bytes
<1>2. DOMAIN C = 1 .. 4 /\ 4 \in Nat /\ \A i \in 1 .. 4 : C[i].when => C[i].code # Ok
  BY DEF Core!Refuse, Ok
<1>3. \A i \in 1 .. 4 : ~C[i].when
  <2> HIDE DEF C
  <2> QED BY <1>1, <1>2, CoreFirstOfOk
<1>4. ~C[2].when /\ ~C[4].when
  <2> HIDE DEF C
  <2> QED BY <1>3
<1>5. ~mode /\ ~bytes
  BY <1>4 DEF Core!Refuse
<1> QED BY <1>1, <1>5 DEF mode, bytes

\* A step of the consumer leaves the producer.
LEMMA ConsumerKeeps ==
  ASSUME CoreInv, UNCHANGED <<repo, build, eng, derived, released>>, UseOK'
  PROVE  CoreInv'
<1>1. RepoOK' /\ ReportsOK' /\ EngineOK' /\ ReleasedOK'
  BY DEF CoreInv, RepoOK, ReportsOK, EngineOK, Passed, Core!At, ReleasedOK, OfItsCommit
<1>2. UndisturbedOK'
  BY DEF CoreInv, UndisturbedOK, Core!At, Core!Clean, Core!HeadIndex, Core!Snapshot,
         Core!Install, Core!Program
<1> QED BY <1>1, <1>2 DEF CoreInv

\* The fields of the consumer's state.
LEMMA UseFields ==
  CoreInv => DOMAIN use = {"prefix", "from", "tampers", "pc", "todo", "receipt",
                           "platform", "place", "disturbed"}
BY DEF CoreInv, UseOK, Core!NoUse

\* A tampered prefix disturbs an admission, running or over.
LEMMA TamperKeeps == CoreInv /\ Core!Tamper => CoreInv'
<1> SUFFICES ASSUME CoreInv, Core!Tamper PROVE CoreInv'
  OBVIOUS
<1>1. UNCHANGED <<repo, build, eng, derived, released>>
  BY DEF Core!Tamper
<1>2. PICK p, bin :
        use' = [use EXCEPT !.prefix = {[p EXCEPT !.bin = bin]}, !.from = {},
                           !.tampers = @ + 1,
                           !.disturbed = @ \/ use.pc # "idle"]
  BY DEF Core!Tamper
<1>3. /\ DOMAIN use' = DOMAIN use /\ use'.prefix = {[p EXCEPT !.bin = bin]}
      /\ use'.pc = use.pc /\ (use.pc # "idle" => use'.disturbed)
  BY <1>2, UseFields
<1>4. UseOK'
  BY <1>3 DEF CoreInv, UseOK
<1> QED BY <1>1, <1>4, ConsumerKeeps

\* An admission begins against a receipt of the producer.
LEMMA AdmitBeginKeeps == CoreInv /\ Core!AdmitBegin => CoreInv'
<1> SUFFICES ASSUME CoreInv, Core!AdmitBegin PROVE CoreInv'
  OBVIOUS
<1>1. UNCHANGED <<repo, build, eng, derived, released>>
  BY DEF Core!AdmitBegin
<1>2. PICK p \in use.prefix, place \in Core!Places, t \in Platforms \cup {Core!Absent} :
      \E receipt \in IF "prefix" \in {place.literal, place.resolved}
                     THEN {Core!SelfMade(p)} ELSE {r.receipt : r \in released} :
      \E m \in p.manifest :
        LET code == Core!AdmitReceipt(receipt, place, t, {}, m)
        IN  use' = [use EXCEPT !.pc = IF code = Core!Ok THEN "artifacts" ELSE "refused",
                               !.todo = IF code = Core!Ok THEN DOMAIN receipt.body.rows ELSE {},
                               !.receipt = {receipt}, !.platform = t, !.place = {place},
                               !.disturbed = FALSE]
  BY DEF Core!AdmitBegin
<1>3. PICK receipt, m :
        /\ "prefix" \notin {place.literal, place.resolved} =>
             \E r \in released : receipt = r.receipt
        /\ LET code == Core!AdmitReceipt(receipt, place, t, {}, m)
           IN  use' = [use EXCEPT !.pc = IF code = Ok THEN "artifacts" ELSE "refused",
                                  !.todo = IF code = Ok THEN DOMAIN receipt.body.rows ELSE {},
                                  !.receipt = {receipt}, !.platform = t, !.place = {place},
                                  !.disturbed = FALSE]
  BY <1>2 DEF Core!Ok, Ok
<1> DEFINE code == Core!AdmitReceipt(receipt, place, t, {}, m)
<1>4. /\ DOMAIN use' = DOMAIN use /\ use'.prefix = use.prefix
      /\ use'.receipt = {receipt} /\ use'.platform = t
      /\ use'.pc = (IF code = Ok THEN "artifacts" ELSE "refused")
      /\ use'.todo = (IF code = Ok THEN DOMAIN receipt.body.rows ELSE {})
  <2> HIDE DEF code
  <2>1. use' = [use EXCEPT !.pc = IF code = Ok THEN "artifacts" ELSE "refused",
                           !.todo = IF code = Ok THEN DOMAIN receipt.body.rows ELSE {},
                           !.receipt = {receipt}, !.platform = t, !.place = {place},
                           !.disturbed = FALSE]
    BY <1>3 DEF code
  <2> QED BY <2>1, UseFields
<1>5. use.prefix # {} /\ \A q, o \in use.prefix : q = o
  BY <1>2 DEF CoreInv, UseOK
<1>6. DOMAIN use' = DOMAIN Core!NoUse
  BY <1>4 DEF CoreInv, UseOK
<1>7. CASE code = Ok
  <2>1. receipt.body.target = t /\ \E r \in released : receipt = r.receipt
    BY <1>3, <1>7, AcceptedReceipt
  <2>2. PICK r \in released : receipt = r.receipt
    BY <2>1
  <2> HIDE DEF code
  <2>3. use'.todo = DOMAIN r.receipt.body.rows /\ use'.pc = "artifacts"
    BY <1>4, <1>7, <2>2
  <2>4. Admitting(r)'
    BY <1>4, <2>1, <2>2, <2>3 DEF Admitting
  <2>5. \E q \in released' : Admitting(q)'
    BY <1>1, <2>4
  <2>6. UseOK'
    BY <1>4, <1>5, <1>6, <2>5 DEF UseOK
  <2> QED BY <1>1, <2>6, ConsumerKeeps
<1>8. CASE code # Ok
  <2> HIDE DEF code
  <2>1. use'.pc = "refused"
    BY <1>4, <1>8
  <2>2. UseOK'
    BY <1>4, <1>5, <1>6, <2>1 DEF UseOK
  <2> QED BY <1>1, <2>2, ConsumerKeeps
<1> QED BY <1>7, <1>8

\* It goes through the artifacts of the receipt.
LEMMA AdmitOneKeeps == CoreInv /\ Core!AdmitOne => CoreInv'
<1> SUFFICES ASSUME CoreInv, Core!AdmitOne PROVE CoreInv'
  OBVIOUS
<1>1. UNCHANGED <<repo, build, eng, derived, released>> /\ use.pc = "artifacts"
  BY DEF Core!AdmitOne
<1>2. PICK a \in use.todo, p \in use.prefix, receipt \in use.receipt :
        use' = IF Core!AdmitArtifact(p.bin, receipt, a) = Ok
               THEN [use EXCEPT !.todo = @ \ {a}]
               ELSE [use EXCEPT !.pc = "refused", !.todo = {}]
  BY DEF Core!AdmitOne, Core!Ok, Ok
<1>3. /\ DOMAIN use' = DOMAIN use /\ use'.prefix = use.prefix
      /\ use'.receipt = use.receipt /\ use'.platform = use.platform
      /\ use'.disturbed = use.disturbed
  BY <1>2, UseFields
<1>4. DOMAIN use' = DOMAIN Core!NoUse /\ use.prefix # {} /\ \A q, o \in use.prefix : q = o
  BY <1>1, <1>3 DEF CoreInv, UseOK
<1>5. CASE Core!AdmitArtifact(p.bin, receipt, a) = Ok
  <2>1. use'.pc = use.pc /\ use'.todo = use.todo \ {a}
    BY <1>2, <1>5, UseFields
  <2>2. ASSUME ~use.disturbed PROVE \E r \in released' : Admitting(r)'
    <3>1. PICK r \in released : Admitting(r)
      BY <1>1, <2>2 DEF CoreInv, UseOK
    <3>2. receipt = r.receipt
      BY <3>1 DEF Admitting
    <3>3. \A q \in use'.prefix : \A x \in DOMAIN r.receipt.body.rows :
            x \in use'.todo \/ Core!AdmitArtifact(q.bin, r.receipt, x) = Ok
      BY <1>3, <1>4, <1>5, <2>1, <3>1, <3>2 DEF Admitting
    <3>4. Admitting(r)'
      BY <1>1, <1>3, <2>1, <3>1, <3>3 DEF Admitting
    <3> QED BY <1>1, <3>4
  <2>3. UseOK'
    BY <1>3, <1>4, <2>2 DEF UseOK
  <2> QED BY <1>1, <2>3, ConsumerKeeps
<1>6. CASE Core!AdmitArtifact(p.bin, receipt, a) # Ok
  <2>1. use'.pc = "refused"
    BY <1>2, <1>6, UseFields
  <2>2. UseOK'
    BY <1>3, <1>4, <2>1 DEF UseOK
  <2> QED BY <1>1, <2>2, ConsumerKeeps
<1> QED BY <1>5, <1>6

\* It ends with no program the receipt does not record.
LEMMA AdmitEndKeeps == CoreInv /\ Core!AdmitEnd => CoreInv'
<1> SUFFICES ASSUME CoreInv, Core!AdmitEnd PROVE CoreInv'
  OBVIOUS
<1>1. /\ UNCHANGED <<repo, build, eng, derived, released>>
      /\ use.pc = "artifacts" /\ use.todo = {}
  BY DEF Core!AdmitEnd
<1>2. PICK p \in use.prefix, receipt \in use.receipt :
        use' = [use EXCEPT !.pc = IF Core!UnrecordedArtifact(p.bin, receipt) THEN "refused"
                                  ELSE "admitted"]
  BY DEF Core!AdmitEnd
<1>3. /\ DOMAIN use' = DOMAIN use /\ use'.prefix = use.prefix
      /\ use'.receipt = use.receipt /\ use'.platform = use.platform
      /\ use'.disturbed = use.disturbed /\ use'.todo = use.todo
      /\ use'.pc = "refused" \/
           (use'.pc = "admitted" /\ DOMAIN p.bin \subseteq DOMAIN receipt.body.rows)
  BY <1>2, UseFields DEF Core!UnrecordedArtifact
<1>4. DOMAIN use' = DOMAIN Core!NoUse /\ use.prefix # {} /\ \A q, o \in use.prefix : q = o
  BY <1>1, <1>3 DEF CoreInv, UseOK
<1>5. ASSUME use'.pc = "admitted", ~use.disturbed PROVE \E r \in released' : Admitting(r)'
  <2>1. PICK r \in released : Admitting(r)
    BY <1>1, <1>5 DEF CoreInv, UseOK
  <2>2. receipt = r.receipt
    BY <2>1 DEF Admitting
  <2>3. \A q \in use'.prefix : DOMAIN q.bin \subseteq DOMAIN r.receipt.body.rows
    BY <1>3, <1>4, <1>5, <2>2
  <2>4. Admitting(r)'
    BY <1>1, <1>3, <2>1, <2>3 DEF Admitting
  <2> QED BY <1>1, <2>4
<1>6. UseOK'
  BY <1>3, <1>4, <1>5 DEF UseOK
<1> QED BY <1>1, <1>6, ConsumerKeeps

\* A consumer that unpacks a release starts over with it.
LEMMA UnpackKeeps == CoreInv /\ Core!Unpack => CoreInv'
<1> SUFFICES ASSUME CoreInv, Core!Unpack PROVE CoreInv'
  OBVIOUS
<1>1. /\ repo' = Core!InitRepo /\ build' = Core!InitBuild /\ eng' = Core!NoEngine
      /\ derived' = {} /\ released' = released
  BY DEF Core!Unpack
<1>2. PICK r : use' = [Core!NoUse EXCEPT !.prefix = {r.stage}, !.from = {r}]
  BY DEF Core!Unpack
<1>3. repo'.commits = <<Core!InitSnapshot>> /\ build'.objects = {}
  BY <1>1 DEF Core!InitRepo, Core!InitBuild
<1>4. /\ eng'.pc = 0 /\ eng'.cand = {} /\ eng'.stage = {} /\ eng'.result # Ok
      /\ eng'.tool = "none"
  BY <1>1 DEF Core!NoEngine, Ok
<1>5. DOMAIN use' = DOMAIN Core!NoUse /\ use'.prefix = {r.stage} /\ use'.pc = "idle"
  BY <1>2 DEF Core!NoUse
<1>6. RepoOK'
  <2>1. <<Core!InitSnapshot>> \in Seq({<<Core!InitSnapshot>>[i] : i \in DOMAIN <<Core!InitSnapshot>>})
    OBVIOUS
  <2>2. Len(<<Core!InitSnapshot>>) = 1
    OBVIOUS
  <2> QED BY <1>1, <1>3, <2>1, <2>2 DEF RepoOK
<1>7. ReportsOK' /\ ReleasedOK'
  BY <1>1 DEF ReportsOK, CoreInv, ReleasedOK, OfItsCommit
<1>8. EngineOK' /\ UndisturbedOK'
  BY <1>1, <1>4 DEF EngineOK, UndisturbedOK, Core!At
<1>9. UseOK'
  BY <1>5 DEF UseOK
<1> QED BY <1>6, <1>7, <1>8, <1>9 DEF CoreInv

-----------------------------------------------------------------------------
(* The release keeps its word                                              *)

\* Every step of the developer, the engineer and the consumer keeps the invariant.
LEMMA CoreStepKeeps == CoreInv /\ [Core!Next]_coreVars => CoreInv'
<1> SUFFICES ASSUME CoreInv, [Core!Next]_coreVars PROVE CoreInv'
  OBVIOUS
<1>1. CASE Core!Edit \/ Core!Commit \/ Core!Configure \/ Core!Compile
  BY <1>1, CoreEditKeeps, CoreCommitKeeps, CoreBuildKeeps
<1>2. CASE \E tool \in {"derive", "candidate", "emit"} : Core!Start(tool)
  BY <1>2, StartKeeps
<1>3. CASE Core!DeriveBegin \/ Core!DeriveIdentities \/ Core!DeriveFinish
  BY <1>3, DeriveBeginKeeps, DeriveIdentitiesKeeps, DeriveFinishKeeps
<1>4. CASE Core!CandidateCopy \/ Core!CandidateVerify \/ Core!CandidateBuild
  BY <1>4, CandidateCopyKeeps, CandidateVerifyKeeps, CandidateBuildKeeps
<1>5. CASE (\E place \in Core!Places : Core!EmitBegin(place)) \/ Core!EmitStage \/ Core!EmitWrite
  BY <1>5, EmitBeginKeeps, EmitStageKeeps, EmitWriteKeeps
<1>6. CASE Core!Unpack \/ Core!Tamper \/ Core!AdmitBegin \/ Core!AdmitOne \/ Core!AdmitEnd
  BY <1>6, UnpackKeeps, TamperKeeps, AdmitBeginKeeps, AdmitOneKeeps, AdmitEndKeeps
<1>7. CASE UNCHANGED coreVars
  <2>1. UNCHANGED <<repo, build, eng, derived, released, use>>
    BY <1>7 DEF coreVars
  <2>2. UseOK'
    BY <2>1 DEF CoreInv, UseOK, Admitting
  <2> QED BY <2>1, <2>2, ConsumerKeeps
<1> QED BY <1>1, <1>2, <1>3, <1>4, <1>5, <1>6, <1>7 DEF Core!Next

\* A report names its commit's files, and a candidate that passed is the export.
LEMMA InvariantExports == CoreInv => Core!CandidateIsTheExport
<1> SUFFICES ASSUME CoreInv PROVE Core!CandidateIsTheExport
  OBVIOUS
<1>1. \A r \in derived :
        r.disturbed \/ \A f \in DOMAIN r.files : r.files[f] = repo.commits[r.head].tree[f]
  BY DEF CoreInv, ReportsOK
<1>2. ASSUME eng.result = Ok, NEW c \in eng.cand, NEW r \in derived
      PROVE  /\ Core!Present(c) = DOMAIN r.files /\ \A f \in Core!Present(c) : c[f] = r.files[f]
             /\ Core!Present(c) \cap BackendFiles = {} /\ Required \subseteq Core!Present(c)
             /\ \A f \in Core!Present(c) : c[f] # "rootref"
  <2>1. Core!VerifyTree(c, r) = Ok /\ Required \subseteq Core!Present(c)
    BY <1>2 DEF CoreInv, EngineOK, Passed
  <2> QED BY <2>1, VerifiedIsExact
<1> QED BY <1>1, <1>2 DEF Core!CandidateIsTheExport, Core!Ok, Ok

\* A mode's octal digits are their own last three.
LEMMA OctalModes ==
  ASSUME NEW m \in Modes
  PROVE  m % 1000 \in 0 .. 777 /\ (m % 1000) % 1000 = m % 1000
  BY ModesAssumption

\* A file found equal to a row has the identity of the file the row is of.
LEMMA RowIdentifies ==
  ASSUME NEW file, NEW of, of.mode \in Modes, NEW row, row = Core!FileIdentity(of),
         file.mode = row.mode, file.bytes = row.sha
  PROVE  /\ file.mode \in 0 .. 777
         /\ Core!FileIdentity(file) = Core!FileIdentity(of)
<1>1. file.bytes = of.bytes /\ file.mode = of.mode % 1000
  BY DEF Core!FileIdentity
<1>2. file.mode \in 0 .. 777 /\ file.mode % 1000 = of.mode % 1000
  BY <1>1, OctalModes
<1> QED BY <1>1, <1>2 DEF Core!FileIdentity

\* Trees of the same identities have the same rows.
LEMMA SameRows ==
  ASSUME NEW s, NEW t, DOMAIN s.bin = DOMAIN t.bin,
         \A a \in DOMAIN s.bin : Core!FileIdentity(s.bin[a]) = Core!FileIdentity(t.bin[a])
  PROVE  Core!RuntimeRows(s) = Core!RuntimeRows(t)
  BY DEF Core!RuntimeRows

\* An admitted prefix holds the programs of one release.
LEMMA InvariantAdmits == CoreInv => Core!AdmittedIsReleased
<1> SUFFICES ASSUME CoreInv, use.pc = "admitted", ~use.disturbed
             PROVE  \E r \in released, p \in use.prefix :
                      /\ use.receipt = {r.receipt}
                      /\ Core!RuntimeRows(p) = Core!RuntimeRows(r.stage)
                      /\ \A a \in DOMAIN p.bin : p.bin[a].kind = "file" /\ p.bin[a].mode \in 0..777
                      /\ r.receipt.body.target = use.platform
  BY DEF Core!AdmittedIsReleased
<1>1. PICK r \in released : Admitting(r)
  BY DEF CoreInv, UseOK
<1>2. PICK p \in use.prefix : TRUE
  BY DEF CoreInv, UseOK
<1> DEFINE rows == r.receipt.body.rows
           stage == r.stage
<1>3. /\ rows = Core!RuntimeRows(stage)
      /\ \A a \in DOMAIN stage.bin : stage.bin[a].mode \in Modes
  BY DEF CoreInv, ReleasedOK
<1>4. /\ \A a \in DOMAIN rows : Core!AdmitArtifact(p.bin, r.receipt, a) = Ok
      /\ DOMAIN p.bin \subseteq DOMAIN rows
  BY <1>1, <1>2 DEF Admitting
<1>5. \A a \in DOMAIN rows : /\ a \in DOMAIN p.bin /\ p.bin[a].kind = "file"
                             /\ p.bin[a].mode = rows[a].mode /\ p.bin[a].bytes = rows[a].sha
  BY <1>4, AdmittedArtifact
<1> HIDE DEF rows, stage
<1>6. DOMAIN rows = DOMAIN stage.bin /\ DOMAIN p.bin = DOMAIN stage.bin
  BY <1>3, <1>4, <1>5 DEF Core!RuntimeRows
<1>7. ASSUME NEW a \in DOMAIN p.bin
      PROVE  /\ p.bin[a].kind = "file" /\ p.bin[a].mode \in 0 .. 777
             /\ Core!FileIdentity(p.bin[a]) = Core!FileIdentity(stage.bin[a])
  <2>1. rows[a] = Core!FileIdentity(stage.bin[a]) /\ stage.bin[a].mode \in Modes
    BY <1>3, <1>6 DEF Core!RuntimeRows
  <2>2. /\ p.bin[a].kind = "file" /\ p.bin[a].mode = rows[a].mode
        /\ p.bin[a].bytes = rows[a].sha
    BY <1>5, <1>6
  <2>3. PICK row : row = rows[a]
    OBVIOUS
  <2>4. /\ row = Core!FileIdentity(stage.bin[a])
        /\ p.bin[a].mode = row.mode /\ p.bin[a].bytes = row.sha
    BY <2>1, <2>2, <2>3
  <2>5. /\ p.bin[a].mode \in 0 .. 777
        /\ Core!FileIdentity(p.bin[a]) = Core!FileIdentity(stage.bin[a])
    BY <2>1, <2>4, RowIdentifies
  <2> QED BY <2>2, <2>5, Zenon
<1>8. Core!RuntimeRows(p) = Core!RuntimeRows(stage)
  BY <1>6, <1>7, SameRows, SMTT(40)
<1>9. use.receipt = {r.receipt} /\ r.receipt.body.target = use.platform
  BY <1>1 DEF Admitting
<1> QED BY <1>1, <1>2, <1>7, <1>8, <1>9 DEF stage

\* The flow of the core keeps its invariant.
LEMMA CoreFlow == FlowSpec => [](chosen = "core" => CoreInv)
<1>1. FlowInit => (chosen = "core" => CoreInv)
  BY CoreInitially DEF FlowInit
<1>2. (chosen = "core" => CoreInv) /\ [FlowNext]_flowVars => (chosen = "core" => CoreInv)'
  <2> SUFFICES ASSUME chosen = "core" => CoreInv, [FlowNext]_flowVars, chosen' = "core"
               PROVE  CoreInv'
    OBVIOUS
  <2>1. chosen = "core" /\ [Core!Next]_coreVars
    BY DEF FlowNext, flowVars, coreVars
  <2> QED BY <2>1, CoreStepKeeps
<1> QED BY <1>1, <1>2, PTL DEF FlowSpec

\* A receipt whose directory was rebuilt and whose emission nobody disturbed
\* attests to programs compiled from its commit's tree, with its identity, and
\* to those its manifest declares.  (emit_core_release_receipt.py)
THEOREM ReceiptsAreOfTheirCommit == FlowSpec => []ReceiptIsOfItsCommit
<1>1. (chosen = "core" => CoreInv) => ReceiptIsOfItsCommit
  BY DEF CoreInv, ReleasedOK, OfItsCommit, ReceiptIsOfItsCommit, Core!ReceiptIsOfItsCommit
<1> QED BY <1>1, CoreFlow, PTL

\* An undisturbed report names the files of its commit, and a candidate that
\* passed is exactly the reported files.  (check_core_only_export.py)
THEOREM CandidatesAreTheExport == FlowSpec => []CandidateIsTheExport
<1>1. (chosen = "core" => CoreInv) => CandidateIsTheExport
  BY InvariantExports DEF CandidateIsTheExport
<1> QED BY <1>1, CoreFlow, PTL

\* A prefix admitted without disturbance holds the programs of one release of
\* the producer, byte for byte and bit for bit.  (admit_core_receipt.py)
THEOREM AdmissionsAreReleases == FlowSpec => []AdmittedIsReleased
<1>1. (chosen = "core" => CoreInv) => AdmittedIsReleased
  BY InvariantAdmits DEF AdmittedIsReleased
<1> QED BY <1>1, CoreFlow, PTL
-----------------------------------------------------------------------------
(* The pressure loop                                                       *)

LoopPaths ==
  {"representable", "failed-reduction", "refusal", "orchestration-overload",
   "pay-for-result", "tooling-gap", "orthogonal"}

LoopFixture == UNION {Loop!Names(l) : l \in LoopFixtures}

\* The rows are those of the first fixtures, in order, and of sound ones.
RowsOK ==
  /\ Len(loopJob.rows) <= Len(world.fixtures)
  /\ \A i \in 1 .. Len(loopJob.rows) :
        /\ Loop!FixtureCode(world.fixtures[i]) = Ok
        /\ loopJob.rows[i] = Loop!EmitRow(world.fixtures[i])

\* What row i refers to is there, as RegisterRestsOnItsRun has it of a register.
RefRests(rows, ref) ==
  IF ref.file[2] = "committed"
  THEN \E j \in DOMAIN rows : rows[j].rowId = ref.file[1] /\ rows[j].support = "partial"
  ELSE disk.evidence[ref.file] = [run |-> loopRuns, type |-> ref.type]

RowRests(rows, i) == \A ref \in Loop!Names(rows[i].refs) : RefRests(rows, ref)

\* Inside a run: what was observed has its partial row, and a row that no later
\* one repeats rests on the evidence written so far.
EvidenceOK ==
  /\ \A p \in loopJob.observed :
        \E j \in DOMAIN loopJob.rows :
           loopJob.rows[j].rowId = p.rowId /\ loopJob.rows[j].support = "partial"
  /\ \A i \in DOMAIN loopJob.rows :
        (\A j \in DOMAIN loopJob.rows : j > i => loopJob.rows[j].rowId # loopJob.rows[i].rowId)
           => RowRests(loopJob.rows, i)

LoopRegister == [version |-> 2, rows |-> loopJob.rows]
LoopIds == [i \in DOMAIN loopJob.rows |-> loopJob.rows[i].rowId]

\* After the last row: all fixtures have one, and no id is repeated.
FinishedOK ==
  loopJob.pc \in {"validate", "write", "replace"} =>
     Len(loopJob.rows) = Len(world.fixtures) /\ Loop!NoDuplicates(LoopIds)
ValidatedOK ==
  /\ loopJob.pc \in {"write", "replace"} => Loop!ValidateObj(LoopRegister) = {}
  /\ loopJob.pc = "replace" => disk.tmp = [run |-> loopRuns, rows |-> loopJob.rows]

\* The published register is older than a run that has not finished.
RegisterOK ==
  /\ disk.register.run \in Nat /\ disk.register.run <= loopRuns
  /\ loopJob.pc # "idle" => disk.register.run < loopRuns
  /\ Loop!RegisterRestsOnItsRun

LoopInv ==
  /\ world.fixtures \in LoopFixtures
  /\ loopRuns \in Nat /\ DOMAIN disk = {"evidence", "register", "tmp"}
  /\ DOMAIN disk.evidence = Loop!Files
  /\ DOMAIN loopJob = {"pc", "rows", "observed"}
  /\ loopJob.pc \in {"idle", "rows", "validate", "write", "replace"}
  /\ loopJob.rows \in Seq({Loop!EmitRow(f) : f \in LoopFixture})
  /\ loopJob.pc = "idle" => loopJob = Loop!NoJob
  /\ RowsOK /\ EvidenceOK /\ FinishedOK /\ ValidatedOK /\ RegisterOK

\* Every fixture document is a list that is not empty, of paths emit_row knows.
LEMMA FixtureDocuments ==
  ASSUME NEW l \in LoopFixtures
  PROVE  /\ l \in Seq(LoopFixture) /\ l # <<>>
         /\ \A i \in DOMAIN l : l[i].path \in LoopPaths
<1> DEFINE F(id, path, req) == Fixture(id, path, req)
           G(id, companion, req) == Gap(id, companion, req)
           Known(f) == f.path \in LoopPaths
           P == PaidFixture
           X == [Fixture("a", "representable", "x") EXCEPT !.tier = "9"]
           Y == [Fixture("a", "orthogonal", "x") EXCEPT !.disposition = "L1_CORE"]
           Z == [Fixture("a", "orthogonal", "x") EXCEPT !.extra = TRUE]
<1>1. \A id, req : /\ Known(F(id, "representable", req)) /\ Known(F(id, "failed-reduction", req))
                  /\ Known(F(id, "orthogonal", req)) /\ Known(F(id, "refusal", req))
                  /\ Known(F(id, "orchestration-overload", req))
  BY DEF Fixture, LoopPaths
<1>2. \A id, req, companion : Known(G(id, companion, req))
  BY DEF Gap, Fixture, LoopPaths
<1>3. Known(P) /\ Known(X) /\ Known(Y) /\ Known(Z)
  BY DEF PaidFixture, Fixture, LoopPaths
<1>4. l \in {<<F("a", "representable", "x"), F("b", "failed-reduction", "y"),
              F("c", "orthogonal", "z"), F("d", "refusal", "w")>>,
            <<F("a", "refusal", "x"), F("b", "representable", "y")>>,
            <<F("s", "orchestration-overload", "x"), F("a", "representable", "x")>>,
            <<P, G("gap", "core", "pay"), F("c", "orthogonal", "z")>>,
            <<G("gap", "core", "pay"), P>>, <<P, G("gap", "other", "pay")>>,
            <<P, G("gap", "core", "other")>>,
            <<F("a", "representable", "x"), F("a", "refusal", "x")>>, <<X>>, <<Y>>, <<Z>>}
  BY DEF LoopFixtures
<1> HIDE DEF F, G, P, X, Y, Z, Known
<1>7. \A i \in DOMAIN l : l[i] \in Loop!Names(l)
  BY DEF Loop!Names
<1>8. Loop!Names(l) \subseteq LoopFixture
  BY DEF LoopFixture
<1>9. \/ \E a : l = <<a>> /\ Known(a)
      \/ \E a, b : l = <<a, b>> /\ Known(a) /\ Known(b)
      \/ \E a, b, c : l = <<a, b, c>> /\ Known(a) /\ Known(b) /\ Known(c)
      \/ \E a, b, c, d : l = <<a, b, c, d>> /\ Known(a) /\ Known(b) /\ Known(c) /\ Known(d)
  BY <1>1, <1>2, <1>3, <1>4
<1> HIDE DEF LoopFixture
<1>10. ASSUME NEW a, l = <<a>>, Known(a)
       PROVE  l \in Seq(LoopFixture) /\ l # <<>> /\ \A i \in DOMAIN l : Known(l[i])
  BY <1>7, <1>8, <1>10
<1>11. ASSUME NEW a, NEW b, l = <<a, b>>, Known(a), Known(b)
       PROVE  l \in Seq(LoopFixture) /\ l # <<>> /\ \A i \in DOMAIN l : Known(l[i])
  BY <1>7, <1>8, <1>11
<1>12. ASSUME NEW a, NEW b, NEW c, l = <<a, b, c>>,
              Known(a), Known(b), Known(c)
       PROVE  l \in Seq(LoopFixture) /\ l # <<>> /\ \A i \in DOMAIN l : Known(l[i])
  BY <1>7, <1>8, <1>12
<1>13. ASSUME NEW a, NEW b, NEW c, NEW d, l = <<a, b, c, d>>,
              Known(a), Known(b), Known(c), Known(d)
       PROVE  l \in Seq(LoopFixture) /\ l # <<>> /\ \A i \in DOMAIN l : Known(l[i])
  BY <1>7, <1>8, <1>13
<1>14. l \in Seq(LoopFixture) /\ l # <<>> /\ \A i \in DOMAIN l : Known(l[i])
  BY <1>9, <1>10, <1>11, <1>12, <1>13
<1> QED BY <1>14 DEF Known

\* The first check that fails, in the loop's copy of the operator.
LEMMA LoopChecks ==
  ASSUME NEW checks
  PROVE  Loop!FirstOf(checks) = FirstOf(checks)
BY DEF Loop!FirstOf, FirstOf, Loop!Ok, Ok

\* The rules that tie a row's fields together, whatever its siblings.
RegularRow(row) ==
  /\ ~row.extra /\ Loop!NoDuplicates(row.refs)
  /\ (row.outcome = "accepted") <=> (row.class = Loop!Null)
  /\ row.outcome = "unresolved" => row.class \in {"1", "2", "3"} /\ row.failed # Loop!Null
  /\ row.class \in {"1", "2", "3"} => row.outcome = "unresolved"
  /\ row.disposition \in Loop!DecisionDispositions =>
        row.class = "3" /\ row.counterexample # Loop!Null /\ row.decision # Loop!Null
  /\ row.disposition = "UNSUPPORTED_REFUSED" =>
        row.support = "absent" /\ row.outcome = "unresolved" /\ Loop!HasEvidence(row, "refusal")
  /\ row.support \in {"present", "partial"} =>
        row.operation # Loop!Null /\ Loop!HasEvidence(row, "executable")
  /\ row.support = "absent" => row.operation = Loop!Null
  /\ row.disposition \in Loop!OrthogonalDispositions =>
        /\ row.class = Loop!Null /\ row.outcome = "accepted" /\ row.failed = Loop!Null
        /\ row.counterexample = Loop!Null /\ row.decision = Loop!Null
        /\ row.operation = Loop!Null /\ row.support = "absent" /\ row.refs = <<>>

\* A row that breaks none of them can only be refused for an enumerated field or
\* for a missing sibling.
LEMMA RowRules ==
  ASSUME NEW row, NEW siblings, RegularRow(row)
  PROVE  Loop!RowCodes(row, siblings) \subseteq {"enum", "partial_sibling"}
<1> DEFINE classed == row.class \in {"1", "2", "3"}
           decides == row.disposition \in Loop!DecisionDispositions
           w1 == row.extra
           w2 == ~Loop!NoDuplicates(row.refs)
           w3 == (row.outcome = "accepted") # (row.class = Loop!Null)
           w4 == \/ row.outcome = "unresolved" /\ (~classed \/ row.failed = Loop!Null)
                 \/ classed /\ (row.outcome # "unresolved" \/ row.failed = Loop!Null)
           w5 == decides /\ row.class # "3"
           w6 == decides /\ row.counterexample = Loop!Null
           w7 == decides /\ row.decision = Loop!Null
           w8 == /\ row.disposition = "UNSUPPORTED_REFUSED"
                 /\ \/ row.support # "absent" \/ row.outcome # "unresolved"
                    \/ ~Loop!HasEvidence(row, "refusal")
           w9 == /\ row.support \in {"present", "partial"}
                 /\ row.operation = Loop!Null \/ ~Loop!HasEvidence(row, "executable")
           w10 == row.support = "absent" /\ row.operation # Loop!Null
           w11 == /\ row.disposition \in Loop!OrthogonalDispositions
                  /\ \/ row.class # Loop!Null \/ row.outcome # "accepted" \/ row.failed # Loop!Null
                     \/ row.counterexample # Loop!Null \/ row.decision # Loop!Null
                     \/ row.operation # Loop!Null \/ row.support # "absent" \/ row.refs # <<>>
           enum == Loop!EnumErrors(row)
           sib == /\ row.support = "partial"
                  /\ ~\E r \in siblings : r.support = "absent" /\ r.requirement = row.requirement
<1>1. ~w1 /\ ~w2 /\ ~w3 /\ ~w4 /\ ~w5 /\ ~w6 /\ ~w7 /\ ~w8 /\ ~w9 /\ ~w10 /\ ~w11
  BY DEF RegularRow
<1>2. Loop!RowCodes(row, siblings) = Loop!AllOf({
        Loop!Refuse("unknown_field", w1), Loop!Refuse("enum", enum),
        Loop!Refuse("duplicate_evidence_ref", w2), Loop!Refuse("accepted_class", w3),
        Loop!Refuse("unresolved_obligation", w4), Loop!Refuse("decision_contract", w5),
        Loop!Refuse("decision_counterexample", w6), Loop!Refuse("linked_decision", w7),
        Loop!Refuse("unsupported_refused", w8), Loop!Refuse("support_artifact", w9),
        Loop!Refuse("partial_sibling", sib), Loop!Refuse("absent_artifact", w10),
        Loop!Refuse("orthogonal_disposition", w11)})
  BY DEF Loop!RowCodes
<1> HIDE DEF w1, w2, w3, w4, w5, w6, w7, w8, w9, w10, w11, enum, sib
<1> QED BY <1>1, <1>2 DEF Loop!AllOf, Loop!Refuse

\* The fields of a row that its path decides.
RowHas(row, outcome, class, disposition, failed, counterexample, decision, support, operation, refs) ==
  /\ row.outcome = outcome /\ row.class = class /\ row.disposition = disposition
  /\ row.failed = failed /\ row.counterexample = counterexample /\ row.decision = decision
  /\ row.support = support /\ row.operation = operation /\ row.refs = refs
RefsOf(f) == <<[type |-> Loop!ProofType(f), file |-> Loop!ProofFile(f)]>>

\* What emit_row makes of a fixture, path by path.
LEMMA EmittedRow ==
  ASSUME NEW f, f.path \in LoopPaths
  PROVE  LET row  == Loop!EmitRow(f)
             refs == RefsOf(f)
         IN  /\ row.rowId = f.id /\ row.extra = FALSE
             /\ f.path = "representable" =>
                  RowHas(row, "accepted", "null", "L1_CORE", "null", "null", "null", "present", "text", refs)
             /\ f.path = "failed-reduction" =>
                  RowHas(row, "unresolved", "3", "LANGUAGE_DECISION_REQUIRED", "text", "text", "text", "absent", "null", refs)
             /\ f.path = "refusal" =>
                  RowHas(row, "unresolved", "2", "UNSUPPORTED_REFUSED", "text", "null", "null", "absent", "null", refs)
             /\ f.path = "orchestration-overload" =>
                  RowHas(row, "unresolved", "3", "LAYER_DECISION_REQUIRED", "text", "text", "text", "absent", "null", refs)
             /\ f.path = "pay-for-result" =>
                  RowHas(row, "accepted", "null", "L1_CORE", "null", "null", "text", "partial", "text", refs)
             /\ f.path = "tooling-gap" =>
                  RowHas(row, "unresolved", "1", f.disposition, "text", "text", "text", "absent", "null", refs)
             /\ f.path = "orthogonal" =>
                  RowHas(row, "accepted", "null", f.disposition, "null", "null", "null", "absent", "null", <<>>)
<1> DEFINE base == Loop!BaseRow(f.id, f.requirement, f.tier)
           refs == RefsOf(f)
           row  == Loop!EmitRow(f)
<1>1. base = [rowId |-> f.id, requirement |-> f.requirement, tier |-> f.tier, extra |-> FALSE,
              outcome |-> "accepted", class |-> "null", disposition |-> "L1_CORE",
              failed |-> "null", counterexample |-> "null", decision |-> "null",
              support |-> "absent", operation |-> "null", refs |-> <<>>]
  BY DEF Loop!BaseRow, Loop!Null
<1>2. <<Loop!Ref(Loop!ProofType(f), Loop!ProofFile(f))>> = refs
  BY DEF Loop!Ref, RefsOf
<1> DEFINE m == Loop!DiagnosticMap["unregistered"]
           r == Loop!DiagnosticMap["unsupported"]
<1>3. /\ m.class = "3" /\ m.disposition = "LANGUAGE_DECISION_REQUIRED"
      /\ m.counterexample = "text" /\ m.decision = "text"
      /\ r.class = "2" /\ r.disposition = "UNSUPPORTED_REFUSED"
  BY DEF Loop!DiagnosticMap, Loop!Text
<1> HIDE DEF m, r
<1> DEFINE unresolved == [base EXCEPT !.outcome = "unresolved", !.failed = "text", !.refs = refs]
<1>4. /\ DOMAIN unresolved = DOMAIN base
      /\ unresolved.rowId = f.id /\ unresolved.extra = FALSE
      /\ RowHas(unresolved, "unresolved", "null", "L1_CORE", "text", "null", "null", "absent", "null", refs)
  BY <1>1 DEF RowHas, base
<1>5. unresolved = [base EXCEPT !.outcome = "unresolved", !.failed = Loop!Text, !.refs = refs]
  BY DEF Loop!Text
<1> HIDE DEF base, unresolved, refs, row
<1>6. CASE f.path = "representable"
  <2>1. row = [base EXCEPT !.support = "present", !.operation = "text", !.refs = refs]
    BY <1>2, <1>5, <1>6 DEF Loop!EmitRow, Loop!Text, row, base
  <2>2. row.rowId = f.id /\ row.extra = FALSE /\ RowHas(row, "accepted", "null", "L1_CORE", "null", "null", "null", "present", "text", refs)
    BY <2>1, <1>1, <1>4 DEF RowHas, base
  <2> QED BY <2>2, <1>6 DEF row, refs
<1>7. CASE f.path = "failed-reduction"
  <2>1. row = [unresolved EXCEPT !.class = "3", !.disposition = "LANGUAGE_DECISION_REQUIRED",
                            !.counterexample = "text", !.decision = "text"]
    <3>1. row = [unresolved EXCEPT !.class = m.class, !.disposition = m.disposition,
                    !.counterexample = m.counterexample, !.decision = m.decision]
      BY <1>2, <1>5, <1>7 DEF Loop!EmitRow, row, base, m
    <3> QED BY <3>1, <1>3
  <2>2. row.rowId = f.id /\ row.extra = FALSE /\ RowHas(row, "unresolved", "3", "LANGUAGE_DECISION_REQUIRED", "text", "text", "text", "absent", "null", refs)
    BY <2>1, <1>1, <1>4 DEF RowHas, base
  <2> QED BY <2>2, <1>7 DEF row, refs
<1>8. CASE f.path = "refusal"
  <2>1. row = [unresolved EXCEPT !.class = "2", !.disposition = "UNSUPPORTED_REFUSED"]
    <3>1. row = [unresolved EXCEPT !.class = r.class, !.disposition = r.disposition]
      BY <1>2, <1>5, <1>8 DEF Loop!EmitRow, row, base, r
    <3> QED BY <3>1, <1>3
  <2>2. row.rowId = f.id /\ row.extra = FALSE /\ RowHas(row, "unresolved", "2", "UNSUPPORTED_REFUSED", "text", "null", "null", "absent", "null", refs)
    BY <2>1, <1>1, <1>4 DEF RowHas, base
  <2> QED BY <2>2, <1>8 DEF row, refs
<1>9. CASE f.path = "orchestration-overload"
  <2>1. row = [unresolved EXCEPT !.class = "3", !.disposition = "LAYER_DECISION_REQUIRED",
                            !.counterexample = "text", !.decision = "text"]
    BY <1>2, <1>5, <1>9 DEF Loop!EmitRow, Loop!Text, row, base
  <2>2. row.rowId = f.id /\ row.extra = FALSE /\ RowHas(row, "unresolved", "3", "LAYER_DECISION_REQUIRED", "text", "text", "text", "absent", "null", refs)
    BY <2>1, <1>1, <1>4 DEF RowHas, base
  <2> QED BY <2>2, <1>9 DEF row, refs
<1>10. CASE f.path = "pay-for-result"
  <2>1. row = [base EXCEPT !.support = "partial", !.operation = "text", !.decision = "text",
                      !.refs = refs]
    BY <1>2, <1>5, <1>10 DEF Loop!EmitRow, Loop!Text, row, base
  <2>2. row.rowId = f.id /\ row.extra = FALSE /\ RowHas(row, "accepted", "null", "L1_CORE", "null", "null", "text", "partial", "text", refs)
    BY <2>1, <1>1, <1>4 DEF RowHas, base
  <2> QED BY <2>2, <1>10 DEF row, refs
<1>11. CASE f.path = "tooling-gap"
  <2>1. row = [unresolved EXCEPT !.class = "1", !.disposition = f.disposition,
                            !.counterexample = "text", !.decision = "text"]
    BY <1>2, <1>5, <1>11 DEF Loop!EmitRow, Loop!Text, row, base
  <2>2. row.rowId = f.id /\ row.extra = FALSE /\ RowHas(row, "unresolved", "1", f.disposition, "text", "text", "text", "absent", "null", refs)
    BY <2>1, <1>1, <1>4 DEF RowHas, base
  <2> QED BY <2>2, <1>11 DEF row, refs
<1>12. CASE f.path = "orthogonal"
  <2>1. row = [base EXCEPT !.disposition = f.disposition]
    BY <1>2, <1>5, <1>12 DEF Loop!EmitRow, Loop!Text, row, base
  <2>2. row.rowId = f.id /\ row.extra = FALSE /\ RowHas(row, "accepted", "null", f.disposition, "null", "null", "null", "absent", "null", <<>>)
    BY <2>1, <1>1, <1>4 DEF RowHas, base
  <2> QED BY <2>2, <1>12 DEF row, refs
<1> QED BY <1>6, <1>7, <1>8, <1>9, <1>10, <1>11, <1>12 DEF LoopPaths

\* ... of which its evidence and its support.
LEMMA EmittedRefs ==
  ASSUME NEW f, f.path \in LoopPaths
  PROVE  /\ Loop!EmitRow(f).rowId = f.id
         /\ f.path = "orthogonal" => Loop!EmitRow(f).refs = <<>>
         /\ f.path # "orthogonal" => Loop!EmitRow(f).refs = RefsOf(f)
         /\ f.path = "pay-for-result" => Loop!EmitRow(f).support = "partial"
<1> DEFINE row == Loop!EmitRow(f)
           refs == RefsOf(f)
<1>1. CASE f.path = "representable"
  <2>1. RowHas(row, "accepted", "null", "L1_CORE", "null", "null", "null", "present", "text", refs)
    BY <1>1, EmittedRow
  <2> QED BY <2>1, <1>1, EmittedRow DEF RowHas
<1>2. CASE f.path = "failed-reduction"
  <2>1. RowHas(row, "unresolved", "3", "LANGUAGE_DECISION_REQUIRED", "text", "text", "text", "absent", "null", refs)
    BY <1>2, EmittedRow
  <2> QED BY <2>1, <1>2, EmittedRow DEF RowHas
<1>3. CASE f.path = "refusal"
  <2>1. RowHas(row, "unresolved", "2", "UNSUPPORTED_REFUSED", "text", "null", "null", "absent", "null", refs)
    BY <1>3, EmittedRow
  <2> QED BY <2>1, <1>3, EmittedRow DEF RowHas
<1>4. CASE f.path = "orchestration-overload"
  <2>1. RowHas(row, "unresolved", "3", "LAYER_DECISION_REQUIRED", "text", "text", "text", "absent", "null", refs)
    BY <1>4, EmittedRow
  <2> QED BY <2>1, <1>4, EmittedRow DEF RowHas
<1>5. CASE f.path = "pay-for-result"
  <2>1. RowHas(row, "accepted", "null", "L1_CORE", "null", "null", "text", "partial", "text", refs)
    BY <1>5, EmittedRow
  <2> QED BY <2>1, <1>5, EmittedRow DEF RowHas
<1>6. CASE f.path = "tooling-gap"
  <2>1. RowHas(row, "unresolved", "1", f.disposition, "text", "text", "text", "absent", "null", refs)
    BY <1>6, EmittedRow
  <2> QED BY <2>1, <1>6, EmittedRow DEF RowHas
<1>7. CASE f.path = "orthogonal"
  <2>1. RowHas(row, "accepted", "null", f.disposition, "null", "null", "null", "absent", "null", <<>>)
    BY <1>7, EmittedRow
  <2> QED BY <2>1, <1>7, EmittedRow DEF RowHas
<1> QED BY <1>1, <1>2, <1>3, <1>4, <1>5, <1>6, <1>7 DEF LoopPaths

\* The proof a fixture's row refers to: its own, or its companion's committed one.
LEMMA ProofFiles ==
  ASSUME NEW f, f.path \in LoopPaths
  PROVE  /\ Loop!WritesProof(f) <=> f.path \notin {"tooling-gap", "orthogonal"}
         /\ Loop!WritesProof(f) =>
              Loop!ProofFile(f)[1] = f.id /\ Loop!ProofFile(f)[2] # "committed"
         /\ f.path = "tooling-gap" => Loop!ProofFile(f) = <<f.companion, "committed">>
<1>1. CASE f.path \in {"tooling-gap", "orthogonal"}
  BY <1>1 DEF Loop!WritesProof, Loop!ProofFile
<1>2. CASE f.path \in {"representable", "refusal"}
  BY <1>2 DEF Loop!WritesProof, Loop!ProofFile
<1>3. CASE f.path \in {"failed-reduction", "orchestration-overload", "pay-for-result"}
  BY <1>3 DEF Loop!WritesProof, Loop!ProofFile
<1> QED BY <1>1, <1>2, <1>3 DEF LoopPaths

\* A fixture that passes emit_row's own checks has a disposition its path calls for.
LEMMA FixtureChecks ==
  ASSUME NEW f, Loop!FixtureCode(f) = Ok
  PROVE  /\ f.path = "tooling-gap" => f.disposition \in {"L1_CORE", "L2_REFINEMENT"}
         /\ f.path = "orthogonal" => f.disposition \in Loop!OrthogonalDispositions
<1> DEFINE w1 == f.extra
           w2 == f.path = "tooling-gap" /\ f.disposition \notin {"L1_CORE", "L2_REFINEMENT"}
           w3 == f.path = "orthogonal" /\ f.disposition \notin Loop!OrthogonalDispositions
           C == <<[code |-> "unknown field", when |-> w1], [code |-> "class", when |-> w2],
                  [code |-> "disposition", when |-> w3]>>
<1>1. Loop!FixtureCode(f) = Loop!FirstOf(C)
  BY DEF Loop!FixtureCode, Loop!Refuse
<1>2. ~w2 /\ ~w3
  <2> HIDE DEF w1, w2, w3
  <2>1. DOMAIN C = 1 .. 3 /\ 1 .. 3 = {1, 2, 3}
    OBVIOUS
  <2>6. C[1].code = "unknown field" /\ C[2].code = "class" /\ C[3].code = "disposition"
    OBVIOUS
  <2>5. (C[2].when <=> w2) /\ (C[3].when <=> w3)
    OBVIOUS
  <2> HIDE DEF C
  <2>2. \A i \in {1, 2, 3} : C[i].code # Ok
    BY <2>6 DEF Ok
  <2>3. FirstOf(C) = Ok
    <3>1. Loop!FirstOf(C) = FirstOf(C)
      BY LoopChecks
    <3> QED BY <1>1, <3>1
  <2>4. \A i \in 1 .. 3 : ~C[i].when
    BY <2>1, <2>2, <2>3, FirstOfOk
  <2> QED BY <2>1, <2>4, <2>5
<1> QED BY <1>2

\* The runner's rows and the validator's rules agree, path by path.
LEMMA EmittedRowIsRegular ==
  ASSUME NEW f, f.path \in LoopPaths, Loop!FixtureCode(f) = Ok, NEW siblings
  PROVE  Loop!RowCodes(Loop!EmitRow(f), siblings) \subseteq {"enum", "partial_sibling"}
<1> DEFINE row  == Loop!EmitRow(f)
           refs == RefsOf(f)
<1>1. Loop!NoDuplicates(refs) /\ Loop!NoDuplicates(<<>>)
  BY DEF Loop!NoDuplicates, RefsOf
<1>2. ASSUME NEW r, r.refs = refs
      PROVE  Loop!HasEvidence(r, Loop!ProofType(f))
  BY <1>2 DEF Loop!HasEvidence, RefsOf
<1> HIDE DEF refs
<1>3. /\ f.path \in {"representable", "pay-for-result"} => Loop!ProofType(f) = "executable"
      /\ f.path = "refusal" => Loop!ProofType(f) = "refusal"
  BY DEF Loop!ProofType
<1>4. row.extra = FALSE
  BY EmittedRow
<1>5. CASE f.path = "representable"
  <2>1. RowHas(row, "accepted", "null", "L1_CORE", "null", "null", "null", "present", "text", refs)
    BY <1>5, EmittedRow DEF refs
  <2>2. Loop!HasEvidence(row, "executable")
    BY <2>1, <1>2, <1>3, <1>5 DEF RowHas
  <2> HIDE DEF row
  <2>3. RegularRow(row)
    BY <1>1, <1>4, <2>1, <2>2
    DEF RegularRow, RowHas, Loop!Null, Loop!DecisionDispositions, Loop!OrthogonalDispositions
  <2> QED BY <2>3, RowRules DEF row
<1>6. CASE f.path = "failed-reduction"
  <2>1. RowHas(row, "unresolved", "3", "LANGUAGE_DECISION_REQUIRED", "text", "text", "text", "absent", "null", refs)
    BY <1>6, EmittedRow DEF refs
  <2> HIDE DEF row
  <2>3. RegularRow(row)
    BY <1>1, <1>4, <2>1
    DEF RegularRow, RowHas, Loop!Null, Loop!DecisionDispositions, Loop!OrthogonalDispositions
  <2> QED BY <2>3, RowRules DEF row
<1>7. CASE f.path = "refusal"
  <2>1. RowHas(row, "unresolved", "2", "UNSUPPORTED_REFUSED", "text", "null", "null", "absent", "null", refs)
    BY <1>7, EmittedRow DEF refs
  <2>2. Loop!HasEvidence(row, "refusal")
    BY <2>1, <1>2, <1>3, <1>7 DEF RowHas
  <2> HIDE DEF row
  <2>3. RegularRow(row)
    BY <1>1, <1>4, <2>1, <2>2
    DEF RegularRow, RowHas, Loop!Null, Loop!DecisionDispositions, Loop!OrthogonalDispositions
  <2> QED BY <2>3, RowRules DEF row
<1>8. CASE f.path = "orchestration-overload"
  <2>1. RowHas(row, "unresolved", "3", "LAYER_DECISION_REQUIRED", "text", "text", "text", "absent", "null", refs)
    BY <1>8, EmittedRow DEF refs
  <2> HIDE DEF row
  <2>3. RegularRow(row)
    BY <1>1, <1>4, <2>1
    DEF RegularRow, RowHas, Loop!Null, Loop!DecisionDispositions, Loop!OrthogonalDispositions
  <2> QED BY <2>3, RowRules DEF row
<1>9. CASE f.path = "pay-for-result"
  <2>1. RowHas(row, "accepted", "null", "L1_CORE", "null", "null", "text", "partial", "text", refs)
    BY <1>9, EmittedRow DEF refs
  <2>2. Loop!HasEvidence(row, "executable")
    BY <2>1, <1>2, <1>3, <1>9 DEF RowHas
  <2> HIDE DEF row
  <2>3. RegularRow(row)
    BY <1>1, <1>4, <2>1, <2>2
    DEF RegularRow, RowHas, Loop!Null, Loop!DecisionDispositions, Loop!OrthogonalDispositions
  <2> QED BY <2>3, RowRules DEF row
<1>10. CASE f.path = "tooling-gap"
  <2>1. RowHas(row, "unresolved", "1", f.disposition, "text", "text", "text", "absent", "null", refs)
    BY <1>10, EmittedRow DEF refs
  <2>2. f.disposition \in {"L1_CORE", "L2_REFINEMENT"}
    BY <1>10, FixtureChecks
  <2> HIDE DEF row
  <2>3. RegularRow(row)
    BY <1>1, <1>4, <2>1, <2>2
    DEF RegularRow, RowHas, Loop!Null, Loop!DecisionDispositions, Loop!OrthogonalDispositions
  <2> QED BY <2>3, RowRules DEF row
<1>11. CASE f.path = "orthogonal"
  <2>1. RowHas(row, "accepted", "null", f.disposition, "null", "null", "null", "absent", "null", <<>>)
    BY <1>11, EmittedRow DEF refs
  <2>2. f.disposition \in Loop!OrthogonalDispositions
    BY <1>11, FixtureChecks
  <2> HIDE DEF row
  <2>3. RegularRow(row)
    BY <1>1, <1>4, <2>1, <2>2
    DEF RegularRow, RowHas, Loop!Null, Loop!DecisionDispositions, Loop!OrthogonalDispositions
  <2> QED BY <2>3, RowRules DEF row
<1> QED BY <1>5, <1>6, <1>7, <1>8, <1>9, <1>10, <1>11 DEF LoopPaths

\* Before the first run, and whenever a run ends, there is nothing in progress.
LEMMA NothingInProgress ==
  /\ DOMAIN Loop!NoJob = {"pc", "rows", "observed"}
  /\ DOMAIN [Loop!NoJob EXCEPT !.pc = "rows"] = {"pc", "rows", "observed"}
  /\ Loop!NoJob.pc = "idle" /\ Loop!NoJob.rows = <<>> /\ Loop!NoJob.observed = {}
  /\ [Loop!NoJob EXCEPT !.pc = "rows"].pc = "rows"
  /\ [Loop!NoJob EXCEPT !.pc = "rows"].rows = <<>>
  /\ [Loop!NoJob EXCEPT !.pc = "rows"].observed = {}
BY DEF Loop!NoJob

LEMMA LoopInitially == Loop!Init => LoopInv
<1> SUFFICES ASSUME Loop!Init PROVE LoopInv
  OBVIOUS
<1>1. PICK l \in LoopFixtures : world = [fixtures |-> l, defects |-> {}, cited |-> "same"]
  BY DEF Loop!Init
<1>2. world.fixtures = l /\ l \in Seq(LoopFixture)
  BY <1>1, FixtureDocuments
<1>3. loopJob.pc = "idle" /\ loopJob.rows = <<>> /\ loopJob.observed = {} /\ loopJob = Loop!NoJob
  BY NothingInProgress DEF Loop!Init
<1>4. /\ disk.register.run = 0 /\ loopRuns = 0
      /\ DOMAIN disk = {"evidence", "register", "tmp"} /\ DOMAIN disk.evidence = Loop!Files
  BY DEF Loop!Init, Loop!NoRegister
<1>5. RowsOK /\ EvidenceOK
  BY <1>2, <1>3 DEF RowsOK, EvidenceOK
<1>6. FinishedOK /\ ValidatedOK
  BY <1>3 DEF FinishedOK, ValidatedOK
<1>7. RegisterOK
  BY <1>3, <1>4 DEF RegisterOK, Loop!RegisterRestsOnItsRun
<1>8. DOMAIN loopJob = {"pc", "rows", "observed"}
  BY <1>3, NothingInProgress
<1> QED BY <1>1, <1>3, <1>4, <1>5, <1>6, <1>7, <1>8 DEF LoopInv

\* A run that dies, is killed, or has not begun leaves the disk as it is.
LEMMA LoopStops ==
  ASSUME LoopInv, loopJob' = Loop!NoJob, world'.fixtures \in LoopFixtures,
         UNCHANGED <<disk, loopRuns>>
  PROVE  LoopInv'
<1>1. /\ loopJob'.pc = "idle" /\ loopJob'.rows = <<>> /\ loopJob'.observed = {}
      /\ loopJob' = Loop!NoJob /\ DOMAIN loopJob' = {"pc", "rows", "observed"}
  BY NothingInProgress
<1>2. world'.fixtures \in Seq(LoopFixture)
  BY FixtureDocuments
<1>3. RowsOK' /\ EvidenceOK'
  BY <1>1, <1>2 DEF RowsOK, EvidenceOK
<1>4. FinishedOK' /\ ValidatedOK'
  BY <1>1 DEF FinishedOK, ValidatedOK
<1>5. RegisterOK'
  BY <1>1 DEF LoopInv, RegisterOK, Loop!RegisterRestsOnItsRun
<1> QED BY <1>1, <1>3, <1>4, <1>5 DEF LoopInv

LEMMA LoopBegins ==
  ASSUME LoopInv, Loop!Begin
  PROVE  LoopInv'
<1>1. loopRuns' = loopRuns + 1 /\ UNCHANGED <<world, disk>>
  BY DEF Loop!Begin
<1>2. /\ loopJob'.pc = "rows" /\ loopJob'.rows = <<>> /\ loopJob'.observed = {}
      /\ DOMAIN loopJob' = {"pc", "rows", "observed"}
  BY NothingInProgress DEF Loop!Begin
<1>3. world.fixtures \in Seq(LoopFixture)
  BY FixtureDocuments DEF LoopInv
<1>4. RowsOK' /\ EvidenceOK'
  BY <1>1, <1>2, <1>3 DEF RowsOK, EvidenceOK
<1>5. FinishedOK' /\ ValidatedOK'
  BY <1>2 DEF FinishedOK, ValidatedOK
<1>6. /\ disk.register.run \in Nat /\ disk.register.run <= loopRuns /\ loopRuns \in Nat
      /\ disk.register.run < loopRuns'
  BY <1>1 DEF LoopInv, RegisterOK
<1>7. Loop!RegisterRestsOnItsRun'
  BY <1>1, <1>6 DEF LoopInv, RegisterOK, Loop!RegisterRestsOnItsRun
<1>8. RegisterOK'
  BY <1>1, <1>2, <1>6, <1>7 DEF RegisterOK
<1> QED BY <1>1, <1>2, <1>4, <1>5, <1>6, <1>8 DEF LoopInv

\* A tooling gap is only accepted beside a companion proof of the same run.
LEMMA GapIsObserved ==
  ASSUME NEW f, NEW observed, NEW cited, NEW d,
         Loop!ObserveToolingGap(f, observed, cited, d) = Ok
  PROVE  \E p \in observed : p.rowId = f.companion
<1> DEFINE w1 == ~\E p \in observed : p.rowId = f.companion
           w2 == cited = {}
           w3 == \E p \in observed : p.rowId = f.companion /\
                    Loop!ValidatePayForResultExecutionGap(p, f.companion) # Loop!Ok
           w4 == \E c \in cited : Loop!ValidatePayForResultExecutionGap(c, f.companion) # Loop!Ok
           w5 == \E c \in cited, p \in observed : p.rowId = f.companion /\ c.facts # p.facts
           w6 == "expected-gap-drift" \in d
           C == <<[code |-> "not observed in this run", when |-> w1],
                  [code |-> "does not exist", when |-> w2], [code |-> "observed gap", when |-> w3],
                  [code |-> "cited gap", when |-> w4], [code |-> "cited differs", when |-> w5],
                  [code |-> "expected-gap-drift", when |-> w6]>>
<1>1. Loop!ObserveToolingGap(f, observed, cited, d) = Loop!FirstOf(C)
  BY DEF Loop!ObserveToolingGap, Loop!Refuse, Loop!If
<1>2. ~w1
  <2> HIDE DEF w1, w2, w3, w4, w5, w6
  <2>1. DOMAIN C = 1 .. 6 /\ 1 .. 6 = {1, 2, 3, 4, 5, 6}
    OBVIOUS
  <2>2. /\ C[1].code = "not observed in this run" /\ C[2].code = "does not exist"
        /\ C[3].code = "observed gap" /\ C[4].code = "cited gap" /\ C[5].code = "cited differs"
        /\ C[6].code = "expected-gap-drift"
    OBVIOUS
  <2>3. C[1].when <=> w1
    OBVIOUS
  <2> HIDE DEF C
  <2>4. \A i \in {1, 2, 3, 4, 5, 6} : C[i].code # Ok
    BY <2>2 DEF Ok
  <2>5. FirstOf(C) = Ok
    <3>1. Loop!FirstOf(C) = FirstOf(C)
      BY LoopChecks
    <3> QED BY <1>1, <3>1
  <2>6. \A i \in 1 .. 6 : ~C[i].when
    BY <2>1, <2>4, <2>5, FirstOfOk
  <2> QED BY <2>1, <2>3, <2>6
<1> QED BY <1>2

\* The row just emitted rests on what this run has written or observed, and the
\* rows before it keep what they rest on unless it repeats their id.
LEMMA LoopEmits ==
  ASSUME LoopInv, Loop!EmitOne
  PROVE  LoopInv'
<1> DEFINE n == Len(loopJob.rows)
           f == world.fixtures[n + 1]
           proof == [rowId |-> f.id, gap |-> "declared-not-executed", facts |-> "same"]
           seen == Loop!Observe(f, loopJob.observed, Loop!Cited(f.companion), world.defects)
           code == IF Loop!FixtureCode(f) # Ok THEN Loop!FixtureCode(f) ELSE seen
<1>1. UNCHANGED <<world, loopRuns>> /\ loopJob.pc = "rows" /\ n < Len(world.fixtures)
  BY DEF Loop!EmitOne
<1>2. \/ code # Ok /\ loopJob' = Loop!NoJob /\ UNCHANGED disk
      \/ /\ code = Ok
         /\ loopJob' = [loopJob EXCEPT
                          !.rows = Append(@, Loop!EmitRow(f)),
                          !.observed = IF f.path = "pay-for-result" THEN @ \cup {proof} ELSE @]
         /\ disk' = IF ~Loop!WritesProof(f) THEN disk
                    ELSE [disk EXCEPT !.evidence[Loop!ProofFile(f)] =
                                        [run |-> loopRuns, type |-> Loop!ProofType(f)]]
  BY DEF Loop!EmitOne, Loop!Ok, Ok, Loop!Die
<1>3. CASE loopJob' = Loop!NoJob /\ UNCHANGED disk
  <2>1. world'.fixtures \in LoopFixtures
    BY <1>1 DEF LoopInv
  <2> QED BY <1>1, <1>3, <2>1, LoopStops
<1>4. CASE /\ code = Ok
           /\ loopJob' = [loopJob EXCEPT
                            !.rows = Append(@, Loop!EmitRow(f)),
                            !.observed = IF f.path = "pay-for-result" THEN @ \cup {proof} ELSE @]
           /\ disk' = IF ~Loop!WritesProof(f) THEN disk
                      ELSE [disk EXCEPT !.evidence[Loop!ProofFile(f)] =
                                          [run |-> loopRuns, type |-> Loop!ProofType(f)]]
  <2>1. Loop!FixtureCode(f) = Ok /\ seen = Ok
    BY <1>4
  <2>2. /\ world.fixtures \in Seq(LoopFixture) /\ n \in Nat
        /\ \A i \in DOMAIN world.fixtures : world.fixtures[i].path \in LoopPaths
    BY FixtureDocuments DEF LoopInv
  <2>3. n + 1 \in DOMAIN world.fixtures /\ f \in LoopFixture /\ f.path \in LoopPaths
    BY <1>1, <2>2
  <2> DEFINE row == Loop!EmitRow(f)
             rows == loopJob.rows
             more == Append(rows, row)
  <2>4. /\ loopJob'.pc = "rows" /\ loopJob'.rows = more
        /\ DOMAIN loopJob' = {"pc", "rows", "observed"}
        /\ loopJob'.observed \subseteq loopJob.observed \cup {proof}
        /\ f.path # "pay-for-result" => loopJob'.observed = loopJob.observed
    <3>1. DOMAIN loopJob = {"pc", "rows", "observed"}
      BY DEF LoopInv
    <3> DEFINE obs == IF f.path = "pay-for-result" THEN loopJob.observed \cup {proof}
                      ELSE loopJob.observed
    <3>2. loopJob' = [loopJob EXCEPT !.rows = more, !.observed = obs]
      BY <1>4
    <3>3. obs \subseteq loopJob.observed \cup {proof}
          /\ (f.path # "pay-for-result" => obs = loopJob.observed)
      OBVIOUS
    <3> HIDE DEF obs, more
    <3>4. loopJob'.pc = "rows" /\ loopJob'.rows = more /\ loopJob'.observed = obs
          /\ DOMAIN loopJob' = {"pc", "rows", "observed"}
      BY <1>1, <3>1, <3>2
    <3> QED BY <3>3, <3>4
  <2>5. /\ disk'.register = disk.register /\ DOMAIN disk' = DOMAIN disk
        /\ DOMAIN disk'.evidence = DOMAIN disk.evidence
        /\ \A x \in DOMAIN disk.evidence :
              disk'.evidence[x] = IF Loop!WritesProof(f) /\ x = Loop!ProofFile(f)
                                  THEN [run |-> loopRuns, type |-> Loop!ProofType(f)]
                                  ELSE disk.evidence[x]
    <3>1. DOMAIN disk = {"evidence", "register", "tmp"}
      BY DEF LoopInv
    <3> HIDE DEF f
    <3> QED BY <1>4, <3>1
  <2>6. /\ rows \in Seq({Loop!EmitRow(x) : x \in LoopFixture})
        /\ row \in {Loop!EmitRow(x) : x \in LoopFixture}
    BY <2>3 DEF LoopInv
  <2>7. /\ more \in Seq({Loop!EmitRow(x) : x \in LoopFixture}) /\ DOMAIN more = 1 .. n + 1
        /\ DOMAIN rows = 1 .. n /\ n \in Nat
        /\ \A i \in 1 .. n : more[i] = rows[i]
        /\ more[n + 1] = row /\ Len(more) = n + 1
    BY <2>6
  <2>8. RowsOK'
    <3>1. \A i \in 1 .. n : /\ Loop!FixtureCode(world.fixtures[i]) = Ok
                            /\ rows[i] = Loop!EmitRow(world.fixtures[i])
      BY DEF LoopInv, RowsOK
    <3>2. \A i \in 1 .. n + 1 : /\ Loop!FixtureCode(world.fixtures[i]) = Ok
                                /\ more[i] = Loop!EmitRow(world.fixtures[i])
      BY <2>1, <2>7, <3>1
    <3>3. n + 1 <= Len(world.fixtures)
      BY <1>1, <2>2
    <3> HIDE DEF n, more
    <3> QED BY <1>1, <2>4, <2>7, <3>2, <3>3 DEF RowsOK
  <2>9. \A i \in 1 .. n + 1 :
          more[i] = Loop!EmitRow(world.fixtures[i]) /\ world.fixtures[i] \in LoopFixture
          /\ world.fixtures[i].path \in LoopPaths
    BY <2>2, <2>3, <2>4, <2>7, <2>8, <1>1 DEF RowsOK
  <2>13. PICK m : m = more
    OBVIOUS
  <2>10. EvidenceOK'
    <3>1. ASSUME NEW p \in loopJob'.observed
          PROVE  \E j \in DOMAIN more : more[j].rowId = p.rowId /\ more[j].support = "partial"
      <4>1. CASE p \in loopJob.observed
        <5>1. PICK j \in DOMAIN rows : rows[j].rowId = p.rowId /\ rows[j].support = "partial"
          BY <4>1 DEF LoopInv, EvidenceOK
        <5>2. j \in DOMAIN more /\ more[j] = rows[j]
          BY <2>7, <5>1
        <5> QED BY <5>1, <5>2
      <4>2. CASE p = proof /\ f.path = "pay-for-result"
        <5>1. row.rowId = f.id /\ row.support = "partial"
          BY <2>3, <4>2, EmittedRow DEF RowHas
        <5>2. p.rowId = f.id
          BY <4>2
        <5>3. n + 1 \in DOMAIN more /\ more[n + 1] = row
          BY <2>7
        <5> HIDE DEF more, row, n, f
        <5> QED BY <5>1, <5>2, <5>3
      <4> QED BY <2>4, <4>1, <4>2
    <3>2. ASSUME NEW i \in 1 .. n + 1,
                 \A j \in 1 .. n + 1 : j > i => more[j].rowId # more[i].rowId
          PROVE  RowRests(m, i)'
      <4>0. PICK fi : fi = world.fixtures[i]
        OBVIOUS
      <4>1. more[i] = Loop!EmitRow(fi) /\ fi \in LoopFixture /\ fi.path \in LoopPaths
        BY <2>9, <4>0
      <4>2. CASE fi.path = "orthogonal"
        <5>1. more[i].refs = <<>>
          BY <4>1, <4>2, EmittedRefs
        <5> HIDE DEF more
        <5> QED BY <2>13, <5>1 DEF RowRests, Loop!Names
      <4>3. CASE fi.path # "orthogonal"
        <5> DEFINE ref == [type |-> Loop!ProofType(fi), file |-> Loop!ProofFile(fi)]
        <5>1. more[i].refs = <<ref>>
          BY <4>1, <4>3, EmittedRefs DEF RefsOf
        <5>2. Loop!Names(<<ref>>) = {ref}
          BY DEF Loop!Names
        <5>3. RefRests(m, ref)'
          <6>1. CASE fi.path = "tooling-gap"
            <7>1. ref.file = <<fi.companion, "committed">>
              BY <4>1, <6>1, ProofFiles
            <7>2. \E j \in DOMAIN more : more[j].rowId = fi.companion /\ more[j].support = "partial"
              <8>1. CASE i = n + 1
                <9>1. \E p \in loopJob.observed : p.rowId = f.companion
                  <10>1. f.path = "tooling-gap"
                    BY <4>0, <6>1, <8>1
                  <10> HIDE DEF f
                  <10>2. Loop!ObserveToolingGap(f, loopJob.observed, Loop!Cited(f.companion), world.defects) = Ok
                    BY <2>1, <10>1 DEF Loop!Observe
                  <10> QED BY <10>2, GapIsObserved
                <9>2. \E j \in DOMAIN rows : rows[j].rowId = f.companion /\ rows[j].support = "partial"
                  BY <9>1 DEF LoopInv, EvidenceOK
                <9>3. \A j \in DOMAIN rows : j \in DOMAIN more /\ more[j] = rows[j]
                  BY <2>7
                <9>4. fi = f
                  BY <4>0, <8>1
                <9> HIDE DEF more, rows, f
                <9> QED BY <9>2, <9>3, <9>4
              <8>2. CASE i \in 1 .. n
                <9>1. RowRests(rows, i) /\ rows[i].refs = <<ref>>
                  BY <3>2, <5>1, <8>2, <2>7 DEF LoopInv, EvidenceOK
                <9>2. RefRests(rows, ref)
                  <10> HIDE DEF ref
                  <10> QED BY <9>1, <5>2 DEF RowRests
                <9>3. \E j \in DOMAIN rows : rows[j].rowId = fi.companion /\ rows[j].support = "partial"
                  <10> HIDE DEF ref, rows
                  <10> QED BY <7>1, <9>2 DEF RefRests
                <9>4. \A j \in DOMAIN rows : j \in DOMAIN more /\ more[j] = rows[j]
                  BY <2>7
                <9> HIDE DEF more, rows
                <9> QED BY <9>3, <9>4
              <8> QED BY <2>7, <8>1, <8>2
            <7> HIDE DEF more, ref
            <7> QED BY <2>13, <7>1, <7>2 DEF RefRests
          <6>2. CASE fi.path # "tooling-gap"
            <7>1. Loop!WritesProof(fi) /\ ref.file[1] = fi.id /\ ref.file[2] # "committed"
              BY <4>1, <4>3, <6>2, ProofFiles
            <7>2. ref.file \in DOMAIN disk.evidence
              BY <4>1 DEF LoopInv, Loop!Files, LoopFixture
            <7>3. disk'.evidence[ref.file] = [run |-> loopRuns, type |-> ref.type]
              <8>1. CASE i = n + 1
                <9>1. fi = f
                  BY <4>0, <8>1
                <9> HIDE DEF f
                <9> QED BY <2>5, <7>1, <7>2, <9>1
              <8>2. CASE i \in 1 .. n
                <9>1. more[n + 1].rowId # more[i].rowId
                  BY <3>2, <8>2, <2>7
                <9>2. more[i].rowId = fi.id /\ row.rowId = f.id
                  BY <2>3, <4>1, EmittedRefs
                <9>3. fi.id # f.id
                  BY <2>7, <9>1, <9>2
                <9>4. ~(Loop!WritesProof(f) /\ ref.file = Loop!ProofFile(f))
                  BY <2>3, <7>1, <9>3, ProofFiles
                <9>5. disk'.evidence[ref.file] = disk.evidence[ref.file]
                  BY <2>5, <7>2, <9>4
                <9>6. RowRests(rows, i)
                  BY <3>2, <8>2, <2>7 DEF LoopInv, EvidenceOK
                <9>7. rows[i].refs = <<ref>>
                  BY <2>7, <5>1, <8>2
                <9>8. disk.evidence[ref.file] = [run |-> loopRuns, type |-> ref.type]
                  <10> HIDE DEF ref
                  <10> QED BY <9>6, <9>7, <5>2, <7>1 DEF RowRests, RefRests
                <9> QED BY <9>5, <9>8
              <8> QED BY <2>7, <8>1, <8>2
            <7> HIDE DEF more, ref
            <7> QED BY <1>1, <2>13, <7>1, <7>3 DEF RefRests
          <6> QED BY <6>1, <6>2
        <5> HIDE DEF ref, more
        <5> QED BY <2>13, <5>1, <5>2, <5>3 DEF RowRests
      <4> QED BY <4>2, <4>3
    <3> HIDE DEF more
    <3>3. loopJob'.rows = m
      BY <2>4, <2>13
    <3>4. \A i : RowRests(m, i)' => RowRests(loopJob.rows, i)'
      BY <3>3 DEF RowRests, RefRests
    <3>5. DOMAIN loopJob'.rows = 1 .. n + 1 /\ \A j \in 1 .. n + 1 : loopJob'.rows[j] = more[j]
      BY <2>7, <2>13, <3>3
    <3>6. \A p \in loopJob'.observed :
            \E j \in DOMAIN loopJob'.rows :
               loopJob'.rows[j].rowId = p.rowId /\ loopJob'.rows[j].support = "partial"
      BY <2>7, <3>1, <3>5
    <3>7. \A i \in DOMAIN loopJob'.rows :
            (\A j \in DOMAIN loopJob'.rows : j > i => loopJob'.rows[j].rowId # loopJob'.rows[i].rowId)
               => RowRests(loopJob.rows, i)'
      BY <3>2, <3>4, <3>5
    <3> HIDE DEF n
    <3> QED BY <3>6, <3>7 DEF EvidenceOK
  <2>11. RegisterOK'
    BY <1>1, <2>4, <2>5 DEF LoopInv, RegisterOK, Loop!RegisterRestsOnItsRun
  <2>12. FinishedOK' /\ ValidatedOK'
    BY <2>4 DEF FinishedOK, ValidatedOK
  <2> HIDE DEF n, f, more, row, rows
  <2> QED BY <1>1, <2>4, <2>5, <2>7, <2>8, <2>10, <2>11, <2>12 DEF LoopInv
<1> QED BY <1>2, <1>3, <1>4

\* A step that leaves the rows and what they rest on alone.
LEMMA SameRowsKeep ==
  ASSUME LoopInv, UNCHANGED <<world, loopRuns>>,
         loopJob.pc # "idle", loopJob'.pc \in {"rows", "validate", "write", "replace"},
         loopJob'.rows = loopJob.rows, loopJob'.observed = loopJob.observed,
         DOMAIN loopJob' = DOMAIN loopJob,
         disk'.evidence = disk.evidence, disk'.register = disk.register,
         DOMAIN disk' = DOMAIN disk,
         FinishedOK', ValidatedOK'
  PROVE  LoopInv'
<1>1. RowsOK'
  BY DEF LoopInv, RowsOK
<1>2. EvidenceOK'
  <2>1. \A rows, i : RowRests(rows, i)' <=> RowRests(rows, i)
    BY DEF RowRests, RefRests
  <2> QED BY <2>1 DEF LoopInv, EvidenceOK
<1>3. RegisterOK'
  BY DEF LoopInv, RegisterOK, Loop!RegisterRestsOnItsRun
<1> QED BY <1>1, <1>2, <1>3 DEF LoopInv

\* The steps between the last row and the temporary file change no row and no evidence.
LEMMA LoopFinishes ==
  ASSUME LoopInv, Loop!FinishRows
  PROVE  LoopInv'
<1>1. UNCHANGED <<world, disk, loopRuns>> /\ loopJob.pc = "rows"
      /\ Len(loopJob.rows) = Len(world.fixtures)
  BY DEF Loop!FinishRows
<1>2. CASE loopJob' = Loop!NoJob
  <2>1. world'.fixtures \in LoopFixtures
    BY <1>1 DEF LoopInv
  <2> QED BY <1>1, <1>2, <2>1, LoopStops
<1>3. CASE Loop!NoDuplicates(LoopIds) /\ loopJob' = [loopJob EXCEPT !.pc = "validate"]
  <2>1. DOMAIN loopJob = {"pc", "rows", "observed"}
    BY DEF LoopInv
  <2>2. /\ loopJob'.pc = "validate" /\ loopJob'.rows = loopJob.rows
        /\ loopJob'.observed = loopJob.observed
    BY <1>3, <2>1
  <2>3. FinishedOK' /\ ValidatedOK'
    BY <1>1, <1>3, <2>2 DEF FinishedOK, ValidatedOK, LoopIds
  <2>4. DOMAIN loopJob' = DOMAIN loopJob
    BY <1>3
  <2> QED BY <1>1, <2>2, <2>3, <2>4, SameRowsKeep
<1> QED BY <1>2, <1>3 DEF Loop!FinishRows, Loop!Die, LoopIds

LEMMA LoopValidates ==
  ASSUME LoopInv, Loop!ValidateRegister
  PROVE  LoopInv'
<1>1. UNCHANGED <<world, disk, loopRuns>> /\ loopJob.pc = "validate"
  BY DEF Loop!ValidateRegister
<1>2. CASE loopJob' = Loop!NoJob
  <2>1. world'.fixtures \in LoopFixtures
    BY <1>1 DEF LoopInv
  <2> QED BY <1>1, <1>2, <2>1, LoopStops
<1>3. CASE Loop!ValidateObj(LoopRegister) = {} /\ loopJob' = [loopJob EXCEPT !.pc = "write"]
  <2>1. DOMAIN loopJob = {"pc", "rows", "observed"}
    BY DEF LoopInv
  <2>2. /\ loopJob'.pc = "write" /\ loopJob'.rows = loopJob.rows
        /\ loopJob'.observed = loopJob.observed
    BY <1>3, <2>1
  <2>3. FinishedOK' /\ ValidatedOK'
    BY <1>1, <1>3, <2>2 DEF LoopInv, FinishedOK, ValidatedOK, LoopIds, LoopRegister
  <2>4. DOMAIN loopJob' = DOMAIN loopJob
    BY <1>3
  <2> QED BY <1>1, <2>2, <2>3, <2>4, SameRowsKeep
<1> QED BY <1>2, <1>3 DEF Loop!ValidateRegister, Loop!Die, Loop!Register, LoopRegister

LEMMA LoopWrites ==
  ASSUME LoopInv, Loop!WriteTmp
  PROVE  LoopInv'
<1>1. /\ UNCHANGED <<world, loopRuns>> /\ loopJob.pc = "write"
      /\ loopJob' = [loopJob EXCEPT !.pc = "replace"]
      /\ disk' = [disk EXCEPT !.tmp = [run |-> loopRuns, rows |-> loopJob.rows]]
  BY DEF Loop!WriteTmp
<1>2. /\ DOMAIN loopJob = {"pc", "rows", "observed"}
      /\ DOMAIN disk = {"evidence", "register", "tmp"}
  BY DEF LoopInv
<1>3. /\ loopJob'.pc = "replace" /\ loopJob'.rows = loopJob.rows
      /\ loopJob'.observed = loopJob.observed /\ DOMAIN loopJob' = DOMAIN loopJob
  BY <1>1, <1>2
<1>4. /\ disk'.evidence = disk.evidence /\ disk'.register = disk.register
      /\ disk'.tmp = [run |-> loopRuns, rows |-> loopJob.rows] /\ DOMAIN disk' = DOMAIN disk
  BY <1>1, <1>2
<1>5. FinishedOK' /\ ValidatedOK'
  BY <1>1, <1>3, <1>4 DEF LoopInv, FinishedOK, ValidatedOK, LoopIds, LoopRegister
<1> QED BY <1>1, <1>3, <1>4, <1>5, SameRowsKeep

\* The rename publishes the rows of the run, and every one of them rests on it.
LEMMA LoopPublishes ==
  ASSUME LoopInv, Loop!Replace
  PROVE  LoopInv'
<1>1. /\ UNCHANGED <<world, loopRuns>> /\ loopJob.pc = "replace" /\ loopJob' = Loop!NoJob
      /\ disk' = [disk EXCEPT !.register = disk.tmp, !.tmp = Loop!NoRegister]
  BY DEF Loop!Replace
<1>2. disk.tmp = [run |-> loopRuns, rows |-> loopJob.rows]
  BY <1>1 DEF LoopInv, ValidatedOK
<1>3. DOMAIN disk = {"evidence", "register", "tmp"}
  BY DEF LoopInv
<1>4. /\ disk'.evidence = disk.evidence /\ DOMAIN disk' = DOMAIN disk
      /\ disk'.register.run = loopRuns /\ disk'.register.rows = loopJob.rows
  BY <1>1, <1>2, <1>3
<1>5. /\ loopJob'.pc = "idle" /\ loopJob'.rows = <<>> /\ loopJob'.observed = {}
      /\ loopJob' = Loop!NoJob /\ DOMAIN loopJob' = {"pc", "rows", "observed"}
  BY <1>1, NothingInProgress
<1>6. world'.fixtures \in LoopFixtures /\ world'.fixtures \in Seq(LoopFixture)
  BY <1>1, FixtureDocuments DEF LoopInv
<1>7. RowsOK' /\ EvidenceOK'
  BY <1>5, <1>6 DEF RowsOK, EvidenceOK
<1>8. FinishedOK' /\ ValidatedOK'
  BY <1>5 DEF FinishedOK, ValidatedOK
<1>9. ASSUME NEW i \in DOMAIN loopJob.rows PROVE RowRests(loopJob.rows, i)
  <2>1. Loop!NoDuplicates(LoopIds)
    BY <1>1 DEF LoopInv, FinishedOK
  <2>2. \A j \in DOMAIN loopJob.rows : j # i => loopJob.rows[j].rowId # loopJob.rows[i].rowId
    BY <2>1 DEF Loop!NoDuplicates, LoopIds
  <2>3. DOMAIN loopJob.rows \subseteq Nat
    BY DEF LoopInv
  <2>4. \A j \in DOMAIN loopJob.rows : j > i => loopJob.rows[j].rowId # loopJob.rows[i].rowId
    BY <2>2, <2>3
  <2> QED BY <2>4 DEF LoopInv, EvidenceOK
<1>10. Loop!ValidateObj([version |-> 2, rows |-> loopJob.rows]) = {}
  BY <1>1 DEF LoopInv, ValidatedOK, LoopRegister
<1>11. Loop!RegisterRestsOnItsRun'
  BY <1>1, <1>4, <1>9, <1>10 DEF Loop!RegisterRestsOnItsRun, RowRests, RefRests
<1>12. RegisterOK'
  BY <1>1, <1>4, <1>5, <1>11 DEF LoopInv, RegisterOK
<1> QED BY <1>1, <1>4, <1>5, <1>6, <1>7, <1>8, <1>12 DEF LoopInv

LEMMA LoopStepKeeps == LoopInv /\ [Loop!Next]_loopVars => LoopInv'
<1> SUFFICES ASSUME LoopInv, [Loop!Next]_loopVars PROVE LoopInv'
  OBVIOUS
<1>1. CASE Loop!Retool
  <2>1. world'.fixtures \in LoopFixtures
    BY <1>1 DEF Loop!Retool
  <2>2. loopJob' = Loop!NoJob /\ UNCHANGED <<disk, loopRuns>>
    BY <1>1 DEF Loop!Retool, LoopInv
  <2> QED BY <2>1, <2>2, LoopStops
<1>2. CASE Loop!Begin
  BY <1>2, LoopBegins
<1>3. CASE Loop!EmitOne
  BY <1>3, LoopEmits
<1>4. CASE Loop!FinishRows
  BY <1>4, LoopFinishes
<1>5. CASE Loop!ValidateRegister
  BY <1>5, LoopValidates
<1>6. CASE Loop!WriteTmp
  BY <1>6, LoopWrites
<1>7. CASE Loop!Replace
  BY <1>7, LoopPublishes
<1>8. CASE Loop!Killed
  <2>1. loopJob' = Loop!NoJob /\ UNCHANGED <<disk, loopRuns, world>>
    BY <1>8 DEF Loop!Killed, Loop!Die
  <2> QED BY <2>1, LoopStops DEF LoopInv
<1>9. CASE UNCHANGED loopVars
  <2>1. UNCHANGED <<world, loopJob, disk, loopRuns>>
    BY <1>9 DEF loopVars
  <2>2. CASE loopJob.pc = "idle"
    BY <2>1, <2>2, LoopStops DEF LoopInv
  <2>3. CASE loopJob.pc # "idle"
    <3>1. FinishedOK' /\ ValidatedOK'
      BY <2>1 DEF LoopInv, FinishedOK, LoopIds, ValidatedOK, LoopRegister
    <3>2. loopJob'.pc \in {"rows", "validate", "write", "replace"}
      BY <2>1, <2>3 DEF LoopInv
    <3> QED BY <2>1, <2>3, <3>1, <3>2, SameRowsKeep
  <2> QED BY <2>2, <2>3
<1> QED BY <1>1, <1>2, <1>3, <1>4, <1>5, <1>6, <1>7, <1>8, <1>9 DEF Loop!Next

LEMMA LoopFlow == FlowSpec => [](chosen = "loop" => LoopInv)
<1>1. FlowInit => (chosen = "loop" => LoopInv)
  BY LoopInitially DEF FlowInit
<1>2. (chosen = "loop" => LoopInv) /\ [FlowNext]_flowVars => (chosen = "loop" => LoopInv)'
  <2> SUFFICES ASSUME chosen = "loop" => LoopInv, [FlowNext]_flowVars, chosen' = "loop"
               PROVE  LoopInv'
    OBVIOUS
  <2>1. chosen = "loop" /\ [Loop!Next]_loopVars
    BY DEF FlowNext, flowVars, loopVars
  <2> QED BY <2>1, LoopStepKeeps
<1> QED BY <1>1, <1>2, PTL DEF FlowSpec

\* The register on disk is one whole validated run's, and while that run is the
\* last, every row rests on evidence of that run.  (run_pressure_loop_forcing.py)
THEOREM RegisterIsGrounded == FlowSpec => []RegisterRestsOnItsRun
<1>1. (chosen = "loop" => LoopInv) => RegisterRestsOnItsRun
  BY DEF LoopInv, RegisterOK, RegisterRestsOnItsRun
<1> QED BY <1>1, LoopFlow, PTL

\* A register about to be validated is one the validator can only refuse for an
\* enumerated field or for a partial row without its absent sibling.
LEMMA InvariantMeetsValidator ==
  ASSUME LoopInv, loopJob.pc = "validate"
  PROVE  Loop!ValidateObj(Loop!Register) \subseteq {"enum", "partial_sibling"}
<1> DEFINE rows == loopJob.rows
           reg  == Loop!Register
<1>1. /\ world.fixtures \in Seq(LoopFixture) /\ world.fixtures # <<>>
      /\ \A i \in DOMAIN world.fixtures : world.fixtures[i].path \in LoopPaths
  BY FixtureDocuments DEF LoopInv
<1>2. Len(rows) = Len(world.fixtures) /\ Loop!NoDuplicates(LoopIds)
  BY DEF LoopInv, FinishedOK
<1>3. rows \in Seq({Loop!EmitRow(x) : x \in LoopFixture})
  BY DEF LoopInv
<1>4. reg.version = 2 /\ reg.rows = rows
  BY DEF Loop!Register
<1>5. rows # <<>>
  BY <1>1, <1>2
<1>6. ASSUME NEW i \in DOMAIN rows, NEW siblings
      PROVE  Loop!RowCodes(rows[i], siblings) \subseteq {"enum", "partial_sibling"}
  <2>1. i \in 1 .. Len(rows) /\ i \in DOMAIN world.fixtures
    BY <1>1, <1>2, <1>3
  <2>2. /\ rows[i] = Loop!EmitRow(world.fixtures[i]) /\ Loop!FixtureCode(world.fixtures[i]) = Ok
        /\ world.fixtures[i].path \in LoopPaths
    BY <1>1, <2>1 DEF LoopInv, RowsOK
  <2> QED BY <2>2, EmittedRowIsRegular
<1>7. Loop!NoDuplicates([i \in DOMAIN rows |-> rows[i].rowId])
  BY <1>2 DEF LoopIds
<1> DEFINE w1 == reg.version # 2
           w2 == reg.rows = <<>>
           w3 == ~Loop!NoDuplicates([i \in DOMAIN reg.rows |-> reg.rows[i].rowId])
           codes == UNION {Loop!RowCodes(reg.rows[i], {reg.rows[j] : j \in DOMAIN reg.rows \ {i}}) :
                             i \in DOMAIN reg.rows}
<1>8. Loop!ValidateObj(reg) =
        Loop!AllOf({Loop!Refuse("schema_version", w1), Loop!Refuse("schema", w2),
                    Loop!Refuse("duplicate_row", w3)}) \cup codes
  BY DEF Loop!ValidateObj
<1>9. ~w1 /\ ~w2 /\ ~w3
  BY <1>4, <1>5, <1>7
<1>10. Loop!AllOf({Loop!Refuse("schema_version", w1), Loop!Refuse("schema", w2),
                   Loop!Refuse("duplicate_row", w3)}) = {}
  <2> HIDE DEF w1, w2, w3
  <2> QED BY <1>9 DEF Loop!AllOf, Loop!Refuse
<1>11. codes \subseteq {"enum", "partial_sibling"}
  <2> SUFFICES ASSUME NEW c \in codes PROVE c \in {"enum", "partial_sibling"}
    OBVIOUS
  <2>1. PICK i \in DOMAIN reg.rows :
          c \in Loop!RowCodes(reg.rows[i], {reg.rows[j] : j \in DOMAIN reg.rows \ {i}})
    OBVIOUS
  <2>2. PICK siblings : siblings = {reg.rows[j] : j \in DOMAIN reg.rows \ {i}}
    OBVIOUS
  <2>3. i \in DOMAIN rows /\ c \in Loop!RowCodes(rows[i], siblings)
    BY <1>4, <2>1, <2>2
  <2> QED BY <1>6, <2>3
<1> HIDE DEF w1, w2, w3, codes, reg
<1>12. Loop!ValidateObj(reg) \subseteq {"enum", "partial_sibling"}
  BY <1>8, <1>10, <1>11
<1> QED BY <1>12 DEF reg

\* The runner and the validator agree on what a row is.
\* (validate_pressure_loop_register.py, run_pressure_loop_forcing.py)
THEOREM RunnerAndValidatorAgree == FlowSpec => []RunnerMeetsValidator
<1>1. (chosen = "loop" => LoopInv) => RunnerMeetsValidator
  BY InvariantMeetsValidator DEF RunnerMeetsValidator, Loop!RunnerMeetsValidator
<1> QED BY <1>1, LoopFlow, PTL

-----------------------------------------------------------------------------
(* The domain tools                                                        *)

\* No diagnostic, no condition that raises one.
LEMMA NoneRaised ==
  ASSUME NEW checks,
         \/ Domain!AllOf(checks) = {}
         \/ Generalism!AllOf(checks) = {}
         \/ Generalism!Coverage!AllOf(checks) = {}
  PROVE  \A c \in checks : ~c.when
BY DEF Domain!AllOf, Generalism!AllOf, Generalism!Coverage!AllOf

\* A proposal without a diagnostic cites only what its corpus lets it cite.
LEMMA CitesAreCitable ==
  ASSUME NEW p, NEW c, Domain!ValidateArtifact("proposal", p, c) = {}
  PROVE  /\ Domain!Cited(p) \subseteq Domain!Citable(c)
         /\ p.corpus = c.id
<1> DEFINE w1 == p.terms = {} \/ \E t \in p.terms : t.cites = {}
           w2 == p.corpus # c.id
           mismatch == Domain!AllOf({Domain!Refuse("proposal.corpus_mismatch", w2)})
           cites == UNION {t.cites : t \in p.terms}
<1>1. Domain!ProposalShape(p) = {} /\ Domain!ProposalRules(p, c) = {}
  BY DEF Domain!ValidateArtifact
<1>2. /\ mismatch = {}
      /\ \A s \in cites : Domain!CheckSource(s, c) = {}
      /\ \A e \in p.edges : Domain!CheckSource(e.source, c) = {}
  <2>1. mismatch \cup (UNION {Domain!CheckSource(s, c) : s \in cites})
          \cup UNION {Domain!CheckSource(e.source, c) : e \in p.edges} = {}
    BY <1>1 DEF Domain!ProposalRules
  <2> DEFINE U1 == UNION {Domain!CheckSource(s, c) : s \in cites}
             U2 == UNION {Domain!CheckSource(e.source, c) : e \in p.edges}
  <2>2. mismatch = {} /\ U1 = {} /\ U2 = {}
    <3>1. mismatch \cup U1 \cup U2 = {}
      BY <2>1
    <3> HIDE DEF mismatch, U1, U2
    <3> QED BY <3>1
  <2>3. \A s \in cites : Domain!CheckSource(s, c) \subseteq U1
    <3> HIDE DEF cites
    <3> QED OBVIOUS
  <2>4. \A e \in p.edges : Domain!CheckSource(e.source, c) \subseteq U2
    OBVIOUS
  <2> HIDE DEF mismatch, cites, U1, U2
  <2> QED BY <2>2, <2>3, <2>4
<1>3. ~w2
  <2> DEFINE C == {Domain!Refuse("proposal.corpus_mismatch", w2)}
  <2>1. Domain!AllOf(C) = {}
    BY <1>2
  <2>2. \A k \in C : ~k.when
    <3> HIDE DEF C
    <3> QED BY <2>1, NoneRaised
  <2> HIDE DEF w2
  <2> QED BY <2>2 DEF Domain!Refuse
<1>4. \A s : Domain!CheckSource(s, c) = {} => s \in Domain!Citable(c)
  BY DEF Domain!CheckSource
<1>5. \A s \in Domain!Cited(p) : Domain!CheckSource(s, c) = {}
  <2> HIDE DEF mismatch
  <2> QED BY <1>2 DEF Domain!Cited
<1> QED BY <1>3, <1>4, <1>5

\* What the generator builds of a set of observations rests on its rows, and every
\* row is built into a term that cites its source.
LEMMA TermsRestOnRows ==
  ASSUME NEW o
  PROVE  LET p    == Domain!Build(o)
             rows == Domain!Names(o.rows)
         IN  /\ {<<t.dim, t.value>> : t \in p.terms} = {<<r.dim, r.value>> : r \in rows}
             /\ \A r \in rows : \E t \in p.terms :
                   t.dim = r.dim /\ t.value = r.value /\ r.prov.source \in t.cites
<1> DEFINE rows == Domain!Names(o.rows)
           conf(r) == Domain!Confidence(r.dim)
           core(r) == r.dim = "expressibility" /\ r.value = "m5"
           asks(r) == {q \in {"editorial", "frontier"} :
                           \/ q = "editorial" /\ r.dim \in Domain!EditorialDimensions
                           \/ q = "frontier" /\ r.value = "m6"}
           cites(r) == {s.prov.source : s \in {t \in rows : t.dim = r.dim /\ t.value = r.value}}
           term(r) == [dim |-> r.dim, value |-> r.value, confidence |-> conf(r),
                       toCore |-> core(r), questions |-> asks(r), cites |-> cites(r)]
           terms == Domain!Build(o).terms
<1>1. terms = {term(r) : r \in rows}
  BY DEF Domain!Build, Domain!CandidateTerms
<1>2. \A r \in rows : r.prov.source \in cites(r)
  <2> HIDE DEF rows
  <2> QED OBVIOUS
<1>3. \A r : term(r).dim = r.dim /\ term(r).value = r.value /\ term(r).cites = cites(r)
  <2> HIDE DEF conf, core, asks, cites
  <2> QED OBVIOUS
<1> HIDE DEF rows, term, cites, terms
<1>4. {<<t.dim, t.value>> : t \in terms} = {<<r.dim, r.value>> : r \in rows}
  BY <1>1, <1>3
<1>5. \A r \in rows : \E t \in terms :
         t.dim = r.dim /\ t.value = r.value /\ r.prov.source \in t.cites
  BY <1>1, <1>2, <1>3
<1> QED BY <1>4, <1>5 DEF rows, terms

\* A build without an error looked at the sources, unless told not to.
LEMMA BuiltOfTheSources ==
  ASSUME NEW o, NEW c, NEW d, NEW u, u \in BOOLEAN, Domain!BuildErrors(o, c, d, u) = {}
  PROVE  u \/ d = o.hash
<1> SUFFICES ASSUME ~u PROVE d = o.hash
  OBVIOUS
<1> DEFINE w1 == d = Domain!Unavailable
           w2 == d # Domain!Unavailable /\ d # o.hash
           C == {Domain!Refuse("proposal.corpus_unavailable", w1),
                 Domain!Refuse("proposal.corpus_rebind", w2)}
<1>1. Domain!HashErrors(o, d, u) = {}
  BY DEF Domain!BuildErrors
<1>2. Domain!AllOf(C) = {}
  BY <1>1 DEF Domain!HashErrors
<1>3. ~w1 /\ ~w2
  <2> HIDE DEF w1, w2
  <2>1. \A k \in C : ~k.when
    <3> HIDE DEF C
    <3> QED BY <1>2, NoneRaised
  <2> QED BY <2>1 DEF Domain!Refuse
<1> QED BY <1>3

\* The verdict of a passed --check.
LEMMA CheckIsGrounded ==
  ASSUME NEW u \in BOOLEAN, Domain!CheckProposal(u)
  PROVE  Domain!CheckedProposalIsGrounded'
<1> SUFFICES ASSUME Domain!CheckCodes(u) = {} PROVE Domain!CheckedProposalIsGrounded'
  BY DEF Domain!CheckProposal, Domain!CheckedProposalIsGrounded, Domain!Verdict
<1>1. /\ Domain!BuildErrors(observations, corpus, sources, u) = {}
      /\ committed.proposal = Domain!Build(observations)
      /\ Domain!ValidateArtifact("proposal", committed.proposal, corpus) = {}
  <2> DEFINE w == Domain!ValidateArtifact("proposal", committed.proposal, corpus) # {}
             errors == Domain!BuildErrors(observations, corpus, sources, u)
  <2>1. /\ errors = {} /\ committed.proposal = Domain!Build(observations)
        /\ Domain!AllOf({Domain!Refuse("proposal.validation_failed", w)}) = {}
    BY DEF Domain!CheckCodes
  <2>2. ~w
    <3> DEFINE C == {Domain!Refuse("proposal.validation_failed", w)}
    <3>1. Domain!AllOf(C) = {}
      BY <2>1
    <3>2. \A k \in C : ~k.when
      <4> HIDE DEF C
      <4> QED BY <3>1, NoneRaised
    <3> HIDE DEF w
    <3> QED BY <3>2 DEF Domain!Refuse
  <2> QED BY <2>1, <2>2
<1>2. u \/ sources = observations.hash
  BY <1>1, BuiltOfTheSources
<1>3. checked' = Domain!Verdict("check", TRUE, u, committed)
  BY DEF Domain!CheckProposal
<1> QED BY <1>1, <1>2, <1>3, CitesAreCitable, TermsRestOnRows
        DEF Domain!CheckedProposalIsGrounded, Domain!Verdict

LEMMA DomainInitially == Domain!Init => Domain!CheckedProposalIsGrounded
BY DEF Domain!Init, Domain!Unchecked, Domain!CheckedProposalIsGrounded

LEMMA DomainStepKeeps ==
  ASSUME Domain!CheckedProposalIsGrounded, [Domain!Next]_domainVars
  PROVE  Domain!CheckedProposalIsGrounded'
<1>1. CASE checked' = checked
  BY <1>1 DEF Domain!CheckedProposalIsGrounded
<1>2. CASE Domain!CorpusNext
  <2>1. CASE \E u \in BOOLEAN : Domain!CheckProposal(u)
    BY <2>1, CheckIsGrounded
  <2>2. CASE \E u \in BOOLEAN : Domain!EmitProposal(u)
    BY <2>2 DEF Domain!EmitProposal, Domain!Verdict, Domain!CheckedProposalIsGrounded
  <2>3. CASE Domain!EditCorpus \/ Domain!EditSources \/ Domain!EditObservations
    <3>1. checked' = checked
      BY <2>3 DEF Domain!EditCorpus, Domain!EditSources, Domain!EditObservations
    <3> QED BY <3>1, <1>1
  <2> QED BY <1>2, <2>1, <2>2, <2>3 DEF Domain!CorpusNext
<1>3. CASE Domain!DialectNext \/ Domain!IntakeNext
  <2>1. checked' = checked
    BY <1>3 DEF Domain!DialectNext, Domain!IntakeNext, Domain!corpusVars
  <2> QED BY <2>1, <1>1
<1>4. CASE UNCHANGED domainVars
  <2>1. checked' = checked
    BY <1>4 DEF domainVars
  <2> QED BY <2>1, <1>1
<1> QED BY <1>2, <1>3, <1>4 DEF Domain!Next

\* A --check that passes vouches for the corpus, the sources, the observations and the
\* committed proposal it read.  (generate_proposal_from_observations.main)
THEOREM CheckIsEarned == FlowSpec => []CheckedProposalIsGrounded
<1>1. FlowInit => CheckedProposalIsGrounded
  BY DomainInitially DEF FlowInit, CheckedProposalIsGrounded
<1>2. CheckedProposalIsGrounded /\ [FlowNext]_flowVars => CheckedProposalIsGrounded'
  <2> SUFFICES ASSUME CheckedProposalIsGrounded, [FlowNext]_flowVars, chosen' = "domain"
               PROVE  Domain!CheckedProposalIsGrounded'
    BY DEF CheckedProposalIsGrounded
  <2>1. chosen = "domain" /\ [Domain!Next]_domainVars
    BY DEF FlowNext, flowVars, domainVars
  <2> QED BY <2>1, DomainStepKeeps DEF CheckedProposalIsGrounded
<1> QED BY <1>1, <1>2, PTL DEF FlowSpec

\* Every executable edge of an artifact has an accepted and versioned provenance.
Versioned(a) ==
  \A e \in Domain!ExecutableEdges(a) : \E p \in Domain!Names(a.provenance) :
     p.subject = e.id /\ p.status = "accepted" /\ p.versioned

\* While nobody edits, the job's artifact is the one on disk, and it was admitted.
IntakeInv ==
  /\ conform = [step |-> conform.step, artifact |-> conform.artifact, red |-> conform.red,
                stable |-> conform.stable]
  /\ conform.step # "idle" /\ conform.stable => conform.artifact = artifact
  /\ conform.step \in {"admitted", "reduced"} /\ conform.stable => Versioned(conform.artifact)
  /\ Domain!ConformantIsExact

\* The classifier admits no artifact with an edge that nobody accepted or versioned.
LEMMA AdmittedIsVersioned ==
  ASSUME NEW a, NEW v, Domain!Classify(a, Domain!GoodProfile, v) = {}
  PROVE  Versioned(a)
<1> DEFINE C(e) == {
             Domain!Refuse("intake.unregistered_capability", e.to \notin v.features),
             Domain!Refuse("intake.unversioned_mapping",
                           ~\E p \in Domain!FirstAccepted(a, e.id) : p.versioned),
             Domain!Refuse("intake.provenance_incomplete",
                           ~\E p \in Domain!FirstAccepted(a, e.id) : p.hashed),
             Domain!Refuse("intake.ambiguous_mapping",
                    \E f \in Domain!ExecutableEdges(a) \ {e} : f.from = e.from /\ f.to = e.to)}
<1>1. Domain!EdgeCodes(a, v) = {}
  BY DEF Domain!Classify
<1>2. \A e \in Domain!ExecutableEdges(a) : Domain!AllOf(C(e)) = {}
  <2>1. Domain!EdgeCodes(a, v) = UNION {Domain!AllOf(C(e)) : e \in Domain!ExecutableEdges(a)}
    BY DEF Domain!EdgeCodes
  <2> HIDE DEF C
  <2> QED BY <1>1, <2>1
<1>3. ASSUME NEW e \in Domain!ExecutableEdges(a)
      PROVE  \E p \in Domain!FirstAccepted(a, e.id) : p.versioned
  <2> DEFINE w == ~\E p \in Domain!FirstAccepted(a, e.id) : p.versioned
             refusal == Domain!Refuse("intake.unversioned_mapping", w)
  <2>1. refusal \in C(e)
    OBVIOUS
  <2>2. ~refusal.when
    <3> HIDE DEF C, refusal
    <3> QED BY <1>2, <2>1, NoneRaised
  <2>3. refusal.when = w
    <3> HIDE DEF w
    <3> QED BY DEF Domain!Refuse
  <2> QED BY <2>2, <2>3
<1>4. \A id : \A p \in Domain!FirstAccepted(a, id) :
         p \in Domain!Names(a.provenance) /\ p.subject = id /\ p.status = "accepted"
  BY DEF Domain!FirstAccepted, Domain!Names
<1> QED BY <1>3, <1>4 DEF Versioned

\* What a conformant reduction has: the artifact's executable edges, registered
\* under the artifact's own version.
LEMMA ConformantReduction ==
  ASSUME NEW a, NEW red, NEW r, Domain!ConformCodes(a, red, r, Domain!NoExpectation) = {}
  PROVE  LET caps == {b.feature : b \in Domain!Names(Domain!ExecutableBindings(red))}
         IN  /\ caps = {e.to : e \in Domain!ExecutableEdges(a)}
             /\ caps \subseteq Domain!Names(Domain!Field(r.rows, "id"))
             /\ r.version = a.intake.profile
<1> DEFINE bindings == Domain!Names(Domain!ExecutableBindings(red))
           edges == Domain!ExecutableEdges(a)
           ids == Domain!Names(Domain!Field(r.rows, "id"))
<1>1. Domain!ReductionCodes(a, red) = {} /\ Domain!RegistryCodes(a, red, r) = {}
  BY DEF Domain!ConformCodes
<1>2. bindings = {Domain!Binding(e) : e \in edges}
  <2> DEFINE w == \/ red.domain # a.domain
                  \/ ~Domain!NoDuplicates(Domain!ExecutableBindings(red))
                  \/ bindings # {Domain!Binding(e) : e \in edges}
             refusal == Domain!Refuse("conformance.reduction_incomplete", w)
  <2>1. Domain!AllOf({refusal}) = {}
    BY <1>1 DEF Domain!ReductionCodes
  <2>2. ~refusal.when
    <3> HIDE DEF refusal
    <3> QED BY <2>1, NoneRaised
  <2>3. refusal.when = w
    <3> HIDE DEF w
    <3> QED BY DEF Domain!Refuse
  <2> QED BY <2>2, <2>3
<1>3. {b.feature : b \in bindings} = {e.to : e \in edges}
  <2>1. \A e : Domain!Binding(e).feature = e.to
    BY DEF Domain!Binding
  <2> HIDE DEF bindings, edges
  <2> QED BY <1>2, <2>1
<1> DEFINE refused == Domain!ValidateRegistry(r, a.intake.profile)
<1>4. refused = Ok
  BY <1>1 DEF Domain!RegistryCodes, Domain!Ok, Ok
<1>5. r.version = a.intake.profile
  <2> DEFINE w1 == ~r.wellFormed \/ ~Domain!NoDuplicates(Domain!Field(r.rows, "id"))
             w2 == r.version # a.intake.profile
             C == <<Domain!Refuse("conformance.malformed", w1),
                    Domain!Refuse("conformance.stale_registry", w2)>>
  <2>1. Domain!FirstOf(C) = Ok
    BY <1>4 DEF Domain!ValidateRegistry
  <2>2. FirstOf(C) = Ok
    <3> HIDE DEF C
    <3> QED BY <2>1 DEF Domain!FirstOf, FirstOf, Domain!Ok, Ok
  <2> HIDE DEF w1, w2
  <2>3. DOMAIN C = 1 .. 2 /\ 2 \in Nat
    OBVIOUS
  <2>4. \A i \in 1 .. 2 : C[i].when => C[i].code # Ok
    BY DEF Domain!Refuse, Ok
  <2>5. C[2].when = w2
    BY DEF Domain!Refuse
  <2>6. \A i \in 1 .. 2 : ~C[i].when
    <3> HIDE DEF C
    <3> QED BY <2>2, <2>3, <2>4, FirstOfOk
  <2>7. ~C[2].when
    <3> HIDE DEF C
    <3> QED BY <2>6
  <2>8. ~w2
    BY <2>5, <2>7
  <2> QED BY <2>8 DEF w2
<1>6. {b.feature : b \in bindings} \subseteq ids
  <2> DEFINE category(name) == (CHOOSE x \in Domain!Names(r.rows) : x.id = name).category
             w1 == \/ \E f \in Domain!Names(a.features) : f.name \notin ids
                   \/ \E b \in bindings : b.feature \notin ids
             w2 == \E f \in Domain!Names(a.features) :
                         f.name \in ids /\ category(f.name) # f.kind
             C == {Domain!Refuse("conformance.unregistered_capability", w1),
                   Domain!Refuse("conformance.category_mismatch", w2)}
  <2>1. Domain!AllOf(C) = {}
    BY <1>1, <1>4 DEF Domain!RegistryCodes, Domain!Ok, Ok
  <2>2. \A c \in C : ~c.when
    <3> HIDE DEF C
    <3> QED BY <2>1, NoneRaised
  <2>3. ~w1
    <3> HIDE DEF w1, w2
    <3> QED BY <2>2 DEF Domain!Refuse
  <2> HIDE DEF bindings, ids
  <2> QED BY <2>3
<1> QED BY <1>3, <1>5, <1>6

LEMMA IntakeInitially == Domain!Init => IntakeInv
BY DEF Domain!Init, IntakeInv, Domain!NotConforming, Domain!Unconformed, Domain!ConformantIsExact

\* An admitted artifact that stood still meanwhile is the one that was classified.
LEMMA IntakeAdmits ==
  ASSUME IntakeInv, Domain!Admit
  PROVE  IntakeInv'
<1>1. CASE Domain!Classify(artifact, Domain!GoodProfile, vocabulary) = {}
  <2>1. /\ conform.step = "read" /\ conform' = [conform EXCEPT !.step = "admitted"]
        /\ conformed' = conformed /\ artifact' = artifact
    BY <1>1 DEF Domain!Admit
  <2>2. Versioned(artifact)
    BY <1>1, AdmittedIsVersioned
  <2>3. /\ conform'.step = "admitted" /\ conform'.artifact = conform.artifact
        /\ conform'.stable = conform.stable /\ conform'.red = conform.red
        /\ conform' = [step |-> conform'.step, artifact |-> conform'.artifact,
                       red |-> conform'.red, stable |-> conform'.stable]
    BY <2>1 DEF IntakeInv
  <2>4. conform.stable => conform.artifact = artifact
    BY <2>1 DEF IntakeInv
  <2>5. Domain!ConformantIsExact'
    BY <2>1 DEF IntakeInv, Domain!ConformantIsExact
  <2>6. (conform.stable => Versioned(conform.artifact))'
    BY <2>2, <2>3, <2>4 DEF Versioned
  <2> QED BY <2>1, <2>3, <2>4, <2>5, <2>6 DEF IntakeInv
<1>2. CASE Domain!Classify(artifact, Domain!GoodProfile, vocabulary) # {}
  <2>1. conform' = Domain!NotConforming /\ conformed' = Domain!Refused(conform)
    BY <1>2 DEF Domain!Admit
  <2> QED BY <2>1 DEF IntakeInv, Domain!NotConforming, Domain!Refused, Domain!ConformantIsExact
<1> QED BY <1>1, <1>2

LEMMA IntakeReduces ==
  ASSUME IntakeInv, Domain!Reduce
  PROVE  IntakeInv'
<1>1. CASE conform' = Domain!NotConforming /\ conformed' = Domain!Refused(conform)
  BY <1>1 DEF IntakeInv, Domain!NotConforming, Domain!Refused, Domain!ConformantIsExact
<1>2. CASE \E r : conform' = [conform EXCEPT !.step = "reduced", !.red = r] /\ conformed' = conformed
  <2>1. PICK r : conform' = [conform EXCEPT !.step = "reduced", !.red = r] /\ conformed' = conformed
    BY <1>2
  <2>2. conform.step = "admitted" /\ artifact' = artifact
    BY DEF Domain!Reduce
  <2>3. /\ conform'.step = "reduced" /\ conform'.artifact = conform.artifact
        /\ conform'.stable = conform.stable
        /\ conform' = [step |-> conform'.step, artifact |-> conform'.artifact,
                       red |-> conform'.red, stable |-> conform'.stable]
    BY <2>1 DEF IntakeInv
  <2>4. conform.stable => conform.artifact = artifact /\ Versioned(conform.artifact)
    BY <2>2 DEF IntakeInv
  <2>5. Domain!ConformantIsExact'
    BY <2>1 DEF IntakeInv, Domain!ConformantIsExact
  <2>6. (conform.stable => Versioned(conform.artifact))'
    BY <2>3, <2>4 DEF Versioned
  <2> QED BY <2>2, <2>3, <2>4, <2>5, <2>6 DEF IntakeInv
<1> QED BY <1>1, <1>2 DEF Domain!Reduce

LEMMA IntakeJudges ==
  ASSUME IntakeInv, Domain!Judge
  PROVE  IntakeInv'
<1> DEFINE ok   == Domain!ConformCodes(conform.artifact, conform.red, registry,
                                       Domain!NoExpectation) = {}
           caps == {b.feature : b \in Domain!Names(Domain!ExecutableBindings(conform.red))}
<1>1. /\ conform.step = "reduced" /\ conform' = Domain!NotConforming
      /\ conformed' = [done |-> TRUE, artifact |-> conform.artifact, stable |-> conform.stable,
                       conformant |-> ok, vocabulary |-> vocabulary, registry |-> registry,
                       capabilities |-> caps]
  BY DEF Domain!Judge
<1>2. ok => /\ caps = {e.to : e \in Domain!ExecutableEdges(conform.artifact)}
            /\ caps \subseteq Domain!Names(Domain!Field(registry.rows, "id"))
            /\ registry.version = conform.artifact.intake.profile
  BY ConformantReduction
<1>3. conform.stable => Versioned(conform.artifact)
  BY <1>1 DEF IntakeInv
<1> HIDE DEF ok, caps
<1>4. /\ conformed'.conformant = ok /\ conformed'.artifact = conform.artifact
      /\ conformed'.stable = conform.stable /\ conformed'.registry = registry
      /\ conformed'.capabilities = caps
  BY <1>1
<1>5. Domain!ConformantIsExact'
  BY <1>2, <1>3, <1>4 DEF Domain!ConformantIsExact, Versioned
<1> QED BY <1>1, <1>5 DEF IntakeInv, Domain!NotConforming

\* An edit while a job runs is remembered by the job.
LEMMA IntakeIsEdited ==
  ASSUME IntakeInv, Domain!EditArtifact \/ Domain!EditRegistry \/ Domain!EditVocabulary
  PROVE  IntakeInv'
<1>1. conformed' = conformed
  BY DEF Domain!EditArtifact, Domain!EditRegistry, Domain!EditVocabulary
<1>2. Domain!ConformantIsExact'
  BY <1>1 DEF IntakeInv, Domain!ConformantIsExact
<1>3. CASE conform' = [conform EXCEPT !.stable = FALSE]
  BY <1>2, <1>3 DEF IntakeInv
<1>4. CASE conform' = conform /\ artifact' = artifact
  BY <1>2, <1>4 DEF IntakeInv, Versioned
<1> QED BY <1>3, <1>4 DEF Domain!EditArtifact, Domain!EditRegistry, Domain!EditVocabulary

LEMMA IntakeStepKeeps ==
  ASSUME IntakeInv, [Domain!Next]_domainVars
  PROVE  IntakeInv'
<1>1. CASE UNCHANGED <<artifact, conform, conformed>>
  BY <1>1 DEF IntakeInv, Versioned, Domain!ConformantIsExact
<1>2. CASE Domain!BeginConform
  BY <1>2 DEF IntakeInv, Domain!BeginConform, Domain!NotConforming, Domain!ConformantIsExact
<1>3. CASE Domain!CorpusNext \/ Domain!DialectNext
  BY <1>1, <1>3 DEF Domain!CorpusNext, Domain!DialectNext, Domain!intakeVars
<1>4. CASE UNCHANGED domainVars
  BY <1>1, <1>4 DEF domainVars
<1> QED BY <1>2, <1>3, <1>4, IntakeAdmits, IntakeReduces, IntakeJudges, IntakeIsEdited
        DEF Domain!Next, Domain!IntakeNext

\* A conformant verdict about files that stood still is exact, whatever the reducer
\* made of the artifact.  (classify_m7_intake, check_m7_reduction_conformance)
THEOREM ConformanceIsExact == FlowSpec => []ConformantIsExact
<1>1. FlowInit => (chosen = "domain" => IntakeInv)
  BY IntakeInitially DEF FlowInit
<1>2. (chosen = "domain" => IntakeInv) /\ [FlowNext]_flowVars => (chosen = "domain" => IntakeInv)'
  <2> SUFFICES ASSUME chosen = "domain" => IntakeInv, [FlowNext]_flowVars, chosen' = "domain"
               PROVE  IntakeInv'
    OBVIOUS
  <2>1. chosen = "domain" /\ [Domain!Next]_domainVars
    BY DEF FlowNext, flowVars, domainVars
  <2> QED BY <2>1, IntakeStepKeeps
<1>3. (chosen = "domain" => IntakeInv) => ConformantIsExact
  BY DEF IntakeInv, ConformantIsExact
<1> QED BY <1>1, <1>2, <1>3, PTL DEF FlowSpec

-----------------------------------------------------------------------------
(* The generalism matrix                                                   *)

\* The matrix counts as the rest of the project does.
LEMMA SameCount == \A S : Generalism!Cardinality(S) = Cardinality(S)
BY DEF Generalism!Cardinality, Cardinality

Counted(b, verdict) == {i \in DOMAIN b.cases : Generalism!VerdictOf(b.cases[i].cause) = verdict}

\* Evidence without a diagnostic is signed, of one trace, and of this envelope.
LEMMA EvidenceIsBound ==
  ASSUME NEW f, NEW v \in BOOLEAN, Generalism!ValidateShape(f, v) = {}
  PROVE  f.report.signed /\ f.report.trace = f.trace /\ f.trace.result = f.env.body
<1> DEFINE w1 == f.env.refs.report # f.report
           w2 == ~f.report.ok \/ ~f.report.signed
           w3 == f.report.package # f.env.refs.package
           w4 == ~v
           w5 == v /\ (~f.package.signed \/ f.package.trace # f.trace)
           w6 == v /\ f.report # Generalism!Report(f.trace, f.package)
           w7 == f.trace.result # f.env.body
           C == {Generalism!Refuse("hash", w1), Generalism!Refuse("evidence_ref", w2),
                 Generalism!Refuse("evidence_ref", w3)}
           D == {Generalism!Refuse("evidence_ref", w4), Generalism!Refuse("evidence_ref", w5),
                 Generalism!Refuse("evidence_ref", w6)}
           E == {Generalism!Refuse("evidence_binding", w7)}
<1>1. /\ Generalism!ValidateVerificationReport(f, v) = {}
      /\ Generalism!ValidateResultBinding(f) = {}
  BY DEF Generalism!ValidateShape
<1>2. /\ Generalism!AllOf(C) = {} /\ Generalism!AuthoritativeReport(f.report, f, v) = {}
      /\ Generalism!AllOf(E) = {}
  BY <1>1 DEF Generalism!ValidateVerificationReport, Generalism!ValidateResultBinding
<1>3. Generalism!AllOf(D) = {}
  BY <1>2 DEF Generalism!AuthoritativeReport
<1>4. \A c \in C \cup D \cup E : ~c.when
  <2> HIDE DEF C, D, E
  <2> QED BY <1>2, <1>3, NoneRaised
<1>5. ~w2 /\ ~w4 /\ ~w6 /\ ~w7
  <2> HIDE DEF w1, w2, w3, w4, w5, w6, w7
  <2> QED BY <1>4 DEF Generalism!Refuse
<1> QED BY <1>5 DEF Generalism!Report

\* An envelope without a diagnostic that passes counts neither a silent nor a broken
\* case, and its verdict is the one its counts call for.
LEMMA EnvelopeIsConsistent ==
  ASSUME NEW b, Generalism!ValidateInvariants(b) = {}
  PROVE  LET count(v) == Generalism!Count(b.cases, v)
         IN  /\ ~(b.status = "PASS" /\ count("SILENT") + count("BROKEN") > 0)
             /\ b.verdict = CASE count("BROKEN") > 0 -> "BROKEN" [] count("SILENT") > 0 -> "SILENT"
                              [] count("FAITHFUL") > 0 -> "FAITHFUL"
                              [] count("REFUSED") > 0 -> "REFUSED" [] OTHER -> "BROKEN"
<1> DEFINE ids == {a.id : a \in b.adapters}
           profiled == b.requiredAdapters \cup b.optionalAdapters
           required == Generalism!Cardinality({i \in DOMAIN b.cases : b.cases[i].required})
           count(v) == Generalism!Count(b.cases, v)
           expected == CASE count("BROKEN") > 0 -> "BROKEN" [] count("SILENT") > 0 -> "SILENT"
                         [] count("FAITHFUL") > 0 -> "FAITHFUL" [] count("REFUSED") > 0 -> "REFUSED"
                         [] OTHER -> "BROKEN"
           w1 == b.requiredAdapters \cap b.optionalAdapters # {}
           w2 == profiled \ ids # {}
           w3 == \/ ids \ profiled # {}
                 \/ \E a \in b.adapters : a.required # (a.id \in b.requiredAdapters)
           w4 == \E a \in b.adapters : a.required /\ a.status = "SKIPPED"
           w5 == required < b.floor
           w6 == b.requiredRun # required
           w7 == b.status = "PASS" /\ required = 0
           w8 == \E i \in DOMAIN b.cases : b.cases[i].adapter \notin ids
           w9 == \E i \in DOMAIN b.cases, a \in b.adapters :
                    a.id = b.cases[i].adapter /\ a.status = "SKIPPED"
           w10 == \E i \in DOMAIN b.cases :
                    b.cases[i].cause \notin
                       Generalism!CauseByVerdict(Generalism!VerdictOf(b.cases[i].cause))
           w11 == \E v \in Generalism!Names(Generalism!Verdicts) : b.counts[v] # count(v)
           w12 == b.status = "PASS" /\ count("SILENT") + count("BROKEN") > 0
           w13 == b.verdict # expected
           C == {Generalism!Refuse("profile_overlap", w1), Generalism!Refuse("adapter_missing", w2),
                 Generalism!Refuse("profile_membership", w3),
                 Generalism!Refuse("required_adapter_skipped", w4),
                 Generalism!Refuse("required_case_floor", w5),
                 Generalism!Refuse("summary_drift", w6), Generalism!Refuse("vacuous_pass", w7),
                 Generalism!Refuse("case_adapter_missing", w8),
                 Generalism!Refuse("case_adapter_skipped", w9),
                 Generalism!Refuse("verdict_cause", w10), Generalism!Refuse("summary_drift", w11),
                 Generalism!Refuse("bad_profile_pass", w12),
                 Generalism!Refuse("summary_drift", w13)}
<1>1. Generalism!AllOf(C) = {}
  BY DEF Generalism!ValidateInvariants
<1>2. \A c \in C : ~c.when
  <2> HIDE DEF C
  <2> QED BY <1>1, NoneRaised
<1>3. ~w12 /\ ~w13
  <2> HIDE DEF w1, w2, w3, w4, w5, w6, w7, w8, w9, w10, w11, w12, w13
  <2> QED BY <1>2 DEF Generalism!Refuse
<1> HIDE DEF count
<1> QED BY <1>3 DEF count

\* What the gate admits passed the validation, and says PASS and FAITHFUL.
LEMMA GateAdmits ==
  ASSUME NEW f, NEW v \in BOOLEAN, Generalism!GateDiagnostics(f, v) = {}
  PROVE  /\ Generalism!ValidateShape(f, v) = {} /\ Generalism!ValidateInvariants(f.env.body) = {}
         /\ f.env.body.status = "PASS" /\ f.env.body.verdict = "FAITHFUL"
<1> DEFINE b == f.env.body
           requiredIds == {a.id : a \in {x \in b.adapters : x.required}}
           runs_ == {i \in DOMAIN b.cases : b.cases[i].required /\ b.cases[i].adapter \in requiredIds}
           w1 == b.profile # "PR_FAST"
           w2 == b.status # "PASS"
           w3 == b.verdict # "FAITHFUL"
           w4 == b.counts["SILENT"] # 0
           w5 == b.counts["BROKEN"] # 0
           w6 == ~Generalism!NoDuplicates([i \in DOMAIN b.cases |-> b.cases[i].id])
           w7 == requiredIds = {} \/ runs_ = {}
           w8 == \E a \in b.adapters : a.required /\ a.status = "SKIPPED"
           w9 == \E a \in b.adapters : /\ a.required /\ a.status = "RAN"
                                       /\ \A i \in runs_ : b.cases[i].adapter # a.id
           w10 == Generalism!Cardinality({b.cases[i].id : i \in runs_}) < b.floor
           w11 == b.requiredRun # Generalism!Cardinality(runs_)
           C == {Generalism!Refuse("profile", w1), Generalism!Refuse("status", w2),
                 Generalism!Refuse("verdict", w3), Generalism!Refuse("silent", w4),
                 Generalism!Refuse("broken", w5), Generalism!Refuse("duplicate_case", w6),
                 Generalism!Refuse("non_vacuous", w7),
                 Generalism!Refuse("required_adapter_skipped", w8),
                 Generalism!Refuse("required_adapter_uncovered", w9),
                 Generalism!Refuse("required_case_floor", w10),
                 Generalism!Refuse("summary_drift", w11)}
<1>1. Generalism!Validate(f, v) = {} /\ Generalism!AllOf(C) = {}
  BY DEF Generalism!GateDiagnostics
<1>2. \A c \in C : ~c.when
  <2> HIDE DEF C
  <2> QED BY <1>1, NoneRaised
<1>3. ~w2 /\ ~w3
  <2> HIDE DEF w1, w2, w3, w4, w5, w6, w7, w8, w9, w10, w11
  <2> QED BY <1>2 DEF Generalism!Refuse
<1> QED BY <1>1, <1>3 DEF Generalism!Validate

\* The cases of an envelope the runner makes, and what the tools said of them.
RunBody(b) ==
  \E n \in Nat : DOMAIN b.cases = 1 .. n /\ \A i \in 1 .. n : b.cases[i].cause \in Generalism!Causes

\* A passing and faithful envelope of the runner's has a faithful case, and no case
\* that is neither faithful nor governed.
LEMMA FaithfulIsHonest ==
  ASSUME NEW b, RunBody(b), Generalism!ValidateInvariants(b) = {},
         b.status = "PASS", b.verdict = "FAITHFUL"
  PROVE  /\ \A i \in DOMAIN b.cases : b.cases[i].cause \in {Ok, "governed_refusal"}
         /\ \E i \in DOMAIN b.cases : b.cases[i].cause = Ok
<1> DEFINE of(v) == Counted(b, v)
           count(v) == Generalism!Count(b.cases, v)
<1>1. PICK n \in Nat : /\ DOMAIN b.cases = 1 .. n
                       /\ \A i \in 1 .. n : b.cases[i].cause \in Generalism!Causes
  BY DEF RunBody
<1>2. \A v : IsFiniteSet(of(v))
  <2>1. IsFiniteSet(1 .. n)
    BY FS_Interval
  <2>2. \A v : of(v) \subseteq 1 .. n
    BY <1>1 DEF Counted
  <2> QED BY <2>1, <2>2, FS_Subset
<1>3. \A v : count(v) = Cardinality(of(v))
  BY SameCount DEF Generalism!Count, Counted
<1>4. \A v : count(v) \in Nat /\ (count(v) = 0 <=> of(v) = {})
  <2> HIDE DEF of, count
  <2> QED BY <1>2, <1>3, FS_CardinalityType, FS_EmptySet
<1>5. /\ ~(count("SILENT") + count("BROKEN") > 0)
      /\ "FAITHFUL" = CASE count("BROKEN") > 0 -> "BROKEN" [] count("SILENT") > 0 -> "SILENT"
                              [] count("FAITHFUL") > 0 -> "FAITHFUL"
                              [] count("REFUSED") > 0 -> "REFUSED" [] OTHER -> "BROKEN"
  BY EnvelopeIsConsistent
<1>6. of("SILENT") = {} /\ of("BROKEN") = {} /\ of("FAITHFUL") # {}
  <2>1. count("SILENT") = 0 /\ count("BROKEN") = 0 /\ count("FAITHFUL") # 0
    <3> HIDE DEF count, of
    <3> QED BY <1>4, <1>5
  <2> HIDE DEF count, of
  <2> QED BY <1>4, <2>1
<1>7. \A c \in Generalism!Causes :
         /\ Generalism!VerdictOf(c) = "FAITHFUL" => c = Ok
         /\ Generalism!VerdictOf(c) \notin {"SILENT", "BROKEN"} => c \in {Ok, "governed_refusal"}
  BY DEF Generalism!Causes, Generalism!VerdictOf, Generalism!Ok, Ok
<1>8. \A i \in DOMAIN b.cases : Generalism!VerdictOf(b.cases[i].cause) \notin {"SILENT", "BROKEN"}
  BY <1>6 DEF Counted
<1>9. \E i \in DOMAIN b.cases : Generalism!VerdictOf(b.cases[i].cause) = "FAITHFUL"
  BY <1>6 DEF Counted
<1> QED BY <1>1, <1>7, <1>8, <1>9

\* Only a run signs a report, and it signs the trace of the envelope it emits.
GateInv ==
  /\ DOMAIN files = {"have", "env", "trace", "package", "report"}
  /\ DOMAIN files.report = {"trace", "package", "ok", "signed"}
  /\ DOMAIN matrixJob = {"pc", "body"}
  /\ matrixJob.pc # "idle" => RunBody(matrixJob.body)
  /\ \A b \in emitted : RunBody(b)
  /\ files.report.signed => \E b \in emitted : files.report.trace = Generalism!Trace(b)
  /\ Generalism!GateAdmitsOnlyHonest

LEMMA GateInitially == Generalism!Init => GateInv
<1> SUFFICES ASSUME Generalism!Init PROVE GateInv
  OBVIOUS
<1>1. /\ files = Generalism!NoFiles /\ emitted = {} /\ matrixJob = Generalism!NoRun
      /\ admitted.ok = FALSE
  BY DEF Generalism!Init
<1>2. /\ DOMAIN files = {"have", "env", "trace", "package", "report"}
      /\ files.report = Generalism!NoReport
  BY <1>1 DEF Generalism!NoFiles
<1>3. /\ DOMAIN Generalism!NoReport = {"trace", "package", "ok", "signed"}
      /\ ~Generalism!NoReport.signed
  BY DEF Generalism!NoReport
<1>4. DOMAIN matrixJob = {"pc", "body"} /\ matrixJob.pc = "idle"
  BY <1>1 DEF Generalism!NoRun
<1> QED BY <1>1, <1>2, <1>3, <1>4 DEF GateInv, Generalism!GateAdmitsOnlyHonest

\* Whatever the cells and the answers of the tools, a run's envelope is one.
LEMMA RunsMakeBodies ==
  ASSUME NEW cells, NEW first \in Generalism!Causes, NEW second \in Generalism!Causes, NEW adapters
  PROVE  RunBody(Generalism!BuildEnvelope(
                   Generalism!Grouped(cells, <<first, second>>, adapters), adapters))
<1> DEFINE c1 == Generalism!Case(cells[1], first)
           c2 == Generalism!Case(cells[2], second)
           cases == Generalism!Grouped(cells, <<first, second>>, adapters)
           body  == Generalism!BuildEnvelope(cases, adapters)
<1>1. c1.cause \in Generalism!Causes /\ c2.cause \in Generalism!Causes
  BY DEF Generalism!Case
<1>2. cases = <<c1>> \o <<c2>> \/ cases = <<c1>> \o << >>
  <2> HIDE DEF c1, c2
  <2> QED BY DEF Generalism!Grouped, c1, c2
<1>3. body.cases = cases
  <2> HIDE DEF cases
  <2> QED BY DEF Generalism!BuildEnvelope
<1> HIDE DEF c1, c2, cases, body
<1>4. \A s, t \in Seq({c1, c2}) :
         DOMAIN (s \o t) = 1 .. Len(s) + Len(t) /\ \A i \in DOMAIN (s \o t) : (s \o t)[i] \in {c1, c2}
  <2> SUFFICES ASSUME NEW s \in Seq({c1, c2}), NEW t \in Seq({c1, c2})
               PROVE  /\ DOMAIN (s \o t) = 1 .. Len(s) + Len(t)
                      /\ \A i \in DOMAIN (s \o t) : (s \o t)[i] \in {c1, c2}
    OBVIOUS
  <2>1. s \o t \in Seq({c1, c2}) /\ Len(s \o t) = Len(s) + Len(t)
    OBVIOUS
  <2> QED BY <2>1
<1>5. /\ <<c1>> \in Seq({c1, c2}) /\ <<c2>> \in Seq({c1, c2}) /\ << >> \in Seq({c1, c2})
      /\ Len(<<c1>>) = 1 /\ Len(<<c2>>) = 1 /\ Len(<< >>) = 0
  OBVIOUS
<1>6. \E n \in Nat : DOMAIN cases = 1 .. n /\ \A i \in 1 .. n : cases[i] \in {c1, c2}
  <2>1. CASE cases = <<c1>> \o <<c2>>
    <3>1. DOMAIN cases = 1 .. 2 /\ \A i \in DOMAIN cases : cases[i] \in {c1, c2}
      BY <1>4, <1>5, <2>1
    <3> QED BY <3>1
  <2>2. CASE cases = <<c1>> \o << >>
    <3>1. DOMAIN cases = 1 .. 1 /\ \A i \in DOMAIN cases : cases[i] \in {c1, c2}
      BY <1>4, <1>5, <2>2
    <3> QED BY <3>1
  <2> QED BY <1>2, <2>1, <2>2
<1>7. RunBody(body)
  BY <1>1, <1>3, <1>6 DEF RunBody
<1> QED BY <1>7 DEF body, cases

LEMMA MatrixBegins ==
  ASSUME GateInv, Generalism!RunMatrix
  PROVE  GateInv'
<1>1. UNCHANGED <<files, emitted, admitted>>
  BY DEF Generalism!RunMatrix
<1>2. \E cells, adapters : \E first, second \in Generalism!Causes :
         matrixJob' = [pc |-> "trace",
                       body |-> Generalism!BuildEnvelope(
                          Generalism!Grouped(cells, <<first, second>>, adapters), adapters)]
  <2>1. PICK scenario \in {"n", "m"}, second \in Generalism!Causes :
          LET first == IF scenario = "m" THEN "governed_refusal" ELSE Generalism!Ok
              adapters == IF second = Generalism!Ok
                          THEN Generalism!NeuAdapters([compile |-> [b \in {"solidity", "postgres"} |-> "pass"]])
                          ELSE Generalism!BindingAdapters
              cells == <<Generalism!MatrixCell("c1", "n"), Generalism!MatrixCell("c2", scenario)>>
          IN  matrixJob' = [pc |-> "trace",
                 body |-> Generalism!BuildEnvelope(
                    Generalism!Grouped(cells, <<first, second>>, adapters), adapters)]
    BY DEF Generalism!RunMatrix
  <2> DEFINE first == IF scenario = "m" THEN "governed_refusal" ELSE Generalism!Ok
             adapters == IF second = Generalism!Ok
                         THEN Generalism!NeuAdapters([compile |-> [b \in {"solidity", "postgres"} |-> "pass"]])
                         ELSE Generalism!BindingAdapters
             cells == <<Generalism!MatrixCell("c1", "n"), Generalism!MatrixCell("c2", scenario)>>
  <2>2. first \in Generalism!Causes
    BY DEF Generalism!Causes
  <2>3. matrixJob' = [pc |-> "trace",
                      body |-> Generalism!BuildEnvelope(
                         Generalism!Grouped(cells, <<first, second>>, adapters), adapters)]
    BY <2>1
  <2> HIDE DEF first, adapters, cells
  <2> QED BY <2>2, <2>3
<1>3. matrixJob'.pc = "trace" /\ RunBody(matrixJob'.body) /\ DOMAIN matrixJob' = {"pc", "body"}
  BY <1>2, RunsMakeBodies
<1> QED BY <1>1, <1>3 DEF GateInv, RunBody, Generalism!GateAdmitsOnlyHonest

\* The run signs its report in the step that emits its envelope.
LEMMA MatrixWrites ==
  ASSUME GateInv, Generalism!BuildRunEvidence \/ Generalism!RunUnbound \/ Generalism!Die
  PROVE  GateInv'
<1> DEFINE trace   == Generalism!Trace(matrixJob.body)
           package == Generalism!Package(trace)
           signed  == Generalism!Report(trace, package)
           Same    == DOMAIN files' = DOMAIN files /\ files'.report = files.report
           Ends    == matrixJob' = Generalism!NoRun \/ \E pc : matrixJob' = [matrixJob EXCEPT !.pc = pc]
<1>1. admitted' = admitted /\ Ends
  BY DEF Generalism!BuildRunEvidence, Generalism!RunUnbound, Generalism!Die
<1>2. \/ Same /\ emitted' = emitted
      \/ /\ DOMAIN files' = DOMAIN files /\ files'.report = signed
         /\ emitted' = emitted \cup {matrixJob.body} /\ matrixJob.pc # "idle"
  <2> HIDE DEF trace, package, signed
  <2>1. ASSUME NEW f, NEW name, Generalism!Write(name, f), DOMAIN f = DOMAIN files
        PROVE  DOMAIN files' = DOMAIN files /\ files'.report = f.report
    BY <2>1 DEF Generalism!Write, GateInv
  <2>2. CASE Generalism!Die
    BY <2>2 DEF Generalism!Die
  <2>3. CASE Generalism!RunUnbound
    <3>1. \E e : /\ Generalism!Write("envelope", [files EXCEPT !.env = e]) /\ emitted' = emitted
      BY <2>3 DEF Generalism!RunUnbound
    <3>2. PICK e : Generalism!Write("envelope", [files EXCEPT !.env = e]) /\ emitted' = emitted
      BY <3>1
    <3>3. /\ DOMAIN [files EXCEPT !.env = e] = DOMAIN files
          /\ [files EXCEPT !.env = e].report = files.report
      BY DEF GateInv
    <3> QED BY <2>1, <3>2, <3>3
  <2>4. CASE Generalism!BuildRunEvidence
    <3>1. \/ Generalism!Write("trace", [files EXCEPT !.trace = trace]) /\ emitted' = emitted
          \/ Generalism!Write("package", [files EXCEPT !.package = package]) /\ emitted' = emitted
          \/ /\ Generalism!Write("report", [files EXCEPT !.report = signed])
             /\ emitted' = emitted \cup {matrixJob.body} /\ matrixJob.pc = "report"
          \/ \E e : Generalism!Write("envelope", [files EXCEPT !.env = e]) /\ emitted' = emitted
      BY <2>4 DEF Generalism!BuildRunEvidence, trace, package, signed
    <3>2. \A x : /\ DOMAIN [files EXCEPT !.trace = x] = DOMAIN files
                 /\ DOMAIN [files EXCEPT !.package = x] = DOMAIN files
                 /\ DOMAIN [files EXCEPT !.report = x] = DOMAIN files
                 /\ DOMAIN [files EXCEPT !.env = x] = DOMAIN files
                 /\ [files EXCEPT !.trace = x].report = files.report
                 /\ [files EXCEPT !.package = x].report = files.report
                 /\ [files EXCEPT !.report = x].report = x
                 /\ [files EXCEPT !.env = x].report = files.report
      BY DEF GateInv
    <3> QED BY <2>1, <3>1, <3>2
  <2> QED BY <2>2, <2>3, <2>4
<1>3. /\ DOMAIN matrixJob' = {"pc", "body"}
      /\ matrixJob'.pc # "idle" => matrixJob'.body = matrixJob.body
  <2>1. CASE matrixJob' = Generalism!NoRun
    BY <2>1 DEF Generalism!NoRun
  <2>2. CASE \E pc : matrixJob' = [matrixJob EXCEPT !.pc = pc]
    BY <2>2 DEF GateInv
  <2> QED BY <1>1, <2>1, <2>2
<1>4. matrixJob.pc # "idle"
  BY DEF Generalism!BuildRunEvidence, Generalism!RunUnbound, Generalism!Die
<1>5. RunBody(matrixJob.body)
  BY <1>4 DEF GateInv
<1>6. /\ DOMAIN signed = {"trace", "package", "ok", "signed"}
      /\ signed.trace = Generalism!Trace(matrixJob.body)
  BY DEF Generalism!Report
<1>7. emitted \subseteq emitted' /\ \A b \in emitted' : RunBody(b)
  <2> HIDE DEF signed
  <2> QED BY <1>2, <1>5 DEF GateInv
<1>8. /\ DOMAIN files'.report = {"trace", "package", "ok", "signed"}
      /\ files'.report.signed => \E b \in emitted' : files'.report.trace = Generalism!Trace(b)
  <2> HIDE DEF signed
  <2> QED BY <1>2, <1>6, <1>7 DEF GateInv
<1>9. Generalism!GateAdmitsOnlyHonest'
  BY <1>1, <1>7 DEF GateInv, Generalism!GateAdmitsOnlyHonest
<1>10. DOMAIN files' = {"have", "env", "trace", "package", "report"}
  <2> HIDE DEF signed
  <2> QED BY <1>2 DEF GateInv
<1>11. matrixJob'.pc # "idle" => RunBody(matrixJob'.body)
  BY <1>3, <1>5
<1> QED BY <1>3, <1>7, <1>8, <1>9, <1>10, <1>11 DEF GateInv, RunBody

\* A hand edit signs nothing.
LEMMA HandsCannotSign ==
  ASSUME GateInv, Generalism!HandEdit
  PROVE  GateInv'
<1>1. UNCHANGED <<emitted, matrixJob, admitted>>
  BY DEF Generalism!HandEdit
<1>2. \/ \E x : files' = [files EXCEPT !.env.body = x]
      \/ \E x : files' = [files EXCEPT !.trace = x]
      \/ \E x : files' = [files EXCEPT !.package = x]
      \/ \E x : files' = [files EXCEPT !.report = [@ EXCEPT !.trace = x, !.signed = FALSE]]
      \/ \E x : files' = [files EXCEPT !.env.refs = x]
  BY DEF Generalism!HandEdit
<1>3. /\ DOMAIN files' = {"have", "env", "trace", "package", "report"}
      /\ \/ files'.report = files.report
         \/ /\ DOMAIN files'.report = {"trace", "package", "ok", "signed"}
            /\ ~files'.report.signed
  <2>1. CASE \E x : files' = [files EXCEPT !.report = [@ EXCEPT !.trace = x, !.signed = FALSE]]
    BY <2>1 DEF GateInv
  <2> QED BY <1>2, <2>1 DEF GateInv
<1> QED BY <1>1, <1>3 DEF GateInv, RunBody, Generalism!GateAdmitsOnlyHonest

LEMMA GateJudges ==
  ASSUME GateInv, Generalism!Gate
  PROVE  GateInv'
<1>1. UNCHANGED <<files, emitted, matrixJob>>
  BY DEF Generalism!Gate
<1>2. PICK v \in BOOLEAN :
         admitted' = [done |-> TRUE, ok |-> Generalism!GateDiagnostics(files, v) = {},
                      body |-> files.env.body]
  BY DEF Generalism!Gate
<1>3. ASSUME Generalism!GateDiagnostics(files, v) = {}
      PROVE  /\ files.env.body \in emitted
             /\ \A i \in DOMAIN files.env.body.cases :
                   files.env.body.cases[i].cause \in {Ok, "governed_refusal"}
             /\ \E i \in DOMAIN files.env.body.cases : files.env.body.cases[i].cause = Ok
  <2>1. /\ files.report.signed /\ files.report.trace = files.trace
        /\ files.trace.result = files.env.body
    BY <1>3, GateAdmits, EvidenceIsBound
  <2>2. PICK b \in emitted : files.trace = Generalism!Trace(b)
    BY <2>1 DEF GateInv
  <2>3. files.env.body = b
    BY <2>1, <2>2 DEF Generalism!Trace
  <2>4. RunBody(b)
    BY DEF GateInv
  <2> QED BY <1>3, <2>3, <2>4, GateAdmits, FaithfulIsHonest
<1>4. Generalism!GateAdmitsOnlyHonest'
  BY <1>1, <1>2, <1>3 DEF Generalism!GateAdmitsOnlyHonest, Generalism!Ok, Ok
<1> QED BY <1>1, <1>4 DEF GateInv, RunBody

LEMMA GateStepKeeps ==
  ASSUME GateInv, [Generalism!Next]_matrixVars
  PROVE  GateInv'
<1>1. CASE UNCHANGED <<files, emitted, matrixJob, admitted>>
  BY <1>1 DEF GateInv, RunBody, Generalism!GateAdmitsOnlyHonest
<1>2. CASE Generalism!MatrixNext
  BY <1>2, MatrixBegins, MatrixWrites, HandsCannotSign, GateJudges DEF Generalism!MatrixNext
<1>3. CASE \/ Generalism!CoverageNext \/ Generalism!Judge \/ Generalism!JudgeNeu
           \/ Generalism!JudgeBinding \/ Generalism!JudgeWitness
  <2>1. UNCHANGED <<files, emitted, matrixJob, admitted>>
    BY <1>3 DEF Generalism!CoverageNext, Generalism!Judge, Generalism!JudgeNeu,
                Generalism!JudgeBinding, Generalism!JudgeWitness, Generalism!matrixVars
  <2> QED BY <1>1, <2>1
<1>4. CASE UNCHANGED matrixVars
  BY <1>1, <1>4 DEF matrixVars
<1> QED BY <1>2, <1>3, <1>4 DEF Generalism!Next

\* What the PR-fast gate admits was signed by a run that saw no silent and no broken
\* case, and a faithful one.  (check_generalism_pr_fast, validate_generalism_result)
THEOREM GateIsHonest == FlowSpec => []GateAdmitsOnlyHonest
<1>1. FlowInit => (chosen = "generalism" => GateInv)
  BY GateInitially DEF FlowInit
<1>2. (chosen = "generalism" => GateInv) /\ [FlowNext]_flowVars => (chosen = "generalism" => GateInv)'
  <2> SUFFICES ASSUME chosen = "generalism" => GateInv, [FlowNext]_flowVars, chosen' = "generalism"
               PROVE  GateInv'
    OBVIOUS
  <2>1. chosen = "generalism" /\ [Generalism!Next]_matrixVars
    BY DEF FlowNext, flowVars, matrixVars
  <2> QED BY <2>1, GateStepKeeps
<1>3. (chosen = "generalism" => GateInv) => GateAdmitsOnlyHonest
  BY DEF GateInv, GateAdmitsOnlyHonest
<1> QED BY <1>1, <1>2, <1>3, PTL DEF FlowSpec

\* The experiments of the tables, and the ones somebody edits into them.
Experiments ==
  [covers : {"e", "n"}, mutation : {"e", "n"}, witness : {"ledger", "refusal"}, exact : BOOLEAN,
   applies : BOOLEAN]

TreeFields ==
  {"values", "stray", "locus", "controlled", "proofs", "contract", "enforced", "seeds",
   "manifest", "committed", "baseline"}

Mutated(c) == c.mutation = c.covers /\ c.exact

\* The first check that fails, in the coverage gate's copy of the operator.
LEMMA CoverageChecks == \A C : Generalism!Coverage!FirstOf(C) = FirstOf(C)
BY DEF Generalism!Coverage!FirstOf, FirstOf, Generalism!Coverage!Ok, Ok

LEMMA CoversItsMutation ==
  ASSUME NEW cell, NEW t, Generalism!Coverage!FeatureLocusViolations(cell, t) = Ok
  PROVE  cell.mutation = cell.covers
<1> DEFINE w1 == cell.covers \notin t.locus
           w2 == cell.mutation # cell.covers
           C  == <<Generalism!Coverage!Refuse("no canonical locus", w1),
                   Generalism!Coverage!Refuse("relabeled", w2)>>
<1>1. Generalism!Coverage!FirstOf(C) = Ok
  BY DEF Generalism!Coverage!FeatureLocusViolations
<1> HIDE DEF w1, w2
<1>2. DOMAIN C = 1 .. 2 /\ 2 \in Nat
  OBVIOUS
<1>3. \A i \in 1 .. 2 : C[i].code # Ok
  <2>1. C[1].code = "no canonical locus" /\ C[2].code = "relabeled"
    BY DEF Generalism!Coverage!Refuse
  <2>2. 1 .. 2 = {1, 2}
    OBVIOUS
  <2> HIDE DEF C
  <2> QED BY <2>1, <2>2 DEF Ok
<1>4. C[2].when = w2
  BY DEF Generalism!Coverage!Refuse
<1> HIDE DEF C
<1>5. \A i \in 1 .. 2 : ~C[i].when
  BY CoverageChecks, <1>1, <1>2, <1>3, FirstOfOk
<1>6. ~C[2].when
  BY <1>5
<1>7. ~w2
  BY <1>4, <1>6
<1> QED BY <1>7 DEF w2

LEMMA ControlIsReconstructed ==
  ASSUME NEW cell, Generalism!Coverage!ControlReconstructionViolations(cell) = Ok
  PROVE  /\ Generalism!Coverage!ApplyMutation(cell) # "raises"
         /\ cell.control = Generalism!Coverage!ApplyMutation(cell)
<1> DEFINE w1 == cell.mutation = Generalism!Coverage!Nothing
           w2 == Generalism!Coverage!ApplyMutation(cell) = "raises"
           w3 == cell.control # Generalism!Coverage!ApplyMutation(cell)
           C  == <<Generalism!Coverage!Refuse("no typed mutation", w1),
                   Generalism!Coverage!Refuse("bad mutation", w2),
                   Generalism!Coverage!Refuse("confounded", w3)>>
<1>1. Generalism!Coverage!FirstOf(C) = Ok
  BY DEF Generalism!Coverage!ControlReconstructionViolations
<1> HIDE DEF w1, w2, w3
<1>2. DOMAIN C = 1 .. 3 /\ 3 \in Nat
  OBVIOUS
<1>3. \A i \in 1 .. 3 : C[i].code # Ok
  <2>1. /\ C[1].code = "no typed mutation" /\ C[2].code = "bad mutation"
        /\ C[3].code = "confounded"
    BY DEF Generalism!Coverage!Refuse
  <2>2. 1 .. 3 = {1, 2, 3}
    OBVIOUS
  <2> HIDE DEF C
  <2> QED BY <2>1, <2>2 DEF Ok
<1>4. C[2].when = w2 /\ C[3].when = w3
  BY DEF Generalism!Coverage!Refuse
<1> HIDE DEF C
<1>5. \A i \in 1 .. 3 : ~C[i].when
  BY CoverageChecks, <1>1, <1>2, <1>3, FirstOfOk
<1>6. ~C[2].when /\ ~C[3].when
  BY <1>5
<1>7. ~w2 /\ ~w3
  BY <1>4, <1>6
<1> QED BY <1>7 DEF w2, w3

\* A controlled cell the gate finds canonical perturbs the feature it covers, exactly.
LEMMA CanonicalIsMutated ==
  ASSUME NEW t, NEW e \in Experiments,
         Generalism!Coverage!CellViolations(
            [Generalism!Coverage!Cell("generated", e.covers, TRUE, e.witness) EXCEPT
                !.mutation = e.mutation, !.applies = e.applies,
                !.control = IF e.exact THEN e.mutation ELSE "other",
                !.code = e.witness = "refusal"], t) = Ok
  PROVE  Mutated(e) /\ e.applies
<1> DEFINE kind == "generated"
           control == IF e.exact THEN e.mutation ELSE "other"
           coded == e.witness = "refusal"
           cell == [Generalism!Coverage!Cell("generated", e.covers, TRUE, e.witness) EXCEPT
                !.mutation = e.mutation, !.applies = e.applies, !.control = control, !.code = coded]
<1>1. /\ cell.kind = "generated" /\ cell.covers = e.covers /\ cell.mutation = e.mutation
      /\ cell.applies = e.applies /\ cell.control = control
  <2> HIDE DEF control, coded
  <2> QED BY DEF Generalism!Coverage!Cell
<1>2. Generalism!Coverage!CellViolations(cell, t) = Ok
  OBVIOUS
<1> HIDE DEF cell
<1>3. /\ Generalism!Coverage!FeatureLocusViolations(cell, t) = Ok
      /\ Generalism!Coverage!ControlReconstructionViolations(cell) = Ok
  BY <1>1, <1>2 DEF Generalism!Coverage!CellViolations, Generalism!Coverage!Ok, Ok
<1>5. cell.mutation = cell.covers
  BY <1>3, CoversItsMutation
<1>6. /\ Generalism!Coverage!ApplyMutation(cell) # "raises"
      /\ cell.control = Generalism!Coverage!ApplyMutation(cell)
  BY <1>3, ControlIsReconstructed
<1>7. control = e.mutation /\ e.applies
  BY <1>1, <1>6 DEF Generalism!Coverage!ApplyMutation
<1> QED BY <1>1, <1>5, <1>7 DEF Mutated, Experiments

\* What a tree that passes the coverage gate has.
LEMMA CheckedCoverage ==
  ASSUME NEW t, NEW ref, NEW base, t.controlled \in Seq(Experiments),
         Generalism!Coverage!Check(t, ref, base) = {}
  PROVE  /\ t.baseline.present
         /\ t.baseline.uncovered = t.values \ Generalism!Witnessed(t)
         /\ base.present => t.values \ Generalism!Witnessed(t) \subseteq base.uncovered
<1> DEFINE m == t.manifest
           crediting == {c \in m.cells : c.credits}
           stale == m # Generalism!Coverage!BuildManifest(t)
           w1 == stale
           w2 == Generalism!Coverage!Cardinality(m.features) < 4
           w3 == Generalism!Coverage!Cardinality(m.cells) < 4
           w4 == m.witnessed < 2
           w5 == m.seeds < 1
           w6 == m.unclassified
           w7 == \E c \in m.cells : c.witness \notin Generalism!Coverage!Witnesses
           w8 == \E c \in crediting : c.control = Generalism!Coverage!Nothing
                                /\ ~(c.kind = "binding" /\ c.proof # Generalism!Coverage!Nothing)
           w9 == \E c \in crediting : c.witness \in {"refusal", "spec_refusal"} /\ ~c.code
           w10 == \E c \in crediting :
                     Generalism!Coverage!CellViolations(c, t) # Generalism!Coverage!Ok
           w11 == ~stale /\ Generalism!Coverage!ProveBinding(m, t) # {}
           w12 == ~stale /\ Generalism!Coverage!BindingLifecycleDispositionViolations(m, t) # {}
           w13 == \E c \in crediting : c.kind = "seed"
           w14 == ~t.baseline.present
           w15 == t.baseline.present /\ m.uncovered \ t.baseline.uncovered # {}
           w16 == t.baseline.present /\ t.baseline.uncovered \ m.uncovered # {}
           w17 == Generalism!Coverage!BaseUncovered(ref, base) = "unresolvable"
           w18 == Generalism!Coverage!BaseUncovered(ref, base) = "found"
                     /\ m.uncovered \ base.uncovered # {}
           C == {
       Generalism!Coverage!Refuse("stale", w1),
       Generalism!Coverage!Refuse("feature floor", w2),
       Generalism!Coverage!Refuse("cell floor", w3),
       Generalism!Coverage!Refuse("witnessed floor", w4),
       Generalism!Coverage!Refuse("seed floor", w5),
       Generalism!Coverage!Refuse("unclassified", w6),
       Generalism!Coverage!Refuse("witness", w7),
       Generalism!Coverage!Refuse("no handle", w8),
       Generalism!Coverage!Refuse("no code", w9),
       Generalism!Coverage!Refuse("cell", w10),
       Generalism!Coverage!Refuse("binding proof", w11),
       Generalism!Coverage!Refuse("disposition", w12),
       Generalism!Coverage!Refuse("seed credits", w13),
       Generalism!Coverage!Refuse("baseline missing", w14),
       Generalism!Coverage!Refuse("new uncovered", w15),
       Generalism!Coverage!Refuse("stale baseline", w16),
       Generalism!Coverage!Refuse("base ref", w17),
       Generalism!Coverage!Refuse("grew", w18)}
<1>1. Generalism!Coverage!AllOf(C) = {}
  BY DEF Generalism!Coverage!Check
<1>2. \A c \in C : ~c.when
  <2> HIDE DEF C
  <2> QED BY <1>1, NoneRaised
<1>3. ~w1 /\ ~w10 /\ ~w14 /\ ~w15 /\ ~w16 /\ ~w17 /\ ~w18
  <2> HIDE DEF w1, w2, w3, w4, w5, w6, w7, w8, w9, w10, w11, w12, w13, w14, w15, w16, w17, w18
  <2> QED BY <1>2 DEF Generalism!Coverage!Refuse
<1> DEFINE proofs == t.proofs \cup (t.values \cap {"g1", "g2"})
           cell(e) == [Generalism!Coverage!Cell("generated", e.covers, TRUE, e.witness) EXCEPT
                !.mutation = e.mutation, !.applies = e.applies,
                !.control = IF e.exact THEN e.mutation ELSE "other",
                !.code = e.witness = "refusal"]
           consumed(f) == [Generalism!Coverage!Cell("binding", f, TRUE, "binding_consume") EXCEPT
                !.proof = f, !.locator = f]
           validated(f) == [Generalism!Coverage!Cell("binding", f, FALSE, "spec_refusal") EXCEPT
                !.locator = f, !.code = TRUE]
           names == {t.controlled[i] : i \in DOMAIN t.controlled}
           cells == Generalism!Coverage!BuildControlledCells(t)
           binding == Generalism!Coverage!BuildBindingCells(t)
<1>4. /\ m = Generalism!Coverage!BuildManifest(t)
      /\ m.uncovered = t.values \ Generalism!Coverage!Covered(t)
      /\ cells \subseteq m.cells
  <2>1. m = Generalism!Coverage!BuildManifest(t)
    BY <1>3
  <2> DEFINE seedcells == Generalism!Coverage!SeedCells(t)
  <2>2. /\ Generalism!Coverage!BuildManifest(t).cells = seedcells \cup cells \cup binding
        /\ Generalism!Coverage!BuildManifest(t).uncovered
              = Generalism!Coverage!DeriveFeatures(t) \ Generalism!Coverage!Covered(t)
    BY DEF Generalism!Coverage!BuildManifest
  <2>3. Generalism!Coverage!DeriveFeatures(t) = t.values
    BY DEF Generalism!Coverage!DeriveFeatures
  <2> HIDE DEF m, cells, seedcells, binding
  <2> QED BY <2>1, <2>2, <2>3
<1>5. /\ cells = {cell(e) : e \in names}
      /\ \A e : cell(e).credits = TRUE /\ cell(e).covers = e.covers
  <2>1. cells = {cell(e) : e \in names}
    BY DEF Generalism!Coverage!BuildControlledCells, Generalism!Coverage!Names
  <2>3. ASSUME NEW e PROVE cell(e).credits = TRUE /\ cell(e).covers = e.covers
    <3> DEFINE control == IF e.exact THEN e.mutation ELSE "other"
               coded   == e.witness = "refusal"
               made == [Generalism!Coverage!Cell("generated", e.covers, TRUE, e.witness) EXCEPT
                          !.mutation = e.mutation, !.applies = e.applies, !.control = control,
                          !.code = coded]
    <3>1. made.credits = TRUE /\ made.covers = e.covers
      <4> HIDE DEF control, coded
      <4> QED BY DEF Generalism!Coverage!Cell
    <3> QED BY <3>1
  <2> QED BY <2>1, <2>3
<1>6. /\ binding = {consumed(f) : f \in proofs} \cup {validated(f) : f \in t.contract \ proofs}
      /\ \A f : /\ consumed(f).credits = TRUE /\ consumed(f).covers = f
                /\ validated(f).credits = FALSE
  <2>1. Generalism!Coverage!BuildBindingConsumeProofs(t) = proofs
    BY DEF Generalism!Coverage!BuildBindingConsumeProofs, Generalism!Coverage!LiveValues,
           Generalism!Coverage!DeriveFeatures
  <2>2. binding = {consumed(f) : f \in proofs} \cup {validated(f) : f \in t.contract \ proofs}
    <3> HIDE DEF proofs
    <3> QED BY <2>1 DEF Generalism!Coverage!BuildBindingCells
  <2>3. \A f : /\ consumed(f).credits = TRUE /\ consumed(f).covers = f
               /\ validated(f).credits = FALSE
    BY DEF Generalism!Coverage!Cell
  <2> QED BY <2>2, <2>3
<1>7. names \subseteq Experiments
  OBVIOUS
<1>8. \A e \in names : Mutated(e)
  <2> SUFFICES ASSUME NEW e \in names PROVE Mutated(e)
    OBVIOUS
  <2>1. e \in Experiments
    BY <1>7
  <2>2. cell(e) \in m.cells /\ cell(e).credits
    <3> HIDE DEF cell, cells, names, m
    <3> QED BY <1>4, <1>5
  <2>3. Generalism!Coverage!CellViolations(cell(e), t) = Ok
    <3> HIDE DEF cell, m
    <3> QED BY <1>3, <2>2 DEF Generalism!Coverage!Ok, Ok
  <2> QED BY <2>1, <2>3, CanonicalIsMutated
<1>9. Generalism!Coverage!Covered(t) = {e.covers : e \in names} \cup proofs
  <2>1. Generalism!Coverage!Covered(t) = {c.covers : c \in {x \in cells \cup binding : x.credits}}
    BY DEF Generalism!Coverage!Covered
  <2> HIDE DEF cell, consumed, validated, cells, binding, names, proofs
  <2> QED BY <1>5, <1>6, <2>1
<1>10. Generalism!Witnessed(t) = {e.covers : e \in names} \cup proofs
  <2>1. Generalism!Names(t.controlled) = names
    BY DEF Generalism!Names
  <2>2. {x \in names : x.mutation = x.covers /\ x.exact} = names
    BY <1>8 DEF Mutated
  <2>3. Generalism!Witnessed(t) = {c.covers : c \in {x \in names : x.mutation = x.covers /\ x.exact}}
                                    \cup proofs
    <3> HIDE DEF names
    <3> QED BY <2>1 DEF Generalism!Witnessed
  <2> HIDE DEF names, proofs
  <2> QED BY <2>2, <2>3
<1>11. m.uncovered = t.values \ Generalism!Witnessed(t)
  BY <1>4, <1>9, <1>10
<1>12. t.baseline.present /\ t.baseline.uncovered = m.uncovered
  BY <1>3, <1>11
<1>13. base.present => m.uncovered \subseteq base.uncovered
  BY <1>3 DEF Generalism!Coverage!BaseUncovered
<1> QED BY <1>11, <1>12, <1>13

\* The coverage flow: a tree is a record of its fields, its experiments a list, and
\* main owns up to what it does not cover.
CoverageInv ==
  /\ DOMAIN pr = TreeFields
  /\ pr.controlled \in Seq(Experiments)
  /\ Generalism!MainCoverageIsWitnessed

LEMMA SomeExperiments ==
  \A c, m \in {"e", "n"} : Generalism!Experiment(c, m) \in Experiments
BY DEF Generalism!Experiment, Experiments

LEMMA CoverageInitially == Generalism!Init => CoverageInv
<1> SUFFICES ASSUME Generalism!Init PROVE CoverageInv
  OBVIOUS
<1>1. main = Generalism!InitMain /\ pr = Generalism!InitMain
  BY DEF Generalism!Init
<1>2. /\ DOMAIN Generalism!InitMain = TreeFields
      /\ Generalism!InitMain.controlled = Generalism!Tables.controlled
      /\ Generalism!InitMain.baseline = Generalism!Coverage!Absent
  BY DEF Generalism!InitMain, Generalism!Revision, TreeFields
<1>3. Generalism!Tables.controlled = <<Generalism!Experiment("e", "e")>>
  BY DEF Generalism!Tables
<1>4. Generalism!Tables.controlled \in Seq(Experiments)
  <2> DEFINE x == Generalism!Experiment("e", "e")
  <2>1. x \in Experiments
    BY SomeExperiments
  <2> HIDE DEF x
  <2>2. <<x>> \in Seq(Experiments)
    BY <2>1
  <2> QED BY <1>3, <2>2 DEF x
<1>5. ~Generalism!Coverage!Absent.present
  BY DEF Generalism!Coverage!Absent
<1> QED BY <1>1, <1>2, <1>4, <1>5 DEF CoverageInv, Generalism!MainCoverageIsWitnessed

\* An edit leaves a tree a tree, and its experiments a list of them.
LEMMA EditsKeepTrees ==
  ASSUME CoverageInv, Generalism!EditSources \/ Generalism!Regenerate \/ Generalism!EditLedgers
  PROVE  DOMAIN pr' = TreeFields /\ pr'.controlled \in Seq(Experiments) /\ main' = main
<1> DEFINE s == pr.controlled
<1>1. DOMAIN pr = TreeFields /\ s \in Seq(Experiments)
  BY DEF CoverageInv
<1>2. main' = main
  BY DEF Generalism!EditSources, Generalism!Regenerate, Generalism!EditLedgers, Generalism!EditTree
<1> DEFINE inexact == [i \in DOMAIN s |-> [s[i] EXCEPT !.exact = FALSE]]
           unapplied == [i \in DOMAIN s |-> [s[i] EXCEPT !.applies = FALSE]]
           one == <<Generalism!Experiment("n", "e")>> \o s
           two == <<Generalism!Experiment("n", "n")>> \o s
           Lists == {one, two, <<>>, inexact, unapplied}
<1>3. Lists \subseteq Seq(Experiments)
  <2>1. ASSUME NEW x \in Experiments PROVE <<x>> \o s \in Seq(Experiments)
    <3>1. <<x>> \in Seq(Experiments)
      OBVIOUS
    <3> HIDE DEF s
    <3> QED BY <1>1, <3>1
  <2>2. one \in Seq(Experiments) /\ two \in Seq(Experiments)
    BY <2>1, SomeExperiments
  <2>3. \A x \in Experiments : /\ [x EXCEPT !.exact = FALSE] \in Experiments
                               /\ [x EXCEPT !.applies = FALSE] \in Experiments
    BY DEF Experiments
  <2>4. inexact \in Seq(Experiments) /\ unapplied \in Seq(Experiments)
    <3>1. DOMAIN s = 1 .. Len(s) /\ Len(s) \in Nat /\ \A i \in DOMAIN s : s[i] \in Experiments
      BY <1>1
    <3> DEFINE E == Experiments
    <3>2. ASSUME NEW n \in Nat, NEW f, f \in [1 .. n -> E] PROVE f \in Seq(E)
      BY <3>2
    <3>3. inexact \in [1 .. Len(s) -> E] /\ unapplied \in [1 .. Len(s) -> E]
      <4> HIDE DEF s, E
      <4> QED BY <2>3, <3>1 DEF E
    <3> HIDE DEF inexact, unapplied
    <3> QED BY <3>1, <3>2, <3>3
  <2>5. <<>> \in Seq(Experiments)
    OBVIOUS
  <2> QED BY <2>2, <2>4, <2>5
<1>4. CASE Generalism!EditSources
  <2>1. \/ \E v : pr' = [pr EXCEPT !.values = v]
        \/ \E v : pr' = [pr EXCEPT !.stray = v]
        \/ \E v \in Lists : pr' = [pr EXCEPT !.controlled = v]
        \/ \E v \in Lists : \E l : pr' = [pr EXCEPT !.controlled = v, !.locus = l]
        \/ \E v : pr' = [pr EXCEPT !.proofs = v]
        \/ \E v : pr' = [pr EXCEPT !.contract = v]
        \/ \E v : pr' = [pr EXCEPT !.enforced = v]
        \/ \E v : pr' = [pr EXCEPT !.seeds = v]
    BY <1>4 DEF Generalism!EditSources, Generalism!EditTree
  <2> HIDE DEF Lists, s
  <2>2. \/ DOMAIN pr' = TreeFields /\ pr'.controlled = pr.controlled
        \/ DOMAIN pr' = TreeFields /\ pr'.controlled \in Lists
    BY <1>1, <2>1 DEF TreeFields
  <2> QED BY <1>1, <1>2, <1>3, <2>2 DEF s
<1>5. CASE Generalism!Regenerate
  <2>1. \E v : pr' = [pr EXCEPT !.manifest = v]
    BY <1>5 DEF Generalism!Regenerate, Generalism!EditTree
  <2> QED BY <1>1, <1>2, <2>1 DEF TreeFields
<1>6. CASE Generalism!EditLedgers
  <2>1. \/ \E v : pr' = [pr EXCEPT !.manifest.uncovered = v]
        \/ \E v : pr' = [pr EXCEPT !.manifest.cells = v]
        \/ \E v : pr' = [pr EXCEPT !.committed = v]
        \/ \E v : pr' = [pr EXCEPT !.baseline = v]
    BY <1>6 DEF Generalism!EditLedgers, Generalism!EditTree
  <2> QED BY <1>1, <1>2, <2>1 DEF TreeFields
<1> QED BY <1>4, <1>5, <1>6

\* A merge moves main to a tree the gate passed against main's own baseline.
LEMMA MergesAreGated ==
  ASSUME CoverageInv, Generalism!Merge
  PROVE  CoverageInv' /\ Generalism!CoverageStep
<1>1. /\ main' = pr /\ pr' = pr
      /\ \E ref : Generalism!Coverage!Check(pr, ref, main.baseline) = {}
  BY DEF Generalism!Merge
<1>2. /\ pr.baseline.present
      /\ pr.baseline.uncovered = pr.values \ Generalism!Witnessed(pr)
      /\ main.baseline.present => pr.values \ Generalism!Witnessed(pr) \subseteq main.baseline.uncovered
  BY <1>1, CheckedCoverage DEF CoverageInv
<1>3. main.baseline.present => main.baseline.uncovered = main.values \ Generalism!Witnessed(main)
  BY DEF CoverageInv, Generalism!MainCoverageIsWitnessed
<1>4. Generalism!MainCoverageIsWitnessed'
  BY <1>1, <1>2 DEF Generalism!MainCoverageIsWitnessed, Generalism!Witnessed
<1>5. Generalism!CoverageStep
  BY <1>1, <1>2, <1>3 DEF Generalism!CoverageStep, Generalism!Witnessed
<1> QED BY <1>1, <1>4, <1>5 DEF CoverageInv

LEMMA CoverageStepKeeps ==
  ASSUME CoverageInv, [Generalism!Next]_matrixVars
  PROVE  CoverageInv' /\ (main' = main \/ Generalism!CoverageStep)
<1>1. CASE UNCHANGED <<main, pr>>
  BY <1>1 DEF CoverageInv, Generalism!MainCoverageIsWitnessed, Generalism!Witnessed
<1>2. CASE Generalism!CoverageNext
  <2>1. CASE Generalism!Merge
    BY <2>1, MergesAreGated
  <2>2. CASE Generalism!EditSources \/ Generalism!Regenerate \/ Generalism!EditLedgers
    <3>1. DOMAIN pr' = TreeFields /\ pr'.controlled \in Seq(Experiments) /\ main' = main
      BY <2>2, EditsKeepTrees
    <3> QED BY <3>1 DEF CoverageInv, Generalism!MainCoverageIsWitnessed, Generalism!Witnessed
  <2> QED BY <1>2, <2>1, <2>2 DEF Generalism!CoverageNext
<1>3. CASE \/ Generalism!MatrixNext \/ Generalism!Judge \/ Generalism!JudgeNeu
           \/ Generalism!JudgeBinding \/ Generalism!JudgeWitness
  <2>1. UNCHANGED <<main, pr>>
    BY <1>3 DEF Generalism!MatrixNext, Generalism!HandEdit, Generalism!Judge, Generalism!JudgeNeu,
                Generalism!JudgeBinding, Generalism!JudgeWitness, Generalism!coverageVars
  <2> QED BY <1>1, <2>1
<1>4. CASE UNCHANGED matrixVars
  BY <1>1, <1>4 DEF matrixVars
<1> QED BY <1>2, <1>3, <1>4 DEF Generalism!Next

LEMMA CoverageFlow ==
  FlowSpec => /\ [](chosen = "generalism" => CoverageInv)
              /\ [][chosen = "generalism" => Generalism!CoverageStep]_main
<1>1. FlowInit => (chosen = "generalism" => CoverageInv)
  BY CoverageInitially DEF FlowInit
<1>2. (chosen = "generalism" => CoverageInv) /\ [FlowNext]_flowVars
        => /\ (chosen = "generalism" => CoverageInv)'
           /\ [chosen = "generalism" => Generalism!CoverageStep]_main
  <2> SUFFICES ASSUME chosen = "generalism" => CoverageInv, [FlowNext]_flowVars
               PROVE  /\ chosen' = "generalism" => CoverageInv'
                      /\ chosen = "generalism" => main' = main \/ Generalism!CoverageStep
    OBVIOUS
  <2>1. ASSUME chosen = "generalism" \/ chosen' = "generalism"
        PROVE  chosen = "generalism" /\ [Generalism!Next]_matrixVars
    BY <2>1 DEF FlowNext, flowVars, matrixVars
  <2> QED BY <2>1, CoverageStepKeeps
<1> QED BY <1>1, <1>2, PTL DEF FlowSpec

\* Once main has a baseline, what it does not admit as uncovered is witnessed: by an
\* experiment that perturbs the feature itself or by a consume proof.
\* (gen_generalism_cells, check_generalism_cell_coverage)
THEOREM CoverageIsWitnessed == FlowSpec => []MainCoverageIsWitnessed
<1>1. (chosen = "generalism" => CoverageInv) => MainCoverageIsWitnessed
  BY DEF CoverageInv, MainCoverageIsWitnessed
<1> QED BY <1>1, CoverageFlow, PTL

\* No merge makes an uncovered feature, even with a baseline widened in the same
\* pull request.  (check_generalism_cell_coverage)
THEOREM CoverageIsRatcheted == FlowSpec => UncoveredNeverGrows
BY CoverageFlow, PTL DEF UncoveredNeverGrows

-----------------------------------------------------------------------------
(* The judgements of the generalism matrix                                 *)

\* A list of checks accepts exactly what no check of it refuses.
LEMMA AcceptedIff ==
  ASSUME NEW checks, NEW n \in Nat, DOMAIN checks = 1 .. n, \A i \in 1 .. n : checks[i].code # Ok
  PROVE  FirstOf(checks) = Ok <=> \A i \in 1 .. n : ~checks[i].when
<1>1. ASSUME \A i \in 1 .. n : ~checks[i].when
      PROVE  FirstOf(checks) = Ok
  BY <1>1 DEF FirstOf
<1> QED BY <1>1, FirstOfOk

LEMMA MatrixChecks == \A C : Generalism!FirstOf(C) = FirstOf(C)
BY DEF Generalism!FirstOf, FirstOf, Generalism!Ok, Ok
\* What the runner demands of a proof, locus by locus.
LEMMA ParticipantVerdict ==
  ASSUME NEW proof, NEW obs
  PROVE  Generalism!VerdictParticipant(proof, obs) = Ok <=>
           /\ ~(obs.producerError)
           /\ ~(Generalism!SpecsFail(obs))
           /\ ~(Generalism!Carried(obs.cellDoc) # proof.cellTopology)
           /\ ~(Generalism!Carried(obs.controlDoc) # proof.controlTopology)
           /\ ~(~Generalism!ConsumerMatches(obs.consumer.cell, proof.expected))
           /\ ~(~Generalism!ConsumerMatches(obs.consumer.control, proof.controlExpected))
           /\ ~(Generalism!Same(obs.consumer.cell, obs.consumer.control))
           /\ ~(Generalism!Same(obs.consumer.tampered, obs.consumer.cell))
<1> DEFINE w1 == obs.producerError
           w2 == Generalism!SpecsFail(obs)
           w3 == Generalism!Carried(obs.cellDoc) # proof.cellTopology
           w4 == Generalism!Carried(obs.controlDoc) # proof.controlTopology
           w5 == ~Generalism!ConsumerMatches(obs.consumer.cell, proof.expected)
           w6 == ~Generalism!ConsumerMatches(obs.consumer.control, proof.controlExpected)
           w7 == Generalism!Same(obs.consumer.cell, obs.consumer.control)
           w8 == Generalism!Same(obs.consumer.tampered, obs.consumer.cell)
           C == <<Generalism!Refuse("internal_error", w1),
                  Generalism!Refuse("compile_failure", w2),
                  Generalism!Refuse("internal_error", w3),
                  Generalism!Refuse("internal_error", w4),
                  Generalism!Refuse("internal_error", w5),
                  Generalism!Refuse("internal_error", w6),
                  Generalism!Refuse("semantic_mismatch", w7),
                  Generalism!Refuse("semantic_mismatch", w8)>>
<1>1. Generalism!VerdictParticipant(proof, obs) = FirstOf(C)
  <2>1. Generalism!VerdictParticipant(proof, obs) = Generalism!FirstOf(C)
    BY DEF Generalism!VerdictParticipant
  <2> HIDE DEF C
  <2> QED BY <2>1, MatrixChecks
<1> HIDE DEF w1, w2, w3, w4, w5, w6, w7, w8
<1>2. DOMAIN C = 1 .. 8 /\ 1 .. 8 = {1, 2, 3, 4, 5, 6, 7, 8} /\ 8 \in Nat
  OBVIOUS
<1>3. /\ C[1].code # Ok /\ C[1].when = w1
      /\ C[2].code # Ok /\ C[2].when = w2
      /\ C[3].code # Ok /\ C[3].when = w3
      /\ C[4].code # Ok /\ C[4].when = w4
      /\ C[5].code # Ok /\ C[5].when = w5
      /\ C[6].code # Ok /\ C[6].when = w6
      /\ C[7].code # Ok /\ C[7].when = w7
      /\ C[8].code # Ok /\ C[8].when = w8
  BY DEF Generalism!Refuse, Ok
<1> HIDE DEF C
<1>4. FirstOf(C) = Ok <=> \A i \in 1 .. 8 : ~C[i].when
  <2>1. \A i \in 1 .. 8 : C[i].code # Ok
    BY <1>2, <1>3
  <2>2. DOMAIN C = 1 .. 8 /\ 8 \in Nat
    BY <1>2
  <2> QED BY <2>1, <2>2, AcceptedIff
<1>5. Generalism!VerdictParticipant(proof, obs) = Ok <=> (~w1 /\ ~w2 /\ ~w3 /\ ~w4 /\ ~w5 /\ ~w6 /\ ~w7 /\ ~w8)
  BY <1>1, <1>2, <1>3, <1>4
<1> QED BY <1>5 DEF w1, w2, w3, w4, w5, w6, w7, w8


LEMMA ObserverSetVerdict ==
  ASSUME NEW proof, NEW obs
  PROVE  Generalism!VerdictObserverSet(proof, obs) = Ok <=>
           /\ ~(Generalism!SpecsFail(obs))
           /\ ~(obs.derived.cell.value # proof.cellValue \/ obs.bound.value # proof.cellValue)
           /\ ~(obs.derived.control.value # proof.controlValue \/ obs.tamperedBound.value # proof.controlValue)
           /\ ~(~Generalism!ConsumerMatches(obs.consumer.cell, Generalism!Accepts))
           /\ ~(~Generalism!ConsumerMatches(obs.consumer.control, Generalism!Mismatch))
           /\ ~(Generalism!Same(obs.consumer.cell, obs.consumer.control))
           /\ ~(Generalism!Same(obs.consumer.cell, obs.consumer.tampered))
           /\ ~(~Generalism!ConsumerMatches(obs.consumer.tampered, Generalism!Mismatch))
<1> DEFINE w1 == Generalism!SpecsFail(obs)
           w2 == obs.derived.cell.value # proof.cellValue \/ obs.bound.value # proof.cellValue
           w3 == obs.derived.control.value # proof.controlValue \/ obs.tamperedBound.value # proof.controlValue
           w4 == ~Generalism!ConsumerMatches(obs.consumer.cell, Generalism!Accepts)
           w5 == ~Generalism!ConsumerMatches(obs.consumer.control, Generalism!Mismatch)
           w6 == Generalism!Same(obs.consumer.cell, obs.consumer.control)
           w7 == Generalism!Same(obs.consumer.cell, obs.consumer.tampered)
           w8 == ~Generalism!ConsumerMatches(obs.consumer.tampered, Generalism!Mismatch)
           C == <<Generalism!Refuse("compile_failure", w1),
                  Generalism!Refuse("internal_error", w2),
                  Generalism!Refuse("internal_error", w3),
                  Generalism!Refuse("internal_error", w4),
                  Generalism!Refuse("internal_error", w5),
                  Generalism!Refuse("semantic_mismatch", w6),
                  Generalism!Refuse("semantic_mismatch", w7),
                  Generalism!Refuse("internal_error", w8)>>
<1>1. Generalism!VerdictObserverSet(proof, obs) = FirstOf(C)
  <2>1. Generalism!VerdictObserverSet(proof, obs) = Generalism!FirstOf(C)
    BY DEF Generalism!VerdictObserverSet
  <2> HIDE DEF C
  <2> QED BY <2>1, MatrixChecks
<1> HIDE DEF w1, w2, w3, w4, w5, w6, w7, w8
<1>2. DOMAIN C = 1 .. 8 /\ 1 .. 8 = {1, 2, 3, 4, 5, 6, 7, 8} /\ 8 \in Nat
  OBVIOUS
<1>3. /\ C[1].code # Ok /\ C[1].when = w1
      /\ C[2].code # Ok /\ C[2].when = w2
      /\ C[3].code # Ok /\ C[3].when = w3
      /\ C[4].code # Ok /\ C[4].when = w4
      /\ C[5].code # Ok /\ C[5].when = w5
      /\ C[6].code # Ok /\ C[6].when = w6
      /\ C[7].code # Ok /\ C[7].when = w7
      /\ C[8].code # Ok /\ C[8].when = w8
  BY DEF Generalism!Refuse, Ok
<1> HIDE DEF C
<1>4. FirstOf(C) = Ok <=> \A i \in 1 .. 8 : ~C[i].when
  <2>1. \A i \in 1 .. 8 : C[i].code # Ok
    BY <1>2, <1>3
  <2>2. DOMAIN C = 1 .. 8 /\ 8 \in Nat
    BY <1>2
  <2> QED BY <2>1, <2>2, AcceptedIff
<1>5. Generalism!VerdictObserverSet(proof, obs) = Ok <=> (~w1 /\ ~w2 /\ ~w3 /\ ~w4 /\ ~w5 /\ ~w6 /\ ~w7 /\ ~w8)
  BY <1>1, <1>2, <1>3, <1>4
<1> QED BY <1>5 DEF w1, w2, w3, w4, w5, w6, w7, w8


LEMMA LifecycleVerdict ==
  ASSUME NEW proof, NEW obs
  PROVE  Generalism!VerdictLifecycleState(proof, obs) = Ok <=>
           /\ obs.spec.cell.ok
           /\ ~(obs.derived.cell.terminal # proof.state)
           /\ ~(obs.derived.tampered.terminal # proof.tamperState)
           /\ ~(Generalism!IdentityLost({obs.derived.cell, obs.derived.control, obs.derived.tampered}))
           /\ ~(obs.derived.control = obs.derived.tampered)
           /\ ~(obs.derived.cell.value # proof.cellValue)
           /\ ~(obs.derived.control.value # proof.controlValue)
           /\ ~(obs.derived.tampered.value # proof.cellValue)
           /\ ~(~Generalism!RefusesExactly(obs.spec.control, "mismatch"))
           /\ ~(~Generalism!RefusesExactly(obs.spec.tampered, "mismatch"))
           /\ ~(Generalism!Same(obs.spec.control, obs.spec.cell))
           /\ ~(Generalism!Same(obs.spec.tampered, obs.spec.cell))
<1> DEFINE w1 == ~obs.spec.cell.ok
           w2 == obs.derived.cell.terminal # proof.state
           w3 == obs.derived.tampered.terminal # proof.tamperState
           w4 == Generalism!IdentityLost({obs.derived.cell, obs.derived.control, obs.derived.tampered})
           w5 == obs.derived.control = obs.derived.tampered
           w6 == obs.derived.cell.value # proof.cellValue
           w7 == obs.derived.control.value # proof.controlValue
           w8 == obs.derived.tampered.value # proof.cellValue
           w9 == ~Generalism!RefusesExactly(obs.spec.control, "mismatch")
           w10 == ~Generalism!RefusesExactly(obs.spec.tampered, "mismatch")
           w11 == Generalism!Same(obs.spec.control, obs.spec.cell)
           w12 == Generalism!Same(obs.spec.tampered, obs.spec.cell)
           C == <<Generalism!Refuse("compile_failure", w1),
                  Generalism!Refuse("internal_error", w2),
                  Generalism!Refuse("internal_error", w3),
                  Generalism!Refuse("internal_error", w4),
                  Generalism!Refuse("internal_error", w5),
                  Generalism!Refuse("internal_error", w6),
                  Generalism!Refuse("internal_error", w7),
                  Generalism!Refuse("internal_error", w8),
                  Generalism!Refuse("internal_error", w9),
                  Generalism!Refuse("internal_error", w10),
                  Generalism!Refuse("semantic_mismatch", w11),
                  Generalism!Refuse("semantic_mismatch", w12)>>
<1>1. Generalism!VerdictLifecycleState(proof, obs) = FirstOf(C)
  <2>1. Generalism!VerdictLifecycleState(proof, obs) = Generalism!FirstOf(C)
    BY DEF Generalism!VerdictLifecycleState
  <2> HIDE DEF C
  <2> QED BY <2>1, MatrixChecks
<1> HIDE DEF w1, w2, w3, w4, w5, w6, w7, w8, w9, w10, w11, w12
<1>2. DOMAIN C = 1 .. 12 /\ 1 .. 12 = {1, 2, 3, 4, 5, 6, 7, 8, 9, 10, 11, 12} /\ 12 \in Nat
  OBVIOUS
<1>3. /\ C[1].code # Ok /\ C[1].when = w1
      /\ C[2].code # Ok /\ C[2].when = w2
      /\ C[3].code # Ok /\ C[3].when = w3
      /\ C[4].code # Ok /\ C[4].when = w4
      /\ C[5].code # Ok /\ C[5].when = w5
      /\ C[6].code # Ok /\ C[6].when = w6
      /\ C[7].code # Ok /\ C[7].when = w7
      /\ C[8].code # Ok /\ C[8].when = w8
      /\ C[9].code # Ok /\ C[9].when = w9
      /\ C[10].code # Ok /\ C[10].when = w10
      /\ C[11].code # Ok /\ C[11].when = w11
      /\ C[12].code # Ok /\ C[12].when = w12
  BY DEF Generalism!Refuse, Ok
<1> HIDE DEF C
<1>4. FirstOf(C) = Ok <=> \A i \in 1 .. 12 : ~C[i].when
  <2>1. \A i \in 1 .. 12 : C[i].code # Ok
    BY <1>2, <1>3
  <2>2. DOMAIN C = 1 .. 12 /\ 12 \in Nat
    BY <1>2
  <2> QED BY <2>1, <2>2, AcceptedIff
<1>5. Generalism!VerdictLifecycleState(proof, obs) = Ok <=> (~w1 /\ ~w2 /\ ~w3 /\ ~w4 /\ ~w5 /\ ~w6 /\ ~w7 /\ ~w8 /\ ~w9 /\ ~w10 /\ ~w11 /\ ~w12)
  BY <1>1, <1>2, <1>3, <1>4
<1> QED BY <1>5 DEF w1, w2, w3, w4, w5, w6, w7, w8, w9, w10, w11, w12


LEMMA TransitionVerdict ==
  ASSUME NEW proof, NEW obs
  PROVE  Generalism!VerdictTransition(proof, obs) = Ok <=>
           /\ ~(obs.producerError)
           /\ ~(Generalism!SpecsFail(obs))
           /\ ~(Generalism!IdentityLost({obs.derived.cell, obs.derived.control}))
           /\ ~(obs.derived.cell.value # proof.cellValue \/ Generalism!Carried(obs.cellDoc) # proof.cellValue)
           /\ ~(obs.derived.control.value # proof.controlValue \/ Generalism!Carried(obs.controlDoc) # proof.controlValue)
           /\ ~(obs.cellDoc = obs.controlDoc)
<1> DEFINE w1 == obs.producerError
           w2 == Generalism!SpecsFail(obs)
           w3 == Generalism!IdentityLost({obs.derived.cell, obs.derived.control})
           w4 == obs.derived.cell.value # proof.cellValue \/ Generalism!Carried(obs.cellDoc) # proof.cellValue
           w5 == obs.derived.control.value # proof.controlValue \/ Generalism!Carried(obs.controlDoc) # proof.controlValue
           w6 == obs.cellDoc = obs.controlDoc
           C == <<Generalism!Refuse("internal_error", w1),
                  Generalism!Refuse("compile_failure", w2),
                  Generalism!Refuse("internal_error", w3),
                  Generalism!Refuse("internal_error", w4),
                  Generalism!Refuse("internal_error", w5),
                  Generalism!Refuse("semantic_mismatch", w6)>>
<1>1. Generalism!VerdictTransition(proof, obs) = FirstOf(C)
  <2>1. Generalism!VerdictTransition(proof, obs) = Generalism!FirstOf(C)
    BY DEF Generalism!VerdictTransition
  <2> HIDE DEF C
  <2> QED BY <2>1, MatrixChecks
<1> HIDE DEF w1, w2, w3, w4, w5, w6
<1>2. DOMAIN C = 1 .. 6 /\ 1 .. 6 = {1, 2, 3, 4, 5, 6} /\ 6 \in Nat
  OBVIOUS
<1>3. /\ C[1].code # Ok /\ C[1].when = w1
      /\ C[2].code # Ok /\ C[2].when = w2
      /\ C[3].code # Ok /\ C[3].when = w3
      /\ C[4].code # Ok /\ C[4].when = w4
      /\ C[5].code # Ok /\ C[5].when = w5
      /\ C[6].code # Ok /\ C[6].when = w6
  BY DEF Generalism!Refuse, Ok
<1> HIDE DEF C
<1>4. FirstOf(C) = Ok <=> \A i \in 1 .. 6 : ~C[i].when
  <2>1. \A i \in 1 .. 6 : C[i].code # Ok
    BY <1>2, <1>3
  <2>2. DOMAIN C = 1 .. 6 /\ 6 \in Nat
    BY <1>2
  <2> QED BY <2>1, <2>2, AcceptedIff
<1>5. Generalism!VerdictTransition(proof, obs) = Ok <=> (~w1 /\ ~w2 /\ ~w3 /\ ~w4 /\ ~w5 /\ ~w6)
  BY <1>1, <1>2, <1>3, <1>4
<1> QED BY <1>5 DEF w1, w2, w3, w4, w5, w6


LEMMA TamperedVerdict ==
  ASSUME NEW proof, NEW obs
  PROVE  Generalism!VerdictTampered(proof, obs) = Ok <=>
           /\ ~(obs.producerError)
           /\ ~(Generalism!SpecsFail(obs))
           /\ ~(Generalism!IdentityLost({obs.derived.cell, obs.derived.control, obs.derived.tampered}))
           /\ ~(obs.derived.cell.value # proof.cellValue \/ Generalism!Carried(obs.cellDoc) # proof.cellValue)
           /\ ~(obs.derived.control.value # proof.controlValue \/ Generalism!Carried(obs.controlDoc) # proof.controlValue)
           /\ ~(proof.locus = "evidence" /\ \E chained \in {x.chained : x \in {obs.derived.cell, obs.derived.control}} \cup {x.chained : x \in {obs.cellDoc, obs.controlDoc, obs.tamperedDoc}} : chained # proof.chained)
           /\ ~(obs.derived.tampered.value # Generalism!None \/ ~Generalism!RefusesExactly(obs.spec.tampered, "spec.schema"))
           /\ ~(obs.tamperedDoc.value # Generalism!None)
           /\ ~(obs.cellDoc = obs.controlDoc)
           /\ ~(obs.cellDoc = obs.tamperedDoc)
<1> DEFINE w1 == obs.producerError
           w2 == Generalism!SpecsFail(obs)
           w3 == Generalism!IdentityLost({obs.derived.cell, obs.derived.control, obs.derived.tampered})
           w4 == obs.derived.cell.value # proof.cellValue \/ Generalism!Carried(obs.cellDoc) # proof.cellValue
           w5 == obs.derived.control.value # proof.controlValue \/ Generalism!Carried(obs.controlDoc) # proof.controlValue
           w6 == proof.locus = "evidence" /\ \E chained \in {x.chained : x \in {obs.derived.cell, obs.derived.control}} \cup {x.chained : x \in {obs.cellDoc, obs.controlDoc, obs.tamperedDoc}} : chained # proof.chained
           w7 == obs.derived.tampered.value # Generalism!None \/ ~Generalism!RefusesExactly(obs.spec.tampered, "spec.schema")
           w8 == obs.tamperedDoc.value # Generalism!None
           w9 == obs.cellDoc = obs.controlDoc
           w10 == obs.cellDoc = obs.tamperedDoc
           C == <<Generalism!Refuse("internal_error", w1),
                  Generalism!Refuse("compile_failure", w2),
                  Generalism!Refuse("internal_error", w3),
                  Generalism!Refuse("internal_error", w4),
                  Generalism!Refuse("internal_error", w5),
                  Generalism!Refuse("semantic_mismatch", w6),
                  Generalism!Refuse("semantic_mismatch", w7),
                  Generalism!Refuse("semantic_mismatch", w8),
                  Generalism!Refuse("semantic_mismatch", w9),
                  Generalism!Refuse("semantic_mismatch", w10)>>
<1>1. Generalism!VerdictTampered(proof, obs) = FirstOf(C)
  <2>1. Generalism!VerdictTampered(proof, obs) = Generalism!FirstOf(C)
    BY DEF Generalism!VerdictTampered
  <2> HIDE DEF C
  <2> QED BY <2>1, MatrixChecks
<1> HIDE DEF w1, w2, w3, w4, w5, w6, w7, w8, w9, w10
<1>2. DOMAIN C = 1 .. 10 /\ 1 .. 10 = {1, 2, 3, 4, 5, 6, 7, 8, 9, 10} /\ 10 \in Nat
  OBVIOUS
<1>3. /\ C[1].code # Ok /\ C[1].when = w1
      /\ C[2].code # Ok /\ C[2].when = w2
      /\ C[3].code # Ok /\ C[3].when = w3
      /\ C[4].code # Ok /\ C[4].when = w4
      /\ C[5].code # Ok /\ C[5].when = w5
      /\ C[6].code # Ok /\ C[6].when = w6
      /\ C[7].code # Ok /\ C[7].when = w7
      /\ C[8].code # Ok /\ C[8].when = w8
      /\ C[9].code # Ok /\ C[9].when = w9
      /\ C[10].code # Ok /\ C[10].when = w10
  BY DEF Generalism!Refuse, Ok
<1> HIDE DEF C
<1>4. FirstOf(C) = Ok <=> \A i \in 1 .. 10 : ~C[i].when
  <2>1. \A i \in 1 .. 10 : C[i].code # Ok
    BY <1>2, <1>3
  <2>2. DOMAIN C = 1 .. 10 /\ 10 \in Nat
    BY <1>2
  <2> QED BY <2>1, <2>2, AcceptedIff
<1>5. Generalism!VerdictTampered(proof, obs) = Ok <=> (~w1 /\ ~w2 /\ ~w3 /\ ~w4 /\ ~w5 /\ ~w6 /\ ~w7 /\ ~w8 /\ ~w9 /\ ~w10)
  BY <1>1, <1>2, <1>3, <1>4
<1> QED BY <1>5 DEF w1, w2, w3, w4, w5, w6, w7, w8, w9, w10

\* ... and what the offline prover demands of it.
LEMMA ParticipantProof ==
  ASSUME NEW proof, NEW obs
  PROVE  Generalism!ProveParticipant(proof, obs) = Ok <=>
           /\ ~(obs.derived.cell.value # proof.cellValue \/ obs.derived.control.value # proof.controlValue)
           /\ ~(Generalism!SpecsFail(obs))
           /\ ~(obs.cellDoc.failed \/ obs.controlDoc.failed)
           /\ ~(~obs.cellDoc.found \/ ~obs.controlDoc.found)
           /\ ~(obs.cellDoc.value # proof.cellTopology \/ obs.controlDoc.value # proof.controlTopology)
           /\ ~(~Generalism!ConsumerMatches(obs.consumer.cell, proof.expected))
           /\ ~(~Generalism!ConsumerMatches(obs.consumer.control, proof.controlExpected))
           /\ ~(Generalism!Same(obs.consumer.cell, obs.consumer.control))
           /\ ~(proof.field \notin {"minAssurance", "lateBindingMode"})
           /\ ~(Generalism!Same(obs.consumer.tampered, obs.consumer.cell))
<1> DEFINE w1 == obs.derived.cell.value # proof.cellValue \/ obs.derived.control.value # proof.controlValue
           w2 == Generalism!SpecsFail(obs)
           w3 == obs.cellDoc.failed \/ obs.controlDoc.failed
           w4 == ~obs.cellDoc.found \/ ~obs.controlDoc.found
           w5 == obs.cellDoc.value # proof.cellTopology \/ obs.controlDoc.value # proof.controlTopology
           w6 == ~Generalism!ConsumerMatches(obs.consumer.cell, proof.expected)
           w7 == ~Generalism!ConsumerMatches(obs.consumer.control, proof.controlExpected)
           w8 == Generalism!Same(obs.consumer.cell, obs.consumer.control)
           w9 == proof.field \notin {"minAssurance", "lateBindingMode"}
           w10 == Generalism!Same(obs.consumer.tampered, obs.consumer.cell)
           C == <<Generalism!Refuse("not carried", w1),
                  Generalism!Refuse("does not validate clean", w2),
                  Generalism!Refuse("renderer failed", w3),
                  Generalism!Refuse("no slot", w4),
                  Generalism!Refuse("not in topology", w5),
                  Generalism!Refuse("cell observation", w6),
                  Generalism!Refuse("control observation", w7),
                  Generalism!Refuse("same observation", w8),
                  Generalism!Refuse("unsupported field", w9),
                  Generalism!Refuse("vacuous", w10)>>
<1>1. Generalism!ProveParticipant(proof, obs) = FirstOf(C)
  <2>1. Generalism!ProveParticipant(proof, obs) = Generalism!FirstOf(C)
    BY DEF Generalism!ProveParticipant
  <2> HIDE DEF C
  <2> QED BY <2>1, MatrixChecks
<1> HIDE DEF w1, w2, w3, w4, w5, w6, w7, w8, w9, w10
<1>2. DOMAIN C = 1 .. 10 /\ 1 .. 10 = {1, 2, 3, 4, 5, 6, 7, 8, 9, 10} /\ 10 \in Nat
  OBVIOUS
<1>3. /\ C[1].code # Ok /\ C[1].when = w1
      /\ C[2].code # Ok /\ C[2].when = w2
      /\ C[3].code # Ok /\ C[3].when = w3
      /\ C[4].code # Ok /\ C[4].when = w4
      /\ C[5].code # Ok /\ C[5].when = w5
      /\ C[6].code # Ok /\ C[6].when = w6
      /\ C[7].code # Ok /\ C[7].when = w7
      /\ C[8].code # Ok /\ C[8].when = w8
      /\ C[9].code # Ok /\ C[9].when = w9
      /\ C[10].code # Ok /\ C[10].when = w10
  BY DEF Generalism!Refuse, Ok
<1> HIDE DEF C
<1>4. FirstOf(C) = Ok <=> \A i \in 1 .. 10 : ~C[i].when
  <2>1. \A i \in 1 .. 10 : C[i].code # Ok
    BY <1>2, <1>3
  <2>2. DOMAIN C = 1 .. 10 /\ 10 \in Nat
    BY <1>2
  <2> QED BY <2>1, <2>2, AcceptedIff
<1>5. Generalism!ProveParticipant(proof, obs) = Ok <=> (~w1 /\ ~w2 /\ ~w3 /\ ~w4 /\ ~w5 /\ ~w6 /\ ~w7 /\ ~w8 /\ ~w9 /\ ~w10)
  BY <1>1, <1>2, <1>3, <1>4
<1> QED BY <1>5 DEF w1, w2, w3, w4, w5, w6, w7, w8, w9, w10


LEMMA ObserverSetProof ==
  ASSUME NEW proof, NEW obs
  PROVE  Generalism!ProveObserverSet(proof, obs) = Ok <=>
           /\ ~(obs.derived.cell.value # proof.cellValue \/ obs.derived.control.value # proof.controlValue \/ obs.bound.value # proof.cellValue)
           /\ ~(Generalism!SpecsFail(obs))
           /\ ~(~Generalism!ConsumerMatches(obs.consumer.cell, Generalism!Accepts))
           /\ ~(~Generalism!ConsumerMatches(obs.consumer.control, Generalism!Mismatch))
           /\ ~(~Generalism!ConsumerMatches(obs.consumer.tampered, Generalism!Mismatch))
           /\ ~(Generalism!Same(obs.consumer.cell, obs.consumer.control))
           /\ ~(Generalism!Same(obs.consumer.cell, obs.consumer.tampered))
<1> DEFINE w1 == obs.derived.cell.value # proof.cellValue \/ obs.derived.control.value # proof.controlValue \/ obs.bound.value # proof.cellValue
           w2 == Generalism!SpecsFail(obs)
           w3 == ~Generalism!ConsumerMatches(obs.consumer.cell, Generalism!Accepts)
           w4 == ~Generalism!ConsumerMatches(obs.consumer.control, Generalism!Mismatch)
           w5 == ~Generalism!ConsumerMatches(obs.consumer.tampered, Generalism!Mismatch)
           w6 == Generalism!Same(obs.consumer.cell, obs.consumer.control)
           w7 == Generalism!Same(obs.consumer.cell, obs.consumer.tampered)
           C == <<Generalism!Refuse("not carried", w1),
                  Generalism!Refuse("does not validate clean", w2),
                  Generalism!Refuse("cell observation", w3),
                  Generalism!Refuse("control observation", w4),
                  Generalism!Refuse("tampered observation", w5),
                  Generalism!Refuse("same observation", w6),
                  Generalism!Refuse("vacuous", w7)>>
<1>1. Generalism!ProveObserverSet(proof, obs) = FirstOf(C)
  <2>1. Generalism!ProveObserverSet(proof, obs) = Generalism!FirstOf(C)
    BY DEF Generalism!ProveObserverSet
  <2> HIDE DEF C
  <2> QED BY <2>1, MatrixChecks
<1> HIDE DEF w1, w2, w3, w4, w5, w6, w7
<1>2. DOMAIN C = 1 .. 7 /\ 1 .. 7 = {1, 2, 3, 4, 5, 6, 7} /\ 7 \in Nat
  OBVIOUS
<1>3. /\ C[1].code # Ok /\ C[1].when = w1
      /\ C[2].code # Ok /\ C[2].when = w2
      /\ C[3].code # Ok /\ C[3].when = w3
      /\ C[4].code # Ok /\ C[4].when = w4
      /\ C[5].code # Ok /\ C[5].when = w5
      /\ C[6].code # Ok /\ C[6].when = w6
      /\ C[7].code # Ok /\ C[7].when = w7
  BY DEF Generalism!Refuse, Ok
<1> HIDE DEF C
<1>4. FirstOf(C) = Ok <=> \A i \in 1 .. 7 : ~C[i].when
  <2>1. \A i \in 1 .. 7 : C[i].code # Ok
    BY <1>2, <1>3
  <2>2. DOMAIN C = 1 .. 7 /\ 7 \in Nat
    BY <1>2
  <2> QED BY <2>1, <2>2, AcceptedIff
<1>5. Generalism!ProveObserverSet(proof, obs) = Ok <=> (~w1 /\ ~w2 /\ ~w3 /\ ~w4 /\ ~w5 /\ ~w6 /\ ~w7)
  BY <1>1, <1>2, <1>3, <1>4
<1> QED BY <1>5 DEF w1, w2, w3, w4, w5, w6, w7


LEMMA LifecycleProof ==
  ASSUME NEW proof, NEW obs
  PROVE  Generalism!ProveLifecycleState(proof, obs) = Ok <=>
           /\ ~(obs.derived.cell.value # proof.cellValue \/ obs.derived.control.value # proof.controlValue \/ obs.derived.tampered.value # proof.cellValue)
           /\ ~(obs.derived.tampered.terminal # proof.tamperState)
           /\ ~(obs.derived.control = obs.derived.tampered)
           /\ ~(Generalism!IdentityLost({obs.derived.cell, obs.derived.control, obs.derived.tampered}))
           /\ obs.spec.cell.ok
           /\ ~(~Generalism!RefusesExactly(obs.spec.control, "mismatch"))
           /\ ~(~Generalism!RefusesExactly(obs.spec.tampered, "mismatch"))
           /\ ~(Generalism!Same([obs.spec.cell EXCEPT !.ok = TRUE], obs.spec.control))
           /\ ~(Generalism!Same([obs.spec.cell EXCEPT !.ok = TRUE], obs.spec.tampered))
<1> DEFINE w1 == obs.derived.cell.value # proof.cellValue \/ obs.derived.control.value # proof.controlValue \/ obs.derived.tampered.value # proof.cellValue
           w2 == obs.derived.tampered.terminal # proof.tamperState
           w3 == obs.derived.control = obs.derived.tampered
           w4 == Generalism!IdentityLost({obs.derived.cell, obs.derived.control, obs.derived.tampered})
           w5 == ~obs.spec.cell.ok
           w6 == ~Generalism!RefusesExactly(obs.spec.control, "mismatch")
           w7 == ~Generalism!RefusesExactly(obs.spec.tampered, "mismatch")
           w8 == Generalism!Same([obs.spec.cell EXCEPT !.ok = TRUE], obs.spec.control)
           w9 == Generalism!Same([obs.spec.cell EXCEPT !.ok = TRUE], obs.spec.tampered)
           C == <<Generalism!Refuse("not carried", w1),
                  Generalism!Refuse("not rewired", w2),
                  Generalism!Refuse("same document", w3),
                  Generalism!Refuse("identity", w4),
                  Generalism!Refuse("does not validate clean", w5),
                  Generalism!Refuse("control observation", w6),
                  Generalism!Refuse("tampered observation", w7),
                  Generalism!Refuse("same observation", w8),
                  Generalism!Refuse("vacuous", w9)>>
<1>1. Generalism!ProveLifecycleState(proof, obs) = FirstOf(C)
  <2>1. Generalism!ProveLifecycleState(proof, obs) = Generalism!FirstOf(C)
    BY DEF Generalism!ProveLifecycleState
  <2> HIDE DEF C
  <2> QED BY <2>1, MatrixChecks
<1> HIDE DEF w1, w2, w3, w4, w5, w6, w7, w8, w9
<1>2. DOMAIN C = 1 .. 9 /\ 1 .. 9 = {1, 2, 3, 4, 5, 6, 7, 8, 9} /\ 9 \in Nat
  OBVIOUS
<1>3. /\ C[1].code # Ok /\ C[1].when = w1
      /\ C[2].code # Ok /\ C[2].when = w2
      /\ C[3].code # Ok /\ C[3].when = w3
      /\ C[4].code # Ok /\ C[4].when = w4
      /\ C[5].code # Ok /\ C[5].when = w5
      /\ C[6].code # Ok /\ C[6].when = w6
      /\ C[7].code # Ok /\ C[7].when = w7
      /\ C[8].code # Ok /\ C[8].when = w8
      /\ C[9].code # Ok /\ C[9].when = w9
  BY DEF Generalism!Refuse, Ok
<1> HIDE DEF C
<1>4. FirstOf(C) = Ok <=> \A i \in 1 .. 9 : ~C[i].when
  <2>1. \A i \in 1 .. 9 : C[i].code # Ok
    BY <1>2, <1>3
  <2>2. DOMAIN C = 1 .. 9 /\ 9 \in Nat
    BY <1>2
  <2> QED BY <2>1, <2>2, AcceptedIff
<1>5. Generalism!ProveLifecycleState(proof, obs) = Ok <=> (~w1 /\ ~w2 /\ ~w3 /\ ~w4 /\ ~w5 /\ ~w6 /\ ~w7 /\ ~w8 /\ ~w9)
  BY <1>1, <1>2, <1>3, <1>4
<1> QED BY <1>5 DEF w1, w2, w3, w4, w5, w6, w7, w8, w9


LEMMA TransitionProof ==
  ASSUME NEW proof, NEW obs
  PROVE  Generalism!ProveTransition(proof, obs) = Ok <=>
           /\ ~(obs.derived.cell.value # proof.cellValue \/ obs.derived.control.value # proof.controlValue)
           /\ ~(Generalism!IdentityLost({obs.derived.cell, obs.derived.control}))
           /\ ~(Generalism!SpecsFail(obs))
           /\ ~(obs.producerError)
           /\ ~(Generalism!Carried(obs.cellDoc) # proof.cellValue \/ Generalism!Carried(obs.controlDoc) # proof.controlValue)
           /\ ~(obs.cellDoc = obs.controlDoc)
<1> DEFINE w1 == obs.derived.cell.value # proof.cellValue \/ obs.derived.control.value # proof.controlValue
           w2 == Generalism!IdentityLost({obs.derived.cell, obs.derived.control})
           w3 == Generalism!SpecsFail(obs)
           w4 == obs.producerError
           w5 == Generalism!Carried(obs.cellDoc) # proof.cellValue \/ Generalism!Carried(obs.controlDoc) # proof.controlValue
           w6 == obs.cellDoc = obs.controlDoc
           C == <<Generalism!Refuse("not carried", w1),
                  Generalism!Refuse("identity", w2),
                  Generalism!Refuse("does not validate clean", w3),
                  Generalism!Refuse("renderer failed", w4),
                  Generalism!Refuse("not in plan", w5),
                  Generalism!Refuse("same artifact", w6)>>
<1>1. Generalism!ProveTransition(proof, obs) = FirstOf(C)
  <2>1. Generalism!ProveTransition(proof, obs) = Generalism!FirstOf(C)
    BY DEF Generalism!ProveTransition
  <2> HIDE DEF C
  <2> QED BY <2>1, MatrixChecks
<1> HIDE DEF w1, w2, w3, w4, w5, w6
<1>2. DOMAIN C = 1 .. 6 /\ 1 .. 6 = {1, 2, 3, 4, 5, 6} /\ 6 \in Nat
  OBVIOUS
<1>3. /\ C[1].code # Ok /\ C[1].when = w1
      /\ C[2].code # Ok /\ C[2].when = w2
      /\ C[3].code # Ok /\ C[3].when = w3
      /\ C[4].code # Ok /\ C[4].when = w4
      /\ C[5].code # Ok /\ C[5].when = w5
      /\ C[6].code # Ok /\ C[6].when = w6
  BY DEF Generalism!Refuse, Ok
<1> HIDE DEF C
<1>4. FirstOf(C) = Ok <=> \A i \in 1 .. 6 : ~C[i].when
  <2>1. \A i \in 1 .. 6 : C[i].code # Ok
    BY <1>2, <1>3
  <2>2. DOMAIN C = 1 .. 6 /\ 6 \in Nat
    BY <1>2
  <2> QED BY <2>1, <2>2, AcceptedIff
<1>5. Generalism!ProveTransition(proof, obs) = Ok <=> (~w1 /\ ~w2 /\ ~w3 /\ ~w4 /\ ~w5 /\ ~w6)
  BY <1>1, <1>2, <1>3, <1>4
<1> QED BY <1>5 DEF w1, w2, w3, w4, w5, w6


LEMMA TamperedProof ==
  ASSUME NEW proof, NEW obs
  PROVE  Generalism!ProveTampered(proof, obs) = Ok <=>
           /\ ~(Generalism!IdentityLost({obs.derived.cell, obs.derived.control, obs.derived.tampered}))
           /\ ~(obs.derived.cell.value # proof.cellValue \/ obs.derived.control.value # proof.controlValue)
           /\ ~(proof.locus = "evidence" /\ ((obs.derived.cell.chained # proof.chained \/ obs.derived.control.chained # proof.chained) \/ (obs.derived.cell.mirror # proof.cellValue \/ obs.derived.control.mirror # proof.controlValue)))
           /\ ~(Generalism!SpecsFail(obs))
           /\ ~(~Generalism!RefusesExactly(obs.spec.tampered, "spec.schema"))
           /\ ~(obs.producerError)
           /\ ~(Generalism!Carried(obs.cellDoc) # proof.cellValue \/ Generalism!Carried(obs.controlDoc) # proof.controlValue)
           /\ ~(proof.locus = "evidence" /\ \E doc \in {obs.cellDoc, obs.controlDoc, obs.tamperedDoc} : doc.chained # proof.chained)
           /\ ~(obs.tamperedDoc.value # Generalism!None)
           /\ ~(obs.cellDoc = obs.controlDoc)
           /\ ~(obs.cellDoc = obs.tamperedDoc)
<1> DEFINE w1 == Generalism!IdentityLost({obs.derived.cell, obs.derived.control, obs.derived.tampered})
           w2 == obs.derived.cell.value # proof.cellValue \/ obs.derived.control.value # proof.controlValue
           w3 == proof.locus = "evidence" /\ ((obs.derived.cell.chained # proof.chained \/ obs.derived.control.chained # proof.chained) \/ (obs.derived.cell.mirror # proof.cellValue \/ obs.derived.control.mirror # proof.controlValue))
           w4 == Generalism!SpecsFail(obs)
           w5 == ~Generalism!RefusesExactly(obs.spec.tampered, "spec.schema")
           w6 == obs.producerError
           w7 == Generalism!Carried(obs.cellDoc) # proof.cellValue \/ Generalism!Carried(obs.controlDoc) # proof.controlValue
           w8 == proof.locus = "evidence" /\ \E doc \in {obs.cellDoc, obs.controlDoc, obs.tamperedDoc} : doc.chained # proof.chained
           w9 == obs.tamperedDoc.value # Generalism!None
           w10 == obs.cellDoc = obs.controlDoc
           w11 == obs.cellDoc = obs.tamperedDoc
           C == <<Generalism!Refuse("identity", w1),
                  Generalism!Refuse("not carried", w2),
                  Generalism!Refuse("mirror", w3),
                  Generalism!Refuse("does not validate clean", w4),
                  Generalism!Refuse("drop not refused", w5),
                  Generalism!Refuse("renderer failed", w6),
                  Generalism!Refuse("not in plan", w7),
                  Generalism!Refuse("conflated", w8),
                  Generalism!Refuse("not dropped", w9),
                  Generalism!Refuse("same artifact", w10),
                  Generalism!Refuse("drop not seen", w11)>>
<1>1. Generalism!ProveTampered(proof, obs) = FirstOf(C)
  <2>1. Generalism!ProveTampered(proof, obs) = Generalism!FirstOf(C)
    BY DEF Generalism!ProveTampered
  <2> HIDE DEF C
  <2> QED BY <2>1, MatrixChecks
<1> HIDE DEF w1, w2, w3, w4, w5, w6, w7, w8, w9, w10, w11
<1>2. DOMAIN C = 1 .. 11 /\ 1 .. 11 = {1, 2, 3, 4, 5, 6, 7, 8, 9, 10, 11} /\ 11 \in Nat
  OBVIOUS
<1>3. /\ C[1].code # Ok /\ C[1].when = w1
      /\ C[2].code # Ok /\ C[2].when = w2
      /\ C[3].code # Ok /\ C[3].when = w3
      /\ C[4].code # Ok /\ C[4].when = w4
      /\ C[5].code # Ok /\ C[5].when = w5
      /\ C[6].code # Ok /\ C[6].when = w6
      /\ C[7].code # Ok /\ C[7].when = w7
      /\ C[8].code # Ok /\ C[8].when = w8
      /\ C[9].code # Ok /\ C[9].when = w9
      /\ C[10].code # Ok /\ C[10].when = w10
      /\ C[11].code # Ok /\ C[11].when = w11
  BY DEF Generalism!Refuse, Ok
<1> HIDE DEF C
<1>4. FirstOf(C) = Ok <=> \A i \in 1 .. 11 : ~C[i].when
  <2>1. \A i \in 1 .. 11 : C[i].code # Ok
    BY <1>2, <1>3
  <2>2. DOMAIN C = 1 .. 11 /\ 11 \in Nat
    BY <1>2
  <2> QED BY <2>1, <2>2, AcceptedIff
<1>5. Generalism!ProveTampered(proof, obs) = Ok <=> (~w1 /\ ~w2 /\ ~w3 /\ ~w4 /\ ~w5 /\ ~w6 /\ ~w7 /\ ~w8 /\ ~w9 /\ ~w10 /\ ~w11)
  BY <1>1, <1>2, <1>3, <1>4
<1> QED BY <1>5 DEF w1, w2, w3, w4, w5, w6, w7, w8, w9, w10, w11
SpecFields ==
  {"found", "value", "guards", "taken", "requirements", "mirror", "evidence", "chained",
   "terminal", "tamperable", "identity", "raised"}

LEMMA BasesHaveFields ==
  ASSUME NEW locus, NEW base \in Generalism!Bases(locus)
  PROVE  DOMAIN base = SpecFields
BY DEF Generalism!Bases, SpecFields

\* A derivation that does not raise has written the value it was asked to write.
LEMMA FieldIsWritten ==
  ASSUME NEW base, DOMAIN base = SpecFields, NEW v,
         ~Generalism!SpecWithField(base, v).raised
  PROVE  LET s == Generalism!SpecWithField(base, v)
         IN  DOMAIN s = SpecFields /\ s.value = v /\ s.terminal = base.terminal
<1>1. base.found
  <2>1. ~base.found => Generalism!SpecWithField(base, v) = [base EXCEPT !.raised = TRUE]
    BY DEF Generalism!SpecWithField, Generalism!Raised
  <2> QED BY <2>1 DEF SpecFields
<1>2. Generalism!SpecWithField(base, v) = Generalism!RebuildIdentity([base EXCEPT !.value = v])
  BY <1>1 DEF Generalism!SpecWithField
<1> DEFINE s == [base EXCEPT !.value = v]
<1>3. DOMAIN s = SpecFields /\ s.value = v /\ s.terminal = base.terminal
  BY DEF SpecFields
<1> HIDE DEF s
<1>4. \E x : Generalism!RebuildIdentity(s) = [s EXCEPT !.identity = x]
  BY DEF Generalism!RebuildIdentity
<1> QED BY <1>2, <1>3, <1>4 DEF s, SpecFields

LEMMA GuardIsWritten ==
  ASSUME NEW base, DOMAIN base = SpecFields, NEW v,
         ~Generalism!SpecWithGuardKind(base, v).raised
  PROVE  LET s == Generalism!SpecWithGuardKind(base, v)
         IN  DOMAIN s = SpecFields /\ s.value = v
<1> DEFINE bad == ~base.found \/ ~base.guards \/ base.taken
<1>1. ~bad
  <2>1. bad => Generalism!SpecWithGuardKind(base, v) = [base EXCEPT !.raised = TRUE]
    BY DEF Generalism!SpecWithGuardKind, Generalism!Raised
  <2> QED BY <2>1 DEF SpecFields
<1> DEFINE s == [base EXCEPT !.taken = TRUE, !.value = v]
<1>2. Generalism!SpecWithGuardKind(base, v) = Generalism!RebuildIdentity(s)
  BY <1>1 DEF Generalism!SpecWithGuardKind
<1>3. DOMAIN s = SpecFields /\ s.value = v
  BY DEF SpecFields
<1> HIDE DEF s
<1>4. \E x : Generalism!RebuildIdentity(s) = [s EXCEPT !.identity = x]
  BY DEF Generalism!RebuildIdentity
<1> QED BY <1>2, <1>3, <1>4 DEF SpecFields

LEMMA EvidenceIsMirrored ==
  ASSUME NEW base, DOMAIN base = SpecFields, NEW v, NEW chained,
         ~Generalism!SpecWithEvidenceStyle(base, v, chained).raised
  PROVE  LET s == Generalism!SpecWithEvidenceStyle(base, v, chained)
         IN  DOMAIN s = SpecFields /\ s.value = v /\ s.mirror = v
<1> DEFINE bad == ~base.found \/ ~base.requirements
<1>1. ~bad
  <2>1. bad => Generalism!SpecWithEvidenceStyle(base, v, chained) = [base EXCEPT !.raised = TRUE]
    BY DEF Generalism!SpecWithEvidenceStyle, Generalism!Raised
  <2> QED BY <2>1 DEF SpecFields
<1> DEFINE s == [base EXCEPT !.value = v, !.chained = chained, !.evidence = TRUE, !.mirror = v]
<1>2. Generalism!SpecWithEvidenceStyle(base, v, chained) = Generalism!RebuildIdentity(s)
  BY <1>1 DEF Generalism!SpecWithEvidenceStyle
<1>3. DOMAIN s = SpecFields /\ s.value = v /\ s.mirror = v
  BY DEF SpecFields
<1> HIDE DEF s
<1>4. \E x : Generalism!RebuildIdentity(s) = [s EXCEPT !.identity = x]
  BY DEF Generalism!RebuildIdentity
<1> QED BY <1>2, <1>3, <1>4 DEF SpecFields

LEMMA DroppedIsGone ==
  ASSUME NEW spec, DOMAIN spec = SpecFields, NEW present,
         ~Generalism!SpecWithDropped(spec, present).raised
  PROVE  Generalism!SpecWithDropped(spec, present).value = Generalism!None
<1> DEFINE bad == spec.raised \/ ~present
<1>1. ~bad
  <2>1. bad => Generalism!SpecWithDropped(spec, present) = [spec EXCEPT !.raised = TRUE]
    BY DEF Generalism!SpecWithDropped, Generalism!Raised
  <2> QED BY <2>1 DEF SpecFields
<1> DEFINE s == [spec EXCEPT !.value = Generalism!None]
<1>2. Generalism!SpecWithDropped(spec, present) = Generalism!RebuildIdentity(s)
  BY <1>1 DEF Generalism!SpecWithDropped
<1>3. DOMAIN s = SpecFields /\ s.value = Generalism!None
  BY DEF SpecFields
<1> HIDE DEF s
<1>4. \E x : Generalism!RebuildIdentity(s) = [s EXCEPT !.identity = x]
  BY DEF Generalism!RebuildIdentity
<1> QED BY <1>2, <1>3, <1>4 DEF SpecFields
\* What the two judges know of what a proof derives, when nothing raised.
LEMMA DerivedAsAsked ==
  ASSUME NEW proof, proof.locus \in Generalism!Loci, NEW base, DOMAIN base = SpecFields,
         ~Generalism!DeriveRaises(Generalism!Derive(proof, base))
  PROVE  LET d == Generalism!Derive(proof, base)
         IN  /\ d.cell.value = proof.cellValue /\ d.control.value = proof.controlValue
             /\ proof.locus = "lifecycleState" => d.cell.terminal = base.terminal
             /\ proof.locus \in {"guard", "evidence"} => d.tampered.value = Generalism!None
             /\ proof.locus = "evidence" =>
                   d.cell.mirror = proof.cellValue /\ d.control.mirror = proof.controlValue
<1> DEFINE d == Generalism!Derive(proof, base)
<1>1. CASE proof.locus = "guard"
  <2> DEFINE c == Generalism!SpecWithGuardKind(base, proof.cellValue)
             k == Generalism!SpecWithGuardKind(base, proof.controlValue)
             t == Generalism!SpecWithDropped(c, c.taken)
  <2>1. d = [cell |-> c, control |-> k, tampered |-> t]
    BY <1>1 DEF Generalism!Derive, Generalism!DeriveByGuard
  <2>2. ~c.raised /\ ~k.raised /\ ~t.raised
    BY <2>1 DEF Generalism!DeriveRaises
  <2>3. DOMAIN c = SpecFields /\ c.value = proof.cellValue /\ k.value = proof.controlValue
    BY <2>2, GuardIsWritten
  <2>4. t.value = Generalism!None
    BY <2>2, <2>3, DroppedIsGone
  <2> QED BY <1>1, <2>1, <2>3, <2>4
<1>2. CASE proof.locus = "evidence"
  <2> DEFINE c == Generalism!SpecWithEvidenceStyle(base, proof.cellValue, proof.chained)
             k == Generalism!SpecWithEvidenceStyle(base, proof.controlValue, proof.chained)
             t == Generalism!SpecWithDropped(c, c.evidence)
  <2>1. d = [cell |-> c, control |-> k, tampered |-> t]
    BY <1>2 DEF Generalism!Derive, Generalism!DeriveByEvidence
  <2>2. ~c.raised /\ ~k.raised /\ ~t.raised
    BY <2>1 DEF Generalism!DeriveRaises
  <2>3. /\ DOMAIN c = SpecFields /\ c.value = proof.cellValue /\ k.value = proof.controlValue
        /\ c.mirror = proof.cellValue /\ k.mirror = proof.controlValue
    BY <2>2, EvidenceIsMirrored
  <2>4. t.value = Generalism!None
    BY <2>2, <2>3, DroppedIsGone
  <2> QED BY <1>2, <2>1, <2>3, <2>4
<1>3. CASE proof.locus \notin {"guard", "evidence"}
  <2> DEFINE c == Generalism!SpecWithField(base, proof.cellValue)
             k == Generalism!SpecWithField(base, proof.controlValue)
  <2>1. d.cell = c /\ d.control = k
    BY <1>3 DEF Generalism!Derive, Generalism!DeriveByField
  <2>2. ~c.raised /\ ~k.raised
    BY <2>1 DEF Generalism!DeriveRaises
  <2>3. c.value = proof.cellValue /\ k.value = proof.controlValue /\ c.terminal = base.terminal
    BY <2>2, FieldIsWritten
  <2> QED BY <1>3, <2>1, <2>3
<1> QED BY <1>1, <1>2, <1>3

\* What the two judges share of one observation.
LEMMA ObservedIs ==
  ASSUME NEW proof, NEW base, NEW tool
  PROVE  LET obs == Generalism!Observe(proof, base, tool)
         IN  /\ obs.derived = Generalism!Derive(proof, base)
             /\ obs.raises = Generalism!DeriveRaises(obs.derived)
             /\ obs.tamperedBound.value = proof.controlValue
             /\ obs.spec = tool.spec
             /\ proof.locus = "participant" =>
                   (obs.producerError <=> obs.cellDoc.failed \/ obs.controlDoc.failed)
<1> DEFINE obs == Generalism!Observe(proof, base, tool)
           d == Generalism!Derive(proof, base)
<1>1. /\ obs.derived = d /\ obs.spec = tool.spec /\ obs.raises = Generalism!DeriveRaises(d)
  BY DEF Generalism!Observe
<1>2. obs.tamperedBound.value = proof.controlValue
  <2>1. obs.tamperedBound =
          Generalism!BindingWithObserverSetField(
             Generalism!BindingMatchingObserverSet([value |-> Generalism!None], d.cell), proof.controlValue)
    BY DEF Generalism!Observe
  <2> QED BY <2>1 DEF Generalism!BindingWithObserverSetField, Generalism!BindingMatchingObserverSet
<1>3. ASSUME proof.locus = "participant"
      PROVE  obs.producerError <=> obs.cellDoc.failed \/ obs.controlDoc.failed
  <2> DEFINE plan(spec, how) == Generalism!Render([spec EXCEPT !.value = Generalism!Emitted(proof, @)], how,
                                  Generalism!Emitted(proof, proof.cellValue))
             cd == plan(d.cell, tool.renderCell)
             kd == plan(d.control, tool.renderControl)
  <2>1. obs.cellDoc = cd /\ obs.controlDoc = kd
    BY DEF Generalism!Observe
  <2>2. obs.producerError =
          (/\ proof.locus \in {"participant", "transition", "guard", "evidence"}
           /\ \/ cd.failed \/ kd.failed
              \/ proof.locus \in {"guard", "evidence"} /\ ~cd.found)
    BY DEF Generalism!Observe
  <2> HIDE DEF cd, kd, obs
  <2> QED BY <1>3, <2>1, <2>2
<1> HIDE DEF obs, d
<1> QED BY <1>1, <1>2, <1>3 DEF obs, d

Found(proof, obs) ==
  CASE proof.locus = "participant" -> Generalism!ProveParticipant(proof, obs)
    [] proof.locus = "observerSet" -> Generalism!ProveObserverSet(proof, obs)
    [] proof.locus = "lifecycleState" -> Generalism!ProveLifecycleState(proof, obs)
    [] proof.locus = "transition" -> Generalism!ProveTransition(proof, obs)
    [] OTHER -> Generalism!ProveTampered(proof, obs)

LEMMA Third ==
  ASSUME NEW a, NEW b, NEW c
  PROVE  <<a, b>> \o <<c>> = <<a, b, c>>
<1> DEFINE S == {a, b, c}
           s == <<a, b>> \o <<c>>
           t == <<a, b, c>>
<1>1. <<a, b>> \in Seq(S) /\ <<c>> \in Seq(S) /\ t \in Seq(S)
  OBVIOUS
<1>2. Len(<<a, b>>) = 2 /\ Len(<<c>>) = 1 /\ Len(t) = 3
  OBVIOUS
<1>3. /\ s \in Seq(S) /\ Len(s) = 3
      /\ \A i \in 1 .. 3 : s[i] = IF i <= 2 THEN <<a, b>>[i] ELSE <<c>>[i - 2]
  <2>1. /\ s \in Seq(S) /\ Len(s) = Len(<<a, b>>) + Len(<<c>>)
        /\ \A i \in 1 .. Len(<<a, b>>) + Len(<<c>>) :
             s[i] = IF i <= Len(<<a, b>>) THEN <<a, b>>[i] ELSE <<c>>[i - Len(<<a, b>>)]
    <3> HIDE DEF S
    <3> QED BY <1>1, ConcatProperties
  <2> HIDE DEF S, s
  <2> QED BY <1>2, <2>1
<1>4. 1 .. 3 = {1, 2, 3}
  OBVIOUS
<1>5. s[1] = a /\ s[2] = b /\ s[3] = c
  <2> HIDE DEF s, S
  <2> QED BY <1>3, <1>4
<1>6. \A i \in 1 .. Len(s) : s[i] = t[i]
  <2>1. t[1] = a /\ t[2] = b /\ t[3] = c
    OBVIOUS
  <2> HIDE DEF s, t, S
  <2> QED BY <1>3, <1>4, <1>5, <2>1
<1> HIDE DEF s, t, S
<1>7. s = t
  BY <1>1, <1>2, <1>3, <1>6, SeqEqual
<1> QED BY <1>7 DEF s, t

LEMMA ProverAccepts ==
  ASSUME NEW proof, NEW base, NEW tool
  PROVE  LET obs == Generalism!Observe(proof, base, tool)
         IN  Generalism!ProverBad(proof, base, tool) = Ok <=>
               /\ ~Generalism!TerminalRefDrift(proof, base) /\ ~obs.raises
               /\ Found(proof, obs) = Ok
<1> DEFINE obs == Generalism!Observe(proof, base, tool)
           found == Found(proof, obs)
           w1 == Generalism!TerminalRefDrift(proof, base)
           w2 == obs.raises
           w3 == found # Ok
           B1 == Generalism!Refuse("terminal ref", w1)
           B2 == Generalism!Refuse("derivation", w2)
           R == Generalism!Refuse(found, w3)
           C == <<B1, B2, R>>
<1>1. Generalism!ProverBad(proof, base, tool) = FirstOf(C)
  <2>1. Generalism!ProverBad(proof, base, tool) = Generalism!FirstOf(<<B1, B2>> \o <<R>>)
    BY DEF Generalism!ProverBad, Found, Generalism!Ok, Ok
  <2> HIDE DEF B1, B2, R
  <2> QED BY <2>1, Third, MatrixChecks
<1> HIDE DEF found, w1, w2
<1>2. C[1] = B1 /\ C[2] = B2 /\ C[3] = R /\ DOMAIN C = 1 .. 3 /\ 1 .. 3 = {1, 2, 3} /\ 3 \in Nat
  <2> HIDE DEF B1, B2, R
  <2> QED OBVIOUS
<1>3. /\ B1.code # Ok /\ B1.when = w1 /\ B2.code # Ok /\ B2.when = w2
      /\ R.code = found /\ R.when = w3
  BY DEF Generalism!Refuse, Ok
<1> HIDE DEF B1, B2, R, C
<1>4. CASE found = Ok
  <2>1. \A i \in 1 .. 3 : C[i].when => C[i].code # Ok
    BY <1>2, <1>3, <1>4
  <2>2. FirstOf(C) = Ok => ~w1 /\ ~w2
    BY <1>2, <1>3, <2>1, FirstOfOk
  <2>3. ~w1 /\ ~w2 => FirstOf(C) = Ok
    <3>1. ~w1 /\ ~w2 => {i \in DOMAIN C : C[i].when} = {}
      BY <1>2, <1>3, <1>4
    <3> QED BY <3>1 DEF FirstOf
  <2> QED BY <1>1, <1>4, <2>2, <2>3 DEF w1, w2, found
<1>5. CASE found # Ok
  <2>1. \A i \in 1 .. 3 : C[i].when => C[i].code # Ok
    BY <1>2, <1>3, <1>5
  <2>2. FirstOf(C) # Ok
    BY <1>2, <1>3, <1>5, <2>1, FirstOfOk
  <2> QED BY <1>1, <1>5, <2>2 DEF found
<1> QED BY <1>4, <1>5
LEMMA SignatureIsSymmetric == \A a, b : Generalism!Same(a, b) <=> Generalism!Same(b, a)
BY DEF Generalism!Same

\* The two judges accept the same observations, whatever the tools answer.
LEMMA ParticipantAgrees ==
  ASSUME NEW proof, NEW obs, obs.derived.cell.value = proof.cellValue,
         obs.derived.control.value = proof.controlValue,
         obs.producerError <=> obs.cellDoc.failed \/ obs.controlDoc.failed,
         proof.cellTopology # Generalism!None, proof.controlTopology # Generalism!None
  PROVE  Generalism!ProveParticipant(proof, obs) = Ok <=>
           /\ ~(/\ ~obs.producerError
                /\ ~obs.cellDoc.found \/ proof.field \notin {"minAssurance", "lateBindingMode"})
           /\ Generalism!VerdictParticipant(proof, obs) = Ok
<1> DEFINE m1 == Generalism!ConsumerMatches(obs.consumer.cell, proof.expected)
           m2 == Generalism!ConsumerMatches(obs.consumer.control, proof.controlExpected)
           s1 == Generalism!Same(obs.consumer.cell, obs.consumer.control)
           s2 == Generalism!Same(obs.consumer.tampered, obs.consumer.cell)
           f  == Generalism!SpecsFail(obs)
           u  == proof.field \notin {"minAssurance", "lateBindingMode"}
<1>1. Generalism!ProveParticipant(proof, obs) = Ok <=>
        /\ ~f /\ ~(obs.cellDoc.failed \/ obs.controlDoc.failed)
        /\ ~(~obs.cellDoc.found \/ ~obs.controlDoc.found)
        /\ ~(obs.cellDoc.value # proof.cellTopology \/ obs.controlDoc.value # proof.controlTopology)
        /\ m1 /\ m2 /\ ~s1 /\ ~u /\ ~s2
  BY ParticipantProof
<1>2. Generalism!VerdictParticipant(proof, obs) = Ok <=>
        /\ ~obs.producerError /\ ~f
        /\ Generalism!Carried(obs.cellDoc) = proof.cellTopology
        /\ Generalism!Carried(obs.controlDoc) = proof.controlTopology
        /\ m1 /\ m2 /\ ~s1 /\ ~s2
  BY ParticipantVerdict
<1>3. \A doc, v : v # Generalism!None =>
        (Generalism!Carried(doc) = v <=> doc.found /\ doc.value = v)
  BY DEF Generalism!Carried
<1> HIDE DEF m1, m2, s1, s2, f, u
<1>4. /\ Generalism!Carried(obs.cellDoc) = proof.cellTopology <=>
           obs.cellDoc.found /\ obs.cellDoc.value = proof.cellTopology
      /\ Generalism!Carried(obs.controlDoc) = proof.controlTopology <=>
           obs.controlDoc.found /\ obs.controlDoc.value = proof.controlTopology
  BY <1>3
<1> QED BY <1>1, <1>2, <1>4 DEF u

LEMMA ObserverSetAgrees ==
  ASSUME NEW proof, NEW obs, obs.tamperedBound.value = proof.controlValue
  PROVE  Generalism!ProveObserverSet(proof, obs) = Ok <=> Generalism!VerdictObserverSet(proof, obs) = Ok
BY ObserverSetProof, ObserverSetVerdict

LEMMA LifecycleAgrees ==
  ASSUME NEW proof, NEW base, NEW obs, obs.derived.cell.terminal = base.terminal,
         DOMAIN obs.spec.cell = {"ok", "codes"}, obs.spec.cell.ok \in BOOLEAN
  PROVE  Generalism!ProveLifecycleState(proof, obs) = Ok /\ base.terminal = proof.state <=>
           Generalism!VerdictLifecycleState(proof, obs) = Ok
<1> DEFINE d == obs.derived
           lost == Generalism!IdentityLost({d.cell, d.control, d.tampered})
           r1 == Generalism!RefusesExactly(obs.spec.control, "mismatch")
           r2 == Generalism!RefusesExactly(obs.spec.tampered, "mismatch")
           s1 == Generalism!Same(obs.spec.control, obs.spec.cell)
           s2 == Generalism!Same(obs.spec.tampered, obs.spec.cell)
           clean == [obs.spec.cell EXCEPT !.ok = TRUE]
           p1 == Generalism!Same(clean, obs.spec.control)
           p2 == Generalism!Same(clean, obs.spec.tampered)
<1>1. obs.spec.cell.ok => (p1 <=> s1) /\ (p2 <=> s2)
  <2>1. obs.spec.cell.ok => clean.ok = obs.spec.cell.ok /\ clean.codes = obs.spec.cell.codes
    OBVIOUS
  <2> HIDE DEF clean
  <2> QED BY <2>1 DEF Generalism!Same, Generalism!ConsumerSignature
<1>2. Generalism!ProveLifecycleState(proof, obs) = Ok <=>
        /\ ~(d.cell.value # proof.cellValue \/ d.control.value # proof.controlValue
             \/ d.tampered.value # proof.cellValue)
        /\ d.tampered.terminal = proof.tamperState /\ d.control # d.tampered
        /\ ~lost /\ obs.spec.cell.ok /\ r1 /\ r2 /\ ~p1 /\ ~p2
  <2> HIDE DEF p1, p2
  <2> QED BY LifecycleProof DEF p1, p2
<1>3. Generalism!VerdictLifecycleState(proof, obs) = Ok <=>
        /\ obs.spec.cell.ok /\ d.cell.terminal = proof.state
        /\ d.tampered.terminal = proof.tamperState /\ ~lost /\ d.control # d.tampered
        /\ d.cell.value = proof.cellValue /\ d.control.value = proof.controlValue
        /\ d.tampered.value = proof.cellValue /\ r1 /\ r2 /\ ~s1 /\ ~s2
  BY LifecycleVerdict
<1> HIDE DEF lost, r1, r2, s1, s2, p1, p2
<1> QED BY <1>1, <1>2, <1>3

LEMMA TransitionAgrees ==
  ASSUME NEW proof, NEW obs
  PROVE  Generalism!ProveTransition(proof, obs) = Ok <=> Generalism!VerdictTransition(proof, obs) = Ok
<1> DEFINE d == obs.derived
           lost == Generalism!IdentityLost({d.cell, d.control})
           fails == Generalism!SpecsFail(obs)
           cell == Generalism!Carried(obs.cellDoc) # proof.cellValue
           control == Generalism!Carried(obs.controlDoc) # proof.controlValue
           asked == d.cell.value # proof.cellValue
           opposed == d.control.value # proof.controlValue
           same == obs.cellDoc = obs.controlDoc
           prover == Generalism!ProveTransition(proof, obs) = Ok
           runner == Generalism!VerdictTransition(proof, obs) = Ok
<1>1. prover <=> ~(asked \/ opposed) /\ ~lost /\ ~fails /\ ~obs.producerError
                   /\ ~(cell \/ control) /\ ~same
  BY TransitionProof
<1>2. runner <=> ~obs.producerError /\ ~fails /\ ~lost /\ ~(asked \/ cell)
                   /\ ~(opposed \/ control) /\ ~same
  BY TransitionVerdict
<1> HIDE DEF lost, fails, cell, control, asked, opposed, same, prover, runner
<1>3. prover <=> runner
  BY <1>1, <1>2
<1> QED BY <1>3 DEF prover, runner

LEMMA TamperedAgrees ==
  ASSUME NEW proof, NEW obs, obs.derived.tampered.value = Generalism!None,
         proof.locus = "evidence" =>
            /\ obs.derived.cell.mirror = proof.cellValue
            /\ obs.derived.control.mirror = proof.controlValue
  PROVE  Generalism!ProveTampered(proof, obs) = Ok <=> Generalism!VerdictTampered(proof, obs) = Ok
<1> DEFINE d == obs.derived
           lost == Generalism!IdentityLost({d.cell, d.control, d.tampered})
           r == Generalism!RefusesExactly(obs.spec.tampered, "spec.schema")
           c1 == Generalism!Carried(obs.cellDoc)
           c2 == Generalism!Carried(obs.controlDoc)
           f == Generalism!SpecsFail(obs)
           specs == {x.chained : x \in {d.cell, d.control}}
           docs == {x.chained : x \in {obs.cellDoc, obs.controlDoc, obs.tamperedDoc}}
           mixed == \E chained \in specs \cup docs : chained # proof.chained
           mixedDoc == \E doc \in {obs.cellDoc, obs.controlDoc, obs.tamperedDoc} : doc.chained # proof.chained
           flipped == d.cell.chained # proof.chained \/ d.control.chained # proof.chained
<1>1. mixed <=> flipped \/ mixedDoc
  <2>1. specs = {d.cell.chained, d.control.chained}
    OBVIOUS
  <2>2. docs = {obs.cellDoc.chained, obs.controlDoc.chained, obs.tamperedDoc.chained}
    OBVIOUS
  <2> HIDE DEF specs, docs
  <2> QED BY <2>1, <2>2
<1>2. Generalism!ProveTampered(proof, obs) = Ok <=>
        /\ ~lost /\ ~(d.cell.value # proof.cellValue \/ d.control.value # proof.controlValue)
        /\ ~(proof.locus = "evidence" /\ (flipped \/ (d.cell.mirror # proof.cellValue
                                                      \/ d.control.mirror # proof.controlValue)))
        /\ ~f /\ r /\ ~obs.producerError
        /\ ~(c1 # proof.cellValue \/ c2 # proof.controlValue)
        /\ ~(proof.locus = "evidence" /\ mixedDoc)
        /\ obs.tamperedDoc.value = Generalism!None /\ obs.cellDoc # obs.controlDoc
        /\ obs.cellDoc # obs.tamperedDoc
  BY TamperedProof
<1>3. Generalism!VerdictTampered(proof, obs) = Ok <=>
        /\ ~obs.producerError /\ ~f /\ ~lost
        /\ ~(d.cell.value # proof.cellValue \/ c1 # proof.cellValue)
        /\ ~(d.control.value # proof.controlValue \/ c2 # proof.controlValue)
        /\ ~(proof.locus = "evidence" /\ mixed)
        /\ ~(d.tampered.value # Generalism!None \/ ~r)
        /\ obs.tamperedDoc.value = Generalism!None /\ obs.cellDoc # obs.controlDoc
        /\ obs.cellDoc # obs.tamperedDoc
  BY TamperedVerdict
<1> HIDE DEF lost, r, c1, c2, f, specs, docs, mixed, mixedDoc
<1> QED BY <1>1, <1>2, <1>3
\* Runner and prover accept the same proofs of a locus, whatever spec was committed and
\* whatever the tools answer.
LEMMA JudgesAgree ==
  ASSUME NEW locus \in Generalism!Loci, NEW base \in Generalism!Bases(locus), NEW field, NEW tool,
         DOMAIN tool.spec.cell = {"ok", "codes"}, tool.spec.cell.ok \in BOOLEAN
  PROVE  LET proof == [Generalism!Proof(locus) EXCEPT !.field = field]
         IN  Generalism!RunnerCause(proof, base, tool) = Ok <=>
               Generalism!ProverBad(proof, base, tool) = Ok
<1> DEFINE proof == [Generalism!Proof(locus) EXCEPT !.field = field]
           obs == Generalism!Observe(proof, base, tool)
           slotless == /\ proof.locus = "participant" /\ ~obs.producerError
                       /\ \/ ~obs.cellDoc.found
                          \/ proof.field \notin {"minAssurance", "lateBindingMode"}
           verdict == CASE proof.locus = "participant" -> Generalism!VerdictParticipant(proof, obs)
                        [] proof.locus = "observerSet" -> Generalism!VerdictObserverSet(proof, obs)
                        [] proof.locus = "lifecycleState" -> Generalism!VerdictLifecycleState(proof, obs)
                        [] proof.locus = "transition" -> Generalism!VerdictTransition(proof, obs)
                        [] OTHER -> Generalism!VerdictTampered(proof, obs)
           prover == Generalism!ProverBad(proof, base, tool)
           runner == Generalism!RunnerCause(proof, base, tool)
<1>1. /\ proof.locus = locus
      /\ proof.cellTopology # Generalism!None /\ proof.controlTopology # Generalism!None
  BY DEF Generalism!Proof, Generalism!None
<1>2. runner = IF obs.raises \/ slotless THEN "aborted" ELSE verdict
  BY DEF Generalism!RunnerCause
<1>3. prover = Ok <=> ~Generalism!TerminalRefDrift(proof, base) /\ ~obs.raises /\ Found(proof, obs) = Ok
  BY ProverAccepts
<1>4. /\ obs.derived = Generalism!Derive(proof, base)
      /\ obs.raises = Generalism!DeriveRaises(obs.derived)
      /\ obs.tamperedBound.value = proof.controlValue
      /\ obs.spec = tool.spec
      /\ proof.locus = "participant" =>
            (obs.producerError <=> obs.cellDoc.failed \/ obs.controlDoc.failed)
  BY ObservedIs
<1>5. DOMAIN base = SpecFields
  BY BasesHaveFields
<1> HIDE DEF proof, obs, prover, runner
<1>6. CASE obs.raises
  BY <1>2, <1>3, <1>6 DEF proof, prover, runner, Ok
<1>7. CASE ~obs.raises
  <2>1. /\ obs.derived.cell.value = proof.cellValue /\ obs.derived.control.value = proof.controlValue
        /\ proof.locus = "lifecycleState" => obs.derived.cell.terminal = base.terminal
        /\ proof.locus \in {"guard", "evidence"} => obs.derived.tampered.value = Generalism!None
        /\ proof.locus = "evidence" => /\ obs.derived.cell.mirror = proof.cellValue
                                       /\ obs.derived.control.mirror = proof.controlValue
    BY <1>1, <1>4, <1>5, <1>7, DerivedAsAsked
  <2>2. runner = Ok <=> ~slotless /\ verdict = Ok
    BY <1>2, <1>7 DEF Ok
  <2> HIDE DEF verdict
  <2>3. CASE locus = "participant"
    <3>1. verdict = Generalism!VerdictParticipant(proof, obs)
          /\ Found(proof, obs) = Generalism!ProveParticipant(proof, obs)
      BY <1>1, <2>3 DEF verdict, Found
    <3>2. ~Generalism!TerminalRefDrift(proof, base)
      BY <1>1, <2>3 DEF Generalism!TerminalRefDrift
    <3>3. Generalism!ProveParticipant(proof, obs) = Ok <=>
             ~slotless /\ Generalism!VerdictParticipant(proof, obs) = Ok
      BY <1>1, <1>4, <2>1, <2>3, ParticipantAgrees
    <3> QED BY <1>3, <1>7, <2>2, <3>1, <3>2, <3>3 DEF proof, prover, runner
  <2>4. CASE locus = "observerSet"
    <3>1. verdict = Generalism!VerdictObserverSet(proof, obs)
          /\ Found(proof, obs) = Generalism!ProveObserverSet(proof, obs)
      BY <1>1, <2>4 DEF verdict, Found
    <3>2. ~Generalism!TerminalRefDrift(proof, base) /\ ~slotless
      BY <1>1, <2>4 DEF Generalism!TerminalRefDrift
    <3>3. Generalism!ProveObserverSet(proof, obs) = Ok <=> Generalism!VerdictObserverSet(proof, obs) = Ok
      BY <1>4, ObserverSetAgrees
    <3> QED BY <1>3, <1>7, <2>2, <3>1, <3>2, <3>3 DEF proof, prover, runner
  <2>5. CASE locus = "lifecycleState"
    <3>1. verdict = Generalism!VerdictLifecycleState(proof, obs)
          /\ Found(proof, obs) = Generalism!ProveLifecycleState(proof, obs)
      BY <1>1, <2>5 DEF verdict, Found
    <3>2. /\ Generalism!TerminalRefDrift(proof, base) <=> base.terminal # proof.state
          /\ ~slotless
      BY <1>1, <2>5 DEF Generalism!TerminalRefDrift
    <3>3. Generalism!ProveLifecycleState(proof, obs) = Ok /\ base.terminal = proof.state <=>
             Generalism!VerdictLifecycleState(proof, obs) = Ok
      <4>1. obs.derived.cell.terminal = base.terminal
        BY <1>1, <2>1, <2>5
      <4>2. DOMAIN obs.spec.cell = {"ok", "codes"} /\ obs.spec.cell.ok \in BOOLEAN
        BY <1>4
      <4> QED BY <4>1, <4>2, LifecycleAgrees
    <3> QED BY <1>3, <1>7, <2>2, <3>1, <3>2, <3>3 DEF proof, prover, runner
  <2>6. CASE locus = "transition"
    <3>1. verdict = Generalism!VerdictTransition(proof, obs)
          /\ Found(proof, obs) = Generalism!ProveTransition(proof, obs)
      BY <1>1, <2>6 DEF verdict, Found
    <3>2. ~Generalism!TerminalRefDrift(proof, base) /\ ~slotless
      BY <1>1, <2>6 DEF Generalism!TerminalRefDrift
    <3> QED BY <1>3, <1>7, <2>2, <3>1, <3>2, TransitionAgrees DEF proof, prover, runner
  <2>7. CASE locus \in {"guard", "evidence"}
    <3>1. verdict = Generalism!VerdictTampered(proof, obs)
          /\ Found(proof, obs) = Generalism!ProveTampered(proof, obs)
      BY <1>1, <2>7 DEF verdict, Found
    <3>2. ~Generalism!TerminalRefDrift(proof, base) /\ ~slotless
      BY <1>1, <2>7 DEF Generalism!TerminalRefDrift
    <3>3. Generalism!ProveTampered(proof, obs) = Ok <=> Generalism!VerdictTampered(proof, obs) = Ok
      BY <1>1, <2>1, <2>7, TamperedAgrees
    <3> QED BY <1>3, <1>7, <2>2, <3>1, <3>2, <3>3 DEF proof, prover, runner
  <2>8. locus \in {"participant", "observerSet", "lifecycleState", "transition", "guard", "evidence"}
    BY DEF Generalism!Loci
  <2> QED BY <2>3, <2>4, <2>5, <2>6, <2>7, <2>8
<1> QED BY <1>6, <1>7 DEF proof, prover, runner

\* A list of checks that refuses with a code only its k-th check has, refuses at the k-th.
LEMMA RefusesAt ==
  ASSUME NEW checks, NEW n \in Nat, NEW k \in 1 .. n, DOMAIN checks = 1 .. n,
         \A i \in 1 .. n : checks[i].code = checks[k].code => i = k,
         FirstOf(checks) = checks[k].code, checks[k].code # Ok
  PROVE  checks[k].when /\ \A i \in 1 .. n : i < k => ~checks[i].when
<1> DEFINE failed == {i \in DOMAIN checks : checks[i].when}
           least  == CHOOSE i \in failed : \A j \in failed : i <= j
<1>1. failed # {} /\ FirstOf(checks) = checks[least].code
  BY DEF FirstOf
<1>2. \E i \in failed : \A j \in failed : i <= j
  <2>1. failed \in SUBSET Nat /\ failed # {}
    BY <1>1
  <2> HIDE DEF failed
  <2> QED BY <2>1, LeastExists
<1>3. least \in failed /\ \A j \in failed : least <= j
  BY <1>2
<1> HIDE DEF least
<1>4. least = k
  BY <1>1, <1>3
<1> QED BY <1>3, <1>4

\* What a .neu verdict rests on: a pass, that no check refuses; a governed refusal, that the
\* rails refused and nothing before that check did.
LEMMA NeuVerdict ==
  ASSUME NEW cell, NEW obs
  PROVE  LET out(rail) == Generalism!Outcome(obs.exit[rail], obs.timedOut)
             rails == {"reference", "solidity", "postgres"}
             common == {c \in obs.codes["reference"] : \A r \in rails : c \in obs.codes[r]}
         IN  /\ Generalism!VerdictNeu(cell, obs) \in {Ok, "governed_refusal"} =>
                  /\ ~obs.timedOut
                  /\ \A r \in rails : out(r) # "broken"
                  /\ out("solidity") = out("postgres") /\ out("reference") = out("solidity")
             /\ Generalism!VerdictNeu(cell, obs) = Ok =>
                  /\ out("solidity") # "refused"
                  /\ \A b \in DOMAIN obs.compile : obs.compile[b] = "pass"
             /\ Generalism!VerdictNeu(cell, obs) = "governed_refusal" =>
                  /\ out("solidity") = "refused" /\ common # {}
                  /\ cell.code # Generalism!None => cell.code \in common
<1> DEFINE out(rail) == Generalism!Outcome(obs.exit[rail], obs.timedOut)
           rails == {"reference", "solidity", "postgres"}
           common == {c \in obs.codes["reference"] : \A r \in rails : c \in obs.codes[r]}
           predicted == cell.refusal \/ cell.code # Generalism!None
           refused == out("solidity") = "refused"
           failed == {b \in {"solidity", "postgres"} : obs.compile[b] \in {"fail_compile", "fail_runtime"}}
           w1 == obs.timedOut
           w2 == \E r \in rails : out(r) = "broken"
           w3 == out("solidity") # out("postgres")
           w4 == out("reference") # out("solidity")
           w5 == refused /\ ~predicted
           w6 == refused /\ obs.exit["reference"] \notin Generalism!ContractRefusalExits
           w7 == refused /\ common = {}
           w8 == refused /\ cell.code # Generalism!None /\ cell.code \notin common
           w9 == refused
           w10 == predicted
           w11 == obs.differential # "ok"
           w12 == failed # {} /\ \A b \in failed : obs.compile[b] = "fail_runtime"
           w13 == failed # {}
           w14 == \E b \in DOMAIN obs.compile : obs.compile[b] # "pass"
           w15 == obs.controlSame
           C == <<Generalism!Refuse("runtime_timeout", w1),
                  Generalism!Refuse("compile_failure", w2),
                  Generalism!Refuse("internal_error", w3),
                  Generalism!Refuse("internal_error", w4),
                  Generalism!Refuse("internal_error", w5),
                  Generalism!Refuse("substrate_protocol_limit", w6),
                  Generalism!Refuse("internal_error", w7),
                  Generalism!Refuse("internal_error", w8),
                  Generalism!Refuse("governed_refusal", w9),
                  Generalism!Refuse("semantic_mismatch", w10),
                  Generalism!Refuse("internal_error", w11),
                  Generalism!Refuse("substrate_protocol_limit", w12),
                  Generalism!Refuse("compile_failure", w13),
                  Generalism!Refuse("missing_required_tool", w14),
                  Generalism!Refuse("semantic_mismatch", w15)>>
<1>1. Generalism!VerdictNeu(cell, obs) = FirstOf(C)
  <2>1. Generalism!VerdictNeu(cell, obs) = Generalism!FirstOf(C)
    BY DEF Generalism!VerdictNeu
  <2> HIDE DEF C
  <2> QED BY <2>1, MatrixChecks
<1> HIDE DEF w1, w2, w3, w4, w5, w6, w7, w8, w9, w10, w11, w12, w13, w14, w15
<1>2. DOMAIN C = 1 .. 15 /\ 1 .. 15 = {1, 2, 3, 4, 5, 6, 7, 8, 9, 10, 11, 12, 13, 14, 15} /\ 15 \in Nat
  OBVIOUS
<1>3. /\ C[1].code = "runtime_timeout" /\ C[1].when = w1
      /\ C[2].code = "compile_failure" /\ C[2].when = w2
      /\ C[3].code = "internal_error" /\ C[3].when = w3
      /\ C[4].code = "internal_error" /\ C[4].when = w4
      /\ C[5].code = "internal_error" /\ C[5].when = w5
      /\ C[6].code = "substrate_protocol_limit" /\ C[6].when = w6
      /\ C[7].code = "internal_error" /\ C[7].when = w7
      /\ C[8].code = "internal_error" /\ C[8].when = w8
      /\ C[9].code = "governed_refusal" /\ C[9].when = w9
      /\ C[10].code = "semantic_mismatch" /\ C[10].when = w10
      /\ C[11].code = "internal_error" /\ C[11].when = w11
      /\ C[12].code = "substrate_protocol_limit" /\ C[12].when = w12
      /\ C[13].code = "compile_failure" /\ C[13].when = w13
      /\ C[14].code = "missing_required_tool" /\ C[14].when = w14
      /\ C[15].code = "semantic_mismatch" /\ C[15].when = w15
  BY DEF Generalism!Refuse
<1> HIDE DEF C
<1>4. \A i \in 1 .. 15 : C[i].code # Ok
  BY <1>2, <1>3 DEF Ok
<1>5. ASSUME FirstOf(C) = Ok
      PROVE  ~w1 /\ ~w2 /\ ~w3 /\ ~w4 /\ ~w9 /\ ~w14
  <2>1. \A i \in 1 .. 15 : ~C[i].when
    BY <1>2, <1>4, <1>5, AcceptedIff
  <2> QED BY <1>2, <1>3, <2>1
<1>6. ASSUME FirstOf(C) = "governed_refusal"
      PROVE  ~w1 /\ ~w2 /\ ~w3 /\ ~w4 /\ ~w7 /\ ~w8 /\ w9
  <2>1. 9 \in 1 .. 15 /\ C[9].code = "governed_refusal" /\ C[9].code # Ok
    BY <1>2, <1>3 DEF Ok
  <2>2. FirstOf(C) = C[9].code
    BY <1>6, <2>1
  <2>3. \A i \in 1 .. 15 : C[i].code = C[9].code => i = 9
    BY <1>2, <1>3
  <2>4. C[9].when /\ \A i \in 1 .. 15 : i < 9 => ~C[i].when
    <3>1. ASSUME NEW k \in 1 .. 15, C[k].code # Ok, FirstOf(C) = C[k].code,
                 \A i \in 1 .. 15 : C[i].code = C[k].code => i = k
          PROVE  C[k].when /\ \A i \in 1 .. 15 : i < k => ~C[i].when
      BY <1>2, <3>1, RefusesAt
    <3> QED BY <2>1, <2>2, <2>3, <3>1
  <2>5. \A i \in {1, 2, 3, 4, 7, 8} : ~C[i].when
    BY <2>4
  <2> QED BY <1>3, <2>4, <2>5
<1>7. /\ FirstOf(C) \in {Ok, "governed_refusal"} =>
           /\ ~obs.timedOut
           /\ \A r \in rails : out(r) # "broken"
           /\ out("solidity") = out("postgres") /\ out("reference") = out("solidity")
      /\ FirstOf(C) = Ok =>
           /\ out("solidity") # "refused"
           /\ \A b \in DOMAIN obs.compile : obs.compile[b] = "pass"
      /\ FirstOf(C) = "governed_refusal" =>
           /\ out("solidity") = "refused" /\ common # {}
           /\ cell.code # Generalism!None => cell.code \in common
  <2> HIDE DEF out, rails, common
  <2> QED BY <1>5, <1>6 DEF w1, w2, w3, w4, w7, w8, w9, w14
<1> QED BY <1>1, <1>7

\* A .neu case passes only what really ran, and refuses only what the three rails refused
\* under a common code.
LEMMA NeuIsEarned ==
  ASSUME NEW cell, NEW obs, NEW exit \in [{"reference", "solidity", "postgres"} -> {0, 2, 3, 4}],
         NEW compile \in [{"solidity", "postgres"} ->
                            {"pass", "skip", "fail_compile", "fail_runtime"}],
         NEW shared, obs.exit = exit, obs.compile = compile, obs.codes["solidity"] = shared
  PROVE  /\ Generalism!VerdictNeu(cell, obs) = Ok =>
              /\ \A r \in DOMAIN exit : exit[r] = 0
              /\ \A b \in DOMAIN compile : compile[b] = "pass"
         /\ Generalism!VerdictNeu(cell, obs) = "governed_refusal" =>
              /\ \A r \in DOMAIN exit : exit[r] \in {3, 4}
              /\ shared # {}
              /\ cell.code # Generalism!None => cell.code \in shared
<1> DEFINE out(rail) == Generalism!Outcome(obs.exit[rail], obs.timedOut)
           rails == {"reference", "solidity", "postgres"}
           common == {c \in obs.codes["reference"] : \A r \in rails : c \in obs.codes[r]}
           verdict == Generalism!VerdictNeu(cell, obs)
<1>1. /\ verdict \in {Ok, "governed_refusal"} =>
           /\ ~obs.timedOut
           /\ \A r \in rails : out(r) # "broken"
           /\ out("solidity") = out("postgres") /\ out("reference") = out("solidity")
      /\ verdict = Ok =>
           /\ out("solidity") # "refused"
           /\ \A b \in DOMAIN obs.compile : obs.compile[b] = "pass"
      /\ verdict = "governed_refusal" =>
           /\ out("solidity") = "refused" /\ common # {}
           /\ cell.code # Generalism!None => cell.code \in common
  BY NeuVerdict
<1>2. DOMAIN exit = rails /\ \A r \in rails : exit[r] \in {0, 2, 3, 4}
  OBVIOUS
<1>3. common \subseteq shared
  OBVIOUS
<1>4. ASSUME ~obs.timedOut, NEW r \in rails, out(r) # "broken"
      PROVE  /\ out(r) = "refused" => exit[r] \in {3, 4}
             /\ out(r) # "refused" => exit[r] = 0
  BY <1>2, <1>4 DEF Generalism!Outcome, Generalism!GovernedExits
<1> HIDE DEF verdict, out, common
<1>5. ASSUME verdict = Ok
      PROVE  /\ \A r \in DOMAIN exit : exit[r] = 0
             /\ \A b \in DOMAIN compile : compile[b] = "pass"
  <2>1. ~obs.timedOut /\ \A r \in rails : out(r) # "broken" /\ out(r) # "refused"
    BY <1>1, <1>5
  <2> QED BY <1>1, <1>2, <1>4, <1>5, <2>1
<1>6. ASSUME verdict = "governed_refusal"
      PROVE  /\ \A r \in DOMAIN exit : exit[r] \in {3, 4}
             /\ shared # {}
             /\ cell.code # Generalism!None => cell.code \in shared
  <2>1. ~obs.timedOut /\ \A r \in rails : out(r) # "broken" /\ out(r) = "refused"
    BY <1>1, <1>6
  <2>2. common # {} /\ (cell.code # Generalism!None => cell.code \in common)
    BY <1>1, <1>6
  <2> QED BY <1>2, <1>3, <1>4, <2>1, <2>2
<1> QED BY <1>5, <1>6 DEF verdict

\* The runner accepts a validator contract exactly when the committed spec passes, the value
\* is where it is looked for, and the sentinel is refused by its code.
LEMMA BindingVerdict ==
  ASSUME NEW obs
  PROVE  Generalism!VerdictBinding(obs) = Ok <=>
           ~obs.timedOut /\ ~(~obs.validOk) /\ ~(~obs.located) /\ ~(obs.invalidOk \/ ~obs.coded)
<1> DEFINE w1 == obs.timedOut
           w2 == ~obs.validOk
           w3 == ~obs.located
           w4 == obs.invalidOk \/ ~obs.coded
           C == <<Generalism!Refuse("runtime_timeout", w1),
                  Generalism!Refuse("compile_failure", w2),
                  Generalism!Refuse("internal_error", w3),
                  Generalism!Refuse("semantic_mismatch", w4)>>
<1>1. Generalism!VerdictBinding(obs) = FirstOf(C)
  <2>1. Generalism!VerdictBinding(obs) = Generalism!FirstOf(C)
    BY DEF Generalism!VerdictBinding
  <2> HIDE DEF C
  <2> QED BY <2>1, MatrixChecks
<1> HIDE DEF w1, w2, w3, w4
<1>2. DOMAIN C = 1 .. 4 /\ 1 .. 4 = {1, 2, 3, 4} /\ 4 \in Nat
  OBVIOUS
<1>3. /\ C[1].code # Ok /\ C[1].when = w1
      /\ C[2].code # Ok /\ C[2].when = w2
      /\ C[3].code # Ok /\ C[3].when = w3
      /\ C[4].code # Ok /\ C[4].when = w4
  BY DEF Generalism!Refuse, Ok
<1> HIDE DEF C
<1>4. FirstOf(C) = Ok <=> \A i \in 1 .. 4 : ~C[i].when
  <2>1. \A i \in 1 .. 4 : C[i].code # Ok
    BY <1>2, <1>3
  <2>2. DOMAIN C = 1 .. 4 /\ 4 \in Nat
    BY <1>2
  <2> QED BY <2>1, <2>2, AcceptedIff
<1>5. Generalism!VerdictBinding(obs) = Ok <=> (~w1 /\ ~w2 /\ ~w3 /\ ~w4)
  BY <1>1, <1>2, <1>3, <1>4
<1> QED BY <1>5 DEF w1, w2, w3, w4

\* A cell that names its own contract is where the table says.
LEMMA LocatedAtItself ==
  ASSUME NEW cell, NEW t, cell.covers \in t.contract, cell.locator = cell.covers
  PROVE  Generalism!Coverage!BindingLocusViolations(cell, t) = Generalism!Coverage!Ok
<1> DEFINE w1 == cell.covers \notin t.contract
           w2 == cell.locator # cell.covers
           C == <<Generalism!Coverage!Refuse("no canonical binding", w1),
                  Generalism!Coverage!Refuse("relabeled", w2)>>
<1>1. Generalism!Coverage!BindingLocusViolations(cell, t) = Generalism!Coverage!FirstOf(C)
  BY DEF Generalism!Coverage!BindingLocusViolations
<1>2. ~w1 /\ ~w2
  OBVIOUS
<1> HIDE DEF w1, w2
<1>3. DOMAIN C = 1 .. 2 /\ 1 .. 2 = {1, 2}
  OBVIOUS
<1>4. C[1].when = w1 /\ C[2].when = w2
  BY DEF Generalism!Coverage!Refuse
<1> HIDE DEF C
<1>5. {i \in DOMAIN C : C[i].when} = {}
  BY <1>2, <1>3, <1>4
<1> QED BY <1>1, <1>5 DEF Generalism!Coverage!FirstOf

\* The prover finds the tables' one contract exactly as enforced as the committed specs do it.
LEMMA BindingProved ==
  ASSUME NEW enforced \in {{"v"}, {}}
  PROVE  LET t == [Generalism!Tables EXCEPT !.enforced = enforced]
         IN  Generalism!Coverage!ProveBinding(Generalism!Coverage!BuildManifest(t), t) = {}
               <=> enforced = {"v"}
<1> DEFINE t == [Generalism!Tables EXCEPT !.enforced = enforced]
           built == Generalism!Coverage!BuildManifest(t)
           contracts == {x \in built.cells : x.kind = "binding" /\ x.code}
           validated == [Generalism!Coverage!Cell("binding", "v", FALSE, "spec_refusal") EXCEPT
                           !.locator = "v", !.code = TRUE]
           consumed(f) == [Generalism!Coverage!Cell("binding", f, TRUE, "binding_consume") EXCEPT
                             !.proof = f, !.locator = f]
           made(e) == [Generalism!Coverage!Cell("generated", e.covers, TRUE, e.witness) EXCEPT
                !.mutation = e.mutation, !.applies = e.applies,
                !.control = IF e.exact THEN e.mutation ELSE "other",
                !.code = e.witness = "refusal"]
           seed(s) == Generalism!Coverage!Cell("seed", s.covers, s.credits, s.witness)
           names == {t.controlled[i] : i \in DOMAIN t.controlled}
           proofs == {"p", "g1", "g2"}
<1>1. /\ t.values = {"e", "p", "v", "g1", "g2"} /\ t.proofs = {"p"} /\ t.contract = {"v"}
      /\ t.enforced = enforced
  BY DEF Generalism!Tables
<1>2. /\ validated.kind = "binding" /\ validated.code = TRUE
      /\ validated.covers = "v" /\ validated.locator = "v"
      /\ \A f : consumed(f).code = FALSE
      /\ \A s : seed(s).kind = "seed"
  BY DEF Generalism!Coverage!Cell
<1>3. \A e : made(e).kind = "generated"
  <2> SUFFICES ASSUME NEW e PROVE made(e).kind = "generated"
    OBVIOUS
  <2> DEFINE control == IF e.exact THEN e.mutation ELSE "other"
             coded   == e.witness = "refusal"
             cell == [Generalism!Coverage!Cell("generated", e.covers, TRUE, e.witness) EXCEPT
                        !.mutation = e.mutation, !.applies = e.applies, !.control = control,
                        !.code = coded]
  <2>1. cell.kind = "generated"
    <3> HIDE DEF control, coded
    <3> QED BY DEF Generalism!Coverage!Cell
  <2> QED BY <2>1
<1>4. /\ Generalism!Coverage!BuildControlledCells(t) = {made(e) : e \in names}
      /\ Generalism!Coverage!SeedCells(t) = {seed(s) : s \in t.seeds}
  BY DEF Generalism!Coverage!BuildControlledCells, Generalism!Coverage!SeedCells,
         Generalism!Coverage!Names
<1> HIDE DEF t
<1>5. Generalism!Coverage!BuildBindingCells(t) = {consumed(f) : f \in proofs} \cup {validated}
  <2>1. Generalism!Coverage!BuildBindingConsumeProofs(t) = proofs
    BY <1>1 DEF Generalism!Coverage!BuildBindingConsumeProofs, Generalism!Coverage!LiveValues,
           Generalism!Coverage!DeriveFeatures
  <2> DEFINE valid(f) == [Generalism!Coverage!Cell("binding", f, FALSE, "spec_refusal") EXCEPT
                            !.locator = f, !.code = TRUE]
  <2>2. Generalism!Coverage!BuildBindingCells(t)
           = {consumed(f) : f \in proofs} \cup {valid(f) : f \in t.contract \ proofs}
    <3> HIDE DEF proofs
    <3> QED BY <2>1 DEF Generalism!Coverage!BuildBindingCells
  <2>3. t.contract \ proofs = {"v"} /\ valid("v") = validated
    BY <1>1
  <2> HIDE DEF valid, consumed, validated, proofs
  <2> QED BY <2>2, <2>3
<1>6. built.cells = {seed(s) : s \in t.seeds} \cup {made(e) : e \in names}
                         \cup {consumed(f) : f \in proofs} \cup {validated}
  <2> DEFINE seeds == Generalism!Coverage!SeedCells(t)
             controlled == Generalism!Coverage!BuildControlledCells(t)
             binding == Generalism!Coverage!BuildBindingCells(t)
  <2>1. built.cells = seeds \cup controlled \cup binding
    BY DEF Generalism!Coverage!BuildManifest
  <2> HIDE DEF built, seed, made, consumed, validated, names, proofs
  <2> QED BY <1>4, <1>5, <2>1 DEF seeds, controlled, binding
<1>7. contracts = {validated}
  <2> HIDE DEF built, seed, made, consumed, validated, names, proofs
  <2> QED BY <1>2, <1>3, <1>6
<1>8. Generalism!Coverage!BindingLocusViolations(validated, t) = Generalism!Coverage!Ok
  <2> HIDE DEF validated
  <2> QED BY <1>1, <1>2, LocatedAtItself
<1> DEFINE judgement(c) ==
             IF Generalism!Coverage!BindingLocusViolations(c, t) # Generalism!Coverage!Ok
             THEN Generalism!Coverage!BindingLocusViolations(c, t)
             ELSE IF c.covers \in t.enforced THEN Generalism!Coverage!Ok ELSE "not enforced"
<1>9. Generalism!Coverage!ProveBinding(built, t)
        = {judgement(c) : c \in contracts} \ {Generalism!Coverage!Ok}
  <2> HIDE DEF built
  <2> QED BY DEF Generalism!Coverage!ProveBinding
<1>10. judgement(validated) = Generalism!Coverage!Ok <=> enforced = {"v"}
  <2>1. judgement(validated) = IF "v" \in enforced THEN Generalism!Coverage!Ok ELSE "not enforced"
    <3> HIDE DEF validated
    <3> QED BY <1>1, <1>2, <1>8
  <2>2. Generalism!Coverage!Ok # "not enforced"
    BY DEF Generalism!Coverage!Ok
  <2> HIDE DEF judgement
  <2> QED BY <2>1, <2>2
<1>11. Generalism!Coverage!ProveBinding(built, t) = {} <=> enforced = {"v"}
  <2> HIDE DEF judgement, contracts, validated, built
  <2> QED BY <1>7, <1>9, <1>10
<1> QED BY <1>11 DEF t

\* A list of one check accepts only if that check does not refuse.
LEMMA OnlyCheck ==
  ASSUME NEW c, FirstOf(<<c>>) = Ok, c.when => c.code # Ok
  PROVE  ~c.when
<1> DEFINE C == <<c>>
<1>1. DOMAIN C = {1} /\ C[1] = c
  OBVIOUS
<1>2. FirstOf(C) = Ok
  OBVIOUS
<1> HIDE DEF C
<1>3. ASSUME c.when PROVE FALSE
  <2>1. {i \in DOMAIN C : C[i].when} = {1}
    BY <1>1, <1>3
  <2>2. (CHOOSE i \in {1} : \A j \in {1} : i <= j) = 1
    OBVIOUS
  <2>3. FirstOf(C) = C[1].code
    BY <2>1, <2>2 DEF FirstOf
  <2> QED BY <1>1, <1>2, <1>3, <2>3
<1> QED BY <1>3

\* A crediting cell proved against the compiler: its own feature, exactly applied, made the
\* difference to its control.
LEMMA WitnessProved ==
  ASSUME NEW e \in Experiments, NEW t, t.controlled = <<e>>,
         NEW obs \in [{"cell", "control"} -> [exit : {0, 1, 4}, model : {"m", "k"}, coded : BOOLEAN]],
         Generalism!FirstOf(<<Generalism!Coverage!ProveWitness(
            CHOOSE c \in Generalism!Coverage!BuildControlledCells(t) : TRUE, t, obs)>>) = Ok
  PROVE  /\ e.mutation = e.covers /\ e.exact /\ e.applies
         /\ IF e.witness = "ledger"
            THEN obs.cell.exit = 0 /\ obs.control # obs.cell
            ELSE obs.cell.exit = 4 /\ obs.cell.coded /\ ~obs.control.coded
<1> DEFINE made(x) == [Generalism!Coverage!Cell("generated", x.covers, TRUE, x.witness) EXCEPT
                !.mutation = x.mutation, !.applies = x.applies,
                !.control = IF x.exact THEN x.mutation ELSE "other",
                !.code = x.witness = "refusal"]
           cell == made(e)
           control == IF e.exact THEN e.mutation ELSE "other"
           coded == e.witness = "refusal"
<1>1. Generalism!Coverage!BuildControlledCells(t) = {cell}
  <2>1. Generalism!Coverage!BuildControlledCells(t)
           = {made(x) : x \in {t.controlled[i] : i \in DOMAIN t.controlled}}
    BY DEF Generalism!Coverage!BuildControlledCells, Generalism!Coverage!Names
  <2>2. {t.controlled[i] : i \in DOMAIN t.controlled} = {e}
    OBVIOUS
  <2> HIDE DEF made
  <2> QED BY <2>1, <2>2
<1>2. (CHOOSE c \in Generalism!Coverage!BuildControlledCells(t) : TRUE) = cell
  <2> HIDE DEF cell
  <2> QED BY <1>1
<1>3. cell.credits = TRUE /\ cell.witness = e.witness /\ cell.code = coded
  <2> DEFINE made2 == [Generalism!Coverage!Cell("generated", e.covers, TRUE, e.witness) EXCEPT
                !.mutation = e.mutation, !.applies = e.applies, !.control = control, !.code = coded]
  <2>1. made2.credits = TRUE /\ made2.witness = e.witness /\ made2.code = coded
    <3> HIDE DEF control, coded
    <3> QED BY DEF Generalism!Coverage!Cell
  <2> QED BY <2>1
<1> DEFINE w1 == Generalism!Coverage!CellViolations(cell, t) # Generalism!Coverage!Ok
           w2 == <<obs.cell.exit, obs.cell.model>> = <<obs.control.exit, obs.control.model>>
           w3 == cell.witness = "ledger" /\ obs.cell.exit # 0
           w4 == cell.witness = "refusal" /\ obs.cell.exit \notin {3, 4, 6}
           w5 == cell.witness = "refusal" /\ ~(cell.code /\ obs.cell.coded)
           w6 == cell.witness = "refusal" /\ obs.control.coded
           C == <<Generalism!Coverage!Refuse("not canonical", w1),
                  Generalism!Coverage!Refuse("same observation", w2),
                  Generalism!Coverage!Refuse("does not realize", w3),
                  Generalism!Coverage!Refuse("did not refuse", w4),
                  Generalism!Coverage!Refuse("another refusal", w5),
                  Generalism!Coverage!Refuse("control refuses too", w6)>>
           found == Generalism!Coverage!FirstOf(C)
           D == <<Generalism!Coverage!Refuse(found, found # Generalism!Coverage!Ok)>>
<1> HIDE DEF cell
<1>4. Generalism!FirstOf(D) = Ok
  <2>1. Generalism!Coverage!ProveWitness(cell, t, obs)
           = Generalism!Coverage!Refuse(found, found # Generalism!Coverage!Ok)
    BY <1>3 DEF Generalism!Coverage!ProveWitness
  <2> HIDE DEF found
  <2> QED BY <1>2, <2>1
<1>5. FirstOf(C) = Ok
  <2> HIDE DEF C
  <2>1. found = FirstOf(C)
    BY CoverageChecks
  <2> HIDE DEF found
  <2> DEFINE c == Generalism!Coverage!Refuse(found, found # Generalism!Coverage!Ok)
  <2>2. c.code = found /\ c.when = (found # Ok)
    BY DEF Generalism!Coverage!Refuse, Generalism!Coverage!Ok, Ok
  <2>3. FirstOf(<<c>>) = Ok
    BY <1>4, MatrixChecks
  <2> HIDE DEF c, D
  <2>4. c.when => c.code # Ok
    BY <2>2
  <2>5. ~c.when
    BY <2>3, <2>4, OnlyCheck
  <2> QED BY <2>1, <2>2, <2>5
<1> HIDE DEF w1, w2, w3, w4, w5, w6
<1>6. DOMAIN C = 1 .. 6 /\ 1 .. 6 = {1, 2, 3, 4, 5, 6} /\ 6 \in Nat
  OBVIOUS
<1>7. /\ C[1].code # Ok /\ C[1].when = w1
      /\ C[2].code # Ok /\ C[2].when = w2
      /\ C[3].code # Ok /\ C[3].when = w3
      /\ C[4].code # Ok /\ C[4].when = w4
      /\ C[5].code # Ok /\ C[5].when = w5
      /\ C[6].code # Ok /\ C[6].when = w6
  BY DEF Generalism!Coverage!Refuse, Ok
<1> HIDE DEF C, D, found
<1>8. FirstOf(C) = Ok <=> \A i \in 1 .. 6 : ~C[i].when
  BY <1>6, <1>7, AcceptedIff
<1>9. ~w1 /\ ~w2 /\ ~w3 /\ ~w4 /\ ~w5 /\ ~w6
  BY <1>5, <1>6, <1>7, <1>8
<1>10. Mutated(e) /\ e.applies
  <2>1. Generalism!Coverage!CellViolations(cell, t) = Ok
    BY <1>9 DEF w1, Generalism!Coverage!Ok, Ok
  <2> QED BY <2>1, CanonicalIsMutated DEF cell
<1>11. CASE e.witness = "ledger"
  <2>1. obs.cell.exit = 0
    BY <1>3, <1>9, <1>11 DEF w3
  <2>2. obs.control # obs.cell
    BY <1>9 DEF w2
  <2> QED BY <1>10, <1>11, <2>1, <2>2 DEF Mutated
<1>12. CASE e.witness = "refusal"
  <2>1. obs.cell.exit \in {3, 4, 6} /\ obs.cell.coded /\ ~obs.control.coded
    BY <1>3, <1>9, <1>12 DEF w4, w5, w6
  <2>2. obs.cell.exit \in {0, 1, 4}
    OBVIOUS
  <2> QED BY <1>10, <1>12, <2>1, <2>2 DEF Mutated
<1> QED BY <1>11, <1>12 DEF Experiments

\* What is on record of a judgement was earned, and the two judges agree on it.
JudgedFields == {"locus", "runner", "prover", "ran", "refused"}
JudgedInv ==
  DOMAIN judged = JudgedFields /\ Generalism!PassesAreEarned /\ Generalism!ProverAgrees

LEMMA JudgedInitially == Generalism!Init => JudgedInv
<1> SUFFICES ASSUME Generalism!Init PROVE JudgedInv
  OBVIOUS
<1>1. judged = [locus |-> "none", runner |-> Generalism!Ok, prover |-> Generalism!Ok,
                ran |-> TRUE, refused |-> FALSE]
  BY DEF Generalism!Init
<1>2. DOMAIN judged = JudgedFields /\ judged.locus = "none"
  BY <1>1 DEF JudgedFields
<1> QED BY <1>2 DEF JudgedInv, Generalism!PassesAreEarned, Generalism!ProverAgrees, Generalism!Loci

LEMMA JudgeKeeps == ASSUME JudgedInv, Generalism!Judge PROVE JudgedInv'
<1>1. PICK locus \in Generalism!Loci :
           \E base \in Generalism!Bases(locus),
              rc \in Generalism!Renderers(locus), rk \in Generalism!Renderers(locus),
              spec \in [Generalism!Roles -> Generalism!ToolReports],
              consumer \in Generalism!Consumers(locus),
              field \in IF locus = "participant" THEN {"minAssurance", "other"} ELSE {"minAssurance"} :
         /\ locus \in {"participant", "observerSet"} => spec.tampered = [ok |-> TRUE, codes |-> <<>>]
         /\ LET proof == [Generalism!Proof(locus) EXCEPT !.field = field]
                tool == [renderCell |-> rc, renderControl |-> rk, spec |-> spec, consumer |-> consumer]
            IN judged' = [judged EXCEPT !.locus = locus,
                                        !.runner = Generalism!RunnerCause(proof, base, tool),
                                        !.prover = Generalism!ProverBad(proof, base, tool)]
  BY Zenon DEF Generalism!Judge
<1>2. PICK base \in Generalism!Bases(locus),
           rc \in Generalism!Renderers(locus), rk \in Generalism!Renderers(locus),
           spec \in [Generalism!Roles -> Generalism!ToolReports],
           consumer \in Generalism!Consumers(locus),
           field \in IF locus = "participant" THEN {"minAssurance", "other"} ELSE {"minAssurance"} :
         /\ locus \in {"participant", "observerSet"} => spec.tampered = [ok |-> TRUE, codes |-> <<>>]
         /\ LET proof == [Generalism!Proof(locus) EXCEPT !.field = field]
                tool == [renderCell |-> rc, renderControl |-> rk, spec |-> spec, consumer |-> consumer]
            IN judged' = [judged EXCEPT !.locus = locus,
                                        !.runner = Generalism!RunnerCause(proof, base, tool),
                                        !.prover = Generalism!ProverBad(proof, base, tool)]
  BY <1>1
<1> DEFINE proof == [Generalism!Proof(locus) EXCEPT !.field = field]
           tool == [renderCell |-> rc, renderControl |-> rk, spec |-> spec, consumer |-> consumer]
           runner == Generalism!RunnerCause(proof, base, tool)
           prover == Generalism!ProverBad(proof, base, tool)
<1>3. judged' = [judged EXCEPT !.locus = locus, !.runner = runner, !.prover = prover]
  BY <1>2
<1>4. DOMAIN tool.spec.cell = {"ok", "codes"} /\ tool.spec.cell.ok \in BOOLEAN
  <2>1. tool.spec.cell \in Generalism!ToolReports
    BY DEF Generalism!Roles
  <2> HIDE DEF tool
  <2>2. \A r \in Generalism!ToolReports : DOMAIN r = {"ok", "codes"} /\ r.ok \in BOOLEAN
    <3>1. \A r \in Generalism!ToolReports : \E ok \in BOOLEAN : \E c : r = [ok |-> ok, codes |-> c]
      BY Zenon DEF Generalism!ToolReports
    <3> QED BY <3>1
  <2> QED BY <2>1, <2>2
<1>5. runner = Ok <=> prover = Ok
  <2> HIDE DEF tool
  <2> QED BY <1>4, JudgesAgree
<1> HIDE DEF runner, prover
<1>6. /\ DOMAIN judged' = JudgedFields
      /\ judged'.locus = locus /\ judged'.runner = runner /\ judged'.prover = prover
  BY <1>3 DEF JudgedInv, JudgedFields
<1>7. locus # "neu" /\ locus # "witness"
  BY DEF Generalism!Loci
<1> QED BY <1>5, <1>6, <1>7 DEF JudgedInv, Generalism!PassesAreEarned, Generalism!ProverAgrees,
           Generalism!Ok, Ok

LEMMA JudgeNeuKeeps == ASSUME JudgedInv, Generalism!JudgeNeu PROVE JudgedInv'
<1>1. PICK exit \in [{"reference", "solidity", "postgres"} -> {0, 2, 3, 4}],
           shared \in {{}, {"k"}, {"other"}}, lone \in SUBSET {"k"},
           timedOut \in BOOLEAN, controlSame \in BOOLEAN,
           compile \in [{"solidity", "postgres"} -> {"pass", "skip", "fail_compile", "fail_runtime"}],
           differential \in {"ok", "bad"},
           cell \in [refusal : BOOLEAN, code : {Generalism!None, "k"}] :
         LET obs == [exit |-> exit, timedOut |-> timedOut, differential |-> differential,
                     compile |-> compile, controlSame |-> controlSame,
                     codes |-> [r \in DOMAIN exit |-> shared \cup IF r = "reference" THEN lone ELSE {}]]
         IN judged' = [judged EXCEPT !.locus = "neu", !.runner = Generalism!VerdictNeu(cell, obs),
                        !.prover = @,
                        !.ran = /\ \A r \in DOMAIN exit : exit[r] = 0
                                /\ \A b \in DOMAIN compile : compile[b] = "pass",
                        !.refused = /\ \A r \in DOMAIN exit : exit[r] \in {3, 4}
                                    /\ shared # {}
                                    /\ (cell.code # Generalism!None => cell.code \in shared)]
  BY Zenon DEF Generalism!JudgeNeu
<1> DEFINE obs == [exit |-> exit, timedOut |-> timedOut, differential |-> differential,
                   compile |-> compile, controlSame |-> controlSame,
                   codes |-> [r \in DOMAIN exit |-> shared \cup IF r = "reference" THEN lone ELSE {}]]
           runner == Generalism!VerdictNeu(cell, obs)
           ran == /\ \A r \in DOMAIN exit : exit[r] = 0
                  /\ \A b \in DOMAIN compile : compile[b] = "pass"
           refused == /\ \A r \in DOMAIN exit : exit[r] \in {3, 4}
                      /\ shared # {} /\ (cell.code # Generalism!None => cell.code \in shared)
<1>2. judged' = [judged EXCEPT !.locus = "neu", !.runner = runner, !.prover = @, !.ran = ran,
                               !.refused = refused]
  BY <1>1
<1>3. (runner = Ok => ran) /\ (runner = "governed_refusal" => refused)
  <2>1. obs.exit = exit /\ obs.compile = compile /\ obs.codes["solidity"] = shared
    OBVIOUS
  <2> HIDE DEF obs
  <2> QED BY <2>1, NeuIsEarned
<1> HIDE DEF runner, ran, refused
<1>4. /\ DOMAIN judged' = JudgedFields
      /\ judged'.locus = "neu" /\ judged'.runner = runner
      /\ judged'.ran = ran /\ judged'.refused = refused
  BY <1>2 DEF JudgedInv, JudgedFields
<1> QED BY <1>3, <1>4 DEF JudgedInv, Generalism!PassesAreEarned, Generalism!ProverAgrees,
           Generalism!Loci, Generalism!Ok, Ok

LEMMA JudgeBindingKeeps == ASSUME JudgedInv, Generalism!JudgeBinding PROVE JudgedInv'
<1>1. PICK obs \in [timedOut : BOOLEAN, validOk : BOOLEAN, located : BOOLEAN, invalidOk : BOOLEAN,
                    coded : BOOLEAN] :
         LET t == [Generalism!Tables EXCEPT !.enforced =
                         IF obs.validOk /\ obs.located /\ ~obs.invalidOk /\ obs.coded THEN {"v"} ELSE {}]
             bad == Generalism!Coverage!ProveBinding(Generalism!Coverage!BuildManifest(t), t)
         IN /\ ~obs.timedOut
            /\ judged' = [judged EXCEPT !.locus = "contract", !.runner = Generalism!VerdictBinding(obs),
                                        !.prover = IF bad = {} THEN Generalism!Ok ELSE "not enforced"]
  BY DEF Generalism!JudgeBinding
<1> DEFINE holds == obs.validOk /\ obs.located /\ ~obs.invalidOk /\ obs.coded
           enforced == IF holds THEN {"v"} ELSE {}
           t == [Generalism!Tables EXCEPT !.enforced = enforced]
           bad == Generalism!Coverage!ProveBinding(Generalism!Coverage!BuildManifest(t), t)
           runner == Generalism!VerdictBinding(obs)
           prover == IF bad = {} THEN Generalism!Ok ELSE "not enforced"
<1>2. /\ ~obs.timedOut
      /\ judged' = [judged EXCEPT !.locus = "contract", !.runner = runner, !.prover = prover]
  BY <1>1
<1>3. bad = {} <=> enforced = {"v"}
  <2>1. enforced \in {{"v"}, {}}
    OBVIOUS
  <2> HIDE DEF enforced
  <2> QED BY <2>1, BindingProved
<1> HIDE DEF bad
<1>4. enforced = {"v"} <=> holds
  OBVIOUS
<1>5. runner = Ok <=> holds
  BY <1>2, BindingVerdict
<1> HIDE DEF holds, enforced
<1>6. runner = Ok <=> prover = Ok
  BY <1>3, <1>4, <1>5 DEF Generalism!Ok, Ok
<1> HIDE DEF runner, prover
<1>7. /\ DOMAIN judged' = JudgedFields
      /\ judged'.locus = "contract" /\ judged'.runner = runner /\ judged'.prover = prover
  BY <1>2 DEF JudgedInv, JudgedFields
<1> QED BY <1>6, <1>7 DEF JudgedInv, Generalism!PassesAreEarned, Generalism!ProverAgrees,
           Generalism!Loci, Generalism!Ok, Ok

LEMMA JudgeWitnessKeeps == ASSUME JudgedInv, Generalism!JudgeWitness PROVE JudgedInv'
<1>1. PICK witness \in {"ledger", "refusal"}, mutation \in {"e", "n"}, exact \in BOOLEAN,
           applies \in BOOLEAN,
           obs \in [{"cell", "control"} -> [exit : {0, 1, 4}, model : {"m", "k"}, coded : BOOLEAN]] :
         LET experiment == [Generalism!Experiment("e", mutation) EXCEPT
                               !.witness = witness, !.exact = exact, !.applies = applies]
             t == [Generalism!Tables EXCEPT !.controlled = <<experiment>>, !.locus = {"e", "n"}]
             cell == CHOOSE c \in Generalism!Coverage!BuildControlledCells(t) : TRUE
         IN judged' = [judged EXCEPT !.locus = "witness",
                         !.prover = Generalism!FirstOf(<<Generalism!Coverage!ProveWitness(cell, t, obs)>>),
                         !.ran = /\ mutation = "e" /\ exact /\ applies
                                 /\ IF witness = "ledger"
                                    THEN obs.cell.exit = 0 /\ obs.control # obs.cell
                                    ELSE obs.cell.exit = 4 /\ obs.cell.coded /\ ~obs.control.coded]
  BY DEF Generalism!JudgeWitness
<1> DEFINE e == [Generalism!Experiment("e", mutation) EXCEPT
                   !.witness = witness, !.exact = exact, !.applies = applies]
           t == [Generalism!Tables EXCEPT !.controlled = <<e>>, !.locus = {"e", "n"}]
           cell == CHOOSE c \in Generalism!Coverage!BuildControlledCells(t) : TRUE
           prover == Generalism!FirstOf(<<Generalism!Coverage!ProveWitness(cell, t, obs)>>)
           ran == /\ mutation = "e" /\ exact /\ applies
                  /\ IF witness = "ledger"
                     THEN obs.cell.exit = 0 /\ obs.control # obs.cell
                     ELSE obs.cell.exit = 4 /\ obs.cell.coded /\ ~obs.control.coded
<1>2. judged' = [judged EXCEPT !.locus = "witness", !.prover = prover, !.ran = ran]
  BY <1>1
<1>3. /\ e \in Experiments
      /\ e.covers = "e" /\ e.mutation = mutation /\ e.witness = witness
      /\ e.exact = exact /\ e.applies = applies
  BY DEF Generalism!Experiment, Experiments
<1>4. t.controlled = <<e>>
  <2> HIDE DEF e
  <2> QED BY DEF Generalism!Tables
<1> HIDE DEF t, e
<1>5. prover = Ok => ran
  <2> SUFFICES ASSUME prover = Ok PROVE ran
    OBVIOUS
  <2>1. /\ e.mutation = e.covers /\ e.exact /\ e.applies
        /\ IF e.witness = "ledger"
           THEN obs.cell.exit = 0 /\ obs.control # obs.cell
           ELSE obs.cell.exit = 4 /\ obs.cell.coded /\ ~obs.control.coded
    BY <1>3, <1>4, WitnessProved
  <2> QED BY <1>3, <2>1
<1> HIDE DEF prover, ran
<1>6. /\ DOMAIN judged' = JudgedFields
      /\ judged'.locus = "witness" /\ judged'.prover = prover /\ judged'.ran = ran
  BY <1>2 DEF JudgedInv, JudgedFields
<1> QED BY <1>5, <1>6 DEF JudgedInv, Generalism!PassesAreEarned, Generalism!ProverAgrees,
           Generalism!Loci, Generalism!Ok, Ok

LEMMA JudgedStepKeeps == ASSUME JudgedInv, [Generalism!Next]_matrixVars PROVE JudgedInv'
<1>1. CASE UNCHANGED judged
  BY <1>1 DEF JudgedInv, Generalism!PassesAreEarned, Generalism!ProverAgrees
<1>2. CASE Generalism!CoverageNext \/ Generalism!MatrixNext
  BY <1>1, <1>2 DEF Generalism!CoverageNext, Generalism!MatrixNext
<1>3. CASE UNCHANGED matrixVars
  BY <1>1, <1>3 DEF matrixVars
<1> QED BY <1>2, <1>3, JudgeKeeps, JudgeNeuKeeps, JudgeBindingKeeps, JudgeWitnessKeeps
        DEF Generalism!Next

\* The runner and the prover accept the same consume proofs and contracts, a .neu case passes
\* or is a governed refusal only when all three realizations did just that, and a crediting
\* cell is proved only when its own feature made the difference.
\* (run_generalism_matrix, gen_generalism_cells)
THEOREM PassesAreJust == FlowSpec => []PassesAreEarned
<1>1. FlowInit => (chosen = "generalism" => JudgedInv)
  BY JudgedInitially DEF FlowInit
<1>2. (chosen = "generalism" => JudgedInv) /\ [FlowNext]_flowVars
        => (chosen = "generalism" => JudgedInv)'
  <2> SUFFICES ASSUME chosen = "generalism" => JudgedInv, [FlowNext]_flowVars,
                      chosen' = "generalism"
               PROVE  JudgedInv'
    OBVIOUS
  <2>1. chosen = "generalism" /\ [Generalism!Next]_matrixVars
    BY DEF FlowNext, flowVars, matrixVars
  <2> QED BY <2>1, JudgedStepKeeps
<1>3. (chosen = "generalism" => JudgedInv) => PassesAreEarned
  BY DEF JudgedInv, PassesAreEarned
<1> QED BY <1>1, <1>2, <1>3, PTL DEF FlowSpec
=============================================================================
