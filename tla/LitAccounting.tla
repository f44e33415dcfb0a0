---------------------------- MODULE LitAccounting ----------------------------
(***************************************************************************)
(* scripts/gates/run_lit_suite_accounting.py: the wrapper that runs the    *)
(* lit suite, cross-checks lit's JSON report, its xUnit report and its     *)
(* exit status, writes an accounting report and holds the run against a    *)
(* baseline banked in the repository.                                      *)
(*                                                                         *)
(* A developer edits and commits the working tree concurrently: the        *)
(* wrapper reads the baseline, git's state and the suite at three          *)
(* different moments.  lit is external: it reports what the tests did, but *)
(* one of its three channels may be wrong.                                 *)
(***************************************************************************)
EXTENDS Refusals

CONSTANTS Tests,        \* the lit identities the suite may hold
          LitCodes,     \* the result codes lit may give a test
          MaxCommits,   \* bound on the history
          MaxEdits      \* bound on the developer's edits

CodeCategory ==
    [PASS |-> "passed", FLAKYPASS |-> "passed", FAIL |-> "failed",
     XFAIL |-> "xfail", XPASS |-> "xpass", TIMEOUT |-> "timeout",
     UNRESOLVED |-> "unresolved", UNSUPPORTED |-> "skipped",
     SKIPPED |-> "skipped", EXCLUDED |-> "skipped"]

Categories == {CodeCategory[c] : c \in DOMAIN CodeCategory}
FailureCategories == {"failed", "xpass", "timeout", "unresolved"}
ExecutedCategories == {"passed", "failed", "xfail", "xpass", "timeout"}

ASSUME LitAssumption ==
    /\ LitCodes \subseteq DOMAIN CodeCategory
    /\ MaxCommits \in Nat /\ MaxEdits \in Nat

-----------------------------------------------------------------------------
(***************************************************************************)
(* The baseline file.  A digest over an identity set is the set itself;    *)
(* wellFormed stands for the key set, kind, version, stage, the value      *)
(* types and the reasons; twice for a repeated identity of the list.       *)
(***************************************************************************)
Unarmed == [state |-> "UNARMED", wellFormed |-> TRUE]

Armed(commit, ids, skip, unresolved) ==
    [state |-> "ARMED", wellFormed |-> TRUE, sourceCommit |-> commit,
     discovered |-> ids, twice |-> FALSE, count |-> Cardinality(ids),
     digest |-> ids, skipAllowed |-> skip, unresolvedAllowed |-> unresolved]

ReasonMapCode(allowed, ids) ==
    IF allowed \subseteq ids THEN Ok ELSE "baseline-inconsistent"

ValidateStageB(b) ==
    FirstOf(<<Refuse("baseline-malformed", b.discovered = {} \/ b.twice),
              Refuse("baseline-inconsistent",
                     b.count # Cardinality(b.discovered)),
              Refuse("baseline-inconsistent", b.digest # b.discovered),
              Refuse(ReasonMapCode(b.skipAllowed, b.discovered),
                     ReasonMapCode(b.skipAllowed, b.discovered) # Ok),
              Refuse(ReasonMapCode(b.unresolvedAllowed, b.discovered),
                     ReasonMapCode(b.unresolvedAllowed, b.discovered) # Ok)>>)

LoadBaseline(b) ==
    IF b.state \notin {"UNARMED", "ARMED"} THEN "baseline-state-unknown"
    ELSE IF ~b.wellFormed THEN "baseline-malformed"
    ELSE IF b.state = "ARMED" THEN ValidateStageB(b) ELSE Ok

IsRatcheted(b) == b.state = "ARMED"

-----------------------------------------------------------------------------
VARIABLES
    commits,   \* the history: tests, baseline and the paths each one changed
    tree,      \* the working tree: tests and baseline
    edits,     \* the developer's edits so far
    run,       \* the wrapper's process
    report     \* the report file, or NoReport

vars == <<commits, tree, edits, run, report>>

NoReport == [kind |-> "none"]
HeadIndex == Len(commits)
HeadCommit == commits[HeadIndex]

(***************************************************************************)
(* The git questions the wrapper asks.                                     *)
(***************************************************************************)
TreeIsClean == tree = [tests |-> HeadCommit.tests, base |-> HeadCommit.base]

ArmingAllowlist == {"baseline", "wrapper"}

VerifyArmingDelta(changed) ==
    FirstOf(<<Refuse("baseline-arming-delta", ~(changed \subseteq ArmingAllowlist)),
              Refuse("baseline-arming-delta", "baseline" \notin changed)>>)

\* Mutant of VerifyProvenance: what the arming commit changes is not asked.
ParentIsEnough(b) ==
    IF HeadIndex < 2 \/ b.sourceCommit # HeadIndex - 1
    THEN "baseline-provenance" ELSE Ok

VerifyProvenance(b) ==
    IF HeadIndex < 2 \/ b.sourceCommit # HeadIndex - 1 THEN "baseline-provenance"
    ELSE VerifyArmingDelta(HeadCommit.changed)

VerifyCleanTree == IF TreeIsClean THEN Ok ELSE "baseline-dirty-tree"

-----------------------------------------------------------------------------
(***************************************************************************)
(* lit's results: what the tests really did (truth), and the three         *)
(* channels the wrapper reads.  json is a partial map from identities to   *)
(* codes; lit leaves out tests it excluded.  At most one channel differs   *)
(* from what lit should have said.                                         *)
(***************************************************************************)
CategoryOf(codes, t) == CodeCategory[codes[t]]
In(codes, categories) == {t \in DOMAIN codes : CategoryOf(codes, t) \in categories}

Exact(truth, omitted) ==
    [truth |-> truth,
     json |-> [t \in DOMAIN truth \ omitted |-> truth[t]],
     found |-> DOMAIN truth,
     skipped |-> In(truth, {"skipped"}),
     failing |-> In(truth, FailureCategories),
     status |-> IF In(truth, FailureCategories) # {} THEN 1 ELSE 0]

PartialMaps(S, T) == UNION {[d -> T] : d \in SUBSET S}

Exacts(truth) == {Exact(truth, o) : o \in SUBSET In(truth, {"skipped"})}
JsonLies(e) == {[e EXCEPT !.json = j] : j \in PartialMaps(Tests, LitCodes)}
StatusLies(e) == {[e EXCEPT !.status = s] : s \in 0..2}
XunitReports(tests) ==
    [found : {tests, tests \ {CHOOSE t \in Tests : TRUE}, {}},
     skipped : SUBSET tests, failing : SUBSET tests]
XunitLies(tests, e) ==
    {[e EXCEPT !.found = x.found, !.skipped = x.skipped, !.failing = x.failing] :
       x \in XunitReports(tests)}
Answers(tests, e) == {e} \cup JsonLies(e) \cup StatusLies(e) \cup XunitLies(tests, e)

LitResults(tests) ==
    UNION {Answers(tests, e) : e \in UNION {Exacts(truth) : truth \in [tests -> LitCodes]}}

\* _parse_xunit takes its sets from testcases, so they lie within the found.
ParseXunit(r) == [found |-> r.found, skipped |-> r.skipped \cap r.found,
                  failing |-> r.failing \cap r.found]

ParseLitJson(r) == r.json

Missing(x, codes) == x.found \ DOMAIN codes

\* Mutant of BuildReportCode: lit's exit status is passed on unchecked.
BuildReportTrustsStatus(r) ==
    LET x     == ParseXunit(r)
        codes == ParseLitJson(r)
    IN  FirstOf(<<
          Refuse("report-incomplete", ~(DOMAIN codes \subseteq x.found)),
          Refuse("report-incomplete", ~(Missing(x, codes) \subseteq x.skipped)),
          Refuse("skip-mismatch",
                 x.skipped # In(codes, {"skipped"}) \cup Missing(x, codes)),
          Refuse("zero-discovered", x.found = {}),
          Refuse("zero-executed", In(codes, ExecutedCategories) = {})>>)

BuildReportCode(r) ==
    LET x     == ParseXunit(r)
        codes == ParseLitJson(r)
        fails == In(codes, FailureCategories)
    IN  FirstOf(<<
          Refuse("report-incomplete", ~(DOMAIN codes \subseteq x.found)),
          Refuse("report-incomplete", ~(Missing(x, codes) \subseteq x.skipped)),
          Refuse("skip-mismatch",
                 x.skipped # In(codes, {"skipped"}) \cup Missing(x, codes)),
          Refuse("zero-discovered", x.found = {}),
          Refuse("status-mismatch", x.failing # fails),
          Refuse("zero-attempted", In(codes, Categories \ {"skipped"}) = {}),
          Refuse("zero-executed", In(codes, ExecutedCategories) = {}),
          Refuse("status-suppressed", r.status = 0 /\ fails # {}),
          Refuse("status-mismatch", r.status # (IF fails # {} THEN 1 ELSE 0))>>)

BuildReport(r) ==
    LET x == ParseXunit(r)
    IN  [kind |-> "report", ids |-> x.found, status |-> r.status,
         cat |-> [t \in x.found |-> IF t \in DOMAIN r.json
                                    THEN CategoryOf(r.json, t) ELSE "skipped"]]

Of(rep, category) == {t \in DOMAIN rep.cat : rep.cat[t] = category}

\* Mutant of CompareToBaseline: shrinkage is compared by count.
CompareByCount(rep, b) ==
    IF ~IsRatcheted(b) THEN Ok
    ELSE FirstOf(<<
      Refuse("baseline-shrinkage", Cardinality(rep.ids) < b.count),
      Refuse("baseline-skip-growth", ~(Of(rep, "skipped") \subseteq b.skipAllowed)),
      Refuse("baseline-unresolved-growth",
             ~(Of(rep, "unresolved") \subseteq b.unresolvedAllowed))>>)

(***************************************************************************)
(* The ratchet of an armed baseline, identity by identity.                 *)
(***************************************************************************)
CompareToBaseline(rep, b) ==
    IF ~IsRatcheted(b) THEN Ok
    ELSE FirstOf(<<
      Refuse("baseline-shrinkage", ~(b.discovered \subseteq rep.ids)),
      Refuse("baseline-partition", DOMAIN rep.cat # rep.ids),
      Refuse("baseline-skip-growth", ~(Of(rep, "skipped") \subseteq b.skipAllowed)),
      Refuse("baseline-unresolved-growth",
             ~(Of(rep, "unresolved") \subseteq b.unresolvedAllowed))>>)

-----------------------------------------------------------------------------
(***************************************************************************)
(* The wrapper's process.  pc: idle, baseline (loaded), ready (output      *)
(* unlinked), ran (lit returned), wrote (report replaced).  exit is the    *)
(* last exit status, NoExit while running.                                 *)
(***************************************************************************)
NoExit == 9
NoRun == [pc |-> "idle", exit |-> NoExit, terminal |-> FALSE, used |-> Unarmed,
          lit |-> Exact([t \in {} |-> "PASS"], {}), ran |-> {},
          disturbed |-> FALSE, wrote |-> FALSE]

Exit(status) ==
    run' = IF status = 0 THEN [run EXCEPT !.pc = "idle", !.exit = 0]
           ELSE [NoRun EXCEPT !.exit = status]

\* run() up to the load of the baseline
LoadStep(terminal) ==
    /\ run.pc = "idle"
    /\ LET code == LoadBaseline(tree.base)
           go   == code = Ok /\ (terminal => tree.base.state = "ARMED")
       IN  IF go THEN run' = [NoRun EXCEPT !.terminal = terminal,
                                           !.used = tree.base, !.pc = "baseline"]
           ELSE Exit(2)
    /\ UNCHANGED <<commits, tree, edits, report>>

\* The terminal mode's questions to git, then the old report is unlinked.
PrepareStep ==
    /\ run.pc = "baseline"
    /\ LET refused == run.terminal /\ \/ VerifyCleanTree # Ok
                                      \/ VerifyProvenance(run.used) # Ok
       IN  /\ IF refused THEN Exit(2) ELSE run' = [run EXCEPT !.pc = "ready"]
           /\ report' = IF refused THEN report ELSE NoReport
    /\ UNCHANGED <<commits, tree, edits>>

\* subprocess.run(lit ...); lit reads the suite from the working tree now.
LitStep ==
    /\ run.pc = "ready"
    /\ \/ \E r \in LitResults(tree.tests) :
             run' = [run EXCEPT !.pc = "ran", !.lit = r, !.ran = tree.tests]
       \/ Exit(2)                              \* lit cannot be executed
       \/ \E s \in 0..2 : Exit(IF s = 0 THEN 2 ELSE s)  \* a report is absent
    /\ UNCHANGED <<commits, tree, edits, report>>

\* build_report and _write_report: the report appears before the ratchet.
WriteStep ==
    /\ run.pc = "ran"
    /\ IF BuildReportCode(run.lit) = Ok
       THEN /\ report' = BuildReport(run.lit)
            /\ run' = [run EXCEPT !.pc = "wrote", !.wrote = TRUE]
       ELSE /\ Exit(IF run.lit.status = 0 THEN 2 ELSE run.lit.status)
            /\ UNCHANGED report
    /\ UNCHANGED <<commits, tree, edits>>

CompareStep ==
    /\ run.pc = "wrote"
    /\ Exit(IF CompareToBaseline(report, run.used) # Ok /\ run.lit.status = 0
            THEN 2 ELSE run.lit.status)
    /\ UNCHANGED <<commits, tree, edits, report>>

\* The wrapper is killed: nothing is undone, no exit status is seen.
Killed ==
    /\ run.pc \notin {"idle", "baseline"}
    /\ run' = NoRun
    /\ UNCHANGED <<commits, tree, edits, report>>

-----------------------------------------------------------------------------
(***************************************************************************)
(* The developer.                                                          *)
(***************************************************************************)
Disturb == run' = [run EXCEPT !.disturbed = @ \/ run.pc # "idle"]

EditTo(t) ==
    /\ edits < MaxEdits
    /\ t # tree
    /\ tree' = t
    /\ edits' = edits + 1
    /\ Disturb
    /\ UNCHANGED <<commits, report>>

AddOrDeleteTest ==
    \E t \in Tests :
        \/ t \notin tree.tests /\ EditTo([tree EXCEPT !.tests = @ \cup {t}])
        \/ t \in tree.tests /\ EditTo([tree EXCEPT !.tests = @ \ {t}])

\* Banking: the baseline is taken from the report on disk.
ArmBaseline ==
    /\ report # NoReport
    /\ EditTo([tree EXCEPT !.base = Armed(HeadIndex, report.ids, Of(report, "skipped"),
                                          Of(report, "unresolved"))])

\* A hand edit of an armed baseline that forgets the dependent fields, or
\* keeps them in step.
HandEditBaseline ==
    /\ tree.base.state = "ARMED"
    /\ \E t \in Tests :
          \/ EditTo([tree EXCEPT !.base.discovered = @ \ {t}])
          \/ EditTo([tree EXCEPT !.base.skipAllowed = @ \cup {t}])
          \/ EditTo([tree EXCEPT !.base =
                        Armed(@.sourceCommit, @.discovered \ {t},
                              @.skipAllowed \ {t}, @.unresolvedAllowed \ {t})])

Commit ==
    /\ HeadIndex < MaxCommits
    /\ \E wrapper \in BOOLEAN :
         /\ wrapper \/ ~TreeIsClean
         /\ commits' = Append(commits,
              [tests |-> tree.tests, base |-> tree.base,
               changed |-> {p \in {"baseline", "wrapper", "suite"} :
                              \/ p = "baseline" /\ tree.base # HeadCommit.base
                              \/ p = "wrapper" /\ wrapper
                              \/ p = "suite" /\ tree.tests # HeadCommit.tests}])
    /\ Disturb
    /\ UNCHANGED <<tree, edits, report>>

Init ==
    /\ tree \in [tests : {Tests}, base : {Unarmed}]
    /\ commits = <<[tests |-> tree.tests, base |-> tree.base,
                    changed |-> {"baseline", "wrapper", "suite"}]>>
    /\ edits = 0
    /\ run = NoRun
    /\ report = NoReport

Next ==
    \/ \E terminal \in BOOLEAN : LoadStep(terminal)
    \/ PrepareStep \/ LitStep \/ WriteStep \/ CompareStep \/ Killed
    \/ AddOrDeleteTest \/ ArmBaseline \/ HandEditBaseline \/ Commit

Spec == Init /\ [][Next]_vars

-----------------------------------------------------------------------------
Green == run.pc = "idle" /\ run.exit = 0

(***************************************************************************)
(* A zero exit is believed although one of lit's channels lied: no test of *)
(* the suite lit was pointed at really failed, one was executed, and the   *)
(* report on disk is this run's and puts each test in one category.  The   *)
(* one test it may lose is a skipped test that lit's JSON leaves out and   *)
(* the xUnit report has dropped.  (run(), build_report)                    *)
(***************************************************************************)
GreenIsTrue ==
    Green => LET truth == run.lit.truth
             IN  /\ In(truth, FailureCategories) = {}
                 /\ In(truth, ExecutedCategories) # {}
                 /\ run.wrote /\ report # NoReport
                 /\ DOMAIN report.cat \subseteq run.ran
                 /\ run.ran \ DOMAIN report.cat
                        \subseteq In(truth, {"skipped"}) \ DOMAIN run.lit.json

(***************************************************************************)
(* Under an armed baseline a zero exit means that no banked test           *)
(* disappeared and that no accounted test really skipped outside the       *)
(* reasons it was banked with: neither an added test nor a lying channel   *)
(* makes up for a loss.  (compare_to_baseline)                             *)
(***************************************************************************)
RatchetHolds ==
    Green /\ IsRatcheted(run.used) =>
        /\ run.used.digest \subseteq run.ran \cap report.ids
        /\ In(run.lit.truth, {"skipped"}) \cap report.ids
               \subseteq run.used.skipAllowed

(***************************************************************************)
(* A zero exit of terminal mode is evidence about the commit the baseline  *)
(* names, as long as nobody touched the tree while the wrapper ran: the    *)
(* suite that ran is that commit's suite and the baseline is the one the   *)
(* next commit banked.  (verify_clean_tree, verify_provenance)             *)
(***************************************************************************)
TerminalIsReproducible ==
    Green /\ run.terminal /\ ~run.disturbed =>
        \E c \in 1..(HeadIndex - 1) :
            /\ run.used.sourceCommit = c
            /\ commits[c + 1].base = run.used
            /\ commits[c].tests = run.ran
=============================================================================
