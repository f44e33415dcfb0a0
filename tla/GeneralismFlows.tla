---------------------------- MODULE GeneralismFlows ----------------------------
(***************************************************************************)
(* The generalism matrix in use.  Three flows, one per behaviour:          *)
(*   coverage  pull requests edit the schema, the generator's tables, the  *)
(*             manifest and the baseline, are gated and merged;            *)
(*   matrix    the runner writes a result envelope and its evidence file   *)
(*             by file, may die between two files and be run again, files  *)
(*             are edited by hand, and the PR-fast gate reads what it finds;*)
(*   prover    the runner and the offline prover judge the same consume    *)
(*             proof with the same tools, and the runner judges cells.     *)
(***************************************************************************)
EXTENDS GeneralismConsume

-----------------------------------------------------------------------------
(***************************************************************************)
(* The generalism matrix, from the tools' answers to the pull-request gate:*)
(*   scripts/generators/run_generalism_matrix.py                           *)
(*   scripts/validators/validate_generalism_result.py                      *)
(*   scripts/gates/check_generalism_pr_fast.py                             *)
(* The runner judges cells, groups the cases into result envelopes, signs  *)
(* evidence for each and writes them file by file; the gate later reads    *)
(* what is on disk.  A digest is the thing digested; only the runner and   *)
(* the pinned verifier hold the signing key.                               *)
(***************************************************************************)

(***************************************************************************)
(* A .neu cell: exits of the reference and the two rails, their codes, the *)
(* differential report, the two compiles and the control.                  *)
(***************************************************************************)
GovernedExits == {3, 4, 5, 6}
ContractRefusalExits == {4, 6}

\* Mutant: any failure of the tool counts as its refusal.
OutcomeOfAnyExit(exit, timedOut) ==
    IF timedOut THEN "broken" ELSE IF exit = 0 THEN "accepted" ELSE "refused"

Outcome(exit, timedOut) ==
    CASE timedOut -> "broken"
      [] exit = 0 -> "accepted"
      [] exit \in GovernedExits -> "refused"
      [] OTHER -> "broken"

VerdictNeu(cell, obs) ==
    LET out(rail) == Outcome(obs.exit[rail], obs.timedOut)
        rails == {"reference", "solidity", "postgres"}
        common == {c \in obs.codes["reference"] : \A r \in rails : c \in obs.codes[r]}
        predicted == cell.refusal \/ cell.code # None
        refused == out("solidity") = "refused"
        failed == {b \in {"solidity", "postgres"} : obs.compile[b] \in {"fail_compile", "fail_runtime"}}
    IN FirstOf(<<
       Refuse("runtime_timeout", obs.timedOut),
       Refuse("compile_failure", \E r \in rails : out(r) = "broken"),
       Refuse("internal_error", out("solidity") # out("postgres")),
       Refuse("internal_error", out("reference") # out("solidity")),
       Refuse("internal_error", refused /\ ~predicted),
       Refuse("substrate_protocol_limit",
              refused /\ obs.exit["reference"] \notin ContractRefusalExits),
       Refuse("internal_error", refused /\ common = {}),
       Refuse("internal_error", refused /\ cell.code # None /\ cell.code \notin common),
       Refuse("governed_refusal", refused),
       Refuse("semantic_mismatch", predicted),
       Refuse("internal_error", obs.differential # "ok"),
       Refuse("substrate_protocol_limit",
              failed # {} /\ \A b \in failed : obs.compile[b] = "fail_runtime"),
       Refuse("compile_failure", failed # {}),
       Refuse("missing_required_tool", \E b \in DOMAIN obs.compile : obs.compile[b] # "pass"),
       Refuse("semantic_mismatch", obs.controlSame)>>)

\* A validator-contract cell: the committed spec passes, the sentinel is refused.
VerdictBinding(obs) == FirstOf(<<
    Refuse("runtime_timeout", obs.timedOut),
    Refuse("compile_failure", ~obs.validOk),
    Refuse("internal_error", ~obs.located),
    Refuse("semantic_mismatch", obs.invalidOk \/ ~obs.coded)>>)

Adapter(id, required, status) == [id |-> id, required |-> required, status |-> status]

NeuAdapters(obs) ==
    {Adapter("differential", TRUE, "RAN"), Adapter("external-solc", FALSE, "SKIPPED")}
    \cup {Adapter(b, FALSE, IF obs.compile[b] = "skip" THEN "SKIPPED" ELSE "RAN") :
            b \in DOMAIN obs.compile}

BindingAdapters ==
    {Adapter("differential", TRUE, "RAN"), Adapter("external-solc", FALSE, "SKIPPED"),
     Adapter("solidity", FALSE, "SKIPPED"), Adapter("postgres", FALSE, "SKIPPED")}

\* The build's version and target profiles must be pinned before anything runs.
ProvenanceRefusal(build) == FirstOf(<<
    Refuse("version_json", ~build.versionOk),
    Refuse("version_fields", ~build.fieldsOk),
    Refuse("target_profiles", build.targets # {"solidity", "postgres"})>>)

EnvelopeIdentity(cell, adapters, provenance) ==
    <<cell.spec, cell.scenario, provenance, {<<a.id, a.status>> : a \in adapters}>>

Case(cell, cause) == [id |-> cell.id, adapter |-> "differential", required |-> TRUE, cause |-> cause]

RequiredCaseFloor == 1
Verdicts == <<"BROKEN", "SILENT", "FAITHFUL", "REFUSED">>
Count(cases, verdict) == Cardinality({i \in DOMAIN cases : VerdictOf(cases[i].cause) = verdict})

AggregateVerdict(cases) ==
    LET present == {i \in 1..4 : Count(cases, Verdicts[i]) > 0}
    IN  IF present = {} THEN "FAITHFUL"
        ELSE Verdicts[CHOOSE i \in present : \A j \in present : i <= j]

\* A SILENT case does not fail the profile here; the validator says it must.
ProfileStatus(cases, adapters) ==
    IF /\ Cardinality({i \in DOMAIN cases : cases[i].required}) >= RequiredCaseFloor
       /\ Count(cases, "BROKEN") = 0
       /\ Count(cases, "FAITHFUL") + Count(cases, "REFUSED") >= 1
       /\ \A a \in adapters : a.required => a.status = "RAN"
    THEN "PASS" ELSE "FAIL"

BuildEnvelope(cases, adapters) ==
    [malformed |-> {}, profile |-> "PR_FAST", floor |-> RequiredCaseFloor,
     requiredAdapters |-> {"differential"},
     optionalAdapters |-> {"solidity", "postgres", "external-solc"},
     adapters |-> adapters, cases |-> cases, verdict |-> AggregateVerdict(cases),
     status |-> ProfileStatus(cases, adapters),
     requiredRun |-> Cardinality({i \in DOMAIN cases : cases[i].required}),
     counts |-> [v \in Names(Verdicts) |-> Count(cases, v)]]

(***************************************************************************)
(* The evidence of an envelope.  A trace names the digest of the envelope  *)
(* without its evidence; the package signs the trace, the report the       *)
(* package.  Refs is what the envelope itself records of them.             *)
(***************************************************************************)
Trace(body) == [result |-> body, ok |-> body.status = "PASS"]
Package(trace) == [trace |-> trace, signed |-> TRUE]
Report(trace, package) == [trace |-> trace, package |-> package, ok |-> TRUE, signed |-> TRUE]

(***************************************************************************)
(* validate(): shape, evidence, invariants.  A malformed part is named.    *)
(***************************************************************************)
ShapeCode ==
    [unknown |-> "unknown_field", absent |-> "missing_field", version |-> "schema_version",
     kind |-> "kind", text |-> "missing_field", hash |-> "hash", profile |-> "schema",
     component |-> "schema", command |-> "schema", adapter |-> "schema", case |-> "schema",
     counts |-> "schema", signer |-> "schema", attestation |-> "hash"]

\* The pinned verifier reruns over the trace and the package.
AuthoritativeReport(report, files, verifier) == AllOf({
    Refuse("evidence_ref", ~verifier),
    Refuse("evidence_ref", verifier /\ (~files.package.signed \/ files.package.trace # files.trace)),
    Refuse("evidence_ref", verifier /\ report # Report(files.trace, files.package))})

ValidateVerificationReport(files, verifier) ==
    AllOf({Refuse("hash", files.env.refs.report # files.report),
           Refuse("evidence_ref", ~files.report.ok \/ ~files.report.signed),
           Refuse("evidence_ref", files.report.package # files.env.refs.package)})
    \cup AuthoritativeReport(files.report, files, verifier)

ValidateResultBinding(files) ==
    AllOf({Refuse("evidence_binding", files.trace.result # files.env.body)})

\* Mutant: the trace is trusted to be of this envelope.
ValidateShapeUnbound(files, verifier) ==
    {ShapeCode[p] : p \in files.env.body.malformed}
    \cup (IF ~files.env.bound THEN {"missing_field"}
          ELSE AllOf({Refuse("hash", files.env.refs.package # files.package)})
               \cup ValidateVerificationReport(files, verifier))

ValidateShape(files, verifier) ==
    {ShapeCode[p] : p \in files.env.body.malformed}
    \cup (IF ~files.env.bound THEN {"missing_field"}
          ELSE AllOf({Refuse("hash", files.env.refs.package # files.package)})
               \cup ValidateVerificationReport(files, verifier)
               \cup ValidateResultBinding(files))

CauseByVerdict(verdict) ==
    CASE verdict = "FAITHFUL" -> {Ok}
      [] verdict = "REFUSED" -> {"governed_refusal", "governed_protocol_limit"}
      [] verdict = "SILENT" -> {"semantic_mismatch"}
      [] OTHER -> {"compile_failure", "runtime_timeout", "missing_required_tool",
                   "substrate_protocol_limit", "resource_limit", "internal_error"}

ValidateInvariants(b) ==
    LET ids == {a.id : a \in b.adapters}
        profiled == b.requiredAdapters \cup b.optionalAdapters
        required == Cardinality({i \in DOMAIN b.cases : b.cases[i].required})
        count(v) == Count(b.cases, v)
        expected == CASE count("BROKEN") > 0 -> "BROKEN" [] count("SILENT") > 0 -> "SILENT"
                      [] count("FAITHFUL") > 0 -> "FAITHFUL" [] count("REFUSED") > 0 -> "REFUSED"
                      [] OTHER -> "BROKEN"
    IN AllOf({
       Refuse("profile_overlap", b.requiredAdapters \cap b.optionalAdapters # {}),
       Refuse("adapter_missing", profiled \ ids # {}),
       Refuse("profile_membership",
              \/ ids \ profiled # {}
              \/ \E a \in b.adapters : a.required # (a.id \in b.requiredAdapters)),
       Refuse("required_adapter_skipped", \E a \in b.adapters : a.required /\ a.status = "SKIPPED"),
       Refuse("required_case_floor", required < b.floor),
       Refuse("summary_drift", b.requiredRun # required),
       Refuse("vacuous_pass", b.status = "PASS" /\ required = 0),
       Refuse("case_adapter_missing", \E i \in DOMAIN b.cases : b.cases[i].adapter \notin ids),
       Refuse("case_adapter_skipped",
              \E i \in DOMAIN b.cases, a \in b.adapters :
                 a.id = b.cases[i].adapter /\ a.status = "SKIPPED"),
       Refuse("verdict_cause",
              \E i \in DOMAIN b.cases :
                 b.cases[i].cause \notin CauseByVerdict(VerdictOf(b.cases[i].cause))),
       Refuse("summary_drift", \E v \in Names(Verdicts) : b.counts[v] # count(v)),
       Refuse("bad_profile_pass", b.status = "PASS" /\ count("SILENT") + count("BROKEN") > 0),
       Refuse("summary_drift", b.verdict # expected)})

Validate(files, verifier) == ValidateShape(files, verifier) \cup ValidateInvariants(files.env.body)

(***************************************************************************)
(* The PR-fast gate on top of the validation.                              *)
(***************************************************************************)
GateDiagnostics(files, verifier) ==
    LET b == files.env.body
        requiredIds == {a.id : a \in {x \in b.adapters : x.required}}
        runs == {i \in DOMAIN b.cases : b.cases[i].required /\ b.cases[i].adapter \in requiredIds}
    IN IF Validate(files, verifier) # {} THEN {"validation"} \cup Validate(files, verifier)
       ELSE AllOf({
       Refuse("profile", b.profile # "PR_FAST"),
       Refuse("status", b.status # "PASS"),
       Refuse("verdict", b.verdict # "FAITHFUL"),
       Refuse("silent", b.counts["SILENT"] # 0),
       Refuse("broken", b.counts["BROKEN"] # 0),
       Refuse("duplicate_case", ~NoDuplicates([i \in DOMAIN b.cases |-> b.cases[i].id])),
       Refuse("non_vacuous", requiredIds = {} \/ runs = {}),
       Refuse("required_adapter_skipped", \E a \in b.adapters : a.required /\ a.status = "SKIPPED"),
       Refuse("required_adapter_uncovered",
              \E a \in b.adapters : /\ a.required /\ a.status = "RAN"
                                    /\ \A i \in runs : b.cases[i].adapter # a.id),
       Refuse("required_case_floor", Cardinality({b.cases[i].id : i \in runs}) < b.floor),
       Refuse("summary_drift", b.requiredRun # Cardinality(runs))})

-----------------------------------------------------------------------------
(* The flow                                                                *)

CONSTANTS MaxEdits, MaxMerges, MaxHandEdits, MaxRuns

VARIABLES flow, main, pr, edits, merges,   \* coverage
          files, emitted, job, runs, admitted,   \* matrix
          judged                            \* prover

coverageVars == <<main, pr, edits, merges>>
matrixVars == <<files, emitted, job, runs, admitted>>
vars == <<flow, coverageVars, matrixVars, judged>>

-----------------------------------------------------------------------------
(***************************************************************************)
(* Coverage.  e is a feature with a controlled experiment, p one with a    *)
(* consume proof, v one with a validator contract only, g1 and g2 are live *)
(* guard kinds and n is a feature nobody has covered yet.                  *)
(***************************************************************************)
Coverage == INSTANCE GeneralismCells WITH
    Features <- {"e", "p", "v", "g1", "g2", "n"}, BindingFeatures <- {"p", "v", "g1", "g2"},
    LiveFeatures <- {"g1", "g2"}, MinFeatures <- 4, MinCells <- 4, MinWitnessed <- 2, MinSeeds <- 1

Experiment(covers, mutation) ==
    [covers |-> covers, mutation |-> mutation, witness |-> "refusal", exact |-> TRUE, applies |-> TRUE]

Tables ==
    [values |-> {"e", "p", "v", "g1", "g2"}, stray |-> FALSE, locus |-> {"e"},
     controlled |-> <<Experiment("e", "e")>>, proofs |-> {"p"}, contract |-> {"v"},
     enforced |-> {"v"},
     seeds |-> {[covers |-> "v", credits |-> FALSE, witness |-> "ledger"]}]

Revision(tables, manifest, committed, baseline) ==
    [values |-> tables.values, stray |-> tables.stray, locus |-> tables.locus,
     controlled |-> tables.controlled, proofs |-> tables.proofs, contract |-> tables.contract,
     enforced |-> tables.enforced, seeds |-> tables.seeds,
     manifest |-> manifest, committed |-> committed, baseline |-> baseline]

InitMain == Revision(Tables, Coverage!BuildManifest(Tables), TRUE, Coverage!Absent)

EditTree(t) == edits < MaxEdits /\ edits' = edits + 1 /\ pr' = t /\ UNCHANGED <<main, merges>>

\* The schema, the tables and the specs behind them.
EditSources ==
    \E t \in {[pr EXCEPT !.values = @ \cup {"n"}], [pr EXCEPT !.values = @ \ {"p"}],
              [pr EXCEPT !.stray = TRUE],
              [pr EXCEPT !.controlled = <<Experiment("n", "e")>> \o @],
              [pr EXCEPT !.controlled = <<Experiment("n", "n")>> \o @, !.locus = @ \cup {"n"}],
              [pr EXCEPT !.controlled = <<>>],
              [pr EXCEPT !.controlled = [i \in DOMAIN @ |-> [@[i] EXCEPT !.exact = FALSE]]],
              [pr EXCEPT !.controlled = [i \in DOMAIN @ |-> [@[i] EXCEPT !.applies = FALSE]]],
              [pr EXCEPT !.proofs = {}], [pr EXCEPT !.proofs = @ \cup {"v"}],
              [pr EXCEPT !.contract = {}], [pr EXCEPT !.enforced = {}],
              [pr EXCEPT !.values = @ \ {"g1"}],
              [pr EXCEPT !.seeds = {[covers |-> "v", credits |-> TRUE, witness |-> "ledger"]}],
              [pr EXCEPT !.seeds = {}]} : EditTree(t)

Regenerate ==
    ~Coverage!GeneratorRaises(pr) /\ EditTree([pr EXCEPT !.manifest = Coverage!BuildManifest(pr)])

\* By hand: the manifest disowns what it does not cover, the baseline is banked, widened, deleted.
EditLedgers ==
    \E t \in {[pr EXCEPT !.manifest.uncovered = {}], [pr EXCEPT !.committed = FALSE],
              [pr EXCEPT !.manifest.cells = {c \in @ : c.kind # "seed"}],
              [pr EXCEPT !.baseline = [present |-> TRUE, uncovered |-> pr.manifest.uncovered]],
              [pr EXCEPT !.baseline = [@ EXCEPT !.uncovered = @ \cup {"n"}]],
              [pr EXCEPT !.baseline = Coverage!Absent]} : EditTree(t)

\* The CI names the base; a shallow checkout of it fails.
Merge ==
    /\ merges < MaxMerges
    /\ \E ref \in {"explicit", "shallow"} : Coverage!Check(pr, ref, main.baseline) = {}
    /\ main' = pr /\ merges' = merges + 1 /\ edits' = 0 /\ UNCHANGED pr

CoverageNext ==
    /\ flow = "coverage" /\ (EditSources \/ Regenerate \/ EditLedgers \/ Merge)
    /\ UNCHANGED <<flow, matrixVars, judged>>

(***************************************************************************)
(* Matrix.  One result name: its envelope and its three evidence files.    *)
(***************************************************************************)
Causes == {Ok, "governed_refusal", "semantic_mismatch", "compile_failure"}
MatrixCell(id, scenario) == [id |-> id, spec |-> "s", scenario |-> scenario]
Builds == {[versionOk |-> v, fieldsOk |-> TRUE, targets |-> t] :
             v \in BOOLEAN, t \in {{"solidity"}, {"solidity", "postgres"}}}

\* The cases of the envelope that has the first cell's identity, in manifest order.
Grouped(cells, causes, adapters) ==
    LET same(i) == EnvelopeIdentity(cells[i], adapters, "v") = EnvelopeIdentity(cells[1], adapters, "v")
    IN  <<Case(cells[1], causes[1])>> \o (IF same(2) THEN <<Case(cells[2], causes[2])>> ELSE <<>>)

NoBody == BuildEnvelope(<<>>, {})
NoTrace == Trace(NoBody)
NoPackage == [trace |-> NoTrace, signed |-> FALSE]
NoReport == [trace |-> NoTrace, package |-> NoPackage, ok |-> FALSE, signed |-> FALSE]
NoFiles ==
    [have |-> {}, env |-> [body |-> NoBody, bound |-> FALSE, refs |-> [package |-> NoPackage, report |-> NoReport]],
     trace |-> NoTrace, package |-> NoPackage, report |-> NoReport]
NoRun == [pc |-> "idle", body |-> NoBody]

Write(name, f) == files' = [f EXCEPT !.have = @ \cup {name}]

RunMatrix ==
    /\ job.pc = "idle" /\ runs < MaxRuns
    /\ \E build \in Builds, scenario \in {"n", "m"}, second \in Causes :
          LET first == IF scenario = "m" THEN "governed_refusal" ELSE Ok
              adapters == IF second = Ok THEN NeuAdapters([compile |-> [b \in {"solidity", "postgres"} |-> "pass"]])
                          ELSE BindingAdapters
              cells == <<MatrixCell("c1", "n"), MatrixCell("c2", scenario)>>
          IN /\ ProvenanceRefusal(build) = Ok
             /\ job' = [pc |-> "trace", body |-> BuildEnvelope(Grouped(cells, <<first, second>>, adapters), adapters)]
    /\ runs' = runs + 1 /\ UNCHANGED <<files, emitted, admitted>>

\* build_run_evidence: trace, package and report, then run_matrix writes the envelope.
BuildRunEvidence ==
    LET trace == Trace(job.body)
        package == Package(trace)
        report == Report(trace, package)
    IN /\ \/ job.pc = "trace" /\ Write("trace", [files EXCEPT !.trace = trace])
             /\ job' = [job EXCEPT !.pc = "package"] /\ UNCHANGED emitted
          \/ job.pc = "package" /\ Write("package", [files EXCEPT !.package = package])
             /\ job' = [job EXCEPT !.pc = "report"] /\ UNCHANGED emitted
          \/ job.pc = "report" /\ Write("report", [files EXCEPT !.report = report])
             /\ job' = [job EXCEPT !.pc = "envelope"] /\ emitted' = emitted \cup {job.body}
          \/ /\ job.pc = "envelope"
             /\ Write("envelope", [files EXCEPT !.env = [body |-> job.body, bound |-> TRUE,
                                                        refs |-> [package |-> package, report |-> report]]])
             /\ job' = NoRun /\ UNCHANGED emitted
       /\ UNCHANGED <<runs, admitted>>

\* Without the verifier's sources there is no evidence and the envelope is unbound.
RunUnbound ==
    /\ job.pc = "trace"
    /\ Write("envelope", [files EXCEPT !.env = [body |-> job.body, bound |-> FALSE,
                                               refs |-> NoFiles.env.refs]])
    /\ job' = NoRun /\ UNCHANGED <<emitted, runs, admitted>>

Die == job.pc # "idle" /\ job' = NoRun /\ UNCHANGED <<files, emitted, runs, admitted>>

\* A hand edit cannot sign: it changes what a file says, never what was signed.
Forgeries(b) ==
    {[b EXCEPT !.status = "PASS"], [b EXCEPT !.verdict = "FAITHFUL"],
     BuildEnvelope([i \in DOMAIN b.cases |-> [b.cases[i] EXCEPT !.cause = Ok]], b.adapters),
     [b EXCEPT !.malformed = {"absent"}],
     [b EXCEPT !.cases = <<>>], [b EXCEPT !.profile = "NIGHTLY"],
     [b EXCEPT !.adapters = {a \in @ : ~a.required}]}
HandEdit ==
    /\ job.pc = "idle" /\ edits < MaxHandEdits /\ edits' = edits + 1
    /\ \E b \in Forgeries(files.env.body) :
          \/ "envelope" \in files.have /\ files' = [files EXCEPT !.env.body = b]
          \/ "trace" \in files.have /\ files' = [files EXCEPT !.trace = Trace(b)]
          \/ "package" \in files.have
             /\ files' = [files EXCEPT !.package = [trace |-> Trace(b), signed |-> FALSE]]
          \/ "report" \in files.have
             /\ files' = [files EXCEPT !.report = [@ EXCEPT !.trace = Trace(b), !.signed = FALSE]]
          \/ "envelope" \in files.have
             /\ files' = [files EXCEPT !.env.refs = [package |-> files.package, report |-> files.report]]
    /\ UNCHANGED <<main, pr, merges, emitted, job, runs, admitted>>

Gate ==
    /\ files.have = {"trace", "package", "report", "envelope"}
    /\ \E verifier \in BOOLEAN :
          admitted' = [done |-> TRUE, ok |-> GateDiagnostics(files, verifier) = {},
                       body |-> files.env.body]
    /\ UNCHANGED <<files, emitted, job, runs>>

MatrixNext ==
    /\ flow = "matrix"
    /\ \/ (RunMatrix \/ BuildRunEvidence \/ RunUnbound \/ Die \/ Gate) /\ UNCHANGED coverageVars
       \/ HandEdit
    /\ UNCHANGED <<flow, judged>>

(***************************************************************************)
(* Prover.  Specs, proofs and tools of one locus.                          *)
(***************************************************************************)
Bases(locus) ==
    LET base == [found |-> TRUE, value |-> "base", guards |-> TRUE, taken |-> FALSE,
                 requirements |-> TRUE, mirror |-> None, evidence |-> FALSE, chained |-> FALSE,
                 terminal |-> IF locus = "lifecycleState" THEN "closed" ELSE None,
                 tamperable |-> TRUE, identity |-> <<>>, raised |-> FALSE]
    IN {base, [base EXCEPT !.found = FALSE], [base EXCEPT !.guards = FALSE],
        [base EXCEPT !.taken = TRUE], [base EXCEPT !.requirements = FALSE],
        [base EXCEPT !.terminal = None], [base EXCEPT !.terminal = "other"],
        [base EXCEPT !.tamperable = FALSE]}

Proof(locus) ==
    [locus |-> locus, cellValue |-> "x", controlValue |-> "y", cellTopology |-> "tx",
     controlTopology |-> "ty", chained |-> TRUE, state |-> "closed", tamperState |-> "voided",
     field |-> "minAssurance", expected |-> Accepts, controlExpected |-> Mismatch]

ToolReports ==
    {[ok |-> TRUE, codes |-> <<>>], [ok |-> FALSE, codes |-> <<"mismatch">>],
     [ok |-> FALSE, codes |-> <<"spec.schema">>], [ok |-> FALSE, codes |-> <<"mismatch", "spec.schema">>]}
Roles == {"cell", "control", "tampered"}
Consumers(locus) ==
    IF locus \in {"participant", "observerSet"} THEN [Roles -> ToolReports]
    ELSE {[r \in Roles |-> [ok |-> TRUE, codes |-> <<>>]]}
Renderers(locus) == IF locus \in {"observerSet", "lifecycleState"} THEN {"exact"} ELSE Renderings

Judge ==
    /\ flow = "prover" /\ judged.locus = "none"
    /\ \E locus \in Loci :
       \E base \in Bases(locus), rc \in Renderers(locus), rk \in Renderers(locus),
          spec \in [Roles -> ToolReports], consumer \in Consumers(locus),
          field \in IF locus = "participant" THEN {"minAssurance", "other"} ELSE {"minAssurance"} :
          /\ locus \in {"participant", "observerSet"} =>
                spec.tampered = [ok |-> TRUE, codes |-> <<>>]
          /\ LET proof == [Proof(locus) EXCEPT !.field = field]
                 tool == [renderCell |-> rc, renderControl |-> rk, spec |-> spec, consumer |-> consumer]
             IN judged' = [judged EXCEPT !.locus = locus, !.runner = RunnerCause(proof, base, tool),
                                         !.prover = ProverBad(proof, base, tool)]
    /\ UNCHANGED <<flow, coverageVars, matrixVars>>

\* A .neu cell and a validator-contract cell; what the rails really did goes on record.
JudgeNeu ==
    /\ flow = "prover" /\ judged.locus = "none"
    /\ \E exit \in [{"reference", "solidity", "postgres"} -> {0, 2, 3, 4}],
          shared \in {{}, {"k"}, {"other"}}, lone \in SUBSET {"k"}, timedOut, controlSame \in BOOLEAN,
          compile \in [{"solidity", "postgres"} -> {"pass", "skip", "fail_compile", "fail_runtime"}],
          differential \in {"ok", "bad"},
          cell \in [refusal : BOOLEAN, code : {None, "k"}] :
          LET obs == [exit |-> exit, timedOut |-> timedOut, differential |-> differential,
                      compile |-> compile, controlSame |-> controlSame,
                      codes |-> [r \in DOMAIN exit |-> shared \cup IF r = "reference" THEN lone ELSE {}]]
          IN judged' = [judged EXCEPT !.locus = "neu", !.runner = VerdictNeu(cell, obs), !.prover = @,
                        !.ran = /\ \A r \in DOMAIN exit : exit[r] = 0
                                /\ \A b \in DOMAIN compile : compile[b] = "pass",
                        !.refused = /\ \A r \in DOMAIN exit : exit[r] \in {3, 4}
                                    /\ shared # {} /\ (cell.code # None => cell.code \in shared)]
    /\ UNCHANGED <<flow, coverageVars, matrixVars>>

JudgeBinding ==
    /\ flow = "prover" /\ judged.locus = "none"
    /\ \E obs \in [timedOut : BOOLEAN, validOk : BOOLEAN, located : BOOLEAN, invalidOk : BOOLEAN,
                   coded : BOOLEAN] :
          LET tree == [Tables EXCEPT !.enforced =
                         IF obs.validOk /\ obs.located /\ ~obs.invalidOk /\ obs.coded THEN {"v"} ELSE {}]
              bad == Coverage!ProveBinding(Coverage!BuildManifest(tree), tree)
          IN /\ ~obs.timedOut
             /\ judged' = [judged EXCEPT !.locus = "contract", !.runner = VerdictBinding(obs),
                                         !.prover = IF bad = {} THEN Ok ELSE "not enforced"]
    /\ UNCHANGED <<flow, coverageVars, matrixVars>>

\* A crediting cell realized beside its control; whether its feature made the difference goes on record.
JudgeWitness ==
    /\ flow = "prover" /\ judged.locus = "none"
    /\ \E witness \in {"ledger", "refusal"}, mutation \in {"e", "n"}, exact, applies \in BOOLEAN,
          obs \in [{"cell", "control"} -> [exit : {0, 1, 4}, model : {"m", "k"}, coded : BOOLEAN]] :
          LET experiment == [Experiment("e", mutation) EXCEPT
                               !.witness = witness, !.exact = exact, !.applies = applies]
              tree == [Tables EXCEPT !.controlled = <<experiment>>, !.locus = {"e", "n"}]
              cell == CHOOSE c \in Coverage!BuildControlledCells(tree) : TRUE
          IN judged' = [judged EXCEPT !.locus = "witness",
                          !.prover = FirstOf(<<Coverage!ProveWitness(cell, tree, obs)>>),
                          !.ran = /\ mutation = "e" /\ exact /\ applies
                                  /\ IF witness = "ledger"
                                     THEN obs.cell.exit = 0 /\ obs.control # obs.cell
                                     ELSE obs.cell.exit = 4 /\ obs.cell.coded /\ ~obs.control.coded]
    /\ UNCHANGED <<flow, coverageVars, matrixVars>>

-----------------------------------------------------------------------------
Init ==
    /\ flow \in {"coverage", "matrix", "prover"}
    /\ main = InitMain /\ pr = InitMain /\ edits = 0 /\ merges = 0
    /\ files = NoFiles /\ emitted = {} /\ job = NoRun /\ runs = 0
    /\ admitted = [done |-> FALSE, ok |-> FALSE, body |-> NoBody]
    /\ judged = [locus |-> "none", runner |-> Ok, prover |-> Ok, ran |-> TRUE, refused |-> FALSE]

Next == CoverageNext \/ MatrixNext \/ Judge \/ JudgeNeu \/ JudgeBinding \/ JudgeWitness
Spec == Init /\ [][Next]_vars

-----------------------------------------------------------------------------
(***************************************************************************)
(* On main, once it has a baseline, the features the baseline does not     *)
(* admit as uncovered are those with a controlled experiment that perturbs *)
(* that very feature, or with a closed consume proof.  The gate reads the  *)
(* manifest, which the generator wrote, and the generator is edited in the *)
(* same pull request.                                                      *)
(***************************************************************************)
Witnessed(t) ==
    {c.covers : c \in {x \in Names(t.controlled) : x.mutation = x.covers /\ x.exact}}
    \cup t.proofs \cup (t.values \cap {"g1", "g2"})
MainCoverageIsWitnessed ==
    main.baseline.present => main.baseline.uncovered = main.values \ Witnessed(main)

(***************************************************************************)
(* The uncovered set of main never grows: no merge makes an uncovered      *)
(* feature, by adding one to the schema or by losing the cell that covered *)
(* it, even if the pull request widens the baseline as well.               *)
(***************************************************************************)
CoverageStep ==
    main.baseline.present =>
        /\ main'.baseline.present
        /\ main'.values \ Witnessed(main') \subseteq main.values \ Witnessed(main)
UncoveredNeverGrows == [][CoverageStep]_main

(***************************************************************************)
(* What the PR-fast gate admits was signed by a run, and that run saw only *)
(* faithful and governed-refusal cases, at least one of them faithful,     *)
(* whatever was overwritten, edited or left half-written in between.       *)
(***************************************************************************)
GateAdmitsOnlyHonest ==
    admitted.ok =>
        /\ admitted.body \in emitted
        /\ \A i \in DOMAIN admitted.body.cases :
              admitted.body.cases[i].cause \in {Ok, "governed_refusal"}
        /\ \E i \in DOMAIN admitted.body.cases : admitted.body.cases[i].cause = Ok

(***************************************************************************)
(* The matrix runner and the offline prover accept the same consume proofs.*)
(* They are two implementations of one judgement, over the same tools.     *)
(***************************************************************************)
ProverAgrees == judged.locus \in Loci \cup {"contract"} => ((judged.runner = Ok) <=> (judged.prover = Ok))

(***************************************************************************)
(* A .neu case is FAITHFUL only if the reference and both rails accepted   *)
(* and both rails were really compiled, and REFUSED only if all three      *)
(* refused under one common code, the declared one if there is one: a rail *)
(* that was skipped or that disagrees never hides behind the others.  A    *)
(* crediting cell is proved only if its own feature made the difference to *)
(* its control, a refusal with its code in the cell alone.                 *)
(***************************************************************************)
PassesAreEarned ==
    /\ judged.locus = "neu" => /\ judged.runner = Ok => judged.ran
                               /\ judged.runner = "governed_refusal" => judged.refused
    /\ judged.locus = "witness" /\ judged.prover = Ok => judged.ran
=============================================================================
