----------------------------- MODULE PressureLoop -----------------------------
(***************************************************************************)
(* scripts/generators/run_pressure_loop_forcing.py: the runner drives the  *)
(* compiler through a list of fixtures, writes a proof for each into the   *)
(* evidence directory as it goes, and at the end validates the register of *)
(* its rows and publishes it with one rename.  It may refuse at any        *)
(* fixture, or be killed at any step, and is then run again, against the   *)
(* tools and fixtures as they are by then.                                 *)
(*                                                                         *)
(* What a tool run shows is the set of the ways in which it differs from   *)
(* what the fixture expects; {} is the expected observation.               *)
(***************************************************************************)
EXTENDS Refusals

-----------------------------------------------------------------------------
(***************************************************************************)
(* The pressure-loop register and its mutation protocol:                   *)
(*   scripts/validators/validate_pressure_loop_register.py                 *)
(*   scripts/gates/check_pressure_loop_mutation_protocol.py                *)
(* A register is [version, rows]; a nullable text is Null or a value; an   *)
(* evidence ref is a pair of a type and a file.                            *)
(***************************************************************************)

Null == "null"
Text == "text"

Outcomes == {"accepted", "unresolved"}
Classes == {"1", "2", "3", Null}
DecisionDispositions == {"LANGUAGE_DECISION_REQUIRED", "LAYER_DECISION_REQUIRED"}
OrthogonalDispositions == {"L3_RUNTIME", "DESCRIPTIVE_ONLY"}
Dispositions == {"L1_CORE", "L2_REFINEMENT", "UNSUPPORTED_REFUSED"}
                \cup DecisionDispositions \cup OrthogonalDispositions
Tiers == {"1", "2", "3"}
Supports == {"present", "partial", "absent"}

BaseRow(id, req, tier) ==
    [rowId |-> id, requirement |-> req, tier |-> tier, extra |-> FALSE,
     outcome |-> "accepted", class |-> Null, disposition |-> "L1_CORE",
     failed |-> Null, counterexample |-> Null, decision |-> Null,
     support |-> "absent", operation |-> Null, refs |-> <<>>]

HasEvidence(row, type) == \E i \in DOMAIN row.refs : row.refs[i].type = type

EnumErrors(row) ==
    \/ row.outcome \notin Outcomes \/ row.class \notin Classes
    \/ row.disposition \notin Dispositions \/ row.support \notin Supports
    \/ row.tier \notin Tiers

\* The rules that tie a row's fields together; siblings are the other rows.
RowCodes(row, siblings) ==
    LET classed == row.class \in {"1", "2", "3"}
        decides == row.disposition \in DecisionDispositions
    IN AllOf({
      Refuse("unknown_field", row.extra),
      Refuse("enum", EnumErrors(row)),
      Refuse("duplicate_evidence_ref", ~NoDuplicates(row.refs)),
      Refuse("accepted_class", (row.outcome = "accepted") # (row.class = Null)),
      Refuse("unresolved_obligation",
             \/ row.outcome = "unresolved" /\ (~classed \/ row.failed = Null)
             \/ classed /\ (row.outcome # "unresolved" \/ row.failed = Null)),
      Refuse("decision_contract", decides /\ row.class # "3"),
      Refuse("decision_counterexample", decides /\ row.counterexample = Null),
      Refuse("linked_decision", decides /\ row.decision = Null),
      Refuse("unsupported_refused",
             /\ row.disposition = "UNSUPPORTED_REFUSED"
             /\ \/ row.support # "absent" \/ row.outcome # "unresolved"
                \/ ~HasEvidence(row, "refusal")),
      Refuse("support_artifact",
             /\ row.support \in {"present", "partial"}
             /\ row.operation = Null \/ ~HasEvidence(row, "executable")),
      Refuse("partial_sibling",
             /\ row.support = "partial"
             /\ ~\E r \in siblings : r.support = "absent" /\ r.requirement = row.requirement),
      Refuse("absent_artifact", row.support = "absent" /\ row.operation # Null),
      Refuse("orthogonal_disposition",
             /\ row.disposition \in OrthogonalDispositions
             /\ \/ row.class # Null \/ row.outcome # "accepted" \/ row.failed # Null
                \/ row.counterexample # Null \/ row.decision # Null
                \/ row.operation # Null \/ row.support # "absent" \/ row.refs # <<>>)})

ValidateObj(reg) ==
    AllOf({Refuse("schema_version", reg.version # 2),
           Refuse("schema", reg.rows = <<>>),
           Refuse("duplicate_row",
                  ~NoDuplicates([i \in DOMAIN reg.rows |-> reg.rows[i].rowId]))})
    \cup UNION {RowCodes(reg.rows[i], {reg.rows[j] : j \in DOMAIN reg.rows \ {i}}) :
                  i \in DOMAIN reg.rows}

Ref(type, file) == [type |-> type, file |-> file]

GoodRegister ==
    [version |-> 2, rows |-> <<
       [BaseRow("r1", "observation", "1") EXCEPT !.support = "present",
           !.operation = Text, !.refs = <<Ref("executable", "f1")>>],
       [BaseRow("r2", "settlement", "2") EXCEPT !.disposition = "L2_REFINEMENT",
           !.support = "partial", !.operation = Text, !.refs = <<Ref("executable", "f2")>>],
       [BaseRow("r3", "settlement", "2") EXCEPT !.outcome = "unresolved", !.class = "2",
           !.disposition = "UNSUPPORTED_REFUSED", !.failed = Text,
           !.refs = <<Ref("refusal", "f3")>>],
       [BaseRow("r4", "lifecycle", "2") EXCEPT !.outcome = "unresolved", !.class = "3",
           !.disposition = "LAYER_DECISION_REQUIRED", !.failed = Text,
           !.counterexample = Text, !.decision = Text],
       [BaseRow("r5", "telemetry", "1") EXCEPT !.disposition = "L3_RUNTIME"]>>]

\* selftest and the probes: a changed register and the code it must get.
RegisterProbes ==
    LET G == GoodRegister
        P(reg, code) == [doc |-> reg, code |-> code]
    IN <<P([G EXCEPT !.version = 1], "schema_version"),
         P([G EXCEPT !.rows[1].class = "1"], "accepted_class"),
         P([G EXCEPT !.rows[3].failed = Null], "unresolved_obligation"),
         P([G EXCEPT !.rows[4].class = "2"], "decision_contract"),
         P([G EXCEPT !.rows[4].counterexample = Null], "decision_counterexample"),
         P([G EXCEPT !.rows[4].decision = Null], "linked_decision"),
         P([G EXCEPT !.rows[3].refs = <<>>], "unsupported_refused"),
         P([G EXCEPT !.rows[1].refs = <<>>], "support_artifact"),
         P([G EXCEPT !.rows[1].operation = Null], "support_artifact"),
         P([G EXCEPT !.rows[3].requirement = "other"], "partial_sibling"),
         P([G EXCEPT !.rows[5].operation = Text], "orthogonal_disposition"),
         P([G EXCEPT !.rows[1].outcome = "maybe"], "enum"),
         P([G EXCEPT !.rows[1].tier = "9"], "enum"),
         P([G EXCEPT !.rows[2].rowId = "r1"], "duplicate_row"),
         P([G EXCEPT !.rows[1].refs = @ \o @], "duplicate_evidence_ref"),
         P([G EXCEPT !.rows[1].extra = TRUE], "unknown_field")>>

-----------------------------------------------------------------------------
(***************************************************************************)
(* The mutation protocol: every case mutates a copy of the base register   *)
(* and must draw the diagnostic it expects.                                *)
(***************************************************************************)
RequiredCategories ==
    {"dropped-obligation", "binding-moved", "backend-inference", "terminal-removed",
     "correlated-evidence"}
MinCases == 5
Waist == "coordination-waist"

RowsNamed(reg, id) == {i \in DOMAIN reg.rows : reg.rows[i].rowId = id}

\* rows of one id share their loci; refs shared by two ids are correlated.
ProtocolDiagnostics(reg, loci) ==
    AllOf({Refuse("backend_inference", \E id \in DOMAIN loci : loci[id] # Waist),
           Refuse("correlated_evidence",
                  \E i, j \in DOMAIN reg.rows :
                     /\ reg.rows[i].rowId # reg.rows[j].rowId
                     /\ Names(reg.rows[i].refs) \cap Names(reg.rows[j].refs) # {})})

AssertUnrepresentableIndependence(reg, id) ==
    AllOf({Refuse("independence_contract",
             ~\E i \in RowsNamed(reg, id) :
                LET row == reg.rows[i]
                IN  /\ row.outcome = "unresolved" /\ row.class = "3"
                    /\ row.disposition \in DecisionDispositions
                    /\ row.operation = Null /\ row.refs = <<>> /\ row.failed # Null
                    /\ row.counterexample # Null /\ row.decision # Null)})

ValidateMutationShape(mut) ==
    AllOf({Refuse("mutation_schema",
             \/ mut.op \notin {"drop-row", "set-field", "set-evidence-locus", "copy-evidence-ref"}
             \/ mut.extra \/ mut.value = "not-a-string")})

\* What a mutation makes of the register and the loci, or an apply error.
ApplyMutation(reg, loci, mut) ==
    LET found == RowsNamed(reg, mut.rowId)
        from  == RowsNamed(reg, mut.fromRowId)
        Pair(r, l) == [codes |-> {}, reg |-> r, loci |-> l]
        Failed == [codes |-> {"apply"}, reg |-> reg, loci |-> loci]
    IN  IF found = {} THEN Failed
        ELSE LET i == CHOOSE x \in found : TRUE
             IN CASE mut.op = "drop-row" ->
                       Pair([reg EXCEPT !.rows = SelectSeq(@, LAMBDA r : r.rowId # mut.rowId)], loci)
                  [] mut.op = "set-field" ->
                       Pair([reg EXCEPT !.rows[i] = [@ EXCEPT ![mut.field] = mut.value]], loci)
                  [] mut.op = "set-evidence-locus" ->
                       Pair(reg, [loci EXCEPT ![mut.rowId] = mut.value])
                  [] mut.op = "copy-evidence-ref" ->
                       IF \A j \in from : reg.rows[j].refs = <<>> THEN Failed
                       ELSE LET j == CHOOSE x \in from : reg.rows[x].refs # <<>>
                            IN  Pair([reg EXCEPT !.rows[i].refs = <<reg.rows[j].refs[1]>>], loci)

ValidateProtocol(p) ==
    AllOf({Refuse("schema_version", p.version # 1),
           Refuse("base_register", ValidateObj(p.base) # {}),
           Refuse("zero_case", Len(p.cases) < MinCases),
           Refuse("duplicate_case",
                  ~NoDuplicates([i \in DOMAIN p.cases |-> p.cases[i].caseId])),
           Refuse("category", \E c \in Names(p.cases) : c.category \notin RequiredCategories),
           Refuse("missing_category",
                  RequiredCategories # {c.category : c \in Names(p.cases)} \cap RequiredCategories)})
    \cup AssertUnrepresentableIndependence(p.base, p.independent)
    \cup UNION {ValidateMutationShape(c.mutation) : c \in Names(p.cases)}

Loci(reg) == [id \in {reg.rows[i].rowId : i \in DOMAIN reg.rows} |-> Waist]

CaseCodes(base, case) ==
    LET done == ApplyMutation(base, Loci(base), case.mutation)
    IN  IF done.codes # {} THEN done.codes
        ELSE ValidateObj(done.reg) \cup ProtocolDiagnostics(done.reg, done.loci)

CheckProtocol(p) ==
    IF ValidateProtocol(p) # {} THEN ValidateProtocol(p)
    ELSE AllOf({Refuse("not_caught",
                 \E c \in Names(p.cases) : c.expected \notin CaseCodes(p.base, c))})

Mut(op, id, field, value, from) ==
    [op |-> op, rowId |-> id, field |-> field, value |-> value, fromRowId |-> from,
     extra |-> FALSE]
Case(id, category, mutation, expected) ==
    [caseId |-> id, category |-> category, mutation |-> mutation, expected |-> expected]

GoodProtocol ==
    [version |-> 1, base |-> GoodRegister, independent |-> "r4", cases |-> <<
       Case("c1", "dropped-obligation", Mut("drop-row", "r3", "", "", ""), "partial_sibling"),
       Case("c2", "binding-moved", Mut("set-field", "r5", "operation", Text, ""),
            "orthogonal_disposition"),
       Case("c3", "backend-inference", Mut("set-evidence-locus", "r1", "", "backend", ""),
            "backend_inference"),
       Case("c4", "terminal-removed", Mut("set-field", "r4", "counterexample", Null, ""),
            "decision_counterexample"),
       Case("c5", "correlated-evidence", Mut("copy-evidence-ref", "r2", "", "", "r1"),
            "correlated_evidence")>>]

FabricatedIndependence ==
    [GoodRegister EXCEPT !.rows[4] =
        [BaseRow("r4", "lifecycle", "2") EXCEPT !.support = "present", !.operation = Text,
            !.refs = <<Ref("executable", "fabricated")>>]]

ProtocolProbes ==
    LET G == GoodProtocol
        P(p, code) == [doc |-> p, code |-> code]
    IN <<P([G EXCEPT !.cases = <<>>], "zero_case"),
         P([G EXCEPT !.cases = SubSeq(@, 1, 4)], "missing_category"),
         P([G EXCEPT !.cases[1].expected = "never"], "not_caught"),
         P([G EXCEPT !.base = FabricatedIndependence], "independence_contract"),
         P([G EXCEPT !.cases[1].mutation.extra = TRUE], "mutation_schema"),
         P([G EXCEPT !.cases[3].mutation.value = "not-a-string"], "mutation_schema")>>

-----------------------------------------------------------------------------
(* The forcing run                                                         *)

CONSTANTS
    FixtureLists,  \* the fixture documents the runner may be given
    Worlds,        \* the sets of defects a run may meet
    MaxRuns

VARIABLES
    world,     \* fixtures: the list; defects: the set now in force; cited: the
               \* gap facts of the committed companion proof
    job,       \* the runner: pc, rows so far, proofs observed in this run
    disk,      \* evidence per file, the published register, its temporary file
    runs       \* how many runs were started

vars == <<world, job, disk, runs>>

-----------------------------------------------------------------------------
(***************************************************************************)
(* The observations, as checks in source order.                            *)
(***************************************************************************)
If(code, d) == Refuse(code, code \in d)
In_order(codes, d) == FirstOf([i \in DOMAIN codes |-> If(codes[i], d)])

ObserveRepresentable(d) ==
    In_order(<<"missing-source", "representable-fails", "trace-parity", "tampered-trace">>, d)

\* Mutant: the counterexample of an unregistered feature is forgotten.
WithoutCounterexample ==
    [unregistered |-> [class |-> "3", disposition |-> "LANGUAGE_DECISION_REQUIRED",
                       counterexample |-> Null, decision |-> Text],
     unsupported  |-> [class |-> "2", disposition |-> "UNSUPPORTED_REFUSED",
                       counterexample |-> Null, decision |-> Null]]

\* The diagnostic a failing tool prints, and what it maps to.
DiagnosticMap ==
    [unregistered |-> [class |-> "3", disposition |-> "LANGUAGE_DECISION_REQUIRED",
                       counterexample |-> Text, decision |-> Text],
     unsupported  |-> [class |-> "2", disposition |-> "UNSUPPORTED_REFUSED",
                       counterexample |-> Null, decision |-> Null]]

ParseDiagnostic(d) ==
    IF "unknown-diagnostic" \in d THEN {}
    ELSE IF "unsupported-target" \in d THEN {"unsupported"} ELSE {"unregistered"}

ObserveFailedReduction(d) ==
    FirstOf(<<If("reduction-succeeds", d), If("unknown-diagnostic", d),
              If("wrong-diagnostic", d),
              \* no counterexample template: the row cannot be formatted
              Refuse("key-error", ParseDiagnostic(d) = {"unsupported"})>>)

\* The boundary: nothing dispatched on the refused path.
RequireRefusedNoDispatch(d) ==
    In_order(<<"refusal-succeeds", "dispatch-on-reject", "no-manifest">>, d)

ObserveRefusal(d) ==
    In_order(<<"backend-dispatch-refusal", "no-target", "refusal-succeeds",
               "wrong-refusal-target">>, d)

\* observe_orchestration_overload: authority and inputs, the leaf's plan, ...
OrchestrationLeaf ==
    <<"authority-missing", "missing-source", "leaf-fails", "leaf-attestations", "loss-witness">>
\* ... its reduction, ...
OrchestrationReduction ==
    <<"l2-fails", "wrong-binding", "lossiness-drift", "permutation-mismatch",
      "recursive-succeeds", "recursive-anchor-drift">>
\* ... the ordered variant, the terminals and the two scenarios.
OrchestrationExecution ==
    <<"refusal-succeeds", "dispatch-on-reject", "no-manifest", "ordered-code-drift",
      "anchor-drift", "wrong-terminal", "met-posts-nothing", "miss-posts", "timeout-drift">>
ObserveOrchestrationOverload(d) ==
    In_order(OrchestrationLeaf \o OrchestrationReduction \o OrchestrationExecution, d)

PayForResultPlan ==
    <<"authority-missing", "missing-source", "reduce-fails", "unbalanced", "effects-differ",
      "group-differs", "wrong-policy", "terminal-wrong", "replay-missing">>
PayForResultParity ==
    <<"attestation-drift", "spec-effects-differ", "coordination-parity", "l2-parity",
      "l2-feature-drift", "lossiness-drift">>
PayForResultExecution ==
    <<"accepted-no-settle", "wrong-effect", "wrong-posted-key", "trace-parity",
      "rejected-trace-parity", "rejected-settles", "refusal-succeeds", "dispatch-on-reject",
      "no-manifest", "balance-anchor-drift">>
ObservePayForResult(d) ==
    In_order(PayForResultPlan \o PayForResultParity \o PayForResultExecution, d)

(***************************************************************************)
(* A tooling gap rests on the companion's proof of this run, and on a      *)
(* committed one that states the same gap.                                 *)
(***************************************************************************)
ValidatePayForResultExecutionGap(proof, companion) ==
    FirstOf(<<Refuse("not companion", proof.rowId # companion),
              Refuse("gap drifted", proof.gap # "declared-not-executed")>>)

\* Mutant: the committed proof is enough, whatever this run observed.
GapTrustsCommitted(f, observed, cited, d) == IF cited = {} THEN "does not exist" ELSE Ok

ObserveToolingGap(f, observed, cited, d) ==
    FirstOf(<<
      Refuse("not observed in this run", ~\E p \in observed : p.rowId = f.companion),
      Refuse("does not exist", cited = {}),
      Refuse("observed gap", \E p \in observed : p.rowId = f.companion /\
                                ValidatePayForResultExecutionGap(p, f.companion) # Ok),
      Refuse("cited gap", \E c \in cited : ValidatePayForResultExecutionGap(c, f.companion) # Ok),
      Refuse("cited differs", \E c \in cited, p \in observed :
                                p.rowId = f.companion /\ c.facts # p.facts),
      If("expected-gap-drift", d)>>)

Observe(f, observed, cited, d) ==
    CASE f.path = "representable"          -> ObserveRepresentable(d)
      [] f.path = "failed-reduction"       -> ObserveFailedReduction(d)
      [] f.path = "refusal"                -> ObserveRefusal(d)
      [] f.path = "orchestration-overload" -> ObserveOrchestrationOverload(d)
      [] f.path = "pay-for-result"         -> ObservePayForResult(d)
      [] f.path = "tooling-gap"            -> ObserveToolingGap(f, observed, cited, d)
      [] f.path = "orthogonal"             -> Ok

(***************************************************************************)
(* The selftests' stub tools: each mode is one way to differ, and each     *)
(* must make its path refuse.                                              *)
(***************************************************************************)
StubModes ==
    {[path |-> "representable", mode |-> m] :
       m \in {"missing-source", "tampered-trace", "representable-fails"}}
    \cup {[path |-> "failed-reduction", mode |-> m] :
            m \in {"reduction-succeeds", "wrong-diagnostic"}}
    \cup {[path |-> "refusal", mode |-> m] :
            m \in {"wrong-refusal-target", "backend-dispatch-refusal"}}

OrchestrationModes ==
    {[path |-> "orchestration-overload", mode |-> m] :
       m \in {"leaf-fails", "l2-fails", "wrong-binding", "lossiness-drift",
              "permutation-mismatch", "recursive-succeeds", "refusal-succeeds",
              "loss-witness", "dispatch-on-reject", "wrong-terminal", "timeout-drift",
              "anchor-drift", "ordered-code-drift", "recursive-anchor-drift",
              "authority-missing", "miss-posts"}}

PayForResultModes ==
    {[path |-> "pay-for-result", mode |-> m] :
       m \in {"reduce-fails", "unbalanced", "effects-differ", "wrong-policy",
              "terminal-wrong", "replay-missing", "attestation-drift",
              "coordination-parity", "l2-parity", "l2-feature-drift", "lossiness-drift",
              "accepted-no-settle", "trace-parity", "rejected-trace-parity",
              "wrong-posted-key", "wrong-effect", "rejected-settles", "refusal-succeeds",
              "balance-anchor-drift", "authority-missing"}}

ForcingProbes == StubModes \cup OrchestrationModes \cup PayForResultModes

-----------------------------------------------------------------------------
\* The proof files: two paths share the name <rowId>.proof.json.
ProofFile(f) ==
    CASE f.path \in {"representable", "refusal"} -> <<f.id, "proof">>
      [] f.path = "failed-reduction"             -> <<f.id, "reduction-diagnostic">>
      [] f.path = "orchestration-overload"       -> <<f.id, "orchestration-overload">>
      [] f.path = "pay-for-result"               -> <<f.id, "pay-for-result">>
      [] f.path \in {"tooling-gap", "orthogonal"} -> <<f.companion, "committed">>
ProofType(f) ==
    IF f.path \in {"representable", "pay-for-result", "tooling-gap"} THEN "executable"
    ELSE "refusal"
WritesProof(f) == f.path \notin {"tooling-gap", "orthogonal"}
Files == {ProofFile(f) : f \in UNION {Names(l) : l \in FixtureLists}}

EmitRow(f) ==
    LET row == BaseRow(f.id, f.requirement, f.tier)
        ref == <<Ref(ProofType(f), ProofFile(f))>>
        m == DiagnosticMap["unregistered"]
        r == DiagnosticMap["unsupported"]
        unresolved == [row EXCEPT !.outcome = "unresolved", !.failed = Text, !.refs = ref]
    IN CASE f.path = "representable" ->
              [row EXCEPT !.support = "present", !.operation = Text, !.refs = ref]
         [] f.path = "failed-reduction" ->
              [unresolved EXCEPT !.class = m.class, !.disposition = m.disposition,
                 !.counterexample = m.counterexample, !.decision = m.decision]
         [] f.path = "pay-for-result" ->
              [row EXCEPT !.support = "partial", !.operation = Text, !.decision = Text,
                 !.refs = ref]
         [] f.path = "tooling-gap" ->
              [unresolved EXCEPT !.class = "1", !.disposition = f.disposition,
                 !.counterexample = Text, !.decision = Text]
         [] f.path = "orchestration-overload" ->
              [unresolved EXCEPT !.class = "3", !.disposition = "LAYER_DECISION_REQUIRED",
                 !.counterexample = Text, !.decision = Text]
         [] f.path = "orthogonal" -> [row EXCEPT !.disposition = f.disposition]
         [] f.path = "refusal" ->
              [unresolved EXCEPT !.class = r.class, !.disposition = r.disposition]

\* The checks of emit_row before anything is observed.
FixtureCode(f) ==
    FirstOf(<<
      Refuse("unknown field", f.extra),
      Refuse("class", f.path = "tooling-gap" /\ f.disposition \notin {"L1_CORE", "L2_REFINEMENT"}),
      Refuse("disposition", f.path = "orthogonal" /\ f.disposition \notin OrthogonalDispositions)>>)

-----------------------------------------------------------------------------
NoRegister == [run |-> 0, rows |-> <<>>]
NoJob == [pc |-> "idle", rows |-> <<>>, observed |-> {}]

Init ==
    /\ \E l \in FixtureLists : world = [fixtures |-> l, defects |-> {}, cited |-> "same"]
    /\ job = NoJob
    /\ disk = [evidence |-> [x \in Files |-> [run |-> 0, type |-> Null]],
               register |-> NoRegister, tmp |-> NoRegister]
    /\ runs = 0

Cited(companion) ==
    IF world.cited = "missing" THEN {}
    ELSE {[rowId |-> companion, gap |-> "declared-not-executed", facts |-> world.cited]}

\* Other work between two runs: another fixture list, other tools.
Retool ==
    /\ job.pc = "idle" /\ runs \in 1..(MaxRuns - 1)
    /\ \E l \in FixtureLists, d \in Worlds,
          c \in {"same", "drift", "missing"} :
         world' = [fixtures |-> l, defects |-> d, cited |-> c]
    /\ UNCHANGED <<job, disk, runs>>

Begin ==
    /\ job.pc = "idle" /\ runs < MaxRuns
    /\ runs' = runs + 1
    /\ job' = [NoJob EXCEPT !.pc = "rows"]
    /\ UNCHANGED <<world, disk>>

\* die: the run ends with status 1; the evidence written so far stays.
Die == job' = NoJob

EmitOne ==
    /\ job.pc = "rows" /\ Len(job.rows) < Len(world.fixtures)
    /\ LET f == world.fixtures[Len(job.rows) + 1]
           code == IF FixtureCode(f) # Ok THEN FixtureCode(f)
                   ELSE Observe(f, job.observed, Cited(f.companion), world.defects)
           proof == [rowId |-> f.id, gap |-> "declared-not-executed", facts |-> "same"]
       IN  IF code # Ok THEN Die /\ UNCHANGED disk
           ELSE /\ job' = [job EXCEPT !.rows = Append(@, EmitRow(f)),
                             !.observed = IF f.path = "pay-for-result" THEN @ \cup {proof} ELSE @]
                /\ disk' = IF ~WritesProof(f) THEN disk
                           ELSE [disk EXCEPT !.evidence[ProofFile(f)] =
                                               [run |-> runs, type |-> ProofType(f)]]
    /\ UNCHANGED <<world, runs>>

\* emit_register: sort by row id, refuse a duplicate.
FinishRows ==
    /\ job.pc = "rows" /\ Len(job.rows) = Len(world.fixtures)
    /\ IF NoDuplicates([i \in DOMAIN job.rows |-> job.rows[i].rowId])
       THEN job' = [job EXCEPT !.pc = "validate"] ELSE Die
    /\ UNCHANGED <<world, disk, runs>>

Register == [version |-> 2, rows |-> job.rows]

ValidateRegister ==
    /\ job.pc = "validate"
    /\ IF ValidateObj(Register) = {} THEN job' = [job EXCEPT !.pc = "write"] ELSE Die
    /\ UNCHANGED <<world, disk, runs>>

\* atomic_write: the temporary file beside the register, then the rename.
WriteTmp ==
    /\ job.pc = "write"
    /\ job' = [job EXCEPT !.pc = "replace"]
    /\ disk' = [disk EXCEPT !.tmp = [run |-> runs, rows |-> job.rows]]
    /\ UNCHANGED <<world, runs>>

Replace ==
    /\ job.pc = "replace"
    /\ job' = NoJob
    /\ disk' = [disk EXCEPT !.register = disk.tmp, !.tmp = NoRegister]
    /\ UNCHANGED <<world, runs>>

Killed ==
    /\ job.pc # "idle"
    /\ Die
    /\ UNCHANGED <<world, disk, runs>>

Next ==
    \/ Retool \/ Begin \/ EmitOne \/ FinishRows \/ ValidateRegister
    \/ WriteTmp \/ Replace \/ Killed

Spec == Init /\ [][Next]_vars

-----------------------------------------------------------------------------
(***************************************************************************)
(* The register on disk is one whole validated run's, and while that run   *)
(* is the last one started, every evidence ref of it names a file written  *)
(* by the same run, of the type the row claims; a gap's ref names the      *)
(* committed proof of a companion whose partial row the same register has. *)
(* (A later run that dies part-way breaks the link: it has overwritten     *)
(* evidence in place, and the old register stays.)                         *)
(***************************************************************************)
RegisterRestsOnItsRun ==
    disk.register.run # 0 =>
        /\ ValidateObj([version |-> 2, rows |-> disk.register.rows]) = {}
        /\ disk.register.run = runs =>
             \A i \in DOMAIN disk.register.rows :
               \A ref \in Names(disk.register.rows[i].refs) :
                  IF ref.file[2] = "committed"
                  THEN \E j \in DOMAIN disk.register.rows :
                          /\ disk.register.rows[j].rowId = ref.file[1]
                          /\ disk.register.rows[j].support = "partial"
                  ELSE disk.evidence[ref.file] = [run |-> runs, type |-> ref.type]

(***************************************************************************)
(* The runner and the validator agree on what a row is: whatever the       *)
(* fixtures and the tools, a register the runner is about to validate can  *)
(* only be refused for what the fixtures say themselves, an unknown tier   *)
(* or a partial row without its absent sibling.                            *)
(***************************************************************************)
RunnerMeetsValidator ==
    job.pc = "validate" => ValidateObj(Register) \subseteq {"enum", "partial_sibling"}

=============================================================================
