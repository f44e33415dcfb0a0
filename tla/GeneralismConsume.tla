-------------------------- MODULE GeneralismConsume --------------------------
(***************************************************************************)
(* The consume proofs of the generalism matrix, twice in the source:       *)
(*   the matrix runner   scripts/generators/run_generalism_matrix.py       *)
(*   the offline prover  scripts/generators/gen_generalism_cells.py        *)
(* Both derive a cell, a control and a tampered document from a committed  *)
(* capability spec at one locus, hand them to the same tools and judge     *)
(* what the tools say.                                                     *)
(*                                                                         *)
(* A spec is what the locus needs of it: the named element and its field,  *)
(* the terminal state it is referred by, the requirements mirror, and the  *)
(* identity last computed.  A plan or topology is what a renderer made of  *)
(* it.  A tool's report is [ok, codes], the codes sorted.                  *)
(***************************************************************************)
EXTENDS Refusals

None == "none"

Loci == {"participant", "observerSet", "lifecycleState", "transition", "guard", "evidence"}

Content(spec) == [spec EXCEPT !.identity = <<>>]

\* capabilityHash leaves the requirements out, specHash covers the whole body.
RebuildIdentity(spec) ==
    [spec EXCEPT !.identity =
        <<[Content(spec) EXCEPT !.requirements = FALSE, !.mirror = None], Content(spec)>>]

IdentityIsRebuilt(spec) == spec.identity = RebuildIdentity(spec).identity

\* The derivations raise ValueError: the result is then marked and not used.
Raised(spec) == [spec EXCEPT !.raised = TRUE]

SpecWithField(spec, v) ==
    IF ~spec.found THEN Raised(spec) ELSE RebuildIdentity([spec EXCEPT !.value = v])

SpecWithGuardKind(spec, v) ==
    IF ~spec.found \/ ~spec.guards \/ spec.taken THEN Raised(spec)
    ELSE RebuildIdentity([spec EXCEPT !.taken = TRUE, !.value = v])

SpecWithEvidenceStyle(spec, v, chained) ==
    IF ~spec.found \/ ~spec.requirements THEN Raised(spec)
    ELSE RebuildIdentity([spec EXCEPT !.value = v, !.chained = chained,
                                      !.evidence = TRUE, !.mirror = v])

SpecWithDropped(spec, present) ==
    IF spec.raised \/ ~present THEN Raised(spec)
    ELSE RebuildIdentity([spec EXCEPT !.value = None])

SpecWithTerminalStateRef(spec, state) ==
    IF spec.raised \/ spec.terminal = None \/ ~spec.tamperable THEN Raised(spec)
    ELSE RebuildIdentity([spec EXCEPT !.terminal = state])

\* The cell, control and tampered spec of a proof.
DeriveByGuard(proof, base) ==
    LET cell == SpecWithGuardKind(base, proof.cellValue)
    IN  [cell |-> cell, control |-> SpecWithGuardKind(base, proof.controlValue),
         tampered |-> SpecWithDropped(cell, cell.taken)]

DeriveByEvidence(proof, base) ==
    LET cell == SpecWithEvidenceStyle(base, proof.cellValue, proof.chained)
    IN  [cell |-> cell, control |-> SpecWithEvidenceStyle(base, proof.controlValue, proof.chained),
         tampered |-> SpecWithDropped(cell, cell.evidence)]

DeriveByField(proof, base) ==
    LET cell == SpecWithField(base, proof.cellValue)
    IN  [cell |-> cell, control |-> SpecWithField(base, proof.controlValue),
         tampered |-> IF proof.locus = "lifecycleState"
                      THEN SpecWithTerminalStateRef(cell, proof.tamperState) ELSE cell]

Derive(proof, base) ==
    CASE proof.locus = "guard" -> DeriveByGuard(proof, base)
      [] proof.locus = "evidence" -> DeriveByEvidence(proof, base)
      [] OTHER -> DeriveByField(proof, base)

DeriveRaises(d) == d.cell.raised \/ d.control.raised \/ d.tampered.raised

(***************************************************************************)
(* The observation binding of an observer set: it takes over the set's     *)
(* field, or drops it.                                                     *)
(***************************************************************************)
BindingMatchingObserverSet(binding, spec) == [binding EXCEPT !.value = spec.value]
BindingWithObserverSetField(binding, v) == [binding EXCEPT !.value = v]

(***************************************************************************)
(* The native renderers are programs: one carries the value, loses the     *)
(* element or its field, always writes the same, or fails.                 *)
(***************************************************************************)
Renderings == {"exact", "constant", "field_lost", "element_lost", "conflated", "fails"}

Render(spec, how, fixed) ==
    [failed |-> how = "fails",
     found |-> how \notin {"fails", "element_lost"},
     value |-> CASE how = "exact" \/ how = "conflated" -> spec.value
                 [] how = "constant" -> fixed
                 [] OTHER -> None,
     chained |-> how # "conflated" /\ spec.chained,
     mode |-> "declared"]

\* The locus' field in a rendered document, or none.
Carried(doc) == IF doc.found THEN doc.value ELSE None

PlanWithDropped(plan) == [plan EXCEPT !.value = None]

\* Flipping late binding rewrites what goes with it.
SetTopologySlotField(topology, field, v) ==
    [topology EXCEPT !.value = v, !.mode = IF field = "lateBindingMode" THEN v ELSE @]

ConsumerMatches(report, expected) ==
    /\ report.ok = expected.ok
    /\ expected.code # None => expected.code \in Names(report.codes)

ConsumerSignature(report) == <<report.ok, report.codes>>

(***************************************************************************)
(* The runner.  A case has a cause; the verdict follows from it.           *)
(***************************************************************************)
VerdictOf(cause) ==
    CASE cause = Ok -> "FAITHFUL"
      [] cause = "governed_refusal" -> "REFUSED"
      [] cause = "semantic_mismatch" -> "SILENT"
      [] OTHER -> "BROKEN"

\* The name the slot renderer gives a participant's value in the topology.
Emitted(proof, v) ==
    CASE proof.locus # "participant" -> v
      [] v = proof.cellValue -> proof.cellTopology
      [] v = proof.controlValue -> proof.controlTopology
      [] OTHER -> v

\* The documents and reports of one case.
Observe(proof, base, tool) ==
    LET d == Derive(proof, base)
        plan(spec, how) == Render([spec EXCEPT !.value = Emitted(proof, @)], how,
                                  Emitted(proof, proof.cellValue))
        cellDoc == plan(d.cell, tool.renderCell)
        bound == BindingMatchingObserverSet([value |-> None], d.cell)
    IN [derived |-> d, raises |-> DeriveRaises(d),
        producerError |->
           /\ proof.locus \in {"participant", "transition", "guard", "evidence"}
           /\ \/ cellDoc.failed \/ plan(d.control, tool.renderControl).failed
              \/ proof.locus \in {"guard", "evidence"} /\ ~cellDoc.found,
        cellDoc |-> cellDoc, controlDoc |-> plan(d.control, tool.renderControl),
        tamperedDoc |-> IF proof.locus = "participant"
                        THEN SetTopologySlotField(cellDoc, proof.field, proof.controlTopology)
                        ELSE PlanWithDropped(cellDoc),
        bound |-> bound, tamperedBound |-> BindingWithObserverSetField(bound, proof.controlValue),
        spec |-> tool.spec, consumer |-> tool.consumer]

SpecsFail(obs) == ~obs.spec.cell.ok \/ ~obs.spec.control.ok
IdentityLost(specs) == \E s \in specs : ~IdentityIsRebuilt(s)
Same(a, b) == ConsumerSignature(a) = ConsumerSignature(b)

VerdictParticipant(proof, obs) == FirstOf(<<
    Refuse("internal_error", obs.producerError),
    Refuse("compile_failure", SpecsFail(obs)),
    Refuse("internal_error", Carried(obs.cellDoc) # proof.cellTopology),
    Refuse("internal_error", Carried(obs.controlDoc) # proof.controlTopology),
    Refuse("internal_error", ~ConsumerMatches(obs.consumer.cell, proof.expected)),
    Refuse("internal_error", ~ConsumerMatches(obs.consumer.control, proof.controlExpected)),
    Refuse("semantic_mismatch", Same(obs.consumer.cell, obs.consumer.control)),
    Refuse("semantic_mismatch", Same(obs.consumer.tampered, obs.consumer.cell))>>)

Accepts == [ok |-> TRUE, code |-> None]
Mismatch == [ok |-> FALSE, code |-> "mismatch"]

VerdictObserverSet(proof, obs) == FirstOf(<<
    Refuse("compile_failure", SpecsFail(obs)),
    Refuse("internal_error", \/ obs.derived.cell.value # proof.cellValue
                             \/ obs.bound.value # proof.cellValue),
    Refuse("internal_error", \/ obs.derived.control.value # proof.controlValue
                             \/ obs.tamperedBound.value # proof.controlValue),
    Refuse("internal_error", ~ConsumerMatches(obs.consumer.cell, Accepts)),
    Refuse("internal_error", ~ConsumerMatches(obs.consumer.control, Mismatch)),
    Refuse("semantic_mismatch", Same(obs.consumer.cell, obs.consumer.control)),
    Refuse("semantic_mismatch", Same(obs.consumer.cell, obs.consumer.tampered)),
    Refuse("internal_error", ~ConsumerMatches(obs.consumer.tampered, Mismatch))>>)

RefusesExactly(report, code) == ~report.ok /\ report.codes = <<code>>

VerdictLifecycleState(proof, obs) ==
    LET d == obs.derived
    IN FirstOf(<<
    Refuse("compile_failure", ~obs.spec.cell.ok),
    Refuse("internal_error", d.cell.terminal # proof.state),
    Refuse("internal_error", d.tampered.terminal # proof.tamperState),
    Refuse("internal_error", IdentityLost({d.cell, d.control, d.tampered})),
    Refuse("internal_error", d.control = d.tampered),
    Refuse("internal_error", d.cell.value # proof.cellValue),
    Refuse("internal_error", d.control.value # proof.controlValue),
    Refuse("internal_error", d.tampered.value # proof.cellValue),
    Refuse("internal_error", ~RefusesExactly(obs.spec.control, "mismatch")),
    Refuse("internal_error", ~RefusesExactly(obs.spec.tampered, "mismatch")),
    Refuse("semantic_mismatch", Same(obs.spec.control, obs.spec.cell)),
    Refuse("semantic_mismatch", Same(obs.spec.tampered, obs.spec.cell))>>)

VerdictTransition(proof, obs) == FirstOf(<<
    Refuse("internal_error", obs.producerError),
    Refuse("compile_failure", SpecsFail(obs)),
    Refuse("internal_error", IdentityLost({obs.derived.cell, obs.derived.control})),
    Refuse("internal_error", \/ obs.derived.cell.value # proof.cellValue
                             \/ Carried(obs.cellDoc) # proof.cellValue),
    Refuse("internal_error", \/ obs.derived.control.value # proof.controlValue
                             \/ Carried(obs.controlDoc) # proof.controlValue),
    Refuse("semantic_mismatch", obs.cellDoc = obs.controlDoc)>>)

\* Guards and evidence; an evidence object must keep its chained flag as well.
VerdictTampered(proof, obs) ==
    LET d == obs.derived
    IN FirstOf(<<
    Refuse("internal_error", obs.producerError),
    Refuse("compile_failure", SpecsFail(obs)),
    Refuse("internal_error", IdentityLost({d.cell, d.control, d.tampered})),
    Refuse("internal_error", d.cell.value # proof.cellValue \/ Carried(obs.cellDoc) # proof.cellValue),
    Refuse("internal_error", \/ d.control.value # proof.controlValue
                             \/ Carried(obs.controlDoc) # proof.controlValue),
    Refuse("semantic_mismatch",
           /\ proof.locus = "evidence"
           /\ \E chained \in {x.chained : x \in {d.cell, d.control}}
                        \cup {x.chained : x \in {obs.cellDoc, obs.controlDoc, obs.tamperedDoc}} :
                chained # proof.chained),
    Refuse("semantic_mismatch", \/ d.tampered.value # None
                                \/ ~RefusesExactly(obs.spec.tampered, "spec.schema")),
    Refuse("semantic_mismatch", obs.tamperedDoc.value # None),
    Refuse("semantic_mismatch", obs.cellDoc = obs.controlDoc),
    Refuse("semantic_mismatch", obs.cellDoc = obs.tamperedDoc)>>)

\* realize_* then verdict_*: a ValueError nobody catches ends the whole matrix.
RunnerCause(proof, base, tool) ==
    LET obs == Observe(proof, base, tool)
        slotless == /\ proof.locus = "participant" /\ ~obs.producerError
                    /\ \/ ~obs.cellDoc.found
                       \/ proof.field \notin {"minAssurance", "lateBindingMode"}
    IN  IF obs.raises \/ slotless THEN "aborted"
        ELSE CASE proof.locus = "participant" -> VerdictParticipant(proof, obs)
               [] proof.locus = "observerSet" -> VerdictObserverSet(proof, obs)
               [] proof.locus = "lifecycleState" -> VerdictLifecycleState(proof, obs)
               [] proof.locus = "transition" -> VerdictTransition(proof, obs)
               [] OTHER -> VerdictTampered(proof, obs)

(***************************************************************************)
(* The offline prover: its own checks, in its own order.                   *)
(***************************************************************************)
ProveParticipant(proof, obs) == FirstOf(<<
    Refuse("not carried", \/ obs.derived.cell.value # proof.cellValue
                          \/ obs.derived.control.value # proof.controlValue),
    Refuse("does not validate clean", SpecsFail(obs)),
    Refuse("renderer failed", obs.cellDoc.failed \/ obs.controlDoc.failed),
    Refuse("no slot", ~obs.cellDoc.found \/ ~obs.controlDoc.found),
    Refuse("not in topology", \/ obs.cellDoc.value # proof.cellTopology
                              \/ obs.controlDoc.value # proof.controlTopology),
    Refuse("cell observation", ~ConsumerMatches(obs.consumer.cell, proof.expected)),
    Refuse("control observation", ~ConsumerMatches(obs.consumer.control, proof.controlExpected)),
    Refuse("same observation", Same(obs.consumer.cell, obs.consumer.control)),
    Refuse("unsupported field", proof.field \notin {"minAssurance", "lateBindingMode"}),
    Refuse("vacuous", Same(obs.consumer.tampered, obs.consumer.cell))>>)

ProveObserverSet(proof, obs) == FirstOf(<<
    Refuse("not carried", \/ obs.derived.cell.value # proof.cellValue
                          \/ obs.derived.control.value # proof.controlValue
                          \/ obs.bound.value # proof.cellValue),
    Refuse("does not validate clean", SpecsFail(obs)),
    Refuse("cell observation", ~ConsumerMatches(obs.consumer.cell, Accepts)),
    Refuse("control observation", ~ConsumerMatches(obs.consumer.control, Mismatch)),
    Refuse("tampered observation", ~ConsumerMatches(obs.consumer.tampered, Mismatch)),
    Refuse("same observation", Same(obs.consumer.cell, obs.consumer.control)),
    Refuse("vacuous", Same(obs.consumer.cell, obs.consumer.tampered))>>)

ProveLifecycleState(proof, obs) ==
    LET d == obs.derived
    IN FirstOf(<<
    Refuse("not carried", \/ d.cell.value # proof.cellValue
                          \/ d.control.value # proof.controlValue
                          \/ d.tampered.value # proof.cellValue),
    Refuse("not rewired", d.tampered.terminal # proof.tamperState),
    Refuse("same document", d.control = d.tampered),
    Refuse("identity", IdentityLost({d.cell, d.control, d.tampered})),
    Refuse("does not validate clean", ~obs.spec.cell.ok),
    Refuse("control observation", ~RefusesExactly(obs.spec.control, "mismatch")),
    Refuse("tampered observation", ~RefusesExactly(obs.spec.tampered, "mismatch")),
    Refuse("same observation", Same([obs.spec.cell EXCEPT !.ok = TRUE], obs.spec.control)),
    Refuse("vacuous", Same([obs.spec.cell EXCEPT !.ok = TRUE], obs.spec.tampered))>>)

ProveTransition(proof, obs) == FirstOf(<<
    Refuse("not carried", \/ obs.derived.cell.value # proof.cellValue
                          \/ obs.derived.control.value # proof.controlValue),
    Refuse("identity", IdentityLost({obs.derived.cell, obs.derived.control})),
    Refuse("does not validate clean", SpecsFail(obs)),
    Refuse("renderer failed", obs.producerError),
    Refuse("not in plan", \/ Carried(obs.cellDoc) # proof.cellValue
                          \/ Carried(obs.controlDoc) # proof.controlValue),
    Refuse("same artifact", obs.cellDoc = obs.controlDoc)>>)

ProveTampered(proof, obs) ==
    LET d == obs.derived
    IN FirstOf(<<
    Refuse("identity", IdentityLost({d.cell, d.control, d.tampered})),
    Refuse("not carried", \/ d.cell.value # proof.cellValue
                          \/ d.control.value # proof.controlValue),
    Refuse("mirror", /\ proof.locus = "evidence"
                     /\ \/ d.cell.chained # proof.chained \/ d.control.chained # proof.chained
                        \/ d.cell.mirror # proof.cellValue \/ d.control.mirror # proof.controlValue),
    Refuse("does not validate clean", SpecsFail(obs)),
    Refuse("drop not refused", ~RefusesExactly(obs.spec.tampered, "spec.schema")),
    Refuse("renderer failed", obs.producerError),
    Refuse("not in plan", \/ Carried(obs.cellDoc) # proof.cellValue
                          \/ Carried(obs.controlDoc) # proof.controlValue),
    Refuse("conflated", /\ proof.locus = "evidence"
                        /\ \E doc \in {obs.cellDoc, obs.controlDoc, obs.tamperedDoc} :
                             doc.chained # proof.chained),
    Refuse("not dropped", obs.tamperedDoc.value # None),
    Refuse("same artifact", obs.cellDoc = obs.controlDoc),
    Refuse("drop not seen", obs.cellDoc = obs.tamperedDoc)>>)

\* Mutant: the prover does not look at what refers to the state it tampers with.
TerminalRefUnread(proof, base) == FALSE

\* The committed spec's terminal must be the state the proof is about.
TerminalRefDrift(proof, base) == proof.locus = "lifecycleState" /\ base.terminal # proof.state

\* prove_binding_consume for one crediting cell with its closed proof.
ProverBad(proof, base, tool) ==
    LET obs == Observe(proof, base, tool)
    IN FirstOf(<<
         Refuse("terminal ref", TerminalRefDrift(proof, base)),
         Refuse("derivation", obs.raises)>>
       \o <<LET found == CASE proof.locus = "participant" -> ProveParticipant(proof, obs)
                           [] proof.locus = "observerSet" -> ProveObserverSet(proof, obs)
                           [] proof.locus = "lifecycleState" -> ProveLifecycleState(proof, obs)
                           [] proof.locus = "transition" -> ProveTransition(proof, obs)
                           [] OTHER -> ProveTampered(proof, obs)
            IN  Refuse(found, found # Ok)>>)
=============================================================================
