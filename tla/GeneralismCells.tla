---------------------------- MODULE GeneralismCells ----------------------------
(***************************************************************************)
(* The generalism cell manifest and its coverage gate:                     *)
(*   scripts/generators/gen_generalism_cells.py                            *)
(*   scripts/gates/check_generalism_cell_coverage.py                       *)
(* The generator derives the behaviour features from the schema and builds *)
(* cells that credit them; the gate compares the committed manifest with a *)
(* fresh one, re-judges every crediting cell and ratchets the features     *)
(* left uncovered against the baseline of the base revision.               *)
(*                                                                         *)
(* A tree is what a revision commits of this: the schema's features and    *)
(* whether it has an enum path nobody classified, the generator's tables   *)
(* (FEATURE_LOCUS, the controlled cells, the closed consume proofs,        *)
(* BINDING_LOCUS, the seeds), what the committed capability specs do, the  *)
(* manifest and the baseline.                                              *)
(***************************************************************************)
EXTENDS Refusals

CONSTANTS
    Features,        \* (family, value) coordinates a schema may declare
    BindingFeatures, \* those of the binding and lifecycle families
    LiveFeatures,    \* those whose consume proofs are made from the live schema
    MinFeatures, MinCells, MinWitnessed, MinSeeds \* the floors of the gate

Nothing == "none"
Witnesses == {"ledger", "refusal", "render", "spec_refusal", "binding_consume"}

\* Only paths on the behaviour list make features; other paths are excluded or reported.
DeriveFeatures(tree) == tree.values
Unclassified(tree) == tree.stray

\* The proofs in the table, and one per live value with the next one as its control.
LiveValues(tree) == DeriveFeatures(tree) \cap LiveFeatures
BuildBindingConsumeProofs(tree) == tree.proofs \cup LiveValues(tree)
GeneratorRaises(tree) ==
    \/ Cardinality(LiveValues(tree)) < 2
    \/ \E c \in Names(tree.controlled) : c.mutation \notin tree.locus \/ ~c.applies

\* apply_mutation: the mutation's text must occur exactly as often as it says.
ApplyMutation(cell) == IF cell.applies THEN cell.mutation ELSE "raises"

Cell(kind, feature, credits, witness) ==
    [id |-> <<kind, feature>>, kind |-> kind, covers |-> feature, credits |-> credits,
     witness |-> witness, mutation |-> Nothing, applies |-> TRUE, control |-> Nothing,
     proof |-> Nothing, code |-> FALSE, locator |-> Nothing]

\* A controlled cell's mutation is the one FEATURE_LOCUS has for some feature.
BuildControlledCells(tree) ==
    {[Cell("generated", c.covers, TRUE, c.witness) EXCEPT
        !.mutation = c.mutation, !.applies = c.applies,
        !.control = IF c.exact THEN c.mutation ELSE "other", !.code = c.witness = "refusal"] :
     c \in Names(tree.controlled)}

\* A consume proof wins over a validator locus for the same feature.
BuildBindingCells(tree) ==
    LET proofs == BuildBindingConsumeProofs(tree)
    IN  {[Cell("binding", f, TRUE, "binding_consume") EXCEPT !.proof = f, !.locator = f] : f \in proofs}
        \cup {[Cell("binding", f, FALSE, "spec_refusal") EXCEPT !.locator = f, !.code = TRUE] :
                f \in tree.contract \ proofs}

SeedCells(tree) ==
    {Cell("seed", s.covers, s.credits, s.witness) : s \in tree.seeds}

Disposition(feature, status) ==
    [feature |-> feature, status |-> status, credits |-> status = "valid_carry_and_consume"]

S1cDispositionFor(feature, tree) ==
    Disposition(feature,
        CASE feature \in BuildBindingConsumeProofs(tree) -> "valid_carry_and_consume"
          [] feature \in tree.contract -> "validator_contract"
          [] OTHER -> "blocked")

DeriveBindingLifecycleRows(tree) == DeriveFeatures(tree) \cap BindingFeatures

\* Mutant: a validator's own cell covers its feature, although it credits nothing.
CoveredByAnyCell(tree) == {c.covers : c \in BuildControlledCells(tree) \cup BuildBindingCells(tree)}

Covered(tree) == {c.covers : c \in {x \in BuildControlledCells(tree) \cup BuildBindingCells(tree) : x.credits}}

BuildManifest(tree) ==
    LET cells == SeedCells(tree) \cup BuildControlledCells(tree) \cup BuildBindingCells(tree)
    IN [features |-> DeriveFeatures(tree), cells |-> cells,
        uncovered |-> DeriveFeatures(tree) \ Covered(tree), unclassified |-> Unclassified(tree),
        seeds |-> Cardinality(tree.seeds),
        witnessed |-> Cardinality({c \in cells : c.credits}),
        dispositions |-> {S1cDispositionFor(f, tree) : f \in DeriveBindingLifecycleRows(tree)}]

(***************************************************************************)
(* The checks of a cell and of the dispositions.                           *)
(***************************************************************************)
FeatureLocusViolations(cell, tree) == FirstOf(<<
    Refuse("no canonical locus", cell.covers \notin tree.locus),
    Refuse("relabeled", cell.mutation # cell.covers)>>)

ControlReconstructionViolations(cell) == FirstOf(<<
    Refuse("no typed mutation", cell.mutation = Nothing),
    Refuse("bad mutation", ApplyMutation(cell) = "raises"),
    Refuse("confounded", cell.control # ApplyMutation(cell))>>)

BindingLocusViolations(cell, tree) == FirstOf(<<
    Refuse("no canonical binding", cell.covers \notin tree.contract),
    Refuse("relabeled", cell.locator # cell.covers)>>)

BindingConsumeProofViolations(cell, tree) == FirstOf(<<
    Refuse("no closed proof", cell.covers \notin BuildBindingConsumeProofs(tree)),
    Refuse("not the closed proof", cell.proof # cell.covers)>>)

CellViolations(cell, tree) ==
    IF cell.kind = "binding" THEN BindingConsumeProofViolations(cell, tree)
    ELSE IF FeatureLocusViolations(cell, tree) # Ok THEN FeatureLocusViolations(cell, tree)
    ELSE ControlReconstructionViolations(cell)

BindingLifecycleDispositionViolations(manifest, tree) ==
    LET expected == DeriveBindingLifecycleRows(tree)
        cellOf(d) == {c \in manifest.cells : c.kind = "binding" /\ c.covers = d.feature}
        of(status) == {d \in manifest.dispositions : d.status = status}
    IN AllOf({
       Refuse("duplicate", \E d, e \in manifest.dispositions : d # e /\ d.feature = e.feature),
       Refuse("not a row", \E d \in manifest.dispositions : d.feature \notin expected),
       Refuse("proof row must credit", \E d \in of("valid_carry_and_consume") : ~d.credits),
       Refuse("no closed proof",
              \E d \in of("valid_carry_and_consume") : d.feature \notin BuildBindingConsumeProofs(tree)),
       Refuse("cell missing", \E d \in manifest.dispositions : d.status # "blocked" /\ cellOf(d) = {}),
       Refuse("cell does not credit",
              \E d \in of("valid_carry_and_consume") : \E c \in cellOf(d) :
                 ~c.credits \/ BindingConsumeProofViolations(c, tree) # Ok),
       Refuse("contract row credits", \E d \in of("validator_contract") : d.credits),
       Refuse("contract cell credits",
              \E d \in of("validator_contract") : \E c \in cellOf(d) :
                 c.credits \/ BindingLocusViolations(c, tree) # Ok),
       Refuse("blocked row credits", \E d \in of("blocked") : d.credits),
       Refuse("missing", expected \ {d.feature : d \in manifest.dispositions} # {})})

\* prove_binding: the committed spec has the value and passes, the sentinel is refused by its code.
ProveBinding(manifest, tree) ==
    {IF BindingLocusViolations(c, tree) # Ok THEN BindingLocusViolations(c, tree)
     ELSE IF c.covers \in tree.enforced THEN Ok ELSE "not enforced" :
       c \in {x \in manifest.cells : x.kind = "binding" /\ x.code}} \ {Ok}

\* prove_witness, against the compiler: obs gives a cell's exit, its model and its codes.
ProveWitness(cell, tree, obs) ==
    IF ~cell.credits
    THEN Refuse("seed", CASE cell.witness = "ledger" -> obs.cell.exit # 0
                          [] cell.witness = "refusal" -> obs.cell.exit \notin {3, 4, 6}
                          [] OTHER -> obs.cell.exit \notin {0, 3, 4, 6})
    ELSE LET found == FirstOf(<<
               Refuse("not canonical", CellViolations(cell, tree) # Ok),
               Refuse("same observation", <<obs.cell.exit, obs.cell.model>>
                                          = <<obs.control.exit, obs.control.model>>),
               Refuse("does not realize", cell.witness = "ledger" /\ obs.cell.exit # 0),
               Refuse("did not refuse", cell.witness = "refusal" /\ obs.cell.exit \notin {3, 4, 6}),
               Refuse("another refusal", cell.witness = "refusal" /\ ~(cell.code /\ obs.cell.coded)),
               Refuse("control refuses too", cell.witness = "refusal" /\ obs.control.coded)>>)
         IN  Refuse(found, found # Ok)

(***************************************************************************)
(* The gate.  ref is how the base revision is named: by the CI's variable, *)
(* by that variable with a commit the checkout lacks, or by the local main *)
(* branch; base is the baseline found there, or absent.                    *)
(***************************************************************************)
Absent == [present |-> FALSE, uncovered |-> {}]

\* Mutant: the base revision's baseline is never looked up.
BaseNeverFound(ref, base) == IF ref = "shallow" THEN "unresolvable" ELSE "skip"

BaseUncovered(ref, base) ==
    CASE ref = "shallow" -> "unresolvable"
      [] ~base.present -> "skip"
      [] OTHER -> "found"

Check(tree, ref, base) ==
    LET m == tree.manifest
        crediting == {c \in m.cells : c.credits}
        stale == m # BuildManifest(tree)
    IN IF ~tree.committed THEN {"manifest missing"}
       ELSE IF GeneratorRaises(tree) THEN {"generator failed"}
       ELSE AllOf({
       Refuse("stale", stale),
       Refuse("feature floor", Cardinality(m.features) < MinFeatures),
       Refuse("cell floor", Cardinality(m.cells) < MinCells),
       Refuse("witnessed floor", m.witnessed < MinWitnessed),
       Refuse("seed floor", m.seeds < MinSeeds),
       Refuse("unclassified", m.unclassified),
       Refuse("witness", \E c \in m.cells : c.witness \notin Witnesses),
       Refuse("no handle", \E c \in crediting : c.control = Nothing
                                               /\ ~(c.kind = "binding" /\ c.proof # Nothing)),
       Refuse("no code", \E c \in crediting : c.witness \in {"refusal", "spec_refusal"} /\ ~c.code),
       Refuse("cell", \E c \in crediting : CellViolations(c, tree) # Ok),
       Refuse("binding proof", ~stale /\ ProveBinding(m, tree) # {}),
       Refuse("disposition", ~stale /\ BindingLifecycleDispositionViolations(m, tree) # {}),
       Refuse("seed credits", \E c \in crediting : c.kind = "seed"),
       Refuse("baseline missing", ~tree.baseline.present),
       Refuse("new uncovered", tree.baseline.present /\ m.uncovered \ tree.baseline.uncovered # {}),
       Refuse("stale baseline", tree.baseline.present /\ tree.baseline.uncovered \ m.uncovered # {}),
       Refuse("base ref", BaseUncovered(ref, base) = "unresolvable"),
       Refuse("grew", BaseUncovered(ref, base) = "found" /\ m.uncovered \ base.uncovered # {})})
=============================================================================
