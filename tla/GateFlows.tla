------------------------------- MODULE GateFlows -------------------------------
(***************************************************************************)
(* Pull requests against the repository's gates.  A branch is cut from     *)
(* main, edited step by step, judged by one gate against the main it is to *)
(* be merged into, and merged when the gate finds nothing.  A gate's tree  *)
(* is what it reads; every gate also has the probes of its own selftest,   *)
(* which tamper with a clean tree and expect a code.                       *)
(***************************************************************************)
EXTENDS Refusals

CONSTANTS Gates, MaxGateEdits, MaxGateMerges

VARIABLES gate, trunk, branch, gateEdits, gateMerges, probe

vars == <<gate, trunk, branch, gateEdits, gateMerges, probe>>

Intake == INSTANCE IntakeBijection
Projection == INSTANCE ProjectionLedger
Slots == INSTANCE SlotDescriptors
Printers == INSTANCE PrinterRegistry
Authority == INSTANCE SemanticAuthority
Inference == INSTANCE AntiInference
Census == INSTANCE IdiomCensus
Packs == INSTANCE PackRelease

CleanTree ==
    CASE gate = "intake" -> Intake!CleanTree
      [] gate = "projection" -> Projection!CleanTree
      [] gate = "slots" -> Slots!CleanTree
      [] gate = "printers" -> Printers!CleanTree
      [] gate = "authority" -> Authority!CleanTree
      [] gate = "inference" -> Inference!CleanTree
      [] gate = "census" -> Census!CleanTree
      [] gate = "packs" -> Packs!CleanTree

EditsOf(tree) ==
    CASE gate = "intake" -> Intake!EditsOf(tree)
      [] gate = "projection" -> Projection!EditsOf(tree)
      [] gate = "slots" -> Slots!EditsOf(tree)
      [] gate = "printers" -> Printers!EditsOf(tree)
      [] gate = "authority" -> Authority!EditsOf(tree)
      [] gate = "inference" -> Inference!EditsOf(tree)
      [] gate = "census" -> Census!EditsOf(tree)
      [] gate = "packs" -> Packs!EditsOf(tree)

\* Whether git finds the base is for the gates that ask it.
Resolutions == IF gate \in {"intake", "printers", "census", "packs"} THEN BOOLEAN ELSE {TRUE}

\* The codes the gate reports for a tree, with the base resolved or not.
Verdict(tree, base, resolved) ==
    CASE gate = "intake" -> Intake!Evaluate(Intake!Snapshot(tree, base, resolved))
      [] gate = "projection" -> Projection!Evaluate(tree)
      [] gate = "slots" -> Slots!Main(tree)
      [] gate = "printers" -> Printers!Evaluate(tree, base, resolved)
      [] gate = "authority" -> Authority!Evaluate(tree)
      [] gate = "inference" -> Inference!Evaluate(tree)
      [] gate = "census" -> Census!Evaluate(tree, base, resolved)
      [] gate = "packs" -> Packs!Evaluate(tree, base, resolved)

\* A probe's codes and the code it expects.
ProbeOutcomes ==
    CASE gate = "intake" ->
           {<<Intake!Evaluate(p[1]), p[2]>> :
              p \in Intake!Probes(Intake!Snapshot(trunk, trunk, TRUE))}
      [] gate = "projection" -> Projection!ProbeOutcomes(trunk)
      [] gate = "slots" -> Slots!ProbeOutcomes(trunk)
      [] gate = "printers" -> Printers!ProbeOutcomes(trunk)
      [] gate = "authority" -> Authority!ProbeOutcomes(trunk)
      [] gate = "inference" -> Inference!ProbeOutcomes(trunk)
      [] gate = "census" -> Census!ProbeOutcomes(trunk)
      [] gate = "packs" -> Packs!ProbeOutcomes(trunk)

Sound(tree) ==
    CASE gate = "intake" -> Intake!Sound(tree)
      [] gate = "projection" -> Projection!Sound(tree)
      [] gate = "slots" -> Slots!Sound(tree)
      [] gate = "printers" -> Printers!Sound(tree)
      [] gate = "authority" -> Authority!Sound(tree)
      [] gate = "inference" -> Inference!Sound(tree)
      [] gate = "census" -> Census!Sound(tree)
      [] gate = "packs" -> Packs!Sound(tree)

Authorized(tree, next) ==
    CASE gate = "intake" -> Intake!Authorized(tree, next)
      [] gate = "projection" -> Projection!Authorized(tree, next)
      [] gate = "slots" -> Slots!Authorized(tree, next)
      [] gate = "printers" -> Printers!Authorized(tree, next)
      [] gate = "authority" -> Authority!Authorized(tree, next)
      [] gate = "inference" -> Inference!Authorized(tree, next)
      [] gate = "census" -> Census!Authorized(tree, next)
      [] gate = "packs" -> Packs!Authorized(tree, next)

-----------------------------------------------------------------------------
NoProbe == <<{}, Ok>>

Init ==
    /\ gate \in Gates
    /\ trunk = CleanTree /\ branch = CleanTree
    /\ gateEdits = 0 /\ gateMerges = 0 /\ probe = NoProbe

\* The gates that read whole programs make one edit less in the second pull request.
EditBound == IF gate \in {"inference", "census", "packs"} THEN MaxGateEdits - gateMerges ELSE MaxGateEdits

EditBranch ==
    /\ gateEdits < EditBound /\ gateMerges < MaxGateMerges /\ probe = NoProbe
    /\ \E tree \in EditsOf(branch) : branch' = tree
    /\ gateEdits' = gateEdits + 1
    /\ UNCHANGED <<gate, trunk, gateMerges, probe>>

MergeBranch ==
    /\ gateMerges < MaxGateMerges /\ branch # trunk
    /\ \E resolved \in Resolutions : Verdict(branch, trunk, resolved) = {}
    /\ trunk' = branch
    /\ gateMerges' = gateMerges + 1 /\ gateEdits' = 0
    /\ UNCHANGED <<gate, branch, probe>>

\* The selftest tampers with the tree it was written for; it changes nothing the pull requests use.
Selftest ==
    /\ probe = NoProbe /\ gateEdits = 0 /\ gateMerges = 0
    /\ \E outcome \in ProbeOutcomes : probe' = outcome
    /\ UNCHANGED <<gate, trunk, branch, gateEdits, gateMerges>>

Next == EditBranch \/ MergeBranch \/ Selftest
Spec == Init /\ [][Next]_vars

-----------------------------------------------------------------------------
(***************************************************************************)
(* Whatever sequence of pull requests a gate let through, main is sound:   *)
(* it satisfies the relation the gate is there for, stated over the tree   *)
(* itself and not over the gate's snapshot, diff or order of checks.       *)
(***************************************************************************)
MergedIsSound == gateEdits = 0 => Sound(trunk)

(***************************************************************************)
(* No pull request authorizes itself: what a merge changes was permitted   *)
(* by main as it stood before, and what main had is not lost.              *)
(***************************************************************************)
AuthorizedStep == trunk' # trunk => Authorized(trunk, trunk')
MergeIsAuthorized == [][AuthorizedStep]_trunk

(***************************************************************************)
(* Every probe of a gate's selftest bites: the tampered tree is refused,   *)
(* and with the code the probe names, on the tree it was written for.      *)
(***************************************************************************)
ProbesBite == probe # NoProbe => probe[2] \in probe[1]

(***************************************************************************)
(* check_target_node_registry.py:299-308 has the ratchet of the target     *)
(* printers compare handler sets and not file locations, so that a pure    *)
(* relocation of a generated file is a no-op: on a main that was merged    *)
(* soundly, a pull request that changes nothing is not refused.            *)
(***************************************************************************)
UnchangedIsAccepted ==
    (gate = "printers" /\ gateEdits = 0) => Printers!NothingChanged(trunk)
=============================================================================
