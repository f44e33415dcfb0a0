---------------------------- MODULE RepositoryFlows ----------------------------
(***************************************************************************)
(* The repository's own verification and release flows, checked side by    *)
(* side: the accounting of the lit suite, the release of the core, the     *)
(* pressure loop, the domain tools and the generalism matrix.  They share  *)
(* no state: a behaviour is one flow's, chosen at the start among those of *)
(* the run, and the variables of the others are idle.                      *)
(***************************************************************************)
EXTENDS LitAccounting

CONSTANTS
    Flows,                               \* the flows a run looks at
    CoreFiles, Required, Overlays, BackendFiles, CoreArtifacts, Platforms, Modes,  \* of the core release
    MaxCoreCommits, MaxCoreEdits, MaxReleases, MaxTampers,
    MaxLoopRuns,                         \* of the pressure loop
    MaxDomainEdits, MaxTools,            \* of the domain tools
    MaxMatrixEdits, MaxMerges, MaxHandEdits, MaxMatrixRuns  \* of the generalism matrix

\* The permission bits of a file are octal digits: nine bits are at most 0777.
ASSUME ModesAssumption == \A m \in Modes : m \in Nat /\ m % 1000 \in 0 .. 777

VARIABLES chosen,
          \* core release
          repo, build, eng, derived, released, use,
          \* pressure loop
          world, loopJob, disk, loopRuns,
          \* domain
          domainFlow, domainEdits, tools, corpus, sources, observations, committed, checked,
          dialect, neu, manifest, expansion, mapped, artifact, vocabulary, registry, conform, conformed,
          \* generalism matrix
          matrixFlow, main, pr, matrixEdits, merges, files, emitted, matrixJob, matrixRuns, admitted, judged

litVars == <<commits, tree, edits, run, report>>
coreVars == <<repo, build, eng, derived, released, use>>
loopVars == <<world, loopJob, disk, loopRuns>>
domainVars ==
    <<domainFlow, domainEdits, tools, corpus, sources, observations, committed, checked,
      dialect, neu, manifest, expansion, mapped, artifact, vocabulary, registry, conform, conformed>>
matrixVars ==
    <<matrixFlow, main, pr, matrixEdits, merges, files, emitted, matrixJob, matrixRuns, admitted, judged>>
flowVars == <<chosen, litVars, coreVars, loopVars, domainVars, matrixVars>>

(***************************************************************************)
(* Fixture lists for the pressure loop: the three committed kinds, and the *)
(* ones an edit may leave: a gap before its companion, a repeated id, a    *)
(* path changed under an id, an unknown tier, a companion of another       *)
(* fixture.                                                                *)
(***************************************************************************)
Fixture(id, path, req) ==
    [id |-> id, path |-> path, requirement |-> req, tier |-> "1", extra |-> FALSE,
     companion |-> "core", disposition |-> "L3_RUNTIME"]
Gap(id, companion, req) ==
    [Fixture(id, "tooling-gap", req) EXCEPT !.companion = companion, !.disposition = "L1_CORE"]

PaidFixture == Fixture("core", "pay-for-result", "pay")
LoopFixtures ==
    {<<Fixture("a", "representable", "x"), Fixture("b", "failed-reduction", "y"),
       Fixture("c", "orthogonal", "z"), Fixture("d", "refusal", "w")>>,
     <<Fixture("a", "refusal", "x"), Fixture("b", "representable", "y")>>,
     <<Fixture("s", "orchestration-overload", "x"), Fixture("a", "representable", "x")>>,
     <<PaidFixture, Gap("gap", "core", "pay"), Fixture("c", "orthogonal", "z")>>,
     <<Gap("gap", "core", "pay"), PaidFixture>>,
     <<PaidFixture, Gap("gap", "other", "pay")>>,
     <<PaidFixture, Gap("gap", "core", "other")>>,
     <<Fixture("a", "representable", "x"), Fixture("a", "refusal", "x")>>,
     <<[Fixture("a", "representable", "x") EXCEPT !.tier = "9"]>>,
     <<[Fixture("a", "orthogonal", "x") EXCEPT !.disposition = "L1_CORE"]>>,
     <<[Fixture("a", "orthogonal", "x") EXCEPT !.extra = TRUE]>>}
LoopWorlds ==
    {{}, {"tampered-trace"}, {"unsupported-target"}, {"wrong-diagnostic", "miss-posts"},
     {"lossiness-drift"}, {"wrong-refusal-target"}, {"expected-gap-drift"}}

Core == INSTANCE CoreRelease WITH
    Files <- CoreFiles, Backend <- BackendFiles, Artifacts <- CoreArtifacts, report <- derived,
    MaxCommits <- MaxCoreCommits, MaxEdits <- MaxCoreEdits
Loop == INSTANCE PressureLoop WITH
    FixtureLists <- LoopFixtures, Worlds <- LoopWorlds, MaxRuns <- MaxLoopRuns,
    job <- loopJob, runs <- loopRuns
Domain == INSTANCE DomainFlows WITH flow <- domainFlow, edits <- domainEdits, MaxEdits <- MaxDomainEdits
Generalism == INSTANCE GeneralismFlows WITH
    flow <- matrixFlow, edits <- matrixEdits, job <- matrixJob, runs <- matrixRuns,
    MaxEdits <- MaxMatrixEdits, MaxRuns <- MaxMatrixRuns

Idle == "idle"
LitIdle == commits = Idle /\ tree = Idle /\ edits = Idle /\ run = Idle /\ report = Idle
CoreIdle == repo = Idle /\ build = Idle /\ eng = Idle /\ derived = Idle /\ released = Idle /\ use = Idle
LoopIdle == world = Idle /\ loopJob = Idle /\ disk = Idle /\ loopRuns = Idle
DomainIdle ==
       /\ domainFlow = Idle /\ domainEdits = Idle /\ tools = Idle /\ corpus = Idle /\ sources = Idle /\ observations = Idle
       /\ committed = Idle /\ checked = Idle /\ dialect = Idle /\ neu = Idle /\ manifest = Idle /\ expansion = Idle
       /\ mapped = Idle /\ artifact = Idle /\ vocabulary = Idle /\ registry = Idle /\ conform = Idle /\ conformed = Idle
MatrixIdle ==
       /\ matrixFlow = Idle /\ main = Idle /\ pr = Idle /\ matrixEdits = Idle /\ merges = Idle /\ files = Idle
       /\ emitted = Idle /\ matrixJob = Idle /\ matrixRuns = Idle /\ admitted = Idle /\ judged = Idle

FlowInit ==
    /\ chosen \in Flows
    /\ \/ chosen = "lit" /\ Init /\ CoreIdle /\ LoopIdle /\ DomainIdle /\ MatrixIdle
       \/ chosen = "core" /\ Core!Init /\ LitIdle /\ LoopIdle /\ DomainIdle /\ MatrixIdle
       \/ chosen = "loop" /\ Loop!Init /\ LitIdle /\ CoreIdle /\ DomainIdle /\ MatrixIdle
       \/ chosen = "domain" /\ Domain!Init /\ LitIdle /\ CoreIdle /\ LoopIdle /\ MatrixIdle
       \/ chosen = "generalism" /\ Generalism!Init /\ LitIdle /\ CoreIdle /\ LoopIdle /\ DomainIdle

FlowNext ==
    /\ \/ chosen = "lit" /\ Next /\ UNCHANGED <<coreVars, loopVars, domainVars, matrixVars>>
       \/ chosen = "core" /\ Core!Next /\ UNCHANGED <<litVars, loopVars, domainVars, matrixVars>>
       \/ chosen = "loop" /\ Loop!Next /\ UNCHANGED <<litVars, coreVars, domainVars, matrixVars>>
       \/ chosen = "domain" /\ Domain!Next /\ UNCHANGED <<litVars, coreVars, loopVars, matrixVars>>
       \/ chosen = "generalism" /\ Generalism!Next /\ UNCHANGED <<litVars, coreVars, loopVars, domainVars>>
    /\ UNCHANGED chosen

FlowSpec == FlowInit /\ [][FlowNext]_flowVars

-----------------------------------------------------------------------------
(***************************************************************************)
(* A zero exit is believed although one of lit's channels lied: no test of *)
(* the suite lit was pointed at really failed, one was executed, and the   *)
(* report on disk is this run's and puts each test in one category.  The   *)
(* one test it may lose is a skipped test that lit's JSON leaves out and   *)
(* the xUnit report has dropped.  (run(), build_report)                    *)
(***************************************************************************)
LitGreenIsTrue == chosen = "lit" => GreenIsTrue

(***************************************************************************)
(* Under an armed baseline a zero exit means that no banked test           *)
(* disappeared and that no accounted test really skipped outside the       *)
(* reasons it was banked with: neither an added test nor a lying channel   *)
(* makes up for a loss.  (compare_to_baseline)                             *)
(***************************************************************************)
LitRatchetHolds == chosen = "lit" => RatchetHolds

(***************************************************************************)
(* A zero exit of terminal mode is evidence about the commit the baseline  *)
(* names, as long as nobody touched the tree while the wrapper ran: the    *)
(* suite that ran is that commit's suite and the baseline is the one the   *)
(* next commit banked.  (verify_clean_tree, verify_provenance)             *)
(***************************************************************************)
LitTerminalIsReproducible == chosen = "lit" => TerminalIsReproducible

(***************************************************************************)
(* A receipt attests to its commit: when the directory was rebuilt since   *)
(* the last edit and configuration and nobody acted while emit ran, the    *)
(* staged programs were compiled from that commit's tree, carry its        *)
(* identity and are the ones its manifest declares.  (Without the rebuild  *)
(* it fails: require_fresh_build reads the configured header, not the      *)
(* programs.)                                                              *)
(***************************************************************************)
ReceiptIsOfItsCommit == chosen = "core" => Core!ReceiptIsOfItsCommit

(***************************************************************************)
(* A report names the tree of its commit, and a candidate that passed      *)
(* check_candidate is, after its build, exactly the reported files, with   *)
(* none of a backend, none that points at the source root and every        *)
(* required one.                                                           *)
(***************************************************************************)
CandidateIsTheExport == chosen = "core" => Core!CandidateIsTheExport

(***************************************************************************)
(* An admitted prefix that nobody changed during the admission holds       *)
(* exactly the programs of one release of the producer for the consumer's  *)
(* platform, byte for byte and bit for bit up to 0777: no mixture of       *)
(* releases, no stray program, no link, no bit above 0777, and never on    *)
(* the word of a record from inside the prefix.                            *)
(***************************************************************************)
AdmittedIsReleased == chosen = "core" => Core!AdmittedIsReleased
(***************************************************************************)
(* A --check that passes vouches for what was on disk while it ran: every  *)
(* cited source may be cited in that corpus, every term rests on a row of  *)
(* that observation set and every row on a term, and the observations were *)
(* taken of those sources unless the check was told not to look.           *)
(***************************************************************************)
CheckedProposalIsGrounded == chosen = "domain" => Domain!CheckedProposalIsGrounded

(***************************************************************************)
(* domain_diagnostics sends the author to the right construct: a line of   *)
(* the text neutrino_lang read is mapped to the construct it renders, and  *)
(* to none only when it renders none, unless the .neu changed meanwhile or *)
(* does not match the manifest.                                            *)
(***************************************************************************)
OriginIsTrue == chosen = "domain" => Domain!OriginIsTrue

(***************************************************************************)
(* A conformant verdict about files that stood still is exact: the         *)
(* capabilities of the reduction are those of the artifact's executable    *)
(* edges, each registered under the artifact's own intake version and each *)
(* edge carrying an accepted and versioned provenance record.              *)
(***************************************************************************)
ConformantIsExact == chosen = "domain" => Domain!ConformantIsExact

(***************************************************************************)
(* The register on disk is one whole validated run's, and while that run   *)
(* is the last one started, every evidence ref of it names a file written  *)
(* by the same run, of the type the row claims; a gap's ref names the      *)
(* committed proof of a companion whose partial row the same register has. *)
(* (A later run that dies part-way breaks the link: it has overwritten     *)
(* evidence in place, and the old register stays.)                         *)
(***************************************************************************)
RegisterRestsOnItsRun == chosen = "loop" => Loop!RegisterRestsOnItsRun

(***************************************************************************)
(* The runner and the validator agree on what a row is: whatever the       *)
(* fixtures and the tools, a register the runner is about to validate can  *)
(* only be refused for what the fixtures say themselves, an unknown tier   *)
(* or a partial row without its absent sibling.                            *)
(***************************************************************************)
RunnerMeetsValidator == chosen = "loop" => Loop!RunnerMeetsValidator

(***************************************************************************)
(* On main, once it has a baseline, the features the baseline does not     *)
(* admit as uncovered are those with a controlled experiment that perturbs *)
(* that very feature, or with a closed consume proof.  The gate reads the  *)
(* manifest, which the generator wrote, and the generator is edited in the *)
(* same pull request.                                                      *)
(***************************************************************************)
MainCoverageIsWitnessed == chosen = "generalism" => Generalism!MainCoverageIsWitnessed

(***************************************************************************)
(* The uncovered set of main never grows: no merge makes an uncovered      *)
(* feature, by adding one to the schema or by losing the cell that covered *)
(* it, even if the pull request widens the baseline as well.               *)
(***************************************************************************)
UncoveredNeverGrows == [][chosen = "generalism" => Generalism!CoverageStep]_main

(***************************************************************************)
(* What the PR-fast gate admits was signed by a run, and that run saw only *)
(* faithful and governed-refusal cases, at least one of them faithful,     *)
(* whatever was overwritten, edited or left half-written in between.       *)
(***************************************************************************)
GateAdmitsOnlyHonest == chosen = "generalism" => Generalism!GateAdmitsOnlyHonest

(***************************************************************************)
(* The matrix runner and the offline prover accept the same consume        *)
(* proofs, and what the runner accepts was earned: a .neu case is FAITHFUL *)
(* only if the reference and both rails accepted and both rails were       *)
(* really compiled, and REFUSED only if all three refused under one common *)
(* code, the declared one if there is one; a crediting cell is proved only *)
(* if its own feature made the difference to its control.                  *)
(***************************************************************************)
PassesAreEarned ==
    chosen = "generalism" => Generalism!PassesAreEarned /\ Generalism!ProverAgrees
=============================================================================
