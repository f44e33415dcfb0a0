# Neutrino in TLA+

Neutrino compiles multi-party coordination agreements (`.neu`) through MLIR to a
canonical *coordination plan*, and the plan to realizations: a Solidity contract,
a PostgreSQL schema with stored functions. A C++ reference evaluator says what a
plan means; external backends, run as verified child processes, render the
realizations; `neutrino-gen` publishes what they return. Around this stands a
verification machinery of Python programs, larger than the compiler itself:
gates that judge pull requests, generators whose output is committed, runners
that collect evidence, and the tools that export, release and admit the core.

This directory holds TLA+ models of the parts of that system whose correctness
depends on histories: which calls came before, which process moved first, which
step failed, which pull request was merged earlier. Paths below are relative to
the repository root; line numbers are those of the commit the models were written
from. `PROJECT.json` has the machine readable version: runs, mutants, the map
from definitions to source lines, hazards, findings and theorems. In the Python
tools' modules the map leaves out a helper whose lines lie within those of other
mapped definitions.

## Inventory

### The program

| Part | State it keeps | Operations | Hard behaviour | What makes it correct |
|---|---|---|---|---|
| Reference evaluator (`lib/spec-contract/CoordinationEval.cpp`) | `EvalState`, threaded by the caller: balances, posted keys, pinned claims, committed groups, key status | `evaluateTransition` | quorums accept over several calls in any order; retries; one leg of many faults or overflows; states the caller made up | ledger = commits; conservation; terminal iff complete; one claim per key; all-or-nothing |
| Bounded shared coordinator (`BoundedCoordinator.cpp`) | one `EvalState` per instance | `create`, `run` | many instances on one coordinator; rollback after evaluation; statically derived bounds | each instance is a reference evaluator; bounds refuse only what they must |
| Backend protocol session (`BackendProtocol.cpp`) | session state, request, chunk run, raw frame owed, limits | `consume`, `finish`, `take...` | any frame from either end in any order; skipped frames; cancellation in mid-artifact | an emission is what was streamed, for the request it answers |
| Backend invoker (`BackendInvoker.cpp`) and the packages' `main()` | the loop's place, its session, the child, two sockets, deadlines | `invoke` | stalls, crashes, full sockets, a deadline inside a frame, Cancel crossing a Manifest | success means delivered; both ends agree; `invoke` returns |
| Artifact publication (`ArtifactPublication.cpp`, `neutrino-gen.cpp`) | a directory shared with other processes | `publish`, `dispatchExternal` | concurrent runs, replaced files, failing system calls, power loss | success is visible and durable; receipt before output; nothing replaced |
| PostgreSQL realization, temporal rail (`lib/backends/postgres/`) | six tables | `accept_`, `execute_` | concurrent transactions at READ COMMITTED; stale checks; write skew; deadlock victims | postings once and accepted first; a commit is a transition of the evaluator |
| Solidity realization (`lib/backends/solidity/`) | contract storage; a quorum guard per policy | `accept` of a guard; `execute`, `attest`, `accept` of a contract; constructors | order of transactions; distinct signers; replay of a signature; a fork; words that overflow | postings once and earned; a call is a transition of the evaluator |
| Plan assembly (`CoordinationPlan.cpp`) | none | `assemblePlan` and projections | first-occurrence order of interleaved groups | groups partition the effects |
| Package verification (`BackendPackage.cpp`) | verified bytes and descriptors | `verifyPackage`, `discoverPackages` | the directory changes after verification | not modelled |
| Slot capability (`lib/slots/GenSlotSpec.cpp`) | the lock, the emitted descriptors | emit, refresh | descriptor, lock and identity edited apart | with the slot gate, below |
| Frontend, dialects, reduction, legality, recipes, views, security, coverage, printers, tools | none beyond a run | passes over one input | none concurrent; the input space is programs | not modelled |

### The verification machinery (`scripts/`, `packaging/postgres/scripts/`)

| Part | State it keeps | Operations | Hard behaviour | What makes it correct |
|---|---|---|---|---|
| Lit accounting | the suite, the banked baseline, three reports | run, bank | lit's three channels lie separately; the tree is edited between the wrapper's reads | a green run tells the truth; nothing banked disappears |
| Core export, receipt, admission | git, the build directory, a prefix | derive, check, emit, admit | each tool reads at several moments | what is admitted is what one commit produced |
| Pressure loop | evidence files, the register | the forcing run, its validator | a run dies between two files; fixtures and tools change between runs | the register rests on one run's evidence |
| Domain corpus, dialects, intake | sources, observations, proposals, `.neu` and manifest, artifacts, registries | generate, check, expand, map diagnostics, conform | files are edited between two reads or half written | what was accepted is true of what was on disk |
| Generalism matrix | cells, baseline, result envelopes, signed evidence | the run, the offline prover, the coverage gate, the PR-fast gate | mixtures of files; two judges of one proof; pull requests edit schema, generator and baseline together | coverage is witnessed and never shrinks; a pass was earned |
| M7 intake bijection | registry, reduction, projection contract, reducer | gate | a change authorizes itself | every executable edge is registered and reduced, and nothing decides below the waist |
| Backend projection ledger | traces, decisions, retirements | gate | retirements and additions over many pull requests | every decision has one owner, a retired one stays retired |
| Slot descriptors | descriptors, lock, report | gate | two copies, a lock and an identity | bytes and identity move together |
| Target-node printers | printers, inventory, baselines | generator, gate | ratchet against git's base | printing by hand only retires |
| Semantic authority | C++ of the backends | gate | a decision hidden behind an alias, a helper or a local | no branch below the waist on a semantic field |
| Anti-inference | sources, reviewed lists, schema | gate | lists are edited with the code they excuse | no source re-reads the spec |
| Idiom census | AST occurrences, the committed census | gate | moves, exclusions and generated builders | hand composition does not grow |
| Contract bundle, curated packs, release gate | schemas, bundle, registry of bundles, packs, receipts, expectations | build, check, verify, resolve, release | published versions, historical bundles, receipts of changed packs | published bytes and identities move only with a version; a released pack is the one that was verified |
| Other gates | none | scans of one tree | none | not modelled |

How they interact. `neutrino-gen` builds a plan, verifies a package, launches its
entry through `invoke`, receives an emission over the protocol, and publishes a
receipt, the artifacts and a manifest. The artifacts, once deployed, are called
by their users in any order; each call must be a transition the reference
evaluator allows. The evaluator is also run in bounded form on a shared
coordinator. The Python programs meet only in files of the working tree and in
git: one writes what another reads later, and every pull request may edit both
the files and, since they are files too, the programs' lists and baselines.

## Modules

```
CoordinationEval      evaluateTransition as operators (the plan is its constants)
  Coordination        a coordination driven by any sequence of calls
    MCCoordination        plans for TLC
  BoundedCoordinator  many instances; INSTANCEs Coordination for the watched one
    MCBounded
    CoordinationProofs    what a transition does to claims, terminals and balances;
                          the theorems of both, the refinement among them
  PostgresTemporal    accept_/execute_ under concurrent transactions, compared
                      with CoordinationEval's Transition
  SolidityContracts   the generated contracts and their quorum guards, likewise
    RailProofs            the theorems of both rails, for every plan
    Realizations      PostgresTemporal and four kinds of contract, side by side,
                      each an instance of RailProofs
    RealizationProofs     the rails' theorems for the composition
BackendProtocol       the Session as operators, and its frames
  BackendSession      one session fed every frame in every order
    SessionProofs         its theorem
    MCBackendSession
  BackendInvocation   invoke() and a child process, each with a session
    InvocationProofs      its theorems
    MCBackendInvocation
ArtifactPublication   publishImpl and the runs that use it
  MCPublication
  PublicationProofs     its theorems
FiniteSums            lemmas about sums, least elements and concatenations

Refusals              how a Python tool refuses: the first failed check, or all
LitAccounting         the lit wrapper
CoreRelease           the checks of export, receipt and admission; developer,
                      release engineer and consumer
PressureLoop          the register's validator, its mutation protocol and the
                      forcing run
DomainCorpus, DomainDialect, DomainSemantics
  DomainFlows         the three command-line flows over them
GeneralismConsume, GeneralismCells
  GeneralismFlows     coverage, matrix and prover flows
IntakeBijection, ProjectionLedger, SlotDescriptors, PrinterRegistry,
SemanticAuthority, AntiInference, IdiomCensus,
ContractBundle + PackRelease
  GateFlows           pull requests against any of these gates
RepositoryFlows       LitAccounting, CoreRelease, PressureLoop, DomainFlows and
                      GeneralismFlows, side by side
  RepositoryProofs      its theorems
  MCRepository          RepositoryFlows and GateFlows in one run
```

`RepositoryFlows` composes flows that share no state: a behaviour is one flow's,
chosen in the initial state among `Flows`, and the variables of the others keep the
value `"idle"`. So one run of TLC answers for a family of flows, and one module of
proofs serves them all. The gates stand apart since some of them use recursive
operators; `MCRepository` puts them beside the flows, for TLC only.

**CoordinationEval, Coordination.** `Transition(s, in)` is `evaluateTransition`:
admission (`AdmissionCode`, in the order of the code's early returns), replay
(`IsReplay`), evidence-only acceptance (`AcceptEvidence`), per-group commits
(`TemporalTransition`, `CommitGroups`) and single-shot commits
(`SingleShotTransition`). A payload stands for the values of all declared inputs,
so the execution claim (a hash of identity, key and typed inputs) is the pair
`<<key, payload>>`; expressions are tables by payload that may give a value or a
fault; `long long` is the interval `Balance`; an overflow is found leg by leg in
plan order. The trace is represented by its length, which the bounded coordinator
needs. `Coordination` makes a call per step, with any key, payload, verdicts and
authorization. `InconsistentKeyFrozen` quantifies over `SuppliedStates(k)`: the
records for a key that a scenario file may supply and that contradict each other.

**BoundedCoordinator.** `AdmitBounded` and the derived `MaxSteps` and
`MaxStorageSlots`, and `Run`, which evaluates, measures and keeps or rolls back.
`EachInstanceIsAReference` is about one instance, `Watched`, any of them; the others
are what may interfere with it.

**BackendProtocol, BackendSession.** A session is a record; `Consume` is
`Session::consume` with its three routes (raw frame owed, unknown frame, known
message). A frame is a record with what decoding yields; `ok` is false for a
control frame whose body the decoder refuses, a digest is the content itself.
`BackendSession` remembers, beside the session, the chunks streamed for each path since
the last Emit, so that an emission can be compared with them, and counts the requests
begun and ended.

**BackendInvocation.** `invoke()` is a program counter over the places where the
code may block or return; sockets are bounded queues of frames (`Capacity`). A
child follows a program of reads and writes: the `main()` of the packages with
any output, one that refuses, one whose capabilities do not match, the synthetic
backend's cancellable mode, and two other peers the protocol allows. It may stall
or die anywhere. `Tick` lets the current deadline pass. A deadline inside a frame
leaves the rest of it in the socket (`torn`): what is read next may decode to
anything in `Garbage`.

**ArtifactPublication.** A step per system call of `publishImpl`, with what is
visible kept apart from what survives a power loss. `SystemFailure` lets any of
them fail; `ForeignReplace` is another process.

**PostgresTemporal.** A step per statement of the generated functions. A
statement reads what is committed and the call's own writes; a write waits for
another open transaction's write of the same row; a duplicate primary key raises;
`Rollback` is a deadlock victim, a lost connection or a crash. Isolation is READ
COMMITTED, PostgreSQL's default: nothing in the generated SQL asks for more.

**SolidityContracts.** A step per transaction; one that reverts changes nothing. The
plan decides which contract is generated: temporal, single-shot gated by its one
policy, single-shot ungated (anybody may `attest`), or evidence-only. Each policy has
a guard, deployed with any of the `Deployments` its constructor takes. A digest is the
record of what it hashes and recovers its signer; a caller of `accept` submits up to
two signatures, which may be for a digest that differs in one field (chain, guard, key,
claim), short, with a high `s` or with an invalid `v`. Arithmetic is checked at `Width` bits, and
the cast `int256(amount)` wraps. `Fork` changes the chain id. `backed` records whether an
acceptance was what the guard promises; `claim` is `keyClaim` of the temporal contract and
only remembers the call in the others.

**LitAccounting.** The wrapper's run in stages (baseline, git, lit, reports,
verdict), a suite that is edited between any two of them, and a lit of whose
three channels one may be wrong.

**CoreRelease.** A developer edits, commits, configures and builds;
an engineer derives the report, checks a candidate and emits a receipt; a
consumer admits a prefix. Each read of the tree, git, the build directory or the
prefix is a step of its own.

**PressureLoop.** `ValidateObj` is the validator (with `RowCodes` and
`CheckProtocol`); the runner writes a proof per fixture as it goes, and the
register with one rename at the end. A run may refuse at any fixture or be killed,
and be run again in another world.

**Domain modules.** Validators are the set, or the first, of the codes they
refuse with. `DomainFlows` runs the generator (`--emit`, `--check`), the expander
with its two writes, the diagnostics mapper that reads the `.neu` twice, and the
conformance check that reads the artifact three times, while the files change.
The inputs include the defective ones: an edge of any status, a provenance record
of any outcome, a sidecar of any version.

**Generalism modules.** `GeneralismConsume` has the consume proofs twice, as the
runner and as the offline prover judge them; the two share nothing but the specs
and the tools' answers. `GeneralismCells` has the
features, the cells derived for them, and the ratchet. `GeneralismFlows` has the
cells' verdicts, the result envelope, its signature and the gate that reads it; it
writes the result file by file, and lets pull requests edit every committed input.

**GateFlows and its gates.** A gate's module has `CleanTree` (a small tree the
gate admits), `EditsOf(tree)` (what one step of a pull request may change, the
gate's own lists and baselines included), `Evaluate` or `Main` (the codes the
gate reports, in the order of its checks where the order matters), the probes of
its selftest (`ProbeOutcomes`), and two relations that do not look at the gate's
checks: `Sound(tree)`, what the gate is there for, and `Authorized(tree, next)`,
what a merge may change. `GateFlows` edits a branch, has the gate judge it
against main, merges it if the gate finds nothing, and lets the selftest tamper.
What a tree is differs by gate: C++ sources are the facts the gate's scanners
take from them (`SemanticAuthority`: assignments, calls, returns and branches
with the variables they read; `IdiomCensus`: the kinds and types of AST nodes in
order; `AntiInference`: which patterns occur in code and in comments;
`PrinterRegistry`: cases, functions, emitters), JSON documents are records, and a
digest of a file is its content.

`PrinterRegistry!Authorized` names what may pay for a new generated handler: the same
node retired from printing by hand, an executable baseline that falls, or, for handlers
of the comment class alone, a comment that goes. The edits of the run add handlers with
none of these, with a baseline lowered in the same or an earlier pull request, and with a
comment dropped for a handler of either class. A second mutant of `MergeIsAuthorized`
takes a baseline that stands still for one that fell. A kind of a model that is not
primary has a generated printer and no case by hand; the scan of handwritten sites does
not look for those cases, `SecondaryChecks` does.

**ContractBundle, PackRelease.** `Valid` is the JSON Schema validator of
`verify_domain_pack.py`, keyword by keyword, and `FormRules` the dialect the bundle
gate allows it to meet. A tree has the schemas, the generator's constants, the
bundle, the registry of current and historical bundles, two published packs (one
with a public receipt and a scenario, one with a verification receipt and a
feature that one backend lacks), and the release gate's expectations. What the
code generator emits for a source is external (`SpecOf`, `RequirementsOf`,
`Renders`). A pull request may change a schema and rebuild the bundle at the same
version, the next minor or the next major, register it or not, reseal, recoordinate
or repack a pack, and edit any expectation.

## Runs

| Run | Bounds | What it shows |
|---|---|---|
| `eval_temporal` | 2 keys, 6 payloads, 2 quorums with interleaved legs and a comparison group, balances up to 7 | ledger, claims and terminals stay consistent in any order of calls; a key whose supplied records contradict each other is frozen |
| `bounded_settlement` | 2 instances, 2 keys, 3 payloads, balances up to 3; symmetric in keys (one instance is watched) | each instance is a reference evaluator; the derived bound covers every step |
| `backend_session` | 2 requests, 2 paths, 1 artifact, 2 bytes, sequence numbers up to 1 | in any order of frames, an emission is what was streamed for its own request, once |
| `invocation` | outputs below, at and above 2 artifacts and 2 bytes; sockets of 2 frames | success, undisturbed answers, agreement of the two ends, termination of `invoke` |
| `publication` | 3 runs with overlapping outputs, a foreign process that replaces one file, any system call may fail | success is visible and durable; receipts come first; nothing is replaced |
| `realizations` | PostgreSQL: 2 sessions, 1 key, 2 payloads, 3 gated groups, 2 observers and a stranger. Solidity: 2 chain ids, 3 signers, up to 2 signatures a call, words of 4 bits; 1 key, 2 groups and 4 payloads (temporal), 2 keys and up to 5 payloads (the others) | postings are earned; what commits is what the evaluator commits, but for the named exceptions |
| `release_flows` | 2 tests with 4 lit codes, 2 commits and 2 edits; core: 2 commits, 1 edit, 2 releases, 1 tampering | green lit runs tell the truth and keep the ratchet; what is admitted is what one commit produced |
| `repository_flows` | 2 forcing runs, 2 domain edits, 2 tool runs, 2 matrix runs, 3 edits over 2 merges of cells; each gate: 2 pull requests of up to 2 edits | the register, the domain tools, the matrix and eight gates keep their promises over histories |

Every property of these runs has a mutant or two in `PROJECT.json`: a plausible mistake in
one mapped definition that makes TLC report the property violated.

Why the bounds are enough.

* *Evaluator.* Two keys show interference between keys; a call touches one key
  (proved, `OneKeyPerCall`). The six payloads are one for each way a payload can
  behave: good, large enough to overflow when posted twice, mistyped, faulting in a
  compute, with an unresolved party, negative. Two quorums are the fewest that can
  accept in different orders, and a comparison group is one that is not always
  required.
* *PostgreSQL.* Three groups leave one to commit after each of two sessions has
  committed one; two payloads let claims conflict; payload B overflows on the second
  leg of its group.
* *Solidity.* Two observers and a threshold of one or two show a repeated signer, a short
  quorum and one that anybody completes; the constructor meets a repeated observer,
  `address(0)`, a zero threshold and one that cannot be reached. Two keys and two guards
  let a signature be presented where it does not belong. Payload W exceeds the
  evaluator's balances and, cast, a signed word, and its second group the unsigned total.
* *Session, invocation.* Limits of one or two artifacts and two bytes are met exactly
  and exceeded. A two-frame socket is filled by one chunk header and its bytes.
  `MaxRequests` and `MaxSeq` stop the session's counters; no property mentions a
  larger value.
* *Publication.* One run's file stands where another needs a directory, and one
  replacement (`MaxForeign`) may come at any moment.
* *Release flows.* Two tests are enough to lose one while keeping the other, and
  two commits to mix a file of one with a file of the other. Every tool reads in
  several steps and an edit fits between any two of them.
* *Domain flows.* A writer that dies between its two files needs one edit, a reader
  that reads twice or three times needs one between its reads; the second edit
  combines two defects.
* *Pressure loop.* Two runs are one whole run and one that dies over it. The fixture
  lists (`LoopFixtures`) have each kind and each defect, `LoopWorlds` each way the
  tools may answer otherwise than the fixture says.
* *Generalism.* A pull request may combine schema, generator and baseline, hence
  three edits, and a second one builds on what the first merged.
* *Gates.* A bypass takes two edits: the code, and the list, baseline or record that
  excuses it. A second pull request meets what the first left on main: a retired
  entry, a moved baseline, a published version. `EditBound` leaves one edit fewer to
  the second pull request for `inference`, `census` and `packs`, whose trees offer
  the most edits. Floors are scaled with the trees: 3/7/2 for the 12/10/2
  of the anti-inference lists, 2/1 for the curated freeze of 7/3, three registry
  rows for the seven the gate insists on.

Deadlock is checked in the evaluator, coordinator and `realizations` runs, where there
is always somebody who can call. It is switched off for the session (a failed or
closed session consumes no more), the invocation and the publication (they end),
and the flows, whose edits and runs are used up.

Fairness. Only `BackendInvocation` has any: weak fairness of the invoker's thread,
whose every wait is a `poll` or `waitpid` loop with a deadline, and of `Tick`,
since the clock is monotonic. Nothing is assumed of the child, and
`SystemFailure` is outside the fair action, so termination does not rest on a
failure happening. The other modules state safety only: a coordination or a
database makes no progress unless somebody calls it, and no Python tool waits for
another.

### Where the code and its documents disagree

Four runs end in a counterexample. Each states a sentence of the repository.

* `invocation_timeout`: the test `TimeoutIsCancelledBeforeProcessTeardown` says a
  timed-out backend is told. If the deadline passes between a chunk header and
  its bytes, the session refuses the Cancel and the child is killed untold.
* `publication_deep`: `ArtifactPublication.h` 38 promises every entry synced. The
  directories between an artifact's parent and the root are not.
* `postgres_claim`: `test/ir/oracle/accepted_multi_policy.neu` 102 says `execute_`
  refuses a payload whose claim differs from the pinned one. The claim is tested
  once, before posting; when it comes to pin, only the existence of a row is
  tested. Two concurrent calls commit groups of one key for two payloads.
  `CommitIsATransition` of `PostgresTemporal`, in the passing run, says that this race, and the write
  skew that leaves a complete key open until a later call reconciles it, are the
  only ways a committed call differs from the evaluator.
* `gate_relocation`: `check_target_node_registry.py` 305-308 says that moving the
  generated printers into the build tree "is correctly a no-op", since identities do
  not depend on where a printer is. The base's handlers are read from git
  (1428): once a printer has left git, no later pull request passes, one that changes
  nothing included.

Three more were met and have no run.

* `ThresholdQuorumAcceptance.sol.inc` 46-51 says a downstream coordination requires its
  recomputed digest to equal `acceptedExecutionClaim`, so that acceptance of payload A
  never authorizes payload B. Only the temporal contract does; the single-shot and the
  evidence-only contract ask `isAccepted(_k)` (`SolidityTargetNodes.td` 428), so any payload
  may be executed under an accepted key. `PostingsAreEarned` states both rules.

* `docs/spec/COORDINATION_EVALUATOR.md` 72 says a new invocation on a terminal
  coordination is refused (`state.terminal`); `CoordinationEval.cpp` 267 keeps
  terminals per key, and a new key commits.
* `BoundedCoordinator.h` 43 calls `maxSteps` an upper bound on the observations of
  one transition. For an evidence-only plan `BoundedCoordinator.cpp` 52 makes it one
  too small, so such a plan is admitted and every acceptance is then refused. It also
  leaves out the observations of obligations (`CoordinationEval.cpp` 312-333, called at
  635 by single-shot commits): a plan whose effects are all guarded and gated and that has
  an obligation is admitted, and a commit whose every guard holds is refused. The two
  hypotheses of the theorem `StepsAreCovered` exclude exactly these.

### Also seen while modelling

Nothing below is a property of a run, unless it says so. The models follow the
code in each case.

*Coordinator, invoker, publication, packages.* `stateOf` is non-null after a first
call that was refused, although `BoundedCoordinator.h` 82 says "null if it has never
committed". `ArtifactPublicationTest.cpp` 288 and 309 expect a root below a linked
ancestor to be rejected, while `openOutputRoot` follows the links of ancestors and
refuses only a linked root. Neither package's `main()` looks for a Cancel, so "timed
out and was cancelled" is only reached with the synthetic backend.

*Solidity.* An amount of 2^255 or more posts with the opposite sign, since the cast to
`int256` wraps; debit and credit totals still balance. The gated contract demands a
quorum even of a call none of whose postings fires, which the evaluator commits.
Totals and positions are per key and have 256 bits where the evaluator's balances have
64, so the evaluator refuses amounts the contract posts. Once `accepted`, a key whose
acceptance names another payload can never open that group. PostgreSQL may leave a
complete key open; the contract, whose transactions are atomic, never does.

*Core export.* `require_fresh_build` promises a fresh build and compares the
configured header only. The emitter seals empty and setuid artifacts that `admit()`
refuses.

*Pressure loop.* The forcing run overwrites evidence in place, so a later run that
dies leaves the old register beside newer evidence. A failed reduction with an
`unsupported_target` diagnostic ends in a `KeyError`. `atomic_write` uses a fixed
temporary name.

*Domain tools.* `domain_diagnostics.py` 83-89 says the most specific construct wins;
the widest does. The proposal generator's authority ignores license and publicity:
`--check` reports it, `--emit` writes anyway. Two candidate edges with one id are
refused by nobody. `classify` goes by the first accepted provenance record.
`expand_dialect` puts edges of any status into `edgesUsed`. `conform` reads the
artifact three times.

*Generalism.* The runner emits PASS with SILENT cases; the validator says "a passing
profile cannot contain SILENT or BROKEN cases". A missing slot or element makes the
runner abort with a `ValueError` where the offline prover reports a bad entry. The
runner's REFUSED does not consult the control and `prove_witness` does; exit 3 is
accepted by `prove_witness` and not by the runner. Result envelopes of earlier runs
stay in the output directory and still pass the PR-fast gate.

*Intake and projection.* The source-bypass checks look at added lines, and a deleted
file is not a changed path. Some probes of the intake selftest depend on the
committed fixture. At the terminal zero, projection probes are reported as failed
without being run. A retirement record need not name a frozen decision; one outside
the d611 preimage can be undone by dropping it with the decision's return; a
retired anchor may come back under a fresh token declared as an addition.
`group_inverse` does not compare which group lists a posting. A terminal entry can be
removed again. `docs/process` has no inventory file.

*Slots and printers.* `crossOrganization` is never evaluated: only the equality of its
two copies is. An unresolved decision with a stated consequence does not fail the
gate. The slot selftest never restores `_ENVELOPE_SUBSET_OVERRIDE`
(`check_slot_descriptor_bijection.py` 1727-1745, 1915-1936; modelled). Credit for a
comment's retirement can never be granted: one side has qualified names, the other bare
ones (`check_target_node_registry.py` 1722-1729 and 1545-1559). A handwritten site
listed twice is not refused. The ratchet asks for a retirement only when the number of
generated handlers grows (1681): one that takes another's place is not judged, and no
edit of the model replaces one.

*Authority, inference, census.* Type aliases are resolved per file; a helper's result
passed as an argument is not tainted; `?:` locals ignore helpers. A `.cpp` in a backend
directory that no extraction manifest owns is not governed. The reviewed lists are in
the gate's own script. Behaviour-field witnesses are satisfied anywhere in the
contract file. With no census at the base there is no ratchet. A source that no
compiled unit includes is "no governed occurrence". The exemption of emit builders
looks only at where the function came from. USR rows are keyed by base name. Adding a
name to `GENERIC_DRIVER_SYMBOLS`, or giving a file the provider role, takes it out of
the ratchet. Freshness of generated files is tested only when a row of theirs is
classified.

*Bundle and packs.* The selftest's "breaking needs major" uses 1.1.0, below the
committed 1.12.0, and so never meets the major-number check
(`check_core_contract_bundle.py` 571-574). `BUNDLE_VERSION` can be lowered without a
change of surface, and a later pull request can reuse a published version. A schema
listed both as CORE and NON_CORE is not refused. The gate does not check the
`semanticCapabilityRegistry` digest. The verifier says nothing of a bundle
without the vocabulary's or the registry's own schema. Historical bundles are
verified against the current tree's schema files, so changing a pinned schema makes
historical packs with a verification receipt unresolvable. All seven committed
receipts are public ones, for which the bundle registry and the pack verifier are
bypassed, so payload rows and the manifest's canonical digest are not rechecked.
`docs/core-feature-example-matrix.json` is not in the repository. A
`PackResolutionError` in `hydrate` is a traceback in the release gate's `main`.

## Proofs

TLAPS checks the following, for every value of the constants that satisfies the
modules' named assumptions.

| Theorem | Property | Hypothesis |
|---|---|---|
| `CoordinationProofs` | | `PlanAssumption` |
| `TypeCorrect` | `TypeOK`: in particular every balance stays in range | |
| `TerminalExactlyWhenComplete` | `TerminalIffComplete` | |
| `CommitsAreBacked` | `CommitsBackedByClaim` | |
| `OutcomesAreTrue` | `OutcomeContract` | |
| `CommitsStay` | `CommitsAreForever` | |
| `OneKeyPerCall` | `CallsTouchOneKey` | |
| `InconsistentStaysFrozen` | `InconsistentKeyFrozen`, over every supplied state | |
| `LedgerIsCommits` | `LedgerMatchesCommits` | |
| `ValueIsConserved` | `ValueConserved` | the plan is `Balanced`, finitely many accounts |
| of `BoundedCoordinator`: | | and `WatchedAssumption` |
| `HostsReferences` | `EachInstanceIsAReference`, the refinement | |
| `EveryInstanceConserves` | `Conserved`, for each instance's balances | as `ValueIsConserved` |
| `StepsAreCovered` | `StepBoundCovers` | effects; `ObligationsFit`; no operand faults with the bound's own code |
| `RailProofs` | | `PlanAssumption` |
| `PostgresEarned` | `PostgresTemporal`'s `PostingsAreEarned` | `TemporalPlan` |
| `ContractEarned` | `EventsAreEarned` | `ContractPlan` |
| `PostgresConforms` | `CommitIsATransition`, of every step | `TemporalPlan` |
| `ContractConforms` | `CallsAreTransitions` | `ContractPlan`, `WordsSuffice` |
| `RealizationProofs` | | `RailPlans`, the checked plans |
| `RealizationsEarned` | `PostingsAreEarned`, on whichever rail | |
| `RailsConform` | `RailsCommitTransitions`, on whichever rail | |
| `SessionProofs` | | `ProtocolAssumption`, `SessionAssumption` |
| `RequestsAreAnswered` | `EmissionAnswersItsRequest` | |
| `InvocationProofs` | | `ProtocolAssumption`, `InvocationAssumption` |
| `SuccessIsDelivered` | `SuccessMeansDelivered` | |
| `EndsStayTogether` | `EndsAgree` | |
| `AnswersStand` | `UndisturbedAnswer` | |
| `PublicationProofs` | | `PublicationAssumption` |
| `PublicationReplacesNothing` | `NothingIsReplaced` | |
| `SuccessMeansVisible` | `SuccessIsVisible` | |
| `SuccessSurvives` | `SuccessIsDurable` | `Shallow`: paths of one directory at most |
| `OutputsAreAudited` | `NoUnauditedOutput` | `OwnOutputs`: a visible file tells whose it is |
| `RepositoryProofs` | | `LitAssumption`, `ModesAssumption` |
| `GreenTellsTheTruth` | `LitGreenIsTrue` | |
| `RatchetIsHeld` | `LitRatchetHolds` | |
| `TerminalIsEvidence` | `LitTerminalIsReproducible` | |
| `ReceiptsAreOfTheirCommit` | `ReceiptIsOfItsCommit` | |
| `CandidatesAreTheExport` | `CandidateIsTheExport` | |
| `AdmissionsAreReleases` | `AdmittedIsReleased` | |
| `RegisterIsGrounded` | `RegisterRestsOnItsRun` | |
| `RunnerAndValidatorAgree` | `RunnerMeetsValidator` | |
| `CheckIsEarned` | `CheckedProposalIsGrounded` | |
| `ConformanceIsExact` | `ConformantIsExact` | |
| `GateIsHonest` | `GateAdmitsOnlyHonest` | |
| `CoverageIsWitnessed` | `MainCoverageIsWitnessed` | |
| `CoverageIsRatcheted` | `UncoveredNeverGrows`, of every step | |
| `PassesAreJust` | `PassesAreEarned`, runner and prover | |

The hypotheses. `PlanAssumption` is what the plan type and the legality checks give:
effects and policies are sequences, guards and gates name declared policies or
comparisons, the two are disjoint, a plan has effects or policies. `Balanced` is the
multiset test of `assemblePlan` (`CoordinationPlan.cpp` 390-411), which the code makes
for groups declared `balanced`; TLC evaluates it on the plan it checks. Without
`ObligationsFit` `StepsAreCovered` is false: see the disagreement on `maxSteps` above.
Without `Shallow` `SuccessSurvives` is false: run `publication_deep`. `OwnOutputs` is
evaluated by TLC on the checked instance (`MCOwnOutputs`); if two runs put the same
bytes at one path, a visible file does not tell which of their receipts to look for.
`ModesAssumption` says that a file's permission bits, written as octal digits, are at
most 777. `TemporalPlan` says which plans the PostgreSQL rail is generated for: every group
gated, parameters typed, so that an operand can be refused for its sign only;
and `ContractPlan` for which plans, constructor arguments and words a contract is: ABI
types, balanced groups (`CoordinationPlan.cpp` 390-411), one policy that gates every
effect of a single-shot contract (257-297). `WordsSuffice`: a word holds all that a payload
posts, as 256 bits do for amounts of 64 bits, or the payload's amounts are beyond what the
evaluator can add to a balance, which is then the one that refuses. `Realizations` assumes them of the plans it
checks (`RailPlans`), so TLC evaluates them there.
The named assumptions of the other modules are types; `InvocationAssumption`
says besides that payloads are sequences of bytes and outputs sequences of files.

Each invariant below was checked by TLC on its run before it was proved.

**FiniteSums.** The community modules' sums and concatenations are recursive functions
over `CHOOSE`, and the library's induction theorems cannot be instantiated. A fact
about them is proved at a least counterexample: if it failed for some finite set, it
would fail for one of least cardinality (`SizeInduction`, with the predicate as a set),
and one element less gives the contradiction. So `SumTakesOut`, `SumSplits`,
`SumPlus`, `SumBuckets` and `FlattenAppend`, on which the proofs about ledgers and
chunks rest.

**CoordinationProofs.** The inductive invariant is `Inv == TypeOK /\
TerminalIffComplete /\ CommitsBackedByClaim /\ OutcomeContract`. None of the parts is
inductive alone: that a commit leaves a key terminal exactly when complete needs the
earlier commits of that key to have been made for the same payload (`Required` depends
on the payload), and that in turn needs a posted key to have a claim, since admission
compares with the pinned claim only if there is one.

* `TransitionCases` reduces the evaluator, once, to six results: refused, replayed, no
  progress, evidence accepted, single-shot commit, group commit, each with the facts its
  guards established. `TransitionPreserves` and `TransitionEffect` treat one case each.
* The code checks overflow after each leg, while the theorem is about the balances
  after all of them. `LastEffect` and `LastLeg` find the last leg in the order the code
  stages them; the running sums checked there are the final balances.
* `InconsistentStaysFrozen` cannot use `Inv`, which supplied states break. It splits on
  the key: a call for the inconsistent key is refused, a call for another key writes
  that key's entries alone, whatever the records hold.
* `TransitionKeepsLedger` says that what a transition stages is what its commit records
  name afterwards: the legs of a key are split into those posted before and those posted
  now (`LegsSplit`, `GroupsAdd`), and every other key's stay (`PostingKeepsLedger`).
* `GroupsCancel`: in a balanced group the debits and credits of each amount and currency
  are as many as each other, so the deltas of a currency add up to zero value by value
  (`ValueCancels`), group by group. `StagedTotal` carries that to the sum over accounts.

The bounded coordinator: every instance's records satisfy `Inv`'s parts and its ledger.
A step of the host on the watched instance is a `Call` of the reference, one on another
instance or a rolled back one leaves it alone. For the step bound, `StepsFit` counts the
observations of a transition against the derived bound, and the `Own...Code` lemmas
exclude that another refusal is mistaken for the bound's.

**RailProofs.** Nothing a realization stores says by itself that a posting was earned: the
invariants keep what the calls in progress, and the calls that ended, leave behind.

* PostgreSQL (`PostgresInv`, for any number of sessions). The tables agree with each other
  (`TablesOK`). That a commit keeps it so needs to know what the open calls hold, since
  their statements read at different moments: a call has posted the legs of the groups it
  inserted and some of those of the group it is at (`CallOK`); each of these groups was
  accepted for its claim and is in nobody's committed rows (`BackedBy`); and two calls of
  one key hold no group's row both, because the second insert waits (`Apart`). It is
  `Apart` that makes the rows of two racing calls disjoint, and so every leg single.
  What the calls do to the tables happens at `Commit` alone (`ExecuteCommits`); every other
  statement is read off once (`CallSteps`, `GoesOn`).
* Solidity (`ContractInv`). `GuardsOK`: a signature counts only for the digest of this
  chain, guard, key and claim, so the ascending signers are that many observers
  (`QuorumIsBacked`); the cached domain is the current one or is rebuilt (`DomainIsChain`).
  `ContractOK`: the events of a key are its committed legs under its claim, the totals and
  positions their sums. That a call posts nothing twice is not what it checks, it looks at
  the groups or at the status; the invariant ties these to the events (`LegsToPost`,
  `PostsOnce`). Amounts are summed without a bound; the words hold the sums because every
  addition is checked (`KeyTracked`, `TotalsFit`), and a cast amount differs from the amount
  by a multiple of the word (`NetIsSameWord`).

That a realization commits what the evaluator answers is proved from both ends. On the
evaluator's side `Admitted` and `CommitGroupsIs` compute, once, which call is admitted and what
its commit leaves; `TemporalAnswer` and `SingleAnswer` are the result for the states a contract
reads as, `ReferenceCommits` for PostgreSQL's.

* Solidity (`CallsFollow`), from `ContractInv` alone. The evaluator refuses a leg that leaves
  the range of a balance, the contract one whose sum leaves a word; under `WordsSuffice` the
  contract overflows only where the evaluator refuses (`NothingOverflows`). Its check that the
  debits and credits of a key agree never fires, since each group balances (`GroupsAgree`).
  What is left is that the guards the call looks at are those the evaluator requires, and that
  `TemporalFields` and `SingleFields`, the storage after the call, read as the state the
  evaluator leaves (`EvaluatedAfter`).
* PostgreSQL (`CommitsConform`). The statements of a call check and change the tables one by
  one, and the others' commits fall between them; what a check saw must still hold at the
  commit. `CheckedInv` says what does. The legs were posted in the evaluator's order
  (`Ordered`), each within range then, and the balances the call touched nobody else can touch,
  because it holds their rows (`Exclusive`, `KeepsRange`, `RangeIsKept`): so each prefix is in
  range for the evaluator too. The claim it saw is pinned for it, or it holds the row it pins
  (`Claimed`). What it decided about completeness is about the groups it saw, and others may
  have committed more since (`Judged`). Given the verdicts that accept exactly the groups the
  call posted, the evaluator then commits the same (`PostingCommit`); a call that posts
  nothing commits at most that its key is complete (`EmptyCommit`). The exceptions of
  `CommitIsATransition` are the cases in which one of these is not so: the claim was pinned by
  another call meanwhile; the key is complete but was judged open; or the call finds such a
  key and reconciles it.

**RealizationProofs.** A behaviour of the composition is one rail's. `RailInv` is the
invariant of the rail chosen; each rail is an instance of `RailProofs`, whose lemmas hold of
it since `RailPlans` gives the instance its assumptions. `CommitsFollow` reads off the
invariant what a step may commit, which makes the action property a theorem of `Spec`.

**SessionProofs.** The invariant ties the session to the history of chunks: the
artifacts assembled and the one being assembled are the concatenations of the chunks
received for their paths, numbered from zero (`Streamed`); the byte count is the sum of
the lengths and within the limits (`Counted`); a raw frame is owed only where the code
set it up (`Owed`); outside a request nothing is left of one (`Idle`). `Step` reads off
`Consume`, once, what a frame can make of a session.

**InvocationProofs.** What is on the wires to the invoker was written by the child's
program, and stands for no output but that program's (`WiresOK`). The child's program
counter, the invoker's place and the frames under way determine each other unless Cancel
was sent (`Scripted`): so a child that ended cleanly with its session closed has read
the Goodbye, hence has written all (`ChildOK`). What a success rests on accumulates in
`ReportOK`.

The two theorems about exchanges need what the sessions have in common. In the
packages' `main()`s the core and the backend take turns (`Turn`, `SenderOfTurn`), so
`Joint(p)[k]` is what a session is after `k` turns of an exchange with `p`, whichever
end it is at, but for the results its user takes (`Like`).

* `ExchangeInv` says that until something is cancelled or disturbed there is a `k` such
  that the invoker's session is like `Joint(p)[k]`, the child's like `Joint(p)[at - 1]`,
  and the wires hold exactly the turns between the two (`UnderWay`): so both, caught up,
  are like the later of the two, which is `EndsAgree` (`CatchUpLike`). `AnswerAt` keeps
  the answer the invoker is about to give, `TimeOK` that whatever ends an exchange early
  has left its trace in `expired` or `disturbed`. It is inductive together with `IInv`
  (`WholeKeeps`).
* What `Joint` is, is shown file by file: a session assembles the output until a file
  repeats a path or exceeds a limit, and fails there (`RendersFile`, `RenderingJoint`).
  `Course` collects what the steps need of it for the three kinds of package: which turn
  is the answer, which turn if any fails, and that Goodbye closes the rest (`Courses`).
* Both ends refuse by the same function, and the child judges a frame before it writes
  it: a turn that fails never reaches the invoker, which finds the end of the stream
  and an exit that reports a failure (`ChildAt`, `ChildRefused`).

`Joint` and `CaughtUp` are recursive functions; that they exist is proved at a least
counterexample (`RunExists`), as in `FiniteSums`.

**PublicationProofs.** `StepProgress` reads off the actions, once, how a step moves a run;
the rest is about positions.

* A run about to write owns an inode without bytes that no other writer owns, because
  `O_EXCL` made it (`FilesOK`). So a write hits no file that has its bytes. That
  invariant, with where each run stands (`RunsOK`), is `Inv`.
* Success needs three more facts. Names lead to what exists, and the steps of runs lead
  none elsewhere (`NamesOK`). A run that is done has reopened every item of every batch
  (`ChecksOK`). What a run verified is visible or was overtaken (`VerifiedOK`).
  `verified` holds paths, so a path has to tell the item: within a batch by the
  duplicate check, across batches by the reserved names (`PathTellsItem`).
* Durability: what a run has left behind is flushed and its name synced (`SettledOK`,
  `VerifiedSettled`), the directories it reached are synced up to the root
  (`ReachedOK`, `RootOK`).
* Audit: only its own name leads to a file about to be written (`LinksOK`), and a file
  with bytes that are not foreign is an item of a run that came to its batch
  (`OriginOK`); the receipt is the first batch.

**RepositoryProofs.** `FirstOfOk`: if the first failing check of a tool is none, none
fails; `NoneRaised`, the same of a tool that reports all its diagnostics. Each tool's
acceptance is read off its checks. An invariant is one flow's, and a theorem follows for
`FlowSpec` because the other flows are idle while it runs. The theorems hold for any
number of edits, runs and merges. What a file may contain is what the modules list; of
those lists the proofs use little more than the fields of their records, and that the
fixture documents are not empty and of known paths (`FixtureDocuments`).

* Lit. At most one channel lies, and the report is accepted only if the three agree, so
  what it says of failures and of what was executed is true (`AcceptedIsTruthful`).
  `LitInv` keeps, stage by stage, what the wrapper has read and written, and that a
  baseline whose provenance names commit `c` is the one `c + 1` banked (`TerminalOK`).
* Core. `CoreInv` keeps what each tool holds between its reads, whoever acts meanwhile
  (`EngineOK`), and what it may rely on if nobody did (`UndisturbedOK`: the tree is
  clean, the stage is an install of what is built, the commit is HEAD); what a receipt
  says of its stage (`ReleasedOK`); and that an undisturbed admission is against a
  receipt of the producer, each program still to be compared or found equal (`UseOK`).
* Pressure loop. A register is one run's only at the rename; before it, the evidence it
  will rest on is written fixture by fixture, and a repeated id overwrites what an earlier
  row rests on. `EvidenceOK` therefore speaks of the last row with an id, `FinishedOK`
  adds that after the last fixture no id is repeated, and `RegisterOK` keeps the published
  register's run apart from one still going, which is what lets a dying run leave it
  ungrounded but never falsely grounded. `EmittedRowIsRegular` is the meeting of runner and
  validator: the row the runner makes of a sound fixture breaks none of the validator's
  rules but for the tier and the sibling, path by path (`LoopChecks`, `RowRules`).
* Domain tools. A check that passed holds the files it read, so what it accepted is read
  off its validators (`CitesAreCitable` and what follows it) and no edit can touch it. The
  conformance check reads the artifact three times: `IntakeInv` says that while the files
  stood still the three are one, and that an artifact that was admitted is versioned.
* Generalism. `GateInv`: a signed report is over the trace of a result some run emitted,
  and what a run emits counts its own cases (`RunBody`); so the body the gate reads, being
  the trace's, is that run's whatever was mixed on disk. `CoverageInv` needs only that the
  experiments of a tree name a cell and what it perturbs: the gate compares the committed
  baseline with what it computes from schema and cells, and main's coverage is that of the
  tree it compared. The ratchet is the same fact about the base it compared with.
* Judges. Runner and prover make different checks in a different order, so each is turned
  into the set of its conditions (`AcceptedIff`, one lemma per locus and judge), and the
  two sets are equivalent only given what a derivation guarantees: a document that was
  derived carries the value it was asked for, with its mirror, its dropped part and its
  terminal state (`DerivedAsAsked`). `JudgesAgree` collects the loci, for every spec the
  model has of each, and every answer of the consumers and the renderers. The prover's
  comparison of a cell taken as accepted is harmless: both judges have refused any other
  cell by then (`LifecycleAgrees`). `NeuVerdict` reads a pass and a governed refusal off the fifteen
  checks of a `.neu` cell, `WitnessProved` a proved cell off the prover's six.

Only model-checked, and why. `InvocationEnds` is liveness. The properties of `GateFlows`
are about modules some of which are written with recursive operators (`Valid` of
`ContractBundle`, `AntiInference`, `IdiomCensus`), which the prover does not handle.
`OriginIsTrue` is about what the expander's rendering computes, a recursive concatenation
over the lines, and would need induction over data. The
four runs that end in a counterexample state what is false.

## Not modelled

* The frontend, the dialects and their reduction, legality predicates, projections
  and codecs, recipes, the generators of views and facets, and all printers turn one
  input into one output. They keep no state between calls, and their inputs are
  programs, which a bounded check would sample thinly. Expression evaluation enters
  as a table.
* Package verification, and the staging and `fork`/`exec` of a backend, which are one
  step that succeeds or fails.
* How the Solidity provider renders a contract: nodes, printers, validation of the
  target model, the hash of `CoordinationEnvelope.sol.inc`. One guard is deployed per
  policy, as the contract's constructor expects but does not check.
* The evidence-only and single-shot rails of PostgreSQL, and the rendering of SQL.
* Trace equivalence, the envelope, attestation and requirement printers.
* The other gates and generators: scans of one tree without a history (imports, pins,
  names), and the recipe generator, which turns one table into C++.
* Within the gates: version 1 pack manifests; the target registry's recovery
  exceptions (`check_target_node_registry.py` 799-859) and its
  `postgres_schema_carrier_reasons`; the exact-body carve-outs of the semantic
  authority gate.

A digest is the bytes it is of. Signatures are believed as the code believes them.
`PROJECT.json` lists each part with its files.

## Plan

Done: the reference evaluator with its supplied states, the bounded coordinator,
session, invoker, publication, lit accounting, core export and release, the
PostgreSQL temporal rail, the Solidity contracts and their guards, all with proofs; the
pressure loop; the domain tools; the generalism matrix; eight gates; the contract bundle
and the packs.

Proofs.

A gate whose ratchet is set arithmetic, such as `ProjectionLedger`'s retirements, once
the gates with recursive operators are composed apart from the others.

Models, most important first.

1. The PostgreSQL evidence-only and single-shot rails, which share tables with the
   temporal one.
2. Package verification against a changing directory; the recipe session store's
   handles.
3. Trace normalisation and comparison against a reference definition.

## Running

```
tlc -workers 2 -config EvalTemporal.cfg MCCoordination
tlc -workers 2 -config RepositoryFlows.cfg MCRepository
tlc -workers 2 -config ReleaseFlows.cfg RepositoryFlows
tlapm CoordinationProofs.tla
```

The modules with theorems are those whose names end in `Proofs`, and `FiniteSums`.
`PROJECT.json` names the module and the configuration of each run. The longest,
`release_flows` and `repository_flows`, take about two minutes each.
