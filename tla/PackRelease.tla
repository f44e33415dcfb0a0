------------------------------ MODULE PackRelease ------------------------------
(***************************************************************************)
(* The curated release: scripts/gates/check_m6_curated_example_corpus.py,  *)
(* m6_pack_resolver.py, check_m6_release_gate.py, the domain-pack verifier *)
(* scripts/validators/verify_domain_pack.py and the public receipts of     *)
(* scripts/verify_public_pack_receipt.py, over the contract bundle.  Every *)
(* curated example is hydrated from a published pack, and what the code    *)
(* generator makes of it is compared with the committed expectations.      *)
(*                                                                         *)
(* Two examples: "mint" has a scenario and a public receipt, "timed" has   *)
(* no scenario, needs a feature one backend lacks, and has a verification  *)
(* receipt.  The digest of a manifest is its body.                         *)
(***************************************************************************)
EXTENDS ContractBundle
LOCAL INSTANCE SequencesExt

OrElse(code, next) == IF code # Ok THEN code ELSE next

\* The first refusal of a sequence of stages, each given to the next as a code.
Found(problems) == IF problems = {} THEN Ok ELSE CHOOSE p \in problems : TRUE

\* ---- the code generator (external): what it derives from a source and a profile
SpecOf(source) == Dict("procedure" :> Str(source))
RequirementsOf(source) == IF source \in {"mint", "rebate"} THEN {"transfer"} ELSE {"transfer", "deadline"}
EffectsOf(source) == IF source = "rebate" THEN 2 ELSE 1

-----------------------------------------------------------------------------
\* ---- the curated manifest
Frozen == [examples |-> <<"mint", "timed">>, pairs |-> <<[id |-> "pair-1", a |-> "mint", b |-> "timed"]>>]
Unordered(pair) == {pair.a, pair.b}

CuratedProblems(c) ==
    LET corpus == Names(c.examples)
    IN AllOf({Refuse("unknown field", c.extra # {}), Refuse("canonical bytes", ~c.canonical),
              Refuse("members", Len(c.examples) # Len(Frozen.examples) \/ ~NoDuplicates(c.examples)),
              Refuse("pairs", Len(c.pairs) # Len(Frozen.pairs)),
              Refuse("duplicate pair", \E i, j \in DOMAIN c.pairs :
                         i # j /\ (c.pairs[i].id = c.pairs[j].id \/ Unordered(c.pairs[i]) = Unordered(c.pairs[j]))),
              Refuse("self pair", \E i \in DOMAIN c.pairs : c.pairs[i].a = c.pairs[i].b),
              Refuse("outside pair", \E i \in DOMAIN c.pairs : ~(Unordered(c.pairs[i]) \subseteq corpus)),
              Refuse("freeze", c.examples # Frozen.examples \/ c.pairs # Frozen.pairs),
              Refuse("bijection", DOMAIN c.packs # corpus)})

-----------------------------------------------------------------------------
\* ---- the bundle registry
BundleAt(t, path) == IF path = "current" THEN t.bundle ELSE t.archive[path]

\* Every row is checked before one is selected; there is no fallback.
RegistryProblems(t) ==
    LET rows == t.registry
    IN IF \E i \in DOMAIN rows : rows[i].path \notin {"current"} \cup DOMAIN t.archive THEN {"not a regular bundle"}
       ELSE AllOf({
            Refuse("empty registry", rows = <<>>),
            Refuse("alias", \E i, j \in DOMAIN rows :
                       i # j /\ (rows[i].version = rows[j].version \/ rows[i].digest = rows[j].digest)),
            Refuse("registered tuple", \E i \in DOMAIN rows :
                       LET b == BundleAt(t, rows[i].path)
                       IN b.body.version # rows[i].version \/ b.digest # rows[i].digest \/ b.body # rows[i].digest),
            Refuse("registered bytes", \E i \in DOMAIN rows : BundleAt(t, rows[i].path) # rows[i].file),
            Refuse("current rows", Cardinality({i \in DOMAIN rows : rows[i].status = "current"}) # 1)})

SelectedRows(t, targets) ==
    {i \in DOMAIN t.registry : t.registry[i].version = targets.version /\ t.registry[i].digest = targets.digest}
SelectBundle(t, targets) ==
    OrElse(Found(RegistryProblems(t)), IF SelectedRows(t, targets) = {} THEN "unregistered tuple" ELSE Ok)

-----------------------------------------------------------------------------
\* ---- the domain-pack verifier
\* Schemas are read from the repository and pinned by the bundle the pack targets.
PinnedSchema(t, b, name) ==
    LET row == b.body.contracts[name]
    IN IF row.path \notin DOMAIN t.schemas \/ t.schemas[row.path] # row.sha THEN "pack.digest" ELSE Ok

\* A published file beside the bundle: its bytes, then its schema, then the three places of its version.
PublishedArtifact(t, b, name, contract) ==
    LET row == b.body.published[name]
    IN IF name \notin DOMAIN t.published \/ t.published[name] # row.sha THEN "pack.digest"
       ELSE IF contract \notin DOMAIN b.body.contracts THEN "no schema"
       ELSE OrElse(PinnedSchema(t, b, contract),
            IF t.published[name].profile = row.profile /\ row.profile = b.body.versions.profile THEN Ok
            ELSE "pack.pin_mismatch")

\* A bundle without the vocabulary's contract leaves the vocabulary rejected and says nothing.
VocabularyProblems(t, b) == {PublishedArtifact(t, b, "vocabulary", "semantic-feature-vocabulary")} \ {Ok, "no schema"}
VocabularyHolds(t, b) == PublishedArtifact(t, b, "vocabulary", "semantic-feature-vocabulary") = Ok
CapabilityProblems(t, b) ==
    LET code == PublishedArtifact(t, b, "capabilities", "semantic-capability-registry")
    IN IF code # Ok THEN {code} \ {"no schema"}
       ELSE IF VocabularyHolds(t, b) /\ t.published["capabilities"].ids # t.published["vocabulary"].ids
            THEN {"pack.pin_mismatch"} ELSE {}

\* The same major version and no older tool; every other axis exactly.
PinProblem(axis, want, versions) ==
    CASE axis \notin DOMAIN versions -> "pack.unknown_version"
      [] axis \in DOMAIN versions /\ axis = "version" -> IF versions[axis][1] # want[1] \/ ~NotAbove(want, versions[axis])
                                                             THEN "pack.pin_mismatch" ELSE Ok
      [] axis \in DOMAIN versions /\ axis # "version" -> IF versions[axis] # want THEN "pack.pin_mismatch" ELSE Ok

Normalized(path) == path # "../outside"
Paths(m) == {m.payloads[i].path : i \in DOMAIN m.payloads}
Ordered(m) == \A i, j \in DOMAIN m.payloads : i < j => m.payloads[i].rank < m.payloads[j].rank

\* A target profile's features are in the published vocabulary, under its version.
ProfileProblems(t, b, profile) ==
    IF ~VocabularyHolds(t, b) THEN {}
    ELSE AllOf({Refuse("pack.unknown_semantic_feature", ~(profile.features \subseteq t.published["vocabulary"].ids)),
                Refuse("pack.pin_mismatch", profile.version # t.published["vocabulary"].profile)})

\* The complete inventory of the files, then their bytes, then the contracts they name.
PayloadProblems(t, b, pack) ==
    LET m == pack.manifest.body
        rows == {m.payloads[i] : i \in DOMAIN m.payloads}
        governed == {r \in rows : r.contract # "none"}
        bodyOf(r) == pack.files[r.path]
    IN IF \E r \in rows : ~Normalized(r.path) \/ r.path \in pack.links THEN {"pack.path"}
       ELSE IF Paths(m) # DOMAIN pack.files \/ Cardinality(Paths(m)) # Len(m.payloads) \/ ~Ordered(m)
            THEN {"pack.completeness"}
       ELSE IF \E r \in rows : bodyOf(r) # r.sha THEN {"pack.integrity"}
       ELSE AllOf({Refuse("pack.missing_required",
                          ~(m.required \cap DOMAIN b.body.contracts \subseteq {r.contract : r \in governed})),
                   Refuse("pack.unknown_contract", \E r \in governed : r.contract \notin DOMAIN b.body.contracts)})
            \cup UNION {
                IF PinnedSchema(t, b, r.contract) # Ok THEN {"pack.digest"}
                ELSE IF r.role = "profile" THEN ProfileProblems(t, b, bodyOf(r)[2])
                ELSE LET schema == t.schemas[b.body.contracts[r.contract].path].schema
                     IN AllOf({Refuse("pack.schema", ~Valid(bodyOf(r), schema, schema))}) :
                r \in {g \in governed : g.contract \in DOMAIN b.body.contracts}}

VerifyPack(t, b, pack) ==
    LET m == pack.manifest.body
        before == VocabularyProblems(t, b) \cup CapabilityProblems(t, b)
    IN IF b.digest # b.body THEN {"pack.digest"}
       ELSE IF "domain-pack-v2" \notin DOMAIN b.body.contracts THEN before \cup {"pack.unknown_contract"}
       ELSE IF PinnedSchema(t, b, "domain-pack-v2") # Ok THEN before \cup {"pack.digest"}
       ELSE IF pack.manifest.digest # m THEN before \cup {"pack.integrity"}
       ELSE before
            \cup AllOf({Refuse("pack.bundle_mismatch", m.targets.version # b.body.version),
                        Refuse("pack.digest", m.targets.digest # b.digest),
                        Refuse("pack.missing_required", ~(m.required \subseteq DOMAIN b.body.contracts))})
            \cup ({PinProblem(axis, m.pins[axis], b.body.versions) : axis \in DOMAIN m.pins} \ {Ok})
            \cup PayloadProblems(t, b, pack)

-----------------------------------------------------------------------------
\* ---- the resolver
\* The receipt of a bundled public pack is rebuilt from the manifest's coordinate and the pack's members.
PublicReceipt(t, m) ==
    LET c == t.curated.packs[m]
    IN [kind |-> "public", packId |-> m, packPath |-> c.packPath, packDigest |-> c.packDigest,
        bundleDigest |-> c.bundleDigest,
        members |-> <<t.packs[c.packPath].manifest, t.packs[c.packPath].files>>]

ByRole(m, role) == SelectSeq(m.payloads, LAMBDA r : r.role = role)
RepeatedRole(m) == \E role \in {"spec", "source", "scenario"} : Len(ByRole(m, role)) > 1

ResolvePublic(t, m, receipt) ==
    LET c == t.curated.packs[m]
        pack == t.packs[c.packPath]
    IN IF receipt.packId \notin DOMAIN t.curated.packs THEN "unknown pack"
       ELSE IF t.packs[t.curated.packs[receipt.packId].packPath].links # {} THEN "non-regular member"
       ELSE FirstOf(<<
            Refuse("receipt does not match", receipt # PublicReceipt(t, receipt.packId)),
            Refuse("coordinate", receipt.packId # m),
            Refuse("pack identity", \/ pack.manifest.body.packId # m \/ pack.manifest.digest # c.packDigest
                                    \/ pack.manifest.body.targets.digest # c.bundleDigest),
            Refuse("repeated role", RepeatedRole(pack.manifest.body))>>)

ResolveVerified(t, m, receipt) ==
    LET c == t.curated.packs[m]
        pack == t.packs[c.packPath]
        body == pack.manifest.body
    IN OrElse(FirstOf(<<
           Refuse("receipt kind", receipt.kind # "verification"), Refuse("outcome", receipt.outcome # "VERIFIED"),
           Refuse("receipt bundle", receipt.bundle.digest # c.bundleDigest),
           Refuse("receipt pack", receipt.packDigest # c.packDigest),
           Refuse("manifest identity", pack.manifest.digest # c.packDigest \/ body # c.packDigest),
           Refuse("bundle tuple", receipt.bundle # body.targets)>>),
       OrElse(SelectBundle(t, body.targets),
       OrElse(FirstOf(<<Refuse("member identity", m # body.packId \/ m # receipt.packId)>>),
       LET row == t.registry[CHOOSE i \in SelectedRows(t, body.targets) : TRUE]
       IN OrElse(Found(VerifyPack(t, BundleAt(t, row.path), pack)),
                 IF RepeatedRole(body) THEN "repeated role" ELSE Ok))))

ResolveMember(t, m) ==
    LET receipt == t.receipts[t.curated.packs[m].receiptPath]
    IN IF receipt.kind = "public" THEN ResolvePublic(t, m, receipt) ELSE ResolveVerified(t, m, receipt)

Manifest(t, m) == t.packs[t.curated.packs[m].packPath].manifest.body
Payload(t, m, role) == t.packs[t.curated.packs[m].packPath].files[Head(ByRole(Manifest(t, m), role)).path]
Source(t, m) == Payload(t, m, "source")[2]
HasScenario(t, m) == ByRole(Manifest(t, m), "scenario") # <<>>

\* The first member, in the manifest's order, that is not resolved or lacks a role the gate needs.
Hydrate(t) ==
    FirstOf([i \in DOMAIN t.curated.examples |->
                Refuse("hydrate", ResolveMember(t, t.curated.examples[i]) # Ok)]
            \o [i \in DOMAIN t.curated.examples |->
                LET body == Manifest(t, t.curated.examples[i])
                IN Refuse("missing role", ByRole(body, "spec") = <<>> \/ ByRole(body, "source") = <<>>)])

-----------------------------------------------------------------------------
\* ---- the release gate
GovernedTargets(t) == {t.targets[i].name : i \in {j \in DOMAIN t.targets : t.targets[j].gated /\ ~t.targets[j].scenarioFree}}
Members(t) == Names(t.curated.examples)
ProfileOf(t, target) == t.profiles[CHOOSE i \in DOMAIN t.profiles : t.profiles[i].target = target]

Authorities(t) ==
    LET profiled == {t.profiles[i].target : i \in DOMAIN t.profiles}
    IN FirstOf(<<
       Refuse("vocabulary", t.published["vocabulary"].ids = {}),
       Refuse("target registry", \/ Len(t.targets) < 3 \/ GovernedTargets(t) = {}
                                 \/ \E i, j \in DOMAIN t.targets : i # j /\ t.targets[i].name = t.targets[j].name),
       Refuse("duplicate profile", Cardinality(profiled) # Len(t.profiles)),
       Refuse("invalid profile",
              \E i \in DOMAIN t.profiles : ~(t.profiles[i].features \subseteq t.published["vocabulary"].ids)),
       Refuse("profile drift", profiled # GovernedTargets(t)),
       Refuse("checker drift", t.checkers # GovernedTargets(t))>>)

\* The committed specs are fresh and the requirements cover the vocabulary exactly.
Readable(t) ==
    \A m \in Members(t), role \in {"spec", "source"} :
        Head(ByRole(Manifest(t, m), role)).path \in DOMAIN t.packs[t.curated.packs[m].packPath].files
Requirements(t) ==
    IF ~Readable(t) THEN "unreadable"
    ELSE FirstOf(<<
       Refuse("stale spec", \E m \in Members(t) : Payload(t, m, "spec") # SpecOf(Source(t, m))),
       Refuse("feature coverage",
              UNION {RequirementsOf(Source(t, m)) : m \in Members(t)} # t.published["vocabulary"].ids),
       Refuse("requirement version", t.tool.profile # t.published["vocabulary"].profile)>>)

Supports(t, target, m) == RequirementsOf(Source(t, m)) \subseteq ProfileOf(t, target).features
\* What the generator does: it renders what the profile supports, unless its own legality check is broken.
Renders(t, target, m) == Supports(t, target, m) # (target \in t.broken)

Classification(t, target, m) ==
    IF ~Supports(t, target, m) THEN "source-only-unsupported"
    ELSE IF HasScenario(t, m) THEN "scenario-bearing" ELSE "source-only-supported"

ClassifyBackends(t) ==
    LET cells == GovernedTargets(t) \X Members(t)
    IN FirstOf(<<
       Refuse("profile version", \E target \in GovernedTargets(t) : ProfileOf(t, target).version # t.tool.profile),
       Refuse("limit", \E c \in cells : Supports(t, c[1], c[2]) /\ EffectsOf(Source(t, c[2])) > ProfileOf(t, c[1]).limit),
       Refuse("render failed", \E c \in cells : Supports(t, c[1], c[2]) /\ ~Renders(t, c[1], c[2])),
       Refuse("scenario unsupported", \E c \in cells : ~Supports(t, c[1], c[2]) /\ HasScenario(t, c[2])),
       Refuse("not refused", \E c \in cells : ~Supports(t, c[1], c[2]) /\ Renders(t, c[1], c[2]))>>)

BackendMatrix(targets, members, cells) ==
    AllOf({Refuse("backend matrix", cells # targets \X members)})

\* The measured presence of artifacts agrees with the classification.
CoreMatrix(t, matrix) ==
    FirstOf(<<
       Refuse("matrix members", ~(Members(t) \subseteq DOMAIN matrix)),
       Refuse("matrix targets", \E m \in Members(t) \cap DOMAIN matrix : DOMAIN matrix[m] # GovernedTargets(t)),
       Refuse("matrix outcome",
              \E m \in Members(t) \cap DOMAIN matrix : \E target \in GovernedTargets(t) \cap DOMAIN matrix[m] :
                  matrix[m][target] # (Classification(t, target, m) # "source-only-unsupported"))>>)

\* Each backend's checker reports the classification of every member.
GoldenWitnesses(t) ==
    FirstOf(<<Refuse("golden report",
                     \E target \in GovernedTargets(t) :
                         t.goldens[target] # [m \in Members(t) |-> Classification(t, target, m)])>>)

\* The witness rendered every pair for every target, and its extra obligation changed every render.
PairWitness(t) ==
    FirstOf(<<Refuse("pair witness", t.witness.pairs # Names(t.curated.pairs)),
              Refuse("pair targets", t.witness.targets # GovernedTargets(t)),
              Refuse("mutation witness", t.witness.changed # GovernedTargets(t) \/ ~t.witness.marker)>>)

GateProbes == {"corpus-member", "feature", "pair", "backend-witness", "backend-cell", "matrix-outcome", "mutation",
               "workflow-invocation", "manifest-registration"}
Workflow(invoked) == FirstOf(<<Refuse("workflow", ~invoked)>>)
Registration(rows) ==
    LET own == {i \in DOMAIN rows : rows[i].id = "m6_positive_release"}
    IN FirstOf(<<Refuse("registration", Cardinality(own) # 1),
                 Refuse("tamper set", \E i \in own : rows[i].tamperSet # GateProbes)>>)

ReleaseGate(t) ==
    OrElse(IF CuratedProblems(t.curated) # {} THEN "corpus" ELSE Ok,
    OrElse(Authorities(t), OrElse(Hydrate(t), OrElse(Requirements(t),
    OrElse(ClassifyBackends(t), OrElse(CoreMatrix(t, t.matrix), OrElse(GoldenWitnesses(t), OrElse(PairWitness(t),
    OrElse(Workflow(t.workflow), Registration(t.integrity))))))))))

Evaluate(t, base, resolved) ==
    CheckBundle(t, <<base.bundle>>, resolved) \cup Regeneration(t)
    \cup (IF "vocabulary" \in DOMAIN t.published THEN {ReleaseGate(t)} \ {Ok} ELSE {"vocabulary"})

-----------------------------------------------------------------------------
\* ---- the tree the gates were written for
Row(role, path, rank, sha, contract) == [role |-> role, path |-> path, rank |-> rank, sha |-> sha, contract |-> contract]
PackOf(source, more) ==
    ("spec.json" :> SpecOf(source)) @@ ("source.neu" :> Str(source)) @@ more
RowsOf(files, optional) ==
    <<Row("spec", "spec.json", 1, files["spec.json"], "capability-spec")>> \o optional
    \o <<Row("source", "source.neu", 3, files["source.neu"], "none")>>
ManifestOf(id, b, rows) ==
    Signed([packId |-> id, targets |-> [version |-> b.body.version, digest |-> b.digest],
            pins |-> ("version" :> Version(0, 1)) @@ ("profile" :> 1), required |-> {"capability-spec"}, payloads |-> rows])

RegistryRow(b, path, status) ==
    [version |-> b.body.version, digest |-> b.digest, file |-> b, path |-> path, status |-> status]

\* The chain behind a pack: its rows and manifest, its coordinate, and its receipt.
Resealed(t, path) ==
    LET body == t.packs[path].manifest.body
        rows == [i \in DOMAIN body.payloads |->
                    IF body.payloads[i].path \in DOMAIN t.packs[path].files
                    THEN [body.payloads[i] EXCEPT !.sha = t.packs[path].files[body.payloads[i].path]] ELSE body.payloads[i]]
    IN [t EXCEPT !.packs[path].manifest = Signed([body EXCEPT !.payloads = rows])]
Coordinated(t, path) ==
    LET m == CHOOSE x \in DOMAIN t.curated.packs : t.curated.packs[x].packPath = path
        manifest == t.packs[path].manifest
    IN [t EXCEPT !.curated.packs[m].packDigest = manifest.digest, !.curated.packs[m].bundleDigest = manifest.body.targets.digest]
Receipted(t, m) ==
    LET manifest == t.packs[t.curated.packs[m].packPath].manifest
    IN [t EXCEPT !.receipts[m] =
           IF @.kind = "public" THEN PublicReceipt(t, m)
           ELSE [kind |-> "verification", outcome |-> "VERIFIED", packId |-> m, packDigest |-> manifest.digest,
                 bundle |-> manifest.body.targets]]
Repacked(t, m) == LET path == t.curated.packs[m].packPath IN Receipted(Coordinated(Resealed(t, path), path), m)

CleanRelease ==
    LET contracts == CleanContracts
        scenario == "scenario.json" :> Str("happy path")
        profile == "profile.json" :> <<"profile", [features |-> {"transfer"}, version |-> 1]>>
        mint == PackOf("mint", scenario)
        timed == PackOf("timed", profile)
        governed == {"postgres", "solidity"}
        coordinate(path, receipt) == [packPath |-> path, receiptPath |-> receipt, packDigest |-> <<>>, bundleDigest |-> <<>>]
    IN contracts
       @@ [registry |-> <<RegistryRow(contracts.bundle, "current", "current")>>, archive |-> <<>>,
           packs |-> ("mint-pack" :> [files |-> mint, links |-> {}, manifest |-> ManifestOf("mint", contracts.bundle,
                         RowsOf(mint, <<Row("scenario", "scenario.json", 2, mint["scenario.json"], "none")>>))])
                     @@ ("timed-pack" :> [files |-> timed, links |-> {}, manifest |-> ManifestOf("timed", contracts.bundle,
                         RowsOf(timed, <<Row("profile", "profile.json", 2, timed["profile.json"], "target-profile")>>))]),
           receipts |-> ("mint" :> [kind |-> "public"]) @@ ("timed" :> [kind |-> "verification"]),
           curated |-> [examples |-> Frozen.examples, pairs |-> Frozen.pairs, extra |-> {}, canonical |-> TRUE,
                        packs |-> ("mint" :> coordinate("mint-pack", "mint")) @@ ("timed" :> coordinate("timed-pack", "timed"))],
           targets |-> <<[name |-> "postgres", gated |-> TRUE, scenarioFree |-> FALSE],
                         [name |-> "solidity", gated |-> TRUE, scenarioFree |-> FALSE],
                         [name |-> "capability-spec", gated |-> FALSE, scenarioFree |-> TRUE]>>,
           profiles |-> <<[target |-> "postgres", features |-> {"transfer", "deadline"}, version |-> 1, limit |-> 1],
                          [target |-> "solidity", features |-> {"transfer"}, version |-> 1, limit |-> 1]>>,
           checkers |-> governed, broken |-> {}, workflow |-> TRUE,
           integrity |-> <<[id |-> "m6_positive_release", tamperSet |-> GateProbes]>>,
           witness |-> [pairs |-> Names(Frozen.pairs), targets |-> governed, changed |-> governed, marker |-> TRUE],
           matrix |-> <<>>, goldens |-> <<>>]

\* The expectations that are written down from what the generator does.
Measured(t) ==
    [t EXCEPT !.matrix = [m \in Members(t) |-> [target \in GovernedTargets(t) |-> Renders(t, target, m)]],
              !.goldens = [target \in GovernedTargets(t) |-> [m \in Members(t) |-> Classification(t, target, m)]]]
CleanTree == Measured(Repacked(Repacked(CleanRelease, "mint"), "timed"))

-----------------------------------------------------------------------------
\* ---- pull requests
\* The current bundle is archived as historical and the rebuilt one registered in its place.
Registered(t) ==
    LET i == Len(t.registry)
        old == t.registry[i]
        kept == [t.registry EXCEPT ![i].path = "historical", ![i].status = "historical"]
    IN IF i = 0 \/ old.file = t.bundle THEN t
       ELSE [t EXCEPT !.registry = Append(kept, RegistryRow(t.bundle, "current", "current")),
                      !.archive = ("historical" :> old.file) @@ @]

\* A pack targets the committed bundle.
Retargeted(t, m) ==
    LET path == t.curated.packs[m].packPath
    IN [t EXCEPT !.packs[path].manifest.body.targets = [version |-> t.bundle.body.version, digest |-> t.bundle.digest],
                 !.packs[path].manifest.body.pins = [axis \in DOMAIN @ |-> t.tool[axis]]]

\* A source changes, with its spec or without; the two sources of an example differ in what they require.
Revised(m) == IF m = "mint" THEN {"rebate", "late"} ELSE {"late", "mint"}
SourceEdits(t, m) ==
    LET path == t.curated.packs[m].packPath
        source(text) == [t EXCEPT !.packs[path].files["source.neu"] = Str(text)]
    IN {source(text) : text \in Revised(m)}
       \cup {[source(text) EXCEPT !.packs[path].files["spec.json"] = SpecOf(text)] : text \in Revised(m)}

FileEdits(t, m) ==
    LET path == t.curated.packs[m].packPath
        dropped == SelectSeq(t.packs[path].manifest.body.payloads, LAMBDA r : r.role \in {"spec", "source"})
        payloads(rows) == [t EXCEPT !.packs[path].manifest.body.payloads = rows]
        old == t.packs[path].manifest.body.payloads
    IN {[t EXCEPT !.packs[path].files = ("notes.txt" :> Str("extra")) @@ @],
        [t EXCEPT !.packs[path].links = {"spec.json"}],
        [t EXCEPT !.packs[path].files["spec.json"] = Dict("steps" :> Str("none"))],
        payloads(dropped), payloads(old \o <<Head(old)>>), payloads([old EXCEPT ![1].contract = "unheard-of"]),
        payloads([old EXCEPT ![1].path = "../outside"]), payloads([old EXCEPT ![1].contract = "none"]),
        [t EXCEPT !.packs[path].manifest.body.packId = "other"],
        [t EXCEPT !.packs[path].manifest.body.pins["version"] = Version(0, 2)],
        [t EXCEPT !.packs[path].manifest.body.required = {"capability-spec", "unheard-of"}]}
       \cup (IF "profile.json" \in DOMAIN t.packs[path].files
             THEN {[t EXCEPT !.packs[path].files["profile.json"] = <<"profile", [features |-> {"escrow"}, version |-> 1]>>]}
             ELSE {})

PackEdits(t) ==
    UNION {LET changed == SourceEdits(t, m) \cup FileEdits(t, m) \cup {Retargeted(t, m)}
               path == t.curated.packs[m].packPath
           IN changed \cup {Repacked(c, m) : c \in changed} \cup {Resealed(c, path) : c \in SourceEdits(t, m)}
              \cup {Repacked(t, m), Receipted(t, m),
                     [t EXCEPT !.curated.packs[m].receiptPath = IF m = "mint" THEN "timed" ELSE "mint"]} :
           m \in Names(Frozen.examples) \cap DOMAIN t.curated.packs}
    \cup (IF "timed" \in DOMAIN t.receipts
          THEN {[t EXCEPT !.receipts["timed"].kind = "binding"], [t EXCEPT !.receipts["timed"].outcome = "REJECTED"],
                [t EXCEPT !.receipts["timed"].packId = "mint"]}
          ELSE {})

RegistryEdits(t) ==
    LET first == t.registry[1]
        forged == Signed([first.file.body EXCEPT !.compatibility.policy = "forged"])
    IN IF t.registry = <<>> THEN {}
       ELSE {[t EXCEPT !.registry = <<>>], [t EXCEPT !.registry[1].version = Version(9, 9)],
        [t EXCEPT !.registry[1].path = "nowhere"], [t EXCEPT !.registry[1].status = "historical"],
        [t EXCEPT !.registry = Append(@, [first EXCEPT !.status = "historical"])]}
       \cup (IF first.path = "historical"
             THEN {[t EXCEPT !.archive["historical"].body.compatibility.policy = "forged"],
                   [t EXCEPT !.archive["historical"] = forged, !.registry[1] = RegistryRow(forged, "historical", "historical")],
                   [t EXCEPT !.registry = Tail(@), !.archive = <<>>]}
             ELSE {})

\* The tampered manifests of the corpus gate's probes, each with its code.
CorpusProbes(c) ==
    LET pair == c.pairs[1]
    IN {<<[c EXCEPT !.examples = Front(@)], "members">>, <<[c EXCEPT !.pairs[1].a = pair.b, !.pairs[1].b = pair.a], "freeze">>,
        <<[c EXCEPT !.extra = {"unexpected"}], "unknown field">>, <<[c EXCEPT !.packs = Without(@, "mint")], "bijection">>,
        <<[c EXCEPT !.pairs[1].a = "elsewhere"], "outside pair">>, <<[c EXCEPT !.pairs[1].a = pair.b], "self pair">>,
        <<[c EXCEPT !.pairs = Append(@, [id |-> "pair-2", a |-> pair.b, b |-> pair.a])], "duplicate pair">>,
        <<[c EXCEPT !.canonical = FALSE], "canonical bytes">>}

ReleaseEdits(t) ==
    {[t EXCEPT !.curated = p[1]] : p \in CorpusProbes(t.curated)}
    \cup (IF CuratedProblems(t.curated) = {} /\ Authorities(t) = Ok /\ Hydrate(t) = Ok /\ Readable(t) THEN {Measured(t)} ELSE {})
    \cup {[t EXCEPT !.targets = Append(@, [name |-> "rollup", gated |-> TRUE, scenarioFree |-> FALSE])],
          [t EXCEPT !.targets = Tail(@)], [t EXCEPT !.targets[2].name = "postgres"],
          [t EXCEPT !.profiles = Append(@, @[1])], [t EXCEPT !.profiles[2].features = {"transfer", "deadline"}],
          [t EXCEPT !.profiles[1].features = {"transfer"}], [t EXCEPT !.profiles[1].features = {"deadline"}],
          [t EXCEPT !.profiles[1].features = @ \cup {"escrow"}], [t EXCEPT !.profiles[1].version = 2],
          [t EXCEPT !.profiles[1].limit = 0], [t EXCEPT !.checkers = {"postgres"}], [t EXCEPT !.broken = {"solidity"}],
          [t EXCEPT !.broken = {"postgres"}], [t EXCEPT !.workflow = FALSE], [t EXCEPT !.integrity = <<>>],
          [t EXCEPT !.integrity = <<[id |-> "m6_positive_release", tamperSet |-> {"pair"}]>>], [t EXCEPT !.witness.pairs = {}],
          [t EXCEPT !.witness.targets = {"postgres"}], [t EXCEPT !.witness.changed = {"postgres"}],
          [t EXCEPT !.witness.marker = FALSE], [t EXCEPT !.goldens["solidity"]["timed"] = "source-only-supported"]}

\* A bundle is registered with the change, or only rebuilt or tampered with.
EditsOf(t) ==
    {Registered(c) : c \in ContractEdits(t)} \cup BundleTampers(t) \cup {Rebuilt(t)}
    \cup PackEdits(t) \cup RegistryEdits(t) \cup ReleaseEdits(t)

-----------------------------------------------------------------------------
\* The matrix probe withdraws the artifacts of a source-only member that has some.
MatrixProbe(t) == CoreMatrix(t, [t.matrix EXCEPT !["timed"]["postgres"] = FALSE])
ProbeOutcomes(t) ==
    BundleProbes(t) \cup ValidatorOutcomes
    \cup {<<CuratedProblems(p[1]), p[2]>> : p \in CorpusProbes(t.curated)}
    \cup LET targets == GovernedTargets(t)
             members == Members(t)
             cells == targets \X members
             profiled == {t.profiles[i].target : i \in DOMAIN t.profiles}
         IN {<<BackendMatrix(targets, Names(Front(t.curated.examples)), cells), "backend matrix">>,
             <<BackendMatrix(targets, members, cells \ {<<"solidity", "timed">>}), "backend matrix">>,
             <<{MatrixProbe(t)}, "matrix outcome">>, <<{Workflow(FALSE)}, "workflow">>,
             <<{Registration(<<>>)}, "registration">>,
             <<{Authorities([t EXCEPT !.targets = Append(@, [name |-> "synthetic", gated |-> TRUE, scenarioFree |-> FALSE])])},
               "profile drift">>,
             <<{PairWitness([t EXCEPT !.witness.marker = FALSE])}, "mutation witness">>,
             <<{PairWitness([t EXCEPT !.witness.targets = {}])}, "pair targets">>,
             <<{Requirements([t EXCEPT !.published["vocabulary"].ids = @ \cup {"synthetic"}])}, "feature coverage">>}

(***************************************************************************)
(* The release rests on what is published.  The bundle says what its files *)
(* say.  Every example's spec is the one its source gives; together they   *)
(* need every feature of the vocabulary and no other; a backend renders an *)
(* example exactly when its profile supports it, and the matrix says so.   *)
(* A pack with a verification receipt is complete, unmodified and checked  *)
(* against a registered bundle whose schemas are still those in the tree;  *)
(* a bundled pack is, byte for byte, the one its receipt was made for.     *)
(***************************************************************************)
PackSound(t, m) ==
    LET pack == t.packs[t.curated.packs[m].packPath]
        receipt == t.receipts[t.curated.packs[m].receiptPath]
        body == pack.manifest.body
    IN /\ body.packId = m /\ receipt.packId = m /\ pack.links = {}
       /\ pack.manifest.digest = t.curated.packs[m].packDigest /\ receipt.packDigest = pack.manifest.digest
       /\ receipt.kind = "public" => receipt.members = <<pack.manifest, pack.files>>
       /\ receipt.kind = "verification" =>
            /\ Paths(body) = DOMAIN pack.files
            /\ \A i \in DOMAIN body.payloads : body.payloads[i].sha = pack.files[body.payloads[i].path]
            /\ \E i \in DOMAIN t.registry :
                 LET b == BundleAt(t, t.registry[i].path)
                 IN /\ b.body = body.targets.digest /\ b.body.version = body.targets.version
                    /\ t.schemas["capability-spec"] = b.body.contracts["capability-spec"].sha
                    /\ LET schema == t.schemas["capability-spec"].schema IN Valid(Payload(t, m, "spec"), schema, schema)

Sound(t) ==
    /\ ContractsSound(t)
    /\ t.curated.examples = Frozen.examples /\ t.curated.pairs = Frozen.pairs
    /\ \A m \in Members(t) : PackSound(t, m) /\ Payload(t, m, "spec") = SpecOf(Source(t, m))
    /\ UNION {RequirementsOf(Source(t, m)) : m \in Members(t)} = t.published["vocabulary"].ids
    /\ \A target \in GovernedTargets(t), m \in Members(t) :
         t.matrix[m][target] = Renders(t, target, m) /\ Renders(t, target, m) = Supports(t, target, m)

Authorized(t, n) == ContractsAuthorized(t, n) /\ t.curated.examples = n.curated.examples
=============================================================================
