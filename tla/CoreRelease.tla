----------------------------- MODULE CoreRelease -----------------------------
(***************************************************************************)
(* A release of the core: a developer edits, commits, configures and       *)
(* builds; a release engineer derives the export report, checks a          *)
(* candidate tree against it and emits the receipt of a staged install; a  *)
(* consumer admits a prefix against a receipt.  Every tool reads the tree, *)
(* git, the build directory or the prefix at several moments, and the      *)
(* others may act in between.                                              *)
(***************************************************************************)
EXTENDS Refusals

-----------------------------------------------------------------------------
(***************************************************************************)
(* The checks of the backend-free core's export and of its release         *)
(* receipt, as operators on what they read:                                *)
(*   scripts/gates/check_core_only_export.py                               *)
(*   scripts/gates/run_core_only_verify.py                                 *)
(*   scripts/release/emit_core_release_receipt.py                          *)
(*   packaging/postgres/scripts/admit_core_receipt.py                      *)
(* A digest over a value is the value; a file is its content, or Absent.   *)
(***************************************************************************)

CONSTANTS
    Files,        \* paths of the source repository
    Required,     \* those every core export must hold (with the schema file)
    Overlays,     \* those the overlay policy adds to the build graph
    Backend,      \* those of a forbidden family or a forbidden shared header
    Artifacts,    \* the programs under bin/
    Platforms     \* build targets

Absent == "absent"
Contents == {"v1", "v2", "rootref"}    \* rootref: names the source root
Present(tree) == {f \in DOMAIN tree : tree[f] # Absent}

ClassifyForbidden(paths) == paths \cap Backend # {}

-----------------------------------------------------------------------------
(***************************************************************************)
(* The source side: overlay policy, manifest, build graph, report.         *)
(***************************************************************************)
LoadOverlayPolicy(tree) ==
    IF Overlays \subseteq Present(tree) THEN Ok ELSE "overlay_missing"

\* The declared shape: non-empty; the C++ ABI lists stay empty.
LoadInstalledExport(manifest) ==
    FirstOf(<<Refuse("installed_manifest", manifest.runtime = {}),
              Refuse("cpp_abi_forbidden", manifest.abi)>>)

AssertCoreExport(paths) ==
    IF Required \subseteq paths THEN Ok ELSE "core_missing"

AssertCoreBuildGraph(graph) ==
    IF ClassifyForbidden(graph) THEN "forbidden_build_graph" ELSE Ok

ConfiguredLibraryClosure(manifest, graph) ==
    IF manifest.targets = graph THEN Ok ELSE "target_closure"

Provenance(tree, graph) == (graph \cap Present(tree)) \cup Overlays

Rows(tree, paths) == [f \in paths |-> tree[f]]

\* The checks of derive_report before it reads the files' identities.
DeriveCode(tree, clean, manifest, graph) ==
    FirstOf(<<
      Refuse("dirty_source", ~clean),
      Refuse(LoadOverlayPolicy(tree), LoadOverlayPolicy(tree) # Ok),
      Refuse(LoadInstalledExport(manifest), LoadInstalledExport(manifest) # Ok),
      Refuse("empty_graph", graph \cap Present(tree) = {}),
      Refuse("core_missing", AssertCoreExport(Provenance(tree, graph)) # Ok),
      Refuse("forbidden_build_graph", AssertCoreBuildGraph(graph) # Ok),
      Refuse("target_closure", ConfiguredLibraryClosure(manifest, graph) # Ok),
      Refuse("forbidden_family", ClassifyForbidden(Provenance(tree, graph)))>>)

ValidateReport(report) ==
    FirstOf(<<Refuse("report_schema", DOMAIN report.files = {}),
              Refuse("manifest_digest", report.digest # report.files)>>)

\* Mutant: files the report does not name go unnoticed.
VerifyWithoutExtras(cand, report) ==
    IF \A f \in DOMAIN report.files : cand[f] = report.files[f] THEN Ok ELSE "stale"

\* verify_tree: the candidate holds exactly the report's rows and no path
\* of the source root.
VerifyTree(cand, report) ==
    LET extra == Present(cand) \ DOMAIN report.files
    IN  FirstOf(<<
          Refuse(ValidateReport(report), ValidateReport(report) # Ok),
          Refuse("missing", ~(DOMAIN report.files \subseteq Present(cand))),
          Refuse("forbidden_family", ClassifyForbidden(extra)),
          Refuse("unreviewed", extra # {}),
          Refuse("forbidden_family", ClassifyForbidden(DOMAIN report.files)),
          Refuse("stale", \E f \in DOMAIN report.files : cand[f] # report.files[f]),
          Refuse("source_fallback", \E f \in Present(cand) : cand[f] = "rootref")>>)

CopyCandidate(tree, report) ==
    [f \in Files |-> IF f \in DOMAIN report.files THEN tree[f] ELSE Absent]

-----------------------------------------------------------------------------
(***************************************************************************)
(* The installed side.  A stage is a map from installed programs to their  *)
(* file: bytes, permission bits and kind; and the set of manifest copies   *)
(* beside them, empty or a single one.                                     *)
(***************************************************************************)
FileIdentity(file) == [sha |-> file.bytes, mode |-> file.mode % 1000]

VerifyInstalledExport(stage, manifest) ==
    FirstOf(<<
      Refuse("installed_closure", DOMAIN stage.bin # manifest.runtime),
      Refuse("installed_build_reference",
             \E a \in DOMAIN stage.bin : stage.bin[a].bytes.rootref)>>)

VerifyInstalledManifestCopy(stage, manifest) ==
    IF stage.manifest = {} THEN "installed_manifest_absent"
    ELSE IF stage.manifest # {manifest} THEN "installed_manifest_drift" ELSE Ok

InstalledInterface(stage, manifest) ==
    FirstOf(<<Refuse("installed_closure", VerifyInstalledExport(stage, manifest) # Ok),
              Refuse("installed_manifest_drift",
                     VerifyInstalledManifestCopy(stage, manifest) # Ok),
              Refuse("non_regular",
                     \E a \in DOMAIN stage.bin : stage.bin[a].kind # "file")>>)

\* runtime_rows: a bijection of declared and installed, then identities.
RuntimeRowsCode(stage, manifest) ==
    FirstOf(<<Refuse("artifact_closure", DOMAIN stage.bin # manifest.runtime),
              Refuse("non_regular",
                     \E a \in DOMAIN stage.bin : stage.bin[a].kind # "file")>>)
RuntimeRows(stage) == [a \in DOMAIN stage.bin |-> FileIdentity(stage.bin[a])]

Seal(body) == [body |-> body, digest |-> body]

ReadBuildIdentity(build) ==
    IF build.sha = 0 THEN "build_identity" ELSE Ok

\* Mutant: any configured identity will do.
AnyConfiguredBuild(build, commit) == ReadBuildIdentity(build)

RequireFreshBuild(build, commit) ==
    IF ReadBuildIdentity(build) # Ok THEN "build_identity"
    ELSE IF build.sha # commit THEN "stale_build" ELSE Ok

RequireOutOfBand(place) ==
    IF place.resolved = "prefix" THEN "prefix_local_output" ELSE Ok

-----------------------------------------------------------------------------
(***************************************************************************)
(* The consumer: admission of a prefix against a receipt.  A receipt's     *)
(* place says where its name lies and what that name resolves to.          *)
(***************************************************************************)
\* Mutant: only where the receipt's name leads to is asked.
ResolvedOnly(place) == IF place.resolved = "prefix" THEN "inside_prefix" ELSE Ok

RefuseInPrefixReceipt(place) ==
    IF "prefix" \in {place.resolved, place.literal} THEN "inside_prefix" ELSE Ok

ValidateReceiptShape(receipt) ==
    FirstOf(<<Refuse("receipt.runtime_artifacts", DOMAIN receipt.body.rows = {})>>)

VerifyReceiptDigest(receipt) ==
    IF receipt.digest = receipt.body THEN Ok ELSE "receipt.digest_mismatch"

\* platform: what the consumer says it runs on, or Absent.
ConsumingPlatform(platform, receipt) ==
    IF platform = Absent THEN "platform.undetermined"
    ELSE IF platform # receipt.body.target THEN "receipt.build_target_mismatch"
    ELSE Ok

DeclaredRuntimePaths(manifest, receipt) ==
    FirstOf(<<
      Refuse("receipt.export_mismatch", manifest # receipt.body.export),
      Refuse("export.runtime_artifacts", manifest.runtime = {}),
      Refuse("receipt.missing_record",
             ~(manifest.runtime \subseteq DOMAIN receipt.body.rows)),
      Refuse("receipt.extra_record",
             ~(DOMAIN receipt.body.rows \subseteq manifest.runtime))>>)

Executable(mode) == mode % 1000 # 644

\* One artifact of the receipt against the prefix.
AdmitArtifact(bin, receipt, a) ==
    IF a \notin DOMAIN bin \/ bin[a].kind # "file"
    THEN "artifact.not_regular_file"
    ELSE FirstOf(<<
      Refuse("artifact.empty", bin[a].bytes.empty),
      Refuse("artifact.mode_mismatch", bin[a].mode # receipt.body.rows[a].mode),
      Refuse("artifact.not_executable", ~Executable(receipt.body.rows[a].mode)),
      Refuse("artifact.digest_mismatch", bin[a].bytes # receipt.body.rows[a].sha)>>)

AdmitReceipt(receipt, place, platform, pin, manifest) ==
    FirstOf(<<
      Refuse("receipt.inside_prefix", RefuseInPrefixReceipt(place) # Ok),
      Refuse("receipt.shape", ValidateReceiptShape(receipt) # Ok),
      Refuse("receipt.digest_mismatch", VerifyReceiptDigest(receipt) # Ok),
      Refuse("receipt.pin_mismatch", pin # {} /\ receipt.digest \notin pin),
      Refuse("platform", ConsumingPlatform(platform, receipt) # Ok),
      Refuse("export", DeclaredRuntimePaths(manifest, receipt) # Ok)>>)

UnrecordedArtifact(bin, receipt) == ~(DOMAIN bin \subseteq DOMAIN receipt.body.rows)

-----------------------------------------------------------------------------
(* Developer, release engineer and consumer                                *)

CONSTANTS
    Modes,     \* the permission bits a build may leave, in octal digits
    MaxCommits, MaxEdits, MaxReleases, MaxTampers

VARIABLES
    repo,      \* tree (contents), manifest, commits, edits
    build,     \* the build directory: configured sha, graph, installs, objects
    eng,       \* the release engineer's tool
    report,    \* the derived report: a set of at most one
    released,  \* emitted receipts with the stage they describe
    use        \* the consumer: prefix and admission

vars == <<repo, build, eng, report, released, use>>

InitSnapshot == [tree |-> [f \in Files |-> "v1"],
                 manifest |-> [runtime |-> Artifacts, abi |-> FALSE,
                               targets |-> Files \ Backend]]
InitRepo == [tree |-> InitSnapshot.tree, manifest |-> InitSnapshot.manifest,
             commits |-> <<InitSnapshot>>, edits |-> 0]
InitBuild == [sha |-> 0, graph |-> {}, installs |-> {}, objects |-> {}]

HeadIndex == Len(repo.commits)
Snapshot == [tree |-> repo.tree, manifest |-> repo.manifest]
Clean == repo.commits[HeadIndex] = Snapshot
Producing == use.prefix = {}
At(tool, pc) == eng.tool = tool /\ eng.pc = pc

NoEngine == [tool |-> "none", pc |-> 0, head |-> 0, rows |-> {}, cand |-> {},
             manifest |-> {}, stage |-> {}, disturbed |-> FALSE, result |-> "none"]
\* A tool ends; what a passed candidate check saw is kept for the properties.
Finish(result) ==
    eng' = IF result = Ok /\ eng.tool = "candidate"
           THEN [eng EXCEPT !.pc = 0, !.result = Ok] ELSE NoEngine
Goto(e) == eng' = [e EXCEPT !.pc = @ + 1]

-----------------------------------------------------------------------------
(***************************************************************************)
(* The developer.                                                          *)
(***************************************************************************)
Disturb == eng' = [eng EXCEPT !.disturbed = @ \/ eng.pc # 0]

Edit ==
    /\ Producing
    /\ repo.edits < MaxEdits
    /\ \/ \E f \in Files \ Backend, c \in Contents :
             /\ c # repo.tree[f]
             /\ repo' = [repo EXCEPT !.tree[f] = c, !.edits = @ + 1]
       \/ \E S \in SUBSET Artifacts :
             /\ S # repo.manifest.runtime
             /\ repo' = [repo EXCEPT !.manifest.runtime = S, !.edits = @ + 1]
    /\ Disturb
    /\ UNCHANGED <<build, report, released, use>>

Commit ==
    /\ Producing
    /\ HeadIndex < MaxCommits /\ ~Clean
    /\ repo' = [repo EXCEPT !.commits = Append(@, Snapshot)]
    /\ Disturb
    /\ UNCHANGED <<build, report, released, use>>

\* cmake: BuildInfo.h gets HEAD; the graph and the install rules are fixed.
Configure ==
    /\ Producing
    /\ build.sha # HeadIndex
    /\ \E g \in {Files \ Backend, Files} :
         build' = [build EXCEPT !.sha = HeadIndex, !.graph = g,
                                !.installs = repo.manifest.runtime]
    /\ Disturb
    /\ UNCHANGED <<repo, report, released, use>>

\* ninja: the objects and programs of the tree as it is, with the
\* configured identity baked in.
Compile ==
    /\ Producing
    /\ build.sha # 0
    /\ \E m \in Modes, e \in BOOLEAN :
         LET objects == {[tree |-> repo.tree, sha |-> build.sha, mode |-> m,
                          empty |-> e /\ m = 755]}
         IN  build.objects # objects /\ build' = [build EXCEPT !.objects = objects]
    /\ Disturb
    /\ UNCHANGED <<repo, report, released, use>>

-----------------------------------------------------------------------------
(***************************************************************************)
(* cmake --install: the built programs, and the manifest of the tree.      *)
(***************************************************************************)
Program(o, a) ==
    [kind |-> "file", mode |-> o.mode,
     bytes |-> [program |-> a, tree |-> o.tree, sha |-> o.sha, empty |-> o.empty,
                rootref |-> \E f \in Files \ Backend : o.tree[f] = "rootref"]]

Install(o) == [bin |-> [a \in build.installs |-> Program(o, a)],
               manifest |-> {repo.manifest}]

\* Bound: the export is checked before the first release only.
Start(tool) ==
    /\ Producing
    /\ eng.pc = 0
    /\ tool = "emit" \/ released = {}
    /\ eng' = [NoEngine EXCEPT !.tool = tool, !.pc = 1]
    /\ UNCHANGED <<repo, build, report, released, use>>

(***************************************************************************)
(* derive_report: git status and the graph; the identities of the files;   *)
(* HEAD and the installed interface.                                       *)
(***************************************************************************)
DeriveBegin ==
    /\ Producing
    /\ At("derive", 1)
    /\ LET code == DeriveCode(repo.tree, Clean, repo.manifest, build.graph)
       IN  IF build.sha = 0 \/ code # Ok THEN Finish(code)
           ELSE Goto([eng EXCEPT !.manifest = {repo.manifest}])
    /\ UNCHANGED <<repo, build, report, released, use>>

DeriveIdentities ==
    /\ Producing
    /\ At("derive", 2)
    /\ Goto([eng EXCEPT !.rows = {Rows(repo.tree, Provenance(repo.tree, build.graph))}])
    /\ UNCHANGED <<repo, build, report, released, use>>

DeriveFinish ==
    /\ Producing
    /\ At("derive", 3)
    /\ \E rows \in eng.rows, manifest \in eng.manifest :
         LET new == [files |-> rows, digest |-> rows, head |-> HeadIndex,
                     disturbed |-> eng.disturbed]
             ok  == /\ build.objects # {}
                    /\ \A o \in build.objects :
                           InstalledInterface(Install(o), manifest) = Ok
                    /\ ValidateReport(new) = Ok
         IN  /\ report' = IF ok THEN {new} ELSE report
             /\ Finish(IF ok THEN Ok ELSE "installed_interface")
    /\ UNCHANGED <<repo, build, released, use>>

(***************************************************************************)
(* check_candidate: the candidate is copied from the source tree, verified *)
(* against the report, built and verified again; the build may leave files *)
(* in the tree.  copied and built are observation only.                    *)
(***************************************************************************)
CandidateCopy ==
    /\ Producing
    /\ At("candidate", 1)
    /\ report # {}
    /\ \E r \in report : Goto([eng EXCEPT !.cand = {CopyCandidate(repo.tree, r)}])
    /\ UNCHANGED <<repo, build, report, released, use>>

CandidateVerify ==
    /\ Producing
    /\ eng.tool = "candidate" /\ eng.pc \in {2, 4}
    /\ \E r \in report, c \in eng.cand :
         IF VerifyTree(c, r) # Ok THEN Finish(VerifyTree(c, r))
         ELSE IF eng.pc = 4 THEN Finish(Ok) ELSE Goto(eng)
    /\ UNCHANGED <<repo, build, report, released, use>>

CandidateBuild ==
    /\ Producing
    /\ At("candidate", 3)
    /\ \E c \in eng.cand :
         \/ /\ Required \subseteq Present(c)
            /\ \E left \in {c} \cup {[c EXCEPT ![f] = "v2"] : f \in Files} :
                  Goto([eng EXCEPT !.cand = {left}])
         \/ Finish("command")
    /\ UNCHANGED <<repo, build, report, released, use>>

\* A receipt is out of band, inside the prefix, or reached through a link;
\* only the out-of-band ones are the producer's.
Places == [literal : {"out", "prefix"}, resolved : {"out", "prefix"}]

(***************************************************************************)
(* emit: the output lies outside the stage, the tree is clean, the build   *)
(* is HEAD's; the install is staged; the rows are taken and written.       *)
(***************************************************************************)
EmitBegin(place) ==
    /\ Producing
    /\ At("emit", 1)
    /\ LET code == FirstOf(<<
             Refuse("prefix_local_output", RequireOutOfBand(place) # Ok),
             Refuse("dirty_source", ~Clean),
             Refuse("build_identity", RequireFreshBuild(build, HeadIndex) # Ok)>>)
       IN  IF code # Ok THEN Finish(code)
           ELSE Goto([eng EXCEPT !.head = HeadIndex])
    /\ UNCHANGED <<repo, build, report, released, use>>

EmitStage ==
    /\ Producing
    /\ At("emit", 2)
    /\ \/ /\ LoadInstalledExport(repo.manifest) = Ok
          /\ \E o \in build.objects :
                Goto([eng EXCEPT !.manifest = {repo.manifest}, !.stage = {Install(o)}])
       \/ Finish("install")      \* no program to install, or a bad manifest
    /\ UNCHANGED <<repo, build, report, released, use>>

EmitWrite ==
    /\ Producing
    /\ At("emit", 3)
    /\ \E s \in eng.stage, m \in eng.manifest, t \in Platforms :
         LET refused == \/ VerifyInstalledManifestCopy(s, repo.manifest) # Ok
                        \/ RuntimeRowsCode(s, m) # Ok
             body == [commit |-> eng.head, target |-> t, export |-> repo.manifest,
                      rows |-> RuntimeRows(s)]
             new == [receipt |-> Seal(body), stage |-> s,
                     of |-> repo.commits[eng.head],
                     rebuilt |-> ~eng.disturbed /\ \A o \in build.objects :
                                     o.tree = repo.tree /\ o.sha = build.sha]
         IN  IF refused THEN Finish("refused") /\ UNCHANGED released
             ELSE /\ Cardinality(released) < MaxReleases
                  /\ released' = released \cup {new}
                  /\ Finish(Ok)
    /\ UNCHANGED <<repo, build, report, use>>

-----------------------------------------------------------------------------
(***************************************************************************)
(* The consumer.                                                           *)
(***************************************************************************)
NoUse == [prefix |-> {}, from |-> {}, tampers |-> 0, pc |-> "idle", todo |-> {},
          receipt |-> {}, platform |-> Absent, place |-> {}, disturbed |-> FALSE]

\* The consumer is another machine: once it unpacks a release, the producer
\* is out of the picture (producing ends, its state is forgotten).
Unpack ==
    /\ Producing /\ eng.pc = 0
    /\ \E r \in released : use' = [NoUse EXCEPT !.prefix = {r.stage}, !.from = {r}]
    /\ repo' = InitRepo /\ build' = InitBuild /\ eng' = NoEngine /\ report' = {}
    /\ UNCHANGED released

\* Somebody mixes another release into the prefix, or changes it.
Tamper ==
    /\ use.tampers < MaxTampers
    /\ \E p \in use.prefix : \E bin \in
           (UNION {{[p.bin EXCEPT ![a] = r.stage.bin[a]] :
                     a \in DOMAIN p.bin \cap DOMAIN r.stage.bin} : r \in released})
           \cup {[p.bin EXCEPT ![a].kind = "link"] : a \in DOMAIN p.bin}
           \cup {[a \in DOMAIN p.bin \ {x} |-> p.bin[a]] : x \in DOMAIN p.bin}
           \cup {[a \in DOMAIN p.bin \cup {"stray"} |->
                    IF a = "stray" THEN [p.bin[x] EXCEPT !.bytes.program = "stray"]
                    ELSE p.bin[a]] : x \in DOMAIN p.bin} :
         /\ bin # p.bin
         /\ use' = [use EXCEPT !.prefix = {[p EXCEPT !.bin = bin]}, !.from = {},
                               !.tampers = @ + 1,
                               !.disturbed = @ \/ use.pc # "idle"]
    /\ UNCHANGED <<repo, build, eng, report, released>>

SelfMade(p) == Seal([commit |-> 1, target |-> CHOOSE t \in Platforms : TRUE,
                     export |-> CHOOSE m \in p.manifest : TRUE,
                     rows |-> [a \in DOMAIN p.bin |-> FileIdentity(p.bin[a])]])

AdmitBegin ==
    /\ use.pc \in {"idle", "refused"}
    /\ \E p \in use.prefix, place \in Places, t \in Platforms \cup {Absent} :
       \E receipt \in IF "prefix" \in {place.literal, place.resolved}
                      THEN {SelfMade(p)} ELSE {r.receipt : r \in released} :
       \E m \in p.manifest :
         LET code == AdmitReceipt(receipt, place, t, {}, m)
         IN  use' = [use EXCEPT !.pc = IF code = Ok THEN "artifacts" ELSE "refused",
                                !.todo = IF code = Ok THEN DOMAIN receipt.body.rows ELSE {},
                                !.receipt = {receipt}, !.platform = t, !.place = {place},
                                !.disturbed = FALSE]
    /\ UNCHANGED <<repo, build, eng, report, released>>

AdmitOne ==
    /\ use.pc = "artifacts" /\ use.todo # {}
    /\ \E a \in use.todo, p \in use.prefix, r \in use.receipt :
         use' = IF AdmitArtifact(p.bin, r, a) = Ok THEN [use EXCEPT !.todo = @ \ {a}]
                ELSE [use EXCEPT !.pc = "refused", !.todo = {}]
    /\ UNCHANGED <<repo, build, eng, report, released>>

AdmitEnd ==
    /\ use.pc = "artifacts" /\ use.todo = {}
    /\ \E p \in use.prefix, r \in use.receipt :
         use' = [use EXCEPT !.pc = IF UnrecordedArtifact(p.bin, r) THEN "refused"
                                   ELSE "admitted"]
    /\ UNCHANGED <<repo, build, eng, report, released>>

-----------------------------------------------------------------------------
Init ==
    /\ repo = InitRepo /\ build = InitBuild /\ eng = NoEngine
    /\ report = {} /\ released = {} /\ use = NoUse

Next ==
    \/ Edit \/ Commit \/ Configure \/ Compile
    \/ \E tool \in {"derive", "candidate", "emit"} : Start(tool)
    \/ DeriveBegin \/ DeriveIdentities \/ DeriveFinish
    \/ CandidateCopy \/ CandidateVerify \/ CandidateBuild
    \/ \E place \in Places : EmitBegin(place)
    \/ EmitStage \/ EmitWrite
    \/ Unpack \/ Tamper \/ AdmitBegin \/ AdmitOne \/ AdmitEnd

Spec == Init /\ [][Next]_vars

-----------------------------------------------------------------------------
(***************************************************************************)
(* A receipt attests to its commit: when the directory was rebuilt since   *)
(* the last edit and configuration and nobody acted while emit ran, the    *)
(* staged programs were compiled from that commit's tree, carry its        *)
(* identity and are the ones its manifest declares.  (Without the rebuild  *)
(* it fails: require_fresh_build reads the configured header, not the      *)
(* programs.)                                                              *)
(***************************************************************************)
ReceiptIsOfItsCommit ==
    \A r \in released : r.rebuilt =>
        /\ DOMAIN r.receipt.body.rows = r.of.manifest.runtime
        /\ \A a \in DOMAIN r.stage.bin :
              /\ r.stage.bin[a].bytes.tree = r.of.tree
              /\ r.stage.bin[a].bytes.sha = r.receipt.body.commit

(***************************************************************************)
(* A report names the tree of its commit, and a candidate that passed      *)
(* check_candidate is, after its build, exactly the reported files, with   *)
(* none of a backend, none that points at the source root and every        *)
(* required one.                                                           *)
(***************************************************************************)
CandidateIsTheExport ==
    /\ \A r \in report :
          r.disturbed \/ \A f \in DOMAIN r.files : r.files[f] = repo.commits[r.head].tree[f]
    /\ eng.result = Ok => \A c \in eng.cand, r \in report :
          /\ Present(c) = DOMAIN r.files /\ \A f \in Present(c) : c[f] = r.files[f]
          /\ Present(c) \cap Backend = {} /\ Required \subseteq Present(c)
          /\ \A f \in Present(c) : c[f] # "rootref"

(***************************************************************************)
(* An admitted prefix that nobody changed during the admission holds       *)
(* exactly the programs of one release of the producer for the consumer's  *)
(* platform, byte for byte and bit for bit up to 0777: no mixture of       *)
(* releases, no stray program, no link, no bit above 0777, and never on    *)
(* the word of a record from inside the prefix.                            *)
(***************************************************************************)
AdmittedIsReleased ==
    use.pc = "admitted" /\ ~use.disturbed =>
        \E r \in released, p \in use.prefix :
            /\ use.receipt = {r.receipt}
            /\ RuntimeRows(p) = RuntimeRows(r.stage)
            /\ \A a \in DOMAIN p.bin : p.bin[a].kind = "file" /\ p.bin[a].mode \in 0..777
            /\ r.receipt.body.target = use.platform

=============================================================================
