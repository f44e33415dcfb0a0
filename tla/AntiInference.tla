----------------------------- MODULE AntiInference -----------------------------
(***************************************************************************)
(* The anti-inference gate: scripts/gates/check_anti_inference.py.         *)
(* Semantics are normalized once, into the coordination plan.  Below the   *)
(* waist no source may read the capability spec, the L2 dialect or a       *)
(* domain's name to decide again, and every behaviour-driving field of the *)
(* capability schema has a parse that reads it into the plan.              *)
(*                                                                         *)
(* A source file is the set of things the gate's patterns find in its code *)
(* and in its comments.  The reviewed lists and the inventory are part of  *)
(* the gate's own script, so a pull request may change them too.           *)
(***************************************************************************)
EXTENDS Refusals
LOCAL INSTANCE TLC

Found(code, at) == [code |-> code, at |-> at]
\* The findings of a list of checks that share a place.
At(at, checks) == {Found(c, at) : c \in AllOf(checks)}

Semantic == <<"first effect", "workflow key", "balance discovery", "lifecycle terminal">>
Synthetic == {"alpha", "beta"}
Labels(t) == Synthetic \cup t.domains

FileAt(t, path) == {f \in t.files : f.path = path}
\* The production sources of the backends: what the extraction manifests own, and every header.
GovernedSources(t) == t.owned \cup {f.path : f \in {g \in t.files : g.backend /\ g.header}}
TargetSources(t) == {w.path : w \in {x \in t.targets : x.gated}}
OneWaistSources(t) == GovernedSources(t) \cup t.gate.extra \cup TargetSources(t)

\* The detectors that find something; the first effect may be selected in an allowlisted source as well.
ScanSemantic(gate, code) == {d \in Names(gate.detectors) : d \in code}
JsonFree(f) == "json" \notin f.code
HasLabel(t, f) == f.code \cap Labels(t) # {}

ScanSource(t, f) ==
    At(<<f.path>>, {
       Refuse("inference", ScanSemantic(t.gate, f.code) # {}),
       Refuse("raw spec", f.path \notin t.gate.json /\ ~JsonFree(f)),
       Refuse("upper layer", "L2" \in f.code),
       Refuse("domain label", HasLabel(t, f))})

-----------------------------------------------------------------------------
\* The capability schema is a graph of nodes; a path through it is the list of properties and array steps on it.
Resolve(schema, node) == IF schema[node].ref = "" THEN node ELSE schema[node].ref
RECURSIVE Walk(_, _, _, _, _)
Walk(schema, node, prefix, seen, prune) ==
    LET ref == schema[node].ref
        n == schema[Resolve(schema, node)]
        on == IF ref = "" THEN seen ELSE seen \cup {ref}
        below(p, m) == IF p \in prune THEN {} ELSE Walk(schema, m, p, on, prune)
    IN IF ref # "" /\ ref \in seen THEN {}
       ELSE UNION {{Append(prefix, p[1])} \cup below(Append(prefix, p[1]), p[2]) : p \in n.props}
            \cup (IF prefix \in prune THEN {} ELSE
                    (IF n.items = "" THEN {} ELSE Walk(schema, n.items, Append(prefix, "[]"), on, prune))
                    \cup UNION {Walk(schema, c, prefix, on, prune) : c \in n.combs})

SchemaPaths(t) == Walk(t.schema, "root", <<>>, {}, t.gate.prune)

\* The node a path ends at, "" when it does not exist, its own reference not followed.
RECURSIVE NodeAt(_, _, _)
NodeAt(schema, node, path) ==
    IF path = <<>> THEN node
    ELSE LET n == schema[Resolve(schema, node)]
             next == IF Head(path) = "[]" THEN {n.items} \ {""} ELSE {p[2] : p \in {q \in n.props : q[1] = Head(path)}}
         IN IF next = {} THEN "" ELSE NodeAt(schema, CHOOSE m \in next : TRUE, Tail(path))
RootRef(schema, node) ==
    LET n == schema[node]
    IN IF n.ref # "" THEN n.ref ELSE IF n.items # "" THEN schema[n.items].ref ELSE ""
HasChildSurface(schema, node) ==
    LET n == schema[Resolve(schema, node)] IN n.props # {} \/ n.items # ""

\* A pruned root without a subordinate inventory must be a leaf, and one with it points where it was reviewed.
BindingFails(t) ==
    LET bound == DOMAIN t.gate.bindings IN
    (\E p \in t.gate.prune : NodeAt(t.schema, "root", p) = "")
    \/ bound \ t.gate.prune # {}
    \/ (\E p \in t.gate.prune \ bound : HasChildSurface(t.schema, NodeAt(t.schema, "root", p)))
    \/ (\E p \in t.gate.prune \cap bound :
          /\ t.gate.bindings[p].ref # ""
          /\ RootRef(t.schema, NodeAt(t.schema, "root", p)) # t.gate.bindings[p].ref)
SubcontractPaths(t) ==
    UNION {LET b == t.gate.bindings[p] IN
           IF b.ref # "" THEN Walk(t.schema, b.ref, <<b.alias>>, {b.ref}, {})
           ELSE Walk(t.schema, NodeAt(t.schema, "root", p), <<b.alias>>, {}, {}) : p \in DOMAIN t.gate.bindings}

\* The inventory and the schema name the same paths, and what drives behaviour has its scoped read.
Inventory(paths, roles, codes) ==
    LET classified == {r.path : r \in roles}
    IN {Found(codes.new, p) : p \in paths \ classified} \cup {Found(codes.stale, p) : p \in classified \ paths}
Dropped(t, roles, code) ==
    {Found(code, r.path) : r \in
       {x \in roles : x.role = "normalized" /\ ~\E f \in FileAt(t, x.file) : x.witness \in f.code}}
CheckSubcontract(t) ==
    IF BindingFails(t) THEN {Found("subcontract binding", <<>>)}
    ELSE Inventory(SubcontractPaths(t), t.gate.subroles, [new |-> "subcontract unclassified", stale |-> "subcontract stale"])
         \cup Dropped(t, t.gate.subroles, "subcontract dropped parse")
CheckCompleteness(t) ==
    IF ~t.schemaReads THEN {Found("schema", <<>>)}
    ELSE Inventory(SchemaPaths(t), t.gate.roles, [new |-> "unclassified", stale |-> "stale"])
         \cup (IF \E f \in FileAt(t, t.gate.contract) : "planFromSpec" \in f.code
               THEN Dropped(t, t.gate.roles, "dropped parse") \cup CheckSubcontract(t)
               ELSE {Found("no planFromSpec", <<>>)})

-----------------------------------------------------------------------------
Exempt(gate) == gate.reduction \cup {gate.seam, gate.emit} \cup gate.wrappers \cup gate.sibling
WaistSource(t, f) ==
    LET evaluator == f.path \in t.gate.evaluator IN
    At(<<f.path>>, {
       Refuse("inference", ScanSemantic(t.gate, f.code) # {}),
       Refuse("evaluator spec read", evaluator /\ "decision" \in f.code),
       Refuse("target spec read", f.path \in TargetSources(t) /\ "decision" \in f.code),
       Refuse("evaluator upper layer", evaluator /\ "L2" \in f.code),
       Refuse("domain label", HasLabel(t, f)),
       Refuse("upper layer", f.path \notin Exempt(t.gate) /\ "L2" \in f.code)})
Seam(t) ==
    LET seam == FileAt(t, t.gate.seam) IN
    At(<<t.gate.seam>>, {
       Refuse("seam missing", seam = {}),
       Refuse("seam without planFromSpec", \E f \in seam : "planFromSpec" \notin f.code),
       Refuse("seam bypass", \E f \in seam : "direct render" \in f.code)})
CheckOneWaist(t) ==
    LET sources == OneWaistSources(t)
        stale(f) == JsonFree(f) /\ "SelfEmittedSpec" \notin f.code
    IN At(<<>>, {Refuse("few consumers", Cardinality(sources) < t.gate.floors.consumers)})
       \cup UNION {At(<<p>>, {Refuse("waist source missing", FileAt(t, p) = {})}) : p \in sources}
       \cup UNION {WaistSource(t, f) : f \in {g \in t.files : g.path \in sources}}
       \cup Seam(t)
       \cup UNION {At(<<p>>, {Refuse("sibling missing", FileAt(t, p) = {}),
                              Refuse("sibling stale", \E f \in FileAt(t, p) : stale(f))}) : p \in t.gate.sibling}

Adapters(t) ==
    {f \in t.files : f.path \in GovernedSources(t) \ t.gate.json /\ ~f.header /\ "adapter" \in f.code}
CheckAll(t) ==
    LET governed == GovernedSources(t) IN
    At(<<>>, {Refuse("few governed", Cardinality(governed) < t.gate.floors.governed),
              Refuse("few adapters", Cardinality(Adapters(t)) < t.gate.floors.adapters)})
    \cup UNION {At(<<p>>, {Refuse("governed missing", FileAt(t, p) = {})}) : p \in governed}
    \cup UNION {ScanSource(t, f) : f \in {g \in t.files : g.path \in governed}}
    \cup UNION {At(<<p>>, {Refuse("json entry stale", p \notin governed \/ \E f \in FileAt(t, p) : JsonFree(f))}) : p \in t.gate.json}
    \cup CheckCompleteness(t) \cup CheckOneWaist(t)

-----------------------------------------------------------------------------
\* The pinned fixture carries one of each finding, and two labels of which one is spelled as characters.
FixtureContent(labels, chars, semantics) == [labels |-> labels, chars |-> chars, semantics |-> semantics]
NoFixture == FixtureContent(0, 0, {})
ScanFixture(gate, fixture, pin) ==
    IF ~fixture.present THEN {"fixture missing"}
    ELSE IF fixture.content = NoFixture \/ fixture.content # pin THEN {"fixture empty"}
    ELSE IF Len(gate.detectors) # Len(Semantic) THEN {"fixture undetected"}
    ELSE LET c == fixture.content
             labels == c.labels + c.chars
             found == {Semantic[i] : i \in {j \in DOMAIN Semantic : gate.detectors[j] \in c.semantics}}
         IN AllOf({Refuse("fixture undetected", labels < 2 \/ found # Names(Semantic)),
                   Refuse("fixture unexpected", labels > 2)})

CoreSources(t) == {f \in t.files : f.core}
\* Core sources that a manifest, a test tree or a package vouches for are not scanned; a product's name must be unique.
Generated(t) ==
    {f.path : f \in {g \in CoreSources(t) : g.name \in t.products
                                             /\ ~\E h \in CoreSources(t) \ {g} : h.name = g.name}}
Exclusions(t) ==
    {f.path : f \in {g \in t.files : \/ g.path \in Generated(t) \/ g.test
                                     \/ g.path \in t.owned \/ g.package \in t.packages}}
Included(t) == {f \in CoreSources(t) : f.path \notin Exclusions(t)}
\* extra: exclusions a caller adds, each with whether something vouches for it; labels: the matcher's vocabulary.
CoreReport(t, extra, labels) ==
    LET included == {f \in Included(t) : f.path \notin {x.path : x \in extra}}
        scan(f) == AllOf({
           Refuse("suppressed", "suppress" \in f.code \cup f.comments),
           Refuse("core domain label", f.code \cap labels # {}),
           Refuse("core inference", f.path \in OneWaistSources(t) /\ ScanSemantic(t.gate, f.code) # {})})
    IN AllOf({Refuse("matcher vacuous", labels = {}),
              Refuse("unauthenticated exclusion", \E x \in extra : ~x.authority),
              Refuse("corpus empty", included = {})})
       \cup UNION {scan(f) : f \in included}
       \cup ScanFixture(t.gate, t.fixture, t.gate.pin)
\* The registered run counts only when the record it wrote says that it was executed.
RegisteredReport(t, writes) ==
    CoreReport(t, {}, Labels(t)) \cup AllOf({Refuse("not executed", ~writes)})
Infrastructure ==
    {"fixture missing", "fixture empty", "fixture undetected", "fixture unexpected", "corpus empty", "matcher vacuous",
     "unauthenticated exclusion", "not executed"}
ExitCode(codes) == IF codes = {} THEN 0 ELSE IF codes \cap Infrastructure # {} THEN 2 ELSE 1

Codes(findings) == {f.code : f \in findings}
\* Both legs are registered tests: the boundary over the whole tree, and the core with its fixture.
Evaluate(t) == Codes(CheckAll(t)) \cup (IF ExitCode(RegisteredReport(t, TRUE)) = 0 THEN {} ELSE RegisteredReport(t, TRUE))
\* A single file, scanned as a legalization source that is on no list.
CheckOne(t, code) ==
    AllOf({Refuse("inference", ScanSemantic(t.gate, code) # {}), Refuse("raw spec", "json" \in code),
           Refuse("upper layer", "L2" \in code), Refuse("domain label", code \cap Labels(t) # {})})

-----------------------------------------------------------------------------
File(path, code) ==
    [path |-> path, name |-> path, code |-> code, comments |-> {}, backend |-> FALSE, header |-> FALSE, core |-> TRUE,
     test |-> FALSE, package |-> ""]
Backend(path, code) == [File(path, code) EXCEPT !.backend = TRUE]
Node(props, items) == [ref |-> "", props |-> props, items |-> items, combs |-> {}]
Ref(to) == [ref |-> to, props |-> {}, items |-> "", combs |-> {}]
Leaf == Node({}, "")
\* The effects with their amount, the invariants, and a lifecycle; an operand holds an expression, which holds operands.
Schema ==
    [n \in {"leaf", "spare"} |-> Leaf] @@
    ("root" :> Node({<<"effects", "effects">>, <<"invariants", "invariants">>, <<"lifecycle", "lifecycle">>}, "")) @@
    ("effects" :> Node({}, "effect")) @@ ("effect" :> Node({<<"name", "leaf">>, <<"amount", "amount">>}, "")) @@
    ("amount" :> Ref("operand")) @@ ("operand" :> Node({<<"literal", "leaf">>, <<"expr", "toExpr">>}, "")) @@
    ("toExpr" :> Ref("expr")) @@ ("expr" :> Node({<<"args", "args">>}, "")) @@ ("args" :> Node({}, "arg")) @@
    ("arg" :> Ref("operand")) @@ ("invariants" :> Node({}, "leaf")) @@
    ("lifecycle" :> Node({<<"states", "states">>, <<"instanceKey", "key">>}, "")) @@
    ("states" :> Node({}, "state")) @@ ("state" :> Ref("stateDef")) @@ ("stateDef" :> Node({<<"name", "leaf">>}, "")) @@
    ("key" :> Node({<<"name", "leaf">>}, "")) @@ ("inner" :> Node({<<"name", "leaf">>}, ""))

Role(path, role, file, witness) == [path |-> path, role |-> role, file |-> file, witness |-> witness]
Plan == "CoordinationPlan.cpp"
Reads(path, witness) == Role(path, "normalized", Plan, witness)
Binding(alias, ref) == [alias |-> alias, ref |-> ref]
Amount == <<"effects", "[]", "amount">>
States == <<"lifecycle", "states">>
InstanceKey == <<"lifecycle", "instanceKey">>
\* The inventories: what each path of the schema is, and where a behaviour-driving one is read.
Roles ==
    {Role(<<"effects">>, "structural", "", ""), Reads(<<"effects", "[]", "name">>, "eo.name"), Reads(Amount, "eo.amount"),
     Reads(<<"invariants">>, "spec.invariants"), Role(<<"lifecycle">>, "structural", "", ""), Reads(States, "life.states"),
     Role(InstanceKey, "structural", "", "")}
Subroles ==
    {Reads(<<"operand", "literal">>, "op.literal"), Role(<<"operand", "expr">>, "structural", "", ""),
     Role(<<"operand", "expr", "args">>, "structural", "", ""), Role(<<"state", "name">>, "normalized", "Lifecycle.cpp", "s.name"),
     Role(<<"instanceKey", "name">>, "structural", "", "")}
Bindings ==
    (Amount :> Binding("operand", "operand")) @@ (States :> Binding("state", "stateDef")) @@ (InstanceKey :> Binding("instanceKey", ""))
\* The reviewed lists; floors are the least number of sources, scaled to the model's.
Gate ==
    [detectors |-> Semantic, json |-> {"PostgresSpec.cpp"}, sibling |-> {"PostgresSpec.cpp"}, wrappers |-> {"PostgresTarget.cpp"},
     evaluator |-> {"CoordinationEval.cpp"}, reduction |-> {"L2Reduction.cpp"}, seam |-> "neutrino-gen.cpp", emit |-> "neutrino-emit.cpp",
     contract |-> Plan, extra |-> {"CoordinationEval.cpp", "L2Reduction.cpp", "neutrino-gen.cpp"},
     floors |-> [governed |-> 3, consumers |-> 7, adapters |-> 2], pin |-> FixtureContent(1, 1, Names(Semantic)),
     prune |-> DOMAIN Bindings, bindings |-> Bindings, roles |-> Roles, subroles |-> Subroles]
CleanTree ==
    [gate |-> Gate, owned |-> {"PostgresSpec.cpp", "Postgres.cpp", "Solidity.cpp"}, domains |-> {"lending"},
     targets |-> {[path |-> "PostgresTarget.cpp", gated |-> TRUE]}, products |-> {"Nodes.inc"}, packages |-> {"retail"},
     schema |-> Schema, schemaReads |-> TRUE, fixture |-> [present |-> TRUE, content |-> Gate.pin],
     files |-> {Backend("PostgresSpec.cpp", {"json", "SelfEmittedSpec", "decision"}), Backend("Postgres.cpp", {"adapter"}),
                Backend("Solidity.cpp", {"adapter"}), [Backend("Solidity.h", {}) EXCEPT !.header = TRUE],
                File("PostgresTarget.cpp", {"L2"}), File("CoordinationEval.cpp", {}), File("L2Reduction.cpp", {"L2"}),
                File("neutrino-gen.cpp", {"planFromSpec"}), File("Nodes.inc", {"lending"}), [File("Retail.cpp", {"lending"}) EXCEPT !.package = "retail"],
                [File("Smoke.cpp", {"lending"}) EXCEPT !.test = TRUE],
                File(Plan, {"planFromSpec", "eo.name", "o.name", "eo.amount", "spec.invariants", "life.states", "op.literal"}),
                File("Lifecycle.cpp", {"s.name"})}]

Inject(t, path, code) == [t EXCEPT !.files = {IF f.path = path THEN [f EXCEPT !.code = @ \cup code] ELSE f : f \in @}]
Drop(t, path, code) == [t EXCEPT !.files = {IF f.path = path THEN [f EXCEPT !.code = @ \ code] ELSE f : f \in @}]
Add(t, f) == [t EXCEPT !.files = @ \cup {f}]
Remove(t, path) == [t EXCEPT !.files = {f \in @ : f.path # path}]
Property(t, node, name, to) == [t EXCEPT !.schema[node].props = @ \cup {<<name, to>>}]

\* The core leg's mutations, each reported under its own name.
CoreProbeOutcomes(t) ==
    LET fixture(content) == ScanFixture(t.gate, [present |-> TRUE, content |-> content], content)
        core(f) == [t EXCEPT !.files = f]
        pin == t.gate.pin
    IN {<<ScanFixture(t.gate, [t.fixture EXCEPT !.present = FALSE], pin), "fixture missing">>,
        <<ScanFixture(t.gate, [t.fixture EXCEPT !.content = NoFixture], pin), "fixture empty">>,
        <<fixture([pin EXCEPT !.semantics = @ \ {"first effect"}]), "fixture undetected">>,
        <<fixture([pin EXCEPT !.labels = @ + 1]), "fixture unexpected">>,
        <<CoreReport(core({}), {}, Labels(t)), "corpus empty">>, <<CoreReport(t, {}, {}), "matcher vacuous">>,
        <<CoreReport(core({File("probe.cpp", {})}), {[path |-> "probe.cpp", authority |-> FALSE]}, Labels(t)), "unauthenticated exclusion">>,
        <<CoreReport(core({File("probe.cpp", {"suppress"})}), {}, Labels(t)), "suppressed">>,
        <<RegisteredReport(t, FALSE), "not executed">>}
\* The selftest's injections: into a copied adapter, an allowlisted source, the evaluator, the seam, a reducer, a target.
InjectionOutcomes(t) ==
    LET waist(path, code) == Codes(CheckOneWaist(Inject(t, path, code)))
        adapter(code) == CheckOne(t, {"adapter"} \cup code)
    IN {<<adapter({"json", "first effect"}), "inference">>, <<adapter({"json"}), "raw spec">>, <<adapter({"L2"}), "upper layer">>,
        <<adapter({"alpha"}), "domain label">>, <<Codes(CheckAll(Inject(t, "PostgresSpec.cpp", {"first effect"}))), "inference">>,
        <<waist("CoordinationEval.cpp", {"json", "decision"}), "evaluator spec read">>,
        <<waist(t.gate.seam, {"direct render"}), "seam bypass">>, <<waist("L2Reduction.cpp", {"alpha"}), "domain label">>,
        <<waist("L2Reduction.cpp", {"lending"}), "domain label">>, <<waist("PostgresTarget.cpp", {"beta"}), "domain label">>,
        <<waist("PostgresTarget.cpp", {"json", "decision"}), "target spec read">>}
\* A dropped parse is found without its siblings of the same key, and a new field at any depth is unclassified.
CompletenessTrees(t) ==
    {<<Drop(t, Plan, {w}), "dropped parse">> : w \in {"eo.name", "eo.amount", "spec.invariants", "life.states"}} \cup
    {<<Property(t, "root", "newTop", "leaf"), "unclassified">>, <<Property(t, "effect", "nested", "leaf"), "unclassified">>,
     <<[t EXCEPT !.schema["effect"].combs = {"spare"}, !.schema["spare"].props = {<<"branch", "leaf">>}], "unclassified">>,
     <<Property(t, "operand", "new", "leaf"), "subcontract unclassified">>, <<Property(t, "stateDef", "new", "leaf"), "subcontract unclassified">>,
     <<Property(t, "key", "new", "leaf"), "subcontract unclassified">>,
     <<[Property(t, "spare", "new", "leaf") EXCEPT !.schema["state"].ref = "spare"], "subcontract binding">>}
CompletenessOutcomes(t) ==
    {<<Codes(CheckCompleteness(p[1])), p[2]>> : p \in CompletenessTrees(t)}
    \cup {LET found == {f.at : f \in CheckCompleteness([Drop(t, Plan, {"eo.name"}) EXCEPT !.files = {
                                 IF f.path = Plan THEN [f EXCEPT !.code = @ \cup {"name"}] ELSE f : f \in @}])} IN
           <<IF found = {<<"effects", "[]", "name">>} THEN {"dropped parse"} ELSE {}, "dropped parse">>}
ProbeOutcomes(t) == CoreProbeOutcomes(t) \cup InjectionOutcomes(t) \cup CompletenessOutcomes(t)

\* Pull requests: the selftest's tampering committed, and changes of the sources, the schema, the manifests and the gate.
NewRole(t, role) == [t EXCEPT !.gate.roles = @ \cup {role}]
EditsOf(t) ==
    {p[1] : p \in CompletenessTrees(t)} \cup
    {Inject(t, e[1], e[2]) : e \in
       {<<"PostgresSpec.cpp", {"first effect"}>>, <<"CoordinationEval.cpp", {"decision"}>>, <<"CoordinationEval.cpp", {"L2"}>>,
        <<"neutrino-gen.cpp", {"direct render"}>>, <<"L2Reduction.cpp", {"lending"}>>, <<"PostgresTarget.cpp", {"decision"}>>,
        <<"Lifecycle.cpp", {"alpha"}>>, <<"Solidity.h", {"json"}>>, <<"Postgres.cpp", {"L2"}>>}} \cup
    {Drop(t, e[1], e[2]) : e \in
       {<<"PostgresSpec.cpp", {"json", "SelfEmittedSpec"}>>, <<Plan, {"planFromSpec"}>>, <<"neutrino-gen.cpp", {"planFromSpec"}>>,
        <<"Lifecycle.cpp", {"s.name"}>>, <<"Solidity.cpp", {"adapter"}>>}} \cup
    {Remove(t, p) : p \in {"Postgres.cpp", "L2Reduction.cpp", "neutrino-gen.cpp", "PostgresSpec.cpp", Plan}} \cup
    {[Add(t, Backend("Ledger.cpp", {"json"})) EXCEPT !.owned = @ \cup {"Ledger.cpp"}],
     [Add(t, Backend("Ledger.cpp", {"json"})) EXCEPT !.owned = @ \cup {"Ledger.cpp"}, !.gate.json = @ \cup {"Ledger.cpp"}],
     [t EXCEPT !.owned = @ \ {"Solidity.cpp"}], [t EXCEPT !.targets = @ \cup {[path |-> "SuiTarget.cpp", gated |-> TRUE]}],
     \* A name becomes a domain; a package or a product takes a core file over; a comment switches the gate off.
     [Inject(t, "Lifecycle.cpp", {"billing"}) EXCEPT !.domains = @ \cup {"billing"}], [t EXCEPT !.packages = {}],
     Add(t, [File("copy/Nodes.inc", {}) EXCEPT !.name = "Nodes.inc"]),
     Inject([t EXCEPT !.products = @ \cup {"Lifecycle.cpp"}], "Lifecycle.cpp", {"alpha"}),
     [t EXCEPT !.files = {[f EXCEPT !.comments = {"suppress"}] : f \in @}],
     \* The schema moves on with its inventory and its parse, or without one of them.
     Inject(NewRole(Property(t, "effect", "memo", "leaf"), Reads(<<"effects", "[]", "memo">>, "eo.memo")), Plan, {"eo.memo"}),
     NewRole(Property(t, "effect", "memo", "leaf"), Reads(<<"effects", "[]", "memo">>, "eo.memo")), [t EXCEPT !.schemaReads = FALSE],
     NewRole([t EXCEPT !.schema["effect"].props = {<<"name", "inner">>, <<"amount", "amount">>}], Role(<<"effects", "[]", "name", "name">>, "structural", "", "")),
     [t EXCEPT !.schema["effect"].props = {p \in @ : p[1] # "name"}],
     \* The gate's own lists and patterns change.
     [Drop(t, Plan, {"eo.name"}) EXCEPT !.gate.roles = {IF r.witness = "eo.name" THEN Role(r.path, "structural", "", "") ELSE r : r \in @}],
     [t EXCEPT !.gate.extra = @ \ {"L2Reduction.cpp"}], [t EXCEPT !.gate.prune = @ \cup {<<"lifecycle">>}], [t EXCEPT !.gate.bindings = <<>>],
     [t EXCEPT !.gate.detectors[1] = "nothing"], [t EXCEPT !.gate.detectors = Tail(@)],
     [t EXCEPT !.fixture.content.chars = 0, !.gate.pin.chars = 0], [t EXCEPT !.fixture.content = NoFixture, !.gate.pin = NoFixture]}

\* What the files say, whatever the lists are called: every node a schema reference reaches, and its properties.
Reachable(schema) ==
    LET next(n) == {schema[n].ref, schema[n].items} \cup schema[n].combs \cup {p[2] : p \in schema[n].props}
        within[k \in Nat] == IF k = 0 THEN {"root"} 
                           ELSE LET found == within[k - 1] IN found \cup (UNION {next(n) : n \in found} \ {""})
    IN within[Cardinality(DOMAIN schema)]
Vouched(t, f) == f.test \/ f.package \in t.packages \/ f.path \in t.owned \/ f.name \in t.products
(***************************************************************************)
(* Below the waist nothing but a reviewed reader holds the raw spec, and   *)
(* nobody infers what the plan decided; no core source names a domain that *)
(* no manifest vouches for; every property of the schema, however it is    *)
(* reached, is in an inventory, and what drives behaviour is read by the   *)
(* contract; the detectors find the findings the fixture was written for.  *)
(***************************************************************************)
Sound(t) ==
    /\ \A f \in {g \in t.files : g.path \in t.owned \/ (g.backend /\ g.header)} :
         /\ f.code \cap ({"L2"} \cup Synthetic \cup t.domains \cup Names(Semantic)) = {}
         /\ "json" \in f.code <=> f.path \in t.gate.json
    /\ \A f \in t.files : f.core /\ ~Vouched(t, f) =>
         f.code \cap (Synthetic \cup t.domains) = {} /\ "suppress" \notin f.comments
    /\ \A f \in t.files : f.path \in t.gate.evaluator \cap t.gate.extra => f.code \cap {"decision", "L2"} = {}
    /\ \E f, g \in t.files : f # g /\ {f.path, g.path} \subseteq t.owned /\ "adapter" \in f.code \cap g.code
    /\ \A n \in Reachable(t.schema), p \in UNION {t.schema[m].props : m \in Reachable(t.schema)} :
         p \in t.schema[n].props => \E r \in t.gate.roles \cup t.gate.subroles : r.path[Len(r.path)] = p[1]
    /\ \A r \in t.gate.roles \cup t.gate.subroles : r.role = "normalized" =>
         \E f \in t.files : f.path = r.file /\ r.witness \in f.code
    /\ Names(t.gate.detectors) = Names(Semantic) /\ t.fixture.content.semantics = Names(Semantic)

(***************************************************************************)
(* A field main's contract read into the plan is still read while the      *)
(* schema has it, unless its inventory row says otherwise now; and a core  *)
(* file leaves the scan only to a manifest, a test tree or a package.      *)
(***************************************************************************)
Authorized(t, n) ==
    /\ \A r \in t.gate.roles : r.role = "normalized" /\ NodeAt(n.schema, "root", r.path) # "" =>
         (\E f \in n.files : f.path = r.file /\ r.witness \in f.code) \/ r \notin n.gate.roles
    /\ \A f \in n.files : f.path \in {g.path : g \in Included(t)} => f \in Included(n) \/ Vouched(n, f)
=============================================================================
