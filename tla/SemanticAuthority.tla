---------------------------- MODULE SemanticAuthority ----------------------------
(***************************************************************************)
(* The semantic-authority gate: scripts/gates/check_semantic_authority.py. *)
(* Below the waist no handwritten code of a backend may read the plan or   *)
(* decide on what the projection says; the decision is taken above, and    *)
(* the backend realizes it.                                                *)
(*                                                                         *)
(* A C++ file is what the gate's scanners take from it: the type aliases,  *)
(* and per function its parameters and the assignments, calls, returns and *)
(* branches of its body, in order.  An expression is the variables it      *)
(* reads a field of, whether a field is a semantic one, its identifiers    *)
(* and the functions it calls.                                             *)
(***************************************************************************)
EXTENDS Refusals
LOCAL INSTANCE SequencesExt

Expr(of, semantic, names, calls) == [of |-> of, semantic |-> semantic, names |-> names \cup of, calls |-> calls]
Stmt(kind, name, exprs, effect) == [kind |-> kind, name |-> name, exprs |-> exprs, effect |-> effect]
Assign(v, e) == Stmt("assign", v, <<e>>, "none")
Call(g, args) == Stmt("call", g, args, "none")
Return(e) == Stmt("return", "", <<e>>, "none")
\* form: if, ?: or projection_driver::when/choose/require; effect: what the controlled statement does.
Branch(form, e, effect) == Stmt(form, "", <<e>>, effect)
BranchForms == {"if", "?", "wrapper"}

\* Everything reachable from start along a set of pairs.
Reached(start, pairs) ==
    LET within[k \in 0 .. Cardinality(pairs)] ==
          IF k = 0 THEN start
          ELSE LET found == within[k - 1] IN found \cup {p[2] : p \in {q \in pairs : q[1] \in found}}
    IN within[Cardinality(pairs)]

Statements(fn) == Names(fn.body)
Exprs(fn) == UNION {Names(s.exprs) : s \in Statements(fn)}
Calls(fn) == UNION {e.calls : e \in Exprs(fn)} \cup {s.name : s \in {x \in Statements(fn) : x.kind = "call"}}
Before(fn, i) == {fn.body[j] : j \in 1 .. i - 1}

\* Type names are resolved within a file: its own using and typedef chains.
TypeNames(f, base) == Reached(base, {<<a[2], a[1]>> : a \in f.aliases})
\* Parameters of one of the types, and the locals that are auto aliases of them.
VarsOf(f, types) ==
    LET typed == UNION {{p.name : p \in {q \in Names(fn.params) : q.type \in types}} : fn \in f.fns}
        autos == UNION {UNION {{<<n, s.name>> : n \in s.exprs[1].names} : s \in {x \in Statements(fn) : x.kind = "auto"}} : fn \in f.fns}
    IN Reached(typed, autos)
PlanVars(f) == VarsOf(f, TypeNames(f, {"plan"}))
ProjectionVars(f) == VarsOf(f, TypeNames(f, {"projection", "plan"}))
Surface(f) ==
    \/ \E a \in f.aliases : a[2] \in {"plan", "projection"}
    \/ \E fn \in f.fns : \E p \in Names(fn.params) : p.type \in {"plan", "projection"}

Assignments(stmts) == {s \in stmts : s.kind = "assign"}
Flow(stmts) == UNION {{<<n, s.name>> : n \in s.exprs[1].names} : s \in Assignments(stmts)}
\* Locals that carry a semantic value, by a field, a helper or another such local, or by a seeded parameter.
TaintedLocals(stmts, helpers, seeds) ==
    Reached(seeds \cup {s.name : s \in {x \in Assignments(stmts) :
                                          x.exprs[1].semantic \/ x.exprs[1].calls \cap helpers # {}}},
            Flow(stmts))
\* Locals that carry any field of the projection.
ProjectionLocals(stmts, vars, seeds) ==
    Reached(seeds \cup {s.name : s \in {x \in Assignments(stmts) : x.exprs[1].of \cap vars # {}}}, Flow(stmts))

\* Functions that read a semantic field, or call one that does.
SemanticHelpers(files) ==
    LET fns == UNION {f.fns : f \in files}
    IN Reached({fn.name : fn \in {g \in fns : \E e \in Exprs(g) : e.semantic}},
               UNION {{<<c, fn.name>> : c \in Calls(fn)} : fn \in fns})

\* Functions that return a field of the projection, or what one that does returns.
ReturnHelpers(files) ==
    LET returns == UNION {UNION {{[file |-> f, fn |-> fn, e |-> fn.body[i].exprs[1], before |-> Before(fn, i)] :
                                    i \in {j \in DOMAIN fn.body : fn.body[j].kind = "return"}} : fn \in f.fns} : f \in files}
        direct(r) ==
            LET vars == ProjectionVars(r.file)
            IN r.e.of \cap vars # {} \/ r.e.names \cap ProjectionLocals(r.before, vars, {}) # {}
    IN Reached({r.fn.name : r \in {x \in returns : direct(x)}}, UNION {{<<c, r.fn.name>> : c \in r.e.calls} : r \in returns})

\* Each argument of a call with the parameter it is bound to, in every function of that name.
Bindings(files) ==
    LET sites == UNION {UNION {{[file |-> f, fn |-> fn, call |-> fn.body[i], before |-> Before(fn, i)] :
                                  i \in {j \in DOMAIN fn.body : fn.body[j].kind = "call"}} : fn \in f.fns} : f \in files}
        bound(s, g, h) == {[file |-> s.file, fn |-> s.fn, before |-> s.before, arg |-> s.call.exprs[j],
                            to |-> <<g.name, h.name, h.params[j].name>>] :
                              j \in DOMAIN s.call.exprs \cap DOMAIN h.params}
    IN UNION {UNION {UNION {bound(s, g, h) : h \in {x \in g.fns : x.name = s.call.name}} : g \in files} : s \in sites}

\* Parameters a caller binds to a field of the projection, or to a local or a parameter that carries one.
TaintedParameters(files) ==
    LET carries(b, seeds, vars) == b.arg.of \cap vars # {} \/ b.arg.names \cap ProjectionLocals(b.before, vars, seeds) # {}
        bs == Bindings(files)
    IN Reached({b.to : b \in {x \in bs : carries(x, {}, ProjectionVars(x.file))}},
               UNION {{<<<<b.file.name, b.fn.name, p.name>>, b.to>> :
                         p \in {q \in Names(b.fn.params) : carries(b, {q.name}, {})}} : b \in bs})

\* A condition that depends on the semantics must only guard a refusal; a branch on a seeded parameter
\* may also compute, as long as it neither emits nor decides what is returned, text excepted.
ControlUse(s, locals, helpers, seeds, text) ==
    LET e == s.exprs[1]
    IN /\ e.semantic \/ e.names \cap locals # {} \/ e.calls \cap helpers # {}
       /\ s.effect # "refuse"
       /\ \/ seeds = {} \/ s.kind = "wrapper" \/ e.semantic
          \/ s.effect \in {"append", "leave", "call"}
          \/ s.effect = "value" /\ ~text

Finding(class, f, symbol) == [class |-> class, file |-> f.name, symbol |-> symbol]

\* The findings of one function, given the taint of its backend; a target adapter only frames.
ScanFunction(f, fn, helpers, returned, tainted) ==
    LET adapter == f.root = "targets"
        known == IF adapter THEN returned ELSE helpers
        seeds == {t[3] : t \in {x \in tainted : x[1] = f.name /\ x[2] = fn.name}}
        carriers == {p.name : p \in {q \in Names(fn.params) : q.type = "carrier"}}
        sources == {p.name : p \in {q \in Names(fn.params) : q.type = "source"}}
        locals(i) == TaintedLocals(Before(fn, i), IF fn.body[i].kind = "?" THEN {} ELSE known, seeds)
    IN {Finding(c.code, f, fn.name) : c \in {d \in {
          Refuse("direct-plan-read", ~adapter /\ \E e \in Exprs(fn) : e.of \cap PlanVars(f) # {}),
          Refuse("direct-plan-read", Surface(f) /\ ~adapter /\ \E e \in Exprs(fn) : e.of \cap carriers # {}),
          Refuse("source-or-l2-read", \E e \in Exprs(fn) : e.semantic /\ e.of \cap sources # {}),
          Refuse("domain-concept-dispatch", \E s \in Statements(fn) : s.kind = "if" /\ "conceptId" \in s.exprs[1].names),
          Refuse("backend-semantic-branch",
                 /\ Surface(f) \/ seeds # {}
                 /\ \E i \in DOMAIN fn.body : /\ fn.body[i].kind \in BranchForms
                                              /\ ControlUse(fn.body[i], locals(i), known, seeds, fn.text))} : d.when}}

\* Target tables may carry typed fields of an idiom recipe, never a decision or a semantic setting.
ScanTable(f) ==
    {Finding("decision-bearing-table", f, row) : row \in f.rows \cap {"decision", "typed field", "assignment"}}

-----------------------------------------------------------------------------
\* The governed backends: gated rows that lower values, the external ones, each with exactly its profile.
External == "solidity"
Rows(t) == t.registry \o <<[target |-> External, entry |-> "", gated |-> TRUE, scenarioFree |-> FALSE, parsed |-> TRUE]>>
Governed(t) == {r.target : r \in {x \in Names(Rows(t)) : x.gated /\ ~x.scenarioFree}}
DiscoveryCode(t) ==
    LET parsed == SelectSeq(t.registry, LAMBDA r : r.parsed)
        names == [i \in DOMAIN parsed |-> parsed[i].target]
        stems == {p.stem : p \in t.profiles}
    IN FirstOf(<<
       Refuse("unparsed row", \E r \in Names(t.registry) : ~r.parsed),
       Refuse("empty registry", t.registry = <<>>),
       Refuse("duplicate row", ~NoDuplicates(names)),
       Refuse("external manifest", ~t.manifest.valid),
       Refuse("external profile", ~t.manifest.profile),
       Refuse("external built-in", External \in Names(names)),
       Refuse("profile target", \E p \in t.profiles : p.target # p.stem),
       Refuse("profile drift", stems # Governed(t))>>)

\* Sources of a backend that its build graph declares to be a harness: by role, or as a test executable.
HarnessSources(t, backend) == {h.file : h \in {x \in t.harness : x.backend = backend /\ (x.role \/ x.test)}}
MissingHarness(t, backend) == ~(HarnessSources(t, backend) \subseteq {f.name : f \in t.files})
Surfaces(t, row) ==
    LET excluded == IF MissingHarness(t, row.target) \/ row.target \notin t.graphs THEN {}
                    ELSE HarnessSources(t, row.target)
    IN {f \in t.files : \/ f.root = "backends" /\ f.backend = row.target /\ f.name \notin excluded
                        \/ row.target # External /\ f.root = "targets" /\ (row.entry \in f.entries \/ f.backend = row.target)
                        \/ f.root = "legacy" /\ f.backend = row.target}
SurfaceFindings(t, row) ==
    LET at == [name |-> row.target]
        entries == {f \in t.files : f.root = "targets" /\ row.entry \in f.entries}
        alternate == {f \in t.files : f.root = "targets" /\ f.backend = row.target /\ row.entry \notin f.entries}
    IN {Finding("backend-discovery", at, c) : c \in AllOf({
          Refuse("build graph", row.target \notin t.graphs \/ MissingHarness(t, row.target)),
          Refuse("no production surface", ~\E f \in Surfaces(t, row) : f.root = "backends"),
          Refuse("entry", row.target # External /\ Cardinality(entries) # 1),
          Refuse("alternate entry", row.target # External /\ alternate # {}),
          Refuse("legacy surface", \E f \in t.files : f.root = "legacy" /\ f.backend = row.target)})}

\* The reviewed generator of a security primitive occurs once, in the file it was reviewed in.
CarveoutsVerified(t) ==
    {f.name : f \in {g \in t.files : g.region > 0}} = {"PostgresGrants.cpp"}
    /\ \A f \in t.files : f.region <= 1
\* What is scanned of a file: without the reviewed generator, while the registry vouches for it.
Prepared(t, files) ==
    {IF CarveoutsVerified(t) THEN [f EXCEPT !.fns = {fn \in @ : ~fn.reviewed}] ELSE f : f \in files}

BackendFindings(t, row) ==
    LET prepared == Prepared(t, Surfaces(t, row))
        cpp == {f \in prepared : f.rows = {}}
        helpers == SemanticHelpers(cpp)
        returned == ReturnHelpers(cpp)
        tainted == TaintedParameters(cpp)
    IN SurfaceFindings(t, row)
       \cup (IF CarveoutsVerified(t) THEN {} ELSE {Finding("carveout-integrity", [name |-> "registry"], "reviewed")})
       \cup UNION {ScanTable(f) : f \in prepared}
       \cup UNION {UNION {ScanFunction(f, fn, helpers, returned, tainted) : fn \in f.fns} : f \in cpp}

Findings(t) ==
    IF DiscoveryCode(t) # Ok THEN {Finding("backend-discovery", [name |-> "registry"], DiscoveryCode(t))}
    ELSE UNION {BackendFindings(t, row) : row \in {r \in Names(Rows(t)) : r.gated /\ ~r.scenarioFree}}
Evaluate(t) == {f.class : f \in Findings(t)}

-----------------------------------------------------------------------------
Param(name, type) == [name |-> name, type |-> type]
Fn(name, params, body) == [name |-> name, params |-> params, body |-> body, text |-> FALSE, reviewed |-> FALSE]
File(root, backend, name, fns) ==
    [root |-> root, backend |-> backend, name |-> name, fns |-> fns, entries |-> {}, aliases |-> {}, region |-> 0, rows |-> {}]
Source(name, fns) == File("backends", External, name, fns)
Use(e) == Stmt("use", "", <<e>>, "none")
Auto(v, of) == Stmt("auto", v, <<Expr({}, FALSE, {of}, {})>>, "none")
Graph == <<Param("graph", "projection")>>
Mode == Expr({"graph"}, TRUE, {}, {})
OfField == Expr({"graph"}, FALSE, {}, {})
Local(v) == Expr({}, FALSE, {v}, {})
Of(g) == Expr({}, FALSE, {"graph"}, {g})
OnMode == Fn("onMode", Graph, <<Branch("if", Mode, "leave")>>)
Helper == Fn("isTemporal", Graph, <<Return(Mode)>>)
Selects == Fn("selectsRail", Graph, <<Return(Of("isTemporal"))>>)
Seeded(name, text, effect) ==
    [Fn(name, <<Param("mode", "value")>>, <<Branch("if", Local("mode"), effect)>>) EXCEPT !.text = text]

Registered(target, entry) == [target |-> target, entry |-> entry, gated |-> TRUE, scenarioFree |-> FALSE, parsed |-> TRUE]
Grants == [Fn("grant", Graph, <<Branch("if", Mode, "append")>>) EXCEPT !.reviewed = TRUE]
Adapter == [File("targets", "postgres", "PostgresTarget.cpp",
                 {Fn("emitPostgres", <<Param("plan", "plan")>>, <<Use(Expr({"plan"}, TRUE, {}, {}))>>)})
            EXCEPT !.entries = {"emitPostgres"}]
Tables == [Source("SolidityNodes.td", {}) EXCEPT !.rows = {"recipe field"}]
CleanTree ==
    [registry |-> <<Registered("postgres", "emitPostgres"),
                    [Registered("explain", "emitExplain") EXCEPT !.scenarioFree = TRUE]>>,
     manifest |-> [valid |-> TRUE, profile |-> TRUE],
     profiles |-> {[stem |-> b, target |-> b] : b \in {"postgres", "solidity"}},
     graphs |-> {"postgres", "solidity"},
     harness |-> {[backend |-> External, file |-> "GenSolidityTest.cpp", role |-> TRUE, test |-> FALSE]},
     files |-> {Source("Emit.cpp", {Fn("emit", Graph, <<Branch("if", Mode, "refuse"), Assign("n", Expr({"graph"}, FALSE, {}, {})),
                                                        Call("pad", <<Local("n")>>)>>),
                                    [Fn("pad", <<Param("width", "value")>>, <<Branch("if", Local("width"), "value")>>)
                                     EXCEPT !.text = TRUE]}),
                [File("backends", "postgres", "PostgresGrants.cpp", {Grants}) EXCEPT !.region = 1],
                Adapter, Tables, Source("GenSolidityTest.cpp", {OnMode})}]

Add(t, files) == [t EXCEPT !.files = @ \cup files]
Replace(t, old, new) == [t EXCEPT !.files = (@ \ {old}) \cup {new}]
Aliased(as, fns) == [Source("Alias.cpp", fns) EXCEPT !.aliases = as]

\* The selftest's tampered trees, each with the class and the symbols it must be found by.
Probe(tree, class, marks) == [tree |-> tree, class |-> class, marks |-> marks]
ReadsPlan(name, type) == Fn(name, <<Param("p", type)>>, <<Use(Expr({"p"}, TRUE, {}, {}))>>)
SelectsBy(name, form, e) == Fn(name, Graph, <<Branch(form, e, "call")>>)
ReadAndBranchProbes(t) ==
    {Probe(Add(t, {Source("Direct.cpp", {ReadsPlan("s0", "plan"), ReadsPlan("s1", "carrier")})}), "direct-plan-read", {"s0", "s1"}),
     Probe(Add(t, {Source("Auto.cpp", {Fn("s0", <<Param("p", "plan")>>, <<Auto("q", "p"), Use(Expr({"q"}, FALSE, {}, {}))>>)})}),
           "direct-plan-read", {"s0"}),
     Probe(Add(t, {Aliased({<<"P", "plan">>, <<"Q", "P">>}, {ReadsPlan("s0", "P"), ReadsPlan("s1", "Q")})}),
           "direct-plan-read", {"s0", "s1"}),
     Probe(Add(t, {Source("Branch.cpp", {OnMode})}), "backend-semantic-branch", {"onMode"}),
     Probe(Add(t, {Source("Presence.cpp", {SelectsBy("s0", "?", Mode)})}), "backend-semantic-branch", {"s0"}),
     Probe(Add(t, {Source("Value.cpp", {Fn("s0", Graph, <<Branch("if", Mode, "value")>>)})}), "backend-semantic-branch", {"s0"}),
     Probe(Add(t, {Source("Continue.cpp", {Fn("s0", Graph, <<Branch("if", Mode, "none")>>)})}), "backend-semantic-branch", {"s0"}),
     Probe(Add(t, {Source("Local.cpp", {Fn("s0", Graph, <<Assign("a", Mode), Assign("b", Local("a")), Branch("if", Local("b"), "leave")>>),
                                        Fn("s1", Graph, <<Assign("a", Mode), Branch("?", Local("a"), "call")>>)})}),
           "backend-semantic-branch", {"s0", "s1"}),
     Probe(Add(t, {Source("Helper.cpp", {Helper, Selects}), Source("Caller.cpp", {SelectsBy("s0", "if", Of("selectsRail"))})}),
           "backend-semantic-branch", {"s0"}),
     Probe(Add(t, {Source("Helper.cpp", {Helper, Selects}),
                   Source("Wrapper.cpp", {Fn("s0", Graph, <<Assign("a", Mode), Branch("wrapper", Local("a"), "call")>>),
                                          SelectsBy("s1", "wrapper", Mode), SelectsBy("s2", "wrapper", Of("selectsRail"))})}),
           "backend-semantic-branch", {"s0", "s1", "s2"})}
SurfaceProbes(t) ==
    {Probe(Add(t, {Source("ProductionTest.cpp", {OnMode})}), "backend-semantic-branch", {"onMode"}),
     Probe([Add(t, {Source("Exec.cpp", {ReadsPlan("s0", "plan")})}) EXCEPT
              !.harness = @ \cup {[backend |-> External, file |-> "Exec.cpp", role |-> FALSE, test |-> FALSE]}],
           "direct-plan-read", {"s0"}),
     Probe(Replace(t, Adapter, [Adapter EXCEPT !.fns = @ \cup {SelectsBy("s0", "if", Mode)}]), "backend-semantic-branch", {"s0"}),
     Probe(Add(Replace(t, Adapter, [Adapter EXCEPT !.aliases = {<<"G", "projection">>}, !.fns = @ \cup {
                                      Fn("s0", <<Param("graph", "G")>>, <<Branch("if", Of("rail"), "leave")>>)}]),
               {[Aliased({<<"G", "projection">>, <<"H", "G">>}, {Fn("rail", <<Param("graph", "H")>>, <<Return(Mode)>>)})
                 EXCEPT !.backend = "postgres"]}),
           "backend-semantic-branch", {"s0"}),
     Probe(Add(t, {Source("Flat.cpp", {Fn("call", Graph, [i \in 1 .. 4 |-> Call(<<"s0", "s1", "s2", "s3">>[i], <<OfField>>)])}),
                   Source("Flattened.cpp", {Seeded("s0", FALSE, "call"), Seeded("s1", FALSE, "call"), Seeded("s2", TRUE, "call"),
                                            Seeded("s3", TRUE, "leave")})}),
           "backend-semantic-branch", {"s0", "s1", "s2", "s3"}),
     Probe(Add(t, {Source("Concept.cpp", {Fn("s0", <<Param("conceptId", "value")>>, <<Branch("if", Local("conceptId"), "leave")>>)})}),
           "domain-concept-dispatch", {"s0"}),
     Probe(Replace(t, Tables, [Tables EXCEPT !.rows = {"decision"}]), "decision-bearing-table", {"decision"}),
     Probe(Replace(t, Tables, [Tables EXCEPT !.rows = {"recipe field", "typed field", "assignment"}]),
           "decision-bearing-table", {"typed field", "assignment"}),
     Probe([t EXCEPT !.registry = Append(@, Registered("s0", "emitS0")), !.profiles = @ \cup {[stem |-> "s0", target |-> "s0"]}],
           "backend-discovery", {"entry"}),
     Probe(Add(t, {[Source("Copied.cpp", {Grants}) EXCEPT !.region = 1]}), "carveout-integrity", {"reviewed"}),
     Probe([t EXCEPT !.registry = [i \in DOMAIN @ |-> [@[i] EXCEPT !.gated = FALSE]], !.manifest.valid = FALSE],
           "backend-discovery", {"external manifest"})}
Probes(t) == ReadAndBranchProbes(t) \cup SurfaceProbes(t)

ProbeOutcomes(t) ==
    UNION {{<<{f.class : f \in {g \in Findings(p.tree) : g.symbol = mark}}, p.class>> : mark \in p.marks} : p \in Probes(t)}

\* Pull requests: the selftest's tampering, and changes of the registry, the build graph and the sources.
EditsOf(t) ==
    {p.tree : p \in Probes(t)} \cup
    {[Add(t, {[Adapter EXCEPT !.backend = "sui", !.name = "SuiTarget.cpp", !.entries = {"emitSui"}],
              [Source("Sui.cpp", {Seeded("s0", TRUE, "value")}) EXCEPT !.backend = "sui"]}) EXCEPT
         !.registry = Append(@, Registered("sui", "emitSui")), !.graphs = @ \cup {"sui"},
         !.profiles = @ \cup {[stem |-> "sui", target |-> "sui"]}],
     \* A target leaves the governed set, with and without its profile.
     [t EXCEPT !.registry[1].scenarioFree = TRUE],
     [t EXCEPT !.registry[1].scenarioFree = TRUE, !.profiles = {p \in @ : p.stem # "postgres"}],
     [t EXCEPT !.registry[1].parsed = FALSE], [t EXCEPT !.registry = @ \o @],
     [t EXCEPT !.manifest.profile = FALSE], [t EXCEPT !.profiles = {[p EXCEPT !.stem = "postgres"] : p \in @}],
     \* Sources move in and out of the harness, or stay behind at a legacy place.
     [Add(t, {Source("Rail.cpp", {OnMode})}) EXCEPT
         !.harness = @ \cup {[backend |-> External, file |-> "Rail.cpp", role |-> FALSE, test |-> TRUE]}],
     [t EXCEPT !.files = {f \in @ : f.name # "GenSolidityTest.cpp"}], [t EXCEPT !.graphs = {"postgres"}], [t EXCEPT !.harness = {}],
     Add(t, {File("legacy", "postgres", "Old.cpp", {OnMode})}), Add(t, {File("targets", "postgres", "Postgres2.cpp", {OnMode})}),
     \* The reviewed generator is edited; a helper's result crosses a call.
     [t EXCEPT !.files = {[f EXCEPT !.region = 0] : f \in @}],
     Add(t, {Source("Helper.cpp", {Helper, Seeded("s0", FALSE, "call"), Fn("s1", Graph, <<Call("s0", <<Of("isTemporal")>>)>>)})})}

\* What the gate must have looked at: C++ of a governed backend that its build graph does not declare a harness.
Production(t) ==
    {f \in t.files : /\ f.rows = {} /\ f.backend \in Governed(t)
                     /\ ~\E h \in t.harness : h.backend = f.backend /\ h.file = f.name /\ f.root = "backends"}
Handwritten(f) == {fn \in f.fns : ~fn.reviewed}
\* fn has a parameter of a type, by its name or an alias of it or an alias of that.
Takes(f, fn, type) ==
    {p.name : p \in {q \in Names(fn.params) :
        q.type = type \/ \E a \in f.aliases : a[1] = q.type /\ (a[2] = type \/ <<a[2], type>> \in f.aliases)}}

(***************************************************************************)
(* Every governed backend is profiled, built and entered once; outside the *)
(* adapters and the one reviewed generator nothing reads the plan; and no  *)
(* branch decides on a semantic field, read directly, carried by a local,  *)
(* returned by a helper of the backend, or passed in by a caller, unless   *)
(* it only refuses or, for a passed value, only computes.                  *)
(***************************************************************************)
Sound(t) ==
    /\ Governed(t) = {p.target : p \in t.profiles}
    /\ \A b \in Governed(t) : \E f \in t.files : f.root = "backends" /\ f.backend = b
    /\ Cardinality({f \in t.files : \E fn \in f.fns : fn.reviewed}) <= 1
    /\ \A f \in Production(t), fn \in UNION {Handwritten(g) : g \in Production(t)} :
         fn \in Handwritten(f) =>
           /\ f.root # "targets" => \A e \in Exprs(fn) : e.of \cap Takes(f, fn, "plan") = {}
           /\ \A i \in DOMAIN fn.body : fn.body[i].kind \in BranchForms /\ fn.body[i].effect # "refuse" =>
                LET e == fn.body[i].exprs[1] IN
                /\ ~(e.semantic /\ e.of \cap Takes(f, fn, "projection") # {})
                /\ ~\E j \in 1 .. i - 1 : /\ fn.body[j].kind = "assign" /\ fn.body[j].name \in e.names
                                          /\ fn.body[j].exprs[1].semantic
                /\ ~\E g \in UNION {Handwritten(h) : h \in {x \in Production(t) : x.backend = f.backend}} :
                      /\ g.name \in e.calls
                      /\ \E s \in Statements(g) : s.kind = "return" /\ s.exprs[1].semantic /\ s.exprs[1].of # {}
                /\ \A g \in {x \in Production(t) : x.backend = f.backend} : \A caller \in Handwritten(g) :
                     \A s \in {x \in Statements(caller) : x.kind = "call" /\ x.name = fn.name} :
                       \A j \in DOMAIN s.exprs : s.exprs[j].of \cap Takes(g, caller, "projection") # {}
                                                 /\ fn.params[j].name \in e.names
                         => fn.body[i].effect = "none" \/ (fn.body[i].effect = "value" /\ fn.text)

(***************************************************************************)
(* A target leaves the governed set only with its profile, and a file that *)
(* was scanned stays scanned while it and its backend exist, unless the    *)
(* build graph declares it a harness.                                      *)
(***************************************************************************)
Authorized(t, n) ==
    /\ \A b \in Governed(t) \ Governed(n) : ~\E p \in n.profiles : p.stem = b
    /\ \A f \in (Production(t) \cap n.files) \ Production(n) :
         f.backend \notin Governed(n) \/ \E h \in n.harness : h.file = f.name /\ (h.role \/ h.test)
=============================================================================
