------------------------------ MODULE IdiomCensus ------------------------------
(***************************************************************************)
(* The idiom-composition census: scripts/gates/                            *)
(* check_backend_idiom_composition.py.  Every place where a backend        *)
(* composes target nodes is an occurrence of the compiler's AST, with one  *)
(* classification and one owner; the census is committed, and what is      *)
(* composed by hand may only shrink against the census of main.            *)
(*                                                                         *)
(* A source file is the functions the compiler sees in it.  A node of a    *)
(* function's AST is its kind, whether its type is a target type, what it  *)
(* calls or refers to, and its children in order; token stands for the     *)
(* text of the node.                                                       *)
(***************************************************************************)
EXTENDS Refusals
LOCAL INSTANCE FiniteSetsExt

Node(kind, inner) ==
    [kind |-> kind, typed |-> FALSE, vector |-> FALSE, member |-> "", callee |-> "", var |-> "", token |-> "t0", inner |-> inner]
Build(callee) == [Node("CallExpr", <<>>) EXCEPT !.typed = TRUE, !.callee = callee]
Block(stmts) == Node("CompoundStmt", stmts)
If(stmt) == Node("IfStmt", <<stmt>>)
Push(call) ==
    [Node("CXXMemberCallExpr", <<[Node("MemberExpr", <<>>) EXCEPT !.vector = TRUE], call>>) EXCEPT !.member = "push_back"]
Refer(name) == [Node("DeclRefExpr", <<>>) EXCEPT !.var = name]

ControlKinds == {"IfStmt", "SwitchStmt", "ForStmt", "WhileStmt", "ConditionalOperator"}
ControlOf(kind) ==
    IF kind = "SwitchStmt" THEN "dispatch" ELSE IF kind \in {"ForStmt", "WhileStmt"} THEN "repeated-group" ELSE "conditional-include"

RECURSIVE SomeNode(_, _)
\* Some node of a subtree has a property: the type is a target type, or a vector of them.
SomeNode(node, what) == node[what] \/ \E i \in DOMAIN node.inner : SomeNode(node.inner[i], what)
TypedChild(node, from) == \E i \in DOMAIN node.inner : i >= from /\ SomeNode(node.inner[i], "typed")

\* What a node composes by itself, the first that applies, or "".
DirectKind(node) ==
    LET call == node.kind \in {"CallExpr", "CXXConstructExpr"}
        how == FirstOf(<<
          Refuse("target-node-construction", call /\ node.typed),
          Refuse("ordered-insertion", node.kind = "CXXMemberCallExpr" /\ node.member \in {"push_back", "emplace_back", "insert"}
                                      /\ \E i \in DOMAIN node.inner : SomeNode(node.inner[i], "vector")),
          Refuse("bundle-return", node.kind = "ReturnStmt" /\ TypedChild(node, 1)),
          Refuse("bundle-pass", node.kind \in {"CallExpr", "CXXMemberCallExpr"} /\ TypedChild(node, 2))>>)
    IN IF how = Ok THEN "" ELSE how

RECURSIVE Composed(_, _)
\* The compositions under a node, with their paths: its own, or that of a control statement around one.
Composed(node, path) ==
    LET below == UNION {Composed(node.inner[i], Append(path, i)) : i \in DOMAIN node.inner}
        direct == DirectKind(node)
        at(how) == {[node |-> node, path |-> path, how |-> how, carveout |-> ""]}
    IN below \cup (IF direct # "" THEN at(direct)
                   ELSE IF node.kind \in ControlKinds /\ below # {} THEN at(ControlOf(node.kind)) ELSE {})
RECURSIVE References(_, _, _)
\* The uses of a reviewed security body, by the variable that holds it.
References(node, path, vars) ==
    {[node |-> node, path |-> path, how |-> "security-carveout-use", carveout |-> v.id] : v \in {x \in vars : x.name = node.var}}
    \cup UNION {References(node.inner[i], Append(path, i), vars) : i \in DOMAIN node.inner}

ExactVars(t, f) ==
    {[name |-> v.name, id |-> e.id] : v \in f.vars, e \in {x \in t.registry.entries : x.form = "exact-body" /\ f.path \in x.consumers}}
Events(t, f, fn) ==
    LET own == Composed(fn.body, <<>>)
        driver == IF fn.symbol \in t.gate.drivers /\ own = {}
                  THEN {[node |-> fn.body, path |-> <<>>, how |-> "generic-driver-function", carveout |-> ""]} ELSE {}
    IN own \cup driver \cup References(fn.body, <<>>, ExactVars(t, f))

-----------------------------------------------------------------------------
\* A generated artifact is authenticated when its bytes are what its generator makes of its table.
Artifact(t, id) == CHOOSE a \in t.artifacts : a.id = id
Stale(t, id) == LET a == Artifact(t, id) IN a.bytes # a.table \/ a.symbols = {} \/ ~a.consumed
\* These are only compared with their tables when a row of their file is classified.
Lazy == {"pgBuilders", "pgAdapter", "ddl"}
EmitDrift(t) == Artifact(t, "emit").symbols # t.gate.emitSurface
GeneratedIn(t, f) == {a \in t.artifacts : a.path = f.path}

\* The compiled translation units, and every source below a backend's root outside its tests.
TranslationUnits(t) == {f \in t.files : ~f.test /\ f.cpp /\ \E i \in DOMAIN t.compdb : t.compdb[i] = f.path}
Found(t) == {f \in t.files : ~f.test}
SourcesEmpty(t) == \E b \in t.backends : ~\E f \in TranslationUnits(t) : f.backend = b
Visible(t, f) == f \in Found(t) /\ \E u \in TranslationUnits(t) : u.backend = f.backend /\ u.path \in f.in

\* A system root under which definitions lose their standard-library types is replaced by the newest that does not.
Sysroot(m) ==
    LET other == {i \in DOMAIN m.sdks : m.sdks[i] # m.sysroot /\ m.sdks[i] \in m.healthy}
    IN IF ~m.indexTest \/ m.sysroot \in m.healthy \/ other = {} THEN m.sysroot ELSE m.sdks[Min(other)]
Degraded(t, fn) == fn.std /\ Sysroot(t.machine) \notin t.machine.healthy
UsrCount(t, fn) == IF Degraded(t, fn) THEN 0 ELSE fn.usrs

\* Functions a generated artifact spells inside a handwritten file are the artifact's, by name and by origin.
EmitSpelled(t, f, fn) == f.adapter /\ fn.origin # f.path /\ fn.name \in Artifact(t, "emit").symbols
ProjectionSpelled(t, f, fn) ==
    LET a == Artifact(t, "projection") IN f.path = a.provider /\ fn.origin = a.path /\ fn.name \in a.symbols
Functions(t, f) == {fn \in f.fns : ~EmitSpelled(t, f, fn) /\ ~ProjectionSpelled(t, f, fn)}
AllFunctions(t) == UNION {Functions(t, f) : f \in {g \in Found(t) : Visible(t, g)}}

-----------------------------------------------------------------------------
Class(class, owner, slice, carveout) == [class |-> class, owner |-> owner, slice |-> slice, carveout |-> carveout]
Excluded == Class("excluded", 0, "", "")
Forbidden(slice) == Class("forbidden-residue", 897, slice, "")
RegionOf(t, f, fn) ==
    {e.id : e \in {x \in t.registry.entries : x.form = "reviewed-generator" /\ x.file = f.path /\ fn.symbol = x.symbol}}
SliceBackend(issue) == IF issue < 904 THEN "solidity" ELSE "postgres"
Role(f) == f.role = "recipe-provider-plumbing"

\* Security first, then the exact symbols, the generated spellings, the registered providers and the candidates.
Classify(t, f, fn, event) ==
    LET region == RegionOf(t, f, fn)
        spelled == {a \in GeneratedIn(t, f) : fn.name \in a.symbols}
        issue == {c[2] : c \in {x \in t.gate.candidates : x[1] = fn.symbol}}
        owner == IF f.backend = "postgres" THEN 905 ELSE 900
    IN CASE event.carveout # "" -> Class("security-carveout", 656, "security-carveout", event.carveout)
         [] event.carveout = "" /\ region # {} -> Class("security-carveout", 656, "security-carveout", CHOOSE e \in region : TRUE)
         [] OTHER ->
       IF fn.symbol \in t.gate.excluded THEN Excluded
       ELSE IF fn.symbol \in t.gate.drivers THEN Class("generic-driver-validation", 898, "generic-driver", "")
       ELSE IF spelled # {} THEN LET a == CHOOSE x \in spelled : TRUE IN Class("generated-provider-construction", a.owner, "fresh", "")
       ELSE IF fn.symbol \in t.gate.resolvers THEN Class("provider-plumbing", 905, "security-resolver", "")
       ELSE IF Role(f) THEN
              IF event.node.callee \in Artifact(t, "builders").symbols THEN Class("generated-provider-construction", owner, "fresh", "")
              ELSE IF event.node.callee \in t.gate.handFactories THEN Forbidden("handwritten-provider-construction")
              ELSE Class("provider-plumbing", owner, "registered", "")
       ELSE IF issue = {} THEN Forbidden("forbidden-unassigned-symbol")
       ELSE LET i == CHOOSE x \in issue : TRUE IN
            IF SliceBackend(i) # f.backend THEN Forbidden("forbidden-cross-target-owner")
            ELSE Class("declarative-recipe-candidate", i, "slice", "")

\* A row of the census; an authorized call of a recipe overrides what its symbol says.
Row(t, f, fn, event) ==
    LET c == Classify(t, f, fn, event)
        calls == {a \in t.gate.authorized : a.symbol = fn.symbol /\ a.callee = event.node.callee}
        row == [target |-> f.backend, file |-> f.path, symbol |-> fn.symbol, name |-> fn.name, kind |-> event.node.kind, how |-> event.how,
                path |-> event.path, token |-> event.node.token, callee |-> event.node.callee, class |-> c.class, owner |-> c.owner,
                slice |-> c.slice, carveout |-> c.carveout, key |-> ""]
    IN IF calls = {} \/ c = Excluded THEN row
       ELSE LET a == CHOOSE x \in calls : TRUE IN
            [row EXCEPT !.class = "generated-provider-invocation", !.owner = a.owner, !.slice = "exact-recipe-invocation", !.key = a.key]
AllRows(t) ==
    UNION {UNION {{Row(t, f, fn, e) : e \in Events(t, f, fn)} : fn \in Functions(t, f)} : f \in {g \in Found(t) : Visible(t, g)}}
Identity(r) == <<r.target, r.file, r.symbol, r.kind, r.path, r.token>>
Conflict(rows) == \E r, s \in rows : r # s /\ Identity(r) = Identity(s)

\* The census is the rows, and apart from them the exclusions that an exact symbol authenticates.
CensusOf(rows) == [occurrences |-> {r \in rows : r.class # "excluded"}, exclusions |-> {r \in rows : r.class = "excluded"}]
Census(t) == CensusOf(AllRows(t))
Completion(gate, rows) ==
    LET count(S) == Cardinality(S)
        open == [unassigned |-> count({r \in rows : r.owner = 0}),
                 umbrella |-> count({r \in rows : r.class = "declarative-recipe-candidate" /\ r.owner \in {661, 897, 898}}),
                 generic |-> count({r \in rows : r.class = "generic-driver-validation" /\ r.symbol \notin gate.drivers}),
                 forbidden |-> count({r \in rows : r.class = "forbidden-residue"})]
    IN [open |-> open, complete |-> \A k \in DOMAIN open : open[k] = 0]
Disposition(t, census, f) ==
    IF \E r \in census.occurrences \cup census.exclusions : r.file = f.path THEN "covered"
    ELSE IF f.path \in t.gate.leafOnly THEN "leaf-formatting-only" ELSE "no-governed-occurrence"
\* The report adds the sums that its reader reconciles again.
Count(rows) == {[class |-> c, n |-> Cardinality({r \in rows : r.class = c})] : c \in {r.class : r \in rows}}
Report(t, census) ==
    [rows |-> census.occurrences, duplicate |-> FALSE, exclusions |-> census.exclusions, totals |-> Count(census.occurrences),
     completion |-> Completion(t.gate, census.occurrences),
     registered |-> {e.id : e \in t.registry.entries}, dispositions |-> [f \in {g.path : g \in Found(t)} |->
                       Disposition(t, census, CHOOSE g \in t.files : g.path = f)]]

Provenance(t, r) ==
    \/ \E a \in t.artifacts : a.path = r.file /\ a.owner = r.owner /\ r.name \in a.symbols
    \/ r.owner = 900 /\ r.callee \in Artifact(t, "builders").symbols
Plumbing(t, r) ==
    \/ r.symbol \in t.gate.resolvers /\ r.owner = 905
    \/ r.owner \in {900, 905} /\ \E f \in t.files : f.path = r.file /\ Role(f)
Invocation(t, r) ==
    \E a \in t.gate.authorized : a.symbol = r.symbol /\ a.callee = r.callee /\ a.key = r.key /\ a.owner = r.owner
Of(rows, class) == {r \in rows : r.class = class}
RowChecks(t, report) ==
    LET rows == report.rows
        carved == Of(rows, "security-carveout")
    IN <<
       Refuse("registry denominator", Cardinality(report.registered) # t.gate.denominator),
       Refuse("duplicate row", report.duplicate),
       Refuse("ownerless row", \E r \in rows : r.owner = 0),
       Refuse("unbounded candidate", \E r \in Of(rows, "declarative-recipe-candidate") : r.owner \notin 900 .. 907),
       Refuse("wrong owner", (\E r \in carved : r.owner # 656) \/ \E r \in Of(rows, "generic-driver-validation") : r.owner # 898),
       Refuse("generated provenance", \E r \in Of(rows, "generated-provider-construction") : ~Provenance(t, r)),
       Refuse("plumbing role", \E r \in Of(rows, "provider-plumbing") : ~Plumbing(t, r)),
       Refuse("invocation provenance", \E r \in Of(rows, "generated-provider-invocation") : ~Invocation(t, r)),
       Refuse("carveout identity", \E r \in carved : r.carveout \notin report.registered),
       Refuse("carveout coverage", {r.carveout : r \in carved} # report.registered)>>
SummaryChecks(t, report) ==
    LET rows == report.rows
        calls == {<<r.symbol, r.callee, r.key>> : r \in {x \in rows : x.key # ""}}
        surface == \E r \in rows, a \in t.gate.authorized : r.symbol = a.symbol
        census == [occurrences |-> rows, exclusions |-> report.exclusions]
    IN <<
       Refuse("recipe calls", IF surface THEN calls # {<<a.symbol, a.callee, a.key>> : a \in t.gate.authorized} ELSE calls # {}),
       Refuse("totals", report.totals # Count(rows)),
       Refuse("completion", report.completion # Completion(t.gate, rows)),
       Refuse("exclusion symbol", \E r \in report.exclusions : r.symbol \notin t.gate.excluded),
       Refuse("dispositions", DOMAIN report.dispositions # {f.path : f \in Found(t)}),
       Refuse("dishonest disposition", \E f \in Found(t) : report.dispositions[f.path] # Disposition(t, census, f))>>
Validate(t, report) == FirstOf(RowChecks(t, report) \o SummaryChecks(t, report))

\* The ratchet counts rows by structural slot: neither the text of a body nor a reviewed move of a file matters.
Slot(gate, r) ==
    LET moved == {m.to : m \in {x \in gate.moves : x.file = r.file /\ x.symbol = r.symbol}}
        file == IF moved = {} THEN r.file ELSE CHOOSE m \in moved : TRUE
    IN <<r.target, file, r.symbol, r.kind, r.how, r.owner, r.slice>>
Grown(gate, now, before) ==
    \E s \in {Slot(gate, r) : r \in now} :
       Cardinality({r \in now : Slot(gate, r) = s}) > Cardinality({r \in before : Slot(gate, r) = s})
Nonincrease(gate, census, base) ==
    LET candidates(c) == Of(c.occurrences, "declarative-recipe-candidate")
    IN FirstOf(<<Refuse("candidate growth", Grown(gate, candidates(census), candidates(base))),
                 Refuse("exclusion growth", Grown(gate, census.exclusions, base.exclusions))>>)

\* The census as it can be generated: the code of the first thing that stands in its way.
GenerateCode(t, rows) ==
    LET units == TranslationUnits(t)
    IN FirstOf(<<
       Refuse("builders", Stale(t, "builders")), Refuse("emit", Stale(t, "emit") \/ EmitDrift(t)),
       Refuse("compilation database", t.compdb = <<>>), Refuse("no sources", SourcesEmpty(t)),
       Refuse("registry", ~t.registry.verified),
       Refuse("compilation row", \E u \in units : Cardinality({i \in DOMAIN t.compdb : t.compdb[i] = u.path}) # 1),
       Refuse("compiler", \E u \in units : ~u.compiles), Refuse("index test", ~t.machine.indexTest),
       Refuse("projection", Stale(t, "projection")),
       Refuse("toolchain", \E fn \in AllFunctions(t) : Degraded(t, fn)),
       Refuse("usr", \E fn \in AllFunctions(t) : UsrCount(t, fn) # 1),
       Refuse("generated file", \E a \in t.artifacts : a.id \in Lazy /\ Stale(t, a.id) /\ \E r \in rows : r.file = a.path),
       Refuse("conflicting rows", Conflict(rows)), Refuse("empty census", Of(rows, "excluded") = rows)>>)
Judge(t, base, resolved) ==
    LET rows == AllRows(t)
        census == CensusOf(rows)
        generated == GenerateCode(t, rows)
        valid == Validate(t, Report(t, census))
    IN IF generated # Ok THEN generated ELSE IF valid # Ok THEN valid
       ELSE FirstOf(<<
            Refuse("incomplete", ~Completion(t.gate, census.occurrences).complete), Refuse("base", ~resolved),
            Refuse("growth", Nonincrease(t.gate, census, base.census) # Ok), Refuse("stale census", t.census # census)>>)
Evaluate(t, base, resolved) == {Judge(t, base, resolved)} \ {Ok}

-----------------------------------------------------------------------------
Fn(symbol, name, body) == [symbol |-> symbol, name |-> name, body |-> body, origin |-> "", usrs |-> 1, std |-> FALSE]
File(backend, path, fns) ==
    [backend |-> backend, path |-> path, cpp |-> TRUE, test |-> FALSE, adapter |-> FALSE, role |-> "", compiles |-> TRUE, in |-> {path},
     vars |-> {}, fns |-> {[fn EXCEPT !.origin = IF @ = "" THEN path ELSE @] : fn \in fns}]
Included(f, units) == [f EXCEPT !.cpp = FALSE, !.in = units]
Provider(f) == [f EXCEPT !.role = "recipe-provider-plumbing"]
Generated(id, path, owner, symbols) ==
    [id |-> id, path |-> path, owner |-> owner, table |-> 1, bytes |-> 1, symbols |-> symbols, consumed |-> TRUE, provider |-> ""]
SolGate == Fn("sol::addGuards", "addGuards", Block(<<If(Push(Build("require")))>>))
PgAdd == Fn("pg::addStmt", "addStmt", Block(<<Push(Build("raise")), Build("blank")>>))
\* What the script lists, with a member of each of its tables.
Lists ==
    [emitSurface |-> {"emit"}, excluded |-> {"sol::toNode"}, drivers |-> {"sql::print"}, resolvers |-> {"pg::resolveQuorum"},
     candidates |-> {<<"sol::addGuards", 900>>, <<"sol::render", 900>>, <<"pg::addStmt", 904>>, <<"pg::temporal", 906>>, <<"pg::rawSql", 904>>},
     handFactories |-> {"docComment"}, leafOnly |-> {"PgSyntax.cpp"}, denominator |-> 2, moves |-> {},
     authorized |-> {[symbol |-> "pg::fromSpec", callee |-> "materialize", key |-> "Quorum/Schema", owner |-> 954]}]
Base ==
    [backends |-> {"solidity", "postgres"},
     compdb |-> <<"SolAdapter.cpp", "SolProvider.cpp", "PgModel.cpp", "PgProvider.cpp", "Smoke.cpp">>,
     machine |-> [indexTest |-> TRUE, sysroot |-> "15.2", sdks |-> <<"26.2", "15.4", "15.2">>, healthy |-> {"15.4", "15.2"}],
     artifacts |-> {Generated("builders", "SolBuilders.inc", 900, {"solBuild"}), Generated("emit", "SolEmit.inc", 900, {"emit"}),
                    Generated("pgBuilders", "PgBuilders.inc", 904, {"raise"}), Generated("pgAdapter", "PgAdapter.inc", 905, {"adapt"}),
                    Generated("ddl", "PgDdl.inc", 680, {"rawSql"}),
                    [Generated("projection", "PgProjection.inc", 905, {"resolve"}) EXCEPT !.provider = "PgProvider.cpp"]},
     registry |-> [verified |-> TRUE, entries |-> {
        [id |-> "C1", form |-> "reviewed-generator", file |-> "PgModel.cpp", symbol |-> "pg::grant", consumers |-> {}],
        [id |-> "C2", form |-> "exact-body", file |-> "", symbol |-> "", consumers |-> {"PgModel.cpp"}]}],
     gate |-> Lists,
     files |-> {[File("solidity", "SolAdapter.cpp", {SolGate, Fn("sol::toNode", "toNode", Block(<<Build("node")>>)),
                                                     [Fn("sol::emit", "emit", Block(<<Build("node")>>)) EXCEPT !.origin = "SolEmit.inc"]})
                 EXCEPT !.adapter = TRUE],
                Provider(File("solidity", "SolProvider.cpp", {Fn("sol::provide", "provide", Block(<<If(Build("solBuild"))>>))})),
                Included(File("solidity", "SolBuilders.inc", {Fn("sol::solBuild", "solBuild", Block(<<Build("node")>>))}), {"SolProvider.cpp"}),
                [File("postgres", "PgModel.cpp", {PgAdd, Fn("pg::grant", "grant", Block(<<Build("stmt")>>)), Fn("sql::print", "print", Block(<<>>)),
                      Fn("pg::body", "body", Block(<<Refer("BODY")>>)), Fn("pg::fromSpec", "fromSpec", Block(<<Build("materialize")>>)),
                      [Fn("pg::resolveQuorum", "resolveQuorum", Block(<<Build("stmt")>>)) EXCEPT !.std = TRUE]})
                 EXCEPT !.vars = {[name |-> "BODY"]}],
                Provider(File("postgres", "PgProvider.cpp", {[Fn("pg::resolve", "resolve", Block(<<Build("docComment")>>)) EXCEPT
                      !.origin = "PgProjection.inc"], Fn("pg::provide", "provide", Block(<<Build("raise")>>))})),
                Included(File("postgres", "PgBuilders.inc", {Fn("pg::raise", "raise", Block(<<Build("stmt")>>))}), {"PgModel.cpp"}),
                Included(File("postgres", "PgDdl.inc", {Fn("pg::rawSql", "rawSql", Block(<<Build("stmt")>>))}), {"PgModel.cpp"}),
                File("postgres", "PgSyntax.cpp", {}), [File("postgres", "Smoke.cpp", {PgAdd}) EXCEPT !.test = TRUE]},
     census |-> [occurrences |-> {}, exclusions |-> {}]]
Written(t) == [t EXCEPT !.census = Census(t)]
CleanTree == Written(Base)

With(t, path, fns) == [t EXCEPT !.files = {IF f.path = path THEN [f EXCEPT !.fns = @ \cup fns] ELSE f : f \in @}]
Replace(t, path, old, new) == [t EXCEPT !.files = {IF f.path = path THEN [f EXCEPT !.fns = (@ \ {old}) \cup {new}] ELSE f : f \in @}]
In(path, fn) == [fn EXCEPT !.origin = path]
Edited(t, id, field, value) == [t EXCEPT !.artifacts = {IF a.id = id THEN [a EXCEPT ![field] = value] ELSE a : a \in @}]

-----------------------------------------------------------------------------
\* A pull request changes the sources, what the gate's script lists, the artifacts, the build or the registry,
\* and writes the census again, or leaves it as it was.
Hand == Fn("pg::byHand", "byHand", Block(<<Build("docComment")>>))
New == Fn("pg::new", "new", Block(<<Build("stmt")>>))
PgGrown == [PgAdd EXCEPT !.body = Block(<<Push(Build("raise")), Build("blank"), Build("blank")>>)]
PgShrunk == [PgAdd EXCEPT !.body = Block(<<Build("blank")>>)]
PgReworded == [PgAdd EXCEPT !.body = Block(<<Push([Build("raise") EXCEPT !.token = "t1"]), Build("blank")>>)]
ToNodeGrown == Fn("sol::toNode", "toNode", Block(<<Build("node"), Build("node")>>))
Gated(t, field, value) == [t EXCEPT !.gate[field] = value]
Filed(t, path, field, value) == [t EXCEPT !.files = {IF f.path = path THEN [f EXCEPT ![field] = value] ELSE f : f \in @}]
Compiled(t, path) == [t EXCEPT !.compdb = Append(@, path)]
Moved(t) ==
    LET bare == [t EXCEPT !.files = {IF f.path = "PgModel.cpp" THEN [f EXCEPT !.fns = {fn \in @ : fn.symbol # "pg::addStmt"}] ELSE f : f \in @}]
    IN With(Compiled(bare, "PgSyntax.cpp"), "PgSyntax.cpp", {In("PgSyntax.cpp", PgAdd)})
SourceEdits(t) ==
    LET pg(old, new) == Replace(t, "PgModel.cpp", In("PgModel.cpp", old), In("PgModel.cpp", new))
    IN {With(t, "PgProvider.cpp", {In("PgProvider.cpp", Hand)}), With(t, "PgModel.cpp", {In("PgModel.cpp", New)}),
        With(Compiled(t, "PgSyntax.cpp"), "PgSyntax.cpp", {In("PgSyntax.cpp", PgAdd)}), 
        pg(PgAdd, PgGrown), pg(PgAdd, PgShrunk), pg(PgAdd, PgReworded), Moved(t), With(t, "PgModel.cpp", {In("PgModel.cpp", SolGate)}),
        With(t, "SolAdapter.cpp", {In("SolAdapter.cpp", Fn("sol::emit2", "emit", Block(<<Build("node")>>)))}),
        With(t, "PgProvider.cpp", {In("PgProvider.cpp", Fn("pg::resolve2", "resolve", Block(<<Build("docComment")>>)))}),
        Replace(t, "SolAdapter.cpp", In("SolAdapter.cpp", Fn("sol::toNode", "toNode", Block(<<Build("node")>>))), In("SolAdapter.cpp", ToNodeGrown)),
        With(t, "SolProvider.cpp", {In("SolProvider.cpp", Fn("sol::render", "render", Block(<<Build("solBuild")>>)))}),
        With(t, "SolAdapter.cpp", {In("SolAdapter.cpp", Fn("sol::render", "render", Block(<<Build("node")>>)))}),
        Filed(t, "PgModel.cpp", "vars", {}), Filed(t, "PgModel.cpp", "compiles", FALSE), Filed(t, "PgModel.cpp", "role", "recipe-provider-plumbing"),
        Filed(t, "PgProvider.cpp", "role", ""),
        With(t, "PgModel.cpp", {[In("PgModel.cpp", Fn("pg::temporal", "temporal", Block(<<>>))) EXCEPT !.usrs = 2]})}
GateEdits(t) ==
    {Gated(t, "candidates", t.gate.candidates \cup {<<"pg::new", 904>>}), Gated(t, "excluded", t.gate.excluded \cup {"pg::addStmt"}),
     Gated(t, "candidates", (t.gate.candidates \ {<<"pg::addStmt", 904>>}) \cup {<<"pg::addStmt", 905>>}),
     Gated(t, "drivers", t.gate.drivers \cup {"pg::new"}), Gated(t, "denominator", 3),
     Gated(t, "moves", {[file |-> "PgModel.cpp", symbol |-> "pg::addStmt", to |-> "PgSyntax.cpp"]}), Gated(t, "emitSurface", {"emit", "mint"}),
     Gated(t, "authorized", {})}
BuildEdits(t) ==
    {Edited(t, "builders", "table", 2), Edited(t, "projection", "bytes", 2), Edited(t, "pgBuilders", "bytes", 2), Edited(t, "ddl", "symbols", {"forge"}), Edited(t, "pgAdapter", "bytes", 2), Edited(t, "emit", "symbols", {"emit", "mint"}),
     Compiled(t, "PgModel.cpp"),
     [t EXCEPT !.machine.sysroot = "26.2"], [t EXCEPT !.machine.healthy = {}],
     [t EXCEPT !.registry.verified = FALSE],
     [t EXCEPT !.registry.entries = @ \cup {[id |-> "C3", form |-> "reviewed-generator", file |-> "PgModel.cpp", symbol |-> "pg::new", consumers |-> {}]}]}
EditsOf(t) ==
    LET edited == SourceEdits(t) \cup GateEdits(t) \cup BuildEdits(t)
        reworded == Replace(t, "PgModel.cpp", In("PgModel.cpp", PgAdd), In("PgModel.cpp", PgReworded))
    IN ({Written(n) : n \in edited \cup {t}} \cup {reworded}) \ {t}

RECURSIVE Made(_)
\* The target nodes a body constructs, by what it calls, in order.
Made(node) ==
    LET own == IF node.kind = "CallExpr" /\ node.typed THEN <<node.callee>> ELSE <<>>
        all[i \in 0 .. Len(node.inner)] == IF i = 0 THEN own ELSE all[i - 1] \o Made(node.inner[i])
    IN all[Len(node.inner)]
Spelled(t, f, fn) ==
    \E a \in t.artifacts : a.bytes = a.table /\ fn.name \in a.symbols /\ (a.path = f.path \/ fn.origin # f.path)
Owners(t, symbol) == {c[2] : c \in {x \in t.gate.candidates : x[1] = symbol}}
Accounted(t, f, fn, callee) ==
    \/ fn.symbol \in t.gate.excluded \cup t.gate.drivers \cup t.gate.resolvers
    \/ RegionOf(t, f, fn) # {} \/ Spelled(t, f, fn)
    \/ Role(f) /\ callee \notin t.gate.handFactories
    \/ \E o \in Owners(t, fn.symbol) : SliceBackend(o) = f.backend
    \/ \E a \in t.gate.authorized : a.symbol = fn.symbol /\ a.callee = callee
\* No compiled body composes a target node by hand unless someone owns it, and the census says what there is.
Sound(t) ==
    LET seen == {f \in Found(t) : Visible(t, f)}
    IN /\ \A f \in seen : \A fn \in f.fns : \A callee \in {Made(fn.body)[i] : i \in DOMAIN Made(fn.body)} : Accounted(t, f, fn, callee)
       /\ \A f \in seen : \A fn \in f.fns : Made(fn.body) # <<>> /\ ~Spelled(t, f, fn) =>
             \E r \in t.census.occurrences \cup t.census.exclusions : r.file = f.path /\ r.symbol = fn.symbol
       /\ \A r \in t.census.occurrences : \E f \in seen : r.file = f.path /\ \E fn \in f.fns : fn.symbol = r.symbol
       /\ \A e \in t.registry.entries : \E r \in t.census.occurrences : r.carveout = e.id

\* What is composed by hand under a candidate's name, at a file, does not grow, whatever the pull request lists.
ByHand(t, symbol, path) ==
    LET own == {fn \in UNION {f.fns : f \in {x \in Found(t) : Visible(t, x) /\ x.path = path}} : fn.symbol = symbol}
    IN MapThenSumSet(LAMBDA fn : Len(Made(fn.body)), own)
Otherwise(n, f, fn) ==
    \/ fn.symbol \in n.gate.excluded \cup n.gate.drivers \cup n.gate.resolvers \/ Role(f) \/ RegionOf(n, f, fn) # {} \/ Spelled(n, f, fn)
    \/ \E a \in n.gate.authorized : a.symbol = fn.symbol
Before(t, n, symbol, path) ==
    LET moved == {m.file : m \in {x \in n.gate.moves : x.symbol = symbol /\ x.to = path}}
    IN IF Owners(t, symbol) # Owners(n, symbol) THEN 0 ELSE MapThenSumSet(LAMBDA p : ByHand(t, symbol, p), moved \cup {path})
Authorized(t, n) ==
    /\ \A f \in {x \in Found(n) : Visible(n, x)} : \A fn \in f.fns :
          Owners(n, fn.symbol) # {} /\ ~Otherwise(n, f, fn) => ByHand(n, fn.symbol, f.path) <= Before(t, n, fn.symbol, f.path)
    /\ \A r \in n.census.exclusions : \E q \in t.census.exclusions : q.symbol = r.symbol /\ q.file = r.file

-----------------------------------------------------------------------------
\* The selftest: each probe must show its code; a probe that must be accepted shows it by being so.
Shown(condition, code) == <<IF condition THEN {code} ELSE {}, code>>
SyntheticRow(symbol, class, owner, slice, carveout) ==
    [target |-> "solidity", file |-> "SolAdapter.cpp", symbol |-> symbol, name |-> symbol, kind |-> "CallExpr", how |-> "target-node-construction",
     path |-> <<>>, token |-> "t0", callee |-> "blank", class |-> class, owner |-> owner, slice |-> slice, carveout |-> carveout, key |-> ""]
Candidate == SyntheticRow("sol::blank", "declarative-recipe-candidate", 900, "slice", "")
ReportOutcomes(t) ==
    LET bare == [t EXCEPT !.files = {}]
        security == {SyntheticRow("security", "security-carveout", 656, "security-carveout", e.id) : e \in t.registry.entries}
        report(rows) == Report(bare, [occurrences |-> rows \cup security, exclusions |-> {}])
        refused(rep, code) == <<{Validate(bare, rep)}, code>>
        blocked(class, owner, code) ==
            LET rep == report({[Candidate EXCEPT !.class = class, !.owner = owner]}) IN Shown(Validate(bare, rep) = Ok /\ ~rep.completion.complete, code)
        whole == report({Candidate})
    IN {Shown(Validate(bare, whole) = Ok /\ whole.completion.complete, "complete"),
        blocked("generic-driver-validation", 898, "generic row"), blocked("forbidden-residue", 897, "forbidden row"),
        refused([whole EXCEPT !.duplicate = TRUE], "duplicate row"),
        refused(Report(bare, [occurrences |-> {Candidate} \cup {[r EXCEPT !.carveout = ""] : r \in security}, exclusions |-> {}]), "carveout identity"),
        refused(report({[Candidate EXCEPT !.owner = 0]}), "ownerless row"), refused(report({[Candidate EXCEPT !.owner = 661]}), "unbounded candidate"),
        refused([whole EXCEPT !.completion.complete = FALSE], "completion")}
RatchetOutcomes(t) ==
    LET of(rows, excluded) == [occurrences |-> rows, exclusions |-> excluded]
        base == of({Candidate}, {})
        exclusion == [Candidate EXCEPT !.class = "excluded", !.path = <<1, 2>>]
        grown(rows) == <<{Nonincrease(t.gate, of(rows, {}), base)}, "candidate growth">>
    IN {grown({Candidate, [Candidate EXCEPT !.path = <<9, 9>>]}), grown({[Candidate EXCEPT !.symbol = "sol::moved", !.owner = 901, !.slice = "evidence"]}),
        grown({Candidate, [Candidate EXCEPT !.file = "HandCopy.cpp"]}), grown({[Candidate EXCEPT !.owner = 901, !.slice = "evidence"]}),
        <<{Nonincrease(t.gate, of({[Candidate EXCEPT !.token = "t9"]}, {}), base)}, Ok>>,
        <<{Nonincrease(t.gate, of({Candidate}, {exclusion, [exclusion EXCEPT !.path = <<1, 3>>]}), of({Candidate}, {exclusion}))}, "exclusion growth">>}
ClassOutcomes(t) ==
    LET provider == CHOOSE f \in t.files : f.path = "SolProvider.cpp"
        other == [provider EXCEPT !.path = "New.cpp", !.role = ""]
        class(f, callee) == Classify(t, f, In(f.path, Fn("sol::unregistered", "unregistered", Block(<<>>))),
                                     [node |-> Build(callee), path |-> <<>>, how |-> "", carveout |-> ""]).class
    IN {<<{class(other, "blank")}, "forbidden-residue">>, <<{class(provider, "solBuild")}, "generated-provider-construction">>,
        <<{class(provider, "")}, "provider-plumbing">>, <<{class(other, "solBuild")}, "forbidden-residue">>, <<{class(provider, "docComment")}, "forbidden-residue">>}
ResolverOutcomes(t) ==
    LET provider == CHOOSE f \in t.files : f.path = Artifact(t, "projection").provider
        kept(origin) == LET fn == In(origin, Fn("resolve", "resolve", Block(<<>>))) IN fn \in Functions(t, [provider EXCEPT !.fns = {fn}])
    IN {Shown(~kept(Artifact(t, "projection").path), "exempt"), Shown(kept(provider.path), "by hand"), Shown(kept("Adapter.inc"), "another artifact")}
AlignmentOutcomes(t) ==
    LET fn(std, usrs) == [In("PgModel.cpp", Fn("pg::effect", "effect", Block(<<>>))) EXCEPT !.std = std, !.usrs = usrs]
        judged(machine, f) == <<Evaluate(With([t EXCEPT !.machine = machine], "PgModel.cpp", {f}), t, TRUE), IF f.std THEN "toolchain" ELSE "usr">>
        newest == [t.machine EXCEPT !.healthy = {"26.2", "15.4"}]
    IN {judged([t.machine EXCEPT !.healthy = {}], fn(TRUE, 1)), judged(t.machine, fn(FALSE, 0)), judged(t.machine, fn(FALSE, 2)), Shown(Sysroot(newest) = "26.2", "newest first")}
ProbeOutcomes(t) ==
    LET judged(n, code) == <<Evaluate(n, t, TRUE), code>>
        alias == [t EXCEPT !.compdb = <<"Alias.cpp">>, !.files = {File("postgres", "Alias.cpp", {})}]
        kinds == {e.how : e \in Events(t, CHOOSE f \in t.files : f.path = "SolAdapter.cpp", SolGate)}
    IN {judged(Edited(t, "emit", "bytes", 2), "emit"), judged(Edited(t, "builders", "bytes", 2), "builders"), judged(Edited(t, "builders", "symbols", {}), "builders"),
        judged(Edited(t, "projection", "bytes", 2), "projection"), Shown({f.path : f \in TranslationUnits(alias)} = {"Alias.cpp"}, "alias driver"),
        judged(Edited(t, "ddl", "bytes", 2), "generated file"), Shown("rawSql" \in Artifact(t, "ddl").symbols /\ Owners(t, "pg::rawSql") # {}, "raw ddl"),
        Shown(kinds = {"target-node-construction", "ordered-insertion", "conditional-include"}, "events")}
       \cup ReportOutcomes(t) \cup RatchetOutcomes(t) \cup ClassOutcomes(t) \cup ResolverOutcomes(t) \cup AlignmentOutcomes(t)
=============================================================================
