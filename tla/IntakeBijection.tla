---------------------------- MODULE IntakeBijection ----------------------------
(***************************************************************************)
(* The M7 intake bijection gate: scripts/gates/check_m7_intake_bijection.py *)
(* A pull request is judged on a snapshot: the working tree, what its diff *)
(* against the base adds, and the base's registry, profile, projection     *)
(* contract and reducer.                                                   *)
(*                                                                         *)
(* A tree has the registry and profile, the witness artifact (concepts and *)
(* edges) and its reduction (bindings), the schema's leaves and the fields *)
(* registered for them, the consumers whose anchors still stand, the       *)
(* projection contract, the reducer's digest, and the lines of interest in *)
(* governed files: a file, what the line does and the word it does it with.*)
(***************************************************************************)
EXTENDS Refusals, TLC

\* A proof of consumption is specific to one field; the reducer's proofs are not read from text.
ReducerFields == {"to"}
ProofOf(field) == <<"proof", field>>
Consumed(field) == [proof |-> ProofOf(field), reason |-> FALSE]
Excluded == [proof |-> <<>>, reason |-> TRUE]

Executable == {"expands", "discharges"}
Edge(id, concept, feature, relation) ==
    [id |-> id, concept |-> concept, feature |-> feature, relation |-> relation]
ExecEdges(edges) == {e \in edges : e.relation \in Executable}
ExecBindings(bindings) == SelectSeq(bindings, LAMBDA b : b.relation \in Executable)

Line(path, does, word) == [path |-> path, does |-> does, word |-> word]
BelowWaist == {"backend", "spec-contract"}
Reduction == {"reducer", "spec-contract"}

\* Mutant: the base's files are read from the working tree.
SnapshotOfTree(tree, base, resolved) ==
    [tree |-> tree, resolved |-> resolved, base |-> tree,
     added |-> tree.lines \ base.lines, changed |-> {l.path : l \in tree.lines \ base.lines}]

\* What git and the working tree say of the branch; no base, no diff.
Snapshot(tree, base, resolved) ==
    [tree |-> tree, resolved |-> resolved,
     added |-> IF resolved THEN tree.lines \ base.lines ELSE {},
     changed |-> IF resolved THEN {p \in {"registry", "profile", "contract", "reducer", "data"} :
                                     \/ p = "registry" /\ tree.registry # base.registry
                                     \/ p = "profile" /\ tree.profile # base.profile
                                     \/ p = "contract" /\ tree.contract # base.contract
                                     \/ p = "reducer" /\ tree.reducer # base.reducer
                                     \/ p = "data" /\ <<tree.concepts, tree.edges, tree.bindings>>
                                                      # <<base.concepts, base.edges, base.bindings>>}
                                  \cup {l.path : l \in tree.lines \ base.lines}
                 ELSE {},
     base |-> base]

StableIdentityChecks(s) == AllOf({
    Refuse("stale_registration", ~s.resolved),
    Refuse("stale_registration", s.tree.stale # {}),
    Refuse("stale_registration", ~s.tree.kinds),
    Refuse("stale_registration", s.tree.registry.version # s.tree.profile)})

\* Mutant: a reduction is not compared with the artifact's edges.
ReferentialByFeature(s) ==
    LET used == {e.feature : e \in ExecEdges(s.tree.edges) \cup Names(ExecBindings(s.tree.bindings))}
        concepts == {e.concept : e \in ExecEdges(s.tree.edges) \cup Names(ExecBindings(s.tree.bindings))}
    IN AllOf({
       Refuse("unknown_capability", ~(used \subseteq Names(s.tree.registry.ids))),
       Refuse("descriptive_influence", \E c \in concepts : s.tree.concepts[c] # "executable")})

ReferentialChecks(s) ==
    LET t == s.tree
        edges == ExecEdges(t.edges)
        bindings == ExecBindings(t.bindings)
        executable(c) == c \in DOMAIN t.concepts /\ t.concepts[c] = "executable"
        both == edges \cup Names(bindings)
    IN AllOf({
       Refuse("malformed", ~t.conformant),
       Refuse("malformed", ~NoDuplicates(t.registry.ids)),
       Refuse("unknown_capability",
              \E c \in DOMAIN t.concepts : executable(c) /\ \A e \in edges : e.concept # c),
       Refuse("unknown_capability", \E e \in both : e.feature \notin Names(t.registry.ids)),
       Refuse("descriptive_influence", \E e \in both : ~executable(e.concept)),
       Refuse("unknown_capability", ~NoDuplicates(bindings) \/ Names(bindings) # edges)})

\* Mutant: the contract and the code it governs may change in one review.
ProjectionContractUnseparated(s) ==
    AllOf({Refuse("unconsumed_field", s.tree.reducer \notin s.tree.contract.approved)})

ProjectionContractChecks(s) ==
    LET t == s.tree
        bound == {f \in DOMAIN t.fields : f \in ReducerFields /\ t.fields[f].proof # <<>>}
        drifted == ~t.contract.closed
    IN IF ~t.contract.wellFormed THEN {"stale_registration"}
       ELSE AllOf({
       Refuse("unconsumed_field", t.contract.projection # bound),
       Refuse("unconsumed_field", t.reducer \notin t.contract.approved),
       Refuse("unconsumed_field",
              (\E l \in s.added : l.path = "reducer") /\ t.reducer = s.base.reducer),
       Refuse("self_authorized_widening",
              s.resolved /\ s.base.contract # t.contract
              /\ s.changed \cap ({"reducer"} \cup BelowWaist) # {}),
       Refuse("stale_registration", drifted),
       Refuse("direct_domain_read",
              ~drifted /\ \E l \in t.lines : l.path \in BelowWaist /\ l.does = "domain-api")})

FieldChecks(s) ==
    LET t == s.tree
        bound == {f \in DOMAIN t.fields : t.fields[f].proof # <<>>}
    IN AllOf({
       Refuse("unconsumed_field", DOMAIN t.fields # t.leaves),
       Refuse("unconsumed_field", \E f \in DOMAIN t.fields \ bound : ~t.fields[f].reason),
       Refuse("unconsumed_field", \E f \in bound : t.fields[f].proof # ProofOf(f)),
       Refuse("unconsumed_field",
              \E f \in bound \ ReducerFields : t.fields[f].proof = ProofOf(f) /\ f \notin t.consumers)})

\* The names of the admitted artifacts' domains and concepts.
SemanticIdentities(tree) == DOMAIN tree.concepts

\* Added lines only, each judged by where it is.
SourceBypassChecks(s) ==
    LET named(l) == l.word \in SemanticIdentities(s.tree)
        at(where) == {l \in s.added : l.path \in where}
    IN AllOf({
       Refuse("compiled_domain_registration",
              \E l \in s.added : l.does = "declares" /\ (l.word = "AnyOp" \/ named(l))),
       Refuse("concept_dispatch",
              \E l \in at(Reduction) : l.does \in {"dispatch", "compare"} \/ (l.does = "literal" /\ named(l))),
       Refuse("direct_domain_read",
              \E l \in at(BelowWaist) : l.does \in {"accessor", "domain-type"} \/ (l.does = "literal" /\ named(l))),
       Refuse("direct_domain_read", \E l \in at({"backend"}) : l.does = "capability")})

WideningChecks(s) == AllOf({
    Refuse("self_authorized_widening",
           s.resolved /\ s.changed \cap {"registry", "profile"} # {} /\ "data" \in s.changed)})

Evaluate(s) ==
    StableIdentityChecks(s) \cup ReferentialChecks(s) \cup ProjectionContractChecks(s)
    \cup FieldChecks(s) \cup SourceBypassChecks(s) \cup WideningChecks(s)
    \cup AllOf({Refuse("non_vacuous", \/ DOMAIN s.tree.concepts = {} \/ s.tree.registry.ids = <<>>
                                      \/ ExecBindings(s.tree.bindings) = <<>> \/ s.tree.backends = {})})

-----------------------------------------------------------------------------
Pay == Edge("r1", "pay", "cap1", "expands")
Note == Edge("r2", "note", "cap1", "annotates")

CleanTree ==
    [stale |-> {}, kinds |-> TRUE, registry |-> [version |-> "1", ids |-> <<"cap1">>], profile |-> "1",
     concepts |-> [pay |-> "executable", note |-> "descriptive"], edges |-> {Pay, Note},
     bindings |-> <<Pay, Note>>, conformant |-> TRUE, leaves |-> {"to", "name", "label"},
     fields |-> [to |-> Consumed("to"), name |-> Consumed("name"), label |-> Excluded],
     consumers |-> {"name"},
     contract |-> [wellFormed |-> TRUE, projection |-> {"to"}, approved |-> {"d1"}, closed |-> TRUE],
     reducer |-> "d1", lines |-> {}, backends |-> {"solidity", "postgres"}]

\* What a pull request may do next; lines of one intent and repairs of others.
EditsOf(t) ==
    {[t EXCEPT !.registry.ids = <<"cap2">> \o @], [t EXCEPT !.registry.ids = <<"cap1">> \o @],
     [t EXCEPT !.registry.version = "2"], [t EXCEPT !.profile = "2"],
     [t EXCEPT !.concepts = [@ EXCEPT !["note"] = "executable"]],
     [t EXCEPT !.edges = @ \cup {Edge("r3", "note", "cap2", "expands")}],
     [t EXCEPT !.bindings = Append(@, Edge("r3", "note", "cap2", "expands"))],
     [t EXCEPT !.bindings = SelectSeq(@, LAMBDA b : b.id # "r1")],
     [t EXCEPT !.leaves = @ \cup {"new"}], [t EXCEPT !.fields = [f \in DOMAIN @ \cup {"new"} |-> IF f = "new" THEN Excluded ELSE @[f]]],
     [t EXCEPT !.fields["label"] = [proof |-> ProofOf("name"), reason |-> FALSE]],
     [t EXCEPT !.consumers = {}], [t EXCEPT !.contract.approved = @ \cup {"d2"}],
     [t EXCEPT !.contract.approved = {"d2"}], [t EXCEPT !.reducer = "d2"],
     [t EXCEPT !.contract.closed = FALSE], [t EXCEPT !.stale = {"fast"}]}
    \cup {[t EXCEPT !.lines = @ \cup {l}, !.reducer = IF l.path = "reducer" THEN "d2" ELSE @] :
            l \in {Line("reducer", "dispatch", "kind"), Line("backend", "literal", "pay"),
                   Line("backend", "domain-api", "L2Reduction"), Line("spec-contract", "compare", "x"),
                   Line("header", "declares", "pay"), Line("backend", "capability", "cap1")}}

\* The gate's own probes: a snapshot tampered with and the code it must get.
Probes(s) ==
    LET add(l) == [s EXCEPT !.added = @ \cup {l}]
    IN {<<[s EXCEPT !.tree.bindings[1].feature = "unknown"], "unknown_capability">>,
        <<[s EXCEPT !.tree.leaves = @ \cup {"ignored"}], "unconsumed_field">>,
        <<[s EXCEPT !.tree.reducer = "tampered"], "unconsumed_field">>,
        <<add(Line("reducer", "compare", "pay")), "concept_dispatch">>,
        <<add(Line("header", "declares", "AnyOp")), "compiled_domain_registration">>,
        <<add(Line("backend", "accessor", "domain")), "direct_domain_read">>,
        <<add(Line("reducer", "compare", "unseen")), "concept_dispatch">>,
        <<add(Line("reducer", "other", "prefix")), "unconsumed_field">>,
        <<[s EXCEPT !.tree.lines = @ \cup {Line("backend", "domain-api", "h")}], "direct_domain_read">>,
        <<[s EXCEPT !.tree.contract.approved = @ \cup {"0"}, !.changed = @ \cup {"contract", "reducer"}],
          "self_authorized_widening">>,
        <<[s EXCEPT !.tree.registry.ids = Append(@, "x"), !.changed = @ \cup {"registry", "data"}],
          "self_authorized_widening">>,
        <<[s EXCEPT !.tree.bindings[1].concept = "note"], "descriptive_influence">>,
        <<[s EXCEPT !.tree.stale = {"fast"}], "stale_registration">>}

\* Reference: what merged trees are, independently of how the gate looks at them.
Sound(t) ==
    /\ {<<e.concept, e.feature>> : e \in ExecEdges(t.edges)}
         = {<<b.concept, b.feature>> : b \in Names(ExecBindings(t.bindings))}
    /\ {c \in DOMAIN t.concepts : t.concepts[c] = "executable"} = {e.concept : e \in ExecEdges(t.edges)}
    /\ {e.feature : e \in ExecEdges(t.edges)} \subseteq Names(t.registry.ids)
    /\ \A f \in t.leaves : f \in DOMAIN t.fields
                           /\ (t.fields[f].reason \/ f \in ReducerFields \cup t.consumers)
    /\ ~\E l \in t.lines : l.path \in BelowWaist /\ l.does \in {"domain-api", "capability", "compare"}

\* A step of main: what authorizes a change was there before it.
Authorized(t, u) ==
    /\ u.reducer # t.reducer => u.reducer \in t.contract.approved /\ u.contract = t.contract
    /\ u.registry # t.registry => u.edges = t.edges /\ u.bindings = t.bindings
    /\ \A b \in Names(u.bindings) \ Names(t.bindings) : b.feature \in Names(t.registry.ids)
=============================================================================
