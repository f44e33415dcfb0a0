--------------------------- MODULE ProjectionLedger ---------------------------
(***************************************************************************)
(* The ledger of backend decisions:                                        *)
(* scripts/gates/check_backend_projection_bijection.py.  Every decision    *)
(* the two legalizers still take is owned by one reviewed site, and every  *)
(* one they lost or gained since the frozen baseline has a record.         *)
(*                                                                         *)
(* A decision's anchor is its rail, its class and the expression it reads. *)
(* Its persistent identity is the anchor with the token of the legacy name *)
(* it had when the ledger was frozen; tokens are those names.  A rail has  *)
(* one governed function, and a source digest is the source.               *)
(***************************************************************************)
EXTENDS Refusals, TLC
LOCAL INSTANCE SequencesExt

-----------------------------------------------------------------------------
(***************************************************************************)
(* The design traces of the backend projection, as                         *)
(* scripts/gates/check_backend_projection_bijection.py judges them: three  *)
(* graphs of projected nodes, bound to a fixture, to source bindings and   *)
(* to the coordination plan neutrino-gen generates from the fixture.       *)
(*                                                                         *)
(* A graph has nodes (a kind each, and what else a check reads of it) and  *)
(* edges.  A source reference stands for its binding; a digest is the      *)
(* value it is a digest of.                                                *)
(***************************************************************************)

EdgeTypes == [
    guardRef |-> <<{"BalancedEffectGroup"}, {"GuardObligation"}>>,
    policyRef |-> <<{"GuardObligation", "PrimitiveObligation"}, {"QuorumPolicy"}>>,
    inputRef |-> <<{"QuorumPolicy"}, {"EvidenceAcceptance"}>>,
    observerSetRef |-> <<{"QuorumPolicy"}, {"Reference"}>>,
    fromRef |-> <<{"Transition"}, {"LifecycleState"}>>,
    toRef |-> <<{"Transition"}, {"LifecycleState"}>>,
    execRef |-> <<{"CommitState"}, {"ExecutionIdentity"}>>,
    scopeRef |-> <<{"CommitState"}, {"QuorumPolicy"}>>,
    requiredCommitRefs |-> <<{"LifecycleState"}, {"CommitState"}>>,
    groupRef |-> <<{"LedgerPosting"}, {"BalancedEffectGroup"}>>,
    effectRefs |-> <<{"BalancedEffectGroup"}, {"LedgerPosting"}>>,
    assertsRefs |-> <<{"BalanceAssertion"}, {"BalancedEffectGroup"}>>,
    amountRef |-> <<{"LedgerPosting"}, {"TypedOperand", "ComputeNode"}>>]

\* The edges a node of a kind has exactly one of; the posting's operands are one here.
ExactEdges == [
    QuorumPolicy |-> {"inputRef", "observerSetRef"}, CommitState |-> {"execRef", "scopeRef"},
    LedgerPosting |-> {"groupRef", "amountRef"}, Transition |-> {"fromRef", "toRef"}]

\* field: what the kind's own checks look at (a guard or primitive kind, a role, a terminal kind).
Node(id, kind, field) == [id |-> id, kind |-> kind, field |-> field, src |-> "bound"]
Edge(from, name, to) == [from |-> from, name |-> name, to |-> to, src |-> "bound"]

Out(trace, id, name) == {i \in DOMAIN trace.edges : trace.edges[i].from = id /\ trace.edges[i].name = name}
IdsOf(trace, kind) == {n.id : n \in {x \in Names(trace.nodes) : x.kind = kind}}
Targets(trace, name) == LET chosen == SelectSeq(trace.edges, LAMBDA e : e.name = name)
                        IN [i \in DOMAIN chosen |-> chosen[i].to]

EdgeChecks(trace) ==
    LET known == {n.id : n \in Names(trace.nodes)}
        kindsOf(id) == {n.kind : n \in {x \in Names(trace.nodes) : x.id = id}}
        edges == Names(trace.edges)
        placed == {e \in edges : e.from \in known /\ e.to \in known}
    IN AllOf({
       Refuse("trace.dangling_edge", placed # edges),
       Refuse("trace.edge_kind", \E e \in placed : e.name \notin DOMAIN EdgeTypes),
       Refuse("trace.edge_type",
              \E e \in placed : /\ e.name \in DOMAIN EdgeTypes
                                /\ ~(/\ kindsOf(e.from) \subseteq EdgeTypes[e.name][1]
                                     /\ kindsOf(e.to) \subseteq EdgeTypes[e.name][2])),
       Refuse("trace.unbound_source", \E e \in edges : e.src # "bound")})

NodeChecks(trace) ==
    LET nodes == Names(trace.nodes)
        of(kind) == {n \in nodes : n.kind = kind}
        count(n, name) == Cardinality(Out(trace, n.id, name))
    IN AllOf({
       Refuse("trace.node_identity",
              trace.nodes = <<>> \/ ~NoDuplicates([i \in DOMAIN trace.nodes |-> trace.nodes[i].id])),
       Refuse("trace.unbound_source", \E n \in nodes : n.src # "bound"),
       Refuse("trace.observerset_binding_missing", \E n \in of("Reference") : n.field = "observerSet"),
       Refuse("trace.binding_spurious", \E n \in of("Reference") : n.field = "role+binding"),
       Refuse("trace.terminal_coverage",
              \E n \in of("LifecycleState") : n.field = "terminal" /\ count(n, "requiredCommitRefs") < 1),
       Refuse("trace.edge_cardinality",
              \E n \in nodes : /\ n.kind \in DOMAIN ExactEdges
                               /\ \E name \in ExactEdges[n.kind] : count(n, name) # 1),
       Refuse("trace.guard_policy",
              \E n \in of("GuardObligation") :
                  count(n, "policyRef") # IF n.field = "attested" THEN 1 ELSE 0),
       Refuse("trace.primitive_policy",
              \E n \in of("PrimitiveObligation") :
                  \/ n.field = "single" /\ count(n, "policyRef") # 1
                  \/ n.field = "perPolicy" /\ count(n, "policyRef") < 1),
       Refuse("trace.group_effects", \E n \in of("BalancedEffectGroup") : count(n, "effectRefs") < 1),
       Refuse("trace.group_guard", \E n \in of("BalancedEffectGroup") : count(n, "guardRef") > 1),
       Refuse("trace.balance_empty", \E n \in of("BalanceAssertion") : count(n, "assertsRefs") < 1)})

\* The fixture and its bindings: the values are compared with the plan neutrino-gen writes.
BindingChecks(trace) == AllOf({
    Refuse("trace.fixture_binding", trace.fixture # trace.bound.fixture),
    Refuse("trace.value_binding", trace.value # trace.bound.value),
    Refuse("trace.coordination_plan_drift", trace.generated # trace.bound.plan),
    Refuse("trace.coordination_plan_value", trace.bound.value # trace.generated.value)})

EvidenceOnlyChecks(trace) == AllOf({
    Refuse("trace.evidence_only_shape",
           IdsOf(trace, "PrimitiveObligation") = {} \/ IdsOf(trace, "LedgerPosting") # {})})

\* A group is interleaved when the indices of its effects have a hole.
MultiPolicyChecks(trace) ==
    LET commits == IdsOf(trace, "CommitState")
        hole(group) == \E i, j \in group : \E k \in i .. j : k \notin group
    IN AllOf({
       Refuse("trace.multi_policy_exact_coverage",
              \/ Cardinality(commits) < 2 \/ Names(Targets(trace, "requiredCommitRefs")) # commits
              \/ Len(trace.groups) < 2 \/ ~\E g \in Names(trace.groups) : hole(g)),
       Refuse("trace.multi_policy_runtime",
              trace.outcomes # <<"progress", "no-progress", "terminal", "replay-refused">>)})

Expansion == [solidity |-> <<"net-update", "movement-event">>, postgres |-> <<"balance-upsert", "postings-insert">>]
RollbackCapability == [solidity |-> "evm.call-revert.v1", postgres |-> "postgres.function-transaction.v1"]

\* Classified groups, name to must-balance, and the groups the graph's assertion names.
ClassificationChecks(trace) ==
    LET groups == trace.classified
        balanced == {g \in DOMAIN groups : groups[g]}
    IN AllOf({
       Refuse("trace.balance_classification_binding", groups # trace.fixtureGroups),
       Refuse("trace.balance_non_vacuous_groups",
              Cardinality(DOMAIN groups) < 3 \/ Cardinality(balanced) < 2 \/ balanced = DOMAIN groups),
       Refuse("trace.balance_classification_graph",
              Names(trace.asserted) # balanced \/ Len(trace.asserted) # Cardinality(balanced))})

BalancedChecks(trace) ==
    LET postings == IdsOf(trace, "LedgerPosting")
        effects == Targets(trace, "effectRefs")
    IN AllOf({
       Refuse("trace.posting_order", Cardinality(postings) # 2),
       Refuse("trace.group_ref", Targets(trace, "groupRef") # <<"money", "money">>),
       Refuse("trace.group_inverse", ~NoDuplicates(effects) \/ Names(effects) # postings),
       Refuse("trace.balance_coverage", Targets(trace, "assertsRefs") # <<"money">>),
       Refuse("trace.compensate_refusal", trace.mode # "compensate"),
       Refuse("trace.posting_expansion", trace.expansion # Expansion),
       Refuse("trace.rollback_discharge_cardinality",
              \E rail \in DOMAIN RollbackCapability :
                  Cardinality({i \in DOMAIN trace.discharges : trace.discharges[i][1] = rail}) # 1),
       Refuse("trace.rollback_discharge_identity",
              \E d \in Names(trace.discharges) : d[2] # RollbackCapability[d[1]])})
       \cup ClassificationChecks(trace)

ValidateTraces(doc) ==
    UNION {EdgeChecks(doc[id]) \cup NodeChecks(doc[id]) \cup BindingChecks(doc[id]) : id \in DOMAIN doc}
    \cup EvidenceOnlyChecks(doc.evidence) \cup MultiPolicyChecks(doc.multi) \cup BalancedChecks(doc.balanced)

-----------------------------------------------------------------------------
Bound(fixture) == [fixture |-> fixture, value |-> "ns", plan |-> [value |-> "ns"]]
CleanEvidence ==
    [nodes |-> <<Node("prim", "PrimitiveObligation", "single"), Node("q", "QuorumPolicy", ""),
                 Node("in", "EvidenceAcceptance", ""), Node("obs", "Reference", "observerSet+binding")>>,
     edges |-> <<Edge("prim", "policyRef", "q"), Edge("q", "inputRef", "in"), Edge("q", "observerSetRef", "obs")>>,
     fixture |-> "f1", bound |-> Bound("f1"), value |-> "ns", generated |-> [value |-> "ns"]]
CleanMulti ==
    [nodes |-> <<Node("s0", "LifecycleState", ""), Node("s1", "LifecycleState", "terminal"),
                 Node("t", "Transition", ""), Node("id", "ExecutionIdentity", ""),
                 Node("c1", "CommitState", ""), Node("c2", "CommitState", ""), Node("q", "QuorumPolicy", ""),
                 Node("in", "EvidenceAcceptance", ""), Node("obs", "Reference", "observerSet+binding")>>,
     edges |-> <<Edge("t", "fromRef", "s0"), Edge("t", "toRef", "s1"),
                 Edge("s1", "requiredCommitRefs", "c1"), Edge("s1", "requiredCommitRefs", "c2"),
                 Edge("c1", "execRef", "id"), Edge("c2", "execRef", "id"), Edge("c1", "scopeRef", "q"),
                 Edge("c2", "scopeRef", "q"), Edge("q", "inputRef", "in"), Edge("q", "observerSetRef", "obs")>>,
     groups |-> <<{0, 2}, {1}>>, outcomes |-> <<"progress", "no-progress", "terminal", "replay-refused">>,
     fixture |-> "f2", bound |-> Bound("f2"), value |-> "ns", generated |-> [value |-> "ns"]]
CleanBalanced ==
    [nodes |-> <<Node("money", "BalancedEffectGroup", ""), Node("credit", "LedgerPosting", ""),
                 Node("debit", "LedgerPosting", ""), Node("amount", "TypedOperand", ""),
                 Node("balance", "BalanceAssertion", "")>>,
     edges |-> <<Edge("money", "effectRefs", "credit"), Edge("money", "effectRefs", "debit"),
                 Edge("credit", "groupRef", "money"), Edge("debit", "groupRef", "money"),
                 Edge("credit", "amountRef", "amount"), Edge("debit", "amountRef", "amount"),
                 Edge("balance", "assertsRefs", "money")>>,
     classified |-> [money |-> TRUE, fee |-> TRUE, audit |-> FALSE],
     fixtureGroups |-> [money |-> TRUE, fee |-> TRUE, audit |-> FALSE],
     asserted |-> <<"money", "fee">>, mode |-> "compensate", expansion |-> Expansion,
     discharges |-> <<<<"solidity", "evm.call-revert.v1">>, <<"postgres", "postgres.function-transaction.v1">>>>,
     fixture |-> "f3", bound |-> Bound("f3"), value |-> "ns", generated |-> [value |-> "ns"]]
CleanTraces == [evidence |-> CleanEvidence, multi |-> CleanMulti, balanced |-> CleanBalanced]

\* What a change of the projection, of the fixtures or of neutrino-gen does to the traces.
TraceEdits(doc) ==
    {[doc EXCEPT !.balanced.edges = Append(@, Edge("money", "effectRefs", "credit"))],
     [doc EXCEPT !.balanced.edges = SelectSeq(@, LAMBDA e : e # Edge("money", "effectRefs", "debit"))],
     [doc EXCEPT !.multi.edges = SelectSeq(@, LAMBDA e : e # Edge("s1", "requiredCommitRefs", "c2"))],
     [doc EXCEPT !.multi.edges = Append(@, Edge("s1", "requiredCommitRefs", "c3")),
                 !.multi.nodes = Append(@, Node("c3", "CommitState", ""))],
     [doc EXCEPT !.multi.edges = @ \o <<Edge("c3", "execRef", "id"), Edge("c3", "scopeRef", "q")>>],
     [doc EXCEPT !.balanced.classified["audit"] = TRUE, !.balanced.fixtureGroups["audit"] = TRUE],
     [doc EXCEPT !.evidence.generated = [value |-> "ns2"]],
     [doc EXCEPT !.evidence.value = "ns2", !.evidence.bound.value = "ns2", !.evidence.bound.plan = [value |-> "ns2"]]}

\* The trace probes of _apply_probe and the code each is after.
TraceProbes(doc) ==
    {<<[doc EXCEPT !.balanced.edges = Append(@, Edge("money", "effectRefs", "credit"))], "trace.group_inverse">>,
     <<[doc EXCEPT !.balanced.asserted = Append(@, "audit")], "trace.balance_classification_graph">>,
     <<[doc EXCEPT !.balanced.expansion.solidity = <<"net-update">>], "trace.posting_expansion">>,
     <<[doc EXCEPT !.balanced.expansion.postgres[1] = "arbitrary"], "trace.posting_expansion">>,
     <<[doc EXCEPT !.balanced.discharges = SubSeq(@, 1, 1)], "trace.rollback_discharge_cardinality">>,
     <<[doc EXCEPT !.balanced.discharges[1][2] = "x"], "trace.rollback_discharge_identity">>,
     <<[doc EXCEPT !.balanced.discharges = Append(@, @[1])], "trace.rollback_discharge_cardinality">>,
     <<[doc EXCEPT !.evidence.fixture = "absent"], "trace.fixture_binding">>,
     <<[doc EXCEPT !.evidence.nodes[1].src = "garbage"], "trace.unbound_source">>,
     <<[doc EXCEPT !.evidence.value = "fabricated"], "trace.value_binding">>}

\* Reference: success waits for every commit of the plan, and every posting is listed by one group.
TracesSound(doc) ==
    /\ \A c \in IdsOf(doc.multi, "CommitState") :
         \E e \in Names(doc.multi.edges) : e.name = "requiredCommitRefs" /\ e.to = c
    /\ \A p \in IdsOf(doc.balanced, "LedgerPosting") :
         Cardinality({i \in DOMAIN doc.balanced.edges :
                        doc.balanced.edges[i].name = "effectRefs" /\ doc.balanced.edges[i].to = p}) = 1
    /\ \A id \in DOMAIN doc : doc[id].value = doc[id].generated.value

-----------------------------------------------------------------------------
(* The ledger                                                              *)

Rails == {"solidity", "postgres"}
Anchor(rail, class, expr) == [rail |-> rail, class |-> class, expr |-> expr]
Identity(anchor, token) == [anchor |-> anchor, token |-> token]

SolIf == Anchor("solidity", "control:if", "a")
SolField == Anchor("solidity", "field:name", "b")
PgIf == Anchor("postgres", "control:if", "a")
PgFor == Anchor("postgres", "control:for", "m")

\* The frozen migration of legacy names to identities, and the frozen number of decisions.
Legacy == [sol1 |-> SolIf, sol2 |-> SolField, pg1 |-> PgIf, pg2 |-> PgFor]
FrozenEntries == [old \in DOMAIN Legacy |-> Identity(Legacy[old], old)]
MigrationBaseline == 4

SliceRows == [identity |-> {"execution"}, d611 |-> {"guard"}]
RetirementDestinations == {"ExecutionIdentity", "Guard", "mixed"}

Record(occ, slice, site, dest, row) ==
    [occ |-> occ, slice |-> slice, site |-> site, dest |-> dest, row |-> row]
\* The authenticated preimage: the decisions of one deleted span and where they went.
Retirement611 == Record(FrozenEntries["pg2"], "d611", "pg.guard", "mixed", "guard")

\* What the scanner sees of a rail, under the reviewed renaming of changed expressions.
Raw(inv, rail) == SelectSeq(inv.source, LAMBDA a : a.rail = rail)
Stable(inv, anchor) == IF anchor \in DOMAIN inv.liveMap THEN inv.liveMap[anchor] ELSE anchor
Surface(inv, rail) == [i \in DOMAIN Raw(inv, rail) |-> Stable(inv, Raw(inv, rail)[i])]
Count(s, x) == Cardinality({i \in DOMAIN s : s[i] = x})

\* Two lists with the same elements, each as often.
SameBag(s, u) == \A x \in Names(s) \cup Names(u) : Count(s, x) = Count(u, x)

IdentityMigrationChecks(inv) ==
    LET new == [i \in DOMAIN inv.entries |-> inv.entries[i][2]]
        old == [i \in DOMAIN inv.entries |-> inv.entries[i][1]]
    IN AllOf({
       Refuse("bijection.identity_migration_duplicate_old", ~NoDuplicates(old)),
       Refuse("bijection.identity_migration_duplicate_new", ~NoDuplicates(new)),
       Refuse("bijection.identity_migration_cardinality", Len(inv.entries) # Cardinality(DOMAIN Legacy)),
       Refuse("bijection.identity_migration_token", \E i \in DOMAIN inv.entries : new[i].token # old[i]),
       Refuse("bijection.identity_migration_digest",
              Names(inv.entries) # {<<o, FrozenEntries[o]>> : o \in DOMAIN Legacy})})

Preimage611Checks(inv, preimage) == AllOf({
    Refuse("bijection.611_preimage_binding_digest", preimage # Retirement611),
    Refuse("bijection.611_preimage_retirement_binding",
           SelectSeq(inv.retired, LAMBDA r : r.slice = "d611") # <<preimage>>)})

\* The snapshot, the renamings and the declared surface against the scanned sources.
SourceChecks(inv) == AllOf({
    Refuse("bijection.intake_boundary", inv.intake # "CoordinationPlan"),
    Refuse("bijection.source_drift", inv.snapshot # inv.source),
    Refuse("bijection.migration_live_identity_reclassification",
           \E a \in DOMAIN inv.liveMap : \/ inv.liveMap[a].class # a.class
                                         \/ inv.liveMap[a].rail # a.rail),
    Refuse("bijection.migration_live_identity_stable_duplicate",
           \E a, b \in DOMAIN inv.liveMap : a # b /\ inv.liveMap[a] = inv.liveMap[b]),
    Refuse("bijection.migration_live_identity_source_absent", ~(DOMAIN inv.liveMap \subseteq Names(inv.source))),
    Refuse("bijection.decision_surface_set", DOMAIN inv.coverage # Rails),
    Refuse("bijection.decision_surface_digest",
           \E rail \in DOMAIN inv.coverage : ~SameBag(inv.coverage[rail], Surface(inv, rail)))})

SiteChecks(inv) ==
    LET ids == [i \in DOMAIN inv.sites |-> inv.sites[i].id]
    IN AllOf({
       Refuse("bijection.duplicate_site", ~NoDuplicates(ids)),
       Refuse("bijection.unclassified_site",
              \E s \in Names(inv.sites) : s.disposition \notin {"backend-idiom", "projected"})})

\* The generated (mode, role) -> atom table and what the status sites consume.
StatusAtomChecks(inv) == AllOf({
    Refuse("bijection.status_atom_table_duplicate", ~NoDuplicates(inv.atoms)),
    Refuse("bijection.status_atom_table_missing_mapping", inv.roles \ Names(inv.atoms) # {}),
    Refuse("bijection.status_atom_table_unconsumed_mapping", Names(inv.atoms) \ inv.roles # {})})

\* All the occurrences the sites own, one after the other.
Owned(inv) == FlattenSeq([i \in DOMAIN inv.owned |-> inv.owned[i].occs])
OwnedBy(inv, site) == UNION {Names(g.occs) : g \in {x \in Names(inv.owned) : x.site = site}}

RailOf(inv, site) == {s.rail : s \in {x \in Names(inv.sites) : x.id = site}}

\* Mutant: a decision without lineage may be owned.
OwnershipByAnchor(inv) ==
    LET anchors == [i \in DOMAIN Owned(inv) |-> Owned(inv)[i].anchor]
        live == Surface(inv, "solidity") \o Surface(inv, "postgres")
    IN AllOf({
       Refuse("bijection.multiply_owned_decision_occurrences", ~NoDuplicates(Owned(inv))),
       Refuse("bijection.unowned_decision_occurrences", \E a \in Names(live) : Count(live, a) > Count(anchors, a)),
       Refuse("bijection.unknown_decision_occurrences", \E a \in Names(anchors) : Count(anchors, a) > Count(live, a))})

OwnershipChecks(inv) ==
    LET owned == Owned(inv)
        anchors == [i \in DOMAIN owned |-> owned[i].anchor]
        live == Surface(inv, "solidity") \o Surface(inv, "postgres")
        lineage == {e[2] : e \in Names(inv.entries)} \cup {r.occ : r \in Names(inv.added)}
    IN AllOf({
       Refuse("bijection.decision_owner_wrong_rail",
              \E g \in Names(inv.owned) : \E o \in Names(g.occs) : o.anchor.rail \notin RailOf(inv, g.site)),
       Refuse("bijection.cross_owner_source_binding",
              \E g, h \in Names(inv.owned) : g.site # h.site /\ {o.anchor : o \in Names(g.occs)}
                                                                \cap {o.anchor : o \in Names(h.occs)} # {}),
       Refuse("bijection.unowned_decision_occurrences", \E a \in Names(live) : Count(live, a) > Count(anchors, a)),
       Refuse("bijection.unknown_decision_occurrences", \E a \in Names(anchors) : Count(anchors, a) > Count(live, a)),
       Refuse("bijection.multiply_owned_decision_occurrences", ~NoDuplicates(owned)),
       Refuse("bijection.identity_migration_unlineaged_live", ~(Names(owned) \subseteq lineage))})

\* One record of the migration: its slice, its site, the site's row.
RecordChecks(inv, r) ==
    LET sites == {s \in Names(inv.sites) : s.id = r.site}
        rows == {w \in Names(inv.rows) : w.id = r.row}
    IN AllOf({
       Refuse("bijection.migration_slice_row", r.row \notin SliceRows[r.slice]),
       Refuse("bijection.migration_site_unknown", sites = {}),
       Refuse("bijection.migration_site_rail", \E s \in sites : s.rail # r.occ.anchor.rail),
       Refuse("bijection.migration_destination",
              r.dest # "mixed" /\ \E s \in sites : s.dest # r.dest),
       Refuse("bijection.migration_row_membership",
              \/ rows = {}
              \/ \E w \in rows : r.site \notin Names(w.solidity) \cup Names(w.postgres))})

MigrationChecks(inv) ==
    LET occs(records) == [i \in DOMAIN records |-> records[i].occ]
        owned == Names(Owned(inv))
        back == Names(inv.addRetired)
        alive == Len(Surface(inv, "solidity")) + Len(Surface(inv, "postgres"))
    IN AllOf({
       Refuse("bijection.migration_baseline_frozen", inv.baseline # MigrationBaseline),
       Refuse("bijection.migration_reconciliation",
              MigrationBaseline + Len(inv.added) # alive + Len(inv.retired) + Len(inv.addRetired)),
       Refuse("bijection.migration_retirement_resurrected", Names(occs(inv.retired)) \cap owned # {}),
       Refuse("bijection.migration_retirement_destination_kind",
              \E r \in Names(inv.retired) : r.dest \notin RetirementDestinations),
       Refuse("bijection.migration_addition_retirement_resurrected", {r.occ : r \in back} \cap owned # {}),
       Refuse("bijection.migration_addition_absent",
              \E r \in Names(inv.added) : r.occ \notin {b.occ : b \in back} /\ r.occ \notin owned),
       Refuse("bijection.migration_addition_unowned_by_site",
              \E r \in Names(inv.added) : r.occ \notin {b.occ : b \in back} /\ r.occ \notin OwnedBy(inv, r.site)),
       Refuse("bijection.migration_addition_retirement_provenance", ~(back \subseteq Names(inv.added))),
       Refuse("bijection.migration_retirement_duplicate",
              \E records \in {inv.retired, inv.added, inv.addRetired} : ~NoDuplicates(occs(records))),
       Refuse("bijection.migration_retire_add_overlap",
              Names(occs(inv.retired)) \cap Names(occs(inv.added)) # {})})
       \cup UNION {RecordChecks(inv, r) : r \in Names(inv.retired) \cup Names(inv.added) \cup back}

RowChecks(inv) ==
    LET refs(w) == w.solidity \o w.postgres
        used == UNION {Names(refs(w)) : w \in Names(inv.rows)}
        ids == {s.id : s \in Names(inv.sites)}
        times(id) == Cardinality({p \in (DOMAIN inv.rows) \X (1 .. 4) :
                                    p[2] \in DOMAIN refs(inv.rows[p[1]]) /\ refs(inv.rows[p[1]])[p[2]] = id})
    IN AllOf({
       Refuse("bijection.rail_hole", \E w \in Names(inv.rows) : w.solidity = <<>> \/ w.postgres = <<>>),
       Refuse("bijection.unknown_site", ~(used \subseteq ids)),
       Refuse("bijection.wrong_rail",
              \E w \in Names(inv.rows) : \/ \E id \in Names(w.solidity) : RailOf(inv, id) # {"solidity"}
                                         \/ \E id \in Names(w.postgres) : RailOf(inv, id) # {"postgres"}),
       Refuse("bijection.unowned_sites", ~(ids \subseteq used)),
       Refuse("bijection.multiply_owned_sites", \E id \in used : times(id) > 1),
       Refuse("bijection.compensate_accepted", inv.unsupported # [r \in Rails |-> "unsupported-refusal"])})

ValidateInventory(inv, preimage) ==
    SourceChecks(inv) \cup SiteChecks(inv) \cup StatusAtomChecks(inv) \cup IdentityMigrationChecks(inv)
    \cup Preimage611Checks(inv, preimage) \cup OwnershipChecks(inv) \cup MigrationChecks(inv) \cup RowChecks(inv)

\* At the terminal zero the ledger is history: the convergence gate answers for it.
Evaluate(tree) ==
    IF tree.terminal = "none" THEN ValidateInventory(tree.inv, Retirement611) \cup ValidateTraces(tree.traces)
    ELSE AllOf({Refuse("bijection.terminal_structural_zero_binding", tree.terminal # "zero"),
                Refuse("bijection.terminal_successor_gate_failed", ~tree.converged)})

-----------------------------------------------------------------------------
Site(id, rail, dest) == [id |-> id, rail |-> rail, disposition |-> "backend-idiom", dest |-> dest]
Group(site, occs) == [site |-> site, occs |-> occs]

CleanInventory ==
    [intake |-> "CoordinationPlan", source |-> <<SolIf, SolField, PgIf>>, snapshot |-> <<SolIf, SolField, PgIf>>,
     liveMap |-> [a \in {} |-> a], coverage |-> [solidity |-> <<SolIf, SolField>>, postgres |-> <<PgIf>>],
     sites |-> <<Site("sol.identity", "solidity", "ExecutionIdentity"), Site("sol.guard", "solidity", "Guard"),
                 Site("pg.identity", "postgres", "ExecutionIdentity"), Site("pg.guard", "postgres", "Guard")>>,
     atoms |-> <<"initial", "success">>, roles |-> {"initial", "success"},
     entries |-> <<<<"sol1", FrozenEntries["sol1"]>>, <<"sol2", FrozenEntries["sol2"]>>,
                   <<"pg1", FrozenEntries["pg1"]>>, <<"pg2", FrozenEntries["pg2"]>>>>,
     owned |-> <<Group("sol.identity", <<FrozenEntries["sol1"]>>), Group("sol.guard", <<FrozenEntries["sol2"]>>),
                 Group("pg.identity", <<FrozenEntries["pg1"]>>), Group("pg.guard", <<>>)>>,
     baseline |-> MigrationBaseline, retired |-> <<Retirement611>>, added |-> <<>>, addRetired |-> <<>>,
     rows |-> <<[id |-> "execution", solidity |-> <<"sol.identity">>, postgres |-> <<"pg.identity">>],
                [id |-> "guard", solidity |-> <<"sol.guard">>, postgres |-> <<"pg.guard">>]>>,
     unsupported |-> [r \in Rails |-> "unsupported-refusal"]]

CleanTree == [terminal |-> "none", converged |-> FALSE, inv |-> CleanInventory, traces |-> CleanTraces]

\* The legalizer changes and the reviewed surface is refreshed with it, or not.
Touch(inv, source) ==
    {[inv EXCEPT !.source = source],
     LET new == [inv EXCEPT !.source = source, !.snapshot = source]
     IN [new EXCEPT !.coverage = [r \in Rails |-> Surface(new, r)]]}

NewCall == Anchor("postgres", "call:helper", "n")
Own(inv, i, occ) == [inv EXCEPT !.owned[i].occs = Append(@, occ)]
Disown(inv, i) == [inv EXCEPT !.owned[i].occs = <<>>]

\* A decision goes, comes, comes back or changes its expression; the ledger follows it or is edited alone.
LedgerEdits(inv) ==
    LET added == Record(Identity(NewCall, "new"), "identity", "pg.identity", "ExecutionIdentity", "execution")
        again == Record(Identity(PgFor, "again"), "d611", "pg.guard", "Guard", "guard")
        gone == Record(FrozenEntries["pg1"], "identity", "pg.identity", "ExecutionIdentity", "execution")
    IN Touch(inv, SelectSeq(inv.source, LAMBDA a : a # PgIf))
       \cup Touch(inv, Append(inv.source, NewCall)) \cup Touch(inv, Append(inv.source, PgFor))
       \cup Touch(inv, SelectSeq(inv.source, LAMBDA a : a # NewCall))
       \cup Touch([inv EXCEPT !.liveMap = (Anchor("solidity", "control:if", "c") :> SolIf)],
                  [i \in DOMAIN inv.source |-> IF inv.source[i] = SolIf
                                               THEN Anchor("solidity", "control:if", "c") ELSE inv.source[i]])
       \cup {[Disown(inv, 3) EXCEPT !.retired = Append(@, gone)], Disown(inv, 3),
             [Own(inv, 3, added.occ) EXCEPT !.added = Append(@, added)],
             Own(inv, 3, added.occ), [inv EXCEPT !.added = Append(@, added)],
             [inv EXCEPT !.owned[3].occs = SelectSeq(@, LAMBDA o : o # added.occ), !.addRetired = Append(@, added)],
             [Own(inv, 4, FrozenEntries["pg2"]) EXCEPT !.retired = <<>>], Own(inv, 4, FrozenEntries["pg2"]),
             [Own(inv, 4, again.occ) EXCEPT !.added = Append(@, again)],
             [inv EXCEPT !.baseline = @ - 1, !.retired = Append(@, gone)],
             [inv EXCEPT !.atoms = Append(@, "attest")], [inv EXCEPT !.roles = @ \cup {"attest"}]}

\* Once history, the ledger may be edited under the successor's eyes, and taken up again.
\* A review is of the traces or of the ledger.
EditsOf(tree) ==
    {[tree EXCEPT !.terminal = "zero"], [tree EXCEPT !.terminal = "none"], [tree EXCEPT !.converged = TRUE]}
    \cup IF tree.terminal # "none"
         THEN {[tree EXCEPT !.inv = [Own(@, 4, FrozenEntries["pg2"]) EXCEPT !.retired = <<>>]]}
         ELSE (IF tree.traces = CleanTraces THEN {[tree EXCEPT !.inv = inv] : inv \in LedgerEdits(tree.inv)} ELSE {})
              \cup IF tree.inv = CleanInventory
                   THEN {[tree EXCEPT !.traces = doc] : doc \in TraceEdits(tree.traces)} ELSE {}

\* The ledger probes of _apply_probe: the inventory and the preimage they leave.
LedgerProbes(inv) ==
    LET pre(p, code) == <<p, Retirement611, code>>
        reintroduced == CHOOSE i \in Touch(inv, Append(inv.source, PgFor)) : i.snapshot = i.source
    IN {pre([inv EXCEPT !.sites = Append(@, @[1])], "bijection.duplicate_site"),
        pre([inv EXCEPT !.sites[1].disposition = "other"], "bijection.unclassified_site"),
        pre([inv EXCEPT !.rows[1].postgres = <<>>], "bijection.rail_hole"),
        pre([inv EXCEPT !.snapshot = <<>>], "bijection.source_drift"),
        pre([inv EXCEPT !.coverage = [r \in {"solidity"} |-> @[r]]], "bijection.decision_surface_set"),
        pre(Disown(inv, 1), "bijection.unowned_decision_occurrences"),
        pre(Own(inv, 2, inv.owned[1].occs[1]), "bijection.multiply_owned_decision_occurrences"),
        pre([inv EXCEPT !.unsupported["solidity"] = "backend-idiom"], "bijection.compensate_accepted"),
        pre([inv EXCEPT !.intake = "L2 record"], "bijection.intake_boundary"),
        pre([inv EXCEPT !.baseline = @ + 1], "bijection.migration_baseline_frozen"),
        pre([inv EXCEPT !.baseline = @ + 1,
                        !.retired = Append(@, Record(Identity(NewCall, "ghost"), "identity", "pg.identity",
                                                     "ExecutionIdentity", "execution"))],
            "bijection.migration_baseline_frozen"),
        pre([inv EXCEPT !.retired = <<>>], "bijection.migration_reconciliation"),
        pre([inv EXCEPT !.retired = Append(@, @[1])], "bijection.migration_retirement_duplicate"),
        pre([inv EXCEPT !.retired[1].row = "execution"], "bijection.611_preimage_retirement_binding"),
        <<inv, [Retirement611 EXCEPT !.occ = FrozenEntries["pg1"]], "bijection.611_preimage_binding_digest">>,
        pre([inv EXCEPT !.added = Append(@, Record(FrozenEntries["pg1"], "d611", "pg.guard", "Guard", "guard"))],
            "bijection.migration_addition_unowned_by_site"),
        pre([inv EXCEPT !.added = Append(@, Record(Identity(NewCall, "x"), "d611", "pg.guard", "Guard", "guard"))],
            "bijection.migration_addition_absent"),
        pre(reintroduced, "bijection.unowned_decision_occurrences"),
        pre([inv EXCEPT !.atoms = SubSeq(@, 1, 1)], "bijection.status_atom_table_missing_mapping"),
        pre([inv EXCEPT !.entries = SubSeq(@, 1, 3)], "bijection.identity_migration_cardinality"),
        pre([inv EXCEPT !.entries = Append(@, <<@[1][1], @[2][2]>>)], "bijection.identity_migration_duplicate_old"),
        pre([inv EXCEPT !.entries[2][2] = inv.entries[1][2]], "bijection.identity_migration_duplicate_new"),
        pre([inv EXCEPT !.entries[1][2].token = "substituted"], "bijection.identity_migration_token"),
        pre([inv EXCEPT !.owned[2].occs[1].anchor = SolIf], "bijection.cross_owner_source_binding")}

ProbeOutcomes(tree) ==
    {<<ValidateInventory(p[1], p[2]), p[3]>> : p \in LedgerProbes(tree.inv)}
    \cup {<<ValidateTraces(p[1]), p[2]>> : p \in TraceProbes(tree.traces)}

\* Reference: each live decision is one site's, and was frozen or declared; the books balance.
Sound(tree) ==
    IF tree.terminal # "none" THEN tree.converged ELSE
    LET inv == tree.inv
        owner(a) == {g.site : g \in {x \in Names(inv.owned) : \E o \in Names(x.occs) : o.anchor = Stable(inv, a)}}
        declared == {r.occ : r \in Names(inv.added)}
    IN /\ \A a \in Names(inv.source) : Cardinality(owner(a)) = 1 /\ RailOf(inv, CHOOSE s \in owner(a) : TRUE) = {a.rail}
       /\ \A o \in Names(Owned(inv)) :
            /\ o \in declared \/ o \in {FrozenEntries[l] : l \in DOMAIN Legacy}
            /\ o \notin {r.occ : r \in Names(inv.retired) \cup Names(inv.addRetired)}
       /\ Len(inv.source) = MigrationBaseline - Len(inv.retired) + Len(inv.added) - Len(inv.addRetired)
       /\ TracesSound(tree.traces)

\* The decisions of the deleted span stay retired, whatever else is reviewed, until the ledger is history.
Authorized(tree, next) ==
    next.terminal = "none" =>
        /\ Retirement611 \in Names(next.inv.retired)
        /\ FrozenEntries["pg2"] \notin Names(Owned(next.inv))
=============================================================================
