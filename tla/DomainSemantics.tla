---------------------------- MODULE DomainSemantics ----------------------------
(***************************************************************************)
(* The L2 domain-semantics validators and what is admitted through them    *)
(*   scripts/domain/validate_l2_domain_semantics.py, _v2.py, _v3.py        *)
(*   scripts/domain/validate_l2_branch_compat.py                           *)
(*   scripts/gates/classify_m7_intake.py                                   *)
(*   scripts/gates/check_m7_reduction_conformance.py                       *)
(* A hash is the content it covers; arrays are hashed sorted, so as bags.  *)
(***************************************************************************)
EXTENDS Refusals

-----------------------------------------------------------------------------
(***************************************************************************)
(* The first-generation L2 sidecars: each by itself and across branches    *)
(*   scripts/domain/validate_l2_domain_semantics.py                        *)
(*   scripts/domain/validate_l2_branch_compat.py                           *)
(* A capability is its pair <<namespace, name>>; an operand is             *)
(* [sort, name] with sort param, symbol, number or none.                   *)
(***************************************************************************)

Unset == "unset"
Ops == {"<", "<=", "==", "!=", ">=", ">"}
ProofTags == {"authority", "event", "liveness"}
ConceptKinds == {"state", "action", "concept"}
TraceRelations == {"expands", "discharges", "protects", "failure"}

\* implements names the capability, qualified or by its last part.
NamesCapability(implements, cap) == implements \in {cap, <<"", cap[2]>>}

ParamRef(operand, params) == operand.sort = "param" /\ operand.name \notin params

CheckPredicate(p, params, failures) ==
    AllOf({Refuse("L2-1001", p.extra),
           Refuse("L2-1006", p.compares = p.refers),
           Refuse("L2-1006",
                  p.compares /\ (\/ p.op \notin Ops \/ p.left.sort \in {"none", "number"}
                                 \/ p.right.sort = "none")),
           Refuse("L2-1005", p.compares /\ p.right.sort = "number"),
           Refuse("L2-1008",
                  p.compares /\ (ParamRef(p.left, params) \/ ParamRef(p.right, params))),
           Refuse("L2-1007", p.onFailure \notin failures \cup {Unset})})

ConceptCodes(c, anchors) ==
    AllOf({Refuse("L2-1001", c.kind \notin ConceptKinds),
           Refuse("L2-1003", c.to = Unset \/ c.to \notin anchors),
           Refuse("L2-1001", c.to # Unset /\ c.relation \notin TraceRelations)})

EvidenceCodes(e) ==
    AllOf({Refuse("L2-1001", e.tags = {} \/ ~(e.tags \subseteq ProofTags))})

ValidateSidecar(a) ==
    LET failures == Names(a.failures)
        anchors  == a.primitives \cup a.obligations \cup failures
        params   == {p.name : p \in Names(a.parameters)}
    IN  AllOf({Refuse("L2-1001", a.extra \/ a.version # 1 \/ a.concepts = <<>>),
               Refuse("L2-1002", ~NamesCapability(a.implements, a.capability)),
               Refuse("L2-1004",
                      ~(UNION {b.concepts : b \in Names(a.branches)}
                        \subseteq {c.name : c \in Names(a.concepts)})),
               Refuse("L2-1005", \E p \in Names(a.parameters) : p.value),
               Refuse("L2-1001", \E p \in Names(a.parameters) : p.type = Unset)})
        \cup (UNION {ConceptCodes(c, anchors) : c \in Names(a.concepts)})
        \cup (UNION {EvidenceCodes(e) : e \in Names(a.evidence)})
        \cup (UNION {CheckPredicate(g, params, {}) : g \in Names(a.guards)})
        \cup UNION {CheckPredicate(i, params, failures) : i \in Names(a.invariants)}

-----------------------------------------------------------------------------
(* Two branches that claim one boundary fact agree on it; a fact of one        *)
(* branch alone is its own.                                                    *)

CapabilityCodes(sidecars) ==
    LET shared == sidecars[1].capability
    IN  AllOf({Refuse("L2X-2001",
                 \E a \in Names(sidecars) :
                    a.capability # shared \/ ~NamesCapability(a.implements, shared))})

EvidenceFacts(a) == {[name |-> e.name, fact |-> <<e.required, e.schema>>] : e \in Names(a.evidence)}
ConceptFacts(a) ==
    {[name |-> c.name, fact |-> <<c.kind, c.relation, c.to>>] : c \in Names(a.concepts)}
ParameterFacts(a) == {[name |-> p.name, fact |-> <<p.type>>] : p \in Names(a.parameters)}

\* Two declarations of one name with different facts, anywhere.
Clash(facts) == \E f, g \in facts : f.name = g.name /\ f.fact # g.fact

BranchCompat(sidecars) ==
    IF Len(sidecars) < 2 THEN {"L2X-2001"}
    ELSE CapabilityCodes(sidecars) \cup
         AllOf({Refuse("L2X-2002", Clash(UNION {EvidenceFacts(a) : a \in Names(sidecars)})),
                Refuse("L2X-2003", Clash(UNION {ConceptFacts(a) : a \in Names(sidecars)})),
                Refuse("L2X-2004", Clash(UNION {ParameterFacts(a) : a \in Names(sidecars)}))})

-----------------------------------------------------------------------------
Symbol(sort, name) == [sort |-> sort, name |-> name]
Compare(left, op, right) ==
    [extra |-> FALSE, compares |-> TRUE, refers |-> FALSE, left |-> left, op |-> op,
     right |-> right, onFailure |-> Unset]
GoodSidecar ==
    [version |-> 1, extra |-> FALSE, implements |-> <<"", "escrow">>,
     capability |-> <<"coordinate", "escrow">>, primitives |-> {"hold"}, obligations |-> {"pay"},
     failures |-> <<"late">>,
     concepts |-> <<[name |-> "held", kind |-> "state", relation |-> "expands", to |-> "hold"]>>,
     branches |-> <<[concepts |-> {"held"}]>>,
     parameters |-> <<[name |-> "limit", type |-> "money", value |-> FALSE]>>,
     evidence |-> <<[name |-> "bill", required |-> TRUE, schema |-> "s1", tags |-> {"event"}]>>,
     guards |-> <<Compare(Symbol("symbol", "sum"), "<=", Symbol("param", "limit"))>>,
     invariants |-> <<[Compare(Symbol("symbol", "sum"), ">=", Symbol("symbol", "zero"))
                         EXCEPT !.onFailure = "late"]>>]

SidecarProbes ==
    LET G == GoodSidecar
        P(a, code) == [doc |-> a, code |-> code]
    IN <<P([G EXCEPT !.version = 2], "L2-1001"),
         P([G EXCEPT !.implements = <<"", "swap">>], "L2-1002"),
         P([G EXCEPT !.concepts[1].to = "nowhere"], "L2-1003"),
         P([G EXCEPT !.branches[1].concepts = {"ghost"}], "L2-1004"),
         P([G EXCEPT !.parameters[1].value = TRUE], "L2-1005"),
         P([G EXCEPT !.guards[1].right = Symbol("number", "7")], "L2-1005"),
         P([G EXCEPT !.guards[1].refers = TRUE], "L2-1006"),
         P([G EXCEPT !.guards[1].op = "~"], "L2-1006"),
         P([G EXCEPT !.invariants[1].onFailure = "ghost"], "L2-1007"),
         P([G EXCEPT !.guards[1].right.name = "ghost"], "L2-1008"),
         P([G EXCEPT !.evidence[1].tags = {"rumour"}], "L2-1001")>>

BranchProbes ==
    LET G == GoodSidecar
        P(a, code) == [doc |-> <<G, a>>, code |-> code]
    IN <<P([G EXCEPT !.capability = <<"coordinate", "swap">>], "L2X-2001"),
         P([G EXCEPT !.implements = <<"other", "escrow">>], "L2X-2001"),
         P([G EXCEPT !.evidence[1].required = FALSE], "L2X-2002"),
         P([G EXCEPT !.concepts[1].kind = "action"], "L2X-2003"),
         P([G EXCEPT !.parameters[1].type = "number"], "L2X-2004"),
         [doc |-> <<G>>, code |-> "L2X-2001"]>>

-----------------------------------------------------------------------------
(* The closed vocabularies and the strict validator                        *)

None == "none"
L1Relations == {"expands", "discharges", "protects"}
ExecutableRelations == {"expands", "discharges"}
SupportedLossiness == {"lossless", "lossy_preserved"}
Field(s, name) == [i \in DOMAIN s |-> s[i][name]]
AsBag(s) == [x \in Names(s) |-> Cardinality({i \in DOMAIN s : s[i] = x})]

\* _canonical_body: everything but the hash, each array sorted.
CanonicalBody(a) ==
    [kind |-> a.kind, version |-> a.version, domain |-> a.domain, extra |-> a.extra,
     features |-> AsBag(a.features), concepts |-> AsBag(a.concepts),
     reductions |-> AsBag(a.reductions), failures |-> AsBag(a.failures),
     invariants |-> AsBag(a.invariants), provenance |-> AsBag(a.provenance),
     imports |-> AsBag(a.imports), intake |-> a.intake]
Hashed(a) == [a EXCEPT !.hash = CanonicalBody(a)]

ValidateShape(a, version, intakeRequired) ==
    AllOf({Refuse("l2v2.shape",
             \/ a.extra \/ a.domain = ""
             \/ a.intake.present # intakeRequired
             \/ intakeRequired /\ (a.intake.extra \/ a.intake.profile < 1 \/ a.intake.reducer < 1)
             \/ \E i \in Names(a.imports) : i.version = "bad"),
           Refuse("l2v2.identity", a.kind # "l2" \/ a.version # version)})

ValidateSemantics(a) ==
    LET features == Names(Field(a.features, "name"))
        concepts == Names(Field(a.concepts, "name"))
        edges    == Names(a.reductions)
        failures == Names(Field(a.failures, "name"))
        ids      == Field(a.concepts, "name") \o Field(a.reductions, "id")
                    \o Field(a.features, "name") \o Field(a.failures, "name")
        descriptive == {c.name : c \in {x \in Names(a.concepts) : x.class = "descriptive"}}
        traced   == {e.from : e \in {x \in edges : x.rel \in L1Relations
                                                   /\ x.loss \in SupportedLossiness}}
        accepted == {p.subject : p \in {x \in Names(a.provenance) : x.status = "accepted"}}
    IN AllOf({
         Refuse("l2v2.identity",
                ~NoDuplicates(ids) \/ ~NoDuplicates(Field(a.imports, "capability"))),
         Refuse("l2v2.reference",
                \/ \E e \in edges :
                     \/ e.from \notin concepts
                     \/ e.to \notin (IF e.rel = "failure" THEN failures ELSE features)
                \/ \E p \in Names(a.provenance) : p.subject \notin concepts \cup {e.id : e \in edges}
                \/ \E i \in Names(a.invariants) : i.onFailure \notin failures \cup {None}),
         Refuse("l2v2.classification",
                \E e \in edges : e.rel \in ExecutableRelations /\ e.from \in descriptive),
         Refuse("l2v2.traceability", ~(concepts \subseteq traced)),
         Refuse("l2v2.provenance",
                \E e \in edges : e.rel \in ExecutableRelations /\ e.id \notin accepted)})

ValidateV2(a, version, intakeRequired) ==
    LET shape == ValidateShape(a, version, intakeRequired)
    IN  shape \cup (IF shape = {} THEN ValidateSemantics(a) ELSE {})
        \cup AllOf({Refuse("l2v2.hash", a.hash # CanonicalBody(a))})
ValidateV3(a) == ValidateV2(a, 3, TRUE)

-----------------------------------------------------------------------------
(* classify_m7_intake.  The profile pins a vocabulary file by its version.     *)

LoadProfile(p) == AllOf({Refuse("intake.profile_invalid", ~p.wellFormed)})

\* resolve_profile_vocabulary: the file the profile names, at the version it pins.
VocabularyError(profile, vocabulary) ==
    ~profile.sourceExists \/ vocabulary.version # profile.vocabulary

ExecutableEdges(a) == {e \in Names(a.reductions) : e.rel \in ExecutableRelations}

\* The first accepted provenance record of a subject, as the dict keeps it.
FirstAccepted(a, id) ==
    LET found == {i \in DOMAIN a.provenance :
                    a.provenance[i].subject = id /\ a.provenance[i].status = "accepted"}
    IN  {a.provenance[i] : i \in {x \in found : \A y \in found : x <= y}}

EdgeCodes(a, vocabulary) ==
    UNION {AllOf({
             Refuse("intake.unregistered_capability", e.to \notin vocabulary.features),
             Refuse("intake.unversioned_mapping", ~\E p \in FirstAccepted(a, e.id) : p.versioned),
             Refuse("intake.provenance_incomplete", ~\E p \in FirstAccepted(a, e.id) : p.hashed),
             Refuse("intake.ambiguous_mapping",
                    \E f \in ExecutableEdges(a) \ {e} : f.from = e.from /\ f.to = e.to)}) :
             e \in ExecutableEdges(a)}

StaleCodes(a, profile, vocabulary) ==
    AllOf({Refuse("intake.stale_vocabulary", a.intake.profile # vocabulary.version),
           Refuse("intake.stale_reducer", a.intake.reducer # profile.reducer)})

Classify(a, profile, vocabulary) ==
    IF VocabularyError(profile, vocabulary) THEN {"intake.vocabulary_unresolvable"}
    ELSE IF a.kind # "l2" \/ a.version # 3 THEN {"intake.unsupported_schema_version"}
    ELSE IF ValidateV3(a) # {} THEN {"intake.artifact_invalid"}
    ELSE IF StaleCodes(a, profile, vocabulary) # {} THEN StaleCodes(a, profile, vocabulary)
    ELSE EdgeCodes(a, vocabulary)

ExecutableCapabilities(a, vocabulary) == {e.to : e \in ExecutableEdges(a)} \cap vocabulary.features
DescriptiveRecords(a) ==
    {c.name : c \in {x \in Names(a.concepts) : x.name \notin {e.from : e \in ExecutableEdges(a)}}}

-----------------------------------------------------------------------------
(* check_m7_reduction_conformance *)

ValidateRegistry(registry, version) ==
    FirstOf(<<Refuse("conformance.malformed",
                     ~registry.wellFormed \/ ~NoDuplicates(Field(registry.rows, "id"))),
              Refuse("conformance.stale_registry", registry.version # version)>>)

Binding(e) == [edge |-> e.id, concept |-> e.from, feature |-> e.to, rel |-> e.rel]
ExecutableBindings(red) == SelectSeq(red.bindings, LAMBDA b : b.rel \in ExecutableRelations)

\* Only what the reduction has is compared, not what it lost.
ReductionCodesOneWay(a, red) ==
    AllOf({Refuse("conformance.reduction_incomplete",
             \/ red.domain # a.domain
             \/ ~NoDuplicates(ExecutableBindings(red))
             \/ ~(Names(ExecutableBindings(red)) \subseteq {Binding(e) : e \in ExecutableEdges(a)}))})


ReductionCodes(a, red) ==
    AllOf({Refuse("conformance.reduction_incomplete",
             \/ red.domain # a.domain
             \/ ~NoDuplicates(ExecutableBindings(red))
             \/ Names(ExecutableBindings(red)) # {Binding(e) : e \in ExecutableEdges(a)})})

RegistryCodes(a, red, registry) ==
    LET refused == ValidateRegistry(registry, a.intake.profile)
        ids     == Names(Field(registry.rows, "id"))
        Category(name) == (CHOOSE r \in Names(registry.rows) : r.id = name).category
    IN  IF refused # Ok THEN {refused}
        ELSE AllOf({Refuse("conformance.unregistered_capability",
                      \/ \E f \in Names(a.features) : f.name \notin ids
                      \/ \E b \in Names(ExecutableBindings(red)) : b.feature \notin ids),
                    Refuse("conformance.category_mismatch",
                      \E f \in Names(a.features) :
                         f.name \in ids /\ Category(f.name) # f.kind)})

ParityCodes(red, expected) ==
    AllOf({Refuse("conformance.parity_mismatch", expected.given /\ expected.red # red)})

\* What conform says of the artifact once the reduction is in hand.
ConformCodes(a, red, registry, expected) ==
    IF ~red.wellFormed THEN {"conformance.malformed"}
    ELSE ReductionCodes(a, red) \cup RegistryCodes(a, red, registry) \cup ParityCodes(red, expected)

-----------------------------------------------------------------------------
Reduction(id, from, to, rel) ==
    [id |-> id, from |-> from, to |-> to, rel |-> rel, loss |-> "lossless"]
Accepted(id) == [subject |-> id, status |-> "accepted", versioned |-> TRUE, hashed |-> TRUE]

ArtifactBody ==
    [kind |-> "l2", version |-> 3, domain |-> "d", extra |-> FALSE, hash |-> [kind |-> None],
     features |-> <<[name |-> "effect:debit", kind |-> "primitive"]>>,
     concepts |-> <<[name |-> "hold", class |-> "executable"],
                    [name |-> "audit", class |-> "descriptive"]>>,
     reductions |-> <<Reduction("r1", "hold", "effect:debit", "expands"),
                      Reduction("r2", "audit", "effect:debit", "protects")>>,
     failures |-> <<[name |-> "late"]>>, invariants |-> <<[name |-> "inv", onFailure |-> "late"]>>,
     provenance |-> <<Accepted("r1")>>,
     imports |-> <<[capability |-> "other", version |-> "1.0.0"]>>,
     intake |-> [present |-> TRUE, extra |-> FALSE, profile |-> 3, reducer |-> 1]]
GoodArtifact == Hashed(ArtifactBody)
GoodProfile == [wellFormed |-> TRUE, sourceExists |-> TRUE, vocabulary |-> 3, reducer |-> 1]
GoodVocabulary == [version |-> 3, features |-> {"effect:debit", "effect:credit"}]
GoodRegistry ==
    [wellFormed |-> TRUE, version |-> 3,
     rows |-> <<[id |-> "effect:debit", category |-> "primitive"],
                [id |-> "effect:credit", category |-> "primitive"]>>]
ReductionOf(a) ==
    [wellFormed |-> TRUE, domain |-> a.domain,
     bindings |-> [i \in DOMAIN a.reductions |-> Binding(a.reductions[i])]]
NoExpectation == [given |-> FALSE, red |-> ReductionOf(GoodArtifact)]

\* The selftests of v2 and v3: a rehashed mutation each validator refuses.
SemanticsProbes ==
    LET B == ArtifactBody
        P(a, code) == [doc |-> Hashed(a), code |-> "l2v2." \o code]
    IN <<P([B EXCEPT !.extra = TRUE], "shape"),
         P([B EXCEPT !.kind = "l2-sidecar"], "identity"),
         P([B EXCEPT !.version = 2], "identity"),
         P([B EXCEPT !.reductions[1].from = "missing"], "reference"),
         P([B EXCEPT !.reductions[1].to = "missing"], "reference"),
         P([B EXCEPT !.concepts[1].class = "descriptive"], "classification"),
         P([B EXCEPT !.provenance = <<>>], "provenance"),
         P([B EXCEPT !.provenance = Append(@, Accepted("ghost"))], "reference"),
         P([B EXCEPT !.concepts[2].name = "r1"], "identity"),
         P([B EXCEPT !.invariants[1].onFailure = "ghost"], "reference"),
         P([B EXCEPT !.reductions[1].loss = "unsupported"], "traceability"),
         P([B EXCEPT !.imports[1].version = "bad"], "shape"),
         P([B EXCEPT !.imports = @ \o @], "identity"),
         P([B EXCEPT !.intake.present = FALSE], "shape"),
         P([B EXCEPT !.intake.extra = TRUE], "shape"),
         [doc |-> [GoodArtifact EXCEPT !.intake.reducer = 9], code |-> "l2v2.hash"]>>

IntakeProbes ==
    LET B == ArtifactBody
        P(a, code) == [doc |-> <<Hashed(a), GoodProfile>>, code |-> "intake." \o code]
        Twin == Reduction("r1_dup", "hold", "effect:debit", "expands")
    IN <<P([B EXCEPT !.features[1].name = "effect:teleport", !.reductions[1].to = "effect:teleport",
                     !.reductions[2].to = "effect:teleport"], "unregistered_capability"),
         P([B EXCEPT !.provenance[1].versioned = FALSE], "unversioned_mapping"),
         P([B EXCEPT !.provenance[1].hashed = FALSE], "provenance_incomplete"),
         P([B EXCEPT !.reductions = Append(@, [Twin EXCEPT !.loss = "lossy_preserved"]),
                     !.provenance = Append(@, Accepted("r1_dup"))], "ambiguous_mapping"),
         P([B EXCEPT !.concepts[1].class = "descriptive"], "artifact_invalid"),
         P([B EXCEPT !.version = 4], "unsupported_schema_version"),
         P([B EXCEPT !.version = 2, !.intake.present = FALSE], "unsupported_schema_version"),
         P([B EXCEPT !.intake.profile = 99], "stale_vocabulary"),
         P([B EXCEPT !.intake.reducer = 99], "stale_reducer"),
         [doc |-> <<[GoodArtifact EXCEPT !.domain = "tampered"], GoodProfile>>,
          code |-> "intake.artifact_invalid"],
         [doc |-> <<GoodArtifact, [GoodProfile EXCEPT !.sourceExists = FALSE]>>,
          code |-> "intake.vocabulary_unresolvable"]>>

ConformanceProbes ==
    LET R == ReductionOf(GoodArtifact)
        P(red, registry, expected, code) ==
            [doc |-> <<red, registry, expected>>, code |-> "conformance." \o code]
    IN <<P([R EXCEPT !.bindings = Tail(@)], GoodRegistry, NoExpectation, "reduction_incomplete"),
         P([R EXCEPT !.wellFormed = FALSE], GoodRegistry, NoExpectation, "malformed"),
         P(R, [GoodRegistry EXCEPT !.version = 999], NoExpectation, "stale_registry"),
         P(R, [GoodRegistry EXCEPT !.rows = @ \o @], NoExpectation, "malformed"),
         P(R, [GoodRegistry EXCEPT !.rows = Tail(@)], NoExpectation, "unregistered_capability"),
         P(R, [GoodRegistry EXCEPT !.rows[1].category = "obligation"], NoExpectation,
           "category_mismatch"),
         P(R, GoodRegistry, [given |-> TRUE, red |-> [R EXCEPT !.bindings = <<>>]],
           "parity_mismatch")>>
=============================================================================
