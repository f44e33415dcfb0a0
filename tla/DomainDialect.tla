----------------------------- MODULE DomainDialect -----------------------------
(***************************************************************************)
(* The domain dialect: its validator, its expansion into a .neu source     *)
(* with a manifest, and the diagnostics mapped back through the manifest   *)
(*   scripts/domain/validate_domain_dialect.py                             *)
(*   scripts/domain/expand_dialect.py                                      *)
(*   scripts/domain/domain_diagnostics.py                                  *)
(* The .neu text is the sequence of its lines, each named by the construct *)
(* it belongs to (Filler for the rest).  A hash is the content itself.     *)
(***************************************************************************)
EXTENDS Refusals, SequencesExt

NoHash == [pinned |-> FALSE]
Filler == "filler"
NoName == "none"

Layers == {"L1", "L2", "L3", "L4"}
Statuses == {"proposed", "accepted", "rejected"}
ObligationKinds == {"debit", "credit"}
InputTypes == {"string", "party", "money", "currency", "number", "evidence"}
ReservedCore == {"procedure", "debit", "credit", "participant"}

\* canonical_hash: everything but the embedded hash.
CanonicalHash(d) ==
    [pinned |-> TRUE, kind |-> d.kind, terms |-> d.terms, template |-> d.template,
     nodes |-> d.nodes, edges |-> d.edges, maps |-> d.maps]

SchemaErrors(d) ==
    AllOf({Refuse("dialect.schema",
             \/ d.kind # "dialect" \/ d.template.layer \notin Layers
             \/ \E n \in Names(d.terms) : n.layer \notin Layers
             \/ \E o \in Names(d.template.obligations) :
                  o.kind \notin ObligationKinds \/ o.ledger = ""
             \/ \E i \in DOMAIN d.template.inputs : d.template.inputs[i].type \notin InputTypes
             \/ \E e \in Names(d.edges) : e.status \notin Statuses)})

RedefinesCore(d) ==
    AllOf({Refuse("dialect.redefines_core",
                  \/ {t.name : t \in Names(d.terms)} \cap ReservedCore # {}
                  \/ d.template.name \in ReservedCore)})

EdgeIds(d) == {e.id : e \in Names(d.edges)}
\* edge_status: the last edge of an id decides.
EdgeStatus(d, id) == d.edges[SelectLastInSeq(d.edges, LAMBDA e : e.id = id)].status

ItemRefs(d, item) ==
    AllOf({Refuse("dialect.missing_provenance", item.layer = "L2" /\ item.refs = {}),
           Refuse("dialect.unknown_provenance_ref", ~(item.refs \subseteq EdgeIds(d))),
           Refuse("dialect.unaccepted_provenance",
                  item.layer = "L2" /\ \E r \in item.refs \cap EdgeIds(d) :
                                          EdgeStatus(d, r) # "accepted")})

CrossrefDiagnostics(d) ==
    AllOf({Refuse("dialect.duplicate_id",
                  ~NoDuplicates(d.nodes) \/ ~NoDuplicates([i \in DOMAIN d.edges |-> d.edges[i].id])),
           Refuse("dialect.dangling_edge_ref",
                  \E e \in Names(d.edges) : {e.from, e.to} \cap Names(d.nodes) # {e.from, e.to}),
           Refuse("dialect.unaccepted_provenance", \E s \in d.maps : s # "accepted")})
    \cup (UNION {ItemRefs(d, t) : t \in Names(d.terms)})
    \cup ItemRefs(d, d.template)

ValidateDialect(d) ==
    SchemaErrors(d) \cup RedefinesCore(d)
    \cup (IF SchemaErrors(d) = {} THEN CrossrefDiagnostics(d) ELSE {})
    \cup AllOf({Refuse("dialect.hash_mismatch", d.pin.pinned /\ d.pin # CanonicalHash(d))})

-----------------------------------------------------------------------------
(* expand_dialect *)

InputsOf(t, type) == {t.inputs[i].name : i \in {j \in DOMAIN t.inputs : t.inputs[j].type = type}}
UniqueInput(t, type) == Cardinality(InputsOf(t, type)) = 1
Operands(t) == \A type \in {"money", "currency", "string"} : UniqueInput(t, type)

Participant(t, name) == {p \in Names(t.participants) : p.name = name}
RoleOf(t, name) == (CHOOSE p \in Participant(t, name) : TRUE).role
\* _party_input: the party input a role is bound to by its name.
PartyInput(t, role) == \E i \in DOMAIN t.inputs : t.inputs[i] = [name |-> role, type |-> "party"]

RenderError(d, template) ==
    LET t == d.template
    IN FirstOf(<<
         Refuse("template not found", template # t.name),
         Refuse("only procedures expand", t.expandsTo # "procedure"),
         Refuse("operands", ~Operands(t)),
         Refuse("identifier", \E p \in Names(t.participants) : p.role = ""),
         Refuse("input type", \E i \in DOMAIN t.inputs : t.inputs[i].type \notin InputTypes),
         Refuse("obligation",
                \E o \in Names(t.obligations) :
                   \/ o.kind \notin ObligationKinds \/ o.ledger = ""
                   \/ Participant(t, o.participant) = {}),
         Refuse("party input",
                \E o \in Names(t.obligations) : ~PartyInput(t, RoleOf(t, o.participant)))>>)

Lines(construct, n) == [i \in 1..n |-> construct]

\* render_neu: header, procedure, participants, inputs and legs, in this order.
RenderNeu(t) ==
    LET participant(p) == Lines(p.name, 3)
        leg(o) == Lines(Filler, 1) \o Lines(o.name, 9)
        Each(s, F(_)) == FlattenSeq([i \in DOMAIN s |-> F(s[i])])
        both == {o.kind : o \in Names(t.obligations)} = ObligationKinds
    IN  Lines(Filler, 5) \o Lines("procedure", 1) \o Lines(Filler, 2)
        \o Each(t.participants, participant)
        \o (IF t.participants = <<>> THEN <<>> ELSE Lines(Filler, 1))
        \o Lines(Filler, Len(t.inputs)) \o Each(t.obligations, leg)
        \o (IF both THEN Lines(Filler, 2) ELSE <<>>) \o Lines(Filler, 1)

\* The span is taken after the next line was appended.
SpanOfLate(text, construct, height) ==
    LET last == SelectLastInSeq(text, LAMBDA l : l = construct)
    IN  [first |-> last - height + 2, last |-> last + 1]

\* spans, recorded while the lines are appended; a construct written twice
\* keeps the span of its last text.
SpanOf(text, construct, height) ==
    LET last == SelectLastInSeq(text, LAMBDA l : l = construct)
    IN  [first |-> last - height + 1, last |-> last]

\* _term_by_role: the first term of the role.
TermRefs(d, role) ==
    LET i == SelectInSeq(d.terms, LAMBDA t : t.role = role)
    IN  IF i = 0 THEN {} ELSE d.terms[i].refs

EdgesFrom(d, type, concept) ==
    {e.id : e \in {x \in Names(d.edges) : x.type = type /\ x.from = concept}}

LegEdges(d, o) ==
    TermRefs(d, RoleOf(d.template, o.participant)) \cup EdgesFrom(d, "expandsTo", o.name)

Used(d) ==
    d.template.refs
    \cup (UNION {TermRefs(d, p.role) : p \in Names(d.template.participants)})
    \cup UNION {LegEdges(d, o) \cup EdgesFrom(d, "lowersTo", o.name) :
                  o \in Names(d.template.obligations)}

ManifestError(d) ==
    FirstOf(<<Refuse("cannot trace",
                \E p \in Names(d.template.participants) : TermRefs(d, p.role) = {}),
              Refuse("absent edges", ~(Used(d) \subseteq EdgeIds(d)))>>)

BuildManifest(d, text) ==
    LET t == d.template
        Row(name, edges, height) ==
            [construct |-> name, edges |-> edges, span |-> SpanOf(text, name, height)]
    IN  [hash |-> d.pin, source |-> text, used |-> Used(d),
         constructs |-> {Row("procedure", t.refs, 1)}
                        \cup {Row(p.name, TermRefs(d, p.role), 3) : p \in Names(t.participants)}
                        \cup {Row(o.name, LegEdges(d, o), 9) : o \in Names(t.obligations)}]

ExpansionError(d, template) ==
    FirstOf(<<Refuse("not a dialect", d.kind # "dialect"),
              Refuse("hash mismatch", d.pin # CanonicalHash(d)),
              Refuse("render", RenderError(d, template) # Ok),
              Refuse("manifest", ManifestError(d) # Ok)>>)

-----------------------------------------------------------------------------
(* domain_diagnostics: spans longest first, the first that holds the line.     *)

Origin(manifest, line) ==
    LET hits == {c \in manifest.constructs : c.span.first <= line /\ line <= c.span.last}
        width(c) == c.span.last - c.span.first
    IN  IF hits = {} THEN NoName
        ELSE (CHOOSE c \in hits : \A x \in hits : width(x) <= width(c)).construct

MapDiagnostics(manifest, text, lines) ==
    [matches |-> manifest.source = text,
     origin  |-> [l \in lines |-> IF manifest.source = text THEN Origin(manifest, l) ELSE NoName]]

-----------------------------------------------------------------------------
Edge(id, type, from, to) ==
    [id |-> id, type |-> type, from |-> from, to |-> to, status |-> "accepted"]
Term(name, role, refs) == [name |-> name, layer |-> "L2", role |-> role, refs |-> refs]
Input(name, type) == [name |-> name, type |-> type]

DialectBody ==
    [kind |-> "dialect", pin |-> NoHash, maps |-> {"accepted"},
     terms |-> <<Term("Payer", "payer", {"e1"}), Term("Payee", "payee", {"e2"})>>,
     template |-> [name |-> "transfer", layer |-> "L2", expandsTo |-> "procedure",
        refs |-> {"e1"},
        participants |-> <<[name |-> "a", role |-> "payer"], [name |-> "b", role |-> "payee"]>>,
        inputs |-> <<Input("payer", "party"), Input("payee", "party"), Input("sum", "money"),
                     Input("ccy", "currency"), Input("key", "string")>>,
        obligations |-> <<[name |-> "pay", participant |-> "a", kind |-> "debit", ledger |-> "l"],
                          [name |-> "get", participant |-> "b", kind |-> "credit", ledger |-> "l"]>>],
     nodes |-> <<"pay", "get", "core", "rail">>,
     edges |-> <<Edge("e1", "expandsTo", "pay", "core"), Edge("e2", "expandsTo", "get", "core"),
                 Edge("e3", "lowersTo", "pay", "rail")>>]
Pinned(d) == [d EXCEPT !.pin = CanonicalHash(d)]
GoodDialect == Pinned(DialectBody)

DialectProbes ==
    LET B == DialectBody
        P(d, code) == [doc |-> Pinned(d), code |-> "dialect." \o code]
    IN <<P([B EXCEPT !.template.layer = "L9"], "schema"),
         P([B EXCEPT !.terms[1].name = "debit"], "redefines_core"),
         P([B EXCEPT !.nodes = <<"pay", "pay", "get", "core", "rail">>], "duplicate_id"),
         P([B EXCEPT !.edges[2].id = "e1", !.terms[2].refs = {"e1"}], "duplicate_id"),
         P([B EXCEPT !.edges[1].to = "nowhere"], "dangling_edge_ref"),
         P([B EXCEPT !.terms[1].refs = {}], "missing_provenance"),
         P([B EXCEPT !.terms[1].refs = {"e9"}], "unknown_provenance_ref"),
         P([B EXCEPT !.edges[2].status = "proposed"], "unaccepted_provenance"),
         P([B EXCEPT !.maps = {"rejected"}], "unaccepted_provenance"),
         [doc |-> [GoodDialect EXCEPT !.template.name = "other"], code |-> "dialect.hash_mismatch"]>>
=============================================================================
