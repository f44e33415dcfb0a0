----------------------------- MODULE DomainCorpus -----------------------------
(***************************************************************************)
(* The domain corpus: observation sets, corpus manifests, the vocabulary   *)
(* proposal generated from them and the three validators                   *)
(*   scripts/corpus/validate_domain_observation_set.py                     *)
(*   scripts/corpus/validate_domain_proposal.py                            *)
(*   scripts/corpus/validate_solidity_classification.py                    *)
(*   scripts/corpus/generate_proposal_from_observations.py                 *)
(* A content hash is the content it was taken of.  "bad" stands for a text *)
(* that misses its pattern, Absent for what is missing.                    *)
(***************************************************************************)
EXTENDS Refusals

Absent == "absent"
Bad == "bad"

\* _check_fields of the observation validator, for what an object carries too much.
ExtraFields(kinds) ==
    AllOf({Refuse("observation.ai_field_forbidden", "ai" \in kinds),
           Refuse("observation.unknown_field", "unknown" \in kinds)})

ValidateProvenance(prov) ==
    IF ~prov.present THEN {"observation.missing_field"}
    ELSE ExtraFields(prov.extra) \cup
         AllOf({Refuse("observation.schema", prov.source = Bad \/ prov.first < 1),
                Refuse("observation.span_inverted", prov.first > prov.last)})

ObservationRow(o, dims) ==
    ExtraFields(o.extra) \cup ValidateProvenance(o.prov) \cup
    AllOf({Refuse("observation.schema", o.id = Bad),
           Refuse("observation.unknown_dimension", o.dim \notin DOMAIN dims),
           Refuse("observation.unknown_dimension_value",
                  o.dim \in DOMAIN dims /\ o.value \notin Names(dims[o.dim]))})

ValidateObservations(doc) ==
    ExtraFields(doc.extra)
    \cup AllOf({Refuse("observation.schema_version", doc.version # 1),
                Refuse("observation.bad_kind", doc.kind # "observations"),
                Refuse("observation.bad_hash", doc.hash = Bad),
                Refuse("observation.schema",
                       \/ doc.rows = <<>> \/ DOMAIN doc.dims = {}
                       \/ \E d \in DOMAIN doc.dims :
                            doc.dims[d] = <<>> \/ ~NoDuplicates(doc.dims[d])),
                Refuse("observation.duplicate_id",
                       ~NoDuplicates([i \in DOMAIN doc.rows |-> doc.rows[i].id]))})
    \cup UNION {ObservationRow(doc.rows[i], doc.dims) : i \in DOMAIN doc.rows}

-----------------------------------------------------------------------------
(* validate_domain_proposal: the corpus manifest and the proposal's citations. *)

CorpusRules(corpus) ==
    UNION {AllOf({Refuse("corpus.decompiled_unreviewed",
                         s.type = "decompiled-binary" /\ ~s.licensed),
                  Refuse("corpus.authority_not_permitted",
                         s.use = "domain-authority" /\ ~s.public /\ ~s.licensed)}) :
             s \in corpus.sources}

\* What the validator lets a proposal cite.
Citable(corpus) ==
    {s.id : s \in {t \in corpus.sources :
                     t.use = "domain-authority" /\ (t.public \/ t.licensed)}}

\* Any source of the corpus may be cited.
CheckSourceListed(src, corpus) ==
    IF src \notin {s.id : s \in corpus.sources} THEN {"proposal.unknown_source"} ELSE {}

CheckSource(src, corpus) ==
    IF src \notin {s.id : s \in corpus.sources} THEN {"proposal.unknown_source"}
    ELSE IF src \notin Citable(corpus) THEN {"proposal.source_authority"} ELSE {}

ProposalRules(proposal, corpus) ==
    IF corpus.id = Absent THEN {"proposal.authority_unverifiable"}
    ELSE AllOf({Refuse("proposal.corpus_mismatch", proposal.corpus # corpus.id)})
         \cup (UNION {CheckSource(c, corpus) : c \in UNION {t.cites : t \in proposal.terms}})
         \cup UNION {CheckSource(e.source, corpus) : e \in proposal.edges}

\* vschema over the proposal's schema: at least one term, every term cited.
ProposalShape(proposal) ==
    AllOf({Refuse("proposal.schema",
                  proposal.terms = {} \/ \E t \in proposal.terms : t.cites = {})})

ValidateArtifact(kind, artifact, corpus) ==
    CASE kind = "corpus"   -> CorpusRules(artifact)
      [] kind = "proposal" -> IF ProposalShape(artifact) # {} THEN ProposalShape(artifact)
                              ELSE ProposalRules(artifact, corpus)
      [] OTHER             -> {"artifact.kind"}

-----------------------------------------------------------------------------
(* generate_proposal_from_observations *)

KnownDimensions == {"timeBound", "evidenceStyle", "expressibility", "partyModel"}
EditorialDimensions == {"partyModel"}
Unavailable == "unavailable"

Confidence(dim) == IF dim \in EditorialDimensions THEN "medium" ELSE "high"

\* The generator's own authority: it looks at the allowed use alone.
GeneratorAuthority(corpus) ==
    {s.id : s \in {t \in corpus.sources : t.use = "domain-authority"}}

\* corpus_content_hash: the sources on disk, or no corpus at all.
HashErrors(obs, dir, unverified) ==
    IF unverified THEN {}
    ELSE AllOf({Refuse("proposal.corpus_unavailable", dir = Unavailable),
                Refuse("proposal.corpus_rebind", dir # Unavailable /\ dir # obs.hash)})

GroupErrors(obs, corpus) ==
    UNION {IF obs.rows[i].dim \notin KnownDimensions THEN {"proposal.unknown_dimension"}
           ELSE AllOf({Refuse("proposal.non_authority_source",
                              obs.rows[i].prov.source \notin GeneratorAuthority(corpus))}) :
             i \in DOMAIN obs.rows}

BuildErrors(obs, corpus, dir, unverified) ==
    IF ValidateObservations(obs) # {} THEN {"proposal.invalid_observations"}
    ELSE LET mismatch == AllOf({Refuse("proposal.corpus_mismatch", obs.corpus # corpus.id)})
             hash     == HashErrors(obs, dir, unverified)
         IN  IF "proposal.corpus_unavailable" \in hash THEN mismatch \cup hash
             ELSE mismatch \cup hash \cup GroupErrors(obs, corpus)

CandidateTerms(obs) ==
    LET rows == Names(obs.rows)
    IN  {[dim |-> r.dim, value |-> r.value, confidence |-> Confidence(r.dim),
          toCore |-> r.dim = "expressibility" /\ r.value = "m5",
          questions |-> {q \in {"editorial", "frontier"} :
                           \/ q = "editorial" /\ r.dim \in EditorialDimensions
                           \/ q = "frontier" /\ r.value = "m6"},
          cites |-> {s.prov.source : s \in {t \in rows : t.dim = r.dim /\ t.value = r.value}}] :
           r \in rows}

CandidateEdges(obs) ==
    {[from |-> r.prov.construct, source |-> r.prov.source] :
       r \in {t \in Names(obs.rows) : t.dim = "expressibility" /\ t.value = "m5"}}

ExtensionCandidates(obs) ==
    {r.prov.construct :
       r \in {t \in Names(obs.rows) : t.dim = "expressibility" /\ t.value = "m6"}}

Build(obs) ==
    [corpus |-> obs.corpus, terms |-> CandidateTerms(obs), edges |-> CandidateEdges(obs),
     extensions |-> ExtensionCandidates(obs)]

-----------------------------------------------------------------------------
(* The fixtures: a corpus of two sources and an observation set over it.       *)

Source(id, public, licensed, use) ==
    [id |-> id, type |-> "repository", public |-> public, licensed |-> licensed, use |-> use]
Observation(id, dim, value, source, construct) ==
    [id |-> id, dim |-> dim, value |-> value, extra |-> {},
     prov |-> [present |-> TRUE, source |-> source, construct |-> construct, first |-> 1,
               last |-> 2, extra |-> {}]]

GoodCorpus ==
    [id |-> "c1", sources |-> {Source("A", TRUE, FALSE, "domain-authority"),
                               Source("B", FALSE, TRUE, "domain-authority")}]
GoodObservations ==
    [kind |-> "observations", version |-> 1, corpus |-> "c1", hash |-> "h1", extra |-> {},
     dims |-> [timeBound |-> <<"none", "deadline">>, expressibility |-> <<"m5", "m6">>,
               riskLevel |-> <<"high">>],
     rows |-> <<Observation("o1", "expressibility", "m5", "A", "Escrow"),
                Observation("o2", "timeBound", "deadline", "A", "Escrow"),
                Observation("o3", "expressibility", "m6", "B", "Auction")>>]

ObservationProbes ==
    LET G == GoodObservations
        P(doc, code) == [doc |-> doc, code |-> code]
    IN <<P([G EXCEPT !.version = 2], "observation.schema_version"),
         P([G EXCEPT !.hash = Bad], "observation.bad_hash"),
         P([G EXCEPT !.rows[1].extra = {"ai"}], "observation.ai_field_forbidden"),
         P([G EXCEPT !.rows[2].id = "o1"], "observation.duplicate_id"),
         P([G EXCEPT !.rows[1].dim = "mood"], "observation.unknown_dimension"),
         P([G EXCEPT !.rows[1].value = "m7"], "observation.unknown_dimension_value"),
         P([G EXCEPT !.rows[1].prov.first = 3], "observation.span_inverted"),
         P([G EXCEPT !.rows[1].prov.present = FALSE], "observation.missing_field")>>

\* generate_proposal_selftest: inputs of build and the refusal of each.
GeneratorProbes ==
    LET G == GoodObservations
        P(obs, corpus, dir, unverified, code) ==
            [doc |-> <<obs, corpus, dir, unverified>>, code |-> code]
    IN <<P([G EXCEPT !.hash = "h9"], GoodCorpus, "h1", FALSE, "proposal.corpus_rebind"),
         P(G, GoodCorpus, Unavailable, FALSE, "proposal.corpus_unavailable"),
         P([G EXCEPT !.rows[1].prov.present = FALSE], GoodCorpus, "h1", TRUE, "proposal.invalid_observations"),
         P([G EXCEPT !.rows[1].dim = "riskLevel", !.rows[1].value = "high"], GoodCorpus, "h1", TRUE,
           "proposal.unknown_dimension"),
         P([G EXCEPT !.corpus = "c2"], GoodCorpus, "h1", TRUE, "proposal.corpus_mismatch"),
         P(G, [GoodCorpus EXCEPT !.sources = {Source("A", TRUE, FALSE, "reference-only"),
                                              Source("B", TRUE, TRUE, "domain-authority")}],
           "h1", TRUE, "proposal.non_authority_source")>>

-----------------------------------------------------------------------------
(* validate_solidity_classification *)

ScalarDimensions == {"partyModel", "timeBound"}
ListDimensions == {"characteristics"}

SampleRow(s, dims) ==
    AllOf({Refuse("classification.unknown_field", s.extra),
           Refuse("classification.missing_field",
                  s.has # ScalarDimensions \cup ListDimensions),
           Refuse("classification.bad_profile_id", s.profile = Bad),
           Refuse("classification.profile_version_mismatch",
                  s.profile # Bad /\ s.profileMajor # s.version),
           Refuse("classification.source_contract_mismatch", s.stem # s.contract),
           Refuse("classification.schema",
                  \/ s.version < 1
                  \/ \E d \in ListDimensions :
                       d \in s.has
                       /\ (s.list[d] = <<>> \/ ~NoDuplicates(s.list[d]))),
           Refuse("classification.unknown_dimension_value",
                  \/ \E d \in ScalarDimensions \cap DOMAIN dims :
                       d \in s.has /\ s.scalar[d] \notin Names(dims[d])
                  \/ \E d \in ListDimensions \cap DOMAIN dims :
                       d \in s.has /\ ~(Names(s.list[d]) \subseteq Names(dims[d])))})

ValidateClassification(doc) ==
    AllOf({Refuse("classification.schema_version", doc.version # 2),
           Refuse("classification.unknown_dimension",
                  ~((DOMAIN doc.dims \cup doc.documented)
                    \subseteq (ScalarDimensions \cup ListDimensions))),
           Refuse("classification.missing_dimension",
                  ~(ScalarDimensions \cup ListDimensions \subseteq DOMAIN doc.dims)),
           Refuse("classification.schema",
                  \/ doc.samples = <<>>
                  \/ \E d \in DOMAIN doc.dims :
                       doc.dims[d] = <<>> \/ ~NoDuplicates(doc.dims[d])),
           Refuse("classification.duplicate_contract",
                  ~NoDuplicates([i \in DOMAIN doc.samples |-> doc.samples[i].contract])),
           Refuse("classification.duplicate_profile_id",
                  ~NoDuplicates([i \in DOMAIN doc.samples |-> doc.samples[i].profile]))})
    \cup UNION {SampleRow(doc.samples[i], doc.dims) : i \in DOMAIN doc.samples}

Sample(contract, profile) ==
    [contract |-> contract, profile |-> profile, profileMajor |-> 1, version |-> 1,
     stem |-> contract, extra |-> FALSE,
     has |-> ScalarDimensions \cup ListDimensions,
     scalar |-> [partyModel |-> "two", timeBound |-> "none"],
     list |-> [characteristics |-> <<"escrow">>]]
GoodClassification ==
    [version |-> 2, documented |-> {"partyModel"},
     dims |-> [partyModel |-> <<"two">>, timeBound |-> <<"none">>,
               characteristics |-> <<"escrow", "auction">>],
     samples |-> <<Sample("A", "p.a"), Sample("B", "p.b")>>]

ClassificationProbes ==
    LET G == GoodClassification
        P(doc, code) == [doc |-> doc, code |-> "classification." \o code]
    IN <<P([G EXCEPT !.version = 1], "schema_version"),
         P([G EXCEPT !.documented = {"mood"}], "unknown_dimension"),
         P([G EXCEPT !.samples[1].profile = Bad], "bad_profile_id"),
         P([G EXCEPT !.samples[1].profileMajor = 2], "profile_version_mismatch"),
         P([G EXCEPT !.samples[2].profile = "p.a"], "duplicate_profile_id"),
         P([G EXCEPT !.samples[2].contract = "A"], "duplicate_contract"),
         P([G EXCEPT !.samples[2].stem = "A"], "source_contract_mismatch"),
         P([G EXCEPT !.samples[1].scalar.partyModel = "three"], "unknown_dimension_value"),
         P([G EXCEPT !.samples[1].list.characteristics = <<"game">>], "unknown_dimension_value"),
         P([G EXCEPT !.samples[1].has = {"partyModel", "characteristics"}], "missing_field"),
         P([G EXCEPT !.dims = [d \in {"partyModel", "timeBound"} |-> G.dims[d]]],
           "missing_dimension"),
         P([G EXCEPT !.samples[1].list.characteristics = <<"escrow", "escrow">>], "schema")>>
=============================================================================
