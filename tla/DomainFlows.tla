------------------------------ MODULE DomainFlows ------------------------------
(***************************************************************************)
(* The three command-line flows of the domain side, on files that somebody *)
(* else edits in between.                                                  *)
(*   corpus:  generate_proposal_from_observations --emit / --check         *)
(*   dialect: expand_dialect writes the .neu and then its manifest;        *)
(*            domain_diagnostics reads the .neu twice and the manifest     *)
(*   intake:  check_m7_reduction_conformance reads the artifact, has the   *)
(*            classifier read it again and the reducer a third time        *)
(* Only the files and processes of the chosen flow move.                   *)
(***************************************************************************)
EXTENDS DomainCorpus, DomainDialect, DomainSemantics

CONSTANTS MaxEdits,   \* edits of the files during one behaviour
          MaxTools    \* invocations of the tools during one behaviour

VARIABLES flow, edits, tools,
          corpus, sources, observations, committed, checked,   \* corpus flow
          dialect, neu, manifest, expansion, mapped,           \* dialect flow
          artifact, vocabulary, registry, conform, conformed   \* intake flow

corpusVars == <<corpus, sources, observations, committed, checked>>
dialectVars == <<dialect, neu, manifest, expansion, mapped>>
intakeVars == <<artifact, vocabulary, registry, conform, conformed>>
vars == <<flow, edits, tools, corpusVars, dialectVars, intakeVars>>

Edit == edits < MaxEdits /\ edits' = edits + 1 /\ UNCHANGED <<flow, tools>>
Invoke == tools < MaxTools /\ tools' = tools + 1 /\ UNCHANGED <<flow, edits>>
Proceed == UNCHANGED <<flow, edits, tools>>

-----------------------------------------------------------------------------
(* The corpus flow *)
Corpora ==
    {GoodCorpus,
     [GoodCorpus EXCEPT !.sources = {Source("A", TRUE, FALSE, "domain-authority"),
                                     Source("B", FALSE, FALSE, "domain-authority")}],
     [GoodCorpus EXCEPT !.sources = {Source("A", TRUE, FALSE, "domain-authority"),
                                     Source("B", TRUE, TRUE, "reference-only")}],
     [GoodCorpus EXCEPT !.id = "c2"]}
ObservationSets ==
    {GoodObservations, [GoodObservations EXCEPT !.hash = "h2"],
     [GoodObservations EXCEPT !.rows = SubSeq(@, 1, 2)],
     [GoodObservations EXCEPT !.rows[2].prov.source = "B"],
     [GoodObservations EXCEPT !.rows[1].value = "m7"],
     [GoodObservations EXCEPT !.corpus = "c2"]}

Unproposed == [present |-> FALSE, proposal |-> Build(GoodObservations)]
Unchecked == [mode |-> "none", ok |-> FALSE, unverified |-> FALSE, corpus |-> GoodCorpus,
              sources |-> "h1", observations |-> GoodObservations, committed |-> Unproposed]

EditCorpus == Edit /\ corpus' \in Corpora \ {corpus}
              /\ UNCHANGED <<sources, observations, committed, checked>>
EditSources == Edit /\ sources' \in {"h1", "h2", Unavailable} \ {sources}
               /\ UNCHANGED <<corpus, observations, committed, checked>>
EditObservations == Edit /\ observations' \in ObservationSets \ {observations}
                    /\ UNCHANGED <<corpus, sources, committed, checked>>

Verdict(mode, ok, unverified, file) ==
    [mode |-> mode, ok |-> ok, unverified |-> unverified, corpus |-> corpus, sources |-> sources,
     observations |-> observations, committed |-> file]

\* main --emit: the proposal is written when the build reports no error.
EmitProposal(unverified) ==
    LET ok   == BuildErrors(observations, corpus, sources, unverified) = {}
        file == IF ok THEN [present |-> TRUE, proposal |-> Build(observations)] ELSE committed
    IN  /\ Invoke
        /\ committed' = file
        /\ checked' = Verdict("emit", ok, unverified, file)
        /\ UNCHANGED <<corpus, sources, observations>>

\* main --check: rebuild, compare with the committed file, validate that file.
CheckCodes(unverified) ==
    LET errors == BuildErrors(observations, corpus, sources, unverified)
    IN  IF errors # {} THEN errors
        ELSE IF ~committed.present THEN {"proposal.not_committed"}
        ELSE IF committed.proposal # Build(observations) THEN {"proposal.drift"}
        ELSE AllOf({Refuse("proposal.validation_failed",
                      ValidateArtifact("proposal", committed.proposal, corpus) # {})})

CheckProposal(unverified) ==
    /\ Invoke
    /\ checked' = Verdict("check", CheckCodes(unverified) = {}, unverified, committed)
    /\ UNCHANGED <<corpus, sources, observations, committed>>

CorpusNext ==
    /\ flow = "corpus"
    /\ \/ EditCorpus \/ EditSources \/ EditObservations
       \/ \E u \in BOOLEAN : EmitProposal(u) \/ CheckProposal(u)
    /\ UNCHANGED <<dialectVars, intakeVars>>

-----------------------------------------------------------------------------
(* The dialect flow *)
Dialects ==
    LET B == DialectBody
    IN {GoodDialect,
        Pinned([B EXCEPT !.template.participants = Tail(@), !.template.obligations = Tail(@)]),
        Pinned([B EXCEPT !.template.inputs = Append(@, Input("fee", "number"))]),
        Pinned([B EXCEPT !.terms[1].refs = {"e9"}]),
        Pinned([B EXCEPT !.terms = Tail(@)]),
        Pinned([B EXCEPT !.edges[2].status = "proposed"]),
        [B EXCEPT !.template.name = "other"],
        [GoodDialect EXCEPT !.template.obligations = Tail(@)]}

NoManifest == [hash |-> NoHash, source |-> <<>>, used |-> {}, constructs |-> {}]
IdleTool == [step |-> "idle", dialect |-> GoodDialect, text |-> <<>>, lines |-> {}, stable |-> TRUE]
Unmapped == [done |-> FALSE, text |-> <<>>, stable |-> TRUE,
             map |-> MapDiagnostics(NoManifest, <<"x">>, {})]

EditDialect == Edit /\ dialect' \in Dialects \ {dialect}
               /\ UNCHANGED <<neu, manifest, expansion, mapped>>
\* Somebody edits the generated source: a line more, or a line less.
EditNeu ==
    /\ Edit /\ neu # <<>>
    /\ neu' \in {<<Filler>> \o neu, Tail(neu)}
    /\ expansion' = [expansion EXCEPT !.stable = FALSE]
    /\ UNCHANGED <<dialect, manifest, mapped>>

\* main of expand_dialect up to the first write: an error writes nothing.
BeginExpand ==
    /\ Invoke /\ expansion.step = "idle"
    /\ IF ExpansionError(dialect, "transfer") # Ok THEN UNCHANGED expansion
       ELSE expansion' = [step |-> "rendered", dialect |-> dialect,
                          text |-> RenderNeu(dialect.template), lines |-> {}, stable |-> TRUE]
    /\ UNCHANGED <<dialect, neu, manifest, mapped>>
WriteNeu ==
    /\ Proceed /\ expansion.step = "rendered"
    /\ neu' = expansion.text /\ expansion' = [expansion EXCEPT !.step = "written"]
    /\ UNCHANGED <<dialect, manifest, mapped>>
WriteManifest ==
    /\ Proceed /\ expansion.step = "written"
    /\ manifest' = BuildManifest(expansion.dialect, expansion.text)
    /\ expansion' = IdleTool
    /\ UNCHANGED <<dialect, neu, mapped>>
\* The process is killed between its writes.
KillExpand ==
    /\ Proceed /\ expansion.step \in {"rendered", "written"}
    /\ expansion' = IdleTool /\ UNCHANGED <<dialect, neu, manifest, mapped>>

\* domain_diagnostics: neutrino_lang reads the .neu and reports some line.
BeginDiagnose ==
    /\ Invoke /\ expansion.step = "idle" /\ neu # <<>>
    /\ \E l \in 1..Len(neu) :
         expansion' = [step |-> "diagnosed", dialect |-> dialect, text |-> neu, lines |-> {l},
                       stable |-> TRUE]
    /\ UNCHANGED <<dialect, neu, manifest, mapped>>
\* ... and the manifest and the .neu are read afterwards.
FinishDiagnose ==
    /\ Proceed /\ expansion.step = "diagnosed"
    /\ mapped' = [done |-> TRUE, text |-> expansion.text, stable |-> expansion.stable,
                  map |-> MapDiagnostics(manifest, neu, expansion.lines)]
    /\ expansion' = IdleTool /\ UNCHANGED <<dialect, neu, manifest>>

DialectNext ==
    /\ flow = "dialect"
    /\ \/ EditDialect \/ EditNeu \/ BeginExpand \/ WriteNeu \/ WriteManifest \/ KillExpand
       \/ BeginDiagnose \/ FinishDiagnose
    /\ UNCHANGED <<corpusVars, intakeVars>>

-----------------------------------------------------------------------------
(* The intake flow *)
Artifacts ==
    LET B == ArtifactBody
        Credit == Reduction("r3", "audit", "effect:credit", "discharges")
        Wider  == [B EXCEPT !.features = Append(@, [name |-> "effect:credit", kind |-> "primitive"]),
                            !.concepts[2].class = "executable",
                            !.reductions = Append(@, Credit)]
    IN {GoodArtifact, [GoodArtifact EXCEPT !.domain = "e"],
        Hashed([Wider EXCEPT !.provenance = Append(@, Accepted("r3"))]),
        Hashed([Wider EXCEPT !.provenance = Append(@, [Accepted("r3") EXCEPT !.versioned = FALSE])]),
        Hashed([B EXCEPT !.features[1].kind = "obligation"]),
        Hashed([B EXCEPT !.intake.profile = 4])}
Registries == {GoodRegistry, [GoodRegistry EXCEPT !.version = 4],
               [GoodRegistry EXCEPT !.rows = <<@[1]>>]}
Vocabularies == {GoodVocabulary, [GoodVocabulary EXCEPT !.features = {"effect:debit"}],
                 [GoodVocabulary EXCEPT !.version = 4]}

\* The reducer (neutrino-emit): its projection, or one that is off.
ReducerOutcomes(a) ==
    LET r == ReductionOf(a)
    IN {r, [r EXCEPT !.bindings = Tail(@)], [r EXCEPT !.bindings = Append(@, @[1])],
        [r EXCEPT !.bindings[1].feature = "effect:credit"], [r EXCEPT !.wellFormed = FALSE]}

NotConforming == [step |-> "idle", artifact |-> GoodArtifact, red |-> ReductionOf(GoodArtifact),
                  stable |-> TRUE]
Unconformed == [done |-> FALSE, conformant |-> FALSE, artifact |-> GoodArtifact, stable |-> TRUE,
                vocabulary |-> GoodVocabulary, registry |-> GoodRegistry, capabilities |-> {}]

EditArtifact ==
    /\ Edit /\ artifact' \in Artifacts \ {artifact}
    /\ conform' = [conform EXCEPT !.stable = FALSE]
    /\ UNCHANGED <<vocabulary, registry, conformed>>
EditRegistry == Edit /\ registry' \in Registries \ {registry}
                /\ UNCHANGED <<artifact, vocabulary, conform, conformed>>
EditVocabulary == Edit /\ vocabulary' \in Vocabularies \ {vocabulary}
                  /\ conform' = [conform EXCEPT !.stable = FALSE]
                  /\ UNCHANGED <<artifact, registry, conformed>>

Refused(job) ==
    [done |-> TRUE, conformant |-> FALSE, artifact |-> job.artifact, stable |-> job.stable,
     vocabulary |-> vocabulary, registry |-> registry, capabilities |-> {}]

BeginConform ==
    /\ Invoke /\ conform.step = "idle"
    /\ conform' = [NotConforming EXCEPT !.step = "read", !.artifact = artifact]
    /\ UNCHANGED <<artifact, vocabulary, registry, conformed>>
Admit ==
    /\ Proceed /\ conform.step = "read"
    /\ IF Classify(artifact, GoodProfile, vocabulary) = {}
       THEN conform' = [conform EXCEPT !.step = "admitted"] /\ UNCHANGED conformed
       ELSE conform' = NotConforming /\ conformed' = Refused(conform)
    /\ UNCHANGED <<artifact, vocabulary, registry>>
Reduce ==
    /\ Proceed /\ conform.step = "admitted"
    /\ \/ /\ \E r \in ReducerOutcomes(artifact) :
               conform' = [conform EXCEPT !.step = "reduced", !.red = r]
          /\ UNCHANGED conformed
       \/ conform' = NotConforming /\ conformed' = Refused(conform)   \* reduction_failed
    /\ UNCHANGED <<artifact, vocabulary, registry>>
Judge ==
    /\ Proceed /\ conform.step = "reduced"
    /\ conformed' = [done |-> TRUE, artifact |-> conform.artifact, stable |-> conform.stable,
          conformant |-> ConformCodes(conform.artifact, conform.red, registry, NoExpectation) = {},
          vocabulary |-> vocabulary, registry |-> registry,
          capabilities |-> {b.feature : b \in Names(ExecutableBindings(conform.red))}]
    /\ conform' = NotConforming /\ UNCHANGED <<artifact, vocabulary, registry>>

IntakeNext ==
    /\ flow = "intake"
    /\ \/ EditArtifact \/ EditRegistry \/ EditVocabulary
       \/ BeginConform \/ Admit \/ Reduce \/ Judge
    /\ UNCHANGED <<corpusVars, dialectVars>>

-----------------------------------------------------------------------------
Init ==
    /\ flow \in {"corpus", "dialect", "intake"} /\ edits = 0 /\ tools = 0
    /\ corpus = GoodCorpus /\ sources = "h1" /\ observations = GoodObservations
    /\ committed = Unproposed /\ checked = Unchecked
    /\ dialect = GoodDialect /\ neu = <<>> /\ manifest = NoManifest /\ expansion = IdleTool
    /\ mapped = Unmapped
    /\ artifact = GoodArtifact /\ vocabulary = GoodVocabulary /\ registry = GoodRegistry
    /\ conform = NotConforming /\ conformed = Unconformed

Next == CorpusNext \/ DialectNext \/ IntakeNext
Spec == Init /\ [][Next]_vars

-----------------------------------------------------------------------------
(* Properties *)

Cited(proposal) == (UNION {t.cites : t \in proposal.terms}) \cup {e.source : e \in proposal.edges}

(***************************************************************************)
(* A --check that passes vouches for what was on disk while it ran: every  *)
(* cited source may be cited in that corpus, every term rests on a row of  *)
(* that observation set and every row on a term, and the observations were *)
(* taken of those sources unless the check was told not to look.           *)
(***************************************************************************)
CheckedProposalIsGrounded ==
    checked.mode = "check" /\ checked.ok =>
        LET p    == checked.committed.proposal
            rows == Names(checked.observations.rows)
        IN  /\ Cited(p) \subseteq Citable(checked.corpus)
            /\ {<<t.dim, t.value>> : t \in p.terms} = {<<r.dim, r.value>> : r \in rows}
            /\ \A r \in rows : \E t \in p.terms :
                  t.dim = r.dim /\ t.value = r.value /\ r.prov.source \in t.cites
            /\ p.corpus = checked.corpus.id
            /\ checked.unverified \/ checked.sources = checked.observations.hash

(***************************************************************************)
(* domain_diagnostics sends the author to the right construct: a line of   *)
(* the text neutrino_lang read is mapped to the construct it renders, and  *)
(* to none only when it renders none, unless the .neu changed meanwhile or *)
(* does not match the manifest.                                            *)
(***************************************************************************)
OriginIsTrue ==
    mapped.done /\ mapped.stable /\ mapped.map.matches =>
        \A l \in DOMAIN mapped.map.origin :
            mapped.map.origin[l] = (IF mapped.text[l] = Filler THEN NoName ELSE mapped.text[l])

(***************************************************************************)
(* A conformant verdict about files that stood still is exact: the         *)
(* capabilities of the reduction are those of the artifact's executable    *)
(* edges, each registered under the artifact's own intake version and each *)
(* edge carrying an accepted and versioned provenance record.              *)
(***************************************************************************)
ConformantIsExact ==
    conformed.done /\ conformed.conformant /\ conformed.stable =>
        LET edges == ExecutableEdges(conformed.artifact)
        IN  /\ conformed.capabilities = {e.to : e \in edges}
            /\ conformed.capabilities \subseteq Names(Field(conformed.registry.rows, "id"))
            /\ conformed.registry.version = conformed.artifact.intake.profile
            /\ \A e \in edges : \E p \in Names(conformed.artifact.provenance) :
                  p.subject = e.id /\ p.status = "accepted" /\ p.versioned
=============================================================================
