---------------------------- MODULE SlotDescriptors ----------------------------
(***************************************************************************)
(* The slot descriptors' bijection gate:                                   *)
(* scripts/gates/check_slot_descriptor_bijection.py.  Each field of the    *)
(* committed descriptor artifacts has one declared derivation, from the    *)
(* capability-spec or from the descriptor contract, and the committed      *)
(* bytes are what the derivation yields on the committed spec.             *)
(*                                                                         *)
(* One domain.  A field's address is its artifact and its path; what an    *)
(* artifact emits there is the sequence of the values found.  A digest of  *)
(* a file is the file.                                                     *)
(***************************************************************************)
EXTENDS Refusals, TLC
LOCAL INSTANCE SequencesExt

At(artifact, path) == <<artifact, path>>
WireSet == {"capability", "compensation", "operations", "transcript"}
Machine == <<"OPEN", "COMMIT", "REJECT", "CLOSE">>
Prose == [OPEN |-> "initialize", COMMIT |-> "post", REJECT |-> "decline", CLOSE |-> "reconcile"]

Semantic(source, transform, order, group, emit) ==
    [authority |-> "semantic-input", source |-> source, item |-> "", transform |-> transform,
     order |-> order, group |-> group, emit |-> emit, mult |-> "one"]
Contract(item, transform, source, group, mult) ==
    [authority |-> "descriptor-contract", source |-> source, item |-> item, transform |-> transform,
     order |-> "not-applicable", group |-> group, emit |-> "always", mult |-> mult]

\* One row of DERIVATIONS for each kind of derivation and each shared group.
Derivations ==
    LET row(address) ==
        CASE address \in {At("capability", "kind"), At("transcript", "kind")} ->
               Contract("discriminators", "constant", "", "", "one")
          [] address = At("capability", "capability") ->
               Contract("identity-prefix", "prefix-compose", "procedure", "capability-identity", "one")
          [] address = At("capability", "procedure") ->
               Semantic("procedure", "identity", "not-applicable", "capability-identity", "always")
          [] address = At("capability", "participants.name") ->
               Semantic("participants.name", "project-field", "source-order", "", "always")
          [] address = At("capability", "binding.mode") ->
               Contract("binding-mode", "constant", "", "", "per-flexible-participant")
          [] address = At("capability", "binding.minAssurance") ->
               Semantic("participants.assurance", "identity", "not-applicable", "declared-assurance",
                        "participant-flexible-and-value-nonempty")
          [] address = At("topology", "slots.minAssurance") ->
               Contract("assurance-default", "fallback-default", "participants.assurance", "effective-assurance",
                        "per-participant")
          [] address = At("capability", "organizations") ->
               Semantic("participants.org", "project-distinct", "source-order-distinct", "", "value-nonempty")
          [] address \in {At("capability", "crossOrganization"), At("topology", "crossOrganization")} ->
               Semantic("participants.org", "predicate", "not-applicable", "cross-organization", "always")
          [] address = At("capability", "entries.name") ->
               Semantic("effects.name", "project-field", "source-order", "ledger-entries", "always")
          [] address = At("compensation", "reverses.entry") ->
               Semantic("effects.name", "project-field", "source-order", "ledger-entries", "always")
          [] address \in {At("capability", "operations"), At("operations", "operation"),
                          At("envelope", "operation.enum")} ->
               Semantic("lifecycle", "machine-vocabulary", "machine-order", "operation-vocabulary", "always")
          [] address = At("operations", "maps") ->
               Contract("prose-table", "table-lookup", "lifecycle", "operation-vocabulary", "per-operation")
          [] address = At("envelope", "correlation.enum") ->
               Contract("correlation-rule", "constant", "", "", "list")
          [] address = At("transcript", "anchor.chain") ->
               Contract("anchor-chain", "constant", "", "", "one")
          [] address = At("lock", "capabilityHash") ->
               Contract("lock-algorithm", "digest", "", "", "one")
    IN [a \in {At("capability", p) : p \in {"kind", "capability", "procedure", "participants.name", "binding.mode",
                                            "binding.minAssurance", "organizations", "crossOrganization",
                                            "entries.name", "operations"}}
              \cup {At("topology", p) : p \in {"slots.minAssurance", "crossOrganization"}}
              \cup {At("compensation", "reverses.entry"), At("operations", "operation"), At("operations", "maps")}
              \cup {At("envelope", p) : p \in {"operation.enum", "correlation.enum"}}
              \cup {At("transcript", p) : p \in {"kind", "anchor.chain"}}
              \cup {At("lock", "capabilityHash")} |-> row(a)]

DescriptorContract == {"discriminators", "identity-prefix", "binding-mode", "assurance-default", "prose-table",
                       "correlation-rule", "anchor-chain", "lock-algorithm"}
ContractConstants ==
    (At("capability", "kind") :> <<"slot-capability">>) @@ (At("transcript", "kind") :> <<"slot-transcript">>)
    @@ (At("capability", "binding.mode") :> <<"to_be_bound">>) @@ (At("transcript", "anchor.chain") :> <<"evm">>)
    @@ (At("envelope", "correlation.enum") :> <<"COMMIT", "REJECT">>)

Sources == {"procedure", "version", "participants.name", "participants.org", "participants.assurance", "effects.name"}
\* The elements of the spec a source ranges over, each with the value it has there.
Pairs(spec, source) ==
    LET of(list, field(_)) == [i \in DOMAIN list |-> [element |-> list[i], value |-> field(list[i])]]
    IN CASE source = "procedure" -> <<[element |-> spec, value |-> spec.procedure]>>
         [] source = "version" -> <<[element |-> spec, value |-> spec.version]>>
         [] source = "participants.name" -> of(spec.participants, LAMBDA p : p.name)
         [] source = "participants.org" -> of(spec.participants, LAMBDA p : p.org)
         [] source = "participants.assurance" -> of(spec.participants, LAMBDA p : p.assurance)
         [] source = "effects.name" -> of(spec.effects, LAMBDA e : e)

Flexible(p) == "flexible" \in DOMAIN p /\ p.flexible
Emits(predicate, pair) ==
    CASE predicate = "always" -> TRUE
      [] predicate = "value-nonempty" -> pair.value # ""
      [] predicate = "participant-flexible" -> Flexible(pair.element)
      [] predicate = "participant-flexible-and-value-nonempty" -> Flexible(pair.element) /\ pair.value # ""

Values(pairs) == [i \in DOMAIN pairs |-> pairs[i].value]
Distinct(s) == FoldLeft(LAMBDA seen, x : IF x \in Names(seen) THEN seen ELSE Append(seen, x), <<>>, s)

ExpectedOccurrences(mult, spec, emitted) ==
    CASE mult = "one" -> 1
      [] mult = "per-participant" -> Len(spec.participants)
      [] mult = "per-flexible-participant" -> Len(SelectSeq(spec.participants, Flexible))
      [] mult = "per-operation" -> Len(emitted[At("operations", "operation")])

\* What a row says of the committed bytes, or Ok.
ContractRow(t, a, d) ==
    LET found == t.emitted[a]
        full(value) == [i \in DOMAIN found |-> value]
        ops == t.emitted[At("operations", "operation")]
    IN FirstOf(<<
       Refuse("multiplicity", d.mult # "list" /\ Len(found) # ExpectedOccurrences(d.mult, t.spec, t.emitted)),
       Refuse("absent list", d.mult = "list" /\ found = <<>>),
       Refuse("no contract value", d.transform = "constant" /\ a \notin DOMAIN t.constants),
       Refuse("contract value",
              /\ d.transform = "constant" /\ a \in DOMAIN t.constants
              /\ found # IF d.mult = "list" THEN t.constants[a] ELSE full(Head(t.constants[a]))),
       Refuse("identity prefix", d.transform = "prefix-compose" /\ found # full(<<"coordinate", t.spec.procedure>>)),
       Refuse("receipt algorithm", d.transform = "digest" /\ found # full(t.lock)),
       Refuse("fallback",
              /\ d.transform = "fallback-default"
              /\ LET pairs == Pairs(t.spec, d.source)
                 IN found # [i \in DOMAIN pairs |-> IF Emits("participant-flexible-and-value-nonempty", pairs[i])
                                                    THEN pairs[i].value ELSE "A1"]),
       Refuse("table",
              /\ d.transform = "table-lookup"
              /\ \E i \in DOMAIN ops : ops[i] \notin DOMAIN t.prose \/ found[i] # t.prose[ops[i]]) >>)

Evaluable == {"identity", "project-field", "project-distinct", "machine-vocabulary"}

VerifyDerivation(t, a, d) ==
    LET machine == t.emitted[At("operations", "operation")]
        kept == SelectSeq(Pairs(t.spec, d.source), LAMBDA p : Emits(d.emit, p))
        expected == IF d.transform = "project-distinct" THEN Distinct(Values(kept)) ELSE Values(kept)
    IN CASE d.authority = "descriptor-contract" -> ContractRow(t, a, d)
         [] d.authority # "descriptor-contract" /\ d.transform \notin Evaluable -> Ok
         [] d.authority # "descriptor-contract" /\ d.transform = "machine-vocabulary" ->
              FirstOf(<<Refuse("machine order", d.order # "machine-order"),
                        Refuse("vocabulary", t.emitted[a] # machine)>>)
         [] d.authority # "descriptor-contract" /\ d.transform \in Evaluable \ {"machine-vocabulary"}
            /\ d.source \notin Sources -> "source"
         [] OTHER -> IF expected = t.emitted[a] THEN Ok ELSE "chain"

\* Two artifacts that repeat a value.
SharedEqualities ==
    {<<At("capability", "crossOrganization"), At("topology", "crossOrganization")>>,
     <<At("capability", "entries.name"), At("compensation", "reverses.entry")>>,
     <<At("capability", "operations"), At("envelope", "operation.enum")>>}
SharedProblems(t) == AllOf({
    Refuse("shared derivation", \E pair \in t.shared : t.emitted[pair[1]] # t.emitted[pair[2]])})

\* The correlation subset is a strict part of the machine's vocabulary.
EnvelopeProblems(t) ==
    LET subset == IF t.override = {} THEN Names(t.emitted[At("envelope", "correlation.enum")])
                  ELSE UNION t.override
        vocabulary == Names(t.emitted[At("operations", "operation")])
    IN AllOf({Refuse("envelope subset", ~(subset \subseteq vocabulary) \/ subset = vocabulary)})

ContentOf(emitted, artifact) == [a \in {x \in DOMAIN emitted : x[1] = artifact} |-> emitted[a]]
LockProblems(t) == AllOf({
    Refuse("lock wire set", DOMAIN t.lock # t.wireSet),
    Refuse("stale lock", \E name \in DOMAIN t.lock : t.lock[name] # ContentOf(t.emitted, name))})

\* An overlay that edits a hashed artifact before the lock is refreshed makes identity depend on the build.
OverlayHazards(t) == {o \in t.overlays : o.mutation < o.refresh /\ o.artifact \in t.wireSet}

DecisionStatus(t, name) ==
    LET holds ==
        CASE name = "overlay" -> OverlayHazards(t) = {}
          [] name = "anchor" -> /\ t.table[At("transcript", "anchor.chain")].authority = "descriptor-contract"
                                /\ At("transcript", "anchor.chain") \in DOMAIN t.constants
          [] name = "cross-organization" ->
               \E g \in {"cross-organization"} :
                   \A pair \in {p \in t.shared : p[1] = At("capability", "crossOrganization")} :
                       t.table[pair[1]].group = g /\ t.table[pair[2]].group = g
          [] name = "envelope" -> EnvelopeProblems(t) = {}
          [] name = "lock" -> LockProblems(t) = {}
    IN IF holds THEN "resolved" ELSE "requires-generator-change"
Decisions == {"overlay", "anchor", "cross-organization", "envelope", "lock"}
\* Decisions that state what being unresolved entails.
WithConsequence == {"overlay", "lock"}

\* The rows an invariant group must hold together.
InvariantGroups == [
    g \in {"cross-organization", "ledger-entries", "operation-vocabulary", "declared-assurance"} |->
        CASE g = "cross-organization" -> {At("capability", "crossOrganization"), At("topology", "crossOrganization")}
          [] g = "ledger-entries" -> {At("capability", "entries.name"), At("compensation", "reverses.entry")}
          [] g = "operation-vocabulary" -> {At("capability", "operations"), At("envelope", "operation.enum")}
          [] g = "declared-assurance" -> {At("capability", "binding.minAssurance")}]

RowProblems(t, a) ==
    LET d == t.table[a]
    IN AllOf({
       Refuse("authority", d.authority \notin {"semantic-input", "descriptor-contract", "unresolved-decision"}),
       Refuse("future authority", d.authority = "deploy-coordinate"),
       Refuse("singular ownership", d.authority = "semantic-input" /\ (d.source = "" \/ d.item # "")),
       Refuse("contract item", d.authority = "descriptor-contract" /\ d.item \notin DescriptorContract),
       Refuse("disguised semantic", d.authority = "descriptor-contract" /\ d.transform = "identity"),
       Refuse("census", d.authority = "semantic-input" /\ a \in DOMAIN t.census /\ t.census[a] # "capability-spec")})
       \cup (IF a \in DOMAIN t.emitted THEN {VerifyDerivation(t, a, d)} \ {Ok} ELSE {})

Report(t) == [rows |-> t.table, status |-> [name \in Decisions |-> DecisionStatus(t, name)]]

Generate(t) ==
    AllOf({Refuse("no derivation", DOMAIN t.emitted \ DOMAIN t.table # {}),
           Refuse("not witnessed", DOMAIN t.table \ DOMAIN t.emitted # {}),
           Refuse("unused item", DescriptorContract \ {t.table[a].item : a \in DOMAIN t.table} # {}),
           Refuse("no consequence", \E n \in Decisions \ WithConsequence : DecisionStatus(t, n) # "resolved"),
           Refuse("invariant group",
                  \E g \in DOMAIN InvariantGroups : \E a \in InvariantGroups[g] :
                      a \notin DOMAIN t.table \/ t.table[a].group # g)})
    \cup UNION {RowProblems(t, a) : a \in DOMAIN t.table}
    \cup SharedProblems(t) \cup EnvelopeProblems(t) \cup LockProblems(t)

Main(t) == Generate(t) \cup AllOf({Refuse("stale report", t.report # Report(t))})

-----------------------------------------------------------------------------
\* How a generator may write an artifact: as declared, or recomputing one projection its own way.
Recomputations == {"none", "entries", "organizations", "operations", "assurance"}

\* What a generator writes for a spec; a projection recomputed keeps its elements or its first copy, not both.
Emitted(spec, lock, recompute) ==
    LET orgs == [i \in DOMAIN spec.participants |-> spec.participants[i].org]
        flexible == SelectSeq(spec.participants, Flexible)
        wire == [a \in DOMAIN Derivations \ {At("lock", "capabilityHash")} |->
            CASE a \in DOMAIN ContractConstants \ {At("capability", "binding.mode")} -> ContractConstants[a]
              [] a = At("capability", "capability") -> <<<<"coordinate", spec.procedure>>>>
              [] a = At("capability", "procedure") -> <<spec.procedure>>
              [] a = At("capability", "participants.name") -> [i \in DOMAIN spec.participants |-> spec.participants[i].name]
              [] a = At("capability", "binding.mode") -> [i \in DOMAIN flexible |-> "to_be_bound"]
              [] a = At("capability", "binding.minAssurance") -> [i \in DOMAIN flexible |-> flexible[i].assurance]
              [] a = At("topology", "slots.minAssurance") ->
                   [i \in DOMAIN spec.participants |->
                       IF Flexible(spec.participants[i]) /\ recompute # "assurance"
                       THEN spec.participants[i].assurance ELSE "A1"]
              [] a = At("capability", "organizations") -> IF recompute = "organizations" THEN orgs ELSE Distinct(orgs)
              [] a \in {At("capability", "crossOrganization"), At("topology", "crossOrganization")} ->
                   <<IF Cardinality(Names(orgs)) > 1 THEN "across" ELSE "within">>
              [] a = At("capability", "entries.name") -> spec.effects
              [] a = At("compensation", "reverses.entry") -> IF recompute = "entries" THEN Reverse(spec.effects) ELSE spec.effects
              [] a = At("operations", "maps") -> [i \in DOMAIN Machine |-> Prose[Machine[i]]]
              [] a = At("capability", "operations") -> IF recompute = "operations" THEN Reverse(Machine) ELSE Machine
              [] a \in {At("operations", "operation"), At("envelope", "operation.enum")} -> Machine]
    IN wire @@ (At("lock", "capabilityHash") :> <<lock>>)

\* The receipts over the artifacts of the wire set, and the hash that covers the receipts.
Refreshed(t) ==
    LET lock == [name \in t.wireSet |-> ContentOf(t.emitted, name)]
    IN [t EXCEPT !.lock = lock, !.emitted[At("lock", "capabilityHash")] = <<lock>>]
Regenerated(t, recompute) == Refreshed([t EXCEPT !.emitted = Emitted(t.spec, t.lock, recompute)])
WithReport(t) == [t EXCEPT !.report = Report(t)]

CleanSpec == [procedure |-> "settle", version |-> "v1",
              participants |-> <<[name |-> "payer", org |-> "left", flexible |-> TRUE, assurance |-> "A2"],
                                 [name |-> "clerk", org |-> "left", assurance |-> ""],
                                 [name |-> "payee", org |-> "right", flexible |-> FALSE, assurance |-> ""]>>,
              effects |-> <<"debit", "credit">>]
CleanTree ==
    WithReport(Regenerated(
        [spec |-> CleanSpec, emitted |-> <<>>, table |-> Derivations, constants |-> ContractConstants,
         prose |-> Prose, shared |-> SharedEqualities, wireSet |-> WireSet, lock |-> <<>>, override |-> {},
         overlays |-> {[mutation |-> 2, refresh |-> 1, artifact |-> "capability"]},
         census |-> [a \in {At("capability", "procedure")} |-> "capability-spec"], report |-> <<>>], "none"))

SpecsNear(spec) ==
    {[spec EXCEPT !.procedure = "novate"], [spec EXCEPT !.participants = Reverse(@)],
     [spec EXCEPT !.participants[1].assurance = "A3"], [spec EXCEPT !.effects = <<"credit", "debit">>]}

\* The mutations of the selftest, in its order, each with the check it is aimed at.
Mutations(t) ==
    LET at(a, row) == [t EXCEPT !.table[a] = row]
    IN {<<at(At("capability", "procedure"), Semantic("version", "identity", "not-applicable", "", "always")), "chain">>,
        <<[t EXCEPT !.table[At("capability", "operations")].order = "lexicographic"], "machine order">>,
        <<[t EXCEPT !.table[At("topology", "crossOrganization")].group = ""], "invariant group">>,
        <<[t EXCEPT !.constants[At("capability", "kind")] = <<"changed">>], "contract value">>,
        <<[t EXCEPT !.table[At("capability", "participants.name")].emit = "participant-flexible"], "chain">>,
        <<[t EXCEPT !.table[At("topology", "slots.minAssurance")].mult = "one"], "multiplicity">>,
        <<[t EXCEPT !.prose["COMMIT"] = Prose["CLOSE"]], "table">>,
        <<[t EXCEPT !.shared = @ \cup {<<At("capability", "crossOrganization"), At("capability", "procedure")>>}],
          "shared derivation">>,
        <<[t EXCEPT !.override = {{"COMMIT", "REJECT", "unknown"}}], "envelope subset">>,
        <<[t EXCEPT !.override = {Names(t.emitted[At("operations", "operation")])}], "envelope subset">>,
        <<[t EXCEPT !.wireSet = {"capability", "operations"}], "lock wire set">>,
        <<at(At("transcript", "anchor.chain"),
             [authority |-> "deploy-coordinate", source |-> "deployment", item |-> "", transform |-> "identity",
              order |-> "not-applicable", group |-> "", emit |-> "always", mult |-> "one"]), "future authority">>}

\* The overlay sources the selftest builds, each with the status it must give.
OverlayVariants ==
    {<<[mutation |-> 1, refresh |-> 2, artifact |-> "capability"], "requires-generator-change">>,
     <<[mutation |-> 2, refresh |-> 1, artifact |-> "capability"], "resolved">>,
     <<[mutation |-> 1, refresh |-> 2, artifact |-> "topology"], "resolved">>}

\* The selftest never resets the override of the envelope subset: later mutations run with it.
ProbeOutcomes(t) ==
    {<<Generate(m[1]), m[2]>> : m \in Mutations(t)}
    \cup {<<Generate([m[1] EXCEPT !.override = {Names(Machine)}]), m[2]>> :
            m \in {x \in Mutations(t) : x[2] \in {"lock wire set", "future authority"}}}
    \cup {<<{DecisionStatus([t EXCEPT !.overlays = {v[1]}], "overlay")}, v[2]>> : v \in OverlayVariants}

EditsOf(t) ==
    \* The capability-spec changes, with everything regenerated, with nothing, or without the lock.
    UNION {{[t EXCEPT !.spec = spec], WithReport(Regenerated([t EXCEPT !.spec = spec], "none")),
            [t EXCEPT !.spec = spec, !.emitted = Emitted(spec, t.lock, "none")]} : spec \in SpecsNear(t.spec)}
    \* A generator that recomputes a projection its own way writes the artifacts.
    \cup {Regenerated(t, r) : r \in Recomputations}
    \* The lock or the report is refreshed alone; an overlay moves or targets another artifact.
    \cup {Refreshed(t), WithReport(t)}
    \cup {[t EXCEPT !.overlays = {v[1]}] : v \in OverlayVariants}
    \cup {m[1] : m \in Mutations([t EXCEPT !.override = {}])}

(***************************************************************************)
(* The committed artifacts are what the spec derives, value by value and   *)
(* in order; the copies of a value agree; the receipts are the bytes of    *)
(* the wire set and capabilityHash is theirs; and no decision is reported  *)
(* as resolved that is not.                                                *)
(***************************************************************************)
Sound(t) ==
    /\ \A a \in DOMAIN t.emitted : t.emitted[a] = Emitted(t.spec, t.lock, "none")[a]
    /\ DOMAIN t.lock = t.wireSet
    /\ \A name \in t.wireSet : t.lock[name] = ContentOf(t.emitted, name)
    /\ t.report.status["overlay"] = "resolved" <=> OverlayHazards(t) = {}

\* The identity of the capability moves exactly with the bytes of its wire set; no authority is opened.
Authorized(t, n) ==
    /\ (\A name \in t.wireSet : ContentOf(t.emitted, name) = ContentOf(n.emitted, name)) /\ t.wireSet = n.wireSet
       <=> t.emitted[At("lock", "capabilityHash")] = n.emitted[At("lock", "capabilityHash")]
    /\ \A a \in DOMAIN n.table : n.table[a].authority # "deploy-coordinate"
=============================================================================
