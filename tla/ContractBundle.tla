----------------------------- MODULE ContractBundle -----------------------------
(***************************************************************************)
(* The core contract bundle: scripts/generators/make_core_contract_bundle, *)
(* its gate scripts/gates/check_core_contract_bundle.py, and the JSON      *)
(* Schema validator of scripts/validators/verify_domain_pack.py that a     *)
(* domain pack's author has to check against the bundle.                   *)
(*                                                                         *)
(* A digest of a file is its content, and the digest of a bundle is the    *)
(* body it was taken over.  A JSON value is a pair of its kind and its     *)
(* payload, so that a boolean is never a number.  A schema document lists  *)
(* the keywords it uses, each with the shape of the value it has there.    *)
(***************************************************************************)
EXTENDS Refusals, TLC

\* ---- the validator
Num(n) == <<"num", n>>
Bool(b) == <<"bool", b>>
Str(s) == <<"str", s>>
List(s) == <<"list", s>>
Dict(f) == <<"dict", f>>

KindOf == [object |-> "dict", array |-> "list", string |-> "str", integer |-> "num", number |-> "num",
           boolean |-> "bool", null |-> "null"]
TypeOk(inst, name) == name \in DOMAIN KindOf /\ inst[1] = KindOf[name]

\* The date-times of the instances: their fields.
Moment(month, day, hour) == [month |-> month, day |-> day, hour |-> hour]
Moments == ("mid-july" :> Moment(7, 15, 0)) @@ ("month 99" :> Moment(99, 99, 0)) @@ ("30 february" :> Moment(2, 30, 0))
DaysIn(month) == IF month = 2 THEN 28 ELSE IF month \in {4, 6, 9, 11} THEN 30 ELSE 31
ValidDateTime(text) ==
    /\ text \in DOMAIN Moments
    /\ LET m == Moments[text] IN m.month \in 1..12 /\ m.day \in 1..DaysIn(m.month) /\ m.hour \in 0..23

\* A pattern is the set of texts it matches; additionalProperties is <<>> for false or <<schema>>.
RECURSIVE Valid(_, _, _)
Valid(inst, schema, root) ==
    LET has(keyword) == keyword \in DOMAIN schema
        valid(s) == Valid(inst, s, root)
    IN /\ has("ref") => schema.ref \in DOMAIN root.defs /\ valid(root.defs[schema.ref])
       /\ has("type") => \E name \in schema.type : TypeOk(inst, name)
       /\ has("const") => inst = schema.const
       /\ has("enum") => \E i \in DOMAIN schema.enum : inst = schema.enum[i]
       /\ inst[1] = "str" => /\ has("pattern") => inst[2] \in schema.pattern
                             /\ has("minLength") => Len(inst[2]) >= schema.minLength
                             /\ has("format") => ValidDateTime(inst[2])
       /\ inst[1] = "num" => /\ has("minimum") => inst[2] >= schema.minimum
                             /\ has("maximum") => inst[2] <= schema.maximum
       /\ inst[1] = "dict" =>
            LET keys == DOMAIN inst[2]
                named == IF has("properties") THEN DOMAIN schema.properties ELSE {}
            IN /\ has("required") => schema.required \subseteq keys
               /\ has("minProperties") => Cardinality(keys) >= schema.minProperties
               /\ has("propertyNames") => \A k \in keys : Valid(Str(k), schema.propertyNames, root)
               /\ \A k \in keys \cap named : Valid(inst[2][k], schema.properties[k], root)
               /\ has("additionalProperties") =>
                    \A k \in keys \ named : /\ schema.additionalProperties # <<>>
                                            /\ Valid(inst[2][k], Head(schema.additionalProperties), root)
       /\ inst[1] = "list" =>
            /\ has("minItems") => Len(inst[2]) >= schema.minItems
            /\ has("uniqueItems") => NoDuplicates(inst[2])
            /\ has("items") => \A i \in DOMAIN inst[2] : Valid(inst[2][i], schema.items, root)
       /\ has("allOf") => \A i \in DOMAIN schema.allOf : valid(schema.allOf[i])
       /\ has("oneOf") => Cardinality({i \in DOMAIN schema.oneOf : valid(schema.oneOf[i])}) = 1
       /\ has("anyOf") => \E i \in DOMAIN schema.anyOf : valid(schema.anyOf[i])
       /\ has("not") => ~valid(schema.not)
       /\ has("if") => IF valid(schema.if) THEN has("then") => valid(schema.then)
                                           ELSE has("else") => valid(schema.else)

\* A schema with an instance it accepts and one it refuses, for each keyword.
ValidatorProbes ==
    LET integer == [type |-> {"integer"}]
        string == [type |-> {"string"}]
        one == Dict("a" :> Num(1))
        other == Dict("b" :> Num(1))
        positive == [type |-> {"integer"}, minimum |-> 1]
    IN <<<<string, Str("x"), Num(1)>>,
         <<[const |-> Num(1)], Num(1), Bool(TRUE)>>,
         <<[enum |-> <<Str("a"), Str("b")>>], Str("a"), Str("c")>>,
         <<[enum |-> <<Num(1)>>], Num(1), Bool(TRUE)>>,
         <<[pattern |-> {"x"}], Str("x"), Str("y")>>,
         <<[minLength |-> 2], Str("xx"), Str("x")>>,
         <<[format |-> "date-time"], Str("mid-july"), Str("month 99")>>,
         <<positive, Num(1), Num(0)>>,
         <<[minItems |-> 1], List(<<Num(1)>>), List(<<>>)>>,
         <<[minProperties |-> 1], one, Dict(<<>>)>>,
         <<[uniqueItems |-> TRUE], List(<<Num(1), Bool(TRUE)>>), List(<<Num(1), Num(1)>>)>>,
         <<[required |-> {"a"}], one, Dict(<<>>)>>,
         <<[additionalProperties |-> <<>>, properties |-> ("a" :> <<>>)], one, other>>,
         <<[propertyNames |-> [pattern |-> {"a"}]], one, other>>,
         <<[oneOf |-> <<integer, string>>], Num(1), Bool(TRUE)>>,
         <<[anyOf |-> <<integer, string>>], Str("x"), Bool(TRUE)>>,
         <<[not |-> integer], Str("x"), Num(1)>>,
         <<[if |-> integer, then |-> [minimum |-> 5]], Num(5), Num(1)>>,
         <<[defs |-> ("pos" :> positive), ref |-> "pos"], Num(3), Num(0)>>,
         <<[type |-> {"integer", "string"}], Str("x"), Bool(TRUE)>>>>
UnknownType == [type |-> {"bogus"}]

\* ---- the dialect the validator enforces, by keyword and by the shape of its value
Supported ==
    {"id", "schema", "ref", "defs", "comment", "title", "description", "type", "required", "properties",
     "additionalProperties", "propertyNames", "enum", "const", "pattern", "minLength", "format", "minimum", "maximum",
     "items", "minItems", "minProperties", "uniqueItems", "oneOf", "anyOf", "allOf", "not", "if", "then", "else"}

Texts == {"text", "pointer", "url", "type", "date-time", "email", "bad regex"}
Lists == {"types", "repeated types", "names", "repeated names", "values", "schemas", "empty"}
Objects == {"schema", "schema map"}
Shapes == Texts \cup Lists \cup Objects \cup {"number", "natural", "boolean"}
FormRules ==
    <<<<{"id", "schema", "comment", "title", "description"}, Texts>>,
      <<{"not", "if", "then", "else", "propertyNames", "additionalProperties"}, Objects \cup {"boolean"}>>,
      <<{"oneOf", "anyOf", "allOf"}, {"schemas"}>>, <<{"properties", "defs"}, {"schema map"}>>,
      <<{"minLength", "minItems", "minProperties"}, {"natural"}>>, <<{"minimum", "maximum"}, {"number", "natural"}>>,
      <<{"ref"}, {"pointer"}>>, <<{"type"}, {"type", "types"}>>, <<{"required"}, {"types", "names", "empty"}>>,
      <<{"enum"}, Lists \ {"empty"}>>, <<{"const"}, Shapes>>, <<{"pattern"}, Texts \ {"bad regex"}>>,
      <<{"format"}, {"date-time"}>>, <<{"uniqueItems"}, {"boolean"}>>, <<{"items"}, Objects>>>>
Handled == UNION {FormRules[i][1] : i \in DOMAIN FormRules}
FormViolation(keyword, shape) == \E i \in DOMAIN FormRules : keyword \in FormRules[i][1] /\ shape \notin FormRules[i][2]

\* Malformed uses of covered keywords, which a consumer would silently ignore.
MalformedUses ==
    {<<"format", "email">>, <<"items", "boolean">>, <<"oneOf", "schema">>, <<"allOf", "empty">>, <<"oneOf", "empty">>,
     <<"anyOf", "empty">>, <<"enum", "text">>, <<"minimum", "text">>, <<"required", "text">>,
     <<"required", "repeated names">>, <<"type", "text">>, <<"type", "empty">>, <<"type", "repeated types">>,
     <<"ref", "url">>, <<"minItems", "text">>}
-----------------------------------------------------------------------------
(***************************************************************************)
(* The tree of the gate: the registered contracts (name to path), the      *)
(* schemas that are allow-listed as not core, the schema files, the files  *)
(* the bundle publishes beside them, the generator's own constants, the    *)
(* translator's version surface, and the committed bundle.                 *)
(***************************************************************************)
Version(major, minor) == <<major, minor>>
\* Python compares the lists of numbers, the first ones first.
NotAbove(v, w) == v[1] < w[1] \/ (v[1] = w[1] /\ v[2] <= w[2])

\* make_core_contract_bundle: everything is read from the files and from the translator.
Published == {"taxonomy", "vocabulary", "capabilities"}
Buildable(t) == (\A n \in DOMAIN t.core : t.core[n] \in DOMAIN t.schemas) /\ DOMAIN t.published = Published
Signed(body) == [body |-> body, digest |-> body]
Build(t) == Signed(
    [version |-> t.version, canonicalization |-> t.canonicalization,
     compatibility |-> [tool |-> t.tool.version, policy |-> t.policy], versions |-> t.tool,
     contracts |-> [n \in DOMAIN t.core |->
         LET doc == t.schemas[t.core[n]] IN [contractId |-> doc.id, path |-> t.core[n], sha |-> doc]],
     published |-> [p \in Published |->
         [profile |-> IF p = "taxonomy" THEN 0 ELSE t.tool.profile, sha |-> t.published[p]]]])

Surface(b) == [f \in DOMAIN b.body \ {"version", "versions"} |->
                  IF f = "compatibility" THEN b.body[f].policy ELSE b.body[f]]

\* The base is <<>> when it has no bundle yet.
VersionEvolution(b, base) ==
    IF base = <<>> \/ Surface(b) = Surface(Head(base)) THEN {}
    ELSE LET old == Head(base).body
             lost == DOMAIN old.contracts \ DOMAIN b.body.contracts
             reversioned == {n \in DOMAIN old.contracts \ lost :
                                b.body.contracts[n].contractId # old.contracts[n].contractId}
         IN AllOf({Refuse("bundle.version",
                          \/ NotAbove(b.body.version, old.version)
                          \/ lost \cup reversioned # {} /\ b.body.version[1] <= old.version[1])})

\* The taxonomy has no version; the vocabulary's is the bundle's and the artifact's own.
PublishedProblems(t, name) ==
    LET row == t.bundle.body.published[name]
    IN IF name \notin DOMAIN t.published THEN {"bundle.missing"}
       ELSE IF t.published[name] # row.sha THEN {"bundle.stale"}
       ELSE AllOf({Refuse("bundle.version", name = "vocabulary" /\ row.profile # t.bundle.body.versions.profile),
                   Refuse("bundle.stale", name = "vocabulary" /\ t.published[name].profile # row.profile)})

ContractProblems(t, row) ==
    IF row.path \notin DOMAIN t.schemas THEN {"bundle.missing"}
    ELSE LET doc == t.schemas[row.path]
         IN AllOf({Refuse("bundle.stale", doc # row.sha),
                   Refuse("bundle.dialect", \E use \in doc.uses : FormViolation(use[1], use[2])),
                   Refuse("bundle.keyword", \E use \in doc.uses : use[1] \notin Supported)})

\* The capability registry's bytes are left to the regeneration.
CheckBundle(t, base, resolved) ==
    LET rows == {t.bundle.body.contracts[n] : n \in DOMAIN t.bundle.body.contracts}
        registered == {r.path : r \in rows}
        core == {t.core[n] : n \in DOMAIN t.core}
    IN AllOf({Refuse("bundle.digest", t.bundle.digest # t.bundle.body),
              Refuse("bundle.unclassified", DOMAIN t.schemas \ (core \cup t.nonCore) # {}),
              Refuse("bundle.phantom", (core \cup t.nonCore) \ DOMAIN t.schemas # {}),
              Refuse("bundle.unregistered", core \ registered # {}),
              Refuse("bundle.extra", registered \ core # {}),
              Refuse("bundle.base", ~resolved)})
       \cup UNION {ContractProblems(t, r) : r \in rows}
       \cup PublishedProblems(t, "taxonomy") \cup PublishedProblems(t, "vocabulary")
       \cup (IF resolved THEN VersionEvolution(t.bundle, base) ELSE {})

\* Regenerating byte-matches the committed bundle.
Regeneration(t) == AllOf({Refuse("bundle.regenerate", ~Buildable(t) \/ (Buildable(t) /\ t.bundle # Build(t)))})

-----------------------------------------------------------------------------
\* The tree the gate was written for, and what a pull request can do to it.
PlainUses == {<<"type", "type">>, <<"required", "names">>}
Document(id, required) == [id |-> id, uses |-> PlainUses, schema |-> [type |-> {"object"}, required |-> required]]
CoreSchemas == {"capability-spec", "domain-pack-v2", "target-profile", "semantic-feature-vocabulary",
                "semantic-capability-registry"}
Artifact(profile, ids) == [profile |-> profile, ids |-> ids]

Rebuilt(t) == IF Buildable(t) THEN [t EXCEPT !.bundle = Build(t)] ELSE t
CleanContracts ==
    Rebuilt([core |-> [n \in CoreSchemas |-> n], nonCore |-> {"run-manifest"},
             schemas |-> ("capability-spec" :> Document("spec/v1", {"procedure"})) @@ ("run-manifest" :> Document("run/v1", {}))
                         @@ [n \in CoreSchemas |-> Document("v1", {})],
             published |-> ("taxonomy" :> Artifact(0, {"syntax"}))
                           @@ [p \in Published \ {"taxonomy"} |-> Artifact(1, {"transfer", "deadline"})],
             version |-> Version(1, 2), policy |-> "same major", canonicalization |-> "sorted keys",
             tool |-> [version |-> Version(0, 1), profile |-> 1], bundle |-> <<>>])

Without(f, x) == [y \in DOMAIN f \ {x} |-> f[y]]
WithUse(t, use) == [t EXCEPT !.schemas["capability-spec"].uses = @ \cup {use}]
AddedSchema(t) == [t EXCEPT !.schemas = ("obligations" :> Document("obligations/v1", {})) @@ @]

\* A change of what the bundle is made from.
ContractChanges(t) ==
    {[t EXCEPT !.schemas["capability-spec"].schema.required = {"procedure", "obligations"}],
     [t EXCEPT !.schemas["capability-spec"].id = "spec/v2"],
     WithUse(t, <<"maxLength", "natural">>), WithUse(t, <<"allOf", "empty">>),
     AddedSchema(t), [AddedSchema(t) EXCEPT !.core = ("obligations" :> "obligations") @@ @],
     [AddedSchema(t) EXCEPT !.nonCore = @ \cup {"obligations"}],
     [t EXCEPT !.core = Without(@, "target-profile"), !.schemas = Without(@, "target-profile")],
     [t EXCEPT !.core = Without(@, "target-profile"), !.nonCore = @ \cup {"target-profile"}],
     [t EXCEPT !.published["vocabulary"].ids = @ \cup {"escrow"}],
     [t EXCEPT !.published = Without(@, "taxonomy")],
     [t EXCEPT !.policy = "exact"], [t EXCEPT !.canonicalization = "as written"],
     [t EXCEPT !.version = Version(1, 1)], [t EXCEPT !.tool.version = Version(0, 2)], [t EXCEPT !.tool.profile = 2],
     [t EXCEPT !.tool.profile = 2, !.published["vocabulary"].profile = 2]}
Bumps(t) == {t.version, Version(t.version[1], t.version[2] + 1), Version(t.version[1] + 1, 0)}

\* A hand edit of the committed bundle, signed again or not.
Resigned(t, body) == [t EXCEPT !.bundle = Signed(body)]
BundleTampers(t) ==
    LET body == t.bundle.body
        n == "capability-spec"
    IN IF n \notin DOMAIN body.contracts THEN {}
       ELSE {[t EXCEPT !.bundle.digest = <<>>], Resigned(t, [body EXCEPT !.contracts = Without(@, n)]),
        Resigned(t, [body EXCEPT !.contracts[n].sha = <<>>])}
       \cup {Resigned(t, [body EXCEPT !.contracts[n].contractId = "spec/v1-x"]),
              Resigned(t, [body EXCEPT !.canonicalization = "tampered"]),
              Resigned(t, [body EXCEPT !.compatibility.policy = "tampered"])}

ContractEdits(t) ==
    ContractChanges(t) \cup {Rebuilt(t)} \cup BundleTampers(t)
    \cup {Rebuilt([c EXCEPT !.version = v]) : c \in {x \in ContractChanges(t) : Buildable(x)}, v \in Bumps(t)}

\* The digests of the staged files are pinned again, so that one check is left to fail.
Resync(t) ==
    LET body == t.bundle.body
        rows == [n \in DOMAIN body.contracts |-> [body.contracts[n] EXCEPT !.sha = t.schemas[body.contracts[n].path]]]
        files == [p \in Published |-> IF p \in DOMAIN t.published THEN [body.published[p] EXCEPT !.sha = t.published[p]]
                                                                   ELSE body.published[p]]
    IN Resigned(t, [body EXCEPT !.contracts = rows, !.published = files])

Bites(hit) == <<{IF hit THEN "caught" ELSE "missed"}, "caught">>
\* The probe of a breaking change lowers the version, so it never meets the check of the major number.
BundleProbes(t) ==
    LET base == <<t.bundle>>
        body == t.bundle.body
        moved == Signed([body EXCEPT !.contracts["capability-spec"].path = "elsewhere"])
        earlier == Signed([body EXCEPT !.contracts["capability-spec"].contractId = "spec/v1-x"])
        released == [Rebuilt([t EXCEPT !.tool.version = Version(0, 9)]) EXCEPT !.tool = t.tool]
    IN {Bites(CheckBundle(x, base, TRUE) # {}) : x \in BundleTampers(t)}
       \cup {Bites(CheckBundle(t, <<moved>>, TRUE) # {}),
              Bites(CheckBundle(Resigned(t, [body EXCEPT !.version = Version(1, 1)]), <<earlier>>, TRUE) # {}),
              Bites(CheckBundle(released, base, TRUE) = {}), Bites(CheckBundle(t, base, FALSE) # {}),
              Bites(Supported = Handled)}
       \cup {<<CheckBundle(AddedSchema(t), <<>>, TRUE), "bundle.unclassified">>,
              <<CheckBundle(Resync(WithUse(t, <<"maxLength", "natural">>)), <<>>, TRUE), "bundle.keyword">>,
              <<CheckBundle([t EXCEPT !.published = Without(@, "taxonomy")], <<>>, TRUE), "bundle.missing">>,
              <<CheckBundle([t EXCEPT !.published = Without(@, "vocabulary")], <<>>, TRUE), "bundle.missing">>,
              <<CheckBundle(Resync([t EXCEPT !.published["vocabulary"].profile = 999]), <<>>, TRUE), "bundle.stale">>,
              <<CheckBundle([t EXCEPT !.published["vocabulary"].ids = @ \cup {"tampered"}], <<>>, TRUE), "bundle.stale">>}
       \cup {<<CheckBundle(Resync(WithUse(t, use)), <<>>, TRUE), "bundle.dialect">> : use \in MalformedUses}

\* The validator accepts the good instance of each probe and refuses the bad one, and any of an unknown type.
ValidatorOutcomes ==
    {Bites(/\ Valid(ValidatorProbes[i][2], ValidatorProbes[i][1], ValidatorProbes[i][1])
           /\ ~Valid(ValidatorProbes[i][3], ValidatorProbes[i][1], ValidatorProbes[i][1])) : i \in DOMAIN ValidatorProbes}
    \cup {Bites(~Valid(Str("anything"), UnknownType, UnknownType))}

-----------------------------------------------------------------------------
\* What a consumer reads in the bundle is what the files say, and the validator enforces all of it.
ContractsSound(t) ==
    LET body == t.bundle.body
    IN /\ t.bundle.digest = body
       /\ \A n \in DOMAIN body.contracts :
            LET row == body.contracts[n]
            IN /\ t.core[n] = row.path /\ t.schemas[row.path] = row.sha /\ row.sha.id = row.contractId
               /\ \A use \in row.sha.uses : use[1] \in Handled /\ ~FormViolation(use[1], use[2])
       /\ \A path \in DOMAIN t.schemas \ t.nonCore : \E n \in DOMAIN body.contracts : body.contracts[n].path = path
       /\ \A p \in Published : body.published[p].sha = t.published[p]
       /\ t.published["vocabulary"].profile = t.tool.profile

\* A merge that keeps the version keeps the surface, and within a major number no contract is lost or changes its identity.
ContractsAuthorized(t, n) ==
    LET old == t.bundle.body
        new == n.bundle.body
    IN /\ old.version = new.version =>
            /\ t.core = n.core /\ t.published = n.published
            /\ \A c \in DOMAIN t.core : t.schemas[t.core[c]] = n.schemas[n.core[c]]
            /\ t.policy = n.policy /\ t.canonicalization = n.canonicalization
       /\ old.version[1] = new.version[1] =>
            \A c \in DOMAIN old.contracts :
                c \in DOMAIN new.contracts /\ old.contracts[c].contractId = new.contracts[c].contractId
=============================================================================
