---------------------------- MODULE PrinterRegistry ----------------------------
(***************************************************************************)
(* The target-node registry gate and its ratchet against the base of the   *)
(* pull request: scripts/gates/check_target_node_registry.py.  Each kind   *)
(* of a backend's statement model has one printer, generated or written by *)
(* hand; the handwritten ones are inventoried and only ever retire.        *)
(*                                                                         *)
(* One backend.  The C++ sources are the facts the scanner takes from      *)
(* them: the cases of the dispatch, the functions with the kinds they name *)
(* and the emitters they call, the constructs and the governed boundaries. *)
(***************************************************************************)
EXTENDS Refusals
LOCAL INSTANCE SequencesExt
LOCAL INSTANCE Relation

-----------------------------------------------------------------------------
(***************************************************************************)
(* The target-node generator: scripts/generators/                          *)
(* gen_target_node_registry.py.  It reads the records and models a backend *)
(* declares, refuses at the first that is ill-formed, and renders the      *)
(* registry of kinds and the table of printer handlers.                    *)
(*                                                                         *)
(* A syntax template is whether it has literal text of its own and which   *)
(* placeholders it has.                                                    *)
(***************************************************************************)

\* Mode and role of a status atom.
AtomModes == {"Evidence", "Effectful", "Temporal"}
AtomRoles == {"Initial", "AcceptedOrAttested", "Success"}
StatusAtomCode(atoms) == FirstOf(<<
    Refuse("atom mode", \E a \in Names(atoms) : a.mode \notin AtomModes),
    Refuse("atom role", \E a \in Names(atoms) : a.role \notin AtomRoles),
    Refuse("atom empty", \E a \in Names(atoms) : a.atom = ""),
    Refuse("atom duplicate", ~NoDuplicates([i \in DOMAIN atoms |-> <<atoms[i].mode, atoms[i].role>>]))>>)

Nesting == {"block", "flat-block"}
Supported == Nesting \cup {"line", "commented-line", "blank", "lines", "framed-lines"}

Dense(fields) ==
    {fields[i].index : i \in DOMAIN fields} = 0 .. Len(fields) - 1

\* A framed-lines record projects its item fields over a list of tuples, between fixed header and footer.
FramedCode(r) ==
    LET items == [i \in DOMAIN r.items |-> r.items[i].name]
    IN FirstOf(<<
       Refuse("empty ItemSyntax", ~r.itemText /\ r.itemUses = {}),
       Refuse("header placeholders", r.uses # {}),
       Refuse("framed scalar", r.fields # <<>> \/ r.list # ""),
       Refuse("duplicate item", ~NoDuplicates(items)),
       Refuse("sparse item", r.items = <<>> \/ ~Dense(r.items)),
       Refuse("no item placeholder", r.itemUses = {}),
       Refuse("undeclared item", ~(r.itemUses \subseteq Names(items))),
       Refuse("unused item", ~(Names(items) \subseteq r.itemUses))>>)

\* What is wrong with one record that asks for a generated handler, or Ok.
RecordCode(r) ==
    LET names == [i \in DOMAIN r.fields |-> r.fields[i].name]
        declared == Names(names) \cup ({r.list} \ {""})
    IN FirstOf(<<
       Refuse("unsupported Layout", r.layout \notin Supported),
       Refuse("blank payload", r.layout = "blank" /\ (r.text \/ r.uses # {} \/ r.close \/ r.fields # <<>>)),
       Refuse("empty Syntax", r.layout # "blank" /\ ~r.text /\ r.uses = {}),
       Refuse("empty CloseSyntax", r.layout \in Nesting /\ ~r.close),
       Refuse("stray CloseSyntax", r.layout \notin Nesting \cup {"framed-lines"} /\ r.close),
       Refuse("framed", r.layout = "framed-lines" /\ FramedCode(r) # Ok),
       Refuse("stray items", r.layout # "framed-lines" /\ (r.items # <<>> \/ r.itemText \/ r.itemUses # {})),
       Refuse("inconsistent with layout", r.leaf = (r.layout \in Nesting)),
       Refuse("duplicate field", ~NoDuplicates(names)),
       Refuse("dense", r.fields # <<>> /\ ~Dense(r.fields)),
       Refuse("list collides", r.list \in Names(names)),
       Refuse("undeclared field", r.layout # "framed-lines" /\ ~(r.uses \subseteq declared)),
       Refuse("unused field", r.layout # "framed-lines" /\ ~(declared \subseteq r.uses))>>)

\* The models of a backend and the one that is primary.
IdentityCode(td) ==
    LET primaries == SelectSeq(td.models, LAMBDA m : m.primary)
    IN FirstOf(<<
       Refuse("no records", td.records = <<>>),
       Refuse("targets", Cardinality({r.target : r \in Names(td.records)}) # 1),
       Refuse("models",
              ~({r.model : r \in Names(td.records)} \subseteq {m.name : m \in Names(td.models)}) \/ Len(primaries) # 1)>>)

GeneratorCode(td) ==
    LET bad == SelectSeq(td.records, LAMBDA r : r.gen /\ RecordCode(r) # Ok)
    IN IF bad # <<>> THEN RecordCode(Head(bad))
       ELSE IF StatusAtomCode(td.atoms) # Ok THEN StatusAtomCode(td.atoms)
       ELSE IdentityCode(td)

\* The records of a model in the order of their ordinals.
InOrder(td, model) ==
    LET of == SelectSeq(td.records, LAMBDA r : r.model = model)
    IN SortSeq(of, LAMBDA r, s : r.ord < s.ord)

Render(td) ==
    FlattenSeq([i \in DOMAIN td.models |->
        LET rows == InOrder(td, td.models[i].name)
        IN [j \in DOMAIN rows |-> [model |-> rows[j].model, node |-> rows[j].node, ord |-> rows[j].ord,
                                   feature |-> rows[j].feature]]])

\* Only the records that ask for it get a handler; the operands are the declared fields.
RenderPrinter(td) ==
    LET handled == SelectSeq(td.records, LAMBDA r : r.gen)
    IN [i \in DOMAIN handled |->
           [model |-> handled[i].model, node |-> handled[i].node, ord |-> handled[i].ord,
            text |-> handled[i].text, operands |-> Len(handled[i].fields)]]

-----------------------------------------------------------------------------
(* The gate                                                                *)

Site(model, node, form) == [model |-> model, node |-> node, form |-> form]
Row(g) == [model |-> g.model, node |-> g.node]
Primary(t) == (SelectSeq(t.td.models, LAMBDA m : m.primary)[1]).name
Kinds(t, model) == SelectSeq(t.inc, LAMBDA r : r.model = model)
Handlers(t, model) == SelectSeq(t.printer, LAMBDA r : r.model = model)

\* A function prints a kind when it names it and emits, itself or through what it calls by name.
Printing(t) ==
    LET calls == TransitiveClosure([f, g \in t.functions |-> g.name \in f.calls], t.functions)
        reach(f) == {f} \cup {g \in t.functions : calls[f, g]}
    IN UNION {UNION {g.kinds : g \in reach(f)} : f \in {h \in t.functions : \E g \in reach(h) : g.emits}}

\* The handwritten sites of the sources; a kind may occur in more than one case.
Scan(t) ==
    [i \in DOMAIN t.cases |-> Site(Primary(t), t.cases[i], "case")]
    \o SetToSeq({Site(Primary(t), k, "body") : k \in Printing(t)})
    \o SetToSeq({Site("decl", c, "construct") : c \in t.constructs})
    \o SetToSeq({Site(Primary(t), b, "boundary") : b \in t.boundaries})

\* A sealed case is exempt while its body only passes its carrier through.
SealedChecks(t) == AllOf({
    Refuse("phantom seal", ~(t.sealed \subseteq Names(Scan(t)))),
    Refuse("seal denied", \E s \in t.sealed \cap Names(Scan(t)) : t.carrier # "passthrough")})
Exempt(t) == IF t.carrier = "passthrough" THEN t.sealed \cap Names(Scan(t)) ELSE {}
Handwritten(t) == SelectSeq(Scan(t), LAMBDA s : s \notin Exempt(t))

\* What the base says: its inventory, the constructs it printed without listing them, its committed printer.
BaseSites(base) ==
    LET listed == Names(base.hand)
        unlisted == {Site("decl", c, "construct") : c \in base.constructs} \ listed
    IN base.hand \o SetToSeq(unlisted)
BasePrinter(base) == IF base.tracked THEN base.printer ELSE <<>>

\* Two fixed variants of one retired authority, declared, and nothing else retired in their model.
TwoVariants(t, added, retired) ==
    \E g \in t.groups :
        /\ {Row(v) : v \in g.variants} = added /\ Cardinality(added) = 2
        /\ \A h \in t.groups : {Row(v) : v \in h.variants} = added => h = g
        /\ {r \in retired : r.model = g.retires.model} = {g.retires}
        /\ \A v \in added : \E r \in Names(t.printer) : Row(r) = v /\ r.operands = 0

\* The node names the registry classes as comments are compared with names qualified by their model.
CommentCredit(t, base, added) ==
    /\ added # {}
    /\ \A a \in added : \E r \in Names(t.inc) : r.node = a /\ r.feature = "comment"
    /\ base.comments \ t.comments # {} /\ t.comments \subseteq base.comments
QualifiedName(h) == h.model \o "::" \o h.node

\* The rows of a sequence of sites or handlers; those the branch retires, and those it adds.
Rows(entries) == {Row(e) : e \in Names(entries)}
Retired(t, base) == Rows(BaseSites(base)) \ Rows(Handwritten(t))
NewHandlers(t, base) == Rows(t.printer) \ Rows(BasePrinter(base))
Growth(t, base) == Len(t.printer) - Len(BasePrinter(base))

\* Mutant: a baseline that stands still counts as one that fell.
RetiredNothingBelow(t, base) ==
    /\ Growth(t, base) > 0 /\ Retired(t, base) \cap NewHandlers(t, base) = {}
    /\ t.baseline > base.baseline

\* A new handler no retirement pays for: of printing by hand, of raw statements, of a comment.
RetiredNothing(t, base) ==
    /\ Growth(t, base) > 0
    /\ Retired(t, base) \cap NewHandlers(t, base) = {}
    /\ ~(t.baseline < base.baseline)
    /\ ~CommentCredit(t, base, {QualifiedName(h) : h \in Names(t.handlers) \ Rows(BasePrinter(base))})

RatchetChecks(t, base) == AllOf({
    Refuse("regressed", Len(Handwritten(t)) > Len(BaseSites(base))),
    Refuse("one handler per slice",
           /\ Growth(t, base) > 1
           /\ ~(Growth(t, base) = 2 /\ TwoVariants(t, NewHandlers(t, base), Retired(t, base)))),
    Refuse("retired nothing", RetiredNothing(t, base))})

InventoryChecks(t, base, resolved) ==
    LET hand == Handwritten(t)
        count(s, x) == Cardinality({i \in DOMAIN s : s[i] = x})
        bare == {r.node : r \in {p \in Names(t.printer) : ~p.text}}
    IN SealedChecks(t) \cup
       (IF resolved THEN RatchetChecks(t, base) ELSE {"no authoritative base"}) \cup AllOf({
       Refuse("ungoverned", ~(Names(hand) \subseteq Names(t.hand))),
       Refuse("stale site", ~(Names(t.hand) \subseteq Names(hand))),
       Refuse("duplicate site", \E s \in Names(t.hand) \cap Names(hand) : count(hand, s) > count(t.hand, s)),
       Refuse("handler count", Len(t.handlers) # Len(t.printer)),
       Refuse("handler identity", Names(t.handlers) # {Row(r) : r \in Names(t.printer)}),
       Refuse("payload blank", \E r \in Names(t.printer) : r.node = "Blank" /\ r.node \in t.framing /\ r.operands # 0),
       Refuse("laundered", ~(bare \subseteq t.framing)),
       Refuse("stale framing", ~(t.framing \subseteq bare))})

\* A model that is not the primary one is printed by generated handlers alone.
SecondaryChecks(t, model) ==
    LET kinds == Kinds(t, model)
        syms == [i \in DOMAIN kinds |-> kinds[i].node]
        rows == Handlers(t, model)
    IN AllOf({
       Refuse("header", model \notin t.expands),
       Refuse("duplicate kind", ~NoDuplicates(syms)),
       Refuse("ordinals", {kinds[i].ord : i \in DOMAIN kinds} # 0 .. Len(kinds) - 1),
       Refuse("secondary handlers", Names(syms) # {r.node : r \in Names(rows)}),
       Refuse("retains handwritten dispatch", \E c \in t.secondaryCases : c.model = model)})

\* The one kind that may lack a printer, once nothing raw is left to print it.
RawRetired(t) == t.baseline = 0 /\ t.comments = {}

PrimaryChecks(t) ==
    LET kinds == Kinds(t, Primary(t))
        syms == [i \in DOMAIN kinds |-> kinds[i].node]
        ords == [i \in DOMAIN kinds |-> kinds[i].ord]
        rows == Handlers(t, Primary(t))
        generated == [i \in DOMAIN rows |-> rows[i].node]
        missing == Names(syms) \ (Names(t.cases) \cup Names(generated))
    IN AllOf({
       Refuse("header", Primary(t) \notin t.expands),
       Refuse("duplicate kind", ~NoDuplicates(syms)),
       Refuse("ordinals", ~NoDuplicates(ords) \/ Names(ords) # 0 .. Len(ords) - 1),
       Refuse("duplicate case", ~NoDuplicates(t.cases)),
       Refuse("duplicate handler", ~NoDuplicates(generated)),
       Refuse("unreachable", ~(Names(generated) \subseteq Names(syms))),
       Refuse("retained fallback", Names(generated) \cap Names(t.cases) # {}),
       Refuse("no printer", missing \ (IF RawRetired(t) THEN {"Line"} ELSE {}) # {}),
       Refuse("drift", ~(Names(t.cases) \subseteq Names(syms)))})

\* What must be derivable from the records before anything is compared.
IdentityChecks(t) ==
    LET names == [i \in DOMAIN t.td.models |-> t.td.models[i].name]
        primaries == SelectSeq(t.td.models, LAMBDA m : m.primary)
    IN AllOf({
       Refuse("duplicate model", ~NoDuplicates(names)),
       Refuse("primary", Len(primaries) # 1),
       Refuse("undeclared printer model", ~({r.model : r \in Names(t.printer)} \subseteq Names(names))),
       Refuse("macros", {r.model : r \in Names(t.inc)} # Names(names))})

FreshChecks(t) == AllOf({
    Refuse("generator refuses", GeneratorCode(t.td) # Ok),
    Refuse("stale registry", GeneratorCode(t.td) = Ok /\ <<t.inc, t.printer>> # <<Render(t.td), RenderPrinter(t.td)>>)})

Evaluate(t, base, resolved) ==
    IF IdentityChecks(t) # {} THEN IdentityChecks(t)
    ELSE FreshChecks(t)
         \cup UNION {SecondaryChecks(t, m.name) : m \in {x \in Names(t.td.models) : ~x.primary}}
         \cup (IF Kinds(t, Primary(t)) = <<>> THEN {"no records"}
               ELSE PrimaryChecks(t) \cup InventoryChecks(t, base, resolved))

-----------------------------------------------------------------------------
Field(name, index) == [name |-> name, index |-> index]
Record(model, node, ord, gen, layout, text, fields) ==
    [target |-> "postgres", model |-> model, node |-> node, ord |-> ord, gen |-> gen, layout |-> layout,
     leaf |-> layout \notin Nesting, text |-> text, close |-> layout \in Nesting, fields |-> fields,
     uses |-> {fields[i].name : i \in DOMAIN fields}, list |-> "", feature |-> "code",
     items |-> <<>>, itemText |-> FALSE, itemUses |-> {}]

CleanRecords ==
    <<Record("stmt", "Raise", 0, FALSE, "line", TRUE, <<>>),
      Record("stmt", "Assign", 1, TRUE, "line", TRUE, <<Field("lhs", 0), Field("rhs", 1)>>),
      Record("stmt", "Blank", 2, TRUE, "blank", FALSE, <<>>),
      Record("stmt", "Guarded", 3, TRUE, "block", TRUE, <<Field("condition", 0)>>),
      [Record("decl", "Table", 0, TRUE, "framed-lines", TRUE, <<>>) EXCEPT
          !.items = <<Field("column", 0)>>, !.itemUses = {"column"}]>>

\* A build writes the generated files; the pull request records the handlers.
Built(t) == [t EXCEPT !.inc = Render(t.td), !.printer = RenderPrinter(t.td)]
Recorded(t) == [Built(t) EXCEPT !.handlers = [i \in DOMAIN Built(t).printer |-> Row(Built(t).printer[i])]]
Added(t, records) == Recorded([t EXCEPT !.td.records = @ \o records])

CleanTree ==
    Recorded([td |-> [records |-> CleanRecords, models |-> <<[name |-> "decl", primary |-> FALSE],
                                                            [name |-> "stmt", primary |-> TRUE]>>,
                      atoms |-> <<[mode |-> "Temporal", role |-> "Success", atom |-> "done"]>>],
              inc |-> <<>>, printer |-> <<>>, expands |-> {"decl", "stmt"}, tracked |-> TRUE,
              cases |-> <<"Raise">>, functions |-> {}, constructs |-> {"Body"}, boundaries |-> {},
              secondaryCases |-> {}, carrier |-> "raw", sealed |-> {}, handlers |-> <<>>, framing |-> {"Blank"},
              hand |-> <<Site("stmt", "Raise", "case"), Site("decl", "Body", "construct")>>,
              groups |-> {[retires |-> [model |-> "decl", node |-> "Body"],
                           variants |-> {[model |-> "decl", node |-> "Body"], [model |-> "decl", node |-> "BodyWithMemo"]}]},
              baseline |-> 1, comments |-> {"license"}])

\* One statement or declaration moves from handwritten printing to a record of its own.
Migrated(t) ==
    IF t.cases = <<>> THEN t
    ELSE Recorded([t EXCEPT !.td.records[1].gen = TRUE, !.cases = <<>>,
                            !.hand = SelectSeq(@, LAMBDA s : s.form # "case")])
Variants(t) ==
    IF t.constructs = {} THEN t
    ELSE Added([t EXCEPT !.constructs = {}, !.hand = SelectSeq(@, LAMBDA s : s.form # "construct")],
               <<Record("decl", "Body", 1, TRUE, "line", TRUE, <<>>),
                 Record("decl", "BodyWithMemo", 2, TRUE, "line", TRUE, <<>>)>>)
Decorated(t, feature) ==
    Added(t, <<[Record("stmt", "Note", Len(Kinds(t, "stmt")), TRUE, "line", TRUE, <<>>) EXCEPT !.feature = feature]>>)
\* A function that prints a kind without a case of its own, through a helper it calls by name.
Wrapper == {[name |-> "print", kinds |-> {"Raise"}, emits |-> FALSE, calls |-> {"render"}],
            [name |-> "render", kinds |-> {}, emits |-> TRUE, calls |-> {}]}

EditsOf(t) ==
    {Migrated(t), Variants(t), Decorated(t, "code"), Decorated([t EXCEPT !.comments = {}], "comment"),
     Decorated(Migrated(t), "code"),
     \* New handwritten printing, listed or not, direct, indirect or through a macro.
     [t EXCEPT !.cases = Append(@, "Raise")],
     [t EXCEPT !.cases = Append(@, "Assign"), !.hand = Append(@, Site("stmt", "Assign", "case"))],
     [t EXCEPT !.functions = Wrapper], [t EXCEPT !.functions = Wrapper, !.hand = Append(@, Site("stmt", "Raise", "body"))],
     [t EXCEPT !.boundaries = {"MacroEmitterBoundary"}], [t EXCEPT !.constructs = @ \cup {"Close"}],
     \* A dispatch by hand of a secondary model, which the scan of the sources does not see.
     [t EXCEPT !.secondaryCases = {[model |-> "decl", node |-> "Table"]}],
     \* The inventory alone.
     [t EXCEPT !.hand = SelectSeq(@, LAMBDA s : s.form # "construct")],
     [t EXCEPT !.handlers[1].node = "Renamed"],
     [t EXCEPT !.sealed = {Site("stmt", "Raise", "case")}, !.carrier = "passthrough",
               !.hand = SelectSeq(@, LAMBDA s : s.form # "case")],
     [t EXCEPT !.carrier = "raw"], [t EXCEPT !.baseline = 0], [t EXCEPT !.comments = {}],
     \* A record loses its literal text, with and without an entry of the framing list.
     Recorded([t EXCEPT !.td.records[2].text = FALSE]),
     Recorded([t EXCEPT !.td.records[2].text = FALSE, !.framing = @ \cup {"Assign"}]),
     \* A record changes without a build; the generated files leave the source tree; a model is not expanded.
     [t EXCEPT !.td.records[4].ord = 7], Built([t EXCEPT !.td.records[4].ord = 7]), [t EXCEPT !.tracked = FALSE],
     [t EXCEPT !.expands = {"stmt"}], [t EXCEPT !.td.models[1].primary = TRUE]}

\* The selftests: records the generator must refuse, and the exemption of a sealed case.
RecordMutations(t) ==
    {<<[t.td EXCEPT !.records[2].text = FALSE, !.records[2].uses = {}], "empty Syntax">>,
     <<[t.td EXCEPT !.records[2].layout = "paragraph"], "unsupported Layout">>,
     <<[t.td EXCEPT !.records[2].uses = @ \cup {"missing"}], "undeclared field">>,
     <<[t.td EXCEPT !.records[2].fields[2] = Field("lhs", 1)], "duplicate field">>,
     <<[t.td EXCEPT !.records[2].uses = {"lhs"}], "unused field">>,
     <<[t.td EXCEPT !.records[4].leaf = TRUE], "inconsistent with layout">>,
     <<[t.td EXCEPT !.records[2].leaf = FALSE], "inconsistent with layout">>,
     <<[t.td EXCEPT !.records[2].fields[2].index = 2], "dense">>}
SealProbes(t) ==
    LET seal == [t EXCEPT !.sealed = {Site("stmt", "Raise", "case")}]
    IN {<<[seal EXCEPT !.carrier = "raw"], "seal denied">>,
        <<[seal EXCEPT !.cases = <<>>, !.carrier = "passthrough"], "phantom seal">>,
        <<[seal EXCEPT !.carrier = "absent"], "seal denied">>}
ProbeOutcomes(t) ==
    {<<{GeneratorCode(m[1])}, m[2]>> : m \in RecordMutations(t)}
    \cup {<<SealedChecks(p[1]), p[2]>> : p \in SealProbes(t)}
    \cup {<<Evaluate(t, t, FALSE), "no authoritative base">>}

(***************************************************************************)
(* Each kind of the primary model has one printer, each kind of another    *)
(* model a generated one and no case by hand; every line of printing by    *)
(* hand is listed, or a sealed case that only passes its carrier through;  *)
(* the generated files are what the records say.                           *)
(***************************************************************************)
Sound(t) ==
    /\ \A r \in {x \in Names(t.td.records) : x.model = "stmt"} :
         Cardinality({i \in DOMAIN t.cases : t.cases[i] = r.node}) + (IF r.gen THEN 1 ELSE 0) = 1
    /\ \A r \in {x \in Names(t.td.records) : x.model # "stmt"} : r.gen /\ Row(r) \notin t.secondaryCases
    /\ t.boundaries = {}
    /\ \A k \in Names(t.cases) : \/ Site("stmt", k, "case") \in Names(t.hand)
                                 \/ Site("stmt", k, "case") \in t.sealed /\ t.carrier = "passthrough"
    /\ \A f \in t.functions : (f.kinds # {} /\ \E g \in t.functions : g.emits /\ (g = f \/ g.name \in f.calls))
                              => \A k \in f.kinds : Site("stmt", k, "body") \in Names(t.hand)
    /\ \A c \in t.constructs : Site("decl", c, "construct") \in Names(t.hand)
    /\ <<t.inc, t.printer>> = <<Render(t.td), RenderPrinter(t.td)>>

(***************************************************************************)
(* Printing by hand never grows, and a pull request adds a generated       *)
(* handler only if it retires the printing it replaces, or the executable  *)
(* baseline of the target falls, or a comment goes and the handler is of   *)
(* the comment class: one, or the two variants of one retired authority.   *)
(***************************************************************************)
Authorized(t, n) ==
    LET retired == Rows(t.hand) \ Rows(n.hand)
        added == Rows(n.printer) \ Rows(t.printer)
    IN /\ Cardinality(Names(n.hand)) <= Cardinality(Names(t.hand))
       /\ added # {} => \/ added \cap retired # {}
                        \/ n.baseline < t.baseline
                        \/ /\ (t.comments \ n.comments) # {}
                           /\ \A r \in Names(n.td.records) : Row(r) \in added => r.feature = "comment"
       /\ Cardinality(added) <= 2
       /\ Cardinality(added) = 2 => \E g \in n.groups : g.retires \in retired /\ g.variants = added

(***************************************************************************)
(* check_target_node_registry.py:299-308 has the ratchet compare the sets  *)
(* of handlers, so that "a pure relocation is correctly a no-op instead of *)
(* reading as a wholesale add that retires nothing": a pull request that   *)
(* changes nothing is not refused.                                         *)
(***************************************************************************)
NothingChanged(t) == Evaluate(t, t, TRUE) = {}
=============================================================================
