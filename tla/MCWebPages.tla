----------------------------- MODULE MCWebPages -----------------------------
(***************************************************************************)
(* Small instances of the pages of the web client for TLC, and the laws of *)
(* the functions behind the pages, looked at for one subject at a time.    *)
(***************************************************************************)
EXTENDS WebPages, SequencesExt, TLC

\* By symmetry every sync dialog begins with the reference u1 and the document c1, and the
\* first saved view with the content u1.
CONSTANTS Absent, u1, c1

VARIABLE subject

\* Schemas of the query builder: with names that collide, and without its blueprint.
Typed(type, enum) == [type |-> type, enum |-> enum]
Shape(properties, relations) == [properties |-> properties, relations |-> relations]
NoNames == [x \in {} |-> Absent]
QuerySchemas ==
  LET team == Shape("p" :> Typed("boolean", {}), NoNames) IN
  {[blueprints |-> "svc" :> Shape("p" :> Typed("string", {"word"}), "rel" :> "_team") @@ "_team" :> team, hierarchies |-> {"Owns"}],
   [blueprints |-> "svc" :> Shape("p" :> Typed("number", {}), "owns" :> "svc" @@ "rel" :> "svc") @@ "_team" :> Shape(NoNames, "Owns" :> "svc"),
    hierarchies |-> {"Owns", "rel"}],
   [blueprints |-> "_team" :> team, hierarchies |-> {}]}

RegistrySheets ==
  {[key |-> "k", items |-> <<"a">>, kinds |-> {"Component"}], [key |-> "k", items |-> <<"a", "A">>, kinds |-> {"Component"}],
   [key |-> " ", items |-> <<"b">>, kinds |-> {}], [key |-> "l", items |-> <<"A", "b">>, kinds |-> {"Component"}]}

BatchVersions == <<1, 2>>

\* Texts of the forms: blank or with blanks around, numerals, JSON, names and what is none.
FormTexts == {"", " ", "a", " a", "b", "a b", "?", "^1", "1", "2", "{s}", "{}", "true", "false", "null", "c", "g", "G", "h", "m", "n", "o", "p", "q", "r", "s", "t", "u", "x", "y", "z",
              "string", "number", "object", "[object Object]", "red", "count", "day", "date-time", "relative", "embedded-url", "open-api", "labeled-url", "url", "default",
              "backstage.io/orphan"}
Trimmed == [s \in FormTexts |-> CASE s = " " -> "" [] s = " a" -> "a" [] OTHER -> s]
Lowered == [s \in FormTexts |-> IF s = "G" THEN "g" ELSE s]
Numerals == "1" :> 1 @@ "2" :> 2
Parsed == "1" :> <<"number", "1">> @@ "2" :> <<"number", "2">> @@ "true" :> <<"boolean", "true">> @@ "{s}" :> <<"object", "{s}">> @@ "{}" :> <<"object", "{}">>
Plain == FormTexts \ {"", " ", " a", "a b", "?"}
FormatTexts == "url" :> {"u"} @@ "ipv4" :> {} @@ "^1" :> {"1"}

Exports == INSTANCE SourceDocuments
Contents == INSTANCE ListContents
Reports == INSTANCE ReportTables

vars == <<pageVars, subject>>
-----------------------------------------------------------------------------
(* Subjects of the laws *)

\* Documents a response, an export or a hand can hold.
Definition(id, extra) == Exports!Object([k \in {"identifier"} |-> Exports!Text(id)] @@ extra)
Entity(id, blueprint, extra) ==
  Exports!Object([k \in {"identifier", "blueprint"} |-> Exports!Text(IF k = "blueprint" THEN blueprint ELSE id)] @@ extra)
NoFields == [k \in {} |-> Exports!Null]
Named(names) == Exports!Object([n \in names |-> Exports!Text("x")])
BlueprintDocuments == {Definition("svc", NoFields),
                Definition("svc", "teamInheritance" :> Named({"path"}) @@ "_v" :> Exports!Text("x")),
                Definition("team", "calculationProperties" :> Named({"p"}))}
EntityDocuments == {Entity("e", blueprint, "properties" :> Named({"p", "q"}) @@ extra) :
               blueprint \in {"svc", "team"}, extra \in {NoFields, "id" :> Exports!Text("x") @@ "team" :> Exports!Null}}
SeqsUpTo(S, n) == UNION {[1 .. k -> S] : k \in 0 .. n}
ImportSubjects ==
  [law : {"import"}, blueprints : SeqsUpTo(BlueprintDocuments, 1), entities : SeqsUpTo(EntityDocuments, 2),
   registry : {[id \in {"svc", "team"} |-> {}], [id \in {"svc", "team"} |-> IF id = "svc" THEN {"q"} ELSE {}]}]

\* Blueprints with and without a hierarchy and tiers, whole or in part.
TierMaps == {Named({}), Named({"p"}), Named({"gone"})}
Tiers == {Exports!Object([k \in ks |-> IF k = "blueprint" THEN Exports!Text("1") ELSE m]) :
            ks \in SUBSET {"blueprint", "properties", "relations"}, m \in TierMaps}
SchemaFields == {"schema" :> Exports!Object("properties" :> Named({"p"}))}
Sided == {Definition("SVC", fields @@ hierarchy @@ tiers) : fields \in SchemaFields,
            hierarchy \in {NoFields, "hierarchyRelations" :> Named({}), "hierarchyRelations" :> Named({"h"})},
            tiers \in {NoFields} \cup {"tiers" :> t : t \in Tiers}}
SyncSubjects ==
  [law : {"sync"}, text : Sided \cup {Exports!List(<<Definition("team", NoFields), d>>) : d \in Sided},
   stored : {Exports!StoredForm(d) : d \in Sided}]

\* Names and values of characters of every class; patterns; places of diagnostics.
CompletionSchema ==
  [blueprints |-> "svc" :> [properties |-> "p" :> {"x"} @@ "q" :> {}, relations |-> {"rel"}]
                  @@ "team" :> [properties |-> "z" :> {}, relations |-> {"up"}], hierarchies |-> {"own"}]
Labels == {<<>>, <<":", "svc">>, <<":", "team">>}
TextSubjects ==
  [law : {"quoting"}, name : SeqsUpTo({"letter", "digit", "tick", "other"}, 3), reserved : BOOLEAN, value : {<<>>}]
    \cup [law : {"quoting"}, name : {<<>>}, reserved : {TRUE}, value : SeqsUpTo({"letter", "quote", "slash"}, 4)]
    \cup [law : {"completion"}, first : Labels, second : Labels, edge : {<<>>, <<":", "rel">>, <<":", "rel", "*">>, <<"*">>}]
    \cup [law : {"diagnostics"}, lines : UNION {[1 .. k -> 0 .. 2] : k \in 1 .. 2},
          at : [line : 0 .. 3, column : {0, 1, 9}, endLine : {0, 1, 3}, endColumn : {0, 3}]]

\* Filters over two kinds and two blueprints.
AllKinds == {"k1", "k2"}
FilterStates == Contents!Controls(AllKinds, {"x"}, {"v", "w"})
FilterSubjects ==
  [law : {"lens"}, state : FilterStates, other : FilterStates]
    \cup [law : {"asked"}, registry : {[b \in bs |-> IF b = "svc" THEN t ELSE 3 * t] : bs \in {{}, {"svc"}, {"svc", "team"}}, t \in {0, 1}},
          loading : BOOLEAN, hidden : SUBSET {"svc", "team", "gone"}, focus : {0, 1, 2, 9}]
    \cup [law : {"tier"}, tiers : UNION {[fs -> 1 .. 4] : fs \in SUBSET {"p", "relation"}},
          values : [{"p", "relation"} -> {"absent", "text", "blank", "emptyList", "listOfText"}]]
    \cup [law : {"kept"}, types : [AllKinds -> SUBSET {"v", "w"}], kinds : SUBSET AllKinds, current : {"", "v", "gone"}]


\* Blueprints of four properties and a computed one; rows and their writes; lists to read whole.
Property(n, type, tier) == [id |-> n, kind |-> "schema", type |-> type, tier |-> tier, enum |-> n = 1]
Computed(of) == [id |-> of, kind |-> of, type |-> "object", tier |-> 0, enum |-> FALSE]
TableSubjects ==
  [law : {"columns"}, focus : {0, 1, 2},
   blueprint : {[properties |-> [n \in 1 .. 4 |-> Property(n, IF n \in skipped THEN "array" ELSE "string", tiers[n])],
                 mirrors |-> mirrors, calculations |-> <<Computed("calculation")>>, aggregations |-> <<>>] :
                tiers \in [1 .. 4 -> 0 .. 2], skipped \in {{}, {2}}, mirrors \in {<<>>, <<Computed("mirror")>>}}]
    \cup [law : {"operations"}, row : [source : BOOLEAN, sso : BOOLEAN, system : BOOLEAN], self : BOOLEAN, admin : BOOLEAN]
    \cup [law : {"marks"}, row : [source : BOOLEAN, lastSyncedAt : {0}, updatedAt : {1}], writes : SeqsUpTo({"sync", "save", "newSource"}, 3)]
    \cup [law : {"whole"}, length : 0 .. 7, size : 1 .. 3, max : {4, 9}]


\* Reports whose rows repeat codes and classes, or have nothing to show.
CodeLists == {<<>>, <<"SOURCE_MISSING">>, <<"UNKNOWN_PROPERTY", "OWNERSHIP_UNRESOLVED", "UNKNOWN_PROPERTY">>}
ReportRows(id) == {[id |-> id, findings |-> codes] : codes \in CodeLists}
EntityReports ==
  {[entities |-> <<e>>, blueprints |-> <<[id |-> 1, findings |-> <<"MIRROR_PATH_STALE">>]>>,
    savedQueries |-> <<[id |-> 1, createdBy |-> by, query |-> "q", diagnostics |-> d]>>,
    mappings |-> <<[id |-> 1, findings |-> f, drift |-> dr]>>] :
     e \in ReportRows(1), by \in {1, 2}, d \in {<<>>, <<"UNKNOWN_LABEL">>}, f \in {<<>>, <<"PAIR_DUPLICATE">>}, dr \in {<<>>, <<"KIND_UNMAPPED", "KIND_UNMAPPED">>}}
FileFindings == {[file |-> f, status |-> s, field |-> "spec.owner"] : f \in {1, 2}, s \in {"MISSING", "STRUCTURE_INVALID"}}
ConversionRow == [index : {0}, status : {"CONVERTED", "SKIPPED", "INVALID"}]
ReportSubjects ==
  [law : {"report"}, report : EntityReports, who : [id : {1}, admin : BOOLEAN]]
  \cup [law : {"files"}, findings : SeqsUpTo(FileFindings, 4)]
  \cup [law : {"conversion"}, rows : {[i \in DOMAIN s |-> [s[i] EXCEPT !.index = i]] : s \in SeqsUpTo(ConversionRow, 4)}, max : {2}]
  \cup [law : {"window"}, heights : SeqsUpTo({1, 2}, 5), threshold : {3}, overscan : {0, 1}]
  \cup [law : {"mapping"}, values : [name : {0, 1, 100, 101}, document : {Reports!EmptyDocument, [is |-> "object", value |-> <<"p">>],
                                     [is |-> "blank"], [is |-> "value"], [is |-> "syntax"]}]]


\* Rows of a blueprint's form with what was typed while they had other types.
Merged(fs) == FoldLeft(LAMBDA f, g : f @@ g, [x \in {} |-> ""], fs)
Untyped == [x \in {} |-> ""]
TypedStrings == {Untyped, "format" :> "date-time" @@ "dateFormat" :> "relative", "spec" :> "embedded-url" @@ "specClientId" :> "a",
                 "spec" :> "open-api" @@ "specClientId" :> "a" @@ "dateFormat" :> "relative", "minLength" :> "2" @@ "maxLength" :> "1"}
TypedEnums == {Untyped, "enumValues" :> <<"1", "x">> @@ "enumColors" :> ("1" :> "red" @@ "z" :> "red") @@ "defaultText" :> "1",
               "enumColors" :> ("z" :> "red") @@ "defaultText" :> "{s}"}
TypedArrays == {Untyped, "defaultList" :> <<"true">>} \cup {"itemsType" :> t @@ "itemsFormat" :> "url" @@ "defaultList" :> <<"1", "x">> : t \in {"string", "number"}}
TypedObjects == {Untyped, "objectFormat" :> "labeled-url" @@ "objectSchemaJson" :> "{s}" @@ "defaultBool" :> "true"}
PropertyDrafts ==
  {[id |-> "p", type |-> t, required |-> FALSE, tier |-> 0, at |-> Merged(<<s, e, a, o>>)] :
     t \in BlueprintPage!PROPERTY_TYPES, s \in TypedStrings, e \in TypedEnums, a \in TypedArrays, o \in TypedObjects}
StoredProperties ==
  {BlueprintPage!propertyDefinitionFor(d) : d \in PropertyDrafts}
  \cup {[type |-> "array", at |-> "itemsType" :> <<"string", "object">> @@ "default" :> <<<<k, "{}">>>> @@ "itemsEnum" :> <<"string", "a">>] : k \in {"object", "string"}}
  \cup {[type |-> "string", at |-> "spec" :> <<"string", "open-api">> @@ "specTokenUrl" :> <<"string", "a">>]}
FormRows(ids) == {[id |-> id, type |-> t, required |-> t = "string", tier |-> 1, at |-> at] :
                    id \in ids, t \in {"string", "number"}, at \in {"title" :> " a", "title" :> "a" @@ "minLength" :> "2" @@ "maxLength" :> "1"}}
Relation(id, many) == [id |-> id, title |-> "a", target |-> "t", required |-> FALSE, many |-> many, tier |-> 2]
RelationRows == {Relation(id, m) : id \in {"r", "s"}, m \in BOOLEAN}
Mirror(id) == [id |-> id, title |-> "a", path |-> "r"]
Calculation(colors) ==
  [id |-> "c", title |-> "a", type |-> "number", format |-> "", spec |-> "open-api", calculation |-> "x", colorized |-> FALSE, colorsJson |-> colors]
Aggregation ==
  [id |-> "m", title |-> "a", target |-> "t", calculationBy |-> "entities", func |-> "count", property |-> "", averageOf |-> "day", measureTimeBy |-> "",
   queryJson |-> "{}", pathFilterJson |-> ""]
BlueprintForms ==
  {[identifier |-> "a", title |-> t, properties |-> ps, relations |-> rs, mirrorProperties |-> ms, calculationProperties |-> ca[1], aggregationProperties |-> ca[2],
    ownershipType |-> o, ownershipTitle |-> "", ownershipPath |-> IF o = "Inherited" THEN "r" ELSE "", hierarchyRelations |-> "h" :> "r", tier |-> 1] :
     t \in {"a"}, ps \in SeqsUpTo(FormRows({"p"}), 1) \cup {<<x, y>> : x \in FormRows({"p"}), y \in FormRows({"q"})} \cup {<<x, x>> : x \in FormRows({"p", ""})},
     rs \in SeqsUpTo(RelationRows, 1) \cup {<<x, Relation("r", FALSE)>> : x \in RelationRows}, ms \in {<<>>, <<Mirror("p")>>, <<Mirror("m")>>},
     ca \in {<< <<>>, <<>> >>, << <<>>, <<Aggregation>> >>, << <<Calculation("{s}")>>, <<>> >>, << <<Calculation("{}")>>, <<Aggregation>> >>, << <<Calculation("?")>>, <<>> >>}, o \in {"", "Inherited"}}
BlueprintSubjects ==
  [law : {"property"}, draft : PropertyDrafts] \cup [law : {"definition"}, definition : StoredProperties]
  \cup [law : {"blueprint"}, values : BlueprintForms]


\* EntityDocuments of a blueprint with one property, "p", a relation, "r", and a computed property, "c".
PropertyDefinitions ==
  {[type |-> t, items |-> i, format |-> f, pattern |-> "", enum |-> e, min |-> n, max |-> 9, unique |-> u, default |-> <<"none", "">>] :
     t \in {"string", "number", "boolean", "object"}, i \in {""}, f \in {"", "url", "labeled-url", "team"}, e \in {{}, {"1", "a"}}, n \in {0, 2}, u \in {FALSE}}
  \cup {[type |-> "string", items |-> "", format |-> "", pattern |-> "^1", enum |-> {}, min |-> 0, max |-> 9, unique |-> FALSE, default |-> <<"none", "">>]}
  \cup {[type |-> "array", items |-> i, format |-> f, pattern |-> "", enum |-> e, min |-> n, max |-> 9, unique |-> u, default |-> <<"none", "">>] :
     i \in {"string", "number", "boolean", "object"}, f \in {"", "team"}, e \in {{}, {"1", "a"}}, n \in {0, 2}, u \in BOOLEAN}
Link(k) == <<"object", [x \in k |-> "u"]>>
PropertyValues ==
  {<<"string", s>> : s \in {"", "a", " a", "u"}} \cup {<<"number", "1">>, <<"boolean", "false">>, <<"null", "">>, <<"list", <<>>>>}
  \cup {<<"list", <<v>>>> : v \in {<<"string", "1">>, <<"number", "1">>, <<"boolean", "true">>, Link({})}}
  \cup {Link({}), Link({"url"}), Link({"url", "displayText"}), Link({"k"})}
OfDefinition(def, required, many, ownership, tier) ==
  [properties |-> "p" :> def, relations |-> "r" :> [many |-> many, required |-> required], required |-> IF required THEN {"p"} ELSE {},
   computed |-> {"c"}, ownership |-> ownership, tiers |-> <<"properties", "p">> :> tier @@ <<"relations", "r">> :> tier]
StoredEntities == {[properties |-> p, relations |-> "r" :> <<"string", "x">>, team |-> t] :
                     p \in {"p" :> v @@ "c" :> <<"number", "1">> : v \in PropertyValues} \cup {"q" :> v : v \in PropertyValues},
                     t \in {<<"none", "">>, <<"string", "a">>, <<"list", <<"a", " ">>>>}}
Typing ==
  {[id |-> "p", text |-> s, bool |-> "", list |-> <<>>, json |-> <<"none", "">>, unknown |-> FALSE] : s \in {" ", "1", "a", "u"}}
  \cup {[id |-> "p", text |-> "", bool |-> x, list |-> l, json |-> j, unknown |-> FALSE] :
          x \in {"", "true"}, l \in SeqsUpTo({"1", "true"}, 2), j \in {<<"none", "">>, <<"broken", "">>, Link({"url"}), Link({"k"}), <<"list", <<Link({})>>>>}}
FormValues(ds, singles) == {[properties |-> <<d>>, relations |-> <<[id |-> "r", single |-> s, many |-> <<>>]>>, team |-> <<>>] : d \in ds, s \in singles}
EntityDrafts == {[id |-> "p", text |-> s, bool |-> "", list |-> <<>>, json |-> <<"none", "">>, unknown |-> FALSE] : s \in {"", "a", "1"}}
EntityFindings == SeqsUpTo({[field |-> <<"properties", i>>, code |-> c, from |-> "s"] : i \in {"p", "r"}, c \in {"x", "y"}}, 2)
ANumber == [type |-> "number", items |-> "", format |-> "", pattern |-> "", enum |-> {}, min |-> 0, max |-> 9, unique |-> FALSE, default |-> <<"none", "">>]
EntitySubjects ==
  [law : {"opened"}, entity : StoredEntities, blueprint : {OfDefinition(d, FALSE, FALSE, o, 0) : d \in PropertyDefinitions, o \in {"Direct", "Inherited"}}]
  \cup [law : {"typed"}, values : FormValues(Typing, {"", "x"}), blueprint : {OfDefinition(d, r, r, "", 0) : d \in PropertyDefinitions, r \in BOOLEAN}, pool : {{"1"}}]
  \cup [law : {"link"}, box : {<<"none", "">>, <<"broken", "">>, Link({"url"}), Link({"url", "displayText"}), Link({"k"})}, key : {"url", "displayText"}, text : {"", " a", "u"}]
  \cup [law : {"folded"}, renders : SeqsUpTo([focus : 0 .. 2, values : FormValues(EntityDrafts, {""})], 3), tier : {0, 2}, findings : {<<>>, <<[field |-> <<"relations", "r">>, code |-> "x"]>>}]
  \cup [law : {"findings"}, stale : EntityFindings, saved : {[i \in DOMAIN s |-> [s[i] EXCEPT !.from = "r"]] : s \in EntityFindings}, values : FormValues(EntityDrafts, {""})]


\* Catalog files: fields typed alike whatever the kind, labels and their registry, findings.
FieldText(single, list) ==
  [f \in UNION Range(CatalogPage!KIND_FIELDS) |-> CASE f \in CatalogPage!RELATION_FIELDS -> list [] f = "profile" -> <<"", single, single>> [] OTHER -> single]
FileForms(kinds, singles, lists, labels, tags) ==
  {[kind |-> k, name |-> "a", namespace |-> "", at |-> [FieldText(s, l) EXCEPT !["owner"] = o], labels |-> r, annotations |-> a, tags |-> t, links |-> n] :
     k \in kinds, s \in singles, l \in lists, o \in singles, r \in labels, a \in {<<>>, <<[key |-> "backstage.io/orphan", value |-> "a"]>>}, t \in tags,
     n \in {<<>>, <<[url |-> " a", title |-> " ", icon |-> ""], [url |-> " ", title |-> "a", icon |-> "?"]>>}}
LabelRow(k, v) == [key |-> k, value |-> v]
LabelRegistry == [x |-> [kinds |-> {"Component", "API"}, values |-> {"a", "b"}], y |-> [kinds |-> {"API"}, values |-> {"c"}]]
LabelOps ==
  {[do |-> "add", at |-> 0, to |-> ""]} \cup [do : {"key"}, at : 1 .. 2, to : {"x", "y"}] \cup [do : {"value"}, at : 1 .. 2, to : {"a", "c"}]
  \cup {[do |-> "remove", at |-> 1, to |-> ""]} \cup [do : {"kind"}, at : {0}, to : {"API", "User"}]
FindingRefs(field) == IF field = "metadata.labels" THEN {<<"x">>, <<"x", "a">>} ELSE {<<"a">>, <<"b">>}
CheckFindings == UNION {[field : {f}, reference : FindingRefs(f), status : {"MISSING", "STALE"}] : f \in {"metadata.labels", "metadata.tags", "dependsOn", "document"}}
Identities == [kind : {"Group", "User", "Domain"}, namespace : {"default", "n"}, name : {"g", "G"}]
OfKind(k) == [CatalogPage!emptyCatalogFileForm EXCEPT !.kind = k]
CatalogSubjects ==
  [law : {"file"}, values : FileForms(CatalogPage!ENTITY_KINDS, {"", " ", " a", "a b", "?"}, {<<>>, <<"a", " ">>, <<"?">>}, {<<>>, <<LabelRow("x", "a")>>, <<LabelRow("", "a")>>}, {<<>>, <<"?">>})]
  \cup [law : {"labels"}, values : {[OfKind("Component") EXCEPT !.labels = r] : r \in {<<>>, <<LabelRow("x", "z")>>, <<LabelRow("o", "o")>>}}, ops : SeqsUpTo(LabelOps, 3)]
  \cup [law : {"pickers"}, values : FileForms({"Component", "User"}, {"", " a", "b"}, {<<>>}, {<<>>}, SeqsUpTo({"a", "b"}, 2)), lifecycles : SUBSET {"a", "b"},
        categories : SUBSET [kinds : {{"Component"}, {"API"}}, tags : {{"a"}, {"a", "b"}}]]
  \cup [law : {"refs"}, field : DOMAIN CatalogPage!TARGET_KINDS, kind : {"Group", "Domain"}, name : {"", "g", "G"}, namespace : {"", "default", "n"}]
  \cup [law : {"check"}, findings : SeqsUpTo(CheckFindings, 2), list : SeqsUpTo({"a", "b", "?"}, 2), field : {"tags", "dependsOn"}]


Subjects == ImportSubjects \cup SyncSubjects \cup TextSubjects \cup FilterSubjects \cup TableSubjects \cup ReportSubjects \cup BlueprintSubjects \cup EntitySubjects \cup CatalogSubjects

-----------------------------------------------------------------------------
MCInit ==
  \/ PageInit /\ subject = "rest" /\ (part = "sync" => row.url = u1 /\ row.doc = c1) /\ (part = "views" => views[1].content = u1)
  \/ /\ subject \in Subjects /\ part = "laws"
     /\ EditorRest /\ SyncRest /\ BatchRest /\ BuilderRest /\ QueryRest /\ ViewRest /\ ListRest /\ FlagRest /\ KeyRest /\ DictionaryRest /\ ModalRest

Interchangeable == Permutations(InFlight)

MCNext == PageNext /\ UNCHANGED subject

MCSpec == MCInit /\ [][MCNext]_vars

-----------------------------------------------------------------------------
(* Properties *)

\* The functions behind the pages keep their laws for every subject.
LawsHold ==
  part = "laws" =>
    CASE subject.law = "import" -> Exports!ExportsComeBack(subject.blueprints, subject.entities, subject.registry)
      [] subject.law = "sync" -> Exports!SyncedStaysInSync(subject.text, subject.stored)
      [] subject.law = "quoting" -> Builder!ReadsBack(subject.name, subject.reserved, subject.value)
      [] subject.law = "completion" -> Builder!OptionsFit(subject, CompletionSchema)
      [] subject.law = "diagnostics" -> Builder!MarksTheText(subject.at, subject.lines)
      [] subject.law = "lens" -> Contents!LensRestores(subject.state, subject.other, AllKinds)
      [] subject.law = "asked" -> Contents!AsksForWhatShows(IF subject.loading THEN {} ELSE DOMAIN subject.registry, subject.loading, subject.hidden, subject.focus, subject.registry)
      [] subject.law = "tier" -> Contents!FillTierIsGreatest(subject.tiers, subject.values)
      [] subject.law = "kept" -> Contents!KeptStaysOffered(subject.types, subject.kinds, subject.current)
      [] subject.law = "columns" -> Contents!ColumnsAreTheUrgentOnes(subject.blueprint, subject.focus)
      [] subject.law = "operations" -> Contents!OffersWhatIsServed(subject.row, subject.self, subject.admin)
      [] subject.law = "marks" -> Contents!MarksLocalChanges(subject.row, subject.writes)
      [] subject.law = "whole" -> Contents!ReadsItAll([n \in 1 .. subject.length |-> n], subject.size, subject.max)
      [] subject.law = "report" -> Reports!ChipsAddUp(subject.report, subject.who)
      [] subject.law = "files" -> Reports!FilesKeepTheirFindings(subject.findings)
      [] subject.law = "conversion" -> Reports!CutsOnlyCleanRows(subject.rows, subject.max)
      [] subject.law = "window" -> Reports!WindowsFillTheList(subject.heights, subject.threshold, subject.overscan)
      [] subject.law = "mapping" -> Reports!MappingsAreSentAsRead(subject.values)
      [] subject.law = "property" -> BlueprintPage!SendsWhatItShows(subject.draft)
      [] subject.law = "definition" -> BlueprintPage!OpensAsStored(subject.definition)
      [] subject.law = "blueprint" -> /\ BlueprintPage!NoRowIsLost(subject.values) /\ BlueprintPage!HierarchiesAreShown(subject.values, {"h", "i"})
                                      /\ BlueprintPage!ErrorsAreRevealed(subject.values) /\ BlueprintPage!OpensAsSent(subject.values)
      [] subject.law = "opened" -> EntityPage!SavesAsOpened(subject.entity, subject.blueprint)
      [] subject.law = "typed" -> EntityPage!NothingTypedIsDropped(subject.values, subject.blueprint, subject.pool)
      [] subject.law = "link" -> EntityPage!LinksKeepBothTexts(subject.box, subject.key, subject.text)
      [] subject.law = "folded" -> EntityPage!RejectedStaysInView(subject.renders, OfDefinition(ANumber, FALSE, FALSE, "", subject.tier), subject.findings)
      [] subject.law = "findings" -> EntityPage!FindingsAreWorn(subject.stale, subject.saved, subject.values, OfDefinition(ANumber, TRUE, FALSE, "", 1))
      [] subject.law = "file" -> CatalogPage!SendsItsKind(subject.values) /\ CatalogPage!OpensAsSent(subject.values)
      [] subject.law = "labels" -> CatalogPage!LabelsStayApart(LabelRegistry, subject.values, subject.ops)
      [] subject.law = "pickers" -> CatalogPage!PickersKeepTheirValue([Component |-> {"a"}], subject.lifecycles, subject.categories, subject.values)
      [] subject.law = "refs" -> CatalogPage!NothingRefersToItself(Identities, subject.field, [OfKind(subject.kind) EXCEPT !.name = subject.name, !.namespace = subject.namespace], "default")
      [] subject.law = "check" -> CatalogPage!FindingsReachTheirControl(subject.findings, subject.list, subject.field, {v \in {"a", "b", "?"} : ~CatalogPage!isValidTag(v)})
=============================================================================
